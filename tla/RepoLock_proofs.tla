--------------------------- MODULE RepoLock_proofs ---------------------------
(***************************************************************************)
(* The properties of RepoLock for every set of processes, goroutines, keys *)
(* and base directories, and for both kinds of file lock.                  *)
(***************************************************************************)
EXTENDS RepoLock, TLAPS

Inside == {"file", "held", "unlocked"}

\* A goroutine past the select has its token in the channel.
TokenPut == \A t \in Threads : pc[t] \in Inside => Slot(t) \in procLocks

\* A channel holds one token, so one goroutine at most is past the select.
TokenUnique ==
    \A t, u \in Threads :
        pc[t] \in Inside /\ pc[u] \in Inside /\ Slot(t) = Slot(u) => t = u

\* The handles that own a file lock are those of the callers inside.
OwnersAreHolders == \A t \in Threads : t \in flocks <=> pc[t] = "held"

\* The OS never grants one file to two processes.
FileHasOneProc ==
    \A t, u \in flocks : File(t) = File(u) => ProcOf[t] = ProcOf[u]

IInv ==
    /\ TypeOK
    /\ TokenPut
    /\ NoLeakedToken
    /\ TokenUnique
    /\ OwnersAreHolders
    /\ FileHasOneProc

\* The file lock's owner and the token's owner are the same goroutine.
LEMMA SameSlot ==
    ASSUME IInv,
           NEW t \in Threads, NEW u \in Threads,
           pc[t] \in Inside, pc[u] \in Inside,
           ProcOf[t] = ProcOf[u], File(t) = File(u)
    PROVE  t = u
<1>1. Slot(t) = Slot(u)
  BY DEF File, Slot
<1> QED
  BY <1>1 DEF IInv, TokenUnique

\* What is granted is owned by nobody: in the caller's own process by the
\* channel, in the others by the OS.
LEMMA GrantedIsFree ==
    ASSUME IInv, NEW t \in Threads, pc[t] = "file", Grantable(t), NEW u \in flocks
    PROVE  File(u) # File(t)
<1> SUFFICES ASSUME File(u) = File(t) PROVE FALSE
  OBVIOUS
<1>1. u \in Threads /\ pc[u] = "held"
  BY DEF IInv, TypeOK, OwnersAreHolders
<1>2. ProcOf[u] = ProcOf[t]
  BY DEF Grantable
<1>3. u = t
  BY <1>1, <1>2, SameSlot DEF Inside
<1> QED
  BY <1>1, <1>3

\* Unlocking a handle unlocks no other goroutine, even where the OS unlocks
\* the whole process.
LEMMA UnlockIsOwn ==
    ASSUME IInv, NEW t \in Threads, pc[t] = "held"
    PROVE  UnlockedBy(t) = {t}
<1>1. \A u \in flocks : ProcOf[u] = ProcOf[t] /\ File(u) = File(t) => u = t
  <2> SUFFICES ASSUME NEW u \in flocks, ProcOf[u] = ProcOf[t], File(u) = File(t)
               PROVE  u = t
    OBVIOUS
  <2>1. u \in Threads /\ pc[u] = "held"
    BY DEF IInv, TypeOK, OwnersAreHolders
  <2> QED
    BY <2>1, SameSlot DEF Inside
<1>2. t \in flocks
  BY DEF IInv, OwnersAreHolders
<1> QED
  BY <1>1, <1>2 DEF UnlockedBy

LEMMA InitEstablishes == Init => IInv
<1> SUFFICES ASSUME Init PROVE IInv
  OBVIOUS
<1>1. TypeOK
  BY DEF Init, TypeOK, PCs
<1>2. TokenPut /\ TokenUnique /\ OwnersAreHolders
  BY DEF Init, TokenPut, TokenUnique, OwnersAreHolders, Inside
<1>3. NoLeakedToken /\ FileHasOneProc
  BY DEF Init, NoLeakedToken, FileHasOneProc
<1> QED
  BY <1>1, <1>2, <1>3 DEF IInv

\* Steps of t that change neither a lock nor anyone's being inside.
LEMMA QuietStep ==
    ASSUME IInv, TypeOK',
           UNCHANGED <<procLocks, flocks>>,
           \A u \in Threads :
               /\ (pc'[u] = "held") <=> (pc[u] = "held")
               /\ (pc'[u] \in Inside) <=> (pc[u] \in Inside)
               /\ pc[u] \in Inside => pc'[u] = pc[u] /\ key'[u] = key[u]
    PROVE  IInv'
<1>1. TokenPut' /\ TokenUnique'
  BY DEF IInv, TokenPut, TokenUnique, Slot
<1>2. NoLeakedToken'
  <2> SUFFICES ASSUME NEW s \in procLocks'
               PROVE  \E t \in Threads : Slot(t)' = s /\ pc'[t] \in Inside
    BY DEF NoLeakedToken, Inside
  <2>1. PICK t \in Threads : Slot(t) = s /\ pc[t] \in Inside
    BY DEF IInv, NoLeakedToken, Inside
  <2> QED
    BY <2>1 DEF Slot
<1>3. OwnersAreHolders'
  BY DEF IInv, OwnersAreHolders
<1>4. FileHasOneProc'
  <2>1. \A t \in flocks : t \in Threads /\ pc[t] \in Inside
    BY DEF IInv, TypeOK, OwnersAreHolders, Inside
  <2> QED
    BY <2>1 DEF IInv, FileHasOneProc, File
<1> QED
  BY <1>1, <1>2, <1>3, <1>4 DEF IInv

LEMMA TypeStep == TypeOK /\ [Next]_vars => TypeOK'
<1> SUFFICES ASSUME TypeOK, [Next]_vars PROVE TypeOK'
  OBVIOUS
<1> USE DEF TypeOK, PCs, Goto
<1>1. ASSUME NEW t \in Threads, Call(t) PROVE TypeOK'
  BY <1>1 DEF Call
<1>2. \A t \in Threads : Slot(t) \in Procs \X Keys
  BY LockAssumption DEF Slot
<1>3. ASSUME NEW t \in Threads,
             \/ TakeSlot(t) \/ AbortSlot(t) \/ AbortFile(t) \/ FileError(t)
             \/ ReleaseSlot(t)
      PROVE TypeOK'
  BY <1>2, <1>3 DEF TakeSlot, AbortSlot, AbortFile, FileError, GiveUp, ReleaseSlot
<1>4. ASSUME NEW t \in Threads, TakeFile(t) \/ Cancel(t) PROVE TypeOK'
  BY <1>4 DEF TakeFile, Cancel
<1>7. ASSUME NEW t \in Threads, Unlock(t) PROVE TypeOK'
  <2>1. flocks' \subseteq flocks \ {t}
    BY <1>7 DEF Unlock, UnlockedBy
  <2> QED
    BY <1>7, <2>1 DEF Unlock
<1>5. ASSUME NEW p \in Procs, Crash(p) PROVE TypeOK'
  BY <1>5 DEF Crash
<1>6. CASE UNCHANGED vars
  BY <1>6 DEF vars
<1> QED
  BY <1>1, <1>3, <1>4, <1>5, <1>6, <1>7 DEF Next

LEMMA TakeSlotKeeps ==
    ASSUME IInv, TypeOK', NEW t \in Threads, TakeSlot(t)
    PROVE  IInv'
<1> USE DEF Goto
<1>0. /\ pc[t] = "sem" /\ pc' = [pc EXCEPT ![t] = "file"] /\ Slot(t) \notin procLocks
      /\ procLocks' = procLocks \cup {Slot(t)} /\ UNCHANGED <<key, flocks>>
      /\ pc \in [Threads -> PCs]
  BY DEF TakeSlot, IInv, TypeOK
<1>1. \A u \in Threads : Slot(u)' = Slot(u) /\ File(u)' = File(u)
  BY <1>0 DEF Slot, File
<1>2. \A u \in Threads \ {t} : pc[u] \in Inside => Slot(u) # Slot(t)
  BY <1>0 DEF IInv, TokenPut
<1>3. TokenPut' /\ TokenUnique'
  BY <1>0, <1>1, <1>2 DEF IInv, TokenPut, TokenUnique, Inside
<1>4. NoLeakedToken'
  BY <1>0, <1>1 DEF IInv, NoLeakedToken
<1>5. OwnersAreHolders' /\ FileHasOneProc'
  BY <1>0, <1>1 DEF IInv, TypeOK, OwnersAreHolders, FileHasOneProc
<1> QED
  BY <1>3, <1>4, <1>5 DEF IInv

LEMMA TakeFileKeeps ==
    ASSUME IInv, TypeOK', NEW t \in Threads, TakeFile(t)
    PROVE  IInv'
<1>0. /\ pc[t] = "file" /\ pc' = [pc EXCEPT ![t] = "held"]
      /\ flocks' = flocks \cup {t} /\ UNCHANGED <<key, procLocks>>
      /\ pc \in [Threads -> PCs] /\ flocks \subseteq Threads
  BY DEF TakeFile, IInv, TypeOK, Goto
<1>1. \A u \in Threads : Slot(u)' = Slot(u) /\ File(u)' = File(u)
  BY <1>0 DEF Slot, File
<1>2. TokenPut' /\ TokenUnique'
  BY <1>0, <1>1 DEF IInv, TokenPut, TokenUnique, Inside
<1>3. NoLeakedToken'
  BY <1>0, <1>1 DEF IInv, NoLeakedToken
<1>4. OwnersAreHolders'
  BY <1>0 DEF IInv, OwnersAreHolders
<1>5. \A u \in flocks : File(u) # File(t)
  BY <1>0, GrantedIsFree DEF TakeFile
<1>6. FileHasOneProc'
  BY <1>0, <1>1, <1>5 DEF IInv, FileHasOneProc
<1> QED
  BY <1>2, <1>3, <1>4, <1>6 DEF IInv

LEMMA UnlockKeeps ==
    ASSUME IInv, TypeOK', NEW t \in Threads, Unlock(t)
    PROVE  IInv'
<1>0. /\ pc[t] = "held" /\ pc' = [pc EXCEPT ![t] = "unlocked"]
      /\ flocks' = flocks \ {t} /\ UNCHANGED <<key, procLocks>>
      /\ pc \in [Threads -> PCs] /\ flocks \subseteq Threads
  BY UnlockIsOwn DEF Unlock, IInv, TypeOK, Goto
<1>1. \A u \in Threads : Slot(u)' = Slot(u) /\ File(u)' = File(u)
  BY <1>0 DEF Slot, File
<1>2. TokenPut' /\ TokenUnique'
  BY <1>0, <1>1 DEF IInv, TokenPut, TokenUnique, Inside
<1>3. NoLeakedToken'
  BY <1>0, <1>1 DEF IInv, NoLeakedToken
<1>4. OwnersAreHolders' /\ FileHasOneProc'
  BY <1>0, <1>1 DEF IInv, OwnersAreHolders, FileHasOneProc
<1> QED
  BY <1>2, <1>3, <1>4 DEF IInv

\* Both ways of giving the token back: an error return and the release.
LEMMA TokenBackKeeps ==
    ASSUME IInv, TypeOK', NEW t \in Threads, pc[t] \in {"file", "unlocked"},
           procLocks' = procLocks \ {Slot(t)}, Goto(t, "idle"),
           UNCHANGED <<key, flocks>>
    PROVE  IInv'
<1>0. pc' = [pc EXCEPT ![t] = "idle"] /\ pc \in [Threads -> PCs] /\ flocks \subseteq Threads
  BY DEF IInv, TypeOK, Goto
<1>1. \A u \in Threads : Slot(u)' = Slot(u) /\ File(u)' = File(u)
  BY DEF Slot, File
<1>2. \A u \in Threads \ {t} : pc[u] \in Inside => Slot(u) # Slot(t)
  BY DEF IInv, TokenUnique, Inside
<1>3. TokenPut' /\ TokenUnique'
  BY <1>0, <1>1, <1>2 DEF IInv, TokenPut, TokenUnique, Inside
<1>4. NoLeakedToken'
  BY <1>0, <1>1 DEF IInv, NoLeakedToken
<1>5. OwnersAreHolders' /\ FileHasOneProc'
  BY <1>0, <1>1 DEF IInv, OwnersAreHolders, FileHasOneProc
<1> QED
  BY <1>3, <1>4, <1>5 DEF IInv

LEMMA CrashKeeps ==
    ASSUME IInv, TypeOK', NEW p \in Procs, Crash(p)
    PROVE  IInv'
<1>0. /\ pc' = [t \in Threads |-> IF ProcOf[t] = p THEN "idle" ELSE pc[t]]
      /\ procLocks' = {s \in procLocks : s[1] # p}
      /\ flocks' = {t \in flocks : ProcOf[t] # p}
      /\ key' = key /\ flocks \subseteq Threads
  BY DEF Crash, IInv, TypeOK
<1>1. \A u \in Threads : Slot(u)' = Slot(u) /\ File(u)' = File(u) /\ Slot(u)[1] = ProcOf[u]
  BY <1>0 DEF Slot, File
<1>2. TokenPut' /\ TokenUnique'
  BY <1>0, <1>1 DEF IInv, TokenPut, TokenUnique, Inside
<1>3. NoLeakedToken'
  BY <1>0, <1>1 DEF IInv, NoLeakedToken
<1>4. OwnersAreHolders' /\ FileHasOneProc'
  BY <1>0, <1>1 DEF IInv, OwnersAreHolders, FileHasOneProc
<1> QED
  BY <1>2, <1>3, <1>4 DEF IInv

LEMMA StepKeeps == IInv /\ [Next]_vars => IInv'
<1> SUFFICES ASSUME IInv, [Next]_vars PROVE IInv'
  OBVIOUS
<1>0. TypeOK'
  BY TypeStep DEF IInv
<1>q. pc \in [Threads -> PCs] /\ key \in [Threads -> Keys]
  BY DEF IInv, TypeOK
<1>1. ASSUME NEW t \in Threads, Call(t) \/ AbortSlot(t) \/ Cancel(t) PROVE IInv'
  BY <1>0, <1>q, <1>1, QuietStep DEF Call, AbortSlot, Cancel, Goto, Inside
<1>2. ASSUME NEW t \in Threads, TakeSlot(t) PROVE IInv'
  BY <1>0, <1>2, TakeSlotKeeps
<1>3. ASSUME NEW t \in Threads, TakeFile(t) PROVE IInv'
  BY <1>0, <1>3, TakeFileKeeps
<1>4. ASSUME NEW t \in Threads, AbortFile(t) \/ FileError(t) PROVE IInv'
  BY <1>0, <1>4, TokenBackKeeps DEF AbortFile, FileError, GiveUp
<1>5. ASSUME NEW t \in Threads, Unlock(t) PROVE IInv'
  BY <1>0, <1>5, UnlockKeeps
<1>6. ASSUME NEW t \in Threads, ReleaseSlot(t) PROVE IInv'
  BY <1>0, <1>6, TokenBackKeeps DEF ReleaseSlot
<1>7. ASSUME NEW p \in Procs, Crash(p) PROVE IInv'
  BY <1>0, <1>7, CrashKeeps
<1>8. CASE UNCHANGED vars
  BY <1>0, <1>8, QuietStep DEF vars
<1> QED
  BY <1>1, <1>2, <1>3, <1>4, <1>5, <1>6, <1>7, <1>8 DEF Next
-----------------------------------------------------------------------------
\* Every reachable state satisfies the inductive invariant.
THEOREM Invariance == Spec => []IInv
  BY InitEstablishes, StepKeeps, PTL DEF Spec

\* Values stay in their types.
THEOREM TypeCorrect == Spec => []TypeOK
<1>1. IInv => TypeOK
  BY DEF IInv
<1> QED
  BY <1>1, Invariance, PTL

\* Two callers inside share neither key nor directory, because the file of a
\* caller inside has one process and the channel of that process one token.
THEOREM Mutex == Spec => []MutualExclusion
<1>1. IInv => MutualExclusion
  <2> SUFFICES ASSUME IInv, NEW t \in Threads, NEW u \in Threads,
                      pc[t] = "held", pc[u] = "held", File(t) = File(u)
               PROVE  t = u
    BY DEF MutualExclusion
  <2>1. ProcOf[t] = ProcOf[u]
    BY DEF IInv, OwnersAreHolders, FileHasOneProc
  <2> QED
    BY <2>1, SameSlot DEF Inside
<1> QED
  BY <1>1, Invariance, PTL

\* While a caller is inside, its file stays locked against other processes.
THEOREM HoldersStayLocked == Spec => []HeldIsLocked
<1>1. IInv => HeldIsLocked
  BY DEF IInv, OwnersAreHolders, HeldIsLocked
<1> QED
  BY <1>1, Invariance, PTL

\* No path through Acquire and release leaves a token nobody will take back.
THEOREM TokensReturned == Spec => []NoLeakedToken
<1>1. IInv => NoLeakedToken
  BY DEF IInv
<1> QED
  BY <1>1, Invariance, PTL

\* A step of the lock is a grant of a free file, a drop, or a stutter.
LEMMA StepRefines == IInv /\ [Next]_vars => [Abstract!Next]_Holds
<1> SUFFICES ASSUME IInv, [Next]_vars PROVE Abstract!Next \/ UNCHANGED Holds
  OBVIOUS
<1>q. pc \in [Threads -> PCs]
  BY DEF IInv, TypeOK
<1>1. ASSUME NEW t \in Threads, TakeFile(t) PROVE Abstract!Next
  <2>1. pc[t] = "file" /\ pc' = [pc EXCEPT ![t] = "held"] /\ key' = key
    BY <1>1 DEF TakeFile, Goto
  <2>2. \A u \in Threads : File(u)' = File(u)
    BY <2>1 DEF File
  <2>3. Holds' = [Holds EXCEPT ![t] = @ \cup {File(t)}]
    BY <1>q, <2>1, <2>2 DEF Holds
  <2>4. \A u \in Threads : pc[u] = "held" => File(u) # File(t)
    BY <1>1, <2>1, GrantedIsFree DEF IInv, OwnersAreHolders, TakeFile
  <2>5. \A u \in Threads : File(t) \notin Holds[u]
    BY <2>4 DEF Holds
  <2>6. File(t) \in Roots \X Keys
    BY LockAssumption DEF File, IInv, TypeOK
  <2>7. Abstract!Grant(t, File(t))
    BY <2>3, <2>5 DEF Abstract!Grant, Abstract!Free
  <2> QED
    BY <2>6, <2>7 DEF Abstract!Next
<1>2. ASSUME NEW t \in Threads, Unlock(t) PROVE Abstract!Next
  <2>1. pc[t] = "held" /\ pc' = [pc EXCEPT ![t] = "unlocked"] /\ key' = key
    BY <1>2 DEF Unlock, Goto
  <2>2. Holds' = [u \in Threads |-> IF u \in {t} THEN {} ELSE Holds[u]]
    BY <1>q, <2>1 DEF Holds, File
  <2> QED
    BY <2>2 DEF Abstract!Next, Abstract!Drop
<1>3. ASSUME NEW p \in Procs, Crash(p) PROVE Abstract!Next
  <2> DEFINE S == {t \in Threads : ProcOf[t] = p}
  <2>1. Holds' = [u \in Threads |-> IF u \in S THEN {} ELSE Holds[u]]
    BY <1>3 DEF Crash, Holds, File
  <2>2. S \in SUBSET Threads
    OBVIOUS
  <2> QED
    BY <2>1, <2>2 DEF Abstract!Next, Abstract!Drop
<1>4. ASSUME NEW t \in Threads,
             \/ Call(t) \/ TakeSlot(t) \/ AbortSlot(t) \/ AbortFile(t)
             \/ FileError(t) \/ ReleaseSlot(t) \/ Cancel(t)
      PROVE UNCHANGED Holds
  <2>1. \A u \in Threads : /\ (pc'[u] = "held") <=> (pc[u] = "held")
                           /\ pc[u] = "held" => key'[u] = key[u]
    BY <1>q, <1>4 DEF IInv, TypeOK, Call, TakeSlot, AbortSlot, AbortFile, FileError,
       GiveUp, ReleaseSlot, Cancel, Goto
  <2> QED
    BY <2>1 DEF Holds, File
<1>5. CASE UNCHANGED vars
  BY <1>5 DEF vars, Holds, File
<1> QED
  BY <1>1, <1>2, <1>3, <1>4, <1>5 DEF Next

\* The channel and the lock file together implement the exclusive lock that
\* the rest of the program relies on.
THEOREM Refinement == Spec => ImplementsExclusiveLock
<1>1. Init => Abstract!Init
  BY DEF Init, Abstract!Init, Holds
<1> QED
  BY <1>1, StepRefines, Invariance, PTL DEF Spec, ImplementsExclusiveLock, Abstract!Spec
=============================================================================

------------------------------ MODULE RepoLock ------------------------------
(***************************************************************************)
(* internal/lock/lock.go: Acquire and the release function it returns.     *)
(* Two layers serialise the syncs of one (repository, component) key: a    *)
(* one-slot channel per key inside a process, and a lock file per key      *)
(* under the caller's base directory between processes.                    *)
(***************************************************************************)
CONSTANTS
    Procs,        \* gitrieve processes on one host
    Threads,      \* goroutines that call Acquire
    ProcOf,       \* the process a goroutine runs in
    Keys,         \* host/owner/name/component
    Roots,        \* base directories
    RootOf,       \* the base directory of a process (its working directory)
    HandleLocks   \* TRUE: the OS grants a file lock to an open handle, so two
                  \* handles of one process exclude each other (flock(2));
                  \* FALSE: to the process, so they do not, and unlocking one
                  \* unlocks the process (what lock.go:22-25 guards against)

ASSUME LockAssumption ==
    /\ ProcOf \in [Threads -> Procs]
    /\ RootOf \in [Procs -> Roots]
    /\ HandleLocks \in BOOLEAN

VARIABLES
    pc,      \* where each goroutine is in Acquire and release
    key,     \* the key of its current or last call
    ctxDone, \* goroutines whose context is done
    procLocks, \* channels that hold their token: a set of <<process, key>>
    flocks   \* goroutines whose handle owns the OS lock of its file

vars == <<pc, key, ctxDone, procLocks, flocks>>

\* "sem": in the select on the channel; "file": token taken, in MkdirAll or
\* polling the lock file; "held": Acquire returned; "unlocked": release gave
\* the file lock back and still has the token.
PCs == {"idle", "sem", "file", "held", "unlocked"}

Slot(t) == <<ProcOf[t], key[t]>>
File(t) == <<RootOf[ProcOf[t]], key[t]>>

\* The values the variables take; an OS lock is owned by the handle of a call
\* that returned, never by one that failed or was given back (lock.go:81-99).
TypeOK ==
    /\ pc \in [Threads -> PCs]
    /\ key \in [Threads -> Keys]
    /\ ctxDone \subseteq Threads
    /\ procLocks \subseteq Procs \X Keys
    /\ flocks \subseteq {t \in Threads : pc[t] = "held"}

Init ==
    /\ pc = [t \in Threads |-> "idle"]
    /\ key \in [Threads -> Keys]
    /\ ctxDone = {}
    /\ procLocks = {}
    /\ flocks = {}

Goto(t, l) == pc' = [pc EXCEPT ![t] = l]

\* A call with a live context (lock.go:44-55).  A call whose context is
\* already done returns at once and changes nothing.
Call(t) ==
    /\ pc[t] = "idle"
    /\ \E k \in Keys : key' = [key EXCEPT ![t] = k]
    /\ ctxDone' = ctxDone \ {t}
    /\ Goto(t, "sem")
    /\ UNCHANGED <<procLocks, flocks>>

\* Mutant: a channel with room for every goroutine.
TakeSlotWide(t) ==
    /\ pc[t] = "sem"
    /\ procLocks' = procLocks \cup {Slot(t)}
    /\ Goto(t, "file")
    /\ UNCHANGED <<key, ctxDone, flocks>>

\* ch <- struct{}{}: the slot is empty (lock.go:58).
TakeSlot(t) ==
    /\ pc[t] = "sem"
    /\ Slot(t) \notin procLocks
    /\ procLocks' = procLocks \cup {Slot(t)}
    /\ Goto(t, "file")
    /\ UNCHANGED <<key, ctxDone, flocks>>

\* Mutant: a send that does not watch the context.
AbortSlotNever(t) == FALSE

\* <-ctx.Done() while waiting for the slot (lock.go:59-60).
AbortSlot(t) ==
    /\ pc[t] = "sem"
    /\ t \in ctxDone
    /\ Goto(t, "idle")
    /\ UNCHANGED <<key, ctxDone, procLocks, flocks>>

\* The OS would grant t's handle the lock of its file.
Grantable(t) ==
    \A u \in flocks :
        File(u) = File(t) => ~HandleLocks /\ ProcOf[u] = ProcOf[t]

\* Mutant: the result of TryLockContext not looked at.
TakeFileAnyway(t) ==
    /\ pc[t] = "file"
    /\ flocks' = IF Grantable(t) THEN flocks \cup {t} ELSE flocks
    /\ Goto(t, "held")
    /\ UNCHANGED <<key, ctxDone, procLocks>>

\* A poll of TryLockContext succeeds and Acquire returns (lock.go:81-99).
TakeFile(t) ==
    /\ pc[t] = "file"
    /\ Grantable(t)
    /\ flocks' = flocks \cup {t}
    /\ Goto(t, "held")
    /\ UNCHANGED <<key, ctxDone, procLocks>>

\* Mutant: an error return without releaseProc.
GiveUpLeaky(t) ==
    /\ pc[t] = "file"
    /\ Goto(t, "idle")
    /\ UNCHANGED <<key, ctxDone, procLocks, flocks>>

\* releaseProc and an error return (lock.go:71-72, 77-78, 84-85, 88-89).
GiveUp(t) ==
    /\ pc[t] = "file"
    /\ procLocks' = procLocks \ {Slot(t)}
    /\ Goto(t, "idle")
    /\ UNCHANGED <<key, ctxDone, flocks>>

\* Mutant: the context looked at again once TryLockContext has the lock, and
\* its error returned without f.Unlock.
AbortLocked(t) ==
    /\ pc[t] = "file"
    /\ t \in ctxDone
    /\ flocks' = IF Grantable(t) THEN flocks \cup {t} ELSE flocks
    /\ procLocks' = procLocks \ {Slot(t)}
    /\ Goto(t, "idle")
    /\ UNCHANGED <<key, ctxDone>>

\* TryLockContext returns ctx.Err().
AbortFile(t) == t \in ctxDone /\ GiveUp(t)

\* Getwd, MkdirAll or opening the lock file fails.
FileError(t) == GiveUp(t)

\* The handles that lose the OS lock when t's handle is unlocked.
UnlockedBy(t) ==
    IF HandleLocks
    THEN {t}
    ELSE {u \in flocks : ProcOf[u] = ProcOf[t] /\ File(u) = File(t)}

\* Mutant: a release function without f.Unlock and f.Close.
UnlockNothing(t) ==
    /\ pc[t] = "held"
    /\ Goto(t, "unlocked")
    /\ UNCHANGED <<key, ctxDone, procLocks, flocks>>

\* The release function, in its order: f.Unlock and f.Close, then releaseProc
\* (lock.go:93-99).  once makes any further call a no-op.
Unlock(t) ==
    /\ pc[t] = "held"
    /\ flocks' = flocks \ UnlockedBy(t)
    /\ Goto(t, "unlocked")
    /\ UNCHANGED <<key, ctxDone, procLocks>>

ReleaseSlot(t) ==
    /\ pc[t] = "unlocked"
    /\ procLocks' = procLocks \ {Slot(t)}
    /\ Goto(t, "idle")
    /\ UNCHANGED <<key, ctxDone, flocks>>

\* The caller's context is cancelled or times out.
Cancel(t) ==
    /\ pc[t] # "idle"
    /\ t \notin ctxDone
    /\ ctxDone' = ctxDone \cup {t}
    /\ UNCHANGED <<pc, key, procLocks, flocks>>

\* A process dies: its channels vanish and the OS drops its file locks.
\* The process is started again with all its goroutines idle.
Crash(p) ==
    /\ pc' = [t \in Threads |-> IF ProcOf[t] = p THEN "idle" ELSE pc[t]]
    /\ procLocks' = {s \in procLocks : s[1] # p}
    /\ flocks' = {t \in flocks : ProcOf[t] # p}
    /\ UNCHANGED <<key, ctxDone>>

Next ==
    \/ \E t \in Threads :
        \/ Call(t)
        \/ TakeSlot(t)
        \/ AbortSlot(t)
        \/ TakeFile(t)
        \/ AbortFile(t)
        \/ FileError(t)
        \/ Unlock(t)
        \/ ReleaseSlot(t)
        \/ Cancel(t)
    \/ \E p \in Procs : Crash(p)

\* A goroutine that can go on does.  Nothing makes a caller call, and nothing
\* is assumed of how long a holder keeps the lock.
Fairness ==
    \A t \in Threads :
        /\ WF_vars(TakeSlot(t))
        /\ WF_vars(AbortSlot(t))
        /\ WF_vars(TakeFile(t))
        /\ WF_vars(AbortFile(t))
        /\ WF_vars(ReleaseSlot(t))

Spec == Init /\ [][Next]_vars
FairSpec == Spec /\ Fairness
-----------------------------------------------------------------------------
\* The promise "exclusive lock for (r, component)" (lock.go:31): two calls
\* that both returned are for different keys or different base directories,
\* whatever was cancelled, failed or crashed before.
MutualExclusion ==
    \A t, u \in Threads :
        pc[t] = "held" /\ pc[u] = "held" /\ File(t) = File(u) => t = u

\* A goroutine of one process never excludes another only by the channel:
\* while a caller is inside, its file is locked against the other processes,
\* even where unlocking one handle unlocks the whole process.  It breaks when
\* a second goroutine gets in between the two halves of release.
HeldIsLocked == \A t \in Threads : pc[t] = "held" => t \in flocks

\* A token in a channel belongs to a goroutine that will put it back: no error
\* return of Acquire, no cancellation and no release leaks it, which would
\* block the key for the life of the process.
NoLeakedToken ==
    \A s \in procLocks :
        \E t \in Threads : Slot(t) = s /\ pc[t] \in {"file", "held", "unlocked"}

\* What each goroutine holds, as the abstract lock sees it.
Holds == [t \in Threads |-> IF pc[t] = "held" THEN {File(t)} ELSE {}]

Abstract == INSTANCE ExclusiveLock
            WITH Clients <- Threads, Resources <- Roots \X Keys, holds <- Holds

\* The two layers together implement the abstract lock.
ImplementsExclusiveLock == Abstract!Spec

\* "While waiting, a cancelled ctx makes Acquire return ctx.Err() promptly"
\* (lock.go:33-34): a cancelled waiter returns even when the holder never
\* releases, at either layer.
CancelledCallReturns ==
    \A t \in Threads :
        (pc[t] \in {"sem", "file"} /\ t \in ctxDone) ~> pc[t] \notin {"sem", "file"}

\* No deadlock across the layers: a goroutine that polls a lock file stops
\* polling sooner or later, or somebody is inside.  Which poller wins is up to
\* the 100ms polls, so no single one is promised the lock.
SomeoneGetsIn ==
    \A t \in Threads :
        pc[t] = "file" ~>
            pc[t] # "file" \/ \E u \in Threads : pc[u] = "held" /\ File(u) = File(t)
=============================================================================

---------------------------- MODULE GitSync_proofs ----------------------------
(***************************************************************************)
(* The safety properties of GitSync for any number of calls, branches,     *)
(* commits and storages, any configuration and any upstream.               *)
(***************************************************************************)
EXTENDS GitSync, TLAPS

\* A call between its two uses of the lock.
Past(w) == pc[w] \notin {"idle", "lock"}

\* The lock, and what it is for: one call at a time works on the clone and the
\* storages.
LockInv ==
    /\ \A w \in Workers : holds[w] = IF Past(w) THEN {"repo"} ELSE {}
    /\ \A w, v \in Workers : Past(w) /\ Past(v) => w = v

\* The kept clone of the code of a repository: no commit without a .git, and
\* every commit of an archive is still there, unless the clone was lost.
CacheInv ==
    conf.useCache /\ ~conf.iswiki =>
        /\ git["cache"] = "absent" => local["cache"] = NoRefs
        /\ ~lost => \A s \in 1..NumStorages, b \in Branches :
               stored[s].refs[b] \subseteq local["cache"][b]

\* Where a call that sees is about to clone, or any has begun to, there is
\* nothing to lose.
CloneInv(w) ==
    conf.useCache /\ ~conf.iswiki =>
        /\ pc[w] = "clone" => (run[w].blind <=> git["cache"] # "absent")
        /\ pc[w] \in {"init", "remote", "refs"} => local["cache"] = NoRefs
        /\ pc[w] \in {"remote", "refs", "list", "branch", "pull"} => git["cache"] # "absent"

\* What did not move since the fetch is upstream as the clone has it, and the
\* branches that were visited and did not fail are up to date.
BranchInv(w) ==
    conf.allBranches =>
        /\ pc[w] \in {"list", "branch", "pull"} =>
               \A b \in Branches \ run[w].moved : up[b] \in {{}, tracked[Clone(w)][b]}
        /\ pc[w] \in {"list", "branch", "pull", "archive", "put", "putting", "end"} =>
               \A b \in Branches \ (run[w].todo \cup run[w].missed \cup run[w].moved) :
                   tracked[Clone(w)][b] \subseteq local[Clone(w)][b]
        /\ pc[w] \in {"archive", "put", "putting", "end"} => run[w].todo = {}

\* The archive is the clone, and the storages before the next one have it.
StoreInv(w) ==
    /\ pc[w] \in {"put", "putting"} =>
           /\ run[w].snap = local[Clone(w)]
           /\ \A s \in 1..NumStorages : s < run[w].nput =>
                  stored[s].whole /\ stored[s].refs = local[Clone(w)]
    /\ pc[w] = "end" /\ run[w].updated =>
           \A s \in 1..NumStorages : stored[s].whole /\ stored[s].refs = local[Clone(w)]

CallInv(w) == CloneInv(w) /\ BranchInv(w) /\ StoreInv(w)

IInv == TypeOK /\ LockInv /\ CacheInv /\ \A w \in Workers : CallInv(w)
-----------------------------------------------------------------------------
(* Types.                                                                     *)

LEMMA InitTyped == Init => TypeOK
<1> SUFFICES ASSUME Init PROVE TypeOK
  OBVIOUS
<1> USE GitSyncAssumption
<1>1. PICK u \in Upstreams : up = u.refs /\ upHead = u.head
  BY DEF Init
<1>2. up \in Refs /\ upHead \in Branches
  BY <1>1 DEF Refs
<1>3. NoRefs \in Refs
  BY DEF NoRefs, Refs
<1>4. NewRun \in Runs
  <2>1. (CHOOSE b \in Branches : TRUE) \in Branches
    BY <1>2
  <2> QED
    BY <2>1, <1>3 DEF NewRun, Runs
<1>5. /\ conf \in Configs /\ changes \in Nat /\ crashes \in Nat /\ ctxDone \subseteq Workers
      /\ git \in [Clones -> {"absent", "init", "ready"}] /\ lost \in BOOLEAN
  BY DEF Init
<1>6. local \in [Clones -> Refs] /\ tracked \in [Clones -> Refs]
  BY <1>3 DEF Init
<1>7. stored \in [1..NumStorages -> [whole : BOOLEAN, refs : Refs]]
  BY <1>3 DEF Init
<1>8. holds \in [Workers -> SUBSET {"repo"}]
  BY DEF Init, Lock!Init
<1>9. pc \in [Workers -> PCs]
  BY DEF Init, PCs
<1>10. run \in [Workers -> Runs]
  BY <1>4 DEF Init
<1> QED
  BY <1>2, <1>5, <1>6, <1>7, <1>8, <1>9, <1>10 DEF TypeOK

LEMMA Typed ==
    ASSUME TypeOK
    PROVE  /\ NewRun \in Runs
           /\ NoRefs \in Refs
           /\ \A w \in Workers : Clone(w) \in Clones /\ ("cache" = Clone(w) <=> conf.useCache)
<1>1. NoRefs \in Refs
  BY DEF NoRefs, Refs
<1>2. (CHOOSE b \in Branches : TRUE) \in Branches
  BY DEF TypeOK
<1>3. NewRun \in Runs
  BY <1>1, <1>2 DEF NewRun, Runs
<1> QED
  BY <1>1, <1>3, GitSyncAssumption DEF Clone, Clones

LEMMA RemoveAllTyped ==
    ASSUME TypeOK, NEW d \in Clones, RemoveAll(d)
    PROVE  /\ git' \in [Clones -> {"absent", "init", "ready"}]
           /\ local' \in [Clones -> Refs] /\ tracked' \in [Clones -> Refs]
BY Typed DEF TypeOK, RemoveAll

LEMMA FailTyped ==
    ASSUME TypeOK, NEW w \in Workers, Fail(w)
    PROVE  /\ conf' \in Configs
           /\ up' \in Refs /\ upHead' \in Branches /\ changes' \in Nat
           /\ holds' \in [Workers -> SUBSET {"repo"}]
           /\ ctxDone' \subseteq Workers /\ crashes' \in Nat
           /\ pc' \in [Workers -> PCs] /\ run' \in [Workers -> Runs]
BY Typed DEF TypeOK, Fail, Lock!Drop, Goto, upVars, PCs

\* Updates of the local variables of a call.
LEMMA RunFields ==
    ASSUME NEW r \in Runs
    PROVE  /\ \A x \in BOOLEAN : [r EXCEPT !.updated = x] \in Runs
           /\ \A x \in BOOLEAN : [r EXCEPT !.blind = x] \in Runs
           /\ \A x \in Branches : [r EXCEPT !.head = x] \in Runs
           /\ \A x \in Refs : [r EXCEPT !.refs = x] \in Runs
           /\ \A x \in SUBSET Branches : [r EXCEPT !.moved = x] \in Runs
           /\ \A x \in SUBSET Branches : [r EXCEPT !.todo = x] \in Runs
           /\ \A x \in Branches : [r EXCEPT !.cur = x] \in Runs
           /\ \A x \in SUBSET Branches : [r EXCEPT !.missed = x] \in Runs
           /\ \A x \in Refs : [r EXCEPT !.snap = x] \in Runs
           /\ \A x \in Nat : [r EXCEPT !.nput = x] \in Runs
           /\ /\ r.updated \in BOOLEAN /\ r.head \in Branches /\ r.todo \subseteq Branches
              /\ r.cur \in Branches /\ r.missed \subseteq Branches /\ r.snap \in Refs
              /\ r.nput \in Nat /\ r.refs \in Refs /\ r.moved \subseteq Branches
BY DEF Runs

LEMMA RunUpdated ==
    ASSUME TypeOK, NEW w \in Workers, NEW r \in Runs, run' = [run EXCEPT ![w] = r]
    PROVE  run' \in [Workers -> Runs]
BY DEF TypeOK

LEMMA WorkTyped == ASSUME TypeOK, NEW w \in Workers, Work(w) PROVE TypeOK'
<1>1. /\ NewRun \in Runs /\ NoRefs \in Refs
      /\ Clone(w) \in Clones
  BY Typed
<1> DEFINE d == Clone(w)
<1> HIDE DEF d
<1>d. d \in Clones
  BY <1>1 DEF d
<1> DEFINE r == run[w]
<1>r. r \in Runs
  BY DEF TypeOK
<1> HIDE DEF r
<1>2. CASE Look(w)
  <2>1. Exists(w) \in BOOLEAN
    BY DEF Exists
  <2>2. PICK seen \in BOOLEAN :
            run' = [run EXCEPT ![w].updated = ~seen, ![w].blind = Exists(w) /\ ~seen]
    BY <1>2, <2>1 DEF Look
  <2>3. run' \in [Workers -> Runs]
    <3> DEFINE u == ~seen
               v == Exists(w) /\ ~seen
    <3>1. u \in BOOLEAN /\ v \in BOOLEAN
      OBVIOUS
    <3>2. run' = [run EXCEPT ![w] = [[r EXCEPT !.updated = u] EXCEPT !.blind = v]]
      BY <2>2 DEF TypeOK, r
    <3> HIDE DEF u, v
    <3>3. [[r EXCEPT !.updated = u] EXCEPT !.blind = v] \in Runs
      BY <1>r, <3>1, RunFields
    <3> QED
      BY <3>2, <3>3, RunUpdated
  <2>4. pc' \in [Workers -> PCs]
    BY <1>2 DEF Look, Goto, TypeOK, PCs
  <2> QED
    BY <1>2, <2>3, <2>4 DEF Look, Quiet, upVars, gitVars, TypeOK
<1>18. CASE PutsOver(w)
  <2>1. pc' \in [Workers -> PCs]
    BY <1>18 DEF PutsOver, Goto, TypeOK, PCs
  <2> QED
    BY <1>18, <2>1 DEF PutsOver, Quiet, upVars, gitVars, TypeOK
<1>19. CASE Checkout(w)
  <2>1. pc' \in [Workers -> PCs]
    BY <1>19 DEF Checkout, Goto, TypeOK, PCs
  <2>2. run' \in [Workers -> Runs]
    <3> DEFINE c == NewRun.cur
    <3>1. c \in Branches
      BY <1>1, RunFields
    <3>2. run' = [run EXCEPT ![w] = [[r EXCEPT !.refs = NoRefs] EXCEPT !.cur = c]]
      BY <1>19 DEF Checkout, TypeOK, r
    <3> HIDE DEF c
    <3>3. [[r EXCEPT !.refs = NoRefs] EXCEPT !.cur = c] \in Runs
      BY <1>r, <1>1, <3>1, RunFields
    <3> QED
      BY <3>2, <3>3, RunUpdated
  <2> QED
    BY <1>19, <2>1, <2>2 DEF Checkout, Quiet, upVars, gitVars, TypeOK
<1>3. CASE CloneExists(w) \/ CloneFails(w)
  BY <1>3, <1>1, RemoveAllTyped, FailTyped DEF CloneExists, CloneFails, TypeOK
<1>4. CASE CloneInit(w) \/ CloneRemote(w)
  BY <1>4 DEF CloneInit, CloneRemote, Quiet, upVars, gitVars, Goto, TypeOK, PCs
<1>5. CASE CloneFetch(w)
  <2>1. run' = [run EXCEPT ![w] = [r EXCEPT !.head = upHead]] /\ upHead \in Branches
    BY <1>5 DEF CloneFetch, r, TypeOK
  <2>2. [tracked EXCEPT ![d] = up] \in [Clones -> Refs]
    BY DEF TypeOK
  <2>3. run' \in [Workers -> Runs]
    BY <1>r, <2>1, RunFields, RunUpdated
  <2> QED
    BY <1>5, <2>2, <2>3 DEF CloneFetch, Quiet, upVars, gitVars, Goto, TypeOK, PCs, d
<1>20. CASE CloneRefs(w)
  <2> DEFINE b == run[w].head
  <2>1. b \in Branches
    BY DEF TypeOK, Runs
  <2>2. [local EXCEPT ![d][b] = tracked[d][b]] \in [Clones -> Refs]
    BY <1>d, <2>1 DEF TypeOK, Refs
  <2> QED
    BY <1>20, <2>2 DEF CloneRefs, Quiet, upVars, gitVars, Goto, TypeOK, PCs, d
<1>6. CASE GitFails(w) \/ ArchiveFails(w) \/ PutFails(w) \/ EndFails(w) \/ Finish(w)
  BY <1>6, FailTyped DEF GitFails, ArchiveFails, PutFails, EndFails, Finish, TypeOK, gitVars
<1>7. CASE Fetch(w)
  <2>1. Fetched(tracked[d]) \in Refs
    BY <1>d DEF Fetched, TypeOK, Refs
  <2>2. tracked' \in [Clones -> Refs]
    BY <1>7, <2>1 DEF Fetch, TypeOK, d
  <2>3. run' \in [Workers -> Runs]
    <3> DEFINE f == Fetched(tracked[d])
               x == {b \in Branches : f[b] # {}}
    <3>1. run' = [run EXCEPT ![w] = [[[r EXCEPT !.refs = f] EXCEPT !.moved = {}]
                                        EXCEPT !.todo = x]]
      BY <1>7 DEF Fetch, r, d, TypeOK
    <3>2. x \subseteq Branches /\ f \in Refs
      BY <2>1
    <3> HIDE DEF f, x
    <3>3. [[[r EXCEPT !.refs = f] EXCEPT !.moved = {}] EXCEPT !.todo = x] \in Runs
      BY <1>r, <3>2, RunFields
    <3> QED
      BY <3>1, <3>3, RunUpdated
  <2> QED
    BY <1>7, <2>2, <2>3 DEF Fetch, Quiet, upVars, gitVars, Goto, TypeOK, PCs
<1>8. CASE List(w)
  <2>1. run' = [run EXCEPT ![w] = [r EXCEPT !.head = upHead]] /\ upHead \in Branches
    BY <1>8 DEF List, r, TypeOK
  <2>2. run' \in [Workers -> Runs]
    BY <1>r, <2>1, RunFields, RunUpdated
  <2> QED
    BY <1>8, <2>2 DEF List, Quiet, upVars, gitVars, Goto, TypeOK, PCs
<1>9. CASE SkipBranch(w)
  <2>1. PICK b \in r.todo : run' = [run EXCEPT ![w] = [r EXCEPT !.todo = r.todo \ {b}]]
    BY <1>9 DEF SkipBranch, r
  <2>2. run' \in [Workers -> Runs]
    BY <1>r, <2>1, RunFields, RunUpdated
  <2> QED
    BY <1>9, <2>2 DEF SkipBranch, Quiet, upVars, gitVars, TypeOK
<1>10. CASE Branch(w)
  <2>1. PICK b \in run[w].todo :
            /\ local' = IF local[d][b] = {} THEN [local EXCEPT ![d][b] = run[w].refs[b]]
                        ELSE local
            /\ run' = [run EXCEPT ![w].updated = @ \/ local[d][b] = {}, ![w].cur = b]
    BY <1>10 DEF Branch, d
  <2>2. b \in Branches
    BY DEF TypeOK, Runs
  <2>3. local' \in [Clones -> Refs]
    BY <2>1, <2>2, <1>d DEF TypeOK, Refs, Runs
  <2>4. run' \in [Workers -> Runs]
    <3> DEFINE u == r.updated \/ local[d][b] = {}
    <3>1. u \in BOOLEAN
      OBVIOUS
    <3> HIDE DEF u
    <3>2. [[r EXCEPT !.updated = u] EXCEPT !.cur = b] \in Runs
      BY <1>r, <2>2, <3>1, RunFields
    <3>3. run' = [run EXCEPT ![w] = [[r EXCEPT !.updated = u] EXCEPT !.cur = b]]
      BY <2>1 DEF TypeOK, r, u
    <3> QED
      BY <3>2, <3>3, RunUpdated
  <2> QED
    BY <1>10, <2>3, <2>4 DEF Branch, Quiet, upVars, gitVars, Goto, TypeOK, PCs
<1>11. CASE BranchFails(w)
  <2>1. PICK b \in run[w].todo : local' = [local EXCEPT ![d][b] = run[w].refs[b]]
    BY <1>11 DEF BranchFails, d
  <2>2. b \in Branches
    BY DEF TypeOK, Runs
  <2>3. local' \in [Clones -> Refs]
    BY <2>1, <2>2, <1>d DEF TypeOK, Refs, Runs
  <2> QED
    BY <1>11, <2>3, FailTyped DEF BranchFails, TypeOK
<1>12. CASE Pull(w)
  <2> DEFINE b == run[w].cur
  <2>1. b \in Branches
    BY DEF TypeOK, Runs
  <2>2. /\ tracked' = [tracked EXCEPT ![d] = Fetched(tracked[d])]
        /\ local' = [local EXCEPT ![d][b] = up[b]]
    BY <1>12 DEF Pull, PullFetches, d
  <2>3. tracked' \in [Clones -> Refs] /\ local' \in [Clones -> Refs]
    BY <2>1, <2>2, <1>d DEF TypeOK, Refs, Fetched
  <2>4. run' \in [Workers -> Runs]
    <3>2. [[r EXCEPT !.todo = r.todo \ {b}] EXCEPT !.updated = TRUE] \in Runs
      BY <1>r, RunFields
    <3>3. run' = [run EXCEPT ![w] = [[r EXCEPT !.todo = r.todo \ {b}] EXCEPT !.updated = TRUE]]
      BY <1>12 DEF Pull, TypeOK, r
    <3> QED
      BY <3>2, <3>3, RunUpdated
  <2> QED
    BY <1>12, <2>3, <2>4 DEF Pull, Quiet, upVars, gitVars, Goto, TypeOK, PCs
<1>21. CASE PullUpToDate(w)
  <2>1. PICK b \in Branches : run' = [run EXCEPT ![w] = [r EXCEPT !.todo = r.todo \ {b}]]
    BY <1>21, <1>r, RunFields DEF PullUpToDate, r
  <2>2. run' \in [Workers -> Runs]
    BY <1>r, <2>1, RunFields, RunUpdated
  <2> QED
    BY <1>21, <2>2 DEF PullUpToDate, Quiet, upVars, gitVars, Goto, TypeOK, PCs
<1>13. CASE PullFails(w)
  <2> DEFINE b == run[w].cur
  <2>1. b \in Branches
    BY DEF TypeOK, Runs
  <2>2. /\ tracked' = tracked \/ tracked' = [tracked EXCEPT ![d] = Fetched(tracked[d])]
        /\ local' = local \/ local' = [local EXCEPT ![d][b] = up[b]]
    BY <1>13 DEF PullFails, PullFetches, d
  <2>3. tracked' \in [Clones -> Refs] /\ local' \in [Clones -> Refs]
    <3>1. /\ [tracked EXCEPT ![d] = Fetched(tracked[d])] \in [Clones -> Refs]
          /\ [local EXCEPT ![d][b] = up[b]] \in [Clones -> Refs]
      BY <2>1, <1>d DEF TypeOK, Refs, Fetched
    <3> QED
      BY <2>2, <3>1 DEF TypeOK
  <2>4. CASE w \in ctxDone
    BY <1>13, <2>3, <2>4, FailTyped DEF PullFails, TypeOK
  <2>5. CASE w \notin ctxDone
    <3>1. run' \in [Workers -> Runs]
      <4>1. run' = [run EXCEPT ![w] = [[r EXCEPT !.todo = r.todo \ {b}]
                                            EXCEPT !.missed = r.missed \cup {b}]]
        BY <1>13, <2>5 DEF PullFails, TypeOK, r
      <4>2. [[r EXCEPT !.todo = r.todo \ {b}] EXCEPT !.missed = r.missed \cup {b}] \in Runs
        BY <1>r, <2>1, RunFields
      <4> QED
        BY <4>1, <4>2, RunUpdated
    <3> QED
      BY <1>13, <2>3, <2>5, <3>1 DEF PullFails, Quiet, upVars, Goto, TypeOK, PCs
  <2> QED
    BY <2>4, <2>5
<1>14. CASE Archive(w)
  <2>1. run' \in [Workers -> Runs]
    <3>1. run' = [run EXCEPT ![w] = [[r EXCEPT !.snap = local[d]] EXCEPT !.nput = 1]]
      BY <1>14 DEF Archive, TypeOK, r, d
    <3>2. [[r EXCEPT !.snap = local[d]] EXCEPT !.nput = 1] \in Runs
      BY <1>d, <1>r, RunFields DEF TypeOK
    <3> QED
      BY <3>1, <3>2, RunUpdated
  <2> QED
    BY <1>14, <2>1 DEF Archive, Quiet, upVars, gitVars, Goto, TypeOK, PCs
<1>15. CASE Put(w)
  <2>1. stored' \in [1..NumStorages -> [whole : BOOLEAN, refs : Refs]]
    BY <1>15 DEF Put, TypeOK
  <2> QED
    BY <1>15, <2>1 DEF Put, Quiet, upVars, gitVars, Goto, TypeOK, PCs
<1>16. CASE PutDone(w)
  <2>1. run[w].snap \in Refs
    BY DEF TypeOK, Runs
  <2>2. stored' \in [1..NumStorages -> [whole : BOOLEAN, refs : Refs]]
    BY <1>16, <2>1 DEF PutDone, TypeOK
  <2>3. run' \in [Workers -> Runs]
    <3>1. run' = [run EXCEPT ![w] = [r EXCEPT !.nput = r.nput + 1]]
      BY <1>16 DEF PutDone, r
    <3>2. r.nput + 1 \in Nat
      BY <1>r, RunFields
    <3> QED
      BY <1>r, <3>1, <3>2, RunFields, RunUpdated
  <2> QED
    BY <1>16, <2>2, <2>3 DEF PutDone, Quiet, upVars, gitVars, Goto, TypeOK, PCs
<1>17. CASE End(w)
  <2>1. w \in Clones
    BY DEF Clones
  <2>2. /\ git' \in [Clones -> {"absent", "init", "ready"}]
        /\ local' \in [Clones -> Refs] /\ tracked' \in [Clones -> Refs]
    BY <1>17, <2>1, RemoveAllTyped DEF End, gitVars, TypeOK
  <2>3. lost' = lost
    BY <1>17 DEF End, gitVars
  <2> QED
    BY <1>17, <2>2, <2>3 DEF End, Quiet, upVars, Goto, TypeOK, PCs
<1> QED
  BY <1>2, <1>3, <1>4, <1>5, <1>6, <1>7, <1>8, <1>9, <1>10, <1>11, <1>12, <1>13, <1>14,
     <1>15, <1>16, <1>17, <1>18, <1>19, <1>20, <1>21 DEF Work

LEMMA StepTyped == TypeOK /\ [Next]_vars => TypeOK'
<1> SUFFICES ASSUME TypeOK, [Next]_vars PROVE TypeOK'
  OBVIOUS
<1>1. CASE UNCHANGED vars
  BY <1>1 DEF vars, upVars, gitVars, TypeOK
<1>2. CASE Push
  <2>1. PICK b \in Branches, h \in SUBSET Commits : up' = [up EXCEPT ![b] = h]
    BY <1>2 DEF Push
  <2>2. up' \in Refs
    BY <2>1 DEF TypeOK, Refs
  <2>3. run' \in [Workers -> Runs]
    <3>1. PICK c \in Branches :
              run' = [w \in Workers |->
                        IF Following(w) THEN [run[w] EXCEPT !.moved = run[w].moved \cup {c}]
                        ELSE run[w]]
      BY <1>2 DEF Push
    <3>2. ASSUME NEW w \in Workers
          PROVE  [run[w] EXCEPT !.moved = run[w].moved \cup {c}] \in Runs /\ run[w] \in Runs
      <4>1. run[w] \in Runs /\ run[w].moved \cup {c} \in SUBSET Branches
        BY RunFields DEF TypeOK
      <4> QED
        BY <4>1, RunFields
    <3> QED
      BY <3>1, <3>2
  <2> QED
    BY <1>2, <2>2, <2>3 DEF Push, gitVars, TypeOK
<1>3. CASE Rename
  BY <1>3 DEF Rename, gitVars, TypeOK
<1>4. CASE Crash
  BY <1>4, Typed DEF Crash, Lock!Drop, upVars, gitVars, TypeOK, PCs
<1>5. ASSUME NEW w \in Workers, Begin(w) PROVE TypeOK'
  <2>1. w \in Clones
    BY DEF Clones
  <2>2. /\ git' \in [Clones -> {"absent", "init", "ready"}]
        /\ local' \in [Clones -> Refs] /\ tracked' \in [Clones -> Refs]
    BY <1>5, <2>1, RemoveAllTyped DEF Begin, gitVars, TypeOK
  <2>3. lost' = lost
    BY <1>5 DEF Begin, gitVars
  <2> QED
    BY <1>5, <2>2, <2>3 DEF Begin, Goto, upVars, TypeOK, PCs
<1>6. ASSUME NEW w \in Workers, Acquire(w) PROVE TypeOK'
  <2>1. holds' \in [Workers -> SUBSET {"repo"}]
    BY <1>6 DEF Acquire, Lock!Grant, TypeOK
  <2> QED
    BY <1>6, <2>1 DEF Acquire, Goto, upVars, gitVars, TypeOK, PCs
<1>7. ASSUME NEW w \in Workers, AcquireFails(w) PROVE TypeOK'
  BY <1>7, FailTyped DEF AcquireFails, gitVars, TypeOK
<1>8. ASSUME NEW w \in Workers, ContextDone(w) PROVE TypeOK'
  BY <1>8 DEF ContextDone, upVars, gitVars, TypeOK
<1> QED
  BY <1>1, <1>2, <1>3, <1>4, <1>5, <1>6, <1>7, <1>8, WorkTyped DEF Next

\* All variables keep their types, for any number of calls, branches, commits
\* and storages.
THEOREM TypeCorrect == Spec => []TypeOK
<1>1. Init => TypeOK
  BY InitTyped
<1>2. TypeOK /\ [Next]_vars => TypeOK'
  BY StepTyped
<1> QED
  BY <1>1, <1>2, PTL DEF Spec
-----------------------------------------------------------------------------
(* One call at a time.                                                        *)

\* What a step of a call that has the lock does to the others: nothing.
LEMMA FailLocal ==
    ASSUME TypeOK, NEW w \in Workers, Fail(w)
    PROVE  /\ pc'[w] = "idle" /\ Lock!Drop({w})
           /\ \A v \in Workers \ {w} : pc'[v] = pc[v] /\ run'[v] = run[v]
           /\ conf' = conf /\ up' = up
BY DEF Fail, Goto, TypeOK, upVars

LEMMA WorkLocal ==
    ASSUME TypeOK, NEW w \in Workers, Work(w)
    PROVE  /\ Past(w)
           /\ \/ Past(w)' /\ holds' = holds
              \/ pc'[w] = "idle" /\ Lock!Drop({w})
           /\ \A v \in Workers \ {w} : pc'[v] = pc[v] /\ run'[v] = run[v]
           /\ conf' = conf /\ up' = up
<1> USE DEF TypeOK, At, Goto, Quiet, Past, upVars
<1>1. CASE Look(w)
  BY <1>1, FailLocal DEF Look
<1>2. CASE CloneExists(w)
  BY <1>2, FailLocal DEF CloneExists
<1>3. CASE CloneInit(w)
  BY <1>3, FailLocal DEF CloneInit
<1>4. CASE CloneRemote(w)
  BY <1>4, FailLocal DEF CloneRemote
<1>5. CASE CloneFetch(w)
  BY <1>5, FailLocal DEF CloneFetch
<1>6. CASE CloneFails(w)
  BY <1>6, FailLocal DEF CloneFails
<1>7. CASE Fetch(w)
  BY <1>7, FailLocal DEF Fetch
<1>8. CASE List(w)
  BY <1>8, FailLocal DEF List
<1>9. CASE GitFails(w)
  BY <1>9, FailLocal DEF GitFails
<1>10. CASE SkipBranch(w)
  BY <1>10, FailLocal DEF SkipBranch
<1>11. CASE Branch(w)
  BY <1>11, FailLocal DEF Branch
<1>12. CASE BranchFails(w)
  BY <1>12, FailLocal DEF BranchFails
<1>13. CASE Pull(w)
  BY <1>13, FailLocal DEF Pull
<1>14. CASE PullFails(w)
  BY <1>14, FailLocal DEF PullFails
<1>15. CASE Checkout(w)
  BY <1>15, FailLocal DEF Checkout
<1>16. CASE Archive(w)
  BY <1>16, FailLocal DEF Archive
<1>17. CASE ArchiveFails(w)
  BY <1>17, FailLocal DEF ArchiveFails
<1>18. CASE Put(w)
  BY <1>18, FailLocal DEF Put
<1>19. CASE PutDone(w)
  BY <1>19, FailLocal DEF PutDone
<1>20. CASE PutFails(w)
  BY <1>20, FailLocal DEF PutFails
<1>21. CASE PutsOver(w)
  BY <1>21, FailLocal DEF PutsOver
<1>22. CASE End(w)
  BY <1>22, FailLocal DEF End
<1>23. CASE EndFails(w)
  BY <1>23, FailLocal DEF EndFails
<1>24. CASE Finish(w)
  BY <1>24, FailLocal DEF Finish
<1>25. CASE CloneRefs(w)
  BY <1>25, FailLocal DEF CloneRefs
<1>26. CASE PullUpToDate(w)
  BY <1>26, FailLocal DEF PullUpToDate
<1> QED
  BY <1>1, <1>2, <1>3, <1>4, <1>5, <1>6, <1>7, <1>8, <1>9, <1>10, <1>11, <1>12, <1>13, <1>14, <1>15, <1>16, <1>17, <1>18, <1>19, <1>20, <1>21, <1>22, <1>23, <1>24, <1>25, <1>26 DEF Work

LEMMA StepLocked == TypeOK /\ LockInv /\ [Next]_vars => LockInv'
<1> SUFFICES ASSUME TypeOK, LockInv, [Next]_vars PROVE LockInv'
  OBVIOUS
<1>1. CASE UNCHANGED vars \/ Push \/ Rename
  BY <1>1 DEF vars, Push, Rename, LockInv, Past
<1>2. CASE Crash
  BY <1>2 DEF Crash, Lock!Drop, LockInv, Past
<1>3. ASSUME NEW w \in Workers, Begin(w) \/ ContextDone(w) PROVE LockInv'
  BY <1>3 DEF Begin, ContextDone, At, Goto, LockInv, Past, TypeOK
<1>4. ASSUME NEW w \in Workers, Acquire(w) PROVE LockInv'
  <2>1. \A v \in Workers : ~Past(v)
    BY <1>4 DEF Acquire, Lock!Grant, Lock!Free, LockInv
  <2> QED
    BY <1>4, <2>1 DEF Acquire, Lock!Grant, At, Goto, LockInv, Past, TypeOK
<1>5. ASSUME NEW w \in Workers, AcquireFails(w) PROVE LockInv'
  BY <1>5 DEF AcquireFails, Fail, Lock!Drop, At, Goto, LockInv, Past, TypeOK
<1>6. ASSUME NEW w \in Workers, Work(w) PROVE LockInv'
  BY <1>6, WorkLocal DEF Lock!Drop, LockInv, Past
<1> QED
  BY <1>1, <1>2, <1>3, <1>4, <1>5, <1>6 DEF Next
-----------------------------------------------------------------------------
(* The kept clone.                                                            *)

LEMMA InitEstablishes == Init => IInv
<1> SUFFICES ASSUME Init PROVE IInv
  OBVIOUS
<1>1. TypeOK
  BY InitTyped
<1>2. LockInv
  BY DEF Init, Lock!Init, LockInv, Past
<1>3. CacheInv
  BY DEF Init, CacheInv, NoRefs, Clones
<1>4. \A w \in Workers : CallInv(w)
  BY DEF Init, CallInv, CloneInv, BranchInv, StoreInv
<1> QED
  BY <1>1, <1>2, <1>3, <1>4 DEF IInv

\* A step of a call takes no commit out of the kept clone, but where a call
\* that did not see it is about to clone.
LEMMA WorkKeeps ==
    ASSUME IInv, NEW w \in Workers, Work(w), conf.useCache, ~conf.iswiki,
           ~(run[w].blind /\ pc[w] = "clone")
    PROVE  \A b \in Branches : local["cache"][b] \subseteq local'["cache"][b]
<1> USE DEF At
<1>1. /\ Clone(w) = "cache" /\ "cache" \in Clones
      /\ local \in [Clones -> [Branches -> SUBSET Commits]]
      /\ up \in [Branches -> SUBSET Commits] /\ run \in [Workers -> Runs]
      /\ CacheInv /\ CloneInv(w)
  BY DEF IInv, TypeOK, Refs, Clone, Clones, CallInv
<1>2. CASE UNCHANGED local
  BY <1>2
<1>3. CASE CloneExists(w) \/ CloneFails(w)
  <2>1. local["cache"] = NoRefs
    BY <1>1, <1>3 DEF CloneExists, CloneFails, CloneInv, CacheInv
  <2> QED
    BY <2>1 DEF NoRefs
<1>4. CASE CloneRefs(w)
  <2>1. local["cache"] = NoRefs
    BY <1>1, <1>4 DEF CloneRefs, CloneInv
  <2> QED
    BY <2>1 DEF NoRefs
<1>5. CASE Branch(w) \/ BranchFails(w)
  BY <1>1, <1>5 DEF Branch, BranchFails, Runs
<1>6. CASE Pull(w) \/ PullFails(w)
  <2> DEFINE c == run[w].cur
  <2>1. c \in Branches
    BY <1>1 DEF Runs
  <2>2. \/ local' = local
        \/ /\ local' = [local EXCEPT !["cache"][c] = up[c]]
           /\ local["cache"][c] \subseteq up[c]
    BY <1>1, <1>6 DEF Pull, PullFails, FastForwards
  <2> HIDE DEF c
  <2> QED
    BY <1>1, <2>1, <2>2
<1> QED
  BY <1>2, <1>3, <1>4, <1>5, <1>6
     DEF Work, Look, CloneInit, CloneRemote, CloneFetch, Fetch, List, GitFails, SkipBranch,
         PullUpToDate, Checkout, Archive, ArchiveFails, Put, PutDone, PutFails, PutsOver, End, EndFails,
         Finish, gitVars

\* What the archives have, the clone has.
LEMMA WorkCache == ASSUME IInv, NEW w \in Workers, Work(w) PROVE CacheInv'
<1> SUFFICES ASSUME conf.useCache, ~conf.iswiki PROVE CacheInv'
  BY WorkLocal DEF IInv, CacheInv
<1> USE DEF At
<1>1. /\ Clone(w) = "cache" /\ "cache" \in Clones /\ TypeOK
      /\ git \in [Clones -> {"absent", "init", "ready"}]
      /\ CacheInv /\ CloneInv(w) /\ StoreInv(w) /\ conf' = conf
  BY WorkLocal DEF IInv, TypeOK, Clone, Clones, CallInv
<1>2. git'["cache"] = "absent" => local'["cache"] = NoRefs
  <2>1. CASE git' = git /\ local' = local
    BY <1>1, <2>1 DEF CacheInv
  <2>2. CASE CloneExists(w) \/ CloneFails(w)
    BY <1>1, <2>2 DEF CloneExists, CloneFails, RemoveAll, TypeOK
  <2>3. CASE CloneInit(w) \/ CloneRemote(w)
    BY <1>1, <2>3 DEF CloneInit, CloneRemote
  <2>4. CASE CloneRefs(w) \/ Branch(w) \/ BranchFails(w) \/ Pull(w) \/ PullFails(w)
    BY <1>1, <2>4 DEF CloneRefs, Branch, BranchFails, Pull, PullFails, CloneInv
  <2> QED
    BY <2>1, <2>2, <2>3, <2>4
       DEF Work, Look, CloneFetch, Fetch, List, GitFails, SkipBranch, PullUpToDate,
           Checkout, Archive,
           ArchiveFails, Put, PutDone, PutFails, PutsOver, End, EndFails, Finish, gitVars
<1>4. ASSUME ~lost' PROVE ~lost /\ ~(run[w].blind /\ pc[w] = "clone")
  <2>1. CASE CloneExists(w)
    BY <1>1, <1>4, <2>1, GitSyncAssumption DEF CloneExists, TypeOK, Runs
  <2>2. CASE ~CloneExists(w)
    <3>1. lost' = lost
      BY <2>2 DEF Work, Look, CloneInit, CloneRemote, CloneFetch, CloneRefs, CloneFails, Fetch,
         List, GitFails, SkipBranch, Branch, BranchFails, Pull, PullUpToDate, PullFails, Checkout,
         Archive, ArchiveFails, Put, PutDone, PutFails, PutsOver, End, EndFails, Finish, gitVars
    <3>2. ASSUME pc[w] = "clone" PROVE git["cache"] = "absent"
      BY <1>1, <2>2, <3>2 DEF Work, Look, CloneInit, CloneRemote, CloneFetch, CloneRefs,
         CloneFails, Fetch, List, GitFails, SkipBranch, Branch, BranchFails, Pull, PullUpToDate,
         PullFails, Checkout, Archive, ArchiveFails, Put, PutDone, PutFails, PutsOver, End,
         EndFails, Finish
    <3>3. ASSUME pc[w] = "clone" PROVE ~run[w].blind
      <4>1. run[w].blind <=> git["cache"] # "absent"
        BY <1>1, <3>3, Zenon DEF CloneInv
      <4> QED
        BY <3>2, <3>3, <4>1, Zenon
    <3> QED
      BY <1>4, <3>1, <3>3
  <2> QED
    BY <2>1, <2>2
<1>3. ASSUME ~lost', NEW s \in 1..NumStorages, NEW b \in Branches
      PROVE  stored'[s].refs[b] \subseteq local'["cache"][b]
  <2>1. CASE stored'[s].refs = stored[s].refs
    BY <1>1, <1>3, <1>4, <2>1, WorkKeeps DEF CacheInv
  <2>2. CASE PutDone(w)
    <3>1. stored'[s].refs \in {stored[s].refs, run[w].snap} /\ local' = local
      BY <1>1, <2>2 DEF PutDone, TypeOK, gitVars
    <3>2. run[w].snap = local["cache"]
      BY <1>1, <2>2 DEF PutDone, StoreInv
    <3> QED
      BY <1>1, <1>3, <1>4, <3>1, <3>2 DEF CacheInv
  <2>3. CASE Put(w)
    BY <1>1, <2>1, <2>3 DEF Put, TypeOK
  <2> QED
    BY <2>1, <2>2, <2>3
       DEF Work, Look, CloneExists, CloneInit, CloneRemote, CloneFetch, CloneRefs, CloneFails,
           Fetch, List, GitFails, SkipBranch, Branch, BranchFails, Pull, PullUpToDate,
           PullFails, Checkout, Archive,
           ArchiveFails, PutFails, PutsOver, End, EndFails, Finish
<1> QED
  BY <1>1, <1>2, <1>3 DEF CacheInv

LEMMA WorkClone == ASSUME IInv, NEW w \in Workers, Work(w) PROVE CloneInv(w)'
<1> SUFFICES ASSUME conf.useCache, ~conf.iswiki PROVE CloneInv(w)'
  BY WorkLocal DEF IInv, CloneInv
<1> USE DEF At, Goto, Exists
<1>1. /\ Clone(w) = "cache" /\ "cache" \in Clones /\ TypeOK
      /\ git \in [Clones -> {"absent", "init", "ready"}] /\ pc \in [Workers -> PCs]
      /\ CacheInv /\ CloneInv(w) /\ conf' = conf
  BY WorkLocal DEF IInv, TypeOK, Clone, Clones, CallInv
<1>7. CASE Look(w)
  <2>0. PICK seen \in {Exists(w), FALSE} :
            /\ pc' = [pc EXCEPT ![w] = IF seen THEN "fetch" ELSE "clone"]
            /\ run' = [run EXCEPT ![w].updated = ~seen, ![w].blind = Exists(w) /\ ~seen]
    BY <1>7, Zenon DEF Look, Goto
  <2> DEFINE v == Exists(w) /\ ~seen
             r == [run[w] EXCEPT !.updated = ~seen]
  <2>5. r \in Runs
    <3> DEFINE u == ~seen
    <3>1. u \in BOOLEAN
      OBVIOUS
    <3> HIDE DEF u
    <3>2. run[w] \in Runs
      BY <1>1 DEF TypeOK
    <3>3. [run[w] EXCEPT !.updated = u] \in Runs
      BY <3>1, <3>2, RunFields
    <3> QED
      BY <3>3 DEF u
  <2>6. run' = [run EXCEPT ![w] = [r EXCEPT !.blind = v]]
    BY <1>1, <2>0 DEF TypeOK
  <2> HIDE DEF r, v
  <2>7. run'[w].blind = v
    BY <1>1, <2>5, <2>6 DEF TypeOK, Runs
  <2>1. /\ pc'[w] = IF seen THEN "fetch" ELSE "clone"
        /\ run'[w].blind = (Exists(w) /\ ~seen)
    BY <1>1, <2>0, <2>7 DEF v
  <2>2. Exists(w) <=> git["cache"] # "absent"
    BY <1>1
  <2>3. git' = git /\ pc'[w] \in {"fetch", "clone"}
    BY <1>7, <2>1 DEF Look, gitVars
  <2>4. ASSUME pc'[w] = "clone" PROVE run'[w].blind <=> git'["cache"] # "absent"
    <3>1. ~seen
      BY <2>1, <2>4
    <3> QED
      BY <2>1, <2>2, <2>3, <3>1
  <2> QED
    BY <2>3, <2>4 DEF CloneInv
<1>2. CASE CloneInit(w) \/ CloneRemote(w) \/ CloneFetch(w) \/ CloneRefs(w)
  BY <1>1, <1>2 DEF CloneInit, CloneRemote, CloneFetch, CloneRefs, CloneInv, CacheInv
<1>3. CASE Fetch(w) \/ List(w) \/ SkipBranch(w) \/ Branch(w) \/ Pull(w) \/ PullUpToDate(w)
  BY <1>1, <1>3 DEF Fetch, List, SkipBranch, Branch, Pull, PullUpToDate, CloneInv, gitVars
<1>4. CASE PullFails(w)
  BY <1>1, <1>4 DEF PullFails, Fail, CloneInv
<1>5. CASE CloneExists(w) \/ CloneFails(w) \/ GitFails(w) \/ BranchFails(w) \/ ArchiveFails(w)
           \/ PutFails(w) \/ EndFails(w) \/ Finish(w)
  BY <1>1, <1>5 DEF CloneExists, CloneFails, GitFails, BranchFails, ArchiveFails, PutFails,
     EndFails, Finish, Fail, CloneInv
<1>6. CASE Checkout(w) \/ Archive(w) \/ Put(w) \/ PutDone(w) \/ PutsOver(w) \/ End(w)
  BY <1>1, <1>6 DEF Checkout, Archive, Put, PutDone, PutsOver, End, CloneInv
<1> QED
  BY <1>2, <1>3, <1>4, <1>5, <1>6, <1>7 DEF Work
-----------------------------------------------------------------------------
(* The branches and the storages.                                             *)

LEMMA WorkBranches == ASSUME IInv, NEW w \in Workers, Work(w) PROVE BranchInv(w)'
<1> SUFFICES ASSUME conf.allBranches PROVE BranchInv(w)'
  BY WorkLocal DEF IInv, BranchInv
<1> USE DEF At, Goto
<1> DEFINE d == Clone(w)
<1>1. /\ d \in Clones /\ TypeOK /\ Clone(w)' = d
      /\ local \in [Clones -> [Branches -> SUBSET Commits]]
      /\ tracked \in [Clones -> [Branches -> SUBSET Commits]]
      /\ up \in [Branches -> SUBSET Commits]
      /\ run \in [Workers -> Runs] /\ pc \in [Workers -> PCs]
      /\ BranchInv(w) /\ conf' = conf /\ up' = up
  BY WorkLocal, Typed DEF IInv, TypeOK, Refs, Clone, CallInv
<1> HIDE DEF d
<1>d. d = Clone(w)
  BY DEF d
<1>2. CASE pc'[w] \notin {"list", "branch", "pull", "archive", "put", "putting", "end"}
  BY <1>2 DEF BranchInv
<1>3. CASE Fetch(w)
  <2> DEFINE f == Fetched(tracked[d])
  <2>1. /\ tracked'[d] = f /\ pc'[w] = "list"
        /\ run'[w].todo = {b \in Branches : f[b] # {}} /\ run'[w].moved = {}
    BY <1>1, <1>d, <1>3 DEF Fetch, Runs
  <2>2. \A b \in Branches : f[b] = IF up[b] = {} THEN tracked[d][b] ELSE up[b]
    BY DEF Fetched
  <2> HIDE DEF f
  <2>3. \A b \in Branches : up[b] \in {{}, f[b]}
    BY <2>2
  <2>4. \A b \in Branches \ run'[w].todo : f[b] = {}
    BY <2>1
  <2> QED
    BY <1>1, <1>d, <2>1, <2>3, <2>4 DEF BranchInv
<1>4. CASE List(w)
  BY <1>1, <1>d, <1>4 DEF List, BranchInv, gitVars
<1>5. CASE SkipBranch(w)
  BY <1>5 DEF SkipBranch, Skipped
<1>6. CASE Branch(w)
  BY <1>1, <1>d, <1>6 DEF Branch, BranchInv
<1>7. CASE Pull(w)
  <2> DEFINE c == run[w].cur
  <2>1. c \in Branches
    BY <1>1 DEF Runs
  <2>2. /\ tracked' = [tracked EXCEPT ![d] = Fetched(tracked[d])]
        /\ local' = [local EXCEPT ![d][c] = up[c]]
        /\ up[c] # {}
        /\ pc[w] = "pull" /\ pc'[w] = "branch"
        /\ run'[w].todo = run[w].todo \ {c}
        /\ run'[w].moved = run[w].moved /\ run'[w].missed = run[w].missed
    BY <1>1, <1>d, <1>7 DEF Pull, PullFetches, FastForwards, Runs
  <2> HIDE DEF c
  <2>3. ASSUME NEW b \in Branches
        PROVE  tracked'[d][b] = IF up[b] = {} THEN tracked[d][b] ELSE up[b]
    BY <1>1, <2>2 DEF Fetched
  <2>4. ASSUME NEW b \in Branches PROVE local'[d][b] = IF b = c THEN up[b] ELSE local[d][b]
    BY <1>1, <2>1, <2>2
  <2> QED
    BY <1>1, <1>d, <2>1, <2>2, <2>3, <2>4 DEF BranchInv
<1>13. CASE PullUpToDate(w)
  <2> DEFINE c == run[w].cur
  <2>1. c \in Branches
    BY <1>1 DEF Runs
  <2>2. /\ tracked' = tracked /\ local' = local
        /\ up[c] # {} /\ up[c] \subseteq local[d][c]
        /\ Fetched(tracked[d]) = tracked[d]
        /\ pc[w] = "pull" /\ pc'[w] = "branch"
        /\ run'[w].todo = run[w].todo \ {c}
        /\ run'[w].moved = run[w].moved /\ run'[w].missed = run[w].missed
    BY <1>1, <1>d, <1>13 DEF PullUpToDate, PullMoves, Runs, gitVars
  <2>3. tracked[d][c] = up[c]
    BY <2>1, <2>2 DEF Fetched
  <2> HIDE DEF c
  <2> QED
    BY <1>1, <1>d, <2>1, <2>2, <2>3 DEF BranchInv
<1>8. CASE PullFails(w)
  <2>0. CASE w \in ctxDone
    BY <1>1, <1>8, <2>0 DEF PullFails, Fail, BranchInv
  <2>a. CASE w \notin ctxDone
    <3> DEFINE c == run[w].cur
    <3>1. c \in Branches
      BY <1>1 DEF Runs
    <3>2. /\ tracked' \in {tracked, [tracked EXCEPT ![d] = Fetched(tracked[d])]}
          /\ local' = local \/ local' = [local EXCEPT ![d][c] = up[c]]
          /\ pc[w] = "pull" /\ pc'[w] = "branch"
          /\ run'[w].todo = run[w].todo \ {c}
          /\ run'[w].moved = run[w].moved /\ run'[w].missed = run[w].missed \cup {c}
      BY <1>1, <1>d, <1>8, <2>a DEF PullFails, PullFetches, Runs
    <3> HIDE DEF c
    <3>3. ASSUME NEW b \in Branches
          PROVE  tracked'[d][b] = tracked[d][b] \/ (up[b] # {} /\ tracked'[d][b] = up[b])
      BY <1>1, <3>2 DEF Fetched
    <3>4. ASSUME NEW b \in Branches, b # c PROVE local'[d][b] = local[d][b]
      BY <1>1, <3>1, <3>2, <3>4
    <3>5. \A b \in Branches \ run[w].moved :
              up[b] \in {{}, tracked[d][b]} /\ tracked'[d][b] = tracked[d][b]
      BY <1>1, <1>d, <3>2, <3>3 DEF BranchInv
    <3>6. ASSUME NEW b \in Branches \ (run'[w].todo \cup run'[w].missed \cup run'[w].moved)
          PROVE  tracked'[d][b] \subseteq local'[d][b]
      <4>1. b # c /\ b \notin run[w].todo \cup run[w].missed \cup run[w].moved
        BY <3>2, <3>6
      <4>2. tracked[d][b] \subseteq local[d][b]
        BY <1>1, <1>d, <3>2, <4>1 DEF BranchInv
      <4> QED
        BY <3>4, <3>5, <4>1, <4>2
    <3>7. \A b \in Branches \ run'[w].moved : up'[b] \in {{}, tracked'[d][b]}
      BY <1>1, <3>2, <3>5
    <3> QED
      BY <1>1, <1>d, <3>2, <3>6, <3>7 DEF BranchInv
  <2> QED
    BY <2>0, <2>a
<1>9. CASE PutsOver(w)
  BY <1>1, <1>d, <1>9 DEF PutsOver, BranchInv, gitVars
<1>14. CASE Checkout(w)
  <2>1. /\ run'[w].todo = run[w].todo /\ run'[w].missed = run[w].missed
        /\ run'[w].moved = run[w].moved /\ run[w].todo = {} /\ pc[w] = "branch"
        /\ pc'[w] \notin {"list", "branch", "pull"}
        /\ tracked' = tracked /\ local' = local
    BY <1>1, <1>14 DEF Checkout, gitVars, Runs
  <2> QED
    BY <1>1, <1>d, <2>1 DEF BranchInv
<1>10. CASE Archive(w)
  BY <1>1, <1>d, <1>10 DEF Archive, BranchInv, gitVars, Runs
<1>11. CASE Put(w)
  BY <1>1, <1>d, <1>11 DEF Put, BranchInv, gitVars
<1>12. CASE PutDone(w)
  BY <1>1, <1>d, <1>12 DEF PutDone, BranchInv, gitVars, Runs
<1> QED
  BY <1>1, <1>2, <1>3, <1>4, <1>5, <1>6, <1>7, <1>8, <1>9, <1>10, <1>11, <1>12, <1>13, <1>14
     DEF Work, Look, CloneExists, CloneInit, CloneRemote, CloneFetch, CloneRefs, CloneFails,
         GitFails, BranchFails, ArchiveFails, PutFails, End, EndFails, Finish, Fail

LEMMA WorkStores == ASSUME IInv, NEW w \in Workers, Work(w) PROVE StoreInv(w)'
<1> USE DEF At, Goto
<1> DEFINE d == Clone(w)
<1>1. /\ d \in Clones /\ TypeOK /\ Clone(w)' = d
      /\ run \in [Workers -> Runs] /\ pc \in [Workers -> PCs]
      /\ stored \in [1..NumStorages -> [whole : BOOLEAN, refs : Refs]]
      /\ NumStorages \in Nat
      /\ StoreInv(w)
  BY WorkLocal, Typed, GitSyncAssumption DEF IInv, TypeOK, Clone, CallInv
<1> HIDE DEF d
<1>d. d = Clone(w)
  BY DEF d
<1>2. CASE pc'[w] \notin {"put", "putting", "end"}
  BY <1>2 DEF StoreInv
<1>3. CASE Checkout(w)
  BY <1>1, <1>3 DEF Checkout, StoreInv
<1>4. CASE Archive(w)
  BY <1>1, <1>d, <1>4 DEF Archive, StoreInv, gitVars, Runs
<1>5. CASE Put(w)
  BY <1>1, <1>d, <1>5 DEF Put, StoreInv, gitVars, Runs
<1>6. CASE PutDone(w)
  BY <1>1, <1>d, <1>6 DEF PutDone, StoreInv, gitVars, Runs
<1>7. CASE PutsOver(w)
  BY <1>1, <1>d, <1>7 DEF PutsOver, StoreInv, gitVars, Runs
<1> QED
  BY <1>1, <1>2, <1>3, <1>4, <1>5, <1>6, <1>7
     DEF Work, Look, CloneExists, CloneInit, CloneRemote, CloneFetch, CloneRefs, CloneFails,
         Fetch, List, GitFails, SkipBranch, Branch, BranchFails, Pull, PullUpToDate, PullFails,
         ArchiveFails, PutFails, End, EndFails, Finish, Fail
-----------------------------------------------------------------------------
(* The invariant and what follows from it.                                    *)

LEMMA WorkPreserves ==
    ASSUME IInv, NEW w \in Workers, Work(w)
    PROVE  CacheInv' /\ \A v \in Workers : CallInv(v)'
<1>1. CallInv(w)'
  BY WorkClone, WorkBranches, WorkStores DEF CallInv
<1>2. ASSUME NEW v \in Workers \ {w} PROVE CallInv(v)'
  <2>1. pc'[v] \in {"idle", "lock"}
    BY WorkLocal DEF IInv, LockInv, Past
  <2> QED
    BY <2>1 DEF CallInv, CloneInv, BranchInv, StoreInv
<1> QED
  BY <1>1, <1>2, WorkCache

\* Steps that leave the clones and the storages alone.
LEMMA QuietPreserves ==
    ASSUME IInv, UNCHANGED <<conf, up, gitVars, stored>>,
           \A w \in Workers : \/ pc'[w] = pc[w] /\ run'[w] = run[w]
                              \/ pc'[w] \in {"idle", "lock", "look"}
    PROVE  CacheInv' /\ \A w \in Workers : CallInv(w)'
<1>1. CacheInv'
  BY DEF IInv, CacheInv, gitVars
<1>2. ASSUME NEW w \in Workers PROVE CallInv(w)'
  <2>1. CallInv(w)
    BY DEF IInv
  <2>2. CASE pc'[w] \in {"idle", "lock", "look"}
    BY <2>2 DEF CallInv, CloneInv, BranchInv, StoreInv
  <2>3. CASE pc'[w] = pc[w] /\ run'[w] = run[w]
    BY <2>1, <2>3 DEF CallInv, CloneInv, BranchInv, StoreInv, Clone, gitVars
  <2> QED
    BY <2>2, <2>3
<1> QED
  BY <1>1, <1>2

\* A push changes what is upstream, and the calls that follow it note that.
LEMMA PushPreserves ==
    ASSUME IInv, Push
    PROVE  CacheInv' /\ \A w \in Workers : CallInv(w)'
<1>1. CacheInv'
  BY DEF Push, IInv, CacheInv, gitVars
<1>2. PICK c \in Branches :
          /\ \A b \in Branches \ {c} : up'[b] = up[b]
          /\ run' = [w \in Workers |->
                        IF Following(w) THEN [run[w] EXCEPT !.moved = run[w].moved \cup {c}]
                        ELSE run[w]]
  BY DEF Push, IInv, TypeOK, Refs
<1>3. ASSUME NEW w \in Workers PROVE CallInv(w)'
  <2>1. /\ CallInv(w) /\ run[w] \in Runs
        /\ UNCHANGED <<conf, git, local, tracked, stored, pc>> /\ Clone(w)' = Clone(w)
    BY DEF Push, IInv, TypeOK, gitVars, Clone
  <2>2. CASE Following(w)
    <3>1. /\ run'[w].moved = run[w].moved \cup {c} /\ run'[w].todo = run[w].todo
          /\ run'[w].missed = run[w].missed
          /\ pc[w] \in {"list", "branch", "pull"}
      BY <1>2, <2>1, <2>2 DEF Runs, Following
    <3>2. BranchInv(w)'
      BY <1>2, <2>1, <3>1 DEF CallInv, BranchInv
    <3> QED
      BY <2>1, <3>1, <3>2 DEF CallInv, CloneInv, StoreInv
  <2>3. CASE ~Following(w)
    <3>1. run'[w] = run[w] /\ pc[w] \notin {"list", "branch", "pull"}
      BY <1>2, <2>3 DEF Following
    <3> QED
      BY <2>1, <3>1 DEF CallInv, CloneInv, BranchInv, StoreInv
  <2> QED
    BY <2>2, <2>3
<1> QED
  BY <1>1, <1>3

\* A call that begins without the cache clears a directory of its own.
LEMMA BeginPreserves ==
    ASSUME IInv, NEW w \in Workers, Begin(w)
    PROVE  CacheInv' /\ \A v \in Workers : CallInv(v)'
<1>1. \A v \in Workers : \/ pc'[v] = pc[v] /\ run'[v] = run[v]
                         \/ pc'[v] \in {"idle", "lock", "look"}
  BY DEF Begin, Goto, IInv, TypeOK
<1>2. CASE conf.useCache
  BY <1>1, <1>2, QuietPreserves DEF Begin, upVars
<1>3. CASE ~conf.useCache
  <2>1. conf' = conf /\ stored' = stored /\ up' = up
    BY DEF Begin, upVars
  <2>2. CacheInv'
    BY <1>3, <2>1 DEF CacheInv
  <2>3. ASSUME NEW v \in Workers PROVE CallInv(v)'
    <3>1. CASE pc'[v] \in {"idle", "lock", "look"}
      BY <3>1 DEF CallInv, CloneInv, BranchInv, StoreInv
    <3>2. CASE v # w
      <4>1. /\ CallInv(v) /\ pc'[v] = pc[v] /\ run'[v] = run[v]
            /\ Clone(v) = v /\ Clone(v)' = v /\ v \in Clones
        BY <1>3, <2>1, <3>2 DEF IInv, Begin, Goto, TypeOK, Clone, Clones
      <4>2. local'[v] = local[v] /\ tracked'[v] = tracked[v]
        BY <1>3, <3>2, <4>1 DEF Begin, RemoveAll, IInv, TypeOK
      <4> QED
        BY <1>3, <2>1, <4>1, <4>2 DEF CallInv, CloneInv, BranchInv, StoreInv
    <3> QED
      BY <3>1, <3>2 DEF Begin, Goto, IInv, TypeOK
  <2> QED
    BY <2>2, <2>3
<1> QED
  BY <1>2, <1>3

LEMMA StepPreserves == IInv /\ [Next]_vars => IInv'
<1> SUFFICES ASSUME IInv, [Next]_vars PROVE IInv'
  OBVIOUS
<1>1. TypeOK' /\ LockInv'
  BY StepTyped, StepLocked DEF IInv
<1>6. CASE Push
  BY <1>1, <1>6, PushPreserves DEF IInv
<1>2. CASE UNCHANGED vars \/ Rename \/ Crash
  <2>1. UNCHANGED <<conf, up, gitVars, stored>>
    BY <1>2 DEF vars, Rename, Crash, upVars
  <2>2. \A w \in Workers : \/ pc'[w] = pc[w] /\ run'[w] = run[w]
                           \/ pc'[w] \in {"idle", "lock", "look"}
    BY <1>2 DEF vars, Rename, Crash
  <2> QED
    BY <1>1, <2>1, <2>2, QuietPreserves DEF IInv
<1>3. ASSUME NEW w \in Workers, Begin(w) PROVE IInv'
  BY <1>1, <1>3, BeginPreserves DEF IInv
<1>4. ASSUME NEW w \in Workers, Acquire(w) \/ AcquireFails(w) \/ ContextDone(w) PROVE IInv'
  <2>1. UNCHANGED <<conf, up, gitVars, stored>>
    BY <1>4 DEF Acquire, AcquireFails, ContextDone, Fail, upVars
  <2>2. \A v \in Workers : \/ pc'[v] = pc[v] /\ run'[v] = run[v]
                           \/ pc'[v] \in {"idle", "lock", "look"}
    BY <1>4 DEF Acquire, AcquireFails, ContextDone, Fail, Goto, IInv, TypeOK
  <2> QED
    BY <1>1, <2>1, <2>2, QuietPreserves DEF IInv
<1>5. ASSUME NEW w \in Workers, Work(w) PROVE IInv'
  BY <1>1, <1>5, WorkPreserves DEF IInv
<1> QED
  BY <1>2, <1>3, <1>4, <1>5, <1>6 DEF Next

LEMMA Invariance == Spec => []IInv
<1>1. Init => IInv
  BY InitEstablishes
<1>2. IInv /\ [Next]_vars => IInv'
  BY StepPreserves
<1> QED
  BY <1>1, <1>2, PTL DEF Spec

\* Every call past the lock is the only one (repository.go:124-139).
THEOREM OneAtATime == Spec => [](\A w, v \in Workers : Past(w) /\ Past(v) => w = v)
<1>1. IInv => \A w, v \in Workers : Past(w) /\ Past(v) => w = v
  BY DEF IInv, LockInv
<1> QED
  BY <1>1, Invariance, PTL

\* A sync that changed the clone and ends well leaves an archive of the clone
\* in every storage, for any number of storages and of overlapping calls.
THEOREM UpdatesAreStored == Spec => []StoredWhenUpdated
<1>1. IInv => StoredWhenUpdated
  BY DEF IInv, CallInv, StoreInv, StoredWhenUpdated, At
<1> QED
  BY <1>1, Invariance, PTL

\* With allBranches, a sync that ends well has followed every branch whose pull
\* did not fail and that did not change upstream during the call.
THEOREM BranchesAreFollowed == Spec => []FollowsAllBranches
<1>1. IInv => FollowsAllBranches
  BY DEF IInv, CallInv, BranchInv, FollowsAllBranches, At
<1> QED
  BY <1>1, Invariance, PTL

\* A step of any kind takes no commit out of the kept clone, but where a call
\* that did not see it is about to clone.
LEMMA StepKeeps ==
    ASSUME IInv, [Next]_vars, conf.useCache, ~conf.iswiki,
           \A w \in Workers : ~(run[w].blind /\ pc[w] = "clone")
    PROVE  \A b \in Branches : local["cache"][b] \subseteq local'["cache"][b]
<1>1. CASE UNCHANGED local
  BY <1>1
<1>2. ASSUME NEW w \in Workers, Work(w)
      PROVE  \A b \in Branches : local["cache"][b] \subseteq local'["cache"][b]
  BY <1>2, WorkKeeps
<1> QED
  BY <1>1, <1>2 DEF Next, vars, gitVars, Push, Rename, Crash, Begin, Acquire, AcquireFails,
     ContextDone

\* Once pulled, history is not deleted: no step of any sync, of the upstream or
\* of the environment takes a commit out of a branch of the kept clone, but for
\* the clone of a call whose os.Stat failed.
THEOREM HistoryIsKept == Spec => DeletionSafe
<1>1. IInv /\ [Next]_vars =>
          [conf.useCache /\ ~conf.iswiki =>
              \/ \A b \in Branches : local["cache"][b] \subseteq local'["cache"][b]
              \/ \E w \in Workers : run[w].blind /\ At(w, "clone")]_vars
  BY StepKeeps DEF At
<1> QED
  BY <1>1, Invariance, PTL DEF Spec, DeletionSafe

\* No later archive of the kept clone lacks a commit of an earlier one, unless
\* the clone was lost to such a call.
THEOREM ArchivesGrow == Spec => ArchiveNeverRegresses
<1>1. ASSUME IInv, [Next]_vars, conf.useCache, ~conf.iswiki, ~lost,
             NEW s \in 1..NumStorages, NEW b \in Branches
      PROVE  stored[s].refs[b] \subseteq stored'[s].refs[b]
  <2>1. CASE UNCHANGED stored
    BY <2>1
  <2>2. ASSUME NEW w \in Workers, Put(w) PROVE stored'[s].refs = stored[s].refs
    BY <2>2 DEF Put, IInv, TypeOK
  <2>3. ASSUME NEW w \in Workers, PutDone(w)
        PROVE  stored[s].refs[b] \subseteq stored'[s].refs[b]
    <3>1. stored'[s].refs \in {stored[s].refs, run[w].snap}
      BY <2>3 DEF PutDone, IInv, TypeOK
    <3>2. run[w].snap = local["cache"]
      BY <1>1, <2>3 DEF PutDone, At, IInv, CallInv, StoreInv, Clone
    <3>3. stored[s].refs[b] \subseteq local["cache"][b]
      BY <1>1 DEF IInv, CacheInv
    <3> QED
      BY <3>1, <3>2, <3>3
  <2> QED
    BY <1>1, <2>1, <2>2, <2>3
       DEF Next, vars, Work, Push, Rename, Crash, Begin, Acquire, AcquireFails, ContextDone,
           Look, CloneExists, CloneInit, CloneRemote, CloneFetch, CloneRefs, CloneFails,
           Fetch, List, GitFails, SkipBranch, Branch, BranchFails, Pull, PullUpToDate,
           PullFails, Checkout, Archive, ArchiveFails, PutFails, PutsOver, End, EndFails, Finish
<1>2. IInv /\ [Next]_vars =>
          [conf.useCache /\ ~conf.iswiki /\ ~lost =>
              \A s \in 1..NumStorages, b \in Branches :
                  stored[s].refs[b] \subseteq stored'[s].refs[b]]_vars
  BY <1>1
<1> QED
  BY <1>2, Invariance, PTL DEF Spec, ArchiveNeverRegresses
=============================================================================

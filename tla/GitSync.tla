------------------------------- MODULE GitSync -------------------------------
(***************************************************************************)
(* internal/repository: Sync mirrors the branches of a repository (or of   *)
(* its wiki) into a local clone and, when something changed, stores an     *)
(* archive of the whole clone in every storage.  Calls for one repository  *)
(* and component are serialised by internal/lock, here ExclusiveLock.      *)
(*                                                                         *)
(* A branch is the set of the commits it reaches: {} is a branch that does *)
(* not exist, a fast-forward is a superset, anything else is a divergence. *)
(* go-git, the upstream repository and the file system are external.       *)
(***************************************************************************)
EXTENDS Naturals

CONSTANTS
    Workers,      \* calls of Sync that may overlap, all in one process
    Branches, Commits,
    NumStorages,  \* storages of the repository, in the order of its entry
    Configs,      \* the (useCache, allBranches, iswiki) to consider
    Upstreams,    \* what the upstream repository may look like at first
    MaxChanges,   \* bound on changes of the upstream repository
    MaxCrashes    \* bound on crashes of the process

ASSUME GitSyncAssumption ==
    /\ Configs \subseteq [useCache : BOOLEAN, allBranches : BOOLEAN, iswiki : BOOLEAN]
    /\ Upstreams \subseteq {u \in [refs : [Branches -> SUBSET Commits], head : Branches] :
                             u.refs[u.head] # {}}
    /\ NumStorages \in Nat
    /\ MaxChanges \in Nat /\ MaxCrashes \in Nat
    /\ "cache" \notin Workers

VARIABLES
    conf,     \* the configuration, fixed
    up,       \* the upstream repository's branches
    upHead,   \* its default branch
    changes,
    git,      \* the .git of each clone: "absent", "init" (no origin), "ready"
    local,    \* refs/heads of each clone
    tracked,  \* refs/remotes/origin of each clone
    lost,     \* history: a call that could not see the kept clone removed it
    stored,   \* the archive object of each storage; a torn one (whole = FALSE)
              \* remembers the last whole one's content
    holds,    \* what each call has locked
    ctxDone,  \* calls whose context is cancelled or timed out
    crashes,
    pc, run   \* where each call is, and its local variables

upVars == <<up, upHead, changes>>
gitVars == <<git, local, tracked, lost>>
vars == <<conf, upVars, gitVars, stored, holds, ctxDone, crashes, pc, run>>

Lock == INSTANCE ExclusiveLock
        WITH Clients <- Workers, Resources <- {"repo"}, holds <- holds

Refs == [Branches -> SUBSET Commits]
NoRefs == [b \in Branches |-> {}]

\* .gitrieve/<repository> or .gitrieve/<new uuid>/<repository>.
Clones == {"cache"} \cup Workers
Clone(w) == IF conf.useCache THEN "cache" ELSE w

PCs == {"idle", "lock", "look", "clone", "init", "remote", "refs", "fetch", "list",
        "branch", "pull", "archive", "put", "putting", "end", "ok"}

\* isUpdated; the default branch's name; the references listed after the fetch
\* and, of them, those to visit; the branch being pulled; branches whose pull
\* failed; the archive; the next storage.  History: whether os.Stat failed on
\* a clone that is there; the branches that changed upstream after the fetch
\* and before the last pull.
Runs == [updated : BOOLEAN, head : Branches, refs : Refs, todo : SUBSET Branches,
         cur : Branches, missed : SUBSET Branches, snap : Refs, nput : Nat,
         blind : BOOLEAN, moved : SUBSET Branches]
NewRun == [updated |-> FALSE, head |-> CHOOSE b \in Branches : TRUE, refs |-> NoRefs,
           todo |-> {}, cur |-> CHOOSE b \in Branches : TRUE, missed |-> {},
           snap |-> NoRefs, nput |-> 1, blind |-> FALSE, moved |-> {}]

TypeOK ==
    /\ conf \in Configs
    /\ up \in Refs /\ upHead \in Branches /\ changes \in Nat
    /\ git \in [Clones -> {"absent", "init", "ready"}]
    /\ local \in [Clones -> Refs]
    /\ tracked \in [Clones -> Refs]
    /\ lost \in BOOLEAN
    /\ stored \in [1..NumStorages -> [whole : BOOLEAN, refs : Refs]]
    /\ holds \in [Workers -> SUBSET {"repo"}]
    /\ ctxDone \subseteq Workers
    /\ crashes \in Nat
    /\ pc \in [Workers -> PCs]
    /\ run \in [Workers -> Runs]

Init ==
    /\ conf \in Configs
    /\ \E u \in Upstreams : up = u.refs /\ upHead = u.head
    /\ changes = 0
    /\ git = [d \in Clones |-> "absent"]
    /\ local = [d \in Clones |-> NoRefs]
    /\ tracked = [d \in Clones |-> NoRefs]
    /\ lost = FALSE
    /\ stored = [s \in 1..NumStorages |-> [whole |-> FALSE, refs |-> NoRefs]]
    /\ Lock!Init
    /\ ctxDone = {}
    /\ crashes = 0
    /\ pc = [w \in Workers |-> "idle"]
    /\ run = [w \in Workers |-> NewRun]

At(w, l) == pc[w] = l
Goto(w, l) == pc' = [pc EXCEPT ![w] = l]

\* Between its fetch and the last pull.
Following(w) == pc[w] \in {"list", "branch", "pull"}
-----------------------------------------------------------------------------
(* The upstream repository.                                                   *)

\* A push, a force push, a new or a deleted branch.  The default branch cannot
\* be deleted.
Push ==
    /\ changes < MaxChanges
    /\ changes' = changes + 1
    /\ \E b \in Branches, h \in SUBSET Commits :
        /\ b = upHead => h # {}
        /\ up' = [up EXCEPT ![b] = h]
        /\ run' = [w \in Workers |->
                      IF Following(w) THEN [run[w] EXCEPT !.moved = @ \cup {b}] ELSE run[w]]
    /\ UNCHANGED <<conf, upHead, gitVars, stored, holds, ctxDone, crashes, pc>>

\* Another branch becomes the default one.
Rename ==
    /\ changes < MaxChanges
    /\ changes' = changes + 1
    /\ \E b \in Branches : up[b] # {} /\ upHead' = b
    /\ UNCHANGED <<conf, up, gitVars, stored, holds, ctxDone, crashes, pc, run>>
-----------------------------------------------------------------------------
(* Sync.  Any error return releases the lock and changes nothing else; the    *)
(* context goes with the call.                                                *)

Fail(w) ==
    /\ Goto(w, "idle")
    /\ run' = [run EXCEPT ![w] = NewRun]
    /\ Lock!Drop({w})
    /\ ctxDone' = ctxDone \ {w}
    /\ UNCHANGED <<conf, upVars, crashes>>

Quiet == UNCHANGED <<conf, upVars, holds, ctxDone, crashes>>

RemoveAll(d) ==
    /\ git' = [git EXCEPT ![d] = "absent"]
    /\ local' = [local EXCEPT ![d] = NoRefs]
    /\ tracked' = [tracked EXCEPT ![d] = NoRefs]

\* A call with a live context.  Without the cache it works in a directory of a
\* new name; what an earlier call left in its own stays on disk, unused.
Begin(w) ==
    /\ At(w, "idle")
    /\ Goto(w, "lock")
    /\ IF conf.useCache THEN UNCHANGED gitVars ELSE RemoveAll(w) /\ UNCHANGED lost
    /\ UNCHANGED <<conf, upVars, stored, holds, ctxDone, crashes, run>>

\* Mutant: no lock.
AcquireNothing(w) ==
    /\ At(w, "lock")
    /\ Goto(w, "look")
    /\ UNCHANGED <<gitVars, stored, run>> /\ Quiet

\* lock.Acquire(ctx, r, component, currentDir)
Acquire(w) ==
    /\ At(w, "lock")
    /\ Lock!Grant(w, "repo")
    /\ Goto(w, "look")
    /\ UNCHANGED <<conf, upVars, gitVars, stored, ctxDone, crashes, run>>

AcquireFails(w) == At(w, "lock") /\ Fail(w) /\ UNCHANGED <<gitVars, stored>>

\* What os.Stat(gitDir/gitSuffix) finds if it can.  A clone always makes
\* gitDir/.git, and for a wiki the name looked for is .wiki.git.
Exists(w) == git[Clone(w)] # "absent" /\ ~conf.iswiki

\* Any error of os.Stat is taken for "no clone" (repository.go:154-156).
Look(w) ==
    /\ At(w, "look")
    /\ \E seen \in {Exists(w), FALSE} :
        /\ Goto(w, IF seen THEN "fetch" ELSE "clone")
        /\ run' = [run EXCEPT ![w].updated = ~seen, ![w].blind = Exists(w) /\ ~seen]
    /\ UNCHANGED <<gitVars, stored>> /\ Quiet

\* git.PlainClone finds a repository in gitDir: an error like any other, and
\* what is there is removed.
CloneExists(w) ==
    /\ At(w, "clone")
    /\ git[Clone(w)] # "absent"
    /\ RemoveAll(Clone(w))
    /\ lost' = (lost \/ run[w].blind)
    /\ Fail(w)
    /\ UNCHANGED stored

\* Its first step, git init ...
CloneInit(w) ==
    /\ At(w, "clone")
    /\ git[Clone(w)] = "absent"
    /\ git' = [git EXCEPT ![Clone(w)] = "init"]
    /\ Goto(w, "init")
    /\ UNCHANGED <<local, tracked, lost, stored, run>> /\ Quiet

\* ... then the origin ...
CloneRemote(w) ==
    /\ At(w, "init")
    /\ git' = [git EXCEPT ![Clone(w)] = "ready"]
    /\ Goto(w, "remote")
    /\ UNCHANGED <<local, tracked, lost, stored, run>> /\ Quiet

\* ... then a fetch of all branches ...
CloneFetch(w) ==
    /\ At(w, "remote")
    /\ tracked' = [tracked EXCEPT ![Clone(w)] = up]
    /\ run' = [run EXCEPT ![w].head = upHead]
    /\ Goto(w, "refs")
    /\ UNCHANGED <<git, local, lost, stored>> /\ Quiet

\* ... then the default branch as it was fetched.  The checkout that follows
\* fills the working tree only.
CloneRefs(w) ==
    LET d == Clone(w)
        b == run[w].head IN
    /\ At(w, "refs")
    /\ local' = [local EXCEPT ![d][b] = tracked[d][b]]
    /\ Goto(w, "fetch")
    /\ UNCHANGED <<git, tracked, lost, stored, run>> /\ Quiet

\* The clone fails on the way: the partial clone is removed.
CloneFails(w) ==
    /\ \/ At(w, "init") \/ At(w, "remote") \/ At(w, "refs")
       \/ At(w, "clone") /\ git[Clone(w)] = "absent"
    /\ RemoveAll(Clone(w))
    /\ Fail(w)
    /\ UNCHANGED <<lost, stored>>

\* The remote branches as a fetch leaves them: nothing is pruned.
Fetched(refs) == [b \in Branches |-> IF up[b] = {} THEN refs[b] ELSE up[b]]

\* FetchContext with Force, then References.
Fetch(w) ==
    LET d == Clone(w)
        refs == Fetched(tracked[d]) IN
    /\ At(w, "fetch")
    /\ git[d] = "ready"
    /\ tracked' = [tracked EXCEPT ![d] = refs]
    /\ run' = [run EXCEPT ![w].refs = refs, ![w].moved = {},
                          ![w].todo = {b \in Branches : refs[b] # {}}]
    /\ Goto(w, "list")
    /\ UNCHANGED <<git, local, lost, stored>> /\ Quiet

\* Mutant: the name of the tracking branch for that of the branch.
ListTracking(w) ==
    /\ At(w, "list")
    /\ run' = [run EXCEPT ![w].head = <<"origin", upHead>>]
    /\ Goto(w, "branch")
    /\ UNCHANGED <<gitVars, stored>> /\ Quiet

\* remote.ListContext: where HEAD points to.
List(w) ==
    /\ At(w, "list")
    /\ run' = [run EXCEPT ![w].head = upHead]
    /\ Goto(w, "branch")
    /\ UNCHANGED <<gitVars, stored>> /\ Quiet

\* Network, local repository or context errors.  A clone without an origin can
\* only fail here.
GitFails(w) ==
    /\ At(w, "fetch") \/ At(w, "list") \/ At(w, "branch")
    /\ Fail(w)
    /\ UNCHANGED <<gitVars, stored>>

\* plumbing.ReferenceName.Short: refs/heads/b is "b", refs/remotes/origin/b is
\* "origin/b".
ShortHead(b) == <<b>>
ShortRemote(b) == <<"origin", b>>

\* Mutant: only the default branch is followed, whatever the configuration.
SkippedAlways(w, b) == run[w].head # b

Skipped(w, b) == ~conf.allBranches /\ ShortHead(run[w].head) # ShortRemote(b)

SkipBranch(w) ==
    /\ At(w, "branch")
    /\ \E b \in run[w].todo :
        /\ Skipped(w, b)
        /\ run' = [run EXCEPT ![w].todo = @ \ {b}]
    /\ UNCHANGED <<gitVars, stored, pc>> /\ Quiet

\* A branch that is not there yet is created at the listed hash, which a pull
\* of another branch may have left behind; then it is checked out.
Branch(w) ==
    LET d == Clone(w) IN
    /\ At(w, "branch")
    /\ \E b \in run[w].todo :
        LET new == local[d][b] = {} IN
        /\ ~Skipped(w, b)
        /\ local' = IF new THEN [local EXCEPT ![d][b] = run[w].refs[b]] ELSE local
        /\ run' = [run EXCEPT ![w].updated = @ \/ new, ![w].cur = b]
    /\ Goto(w, "pull")
    /\ UNCHANGED <<git, tracked, lost, stored>> /\ Quiet

\* Setting up a new branch fails after its reference was created.
BranchFails(w) ==
    LET d == Clone(w) IN
    /\ At(w, "branch")
    /\ \E b \in run[w].todo :
        /\ ~Skipped(w, b)
        /\ local[d][b] = {}
        /\ local' = [local EXCEPT ![d][b] = run[w].refs[b]]
    /\ Fail(w)
    /\ UNCHANGED <<git, tracked, lost, stored>>

\* PullContext fetches every branch again, not only the one it pulls.
PullFetches(d) == tracked' = [tracked EXCEPT ![d] = Fetched(tracked[d])]
PullMoves(d) == Fetched(tracked[d]) # tracked[d]

\* It returns nil: the branch is upstream and ahead of the local one, or the
\* same while the fetch moved another one.
FastForwards(d, b) ==
    /\ up[b] # {}
    /\ local[d][b] \subseteq up[b]
    /\ PullMoves(d) \/ local[d][b] # up[b]

\* Mutant: the local branch is reset to the remote one.
PullReset(w) ==
    LET d == Clone(w)
        b == run[w].cur IN
    /\ At(w, "pull")
    /\ up[b] # {}
    /\ PullFetches(d)
    /\ local' = [local EXCEPT ![d][b] = up[b]]
    /\ run' = [run EXCEPT ![w].todo = @ \ {b}, ![w].updated = TRUE]
    /\ Goto(w, "branch")
    /\ UNCHANGED <<git, lost, stored>> /\ Quiet

\* It fast-forwards the local branch.
Pull(w) ==
    LET d == Clone(w)
        b == run[w].cur IN
    /\ At(w, "pull")
    /\ FastForwards(d, b)
    /\ PullFetches(d)
    /\ local' = [local EXCEPT ![d][b] = up[b]]
    /\ run' = [run EXCEPT ![w].todo = @ \ {b}, ![w].updated = TRUE]
    /\ Goto(w, "branch")
    /\ UNCHANGED <<git, lost, stored>> /\ Quiet

\* NoErrAlreadyUpToDate: the fetch moved nothing and the local branch has all
\* that is upstream.
PullUpToDate(w) ==
    LET d == Clone(w)
        b == run[w].cur IN
    /\ At(w, "pull")
    /\ up[b] # {} /\ up[b] \subseteq local[d][b]
    /\ ~PullMoves(d)
    /\ run' = [run EXCEPT ![w].todo = @ \ {b}]
    /\ Goto(w, "branch")
    /\ UNCHANGED <<gitVars, stored>> /\ Quiet

\* Mutant: a pull that fails is tried again.
PullFailsAgain(w) ==
    /\ At(w, "pull")
    /\ IF w \in ctxDone THEN Fail(w) ELSE UNCHANGED <<run, pc>> /\ Quiet
    /\ UNCHANGED <<gitVars, stored>>

\* The pull fails: before its fetch; after it, where the branch was deleted
\* upstream, diverged or went back; or after the local branch was moved, while
\* the working tree is written.  The sync goes on with the next branch unless
\* the context is done.
PullFails(w) ==
    LET d == Clone(w)
        b == run[w].cur IN
    /\ At(w, "pull")
    /\ \/ UNCHANGED <<local, tracked>>
       \/ PullFetches(d) /\ UNCHANGED local
       \/ /\ FastForwards(d, b)
          /\ PullFetches(d)
          /\ local' = [local EXCEPT ![d][b] = up[b]]
    /\ IF w \in ctxDone
       THEN Fail(w)
       ELSE /\ run' = [run EXCEPT ![w].todo = @ \ {b}, ![w].missed = @ \cup {b}]
            /\ Goto(w, "branch")
            /\ Quiet
    /\ UNCHANGED <<git, lost, stored>>

\* The loop is over, with its variables: check out the default branch, which
\* must exist.
Checkout(w) ==
    /\ At(w, "branch")
    /\ run[w].todo = {}
    /\ local[Clone(w)][run[w].head] # {}
    /\ Goto(w, IF run[w].updated THEN "archive" ELSE "end")
    /\ run' = [run EXCEPT ![w].refs = NoRefs, ![w].cur = NewRun.cur]
    /\ UNCHANGED <<gitVars, stored>> /\ Quiet

\* archive.Create packs the whole clone, .git included.
Archive(w) ==
    /\ At(w, "archive")
    /\ w \notin ctxDone
    /\ run' = [run EXCEPT ![w].snap = local[Clone(w)], ![w].nput = 1]
    /\ Goto(w, "put")
    /\ UNCHANGED <<gitVars, stored>> /\ Quiet

\* The context is done, or packing fails.
ArchiveFails(w) == At(w, "archive") /\ Fail(w) /\ UNCHANGED <<gitVars, stored>>

\* PutObject truncates the file of the fixed name ...
Put(w) ==
    /\ At(w, "put")
    /\ run[w].nput <= NumStorages
    /\ stored' = [stored EXCEPT ![run[w].nput].whole = FALSE]
    /\ Goto(w, "putting")
    /\ UNCHANGED <<gitVars, run>> /\ Quiet

\* ... and writes it.
PutDone(w) ==
    /\ At(w, "putting")
    /\ stored' = [stored EXCEPT ![run[w].nput] = [whole |-> TRUE, refs |-> run[w].snap]]
    /\ run' = [run EXCEPT ![w].nput = @ + 1]
    /\ Goto(w, "put")
    /\ UNCHANGED gitVars /\ Quiet

\* Mutant: an error of one storage does not end the sync.
PutFailsSkipped(w) ==
    /\ (At(w, "put") /\ run[w].nput <= NumStorages) \/ At(w, "putting")
    /\ run' = [run EXCEPT ![w].nput = @ + 1]
    /\ Goto(w, "put")
    /\ UNCHANGED <<gitVars, stored>> /\ Quiet

\* A storage fails: before or after its file was truncated.
PutFails(w) ==
    /\ (At(w, "put") /\ run[w].nput <= NumStorages) \/ At(w, "putting")
    /\ Fail(w)
    /\ UNCHANGED <<gitVars, stored>>

PutsOver(w) ==
    /\ At(w, "put")
    /\ run[w].nput > NumStorages
    /\ Goto(w, "end")
    /\ UNCHANGED <<gitVars, stored, run>> /\ Quiet

\* Without the cache the clone is removed.
End(w) ==
    /\ At(w, "end")
    /\ w \notin ctxDone
    /\ IF conf.useCache THEN UNCHANGED gitVars ELSE RemoveAll(w) /\ UNCHANGED lost
    /\ Goto(w, "ok")
    /\ UNCHANGED <<stored, run>> /\ Quiet

\* The context is done, and the clone stays even without the cache; or it
\* cannot be removed, and what is left of it is not used again.
EndFails(w) ==
    /\ At(w, "end")
    /\ w \in ctxDone \/ ~conf.useCache
    /\ Fail(w)
    /\ UNCHANGED <<gitVars, stored>>

\* return nil and the deferred unlock.
Finish(w) == At(w, "ok") /\ Fail(w) /\ UNCHANGED <<gitVars, stored>>
-----------------------------------------------------------------------------
\* The job is cancelled, or 30 minutes have passed.
ContextDone(w) ==
    /\ ~At(w, "idle")
    /\ w \notin ctxDone
    /\ ctxDone' = ctxDone \cup {w}
    /\ UNCHANGED <<conf, upVars, gitVars, stored, holds, crashes, pc, run>>

\* The process dies, at any step, and is started again.
Crash ==
    /\ crashes < MaxCrashes
    /\ crashes' = crashes + 1
    /\ pc' = [w \in Workers |-> "idle"]
    /\ run' = [w \in Workers |-> NewRun]
    /\ Lock!Drop(Workers)
    /\ ctxDone' = {}
    /\ UNCHANGED <<conf, upVars, gitVars, stored>>

\* The steps of a call that has the lock.
Work(w) ==
    \/ Look(w)
    \/ CloneExists(w) \/ CloneInit(w) \/ CloneRemote(w) \/ CloneFetch(w)
    \/ CloneRefs(w) \/ CloneFails(w)
    \/ Fetch(w) \/ List(w) \/ GitFails(w)
    \/ SkipBranch(w) \/ Branch(w) \/ BranchFails(w)
    \/ Pull(w) \/ PullUpToDate(w) \/ PullFails(w) \/ Checkout(w)
    \/ Archive(w) \/ ArchiveFails(w)
    \/ Put(w) \/ PutDone(w) \/ PutFails(w) \/ PutsOver(w)
    \/ End(w) \/ EndFails(w) \/ Finish(w)

Next ==
    \/ Push \/ Rename \/ Crash
    \/ \E w \in Workers :
        Begin(w) \/ Acquire(w) \/ AcquireFails(w) \/ Work(w) \/ ContextDone(w)

Spec == Init /\ [][Next]_vars

\* Every network operation ends, by itself or by the 30-minute context.
Fairness == \A w \in Workers : WF_vars(Work(w))
FairSpec == Spec /\ Fairness
-----------------------------------------------------------------------------
\* "once code and history have been pulled locally, a sync must never delete
\* them" (README.md:144): no branch of the kept clone loses a commit, whatever
\* happens upstream and wherever a sync fails, is cancelled or dies, but for
\* the one way the code has: a call whose os.Stat failed removes the clone
\* that it then cannot make anew.  Here for the code; WikiHistoryKept says it
\* for the wiki.
DeletionSafe ==
    [][conf.useCache /\ ~conf.iswiki =>
        \/ \A b \in Branches : local["cache"][b] \subseteq local'["cache"][b]
        \/ \E w \in Workers : run[w].blind /\ At(w, "clone")]_vars

WikiHistoryKept ==
    [][conf.useCache /\ conf.iswiki =>
        \A b \in Branches : local["cache"][b] \subseteq local'["cache"][b]]_vars

\* With the cache, no later archive lacks a commit that an earlier one had:
\* neither a force push nor two overlapping syncs take one out of a storage,
\* unless a call that could not see the clone has removed it.
ArchiveNeverRegresses ==
    [][conf.useCache /\ ~conf.iswiki /\ ~lost =>
        \A s \in 1..NumStorages, b \in Branches :
            stored[s].refs[b] \subseteq stored'[s].refs[b]]_vars

\* A sync that changed the clone and ends well leaves in every storage an
\* archive of the clone as it is.
StoredWhenUpdated ==
    \A w \in Workers :
        At(w, "end") /\ run[w].updated =>
            \A s \in 1..NumStorages :
                stored[s].whole /\ stored[s].refs = local[Clone(w)]

\* With allBranches, a sync that ends well has in each local branch what the
\* remote one has, though every pull moves all remote branches, those visited
\* before it too: but for the branches whose pull was logged as failed and
\* those that changed upstream during the call.
FollowsAllBranches ==
    \A w \in Workers :
        At(w, "end") /\ conf.allBranches =>
            \A b \in Branches \ (run[w].missed \cup run[w].moved) :
                tracked[Clone(w)][b] \subseteq local[Clone(w)][b]

\* Without it, "if not pull all branches and this branch is not default then
\* skip" (repository.go:256): the default branch is not skipped.
FollowsDefaultBranch ==
    \A w \in Workers :
        At(w, "end") =>
            \/ run[w].head \in run[w].missed
            \/ tracked[Clone(w)][run[w].head] \subseteq local[Clone(w)][run[w].head]

\* "The fetched objects stay in the local cache and are picked up on the next
\* run" (repository.go:334-335): once a sync ends well, what the clone has is
\* in the storages.
ArchivedByNextRun ==
    \A w \in Workers :
        At(w, "end") => \A s \in 1..NumStorages : stored[s].refs = local[Clone(w)]

\* A call that has the lock returns, so the next one gets it.
SyncReturns == \A w \in Workers : At(w, "look") ~> At(w, "idle")
=============================================================================

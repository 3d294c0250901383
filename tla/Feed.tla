-------------------------------- MODULE Feed --------------------------------
(***************************************************************************)
(* internal/issue and internal/discussion: Sync keeps one file per issue   *)
(* (or pull request) or per discussion, and an archive of the directory in *)
(* every storage.  It is incremental: where to go on from is read back from *)
(* the time stamps in the files.  Issues come oldest update first, from    *)
(* that time on, paged by number; discussions come newest first, paged by  *)
(* cursor, and those not newer than that time are skipped.                 *)
(*                                                                         *)
(* The lock makes the runs of one repository and component sequential      *)
(* (RepoLock), so one run at a time is modelled; upstream changes at any   *)
(* time.  The GitHub API and the file system are external.                 *)
(***************************************************************************)
EXTENDS Naturals, FiniteSets

CONSTANTS
    Items,        \* issue or discussion numbers
    PageSize,     \* items per page (100, or 50)
    NumStorages,
    Configs,      \* the (kind, useCache) to consider
    FirstTimes,   \* when the items were updated at first; 0: not there
    MaxTime,      \* bound on GitHub's clock, in seconds
    MaxChanges    \* bound on changes upstream

ASSUME FeedAssumption ==
    /\ Items \subseteq Nat /\ IsFiniteSet(Items)
    /\ PageSize \in Nat \ {0}
    /\ NumStorages \in Nat
    /\ Configs \subseteq [kind : {"issue", "discussion"}, useCache : BOOLEAN]
    /\ MaxTime \in Nat /\ MaxChanges \in Nat
    /\ FirstTimes \subseteq [Items -> 0..MaxTime]

VARIABLES
    conf,     \* the configuration, fixed
    up,       \* each item upstream: its updatedAt and its version
    clock, changes,
    files,    \* the file of each item: its time stamp and the version in it
    stored,   \* the archive in each storage
    pc, run,  \* where the run is, and its local variables
    \* history
    changed,  \* items changed upstream since the run began
    shifted   \* upstream changed between two pages of a run

upVars == <<up, clock, changes>>
vars == <<conf, upVars, files, stored, pc, run, changed, shifted>>

\* A version is 0 where there is nothing: no item, no file, or a file that was
\* truncated and not written.  A stamp is 0 where no line can be parsed.
Content == [at : 0..MaxTime, ver : Nat]
None == [at |-> 0, ver |-> 0]
Contents == [Items -> Content]
Nothing == [i \in Items |-> None]

\* lastUpdate; the next page's number; the cursor; whether there is a next page;
\* the rest of the page, as listed; isUpdated; the archive; the next storage.
Runs == [last : 0..MaxTime, page : Nat \ {0}, cursor : [at : 0..MaxTime, num : Nat],
         more : BOOLEAN, rest : SUBSET [num : Items, at : 0..MaxTime, ver : Nat],
         updated : BOOLEAN, snap : Contents, nput : Nat]
NoCursor == [at |-> 0, num |-> 0]
NewRun == [last |-> 0, page |-> 1, cursor |-> NoCursor, more |-> FALSE, rest |-> {},
           updated |-> FALSE, snap |-> Nothing, nput |-> 1]

TypeOK ==
    /\ conf \in Configs
    /\ up \in Contents /\ clock \in 0..MaxTime /\ changes \in 0..MaxChanges
    /\ files \in Contents
    /\ stored \in [1..NumStorages -> [whole : BOOLEAN, files : Contents]]
    /\ pc \in {"idle", "list", "items", "write", "put", "putting", "end"}
    /\ run \in Runs
    /\ changed \subseteq Items
    /\ shifted \in BOOLEAN

Init ==
    /\ conf \in Configs
    /\ \E f \in FirstTimes :
        /\ up = [i \in Items |-> [at |-> f[i], ver |-> IF f[i] = 0 THEN 0 ELSE 1]]
        /\ clock \in {t \in 0..MaxTime : \A i \in Items : f[i] <= t}
    /\ changes = 0
    /\ files = Nothing
    /\ stored = [s \in 1..NumStorages |-> [whole |-> FALSE, files |-> Nothing]]
    /\ pc = "idle"
    /\ run = NewRun
    /\ changed = {}
    /\ shifted = FALSE
-----------------------------------------------------------------------------
(* Upstream.                                                                  *)

Change(i, content) ==
    /\ changes < MaxChanges
    /\ changes' = changes + 1
    /\ up' = [up EXCEPT ![i] = content]
    /\ changed' = changed \cup {i}
    /\ shifted' = (shifted \/ (pc # "idle" /\ run.more))
    /\ UNCHANGED <<conf, files, stored, pc, run>>

\* A new item, or a change of one or of what is under it: "the issue's update
\* time will be updated" (issue.go:165), to the present second.
Update(i) ==
    /\ clock' \in {t \in 1..MaxTime : clock <= t}
    /\ Change(i, [at |-> clock', ver |-> up[i].ver + 1])

\* An item is deleted, or moved to another repository.
Remove(i) ==
    /\ up[i].ver > 0
    /\ Change(i, None)
    /\ UNCHANGED clock

There == {i \in Items : up[i].ver > 0}

\* The order of a listing; equal times by number.
Before(i, j) ==
    \/ conf.kind = "issue" /\ up[i].at < up[j].at
    \/ conf.kind = "discussion" /\ up[i].at > up[j].at
    \/ up[i].at = up[j].at /\ i < j

Rank(L, i) == Cardinality({j \in L : Before(j, i)})

Listed(S) == {[num |-> i, at |-> up[i].at, ver |-> up[i].ver] : i \in S}

\* Mutant: only items updated after that time.
SinceAfter == {i \in There : up[i].at > run.last}

\* state=all, sort=updated, direction=asc, since: items updated at that time or
\* later, by offset.
Since == {i \in There : up[i].at >= run.last}
IssuePage == {i \in Since : Rank(Since, i) \div PageSize = run.page - 1}
MoreIssues == Cardinality(Since) > run.page * PageSize

\* orderBy UPDATED_AT DESC, after the cursor: those that come after the last
\* item of the previous page.
AfterCursor ==
    {i \in There : \/ run.cursor = NoCursor
                   \/ up[i].at < run.cursor.at
                   \/ up[i].at = run.cursor.at /\ run.cursor.num < i}
DiscussionPage == {i \in AfterCursor : Rank(AfterCursor, i) < PageSize}
MoreDiscussions == Cardinality(AfterCursor) > PageSize
EndCursor ==
    LET l == CHOOSE i \in DiscussionPage : \A j \in DiscussionPage : ~Before(i, j)
    IN [at |-> up[l].at, num |-> l]
-----------------------------------------------------------------------------
(* Sync.                                                                      *)

Quiet == UNCHANGED <<conf, upVars, changed, shifted>>
Goto(l) == pc' = l

\* The greatest time stamp in the files of the directory.
Newest(t) ==
    /\ \A i \in Items : files[i].at <= t
    /\ t = 0 \/ \E i \in Items : files[i].at = t

\* The lock is taken, the directory made and read.  Without the cache it is a
\* new one.
Begin ==
    /\ pc = "idle"
    /\ \E t \in 0..MaxTime : Newest(t) /\ run' = [NewRun EXCEPT !.last = t]
    /\ changed' = {}
    /\ Goto("list")
    /\ UNCHANGED <<conf, upVars, files, stored, shifted>>

\* Mutant: the next page is not asked for.
ListIssuesAgain ==
    /\ pc = "list" /\ conf.kind = "issue"
    /\ run' = [run EXCEPT !.rest = Listed(IssuePage), !.more = MoreIssues]
    /\ Goto("items")
    /\ UNCHANGED <<files, stored>> /\ Quiet

\* client.Issues.ListByRepo
ListIssues ==
    /\ pc = "list" /\ conf.kind = "issue"
    /\ run' = [run EXCEPT !.rest = Listed(IssuePage), !.more = MoreIssues, !.page = @ + 1]
    /\ Goto("items")
    /\ UNCHANGED <<files, stored>> /\ Quiet

\* client.Query(discussionsQuery)
ListDiscussions ==
    /\ pc = "list" /\ conf.kind = "discussion"
    /\ run' = [run EXCEPT !.rest = Listed(DiscussionPage), !.more = MoreDiscussions,
                          !.cursor = IF DiscussionPage = {} THEN @ ELSE EndCursor]
    /\ Goto("items")
    /\ UNCHANGED <<files, stored>> /\ Quiet

\* The next item of the page.
First(x) ==
    /\ x \in run.rest
    /\ \A y \in run.rest \ {x} :
        \/ conf.kind = "issue" /\ x.at < y.at
        \/ conf.kind = "discussion" /\ x.at > y.at
        \/ x.at = y.at /\ x.num < y.num

Skipped(x) == conf.kind = "discussion" /\ x.at <= run.last

SkipItem ==
    /\ pc = "items"
    /\ \E x \in run.rest :
        /\ First(x) /\ Skipped(x)
        /\ run' = [run EXCEPT !.rest = @ \ {x}]
    /\ UNCHANGED <<files, stored, pc>> /\ Quiet

\* Its comments were fetched: os.WriteFile truncates the file and starts to
\* write; what is there if it gets no further may have the stamp or not ...
Write ==
    /\ pc = "items"
    /\ \E x \in run.rest :
        /\ First(x) /\ ~Skipped(x)
        /\ \E stamp \in {0, x.at} :
            files' = [files EXCEPT ![x.num] = [at |-> stamp, ver |-> 0]]
    /\ run' = [run EXCEPT !.updated = TRUE]
    /\ Goto("write")
    /\ UNCHANGED stored /\ Quiet

\* Mutant: the listed item itself for its content.
WriteListed ==
    /\ pc = "write"
    /\ \E x \in run.rest :
        /\ First(x)
        /\ files' = [files EXCEPT ![x.num] = x]
        /\ run' = [run EXCEPT !.rest = @ \ {x}]
    /\ Goto("items")
    /\ UNCHANGED stored /\ Quiet

\* ... and finishes.  The file has the item with its comments as one version;
\* comments and replies after the first page are not modelled.
WriteDone ==
    /\ pc = "write"
    /\ \E x \in run.rest :
        /\ First(x)
        /\ files' = [files EXCEPT ![x.num] = [at |-> x.at, ver |-> x.ver]]
        /\ run' = [run EXCEPT !.rest = @ \ {x}]
    /\ Goto("items")
    /\ UNCHANGED stored /\ Quiet

NextPage ==
    /\ pc = "items" /\ run.rest = {} /\ run.more
    /\ Goto("list")
    /\ UNCHANGED <<files, stored, run>> /\ Quiet

\* Mutant: one page is enough.
ArchiveFirstPage ==
    /\ pc = "items" /\ run.rest = {}
    /\ run' = [run EXCEPT !.snap = files]
    /\ Goto(IF run.updated THEN "put" ELSE "end")
    /\ UNCHANGED <<files, stored>> /\ Quiet

\* After the last page: archive.Create, if anything was written.
Archive ==
    /\ pc = "items" /\ run.rest = {} /\ ~run.more
    /\ run' = [run EXCEPT !.snap = files]
    /\ Goto(IF run.updated THEN "put" ELSE "end")
    /\ UNCHANGED <<files, stored>> /\ Quiet

Put ==
    /\ pc = "put" /\ run.nput <= NumStorages
    /\ stored' = [stored EXCEPT ![run.nput].whole = FALSE]
    /\ Goto("putting")
    /\ UNCHANGED <<files, run>> /\ Quiet

\* Mutant: an error of the storage is not looked at.
PutAnyway ==
    /\ pc = "putting"
    /\ \/ stored' = [stored EXCEPT ![run.nput] = [whole |-> TRUE, files |-> run.snap]]
       \/ UNCHANGED stored
    /\ run' = [run EXCEPT !.nput = @ + 1]
    /\ Goto("put")
    /\ UNCHANGED files /\ Quiet

PutDone ==
    /\ pc = "putting"
    /\ stored' = [stored EXCEPT ![run.nput] = [whole |-> TRUE, files |-> run.snap]]
    /\ run' = [run EXCEPT !.nput = @ + 1]
    /\ Goto("put")
    /\ UNCHANGED files /\ Quiet

PutsOver ==
    /\ pc = "put" /\ run.nput > NumStorages
    /\ Goto("end")
    /\ UNCHANGED <<files, stored, run>> /\ Quiet

\* The deferred cleanup and unlock: without the cache the directory goes.
Return ==
    /\ files' = IF conf.useCache THEN files ELSE Nothing
    /\ run' = NewRun
    /\ Goto("idle")
    /\ UNCHANGED stored /\ Quiet

End == pc = "end" /\ Return

\* What may fail: a listing, the comments of the next item or the check of the
\* context after the last one, a write, the archive, a storage.
MayFail ==
    \/ pc \in {"list", "write", "putting"}
    \/ pc = "items" /\ (run.updated \/ \E x \in run.rest : First(x) /\ ~Skipped(x))
    \/ pc = "put" /\ run.nput <= NumStorages

Fail == MayFail /\ Return

\* The process dies.  Without the cache its directory is never used again.
Crash ==
    /\ pc # "idle"
    /\ files' = IF conf.useCache THEN files ELSE Nothing
    /\ run' = NewRun
    /\ Goto("idle")
    /\ UNCHANGED stored /\ Quiet

Step ==
    \/ ListIssues \/ ListDiscussions \/ SkipItem \/ Write \/ WriteDone \/ NextPage
    \/ Archive \/ Put \/ PutDone \/ PutsOver \/ End \/ Fail

Next ==
    \/ \E i \in Items : Update(i) \/ Remove(i)
    \/ Begin \/ Step \/ Crash

Spec == Init /\ [][Next]_vars

\* A request is out: a listing, or the comments of the next item.  Neither the
\* clients nor the job's context bound it.
Asking == pc = "list" \/ (pc = "items" /\ \E x \in run.rest : First(x) /\ ~Skipped(x))

\* A run goes on where it is its own turn; that a request is ever answered is
\* not assumed.
FairSpec == Spec /\ WF_vars(Step /\ ~Asking)
-----------------------------------------------------------------------------
\* A run that ends well has stored every item that was not changed meanwhile
\* and is newer than what the run started from.  For issues it takes that no
\* page shifted under it.
StoresAllNewer ==
    pc = "end" =>
        \A i \in There \ changed :
            up[i].at > run.last /\ (conf.kind = "issue" => ~shifted) => files[i] = up[i]

\* Issues: whatever failed, died or was torn before, a run that ends well and
\* met no change leaves every issue stored as it is, those of the very second
\* of the last stamp too.  It takes that no page ever shifted under a run.
CatchesUp ==
    pc = "end" /\ conf.kind = "issue" /\ changed = {} /\ ~shifted =>
        \A i \in There : files[i] = up[i]

\* A run that ends well leaves an archive of the directory in every storage: if
\* it wrote something; for issues also if it did not have to, since the newest
\* is listed again, which makes up for a run that failed before its archive.
ArchivedAtEnd ==
    LET again == conf.kind = "issue" /\ \E i \in There \ changed : up[i].at >= run.last IN
    pc = "end" /\ (run.updated \/ again) =>
        \A s \in 1..NumStorages : stored[s] = [whole |-> TRUE, files |-> files]

\* "What was written before the failure is kept, the next sync resumes from the
\* files' time stamps" (docs/superpowers/specs/
\* 2026-08-11-github-rate-limit-retry-design.md:183), for discussions: a run
\* that ends well and met no change has a file for each.
Resumes ==
    pc = "end" /\ conf.kind = "discussion" /\ changed = {} =>
        \A i \in There : files[i] # None

\* A run ends, so that the lock is given back, unless one request is out for
\* ever: over any number of pages nothing else keeps it going or stops it.
RunEnds ==
    \/ pc = "list" ~> pc = "idle"
    \/ <>[]Asking
=============================================================================

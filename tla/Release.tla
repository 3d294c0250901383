------------------------------- MODULE Release -------------------------------
(***************************************************************************)
(* internal/release: DownloadAllAssets keeps the assets of the newest      *)
(* releases in every file storage, one directory per tag, and then removes *)
(* what else is in the release directory.                                  *)
(*                                                                         *)
(* The lock makes the runs of one repository sequential (RepoLock), so one *)
(* run at a time is modelled; GitHub changes at any time.  Its three kinds *)
(* of requests go through Retry.                                           *)
(***************************************************************************)
EXTENDS Retry, SequencesExt, FiniteSets, FiniteSetsExt

CONSTANTS
    Tags, Assets,
    Parent,          \* the first element of a tag's path: itself but for "a/b"
    Sizes,           \* the size of each version of an asset
    FirstReleases,   \* the releases there may be at first, newest first
    NumStorages,
    NumLimit, SizeLimit,   \* releaseNumLimit, releaseSizeLimit; negative: none
    PageSize,        \* what GitHub lists when it is asked for no page: 30
    MaxChanges       \* bound on changes upstream

ASSUME ReleaseAssumption ==
    /\ Parent \in [Tags -> STRING]
    /\ Sizes \in Seq(Nat) \ {<<>>}
    \* a release has a tag of its own
    /\ FirstReleases \subseteq Seq(Tags) /\ \A q \in FirstReleases : IsInjective(q)
    /\ NumStorages \in Nat /\ NumLimit \in Int /\ SizeLimit \in Int
    /\ PageSize \in Nat \ {0}
    /\ MaxChanges \in Nat

Storages == 1..NumStorages
Versions == 1..Len(Sizes)

VARIABLES
    published,   \* the tags of the releases, newest first
    up,          \* the version of each asset; 0: none, or still being uploaded
    changes,
    made,        \* the tags with a directory, in each storage
    disk,        \* the file of each asset: what it was written from, its size
    pc, run,     \* where the run is, and its local variables
    late         \* history: the run was cancelled after it began to prune

upVars == <<published, up, changes>>
vars == <<retryVars, upVars, made, disk, pc, run, late>>

Files == [ver : Nat, size : Nat]
NoFile == [ver |-> 0, size |-> 0]
Listing == [tag : Tags, asset : Assets, ver : Versions]

\* The releases as listed; those left; allReleaseSize; reserveTagName; the assets
\* listed (history); those left of this release; the asset at hand;
\* needDownloadStorage, and those of them that could not be looked at though they
\* have it (history); the storage to prune; what is left of its directory; the
\* storages not pruned (history).
Runs == [listing : Seq(Tags), todo : Seq(Tags), total : Nat, reserved : SUBSET Tags,
         seen : SUBSET Listing, rest : SUBSET Listing, cur : SUBSET Listing,
         need : SUBSET Storages, unseen : SUBSET Storages,
         store : Nat \ {0}, entries : SUBSET STRING, skipped : SUBSET Storages]
NewRun == [listing |-> <<>>, todo |-> <<>>, total |-> 0, reserved |-> {}, seen |-> {},
           rest |-> {}, cur |-> {}, need |-> {}, unseen |-> {},
           store |-> 1, entries |-> {}, skipped |-> {}]

Calls == {"list", "assets", "download"}

TypeOK ==
    /\ RetryTypeOK
    /\ published \in Seq(Tags) /\ up \in [Tags -> [Assets -> 0..Len(Sizes)]]
    /\ changes \in 0..MaxChanges
    /\ made \in [Storages -> SUBSET Tags]
    /\ disk \in [Storages -> [Tags -> [Assets -> Files]]]
    /\ pc \in Calls \cup {"idle", "releases", "items", "put", "write", "written",
                          "prune", "entries", "end"}
    /\ run \in Runs
    /\ late \in BOOLEAN
    /\ do = "idle" \/ pc \in Calls

Init ==
    /\ published \in FirstReleases
    /\ up = [t \in Tags |-> [a \in Assets |->
                IF \E i \in DOMAIN published : published[i] = t THEN 1 ELSE 0]]
    /\ changes = 0
    /\ made = [s \in Storages |-> {}]
    /\ disk = [s \in Storages |-> [t \in Tags |-> [a \in Assets |-> NoFile]]]
    /\ pc = "idle" /\ run = NewRun /\ late = FALSE
    /\ cancelled = FALSE /\ do = "idle" /\ attempt = 0 /\ wait = 0
-----------------------------------------------------------------------------
(* Upstream.                                                                  *)

There == {published[i] : i \in DOMAIN published}

Changed ==
    /\ changes < MaxChanges
    /\ changes' = changes + 1
    /\ UNCHANGED <<retryVars, made, disk, pc, run, late>>

\* A release without assets as yet.
Publish(t) ==
    /\ t \notin There
    /\ published' = <<t>> \o published
    /\ Changed /\ UNCHANGED up

\* Another file by the same name is another asset, of the next version.
Upload(t, a) ==
    /\ t \in There /\ up[t][a] < Len(Sizes)
    /\ up' = [up EXCEPT ![t][a] = @ + 1]
    /\ Changed /\ UNCHANGED published

Withdraw(t) ==
    /\ \E i \in DOMAIN published :
        /\ published[i] = t
        /\ published' = RemoveAt(published, i)
    /\ Changed /\ UNCHANGED up
-----------------------------------------------------------------------------
(* The storages.                                                              *)

Size(x) == Sizes[x.ver]

\* ListObjectMetaInfo of the release directory
Entries(s) == {Parent[t] : t \in made[s]}

\* os.Remove: of a directory only if there is nothing in it.
Removable(s, e) ==
    \A t \in made[s] : Parent[t] = e => t = e /\ \A a \in Assets : disk[s][t][a] = NoFile

\* Mutant: what is there is not needed, whatever its size.
NeedsMissing(x) == {s \in Storages : disk[s][x.tag][x.asset] = NoFile}

\* Mutant: all of them if one needs it.
NeedsEverywhere(x) ==
    IF \A s \in Storages : /\ disk[s][x.tag][x.asset] # NoFile
                           /\ disk[s][x.tag][x.asset].size = Size(x)
    THEN {} ELSE Storages

\* The storages that have no file of the asset, or one of another size.
Needs(x) ==
    {s \in Storages : \/ disk[s][x.tag][x.asset] = NoFile
                      \/ disk[s][x.tag][x.asset].size # Size(x)}

First(S) == CHOOSE s \in S : \A t \in S : s <= t
-----------------------------------------------------------------------------
(* DownloadAllAssets.                                                         *)

Quiet == UNCHANGED <<upVars, late>>
Store == UNCHANGED <<made, disk>>
NoCall == UNCHANGED <<do, attempt, wait>>
Goto(l) == pc' = l

Begin ==
    /\ pc = "idle"
    /\ Goto("list") /\ Enter /\ cancelled' = FALSE
    /\ run' = NewRun /\ late' = FALSE
    /\ UNCHANGED upVars /\ Store

Cancel ==
    /\ pc # "idle" /\ ~cancelled
    /\ cancelled' = TRUE
    /\ late' = (pc \in {"prune", "entries", "end"})
    /\ UNCHANGED <<upVars, made, disk, pc, run>> /\ NoCall

\* The first page, which is all that is asked for.  GitHub lists the newest first.
Page(q) == IF PageSize < Len(q) THEN SubSeq(q, 1, PageSize) ELSE q

Prefix(q) == IF NumLimit >= 0 /\ NumLimit < Len(q) THEN SubSeq(q, 1, NumLimit) ELSE q

\* GetReleases, sorted and cut.
List ==
    /\ pc = "list" /\ Succeeds
    /\ run' = [run EXCEPT !.listing = Page(published), !.todo = Prefix(Page(published))]
    /\ Goto("releases")
    /\ UNCHANGED cancelled /\ Store /\ Quiet

Enough == SizeLimit >= 0 /\ run.total >= SizeLimit

NextRelease ==
    /\ pc = "releases" /\ ~cancelled
    /\ run.todo # <<>> /\ ~Enough
    /\ Goto("assets") /\ Enter
    /\ UNCHANGED <<cancelled, run>> /\ Store /\ Quiet

Uploaded(t) == {[tag |-> t, asset |-> a, ver |-> up[t][a]] : a \in {a \in Assets : up[t][a] > 0}}

\* The first page of the assets of a release, in any order.  Those that are still
\* being uploaded take a place on it too.
Pages(t) ==
    {P \in SUBSET Uploaded(t) : IF Cardinality(Assets) <= PageSize THEN P = Uploaded(t)
                                                                  ELSE Cardinality(P) <= PageSize}

\* GetReleaseAssets.  The assets of a release that was withdrawn are not found.
ListAssets ==
    /\ pc = "assets" /\ Succeeds
    /\ LET t == Head(run.todo) IN
        /\ t \in There
        /\ \E P \in Pages(t) :
            run' = [run EXCEPT !.todo = Tail(@), !.reserved = @ \cup {t},
                               !.rest = P, !.seen = @ \cup P]
    /\ Goto("items")
    /\ UNCHANGED cancelled /\ Store /\ Quiet

\* Mutant: the asset is asked for even if no storage needs it.
ExamineAlways ==
    /\ pc = "items"
    /\ \E x \in run.rest :
        /\ run' = [run EXCEPT !.rest = @ \ {x}, !.cur = {x}, !.need = Needs(x),
                              !.unseen = {}, !.total = @ + Size(x)]
        /\ Goto(IF Needs(x) = {} THEN "items" ELSE "download") /\ Enter
    /\ UNCHANGED cancelled /\ Store /\ Quiet

\* The next asset: every storage that should have it is asked for it.  One that
\* cannot say, for whatever error (F), is taken not to have it.
Examine ==
    /\ pc = "items"
    /\ \E x \in run.rest : \E F \in SUBSET (Storages \ Needs(x)) :
        /\ run' = [run EXCEPT !.rest = @ \ {x}, !.cur = {x}, !.need = Needs(x) \cup F,
                              !.unseen = F, !.total = @ + Size(x)]
        /\ IF Needs(x) \cup F = {} THEN Goto("items") /\ NoCall
                                   ELSE Goto("download") /\ Enter
    /\ UNCHANGED cancelled /\ Store /\ Quiet

\* DownloadAsset and ReadAll, by the id: not found once it was replaced.
Download ==
    /\ pc = "download" /\ Succeeds
    /\ \A x \in run.cur : x.tag \in There /\ up[x.tag][x.asset] = x.ver
    /\ Goto("put")
    /\ UNCHANGED <<cancelled, run>> /\ Store /\ Quiet

\* PutObject: the directory ...
MakeDir ==
    /\ pc = "put" /\ run.need # {}
    /\ \E x \in run.cur :
        made' = [made EXCEPT ![First(run.need)] = @ \cup {x.tag}]
    /\ Goto("write")
    /\ UNCHANGED <<cancelled, run, disk>> /\ NoCall /\ Quiet

\* ... the file, truncated and written in part, if it gets no further ...
Write ==
    /\ pc = "write"
    /\ \E x \in run.cur : \E n \in 0..Size(x) :
        /\ n < Size(x) \/ n = 0
        /\ disk' = [disk EXCEPT ![First(run.need)][x.tag][x.asset] =
                        [ver |-> x.ver, size |-> n]]
    /\ Goto("written")
    /\ UNCHANGED <<cancelled, run, made>> /\ NoCall /\ Quiet

\* ... and whole.
Written ==
    /\ pc = "written"
    /\ \E x \in run.cur :
        disk' = [disk EXCEPT ![First(run.need)][x.tag][x.asset].size = Size(x)]
    /\ run' = [run EXCEPT !.need = @ \ {First(@)}]
    /\ Goto("put")
    /\ UNCHANGED <<cancelled, made>> /\ NoCall /\ Quiet

PutsOver ==
    /\ pc = "put" /\ run.need = {} /\ ~cancelled
    /\ Goto("items")
    /\ UNCHANGED <<cancelled, run>> /\ NoCall /\ Store /\ Quiet

ItemsOver ==
    /\ pc = "items" /\ run.rest = {}
    /\ run' = [run EXCEPT !.cur = {}, !.unseen = {}]
    /\ Goto("releases")
    /\ UNCHANGED cancelled /\ NoCall /\ Store /\ Quiet

\* Mutant: the context is not looked at before.
DownloadsOverAnyway ==
    /\ pc = "releases" /\ (run.todo = <<>> \/ Enough)
    /\ Goto("prune")
    /\ UNCHANGED <<cancelled, run>> /\ NoCall /\ Store /\ Quiet

DownloadsOver ==
    /\ pc = "releases" /\ ~cancelled
    /\ run.todo = <<>> \/ Enough
    /\ Goto("prune")
    /\ UNCHANGED <<cancelled, run>> /\ NoCall /\ Store /\ Quiet

\* The next storage's release directory is read.
Prune ==
    /\ pc = "prune" /\ run.store <= NumStorages
    /\ run' = [run EXCEPT !.entries = Entries(run.store)]
    /\ Goto("entries")
    /\ UNCHANGED cancelled /\ NoCall /\ Store /\ Quiet

\* One that cannot be read is passed over, which is no error of the run.
PruneSkips ==
    /\ pc = "prune" /\ run.store <= NumStorages
    /\ run' = [run EXCEPT !.store = @ + 1, !.skipped = @ \cup {run.store}]
    /\ UNCHANGED <<cancelled, pc>> /\ NoCall /\ Store /\ Quiet

KeepEntry ==
    /\ pc = "entries"
    /\ \E e \in run.entries \cap run.reserved : run' = [run EXCEPT !.entries = @ \ {e}]
    /\ UNCHANGED <<cancelled, pc>> /\ NoCall /\ Store /\ Quiet

\* Mutant: an error is not looked at.
RemoveEntryAnyway ==
    /\ pc = "entries"
    /\ \E e \in run.entries \ run.reserved :
        /\ made' = IF Removable(run.store, e) THEN [made EXCEPT ![run.store] = @ \ {e}] ELSE made
        /\ run' = [run EXCEPT !.entries = @ \ {e}]
    /\ UNCHANGED <<cancelled, disk, pc>> /\ NoCall /\ Quiet

\* DeleteObject of what is not reserved.
RemoveEntry ==
    /\ pc = "entries"
    /\ \E e \in run.entries \ run.reserved :
        /\ Removable(run.store, e)
        /\ made' = [made EXCEPT ![run.store] = @ \ {e}]
        /\ run' = [run EXCEPT !.entries = @ \ {e}]
    /\ UNCHANGED <<cancelled, disk, pc>> /\ NoCall /\ Quiet

EntriesOver ==
    /\ pc = "entries" /\ run.entries = {}
    /\ run' = [run EXCEPT !.store = @ + 1]
    /\ Goto("prune")
    /\ UNCHANGED cancelled /\ NoCall /\ Store /\ Quiet

PruneOver ==
    /\ pc = "prune" /\ run.store > NumStorages
    /\ Goto("end")
    /\ UNCHANGED <<cancelled, run>> /\ NoCall /\ Store /\ Quiet

\* The deferred unlock.
Return ==
    /\ Goto("idle") /\ run' = NewRun /\ Leave
    /\ UNCHANGED cancelled /\ Store /\ Quiet

End == pc = "end" /\ Return

\* A request that failed for good, a context that is done where it is looked at,
\* no storage or no working directory, a storage that refuses to write or remove,
\* as it does a directory that is not empty.
MayFail ==
    \/ do = "failed"
    \/ cancelled /\ (pc = "releases" \/ (pc = "put" /\ run.need = {}))
    \/ pc \in {"write", "written"} \/ (pc = "put" /\ run.need # {})
    \/ pc = "items" /\ run.rest # {}
    \/ pc = "prune" /\ run.store <= NumStorages
    \/ pc = "entries" /\ run.entries \ run.reserved # {}

Fail == MayFail /\ Return

\* The process dies, of itself or of a panic: no goroutine of a job recovers.
Crash == pc # "idle" /\ Return

Request == DoStep /\ UNCHANGED <<upVars, made, disk, pc, run, late>>

Step ==
    \/ Request
    \/ List \/ NextRelease \/ ListAssets \/ Examine \/ Download
    \/ MakeDir \/ Write \/ Written \/ PutsOver \/ ItemsOver \/ DownloadsOver
    \/ Prune \/ PruneSkips \/ KeepEntry \/ RemoveEntry \/ EntriesOver \/ PruneOver \/ End \/ Fail

Next ==
    \/ \E t \in Tags : Publish(t) \/ Withdraw(t) \/ \E a \in Assets : Upload(t, a)
    \/ Begin \/ Cancel \/ Step \/ Crash

Spec == Init /\ [][Next]_vars

\* A request is out.  None of the clients has a timeout, nor the context a deadline.
Asking == do = "call"

\* A run goes on, and a sleep ends; whether a request does is up to GitHub.
FairSpec == Spec /\ WF_vars(Step /\ ~Asking)
-----------------------------------------------------------------------------
Pruning == pc \in {"prune", "entries", "end"}

\* The size of the assets listed for the first i releases.
SizeOfFirst(i) ==
    MapThenSumSet(Size, {x \in run.seen : \E j \in 1..i : x.tag = run.listing[j]})

Within(i) == /\ NumLimit >= 0 => i <= NumLimit
             /\ SizeLimit >= 0 => SizeOfFirst(i - 1) < SizeLimit

\* Once the downloads are over, every release on the first page and within the
\* limits has every asset that was on its own first page in every storage, in its
\* size; and whole, unless a file by that name was replaced, whatever was torn by
\* failures and crashes of earlier runs.
NewestStored ==
    Pruning => \A i \in DOMAIN run.listing : Within(i) =>
        /\ run.listing[i] \in run.reserved
        /\ \A x \in run.seen, s \in Storages : x.tag = run.listing[i] =>
            LET f == disk[s][x.tag][x.asset] IN
            f.size = Size(x) /\ 1 <= f.ver /\ f.ver <= x.ver

\* A run that ends well leaves nothing but the releases it kept, at most "the max
\* number of releases to keep" (config.go:88), in each storage it could read.
OkMeansPruned ==
    pc = "end" => \A s \in Storages \ run.skipped :
        /\ Entries(s) \subseteq run.reserved
        /\ NumLimit >= 0 => Cardinality(Entries(s)) <= NumLimit

\* A whole copy of what is published is not written again: no run puts it at
\* risk because another storage, or a run with an older listing, needs something;
\* only because the storage could not say that it has it.
GoodCopiesUntouched ==
    [][\A s \in Storages, t \in Tags, a \in Assets :
        LET f == disk[s][t][a] IN
        /\ t \in There /\ f.ver = up[t][a] /\ f.ver > 0 /\ f.size = Sizes[f.ver]
        => \/ disk'[s][t][a] = f
           \/ s \in run.unseen /\ \E x \in run.cur : x.tag = t /\ x.asset = a]_vars

\* A run cancelled before it prunes removes no directory either ("skip the
\* trailing storage delete loop", docs/superpowers/plans/
\* 2026-08-10-download-cancellation.md:15).
CancelPrunesNothing ==
    [][cancelled /\ ~late => \A s \in Storages : made[s] \subseteq made'[s]]_vars

\* A run ends, and gives the lock back, however often GitHub fails; unless a
\* request never returns.
SyncEnds == \/ pc = "list" ~> pc = "idle"
            \/ <>[]Asking
=============================================================================

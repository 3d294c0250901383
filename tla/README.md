# gitrieve in TLA+

gitrieve keeps local archives of Git repositories and of what surrounds them on
GitHub: wikis, releases, issues, discussions. It runs as single commands, as a
daemon that schedules syncs, and as a web server that launches them as jobs.
This directory models the parts where several goroutines, processes and failures
meet, checks the models with TLC on small instances and proves their safety
properties with TLAPS.

## The system

| Component | State it keeps | Operations | Talks to |
|---|---|---|---|
| Repository lock, `internal/lock` | a one-slot channel per key (process), a lock file per key (host) | Acquire, release | every sync |
| Git mirror, `internal/repository`, `internal/wiki` | a clone under `.gitrieve`, an archive in each storage | Sync | lock, archive, storage, upstream |
| Job executor, `internal/executor` | `runningJobs`, rows of `executions` | ExecuteJob, CancelJob, worker | syncs, database, log lines |
| Job log, `internal/ui`, `internal/logger` | rows of `logs` | Printf, Errorf from a bound goroutine | executor, every sync |
| Job API, `internal/server` | one stream per client | CreateJob, CancelJob, GetJobs, GetJobLogs | executor, database |
| Issue and discussion sync | one file per item, `lastUpdate` read back from them | Sync | lock, GitHub, storage |
| Release sync | a directory per tag in each storage | DownloadAllAssets | GitHub, storage |
| Storage, `internal/storage` | files or S3 objects | Put, Get, List, Delete | syncs |
| Configuration and its API, `internal/config`, `internal/server` | `Config` in memory, viper's settings, the YAML file | create, update, delete of repositories and storages; Save, Init | executor, daemon |
| Repository identity, `internal/typedef/key.go` | none | NormalizeURL, Key, Matches | configuration, executor |
| Retry, `internal/retry` | the attempt | Do, backoff | GitHub calls |
| Daemon, `cmd/daemon` | the scheduler's slots | one job per repository and component | syncs |

What is hard in it, with what makes each part correct:

- **Lock.** A channel taken before a file lock, error returns in between, a
  cancellation at either wait, a release in two halves, a process that dies.
  Correct: one holder per (base directory, key), no leaked token, a cancelled
  waiter returns, no deadlock across the layers.
- **Executor.** Three writers of a job's status (launcher, worker, cancel
  handlers), a map and a row that are not updated together, database writes
  whose errors are ignored, a crash that forgets the map and keeps the rows.
  Correct: a job that is over has a final status, a cancel reaches the job and
  wins, the map is exact, 200 means all were launched.
- **Log stream.** Two queries per poll, a worker that writes between them.
  Correct: it closes, and only after the last line.
- **Git mirror.** Upstream may force-push, delete or rename branches; network,
  storage, file system and context errors at each step; overlapping syncs;
  crashes. Correct: history that was pulled is never deleted, storages hold what
  the clone holds, branches are followed, the lock comes back.
- **Feeds.** Incremental by the newest `updatedAt` stored, paged while upstream
  changes. Correct: an item changed upstream is stored sooner or later.
- **Releases.** Two limits, several storages that may be in different states,
  releases and assets that change between the requests, pruning of what is not
  among the tags just handled. Correct: the newest releases are whole in every
  storage, a good copy is never put at risk, a run cancelled before it prunes
  removes nothing, one that ends well keeps to the limits.
- **Configuration.** Handlers that check, change and save in separate steps
  without a lock, saves that fail, break off or write over each other, a server
  that dies in the middle of one. Correct: the server starts again, keys are
  unique, file and memory agree.
- **Identity.** One URL in many spellings. Correct: all of them find the entry.
- **Retry.** Bounded attempts, waits that a cancellation ends, a doubling delay
  of fixed width. Correct: never asked again without a wait, and it ends.

## Modules

| Module | Models |
|---|---|
| `ExclusiveLock` | what `lock.Acquire` promises (abstract) |
| `RepoLock` | `internal/lock/lock.go` |
| `RepoLock_proofs` | theorems about `RepoLock`, its refinement of `ExclusiveLock` among them |
| `JobRow` | what the `executions` table tells of a job (abstract) |
| `Executor` | `internal/executor/executor.go`, the log lines, the two tables |
| `JobServer` | `Executor` and the log streams of `internal/server/api.go` |
| `Executor_proofs` | theorems about `JobServer`, its refinement of `JobRow` among them |
| `GitSync` | `repository.Sync` over `ExclusiveLock`, upstream, clone and storages |
| `GitSync_proofs` | theorems about `GitSync` |
| `Feed` | `internal/issue` and `internal/discussion`, their listings on GitHub, files and storages |
| `Feed_proofs` | theorems about `Feed` |
| `Retry` | `internal/retry/retry.go`, for the modules that make requests |
| `Release` | `internal/release/release.go` over `Retry`, the releases on GitHub, the file storages |
| `Release_proofs` | theorems about `Release` and `Retry` |
| `ReleaseStored_proofs` | that the newest releases are stored, and sums over sets |
| `RepoKey` | `internal/typedef/key.go` |
| `RepoKey_proofs` | theorems about `NormalizeURL` |
| `ConfigApi` | the configuration handlers of `internal/server/api.go` over `RepoKey`, `internal/config/config.go` |
| `ConfigApi_proofs` | theorems about `ConfigApi` |

`MCRepoLock`, `MCJobServer`, `MCGitSync`, `MCFeed`, `MCRelease` and
`MCConfigApi` only give values to constants.

### RepoLock

`pc[t]` is where goroutine `t` is in `Acquire`: `sem` is the `select` on the
channel, `file` from the token to the result of `TryLockContext`, `held` a
returned call, `unlocked` the middle of the release function. `procLocks` is the
set of channels that hold their token, `flocks` the goroutines whose handle owns
the OS lock. `HandleLocks` says how the OS treats two handles of one process:
FALSE is the harder case (the comment at lock.go:22-25), in which unlocking one
handle unlocks the process. `Cancel` (the caller's context), `Crash` (a process
dies and the OS drops its locks) and `FileError` are possible at any time.
Mutual exclusion is stated for `File(t)`, the pair of base directory and key,
since the lock is advisory per working directory.

### Executor and JobServer

One job goes through `Insert`, `Register`, `SetRunning`, `Go` in the launcher
(`lpc`) and through the worker's steps (`wpc`), each a database write or a look
at the context. `runningJobs` is the set of keys of the map, `cancelled` the
contexts. The repositories of one request are launched one after the other, in
any order; the first insert that fails ends the request. A log line is inserted
or lost, an update is applied or fails; only `CancelJob` reports it. `acked`,
`heard` and `dropped` are history variables: jobs whose cancel was answered 200,
jobs cancelled through the map before their verdict, jobs whose last update
failed. `Sync` and the components are one step each here. `JobRow` is the same
seen from outside: a row, how far its job is (`Stage`), and the jobs a cancel
reached in time (`heard`). It lets the launcher write `running` at most once,
then the worker its verdict at most once, and a cancel request `cancelled` at
any time. A stream alternates the query of the logs and the query of the status.

### GitSync

A branch is the set of commits it reaches; `{}` is no branch, a fast-forward is
a superset. `local` and `tracked` are `refs/heads` and `refs/remotes/origin` of
a clone: the cached one, or the one each call makes under a new name. `git`
distinguishes no clone, `git init` done, and a clone with an origin, so that a
crash inside a clone leaves what go-git leaves. `stored` is the archive in each
storage; `PutObject` truncates (`Put`) and then writes (`PutDone`). Every error
return is `Fail`: the deferred `unlock` and nothing else. `run[w]` has the local
variables `isUpdated`, the default branch, the branches left to visit, and the
archive. The lock is the abstract one: `RepoLock_proofs!Refinement` is what
allows it.

A clone is made in four steps, `CloneInit`, `CloneRemote`, `CloneFetch`,
`CloneRefs`; each may fail (`CloneFails`) or be the last before a crash. A pull
fetches every branch (`PullFetches`), also those visited before it, and then
does one of three things: it fast-forwards its branch or reports that another
one moved (`Pull`), it finds nothing new (`PullUpToDate`), or it fails
(`PullFails`) before the fetch, after it, or with the branch already moved. So a
branch that was visited and then pushed to ends behind its remote one. The
history variable `moved` has the branches that changed upstream after the fetch
of the call, and `FollowsAllBranches` is about the others, minus those whose
pull failed.

`Look` is `os.Stat`, any error of which the code takes for "no clone"
(repository.go:154-156). On a clone that is there this leads to `CloneExists`:
go-git refuses, and `RemoveAll` deletes the kept history. README.md:144 of
gitrieve says that a sync must never do that, so it is a disagreement;
`wiki_history_deleted` is the run about that sentence, and there it takes no
error at all. `blind` (the call's `Stat` failed on a clone) and `lost` (one such
call removed it) are history variables; `DeletionSafe` and
`ArchiveNeverRegresses` say that there is no other way to lose a commit.

Not modelled: a shallow `Depth`, tags (a moved one only makes a pull report an
update), and go-git's work on the files of the working tree, which is thrown
away by every checkout (`Force`).

### Feed

The two feeds have one shape, so they are one module with a `kind`. An item is
its `updatedAt` (in seconds, so several changes may share one) and a version,
which stands for its text with its comments. `files` has the time stamp of each
file and the version in it: `Write` is `os.WriteFile` after the truncation, with
or without the stamp line on disk, `WriteDone` the end of it, so a crash or a
failure in between leaves a cut file. `run` has the local variables:
`lastUpdate` as read back from the files, the page number or the cursor, the
rest of the page. `Since`, `IssuePage` and `DiscussionPage` are what GitHub
answers to the options of the code. Upstream changes at any moment, also between
two pages. `changed` and `shifted` are history variables: the items changed
since the run began, and whether upstream ever changed while a run still had
pages to ask for. Runs of one repository are sequential by the lock, so there is
one.

Issues are paged by number in ascending order of `updatedAt`. An item updated
between two requests moves to the end and every later one slides down a place,
the first of the next page to the page already read: it is missed, and once a
newer stamp is stored no later run asks for it. `StoresAllNewer` (for issues)
and `CatchesUp` therefore say `~shifted`; without it TLC finds that behaviour.
No document says otherwise, so it is a hazard and not a finding. Not modelled:
paging of comments and replies, so an item counts as stored whole although the
code keeps only the first replies of each comment of a discussion
(discussion.go:345-367). A request may be out for ever: `Asking`.

### Retry and Release

`Retry` has the context (`cancelled`), where `Do` is (`do`), its `attempt` and
what it is about to sleep. It has no specification of its own: a module that
makes requests starts one with `Enter`, and what the request brings is a
conjunct of the action with `Succeeds`. An error is its kind, as `classify`
tells them apart, and what GitHub says about when to come back (`after`, which
may be in the past). The doubled delay is computed in the width of a
`time.Duration`: `Signed` is the two's complement, `MaxDuration` the greatest
one, so that overflow happens in a small instance too.

`Release` is `DownloadAllAssets` from the lock to its return. `run` has its
local variables: the releases as listed (`listing`) and those left (`todo`),
`total` the `allReleaseSize`, `reserved` the `reserveTagName`, `need` the
`needDownloadStorage` of the asset at hand, and `entries` what is left of the
directory that is being pruned. `made[s]` is the directories of a storage, one
for each tag, and `disk[s]` the file of each asset: from which version it was
written and how much of it is there. A file is made in three steps (`MakeDir`,
`Write`, `Written`), so a failure or a crash leaves it empty or cut. `Parent` is
the first element of a tag's path: a tag `v2/x` is a directory in a directory,
and pruning sees only `v2`. The order in which a directory lists its entries and
a release its assets is left open.

The code asks for a list of releases and of assets without a page number
(github.go:68, 84), and so gets the first page of 30 (`PageSize`). `Page` takes
the newest of the releases, in which order GitHub lists them, `Pages` any assets
of a release with more than a page of them. An asset still being uploaded takes
a place too. `NewestStored` is therefore about the first pages. `Examine` asks
each storage for the asset; one that has it and cannot say so counts as one that
has not (release.go:104-107) and is in `unseen`, the case that
`GoodCopiesUntouched` excepts. `PruneSkips` is a storage whose release directory
cannot be listed: it is passed over and the run still ends well
(release.go:198-216), so `OkMeansPruned` is about those not in `skipped`.

`os.Remove` (`RemoveEntry`) takes a directory only if nothing is in it, and an
error ends the run. So a stale release is in fact never deleted, and each later
sync fails at it. The code means it to be ("delete stale ones", release.go:46;
"Deleted directory", release.go:233; "the max number of releases to keep",
config.go:88). No property here presents that as a guarantee: `OkMeansPruned`
speaks of runs that end well, which a run with a stored release to prune never
does; between runs a storage of the model may hold more than the limit.

GitHub publishes, withdraws and replaces (`Upload`) at any time; what was
replaced or withdrawn is not found any more, since assets are fetched by id. A
panic (a draft without a date, a listing of an S3 storage) kills the process and
is a `Crash`.

### RepoKey and ConfigApi

A URL is a sequence of tokens: those the code looks for (`Separators`) and
whatever is in between. `NormalizeURL` cuts and trims them in the order of the
code. `LowerCase` is what `strings.ToLower` does to a token; a separator is in
lower case already. `Spellings(path)` are the ways to write a URL with the
normal form `path`: with a space around it, a scheme, `www.`, `.git`, a slash, a
fragment. Since each suffix is trimmed once, a URL such as `h/a/.git` has a key,
`h/a/`, that is not its own normal form, and `Matches` normalizes what it is
given: an update or a delete by that key looks for `h/a` and answers 404, or
finds another entry. `FoundHoweverSpelled` is about the keys that are their own
normal form; TLC finds the behaviour without that condition. No run has it: it
takes a URL that no forge gives out.

`mem` is `config.ins`, which the handlers share with the whole server, `viper`
what was set with `vp.Set`, `file` the YAML file: what it reads as (`conf`), and
whether its text is that of one save (`whole`). Each handler goes through
`Receive`, `Create` or `Find` (the check for duplicates, the search by id),
`Merge` and `Recheck` (an update's patch, and the check of the merged entry),
`Load` and `Store` (an append, a replacement or a deletion reads the slice and
then writes it) and the save. That is a `Read` and a `Set` for each option,
`Marshal` (which truncates the file) and `Write`. All the handlers are in the
same steps; `sec` says whether it is a repository or a storage. `idx` is the
index that was found, and stays what it was although others change the slice:
`r.idx \notin DOMAIN Entries(h)` is the index out of range, a panic that gin's
recovery answers with 500. `CreateStorage` and `CreateRepository` look for
duplicates, `UpdateRepository` too, `UpdateStorage` does not.

A write starts at the beginning of the file, over what another handler wrote
since the truncation: if that was longer, its end remains. `WriteBreaks` is a
disk that is full, or a server about to die: a part of the text is written,
which may end within an entry (`Pieces`, `Beginnings`, `Parts`). `SaveFails` is
the answer with a warning. `Restart` is the death of the server and
`config.Init`, which refuses a file with an entry that has no identity. A torn
file may also be no YAML at all; since `Restart` may or may not be taken, that
needs no action of its own.

The history variables say what the properties except. `overlap`: two requests
were served at once (`KeysUnique`). `stale`: the last save that ended failed or
had met another (`FileFollowsMemory`), which `alone` keeps track of while it
runs. `torn`: the server was started from a file that was not whole
(`KeysUnique`, since a URL cut short may be another's). `StartsAgain` is about
memory always and about the file while it is whole: a torn one may be refused by
the next start, and nothing keeps a copy.

Abstractions: slices are values. That memory and viper may share a backing
array, so that a change in place shows in both, and that two goroutines may
write one array at the same instant, are left out. An entry has the fields that
its identity depends on, and of the options that are saved there are the two
lists.

## Runs

| Run | Instance | Shows |
|---|---|---|
| `lock` | 2 processes, 3 goroutines (two in one process), 2 keys, `HandleLocks` FALSE, no bound on cancellations, errors or crashes | mutual exclusion, no leaked token, refinement of `ExclusiveLock`; a cancelled call returns; a poller gets in or someone is in |
| `jobs` | 1 job, 1 component, 2 concurrent cancel handlers (each used again and again), 1 stream | final statuses, exact map, refinement of `JobRow`, `completed` means what it says, a cancel before the verdict wins, no line after the verdict, 200 means launched; streams end, and jobs unless a component hangs |
| `gitsync` | 2 overlapping calls, 2 branches, 2 commits, 1 storage; the default branch with the cache, all branches with it and without; two branches at first where the cache keeps them all, else one; 1 upstream change, 1 crash | kept history is never lost but by a call that could not see it, archives never regress, what was updated is stored, every branch is followed, the lock comes back |
| `feed` | 3 items, pages of 2, 1 storage, both kinds with and without the cache, times up to 3, 2 upstream changes, no bound on runs, failures or crashes | a run that ends well stored what is newer, an issue run makes up for whatever failed before, archives hold the directory, a run ends unless one request is out for ever |
| `release` | 4 tags, one of them nested, pages of 3, 1 asset each in 2 versions (sizes 2 and 1), 2 storages, limits of 2 releases and of size 2, 3 retries with a base delay of 5, cap 6, durations up to 15, 3 releases at first in 2 orders, 1 upstream change, no bound on runs, failures, cancellations or crashes | the newest releases are whole everywhere, good copies stay, a run that ends well has pruned and one cancelled before has not, every wait is positive, a run ends unless one request is out for ever |
| `config` | 2 handlers, 2 requests, repositories in several spellings, without a URL, an organisation, and storages; an empty and a filled first file; no bound on failing or breaking saves or restarts | the server starts again from a whole file, keys are unique, file and memory agree, every spelling of a key that is its own normal form finds its entry |

The instances are small because the hazards are: a second holder needs two
goroutines of one process and one of another; a lost cancel needs one handler; a
status written twice needs two handlers and a worker; a clone removed under a
sync needs two calls; a divergence needs two commits; a stale index or two saves
that meet need two handlers. The state spaces are finite without bounds except
for `MaxChanges` (with `MaxTime`, GitHub's clock), `MaxCrashes` and
`MaxRequests`, which bound upstream changes, crashes and requests. In `gitsync`
the one change gives a branch any content or none, or the repository another
default branch; with two branches at first it can hit the one while the other is
pulled. Two changes in one call, and one after another over several, are left to
the proofs, as are the wiki (in its own run only) and several storages. In
`feed` two changes suffice for one before and one during a run, or for two in
the same second, and three items for a second page. In `release` the one change
makes a fourth release, one more than a page has, so that the page cuts as well
as both limits, or withdraws one, or replaces an asset, before a run or during
one; then a directory of an earlier run is up for pruning; size 2 followed by
size 1 makes a torn old file look like the new one; two storages get out of step
when one write fails; the base delay of 5 passes the cap of 6 at the first
doubling and the 4-bit duration at the second. With one asset for each release
no page of assets is ever cut: that case is in the theorem `NewestAreStored`
only. In `config` a third request, whose save makes up for two that met, is left
to the theorem `FileIsMemory`. `CHECK_DEADLOCK` is FALSE there, since after the
last request nothing is left to do if the file is one that no server starts
from. `jobs` has one job, since jobs meet only in the request that launches
them: `OkMeansAll` for several repositories is the theorem `OkIsAll`.

Six runs expect a violation; each is a place where the code does not do what a
document or comment says.

| Run | Property | What happens |
|---|---|---|
| `jobs_lost_cancel` | `CancelStops` | a cancel between the row's insert and the map entry is answered 200 and lost: the launcher writes `running` over it |
| `stream_flush` | `FlushedBeforeDone` | the stream reads the logs, the worker writes its last line and status, the stream reads the status and closes |
| `wiki_history_deleted` | `WikiHistoryKept` | the second sync of a cached wiki looks for `.wiki.git`, clones into the existing `.git`, fails, and removes it |
| `default_branch_never_pulled` | `FollowsDefaultBranch` | `main` is compared with `origin/main`, so without `allBranches` nothing is pulled after the first clone |
| `archive_lost` | `ArchivedByNextRun` | a sync that moved the branches and then failed or was cancelled is not made up for by the next one, which finds nothing new |
| `discussion_lost` | `Resumes` | discussions come newest first: a run that failed after the first leaves its stamp, and every later run skips the others |

### Fairness

`RepoLock`: weak fairness of each step of a goroutine that can go on, except
`Call`, `Unlock` and the environment: nobody is assumed to call, nor to release.
A file lock that is free at each poll of one waiter is granted; which of several
waiters gets it is left open, as the 100 ms polls leave it. `JobServer`: weak
fairness of the worker but where a metadata component is at work (`OwnWork`), of
a stream's queries, and strong fairness of `Close`, that is, the status query
does not fail at every poll. Only `repository.Sync`, the worker's first step,
has a time limit: 30 minutes (repository.go:162). The context of a job
(executor.go:109) has no deadline and the clients of the components no timeout;
the design of the download cancellation (2026-08-10, line 144) calls a request
that hangs existing behaviour. So `JobEnds` says that a job ends or is for ever
in a component. `GitSync`: weak fairness of the steps of a call that has the
lock, each a local operation or a network operation bounded by those 30 minutes.
`Feed` and `Release`: weak fairness of the steps of a run except while a request
is out (`Asking`): whether it ever returns is up to GitHub. `RunEnds` and
`SyncEnds` say that a run ends, whatever upstream does and however often
requests fail, unless one request is out for ever. A sleep of `Retry` is over at
some time. `config` checks no liveness. No fairness of errors, cancellations,
crashes, cancels or upstream changes.

## Proofs

`RepoLock_proofs` proves, for any processes, goroutines, keys, directories and
both kinds of OS lock (assumption `LockAssumption`, which only types the
constants): `TypeCorrect`, `Mutex`, `HoldersStayLocked`, `TokensReturned` and
`Refinement`. `MutualExclusion` is not inductive. `IInv` adds that a goroutine
past the channel has its slot's token, that no two goroutines of a process past
the channel have the same slot, and that those in `flocks` are inside and
exclude one another unless the OS lets a process in twice. The step that matters
is `Unlock`: where it unlocks the whole process, the channel is what shows that
nobody else of the process is inside, since the token is given back after the
file lock.

`Executor_proofs` proves about `JobServer!Spec`, for any jobs, requests, cancel
handlers, components and streams (`ExecutorAssumption`): `TypeCorrect`,
`NoStuckJobs`, `RegistryIsExact`, `CompletedJobsAreWhole`, `CancelsWin`,
`OkIsAll`, `LogsEndWithVerdict` and `RowRefinement`. The invariant `ExecInv`
relates `lpc`, `wpc`, the row and the map: a worker exists only once the
launcher is done with the row, a verdict of `completed` goes with a finished
code sync and all components started, a job heard to be cancelled has the
verdict `cancelled` or none yet, and the status is `completed` or `failed` only
after the worker put it. `StreamsOnlyRead` carries it from the executor to the
composition. `RowRefinement` maps each step to one of `JobRow` or to none, with
a lemma for each writer (`LaunchRefines`, `WorkRefines`, `CancelRefines`,
`CrashRefines`). What it needs of the invariant is that the worker decides
`cancelled` exactly for the jobs in `heard`, and that a worker exists only after
the launcher's last write; so a late cancel is all that ever overwrites a
verdict. `CancelsWin` follows from the same invariant.

`GitSync_proofs` proves, for any overlapping calls, branches, commits, storages,
configurations, upstreams and bounds (`GitSyncAssumption`, which types the
constants and says that the name `"cache"` is no call's): `TypeCorrect`,
`OneAtATime`, `HistoryIsKept`, `ArchivesGrow`, `UpdatesAreStored` and
`BranchesAreFollowed`. None of the properties is inductive. `IInv` adds who
holds the lock (`LockInv`), that the kept clone has no commit without a `.git`
and has every commit of the archives (`CacheInv`), that there is nothing to lose
where a call is about to clone (`CloneInv`) unless the call is `blind`, that
each branch the loop has done is as its remote one unless its pull failed or it
moved since (`BranchInv`), and which storages have the archive (`StoreInv`). The
step that matters is `RemoveAll` after a failed clone: that the clone is still
empty, or the call was blind, follows from `CloneInv` of that call, which no
other call can disturb because the lock lets only one past it (`WorkLocal`,
`WorkPreserves`). The proof of `HistoryIsKept` uses `~conf.iswiki` exactly
there; for the wiki the run `wiki_history_deleted` shows that the property
fails.

`Feed_proofs` proves, for any items, page size, storages, configurations, first
states and changes upstream (`FeedAssumption`): `TypeCorrect`, `NewerStored`,
`CaughtUp` and `Archived`. For discussions, `AheadInv` follows each item that
counts: it is stored, on the page, or after the cursor while there is a next
page (`PageOrAfter` shows that a listing loses none). For issues the argument is
the order. As long as no page shifted, `SteadyInv` keeps that whatever is older
than some file is stored (`OrderInv`), so that the newest stamp is a place to go
on from although a run died in the middle; that what is not stored is on the
page, on a page to come or newer than everything listed (`ComingInv`); and that
no file is newer than what is still to come (`FilesInv`). The step that matters
is a file being truncated: it is the first of its page, and `FirstIsNext` shows
that everything older is stored. `RankGrows` and `PagesInOrder` are what a
listing by offset guarantees. `Archived` rests on `WroteInv`, that a run with
something due has written or still has a page to write, and `PutInv`, which
storages have the archive.

`Release_proofs` proves, for any tags, assets, sizes, storages, limits, delays
and errors (`RetryAssumption`, `ReleaseAssumption`): `TypeCorrect`,
`AlwaysWaits`, `CopiesKept`, `CancelKeeps` and `PrunedAtEnd`. `WaitInv` says
what `Do` is about to sleep. `CopyInv` (`FilesInv`, `ListInv`, `NeedInv`) says
that no file is from a later version than the asset at hand, or than the one
upstream, and that a storage in `need` has no whole copy or is in `unseen`; with
it the step `Write` cannot hit a good copy. `RoomInv` bounds the reserved tags
by the number limit, `PruneInv` follows the pruning from storage to storage, and
which were skipped.

`ReleaseStored_proofs` proves `NewestAreStored` under the same assumptions, one
of which is that a listing names each tag once: a release has a tag of its own.
`DoneInv` says that the releases to do are the rest of the listing and those
before it are reserved; `SeenInv` that what was listed as assets is of reserved
releases, one of each name; `StoredInv` that each asset examined is in every
storage with its size, but for the asset at hand where it is still to be
written. `TotalInv` is the one about sizes: `total` is the sum of the sizes of
the assets examined, so that when the run stops at the size limit, the releases
that it did not take are not within it by the definition of `Within` either. It
needs the sum over a set that grows by one, `SumAdd`. `MapThenSumSet` is a fold
over a function defined by recursion on sets, and induction is out of reach, so
the lemmas argue by the least counterexample: the least number of elements of a
set on which the fold would not be a sum (`LeastNumber`, `SmallestSet`,
`SumsUnique`).

`ConfigApi_proofs` proves, for any handlers, entries, patches, ids, first files
and number of requests (`RepoKeyAssumption`, `ConfigAssumption`): `TypeCorrect`,
`AlwaysStarts`, `FileIsMemory` and `KeysStayUnique`. `IInv` says that memory,
viper, a whole file and the slice every handler is about to store consist of
entries with an identity, for handlers at any step. `FileInv` is about the
handlers in `alone`, that is, saving and without company: unless some handler
has yet to begin its save (`NoneToSave`), such a one has what is in memory on
its way to the file (`CarriesMemory`), and when nobody saves any more it is
there. `KeysStayUnique` follows one handler at a time (`UniqueInv`): what the
check found still holds at the store, because nobody else is there, and a
restart reads a whole file. `AlwaysFound` is `FoundHoweverSpelled`, from the
next module.

`RepoKey_proofs` proves `SpellingsHaveOneKey`, for any tokens and paths of any
length (`RepoKeyAssumption`: the separators are tokens and `LowerCase` does not
change them). `OwnNormalForm` turns the hypothesis into what the proof needs:
every statement of `NormalizeURL` leaves a sequence that is no longer, so a path
it gives back was changed by none of them, and has no space or slash at an end,
no `#`, no scheme. Then each statement is followed through a spelling: what it
looks for is at the end it looks at, and behind it begins something else.

Left to TLC: the liveness properties (`CancelledCallReturns`, `SomeoneGetsIn`,
`JobEnds`, `StreamEnds`, `SyncReturns`, `RunEnds`, `SyncEnds`), since fairness
and ENABLED are beyond the prover. Every other property of a passing run is a
theorem. The properties of the runs that expect a violation are not.

## Not modelled

- `cmd/daemon`: it hands every sync to the gocron library, which decides when it
  runs. Overlapping syncs of one repository are in `RepoLock` and `GitSync`.
- The S3 client: one `PutObject`; its other operations panic, which is a
  `Crash`.
- `scm.NewRepository` and `GetRepositories`, which split a URL and list the
  repositories of a user: they change no state.
- A shallow `depth` of clones, the tar format of the archives, the paging of
  comments and replies.
- Authentication (one stateless check), monitoring and the other read-only
  handlers, the command line, the web pages, the statements that create the
  tables.

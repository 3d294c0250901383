------------------------------ MODULE Executor ------------------------------
(***************************************************************************)
(* internal/executor: a job request expands to several repositories, each  *)
(* launched as a job of its own: a row of the executions table, an entry   *)
(* of the runningJobs map with the context's cancel function, and a worker *)
(* goroutine.  The row is the only thing the web server reads; the map the *)
(* only way to reach a worker.  Launchers, workers and cancel requests run *)
(* concurrently and share them, and any database write may fail.           *)
(***************************************************************************)
EXTENDS Naturals

CONSTANTS
    Requests,      \* POST /api/jobs calls
    Jobs,          \* job ids; each is generated once (a uuid)
    RequestOf,     \* the request whose expansion contains the job's repository
    Cancels,       \* concurrent DELETE /api/jobs/:id handlers
    NumComponents  \* metadata components enabled for a repository

ASSUME ExecutorAssumption ==
    /\ RequestOf \in [Jobs -> Requests]
    /\ NumComponents \in Nat

VARIABLES
    \* the database
    status,      \* executions.status of each job; "absent": no row
    logs,        \* how many rows each job has in the logs table
    \* the server process
    answer,      \* what each request was answered
    lpc,         \* where launchJob is for each job
    runningJobs, \* keys of the map
    cancelled,   \* jobs whose context is cancelled
    wpc,         \* where executeAsync is for each job
    result,      \* what repository.Sync returned for the code
    comp,        \* components started so far
    verdict,     \* the final status the worker has decided on
    cpc,         \* where each cancel handler is
    target,      \* the job it was called for
    \* history
    dropped,     \* jobs whose worker could not write the final status
    heard,       \* jobs cancelled through the map before their verdict
    acked        \* jobs whose cancel was answered 200, asked for while the
                 \* row was pending or running

dbVars == <<status, logs>>
launchVars == <<answer, lpc>>
workVars == <<wpc, result, comp, verdict>>
cancelVars == <<cpc, target>>
history == <<dropped, heard, acked>>
execVars == <<dbVars, launchVars, runningJobs, cancelled, workVars, cancelVars, history>>

Terminal == {"completed", "failed", "cancelled"}
Statuses == {"absent", "pending", "running"} \cup Terminal
LPCs == {"new", "inserted", "registered", "updated", "started", "refused", "dead"}
WPCs == {"none", "start", "check", "sync", "errLine", "comps", "comp",
         "verdict", "line", "put", "exit", "done", "dead"}

Launching(j) == lpc[j] \in {"inserted", "registered", "updated"}
WorkerLive(j) == wpc[j] \notin {"none", "done", "dead"}

ExecTypeOK ==
    /\ status \in [Jobs -> Statuses]
    /\ logs \in [Jobs -> Nat]
    /\ answer \in [Requests -> {"open", "ok", "error", "dead"}]
    /\ lpc \in [Jobs -> LPCs]
    /\ runningJobs \subseteq Jobs
    /\ cancelled \subseteq Jobs
    /\ wpc \in [Jobs -> WPCs]
    /\ result \in [Jobs -> {"none", "ok", "err"}]
    /\ comp \in [Jobs -> 0..NumComponents]
    /\ verdict \in [Jobs -> {"none"} \cup Terminal]
    /\ cpc \in [Cancels -> {"idle", "update", "updateLive"}]
    /\ target \in [Cancels -> Jobs]
    /\ dropped \subseteq Jobs
    /\ heard \subseteq Jobs
    /\ acked \subseteq Jobs

ExecInit ==
    /\ status = [j \in Jobs |-> "absent"]
    /\ logs = [j \in Jobs |-> 0]
    /\ answer = [r \in Requests |-> "open"]
    /\ lpc = [j \in Jobs |-> "new"]
    /\ runningJobs = {}
    /\ cancelled = {}
    /\ wpc = [j \in Jobs |-> "none"]
    /\ result = [j \in Jobs |-> "none"]
    /\ comp = [j \in Jobs |-> 0]
    /\ verdict = [j \in Jobs |-> "none"]
    /\ cpc = [c \in Cancels |-> "idle"]
    /\ target \in [Cancels -> Jobs]
    /\ dropped = {}
    /\ heard = {}
    /\ acked = {}
-----------------------------------------------------------------------------
(* The database.  A caller other than CancelJob ignores a failed update, and  *)
(* a log line that cannot be inserted is lost.                                *)

\* UPDATE executions SET status = v WHERE id = j: no effect without a row.
UpdateStatus(j, v) ==
    status' = IF status[j] = "absent" THEN status ELSE [status EXCEPT ![j] = v]

\* ui.Printf or ui.Errorf from the worker's goroutine.
Line(j) ==
    \/ logs' = [logs EXCEPT ![j] = @ + 1]
    \/ UNCHANGED logs
-----------------------------------------------------------------------------
(* ExecuteJob and launchJob.                                                  *)

\* The loop reaches the next repository: insert its row.
Insert(j) ==
    /\ answer[RequestOf[j]] = "open"
    /\ lpc[j] = "new"
    /\ \A i \in Jobs : RequestOf[i] = RequestOf[j] => ~Launching(i)
    /\ status' = [status EXCEPT ![j] = "pending"]
    /\ lpc' = [lpc EXCEPT ![j] = "inserted"]
    /\ UNCHANGED <<logs, answer, runningJobs, cancelled, workVars, cancelVars, history>>

\* Mutant: the loop goes on to the next repository.
InsertFailsSkipped(j) ==
    /\ answer[RequestOf[j]] = "open"
    /\ lpc[j] = "new"
    /\ \A i \in Jobs : RequestOf[i] = RequestOf[j] => ~Launching(i)
    /\ lpc' = [lpc EXCEPT ![j] = "refused"]
    /\ UNCHANGED <<dbVars, answer, runningJobs, cancelled, workVars, cancelVars, history>>

\* The insert fails: the request is answered with the error and the remaining
\* repositories are not launched; those launched before keep running.
InsertFails(j) ==
    /\ answer[RequestOf[j]] = "open"
    /\ lpc[j] = "new"
    /\ \A i \in Jobs : RequestOf[i] = RequestOf[j] => ~Launching(i)
    /\ lpc' = [lpc EXCEPT ![j] = "refused"]
    /\ answer' = [answer EXCEPT ![RequestOf[j]] = "error"]
    /\ UNCHANGED <<dbVars, runningJobs, cancelled, workVars, cancelVars, history>>

\* runningJobs[jobID] = the context, under the mutex.
Register(j) ==
    /\ lpc[j] = "inserted"
    /\ runningJobs' = runningJobs \cup {j}
    /\ lpc' = [lpc EXCEPT ![j] = "registered"]
    /\ UNCHANGED <<dbVars, answer, cancelled, workVars, cancelVars, history>>

\* updateJobStatus(running), its error ignored.
SetRunning(j) ==
    /\ lpc[j] = "registered"
    /\ UpdateStatus(j, "running") \/ UNCHANGED status
    /\ lpc' = [lpc EXCEPT ![j] = "updated"]
    /\ UNCHANGED <<logs, answer, runningJobs, cancelled, workVars, cancelVars, history>>

\* Mutant: the goroutine is started before the update to running.
GoEarly(j) ==
    /\ lpc[j] = "registered"
    /\ wpc[j] = "none"
    /\ wpc' = [wpc EXCEPT ![j] = "start"]
    /\ UNCHANGED <<dbVars, launchVars, runningJobs, cancelled, result, comp, verdict,
                   cancelVars, history>>

\* go e.executeAsync(ctx, jobID, job)
Go(j) ==
    /\ lpc[j] = "updated"
    /\ lpc' = [lpc EXCEPT ![j] = "started"]
    /\ wpc' = [wpc EXCEPT ![j] = "start"]
    /\ UNCHANGED <<dbVars, answer, runningJobs, cancelled, result, comp, verdict,
                   cancelVars, history>>

\* The loop is over: 200 and the job ids.
Answer(r) ==
    /\ answer[r] = "open"
    /\ \A j \in Jobs : RequestOf[j] = r => lpc[j] # "new" /\ ~Launching(j)
    /\ answer' = [answer EXCEPT ![r] = "ok"]
    /\ UNCHANGED <<dbVars, lpc, runningJobs, cancelled, workVars, cancelVars, history>>
-----------------------------------------------------------------------------
(* executeAsync: one action per step of the goroutine.                        *)

\* ui.Printf("Starting job execution")
Start(j) ==
    /\ wpc[j] = "start"
    /\ Line(j)
    /\ wpc' = [wpc EXCEPT ![j] = "check"]
    /\ UNCHANGED <<status, launchVars, runningJobs, cancelled, result, comp, verdict,
                   cancelVars, history>>

\* The first look at the context.
Check(j) ==
    /\ wpc[j] = "check"
    /\ IF j \in cancelled
       THEN /\ verdict' = [verdict EXCEPT ![j] = "cancelled"]
            /\ wpc' = [wpc EXCEPT ![j] = "line"]
       ELSE /\ wpc' = [wpc EXCEPT ![j] = "sync"]
            /\ UNCHANGED verdict
    /\ UNCHANGED <<dbVars, launchVars, runningJobs, cancelled, result, comp, cancelVars,
                   history>>

\* repository.Sync returns.  A cancelled one may still have succeeded.
SyncReturns(j) ==
    /\ wpc[j] = "sync"
    /\ \E res \in {"ok", "err"} :
        /\ result' = [result EXCEPT ![j] = res]
        /\ wpc' = [wpc EXCEPT ![j] =
                      IF res = "err" /\ j \notin cancelled THEN "errLine" ELSE "comps"]
    /\ UNCHANGED <<dbVars, launchVars, runningJobs, cancelled, comp, verdict, cancelVars,
                   history>>

\* ui.Errorf("Code sync failed: %v", codeErr)
SyncErrorLine(j) ==
    /\ wpc[j] = "errLine"
    /\ Line(j)
    /\ wpc' = [wpc EXCEPT ![j] = "comps"]
    /\ UNCHANGED <<status, launchVars, runningJobs, cancelled, result, comp, verdict,
                   cancelVars, history>>

\* Mutant: a component that is not enabled is started too.
StartDisabled(j) ==
    /\ wpc[j] = "comps"
    /\ j \notin cancelled
    /\ Line(j)
    /\ comp' = [comp EXCEPT ![j] = @ + 1]
    /\ wpc' = [wpc EXCEPT ![j] = "comp"]
    /\ UNCHANGED <<status, launchVars, runningJobs, cancelled, result, verdict,
                   cancelVars, history>>

\* downloadComponents starts the next component ...
StartComponent(j) ==
    /\ wpc[j] = "comps"
    /\ j \notin cancelled
    /\ comp[j] < NumComponents
    /\ Line(j)
    /\ comp' = [comp EXCEPT ![j] = @ + 1]
    /\ wpc' = [wpc EXCEPT ![j] = "comp"]
    /\ UNCHANGED <<status, launchVars, runningJobs, cancelled, result, verdict,
                   cancelVars, history>>

\* ... which returns; an error is logged and nothing else.
ComponentReturns(j) ==
    /\ wpc[j] = "comp"
    /\ Line(j)
    /\ wpc' = [wpc EXCEPT ![j] = "comps"]
    /\ UNCHANGED <<status, launchVars, runningJobs, cancelled, result, comp, verdict,
                   cancelVars, history>>

\* Mutant: the rest of a cancelled job is waited for.
ComponentsAllOver(j) ==
    /\ wpc[j] = "comps"
    /\ comp[j] = NumComponents
    /\ wpc' = [wpc EXCEPT ![j] = "verdict"]
    /\ UNCHANGED <<dbVars, launchVars, runningJobs, cancelled, result, comp, verdict,
                   cancelVars, history>>

\* All are done, or the context is: the rest are skipped.
ComponentsOver(j) ==
    /\ wpc[j] = "comps"
    /\ j \in cancelled \/ comp[j] = NumComponents
    /\ wpc' = [wpc EXCEPT ![j] = "verdict"]
    /\ UNCHANGED <<dbVars, launchVars, runningJobs, cancelled, result, comp, verdict,
                   cancelVars, history>>

\* Mutant: the status reflects the code sync only, whatever the context says.
DecideBlind(j) ==
    /\ wpc[j] = "verdict"
    /\ verdict' = [verdict EXCEPT ![j] = IF result[j] = "err" THEN "failed" ELSE "completed"]
    /\ wpc' = [wpc EXCEPT ![j] = IF verdict'[j] = "failed" THEN "put" ELSE "line"]
    /\ UNCHANGED <<dbVars, launchVars, runningJobs, cancelled, result, comp, cancelVars,
                   history>>

\* Mutant: an error of the code sync counts before the context.
DecideErrorFirst(j) ==
    /\ wpc[j] = "verdict"
    /\ verdict' = [verdict EXCEPT ![j] =
                      IF result[j] = "err" THEN "failed"
                      ELSE IF j \in cancelled THEN "cancelled" ELSE "completed"]
    /\ wpc' = [wpc EXCEPT ![j] = IF verdict'[j] = "failed" THEN "put" ELSE "line"]
    /\ UNCHANGED <<dbVars, launchVars, runningJobs, cancelled, result, comp, cancelVars,
                   history>>

\* The last look at the context decides.  A failure has no final line.
Decide(j) ==
    /\ wpc[j] = "verdict"
    /\ verdict' = [verdict EXCEPT ![j] =
                      IF j \in cancelled THEN "cancelled"
                      ELSE IF result[j] = "err" THEN "failed" ELSE "completed"]
    /\ wpc' = [wpc EXCEPT ![j] = IF verdict'[j] = "failed" THEN "put" ELSE "line"]
    /\ UNCHANGED <<dbVars, launchVars, runningJobs, cancelled, result, comp, cancelVars,
                   history>>

\* The final line, before the status.
FinalLine(j) ==
    /\ wpc[j] = "line"
    /\ Line(j)
    /\ wpc' = [wpc EXCEPT ![j] = "put"]
    /\ UNCHANGED <<status, launchVars, runningJobs, cancelled, result, comp, verdict,
                   cancelVars, history>>

\* Mutant: the final status before the final line.
PutVerdictEarly(j) ==
    /\ \/ wpc[j] = "line" /\ UNCHANGED wpc
       \/ wpc[j] = "put" /\ wpc' = [wpc EXCEPT ![j] = "exit"]
    /\ UpdateStatus(j, verdict[j])
    /\ UNCHANGED <<logs, launchVars, runningJobs, cancelled, result, comp, verdict,
                   cancelVars, history>>

\* updateJobStatus(verdict), its error ignored.
PutVerdict(j) ==
    /\ wpc[j] = "put"
    /\ \/ UpdateStatus(j, verdict[j]) /\ UNCHANGED dropped
       \/ UNCHANGED status /\ dropped' = dropped \cup {j}
    /\ wpc' = [wpc EXCEPT ![j] = "exit"]
    /\ UNCHANGED <<logs, launchVars, runningJobs, cancelled, result, comp, verdict,
                   cancelVars, heard, acked>>

\* Mutant: an entry is left behind when the job was cancelled.
ExitLeaky(j) ==
    /\ wpc[j] = "exit"
    /\ runningJobs' = IF verdict[j] = "cancelled" THEN runningJobs ELSE runningJobs \ {j}
    /\ wpc' = [wpc EXCEPT ![j] = "done"]
    /\ UNCHANGED <<dbVars, launchVars, cancelled, result, comp, verdict, cancelVars, history>>

\* The deferred delete(e.runningJobs, jobID).
Exit(j) ==
    /\ wpc[j] = "exit"
    /\ runningJobs' = runningJobs \ {j}
    /\ wpc' = [wpc EXCEPT ![j] = "done"]
    /\ UNCHANGED <<dbVars, launchVars, cancelled, result, comp, verdict, cancelVars, history>>
-----------------------------------------------------------------------------
(* CancelJob.  A client knows a job's id as soon as its row is listed.        *)

\* The lookup under the read lock and, if the job is there, CancelFunc.
CancelLookup(c) ==
    /\ cpc[c] = "idle"
    /\ \E j \in Jobs :
        /\ status[j] # "absent"
        /\ target' = [target EXCEPT ![c] = j]
        /\ cpc' = [cpc EXCEPT ![c] =
                      IF status[j] \in {"pending", "running"} THEN "updateLive" ELSE "update"]
        /\ cancelled' = IF j \in runningJobs THEN cancelled \cup {j} ELSE cancelled
        /\ heard' = IF j \in runningJobs /\ verdict[j] = "none" THEN heard \cup {j} ELSE heard
    /\ UNCHANGED <<dbVars, launchVars, runningJobs, workVars, dropped, acked>>

\* The update to cancelled, whether the job was found or not, and the answer:
\* 200, or 500 when the update fails.
CancelUpdate(c) ==
    /\ cpc[c] \in {"update", "updateLive"}
    /\ \/ /\ UpdateStatus(target[c], "cancelled")
          /\ acked' = IF cpc[c] = "updateLive" THEN acked \cup {target[c]} ELSE acked
       \/ UNCHANGED <<status, acked>>
    /\ cpc' = [cpc EXCEPT ![c] = "idle"]
    /\ UNCHANGED <<logs, launchVars, runningJobs, cancelled, workVars, target, dropped, heard>>
-----------------------------------------------------------------------------
\* The server dies and is started again.  Its rows stay as they are: nothing
\* reads the executions table at start.
ExecCrash ==
    /\ answer' = [r \in Requests |-> IF answer[r] = "open" THEN "dead" ELSE answer[r]]
    /\ lpc' = [j \in Jobs |-> IF Launching(j) THEN "dead" ELSE lpc[j]]
    /\ wpc' = [j \in Jobs |-> IF WorkerLive(j) THEN "dead" ELSE wpc[j]]
    /\ runningJobs' = {}
    /\ cpc' = [c \in Cancels |-> "idle"]
    /\ UNCHANGED <<dbVars, cancelled, result, comp, verdict, target, history>>

Launch(j) == Insert(j) \/ InsertFails(j) \/ Register(j) \/ SetRunning(j) \/ Go(j)

Work(j) ==
    \/ Start(j) \/ Check(j) \/ SyncReturns(j) \/ SyncErrorLine(j)
    \/ StartComponent(j) \/ ComponentReturns(j) \/ ComponentsOver(j)
    \/ Decide(j) \/ FinalLine(j) \/ PutVerdict(j) \/ Exit(j)

ExecStep ==
    \/ \E j \in Jobs : Launch(j) \/ Work(j)
    \/ \E r \in Requests : Answer(r)
    \/ \E c \in Cancels : CancelLookup(c) \/ CancelUpdate(c)

ExecNext == ExecStep \/ ExecCrash

ExecSpec == ExecInit /\ [][ExecNext]_execVars
-----------------------------------------------------------------------------
\* A worker that ended without losing its last write leaves a final status.
\* The launcher's own update to running must not come after it, and a cancel
\* only ever writes a final status.
NoStuckJob ==
    \A j \in Jobs : wpc[j] = "done" /\ j \notin dropped => status[j] \in Terminal

\* IsJobRunning and CancelJob see exactly the jobs that are being launched or
\* worked on: no exit leaks an entry and no live worker is out of reach.
RegistryExact ==
    \A j \in Jobs :
        j \in runningJobs <=> lpc[j] \in {"registered", "updated"} \/ WorkerLive(j)

\* "completed" is only ever written for a job whose code sync succeeded and
\* whose enabled components were all started: a cancellation that skipped one
\* never ends in it, however the cancel and the worker interleave.
CompletedIsWhole ==
    \A j \in Jobs :
        status[j] = "completed" => result[j] = "ok" /\ comp[j] = NumComponents

\* A job cancelled through the map before it decided ends as cancelled, though
\* the launcher, the handler and the worker all write its status.
CancelWins ==
    \A j \in heard : wpc[j] = "done" /\ j \notin dropped => status[j] = "cancelled"

\* A 200 answer with the job ids means that every repository of the request was
\* launched.
OkMeansAll ==
    \A j \in Jobs : answer[RequestOf[j]] = "ok" => lpc[j] = "started"

\* A job whose worker wrote a verdict gets no further line: "the SSE log stream
\* ... does not flush before this row is committed" (executor.go:142-144) rests
\* on it.
NoLineAfterVerdict ==
    [][\A j \in Jobs : status[j] \in {"completed", "failed"} => logs'[j] = logs[j]]_execVars

\* How far a job is, as one sees it who reads its row.
Stage == [j \in Jobs |->
    CASE lpc[j] \in {"new", "refused"} -> "none"
      [] lpc[j] = "dead" \/ wpc[j] = "dead" -> "dead"
      [] lpc[j] \in {"inserted", "registered"} -> "listed"
      [] wpc[j] \in {"exit", "done"} -> "over"
      [] OTHER -> "launched"]

Row == INSTANCE JobRow WITH stage <- Stage, reached <- heard

\* The launcher, the worker and the cancel handlers, which write one row without
\* a lock, keep to what JobRow says of it: a late cancel is all that overwrites a
\* verdict, running is never written over one, and the worker's own "cancelled"
\* is put exactly for the jobs that a cancel reached before they were decided.
ImplementsJobRow == Row!Spec

\* "Cancel a running or pending job" (docs/api.md:104): a cancel asked for while
\* the row was pending or running and answered 200 has reached the job.
CancelStops == \A j \in acked : j \in cancelled \/ wpc[j] \in {"done", "dead"} \/ lpc[j] = "dead"
=============================================================================

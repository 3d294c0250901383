------------------------------ MODULE JobServer ------------------------------
(***************************************************************************)
(* The job side of the web server: the executor, and the log streams of    *)
(* GET /api/jobs/:id/logs that poll its tables.                            *)
(***************************************************************************)
EXTENDS Executor

CONSTANT Streams  \* stream requests

VARIABLES
    spc,    \* where each stream is: "new", "logs" (about to query the logs),
            \* "status" (about to query the status), "done" (the done event was
            \* sent), "gone" (the client or the server went away)
    sjob,   \* the job it follows
    sent,   \* how many of the job's lines were sent
    told    \* the status in the done event

streamVars == <<spc, sjob, sent, told>>
vars == <<execVars, streamVars>>

TypeOK ==
    /\ ExecTypeOK
    /\ spc \in [Streams -> {"new", "logs", "status", "done", "gone"}]
    /\ sjob \in [Streams -> Jobs]
    /\ sent \in [Streams -> Nat]
    /\ told \in [Streams -> {"none"} \cup Terminal]

Init ==
    /\ ExecInit
    /\ spc = [s \in Streams |-> "new"]
    /\ sjob \in [Streams -> Jobs]
    /\ sent = [s \in Streams |-> 0]
    /\ told = [s \in Streams |-> "none"]

\* The handler checks that the job has a row.
Open(s) ==
    /\ spc[s] = "new"
    /\ status[sjob[s]] # "absent"
    /\ spc' = [spc EXCEPT ![s] = "logs"]
    /\ UNCHANGED <<execVars, sjob, sent, told>>

\* SELECT ... WHERE execution_id = ? AND id > lastID: every committed line that
\* was not sent yet.  A query that fails is repeated a poll later.
SendLogs(s) ==
    /\ spc[s] = "logs"
    /\ sent' = [sent EXCEPT ![s] = logs[sjob[s]]]
    /\ spc' = [spc EXCEPT ![s] = "status"]
    /\ UNCHANGED <<execVars, sjob, told>>

\* Mutant: a cancelled job is not a finished one.
CloseNotCancelled(s) ==
    /\ spc[s] = "status"
    /\ status[sjob[s]] \in {"completed", "failed"}
    /\ told' = [told EXCEPT ![s] = status[sjob[s]]]
    /\ spc' = [spc EXCEPT ![s] = "done"]
    /\ UNCHANGED <<execVars, sjob, sent>>

\* SELECT status finds a terminal one: send the done event and stop.
Close(s) ==
    /\ spc[s] = "status"
    /\ status[sjob[s]] \in Terminal
    /\ told' = [told EXCEPT ![s] = status[sjob[s]]]
    /\ spc' = [spc EXCEPT ![s] = "done"]
    /\ UNCHANGED <<execVars, sjob, sent>>

\* It finds another one, or fails: wait, then poll again.
PollAgain(s) ==
    /\ spc[s] = "status"
    /\ spc' = [spc EXCEPT ![s] = "logs"]
    /\ UNCHANGED <<execVars, sjob, sent, told>>

Disconnect(s) ==
    /\ spc[s] \in {"logs", "status"}
    /\ spc' = [spc EXCEPT ![s] = "gone"]
    /\ UNCHANGED <<execVars, sjob, sent, told>>

\* The process dies with its streams.
Crash ==
    /\ ExecCrash
    /\ spc' = [s \in Streams |-> IF spc[s] \in {"logs", "status"} THEN "gone" ELSE spc[s]]
    /\ UNCHANGED <<sjob, sent, told>>

Next ==
    \/ ExecStep /\ UNCHANGED streamVars
    \/ \E s \in Streams :
        Open(s) \/ SendLogs(s) \/ Close(s) \/ PollAgain(s) \/ Disconnect(s)
    \/ Crash

\* Any step of a worker but the return of a metadata component, whose requests
\* have no timeout and whose context (executor.go:109) no deadline.
OwnWork(j) == Work(j) /\ wpc[j] # "comp"

\* Goroutines and handlers that can go on do, and repository.Sync returns: it
\* gives itself half an hour (repository.go:162).  That a component returns is
\* not assumed.  A query does not fail at every poll.
Fairness ==
    /\ \A j \in Jobs : WF_vars(OwnWork(j) /\ UNCHANGED streamVars)
    /\ \A s \in Streams : WF_vars(SendLogs(s) \/ PollAgain(s)) /\ SF_vars(Close(s))

Spec == Init /\ [][Next]_vars
FairSpec == Spec /\ Fairness
-----------------------------------------------------------------------------
\* A worker that was started ends, unless the server dies or one metadata
\* component never returns: then, and only then, the job stays for ever where
\* that component hangs, a cancelled one too.
JobEnds ==
    \A j \in Jobs :
        \/ wpc[j] = "start" ~> wpc[j] \in {"done", "dead"}
        \/ <>[](wpc[j] = "comp")

\* A stream of a job that is over closes, whichever of the worker and the
\* cancel requests wrote the final status, and although it may be overwritten
\* with another one between two polls.
StreamEnds ==
    \A s \in Streams :
        LET j == sjob[s] IN
        (spc[s] \in {"logs", "status"} /\ wpc[j] = "done" /\ j \notin dropped)
            ~> spc[s] \in {"done", "gone"}

\* "The stream closes automatically once the job reaches a terminal status ...
\* after flushing any remaining logs" (docs/api.md:246): the client of a
\* completed job that was sent the done event was sent every line before it.
FlushedBeforeDone ==
    \A s \in Streams :
        spc[s] = "done" /\ told[s] = "completed" => sent[s] = logs[sjob[s]]
=============================================================================

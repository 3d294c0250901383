--------------------------- MODULE Executor_proofs ---------------------------
(***************************************************************************)
(* The safety properties of the job server for any number of requests,     *)
(* jobs, components, cancel handlers and streams.                          *)
(***************************************************************************)
EXTENDS JobServer, TLAPS

\* Where a job's launcher, worker, row and map entry are agree.
Placed(j) ==
    /\ wpc[j] # "none" <=> lpc[j] = "started"
    /\ status[j] = "absent" <=> lpc[j] \in {"new", "refused"}
    /\ j \in runningJobs <=> lpc[j] \in {"registered", "updated"} \/ WorkerLive(j)
    /\ j \in heard => j \in cancelled

\* A launch under way keeps its request open; one that was given up closed it.
Answered(j) ==
    /\ Launching(j) => answer[RequestOf[j]] = "open"
    /\ lpc[j] = "refused" => answer[RequestOf[j]] = "error"
    /\ lpc[j] = "dead" => answer[RequestOf[j]] = "dead"
    /\ answer[RequestOf[j]] = "ok" => lpc[j] = "started"

Undecided == {"none", "start", "check", "sync", "errLine", "comps", "comp", "verdict"}
Decided == {"line", "put", "exit", "done"}

\* What the worker decides, and from what.
Decision(j) ==
    /\ wpc[j] \in Undecided => verdict[j] = "none"
    /\ wpc[j] \in Decided => verdict[j] \in Terminal
    /\ wpc[j] \in {"errLine", "comps", "comp", "verdict"} => result[j] # "none"
    /\ wpc[j] = "verdict" => j \in cancelled \/ comp[j] = NumComponents
    /\ verdict[j] = "completed" => result[j] = "ok" /\ comp[j] = NumComponents
    /\ j \in heard => verdict[j] \in {"none", "cancelled"}
    /\ verdict[j] = "cancelled" => j \in heard
    /\ j \in cancelled /\ verdict[j] = "none" => j \in heard

\* What the row says, once the launcher has no more to write.
Recorded(j) ==
    /\ status[j] \in {"completed", "failed"} =>
           status[j] = verdict[j] /\ wpc[j] \in {"exit", "done", "dead"}
    /\ wpc[j] \in {"exit", "done"} /\ j \notin dropped =>
           /\ status[j] \in Terminal
           /\ j \in heard => status[j] = "cancelled"

JobInv(j) == Placed(j) /\ Answered(j) /\ Decision(j) /\ Recorded(j)

ExecInv == ExecTypeOK /\ \A j \in Jobs : JobInv(j)

LEMMA ExecInitEstablishes == ExecInit => ExecInv
<1> SUFFICES ASSUME ExecInit PROVE ExecInv
  OBVIOUS
<1>1. ExecTypeOK
  BY ExecutorAssumption DEF ExecInit, ExecTypeOK, Statuses, LPCs, WPCs
<1>2. ASSUME NEW j \in Jobs PROVE JobInv(j)
  BY <1>2, ExecutorAssumption DEF ExecInit, JobInv, Placed, Answered, Decision, Recorded,
     Launching, WorkerLive, Undecided, Decided, Terminal
<1> QED
  BY <1>1, <1>2 DEF ExecInv

\* Steps of the launcher of j.
LEMMA LaunchTyped == ASSUME ExecTypeOK, NEW j \in Jobs, Launch(j) PROVE ExecTypeOK'
<1> USE ExecutorAssumption
        DEF ExecTypeOK, Statuses, LPCs, WPCs, Terminal, dbVars, workVars, cancelVars,
            history, launchVars
<1>1. CASE Insert(j)
  BY <1>1 DEF Insert
<1>2. CASE InsertFails(j)
  BY <1>2 DEF InsertFails
<1>3. CASE Register(j)
  BY <1>3 DEF Register
<1>4. CASE SetRunning(j)
  BY <1>4 DEF SetRunning, UpdateStatus
<1>5. CASE Go(j)
  BY <1>5 DEF Go
<1> QED
  BY <1>1, <1>2, <1>3, <1>4, <1>5 DEF Launch

LEMMA WorkTyped ==
    ASSUME ExecTypeOK, NEW j \in Jobs, Decision(j), Work(j) PROVE ExecTypeOK'
<1> USE ExecutorAssumption
        DEF ExecTypeOK, Statuses, LPCs, WPCs, Terminal, dbVars, workVars, cancelVars,
            history, launchVars
<1>1. CASE Start(j) \/ SyncErrorLine(j) \/ ComponentReturns(j) \/ FinalLine(j)
  BY <1>1 DEF Start, SyncErrorLine, ComponentReturns, FinalLine, Line
<1>2. CASE Check(j)
  BY <1>2 DEF Check
<1>3. CASE SyncReturns(j)
  BY <1>3 DEF SyncReturns
<1>4. CASE StartComponent(j)
  BY <1>4 DEF StartComponent, Line
<1>5. CASE ComponentsOver(j) \/ Exit(j)
  BY <1>5 DEF ComponentsOver, Exit
<1>6. CASE Decide(j)
  BY <1>6 DEF Decide
<1>7. CASE PutVerdict(j)
  <2>1. status' \in [Jobs -> Statuses]
    BY <1>7 DEF PutVerdict, UpdateStatus, Decision, Decided
  <2> QED
    BY <1>7, <2>1 DEF PutVerdict
<1> QED
  BY <1>1, <1>2, <1>3, <1>4, <1>5, <1>6, <1>7 DEF Work

LEMMA OtherTyped ==
    ASSUME ExecTypeOK,
           \/ \E r \in Requests : Answer(r)
           \/ \E c \in Cancels : CancelLookup(c) \/ CancelUpdate(c)
           \/ ExecCrash
    PROVE  ExecTypeOK'
<1> USE ExecutorAssumption
        DEF ExecTypeOK, Statuses, LPCs, WPCs, Terminal, dbVars, workVars, cancelVars,
            history, launchVars
<1>1. ASSUME NEW r \in Requests, Answer(r) PROVE ExecTypeOK'
  BY <1>1 DEF Answer
<1>2. ASSUME NEW c \in Cancels, CancelLookup(c) PROVE ExecTypeOK'
  BY <1>2 DEF CancelLookup
<1>3. ASSUME NEW c \in Cancels, CancelUpdate(c) PROVE ExecTypeOK'
  BY <1>3 DEF CancelUpdate, UpdateStatus
<1>4. CASE ExecCrash
  BY <1>4 DEF ExecCrash
<1> QED
  BY <1>1, <1>2, <1>3, <1>4

LEMMA ExecTypeStep == ExecInv /\ [ExecNext]_execVars => ExecTypeOK'
<1> SUFFICES ASSUME ExecInv, [ExecNext]_execVars PROVE ExecTypeOK'
  OBVIOUS
<1>1. CASE UNCHANGED execVars
  BY <1>1 DEF ExecInv, execVars, dbVars, launchVars, workVars, cancelVars, history,
     ExecTypeOK
<1>2. \A j \in Jobs : Decision(j)
  BY DEF ExecInv, JobInv
<1> QED
  BY <1>1, <1>2, LaunchTyped, WorkTyped, OtherTyped DEF ExecInv, ExecNext, ExecStep
-----------------------------------------------------------------------------
LEMMA LaunchKeeps ==
    ASSUME ExecInv, NEW i \in Jobs, Launch(i), NEW j \in Jobs
    PROVE  JobInv(j)'
<1> USE ExecutorAssumption
        DEF Statuses, LPCs, WPCs, Terminal, dbVars, workVars, cancelVars,
            history, launchVars, Launching, WorkerLive, Undecided, Decided
<1>1. ExecTypeOK /\ JobInv(j) /\ JobInv(i)
  BY DEF ExecInv
<1>2. CASE Insert(i)
  BY <1>1, <1>2 DEF Insert, ExecTypeOK, JobInv, Placed, Answered, Decision, Recorded
<1>3. CASE InsertFails(i)
  BY <1>1, <1>3 DEF InsertFails, ExecTypeOK, JobInv, Placed, Answered, Decision, Recorded
<1>4. CASE Register(i)
  BY <1>1, <1>4 DEF Register, ExecTypeOK, JobInv, Placed, Answered, Decision, Recorded
<1>5. CASE SetRunning(i)
  BY <1>1, <1>5 DEF SetRunning, UpdateStatus, ExecTypeOK, JobInv, Placed, Answered,
     Decision, Recorded
<1>6. CASE Go(i)
  BY <1>1, <1>6 DEF Go, ExecTypeOK, JobInv, Placed, Answered, Decision, Recorded
<1> QED
  BY <1>2, <1>3, <1>4, <1>5, <1>6 DEF Launch

LEMMA WorkKeeps ==
    ASSUME ExecInv, NEW i \in Jobs, Work(i), NEW j \in Jobs
    PROVE  JobInv(j)'
<1> USE DEF Statuses, LPCs, WPCs, Terminal, dbVars, workVars, cancelVars,
            history, launchVars, Launching, WorkerLive, Undecided, Decided
<1>1. ExecTypeOK /\ JobInv(j) /\ JobInv(i)
  BY DEF ExecInv
<1>2. CASE Start(i) \/ SyncErrorLine(i) \/ ComponentReturns(i) \/ FinalLine(i)
  BY <1>1, <1>2 DEF Start, SyncErrorLine, ComponentReturns, FinalLine, ExecTypeOK,
     JobInv, Placed, Answered, Decision, Recorded
<1>3. CASE Check(i)
  BY <1>1, <1>3 DEF Check, ExecTypeOK, JobInv, Placed, Answered, Decision, Recorded
<1>4. CASE SyncReturns(i)
  BY <1>1, <1>4 DEF SyncReturns, ExecTypeOK, JobInv, Placed, Answered, Decision, Recorded
<1>5. CASE StartComponent(i)
  BY <1>1, <1>5 DEF StartComponent, ExecTypeOK, JobInv, Placed, Answered, Decision,
     Recorded
<1>6. CASE ComponentsOver(i)
  BY <1>1, <1>6 DEF ComponentsOver, ExecTypeOK, JobInv, Placed, Answered, Decision,
     Recorded
<1>7. CASE Decide(i)
  BY <1>1, <1>7 DEF Decide, ExecTypeOK, JobInv, Placed, Answered, Decision, Recorded
<1>8. CASE PutVerdict(i)
  BY <1>1, <1>8 DEF PutVerdict, UpdateStatus, ExecTypeOK, JobInv, Placed, Answered,
     Decision, Recorded
<1>9. CASE Exit(i)
  BY <1>1, <1>9 DEF Exit, ExecTypeOK, JobInv, Placed, Answered, Decision, Recorded
<1> QED
  BY <1>2, <1>3, <1>4, <1>5, <1>6, <1>7, <1>8, <1>9 DEF Work

LEMMA OtherKeeps ==
    ASSUME ExecInv, NEW j \in Jobs,
           \/ \E r \in Requests : Answer(r)
           \/ \E c \in Cancels : CancelLookup(c) \/ CancelUpdate(c)
           \/ ExecCrash
    PROVE  JobInv(j)'
<1> USE ExecutorAssumption
        DEF Statuses, LPCs, WPCs, Terminal, dbVars, workVars, cancelVars,
            history, launchVars, Launching, WorkerLive, Undecided, Decided
<1>1. ExecTypeOK /\ JobInv(j)
  BY DEF ExecInv
<1>2. ASSUME NEW r \in Requests, Answer(r) PROVE JobInv(j)'
  BY <1>1, <1>2 DEF Answer, ExecTypeOK, JobInv, Placed, Answered, Decision, Recorded
<1>3. ASSUME NEW c \in Cancels, CancelLookup(c) PROVE JobInv(j)'
  BY <1>1, <1>3 DEF CancelLookup, ExecTypeOK, JobInv, Placed, Answered, Decision, Recorded
<1>4. ASSUME NEW c \in Cancels, CancelUpdate(c) PROVE JobInv(j)'
  BY <1>1, <1>4 DEF CancelUpdate, UpdateStatus, ExecTypeOK, JobInv, Placed, Answered,
     Decision, Recorded
<1>5. CASE ExecCrash
  BY <1>1, <1>5 DEF ExecCrash, ExecTypeOK, JobInv, Placed, Answered, Decision, Recorded
<1> QED
  BY <1>2, <1>3, <1>4, <1>5

LEMMA ExecStepKeeps == ExecInv /\ [ExecNext]_execVars => ExecInv'
<1> SUFFICES ASSUME ExecInv, [ExecNext]_execVars PROVE ExecInv'
  OBVIOUS
<1>1. ExecTypeOK'
  BY ExecTypeStep
<1>2. ASSUME NEW j \in Jobs PROVE JobInv(j)'
  <2>1. CASE UNCHANGED execVars
    BY <2>1 DEF ExecInv, JobInv, Placed, Answered, Decision, Recorded, Launching,
       WorkerLive, execVars, dbVars, launchVars, workVars, cancelVars, history
  <2> QED
    BY <2>1, LaunchKeeps, WorkKeeps, OtherKeeps DEF ExecNext, ExecStep
<1> QED
  BY <1>1, <1>2 DEF ExecInv
-----------------------------------------------------------------------------
\* The streams only read: to the executor they are stuttering steps.
LEMMA StreamsOnlyRead == [Next]_vars => [ExecNext]_execVars
  BY DEF Next, ExecNext, Crash, Open, SendLogs, Close, PollAgain, Disconnect, vars

\* The inductive invariant holds in every reachable state of the server.
THEOREM ExecInvariance == Spec => []ExecInv
<1>1. Init => ExecInv
  BY ExecInitEstablishes DEF Init
<1>2. ExecInv /\ [Next]_vars => ExecInv'
  BY StreamsOnlyRead, ExecStepKeeps
<1> QED
  BY <1>1, <1>2, PTL DEF Spec

\* Executor and streams keep to their types.
THEOREM TypeCorrect == Spec => []TypeOK
<1>1. Init => ExecInv /\ TypeOK
  BY ExecInitEstablishes DEF Init, ExecInv, TypeOK
<1>2. ExecInv /\ TypeOK /\ [Next]_vars => ExecInv' /\ TypeOK'
  <2> SUFFICES ASSUME ExecInv, TypeOK, [Next]_vars PROVE ExecInv' /\ TypeOK'
    OBVIOUS
  <2>1. ExecInv' /\ ExecTypeOK'
    BY StreamsOnlyRead, ExecStepKeeps DEF ExecInv
  <2>2. CASE UNCHANGED streamVars
    BY <2>1, <2>2 DEF TypeOK, streamVars
  <2>3. ASSUME NEW s \in Streams,
               Open(s) \/ SendLogs(s) \/ Close(s) \/ PollAgain(s) \/ Disconnect(s)
        PROVE  TypeOK'
    <3>1. logs \in [Jobs -> Nat] /\ status \in [Jobs -> Statuses]
      BY DEF ExecInv, ExecTypeOK
    <3>2. spc' \in [Streams -> {"new", "logs", "status", "done", "gone"}] /\ sjob' = sjob
      BY <2>3 DEF TypeOK, Open, SendLogs, Close, PollAgain, Disconnect
    <3>3. sent' \in [Streams -> Nat]
      BY <2>3, <3>1 DEF TypeOK, Open, SendLogs, Close, PollAgain, Disconnect
    <3>4. told' \in [Streams -> {"none"} \cup Terminal]
      BY <2>3 DEF TypeOK, Open, SendLogs, Close, PollAgain, Disconnect
    <3> QED BY <2>1, <3>2, <3>3, <3>4 DEF TypeOK
  <2>4. CASE Crash
    BY <2>1, <2>4 DEF Crash, TypeOK
  <2> QED BY <2>1, <2>2, <2>3, <2>4 DEF Next, vars
<1> QED BY <1>1, <1>2, PTL DEF Spec

\* No worker that ended and wrote its last status leaves the row open.
THEOREM NoStuckJobs == Spec => []NoStuckJob
<1>1. ExecInv => NoStuckJob
  BY DEF ExecInv, JobInv, Recorded, NoStuckJob
<1> QED
  BY <1>1, ExecInvariance, PTL

\* The map names exactly the jobs under way.
THEOREM RegistryIsExact == Spec => []RegistryExact
<1>1. ExecInv => RegistryExact
  BY DEF ExecInv, JobInv, Placed, RegistryExact
<1> QED
  BY <1>1, ExecInvariance, PTL

\* No job is recorded as completed that was not whole.
THEOREM CompletedJobsAreWhole == Spec => []CompletedIsWhole
<1>1. ExecInv => CompletedIsWhole
  BY DEF ExecInv, JobInv, Decision, Recorded, CompletedIsWhole
<1> QED
  BY <1>1, ExecInvariance, PTL

\* No write of launcher or worker hides a cancel that came before the verdict.
THEOREM CancelsWin == Spec => []CancelWins
<1>1. ExecInv => CancelWins
  BY DEF ExecInv, ExecTypeOK, JobInv, Recorded, CancelWins
<1> QED
  BY <1>1, ExecInvariance, PTL

\* No repository of a request answered 200 was left out.
THEOREM OkIsAll == Spec => []OkMeansAll
<1>1. ExecInv => OkMeansAll
  BY DEF ExecInv, JobInv, Answered, OkMeansAll
<1> QED
  BY <1>1, ExecInvariance, PTL

\* Nothing is logged for a job once its verdict is in the table.
THEOREM LogsEndWithVerdict == Spec => NoLineAfterVerdict
<1>1. ASSUME ExecInv, [Next]_vars, NEW j \in Jobs, status[j] \in {"completed", "failed"}
      PROVE  logs'[j] = logs[j]
  <2>1. wpc[j] \in {"exit", "done", "dead"} /\ logs \in [Jobs -> Nat]
    BY <1>1 DEF ExecInv, ExecTypeOK, JobInv, Recorded
  <2>2. CASE \E i \in Jobs : Work(i)
    BY <2>1, <2>2 DEF Work, Start, Check, SyncReturns, SyncErrorLine, StartComponent,
       ComponentReturns, ComponentsOver, Decide, FinalLine, PutVerdict, Exit, Line, dbVars
  <2>3. CASE ~\E i \in Jobs : Work(i)
    BY <1>1, <2>3, StreamsOnlyRead DEF ExecNext, ExecStep, Launch, Insert, InsertFails,
       Register, SetRunning, Go, Answer, CancelLookup, CancelUpdate, ExecCrash, dbVars,
       execVars
  <2> QED
    BY <2>2, <2>3
<1>2. ExecInv /\ [Next]_vars =>
          [\A j \in Jobs : status[j] \in {"completed", "failed"} => logs'[j] = logs[j]]_execVars
  BY <1>1
<1> QED
  BY <1>2, ExecInvariance, PTL DEF Spec, NoLineAfterVerdict
-----------------------------------------------------------------------------
(* The row of a job, as JobRow has it.                                        *)

Stages == {"none", "listed", "launched", "over", "dead"}

\* What the stage of a job depends on.
Staged ==
    \A j \in Jobs :
        /\ Stage[j] \in Stages
        /\ Stage[j] = "none" <=> lpc[j] \in {"new", "refused"}
        /\ Stage[j] = "listed" <=> lpc[j] \in {"inserted", "registered"}
        /\ Stage[j] = "over" <=> wpc[j] \in {"exit", "done"}
        /\ Stage[j] = "dead" <=> lpc[j] = "dead" \/ wpc[j] = "dead"

\* The launcher and the worker are never both under way.
LEMMA StageIs == ExecInv => Staged
<1> SUFFICES ASSUME ExecInv, NEW j \in Jobs
    PROVE  /\ Stage[j] \in Stages
           /\ Stage[j] = "none" <=> lpc[j] \in {"new", "refused"}
           /\ Stage[j] = "listed" <=> lpc[j] \in {"inserted", "registered"}
           /\ Stage[j] = "over" <=> wpc[j] \in {"exit", "done"}
           /\ Stage[j] = "dead" <=> lpc[j] = "dead" \/ wpc[j] = "dead"
  BY DEF Staged
<1>1. lpc[j] \in LPCs /\ wpc[j] \in WPCs /\ (wpc[j] # "none" <=> lpc[j] = "started")
  BY DEF ExecInv, ExecTypeOK, JobInv, Placed
<1>2. Stage[j] = CASE lpc[j] \in {"new", "refused"} -> "none"
                   [] lpc[j] = "dead" \/ wpc[j] = "dead" -> "dead"
                   [] lpc[j] \in {"inserted", "registered"} -> "listed"
                   [] wpc[j] \in {"exit", "done"} -> "over"
                   [] OTHER -> "launched"
  BY DEF Stage
<1> QED
  BY <1>1, <1>2 DEF LPCs, WPCs, Stages

\* So after a step.
LEMMA StageIsNext == ExecInv' => Staged'
BY StageIs, PTL

\* A step of one job changes the stage of no other.
LEMMA StageOfOne ==
    ASSUME ExecInv, NEW i \in Jobs,
           lpc' = lpc \/ lpc' = [lpc EXCEPT ![i] = lpc'[i]],
           wpc' = wpc \/ wpc' = [wpc EXCEPT ![i] = wpc'[i]]
    PROVE  /\ Stage' = [Stage EXCEPT ![i] = Stage'[i]]
           /\ Stage'[i] = Stage[i] => Stage' = Stage
<1>1. \A j \in Jobs : j # i => lpc'[j] = lpc[j] /\ wpc'[j] = wpc[j]
  BY DEF ExecInv, ExecTypeOK
<1>2. \A j \in Jobs : j # i => Stage'[j] = Stage[j]
  BY <1>1 DEF Stage
<1>3. Stage = [j \in Jobs |-> Stage[j]] /\ Stage' = [j \in Jobs |-> Stage'[j]]
  BY DEF Stage
<1> QED
  BY <1>2, <1>3

\* The launcher's steps, as the row sees them.
LEMMA LaunchRefines ==
    ASSUME ExecInv, ExecInv', NEW i \in Jobs, Launch(i)
    PROVE  Row!Next \/ UNCHANGED Row!vars
<1>1. Staged /\ Staged' /\ JobInv(i) /\ JobInv(i)' /\ ExecTypeOK
  BY StageIs, StageIsNext DEF ExecInv
<1>2. CASE Insert(i)
  <2>1. Stage' = [Stage EXCEPT ![i] = Stage'[i]]
    BY <1>2, StageOfOne DEF Insert, workVars, ExecInv, ExecTypeOK
  <2>2. Stage[i] = "none" /\ Stage'[i] = "listed"
    BY <1>1, <1>2 DEF Insert, Staged, ExecTypeOK
  <2>3. Row!List(i)
    BY <1>2, <2>1, <2>2 DEF Insert, history, Row!List
  <2> QED
    BY <2>3 DEF Row!Next
<1>3. CASE SetRunning(i)
  <2>1. Stage' = [Stage EXCEPT ![i] = Stage'[i]]
    BY <1>3, StageOfOne DEF SetRunning, workVars, ExecInv, ExecTypeOK
  <2>2. Stage[i] = "listed" /\ Stage'[i] = "launched"
    <3>1. lpc[i] = "registered" /\ lpc'[i] = "updated" /\ wpc'[i] = "none"
      BY <1>1, <1>3 DEF SetRunning, workVars, ExecTypeOK, JobInv, Placed
    <3> QED
      BY <1>1, <3>1 DEF Staged, Stages
  <2>3. status[i] # "absent"
    BY <1>1, <1>3 DEF SetRunning, JobInv, Placed
  <2>4. Row!Launch(i)
    BY <1>3, <2>1, <2>2, <2>3 DEF SetRunning, UpdateStatus, history, Row!Launch, Row!Put
  <2> QED
    BY <2>4 DEF Row!Next
<1>4. CASE InsertFails(i) \/ Register(i) \/ Go(i)
  <2>1. Stage'[i] = Stage[i]
    <3>1. \/ lpc[i] = "new" /\ lpc'[i] = "refused" /\ wpc'[i] = wpc[i]
          \/ lpc[i] = "inserted" /\ lpc'[i] = "registered" /\ wpc'[i] = wpc[i]
          \/ lpc[i] = "updated" /\ lpc'[i] = "started" /\ wpc'[i] = "start"
      BY <1>1, <1>4 DEF InsertFails, Register, Go, workVars, ExecTypeOK
    <3>2. wpc[i] = "none"
      BY <1>1, <3>1 DEF JobInv, Placed
    <3> QED
      BY <1>1, <3>1, <3>2 DEF Staged, Stages
  <2>2. Stage' = Stage
    BY <1>4, <2>1, StageOfOne
    DEF InsertFails, Register, Go, workVars, ExecInv, ExecTypeOK
  <2> QED
    BY <1>4, <2>2 DEF InsertFails, Register, Go, dbVars, history, Row!vars
<1> QED
  BY <1>2, <1>3, <1>4 DEF Launch

\* The worker's: its verdict is what it concludes with.
LEMMA WorkRefines ==
    ASSUME ExecInv, ExecInv', NEW i \in Jobs, Work(i)
    PROVE  Row!Next \/ UNCHANGED Row!vars
<1>1. Staged /\ Staged' /\ JobInv(i) /\ JobInv(i)' /\ ExecTypeOK
  BY StageIs, StageIsNext DEF ExecInv
<1>2. CASE PutVerdict(i)
  <2>1. Stage' = [Stage EXCEPT ![i] = Stage'[i]]
    BY <1>2, StageOfOne DEF PutVerdict, launchVars, ExecInv, ExecTypeOK
  <2>2. Stage[i] = "launched" /\ Stage'[i] = "over"
    <3>1. wpc[i] = "put" /\ wpc'[i] = "exit" /\ lpc[i] = "started"
      BY <1>1, <1>2 DEF PutVerdict, ExecTypeOK, JobInv, Placed
    <3> QED
      BY <1>1, <3>1 DEF Staged, Stages
  <2>3. status[i] # "absent" /\ heard' = heard
    BY <1>1, <1>2 DEF PutVerdict, JobInv, Placed
  <2>4. verdict[i] \in IF i \in heard THEN {"cancelled"} ELSE {"completed", "failed"}
    BY <1>1, <1>2 DEF PutVerdict, JobInv, Decision, Decided, Terminal
  <2>5. Row!Put(i, verdict[i])
    BY <1>2, <2>3 DEF PutVerdict, UpdateStatus, Row!Put
  <2>6. Row!Conclude(i)
    BY <2>1, <2>2, <2>3, <2>4, <2>5 DEF Row!Conclude
  <2> QED
    BY <2>6 DEF Row!Next
<1>3. CASE ~PutVerdict(i)
  <2>1. /\ lpc' = lpc /\ UNCHANGED <<status, heard>>
        /\ wpc' = [wpc EXCEPT ![i] = wpc'[i]]
        /\ \/ wpc[i] = "exit" /\ wpc'[i] = "done"
           \/ /\ wpc[i] \notin {"none", "exit", "done", "dead"}
              /\ wpc'[i] \notin {"none", "exit", "done", "dead"}
    BY <1>1, <1>3
    DEF Work, Start, Check, SyncReturns, SyncErrorLine, StartComponent, ComponentReturns,
        ComponentsOver, Decide, FinalLine, Exit, launchVars, dbVars, history, ExecTypeOK
  <2>2. lpc[i] = "started"
    BY <1>1, <2>1 DEF JobInv, Placed
  <2>3. Stage'[i] = Stage[i]
    BY <1>1, <2>1, <2>2 DEF Staged, Stages
  <2>4. Stage' = Stage
    BY <2>1, <2>3, StageOfOne
  <2> QED
    BY <2>1, <2>4 DEF Row!vars
<1> QED
  BY <1>2, <1>3

\* A cancel request reaches the job, or does not, and then writes.
LEMMA CancelRefines ==
    ASSUME ExecInv, NEW c \in Cancels, CancelLookup(c) \/ CancelUpdate(c)
    PROVE  Row!Next \/ UNCHANGED Row!vars
<1>1. Stage' = Stage
  BY DEF CancelLookup, CancelUpdate, launchVars, workVars, Stage
<1>2. CASE CancelLookup(c)
  <2>1. PICK j \in Jobs :
            heard' = IF j \in runningJobs /\ verdict[j] = "none" THEN heard \cup {j} ELSE heard
    BY <1>2 DEF CancelLookup
  <2>2. status' = status
    BY <1>2 DEF CancelLookup, dbVars
  <2>3. CASE j \in runningJobs /\ verdict[j] = "none"
    <3>1. JobInv(j) /\ Staged
      BY StageIs DEF ExecInv
    <3>2. Stage[j] \in {"listed", "launched"}
      BY <2>3, <3>1
      DEF JobInv, Placed, Decision, Decided, Terminal, WorkerLive, Staged, Stages
    <3>3. Row!Reach(j)
      BY <1>1, <2>1, <2>2, <2>3, <3>2 DEF Row!Reach
    <3> QED
      BY <3>3 DEF Row!Next
  <2>4. CASE ~(j \in runningJobs /\ verdict[j] = "none")
    BY <1>1, <2>1, <2>2, <2>4 DEF Row!vars
  <2> QED
    BY <2>3, <2>4
<1>3. CASE CancelUpdate(c)
  <2>1. target[c] \in Jobs /\ heard' = heard
    BY <1>3 DEF CancelUpdate, ExecInv, ExecTypeOK
  <2>2. CASE status' = status
    BY <1>1, <2>1, <2>2 DEF Row!vars
  <2>3. CASE status' # status
    <3>1. Row!Overwrite(target[c])
      BY <1>1, <1>3, <2>1, <2>3 DEF CancelUpdate, UpdateStatus, Row!Overwrite
    <3> QED
      BY <2>1, <3>1 DEF Row!Next
  <2> QED
    BY <2>2, <2>3
<1> QED
  BY <1>2, <1>3

\* The server dies with all that it was doing.
LEMMA CrashRefines ==
    ASSUME ExecInv, ExecInv', ExecCrash
    PROVE  Row!Next
<1> DEFINE D == {j \in Jobs : Launching(j) \/ WorkerLive(j)}
<1>1. Staged /\ Staged'
  BY StageIs, StageIsNext
<1>2. ASSUME NEW j \in Jobs
      PROVE  /\ j \in D => Stage[j] # "none" /\ Stage'[j] = "dead"
             /\ j \notin D => Stage'[j] = Stage[j]
  <2>1. JobInv(j) /\ ExecTypeOK
    BY DEF ExecInv
  <2>2. /\ lpc'[j] = IF Launching(j) THEN "dead" ELSE lpc[j]
        /\ wpc'[j] = IF WorkerLive(j) THEN "dead" ELSE wpc[j]
    BY DEF ExecCrash
  <2>3. CASE j \in D
    BY <1>1, <2>1, <2>2, <2>3 DEF Staged, JobInv, Placed, Launching, WorkerLive
  <2>4. CASE j \notin D
    BY <2>2, <2>4 DEF Stage
  <2> QED
    BY <2>3, <2>4
<1>3. Stage = [j \in Jobs |-> Stage[j]] /\ Stage' = [j \in Jobs |-> Stage'[j]]
  BY DEF Stage
<1>4. UNCHANGED <<status, heard>>
  BY DEF ExecCrash, dbVars, history
<1>5. D \in SUBSET Jobs
  OBVIOUS
<1> HIDE DEF D
<1>6. Stage' = [j \in Jobs |-> IF j \in D THEN "dead" ELSE Stage[j]]
  BY <1>2, <1>3
<1>7. Row!Die(D)
  BY <1>2, <1>4, <1>5, <1>6 DEF Row!Die
<1> QED
  BY <1>5, <1>7 DEF Row!Next

\* Every step of the executor is one of the row's, or leaves it as it is.
LEMMA RowStep == ExecInv /\ ExecInv' /\ [ExecNext]_execVars => [Row!Next]_Row!vars
<1> SUFFICES ASSUME ExecInv, ExecInv', [ExecNext]_execVars
             PROVE  Row!Next \/ UNCHANGED Row!vars
  OBVIOUS
<1>1. ASSUME NEW r \in Requests, Answer(r) PROVE UNCHANGED Row!vars
  BY <1>1 DEF Answer, dbVars, workVars, history, Stage, Row!vars
<1>2. CASE UNCHANGED execVars
  BY <1>2 DEF execVars, dbVars, launchVars, workVars, history, Stage, Row!vars
<1> QED
  BY <1>1, <1>2, LaunchRefines, WorkRefines, CancelRefines, CrashRefines DEF ExecNext, ExecStep

\* The launcher, the worker, the cancel handlers and the crashes of the server keep
\* to what JobRow says of a job's row, for any number of jobs.
THEOREM RowRefinement == Spec => ImplementsJobRow
<1>1. Init => Row!Init
  BY DEF Init, ExecInit, Row!Init, Stage
<1> QED
  BY <1>1, ExecInvariance, StreamsOnlyRead, RowStep, PTL DEF Spec, ImplementsJobRow, Row!Spec
=============================================================================

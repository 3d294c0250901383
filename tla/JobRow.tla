------------------------------- MODULE JobRow --------------------------------
(***************************************************************************)
(* What the executions table tells of a job, to those who list jobs and    *)
(* those who follow one: it is pending, its launcher sets it to running at *)
(* most once, its worker puts a verdict at most once and after that, and   *)
(* all else that is ever written is the "cancelled" of a cancel request.   *)
(* So a verdict is overwritten by a late cancel only, and a job whose      *)
(* context was cancelled in time never ends as anything else.              *)
(* JobServer is shown to implement this specification.                     *)
(***************************************************************************)
CONSTANT Jobs

VARIABLES
    status,   \* the row; "absent": there is none
    stage,    \* "none"; "listed"; "launched": the launcher has no more to write;
              \* "over": the worker neither; "dead": the server died
    reached   \* jobs that a cancel reached before they were decided

vars == <<status, stage, reached>>

Init ==
    /\ status = [j \in Jobs |-> "absent"]
    /\ stage = [j \in Jobs |-> "none"]
    /\ reached = {}

\* A write of the row, which may fail.
Put(j, v) == status' = [status EXCEPT ![j] = v] \/ UNCHANGED status

List(j) ==
    /\ stage[j] = "none"
    /\ status' = [status EXCEPT ![j] = "pending"]
    /\ stage' = [stage EXCEPT ![j] = "listed"]
    /\ UNCHANGED reached

Launch(j) ==
    /\ stage[j] = "listed"
    /\ Put(j, "running")
    /\ stage' = [stage EXCEPT ![j] = "launched"]
    /\ UNCHANGED reached

Reach(j) ==
    /\ stage[j] \in {"listed", "launched"}
    /\ reached' = reached \cup {j}
    /\ UNCHANGED <<status, stage>>

\* The verdict is "cancelled" exactly if a cancel reached the job.
Conclude(j) ==
    /\ stage[j] = "launched"
    /\ \E v \in IF j \in reached THEN {"cancelled"} ELSE {"completed", "failed"} : Put(j, v)
    /\ stage' = [stage EXCEPT ![j] = "over"]
    /\ UNCHANGED reached

\* A cancel request writes, whatever the row says by then.
Overwrite(j) ==
    /\ status[j] # "absent"
    /\ status' = [status EXCEPT ![j] = "cancelled"]
    /\ UNCHANGED <<stage, reached>>

\* The server dies; the rows stay as they are.
Die(D) ==
    /\ \A j \in D : stage[j] # "none"
    /\ stage' = [j \in Jobs |-> IF j \in D THEN "dead" ELSE stage[j]]
    /\ UNCHANGED <<status, reached>>

Next ==
    \/ \E j \in Jobs : List(j) \/ Launch(j) \/ Reach(j) \/ Conclude(j) \/ Overwrite(j)
    \/ \E D \in SUBSET Jobs : Die(D)

Spec == Init /\ [][Next]_vars
=============================================================================

---------------------------- MODULE ExclusiveLock ----------------------------
(***************************************************************************)
(* What internal/lock promises its callers: Acquire hands a resource to    *)
(* one client at a time, and a client loses what it holds only by giving   *)
(* it back or by dying (lock.go:31-35).  RepoLock is shown to implement    *)
(* this specification; GitSync is built on it.                             *)
(***************************************************************************)
CONSTANTS Clients,    \* goroutines that call Acquire
          Resources   \* what a lock file stands for: (base directory, key)

VARIABLE holds        \* holds[c]: the resources client c has acquired

Init == holds = [c \in Clients |-> {}]

Free(r) == \A c \in Clients : r \notin holds[c]

Grant(c, r) ==
    /\ Free(r)
    /\ holds' = [holds EXCEPT ![c] = @ \cup {r}]

\* Some clients lose all they hold: one by its release function, all those of
\* a process at once when the process dies.
Drop(S) == holds' = [c \in Clients |-> IF c \in S THEN {} ELSE holds[c]]

Next ==
    \/ \E c \in Clients, r \in Resources : Grant(c, r)
    \/ \E S \in SUBSET Clients : Drop(S)

Spec == Init /\ [][Next]_holds

\* No two clients hold the same resource.
Exclusive ==
    \A c, d \in Clients : c # d => holds[c] \cap holds[d] = {}
=============================================================================

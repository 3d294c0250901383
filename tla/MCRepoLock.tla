----------------------------- MODULE MCRepoLock -----------------------------
(***************************************************************************)
(* Two processes of one working directory; two goroutines in the first,    *)
(* one in the second; two keys.                                            *)
(***************************************************************************)
EXTENDS RepoLock, TLC

CONSTANTS p1, p2, t1, t2, t3, r1

MCProcOf == (t1 :> p1) @@ (t2 :> p1) @@ (t3 :> p2)
MCRootOf == [p \in Procs |-> r1]
=============================================================================

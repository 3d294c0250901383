----------------------------- MODULE MCJobServer -----------------------------
(***************************************************************************)
(* One request for one repository and component, cancel handlers used      *)
(* again and again, one log stream.                                        *)
(***************************************************************************)
EXTENDS JobServer

CONSTANT r1

MCRequestOf == [j \in Jobs |-> r1]
=============================================================================

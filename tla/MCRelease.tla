------------------------------ MODULE MCRelease ------------------------------
(***************************************************************************)
(* Configurations of Release for TLC.                                      *)
(***************************************************************************)
EXTENDS Release

Err(kind, after) == [kind |-> kind, after |-> after]

\* Gone by itself, with the time of a reset, with a reset that is over; for good.
MCErrors == {Err("5xx", 0), Err("rateLimit", 9), Err("429", -1), Err("4xx", 0)}

\* "v2/x" is a directory in a directory.
MCTags == {"v1", "v2/x", "v3", "v4"}
MCParent == [t \in MCTags |-> IF t = "v2/x" THEN "v2" ELSE t]

\* A file of version 1 torn at the right place has the size of version 2.
MCSizes == <<2, 1>>

\* With one more there are more releases than on a page.
MCFirst == {<<"v3", "v1", "v2/x">>, <<"v2/x", "v3", "v1">>}
=============================================================================

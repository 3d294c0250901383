------------------------------- MODULE MCFeed -------------------------------
(***************************************************************************)
(* Configurations of Feed for TLC.                                         *)
(***************************************************************************)
EXTENDS Feed

Conf(kind, cache) == [kind |-> kind, useCache |-> cache]

Cached == {Conf("issue", TRUE), Conf("discussion", TRUE)}
All == Cached \cup {Conf("issue", FALSE), Conf("discussion", FALSE)}
CachedDiscussion == {Conf("discussion", TRUE)}

\* Items in the order of their numbers; the first may come later.
InOrder == {[i \in Items |-> i - 1]}
=============================================================================

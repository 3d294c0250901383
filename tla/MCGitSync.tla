------------------------------ MODULE MCGitSync ------------------------------
(***************************************************************************)
(* Configurations of GitSync for TLC.                                      *)
(***************************************************************************)
EXTENDS GitSync, TLC

CONSTANTS b1, b2, x1

One == [refs |-> (b1 :> {x1}) @@ (b2 :> {}), head |-> b1]
Two == [refs |-> (b1 :> {x1}) @@ (b2 :> {x1}), head |-> b1]
OneBranch == {One}
OneOrTwo == {One, Two}

Conf(cache, all, wiki) == [useCache |-> cache, allBranches |-> all, iswiki |-> wiki]

DefaultOnly == {Conf(TRUE, FALSE, FALSE)}
CachedCode == {Conf(TRUE, TRUE, FALSE)}
CachedWiki == {Conf(TRUE, TRUE, TRUE)}
Uncached == {Conf(FALSE, TRUE, FALSE)}
Varied == DefaultOnly \cup CachedCode \cup Uncached

\* Where all branches of the code are kept there are two at first, so that the
\* pull of the second can meet a change of the first; elsewhere there is one.
MCInit == Init /\ (conf \in CachedCode <=> up = Two.refs)
MCSpec == MCInit /\ [][Next]_vars /\ Fairness
=============================================================================

----------------------------- MODULE MCConfigApi -----------------------------
(***************************************************************************)
(* Configurations of ConfigApi for TLC.                                    *)
(***************************************************************************)
EXTENDS ConfigApi, TLC

MCTokens == {"http://", "https://", "HTTPS://", "github.com", "www.", "/", ".git", "#", " ",
             "a", "A", "b", "o", "s", "t", "readme"}
MCLowerCase == "A" :> "a" @@ "HTTPS://" :> "https://"

Repo(url) == [type |-> "repo", url |-> url, org |-> <<>>]

A == <<"a">>
\* The same repository, written otherwise.
A2 == <<"https://", "A", ".git">>
B == <<"b">>

\* Without a URL: a repository of nothing, and an organisation.
MCRepositories == {Repo(A), Repo(A2), Repo(<<>>), [type |-> "org", url |-> <<>>, org |-> <<"o">>]}
MCRepositoryPatches == {[url |-> A], [url |-> <<"#">>]}
MCRepositoryIds == {A2, <<"github.com", "/", "o">>}
MCStorages == {[name |-> <<"s">>]}
MCStoragePatches == {[name |-> <<"t">>]}
MCStorageIds == {<<"s">>}

\* Nothing, or what the requests are about already there.
MCFirstFiles ==
    {[repository |-> <<>>, storage |-> <<>>],
     [repository |-> <<Repo(A2), Repo(B)>>, storage |-> <<[name |-> <<"s">>]>>]}
=============================================================================

------------------------------- MODULE RepoKey -------------------------------
(***************************************************************************)
(* internal/typedef/key.go: what identifies a repository is its URL in a   *)
(* normal form.  A URL is a sequence of tokens: what the code looks for    *)
(* ("https://", "www.", "/", ".git", "#", " "), and whatever is in between. *)
(***************************************************************************)
EXTENDS Integers, Sequences, FiniteSetsExt

CONSTANTS
    Tokens,
    LowerCase   \* the tokens that strings.ToLower changes, and into what

\* What the code looks for; all of it is in lower case.
Space == " "
Separators == {"http://", "https://", "www.", "/", ".git", "#", Space}

ASSUME RepoKeyAssumption ==
    /\ Separators \cup {"github.com", "HTTPS://", "readme"} \subseteq Tokens
    /\ DOMAIN LowerCase \subseteq Tokens \ Separators
    /\ \A t \in DOMAIN LowerCase : LowerCase[t] \in Tokens
    /\ "HTTPS://" \in DOMAIN LowerCase /\ LowerCase["HTTPS://"] = "https://"

At(s, c) == {i \in DOMAIN s : s[i] = c}

\* strings.TrimSpace
Trim(s) ==
    LET kept == DOMAIN s \ At(s, Space) IN
    IF kept = {} THEN <<>> ELSE SubSeq(s, Min(kept), Max(kept))

CutFragment(s) ==
    LET hashes == At(s, "#") IN
    IF hashes = {} THEN s ELSE SubSeq(s, 1, Min(hashes) - 1)

ToLower(s) == [i \in DOMAIN s |-> IF s[i] \in DOMAIN LowerCase THEN LowerCase[s[i]] ELSE s[i]]

TrimPrefix(s, c) == IF s # <<>> /\ Head(s) = c THEN Tail(s) ELSE s
TrimSuffix(s, c) == IF s # <<>> /\ s[Len(s)] = c THEN SubSeq(s, 1, Len(s) - 1) ELSE s

\* Mutant: the slash after ".git".
NormalizeGitFirst(raw) ==
    LET s == ToLower(CutFragment(Trim(raw)))
        t == TrimPrefix(TrimPrefix(TrimPrefix(s, "http://"), "https://"), "www.")
    IN TrimSuffix(TrimSuffix(t, ".git"), "/")

NormalizeURL(raw) ==
    LET s == ToLower(CutFragment(Trim(raw)))
        t == TrimPrefix(TrimPrefix(TrimPrefix(s, "http://"), "https://"), "www.")
    IN TrimSuffix(TrimSuffix(t, "/"), ".git")

\* A repository entry: its type, its URL, its orgName.  Names may repeat.
EffectiveURL(e) ==
    IF e.type = "org" /\ Trim(e.url) = <<>> /\ e.org # <<>>
    THEN <<"https://", "github.com", "/">> \o e.org
    ELSE e.url

Key(e) == NormalizeURL(EffectiveURL(e))

Matches(e, input) == Key(e) # <<>> /\ NormalizeURL(input) = Key(e)
-----------------------------------------------------------------------------
\* The ways to write what has the normal form path.
Optional(c) == {<<>>, <<c>>}
Schemes == {<<>>, <<"http://">>, <<"HTTPS://">>}
Fragments == {<<>>, <<"#", "readme", "/">>}
Ways == [space : Optional(Space), scheme : Schemes, www : Optional("www."),
         git : Optional(".git"), slash : Optional("/"), fragment : Fragments]
Spellings(path) ==
    {w.space \o w.scheme \o w.www \o path \o w.git \o w.slash \o w.fragment \o w.space : w \in Ways}
=============================================================================

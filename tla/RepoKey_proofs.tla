---------------------------- MODULE RepoKey_proofs ----------------------------
(***************************************************************************)
(* What the normal form of a URL is, for any tokens: a path that is its    *)
(* own normal form is the normal form of everything it is spelled as.      *)
(***************************************************************************)
EXTENDS RepoKey, TLAPS, SequenceTheorems, WellFoundedInduction

\* A path that NormalizeURL finds nothing to take from.
Plain(p) ==
    /\ p \in Seq(Tokens) /\ p # <<>>
    /\ p[1] \notin {Space, "http://", "https://", "www."}
    /\ p[Len(p)] \notin {Space, "/", ".git"}
    /\ At(p, "#") = {}
    /\ ToLower(p) = p

\* What is known of it.
LEMMA SpaceIs ==
    /\ Space \in Tokens \ DOMAIN LowerCase
    /\ Space \notin {"http://", "https://", "HTTPS://", "www.", "/", ".git", "#"}
BY RepoKeyAssumption DEF Space, Separators

\* What is looked for is in lower case.
LEMMA SeparatorsAre ==
    /\ {"http://", "https://", "HTTPS://", "www.", "/", ".git", "#", "readme"} \subseteq Tokens
    /\ {"http://", "https://", "www.", "/", ".git", "#"} \cap DOMAIN LowerCase = {}
    /\ "HTTPS://" \in DOMAIN LowerCase /\ LowerCase["HTTPS://"] = "https://"
    /\ \A t \in DOMAIN LowerCase : t \in Tokens /\ LowerCase[t] \in Tokens
BY RepoKeyAssumption DEF Separators
-----------------------------------------------------------------------------
(* Sets of numbers, and sequences.                                            *)

\* A set of naturals has a least element.
LEMMA LeastOf ==
    ASSUME NEW S \in SUBSET Nat, S # {}
    PROVE  \E n \in S : \A m \in S : n <= m
<1>1. PICK n \in S : \A m \in S : ~(<<m, n>> \in OpToRel(<, Nat))
  BY NatLessThanWellFounded, WFMin
<1>2. \A m \in S : ~(m < n)
  BY <1>1 DEF OpToRel
<1> QED BY <1>2

\* The ends of a set of positions.
LEMMA Ends ==
    ASSUME NEW n \in Nat, NEW S \in SUBSET (1..n), S # {}
    PROVE  /\ Min(S) \in S /\ \A m \in S : Min(S) <= m
           /\ Max(S) \in S /\ \A m \in S : m <= Max(S)
<1>1. \E a \in S : \A m \in S : a <= m
  <2>1. S \in SUBSET Nat
    OBVIOUS
  <2> QED BY <2>1, LeastOf
<1>2. \E b \in S : \A m \in S : m <= b
  <2> DEFINE T == {n - m : m \in S}
  <2>1. T \in SUBSET Nat /\ T # {}
    <3>1. \A m \in S : n - m \in Nat
      OBVIOUS
    <3> QED BY <3>1
  <2> HIDE DEF T
  <2>2. PICK t \in T : \A u \in T : t <= u
    BY <2>1, LeastOf
  <2>3. PICK b \in S : t = n - b
    BY <2>2 DEF T
  <2>4. \A m \in S : n - b <= n - m
    BY <2>2, <2>3 DEF T
  <2>5. \A m \in S : m \in Int /\ b \in Int
    OBVIOUS
  <2> QED BY <2>4, <2>5
<1> QED BY <1>1, <1>2 DEF Min, Max

\* The first and the last of what is put together.
LEMMA EndsOfConcat ==
    ASSUME NEW s \in Seq(Tokens), NEW t \in Seq(Tokens)
    PROVE  /\ s \o t \in Seq(Tokens)
           /\ s # <<>> => s \o t # <<>> /\ (s \o t)[1] = s[1]
           /\ t # <<>> => s \o t # <<>> /\ (s \o t)[Len(s \o t)] = t[Len(t)]
<1>1. /\ s \o t \in Seq(Tokens) /\ Len(s \o t) = Len(s) + Len(t)
      /\ \A i \in 1..(Len(s) + Len(t)) :
            (s \o t)[i] = IF i <= Len(s) THEN s[i] ELSE t[i - Len(s)]
  BY ConcatProperties
<1>2. /\ Len(s) \in Nat /\ Len(t) \in Nat
      /\ s # <<>> => Len(s) # 0
      /\ t # <<>> => Len(t) # 0
      /\ Len(s \o t) # 0 => s \o t # <<>>
  OBVIOUS
<1>3. ASSUME s # <<>> PROVE s \o t # <<>> /\ (s \o t)[1] = s[1]
  <2>1. 1 \in 1..(Len(s) + Len(t)) /\ 1 <= Len(s) /\ Len(s) + Len(t) # 0
    BY <1>2, <1>3
  <2> QED BY <1>1, <1>2, <2>1
<1>4. ASSUME t # <<>> PROVE s \o t # <<>> /\ (s \o t)[Len(s \o t)] = t[Len(t)]
  <2> DEFINE k == Len(s) + Len(t)
  <2>1. k \in 1..(Len(s) + Len(t)) /\ ~(k <= Len(s)) /\ k - Len(s) = Len(t) /\ k # 0
    BY <1>2, <1>4
  <2> QED BY <1>1, <1>2, <2>1
<1> QED BY <1>1, <1>3, <1>4

\* An optional token is there or not.
LEMMA OptionalIs ==
    ASSUME NEW c \in Tokens, NEW o \in Optional(c)
    PROVE  /\ o \in Seq(Tokens)
           /\ \/ o = <<>> /\ Len(o) = 0
              \/ o = <<c>> /\ Len(o) = 1 /\ o[1] = c
           /\ \A i \in 1..Len(o) : o[i] = c
<1>1. CASE o = <<>>
  <2>1. <<>> \in Seq(Tokens) /\ Len(<<>>) = 0
    OBVIOUS
  <2>2. 1..0 = {}
    OBVIOUS
  <2> QED BY <1>1, <2>1, <2>2
<1>2. CASE o = <<c>>
  <2>1. <<c>> \in Seq(Tokens) /\ Len(<<c>>) = 1 /\ <<c>>[1] = c
    OBVIOUS
  <2>2. 1..1 = {1}
    OBVIOUS
  <2> QED BY <1>2, <2>1, <2>2
<1> QED BY <1>1, <1>2 DEF Optional
-----------------------------------------------------------------------------
(* Each statement of NormalizeURL, on what it takes something from ...        *)

\* Spaces around what begins and ends otherwise are taken away.
LEMMA TrimAround ==
    ASSUME NEW b \in Seq(Tokens), b # <<>>, b[1] # Space, b[Len(b)] # Space,
           NEW s \in Optional(Space), NEW t \in Optional(Space)
    PROVE  Trim((s \o b) \o t) = b
<1> DEFINE u == (s \o b) \o t
           kept == DOMAIN u \ At(u, Space)
           n == Len(s)
           m == Len(b)
           l == Len(t)
<1>1. Space \in Tokens
  BY SpaceIs
<1>2. /\ s \in Seq(Tokens) /\ t \in Seq(Tokens)
      /\ \A i \in 1..n : s[i] = Space
      /\ \A i \in 1..l : t[i] = Space
  BY <1>1, OptionalIs
<1>3. n \in Nat /\ m \in Nat /\ l \in Nat /\ m # 0 /\ DOMAIN b = 1..m
  BY <1>2
<1>4. /\ s \o b \in Seq(Tokens) /\ Len(s \o b) = n + m
      /\ \A i \in 1..(n + m) : (s \o b)[i] = IF i <= n THEN s[i] ELSE b[i - n]
  BY <1>2, ConcatProperties
<1>5. /\ u \in Seq(Tokens) /\ Len(u) = (n + m) + l
      /\ \A i \in 1..((n + m) + l) :
            u[i] = IF i <= n + m THEN (s \o b)[i] ELSE t[i - (n + m)]
  <2> HIDE DEF n, m, l
  <2>1. /\ u \in Seq(Tokens) /\ Len(u) = Len(s \o b) + Len(t)
        /\ \A i \in 1..(Len(s \o b) + Len(t)) :
            u[i] = IF i <= Len(s \o b) THEN (s \o b)[i] ELSE t[i - Len(s \o b)]
    BY <1>2, <1>4, ConcatProperties
  <2> QED BY <1>4, <2>1 DEF l
<1>6. b[1] # Space /\ b[m] # Space
  OBVIOUS
<1>7. SubSeq(u, n + 1, n + m) = b
  <2>1. Len(s \o b) = Len(s) + Len(b) /\ Len(s) \in Nat /\ Len(b) \in Nat /\ Len(b) # 0
    BY <1>3, <1>4
  <2>2. n + 1 \in 1..Len(s \o b) /\ n + m \in 1..Len(s \o b)
    BY <2>1
  <2>3. SubSeq(u, n + 1, n + m) = SubSeq(s \o b, n + 1, n + m)
    BY <1>2, <1>4, <2>2, SubSeqOfConcat1
  <2>4. /\ n + 1 \in (Len(s) + 1)..(Len(s) + Len(b))
        /\ n + m \in (Len(s) + 1)..(Len(s) + Len(b))
    BY <2>1
  <2>5. SubSeq(s \o b, n + 1, n + m) = SubSeq(b, (n + 1) - Len(s), (n + m) - Len(s))
    BY <1>2, <2>4, SubSeqOfConcat2
  <2>6. (n + 1) - Len(s) = 1 /\ (n + m) - Len(s) = Len(b)
    BY <2>1
  <2>7. SubSeq(b, 1, Len(b)) = b
    BY SubSeqFull
  <2> QED BY <2>3, <2>5, <2>6, <2>7
<1>8. DOMAIN u = 1..((n + m) + l)
  BY <1>5
<1> HIDE DEF u, n, m, l
<1>9. \A i \in 1..m : u[n + i] = b[i]
  <2> TAKE i \in 1..m
  <2>1. n + i \in 1..(n + m) /\ n + i \in 1..((n + m) + l) /\ n + i <= n + m
        /\ ~(n + i <= n) /\ (n + i) - n = i
    BY <1>3
  <2> QED BY <1>4, <1>5, <2>1
<1>10. n + 1 \in kept /\ n + m \in kept
  <2>1. 1 \in 1..m /\ m \in 1..m
    BY <1>3
  <2>2. u[n + 1] # Space /\ u[n + m] # Space
    BY <1>6, <1>9, <2>1
  <2>3. n + 1 \in DOMAIN u /\ n + m \in DOMAIN u
    BY <1>3, <1>8
  <2> QED BY <2>2, <2>3 DEF At
<1>11. \A i \in kept : n + 1 <= i /\ i <= n + m /\ i \in Int
  <2> SUFFICES ASSUME NEW i \in 1..((n + m) + l), u[i] # Space
               PROVE  n + 1 <= i /\ i <= n + m
    BY <1>8 DEF At
  <2>1. CASE i <= n
    <3>1. i \in 1..(n + m) /\ i \in 1..n /\ i <= n + m
      BY <1>3, <2>1
    <3> QED BY <1>2, <1>4, <1>5, <2>1, <3>1
  <2>2. CASE n + m < i
    <3>1. ~(i <= n + m) /\ i - (n + m) \in 1..l
      BY <1>3, <2>2
    <3> QED BY <1>2, <1>5, <3>1
  <2> QED BY <1>3, <2>1, <2>2
<1> HIDE DEF kept
<1>12. Min(kept) = n + 1 /\ Max(kept) = n + m
  <2>1. kept \in SUBSET (1..(n + m)) /\ n + m \in Nat /\ kept # {}
    BY <1>3, <1>10, <1>11
  <2>2. /\ Min(kept) \in kept /\ \A i \in kept : Min(kept) <= i
        /\ Max(kept) \in kept /\ \A i \in kept : i <= Max(kept)
    BY <2>1, Ends
  <2>3. Min(kept) <= n + 1 /\ n + 1 <= Min(kept) /\ Min(kept) \in Int
    BY <1>10, <1>11, <2>2
  <2>4. Max(kept) <= n + m /\ n + m <= Max(kept) /\ Max(kept) \in Int
    BY <1>10, <1>11, <2>2
  <2> QED BY <1>3, <2>3, <2>4
<1>13. Trim(u) = SubSeq(u, n + 1, n + m)
  BY <1>10, <1>12 DEF Trim, kept
<1> QED BY <1>7, <1>13 DEF u

\* So is a fragment.
LEMMA CutAfter ==
    ASSUME NEW s \in Seq(Tokens), At(s, "#") = {}, NEW f \in Seq(Tokens),
           f = <<>> \/ f[1] = "#"
    PROVE  CutFragment(s \o f) = s
<1> DEFINE u == s \o f
           n == Len(s)
<1>1. n \in Nat /\ Len(f) \in Nat /\ DOMAIN s = 1..n
  OBVIOUS
<1>2. CASE f = <<>>
  <2>1. u = s
    BY <1>2, ConcatEmptySeq
  <2> QED BY <2>1 DEF CutFragment
<1>3. CASE f # <<>>
  <2>1. Len(f) # 0 /\ f[1] = "#"
    BY <1>3
  <2>2. /\ u \in Seq(Tokens) /\ Len(u) = n + Len(f)
        /\ \A i \in 1..(n + Len(f)) : u[i] = IF i <= n THEN s[i] ELSE f[i - n]
    BY ConcatProperties
  <2>3. DOMAIN u = 1..(n + Len(f))
    BY <2>2
  <2>4. SubSeq(u, 1, n) = s
    <3>1. CASE n = 0
      <4>1. s = <<>> /\ SubSeq(u, 1, 0) = <<>>
        BY <3>1, SubSeqEmpty
      <4> QED BY <3>1, <4>1
    <3>2. CASE n # 0
      <4>1. 1 \in 1..Len(s) /\ n \in 1..Len(s)
        BY <1>1, <3>2
      <4>2. SubSeq(u, 1, n) = SubSeq(s, 1, n)
        BY <4>1, SubSeqOfConcat1
      <4> QED BY <4>2, SubSeqFull
    <3> QED BY <3>1, <3>2
  <2>5. \A i \in 1..n : s[i] # "#"
    BY DEF At
  <2> HIDE DEF u, n
  <2>6. n + 1 \in At(u, "#")
    <3>1. n + 1 \in 1..(n + Len(f)) /\ ~(n + 1 <= n) /\ (n + 1) - n = 1
      BY <1>1, <2>1
    <3> QED BY <2>1, <2>2, <2>3, <3>1 DEF At
  <2>7. \A i \in At(u, "#") : n + 1 <= i
    <3> SUFFICES ASSUME NEW i \in 1..(n + Len(f)), u[i] = "#", i <= n PROVE FALSE
      BY <1>1, <2>3 DEF At
    <3>1. i \in 1..n
      BY <1>1
    <3> QED BY <2>2, <2>5, <3>1
  <2>8. At(u, "#") \in SUBSET (1..(n + Len(f))) /\ n + Len(f) \in Nat
    BY <1>1, <2>3 DEF At
  <2>9. /\ Min(At(u, "#")) \in At(u, "#")
        /\ \A m \in At(u, "#") : Min(At(u, "#")) <= m
    BY <2>6, <2>8, Ends
  <2>10. Min(At(u, "#")) = n + 1
    <3> DEFINE k == Min(At(u, "#"))
    <3>1. k <= n + 1 /\ n + 1 <= k /\ k \in Int
      BY <2>6, <2>7, <2>8, <2>9
    <3> HIDE DEF k
    <3>2. k = n + 1
      BY <1>1, <3>1
    <3> QED BY <3>2 DEF k
  <2>11. (n + 1) - 1 = n
    BY <1>1
  <2> QED BY <2>4, <2>6, <2>10, <2>11 DEF CutFragment, u
<1> QED BY <1>2, <1>3

\* In lower case, a sequence is as long, and each token is the one in lower case.
LEMMA LowerTyped ==
    ASSUME NEW s \in Seq(Tokens)
    PROVE  /\ ToLower(s) \in Seq(Tokens) /\ Len(ToLower(s)) = Len(s)
           /\ \A i \in 1..Len(s) : ToLower(s)[i] =
                IF s[i] \in DOMAIN LowerCase THEN LowerCase[s[i]] ELSE s[i]
<1> DEFINE low(t) == IF t \in DOMAIN LowerCase THEN LowerCase[t] ELSE t
<1>1. \A t \in Tokens : low(t) \in Tokens
  BY SeparatorsAre
<1>2. DOMAIN s = 1..Len(s) /\ Len(s) \in Nat /\ \A i \in 1..Len(s) : s[i] \in Tokens
  OBVIOUS
<1> HIDE DEF low
<1>3. ToLower(s) = [i \in 1..Len(s) |-> low(s[i])]
  BY <1>2 DEF ToLower, low
<1>4. \A i \in 1..Len(s) : low(s[i]) \in Tokens
  BY <1>1, <1>2
<1>5. ToLower(s) \in [1..Len(s) -> Tokens]
  BY <1>3, <1>4
<1>6. ToLower(s) \in Seq(Tokens)
  BY <1>2, <1>5, SeqDef
<1>7. Len(ToLower(s)) = Len(s)
  BY <1>2, <1>5, <1>6
<1> QED BY <1>3, <1>6, <1>7 DEF low

\* In lower case, what is put together of two parts is the parts in lower case.
LEMMA LowerConcat ==
    ASSUME NEW s \in Seq(Tokens), NEW t \in Seq(Tokens)
    PROVE  ToLower(s \o t) = ToLower(s) \o ToLower(t)
<1> DEFINE n == Len(s)
           m == Len(t)
           x == ToLower(s)
           y == ToLower(t)
           low(a) == IF a \in DOMAIN LowerCase THEN LowerCase[a] ELSE a
<1>1. /\ s \o t \in Seq(Tokens) /\ Len(s \o t) = n + m
      /\ \A i \in 1..(n + m) : (s \o t)[i] = IF i <= n THEN s[i] ELSE t[i - n]
  BY ConcatProperties
<1>2. /\ x \in Seq(Tokens) /\ Len(x) = n /\ \A i \in 1..n : x[i] = low(s[i])
      /\ y \in Seq(Tokens) /\ Len(y) = m /\ \A i \in 1..m : y[i] = low(t[i])
  BY LowerTyped
<1>3. /\ ToLower(s \o t) \in Seq(Tokens) /\ Len(ToLower(s \o t)) = n + m
      /\ \A i \in 1..(n + m) : ToLower(s \o t)[i] = low((s \o t)[i])
  <2>1. /\ ToLower(s \o t) \in Seq(Tokens) /\ Len(ToLower(s \o t)) = Len(s \o t)
        /\ \A i \in 1..Len(s \o t) : ToLower(s \o t)[i] = low((s \o t)[i])
    BY <1>1, LowerTyped
  <2> QED BY <1>1, <2>1
<1>4. n \in Nat /\ m \in Nat
  OBVIOUS
<1>5. /\ x \o y \in Seq(Tokens) /\ Len(x \o y) = n + m
      /\ \A i \in 1..(n + m) : (x \o y)[i] = IF i <= n THEN x[i] ELSE y[i - n]
  <2>1. /\ x \o y \in Seq(Tokens) /\ Len(x \o y) = Len(x) + Len(y)
        /\ \A i \in 1..(Len(x) + Len(y)) :
            (x \o y)[i] = IF i <= Len(x) THEN x[i] ELSE y[i - Len(x)]
    BY <1>2, ConcatProperties
  <2> QED BY <1>2, <2>1
<1> HIDE DEF n, m, x, y, low
<1>6. ASSUME NEW i \in 1..(n + m) PROVE ToLower(s \o t)[i] = (x \o y)[i]
  <2>1. CASE i <= n
    <3>1. i \in 1..n
      BY <1>4, <2>1
    <3>2. (s \o t)[i] = s[i] /\ (x \o y)[i] = x[i]
      BY <1>1, <1>5, <2>1
    <3> QED BY <1>2, <1>3, <3>1, <3>2
  <2>2. CASE ~(i <= n)
    <3>1. i - n \in 1..m
      BY <1>4, <2>2
    <3> QED BY <1>1, <1>2, <1>3, <1>5, <2>2, <3>1
  <2> QED BY <2>1, <2>2
<1>7. ToLower(s \o t) = x \o y
  BY <1>3, <1>5, <1>6, SeqEqual
<1> QED BY <1>7 DEF x, y

\* A prefix that may be there, before what begins otherwise.
LEMMA PrefixBefore ==
    ASSUME NEW c \in Tokens, NEW o \in Optional(c), NEW s \in Seq(Tokens), s # <<>>, s[1] # c
    PROVE  TrimPrefix(o \o s, c) = s
<1>1. TrimPrefix(s, c) = s
  <2>1. Head(s) = s[1]
    OBVIOUS
  <2> QED BY <2>1 DEF TrimPrefix
<1>2. CASE o = <<>>
  BY <1>1, <1>2, ConcatEmptySeq
<1>3. CASE o = <<c>>
  <2> DEFINE u == <<c>> \o s
  <2>1. <<c>> \in Seq(Tokens) /\ Len(<<c>>) = 1 /\ <<c>>[1] = c
    OBVIOUS
  <2>2. /\ u \in Seq(Tokens) /\ Len(u) = 1 + Len(s)
        /\ \A i \in 1..(1 + Len(s)) : u[i] = IF i <= 1 THEN <<c>>[i] ELSE s[i - 1]
    BY <2>1, ConcatProperties
  <2> HIDE DEF u
  <2>3. u # <<>> /\ Head(u) = c
    BY <2>1, <2>2, HeadTailProperties
  <2>4. /\ Tail(u) \in Seq(Tokens) /\ Len(Tail(u)) = Len(s)
        /\ \A i \in 1..Len(s) : Tail(u)[i] = u[i + 1]
    BY <2>2, <2>3, HeadTailProperties
  <2>5. \A i \in 1..Len(s) : Tail(u)[i] = s[i]
    <3> TAKE i \in 1..Len(s)
    <3>1. i + 1 \in 1..(1 + Len(s)) /\ ~(i + 1 <= 1) /\ (i + 1) - 1 = i
      OBVIOUS
    <3> QED BY <2>2, <2>4, <3>1
  <2>6. Tail(u) = s
    BY <2>4, <2>5, SeqEqual
  <2> QED BY <1>3, <2>3, <2>6 DEF TrimPrefix, u
<1> QED BY <1>2, <1>3 DEF Optional

\* A suffix that may be there, after what ends otherwise.
LEMMA SuffixAfter ==
    ASSUME NEW c \in Tokens, NEW o \in Optional(c), NEW s \in Seq(Tokens), s # <<>>,
           s[Len(s)] # c
    PROVE  TrimSuffix(s \o o, c) = s
<1>1. CASE o = <<>>
  <2>1. s \o o = s
    BY <1>1, ConcatEmptySeq
  <2> QED BY <2>1 DEF TrimSuffix
<1>2. CASE o = <<c>>
  <2> DEFINE u == s \o <<c>>
             n == Len(s)
  <2>1. <<c>> \in Seq(Tokens) /\ <<c>> # <<>> /\ Len(<<c>>) = 1 /\ <<c>>[1] = c
    OBVIOUS
  <2>2. u # <<>> /\ u[Len(u)] = c /\ Len(u) = n + 1
    BY <2>1, EndsOfConcat, ConcatProperties
  <2>3. n \in Nat /\ n # 0
    OBVIOUS
  <2>4. 1 \in 1..n /\ n \in 1..n /\ (n + 1) - 1 = n
    BY <2>3
  <2>5. SubSeq(u, 1, n) = s
    BY <2>1, <2>4, SubSeqOfConcat1, SubSeqFull
  <2>6. Len(u) - 1 = n
    BY <2>2, <2>4
  <2> HIDE DEF u, n
  <2>7. TrimSuffix(u, c) = s
    BY <2>2, <2>5, <2>6 DEF TrimSuffix
  <2> QED BY <1>2, <2>7 DEF u
<1> QED BY <1>1, <1>2 DEF Optional
-----------------------------------------------------------------------------
(* ... and on what it takes nothing from.                                     *)

\* Spaces that are not there were not taken away.
LEMMA TrimShorter ==
    ASSUME NEW s \in Seq(Tokens)
    PROVE  /\ Trim(s) \in Seq(Tokens) /\ Len(Trim(s)) <= Len(s)
           /\ s # <<>> /\ Len(Trim(s)) = Len(s) =>
                Trim(s) = s /\ s[1] # Space /\ s[Len(s)] # Space
<1> DEFINE kept == DOMAIN s \ At(s, Space)
           n == Len(s)
           a == Min(kept)
           z == Max(kept)
<1>1. n \in Nat /\ DOMAIN s = 1..n /\ (s # <<>> => n # 0)
  OBVIOUS
<1>2. CASE kept = {}
  <2>1. Trim(s) = <<>> /\ Len(<<>>) = 0 /\ <<>> \in Seq(Tokens)
    BY <1>2, EmptySeq DEF Trim
  <2> HIDE DEF kept
  <2> QED BY <1>1, <2>1
<1>3. CASE kept # {}
  <2>1. Trim(s) = SubSeq(s, a, z)
    BY <1>3 DEF Trim
  <2>2. kept \in SUBSET (1..n)
    BY <1>1
  <2>3. \A i \in kept : s[i] # Space
    BY DEF At
  <2> HIDE DEF kept
  <2>4. a \in kept /\ z \in kept /\ a <= z
    BY <1>1, <1>3, <2>2, Ends
  <2> HIDE DEF a, z
  <2>5. a \in 1..n /\ z \in 1..n /\ s[a] # Space /\ s[z] # Space
    BY <2>2, <2>3, <2>4
  <2>6. SubSeq(s, a, z) \in Seq(Tokens) /\ Len(SubSeq(s, a, z)) = z - a + 1
    <3>1. \A i \in a..z : s[i] \in Tokens
      <4>1. \A i \in a..z : i \in 1..n
        BY <1>1, <2>5
      <4> QED BY <4>1
    <3>2. a \in Int /\ z \in Int
      BY <1>1, <2>5
    <3> QED BY <2>4, <3>1, <3>2, SubSeqProperties
  <2> HIDE DEF n
  <2>7. z - a + 1 <= n /\ (z - a + 1 = n => a = 1 /\ z = n)
    BY <1>1, <2>4, <2>5
  <2>8. SubSeq(s, 1, n) = s
    BY SubSeqFull DEF n
  <2> QED BY <2>1, <2>5, <2>6, <2>7, <2>8 DEF n
<1> QED BY <1>2, <1>3

\* A fragment that is not there was not cut.
LEMMA CutShorter ==
    ASSUME NEW s \in Seq(Tokens)
    PROVE  /\ CutFragment(s) \in Seq(Tokens) /\ Len(CutFragment(s)) <= Len(s)
           /\ Len(CutFragment(s)) = Len(s) => CutFragment(s) = s /\ At(s, "#") = {}
<1> DEFINE H == At(s, "#")
           n == Len(s)
           k == Min(H)
<1>1. n \in Nat /\ DOMAIN s = 1..n
  OBVIOUS
<1>2. CASE H = {}
  BY <1>1, <1>2 DEF CutFragment
<1>3. CASE H # {}
  <2>1. CutFragment(s) = SubSeq(s, 1, k - 1)
    BY <1>3 DEF CutFragment
  <2>2. H \in SUBSET (1..n)
    BY <1>1 DEF At
  <2> HIDE DEF H
  <2>3. k \in 1..n
    BY <1>1, <1>3, <2>2, Ends
  <2> HIDE DEF k
  <2>4. SubSeq(s, 1, k - 1) \in Seq(Tokens)
        /\ Len(SubSeq(s, 1, k - 1)) = IF 1 <= k - 1 THEN (k - 1) - 1 + 1 ELSE 0
    <3>1. \A i \in 1..(k - 1) : s[i] \in Tokens
      <4>1. \A i \in 1..(k - 1) : i \in 1..n
        BY <1>1, <2>3
      <4> QED BY <4>1
    <3>2. 1 \in Int /\ k - 1 \in Int
      BY <1>1, <2>3
    <3> QED BY <3>1, <3>2, SubSeqProperties
  <2> HIDE DEF n
  <2>5. Len(SubSeq(s, 1, k - 1)) <= n /\ Len(SubSeq(s, 1, k - 1)) # n
    BY <1>1, <2>3, <2>4
  <2> QED BY <2>1, <2>4, <2>5 DEF n
<1> QED BY <1>2, <1>3

\* A prefix that is not there was not taken away.
LEMMA PrefixShorter ==
    ASSUME NEW s \in Seq(Tokens), NEW c
    PROVE  /\ TrimPrefix(s, c) \in Seq(Tokens) /\ Len(TrimPrefix(s, c)) <= Len(s)
           /\ Len(TrimPrefix(s, c)) = Len(s) => TrimPrefix(s, c) = s /\ (s # <<>> => s[1] # c)
<1>1. CASE s # <<>> /\ Head(s) = c
  <2>1. TrimPrefix(s, c) = Tail(s)
    BY <1>1 DEF TrimPrefix
  <2>2. Tail(s) \in Seq(Tokens) /\ Len(Tail(s)) = Len(s) - 1 /\ Len(s) \in Nat
    BY <1>1, HeadTailProperties
  <2>3. ASSUME NEW n \in Nat, NEW m, m = n - 1 PROVE m <= n /\ m # n
    BY <2>3
  <2>4. Len(Tail(s)) <= Len(s) /\ Len(Tail(s)) # Len(s)
    BY <2>2, <2>3
  <2> QED BY <2>1, <2>2, <2>4
<1>2. CASE ~(s # <<>> /\ Head(s) = c)
  <2>1. TrimPrefix(s, c) = s
    BY <1>2 DEF TrimPrefix
  <2>2. Len(s) \in Nat /\ (s # <<>> => Head(s) = s[1])
    OBVIOUS
  <2> QED BY <1>2, <2>1, <2>2
<1> QED BY <1>1, <1>2

\* Nor a suffix.
LEMMA SuffixShorter ==
    ASSUME NEW s \in Seq(Tokens), NEW c
    PROVE  /\ TrimSuffix(s, c) \in Seq(Tokens) /\ Len(TrimSuffix(s, c)) <= Len(s)
           /\ Len(TrimSuffix(s, c)) = Len(s) =>
                TrimSuffix(s, c) = s /\ (s # <<>> => s[Len(s)] # c)
<1>1. CASE s # <<>> /\ s[Len(s)] = c
  <2> DEFINE n == Len(s)
  <2>1. TrimSuffix(s, c) = SubSeq(s, 1, n - 1)
    BY <1>1 DEF TrimSuffix
  <2>2. n \in Nat /\ n # 0
    BY <1>1
  <2>3. SubSeq(s, 1, n - 1) \in Seq(Tokens)
        /\ Len(SubSeq(s, 1, n - 1)) = IF 1 <= n - 1 THEN (n - 1) - 1 + 1 ELSE 0
    <3>1. \A i \in 1..n : s[i] \in Tokens
      OBVIOUS
    <3> HIDE DEF n
    <3>2. \A i \in 1..(n - 1) : s[i] \in Tokens
      BY <2>2, <3>1
    <3>3. 1 \in Int /\ n - 1 \in Int
      BY <2>2
    <3> QED BY <3>2, <3>3, SubSeqProperties
  <2> HIDE DEF n
  <2>4. Len(SubSeq(s, 1, n - 1)) <= n /\ Len(SubSeq(s, 1, n - 1)) # n
    BY <2>2, <2>3
  <2> QED BY <2>1, <2>3, <2>4 DEF n
<1>2. CASE ~(s # <<>> /\ s[Len(s)] = c)
  <2>1. TrimSuffix(s, c) = s
    BY <1>2 DEF TrimSuffix
  <2> QED BY <1>2, <2>1
<1> QED BY <1>1, <1>2
-----------------------------------------------------------------------------
(* NormalizeURL.                                                              *)

\* A path that is its own normal form is one that nothing is taken from: every
\* statement leaves a sequence that is no longer, so each of them leaves it.
LEMMA OwnNormalForm ==
    ASSUME NEW p \in Seq(Tokens), p # <<>>, NormalizeURL(p) = p
    PROVE  Plain(p)
<1> DEFINE s1 == Trim(p)
           s2 == CutFragment(s1)
           s3 == ToLower(s2)
           s4 == TrimPrefix(s3, "http://")
           s5 == TrimPrefix(s4, "https://")
           s6 == TrimPrefix(s5, "www.")
           s7 == TrimSuffix(s6, "/")
           s8 == TrimSuffix(s7, ".git")
<1>1. s8 = p
  BY DEF NormalizeURL
<1>2. /\ s1 \in Seq(Tokens) /\ Len(s1) <= Len(p)
      /\ Len(s1) = Len(p) => s1 = p /\ p[1] # Space /\ p[Len(p)] # Space
  BY TrimShorter
<1> HIDE DEF s1
<1>3. /\ s2 \in Seq(Tokens) /\ Len(s2) <= Len(s1)
      /\ Len(s2) = Len(s1) => s2 = s1 /\ At(s1, "#") = {}
  BY <1>2, CutShorter
<1> HIDE DEF s2
<1>4. s3 \in Seq(Tokens) /\ Len(s3) = Len(s2)
  BY <1>3, LowerTyped
<1> HIDE DEF s3
<1>5. /\ s4 \in Seq(Tokens) /\ Len(s4) <= Len(s3)
      /\ Len(s4) = Len(s3) => s4 = s3 /\ (s3 # <<>> => s3[1] # "http://")
  BY <1>4, PrefixShorter
<1> HIDE DEF s4
<1>6. /\ s5 \in Seq(Tokens) /\ Len(s5) <= Len(s4)
      /\ Len(s5) = Len(s4) => s5 = s4 /\ (s4 # <<>> => s4[1] # "https://")
  BY <1>5, PrefixShorter
<1> HIDE DEF s5
<1>7. /\ s6 \in Seq(Tokens) /\ Len(s6) <= Len(s5)
      /\ Len(s6) = Len(s5) => s6 = s5 /\ (s5 # <<>> => s5[1] # "www.")
  BY <1>6, PrefixShorter
<1> HIDE DEF s6
<1>8. /\ s7 \in Seq(Tokens) /\ Len(s7) <= Len(s6)
      /\ Len(s7) = Len(s6) => s7 = s6 /\ (s6 # <<>> => s6[Len(s6)] # "/")
  BY <1>7, SuffixShorter
<1> HIDE DEF s7
<1>9. /\ s8 \in Seq(Tokens) /\ Len(s8) <= Len(s7)
      /\ Len(s8) = Len(s7) => s8 = s7 /\ (s7 # <<>> => s7[Len(s7)] # ".git")
  BY <1>8, SuffixShorter
<1> HIDE DEF s8
<1>10. /\ Len(s1) = Len(p) /\ Len(s2) = Len(s1) /\ Len(s4) = Len(s3) /\ Len(s5) = Len(s4)
       /\ Len(s6) = Len(s5) /\ Len(s7) = Len(s6) /\ Len(s8) = Len(s7)
  <2>1. ASSUME NEW n \in Nat, NEW n1 \in Nat, NEW n2 \in Nat, NEW n4 \in Nat, NEW n5 \in Nat,
               NEW n6 \in Nat, NEW n7 \in Nat,
               n1 <= n, n2 <= n1, n4 <= n2, n5 <= n4, n6 <= n5, n7 <= n6, n <= n7
        PROVE  n1 = n /\ n2 = n /\ n4 = n /\ n5 = n /\ n6 = n /\ n7 = n
    BY <2>1
  <2>2. /\ Len(p) \in Nat /\ Len(s1) \in Nat /\ Len(s2) \in Nat /\ Len(s4) \in Nat
        /\ Len(s5) \in Nat /\ Len(s6) \in Nat /\ Len(s7) \in Nat
    BY <1>2, <1>3, <1>5, <1>6, <1>7, <1>8, LenProperties
  <2>3. /\ Len(s1) = Len(p) /\ Len(s2) = Len(p) /\ Len(s4) = Len(p)
        /\ Len(s5) = Len(p) /\ Len(s6) = Len(p) /\ Len(s7) = Len(p)
    BY <1>1, <1>2, <1>3, <1>4, <1>5, <1>6, <1>7, <1>8, <1>9, <2>1, <2>2
  <2> QED BY <1>1, <1>4, <2>3
<1>11. s7 = p /\ s6 = p /\ s5 = p /\ s4 = p /\ s3 = p /\ s2 = p /\ s1 = p
  BY <1>1, <1>2, <1>3, <1>5, <1>6, <1>7, <1>8, <1>9, <1>10
<1>12. ToLower(p) = p
  BY <1>11 DEF s3
<1>13. p[1] \notin {Space, "http://", "https://", "www."} /\ p[Len(p)] \notin {Space, "/", ".git"}
  BY <1>2, <1>5, <1>6, <1>7, <1>8, <1>9, <1>10, <1>11
<1> QED BY <1>3, <1>10, <1>11, <1>12, <1>13 DEF Plain

\* After the path ...
LEMMA PlainEnd ==
    ASSUME NEW p, Plain(p), NEW git \in Optional(".git"), NEW slash \in Optional("/")
    PROVE  /\ (p \o git) \o slash \in Seq(Tokens) /\ (p \o git) \o slash # <<>>
           /\ ((p \o git) \o slash)[1] = p[1]
           /\ ((p \o git) \o slash)[Len((p \o git) \o slash)] # Space
           /\ TrimSuffix(TrimSuffix((p \o git) \o slash, "/"), ".git") = p
<1>1. /\ p \in Seq(Tokens) /\ p # <<>> /\ p[Len(p)] \notin {Space, "/", ".git"}
  BY DEF Plain
<1>2. /\ git \in Seq(Tokens) /\ slash \in Seq(Tokens)
      /\ git = <<>> \/ (git # <<>> /\ git[Len(git)] = ".git")
      /\ slash = <<>> \/ (slash # <<>> /\ slash[Len(slash)] = "/")
  <2>1. ASSUME NEW c \in Tokens, NEW o \in Optional(c)
        PROVE  o \in Seq(Tokens) /\ (o = <<>> \/ (o # <<>> /\ o[Len(o)] = c))
    BY <2>1, OptionalIs
  <2> QED BY <2>1, SeparatorsAre
<1> DEFINE q == p \o git
           r == q \o slash
<1>3. q \in Seq(Tokens) /\ q # <<>> /\ q[1] = p[1] /\ (git # <<>> => q[Len(q)] = git[Len(git)])
  BY <1>1, <1>2, EndsOfConcat
<1>4. git = <<>> => q = p
  BY <1>1, ConcatEmptySeq
<1>5. TrimSuffix(q, ".git") = p
  BY <1>1, SeparatorsAre, SuffixAfter
<1> HIDE DEF q
<1>6. q[Len(q)] \notin {Space, "/"}
  BY <1>1, <1>2, <1>3, <1>4, SpaceIs
<1>7. r \in Seq(Tokens) /\ r # <<>> /\ r[1] = q[1]
      /\ (slash # <<>> => r[Len(r)] = slash[Len(slash)])
  BY <1>2, <1>3, EndsOfConcat
<1>8. slash = <<>> => r = q
  BY <1>3, ConcatEmptySeq
<1>9. TrimSuffix(r, "/") = q
  BY <1>3, <1>6, SeparatorsAre, SuffixAfter
<1> HIDE DEF r
<1>10. r[Len(r)] # Space
  BY <1>2, <1>6, <1>7, <1>8, SpaceIs
<1> QED BY <1>3, <1>5, <1>7, <1>9, <1>10 DEF q, r

\* ... and before it.
LEMMA PlainBegin ==
    ASSUME NEW q \in Seq(Tokens), q # <<>>, q[1] \notin {"http://", "https://", "www."},
           NEW scheme \in {<<>>, <<"http://">>, <<"https://">>}, NEW www \in Optional("www.")
    PROVE  TrimPrefix(TrimPrefix(TrimPrefix(scheme \o (www \o q), "http://"), "https://"), "www.") = q
<1> DEFINE r == www \o q
<1>1. /\ www \in Seq(Tokens) /\ (www = <<>> \/ (www # <<>> /\ www[1] = "www."))
  BY SeparatorsAre, OptionalIs
<1>2. r \in Seq(Tokens) /\ r # <<>> /\ (www # <<>> => r[1] = www[1])
  BY <1>1, EndsOfConcat
<1>3. www = <<>> => r = q
  BY ConcatEmptySeq
<1>4. TrimPrefix(r, "www.") = q
  BY SeparatorsAre, PrefixBefore
<1> HIDE DEF r
<1>5. r[1] \notin {"http://", "https://"}
  BY <1>1, <1>2, <1>3
<1>6. <<>> \o r = r
  BY <1>2, ConcatEmptySeq
<1>7. TrimPrefix(r, "https://") = r /\ TrimPrefix(r, "http://") = r
  <2>1. <<>> \in Optional("http://") /\ <<>> \in Optional("https://")
    BY DEF Optional
  <2>2. "http://" \in Tokens /\ "https://" \in Tokens
    BY SeparatorsAre
  <2>3. TrimPrefix(<<>> \o r, "https://") = r
    BY <1>2, <1>5, <2>1, <2>2, PrefixBefore
  <2>4. TrimPrefix(<<>> \o r, "http://") = r
    BY <1>2, <1>5, <2>1, <2>2, PrefixBefore
  <2> QED BY <1>6, <2>3, <2>4
<1>8. CASE scheme = <<>>
  BY <1>4, <1>6, <1>7, <1>8 DEF r
<1>9. CASE scheme = <<"http://">>
  <2>1. TrimPrefix(scheme \o r, "http://") = r
    <3>1. scheme \in Optional("http://")
      BY <1>9 DEF Optional
    <3> QED BY <1>2, <1>5, <3>1, SeparatorsAre, PrefixBefore
  <2> QED BY <1>4, <1>7, <2>1 DEF r
<1>10. CASE scheme = <<"https://">>
  <2> DEFINE v == scheme \o r
  <2>1. TrimPrefix(v, "https://") = r
    <3>1. scheme \in Optional("https://")
      BY <1>10 DEF Optional
    <3> QED BY <1>2, <1>5, <3>1, SeparatorsAre, PrefixBefore
  <2>2. v \in Seq(Tokens) /\ v # <<>> /\ v[1] = "https://"
    <3>1. scheme \in Seq(Tokens) /\ scheme # <<>> /\ scheme[1] = "https://"
      BY <1>10, SeparatorsAre
    <3> QED BY <1>2, <3>1, EndsOfConcat
  <2>3. TrimPrefix(v, "http://") = v
    <3>1. Head(v) = v[1]
      BY <2>2
    <3> HIDE DEF v
    <3> QED BY <2>2, <3>1 DEF TrimPrefix
  <2> QED BY <1>4, <2>1, <2>3 DEF r
<1> QED BY <1>8, <1>9, <1>10

\* In lower case, the scheme is one of the two that are looked for.
LEMMA LowerIs ==
    /\ ToLower(<<>>) = <<>>
    /\ \A c \in Tokens \ DOMAIN LowerCase : \A o \in Optional(c) : ToLower(o) = o
    /\ ToLower(<<"HTTPS://">>) = <<"https://">>
<1>1. ASSUME NEW c \in Tokens
      PROVE  /\ ToLower(<<c>>) \in Seq(Tokens) /\ Len(ToLower(<<c>>)) = 1
             /\ ToLower(<<c>>)[1] = IF c \in DOMAIN LowerCase THEN LowerCase[c] ELSE c
  <2>1. <<c>> \in Seq(Tokens) /\ Len(<<c>>) = 1 /\ <<c>>[1] = c /\ 1 \in 1..1
    OBVIOUS
  <2> DEFINE s == <<c>>
  <2>2. s \in Seq(Tokens) /\ Len(s) = 1 /\ s[1] = c /\ 1 \in 1..1
    BY <2>1
  <2> HIDE DEF s
  <2>3. /\ ToLower(s) \in Seq(Tokens) /\ Len(ToLower(s)) = 1
        /\ ToLower(s)[1] = IF c \in DOMAIN LowerCase THEN LowerCase[c] ELSE c
    BY <2>2, LowerTyped
  <2> QED BY <2>3 DEF s
<1>2. ASSUME NEW s \in Seq(Tokens), NEW c, Len(s) = 1, s[1] = c
      PROVE  s = <<c>>
  BY <1>2
<1>3. ToLower(<<>>) = <<>>
  <2>1. <<>> \in Seq(Tokens) /\ Len(<<>>) = 0
    BY EmptySeq
  <2>2. ToLower(<<>>) \in Seq(Tokens) /\ Len(ToLower(<<>>)) = 0
    BY <2>1, LowerTyped
  <2> QED BY <2>2
<1>4. ASSUME NEW c \in Tokens \ DOMAIN LowerCase PROVE ToLower(<<c>>) = <<c>>
  BY <1>1, <1>2
<1>5. ToLower(<<"HTTPS://">>) = <<"https://">>
  BY <1>1, <1>2, SeparatorsAre
<1> QED BY <1>3, <1>4, <1>5 DEF Optional

\* No part but the fragment has a "#".
LEMMA NoHash ==
    /\ \A s, t \in Seq(Tokens) : At(s, "#") = {} /\ At(t, "#") = {} => At(s \o t, "#") = {}
    /\ \A c \in Tokens : c # "#" => \A o \in Optional(c) : At(o, "#") = {}
<1>1. ASSUME NEW s \in Seq(Tokens), NEW t \in Seq(Tokens), At(s, "#") = {}, At(t, "#") = {}
      PROVE  At(s \o t, "#") = {}
  <2> DEFINE u == s \o t
             n == Len(s)
             m == Len(t)
  <2>1. /\ u \in Seq(Tokens) /\ Len(u) = n + m
        /\ \A i \in 1..(n + m) : u[i] = IF i <= n THEN s[i] ELSE t[i - n]
    BY ConcatProperties
  <2>2. /\ n \in Nat /\ m \in Nat /\ DOMAIN u = 1..(n + m)
        /\ \A i \in 1..n : s[i] # "#"
        /\ \A i \in 1..m : t[i] # "#"
    BY <1>1, <2>1 DEF At
  <2> HIDE DEF u, n, m
  <2>3. ASSUME NEW i \in 1..(n + m) PROVE u[i] # "#"
    <3>1. CASE i <= n
      <4>1. i \in 1..n /\ u[i] = s[i]
        BY <2>1, <2>2, <3>1
      <4> QED BY <2>2, <4>1
    <3>2. CASE ~(i <= n)
      <4>1. i - n \in 1..m /\ u[i] = t[i - n]
        BY <2>1, <2>2, <3>2
      <4> QED BY <2>2, <4>1
    <3> QED BY <3>1, <3>2
  <2> QED BY <2>2, <2>3 DEF At, u
<1>2. ASSUME NEW c \in Tokens, c # "#", NEW o \in Optional(c) PROVE At(o, "#") = {}
  <2>1. o \in Seq(Tokens) /\ \A i \in 1..Len(o) : o[i] = c
    BY <1>2, OptionalIs
  <2>2. DOMAIN o = 1..Len(o)
    BY <2>1
  <2> QED BY <1>2, <2>1, <2>2 DEF At
<1> QED BY <1>1, <1>2

\* A URL as it is written, and by what the statements take: the path with what
\* follows it, with what precedes it, with the fragment, with the spaces.
Written(w, p) ==
    w.space \o w.scheme \o w.www \o p \o w.git \o w.slash \o w.fragment \o w.space
Grouped(w, p) ==
    (w.space \o ((w.scheme \o (w.www \o ((p \o w.git) \o w.slash))) \o w.fragment)) \o w.space

Cat(s, t) == s \o t
URLs == Seq(Tokens)

\* Putting together is associative.
LEMMA CatIs ==
    \A s, t, u \in URLs : Cat(s, t) \in URLs /\ Cat(Cat(s, t), u) = Cat(s, Cat(t, u))
<1> USE DEF URLs
<1> TAKE s, t, u \in URLs
<1> QED BY ConcatAssociative DEF Cat

\* A spelling, as what is before the path, the path and what is after it.
LEMMA Regroup ==
    ASSUME NEW w, NEW d \in URLs,
           w.space \in URLs, w.scheme \in URLs, w.www \in URLs, w.git \in URLs, w.slash \in URLs,
           w.fragment \in URLs
    PROVE  Written(w, d) = Grouped(w, d)
<1> DEFINE a == w.space
           b == w.scheme
           c == w.www
           e == w.git
           f == w.slash
           g == w.fragment
<1>0. a \in URLs /\ b \in URLs /\ c \in URLs /\ e \in URLs /\ f \in URLs /\ g \in URLs
  OBVIOUS
<1> HIDE DEF a, b, c, e, f, g
<1> DEFINE x == Cat(Cat(a, b), c)
           q == Cat(Cat(d, e), f)
           cq == Cat(c, q)
           r == Cat(b, cq)
<1>1. /\ x \in URLs /\ q \in URLs /\ cq \in URLs /\ r \in URLs
      /\ Cat(d, e) \in URLs /\ Cat(b, c) \in URLs
  BY <1>0, CatIs
<1>2. Cat(Cat(Cat(x, d), e), f) = Cat(x, q)
  <2> HIDE DEF x
  <2>1. Cat(Cat(x, d), e) = Cat(x, Cat(d, e))
    BY <1>0, <1>1, CatIs
  <2> QED BY <1>0, <1>1, <2>1, CatIs
<1>3. Cat(x, q) = Cat(a, r)
  <2> HIDE DEF q
  <2>1. x = Cat(a, Cat(b, c))
    BY <1>0, CatIs
  <2>2. Cat(Cat(a, Cat(b, c)), q) = Cat(a, Cat(Cat(b, c), q))
    BY <1>0, <1>1, CatIs
  <2>3. Cat(Cat(b, c), q) = r
    BY <1>0, <1>1, CatIs
  <2> QED BY <2>1, <2>2, <2>3
<1>4. Cat(Cat(a, r), g) = Cat(a, Cat(r, g))
  <2> HIDE DEF r
  <2> QED BY <1>0, <1>1, CatIs
<1>5. Written(w, d) = Cat(Cat(Cat(Cat(Cat(x, d), e), f), g), a)
  BY DEF Written, Cat, a, b, c, e, f, g
<1>6. Grouped(w, d) = Cat(Cat(a, Cat(r, g)), a)
  BY DEF Grouped, Cat, a, b, c, e, f, g
<1> HIDE DEF x, q, r
<1> QED BY <1>2, <1>3, <1>4, <1>5, <1>6

\* Of a plain path, whatever it is spelled as, each statement takes away what it
\* looks for and leaves the rest.
LEMMA PlainSpelled ==
    ASSUME NEW p, Plain(p),
           NEW w \in Ways
    PROVE  NormalizeURL(Written(w, p)) = p
<1> DEFINE space == w.space
           scheme == w.scheme
           www == w.www
           git == w.git
           slash == w.slash
           fragment == w.fragment
<1>0. /\ space \in Optional(Space) /\ scheme \in Schemes /\ www \in Optional("www.")
      /\ git \in Optional(".git") /\ slash \in Optional("/") /\ fragment \in Fragments
  BY DEF Ways
<1> HIDE DEF space, scheme, www, git, slash, fragment
<1> DEFINE q == (p \o git) \o slash
           wq == www \o q
           core == scheme \o wq
           body == core \o fragment
\* The parts.
<1>1. /\ p \in Seq(Tokens) /\ ToLower(p) = p /\ At(p, "#") = {}
      /\ p[1] \notin {Space, "http://", "https://", "www."}
  BY DEF Plain
<1>2. /\ www \in Seq(Tokens) /\ git \in Seq(Tokens) /\ slash \in Seq(Tokens)
      /\ www = <<>> \/ (www # <<>> /\ www[1] = "www.")
  BY <1>0, SeparatorsAre, OptionalIs
<1>3. /\ space \in Seq(Tokens) /\ scheme \in Seq(Tokens) /\ fragment \in Seq(Tokens)
      /\ fragment = <<>> \/ (fragment # <<>> /\ fragment[1] = "#" /\ fragment[Len(fragment)] = "/")
      /\ scheme = <<>> \/ (scheme # <<>> /\ scheme[1] \in {"http://", "HTTPS://"})
  <2>1. space \in Seq(Tokens)
    BY <1>0, SpaceIs, OptionalIs
  <2>2. scheme \in Seq(Tokens)
        /\ (scheme = <<>> \/ (scheme # <<>> /\ scheme[1] \in {"http://", "HTTPS://"}))
    <3>1. CASE scheme = <<>>
      BY <3>1, EmptySeq
    <3>2. CASE scheme = <<"http://">>
      BY <3>2, SeparatorsAre
    <3>3. CASE scheme = <<"HTTPS://">>
      BY <3>3, SeparatorsAre
    <3> QED BY <1>0, <3>1, <3>2, <3>3 DEF Schemes
  <2>3. /\ fragment \in Seq(Tokens)
        /\ fragment = <<>> \/ (fragment # <<>> /\ fragment[1] = "#" /\ fragment[Len(fragment)] = "/")
    <3>1. CASE fragment = <<>>
      BY <3>1, EmptySeq
    <3>2. CASE fragment = <<"#", "readme", "/">>
      BY <3>2, SeparatorsAre
    <3> QED BY <1>0, <3>1, <3>2 DEF Fragments
  <2> QED BY <2>1, <2>2, <2>3
\* What they make.
<1>4. /\ q \in Seq(Tokens) /\ q # <<>> /\ q[1] = p[1] /\ q[Len(q)] # Space
      /\ TrimSuffix(TrimSuffix(q, "/"), ".git") = p
  BY <1>0, PlainEnd
<1>5. p \o git \in Seq(Tokens)
  BY <1>1, <1>2, ConcatProperties
<1>6. ToLower(q) = q /\ At(q, "#") = {}
  <2>1. ToLower(git) = git /\ ToLower(slash) = slash /\ At(git, "#") = {} /\ At(slash, "#") = {}
    BY <1>0, SeparatorsAre, LowerIs, NoHash
  <2>2. ToLower(p \o git) = p \o git /\ At(p \o git, "#") = {}
    BY <1>0, <1>1, <1>2, <2>1, LowerConcat, NoHash
  <2> QED BY <1>0, <1>2, <1>5, <2>1, <2>2, LowerConcat, NoHash
<1>7. Written(w, p) = (space \o body) \o space
  <2>1. Written(w, p) = Grouped(w, p)
    BY <1>1, <1>2, <1>3, Regroup DEF URLs, space, scheme, www, git, slash, fragment
  <2>2. Grouped(w, p) = (space \o body) \o space
    BY DEF Grouped, space, scheme, www, git, slash, fragment
  <2> QED BY <2>1, <2>2
<1> HIDE DEF q
<1>8. /\ wq \in Seq(Tokens) /\ wq # <<>> /\ wq[1] # Space /\ wq[Len(wq)] # Space
      /\ ToLower(wq) = wq /\ At(wq, "#") = {}
  <2>1. wq \in Seq(Tokens) /\ wq # <<>> /\ wq[Len(wq)] = q[Len(q)]
    BY <1>2, <1>4, EndsOfConcat
  <2>2. wq[1] # Space
    <3>1. www # <<>> => wq[1] = www[1]
      BY <1>2, <1>4, EndsOfConcat
    <3>2. www = <<>> => wq = q
      BY <1>4, ConcatEmptySeq
    <3> HIDE DEF wq
    <3> QED BY <1>1, <1>2, <1>4, <3>1, <3>2, SpaceIs
  <2>3. ToLower(www) = www /\ At(www, "#") = {}
    BY <1>0, SeparatorsAre, LowerIs, NoHash
  <2>4. ToLower(wq) = wq /\ At(wq, "#") = {}
    BY <1>0, <1>2, <1>4, <1>6, <2>3, LowerConcat, NoHash
  <2> QED BY <1>4, <2>1, <2>2, <2>4
<1>9. TrimPrefix(TrimPrefix(TrimPrefix(ToLower(scheme) \o wq, "http://"), "https://"), "www.") = q
  <2>1. ToLower(scheme) \in {<<>>, <<"http://">>, <<"https://">>}
    <3>1. scheme = <<"http://">> => ToLower(scheme) = scheme
      <4>1. "http://" \in Tokens \ DOMAIN LowerCase
        BY SeparatorsAre
      <4> QED BY <1>0, <4>1, LowerIs DEF Optional
    <3> QED BY <1>0, <3>1, LowerIs DEF Schemes
  <2> QED BY <1>0, <1>1, <1>4, <2>1, PlainBegin
<1> HIDE DEF wq
<1>10. /\ core \in Seq(Tokens) /\ core # <<>> /\ core[1] # Space /\ core[Len(core)] # Space
       /\ ToLower(core) = ToLower(scheme) \o wq /\ At(core, "#") = {}
  <2>1. core \in Seq(Tokens) /\ core # <<>> /\ core[Len(core)] = wq[Len(wq)]
    BY <1>3, <1>8, EndsOfConcat
  <2>2. core[1] # Space
    <3>1. scheme # <<>> => core[1] = scheme[1]
      BY <1>3, <1>8, EndsOfConcat
    <3>2. scheme = <<>> => core = wq
      BY <1>8, ConcatEmptySeq
    <3> HIDE DEF core
    <3> QED BY <1>3, <1>8, <3>1, <3>2, SpaceIs
  <2>3. At(scheme, "#") = {}
    <3>1. \E c \in {"http://", "HTTPS://"} : scheme \in Optional(c)
      BY <1>0 DEF Optional, Schemes
    <3> QED BY <1>0, <3>1, SeparatorsAre, NoHash
  <2>4. ToLower(core) = ToLower(scheme) \o wq
    BY <1>3, <1>8, LowerConcat
  <2>5. At(core, "#") = {}
    BY <1>0, <1>3, <1>8, <2>3, NoHash
  <2> QED BY <1>8, <2>1, <2>2, <2>4, <2>5
<1> HIDE DEF core
<1>11. body \in Seq(Tokens) /\ body # <<>> /\ body[1] # Space /\ body[Len(body)] # Space
  <2>1. body \in Seq(Tokens) /\ body # <<>> /\ body[1] = core[1]
    BY <1>3, <1>10, EndsOfConcat
  <2>2. fragment # <<>> => body[Len(body)] = fragment[Len(fragment)]
    BY <1>3, <1>10, EndsOfConcat
  <2>3. fragment = <<>> => body = core
    BY <1>10, ConcatEmptySeq
  <2> HIDE DEF body
  <2> QED BY <1>3, <1>10, <2>1, <2>2, <2>3, SpaceIs
\* What the statements make of them.
<1>12. CutFragment(body) = core
  BY <1>0, <1>3, <1>10, CutAfter
<1> HIDE DEF body
<1>13. Trim((space \o body) \o space) = body
  BY <1>0, <1>11, TrimAround
<1> QED BY <1>4, <1>7, <1>9, <1>10, <1>12, <1>13 DEF NormalizeURL

\* Whatever a path is spelled as that is its own normal form, that is the normal form.
THEOREM SpellingsHaveOneKey ==
    ASSUME NEW p \in Seq(Tokens), p # <<>>, NormalizeURL(p) = p
    PROVE  \A u \in Spellings(p) : NormalizeURL(u) = p
<1> SUFFICES ASSUME NEW w \in Ways
             PROVE  NormalizeURL(Written(w, p)) = p
  BY DEF Spellings, Written
<1> QED BY OwnNormalForm, PlainSpelled

\* A normal form is a sequence of tokens again.
LEMMA NormalTyped ==
    ASSUME NEW s \in Seq(Tokens)
    PROVE  NormalizeURL(s) \in Seq(Tokens)
<1> DEFINE s3 == ToLower(CutFragment(Trim(s)))
           s5 == TrimPrefix(TrimPrefix(s3, "http://"), "https://")
           s7 == TrimSuffix(TrimPrefix(s5, "www."), "/")
<1>1. Trim(s) \in Seq(Tokens)
  BY TrimShorter
<1>2. CutFragment(Trim(s)) \in Seq(Tokens)
  BY <1>1, CutShorter
<1>3. s3 \in Seq(Tokens)
  BY <1>2, LowerTyped
<1> HIDE DEF s3
<1>4. TrimPrefix(s3, "http://") \in Seq(Tokens)
  BY <1>3, PrefixShorter
<1>5. s5 \in Seq(Tokens)
  BY <1>4, PrefixShorter
<1> HIDE DEF s5
<1>6. TrimPrefix(s5, "www.") \in Seq(Tokens)
  BY <1>5, PrefixShorter
<1>7. s7 \in Seq(Tokens)
  BY <1>6, SuffixShorter
<1> HIDE DEF s7
<1>8. TrimSuffix(s7, ".git") \in Seq(Tokens)
  BY <1>7, SuffixShorter
<1> QED BY <1>8 DEF NormalizeURL, s3, s5, s7
=============================================================================

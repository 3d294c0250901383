------------------------- MODULE ReleaseStored_proofs -------------------------
(***************************************************************************)
(* When a run of Release begins to prune, the newest releases are in every *)
(* storage, for any number of releases, assets, storages and sizes.        *)
(*                                                                         *)
(* What is needed is an account of the run: which releases are done with,  *)
(* which assets of them were seen, and that allReleaseSize is the sum of   *)
(* their sizes.  That sum is a fold over a set, so a part of its own shows *)
(* what the fold computes, by a least counterexample.                      *)
(***************************************************************************)
EXTENDS Release_proofs

-----------------------------------------------------------------------------
(* Sums of sizes.  A sum of a set takes out one element after another; the    *)
(* function g holds the sums of the subsets of S.                             *)

AnyOf(S) == CHOOSE x \in S : TRUE

SumBody(g, T) == IF T = {} THEN 0 ELSE Size(AnyOf(T)) + g[T \ {AnyOf(T)}]

\* What they satisfy.
Sums(g, S) == g = [T \in SUBSET S |-> SumBody(g, T)]

\* What the fold of the library is.
LEMMA SumDef == \A S : MapThenSumSet(Size, S) = (CHOOSE g : Sums(g, S))[S]
BY DEF MapThenSumSet, MapThenFoldSet, Sums, SumBody, AnyOf

\* The least of the numbers that have a counterexample.
LEMMA LeastNumber ==
    ASSUME NEW N \in SUBSET Nat, N # {}
    PROVE  \E n \in N : \A m \in N : n <= m
<1>1. PICK n \in N : \A m \in N : ~(<<m, n>> \in OpToRel(<, Nat))
  BY NatLessThanWellFounded, WFMin
<1>2. \A m \in N : ~(m < n)
  BY <1>1 DEF OpToRel
<1> QED BY <1>2

\* A set of finite sets has one of the least number of elements.
LEMMA SmallestSet ==
    ASSUME NEW C, C # {}, \A T \in C : IsFiniteSet(T)
    PROVE  \E T \in C : \A U \in C : Cardinality(T) <= Cardinality(U)
<1> DEFINE N == {Cardinality(T) : T \in C}
<1>1. N \in SUBSET Nat /\ N # {}
  BY FS_CardinalityType
<1>2. PICK n \in N : \A m \in N : n <= m
  BY <1>1, LeastNumber
<1> QED BY <1>2

\* The element taken out first.
LEMMA AnyIn == \A S : S # {} => AnyOf(S) \in S
BY DEF AnyOf

\* A set without one of its elements is smaller.
LEMMA Smaller ==
    ASSUME NEW T, IsFiniteSet(T), NEW x \in T
    PROVE  /\ IsFiniteSet(T \ {x})
           /\ Cardinality(T \ {x}) < Cardinality(T)
<1>1. Cardinality(T) \in Nat
  BY FS_CardinalityType
<1>2. IsFiniteSet(T \ {x}) /\ Cardinality(T \ {x}) = Cardinality(T) - 1
  BY FS_RemoveElement
<1> QED BY <1>1, <1>2

\* The subsets of few elements.
Upto(S, n) == {T \in SUBSET S : Cardinality(T) < n}

\* There are such sums up to any number of elements.
LEMMA SumsUpto ==
    ASSUME NEW S, IsFiniteSet(S), NEW n \in Nat
    PROVE  \E g : g = [T \in Upto(S, n) |-> SumBody(g, T)]
<1> DEFINE Has(k) == \E g : g = [T \in Upto(S, k) |-> SumBody(g, T)]
           N == {k \in Nat : ~Has(k)}
<1> SUFFICES ASSUME N # {} PROVE FALSE
  OBVIOUS
<1>1. PICK k \in N : \A m \in N : k <= m
  <2> HIDE DEF N
  <2>1. N \in SUBSET Nat
    BY DEF N
  <2> QED BY <2>1, LeastNumber
<1>2. \A T \in SUBSET S : IsFiniteSet(T) /\ Cardinality(T) \in Nat
  BY FS_Subset, FS_CardinalityType
<1>3. k # 0
  <2>1. Upto(S, 0) = {}
    BY <1>2 DEF Upto
  <2> DEFINE g == [T \in {} |-> 0]
  <2>2. g = [T \in Upto(S, 0) |-> SumBody(g, T)]
    BY <2>1
  <2> QED BY <2>2
<1>4. k \in Nat /\ k - 1 \in Nat /\ Has(k - 1) /\ ~Has(k)
  BY <1>1, <1>3
<1>5. PICK g : g = [T \in Upto(S, k - 1) |-> SumBody(g, T)]
  BY <1>4
<1> DEFINE h == [T \in Upto(S, k) |-> IF T \in Upto(S, k - 1) THEN g[T] ELSE SumBody(g, T)]
<1>6. ASSUME NEW T \in Upto(S, k) PROVE h[T] = SumBody(h, T)
  <2>1. h[T] = SumBody(g, T)
    BY <1>5
  <2>2. CASE T = {}
    BY <2>1, <2>2 DEF SumBody
  <2>3. CASE T # {}
    <3> DEFINE U == T \ {AnyOf(T)}
    <3>1. U \in Upto(S, k - 1) /\ U \in Upto(S, k)
      <4>1. AnyOf(T) \in T /\ T \in SUBSET S
        BY <2>3, AnyIn DEF Upto
      <4>2. Cardinality(U) < Cardinality(T) /\ U \in SUBSET S
        BY <1>2, <4>1, Smaller
      <4> QED BY <1>2, <1>4, <4>1, <4>2 DEF Upto
    <3> HIDE DEF U
    <3>2. h[U] = g[U]
      BY <3>1
    <3> HIDE DEF h
    <3> QED BY <2>1, <2>3, <3>2 DEF SumBody, U
  <2> QED BY <2>2, <2>3
<1>7. h = [T \in Upto(S, k) |-> SumBody(h, T)]
  BY <1>6
<1> HIDE DEF h
<1> QED BY <1>4, <1>7

\* There are such sums: the definition chooses one that exists.
LEMMA SumsExist ==
    ASSUME NEW S, IsFiniteSet(S)
    PROVE  \E g : Sums(g, S)
<1> DEFINE n == Cardinality(S) + 1
<1>1. n \in Nat
  BY FS_CardinalityType
<1>2. Upto(S, n) = SUBSET S
  <2>1. \A T \in SUBSET S : Cardinality(T) \in Nat /\ Cardinality(T) <= Cardinality(S)
    BY FS_Subset, FS_CardinalityType
  <2> QED BY <2>1, FS_CardinalityType DEF Upto
<1> HIDE DEF n
<1>3. PICK g : g = [T \in Upto(S, n) |-> SumBody(g, T)]
  BY <1>1, SumsUpto
<1> QED BY <1>2, <1>3 DEF Sums

\* They do not depend on the set whose subsets they are the sums of.
LEMMA SumsUnique ==
    ASSUME NEW S, NEW R, NEW g, NEW h, Sums(g, S), Sums(h, R),
           NEW T \in SUBSET S, T \in SUBSET R, IsFiniteSet(T)
    PROVE  g[T] = h[T]
<1> DEFINE C == {U \in SUBSET T : g[U] # h[U]}
<1> SUFFICES ASSUME C # {} PROVE FALSE
  OBVIOUS
<1>1. \A U \in C : IsFiniteSet(U)
  BY FS_Subset
<1>2. PICK U \in C : \A V \in C : Cardinality(U) <= Cardinality(V)
  <2> HIDE DEF C
  <2> QED BY <1>1, SmallestSet
<1>3. U \in SUBSET S /\ U \in SUBSET R /\ U \in SUBSET T
  OBVIOUS
<1>4. g[U] = SumBody(g, U) /\ h[U] = SumBody(h, U)
  BY <1>3 DEF Sums
<1>5. U # {}
  BY <1>4 DEF SumBody
<1> DEFINE V == U \ {AnyOf(U)}
<1>6. Cardinality(V) < Cardinality(U) /\ V \in SUBSET T
  BY <1>1, <1>3, <1>5, AnyIn, Smaller
<1>7. IsFiniteSet(V) /\ Cardinality(V) \in Nat /\ Cardinality(U) \in Nat
  BY <1>1, <1>3, <1>6, FS_Subset, FS_CardinalityType
<1>8. V \notin C
  <2> HIDE DEF V, C
  <2> QED BY <1>2, <1>6, <1>7
<1>9. g[V] = h[V]
  BY <1>6, <1>8
<1> HIDE DEF V
<1> QED BY <1>4, <1>5, <1>9 DEF SumBody, V

\* The sum of a set, taken as one of its subsets.
LEMMA SumIs ==
    ASSUME NEW S, IsFiniteSet(S), NEW g, Sums(g, S), NEW T \in SUBSET S
    PROVE  MapThenSumSet(Size, T) = g[T]
<1>1. IsFiniteSet(T)
  BY FS_Subset
<1> DEFINE h == CHOOSE f : Sums(f, T)
<1>2. Sums(h, T)
  BY <1>1, SumsExist
<1>3. MapThenSumSet(Size, T) = h[T]
  BY SumDef
<1> HIDE DEF h
<1> QED BY <1>1, <1>2, <1>3, SumsUnique

\* The sum of nothing.
LEMMA SumEmpty == MapThenSumSet(Size, {}) = 0
<1>1. PICK g : Sums(g, {})
  BY SumsExist, FS_EmptySet
<1>2. g[{}] = 0
  BY <1>1 DEF Sums, SumBody
<1> QED BY <1>1, <1>2, SumIs, FS_EmptySet

\* Sums of numbers are numbers.
LEMMA SumTyped ==
    ASSUME NEW S, IsFiniteSet(S), \A x \in S : Size(x) \in Nat, NEW g, Sums(g, S)
    PROVE  \A T \in SUBSET S : g[T] \in Nat
<1> DEFINE C == {U \in SUBSET S : g[U] \notin Nat}
<1> SUFFICES ASSUME C # {} PROVE FALSE
  OBVIOUS
<1>1. \A U \in C : IsFiniteSet(U)
  BY FS_Subset
<1>2. PICK U \in C : \A V \in C : Cardinality(U) <= Cardinality(V)
  <2> HIDE DEF C
  <2> QED BY <1>1, SmallestSet
<1>4. g[U] = SumBody(g, U)
  BY DEF Sums
<1>5. U # {}
  BY <1>4 DEF SumBody
<1> DEFINE V == U \ {AnyOf(U)}
<1>6. AnyOf(U) \in U /\ Cardinality(V) < Cardinality(U) /\ V \in SUBSET S
  BY <1>1, <1>5, AnyIn, Smaller
<1>7. IsFiniteSet(V) /\ Cardinality(V) \in Nat /\ Cardinality(U) \in Nat
  BY <1>1, <1>6, FS_Subset, FS_CardinalityType
<1>8. V \notin C
  <2> HIDE DEF V, C
  <2> QED BY <1>2, <1>6, <1>7
<1>9. g[V] \in Nat /\ Size(AnyOf(U)) \in Nat
  BY <1>6, <1>8
<1> HIDE DEF V
<1>10. g[U] \in Nat
  BY <1>4, <1>5, <1>9 DEF SumBody, V
<1> QED BY <1>10

\* Whichever element is taken out first.
LEMMA SumByAny ==
    ASSUME NEW S, IsFiniteSet(S), \A x \in S : Size(x) \in Nat, NEW g, Sums(g, S)
    PROVE  \A T \in SUBSET S : \A x \in T : g[T] = Size(x) + g[T \ {x}]
<1> DEFINE C == {U \in SUBSET S : \E x \in U : g[U] # Size(x) + g[U \ {x}]}
<1> SUFFICES ASSUME C # {} PROVE FALSE
  OBVIOUS
<1>1. \A U \in C : IsFiniteSet(U)
  BY FS_Subset
<1>2. PICK U \in C : \A V \in C : Cardinality(U) <= Cardinality(V)
  <2> HIDE DEF C
  <2> QED BY <1>1, SmallestSet
<1>3. PICK x \in U : g[U] # Size(x) + g[U \ {x}]
  OBVIOUS
<1> DEFINE y == AnyOf(U)
<1>4. y \in U /\ g[U] = Size(y) + g[U \ {y}]
  BY <1>3, AnyIn DEF Sums, SumBody
<1> HIDE DEF y
<1>5. x # y
  BY <1>3, <1>4
<1>6. ASSUME NEW z \in U PROVE U \ {z} \in SUBSET S /\ U \ {z} \notin C
  <2>1. U \ {z} \in SUBSET S /\ Cardinality(U \ {z}) < Cardinality(U)
    BY <1>1, Smaller
  <2>2. Cardinality(U \ {z}) \in Nat /\ Cardinality(U) \in Nat
    BY <1>1, <2>1, FS_Subset, FS_CardinalityType
  <2> HIDE DEF C
  <2> QED BY <1>2, <2>1, <2>2
<1>7. g[U \ {y}] = Size(x) + g[(U \ {y}) \ {x}]
  BY <1>4, <1>5, <1>6
<1>8. g[U \ {x}] = Size(y) + g[(U \ {x}) \ {y}]
  BY <1>4, <1>5, <1>6
<1>9. (U \ {y}) \ {x} = (U \ {x}) \ {y}
  OBVIOUS
<1>10. PICK n \in Nat : n = g[(U \ {x}) \ {y}]
  BY SumTyped
<1>11. Size(x) \in Nat /\ Size(y) \in Nat
  BY <1>4
<1>12. g[U] = Size(y) + (Size(x) + n)
  BY <1>4, <1>7, <1>9, <1>10
<1>13. g[U \ {x}] = Size(y) + n
  BY <1>8, <1>10
<1>14. Size(y) + (Size(x) + n) = Size(x) + (Size(y) + n)
  BY <1>11
<1> HIDE DEF C
<1> QED BY <1>3, <1>12, <1>13, <1>14

\* The sum of the sizes with one more asset.
LEMMA SumAdd ==
    ASSUME NEW S, IsFiniteSet(S), NEW x, x \notin S, \A y \in S \cup {x} : Size(y) \in Nat
    PROVE  /\ MapThenSumSet(Size, S) \in Nat
           /\ MapThenSumSet(Size, S \cup {x}) = MapThenSumSet(Size, S) + Size(x)
<1> DEFINE T == S \cup {x}
<1>1. IsFiniteSet(T)
  BY FS_AddElement
<1>2. PICK g : Sums(g, T)
  BY <1>1, SumsExist
<1>3. S \in SUBSET T /\ T \in SUBSET T /\ x \in T /\ T \ {x} = S
  OBVIOUS
<1>4. \A y \in T : Size(y) \in Nat
  OBVIOUS
<1> HIDE DEF T
<1>5. MapThenSumSet(Size, S) = g[S] /\ MapThenSumSet(Size, T) = g[T]
  BY <1>1, <1>2, <1>3, SumIs
<1>6. g[T] = Size(x) + g[S]
  BY <1>1, <1>2, <1>3, <1>4, SumByAny
<1>7. g[S] \in Nat
  BY <1>1, <1>2, <1>3, <1>4, SumTyped
<1>8. Size(x) \in Nat
  OBVIOUS
<1>9. MapThenSumSet(Size, S) \in Nat
  BY <1>5, <1>7
<1>10. MapThenSumSet(Size, T) = MapThenSumSet(Size, S) + Size(x)
  BY <1>5, <1>6, <1>7, <1>8
<1> QED BY <1>9, <1>10 DEF T
-----------------------------------------------------------------------------
(* The releases of a run.                                                     *)

\* How many of the releases within the limit are done with or at hand.
Listed == Len(Prefix(run.listing)) - Len(run.todo)

\* Those are the first of the listing, they are the reserved ones, and the
\* downloads end with the last or when there is enough.
DoneInv ==
    /\ IsInjective(run.listing)
    /\ Listed \in Nat
    /\ \A j \in 1..Len(run.todo) : run.todo[j] = run.listing[Listed + j]
    /\ run.reserved = {run.listing[j] : j \in 1..Listed}
    /\ Pruning => run.todo = <<>> \/ Enough

\* The assets seen are of the reserved releases, and one of each name.
SeenInv ==
    /\ run.rest \subseteq run.seen /\ run.cur \subseteq run.seen \ run.rest
    /\ \A x \in run.seen : x.tag \in run.reserved
    /\ \A x, y \in run.seen : x.tag = y.tag /\ x.asset = y.asset => x = y

\* The size is that of the assets examined.
TotalInv ==
    /\ IsFiniteSet(run.seen \ run.rest)
    /\ run.total = MapThenSumSet(Size, run.seen \ run.rest)

\* The storage has a file of the asset's size, never one of a later version.
Stored(s, x) ==
    LET f == At(disk, s, x) IN f.size = Size(x) /\ 1 <= f.ver /\ f.ver <= x.ver

\* They are stored, but for the asset at hand where it is still to be written.
StoredInv ==
    /\ \A s \in Storages, t \in Tags, a \in Assets :
        disk[s][t][a].ver = 0 => disk[s][t][a] = NoFile
    /\ pc = "items" /\ run.cur # {} => run.need = {}
    /\ \A x \in run.seen \ run.rest, s \in Storages :
        x \notin run.cur \/ s \notin run.need => Stored(s, x)

\* As RunFields, for the fields that these look at.
LEMMA SeenFields ==
    ASSUME NEW r \in Runs
    PROVE  /\ \A q, t : LET n == [r EXCEPT !.listing = q, !.todo = t] IN
                n.listing = q /\ n.seen = r.seen /\ n.total = r.total
           /\ \A t, R, X, S :
                LET n == [r EXCEPT !.todo = t, !.reserved = R, !.rest = X, !.seen = S] IN
                n.listing = r.listing /\ n.seen = S /\ n.total = r.total
           /\ \A X, C, N, F, k :
                LET n == [r EXCEPT !.rest = X, !.cur = C, !.need = N, !.unseen = F,
                                   !.total = k] IN
                n.listing = r.listing /\ n.seen = r.seen /\ n.total = k
           /\ \A N : LET n == [r EXCEPT !.need = N] IN
                n.listing = r.listing /\ n.seen = r.seen /\ n.total = r.total
           /\ \A C, F : LET n == [r EXCEPT !.cur = C, !.unseen = F] IN
                n.listing = r.listing /\ n.seen = r.seen /\ n.total = r.total
           /\ \A E : LET n == [r EXCEPT !.entries = E] IN
                n.listing = r.listing /\ n.seen = r.seen /\ n.total = r.total
           /\ \A k : LET n == [r EXCEPT !.store = k] IN
                n.listing = r.listing /\ n.seen = r.seen /\ n.total = r.total
           /\ \A k, F : LET n == [r EXCEPT !.store = k, !.skipped = F] IN
                n.listing = r.listing /\ n.seen = r.seen /\ n.total = r.total
BY DEF Runs

\* What a step leaves of the run's account of the releases.
SameDone == /\ run'.listing = run.listing /\ run'.todo = run.todo
            /\ run'.reserved = run.reserved /\ run'.seen = run.seen
SameItems == /\ run'.rest = run.rest /\ run'.cur = run.cur /\ run'.need = run.need
             /\ run'.total = run.total

\* A step is of one of these kinds.
LEMMA KindsOfStep ==
    ASSUME TypeOK, [Next]_vars
    PROVE  \/ SameDone /\ SameItems /\ disk' = disk /\ (Pruning' => Pruning)
                /\ (pc' = "items" => pc = "items" \/ run.need = {})
           \/ run' = NewRun /\ disk' = disk /\ ~Pruning'
           \/ List \/ ListAssets \/ Examine \/ ItemsOver \/ Write \/ Written \/ DownloadsOver
<1>0. run \in Runs
  BY DEF TypeOK
<1> USE DEF Pruning, Store, Goto, SameDone, SameItems
<1>1. CASE UNCHANGED vars \/ Cancel \/ Request
  BY <1>1 DEF vars, Cancel, Request
<1>2. CASE \E t \in Tags : Publish(t) \/ Withdraw(t) \/ \E a \in Assets : Upload(t, a)
  BY <1>2 DEF Publish, Withdraw, Upload, Changed
<1>3. CASE Begin \/ End \/ Fail \/ Crash
  BY <1>3 DEF Begin, End, Fail, Crash, Return
<1>4. CASE NextRelease \/ Download \/ MakeDir \/ PutsOver \/ PruneOver
  BY <1>4 DEF NextRelease, Download, MakeDir, PutsOver, PruneOver
<1>5. CASE Prune
  BY <1>0, <1>5, RunFields, PruneFields, SeenFields DEF Prune
<1>6. CASE KeepEntry
  BY <1>0, <1>6, RunFields, PruneFields, SeenFields DEF KeepEntry
<1>7. CASE RemoveEntry
  BY <1>0, <1>7, RunFields, PruneFields, SeenFields DEF RemoveEntry
<1>8. CASE EntriesOver
  BY <1>0, <1>8, RunFields, PruneFields, SeenFields DEF EntriesOver
<1>9. CASE PruneSkips
  BY <1>0, <1>9, RunFields, PruneFields, SeenFields DEF PruneSkips
<1> QED BY <1>1, <1>2, <1>3, <1>4, <1>5, <1>6, <1>7, <1>8, <1>9 DEF Next, Step
-----------------------------------------------------------------------------
(* Each part is kept.                                                         *)

\* A tag is not published twice.
LEMMA PublishedInductive ==
    TypeOK /\ IsInjective(published) /\ [Next]_vars => IsInjective(published)'
<1> SUFFICES ASSUME TypeOK, IsInjective(published), [Next]_vars PROVE IsInjective(published')
  OBVIOUS
<1>0. published \in Seq(Tags)
  BY DEF TypeOK
<1>1. CASE published' = published
  BY <1>1
<1>2. ASSUME NEW t \in Tags, Publish(t) PROVE IsInjective(published')
  <2>1. \A i \in 1..Len(published) : published[i] # t
    BY <1>0, <1>2 DEF Publish, There
  <2>2. published' = <<t>> \o published
    BY <1>2 DEF Publish
  <2>3. /\ Len(published') = Len(published) + 1 /\ DOMAIN published' = 1..Len(published')
        /\ \A i \in 1..Len(published') :
            published'[i] = IF i = 1 THEN t ELSE published[i - 1]
    BY <1>0, <2>2
  <2>4. \A i, j \in 1..Len(published) : published[i] = published[j] => i = j
    BY <1>0 DEF IsInjective
  <2>5. \A i \in 1..Len(published') : i # 1 => i - 1 \in 1..Len(published)
    BY <1>0, <2>3
  <2>6. ASSUME NEW i \in 1..Len(published'), NEW j \in 1..Len(published'),
               published'[i] = published'[j]
        PROVE  i = j
    BY <1>0, <2>1, <2>3, <2>4, <2>5, <2>6
  <2> QED BY <2>3, <2>6 DEF IsInjective
<1>3. ASSUME NEW t \in Tags, Withdraw(t) PROVE IsInjective(published')
  <2>1. PICK i \in DOMAIN published : published' = RemoveAt(published, i)
    BY <1>3 DEF Withdraw
  <2> DEFINE a == SubSeq(published, 1, i - 1)
             b == SubSeq(published, i + 1, Len(published))
             at(j) == IF j < i THEN j ELSE j + 1
  <2>2. published' = a \o b /\ i \in 1..Len(published)
    BY <1>0, <2>1 DEF RemoveAt
  <2>3. a \in Seq(Tags) /\ Len(a) = i - 1 /\ \A j \in 1..(i - 1) : a[j] = published[j]
    BY <1>0, <2>2
  <2>4. /\ b \in Seq(Tags) /\ Len(b) = Len(published) - i
        /\ \A j \in 1..(Len(published) - i) : b[j] = published[i + j]
    BY <1>0, <2>2
  <2> HIDE DEF a, b
  <2>5. Len(published') = Len(published) - 1 /\ DOMAIN published' = 1..(Len(published) - 1)
    BY <1>0, <2>2, <2>3, <2>4
  <2>6. ASSUME NEW j \in 1..(Len(published) - 1)
        PROVE  published'[j] = published[at(j)] /\ at(j) \in 1..Len(published)
    <3>1. CASE j < i
      BY <1>0, <2>2, <2>3, <2>4, <3>1
    <3>2. CASE ~(j < i)
      <4>1. j \in 1..(Len(a) + Len(b)) /\ ~(j <= Len(a)) /\ j - Len(a) \in 1..(Len(published) - i)
        BY <1>0, <2>2, <2>3, <2>4, <3>2
      <4>2. (a \o b)[j] = b[j - Len(a)]
        BY <2>3, <2>4, <4>1, ConcatProperties
      <4>3. i + (j - Len(a)) = j + 1
        BY <2>2, <2>3
      <4> QED BY <1>0, <2>2, <2>4, <3>2, <4>1, <4>2, <4>3
    <3> QED BY <3>1, <3>2
  <2>7. \A j, k \in 1..(Len(published) - 1) : at(j) = at(k) => j = k
    BY <1>0, <2>2
  <2> HIDE DEF at
  <2>8. \A j, k \in 1..Len(published) : published[j] = published[k] => j = k
    BY <1>0 DEF IsInjective
  <2> QED BY <2>5, <2>6, <2>7, <2>8 DEF IsInjective
<1>4. \/ published' = published
      \/ \E t \in Tags : Publish(t) \/ Withdraw(t)
  BY DEF Next, Upload, Begin, Cancel, Step, Request, DoStep, List, NextRelease, ListAssets,
     Examine, Download, MakeDir, Write, Written, PutsOver, ItemsOver, DownloadsOver, Prune,
     PruneSkips, KeepEntry, RemoveEntry, EntriesOver, PruneOver, End, Fail, Crash, Return, Quiet,
     upVars, vars
<1> QED BY <1>1, <1>2, <1>3, <1>4

\* What the cut of a listing is.
LEMMA PrefixOf ==
    ASSUME NEW q \in Seq(Tags)
    PROVE  /\ Len(Prefix(q)) \in Nat /\ Len(Prefix(q)) <= Len(q)
           /\ \A i \in 1..Len(Prefix(q)) : Prefix(q)[i] = q[i]
           /\ \A i \in 1..Len(q) : (NumLimit >= 0 => i <= NumLimit) => i <= Len(Prefix(q))
<1>1. CASE NumLimit >= 0 /\ NumLimit < Len(q)
  <2>1. Prefix(q) = SubSeq(q, 1, NumLimit)
    BY <1>1 DEF Prefix
  <2>2. Len(SubSeq(q, 1, NumLimit)) = NumLimit
    BY <1>1, ReleaseAssumption
  <2>3. \A i \in 1..NumLimit : SubSeq(q, 1, NumLimit)[i] = q[i]
    BY <1>1, ReleaseAssumption
  <2> QED BY <1>1, <2>1, <2>2, <2>3, ReleaseAssumption
<1>2. CASE ~(NumLimit >= 0 /\ NumLimit < Len(q))
  BY <1>2, ReleaseAssumption DEF Prefix
<1> QED BY <1>1, <1>2

\* A page lists no release twice either.
LEMMA PageOf ==
    ASSUME NEW q \in Seq(Tags), IsInjective(q)
    PROVE  Page(q) \in Seq(Tags) /\ IsInjective(Page(q))
<1>1. CASE PageSize < Len(q)
  <2>1. Page(q) = SubSeq(q, 1, PageSize)
    BY <1>1 DEF Page
  <2>2. Len(SubSeq(q, 1, PageSize)) = PageSize /\ SubSeq(q, 1, PageSize) \in Seq(Tags)
    BY <1>1, ReleaseAssumption
  <2>3. \A i \in 1..PageSize : SubSeq(q, 1, PageSize)[i] = q[i] /\ i \in 1..Len(q)
    BY <1>1, ReleaseAssumption
  <2>4. \A i, j \in 1..Len(q) : q[i] = q[j] => i = j
    BY DEF IsInjective
  <2> QED BY <2>1, <2>2, <2>3, <2>4 DEF IsInjective
<1> QED BY <1>1 DEF Page

\* The account of a run that did nothing yet.
LEMMA DoneNew == run = NewRun /\ ~Pruning => DoneInv /\ SeenInv /\ TotalInv
<1> SUFFICES ASSUME run = NewRun, ~Pruning PROVE DoneInv /\ SeenInv /\ TotalInv
  OBVIOUS
<1>1. /\ run.listing = <<>> /\ run.todo = <<>> /\ run.reserved = {} /\ run.seen = {}
      /\ run.rest = {} /\ run.cur = {} /\ run.total = 0
  BY DEF NewRun
<1>2. Len(Prefix(<<>>)) = 0
  <2>1. <<>> \in Seq(Tags) /\ Len(<<>>) = 0
    OBVIOUS
  <2>2. Len(Prefix(<<>>)) \in Nat /\ Len(Prefix(<<>>)) <= Len(<<>>)
    BY <2>1, PrefixOf
  <2> QED BY <2>1, <2>2
<1>3. Listed = 0
  BY <1>1, <1>2 DEF Listed
<1>4. DoneInv
  BY <1>1, <1>3 DEF DoneInv, IsInjective
<1>5. SeenInv
  BY <1>1 DEF SeenInv
<1>6. TotalInv
  <2>1. run.seen \ run.rest = {}
    BY <1>1
  <2> QED BY <1>1, <2>1, SumEmpty, FS_EmptySet DEF TotalInv
<1> QED BY <1>4, <1>5, <1>6

\* The same of the state after a step.
LEMMA DoneNewNext == run' = NewRun /\ ~Pruning' => (DoneInv /\ SeenInv /\ TotalInv)'
<1>1. (run = NewRun /\ ~Pruning)' => (DoneInv /\ SeenInv /\ TotalInv)'
  BY DoneNew, PTL
<1>2. NewRun' = NewRun
  BY DEF NewRun
<1> QED BY <1>1, <1>2

\* What is next has not been listed before.
LEMMA NextIsNew ==
    ASSUME TypeOK, PlaceInv, DoneInv, SeenInv, pc = "assets"
    PROVE  /\ Head(run.todo) = run.listing[Listed + 1] /\ Head(run.todo) \notin run.reserved
           /\ Listed + 1 \in 1..Len(run.listing)
           /\ \A x \in Uploaded(Head(run.todo)) : x \notin run.seen
<1>1. run.todo \in Seq(Tags) /\ run.todo # <<>> /\ run.listing \in Seq(Tags)
  BY DEF TypeOK, PlaceInv, Runs
<1>2. Head(run.todo) = run.todo[1] /\ 1 \in 1..Len(run.todo)
  BY <1>1
<1>3. Head(run.todo) = run.listing[Listed + 1]
  BY <1>2 DEF DoneInv
<1>4. Listed \in Nat /\ Listed + 1 \in 1..Len(run.listing)
  <2>1. Listed \in Nat /\ Listed = Len(Prefix(run.listing)) - Len(run.todo)
    BY DEF DoneInv, Listed
  <2>2. /\ Len(Prefix(run.listing)) \in Nat /\ Len(run.listing) \in Nat
        /\ Len(Prefix(run.listing)) <= Len(run.listing)
    BY <1>1, PrefixOf
  <2>3. Len(run.todo) \in Nat /\ 1 <= Len(run.todo)
    BY <1>1, <1>2
  <2>4. ASSUME NEW p \in Nat, NEW q \in Nat, NEW r \in Nat, NEW l \in Nat,
               p <= r, 1 <= q, l = p - q
        PROVE  l + 1 \in 1..r
    BY <2>4
  <2>5. Listed + 1 \in 1..Len(run.listing)
    BY <2>1, <2>2, <2>3, <2>4
  <2> QED BY <2>1, <2>5
<1>5. \A j \in 1..Listed : run.listing[j] # run.listing[Listed + 1]
  <2>1. \A j \in 1..Listed : j \in DOMAIN run.listing /\ j # Listed + 1
    BY <1>1, <1>4
  <2>2. Listed + 1 \in DOMAIN run.listing
    BY <1>1, <1>4
  <2> QED BY <2>1, <2>2 DEF DoneInv, IsInjective
<1>6. Head(run.todo) \notin run.reserved
  BY <1>3, <1>5 DEF DoneInv
<1>7. \A x \in Uploaded(Head(run.todo)) : x.tag = Head(run.todo)
  BY DEF Uploaded
<1> QED BY <1>3, <1>4, <1>6, <1>7 DEF SeenInv

\* The list of the assets of the next release.
LEMMA NextListed ==
    ASSUME TypeOK, PlaceInv, CopyInv, DoneInv, SeenInv, ListAssets
    PROVE  \E t, P :
            /\ t = Head(run.todo) /\ P \subseteq Uploaded(t)
            /\ run'.listing = run.listing
            /\ run'.todo = Tail(run.todo) /\ run'.reserved = run.reserved \cup {t}
            /\ run'.seen = run.seen \cup P /\ run'.rest = P
            /\ run.cur = {} /\ run'.cur = {} /\ run.rest = {}
            /\ run'.total = run.total
            /\ run'.seen \ run'.rest = run.seen \ run.rest
            /\ disk' = disk /\ pc' = "items" /\ ~Pruning'
<1> DEFINE t == Head(run.todo)
<1>1. run \in Runs /\ pc = "assets" /\ disk' = disk /\ pc' = "items"
  BY DEF TypeOK, ListAssets, Store, Goto
<1>2. run.cur = {} /\ run.rest = {}
  BY <1>1 DEF CopyInv, ListInv, Working
<1>3. PICK P \in Pages(t) :
        run' = [run EXCEPT !.todo = Tail(run.todo), !.reserved = run.reserved \cup {t},
                           !.rest = P, !.seen = run.seen \cup P]
  BY DEF ListAssets
<1>6. P \subseteq Uploaded(t)
  BY <1>3 DEF Pages
<1>4. \A x \in Uploaded(t) : x \notin run.seen
  BY <1>1, NextIsNew
<1> HIDE DEF t
<1>5. /\ run'.listing = run.listing /\ run'.todo = Tail(run.todo)
      /\ run'.reserved = run.reserved \cup {t}
      /\ run'.seen = run.seen \cup P /\ run'.rest = P
      /\ run'.cur = run.cur /\ run'.total = run.total
  BY <1>1, <1>3, RunFields, PruneFields, SeenFields
<1> QED BY <1>1, <1>2, <1>4, <1>5, <1>6 DEF t, Pruning

\* The next asset.
LEMMA NextExamined ==
    ASSUME TypeOK, Examine
    PROVE  \E x \in run.rest :
            /\ run'.listing = run.listing /\ run'.todo = run.todo
            /\ run'.reserved = run.reserved /\ run'.seen = run.seen
            /\ run'.rest = run.rest \ {x} /\ run'.cur = {x} /\ Needs(x) \subseteq run'.need
            /\ run'.total = run.total + Size(x)
            /\ pc' = IF run'.need = {} THEN "items" ELSE "download"
            /\ disk' = disk /\ ~Pruning'
<1>1. run \in Runs /\ disk' = disk
  BY DEF TypeOK, Examine, Store
<1>2. PICK x \in run.rest : \E F \in SUBSET (Storages \ Needs(x)) :
        /\ run' = [run EXCEPT !.rest = run.rest \ {x}, !.cur = {x}, !.need = Needs(x) \cup F,
                              !.unseen = F, !.total = run.total + Size(x)]
        /\ pc' = IF Needs(x) \cup F = {} THEN "items" ELSE "download"
  BY DEF Examine, Goto
<1>3. PICK F \in SUBSET (Storages \ Needs(x)) :
        /\ run' = [run EXCEPT !.rest = run.rest \ {x}, !.cur = {x}, !.need = Needs(x) \cup F,
                              !.unseen = F, !.total = run.total + Size(x)]
        /\ pc' = IF Needs(x) \cup F = {} THEN "items" ELSE "download"
  BY <1>2
<1>4. /\ run'.listing = run.listing /\ run'.todo = run.todo
      /\ run'.reserved = run.reserved /\ run'.seen = run.seen
      /\ run'.rest = run.rest \ {x} /\ run'.cur = {x} /\ run'.need = Needs(x) \cup F
      /\ run'.total = run.total + Size(x)
  BY <1>1, <1>3, RunFields, PruneFields, SeenFields
<1> QED BY <1>1, <1>3, <1>4 DEF Pruning

\* The releases done with: a step takes the next of the listing, or none.
LEMMA DoneInductive ==
    ASSUME TypeOK, PlaceInv, CopyInv, IsInjective(published), DoneInv, SeenInv, [Next]_vars
    PROVE  DoneInv'
<1>0. run \in Runs
  BY DEF TypeOK
<1>1. CASE SameDone /\ run'.total = run.total /\ (Pruning' => Pruning)
  BY <1>1 DEF SameDone, DoneInv, Listed, Enough
<1>2. CASE run' = NewRun /\ ~Pruning'
  BY <1>2, DoneNewNext
<1>3. CASE List
  <2> DEFINE q == Page(published)
  <2>1. /\ run'.listing = q /\ run'.todo = Prefix(q)
        /\ run'.reserved = run.reserved /\ ~Pruning'
    BY <1>0, <1>3, PruneFields, SeenFields DEF List, Goto, Pruning
  <2>2. run.reserved = {}
    BY <1>3 DEF List, PlaceInv, NewRun
  <2>3. q \in Seq(Tags) /\ IsInjective(q)
    BY PageOf DEF TypeOK
  <2> HIDE DEF q
  <2>4. Len(Prefix(q)) \in Nat
    BY <2>3, PrefixOf
  <2>5. Listed' = 0
    BY <2>1, <2>4 DEF Listed
  <2>6. \A j \in 1..Len(run'.todo) : run'.todo[j] = run'.listing[Listed' + j]
    <3>1. \A j \in 1..Len(Prefix(q)) : Prefix(q)[j] = q[j]
      BY <2>3, PrefixOf
    <3>2. \A j \in 1..Len(Prefix(q)) : 0 + j = j
      BY <2>4
    <3> QED BY <2>1, <2>5, <3>1, <3>2
  <2>7. run'.reserved = {run'.listing[j] : j \in 1..Listed'}
    BY <2>1, <2>2, <2>5
  <2>8. IsInjective(run'.listing)
    BY <2>1, <2>3
  <2> QED BY <2>1, <2>5, <2>6, <2>7, <2>8 DEF DoneInv
<1>4. CASE ListAssets
  <2>1. pc = "assets"
    BY <1>4 DEF ListAssets
  <2>2. PICK t : /\ t = Head(run.todo) /\ run'.listing = run.listing
                 /\ run'.todo = Tail(run.todo) /\ run'.reserved = run.reserved \cup {t}
                 /\ ~Pruning'
    BY <1>4, NextListed
  <2>3. t = run.listing[Listed + 1]
    BY <2>1, <2>2, NextIsNew
  <2>4. run.todo \in Seq(Tags) /\ run.todo # <<>> /\ Listed \in Nat
    BY <1>0, <2>1 DEF PlaceInv, Runs, DoneInv
  <2>5. /\ Len(Tail(run.todo)) = Len(run.todo) - 1 /\ Len(run.todo) \in Nat
        /\ \A j \in 1..(Len(run.todo) - 1) : Tail(run.todo)[j] = run.todo[j + 1]
    BY <2>4
  <2>6. Listed' = Listed + 1
    <3>1. Len(Prefix(run.listing)) \in Nat
      BY <1>0, PrefixOf DEF Runs
    <3>2. Listed' = Len(Prefix(run.listing)) - Len(Tail(run.todo))
      BY <2>2 DEF Listed
    <3>3. Listed = Len(Prefix(run.listing)) - Len(run.todo)
      BY DEF Listed
    <3>4. ASSUME NEW p \in Nat, NEW q \in Nat PROVE p - (q - 1) = (p - q) + 1
      OBVIOUS
    <3> QED BY <2>5, <3>1, <3>2, <3>3, <3>4
  <2>7. \A j \in 1..Len(run'.todo) : run'.todo[j] = run.listing[Listed' + j]
    <3> TAKE j \in 1..Len(run'.todo)
    <3>1. j + 1 \in 1..Len(run.todo) /\ run'.todo[j] = run.todo[j + 1]
      BY <2>2, <2>5
    <3>2. run.todo[j + 1] = run.listing[Listed + (j + 1)]
      BY <3>1 DEF DoneInv
    <3>3. Listed' + j = Listed + (j + 1)
      BY <2>4, <2>6
    <3> QED BY <3>1, <3>2, <3>3
  <2>8. run'.reserved = {run.listing[j] : j \in 1..(Listed + 1)}
    <3>1. 1..(Listed + 1) = (1..Listed) \cup {Listed + 1}
      BY <2>4
    <3>2. run.reserved = {run.listing[j] : j \in 1..Listed}
      BY DEF DoneInv
    <3> QED BY <2>2, <2>3, <3>1, <3>2
  <2> QED BY <2>2, <2>4, <2>6, <2>7, <2>8 DEF DoneInv
<1>5. CASE Examine
  BY <1>5, NextExamined DEF DoneInv, Listed
<1>6. CASE ItemsOver \/ Written
  <2>1. ~Pruning'
    BY <1>6 DEF ItemsOver, Written, Goto, Pruning
  <2>2. \/ \E C, F : run' = [run EXCEPT !.cur = C, !.unseen = F]
        \/ \E N : run' = [run EXCEPT !.need = N]
    BY <1>6 DEF ItemsOver, Written
  <2>3. run'.listing = run.listing /\ run'.todo = run.todo /\ run'.reserved = run.reserved
    <3>1. ASSUME NEW C, NEW F, run' = [run EXCEPT !.cur = C, !.unseen = F]
          PROVE  run'.listing = run.listing /\ run'.todo = run.todo
                 /\ run'.reserved = run.reserved
      BY <1>0, <3>1 DEF Runs
    <3>2. ASSUME NEW N, run' = [run EXCEPT !.need = N]
          PROVE  run'.listing = run.listing /\ run'.todo = run.todo
                 /\ run'.reserved = run.reserved
      BY <1>0, <3>2 DEF Runs
    <3> QED BY <2>2, <3>1, <3>2
  <2> QED BY <2>1, <2>3 DEF DoneInv, Listed
<1>7. CASE Write
  BY <1>7 DEF Write, Goto, Pruning, DoneInv, Listed
<1>8. CASE DownloadsOver
  BY <1>8 DEF DownloadsOver, DoneInv, Listed, Enough
<1> QED BY <1>1, <1>2, <1>3, <1>4, <1>5, <1>6, <1>7, <1>8, KindsOfStep DEF SameItems

\* The assets seen: those of a release join when it is taken, once.
LEMMA SeenInductive ==
    ASSUME TypeOK, PlaceInv, CopyInv, DoneInv, SeenInv, [Next]_vars
    PROVE  SeenInv'
<1>0. run \in Runs
  BY DEF TypeOK
<1>1. CASE /\ run'.seen = run.seen /\ run'.reserved = run.reserved /\ run'.rest = run.rest
           /\ run'.cur = run.cur \/ run'.cur = {}
  BY <1>1 DEF SeenInv
<1>2. CASE run' = NewRun /\ ~Pruning'
  BY <1>2, DoneNewNext
<1>3. CASE ListAssets
  <2>1. PICK t, P : /\ t = Head(run.todo) /\ P \subseteq Uploaded(t)
                    /\ run'.reserved = run.reserved \cup {t}
                    /\ run'.seen = run.seen \cup P /\ run'.rest = P
                    /\ run'.cur = {}
    BY <1>3, NextListed
  <2>2. t \notin run.reserved
    BY <1>3, <2>1, NextIsNew DEF ListAssets
  <2>3. /\ \A x \in Uploaded(t) : x.tag = t
        /\ \A x, y \in Uploaded(t) : x.asset = y.asset => x = y
    BY DEF Uploaded
  <2> QED BY <2>1, <2>2, <2>3 DEF SeenInv
<1>4. CASE Examine
  <2>1. PICK x \in run.rest :
            /\ run'.reserved = run.reserved /\ run'.seen = run.seen
            /\ run'.rest = run.rest \ {x} /\ run'.cur = {x}
    BY <1>4, NextExamined
  <2> QED BY <2>1 DEF SeenInv
<1>5. CASE List \/ ItemsOver \/ Written
  <2>1. CASE List
    BY <1>0, <1>1, <2>1, RunFields, PruneFields, SeenFields DEF List
  <2>2. CASE ItemsOver
    BY <1>0, <1>1, <2>2, RunFields, PruneFields, SeenFields DEF ItemsOver
  <2>3. CASE Written
    BY <1>0, <1>1, <2>3, RunFields, PruneFields, SeenFields DEF Written
  <2> QED BY <1>5, <2>1, <2>2, <2>3
<1>6. CASE Write \/ DownloadsOver
  BY <1>1, <1>6 DEF Write, DownloadsOver
<1> QED BY <1>1, <1>2, <1>3, <1>4, <1>5, <1>6, KindsOfStep DEF SameDone, SameItems

\* The size: an asset adds its own when it is examined.
LEMMA TotalInductive ==
    ASSUME TypeOK, PlaceInv, CopyInv, DoneInv, SeenInv, TotalInv, [Next]_vars
    PROVE  TotalInv'
<1>0. run \in Runs
  BY DEF TypeOK
<1>1. CASE run'.seen \ run'.rest = run.seen \ run.rest /\ run'.total = run.total
  BY <1>1 DEF TotalInv
<1>2. CASE run' = NewRun /\ ~Pruning'
  BY <1>2, DoneNewNext
<1>3. CASE ListAssets
  BY <1>1, <1>3, NextListed
<1>4. CASE Examine
  <2>1. PICK x \in run.rest : /\ run'.seen = run.seen /\ run'.rest = run.rest \ {x}
                              /\ run'.total = run.total + Size(x)
    BY <1>4, NextExamined
  <2> DEFINE S == run.seen \ run.rest
  <2>2. S \cup {x} = run'.seen \ run'.rest /\ x \notin S
    BY <2>1 DEF SeenInv
  <2>3. \A y \in S \cup {x} : Size(y) \in Nat
    BY <1>0, SizeTyped DEF Runs
  <2>4. IsFiniteSet(S) /\ run.total = MapThenSumSet(Size, S)
    BY DEF TotalInv
  <2> HIDE DEF S
  <2>5. MapThenSumSet(Size, S \cup {x}) = MapThenSumSet(Size, S) + Size(x)
    BY <2>2, <2>3, <2>4, SumAdd
  <2>6. IsFiniteSet(S \cup {x})
    BY <2>4, FS_AddElement
  <2> QED BY <2>1, <2>2, <2>4, <2>5, <2>6 DEF TotalInv
<1>5. CASE List \/ ItemsOver \/ Written
  <2>1. CASE List
    BY <1>0, <1>1, <2>1, RunFields, PruneFields, SeenFields DEF List
  <2>2. CASE ItemsOver
    BY <1>0, <1>1, <2>2, RunFields, PruneFields, SeenFields DEF ItemsOver
  <2>3. CASE Written
    BY <1>0, <1>1, <2>3, RunFields, PruneFields, SeenFields DEF Written
  <2> QED BY <1>5, <2>1, <2>2, <2>3
<1>6. CASE Write \/ DownloadsOver
  BY <1>1, <1>6 DEF Write, DownloadsOver
<1> QED BY <1>1, <1>2, <1>3, <1>4, <1>5, <1>6, KindsOfStep DEF SameDone, SameItems

\* A file with a version is no missing one.
LEMMA Kept ==
    ASSUME TypeOK, StoredInv, NEW x \in Listing, NEW s \in Storages, s \notin Needs(x),
           At(disk, s, x).ver <= x.ver
    PROVE  Stored(s, x)
<1>1. x.tag \in Tags /\ x.asset \in Assets /\ x.ver \in Nat
  BY DEF Listing, Versions
<1>2. disk[s][x.tag][x.asset] \in Files
  BY <1>1 DEF TypeOK
<1>3. disk[s][x.tag][x.asset] # NoFile /\ disk[s][x.tag][x.asset].size = Size(x)
  BY DEF Needs
<1>4. disk[s][x.tag][x.asset].ver # 0 /\ disk[s][x.tag][x.asset].ver \in Nat
  BY <1>1, <1>2, <1>3 DEF StoredInv, Files
<1> QED BY <1>3, <1>4 DEF Stored, At

\* A file is written to: those of the other assets stay, and at its end it is stored.
LEMMA StoredWritten ==
    ASSUME TypeOK, CopyInv, SeenInv, StoredInv, Write \/ Written
    PROVE  StoredInv'
<1>1. PICK x \in run.cur : \A s \in Storages, t \in Tags, a \in Assets :
        /\ ~(s = First(run.need) /\ t = x.tag /\ a = x.asset) => disk'[s][t][a] = disk[s][t][a]
        /\ s = First(run.need) /\ t = x.tag /\ a = x.asset =>
            /\ disk'[s][t][a].ver = x.ver
            /\ Written => disk'[s][t][a].size = Size(x)
  <2>1. CASE Write
    <3>1. ~Written
      BY <2>1 DEF Write, Written
    <3> QED BY <2>1, <3>1, WriteFile
  <2>2. CASE Written
    <3>1. PICK x \in run.cur : \A s \in Storages, t \in Tags, a \in Assets :
            IF s = First(run.need) /\ t = x.tag /\ a = x.asset
            THEN /\ disk[s][t][a].ver = x.ver
                 /\ disk'[s][t][a] = Resized(disk[s][t][a], Size(x))
                 /\ disk'[s][t][a].ver = x.ver
            ELSE disk'[s][t][a] = disk[s][t][a]
      BY <2>2, WrittenFile
    <3>2. \A f \in Files : Resized(f, Size(x)).size = Size(x)
      BY DEF Resized, Files
    <3>3. \A s \in Storages, t \in Tags, a \in Assets : disk[s][t][a] \in Files
      BY Writes
    <3> QED BY <3>1, <3>2, <3>3
  <2> QED BY <2>1, <2>2
<1>2. /\ run \in Runs /\ First(run.need) \in run.need /\ run.need \subseteq Storages
      /\ run.seen \subseteq Listing
  BY Writes DEF Runs
<1>3. x \in Listing /\ x.tag \in Tags /\ x.asset \in Assets /\ x.ver \in Nat /\ 1 <= x.ver
  BY Writes DEF Listing, Versions
<1>4. /\ run'.seen = run.seen /\ run'.rest = run.rest /\ run'.cur = run.cur /\ pc' # "items"
      /\ run'.need = IF Written THEN run.need \ {First(run.need)} ELSE run.need
  <2>1. CASE Write
    <3>1. ~Written
      BY <2>1 DEF Write, Written
    <3> QED BY <2>1, <3>1 DEF Write, Goto
  <2>2. CASE Written
    <3>1. run' = [run EXCEPT !.need = run.need \ {First(run.need)}] /\ pc' = "put"
      BY <2>2 DEF Written, Goto
    <3> QED BY <1>2, <2>2, <3>1, RunFields, SeenFields
  <2> QED BY <2>1, <2>2
<1>5. \A s \in Storages, t \in Tags, a \in Assets :
        disk'[s][t][a].ver = 0 => disk'[s][t][a] = NoFile
  BY <1>1, <1>3 DEF StoredInv
<1>6. ASSUME NEW y \in run.seen \ run.rest, NEW s \in Storages,
             y \notin run.cur \/ s \notin run'.need
      PROVE  Stored(s, y)'
  <2>1. y \in Listing /\ y.tag \in Tags /\ y.asset \in Assets
    BY <1>2 DEF Listing
  <2>2. CASE s = First(run.need) /\ y.tag = x.tag /\ y.asset = x.asset
    <3>1. y = x
      BY <2>2 DEF SeenInv
    <3>2. Written
      BY <1>2, <1>4, <1>6, <2>2, <3>1
    <3> QED BY <1>1, <1>3, <2>2, <3>1, <3>2 DEF Stored, At, Size
  <2>3. CASE ~(s = First(run.need) /\ y.tag = x.tag /\ y.asset = x.asset)
    <3>1. disk'[s][y.tag][y.asset] = disk[s][y.tag][y.asset]
      BY <1>1, <2>1, <2>3
    <3>2. y \notin run.cur \/ s \notin run.need
      <4>1. ASSUME y \in run.cur, s = First(run.need) PROVE FALSE
        BY <1>1, <2>3, <4>1 DEF CopyInv, ListInv
      <4> QED BY <1>4, <1>6, <4>1
    <3>3. Stored(s, y)
      BY <3>2 DEF StoredInv
    <3> QED BY <3>1, <3>3 DEF Stored, At, Size
  <2> QED BY <2>2, <2>3
<1> QED BY <1>4, <1>5, <1>6 DEF StoredInv

\* What is stored: an asset examined has its file, or is about to get it.
LEMMA StoredInductive ==
    ASSUME TypeOK, PlaceInv, CopyInv, DoneInv, SeenInv, StoredInv, [Next]_vars
    PROVE  StoredInv'
<1>0. run \in Runs
  BY DEF TypeOK
<1>1. ASSUME disk' = disk, run'.seen \ run'.rest = run.seen \ run.rest,
             run'.cur = run.cur, run'.need = run.need \/ run.cur = {},
             pc' = "items" => pc = "items" \/ run.need = {} \/ run.cur = {}
      PROVE  StoredInv'
  BY <1>1 DEF StoredInv, Stored, At, Size
<1>2. CASE run' = NewRun /\ disk' = disk
  <2>1. run'.seen = {} /\ run'.cur = {}
    BY <1>2 DEF NewRun
  <2> QED BY <1>2, <2>1 DEF StoredInv
<1>3. CASE List
  BY <1>0, <1>1, <1>3, RunFields, SeenFields DEF List, Store, Goto
<1>4. CASE ListAssets
  BY <1>1, <1>4, NextListed
<1>5. CASE Examine
  <2>1. PICK x \in run.rest :
            /\ run'.seen = run.seen /\ run'.rest = run.rest \ {x}
            /\ run'.cur = {x} /\ Needs(x) \subseteq run'.need /\ disk' = disk
            /\ pc' = IF run'.need = {} THEN "items" ELSE "download"
    BY <1>5, NextExamined
  <2>2. pc = "items"
    BY <1>5 DEF Examine
  <2>3. ASSUME NEW y \in run.seen \ run.rest, NEW s \in Storages
        PROVE  Stored(s, y)
    BY <2>2 DEF StoredInv
  <2>4. ASSUME NEW s \in Storages, s \notin Needs(x)
        PROVE  Stored(s, x)
    <3>1. x \in Listing /\ At(disk, s, x).ver <= x.ver
      BY <1>0, <2>1 DEF Runs, CopyInv, ListInv
    <3> QED BY <2>4, <3>1, Kept
  <2>5. \A y \in run'.seen \ run'.rest, s \in Storages :
            y \notin run'.cur \/ s \notin run'.need => Stored(s, y)
    BY <2>1, <2>3, <2>4
  <2> QED BY <2>1, <2>5 DEF StoredInv, Stored, At, Size
<1>6. CASE ItemsOver
  <2>1. /\ run'.seen = run.seen /\ run'.rest = run.rest /\ run'.cur = {}
        /\ disk' = disk /\ pc = "items" /\ pc' = "releases"
    BY <1>0, <1>6, RunFields, SeenFields DEF ItemsOver, Store, Goto
  <2>2. \A y \in run.seen \ run.rest, s \in Storages : Stored(s, y)
    BY <2>1 DEF StoredInv
  <2> QED BY <2>1, <2>2 DEF StoredInv, Stored, At, Size
<1>7. CASE Write \/ Written
  BY <1>7, StoredWritten
<1>8. CASE DownloadsOver
  BY <1>1, <1>8 DEF DownloadsOver, Store, Goto
<1>9. CASE SameDone /\ SameItems /\ disk' = disk /\ (pc' = "items" => pc = "items" \/ run.need = {})
  BY <1>1, <1>9 DEF SameDone, SameItems
<1> QED BY <1>2, <1>3, <1>4, <1>5, <1>6, <1>7, <1>8, <1>9, KindsOfStep

\* All of it.
NewestInv == IsInjective(published) /\ DoneInv /\ SeenInv /\ TotalInv /\ StoredInv

\* At first.
LEMMA NewestInit == Init => NewestInv
<1> SUFFICES ASSUME Init PROVE NewestInv
  OBVIOUS
<1>1. IsInjective(published)
  BY ReleaseAssumption DEF Init
<1>2. run = NewRun /\ ~Pruning
  BY DEF Init, Pruning
<1>3. StoredInv
  <2>1. \A s \in Storages, t \in Tags, a \in Assets : disk[s][t][a] = NoFile
    BY DEF Init
  <2>2. run.seen = {} /\ pc # "items"
    BY <1>2 DEF NewRun, Init
  <2> QED BY <2>1, <2>2 DEF StoredInv
<1> QED BY <1>1, <1>2, <1>3, DoneNew DEF NewestInv

\* While it prunes, a run has all it should have: it did not stop before the last
\* release within the limits, and what it has seen is stored.
LEMMA NewestFollows ==
    TypeOK /\ CopyInv /\ NewestInv => NewestStored
<1> SUFFICES ASSUME TypeOK, CopyInv, NewestInv, Pruning, NEW i \in DOMAIN run.listing, Within(i)
             PROVE  /\ run.listing[i] \in run.reserved
                    /\ \A x \in run.seen, s \in Storages : x.tag = run.listing[i] =>
                        LET f == disk[s][x.tag][x.asset] IN
                        f.size = Size(x) /\ 1 <= f.ver /\ f.ver <= x.ver
  BY DEF NewestStored
<1>1. /\ run.listing \in Seq(Tags) /\ run.todo \in Seq(Tags) /\ run.seen \in SUBSET Listing
      /\ run.total \in Nat /\ i \in 1..Len(run.listing)
  BY DEF TypeOK, Runs
<1>2. run.rest = {} /\ run.cur = {}
  BY DEF CopyInv, ListInv, Pruning, Working
<1>3. i <= Listed
  <2> SUFFICES ASSUME ~(i <= Listed) PROVE FALSE
    OBVIOUS
  <2>1. Listed \in Nat
    BY DEF NewestInv, DoneInv
  <2>2. CASE run.todo = <<>>
    <3>1. i <= Len(Prefix(run.listing))
      BY <1>1, PrefixOf DEF Within
    <3>2. Listed = Len(Prefix(run.listing))
      BY <1>1, <2>2, PrefixOf DEF Listed
    <3> QED BY <3>1, <3>2
  <2>3. CASE Enough
    <3>1. SizeOfFirst(i - 1) = MapThenSumSet(Size, run.seen)
      <4>1. \A x \in run.seen : \E j \in 1..(i - 1) : x.tag = run.listing[j]
        <5> TAKE x \in run.seen
        <5>1. PICK j \in 1..Listed : x.tag = run.listing[j]
          BY DEF NewestInv, DoneInv, SeenInv
        <5>2. j \in 1..(i - 1)
          BY <1>1, <2>1
        <5> QED BY <5>1, <5>2
      <4>2. {x \in run.seen : \E j \in 1..(i - 1) : x.tag = run.listing[j]} = run.seen
        BY <4>1
      <4> QED BY <4>2 DEF SizeOfFirst
    <3>2. run.total = MapThenSumSet(Size, run.seen)
      <4>1. run.seen \ run.rest = run.seen
        BY <1>2
      <4> QED BY <4>1 DEF NewestInv, TotalInv
    <3> QED BY <1>1, <2>3, <3>1, <3>2, ReleaseAssumption DEF Enough, Within
  <2> QED BY <2>2, <2>3 DEF NewestInv, DoneInv
<1>4. run.listing[i] \in run.reserved
  BY <1>1, <1>3 DEF NewestInv, DoneInv
<1>5. \A x \in run.seen, s \in Storages : Stored(s, x)
  BY <1>2 DEF NewestInv, StoredInv
<1> QED BY <1>4, <1>5 DEF Stored, At

\* Once the downloads are over, every release on the first page and within the
\* limits is reserved, and has each asset that was on its first page in every storage.
THEOREM NewestAreStored == Spec => []NewestStored
<1>1. Init => TypeOK /\ PlaceInv /\ CopyInv /\ NewestInv
  BY CopyInit, NewestInit
<1>2. TypeOK /\ PlaceInv /\ CopyInv /\ NewestInv /\ [Next]_vars => NewestInv'
  BY PublishedInductive, DoneInductive, SeenInductive, TotalInductive, StoredInductive
     DEF NewestInv
<1> QED BY <1>1, <1>2, TypeInductive, CopyInductive, NewestFollows, PTL DEF Spec
=============================================================================

----------------------------- MODULE Feed_proofs -----------------------------
(***************************************************************************)
(* Properties of Feed for any items, page size, storages, configurations   *)
(* and bounds, and any changes upstream.                                   *)
(***************************************************************************)
EXTENDS Feed, TLAPS, FiniteSetTheorems, WellFoundedInduction

\* A set of naturals has a least element.
LEMMA LeastOf ==
    ASSUME NEW S \in SUBSET Nat, S # {}
    PROVE  \E n \in S : \A m \in S : n <= m
<1>1. PICK n \in S : \A m \in S : ~(<<m, n>> \in OpToRel(<, Nat))
  BY NatLessThanWellFounded, WFMin
<1>2. \A m \in S : ~(m < n)
  BY <1>1 DEF OpToRel
<1> QED BY <1>2
-----------------------------------------------------------------------------
(* Listings.                                                                  *)

\* A listing is in a strict and total order.
LEMMA BeforeOrder ==
    ASSUME TypeOK
    PROVE  \A i, j, k \in Items :
            /\ ~Before(i, i)
            /\ Before(i, j) /\ Before(j, k) => Before(i, k)
            /\ i # j => Before(i, j) \/ Before(j, i)
<1>1. \A i \in Items : i \in Nat /\ up[i].at \in Nat
  BY FeedAssumption DEF TypeOK, Contents, Content
<1>2. conf.kind = "issue" \/ conf.kind = "discussion"
  BY FeedAssumption DEF TypeOK
<1>3. CASE conf.kind = "issue"
  <2>1. \A i, j : Before(i, j) <=> up[i].at < up[j].at \/ (up[i].at = up[j].at /\ i < j)
    BY <1>3 DEF Before
  <2> QED BY <1>1, <2>1
<1>4. CASE conf.kind = "discussion"
  <2>1. \A i, j : Before(i, j) <=> up[i].at > up[j].at \/ (up[i].at = up[j].at /\ i < j)
    BY <1>4 DEF Before
  <2> QED BY <1>1, <2>1
<1> QED BY <1>2, <1>3, <1>4

\* The rank is below the length of the listing, and grows along it.
LEMMA RankGrows ==
    ASSUME TypeOK, NEW L \in SUBSET Items
    PROVE  /\ IsFiniteSet(L) /\ Cardinality(L) \in Nat
           /\ \A i \in Items : Rank(L, i) \in Nat
           /\ \A i \in L : Rank(L, i) < Cardinality(L)
           /\ \A i \in L, j \in Items : Before(i, j) => Rank(L, i) < Rank(L, j)
<1>1. IsFiniteSet(L) /\ Cardinality(L) \in Nat
  BY FeedAssumption, FS_Subset, FS_CardinalityType
<1> DEFINE B(i) == {j \in L : Before(j, i)}
<1>2. \A i \in Items : IsFiniteSet(B(i)) /\ Cardinality(B(i)) \in Nat
  BY <1>1, FS_Subset, FS_CardinalityType
<1>3. ASSUME NEW i \in L PROVE Rank(L, i) < Cardinality(L)
  <2>1. B(i) \in SUBSET L /\ B(i) # L
    BY BeforeOrder
  <2>2. /\ Cardinality(B(i)) <= Cardinality(L)
        /\ Cardinality(L) = Cardinality(B(i)) => L = B(i)
    BY <1>1, <2>1, FS_Subset
  <2>3. Cardinality(B(i)) \in Nat
    BY <1>2
  <2>4. Cardinality(B(i)) < Cardinality(L)
    BY <1>1, <2>1, <2>2, <2>3
  <2> QED BY <2>4 DEF Rank
<1>4. ASSUME NEW i \in L, NEW j \in Items, Before(i, j) PROVE Rank(L, i) < Rank(L, j)
  <2>1. B(i) \in SUBSET B(j) /\ i \in B(j) /\ i \notin B(i)
    BY <1>4, BeforeOrder
  <2>2. B(i) # B(j)
    BY <2>1
  <2>3. Cardinality(B(i)) < Cardinality(B(j))
    BY <1>2, <2>1, <2>2, FS_Subset
  <2> QED BY <2>3 DEF Rank
<1> QED BY <1>1, <1>2, <1>3, <1>4 DEF Rank

\* A listing that is not empty has a first and a last item.
LEMMA FirstAndLast ==
    ASSUME TypeOK, NEW L \in SUBSET Items, L # {}
    PROVE  /\ \E i \in L : \A j \in L : ~Before(j, i)
           /\ \E i \in L : \A j \in L : ~Before(i, j)
<1>0. \A i, j \in L : /\ Rank(L, i) \in Nat /\ Rank(L, i) < Cardinality(L)
                      /\ Before(i, j) => Rank(L, i) < Rank(L, j)
  BY RankGrows
<1>1. \E i \in L : \A j \in L : ~Before(j, i)
  <2> DEFINE S == {Rank(L, i) : i \in L}
  <2>1. S \in SUBSET Nat /\ S # {}
    BY RankGrows
  <2>2. PICK n \in S : \A m \in S : n <= m
    BY <2>1, LeastOf
  <2>3. PICK i \in L : n = Rank(L, i)
    BY <2>2
  <2>4. \A j \in L : Rank(L, i) <= Rank(L, j)
    BY <2>2, <2>3
  <2> QED BY <1>0, <2>4
<1>2. \E i \in L : \A j \in L : ~Before(i, j)
  <2> DEFINE S == {Cardinality(L) - Rank(L, i) : i \in L}
  <2>1. S \in SUBSET Nat /\ S # {}
    BY RankGrows
  <2>2. PICK n \in S : \A m \in S : n <= m
    BY <2>1, LeastOf
  <2>3. PICK i \in L : n = Cardinality(L) - Rank(L, i)
    BY <2>2
  <2>4. \A j \in L : Cardinality(L) - Rank(L, i) <= Cardinality(L) - Rank(L, j)
    BY <2>2, <2>3
  <2>5. \A j \in L : Rank(L, j) <= Rank(L, i)
    BY <2>4, RankGrows
  <2> QED BY <1>0, <2>5
<1> QED BY <1>1, <1>2
-----------------------------------------------------------------------------
(* Types.                                                                     *)

\* Where the next page of discussions starts.
LEMMA EndCursorIs ==
    ASSUME TypeOK, DiscussionPage # {}
    PROVE  \E l \in DiscussionPage :
            /\ \A j \in DiscussionPage : ~Before(l, j)
            /\ EndCursor = [at |-> up[l].at, num |-> l]
<1> DEFINE l == CHOOSE i \in DiscussionPage : \A j \in DiscussionPage : ~Before(i, j)
<1>1. DiscussionPage \in SUBSET Items
  BY DEF DiscussionPage, AfterCursor, There
<1>2. \E i \in DiscussionPage : \A j \in DiscussionPage : ~Before(i, j)
  BY <1>1, FirstAndLast
<1>3. l \in DiscussionPage /\ \A j \in DiscussionPage : ~Before(l, j)
  BY <1>2
<1> HIDE DEF l
<1>4. EndCursor = [at |-> up[l].at, num |-> l]
  BY DEF EndCursor, l
<1> QED BY <1>3, <1>4

Listing == [num : Items, at : 0..MaxTime, ver : Nat]

LEMMA ListedTyped ==
    ASSUME TypeOK, NEW S \in SUBSET Items
    PROVE  Listed(S) \in SUBSET Listing
<1>1. \A i \in Items : up[i].at \in 0..MaxTime /\ up[i].ver \in Nat
  BY DEF TypeOK, Contents, Content
<1> QED BY <1>1 DEF Listed, Listing

LEMMA NothingTyped == Nothing \in Contents /\ None \in Content /\ NewRun \in Runs
<1>1. None \in Content
  BY FeedAssumption DEF None, Content
<1>2. Nothing \in Contents
  BY <1>1 DEF Nothing, Contents
<1> QED BY <1>1, <1>2, FeedAssumption DEF NewRun, Runs, NoCursor

\* A run is a record of eight fields; what an action does to it.
LEMMA RunTyped ==
    ASSUME NEW r \in Runs
    PROVE  /\ \A t \in 0..MaxTime : [r EXCEPT !.last = t] \in Runs
           /\ \A X \in SUBSET Listing, m \in BOOLEAN, n \in Nat \ {0} :
                [r EXCEPT !.rest = X, !.more = m, !.page = n] \in Runs
           /\ \A X \in SUBSET Listing, m \in BOOLEAN, c \in [at : 0..MaxTime, num : Nat] :
                [r EXCEPT !.rest = X, !.more = m, !.cursor = c] \in Runs
           /\ \A X \in SUBSET Listing : [r EXCEPT !.rest = X] \in Runs
           /\ [r EXCEPT !.updated = TRUE] \in Runs
           /\ \A f \in Contents : [r EXCEPT !.snap = f] \in Runs
           /\ \A n \in Nat : [r EXCEPT !.nput = n] \in Runs
BY DEF Runs, Listing

LEMMA InitTyped == Init => TypeOK
<1> SUFFICES ASSUME Init PROVE TypeOK
  OBVIOUS
<1>1. PICK f \in FirstTimes :
        /\ up = [i \in Items |-> [at |-> f[i], ver |-> IF f[i] = 0 THEN 0 ELSE 1]]
        /\ clock \in {t \in 0..MaxTime : \A i \in Items : f[i] <= t}
  BY DEF Init
<1>2. up \in Contents
  <2>1. \A i \in Items : f[i] \in 0..MaxTime
    BY FeedAssumption
  <2> QED BY <1>1, <2>1 DEF Contents, Content
<1>3. stored \in [1..NumStorages -> [whole : BOOLEAN, files : Contents]]
  BY NothingTyped DEF Init
<1>4. shifted \in BOOLEAN
  BY Zenon DEF Init
<1> QED BY <1>1, <1>2, <1>3, <1>4, NothingTyped, FeedAssumption DEF Init, TypeOK

LEMMA UpstreamTyped ==
    ASSUME TypeOK, NEW i \in Items, Update(i) \/ Remove(i)
    PROVE  TypeOK'
<1>1. PICK c : Change(i, c) /\ c \in Content
  <2>1. CASE Update(i)
    <3>1. [at |-> clock', ver |-> up[i].ver + 1] \in Content
      BY <2>1 DEF Update, TypeOK, Contents, Content
    <3> QED BY <2>1, <3>1 DEF Update
  <2>2. CASE Remove(i)
    BY <2>2, NothingTyped DEF Remove
  <2> QED BY <2>1, <2>2
<1>2. clock' \in 0..MaxTime
  BY DEF Update, Remove, TypeOK
<1>3. changes' \in 0..MaxChanges /\ up' \in Contents /\ changed' \subseteq Items
  BY <1>1, FeedAssumption DEF Change, TypeOK, Contents
<1>4. shifted' \in BOOLEAN
  BY <1>1, Zenon DEF Change
<1>5. UNCHANGED <<conf, files, stored, pc, run>>
  BY <1>1 DEF Change
<1> QED BY <1>2, <1>3, <1>4, <1>5 DEF TypeOK

\* The steps of a run that change neither the files nor the storages.
LEMMA RunStepTyped ==
    ASSUME TypeOK,
           Begin \/ ListIssues \/ ListDiscussions \/ SkipItem \/ NextPage \/ Archive \/ PutsOver
    PROVE  TypeOK'
<1> USE DEF Goto, Quiet, upVars
<1>0. run \in Runs /\ NewRun \in Runs /\ shifted \in BOOLEAN
  BY NothingTyped DEF TypeOK
<1>1. /\ UNCHANGED <<conf, upVars, files, stored, shifted>> /\ changed' \subseteq Items
      /\ pc' \in {"idle", "list", "items", "write", "put", "putting", "end"}
  BY DEF Begin, ListIssues, ListDiscussions, SkipItem, NextPage, Archive, PutsOver, TypeOK
<1>2. run' \in Runs
  <2>1. CASE Begin
    BY <1>0, <2>1, RunTyped DEF Begin
  <2>2. CASE ListIssues
    <3>1. Listed(IssuePage) \in SUBSET Listing
      BY ListedTyped DEF IssuePage, Since, There
    <3>2. MoreIssues \in BOOLEAN /\ run.page + 1 \in Nat \ {0}
      BY <1>0 DEF MoreIssues, Runs
    <3> HIDE DEF MoreIssues
    <3>3. run' = [run EXCEPT !.rest = Listed(IssuePage), !.more = MoreIssues,
                             !.page = run.page + 1]
      BY <2>2 DEF ListIssues
    <3> QED BY <1>0, <3>1, <3>2, <3>3, RunTyped
  <2>3. CASE ListDiscussions
    <3> DEFINE c == IF DiscussionPage = {} THEN run.cursor ELSE EndCursor
    <3>1. Listed(DiscussionPage) \in SUBSET Listing
      BY ListedTyped DEF DiscussionPage, AfterCursor, There
    <3>2. MoreDiscussions \in BOOLEAN
      BY DEF MoreDiscussions
    <3>3. c \in [at : 0..MaxTime, num : Nat]
      <4>1. CASE DiscussionPage = {}
        BY <1>0, <4>1 DEF Runs
      <4>2. CASE DiscussionPage # {}
        <5>1. PICK l \in DiscussionPage : EndCursor = [at |-> up[l].at, num |-> l]
          BY <4>2, EndCursorIs
        <5>2. l \in Items /\ l \in Nat
          BY FeedAssumption DEF DiscussionPage, AfterCursor, There
        <5>3. up[l].at \in 0..MaxTime
          BY <5>2 DEF TypeOK, Contents, Content
        <5> QED BY <4>2, <5>1, <5>2, <5>3
      <4> QED BY <4>1, <4>2
    <3>4. run' = [run EXCEPT !.rest = Listed(DiscussionPage), !.more = MoreDiscussions,
                             !.cursor = c]
      BY <2>3 DEF ListDiscussions
    <3> HIDE DEF c
    <3> QED BY <1>0, <3>1, <3>2, <3>3, <3>4, RunTyped
  <2>4. CASE SkipItem
    <3>1. PICK x \in run.rest : run' = [run EXCEPT !.rest = run.rest \ {x}]
      BY <2>4 DEF SkipItem
    <3>2. run.rest \ {x} \in SUBSET Listing
      BY <1>0 DEF Runs, Listing
    <3> QED BY <1>0, <3>1, <3>2, RunTyped
  <2>5. CASE NextPage \/ PutsOver
    BY <1>0, <2>5 DEF NextPage, PutsOver
  <2>6. CASE Archive
    BY <1>0, <2>6, RunTyped DEF Archive, TypeOK
  <2> QED BY <2>1, <2>2, <2>3, <2>4, <2>5, <2>6
<1> QED BY <1>0, <1>1, <1>2 DEF TypeOK

\* The other steps of a run.
LEMMA StoreStepTyped ==
    ASSUME TypeOK, Write \/ WriteDone \/ Put \/ PutDone \/ End \/ Fail \/ Crash
    PROVE  TypeOK'
<1> USE DEF Goto, Quiet, upVars
<1>0. run \in Runs /\ NewRun \in Runs /\ shifted \in BOOLEAN
  BY NothingTyped DEF TypeOK
<1>1. /\ UNCHANGED <<conf, upVars, changed, shifted>>
      /\ pc' \in {"idle", "list", "items", "write", "put", "putting", "end"}
  BY DEF Write, WriteDone, Put, PutDone, End, Fail, Crash, Return
<1>2. run' \in Runs /\ files' \in Contents /\ stored' \in [1..NumStorages -> [whole : BOOLEAN, files : Contents]]
  <2>1. CASE Write
    <3>1. PICK x \in run.rest : \E stamp \in {0, x.at} :
                files' = [files EXCEPT ![x.num] = [at |-> stamp, ver |-> 0]]
      BY <2>1 DEF Write
    <3>2. x.at \in 0..MaxTime
      BY <1>0 DEF Runs
    <3>3. \A stamp \in {0, x.at} : [at |-> stamp, ver |-> 0] \in Content
      BY <3>2, FeedAssumption DEF Content
    <3>4. files' \in Contents
      BY <3>1, <3>3 DEF TypeOK, Contents
    <3> QED BY <1>0, <2>1, <3>4, RunTyped DEF Write, TypeOK
  <2>2. CASE WriteDone
    <3>1. PICK x \in run.rest : /\ files' = [files EXCEPT ![x.num] = [at |-> x.at, ver |-> x.ver]]
                                /\ run' = [run EXCEPT !.rest = run.rest \ {x}]
      BY <2>2 DEF WriteDone
    <3>2. x.at \in 0..MaxTime /\ x.ver \in Nat /\ run.rest \ {x} \in SUBSET Listing
      BY <1>0 DEF Runs, Listing
    <3>3. files' \in Contents
      BY <3>1, <3>2 DEF TypeOK, Contents, Content
    <3> QED BY <1>0, <2>2, <3>1, <3>2, <3>3, RunTyped DEF WriteDone, TypeOK
  <2>3. CASE Put
    <3>1. \A a \in [whole : BOOLEAN, files : Contents] :
            [a EXCEPT !.whole = FALSE] \in [whole : BOOLEAN, files : Contents]
      OBVIOUS
    <3> QED BY <1>0, <2>3, <3>1 DEF Put, TypeOK
  <2>4. CASE PutDone
    <3>1. run.snap \in Contents /\ run.nput + 1 \in Nat
      BY <1>0 DEF Runs
    <3>2. stored' \in [1..NumStorages -> [whole : BOOLEAN, files : Contents]]
      BY <2>4, <3>1 DEF PutDone, TypeOK
    <3> QED BY <1>0, <2>4, <3>1, <3>2, RunTyped DEF PutDone, TypeOK
  <2>5. CASE End \/ Fail \/ Crash
    <3>1. files' \in {files, Nothing} /\ run' = NewRun /\ stored' = stored
      BY <2>5 DEF End, Fail, Crash, Return
    <3> QED BY <1>0, <3>1, NothingTyped DEF TypeOK
  <2> QED BY <2>1, <2>2, <2>3, <2>4, <2>5
<1> QED BY <1>0, <1>1, <1>2 DEF TypeOK

LEMMA TypeInductive == TypeOK /\ [Next]_vars => TypeOK'
<1> SUFFICES ASSUME TypeOK, [Next]_vars PROVE TypeOK'
  OBVIOUS
<1>1. CASE UNCHANGED vars
  BY <1>1 DEF vars, upVars, TypeOK
<1>2. CASE Next
  BY <1>2, UpstreamTyped, RunStepTyped, StoreStepTyped DEF Next, Step
<1> QED BY <1>1, <1>2

\* Every variable of a feed keeps to its type.
THEOREM TypeCorrect == Spec => []TypeOK
BY InitTyped, TypeInductive, PTL DEF Spec
-----------------------------------------------------------------------------
(* The shape of a run.                                                        *)

\* The fields of a run after each kind of change.
LEMMA RunFields ==
    ASSUME NEW r \in Runs
    PROVE  /\ \A X, m, n : LET q == [r EXCEPT !.rest = X, !.more = m, !.page = n] IN
                /\ q.rest = X /\ q.more = m /\ q.page = n
                /\ q.last = r.last /\ q.cursor = r.cursor /\ q.updated = r.updated
                /\ q.snap = r.snap /\ q.nput = r.nput
           /\ \A X, m, c : LET q == [r EXCEPT !.rest = X, !.more = m, !.cursor = c] IN
                /\ q.rest = X /\ q.more = m /\ q.cursor = c
                /\ q.last = r.last /\ q.page = r.page /\ q.updated = r.updated
                /\ q.snap = r.snap /\ q.nput = r.nput
           /\ \A X : LET q == [r EXCEPT !.rest = X] IN
                /\ q.rest = X
                /\ q.last = r.last /\ q.page = r.page /\ q.cursor = r.cursor
                /\ q.more = r.more /\ q.updated = r.updated
                /\ q.snap = r.snap /\ q.nput = r.nput
           /\ LET q == [r EXCEPT !.updated = TRUE] IN
                /\ q.updated
                /\ q.last = r.last /\ q.page = r.page /\ q.cursor = r.cursor
                /\ q.more = r.more /\ q.rest = r.rest
                /\ q.snap = r.snap /\ q.nput = r.nput
           /\ \A f : LET q == [r EXCEPT !.snap = f] IN
                /\ q.snap = f
                /\ q.last = r.last /\ q.page = r.page /\ q.cursor = r.cursor
                /\ q.more = r.more /\ q.rest = r.rest
                /\ q.updated = r.updated /\ q.nput = r.nput
           /\ \A n : LET q == [r EXCEPT !.nput = n] IN
                /\ q.nput = n
                /\ q.last = r.last /\ q.page = r.page /\ q.cursor = r.cursor
                /\ q.more = r.more /\ q.rest = r.rest
                /\ q.updated = r.updated /\ q.snap = r.snap
BY DEF Runs

\* What the steps of a run do to its variables and to the files.
LEMMA BeginDoes ==
    ASSUME Begin
    PROVE  /\ \E t \in 0..MaxTime : Newest(t) /\ run'.last = t
           /\ run'.page = 1 /\ run'.cursor = NoCursor /\ run'.more = FALSE
           /\ run'.rest = {} /\ run'.updated = FALSE /\ run'.nput = 1
<1>1. PICK t \in 0..MaxTime : Newest(t) /\ run' = [NewRun EXCEPT !.last = t]
  BY DEF Begin
<1>2. LET q == [NewRun EXCEPT !.last = t] IN
        /\ q.last = t /\ q.page = 1 /\ q.cursor = NoCursor /\ q.more = FALSE
        /\ q.rest = {} /\ q.updated = FALSE /\ q.nput = 1
  BY DEF NewRun
<1> QED BY <1>1, <1>2

LEMMA ListIssuesDoes ==
    ASSUME TypeOK, ListIssues
    PROVE  /\ run'.rest = Listed(IssuePage) /\ run'.more = MoreIssues
           /\ run'.page = run.page + 1
           /\ run'.last = run.last /\ run'.updated = run.updated /\ run'.nput = run.nput
<1> DEFINE X == Listed(IssuePage)
           m == MoreIssues
           n == run.page + 1
<1>1. run' = [run EXCEPT !.rest = X, !.more = m, !.page = n] /\ run \in Runs
  BY DEF ListIssues, TypeOK
<1> HIDE DEF X, m, n
<1>2. /\ run'.rest = X /\ run'.more = m /\ run'.page = n
      /\ run'.last = run.last /\ run'.updated = run.updated /\ run'.nput = run.nput
  BY <1>1, RunFields
<1> QED BY <1>2 DEF X, m, n

LEMMA ListDiscussionsDoes ==
    ASSUME TypeOK, ListDiscussions
    PROVE  /\ run'.rest = Listed(DiscussionPage) /\ run'.more = MoreDiscussions
           /\ run'.cursor = IF DiscussionPage = {} THEN run.cursor ELSE EndCursor
           /\ run'.page = run.page
           /\ run'.last = run.last /\ run'.updated = run.updated /\ run'.nput = run.nput
<1> DEFINE X == Listed(DiscussionPage)
           m == MoreDiscussions
           c == IF DiscussionPage = {} THEN run.cursor ELSE EndCursor
<1>1. run' = [run EXCEPT !.rest = X, !.more = m, !.cursor = c] /\ run \in Runs
  BY DEF ListDiscussions, TypeOK
<1> HIDE DEF X, m, c
<1>2. /\ run'.rest = X /\ run'.more = m /\ run'.cursor = c /\ run'.page = run.page
      /\ run'.last = run.last /\ run'.updated = run.updated /\ run'.nput = run.nput
  BY <1>1, RunFields
<1> QED BY <1>2 DEF X, m, c

SameBut(fields) ==
    /\ "rest" \in fields \/ run'.rest = run.rest
    /\ "updated" \in fields \/ run'.updated = run.updated
    /\ run'.last = run.last /\ run'.page = run.page /\ run'.cursor = run.cursor
    /\ run'.more = run.more

LEMMA SkipDoes ==
    ASSUME TypeOK, SkipItem
    PROVE  /\ \E x \in run.rest : First(x) /\ Skipped(x) /\ run'.rest = run.rest \ {x}
           /\ SameBut({"rest"}) /\ run'.nput = run.nput
<1>1. PICK x \in run.rest : First(x) /\ Skipped(x) /\ run' = [run EXCEPT !.rest = run.rest \ {x}]
  BY DEF SkipItem
<1> QED BY <1>1, RunFields DEF SameBut, TypeOK

LEMMA WriteDoes ==
    ASSUME TypeOK, Write
    PROVE  /\ \E x \in run.rest : \E stamp \in {0, x.at} :
                /\ First(x) /\ ~Skipped(x) /\ x.num \in Items
                /\ \A j \in Items :
                    files'[j] = IF j = x.num THEN [at |-> stamp, ver |-> 0] ELSE files[j]
           /\ SameBut({"updated"}) /\ run'.updated /\ run'.nput = run.nput
<1>1. PICK x \in run.rest : /\ First(x) /\ ~Skipped(x)
                            /\ \E stamp \in {0, x.at} :
                                files' = [files EXCEPT ![x.num] = [at |-> stamp, ver |-> 0]]
  BY DEF Write
<1>2. x.num \in Items
  BY DEF TypeOK, Runs
<1>3. SameBut({"updated"}) /\ run'.updated /\ run'.nput = run.nput
  BY RunFields DEF Write, SameBut, TypeOK
<1> QED BY <1>1, <1>2, <1>3 DEF TypeOK, Contents

LEMMA WriteDoneDoes ==
    ASSUME TypeOK, WriteDone
    PROVE  /\ \E x \in run.rest :
                /\ First(x) /\ x.num \in Items /\ run'.rest = run.rest \ {x}
                /\ \A j \in Items :
                    files'[j] = IF j = x.num THEN [at |-> x.at, ver |-> x.ver] ELSE files[j]
           /\ SameBut({"rest"}) /\ run'.nput = run.nput
<1>1. PICK x \in run.rest : /\ First(x)
                            /\ files' = [files EXCEPT ![x.num] = [at |-> x.at, ver |-> x.ver]]
                            /\ run' = [run EXCEPT !.rest = run.rest \ {x}]
  BY DEF WriteDone
<1>2. x.num \in Items
  BY DEF TypeOK, Runs
<1>3. run'.rest = run.rest \ {x} /\ SameBut({"rest"}) /\ run'.nput = run.nput
  BY <1>1, RunFields DEF SameBut, TypeOK
<1> QED BY <1>1, <1>2, <1>3 DEF TypeOK, Contents

LEMMA OnwardDoes ==
    ASSUME TypeOK, NextPage \/ Archive \/ Put \/ PutDone \/ PutsOver
    PROVE  SameBut({}) /\ files' = files
<1>1. CASE NextPage \/ Put \/ PutsOver
  BY <1>1 DEF NextPage, Put, PutsOver, SameBut
<1>2. CASE Archive
  BY <1>2, RunFields DEF Archive, SameBut, TypeOK
<1>3. CASE PutDone
  BY <1>3, RunFields DEF PutDone, SameBut, TypeOK
<1> QED BY <1>1, <1>2, <1>3

LEMMA ReturnDoes ==
    ASSUME End \/ Fail \/ Crash
    PROVE  run' = NewRun /\ pc' = "idle" /\ stored' = stored /\ files' \in {files, Nothing}
BY DEF End, Fail, Crash, Return, Goto

\* Where a run may be with which page, and what it may have.
RunInv ==
    /\ pc = "idle" => run = NewRun
    /\ pc \notin {"items", "write"} => run.rest = {}
    /\ pc \in {"put", "putting", "end"} => ~run.more
    /\ pc = "list" => run.page = 1 \/ run.more
    /\ conf.kind = "issue" /\ (pc \in {"items", "write"} \/ run.more) => run.page >= 2
    /\ pc \in {"list", "items", "write"} => run.nput = 1
    /\ pc = "write" => run.updated
    /\ \A x, y \in run.rest : x.num = y.num => x = y

\* What is stored or listed is not of the future.
StampInv ==
    /\ run.last <= clock
    /\ \A i \in Items : up[i].at <= clock /\ files[i].at <= clock
    /\ \A x \in run.rest : x.at <= clock

\* What a listing holds.
Item(i) == [num |-> i, at |-> up[i].at, ver |-> up[i].ver]

LEMMA ListedItems ==
    ASSUME NEW S
    PROVE  /\ \A x \in Listed(S) : x.num \in S /\ x = Item(x.num)
           /\ \A i \in S : Item(i) \in Listed(S)
           /\ \A i : Item(i).num = i /\ Item(i).at = up[i].at /\ Item(i).ver = up[i].ver
BY DEF Listed, Item

LEMMA RunInductive == TypeOK /\ RunInv /\ [Next]_vars => RunInv'
<1> SUFFICES ASSUME TypeOK, RunInv, [Next]_vars PROVE RunInv'
  OBVIOUS
<1> USE DEF Goto, Quiet
<1>0. run \in Runs /\ run.page \in Nat \ {0}
  BY DEF TypeOK, Runs
<1>1. CASE UNCHANGED vars \/ \E i \in Items : Update(i) \/ Remove(i)
  <2>1. UNCHANGED <<conf, pc, run>>
    BY <1>1 DEF vars, Update, Remove, Change
  <2> QED BY <2>1 DEF RunInv
<1>2. CASE Begin
  BY <1>2, BeginDoes DEF Begin, RunInv
<1>3. CASE ListIssues
  <2>1. \A x, y \in Listed(IssuePage) : x.num = y.num => x = y
    BY ListedItems
  <2>2. run.page + 1 >= 2
    BY <1>0
  <2> QED BY <1>3, <2>1, <2>2, ListIssuesDoes DEF ListIssues, RunInv
<1>4. CASE ListDiscussions
  <2>1. \A x, y \in Listed(DiscussionPage) : x.num = y.num => x = y
    BY ListedItems
  <2> QED BY <1>4, <2>1, ListDiscussionsDoes DEF ListDiscussions, RunInv
<1>5. CASE SkipItem
  BY <1>5, SkipDoes DEF SkipItem, RunInv, SameBut
<1>6. CASE Write
  BY <1>6, WriteDoes DEF Write, RunInv, SameBut
<1>7. CASE WriteDone
  BY <1>7, WriteDoneDoes DEF WriteDone, RunInv, SameBut
<1>8. CASE NextPage
  BY <1>8 DEF NextPage, RunInv
<1>9. CASE Archive
  <2>1. pc' \in {"put", "end"} /\ run.rest = {} /\ ~run.more
    BY <1>9 DEF Archive
  <2> QED BY <1>9, <2>1, OnwardDoes DEF RunInv, SameBut
<1>10. CASE Put \/ PutDone \/ PutsOver
  <2>1. pc' \in {"put", "putting", "end"} /\ pc \in {"put", "putting"}
    BY <1>10 DEF Put, PutDone, PutsOver
  <2> QED BY <1>10, <2>1, OnwardDoes DEF RunInv, SameBut
<1>11. CASE End \/ Fail \/ Crash
  BY <1>11, ReturnDoes DEF RunInv, NewRun
<1> QED BY <1>1, <1>2, <1>3, <1>4, <1>5, <1>6, <1>7, <1>8, <1>9, <1>10, <1>11 DEF Next, Step

\* What the steps leave of GitHub and of its history.
LEMMA StepsQuiet ==
    ASSUME Step \/ Crash
    PROVE  UNCHANGED <<conf, up, clock, changes, changed, shifted>>
BY DEF Step, ListIssues, ListDiscussions, SkipItem, Write, WriteDone, NextPage, Archive, Put,
   PutDone, PutsOver, End, Fail, Crash, Return, Quiet, upVars

\* What a change upstream does.
LEMMA ChangeDoes ==
    ASSUME TypeOK, NEW i \in Items, Update(i) \/ Remove(i)
    PROVE  /\ \A j \in Items \ {i} : up'[j] = up[j]
           /\ up'[i].at <= clock' /\ clock <= clock' /\ clock' \in Nat
           /\ up'[i].ver > 0 => up'[i].at = clock'
           /\ changed' = changed \cup {i} /\ shifted' = (shifted \/ (pc # "idle" /\ run.more))
           /\ UNCHANGED <<conf, files, stored, pc, run>>
<1>0. up \in [Items -> Content]
  BY DEF TypeOK, Contents
<1>1. /\ \A j \in Items \ {i} : up'[j] = up[j]
      /\ up'[i].at <= clock' /\ clock <= clock' /\ clock' \in Nat
      /\ up'[i].ver > 0 => up'[i].at = clock'
  <2>1. CASE Update(i)
    <3> DEFINE c == [at |-> clock', ver |-> up[i].ver + 1]
    <3>1. up' = [up EXCEPT ![i] = c] /\ clock <= clock' /\ clock' \in Nat
      BY <2>1 DEF Update, Change
    <3>2. c.at = clock'
      OBVIOUS
    <3> HIDE DEF c
    <3>3. up'[i] = c /\ \A j \in Items \ {i} : up'[j] = up[j]
      BY <1>0, <3>1
    <3> QED BY <3>1, <3>2, <3>3
  <2>2. CASE Remove(i)
    <3>1. up' = [up EXCEPT ![i] = None] /\ clock' = clock /\ clock \in Nat
      BY <2>2, FeedAssumption DEF Remove, Change, TypeOK
    <3>2. None.at = 0 /\ None.ver = 0
      BY DEF None
    <3>3. up'[i] = None /\ \A j \in Items \ {i} : up'[j] = up[j]
      BY <1>0, <3>1
    <3> QED BY <3>1, <3>2, <3>3
  <2> QED BY <2>1, <2>2
<1>2. /\ changed' = changed \cup {i} /\ shifted' = (shifted \/ (pc # "idle" /\ run.more))
      /\ UNCHANGED <<conf, files, stored, pc, run>>
  BY Zenon DEF Update, Remove, Change
<1> QED BY <1>1, <1>2

LEMMA StampInductive == TypeOK /\ RunInv /\ StampInv /\ [Next]_vars => StampInv'
<1> SUFFICES ASSUME TypeOK, RunInv, StampInv, [Next]_vars PROVE StampInv'
  OBVIOUS
<1>0. /\ run \in Runs /\ clock \in Nat /\ run.last \in Nat
      /\ \A i \in Items : up[i].at \in Nat /\ files[i].at \in Nat
      /\ \A x \in run.rest : x.at \in Nat /\ x.num \in Items
  BY FeedAssumption DEF TypeOK, Runs, Contents, Content
<1>1. CASE UNCHANGED vars
  BY <1>1 DEF vars, upVars, StampInv
<1>2. ASSUME NEW i \in Items, Update(i) \/ Remove(i) PROVE StampInv'
  <2>1. /\ \A j \in Items \ {i} : up'[j] = up[j]
        /\ up'[i].at <= clock' /\ clock <= clock' /\ clock' \in Nat
        /\ run' = run /\ files' = files
    BY <1>2, ChangeDoes
  <2>3. \A j \in Items : up'[j].at <= clock'
    BY <1>0, <2>1 DEF StampInv
  <2> QED BY <1>0, <2>1, <2>3 DEF StampInv
<1>3. CASE Begin
  <2>1. /\ UNCHANGED <<up, clock, files>> /\ run'.rest = {}
        /\ \E t \in 0..MaxTime : Newest(t) /\ run'.last = t
    BY <1>3, BeginDoes DEF Begin, upVars
  <2>2. run'.last <= clock
    BY <1>0, <2>1, FeedAssumption DEF Newest, StampInv
  <2> QED BY <2>1, <2>2 DEF StampInv
<1>4. CASE ListIssues \/ ListDiscussions
  <2>1. UNCHANGED <<up, clock, files>> /\ run'.last = run.last
    BY <1>4, ListIssuesDoes, ListDiscussionsDoes, StepsQuiet
       DEF Step, ListIssues, ListDiscussions
  <2>2. \A x \in run'.rest : x.num \in Items /\ x = Item(x.num)
    <3>1. PICK S \in SUBSET Items : run'.rest = Listed(S)
      <4>1. IssuePage \in SUBSET Items /\ DiscussionPage \in SUBSET Items
        BY DEF IssuePage, Since, DiscussionPage, AfterCursor, There
      <4> QED BY <1>4, <4>1, ListIssuesDoes, ListDiscussionsDoes
    <3> QED BY <3>1, ListedItems
  <2>3. \A x \in run'.rest : x.at <= clock
    BY <2>2, ListedItems DEF StampInv
  <2> QED BY <2>1, <2>3 DEF StampInv
<1>5. CASE SkipItem
  <2>1. files' = files
    BY <1>5 DEF SkipItem
  <2> QED BY <1>5, <2>1, SkipDoes, StepsQuiet DEF Step, StampInv, SameBut
<1>6. CASE Write
  <2>1. \A j \in Items : files'[j].at <= clock
    <3>1. PICK x \in run.rest : \E stamp \in {0, x.at} : \A j \in Items :
            files'[j] = IF j = x.num THEN [at |-> stamp, ver |-> 0] ELSE files[j]
      BY <1>6, WriteDoes
    <3>2. PICK stamp \in {0, x.at} : \A j \in Items :
            files'[j] = IF j = x.num THEN [at |-> stamp, ver |-> 0] ELSE files[j]
      BY <3>1
    <3>3. stamp <= clock
      BY <1>0, <3>2 DEF StampInv
    <3> QED BY <3>2, <3>3 DEF StampInv
  <2> QED BY <1>6, <2>1, WriteDoes, StepsQuiet DEF Step, StampInv, SameBut
<1>7. CASE WriteDone
  <2>1. \A j \in Items : files'[j].at <= clock
    <3>1. PICK x \in run.rest : \A j \in Items :
            files'[j] = IF j = x.num THEN [at |-> x.at, ver |-> x.ver] ELSE files[j]
      BY <1>7, WriteDoneDoes
    <3> QED BY <3>1 DEF StampInv
  <2> QED BY <1>7, <2>1, WriteDoneDoes, StepsQuiet DEF Step, StampInv, SameBut
<1>8. CASE NextPage \/ Archive \/ Put \/ PutDone \/ PutsOver
  BY <1>8, OnwardDoes, StepsQuiet DEF Step, StampInv, SameBut
<1>9. CASE End \/ Fail \/ Crash
  <2>1. /\ files' \in {files, Nothing} /\ run'.rest = {} /\ run'.last = 0
        /\ UNCHANGED <<up, clock>>
    BY <1>9, ReturnDoes, StepsQuiet DEF Step, NewRun
  <2>2. \A i \in Items : files'[i].at <= clock
    BY <1>0, <2>1 DEF Nothing, None, StampInv
  <2> QED BY <1>0, <2>1, <2>2 DEF StampInv
<1> QED BY <1>1, <1>2, <1>3, <1>4, <1>5, <1>6, <1>7, <1>8, <1>9 DEF Next, Step
-----------------------------------------------------------------------------
(* Discussions.                                                               *)

\* What is left of a page is upstream as listed, unless it changed.
RestInv == \A x \in run.rest : x.num \notin changed => x.num \in There /\ x = Item(x.num)

\* A change leaves the other items as they are.
LEMMA OthersStay ==
    ASSUME TypeOK, NEW i \in Items, Update(i) \/ Remove(i)
    PROVE  \A j \in Items \ changed' :
            /\ j \notin changed /\ up'[j] = up[j] /\ Item(j)' = Item(j)
            /\ (j \in There)' = (j \in There)
<1>1. \A j \in Items \ changed' : j \notin changed /\ up'[j] = up[j]
  BY ChangeDoes
<1> QED BY <1>1 DEF Item, There

LEMMA RestInductive == TypeOK /\ RunInv /\ RestInv /\ [Next]_vars => RestInv'
<1> SUFFICES ASSUME TypeOK, RunInv, RestInv, [Next]_vars PROVE RestInv'
  OBVIOUS
<1>0. run \in Runs /\ \A x \in run.rest : x.num \in Items
  BY DEF TypeOK, Runs
<1>1. CASE UNCHANGED vars
  BY <1>1 DEF vars, upVars, RestInv, There, Item
<1>2. ASSUME NEW i \in Items, Update(i) \/ Remove(i) PROVE RestInv'
  <2>1. run' = run
    BY <1>2, ChangeDoes
  <2>2. \A x \in run'.rest : x.num \notin changed' => (x.num \in There)' /\ x = Item(x.num)'
    BY <1>0, <1>2, <2>1, OthersStay DEF RestInv
  <2> QED BY <2>2 DEF RestInv, There, Item
<1>3. CASE Begin
  BY <1>3, BeginDoes DEF RestInv
<1>4. CASE ListIssues \/ ListDiscussions
  <2>1. PICK S \in SUBSET There : run'.rest = Listed(S)
    <3>1. IssuePage \in SUBSET There /\ DiscussionPage \in SUBSET There
      BY DEF IssuePage, Since, DiscussionPage, AfterCursor, There
    <3> QED BY <1>4, <3>1, ListIssuesDoes, ListDiscussionsDoes
  <2>2. \A x \in run'.rest : x.num \in There /\ x = Item(x.num)
    BY <2>1, ListedItems
  <2>3. up' = up
    BY <1>4, StepsQuiet DEF Step
  <2> QED BY <2>2, <2>3 DEF RestInv, There, Item
<1>5. CASE SkipItem \/ Write \/ WriteDone \/ NextPage \/ Archive \/ Put \/ PutDone \/ PutsOver
  <2>1. run'.rest \in SUBSET run.rest
    BY <1>5, SkipDoes, WriteDoes, WriteDoneDoes, OnwardDoes DEF SameBut
  <2>2. up' = up /\ changed' = changed
    BY <1>5, StepsQuiet DEF Step
  <2> QED BY <2>1, <2>2 DEF RestInv, There, Item
<1>6. CASE End \/ Fail \/ Crash
  BY <1>6, ReturnDoes DEF RestInv, NewRun
<1> QED BY <1>1, <1>2, <1>3, <1>4, <1>5, <1>6 DEF Next, Step

\* Of a page and what comes after: an item that is not on the page comes after
\* its cursor, and there is a next page.
LEMMA PageOrAfter ==
    ASSUME TypeOK, ListDiscussions, NEW i \in AfterCursor, i \notin DiscussionPage
    PROVE  run'.more /\ (i \in AfterCursor)'
<1> DEFINE L == AfterCursor
<1>0. L \in SUBSET Items /\ i \in There /\ i \in Items /\ conf.kind = "discussion"
      /\ \A j \in Items : j \in Nat /\ up[j].at \in Nat
  BY FeedAssumption DEF ListDiscussions, AfterCursor, There, TypeOK, Contents, Content
<1>1. Rank(L, i) \in Nat /\ Rank(L, i) < Cardinality(L) /\ Cardinality(L) \in Nat
  BY <1>0, RankGrows
<1>2. Rank(L, i) >= PageSize
  BY <1>1, FeedAssumption DEF DiscussionPage
<1>3. MoreDiscussions
  BY <1>1, <1>2, FeedAssumption DEF MoreDiscussions
<1>4. DiscussionPage # {}
  <2>1. PICK f \in L : \A j \in L : ~Before(j, f)
    BY <1>0, FirstAndLast
  <2>2. {j \in L : Before(j, f)} = {}
    BY <2>1
  <2>3. Rank(L, f) = 0
    BY <2>2, FS_EmptySet DEF Rank
  <2> QED BY <2>3, FeedAssumption DEF DiscussionPage
<1>5. PICK l \in DiscussionPage : EndCursor = [at |-> up[l].at, num |-> l]
  BY <1>4, EndCursorIs
<1>6. l \in L /\ l \in Items /\ Rank(L, l) < PageSize /\ Rank(L, l) \in Nat
  BY <1>0, RankGrows DEF DiscussionPage
<1>7. ~Before(i, l) /\ i # l
  BY <1>0, <1>1, <1>2, <1>6, RankGrows, FeedAssumption
<1>8. Before(l, i)
  BY <1>0, <1>6, <1>7, BeforeOrder
<1>9. up[i].at < up[l].at \/ (up[i].at = up[l].at /\ l < i)
  BY <1>0, <1>6, <1>8 DEF Before
<1>10. run'.cursor.at = up[l].at /\ run'.cursor.num = l /\ up' = up
  BY <1>4, <1>5, ListDiscussionsDoes DEF ListDiscussions, Quiet, upVars
<1>11. run'.more
  BY <1>3, ListDiscussionsDoes
<1> QED BY <1>0, <1>9, <1>10, <1>11 DEF AfterCursor, There

\* Every discussion that counts is stored, on the page or on one to come.
AheadInv ==
    conf.kind = "discussion" /\ pc # "idle" =>
        \A i \in There \ changed :
            up[i].at > run.last =>
                \/ files[i] = up[i]
                \/ Item(i) \in run.rest
                \/ (pc = "list" \/ run.more) /\ i \in AfterCursor

LEMMA AheadInductive ==
    TypeOK /\ RunInv /\ RestInv /\ AheadInv /\ [Next]_vars => AheadInv'
<1> SUFFICES ASSUME TypeOK, RunInv, RestInv, AheadInv, [Next]_vars,
                    conf'.kind = "discussion", pc' # "idle",
                    NEW i \in Items, i \in There', i \notin changed', up'[i].at > run'.last
             PROVE  \/ files'[i] = up'[i]
                    \/ Item(i)' \in run'.rest
                    \/ (pc' = "list" \/ run'.more) /\ (i \in AfterCursor)'
  BY DEF AheadInv, There
<1> USE DEF Goto
<1>1. CASE UNCHANGED vars \/ \E k \in Items : Update(k) \/ Remove(k)
  <2>1. UNCHANGED <<conf, files, pc, run>>
    BY <1>1, ChangeDoes DEF vars
  <2>2. i \notin changed /\ up'[i] = up[i] /\ Item(i)' = Item(i) /\ i \in There
    <3>1. CASE UNCHANGED vars
      BY <3>1 DEF vars, upVars, Item, There
    <3>2. CASE \E k \in Items : Update(k) \/ Remove(k)
      BY <3>2, OthersStay
    <3> QED BY <1>1, <3>1, <3>2
  <2>3. i \in AfterCursor => (i \in AfterCursor)'
    BY <2>1, <2>2 DEF AfterCursor, There
  <2> QED BY <2>1, <2>2, <2>3 DEF AheadInv
<1>2. CASE Begin
  BY <1>2, BeginDoes DEF Begin, AfterCursor, There
<1> SUFFICES ASSUME Step PROVE \/ files'[i] = up'[i]
                               \/ Item(i)' \in run'.rest
                               \/ (pc' = "list" \/ run'.more) /\ (i \in AfterCursor)'
  BY <1>1, <1>2, ReturnDoes DEF Next
<1>3. /\ up' = up /\ changed' = changed /\ conf' = conf
      /\ Item(i)' = Item(i) /\ i \in There /\ i \notin changed /\ conf.kind = "discussion"
  BY StepsQuiet DEF Item, There
<1>4. ASSUME up[i].at > run.last, pc # "idle"
      PROVE  \/ files[i] = up[i]
             \/ Item(i) \in run.rest
             \/ (pc = "list" \/ run.more) /\ i \in AfterCursor
  BY <1>3, <1>4 DEF AheadInv
<1>5. CASE ListDiscussions
  <2>1. run.rest = {} /\ files' = files /\ run'.last = run.last /\ pc = "list"
    BY <1>5, ListDiscussionsDoes DEF ListDiscussions, RunInv
  <2>2. CASE i \in DiscussionPage
    BY <1>3, <1>5, <2>2, ListDiscussionsDoes, ListedItems
  <2>3. CASE i \notin DiscussionPage /\ i \in AfterCursor
    BY <1>5, <2>3, PageOrAfter
  <2>4. CASE i \notin AfterCursor
    BY <1>3, <1>4, <2>1, <2>4
  <2> QED BY <2>2, <2>3, <2>4
<1>6. CASE SkipItem
  <2>1. PICK x \in run.rest : Skipped(x) /\ run'.rest = run.rest \ {x}
    BY <1>6, SkipDoes
  <2>2. SameBut({"rest"}) /\ files' = files /\ pc' = pc /\ pc = "items"
    BY <1>6, SkipDoes DEF SkipItem
  <2>3. x.at <= run.last /\ run.last \in Nat /\ up[i].at \in Nat
    BY <2>1, FeedAssumption DEF Skipped, TypeOK, Runs, Contents, Content
  <2>4. Item(i) # x
    BY <1>3, <2>2, <2>3, ListedItems DEF SameBut
  <2>5. (i \in AfterCursor)' = (i \in AfterCursor)
    BY <1>3, <2>2 DEF AfterCursor, There, SameBut
  <2> QED BY <1>3, <1>4, <2>1, <2>2, <2>4, <2>5 DEF SameBut
<1>7. CASE Write
  <2>1. PICK x \in run.rest : \A j \in Items : j # x.num => files'[j] = files[j]
    BY <1>7, WriteDoes
  <2>2. SameBut({"updated"}) /\ pc' = "write" /\ pc = "items"
    BY <1>7, WriteDoes DEF Write
  <2>3. (i \in AfterCursor)' = (i \in AfterCursor)
    BY <1>3, <2>2 DEF AfterCursor, There, SameBut
  <2>4. i = x.num => Item(i) \in run.rest
    BY <1>3, <2>1 DEF RestInv
  <2> QED BY <1>3, <1>4, <2>1, <2>2, <2>3, <2>4 DEF SameBut
<1>8. CASE WriteDone
  <2>1. PICK x \in run.rest :
            /\ run'.rest = run.rest \ {x}
            /\ \A j \in Items :
                files'[j] = IF j = x.num THEN [at |-> x.at, ver |-> x.ver] ELSE files[j]
    BY <1>8, WriteDoneDoes
  <2>2. SameBut({"rest"}) /\ pc' = "items" /\ pc = "write"
    BY <1>8, WriteDoneDoes DEF WriteDone
  <2>3. (i \in AfterCursor)' = (i \in AfterCursor)
    BY <1>3, <2>2 DEF AfterCursor, There, SameBut
  <2>4. i = x.num => files'[i] = up[i]
    <3>1. i = x.num => x.at = up[i].at /\ x.ver = up[i].ver
      BY <1>3, <2>1, ListedItems DEF RestInv
    <3>2. up[i] = [at |-> up[i].at, ver |-> up[i].ver]
      BY DEF TypeOK, Contents, Content
    <3> QED BY <2>1, <3>1, <3>2
  <2>5. i # x.num => Item(i) # x
    BY ListedItems
  <2> QED BY <1>3, <1>4, <2>1, <2>2, <2>3, <2>4, <2>5 DEF SameBut
<1>9. CASE NextPage \/ Archive \/ Put \/ PutDone \/ PutsOver
  <2>1. SameBut({}) /\ files' = files /\ pc # "idle"
    BY <1>9, OnwardDoes DEF NextPage, Archive, Put, PutDone, PutsOver
  <2>2. pc # "list"
    BY <1>9 DEF NextPage, Archive, Put, PutDone, PutsOver
  <2>3. (i \in AfterCursor)' = (i \in AfterCursor)
    BY <1>3, <2>1 DEF AfterCursor, There, SameBut
  <2> QED BY <1>3, <1>4, <2>1, <2>2, <2>3 DEF SameBut
<1>10. CASE ListIssues
  BY <1>3, <1>10 DEF ListIssues
<1> QED BY <1>5, <1>6, <1>7, <1>8, <1>9, <1>10, ReturnDoes DEF Step
-----------------------------------------------------------------------------
(* Issues.  No page of theirs has shifted under a run.                        *)

Steady == conf.kind = "issue" /\ ~shifted
PageOf(i) == Rank(Since, i) \div PageSize

\* An issue is on a page to come.
Waits(i) ==
    \/ pc = "list" /\ run.page = 1
    \/ run.more /\ PageOf(i) >= run.page - 1

\* An issue was changed after the last listing: nothing listed or stored is newer.
Latest(i) ==
    /\ ~run.more /\ pc \notin {"idle", "list"} /\ i \in changed
    /\ \A x \in run.rest : x.at <= up[i].at
    /\ \A j \in Items : files[j].at <= up[i].at

\* What is older than a file is stored.
OrderInv == \A i \in There, j \in Items : up[i].at < files[j].at => files[i] = up[i]

\* What is older than the start of a run is stored.
BehindInv == pc # "idle" => \A i \in There : up[i].at < run.last => files[i] = up[i]

\* What is not is stored, on the page, on one to come, or newer than all.
ComingInv ==
    pc # "idle" =>
        \A i \in There :
            up[i].at >= run.last =>
                files[i] = up[i] \/ Item(i) \in run.rest \/ Waits(i) \/ Latest(i)

\* What is on the page is upstream as listed, or changed since the last page.
DueInv ==
    \A x \in run.rest :
        /\ x.at >= run.last
        /\ \/ x.num \in There /\ x = Item(x.num)
           \/ ~run.more /\ (x.num \in There => Latest(x.num))

PageInv == run.more => \A x \in run.rest : PageOf(x.num) = run.page - 2

\* No file is newer than what is still to come.
FilesInv ==
    \A j \in Items :
        /\ \A x \in run.rest : files[j].at <= x.at
        /\ pc = "list" /\ run.page = 1 => files[j].at <= run.last
        /\ run.more => \A k \in Since : PageOf(k) >= run.page - 1 => files[j].at <= up[k].at

SteadyInv == OrderInv /\ BehindInv /\ ComingInv /\ DueInv /\ PageInv /\ FilesInv

LEMMA FeedNumbers ==
    ASSUME TypeOK
    PROVE  /\ run \in Runs /\ clock \in Nat /\ run.last \in Nat /\ run.page \in Nat \ {0}
           /\ \A i \in Items : up[i].at \in Nat /\ files[i].at \in Nat
           /\ \A x \in run.rest : x.at \in Nat /\ x.num \in Items
           /\ Since \in SUBSET Items /\ There \in SUBSET Items
           /\ \A i \in Items : Rank(Since, i) \in Nat /\ PageOf(i) \in Nat
<1>1. Since \in SUBSET Items /\ There \in SUBSET Items
  BY DEF Since, There
<1>2. \A i \in Items : Rank(Since, i) \in Nat
  BY <1>1, RankGrows
<1>3. \A r \in Nat : r \div PageSize \in Nat
  BY FeedAssumption
<1>4. \A i \in Items : PageOf(i) \in Nat
  BY <1>2, <1>3 DEF PageOf
<1>5. /\ run \in Runs /\ clock \in Nat /\ run.last \in Nat /\ run.page \in Nat \ {0}
      /\ \A i \in Items : up[i].at \in Nat /\ files[i].at \in Nat
      /\ \A x \in run.rest : x.at \in Nat /\ x.num \in Items
  BY FeedAssumption DEF TypeOK, Runs, Contents, Content
<1> QED BY <1>1, <1>2, <1>4, <1>5

\* Pages come in the order of the listing, and one with an issue is not over
\* before the listing is.
LEMMA PagesInOrder ==
    ASSUME TypeOK, conf.kind = "issue"
    PROVE  /\ \A i, j \in Since : PageOf(i) < PageOf(j) => up[i].at <= up[j].at
           /\ \A i \in Since, p \in Nat : PageOf(i) >= p => Cardinality(Since) > p * PageSize
<1>0. Since \in SUBSET Items /\ \A i \in Items : Rank(Since, i) \in Nat /\ up[i].at \in Nat
  BY FeedNumbers
<1>1. ASSUME NEW i \in Since, NEW j \in Since, PageOf(i) < PageOf(j)
      PROVE  up[i].at <= up[j].at
  <2>1. \A r, s \in Nat : r <= s => r \div PageSize <= s \div PageSize
    BY FeedAssumption
  <2>2. \A r \in Nat : r \div PageSize \in Int
    BY FeedAssumption
  <2>3. Rank(Since, i) < Rank(Since, j)
    <3> DEFINE r == Rank(Since, i)
               s == Rank(Since, j)
    <3>1. r \in Nat /\ s \in Nat /\ r \div PageSize < s \div PageSize
      BY <1>0, <1>1 DEF PageOf
    <3> HIDE DEF r, s
    <3>2. r < s
      BY <2>1, <2>2, <3>1
    <3> QED BY <3>2 DEF r, s
  <2>4. ~Before(j, i)
    BY <1>0, <2>3, RankGrows
  <2> QED BY <1>0, <2>4 DEF Before
<1>2. ASSUME NEW i \in Since, NEW p \in Nat, PageOf(i) >= p
      PROVE  Cardinality(Since) > p * PageSize
  <2>1. \A r, q \in Nat : r \div PageSize >= q => r >= q * PageSize
    BY FeedAssumption
  <2>2. Rank(Since, i) >= p * PageSize
    BY <1>0, <1>2, <2>1 DEF PageOf
  <2>3. /\ Rank(Since, i) < Cardinality(Since) /\ Cardinality(Since) \in Nat
        /\ Rank(Since, i) \in Nat
    BY <1>0, RankGrows
  <2>4. p * PageSize \in Nat
    BY FeedAssumption
  <2> QED BY <2>2, <2>3, <2>4
<1> QED BY <1>1, <1>2

LEMMA SamePages ==
    ASSUME UNCHANGED <<conf, up>>, run'.last = run.last
    PROVE  Since' = Since /\ There' = There /\ \A i : PageOf(i)' = PageOf(i) /\ Item(i)' = Item(i)
<1>1. Since' = Since /\ There' = There
  BY DEF Since, There
<1>2. \A i, L : Rank(L, i)' = Rank(L, i)
  BY DEF Rank, Before
<1>3. \A i : Item(i)' = Item(i)
  BY DEF Item
<1> QED BY <1>1, <1>2, <1>3 DEF PageOf

\* A change upstream while the order holds comes before the first page, or
\* after the last, and makes an issue the newest of all.
LEMMA SteadyUpstream ==
    ASSUME TypeOK, RunInv, StampInv, SteadyInv, conf.kind = "issue",
           NEW k \in Items, Update(k) \/ Remove(k), ~shifted'
    PROVE  SteadyInv'
<1>1. ~run.more
  <2>1. pc = "idle" => ~run.more
    BY DEF RunInv, NewRun
  <2> QED BY <2>1, ChangeDoes
<1>2. /\ UNCHANGED <<conf, files, pc, run>> /\ changed' = changed \cup {k}
      /\ clock <= clock' /\ clock' \in Nat
      /\ k \in There' => up'[k].at = clock'
  <2>1. k \in There' => up'[k].ver > 0
    BY DEF There
  <2> QED BY <2>1, ChangeDoes
<1>3. \A i \in Items \ {k} : up'[i] = up[i] /\ Item(i)' = Item(i) /\ (i \in There' <=> i \in There)
  <2>1. \A i \in Items \ {k} : up'[i] = up[i]
    BY ChangeDoes
  <2> QED BY <2>1 DEF Item, There
<1>4. There' \in SUBSET Items
  BY DEF There
<1>5. /\ run.last <= clock' /\ \A i \in Items : files[i].at <= clock'
      /\ \A x \in run.rest : x.at <= clock'
  BY <1>2, FeedNumbers DEF StampInv
<1>6. k \in There' /\ pc \notin {"idle", "list"} => Latest(k)'
  <2> SUFFICES ASSUME k \in There', pc \notin {"idle", "list"} PROVE Latest(k)'
    OBVIOUS
  <2>1. \A x \in run'.rest : x.at <= up'[k].at
    BY <1>2, <1>5
  <2>2. \A j \in Items : files'[j].at <= up'[k].at
    BY <1>2, <1>5
  <2> QED BY <1>1, <1>2, <2>1, <2>2 DEF Latest
<1>7. \A i \in Items \ {k} : Latest(i) => Latest(i)'
  BY <1>2, <1>3 DEF Latest
<1>8. OrderInv'
  <2> SUFFICES ASSUME NEW i \in There', NEW j \in Items, up'[i].at < files'[j].at
               PROVE  files'[i] = up'[i]
    BY DEF OrderInv
  <2>1. i # k
    BY <1>2, <1>5, FeedNumbers
  <2> QED BY <1>2, <1>3, <1>4, <2>1 DEF OrderInv, SteadyInv
<1>9. BehindInv'
  <2> SUFFICES ASSUME pc' # "idle", NEW i \in There', up'[i].at < run'.last
               PROVE  files'[i] = up'[i]
    BY DEF BehindInv
  <2>1. i # k
    BY <1>2, <1>5, FeedNumbers
  <2> QED BY <1>2, <1>3, <1>4, <2>1 DEF BehindInv, SteadyInv
<1>10. ComingInv'
  <2> SUFFICES ASSUME pc' # "idle", NEW i \in There', up'[i].at >= run'.last
               PROVE  files'[i] = up'[i] \/ Item(i)' \in run'.rest \/ Waits(i)' \/ Latest(i)'
    BY DEF ComingInv
  <2>1. CASE pc = "list"
    BY <1>1, <1>2, <2>1 DEF RunInv, Waits
  <2>2. CASE pc # "list" /\ i = k
    BY <1>2, <1>6, <2>2
  <2>3. CASE pc # "list" /\ i # k
    <3>1. i \in There /\ i \in Items \ {k} /\ up[i].at >= run.last /\ ~Waits(i)
      BY <1>1, <1>2, <1>3, <1>4, <2>3 DEF Waits
    <3>2. files[i] = up[i] \/ Item(i) \in run.rest \/ Latest(i)
      BY <1>2, <3>1 DEF ComingInv, SteadyInv
    <3> QED BY <1>2, <1>3, <1>7, <3>1, <3>2
  <2> QED BY <2>1, <2>2, <2>3
<1>11. DueInv'
  <2> SUFFICES ASSUME NEW x \in run.rest
               PROVE  /\ x.at >= run.last
                      /\ \/ x.num \in There' /\ x = Item(x.num)'
                         \/ ~run.more /\ (x.num \in There' => Latest(x.num)')
    BY <1>2 DEF DueInv
  <2>1. x.at >= run.last /\ x.num \in Items
    BY FeedNumbers DEF DueInv, SteadyInv
  <2>2. pc \notin {"idle", "list"}
    BY DEF RunInv, NewRun
  <2>3. CASE x.num = k
    BY <1>1, <1>6, <2>1, <2>2, <2>3
  <2>4. CASE x.num # k
    BY <1>1, <1>3, <1>7, <2>1, <2>4 DEF DueInv, SteadyInv
  <2> QED BY <2>3, <2>4
<1>12. PageInv'
  BY <1>1, <1>2 DEF PageInv, SteadyInv
<1>13. FilesInv'
  BY <1>1, <1>2 DEF FilesInv, SteadyInv
<1> QED BY <1>8, <1>9, <1>10, <1>11, <1>12, <1>13 DEF SteadyInv

LEMMA SteadyBegin ==
    ASSUME TypeOK, SteadyInv, Begin
    PROVE  SteadyInv'
<1>1. /\ UNCHANGED <<conf, up, files>> /\ pc' = "list"
      /\ run'.rest = {} /\ run'.more = FALSE /\ run'.page = 1
  BY BeginDoes DEF Begin, upVars, Goto
<1>2. PICK t \in 0..MaxTime : Newest(t) /\ run'.last = t
  BY BeginDoes
<1>3. There' = There
  BY <1>1 DEF There
<1>4. OrderInv'
  BY <1>1, <1>3 DEF OrderInv, SteadyInv
<1>5. BehindInv'
  <2> SUFFICES ASSUME NEW i \in There, up[i].at < run'.last PROVE files[i] = up[i]
    BY <1>1, <1>3 DEF BehindInv
  <2>1. PICK j \in Items : files[j].at = t
    BY <1>2, FeedNumbers DEF Newest
  <2> QED BY <1>2, <2>1 DEF SteadyInv, OrderInv
<1>6. ComingInv'
  BY <1>1 DEF ComingInv, Waits
<1>7. DueInv' /\ PageInv'
  BY <1>1 DEF DueInv, PageInv
<1>8. FilesInv'
  BY <1>1, <1>2 DEF FilesInv, Newest
<1> QED BY <1>4, <1>5, <1>6, <1>7, <1>8 DEF SteadyInv

LEMMA SteadyList ==
    ASSUME TypeOK, RunInv, SteadyInv, ListIssues
    PROVE  SteadyInv'
<1>1. /\ UNCHANGED <<conf, up, files, changed>> /\ run.rest = {}
      /\ pc = "list" /\ pc' = "items" /\ conf.kind = "issue"
      /\ run'.rest = Listed(IssuePage) /\ run'.more = MoreIssues
      /\ run'.page = run.page + 1 /\ run'.last = run.last
  BY ListIssuesDoes DEF ListIssues, Quiet, upVars, Goto, RunInv
<1>2. Since' = Since /\ There' = There /\ \A i : PageOf(i)' = PageOf(i) /\ Item(i)' = Item(i)
  BY <1>1, SamePages
<1>3. \A i \in Since : i \in IssuePage <=> PageOf(i) = run.page - 1
  BY DEF IssuePage, PageOf
<1>4. IssuePage \in SUBSET Since /\ Since \in SUBSET There /\ Since \in SUBSET Items
  BY FeedNumbers DEF IssuePage, Since
<1>5. \A i \in Since : up[i].at >= run.last
  BY DEF Since
<1>6. \A i \in There : up[i].at >= run.last => i \in Since
  BY DEF Since
<1>7. \A x \in run'.rest : x.num \in IssuePage /\ x = Item(x.num) /\ x.at = up[x.num].at
  BY <1>1, ListedItems
<1>8. run.page = 1 \/ run.more
  BY <1>1 DEF RunInv
<1>9. \A i \in Since : PageOf(i) \in Nat /\ (PageOf(i) >= run.page => run'.more)
  BY <1>1, <1>4, FeedNumbers, PagesInOrder DEF MoreIssues
<1>10. \A j \in Items, i \in Since : PageOf(i) >= run.page - 1 => files[j].at <= up[i].at
  <2> SUFFICES ASSUME NEW j \in Items, NEW i \in Since, PageOf(i) >= run.page - 1
               PROVE  files[j].at <= up[i].at
    OBVIOUS
  <2>1. CASE run.page = 1
    <3>1. files[j].at <= run.last
      BY <1>1, <2>1 DEF SteadyInv, FilesInv
    <3> QED BY <1>4, <1>5, <3>1, FeedNumbers
  <2>2. CASE run.more
    BY <2>2 DEF SteadyInv, FilesInv
  <2> QED BY <1>8, <2>1, <2>2
<1>11. OrderInv'
  BY <1>1, <1>2 DEF OrderInv, SteadyInv
<1>12. BehindInv'
  BY <1>1, <1>2 DEF BehindInv, SteadyInv
<1>13. ComingInv'
  <2> SUFFICES ASSUME NEW i \in There, up[i].at >= run.last
               PROVE  files[i] = up[i] \/ Item(i) \in run'.rest \/ Waits(i)'
    BY <1>1, <1>2 DEF ComingInv
  <2>1. i \in Since
    BY <1>6
  <2>2. files[i] = up[i] \/ Waits(i)
    BY <1>1 DEF SteadyInv, ComingInv, Latest
  <2>3. ASSUME Waits(i) PROVE PageOf(i) >= run.page - 1
    BY <1>9, <2>1, <2>3 DEF Waits
  <2>4. CASE PageOf(i) = run.page - 1
    BY <1>1, <1>3, <2>1, <2>4, ListedItems
  <2>5. CASE PageOf(i) >= run.page
    BY <1>1, <1>2, <1>9, <2>1, <2>5, FeedNumbers DEF Waits
  <2> QED BY <1>9, <2>1, <2>2, <2>3, <2>4, <2>5, FeedNumbers
<1>14. DueInv'
  BY <1>1, <1>2, <1>4, <1>5, <1>7 DEF DueInv
<1>15. PageInv'
  <2>1. \A x \in run'.rest : PageOf(x.num) = run.page - 1
    BY <1>3, <1>4, <1>7
  <2> QED BY <1>1, <1>2, <2>1, FeedNumbers DEF PageInv
<1>16. FilesInv'
  <2>1. \A j \in Items, x \in run'.rest : files[j].at <= x.at
    BY <1>3, <1>4, <1>7, <1>9, <1>10, FeedNumbers
  <2>2. \A j \in Items, i \in Since : PageOf(i) >= run'.page - 1 => files[j].at <= up[i].at
    BY <1>1, <1>9, <1>10, FeedNumbers
  <2> QED BY <1>1, <1>2, <2>1, <2>2 DEF FilesInv
<1> QED BY <1>11, <1>12, <1>13, <1>14, <1>15, <1>16 DEF SteadyInv

\* The first of the page is not newer than what is to come, nor older than what
\* is stored.
LEMMA FirstIsNext ==
    ASSUME TypeOK, SteadyInv, conf.kind = "issue", pc \in {"items", "write"},
           NEW x \in run.rest, First(x)
    PROVE  /\ \A y \in run.rest : x.at <= y.at
           /\ x.num \in There => /\ x.at <= up[x.num].at /\ run.last <= up[x.num].at
                                 /\ Item(x.num) = x \/ Latest(x.num)
                                 /\ \A j \in Items : files[j].at <= up[x.num].at
           /\ run.more => \A i \in Since : PageOf(i) >= run.page - 1 => x.at <= up[i].at
           /\ \A i \in There : up[i].at < x.at => i # x.num /\ files[i] = up[i]
<1>0. OrderInv /\ BehindInv /\ ComingInv /\ DueInv /\ PageInv /\ FilesInv
  BY DEF SteadyInv
<1>n. /\ x.at \in Nat /\ x.num \in Items /\ run.last \in Nat /\ run.page \in Nat
      /\ \A y \in run.rest : y.at \in Nat
      /\ \A i \in Items : up[i].at \in Nat /\ files[i].at \in Nat /\ PageOf(i) \in Nat
      /\ There \in SUBSET Items /\ Since \in SUBSET Items
  BY FeedNumbers
<1>1. \A y \in run.rest : x.at <= y.at
  <2>1. \A y \in run.rest \ {x} : x.at < y.at \/ x.at = y.at
    BY DEF First
  <2> QED BY <1>n, <2>1
<1>2. ASSUME x.num \in There
      PROVE  /\ x.at <= up[x.num].at /\ run.last <= up[x.num].at
             /\ Item(x.num) = x \/ Latest(x.num)
             /\ \A j \in Items : files[j].at <= up[x.num].at
  <2>1. x.at >= run.last /\ (x = Item(x.num) \/ Latest(x.num))
    BY <1>0, <1>2 DEF DueInv
  <2>2. x.at <= up[x.num].at
    <3>1. CASE x = Item(x.num)
      BY <1>n, <3>1, ListedItems
    <3>2. CASE Latest(x.num)
      BY <3>2 DEF Latest
    <3> QED BY <2>1, <3>1, <3>2
  <2>3. \A j \in Items : files[j].at <= x.at
    BY <1>0 DEF FilesInv
  <2> QED BY <1>n, <2>1, <2>2, <2>3
<1>3. ASSUME run.more, NEW i \in Since, PageOf(i) >= run.page - 1
      PROVE  x.at <= up[i].at
  <2>1. x.num \in There /\ x = Item(x.num) /\ x.at = up[x.num].at
    BY <1>0, <1>3, ListedItems DEF DueInv
  <2>2. x.num \in Since /\ PageOf(x.num) = run.page - 2
    BY <1>0, <1>2, <1>3, <2>1 DEF Since, PageInv
  <2>3. PageOf(x.num) < PageOf(i)
    BY <1>n, <1>3, <2>2
  <2> QED BY <2>1, <2>2, <2>3, PagesInOrder
<1>4. ASSUME NEW i \in There, up[i].at < x.at
      PROVE  i # x.num /\ files[i] = up[i]
  <2>1. i # x.num
    BY <1>2, <1>4, <1>n
  <2>2. ASSUME up[i].at >= run.last PROVE files[i] = up[i]
    <3>1. files[i] = up[i] \/ Item(i) \in run.rest \/ Waits(i) \/ Latest(i)
      BY <1>0, <2>2 DEF ComingInv
    <3>2. Item(i) \notin run.rest
      BY <1>1, <1>4, <1>n, ListedItems
    <3>3. ~Latest(i)
      BY <1>4, <1>n DEF Latest
    <3>4. ~Waits(i)
      <4>1. i \in Since
        BY <2>2 DEF Since
      <4> QED BY <1>3, <1>4, <1>n, <4>1 DEF Waits
    <3> QED BY <3>1, <3>2, <3>3, <3>4
  <2>3. ASSUME up[i].at < run.last PROVE files[i] = up[i]
    BY <1>0, <2>3 DEF BehindInv
  <2> QED BY <1>n, <2>1, <2>2, <2>3
<1> QED BY <1>1, <1>2, <1>3, <1>4

\* A file is written, in part or as a whole; then it is off the page.
LEMMA SteadyFile ==
    ASSUME TypeOK, RunInv, SteadyInv, conf.kind = "issue",
           pc \in {"items", "write"}, pc' \in {"items", "write"},
           UNCHANGED <<conf, up, changed>>,
           run'.last = run.last, run'.page = run.page, run'.more = run.more,
           NEW x \in run.rest, First(x), NEW c, c.at \in Nat, c.at <= x.at,
           \A j \in Items : files'[j] = IF j = x.num THEN c ELSE files[j],
           \/ run'.rest = run.rest
           \/ run'.rest = run.rest \ {x} /\ c = [at |-> x.at, ver |-> x.ver]
    PROVE  SteadyInv'
<1>0. OrderInv /\ BehindInv /\ ComingInv /\ DueInv /\ PageInv /\ FilesInv
  BY DEF SteadyInv
<1>n. /\ x.at \in Nat /\ x.num \in Items /\ run.last \in Nat /\ run.page \in Nat
      /\ \A y \in run.rest : y.at \in Nat /\ y.num \in Items
      /\ \A i \in Items : up[i].at \in Nat /\ files[i].at \in Nat /\ PageOf(i) \in Nat
      /\ There \in SUBSET Items /\ Since \in SUBSET Items
  BY FeedNumbers
<1>s. Since' = Since /\ There' = There /\ \A i : PageOf(i)' = PageOf(i) /\ Item(i)' = Item(i)
  BY SamePages
<1>f. /\ \A y \in run.rest : x.at <= y.at
      /\ x.num \in There => /\ x.at <= up[x.num].at /\ run.last <= up[x.num].at
                            /\ Item(x.num) = x \/ Latest(x.num)
                            /\ \A j \in Items : files[j].at <= up[x.num].at
      /\ run.more => \A i \in Since : PageOf(i) >= run.page - 1 => x.at <= up[i].at
      /\ \A i \in There : up[i].at < x.at => i # x.num /\ files[i] = up[i]
  BY FirstIsNext
<1>r. run'.rest \in SUBSET run.rest
  OBVIOUS
<1>1. \A i \in There : Latest(i) => Latest(i)'
  <2> SUFFICES ASSUME NEW i \in There, Latest(i) PROVE Latest(i)'
    OBVIOUS
  <2>1. \A j \in Items : files'[j].at <= up[i].at
    <3>1. x.at <= up[i].at /\ \A j \in Items : files[j].at <= up[i].at
      BY DEF Latest
    <3>2. c.at <= up[i].at
      BY <1>n, <3>1
    <3> QED BY <3>1, <3>2
  <2>2. \A y \in run'.rest : y.at <= up[i].at
    BY <1>r DEF Latest
  <2> QED BY <2>1, <2>2 DEF Latest
<1>2. OrderInv'
  <2> SUFFICES ASSUME NEW i \in There, NEW j \in Items, up[i].at < files'[j].at
               PROVE  files'[i] = up[i]
    BY <1>s DEF OrderInv
  <2>1. CASE j = x.num
    <3>1. up[i].at < x.at
      BY <1>n, <2>1
    <3> QED BY <1>f, <1>n, <3>1
  <2>2. CASE j # x.num
    <3>1. files[i] = up[i] /\ up[i].at < files[j].at
      BY <1>0, <2>2 DEF OrderInv
    <3>2. i # x.num
      BY <1>f, <1>n, <3>1
    <3> QED BY <1>n, <3>1, <3>2
  <2> QED BY <2>1, <2>2
<1>3. BehindInv'
  <2> SUFFICES ASSUME NEW i \in There, up[i].at < run.last PROVE files'[i] = up[i]
    BY <1>s DEF BehindInv
  <2>1. files[i] = up[i]
    BY <1>0 DEF BehindInv
  <2>2. i # x.num
    BY <1>f, <1>n
  <2> QED BY <1>n, <2>1, <2>2
<1>4. ComingInv'
  <2> SUFFICES ASSUME NEW i \in There, up[i].at >= run.last
               PROVE  files'[i] = up[i] \/ Item(i) \in run'.rest \/ Waits(i)' \/ Latest(i)'
    BY <1>s DEF ComingInv
  <2>1. Waits(i) => Waits(i)'
    BY <1>s DEF Waits
  <2>2. CASE i # x.num
    <3>1. files'[i] = files[i] /\ (Item(i) \in run.rest => Item(i) \in run'.rest)
      BY <1>n, <2>2, ListedItems
    <3> QED BY <1>0, <1>1, <2>1, <3>1 DEF ComingInv
  <2>3. CASE i = x.num /\ ~Latest(i)
    <3>1. Item(i) = x
      BY <1>f, <2>3
    <3>2. CASE run'.rest = run.rest
      BY <3>1, <3>2
    <3>3. CASE run'.rest = run.rest \ {x} /\ c = [at |-> x.at, ver |-> x.ver]
      <4>1. x.at = up[i].at /\ x.ver = up[i].ver
        BY <3>1, ListedItems
      <4>2. up[i] = [at |-> up[i].at, ver |-> up[i].ver]
        BY <1>n DEF TypeOK, Contents, Content
      <4>3. files'[i] = [at |-> x.at, ver |-> x.ver]
        BY <1>n, <2>3, <3>3
      <4> QED BY <4>1, <4>2, <4>3
    <3> QED BY <3>2, <3>3
  <2> QED BY <1>1, <2>2, <2>3
<1>5. DueInv'
  <2> SUFFICES ASSUME NEW y \in run.rest
               PROVE  /\ y.at >= run.last
                      /\ \/ y.num \in There /\ y = Item(y.num)
                         \/ ~run.more /\ (y.num \in There => Latest(y.num)')
    BY <1>r, <1>s DEF DueInv
  <2> QED BY <1>0, <1>1 DEF DueInv
<1>6. PageInv'
  BY <1>0, <1>r, <1>s DEF PageInv
<1>7. FilesInv'
  <2> SUFFICES ASSUME NEW j \in Items
               PROVE  /\ \A y \in run.rest : files'[j].at <= y.at
                      /\ run.more => \A k \in Since : PageOf(k) >= run.page - 1 =>
                                        files'[j].at <= up[k].at
    BY <1>r, <1>s DEF FilesInv
  <2>1. CASE j # x.num
    BY <1>0, <2>1 DEF FilesInv
  <2>2. CASE j = x.num
    <3>1. files'[j].at <= x.at /\ files'[j].at \in Nat
      BY <2>2
    <3> QED BY <1>f, <1>n, <3>1
  <2> QED BY <2>1, <2>2
<1> QED BY <1>2, <1>3, <1>4, <1>5, <1>6, <1>7 DEF SteadyInv

LEMMA SteadyOnward ==
    ASSUME TypeOK, RunInv, SteadyInv, conf.kind = "issue",
           NextPage \/ Archive \/ Put \/ PutDone \/ PutsOver
    PROVE  SteadyInv'
<1>1. /\ SameBut({}) /\ UNCHANGED <<conf, up, files, changed>>
      /\ pc \notin {"idle", "list"} /\ pc' # "idle"
      /\ pc' = "list" => run.more
  BY OnwardDoes DEF NextPage, Archive, Put, PutDone, PutsOver, Quiet, upVars, Goto
<1>2. Since' = Since /\ There' = There /\ \A i : PageOf(i)' = PageOf(i) /\ Item(i)' = Item(i)
  BY <1>1, SamePages DEF SameBut
<1>3. ~(pc' = "list" /\ run'.page = 1)
  BY <1>1 DEF RunInv, SameBut
<1>4. \A i : /\ Latest(i) => Latest(i)'
             /\ Waits(i) => Waits(i)'
  BY <1>1, <1>2 DEF Latest, Waits, SameBut
<1>5. run'.rest = run.rest /\ run'.last = run.last /\ run'.page = run.page /\ run'.more = run.more
  BY <1>1 DEF SameBut
<1>6. OrderInv' /\ BehindInv'
  BY <1>1, <1>2, <1>5 DEF OrderInv, BehindInv, SteadyInv
<1>7. ComingInv'
  BY <1>1, <1>2, <1>4, <1>5 DEF ComingInv, SteadyInv
<1>8. DueInv'
  BY <1>1, <1>2, <1>4, <1>5 DEF DueInv, SteadyInv
<1>9. PageInv' /\ FilesInv'
  BY <1>1, <1>2, <1>3, <1>5 DEF PageInv, FilesInv, SteadyInv
<1> QED BY <1>6, <1>7, <1>8, <1>9 DEF SteadyInv

LEMMA SteadyReturn ==
    ASSUME TypeOK, SteadyInv, End \/ Fail \/ Crash
    PROVE  SteadyInv'
<1>1. /\ pc' = "idle" /\ files' \in {files, Nothing} /\ up' = up
      /\ run'.rest = {} /\ run'.more = FALSE
  BY ReturnDoes, StepsQuiet DEF Step, NewRun
<1>2. There' = There /\ There \in SUBSET Items
  BY <1>1 DEF There
<1>3. OrderInv'
  <2>1. CASE files' = files
    BY <1>1, <1>2, <2>1 DEF OrderInv, SteadyInv
  <2>2. CASE files' = Nothing
    <3>1. \A i \in There, j \in Items : ~(up[i].at < Nothing[j].at)
      BY <1>2, FeedNumbers DEF Nothing, None
    <3> QED BY <1>1, <1>2, <2>2, <3>1 DEF OrderInv
  <2> QED BY <1>1, <2>1, <2>2
<1>4. BehindInv' /\ ComingInv' /\ DueInv' /\ PageInv' /\ FilesInv'
  BY <1>1 DEF BehindInv, ComingInv, DueInv, PageInv, FilesInv
<1> QED BY <1>3, <1>4 DEF SteadyInv

LEMMA SteadyInductive ==
    TypeOK /\ RunInv /\ StampInv /\ (Steady => SteadyInv) /\ [Next]_vars
        => (Steady => SteadyInv)'
<1> SUFFICES ASSUME TypeOK, RunInv, StampInv, Steady => SteadyInv, [Next]_vars, Steady'
             PROVE  SteadyInv'
  OBVIOUS
<1>1. CASE UNCHANGED vars
  <2>1. UNCHANGED <<conf, up, files, pc, run, changed, shifted>>
    BY <1>1 DEF vars, upVars
  <2>2. Since' = Since /\ There' = There /\ \A i : PageOf(i)' = PageOf(i) /\ Item(i)' = Item(i)
    BY <2>1, SamePages
  <2>3. \A i : (Latest(i) => Latest(i)') /\ (Waits(i) => Waits(i)')
    BY <2>1, <2>2 DEF Latest, Waits
  <2>4. SteadyInv
    BY <2>1 DEF Steady
  <2>5. OrderInv' /\ BehindInv' /\ PageInv' /\ FilesInv'
    BY <2>1, <2>2, <2>4 DEF SteadyInv, OrderInv, BehindInv, PageInv, FilesInv
  <2>6. ComingInv' /\ DueInv'
    BY <2>1, <2>2, <2>3, <2>4 DEF SteadyInv, ComingInv, DueInv
  <2> QED BY <2>5, <2>6 DEF SteadyInv
<1> SUFFICES ASSUME Next PROVE SteadyInv'
  BY <1>1
<1>2. conf' = conf /\ conf.kind = "issue" /\ ~shifted' /\ (shifted => shifted')
  <2>1. CASE \E k \in Items : Update(k) \/ Remove(k)
    <3>1. conf' = conf /\ shifted' = (shifted \/ (pc # "idle" /\ run.more))
      BY <2>1, ChangeDoes
    <3> QED BY <3>1, Zenon DEF Steady
  <2>2. CASE Begin \/ Step \/ Crash
    <3>1. conf' = conf /\ shifted' = shifted
      BY <2>2, StepsQuiet DEF Begin
    <3> QED BY <3>1, Zenon DEF Steady
  <2> QED BY <2>1, <2>2 DEF Next
<1>3. SteadyInv
  BY <1>2 DEF Steady
<1>4. CASE \E k \in Items : Update(k) \/ Remove(k)
  BY <1>2, <1>3, <1>4, SteadyUpstream
<1>5. CASE Begin
  BY <1>3, <1>5, SteadyBegin
<1>6. CASE ListIssues
  BY <1>3, <1>6, SteadyList
<1>7. CASE Write
  <2>1. PICK x \in run.rest : \E stamp \in {0, x.at} :
            /\ First(x)
            /\ \A j \in Items :
                files'[j] = IF j = x.num THEN [at |-> stamp, ver |-> 0] ELSE files[j]
    BY <1>7, WriteDoes
  <2>2. PICK stamp \in {0, x.at} : \A j \in Items :
            files'[j] = IF j = x.num THEN [at |-> stamp, ver |-> 0] ELSE files[j]
    BY <2>1
  <2> DEFINE c == [at |-> stamp, ver |-> 0]
  <2>3. c.at = stamp /\ stamp \in Nat /\ stamp <= x.at
    BY FeedNumbers
  <2>4. \A j \in Items : files'[j] = IF j = x.num THEN c ELSE files[j]
    BY <2>2
  <2> HIDE DEF c
  <2>5. First(x) /\ c.at \in Nat /\ c.at <= x.at
    BY <2>1, <2>3
  <2>6. /\ pc = "items" /\ pc' = "write" /\ UNCHANGED <<conf, up, changed>>
        /\ run'.rest = run.rest
        /\ run'.last = run.last /\ run'.page = run.page /\ run'.more = run.more
    BY <1>7, WriteDoes DEF Write, Quiet, upVars, Goto, SameBut
  <2> QED BY <1>2, <1>3, <2>4, <2>5, <2>6, SteadyFile
<1>8. CASE WriteDone
  <2>1. PICK x \in run.rest :
            /\ First(x) /\ run'.rest = run.rest \ {x}
            /\ \A j \in Items :
                files'[j] = IF j = x.num THEN [at |-> x.at, ver |-> x.ver] ELSE files[j]
    BY <1>8, WriteDoneDoes
  <2> DEFINE c == [at |-> x.at, ver |-> x.ver]
  <2>2. c.at = x.at /\ x.at \in Nat /\ c = [at |-> x.at, ver |-> x.ver]
    BY FeedNumbers
  <2>3. \A j \in Items : files'[j] = IF j = x.num THEN c ELSE files[j]
    BY <2>1
  <2> HIDE DEF c
  <2>4. First(x) /\ c.at \in Nat /\ c.at <= x.at
    BY <2>1, <2>2
  <2>5. /\ pc = "write" /\ pc' = "items" /\ UNCHANGED <<conf, up, changed>>
        /\ run'.last = run.last /\ run'.page = run.page /\ run'.more = run.more
    BY <1>8, WriteDoneDoes DEF WriteDone, Quiet, upVars, Goto, SameBut
  <2> QED BY <1>2, <1>3, <2>1, <2>2, <2>3, <2>4, <2>5, SteadyFile
<1>9. CASE NextPage \/ Archive \/ Put \/ PutDone \/ PutsOver
  BY <1>2, <1>3, <1>9, SteadyOnward
<1>10. CASE End \/ Fail \/ Crash
  BY <1>3, <1>10, SteadyReturn
<1>11. ~SkipItem /\ ~ListDiscussions
  BY <1>2 DEF SkipItem, Skipped, ListDiscussions
<1> QED BY <1>4, <1>5, <1>6, <1>7, <1>8, <1>9, <1>10, <1>11 DEF Next, Step
-----------------------------------------------------------------------------
(* Archives.                                                                  *)

\* A run over issues that has written nothing has met none that counts.
WroteInv ==
    conf.kind = "issue" /\ pc # "idle" /\ ~(pc = "list" /\ run.page = 1) =>
        \/ run.updated \/ run.rest # {}
        \/ \A i \in There \ changed : ~(up[i].at >= run.last)

\* The storages before the next one have the archive.
PutInv ==
    /\ pc \in {"put", "putting"} => run.updated
    /\ pc = "putting" => run.nput <= NumStorages
    /\ pc = "end" /\ run.updated => run.nput > NumStorages
    /\ pc \in {"put", "putting", "end"} /\ run.updated =>
        /\ run.snap = files
        /\ \A s \in 1..NumStorages :
            s < run.nput => stored[s] = [whole |-> TRUE, files |-> files]

\* The first page of a listing that is not empty is not empty.
LEMMA FirstPage ==
    ASSUME TypeOK, run.page = 1, Since # {}
    PROVE  Listed(IssuePage) # {}
<1>1. PICK f \in Since : \A j \in Since : ~Before(j, f)
  BY FeedNumbers, FirstAndLast
<1>2. {j \in Since : Before(j, f)} = {}
  BY <1>1
<1>3. Rank(Since, f) = 0
  BY <1>2, FS_EmptySet DEF Rank
<1>4. 0 \div PageSize = 0
  BY FeedAssumption
<1>5. f \in IssuePage
  BY <1>3, <1>4 DEF IssuePage
<1> QED BY <1>5, ListedItems

LEMMA WroteInductive == TypeOK /\ RunInv /\ WroteInv /\ [Next]_vars => WroteInv'
<1> SUFFICES ASSUME TypeOK, RunInv, WroteInv, [Next]_vars,
                    conf'.kind = "issue", pc' # "idle", ~(pc' = "list" /\ run'.page = 1),
                    ~run'.updated, run'.rest = {},
                    NEW i \in Items, i \in There', i \notin changed', up'[i].at >= run'.last
             PROVE  FALSE
  BY DEF WroteInv, There
<1> USE DEF Goto
<1>1. CASE UNCHANGED vars
  BY <1>1 DEF vars, upVars, WroteInv, There
<1>2. CASE \E k \in Items : Update(k) \/ Remove(k)
  BY <1>2, ChangeDoes, OthersStay DEF WroteInv
<1>3. CASE Begin
  BY <1>3, BeginDoes DEF Begin
<1>4. CASE Crash
  BY <1>4, ReturnDoes
<1> SUFFICES ASSUME Step PROVE FALSE
  BY <1>1, <1>2, <1>3, <1>4 DEF Next
<1>5. /\ up' = up /\ changed' = changed /\ conf.kind = "issue"
      /\ i \in There /\ i \notin changed
  BY StepsQuiet DEF There
<1>6. CASE ListIssues
  <2>1. i \in Since /\ run'.rest = Listed(IssuePage)
    BY <1>5, <1>6, ListIssuesDoes DEF Since
  <2>2. run.page # 1
    BY <2>1, FirstPage
  <2> QED BY <1>5, <1>6, <2>2, ListIssuesDoes DEF ListIssues, WroteInv, RunInv
<1>7. CASE Write
  BY <1>7, WriteDoes
<1>8. CASE WriteDone
  BY <1>8, WriteDoneDoes DEF WriteDone, RunInv, SameBut
<1>9. CASE NextPage \/ Archive \/ Put \/ PutDone \/ PutsOver
  <2>1. pc \in {"items", "put", "putting"}
    BY <1>9 DEF NextPage, Archive, Put, PutDone, PutsOver
  <2> QED BY <1>5, <1>9, <2>1, OnwardDoes DEF WroteInv, SameBut
<1>10. CASE End \/ Fail
  BY <1>10, ReturnDoes
<1>11. ~SkipItem /\ ~ListDiscussions
  BY <1>5 DEF SkipItem, Skipped, ListDiscussions
<1> QED BY <1>6, <1>7, <1>8, <1>9, <1>10, <1>11 DEF Step

LEMMA PutInductive == TypeOK /\ RunInv /\ PutInv /\ [Next]_vars => PutInv'
<1> SUFFICES ASSUME TypeOK, RunInv, PutInv, [Next]_vars PROVE PutInv'
  OBVIOUS
<1> USE DEF Goto, Quiet
<1>0. run \in Runs /\ run.nput \in Nat /\ NumStorages \in Nat
  BY FeedAssumption DEF TypeOK, Runs
<1>1. CASE UNCHANGED vars \/ \E k \in Items : Update(k) \/ Remove(k)
  <2>1. UNCHANGED <<files, stored, pc, run>>
    BY <1>1, ChangeDoes DEF vars
  <2> QED BY <2>1 DEF PutInv
<1>2. CASE Begin \/ ListIssues \/ ListDiscussions \/ SkipItem \/ Write \/ WriteDone \/ NextPage
  <2>1. pc' \notin {"put", "putting", "end"}
    BY <1>2 DEF Begin, ListIssues, ListDiscussions, SkipItem, Write, WriteDone, NextPage
  <2> QED BY <2>1 DEF PutInv
<1>3. CASE Archive
  <2>1. run'.snap = files /\ run'.nput = run.nput /\ run'.updated = run.updated /\ files' = files
    BY <1>0, <1>3, RunFields DEF Archive
  <2>2. run.nput = 1 /\ pc' = IF run.updated THEN "put" ELSE "end"
    BY <1>3 DEF Archive, RunInv
  <2>3. \A s \in 1..NumStorages : ~(s < 1)
    BY <1>0
  <2> QED BY <2>1, <2>2, <2>3 DEF PutInv
<1>4. CASE Put
  <2>1. UNCHANGED <<files, run>> /\ pc = "put" /\ pc' = "putting" /\ run.nput <= NumStorages
    BY <1>4 DEF Put
  <2>2. \A s \in 1..NumStorages : s < run.nput => stored'[s] = stored[s]
    BY <1>0, <1>4 DEF Put, TypeOK
  <2> QED BY <2>1, <2>2 DEF PutInv
<1>5. CASE PutDone
  <2> DEFINE n == run.nput + 1
             a == [whole |-> TRUE, files |-> run.snap]
  <2>1. run' = [run EXCEPT !.nput = n] /\ n \in Nat
    BY <1>0, <1>5 DEF PutDone
  <2>2. /\ files' = files /\ pc = "putting" /\ pc' = "put"
        /\ stored' = [stored EXCEPT ![run.nput] = a]
    BY <1>5 DEF PutDone
  <2> HIDE DEF n, a
  <2>3. run'.nput = n /\ run'.updated = run.updated /\ run'.snap = run.snap
    BY <1>0, <2>1, RunFields
  <2>4. run.snap = files /\ run.updated
    BY <2>2 DEF PutInv
  <2>5. \A s \in 1..NumStorages : stored'[s] = IF s = run.nput THEN a ELSE stored[s]
    BY <2>2 DEF TypeOK
  <2>6. \A s \in 1..NumStorages : s < n => s = run.nput \/ s < run.nput
    BY <1>0 DEF n
  <2>7. a = [whole |-> TRUE, files |-> files]
    BY <2>4 DEF a
  <2>8. \A s \in 1..NumStorages : s < n => stored'[s] = [whole |-> TRUE, files |-> files]
    BY <2>2, <2>4, <2>5, <2>6, <2>7 DEF PutInv
  <2> QED BY <2>2, <2>3, <2>4, <2>8 DEF PutInv
<1>6. CASE PutsOver
  BY <1>0, <1>6 DEF PutsOver, PutInv
<1>7. CASE End \/ Fail \/ Crash
  BY <1>7, ReturnDoes DEF PutInv
<1> QED BY <1>1, <1>2, <1>3, <1>4, <1>5, <1>6, <1>7 DEF Next, Step
-----------------------------------------------------------------------------
IInv == /\ TypeOK /\ RunInv /\ StampInv /\ RestInv /\ AheadInv /\ (Steady => SteadyInv)
        /\ WroteInv /\ PutInv

LEMMA InitInv == Init => IInv
<1> SUFFICES ASSUME Init PROVE IInv
  OBVIOUS
<1>1. TypeOK
  BY InitTyped
<1>2. /\ pc = "idle" /\ run = NewRun /\ files = Nothing
      /\ run.rest = {} /\ run.last = 0 /\ ~run.more
  BY DEF Init, NewRun
<1>3. \A i \in Items : files[i].at = 0 /\ up[i].at \in Nat
  BY <1>1, <1>2, FeedNumbers DEF Nothing, None
<1>4. RunInv
  BY <1>2 DEF RunInv
<1>5. StampInv
  <2>1. PICK f \in FirstTimes :
            /\ up = [i \in Items |-> [at |-> f[i], ver |-> IF f[i] = 0 THEN 0 ELSE 1]]
            /\ clock \in {t \in 0..MaxTime : \A i \in Items : f[i] <= t}
    BY DEF Init
  <2>2. \A i \in Items : up[i].at <= clock
    BY <2>1
  <2>3. 0 <= clock
    BY <1>1, FeedNumbers
  <2> QED BY <1>2, <1>3, <2>2, <2>3 DEF StampInv
<1>6. RestInv /\ AheadInv /\ WroteInv /\ PutInv
  BY <1>2 DEF RestInv, AheadInv, WroteInv, PutInv
<1>7. SteadyInv
  <2>1. OrderInv
    BY <1>3 DEF OrderInv, There
  <2> QED BY <1>2, <2>1 DEF SteadyInv, BehindInv, ComingInv, DueInv, PageInv, FilesInv
<1> QED BY <1>1, <1>4, <1>5, <1>6, <1>7 DEF IInv

LEMMA InvInductive == IInv /\ [Next]_vars => IInv'
BY TypeInductive, RunInductive, StampInductive, RestInductive, AheadInductive, SteadyInductive,
   WroteInductive, PutInductive DEF IInv

\* At the end of a run nothing is left of the page, and no page is to come.
LEMMA AtEnd ==
    ASSUME IInv, pc = "end"
    PROVE  /\ run.rest = {} /\ ~run.more /\ TypeOK
           /\ \A i : ~Waits(i) /\ (Latest(i) => i \in changed)
BY DEF IInv, RunInv, Waits, Latest

\* A run that ends well has stored every item that is newer than the run's start
\* and did not change meanwhile; of issues, if no page shifted.
THEOREM NewerStored == Spec => []StoresAllNewer
<1>1. IInv => StoresAllNewer
  <2> SUFFICES ASSUME IInv, pc = "end", NEW i \in There, i \notin changed,
                      up[i].at > run.last, conf.kind = "issue" => ~shifted
               PROVE  files[i] = up[i]
    BY DEF StoresAllNewer
  <2>1. up[i].at >= run.last
    BY AtEnd, FeedNumbers
  <2>2. CASE conf.kind = "issue"
    <3>1. SteadyInv
      BY <2>2 DEF IInv, Steady
    <3> QED BY <2>1, <3>1, AtEnd DEF SteadyInv, ComingInv
  <2>3. CASE conf.kind = "discussion"
    BY <2>3, AtEnd DEF IInv, AheadInv
  <2>4. conf.kind \in {"issue", "discussion"}
    BY AtEnd, FeedAssumption DEF TypeOK
  <2> QED BY <2>2, <2>3, <2>4
<1> QED BY <1>1, InitInv, InvInductive, PTL DEF Spec

\* A run over issues that ends well and met no change leaves each as it is,
\* whatever runs failed or died before, if no page ever shifted.
THEOREM CaughtUp == Spec => []CatchesUp
<1>1. IInv => CatchesUp
  <2> SUFFICES ASSUME IInv, pc = "end", conf.kind = "issue", changed = {}, ~shifted,
                      NEW i \in There
               PROVE  files[i] = up[i]
    BY DEF CatchesUp
  <2>1. SteadyInv
    BY DEF IInv, Steady
  <2>2. up[i].at \in Nat /\ run.last \in Nat
    BY AtEnd, FeedNumbers
  <2>3. CASE up[i].at < run.last
    BY <2>1, <2>3 DEF SteadyInv, BehindInv
  <2>4. CASE up[i].at >= run.last
    BY <2>1, <2>4, AtEnd DEF SteadyInv, ComingInv
  <2> QED BY <2>2, <2>3, <2>4
<1> QED BY <1>1, InitInv, InvInductive, PTL DEF Spec

\* A run that ends well leaves in every storage an archive of the directory, if
\* it wrote anything or, of issues, one was due.
THEOREM Archived == Spec => []ArchivedAtEnd
<1>1. IInv => ArchivedAtEnd
  <2> SUFFICES ASSUME IInv, pc = "end",
                      run.updated \/ (conf.kind = "issue" /\ \E i \in There \ changed :
                                                                up[i].at >= run.last),
                      NEW s \in 1..NumStorages
               PROVE  stored[s] = [whole |-> TRUE, files |-> files]
    BY DEF ArchivedAtEnd
  <2>1. run.updated
    BY AtEnd DEF IInv, WroteInv
  <2>2. run.nput > NumStorages /\ run.nput \in Nat
    BY <2>1 DEF IInv, PutInv, TypeOK, Runs
  <2>3. s < run.nput
    BY <2>2, FeedAssumption
  <2> QED BY <2>1, <2>3 DEF IInv, PutInv
<1> QED BY <1>1, InitInv, InvInductive, PTL DEF Spec
=============================================================================

---------------------------- MODULE Release_proofs ----------------------------
(***************************************************************************)
(* Properties of Release for any tags, assets, sizes, storages, limits,    *)
(* errors and delays, and any changes upstream.                            *)
(***************************************************************************)
EXTENDS Release, TLAPS, FiniteSetTheorems, SequenceTheorems, WellFoundedInduction

\* The least of some naturals.
LEMMA FirstIn ==
    ASSUME NEW S \in SUBSET Nat, S # {}
    PROVE  First(S) \in S
<1>1. PICK n \in S : \A m \in S : ~(<<m, n>> \in OpToRel(<, Nat))
  BY NatLessThanWellFounded, WFMin
<1>2. \A m \in S : ~(m < n)
  BY <1>1 DEF OpToRel
<1>3. \A m \in S : n <= m
  BY <1>2
<1> QED BY <1>3 DEF First
-----------------------------------------------------------------------------
(* Types.                                                                     *)

LEMMA DelayTyped ==
    ASSUME NEW e \in Errors, attempt \in Nat
    PROVE  Delay(e) \in Int
<1>1. Base \in Int /\ 2^attempt \in Int
  BY RetryAssumption DEF Base
<1>2. Shifted(attempt) \in Int
  BY <1>1, RetryAssumption DEF Shifted, Signed, Half
<1>3. Backoff(attempt) \in Int
  BY <1>2, RetryAssumption DEF Backoff
<1>4. Reported(e) \in Int
  BY RetryAssumption DEF Reported
<1> QED BY <1>3, <1>4 DEF Delay

LEMMA RetryTyped ==
    ASSUME RetryTypeOK, Enter \/ Leave \/ Succeeds \/ UNCHANGED <<do, attempt, wait>> \/ DoStep,
           cancelled' \in BOOLEAN
    PROVE  RetryTypeOK'
<1>1. ASSUME NEW e \in Errors, CallFails(e) PROVE RetryTypeOK'
  BY <1>1, DelayTyped DEF CallFails, RetryTypeOK
<1>2. CASE Enter \/ Leave \/ Succeeds \/ UNCHANGED <<do, attempt, wait>>
  BY <1>2 DEF Enter, Leave, Succeeds, RetryTypeOK
<1>3. CASE Check \/ Slept \/ Interrupted
  BY <1>3 DEF Check, Slept, Interrupted, RetryTypeOK
<1> QED BY <1>1, <1>2, <1>3 DEF DoStep

LEMMA SizeTyped == \A x \in Listing : Size(x) \in Nat
BY ReleaseAssumption DEF Listing, Size, Versions

LEMMA InitTyped == Init => TypeOK
<1> SUFFICES ASSUME Init PROVE TypeOK
  OBVIOUS
<1>1. cancelled \in BOOLEAN /\ late \in BOOLEAN
  BY ZenonT(30) DEF Init
<1>2. RetryTypeOK
  BY <1>1 DEF Init, RetryTypeOK
<1>3. published \in Seq(Tags)
  BY ReleaseAssumption DEF Init
<1>4. 0 \in 0..Len(Sizes) /\ 1 \in 0..Len(Sizes)
  BY ReleaseAssumption
<1>5. up \in [Tags -> [Assets -> 0..Len(Sizes)]]
  BY <1>4 DEF Init
<1>6. made \in [Storages -> SUBSET Tags]
  BY DEF Init
<1>7. disk \in [Storages -> [Tags -> [Assets -> Files]]]
  BY DEF Init, NoFile, Files
<1>8. NewRun \in Runs
  BY DEF NewRun, Runs
<1>9. changes \in 0..MaxChanges
  BY ReleaseAssumption DEF Init
<1> QED BY <1>1, <1>2, <1>3, <1>5, <1>6, <1>7, <1>8, <1>9 DEF Init, TypeOK

\* What the actions of a run leave as it is, by kind.
LEMMA UpTyped ==
    ASSUME TypeOK, UNCHANGED upVars
    PROVE  /\ published' \in Seq(Tags) /\ up' \in [Tags -> [Assets -> 0..Len(Sizes)]]
           /\ changes' \in 0..MaxChanges
BY DEF TypeOK, upVars

\* A run is a record of twelve fields; what an action does to it.
LEMMA RunTyped ==
    ASSUME NEW r \in Runs
    PROVE  /\ \A q, t \in Seq(Tags) : [r EXCEPT !.listing = q, !.todo = t] \in Runs
           /\ \A t \in Seq(Tags), R \in SUBSET Tags, S, X \in SUBSET Listing :
                [r EXCEPT !.todo = t, !.reserved = R, !.rest = X, !.seen = S] \in Runs
           /\ \A X, C \in SUBSET Listing, N, F \in SUBSET Storages, n \in Nat :
                [r EXCEPT !.rest = X, !.cur = C, !.need = N, !.unseen = F, !.total = n]
                    \in Runs
           /\ \A N \in SUBSET Storages : [r EXCEPT !.need = N] \in Runs
           /\ \A C \in SUBSET Listing, F \in SUBSET Storages :
                [r EXCEPT !.cur = C, !.unseen = F] \in Runs
           /\ \A E \in SUBSET STRING : [r EXCEPT !.entries = E] \in Runs
           /\ \A n \in Nat \ {0} : [r EXCEPT !.store = n] \in Runs
           /\ \A n \in Nat \ {0}, F \in SUBSET Storages :
                [r EXCEPT !.store = n, !.skipped = F] \in Runs
BY DEF Runs

\* What is asked for is asked for a release; nothing is done before the listing.
PlaceInv ==
    /\ pc = "assets" => run.todo # <<>>
    /\ pc \in {"idle", "list"} => run = NewRun

LEMMA UpstreamTyped ==
    ASSUME TypeOK, PlaceInv, NEW t \in Tags,
           Publish(t) \/ Withdraw(t) \/ \E a \in Assets : Upload(t, a)
    PROVE  (TypeOK /\ PlaceInv)'
<1> USE DEF Changed, vars, retryVars
<1>1. UNCHANGED <<cancelled, do, attempt, wait, made, disk, pc, run, late>>
  BY DEF Publish, Withdraw, Upload
<1>2. changes' \in 0..MaxChanges
  BY ReleaseAssumption DEF TypeOK, Publish, Withdraw, Upload
<1>3. published' \in Seq(Tags)
  <2>1. CASE Publish(t)
    <3>1. <<t>> \in Seq(Tags) /\ published \in Seq(Tags)
      BY DEF TypeOK
    <3> QED BY <2>1, <3>1, ConcatProperties DEF Publish
  <2>2. CASE Withdraw(t)
    <3>1. PICK i \in DOMAIN published :
            published' = SubSeq(published, 1, i - 1) \o SubSeq(published, i + 1, Len(published))
      BY <2>2 DEF Withdraw, RemoveAt
    <3>2. published \in Seq(Tags) /\ i \in 1..Len(published)
      BY DEF TypeOK
    <3>3. SubSeq(published, 1, i - 1) \in Seq(Tags)
      BY <3>2, SubSeqProperties
    <3>4. SubSeq(published, i + 1, Len(published)) \in Seq(Tags)
      BY <3>2, SubSeqProperties
    <3> QED BY <3>1, <3>3, <3>4, ConcatProperties
  <2>3. CASE \E a \in Assets : Upload(t, a)
    BY <2>3 DEF TypeOK, Upload
  <2> QED BY <2>1, <2>2, <2>3
<1>4. up' \in [Tags -> [Assets -> 0..Len(Sizes)]]
  <2>1. CASE \E a \in Assets : Upload(t, a)
    <3>1. PICK a \in Assets : Upload(t, a)
      BY <2>1
    <3>2. up[t][a] + 1 \in 0..Len(Sizes)
      BY <3>1, ReleaseAssumption DEF TypeOK, Upload
    <3> QED BY <3>1, <3>2 DEF TypeOK, Upload
  <2> QED BY <2>1 DEF TypeOK, Publish, Withdraw
<1> QED BY <1>1, <1>2, <1>3, <1>4 DEF TypeOK, RetryTypeOK, PlaceInv

LEMMA RequestTyped ==
    ASSUME TypeOK, PlaceInv, Request
    PROVE  (TypeOK /\ PlaceInv)'
<1>1. UNCHANGED <<cancelled, upVars, made, disk, pc, run, late>>
  BY DEF Request, DoStep, Check, CallFails, Slept, Interrupted
<1>2. RetryTypeOK'
  BY <1>1, RetryTyped DEF TypeOK, RetryTypeOK, Request
<1>3. do # "idle"
  BY DEF Request, DoStep, Check, CallFails, Slept, Interrupted
<1> QED BY <1>1, <1>2, <1>3, UpTyped DEF TypeOK, PlaceInv

\* What listing and cutting give.
LEMMA PrefixTyped ==
    ASSUME NEW q \in Seq(Tags)
    PROVE  /\ Prefix(q) \in Seq(Tags)
           /\ NumLimit >= 0 => Len(Prefix(q)) <= NumLimit
<1>1. CASE NumLimit >= 0 /\ NumLimit < Len(q)
  <2>1. /\ SubSeq(q, 1, NumLimit) \in Seq(Tags)
        /\ Len(SubSeq(q, 1, NumLimit)) = IF 1 <= NumLimit THEN NumLimit - 1 + 1 ELSE 0
    BY <1>1, SubSeqProperties, ReleaseAssumption
  <2> QED BY <1>1, <2>1, ReleaseAssumption DEF Prefix
<1> QED BY <1>1, ReleaseAssumption DEF Prefix

LEMMA PageTyped ==
    ASSUME NEW q \in Seq(Tags)
    PROVE  Page(q) \in Seq(Tags)
<1>1. CASE PageSize < Len(q)
  BY <1>1, SubSeqProperties, ReleaseAssumption DEF Page
<1> QED BY <1>1 DEF Page

LEMMA UploadedTyped ==
    ASSUME TypeOK, NEW t \in Tags
    PROVE  Uploaded(t) \in SUBSET Listing /\ Pages(t) \subseteq SUBSET Listing
<1>1. \A a \in Assets : up[t][a] > 0 => up[t][a] \in Versions
  BY ReleaseAssumption DEF TypeOK, Versions
<1> QED BY <1>1 DEF Uploaded, Pages, Listing

\* A step that leaves the storages alone has a typed state if its run is typed.
LEMMA QuietTyped ==
    ASSUME TypeOK, Store, Quiet, cancelled' \in BOOLEAN, run' \in Runs,
           Enter \/ Leave \/ Succeeds \/ NoCall,
           pc' \in Calls \cup {"idle", "releases", "items", "put", "write", "written",
                               "prune", "entries", "end"},
           do' = "idle" \/ pc' \in Calls
    PROVE  TypeOK'
<1>1. RetryTypeOK'
  BY RetryTyped DEF TypeOK, NoCall
<1> QED BY <1>1, UpTyped DEF TypeOK, Store, Quiet

\* The steps of a run that leave the storages alone.
LEMMA RunStepTyped ==
    ASSUME TypeOK, PlaceInv,
           \/ Begin \/ Cancel \/ List \/ NextRelease \/ ListAssets \/ Examine \/ Download
           \/ PutsOver \/ ItemsOver \/ DownloadsOver \/ Prune \/ PruneSkips \/ KeepEntry
           \/ EntriesOver \/ PruneOver \/ End \/ Fail \/ Crash
    PROVE  (TypeOK /\ PlaceInv)'
<1> USE DEF Goto, Calls
<1>0. run \in Runs /\ cancelled \in BOOLEAN /\ NewRun \in Runs
  BY DEF TypeOK, RetryTypeOK, NewRun, Runs
<1>1. CASE Begin
  <2>1. RetryTypeOK'
    BY <1>1, RetryTyped DEF TypeOK, Begin
  <2> QED BY <1>0, <1>1, <2>1, UpTyped DEF TypeOK, Begin, PlaceInv, Store
<1>2. CASE Cancel
  <2>1. RetryTypeOK'
    BY <1>2, RetryTyped DEF TypeOK, Cancel, NoCall
  <2> QED BY <1>2, <2>1, UpTyped DEF TypeOK, Cancel, PlaceInv, NoCall
<1>3. CASE List
  <2>1. Page(published) \in Seq(Tags) /\ Prefix(Page(published)) \in Seq(Tags)
    BY PageTyped, PrefixTyped DEF TypeOK
  <2>2. run' \in Runs
    BY <1>0, <1>3, <2>1, RunTyped DEF List
  <2> QED BY <1>0, <1>3, <2>2, QuietTyped DEF List, PlaceInv, Succeeds, Leave
<1>4. CASE NextRelease
  <2>1. TypeOK'
    BY <1>0, <1>4, QuietTyped DEF NextRelease
  <2> QED BY <1>4, <2>1 DEF NextRelease, PlaceInv
<1>5. CASE ListAssets
  <2>1. run.todo # <<>> /\ run.todo \in Seq(Tags)
    BY <1>0, <1>5 DEF ListAssets, PlaceInv, Runs
  <2>2. Head(run.todo) \in Tags /\ Tail(run.todo) \in Seq(Tags)
    BY <2>1, HeadTailProperties
  <2>3. PICK P \in Pages(Head(run.todo)) :
            run' = [run EXCEPT !.todo = Tail(@), !.reserved = @ \cup {Head(run.todo)},
                               !.rest = P, !.seen = @ \cup P]
    BY <1>5 DEF ListAssets
  <2>8. P \in SUBSET Listing
    BY <2>2, <2>3, UploadedTyped
  <2>4. run.reserved \in SUBSET Tags /\ run.seen \in SUBSET Listing
    BY <1>0 DEF Runs
  <2> DEFINE R == run.reserved \cup {Head(run.todo)}
             S == run.seen \cup P
  <2>5. R \in SUBSET Tags /\ S \in SUBSET Listing
    BY <2>2, <2>4, <2>8
  <2>6. run' = [run EXCEPT !.todo = Tail(run.todo), !.reserved = R,
                           !.rest = P, !.seen = S]
    BY <2>3
  <2> HIDE DEF R, S
  <2>7. run' \in Runs
    BY <1>0, <2>2, <2>5, <2>6, <2>8, RunTyped
  <2> QED BY <1>0, <1>5, <2>7, QuietTyped DEF ListAssets, PlaceInv, Succeeds, Leave
<1>6. CASE Examine
  <2>1. PICK x \in run.rest : \E F \in SUBSET (Storages \ Needs(x)) :
            run' = [run EXCEPT !.rest = @ \ {x}, !.cur = {x}, !.need = Needs(x) \cup F,
                               !.unseen = F, !.total = @ + Size(x)]
    BY <1>6 DEF Examine
  <2>2. run.rest \in SUBSET Listing /\ run.total \in Nat
    BY <1>0 DEF Runs
  <2>3. run.rest \ {x} \in SUBSET Listing /\ {x} \in SUBSET Listing
    BY <2>2
  <2>4. run.total + Size(x) \in Nat
    BY <2>2, SizeTyped
  <2>5. \A F \in SUBSET (Storages \ Needs(x)) :
            F \in SUBSET Storages /\ Needs(x) \cup F \in SUBSET Storages
    BY DEF Needs
  <2>10. PICK F \in SUBSET (Storages \ Needs(x)) :
            run' = [run EXCEPT !.rest = @ \ {x}, !.cur = {x}, !.need = Needs(x) \cup F,
                               !.unseen = F, !.total = @ + Size(x)]
    BY <2>1
  <2> DEFINE N == Needs(x) \cup F
             k == run.total + Size(x)
             X == run.rest \ {x}
             C == {x}
  <2>11. run' = [run EXCEPT !.rest = X, !.cur = C, !.need = N, !.unseen = F, !.total = k]
    BY <2>10
  <2>12. /\ X \in SUBSET Listing /\ C \in SUBSET Listing
         /\ N \in SUBSET Storages /\ F \in SUBSET Storages /\ k \in Nat
    BY <2>3, <2>4, <2>5
  <2> HIDE DEF N, k, X, C
  <2>6. run' \in Runs
    BY <1>0, <2>11, <2>12, RunTyped
  <2>7. do = "idle"
    BY <1>6 DEF TypeOK, Examine
  <2>8. CASE Goto("items") /\ NoCall
    BY <1>0, <1>6, <2>6, <2>7, <2>8, QuietTyped DEF Examine, PlaceInv, NoCall
  <2>9. CASE Goto("download") /\ Enter
    BY <1>0, <1>6, <2>6, <2>9, QuietTyped DEF Examine, PlaceInv
  <2> QED BY <1>6, <2>8, <2>9 DEF Examine
<1>7. CASE Download
  BY <1>0, <1>7, QuietTyped DEF Download, PlaceInv, Succeeds, Leave
<1>8. CASE ItemsOver
  <2>1. run' \in Runs
    BY <1>0, <1>8, RunTyped DEF ItemsOver
  <2> QED BY <1>0, <1>8, <2>1, QuietTyped DEF ItemsOver, PlaceInv, NoCall, TypeOK
<1>9. CASE PutsOver \/ DownloadsOver \/ PruneOver
  BY <1>0, <1>9, QuietTyped DEF PutsOver, DownloadsOver, PruneOver, PlaceInv, NoCall, TypeOK
<1>10. CASE Prune
  <2>1. run.store \in Storages
    BY <1>0, <1>10, ReleaseAssumption DEF Prune, Runs, Storages
  <2>2. Entries(run.store) \in SUBSET STRING
    BY <2>1, ReleaseAssumption DEF TypeOK, Entries
  <2>3. run' \in Runs
    BY <1>0, <1>10, <2>2, RunTyped DEF Prune
  <2> QED BY <1>0, <1>10, <2>3, QuietTyped DEF Prune, PlaceInv, NoCall, TypeOK
<1>14. CASE PruneSkips
  <2>1. run.store + 1 \in Nat \ {0} /\ run.store \in Storages
    BY <1>0, <1>14, ReleaseAssumption DEF PruneSkips, Runs, Storages
  <2>2. run.skipped \cup {run.store} \in SUBSET Storages
    BY <1>0, <2>1 DEF Runs
  <2>3. run' \in Runs
    BY <1>0, <1>14, <2>1, <2>2, RunTyped DEF PruneSkips
  <2> QED BY <1>0, <1>14, <2>3, QuietTyped DEF PruneSkips, PlaceInv, NoCall, TypeOK
<1>11. CASE KeepEntry
  <2>1. PICK e \in run.entries : run' = [run EXCEPT !.entries = @ \ {e}]
    BY <1>11 DEF KeepEntry
  <2>2. run.entries \ {e} \in SUBSET STRING
    BY <1>0 DEF Runs
  <2>3. run' \in Runs
    BY <1>0, <2>1, <2>2, RunTyped
  <2> QED BY <1>0, <1>11, <2>3, QuietTyped DEF KeepEntry, PlaceInv, NoCall, TypeOK
<1>12. CASE EntriesOver
  <2>1. run.store + 1 \in Nat \ {0}
    BY <1>0 DEF Runs
  <2>2. run' \in Runs
    BY <1>0, <1>12, <2>1, RunTyped DEF EntriesOver
  <2> QED BY <1>0, <1>12, <2>2, QuietTyped DEF EntriesOver, PlaceInv, NoCall, TypeOK
<1>13. CASE End \/ Fail \/ Crash
  BY <1>0, <1>13, QuietTyped DEF End, Fail, Crash, Return, PlaceInv, Leave
<1> QED BY <1>1, <1>2, <1>3, <1>4, <1>5, <1>6, <1>7, <1>8, <1>9, <1>10, <1>11, <1>12, <1>13,
           <1>14

\* A file written, or its size, leaves the storages typed.
LEMMA DiskTyped ==
    ASSUME NEW A, NEW B, NEW C, NEW d \in [A -> [B -> [C -> Files]]],
           NEW s, NEW t, NEW a
    PROVE  /\ \A f \in Files : [d EXCEPT ![s][t][a] = f] \in [A -> [B -> [C -> Files]]]
           /\ \A n \in Nat : [d EXCEPT ![s][t][a].size = n] \in [A -> [B -> [C -> Files]]]
<1>1. \A f \in Files : [d EXCEPT ![s][t][a] = f] \in [A -> [B -> [C -> Files]]]
  <2> TAKE f \in Files
  <2>1. \A g \in [C -> Files] : [g EXCEPT ![a] = f] \in [C -> Files]
    OBVIOUS
  <2>2. \A h \in [B -> [C -> Files]] :
            [h EXCEPT ![t] = [h[t] EXCEPT ![a] = f]] \in [B -> [C -> Files]]
    BY <2>1
  <2> QED BY <2>2
<1>2. \A n \in Nat : [d EXCEPT ![s][t][a].size = n] \in [A -> [B -> [C -> Files]]]
  <2> TAKE n \in Nat
  <2>1. \A f \in Files : [f EXCEPT !.size = n] \in Files
    BY DEF Files
  <2>2. \A g \in [C -> Files] : [g EXCEPT ![a] = [g[a] EXCEPT !.size = n]] \in [C -> Files]
    BY <2>1
  <2>3. \A h \in [B -> [C -> Files]] :
            [h EXCEPT ![t] = [h[t] EXCEPT ![a] = [h[t][a] EXCEPT !.size = n]]]
                \in [B -> [C -> Files]]
    BY <2>2
  <2> QED BY <2>3
<1> QED BY <1>1, <1>2

\* The steps of a run that change a storage.
LEMMA StorageStepTyped ==
    ASSUME TypeOK, PlaceInv, MakeDir \/ Write \/ Written \/ RemoveEntry
    PROVE  (TypeOK /\ PlaceInv)'
<1>1. /\ UNCHANGED <<cancelled, do, attempt, wait, upVars, late>>
      /\ pc' \in {"write", "written", "put", "entries"} /\ do = "idle"
  BY DEF MakeDir, Write, Written, RemoveEntry, NoCall, Quiet, Goto, TypeOK, Calls
<1>2. run \in Runs /\ run.need \in SUBSET Storages /\ run.cur \in SUBSET Listing
  BY DEF TypeOK, Runs
<1>3. run' \in Runs
  <2>1. CASE MakeDir \/ Write
    BY <1>2, <2>1 DEF MakeDir, Write
  <2>2. CASE Written
    <3>1. run.need \ {First(run.need)} \in SUBSET Storages
      BY <1>2
    <3> QED BY <1>2, <2>2, <3>1, RunTyped DEF Written
  <2>3. CASE RemoveEntry
    <3>1. PICK e \in run.entries : run' = [run EXCEPT !.entries = @ \ {e}]
      BY <2>3 DEF RemoveEntry
    <3>2. run.entries \ {e} \in SUBSET STRING
      BY <1>2 DEF Runs
    <3> QED BY <1>2, <3>1, <3>2, RunTyped
  <2> QED BY <2>1, <2>2, <2>3
<1>4. made' \in [Storages -> SUBSET Tags]
  <2>1. CASE MakeDir
    <3>1. PICK x \in run.cur :
            made' = [made EXCEPT ![First(run.need)] = @ \cup {x.tag}]
      BY <2>1 DEF MakeDir
    <3>2. x.tag \in Tags
      BY <1>2 DEF Listing
    <3> QED BY <3>1, <3>2 DEF TypeOK
  <2>2. CASE RemoveEntry
    BY <2>2 DEF RemoveEntry, TypeOK
  <2> QED BY <2>1, <2>2 DEF TypeOK, Write, Written
<1>5. disk' \in [Storages -> [Tags -> [Assets -> Files]]]
  <2>1. CASE Write
    <3>1. PICK x \in run.cur : \E n \in 0..Size(x) :
            disk' = [disk EXCEPT ![First(run.need)][x.tag][x.asset] =
                        [ver |-> x.ver, size |-> n]]
      BY <2>1 DEF Write
    <3>2. Size(x) \in Nat /\ x.ver \in Nat
      BY <1>2, SizeTyped DEF Listing, Versions
    <3>3. \A n \in 0..Size(x) : [ver |-> x.ver, size |-> n] \in Files
      BY <3>2 DEF Files
    <3>4. disk \in [Storages -> [Tags -> [Assets -> Files]]]
      BY DEF TypeOK
    <3>5. PICK n \in 0..Size(x) : disk' = [disk EXCEPT ![First(run.need)][x.tag][x.asset] =
                                              [ver |-> x.ver, size |-> n]]
      BY <3>1
    <3> DEFINE f == [ver |-> x.ver, size |-> n]
    <3>6. f \in Files
      BY <3>3
    <3> HIDE DEF f
    <3>7. [disk EXCEPT ![First(run.need)][x.tag][x.asset] = f]
                \in [Storages -> [Tags -> [Assets -> Files]]]
      BY <3>4, <3>6, DiskTyped
    <3> QED BY <3>5, <3>7 DEF f
  <2>2. CASE Written
    <3>1. PICK x \in run.cur :
            disk' = [disk EXCEPT ![First(run.need)][x.tag][x.asset].size = Size(x)]
      BY <2>2 DEF Written
    <3>2. Size(x) \in Nat
      BY <1>2, SizeTyped
    <3> QED BY <3>1, <3>2, DiskTyped DEF TypeOK
  <2> QED BY <2>1, <2>2 DEF TypeOK, MakeDir, RemoveEntry
<1>6. RetryTypeOK'
  BY <1>1 DEF TypeOK, RetryTypeOK
<1>7. TypeOK'
  BY <1>1, <1>3, <1>4, <1>5, <1>6, UpTyped DEF TypeOK
<1> QED BY <1>1, <1>7 DEF PlaceInv

LEMMA TypeInductive == TypeOK /\ PlaceInv /\ [Next]_vars => (TypeOK /\ PlaceInv)'
<1> SUFFICES ASSUME TypeOK, PlaceInv, [Next]_vars PROVE (TypeOK /\ PlaceInv)'
  OBVIOUS
<1>1. CASE UNCHANGED vars
  BY <1>1 DEF vars, retryVars, upVars, TypeOK, RetryTypeOK, PlaceInv
<1>2. CASE Next
  BY <1>2, UpstreamTyped, RequestTyped, RunStepTyped, StorageStepTyped DEF Next, Step
<1> QED BY <1>1, <1>2

\* Every variable of the mirrored releases keeps to its type.
THEOREM TypeCorrect == Spec => []TypeOK
<1>1. Init => TypeOK /\ PlaceInv
  BY InitTyped DEF Init, PlaceInv
<1> QED BY <1>1, TypeInductive, PTL DEF Spec
-----------------------------------------------------------------------------
(* The waits.                                                                 *)

\* A duration stays what it is in the width of a duration.
LEMMA SignedDuration ==
    ASSUME NEW x \in 1..MaxDuration
    PROVE  Signed(x) = x
<1>1. ASSUME NEW a \in Nat, NEW b \in Nat, a < b
      PROVE  ((a + b) % (2 * b)) - b = a
  BY <1>1
<1>2. x \in Nat /\ Half \in Nat /\ x < Half
  BY RetryAssumption DEF Half
<1> QED BY <1>1, <1>2 DEF Signed

\* What Do waits after an error that goes away.
LEMMA DelayPositive ==
    ASSUME NEW e \in Errors, attempt \in Nat, Fits(attempt)
    PROVE  Delay(e) > 0 /\ (Delay(e) <= MaxBackoff \/ Delay(e) = Reported(e))
<1>1. Backoff(attempt) \in 1..MaxBackoff
  <2>1. CASE attempt > ShiftLimit
    BY <2>1, RetryAssumption DEF Backoff
  <2>2. CASE attempt <= ShiftLimit
    <3>1. Base * 2^attempt \in 1..MaxDuration
      BY <2>2 DEF Fits
    <3>2. Shifted(attempt) \in 1..MaxDuration
      BY <3>1, SignedDuration DEF Shifted
    <3> QED BY <3>2, RetryAssumption DEF Backoff
  <2> QED BY <2>1, <2>2, RetryAssumption
<1>2. Reported(e) \in Int
  BY RetryAssumption DEF Reported
<1> QED BY <1>1, <1>2, RetryAssumption DEF Delay

\* The wait is the delay after some error, at this attempt.
WaitInv == do = "wait" => \E e \in Errors : wait = Delay(e)

LEMMA WaitInductive == WaitInv /\ [Next]_vars => WaitInv'
<1> SUFFICES ASSUME WaitInv, [Next]_vars, do' = "wait"
             PROVE  \E e \in Errors : wait' = Delay(e)'
  BY DEF WaitInv
<1>1. ASSUME NEW e \in Errors, CallFails(e) PROVE wait' = Delay(e)'
  BY <1>1 DEF CallFails, Delay, Backoff, Shifted
<1>2. CASE UNCHANGED <<do, attempt, wait>>
  BY <1>2 DEF WaitInv, Delay, Backoff, Shifted
<1>3. CASE \E e \in Errors : CallFails(e)
  BY <1>1, <1>3
<1>4. ~(Enter \/ Leave \/ Succeeds \/ Check \/ Slept \/ Interrupted)
  BY DEF Enter, Leave, Succeeds, Check, Slept, Interrupted
<1>5. UNCHANGED <<do, attempt, wait>> \/ \E e \in Errors : CallFails(e)
  BY <1>4 DEF Next, Publish, Withdraw, Upload, Changed, Begin, Cancel, Step, Request, DoStep, List,
     NextRelease, ListAssets, Examine, Download, MakeDir, Write, Written, PutsOver,
     ItemsOver, DownloadsOver, Prune, PruneSkips, KeepEntry, RemoveEntry, EntriesOver, PruneOver,
     End, Fail, Crash, Return, NoCall, vars, retryVars
<1> QED BY <1>2, <1>3, <1>5

\* GitHub is not asked again without a wait, nor after a longer one than the cap
\* that it did not ask for, as long as the doubled delay is a duration.
THEOREM AlwaysWaits == Spec => []WaitsBetweenTries
<1>1. Init => TypeOK /\ PlaceInv /\ WaitInv
  BY InitTyped DEF Init, PlaceInv, WaitInv
<1>2. TypeOK /\ WaitInv => WaitsBetweenTries
  <2> SUFFICES ASSUME TypeOK, WaitInv, do = "wait", Fits(attempt)
               PROVE  /\ wait > 0
                      /\ wait <= MaxBackoff \/ \E e \in Errors : wait = Reported(e)
    BY DEF WaitsBetweenTries
  <2>1. PICK e \in Errors : wait = Delay(e)
    BY DEF WaitInv
  <2>2. attempt \in Nat
    BY DEF TypeOK, RetryTypeOK
  <2> QED BY <2>1, <2>2, DelayPositive
<1> QED BY <1>1, <1>2, TypeInductive, WaitInductive, PTL DEF Spec
-----------------------------------------------------------------------------
(* The files.                                                                 *)

Working == {"items", "download", "put", "write", "written"}

At(d, s, x) == d[s][x.tag][x.asset]

\* No file is newer than what is published.
FilesInv == \A s \in Storages, t \in Tags, a \in Assets : disk[s][t][a].ver <= up[t][a]

\* What is left of a release: one of each name, newer than no upload and older
\* than no file.
ListInv ==
    /\ pc \notin Working => run.rest = {} /\ run.cur = {}
    /\ \A x \in run.cur, y \in run.cur : x = y
    /\ \A x, y \in run.rest \cup run.cur :
        x.tag = y.tag /\ x.asset = y.asset => x.ver = y.ver
    /\ \A x \in run.rest \cup run.cur :
        /\ x.ver <= up[x.tag][x.asset]
        /\ \A s \in Storages : At(disk, s, x).ver <= x.ver

\* The storages that are written to next still need the asset, or could not say.
NeedInv ==
    /\ pc \in {"write", "written"} => run.need # {}
    /\ \A x \in run.cur :
        /\ pc \in {"download", "put", "write"} => run.need \subseteq Needs(x) \cup run.unseen
        /\ pc = "written" => /\ At(disk, First(run.need), x).ver = x.ver
                             /\ run.need \ {First(run.need)} \subseteq Needs(x) \cup run.unseen

CopyInv == FilesInv /\ ListInv /\ NeedInv

\* What a step that leaves the files and the asset at hand alone must respect.
LEMMA CopiesAlone ==
    ASSUME CopyInv, disk' = disk, up' = up,
           run'.rest = run.rest, run'.cur = run.cur,
           run'.need = run.need, run'.unseen = run.unseen,
           pc' \notin Working => pc \notin Working,
           pc' \in {"download", "put"} => pc \in {"download", "put", "write"},
           pc' = "write" => pc = "write" \/ (pc = "put" /\ run.need # {}),
           pc' = "written" => pc = "written"
    PROVE  CopyInv'
<1>1. FilesInv'
  BY DEF CopyInv, FilesInv
<1>2. ListInv'
  BY DEF CopyInv, ListInv, At
<1>3. NeedInv'
  BY DEF CopyInv, NeedInv, Needs, At, First, Size
<1> QED BY <1>1, <1>2, <1>3 DEF CopyInv

\* Between the releases there is nothing at hand.
LEMMA CopiesNone ==
    ASSUME CopyInv, disk' = disk, up' = up, run'.rest = {}, run'.cur = {},
           pc' \notin {"write", "written"}
    PROVE  CopyInv'
BY DEF CopyInv, FilesInv, ListInv, NeedInv

\* Upstream only goes on.
LEMMA CopiesUpstream ==
    ASSUME TypeOK, CopyInv, NEW t \in Tags,
           Publish(t) \/ Withdraw(t) \/ \E a \in Assets : Upload(t, a)
    PROVE  CopyInv'
<1>1. UNCHANGED <<disk, pc, run>>
  BY DEF Publish, Withdraw, Upload, Changed
<1>2. \A u \in Tags, a \in Assets :
          up[u][a] \in Nat /\ up'[u][a] \in Nat /\ up[u][a] <= up'[u][a]
  BY ReleaseAssumption DEF TypeOK, Publish, Withdraw, Upload
<1>3. FilesInv'
  <2>1. \A s \in Storages, u \in Tags, a \in Assets : disk[s][u][a].ver \in Nat
    BY DEF TypeOK, Files
  <2> QED BY <1>1, <1>2, <2>1 DEF CopyInv, FilesInv
<1>4. ListInv'
  <2>1. \A x \in run.rest \cup run.cur : x.tag \in Tags /\ x.asset \in Assets /\ x.ver \in Nat
    BY DEF TypeOK, Runs, Listing, Versions
  <2>2. \A x \in run.rest \cup run.cur : x.ver <= up'[x.tag][x.asset]
    BY <1>2, <2>1 DEF CopyInv, ListInv
  <2> QED BY <1>1, <2>2 DEF CopyInv, ListInv, At
<1>5. NeedInv'
  BY <1>1 DEF CopyInv, NeedInv, Needs, At, First, Size
<1> QED BY <1>3, <1>4, <1>5 DEF CopyInv

\* The fields of a run that a step does not name.
LEMMA RunFields ==
    ASSUME NEW r \in Runs
    PROVE  /\ \A q, t : LET n == [r EXCEPT !.listing = q, !.todo = t] IN
                n.rest = r.rest /\ n.cur = r.cur /\ n.need = r.need /\ n.unseen = r.unseen
           /\ \A t, R, X, S :
                LET n == [r EXCEPT !.todo = t, !.reserved = R, !.rest = X, !.seen = S] IN
                n.rest = X /\ n.cur = r.cur /\ n.need = r.need /\ n.unseen = r.unseen
           /\ \A X, C, N, F, k :
                LET n == [r EXCEPT !.rest = X, !.cur = C, !.need = N, !.unseen = F,
                                   !.total = k] IN
                n.rest = X /\ n.cur = C /\ n.need = N /\ n.unseen = F
           /\ \A N : LET n == [r EXCEPT !.need = N] IN
                n.rest = r.rest /\ n.cur = r.cur /\ n.need = N /\ n.unseen = r.unseen
           /\ \A C, F : LET n == [r EXCEPT !.cur = C, !.unseen = F] IN
                n.rest = r.rest /\ n.cur = C /\ n.need = r.need /\ n.unseen = F
           /\ \A E : LET n == [r EXCEPT !.entries = E] IN
                n.rest = r.rest /\ n.cur = r.cur /\ n.need = r.need /\ n.unseen = r.unseen
           /\ \A k : LET n == [r EXCEPT !.store = k] IN
                n.rest = r.rest /\ n.cur = r.cur /\ n.need = r.need /\ n.unseen = r.unseen
           /\ \A k, F : LET n == [r EXCEPT !.store = k, !.skipped = F] IN
                n.rest = r.rest /\ n.cur = r.cur /\ n.need = r.need /\ n.unseen = r.unseen
BY DEF Runs

LEMMA CopiesListAssets ==
    ASSUME TypeOK, CopyInv, ListAssets
    PROVE  CopyInv'
<1>1. run \in Runs /\ disk' = disk /\ up' = up /\ pc' = "items" /\ pc = "assets"
  BY DEF TypeOK, ListAssets, Store, Quiet, upVars, Goto
<1>2. PICK t \in Tags : \E P \in Pages(t) :
        run' = [run EXCEPT !.todo = Tail(@), !.reserved = @ \cup {t},
                           !.rest = P, !.seen = @ \cup P]
  <2>1. There \subseteq Tags
    BY DEF TypeOK, There
  <2> QED BY <2>1 DEF ListAssets
<1>3. run'.rest \subseteq Uploaded(t) /\ run'.cur = {}
  <2>1. run.cur = {}
    BY <1>1 DEF CopyInv, ListInv, Working
  <2>2. \A P \in Pages(t) : P \subseteq Uploaded(t)
    BY DEF Pages
  <2> QED BY <1>1, <1>2, <2>1, <2>2, RunFields
<1>4. FilesInv'
  BY <1>1 DEF CopyInv, FilesInv
<1>5. \A x \in Uploaded(t) : x.tag = t /\ x.asset \in Assets /\ x.ver = up[t][x.asset]
  BY DEF Uploaded
<1>6. \A a \in Assets : up[t][a] \in Nat
  BY ReleaseAssumption DEF TypeOK
<1>7. ListInv'
  BY <1>1, <1>3, <1>5, <1>6 DEF CopyInv, FilesInv, ListInv, Working, At
<1>8. NeedInv'
  BY <1>1, <1>3 DEF NeedInv
<1> QED BY <1>4, <1>7, <1>8 DEF CopyInv

LEMMA CopiesExamine ==
    ASSUME TypeOK, CopyInv, Examine
    PROVE  CopyInv'
<1>1. /\ run \in Runs /\ disk' = disk /\ up' = up
      /\ pc = "items" /\ pc' \in {"items", "download"}
  BY DEF TypeOK, Examine, Store, Quiet, upVars, Goto
<1>2. PICK x \in run.rest : \E F \in SUBSET (Storages \ Needs(x)) :
        run' = [run EXCEPT !.rest = @ \ {x}, !.cur = {x}, !.need = Needs(x) \cup F,
                           !.unseen = F, !.total = @ + Size(x)]
  BY DEF Examine
<1>3. /\ run'.rest = run.rest \ {x} /\ run'.cur = {x}
      /\ run'.need \subseteq Needs(x) \cup run'.unseen
  BY <1>1, <1>2, RunFields
<1>4. FilesInv'
  BY <1>1 DEF CopyInv, FilesInv
<1>5. ListInv'
  BY <1>1, <1>3 DEF CopyInv, ListInv, Working, At
<1>6. NeedInv'
  BY <1>1, <1>3 DEF NeedInv, Needs, Size
<1> QED BY <1>4, <1>5, <1>6 DEF CopyInv

Resized(f, n) == [f EXCEPT !.size = n]

LEMMA ResizedFile ==
    ASSUME NEW f \in Files
    PROVE  /\ \A n : Resized(f, n).ver = f.ver
           /\ Resized(f, f.size) = f
BY DEF Resized, Files

\* The one file that a write changes.
LEMMA FileAt ==
    ASSUME disk \in [Storages -> [Tags -> [Assets -> Files]]],
           NEW s0 \in Storages, NEW t0 \in Tags, NEW a0 \in Assets, NEW f,
           disk' = [disk EXCEPT ![s0][t0][a0] = f]
    PROVE  \A s \in Storages, t \in Tags, a \in Assets :
            disk'[s][t][a] = IF s = s0 /\ t = t0 /\ a = a0 THEN f ELSE disk[s][t][a]
OBVIOUS

\* Where a run writes.
LEMMA Writes ==
    ASSUME TypeOK, CopyInv, Write \/ Written
    PROVE  /\ run \in Runs /\ run.cur \subseteq Listing /\ run.need \subseteq Storages
           /\ First(run.need) \in run.need
           /\ disk \in [Storages -> [Tags -> [Assets -> Files]]]
<1>1. run \in Runs /\ run.cur \subseteq Listing /\ run.need \subseteq Storages
  BY DEF TypeOK, Runs
<1>3. run.need # {}
  BY DEF CopyInv, NeedInv, Write, Written
<1>2. run.need \in SUBSET Nat /\ run.need # {}
  BY <1>1, <1>3, ReleaseAssumption DEF Storages
<1> QED BY <1>1, <1>2, FirstIn DEF TypeOK

\* A file is truncated and begun; the others stay.
LEMMA WriteFile ==
    ASSUME TypeOK, CopyInv, Write
    PROVE  \E x \in run.cur : \A s \in Storages, t \in Tags, a \in Assets :
            IF s = First(run.need) /\ t = x.tag /\ a = x.asset
            THEN disk'[s][t][a].ver = x.ver
            ELSE disk'[s][t][a] = disk[s][t][a]
<1>1. PICK x \in run.cur : \E n \in 0..Size(x) :
        disk' = [disk EXCEPT ![First(run.need)][x.tag][x.asset] = [ver |-> x.ver, size |-> n]]
  BY DEF Write
<1>2. PICK n \in 0..Size(x) :
        disk' = [disk EXCEPT ![First(run.need)][x.tag][x.asset] = [ver |-> x.ver, size |-> n]]
  BY <1>1
<1> DEFINE f == [ver |-> x.ver, size |-> n]
<1>3. f.ver = x.ver
  OBVIOUS
<1>4. disk' = [disk EXCEPT ![First(run.need)][x.tag][x.asset] = f]
  BY <1>2
<1>5. First(run.need) \in Storages /\ x.tag \in Tags /\ x.asset \in Assets
  BY Writes DEF Listing
<1> HIDE DEF f
<1>6. \A s \in Storages, t \in Tags, a \in Assets :
        disk'[s][t][a] = IF s = First(run.need) /\ t = x.tag /\ a = x.asset
                         THEN f ELSE disk[s][t][a]
  BY <1>4, <1>5, Writes, FileAt
<1> QED BY <1>3, <1>6

\* A file is written to its end; the others stay.
LEMMA WrittenFile ==
    ASSUME TypeOK, CopyInv, Written
    PROVE  \E x \in run.cur : \A s \in Storages, t \in Tags, a \in Assets :
            IF s = First(run.need) /\ t = x.tag /\ a = x.asset
            THEN /\ disk[s][t][a].ver = x.ver
                 /\ disk'[s][t][a] = Resized(disk[s][t][a], Size(x))
                 /\ disk'[s][t][a].ver = x.ver
            ELSE disk'[s][t][a] = disk[s][t][a]
<1>1. PICK x \in run.cur :
        disk' = [disk EXCEPT ![First(run.need)][x.tag][x.asset].size = Size(x)]
  BY DEF Written
<1>2. First(run.need) \in Storages /\ x.tag \in Tags /\ x.asset \in Assets
  BY Writes DEF Listing
<1>3. \A s \in Storages, t \in Tags, a \in Assets :
        disk'[s][t][a] = IF s = First(run.need) /\ t = x.tag /\ a = x.asset
                         THEN Resized(disk[s][t][a], Size(x)) ELSE disk[s][t][a]
  <2> DEFINE s0 == First(run.need)
             t0 == x.tag
             a0 == x.asset
             n == Size(x)
  <2>1. disk' = [disk EXCEPT ![s0][t0][a0].size = n]
    BY <1>1
  <2>2. s0 \in Storages /\ t0 \in Tags /\ a0 \in Assets
    BY <1>2
  <2>3. disk \in [Storages -> [Tags -> [Assets -> Files]]]
    BY Writes
  <2> HIDE DEF s0, t0, a0, n
  <2>4. \A s \in Storages, t \in Tags, a \in Assets :
          disk'[s][t][a] = IF s = s0 /\ t = t0 /\ a = a0
                           THEN Resized(disk[s][t][a], n) ELSE disk[s][t][a]
    BY <2>1, <2>2, <2>3 DEF Resized
  <2> QED BY <2>4 DEF s0, t0, a0, n
<1>4. disk[First(run.need)][x.tag][x.asset].ver = x.ver
  BY DEF Written, CopyInv, NeedInv, At
<1>5. disk[First(run.need)][x.tag][x.asset] \in Files
  BY <1>2, Writes
<1>6. Resized(disk[First(run.need)][x.tag][x.asset], Size(x)).ver = x.ver
  BY <1>4, <1>5, ResizedFile
<1> QED BY <1>3, <1>4, <1>6

LEMMA WriteChanges ==
    ASSUME TypeOK, CopyInv, Write \/ Written
    PROVE  \E x \in run.cur : \A s \in Storages, t \in Tags, a \in Assets :
            IF s = First(run.need) /\ t = x.tag /\ a = x.asset
            THEN disk'[s][t][a].ver = x.ver
            ELSE disk'[s][t][a] = disk[s][t][a]
<1>1. CASE Write
  BY <1>1, WriteFile
<1>2. CASE Written
  <2>1. PICK x \in run.cur : \A s \in Storages, t \in Tags, a \in Assets :
          IF s = First(run.need) /\ t = x.tag /\ a = x.asset
          THEN /\ disk[s][t][a].ver = x.ver
               /\ disk'[s][t][a] = Resized(disk[s][t][a], Size(x))
               /\ disk'[s][t][a].ver = x.ver
          ELSE disk'[s][t][a] = disk[s][t][a]
    BY <1>2, WrittenFile
  <2> QED BY <2>1
<1> QED BY <1>1, <1>2

LEMMA CopiesWrite ==
    ASSUME TypeOK, CopyInv, Write \/ Written
    PROVE  CopyInv'
<1>1. PICK x \in run.cur :
        \A s \in Storages, t \in Tags, a \in Assets :
            IF s = First(run.need) /\ t = x.tag /\ a = x.asset
            THEN disk'[s][t][a].ver = x.ver
            ELSE disk'[s][t][a] = disk[s][t][a]
  BY WriteChanges
<1>2. x.tag \in Tags /\ x.asset \in Assets /\ x.ver \in Nat
  BY Writes DEF Listing, Versions
<1>3. /\ up' = up /\ run \in Runs
      /\ First(run.need) \in run.need /\ run.need \subseteq Storages
  BY Writes DEF Write, Written, Quiet, upVars
<1>4. run'.rest = run.rest /\ run'.cur = run.cur /\ run'.unseen = run.unseen
  <2>1. CASE Written
    BY <1>3, <2>1, RunFields DEF Written
  <2> QED BY <2>1 DEF Write
<1>5. x.ver <= up[x.tag][x.asset]
  BY <1>1 DEF CopyInv, ListInv
<1>6. FilesInv'
  BY <1>1, <1>3, <1>5 DEF CopyInv, FilesInv
<1>7. \A y \in run.rest \cup run.cur : y.tag \in Tags /\ y.asset \in Assets /\ y.ver \in Nat
  BY <1>3 DEF Runs, Listing, Versions
<1>8. \A y \in run.rest \cup run.cur, s \in Storages : At(disk, s, y)'.ver <= y.ver
  <2> TAKE y \in run.rest \cup run.cur, s \in Storages
  <2>1. At(disk, s, y).ver <= y.ver
    BY DEF CopyInv, ListInv
  <2>2. CASE y.tag = x.tag /\ y.asset = x.asset
    <3>1. x.ver = y.ver
      BY <1>1, <2>2 DEF CopyInv, ListInv
    <3> QED BY <1>1, <1>7, <2>1, <3>1 DEF At
  <2>3. CASE ~(y.tag = x.tag /\ y.asset = x.asset)
    BY <1>1, <1>7, <2>1, <2>3 DEF At
  <2> QED BY <2>2, <2>3
<1>9. ListInv'
  <2>1. pc' \in Working
    BY DEF Write, Written, Goto, Working
  <2> QED BY <1>3, <1>4, <1>8, <2>1 DEF CopyInv, ListInv, At
<1>10. NeedInv'
  <2>1. \A y \in run.cur : y = x
    BY <1>1 DEF CopyInv, ListInv
  <2>2. \A s \in run.need \ {First(run.need)} : s \in Needs(x)' \cup run.unseen
    <3>1. run.need \ {First(run.need)} \subseteq Needs(x) \cup run.unseen
      BY DEF CopyInv, NeedInv, Write, Written
    <3> QED BY <1>1, <1>2, <1>3, <3>1 DEF Needs, Size
  <2>3. CASE Write
    <3>1. run' = run /\ pc' = "written"
      BY <2>3 DEF Write, Goto
    <3>2. At(disk, First(run.need), x)'.ver = x.ver
      BY <1>1, <1>2, <1>3, <3>1 DEF At
    <3>3. /\ run.need # {}
          /\ run.need \ {First(run.need)} \subseteq Needs(x)' \cup run.unseen
      BY <1>3, <2>2
    <3> QED BY <2>1, <3>1, <3>2, <3>3 DEF NeedInv, At
  <2>4. CASE Written
    <3>1. run'.need = run.need \ {First(run.need)} /\ pc' = "put"
      BY <1>3, <2>4, RunFields DEF Written, Goto
    <3> QED BY <1>4, <2>1, <2>2, <3>1 DEF NeedInv
  <2> QED BY <2>3, <2>4
<1> QED BY <1>6, <1>9, <1>10 DEF CopyInv

LEMMA CopyInductive == TypeOK /\ CopyInv /\ [Next]_vars => CopyInv'
<1> SUFFICES ASSUME TypeOK, CopyInv, [Next]_vars PROVE CopyInv'
  OBVIOUS
<1> USE DEF Quiet, Store, upVars, Goto, Working
<1>0. run \in Runs
  BY DEF TypeOK
<1>1. CASE UNCHANGED vars \/ Cancel \/ Request
  BY <1>1, CopiesAlone DEF vars, Cancel, Request
<1>2. CASE \E t \in Tags : Publish(t) \/ Withdraw(t) \/ \E a \in Assets : Upload(t, a)
  BY <1>2, CopiesUpstream
<1>3. CASE Begin \/ End \/ Fail \/ Crash
  BY <1>3, CopiesNone DEF Begin, End, Fail, Crash, Return, NewRun
<1>4. CASE List
  BY <1>0, <1>4, RunFields, CopiesAlone DEF List
<1>5. CASE NextRelease \/ Download \/ MakeDir \/ PutsOver \/ DownloadsOver \/ PruneOver
  BY <1>5, CopiesAlone DEF NextRelease, Download, MakeDir, PutsOver, DownloadsOver, PruneOver
<1>6. CASE ListAssets
  BY <1>6, CopiesListAssets
<1>7. CASE Examine
  BY <1>7, CopiesExamine
<1>8. CASE Write \/ Written
  BY <1>8, CopiesWrite
<1>9. CASE ItemsOver
  BY <1>0, <1>9, RunFields, CopiesNone DEF ItemsOver
<1>10. CASE Prune \/ PruneSkips \/ EntriesOver \/ KeepEntry \/ RemoveEntry
  <2>1. /\ run'.rest = run.rest /\ run'.cur = run.cur
        /\ run'.need = run.need /\ run'.unseen = run.unseen
        /\ pc' \in {"prune", "entries"} /\ pc \in {"prune", "entries"}
        /\ disk' = disk /\ up' = up
    <3>1. CASE Prune
      BY <1>0, <3>1, RunFields DEF Prune
    <3>2. CASE EntriesOver
      BY <1>0, <3>2, RunFields DEF EntriesOver
    <3>3. CASE KeepEntry
      BY <1>0, <3>3, RunFields DEF KeepEntry
    <3>4. CASE RemoveEntry
      BY <1>0, <3>4, RunFields DEF RemoveEntry
    <3>5. CASE PruneSkips
      BY <1>0, <3>5, RunFields DEF PruneSkips
    <3> QED BY <1>10, <3>1, <3>2, <3>3, <3>4, <3>5
  <2> QED BY <2>1, CopiesAlone
<1> QED BY <1>1, <1>2, <1>3, <1>4, <1>5, <1>6, <1>7, <1>8, <1>9, <1>10 DEF Next, Step

\* Only writing changes files.
LEMMA OnlyWrites ==
    ASSUME [Next]_vars
    PROVE  disk' = disk \/ Write \/ Written
BY DEF Next, Publish, Withdraw, Upload, Changed, Begin, Cancel, Step, Request, List,
   NextRelease, ListAssets, Examine, Download, MakeDir, PutsOver, ItemsOver, DownloadsOver,
   Prune, PruneSkips, KeepEntry, RemoveEntry, EntriesOver, PruneOver, End, Fail, Crash, Return, Store, vars

LEMMA CopyInit == Init => TypeOK /\ PlaceInv /\ CopyInv
<1> SUFFICES ASSUME Init PROVE CopyInv
  BY InitTyped DEF Init, PlaceInv
<1>1. FilesInv
  BY DEF Init, FilesInv, NoFile
<1>2. ListInv /\ NeedInv
  BY DEF Init, ListInv, NeedInv, NewRun
<1> QED BY <1>1, <1>2 DEF CopyInv

\* A whole copy of what is published is not written to again, unless its storage
\* could not be looked at.
THEOREM CopiesKept == Spec => GoodCopiesUntouched
<1>1. TypeOK /\ CopyInv /\ [Next]_vars =>
        [\A s \in Storages, t \in Tags, a \in Assets :
            LET f == disk[s][t][a] IN
            /\ t \in There /\ f.ver = up[t][a] /\ f.ver > 0 /\ f.size = Sizes[f.ver]
            => \/ disk'[s][t][a] = f
               \/ s \in run.unseen /\ \E x \in run.cur : x.tag = t /\ x.asset = a]_vars
  <2> SUFFICES ASSUME TypeOK, CopyInv, [Next]_vars, NEW s \in Storages, NEW t \in Tags,
                      NEW a \in Assets, disk[s][t][a].ver = up[t][a], disk[s][t][a].ver > 0,
                      disk[s][t][a].size = Sizes[disk[s][t][a].ver],
                      ~(s \in run.unseen /\ \E x \in run.cur : x.tag = t /\ x.asset = a)
               PROVE  disk'[s][t][a] = disk[s][t][a]
    OBVIOUS
  <2>1. CASE Write
    <3>1. PICK x \in run.cur :
            IF s = First(run.need) /\ t = x.tag /\ a = x.asset
            THEN disk'[s][t][a].ver = x.ver
            ELSE disk'[s][t][a] = disk[s][t][a]
      BY <2>1, WriteFile
    <3>2. CASE s = First(run.need) /\ t = x.tag /\ a = x.asset
      <4>1. s \in Needs(x)
        <5>1. s \in Needs(x) \cup run.unseen
          BY <2>1, <3>2, Writes DEF CopyInv, NeedInv, Write
        <5> QED BY <3>1, <3>2, <5>1
      <4>2. disk[s][t][a] = NoFile \/ disk[s][t][a].size # Sizes[x.ver]
        BY <3>2, <4>1 DEF Needs, Size
      <4>3. disk[s][t][a].ver <= x.ver /\ x.ver <= up[t][a]
        BY <3>2 DEF CopyInv, ListInv, At
      <4>4. disk[s][t][a].ver \in Nat /\ x.ver \in Nat
        <5>1. disk[s][t][a] \in Files /\ x \in Listing
          BY <2>1, Writes
        <5> QED BY <5>1 DEF Files, Listing, Versions
      <4>5. disk[s][t][a].ver = x.ver
        BY <4>3, <4>4
      <4> QED BY <4>2, <4>5 DEF NoFile
    <3> QED BY <3>1, <3>2
  <2>2. CASE Written
    <3>1. PICK x \in run.cur :
            IF s = First(run.need) /\ t = x.tag /\ a = x.asset
            THEN /\ disk[s][t][a].ver = x.ver
                 /\ disk'[s][t][a] = Resized(disk[s][t][a], Size(x))
            ELSE disk'[s][t][a] = disk[s][t][a]
      BY <2>2, WrittenFile
    <3>2. disk[s][t][a] \in Files
      BY <2>2, Writes
    <3> QED BY <3>1, <3>2, ResizedFile DEF Size
  <2> QED BY <2>1, <2>2, OnlyWrites
<1> QED BY <1>1, CopyInit, TypeInductive, CopyInductive, PTL DEF Spec, GoodCopiesUntouched
-----------------------------------------------------------------------------
(* Pruning.                                                                   *)

\* A run that is cancelled while it prunes was cancelled late.
LateInv == Pruning /\ cancelled => late

LEMMA LateInductive == LateInv /\ [Next]_vars => LateInv'
<1> SUFFICES ASSUME LateInv, [Next]_vars PROVE LateInv'
  OBVIOUS
<1> USE DEF LateInv, Pruning, Goto, Quiet
<1>1. CASE UNCHANGED vars
  <2>1. pc' = pc /\ cancelled' = cancelled /\ late' = late
    BY <1>1 DEF vars, retryVars
  <2> QED BY <2>1
<1>2. CASE \E t \in Tags : Publish(t) \/ Withdraw(t) \/ \E a \in Assets : Upload(t, a)
  <2>1. pc' = pc /\ cancelled' = cancelled /\ late' = late
    BY <1>2 DEF Publish, Withdraw, Upload, Changed, retryVars
  <2> QED BY <2>1
<1>3. CASE Begin \/ Cancel \/ End \/ Fail \/ Crash
  BY <1>3 DEF Begin, Cancel, End, Fail, Crash, Return
<1>4. CASE Request
  BY <1>4 DEF Request, DoStep, Check, CallFails, Slept, Interrupted
<1>5. CASE \/ List \/ NextRelease \/ ListAssets \/ Examine \/ Download
           \/ MakeDir \/ Write \/ Written \/ PutsOver \/ ItemsOver
  BY <1>5 DEF List, NextRelease, ListAssets, Examine, Download, MakeDir, Write, Written,
     PutsOver, ItemsOver
<1>6. CASE DownloadsOver
  BY <1>6 DEF DownloadsOver
<1>7. CASE Prune \/ PruneSkips \/ KeepEntry \/ RemoveEntry \/ EntriesOver \/ PruneOver
  BY <1>7 DEF Prune, PruneSkips, KeepEntry, RemoveEntry, EntriesOver, PruneOver
<1> QED BY <1>1, <1>2, <1>3, <1>4, <1>5, <1>6, <1>7 DEF Next, Step

\* A run cancelled before it prunes removes no directory.
THEOREM CancelKeeps == Spec => CancelPrunesNothing
<1>1. Init => LateInv
  BY DEF Init, LateInv, Pruning
<1>2. TypeOK /\ LateInv /\ [Next]_vars =>
        [cancelled /\ ~late => \A s \in Storages : made[s] \subseteq made'[s]]_vars
  <2> SUFFICES ASSUME TypeOK, LateInv, [Next]_vars, cancelled, ~late
               PROVE  \A s \in Storages : made[s] \subseteq made'[s]
    OBVIOUS
  <2>1. made' = made \/ MakeDir \/ RemoveEntry
    BY DEF Next, Publish, Withdraw, Upload, Changed, Begin, Cancel, Step, Request, List,
       NextRelease, ListAssets, Examine, Download, Write, Written, PutsOver, ItemsOver,
       DownloadsOver, Prune, PruneSkips, KeepEntry, EntriesOver, PruneOver, End, Fail, Crash, Return,
       Store, vars
  <2>2. ~RemoveEntry
    BY DEF RemoveEntry, LateInv, Pruning
  <2>3. CASE MakeDir
    BY <2>3 DEF MakeDir, TypeOK
  <2> QED BY <2>1, <2>2, <2>3
<1> QED BY <1>1, <1>2, InitTyped, CopyInit, TypeInductive, LateInductive,
           PTL DEF Spec, CancelPrunesNothing

\* As RunFields, for the fields that the end of a run looks at.
LEMMA PruneFields ==
    ASSUME NEW r \in Runs
    PROVE  /\ \A q, t : LET n == [r EXCEPT !.listing = q, !.todo = t] IN
                /\ n.todo = t
                /\ n.reserved = r.reserved /\ n.store = r.store /\ n.skipped = r.skipped
           /\ \A t, R, X, S :
                LET n == [r EXCEPT !.todo = t, !.reserved = R, !.rest = X, !.seen = S] IN
                n.todo = t /\ n.reserved = R /\ n.store = r.store /\ n.skipped = r.skipped
           /\ \A X, C, N, F, k :
                LET n == [r EXCEPT !.rest = X, !.cur = C, !.need = N, !.unseen = F,
                                   !.total = k] IN
                /\ n.todo = r.todo
                /\ n.reserved = r.reserved /\ n.store = r.store /\ n.skipped = r.skipped
           /\ \A N : LET n == [r EXCEPT !.need = N] IN
                /\ n.todo = r.todo
                /\ n.reserved = r.reserved /\ n.store = r.store /\ n.skipped = r.skipped
           /\ \A C, F : LET n == [r EXCEPT !.cur = C, !.unseen = F] IN
                /\ n.todo = r.todo
                /\ n.reserved = r.reserved /\ n.store = r.store /\ n.skipped = r.skipped
           /\ \A E : LET n == [r EXCEPT !.entries = E] IN
                /\ n.todo = r.todo /\ n.entries = E
                /\ n.reserved = r.reserved /\ n.store = r.store /\ n.skipped = r.skipped
           /\ \A k : LET n == [r EXCEPT !.store = k] IN
                /\ n.todo = r.todo
                /\ n.reserved = r.reserved /\ n.store = k /\ n.skipped = r.skipped
           /\ \A k, F : LET n == [r EXCEPT !.store = k, !.skipped = F] IN
                /\ n.todo = r.todo
                /\ n.reserved = r.reserved /\ n.store = k /\ n.skipped = F
BY DEF Runs

\* There is room for the releases left.
RoomInv ==
    /\ IsFiniteSet(run.reserved)
    /\ NumLimit >= 0 => Cardinality(run.reserved) + Len(run.todo) <= NumLimit

\* The storages behind are pruned or could not be read, and the one at hand is
\* pruned up to what is left of it.
PruneInv ==
    /\ ~Pruning => run.store = 1
    /\ \A s \in Storages : s < run.store =>
            s \in run.skipped \/ Entries(s) \subseteq run.reserved
    /\ pc = "entries" => /\ run.store \in Storages
                         /\ Entries(run.store) \subseteq run.reserved \cup run.entries
    /\ pc = "end" => run.store > NumStorages

LEMMA NewRunRoom == run = NewRun => RoomInv
<1> SUFFICES ASSUME run = NewRun PROVE RoomInv
  OBVIOUS
<1>1. run.reserved = {} /\ run.todo = <<>>
  BY DEF NewRun
<1> QED BY <1>1, FS_EmptySet DEF RoomInv

LEMMA RoomInductive == TypeOK /\ PlaceInv /\ RoomInv /\ [Next]_vars => RoomInv'
<1> SUFFICES ASSUME TypeOK, PlaceInv, RoomInv, [Next]_vars PROVE RoomInv'
  OBVIOUS
<1>0. run \in Runs
  BY DEF TypeOK
<1>1. CASE run'.reserved = run.reserved /\ run'.todo = run.todo
  BY <1>1 DEF RoomInv
<1>2. CASE Begin \/ End \/ Fail \/ Crash
  <2>1. run' = NewRun
    BY <1>2 DEF Begin, End, Fail, Crash, Return
  <2>2. run'.reserved = {} /\ run'.todo = <<>>
    BY <2>1 DEF NewRun
  <2> QED BY <2>2, FS_EmptySet DEF RoomInv
<1>3. CASE List
  <2> DEFINE q == Page(published)
  <2>0. q \in Seq(Tags)
    BY PageTyped DEF TypeOK
  <2>1. run'.todo = Prefix(q) /\ run'.reserved = run.reserved
    BY <1>0, <1>3, PruneFields DEF List
  <2>2. run.reserved = {}
    BY <1>3 DEF List, PlaceInv, NewRun
  <2> HIDE DEF q
  <2>3. NumLimit >= 0 => Len(Prefix(q)) <= NumLimit
    BY <2>0, PrefixTyped
  <2>4. Len(Prefix(q)) \in Nat
    BY <2>0, PrefixTyped
  <2> QED BY <2>1, <2>2, <2>3, <2>4, FS_EmptySet DEF RoomInv
<1>4. CASE ListAssets
  <2>1. run.todo \in Seq(Tags) /\ run.todo # <<>>
    BY <1>0, <1>4 DEF ListAssets, PlaceInv, Runs
  <2>2. PICK t, P :
            run' = [run EXCEPT !.todo = Tail(run.todo), !.reserved = run.reserved \cup {t},
                               !.rest = P, !.seen = run.seen \cup P]
    BY <1>4 DEF ListAssets
  <2>3. run'.todo = Tail(run.todo) /\ run'.reserved = run.reserved \cup {t}
    BY <1>0, <2>2, PruneFields
  <2>4. Len(Tail(run.todo)) = Len(run.todo) - 1 /\ Len(run.todo) \in Nat
    BY <2>1, HeadTailProperties
  <2>5. IsFiniteSet(run.reserved)
    BY DEF RoomInv
  <2>6. /\ IsFiniteSet(run.reserved \cup {t})
        /\ Cardinality(run.reserved) \in Nat
        /\ Cardinality(run.reserved \cup {t}) <= Cardinality(run.reserved) + 1
        /\ Cardinality(run.reserved \cup {t}) \in Nat
    <3>1. Cardinality(run.reserved) \in Nat
      BY <2>5, FS_CardinalityType
    <3>2. /\ IsFiniteSet(run.reserved \cup {t})
          /\ Cardinality(run.reserved \cup {t}) = Cardinality(run.reserved)
                \/ Cardinality(run.reserved \cup {t}) = Cardinality(run.reserved) + 1
      BY <2>5, FS_AddElement
    <3> QED BY <3>1, <3>2
  <2> QED BY <2>3, <2>4, <2>6, ReleaseAssumption DEF RoomInv
<1>5. CASE Examine
  BY <1>0, <1>1, <1>5, PruneFields DEF Examine
<1>6. CASE Written
  BY <1>0, <1>1, <1>6, PruneFields DEF Written
<1>7. CASE ItemsOver
  BY <1>0, <1>1, <1>7, PruneFields DEF ItemsOver
<1>8. CASE Prune
  BY <1>0, <1>1, <1>8, PruneFields DEF Prune
<1>9. CASE KeepEntry
  BY <1>0, <1>1, <1>9, PruneFields DEF KeepEntry
<1>10. CASE RemoveEntry
  BY <1>0, <1>1, <1>10, PruneFields DEF RemoveEntry
<1>11. CASE EntriesOver
  BY <1>0, <1>1, <1>11, PruneFields DEF EntriesOver
<1>14. CASE PruneSkips
  BY <1>0, <1>1, <1>14, PruneFields DEF PruneSkips
<1>12. CASE run' = run
  BY <1>1, <1>12
<1>13. \/ run' = run \/ Begin \/ List \/ ListAssets \/ Examine \/ Written \/ ItemsOver
       \/ Prune \/ PruneSkips \/ KeepEntry \/ RemoveEntry \/ EntriesOver
       \/ End \/ Fail \/ Crash
  BY DEF Next, Publish, Withdraw, Upload, Changed, Cancel, Step, Request, NextRelease,
     Download, MakeDir, Write, PutsOver, DownloadsOver, PruneOver, vars
<1> QED BY <1>2, <1>3, <1>4, <1>5, <1>6, <1>7, <1>8, <1>9, <1>10, <1>11, <1>12, <1>13,
           <1>14

\* The removed entry is no longer there.
LEMMA EntryRemoved ==
    ASSUME TypeOK, NEW s \in Storages, NEW e, Removable(s, e),
           made' = [made EXCEPT ![s] = @ \ {e}]
    PROVE  /\ Entries(s)' \subseteq Entries(s) \ {e}
           /\ \A u \in Storages : u # s => Entries(u)' = Entries(u)
<1>1. made'[s] = made[s] \ {e} /\ \A u \in Storages : u # s => made'[u] = made[u]
  BY DEF TypeOK
<1> QED BY <1>1 DEF Entries, Removable

LEMMA PruneInductive == TypeOK /\ PruneInv /\ [Next]_vars => PruneInv'
<1> SUFFICES ASSUME TypeOK, PruneInv, [Next]_vars PROVE PruneInv'
  OBVIOUS
<1> USE DEF Pruning, Goto, Store
<1>0. run \in Runs /\ NumStorages \in Nat
  BY ReleaseAssumption DEF TypeOK
<1>1. CASE pc' = pc /\ run' = run /\ made' = made
  BY <1>1 DEF PruneInv, Entries
<1>2. CASE run'.store = 1 /\ pc' \notin {"entries", "end"}
  <2>1. \A s \in Storages : ~(s < 1)
    BY <1>0 DEF Storages
  <2> QED BY <1>2, <2>1 DEF PruneInv
<1>3. CASE Begin \/ End \/ Fail \/ Crash
  <2>1. run' = NewRun /\ pc' \in {"list", "idle"}
    BY <1>3 DEF Begin, End, Fail, Crash, Return
  <2> QED BY <1>2, <2>1 DEF NewRun
<1>4. CASE NextRelease \/ Download \/ MakeDir \/ Write \/ PutsOver \/ DownloadsOver
  <2>1. run' = run /\ ~Pruning /\ pc' \notin {"entries", "end"}
    BY <1>4 DEF NextRelease, Download, MakeDir, Write, PutsOver, DownloadsOver
  <2> QED BY <1>2, <2>1 DEF PruneInv
<1>5. CASE List \/ ListAssets \/ Examine \/ Written \/ ItemsOver
  <2>1. run'.store = run.store
    <3>1. CASE List
      BY <1>0, <3>1, PruneFields DEF List
    <3>2. CASE ListAssets
      BY <1>0, <3>2, PruneFields DEF ListAssets
    <3>3. CASE Examine
      BY <1>0, <3>3, PruneFields DEF Examine
    <3>4. CASE Written
      BY <1>0, <3>4, PruneFields DEF Written
    <3>5. CASE ItemsOver
      BY <1>0, <3>5, PruneFields DEF ItemsOver
    <3> QED BY <1>5, <3>1, <3>2, <3>3, <3>4, <3>5
  <2>2. ~Pruning /\ pc' \notin {"entries", "end"}
    BY <1>5 DEF List, ListAssets, Examine, Written, ItemsOver
  <2> QED BY <1>2, <2>1, <2>2 DEF PruneInv
<1>6. CASE Prune
  <2>1. /\ run'.store = run.store /\ run'.reserved = run.reserved
        /\ run'.skipped = run.skipped
        /\ run'.entries = Entries(run.store)
    BY <1>0, <1>6, PruneFields DEF Prune
  <2>2. made' = made /\ pc' = "entries" /\ pc = "prune" /\ run.store <= NumStorages
    BY <1>6 DEF Prune
  <2>3. run.store \in Storages
    BY <1>0, <2>2 DEF Runs, Storages
  <2> QED BY <2>1, <2>2, <2>3 DEF PruneInv, Entries
<1>7. CASE KeepEntry
  <2>1. PICK e \in run.entries \cap run.reserved : run' = [run EXCEPT !.entries = @ \ {e}]
    BY <1>7 DEF KeepEntry
  <2>2. /\ run'.store = run.store /\ run'.reserved = run.reserved
        /\ run'.skipped = run.skipped
        /\ run'.entries = run.entries \ {e}
    BY <1>0, <2>1, PruneFields
  <2>3. made' = made /\ pc' = pc /\ pc = "entries"
    BY <1>7 DEF KeepEntry
  <2> QED BY <2>1, <2>2, <2>3 DEF PruneInv, Entries
<1>8. CASE RemoveEntry
  <2>1. PICK e \in run.entries \ run.reserved :
            /\ Removable(run.store, e)
            /\ made' = [made EXCEPT ![run.store] = @ \ {e}]
            /\ run' = [run EXCEPT !.entries = @ \ {e}]
    BY <1>8 DEF RemoveEntry
  <2>2. /\ run'.store = run.store /\ run'.reserved = run.reserved
        /\ run'.skipped = run.skipped
        /\ run'.entries = run.entries \ {e}
    BY <1>0, <2>1, PruneFields
  <2>3. pc' = pc /\ pc = "entries"
    BY <1>8 DEF RemoveEntry
  <2>4. run.store \in Storages
    BY <2>3 DEF PruneInv
  <2>5. /\ Entries(run.store)' \subseteq Entries(run.store) \ {e}
        /\ \A u \in Storages : u # run.store => Entries(u)' = Entries(u)
    <3> DEFINE s == run.store
    <3>1. s \in Storages /\ Removable(s, e) /\ made' = [made EXCEPT ![s] = @ \ {e}]
      BY <2>1, <2>4
    <3> HIDE DEF s
    <3>2. /\ \A t \in Tags : t \in made'[s] <=> t \in made[s] /\ t # e
          /\ \A u \in Storages : u # s => made'[u] = made[u]
      BY <3>1 DEF TypeOK
    <3> QED BY <2>2, <3>1, <3>2, EntryRemoved DEF s
  <2>6. \A s \in Storages : s < run.store => s # run.store
    BY <1>0 DEF Storages
  <2> QED BY <2>2, <2>3, <2>4, <2>5, <2>6 DEF PruneInv
<1>9. CASE EntriesOver
  <2>1. /\ run'.store = run.store + 1 /\ run'.reserved = run.reserved
        /\ run'.skipped = run.skipped
    BY <1>0, <1>9, PruneFields DEF EntriesOver
  <2>2. made' = made /\ pc' = "prune" /\ pc = "entries" /\ run.entries = {}
    BY <1>9 DEF EntriesOver
  <2>3. Entries(run.store) \subseteq run.reserved /\ run.store \in Storages
    BY <2>2 DEF PruneInv
  <2>4. \A s \in Storages : s < run.store + 1 => s < run.store \/ s = run.store
    BY <1>0, <2>3 DEF Storages
  <2> QED BY <2>1, <2>2, <2>3, <2>4 DEF PruneInv, Entries
<1>12. CASE PruneSkips
  <2>1. /\ run'.store = run.store + 1 /\ run'.reserved = run.reserved
        /\ run'.skipped = run.skipped \cup {run.store}
    BY <1>0, <1>12, PruneFields DEF PruneSkips
  <2>2. made' = made /\ pc' = "prune" /\ pc = "prune" /\ run.store \in Nat
    BY <1>0, <1>12 DEF PruneSkips, Runs
  <2>3. \A s \in Storages : s < run.store + 1 => s < run.store \/ s = run.store
    BY <1>0, <2>2 DEF Storages
  <2> QED BY <2>1, <2>2, <2>3 DEF PruneInv, Entries
<1>10. CASE PruneOver
  BY <1>10 DEF PruneOver, PruneInv, Entries
<1>11. \/ pc' = pc /\ run' = run /\ made' = made
       \/ Begin \/ List \/ NextRelease \/ ListAssets \/ Examine \/ Download
       \/ MakeDir \/ Write \/ Written \/ PutsOver \/ ItemsOver \/ DownloadsOver
       \/ Prune \/ PruneSkips \/ KeepEntry \/ RemoveEntry \/ EntriesOver \/ PruneOver
       \/ End \/ Fail \/ Crash
  BY DEF Next, Publish, Withdraw, Upload, Changed, Cancel, Step, Request, vars
<1> QED BY <1>1, <1>3, <1>4, <1>5, <1>6, <1>7, <1>8, <1>9, <1>10, <1>11, <1>12

\* A run that ends well leaves no release but those it kept, at most the limit, in
\* any storage but those it could not read.
THEOREM PrunedAtEnd == Spec => []OkMeansPruned
<1>1. Init => TypeOK /\ PlaceInv /\ RoomInv /\ PruneInv
  <2> SUFFICES ASSUME Init PROVE RoomInv /\ PruneInv
    BY InitTyped DEF Init, PlaceInv
  <2>1. run = NewRun /\ pc = "idle"
    BY DEF Init
  <2>2. run.store = 1 /\ \A s \in Storages : ~(s < 1)
    BY <2>1, ReleaseAssumption DEF NewRun, Storages
  <2> QED BY <2>1, <2>2, NewRunRoom DEF PruneInv
<1>2. TypeOK /\ RoomInv /\ PruneInv => OkMeansPruned
  <2> SUFFICES ASSUME TypeOK, RoomInv, PruneInv, pc = "end",
                      NEW s \in Storages \ run.skipped
               PROVE  /\ Entries(s) \subseteq run.reserved
                      /\ NumLimit >= 0 => Cardinality(Entries(s)) <= NumLimit
    BY DEF OkMeansPruned
  <2>1. s < run.store
    BY ReleaseAssumption DEF PruneInv, Storages, TypeOK, Runs
  <2>2. Entries(s) \subseteq run.reserved
    BY <2>1 DEF PruneInv
  <2>3. /\ IsFiniteSet(run.reserved) /\ Len(run.todo) \in Nat
        /\ NumLimit >= 0 => Cardinality(run.reserved) + Len(run.todo) <= NumLimit
    BY DEF RoomInv, TypeOK, Runs
  <2>4. /\ Cardinality(run.reserved) \in Nat /\ Cardinality(Entries(s)) \in Nat
        /\ Cardinality(Entries(s)) <= Cardinality(run.reserved)
    BY <2>2, <2>3, FS_Subset, FS_CardinalityType
  <2> QED BY <2>2, <2>3, <2>4, ReleaseAssumption
<1> QED BY <1>1, <1>2, TypeInductive, RoomInductive, PruneInductive, PTL DEF Spec
=============================================================================

--------------------------- MODULE ConfigApi_proofs ---------------------------
(***************************************************************************)
(* Properties of ConfigApi for any number of handlers and requests, any    *)
(* entries, patches and ids, and any first file.                           *)
(***************************************************************************)
EXTENDS ConfigApi, RepoKey_proofs

Fields == {"op", "sec", "id", "body", "idx", "entry", "setting", "snap"}

EntryOf(sec) == IF sec = "repository" THEN RepositoryEntry ELSE StorageEntry

\* What may be put into a section, as one entry and as the whole of it.
Proper(sec, e) == e \in EntryOf(sec) /\ (sec = "repository" => Key(e) # <<>>)
Whole(sec, q) == q \in Seq(EntryOf(sec)) /\ (sec = "repository" => HasIdentity(q))
Good(conf) == conf \in Configuration /\ HasIdentity(conf.repository)
GoodText(f) ==
    /\ f \in [whole : BOOLEAN, conf : Configuration]
    /\ f.whole => HasIdentity(f.conf.repository)

Serving == {"check", "merge", "recheck", "load", "store"}

\* A handler that is at l with the request r.  Nothing here depends on what the
\* handlers share, so no other handler can disturb it.
BusyInv(l, r) ==
    /\ IF l \in Serving THEN r.op \in {"create", "update", "delete"} ELSE r.op = "save"
    /\ {r.sec, r.setting} \subseteq Sections
    /\ r.idx \in Nat
    /\ r.op = "create" => r.body \in Inputs(r.sec)
    /\ r.op = "update" => r.body \in Patches(r.sec)
    /\ l \in Serving \ {"check"} => r.op = "create" \/ r.idx > 0
    /\ l \in {"merge", "recheck"} => r.op = "update"
    /\ l = "load" => r.op # "update"
    /\ l = "recheck" => r.entry \in EntryOf(r.sec)
    /\ l = "load" /\ r.op = "create" => Proper(r.sec, r.entry)
    /\ l = "store" /\ r.op = "update" => Proper(r.sec, r.entry)
    /\ l = "store" /\ r.op # "update" => Whole(r.sec, r.snap)
    /\ l = "set" => Whole(r.setting, r.snap)
    /\ l = "write" => Good(r.snap)

HandlerInv(l, r) ==
    /\ l \in {"idle", "read", "set", "marshal", "write", "broken"} \cup Serving
    /\ DOMAIN r = Fields
    /\ IF l = "idle" THEN r = NoRequest ELSE BusyInv(l, r)

HandlersInv ==
    /\ DOMAIN hpc = Handlers /\ DOMAIN req = Handlers
    /\ hpc = [h \in Handlers |-> hpc[h]] /\ req = [h \in Handlers |-> req[h]]
    /\ \A h \in Handlers : HandlerInv(hpc[h], req[h])

FlagInv ==
    /\ alone \subseteq Handlers
    /\ overlap \in BOOLEAN /\ stale \in BOOLEAN /\ torn \in BOOLEAN

IInv ==
    /\ Good(mem) /\ Good(viper) /\ GoodText(file)
    /\ HandlersInv
    /\ requests \in 0..MaxRequests
    /\ FlagInv
-----------------------------------------------------------------------------
(* Entries and slices.                                                        *)

\* Every field of a request is one of Fields, so a change of one leaves the rest.
LEMMA NoRequestFields == DOMAIN NoRequest = Fields /\ NoRequest.op = "none"
BY DEF NoRequest, Fields

LEMMA RequestFields ==
    \A op, sec, id, body : LET q == Of(op, sec, id, body) IN
        /\ DOMAIN q = Fields /\ q.op = op /\ q.sec = sec /\ q.body = body /\ q.idx = 0
        /\ q.setting = "repository"
BY DEF Of, NoRequest, Fields

\* The URL that stands for an entry is one.
LEMMA EffectiveTyped ==
    ASSUME NEW e \in RepositoryEntry
    PROVE  EffectiveURL(e) \in Seq(Tokens)
<1>1. e.url \in Seq(Tokens) /\ e.org \in Seq(Tokens)
  BY DEF RepositoryEntry
<1>2. <<"https://", "github.com", "/">> \in Seq(Tokens)
  <2>1. "https://" \in Tokens /\ "github.com" \in Tokens /\ "/" \in Tokens
    BY RepoKeyAssumption DEF Separators
  <2> QED BY <2>1
<1>3. <<"https://", "github.com", "/">> \o e.org \in Seq(Tokens)
  BY <1>1, <1>2, ConcatProperties
<1> QED BY <1>1, <1>3 DEF EffectiveURL

\* A URL filled in leaves an entry an entry.
LEMMA WithURLTyped ==
    ASSUME NEW sec \in Sections, NEW e \in EntryOf(sec)
    PROVE  WithURL(sec, e) \in EntryOf(sec)
<1>1. CASE sec # "repository"
  BY <1>1 DEF WithURL
<1>2. CASE sec = "repository"
  <2> DEFINE u == EffectiveURL(e)
  <2>1. e \in RepositoryEntry
    BY <1>2 DEF EntryOf
  <2>2. u \in Seq(Tokens)
    BY <2>1, EffectiveTyped
  <2>3. [e EXCEPT !.url = u] \in RepositoryEntry
    <3> HIDE DEF u
    <3> QED BY <2>1, <2>2 DEF RepositoryEntry
  <2> QED BY <1>2, <2>3 DEF WithURL, EntryOf
<1> QED BY <1>1, <1>2

\* A patch over an entry gives an entry.
LEMMA OverlayTyped ==
    ASSUME NEW sec \in Sections, NEW e \in EntryOf(sec), NEW p \in Patches(sec)
    PROVE  Overlay(e, p) \in EntryOf(sec)
<1>1. CASE sec = "repository"
  BY <1>1, ConfigAssumption DEF Overlay, EntryOf, RepositoryEntry, Patches, Typed
<1>2. CASE sec # "repository"
  BY <1>2, ConfigAssumption DEF Overlay, EntryOf, StorageEntry, Patches, Typed
<1> QED BY <1>1, <1>2

\* The section of a good configuration is good, and a good section keeps it so.
LEMMA SectionOf ==
    ASSUME NEW conf, Good(conf), NEW sec \in Sections
    PROVE  Whole(sec, conf[sec])
BY DEF Good, Whole, Configuration, Sections, EntryOf

LEMMA SectionSet ==
    ASSUME NEW conf, Good(conf), NEW sec \in Sections, NEW q, Whole(sec, q)
    PROVE  Good([conf EXCEPT ![sec] = q])
<1>1. CASE sec = "repository"
  BY <1>1 DEF Good, Whole, Configuration, EntryOf
<1>2. CASE sec = "storage"
  BY <1>2 DEF Good, Whole, Configuration, EntryOf
<1> QED BY <1>1, <1>2 DEF Sections

\* An append of a proper entry.
LEMMA AppendWhole ==
    ASSUME NEW sec, NEW q, Whole(sec, q), NEW e, Proper(sec, e)
    PROVE  Whole(sec, Append(q, e))
BY DEF Whole, Proper, HasIdentity

\* The slice without its element i: what is before i stays, the rest moves up.
LEMMA RemoveAtProperties ==
    ASSUME NEW S, NEW q \in Seq(S), NEW i \in DOMAIN q
    PROVE  /\ RemoveAt(q, i) \in Seq(S)
           /\ Len(RemoveAt(q, i)) = Len(q) - 1
           /\ \A j \in 1..(Len(q) - 1) : RemoveAt(q, i)[j] = IF j < i THEN q[j] ELSE q[j + 1]
<1> DEFINE a == SubSeq(q, 1, i - 1)
           b == SubSeq(q, i + 1, Len(q))
<1>1. i \in 1..Len(q)
  OBVIOUS
<1>2. a \in Seq(S) /\ Len(a) = i - 1 /\ \A j \in 1..(i - 1) : a[j] = q[j]
  BY <1>1
<1>3. b \in Seq(S) /\ Len(b) = Len(q) - i /\ \A j \in 1..(Len(q) - i) : b[j] = q[i + j]
  BY <1>1
<1>4. RemoveAt(q, i) = a \o b
  BY DEF RemoveAt
<1> HIDE DEF a, b
<1>5. a \o b \in Seq(S) /\ Len(a \o b) = Len(q) - 1
  BY <1>1, <1>2, <1>3
<1>6. ASSUME NEW j \in 1..(Len(q) - 1)
      PROVE  (a \o b)[j] = IF j < i THEN q[j] ELSE q[j + 1]
  <2>1. CASE j < i
    BY <1>1, <1>2, <1>3, <2>1
  <2>2. CASE ~(j < i)
    <3>1. j \in 1..(Len(a) + Len(b)) /\ ~(j <= Len(a)) /\ j - Len(a) \in 1..(Len(q) - i)
      BY SMTT(30), <1>1, <1>2, <1>3, <2>2
    <3>2. (a \o b)[j] = IF j <= Len(a) THEN a[j] ELSE b[j - Len(a)]
      BY <1>2, <1>3, <3>1, ConcatProperties
    <3>3. i + (j - Len(a)) = j + 1
      BY <1>1, <1>2
    <3> QED BY <1>3, <2>2, <3>1, <3>2, <3>3
  <2> QED BY <2>1, <2>2
<1> QED BY <1>4, <1>5, <1>6

\* A removal from a good section.
LEMMA RemoveAtWhole ==
    ASSUME NEW sec, NEW q, Whole(sec, q), NEW i \in DOMAIN q
    PROVE  Whole(sec, RemoveAt(q, i))
<1>1. /\ RemoveAt(q, i) \in Seq(EntryOf(sec))
      /\ Len(RemoveAt(q, i)) = Len(q) - 1
      /\ \A j \in 1..(Len(q) - 1) : RemoveAt(q, i)[j] = IF j < i THEN q[j] ELSE q[j + 1]
  BY RemoveAtProperties DEF Whole
<1>2. ASSUME HasIdentity(q) PROVE HasIdentity(RemoveAt(q, i))
  <2> SUFFICES ASSUME NEW j \in 1..(Len(q) - 1) PROVE Key(RemoveAt(q, i)[j]) # <<>>
    BY <1>1 DEF HasIdentity
  <2>1. \A k \in 1..Len(q) : Key(q[k]) # <<>>
    BY <1>2 DEF HasIdentity, Whole
  <2>2. j \in 1..Len(q) /\ j + 1 \in 1..Len(q)
    BY DEF Whole
  <2> QED BY <1>1, <2>1, <2>2
<1> QED BY <1>1, <1>2 DEF Whole
-----------------------------------------------------------------------------
(* The text of a configuration, and what a part of it reads as.               *)

LEMMA WholeTextGood ==
    ASSUME NEW conf, Good(conf)
    PROVE  GoodText(WholeText(conf))
BY DEF Good, GoodText, WholeText

\* A text that is not whole only has to read as something.
LEMMA TornTextGood ==
    ASSUME NEW conf \in Configuration
    PROVE  GoodText([whole |-> FALSE, conf |-> conf])
BY DEF GoodText

LEMMA PrefixTyped ==
    ASSUME NEW S, NEW q \in Seq(S), NEW p \in Prefixes(q)
    PROVE  p \in Seq(S)
BY DEF Prefixes

LEMMA SuffixTyped ==
    ASSUME NEW S, NEW q \in Seq(S), NEW p \in Suffixes(q)
    PROVE  p \in Seq(S)
<1>1. <<>> \in Seq(S)
  OBVIOUS
<1>2. ASSUME NEW l \in 1..Len(q) PROVE SubSeq(q, l, Len(q)) \in Seq(S)
  OBVIOUS
<1> QED BY <1>1, <1>2 DEF Suffixes

\* A piece of an entry reads as one.
LEMMA PieceTyped ==
    ASSUME NEW sec \in Sections, NEW e \in EntryOf(sec), NEW p \in Pieces(e)
    PROVE  p \in EntryOf(sec)
<1>1. CASE sec = "repository"
  <2>1. e \in RepositoryEntry /\ "url" \in DOMAIN e
    BY <1>1 DEF EntryOf, RepositoryEntry
  <2>2. e.url \in Seq(Tokens) /\ e.org \in Seq(Tokens) /\ e.type \in {"repo", "org"}
    BY <2>1 DEF RepositoryEntry
  <2>3. ASSUME NEW u \in Prefixes(e.url)
        PROVE  [type |-> "repo", url |-> u, org |-> <<>>] \in RepositoryEntry
    <3>1. u \in Seq(Tokens)
      BY <2>2, PrefixTyped
    <3> QED BY <3>1 DEF RepositoryEntry
  <2>4. ASSUME NEW o \in Prefixes(e.org)
        PROVE  [e EXCEPT !.org = o] \in RepositoryEntry
    <3>1. o \in Seq(Tokens)
      BY <2>2, PrefixTyped
    <3> QED BY <2>1, <3>1 DEF RepositoryEntry
  <2> QED BY <1>1, <2>1, <2>3, <2>4 DEF Pieces, EntryOf
<1>2. CASE sec = "storage"
  <2>1. e \in StorageEntry /\ "url" \notin DOMAIN e /\ e.name \in Seq(Tokens)
    BY <1>2 DEF EntryOf, StorageEntry
  <2>2. ASSUME NEW n \in Prefixes(e.name)
        PROVE  [name |-> n] \in StorageEntry
    <3>1. n \in Seq(Tokens)
      BY <2>1, PrefixTyped
    <3> QED BY <3>1 DEF StorageEntry
  <2> QED BY <1>2, <2>1, <2>2 DEF Pieces, EntryOf
<1> QED BY <1>1, <1>2 DEF Sections

LEMMA BeginningTyped ==
    ASSUME NEW sec \in Sections, NEW q \in Seq(EntryOf(sec)), NEW p \in Beginnings(q)
    PROVE  p \in Seq(EntryOf(sec))
<1>1. CASE p \in Prefixes(q)
  BY <1>1, PrefixTyped
<1>2. CASE p \notin Prefixes(q)
  <2>1. PICK i \in DOMAIN q : \E e \in Pieces(q[i]) : p = Append(SubSeq(q, 1, i - 1), e)
    BY <1>2 DEF Beginnings
  <2>2. PICK e \in Pieces(q[i]) : p = Append(SubSeq(q, 1, i - 1), e)
    BY <2>1
  <2>3. q[i] \in EntryOf(sec)
    OBVIOUS
  <2>4. e \in EntryOf(sec)
    BY <2>3, PieceTyped
  <2>5. SubSeq(q, 1, i - 1) \in Seq(EntryOf(sec))
    OBVIOUS
  <2> QED BY <2>2, <2>4, <2>5
<1> QED BY <1>1, <1>2

LEMMA PartsTyped ==
    ASSUME NEW conf \in Configuration, NEW rest \in Configuration, NEW c \in Parts(conf, rest)
    PROVE  c \in Configuration
<1>1. /\ conf.repository \in Seq(EntryOf("repository")) /\ conf.storage \in Seq(EntryOf("storage"))
      /\ rest.repository \in Seq(EntryOf("repository")) /\ rest.storage \in Seq(EntryOf("storage"))
      /\ "repository" \in Sections /\ "storage" \in Sections
  BY DEF Configuration, EntryOf, Sections
<1>2. ASSUME NEW p \in Beginnings(conf.repository), NEW s \in Suffixes(rest.repository)
      PROVE  p \o s \in Seq(EntryOf("repository"))
  BY <1>1, BeginningTyped, SuffixTyped, ConcatProperties
<1>3. ASSUME NEW p \in Beginnings(conf.storage), NEW s \in Suffixes(rest.storage)
      PROVE  p \o s \in Seq(EntryOf("storage"))
  BY <1>1, BeginningTyped, SuffixTyped, ConcatProperties
<1>4. \A a \in Seq(EntryOf("repository")), b \in Seq(EntryOf("storage")) :
        [repository |-> a, storage |-> b] \in Configuration
  BY DEF Configuration, EntryOf
<1> DEFINE R == {[repository |-> p \o s, storage |-> rest.storage] :
                 p \in Beginnings(conf.repository), s \in Suffixes(rest.repository)}
           S == {[repository |-> conf.repository, storage |-> p \o s] :
                 p \in Beginnings(conf.storage), s \in Suffixes(rest.storage)}
<1>5. ASSUME NEW x \in R PROVE x \in Configuration
  <2>1. PICK p \in Beginnings(conf.repository), s \in Suffixes(rest.repository) :
               x = [repository |-> p \o s, storage |-> rest.storage]
    OBVIOUS
  <2> HIDE DEF R, S
  <2>2. p \o s \in Seq(EntryOf("repository"))
    BY <1>2
  <2> QED BY <1>1, <1>4, <2>1, <2>2
<1>6. ASSUME NEW x \in S PROVE x \in Configuration
  <2>1. PICK p \in Beginnings(conf.storage), s \in Suffixes(rest.storage) :
               x = [repository |-> conf.repository, storage |-> p \o s]
    OBVIOUS
  <2> HIDE DEF R, S
  <2>2. p \o s \in Seq(EntryOf("storage"))
    BY <1>3
  <2> QED BY <1>1, <1>4, <2>1, <2>2
<1>7. c \in R \cup S
  BY SMTT(30) DEF Parts
<1> QED
  <2> HIDE DEF R, S
  <2> QED BY <1>5, <1>6, <1>7

\* A whole text with the end of another behind it.
LEMMA OverwrittenTyped ==
    ASSUME NEW conf \in Configuration, NEW rest \in Configuration,
           NEW s \in Suffixes(rest.storage)
    PROVE  [conf EXCEPT !.storage = @ \o s] \in Configuration
<1>1. conf.storage \in Seq(StorageEntry) /\ rest.storage \in Seq(StorageEntry)
  BY DEF Configuration
<1>2. conf.storage \o s \in Seq(StorageEntry)
  BY <1>1, SuffixTyped, ConcatProperties
<1> QED BY <1>2 DEF Configuration
-----------------------------------------------------------------------------
(* The invariant.                                                             *)

LEMMA InitInv == Init => IInv
<1> SUFFICES ASSUME Init PROVE IInv
  OBVIOUS
<1>1. Good(mem) /\ Good(viper)
  BY ConfigAssumption DEF Init, Good
<1>2. GoodText(file)
  BY <1>1, WholeTextGood DEF Init
<1>3. HandlersInv
  BY NoRequestFields DEF Init, HandlersInv, HandlerInv
<1>4. requests \in 0..MaxRequests
  BY ConfigAssumption DEF Init
<1>5. FlagInv
  BY Zenon DEF Init, FlagInv
<1> QED BY <1>1, <1>2, <1>3, <1>4, <1>5 DEF IInv

\* What a step of one handler has to show of it.
LEMMA OneHandler ==
    ASSUME HandlersInv, NEW h \in Handlers, NEW l, NEW r, HandlerInv(l, r),
           hpc' = [hpc EXCEPT ![h] = l], req' = [req EXCEPT ![h] = r]
    PROVE  HandlersInv'
<1>1. DOMAIN hpc' = Handlers /\ DOMAIN req' = Handlers
  BY DEF HandlersInv
<1>2. hpc'[h] = l /\ req'[h] = r
  BY DEF HandlersInv
<1>3. \A g \in Handlers \ {h} : hpc'[g] = hpc[g] /\ req'[g] = req[g]
  BY DEF HandlersInv
<1>4. hpc' = [g \in Handlers |-> hpc'[g]] /\ req' = [g \in Handlers |-> req'[g]]
  BY DEF HandlersInv
<1>5. \A g \in Handlers : HandlerInv(hpc'[g], req'[g])
  BY <1>2, <1>3 DEF HandlersInv
<1> QED BY <1>1, <1>4, <1>5 DEF HandlersInv

LEMMA Responds ==
    ASSUME HandlersInv, NEW h \in Handlers, Respond(h)
    PROVE  HandlersInv'
BY OneHandler, NoRequestFields DEF Respond, Goto, HandlerInv

\* A move to l without a change of the request.
LEMMA Moved ==
    ASSUME HandlersInv, NEW h \in Handlers, NEW l, HandlerInv(l, req[h]),
           Goto(h, l), UNCHANGED req
    PROVE  HandlersInv'
<1>1. DOMAIN hpc' = Handlers /\ hpc' = [g \in Handlers |-> hpc'[g]]
  BY DEF HandlersInv, Goto
<1>2. \A g \in Handlers : HandlerInv(hpc'[g], req[g])
  BY DEF HandlersInv, Goto
<1> QED BY <1>1, <1>2 DEF HandlersInv

\* A change of one local variable.
LEMMA EntrySet ==
    ASSUME HandlersInv, NEW h \in Handlers, NEW e, NEW r, r = [req[h] EXCEPT !.entry = e]
    PROVE  /\ [req EXCEPT ![h].entry = e] = [req EXCEPT ![h] = r]
           /\ DOMAIN r = Fields /\ r.entry = e
           /\ r.op = req[h].op /\ r.sec = req[h].sec /\ r.idx = req[h].idx /\ r.setting = req[h].setting
           /\ r.body = req[h].body /\ r.snap = req[h].snap
BY DEF HandlersInv, HandlerInv, Fields

LEMMA IdxSet ==
    ASSUME HandlersInv, NEW h \in Handlers, NEW i, NEW r, r = [req[h] EXCEPT !.idx = i]
    PROVE  /\ [req EXCEPT ![h].idx = i] = [req EXCEPT ![h] = r]
           /\ DOMAIN r = Fields /\ r.idx = i
           /\ r.op = req[h].op /\ r.sec = req[h].sec /\ r.entry = req[h].entry /\ r.setting = req[h].setting
           /\ r.body = req[h].body /\ r.snap = req[h].snap
BY DEF HandlersInv, HandlerInv, Fields

LEMMA SnapSet ==
    ASSUME HandlersInv, NEW h \in Handlers, NEW q, NEW r, r = [req[h] EXCEPT !.snap = q]
    PROVE  /\ [req EXCEPT ![h].snap = q] = [req EXCEPT ![h] = r]
           /\ DOMAIN r = Fields /\ r.snap = q
           /\ r.op = req[h].op /\ r.sec = req[h].sec /\ r.idx = req[h].idx /\ r.setting = req[h].setting
           /\ r.body = req[h].body /\ r.entry = req[h].entry
BY DEF HandlersInv, HandlerInv, Fields
-----------------------------------------------------------------------------
(* The steps.                                                                 *)

\* A step that concerns its handler only.
LEMMA OthersKept ==
    ASSUME IInv, HandlersInv', UNCHANGED Config, Others
    PROVE  IInv'
BY DEF IInv, Config, Others, FlagInv

\* Steps that change no configuration.
LEMMA ReceiveInv ==
    ASSUME IInv, NEW h \in Handlers, Receive(h)
    PROVE  IInv'
<1> USE DEF IInv
<1>1. PICK r \in Requests : req' = [req EXCEPT ![h] = r]
  BY DEF Receive
<1>2. HandlerInv("check", r)
  <2>2. PICK sec \in Sections :
          \/ \E e \in Inputs(sec) : r = Of("create", sec, <<>>, e)
          \/ \E id \in Ids(sec), p \in Patches(sec) : r = Of("update", sec, id, p)
          \/ \E id \in Ids(sec) : r = Of("delete", sec, id, <<>>)
    BY <1>1 DEF Requests
  <2> QED BY <2>2, RequestFields DEF HandlerInv, BusyInv, Serving, Sections
<1>3. HandlersInv'
  BY <1>1, <1>2, OneHandler DEF Receive, Goto
<1>4. requests' \in 0..MaxRequests
  BY ConfigAssumption DEF Receive
<1>5. FlagInv'
  BY Zenon DEF Receive, FlagInv
<1> QED BY <1>3, <1>4, <1>5 DEF Receive, Config

LEMMA CreateInv ==
    ASSUME IInv, NEW h \in Handlers, Create(h)
    PROVE  IInv'
<1> USE DEF IInv
<1> DEFINE sec == req[h].sec
           e == WithURL(sec, req[h].body)
           r == [req[h] EXCEPT !.entry = e]
<1>1. HandlerInv("check", req[h]) /\ BusyInv("check", req[h]) /\ req[h].op = "create"
  BY DEF Create, HandlersInv, HandlerInv
<1>2. CASE Respond(h)
  <2>1. HandlersInv'
    BY <1>2, Responds
  <2> QED BY <2>1, OthersKept DEF Create
<1>3. CASE /\ KeyOf(sec, e) # <<>>
           /\ Goto(h, "load") /\ req' = [req EXCEPT ![h].entry = e]
  <2>1. sec \in Sections /\ req[h].body \in EntryOf(sec)
    BY <1>1, ConfigAssumption DEF BusyInv, Inputs, EntryOf
  <2>2. Proper(sec, e)
    BY <1>3, <2>1, WithURLTyped DEF Proper, KeyOf
  <2> HIDE DEF e
  <2>3. HandlerInv("load", r) /\ req' = [req EXCEPT ![h] = r]
    BY <1>1, <1>3, <2>2, EntrySet DEF HandlerInv, BusyInv, Serving
  <2> HIDE DEF r
  <2>4. HandlersInv'
    BY <1>3, <2>3, OneHandler DEF Goto
  <2> QED BY <2>4, OthersKept DEF Create
<1> QED BY <1>2, <1>3 DEF Create

LEMMA FindInv ==
    ASSUME IInv, NEW h \in Handlers, Find(h)
    PROVE  IInv'
<1> USE DEF IInv
<1> DEFINE hits == {i \in DOMAIN Entries(h) : Hit(req[h].sec, Entries(h)[i], req[h].id)}
           l == IF req[h].op = "update" THEN "merge" ELSE "load"
           r == [req[h] EXCEPT !.idx = Min(hits)]
<1>1. HandlerInv("check", req[h]) /\ BusyInv("check", req[h]) /\ req[h].op # "create"
  BY DEF Find, HandlersInv, HandlerInv
<1>2. CASE Respond(h)
  <2>1. HandlersInv'
    BY <1>2, Responds
  <2> QED BY <2>1, OthersKept DEF Find
<1>3. CASE hits # {} /\ Goto(h, l) /\ req' = [req EXCEPT ![h].idx = Min(hits)]
  <2>1. Min(hits) \in Nat \ {0}
    <3>1. Entries(h) \in Seq(EntryOf(req[h].sec))
      BY <1>1, SectionOf DEF BusyInv, Entries, Whole
    <3>2. hits \subseteq Nat \ {0}
      BY <3>1
    <3> HIDE DEF hits
    <3>3. PICK n \in hits : \A m \in hits : n <= m
      BY <1>3, <3>2, LeastOf
    <3> QED BY <3>2, <3>3 DEF Min
  <2> HIDE DEF hits
  <2>2. HandlerInv(l, r) /\ req' = [req EXCEPT ![h] = r]
    BY <1>1, <1>3, <2>1, IdxSet DEF HandlerInv, BusyInv, Serving
  <2> HIDE DEF r, l
  <2>3. HandlersInv'
    BY <1>3, <2>2, OneHandler DEF Goto
  <2> QED BY <2>3, OthersKept DEF Find
<1> QED BY <1>2, <1>3 DEF Find

LEMMA MergeInv ==
    ASSUME IInv, NEW h \in Handlers, Merge(h)
    PROVE  IInv'
<1> USE DEF IInv
<1> DEFINE sec == req[h].sec
           i == req[h].idx
           e == WithURL(sec, Overlay(Entries(h)[i], req[h].body))
           r == [req[h] EXCEPT !.entry = e]
<1>1. HandlerInv("merge", req[h]) /\ BusyInv("merge", req[h])
  BY DEF Merge, HandlersInv, HandlerInv
<1>2. CASE Respond(h)
  <2>1. HandlersInv'
    BY <1>2, Responds
  <2> QED BY <2>1, OthersKept DEF Merge
<1>3. CASE /\ i \in DOMAIN Entries(h)
           /\ Goto(h, "recheck") /\ req' = [req EXCEPT ![h].entry = e]
  <2>1. Entries(h)[i] \in EntryOf(sec) /\ sec \in Sections
    <3>1. Entries(h) \in Seq(EntryOf(sec)) /\ sec \in Sections
      BY <1>1, SectionOf DEF BusyInv, Entries, Whole
    <3> QED BY <1>3, <3>1
  <2>2. e \in EntryOf(sec)
    BY <1>1, <2>1, OverlayTyped, WithURLTyped DEF BusyInv
  <2> HIDE DEF e
  <2>3. HandlerInv("recheck", r) /\ req' = [req EXCEPT ![h] = r]
    BY <1>1, <1>3, <2>2, EntrySet DEF HandlerInv, BusyInv, Serving
  <2> HIDE DEF r
  <2>4. HandlersInv'
    BY <1>3, <2>3, OneHandler DEF Goto
  <2> QED BY <2>4, OthersKept DEF Merge
<1> QED BY <1>2, <1>3 DEF Merge

LEMMA RecheckInv ==
    ASSUME IInv, NEW h \in Handlers, Recheck(h)
    PROVE  IInv'
<1> USE DEF IInv
<1>1. HandlerInv("recheck", req[h]) /\ BusyInv("recheck", req[h])
  BY DEF Recheck, HandlersInv, HandlerInv
<1>2. CASE Respond(h)
  <2>1. HandlersInv'
    BY <1>2, Responds
  <2> QED BY <2>1, OthersKept DEF Recheck
<1>3. CASE /\ req[h].sec = "repository" => Key(req[h].entry) # <<>>
           /\ Goto(h, "store") /\ UNCHANGED req
  <2>1. HandlerInv("store", req[h])
    BY <1>1, <1>3 DEF HandlerInv, BusyInv, Serving, Proper
  <2>2. HandlersInv'
    BY <1>3, <2>1, Moved
  <2> QED BY <2>2, OthersKept DEF Recheck
<1> QED BY <1>2, <1>3 DEF Recheck

LEMMA LoadInv ==
    ASSUME IInv, NEW h \in Handlers, Load(h)
    PROVE  IInv'
<1> USE DEF IInv
<1> DEFINE sec == req[h].sec
           i == req[h].idx
           q == IF req[h].op = "create" THEN Append(Entries(h), req[h].entry)
                ELSE RemoveAt(Entries(h), i)
           r == [req[h] EXCEPT !.snap = q]
<1>1. HandlerInv("load", req[h]) /\ BusyInv("load", req[h])
  BY DEF Load, HandlersInv, HandlerInv
<1>2. CASE Respond(h)
  <2>1. HandlersInv'
    BY <1>2, Responds
  <2> QED BY <2>1, OthersKept DEF Load
<1>3. CASE /\ req[h].op = "create" \/ i \in DOMAIN Entries(h)
           /\ Goto(h, "store") /\ req' = [req EXCEPT ![h].snap = q]
  <2>1. Whole(sec, Entries(h))
    BY <1>1, SectionOf DEF BusyInv, Entries
  <2>2. Whole(sec, q)
    <3>1. CASE req[h].op = "create"
      BY <1>1, <2>1, <3>1, AppendWhole DEF BusyInv
    <3>2. CASE req[h].op # "create"
      BY <1>3, <2>1, <3>2, RemoveAtWhole
    <3> QED BY <3>1, <3>2
  <2> HIDE DEF q
  <2>3. HandlerInv("store", r) /\ req' = [req EXCEPT ![h] = r]
    BY <1>1, <1>3, <2>2, SnapSet DEF HandlerInv, BusyInv, Serving
  <2> HIDE DEF r
  <2>4. HandlersInv'
    BY <1>3, <2>3, OneHandler DEF Goto
  <2> QED BY <2>4, OthersKept DEF Load
<1>4. req[h].op = "create" \/ req[h].op = "delete"
  BY <1>1 DEF BusyInv, Serving
<1> QED BY <1>2, <1>3, <1>4 DEF Load

LEMMA StoreInv ==
    ASSUME IInv, NEW h \in Handlers, Store(h)
    PROVE  IInv'
<1> USE DEF IInv
<1> DEFINE sec == req[h].sec
           i == req[h].idx
<1>1. HandlerInv("store", req[h]) /\ BusyInv("store", req[h])
  BY DEF Store, HandlersInv, HandlerInv
<1>2. CASE Respond(h) /\ UNCHANGED mem
  <2>1. HandlersInv'
    BY <1>2, Responds
  <2> QED BY <1>2, <2>1, OthersKept DEF Store, Config
<1>3. CASE Goto(h, "read") /\ req' = [req EXCEPT ![h] = SaveRequest]
  <2>1. HandlersInv'
    <3>1. HandlerInv("read", SaveRequest)
      BY RequestFields DEF HandlerInv, BusyInv, Serving, Sections, SaveRequest
    <3> QED BY <1>3, <3>1, OneHandler DEF Goto
  <2>2. Good(mem')
    <3>1. CASE req[h].op = "update" /\ i \in DOMAIN Entries(h)
      <4> DEFINE q == [mem[sec] EXCEPT ![i] = req[h].entry]
      <4>1. sec \in Sections /\ Whole(sec, mem[sec])
        BY <1>1, SectionOf DEF BusyInv
      <4>2. Proper(sec, req[h].entry)
        BY <1>1, <3>1 DEF BusyInv
      <4>3. Whole(sec, q)
        BY <3>1, <4>1, <4>2 DEF Whole, Proper, HasIdentity, Entries
      <4>4. mem' = [mem EXCEPT ![sec] = q]
        BY <1>3, <3>1, <4>1 DEF Store, Entries, Good, Configuration, Sections
      <4> HIDE DEF q
      <4> QED BY <4>1, <4>3, <4>4, SectionSet
    <3>2. CASE req[h].op # "update"
      <4>1. sec \in Sections /\ Whole(sec, req[h].snap)
        BY <1>1, <3>2 DEF BusyInv
      <4>2. mem' = [mem EXCEPT ![sec] = req[h].snap]
        BY <3>2 DEF Store
      <4> QED BY <4>1, <4>2, SectionSet
    <3>3. req[h].op = "update" => i \in DOMAIN Entries(h)
      <4> SUFFICES ASSUME req[h].op = "update", i \notin DOMAIN Entries(h) PROVE FALSE
        OBVIOUS
      <4>1. hpc'[h] = "read" /\ hpc'[h] = "idle"
        BY <1>3 DEF Store, Respond, Goto, HandlersInv
      <4> QED BY <4>1
    <3> QED BY <3>1, <3>2, <3>3
  <2> QED BY <2>1, <2>2 DEF Store, Others, FlagInv
<1> QED BY <1>2, <1>3 DEF Store

LEMMA ReadInv ==
    ASSUME IInv, NEW h \in Handlers, Read(h)
    PROVE  IInv'
<1> USE DEF IInv
<1> DEFINE q == mem[req[h].setting]
           r == [req[h] EXCEPT !.snap = q]
<1>1. HandlerInv("read", req[h]) /\ BusyInv("read", req[h])
  BY DEF Read, HandlersInv, HandlerInv
<1>2. req[h].setting \in Sections /\ Whole(req[h].setting, q)
  BY <1>1, SectionOf DEF BusyInv
<1> HIDE DEF q
<1>3. HandlerInv("set", r) /\ req' = [req EXCEPT ![h] = r]
  BY <1>1, <1>2, SnapSet DEF Read, HandlerInv, BusyInv, Serving, q
<1> HIDE DEF r
<1>4. HandlersInv'
  BY <1>3, OneHandler DEF Read, Goto
<1>5. FlagInv'
  <2>1. alone' \subseteq Handlers
    BY DEF Read, FlagInv
  <2> QED BY <2>1, Zenon DEF Read, FlagInv
<1> QED BY <1>4, <1>5 DEF Read, Config

LEMMA SetInv ==
    ASSUME IInv, NEW h \in Handlers, Set(h)
    PROVE  IInv'
<1> USE DEF IInv
<1> DEFINE r == [req[h] EXCEPT !.setting = "storage"]
<1>1. HandlerInv("set", req[h]) /\ BusyInv("set", req[h])
  BY DEF Set, HandlersInv, HandlerInv
<1>2. Good(viper')
  BY <1>1, SectionSet DEF Set, BusyInv
<1>3. HandlersInv'
  <2>1. CASE req[h].setting = "repository"
    <3>1. HandlerInv("read", r)
      BY <1>1 DEF HandlerInv, BusyInv, Serving, Sections, Fields
    <3>2. req' = [req EXCEPT ![h] = r]
      BY <2>1 DEF Set, HandlersInv
    <3> HIDE DEF r
    <3> QED BY <2>1, <3>1, <3>2, OneHandler DEF Set, Goto
  <2>2. CASE req[h].setting # "repository"
    <3>1. HandlerInv("marshal", req[h])
      BY <1>1 DEF HandlerInv, BusyInv, Serving
    <3> QED BY <2>2, <3>1, Moved DEF Set
  <2> QED BY <2>1, <2>2
<1> QED BY <1>2, <1>3 DEF Set, Others, FlagInv

LEMMA AnswerInv ==
    ASSUME IInv, NEW h \in Handlers, NEW failed \in BOOLEAN, Answer(h, failed)
    PROVE  HandlersInv' /\ requests' \in 0..MaxRequests /\ FlagInv'
<1> USE DEF IInv
<1>1. HandlersInv'
  BY Responds DEF Answer
<1>2. FlagInv'
  <2>1. alone' \subseteq Handlers
    BY DEF Answer, FlagInv
  <2>2. stale' \in BOOLEAN
    <3> DEFINE b == failed \/ h \notin alone
    <3>1. b \in BOOLEAN
      BY Zenon
    <3> QED BY <3>1, Zenon DEF Answer
  <2> QED BY <2>1, <2>2, Zenon DEF Answer, FlagInv
<1> QED BY <1>1, <1>2 DEF Answer

LEMMA SaveInv ==
    ASSUME IInv, NEW h \in Handlers, Marshal(h) \/ Write(h) \/ WriteBreaks(h) \/ SaveFails(h)
    PROVE  IInv'
<1> USE DEF IInv
<1>1. CASE Marshal(h)
  <2> DEFINE r == [req[h] EXCEPT !.snap = viper]
  <2>1. HandlerInv("marshal", req[h]) /\ BusyInv("marshal", req[h])
    BY <1>1 DEF Marshal, HandlersInv, HandlerInv
  <2>2. HandlerInv("write", r) /\ req' = [req EXCEPT ![h] = r]
    BY <1>1, <2>1, SnapSet DEF Marshal, HandlerInv, BusyInv, Serving
  <2> HIDE DEF r
  <2>3. HandlersInv'
    BY <1>1, <2>2, OneHandler DEF Marshal, Goto
  <2>4. Good(Empty)
    BY DEF Good, Empty, Configuration, HasIdentity
  <2> QED BY <1>1, <2>3, <2>4, WholeTextGood DEF Marshal, Others, FlagInv
<1>2. ASSUME hpc[h] = "write"
      PROVE  /\ HandlerInv("write", req[h]) /\ BusyInv("write", req[h])
             /\ Good(req[h].snap)
             /\ file.conf \in Configuration
  BY <1>2 DEF HandlersInv, HandlerInv, BusyInv, GoodText
<1>3. CASE Write(h)
  <2>1. HandlersInv' /\ requests' \in 0..MaxRequests /\ FlagInv'
    BY <1>3, AnswerInv DEF Write
  <2>2. Good(req[h].snap) /\ file.conf \in Configuration
    BY <1>2, <1>3 DEF Write
  <2>3. GoodText(file')
    <3>1. CASE file' = WholeText(req[h].snap)
      BY <2>2, <3>1, WholeTextGood
    <3>2. ASSUME NEW s \in Suffixes(file.conf.storage),
                 file' = [whole |-> FALSE, conf |-> [req[h].snap EXCEPT !.storage = @ \o s]]
          PROVE  GoodText(file')
      <4>1. [req[h].snap EXCEPT !.storage = @ \o s] \in Configuration
        BY <2>2, OverwrittenTyped DEF Good
      <4> QED BY <3>2, <4>1, TornTextGood
    <3> QED BY <1>3, <3>1, <3>2 DEF Write
  <2> QED BY SMTT(30), <1>3, <2>1, <2>3 DEF Write
<1>4. CASE WriteBreaks(h)
  <2>1. HandlerInv("broken", req[h])
    BY <1>2, <1>4 DEF WriteBreaks, HandlerInv, BusyInv, Serving
  <2>2. HandlersInv'
    BY <1>4, <2>1, Moved DEF WriteBreaks
  <2>3. Good(req[h].snap) /\ file.conf \in Configuration
    BY <1>2, <1>4 DEF WriteBreaks
  <2>4. PICK c \in Parts(req[h].snap, file.conf) : file' = [whole |-> FALSE, conf |-> c]
    BY <1>4 DEF WriteBreaks
  <2>5. GoodText(file')
    BY <2>3, <2>4, PartsTyped, TornTextGood DEF Good
  <2> QED BY <1>4, <2>2, <2>5 DEF WriteBreaks, Others, FlagInv
<1>5. CASE SaveFails(h)
  <2>1. HandlersInv' /\ requests' \in 0..MaxRequests /\ FlagInv'
    BY <1>5, AnswerInv DEF SaveFails
  <2> QED BY <1>5, <2>1 DEF SaveFails, Config
<1> QED BY <1>1, <1>3, <1>4, <1>5

LEMMA RestartInv == IInv /\ Restart => IInv'
<1> SUFFICES ASSUME IInv, Restart PROVE IInv'
  OBVIOUS
<1> USE DEF IInv
<1>1. HandlersInv'
  BY NoRequestFields DEF Restart, HandlersInv, HandlerInv
<1>2. FlagInv'
  <2>1. alone' \subseteq Handlers
    BY DEF Restart
  <2>2. torn' \in BOOLEAN
    <3> DEFINE b == torn \/ ~file.whole
    <3>1. b \in BOOLEAN
      BY Zenon
    <3> QED BY <3>1, Zenon DEF Restart
  <2> QED BY <2>1, <2>2, Zenon DEF Restart, FlagInv
<1>3. Good(file.conf)
  BY DEF Restart, Good, GoodText
<1> QED BY <1>1, <1>2, <1>3 DEF Restart

LEMMA StepInv == IInv /\ [Next]_vars => IInv'
<1> SUFFICES ASSUME IInv, [Next]_vars PROVE IInv'
  OBVIOUS
<1>1. CASE UNCHANGED vars
  BY <1>1 DEF IInv, vars, HandlersInv, FlagInv
<1>2. CASE Restart
  BY <1>2, RestartInv
<1>3. ASSUME NEW h \in Handlers,
             \/ Receive(h) \/ Create(h) \/ Find(h) \/ Merge(h) \/ Recheck(h) \/ Load(h)
             \/ Store(h) \/ Read(h) \/ Set(h) \/ Marshal(h) \/ Write(h) \/ WriteBreaks(h)
             \/ SaveFails(h)
      PROVE  IInv'
  BY <1>3, ReceiveInv, CreateInv, FindInv, MergeInv, RecheckInv, LoadInv, StoreInv,
     ReadInv, SetInv, SaveInv
<1> QED BY <1>1, <1>2, <1>3 DEF Next

LEMMA Invariance == Spec => []IInv
<1> QED BY InitInv, StepInv, PTL DEF Spec

\* The variables of the handlers, and of what they share, keep their types.
THEOREM TypeCorrect == Spec => []TypeOK
<1>1. IInv => TypeOK
  <2> SUFFICES ASSUME IInv PROVE TypeOK
    OBVIOUS
  <2>1. {mem, viper} \subseteq Configuration /\ file \in [whole : BOOLEAN, conf : Configuration]
    BY DEF IInv, Good, GoodText
  <2>2. hpc \in [Handlers -> {"idle", "check", "merge", "recheck", "load", "store",
                               "read", "set", "marshal", "write", "broken"}]
    BY DEF IInv, HandlersInv, HandlerInv, Serving
  <2>3. ASSUME NEW h \in Handlers
        PROVE  /\ hpc[h] = "idle" <=> req[h] = NoRequest
               /\ hpc[h] \in {"merge", "recheck", "load", "store"} =>
                      req[h].op = "create" \/ req[h].idx > 0
    BY NoRequestFields DEF IInv, HandlersInv, HandlerInv, BusyInv, Serving
  <2>4. alone \subseteq Handlers
    BY DEF IInv, FlagInv
  <2>5. overlap \in BOOLEAN /\ stale \in BOOLEAN /\ torn \in BOOLEAN
    BY Zenon DEF IInv, FlagInv
  <2> QED BY <2>1, <2>2, <2>3, <2>4, <2>5 DEF TypeOK, IInv
<1> QED BY <1>1, Invariance, PTL

\* However requests overlap, saves fail or tear the file, and the server dies, every
\* entry in memory has an identity, and so has every entry of a file that is whole.
THEOREM AlwaysStarts == Spec => []StartsAgain
<1>1. IInv => StartsAgain
  BY DEF IInv, Good, GoodText, StartsAgain
<1> QED BY <1>1, Invariance, PTL

\* Between requests an entry with a key that is its own normal form is found by every
\* spelling of it: its key is not empty, and they all have that one normal form.
THEOREM AlwaysFound == Spec => []FoundHoweverSpelled
<1>1. IInv => FoundHoweverSpelled
  <2> SUFFICES ASSUME IInv, NEW i \in DOMAIN mem.repository,
                      NormalizeURL(Key(mem.repository[i])) = Key(mem.repository[i]),
                      NEW u \in Spellings(Key(mem.repository[i]))
               PROVE  Matches(mem.repository[i], u)
    BY DEF FoundHoweverSpelled
  <2> DEFINE e == mem.repository[i]
  <2>1. e \in RepositoryEntry /\ Key(e) # <<>>
    BY DEF IInv, Good, HasIdentity, Configuration
  <2> HIDE DEF e
  <2>2. Key(e) \in Seq(Tokens)
    BY <2>1, EffectiveTyped, NormalTyped DEF Key
  <2>3. NormalizeURL(u) = Key(e)
    BY <2>1, <2>2, SpellingsHaveOneKey DEF e
  <2> QED BY <2>1, <2>3 DEF Matches, e
<1> QED BY <1>1, Invariance, PTL
-----------------------------------------------------------------------------
(* The file follows the memory.                                               *)

\* Nobody is about to begin a save: what memory has is in viper, or on its way there.
NoneToSave == \A h \in Handlers : hpc[h] = "read" => req[h].setting # "repository"

\* What is on its way, of a handler that meets no other.
CarriesMemory(h) ==
    /\ hpc[h] = "set" => req[h].snap = mem[req[h].setting]
    /\ req[h].setting = "storage" => viper.repository = mem.repository
    /\ hpc[h] = "marshal" => viper = mem
    /\ hpc[h] = "write" => req[h].snap = mem /\ file = WholeText(Empty)

\* A handler that meets no other brings what memory has into the file, but for what a
\* handler changed that is going to save; when nobody is saving, it is there.
FileInv ==
    /\ \A h \in alone : Saving(h)
    /\ \A h \in alone, g \in Handlers : Saving(g) => g = h
    /\ NoneToSave => \A h \in alone : CarriesMemory(h)
    /\ NoneToSave /\ (\A h \in Handlers : ~Saving(h)) /\ ~stale => file.conf = mem

\* What memory has in both sections is all that it has.
LEMMA TwoSections ==
    ASSUME NEW c \in Configuration, NEW d \in Configuration,
           c.repository = d.repository, c.storage = d.storage
    PROVE  c = d
BY DEF Configuration

\* A step of a handler that is not saving, before and after, and changes nothing shared.
LEMMA FileInvKept ==
    ASSUME IInv, FileInv, NEW h \in Handlers, NEW l,
           ~Saving(h), hpc[h] # "read", l \in {"idle"} \cup Serving,
           Goto(h, l), \A g \in Handlers \ {h} : req'[g] = req[g],
           UNCHANGED <<Config, alone, stale>>
    PROVE  FileInv'
<1>1. hpc'[h] = l /\ \A g \in Handlers \ {h} : hpc'[g] = hpc[g]
  BY DEF Goto, IInv, HandlersInv
<1>2. \A g \in Handlers : Saving(g)' <=> Saving(g)
  BY <1>1 DEF Saving, Serving
<1>3. NoneToSave' => NoneToSave
  BY <1>1 DEF NoneToSave
<1>4. alone \subseteq Handlers \ {h}
  BY DEF FileInv, IInv, FlagInv
<1>5. ASSUME NEW g \in alone, NoneToSave, FileInv PROVE CarriesMemory(g)'
  BY <1>1, <1>4, <1>5 DEF FileInv, CarriesMemory, Config
<1> QED BY <1>2, <1>3, <1>4, <1>5 DEF FileInv, Config

\* The beginning of a save.  If another handler is saving, neither is alone any more.
LEMMA FileInvRead ==
    ASSUME IInv, FileInv, NEW h \in Handlers, Read(h)
    PROVE  FileInv'
<1> USE DEF IInv
<1> DEFINE r == [req[h] EXCEPT !.snap = mem[req[h].setting]]
<1>1. req' = [req EXCEPT ![h] = r] /\ r.snap = mem[req[h].setting] /\ r.setting = req[h].setting
  BY SnapSet DEF Read
<1> HIDE DEF r
<1>2. /\ hpc[h] = "read" /\ hpc'[h] = "set" /\ req'[h] = r
      /\ \A g \in Handlers \ {h} : hpc'[g] = hpc[g] /\ req'[g] = req[g]
  BY <1>1 DEF Read, Goto, HandlersInv
<1>3. Saving(h)' /\ \A g \in Handlers \ {h} : Saving(g)' <=> Saving(g)
  BY <1>2 DEF Saving
<1>4. req[h].setting \in Sections
  BY DEF HandlersInv, HandlerInv, BusyInv, Read
<1>5. CASE \E g \in Handlers \ {h} : Saving(g)
  <2>1. alone' = {}
    BY <1>5 DEF Read
  <2> QED BY <1>3, <2>1 DEF FileInv
<1>6. CASE \A g \in Handlers \ {h} : ~Saving(g)
  <2>1. alone' \subseteq {h}
    BY <1>6 DEF Read, FileInv, FlagInv
  <2>2. ASSUME h \in alone', NoneToSave' PROVE CarriesMemory(h)'
    <3>1. CASE req[h].setting = "repository"
      BY <1>1, <1>2, <3>1 DEF CarriesMemory, Read, Config
    <3>2. CASE req[h].setting # "repository"
      <4>1. h \in alone
        BY <1>6, <2>2, <3>2 DEF Read
      <4>2. NoneToSave
        BY <1>1, <1>2, <2>2, <3>2 DEF NoneToSave
      <4>3. viper.repository = mem.repository
        BY <1>4, <3>2, <4>1, <4>2 DEF FileInv, CarriesMemory, Sections
      <4> QED BY <1>1, <1>2, <4>3 DEF CarriesMemory, Read, Config
    <3> QED BY <3>1, <3>2
  <2> QED BY <1>3, <1>6, <2>1, <2>2 DEF FileInv
<1> QED BY <1>5, <1>6

LEMMA FileInvSet ==
    ASSUME IInv, FileInv, NEW h \in Handlers, Set(h)
    PROVE  FileInv'
<1> USE DEF IInv
<1>1. /\ hpc[h] = "set" /\ hpc'[h] \in {"read", "marshal"}
      /\ \A g \in Handlers \ {h} : hpc'[g] = hpc[g] /\ req'[g] = req[g]
      /\ req'[h].setting = "storage"
      /\ hpc'[h] = "marshal" <=> req[h].setting = "storage"
  <2>1. BusyInv("set", req[h])
    BY DEF Set, HandlersInv, HandlerInv
  <2>2. req[h].setting \in Sections /\ DOMAIN req[h] = Fields
    BY <2>1 DEF HandlersInv, HandlerInv, BusyInv
  <2> QED BY <2>2 DEF Set, Goto, HandlersInv, Sections, Fields
<1>2. Saving(h) /\ \A g \in Handlers : Saving(g)' <=> Saving(g)
  BY <1>1 DEF Saving
<1>3. NoneToSave' => NoneToSave
  BY <1>1 DEF NoneToSave
<1>4. \A g \in alone : g = h
  BY <1>2 DEF FileInv
<1>5. ASSUME h \in alone, NoneToSave PROVE CarriesMemory(h)'
  <2>1. req[h].snap = mem[req[h].setting]
    BY <1>1, <1>5 DEF FileInv, CarriesMemory
  <2>2. req[h].setting \in Sections /\ Good(mem) /\ Good(viper)
    BY <1>1 DEF HandlersInv, HandlerInv, BusyInv
  <2>3. viper' = [viper EXCEPT ![req[h].setting] = req[h].snap] /\ mem' = mem
    BY DEF Set
  <2>4. CASE req[h].setting = "repository"
    <3>1. viper'.repository = mem.repository
      BY <2>1, <2>2, <2>3, <2>4 DEF Good, Configuration
    <3> QED BY <1>1, <2>3, <2>4, <3>1 DEF CarriesMemory
  <2>5. CASE req[h].setting = "storage"
    <3>1. viper.repository = mem.repository
      BY <1>5, <2>5 DEF FileInv, CarriesMemory
    <3>2. viper'.repository = mem.repository /\ viper'.storage = mem.storage
      BY <2>1, <2>2, <2>3, <2>5, <3>1 DEF Good, Configuration
    <3>3. viper' \in Configuration
      BY SetInv DEF Good
    <3>4. viper' = mem
      BY <2>2, <3>2, <3>3, TwoSections DEF Good
    <3> QED BY <1>1, <2>3, <2>5, <3>2, <3>4 DEF CarriesMemory
  <2> QED BY <2>2, <2>4, <2>5 DEF Sections
<1> QED BY <1>2, <1>3, <1>4, <1>5 DEF FileInv, Set, Others

LEMMA FileInvMarshal ==
    ASSUME IInv, FileInv, NEW h \in Handlers, Marshal(h)
    PROVE  FileInv'
<1> USE DEF IInv
<1> DEFINE r == [req[h] EXCEPT !.snap = viper]
<1>1. req' = [req EXCEPT ![h] = r] /\ r.snap = viper /\ r.setting = req[h].setting
  BY SnapSet DEF Marshal
<1> HIDE DEF r
<1>2. /\ hpc[h] = "marshal" /\ hpc'[h] = "write" /\ req'[h] = r
      /\ \A g \in Handlers \ {h} : hpc'[g] = hpc[g] /\ req'[g] = req[g]
  BY <1>1 DEF Marshal, Goto, HandlersInv
<1>3. Saving(h) /\ \A g \in Handlers : Saving(g)' <=> Saving(g)
  BY <1>2 DEF Saving
<1>4. NoneToSave' => NoneToSave
  BY <1>2 DEF NoneToSave
<1>5. ASSUME h \in alone, NoneToSave PROVE CarriesMemory(h)'
  BY <1>1, <1>2, <1>5 DEF FileInv, CarriesMemory, Marshal
<1> QED BY <1>3, <1>4, <1>5 DEF FileInv, Marshal, Others

\* The end of a save, after a write that went well or not.
LEMMA FileInvEnd ==
    ASSUME IInv, FileInv, NEW h \in Handlers, Write(h) \/ SaveFails(h)
    PROVE  FileInv'
<1> USE DEF IInv
<1>1. /\ hpc[h] \in {"marshal", "write", "broken"} /\ Respond(h)
      /\ alone' = alone \ {h} /\ UNCHANGED mem
  BY DEF Write, SaveFails, Answer, Config
<1>2. hpc'[h] = "idle" /\ \A g \in Handlers \ {h} : hpc'[g] = hpc[g] /\ req'[g] = req[g]
  BY <1>1 DEF Respond, Goto, HandlersInv
<1>3. ~Saving(h)' /\ Saving(h) /\ \A g \in Handlers \ {h} : Saving(g)' <=> Saving(g)
  BY <1>1, <1>2 DEF Saving
<1>4. alone' = {}
  BY <1>1, <1>3 DEF FileInv
<1>5. ASSUME NoneToSave', ~stale' PROVE file'.conf = mem'
  <2>1. Write(h) /\ h \in alone
    BY <1>5 DEF Write, SaveFails, Answer
  <2>2. NoneToSave
    BY <1>1, <1>2, <1>5 DEF NoneToSave
  <2>3. req[h].snap = mem /\ file = WholeText(Empty)
    BY <2>1, <2>2 DEF FileInv, CarriesMemory, Write
  <2>4. file' = WholeText(mem)
    BY <2>1, <2>3 DEF Write
  <2> QED BY <1>1, <2>4 DEF WholeText
<1> QED BY <1>3, <1>4, <1>5 DEF FileInv

LEMMA FileInvBreaks ==
    ASSUME IInv, FileInv, NEW h \in Handlers, WriteBreaks(h)
    PROVE  FileInv'
<1> USE DEF IInv
<1>1. /\ hpc[h] = "write" /\ hpc'[h] = "broken" /\ req' = req
      /\ \A g \in Handlers \ {h} : hpc'[g] = hpc[g]
  BY DEF WriteBreaks, Goto, HandlersInv
<1>2. Saving(h) /\ \A g \in Handlers : Saving(g)' <=> Saving(g)
  BY <1>1 DEF Saving
<1>3. NoneToSave' => NoneToSave
  BY <1>1 DEF NoneToSave
<1>4. ASSUME h \in alone, NoneToSave PROVE CarriesMemory(h)'
  BY <1>1, <1>4 DEF FileInv, CarriesMemory, WriteBreaks
<1> QED BY <1>2, <1>3, <1>4 DEF FileInv, WriteBreaks, Others

LEMMA FileInvStep ==
    ASSUME IInv, FileInv, [Next]_vars
    PROVE  FileInv'
<1>1. CASE UNCHANGED vars
  BY <1>1 DEF vars, FileInv, Saving, NoneToSave, CarriesMemory
<1>2. CASE Restart
  BY <1>2 DEF Restart, FileInv, Saving
<1>3. ASSUME NEW h \in Handlers,
             Receive(h) \/ Create(h) \/ Find(h) \/ Merge(h) \/ Recheck(h) \/ Load(h)
      PROVE  FileInv'
  <2>1. PICK l \in {"idle"} \cup Serving : Goto(h, l)
    BY <1>3 DEF Receive, Create, Find, Merge, Recheck, Load, Respond, Serving
  <2>2. ~Saving(h) /\ hpc[h] # "read"
    BY <1>3 DEF Receive, Create, Find, Merge, Recheck, Load, Saving
  <2>3. \A g \in Handlers \ {h} : req'[g] = req[g]
    BY <1>3 DEF Receive, Create, Find, Merge, Recheck, Load, Respond, IInv, HandlersInv
  <2>4. UNCHANGED <<Config, alone, stale>>
    BY <1>3 DEF Receive, Create, Find, Merge, Recheck, Load, Others
  <2> QED BY <2>1, <2>2, <2>3, <2>4, FileInvKept
<1>4. ASSUME NEW h \in Handlers, Store(h) PROVE FileInv'
  <2>1. hpc[h] = "store" /\ ~Saving(h)
    BY <1>4 DEF Store, Saving
  <2>2. CASE Respond(h) /\ UNCHANGED mem
    <3>1. \A g \in Handlers \ {h} : req'[g] = req[g]
      BY <2>2 DEF Respond, IInv, HandlersInv
    <3> QED BY <1>4, <2>1, <2>2, <3>1, FileInvKept DEF Store, Respond, Others, Config
  <2>3. CASE Goto(h, "read") /\ req' = [req EXCEPT ![h] = SaveRequest]
    <3>1. /\ hpc'[h] = "read" /\ req'[h] = SaveRequest
          /\ \A g \in Handlers \ {h} : hpc'[g] = hpc[g] /\ req'[g] = req[g]
      BY <2>3 DEF Goto, IInv, HandlersInv
    <3>2. req'[h].setting = "repository"
      BY <3>1, RequestFields DEF SaveRequest
    <3>3. ~NoneToSave' /\ \A g \in Handlers : Saving(g)' <=> Saving(g)
      BY <2>1, <3>1, <3>2 DEF NoneToSave, Saving
    <3>4. alone \subseteq Handlers /\ alone' = alone
      BY <1>4 DEF Store, Others, IInv, FlagInv
    <3> QED BY <3>3, <3>4 DEF FileInv
  <2> QED BY <1>4, <2>2, <2>3 DEF Store
<1> QED BY <1>1, <1>2, <1>3, <1>4, FileInvRead, FileInvSet, FileInvMarshal, FileInvEnd,
           FileInvBreaks DEF Next

\* When every request is answered and the last save went well and met no other, the file
\* reads as what memory has, whatever overlapped or failed before.
THEOREM FileIsMemory == Spec => []FileFollowsMemory
<1>1. Init => FileInv
  BY DEF Init, FileInv, Saving, WholeText
<1>2. IInv /\ FileInv /\ [Next]_vars => FileInv'
  BY FileInvStep
<1>3. FileInv => FileFollowsMemory
  BY DEF FileInv, FileFollowsMemory, Answered, NoneToSave, Saving
<1> QED BY <1>1, <1>2, <1>3, Invariance, PTL DEF Spec

-----------------------------------------------------------------------------
(* Unique keys, for requests that come one after the other.                   *)

Unique(q) == \A i, j \in DOMAIN q : Key(q[i]) = Key(q[j]) => i = j

\* Nobody among those (but k) has the key of e.
Fresh(q, e, k) == \A i \in DOMAIN q \ {k} : Key(q[i]) # Key(e)

\* What a handler found holds until it is done, and what it is about to put into memory
\* or into the file is unique.
FreshInv(l, r, q) ==
    /\ r.sec = "repository" =>
        /\ l = "load" /\ r.op = "create" => Fresh(q, r.entry, 0)
        /\ l = "store" /\ r.op = "update" => Fresh(q, r.entry, r.idx)
        /\ l = "store" /\ r.op # "update" => Unique(r.snap)
    /\ l = "set" /\ r.setting = "repository" => Unique(r.snap)
    /\ l = "write" => Unique(r.snap.repository)

\* A whole text has no key twice; one that was torn may have, and is not started from.
UniqueText(f) == f.whole => Unique(f.conf.repository)

UniqueInv ==
    ~overlap /\ ~torn =>
        /\ Unique(mem.repository) /\ Unique(viper.repository) /\ UniqueText(file)
        /\ \A g, h \in Handlers : hpc[g] # "idle" /\ hpc[h] # "idle" => g = h
        /\ \A h \in Handlers : FreshInv(hpc[h], req[h], mem.repository)

LEMMA UniqueAppend ==
    ASSUME NEW S, NEW q \in Seq(S), NEW e \in S, Unique(q), Fresh(q, e, 0)
    PROVE  Unique(Append(q, e))
BY DEF Unique, Fresh

LEMMA UniqueReplace ==
    ASSUME NEW S, NEW q \in Seq(S), NEW e \in S, NEW k \in DOMAIN q, Unique(q), Fresh(q, e, k)
    PROVE  Unique([q EXCEPT ![k] = e])
BY DEF Unique, Fresh

LEMMA UniqueRemoveAt ==
    ASSUME NEW S, NEW q \in Seq(S), NEW k \in DOMAIN q, Unique(q)
    PROVE  Unique(RemoveAt(q, k))
<1> DEFINE w == RemoveAt(q, k)
           at(j) == IF j < k THEN j ELSE j + 1
<1>1. /\ w \in Seq(S) /\ Len(w) = Len(q) - 1
      /\ \A j \in 1..(Len(q) - 1) : w[j] = q[at(j)]
  BY RemoveAtProperties
<1>2. \A j \in 1..(Len(q) - 1) : at(j) \in 1..Len(q)
  OBVIOUS
<1>3. \A i, j \in 1..(Len(q) - 1) : at(i) = at(j) => i = j
  OBVIOUS
<1> HIDE DEF w, at
<1>4. \A i, j \in 1..(Len(q) - 1) : Key(w[i]) = Key(w[j]) => i = j
  BY <1>1, <1>2, <1>3 DEF Unique
<1> QED BY <1>1, <1>4 DEF Unique, w

\* A step of the only handler that is busy, to l with r.
LEMMA OnlyOne ==
    ASSUME HandlersInv, UniqueInv, NEW h \in Handlers, NEW l, NEW r,
           hpc' = [hpc EXCEPT ![h] = l], req' = [req EXCEPT ![h] = r],
           ~overlap, ~torn, UNCHANGED <<overlap, torn>>, hpc[h] # "idle",
           Unique(mem'.repository), Unique(viper'.repository), UniqueText(file'),
           FreshInv(l, r, mem'.repository)
    PROVE  UniqueInv'
<1>1. hpc'[h] = l /\ req'[h] = r
  BY DEF HandlersInv
<1>2. \A g \in Handlers \ {h} : hpc[g] = "idle" /\ hpc'[g] = "idle"
  BY DEF HandlersInv, UniqueInv
<1>3. \A g \in Handlers : FreshInv(hpc'[g], req'[g], mem'.repository)
  BY <1>1, <1>2 DEF FreshInv
<1> QED BY <1>1, <1>2, <1>3 DEF UniqueInv

\* The same for a handler that answers.
LEMMA OneAnswers ==
    ASSUME HandlersInv, UniqueInv, NEW h \in Handlers, Respond(h),
           ~overlap, ~torn, UNCHANGED <<overlap, torn>>, hpc[h] # "idle",
           Unique(mem'.repository), Unique(viper'.repository), UniqueText(file')
    PROVE  UniqueInv'
<1>1. FreshInv("idle", NoRequest, mem'.repository)
  BY DEF FreshInv
<1> QED BY <1>1, OnlyOne DEF Respond, Goto

LEMMA UniqueChecks ==
    ASSUME IInv, UniqueInv, ~overlap, ~torn, NEW h \in Handlers, Create(h) \/ Find(h) \/ Merge(h) \/ Recheck(h)
    PROVE  UniqueInv'
<1> USE DEF IInv
<1>1. /\ UNCHANGED <<Config, overlap, torn>> /\ hpc[h] # "idle"
      /\ Unique(mem'.repository) /\ Unique(viper'.repository) /\ UniqueText(file')
  BY DEF Create, Find, Merge, Recheck, Others, Config, UniqueInv
<1>2. CASE Respond(h)
  BY <1>1, <1>2, OneAnswers
<1>3. ASSUME NEW e, req[h].sec = "repository" => ~Taken("repository", Key(e), DOMAIN Entries(h)),
             Goto(h, "load"), req' = [req EXCEPT ![h].entry = e], req[h].op = "create"
      PROVE  UniqueInv'
  <2> DEFINE r == [req[h] EXCEPT !.entry = e]
  <2>1. /\ req' = [req EXCEPT ![h] = r]
        /\ r.entry = e /\ r.sec = req[h].sec /\ r.op = "create"
    BY <1>3, EntrySet
  <2> HIDE DEF r
  <2>2. FreshInv("load", r, mem'.repository)
    BY <1>1, <1>3, <2>1 DEF FreshInv, Fresh, Taken, KeyOf, Entries, Config
  <2> QED BY <1>1, <1>3, <2>1, <2>2, OnlyOne DEF Goto
<1>4. CASE Create(h)
  BY <1>2, <1>3, <1>4 DEF Create, KeyOf
<1>5. CASE Find(h) /\ ~Respond(h)
  <2> DEFINE i == Min({j \in DOMAIN Entries(h) : Hit(req[h].sec, Entries(h)[j], req[h].id)})
             r == [req[h] EXCEPT !.idx = i]
             l == IF req[h].op = "update" THEN "merge" ELSE "load"
  <2>1. req[h].op # "create" /\ Goto(h, l) /\ req' = [req EXCEPT ![h].idx = i]
    BY <1>5 DEF Find
  <2> HIDE DEF i
  <2>2. req' = [req EXCEPT ![h] = r] /\ r.op = req[h].op
    BY <2>1, IdxSet
  <2> HIDE DEF r
  <2>3. FreshInv(l, r, mem'.repository)
    BY <2>1, <2>2 DEF FreshInv
  <2> QED BY <1>1, <2>1, <2>2, <2>3, OnlyOne DEF Goto
<1>6. CASE Merge(h) /\ ~Respond(h)
  <2> DEFINE e == WithURL(req[h].sec, Overlay(Entries(h)[req[h].idx], req[h].body))
             r == [req[h] EXCEPT !.entry = e]
  <2>1. Goto(h, "recheck") /\ req' = [req EXCEPT ![h].entry = e]
    BY <1>6 DEF Merge
  <2> HIDE DEF e
  <2>2. req' = [req EXCEPT ![h] = r]
    BY <2>1, EntrySet
  <2>3. FreshInv("recheck", r, mem'.repository)
    BY DEF FreshInv
  <2> HIDE DEF r
  <2> QED BY <1>1, <2>1, <2>2, <2>3, OnlyOne DEF Goto
<1>7. CASE Recheck(h) /\ ~Respond(h)
  <2>1. /\ hpc[h] = "recheck" /\ Goto(h, "store") /\ UNCHANGED req
        /\ req[h].sec = "repository" =>
               ~Taken("repository", Key(req[h].entry), DOMAIN Entries(h) \ {req[h].idx})
    BY <1>7 DEF Recheck
  <2>2. req[h].op = "update"
    BY <2>1 DEF HandlersInv, HandlerInv, BusyInv
  <2>3. FreshInv("store", req[h], mem'.repository)
    BY <1>1, <2>1, <2>2 DEF FreshInv, Fresh, Taken, KeyOf, Entries, Config
  <2>4. req' = [req EXCEPT ![h] = req[h]]
    BY <2>1 DEF HandlersInv
  <2> QED BY <1>1, <2>1, <2>3, <2>4, OnlyOne DEF Goto
<1> QED BY <1>2, <1>4, <1>5, <1>6, <1>7 DEF Find, Merge, Recheck

LEMMA UniqueLoad ==
    ASSUME IInv, UniqueInv, ~overlap, ~torn, NEW h \in Handlers, Load(h)
    PROVE  UniqueInv'
<1> USE DEF IInv
<1>1. /\ UNCHANGED <<Config, overlap, torn>> /\ hpc[h] # "idle"
      /\ Unique(mem'.repository) /\ Unique(viper'.repository) /\ UniqueText(file')
  BY DEF Load, Others, Config, UniqueInv
<1>2. CASE Respond(h)
  BY <1>1, <1>2, OneAnswers
<1>3. CASE ~Respond(h)
  <2> DEFINE q == IF req[h].op = "create" THEN Append(Entries(h), req[h].entry)
                  ELSE RemoveAt(Entries(h), req[h].idx)
             r == [req[h] EXCEPT !.snap = q]
  <2>1. HandlerInv("load", req[h]) /\ BusyInv("load", req[h])
    BY DEF Load, HandlersInv, HandlerInv
  <2>2. /\ Goto(h, "store") /\ req' = [req EXCEPT ![h].snap = q]
        /\ req[h].op = "create" \/ req[h].idx \in DOMAIN Entries(h)
    BY <1>3, <2>1 DEF Load, BusyInv, Serving
  <2>3. req[h].sec = "repository" => Unique(q)
    <3> SUFFICES ASSUME req[h].sec = "repository" PROVE Unique(q)
      OBVIOUS
    <3>1. Entries(h) \in Seq(RepositoryEntry) /\ Unique(Entries(h))
      BY DEF Entries, Good, Configuration, UniqueInv
    <3>2. CASE req[h].op = "create"
      <4>1. req[h].entry \in RepositoryEntry
        BY <2>1, <3>2 DEF BusyInv, Proper, EntryOf
      <4>2. Fresh(Entries(h), req[h].entry, 0)
        BY <3>2 DEF UniqueInv, FreshInv, Entries, Load
      <4> QED BY <3>1, <3>2, <4>1, <4>2, UniqueAppend
    <3>3. CASE req[h].op # "create"
      BY <2>2, <3>1, <3>3, UniqueRemoveAt
    <3> QED BY <3>2, <3>3
  <2> HIDE DEF q
  <2>4. req' = [req EXCEPT ![h] = r] /\ r.snap = q /\ r.sec = req[h].sec /\ r.op = req[h].op
    BY <2>2, SnapSet
  <2>5. r.op # "update"
    BY <2>1, <2>4 DEF BusyInv, Serving
  <2> HIDE DEF r
  <2>6. FreshInv("store", r, mem'.repository)
    BY <2>3, <2>4, <2>5 DEF FreshInv
  <2> QED BY <1>1, <2>2, <2>4, <2>6, OnlyOne DEF Goto
<1> QED BY <1>2, <1>3

LEMMA UniqueStore ==
    ASSUME IInv, UniqueInv, ~overlap, ~torn, NEW h \in Handlers, Store(h)
    PROVE  UniqueInv'
<1> USE DEF IInv
<1> DEFINE sec == req[h].sec
           i == req[h].idx
<1>1. HandlerInv("store", req[h]) /\ BusyInv("store", req[h])
  BY DEF Store, HandlersInv, HandlerInv
<1>2. /\ UNCHANGED <<viper, file, overlap, torn>> /\ hpc[h] # "idle"
      /\ Unique(mem.repository) /\ Unique(viper'.repository) /\ UniqueText(file')
  BY DEF Store, Others, UniqueInv
<1>3. CASE req[h].op = "update" /\ i \notin DOMAIN Entries(h)
  <2>1. Respond(h) /\ UNCHANGED mem
    BY <1>3 DEF Store
  <2> QED BY <1>2, <2>1, OneAnswers
<1>4. CASE ~(req[h].op = "update" /\ i \notin DOMAIN Entries(h))
  <2>1. Goto(h, "read") /\ req' = [req EXCEPT ![h] = SaveRequest]
    BY <1>4 DEF Store
  <2>2. mem.repository \in Seq(RepositoryEntry)
    BY DEF Good, Configuration
  <2>3. Unique(mem'.repository)
    <3>1. CASE req[h].op = "update" /\ sec = "repository"
      <4> DEFINE q == [mem.repository EXCEPT ![i] = req[h].entry]
      <4>1. i \in DOMAIN mem.repository
        BY <1>4, <3>1 DEF Store, Entries
      <4>2. Fresh(mem.repository, req[h].entry, i) /\ req[h].entry \in RepositoryEntry
        BY <1>1, <3>1 DEF UniqueInv, FreshInv, Store, BusyInv, Proper, EntryOf
      <4>3. Unique(q)
        BY <1>2, <2>2, <4>1, <4>2, UniqueReplace
      <4>4. mem'.repository = q
        BY <1>4, <3>1 DEF Store, Good, Configuration
      <4> QED BY <4>3, <4>4
    <3>2. CASE req[h].op # "update" /\ sec = "repository"
      <4>1. Unique(req[h].snap)
        BY <3>2 DEF UniqueInv, FreshInv, Store
      <4>2. mem'.repository = req[h].snap
        BY <1>4, <3>2 DEF Store, Good, Configuration
      <4> QED BY <4>1, <4>2
    <3>3. CASE sec # "repository"
      <4>1. mem'.repository = mem.repository
        BY <1>1, <1>4, <3>3 DEF Store, Good, Configuration, BusyInv, Sections
      <4> QED BY <1>2, <4>1
    <3> QED BY <3>1, <3>2, <3>3
  <2>4. FreshInv("read", SaveRequest, mem'.repository)
    BY DEF FreshInv
  <2> QED BY <1>2, <2>1, <2>3, <2>4, OnlyOne DEF Goto
<1> QED BY <1>3, <1>4

LEMMA UniqueSave ==
    ASSUME IInv, UniqueInv, ~overlap, ~torn, NEW h \in Handlers,
           Read(h) \/ Set(h) \/ Marshal(h) \/ Write(h) \/ WriteBreaks(h) \/ SaveFails(h)
    PROVE  UniqueInv'
<1> USE DEF IInv
<1>1. /\ UNCHANGED <<mem, overlap, torn>> /\ hpc[h] # "idle"
      /\ Unique(mem'.repository) /\ Unique(viper.repository) /\ UniqueText(file)
  BY DEF Read, Set, Marshal, Write, WriteBreaks, SaveFails, Answer, Others, Config, UniqueInv
<1>2. CASE Read(h)
  <2> DEFINE r == [req[h] EXCEPT !.snap = mem[req[h].setting]]
  <2>1. req' = [req EXCEPT ![h] = r] /\ r.snap = mem[req[h].setting] /\ r.setting = req[h].setting
    BY <1>2, SnapSet DEF Read
  <2> HIDE DEF r
  <2>2. FreshInv("set", r, mem'.repository)
    BY <1>1, <2>1 DEF FreshInv
  <2> QED BY <1>1, <1>2, <2>1, <2>2, OnlyOne DEF Read, Goto, Config
<1>3. CASE Set(h)
  <2> DEFINE l == IF req[h].setting = "repository" THEN "read" ELSE "marshal"
             r == IF req[h].setting = "repository" THEN [req[h] EXCEPT !.setting = "storage"]
                  ELSE req[h]
  <2>1. hpc' = [hpc EXCEPT ![h] = l] /\ req' = [req EXCEPT ![h] = r]
    BY <1>3 DEF Set, Goto, HandlersInv
  <2>2. FreshInv(l, r, mem'.repository)
    BY DEF FreshInv
  <2>3. Unique(viper'.repository)
    <3>1. req[h].setting \in Sections /\ viper \in Configuration
      BY <1>3 DEF Set, HandlersInv, HandlerInv, BusyInv, Good
    <3>2. CASE req[h].setting = "repository"
      <4>1. Unique(req[h].snap)
        BY <1>3, <3>2 DEF Set, UniqueInv, FreshInv
      <4>2. viper'.repository = req[h].snap
        BY <1>3, <3>1, <3>2 DEF Set, Configuration
      <4> QED BY <4>1, <4>2
    <3>3. CASE req[h].setting # "repository"
      <4>1. viper'.repository = viper.repository
        BY <1>3, <3>1, <3>3 DEF Set, Configuration
      <4> QED BY <1>1, <4>1
    <3> QED BY <3>2, <3>3
  <2> HIDE DEF l, r
  <2> QED BY <1>1, <1>3, <2>1, <2>2, <2>3, OnlyOne DEF Set
<1>4. CASE Marshal(h)
  <2> DEFINE r == [req[h] EXCEPT !.snap = viper]
  <2>1. req' = [req EXCEPT ![h] = r] /\ r.snap = viper
    BY <1>4, SnapSet DEF Marshal
  <2> HIDE DEF r
  <2>2. FreshInv("write", r, mem'.repository)
    BY <1>1, <2>1 DEF FreshInv
  <2>3. UniqueText(file')
    BY SMTT(30), <1>4 DEF Marshal, WholeText, Empty, Unique, UniqueText
  <2> QED BY <1>1, <1>4, <2>1, <2>2, <2>3, OnlyOne DEF Marshal, Goto
<1>5. CASE Write(h)
  <2>1. Unique(req[h].snap.repository)
    BY SMTT(30), <1>5 DEF Write, UniqueInv, FreshInv
  <2>2. UniqueText(file')
    BY <1>5, <2>1 DEF Write, WholeText, UniqueText
  <2> QED BY SMTT(30), <1>1, <1>5, <2>2, OneAnswers DEF Write, Answer
<1>6. CASE WriteBreaks(h)
  <2>1. UniqueText(file')
    BY <1>6 DEF WriteBreaks, UniqueText
  <2>2. req' = [req EXCEPT ![h] = req[h]]
    BY <1>6 DEF WriteBreaks, HandlersInv
  <2>3. FreshInv("broken", req[h], mem'.repository)
    BY DEF FreshInv
  <2> QED BY <1>1, <1>6, <2>1, <2>2, <2>3, OnlyOne DEF WriteBreaks, Goto
<1>7. CASE SaveFails(h)
  BY <1>1, <1>7, OneAnswers DEF SaveFails, Answer, Config
<1> QED BY <1>2, <1>3, <1>4, <1>5, <1>6, <1>7

LEMMA UniqueReceive ==
    ASSUME IInv, UniqueInv, NEW h \in Handlers, Receive(h)
    PROVE  UniqueInv'
<1> SUFFICES ASSUME ~overlap', ~torn' PROVE UniqueInv'
  BY DEF UniqueInv
<1>1. ~overlap /\ ~torn /\ \A g \in Handlers : hpc[g] = "idle"
  BY DEF Receive
<1>2. hpc'[h] = "check" /\ \A g \in Handlers \ {h} : hpc'[g] = "idle"
  BY <1>1 DEF Receive, Goto, IInv, HandlersInv
<1>3. \A g \in Handlers : FreshInv(hpc'[g], req'[g], mem'.repository)
  BY <1>2 DEF FreshInv
<1> QED BY <1>1, <1>2, <1>3 DEF UniqueInv, Receive, Config

LEMMA UniqueStep == IInv /\ UniqueInv /\ [Next]_vars => UniqueInv'
<1> SUFFICES ASSUME IInv, UniqueInv, [Next]_vars PROVE UniqueInv'
  OBVIOUS
<1>1. CASE UNCHANGED vars
  BY <1>1 DEF vars, UniqueInv
<1>2. CASE Restart
  BY <1>2 DEF Restart, UniqueInv, UniqueText, FreshInv
<1>3. ASSUME NEW h \in Handlers, Receive(h) PROVE UniqueInv'
  BY <1>3, UniqueReceive
<1>4. ASSUME NEW h \in Handlers,
             \/ Create(h) \/ Find(h) \/ Merge(h) \/ Recheck(h) \/ Load(h) \/ Store(h)
             \/ Read(h) \/ Set(h) \/ Marshal(h) \/ Write(h) \/ WriteBreaks(h) \/ SaveFails(h)
      PROVE  UniqueInv'
  <2>1. CASE overlap \/ torn
    <3>1. UNCHANGED <<overlap, torn>>
      BY <1>4 DEF Create, Find, Merge, Recheck, Load, Store, Read, Set, Marshal, Write,
                  WriteBreaks, SaveFails, Answer, Others
    <3> QED BY <2>1, <3>1 DEF UniqueInv
  <2>2. CASE ~overlap /\ ~torn
    BY <1>4, <2>2, UniqueChecks, UniqueLoad, UniqueStore, UniqueSave
  <2> QED BY <2>1, <2>2
<1> QED BY <1>1, <1>2, <1>3, <1>4 DEF Next

\* If no first file names a repository twice, requests that come one after the other
\* never make two repositories of one key, whatever saves fail and whatever restarts
\* there are, but from a file that was torn.
THEOREM KeysStayUnique ==
    (\A f \in FirstFiles : Unique(f.repository)) => (Spec => []KeysUnique)
<1> SUFFICES ASSUME \A f \in FirstFiles : Unique(f.repository) PROVE Spec => []KeysUnique
  OBVIOUS
<1>1. Init => UniqueInv
  BY DEF Init, UniqueInv, UniqueText, WholeText, FreshInv
<1>2. UniqueInv => KeysUnique
  BY DEF UniqueInv, KeysUnique, Unique
<1> QED BY <1>1, <1>2, UniqueStep, Invariance, PTL DEF Spec
=============================================================================

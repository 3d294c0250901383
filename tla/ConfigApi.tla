------------------------------ MODULE ConfigApi ------------------------------
(***************************************************************************)
(* The handlers of internal/server/api.go that create, update and delete   *)
(* repositories and storages, over internal/config.  gin runs each request *)
(* in a goroutine; nothing guards the configuration in memory, viper or    *)
(* the file, so every read and every write of them is a step.              *)
(*                                                                         *)
(* A slice is read and replaced as a value: that memory and viper may share *)
(* a backing array, so that a change in place shows in both, is left out.  *)
(* viper and the file system are external.                                 *)
(***************************************************************************)
EXTENDS RepoKey, SequencesExt

CONSTANTS
    Handlers,        \* the requests served at the same time
    Repositories, RepositoryPatches, RepositoryIds,   \* what clients send
    Storages, StoragePatches, StorageIds,
    FirstFiles,      \* what may be in config.yaml at first
    MaxRequests      \* bound on requests

RepositoryEntry == [type : {"repo", "org"}, url : Seq(Tokens), org : Seq(Tokens)]
StorageEntry == [name : Seq(Tokens)]
Configuration == [repository : Seq(RepositoryEntry), storage : Seq(StorageEntry)]

\* A body with a field of another type is refused.
Typed(patch, f, S) == f \in DOMAIN patch => patch[f] \in S

ASSUME ConfigAssumption ==
    /\ Repositories \subseteq RepositoryEntry
    /\ Storages \subseteq StorageEntry
    /\ \A p \in RepositoryPatches : /\ Typed(p, "type", {"repo", "org"})
                                   /\ Typed(p, "url", Seq(Tokens))
                                   /\ Typed(p, "org", Seq(Tokens))
    /\ \A p \in StoragePatches : Typed(p, "name", Seq(Tokens))
    /\ FirstFiles \subseteq Configuration
    /\ MaxRequests \in Nat

Sections == {"repository", "storage"}
Inputs(sec) == IF sec = "repository" THEN Repositories ELSE Storages
Patches(sec) == IF sec = "repository" THEN RepositoryPatches ELSE StoragePatches
Ids(sec) == IF sec = "repository" THEN RepositoryIds ELSE StorageIds

VARIABLES
    mem,        \* config.ins, which is also api.config
    viper,      \* what was set in viper
    file,       \* config.yaml: is the text whole, and what it reads as
    hpc, req,   \* where each handler is; its request and local variables
    requests,
    \* history
    overlap,    \* two requests were served at the same time
    alone,      \* the handler that saves and has met no other that does
    stale,      \* the last save that ended failed, or had met another
    torn        \* the server was started from a file that was not whole

vars == <<mem, viper, file, hpc, req, requests, overlap, alone, stale, torn>>

Empty == [repository |-> <<>>, storage |-> <<>>]
WholeText(conf) == [whole |-> TRUE, conf |-> conf]

\* The operation, its section, the id in the path and the body; then the index
\* found, the entry to store, the setting that is being saved, and the slice or the
\* settings at hand.
NoRequest == [op |-> "none", sec |-> "repository", id |-> <<>>, body |-> <<>>,
              idx |-> 0, entry |-> <<>>, setting |-> "repository", snap |-> <<>>]
Of(op, sec, id, body) ==
    [NoRequest EXCEPT !.op = op, !.sec = sec, !.id = id, !.body = body]
\* What config.Save was called with: nothing.
SaveRequest == Of("save", "repository", <<>>, <<>>)

TypeOK ==
    /\ {mem, viper} \subseteq Configuration
    /\ file \in [whole : BOOLEAN, conf : Configuration]
    /\ hpc \in [Handlers -> {"idle", "check", "merge", "recheck", "load", "store",
                         "read", "set", "marshal", "write", "broken"}]
    /\ \A h \in Handlers :
        /\ hpc[h] = "idle" <=> req[h] = NoRequest
        /\ hpc[h] \in {"merge", "recheck", "load", "store"} =>
            req[h].op = "create" \/ req[h].idx > 0
    /\ requests \in 0..MaxRequests
    /\ alone \subseteq Handlers
    /\ overlap \in BOOLEAN /\ stale \in BOOLEAN /\ torn \in BOOLEAN

\* validateIdentity
HasIdentity(repositories) == \A i \in DOMAIN repositories : Key(repositories[i]) # <<>>

Init ==
    /\ mem \in FirstFiles
    /\ HasIdentity(mem.repository)
    /\ viper = mem /\ file = WholeText(mem)
    /\ hpc = [h \in Handlers |-> "idle"]
    /\ req = [h \in Handlers |-> NoRequest]
    /\ requests = 0
    /\ overlap = FALSE /\ alone = {} /\ stale = FALSE /\ torn = FALSE
-----------------------------------------------------------------------------
(* Entries.                                                                   *)

KeyOf(sec, e) == IF sec = "repository" THEN Key(e) ELSE e.name
Hit(sec, e, id) == IF sec = "repository" THEN Matches(e, id) ELSE e.name = id

Taken(sec, key, others) == \E i \in others : KeyOf(sec, mem[sec][i]) = key

\* json.Unmarshal of the entry with the fields of the patch over its own.
Overlay(e, patch) ==
    [f \in DOMAIN e |-> IF f \in DOMAIN patch THEN patch[f] ELSE e[f]]

\* An entry whose text ends within its URL, and so before its type, or within its
\* orgName; a storage, which has a name first.
Pieces(e) ==
    IF "url" \in DOMAIN e
    THEN {[type |-> "repo", url |-> u, org |-> <<>>] : u \in Prefixes(e.url)} \cup
         {[e EXCEPT !.org = o] : o \in Prefixes(e.org)}
    ELSE {[name |-> n] : n \in Prefixes(e.name)}

WithURL(sec, e) == IF sec = "repository" THEN [e EXCEPT !.url = EffectiveURL(e)] ELSE e
-----------------------------------------------------------------------------
(* The handlers.                                                              *)

Config == <<mem, viper, file>>
Entries(h) == mem[req[h].sec]
Goto(h, l) == hpc' = [hpc EXCEPT ![h] = l]

\* A response; also the 500 after a panic, by gin's Recovery.
Respond(h) ==
    /\ Goto(h, "idle")
    /\ req' = [req EXCEPT ![h] = NoRequest]

Requests ==
    UNION {{Of("create", sec, <<>>, e) : e \in Inputs(sec)} \cup
           {Of("update", sec, id, p) : id \in Ids(sec), p \in Patches(sec)} \cup
           {Of("delete", sec, id, <<>>) : id \in Ids(sec)} : sec \in Sections}

Receive(h) ==
    /\ hpc[h] = "idle" /\ requests < MaxRequests
    /\ \E r \in Requests : req' = [req EXCEPT ![h] = r]
    /\ Goto(h, "check")
    /\ requests' = requests + 1
    /\ overlap' = (overlap \/ \E g \in Handlers : hpc[g] # "idle")
    /\ UNCHANGED <<Config, alone, stale, torn>>

Others == UNCHANGED <<requests, overlap, alone, stale, torn>>

\* Mutant: duplicates are looked for by the URL as it was sent.
CreateByURL(h) ==
    LET r == req[h]
        e == WithURL(r.sec, r.body) IN
    /\ hpc[h] = "check" /\ r.op = "create"
    /\ IF KeyOf(r.sec, e) = <<>> \/ \E i \in DOMAIN Entries(h) : Entries(h)[i] = e
       THEN Respond(h)
       ELSE Goto(h, "load") /\ req' = [req EXCEPT ![h].entry = e]
    /\ UNCHANGED Config /\ Others

\* CreateRepository, CreateStorage: 400 without a key, 409 if it is taken.
Create(h) ==
    LET r == req[h]
        e == WithURL(r.sec, r.body) IN
    /\ hpc[h] = "check" /\ r.op = "create"
    /\ IF KeyOf(r.sec, e) = <<>> \/ Taken(r.sec, KeyOf(r.sec, e), DOMAIN Entries(h))
       THEN Respond(h)
       ELSE Goto(h, "load") /\ req' = [req EXCEPT ![h].entry = e]
    /\ UNCHANGED Config /\ Others

\* Mutant: the index counts from 0.
FindFromZero(h) ==
    LET r == req[h]
        hits == {i \in DOMAIN Entries(h) : Hit(r.sec, Entries(h)[i], r.id)} IN
    /\ hpc[h] = "check" /\ r.op # "create"
    /\ IF hits = {} THEN Respond(h)
       ELSE /\ Goto(h, IF r.op = "update" THEN "merge" ELSE "load")
            /\ req' = [req EXCEPT ![h].idx = Min(hits) - 1]
    /\ UNCHANGED Config /\ Others

\* Update and delete: the first entry with that id, or 404.
Find(h) ==
    LET r == req[h]
        hits == {i \in DOMAIN Entries(h) : Hit(r.sec, Entries(h)[i], r.id)} IN
    /\ hpc[h] = "check" /\ r.op # "create"
    /\ IF hits = {} THEN Respond(h)
       ELSE /\ Goto(h, IF r.op = "update" THEN "merge" ELSE "load")
            /\ req' = [req EXCEPT ![h].idx = Min(hits)]
    /\ UNCHANGED Config /\ Others

\* Update: the entry that is now at that index, with the patch.
Merge(h) ==
    LET r == req[h] IN
    /\ hpc[h] = "merge"
    /\ IF r.idx \notin DOMAIN Entries(h) THEN Respond(h)
       ELSE /\ Goto(h, "recheck")
            /\ req' = [req EXCEPT ![h].entry = WithURL(r.sec, Overlay(Entries(h)[r.idx], r.body))]
    /\ UNCHANGED Config /\ Others

\* Mutant: the merged entry is not checked.
NoRecheck(h) ==
    /\ hpc[h] = "recheck"
    /\ Goto(h, "store") /\ UNCHANGED req
    /\ UNCHANGED Config /\ Others

\* UpdateRepository: the merged entry needs a key that no other has.  UpdateStorage
\* does not look at the name it gets.
Recheck(h) ==
    LET r == req[h] IN
    /\ hpc[h] = "recheck"
    /\ IF /\ r.sec = "repository"
          /\ Key(r.entry) = <<>> \/ Taken(r.sec, Key(r.entry), DOMAIN Entries(h) \ {r.idx})
       THEN Respond(h)
       ELSE Goto(h, "store") /\ UNCHANGED req
    /\ UNCHANGED Config /\ Others

\* The append of a create or a delete reads the slice ...
Load(h) ==
    LET r == req[h] IN
    /\ hpc[h] = "load"
    /\ IF r.op = "delete" /\ r.idx \notin DOMAIN Entries(h) THEN Respond(h)
       ELSE /\ Goto(h, "store")
            /\ req' = [req EXCEPT ![h].snap = IF r.op = "create" THEN Append(Entries(h), r.entry)
                                              ELSE RemoveAt(Entries(h), r.idx)]
    /\ UNCHANGED Config /\ Others

\* ... and replaces it; an update replaces one element.
Store(h) ==
    LET r == req[h] IN
    /\ hpc[h] = "store"
    /\ IF r.op = "update" /\ r.idx \notin DOMAIN Entries(h)
       THEN Respond(h) /\ UNCHANGED mem
       ELSE /\ mem' = IF r.op = "update" THEN [mem EXCEPT ![r.sec][r.idx] = r.entry]
                      ELSE [mem EXCEPT ![r.sec] = r.snap]
            /\ Goto(h, "read") /\ req' = [req EXCEPT ![h] = SaveRequest]
    /\ UNCHANGED <<viper, file>> /\ Others
-----------------------------------------------------------------------------
(* config.Save and Init.                                                      *)

\* From the first option it reads to its answer.
Saving(h) ==
    \/ hpc[h] \in {"set", "marshal", "write", "broken"}
    \/ hpc[h] = "read" /\ req[h].setting # "repository"

\* vp.Set("repository", ins.Repository), then the same for the storages: each option
\* is read from memory ...
Read(h) ==
    /\ hpc[h] = "read"
    /\ req' = [req EXCEPT ![h].snap = mem[req[h].setting]]
    /\ Goto(h, "set")
    /\ alone' = IF \E g \in Handlers \ {h} : Saving(g) THEN {}
                ELSE IF req[h].setting = "repository" THEN {h} ELSE alone
    /\ UNCHANGED Config /\ UNCHANGED <<requests, overlap, stale, torn>>

\* Mutant: the storages are forgotten.
SetRepositories(h) ==
    /\ hpc[h] = "set"
    /\ viper' = [viper EXCEPT !.repository = req[h].snap]
    /\ Goto(h, "marshal")
    /\ UNCHANGED <<mem, file, req>> /\ Others

\* ... and put into viper.
Set(h) ==
    /\ hpc[h] = "set"
    /\ viper' = [viper EXCEPT ![req[h].setting] = req[h].snap]
    /\ IF req[h].setting = "repository"
       THEN Goto(h, "read") /\ req' = [req EXCEPT ![h].setting = "storage"]
       ELSE Goto(h, "marshal") /\ UNCHANGED req
    /\ UNCHANGED <<mem, file>> /\ Others

\* vp.WriteConfig: the file is truncated, the settings are marshalled ...
Marshal(h) ==
    /\ hpc[h] = "marshal"
    /\ file' = WholeText(Empty)
    /\ req' = [req EXCEPT ![h].snap = viper]
    /\ Goto(h, "write")
    /\ UNCHANGED <<mem, viper>> /\ Others

\* The beginnings of a list of entries: the text may end within an entry.
Beginnings(q) ==
    Prefixes(q) \cup
    UNION {{Append(SubSeq(q, 1, i - 1), e) : e \in Pieces(q[i])} : i \in DOMAIN q}

\* What a file may read as if what it starts with is a part of the text of conf, and
\* the rest what was there, which is nothing if the text went into an empty file.  The
\* repositories come before the storages.
Parts(conf, rest) ==
    {[repository |-> p \o s, storage |-> rest.storage] :
        p \in Beginnings(conf.repository), s \in Suffixes(rest.repository)} \cup
    {[repository |-> conf.repository, storage |-> p \o s] :
        p \in Beginnings(conf.storage), s \in Suffixes(rest.storage)}

Answer(h, failed) ==
    /\ stale' = (failed \/ h \notin alone)
    /\ alone' = alone \ {h}
    /\ Respond(h)
    /\ UNCHANGED <<requests, overlap, torn>>

\* ... and written from the start of the file, over what another handler wrote since; if
\* that was longer, its end remains.
Write(h) ==
    /\ hpc[h] = "write"
    /\ \/ file' = WholeText(req[h].snap)
       \/ /\ file # WholeText(Empty)
          /\ \E s \in Suffixes(file.conf.storage) :
                file' = [whole |-> FALSE, conf |-> [req[h].snap EXCEPT !.storage = @ \o s]]
    /\ Answer(h, FALSE)
    /\ UNCHANGED <<mem, viper>>

\* The disk is full, or the server about to die: a part is written.
WriteBreaks(h) ==
    /\ hpc[h] = "write"
    /\ \E c \in Parts(req[h].snap, file.conf) : file' = [whole |-> FALSE, conf |-> c]
    /\ Goto(h, "broken")
    /\ UNCHANGED <<mem, viper, req>> /\ Others

\* The file cannot be opened or written: a warning in the response.
SaveFails(h) ==
    /\ hpc[h] \in {"marshal", "write", "broken"}
    /\ Answer(h, TRUE)
    /\ UNCHANGED Config

\* The server dies, of itself or because two goroutines wrote viper's maps at once,
\* and is started again: config.Init reads the file, and refuses one with an entry that
\* has no identity.  A file that is not whole may be no YAML: then there is no restart.
Restart ==
    /\ HasIdentity(file.conf.repository)
    /\ mem' = file.conf /\ viper' = file.conf
    /\ hpc' = [h \in Handlers |-> "idle"]
    /\ req' = [h \in Handlers |-> NoRequest]
    /\ alone' = {} /\ stale' = FALSE
    /\ torn' = (torn \/ ~file.whole)
    /\ UNCHANGED <<file, requests, overlap>>

Next ==
    \/ \E h \in Handlers :
        \/ Receive(h) \/ Create(h) \/ Find(h) \/ Merge(h) \/ Recheck(h) \/ Load(h)
        \/ Store(h) \/ Read(h) \/ Set(h) \/ Marshal(h) \/ Write(h) \/ WriteBreaks(h)
        \/ SaveFails(h)
    \/ Restart

Spec == Init /\ [][Next]_vars
-----------------------------------------------------------------------------
Answered == \A h \in Handlers : hpc[h] = "idle"

\* Whatever requests meet whichever others, and whatever saves fail, every entry in
\* memory has an identity, and in the file too if its text is whole: only a file that
\* was torn, by a write that broke off or by two at once, may be refused by the next
\* start (config.go:60-64), and no job is created for the key "".
StartsAgain ==
    /\ HasIdentity(mem.repository)
    /\ file.whole => HasIdentity(file.conf.repository)

\* "Identity is the URL" (docs/api.md:404): no two repositories have one key.  It
\* takes that requests came one after the other, and that the server was not started
\* from a file in which a URL was cut short.
KeysUnique ==
    ~overlap /\ ~torn => \A i, j \in DOMAIN mem.repository :
        Key(mem.repository[i]) = Key(mem.repository[j]) => i = j

\* When all requests are answered, the file reads as what memory has: a save that went
\* well makes up for those that failed or met each other before, whatever was changed
\* meanwhile, and by whomever.  It takes that the last save met no other.
FileFollowsMemory == Answered /\ ~stale => file.conf = mem

\* "The :id path parameter is the identity key, the normalized URL" (docs/api.md:285):
\* between requests an entry with a key that is its own normal form is found by every
\* spelling of it, whichever one the entry was created with or updated to.  Another
\* key ("h/a/", of "h/a/.git") does not even find its own entry.
FoundHoweverSpelled ==
    Answered => \A i \in DOMAIN mem.repository :
        LET e == mem.repository[i] IN
        NormalizeURL(Key(e)) = Key(e) => \A u \in Spellings(Key(e)) : Matches(e, u)
=============================================================================

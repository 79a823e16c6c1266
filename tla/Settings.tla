------------------------------- MODULE Settings -------------------------------
(***************************************************************************)
(* The settings the management interface changes while the server runs:    *)
(* the key list, the tag vocabulary, the galaxy's peers and the storage    *)
(* tiers (src/admin/mod.rs), each rendered into a file of its own through  *)
(* <file>.tmp and a rename, and read back at the next start (src/config.rs)*)
(*                                                                         *)
(* Keys and tags are written first and adopted afterwards; peers and tiers *)
(* take effect first and are written afterwards.  Handlers run on several  *)
(* threads, so a handler is a sequence of steps: change a copy (or the     *)
(* live value), render, create the temporary file, write it, rename it,    *)
(* adopt.  The files are modelled by inode, because two handlers that save *)
(* the same setting at once share the name of the temporary file.          *)
(***************************************************************************)
EXTENDS Acl, Tiers

CONSTANTS
    Caller,      \* requests being served at once
    Entry,       \* key entries callers submit
    DefaultKey,  \* seeded when there are no keys at all
    CliKey,      \* key given to the process, or None
    Tag, Colour,
    Seed,        \* the vocabulary a new installation starts with
    Url,
    Fixed,       \* peers declared in the main configuration
    Self,        \* this server's own address
    Shard,
    ConfTiers,   \* [storage] of the main configuration
    Stored,      \* setting -> text of its file at the first start, if any
    Blank,       \* the text of a file created and not yet written
    Overlap,     \* whether two callers may save the same setting at once
    MayFail,     \* whether a file operation may fail
    MaxChanges

Kind     == {"acl", "tags", "peers", "tiers"}
AdoptsLast == {"acl", "tags"}
Inode    == 1..(Cardinality(Caller) + 2)

VARIABLES
    mem,     \* setting -> value in memory
    disk,    \* setting -> [file, temp : inode or 0, data : inode -> text or Blank]
    worker,  \* caller -> the handler it is in
    up,
    failed,  \* settings changed in memory since the last save that worked
    changes  \* changes begun, bounded by MaxChanges

vars == <<mem, disk, worker, up, failed, changes>>

Idling == [pc |-> "idle"]

-----------------------------------------------------------------------------
(* Tags, peers and tiers, and the text each is rendered to.                *)

\* Vocabulary::set and remove: a function from tag name to colour.
SetTag(tags, name, colour) ==
    [n \in DOMAIN tags \cup {name} |-> IF n = name THEN colour ELSE tags[n]]

RemoveTag(tags, name) == Restrict(tags, DOMAIN tags \ {name})

\* A peer is the part of it the file has to carry: what it stores, whether it is in use.
Peer == [stores : {"all", "part"}, enabled : BOOLEAN]

Configured == [stores |-> "all", enabled |-> TRUE]

IsFixed(url) == url \in Fixed

\* Mutant: only the peers in use are written.
EnabledPeers(peers) == Restrict(peers, {u \in DOMAIN peers : ~IsFixed(u) /\ peers[u].enabled})

EditablePeers(peers) == Restrict(peers, {u \in DOMAIN peers : ~IsFixed(u)})

\* Only what differs from the ordinary case is written.
PeerLines(peer) == (IF peer.stores = "part" THEN {"namespaces"} ELSE {})
                   \cup (IF peer.enabled THEN {} ELSE {"enabled = false"})

PeersToToml(peers) == [u \in DOMAIN peers |-> PeerLines(peers[u])]

ValidatedPeer(lines) ==
    [stores  |-> IF "namespaces" \in lines THEN "part" ELSE "all",
     enabled |-> "enabled = false" \notin lines]

Render(k, value) ==
    CASE k = "acl"   -> ToToml(value)
      [] k = "tags"  -> value
      [] k = "peers" -> PeersToToml(EditablePeers(value))
      [] k = "tiers" -> TiersToToml(value)

-----------------------------------------------------------------------------
(* Starting: what each file is read back as.  text is None without a file. *)

\* build_acl of src/main.rs, on top of load_acl.
LoadAcl(text) ==
    LET listed == IF text \in {None, Blank} THEN NoKeys ELSE ParseAcl(text)
        given  == IF CliKey = None THEN listed
                  ELSE GrantFull(RemoveKey(listed, DefaultKey), CliKey)
    IN  IF DOMAIN given = {} THEN GrantFull(given, DefaultKey) ELSE given

LoadTags(text) == IF text = None THEN Seed ELSE IF text = Blank THEN <<>> ELSE text

\* The configured peers, then those of the file under any other address.
LoadPeers(text) ==
    LET added == IF text \in {None, Blank} THEN {} ELSE DOMAIN text \ Fixed
    IN  [u \in Fixed \cup added |-> IF u \in Fixed THEN Configured ELSE ValidatedPeer(text[u])]

LoadTiers(text) == IF text = None THEN ConfTiers ELSE [s \in DOMAIN text |-> ParseEntry(text[s])]

Load(k, text) ==
    CASE k = "acl"   -> LoadAcl(text)
      [] k = "tags"  -> LoadTags(text)
      [] k = "peers" -> LoadPeers(text)
      [] k = "tiers" -> LoadTiers(text)

TextOf(k) == IF disk[k].file = 0 THEN None ELSE disk[k].data[disk[k].file]

\* A tier file that does not parse takes the startup with it.
CanStart == TextOf("tiers") # Blank

Loaded == [k \in Kind |-> Load(k, TextOf(k))]

-----------------------------------------------------------------------------
(* What a setting can be: a key list somebody can manage the server with, a *)
(* vocabulary, the configured peers and others, tier entries that say       *)
(* something.                                                               *)

HasAdmin(acl) == AdminCount(acl) > 0

Partial(S, T) == UNION {[R -> T] : R \in SUBSET S}

Values(k) ==
    CASE k = "acl"   -> {a \in Partial(Key, Grants) : HasAdmin(a)}
      [] k = "tags"  -> Partial(Tag, Colour)
      [] k = "peers" -> {p \in Partial(Url, Peer) : \A u \in Fixed : u \in DOMAIN p /\ p[u] = Configured}
      [] k = "tiers" -> Partial(Shard, TierEntry \ {NoEntry})

ASSUME SettingsAssumption ==
    /\ Overlap \in BOOLEAN /\ MayFail \in BOOLEAN /\ MaxChanges \in Nat
    /\ IsFiniteSet(Caller) /\ IsFiniteSet(Key)
    /\ DefaultKey \in Key /\ CliKey \in Key \cup {None} /\ None \notin Key
    /\ <<>> \in Prefix /\ Entry \subseteq KeyEntry /\ Fixed \subseteq Url

\* The files there are at the first start can be read, and no text is taken for none.
ASSUME FilesAssumption ==
    /\ None # Blank /\ Seed \in Values("tags") /\ ConfTiers \in Values("tiers")
    /\ \A k \in DOMAIN Stored : Stored[k] \notin {None, Blank} /\ Load(k, Stored[k]) \in Values(k)
    /\ \A k \in Kind : \A v \in Values(k) : Render(k, v) \notin {None, Blank}

Init ==
    /\ disk = [k \in Kind |-> [file |-> IF k \in DOMAIN Stored THEN 1 ELSE 0, temp |-> 0,
                               data |-> [i \in Inode |-> IF i = 1 /\ k \in DOMAIN Stored
                                                         THEN Stored[k] ELSE Blank]]]
    /\ mem = Loaded
    /\ worker = [c \in Caller |-> Idling]
    /\ up = TRUE
    /\ failed = {}
    /\ changes = 0

-----------------------------------------------------------------------------
(* The handlers, up to the point where the file is written.                *)

InFlight(k) == {c \in Caller : worker[c].pc # "idle" /\ worker[c].kind = k}

\* A request on setting k reaches a free thread.
Arrives(c, k) == /\ up
                 /\ worker[c] = Idling
                 /\ Overlap \/ InFlight(k) = {}
                 /\ changes < MaxChanges
                 /\ changes' = changes + 1

\* require_admin, on the list in force when the request arrives.
RequireAdmin(key) == IsAdmin(mem.acl, key)

\* require_vocabulary_editor: an admin, or read and write over the whole tree.
RequireEditor(key) == \/ IsAdmin(mem.acl, key)
                      \/ CanRead(mem.acl, key, <<>>) /\ CanWrite(mem.acl, key, <<>>)

\* Mutant: the change is served before it is on disk.
ServeCopy(c, k, value) ==
    /\ worker' = [worker EXCEPT ![c] = [pc |-> "create", kind |-> k, value |-> value, fd |-> 0]]
    /\ mem' = [mem EXCEPT ![k] = value]
    /\ UNCHANGED <<disk, up, failed>>

SaveCopy(c, k, value) ==
    /\ worker' = [worker EXCEPT ![c] = [pc |-> "create", kind |-> k, value |-> value, fd |-> 0]]
    /\ UNCHANGED <<mem, disk, up, failed>>

SaveKeyList(c, entry) ==
    LET acl == SetKey(mem.acl, entry.key, ToGrants(entry))
    IN  /\ Valid(entry)
        /\ ~(IsAdmin(mem.acl, entry.key) /\ ~entry.admin /\ AdminCount(acl) = 0)
        /\ SaveCopy(c, "acl", acl)

SaveKey(c) == /\ Arrives(c, "acl")
              /\ \E key \in Key, entry \in Entry : RequireAdmin(key) /\ SaveKeyList(c, entry)

\* Mutant: any key may be revoked.
DeleteAnyKey(c, key) == key \in DOMAIN mem.acl /\ SaveCopy(c, "acl", RemoveKey(mem.acl, key))

DeleteKeyList(c, key) ==
    LET acl == RemoveKey(mem.acl, key)
    IN  /\ key \in DOMAIN mem.acl
        /\ AdminCount(acl) > 0
        /\ SaveCopy(c, "acl", acl)

DeleteKey(c) == /\ Arrives(c, "acl")
                /\ \E key, target \in Key : RequireAdmin(key) /\ DeleteKeyList(c, target)

\* The whole list at once; a server must have agreed to be replaced (acl_replaceable).
ReplaceKeyList(c, key, wanted) ==
    LET acl == [k \in {e.key : e \in wanted} |->
                    ToGrants(CHOOSE e \in wanted : e.key = k)]
    IN  /\ \A e \in wanted : Valid(e)
        /\ AdminCount(acl) > 0
        /\ key \in DOMAIN acl
        /\ SaveCopy(c, "acl", acl)

ReplaceKeys(c) ==
    /\ Arrives(c, "acl")
    /\ \E key \in Key, wanted \in SUBSET Entry :
          /\ RequireAdmin(key)
          /\ \A e, f \in wanted : e.key = f.key => e = f
          /\ ReplaceKeyList(c, key, wanted)

DefineTag(c) ==
    /\ Arrives(c, "tags")
    /\ \E key \in Key, name \in Tag, colour \in Colour :
          RequireEditor(key) /\ SaveCopy(c, "tags", SetTag(mem.tags, name, colour))

UndefineTag(c) ==
    /\ Arrives(c, "tags")
    /\ \E key \in Key, name \in DOMAIN mem.tags :
          RequireEditor(key) /\ SaveCopy(c, "tags", RemoveTag(mem.tags, name))

\* Memory first: the change is in effect before the file is rendered.
ChangeLive(c, k, value) ==
    /\ mem' = [mem EXCEPT ![k] = value]
    /\ worker' = [worker EXCEPT ![c] = [pc |-> "render", kind |-> k, value |-> None, fd |-> 0]]
    /\ failed' = failed \cup {k}
    /\ UNCHANGED <<disk, up>>

PutPeer(peers, url, peer) ==
    [u \in DOMAIN peers \cup {url} |-> IF u = url THEN peer ELSE peers[u]]

AddPeer(c) ==
    /\ Arrives(c, "peers")
    /\ \E key \in Key, url \in Url, stores \in {"all", "part"} :
          /\ RequireAdmin(key)
          /\ url # Self
          /\ url \notin DOMAIN mem.peers \cup Fixed
          /\ ChangeLive(c, "peers", PutPeer(mem.peers, url, [stores |-> stores, enabled |-> TRUE]))

\* Mutant: a peer is in use unless the request says otherwise.
UpdatePeerAfresh(c) ==
    /\ Arrives(c, "peers")
    /\ \E key \in Key, url \in DOMAIN mem.peers, stores \in {"all", "part"} :
          /\ RequireAdmin(key)
          /\ ~IsFixed(url)
          /\ worker' = [worker EXCEPT ![c] =
                 [pc |-> "edit", kind |-> "peers", fd |-> 0, url |-> url,
                  value |-> [stores |-> stores, enabled |-> TRUE]]]
    /\ UNCHANGED <<mem, disk, up, failed>>

\* PUT: the handler reads whether the peer is enabled, then replaces the peer.
UpdatePeer(c) ==
    /\ Arrives(c, "peers")
    /\ \E key \in Key, url \in DOMAIN mem.peers, stores \in {"all", "part"} :
          /\ RequireAdmin(key)
          /\ ~IsFixed(url)
          /\ worker' = [worker EXCEPT ![c] =
                 [pc |-> "edit", kind |-> "peers", fd |-> 0, url |-> url,
                  value |-> [stores |-> stores, enabled |-> mem.peers[url].enabled]]]
    /\ UNCHANGED <<mem, disk, up, failed>>

EditPeer(c) ==
    LET w == worker[c]
    IN  /\ w.pc = "edit"
        /\ IF w.url \in DOMAIN mem.peers
           THEN ChangeLive(c, "peers", PutPeer(mem.peers, w.url, w.value))
           ELSE worker' = [worker EXCEPT ![c] = Idling] /\ UNCHANGED <<mem, disk, up, failed>>
        /\ UNCHANGED changes

DeletePeer(c) ==
    /\ Arrives(c, "peers")
    /\ \E key \in Key, url \in DOMAIN mem.peers :
          /\ RequireAdmin(key)
          /\ ~IsFixed(url)
          /\ ChangeLive(c, "peers", Restrict(mem.peers, DOMAIN mem.peers \ {url}))

SetPeerEnabled(c) ==
    /\ Arrives(c, "peers")
    /\ \E key \in Key, url \in DOMAIN mem.peers, enabled \in BOOLEAN :
          /\ RequireAdmin(key)
          /\ ~IsFixed(url)
          /\ ChangeLive(c, "peers", PutPeer(mem.peers, url, [mem.peers[url] EXCEPT !.enabled = enabled]))

SetTier(c) ==
    /\ Arrives(c, "tiers")
    /\ \E key \in Key, shard \in Shard, entry \in TierEntry :
          /\ RequireAdmin(key)
          /\ CanWrite(mem.acl, key, <<shard>>)
          /\ ChangeLive(c, "tiers", SetTierEntry(mem.tiers, shard, entry))

-----------------------------------------------------------------------------
(* Writing <file>.tmp and renaming it, the same in save_acl, save_tags,    *)
(* save_peers and TierPolicy::save.                                        *)

\* The text of a live setting is taken now, under its own lock.
RenderLive(c) ==
    /\ worker[c].pc = "render"
    /\ worker' = [worker EXCEPT ![c] = [@ EXCEPT !.pc = "create", !.value = mem[worker[c].kind]]]
    /\ UNCHANGED <<mem, disk, up, failed, changes>>

Fresh(k) ==
    CHOOSE i \in Inode : i \notin {disk[k].file, disk[k].temp} \cup {worker[c].fd : c \in InFlight(k)}

\* fs::write opens the temporary file, creating or truncating it ...
CreateTemp(c) ==
    LET w == worker[c]
        i == IF disk[w.kind].temp = 0 THEN Fresh(w.kind) ELSE disk[w.kind].temp
    IN  /\ w.pc = "create"
        /\ disk' = [disk EXCEPT ![w.kind] = [@ EXCEPT !.temp = i, !.data[i] = Blank]]
        /\ worker' = [worker EXCEPT ![c] = [@ EXCEPT !.pc = "write", !.fd = i]]
        /\ UNCHANGED <<mem, up, failed, changes>>

\* ... and writes the text to whatever the file it opened is called by now.
WriteTemp(c) ==
    LET w == worker[c]
    IN  /\ w.pc = "write"
        /\ disk' = [disk EXCEPT ![w.kind].data[w.fd] = Render(w.kind, w.value)]
        /\ worker' = [worker EXCEPT ![c].pc = "rename"]
        /\ UNCHANGED <<mem, up, failed, changes>>

Finish(c, k) == IF k \in AdoptsLast
                THEN worker' = [worker EXCEPT ![c].pc = "adopt"]
                ELSE worker' = [worker EXCEPT ![c] = Idling]

RenameTemp(c) ==
    LET k == worker[c].kind
    IN  /\ worker[c].pc = "rename"
        /\ disk[k].temp # 0
        /\ disk' = [disk EXCEPT ![k] = [@ EXCEPT !.file = disk[k].temp, !.temp = 0]]
        /\ failed' = failed \ {k}
        /\ Finish(c, k)
        /\ UNCHANGED <<mem, up, changes>>

\* The step fails, or another handler has taken the temporary file away: a 500.
SaveFails(c) ==
    /\ \/ MayFail /\ worker[c].pc \in {"create", "write", "rename"}
       \/ worker[c].pc = "rename" /\ disk[worker[c].kind].temp = 0
    /\ worker' = [worker EXCEPT ![c] = Idling]
    /\ UNCHANGED <<mem, disk, up, failed, changes>>

Adopt(c) ==
    /\ worker[c].pc = "adopt"
    /\ mem' = [mem EXCEPT ![worker[c].kind] = worker[c].value]
    /\ worker' = [worker EXCEPT ![c] = Idling]
    /\ UNCHANGED <<disk, up, failed, changes>>

Crash ==
    /\ up
    /\ up' = FALSE
    /\ worker' = [c \in Caller |-> Idling]
    /\ failed' = {}
    /\ UNCHANGED <<mem, disk, changes>>

Restart ==
    /\ ~up
    /\ CanStart
    /\ up' = TRUE
    /\ mem' = Loaded
    /\ UNCHANGED <<disk, worker, failed, changes>>

Next ==
    \/ \E c \in Caller :
          \/ SaveKey(c) \/ DeleteKey(c) \/ ReplaceKeys(c)
          \/ DefineTag(c) \/ UndefineTag(c)
          \/ AddPeer(c) \/ UpdatePeer(c) \/ EditPeer(c) \/ DeletePeer(c) \/ SetPeerEnabled(c)
          \/ SetTier(c)
          \/ RenderLive(c) \/ CreateTemp(c) \/ WriteTemp(c) \/ RenameTemp(c)
          \/ SaveFails(c) \/ Adopt(c)
    \/ Crash
    \/ Restart

Spec == Init /\ [][Next]_vars

-----------------------------------------------------------------------------
(* Properties.                                                             *)

\* Whatever sequence of saves, revocations and replacements is made, with crashes and
\* failing disks between their steps, some key can use the management interface: the
\* guards of save_key, delete_key and replace_keys, and what a restart reads back.
AdminRemains == HasAdmin(mem.acl) /\ HasAdmin(LoadAcl(TextOf("acl")))

\* When nothing is in flight and the last save worked, a restart would load exactly the
\* setting in force, through the file's rendering and parsing: a disabled peer stays
\* disabled, a half-set tier entry stays half set, a key keeps its rights.
SurvivesRestart ==
    \A k \in Kind : up /\ InFlight(k) = {} /\ k \notin failed => Loaded[k] = mem[k]

\* Changing a peer's key or namespaces (PUT) never changes whether it is in service:
\* what the handler read before it replaced the peer still holds when it does
\* (save_peer).
EditKeepsService ==
    [][\A c \in Caller : worker[c].pc = "edit" /\ worker'[c].pc = "render"
          => mem'.peers[worker[c].url].enabled = mem.peers[worker[c].url].enabled]_vars

\* The key list and the vocabulary, file and memory together, behave as the register
\* of module Durable: saved in one step, served only once saved, kept by a crash.
AnyTags(tags) == tags = tags
KeyList == INSTANCE Durable WITH saved <- LoadAcl(TextOf("acl")), served <- mem.acl,
                                 Usable <- HasAdmin
Vocabulary == INSTANCE Durable WITH saved <- LoadTags(TextOf("tags")), served <- mem.tags,
                                    Usable <- AnyTags

SavesAreDurable == KeyList!Spec /\ Vocabulary!Spec
==============================================================================

--------------------------- MODULE SettingsTypes ----------------------------
(***************************************************************************)
(* Every handler of Settings, whatever runs beside it, keeps proper values *)
(* in memory and readable texts in the files; so some key can always       *)
(* manage the server, whatever overlaps, fails or crashes.                 *)
(***************************************************************************)
EXTENDS SettingsValues

\* A handler that is saving, or about to take the text to save.
Saving == {"create", "write", "rename", "adopt"}

Busy(w) ==
    /\ w = [pc |-> w.pc, kind |-> w.kind, value |-> w.value, fd |-> w.fd]
    /\ w.kind \in Kind /\ w.fd \in {0} \cup Inode
    /\ \/ w.pc \in Saving /\ w.value \in Values(w.kind)
       \/ w.pc = "render" /\ w.kind \notin AdoptsLast
    /\ w.pc \in {"write", "rename"} => w.fd \in Inode
    /\ w.pc = "adopt" => w.kind \in AdoptsLast

Editing(w) ==
    /\ w = [pc |-> "edit", kind |-> "peers", fd |-> 0, url |-> w.url, value |-> w.value]
    /\ w.url \in Url \ Fixed /\ w.value \in Peer

\* Every file holds a text that can be read back, or was truncated and not written.
Readable(k, text) == text = Blank \/ Load(k, text) \in Values(k)

File(k, d) ==
    /\ d = [file |-> d.file, temp |-> d.temp, data |-> d.data]
    /\ d.file \in {0} \cup Inode /\ d.temp \in {0} \cup Inode
    /\ d.temp # 0 => d.temp # d.file
    /\ d.data = [i \in Inode |-> d.data[i]]
    /\ \A i \in Inode : Readable(k, d.data[i])

MemOK  == mem = [k \in Kind |-> mem[k]] /\ \A k \in Kind : mem[k] \in Values(k)
DiskOK == disk = [k \in Kind |-> disk[k]] /\ \A k \in Kind : File(k, disk[k])
WorkOK ==
    /\ worker = [c \in Caller |-> worker[c]]
    /\ \A c \in Caller : worker[c] = Idling \/ Busy(worker[c]) \/ Editing(worker[c])

TypeOK == MemOK /\ DiskOK /\ WorkOK /\ up \in BOOLEAN /\ failed \subseteq Kind \ AdoptsLast

\* All handlers but PUT on a peer, which takes another step before it changes anything.
Begins(c) == \/ SaveKey(c) \/ DeleteKey(c) \/ ReplaceKeys(c) \/ DefineTag(c) \/ UndefineTag(c)
             \/ AddPeer(c) \/ DeletePeer(c) \/ SetPeerEnabled(c) \/ SetTier(c)

LEMMA BeginsIs ==
    ASSUME TypeOK, NEW c \in Caller, Begins(c)
    PROVE  \E k \in Kind : /\ Arrives(c, k)
                           /\ \E v \in Values(k) : \/ k \in AdoptsLast /\ SaveCopy(c, k, v)
                                                   \/ k \notin AdoptsLast /\ ChangeLive(c, k, v)
<1> DEFINE Goal == \E k \in Kind : /\ Arrives(c, k)
                           /\ \E v \in Values(k) : \/ k \in AdoptsLast /\ SaveCopy(c, k, v)
                                                   \/ k \notin AdoptsLast /\ ChangeLive(c, k, v)
<1>1. /\ mem.acl \in Values("acl") /\ mem.tags \in Values("tags")
      /\ mem.peers \in Values("peers") /\ mem.tiers \in Values("tiers")
  BY DEF TypeOK, MemOK, Kind
<1>2. ASSUME NEW v \in Values("acl"), Arrives(c, "acl"), SaveCopy(c, "acl", v)
      PROVE  Goal
  BY <1>2 DEF Kind, AdoptsLast
<1>3. ASSUME NEW v \in Values("tags"), Arrives(c, "tags"), SaveCopy(c, "tags", v)
      PROVE  Goal
  BY <1>3 DEF Kind, AdoptsLast
<1>4. ASSUME NEW v \in Values("peers"), Arrives(c, "peers"), ChangeLive(c, "peers", v)
      PROVE  Goal
  BY <1>4 DEF Kind, AdoptsLast
<1>5. ASSUME NEW v \in Values("tiers"), Arrives(c, "tiers"), ChangeLive(c, "tiers", v)
      PROVE  Goal
  BY <1>5 DEF Kind, AdoptsLast
<1>6. CASE SaveKey(c)
  <2>1. PICK entry \in KeyEntry : SaveKeyList(c, entry)
    BY <1>6, SettingsAssumption DEF SaveKey
  <2>2. PICK v : v = SetKey(mem.acl, entry.key, ToGrants(entry))
    OBVIOUS
  <2>3. SaveCopy(c, "acl", v) /\ v \in Values("acl")
    BY <1>1, <2>1, <2>2, SaveKeyValue DEF SaveKeyList
  <2> QED  BY <1>2, <1>6, <2>3 DEF SaveKey
<1>7. CASE DeleteKey(c)
  <2>1. PICK key : DeleteKeyList(c, key)
    BY <1>7 DEF DeleteKey
  <2>2. PICK v : v = RemoveKey(mem.acl, key)
    OBVIOUS
  <2>3. v \in Acls
    BY <1>1, <2>2, AclValues, RemoveKeyAcl
  <2>4. SaveCopy(c, "acl", v) /\ v \in Values("acl")
    BY <2>1, <2>2, <2>3, AclValues DEF DeleteKeyList, HasAdmin
  <2> QED  BY <1>2, <1>7, <2>4 DEF DeleteKey
<1>8. CASE ReplaceKeys(c)
  <2>1. PICK key \in Key, wanted \in SUBSET Entry : ReplaceKeyList(c, key, wanted)
    BY <1>8 DEF ReplaceKeys
  <2>2. PICK v : v = [k \in {e.key : e \in wanted} |-> ToGrants(CHOOSE e \in wanted : e.key = k)]
    OBVIOUS
  <2>3. SaveCopy(c, "acl", v) /\ AdminCount(v) > 0 /\ \A e \in wanted : Valid(e)
    BY <2>1, <2>2 DEF ReplaceKeyList
  <2>4. wanted \in SUBSET KeyEntry
    BY SettingsAssumption
  <2>5. v \in Values("acl")
    BY <2>2, <2>3, <2>4, ReplaceKeysValue
  <2> QED  BY <1>2, <1>8, <2>3, <2>5 DEF ReplaceKeys
<1>9. CASE DefineTag(c)
  <2>1. PICK name \in Tag, colour \in Colour : SaveCopy(c, "tags", SetTag(mem.tags, name, colour))
    BY <1>9 DEF DefineTag
  <2>2. SetTag(mem.tags, name, colour) \in Values("tags")
    BY <1>1, TagValues
  <2> QED  BY <1>3, <1>9, <2>1, <2>2 DEF DefineTag
<1>10. CASE UndefineTag(c)
  <2>1. PICK name : SaveCopy(c, "tags", RemoveTag(mem.tags, name))
    BY <1>10 DEF UndefineTag
  <2>2. RemoveTag(mem.tags, name) \in Values("tags")
    BY <1>1, TagValues
  <2> QED  BY <1>3, <1>10, <2>1, <2>2 DEF UndefineTag
<1>11. mem.peers \in Partial(Url, Peer) /\ DOMAIN mem.peers \subseteq Url
       /\ \A u \in DOMAIN mem.peers : mem.peers[u] \in Peer
  BY <1>1, KindsAre, PartialIs
<1>12. CASE AddPeer(c)
  <2>1. PICK url \in Url \ Fixed, stores \in {"all", "part"} :
           ChangeLive(c, "peers", PutPeer(mem.peers, url, [stores |-> stores, enabled |-> TRUE]))
    BY <1>12 DEF AddPeer
  <2>2. [stores |-> stores, enabled |-> TRUE] \in Peer
    BY DEF Peer
  <2>3. PutPeer(mem.peers, url, [stores |-> stores, enabled |-> TRUE]) \in Values("peers")
    BY <1>1, <2>2, PeerValues
  <2> QED  BY <1>4, <1>12, <2>1, <2>3 DEF AddPeer
<1>13. CASE DeletePeer(c)
  <2>1. PICK url \in Url \ Fixed :
           ChangeLive(c, "peers", Restrict(mem.peers, DOMAIN mem.peers \ {url}))
    BY <1>11, <1>13 DEF DeletePeer, IsFixed
  <2>2. Restrict(mem.peers, DOMAIN mem.peers \ {url}) \in Values("peers")
    BY <1>1, PeerValues
  <2> QED  BY <1>4, <1>13, <2>1, <2>2 DEF DeletePeer
<1>14. CASE SetPeerEnabled(c)
  <2>1. PICK url \in DOMAIN mem.peers, enabled \in BOOLEAN :
           ~IsFixed(url) /\ ChangeLive(c, "peers", PutPeer(mem.peers, url,
                                          [mem.peers[url] EXCEPT !.enabled = enabled]))
    BY <1>14 DEF SetPeerEnabled
  <2>2. PICK peer : peer = [mem.peers[url] EXCEPT !.enabled = enabled]
    OBVIOUS
  <2>3. mem.peers[url] \in Peer /\ url \in Url \ Fixed
    BY <1>11, <2>1 DEF IsFixed
  <2>4. peer \in Peer
    BY <2>2, <2>3 DEF Peer
  <2>5. PutPeer(mem.peers, url, peer) \in Values("peers")
    BY <1>1, <2>3, <2>4, PeerValues
  <2> QED  BY <1>4, <1>14, <2>1, <2>2, <2>5 DEF SetPeerEnabled
<1>15. CASE SetTier(c)
  <2>1. PICK shard \in Shard, entry \in TierEntry :
           ChangeLive(c, "tiers", SetTierEntry(mem.tiers, shard, entry))
    BY <1>15 DEF SetTier
  <2>2. SetTierEntry(mem.tiers, shard, entry) \in Values("tiers")
    BY <1>1, TierValues
  <2> QED  BY <1>5, <1>15, <2>1, <2>2 DEF SetTier
<1> QED  BY <1>6, <1>7, <1>8, <1>9, <1>10, <1>12, <1>13, <1>14, <1>15 DEF Begins

-----------------------------------------------------------------------------
(* Types.                                                                  *)

LEMMA WorkerStep ==
    ASSUME WorkOK, NEW c \in Caller, NEW w, worker' = [worker EXCEPT ![c] = w],
           w = Idling \/ Busy(w) \/ Editing(w)
    PROVE  WorkOK' /\ worker'[c] = w /\ \A d \in Caller : d # c => worker'[d] = worker[d]
<1>1. worker'[c] = w /\ \A d \in Caller : d # c => worker'[d] = worker[d]
  BY DEF WorkOK
<1>2. worker' = [d \in Caller |-> worker'[d]]
  BY DEF WorkOK
<1>3. \A d \in Caller : worker'[d] = Idling \/ Busy(worker'[d]) \/ Editing(worker'[d])
  BY <1>1 DEF WorkOK
<1>4. WorkOK'
  BY <1>2, <1>3 DEF WorkOK, Busy, Editing, Idling
<1> QED  BY <1>1, <1>4

LEMMA MemStep ==
    ASSUME MemOK, NEW k \in Kind, NEW v \in Values(k), mem' = [mem EXCEPT ![k] = v]
    PROVE  MemOK' /\ mem'[k] = v /\ \A j \in Kind : j # k => mem'[j] = mem[j]
<1>1. mem'[k] = v /\ \A j \in Kind : j # k => mem'[j] = mem[j]
  BY DEF MemOK
<1>2. mem' = [j \in Kind |-> mem'[j]]
  BY DEF MemOK
<1>3. \A j \in Kind : mem'[j] \in Values(j)
  BY <1>1 DEF MemOK
<1> QED  BY <1>1, <1>2, <1>3 DEF MemOK

LEMMA SaveCopyType ==
    ASSUME TypeOK, NEW c \in Caller, NEW k \in Kind, NEW v \in Values(k), SaveCopy(c, k, v)
    PROVE  TypeOK'
<1>1. PICK w : w = [pc |-> "create", kind |-> k, value |-> v, fd |-> 0]
  OBVIOUS
<1>2. Busy(w)
  BY <1>1 DEF Busy, Saving
<1>3. WorkOK'
  BY <1>1, <1>2, WorkerStep DEF TypeOK, SaveCopy
<1> QED  BY <1>3 DEF TypeOK, SaveCopy, MemOK, DiskOK

LEMMA ChangeLiveType ==
    ASSUME TypeOK, NEW c \in Caller, NEW k \in Kind \ AdoptsLast, NEW v \in Values(k),
           ChangeLive(c, k, v)
    PROVE  TypeOK'
<1>1. PICK w : w = [pc |-> "render", kind |-> k, value |-> None, fd |-> 0]
  OBVIOUS
<1>2. Busy(w)
  BY <1>1 DEF Busy, Saving
<1>3. WorkOK'
  BY <1>1, <1>2, WorkerStep DEF TypeOK, ChangeLive
<1>4. MemOK'
  BY MemStep DEF TypeOK, ChangeLive
<1>5. failed' \subseteq Kind \ AdoptsLast
  BY DEF TypeOK, ChangeLive
<1> QED  BY <1>3, <1>4, <1>5 DEF TypeOK, ChangeLive, DiskOK

LEMMA PcIs ==
    ASSUME WorkOK, NEW c \in Caller
    PROVE  /\ worker[c].pc = "idle" => worker[c] = Idling
           /\ worker[c].pc = "edit" => Editing(worker[c])
           /\ worker[c].pc \in Saving \cup {"render"} => Busy(worker[c])
           /\ worker[c].pc \in Saving \cup {"render", "idle", "edit"}
<1>1. CASE worker[c] = Idling
  BY <1>1 DEF Idling, Saving
<1>2. CASE Busy(worker[c])
  BY <1>2 DEF Busy, Saving
<1>3. CASE Editing(worker[c])
  <2>1. worker[c].pc = "edit"
    BY <1>3 DEF Editing
  <2> QED  BY <1>3, <2>1 DEF Saving
<1> QED  BY <1>1, <1>2, <1>3 DEF WorkOK

LEMMA UpdatePeerIs ==
    ASSUME TypeOK, NEW c \in Caller, UpdatePeer(c)
    PROVE  \E url, value, w :
              /\ url \in DOMAIN mem.peers /\ value \in Peer
              /\ w = [pc |-> "edit", kind |-> "peers", fd |-> 0, url |-> url, value |-> value]
              /\ Editing(w) /\ worker' = [worker EXCEPT ![c] = w]
              /\ value.enabled = mem.peers[url].enabled
<1>1. DOMAIN mem.peers \subseteq Url /\ \A u \in DOMAIN mem.peers : mem.peers[u] \in Peer
  BY KindsAre, PartialIs DEF TypeOK, MemOK, Kind
<1>2. PICK url \in DOMAIN mem.peers, stores \in {"all", "part"} :
         /\ ~IsFixed(url)
         /\ worker' = [worker EXCEPT ![c] =
                 [pc |-> "edit", kind |-> "peers", fd |-> 0, url |-> url,
                  value |-> [stores |-> stores, enabled |-> mem.peers[url].enabled]]]
  BY DEF UpdatePeer
<1>3. PICK value : value = [stores |-> stores, enabled |-> mem.peers[url].enabled]
  OBVIOUS
<1>4. mem.peers[url].enabled \in BOOLEAN
  BY <1>1 DEF Peer
<1>5. value \in Peer /\ value.enabled = mem.peers[url].enabled
  BY <1>3, <1>4 DEF Peer
<1>6. PICK w : w = [pc |-> "edit", kind |-> "peers", fd |-> 0, url |-> url, value |-> value]
  OBVIOUS
<1>7. w.url = url /\ w.value = value /\ url \in Url \ Fixed
  BY <1>1, <1>2, <1>6 DEF IsFixed
<1>8. Editing(w)
  BY <1>5, <1>6, <1>7 DEF Editing
<1>9. worker' = [worker EXCEPT ![c] = w]
  BY <1>2, <1>3, <1>6
<1> QED  BY <1>2, <1>5, <1>6, <1>8, <1>9

LEMMA UpdatePeerType ==
    ASSUME TypeOK, NEW c \in Caller, UpdatePeer(c)
    PROVE  TypeOK'
<1>1. PICK w : Editing(w) /\ worker' = [worker EXCEPT ![c] = w]
  BY UpdatePeerIs
<1>2. WorkOK'
  BY <1>1, WorkerStep DEF TypeOK
<1> QED  BY <1>2 DEF TypeOK, UpdatePeer, MemOK, DiskOK

LEMMA EditPeerIs ==
    ASSUME TypeOK, NEW c \in Caller, EditPeer(c)
    PROVE  /\ Editing(worker[c]) /\ worker[c].kind = "peers" /\ worker[c].pc = "edit"
           /\ \/ /\ worker[c].url \in DOMAIN mem.peers
                 /\ \E v \in Values("peers") : /\ ChangeLive(c, "peers", v)
                                               /\ v[worker[c].url] = worker[c].value
              \/ worker' = [worker EXCEPT ![c] = Idling] /\ UNCHANGED <<mem, disk, up, failed>>
<1>1. Editing(worker[c]) /\ worker[c].pc = "edit"
  BY PcIs DEF EditPeer, TypeOK
<1>2. worker[c].kind = "peers" /\ worker[c].url \in Url \ Fixed /\ worker[c].value \in Peer
  BY <1>1 DEF Editing
<1>3. mem.peers \in Values("peers")
  BY DEF TypeOK, MemOK, Kind
<1>4. PICK v : v = PutPeer(mem.peers, worker[c].url, worker[c].value)
  OBVIOUS
<1>5. v \in Values("peers") /\ v[worker[c].url] = worker[c].value
  <2>1. PICK url \in Url \ Fixed, peer \in Peer, peers \in Values("peers") :
           url = worker[c].url /\ peer = worker[c].value /\ peers = mem.peers
    BY <1>2, <1>3
  <2>2. PutPeer(peers, url, peer) \in Values("peers") /\ PutPeer(peers, url, peer)[url] = peer
    BY PeerValues
  <2> QED  BY <1>4, <2>1, <2>2
<1>6. CASE worker[c].url \in DOMAIN mem.peers
  <2>1. ChangeLive(c, "peers", v)
    BY <1>4, <1>6 DEF EditPeer
  <2> QED  BY <1>1, <1>2, <1>5, <1>6, <2>1
<1>7. CASE worker[c].url \notin DOMAIN mem.peers
  BY <1>1, <1>2, <1>7 DEF EditPeer
<1> QED  BY <1>6, <1>7

LEMMA EditPeerType ==
    ASSUME TypeOK, NEW c \in Caller, EditPeer(c)
    PROVE  TypeOK'
<1>1. ASSUME NEW v \in Values("peers"), ChangeLive(c, "peers", v)
      PROVE  TypeOK'
  <2>1. "peers" \in Kind \ AdoptsLast
    BY DEF Kind, AdoptsLast
  <2> QED  BY <1>1, <2>1, ChangeLiveType
<1>2. CASE worker' = [worker EXCEPT ![c] = Idling] /\ UNCHANGED <<mem, disk, up, failed>>
  <2>1. WorkOK'
    BY <1>2, WorkerStep DEF TypeOK
  <2> QED  BY <1>2, <2>1 DEF TypeOK, MemOK, DiskOK
<1> QED  BY <1>1, <1>2, EditPeerIs

\* What a step of a handler leaves of its state.
LEMMA Updated ==
    ASSUME NEW x, x = [pc |-> x.pc, kind |-> x.kind, value |-> x.value, fd |-> x.fd],
           NEW p, NEW v
    PROVE  /\ [x EXCEPT !.pc = p] = [pc |-> p, kind |-> x.kind, value |-> x.value, fd |-> x.fd]
           /\ [x EXCEPT !.pc = p, !.value = v] = [pc |-> p, kind |-> x.kind, value |-> v, fd |-> x.fd]
<1>1. PICK k, u, f : k = x.kind /\ u = x.value /\ f = x.fd
  OBVIOUS
<1>2. x = [pc |-> x.pc, kind |-> k, value |-> u, fd |-> f]
  BY <1>1
<1>3. [x EXCEPT !.pc = p] = [pc |-> p, kind |-> k, value |-> u, fd |-> f]
  BY <1>2
<1>4. PICK y : y = [x EXCEPT !.pc = p]
  OBVIOUS
<1>5. y = [pc |-> p, kind |-> k, value |-> u, fd |-> f]
  BY <1>3, <1>4
<1>6. [y EXCEPT !.value = v] = [pc |-> p, kind |-> k, value |-> v, fd |-> f]
  BY <1>5
<1> QED  BY <1>1, <1>3, <1>4, <1>6

LEMMA RenderLiveType ==
    ASSUME TypeOK, NEW c \in Caller, RenderLive(c)
    PROVE  /\ TypeOK' /\ worker[c].kind \in Kind \ AdoptsLast
           /\ worker'[c] = [pc |-> "create", kind |-> worker[c].kind,
                            value |-> mem[worker[c].kind], fd |-> worker[c].fd]
           /\ \A d \in Caller : d # c => worker'[d] = worker[d]
<1>1. Busy(worker[c]) /\ worker[c].pc = "render"
  BY PcIs DEF RenderLive, TypeOK
<1>2. PICK k, f : k = worker[c].kind /\ f = worker[c].fd
  OBVIOUS
<1>3. /\ worker[c] = [pc |-> worker[c].pc, kind |-> k, value |-> worker[c].value, fd |-> f]
      /\ k \in Kind /\ k \notin AdoptsLast /\ f \in {0} \cup Inode
  BY <1>1, <1>2 DEF Busy, Saving
<1>4. PICK w : w = [pc |-> "create", kind |-> k, value |-> mem[k], fd |-> f]
  OBVIOUS
<1>5. worker' = [worker EXCEPT ![c] = w]
  <2>1. PICK x : x = worker[c]
    OBVIOUS
  <2>2. [x EXCEPT !.pc = "create", !.value = mem[k]] = w
    <3>1. x = [pc |-> x.pc, kind |-> x.kind, value |-> x.value, fd |-> x.fd]
      BY <1>1, <2>1 DEF Busy
    <3>2. [x EXCEPT !.pc = "create", !.value = mem[k]]
             = [pc |-> "create", kind |-> x.kind, value |-> mem[k], fd |-> x.fd]
      BY <3>1, Updated
    <3> QED  BY <1>2, <1>4, <2>1, <3>2
  <2> QED  BY <1>2, <2>1, <2>2 DEF RenderLive
<1>6. Busy(w)
  BY <1>3, <1>4 DEF Busy, Saving, TypeOK, MemOK
<1>7. WorkOK' /\ worker'[c] = w /\ \A d \in Caller : d # c => worker'[d] = worker[d]
  BY <1>5, <1>6, WorkerStep DEF TypeOK
<1>8. TypeOK'
  BY <1>7 DEF TypeOK, RenderLive, MemOK, DiskOK
<1> QED  BY <1>2, <1>3, <1>4, <1>7, <1>8

LEMMA DiskStep ==
    ASSUME DiskOK, NEW k \in Kind, NEW d, File(k, d), disk' = [disk EXCEPT ![k] = d]
    PROVE  DiskOK' /\ disk'[k] = d /\ \A j \in Kind : j # k => disk'[j] = disk[j]
<1>1. disk'[k] = d /\ \A j \in Kind : j # k => disk'[j] = disk[j]
  BY DEF DiskOK
<1>2. disk' = [j \in Kind |-> disk'[j]]
  BY DEF DiskOK
<1>3. \A j \in Kind : File(j, disk'[j])
  BY <1>1 DEF DiskOK
<1>4. \A j \in Kind : File(j, disk[j])'
  BY <1>3 DEF File, Readable
<1> QED  BY <1>1, <1>2, <1>4 DEF DiskOK

\* There are more inodes than handlers and names of a file.
LEMMA FreshInode ==
    ASSUME TypeOK, NEW k \in Kind, disk[k].temp = 0
    PROVE  Fresh(k) \in Inode /\ Fresh(k) # disk[k].file
<1>1. PICK file : file = disk[k].file
  OBVIOUS
<1>2. PICK S : S = Inode \ {file}
  OBVIOUS
<1>3. Cardinality(Caller) \in Nat
  BY SettingsAssumption, FS_CardinalityType
<1>4. IsFiniteSet(Inode) /\ Cardinality(Inode) = Cardinality(Caller) + 2
  <2>1. PICK n \in Nat : n = Cardinality(Caller) + 2
    BY <1>3
  <2>2. IsFiniteSet(1..n) /\ Cardinality(1..n) = n
    BY FS_Interval
  <2> QED  BY <2>1, <2>2 DEF Inode
<1>5. IsFiniteSet(S) /\ Cardinality(S) > Cardinality(Caller)
  <2>1. CASE file \in Inode
    <3>1. PICK I : I = Inode
      OBVIOUS
    <3>2. IsFiniteSet(I \ {file}) /\ Cardinality(I \ {file}) = Cardinality(I) - 1
      BY <1>4, <2>1, <3>1, FS_RemoveElement
    <3>3. IsFiniteSet(S) /\ Cardinality(S) = Cardinality(Inode) - 1
      BY <1>2, <3>1, <3>2
    <3> QED  BY <1>3, <1>4, <3>3
  <2>2. CASE file \notin Inode
    <3>1. S = Inode
      BY <1>2, <2>2
    <3> QED  BY <1>3, <1>4, <3>1
  <2> QED  BY <2>1, <2>2
<1>6. PICK i \in S : \A c \in InFlight(k) : worker[c].fd # i
  <2>1. CASE \A i \in S : \E c \in InFlight(k) : worker[c].fd = i
    <3>1. PICK owner : owner = [i \in S |-> CHOOSE c \in InFlight(k) : worker[c].fd = i]
      OBVIOUS
    <3>2. \A i \in S : owner[i] \in InFlight(k) /\ worker[owner[i]].fd = i
      BY <2>1, <3>1
    <3>3. InFlight(k) \subseteq Caller
      BY DEF InFlight
    <3>4. owner \in [S -> Caller]
      BY <3>1, <3>2, <3>3
    <3>5. \E x, y \in S : x # y /\ owner[x] = owner[y]
      BY <3>4, <1>5, SettingsAssumption, FS_PigeonHole
    <3> QED  BY <3>2, <3>5
  <2> QED  BY <2>1
<1>7. i \in Inode /\ i # 0 /\ i # file
  BY <1>2, <1>3 DEF Inode
<1>8. i \notin {disk[k].file, disk[k].temp} \cup {worker[c].fd : c \in InFlight(k)}
  BY <1>1, <1>6, <1>7
<1>9. Fresh(k) \in Inode /\ Fresh(k) \notin {disk[k].file, disk[k].temp}
  BY <1>7, <1>8 DEF Fresh
<1> QED  BY <1>9

LEMMA CreateTempIs ==
    ASSUME TypeOK, NEW c \in Caller, CreateTemp(c)
    PROVE  /\ TypeOK' /\ Busy(worker[c]) /\ worker[c].pc = "create"
           /\ \E k \in Kind, i \in Inode :
                 /\ k = worker[c].kind /\ i # disk[k].file
                 /\ worker'[c] = [pc |-> "write", kind |-> k, value |-> worker[c].value, fd |-> i]
                 /\ disk'[k].file = disk[k].file /\ disk'[k].temp = i
                 /\ \A j \in Inode : j # i => disk'[k].data[j] = disk[k].data[j]
                 /\ \A j \in Kind : j # k => disk'[j] = disk[j]
           /\ \A d \in Caller : d # c => worker'[d] = worker[d]
<1>1. Busy(worker[c]) /\ worker[c].pc = "create"
  BY PcIs DEF CreateTemp, TypeOK, Saving
<1>2. PICK x : x = worker[c]
  OBVIOUS
<1>3. PICK k \in Kind : k = x.kind
  BY <1>1, <1>2 DEF Busy
<1>4. /\ x = [pc |-> x.pc, kind |-> x.kind, value |-> x.value, fd |-> x.fd]
      /\ x.value \in Values(k)
  BY <1>1, <1>2, <1>3 DEF Busy, Saving
<1>5. PICK f : f = disk[k] /\ File(k, f)
  BY DEF TypeOK, DiskOK
<1>6. PICK i : i = IF f.temp = 0 THEN Fresh(k) ELSE f.temp
  OBVIOUS
<1>7. i \in Inode /\ i # f.file
  <2>1. CASE f.temp = 0
    BY <1>5, <1>6, <2>1, FreshInode
  <2>2. CASE f.temp # 0
    BY <1>5, <1>6, <2>2 DEF File
  <2> QED  BY <2>1, <2>2
<1>8. /\ disk' = [disk EXCEPT ![k] = [f EXCEPT !.temp = i, !.data[i] = Blank]]
      /\ worker' = [worker EXCEPT ![c] = [x EXCEPT !.pc = "write", !.fd = i]]
      /\ UNCHANGED <<mem, up, failed>>
  BY <1>2, <1>3, <1>5, <1>6 DEF CreateTemp
<1>9. PICK w : w = [pc |-> "write", kind |-> k, value |-> x.value, fd |-> i]
  OBVIOUS
<1>10. [x EXCEPT !.pc = "write", !.fd = i] = w
  <2>1. [x EXCEPT !.pc = "write", !.fd = i]
           = [pc |-> "write", kind |-> x.kind, value |-> x.value, fd |-> i]
    <3>1. x = [pc |-> x.pc, kind |-> x.kind, value |-> x.value, fd |-> x.fd]
      BY <1>4
    <3>2. PICK a, v : a = x.kind /\ v = x.value
      OBVIOUS
    <3>3. x = [pc |-> x.pc, kind |-> a, value |-> v, fd |-> x.fd]
      BY <3>1, <3>2
    <3>4. PICK y : y = [x EXCEPT !.pc = "write"]
      OBVIOUS
    <3>5. y = [pc |-> "write", kind |-> a, value |-> v, fd |-> x.fd]
      BY <3>3, <3>4
    <3>6. [y EXCEPT !.fd = i] = [pc |-> "write", kind |-> a, value |-> v, fd |-> i]
      BY <3>5
    <3> QED  BY <3>2, <3>4, <3>6
  <2> QED  BY <1>3, <1>9, <2>1
<1>11. Busy(w)
  BY <1>4, <1>7, <1>9 DEF Busy, Saving
<1>12. WorkOK' /\ worker'[c] = w /\ \A d \in Caller : d # c => worker'[d] = worker[d]
  BY <1>8, <1>10, <1>11, WorkerStep DEF TypeOK
<1>13. PICK data : data = [f.data EXCEPT ![i] = Blank]
  OBVIOUS
<1>14. PICK g : g = [file |-> f.file, temp |-> i, data |-> data]
  OBVIOUS
<1>15. [f EXCEPT !.temp = i, !.data[i] = Blank] = g
  <2>1. PICK a, t, b : a = f.file /\ t = f.temp /\ b = f.data
    OBVIOUS
  <2>2. f = [file |-> a, temp |-> t, data |-> b]
    BY <1>5, <2>1 DEF File
  <2>3. PICK h : h = [f EXCEPT !.temp = i]
    OBVIOUS
  <2>4. h = [file |-> a, temp |-> i, data |-> b]
    BY <2>2, <2>3
  <2>5. [h EXCEPT !.data[i] = Blank] = [file |-> a, temp |-> i, data |-> [b EXCEPT ![i] = Blank]]
    BY <2>4
  <2> QED  BY <1>13, <1>14, <2>1, <2>3, <2>5
<1>16. /\ data = [j \in Inode |-> data[j]] /\ data[i] = Blank
       /\ \A j \in Inode : j # i => data[j] = f.data[j]
  BY <1>5, <1>7, <1>13 DEF File
<1>17. File(k, g)
  BY <1>5, <1>7, <1>14, <1>16 DEF File, Readable
<1>18. DiskOK' /\ disk'[k] = g /\ \A j \in Kind : j # k => disk'[j] = disk[j]
  BY <1>8, <1>15, <1>17, DiskStep DEF TypeOK
<1>19. TypeOK'
  BY <1>8, <1>12, <1>18 DEF TypeOK, MemOK
<1>20. g.file = f.file /\ g.temp = i /\ \A j \in Inode : j # i => g.data[j] = f.data[j]
  BY <1>14, <1>16
<1> QED  BY <1>1, <1>2, <1>3, <1>5, <1>7, <1>9, <1>12, <1>18, <1>19, <1>20

LEMMA WriteTempIs ==
    ASSUME TypeOK, NEW c \in Caller, WriteTemp(c)
    PROVE  /\ TypeOK' /\ Busy(worker[c]) /\ worker[c].pc = "write"
           /\ \E k \in Kind, i \in Inode :
                 /\ k = worker[c].kind /\ i = worker[c].fd
                 /\ worker'[c] = [pc |-> "rename", kind |-> k, value |-> worker[c].value, fd |-> i]
                 /\ disk'[k].file = disk[k].file /\ disk'[k].temp = disk[k].temp
                 /\ disk'[k].data[i] = Render(k, worker[c].value)
                 /\ \A j \in Inode : j # i => disk'[k].data[j] = disk[k].data[j]
                 /\ \A j \in Kind : j # k => disk'[j] = disk[j]
           /\ \A d \in Caller : d # c => worker'[d] = worker[d]
<1>1. Busy(worker[c]) /\ worker[c].pc = "write"
  BY PcIs DEF WriteTemp, TypeOK, Saving
<1>2. PICK x : x = worker[c]
  OBVIOUS
<1>3. PICK k \in Kind, i \in Inode : k = x.kind /\ i = x.fd
  BY <1>1, <1>2 DEF Busy
<1>4. PICK v \in Values(k) : v = x.value
  BY <1>1, <1>2, <1>3 DEF Busy, Saving
<1>5. x = [pc |-> "write", kind |-> k, value |-> v, fd |-> i]
  BY <1>1, <1>2, <1>3, <1>4 DEF Busy
<1>6. PICK f : f = disk[k] /\ File(k, f)
  BY DEF TypeOK, DiskOK
<1>7. PICK text : text = Render(k, v)
  OBVIOUS
<1>8. /\ disk' = [disk EXCEPT ![k].data[i] = text]
      /\ worker' = [worker EXCEPT ![c].pc = "rename"]
      /\ UNCHANGED <<mem, up, failed>>
  BY <1>2, <1>3, <1>4, <1>7 DEF WriteTemp
<1>9. PICK w : w = [pc |-> "rename", kind |-> k, value |-> v, fd |-> i]
  OBVIOUS
<1>10. worker' = [worker EXCEPT ![c] = w]
  <2>1. [x EXCEPT !.pc = "rename"] = w
    BY <1>5, <1>9
  <2>2. worker' = [worker EXCEPT ![c] = [x EXCEPT !.pc = "rename"]]
    BY <1>2, <1>8
  <2> QED  BY <2>1, <2>2
<1>11. Busy(w)
  BY <1>9 DEF Busy, Saving
<1>12. WorkOK' /\ worker'[c] = w /\ \A d \in Caller : d # c => worker'[d] = worker[d]
  BY <1>10, <1>11, WorkerStep DEF TypeOK
<1>13. PICK a, t, b : a = f.file /\ t = f.temp /\ b = f.data
  OBVIOUS
<1>14. f = [file |-> a, temp |-> t, data |-> b]
  BY <1>6, <1>13 DEF File
<1>15. PICK data : data = [b EXCEPT ![i] = text]
  OBVIOUS
<1>16. PICK g : g = [file |-> a, temp |-> t, data |-> data]
  OBVIOUS
<1>17. disk' = [disk EXCEPT ![k] = g]
  <2>1. [f EXCEPT !.data = data] = g
    BY <1>14, <1>16
  <2>2. disk' = [disk EXCEPT ![k] = [f EXCEPT !.data = data]]
    BY <1>6, <1>8, <1>13, <1>15
  <2> QED  BY <2>1, <2>2
<1>18. /\ data = [j \in Inode |-> data[j]] /\ data[i] = text
       /\ \A j \in Inode : j # i => data[j] = b[j]
  BY <1>6, <1>13, <1>15 DEF File
<1>19. Readable(k, text)
  BY <1>7, RoundTrip DEF Readable
<1>20. File(k, g)
  BY <1>6, <1>13, <1>16, <1>18, <1>19 DEF File
<1>21. DiskOK' /\ disk'[k] = g /\ \A j \in Kind : j # k => disk'[j] = disk[j]
  BY <1>17, <1>20, DiskStep DEF TypeOK
<1>22. TypeOK'
  BY <1>8, <1>12, <1>21 DEF TypeOK, MemOK
<1>23. /\ g.file = f.file /\ g.temp = f.temp /\ g.data[i] = Render(k, v)
       /\ \A j \in Inode : j # i => g.data[j] = f.data[j]
  BY <1>7, <1>13, <1>16, <1>18
<1>24. k = worker[c].kind /\ i = worker[c].fd /\ v = worker[c].value
  BY <1>2, <1>3, <1>4
<1>25. worker'[c] = [pc |-> "rename", kind |-> k, value |-> worker[c].value, fd |-> i]
  BY <1>9, <1>12, <1>24
<1>26. /\ disk'[k].file = disk[k].file /\ disk'[k].temp = disk[k].temp
       /\ disk'[k].data[i] = Render(k, worker[c].value)
       /\ \A j \in Inode : j # i => disk'[k].data[j] = disk[k].data[j]
  BY <1>6, <1>21, <1>23, <1>24
<1> QED  BY <1>1, <1>12, <1>21, <1>22, <1>24, <1>25, <1>26

LEMMA RenameTempIs ==
    ASSUME TypeOK, NEW c \in Caller, RenameTemp(c)
    PROVE  /\ TypeOK' /\ Busy(worker[c]) /\ worker[c].pc = "rename"
           /\ \E k \in Kind, i \in Inode :
                 /\ k = worker[c].kind /\ i = disk[k].temp
                 /\ worker'[c] = IF k \in AdoptsLast
                                 THEN [pc |-> "adopt", kind |-> k, value |-> worker[c].value,
                                       fd |-> worker[c].fd]
                                 ELSE Idling
                 /\ disk'[k].file = i
                 /\ \A j \in Inode : disk'[k].data[j] = disk[k].data[j]
                 /\ \A j \in Kind : j # k => disk'[j] = disk[j]
                 /\ failed' = failed \ {k}
           /\ \A d \in Caller : d # c => worker'[d] = worker[d]
<1>1. Busy(worker[c]) /\ worker[c].pc = "rename"
  BY PcIs DEF RenameTemp, TypeOK, Saving
<1>2. PICK x : x = worker[c]
  OBVIOUS
<1>3. PICK k \in Kind, h \in Inode : k = x.kind /\ h = x.fd
  BY <1>1, <1>2 DEF Busy
<1>4. PICK v \in Values(k) : v = x.value
  BY <1>1, <1>2, <1>3 DEF Busy, Saving
<1>5. x = [pc |-> "rename", kind |-> k, value |-> v, fd |-> h]
  BY <1>1, <1>2, <1>3, <1>4 DEF Busy
<1>6. PICK f : f = disk[k] /\ File(k, f)
  BY DEF TypeOK, DiskOK
<1>7. PICK i : i = f.temp
  OBVIOUS
<1>8. /\ i # 0
      /\ disk' = [disk EXCEPT ![k] = [f EXCEPT !.file = i, !.temp = 0]]
      /\ worker' = IF k \in AdoptsLast THEN [worker EXCEPT ![c].pc = "adopt"]
                                       ELSE [worker EXCEPT ![c] = Idling]
      /\ UNCHANGED <<mem, up>> /\ failed' = failed \ {k}
  BY <1>2, <1>3, <1>6, <1>7 DEF RenameTemp, Finish
<1>9. i \in Inode
  BY <1>6, <1>7, <1>8 DEF File
<1>10. PICK w : w = IF k \in AdoptsLast
                    THEN [pc |-> "adopt", kind |-> k, value |-> v, fd |-> h] ELSE Idling
  OBVIOUS
<1>11. worker' = [worker EXCEPT ![c] = w]
  <2>1. CASE k \in AdoptsLast
    <3>1. [x EXCEPT !.pc = "adopt"] = w
      BY <1>5, <1>10, <2>1
    <3>2. worker' = [worker EXCEPT ![c] = [x EXCEPT !.pc = "adopt"]]
      BY <1>2, <1>8, <2>1
    <3> QED  BY <3>1, <3>2
  <2>2. CASE k \notin AdoptsLast
    BY <1>8, <1>10, <2>2
  <2> QED  BY <2>1, <2>2
<1>12. w = Idling \/ Busy(w)
  BY <1>10 DEF Busy, Saving
<1>13. WorkOK' /\ worker'[c] = w /\ \A d \in Caller : d # c => worker'[d] = worker[d]
  BY <1>11, <1>12, WorkerStep DEF TypeOK
<1>14. PICK a, b : a = f.file /\ b = f.data
  OBVIOUS
<1>15. PICK g : g = [file |-> i, temp |-> 0, data |-> b]
  OBVIOUS
<1>16. [f EXCEPT !.file = i, !.temp = 0] = g
  <2>1. f = [file |-> a, temp |-> i, data |-> b]
    BY <1>6, <1>7, <1>14 DEF File
  <2>2. PICK y : y = [f EXCEPT !.file = i]
    OBVIOUS
  <2>3. y = [file |-> i, temp |-> i, data |-> b]
    BY <2>1, <2>2
  <2>4. [y EXCEPT !.temp = 0] = g
    BY <1>15, <2>3
  <2> QED  BY <2>2, <2>4
<1>17. File(k, g)
  BY <1>6, <1>9, <1>14, <1>15 DEF File
<1>18. DiskOK' /\ disk'[k] = g /\ \A j \in Kind : j # k => disk'[j] = disk[j]
  BY <1>8, <1>16, <1>17, DiskStep DEF TypeOK
<1>19. TypeOK'
  BY <1>8, <1>13, <1>18 DEF TypeOK, MemOK
<1>20. g.file = i /\ \A j \in Inode : g.data[j] = f.data[j]
  BY <1>14, <1>15
<1> QED  BY <1>1, <1>2, <1>3, <1>4, <1>6, <1>7, <1>8, <1>9, <1>10, <1>13, <1>18, <1>19, <1>20

LEMMA SaveFailsIs ==
    ASSUME TypeOK, NEW c \in Caller, SaveFails(c)
    PROVE  /\ TypeOK' /\ worker[c].pc \in {"create", "write", "rename"}
           /\ worker'[c] = Idling /\ \A d \in Caller : d # c => worker'[d] = worker[d]
<1>1. /\ WorkOK' /\ worker'[c] = Idling
      /\ \A d \in Caller : d # c => worker'[d] = worker[d]
  BY WorkerStep DEF TypeOK, SaveFails
<1>2. worker[c].pc \in {"create", "write", "rename"}
  BY DEF SaveFails
<1> QED  BY <1>1, <1>2 DEF TypeOK, SaveFails, MemOK, DiskOK

LEMMA AdoptIs ==
    ASSUME TypeOK, NEW c \in Caller, Adopt(c)
    PROVE  /\ TypeOK' /\ worker[c].pc = "adopt"
           /\ worker'[c] = Idling /\ \A d \in Caller : d # c => worker'[d] = worker[d]
           /\ \E k \in AdoptsLast : /\ k = worker[c].kind /\ mem'[k] = worker[c].value
                                    /\ \A j \in Kind : j # k => mem'[j] = mem[j]
<1>1. Busy(worker[c]) /\ worker[c].pc = "adopt"
  BY PcIs DEF Adopt, TypeOK, Saving
<1>2. PICK k \in AdoptsLast : k = worker[c].kind
  BY <1>1 DEF Busy
<1>3. PICK v : v = worker[c].value
  OBVIOUS
<1>4. k \in Kind /\ v \in Values(k)
  BY <1>1, <1>2, <1>3 DEF Busy
<1>5. mem' = [mem EXCEPT ![k] = v]
  BY <1>2, <1>3 DEF Adopt
<1>6. MemOK' /\ mem'[k] = v /\ \A j \in Kind : j # k => mem'[j] = mem[j]
  BY <1>4, <1>5, MemStep DEF TypeOK
<1>7. /\ WorkOK' /\ worker'[c] = Idling
      /\ \A d \in Caller : d # c => worker'[d] = worker[d]
  BY WorkerStep DEF TypeOK, Adopt
<1>8. TypeOK'
  BY <1>6, <1>7 DEF TypeOK, Adopt, DiskOK
<1> QED  BY <1>1, <1>2, <1>3, <1>6, <1>7, <1>8

\* What a restart would load is always a setting, if the tier file can be read at all.
LEMMA LoadsValue ==
    ASSUME DiskOK, NEW k \in Kind, k = "tiers" => CanStart
    PROVE  Load(k, TextOf(k)) \in Values(k)
<1>1. PICK text : text = TextOf(k)
  OBVIOUS
<1>2. text = None \/ Readable(k, text)
  BY <1>1 DEF DiskOK, File, TextOf
<1>3. CASE text = None
  BY <1>1, <1>3, LoadDefault
<1>4. CASE text = Blank
  BY <1>1, <1>4, LoadDefault DEF CanStart
<1> QED  BY <1>1, <1>2, <1>3, <1>4 DEF Readable

LEMMA InitType == Init => TypeOK
<1> SUFFICES ASSUME Init PROVE TypeOK
  OBVIOUS
<1>1. DiskOK
  <2> SUFFICES ASSUME NEW k \in Kind PROVE File(k, disk[k])
    BY DEF Init, DiskOK
  <2>1. 1 \in Inode
    BY SettingsAssumption, FS_CardinalityType DEF Inode
  <2>2. PICK data : data = [i \in Inode |-> IF i = 1 /\ k \in DOMAIN Stored THEN Stored[k] ELSE Blank]
    OBVIOUS
  <2>3. disk[k] = [file |-> IF k \in DOMAIN Stored THEN 1 ELSE 0, temp |-> 0, data |-> data]
    BY <2>2 DEF Init
  <2>4. \A i \in Inode : Readable(k, data[i])
    BY <2>2, FilesAssumption DEF Readable
  <2> QED  BY <2>1, <2>2, <2>3, <2>4 DEF File
<1>2. CanStart
  <2>1. CASE "tiers" \in DOMAIN Stored
    <3>1. 1 \in Inode
      BY SettingsAssumption, FS_CardinalityType DEF Inode
    <3>2. TextOf("tiers") = Stored["tiers"]
      BY <2>1, <3>1 DEF Init, TextOf, Kind
    <3> QED  BY <2>1, <3>2, FilesAssumption DEF CanStart
  <2>2. CASE "tiers" \notin DOMAIN Stored
    BY <2>2, FilesAssumption DEF Init, TextOf, Kind, CanStart
  <2> QED  BY <2>1, <2>2
<1>3. MemOK
  BY <1>1, <1>2, LoadsValue DEF Init, MemOK, Loaded
<1>4. WorkOK
  BY DEF Init, WorkOK
<1> QED  BY <1>1, <1>3, <1>4 DEF Init, TypeOK

LEMMA CrashType ==
    ASSUME TypeOK, Crash
    PROVE  TypeOK'
<1>1. WorkOK'
  BY DEF Crash, WorkOK
<1> QED  BY <1>1 DEF TypeOK, Crash, MemOK, DiskOK

LEMMA RestartType ==
    ASSUME TypeOK, Restart
    PROVE  TypeOK'
<1>1. \A k \in Kind : Load(k, TextOf(k)) \in Values(k)
  BY LoadsValue DEF TypeOK, Restart
<1>2. MemOK'
  BY <1>1 DEF Restart, MemOK, Loaded
<1> QED  BY <1>2 DEF TypeOK, Restart, DiskOK, WorkOK

LEMMA NextType ==
    ASSUME TypeOK, [Next]_vars
    PROVE  TypeOK'
<1>1. ASSUME NEW c \in Caller, Begins(c)
      PROVE  TypeOK'
  BY <1>1, BeginsIs, SaveCopyType, ChangeLiveType
<1>2. ASSUME NEW c \in Caller, UpdatePeer(c) \/ EditPeer(c)
      PROVE  TypeOK'
  BY <1>2, UpdatePeerType, EditPeerType
<1>3. ASSUME NEW c \in Caller, RenderLive(c) \/ CreateTemp(c) \/ WriteTemp(c) \/ RenameTemp(c)
      PROVE  TypeOK'
  BY <1>3, RenderLiveType, CreateTempIs, WriteTempIs, RenameTempIs
<1>4. ASSUME NEW c \in Caller, SaveFails(c) \/ Adopt(c)
      PROVE  TypeOK'
  BY <1>4, SaveFailsIs, AdoptIs
<1>5. CASE Crash \/ Restart
  BY <1>5, CrashType, RestartType
<1>6. CASE UNCHANGED vars
  BY <1>6 DEF vars, TypeOK, MemOK, DiskOK, WorkOK
<1> QED  BY <1>1, <1>2, <1>3, <1>4, <1>5, <1>6 DEF Next, Begins

\* Memory holds proper settings and the files texts that can be read back, at every
\* step of every handler, through failing saves, crashes and restarts.
THEOREM TypeIsInvariant == Spec => []TypeOK
<1>1. Init => TypeOK
  BY InitType
<1>2. TypeOK /\ [Next]_vars => TypeOK'
  BY NextType
<1> QED  BY <1>1, <1>2, PTL DEF Spec

\* Whatever handlers overlap, whatever saves fail, wherever the server crashes and
\* whatever key its command line gives, it can be managed with some key, and so could
\* the server that a restart at that moment would start.
THEOREM SomebodyManages == Spec => []AdminRemains
<1>1. TypeOK => AdminRemains
  <2> SUFFICES ASSUME TypeOK PROVE AdminRemains
    OBVIOUS
  <2>1. mem["acl"] \in Values("acl")
    BY DEF TypeOK, MemOK, Kind
  <2>2. Load("acl", TextOf("acl")) \in Values("acl")
    BY LoadsValue DEF TypeOK, Kind
  <2>3. LoadAcl(TextOf("acl")) \in Values("acl")
    BY <2>2, LoadIs
  <2> QED  BY <2>1, <2>3, AclValues DEF AdminRemains
<1> QED  BY <1>1, TypeIsInvariant, PTL
=============================================================================

------------------------------- MODULE Gossip --------------------------------
(***************************************************************************)
(* Keys and storage tiers of several servers (src/galaxy.rs, the spreading *)
(* half; save_key, delete_key, replace_keys, set_tier and key_drift of     *)
(* src/admin/mod.rs).  A change is saved where it was made, then pushed to *)
(* that server's peers through their own management interface, each of     *)
(* which passes it on with a hop less; what a server holds is offered      *)
(* again on a timer.  A server that owns the galaxy's keys offers the      *)
(* whole list instead, which can also remove.                              *)
(***************************************************************************)
EXTENDS Acl, Tiers, SequencesExt

CONSTANTS
    Server,
    Wiring,       \* the configurations considered: server -> its enabled peers, in order
    LinkKey,      \* <<s, t>> -> the key s presents to t
    Gossiping,    \* servers with a gossip_interval
    Authority,    \* servers with acl_authority
    Replaceable,  \* servers with acl_replaceable
    MaxHops,
    Start,        \* server -> its key list at first
    Entry,        \* key entries operators save
    Shard,
    Setting,      \* tier entries operators set
    Keep,         \* revocations a server remembers
    Console,      \* servers operators make changes on
    Overlap,      \* whether operators' requests at one server may overlap
    MaxChanges,   \* bound: changes made by operators
    MaxFaults     \* bound: requests lost, and restarts

VARIABLES
    peers,    \* the configuration of the galaxy
    acl,      \* server -> its key list
    tiers,    \* server -> its tier settings
    revoked,  \* server -> the keys it remembers revoking, newest first
    saved,    \* changes saved and not yet noted
    pushes,   \* handlers pushing a change to the peers left in todo
    round,    \* server -> its periodic offer
    gone,     \* ghost: server -> keys revoked there since it started, not restored since
    changes, faults

vars == <<peers, acl, tiers, revoked, saved, pushes, round, gone, changes, faults>>

Link == {l \in Server \X Server : l[2] \in Range(peers[l[1]])}

-----------------------------------------------------------------------------
(* Management requests a server pushes to its peers.                       *)

PostKey(entry)         == [call |-> "post key", entry |-> entry]
DropKey(key)           == [call |-> "delete key", key |-> key]
PutKeys(entries)       == [call |-> "put keys", entries |-> entries]
PostTier(shard, entry) == [call |-> "post tier", shard |-> shard, entry |-> entry]

\* A peer answers 403 to one it does not let this server administer ...
Refuses(t, key, request) ==
    \/ ~IsAdmin(acl[t], key)
    \/ request.call = "put keys" /\ t \notin Replaceable
    \/ request.call = "post tier" /\ ~CanWrite(acl[t], key, <<request.shard>>)

ListOf(entries) == [k \in {e.key : e \in entries} |-> ToGrants(CHOOSE e \in entries : e.key = k)]

KeysAfter(t, request) ==
    CASE request.call = "post key"   -> SetKey(acl[t], request.entry.key, ToGrants(request.entry))
      [] request.call = "delete key" -> RemoveKey(acl[t], request.key)
      [] request.call = "put keys"   -> ListOf(request.entries)
      [] request.call = "post tier"  -> acl[t]

\* Mutant: the last admin key may be revoked.
AcceptsAny(t, key, request) ==
    CASE request.call = "post key"   -> Valid(request.entry)
      [] request.call = "delete key" -> request.key \in DOMAIN acl[t]
      [] request.call = "put keys"   -> key \in DOMAIN KeysAfter(t, request)
      [] request.call = "post tier"  -> request.shard # Internal

\* ... and 400, 404 or 409 to one that is malformed or would leave no admin key.
Acceptable(t, key, request) ==
    CASE request.call = "post key"   ->
            /\ Valid(request.entry)
            /\ ~( /\ IsAdmin(acl[t], request.entry.key)
                  /\ ~request.entry.admin
                  /\ AdminCount(KeysAfter(t, request)) = 0)
      [] request.call = "delete key" ->
            request.key \in DOMAIN acl[t] /\ AdminCount(KeysAfter(t, request)) > 0
      [] request.call = "put keys"   ->
            /\ \A e \in request.entries : Valid(e)
            /\ AdminCount(KeysAfter(t, request)) > 0
            /\ key \in DOMAIN KeysAfter(t, request)
      [] request.call = "post tier"  -> request.shard # Internal

Takes(t, key, request) == ~Refuses(t, key, request) /\ Acceptable(t, key, request)

\* What a server that took the request passes on; a whole list goes no further.
PassedOn(t, request) ==
    CASE request.call = "put keys"  -> {}
      [] request.call = "post tier" ->
            {PostTier(request.shard, Resolve(SetTierEntry(tiers[t], request.shard, request.entry),
                                             request.shard))}
      [] OTHER -> {request}

Restores(request) ==
    CASE request.call = "post key" -> {request.entry.key}
      [] request.call = "put keys" -> {e.key : e \in request.entries}
      [] OTHER -> {}

Drops(t, request) == DOMAIN acl[t] \ DOMAIN KeysAfter(t, request)

\* note_revoked and note_unrevoked: the newest Keep revocations.
Noted(list, drops, restores) ==
    LET fresh == SetToSeq(drops) \o SelectSeq(list, LAMBDA k : k \notin drops)
        kept  == SubSeq(fresh, 1, IF Len(fresh) > Keep THEN Keep ELSE Len(fresh))
    IN  SelectSeq(kept, LAMBDA k : k \notin restores)

-----------------------------------------------------------------------------
(* A server handles a request: save, then note and push on.                *)

\* hops_left and spread: a request that arrives with no hop left goes no further.
Push(t, request, hops) ==
    {[at |-> t, request |-> r, hops |-> hops, todo |-> peers[t]] :
        r \in IF hops = 0 \/ peers[t] = <<>> THEN {} ELSE PassedOn(t, request)}

Save(t, request) ==
    /\ acl' = [acl EXCEPT ![t] = KeysAfter(t, request)]
    /\ tiers' = [tiers EXCEPT ![t] = IF request.call = "post tier"
                                     THEN SetTierEntry(@, request.shard, request.entry) ELSE @]
    /\ gone' = [gone EXCEPT ![t] = (@ \ Restores(request)) \cup Drops(t, request)]

\* Mutant: a revocation is not noted.
NoteNothing(h) == revoked' = [revoked EXCEPT ![h.at] = Noted(@, {}, h.restores)]

Note(h) == revoked' = [revoked EXCEPT ![h.at] = Noted(@, h.drops, h.restores)]

\* Unless requests at one server may overlap, the one before is done with.
Free(t) == Overlap \/ \A h \in saved : h.at # t

\* The request is in effect at t; its handler has yet to note it and pass it on.
Handle(t, request, hops) ==
    /\ Save(t, request)
    /\ saved' = saved \cup {[at |-> t, drops |-> Drops(t, request), restores |-> Restores(request),
                             push |-> Push(t, request, hops)]}

Finish(h) ==
    /\ h \in saved
    /\ Note(h)
    /\ saved' = saved \ {h}
    /\ pushes' = pushes \cup h.push
    /\ UNCHANGED <<acl, tiers, round, gone, changes, faults>>

\* An operator's change, through the interface of s.
Requests(s) == {PostKey(e) : e \in Entry} \cup {DropKey(k) : k \in DOMAIN acl[s]}
               \cup {PostTier(sh, e) : sh \in Shard, e \in Setting}

Operate(s) ==
    /\ changes < MaxChanges
    /\ Free(s)
    /\ \E key \in Key, request \in Requests(s) :
          /\ Takes(s, key, request)
          /\ Handle(s, request, MaxHops)
    /\ changes' = changes + 1
    /\ UNCHANGED <<revoked, pushes, round, faults>>

-----------------------------------------------------------------------------
(* Sending: each peer in turn, and every answer is only counted.           *)

Sent(p) == pushes' = (pushes \ {p}) \cup {q \in {[p EXCEPT !.todo = Tail(@)]} : q.todo # <<>>}

Deliver(p) ==
    LET t == Head(p.todo)
    IN  /\ p \in pushes
        /\ Free(t)
        /\ Sent(p)
        /\ IF Takes(t, LinkKey[<<p.at, t>>], p.request)
           THEN Handle(t, p.request, p.hops - 1)
           ELSE UNCHANGED <<acl, tiers, saved, gone>>
        /\ UNCHANGED <<revoked, round, changes, faults>>

Lose(p) ==
    /\ p \in pushes
    /\ faults < MaxFaults
    /\ Sent(p)
    /\ faults' = faults + 1
    /\ UNCHANGED <<acl, tiers, revoked, saved, round, gone, changes>>

-----------------------------------------------------------------------------
(* gossip: the periodic offer.                                             *)

Resting == [phase |-> "rest"]

Entries(s) == {FromGrants(k, acl[s][k]) : k \in DOMAIN acl[s]}

Overrides(s) == {PostTier(sh, tiers[s][sh]) : sh \in DOMAIN tiers[s]}

Offering(s, phase, requests, entries) ==
    [phase |-> phase, entries |-> entries, refused |-> FALSE, 
     todo |-> FlattenSeq([i \in 1..Cardinality(requests) |->
                 [j \in 1..Len(peers[s]) |-> <<SetToSeq(requests)[i], peers[s][j]>>]])]

\* Mutant: an owner never offers the list to be held exactly.
BeginOfferAdditive(s) ==
    /\ s \in Gossiping /\ round[s] = Resting /\ peers[s] # <<>>
    /\ round' = [round EXCEPT ![s] = Offering(s, "keys", {PostKey(e) : e \in Entries(s)}, Entries(s))]
    /\ UNCHANGED <<acl, tiers, revoked, saved, pushes, gone, changes, faults>>

\* The entries are taken once, before the first request is sent.
BeginOffer(s) ==
    /\ s \in Gossiping /\ round[s] = Resting /\ peers[s] # <<>>
    /\ round' = [round EXCEPT ![s] =
           IF s \in Authority THEN Offering(s, "list", {PutKeys(Entries(s))}, Entries(s))
           ELSE Offering(s, "keys", {PostKey(e) : e \in Entries(s)}, Entries(s))]
    /\ UNCHANGED <<acl, tiers, revoked, saved, pushes, gone, changes, faults>>

Offer(s) ==
    LET x == Head(round[s].todo)
        t == x[2]
        key == LinkKey[<<s, t>>]
    IN  /\ round[s] # Resting /\ round[s].todo # <<>>
        /\ Free(t)
        /\ round' = [round EXCEPT ![s].todo = Tail(@),
                                  ![s].refused = @ \/ Refuses(t, key, x[1])]
        /\ IF Takes(t, key, x[1]) THEN Handle(t, x[1], MaxHops - 1)
           ELSE UNCHANGED <<acl, tiers, saved, gone>>
        /\ UNCHANGED <<revoked, pushes, changes, faults>>

LoseOffer(s) ==
    /\ round[s] # Resting /\ round[s].todo # <<>>
    /\ faults < MaxFaults
    /\ round' = [round EXCEPT ![s].todo = Tail(@)]
    /\ faults' = faults + 1
    /\ UNCHANGED <<acl, tiers, revoked, saved, pushes, gone, changes>>

\* Mutant: a list that was refused is not offered key by key.
NextPhaseNoFallback(s) ==
    LET r == round[s]
    IN  /\ r # Resting /\ r.todo = <<>>
        /\ round' = [round EXCEPT ![s] = IF r.phase = "tiers" THEN Resting
                                         ELSE Offering(s, "tiers", Overrides(s), {})]
        /\ UNCHANGED <<acl, tiers, revoked, saved, pushes, gone, changes, faults>>

\* A list somebody refused is offered key by key; then the tiers; then rest.
NextPhase(s) ==
    LET r == round[s]
    IN  /\ r # Resting /\ r.todo = <<>>
        /\ round' = [round EXCEPT ![s] =
               CASE r.phase = "list" /\ r.refused ->
                       Offering(s, "keys", {PostKey(e) : e \in r.entries}, r.entries)
                 [] r.phase = "tiers" -> Resting
                 [] OTHER -> Offering(s, "tiers", Overrides(s), {})]
        /\ UNCHANGED <<acl, tiers, revoked, saved, pushes, gone, changes, faults>>

-----------------------------------------------------------------------------

\* A restart keeps the files and forgets what was in memory only.
Restart(s) ==
    /\ faults < MaxFaults
    /\ faults' = faults + 1
    /\ revoked' = [revoked EXCEPT ![s] = <<>>]
    /\ gone' = [gone EXCEPT ![s] = {}]
    /\ saved' = {h \in saved : h.at # s}
    /\ pushes' = {p \in pushes : p.at # s}
    /\ round' = [round EXCEPT ![s] = Resting]
    /\ UNCHANGED <<acl, tiers, changes>>

\* peer_keys: what t answers s when asked for its keys.
PeerKeys(s, t) ==
    LET readable == IsAdmin(acl[t], LinkKey[<<s, t>>])
    IN  [readable |-> readable, keys |-> IF readable THEN DOMAIN acl[t] ELSE {}]

\* key_drift, the row about peer t: flagged as a revocation that did not land,
\* the peer's own, and not offered yet.
Drift(s, t) ==
    LET mine == DOMAIN acl[s]
        peer == PeerKeys(s, t)
        unknown == peer.keys \ mine
        stale == unknown \cap Range(revoked[s])
    IN  [readable |-> peer.readable, revoked_but_present |-> stale, only_on_peer |-> unknown \ stale,
         agrees |-> peer.readable /\ stale = {} /\ mine \subseteq peer.keys]

Init ==
    /\ peers \in Wiring
    /\ acl = Start
    /\ tiers = [s \in Server |-> <<>>]
    /\ revoked = [s \in Server |-> <<>>]
    /\ saved = {} /\ pushes = {}
    /\ round = [s \in Server |-> Resting]
    /\ gone = [s \in Server |-> {}]
    /\ changes = 0 /\ faults = 0

Progress ==
    /\ UNCHANGED peers
    /\ \/ \E h \in saved : Finish(h)
       \/ \E p \in pushes : Deliver(p)

Gossips(s) == UNCHANGED peers /\ (BeginOffer(s) \/ Offer(s) \/ NextPhase(s))

Faults == \/ \E p \in pushes : Lose(p)
          \/ \E s \in Server : Restart(s) \/ LoseOffer(s)

Next == \/ UNCHANGED peers /\ \E s \in Console : Operate(s)
        \/ Progress
        \/ \E s \in Gossiping : Gossips(s)
        \/ UNCHANGED peers /\ Faults

\* Handlers run to their end, and the timer of a server goes on firing.
Spec == /\ Init /\ [][Next]_vars
        /\ WF_vars(Progress)
        /\ \A s \in Gossiping : WF_vars(Gossips(s))

-----------------------------------------------------------------------------
(* Properties.                                                             *)

\* A key revoked at a server since it started, and not put back, that a peer still
\* accepts is flagged in that server's drift view and not passed off as the peer's
\* own, whatever live pushes and periodic offers are under way; and a peer that
\* cannot be asked is not said to agree (note_revoked, key_drift).
DriftTruthful ==
    \A l \in Link :
        LET s == l[1]
            drift == Drift(s, l[2])
            live == (gone[s] \cap DOMAIN acl[l[2]]) \ DOMAIN acl[s]
        IN  (\A h \in saved : h.at # s) =>
                /\ drift.readable => live \subseteq drift.revoked_but_present
                /\ drift.agrees => live = {}
                /\ gone[s] \cap drift.only_on_peer = {}

\* t is a peer of s and lets s administer it.
Administers(s, t) == <<s, t>> \in Link /\ IsAdmin(acl[t], LinkKey[<<s, t>>])

\* Pushing a change never takes the administration of a server from its operators:
\* an admin key is left everywhere, whichever lists and revocations cross.
AdminEverywhere == \A s \in Server : AdminCount(acl[s]) > 0

\* The keys of an owner end up held exactly by every peer that agreed to be replaced,
\* even when a revocation was made while the peer could not be reached (push_key_list,
\* replace_keys).
OwnerPrevails ==
    \A s \in Authority, t \in Replaceable :
        <>[](Administers(s, t) => acl[t] = ListOf(Entries(s)))

\* What a server holds, its peers end up holding too, although pushes are lost: its
\* keys, and the tiers it has settings for (gossip).
OffersArrive ==
    \A s \in Gossiping, t \in Server :
        <>[](Administers(s, t) =>
                /\ DOMAIN acl[s] \subseteq DOMAIN acl[t]
                /\ \A sh \in DOMAIN tiers[s] : Resolve(tiers[t], sh) = Resolve(tiers[s], sh))

\* A peer's tier for a shard ends up the one in force here, cleared settings included:
\* "A tier has no 'unset' - only a different value" (README).
TiersFollow ==
    \A s \in Gossiping, t \in Server, sh \in Shard :
        <>[](Administers(s, t) => Resolve(tiers[t], sh) = Resolve(tiers[s], sh))
==============================================================================

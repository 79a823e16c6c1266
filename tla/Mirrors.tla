------------------------------- MODULE Mirrors -------------------------------
(***************************************************************************)
(* One (namespace, value) pair across a galaxy: the servers that store it  *)
(* (mirrors), the entry points that only pass writes along (routers), the  *)
(* copies that catch-up and `POST /_api/merge' carry between mirrors, and  *)
(* the snapshot each mirror restarts from.                                 *)
(*                                                                         *)
(* Every clock reading and every client timestamp is an arbitrary member   *)
(* of Time: the servers' clocks are not synchronised.  A copy in flight    *)
(* may be taken any number of times and in any order, since a pass can be  *)
(* repeated and two passes can overlap.                                    *)
(***************************************************************************)
EXTENDS Attribute

CONSTANTS
    Mirror,     \* servers that hold the namespace
    Router,     \* servers that forward it
    Time,       \* readings of a clock, and client timestamps
    Ttl,        \* TTLs a writer may ask for (0: none)
    MaxIssued,  \* bound: sightings entered at one server
    MaxOffers,  \* bound: copies in flight
    MaxSaves,   \* bound: saves
    MaxLosses,  \* bound: sweeps, deletions and restarts that forget sightings
    Absent      \* what a server holds of a value it does not hold

ASSUME MirrorsAssumption ==
    /\ Mirror \subseteq Node /\ Router \subseteq Node
    /\ Mirror \cap Router = {}
    /\ Time \subseteq Nat /\ Ttl \subseteq Nat
    /\ MaxIssued \in Nat /\ MaxOffers \in Nat
    /\ MaxSaves \in Nat /\ MaxLosses \in Nat
    /\ Absent \notin Attribute

VARIABLES
    held,     \* held[m]: m's copy of the value, or Absent
    snap,     \* snap[m]: the copy in m's snapshot file
    dirty,    \* dirty[m]: m's shard is marked for the next save
    offers,   \* copies in flight between mirrors
    forward,  \* forward[r]: the write router r is passing along
    issued,   \* ghost: sightings entered at each server
    acked,    \* ghost: forwarded writes router r answered with success
    saves,    \* saves so far
    losses    \* steps so far that made a server forget sightings

vars == <<held, snap, dirty, offers, forward, issued, acked, saves, losses>>

Idle == [todo |-> {}, ok |-> FALSE, when |-> 0, ttl |-> 0, tags |-> {}]

Init ==
    /\ held = [m \in Mirror |-> Absent]
    /\ snap = [m \in Mirror |-> Absent]
    /\ dirty = [m \in Mirror |-> FALSE]
    /\ offers = {}
    /\ forward = [r \in Router |-> Idle]
    /\ issued = [n \in Node |-> 0]
    /\ acked = [r \in Router |-> 0]
    /\ saves = 0
    /\ losses = 0

\* The copy an operation on a possibly missing value starts from.
OrNew(a) == IF a = Absent THEN New ELSE a

\* Namespace::record, the TTL and the tags before the sighting itself.
Record(a, node, when, ttl, tags) ==
    LET b == OrNew(a)
    IN  Increment(AddTags([b EXCEPT !.ttl = IF ttl = 0 THEN @ ELSE ttl], tags),
                  node, when)

\* A client writes to a mirror, which counts the sighting as its own.
Write(m) ==
    /\ issued[m] < MaxIssued
    /\ \E when \in Time, ttl \in Ttl, tags \in SUBSET Tag :
          held' = [held EXCEPT ![m] = Record(@, m, when, ttl, tags)]
    /\ dirty' = [dirty EXCEPT ![m] = TRUE]
    /\ issued' = [issued EXCEPT ![m] = @ + 1]
    /\ UNCHANGED <<snap, offers, forward, acked, saves, losses>>

\* A client writes to a router, which picks the mirrors its last probes
\* found alive; with none alive the write is refused and nothing changes.
StartForward(r) ==
    /\ forward[r].todo = {}
    /\ issued[r] < MaxIssued
    /\ \E live \in (SUBSET Mirror) \ {{}}, when \in Time, ttl \in Ttl,
          tags \in SUBSET Tag :
          forward' = [forward EXCEPT ![r] = [todo |-> live, ok |-> FALSE,
                         when |-> when, ttl |-> ttl, tags |-> tags]]
    /\ issued' = [issued EXCEPT ![r] = @ + 1]
    /\ UNCHANGED <<held, snap, dirty, offers, acked, saves, losses>>

\* One send of forward_write.  The request is lost, applied with its answer
\* lost, or applied and answered; the client hears of success when at least
\* one mirror answered.
Outcome == {"lost", "unanswered", "answered"}

Send(r, m, outcome) ==
    LET f    == forward[r]
        ok   == f.ok \/ outcome = "answered"
        rest == f.todo \ {m}
    IN  /\ m \in f.todo
        /\ IF outcome = "lost" THEN UNCHANGED <<held, dirty>>
           ELSE /\ held' = [held EXCEPT
                             ![m] = Record(@, r, f.when, f.ttl, f.tags)]
                /\ dirty' = [dirty EXCEPT ![m] = TRUE]
        /\ forward' = [forward EXCEPT ![r] =
              IF rest = {} THEN Idle ELSE [f EXCEPT !.todo = rest, !.ok = ok]]
        /\ acked' = [acked EXCEPT ![r] = IF rest = {} /\ ok THEN @ + 1 ELSE @]
        /\ UNCHANGED <<snap, offers, issued, saves, losses>>

\* A mirror answers ?for_merge: an expired value is not offered.
Offer(p, m) ==
    /\ p # m
    /\ held[p] # Absent
    /\ \E now \in Time : ~IsExpired(held[p], now)
    /\ Cardinality(offers) < MaxOffers
    /\ offers' = offers \cup {[to |-> m, copy |-> held[p]]}
    /\ UNCHANGED <<held, snap, dirty, forward, issued, acked, saves, losses>>

\* POST /_api/merge, and a page of a pull: the shard is marked only when the
\* merge says it changed.  A copy the mirror refuses is one it never takes.
Take(o) ==
    LET m == o.to
        a == OrNew(held[m])
    IN  /\ held' = [held EXCEPT ![m] = Merge(a, o.copy, m)]
        /\ dirty' = [dirty EXCEPT ![m] = @ \/ Changed(a, o.copy, m)]
        /\ \/ UNCHANGED offers
           \/ offers' = offers \ {o}
        /\ UNCHANGED <<snap, forward, issued, acked, saves, losses>>

\* push_value: a copy goes to the mirrors believed alive, and reaches some of
\* them; a send that fails is reported and not repeated.
PushValue(copy, reached) ==
    /\ offers' = offers \cup {[to |-> m, copy |-> copy] : m \in reached}
    /\ Cardinality(offers') <= MaxOffers

\* The management interface replaces the tags of a value its server holds, and
\* the server pushes its copy (set_tags, spread_tags).
Retag(m) ==
    /\ held[m] # Absent
    /\ \E now \in Time, tags \in SUBSET Tag, reached \in SUBSET (Mirror \ {m}) :
          /\ ~IsExpired(held[m], now)
          /\ held' = [held EXCEPT ![m] = SetTags(@, tags, now)]
          /\ PushValue(SetTags(held[m], tags, now), reached)
    /\ dirty' = [dirty EXCEPT ![m] = TRUE]
    /\ UNCHANGED <<snap, forward, issued, acked, saves, losses>>

\* retagged_elsewhere: a router keeps no copy, so it changes one it asked a mirror
\* for and pushes that.  Its own clock dates the replacement, even when the copy
\* carries a later time.
RetagElsewhere(p) ==
    /\ held[p] # Absent
    /\ \E now \in Time, tags \in SUBSET Tag, reached \in SUBSET Mirror :
          /\ ~IsExpired(held[p], now)
          /\ PushValue([held[p] EXCEPT !.tags = tags, !.tags_at = now], reached)
    /\ UNCHANGED <<held, snap, dirty, forward, issued, acked, saves, losses>>

\* persistence::save of the shard, when it is marked.
Save(m) ==
    /\ dirty[m]
    /\ saves < MaxSaves
    /\ saves' = saves + 1
    /\ snap' = [snap EXCEPT ![m] = held[m]]
    /\ dirty' = [dirty EXCEPT ![m] = FALSE]
    /\ UNCHANGED <<held, offers, forward, issued, acked, losses>>

(***************************************************************************)
(* The ways a server forgets sightings: the sweeper reclaims an expired    *)
(* value, a namespace is deleted, the process restarts from its snapshot.  *)
(***************************************************************************)
Forget(m) ==
    /\ held[m] # Absent
    /\ held' = [held EXCEPT ![m] = Absent]
    /\ dirty' = [dirty EXCEPT ![m] = TRUE]
    /\ losses < MaxLosses
    /\ losses' = losses + 1
    /\ UNCHANGED <<snap, offers, forward, issued, acked, saves>>

Sweep(m) == /\ held[m] # Absent
            /\ \E now \in Time : IsExpired(held[m], now)
            /\ Forget(m)

Delete(m) == Forget(m)

Restart(m) ==
    /\ losses < MaxLosses
    /\ held' = [held EXCEPT ![m] = snap[m]]
    /\ dirty' = [dirty EXCEPT ![m] = FALSE]
    /\ losses' = losses + 1
    /\ UNCHANGED <<snap, offers, forward, issued, acked, saves>>

Next ==
    \/ \E m \in Mirror : Write(m) \/ Retag(m) \/ Save(m)
    \/ \E m \in Mirror : Sweep(m) \/ Delete(m) \/ Restart(m)
    \/ \E r \in Router : StartForward(r)
    \/ \E r \in Router, m \in Mirror, outcome \in Outcome : Send(r, m, outcome)
    \/ \E p \in Mirror : Router # {} /\ RetagElsewhere(p)
    \/ \E p, m \in Mirror : Offer(p, m)
    \/ \E o \in offers : Take(o)

Spec == Init /\ [][Next]_vars
-----------------------------------------------------------------------------
Message == [to : Mirror, copy : Attribute]

Forward == [todo : SUBSET Mirror, ok : BOOLEAN, when : Nat, ttl : Nat,
            tags : SUBSET Tag]

\* Every variable has the shape the code gives it; in particular a merge, a
\* sighting and a retag build a well-formed copy from well-formed ones.
TypeOK ==
    /\ held \in [Mirror -> Attribute \cup {Absent}]
    /\ snap \in [Mirror -> Attribute \cup {Absent}]
    /\ dirty \in [Mirror -> BOOLEAN]
    /\ offers \subseteq Message
    /\ forward \in [Router -> Forward]
    /\ issued \in [Node -> Nat]
    /\ acked \in [Router -> Nat]
    /\ saves \in Nat
    /\ losses \in Nat

\* No mirror ever reports more sightings of a server than were entered at it,
\* whatever copies were repeated, reordered, lost or taken from a mirror that
\* has since forgotten them (attribute.rs, the rule for counts).
NoOvercount ==
    \A m \in Mirror : held[m] # Absent =>
        \A n \in Node : held[m].counts[n] <= issued[n]

\* The inductive form of NoOvercount: the snapshots and the copies in flight
\* are backed by sightings too, since any of them can become what a mirror
\* holds (Restart and Take).
Backed(c) == c # Absent => \A n \in Node : c.counts[n] <= issued[n]

CountsBacked ==
    /\ \A m \in Mirror : Backed(held[m]) /\ Backed(snap[m])
    /\ \A o \in offers : Backed(o.copy)

\* While no server has forgotten anything, one exchange of copies leaves two
\* mirrors holding the same value, every field included.
ExchangeConverges ==
    \A a, b \in Mirror : held[a] # Absent /\ held[b] # Absent =>
        Merge(held[a], held[b], a) = Merge(held[b], held[a], b)

\* The inductive form of ExchangeConverges: every copy has been sighted, and
\* nobody knows more of a mirror's own sightings than the mirror itself.
Dominated(c) ==
    c # Absent =>
        /\ ~NeverCounted(c)
        /\ \A n \in Mirror :
              /\ c.counts[n] <= OrNew(held[n]).counts[n]
              /\ \A h \in Hour : c.stats[n][h] <= OrNew(held[n]).stats[n][h]

OwnDominates ==
    /\ \A m \in Mirror : Dominated(held[m])
    /\ \A o \in offers : Dominated(o.copy)

\* The copies on their way to a mirror, and those its peers would send it now.
Incoming(m) == {o.copy : o \in {p \in offers : p.to = m}}
                   \cup ({held[p] : p \in Mirror \ {m}} \ {Absent})

\* The copies a mirror is sent can be taken in either order, and each of them
\* twice, without changing what the mirror ends up with (Attribute::merge).
OrderFree ==
    \A m \in Mirror : \A c, d \in Incoming(m) :
        LET a == OrNew(held[m])
        IN  /\ Merge(Merge(a, c, m), d, m) = Merge(Merge(a, d, m), c, m)
            /\ Merge(Merge(a, c, m), c, m) = Merge(a, c, m)

\* A forwarded write that was acknowledged is on record somewhere: some
\* mirror's count of the router's sightings covers all those acknowledged.
AckedOnRecord ==
    \A r \in Router : acked[r] > 0 =>
        \E m \in Mirror : held[m] # Absent /\ held[m].counts[r] >= acked[r]
=============================================================================

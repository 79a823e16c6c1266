---------------------------- MODULE MirrorsProofs ----------------------------
(***************************************************************************)
(* Proofs about Mirrors, for every set of servers, times, TTLs and tags    *)
(* and every bound.                                                        *)
(***************************************************************************)
EXTENDS Mirrors, TLAPS

(***************************************************************************)
(* The operators of Attribute build well-formed copies.                    *)
(***************************************************************************)
\* A copy just made (Attribute::new) is well formed.
LEMMA NewType == New \in Attribute
BY DEF New, Attribute

\* trim_stats keeps buckets buckets.
LEMMA TrimType ==
    ASSUME NEW s \in [Hour -> Nat]
    PROVE  TrimStats(s) \in [Hour -> Nat]
BY DEF TrimStats

\* make_stats keeps buckets buckets.
LEMMA MakeStatsType ==
    ASSUME NEW s \in [Hour -> Nat], NEW when \in Nat
    PROVE  MakeStats(s, when) \in [Hour -> Nat]
BY DEF MakeStats

\* Attribute::increment makes a well-formed copy of a well-formed one.
LEMMA IncrementType ==
    ASSUME NEW a \in Attribute, NEW n \in Node, NEW when \in Nat
    PROVE  /\ Increment(a, n, when) \in Attribute
           /\ Increment(a, n, when).counts = [a.counts EXCEPT ![n] = @ + 1]
           /\ Increment(a, n, when).stats =
                [a.stats EXCEPT ![n] = TrimStats(MakeStats(@, when))]
<1>1. a.stats[n] \in [Hour -> Nat] /\ a.counts[n] \in Nat
  BY DEF Attribute
<1>2. TrimStats(MakeStats(a.stats[n], when)) \in [Hour -> Nat]
  BY <1>1, MakeStatsType, TrimType
<1>3. /\ (IF NeverCounted(a) THEN when ELSE Lesser(a.first_seen, when)) \in Int
      /\ (IF NeverCounted(a) THEN when ELSE Greater(a.last_seen, when)) \in Int
  BY DEF Attribute, Lesser, Greater
<1>4. [a.stats EXCEPT ![n] = TrimStats(MakeStats(@, when))]
        \in [Node -> [Hour -> Nat]]
  BY <1>1, <1>2 DEF Attribute
<1> QED
  BY <1>1, <1>3, <1>4 DEF Increment, Attribute

\* Attribute::merge of two well-formed copies is well formed.
LEMMA MergeType ==
    ASSUME NEW a \in Attribute, NEW c \in Attribute, NEW m \in Node
    PROVE  Merge(a, c, m) \in Attribute
<1>1. MergeCounts(a, c, m) \in [Node -> Nat]
  BY DEF MergeCounts, Attribute, Greater
<1>2. MergeStats(a, c, m) \in [Node -> [Hour -> Nat]]
  BY DEF MergeStats, Attribute, Greater
<1>3. MergeTags(a, c) \in SUBSET Tag
  BY DEF MergeTags, Attribute
<1>4. MergeTtl(a.ttl, c.ttl) \in Nat
  BY DEF MergeTtl, Attribute, Lesser
<1> QED
  BY <1>1, <1>2, <1>3, <1>4 DEF Merge, Attribute, Greater, Lesser

\* What a namespace finds or makes for a value is well formed.
LEMMA OrNewType ==
    ASSUME NEW a \in Attribute \cup {Absent}
    PROVE  OrNew(a) \in Attribute
BY NewType DEF OrNew

\* What a sighting of server n does to a copy, but for its window, tags and TTL.
OneMore(a, c, n, when) ==
    /\ c \in Attribute
    /\ \A k \in Node : c.counts[k] = IF k = n THEN a.counts[k] + 1 ELSE a.counts[k]
    /\ \A k \in Node : c.stats[k] = IF k = n THEN TrimStats(MakeStats(a.stats[k], when))
                                     ELSE a.stats[k]

\* Namespace::record leaves a well-formed copy, with one sighting more.
LEMMA RecordType ==
    ASSUME NEW a \in Attribute \cup {Absent}, NEW n \in Node, NEW when \in Nat,
           NEW ttl \in Nat, NEW tags \in SUBSET Tag
    PROVE  /\ Record(a, n, when, ttl, tags) \in Attribute
           /\ OneMore(OrNew(a), Record(a, n, when, ttl, tags), n, when)
<1> DEFINE b == OrNew(a)
           c == [b EXCEPT !.ttl = IF ttl = 0 THEN @ ELSE ttl]
           d == AddTags(c, tags)
<1>1. b \in Attribute
  BY OrNewType
<1> HIDE DEF b
<1>2. c \in Attribute /\ c.counts = b.counts /\ c.stats = b.stats
  BY <1>1, SMTT(20) DEF Attribute
<1> HIDE DEF c
<1>3. d \in Attribute /\ d.counts = c.counts /\ d.stats = c.stats
  BY <1>2 DEF Attribute, AddTags
<1> HIDE DEF d
<1>4. /\ Increment(d, n, when) \in Attribute
      /\ Increment(d, n, when).counts = [d.counts EXCEPT ![n] = @ + 1]
      /\ Increment(d, n, when).stats =
           [d.stats EXCEPT ![n] = TrimStats(MakeStats(@, when))]
  BY <1>3, IncrementType
<1>5. Record(a, n, when, ttl, tags) = Increment(d, n, when)
  BY DEF Record, b, c, d
<1>6. d.counts = OrNew(a).counts /\ d.stats = OrNew(a).stats
  BY <1>2, <1>3 DEF b
<1> QED
  BY <1>3, <1>4, <1>5, <1>6 DEF Attribute, OneMore

\* Attribute::set_tags leaves a well-formed copy.
LEMMA SetTagsType ==
    ASSUME NEW a \in Attribute, NEW tags \in SUBSET Tag, NEW at \in Nat
    PROVE  /\ SetTags(a, tags, at) \in Attribute
           /\ SetTags(a, tags, at).counts = a.counts
           /\ SetTags(a, tags, at).stats = a.stats
BY DEF SetTags, Attribute, Greater

(***************************************************************************)
(* Merging is idempotent, and the order of two merges does not matter as   *)
(* long as neither copy was first seen at the epoch, the one instant the   *)
(* code also uses as the mark of an unseen value.                          *)
(***************************************************************************)
\* The greater and the lesser do not depend on the order of what they are taken of
\* (the windows and counts of Attribute::merge).
LEMMA OrderLaws ==
    ASSUME NEW x \in Int, NEW y \in Int, NEW z \in Int
    PROVE  /\ Greater(x, y) = Greater(y, x) /\ Lesser(x, y) = Lesser(y, x)
           /\ Greater(Greater(x, y), z) = Greater(Greater(x, z), y)
           /\ Lesser(Lesser(x, y), z) = Lesser(Lesser(x, z), y)
BY DEF Greater, Lesser

\* The TTL rule of Attribute::merge is idempotent and takes copies in any order.
LEMMA MergeTtlLaws ==
    ASSUME NEW x \in Nat, NEW y \in Nat, NEW z \in Nat
    PROVE  /\ MergeTtl(x, y) \in Nat
           /\ MergeTtl(x, y) = MergeTtl(y, x)
           /\ MergeTtl(MergeTtl(x, y), y) = MergeTtl(x, y)
           /\ MergeTtl(MergeTtl(x, y), z) = MergeTtl(MergeTtl(x, z), y)
BY DEF MergeTtl, Lesser

\* Attribute::merge takes a copy it has merged before without changing anything:
\* a page of a catch-up may be delivered twice.
THEOREM MergeIdempotent ==
    ASSUME NEW a \in Attribute, NEW c \in Attribute, NEW m \in Node,
           c.first_seen # 0
    PROVE  Merge(Merge(a, c, m), c, m) = Merge(a, c, m)
<1> DEFINE d == Merge(a, c, m)
<1>1. d \in Attribute
  BY MergeType
<1>2. MergeCounts(d, c, m) = d.counts
  BY DEF MergeCounts, Merge, Greater, Attribute
<1>3. MergeStats(d, c, m) = d.stats
  BY DEF MergeStats, Merge, Greater, Attribute
<1>4. /\ (IF Unseen(d) THEN c.first_seen ELSE Lesser(d.first_seen, c.first_seen))
           = d.first_seen
      /\ (IF Unseen(d) THEN c.last_seen ELSE Greater(d.last_seen, c.last_seen))
           = d.last_seen
  <2>1. CASE Unseen(a)
    BY <2>1 DEF Merge, Lesser, Greater, Attribute
  <2>2. CASE ~Unseen(a)
    <3>1. /\ d.first_seen = Lesser(a.first_seen, c.first_seen)
          /\ d.last_seen = Greater(a.last_seen, c.last_seen)
      BY <2>2 DEF Merge
    <3>2. ~Unseen(d)
      \* What is unseen after the merge had no count before it either.
      <4>1. Unseen(d) => NeverCounted(a)
        BY DEF Unseen, NeverCounted, Merge, MergeCounts, Greater, Attribute
      <4> QED
        BY <4>1, <3>1, <2>2 DEF Unseen, Lesser, Attribute
    <3> QED
      BY <3>1, <3>2 DEF Lesser, Greater, Attribute
  <2> QED
    BY <2>1, <2>2
<1>5. MergeTags(d, c) = d.tags /\ Greater(d.tags_at, c.tags_at) = d.tags_at
  <2>1. /\ d.tags = MergeTags(a, c)
        /\ d.tags_at = Greater(a.tags_at, c.tags_at)
        /\ a.tags_at \in Nat /\ c.tags_at \in Nat
    BY DEF Merge, Attribute
  <2> HIDE DEF d
  <2>2. CASE c.tags_at > a.tags_at
    BY <2>1, <2>2 DEF MergeTags, Greater
  <2>3. CASE c.tags_at < a.tags_at
    BY <2>1, <2>3 DEF MergeTags, Greater
  <2>4. CASE c.tags_at = a.tags_at
    BY <2>1, <2>4 DEF MergeTags, Greater
  <2> QED
    BY <2>1, <2>2, <2>3, <2>4
<1>6. MergeTtl(d.ttl, c.ttl) = d.ttl
  <2>1. d.ttl = MergeTtl(a.ttl, c.ttl) /\ a.ttl \in Nat /\ c.ttl \in Nat
    BY DEF Merge, Attribute
  <2> QED
    BY <2>1, MergeTtlLaws
<1>7. Merge(d, c, m) =
        [counts |-> MergeCounts(d, c, m), stats |-> MergeStats(d, c, m),
         first_seen |-> IF Unseen(d) THEN c.first_seen
                        ELSE Lesser(d.first_seen, c.first_seen),
         last_seen |-> IF Unseen(d) THEN c.last_seen
                       ELSE Greater(d.last_seen, c.last_seen),
         tags |-> MergeTags(d, c), tags_at |-> Greater(d.tags_at, c.tags_at),
         ttl |-> MergeTtl(d.ttl, c.ttl)]
  BY DEF Merge
<1>8. d = [counts |-> d.counts, stats |-> d.stats, first_seen |-> d.first_seen,
           last_seen |-> d.last_seen, tags |-> d.tags, tags_at |-> d.tags_at,
           ttl |-> d.ttl]
  BY DEF Merge
<1>9. Merge(d, c, m) = d
  <2> HIDE DEF d
  <2> QED
    BY <1>2, <1>3, <1>4, <1>5, <1>6, <1>7, <1>8
<1> QED
  BY <1>9

\* The tag rule of Attribute::merge, case by case.
LEMMA MergeTagsCases ==
    ASSUME NEW a, NEW c, a.tags_at \in Nat, c.tags_at \in Nat
    PROVE  /\ c.tags_at > a.tags_at => MergeTags(a, c) = c.tags
           /\ c.tags_at < a.tags_at => MergeTags(a, c) = a.tags
           /\ c.tags_at = a.tags_at => MergeTags(a, c) = a.tags \cup c.tags
BY DEF MergeTags

\* The tag rule of Attribute::merge takes two copies in either order.
LEMMA MergeTagsCommute ==
    ASSUME NEW a \in Attribute, NEW x \in Attribute, NEW y \in Attribute,
           NEW d \in Attribute, NEW e \in Attribute,
           d.tags = MergeTags(a, x), d.tags_at = Greater(a.tags_at, x.tags_at),
           e.tags = MergeTags(a, y), e.tags_at = Greater(a.tags_at, y.tags_at)
    PROVE  MergeTags(d, y) = MergeTags(e, x)
<1>1. /\ a.tags_at \in Nat /\ x.tags_at \in Nat /\ y.tags_at \in Nat
  BY DEF Attribute
<1>2. CASE x.tags_at > a.tags_at
  BY <1>1, <1>2 DEF MergeTags, Greater
<1>3. CASE x.tags_at < a.tags_at
  BY <1>1, <1>3 DEF MergeTags, Greater
<1>4. CASE x.tags_at = a.tags_at
  BY <1>1, <1>4 DEF MergeTags, Greater
<1> QED
  BY <1>1, <1>2, <1>3, <1>4

\* Attribute::merge, field by field.
LEMMA MergeFields ==
    ASSUME NEW a, NEW c, NEW m
    PROVE  /\ Merge(a, c, m).counts = MergeCounts(a, c, m)
           /\ Merge(a, c, m).stats = MergeStats(a, c, m)
           /\ Merge(a, c, m).first_seen = IF Unseen(a) THEN c.first_seen
                                ELSE Lesser(a.first_seen, c.first_seen)
           /\ Merge(a, c, m).last_seen = IF Unseen(a) THEN c.last_seen
                               ELSE Greater(a.last_seen, c.last_seen)
           /\ Merge(a, c, m).tags = MergeTags(a, c)
           /\ Merge(a, c, m).tags_at = Greater(a.tags_at, c.tags_at)
           /\ Merge(a, c, m).ttl = MergeTtl(a.ttl, c.ttl)
BY DEF Merge

\* A copy merged in that was first seen after the epoch leaves nothing unseen.
LEMMA MergedIsSeen ==
    ASSUME NEW a \in Attribute, NEW c \in Attribute, NEW m \in Node,
           c.first_seen # 0
    PROVE  ~Unseen(Merge(a, c, m))
<1>1. CASE Unseen(a)
  BY <1>1, MergeFields DEF Unseen
<1>2. CASE ~Unseen(a)
  <2>1. Unseen(Merge(a, c, m)) => NeverCounted(a)
    BY DEF Unseen, NeverCounted, Merge, MergeCounts, Greater, Attribute
  <2>2. Merge(a, c, m).first_seen = Lesser(a.first_seen, c.first_seen)
    BY <1>2, MergeFields
  <2> QED
    BY <2>1, <2>2, <1>2 DEF Unseen, Lesser, Attribute
<1> QED
  BY <1>1, <1>2

\* Attribute::merge takes two copies in either order with one result: pages of a
\* catch-up may overtake each other.
THEOREM MergesCommute ==
    ASSUME NEW a \in Attribute, NEW x \in Attribute, NEW y \in Attribute,
           NEW m \in Node, x.first_seen # 0, y.first_seen # 0
    PROVE  Merge(Merge(a, x, m), y, m) = Merge(Merge(a, y, m), x, m)
<1> DEFINE d == Merge(a, x, m)
           e == Merge(a, y, m)
<1>1. d \in Attribute /\ e \in Attribute /\ ~Unseen(d) /\ ~Unseen(e)
  BY MergeType, MergedIsSeen
<1>2. /\ d.counts = MergeCounts(a, x, m) /\ e.counts = MergeCounts(a, y, m)
      /\ d.stats = MergeStats(a, x, m) /\ e.stats = MergeStats(a, y, m)
  BY MergeFields
<1>3. /\ d.tags = MergeTags(a, x) /\ d.tags_at = Greater(a.tags_at, x.tags_at)
      /\ e.tags = MergeTags(a, y) /\ e.tags_at = Greater(a.tags_at, y.tags_at)
      /\ d.ttl = MergeTtl(a.ttl, x.ttl) /\ e.ttl = MergeTtl(a.ttl, y.ttl)
  BY MergeFields
<1>4. /\ d.first_seen = IF Unseen(a) THEN x.first_seen
                        ELSE Lesser(a.first_seen, x.first_seen)
      /\ d.last_seen = IF Unseen(a) THEN x.last_seen
                       ELSE Greater(a.last_seen, x.last_seen)
      /\ e.first_seen = IF Unseen(a) THEN y.first_seen
                        ELSE Lesser(a.first_seen, y.first_seen)
      /\ e.last_seen = IF Unseen(a) THEN y.last_seen
                       ELSE Greater(a.last_seen, y.last_seen)
  BY MergeFields
<1>5. \A c \in {a, x, y} :
        /\ c.counts \in [Node -> Nat] /\ c.stats \in [Node -> [Hour -> Nat]]
        /\ c.first_seen \in Int /\ c.last_seen \in Int
        /\ c.tags_at \in Nat /\ c.ttl \in Nat
  BY DEF Attribute
<1>6. Merge(d, y, m) = Merge(e, x, m)
  <2> HIDE DEF d, e
  <2>1. MergeCounts(d, y, m) = MergeCounts(e, x, m)
    <3>1. \A n \in Node : /\ a.counts[n] \in Int /\ x.counts[n] \in Int
                          /\ y.counts[n] \in Int
      BY <1>5
    <3> QED
      BY <1>2, <3>1, OrderLaws DEF MergeCounts
  <2>2. MergeStats(d, y, m) = MergeStats(e, x, m)
    <3>1. \A n \in Node, h \in Hour :
             a.stats[n][h] \in Int /\ x.stats[n][h] \in Int /\ y.stats[n][h] \in Int
      BY <1>5
    <3> QED
      BY <1>2, <3>1, OrderLaws DEF MergeStats
  <2>3. /\ Lesser(d.first_seen, y.first_seen) = Lesser(e.first_seen, x.first_seen)
        /\ Greater(d.last_seen, y.last_seen) = Greater(e.last_seen, x.last_seen)
    BY <1>4, <1>5, OrderLaws
  <2>4. MergeTags(d, y) = MergeTags(e, x)
    BY <1>1, <1>3, MergeTagsCommute
  <2>5. Greater(d.tags_at, y.tags_at) = Greater(e.tags_at, x.tags_at)
    BY <1>3, <1>5, OrderLaws
  <2>6. MergeTtl(d.ttl, y.ttl) = MergeTtl(e.ttl, x.ttl)
    BY <1>3, <1>5, MergeTtlLaws
  <2> QED
    BY <1>1, <2>1, <2>2, <2>3, <2>4, <2>5, <2>6 DEF Merge
<1> QED
  BY <1>6

(***************************************************************************)
(* Type correctness.                                                       *)
(***************************************************************************)
\* The servers start well formed.
LEMMA InitType == Init => TypeOK
BY MirrorsAssumption DEF Init, TypeOK, Idle, Forward

\* What push_value adds to the copies in flight is the copy it is given.
LEMMA Pushed ==
    ASSUME NEW copy, NEW reached \in SUBSET Mirror, PushValue(copy, reached)
    PROVE  \A o \in offers' : o \in offers \/ o.copy = copy
BY DEF PushValue

\* Pushing a well-formed copy leaves well-formed copies in flight.
LEMMA PushedType ==
    ASSUME NEW copy \in Attribute, NEW reached \in SUBSET Mirror,
           offers \subseteq Message, PushValue(copy, reached)
    PROVE  offers' \subseteq Message
BY DEF PushValue, Message

\* Every step leaves the servers well formed.
LEMMA NextType == TypeOK /\ [Next]_vars => TypeOK'
<1> SUFFICES ASSUME TypeOK, [Next]_vars PROVE TypeOK'
  OBVIOUS
<1> USE MirrorsAssumption
<1>1. ASSUME NEW m \in Mirror, Write(m) PROVE TypeOK'
  <2>1. PICK when \in Time, ttl \in Ttl, tags \in SUBSET Tag :
          held' = [held EXCEPT ![m] = Record(@, m, when, ttl, tags)]
    BY <1>1 DEF Write
  <2>2. held[m] \in Attribute \cup {Absent} /\ m \in Node /\ when \in Nat /\ ttl \in Nat
    BY DEF TypeOK
  <2>3. Record(held[m], m, when, ttl, tags) \in Attribute
    BY <2>2, RecordType
  <2> QED
    BY <1>1, <2>1, <2>3 DEF TypeOK, Write
<1>2. ASSUME NEW m \in Mirror, Retag(m) PROVE TypeOK'
  <2>1. PICK now \in Time, tags \in SUBSET Tag, reached \in SUBSET (Mirror \ {m}) :
          /\ held' = [held EXCEPT ![m] = SetTags(@, tags, now)]
          /\ PushValue(SetTags(held[m], tags, now), reached)
    BY <1>2 DEF Retag
  <2>2. held[m] \in Attribute
    BY <1>2 DEF TypeOK, Retag
  <2>3. SetTags(held[m], tags, now) \in Attribute
    BY <2>2, SetTagsType
  <2>4. offers' \subseteq Message
    BY <2>1, <2>3, PushedType DEF TypeOK
  <2> QED
    BY <1>2, <2>1, <2>3, <2>4 DEF TypeOK, Retag
<1>3. ASSUME NEW m \in Mirror, Save(m) PROVE TypeOK'
  BY <1>3 DEF TypeOK, Save
<1>4. ASSUME NEW m \in Mirror, Forget(m) PROVE TypeOK'
  BY <1>4 DEF TypeOK, Forget
<1>5. ASSUME NEW m \in Mirror, Restart(m) PROVE TypeOK'
  BY <1>5 DEF TypeOK, Restart
<1>6. ASSUME NEW r \in Router, StartForward(r) PROVE TypeOK'
  BY <1>6 DEF TypeOK, StartForward, Forward
<1>7. ASSUME NEW r \in Router, NEW m \in Mirror, NEW outcome \in Outcome,
             Send(r, m, outcome)
      PROVE  TypeOK'
  <2> DEFINE f == forward[r]
  <2>1. f \in Forward
    BY DEF TypeOK
  <2>2. Record(held[m], r, f.when, f.ttl, f.tags) \in Attribute
    BY <2>1, RecordType DEF TypeOK, Forward
  <2>3. held' \in [Mirror -> Attribute \cup {Absent}] /\ dirty' \in [Mirror -> BOOLEAN]
    BY <1>7, <2>2 DEF TypeOK, Send
  <2>4. /\ Idle \in Forward
        /\ [f EXCEPT !.todo = f.todo \ {m}, !.ok = f.ok \/ outcome = "answered"]
             \in Forward
    BY <2>1 DEF Idle, Forward
  <2>5. forward' \in [Router -> Forward] /\ acked' \in [Router -> Nat]
    BY <1>7, <2>4 DEF TypeOK, Send
  <2> QED
    BY <1>7, <2>3, <2>5 DEF TypeOK, Send
<1>8. ASSUME NEW p \in Mirror, NEW m \in Mirror, Offer(p, m) PROVE TypeOK'
  BY <1>8 DEF TypeOK, Offer, Message
<1>9. ASSUME NEW o \in offers, Take(o) PROVE TypeOK'
  <2>1. o.to \in Mirror /\ o.copy \in Attribute
    BY DEF TypeOK, Message
  <2>2. OrNew(held[o.to]) \in Attribute
    BY <2>1, OrNewType DEF TypeOK
  <2>3. /\ Merge(OrNew(held[o.to]), o.copy, o.to) \in Attribute
        /\ Changed(OrNew(held[o.to]), o.copy, o.to) \in BOOLEAN
    BY <2>1, <2>2, MergeType DEF Changed
  <2> QED
    BY <1>9, <2>1, <2>3 DEF TypeOK, Take
<1>10. ASSUME NEW p \in Mirror, RetagElsewhere(p) PROVE TypeOK'
  <2>1. PICK now \in Time, tags \in SUBSET Tag, reached \in SUBSET Mirror :
          PushValue([held[p] EXCEPT !.tags = tags, !.tags_at = now], reached)
    BY <1>10 DEF RetagElsewhere
  <2>2. held[p] \in Attribute
    BY <1>10 DEF TypeOK, RetagElsewhere
  <2>3. [held[p] EXCEPT !.tags = tags, !.tags_at = now] \in Attribute
    BY <2>2 DEF Attribute
  <2>4. offers' \subseteq Message
    BY <2>1, <2>3, PushedType DEF TypeOK
  <2> QED
    BY <1>10, <2>4 DEF TypeOK, RetagElsewhere
<1>11. CASE UNCHANGED vars
  BY <1>11 DEF TypeOK, vars
<1> QED
  BY <1>1, <1>2, <1>3, <1>4, <1>5, <1>6, <1>7, <1>8, <1>9, <1>10, <1>11
     DEF Next, Sweep, Delete

\* Every reachable state is well formed: a sighting, a retag and a merge never
\* build anything but a copy (Namespace::record, retag and merge in db.rs).
THEOREM TypeCorrect == Spec => []TypeOK
BY InitType, NextType, PTL DEF Spec

(***************************************************************************)
(* No overcounting, where every sighting is entered at a mirror: nothing a *)
(* mirror holds, has saved or is sent claims more sightings of a server    *)
(* than were entered there.                                                *)
(***************************************************************************)
\* Nothing has been counted at the start.
LEMMA InitBacked == Init => CountsBacked
BY DEF Init, CountsBacked, Backed

\* Without routers every step keeps all counts backed by sightings entered: the
\* count of a server rises with what was entered there, and merge takes no more.
LEMMA NextBacked ==
    ASSUME Router = {}, TypeOK, CountsBacked, [Next]_vars
    PROVE  CountsBacked'
<1> USE MirrorsAssumption
<1>1. ASSUME NEW m \in Mirror, Write(m) PROVE CountsBacked'
  <2>1. PICK when \in Time, ttl \in Ttl, tags \in SUBSET Tag :
          held' = [held EXCEPT ![m] = Record(@, m, when, ttl, tags)]
    BY <1>1 DEF Write
  <2> DEFINE c == Record(held[m], m, when, ttl, tags)
  <2>2. \A k \in Node : c.counts[k] = IF k = m THEN OrNew(held[m]).counts[k] + 1
                                      ELSE OrNew(held[m]).counts[k]
    <3>1. /\ held[m] \in Attribute \cup {Absent} /\ m \in Node
          /\ when \in Nat /\ ttl \in Nat
      BY DEF TypeOK
    <3>2. OneMore(OrNew(held[m]), c, m, when)
      BY <3>1, RecordType
    <3> QED
      BY <3>2 DEF OneMore
  <2>3. \A n \in Node : OrNew(held[m]).counts[n] <= issued[n]
    BY SMTT(40) DEF OrNew, New, CountsBacked, Backed, TypeOK
  <2>4. OrNew(held[m]).counts \in [Node -> Nat]
    BY OrNewType DEF TypeOK, Attribute
  <2> HIDE DEF c
  <2>5. issued' = [issued EXCEPT ![m] = @ + 1] /\ issued \in [Node -> Nat]
    BY <1>1 DEF Write, TypeOK
  <2>6. \A n \in Node : c.counts[n] <= issued'[n]
    BY <2>2, <2>3, <2>4, <2>5
  <2>7. \A n \in Node : issued[n] <= issued'[n]
    BY <2>5
  <2>8. ASSUME NEW x \in Attribute \cup {Absent},
               x # Absent => \A n \in Node : x.counts[n] <= issued[n]
        PROVE  x # Absent => \A n \in Node : x.counts[n] <= issued'[n]
    BY <2>5, <2>7, <2>8 DEF Attribute
  <2>9. \A k \in Mirror : Backed(held[k])'
    BY <2>1, <2>6, <2>8 DEF CountsBacked, Backed, TypeOK, c
  <2>10. \A k \in Mirror : Backed(snap[k])'
    BY <1>1, <2>8 DEF Write, CountsBacked, Backed, TypeOK
  <2>11. \A o \in offers' : Backed(o.copy)'
    BY <1>1, <2>8 DEF Write, CountsBacked, Backed, TypeOK, Message
  <2> QED
    BY <2>9, <2>10, <2>11 DEF CountsBacked
<1>2. ASSUME NEW m \in Mirror, Retag(m) PROVE CountsBacked'
  <2>1. PICK now \in Time, tags \in SUBSET Tag, reached \in SUBSET (Mirror \ {m}) :
          /\ held' = [held EXCEPT ![m] = SetTags(@, tags, now)]
          /\ PushValue(SetTags(held[m], tags, now), reached)
    BY <1>2 DEF Retag
  <2> DEFINE c == SetTags(held[m], tags, now)
  <2>2. held[m] \in Attribute /\ held[m] # Absent
    BY <1>2 DEF Retag, TypeOK
  <2>3. c.counts = held[m].counts
    BY <2>2, SetTagsType
  <2>4. \A o \in offers' : o \in offers \/ o.copy = c
    BY <2>1, Pushed
  <2>5. held' = [held EXCEPT ![m] = c] /\ UNCHANGED <<snap, issued>>
    BY <1>2, <2>1 DEF Retag
  <2> HIDE DEF c
  <2>6. \A n \in Node : c.counts[n] <= issued[n]
    BY <2>2, <2>3 DEF CountsBacked, Backed
  <2> QED
    BY <2>4, <2>5, <2>6, SMTT(40) DEF CountsBacked, Backed, TypeOK
<1>3. ASSUME NEW m \in Mirror, Save(m) PROVE CountsBacked'
  BY <1>3 DEF Save, CountsBacked, Backed, TypeOK
<1>4. ASSUME NEW m \in Mirror, Forget(m) PROVE CountsBacked'
  BY <1>4 DEF Forget, CountsBacked, Backed, TypeOK
<1>5. ASSUME NEW m \in Mirror, Restart(m) PROVE CountsBacked'
  BY <1>5 DEF Restart, CountsBacked, Backed, TypeOK
<1>6. ASSUME NEW p \in Mirror, NEW m \in Mirror, Offer(p, m) PROVE CountsBacked'
  BY <1>6, SMTT(40) DEF Offer, CountsBacked, Backed, TypeOK
<1>7. ASSUME NEW o \in offers, Take(o) PROVE CountsBacked'
  <2> DEFINE a == OrNew(held[o.to])
             c == Merge(a, o.copy, o.to)
  <2>1. o.to \in Mirror /\ o.copy \in Attribute /\ o.copy # Absent
    BY DEF TypeOK, Message
  <2>2. a \in Attribute
    BY <2>1, OrNewType DEF TypeOK
  <2>3. \A n \in Node : a.counts[n] <= issued[n] /\ o.copy.counts[n] <= issued[n]
    BY <2>1, SMTT(40) DEF OrNew, New, CountsBacked, Backed, TypeOK
  <2>4. c.counts = MergeCounts(a, o.copy, o.to)
    BY DEF Merge
  <2> HIDE DEF a, c
  <2>5. \A n \in Node : c.counts[n] <= issued[n]
    BY <2>1, <2>2, <2>3, <2>4 DEF MergeCounts, Greater, Attribute
  <2>6. held' = [held EXCEPT ![o.to] = c] /\ offers' \subseteq offers
        /\ UNCHANGED <<snap, issued>>
    BY <1>7 DEF Take, a, c
  <2> QED
    BY <2>1, <2>5, <2>6 DEF CountsBacked, Backed, TypeOK
<1>8. CASE UNCHANGED vars
  BY <1>8 DEF CountsBacked, Backed, vars
<1> QED
  BY <1>1, <1>2, <1>3, <1>4, <1>5, <1>6, <1>7, <1>8 DEF Next, Sweep, Delete

\* However copies are repeated, reordered or taken from a mirror that has
\* since restarted or forgotten the value, merging by the greater count never
\* invents a sighting (Attribute::merge).
THEOREM NeverOvercounts ==
    ASSUME Router = {} PROVE Spec => []NoOvercount
<1>1. TypeOK /\ CountsBacked /\ [Next]_vars => (TypeOK /\ CountsBacked)'
  BY NextType, NextBacked
<1>2. CountsBacked => NoOvercount
  BY DEF CountsBacked, Backed, NoOvercount
<1> QED
  BY InitType, InitBacked, <1>1, <1>2, PTL DEF Spec

(***************************************************************************)
(* Convergence.  With every bucket kept and nothing forgotten, a mirror's  *)
(* own entries only rise, so they dominate every copy of them.             *)
(***************************************************************************)
\* c counts for server n at least what a does, and for the others the same.
Rises(a, c, n) ==
    /\ c \in Attribute /\ c # Absent /\ ~NeverCounted(c)
    /\ \A k \in Node :
         /\ a.counts[k] <= c.counts[k]
         /\ \A h \in Hour : a.stats[k][h] <= c.stats[k][h]
         /\ k # n => c.counts[k] = a.counts[k] /\ c.stats[k] = a.stats[k]

\* Namespace::record lowers neither a count nor a bucket.
LEMMA RecordRises ==
    ASSUME Retention = 0, NEW a \in Attribute \cup {Absent}, NEW n \in Node,
           NEW when \in Nat, NEW ttl \in Nat, NEW tags \in SUBSET Tag
    PROVE  Rises(OrNew(a), Record(a, n, when, ttl, tags), n)
<1> DEFINE c == Record(a, n, when, ttl, tags)
<1>1. /\ c \in Attribute
      /\ \A k \in Node : c.counts[k] =
            IF k = n THEN OrNew(a).counts[k] + 1 ELSE OrNew(a).counts[k]
      /\ \A k \in Node : c.stats[k] =
            IF k = n THEN TrimStats(MakeStats(OrNew(a).stats[k], when))
            ELSE OrNew(a).stats[k]
  <2>1. OneMore(OrNew(a), c, n, when)
    BY RecordType
  <2> QED
    BY <2>1 DEF OneMore
<1>2. /\ \A k \in Node : OrNew(a).counts[k] \in Nat
      /\ \A k \in Node : OrNew(a).stats[k] \in [Hour -> Nat]
  BY OrNewType DEF Attribute
<1> HIDE DEF c
<1>3. c # Absent
  BY <1>1, MirrorsAssumption
<1>4. ~NeverCounted(c)
  BY <1>1, <1>2 DEF NeverCounted
<1>5. \A k \in Node : OrNew(a).counts[k] <= c.counts[k]
  BY <1>1, <1>2
<1>6. \A k \in Node, h \in Hour : OrNew(a).stats[k][h] <= c.stats[k][h]
  <2>1. \A s \in [Hour -> Nat] :
          /\ TrimStats(MakeStats(s, when)) = MakeStats(s, when)
          /\ \A h \in Hour : s[h] <= MakeStats(s, when)[h]
    BY DEF TrimStats, MakeStats
  <2>2. ASSUME NEW k \in Node, NEW h \in Hour
        PROVE  OrNew(a).stats[k][h] <= c.stats[k][h]
    <3>1. CASE k = n
      BY <1>1, <1>2, <2>1, <3>1
    <3>2. CASE k # n
      BY <1>1, <1>2, <3>2
    <3> QED
      BY <3>1, <3>2
  <2> QED
    BY <2>2
<1>7. Rises(OrNew(a), c, n)
  BY <1>1, <1>3, <1>4, <1>5, <1>6 DEF Rises
<1> QED
  BY <1>7 DEF c

\* What a step that only raises one mirror's copy does to what it dominates.
LEMMA RisingKeepsDominated ==
    ASSUME TypeOK, TypeOK', NEW m \in Mirror,
           \A k \in Mirror \ {m} : held'[k] = held[k],
           \A n \in Mirror : OrNew(held[m]).counts[n] <= OrNew(held'[m]).counts[n],
           \A n \in Mirror, h \in Hour :
              OrNew(held[m]).stats[n][h] <= OrNew(held'[m]).stats[n][h],
           NEW c \in Attribute \cup {Absent}, Dominated(c)
    PROVE  Dominated(c)'
<1> USE MirrorsAssumption
<1>0. c # Absent => ~NeverCounted(c)
  BY DEF Dominated
<1> SUFFICES ASSUME c # Absent, NEW n \in Mirror
             PROVE  /\ c.counts[n] <= OrNew(held'[n]).counts[n]
                    /\ \A h \in Hour : c.stats[n][h] <= OrNew(held'[n]).stats[n][h]
  BY <1>0 DEF Dominated, OrNew
<1>1. /\ c.counts[n] <= OrNew(held[n]).counts[n]
      /\ \A h \in Hour : c.stats[n][h] <= OrNew(held[n]).stats[n][h]
  BY DEF Dominated
<1>2. OrNew(held[n]) \in Attribute /\ OrNew(held'[n]) \in Attribute
  BY OrNewType DEF TypeOK
<1>3. CASE n # m
  BY <1>1, <1>3
<1>4. CASE n = m
  <2> DEFINE d == OrNew(held[n])
             e == OrNew(held'[n])
  <2>1. /\ c.counts[n] <= d.counts[n] /\ d.counts[n] <= e.counts[n]
        /\ \A h \in Hour : c.stats[n][h] <= d.stats[n][h] /\ d.stats[n][h] <= e.stats[n][h]
    BY <1>1, <1>4
  <2>2. c \in Attribute /\ d \in Attribute /\ e \in Attribute
    BY <1>2
  <2> HIDE DEF d, e
  <2>3. /\ c.counts[n] \in Nat /\ d.counts[n] \in Nat /\ e.counts[n] \in Nat
        /\ \A h \in Hour : /\ c.stats[n][h] \in Nat /\ d.stats[n][h] \in Nat
                           /\ e.stats[n][h] \in Nat
    <3>1. n \in Node
      OBVIOUS
    <3>2. ASSUME NEW x \in Attribute
          PROVE  x.counts[n] \in Nat /\ \A h \in Hour : x.stats[n][h] \in Nat
      BY <3>1 DEF Attribute
    <3> QED
      BY <2>2, <3>2
  <2>4. c.counts[n] <= e.counts[n] /\ \A h \in Hour : c.stats[n][h] <= e.stats[n][h]
    BY <2>1, <2>3
  <2> QED
    BY <2>4 DEF e
<1> QED
  BY <1>3, <1>4

\* A value just made has nothing that its owner could lack.
LEMMA OrNewDominated ==
    ASSUME TypeOK, OwnDominates, NEW m \in Mirror, NEW n \in Mirror
    PROVE  /\ OrNew(held[m]).counts[n] <= OrNew(held[n]).counts[n]
           /\ \A h \in Hour : OrNew(held[m]).stats[n][h] <= OrNew(held[n]).stats[n][h]
<1>1. CASE held[m] = Absent
  <2>1. OrNew(held[n]) \in Attribute /\ n \in Node
    BY OrNewType, MirrorsAssumption DEF TypeOK
  <2>2. /\ OrNew(held[m]).counts[n] = 0
        /\ \A h \in Hour : OrNew(held[m]).stats[n][h] = 0
    BY <1>1, <2>1 DEF OrNew, New
  <2>3. /\ OrNew(held[n]).counts[n] \in Nat
        /\ \A h \in Hour : OrNew(held[n]).stats[n][h] \in Nat
    BY <2>1 DEF Attribute
  <2> QED
    BY <2>2, <2>3
<1>2. CASE held[m] # Absent
  BY <1>2 DEF OrNew, OwnDominates, Dominated
<1> QED
  BY <1>1, <1>2

\* At the start there are no copies to be dominated.
LEMMA InitDominates == Init => OwnDominates
BY DEF Init, OwnDominates, Dominated

\* Every step keeps the entries of a server for itself ahead of every copy of
\* them, if nothing is trimmed or forgotten.
LEMMA NextDominates ==
    ASSUME Retention = 0, MaxLosses = 0, TypeOK, TypeOK', OwnDominates, [Next]_vars
    PROVE  OwnDominates'
<1> USE MirrorsAssumption
\* Every step below raises one copy; this is what is left to show of it.
<1>0. ASSUME NEW m \in Mirror, NEW c \in Attribute, c # Absent,
             held' = [held EXCEPT ![m] = c],
             \A o \in offers' : o \in offers \/ o.copy = c,
             ~NeverCounted(c),
             \A n \in Mirror : /\ OrNew(held[m]).counts[n] <= c.counts[n]
                               /\ \A h \in Hour :
                                    OrNew(held[m]).stats[n][h] <= c.stats[n][h],
             \A n \in Mirror \ {m} : /\ c.counts[n] <= OrNew(held[n]).counts[n]
                                     /\ \A h \in Hour :
                                          c.stats[n][h] <= OrNew(held[n]).stats[n][h]
      PROVE  OwnDominates'
  <2>1. held'[m] = c /\ OrNew(held'[m]) = c /\ \A k \in Mirror \ {m} : held'[k] = held[k]
    BY <1>0 DEF TypeOK, OrNew
  <2>2. \A x \in Attribute \cup {Absent} : Dominated(x) => Dominated(x)'
    BY <1>0, <2>1, RisingKeepsDominated
  <2>3. \A k \in Mirror \ {m} : Dominated(held[k])'
    BY <2>1, <2>2 DEF OwnDominates, Dominated, TypeOK
  <2>4. Dominated(held[m])'
    <3>1. \A n \in Mirror : /\ c.counts[n] <= OrNew(held'[n]).counts[n]
                            /\ \A h \in Hour : c.stats[n][h] <= OrNew(held'[n]).stats[n][h]
      <4>1. \A h \in Hour : c.counts[m] <= c.counts[m] /\ c.stats[m][h] <= c.stats[m][h]
        BY DEF Attribute
      <4>2. c.counts[m] <= c.counts[m]
        BY DEF Attribute
      <4>3. ASSUME NEW n \in Mirror \ {m}
            PROVE  OrNew(held'[n]) = OrNew(held[n])
        BY <2>1
      <4> QED
        BY <1>0, <2>1, <4>1, <4>2, <4>3
    <3> QED
      BY <1>0, <2>1, <3>1 DEF Dominated
  <2>5. \A o \in offers' : Dominated(o.copy)'
    <3>1. ASSUME NEW o \in offers, o \in offers' PROVE Dominated(o.copy)'
      BY <2>2, <3>1 DEF OwnDominates, TypeOK, Message
    <3>2. ASSUME NEW o \in offers', o.copy = c PROVE Dominated(o.copy)'
      BY <2>1, <2>4, <3>2 DEF Dominated
    <3> QED
      BY <1>0, <3>1, <3>2
  <2> QED
    BY <2>3, <2>4, <2>5 DEF OwnDominates
<1>1. ASSUME NEW m \in Mirror, Write(m) PROVE OwnDominates'
  <2>1. PICK when \in Time, ttl \in Ttl, tags \in SUBSET Tag :
          held' = [held EXCEPT ![m] = Record(@, m, when, ttl, tags)]
    BY <1>1 DEF Write
  <2> DEFINE c == Record(held[m], m, when, ttl, tags)
  <2>2. /\ held[m] \in Attribute \cup {Absent} /\ m \in Node
        /\ when \in Nat /\ ttl \in Nat
    BY DEF TypeOK
  <2>3. /\ c \in Attribute /\ c # Absent /\ ~NeverCounted(c)
        /\ \A k \in Node :
             /\ OrNew(held[m]).counts[k] <= c.counts[k]
             /\ \A h \in Hour : OrNew(held[m]).stats[k][h] <= c.stats[k][h]
             /\ k # m => /\ c.counts[k] = OrNew(held[m]).counts[k]
                         /\ c.stats[k] = OrNew(held[m]).stats[k]
    <3>1. Rises(OrNew(held[m]), c, m)
      BY <2>2, RecordRises
    <3> QED
      BY <3>1 DEF Rises
  <2>4. held' = [held EXCEPT ![m] = c]
    BY <2>1
  <2> HIDE DEF c
  <2>5. \A n \in Mirror : /\ OrNew(held[m]).counts[n] <= OrNew(held[n]).counts[n]
                          /\ \A h \in Hour : OrNew(held[m]).stats[n][h]
                                               <= OrNew(held[n]).stats[n][h]
    BY OrNewDominated
  <2>6. \A n \in Mirror \ {m} :
           /\ c.counts[n] <= OrNew(held[n]).counts[n]
           /\ \A h \in Hour : c.stats[n][h] <= OrNew(held[n]).stats[n][h]
    BY <2>3, <2>5
  <2>7. offers' \subseteq offers
    BY <1>1 DEF Write
  <2> QED
    BY <1>0, <2>3, <2>4, <2>6, <2>7
<1>2. ASSUME NEW r \in Router, NEW m \in Mirror, NEW outcome \in Outcome,
             Send(r, m, outcome)
      PROVE  OwnDominates'
  <2> DEFINE f == forward[r]
             c == Record(held[m], r, f.when, f.ttl, f.tags)
  <2>1. CASE outcome = "lost"
    BY <1>2, <2>1 DEF Send, OwnDominates, Dominated
  <2>2. CASE outcome # "lost"
    <3>1. /\ held[m] \in Attribute \cup {Absent} /\ r \in Node
          /\ f.when \in Nat /\ f.ttl \in Nat /\ f.tags \in SUBSET Tag
      BY DEF TypeOK, Forward
    <3>2. /\ c \in Attribute /\ c # Absent /\ ~NeverCounted(c)
          /\ \A k \in Node :
               /\ OrNew(held[m]).counts[k] <= c.counts[k]
               /\ \A h \in Hour : OrNew(held[m]).stats[k][h] <= c.stats[k][h]
               /\ k # r => /\ c.counts[k] = OrNew(held[m]).counts[k]
                           /\ c.stats[k] = OrNew(held[m]).stats[k]
      <4>1. Rises(OrNew(held[m]), c, r)
        BY <3>1, RecordRises
      <4> QED
        BY <4>1 DEF Rises
    <3>3. held' = [held EXCEPT ![m] = c] /\ offers' \subseteq offers
      BY <1>2, <2>2 DEF Send
    <3> HIDE DEF c
    <3>4. \A n \in Mirror : /\ OrNew(held[m]).counts[n] <= OrNew(held[n]).counts[n]
                            /\ \A h \in Hour : OrNew(held[m]).stats[n][h]
                                                 <= OrNew(held[n]).stats[n][h]
      BY OrNewDominated
    <3>5. \A n \in Mirror \ {m} :
             /\ c.counts[n] <= OrNew(held[n]).counts[n]
             /\ \A h \in Hour : c.stats[n][h] <= OrNew(held[n]).stats[n][h]
      BY <3>2, <3>4
    <3> QED
      BY <1>0, <3>2, <3>3, <3>5
  <2> QED
    BY <2>1, <2>2
<1>3. ASSUME NEW o \in offers, Take(o) PROVE OwnDominates'
  <2> DEFINE m == o.to
             a == OrNew(held[m])
             c == Merge(a, o.copy, m)
  <2>1. m \in Mirror /\ o.copy \in Attribute /\ o.copy # Absent
    BY DEF TypeOK, Message
  <2>2. a \in Attribute /\ c \in Attribute /\ c # Absent
    <3>1. held[m] \in Attribute \cup {Absent} /\ m \in Node
      BY <2>1 DEF TypeOK
    <3>2. a \in Attribute
      BY <3>1, OrNewType
    <3> HIDE DEF a
    <3>3. c \in Attribute
      BY <2>1, <3>1, <3>2, MergeType
    <3> QED
      BY <3>2, <3>3
  <2>3. c.counts = MergeCounts(a, o.copy, m) /\ c.stats = MergeStats(a, o.copy, m)
    BY DEF Merge
  <2>4. held' = [held EXCEPT ![m] = c] /\ offers' \subseteq offers
    BY <1>3 DEF Take
  <2>5. /\ ~NeverCounted(o.copy)
        /\ \A n \in Mirror :
              /\ o.copy.counts[n] <= OrNew(held[n]).counts[n]
              /\ \A h \in Hour : o.copy.stats[n][h] <= OrNew(held[n]).stats[n][h]
    BY <2>1 DEF OwnDominates, Dominated
  <2>6. \A n \in Mirror : /\ a.counts[n] <= OrNew(held[n]).counts[n]
                          /\ \A h \in Hour : a.stats[n][h] <= OrNew(held[n]).stats[n][h]
    BY <2>1, OrNewDominated
  <2>7. o.copy.counts[m] <= a.counts[m]
    BY <2>1, <2>5
  <2> HIDE DEF a, c
  <2>8. ~NeverCounted(c)
    <3>1. PICK n \in Node : o.copy.counts[n] # 0
      BY <2>5 DEF NeverCounted
    <3>2. a.counts[n] \in Nat /\ o.copy.counts[n] \in Nat
      BY <2>1, <2>2 DEF Attribute
    <3>3. c.counts[n] = IF n = m THEN a.counts[n]
                        ELSE Greater(a.counts[n], o.copy.counts[n])
      BY <2>3 DEF MergeCounts
    <3>4. c.counts[n] # 0
      BY <3>1, <3>2, <3>3, <2>7 DEF Greater
    <3> QED
      BY <3>4 DEF NeverCounted
  <2>9. \A n \in Mirror : /\ a.counts[n] <= c.counts[n]
                          /\ \A h \in Hour : a.stats[n][h] <= c.stats[n][h]
    <3>1. ASSUME NEW n \in Mirror PROVE a.counts[n] <= c.counts[n]
      <4>1. c.counts[n] = IF n = m THEN a.counts[n]
                          ELSE Greater(a.counts[n], o.copy.counts[n])
        BY <2>3 DEF MergeCounts
      <4>2. a.counts[n] \in Nat /\ o.copy.counts[n] \in Nat
        BY <2>1, <2>2 DEF Attribute
      <4> QED
        BY <4>1, <4>2 DEF Greater
    <3>2. ASSUME NEW n \in Mirror, NEW h \in Hour PROVE a.stats[n][h] <= c.stats[n][h]
      <4>1. c.stats[n][h] = IF n = m THEN a.stats[n][h]
                            ELSE Greater(a.stats[n][h], o.copy.stats[n][h])
        BY <2>3 DEF MergeStats
      <4>2. a.stats[n][h] \in Nat /\ o.copy.stats[n][h] \in Nat
        BY <2>1, <2>2 DEF Attribute
      <4> QED
        BY <4>1, <4>2 DEF Greater
    <3> QED
      BY <3>1, <3>2
  <2>10. \A n \in Mirror \ {m} :
            /\ c.counts[n] <= OrNew(held[n]).counts[n]
            /\ \A h \in Hour : c.stats[n][h] <= OrNew(held[n]).stats[n][h]
    <3>1. ASSUME NEW n \in Mirror \ {m} PROVE c.counts[n] <= OrNew(held[n]).counts[n]
      BY <2>1, <2>2, <2>3, <2>5, <2>6 DEF MergeCounts, Greater, Attribute
    <3>2. ASSUME NEW n \in Mirror \ {m}, NEW h \in Hour
          PROVE  c.stats[n][h] <= OrNew(held[n]).stats[n][h]
      <4>1. c.stats[n][h] = Greater(a.stats[n][h], o.copy.stats[n][h])
        BY <2>3, SMTT(40) DEF MergeStats
      <4>2. a.stats[n][h] \in Nat /\ o.copy.stats[n][h] \in Nat
        BY <2>1, <2>2 DEF Attribute
      <4>3. /\ a.stats[n][h] <= OrNew(held[n]).stats[n][h]
            /\ o.copy.stats[n][h] <= OrNew(held[n]).stats[n][h]
        BY <2>5, <2>6
      <4> QED
        BY <4>1, <4>2, <4>3 DEF Greater
    <3> QED
      BY <3>1, <3>2
  <2> QED
    BY <1>0, <2>1, <2>2, <2>4, <2>8, <2>9, <2>10 DEF a
<1>4. ASSUME NEW m \in Mirror, Retag(m) PROVE OwnDominates'
  <2>1. PICK now \in Time, tags \in SUBSET Tag, reached \in SUBSET (Mirror \ {m}) :
          /\ held' = [held EXCEPT ![m] = SetTags(@, tags, now)]
          /\ PushValue(SetTags(held[m], tags, now), reached)
    BY <1>4 DEF Retag
  <2> DEFINE c == SetTags(held[m], tags, now)
  <2>2. held[m] \in Attribute /\ held[m] # Absent /\ now \in Nat
    BY <1>4 DEF Retag, TypeOK
  <2>3. c \in Attribute /\ c.counts = held[m].counts /\ c.stats = held[m].stats
    BY <2>2, SetTagsType
  <2>4. /\ held' = [held EXCEPT ![m] = c]
        /\ \A o \in offers' : o \in offers \/ o.copy = c
    BY <2>1, Pushed
  <2> HIDE DEF c
  <2>5. c # Absent /\ ~NeverCounted(c)
    BY <2>2, <2>3 DEF OwnDominates, Dominated, NeverCounted
  <2>6. OrNew(held[m]) = held[m]
    BY <2>2 DEF OrNew
  <2>7. \A n \in Mirror : /\ held[m].counts[n] <= OrNew(held[n]).counts[n]
                          /\ \A h \in Hour : held[m].stats[n][h]
                                               <= OrNew(held[n]).stats[n][h]
    BY <2>2 DEF OwnDominates, Dominated
  <2>8. \A n \in Mirror : /\ held[m].counts[n] <= held[m].counts[n]
                          /\ \A h \in Hour : held[m].stats[n][h] <= held[m].stats[n][h]
    BY <2>2 DEF Attribute
  <2> QED
    BY <1>0, <2>3, <2>4, <2>5, <2>6, <2>7, <2>8
<1>5. ASSUME NEW p \in Mirror, NEW m \in Mirror, Offer(p, m) PROVE OwnDominates'
  <2>1. held' = held /\ held[p] # Absent
        /\ \A o \in offers' : o \in offers \/ o.copy = held[p]
    BY <1>5 DEF Offer
  <2>2. \A x : Dominated(x)' <=> Dominated(x)
    BY <2>1 DEF Dominated
  <2>3. \A k \in Mirror : Dominated(held[k])
    BY DEF OwnDominates
  <2>4. \A o \in offers' : Dominated(o.copy)
    BY <2>1, <2>3 DEF OwnDominates
  <2> QED
    BY <2>1, <2>2, <2>3, <2>4 DEF OwnDominates
<1>6. ASSUME NEW m \in Mirror, Save(m) \/ Forget(m) \/ Restart(m)
      PROVE  OwnDominates'
  <2>1. CASE Save(m)
    BY <2>1 DEF Save, OwnDominates, Dominated
  <2>2. CASE Forget(m) \/ Restart(m)
    BY <2>2, SMTT(40) DEF Forget, Restart, TypeOK
  <2> QED
    BY <1>6, <2>1, <2>2
<1>7. ASSUME NEW r \in Router, StartForward(r) PROVE OwnDominates'
  BY <1>7 DEF StartForward, OwnDominates, Dominated
<1>8. ASSUME NEW p \in Mirror, RetagElsewhere(p) PROVE OwnDominates'
  <2>1. PICK now \in Time, tags \in SUBSET Tag, reached \in SUBSET Mirror :
          PushValue([held[p] EXCEPT !.tags = tags, !.tags_at = now], reached)
    BY <1>8 DEF RetagElsewhere
  <2> DEFINE c == [held[p] EXCEPT !.tags = tags, !.tags_at = now]
  <2>2. held' = held /\ held[p] # Absent /\ held[p] \in Attribute
    BY <1>8 DEF RetagElsewhere, TypeOK
  <2>3. c.counts = held[p].counts /\ c.stats = held[p].stats
    BY <2>2 DEF Attribute
  <2>4. \A o \in offers' : o \in offers \/ o.copy = c
    BY <2>1, Pushed
  <2> HIDE DEF c
  <2>5. Dominated(c)
    BY <2>2, <2>3 DEF OwnDominates, Dominated, NeverCounted
  <2>6. \A x : Dominated(x)' <=> Dominated(x)
    BY <2>2 DEF Dominated
  <2>7. \A o \in offers' : Dominated(o.copy)
    BY <2>4, <2>5 DEF OwnDominates
  <2> QED
    BY <2>2, <2>6, <2>7 DEF OwnDominates
<1>9. CASE UNCHANGED vars
  BY <1>9 DEF OwnDominates, Dominated, vars
<1> QED
  BY <1>1, <1>2, <1>3, <1>4, <1>5, <1>6, <1>7, <1>8, <1>9 DEF Next, Sweep, Delete

\* When every server is ahead of the copies of its own entries, merging each copy
\* of two mirrors into the other gives the same copy twice.
LEMMA DominatesConverges ==
    ASSUME TypeOK, OwnDominates
    PROVE  ExchangeConverges
<1> USE MirrorsAssumption
<1> SUFFICES ASSUME NEW a \in Mirror, NEW b \in Mirror,
                    held[a] # Absent, held[b] # Absent
             PROVE  Merge(held[a], held[b], a) = Merge(held[b], held[a], b)
  BY DEF ExchangeConverges
<1> DEFINE x == held[a]
           y == held[b]
<1>1. x \in Attribute /\ y \in Attribute
  BY DEF TypeOK
<1>2. CASE a = b
  BY <1>2
<1>3. CASE a # b
  <2>1. /\ ~NeverCounted(x) /\ ~NeverCounted(y)
        /\ y.counts[a] <= x.counts[a] /\ x.counts[b] <= y.counts[b]
        /\ \A h \in Hour : /\ y.stats[a][h] <= x.stats[a][h]
                           /\ x.stats[b][h] <= y.stats[b][h]
    BY DEF OwnDominates, Dominated, OrNew
  <2>2. ~Unseen(x) /\ ~Unseen(y)
    BY <2>1 DEF Unseen
  <2> HIDE DEF x, y
  <2>3. /\ x.first_seen \in Int /\ y.first_seen \in Int
        /\ x.last_seen \in Int /\ y.last_seen \in Int
        /\ x.tags_at \in Nat /\ y.tags_at \in Nat /\ x.ttl \in Nat /\ y.ttl \in Nat
    BY <1>1 DEF Attribute
  <2>4. MergeCounts(x, y, a) = MergeCounts(y, x, b)
    <3>1. ASSUME NEW n \in Node
          PROVE  (IF n = a THEN x.counts[n] ELSE Greater(x.counts[n], y.counts[n]))
               = (IF n = b THEN y.counts[n] ELSE Greater(y.counts[n], x.counts[n]))
      <4>1. x.counts[n] \in Nat /\ y.counts[n] \in Nat
        BY <1>1 DEF Attribute
      <4>2. /\ n = a => Greater(y.counts[n], x.counts[n]) = x.counts[n]
            /\ n = b => Greater(x.counts[n], y.counts[n]) = y.counts[n]
        BY <2>1, <4>1 DEF Greater
      <4>3. Greater(x.counts[n], y.counts[n]) = Greater(y.counts[n], x.counts[n])
        BY <4>1 DEF Greater
      <4> QED
        BY <1>3, <4>2, <4>3
    <3> QED
      BY <3>1 DEF MergeCounts
  <2>5. MergeStats(x, y, a) = MergeStats(y, x, b)
    <3> DEFINE G(n) == [h \in Hour |-> Greater(x.stats[n][h], y.stats[n][h])]
               H(n) == [h \in Hour |-> Greater(y.stats[n][h], x.stats[n][h])]
               L(n) == IF n = a THEN x.stats[n] ELSE G(n)
               R(n) == IF n = b THEN y.stats[n] ELSE H(n)
    <3>1. ASSUME NEW n \in Node PROVE L(n) = R(n)
      <4>1. x.stats[n] \in [Hour -> Nat] /\ y.stats[n] \in [Hour -> Nat]
        BY <1>1 DEF Attribute
      <4>2. G(n) = H(n)
        <5>1. ASSUME NEW h \in Hour
              PROVE  Greater(x.stats[n][h], y.stats[n][h])
                       = Greater(y.stats[n][h], x.stats[n][h])
          BY <4>1 DEF Greater
        <5> QED
          BY <5>1
      <4>3. ASSUME n = a PROVE H(n) = x.stats[n]
        <5>1. ASSUME NEW h \in Hour
              PROVE  Greater(y.stats[n][h], x.stats[n][h]) = x.stats[n][h]
          <6>1. y.stats[n][h] \in Nat /\ x.stats[n][h] \in Nat
            BY <4>1
          <6>2. y.stats[n][h] <= x.stats[n][h]
            BY <2>1, <4>3
          <6> QED
            BY <6>1, <6>2 DEF Greater
        <5> QED
          BY <4>1, <5>1
      <4>4. ASSUME n = b PROVE G(n) = y.stats[n]
        <5>1. ASSUME NEW h \in Hour
              PROVE  Greater(x.stats[n][h], y.stats[n][h]) = y.stats[n][h]
          <6>1. x.stats[n][h] \in Nat /\ y.stats[n][h] \in Nat
            BY <4>1
          <6>2. x.stats[n][h] <= y.stats[n][h]
            BY <2>1, <4>4
          <6> QED
            BY <6>1, <6>2 DEF Greater
        <5> QED
          BY <4>1, <5>1
      <4> HIDE DEF G, H
      <4> QED
        BY <1>3, <4>2, <4>3, <4>4
    <3> HIDE DEF L, R
    <3>2. [n \in Node |-> L(n)] = [n \in Node |-> R(n)]
      BY <3>1
    <3> QED
      BY <3>2 DEF MergeStats, L, R
  <2>6. /\ Lesser(x.first_seen, y.first_seen) = Lesser(y.first_seen, x.first_seen)
        /\ Greater(x.last_seen, y.last_seen) = Greater(y.last_seen, x.last_seen)
        /\ Greater(x.tags_at, y.tags_at) = Greater(y.tags_at, x.tags_at)
        /\ MergeTtl(x.ttl, y.ttl) = MergeTtl(y.ttl, x.ttl)
    BY <2>3 DEF Lesser, Greater, MergeTtl
  <2>7. MergeTags(x, y) = MergeTags(y, x)
    <3>1. CASE x.tags_at > y.tags_at
      BY <2>3, <3>1, MergeTagsCases
    <3>2. CASE x.tags_at < y.tags_at
      BY <2>3, <3>2, MergeTagsCases
    <3>3. CASE x.tags_at = y.tags_at
      <4>1. /\ MergeTags(x, y) = x.tags \cup y.tags
            /\ MergeTags(y, x) = y.tags \cup x.tags
        BY <2>3, <3>3, MergeTagsCases
      <4>2. x.tags \cup y.tags = y.tags \cup x.tags
        OBVIOUS
      <4> QED
        BY <4>1, <4>2
    <3>4. x.tags_at > y.tags_at \/ x.tags_at < y.tags_at \/ x.tags_at = y.tags_at
      <4>1. x.tags_at \in Nat /\ y.tags_at \in Nat
        BY <2>3
      <4> QED
        BY <4>1
    <3> QED
      BY <3>1, <3>2, <3>3, <3>4
  <2>8. Merge(x, y, a) = Merge(y, x, b)
    BY <2>2, <2>4, <2>5, <2>6, <2>7 DEF Merge
  <2> QED
    BY <2>8 DEF x, y
<1> QED
  BY <1>2, <1>3

\* While no server forgets its own sightings (MaxLosses = 0) and every bucket
\* is kept (Retention = 0), one exchange of copies makes two mirrors agree on
\* every field, however many routers write and whatever was lost on the way.
THEOREM ExchangesConverge ==
    ASSUME Retention = 0, MaxLosses = 0 PROVE Spec => []ExchangeConverges
<1>1. TypeOK /\ OwnDominates /\ [Next]_vars => (TypeOK /\ OwnDominates)'
  BY NextType, NextDominates
<1>2. TypeOK /\ OwnDominates => ExchangeConverges
  BY DominatesConverges
<1> QED
  BY InitType, InitDominates, <1>1, <1>2, PTL DEF Spec

(***************************************************************************)
(* Order.  Where no clock shows the epoch, which the code takes for "never *)
(* seen", every copy there is was seen, and copies merge in any order.     *)
(***************************************************************************)
Dated(c) == c # Absent => c.first_seen # 0

AllDated ==
    /\ \A m \in Mirror : Dated(held[m]) /\ Dated(snap[m])
    /\ \A o \in offers : Dated(o.copy)
    /\ \A r \in Router : forward[r].todo # {} => forward[r].when # 0

\* Namespace::record dates a copy.
LEMMA RecordDated ==
    ASSUME NEW a \in Attribute \cup {Absent}, Dated(a), NEW n \in Node, NEW when \in Nat,
           when # 0, NEW ttl \in Nat, NEW tags \in SUBSET Tag
    PROVE  Record(a, n, when, ttl, tags).first_seen # 0
<1>1. PICK b \in Attribute : b = OrNew(a)
  BY OrNewType
<1>2. PICK c : c = [b EXCEPT !.ttl = IF ttl = 0 THEN @ ELSE ttl]
  OBVIOUS
<1>3. c.first_seen = b.first_seen /\ c.counts = b.counts
  BY <1>2 DEF Attribute
<1>4. PICK d : d = AddTags(c, tags)
  OBVIOUS
<1>5. d.first_seen = b.first_seen /\ d.counts = b.counts
  BY <1>2, <1>3, <1>4 DEF AddTags, Attribute
<1>6. Record(a, n, when, ttl, tags) = Increment(d, n, when)
  BY <1>1, <1>2, <1>4 DEF Record
<1>7. Increment(d, n, when).first_seen
        = IF NeverCounted(d) THEN when ELSE Lesser(d.first_seen, when)
  BY DEF Increment
<1>8. CASE a = Absent
  <2>1. NeverCounted(d)
    BY <1>1, <1>5, <1>8 DEF OrNew, New, NeverCounted
  <2> QED
    BY <1>6, <1>7, <2>1
<1>9. CASE a # Absent
  <2>1. d.first_seen # 0
    BY <1>1, <1>5, <1>9 DEF OrNew, Dated
  <2> QED
    BY <1>6, <1>7, <2>1 DEF Lesser
<1> QED
  BY <1>8, <1>9

\* Attribute::merge of a dated copy into a dated or a new one is dated.
LEMMA MergeDated ==
    ASSUME NEW a \in Attribute \cup {Absent}, Dated(a), NEW c \in Attribute, c.first_seen # 0,
           NEW m \in Node
    PROVE  Merge(OrNew(a), c, m).first_seen # 0
<1>1. Merge(OrNew(a), c, m).first_seen = IF Unseen(OrNew(a)) THEN c.first_seen
                                         ELSE Lesser(OrNew(a).first_seen, c.first_seen)
  BY DEF Merge
<1>2. CASE a = Absent
  <2>1. Unseen(OrNew(a))
    BY <1>2 DEF OrNew, New, Unseen, NeverCounted
  <2> QED
    BY <1>1, <2>1
<1>3. CASE a # Absent
  <2>1. OrNew(a).first_seen # 0
    BY <1>3 DEF OrNew, Dated
  <2> QED
    BY <1>1, <2>1 DEF Lesser
<1> QED
  BY <1>2, <1>3

\* There is no copy at the start.
LEMMA InitDated == Init => AllDated
BY DEF Init, AllDated, Dated, Idle

\* Every step leaves every copy dated.
LEMMA NextDated ==
    ASSUME 0 \notin Time, TypeOK, AllDated, [Next]_vars
    PROVE  AllDated'
<1> USE MirrorsAssumption
\* What is left to show of a step that gives one mirror a copy.
<1>0. ASSUME NEW m \in Mirror, NEW c, c.first_seen # 0, held' = [held EXCEPT ![m] = c],
             \A o \in offers' : o \in offers \/ o.copy = c,
             UNCHANGED snap, \A r \in Router : forward'[r].todo # {} => forward'[r].when # 0
      PROVE  AllDated'
  <2>1. \A k \in Mirror : Dated(held[k])' /\ Dated(snap[k])'
    BY <1>0 DEF AllDated, Dated, TypeOK
  <2>2. \A o \in offers' : Dated(o.copy)'
    BY <1>0 DEF AllDated, Dated
  <2> QED
    BY <1>0, <2>1, <2>2 DEF AllDated
<1>1. ASSUME NEW m \in Mirror, Write(m) PROVE AllDated'
  <2>1. PICK when \in Time, ttl \in Ttl, tags \in SUBSET Tag :
          held' = [held EXCEPT ![m] = Record(@, m, when, ttl, tags)]
    BY <1>1 DEF Write
  <2>2. PICK c : c = Record(held[m], m, when, ttl, tags)
    OBVIOUS
  <2>3. /\ held[m] \in Attribute \cup {Absent} /\ m \in Node /\ when \in Nat /\ when # 0
        /\ ttl \in Nat /\ Dated(held[m])
    BY DEF TypeOK, AllDated
  <2>4. c.first_seen # 0
    BY <2>2, <2>3, RecordDated
  <2>5. held' = [held EXCEPT ![m] = c]
    BY <2>1, <2>2
  <2> QED
    BY <1>0, <1>1, <2>4, <2>5 DEF Write, AllDated
<1>2. ASSUME NEW m \in Mirror, Retag(m) PROVE AllDated'
  <2>1. PICK now \in Time, tags \in SUBSET Tag, reached \in SUBSET (Mirror \ {m}) :
          /\ held' = [held EXCEPT ![m] = SetTags(@, tags, now)]
          /\ PushValue(SetTags(held[m], tags, now), reached)
    BY <1>2 DEF Retag
  <2>2. PICK c : c = SetTags(held[m], tags, now)
    OBVIOUS
  <2>3. held[m] \in Attribute /\ held[m].first_seen # 0
    BY <1>2 DEF Retag, TypeOK, AllDated, Dated
  <2>4. c.first_seen # 0
    BY <2>2, <2>3 DEF SetTags, Attribute
  <2>5. held' = [held EXCEPT ![m] = c] /\ \A o \in offers' : o \in offers \/ o.copy = c
    BY <2>1, <2>2, Pushed
  <2> QED
    BY <1>0, <1>2, <2>4, <2>5 DEF Retag, AllDated
<1>3. ASSUME NEW m \in Mirror, Save(m) \/ Forget(m) \/ Restart(m) PROVE AllDated'
  <2>1. /\ UNCHANGED <<offers, forward>>
        /\ \/ held' = held /\ snap' = [snap EXCEPT ![m] = held[m]]
           \/ snap' = snap /\ \E c \in {Absent, snap[m]} : held' = [held EXCEPT ![m] = c]
    BY <1>3 DEF Save, Forget, Restart
  <2>2. \A k \in Mirror : Dated(held[k])' /\ Dated(snap[k])'
    BY <2>1 DEF AllDated, Dated, TypeOK
  <2> QED
    BY <2>1, <2>2 DEF AllDated, Dated
<1>4. ASSUME NEW r \in Router, StartForward(r) PROVE AllDated'
  <2>1. UNCHANGED <<held, snap, offers>>
    BY <1>4 DEF StartForward
  <2>2. \A q \in Router : forward'[q].todo # {} => forward'[q].when # 0
    <3>1. PICK live \in (SUBSET Mirror) \ {{}}, when \in Time, ttl \in Ttl, tags \in SUBSET Tag :
            forward' = [forward EXCEPT ![r] = [todo |-> live, ok |-> FALSE, when |-> when,
                                               ttl |-> ttl, tags |-> tags]]
      BY <1>4 DEF StartForward
    <3>2. PICK g : g = [todo |-> live, ok |-> FALSE, when |-> when, ttl |-> ttl, tags |-> tags]
      OBVIOUS
    <3>3. g.when # 0
      BY <3>2
    <3>4. forward' = [forward EXCEPT ![r] = g]
      BY <3>1, <3>2
    <3>5. forward \in [Router -> Forward]
      BY DEF TypeOK
    <3> QED  BY <3>3, <3>4, <3>5 DEF AllDated
  <2> QED
    BY <2>1, <2>2 DEF AllDated, Dated
<1>5. ASSUME NEW r \in Router, NEW m \in Mirror, NEW outcome \in Outcome, Send(r, m, outcome)
      PROVE  AllDated'
  <2>1. PICK f \in Forward : f = forward[r] /\ m \in f.todo /\ f.when # 0
    BY <1>5 DEF Send, TypeOK, AllDated
  <2>2. \A q \in Router : forward'[q].todo # {} => forward'[q].when # 0
    <3>1. PICK rest, ok, g :
            /\ g = IF rest = {} THEN Idle ELSE [f EXCEPT !.todo = rest, !.ok = ok]
            /\ rest = f.todo \ {m} /\ ok = (f.ok \/ outcome = "answered")
      OBVIOUS
    <3>2. g.todo # {} => g.when # 0
      <4>1. CASE rest = {}
        BY <3>1, <4>1 DEF Idle
      <4>2. CASE rest # {}
        BY <2>1, <3>1, <4>2 DEF Forward
      <4> QED
        BY <4>1, <4>2
    <3>3. forward' = [forward EXCEPT ![r] = g]
      BY <1>5, <2>1, <3>1 DEF Send
    <3> QED
      BY <3>2, <3>3 DEF AllDated, TypeOK
  <2>3. UNCHANGED <<snap, offers>>
    BY <1>5 DEF Send
  <2>4. CASE held' = held
    BY <2>2, <2>3, <2>4 DEF AllDated, Dated
  <2>5. CASE held' # held
    <3>1. PICK c : c = Record(held[m], r, f.when, f.ttl, f.tags)
      OBVIOUS
    <3>2. held' = [held EXCEPT ![m] = c]
      BY <1>5, <2>1, <2>5, <3>1 DEF Send
    <3>3. /\ held[m] \in Attribute \cup {Absent} /\ r \in Node /\ Dated(held[m])
          /\ f.when \in Nat /\ f.ttl \in Nat /\ f.tags \in SUBSET Tag
      BY <2>1 DEF TypeOK, AllDated, Forward
    <3>4. c.first_seen # 0
      BY <2>1, <3>1, <3>3, RecordDated
    <3> QED
      BY <1>0, <2>2, <2>3, <3>2, <3>4
  <2> QED
    BY <2>4, <2>5
<1>6. ASSUME NEW p \in Mirror, RetagElsewhere(p) PROVE AllDated'
  <2>1. PICK now \in Time, tags \in SUBSET Tag, reached \in SUBSET Mirror :
          PushValue([held[p] EXCEPT !.tags = tags, !.tags_at = now], reached)
    BY <1>6 DEF RetagElsewhere
  <2>2. PICK c : c = [held[p] EXCEPT !.tags = tags, !.tags_at = now]
    OBVIOUS
  <2>3. held[p] \in Attribute /\ held[p].first_seen # 0
    BY <1>6 DEF RetagElsewhere, TypeOK, AllDated, Dated
  <2>4. c.first_seen # 0 /\ \A o \in offers' : o \in offers \/ o.copy = c
    BY <2>1, <2>2, <2>3, Pushed DEF Attribute
  <2>5. \A o \in offers' : Dated(o.copy)'
    BY <2>4 DEF AllDated, Dated
  <2> QED
    BY <1>6, <2>5 DEF RetagElsewhere, AllDated, Dated
<1>7. ASSUME NEW p \in Mirror, NEW m \in Mirror, Offer(p, m) PROVE AllDated'
  <2>1. \A o \in offers' : o \in offers \/ o.copy = held[p]
    BY <1>7 DEF Offer
  <2>2. \A o \in offers' : Dated(o.copy)'
    BY <2>1 DEF AllDated, Dated
  <2> QED
    BY <1>7, <2>2 DEF Offer, AllDated, Dated
<1>8. ASSUME NEW o \in offers, Take(o) PROVE AllDated'
  <2>1. PICK m \in Mirror, d \in Attribute : m = o.to /\ d = o.copy /\ d.first_seen # 0
    BY DEF TypeOK, Message, AllDated, Dated
  <2>2. PICK c : c = Merge(OrNew(held[m]), d, m)
    OBVIOUS
  <2>3. held[m] \in Attribute \cup {Absent} /\ Dated(held[m]) /\ m \in Node
    BY DEF TypeOK, AllDated
  <2>4. c.first_seen # 0
    BY <2>1, <2>2, <2>3, MergeDated
  <2>5. held' = [held EXCEPT ![m] = c] /\ offers' \subseteq offers /\ UNCHANGED <<snap, forward>>
    BY <1>8, <2>1, <2>2 DEF Take
  <2> QED
    BY <1>0, <2>4, <2>5 DEF AllDated
<1>9. CASE UNCHANGED vars
  BY <1>9 DEF AllDated, Dated, vars
<1> QED
  BY <1>1, <1>2, <1>3, <1>4, <1>5, <1>6, <1>7, <1>8, <1>9 DEF Next, Sweep, Delete

\* With clocks past the epoch, whatever was lost, forgotten, retagged or trimmed, the
\* copies on their way to a mirror and those its peers hold can be merged in either
\* order and each of them twice, with one result (Attribute::merge).
THEOREM CopiesInAnyOrder ==
    ASSUME 0 \notin Time PROVE Spec => []OrderFree
<1>1. TypeOK /\ AllDated /\ [Next]_vars => (TypeOK /\ AllDated)'
  BY NextType, NextDated
<1>2. TypeOK /\ AllDated => OrderFree
  <2> SUFFICES ASSUME TypeOK, AllDated, NEW m \in Mirror, NEW c \in Incoming(m),
                      NEW d \in Incoming(m)
               PROVE  /\ Merge(Merge(OrNew(held[m]), c, m), d, m)
                           = Merge(Merge(OrNew(held[m]), d, m), c, m)
                      /\ Merge(Merge(OrNew(held[m]), c, m), c, m)
                           = Merge(OrNew(held[m]), c, m)
    BY DEF OrderFree
  <2>1. \A x \in Incoming(m) : x \in Attribute /\ x.first_seen # 0
    BY MirrorsAssumption DEF Incoming, TypeOK, Message, AllDated, Dated
  <2>2. PICK a \in Attribute : a = OrNew(held[m])
    BY OrNewType DEF TypeOK
  <2>3. m \in Node
    BY MirrorsAssumption
  <2> QED
    BY <2>1, <2>2, <2>3, MergesCommute, MergeIdempotent
<1> QED
  BY InitType, InitDated, <1>1, <1>2, PTL DEF Spec
=============================================================================

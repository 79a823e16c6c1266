------------------------------ MODULE Attribute ------------------------------
(***************************************************************************)
(* One value as a server stores it (attribute.rs), and the rules by which  *)
(* a sighting, a replaced tag set and a peer's copy change it.             *)
(*                                                                         *)
(* A missing entry of the counts or stats maps is a zero: nothing in the   *)
(* code tells the two apart.  A tag set is a set of tags (the code's       *)
(* comma-separated string, without its order).  Times are seconds since    *)
(* the epoch, so 0 is the epoch itself, the sentinel of an unseen value.   *)
(***************************************************************************)
EXTENDS Integers, FiniteSets

CONSTANTS
    Node,        \* server ids: the keys of the counts and stats maps
    Tag,         \* tags a value can carry
    Hour,        \* the hourly buckets the times of the model fall into
    BucketSecs,  \* STATS_BUCKET_SECS
    Retention    \* stats_retention: own buckets kept, 0 keeps all

ASSUME AttributeAssumption ==
    /\ Hour \subseteq Int
    /\ BucketSecs \in Nat \ {0}
    /\ Retention \in Nat

Attribute == [counts     : [Node -> Nat],
              stats      : [Node -> [Hour -> Nat]],
              first_seen : Int,
              last_seen  : Int,
              tags       : SUBSET Tag,
              tags_at    : Nat,
              ttl        : Nat]

New == [counts     |-> [n \in Node |-> 0],
        stats      |-> [n \in Node |-> [h \in Hour |-> 0]],
        first_seen |-> 0,
        last_seen  |-> 0,
        tags       |-> {},
        tags_at    |-> 0,
        ttl        |-> 0]

Greater(x, y) == IF x > y THEN x ELSE y
Lesser(x, y)  == IF x < y THEN x ELSE y

\* count() = 0
NeverCounted(a) == \A n \in Node : a.counts[n] = 0

(***************************************************************************)
(* increment: the first counted sighting seeds the window, later ones      *)
(* widen it; the node's own buckets are trimmed to the newest Retention.   *)
(***************************************************************************)
Bucket(when) == when \div BucketSecs

TrimStats(buckets) ==
    LET newer(h) == {g \in Hour : buckets[g] > 0 /\ g > h}
    IN  IF Retention = 0 THEN buckets
        ELSE [h \in Hour |-> IF Cardinality(newer(h)) >= Retention
                             THEN 0 ELSE buckets[h]]

MakeStats(buckets, when) ==
    [h \in Hour |-> IF h = Bucket(when) THEN buckets[h] + 1 ELSE buckets[h]]

Increment(a, node, when) ==
    LET first == NeverCounted(a)
    IN  [counts     |-> [a.counts EXCEPT ![node] = @ + 1],
         stats      |-> [a.stats EXCEPT ![node] = TrimStats(MakeStats(@, when))],
         first_seen |-> IF first THEN when ELSE Lesser(a.first_seen, when),
         last_seen  |-> IF first THEN when ELSE Greater(a.last_seen, when),
         tags       |-> a.tags,
         tags_at    |-> a.tags_at,
         ttl        |-> a.ttl]

\* add_tags, and set_tags: the time of a replacement never goes backwards.
AddTags(a, tags) == [a EXCEPT !.tags = @ \cup tags]
SetTags(a, tags, at) == [a EXCEPT !.tags = tags, !.tags_at = Greater(@, at)]

\* expires_at and is_expired: the TTL runs from the last sighting.
IsExpired(a, now) == a.ttl > 0 /\ now > a.last_seen + a.ttl

(***************************************************************************)
(* merge: fold a peer's copy into the one server `mine' holds.             *)
(***************************************************************************)
Unseen(a) == NeverCounted(a) /\ a.first_seen = 0

\* Mutant: a peer's counts are added to those already known.
MergeCountsAdding(a, m, mine) ==
    [n \in Node |-> IF n = mine THEN a.counts[n] ELSE a.counts[n] + m.counts[n]]

MergeCounts(a, m, mine) ==
    [n \in Node |-> IF n = mine THEN a.counts[n]
                    ELSE Greater(a.counts[n], m.counts[n])]

MergeStats(a, m, mine) ==
    [n \in Node |-> IF n = mine THEN a.stats[n]
                    ELSE [h \in Hour |-> Greater(a.stats[n][h], m.stats[n][h])]]

\* Mutant: on a tie each side keeps its own tags.
MergeTagsKeepingMine(a, m) == IF m.tags_at > a.tags_at THEN m.tags ELSE a.tags

\* Mutant: on a tie the copy that arrives last wins.
MergeTagsLatest(a, m) == IF m.tags_at < a.tags_at THEN a.tags ELSE m.tags

MergeTags(a, m) ==
    CASE m.tags_at > a.tags_at -> m.tags
      [] m.tags_at < a.tags_at -> a.tags
      [] OTHER                 -> a.tags \cup m.tags

MergeTtl(x, y) == CASE x = 0 -> y [] y = 0 -> x [] OTHER -> Lesser(x, y)

Merge(a, m, mine) ==
    [counts     |-> MergeCounts(a, m, mine),
     stats      |-> MergeStats(a, m, mine),
     first_seen |-> IF Unseen(a) THEN m.first_seen
                    ELSE Lesser(a.first_seen, m.first_seen),
     last_seen  |-> IF Unseen(a) THEN m.last_seen
                    ELSE Greater(a.last_seen, m.last_seen),
     tags       |-> MergeTags(a, m),
     tags_at    |-> Greater(a.tags_at, m.tags_at),
     ttl        |-> MergeTtl(a.ttl, m.ttl)]

\* Merged.changed: the flag compares every field but the time of the last
\* tag replacement (attribute.rs compares only the tags themselves).
Changed(a, m, mine) ==
    [Merge(a, m, mine) EXCEPT !.tags_at = 0] # [a EXCEPT !.tags_at = 0]
=============================================================================

-------------------------------- MODULE Tiers --------------------------------
(***************************************************************************)
(* Which storage tier a shard is in (src/tier.rs): a policy is a function  *)
(* from the shards that have settings of their own to those settings.      *)
(***************************************************************************)
EXTENDS Naturals, Sequences, Functions

CONSTANTS
    Idle,         \* warm_idle values, in seconds
    DefaultTier,  \* [storage] default_tier and warm_idle of the configuration
    DefaultIdle,
    Internal,     \* the internal shard
    None          \* a half of an entry that is left to the default

Tier == {"hot", "warm", "cold"}

TierEntry == [tier : {None} \cup Tier, warm_idle : {None} \cup Idle]

NoEntry == [tier |-> None, warm_idle |-> None]

\* TierPolicy::set: an empty entry is a removal.
SetTierEntry(tiers, shard, entry) ==
    IF entry = NoEntry
    THEN Restrict(tiers, DOMAIN tiers \ {shard})
    ELSE [s \in DOMAIN tiers \cup {shard} |-> IF s = shard THEN entry ELSE tiers[s]]

Own(tiers, shard) == IF shard \in DOMAIN tiers THEN tiers[shard] ELSE NoEntry

\* The settings in force; the internal shard is hot whatever is configured.
Resolve(tiers, shard) ==
    IF shard = Internal THEN [tier |-> "hot", warm_idle |-> DefaultIdle]
    ELSE LET entry == Own(tiers, shard)
         IN  [tier      |-> IF entry.tier = None THEN DefaultTier ELSE entry.tier,
              warm_idle |-> IF entry.warm_idle = None THEN DefaultIdle ELSE entry.warm_idle]

-----------------------------------------------------------------------------
(* The tiers_file: the short spelling for a tier alone, a table otherwise. *)

TierToToml(entry) ==
    CASE entry.tier # None /\ entry.warm_idle = None -> <<entry.tier>>
      [] entry.tier # None /\ entry.warm_idle # None -> <<"tier", entry.tier, "warm_idle", entry.warm_idle>>
      [] entry.tier = None /\ entry.warm_idle # None -> <<"warm_idle", entry.warm_idle>>

ParseEntry(value) ==
    CASE Len(value) = 1 -> [tier |-> value[1], warm_idle |-> None]
      [] Len(value) = 2 -> [tier |-> None, warm_idle |-> value[2]]
      [] Len(value) = 4 -> [tier |-> value[2], warm_idle |-> value[4]]

TiersToToml(tiers) == [s \in DOMAIN tiers |-> TierToToml(tiers[s])]
==============================================================================

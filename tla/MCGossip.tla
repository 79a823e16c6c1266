------------------------------- MODULE MCGossip -------------------------------
(* An owner of the keys, a server that agreed to be replaced and one that did not. *)
EXTENDS Gossip, TLC

CONSTANTS hub, leaf, own, root, linked, user

\* hub administers both others, or leaf alone, which passes changes on to own,
\* which would pass them back to leaf.
Wires    == {hub :> <<leaf, own>> @@ leaf :> <<>> @@ own :> <<>>,
             hub :> <<leaf>> @@ leaf :> <<own>> @@ own :> <<leaf>>}
WireKeys == <<hub, leaf>> :> root @@ <<hub, own>> :> linked @@ <<leaf, own>> :> linked @@ <<own, leaf>> :> root

Everything  == {AllData, AdminGrant}
FirstLists  == hub :> (root :> Everything) @@ leaf :> (root :> Everything)
               @@ own :> (root :> Everything @@ linked :> Everything)
UserEntries == {[key |-> user, admin |-> FALSE, read |-> {<<>>}, write |-> {}]}
OnlyCold    == {[tier |-> "cold", warm_idle |-> None]}
ColdOrClear == OnlyCold \cup {NoEntry}
Top         == {<<>>}
NoPrefix    == {}
==============================================================================

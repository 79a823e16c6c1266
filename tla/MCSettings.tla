------------------------------ MODULE MCSettings ------------------------------
(* Two administrators, two keys, one editable peer, one shard. *)
EXTENDS Settings, TLC

CONSTANTS root, feed, c1, c2, red, near, far, self

\* Full access and administration; a scoped reader; that reader promoted.
Entries ==
    {[key |-> root, admin |-> FALSE, read |-> {<<>>}, write |-> {<<>>}],
     [key |-> feed, admin |-> TRUE, read |-> {<<"feeds">>}, write |-> {}],
     [key |-> feed, admin |-> FALSE, read |-> {<<"feeds">>}, write |-> {<<"feeds">>, <<>>}]}

TwoPrefixes == {<<>>, <<"feeds">>}
NoPrefix    == {}
Standard    == "tlp:red" :> red
NoTiers     == <<>>
FirstFiles  == [acl   |-> root :> {<<"rw">>, <<"admin">>},
                peers |-> near :> {"enabled = false"}]
==============================================================================

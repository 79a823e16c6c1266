------------------------------ MODULE MCCatchUp -------------------------------
(* Two mirrors of one namespace behind a router. *)
EXTENDS CatchUp, TLC

CONSTANTS a, b

InOrder   == <<a, b>>
EachOther == a :> <<b>> @@ b :> <<a>>
OneWay    == a :> <<b>> @@ b :> <<>>
Ranks     == [v \in Value |-> IF v % 2 = 0 THEN <<a, b>> ELSE <<b, a>>]
Nobody    == a :> <<>> @@ b :> <<>>

Case(p, s, r, pulls, start, writes) ==
    [probe |-> p, sync |-> s, reconcile |-> r, pulls |-> pulls, start |-> start, writes |-> writes]

Cases ==
    {Case(TRUE, TRUE, FALSE, OneWay, a :> {} @@ b :> {2}, {}),
     Case(TRUE, FALSE, FALSE, EachOther, a :> {} @@ b :> {2}, {}),
     Case(FALSE, TRUE, FALSE, EachOther, a :> {1} @@ b :> {2, 3}, {}),
     Case(FALSE, TRUE, FALSE, OneWay, a :> {} @@ b :> {2, 3}, {1}),
     Case(FALSE, FALSE, TRUE, Nobody, a :> {} @@ b :> {2, 3}, {1})}
==============================================================================

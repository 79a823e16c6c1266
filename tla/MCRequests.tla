----------------------------- MODULE MCRequests -----------------------------
\* A server that stores "here" and "shut" in front of two mirrors of "far", one
\* of which stores "near" as well; nobody stores "none".  The server refuses
\* the clients' key for "shut", and peer west refuses this server's for "near".
EXTENDS Requests

CONSTANTS hub, east, west

PeersInOrder == <<east, west>>
Names        == {"here", "shut", "far", "near", "none", "_all"}
OwnNames     == {"_all"}
HoldsOf      == (hub :> {"here", "shut"}) @@ (east :> {"far"}) @@ (west :> {"far", "near"})
DeclaredOf   == (east :> {"far"}) @@ (west :> {"far", "near"})
AliveSets    == {{east, west}, {west}, {}}
RankOf       == ("x" :> <<east, west>>) @@ ("y" :> <<west, east>>) @@ (None :> <<east, west>>)
RefusesOf    == (hub :> {"shut"}) @@ (east :> {}) @@ (west :> {"near"})
Stocks ==
    {(hub :> {}) @@ (east :> {}) @@ (west :> {}),
     (hub :> {<<"here", "x">>}) @@ (east :> {<<"far", "x">>}) @@ (west :> {<<"far", "y">>}),
     (hub :> {}) @@ (east :> {<<"far", "y">>}) @@ (west :> {<<"far", "y">>, <<"near", "x">>})}

Of(ns, v, quiet) == [ns |-> ns, value |-> v, noshadow |-> quiet]

Batches ==
    {<<Of("far", "x", FALSE)>>, <<Of("far", "y", TRUE)>>, <<Of("here", "x", FALSE)>>,
     <<Of("none", "x", FALSE)>>, <<Of("shut", "x", FALSE)>>,
     <<Of("here", "x", FALSE), Of("far", "y", FALSE), Of("far", "x", FALSE)>>,
     <<Of("near", "x", FALSE), Of("far", "y", FALSE)>>,
     <<Of("here", "y", FALSE), Of("_all", "x", FALSE)>>,
     <<Of("shut", "x", FALSE), Of("here", "x", FALSE)>>,
     <<Of("far", "x", FALSE), Of("none", "x", TRUE)>>}
Exports == {<<"far">>, <<"near", "far">>, <<"here", "near">>, <<"none">>, <<"shut">>}
=============================================================================

------------------------------- MODULE MCStore -------------------------------
(* Small instances of the store: one or two shards of one or two namespaces. *)
EXTENDS Store, TLC

CONSTANTS s1, s2, n1, n2, x, y, z, p, q

TwoNames  == {n1, n2}
SameShard == [n \in TwoNames |-> s1]
Apart     == n1 :> s1 @@ n2 :> s2

\* Files at the first start.
NoFiles   == <<>>
EmptyFile == n1 :> {}
OldData   == n1 :> {x} @@ n2 :> {y}

\* What the clients do.
WriteAll  == {"write"} \X {n1, n2}
ReadFirst == {<<"read", n1>>, <<"write", n2>>, <<"read", n2>>}
UseSecond == {"write", "read", "delete"} \X {n2}
=============================================================================

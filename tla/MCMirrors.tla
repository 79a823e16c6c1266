------------------------------ MODULE MCMirrors ------------------------------
(***************************************************************************)
(* Instances of Mirrors for TLC.  Mirrors differ only in name, so they are *)
(* interchangeable in every property.                                      *)
(***************************************************************************)
EXTENDS Mirrors, TLC

CONSTANTS m1, m2, r1

TwoPeers == {m1, m2}

Interchangeable == Permutations(TwoPeers)
=============================================================================

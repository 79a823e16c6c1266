------------------------------ MODULE MCCascade ------------------------------
(***************************************************************************)
(* Two routers that point at each other.  The client talks to the one with *)
(* a mirror behind it; the other also knows a mirror, and a server that    *)
(* neither stores the namespace nor has a peer that does.                  *)
(***************************************************************************)
EXTENDS Cascade, TLC

CONSTANTS east, west, near, far, bare

Wiring == east :> {west, near} @@ west :> {east, far, bare}
            @@ near :> {} @@ far :> {} @@ bare :> {}
=============================================================================

------------------------------- MODULE Durable -------------------------------
(***************************************************************************)
(* What the management interface promises of a setting it persists before  *)
(* adopting it (the key list, the tag vocabulary): the value on disk is    *)
(* replaced in one step, what is served is never ahead of it, and a crash  *)
(* at any moment leaves a server that serves the saved value again.        *)
(***************************************************************************)
CONSTANT Usable(_)   \* what every saved value must satisfy

VARIABLES saved,     \* what a restart would load
          served,    \* what requests are answered from
          up

vars == <<saved, served, up>>

Init == up = TRUE /\ served = saved /\ Usable(saved)

\* A change reaches the disk; the one before it is already served.
Save == /\ up
        /\ served = saved
        /\ Usable(saved')
        /\ UNCHANGED <<served, up>>

Adopt == /\ up
         /\ served' = saved
         /\ UNCHANGED <<saved, up>>

Crash == /\ up
         /\ up' = FALSE
         /\ UNCHANGED <<saved, served>>

Restart == /\ ~up
           /\ up' = TRUE
           /\ served' = saved
           /\ UNCHANGED saved

Next == Save \/ Adopt \/ Crash \/ Restart

Spec == Init /\ [][Next]_vars
==============================================================================

------------------------------- MODULE Cascade -------------------------------
(***************************************************************************)
(* One request about one namespace passed along a galaxy.  A write         *)
(* (handlers.rs, write; galaxy.rs, forward_write and send): servers that   *)
(* store the namespace count it, the others send it to each of their peers *)
(* in turn and answer when they have heard from all of them.  An export    *)
(* (handlers.rs, gathered_export) asks one peer.                           *)
(*                                                                         *)
(* A call is named by the route it took: the servers from the entry point  *)
(* to the one that handles it.  Nothing keeps a server off a route it is   *)
(* on already; only the hop budget does.                                   *)
(***************************************************************************)
EXTENDS Naturals, Sequences

CONSTANTS
    Server,   \* the servers of the galaxy
    Entry,    \* the one the client talks to
    Peers,    \* Peers[s]: the peers of s that are said to hold the namespace
    Mirror,   \* servers that store the namespace
    MaxHops,  \* max_hops
    Request   \* the request: "write" or "export"

ASSUME CascadeAssumption ==
    /\ Entry \in Server /\ Mirror \subseteq Server
    /\ Peers \in [Server -> SUBSET Server]
    /\ MaxHops \in Nat
    /\ Request \in {"write", "export"}

VARIABLES
    calls,    \* the calls made so far, by route
    counted   \* how often each mirror counted the write

vars == <<calls, counted>>

Status == {"ok", "refused", "no holder", "loop", "bad gateway"}

\* What the handler of a call is doing: it has yet to look at the request, it
\* has peers left to send to, it waits for one, or it has answered.
Call == [pc : {"arrived", "sending", "waiting"} \cup Status,
         todo : SUBSET Server, peer : Server, accepted : BOOLEAN]

Arrived(s) == [pc |-> "arrived", todo |-> {}, peer |-> s, accepted |-> FALSE]

At(route) == route[Len(route)]

\* The hops a call may still take.  A client's write has no hops header and gets
\* the budget, a server's has one less than it had left; an export is sent on
\* with the budget of whoever sends it.
HopsLeft(route) == IF Request = "export" THEN MaxHops ELSE MaxHops - (Len(route) - 1)

\* The peers a request is sent to: those that answered their last probe, or one.
Targets(s) ==
    IF Request = "export" THEN {{p} : p \in Peers[s]} ELSE SUBSET Peers[s] \ {{}}

\* What handling the request does to a mirror.
Count(m) ==
    counted' = IF Request = "export" THEN counted ELSE [counted EXCEPT ![m] = @ + 1]

Init ==
    /\ calls = [r \in {<<Entry>>} |-> Arrived(Entry)]
    /\ counted = [m \in Mirror |-> 0]

\* Mutant: a request that may not go further is sent on all the same.
HandleForever(r) ==
    LET s == At(r) IN
      /\ calls[r].pc = "arrived"
      /\ IF s \in Mirror
         THEN /\ counted' = [counted EXCEPT ![s] = @ + 1]
              /\ calls' = [calls EXCEPT ![r].pc = "ok"]
         ELSE /\ \E live \in SUBSET Peers[s] :
                   calls' = [calls EXCEPT ![r].pc = IF live = {} THEN "bad gateway" ELSE "sending",
                                          ![r].todo = live]
              /\ UNCHANGED counted

\* The handler.  A server that stores the namespace counts the write, or
\* refuses it (the key may not write, the request is malformed); another passes
\* it on.
Handle(r) ==
    LET s == At(r)
        Refuse(status) == calls' = [calls EXCEPT ![r].pc = status] /\ UNCHANGED counted
    IN /\ calls[r].pc = "arrived"
       /\ \/ Refuse("refused")
          \/ s \in Mirror /\ Count(s) /\ calls' = [calls EXCEPT ![r].pc = "ok"]
          \/ s \notin Mirror /\ HopsLeft(r) = 0 /\ Refuse("loop")
          \/ s \notin Mirror /\ HopsLeft(r) > 0 /\ Peers[s] = {} /\ Refuse("no holder")
          \/ s \notin Mirror /\ HopsLeft(r) > 0 /\ Peers[s] # {} /\ Refuse("bad gateway")
          \/ /\ s \notin Mirror /\ HopsLeft(r) > 0
             /\ \E live \in Targets(s) :
                   calls' = [calls EXCEPT ![r].pc = "sending", ![r].todo = live]
             /\ UNCHANGED counted

\* send: the peer gets the request, with a hop less, or never does.
Send(r, p) ==
    /\ calls[r].pc = "sending" /\ p \in calls[r].todo
    /\ LET sent == [calls EXCEPT ![r].pc = "waiting", ![r].peer = p, ![r].todo = @ \ {p}]
           to   == Append(r, p)
       IN  \/ calls' = sent
           \/ calls' = [q \in DOMAIN calls \cup {to} |-> IF q = to THEN Arrived(p) ELSE sent[q]]
    /\ UNCHANGED counted

\* On to the next peer; after the last, success if any peer accepted the write.
Onward(c) ==
    [c EXCEPT !.pc = IF c.todo # {} THEN "sending"
                     ELSE IF c.accepted THEN "ok" ELSE "bad gateway"]

\* Mutant: any answer is taken for success.
HearAnything(r) ==
    LET to == Append(r, calls[r].peer) IN
      /\ calls[r].pc = "waiting"
      /\ to \in DOMAIN calls /\ calls[to].pc \in Status
      /\ calls' = [calls EXCEPT ![r] = Onward([@ EXCEPT !.accepted = TRUE])]
      /\ UNCHANGED counted

\* The peer's answer arrives.
Hear(r) ==
    LET to       == Append(r, calls[r].peer)
        accepted == calls[r].accepted \/ calls[to].pc = "ok"
    IN /\ calls[r].pc = "waiting"
       /\ to \in DOMAIN calls /\ calls[to].pc \in Status
       /\ calls' = [calls EXCEPT ![r] = Onward([@ EXCEPT !.accepted = accepted])]
       /\ UNCHANGED counted

\* Mutant: requests have no time limit.
TimeOutNever(r) == FALSE /\ calls[r].pc = "waiting" /\ UNCHANGED vars

\* No answer in time.  The peer, if the request reached it, goes on.
TimeOut(r) ==
    /\ calls[r].pc = "waiting"
    /\ calls' = [calls EXCEPT ![r] = Onward(@)]
    /\ UNCHANGED counted

Step(r) == Handle(r) \/ Hear(r) \/ TimeOut(r) \/ \E p \in Server : Send(r, p)

Next == \E r \in DOMAIN calls : Step(r)

\* Handlers run, and every send has a time limit.
Spec == Init /\ [][Next]_vars /\ WF_vars(Next)

-----------------------------------------------------------------------------
\* Calls are well formed, whatever the wiring.
TypeOK ==
    /\ <<Entry>> \in DOMAIN calls
    /\ \A r \in DOMAIN calls : r \in Seq(Server) /\ Len(r) > 0 /\ calls[r] \in Call
    /\ counted \in [Mirror -> Nat]

\* However the galaxy is wired, no chain of calls is longer than the budget:
\* a loop dies out (hops_left, send).
HopsBounded == \A r \in DOMAIN calls : Len(r) <= MaxHops + 1

\* A client is told its write succeeded only when some mirror has counted it,
\* however many servers relayed the answer (forward_write, write).
AckedIsCounted == calls[<<Entry>>].pc = "ok" => \E m \in Mirror : counted[m] > 0

\* The client is answered, whatever is lost, and in a loop too.
Answered == <>(calls[<<Entry>>].pc \in Status)
=============================================================================

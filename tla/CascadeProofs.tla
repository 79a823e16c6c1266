---------------------------- MODULE CascadeProofs ----------------------------
(***************************************************************************)
(* Proofs about Cascade, for any number of servers, any wiring and any hop *)
(* budget: a write dies out, and an acknowledged one was counted.          *)
(***************************************************************************)
EXTENDS Cascade, TLAPS

\* A call that sends on has a hop left to spend (hops_left, before send).
SendersHaveHops ==
    \A r \in DOMAIN calls : calls[r].pc \in {"sending", "waiting"} => Len(r) <= MaxHops

\* Success, heard or answered, comes from a mirror that counted (Handle, Hear).
SuccessIsCounted ==
    \A r \in DOMAIN calls : calls[r].pc = "ok" \/ calls[r].accepted =>
        \E m \in Mirror : counted[m] > 0

Inv == TypeOK /\ HopsBounded /\ SendersHaveHops /\ SuccessIsCounted

-----------------------------------------------------------------------------
\* One call changes: its new record is a call, a sender only where the budget
\* allows, and successful only if a mirror counted.  The invariant survives.
LEMMA OneCallChanges ==
    ASSUME Inv, NEW r \in DOMAIN calls, NEW c \in Call,
           calls' = [calls EXCEPT ![r] = c], counted' \in [Mirror -> Nat],
           \A m \in Mirror : counted'[m] >= counted[m],
           c.pc \in {"sending", "waiting"} => Len(r) <= MaxHops,
           c.pc = "ok" \/ c.accepted => \E m \in Mirror : counted'[m] > 0
    PROVE  Inv'
<1>1. DOMAIN calls' = DOMAIN calls /\ calls'[r] = c
      /\ \A q \in DOMAIN calls : q # r => calls'[q] = calls[q]
  OBVIOUS
<1>2. TypeOK'
  BY <1>1 DEF Inv, TypeOK
<1>3. HopsBounded'
  BY <1>1 DEF Inv, HopsBounded
<1>4. SendersHaveHops'
  BY <1>1 DEF Inv, SendersHaveHops
<1>5. SuccessIsCounted'
  <2> SUFFICES ASSUME NEW q \in DOMAIN calls, calls'[q].pc = "ok" \/ calls'[q].accepted
               PROVE  \E m \in Mirror : counted'[m] > 0
    BY <1>1 DEF SuccessIsCounted
  <2>1. CASE q = r
    BY <2>1, <1>1
  <2>2. CASE q # r
    <3>1. PICK m \in Mirror : counted[m] > 0
      BY <2>2, <1>1 DEF Inv, SuccessIsCounted
    <3>2. counted'[m] > 0
      BY <3>1 DEF Inv, TypeOK
    <3> QED  BY <3>2
  <2> QED  BY <2>1, <2>2
<1> QED  BY <1>2, <1>3, <1>4, <1>5 DEF Inv

\* A write arrives at its entry point with the whole budget.
LEMMA InitInv == ASSUME Init PROVE Inv
<1>1. DOMAIN calls = {<<Entry>>} /\ calls[<<Entry>>] = Arrived(Entry)
  BY DEF Init
<1>2. Arrived(Entry) \in Call /\ Arrived(Entry).pc = "arrived" /\ ~Arrived(Entry).accepted
  BY CascadeAssumption DEF Arrived, Call
<1>3. <<Entry>> \in Seq(Server) /\ Len(<<Entry>>) = 1
  BY CascadeAssumption
<1>4. TypeOK
  <2>1. counted \in [Mirror -> Nat]
    BY DEF Init
  <2> QED  BY <1>1, <1>2, <1>3, <2>1 DEF TypeOK
<1>5. HopsBounded /\ SendersHaveHops /\ SuccessIsCounted
  BY <1>1, <1>2, <1>3, CascadeAssumption DEF HopsBounded, SendersHaveHops, SuccessIsCounted
<1> QED  BY <1>4, <1>5 DEF Inv

\* The handler of a write: it counts, gives up, or sends on with a hop to spend.
LEMMA HandleInv == ASSUME Inv, Request = "write", NEW r \in DOMAIN calls, Handle(r) PROVE Inv'
<1> DEFINE s == At(r)
           Now(c) == calls' = [calls EXCEPT ![r] = c]
<1>1. /\ calls[r] \in Call /\ r \in Seq(Server) /\ Len(r) > 0
      /\ counted \in [Mirror -> Nat] /\ MaxHops \in Nat
  BY CascadeAssumption DEF Inv, TypeOK
<1>2. s \in Server
  BY <1>1 DEF At
<1>3. Len(r) \in Nat /\ (calls[r].accepted => \E m \in Mirror : counted[m] > 0)
  BY <1>1 DEF Inv, SuccessIsCounted
<1>4. ASSUME NEW status \in Status \ {"ok"}, calls' = [calls EXCEPT ![r].pc = status],
             counted' = counted
      PROVE  Inv'
  <2> DEFINE c == [calls[r] EXCEPT !.pc = status]
  <2>1. c \in Call /\ c.pc \notin {"sending", "waiting", "ok"} /\ c.accepted = calls[r].accepted
    BY <1>1 DEF Call, Status
  <2>2. Now(c)
    BY <1>4
  <2>3. \A m \in Mirror : counted'[m] >= counted[m]
    BY <1>1, <1>4
  <2> HIDE DEF c
  <2> QED  BY <1>1, <1>3, <1>4, <2>1, <2>2, <2>3, OneCallChanges
<1>5. ASSUME s \in Mirror, Count(s), calls' = [calls EXCEPT ![r].pc = "ok"]
      PROVE  Inv'
  <2> DEFINE c == [calls[r] EXCEPT !.pc = "ok"]
  <2>1. c \in Call /\ c.pc = "ok"
    BY <1>1 DEF Call, Status
  <2>2. Now(c)
    BY <1>5
  <2>3. /\ counted' \in [Mirror -> Nat] /\ counted'[s] > 0
        /\ \A m \in Mirror : counted'[m] >= counted[m]
    BY <1>1, <1>5 DEF Count
  <2> HIDE DEF c, s
  <2> QED  BY <1>1, <1>5, <2>1, <2>2, <2>3, OneCallChanges
<1>6. ASSUME HopsLeft(r) > 0, counted' = counted, NEW live \in Targets(s),
             calls' = [calls EXCEPT ![r].pc = "sending", ![r].todo = live]
      PROVE  Inv'
  <2> DEFINE c == [calls[r] EXCEPT !.pc = "sending", !.todo = live]
  <2>1. live \subseteq Server
    BY <1>2, CascadeAssumption DEF Targets
  <2>2. c \in Call /\ c.pc = "sending" /\ c.accepted = calls[r].accepted
    BY <1>1, <2>1 DEF Call
  <2>3. Now(c)
    BY <1>6, Zenon
  <2>4. Len(r) <= MaxHops
    BY <1>1, <1>3, <1>6 DEF HopsLeft
  <2>5. counted' \in [Mirror -> Nat] /\ \A m \in Mirror : counted'[m] >= counted[m]
    BY <1>1, <1>6
  <2>6. c.accepted => \E m \in Mirror : counted'[m] > 0
    BY <1>3, <1>6, <2>2
  <2> HIDE DEF c
  <2> QED  BY <2>2, <2>3, <2>4, <2>5, <2>6, OneCallChanges
<1> QED  BY <1>4, <1>5, <1>6 DEF Handle, Status

\* A request is sent, and may reach the peer, where it is a call of its own.
LEMMA SendInv ==
    ASSUME Inv, NEW r \in DOMAIN calls, NEW p \in Server, Send(r, p) PROVE Inv'
<1> DEFINE c == [calls[r] EXCEPT !.pc = "waiting", !.peer = p, !.todo = @ \ {p}]
           sent == [calls EXCEPT ![r] = c]
           to == Append(r, p)
<1>1. /\ calls[r] \in Call /\ r \in Seq(Server) /\ Len(r) \in Nat /\ Len(r) > 0
      /\ counted \in [Mirror -> Nat] /\ calls[r].pc = "sending" /\ counted' = counted
  BY DEF Inv, TypeOK, Send
<1>2. c \in Call /\ c.pc = "waiting" /\ c.accepted = calls[r].accepted
  BY <1>1 DEF Call
<1>3. \/ calls' = sent
      \/ calls' = [q \in DOMAIN calls \cup {to} |-> IF q = to THEN Arrived(p) ELSE sent[q]]
  BY Zenon DEF Send
<1>4. Len(r) <= MaxHops /\ (calls[r].accepted => \E m \in Mirror : counted[m] > 0)
  BY <1>1 DEF Inv, SendersHaveHops, SuccessIsCounted
<1>5. to \in Seq(Server) /\ Len(to) = Len(r) + 1 /\ MaxHops \in Nat
  BY <1>1, CascadeAssumption
<1>6. Arrived(p) \in Call /\ Arrived(p).pc = "arrived" /\ ~Arrived(p).accepted
  BY DEF Arrived, Call
<1> HIDE DEF c, to
<1>7. CASE calls' = sent
  <2>1. \A m \in Mirror : counted'[m] >= counted[m]
    BY <1>1
  <2> QED  BY <1>1, <1>2, <1>4, <1>7, <2>1, OneCallChanges
<1>8. CASE calls' = [q \in DOMAIN calls \cup {to} |-> IF q = to THEN Arrived(p) ELSE sent[q]]
  <2>1. /\ DOMAIN calls' = DOMAIN calls \cup {to} /\ calls'[to] = Arrived(p)
        /\ \A q \in DOMAIN calls : q # to => calls'[q] = IF q = r THEN c ELSE calls[q]
    BY <1>8
  <2>2. TypeOK'
    <3>1. <<Entry>> \in DOMAIN calls' /\ counted' \in [Mirror -> Nat]
      BY <1>1, <2>1 DEF Inv, TypeOK
    <3>2. \A q \in DOMAIN calls : q \in Seq(Server) /\ Len(q) > 0 /\ calls[q] \in Call
      BY DEF Inv, TypeOK
    <3>3. ASSUME NEW q \in DOMAIN calls'
          PROVE  q \in Seq(Server) /\ Len(q) > 0 /\ calls'[q] \in Call
      <4>1. CASE q = to
        BY <1>1, <1>5, <1>6, <2>1, <4>1
      <4>2. CASE q # to
        BY <1>2, <2>1, <3>2, <4>2
      <4> QED  BY <4>1, <4>2
    <3> QED  BY <3>1, <3>3 DEF TypeOK
  <2>3. HopsBounded'
    BY <1>1, <1>4, <1>5, <2>1 DEF Inv, HopsBounded
  <2>4. SendersHaveHops'
    BY <1>2, <1>4, <1>6, <2>1 DEF Inv, SendersHaveHops
  <2>5. SuccessIsCounted'
    BY <1>1, <1>2, <1>4, <1>6, <2>1 DEF Inv, SuccessIsCounted
  <2> QED  BY <2>2, <2>3, <2>4, <2>5 DEF Inv
<1> QED  BY <1>3, <1>7, <1>8

\* A handler that has heard from a peer, or has waited long enough, goes on:
\* it reports success only if it heard of it.
LEMMA OnwardInv ==
    ASSUME Inv, NEW r \in DOMAIN calls, calls[r].pc = "waiting", NEW accepted \in BOOLEAN,
           accepted => \E m \in Mirror : counted[m] > 0,
           calls' = [calls EXCEPT ![r] = Onward([@ EXCEPT !.accepted = accepted])],
           counted' = counted
    PROVE  Inv'
<1> DEFINE c == Onward([calls[r] EXCEPT !.accepted = accepted])
<1>1. calls[r] \in Call /\ counted \in [Mirror -> Nat] /\ Len(r) <= MaxHops
  BY DEF Inv, TypeOK, SendersHaveHops
<1>2. c \in Call /\ c.accepted = accepted /\ (c.pc = "ok" => accepted)
  BY <1>1 DEF Onward, Call, Status
<1>3. calls' = [calls EXCEPT ![r] = c]
  OBVIOUS
<1>4. counted' \in [Mirror -> Nat] /\ \A m \in Mirror : counted'[m] >= counted[m]
  BY <1>1
<1>5. c.pc = "ok" \/ c.accepted => \E m \in Mirror : counted'[m] > 0
  BY <1>2
<1> HIDE DEF c
<1> QED  BY <1>1, <1>2, <1>3, <1>4, <1>5, OneCallChanges

\* An answer is taken for what it is.
LEMMA HearInv == ASSUME Inv, NEW r \in DOMAIN calls, Hear(r) PROVE Inv'
<1> DEFINE to == Append(r, calls[r].peer)
           accepted == calls[r].accepted \/ calls[to].pc = "ok"
<1>1. /\ calls[r].pc = "waiting" /\ to \in DOMAIN calls /\ counted' = counted
      /\ calls' = [calls EXCEPT ![r] = Onward([@ EXCEPT !.accepted = accepted])]
  BY Zenon DEF Hear
<1>2. calls[r].accepted \in BOOLEAN
  BY DEF Inv, TypeOK, Call
<1>3. accepted => \E m \in Mirror : counted[m] > 0
  BY <1>1 DEF Inv, SuccessIsCounted
<1> HIDE DEF to
<1>4. accepted \in BOOLEAN
  BY <1>2
<1> HIDE DEF accepted
<1> QED  BY <1>1, <1>3, <1>4, OnwardInv

\* A time-out is no answer.
LEMMA TimeOutInv == ASSUME Inv, NEW r \in DOMAIN calls, TimeOut(r) PROVE Inv'
<1>1. calls[r].pc = "waiting" /\ counted' = counted /\ calls' = [calls EXCEPT ![r] = Onward(@)]
  BY DEF TimeOut
<1>2. calls[r] \in Call /\ calls[r].accepted \in BOOLEAN
  BY DEF Inv, TypeOK, Call
<1>3. calls[r] = [calls[r] EXCEPT !.accepted = calls[r].accepted]
  BY <1>2 DEF Call
<1>4. calls' = [calls EXCEPT ![r] = Onward([@ EXCEPT !.accepted = calls[r].accepted])]
  BY <1>1, <1>3
<1>5. calls[r].accepted => \E m \in Mirror : counted[m] > 0
  BY DEF Inv, SuccessIsCounted
<1> QED  BY <1>1, <1>2, <1>4, <1>5, OnwardInv

-----------------------------------------------------------------------------
\* A write that is passed along any galaxy keeps to the invariant.
THEOREM WriteInvariant == ASSUME Request = "write" PROVE Spec => []Inv
<1>1. Init => Inv
  BY InitInv
<1>2. Inv /\ [Next]_vars => Inv'
  <2> SUFFICES ASSUME Inv, [Next]_vars PROVE Inv'
    OBVIOUS
  <2>1. CASE UNCHANGED vars
    BY <2>1 DEF vars, Inv, TypeOK, HopsBounded, SendersHaveHops, SuccessIsCounted
  <2>2. ASSUME NEW r \in DOMAIN calls, Step(r) PROVE Inv'
    BY <2>2, HandleInv, HearInv, TimeOutInv, SendInv DEF Step
  <2> QED  BY <2>1, <2>2 DEF Next
<1> QED  BY <1>1, <1>2, PTL DEF Spec

\* Whatever the wiring, a write takes no more than max_hops hops: hops_left is
\* checked before every send and every send spends one.
THEOREM WriteDiesOut == ASSUME Request = "write" PROVE Spec => []HopsBounded
<1>1. Inv => HopsBounded
  BY DEF Inv
<1> QED  BY <1>1, WriteInvariant, PTL

\* The client of a write is told of success only if some mirror counted it,
\* through however many servers the answer came (write, forward_write).
THEOREM AckMeansCounted == ASSUME Request = "write" PROVE Spec => []AckedIsCounted
<1>1. Inv => AckedIsCounted
  BY DEF Inv, TypeOK, SuccessIsCounted, AckedIsCounted
<1> QED  BY <1>1, WriteInvariant, PTL
=============================================================================

--------------------------------- MODULE Dns ---------------------------------
(***************************************************************************)
(* The DNS responder: which value a name asks for (dns/name.rs), what is   *)
(* answered (dns/answer.rs), and which sources are heard (dns/server.rs).  *)
(*                                                                         *)
(* A query carries its opcode, its class, its type and, when it has a      *)
(* question, a name: outside the zone, its apex, or a label of the zone    *)
(* over value labels.  Value labels are of a form, and spell a value.      *)
(***************************************************************************)
EXTENDS Naturals, Sequences, TLC

CONSTANTS Exposed,      \* label |-> [ns, encoding]
          RateLimit,    \* queries a second per source; 0 is no limit
          NoValue

(***************************************************************************)
(* Names.                                                                  *)
(***************************************************************************)

\* Labels are lowercased, and an address is spelt canonically; base32 is exact.
Canonical(value) == [value EXCEPT !.odd = FALSE]

Decode(labels, encoding) ==
    CASE encoding = "ip" -> IF labels.form = "ip" THEN Canonical(labels.value) ELSE NoValue
      [] encoding = "domain" -> IF labels.form = "domain" THEN Canonical(labels.value)
                                ELSE [Canonical(labels.value) EXCEPT !.text = labels.form]
      [] encoding = "base32" -> IF labels.form = "base32" THEN labels.value ELSE NoValue

Resolve(name) ==
    IF name.label \notin DOMAIN Exposed THEN NoValue
    ELSE LET value == Decode(name.labels, Exposed[name.label].encoding)
         IN IF value = NoValue THEN NoValue
            ELSE [ns |-> Exposed[name.label].ns, value |-> value]

(***************************************************************************)
(* Answers.  `count' is how often the value has been seen, 0 if never.     *)
(***************************************************************************)

Magnitude(count) ==
    CASE count = 0 -> 0
      [] count = 1 -> 1
      [] count > 1 /\ count < 10 -> 2
      [] count >= 10 /\ count < 100 -> 3
      [] count >= 100 /\ count < 1000 -> 4
      [] count >= 1000 /\ count < 10000 -> 5
      [] count >= 10000 /\ count < 100000 -> 6
      [] count >= 100000 /\ count < 1000000 -> 7
      [] count >= 1000000 /\ count < 10000000 -> 8
      [] OTHER -> 9

Reply(code, answers, soa) == [code |-> code, answers |-> answers, soa |-> soa]
NoData == Reply("NoError", {}, TRUE)
NxDomain == Reply("NXDomain", {}, TRUE)

AnswerApex(qtype) ==
    IF qtype \in {"SOA", "NS"} THEN Reply("NoError", {<<qtype>>}, FALSE) ELSE NoData

AnswerValue(qtype, count) ==
    LET a == <<"A", Magnitude(count)>>
        txt == <<"TXT", count>>
    IN CASE count = 0 -> NxDomain
         [] count > 0 /\ qtype = "A" -> Reply("NoError", {a}, FALSE)
         [] count > 0 /\ qtype = "TXT" -> Reply("NoError", {txt}, FALSE)
         [] count > 0 /\ qtype = "ANY" -> Reply("NoError", {a, txt}, FALSE)
         [] OTHER -> NoData

\* Whether answering means looking a value up, and which.
LooksUp(query) ==
    IF query.op = "query" /\ query.class = "IN" /\ query.name.place = "under"
    THEN Resolve(query.name) ELSE NoValue

Respond(query, count) ==
    CASE query.op # "query" -> Reply("NotImp", {}, FALSE)
      [] query.op = "query" /\ query.name.place = "none" -> Reply("FormErr", {}, FALSE)
      [] query.op = "query" /\ query.name.place # "none" ->
            IF query.class # "IN" THEN Reply("NotImp", {}, FALSE)
            ELSE CASE query.name.place = "outside" -> Reply("Refused", {}, FALSE)
                   [] query.name.place = "apex" -> AnswerApex(query.type)
                   [] query.name.place = "under" ->
                        IF Resolve(query.name) = NoValue THEN NxDomain
                        ELSE AnswerValue(query.type, count)

(***************************************************************************)
(* The rate limiter: one window a second, per source.                      *)
(***************************************************************************)

NewLimiter == [window |-> 0, counts |-> <<>>]

Counted(limiter, source, window) ==
    LET counts == IF limiter.window # window THEN <<>> ELSE limiter.counts
        n == IF source \in DOMAIN counts THEN counts[source] ELSE 0
    IN [window |-> window, counts |-> (source :> n + 1) @@ counts]

\* Mutant: one query over the limit is let through.
WithinPlusOne(limiter, source) ==
    RateLimit = 0 \/ limiter.counts[source] <= RateLimit + 1

Within(limiter, source) ==
    RateLimit = 0 \/ limiter.counts[source] <= RateLimit
=============================================================================

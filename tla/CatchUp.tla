------------------------------- MODULE CatchUp -------------------------------
(***************************************************************************)
(* A router and the mirrors of one namespace (src/galaxy.rs).  The router  *)
(* forwards writes to the mirrors it believes alive, reads to one of them, *)
(* probes their health on a timer and now and then rebuilds its consensus  *)
(* tally from what they hold.  A mirror that starts says it is catching    *)
(* up, pulls its peers' copies page by page, then says it is current; from *)
(* then on it pulls only when a peer holds more values than it does.       *)
(*                                                                         *)
(* A value is held or not: how two counts of it merge is module Mirrors.   *)
(***************************************************************************)
EXTENDS Naturals, Sequences, FiniteSets, SequencesExt, Functions

CONSTANTS
    Mirror,
    Value,      \* values, in the order pages list them
    Peers,      \* the router's peers, in the order they were configured
    Rank,       \* value -> the mirrors by rendezvous weight, greatest first
    Page,       \* values on a page
    Config,     \* the settings considered: which periodic tasks come round (probe, sync,
                \* reconcile), whom each mirror pulls from, in order (pulls), what it has
                \* saved (start), what is written (writes)
    MaxEdits,   \* bound: values removed, and peers taken out of service or put back
    MaxFaults,  \* bound: crashes, and messages lost
    Failed,     \* a probe that got no answer
    None

ASSUME CatchUpAssumption ==
    /\ Value \subseteq Nat /\ Page \in Nat \ {0}
    /\ Range(Peers) = Mirror
    /\ \A c \in Config, m \in Mirror : Range(c.pulls[m]) \subseteq Mirror \ {m}

VARIABLES
    db,       \* mirror -> the values it holds
    up,       \* mirror -> whether it runs
    joining,  \* mirror -> whether it says it is catching up
    sync,     \* mirror -> its catch-up task
    enabled,  \* the router's peers in service
    health,   \* the router's last probe of each peer, or None
    probe,    \* the router's health task
    write,    \* the write the router forwards, or None
    acked,    \* the values whose write was answered
    tally,    \* value -> the router's count of namespaces that hold it
    survey,   \* the router's reconciliation task
    config, edits, faults

mirrors == <<db, up, joining, sync>>
router  == <<enabled, health, probe, write, acked, tally, survey>>
vars    == <<db, up, joining, sync, enabled, health, probe, write, acked, tally, survey,
             config, edits, faults>>

AtRest    == [at |-> "rest", first |-> TRUE, todo |-> <<>>, offset |-> 0, owed |-> {}]
NoSurvey  == [at |-> "rest", todo |-> <<>>, offset |-> 0, seen |-> FALSE, found |-> {}]
NotAsking == [todo |-> <<>>, said |-> None]

Fault == faults < MaxFaults /\ faults' = faults + 1

-----------------------------------------------------------------------------
(* Which peers the router uses.                                            *)

\* live_holders: a peer not probed yet counts as alive.
LiveHolders ==
    SelectSeq(Peers, LAMBDA p : p \in enabled /\ (health[p] = None \/ health[p].online))

Behind == {p \in Mirror : health[p] # None /\ health[p].catching_up}

\* reader_for: the heaviest of those that are current, or of all if none is.
ReaderFor(v) ==
    LET live    == Range(LiveHolders)
        current == live \ Behind
        from    == IF current = {} THEN live ELSE current
    IN  IF from = {} THEN None ELSE SelectSeq(Rank[v], LAMBDA p : p \in from)[1]

\* record: an answer replaces what was known, an error keeps what the peer said last.
Recorded(was, said) ==
    IF said # Failed THEN said
    ELSE [online |-> FALSE, catching_up |-> was # None /\ was.catching_up]

\* run: a round asks the peers in service when it began, one after another.
BeginProbes ==
    /\ config.probe /\ probe = NotAsking
    /\ probe' = [NotAsking EXCEPT !.todo = SelectSeq(Peers, LAMBDA p : p \in enabled)]
    /\ probe'.todo # <<>>
    /\ UNCHANGED <<mirrors, enabled, health, write, acked, tally, survey, config, edits, faults>>

\* The answer of /health, or the failure to get one.
Answer ==
    /\ probe.todo # <<>> /\ probe.said = None
    /\ LET p == Head(probe.todo) IN
         probe' = [probe EXCEPT !.said =
            IF up[p] THEN [online |-> TRUE, catching_up |-> joining[p]] ELSE Failed]
    /\ UNCHANGED <<mirrors, enabled, health, write, acked, tally, survey, config, edits, faults>>

LoseProbe ==
    /\ probe.todo # <<>> /\ probe.said = None /\ Fault
    /\ probe' = [probe EXCEPT !.said = Failed]
    /\ UNCHANGED <<mirrors, enabled, health, write, acked, tally, survey, config, edits>>

\* By now the peer may have been taken out of service.
Record ==
    /\ probe.said # None
    /\ health' = [health EXCEPT ![Head(probe.todo)] = Recorded(@, probe.said)]
    /\ probe' = [todo |-> Tail(probe.todo), said |-> None]
    /\ UNCHANGED <<mirrors, enabled, write, acked, tally, survey, config, edits, faults>>

\* set_enabled: the health is forgotten, whichever way the switch goes.
SetEnabled(p) ==
    /\ edits < MaxEdits /\ edits' = edits + 1
    /\ enabled' = IF p \in enabled THEN enabled \ {p} ELSE enabled \cup {p}
    /\ health' = [health EXCEPT ![p] = None]
    /\ UNCHANGED <<mirrors, probe, write, acked, tally, survey, config, faults>>

-----------------------------------------------------------------------------
(* forward_write: to each live holder in turn; the first answer counts.    *)

BeginWrite(v) ==
    /\ write = None /\ v \in config.writes \ acked /\ LiveHolders # <<>>
    /\ write' = [value |-> v, todo |-> LiveHolders, new |-> None]
    /\ UNCHANGED <<mirrors, enabled, health, probe, acked, tally, survey, config, edits, faults>>

\* A mirror takes the value and says whether it was new to it.
SendWrite ==
    /\ write # None /\ write.todo # <<>>
    /\ LET p == Head(write.todo) IN
         /\ db' = IF up[p] THEN [db EXCEPT ![p] = @ \cup {write.value}] ELSE db
         /\ write' = [write EXCEPT !.todo = Tail(@),
               !.new = IF up[p] /\ @ = None THEN write.value \notin db[p] ELSE @]
    /\ UNCHANGED <<up, joining, sync, enabled, health, probe, acked, tally, survey, config, edits, faults>>

\* The request is lost, or its answer is.
LoseWrite(arrives) ==
    /\ write # None /\ write.todo # <<>> /\ Fault
    /\ LET p == Head(write.todo) IN
         db' = IF arrives /\ up[p] THEN [db EXCEPT ![p] = @ \cup {write.value}] ELSE db
    /\ write' = [write EXCEPT !.todo = Tail(@)]
    /\ UNCHANGED <<up, joining, sync, enabled, health, probe, acked, tally, survey, config, edits>>

\* The client is answered, and note_consensus counts a value said to be new.
EndWrite ==
    /\ write # None /\ write.todo = <<>>
    /\ acked' = IF write.new = None THEN acked ELSE acked \cup {write.value}
    /\ tally' = IF write.new = TRUE THEN [tally EXCEPT ![write.value] = @ + 1] ELSE tally
    /\ write' = None
    /\ UNCHANGED <<mirrors, enabled, health, probe, survey, config, edits, faults>>

-----------------------------------------------------------------------------
(* merge_page: values in order, from an offset.                            *)

Listing(p) == SetToSortSeq(db[p], <)

\* Mutant: one value is passed over between two pages.
PageSkipping(p, offset) ==
    LET from == IF offset = 0 THEN 1 ELSE offset + 2
        to   == IF from + Page - 1 > Len(Listing(p)) THEN Len(Listing(p)) ELSE from + Page - 1
    IN  SubSeq(Listing(p), from, to)

PageFrom(p, offset) ==
    LET to == IF offset + Page > Len(Listing(p)) THEN Len(Listing(p)) ELSE offset + Page
    IN  SubSeq(Listing(p), offset + 1, to)

LastPage(p, offset) ==
    LET taken == Len(PageFrom(p, offset))
    IN  taken = 0 \/ offset + taken >= Len(Listing(p))

-----------------------------------------------------------------------------
(* sync and catch_up: a mirror pulls what it missed.                       *)

\* A mirror that pulls from nobody, or not at all, has nothing to be behind on.
StartSync(m) ==
    /\ up[m] /\ sync[m].at = "boot"
    /\ joining' = [joining EXCEPT ![m] = @ /\ config.sync /\ config.pulls[m] # <<>>]
    /\ sync' = [sync EXCEPT ![m].at = "rest"]
    /\ UNCHANGED <<db, up, router, config, edits, faults>>

BeginPass(m) ==
    /\ up[m] /\ sync[m].at = "rest" /\ config.sync /\ config.pulls[m] # <<>>
    /\ sync' = [sync EXCEPT ![m].at = "list", ![m].todo = config.pulls[m]]
    /\ UNCHANGED <<db, up, joining, router, config, edits, faults>>

\* Mutant: the flag is cleared after a pass that found something only.
PassOverIfTaken(m) ==
    LET rest == Tail(sync[m].todo) IN
    /\ sync' = [sync EXCEPT ![m] =
          [at |-> IF rest = <<>> THEN "rest" ELSE "list", first |-> sync[m].first /\ rest # <<>>,
           todo |-> rest, offset |-> 0, owed |-> {}]]
    /\ joining' = [joining EXCEPT ![m] = @ /\ (rest # <<>> \/ sync[m].at # "pull")]

\* On to the next peer.  After the last one of the first pass the server is
\* current, whether its peers answered or not.
NextPeer(m) ==
    LET rest == Tail(sync[m].todo) IN
    /\ sync' = [sync EXCEPT ![m] =
          [at |-> IF rest = <<>> THEN "rest" ELSE "list", first |-> sync[m].first /\ rest # <<>>,
           todo |-> rest, offset |-> 0, owed |-> {}]]
    /\ joining' = [joining EXCEPT ![m] = @ /\ (rest # <<>> \/ ~sync[m].first)]

StartPull(m, p) ==
    /\ sync' = [sync EXCEPT ![m].at = "pull", ![m].offset = 0, ![m].owed = db[p]]
    /\ UNCHANGED joining

\* namespaces_of: a first pass pulls the namespace, a later one compares first.
ListPeer(m) ==
    /\ up[m] /\ sync[m].at = "list"
    /\ LET p == Head(sync[m].todo) IN
         IF ~up[p] \/ db[p] = {} THEN NextPeer(m)
         ELSE IF sync[m].first THEN StartPull(m, p)
         ELSE sync' = [sync EXCEPT ![m].at = "count"] /\ UNCHANGED joining
    /\ UNCHANGED <<db, up, router, config, edits, faults>>

\* Mutant: a peer with fewer values is pulled from.
BehindOnFewer(m, p) == Cardinality(db[p]) < Cardinality(db[m])

\* behind_on: the peer has more values than this server.
BehindOn(m, p) == Cardinality(db[p]) > Cardinality(db[m])

ComparePeer(m) ==
    /\ up[m] /\ sync[m].at = "count"
    /\ LET p == Head(sync[m].todo) IN
         IF up[p] /\ BehindOn(m, p) THEN StartPull(m, p) ELSE NextPeer(m)
    /\ UNCHANGED <<db, up, router, config, edits, faults>>

\* pull_namespace: a page is merged, and the next asked for from where it ends.
PullPage(m) ==
    /\ up[m] /\ sync[m].at = "pull"
    /\ LET p == Head(sync[m].todo)
           offset == sync[m].offset
       IN  IF ~up[p] THEN NextPeer(m) /\ UNCHANGED db
           ELSE /\ db' = [db EXCEPT ![m] = @ \cup Range(PageFrom(p, offset))]
                /\ IF LastPage(p, offset) THEN NextPeer(m)
                   ELSE /\ sync' = [sync EXCEPT ![m].offset = @ + Len(PageFrom(p, offset))]
                        /\ UNCHANGED joining
    /\ UNCHANGED <<up, router, config, edits, faults>>

LoseSync(m) ==
    /\ up[m] /\ sync[m].at \in {"list", "count", "pull"} /\ Fault
    /\ NextPeer(m)
    /\ UNCHANGED <<db, up, router, config, edits>>

-----------------------------------------------------------------------------
(* reconcile: the router counts afresh what its peers hold.                *)

BeginSurvey ==
    /\ config.reconcile /\ survey.at = "rest"
    /\ survey' = [NoSurvey EXCEPT !.at = "list", !.todo = SelectSeq(Peers, LAMBDA p : p \in enabled)]
    /\ survey'.todo # <<>>
    /\ UNCHANGED <<mirrors, enabled, health, probe, write, acked, tally, config, edits, faults>>

\* Mutant: what the survey did not find keeps its count.
SetConsensusAdding(found) == tally' = [v \in Value |-> IF v \in found THEN 1 ELSE tally[v]]

\* set_consensus: one namespace holds a value that was found, none another.
SetConsensus(found) == tally' = [v \in Value |-> IF v \in found THEN 1 ELSE 0]

NextSurveyed(found) ==
    LET rest == Tail(survey.todo) IN
    IF rest = <<>> THEN SetConsensus(found) /\ survey' = NoSurvey
    ELSE /\ survey' = [survey EXCEPT !.at = "list", !.todo = rest, !.offset = 0, !.found = found]
         /\ UNCHANGED tally

\* An unreachable peer ends the survey with nothing changed.
SurveyFails == survey' = NoSurvey /\ UNCHANGED tally

\* A namespace is walked on the first peer that lists it.
ListSurveyed ==
    /\ survey.at = "list"
    /\ LET p == Head(survey.todo) IN
         IF ~up[p] THEN SurveyFails
         ELSE IF db[p] = {} \/ survey.seen THEN NextSurveyed(survey.found)
         ELSE survey' = [survey EXCEPT !.at = "walk", !.seen = TRUE] /\ UNCHANGED tally
    /\ UNCHANGED <<mirrors, enabled, health, probe, write, acked, config, edits, faults>>

WalkPage ==
    /\ survey.at = "walk"
    /\ LET p == Head(survey.todo)
           offset == survey.offset
           found == survey.found \cup Range(PageFrom(p, offset))
       IN  IF ~up[p] THEN SurveyFails
           ELSE IF LastPage(p, offset) THEN NextSurveyed(found)
           ELSE /\ survey' = [survey EXCEPT !.found = found, !.offset = @ + Len(PageFrom(p, offset))]
                /\ UNCHANGED tally
    /\ UNCHANGED <<mirrors, enabled, health, probe, write, acked, config, edits, faults>>

LoseSurvey ==
    /\ survey.at # "rest" /\ Fault /\ SurveyFails
    /\ UNCHANGED <<mirrors, enabled, health, probe, write, acked, config, edits>>

-----------------------------------------------------------------------------
(* What happens to a mirror.                                               *)

\* A value expires or its namespace is deleted there; a walk under way that
\* reads or fills this copy promises nothing any more.
Lapse(m, v) ==
    /\ edits < MaxEdits /\ edits' = edits + 1
    /\ up[m] /\ v \in db[m]
    /\ db' = [db EXCEPT ![m] = @ \ {v}]
    /\ sync' = [n \in Mirror |->
          IF n = m \/ (sync[n].todo # <<>> /\ Head(sync[n].todo) = m)
          THEN [sync[n] EXCEPT !.owed = {}] ELSE sync[n]]
    /\ UNCHANGED <<up, joining, router, config, faults>>

\* It keeps what it had saved.
Crash(m) ==
    /\ up[m] /\ Fault
    /\ up' = [up EXCEPT ![m] = FALSE]
    /\ \E kept \in SUBSET db[m] : db' = [db EXCEPT ![m] = kept]
    /\ sync' = [n \in Mirror |->
          IF n = m THEN AtRest
          ELSE IF sync[n].todo # <<>> /\ Head(sync[n].todo) = m
          THEN [sync[n] EXCEPT !.owed = {}] ELSE sync[n]]
    /\ UNCHANGED <<joining, router, config, edits>>

\* A server with peers starts out catching up.
Restart(m) ==
    /\ ~up[m]
    /\ up' = [up EXCEPT ![m] = TRUE]
    /\ joining' = [joining EXCEPT ![m] = TRUE]
    /\ sync' = [sync EXCEPT ![m] = [AtRest EXCEPT !.at = "boot"]]
    /\ UNCHANGED <<db, router, config, edits, faults>>

-----------------------------------------------------------------------------
Init ==
    /\ config \in Config
    /\ db = config.start
    /\ up = [m \in Mirror |-> TRUE]
    /\ joining = [m \in Mirror |-> TRUE]
    /\ sync = [m \in Mirror |-> [AtRest EXCEPT !.at = "boot"]]
    /\ enabled = Mirror
    /\ health = [m \in Mirror |-> None]
    /\ probe = NotAsking
    /\ write = None
    /\ acked = {}
    /\ tally = [v \in Value |-> 0]
    /\ survey = NoSurvey
    /\ edits = 0 /\ faults = 0

Probe  == BeginProbes \/ Answer \/ Record
Forward == SendWrite \/ EndWrite
Sync(m) == StartSync(m) \/ BeginPass(m) \/ ListPeer(m) \/ ComparePeer(m) \/ PullPage(m)
Survey == BeginSurvey \/ ListSurveyed \/ WalkPage

Faults ==
    \/ LoseProbe \/ LoseSurvey
    \/ \E arrives \in BOOLEAN : LoseWrite(arrives)
    \/ \E m \in Mirror : LoseSync(m) \/ Crash(m)

Next ==
    \/ Probe \/ Forward \/ Survey \/ Faults
    \/ \E v \in Value : BeginWrite(v)
    \/ \E m \in Mirror : Sync(m) \/ Restart(m) \/ SetEnabled(m)
    \/ \E m \in Mirror, v \in Value : Lapse(m, v)

\* Each task is a loop of its own on the server's runtime, and awaits only
\* calls that time out.
Spec == Init /\ [][Next]_vars
        /\ WF_vars(Probe) /\ WF_vars(Forward) /\ WF_vars(Survey)
        /\ \A m \in Mirror : WF_vars(Sync(m))

-----------------------------------------------------------------------------
\* A walk of a peer's copy that comes to its end has taken every value the peer
\* held when it began, whatever was written there meanwhile: pages are cut by
\* offset from a sorted listing, and a value that arrives can push others onto a
\* later page but off none (merge_page, pull_namespace).
PullTakesAll ==
    [][\A m \in Mirror :
         /\ sync[m].at = "pull" /\ sync'[m].at # "pull"
         /\ up'[m] /\ faults' = faults /\ up[Head(sync[m].todo)]
         => sync[m].owed \subseteq db'[m]]_vars

\* Once nothing fails any more, every value is read from a mirror that runs and
\* has finished catching up, if one is in service: the flag is cleared when the
\* first pass ends, the probes carry it to the router, and a late answer of a
\* probe is overtaken by the next (sync, run, record, reader_for).
ReadersCurrent ==
    config.probe => <>[](\/ \A p \in enabled : ~up[p]
         \/ \A v \in Value : /\ ReaderFor(v) # None
                             /\ up[ReaderFor(v)] /\ ~joining[ReaderFor(v)])

\* Once nothing changes any more, no mirror stays behind a peer it pulls from in
\* the number of values it holds, whichever crashes and losses came before; that
\* is all a comparison of counts can promise (sync, behind_on).
NobodyBehind ==
    config.sync =>
        <>[](\A m, p \in Mirror : up[m] /\ up[p] /\ p \in Range(config.pulls[m])
                => Cardinality(db[p]) <= Cardinality(db[m]))

\* While every peer in service runs, the router's tally comes to agree with what
\* the first of them to have the namespace holds, whatever writes it counted
\* twice, missed or undid with a survey begun before them (note_consensus,
\* rebuild_consensus, set_consensus).
TallySettles ==
    config.reconcile =>
        <>[](\/ enabled = {} \/ \E p \in enabled : ~up[p]
             \/ LET holding == SelectSeq(Peers, LAMBDA p : p \in enabled /\ db[p] # {})
                    held == IF holding = <<>> THEN {} ELSE db[holding[1]]
                IN  \A v \in Value : tally[v] = IF v \in held THEN 1 ELSE 0)
==============================================================================

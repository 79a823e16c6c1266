------------------------------ MODULE Consensus ------------------------------
(***************************************************************************)
(* The consensus tally of one server (db.rs): `_all' counts, for every     *)
(* value, the namespaces that hold it.  It is kept by hand: a write that   *)
(* brings a value into a namespace adds one, in a critical section of its  *)
(* own; a sweep and a deletion give it back, in others.  A search for the   *)
(* namespaces that hold a value counts on it to know when to stop.         *)
(*                                                                         *)
(* Namespaces are never evicted here: eviction changes neither what a      *)
(* namespace holds nor the tally (module Store).  A value is there until   *)
(* a sweep finds it expired.  An object is one Arc<Namespace>; its content *)
(* is the set of values it holds.                                          *)
(***************************************************************************)
EXTENDS Naturals, FiniteSets

CONSTANTS
    Name,          \* namespaces that count towards consensus
    Value,         \* values
    Request,       \* concurrent requests
    DeleteAlone,   \* whether deletions are kept from overlapping anything else
    Obj,           \* objects: one per name, request and swept name are enough
    ExpiresEarly,  \* whether a value may expire before its write returns
    OneValue,      \* a bound: a behaviour with a search in it writes no other value
    None

ASSUME ConsensusAssumption ==
    /\ DeleteAlone \in BOOLEAN /\ ExpiresEarly \in BOOLEAN /\ OneValue \in BOOLEAN
    /\ None \notin Obj \cup Name \cup Value
    /\ IsFiniteSet(Name) /\ IsFiniteSet(Request) /\ IsFiniteSet(Obj)
    /\ Cardinality(Obj) >= 2 * Cardinality(Name) + Cardinality(Request)

VARIABLES
    map,    \* the object of each name, or None
    heap,   \* the values in each object
    tally,  \* the count of each value in _all
    req,    \* the state of each request
    sweep,  \* the sweeper thread
    search  \* a search for one value, from the management interface

vars == <<map, heap, tally, req, sweep, search>>

NoRequest == [pc |-> "idle", name |-> None, obj |-> None, value |-> None, values |-> {}]
NotSweeping == [pc |-> "idle", entries |-> <<>>, todo |-> {}, cur |-> None,
                values |-> {}, emptied |-> {}]

\* `before' and `alone' are for the properties: what held the value when the
\* search began, and whether it was never being written meanwhile.
NotSearching == [pc |-> "idle", value |-> None, target |-> 0, visible |-> {}, limit |-> 1, todo |-> {},
                 seen |-> 0, found |-> {}, truncated |-> FALSE, before |-> {}, alone |-> TRUE]

\* Handles on objects, the map's apart.
Entries(n) == sweep.entries[n]
Swept == {Entries(n) : n \in DOMAIN sweep.entries}
Taken(ts) == {req[t].obj : t \in ts}
Held == Swept \cup Taken(Request)
Mapped == {map[n] : n \in Name}
Free == Obj \ (Held \cup Mapped)

\* An object nobody has a handle on is gone, with what was in it.
Kept(h, live) == [o \in Obj |-> IF o \in live THEN h[o] ELSE {}]

\* The namespaces that hold a value.
Holders(v) == {n \in Name : map[n] # None /\ v \in heap[map[n]]}

Init ==
    /\ map = [n \in Name |-> None]
    /\ heap = [o \in Obj |-> {}]
    /\ tally = [v \in Value |-> 0]
    /\ req = [t \in Request |-> NoRequest]
    /\ sweep = NotSweeping
    /\ \/ search = NotSearching
       \/ \E v \in Value, visible \in (SUBSET Name) \ {{}} :
             \E limit \in 1..Cardinality(visible) :
                search = [NotSearching EXCEPT !.value = v, !.visible = visible, !.limit = limit]

\* The values that may be written beside a search.
Writable(v) == OneValue => search.value \in {None, v}

\* Nobody is in the middle of anything.
Quiet == sweep.pc = "idle" /\ \A t \in Request : req[t].pc = "idle"

\* What the clients and the timer leave alone when deletions are kept apart.
Deleting == \E t \in Request : req[t].pc \in {"list", "remove", "release"}
MayStart == ~(DeleteAlone /\ Deleting)

\* Namespace::release: one count back, if there is one to give.
Released(v) == [tally EXCEPT ![v] = IF @ = 0 THEN 0 ELSE @ - 1]

-----------------------------------------------------------------------------
(* record_write.                                                           *)

\* namespace_or_create: the object in the map, or a new one put there.
StartWrite(t, n, v) ==
    /\ req[t].pc = "idle" /\ MayStart /\ Writable(v)
    /\ LET o == IF map[n] # None THEN map[n] ELSE CHOOSE f \in Free : TRUE IN
         /\ map' = [map EXCEPT ![n] = o]
         /\ req' = [req EXCEPT ![t] = [NoRequest EXCEPT
                       !.pc = "record", !.name = n, !.obj = o, !.value = v]]
    /\ search' = [search EXCEPT !.alone = search.pc = "idle" \/ (@ /\ v # search.value)]
    /\ UNCHANGED <<heap, tally, sweep>>

\* Namespace::record: whether the value is new is decided under its lock.
Record(t) ==
    /\ req[t].pc = "record"
    /\ heap' = [heap EXCEPT ![req[t].obj] = @ \cup {req[t].value}]
    /\ req' = [req EXCEPT ![t].pc = IF req[t].value \in heap[req[t].obj]
                                    THEN "return" ELSE "count"]
    /\ UNCHANGED <<map, tally, sweep, search>>

\* The write to _all that a new value brings.
Count(t) ==
    /\ req[t].pc = "count"
    /\ tally' = [tally EXCEPT ![req[t].value] = @ + 1]
    /\ req' = [req EXCEPT ![t].pc = "return"]
    /\ UNCHANGED <<map, heap, sweep, search>>

Return(t) ==
    /\ req[t].pc = "return"
    /\ req' = [req EXCEPT ![t] = NoRequest]
    /\ heap' = Kept(heap, Mapped \cup Swept \cup Taken(Request \ {t}))
    /\ UNCHANGED <<map, tally, sweep, search>>

-----------------------------------------------------------------------------
(* delete.                                                                 *)

StartDelete(t, n) ==
    /\ req[t].pc = "idle" /\ (DeleteAlone => Quiet)
    /\ map[n] # None
    /\ req' = [req EXCEPT ![t] = [NoRequest EXCEPT
                  !.pc = "list", !.name = n, !.obj = map[n]]]
    /\ UNCHANGED <<map, heap, tally, sweep, search>>

\* value_names, after which the handle is dropped again.
List(t) ==
    /\ req[t].pc = "list"
    /\ req' = [req EXCEPT ![t] = [@ EXCEPT
                  !.pc = "remove", !.obj = None, !.values = heap[req[t].obj]]]
    /\ heap' = Kept(heap, Mapped \cup Swept \cup Taken(Request \ {t}))
    /\ UNCHANGED <<map, tally, sweep, search>>

\* The namespace goes, whoever holds it and whatever it holds by now.
Remove(t) ==
    /\ req[t].pc = "remove"
    /\ LET n == req[t].name IN
         /\ map' = [map EXCEPT ![n] = None]
         /\ heap' = Kept(heap, Held \cup {map[m] : m \in Name \ {n}})
         /\ req' = [req EXCEPT ![t] =
               IF map[n] = None \/ req[t].values = {} THEN NoRequest
               ELSE [req[t] EXCEPT !.pc = "release"]]
    /\ UNCHANGED <<tally, sweep, search>>

\* release_consensus, for each value listed.
Release(t, v) ==
    /\ req[t].pc = "release" /\ v \in req[t].values
    /\ tally' = Released(v)
    /\ req' = [req EXCEPT ![t] = IF req[t].values = {v} THEN NoRequest
                                 ELSE [req[t] EXCEPT !.values = @ \ {v}]]
    /\ UNCHANGED <<map, heap, sweep, search>>

-----------------------------------------------------------------------------
(* sweep and prune_empty.                                                  *)

\* A handle on every namespace.
StartSweep ==
    /\ sweep.pc = "idle" /\ MayStart
    /\ LET names == {n \in Name : map[n] # None} IN
         sweep' = [sweep EXCEPT !.pc = "scan", !.todo = names,
                                !.entries = [n \in names |-> map[n]]]
    /\ UNCHANGED <<map, heap, tally, req, search>>

\* Values whose write has not returned.
Fresh(o) == {req[t].value : t \in {u \in Request : req[u].obj = o /\ req[u].pc \in {"count", "return"}}}

\* remove_expired: any value may have expired, but for one just written.
Scan(n) ==
    /\ sweep.pc = "scan" /\ n \in sweep.todo
    /\ LET o == Entries(n) IN
         \E expired \in SUBSET (heap[o] \ (IF ExpiresEarly THEN {} ELSE Fresh(o))) :
            /\ heap' = [heap EXCEPT ![o] = @ \ expired]
            /\ sweep' = [sweep EXCEPT !.todo = @ \ {n}, !.values = expired,
                  !.cur = IF expired = {} THEN None ELSE n,
                  !.pc = IF expired = {} THEN "scan" ELSE "empty"]
    /\ UNCHANGED <<map, tally, req, search>>

\* A namespace the pass has emptied may be reclaimed when it ends.
CheckEmpty ==
    /\ sweep.pc = "empty"
    /\ sweep' = [sweep EXCEPT !.pc = "release", !.cur = None,
          !.emptied = @ \cup (IF heap[Entries(sweep.cur)] = {} THEN {sweep.cur} ELSE {})]
    /\ UNCHANGED <<map, heap, tally, req, search>>

\* release_consensus, for each value that expired.
SweepRelease(v) ==
    /\ sweep.pc = "release" /\ v \in sweep.values
    /\ tally' = Released(v)
    /\ sweep' = [sweep EXCEPT !.values = @ \ {v},
                              !.pc = IF sweep.values = {v} THEN "scan" ELSE "release"]
    /\ UNCHANGED <<map, heap, req, search>>

\* The handles go before the pruning, or it would find every namespace in use.
DropEntries ==
    /\ sweep.pc = "scan" /\ sweep.todo = {}
    /\ sweep' = [sweep EXCEPT !.pc = "prune", !.entries = <<>>]
    /\ heap' = Kept(heap, Mapped \cup Taken(Request))
    /\ UNCHANGED <<map, tally, req, search>>

\* Mutant: an emptied namespace goes though a request holds it.
PruneHeld ==
    /\ sweep.pc = "prune"
    /\ map' = [n \in Name |-> IF n \in sweep.emptied /\ map[n] # None
                                 /\ heap[map[n]] = {} THEN None ELSE map[n]]
    /\ sweep' = NotSweeping
    /\ UNCHANGED <<heap, tally, req, search>>

\* prune_empty: those still empty, and held by nobody, leave the map.
Prune ==
    /\ sweep.pc = "prune"
    /\ map' = [n \in Name |-> IF n \in sweep.emptied /\ map[n] \in Obj \ Held
                                 /\ heap[map[n]] = {} THEN None ELSE map[n]]
    /\ sweep' = NotSweeping
    /\ UNCHANGED <<heap, tally, req, search>>

-----------------------------------------------------------------------------
(* sightings_of: one search, for a key that may read `visible'.            *)

\* The tally is read first ...
StartSearch ==
    LET v == search.value
    IN /\ search.pc = "idle" /\ v # None
       /\ search' = [search EXCEPT !.pc = "list", !.target = tally[v], !.before = Holders(v),
             !.alone = \A t \in Request : req[t].value # v]
       /\ UNCHANGED <<map, heap, tally, req, sweep>>

\* ... then the names there are.
ListNames ==
    /\ search.pc = "list"
    /\ search' = [search EXCEPT !.pc = "look", !.todo = {n \in Name : map[n] # None}]
    /\ UNCHANGED <<map, heap, tally, req, sweep>>

\* Mutant: the search stops one short of the tally.
AccountedShort == search.target > 0 /\ search.seen + 1 >= search.target

Accounted == search.target > 0 /\ search.seen >= search.target

\* One lookup; a hidden namespace counts towards the target as well.
Look(n) ==
    LET holds == n \in Holders(search.value)
        shown == holds /\ n \in search.visible
        full == shown /\ Cardinality(search.found) >= search.limit
    IN /\ search.pc = "look" /\ n \in search.todo /\ ~Accounted
       /\ search' = [search EXCEPT
             !.seen = IF holds THEN @ + 1 ELSE @,
             !.truncated = full,
             !.found = IF shown /\ ~full THEN @ \cup {n} ELSE @,
             !.todo = IF full THEN {} ELSE @ \ {n}]
       /\ UNCHANGED <<map, heap, tally, req, sweep>>

Found ==
    /\ search.pc = "look" /\ (Accounted \/ search.todo = {})
    /\ search' = [search EXCEPT !.pc = "found", !.todo = {}]
    /\ UNCHANGED <<map, heap, tally, req, sweep>>

\* The answer is given, and another search may begin.
Answer ==
    /\ search.pc = "found"
    /\ search' = [NotSearching EXCEPT !.value = search.value, !.visible = search.visible,
                                     !.limit = search.limit]
    /\ UNCHANGED <<map, heap, tally, req, sweep>>

Search == \/ StartSearch \/ ListNames \/ Found \/ Answer
          \/ \E n \in Name : Look(n)

Sweep == \/ StartSweep \/ CheckEmpty \/ DropEntries \/ Prune
         \/ \E n \in Name : Scan(n)
         \/ \E v \in Value : SweepRelease(v)

Step(t) == \/ Record(t) \/ Count(t) \/ Return(t) \/ List(t) \/ Remove(t)
           \/ \E v \in Value : Release(t, v)

Next == \/ \E t \in Request, n \in Name, v \in Value : StartWrite(t, n, v)
        \/ \E t \in Request, n \in Name : StartDelete(t, n)
        \/ \E t \in Request : Step(t)
        \/ Sweep
        \/ Search

Spec == Init /\ [][Next]_vars

-----------------------------------------------------------------------------
\* At rest the tally of a value is the number of namespaces that hold it,
\* however the writes, sweeps and deletions before were interleaved
\* (record_write, release_consensus).
TallyExact == Quiet => \A v \in Value : tally[v] = Cardinality(Holders(v))

\* A search that nothing wrote the value during lists every namespace it may
\* that held the value from beginning to end, however sweeps and deletions of
\* other namespaces ran beside it: the tally it stops at is never below the
\* number there is to find (sightings_of).
FoundAll ==
    search.pc = "found" /\ search.alone /\ ~search.truncated =>
        search.before \cap Holders(search.value) \cap search.visible \subseteq search.found

\* "Everything is accounted for; the rest cannot hold the value": the same,
\* whoever writes meanwhile (sightings_of).
RestCannotHold ==
    search.pc = "found" /\ ~search.truncated =>
        search.before \cap Holders(search.value) \cap search.visible \subseteq search.found
=============================================================================

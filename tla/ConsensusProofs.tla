--------------------------- MODULE ConsensusProofs ---------------------------
(***************************************************************************)
(* Proofs about Consensus, for any number of namespaces, values and        *)
(* requests: as long as deletions are kept apart and a value does not      *)
(* expire before its write returns, the tally is exact at rest and a       *)
(* search that nothing writes its value during misses no namespace.        *)
(***************************************************************************)
EXTENDS Consensus, Sequences, FiniteSetTheorems, TLAPS

Writing  == {"record", "count", "return"}
Removing == {"list", "remove", "release"}

Requests == [pc : {"idle"} \cup Writing \cup Removing, name : Name \cup {None},
             obj : Obj \cup {None}, value : Value \cup {None}, values : SUBSET Value]

\* Handles on objects, by name, as a sweep takes them.
Handles == UNION {[S -> Obj] : S \in SUBSET Name}

Sweeps == [pc : {"idle", "scan", "empty", "release", "prune"}, entries : Handles,
           todo : SUBSET Name, cur : Name \cup {None}, values : SUBSET Value,
           emptied : SUBSET Name]

Searches == [pc : {"idle", "list", "look", "found"}, value : Value \cup {None}, target : Nat,
             visible : SUBSET Name, limit : Nat, todo : SUBSET Name, seen : Nat,
             found : SUBSET Name, truncated : BOOLEAN, before : SUBSET Name, alone : BOOLEAN]

TypeOK ==
    /\ map \in [Name -> Obj \cup {None}]
    /\ heap \in [Obj -> SUBSET Value]
    /\ tally \in [Value -> Nat]
    /\ req \in [Request -> Requests]
    /\ sweep \in Sweeps
    /\ search \in Searches

-----------------------------------------------------------------------------
(* The inductive invariant.                                                *)

\* No two names share an object, and what no name has is empty.
Separate ==
    /\ \A m, n \in Name : map[m] # None /\ map[m] = map[n] => m = n
    /\ \A o \in Obj : (\A n \in Name : map[n] # o) => heap[o] = {}

\* A write works on the object its name is mapped to (the handle it holds keeps
\* prune_empty away), and at most one write is about to count a value for a name.
Writers ==
    /\ \A t \in Request : req[t].pc = "idle" => req[t] = NoRequest
    /\ \A t \in Request : req[t].pc \in Writing =>
          /\ req[t].name \in Name /\ req[t].obj \in Obj /\ req[t].value \in Value
          /\ map[req[t].name] = req[t].obj
    /\ \A t \in Request : req[t].pc = "count" => req[t].value \in heap[req[t].obj]
    /\ \A t, u \in Request :
          req[t].pc = "count" /\ req[u].pc = "count" /\ req[t].name = req[u].name
          /\ req[t].value = req[u].value => t = u

\* A deletion runs by itself and gives back exactly what it takes away.
Deleters ==
    \A t \in Request : req[t].pc \in Removing =>
        /\ sweep.pc = "idle" /\ \A u \in Request \ {t} : req[u].pc = "idle"
        /\ req[t].name \in Name /\ req[t].value = None
        /\ req[t].pc = "list" => req[t].obj \in Obj /\ map[req[t].name] = req[t].obj
        /\ req[t].pc # "list" => req[t].obj = None
        /\ req[t].pc = "remove" =>
              map[req[t].name] \in Obj /\ req[t].values = heap[map[req[t].name]]

\* The sweeper's handles are the map's, and it owes counts only between
\* remove_expired and release_consensus.
Sweeper ==
    /\ sweep.pc = "idle" => sweep = NotSweeping
    /\ \A n \in DOMAIN sweep.entries : map[n] = sweep.entries[n]
    /\ sweep.todo \subseteq DOMAIN sweep.entries
    /\ sweep.pc = "empty" => sweep.cur \in DOMAIN sweep.entries
    /\ sweep.values # {} => sweep.pc \in {"empty", "release"}

\* The namespaces whose value v the tally has counted ...
Settled(v) ==
    {n \in Holders(v) : \A t \in Request :
        ~(req[t].pc = "count" /\ req[t].name = n /\ req[t].value = v)}

\* ... and the count of v that a sweep or a deletion has yet to give back.
Owed(v) ==
    IF v \in sweep.values \/ \E t \in Request : req[t].pc = "release" /\ v \in req[t].values
    THEN 1 ELSE 0

Balance == \A v \in Value : tally[v] = Cardinality(Settled(v)) + Owed(v)

Inv == TypeOK /\ Separate /\ Writers /\ Deleters /\ Sweeper /\ Balance

\* While nothing writes the value searched for, the namespaces that hold it only
\* get fewer, and they were no more than the target to begin with; those counted
\* so far are a set of them that is out of the way.
Counted(S) ==
    /\ S \subseteq search.before /\ Cardinality(S) = search.seen
    /\ S \cap search.todo = {}
    /\ search.before \cap Holders(search.value) \subseteq S \cup search.todo
    /\ S \cap search.visible \subseteq search.found

\* A search that has not looked anywhere yet.
Resting == search.seen = 0 /\ search.found = {} /\ ~search.truncated

Searching ==
    /\ search.pc # "idle" => search.value \in Value
    /\ search.pc # "idle" /\ search.alone =>
          /\ \A t \in Request : req[t].value # search.value
          /\ Holders(search.value) \subseteq search.before
          /\ Cardinality(search.before) <= search.target
    /\ search.pc \in {"idle", "list"} => Resting
    /\ search.pc = "look" /\ search.alone /\ ~search.truncated =>
          \E S \in SUBSET Name : Counted(S)
    /\ search.truncated => search.todo = {}
    /\ FoundAll

-----------------------------------------------------------------------------
(* Lemmas.                                                                 *)

LEMMA HandlesAre ==
    \A e : e \in Handles <=> /\ e = [n \in DOMAIN e |-> e[n]]
                             /\ DOMAIN e \subseteq Name
                             /\ \A n \in DOMAIN e : e[n] \in Obj
  BY DEF Handles

\* There is always an object for a namespace that is not in memory
\* (namespace_or_create can allocate one).
LEMMA FreeObject ==
    ASSUME Inv, NEW n \in Name, map[n] = None
    PROVE  (CHOOSE f \in Free : TRUE) \in Obj /\ \A m \in Name : map[m] # CHOOSE f \in Free : TRUE
<1> DEFINE others == Name \ {n}
<1>1. IsFiniteSet(others) /\ Cardinality(others) = Cardinality(Name) - 1
  BY ConsensusAssumption, FS_RemoveElement, SMTT(20)
<1>2. Cardinality(Name) \in Nat /\ Cardinality(Request) \in Nat /\ Cardinality(Obj) \in Nat
  BY ConsensusAssumption, FS_CardinalityType
<1>3. Cardinality(others) < Cardinality(Obj)
  BY <1>1, <1>2, ConsensusAssumption
<1>4. PICK o \in Obj : \A m \in Name : map[m] # o
  <2>1. CASE \A o \in Obj : \E m \in others : map[m] = o
    <3> DEFINE owner == [o \in Obj |-> CHOOSE m \in others : map[m] = o]
    <3>1. owner \in [Obj -> others] /\ \A o \in Obj : map[owner[o]] = o
      BY <2>1
    <3>2. \E x, y \in Obj : x # y /\ owner[x] = owner[y]
      <4> HIDE DEF owner, others
      <4> QED  BY <3>1, <1>1, <1>3, ConsensusAssumption, FS_PigeonHole
    <3> QED  BY <3>1, <3>2
  <2> QED  BY <2>1, ConsensusAssumption
<1>5. Held \subseteq Mapped \cup {None}
  BY HandlesAre DEF Inv, TypeOK, Writers, Deleters, Sweeper, Held, Swept, Taken, Mapped, Entries,
     Requests, Sweeps, Writing, Removing, NoRequest
<1>6. o \in Free
  BY <1>4, <1>5, ConsensusAssumption DEF Free, Mapped
<1>7. (CHOOSE f \in Free : TRUE) \in Free
  BY <1>6
<1> QED  BY <1>7 DEF Free, Mapped

\* Dropping a handle frees nothing that a name still has, and what no name has is
\* empty already.
LEMMA KeptSame ==
    ASSUME Inv, NEW live, Mapped \subseteq live
    PROVE  Kept(heap, live) = heap
<1>1. \A o \in Obj : o \notin live => heap[o] = {}
  BY DEF Inv, Separate, Mapped
<1> QED  BY <1>1 DEF Inv, TypeOK, Kept

LEMMA SettledFinite ==
    \A v : IsFiniteSet(Settled(v)) /\ Cardinality(Settled(v)) \in Nat
<1> SUFFICES ASSUME NEW v PROVE IsFiniteSet(Settled(v)) /\ Cardinality(Settled(v)) \in Nat
  OBVIOUS
<1>1. Settled(v) \in SUBSET Name
  BY DEF Settled, Holders
<1>2. IsFiniteSet(Settled(v))
  BY <1>1, ConsensusAssumption, FS_Subset
<1> QED  BY <1>2, FS_CardinalityType

\* What the rest of the invariant says of a value that nothing concerned.
LEMMA SameBalance ==
    ASSUME Balance, \A v \in Value : /\ tally'[v] = tally[v] /\ Settled(v)' = Settled(v)
                                     /\ Owed(v)' = Owed(v)
    PROVE  Balance'
  BY DEF Balance

-----------------------------------------------------------------------------
(* The steps of a write.                                                   *)

LEMMA StartWriteInv ==
    ASSUME DeleteAlone, Inv, NEW t \in Request, NEW n \in Name, NEW v \in Value,
           StartWrite(t, n, v)
    PROVE  Inv'
<1> DEFINE o == IF map[n] # None THEN map[n] ELSE CHOOSE f \in Free : TRUE
           r == [NoRequest EXCEPT !.pc = "record", !.name = n, !.obj = o, !.value = v]
<1>1. /\ map' = [map EXCEPT ![n] = o] /\ req' = [req EXCEPT ![t] = r]
      /\ heap' = heap /\ tally' = tally /\ sweep' = sweep /\ req[t].pc = "idle"
  BY DEF StartWrite
<1>2. o \in Obj /\ \A m \in Name : map[m] = o => m = n
  <2>1. CASE map[n] # None
    BY <2>1 DEF Inv, TypeOK, Separate
  <2>2. CASE map[n] = None
    BY <2>2, FreeObject
  <2> QED  BY <2>1, <2>2
<1>3. map[n] # None => o = map[n]
  OBVIOUS
<1>4. \A u \in Request : req[u].pc \notin Removing
  BY DEF StartWrite, MayStart, Deleting, Removing
<1> HIDE DEF o
<1>5. r \in Requests /\ r.pc = "record" /\ r.name = n /\ r.obj = o /\ r.value = v
  BY <1>2 DEF Requests, NoRequest, Writing
<1>6. o \in Obj /\ (map[n] = None => heap[o] = {})
  BY <1>2, <1>3, ConsensusAssumption DEF Inv, Separate
<1> HIDE DEF r
<1>7. TypeOK'
  <2>1. search' \in Searches
    BY DEF StartWrite, Inv, TypeOK, Searches
  <2> QED  BY <1>1, <1>2, <1>5, <2>1 DEF Inv, TypeOK
<1>8. Separate'
  BY <1>1, <1>2, <1>3, ConsensusAssumption DEF Inv, TypeOK, Separate
<1>9. Writers'
  BY <1>1, <1>2, <1>3, <1>5, ConsensusAssumption DEF Inv, TypeOK, Writers, Writing
<1>10. Deleters'
  BY <1>1, <1>4, <1>5 DEF Inv, TypeOK, Deleters, Removing
<1>11. Sweeper'
  BY <1>1, <1>3, HandlesAre, ConsensusAssumption DEF Inv, TypeOK, Sweeper, Sweeps
<1>12. \A w \in Value : Holders(w)' = Holders(w)
  BY <1>1, <1>2, <1>3, <1>6, ConsensusAssumption DEF Inv, TypeOK, Holders
<1>13. \A w \in Value : Settled(w)' = Settled(w) /\ Owed(w)' = Owed(w)
  BY <1>1, <1>5, <1>12 DEF Inv, TypeOK, Settled, Owed
<1>14. Balance'
  BY <1>1, <1>13, SameBalance DEF Inv
<1> QED  BY <1>7, <1>8, <1>9, <1>10, <1>11, <1>14 DEF Inv

\* Record: a value that is new to the namespace is not yet counted in the tally,
\* and its namespace is not yet among the settled ones.
LEMMA RecordInv ==
    ASSUME Inv, NEW t \in Request, Record(t)
    PROVE  Inv'
<1> DEFINE o == req[t].obj
           n == req[t].name
           v == req[t].value
           pc == IF v \in heap[o] THEN "return" ELSE "count"
<1>1. /\ heap' = [heap EXCEPT ![o] = @ \cup {v}] /\ req' = [req EXCEPT ![t].pc = pc]
      /\ map' = map /\ tally' = tally /\ sweep' = sweep /\ search' = search
      /\ req[t].pc = "record"
  BY DEF Record
<1>2. n \in Name /\ o \in Obj /\ v \in Value /\ map[n] = o /\ n # None /\ o # None
  BY <1>1, ConsensusAssumption DEF Inv, Writers, Writing
<1>3. /\ req'[t].pc = pc /\ req'[t].name = n /\ req'[t].obj = o /\ req'[t].value = v
      /\ req'[t].values = req[t].values /\ req'[t] \in Requests
      /\ \A u \in Request : u # t => req'[u] = req[u]
  BY <1>1 DEF Inv, TypeOK, Requests, Writing
<1>4. /\ heap'[o] = heap[o] \cup {v}
      /\ \A p \in Obj : p # o => heap'[p] = heap[p]
  BY <1>1, <1>2 DEF Inv, TypeOK
<1>5. \A u \in Request : req[u].pc \notin Removing /\ req'[u].pc \notin Removing
  BY <1>1, <1>3 DEF Inv, Deleters, Removing
<1>6. pc \in {"return", "count"} /\ (pc = "count" <=> v \notin heap[o])
  OBVIOUS
<1> HIDE DEF pc, o, n, v
<1>7. TypeOK'
  BY <1>1, <1>2, <1>3 DEF Inv, TypeOK
<1>8. Separate'
  BY <1>1, <1>2, <1>4 DEF Inv, TypeOK, Separate
<1>9. Writers'
  <2>1. \A u \in Request : req'[u].pc = "idle" => req'[u] = NoRequest
    BY <1>3, <1>6 DEF Inv, Writers
  <2>2. \A u \in Request : req'[u].pc \in Writing =>
          /\ req'[u].name \in Name /\ req'[u].obj \in Obj /\ req'[u].value \in Value
          /\ map[req'[u].name] = req'[u].obj
    BY <1>2, <1>3 DEF Inv, Writers
  <2>3. \A u \in Request : req'[u].pc = "count" => req'[u].value \in heap'[req'[u].obj]
    BY <1>2, <1>3, <1>4, <2>2 DEF Inv, Writers, Writing
  <2>4. \A u \in Request : u # t /\ req[u].pc = "count" /\ req[u].name = n /\ req[u].value = v
            => v \in heap[o]
    BY <1>2 DEF Inv, Writers, Writing
  <2>5. \A u, w \in Request :
          req'[u].pc = "count" /\ req'[w].pc = "count" /\ req'[u].name = req'[w].name
          /\ req'[u].value = req'[w].value => u = w
    BY <1>3, <1>6, <2>4 DEF Inv, Writers
  <2> QED  BY <1>1, <2>1, <2>2, <2>3, <2>5 DEF Writers
<1>10. Deleters'
  BY <1>5 DEF Deleters
<1>11. Sweeper'
  BY <1>1 DEF Inv, Sweeper
<1>12. \A w \in Value : Settled(w)' = Settled(w)
  <2> SUFFICES ASSUME NEW w \in Value, NEW m \in Name
               PROVE  m \in Settled(w)' <=> m \in Settled(w)
    BY DEF Settled, Holders
  <2>1. CASE m # n \/ w # v
    <3>1. m \in Holders(w)' <=> m \in Holders(w)
      BY <2>1, <1>1, <1>2, <1>4 DEF Holders, Inv, TypeOK, Separate
    <3> QED  BY <3>1, <2>1, <1>1, <1>3 DEF Settled
  <2>2. CASE m = n /\ w = v /\ v \in heap[o]
    <3>1. pc = "return" /\ m \in Holders(w)' /\ m \in Holders(w)
      BY <2>2, <1>1, <1>2, <1>4, <1>6 DEF Holders
    <3> QED  BY <3>1, <1>1, <1>3 DEF Settled
  <2>3. CASE m = n /\ w = v /\ v \notin heap[o]
    <3>1. m \notin Holders(w) /\ pc = "count"
      BY <2>3, <1>2, <1>6 DEF Holders
    <3> QED  BY <3>1, <2>3, <1>3 DEF Settled
  <2> QED  BY <2>1, <2>2, <2>3
<1>13. \A w \in Value : Owed(w)' = Owed(w)
  BY <1>1, <1>3, <1>6 DEF Owed
<1>14. Balance'
  BY <1>1, <1>12, <1>13, SameBalance DEF Inv
<1> QED  BY <1>7, <1>8, <1>9, <1>10, <1>11, <1>14 DEF Inv

\* Count: the namespace of the write becomes one of the settled ones.
LEMMA CountInv ==
    ASSUME Inv, NEW t \in Request, Count(t)
    PROVE  Inv'
<1>0. PICK n \in Name, v \in Value :
         /\ req[t].name = n /\ req[t].value = v /\ req[t].pc = "count"
         /\ map[n] \in Obj /\ map[n] # None /\ v \in heap[map[n]]
  BY ConsensusAssumption DEF Count, Inv, Writers, Writing
<1>1. /\ tally' = [tally EXCEPT ![v] = @ + 1] /\ req' = [req EXCEPT ![t].pc = "return"]
      /\ map' = map /\ heap' = heap /\ sweep' = sweep /\ search' = search
  BY <1>0 DEF Count
<1>3. /\ req'[t].pc = "return" /\ req'[t].name = n /\ req'[t].obj = req[t].obj
      /\ req'[t].value = v /\ req'[t] \in Requests
      /\ \A u \in Request : u # t => req'[u] = req[u]
  BY <1>0, <1>1, SMTT(20) DEF Inv, TypeOK, Requests, Writing
<1>4. \A u \in Request : req[u].pc \notin Removing /\ req'[u].pc \notin Removing
  BY <1>0, <1>3 DEF Inv, Deleters, Removing
<1>5. TypeOK'
  BY <1>1, <1>3 DEF Inv, TypeOK
<1>6. Separate'
  BY <1>1 DEF Inv, Separate
<1>7. Writers'
  BY <1>0, <1>1, <1>3 DEF Inv, Writers, Writing
<1>8. Deleters'
  BY <1>4 DEF Deleters
<1>9. Sweeper'
  BY <1>1 DEF Inv, Sweeper
<1>10. \A w \in Value : Holders(w)' = Holders(w) /\ Owed(w)' = Owed(w)
  BY <1>0, <1>1, <1>3 DEF Holders, Owed
<1>11. n \notin Settled(v) /\ Settled(v)' = Settled(v) \cup {n}
  <2>1. n \notin Settled(v) /\ n \in Holders(v)
    BY <1>0 DEF Settled, Holders
  <2>2. \A u \in Request : u # t => ~(req[u].pc = "count" /\ req[u].name = n /\ req[u].value = v)
    BY <1>0 DEF Inv, Writers
  <2>3. \A m \in Name : m \in Settled(v)' <=> m \in Settled(v) \/ m = n
    BY <2>1, <2>2, <1>0, <1>3, <1>10 DEF Settled
  <2> QED  BY <2>1, <2>3 DEF Settled, Holders
<1>12. \A w \in Value : w # v => Settled(w)' = Settled(w)
  BY <1>0, <1>3, <1>10 DEF Settled
<1>13. Cardinality(Settled(v)') = Cardinality(Settled(v)) + 1
  BY <1>11, SettledFinite, FS_AddElement
<1>14. Balance'
  <2> SUFFICES ASSUME NEW w \in Value
               PROVE  tally'[w] = Cardinality(Settled(w)') + Owed(w)'
    BY DEF Balance
  <2>1. CASE w # v
    BY <2>1, <1>1, <1>10, <1>12 DEF Inv, TypeOK, Balance
  <2>2. CASE w = v
    <3>1. tally'[v] = tally[v] + 1 /\ tally[v] = Cardinality(Settled(v)) + Owed(v)
      BY <1>1 DEF Inv, TypeOK, Balance
    <3>2. Cardinality(Settled(v)) \in Nat /\ Owed(v) \in Nat
      BY SettledFinite DEF Owed
    <3> QED  BY <2>2, <3>1, <3>2, <1>10, <1>13
  <2> QED  BY <2>1, <2>2
<1> QED  BY <1>5, <1>6, <1>7, <1>8, <1>9, <1>14 DEF Inv

LEMMA ReturnInv ==
    ASSUME Inv, NEW t \in Request, Return(t)
    PROVE  Inv'
<1>1. heap' = heap
  BY KeptSame DEF Return
<1>2. /\ req' = [req EXCEPT ![t] = NoRequest] /\ req[t].pc = "return"
      /\ map' = map /\ tally' = tally /\ sweep' = sweep /\ search' = search
  BY DEF Return
<1>3. NoRequest \in Requests /\ NoRequest.pc = "idle"
  BY DEF NoRequest, Requests
<1>4. \A u \in Request : req[u].pc \notin Removing /\ req'[u].pc \notin Removing
  BY <1>2, <1>3 DEF Inv, TypeOK, Deleters, Removing
<1>5. TypeOK'
  BY <1>1, <1>2, <1>3 DEF Inv, TypeOK
<1>6. Separate' /\ Sweeper'
  BY <1>1, <1>2 DEF Inv, Separate, Sweeper
<1>7. Writers'
  BY <1>1, <1>2, <1>3 DEF Inv, TypeOK, Writers, Writing
<1>8. Deleters'
  BY <1>4 DEF Deleters
<1>9. \A v \in Value : Settled(v)' = Settled(v) /\ Owed(v)' = Owed(v)
  BY <1>1, <1>2, <1>3 DEF Settled, Holders, Owed, Inv, TypeOK
<1>10. Balance'
  BY <1>2, <1>9, SameBalance DEF Inv
<1> QED  BY <1>5, <1>6, <1>7, <1>8, <1>10 DEF Inv

-----------------------------------------------------------------------------
(* The steps of a deletion.                                                *)

LEMMA StartDeleteInv ==
    ASSUME DeleteAlone, Inv, NEW t \in Request, NEW n \in Name, StartDelete(t, n)
    PROVE  Inv'
<1> DEFINE r == [NoRequest EXCEPT !.pc = "list", !.name = n, !.obj = map[n]]
<1>1. /\ req' = [req EXCEPT ![t] = r] /\ map[n] # None
      /\ map' = map /\ heap' = heap /\ tally' = tally /\ sweep' = sweep /\ search' = search
      /\ sweep.pc = "idle" /\ \A u \in Request : req[u].pc = "idle"
  BY DEF StartDelete, Quiet
<1>2. map[n] \in Obj
  BY <1>1 DEF Inv, TypeOK
<1>3. r \in Requests /\ r.pc = "list" /\ r.name = n /\ r.obj = map[n] /\ r.value = None
  BY <1>2 DEF Requests, NoRequest, Removing
<1> HIDE DEF r
<1>4. TypeOK'
  BY <1>1, <1>3 DEF Inv, TypeOK
<1>5. Separate' /\ Sweeper'
  BY <1>1 DEF Inv, Separate, Sweeper
<1>6. Writers'
  BY <1>1, <1>3 DEF Inv, TypeOK, Writers, Writing
<1>7. Deleters'
  BY <1>1, <1>2, <1>3 DEF Inv, TypeOK, Deleters, Removing
<1>8. \A v \in Value : Settled(v)' = Settled(v) /\ Owed(v)' = Owed(v)
  BY <1>1, <1>3 DEF Settled, Holders, Owed, Inv, TypeOK
<1>9. Balance'
  BY <1>1, <1>8, SameBalance DEF Inv
<1> QED  BY <1>4, <1>5, <1>6, <1>7, <1>9 DEF Inv

\* What a deletion says of the rest of the server.
LEMMA Alone ==
    ASSUME Inv, NEW t \in Request, req[t].pc \in Removing
    PROVE  /\ sweep = NotSweeping /\ \A u \in Request : u # t => req[u] = NoRequest
           /\ req[t].name \in Name
  BY DEF Inv, Deleters, Sweeper, Writers

LEMMA ListInv ==
    ASSUME Inv, NEW t \in Request, List(t)
    PROVE  Inv'
<1> DEFINE o == req[t].obj
           r == [req[t] EXCEPT !.pc = "remove", !.obj = None, !.values = heap[o]]
<1>1. heap' = heap
  BY KeptSame DEF List
<1>2. /\ req' = [req EXCEPT ![t] = r] /\ req[t].pc = "list"
      /\ map' = map /\ tally' = tally /\ sweep' = sweep /\ search' = search
  BY DEF List
<1>3. req[t].name \in Name /\ o \in Obj /\ map[req[t].name] = o /\ req[t].value = None
  BY <1>2 DEF Inv, Deleters, Removing
<1>4. /\ sweep = NotSweeping /\ \A u \in Request : u # t => req[u] = NoRequest
  BY <1>2, Alone DEF Removing
<1>5. /\ r \in Requests /\ r.pc = "remove" /\ r.name = req[t].name /\ r.obj = None
      /\ r.value = None /\ r.values = heap[o]
  <2>1. req[t] \in Requests /\ heap[o] \in SUBSET Value
    BY <1>3 DEF Inv, TypeOK
  <2> HIDE DEF o
  <2> QED  BY <1>3, <2>1 DEF Requests, Removing
<1> HIDE DEF r, o
<1>6. TypeOK'
  BY <1>1, <1>2, <1>5 DEF Inv, TypeOK
<1>7. Separate' /\ Sweeper'
  BY <1>1, <1>2 DEF Inv, Separate, Sweeper
<1>8. Writers'
  BY <1>1, <1>2, <1>5 DEF Inv, TypeOK, Writers, Writing
<1>9. Deleters'
  BY <1>1, <1>2, <1>3, <1>4, <1>5 DEF Inv, TypeOK, Deleters, Removing, NotSweeping, NoRequest
<1>10. \A v \in Value : Settled(v)' = Settled(v) /\ Owed(v)' = Owed(v)
  BY <1>1, <1>2, <1>5 DEF Settled, Holders, Owed, Inv, TypeOK
<1>11. Balance'
  BY <1>2, <1>10, SameBalance DEF Inv
<1> QED  BY <1>6, <1>7, <1>8, <1>9, <1>11 DEF Inv

\* Remove: what leaves the map is what is to be given back.
LEMMA RemoveInv ==
    ASSUME Inv, NEW t \in Request, Remove(t)
    PROVE  Inv'
<1> DEFINE n == req[t].name
           o == map[n]
           r == IF req[t].values = {} THEN NoRequest ELSE [req[t] EXCEPT !.pc = "release"]
<1>1. /\ req[t].pc = "remove" /\ n \in Name /\ o \in Obj /\ req[t].values = heap[o]
      /\ req[t].value = None /\ req[t].obj = None /\ o # None /\ n # None
  BY ConsensusAssumption DEF Remove, Inv, Deleters, Removing
<1>2. /\ map' = [map EXCEPT ![n] = None]
      /\ heap' = Kept(heap, Held \cup {map[m] : m \in Name \ {n}})
      /\ req' = [req EXCEPT ![t] = r] /\ tally' = tally /\ sweep' = sweep /\ search' = search
  BY <1>1 DEF Remove
<1>3. /\ sweep = NotSweeping /\ \A u \in Request : u # t => req[u] = NoRequest
  BY <1>1, Alone DEF Removing
<1>4. Held \subseteq {None}
  BY <1>1, <1>3 DEF Held, Swept, Taken, Entries, NotSweeping, NoRequest
<1>5. /\ \A m \in Name : m # n => map'[m] = map[m] /\ (map[m] # None => map[m] # o)
      /\ map'[n] = None
  BY <1>1, <1>2 DEF Inv, TypeOK, Separate
<1>6. /\ heap' \in [Obj -> SUBSET Value] /\ heap'[o] = {}
      /\ \A p \in Obj : p # o => heap'[p] = heap[p]
  <2>1. \A p \in Obj : p \in Held \cup {map[m] : m \in Name \ {n}}
                       <=> \E m \in Name : m # n /\ map[m] = p
    BY <1>4, ConsensusAssumption
  <2>2. \A p \in Obj : heap'[p] = IF \E m \in Name : m # n /\ map[m] = p THEN heap[p] ELSE {}
    BY <2>1, <1>2 DEF Kept
  <2>3. \A p \in Obj : p # o /\ ~(\E m \in Name : m # n /\ map[m] = p) => heap[p] = {}
    BY DEF Inv, Separate
  <2>4. heap'[o] = {}
    BY <2>2, <1>1, <1>5
  <2>5. heap' \in [Obj -> SUBSET Value]
    BY <1>2 DEF Kept, Inv, TypeOK
  <2> QED  BY <2>2, <2>3, <2>4, <2>5
<1>7. /\ r \in Requests /\ r.pc \in {"idle", "release"} /\ r.value = None /\ r.obj = None
      /\ (r.pc = "idle" => r = NoRequest /\ heap[o] = {})
      /\ (r.pc = "release" => r.name = n /\ r.values = heap[o])
  <2>1. CASE req[t].values = {}
    BY <2>1, <1>1 DEF NoRequest, Requests
  <2>2. CASE req[t].values # {}
    BY <2>2, <1>1 DEF Inv, TypeOK, Requests, Removing
  <2> QED  BY <2>1, <2>2
<1> HIDE DEF r, o, n
<1>8. req'[t] = r /\ \A u \in Request : u # t => req'[u] = NoRequest
  BY <1>2, <1>3 DEF Inv, TypeOK
<1>9. TypeOK'
  BY <1>1, <1>2, <1>6, <1>7 DEF Inv, TypeOK
<1>10. Separate'
  BY <1>2, <1>5, <1>6, <1>1 DEF Inv, TypeOK, Separate, o
<1>11. Writers'
  BY <1>7, <1>8 DEF Writers, Writing, NoRequest
<1>12. Deleters'
  <2>1. \A u \in Request : u # t => req'[u].pc = "idle"
    BY <1>8 DEF NoRequest
  <2>2. sweep'.pc = "idle"
    BY <1>2, <1>3 DEF NotSweeping
  <2>3. r.pc \in Removing => r.pc = "release" /\ r.name \in Name /\ r.value = None /\ r.obj = None
    BY <1>1, <1>7 DEF Removing
  <2> QED  BY <1>8, <2>1, <2>2, <2>3 DEF Deleters, Removing
<1>13. Sweeper'
  BY <1>2, <1>3 DEF Sweeper, NotSweeping
<1>14. ASSUME NEW v \in Value
       PROVE  tally'[v] = Cardinality(Settled(v)') + Owed(v)'
  <2>1. /\ Settled(v) = Holders(v) /\ Settled(v)' = Holders(v)'
        /\ Holders(v)' = Holders(v) \ {n}
    <3>1. Settled(v) = Holders(v)
      BY <1>1, <1>3 DEF Settled, NoRequest
    <3>2. Settled(v)' = Holders(v)'
      BY <1>7, <1>8 DEF Settled, NoRequest
    <3>3. Holders(v)' = Holders(v) \ {n}
      BY <1>1, <1>5, <1>6, ConsensusAssumption DEF Holders, Inv, TypeOK
    <3> QED  BY <3>1, <3>2, <3>3
  <2>2. Owed(v) = 0
    BY <1>1, <1>3 DEF Owed, NotSweeping, NoRequest
  <2>3. Owed(v)' = IF v \in heap[o] THEN 1 ELSE 0
    <3>1. sweep'.values = {}
      BY <1>2, <1>3 DEF NotSweeping
    <3>2. (\E u \in Request : req'[u].pc = "release" /\ v \in req'[u].values)
             <=> r.pc = "release" /\ v \in r.values
      BY <1>8 DEF NoRequest
    <3> QED  BY <3>1, <3>2, <1>7 DEF Owed
  <2>4. n \in Settled(v) <=> v \in heap[o]
    BY <2>1, <1>1 DEF Holders, o
  <2>5. Cardinality(Settled(v)') = IF v \in heap[o] THEN Cardinality(Settled(v)) - 1
                                                   ELSE Cardinality(Settled(v))
    <3>1. Settled(v)' = Settled(v) \ {n}
      BY <2>1
    <3>2. Cardinality(Settled(v) \ {n}) = IF n \in Settled(v) THEN Cardinality(Settled(v)) - 1
                                                              ELSE Cardinality(Settled(v))
      BY SettledFinite, FS_RemoveElement
    <3> QED  BY <2>4, <3>1, <3>2
  <2>6. Cardinality(Settled(v)) \in Nat
    BY SettledFinite
  <2>7. tally'[v] = Cardinality(Settled(v)) + Owed(v)
    BY <1>2 DEF Inv, Balance
  <2> QED  BY <2>2, <2>3, <2>5, <2>6, <2>7
<1>15. Balance'
  BY <1>14 DEF Balance
<1> QED  BY <1>9, <1>10, <1>11, <1>12, <1>13, <1>15 DEF Inv

\* A count that is owed is given back: there is one to give.
LEMMA GivenBack ==
    ASSUME Inv, NEW v \in Value, Owed(v) = 1, tally' = Released(v),
           \A w \in Value : Settled(w)' = Settled(w), Owed(v)' = 0,
           \A w \in Value : w # v => Owed(w)' = Owed(w)
    PROVE  Balance' /\ tally' \in [Value -> Nat]
<1>1. Cardinality(Settled(v)) \in Nat
  BY SettledFinite
<1>2. tally[v] = Cardinality(Settled(v)) + 1 /\ tally \in [Value -> Nat]
  BY DEF Inv, TypeOK, Balance
<1>3. tally'[v] = Cardinality(Settled(v)) /\ \A w \in Value : w # v => tally'[w] = tally[w]
  BY <1>1, <1>2 DEF Released
<1>4. tally' \in [Value -> Nat]
  BY <1>1, <1>2 DEF Released
<1>5. Balance'
  BY <1>1, <1>3 DEF Inv, Balance
<1> QED  BY <1>4, <1>5

LEMMA ReleaseInv ==
    ASSUME Inv, NEW t \in Request, NEW v \in Value, Release(t, v)
    PROVE  Inv'
<1> DEFINE r == IF req[t].values = {v} THEN NoRequest ELSE [req[t] EXCEPT !.values = @ \ {v}]
<1>1. /\ req[t].pc = "release" /\ v \in req[t].values /\ tally' = Released(v)
      /\ req' = [req EXCEPT ![t] = r]
      /\ map' = map /\ heap' = heap /\ sweep' = sweep /\ search' = search
  BY DEF Release
<1>2. /\ sweep = NotSweeping /\ \A u \in Request : u # t => req[u] = NoRequest
      /\ req[t].name \in Name /\ req[t].obj = None /\ req[t].value = None
  BY <1>1, Alone DEF Removing, Inv, Deleters
<1>3. /\ r \in Requests /\ r.pc \in {"idle", "release"} /\ (r.pc = "idle" => r = NoRequest)
      /\ r.obj = None /\ r.value = None
      /\ (r.pc = "release" => r.name = req[t].name)
      /\ \A w \in Value : r.pc = "release" /\ w \in r.values <=> w \in req[t].values /\ w # v
  <2>1. CASE req[t].values = {v}
    BY <2>1 DEF NoRequest, Requests
  <2>2. CASE req[t].values # {v}
    BY <2>2, <1>1, <1>2 DEF Inv, TypeOK, Requests
  <2> QED  BY <2>1, <2>2
<1> HIDE DEF r
<1>4. req'[t] = r /\ \A u \in Request : u # t => req'[u] = NoRequest
  BY <1>1, <1>2 DEF Inv, TypeOK
<1>5. \A w \in Value : Settled(w)' = Settled(w)
  BY <1>1, <1>2, <1>3, <1>4 DEF Settled, Holders, NoRequest
<1>6. \A w \in Value : /\ Owed(w) = IF w \in req[t].values THEN 1 ELSE 0
                       /\ Owed(w)' = IF w \in req[t].values /\ w # v THEN 1 ELSE 0
  <2> SUFFICES ASSUME NEW w \in Value
               PROVE  /\ Owed(w) = IF w \in req[t].values THEN 1 ELSE 0
                      /\ Owed(w)' = IF w \in req[t].values /\ w # v THEN 1 ELSE 0
    OBVIOUS
  <2>1. (\E u \in Request : req[u].pc = "release" /\ w \in req[u].values) <=> w \in req[t].values
    BY <1>1, <1>2 DEF NoRequest
  <2>2. (\E u \in Request : req'[u].pc = "release" /\ w \in req'[u].values)
           <=> w \in req[t].values /\ w # v
    BY <1>3, <1>4 DEF NoRequest
  <2> QED  BY <2>1, <2>2, <1>1, <1>2 DEF Owed, NotSweeping
<1>7. Balance' /\ tally' \in [Value -> Nat]
  BY <1>1, <1>5, <1>6, GivenBack
<1>8. TypeOK'
  BY <1>1, <1>3, <1>7 DEF Inv, TypeOK
<1>9. Separate' /\ Sweeper'
  BY <1>1 DEF Inv, Separate, Sweeper
<1>10. Writers'
  BY <1>3, <1>4 DEF Writers, Writing, NoRequest
<1>11. Deleters'
  <2>1. \A u \in Request : u # t => req'[u].pc = "idle"
    BY <1>4 DEF NoRequest
  <2>2. sweep'.pc = "idle"
    BY <1>1, <1>2 DEF NotSweeping
  <2>3. r.pc \in Removing => r.pc = "release" /\ r.name \in Name /\ r.value = None /\ r.obj = None
    BY <1>2, <1>3 DEF Removing
  <2> QED  BY <1>4, <2>1, <2>2, <2>3 DEF Deleters, Removing
<1> QED  BY <1>7, <1>8, <1>9, <1>10, <1>11 DEF Inv

-----------------------------------------------------------------------------
(* The steps of a sweep.                                                   *)

LEMMA StartSweepInv ==
    ASSUME DeleteAlone, Inv, StartSweep
    PROVE  Inv'
<1> DEFINE names == {n \in Name : map[n] # None}
           entries == [n \in names |-> map[n]]
<1>1. /\ sweep' = [sweep EXCEPT !.pc = "scan", !.todo = names, !.entries = entries]
      /\ sweep.pc = "idle" /\ \A u \in Request : req[u].pc \notin Removing
      /\ map' = map /\ heap' = heap /\ tally' = tally /\ req' = req /\ search' = search
  BY DEF StartSweep, MayStart, Deleting, Removing
<1>2. entries \in Handles
  <2>1. names \in SUBSET Name /\ entries \in [names -> Obj]
    BY DEF Inv, TypeOK
  <2> HIDE DEF names, entries
  <2> QED  BY <2>1 DEF Handles
<1>3. sweep = NotSweeping
  BY <1>1 DEF Inv, Sweeper
<1>4. /\ sweep'.pc = "scan" /\ sweep'.todo = names /\ sweep'.entries = entries
      /\ sweep'.values = {} /\ sweep' \in Sweeps
  BY <1>1, <1>2, <1>3 DEF NotSweeping, Sweeps
<1>5. TypeOK'
  BY <1>1, <1>4 DEF Inv, TypeOK
<1>6. Separate' /\ Writers'
  BY <1>1 DEF Inv, Separate, Writers
<1>7. Deleters'
  BY <1>1 DEF Deleters
<1>8. Sweeper'
  BY <1>1, <1>4 DEF Sweeper
<1>9. \A v \in Value : Settled(v)' = Settled(v) /\ Owed(v)' = Owed(v)
  BY <1>1, <1>3, <1>4 DEF Settled, Holders, Owed, NotSweeping
<1>10. Balance'
  BY <1>1, <1>9, SameBalance DEF Inv
<1> QED  BY <1>5, <1>6, <1>7, <1>8, <1>10 DEF Inv

\* A sweep without entries holds no namespace.
LEMMA NoHandles == <<>> \in Handles /\ DOMAIN <<>> = {}
<1>1. DOMAIN <<>> = {}
  <2>1. <<>> \in Seq(Obj) /\ Len(<<>>) = 0
    OBVIOUS
  <2>2. DOMAIN <<>> = 1..0
    BY <2>1
  <2> QED  BY <2>2
<1>2. <<>> \in [{} -> Obj]
  <2>1. <<>> \in Seq(Obj) /\ Len(<<>>) = 0
    OBVIOUS
  <2>2. <<>> \in [1..0 -> Obj]
    BY <2>1
  <2>3. 1..0 = {}
    OBVIOUS
  <2> QED  BY <2>2, <2>3
<1>3. {} \in SUBSET Name
  OBVIOUS
<1> QED  BY <1>1, <1>2, <1>3 DEF Handles

\* Deletions keep away while a sweep runs.
LEMMA NoDeletion ==
    ASSUME Inv, sweep.pc # "idle"
    PROVE  \A u \in Request : req[u].pc \notin Removing
  BY DEF Inv, Deleters

\* Scan: what expires leaves the settled namespaces and is owed from then on.
LEMMA ScanInv ==
    ASSUME ~ExpiresEarly, Inv, NEW n \in Name, Scan(n)
    PROVE  Inv'
<1>1. PICK o, expired :
         /\ sweep.pc = "scan" /\ n \in sweep.todo /\ o = sweep.entries[n]
         /\ expired \subseteq heap[o] \ Fresh(o)
         /\ heap' = [heap EXCEPT ![o] = @ \ expired]
         /\ sweep' = [sweep EXCEPT !.todo = @ \ {n}, !.values = expired,
                  !.cur = IF expired = {} THEN None ELSE n,
                  !.pc = IF expired = {} THEN "scan" ELSE "empty"]
         /\ map' = map /\ tally' = tally /\ req' = req /\ search' = search
  BY DEF Scan, Entries
<1>2. o \in Obj /\ map[n] = o /\ n \in DOMAIN sweep.entries /\ o # None
  BY <1>1, HandlesAre, ConsensusAssumption DEF Inv, TypeOK, Sweeps, Sweeper
<1>3. expired \subseteq Value /\ sweep.values = {}
  BY <1>1, <1>2 DEF Inv, TypeOK, Sweeper
<1>4. /\ sweep'.pc = (IF expired = {} THEN "scan" ELSE "empty") /\ sweep'.values = expired
      /\ sweep'.entries = sweep.entries /\ sweep'.todo = sweep.todo \ {n}
      /\ (expired # {} => sweep'.cur = n) /\ sweep' \in Sweeps
  BY <1>1, <1>3 DEF Inv, TypeOK, Sweeps
<1>5. \A u \in Request : req[u].pc \notin Removing
  BY <1>1, NoDeletion
<1>6. /\ heap' \in [Obj -> SUBSET Value] /\ heap'[o] = heap[o] \ expired
      /\ \A p \in Obj : p # o => heap'[p] = heap[p]
  BY <1>1, <1>2 DEF Inv, TypeOK
<1>7. \A u \in Request : req[u].pc = "count" /\ req[u].obj = o => req[u].value \notin expired
  BY <1>1 DEF Fresh
<1>8. TypeOK'
  BY <1>1, <1>4, <1>6 DEF Inv, TypeOK
<1>9. Separate'
  BY <1>1, <1>2, <1>6 DEF Inv, Separate
<1>10. Writers'
  <2>1. \A u \in Request : req[u].pc = "count" => req[u].value \in heap'[req[u].obj]
    BY <1>6, <1>7 DEF Inv, Writers, Writing
  <2> QED  BY <2>1, <1>1 DEF Inv, Writers
<1>11. Deleters'
  BY <1>1, <1>5 DEF Deleters
<1>12. Sweeper'
  BY <1>1, <1>2, <1>4 DEF Inv, Sweeper
<1>13. ASSUME NEW v \in Value
       PROVE  tally'[v] = Cardinality(Settled(v)') + Owed(v)'
  <2>1. Owed(v) = 0 /\ Owed(v)' = IF v \in expired THEN 1 ELSE 0
    BY <1>1, <1>3, <1>4, <1>5 DEF Owed, Removing
  <2>2. tally'[v] = Cardinality(Settled(v)) + Owed(v)
    BY <1>1 DEF Inv, Balance
  <2>3. CASE v \notin expired
    <3>1. Settled(v)' = Settled(v)
      BY <2>3, <1>1, <1>2, <1>6, ConsensusAssumption DEF Settled, Holders, Inv, TypeOK
    <3> QED  BY <3>1, <2>1, <2>2, <2>3
  <2>4. CASE v \in expired
    <3>1. n \in Settled(v)
      <4>1. n \in Holders(v)
        BY <2>4, <1>1, <1>2 DEF Holders
      <4>2. \A u \in Request : ~(req[u].pc = "count" /\ req[u].name = n /\ req[u].value = v)
        BY <2>4, <1>2, <1>7 DEF Inv, Writers, Writing
      <4> QED  BY <4>1, <4>2 DEF Settled
    <3>2. Settled(v)' = Settled(v) \ {n}
      <4>1. \A m \in Name : m \in Holders(v)' <=> m \in Holders(v) /\ m # n
        BY <2>4, <1>1, <1>2, <1>6, ConsensusAssumption DEF Holders, Inv, TypeOK, Separate
      <4> QED  BY <4>1, <1>1 DEF Settled, Holders
    <3>3. Cardinality(Settled(v) \ {n}) = Cardinality(Settled(v)) - 1
      BY <3>1, SettledFinite, FS_RemoveElement
    <3>4. Cardinality(Settled(v)) \in Nat
      BY SettledFinite
    <3> QED  BY <3>2, <3>3, <3>4, <2>1, <2>2, <2>4
  <2> QED  BY <2>3, <2>4
<1>14. Balance'
  BY <1>13 DEF Balance
<1> QED  BY <1>8, <1>9, <1>10, <1>11, <1>12, <1>14 DEF Inv

LEMMA CheckEmptyInv ==
    ASSUME Inv, CheckEmpty
    PROVE  Inv'
<1>1. /\ sweep.pc = "empty" /\ sweep.cur \in DOMAIN sweep.entries
      /\ map' = map /\ heap' = heap /\ tally' = tally /\ req' = req /\ search' = search
  BY DEF CheckEmpty, Inv, Sweeper
<1>2. sweep.cur \in Name
  BY <1>1, HandlesAre DEF Inv, TypeOK, Sweeps
<1>3. /\ sweep' \in Sweeps /\ sweep'.pc = "release" /\ sweep'.values = sweep.values
      /\ sweep'.entries = sweep.entries /\ sweep'.todo = sweep.todo
  BY <1>2 DEF CheckEmpty, Inv, TypeOK, Sweeps
<1>4. \A u \in Request : req[u].pc \notin Removing
  BY <1>1, NoDeletion
<1>5. TypeOK' /\ Separate' /\ Writers' /\ Deleters'
  BY <1>1, <1>3, <1>4 DEF Inv, TypeOK, Separate, Writers, Deleters
<1>6. Sweeper'
  BY <1>1, <1>3 DEF Inv, Sweeper
<1>7. \A v \in Value : Settled(v)' = Settled(v) /\ Owed(v)' = Owed(v)
  BY <1>1, <1>3 DEF Settled, Holders, Owed
<1>8. Balance'
  BY <1>1, <1>7, SameBalance DEF Inv
<1> QED  BY <1>5, <1>6, <1>8 DEF Inv

LEMMA SweepReleaseInv ==
    ASSUME Inv, NEW v \in Value, SweepRelease(v)
    PROVE  Inv'
<1>1. /\ sweep.pc = "release" /\ v \in sweep.values /\ tally' = Released(v)
      /\ map' = map /\ heap' = heap /\ req' = req /\ search' = search
  BY DEF SweepRelease
<1>2. /\ sweep' \in Sweeps /\ sweep'.values = sweep.values \ {v}
      /\ sweep'.pc = (IF sweep.values = {v} THEN "scan" ELSE "release")
      /\ sweep'.entries = sweep.entries /\ sweep'.todo = sweep.todo
  BY DEF SweepRelease, Inv, TypeOK, Sweeps
<1>3. \A u \in Request : req[u].pc \notin Removing
  BY <1>1, NoDeletion
<1>4. \A w \in Value : Settled(w)' = Settled(w)
  BY <1>1 DEF Settled, Holders
<1>5. \A w \in Value : /\ Owed(w) = IF w \in sweep.values THEN 1 ELSE 0
                       /\ Owed(w)' = IF w \in sweep'.values THEN 1 ELSE 0
  BY <1>1, <1>3 DEF Owed, Removing
<1>6. Owed(v) = 1 /\ Owed(v)' = 0 /\ \A w \in Value : w # v => Owed(w)' = Owed(w)
  BY <1>1, <1>2, <1>5
<1>7. Balance' /\ tally' \in [Value -> Nat]
  BY <1>1, <1>4, <1>6, GivenBack
<1>8. TypeOK' /\ Separate' /\ Writers' /\ Deleters'
  BY <1>1, <1>2, <1>3, <1>7 DEF Inv, TypeOK, Separate, Writers, Deleters
<1>9. Sweeper'
  BY <1>1, <1>2 DEF Inv, Sweeper
<1> QED  BY <1>7, <1>8, <1>9 DEF Inv

LEMMA DropEntriesInv ==
    ASSUME Inv, DropEntries
    PROVE  Inv'
<1>1. heap' = heap
  BY KeptSame DEF DropEntries
<1>2. /\ sweep.pc = "scan" /\ sweep.todo = {} /\ sweep.values = {}
      /\ map' = map /\ tally' = tally /\ req' = req /\ search' = search
  BY DEF DropEntries, Inv, Sweeper
<1>3. <<>> \in Handles /\ DOMAIN <<>> = {}
  BY NoHandles
<1>4. /\ sweep' \in Sweeps /\ sweep'.pc = "prune" /\ sweep'.values = sweep.values
      /\ sweep'.entries = <<>> /\ sweep'.todo = sweep.todo
  BY <1>3 DEF DropEntries, Inv, TypeOK, Sweeps
<1>5. \A u \in Request : req[u].pc \notin Removing
  BY <1>2, NoDeletion
<1>6. TypeOK' /\ Separate' /\ Writers' /\ Deleters'
  BY <1>1, <1>2, <1>4, <1>5 DEF Inv, TypeOK, Separate, Writers, Deleters
<1>7. Sweeper'
  BY <1>2, <1>3, <1>4 DEF Sweeper
<1>8. \A v \in Value : Settled(v)' = Settled(v) /\ Owed(v)' = Owed(v)
  BY <1>1, <1>2, <1>4 DEF Settled, Holders, Owed
<1>9. Balance'
  BY <1>2, <1>8, SameBalance DEF Inv
<1> QED  BY <1>6, <1>7, <1>9 DEF Inv

\* Prune: what leaves the map is empty, and no request has it.
LEMMA PruneInv ==
    ASSUME Inv, Prune
    PROVE  Inv'
<1>1. /\ sweep.pc = "prune" /\ sweep' = NotSweeping /\ sweep.values = {}
      /\ heap' = heap /\ tally' = tally /\ req' = req /\ search' = search
  BY DEF Prune, Inv, Sweeper
<1>2. \A n \in Name : \/ map'[n] = map[n]
                      \/ map'[n] = None /\ map[n] \in Obj \ Held /\ heap[map[n]] = {}
  BY DEF Prune
<1>3. map' \in [Name -> Obj \cup {None}]
  BY DEF Prune, Inv, TypeOK
<1>4. NotSweeping \in Sweeps /\ DOMAIN NotSweeping.entries = {} /\ NotSweeping.values = {}
      /\ NotSweeping.todo = {} /\ NotSweeping.pc = "idle"
  BY NoHandles DEF NotSweeping, Sweeps
<1>5. \A u \in Request : req[u].pc \notin Removing
  BY <1>1, NoDeletion
<1>6. TypeOK'
  BY <1>1, <1>3, <1>4 DEF Inv, TypeOK
<1>7. Separate'
  BY <1>1, <1>2, <1>3 DEF Inv, Separate
<1>8. Writers'
  <2>1. \A u \in Request : req[u].pc \in Writing => map'[req[u].name] = req[u].obj
    BY <1>2 DEF Inv, Writers, Held, Taken
  <2> QED  BY <2>1, <1>1 DEF Inv, Writers
<1>9. Deleters'
  BY <1>1, <1>5 DEF Deleters
<1>10. Sweeper'
  BY <1>1, <1>4 DEF Sweeper
<1>11. \A v \in Value : Holders(v)' = Holders(v)
  BY <1>1, <1>2 DEF Holders
<1>12. \A v \in Value : Settled(v)' = Settled(v) /\ Owed(v)' = Owed(v)
  BY <1>1, <1>4, <1>11 DEF Settled, Owed
<1>13. Balance'
  BY <1>1, <1>12, SameBalance DEF Inv
<1> QED  BY <1>6, <1>7, <1>8, <1>9, <1>10, <1>13 DEF Inv

-----------------------------------------------------------------------------
(* A search changes nothing, and every step keeps the invariant.           *)

LEMMA SearchInv ==
    ASSUME Inv, Search
    PROVE  Inv'
<1>1. map' = map /\ heap' = heap /\ tally' = tally /\ req' = req /\ sweep' = sweep
  BY DEF Search, StartSearch, ListNames, Look, Found, Answer
<1>2. search' \in Searches
  <2>1. CASE StartSearch
    BY <2>1 DEF StartSearch, Inv, TypeOK, Searches, Holders
  <2>2. CASE ListNames
    BY <2>2 DEF ListNames, Inv, TypeOK, Searches
  <2>3. ASSUME NEW n \in Name, Look(n)
        PROVE  search' \in Searches
    <3>1. PICK seen \in Nat, truncated \in BOOLEAN, found \in SUBSET Name, todo \in SUBSET Name :
             search' = [search EXCEPT !.seen = seen, !.truncated = truncated,
                                      !.found = found, !.todo = todo]
      <4> DEFINE holds == n \in Holders(search.value)
                 shown == holds /\ n \in search.visible
                 full == shown /\ Cardinality(search.found) >= search.limit
                 seen == IF holds THEN search.seen + 1 ELSE search.seen
                 found == IF shown /\ ~full THEN search.found \cup {n} ELSE search.found
                 todo == IF full THEN {} ELSE search.todo \ {n}
      <4>1. seen \in Nat /\ found \in SUBSET Name /\ todo \in SUBSET Name
        BY DEF Inv, TypeOK, Searches
      <4>2. full \in BOOLEAN
        BY DEF Holders
      <4>3. search' = [search EXCEPT !.seen = seen, !.truncated = full,
                                     !.found = found, !.todo = todo]
        BY <2>3 DEF Look
      <4> QED  BY <4>1, <4>2, <4>3
    <3> QED  BY <3>1 DEF Inv, TypeOK, Searches
  <2>4. CASE Found
    BY <2>4 DEF Found, Inv, TypeOK, Searches
  <2>5. CASE Answer
    BY <2>5 DEF Answer, NotSearching, Inv, TypeOK, Searches
  <2> QED  BY <2>1, <2>2, <2>3, <2>4, <2>5 DEF Search
<1>3. TypeOK' /\ Separate' /\ Writers' /\ Deleters' /\ Sweeper'
  BY <1>1, <1>2 DEF Inv, TypeOK, Separate, Writers, Deleters, Sweeper
<1>4. \A v \in Value : Settled(v)' = Settled(v) /\ Owed(v)' = Owed(v)
  BY <1>1 DEF Settled, Holders, Owed
<1>5. Balance'
  BY <1>1, <1>4, SameBalance DEF Inv
<1> QED  BY <1>3, <1>5 DEF Inv

LEMMA InitInv == Init => Inv /\ Searching
<1> SUFFICES ASSUME Init PROVE Inv /\ Searching
  OBVIOUS
<1>1. NoRequest \in Requests /\ NoRequest.pc = "idle" /\ NoRequest.values = {}
  BY DEF NoRequest, Requests
<1>2. /\ NotSweeping \in Sweeps /\ NotSweeping.pc = "idle" /\ NotSweeping.values = {}
      /\ NotSweeping.todo = {} /\ DOMAIN NotSweeping.entries = {}
  BY NoHandles DEF NotSweeping, Sweeps
<1>3. \A visible \in SUBSET Name : 1..Cardinality(visible) \subseteq Nat
  OBVIOUS
<1>4. search \in Searches /\ search.pc = "idle" /\ search.truncated = FALSE
      /\ search.seen = 0 /\ search.found = {}
  <2>1. CASE search = NotSearching
    BY <2>1 DEF NotSearching, Searches
  <2>2. ASSUME NEW v \in Value, NEW visible \in SUBSET Name, NEW limit \in Nat,
               search = [NotSearching EXCEPT !.value = v, !.visible = visible, !.limit = limit]
        PROVE  search \in Searches /\ search.pc = "idle" /\ search.truncated = FALSE
               /\ search.seen = 0 /\ search.found = {}
    BY <2>2 DEF NotSearching, Searches
  <2> QED  BY <1>3, <2>1, <2>2 DEF Init
<1>5. TypeOK
  BY <1>1, <1>2, <1>4 DEF Init, TypeOK
<1>6. Separate /\ Writers /\ Deleters /\ Sweeper
  BY <1>1, <1>2 DEF Init, Separate, Writers, Deleters, Sweeper, Writing, Removing
<1>7. \A v \in Value : Settled(v) = {} /\ Owed(v) = 0
  BY <1>1, <1>2 DEF Init, Settled, Holders, Owed
<1>8. Balance
  <2>1. Cardinality({}) = 0
    BY FS_EmptySet
  <2>2. \A v \in Value : tally[v] = 0
    BY DEF Init
  <2> QED  BY <1>7, <2>1, <2>2 DEF Balance
<1>9. Searching
  BY <1>4 DEF Searching, FoundAll, Resting
<1> QED  BY <1>5, <1>6, <1>8, <1>9 DEF Inv

LEMMA NextInv ==
    ASSUME DeleteAlone, ~ExpiresEarly, Inv, [Next]_vars
    PROVE  Inv'
<1>1. ASSUME NEW t \in Request, Step(t)
      PROVE  Inv'
  BY <1>1, RecordInv, CountInv, ReturnInv, ListInv, RemoveInv, ReleaseInv DEF Step
<1>2. CASE Sweep
  BY <1>2, StartSweepInv, ScanInv, CheckEmptyInv, SweepReleaseInv, DropEntriesInv, PruneInv
     DEF Sweep
<1>3. CASE UNCHANGED vars
  <2>1. /\ map' = map /\ heap' = heap /\ tally' = tally /\ req' = req /\ sweep' = sweep
        /\ search' = search
    BY <1>3 DEF vars
  <2>2. TypeOK' /\ Separate' /\ Writers' /\ Deleters' /\ Sweeper'
    BY <2>1 DEF Inv, TypeOK, Separate, Writers, Deleters, Sweeper
  <2>3. \A v \in Value : Settled(v)' = Settled(v) /\ Owed(v)' = Owed(v)
    BY <2>1 DEF Settled, Holders, Owed
  <2>4. Balance'
    BY <2>1, <2>3, SameBalance DEF Inv
  <2> QED  BY <2>2, <2>4 DEF Inv
<1> QED  BY <1>1, <1>2, <1>3, StartWriteInv, StartDeleteInv, SearchInv DEF Next

\* At rest nothing is owed and every namespace that holds a value is settled.
LEMMA InvTally == Inv => TallyExact
<1> SUFFICES ASSUME Inv, Quiet, NEW v \in Value
             PROVE  tally[v] = Cardinality(Holders(v))
  BY DEF TallyExact
<1>1. Settled(v) = Holders(v)
  BY DEF Quiet, Settled, Holders
<1>2. Owed(v) = 0
  BY DEF Quiet, Owed, Inv, Sweeper
<1>3. Cardinality(Holders(v)) \in Nat
  BY <1>1, SettledFinite
<1> QED  BY <1>1, <1>2, <1>3 DEF Inv, Balance

\* Whatever writes and sweeps overlap, at rest the tally of every value is the
\* number of namespaces that hold it (record_write, release_consensus), provided
\* that nothing overlaps a deletion and no value expires before its write returns.
THEOREM TallyIsExact ==
    ASSUME DeleteAlone, ~ExpiresEarly
    PROVE  Spec => []TallyExact
<1>1. Init => Inv
  BY InitInv
<1>2. Inv /\ [Next]_vars => Inv'
  BY NextInv
<1>3. Inv => TallyExact
  BY InvTally
<1> QED  BY <1>1, <1>2, <1>3, PTL DEF Spec

-----------------------------------------------------------------------------
(* The search.                                                             *)

\* A step of a request or of the sweeper brings no value into a namespace that no
\* request was writing, and no request takes a new value up in the middle.
LEMMA OthersShrink ==
    ASSUME Inv, Inv', (\E t \in Request : Step(t) \/ \E n \in Name : StartDelete(t, n)) \/ Sweep
    PROVE  /\ search' = search
           /\ \A u \in Request : req'[u].value \in {req[u].value, None}
           /\ \A w \in Value : (\A u \in Request : req[u].value # w) =>
                 Holders(w)' \subseteq Holders(w)
<1> DEFINE Values == \A u \in Request : req'[u].value \in {req[u].value, None}
           Shrink == \A w \in Value : (\A u \in Request : req[u].value # w) =>
                        Holders(w)' \subseteq Holders(w)
<1>1. ASSUME NEW t \in Request, Step(t) \/ \E n \in Name : StartDelete(t, n)
      PROVE  search' = search /\ Values /\ Shrink
  <2>1. CASE Record(t)
    <3>1. search' = search /\ map' = map
      BY <2>1 DEF Record
    <3>2. Values
      BY <2>1 DEF Record, Inv, TypeOK, Requests
    <3>3. Shrink
      BY <2>1 DEF Record, Inv, TypeOK, Holders
    <3> QED  BY <3>1, <3>2, <3>3
  <2>2. CASE Count(t)
    <3>1. search' = search /\ map' = map /\ heap' = heap
      BY <2>2 DEF Count
    <3>2. Values
      BY <2>2 DEF Count, Inv, TypeOK, Requests
    <3> QED  BY <3>1, <3>2 DEF Holders
  <2>3. CASE Return(t)
    <3>1. search' = search /\ map' = map /\ heap' = heap
      BY <2>3, KeptSame DEF Return
    <3>2. Values
      BY <2>3 DEF Return, Inv, TypeOK, NoRequest
    <3> QED  BY <3>1, <3>2 DEF Holders
  <2>4. CASE List(t)
    <3>1. search' = search /\ map' = map /\ heap' = heap
      BY <2>4, KeptSame DEF List
    <3>2. Values
      BY <2>4 DEF List, Inv, TypeOK, Requests
    <3> QED  BY <3>1, <3>2 DEF Holders
  <2>5. CASE Remove(t)
    <3>1. search' = search
      BY <2>5 DEF Remove
    <3>2. Values
      BY <2>5 DEF Remove, Inv, TypeOK, NoRequest, Requests
    <3>3. \A n \in Name : map'[n] # None => map'[n] = map[n] /\ heap'[map[n]] \subseteq heap[map[n]]
      BY <2>5 DEF Remove, Kept, Inv, TypeOK
    <3>4. Shrink
      BY <3>3 DEF Holders
    <3> QED  BY <3>1, <3>2, <3>4
  <2>6. ASSUME NEW v \in Value, Release(t, v)
        PROVE  search' = search /\ Values /\ Shrink
    <3>1. search' = search /\ map' = map /\ heap' = heap
      BY <2>6 DEF Release
    <3>2. Values
      BY <2>6 DEF Release, Inv, TypeOK, NoRequest, Requests
    <3> QED  BY <3>1, <3>2 DEF Holders
  <2>7. ASSUME NEW n \in Name, StartDelete(t, n)
        PROVE  search' = search /\ Values /\ Shrink
    <3>1. search' = search /\ map' = map /\ heap' = heap
      BY <2>7 DEF StartDelete
    <3>2. Values
      BY <2>7 DEF StartDelete, Inv, TypeOK, NoRequest
    <3> QED  BY <3>1, <3>2 DEF Holders
  <2> QED  BY <1>1, <2>1, <2>2, <2>3, <2>4, <2>5, <2>6, <2>7 DEF Step
<1>2. CASE Sweep
  <2>1. search' = search /\ req' = req
    BY <1>2 DEF Sweep, StartSweep, Scan, CheckEmpty, SweepRelease, DropEntries, Prune
  <2>2. ASSUME NEW n \in Name, Scan(n)
        PROVE  Shrink
    <3>1. map' = map /\ \A o \in Obj : heap'[o] \subseteq heap[o]
      BY <2>2 DEF Scan, Inv, TypeOK
    <3> QED  BY <3>1 DEF Holders, Inv, TypeOK
  <2>3. CASE DropEntries
    <3>1. map' = map /\ heap' = heap
      BY <2>3, KeptSame DEF DropEntries
    <3> QED  BY <2>1, <3>1 DEF Holders
  <2>4. CASE Prune
    <3>1. heap' = heap /\ \A n \in Name : map'[n] \in {map[n], None}
      BY <2>4 DEF Prune
    <3> QED  BY <2>1, <3>1 DEF Holders
  <2>5. CASE StartSweep \/ CheckEmpty \/ \E v \in Value : SweepRelease(v)
    <3>1. map' = map /\ heap' = heap
      BY <2>5 DEF StartSweep, CheckEmpty, SweepRelease
    <3> QED  BY <2>1, <3>1 DEF Holders
  <2>6. Shrink
    BY <1>2, <2>2, <2>3, <2>4, <2>5 DEF Sweep
  <2> QED  BY <2>1, <2>6
<1> QED  BY <1>1, <1>2

\* Steps of others leave a search that is alone as it was.
LEMMA Undisturbed ==
    ASSUME Inv, Searching,
           search'.pc = search.pc, search'.value = search.value, search'.target = search.target,
           search'.visible = search.visible, search'.todo = search.todo,
           search'.seen = search.seen, search'.found = search.found,
           search'.truncated = search.truncated, search'.before = search.before,
           search.pc # "idle" /\ search'.alone =>
              /\ search.alone
              /\ \A t \in Request : req'[t].value # search.value
              /\ \A n \in Name : n \in Holders(search.value)' => n \in Holders(search.value)
    PROVE  Searching'
<1>1. (search.pc # "idle" => search.value \in Value)'
  BY DEF Searching
<1>2. search'.pc # "idle" /\ search'.alone =>
          /\ \A t \in Request : req'[t].value # search'.value
          /\ Holders(search.value)' \subseteq search'.before
          /\ Cardinality(search'.before) <= search'.target
  BY DEF Searching, Holders
<1>3. search'.pc \in {"idle", "list"} => Resting'
  BY DEF Searching, Resting
<1>4. search'.pc = "look" /\ search'.alone /\ ~search'.truncated =>
          \E S \in SUBSET Name : Counted(S)'
  <2> SUFFICES ASSUME search'.pc = "look", search'.alone, ~search'.truncated
               PROVE  \E S \in SUBSET Name : Counted(S)'
    OBVIOUS
  <2>1. PICK S \in SUBSET Name : Counted(S)
    BY DEF Searching
  <2>2. search.before \cap Holders(search.value)' \subseteq search.before \cap Holders(search.value)
    BY DEF Holders
  <2>3. Counted(S)'
    BY <2>1, <2>2 DEF Counted
  <2> QED  BY <2>3
<1>5. (search.truncated => search.todo = {})'
  BY DEF Searching
<1>6. FoundAll'
  <2> SUFFICES ASSUME search'.pc = "found", search'.alone, ~search'.truncated
               PROVE  search'.before \cap Holders(search.value)' \cap search'.visible
                         \subseteq search'.found
    BY DEF FoundAll
  <2>1. search.before \cap Holders(search.value) \cap search.visible \subseteq search.found
    BY DEF Searching, FoundAll
  <2> QED  BY <2>1 DEF Holders
<1> QED  BY <1>1, <1>2, <1>3, <1>4, <1>5, <1>6 DEF Searching

LEMMA StartWriteSearching ==
    ASSUME Inv, Searching, NEW t \in Request, NEW n \in Name, NEW v \in Value,
           StartWrite(t, n, v)
    PROVE  Searching'
<1> DEFINE o == IF map[n] # None THEN map[n] ELSE CHOOSE f \in Free : TRUE
           r == [NoRequest EXCEPT !.pc = "record", !.name = n, !.obj = o, !.value = v]
<1>1. /\ map' = [map EXCEPT ![n] = o] /\ req' = [req EXCEPT ![t] = r] /\ heap' = heap
      /\ r.value = v
  BY DEF StartWrite, NoRequest
<1>2. map[n] # None => o = map[n]
  OBVIOUS
<1>3. map[n] = None => heap[o] = {}
  BY FreeObject DEF Inv, Separate
<1> HIDE DEF o, r
<1>4. \A m \in Name, w \in Value : m \in Holders(w)' => m \in Holders(w)
  BY <1>1, <1>2, <1>3 DEF Holders, Inv, TypeOK
<1>5. \A u \in Request : req'[u].value \in {req[u].value, v}
  BY <1>1 DEF Inv, TypeOK
<1>6. /\ search'.pc = search.pc /\ search'.value = search.value /\ search'.target = search.target
      /\ search'.visible = search.visible /\ search'.todo = search.todo
      /\ search'.seen = search.seen /\ search'.found = search.found
      /\ search'.truncated = search.truncated /\ search'.before = search.before
      /\ search.pc # "idle" /\ search'.alone => search.alone /\ v # search.value
  BY DEF StartWrite, Inv, TypeOK, Searches
<1>7. search.pc # "idle" /\ search'.alone =>
              /\ search.alone
              /\ \A u \in Request : req'[u].value # search.value
              /\ \A m \in Name : m \in Holders(search.value)' => m \in Holders(search.value)
  <2> SUFFICES ASSUME search.pc # "idle", search'.alone
               PROVE  /\ search.alone
                      /\ \A u \in Request : req'[u].value # search.value
                      /\ \A m \in Name : m \in Holders(search.value)' => m \in Holders(search.value)
    OBVIOUS
  <2>1. search.value \in Value /\ \A u \in Request : req[u].value # search.value
    BY <1>6 DEF Searching
  <2>2. \A m \in Name : m \in Holders(search.value)' => m \in Holders(search.value)
    BY <2>1, <1>4, <1>6 DEF Holders
  <2> QED  BY <2>1, <2>2, <1>5, <1>6
<1> QED  BY <1>6, <1>7, Undisturbed

\* When a search begins and nobody writes its value, the tally it takes as its
\* target is no less than the number of namespaces that hold the value.
LEMMA StartSearchSearching ==
    ASSUME Inv, Searching, StartSearch
    PROVE  Searching'
<1>1. PICK v \in Value : v = search.value
  BY DEF StartSearch, Inv, TypeOK, Searches
<1>2. /\ search'.pc = "list" /\ search'.value = v /\ search'.target = tally[v]
      /\ search'.before = Holders(v) /\ search'.seen = search.seen
      /\ search'.found = search.found /\ search'.truncated = search.truncated
      /\ search'.alone <=> \A t \in Request : req[t].value # v
  BY <1>1 DEF StartSearch, Inv, TypeOK, Searches
<1>3. map' = map /\ heap' = heap /\ req' = req /\ search.pc = "idle"
  BY DEF StartSearch
<1>4. search'.alone => Cardinality(Holders(v)) <= tally[v]
  <2> SUFFICES ASSUME \A t \in Request : req[t].value # v
               PROVE  Cardinality(Holders(v)) <= tally[v]
    BY <1>2
  <2>1. Settled(v) = Holders(v)
    BY DEF Settled, Holders
  <2>2. Cardinality(Holders(v)) \in Nat
    BY <2>1, SettledFinite
  <2>3. tally[v] = Cardinality(Holders(v)) + Owed(v) /\ Owed(v) \in {0, 1}
    BY <2>1 DEF Inv, Balance, Owed
  <2> QED  BY <2>2, <2>3
<1>5. Holders(v)' = Holders(v)
  BY <1>3 DEF Holders
<1>6. search.seen = 0 /\ search.found = {} /\ ~search.truncated
  BY <1>3 DEF Searching, Resting
<1>7. Holders(search.value)' = Holders(v)
  BY <1>2, <1>5 DEF Holders
<1> QED  BY <1>2, <1>3, <1>4, <1>6, <1>7 DEF Searching, FoundAll, Resting

LEMMA ListNamesSearching ==
    ASSUME Inv, Searching, ListNames
    PROVE  Searching'
<1>1. /\ search'.pc = "look" /\ search'.value = search.value /\ search'.target = search.target
      /\ search'.todo = {n \in Name : map[n] # None} /\ search'.seen = 0 /\ search'.found = {}
      /\ search'.truncated = FALSE /\ search'.before = search.before
      /\ search'.alone = search.alone /\ search'.visible = search.visible
      /\ search.pc = "list"
  BY DEF ListNames, Inv, TypeOK, Searches, Searching, Resting
<1>2. map' = map /\ heap' = heap /\ req' = req
  BY DEF ListNames
<1>3. Holders(search.value)' = Holders(search.value)
  BY <1>1, <1>2 DEF Holders
<1>4. Counted({})'
  <2>1. Cardinality({}) = 0
    BY FS_EmptySet
  <2>2. Holders(search.value) \subseteq search'.todo
    BY <1>1 DEF Holders
  <2> QED  BY <1>1, <1>3, <2>1, <2>2 DEF Counted
<1> QED  BY <1>1, <1>2, <1>3, <1>4 DEF Searching, FoundAll, Resting

\* A lookup moves a namespace from those to be looked into to those counted.
LEMMA LookSearching ==
    ASSUME Inv, Searching, NEW n \in Name, Look(n)
    PROVE  Searching'
<1> DEFINE holds == n \in Holders(search.value)
           shown == holds /\ n \in search.visible
           full == shown /\ Cardinality(search.found) >= search.limit
<1>1. /\ search'.pc = "look" /\ search'.value = search.value /\ search'.target = search.target
      /\ search'.before = search.before /\ search'.alone = search.alone
      /\ search'.visible = search.visible /\ search.pc = "look" /\ n \in search.todo
  BY DEF Look, Inv, TypeOK, Searches
<1>2. /\ search'.todo = (IF full THEN {} ELSE search.todo \ {n})
      /\ search'.seen = (IF holds THEN search.seen + 1 ELSE search.seen)
      /\ search'.found = (IF shown /\ ~full THEN search.found \cup {n} ELSE search.found)
  BY DEF Look, Inv, TypeOK, Searches
<1>3. search'.truncated = full
  BY DEF Look, Inv, TypeOK, Searches
<1>4. map' = map /\ heap' = heap /\ req' = req
  BY DEF Look
<1>5. Holders(search.value)' = Holders(search.value)
  BY <1>1, <1>4 DEF Holders
<1>6. ASSUME search.alone, ~full
      PROVE  \E S \in SUBSET Name : Counted(S)'
  <2>1. ~search.truncated
    BY <1>1 DEF Searching
  <2>2. PICK S \in SUBSET Name : Counted(S)
    BY <1>1, <1>6, <2>1 DEF Searching
  <2>3. search'.todo = search.todo \ {n} /\ n \notin S
    BY <1>1, <1>2, <1>6, <2>2 DEF Counted
  <2>4. CASE holds
    <3>1. n \in search.before
      BY <1>1, <1>6, <2>4 DEF Searching
    <3>2. IsFiniteSet(S) /\ Cardinality(S) \in Nat
      BY ConsensusAssumption, FS_Subset, FS_CardinalityType
    <3>3. Cardinality(S \cup {n}) = Cardinality(S) + 1
      BY <2>3, <3>2, FS_AddElement, SMTT(20)
    <3>4. n \in search.visible => n \in search'.found
      BY <1>2, <1>6, <2>4
    <3>5. search.found \subseteq search'.found /\ search'.seen = search.seen + 1
      BY <1>2, <2>4
    <3>6. Counted(S \cup {n})'
      BY <1>1, <1>5, <2>2, <2>3, <3>1, <3>3, <3>4, <3>5 DEF Counted
    <3> QED  BY <3>6
  <2>5. CASE ~holds
    <3>1. search'.found = search.found /\ search'.seen = search.seen
      BY <1>2, <2>5
    <3>2. Counted(S)'
      BY <1>1, <1>5, <2>2, <2>3, <2>5, <3>1 DEF Counted
    <3> QED  BY <3>2
  <2> QED  BY <2>4, <2>5
<1>7. search'.truncated => search'.todo = {}
  BY <1>2, <1>3
<1> HIDE DEF full
<1>8. search'.pc = "look" /\ search'.alone /\ ~search'.truncated => \E S \in SUBSET Name : Counted(S)'
  BY <1>1, <1>3, <1>6
<1> QED  BY <1>1, <1>4, <1>5, <1>7, <1>8 DEF Searching, FoundAll, Resting

\* The search ends when the counted namespaces are as many as the target: then
\* they are all there were.
LEMMA FoundSearching ==
    ASSUME Inv, Searching, Found
    PROVE  Searching'
<1>1. /\ search'.pc = "found" /\ search'.value = search.value /\ search'.target = search.target
      /\ search'.before = search.before /\ search'.alone = search.alone
      /\ search'.visible = search.visible /\ search'.todo = {} /\ search'.found = search.found
      /\ search'.truncated = search.truncated
      /\ search.pc = "look" /\ (Accounted \/ search.todo = {})
  BY DEF Found, Inv, TypeOK, Searches
<1>2. map' = map /\ heap' = heap /\ req' = req
  BY DEF Found
<1>3. Holders(search.value)' = Holders(search.value)
  BY <1>1, <1>2 DEF Holders
<1>4. ASSUME search.alone, ~search.truncated
      PROVE  search.before \cap Holders(search.value) \cap search.visible \subseteq search.found
  <2>1. PICK S \in SUBSET Name : Counted(S)
    BY <1>1, <1>4 DEF Searching
  <2>2. CASE search.todo = {}
    BY <2>1, <2>2 DEF Counted
  <2>3. CASE Accounted
    <3>1. S \subseteq search.before /\ IsFiniteSet(search.before)
      BY <2>1, ConsensusAssumption, FS_Subset DEF Counted, Inv, TypeOK, Searches
    <3>2. Cardinality(S) \in Nat /\ Cardinality(search.before) \in Nat
             /\ Cardinality(S) <= Cardinality(search.before)
             /\ (Cardinality(S) = Cardinality(search.before) => S = search.before)
      BY <3>1, FS_Subset, FS_CardinalityType
    <3>3. search.target \in Nat /\ Cardinality(search.before) <= search.target
             /\ search.target <= Cardinality(S)
      BY <1>1, <1>4, <2>1, <2>3 DEF Searching, Counted, Accounted, Inv, TypeOK, Searches
    <3>4. S = search.before
      BY <3>2, <3>3
    <3> QED  BY <2>1, <3>4 DEF Counted
  <2> QED  BY <1>1, <2>2, <2>3
<1>5. FoundAll'
  BY <1>1, <1>3, <1>4 DEF FoundAll
<1> QED  BY <1>1, <1>2, <1>3, <1>5 DEF Searching, Resting

LEMMA NextSearching ==
    ASSUME Inv, Inv', Searching, [Next]_vars
    PROVE  Searching'
<1>1. CASE (\E t \in Request : Step(t) \/ \E n \in Name : StartDelete(t, n)) \/ Sweep
  <2>1. /\ search' = search
        /\ \A u \in Request : req'[u].value \in {req[u].value, None}
        /\ \A w \in Value : (\A u \in Request : req[u].value # w) =>
              Holders(w)' \subseteq Holders(w)
    BY <1>1, OthersShrink
  <2>2. ASSUME search.pc # "idle", search'.alone
        PROVE  /\ search.alone
               /\ \A t \in Request : req'[t].value # search.value
               /\ \A n \in Name : n \in Holders(search.value)' => n \in Holders(search.value)
    <3>1. search.value \in Value /\ search.alone
             /\ \A t \in Request : req[t].value # search.value
      BY <2>1, <2>2 DEF Searching
    <3>2. PICK w \in Value : w = search.value
      BY <3>1
    <3>3. Holders(w)' \subseteq Holders(w)
      BY <2>1, <3>1, <3>2
    <3>4. \A n \in Name : n \in Holders(search.value)' => n \in Holders(search.value)
      BY <2>1, <3>2, <3>3 DEF Holders
    <3> QED  BY <2>1, <3>1, <3>4, ConsensusAssumption
  <2> QED  BY <2>1, <2>2, Undisturbed
<1>2. CASE UNCHANGED vars
  <2>1. search' = search /\ req' = req /\ map' = map /\ heap' = heap
    BY <1>2 DEF vars
  <2>2. \A n \in Name : n \in Holders(search.value)' => n \in Holders(search.value)
    BY <2>1 DEF Holders
  <2> QED  BY <2>1, <2>2, Undisturbed DEF Searching
<1>3. CASE Answer
  <2>1. search'.pc = "idle" /\ search'.truncated = FALSE /\ search'.seen = 0 /\ search'.found = {}
    BY <1>3 DEF Answer, NotSearching
  <2> QED  BY <2>1 DEF Searching, FoundAll, Resting
<1>4. CASE Search
  BY <1>3, <1>4, StartSearchSearching, ListNamesSearching, LookSearching, FoundSearching
     DEF Search
<1> QED  BY <1>1, <1>2, <1>4, StartWriteSearching DEF Next

\* A search that nothing writes its value during misses no namespace that it may
\* show and that held the value from beginning to end (sightings_of), provided
\* that nothing overlaps a deletion and no value expires before its write returns:
\* the tally it stops at is then never too low.
THEOREM SearchFindsAll ==
    ASSUME DeleteAlone, ~ExpiresEarly
    PROVE  Spec => []FoundAll
<1>1. Init => Inv /\ Searching
  BY InitInv
<1>2. Inv /\ Searching /\ [Next]_vars => Inv' /\ Searching'
  BY NextInv, NextSearching
<1>3. Searching => FoundAll
  BY DEF Searching
<1> QED  BY <1>1, <1>2, <1>3, PTL DEF Spec
=============================================================================

------------------------------ MODULE StoreSteps ------------------------------
(***************************************************************************)
(* The inductive invariant of Store for a server whose shards are all hot  *)
(* (none is evicted), and that every step of a request preserves it.  The  *)
(* snapshot thread, the restart and the theorems are in StoreProofs.       *)
(***************************************************************************)
EXTENDS Store, Sequences, FiniteSetTheorems, TLAPS

-----------------------------------------------------------------------------
(* The inductive invariant.                                                *)

Writing  == {"evicted", "create", "register", "record", "mark", "return"}
Deleting == {"release", "remove", "mark_removed", "unlist"}
Viewing  == {"view", "absent"}
Holding  == {"register", "record", "mark", "return", "view", "release"}

Pcs  == {"idle", "lookup", "catalogued"} \cup Writing \cup Deleting \cup Viewing
Reqs == [pc : Pcs, op : {"write", "read", "delete"}, name : Name \cup {None},
         obj : Obj \cup {None}, tok : Token \cup {None}, names : {{}}, expect : SUBSET Token]

\* A request's fields fit where it is.
Fits(r) ==
    /\ r \in Reqs
    /\ r.pc # "idle" => r.name \in Name /\ <<r.op, r.name>> \in Workload
                        /\ (r.op = "write" => r.tok \in Token)
    /\ r.pc \in Writing => r.op = "write"
    /\ r.pc \in Deleting => r.op = "delete"
    /\ r.pc \in Viewing => r.op = "read"
    /\ r.pc \in Holding => r.obj \in Obj
    /\ r.pc \notin Holding => r.obj = None

Contents == (SUBSET Token) \cup {None}

SaverOK ==
    /\ saver = [pc |-> saver.pc, present |-> saver.present, taken |-> saver.taken,
                todo |-> saver.todo, cur |-> saver.cur, objs |-> saver.objs,
                content |-> saver.content, due |-> saver.due]
    /\ saver.pc \in {"idle", "take", "write", "read", "rename", "done"}
    /\ saver.present \subseteq Shard /\ saver.taken \subseteq Shard /\ saver.due \subseteq Token
    /\ saver.todo \subseteq saver.taken \cap saver.present
    /\ saver.pc \notin {"write", "read", "rename"} => saver.todo = {}
    /\ saver.pc \in {"read", "rename"} => saver.cur \in saver.taken \cap saver.present
    /\ saver.pc = "read" => saver.objs \in [InShard(saver.cur) -> Obj \cup {None}]
    /\ saver.pc # "read" => Reading = {}
    /\ saver.pc = "rename" => saver.content \in [InShard(saver.cur) -> Contents]

TypeOK ==
    /\ map \in [Name -> Obj \cup {None}] /\ heap \in [Obj -> SUBSET Token]
    /\ known = resident /\ evictor = NotEvicting /\ dirty \subseteq Shard
    /\ req = [t \in Request |-> req[t]] /\ \A t \in Request : Fits(req[t])
    /\ disk \in [Name -> Contents] /\ acked \in [Name -> SUBSET Token]
    /\ deleted \subseteq Token /\ dead \subseteq Obj
    /\ SaverOK

\* What memory holds of a namespace.
Mem(n) == IF map[n] = None THEN {} ELSE heap[map[n]]

Separate == \A m, n \in Name : map[m] = map[n] /\ map[m] # None => m = n

\* An object a deletion removed is held by somebody and holds only what was deleted.
Deaths ==
    /\ dead \subseteq Held
    /\ \A n \in Name : map[n] \notin dead
    /\ \A o \in dead : heap[o] \subseteq deleted

\* Memory has everything acknowledged, and everything in the files, deletions apart.
Complete == \A n \in Name : acked[n] \cup OnDisk(n) \subseteq deleted \cup Mem(n)

\* What a request may count on.
Sound(r) ==
    /\ r.pc \in Holding => r.obj \in dead \cup {map[r.name]}
    /\ r.pc \in {"mark", "return"} => r.tok \in heap[r.obj]
    /\ r.op = "read" /\ r.pc # "idle" => r.expect \subseteq acked[r.name]
    /\ r.pc = "view" /\ r.obj \in dead => r.expect \subseteq deleted
    /\ r.op = "read" /\ r.pc \in {"catalogued", "absent"} => r.expect \subseteq deleted

\* What the snapshot thread is reading of a namespace, and what it has read.
Seen(n) == IF saver.objs[n] = None THEN {} ELSE heap[saver.objs[n]]
Copied(n) == IF saver.content[n] = None THEN {} ELSE saver.content[n]

\* The file to come has whatever the file has, deletions apart, and no more than memory;
\* a shard that had nothing in memory when the save began has a file of deleted things.
Reads(n) == /\ saver.objs[n] \in dead \cup {map[n], None}
            /\ OnDisk(n) \subseteq deleted \cup Seen(n)
Copies(n) == /\ Copied(n) \subseteq deleted \cup Mem(n)
             /\ OnDisk(n) \subseteq deleted \cup Copied(n)

Saved ==
    /\ saver.pc = "read" => \A n \in InShard(saver.cur) : Reads(n)
    /\ saver.pc = "rename" => \A n \in InShard(saver.cur) : Copies(n)
    /\ saver.pc \in {"take", "write", "read", "rename"} =>
          \A n \in Name : ShardOf[n] \notin saver.present => OnDisk(n) \subseteq deleted

Inv == /\ TypeOK /\ Separate /\ Deaths /\ Complete /\ Saved
       /\ \A t \in Request : Sound(req[t])

-----------------------------------------------------------------------------
(* There are objects enough.                                               *)

\* The objects a function gives are no more than its arguments.
LEMMA Image ==
    ASSUME NEW T, IsFiniteSet(T), NEW f, DOMAIN f \subseteq T
    PROVE  LET A == {o \in Obj : \E x \in DOMAIN f : f[x] = o}
           IN  IsFiniteSet(A) /\ Cardinality(A) \in Nat /\ Cardinality(A) <= Cardinality(T)
<1>1. PICK A : A = {o \in Obj : \E x \in DOMAIN f : f[x] = o}
  OBVIOUS
<1>2. PICK owner : owner = [o \in A |-> CHOOSE x \in DOMAIN f : f[x] = o]
  OBVIOUS
<1>3. \A o \in A : owner[o] \in DOMAIN f /\ f[owner[o]] = o
  BY <1>1, <1>2
<1>4. owner \in [A -> T] /\ \A a, b \in A : owner[a] = owner[b] => a = b
  BY <1>2, <1>3
<1>5. owner \in Injection(A, T)
  BY <1>4 DEF Injection, IsInjective
<1>6. IsFiniteSet(A) /\ Cardinality(A) <= Cardinality(T)
  BY <1>5, FS_Injection
<1>7. Cardinality(A) \in Nat
  BY <1>6, FS_CardinalityType
<1> QED  BY <1>1, <1>6, <1>7

LEMMA FreeObject ==
    ASSUME TypeOK
    PROVE  Free # {}
<1>1. PICK objs : objs = [t \in Request |-> req[t].obj]
  OBVIOUS
<1>2. PICK A : A = {o \in Obj : \E t \in DOMAIN objs : objs[t] = o}
  OBVIOUS
<1>3. PICK B : B = {o \in Obj : \E n \in DOMAIN map : map[n] = o}
  OBVIOUS
<1>4. PICK C : C = {o \in Obj : \E n \in DOMAIN saver.objs : saver.objs[n] = o}
  OBVIOUS
<1>5. IsFiniteSet(A) /\ Cardinality(A) \in Nat /\ Cardinality(A) <= Cardinality(Request)
  <2>1. DOMAIN objs \subseteq Request
    BY <1>1
  <2> QED  BY <1>2, <2>1, StoreAssumption, Image
<1>6. IsFiniteSet(B) /\ Cardinality(B) \in Nat /\ Cardinality(B) <= Cardinality(Name)
  <2>1. DOMAIN map \subseteq Name
    BY DEF TypeOK
  <2> QED  BY <1>3, <2>1, StoreAssumption, Image
<1>7. IsFiniteSet(C) /\ Cardinality(C) \in Nat /\ Cardinality(C) <= Cardinality(Name)
  <2>1. CASE saver.pc = "read"
    <3>1. PICK f : f = saver.objs
      OBVIOUS
    <3>2. DOMAIN f \subseteq Name
      BY <2>1, <3>1 DEF TypeOK, SaverOK, InShard
    <3> QED  BY <1>4, <3>1, <3>2, StoreAssumption, Image
  <2>2. CASE saver.pc # "read"
    <3>1. C = {}
      BY <1>4, <2>2 DEF TypeOK, SaverOK, Reading
    <3>2. Cardinality(Name) \in Nat
      BY StoreAssumption, FS_CardinalityType
    <3> QED  BY <3>1, <3>2, FS_EmptySet
  <2> QED  BY <2>1, <2>2
<1>8. IsFiniteSet(A \cup B) /\ Cardinality(A \cup B) \in Nat
         /\ Cardinality(A \cup B) <= Cardinality(A) + Cardinality(B)
  <2>1. /\ IsFiniteSet(A \cup B)
        /\ Cardinality(A \cup B) = Cardinality(A) + Cardinality(B) - Cardinality(A \cap B)
    BY <1>5, <1>6, FS_Union
  <2>2. Cardinality(A \cap B) \in Nat /\ Cardinality(A \cup B) \in Nat
    BY <1>5, <2>1, FS_Intersection, FS_CardinalityType
  <2> QED  BY <1>5, <1>6, <2>1, <2>2
<1>9. PICK D : D = A \cup B
  OBVIOUS
<1>10. IsFiniteSet(D \cup C) /\ Cardinality(D \cup C) \in Nat
         /\ Cardinality(D \cup C) <= Cardinality(D) + Cardinality(C)
  <2>1. /\ IsFiniteSet(D \cup C)
        /\ Cardinality(D \cup C) = Cardinality(D) + Cardinality(C) - Cardinality(D \cap C)
    BY <1>7, <1>8, <1>9, FS_Union
  <2>2. Cardinality(D \cap C) \in Nat /\ Cardinality(D \cup C) \in Nat
    BY <1>8, <1>9, <2>1, FS_Intersection, FS_CardinalityType
  <2> QED  BY <1>7, <1>8, <1>9, <2>1, <2>2
<1>11. Cardinality(D \cup C) < Cardinality(Obj)
  <2>1. Cardinality(Name) \in Nat /\ Cardinality(Request) \in Nat /\ Cardinality(Obj) \in Nat
    BY StoreAssumption, FS_CardinalityType
  <2> QED  BY <1>5, <1>6, <1>7, <1>8, <1>9, <1>10, <2>1, StoreAssumption
<1>12. D \cup C # Obj
  <2>1. Cardinality(D \cup C) # Cardinality(Obj)
    BY <1>10, <1>11, StoreAssumption, FS_CardinalityType
  <2> QED  BY <2>1
<1>13. PICK o \in Obj : o \notin D \cup C
  BY <1>2, <1>3, <1>4, <1>9, <1>12
<1>14. o \notin Held \cup Mapped(map)
  <2>1. \A t \in Request : req[t].obj # o
    BY <1>1, <1>2, <1>9, <1>13
  <2>2. \A n \in Name : map[n] # o
    BY <1>3, <1>9, <1>13 DEF TypeOK
  <2>3. \A n \in DOMAIN saver.objs : saver.objs[n] # o
    BY <1>4, <1>13
  <2> QED  BY <2>1, <2>2, <2>3 DEF Held, Taken, Reading, Mapped
<1> QED  BY <1>13, <1>14 DEF Free

\* A new object: nobody's until now.
LEMMA Allocated ==
    ASSUME TypeOK, NEW n \in Name
    PROVE  Place({n})[n] \in Free
<1>1. PICK o \in Free : TRUE
  BY FreeObject
<1>2. PICK place : place = [m \in {n} |-> o]
  OBVIOUS
<1>3. place \in [{n} -> Free] /\ \A k, m \in {n} : place[k] = place[m] => k = m
  BY <1>2
<1>4. Place({n}) \in [{n} -> Free]
  BY <1>3 DEF Place
<1> QED  BY <1>4

\* The files find room.
LEMMA PlacedIs ==
    ASSUME NEW names \in SUBSET Name
    PROVE  /\ Placed(names) \in [names -> Obj]
           /\ \A m, n \in names : Placed(names)[m] = Placed(names)[n] => m = n
<1>1. IsFiniteSet(names) /\ Cardinality(names) <= Cardinality(Name)
  BY StoreAssumption, FS_Subset
<1>2. Cardinality(names) \in Nat /\ Cardinality(Obj) \in Nat /\ Cardinality(names) <= Cardinality(Obj)
  <2>1. Cardinality(Name) \in Nat /\ Cardinality(Request) \in Nat /\ Cardinality(Obj) \in Nat
        /\ Cardinality(names) \in Nat
    BY <1>1, StoreAssumption, FS_CardinalityType
  <2> QED  BY <1>1, <2>1, StoreAssumption
<1>3. PICK k \in Nat, l \in Nat : k = Cardinality(names) /\ l = Cardinality(Obj) /\ k <= l
  BY <1>2
<1>4. PICK f : f \in Bijection(1..k, names)
  BY <1>1, <1>3, FS_CardinalityType DEF ExistsBijection
<1>5. PICK g : g \in Bijection(1..l, Obj)
  BY <1>3, StoreAssumption, FS_CardinalityType DEF ExistsBijection
<1>6. /\ f \in [1..k -> names] /\ \A n \in names : \E i \in 1..k : f[i] = n
      /\ g \in [1..l -> Obj] /\ \A i, j \in 1..l : g[i] = g[j] => i = j
  BY <1>4, <1>5 DEF Bijection, Injection, Surjection, IsInjective
<1>7. PICK index : index = [n \in names |-> CHOOSE i \in 1..k : f[i] = n]
  OBVIOUS
<1>8. \A n \in names : index[n] \in 1..k /\ f[index[n]] = n
  BY <1>6, <1>7
<1>9. PICK place : place = [n \in names |-> g[index[n]]]
  OBVIOUS
<1>10. 1..k \subseteq 1..l
  BY <1>3
<1>11. place \in [names -> Obj] /\ \A m, n \in names : place[m] = place[n] => m = n
  <2>1. \A n \in names : index[n] \in 1..l
    BY <1>8, <1>10
  <2>2. place \in [names -> Obj]
    BY <1>6, <1>9, <2>1
  <2>3. ASSUME NEW m \in names, NEW n \in names, place[m] = place[n]
        PROVE  m = n
    <3>1. index[m] = index[n]
      BY <1>6, <1>9, <2>1, <2>3
    <3> QED  BY <1>8, <3>1
  <2> QED  BY <2>2, <2>3
<1> QED  BY <1>11 DEF Placed

-----------------------------------------------------------------------------
(* Steps that leave the map alone: nothing that somebody has a handle on    *)
(* loses a sighting, and no deletion is forgotten.                          *)

Grows ==
    /\ map' = map /\ evictor' = evictor /\ known' = resident' /\ dirty' \subseteq Shard
    /\ heap' \in [Obj -> SUBSET Token]
    /\ deleted \subseteq deleted' /\ deleted' \subseteq Token
    /\ dead' = dead \cap Held'
    /\ \A o \in Obj : o \in Held' \cup Mapped(map) => heap[o] \subseteq heap'[o]
    /\ \A o \in dead' : heap'[o] \subseteq deleted'

LEMMA MemGrows ==
    ASSUME Inv, Grows, NEW n \in Name
    PROVE  Mem(n) \subseteq Mem(n)' /\ Mem(n)' \subseteq Token
<1>1. map[n] \in Obj \cup {None} /\ map' = map
  BY DEF Inv, TypeOK, Grows
<1>2. CASE map[n] = None
  BY <1>1, <1>2 DEF Mem
<1>3. CASE map[n] # None
  <2>1. PICK o \in Obj : o = map[n]
    BY <1>1, <1>3
  <2>2. o \in Held' \cup Mapped(map)
    BY <2>1 DEF Mapped
  <2>3. heap[o] \subseteq heap'[o] /\ heap'[o] \subseteq Token
    BY <2>2 DEF Grows
  <2> QED  BY <1>1, <1>3, <2>1, <2>3 DEF Mem
<1> QED  BY <1>2, <1>3

LEMMA SoundStays ==
    ASSUME Inv, Grows, \A n \in Name : acked[n] \subseteq acked'[n],
           NEW u \in Request, req'[u] = req[u]
    PROVE  Sound(req[u])'
<1>1. PICK r : r = req[u]
  OBVIOUS
<1>2. Fits(r) /\ Sound(r) /\ r = req'[u]
  BY <1>1 DEF Inv, TypeOK
<1>3. r.obj \in Held'
  BY <1>2 DEF Held, Taken
<1>4. r.pc \in Holding => r.obj \in Obj /\ r.name \in Name
  BY <1>2 DEF Fits, Holding
<1>5. r.pc \in Holding => r.obj \in dead' \cup {map'[r.name]}
  BY <1>2, <1>3 DEF Sound, Grows
<1>6. r.pc \in Holding => heap[r.obj] \subseteq heap'[r.obj]
  BY <1>3, <1>4 DEF Grows
<1>7. r.pc \in {"mark", "return"} => r.tok \in heap'[r.obj]
  BY <1>2, <1>6 DEF Sound, Holding
<1>8. r.op = "read" /\ r.pc # "idle" => r.expect \subseteq acked'[r.name]
  BY <1>2 DEF Sound, Fits
<1>9. /\ r.pc = "view" /\ r.obj \in dead' => r.expect \subseteq deleted'
      /\ r.op = "read" /\ r.pc \in {"catalogued", "absent"} => r.expect \subseteq deleted'
  BY <1>2 DEF Sound, Grows
<1>10. Sound(r)'
  BY <1>5, <1>7, <1>8, <1>9 DEF Sound
<1> QED  BY <1>2, <1>10

LEMMA SaverSame ==
    ASSUME SaverOK, saver' = saver
    PROVE  SaverOK'
  BY DEF SaverOK, Reading

\* The snapshot thread's work is good whatever requests do meanwhile.
LEMMA SaverStays ==
    ASSUME Inv, Grows, saver' = saver, disk' = disk
    PROVE  SaverOK' /\ Saved'
<1>1. SaverOK'
  BY SaverSame DEF Inv, TypeOK
<1>2. \A n \in Name : OnDisk(n)' = OnDisk(n)
  BY DEF OnDisk
<1>3. ASSUME saver.pc = "read", NEW n \in InShard(saver.cur)
      PROVE  Reads(n)'
  <2>1. PICK o : o = saver.objs[n]
    OBVIOUS
  <2>2. n \in Name /\ o \in Obj \cup {None} /\ o \in Reading'
    BY <1>3, <2>1 DEF Inv, TypeOK, SaverOK, InShard, Reading
  <2>3. o \in dead \cup {map[n], None} /\ OnDisk(n) \subseteq deleted \cup Seen(n)
    BY <1>3, <2>1 DEF Inv, Saved, Reads
  <2>4. o \in dead' \cup {map'[n], None}
    BY <2>2, <2>3 DEF Grows, Held
  <2>5. o \in Obj => heap[o] \subseteq heap'[o]
    BY <2>2 DEF Grows, Held
  <2>6. Seen(n) \subseteq Seen(n)'
    BY <2>1, <2>2, <2>5 DEF Seen
  <2>7. OnDisk(n)' \subseteq deleted' \cup Seen(n)'
    BY <1>2, <2>2, <2>3, <2>6 DEF Grows
  <2> QED  BY <2>1, <2>4, <2>7 DEF Reads
<1>4. ASSUME saver.pc = "rename", NEW n \in InShard(saver.cur)
      PROVE  Copies(n)'
  <2>1. n \in Name /\ Copied(n)' = Copied(n)
    BY DEF InShard, Copied
  <2>2. Copied(n) \subseteq deleted \cup Mem(n) /\ OnDisk(n) \subseteq deleted \cup Copied(n)
    BY <1>4 DEF Inv, Saved, Copies
  <2>3. Mem(n) \subseteq Mem(n)'
    BY <2>1, MemGrows
  <2> QED  BY <1>2, <2>1, <2>2, <2>3 DEF Copies, Grows
<1>5. saver.pc \in {"take", "write", "read", "rename"} =>
         \A n \in Name : ShardOf[n] \notin saver.present => OnDisk(n)' \subseteq deleted'
  BY <1>2 DEF Inv, Saved, Grows
<1> QED  BY <1>1, <1>3, <1>4, <1>5 DEF Saved, InShard

\* A request that ends up sound, and a file that is no more than memory, are enough.
LEMMA Growth ==
    ASSUME Inv, Grows, SaverOK', Saved',
           req' = [u \in Request |-> req'[u]], disk' \in [Name -> Contents],
           \A u \in Request : req'[u] = req[u] \/ (Fits(req[u])' /\ Sound(req[u])'),
           acked' \in [Name -> SUBSET Token],
           \A n \in Name : acked[n] \subseteq acked'[n],
           \A n \in Name : acked'[n] \cup OnDisk(n)' \subseteq deleted' \cup Mem(n)'
    PROVE  Inv'
<1>1. \A u \in Request : Fits(req[u])' /\ Sound(req[u])'
  <2> SUFFICES ASSUME NEW u \in Request PROVE Fits(req[u])' /\ Sound(req[u])'
    OBVIOUS
  <2>1. CASE req'[u] = req[u]
    <3>1. Fits(req[u])'
      BY <2>1 DEF Inv, TypeOK
    <3> QED  BY <2>1, <3>1, SoundStays
  <2> QED  BY <2>1
<1>2. TypeOK'
  BY <1>1 DEF Inv, TypeOK, Grows
<1>3. Separate' /\ Complete'
  BY DEF Inv, Separate, Complete, Grows
<1>4. Deaths'
  BY DEF Inv, Deaths, Grows
<1> QED  BY <1>1, <1>2, <1>3, <1>4 DEF Inv

-----------------------------------------------------------------------------
(* Steps that change no more than where a request is.                       *)

LEMMA Quiet ==
    ASSUME Inv, NEW t \in Request, NEW r, req' = [req EXCEPT ![t] = r],
           Fits(r), Sound(r), req[t].obj \in {None, r.obj},
           UNCHANGED <<map, heap, disk, saver, evictor, acked, deleted, dead>>,
           known' = resident', dirty' \subseteq Shard
    PROVE  Inv'
<1>1. /\ req' = [u \in Request |-> req'[u]] /\ req'[t] = r
      /\ \A u \in Request : u # t => req'[u] = req[u]
  BY DEF Inv, TypeOK
<1>2. Held \ {None} \subseteq Held'
  BY <1>1 DEF Held, Taken, Reading
<1>3. dead' = dead \cap Held'
  BY <1>2, StoreAssumption DEF Inv, TypeOK, Deaths
<1>4. Grows
  BY <1>3 DEF Grows, Inv, TypeOK, Deaths
<1>5. SaverOK' /\ Saved'
  BY <1>4, SaverStays
<1>6. Fits(req[t])' /\ Sound(req[t])'
  BY <1>1 DEF Sound
<1>7. \A n \in Name : acked'[n] \cup OnDisk(n)' \subseteq deleted' \cup Mem(n)'
  BY DEF Inv, Complete, OnDisk, Mem
<1>8. disk' \in [Name -> Contents] /\ acked' \in [Name -> SUBSET Token]
  BY DEF Inv, TypeOK
<1> QED  BY <1>1, <1>4, <1>5, <1>6, <1>7, <1>8, Growth

LEMMA Goes ==
    ASSUME Inv, NEW t \in Request, NEW p \in Pcs, req' = Goto(t, p)
    PROVE  \E s \in Reqs : /\ req' = [req EXCEPT ![t] = s] /\ s.pc = p /\ s.obj = req[t].obj
                           /\ s.op = req[t].op /\ s.name = req[t].name
                           /\ s.tok = req[t].tok /\ s.expect = req[t].expect
<1>1. PICK r \in Reqs : r = req[t]
  BY DEF Inv, TypeOK, Fits
<1>2. PICK o \in Obj \cup {None} : o = r.obj
  BY DEF Reqs
<1>3. PICK s : s = [r EXCEPT !.obj = o, !.pc = p]
  OBVIOUS
<1>4. s = [r EXCEPT !.pc = p]
  BY <1>2, <1>3 DEF Reqs
<1>5. req' = [req EXCEPT ![t] = s]
  BY <1>1, <1>4 DEF Goto
<1>6. /\ s \in Reqs /\ s.pc = p /\ s.obj = o /\ s.op = r.op /\ s.name = r.name
      /\ s.tok = r.tok /\ s.expect = r.expect
  BY <1>3 DEF Reqs
<1> QED  BY <1>1, <1>2, <1>5, <1>6

Taking(t, o, p) == req' = [req EXCEPT ![t].obj = o, ![t].pc = p]

LEMMA Takes ==
    ASSUME Inv, NEW t \in Request, NEW p \in Pcs, NEW o \in Obj \cup {None}, Taking(t, o, p)
    PROVE  \E s \in Reqs : /\ req' = [req EXCEPT ![t] = s] /\ s.pc = p /\ s.obj = o
                           /\ s.op = req[t].op /\ s.name = req[t].name
                           /\ s.tok = req[t].tok /\ s.expect = req[t].expect
<1>1. PICK r \in Reqs : r = req[t]
  BY DEF Inv, TypeOK, Fits
<1>2. PICK s : s = [r EXCEPT !.obj = o, !.pc = p]
  OBVIOUS
<1>3. req' = [req EXCEPT ![t] = s]
  BY <1>1, <1>2 DEF Taking
<1>4. /\ s \in Reqs /\ s.pc = p /\ s.obj = o /\ s.op = r.op /\ s.name = r.name
      /\ s.tok = r.tok /\ s.expect = r.expect
  BY <1>2 DEF Reqs
<1> QED  BY <1>1, <1>3, <1>4

\* No request is as good as any.
LEMMA NoneIs ==
    /\ Fits(NoRequest) /\ Sound(NoRequest) /\ NoRequest \in Reqs
    /\ NoRequest.pc = "idle" /\ NoRequest.obj = None
<1>1. NoRequest \in Reqs
  BY DEF NoRequest, Reqs, Pcs
<1>2. /\ NoRequest.pc = "idle" /\ NoRequest.obj = None
  BY DEF NoRequest
<1>3. Fits(NoRequest)
  BY <1>1, <1>2 DEF Fits, Writing, Deleting, Viewing, Holding
<1>4. Sound(NoRequest)
  BY <1>2 DEF Sound, Holding
<1> QED  BY <1>1, <1>2, <1>3, <1>4

LEMMA BeginInv ==
    ASSUME Inv, NEW t \in Request, NEW w \in Workload, Begin(t, w[1], w[2])
    PROVE  Inv'
<1>1. PICK op \in {"write", "read", "delete"}, n \in Name : op = w[1] /\ n = w[2] /\ w = <<op, n>>
  BY StoreAssumption
<1>2. PICK tok \in IF op = "write" THEN Token \ issued ELSE {None} :
         req' = [req EXCEPT ![t] =
                [NoRequest EXCEPT !.pc = "lookup", !.op = op, !.name = n, !.tok = tok,
                                  !.expect = IF op = "read" THEN acked[n] \ deleted ELSE {}]]
  BY <1>1 DEF Begin
<1>3. PICK expect \in SUBSET Token : expect = IF op = "read" THEN acked[n] \ deleted ELSE {}
  BY DEF Inv, TypeOK
<1>4. PICK r : r = [pc |-> "lookup", op |-> op, name |-> n, obj |-> None, tok |-> tok,
                    names |-> {}, expect |-> expect]
  OBVIOUS
<1>5. req' = [req EXCEPT ![t] = r]
  <2>1. PICK a : a = [NoRequest EXCEPT !.pc = "lookup", !.op = op]
    OBVIOUS
  <2>2. a = [pc |-> "lookup", op |-> op, name |-> None, obj |-> None, tok |-> None,
             names |-> {}, expect |-> {}]
    BY <2>1 DEF NoRequest
  <2>3. PICK b : b = [a EXCEPT !.name = n, !.tok = tok]
    OBVIOUS
  <2>4. b = [pc |-> "lookup", op |-> op, name |-> n, obj |-> None, tok |-> tok,
             names |-> {}, expect |-> {}]
    BY <2>2, <2>3
  <2>5. [b EXCEPT !.expect = expect] = r
    BY <1>4, <2>4
  <2> QED  BY <1>2, <1>3, <2>1, <2>3, <2>5
<1>6. r \in Reqs
  BY <1>4 DEF Reqs, Pcs
<1>7. Fits(r)
  BY <1>1, <1>4, <1>6 DEF Fits, Writing, Deleting, Viewing, Holding
<1>8. Sound(r)
  BY <1>3, <1>4 DEF Sound, Holding
<1>9. req[t].pc = "idle" /\ req[t].obj = None
  BY DEF Begin, Inv, TypeOK, Fits, Holding
<1> QED  BY <1>5, <1>7, <1>8, <1>9, Quiet DEF Begin, memory, shards, workers, Inv, TypeOK


LEMMA NotFoundInv ==
    ASSUME Inv, NEW t \in Request, req[t].pc = "catalogued", NotFound(t),
           UNCHANGED <<memory, shards, dirty, disk, workers, ghosts>>
    PROVE  Inv'
<1>1. PICK r \in Reqs : r = req[t] /\ Fits(r) /\ Sound(r)
  BY DEF Inv, TypeOK, Fits
<1>2. r.obj = None /\ r.name \in Name /\ r.op \in {"write", "read", "delete"}
  BY <1>1 DEF Fits, Holding, Reqs
<1>3. CASE r.op = "write"
  <2>1. req' = Goto(t, "evicted")
    BY <1>1, <1>3 DEF NotFound
  <2>2. PICK s \in Reqs : /\ req' = [req EXCEPT ![t] = s] /\ s.pc = "evicted" /\ s.obj = r.obj
                          /\ s.op = r.op /\ s.name = r.name /\ s.tok = r.tok
    BY <1>1, <2>1, Goes DEF Pcs, Writing
  <2>3. Fits(s)
    BY <1>1, <1>2, <1>3, <2>2 DEF Fits, Writing, Deleting, Viewing, Holding
  <2>4. Sound(s)
    BY <1>3, <2>2 DEF Sound, Holding
  <2> QED  BY <1>1, <1>2, <2>2, <2>3, <2>4, Quiet DEF memory, shards, workers, ghosts, Inv, TypeOK
<1>4. CASE r.op = "read"
  <2>1. req' = Goto(t, "absent")
    BY <1>1, <1>4 DEF NotFound
  <2>2. PICK s \in Reqs : /\ req' = [req EXCEPT ![t] = s] /\ s.pc = "absent" /\ s.obj = r.obj
                          /\ s.op = r.op /\ s.name = r.name /\ s.expect = r.expect
    BY <1>1, <2>1, Goes DEF Pcs, Viewing
  <2>3. Fits(s)
    BY <1>1, <1>2, <1>4, <2>2 DEF Fits, Writing, Deleting, Viewing, Holding
  <2>4. r.expect \subseteq acked[r.name] /\ r.expect \subseteq deleted
    BY <1>1, <1>4 DEF Sound
  <2>5. Sound(s)
    BY <2>2, <2>4 DEF Sound, Holding
  <2> QED  BY <1>1, <1>2, <2>2, <2>3, <2>5, Quiet DEF memory, shards, workers, ghosts, Inv, TypeOK
<1>5. CASE r.op = "delete"
  <2>1. req' = [req EXCEPT ![t] = NoRequest]
    BY <1>1, <1>5 DEF NotFound
  <2> QED  BY <1>1, <1>2, <2>1, NoneIs, Quiet DEF memory, shards, workers, ghosts, Inv, TypeOK
<1> QED  BY <1>2, <1>3, <1>4, <1>5

LEMMA ResidentInv ==
    ASSUME Inv, NEW t \in Request, Resident(t)
    PROVE  Inv'
<1>1. PICK r \in Reqs : r = req[t] /\ Fits(r) /\ Sound(r)
  BY DEF Inv, TypeOK, Fits
<1>2. r.pc = "lookup" /\ r.pc # "relook"
  BY <1>1 DEF Resident, Reqs, Pcs, Writing, Deleting, Viewing
<1>3. r.obj = None /\ r.name \in Name /\ r.op \in {"write", "read", "delete"}
  BY <1>1, <1>2 DEF Fits, Holding, Reqs
<1>4. CASE map[r.name] = None
  <2>1. req' = Goto(t, "catalogued")
    BY <1>1, <1>2, <1>4 DEF Resident
  <2>2. PICK s \in Reqs : /\ req' = [req EXCEPT ![t] = s] /\ s.pc = "catalogued" /\ s.obj = r.obj
                          /\ s.op = r.op /\ s.name = r.name /\ s.tok = r.tok /\ s.expect = r.expect
    BY <1>1, <2>1, Goes DEF Pcs
  <2>3. Fits(s)
    BY <1>1, <1>2, <1>3, <2>2 DEF Fits, Writing, Deleting, Viewing, Holding
  <2>4. r.op = "read" => r.expect \subseteq acked[r.name] /\ acked[r.name] \subseteq deleted
    BY <1>1, <1>2, <1>3, <1>4 DEF Sound, Inv, Complete, Mem
  <2>5. Sound(s)
    BY <1>1, <1>2, <2>2, <2>4 DEF Sound, Holding
  <2> QED  BY <1>1, <1>3, <2>2, <2>3, <2>5, Quiet
           DEF Resident, memory, shards, workers, ghosts, Inv, TypeOK
<1>5. CASE map[r.name] # None
  <2>1. PICK o \in Obj : o = map[r.name]
    BY <1>3, <1>5 DEF Inv, TypeOK
  <2>2. o \notin dead
    BY <1>3, <2>1 DEF Inv, Deaths
  <2>3. Found(t, o)
    BY <1>1, <1>5, <2>1 DEF Resident
  <2>4. PICK p \in {"record", "view", "release"} :
           /\ Taking(t, o, p) /\ p \in Pcs
           /\ p = "record" <=> r.op = "write"
           /\ p = "view" <=> r.op = "read"
           /\ p = "release" <=> r.op = "delete"
    BY <1>1, <1>3, <2>3 DEF Found, Taking, Pcs, Writing, Viewing, Deleting
  <2>5. PICK s \in Reqs : /\ req' = [req EXCEPT ![t] = s] /\ s.pc = p /\ s.obj = o
                          /\ s.op = r.op /\ s.name = r.name /\ s.tok = r.tok /\ s.expect = r.expect
    BY <1>1, <2>4, Takes
  <2>6. Fits(s)
    BY <1>1, <1>2, <2>4, <2>5 DEF Fits, Writing, Deleting, Viewing, Holding
  <2>7. Sound(s)
    BY <1>1, <1>2, <2>1, <2>2, <2>4, <2>5 DEF Sound
  <2> QED  BY <1>1, <1>3, <2>5, <2>6, <2>7, Quiet
           DEF Resident, memory, shards, workers, ghosts, Inv, TypeOK
<1> QED  BY <1>4, <1>5

\* Nothing is evicted, so a name that is not in memory is not known at all.
LEMMA CataloguedInv ==
    ASSUME Inv, NEW t \in Request, Catalogued(t)
    PROVE  Inv'
<1>1. NotFound(t)
  BY DEF Catalogued, Inv, TypeOK
<1> QED  BY <1>1, NotFoundInv DEF Catalogued

LEMMA EvictedInv ==
    ASSUME Inv, NEW t \in Request, Evicted(t)
    PROVE  Inv'
<1>1. PICK r \in Reqs : r = req[t] /\ Fits(r) /\ Sound(r) /\ r.pc = "evicted"
  BY DEF Inv, TypeOK, Fits, Evicted
<1>2. r.obj = None /\ r.name \in Name /\ r.op = "write"
  BY <1>1 DEF Fits, Holding, Writing
<1>3. req' = Goto(t, "create")
  BY <1>1 DEF Evicted, Inv, TypeOK
<1>4. PICK s \in Reqs : /\ req' = [req EXCEPT ![t] = s] /\ s.pc = "create" /\ s.obj = r.obj
                        /\ s.op = r.op /\ s.name = r.name /\ s.tok = r.tok
  BY <1>1, <1>3, Goes DEF Pcs, Writing
<1>5. Fits(s)
  BY <1>1, <1>2, <1>4 DEF Fits, Writing, Deleting, Viewing, Holding
<1>6. Sound(s)
  BY <1>2, <1>4 DEF Sound, Holding
<1> QED  BY <1>1, <1>2, <1>4, <1>5, <1>6, Quiet
         DEF Evicted, memory, shards, workers, ghosts, Inv, TypeOK

LEMMA RegisterInv ==
    ASSUME Inv, NEW t \in Request, Register(t)
    PROVE  Inv'
<1>1. PICK r \in Reqs : r = req[t] /\ Fits(r) /\ Sound(r) /\ r.pc = "register"
  BY DEF Inv, TypeOK, Fits, Register
<1>2. r.obj \in Obj /\ r.name \in Name /\ r.op = "write"
  BY <1>1 DEF Fits, Holding, Writing
<1>3. PICK s \in Reqs : /\ req' = [req EXCEPT ![t] = s] /\ s.pc = "record" /\ s.obj = r.obj
                        /\ s.op = r.op /\ s.name = r.name /\ s.tok = r.tok
  BY <1>1, Goes DEF Pcs, Writing, Register
<1>4. Fits(s)
  BY <1>1, <1>2, <1>3 DEF Fits, Writing, Deleting, Viewing, Holding
<1>5. Sound(s)
  BY <1>1, <1>2, <1>3 DEF Sound, Holding
<1> QED  BY <1>1, <1>2, <1>3, <1>4, <1>5, Quiet
         DEF Register, memory, workers, ghosts, Inv, TypeOK

LEMMA MarkInv ==
    ASSUME Inv, NEW t \in Request, Mark(t)
    PROVE  Inv'
<1>1. PICK r \in Reqs : r = req[t] /\ Fits(r) /\ Sound(r) /\ r.pc = "mark"
  BY DEF Inv, TypeOK, Fits, Mark
<1>2. r.obj \in Obj /\ r.name \in Name /\ r.op = "write"
  BY <1>1 DEF Fits, Holding, Writing
<1>3. PICK s \in Reqs : /\ req' = [req EXCEPT ![t] = s] /\ s.pc = "return" /\ s.obj = r.obj
                        /\ s.op = r.op /\ s.name = r.name /\ s.tok = r.tok
  BY <1>1, Goes DEF Pcs, Writing, Mark
<1>4. Fits(s)
  BY <1>1, <1>2, <1>3 DEF Fits, Writing, Deleting, Viewing, Holding
<1>5. Sound(s)
  BY <1>1, <1>2, <1>3 DEF Sound, Holding
<1>6. dirty' \subseteq Shard
  BY <1>1, <1>2, StoreAssumption DEF Mark, Inv, TypeOK
<1> QED  BY <1>1, <1>2, <1>3, <1>4, <1>5, <1>6, Quiet
         DEF Mark, memory, shards, workers, ghosts, Inv, TypeOK

LEMMA MarkRemovedInv ==
    ASSUME Inv, NEW t \in Request, MarkRemoved(t)
    PROVE  Inv'
<1>1. PICK r \in Reqs : r = req[t] /\ Fits(r) /\ Sound(r) /\ r.pc = "mark_removed"
  BY DEF Inv, TypeOK, Fits, MarkRemoved
<1>2. r.obj = None /\ r.name \in Name /\ r.op = "delete"
  BY <1>1 DEF Fits, Holding, Deleting
<1>3. PICK s \in Reqs : /\ req' = [req EXCEPT ![t] = s] /\ s.pc = "unlist" /\ s.obj = r.obj
                        /\ s.op = r.op /\ s.name = r.name
  BY <1>1, Goes DEF Pcs, Deleting, MarkRemoved
<1>4. Fits(s)
  BY <1>1, <1>2, <1>3 DEF Fits, Writing, Deleting, Viewing, Holding
<1>5. Sound(s)
  BY <1>2, <1>3 DEF Sound, Holding
<1>6. dirty' \subseteq Shard
  BY <1>1, <1>2, StoreAssumption DEF MarkRemoved, Inv, TypeOK
<1> QED  BY <1>1, <1>2, <1>3, <1>4, <1>5, <1>6, Quiet
         DEF MarkRemoved, memory, shards, workers, ghosts, Inv, TypeOK

LEMMA UnlistInv ==
    ASSUME Inv, NEW t \in Request, Unlist(t)
    PROVE  Inv'
<1>1. req[t].obj = None
  BY DEF Inv, TypeOK, Fits, Unlist, Holding
<1> QED  BY <1>1, NoneIs, Quiet DEF Unlist, memory, workers, ghosts, Inv, TypeOK

-----------------------------------------------------------------------------
(* A request that drops its handle.                                         *)

LEMMA Drops ==
    ASSUME Inv, NEW t \in Request, NEW r, req' = [req EXCEPT ![t] = r], Fits(r),
           r.pc = "idle" \/ r.pc = "remove", LetGo(t),
           UNCHANGED <<map, shards, disk, saver, evictor, dirty, deleted>>,
           acked' \in [Name -> SUBSET Token],
           \A n \in Name : acked[n] \subseteq acked'[n] /\ acked'[n] \subseteq deleted \cup Mem(n)
    PROVE  Inv'
<1>1. /\ req' = [u \in Request |-> req'[u]] /\ req'[t] = r
      /\ \A u \in Request : u # t => req'[u] = req[u]
  BY DEF Inv, TypeOK
<1>2. r.obj = None
  BY DEF Fits, Holding
<1>3. Held' \cup Mapped(map) = {None} \cup Mapped(map) \cup Taken(Request \ {t}) \cup Reading
  BY <1>1, <1>2 DEF Held, Taken, Reading
<1>4. PICK live : /\ live = Mapped(map) \cup Taken(Request \ {t}) \cup Reading
                  /\ heap' = [o \in Obj |-> IF o \in live THEN heap[o] ELSE {}]
                  /\ dead' = dead \cap live
  BY DEF LetGo, Kept
<1>5. heap' \in [Obj -> SUBSET Token]
  BY <1>4 DEF Inv, TypeOK
<1>6. dead \subseteq Obj /\ \A o \in dead : o \notin Mapped(map) /\ o # None
  BY StoreAssumption DEF Inv, TypeOK, Deaths, Mapped
<1>7. dead' = dead \cap Held'
  <2>1. \A o \in dead : o \in live <=> o \in Held'
    BY <1>3, <1>4, <1>6
  <2> QED  BY <1>4, <2>1
<1>8. \A o \in Obj : o \in Held' \cup Mapped(map) => heap[o] \subseteq heap'[o]
  BY <1>3, <1>4, StoreAssumption
<1>9. \A o \in dead' : heap'[o] \subseteq deleted'
  BY <1>4, <1>6 DEF Inv, Deaths
<1>10. Grows
  BY <1>5, <1>7, <1>8, <1>9 DEF Grows, Inv, TypeOK, shards
<1>11. SaverOK' /\ Saved'
  BY <1>10, SaverStays
<1>12. Fits(req[t])' /\ Sound(req[t])'
  <2>1. r.op = "read" => r.pc = "idle"
    BY DEF Fits, Deleting
  <2>2. Sound(r)'
    BY <2>1 DEF Sound, Holding
  <2> QED  BY <1>1, <2>2
<1>13. \A n \in Name : acked'[n] \cup OnDisk(n)' \subseteq deleted' \cup Mem(n)'
  <2> SUFFICES ASSUME NEW n \in Name
               PROVE  acked'[n] \cup OnDisk(n)' \subseteq deleted' \cup Mem(n)'
    OBVIOUS
  <2>1. Mem(n) \subseteq Mem(n)'
    BY <1>10, MemGrows
  <2>2. OnDisk(n)' = OnDisk(n) /\ OnDisk(n) \subseteq deleted \cup Mem(n)
    BY DEF OnDisk, Inv, Complete
  <2> QED  BY <2>1, <2>2
<1>14. disk' \in [Name -> Contents]
  BY DEF Inv, TypeOK
<1> QED  BY <1>1, <1>10, <1>11, <1>12, <1>13, <1>14, Growth

LEMMA ReturnInv ==
    ASSUME Inv, NEW t \in Request, Return(t)
    PROVE  Inv'
<1>1. PICK r \in Reqs : r = req[t] /\ Fits(r) /\ Sound(r) /\ r.pc = "return"
  BY DEF Inv, TypeOK, Fits, Return
<1>2. r.obj \in Obj /\ r.name \in Name /\ r.tok \in Token
  BY <1>1 DEF Fits, Holding, Writing
<1>3. r.tok \in deleted \cup Mem(r.name)
  <2>1. r.tok \in heap[r.obj] /\ r.obj \in dead \cup {map[r.name]}
    BY <1>1 DEF Sound, Holding
  <2>2. CASE r.obj \in dead
    BY <2>1, <2>2 DEF Inv, Deaths
  <2>3. CASE r.obj = map[r.name]
    BY <1>2, <2>1, <2>3, StoreAssumption DEF Mem
  <2> QED  BY <2>1, <2>2, <2>3
<1>4. acked' = [acked EXCEPT ![r.name] = @ \cup {r.tok}]
  BY <1>1 DEF Return
<1>5. /\ acked' \in [Name -> SUBSET Token]
      /\ \A n \in Name : acked[n] \subseteq acked'[n] /\ acked'[n] \subseteq deleted \cup Mem(n)
  BY <1>2, <1>3, <1>4 DEF Inv, TypeOK, Complete
<1> QED  BY <1>5, NoneIs, Drops DEF Return, workers

LEMMA AnswerInv ==
    ASSUME Inv, NEW t \in Request, Answer(t)
    PROVE  Inv'
<1>1. /\ acked' \in [Name -> SUBSET Token]
      /\ \A n \in Name : acked[n] \subseteq acked'[n] /\ acked'[n] \subseteq deleted \cup Mem(n)
  BY DEF Answer, Inv, TypeOK, Complete
<1> QED  BY <1>1, NoneIs, Drops DEF Answer, workers

LEMMA ReleaseInv ==
    ASSUME Inv, NEW t \in Request, Release(t)
    PROVE  Inv'
<1>1. PICK r \in Reqs : r = req[t] /\ Fits(r) /\ Sound(r) /\ r.pc = "release"
  BY DEF Inv, TypeOK, Fits, Release
<1>2. Taking(t, None, "remove") /\ "remove" \in Pcs
  BY DEF Release, Taking, Pcs, Deleting
<1>3. PICK s \in Reqs : /\ req' = [req EXCEPT ![t] = s] /\ s.pc = "remove" /\ s.obj = None
                        /\ s.op = r.op /\ s.name = r.name /\ s.tok = r.tok /\ s.expect = r.expect
  BY <1>1, <1>2, Takes
<1>4. Fits(s)
  BY <1>1, <1>3 DEF Fits, Writing, Deleting, Viewing, Holding
<1>5. /\ acked' \in [Name -> SUBSET Token]
      /\ \A n \in Name : acked[n] \subseteq acked'[n] /\ acked'[n] \subseteq deleted \cup Mem(n)
  BY DEF Release, Inv, TypeOK, Complete
<1> QED  BY <1>3, <1>4, <1>5, Drops DEF Release, workers

\* A sighting recorded in an object a deletion took away is deleted with it.
LEMMA RecordInv ==
    ASSUME Inv, NEW t \in Request, Record(t)
    PROVE  Inv'
<1>1. PICK r \in Reqs : r = req[t] /\ Fits(r) /\ Sound(r) /\ r.pc = "record"
  BY DEF Inv, TypeOK, Fits, Record
<1>2. r.obj \in Obj /\ r.name \in Name /\ r.tok \in Token /\ r.op = "write"
  BY <1>1 DEF Fits, Holding, Writing
<1>3. PICK s \in Reqs : /\ req' = [req EXCEPT ![t] = s] /\ s.pc = "mark" /\ s.obj = r.obj
                        /\ s.op = r.op /\ s.name = r.name /\ s.tok = r.tok
  BY <1>1, Goes DEF Pcs, Writing, Record
<1>4. /\ req' = [u \in Request |-> req'[u]] /\ req'[t] = s
      /\ \A u \in Request : u # t => req'[u] = req[u]
  BY <1>3 DEF Inv, TypeOK
<1>5. Held' = Held
  BY <1>1, <1>3, <1>4 DEF Held, Taken, Reading, Record, workers
<1>6. heap' = [heap EXCEPT ![r.obj] = @ \cup {r.tok}]
      /\ deleted' = deleted \cup (IF r.obj \in dead THEN {r.tok} ELSE {})
  BY <1>1 DEF Record
<1>7. heap' \in [Obj -> SUBSET Token] /\ \A o \in Obj : heap[o] \subseteq heap'[o]
  BY <1>2, <1>6 DEF Inv, TypeOK
<1>8. deleted \subseteq deleted' /\ deleted' \subseteq Token
  BY <1>2, <1>6 DEF Inv, TypeOK
<1>9. dead' = dead \cap Held'
  BY <1>5 DEF Record, Inv, Deaths
<1>10. \A o \in dead : heap'[o] \subseteq deleted'
  BY <1>2, <1>6 DEF Inv, Deaths, TypeOK
<1>11. Grows
  BY <1>7, <1>8, <1>9, <1>10 DEF Grows, Record, shards, workers, Inv, TypeOK
<1>12. SaverOK' /\ Saved'
  BY <1>11, SaverStays DEF Record, workers
<1>13. Fits(req[t])' /\ Sound(req[t])'
  <2>1. Fits(s)
    BY <1>1, <1>2, <1>3 DEF Fits, Writing, Deleting, Viewing, Holding
  <2>2. s.obj \in dead' \cup {map'[s.name]}
    BY <1>1, <1>3 DEF Sound, Holding, Record
  <2>3. s.tok \in heap'[s.obj]
    BY <1>2, <1>3, <1>6 DEF Inv, TypeOK
  <2>4. Sound(s)'
    BY <1>2, <1>3, <2>2, <2>3 DEF Sound
  <2> QED  BY <1>4, <2>1, <2>4
<1>14. \A n \in Name : acked'[n] \cup OnDisk(n)' \subseteq deleted' \cup Mem(n)'
  <2> SUFFICES ASSUME NEW n \in Name
               PROVE  acked'[n] \cup OnDisk(n)' \subseteq deleted' \cup Mem(n)'
    OBVIOUS
  <2>1. Mem(n) \subseteq Mem(n)'
    BY <1>11, MemGrows
  <2>2. OnDisk(n)' = OnDisk(n) /\ acked' = acked
    BY DEF OnDisk, Record
  <2>3. acked[n] \cup OnDisk(n) \subseteq deleted \cup Mem(n)
    BY DEF Inv, Complete
  <2> QED  BY <1>8, <2>1, <2>2, <2>3
<1>15. disk' \in [Name -> Contents] /\ acked' \in [Name -> SUBSET Token] /\ acked' = acked
  BY DEF Record, Inv, TypeOK
<1> QED  BY <1>4, <1>11, <1>12, <1>13, <1>14, <1>15, Growth

-----------------------------------------------------------------------------
(* Steps that change the map.                                               *)

\* entry(name).or_default(): an object of the map, or a new one for a name that had none.
LEMMA CreateInv ==
    ASSUME Inv, NEW t \in Request, Create(t)
    PROVE  Inv'
<1>1. PICK r \in Reqs : r = req[t] /\ Fits(r) /\ Sound(r) /\ r.pc = "create"
  BY DEF Inv, TypeOK, Fits, Create
<1>2. r.obj = None /\ r.name \in Name /\ r.op = "write"
  BY <1>1 DEF Fits, Holding, Writing
<1>3. PICK n \in Name : n = r.name
  BY <1>2
<1>4. PICK o : o = IF map[n] = None THEN Place({n})[n] ELSE map[n]
  OBVIOUS
<1>5. /\ map' = [map EXCEPT ![n] = o] /\ Taking(t, o, "register")
      /\ UNCHANGED <<heap, known, resident, dirty, disk, evictor, saver, acked, deleted, dead>>
  BY <1>1, <1>3, <1>4 DEF Create, Taking, shards, workers, ghosts
<1>6. /\ o \in Obj /\ o # None /\ o \notin dead
      /\ \A m \in Name : m # n => map[m] # o
  <2>1. CASE map[n] = None
    <3>1. o \in Free
      BY <1>4, <2>1, Allocated DEF Inv
    <3> QED  BY <3>1, StoreAssumption DEF Free, Mapped, Inv, Deaths
  <2>2. CASE map[n] # None
    BY <1>4, <2>2 DEF Inv, TypeOK, Deaths, Separate
  <2> QED  BY <2>1, <2>2
<1>7. /\ map' \in [Name -> Obj \cup {None}] /\ map'[n] = o
      /\ \A m \in Name : m # n => map'[m] = map[m]
      /\ map[n] # None => map'[n] = map[n]
  BY <1>4, <1>5, <1>6 DEF Inv, TypeOK
<1>8. PICK s \in Reqs : /\ req' = [req EXCEPT ![t] = s] /\ s.pc = "register" /\ s.obj = o
                        /\ s.op = r.op /\ s.name = r.name /\ s.tok = r.tok
  BY <1>1, <1>5, <1>6, Takes DEF Pcs, Writing
<1>9. /\ req' = [u \in Request |-> req'[u]] /\ req'[t] = s
      /\ \A u \in Request : u # t => req'[u] = req[u]
  BY <1>8 DEF Inv, TypeOK
<1>10. Fits(s)
  BY <1>1, <1>2, <1>6, <1>8 DEF Fits, Writing, Deleting, Viewing, Holding
<1>11. TypeOK'
  <2>1. SaverOK'
    BY <1>5, SaverSame DEF Inv, TypeOK
  <2>2. \A u \in Request : Fits(req[u])'
    BY <1>9, <1>10 DEF Inv, TypeOK
  <2> QED  BY <1>5, <1>7, <1>9, <2>1, <2>2 DEF Inv, TypeOK
<1>12. Separate'
  BY <1>6, <1>7 DEF Inv, Separate
<1>13. Deaths'
  <2>1. Held \ {None} \subseteq Held'
    BY <1>1, <1>2, <1>5, <1>9 DEF Held, Taken, Reading
  <2>2. dead \subseteq Held'
    BY <2>1, StoreAssumption DEF Inv, TypeOK, Deaths
  <2>3. \A m \in Name : map'[m] \notin dead
    BY <1>6, <1>7 DEF Inv, Deaths
  <2> QED  BY <1>5, <2>2, <2>3 DEF Inv, Deaths
<1>14. \A m \in Name : Mem(m) \subseteq Mem(m)' /\ OnDisk(m)' = OnDisk(m)
  BY <1>5, <1>7 DEF Mem, OnDisk
<1>15. Complete'
  BY <1>5, <1>14 DEF Inv, Complete
<1>16. Saved'
  <2>1. ASSUME saver.pc = "read", NEW m \in InShard(saver.cur)
        PROVE  Reads(m)'
    <3>1. m \in Name /\ Seen(m)' = Seen(m)
      BY <1>5 DEF InShard, Seen
    <3>2. saver.objs[m] \in dead \cup {map[m], None} /\ OnDisk(m) \subseteq deleted \cup Seen(m)
      BY <2>1 DEF Inv, Saved, Reads
    <3>3. saver.objs[m] \in dead \cup {map'[m], None}
      BY <1>7, <3>1, <3>2
    <3> QED  BY <1>5, <1>14, <3>1, <3>2, <3>3 DEF Reads
  <2>2. ASSUME saver.pc = "rename", NEW m \in InShard(saver.cur)
        PROVE  Copies(m)'
    <3>1. m \in Name /\ Copied(m)' = Copied(m)
      BY <1>5 DEF InShard, Copied
    <3>2. Copied(m) \subseteq deleted \cup Mem(m) /\ OnDisk(m) \subseteq deleted \cup Copied(m)
      BY <2>2 DEF Inv, Saved, Copies
    <3> QED  BY <1>5, <1>14, <3>1, <3>2 DEF Copies
  <2>3. saver.pc \in {"take", "write", "read", "rename"} =>
           \A m \in Name : ShardOf[m] \notin saver.present => OnDisk(m) \subseteq deleted
    BY DEF Inv, Saved
  <2> QED  BY <1>5, <1>14, <2>1, <2>2, <2>3 DEF Saved, InShard
<1>17. ASSUME NEW u \in Request
       PROVE  Sound(req[u])'
  <2>1. CASE u = t
    <3>1. Sound(s)'
      BY <1>2, <1>3, <1>5, <1>7, <1>8 DEF Sound
    <3> QED  BY <1>9, <2>1, <3>1
  <2>2. CASE u # t
    <3>1. PICK q : q = req[u] /\ q = req'[u] /\ Fits(q) /\ Sound(q)
      BY <1>9, <2>2 DEF Inv, TypeOK
    <3>2. q.pc \in Holding => q.obj \in dead \cup {map'[q.name]}
      <4>1. SUFFICES ASSUME q.pc \in Holding PROVE q.obj \in dead \cup {map'[q.name]}
        OBVIOUS
      <4>2. q.obj \in Obj /\ q.name \in Name /\ q.obj \in dead \cup {map[q.name]}
        BY <3>1, <4>1 DEF Fits, Holding, Sound
      <4> QED  BY <1>7, <4>2, StoreAssumption
    <3>3. Sound(q)'
      BY <1>5, <3>1, <3>2 DEF Sound
    <3> QED  BY <3>1, <3>3
  <2> QED  BY <2>1, <2>2
<1> QED  BY <1>11, <1>12, <1>13, <1>15, <1>16, <1>17 DEF Inv

\* A deletion takes the object out of the map; who holds it goes on with it.
LEMMA RemoveInv ==
    ASSUME Inv, NEW t \in Request, Remove(t)
    PROVE  Inv'
<1>1. PICK r \in Reqs : r = req[t] /\ Fits(r) /\ Sound(r) /\ r.pc = "remove"
  BY DEF Inv, TypeOK, Fits, Remove
<1>2. r.obj = None /\ r.name \in Name /\ r.op = "delete"
  BY <1>1 DEF Fits, Holding, Deleting
<1>3. PICK n \in Name : n = r.name
  BY <1>2
<1>4. CASE map[n] = None
  <2>1. /\ req' = [req EXCEPT ![t] = NoRequest]
        /\ UNCHANGED <<map, heap, disk, saver, evictor, acked, deleted, dead, known, resident, dirty>>
    BY <1>1, <1>3, <1>4 DEF Remove, memory, shards, workers
  <2> QED  BY <1>1, <1>2, <2>1, NoneIs, Quiet DEF Inv, TypeOK
<1>5. CASE map[n] # None
  <2>1. PICK o \in Obj : o = map[n] /\ o # None
    BY <1>5 DEF Inv, TypeOK
  <2>2. /\ req' = Goto(t, "mark_removed")
        /\ map' = [map EXCEPT ![n] = None]
        /\ heap' = [p \in Obj |-> IF p \in Held \cup (Mapped(map) \ {o}) THEN heap[p] ELSE {}]
        /\ deleted' = deleted \cup heap[o]
        /\ dead' = (dead \cup {o}) \cap Held
        /\ UNCHANGED <<known, resident, dirty, disk, evictor, saver, acked>>
    BY <1>1, <1>3, <1>5, <2>1 DEF Remove, Kept, shards, workers
  <2>3. PICK s \in Reqs : /\ req' = [req EXCEPT ![t] = s] /\ s.pc = "mark_removed" /\ s.obj = r.obj
                          /\ s.op = r.op /\ s.name = r.name
    BY <1>1, <2>2, Goes DEF Pcs, Deleting
  <2>4. /\ req' = [u \in Request |-> req'[u]] /\ req'[t] = s
        /\ \A u \in Request : u # t => req'[u] = req[u]
    BY <2>3 DEF Inv, TypeOK
  <2>5. Held' = Held
    BY <1>1, <2>2, <2>3, <2>4 DEF Held, Taken, Reading
  <2>6. /\ map' \in [Name -> Obj \cup {None}] /\ map'[n] = None
        /\ \A m \in Name : m # n => map'[m] = map[m] /\ map[m] # o
    BY <2>1, <2>2 DEF Inv, TypeOK, Separate
  <2>7. heap[o] \subseteq Token
    BY DEF Inv, TypeOK
  <2>8. \A p \in Obj : p \in Held \cup Mapped(map') => heap'[p] = heap[p]
    BY <2>1, <2>2, <2>6, StoreAssumption DEF Mapped
  <2>9. TypeOK'
    <3>1. Fits(s)
      BY <1>1, <1>2, <2>3 DEF Fits, Writing, Deleting, Viewing, Holding
    <3>2. SaverOK'
      BY <2>2, SaverSame DEF Inv, TypeOK
    <3>3. \A u \in Request : Fits(req[u])'
      BY <2>4, <3>1 DEF Inv, TypeOK
    <3>4. heap' \in [Obj -> SUBSET Token] /\ deleted' \subseteq Token /\ dead' \subseteq Obj
      BY <2>2, <2>7 DEF Inv, TypeOK
    <3> QED  BY <2>2, <2>4, <2>6, <3>2, <3>3, <3>4 DEF Inv, TypeOK
  <2>10. Separate'
    BY <2>6 DEF Inv, Separate
  <2>11. Deaths'
    <3>1. \A m \in Name : map'[m] \notin dead'
      BY <2>2, <2>6, StoreAssumption DEF Inv, Deaths, TypeOK
    <3>2. \A p \in dead' : heap'[p] \subseteq deleted'
      BY <2>2, <2>8 DEF Inv, Deaths, TypeOK
    <3> QED  BY <2>2, <2>5, <3>1, <3>2 DEF Deaths
  <2>12. \A m \in Name : deleted \cup Mem(m) \subseteq deleted' \cup Mem(m)'
    <3> SUFFICES ASSUME NEW m \in Name
                 PROVE  deleted \cup Mem(m) \subseteq deleted' \cup Mem(m)'
      OBVIOUS
    <3>1. CASE m = n
      BY <2>1, <2>2, <3>1 DEF Mem
    <3>2. CASE m # n
      <4>1. Mem(m)' = Mem(m)
        <5>1. map'[m] = map[m] /\ map[m] \in Obj \cup {None}
          BY <2>6, <3>2 DEF Inv, TypeOK
        <5>2. map[m] # None => heap'[map[m]] = heap[map[m]]
          BY <2>8, <5>1 DEF Mapped
        <5> QED  BY <5>1, <5>2 DEF Mem
      <4> QED  BY <2>2, <4>1
    <3> QED  BY <3>1, <3>2
  <2>13. \A m \in Name : OnDisk(m)' = OnDisk(m)
    BY <2>2 DEF OnDisk
  <2>14. Complete'
    BY <2>2, <2>12, <2>13 DEF Inv, Complete
  <2>15. Saved'
    <3>1. ASSUME saver.pc = "read", NEW m \in InShard(saver.cur)
          PROVE  Reads(m)'
      <4>1. m \in Name /\ saver.objs[m] \in Obj \cup {None} /\ saver.objs[m] \in Reading
        BY <3>1 DEF InShard, Inv, TypeOK, SaverOK, Reading
      <4>2. saver.objs[m] \in dead \cup {map[m], None} /\ OnDisk(m) \subseteq deleted \cup Seen(m)
        BY <3>1 DEF Inv, Saved, Reads
      <4>3. saver.objs[m] \in dead' \cup {map'[m], None}
        BY <2>1, <2>2, <2>6, <4>1, <4>2 DEF Held
      <4>4. Seen(m)' = Seen(m)
        BY <2>2, <2>8, <4>1 DEF Seen, Held
      <4> QED  BY <2>2, <2>13, <4>1, <4>2, <4>3, <4>4 DEF Reads
    <3>2. ASSUME saver.pc = "rename", NEW m \in InShard(saver.cur)
          PROVE  Copies(m)'
      <4>1. m \in Name /\ Copied(m)' = Copied(m)
        BY <2>2 DEF InShard, Copied
      <4>2. Copied(m) \subseteq deleted \cup Mem(m) /\ OnDisk(m) \subseteq deleted \cup Copied(m)
        BY <3>2 DEF Inv, Saved, Copies
      <4>3. Copied(m) \subseteq deleted' \cup Mem(m)'
        BY <2>12, <4>1, <4>2
      <4> QED  BY <2>2, <2>13, <4>1, <4>2, <4>3 DEF Copies
    <3>3. saver.pc \in {"take", "write", "read", "rename"} =>
             \A m \in Name : ShardOf[m] \notin saver.present => OnDisk(m) \subseteq deleted
      BY DEF Inv, Saved
    <3> QED  BY <2>2, <2>13, <3>1, <3>2, <3>3 DEF Saved, InShard
  <2>16. ASSUME NEW u \in Request
         PROVE  Sound(req[u])'
    <3>1. CASE u = t
      <4>1. Sound(s)'
        BY <1>2, <2>3 DEF Sound, Holding
      <4> QED  BY <2>4, <3>1, <4>1
    <3>2. CASE u # t
      <4>1. PICK q : q = req[u] /\ q = req'[u] /\ Fits(q) /\ Sound(q)
        BY <2>4, <3>2 DEF Inv, TypeOK
      <4>2. q.pc \in Holding => q.obj \in Obj /\ q.name \in Name /\ q.obj \in Held
        BY <4>1 DEF Fits, Holding, Held, Taken
      <4>3. q.pc \in Holding => q.obj \in dead' \cup {map'[q.name]} /\ heap'[q.obj] = heap[q.obj]
        BY <2>1, <2>2, <2>6, <2>8, <4>1, <4>2 DEF Sound
      <4>4. q.op = "read" /\ q.pc # "idle" => q.expect \subseteq acked[q.name] /\ q.name \in Name
        BY <4>1 DEF Sound, Fits
      <4>5. q.pc = "view" /\ q.obj \in dead' => q.expect \subseteq deleted'
        <5>1. SUFFICES ASSUME q.pc = "view", q.obj \in dead' PROVE q.expect \subseteq deleted'
          OBVIOUS
        <5>2. CASE q.obj \in dead
          BY <2>2, <4>1, <5>1, <5>2 DEF Sound
        <5>3. CASE q.obj \notin dead
          <6>1. q.obj = o /\ q.name \in Name /\ q.obj = map[q.name] /\ q.op = "read"
            BY <2>2, <4>1, <4>2, <5>1, <5>3 DEF Sound, Holding, Fits, Viewing
          <6>2. q.name = n
            BY <2>1, <2>6, <6>1
          <6>3. acked[n] \subseteq deleted \cup heap[o]
            BY <2>1 DEF Inv, Complete, Mem
          <6> QED  BY <2>2, <4>4, <5>1, <6>1, <6>2, <6>3
        <5> QED  BY <5>2, <5>3
      <4>6. Sound(q)'
        BY <2>2, <4>1, <4>3, <4>4, <4>5 DEF Sound, Holding
      <4> QED  BY <4>1, <4>6
    <3> QED  BY <3>1, <3>2
  <2> QED  BY <2>9, <2>10, <2>11, <2>14, <2>15, <2>16 DEF Inv
<1> QED  BY <1>4, <1>5

=============================================================================

-------------------------------- MODULE Store --------------------------------
(***************************************************************************)
(* The database in memory and on disk (db.rs, persistence.rs): namespaces  *)
(* grouped into shards, requests running on the HTTP threads, the sweeper  *)
(* thread that evicts idle shards, the snapshot thread that saves dirty    *)
(* ones, and a restart from the files.                                     *)
(*                                                                         *)
(* One action is one critical section: what a thread does between taking   *)
(* and giving back a lock of Database (the namespaces map, the shards      *)
(* catalogue, the dirty set) or of one namespace.                          *)
(*                                                                         *)
(* A sighting is a token, so that losing one can be told from never having *)
(* had it; a namespace's content is the set of tokens recorded in it.  An  *)
(* object is one Arc<Namespace>: two objects for the same name are what a  *)
(* lost update needs.  The consensus tally, kept in a shard that is never  *)
(* evicted, is the business of module Consensus.                           *)
(***************************************************************************)
EXTENDS Naturals, FiniteSets

CONSTANTS
    Shard,       \* top-level namespaces: the unit of eviction and of saving
    Name,        \* namespaces
    ShardOf,     \* ShardOf[n]: the shard of namespace n (shard_of)
    Evictable,   \* shards whose tier is warm or cold (TierPolicy)
    Request,     \* concurrent requests
    Workload,    \* what requests do: pairs of "write", "read", "delete" and a name
    Token,       \* sightings
    Obj,         \* objects: for every name two, the map's and the saver's, and one per request
    Stored,      \* what the files hold at the first start: tokens by name
    SaveMayFail, \* whether writing a file may fail
    MaxRestarts, \* bound: restarts
    None         \* no object, no token, no content

ASSUME StoreAssumption ==
    /\ ShardOf \in [Name -> Shard]
    /\ Evictable \subseteq Shard
    /\ DOMAIN Stored \subseteq Name /\ \A n \in DOMAIN Stored : Stored[n] \subseteq Token
    /\ Workload \subseteq {"write", "read", "delete"} \X Name
    /\ SaveMayFail \in BOOLEAN /\ MaxRestarts \in Nat
    /\ None \notin Obj \cup Token \cup Shard /\ \A content \in SUBSET Token : content # None
    /\ IsFiniteSet(Name) /\ IsFiniteSet(Request) /\ IsFiniteSet(Obj)
    /\ Cardinality(Obj) > 2 * Cardinality(Name) + Cardinality(Request)

VARIABLES
    map,       \* namespaces: the object of each name in memory, or None
    heap,      \* the tokens in each object
    known,     \* shards with an entry in the catalogue
    resident,  \* shards the catalogue says are in memory
    catalogue, \* names the catalogue lists
    dirty,     \* shards marked for the next save
    disk,      \* the tokens of each name in its shard's file, or None
    req,       \* the state of each request
    evictor,   \* the sweeper thread, in evict_idle
    saver,     \* the snapshot thread, in save
    restarts,
    issued,    \* ghost: tokens handed to writes
    acked,     \* ghost: the tokens of each name whose write has returned
    deleted,   \* ghost: tokens a deletion removed
    dead       \* ghost: objects a deletion took out of the map

vars == <<map, heap, known, resident, catalogue, dirty, disk, req, evictor,
          saver, restarts, issued, acked, deleted, dead>>

memory  == <<map, heap>>
shards  == <<known, resident, catalogue>>
ghosts  == <<issued, acked, deleted, dead>>
workers == <<evictor, saver, restarts>>

NoRequest == [pc |-> "idle", op |-> "read", name |-> None, obj |-> None,
              tok |-> None, names |-> {}, expect |-> {}]
NotEvicting == [pc |-> "idle", todo |-> {}, cur |-> None, content |-> None]
NotSaving == [pc |-> "idle", present |-> {}, taken |-> {}, todo |-> {},
              cur |-> None, objs |-> <<>>, content |-> None, due |-> {}]

InShard(s) == {n \in Name : ShardOf[n] = s}

\* What the files hold of a namespace.
OnDisk(n) == IF disk[n] = None THEN {} ELSE disk[n]

\* Handles on objects: the map's, those of requests, the snapshot thread's.
Mapped(m) == {m[n] : n \in Name}
Taken(ts) == {req[t].obj : t \in ts}
Reading == {saver.objs[n] : n \in DOMAIN saver.objs}
Held == Taken(Request) \cup Reading

\* Objects free to be allocated.
Free == Obj \ (Held \cup Mapped(map))

\* An object nobody has a handle on is gone, with what was in it.
Kept(h, live) == [o \in Obj |-> IF o \in live THEN h[o] ELSE {}]

\* Which free objects hold what is loaded makes no difference: fix one choice.
Place(names) ==
    CHOOSE place \in [names -> Free] :
        \A m, n \in names : place[m] = place[n] => m = n

(***************************************************************************)
(* from_snapshot_as: everything in the files becomes resident and clean.   *)
(***************************************************************************)

\* The objects that hold, after a start, what the files hold.
Placed(names) ==
    CHOOSE place \in [names -> Obj] : \A m, n \in names : place[m] = place[n] => m = n

MapOf(files) ==
    [n \in Name |-> IF n \in DOMAIN files THEN Placed(DOMAIN files)[n] ELSE None]

HeapOf(files) ==
    [o \in Obj |-> UNION {files[n] : n \in {m \in DOMAIN files : Placed(DOMAIN files)[m] = o}}]

Init ==
    /\ map = MapOf(Stored)
    /\ heap = HeapOf(Stored)
    /\ disk = [n \in Name |-> IF n \in DOMAIN Stored THEN Stored[n] ELSE None]
    /\ known = {ShardOf[n] : n \in DOMAIN Stored}
    /\ resident = known
    /\ catalogue = DOMAIN Stored
    /\ dirty = {}
    /\ req = [t \in Request |-> NoRequest]
    /\ evictor = NotEvicting
    /\ saver = NotSaving
    /\ restarts = 0
    /\ acked = [n \in Name |-> IF n \in DOMAIN Stored THEN Stored[n] ELSE {}]
    /\ issued = UNION {acked[n] : n \in Name}
    /\ deleted = {} /\ dead = {}

-----------------------------------------------------------------------------
(* Requests: Database::namespace and namespace_or_create, and what write,   *)
(* read and delete do with the namespace.                                   *)

\* req[t] with its program counter moved on.
Goto(t, pc) == [req EXCEPT ![t].pc = pc]

\* What follows when namespace() finds an object, and when it finds none.
Found(t, o) ==
    req' = [req EXCEPT ![t].obj = o,
                       ![t].pc = CASE req[t].op = "write"  -> "record"
                                   [] req[t].op = "read"   -> "view"
                                   [] req[t].op = "delete" -> "release"]

NotFound(t) ==
    req' = CASE req[t].op = "write"  -> Goto(t, "evicted")
             [] req[t].op = "read"   -> Goto(t, "absent")
             [] req[t].op = "delete" -> [req EXCEPT ![t] = NoRequest]

\* A request arrives.  expect: the sightings a read of the namespace must see.
Begin(t, op, n) ==
    /\ req[t].pc = "idle"
    /\ \E tok \in IF op = "write" THEN Token \ issued ELSE {None} :
         /\ req' = [req EXCEPT ![t] =
                [NoRequest EXCEPT !.pc = "lookup", !.op = op, !.name = n, !.tok = tok,
                                  !.expect = IF op = "read" THEN acked[n] \ deleted ELSE {}]]
         /\ issued' = issued \cup ({tok} \ {None})
    /\ UNCHANGED <<memory, shards, dirty, disk, workers, acked, deleted, dead>>

\* resident(name), the first and the second time namespace() asks.
Resident(t) ==
    /\ req[t].pc \in {"lookup", "relook"}
    /\ LET o == map[req[t].name] IN
         IF o # None THEN Found(t, o)
         ELSE IF req[t].pc = "lookup" THEN req' = Goto(t, "catalogued")
         ELSE NotFound(t)
    /\ UNCHANGED <<memory, shards, dirty, disk, workers, ghosts>>

\* catalogued(shard, name): go to disk only for a name of an evicted shard.
Catalogued(t) ==
    /\ req[t].pc = "catalogued"
    /\ LET n == req[t].name IN
         IF ShardOf[n] \in known \ resident /\ n \in catalogue
         THEN req' = Goto(t, "page_in") ELSE NotFound(t)
    /\ UNCHANGED <<memory, shards, dirty, disk, workers, ghosts>>

\* namespace_or_create: a new name of an evicted shard needs the rest of it.
Evicted(t) ==
    /\ req[t].pc = "evicted"
    /\ req' = Goto(t, IF ShardOf[req[t].name] \in known \ resident
                      THEN "extend" ELSE "create")
    /\ UNCHANGED <<memory, shards, dirty, disk, workers, ghosts>>

\* The first half of page_in, under the namespaces lock: unless the shard is
\* marked resident, every namespace of the file replaces what the map holds.
Load(t) ==
    /\ req[t].pc \in {"page_in", "extend"}
    /\ LET s == ShardOf[req[t].name]
           names == {n \in InShard(s) : disk[n] # None}
           place == Place(names)
           onto == [n \in Name |-> IF n \in names THEN place[n] ELSE map[n]]
           again == req[t].pc = "page_in"
       IN IF s \in resident
          THEN /\ req' = Goto(t, IF again THEN "relook" ELSE "create")
               /\ UNCHANGED memory
          ELSE /\ map' = onto
               /\ req' = [req EXCEPT ![t].names = names,
                              ![t].pc = IF again THEN "loaded" ELSE "extended"]
               /\ heap' = Kept([o \in Obj |->
                                 IF \E n \in names : place[n] = o
                                 THEN disk[CHOOSE n \in names : place[n] = o]
                                 ELSE heap[o]], Held \cup Mapped(onto))
    /\ UNCHANGED <<shards, dirty, disk, workers, ghosts>>

\* The second half of page_in, under the shards lock.
MarkLoaded(t) ==
    /\ req[t].pc \in {"loaded", "extended"}
    /\ LET s == ShardOf[req[t].name] IN
         /\ known' = known \cup {s}
         /\ resident' = resident \cup {s}
         /\ catalogue' = catalogue \cup req[t].names
    /\ req' = [req EXCEPT ![t].names = {},
                          ![t].pc = IF @ = "loaded" THEN "relook" ELSE "create"]
    /\ UNCHANGED <<memory, dirty, disk, workers, ghosts>>

\* Mutant: a name somebody else has just created is created again.
CreateAnew(t) ==
    /\ req[t].pc = "create"
    /\ LET n == req[t].name
           o == Place({n})[n]
       IN /\ map' = [map EXCEPT ![n] = o]
          /\ req' = [req EXCEPT ![t].obj = o, ![t].pc = "register"]
    /\ UNCHANGED <<heap, shards, dirty, disk, workers, ghosts>>

\* namespace_or_create: entry(name).or_default().
Create(t) ==
    /\ req[t].pc = "create"
    /\ LET n == req[t].name
           o == IF map[n] = None THEN Place({n})[n] ELSE map[n]
       IN /\ map' = [map EXCEPT ![n] = o]
          /\ req' = [req EXCEPT ![t].obj = o, ![t].pc = "register"]
    /\ UNCHANGED <<heap, shards, dirty, disk, workers, ghosts>>

\* record(name): the catalogue lists the name and marks its shard resident.
Register(t) ==
    /\ req[t].pc = "register"
    /\ known' = known \cup {ShardOf[req[t].name]}
    /\ resident' = resident \cup {ShardOf[req[t].name]}
    /\ catalogue' = catalogue \cup {req[t].name}
    /\ req' = Goto(t, "record")
    /\ UNCHANGED <<memory, dirty, disk, workers, ghosts>>

\* Namespace::record, on the object the request holds.  A sighting that goes to
\* an object a deletion has taken away counts as deleted with it.
Record(t) ==
    /\ req[t].pc = "record"
    /\ heap' = [heap EXCEPT ![req[t].obj] = @ \cup {req[t].tok}]
    /\ deleted' = deleted \cup (IF req[t].obj \in dead THEN {req[t].tok} ELSE {})
    /\ req' = Goto(t, "mark")
    /\ UNCHANGED <<map, shards, dirty, disk, workers, issued, acked, dead>>

\* Mutant: the write is not marked.
MarkNothing(t) ==
    /\ req[t].pc = "mark"
    /\ req' = Goto(t, "return")
    /\ UNCHANGED <<memory, shards, dirty, disk, workers, ghosts>>

\* mark_dirty, the last thing record_write does.
Mark(t) ==
    /\ req[t].pc = "mark"
    /\ dirty' = dirty \cup {ShardOf[req[t].name]}
    /\ req' = Goto(t, "return")
    /\ UNCHANGED <<memory, shards, disk, workers, ghosts>>

\* A request drops its handle.
LetGo(t) ==
    LET live == Mapped(map) \cup Taken(Request \ {t}) \cup Reading IN
      /\ heap' = Kept(heap, live)
      /\ dead' = dead \cap live

\* record_write returns: its handle goes, and the client has its answer.
Return(t) ==
    /\ req[t].pc = "return"
    /\ acked' = [acked EXCEPT ![req[t].name] = @ \cup {req[t].tok}]
    /\ req' = [req EXCEPT ![t] = NoRequest]
    /\ LetGo(t)
    /\ UNCHANGED <<map, shards, dirty, disk, workers, issued, deleted>>

\* A read looks at the values and answers, or answers that there are none.
Answer(t) ==
    /\ req[t].pc \in {"view", "absent"}
    /\ req' = [req EXCEPT ![t] = NoRequest]
    /\ LetGo(t)
    /\ UNCHANGED <<map, shards, dirty, disk, workers, issued, acked, deleted>>

\* delete: the names of the values are read and the handle is dropped ...
Release(t) ==
    /\ req[t].pc = "release"
    /\ req' = [req EXCEPT ![t].obj = None, ![t].pc = "remove"]
    /\ LetGo(t)
    /\ UNCHANGED <<map, shards, dirty, disk, workers, issued, acked, deleted>>

\* ... the namespace is taken out of the map, whoever holds it ...
Remove(t) ==
    /\ req[t].pc = "remove"
    /\ LET n == req[t].name IN
         IF map[n] = None
         THEN /\ req' = [req EXCEPT ![t] = NoRequest]
              /\ UNCHANGED <<memory, deleted, dead>>
         ELSE /\ req' = Goto(t, "mark_removed")
              /\ map' = [map EXCEPT ![n] = None]
              /\ heap' = Kept(heap, Held \cup (Mapped(map) \ {map[n]}))
              /\ deleted' = deleted \cup heap[map[n]]
              /\ dead' = (dead \cup {map[n]}) \cap Held
    /\ UNCHANGED <<shards, dirty, disk, workers, issued, acked>>

\* ... its shard is marked dirty ...
MarkRemoved(t) ==
    /\ req[t].pc = "mark_removed"
    /\ dirty' = dirty \cup {ShardOf[req[t].name]}
    /\ req' = Goto(t, "unlist")
    /\ UNCHANGED <<memory, shards, disk, workers, ghosts>>

\* ... and the catalogue forgets the name.
Unlist(t) ==
    /\ req[t].pc = "unlist"
    /\ catalogue' = catalogue \ {req[t].name}
    /\ req' = [req EXCEPT ![t] = NoRequest]
    /\ UNCHANGED <<memory, known, resident, dirty, disk, workers, ghosts>>

-----------------------------------------------------------------------------
(* The sweeper thread: evict_idle and drop_shard.                           *)

\* What a snapshot of shard s written now would hold.
Snapshot(s) == [n \in InShard(s) |-> IF map[n] = None THEN None ELSE heap[map[n]]]

\* The files once that snapshot is renamed into place.
Replaced(content) == [n \in Name |-> IF n \in DOMAIN content THEN content[n] ELSE disk[n]]

\* The candidates: resident shards idle for as long as their tier allows.
\* Nothing bounds the time between two steps, so any of them may be.
Candidates ==
    /\ evictor.pc = "idle"
    /\ \E todo \in (SUBSET (resident \cap Evictable)) \ {{}} :
         evictor' = [evictor EXCEPT !.pc = "next", !.todo = todo]
    /\ UNCHANGED <<memory, shards, dirty, disk, req, saver, restarts, ghosts>>

\* The next candidate: a dirty one is to be saved first.
CheckDirty(s) ==
    /\ evictor.pc = "next" /\ s \in evictor.todo
    /\ evictor' = [evictor EXCEPT !.pc = IF s \in dirty THEN "read" ELSE "clean",
                                  !.todo = @ \ {s}, !.cur = s]
    /\ UNCHANGED <<memory, shards, dirty, disk, req, saver, restarts, ghosts>>

\* On to the next candidate, if there is one.
Proceed == [evictor EXCEPT !.pc = IF evictor.todo = {} THEN "idle" ELSE "next",
                           !.cur = None, !.content = None]

\* save_shard reads the shard into the temporary file ...
EvictRead ==
    /\ evictor.pc = "read"
    /\ evictor' = [evictor EXCEPT !.pc = "rename", !.content = Snapshot(evictor.cur)]
    /\ UNCHANGED <<memory, shards, dirty, disk, req, saver, restarts, ghosts>>

\* ... and renames it; or it fails, and the shard stays for the next sweep.
EvictRename ==
    /\ evictor.pc = "rename"
    /\ \/ /\ disk' = Replaced(evictor.content)
          /\ evictor' = [evictor EXCEPT !.pc = "clean", !.content = None]
       \/ /\ SaveMayFail
          /\ evictor' = Proceed
          /\ UNCHANGED disk
    /\ UNCHANGED <<memory, shards, dirty, req, saver, restarts, ghosts>>

\* The dirty mark goes, whoever made it.
Clean ==
    /\ evictor.pc = "clean"
    /\ dirty' = dirty \ {evictor.cur}
    /\ evictor' = [evictor EXCEPT !.pc = "drop"]
    /\ UNCHANGED <<memory, shards, disk, req, saver, restarts, ghosts>>

\* Mutant: the namespaces go whoever holds them.
DropHeld ==
    /\ evictor.pc = "drop"
    /\ map' = [n \in Name |-> IF ShardOf[n] = evictor.cur THEN None ELSE map[n]]
    /\ evictor' = [evictor EXCEPT !.pc = "dropped"]
    /\ UNCHANGED <<heap, shards, dirty, disk, req, saver, restarts, ghosts>>

\* drop_shard: unless something holds one of its namespaces, they all go ...
Drop ==
    /\ evictor.pc = "drop"
    /\ LET mine == {n \in InShard(evictor.cur) : map[n] # None} IN
         IF \E n \in mine : map[n] \in Held
         THEN /\ evictor' = Proceed
              /\ UNCHANGED memory
         ELSE /\ map' = [n \in Name |-> IF n \in mine THEN None ELSE map[n]]
              /\ heap' = Kept(heap, Obj \ {map[n] : n \in mine})
              /\ evictor' = [evictor EXCEPT !.pc = "dropped"]
    /\ UNCHANGED <<shards, dirty, disk, req, saver, restarts, ghosts>>

\* Mutant: the catalogue forgets the names of the shard.
MarkEvictedForgetting ==
    /\ evictor.pc = "dropped"
    /\ resident' = resident \ {evictor.cur}
    /\ catalogue' = catalogue \ InShard(evictor.cur)
    /\ evictor' = Proceed
    /\ UNCHANGED <<memory, known, dirty, disk, req, saver, restarts, ghosts>>

\* ... and the catalogue is told.  It keeps the names.
MarkEvicted ==
    /\ evictor.pc = "dropped"
    /\ resident' = resident \ {evictor.cur}
    /\ evictor' = Proceed
    /\ UNCHANGED <<memory, known, catalogue, dirty, disk, req, saver, restarts, ghosts>>

Evict == \/ Candidates \/ \E s \in Shard : CheckDirty(s)
         \/ EvictRead \/ EvictRename \/ Clean \/ Drop \/ MarkEvicted

-----------------------------------------------------------------------------
(* The snapshot thread: save with all = false.                              *)

\* The shards with a namespace in memory.  due: the sightings acknowledged
\* before the save began.
Present ==
    /\ saver.pc = "idle"
    /\ saver' = [saver EXCEPT !.pc = "take",
                              !.present = {ShardOf[n] : n \in {m \in Name : map[m] # None}},
                              !.due = UNION {acked[n] : n \in Name}]
    /\ UNCHANGED <<memory, shards, dirty, disk, req, evictor, restarts, ghosts>>

\* take_dirty: the dirty set is now the save's own.
TakeDirty ==
    /\ saver.pc = "take"
    /\ saver' = [saver EXCEPT !.pc = "write", !.taken = dirty,
                              !.todo = dirty \cap saver.present]
    /\ dirty' = {}
    /\ UNCHANGED <<memory, shards, disk, req, evictor, restarts, ghosts>>

\* write_shard takes a handle on every namespace of the shard ...
Handles(s) ==
    /\ saver.pc = "write" /\ s \in saver.todo
    /\ saver' = [saver EXCEPT !.pc = "read", !.cur = s, !.todo = @ \ {s},
                              !.objs = [n \in InShard(s) |-> map[n]]]
    /\ UNCHANGED <<memory, shards, dirty, disk, req, evictor, restarts, ghosts>>

\* ... reads each, and lets them go ...
SaveRead ==
    /\ saver.pc = "read"
    /\ saver' = [saver EXCEPT !.pc = "rename", !.objs = <<>>,
                              !.content = [n \in DOMAIN saver.objs |->
                                  IF saver.objs[n] = None THEN None
                                  ELSE heap[saver.objs[n]]]]
    /\ heap' = Kept(heap, Mapped(map) \cup Taken(Request))
    /\ dead' = dead \cap Taken(Request)
    /\ UNCHANGED <<map, shards, dirty, disk, req, evictor, restarts, issued, acked, deleted>>

\* ... and renames the temporary file; or it fails, the shard is marked dirty
\* again, and the save ends there.
SaveRename ==
    /\ saver.pc = "rename"
    /\ \/ /\ disk' = Replaced(saver.content)
          /\ saver' = [saver EXCEPT !.pc = "write", !.cur = None, !.content = None]
          /\ UNCHANGED dirty
       \/ /\ SaveMayFail
          /\ dirty' = dirty \cup {saver.cur}
          /\ saver' = NotSaving
          /\ UNCHANGED disk
    /\ UNCHANGED <<memory, shards, req, evictor, restarts, ghosts>>

\* Mutant: the dirty set is cleared when the save ends, not when it begins.
RemoveStaleClearing ==
    /\ saver.pc = "write" /\ saver.todo = {}
    /\ disk' = [n \in Name |-> IF ShardOf[n] \in saver.taken \ saver.present
                               THEN None ELSE disk[n]]
    /\ saver' = [saver EXCEPT !.pc = "done"]
    /\ dirty' = {}
    /\ UNCHANGED <<memory, shards, req, evictor, restarts, ghosts>>

\* Mutant: a shard that is in memory but was not written loses its file.
RemoveUnwritten ==
    /\ saver.pc = "write" /\ saver.todo = {}
    /\ disk' = [n \in Name |-> IF ShardOf[n] \in saver.present \ saver.taken
                               THEN None ELSE disk[n]]
    /\ saver' = [saver EXCEPT !.pc = "done"]
    /\ UNCHANGED <<memory, shards, dirty, req, evictor, restarts, ghosts>>

\* The shards taken that had no namespace in memory lose their file.
RemoveStale ==
    /\ saver.pc = "write" /\ saver.todo = {}
    /\ disk' = [n \in Name |-> IF ShardOf[n] \in saver.taken \ saver.present
                               THEN None ELSE disk[n]]
    /\ saver' = [saver EXCEPT !.pc = "done"]
    /\ UNCHANGED <<memory, shards, dirty, req, evictor, restarts, ghosts>>

\* The thread sleeps until the next save.
Sleep ==
    /\ saver.pc = "done"
    /\ saver' = NotSaving
    /\ UNCHANGED <<memory, shards, dirty, disk, req, evictor, restarts, ghosts>>

Save == \/ Present \/ TakeDirty \/ \E s \in Shard : Handles(s)
        \/ SaveRead \/ SaveRename \/ RemoveStale \/ Sleep

-----------------------------------------------------------------------------
\* The process stops where it is and starts again from the files.  What had not
\* been saved is forgotten, by the ghosts too.
Restart ==
    /\ restarts < MaxRestarts
    /\ restarts' = restarts + 1
    /\ UNCHANGED <<disk, issued, deleted>>
    /\ LET files == [n \in {m \in Name : disk[m] # None} |-> disk[n]] IN
         /\ map' = MapOf(files)
         /\ heap' = HeapOf(files)
         /\ known' = {ShardOf[n] : n \in DOMAIN files}
         /\ resident' = known'
         /\ catalogue' = DOMAIN files
    /\ dirty' = {}
    /\ req' = [t \in Request |-> NoRequest]
    /\ evictor' = NotEvicting
    /\ saver' = NotSaving
    /\ dead' = {}
    /\ acked' = [n \in Name |-> acked[n] \cap OnDisk(n)]

Step(t) == \/ Resident(t) \/ Catalogued(t) \/ Evicted(t) \/ Load(t) \/ MarkLoaded(t)
           \/ Create(t) \/ Register(t) \/ Record(t) \/ Mark(t) \/ Return(t)
           \/ Answer(t) \/ Release(t) \/ Remove(t) \/ MarkRemoved(t) \/ Unlist(t)

Next == \/ \E t \in Request, w \in Workload : Begin(t, w[1], w[2])
        \/ \E t \in Request : Step(t)
        \/ Evict \/ Save \/ Restart

Spec == Init /\ [][Next]_vars

\* The snapshot thread wakes at every interval and no lock is held for ever.
Live == Spec /\ WF_vars(Save) /\ \A t \in Request : WF_vars(Step(t))

-----------------------------------------------------------------------------
\* A read answers with every sighting of the namespace whose write had returned
\* before the read began, deletions apart (Database::namespace).
ReadsSeeWrites ==
    \A t \in Request :
        /\ req[t].pc = "view" => req[t].expect \ deleted \subseteq heap[req[t].obj]
        /\ req[t].pc = "absent" => req[t].expect \subseteq deleted

\* What a request reads or records into is the object the map has, or one that
\* a deletion removed: never an orphan (drop_shard, prune_empty).
NeverOrphaned ==
    \A t \in Request : req[t].pc \in {"view", "record", "mark"} =>
        req[t].obj \in dead \cup {map[req[t].name]}

\* A shard is dropped from memory only when its file has every sighting whose
\* write had returned (evict_idle).
EvictedIsSaved ==
    evictor.pc = "dropped" =>
        \A n \in InShard(evictor.cur) : acked[n] \ deleted \subseteq OnDisk(n)

\* When a save returns without an error, the files hold every sighting whose
\* write had returned before the save began (persistence::save).
DueSaved ==
    saver.pc = "done" => saver.due \subseteq deleted \cup UNION {OnDisk(n) : n \in Name}

\* Shards that no request ever writes to or deletes from.
OnlyRead == {s \in Shard : \A w \in Workload : ShardOf[w[2]] = s => w[1] = "read"}

\* While no thread is in the middle of an eviction or a load, a lookup in a
\* shard that is only read would find every sighting: in memory, or in the file
\* of a shard that is listed as evicted (evict_idle, page_in).
Reachable ==
    (evictor.pc # "dropped" /\ \A t \in Request : req[t].pc \notin {"loaded", "extended"}) =>
        \A n \in Name : ShardOf[n] \in OnlyRead => acked[n] \subseteq
            (IF map[n] # None THEN heap[map[n]]
             ELSE IF ShardOf[n] \in known \ resident /\ n \in catalogue THEN OnDisk(n)
             ELSE {})

\* What a file holds it goes on holding, deletions apart (write_shard, save).
SavedStays ==
    [][\A n \in Name : OnDisk(n) \cap acked[n] \subseteq OnDisk(n)' \cup deleted']_vars

\* Once the writes stop the files catch up with them, and stay so: no mark is
\* lost to a save under way (take_dirty, the snapshot thread).
EventuallySaved ==
    <>[](\A n \in Name : acked[n] \subseteq OnDisk(n) \cup deleted)
=============================================================================

----------------------------- MODULE StoreProofs -----------------------------
(***************************************************************************)
(* Proofs about Store, for a server whose shards are all hot (none is      *)
(* evicted), with any number of namespaces, shards, requests, sightings    *)
(* and restarts: a read sees every acknowledged sighting, what a file      *)
(* holds stays in it until it is deleted, and a save leaves nothing out.   *)
(***************************************************************************)
EXTENDS StoreSteps

-----------------------------------------------------------------------------
(* The snapshot thread.                                                     *)

LEMMA SaverStep ==
    ASSUME Inv, SaverOK', Saved', UNCHANGED <<map, known, resident, req, evictor, acked, deleted>>,
           dirty' \subseteq Shard, disk' \in [Name -> Contents], heap' \in [Obj -> SUBSET Token],
           dead' = dead \cap Held',
           \A o \in Obj : o \in Held' \cup Mapped(map) => heap'[o] = heap[o],
           \A n \in Name : OnDisk(n)' \subseteq deleted \cup Mem(n)
    PROVE  Inv'
<1>1. \A o \in dead' : heap'[o] \subseteq deleted'
  BY DEF Inv, TypeOK, Deaths
<1>2. Grows
  BY <1>1 DEF Grows, Inv, TypeOK
<1>3. \A n \in Name : acked'[n] \cup OnDisk(n)' \subseteq deleted' \cup Mem(n)'
  <2> SUFFICES ASSUME NEW n \in Name
               PROVE  acked'[n] \cup OnDisk(n)' \subseteq deleted' \cup Mem(n)'
    OBVIOUS
  <2>1. Mem(n) \subseteq Mem(n)'
    BY <1>2, MemGrows
  <2>2. acked[n] \subseteq deleted \cup Mem(n)
    BY DEF Inv, Complete
  <2> QED  BY <2>1, <2>2
<1>4. /\ req' = [u \in Request |-> req'[u]] /\ \A u \in Request : req'[u] = req[u]
      /\ acked' \in [Name -> SUBSET Token] /\ \A n \in Name : acked[n] \subseteq acked'[n]
  BY DEF Inv, TypeOK
<1> QED  BY <1>2, <1>3, <1>4, Growth

\* A step that only changes what the thread has noted.
LEMMA SaverNotes ==
    ASSUME Inv, SaverOK', Saved', dirty' \subseteq Shard, Reading = {},
           UNCHANGED <<memory, shards, disk, req, evictor, ghosts>>
    PROVE  Inv'
<1>1. dead' = dead \cap Held'
  BY DEF Inv, Deaths, Held, Taken, ghosts
<1>2. \A n \in Name : OnDisk(n)' \subseteq deleted \cup Mem(n)
  BY DEF Inv, Complete, OnDisk
<1> QED  BY <1>1, <1>2, SaverStep DEF Inv, TypeOK, memory, shards, ghosts

LEMMA EmptyDomain == DOMAIN <<>> = {}
<1>1. <<>> \in Seq({}) /\ Len(<<>>) = 0
  OBVIOUS
<1>2. DOMAIN <<>> = 1..0
  BY <1>1
<1> QED  BY <1>2

LEMMA PresentInv ==
    ASSUME Inv, Present
    PROVE  Inv'
<1>1. PICK x : x = saver /\ SaverOK
  BY DEF Inv, TypeOK
<1>2. x = [pc |-> "idle", present |-> x.present, taken |-> x.taken, todo |-> x.todo,
           cur |-> x.cur, objs |-> x.objs, content |-> x.content, due |-> x.due]
  BY <1>1 DEF SaverOK, Present
<1>3. PICK shs, due : /\ shs = {ShardOf[n] : n \in {m \in Name : map[m] # None}}
                      /\ due = UNION {acked[n] : n \in Name}
  OBVIOUS
<1>4. shs \subseteq Shard /\ due \subseteq Token
  BY <1>3, StoreAssumption DEF Inv, TypeOK
<1>5. PICK y : y = [x EXCEPT !.pc = "take", !.present = shs]
  OBVIOUS
<1>6. y = [pc |-> "take", present |-> shs, taken |-> x.taken, todo |-> x.todo,
           cur |-> x.cur, objs |-> x.objs, content |-> x.content, due |-> x.due]
  BY <1>2, <1>5
<1>7. saver' = [y EXCEPT !.due = due]
  BY <1>1, <1>3, <1>5 DEF Present
<1>8. saver' = [pc |-> "take", present |-> shs, taken |-> x.taken, todo |-> x.todo,
                cur |-> x.cur, objs |-> x.objs, content |-> x.content, due |-> due]
  BY <1>6, <1>7
<1>9. x.taken \subseteq Shard /\ x.todo = {} /\ Reading = {} /\ saver.objs = x.objs
  <2>1. saver.pc = "idle"
    BY DEF Present
  <2>2. saver.taken \subseteq Shard /\ saver.todo = {} /\ Reading = {}
    BY <1>1, <2>1 DEF SaverOK
  <2> QED  BY <1>1, <2>2
<1>10. Reading' = {}
  BY <1>8, <1>9 DEF Reading
<1>11. SaverOK'
  BY <1>4, <1>8, <1>9, <1>10 DEF SaverOK
<1>12. \A n \in Name : ShardOf[n] \notin shs => OnDisk(n)' \subseteq deleted'
  BY <1>3 DEF Inv, Complete, Mem, Present, OnDisk, ghosts
<1>13. Saved'
  BY <1>8, <1>12 DEF Saved
<1> QED  BY <1>9, <1>11, <1>13, SaverNotes DEF Present, Inv, TypeOK

LEMMA TakeDirtyInv ==
    ASSUME Inv, TakeDirty
    PROVE  Inv'
<1>1. PICK x : x = saver /\ SaverOK
  BY DEF Inv, TypeOK
<1>2. x = [pc |-> "take", present |-> x.present, taken |-> x.taken, todo |-> x.todo,
           cur |-> x.cur, objs |-> x.objs, content |-> x.content, due |-> x.due]
  BY <1>1 DEF SaverOK, TakeDirty
<1>3. PICK marks, todo : marks = dirty /\ todo = dirty \cap x.present
  OBVIOUS
<1>4. PICK y : y = [x EXCEPT !.pc = "write", !.taken = marks]
  OBVIOUS
<1>5. y = [pc |-> "write", present |-> x.present, taken |-> marks, todo |-> x.todo,
           cur |-> x.cur, objs |-> x.objs, content |-> x.content, due |-> x.due]
  BY <1>2, <1>4
<1>6. saver' = [y EXCEPT !.todo = todo]
  BY <1>1, <1>3, <1>4 DEF TakeDirty
<1>7. saver' = [pc |-> "write", present |-> x.present, taken |-> marks, todo |-> todo,
                cur |-> x.cur, objs |-> x.objs, content |-> x.content, due |-> x.due]
  BY <1>5, <1>6
<1>8. /\ x.present \subseteq Shard /\ x.due \subseteq Token /\ Reading = {} /\ saver.objs = x.objs
      /\ marks \subseteq Shard /\ todo \subseteq marks \cap x.present
  BY <1>1, <1>2, <1>3 DEF SaverOK, Inv, TypeOK
<1>9. Reading' = {}
  BY <1>7, <1>8 DEF Reading
<1>10. SaverOK'
  BY <1>7, <1>8, <1>9 DEF SaverOK
<1>11. \A n \in Name : ShardOf[n] \notin x.present => OnDisk(n)' \subseteq deleted'
  BY <1>1, <1>2 DEF Inv, Saved, TakeDirty, OnDisk, ghosts
<1>12. Saved'
  BY <1>7, <1>11 DEF Saved
<1> QED  BY <1>8, <1>10, <1>12, SaverNotes DEF TakeDirty

LEMMA HandlesInv ==
    ASSUME Inv, NEW s \in Shard, Handles(s)
    PROVE  Inv'
<1>1. PICK x : x = saver /\ SaverOK
  BY DEF Inv, TypeOK
<1>2. x = [pc |-> "write", present |-> x.present, taken |-> x.taken, todo |-> x.todo,
           cur |-> x.cur, objs |-> x.objs, content |-> x.content, due |-> x.due]
  BY <1>1 DEF SaverOK, Handles
<1>3. PICK todo, objs : todo = x.todo \ {s} /\ objs = [n \in InShard(s) |-> map[n]]
  OBVIOUS
<1>4. PICK y : y = [x EXCEPT !.pc = "read", !.cur = s]
  OBVIOUS
<1>5. y = [pc |-> "read", present |-> x.present, taken |-> x.taken, todo |-> x.todo,
           cur |-> s, objs |-> x.objs, content |-> x.content, due |-> x.due]
  BY <1>2, <1>4
<1>6. saver' = [y EXCEPT !.todo = todo, !.objs = objs]
  BY <1>1, <1>3, <1>4, <1>5 DEF Handles
<1>7. saver' = [pc |-> "read", present |-> x.present, taken |-> x.taken, todo |-> todo,
                cur |-> s, objs |-> objs, content |-> x.content, due |-> x.due]
  BY <1>5, <1>6
<1>8. /\ x.present \subseteq Shard /\ x.taken \subseteq Shard /\ x.due \subseteq Token
      /\ Reading = {} /\ x.todo \subseteq x.taken \cap x.present /\ s \in x.todo
  BY <1>1, <1>2 DEF SaverOK, Handles
<1>9. objs \in [InShard(s) -> Obj \cup {None}]
  BY <1>3 DEF Inv, TypeOK, InShard
<1>10. SaverOK'
  BY <1>3, <1>7, <1>8, <1>9 DEF SaverOK
<1>11. \A n \in Name : OnDisk(n)' = OnDisk(n) /\ OnDisk(n) \subseteq deleted \cup Mem(n)
  BY DEF Handles, OnDisk, Inv, Complete
<1>12. \A n \in InShard(s) : Reads(n)'
  <2> SUFFICES ASSUME NEW n \in InShard(s) PROVE Reads(n)'
    OBVIOUS
  <2>1. n \in Name /\ saver'.objs[n] = map[n]
    BY <1>3, <1>7 DEF InShard
  <2>2. Seen(n)' = Mem(n)
    BY <2>1 DEF Seen, Mem, Handles, memory
  <2> QED  BY <1>11, <2>1, <2>2 DEF Reads, Handles, memory, ghosts
<1>13. \A n \in Name : ShardOf[n] \notin x.present => OnDisk(n)' \subseteq deleted'
  BY <1>1, <1>2, <1>11 DEF Inv, Saved, Handles, ghosts
<1>14. Saved'
  BY <1>7, <1>12, <1>13 DEF Saved
<1> QED  BY <1>8, <1>10, <1>14, SaverNotes DEF Handles, Inv, TypeOK

LEMMA SaveReadInv ==
    ASSUME Inv, SaveRead
    PROVE  Inv'
<1>1. PICK x : x = saver /\ SaverOK
  BY DEF Inv, TypeOK
<1>2. x = [pc |-> "read", present |-> x.present, taken |-> x.taken, todo |-> x.todo,
           cur |-> x.cur, objs |-> x.objs, content |-> x.content, due |-> x.due]
  BY <1>1 DEF SaverOK, SaveRead
<1>3. /\ x.present \subseteq Shard /\ x.taken \subseteq Shard /\ x.due \subseteq Token
      /\ x.todo \subseteq x.taken \cap x.present /\ x.cur \in x.taken \cap x.present
      /\ x.objs \in [InShard(x.cur) -> Obj \cup {None}]
  BY <1>1, <1>2 DEF SaverOK
<1>4. PICK content : content = [n \in InShard(x.cur) |-> IF x.objs[n] = None THEN None
                                                         ELSE heap[x.objs[n]]]
  OBVIOUS
<1>5. content \in [InShard(x.cur) -> Contents]
  BY <1>3, <1>4 DEF Inv, TypeOK, Contents
<1>6. PICK y : y = [x EXCEPT !.pc = "rename", !.objs = <<>>]
  OBVIOUS
<1>7. y = [pc |-> "rename", present |-> x.present, taken |-> x.taken, todo |-> x.todo,
           cur |-> x.cur, objs |-> <<>>, content |-> x.content, due |-> x.due]
  BY <1>2, <1>6
<1>8. saver' = [y EXCEPT !.content = content]
  <2>1. DOMAIN x.objs = InShard(x.cur)
    BY <1>3
  <2> QED  BY <1>1, <1>4, <1>6, <2>1 DEF SaveRead
<1>9. saver' = [pc |-> "rename", present |-> x.present, taken |-> x.taken, todo |-> x.todo,
                cur |-> x.cur, objs |-> <<>>, content |-> content, due |-> x.due]
  BY <1>7, <1>8
<1>10. Reading' = {}
  <2>1. DOMAIN <<>> = {}
    BY EmptyDomain
  <2> QED  BY <1>9, <2>1 DEF Reading
<1>11. SaverOK'
  BY <1>3, <1>5, <1>9, <1>10 DEF SaverOK
<1>12. Held' = Taken(Request)
  BY <1>10 DEF Held, Taken, SaveRead
<1>13. /\ heap' = [o \in Obj |-> IF o \in Mapped(map) \cup Taken(Request) THEN heap[o] ELSE {}]
       /\ dead' = dead \cap Taken(Request) /\ disk' = disk /\ map' = map /\ deleted' = deleted
  BY DEF SaveRead, Kept
<1>14. \A n \in Name : OnDisk(n)' = OnDisk(n) /\ OnDisk(n) \subseteq deleted \cup Mem(n)
  BY <1>13 DEF OnDisk, Inv, Complete
<1>15. \A n \in Name : Mem(n)' = Mem(n)
  BY <1>13 DEF Mem, Mapped, Inv, TypeOK
<1>16. \A n \in InShard(x.cur) : Copies(n)'
  <2> SUFFICES ASSUME NEW n \in InShard(x.cur) PROVE Copies(n)'
    OBVIOUS
  <2>1. n \in Name
    BY DEF InShard
  <2>2. PICK o \in Obj \cup {None} : o = x.objs[n]
    BY <1>3
  <2>3. o \in dead \cup {map[n], None} /\ OnDisk(n) \subseteq deleted \cup Seen(n)
    BY <1>1, <1>2, <2>2 DEF Inv, Saved, Reads
  <2>4. content[n] = IF o = None THEN None ELSE heap[o]
    BY <1>4, <2>2
  <2>5. o # None => heap[o] # None
    BY StoreAssumption DEF Inv, TypeOK
  <2>6. Copied(n)' = Seen(n)
    BY <1>1, <1>9, <2>2, <2>4, <2>5 DEF Copied, Seen
  <2>7. Seen(n) \subseteq deleted \cup Mem(n)
    BY <1>1, <2>2, <2>3 DEF Seen, Mem, Inv, Deaths
  <2> QED  BY <1>13, <1>14, <1>15, <2>1, <2>3, <2>6, <2>7 DEF Copies
<1>17. \A n \in Name : ShardOf[n] \notin x.present => OnDisk(n)' \subseteq deleted'
  BY <1>1, <1>2, <1>13, <1>14 DEF Inv, Saved
<1>18. Saved'
  BY <1>9, <1>16, <1>17 DEF Saved
<1>19. heap' \in [Obj -> SUBSET Token] /\ disk' \in [Name -> Contents]
  BY <1>13 DEF Inv, TypeOK
<1>20. \A o \in Obj : o \in Held' \cup Mapped(map) => heap'[o] = heap[o]
  BY <1>12, <1>13
<1> QED  BY <1>11, <1>12, <1>13, <1>14, <1>18, <1>19, <1>20, SaverStep
         DEF SaveRead, shards, Inv, TypeOK

LEMMA SaveRenameInv ==
    ASSUME Inv, SaveRename
    PROVE  /\ Inv' /\ \A n \in Name : OnDisk(n) \subseteq deleted \cup OnDisk(n)'
<1>1. PICK x : x = saver /\ SaverOK
  BY DEF Inv, TypeOK
<1>2. x = [pc |-> "rename", present |-> x.present, taken |-> x.taken, todo |-> x.todo,
           cur |-> x.cur, objs |-> x.objs, content |-> x.content, due |-> x.due]
  BY <1>1 DEF SaverOK, SaveRename
<1>3. /\ x.present \subseteq Shard /\ x.taken \subseteq Shard /\ x.due \subseteq Token
      /\ x.todo \subseteq x.taken \cap x.present /\ x.cur \in x.taken \cap x.present
      /\ x.content \in [InShard(x.cur) -> Contents] /\ Reading = {} /\ saver.objs = x.objs
  BY <1>1, <1>2 DEF SaverOK
<1>4. \A n \in Name : OnDisk(n) \subseteq deleted \cup Mem(n)
  BY DEF Inv, Complete
<1>5. UNCHANGED <<map, heap, known, resident, req, evictor, acked, deleted, dead>>
  BY DEF SaveRename, memory, shards, ghosts
<1>6. CASE /\ disk' = Replaced(saver.content)
           /\ saver' = [saver EXCEPT !.pc = "write", !.cur = None, !.content = None]
           /\ UNCHANGED dirty
  <2>1. PICK y : y = [x EXCEPT !.pc = "write", !.cur = None]
    OBVIOUS
  <2>2. y = [pc |-> "write", present |-> x.present, taken |-> x.taken, todo |-> x.todo,
             cur |-> None, objs |-> x.objs, content |-> x.content, due |-> x.due]
    BY <1>2, <2>1
  <2>3. saver' = [y EXCEPT !.content = None]
    BY <1>1, <1>6, <2>1
  <2>4. saver' = [pc |-> "write", present |-> x.present, taken |-> x.taken, todo |-> x.todo,
                  cur |-> None, objs |-> x.objs, content |-> None, due |-> x.due]
    BY <2>2, <2>3
  <2>5. Reading' = {}
    BY <1>3, <2>4 DEF Reading
  <2>6. SaverOK'
    BY <1>3, <2>4, <2>5 DEF SaverOK
  <2>7. disk' = [n \in Name |-> IF n \in InShard(x.cur) THEN x.content[n] ELSE disk[n]]
    BY <1>1, <1>3, <1>6 DEF Replaced
  <2>8. disk' \in [Name -> Contents]
    BY <1>3, <2>7 DEF Inv, TypeOK
  <2>9. /\ \A n \in InShard(x.cur) : OnDisk(n)' = Copied(n) /\ Copies(n)
        /\ \A n \in Name : n \notin InShard(x.cur) => OnDisk(n)' = OnDisk(n)
    BY <1>1, <1>2, <2>7 DEF OnDisk, Copied, InShard, Inv, Saved
  <2>10. \A n \in Name : OnDisk(n)' \subseteq deleted \cup Mem(n)
    BY <1>4, <2>9 DEF Copies, InShard
  <2>11. \A n \in Name : ShardOf[n] \notin x.present => OnDisk(n)' \subseteq deleted'
    <3>1. \A n \in Name : ShardOf[n] \notin x.present => n \notin InShard(x.cur)
      BY <1>3 DEF InShard
    <3> QED  BY <1>1, <1>2, <1>5, <2>9, <3>1 DEF Inv, Saved
  <2>12. Saved'
    BY <2>4, <2>11 DEF Saved
  <2>13. Held' = Held
    BY <1>3, <1>5, <2>5 DEF Held, Taken
  <2>14. dead' = dead \cap Held'
    BY <1>5, <2>13 DEF Inv, Deaths
  <2>15. Inv'
    BY <1>5, <1>6, <2>6, <2>8, <2>10, <2>12, <2>14, SaverStep DEF Inv, TypeOK
  <2>16. \A n \in Name : OnDisk(n) \subseteq deleted \cup OnDisk(n)'
    BY <2>9 DEF Copies, InShard
  <2> QED  BY <2>15, <2>16
<1>7. CASE /\ dirty' = dirty \cup {saver.cur} /\ saver' = NotSaving /\ UNCHANGED disk
  <2>1. Reading' = {}
    BY <1>7, EmptyDomain DEF Reading, NotSaving
  <2>2. SaverOK'
    BY <1>7, <2>1 DEF SaverOK, NotSaving
  <2>3. Saved'
    BY <1>7 DEF Saved, NotSaving
  <2>4. dirty' \subseteq Shard
    BY <1>1, <1>3, <1>7 DEF Inv, TypeOK
  <2>5. Inv'
    BY <1>3, <1>7, <2>2, <2>3, <2>4, SaverNotes DEF SaveRename
  <2> QED  BY <1>7, <2>5 DEF OnDisk
<1> QED  BY <1>6, <1>7 DEF SaveRename

LEMMA RemoveStaleInv ==
    ASSUME Inv, RemoveStale
    PROVE  /\ Inv' /\ \A n \in Name : OnDisk(n) \subseteq deleted \cup OnDisk(n)'
<1>1. PICK x : x = saver /\ SaverOK
  BY DEF Inv, TypeOK
<1>2. x = [pc |-> "write", present |-> x.present, taken |-> x.taken, todo |-> {},
           cur |-> x.cur, objs |-> x.objs, content |-> x.content, due |-> x.due]
  BY <1>1 DEF SaverOK, RemoveStale
<1>3. /\ x.present \subseteq Shard /\ x.taken \subseteq Shard /\ x.due \subseteq Token
      /\ Reading = {} /\ saver.objs = x.objs
  BY <1>1, <1>2 DEF SaverOK
<1>4. saver' = [pc |-> "done", present |-> x.present, taken |-> x.taken, todo |-> {},
                cur |-> x.cur, objs |-> x.objs, content |-> x.content, due |-> x.due]
  <2>1. saver' = [x EXCEPT !.pc = "done"]
    BY <1>1 DEF RemoveStale
  <2> QED  BY <1>2, <2>1
<1>5. Reading' = {}
  BY <1>3, <1>4 DEF Reading
<1>6. SaverOK'
  BY <1>3, <1>4, <1>5 DEF SaverOK
<1>7. disk' = [n \in Name |-> IF ShardOf[n] \in x.taken \ x.present THEN None ELSE disk[n]]
  BY <1>1 DEF RemoveStale
<1>8. disk' \in [Name -> Contents]
  BY <1>7 DEF Inv, TypeOK, Contents
<1>9. \A n \in Name : /\ OnDisk(n)' \subseteq OnDisk(n)
                      /\ ShardOf[n] \in x.present => OnDisk(n)' = OnDisk(n)
  BY <1>7 DEF OnDisk
<1>10. \A n \in Name : ShardOf[n] \notin x.present => OnDisk(n) \subseteq deleted
  BY <1>1, <1>2 DEF Inv, Saved
<1>11. Saved'
  BY <1>4 DEF Saved
<1>12. UNCHANGED <<map, heap, known, resident, req, evictor, acked, deleted, dead, dirty>>
  BY DEF RemoveStale, memory, shards, ghosts
<1>13. Held' = Held
  BY <1>3, <1>5, <1>12 DEF Held, Taken
<1>14. dead' = dead \cap Held'
  BY <1>12, <1>13 DEF Inv, Deaths
<1>15. \A n \in Name : OnDisk(n)' \subseteq deleted \cup Mem(n)
  BY <1>9 DEF Inv, Complete
<1>16. Inv'
  BY <1>6, <1>8, <1>11, <1>12, <1>14, <1>15, SaverStep DEF Inv, TypeOK
<1> QED  BY <1>9, <1>10, <1>16

LEMMA SleepInv ==
    ASSUME Inv, Sleep
    PROVE  Inv'
<1>1. Reading' = {}
  BY EmptyDomain DEF Reading, NotSaving, Sleep
<1>2. SaverOK'
  BY <1>1 DEF SaverOK, NotSaving, Sleep
<1>3. Saved'
  BY DEF Saved, NotSaving, Sleep
<1>4. Reading = {} /\ dirty' \subseteq Shard
  BY DEF Sleep, Inv, TypeOK, SaverOK
<1> QED  BY <1>2, <1>3, <1>4, SaverNotes DEF Sleep

-----------------------------------------------------------------------------
(* The start, and every start after it.                                     *)

\* The server has just come up: memory is what the files hold.
Fresh ==
    /\ map \in [Name -> Obj \cup {None}] /\ heap \in [Obj -> SUBSET Token] /\ Separate
    /\ disk \in [Name -> Contents]
    /\ \A n \in Name : OnDisk(n) \subseteq Mem(n)
    /\ known = resident /\ dirty = {} /\ dead = {} /\ deleted \subseteq Token
    /\ req = [t \in Request |-> NoRequest] /\ evictor = NotEvicting /\ saver = NotSaving
    /\ acked \in [Name -> SUBSET Token] /\ \A n \in Name : acked[n] \subseteq OnDisk(n)

LEMMA FreshInv == Fresh => Inv
<1> SUFFICES ASSUME Fresh PROVE Inv
  OBVIOUS
<1>1. Reading = {}
  BY EmptyDomain DEF Fresh, Reading, NotSaving
<1>2. SaverOK
  BY <1>1 DEF Fresh, SaverOK, NotSaving
<1>3. req = [t \in Request |-> req[t]] /\ \A t \in Request : Fits(req[t]) /\ Sound(req[t])
  BY NoneIs DEF Fresh
<1>4. TypeOK
  BY <1>2, <1>3 DEF Fresh, TypeOK
<1>5. Deaths /\ Complete
  BY DEF Fresh, Deaths, Complete
<1>6. Saved
  BY DEF Fresh, Saved, NotSaving
<1> QED  BY <1>3, <1>4, <1>5, <1>6 DEF Inv, Fresh

LEMMA FreshAgain == Fresh' => Inv'
  BY FreshInv, PTL

LEMMA Filled ==
    ASSUME NEW files, DOMAIN files \subseteq Name, \A n \in DOMAIN files : files[n] \subseteq Token,
           NEW m, m = MapOf(files), NEW h, h = HeapOf(files)
    PROVE  /\ m \in [Name -> Obj \cup {None}] /\ h \in [Obj -> SUBSET Token]
           /\ \A k, n \in Name : m[k] = m[n] /\ m[k] # None => k = n
           /\ \A n \in DOMAIN files : m[n] # None /\ h[m[n]] = files[n]
<1>1. PICK names \in SUBSET Name : names = DOMAIN files
  OBVIOUS
<1>2. PICK place : place = Placed(names)
  OBVIOUS
<1>3. place \in [names -> Obj] /\ \A k, n \in names : place[k] = place[n] => k = n
  BY <1>2, PlacedIs
<1>4. m = [n \in Name |-> IF n \in names THEN place[n] ELSE None]
  BY <1>1, <1>2 DEF MapOf
<1>5. h = [o \in Obj |-> UNION {files[n] : n \in {k \in names : place[k] = o}}]
  BY <1>1, <1>2 DEF HeapOf
<1>6. h \in [Obj -> SUBSET Token]
  BY <1>1, <1>5
<1>7. m \in [Name -> Obj \cup {None}] /\ \A k, n \in Name : m[k] = m[n] /\ m[k] # None => k = n
  BY <1>3, <1>4
<1>8. ASSUME NEW n \in names
      PROVE  m[n] # None /\ h[m[n]] = files[n]
  <2>1. m[n] = place[n] /\ place[n] \in Obj
    BY <1>3, <1>4
  <2>2. {k \in names : place[k] = place[n]} = {n}
    BY <1>3
  <2>3. h[place[n]] = UNION {files[k] : k \in {n}}
    BY <1>5, <2>1, <2>2
  <2>4. UNION {files[k] : k \in {n}} = files[n]
    OBVIOUS
  <2> QED  BY <2>1, <2>3, <2>4, StoreAssumption
<1> QED  BY <1>1, <1>6, <1>7, <1>8

LEMMA InitFresh ==
    ASSUME Init
    PROVE  Fresh /\ \A n \in DOMAIN Stored : map[n] # None
<1>1. PICK m, h : m = MapOf(Stored) /\ h = HeapOf(Stored) /\ map = m /\ heap = h
  BY DEF Init
<1>2. DOMAIN Stored \subseteq Name /\ \A n \in DOMAIN Stored : Stored[n] \subseteq Token
  BY StoreAssumption
<1>3. /\ m \in [Name -> Obj \cup {None}] /\ h \in [Obj -> SUBSET Token]
      /\ \A k, n \in Name : m[k] = m[n] /\ m[k] # None => k = n
      /\ \A n \in DOMAIN Stored : m[n] # None /\ h[m[n]] = Stored[n]
  BY <1>1, <1>2, Filled
<1>4. /\ disk \in [Name -> Contents] /\ acked \in [Name -> SUBSET Token]
      /\ \A n \in Name : OnDisk(n) = acked[n]
      /\ \A n \in Name : OnDisk(n) = IF n \in DOMAIN Stored THEN Stored[n] ELSE {}
  BY <1>2, StoreAssumption DEF Init, Contents, OnDisk
<1>5. \A n \in Name : OnDisk(n) \subseteq Mem(n)
  BY <1>1, <1>3, <1>4 DEF Mem
<1>6. Fresh
  <2>1. map \in [Name -> Obj \cup {None}] /\ heap \in [Obj -> SUBSET Token] /\ Separate
    BY <1>1, <1>3 DEF Separate
  <2>2. /\ known = resident /\ dirty = {} /\ dead = {} /\ deleted = {}
        /\ req = [t \in Request |-> NoRequest] /\ evictor = NotEvicting /\ saver = NotSaving
    BY DEF Init
  <2> QED  BY <1>4, <1>5, <2>1, <2>2 DEF Fresh
<1> QED  BY <1>1, <1>3, <1>6

LEMMA RestartFresh ==
    ASSUME Inv, Restart
    PROVE  Fresh' /\ \A n \in Name : disk[n] # None => map'[n] # None
<1>1. PICK files : files = [n \in {m \in Name : disk[m] # None} |-> disk[n]]
  OBVIOUS
<1>2. PICK m, h : m = MapOf(files) /\ h = HeapOf(files) /\ map' = m /\ heap' = h
  BY <1>1 DEF Restart
<1>3. DOMAIN files \subseteq Name /\ \A n \in DOMAIN files : files[n] \subseteq Token
  BY <1>1 DEF Inv, TypeOK, Contents
<1>4. /\ m \in [Name -> Obj \cup {None}] /\ h \in [Obj -> SUBSET Token]
      /\ \A k, n \in Name : m[k] = m[n] /\ m[k] # None => k = n
      /\ \A n \in DOMAIN files : m[n] # None /\ h[m[n]] = files[n]
  BY <1>2, <1>3, Filled
<1>5. /\ disk' = disk /\ deleted' = deleted /\ acked' = [n \in Name |-> acked[n] \cap OnDisk(n)]
      /\ known' = resident' /\ dirty' = {} /\ dead' = {}
      /\ req' = [t \in Request |-> NoRequest] /\ evictor' = NotEvicting /\ saver' = NotSaving
  BY DEF Restart
<1>6. \A n \in Name : OnDisk(n)' = OnDisk(n)
  BY <1>5 DEF OnDisk
<1>7. \A n \in Name : OnDisk(n)' \subseteq Mem(n)'
  BY <1>1, <1>2, <1>4, <1>5 DEF Mem, OnDisk
<1>8. Separate'
  BY <1>2, <1>4 DEF Separate
<1>9. /\ disk' \in [Name -> Contents] /\ deleted' \subseteq Token
      /\ acked' \in [Name -> SUBSET Token] /\ \A n \in Name : acked'[n] \subseteq OnDisk(n)'
  BY <1>5, <1>6 DEF Inv, TypeOK
<1>10. Fresh'
  BY <1>2, <1>4, <1>5, <1>7, <1>8, <1>9 DEF Fresh
<1> QED  BY <1>1, <1>2, <1>4, <1>10

-----------------------------------------------------------------------------
(* What holds as long as no shard is evicted.                               *)

\* Nothing is evicted, so nothing is on its way out or on its way in.
LEMMA NothingEvicted ==
    ASSUME Inv, Evictable = {}
    PROVE  ~Evict /\ \A t \in Request : ~Load(t) /\ ~MarkLoaded(t)
<1>1. evictor.pc = "idle"
  BY DEF Inv, TypeOK, NotEvicting
<1>2. ~Evict
  BY <1>1 DEF Evict, Candidates, CheckDirty, EvictRead, EvictRename, Clean, Drop, MarkEvicted
<1>3. \A t \in Request : req[t].pc \in Pcs
  BY DEF Inv, TypeOK, Fits, Reqs
<1>4. \A t \in Request : ~Load(t) /\ ~MarkLoaded(t)
  BY <1>3 DEF Load, MarkLoaded, Pcs, Writing, Deleting, Viewing
<1> QED  BY <1>2, <1>4

\* Every step of the hot server, and the ones that touch a file.
LEMMA Steps ==
    ASSUME Inv, Evictable = {}, [Next]_vars
    PROVE  /\ Inv'
           /\ disk' = disk \/ SaveRename \/ RemoveStale
<1>1. ASSUME NEW t \in Request, NEW w \in Workload, Begin(t, w[1], w[2])
      PROVE  Inv' /\ disk' = disk
  BY <1>1, BeginInv DEF Begin
<1>2. ASSUME NEW t \in Request, Step(t)
      PROVE  Inv' /\ disk' = disk
  <2>1. CASE Resident(t)
    BY <2>1, ResidentInv DEF Resident
  <2>2. CASE Catalogued(t)
    BY <2>2, CataloguedInv DEF Catalogued
  <2>3. CASE Evicted(t)
    BY <2>3, EvictedInv DEF Evicted
  <2>4. CASE Create(t)
    BY <2>4, CreateInv DEF Create
  <2>5. CASE Register(t)
    BY <2>5, RegisterInv DEF Register
  <2>6. CASE Record(t)
    BY <2>6, RecordInv DEF Record
  <2>7. CASE Mark(t)
    BY <2>7, MarkInv DEF Mark
  <2>8. CASE Return(t)
    BY <2>8, ReturnInv DEF Return
  <2>9. CASE Answer(t)
    BY <2>9, AnswerInv DEF Answer
  <2>10. CASE Release(t)
    BY <2>10, ReleaseInv DEF Release
  <2>11. CASE Remove(t)
    BY <2>11, RemoveInv DEF Remove
  <2>12. CASE MarkRemoved(t)
    BY <2>12, MarkRemovedInv DEF MarkRemoved
  <2>13. CASE Unlist(t)
    BY <2>13, UnlistInv DEF Unlist
  <2> QED  BY <1>2, <2>1, <2>2, <2>3, <2>4, <2>5, <2>6, <2>7, <2>8, <2>9, <2>10, <2>11, <2>12,
              <2>13, NothingEvicted DEF Step
<1>3. CASE Save
  <2>1. CASE Present
    BY <2>1, PresentInv DEF Present
  <2>2. CASE TakeDirty
    BY <2>2, TakeDirtyInv DEF TakeDirty
  <2>3. ASSUME NEW s \in Shard, Handles(s)
        PROVE  Inv' /\ disk' = disk
    BY <2>3, HandlesInv DEF Handles
  <2>4. CASE SaveRead
    BY <2>4, SaveReadInv DEF SaveRead
  <2>5. CASE SaveRename \/ RemoveStale
    BY <2>5, SaveRenameInv, RemoveStaleInv
  <2>6. CASE Sleep
    BY <2>6, SleepInv DEF Sleep
  <2> QED  BY <1>3, <2>1, <2>2, <2>3, <2>4, <2>5, <2>6 DEF Save
<1>4. CASE Restart
  BY <1>4, RestartFresh, FreshAgain DEF Restart
<1>5. CASE UNCHANGED vars
  <2>1. Held' = Held
    BY <1>5 DEF vars, Held, Taken, Reading
  <2>2. Grows
    BY <1>5, <2>1 DEF vars, Grows, Inv, TypeOK, Deaths
  <2>3. SaverOK' /\ Saved'
    BY <1>5, <2>2, SaverStays DEF vars
  <2>4. \A n \in Name : acked'[n] \cup OnDisk(n)' \subseteq deleted' \cup Mem(n)'
    BY <1>5 DEF vars, Inv, Complete, OnDisk, Mem
  <2>5. /\ req' = [u \in Request |-> req'[u]] /\ \A u \in Request : req'[u] = req[u]
        /\ disk' \in [Name -> Contents] /\ acked' \in [Name -> SUBSET Token]
        /\ \A n \in Name : acked[n] \subseteq acked'[n]
    BY <1>5 DEF vars, Inv, TypeOK
  <2>6. Inv'
    BY <2>2, <2>3, <2>4, <2>5, Growth
  <2> QED  BY <1>5, <2>6 DEF vars
<1> QED  BY <1>1, <1>2, <1>3, <1>4, <1>5, NothingEvicted DEF Next

\* With every shard hot, memory, the objects requests hold, the save under way and the
\* files stay consistent with each other, through deletions and restarts.
THEOREM HotIsConsistent ==
    ASSUME Evictable = {}
    PROVE  Spec => []Inv
<1>1. Inv /\ [Next]_vars => Inv'
  BY Steps
<1>2. Init => Inv
  BY InitFresh, FreshInv
<1> QED  BY <1>1, <1>2, PTL DEF Spec

\* With every shard hot, a read answers with every sighting acknowledged before it
\* began, whatever writes, deletions, saves and restarts run beside it.
THEOREM HotReadsSeeWrites ==
    ASSUME Evictable = {}
    PROVE  Spec => []ReadsSeeWrites
<1>1. Inv => ReadsSeeWrites
  <2> SUFFICES ASSUME Inv, NEW t \in Request
               PROVE  /\ req[t].pc = "view" => req[t].expect \ deleted \subseteq heap[req[t].obj]
                      /\ req[t].pc = "absent" => req[t].expect \subseteq deleted
    BY DEF ReadsSeeWrites
  <2>1. PICK r : r = req[t] /\ Fits(r) /\ Sound(r)
    BY DEF Inv, TypeOK
  <2>2. r.pc = "absent" => r.expect \subseteq deleted
    BY <2>1 DEF Sound, Fits, Viewing
  <2>3. ASSUME r.pc = "view", r.obj \notin dead
        PROVE  r.expect \ deleted \subseteq heap[r.obj]
    <3>1. r.obj \in Obj /\ r.name \in Name /\ r.op = "read" /\ r.obj = map[r.name]
      BY <2>1, <2>3 DEF Fits, Viewing, Holding, Sound
    <3>2. r.expect \subseteq acked[r.name] /\ acked[r.name] \subseteq deleted \cup Mem(r.name)
      BY <2>1, <2>3, <3>1 DEF Sound, Inv, Complete
    <3>3. Mem(r.name) \subseteq heap[r.obj]
      BY <3>1 DEF Mem
    <3> QED  BY <3>2, <3>3
  <2>4. r.pc = "view" /\ r.obj \in dead => r.expect \subseteq deleted
    BY <2>1 DEF Sound
  <2> QED  BY <2>1, <2>2, <2>3, <2>4
<1> QED  BY <1>1, HotIsConsistent, PTL

\* With every shard hot, a request works on the object of the map or on one that a
\* deletion took away while it was held.
THEOREM HotNeverOrphaned ==
    ASSUME Evictable = {}
    PROVE  Spec => []NeverOrphaned
<1>1. Inv => NeverOrphaned
  BY DEF Inv, Sound, Holding, NeverOrphaned
<1> QED  BY <1>1, HotIsConsistent, PTL

\* With every shard hot, no save takes an acknowledged sighting out of a file, not the
\* one that overwrites it and not the one that removes a shard's file.
THEOREM HotSavedStays ==
    ASSUME Evictable = {}
    PROVE  Spec => SavedStays
<1>1. Inv /\ [Next]_vars =>
         [\A n \in Name : OnDisk(n) \cap acked[n] \subseteq OnDisk(n)' \cup deleted']_vars
  <2> SUFFICES ASSUME Inv, [Next]_vars, NEW n \in Name
               PROVE  OnDisk(n) \cap acked[n] \subseteq OnDisk(n)' \cup deleted'
    OBVIOUS
  <2>1. CASE disk' = disk
    BY <2>1 DEF OnDisk
  <2>2. CASE SaveRename
    BY <2>2, SaveRenameInv DEF SaveRename, ghosts
  <2>3. CASE RemoveStale
    BY <2>3, RemoveStaleInv DEF RemoveStale, ghosts
  <2> QED  BY <2>1, <2>2, <2>3, Steps
<1> QED  BY <1>1, HotIsConsistent, PTL DEF Spec, SavedStays

-----------------------------------------------------------------------------
(* A save puts in the files everything acknowledged before it began, where *)
(* every shard always keeps a namespace and no file fails to be written.   *)
(* Without the second, a failed save leaves the shards after the one that  *)
(* failed without a mark; without the first, a shard that has no namespace *)
(* when the save begins and a sighting when it takes the marks is taken    *)
(* and not written.                                                        *)

\* Every shard keeps a namespace: one of the files at the first start, that nobody deletes.
Anchor == {n \in DOMAIN Stored : <<"delete", n>> \notin Workload}
Anchored == \A s \in Shard : \E n \in Anchor : ShardOf[n] = s

\* What the save under way will write of a namespace.
Coming(n) == IF saver.pc = "read" /\ ShardOf[n] = saver.cur THEN Seen(n)
             ELSE IF saver.pc = "rename" /\ ShardOf[n] = saver.cur THEN Copied(n) ELSE {}

\* The sightings of a namespace whose write is over but for its return.
Over(n) == acked[n] \cup {req[t].tok : t \in {u \in Request : req[u].pc = "return" /\ req[u].name = n}}

Pending(n) == \/ ShardOf[n] \in dirty \cup saver.todo
              \/ Over(n) \subseteq deleted \cup OnDisk(n) \cup Coming(n)

InTime ==
    /\ \A n \in Anchor : map[n] # None /\ disk[n] # None
    /\ saver.pc = "read" => \A n \in Anchor \cap InShard(saver.cur) : saver.objs[n] # None
    /\ saver.pc = "rename" => \A n \in Anchor \cap InShard(saver.cur) : saver.content[n] # None
    /\ saver.pc # "idle" => saver.present = Shard
    /\ \A n \in Name : Pending(n)
    /\ saver.pc = "take" => saver.due \subseteq UNION {acked[n] : n \in Name}
    /\ saver.pc \in {"write", "read", "rename", "done"} =>
          \A x \in saver.due \ deleted :
              \E n \in Name : \/ x \in OnDisk(n) \cup Coming(n)
                              \/ ShardOf[n] \in saver.todo /\ x \in acked[n]

-----------------------------------------------------------------------------
(* Requests beside a save.                                                *)

\* What requests do to what a save depends on.
Yields(t) ==
    /\ saver' = saver /\ disk' = disk
    /\ deleted \subseteq deleted' /\ dirty \subseteq dirty'
    /\ \A n \in Name : acked[n] \subseteq acked'[n]
    /\ \A o \in Reading \cap Obj : heap[o] \subseteq heap'[o]
    /\ \A n \in Anchor : map'[n] # None
    /\ \A n \in Name : Over(n)' \subseteq Over(n) \/ ShardOf[n] \in dirty'

LEMMA Yielding ==
    ASSUME Inv, InTime, NEW t \in Request, Yields(t)
    PROVE  InTime'
<1>1. PICK x : x = saver /\ x = saver'
  BY DEF Yields
<1>2. \A n \in Name : OnDisk(n)' = OnDisk(n) /\ Copied(n)' = Copied(n)
  BY DEF Yields, OnDisk, Copied
<1>3. \A n \in Name : Coming(n) \subseteq Coming(n)'
  <2> SUFFICES ASSUME NEW n \in Name PROVE Coming(n) \subseteq Coming(n)'
    OBVIOUS
  <2>1. CASE x.pc = "read" /\ ShardOf[n] = x.cur
    <3>1. n \in InShard(x.cur) /\ x.objs \in [InShard(x.cur) -> Obj \cup {None}]
      BY <1>1, <2>1 DEF InShard, Inv, TypeOK, SaverOK
    <3>2. x.objs[n] # None => x.objs[n] \in Reading \cap Obj
      BY <1>1, <3>1 DEF Reading
    <3>3. Seen(n) \subseteq Seen(n)'
      BY <1>1, <3>2 DEF Seen, Yields
    <3> QED  BY <1>1, <2>1, <3>3 DEF Coming
  <2>2. CASE ~(x.pc = "read" /\ ShardOf[n] = x.cur)
    BY <1>1, <1>2, <2>2 DEF Coming
  <2> QED  BY <2>1, <2>2
<1>4. \A n \in Name : Pending(n)'
  BY <1>1, <1>2, <1>3 DEF InTime, Pending, Yields
<1>5. saver'.pc = "take" => saver'.due \subseteq UNION {acked'[n] : n \in Name}
  <2>1. UNION {acked[n] : n \in Name} \subseteq UNION {acked'[n] : n \in Name}
    BY DEF Yields
  <2>2. x.pc = "take" => x.due \subseteq UNION {acked[n] : n \in Name}
    BY <1>1 DEF InTime
  <2> QED  BY <1>1, <2>1, <2>2
<1>6. saver'.pc \in {"write", "read", "rename", "done"} =>
          \A y \in saver'.due \ deleted' :
              \E n \in Name : \/ y \in OnDisk(n)' \cup Coming(n)'
                              \/ ShardOf[n] \in saver'.todo /\ y \in acked'[n]
  BY <1>1, <1>2, <1>3 DEF InTime, Yields
<1>7. \A n \in Anchor : map'[n] # None /\ disk'[n] # None
  BY DEF InTime, Yields
<1>8. /\ saver'.pc = "read" => \A n \in Anchor \cap InShard(saver'.cur) : saver'.objs[n] # None
      /\ saver'.pc = "rename" => \A n \in Anchor \cap InShard(saver'.cur) : saver'.content[n] # None
      /\ saver'.pc # "idle" => saver'.present = Shard
  BY <1>1 DEF InTime
<1> QED  BY <1>4, <1>5, <1>6, <1>7, <1>8 DEF InTime, InShard

\* A step that ends up anywhere but at its return adds nothing.
Elsewhere(t) == /\ req'[t].pc # "return"
                /\ \A u \in Request : u # t => req'[u] = req[u]

LEMMA MovesOn ==
    ASSUME Inv, InTime, NEW t \in Request, Elsewhere(t),
           saver' = saver, disk' = disk, acked' = acked, deleted \subseteq deleted',
           dirty \subseteq dirty', \A n \in Anchor : map'[n] # None,
           \A o \in Reading \cap Obj : heap[o] \subseteq heap'[o]
    PROVE  InTime'
<1>1. \A n \in Name : Over(n)' \subseteq Over(n)
  BY DEF Over, Elsewhere
<1> QED  BY <1>1, Yielding DEF Yields

LEMMA Goers ==
    ASSUME Inv, NEW t \in Request, NEW p \in Pcs, p # "return", req' = Goto(t, p)
    PROVE  Elsewhere(t)
<1>1. PICK s \in Reqs : req' = [req EXCEPT ![t] = s] /\ s.pc = p
  BY Goes
<1> QED  BY <1>1 DEF Elsewhere, Inv, TypeOK

LEMMA Takers ==
    ASSUME Inv, NEW t \in Request, NEW p \in Pcs, p # "return", NEW o \in Obj \cup {None},
           Taking(t, o, p)
    PROVE  Elsewhere(t)
<1>1. PICK s \in Reqs : req' = [req EXCEPT ![t] = s] /\ s.pc = p
  BY Takes
<1> QED  BY <1>1 DEF Elsewhere, Inv, TypeOK

LEMMA Leavers ==
    ASSUME Inv, NEW t \in Request, req' = [req EXCEPT ![t] = NoRequest]
    PROVE  Elsewhere(t)
  BY NoneIs DEF Elsewhere, Inv, TypeOK

\* A step that only moves the request, as far as a save is concerned.
LEMMA Passing ==
    ASSUME Inv, InTime, NEW t \in Request, Elsewhere(t), dirty \subseteq dirty',
           UNCHANGED <<map, heap, saver, disk, acked, deleted>>
    PROVE  InTime'
  BY MovesOn DEF InTime

LEMMA BeginInTime ==
    ASSUME Inv, InTime, NEW t \in Request, NEW w \in Workload, Begin(t, w[1], w[2])
    PROVE  InTime'
<1>1. PICK tok, e, s : /\ s = [NoRequest EXCEPT !.pc = "lookup", !.op = w[1], !.name = w[2],
                                                !.tok = tok, !.expect = e]
                       /\ req' = [req EXCEPT ![t] = s]
  BY DEF Begin
<1>2. s.pc = "lookup"
  BY <1>1 DEF NoRequest
<1>3. Elsewhere(t)
  BY <1>1, <1>2 DEF Elsewhere, Inv, TypeOK
<1> QED  BY <1>3, Passing DEF Begin, memory, workers

LEMMA NotFoundInTime ==
    ASSUME Inv, NEW t \in Request, req[t].pc # "idle", NotFound(t)
    PROVE  Elsewhere(t)
<1>1. req[t].op \in {"write", "read", "delete"}
  BY DEF Inv, TypeOK, Fits, Reqs
<1>2. \/ req' = Goto(t, "evicted") \/ req' = Goto(t, "absent")
      \/ req' = [req EXCEPT ![t] = NoRequest]
  BY <1>1 DEF NotFound
<1>3. "evicted" \in Pcs /\ "absent" \in Pcs
  BY DEF Pcs, Writing, Viewing
<1> QED  BY <1>2, <1>3, Goers, Leavers

LEMMA ResidentInTime ==
    ASSUME Inv, InTime, NEW t \in Request, Resident(t)
    PROVE  InTime'
<1>1. Elsewhere(t)
  <2>1. PICK r \in Reqs : r = req[t] /\ Fits(r)
    BY DEF Inv, TypeOK, Fits
  <2>2. r.pc = "lookup" /\ r.pc # "relook" /\ r.name \in Name /\ r.op \in {"write", "read", "delete"}
    BY <2>1 DEF Resident, Reqs, Pcs, Writing, Deleting, Viewing, Fits
  <2>3. CASE map[r.name] = None
    <3>1. req' = Goto(t, "catalogued") /\ "catalogued" \in Pcs
      BY <2>1, <2>2, <2>3 DEF Resident, Pcs
    <3> QED  BY <3>1, Goers
  <2>4. CASE map[r.name] # None
    <3>1. PICK o \in Obj \cup {None} : o = map[r.name]
      BY <2>2 DEF Inv, TypeOK
    <3>2. Found(t, o)
      BY <2>1, <2>4, <3>1 DEF Resident
    <3>3. PICK p \in Pcs : Taking(t, o, p) /\ p # "return"
      BY <2>1, <2>2, <3>2 DEF Found, Taking, Pcs, Writing, Viewing, Deleting
    <3> QED  BY <3>3, Takers
  <2> QED  BY <2>3, <2>4
<1> QED  BY <1>1, Passing DEF Resident, memory, workers, ghosts

LEMMA PassingSteps ==
    ASSUME Inv, InTime, NEW t \in Request,
           Catalogued(t) \/ Evicted(t) \/ Register(t) \/ MarkRemoved(t) \/ Unlist(t)
    PROVE  InTime'
<1>1. CASE Catalogued(t)
  <2>1. NotFound(t) /\ req[t].pc # "idle"
    BY <1>1 DEF Catalogued, Inv, TypeOK
  <2> QED  BY <1>1, <2>1, NotFoundInTime, Passing DEF Catalogued, memory, workers, ghosts
<1>2. CASE Evicted(t)
  <2>1. req' = Goto(t, "create") /\ "create" \in Pcs
    BY <1>2 DEF Evicted, Inv, TypeOK, Pcs, Writing
  <2> QED  BY <1>2, <2>1, Goers, Passing DEF Evicted, memory, workers, ghosts
<1>3. CASE Register(t)
  <2>1. req' = Goto(t, "record") /\ "record" \in Pcs
    BY <1>3 DEF Register, Pcs, Writing
  <2> QED  BY <1>3, <2>1, Goers, Passing DEF Register, memory, workers, ghosts
<1>4. CASE MarkRemoved(t)
  <2>1. req' = Goto(t, "unlist") /\ "unlist" \in Pcs
    BY <1>4 DEF MarkRemoved, Pcs, Deleting
  <2> QED  BY <1>4, <2>1, Goers, Passing DEF MarkRemoved, memory, workers, ghosts
<1>5. CASE Unlist(t)
  BY <1>5, Leavers, Passing DEF Unlist, memory, workers, ghosts
<1> QED  BY <1>1, <1>2, <1>3, <1>4, <1>5

LEMMA MarkInTime ==
    ASSUME Inv, InTime, NEW t \in Request, Mark(t)
    PROVE  InTime'
<1>1. PICK s \in Reqs : req' = [req EXCEPT ![t] = s] /\ s.pc = "return" /\ s.name = req[t].name
  <2>1. req' = Goto(t, "return") /\ "return" \in Pcs
    BY DEF Mark, Pcs, Writing
  <2> QED  BY <2>1, Goes
<1>2. req'[t] = s /\ \A u \in Request : u # t => req'[u] = req[u]
  BY <1>1 DEF Inv, TypeOK
<1>3. /\ dirty' = dirty \cup {ShardOf[s.name]}
      /\ UNCHANGED <<map, heap, saver, disk, acked, deleted>>
  BY <1>1 DEF Mark, memory, workers, ghosts
<1>4. \A n \in Name : Over(n)' \subseteq Over(n) \/ ShardOf[n] \in dirty'
  <2> SUFFICES ASSUME NEW n \in Name, n # s.name PROVE Over(n)' \subseteq Over(n)
    BY <1>3
  <2> QED  BY <1>2, <1>3 DEF Over
<1> QED  BY <1>3, <1>4, Yielding DEF Yields, InTime

\* A request drops its handle; what the snapshot thread reads is held by that thread.
LEMMA ReadingStays ==
    ASSUME Inv, NEW t \in Request, LetGo(t)
    PROVE  \A o \in Reading \cap Obj : heap[o] \subseteq heap'[o]
  BY DEF LetGo, Kept

LEMMA ReturnInTime ==
    ASSUME Inv, InTime, NEW t \in Request, Return(t)
    PROVE  InTime'
<1>1. req'[t] = NoRequest /\ \A u \in Request : u # t => req'[u] = req[u]
  BY DEF Return, Inv, TypeOK
<1>2. PICK r : r = req[t] /\ r.pc = "return" /\ r.name \in Name
  BY DEF Return, Inv, TypeOK, Fits
<1>3. acked' = [acked EXCEPT ![r.name] = @ \cup {r.tok}]
  BY <1>2 DEF Return
<1>4. \A n \in Name : /\ acked[n] \subseteq acked'[n]
                      /\ acked'[n] \subseteq acked[n] \cup (IF n = r.name THEN {r.tok} ELSE {})
  BY <1>2, <1>3 DEF Inv, TypeOK
<1>5. \A n \in Name : Over(n)' \subseteq Over(n)
  BY <1>1, <1>2, <1>4, NoneIs DEF Over
<1>6. \A o \in Reading \cap Obj : heap[o] \subseteq heap'[o]
  BY ReadingStays DEF Return
<1> QED  BY <1>4, <1>5, <1>6, Yielding DEF Yields, Return, workers, InTime

LEMMA DroppingSteps ==
    ASSUME Inv, InTime, NEW t \in Request, Answer(t) \/ Release(t)
    PROVE  InTime'
<1>1. Elsewhere(t)
  <2>1. CASE Answer(t)
    BY <2>1, Leavers DEF Answer
  <2>2. CASE Release(t)
    <3>1. Taking(t, None, "remove") /\ "remove" \in Pcs
      BY <2>2 DEF Release, Taking, Pcs, Deleting
    <3> QED  BY <3>1, Takers
  <2> QED  BY <2>1, <2>2
<1>2. \A o \in Reading \cap Obj : heap[o] \subseteq heap'[o]
  BY ReadingStays DEF Answer, Release
<1>3. UNCHANGED <<map, dirty, disk, saver, acked, deleted>>
  BY DEF Answer, Release, workers
<1> QED  BY <1>1, <1>2, <1>3, MovesOn DEF InTime

LEMMA RecordInTime ==
    ASSUME Inv, InTime, NEW t \in Request, Record(t)
    PROVE  InTime'
<1>1. Elsewhere(t)
  BY Goers DEF Record, Pcs, Writing
<1>2. \A o \in Obj : heap[o] \subseteq heap'[o]
  BY DEF Record, Inv, TypeOK
<1>3. UNCHANGED <<map, dirty, disk, saver, acked>> /\ deleted \subseteq deleted'
  BY DEF Record, workers
<1> QED  BY <1>1, <1>2, <1>3, MovesOn DEF InTime

LEMMA CreateInTime ==
    ASSUME Inv, InTime, NEW t \in Request, Create(t)
    PROVE  InTime'
<1>1. PICK n \in Name : n = req[t].name
  BY DEF Create, Inv, TypeOK, Fits
<1>2. PICK o : /\ o = IF map[n] = None THEN Place({n})[n] ELSE map[n]
               /\ map' = [map EXCEPT ![n] = o] /\ Taking(t, o, "register")
  BY <1>1 DEF Create, Taking
<1>3. o \in Obj \cup {None} /\ "register" \in Pcs
  BY <1>2, Allocated DEF Inv, TypeOK, Free, Pcs, Writing
<1>4. Elsewhere(t)
  BY <1>2, <1>3, Takers
<1>5. \A m \in Anchor : map'[m] # None
  <2>1. \A m \in Anchor : m \in Name /\ map[m] # None
    BY StoreAssumption DEF InTime, Anchor
  <2> QED  BY <1>2, <2>1 DEF Inv, TypeOK
<1>6. UNCHANGED <<heap, dirty, disk, saver, acked, deleted>>
  BY DEF Create, workers, ghosts
<1> QED  BY <1>4, <1>5, <1>6, MovesOn

\* Nobody deletes an anchor.
LEMMA RemoveInTime ==
    ASSUME Inv, InTime, NEW t \in Request, Remove(t)
    PROVE  InTime'
<1>1. PICK r \in Reqs : r = req[t] /\ Fits(r) /\ r.pc = "remove"
  BY DEF Inv, TypeOK, Fits, Remove
<1>2. r.name \in Name /\ r.name \notin Anchor
  BY <1>1 DEF Fits, Deleting, Anchor
<1>3. UNCHANGED <<dirty, disk, saver, acked>>
  BY DEF Remove, workers
<1>4. CASE map[r.name] = None
  <2>1. UNCHANGED <<map, heap, deleted>> /\ req' = [req EXCEPT ![t] = NoRequest]
    BY <1>1, <1>4 DEF Remove, memory
  <2> QED  BY <1>3, <2>1, Leavers, Passing
<1>5. CASE map[r.name] # None
  <2>1. /\ req' = Goto(t, "mark_removed") /\ "mark_removed" \in Pcs
        /\ map' = [map EXCEPT ![r.name] = None] /\ deleted \subseteq deleted'
        /\ heap' = Kept(heap, Held \cup (Mapped(map) \ {map[r.name]}))
    BY <1>1, <1>5 DEF Remove, Pcs, Deleting
  <2>2. Elsewhere(t)
    BY <2>1, Goers
  <2>3. \A o \in Reading \cap Obj : heap[o] \subseteq heap'[o]
    BY <2>1 DEF Kept, Held
  <2>4. \A n \in Anchor : map'[n] # None
    <3>1. \A n \in Anchor : n \in Name /\ map[n] # None
      BY StoreAssumption DEF InTime, Anchor
    <3> QED  BY <1>2, <2>1, <3>1 DEF Inv, TypeOK
  <2> QED  BY <1>3, <2>1, <2>2, <2>3, <2>4, MovesOn
<1> QED  BY <1>4, <1>5

-----------------------------------------------------------------------------
(* The steps of the save, restarts, and the theorem.                       *)

\* What is over is in memory, deletions apart.
LEMMA OverIs ==
    ASSUME Inv, NEW n \in Name
    PROVE  Over(n) \subseteq deleted \cup Mem(n)
<1>1. acked[n] \subseteq deleted \cup Mem(n)
  BY DEF Inv, Complete
<1>2. ASSUME NEW u \in Request, req[u].pc = "return", req[u].name = n
      PROVE  req[u].tok \in deleted \cup Mem(n)
  <2>1. PICK r : r = req[u] /\ Fits(r) /\ Sound(r)
    BY DEF Inv, TypeOK
  <2>2. r.tok \in heap[r.obj] /\ r.obj \in dead \cup {map[n]} /\ r.obj \in Obj
    BY <1>2, <2>1 DEF Sound, Fits, Holding
  <2>3. CASE r.obj \in dead
    BY <2>1, <2>2, <2>3 DEF Inv, Deaths
  <2>4. CASE r.obj = map[n]
    BY <2>1, <2>2, <2>4, StoreAssumption DEF Mem
  <2> QED  BY <2>2, <2>3, <2>4
<1> QED  BY <1>1, <1>2 DEF Over

\* The steps of the snapshot thread leave requests, and what they did, alone.
Alone == UNCHANGED <<req, acked, deleted, map>>

LEMMA OverSame ==
    ASSUME Alone
    PROVE  \A n \in Name : Over(n)' = Over(n)
  BY DEF Alone, Over

LEMMA PresentInTime ==
    ASSUME Inv, InTime, Anchored, Present
    PROVE  InTime'
<1>1. /\ saver.pc = "idle" /\ saver'.pc = "take" /\ saver'.todo = saver.todo
      /\ saver'.present = {ShardOf[n] : n \in {m \in Name : map[m] # None}}
      /\ saver'.due = UNION {acked[n] : n \in Name}
  BY DEF Present, Inv, TypeOK, SaverOK
<1>2. Alone /\ dirty' = dirty /\ disk' = disk
  BY DEF Present, Alone, memory, ghosts
<1>3. saver'.present = Shard
  <2>1. \A n \in Anchor : n \in Name /\ map[n] # None
    BY StoreAssumption DEF InTime, Anchor
  <2>2. \A s \in Shard : s \in saver'.present
    BY <1>1, <2>1 DEF Anchored
  <2>3. saver'.present \subseteq Shard
    BY <1>1, StoreAssumption
  <2> QED  BY <2>2, <2>3
<1>4. \A n \in Name : Coming(n) = {} /\ Coming(n)' = {} /\ OnDisk(n)' = OnDisk(n)
  BY <1>1, <1>2 DEF Coming, OnDisk
<1>5. \A n \in Name : Pending(n)'
  BY <1>1, <1>2, <1>4, OverSame DEF InTime, Pending, Alone
<1> QED  BY <1>1, <1>2, <1>3, <1>5 DEF InTime, Alone

LEMMA TakeDirtyInTime ==
    ASSUME Inv, InTime, TakeDirty
    PROVE  InTime'
<1>1. /\ saver.pc = "take" /\ saver'.pc = "write" /\ saver'.todo = dirty \cap saver.present
      /\ saver'.present = saver.present /\ saver'.due = saver.due /\ saver.todo = {}
  BY DEF TakeDirty, Inv, TypeOK, SaverOK
<1>2. Alone /\ dirty' = {} /\ disk' = disk
  BY DEF TakeDirty, Alone, memory, ghosts
<1>3. saver'.todo = dirty /\ saver'.present = Shard
  BY <1>1 DEF InTime, Inv, TypeOK
<1>4. \A n \in Name : Coming(n) = {} /\ Coming(n)' = {} /\ OnDisk(n)' = OnDisk(n)
  BY <1>1, <1>2 DEF Coming, OnDisk
<1>5. \A n \in Name : Pending(n)'
  BY <1>1, <1>2, <1>3, <1>4, OverSame DEF InTime, Pending, Alone
<1>6. \A y \in saver'.due \ deleted' :
          \E n \in Name : \/ y \in OnDisk(n)' \cup Coming(n)'
                          \/ ShardOf[n] \in saver'.todo /\ y \in acked'[n]
  <2> SUFFICES ASSUME NEW y \in saver'.due \ deleted'
               PROVE  \E n \in Name : \/ y \in OnDisk(n)' \cup Coming(n)'
                                      \/ ShardOf[n] \in saver'.todo /\ y \in acked'[n]
    OBVIOUS
  <2>1. PICK n \in Name : y \in acked[n]
    BY <1>1 DEF InTime
  <2>2. y \in Over(n) /\ y \notin deleted /\ y \in acked'[n]
    BY <1>2, <2>1 DEF Over, Alone
  <2>3. ShardOf[n] \in dirty \/ y \in OnDisk(n)
    BY <1>1, <1>4, <2>2 DEF InTime, Pending
  <2> QED  BY <1>3, <1>4, <2>2, <2>3
<1> QED  BY <1>1, <1>2, <1>3, <1>5, <1>6 DEF InTime, Alone

LEMMA HandlesInTime ==
    ASSUME Inv, InTime, NEW s \in Shard, Handles(s)
    PROVE  InTime'
<1>1. /\ saver.pc = "write" /\ saver'.pc = "read" /\ saver'.todo = saver.todo \ {s}
      /\ saver'.present = saver.present /\ saver'.due = saver.due
      /\ saver'.cur = s /\ saver'.objs = [n \in InShard(s) |-> map[n]]
  BY DEF Handles, Inv, TypeOK, SaverOK
<1>2. Alone /\ dirty' = dirty /\ disk' = disk /\ heap' = heap
  BY DEF Handles, Alone, memory, ghosts
<1>3. \A n \in Name : /\ Coming(n) = {} /\ OnDisk(n)' = OnDisk(n)
                      /\ ShardOf[n] = s => Coming(n)' = Mem(n)
  <2> SUFFICES ASSUME NEW n \in Name
               PROVE  /\ Coming(n) = {} /\ OnDisk(n)' = OnDisk(n)
                      /\ ShardOf[n] = s => Coming(n)' = Mem(n)
    OBVIOUS
  <2>1. Coming(n) = {} /\ OnDisk(n)' = OnDisk(n)
    BY <1>1, <1>2 DEF Coming, OnDisk
  <2>2. ASSUME ShardOf[n] = s PROVE Coming(n)' = Mem(n)
    <3>1. n \in InShard(s) /\ saver'.objs[n] = map[n]
      BY <1>1, <2>2 DEF InShard
    <3>2. Seen(n)' = Mem(n)
      BY <1>2, <3>1 DEF Seen, Mem
    <3> QED  BY <1>1, <2>2, <3>2 DEF Coming
  <2> QED  BY <2>1, <2>2
<1>4. \A n \in Name : Over(n) \subseteq deleted \cup Mem(n)
  BY OverIs
<1>5. \A n \in Name : Pending(n)'
  <2> SUFFICES ASSUME NEW n \in Name PROVE Pending(n)'
    OBVIOUS
  <2>1. CASE ShardOf[n] = s
    BY <1>2, <1>3, <1>4, <2>1, OverSame DEF Pending, Alone
  <2>2. CASE ShardOf[n] # s
    BY <1>1, <1>2, <1>3, <2>2, OverSame DEF InTime, Pending, Alone
  <2> QED  BY <2>1, <2>2
<1>6. \A y \in saver'.due \ deleted' :
          \E n \in Name : \/ y \in OnDisk(n)' \cup Coming(n)'
                          \/ ShardOf[n] \in saver'.todo /\ y \in acked'[n]
  <2> SUFFICES ASSUME NEW y \in saver'.due \ deleted'
               PROVE  \E n \in Name : \/ y \in OnDisk(n)' \cup Coming(n)'
                                      \/ ShardOf[n] \in saver'.todo /\ y \in acked'[n]
    OBVIOUS
  <2>1. PICK n \in Name : y \in OnDisk(n) \/ (ShardOf[n] \in saver.todo /\ y \in acked[n])
    BY <1>1, <1>2, <1>3 DEF InTime, Alone
  <2>2. y \in acked[n] => y \in Mem(n)
    BY <1>2, <1>4 DEF Over, Alone
  <2> QED  BY <1>1, <1>2, <1>3, <2>1, <2>2 DEF Alone
<1>7. \A n \in Anchor \cap InShard(s) : saver'.objs[n] # None
  BY <1>1 DEF InTime
<1> QED  BY <1>1, <1>2, <1>5, <1>6, <1>7 DEF InTime, Alone, InShard

LEMMA SaveReadInTime ==
    ASSUME Inv, InTime, SaveRead
    PROVE  InTime'
<1>1. PICK x : /\ x = saver /\ x.pc = "read"
               /\ x.objs \in [InShard(x.cur) -> Obj \cup {None}]
  BY DEF SaveRead, Inv, TypeOK, SaverOK
<1>2. /\ saver'.pc = "rename" /\ saver'.todo = x.todo /\ saver'.cur = x.cur
      /\ saver'.present = x.present /\ saver'.due = x.due
      /\ saver'.content = [n \in DOMAIN x.objs |-> IF x.objs[n] = None THEN None ELSE heap[x.objs[n]]]
  BY <1>1 DEF SaveRead, Inv, TypeOK, SaverOK
<1>3. Alone /\ dirty' = dirty /\ disk' = disk
  BY DEF SaveRead, Alone
<1>4. \A o \in Obj : heap[o] # None
  BY StoreAssumption DEF Inv, TypeOK
<1>5. \A n \in Name : Coming(n)' = Coming(n) /\ OnDisk(n)' = OnDisk(n)
  <2> SUFFICES ASSUME NEW n \in Name PROVE Coming(n)' = Coming(n) /\ OnDisk(n)' = OnDisk(n)
    OBVIOUS
  <2>1. OnDisk(n)' = OnDisk(n)
    BY <1>3 DEF OnDisk
  <2>2. CASE ShardOf[n] = x.cur
    <3>1. n \in DOMAIN x.objs /\ x.objs[n] \in Obj \cup {None}
      BY <1>1, <2>2 DEF InShard
    <3>2. Copied(n)' = Seen(n)
      BY <1>1, <1>2, <1>4, <3>1 DEF Copied, Seen
    <3> QED  BY <1>1, <1>2, <2>1, <2>2, <3>2 DEF Coming
  <2>3. CASE ShardOf[n] # x.cur
    BY <1>1, <1>2, <2>1, <2>3 DEF Coming
  <2> QED  BY <2>2, <2>3
<1>6. \A n \in Name : Pending(n)'
  BY <1>1, <1>2, <1>3, <1>5, OverSame DEF InTime, Pending, Alone
<1>7. \A y \in saver'.due \ deleted' :
          \E n \in Name : \/ y \in OnDisk(n)' \cup Coming(n)'
                          \/ ShardOf[n] \in saver'.todo /\ y \in acked'[n]
  BY <1>1, <1>2, <1>3, <1>5 DEF InTime, Alone
<1>8. \A n \in Anchor \cap InShard(x.cur) : saver'.content[n] # None
  BY <1>1, <1>2, <1>4 DEF InTime
<1>9. saver'.present = Shard
  BY <1>1, <1>2 DEF InTime
<1> QED  BY <1>2, <1>3, <1>6, <1>7, <1>8, <1>9 DEF InTime, Alone, InShard

LEMMA SaveRenameInTime ==
    ASSUME Inv, InTime, ~SaveMayFail, SaveRename
    PROVE  InTime'
<1>1. PICK x : /\ x = saver /\ x.pc = "rename"
               /\ x.content \in [InShard(x.cur) -> Contents]
  BY DEF SaveRename, Inv, TypeOK, SaverOK
<1>2. /\ saver'.pc = "write" /\ saver'.todo = x.todo /\ saver'.present = x.present
      /\ saver'.due = x.due /\ disk' = Replaced(x.content) /\ dirty' = dirty
  BY <1>1 DEF SaveRename, Inv, TypeOK, SaverOK
<1>3. Alone
  BY DEF SaveRename, Alone, memory, ghosts
<1>4. disk' = [n \in Name |-> IF n \in InShard(x.cur) THEN x.content[n] ELSE disk[n]]
  BY <1>1, <1>2 DEF Replaced
<1>5. \A n \in Name : /\ OnDisk(n) \cup Coming(n) \subseteq deleted \cup OnDisk(n)'
                      /\ Coming(n)' = {}
  <2> SUFFICES ASSUME NEW n \in Name
               PROVE  OnDisk(n) \cup Coming(n) \subseteq deleted \cup OnDisk(n)' /\ Coming(n)' = {}
    OBVIOUS
  <2>1. Coming(n)' = {}
    BY <1>2 DEF Coming
  <2>2. CASE n \in InShard(x.cur)
    <3>1. OnDisk(n)' = Copied(n) /\ Coming(n) = Copied(n)
      BY <1>1, <1>4, <2>2 DEF OnDisk, Copied, Coming, InShard
    <3>2. OnDisk(n) \subseteq deleted \cup Copied(n)
      BY <1>1, <2>2 DEF Inv, Saved, Copies
    <3> QED  BY <2>1, <3>1, <3>2
  <2>3. CASE n \notin InShard(x.cur)
    BY <1>1, <1>4, <2>1, <2>3 DEF OnDisk, Coming, InShard
  <2> QED  BY <2>2, <2>3
<1>6. \A n \in Name : Pending(n)'
  BY <1>1, <1>2, <1>3, <1>5, OverSame DEF InTime, Pending, Alone
<1>7. \A y \in saver'.due \ deleted' :
          \E n \in Name : \/ y \in OnDisk(n)' \cup Coming(n)'
                          \/ ShardOf[n] \in saver'.todo /\ y \in acked'[n]
  BY <1>1, <1>2, <1>3, <1>5 DEF InTime, Alone
<1>8. \A n \in Anchor : map'[n] # None /\ disk'[n] # None
  <2>1. \A n \in Anchor : n \in Name
    BY StoreAssumption DEF Anchor
  <2> QED  BY <1>1, <1>3, <1>4, <2>1 DEF InTime, Alone
<1>9. saver'.present = Shard
  BY <1>1, <1>2 DEF InTime
<1> QED  BY <1>2, <1>6, <1>7, <1>8, <1>9 DEF InTime

\* Every shard has a namespace, so no file is removed.
LEMMA RemoveStaleInTime ==
    ASSUME Inv, InTime, RemoveStale
    PROVE  InTime'
<1>1. /\ saver.pc = "write" /\ saver'.pc = "done" /\ saver'.todo = saver.todo
      /\ saver'.present = saver.present /\ saver'.due = saver.due /\ saver.taken \subseteq Shard
  BY DEF RemoveStale, Inv, TypeOK, SaverOK
<1>2. saver.present = Shard
  BY <1>1 DEF InTime
<1>3. Alone /\ dirty' = dirty /\ disk' = disk
  <2>1. saver.taken \ saver.present = {}
    BY <1>1, <1>2
  <2>2. disk' = [n \in Name |-> disk[n]]
    BY <2>1 DEF RemoveStale
  <2> QED  BY <2>2 DEF RemoveStale, Alone, memory, ghosts, Inv, TypeOK
<1>4. \A n \in Name : Coming(n) = {} /\ Coming(n)' = {} /\ OnDisk(n)' = OnDisk(n)
  BY <1>1, <1>3 DEF Coming, OnDisk
<1>5. \A n \in Name : Pending(n)'
  BY <1>1, <1>3, <1>4, OverSame DEF InTime, Pending, Alone
<1>6. \A y \in saver'.due \ deleted' :
          \E n \in Name : \/ y \in OnDisk(n)' \cup Coming(n)'
                          \/ ShardOf[n] \in saver'.todo /\ y \in acked'[n]
  BY <1>1, <1>3, <1>4 DEF InTime, Alone
<1> QED  BY <1>1, <1>2, <1>3, <1>5, <1>6 DEF InTime, Alone

LEMMA SleepInTime ==
    ASSUME Inv, InTime, Sleep
    PROVE  InTime'
<1>1. saver.pc = "done" /\ saver.todo = {} /\ saver'.pc = "idle" /\ saver'.todo = {}
  BY DEF Sleep, NotSaving, Inv, TypeOK, SaverOK
<1>2. Alone /\ dirty' = dirty /\ disk' = disk
  BY DEF Sleep, Alone, memory, ghosts
<1>3. \A n \in Name : Coming(n) = {} /\ Coming(n)' = {} /\ OnDisk(n)' = OnDisk(n)
  BY <1>1, <1>2 DEF Coming, OnDisk
<1>4. \A n \in Name : Pending(n)'
  BY <1>1, <1>2, <1>3, OverSame DEF InTime, Pending, Alone
<1> QED  BY <1>1, <1>2, <1>4 DEF InTime, Alone

\* A server that has just started has loaded the files.
Loaded == \A n \in Anchor : n \in Name /\ map[n] # None /\ disk[n] # None

LEMMA FreshInTime == Fresh /\ Loaded => InTime
<1> SUFFICES ASSUME Fresh, Loaded PROVE InTime
  OBVIOUS
<1>1. saver.pc = "idle" /\ \A u \in Request : req[u].pc = "idle"
  BY DEF Fresh, NotSaving, NoRequest
<1>2. \A n \in Name : Over(n) = acked[n]
  BY <1>1 DEF Over
<1>3. \A n \in Name : Pending(n)
  BY <1>2 DEF Pending, Fresh
<1> QED  BY <1>1, <1>3 DEF InTime, Loaded

LEMMA FreshInTimeAgain == Fresh' /\ Loaded' => InTime'
  BY FreshInTime, PTL

\* With every shard hot and anchored, every step of a server whose disk does not fail.
LEMMA StepsInTime ==
    ASSUME Inv, InTime, Evictable = {}, ~SaveMayFail, Anchored, [Next]_vars
    PROVE  InTime'
<1>1. ASSUME NEW t \in Request, NEW w \in Workload, Begin(t, w[1], w[2])
      PROVE  InTime'
  BY <1>1, BeginInTime
<1>2. ASSUME NEW t \in Request, Step(t)
      PROVE  InTime'
  <2>1. CASE Catalogued(t) \/ Evicted(t) \/ Register(t) \/ MarkRemoved(t) \/ Unlist(t)
    BY <2>1, PassingSteps
  <2>2. CASE Resident(t) \/ Mark(t)
    BY <2>2, ResidentInTime, MarkInTime
  <2>3. CASE Answer(t) \/ Release(t)
    BY <2>3, DroppingSteps
  <2>4. CASE Create(t) \/ Record(t) \/ Return(t) \/ Remove(t)
    BY <2>4, CreateInTime, RecordInTime, ReturnInTime, RemoveInTime
  <2> QED  BY <1>2, <2>1, <2>2, <2>3, <2>4, NothingEvicted DEF Step
<1>3. CASE Save
  BY <1>3, PresentInTime, TakeDirtyInTime, HandlesInTime, SaveReadInTime, SaveRenameInTime,
     RemoveStaleInTime, SleepInTime DEF Save
<1>4. CASE Restart
  <2>1. Fresh' /\ \A n \in Name : disk[n] # None => map'[n] # None
    BY <1>4, RestartFresh
  <2>2. disk' = disk
    BY <1>4 DEF Restart
  <2>3. \A n \in Anchor : n \in Name /\ disk[n] # None
    BY StoreAssumption DEF InTime, Anchor
  <2>4. Loaded'
    BY <2>1, <2>2, <2>3 DEF Loaded
  <2> QED  BY <2>1, <2>4, FreshInTimeAgain
<1>5. CASE UNCHANGED vars
  <2>1. /\ saver' = saver /\ map' = map /\ heap' = heap /\ disk' = disk /\ dirty' = dirty
        /\ req' = req /\ acked' = acked /\ deleted' = deleted
    BY <1>5 DEF vars
  <2>2. \A n \in Name : OnDisk(n)' = OnDisk(n) /\ Coming(n)' = Coming(n) /\ Over(n)' = Over(n)
    BY <2>1 DEF OnDisk, Coming, Seen, Copied, Over
  <2>3. \A n \in Name : Pending(n)' = Pending(n)
    BY <2>1, <2>2 DEF Pending
  <2> QED  BY <2>1, <2>2, <2>3 DEF InTime
<1> QED  BY <1>1, <1>2, <1>3, <1>4, <1>5, NothingEvicted DEF Next

\* With every shard hot and holding a namespace nobody deletes, and with a disk that takes
\* every write, a save that is over has put in the files every sighting whose write had
\* returned before the save began, whatever writes and deletions ran beside it
\* (persistence::save).
THEOREM HotDueSaved ==
    ASSUME Evictable = {}, ~SaveMayFail, Anchored
    PROVE  Spec => []DueSaved
<1>1. Init => Inv /\ InTime
  <2> SUFFICES ASSUME Init PROVE Inv /\ InTime
    OBVIOUS
  <2>1. Fresh /\ \A n \in DOMAIN Stored : map[n] # None
    BY InitFresh
  <2>2. Loaded
    <3>1. \A n \in Anchor : n \in DOMAIN Stored /\ n \in Name /\ Stored[n] \subseteq Token
      BY StoreAssumption DEF Anchor
    <3>2. \A n \in Anchor : disk[n] = Stored[n]
      BY <3>1 DEF Init
    <3> QED  BY <2>1, <3>1, <3>2, StoreAssumption DEF Loaded
  <2> QED  BY <2>1, <2>2, FreshInv, FreshInTime
<1>2. Inv /\ InTime /\ [Next]_vars => (Inv /\ InTime)'
  BY Steps, StepsInTime
<1>3. Inv /\ InTime => DueSaved
  <2> SUFFICES ASSUME Inv, InTime, saver.pc = "done"
               PROVE  saver.due \subseteq deleted \cup UNION {OnDisk(n) : n \in Name}
    BY DEF DueSaved
  <2>1. saver.todo = {}
    BY DEF Inv, TypeOK, SaverOK
  <2>2. \A n \in Name : Coming(n) = {}
    BY DEF Coming
  <2> QED  BY <2>1, <2>2 DEF InTime
<1> QED  BY <1>1, <1>2, <1>3, PTL DEF Spec
=============================================================================

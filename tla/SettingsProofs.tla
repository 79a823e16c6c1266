--------------------------- MODULE SettingsProofs ---------------------------
(***************************************************************************)
(* When two changes of one setting do not overlap, and no key is given on  *)
(* the command line, the file of a setting and the setting in force agree, *)
(* and the key list and the vocabulary are saved as module Durable         *)
(* promises.                                                               *)
(***************************************************************************)
EXTENDS SettingsTypes

\* One handler at a time per setting: what it has written is what it was given,
\* and the setting in force is the one that was read from the file, or saved to it,
\* but for a live setting whose last save failed.
Turn == \A c, d \in Caller : worker[c].pc # "idle" /\ worker[d].pc # "idle"
                             /\ worker[c].kind = worker[d].kind => c = d

Progress(c) ==
    LET w == worker[c]
    IN  /\ w.pc \in {"write", "rename"} => w.fd = disk[w.kind].temp
        /\ w.pc = "rename" => /\ disk[w.kind].data[w.fd] # Blank
                              /\ Load(w.kind, disk[w.kind].data[w.fd]) = w.value
        /\ w.pc = "adopt" => Load(w.kind, TextOf(w.kind)) = w.value
        /\ w.pc \in Saving /\ w.kind \notin AdoptsLast => w.value = mem[w.kind]
        /\ w.pc = "edit" => w.url \in DOMAIN mem.peers
                            /\ mem.peers[w.url].enabled = w.value.enabled

Agrees(k) == k \in failed \/ (\E c \in Caller : worker[c].pc = "adopt" /\ worker[c].kind = k)
             \/ Load(k, TextOf(k)) = mem[k]

Serial ==
    /\ Turn
    /\ \A c \in Caller : Progress(c)
    /\ up => \A k \in Kind : Agrees(k)
    /\ ~up => \A c \in Caller : worker[c].pc = "idle"

-----------------------------------------------------------------------------
(* One handler at a time per setting.  A step of handler c is about one    *)
(* setting k, which no other handler is changing, and leaves the others     *)
(* alone; of a setting that is saved before it is adopted it changes the    *)
(* file only while that is what is in force, and memory only to the file.   *)

Alone(c, k) ==
    /\ up
    /\ worker[c].pc = "idle" \/ worker[c].kind = k
    /\ \A d \in Caller : d # c => worker[d].pc = "idle" \/ worker[d].kind # k

Only(c, k) ==
    /\ up' = up
    /\ worker'[c].pc = "idle" \/ worker'[c].kind = k
    /\ \A d \in Caller : d # c => worker'[d] = worker[d]
    /\ \A j \in Kind : j # k => /\ disk'[j] = disk[j] /\ mem'[j] = mem[j]
                                /\ j \in failed' <=> j \in failed

Kept(k) ==
    \/ k \notin AdoptsLast
    \/ mem'[k] = mem[k] /\ TextOf(k)' = TextOf(k)
    \/ mem'[k] = mem[k] /\ mem[k] = Load(k, TextOf(k))
    \/ mem'[k] = Load(k, TextOf(k)) /\ TextOf(k)' = TextOf(k)

\* A handler that has begun on a setting has it for itself.
LEMMA Begun ==
    ASSUME TypeOK, Serial, NEW c \in Caller, worker[c].pc # "idle"
    PROVE  worker[c].kind \in Kind /\ Alone(c, worker[c].kind)
<1>1. worker[c].kind \in Kind
  BY DEF TypeOK, WorkOK, Busy, Editing, Idling, Kind
<1>2. up
  BY DEF Serial, TypeOK
<1> QED  BY <1>1, <1>2 DEF Alone, Serial, Turn

LEMMA Arrived ==
    ASSUME ~Overlap, NEW c \in Caller, NEW k \in Kind, Arrives(c, k)
    PROVE  Alone(c, k) /\ worker[c].pc = "idle"
  BY DEF Arrives, Alone, InFlight, Idling

\* While the setting is in one handler's hands, and that one is not adopting it, the
\* file says what is in force, or the last save failed.
LEMMA InForce ==
    ASSUME Serial, NEW c \in Caller, NEW k \in Kind, Alone(c, k), worker[c].pc # "adopt"
    PROVE  k \in failed \/ Load(k, TextOf(k)) = mem[k]
  BY DEF Serial, Agrees, Alone

LEMMA OnlySerial ==
    ASSUME TypeOK, Serial, NEW c \in Caller, NEW k \in Kind, Alone(c, k), Only(c, k),
           Progress(c)', Agrees(k)'
    PROVE  Serial'
<1>1. Turn'
  <2> SUFFICES ASSUME NEW a \in Caller, NEW b \in Caller, a # b,
                      worker'[a].pc # "idle", worker'[b].pc # "idle"
               PROVE  worker'[a].kind # worker'[b].kind
    BY DEF Turn
  <2>1. CASE a = c
    BY <2>1 DEF Alone, Only
  <2>2. CASE b = c
    BY <2>2 DEF Alone, Only
  <2>3. CASE a # c /\ b # c
    BY <2>3 DEF Only, Serial, Turn
  <2> QED  BY <2>1, <2>2, <2>3
<1>2. \A d \in Caller : Progress(d)'
  <2> SUFFICES ASSUME NEW d \in Caller, d # c PROVE Progress(d)'
    OBVIOUS
  <2>1. worker'[d] = worker[d]
    BY DEF Only
  <2>2. CASE worker[d].pc = "idle"
    BY <2>1, <2>2 DEF Progress, Saving
  <2>3. CASE worker[d].pc # "idle"
    <3>1. PICK j \in Kind : j = worker[d].kind
      BY <2>3, Begun
    <3>2. j # k
      BY <2>3, <3>1 DEF Alone
    <3>3. disk'[j] = disk[j] /\ mem'[j] = mem[j] /\ TextOf(j)' = TextOf(j)
      BY <3>2 DEF Only, TextOf
    <3>4. Progress(d)
      BY DEF Serial
    <3>5. CASE worker[d].pc = "edit"
      <4>1. j = "peers"
        <5>1. Editing(worker[d])
          BY <3>5, PcIs DEF TypeOK
        <5> QED  BY <3>1, <5>1 DEF Editing
      <4> QED  BY <2>1, <3>1, <3>3, <3>4, <3>5, <4>1 DEF Progress, Saving
    <3>6. CASE worker[d].pc # "edit"
      BY <2>1, <3>1, <3>3, <3>4, <3>6 DEF Progress
    <3> QED  BY <3>5, <3>6
  <2> QED  BY <2>2, <2>3
<1>3. \A j \in Kind : Agrees(j)'
  <2> SUFFICES ASSUME NEW j \in Kind, j # k PROVE Agrees(j)'
    OBVIOUS
  <2>1. Agrees(j)
    BY DEF Serial, Alone
  <2>2. disk'[j] = disk[j] /\ mem'[j] = mem[j] /\ (j \in failed' <=> j \in failed)
    BY DEF Only
  <2>3. CASE j \in failed
    BY <2>2, <2>3 DEF Agrees
  <2>4. ASSUME NEW d \in Caller, worker[d].pc = "adopt", worker[d].kind = j
        PROVE  Agrees(j)'
    <3>1. d # c
      BY <2>4 DEF Alone
    <3>2. worker'[d] = worker[d]
      BY <3>1 DEF Only
    <3> QED  BY <2>4, <3>2 DEF Agrees
  <2>5. CASE Load(j, TextOf(j)) = mem[j]
    BY <2>2, <2>5 DEF Agrees, TextOf
  <2> QED  BY <2>1, <2>3, <2>4, <2>5 DEF Agrees
<1>4. up'
  BY DEF Alone, Only
<1> QED  BY <1>1, <1>2, <1>3, <1>4 DEF Serial

\* If neither the file nor memory of the setting changed, they agree as before.
LEMMA SameAgrees ==
    ASSUME Serial, NEW c \in Caller, NEW k \in Kind, Alone(c, k), worker[c].pc # "adopt",
           mem'[k] = mem[k], TextOf(k)' = TextOf(k), k \in failed => k \in failed'
    PROVE  Agrees(k)'
  BY InForce DEF Agrees

\* What the proof shows of a step of handler c.
Proper(c) == TypeOK' /\ Serial' /\ \E k \in Kind : Only(c, k) /\ Kept(k)

LEMMA SaveCopySerial ==
    ASSUME TypeOK, Serial, NEW c \in Caller, NEW k \in AdoptsLast, NEW v \in Values(k),
           Alone(c, k), worker[c].pc = "idle", SaveCopy(c, k, v)
    PROVE  Proper(c)
<1>0. k \in Kind
  BY DEF AdoptsLast, Kind
<1>1. TypeOK'
  BY <1>0, SaveCopyType
<1>2. PICK w : w = [pc |-> "create", kind |-> k, value |-> v, fd |-> 0]
  OBVIOUS
<1>3. worker'[c] = w /\ \A d \in Caller : d # c => worker'[d] = worker[d]
  BY <1>2 DEF SaveCopy, TypeOK, WorkOK
<1>4. mem' = mem /\ disk' = disk /\ up' = up /\ failed' = failed
  BY DEF SaveCopy
<1>5. Only(c, k)
  BY <1>2, <1>3, <1>4 DEF Only
<1>6. Progress(c)'
  BY <1>2, <1>3 DEF Progress
<1>7. TextOf(k)' = TextOf(k) /\ mem'[k] = mem[k]
  BY <1>4 DEF TextOf
<1>8. Agrees(k)'
  BY <1>0, <1>4, <1>7, SameAgrees
<1>9. Serial'
  BY <1>0, <1>5, <1>6, <1>8, OnlySerial
<1> QED  BY <1>0, <1>1, <1>5, <1>7, <1>9 DEF Proper, Kept

LEMMA ChangeLiveSerial ==
    ASSUME TypeOK, Serial, NEW c \in Caller, NEW k \in Kind \ AdoptsLast, NEW v \in Values(k),
           Alone(c, k), ChangeLive(c, k, v)
    PROVE  Proper(c) /\ mem'[k] = v
<1>1. TypeOK'
  BY ChangeLiveType
<1>2. PICK w : w = [pc |-> "render", kind |-> k, value |-> None, fd |-> 0]
  OBVIOUS
<1>3. worker'[c] = w /\ \A d \in Caller : d # c => worker'[d] = worker[d]
  BY <1>2 DEF ChangeLive, TypeOK, WorkOK
<1>4. mem'[k] = v /\ \A j \in Kind : j # k => mem'[j] = mem[j]
  BY MemStep DEF ChangeLive, TypeOK
<1>5. disk' = disk /\ up' = up /\ failed' = failed \cup {k}
  BY DEF ChangeLive
<1>6. Only(c, k)
  BY <1>2, <1>3, <1>4, <1>5 DEF Only
<1>7. Progress(c)'
  BY <1>2, <1>3 DEF Progress, Saving
<1>8. Agrees(k)'
  BY <1>5 DEF Agrees
<1>9. Serial'
  BY <1>6, <1>7, <1>8, OnlySerial
<1> QED  BY <1>1, <1>4, <1>6, <1>9 DEF Proper, Kept

LEMMA UpdatePeerSerial ==
    ASSUME ~Overlap, TypeOK, Serial, NEW c \in Caller, UpdatePeer(c)
    PROVE  Proper(c)
<1>1. TypeOK'
  BY UpdatePeerType
<1>2. PICK url, value, w :
         /\ url \in DOMAIN mem.peers /\ value \in Peer
         /\ w = [pc |-> "edit", kind |-> "peers", fd |-> 0, url |-> url, value |-> value]
         /\ worker' = [worker EXCEPT ![c] = w]
         /\ value.enabled = mem.peers[url].enabled
  BY UpdatePeerIs
<1>3. worker'[c] = w /\ \A d \in Caller : d # c => worker'[d] = worker[d]
  BY <1>2 DEF TypeOK, WorkOK
<1>4. mem' = mem /\ disk' = disk /\ up' = up /\ failed' = failed
  BY DEF UpdatePeer
<1>5. PICK k \in Kind : k = "peers"
  BY DEF Kind
<1>6. Arrives(c, k)
  BY <1>5 DEF UpdatePeer
<1>7. Alone(c, k) /\ worker[c].pc = "idle"
  BY <1>6, Arrived
<1>8. Only(c, k)
  BY <1>2, <1>3, <1>4, <1>5 DEF Only
<1>9. Progress(c)'
  BY <1>2, <1>3, <1>4 DEF Progress, Saving
<1>10. TextOf(k)' = TextOf(k) /\ mem'[k] = mem[k]
  BY <1>4 DEF TextOf
<1>11. Agrees(k)'
  BY <1>4, <1>7, <1>10, SameAgrees
<1>12. Serial'
  BY <1>7, <1>8, <1>9, <1>11, OnlySerial
<1> QED  BY <1>1, <1>8, <1>10, <1>12 DEF Proper, Kept

LEMMA BeginsSerial ==
    ASSUME ~Overlap, TypeOK, Serial, NEW c \in Caller, Begins(c) \/ UpdatePeer(c)
    PROVE  Proper(c) /\ worker[c].pc = "idle"
<1>1. CASE UpdatePeer(c)
  <2>1. worker[c].pc = "idle"
    BY <1>1 DEF UpdatePeer, Arrives, Idling
  <2> QED  BY <1>1, <2>1, UpdatePeerSerial
<1>2. CASE Begins(c)
  <2>1. PICK k \in Kind : /\ Arrives(c, k)
                          /\ \E v \in Values(k) : \/ k \in AdoptsLast /\ SaveCopy(c, k, v)
                                                  \/ k \notin AdoptsLast /\ ChangeLive(c, k, v)
    BY <1>2, BeginsIs
  <2>2. Alone(c, k) /\ worker[c].pc = "idle"
    BY <2>1, Arrived
  <2>3. ASSUME NEW v \in Values(k), k \in AdoptsLast, SaveCopy(c, k, v)
        PROVE  Proper(c)
    BY <2>2, <2>3, SaveCopySerial
  <2>4. ASSUME NEW v \in Values(k), k \notin AdoptsLast, ChangeLive(c, k, v)
        PROVE  Proper(c)
    BY <2>2, <2>4, ChangeLiveSerial
  <2> QED  BY <2>1, <2>2, <2>3, <2>4
<1> QED  BY <1>1, <1>2

\* A handler that stops, or fails, before it adopts anything leaves the setting alone.
LEMMA StopSerial ==
    ASSUME TypeOK, TypeOK', Serial, NEW c \in Caller, worker[c].pc \notin {"idle", "adopt"},
           worker'[c] = Idling, \A d \in Caller : d # c => worker'[d] = worker[d],
           UNCHANGED <<mem, disk, up, failed>>
    PROVE  Proper(c)
<1>1. PICK k \in Kind : Alone(c, k)
  BY Begun
<1>2. mem' = mem /\ disk' = disk /\ up' = up /\ failed' = failed
  OBVIOUS
<1>3. Only(c, k)
  BY <1>2 DEF Only, Idling
<1>4. Progress(c)'
  BY DEF Progress, Idling, Saving
<1>5. TextOf(k)' = TextOf(k) /\ mem'[k] = mem[k]
  BY <1>2 DEF TextOf
<1>6. Agrees(k)'
  BY <1>1, <1>2, <1>5, SameAgrees
<1>7. Serial'
  BY <1>1, <1>3, <1>4, <1>6, OnlySerial
<1> QED  BY <1>3, <1>5, <1>7 DEF Proper, Kept

LEMMA EditPeerSerial ==
    ASSUME TypeOK, Serial, NEW c \in Caller, EditPeer(c)
    PROVE  /\ Proper(c) /\ worker[c].pc = "edit"
           /\ worker'[c].pc = "render" =>
                 mem'.peers[worker[c].url].enabled = mem.peers[worker[c].url].enabled
<1>1. /\ worker[c].kind = "peers" /\ worker[c].pc = "edit"
      /\ \/ /\ worker[c].url \in DOMAIN mem.peers
            /\ \E v \in Values("peers") : /\ ChangeLive(c, "peers", v)
                                          /\ v[worker[c].url] = worker[c].value
         \/ worker' = [worker EXCEPT ![c] = Idling] /\ UNCHANGED <<mem, disk, up, failed>>
  BY EditPeerIs
<1>2. PICK k \in Kind \ AdoptsLast : k = "peers"
  BY DEF Kind, AdoptsLast
<1>3. Alone(c, k)
  BY <1>1, <1>2, Begun
<1>4. ASSUME NEW v \in Values(k), ChangeLive(c, k, v), v[worker[c].url] = worker[c].value
      PROVE  Proper(c) /\ mem'.peers[worker[c].url].enabled = mem.peers[worker[c].url].enabled
  <2>1. Proper(c) /\ mem'[k] = v
    BY <1>3, <1>4, ChangeLiveSerial
  <2>2. mem.peers[worker[c].url].enabled = worker[c].value.enabled
    BY <1>1 DEF Serial, Progress
  <2> QED  BY <1>2, <1>4, <2>1, <2>2
<1>5. CASE worker' = [worker EXCEPT ![c] = Idling] /\ UNCHANGED <<mem, disk, up, failed>>
  <2>1. worker'[c] = Idling /\ \A d \in Caller : d # c => worker'[d] = worker[d]
    BY <1>5 DEF TypeOK, WorkOK
  <2>2. TypeOK'
    BY EditPeerType
  <2>3. Proper(c)
    BY <1>1, <1>5, <2>1, <2>2, StopSerial
  <2> QED  BY <1>1, <2>1, <2>3 DEF Idling
<1> QED  BY <1>1, <1>2, <1>4, <1>5

LEMMA RenderLiveSerial ==
    ASSUME TypeOK, Serial, NEW c \in Caller, RenderLive(c)
    PROVE  Proper(c) /\ worker[c].pc = "render"
<1>1. worker[c].pc = "render"
  BY DEF RenderLive
<1>2. PICK k \in Kind : k = worker[c].kind /\ Alone(c, k)
  BY <1>1, Begun
<1>3. /\ TypeOK' /\ \A d \in Caller : d # c => worker'[d] = worker[d]
      /\ worker'[c] = [pc |-> "create", kind |-> k, value |-> mem[k], fd |-> worker[c].fd]
  BY <1>2, RenderLiveType
<1>4. mem' = mem /\ disk' = disk /\ up' = up /\ failed' = failed
  BY DEF RenderLive
<1>5. Only(c, k)
  BY <1>3, <1>4 DEF Only
<1>6. Progress(c)'
  BY <1>3, <1>4 DEF Progress
<1>7. TextOf(k)' = TextOf(k) /\ mem'[k] = mem[k]
  BY <1>4 DEF TextOf
<1>8. Agrees(k)'
  BY <1>1, <1>2, <1>4, <1>7, SameAgrees
<1>9. Serial'
  BY <1>2, <1>5, <1>6, <1>8, OnlySerial
<1> QED  BY <1>1, <1>3, <1>5, <1>7, <1>9 DEF Proper, Kept

LEMMA CreateTempSerial ==
    ASSUME TypeOK, Serial, NEW c \in Caller, CreateTemp(c)
    PROVE  Proper(c) /\ worker[c].pc = "create"
<1>1. TypeOK' /\ worker[c].pc = "create" /\ \A d \in Caller : d # c => worker'[d] = worker[d]
  BY CreateTempIs
<1>2. PICK k \in Kind, i \in Inode :
         /\ k = worker[c].kind /\ i # disk[k].file
         /\ worker'[c] = [pc |-> "write", kind |-> k, value |-> worker[c].value, fd |-> i]
         /\ disk'[k].file = disk[k].file /\ disk'[k].temp = i
         /\ \A j \in Inode : j # i => disk'[k].data[j] = disk[k].data[j]
         /\ \A j \in Kind : j # k => disk'[j] = disk[j]
  BY CreateTempIs
<1>3. Alone(c, k)
  BY <1>1, <1>2, Begun
<1>4. mem' = mem /\ up' = up /\ failed' = failed
  BY DEF CreateTemp
<1>5. Only(c, k)
  BY <1>1, <1>2, <1>4 DEF Only
<1>6. disk[k].file \in {0} \cup Inode
  BY DEF TypeOK, DiskOK, File
<1>7. TextOf(k)' = TextOf(k) /\ mem'[k] = mem[k]
  BY <1>2, <1>4, <1>6 DEF TextOf
<1>8. Progress(c)
  BY DEF Serial
<1>9. Progress(c)'
  <2>1. PICK v : v = worker[c].value
    OBVIOUS
  <2>2. PICK w : w = [pc |-> "write", kind |-> k, value |-> v, fd |-> i]
    OBVIOUS
  <2>3. /\ w.pc = "write" /\ w.kind = k /\ w.value = v /\ w.fd = i
        /\ worker'[c] = w
    BY <1>2, <2>1, <2>2
  <2>4. k \notin AdoptsLast => v = mem'[k]
    BY <1>1, <1>2, <1>4, <1>8, <2>1 DEF Progress, Saving
  <2> QED  BY <1>2, <2>3, <2>4 DEF Progress, Saving
<1>10. Agrees(k)'
  BY <1>1, <1>3, <1>4, <1>7, SameAgrees
<1>11. Serial'
  BY <1>3, <1>5, <1>9, <1>10, OnlySerial
<1> QED  BY <1>1, <1>5, <1>7, <1>11 DEF Proper, Kept

LEMMA WriteTempSerial ==
    ASSUME CliKey = None, TypeOK, Serial, NEW c \in Caller, WriteTemp(c)
    PROVE  Proper(c) /\ worker[c].pc = "write"
<1>1. /\ TypeOK' /\ Busy(worker[c]) /\ worker[c].pc = "write"
      /\ \A d \in Caller : d # c => worker'[d] = worker[d]
  BY WriteTempIs
<1>2. PICK k \in Kind, i \in Inode :
         /\ k = worker[c].kind /\ i = worker[c].fd
         /\ worker'[c] = [pc |-> "rename", kind |-> k, value |-> worker[c].value, fd |-> i]
         /\ disk'[k].file = disk[k].file /\ disk'[k].temp = disk[k].temp
         /\ disk'[k].data[i] = Render(k, worker[c].value)
         /\ \A j \in Inode : j # i => disk'[k].data[j] = disk[k].data[j]
         /\ \A j \in Kind : j # k => disk'[j] = disk[j]
  BY WriteTempIs
<1>3. Alone(c, k)
  BY <1>1, <1>2, Begun
<1>4. mem' = mem /\ up' = up /\ failed' = failed
  BY DEF WriteTemp
<1>5. Only(c, k)
  BY <1>1, <1>2, <1>4 DEF Only
<1>6. i # 0
  BY SettingsAssumption, FS_CardinalityType DEF Inode
<1>7. Progress(c)
  BY DEF Serial
<1>8. i = disk[k].temp
  BY <1>1, <1>2, <1>7 DEF Progress
<1>9. disk[k].file \in {0} \cup Inode /\ disk[k].file # i
  BY <1>6, <1>8 DEF TypeOK, DiskOK, File
<1>10. TextOf(k)' = TextOf(k) /\ mem'[k] = mem[k]
  BY <1>2, <1>4, <1>9 DEF TextOf
<1>11. worker[c].value \in Values(k)
  BY <1>1, <1>2 DEF Busy
<1>12. /\ Render(k, worker[c].value) # Blank
       /\ Load(k, Render(k, worker[c].value)) = worker[c].value
  BY <1>11, RoundTrip
<1>13. Progress(c)'
  <2>1. PICK v : v = worker[c].value
    OBVIOUS
  <2>2. PICK w : w = [pc |-> "rename", kind |-> k, value |-> v, fd |-> i]
    OBVIOUS
  <2>3. /\ w.pc = "rename" /\ w.kind = k /\ w.value = v /\ w.fd = i
        /\ worker'[c] = w
    BY <1>2, <2>1, <2>2
  <2>4. disk'[k].temp = i /\ disk'[k].data[i] # Blank /\ Load(k, disk'[k].data[i]) = v
    BY <1>2, <1>8, <1>12, <2>1
  <2>5. k \notin AdoptsLast => v = mem'[k]
    BY <1>1, <1>2, <1>4, <1>7, <2>1 DEF Progress, Saving
  <2> QED  BY <2>3, <2>4, <2>5 DEF Progress, Saving
<1>14. Agrees(k)'
  BY <1>1, <1>3, <1>4, <1>10, SameAgrees
<1>15. Serial'
  BY <1>3, <1>5, <1>13, <1>14, OnlySerial
<1> QED  BY <1>1, <1>5, <1>10, <1>15 DEF Proper, Kept

LEMMA RenameTempSerial ==
    ASSUME TypeOK, Serial, NEW c \in Caller, RenameTemp(c)
    PROVE  Proper(c) /\ worker[c].pc = "rename"
<1>1. /\ TypeOK' /\ Busy(worker[c]) /\ worker[c].pc = "rename"
      /\ \A d \in Caller : d # c => worker'[d] = worker[d]
  BY RenameTempIs
<1>2. PICK k \in Kind, i \in Inode :
         /\ k = worker[c].kind /\ i = disk[k].temp
         /\ worker'[c] = IF k \in AdoptsLast
                         THEN [pc |-> "adopt", kind |-> k, value |-> worker[c].value,
                               fd |-> worker[c].fd]
                         ELSE Idling
         /\ disk'[k].file = i
         /\ \A j \in Inode : disk'[k].data[j] = disk[k].data[j]
         /\ \A j \in Kind : j # k => disk'[j] = disk[j]
         /\ failed' = failed \ {k}
  BY RenameTempIs
<1>3. Alone(c, k)
  BY <1>1, <1>2, Begun
<1>4. mem' = mem /\ up' = up
  BY DEF RenameTemp
<1>5. Only(c, k)
  <2>1. worker'[c].pc = "idle" \/ worker'[c].kind = k
    BY <1>2 DEF Idling
  <2>2. \A j \in Kind : j # k => disk'[j] = disk[j] /\ mem'[j] = mem[j] /\ (j \in failed' <=> j \in failed)
    BY <1>2, <1>4
  <2> QED  BY <1>1, <1>4, <2>1, <2>2 DEF Only
<1>6. i # 0
  BY SettingsAssumption, FS_CardinalityType DEF Inode
<1>7. Progress(c)
  BY DEF Serial
<1>8. i = worker[c].fd /\ Load(k, disk[k].data[i]) = worker[c].value
  BY <1>1, <1>2, <1>7 DEF Progress
<1>9. TextOf(k)' = disk[k].data[i]
  BY <1>2, <1>6 DEF TextOf
<1>10. Load(k, TextOf(k)') = worker[c].value
  BY <1>8, <1>9
<1>11. CASE k \in AdoptsLast
  <2>1. PICK w : w = [pc |-> "adopt", kind |-> k, value |-> worker[c].value, fd |-> worker[c].fd]
    OBVIOUS
  <2>2. worker'[c] = w /\ w.pc = "adopt" /\ w.kind = k /\ w.value = worker[c].value
    BY <1>2, <1>11, <2>1
  <2>3. Progress(c)'
    BY <1>10, <1>11, <2>2 DEF Progress
  <2>4. Agrees(k)'
    BY <2>2 DEF Agrees
  <2>5. Serial'
    BY <1>3, <1>5, <2>3, <2>4, OnlySerial
  <2>6. k \notin failed
    BY <1>11 DEF TypeOK
  <2>7. Load(k, TextOf(k)) = mem[k]
    BY <1>1, <1>3, <2>6, InForce
  <2> QED  BY <1>1, <1>4, <1>5, <2>5, <2>7 DEF Proper, Kept
<1>12. CASE k \notin AdoptsLast
  <2>1. worker'[c] = Idling
    BY <1>2, <1>12
  <2>2. Progress(c)'
    BY <2>1 DEF Progress, Idling, Saving
  <2>3. worker[c].value = mem[k]
    BY <1>1, <1>2, <1>7, <1>12 DEF Progress, Saving
  <2>4. Agrees(k)'
    BY <1>4, <1>10, <2>3 DEF Agrees
  <2>5. Serial'
    BY <1>3, <1>5, <2>2, <2>4, OnlySerial
  <2> QED  BY <1>1, <1>5, <1>12, <2>5 DEF Proper, Kept
<1> QED  BY <1>11, <1>12

LEMMA AdoptSerial ==
    ASSUME TypeOK, Serial, NEW c \in Caller, Adopt(c)
    PROVE  Proper(c) /\ worker[c].pc = "adopt"
<1>1. /\ TypeOK' /\ worker[c].pc = "adopt"
      /\ worker'[c] = Idling /\ \A d \in Caller : d # c => worker'[d] = worker[d]
  BY AdoptIs
<1>2. PICK k \in AdoptsLast : /\ k = worker[c].kind /\ mem'[k] = worker[c].value
                              /\ \A j \in Kind : j # k => mem'[j] = mem[j]
  BY AdoptIs
<1>3. k \in Kind /\ Alone(c, k)
  BY <1>1, <1>2, Begun
<1>4. disk' = disk /\ up' = up /\ failed' = failed
  BY DEF Adopt
<1>5. Only(c, k)
  BY <1>1, <1>2, <1>4 DEF Only, Idling
<1>6. Progress(c)'
  BY <1>1 DEF Progress, Idling, Saving
<1>7. Load(k, TextOf(k)) = mem'[k]
  BY <1>1, <1>2 DEF Serial, Progress
<1>8. TextOf(k)' = TextOf(k)
  BY <1>4 DEF TextOf
<1>9. Agrees(k)'
  BY <1>7, <1>8 DEF Agrees
<1>10. Serial'
  BY <1>3, <1>5, <1>6, <1>9, OnlySerial
<1> QED  BY <1>1, <1>3, <1>5, <1>7, <1>8, <1>10 DEF Proper, Kept

Handles(c) == \/ Begins(c) \/ UpdatePeer(c) \/ RenderLive(c) \/ CreateTemp(c)
              \/ WriteTemp(c) \/ RenameTemp(c) \/ SaveFails(c) \/ Adopt(c)

LEMMA HandlesSerial ==
    ASSUME ~Overlap, CliKey = None, TypeOK, Serial, NEW c \in Caller, Handles(c)
    PROVE  Proper(c) /\ worker[c].pc # "edit"
<1>1. CASE Begins(c) \/ UpdatePeer(c)
  BY <1>1, BeginsSerial
<1>2. CASE RenderLive(c)
  BY <1>2, RenderLiveSerial
<1>3. CASE CreateTemp(c)
  BY <1>3, CreateTempSerial
<1>4. CASE WriteTemp(c)
  BY <1>4, WriteTempSerial
<1>5. CASE RenameTemp(c)
  BY <1>5, RenameTempSerial
<1>6. CASE SaveFails(c)
  <2>1. UNCHANGED <<mem, disk, up, failed>>
    BY <1>6 DEF SaveFails
  <2>2. /\ TypeOK' /\ worker[c].pc \in {"create", "write", "rename"}
        /\ worker'[c] = Idling /\ \A d \in Caller : d # c => worker'[d] = worker[d]
    BY <1>6, SaveFailsIs
  <2>3. Proper(c)
    BY <2>1, <2>2, StopSerial
  <2> QED  BY <2>2, <2>3
<1>7. CASE Adopt(c)
  BY <1>7, AdoptSerial
<1> QED  BY <1>1, <1>2, <1>3, <1>4, <1>5, <1>6, <1>7 DEF Handles

LEMMA NextIs ==
    ASSUME [Next]_vars
    PROVE  \/ \E c \in Caller : Handles(c) \/ EditPeer(c)
           \/ Crash \/ Restart \/ UNCHANGED vars
  BY DEF Next, Handles, Begins

LEMMA CrashSerial ==
    ASSUME Serial, Crash
    PROVE  Serial'
<1>1. ~up' /\ \A c \in Caller : worker'[c].pc = "idle"
  BY DEF Crash, Idling
<1> QED  BY <1>1 DEF Serial, Turn, Progress, Saving

LEMMA RestartSerial ==
    ASSUME Serial, Restart
    PROVE  Serial'
<1>1. up' /\ \A c \in Caller : worker'[c].pc = "idle"
  BY DEF Restart, Serial
<1>2. \A k \in Kind : Agrees(k)'
  BY DEF Restart, Loaded, Agrees, TextOf
<1> QED  BY <1>1, <1>2 DEF Serial, Turn, Progress, Saving

LEMMA InitSerial == Init => Serial
<1> SUFFICES ASSUME Init PROVE Serial
  OBVIOUS
<1>1. up /\ \A c \in Caller : worker[c].pc = "idle"
  BY DEF Init, Idling
<1>2. \A k \in Kind : Agrees(k)
  BY DEF Init, Loaded, Agrees
<1> QED  BY <1>1, <1>2 DEF Serial, Turn, Progress, Saving

\* With one handler at a time per setting, every save has got as far with the files as its
\* handler has, and a setting nobody is saving is what its file would load.
THEOREM SerialIsInvariant ==
    ASSUME ~Overlap, CliKey = None
    PROVE  Spec => [](TypeOK /\ Serial)
<1>1. Init => TypeOK /\ Serial
  BY InitType, InitSerial
<1>2. TypeOK /\ Serial /\ [Next]_vars => TypeOK' /\ Serial'
  <2> SUFFICES ASSUME TypeOK, Serial, [Next]_vars PROVE TypeOK' /\ Serial'
    OBVIOUS
  <2>1. ASSUME NEW c \in Caller, Handles(c) PROVE TypeOK' /\ Serial'
    BY <2>1, HandlesSerial DEF Proper
  <2>2. ASSUME NEW c \in Caller, EditPeer(c) PROVE TypeOK' /\ Serial'
    BY <2>2, EditPeerSerial DEF Proper
  <2>3. CASE Crash
    BY <2>3, CrashType, CrashSerial
  <2>4. CASE Restart
    BY <2>4, RestartType, RestartSerial
  <2>5. CASE UNCHANGED vars
    <3>1. TypeOK'
      BY NextType
    <3>2. Serial'
      BY <2>5 DEF vars, Serial, Turn, Progress, Agrees, TextOf
    <3> QED  BY <3>1, <3>2
  <2> QED  BY <2>1, <2>2, <2>3, <2>4, <2>5, NextIs
<1> QED  BY <1>1, <1>2, PTL DEF Spec

\* With one handler at a time per setting, a restart loads the setting in force, unless
\* the last save of it failed, whatever the keys, peers, tags and tiers are and however
\* often it was changed; the server must have been given no key on its command line,
\* which it would grant again.
THEOREM RestartLoadsTheSame ==
    ASSUME ~Overlap, CliKey = None
    PROVE  Spec => []SurvivesRestart
<1>1. TypeOK /\ Serial => SurvivesRestart
  BY DEF Serial, Agrees, SurvivesRestart, Loaded, InFlight
<1> QED  BY <1>1, SerialIsInvariant, PTL

\* With one handler at a time per setting, a PUT that changes a peer's stores leaves it
\* enabled or disabled as it was when the change is made, not only as it was when the
\* request arrived.
THEOREM EditsKeepService ==
    ASSUME ~Overlap, CliKey = None
    PROVE  Spec => EditKeepsService
<1>1. TypeOK /\ Serial /\ [Next]_vars =>
         [\A c \in Caller : worker[c].pc = "edit" /\ worker'[c].pc = "render"
             => mem'.peers[worker[c].url].enabled = mem.peers[worker[c].url].enabled]_vars
  <2> SUFFICES ASSUME TypeOK, Serial, [Next]_vars, NEW c \in Caller,
                      worker[c].pc = "edit", worker'[c].pc = "render"
               PROVE  mem'.peers[worker[c].url].enabled = mem.peers[worker[c].url].enabled
    OBVIOUS
  <2>1. ASSUME NEW d \in Caller, Handles(d) PROVE worker'[c] = worker[c]
    BY <2>1, HandlesSerial DEF Proper, Only
  <2>2. ASSUME NEW d \in Caller, EditPeer(d), d # c PROVE worker'[c] = worker[c]
    BY <2>2, EditPeerSerial DEF Proper, Only
  <2>3. CASE EditPeer(c)
    BY <2>3, EditPeerSerial
  <2>4. CASE Crash
    BY <2>4 DEF Crash, Idling
  <2>5. CASE Restart \/ UNCHANGED vars
    BY <2>5 DEF Restart, vars
  <2> QED  BY <2>1, <2>2, <2>3, <2>4, <2>5, NextIs
<1> QED  BY <1>1, SerialIsInvariant, PTL DEF Spec, EditKeepsService

-----------------------------------------------------------------------------
(* The key list and the vocabulary implement the register.                 *)

\* A step, as the register sees it: of what a restart would load, what is served, and
\* whether the server runs.
Moves(k) ==
    LET saved == Load(k, TextOf(k))
        same  == saved' = saved
    IN  \/ up /\ mem[k] = saved /\ mem'[k] = mem[k] /\ up' = up
        \/ up /\ mem'[k] = saved /\ same /\ up' = up
        \/ up /\ up' = FALSE /\ same /\ mem'[k] = mem[k]
        \/ ~up /\ up' = TRUE /\ mem'[k] = saved /\ same
        \/ same /\ mem'[k] = mem[k] /\ up' = up

LEMMA NextMoves ==
    ASSUME ~Overlap, CliKey = None, TypeOK, Serial, [Next]_vars, NEW k \in AdoptsLast
    PROVE  Moves(k)
<1>1. k \in Kind
  BY DEF AdoptsLast, Kind
<1>2. ASSUME NEW c \in Caller, Handles(c) \/ EditPeer(c)
      PROVE  Moves(k)
  <2>1. Proper(c) /\ up
    <3>1. CASE Handles(c)
      <4>1. CASE worker[c].pc = "idle"
        BY <3>1, <4>1, HandlesSerial DEF Handles, Begins, SaveKey, DeleteKey, ReplaceKeys,
           DefineTag, UndefineTag, AddPeer, DeletePeer, SetPeerEnabled, SetTier, UpdatePeer,
           Arrives, RenderLive, CreateTemp, WriteTemp, RenameTemp, SaveFails, Adopt
      <4>2. CASE worker[c].pc # "idle"
        BY <3>1, <4>2, HandlesSerial, Begun DEF Alone
      <4> QED  BY <4>1, <4>2
    <3>2. CASE EditPeer(c)
      BY <3>2, EditPeerSerial, Begun DEF Alone
    <3> QED  BY <1>2, <3>1, <3>2
  <2>2. PICK j \in Kind : Only(c, j) /\ Kept(j)
    BY <2>1 DEF Proper
  <2>3. CASE j = k
    BY <1>1, <2>1, <2>2, <2>3 DEF Only, Kept, Moves
  <2>4. CASE j # k
    <3>1. mem'[k] = mem[k] /\ TextOf(k)' = TextOf(k) /\ up' = up
      BY <1>1, <2>2, <2>4 DEF Only, TextOf
    <3> QED  BY <3>1 DEF Moves
  <2> QED  BY <2>3, <2>4
<1>3. CASE Crash
  <2>1. mem' = mem /\ TextOf(k)' = TextOf(k)
    BY <1>3 DEF Crash, TextOf
  <2> QED  BY <1>3, <2>1 DEF Crash, Moves
<1>4. CASE Restart
  <2>1. mem'[k] = Load(k, TextOf(k)) /\ TextOf(k)' = TextOf(k)
    BY <1>1, <1>4 DEF Restart, Loaded, TextOf
  <2> QED  BY <1>4, <2>1 DEF Restart, Moves
<1>5. CASE UNCHANGED vars
  <2>1. mem' = mem /\ TextOf(k)' = TextOf(k) /\ up' = up
    BY <1>5 DEF vars, TextOf
  <2> QED  BY <2>1 DEF Moves
<1> QED  BY <1>2, <1>3, <1>4, <1>5, NextIs

\* With one handler at a time per setting, what the handlers do to the key list and to
\* the vocabulary through temporary files, renames, failures, crashes and restarts is
\* what the register does: one step saves the change, and only then is it served.
THEOREM SavesRefineRegister ==
    ASSUME ~Overlap, CliKey = None
    PROVE  Spec => SavesAreDurable
<1>1. Init => KeyList!Init /\ Vocabulary!Init
  <2> SUFFICES ASSUME Init PROVE KeyList!Init /\ Vocabulary!Init
    OBVIOUS
  <2>1. \A k \in Kind : mem[k] = Load(k, TextOf(k))
    BY DEF Init, Loaded
  <2>2. mem.acl = LoadAcl(TextOf("acl")) /\ mem.tags = LoadTags(TextOf("tags"))
    BY <2>1, LoadIs DEF Kind
  <2>3. HasAdmin(mem.acl)
    BY InitType, AclValues DEF TypeOK, MemOK, Kind
  <2> QED  BY <2>2, <2>3 DEF Init, KeyList!Init, Vocabulary!Init, AnyTags
<1>2. TypeOK => HasAdmin(LoadAcl(TextOf("acl")))
  BY LoadsValue, LoadIs, AclValues DEF TypeOK, Kind
<1>3. TypeOK' => HasAdmin(LoadAcl(TextOf("acl")))'
  BY <1>2, PTL
<1>4. TypeOK /\ TypeOK' /\ Serial /\ [Next]_vars => [KeyList!Next]_(KeyList!vars)
  <2> SUFFICES ASSUME TypeOK, TypeOK', Serial, [Next]_vars
               PROVE  [KeyList!Next]_(KeyList!vars)
    OBVIOUS
  <2>1. PICK k \in AdoptsLast : k = "acl"
    BY DEF AdoptsLast
  <2>2. Moves(k)
    BY NextMoves
  <2>3. /\ Load(k, TextOf(k)) = LoadAcl(TextOf("acl"))
        /\ Load(k, TextOf(k))' = LoadAcl(TextOf("acl"))'
        /\ mem[k] = mem.acl /\ mem'[k] = mem'.acl
    BY <2>1, LoadIs
  <2>4. HasAdmin(LoadAcl(TextOf("acl"))')
    BY <1>3 DEF HasAdmin
  <2> QED  BY <2>2, <2>3, <2>4 DEF Moves, KeyList!Next, KeyList!Save, KeyList!Adopt,
              KeyList!Crash, KeyList!Restart, KeyList!vars
<1>5. TypeOK /\ Serial /\ [Next]_vars => [Vocabulary!Next]_(Vocabulary!vars)
  <2> SUFFICES ASSUME TypeOK, Serial, [Next]_vars
               PROVE  [Vocabulary!Next]_(Vocabulary!vars)
    OBVIOUS
  <2>1. PICK k \in AdoptsLast : k = "tags"
    BY DEF AdoptsLast
  <2>2. Moves(k)
    BY NextMoves
  <2>3. /\ Load(k, TextOf(k)) = LoadTags(TextOf("tags"))
        /\ Load(k, TextOf(k))' = LoadTags(TextOf("tags"))'
        /\ mem[k] = mem.tags /\ mem'[k] = mem'.tags
    BY <2>1, LoadIs
  <2> QED  BY <2>2, <2>3 DEF Moves, Vocabulary!Next, Vocabulary!Save, Vocabulary!Adopt,
              Vocabulary!Crash, Vocabulary!Restart, Vocabulary!vars, AnyTags
<1>6. Spec => KeyList!Spec
  BY <1>1, <1>4, SerialIsInvariant, PTL DEF Spec, KeyList!Spec
<1>7. Spec => Vocabulary!Spec
  BY <1>1, <1>5, SerialIsInvariant, PTL DEF Spec, Vocabulary!Spec
<1> QED  BY <1>6, <1>7 DEF SavesAreDurable
=============================================================================

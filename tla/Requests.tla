------------------------------ MODULE Requests ------------------------------
(***************************************************************************)
(* Requests about several namespaces at a server that stores some of them  *)
(* and has peers for others (src/handlers.rs; forward_to, forward_batch    *)
(* and reader_url of src/galaxy.rs).  A read goes to one mirror of each    *)
(* item, grouped; a write goes whole to every mirror of any item; a STIX   *)
(* export asks one mirror for each namespace.  The answers are put back in *)
(* the order of the request.                                               *)
(*                                                                         *)
(* The peers have no peers of their own: chains of servers are module      *)
(* Cascade, counts and their merging module Mirrors.                       *)
(***************************************************************************)
EXTENDS Naturals, Sequences, FiniteSets, SequencesExt, Functions

CONSTANTS
    Entry,       \* the server the clients talk to
    Peers,       \* its peers, in order
    Namespace,
    Internal,    \* namespaces every server keeps about itself
    Holds,       \* server -> the namespaces it stores
    Declared,    \* peer -> the namespaces the entry believes it stores
    Alive,       \* what the entry may believe of its peers: sets of them
    Rank,        \* value -> the peers by rendezvous weight, greatest first
    Refuses,     \* server -> namespaces the key presented there does not reach
    Value,
    Client,
    Batch,       \* batches sent: sequences of [ns, value, noshadow]
    Wanted,      \* exports asked for: sequences of namespaces
    Capacity,    \* rejections kept
    Stock,       \* what the servers may hold at first: functions to sets of items
    MaxFaults,   \* bound: requests or answers lost
    None

Server == {Entry} \cup Range(Peers)
Item   == {i \in Namespace \X Value : i[1] \notin Internal}

VARIABLES
    held,      \* server -> the <<namespace, value>> pairs it holds
    alive,     \* the peers the entry believes alive
    tally,     \* value -> namespaces the entry has counted it in for its peers
    rejected,  \* the entry's latest rejections, newest last
    job,       \* client -> its request
    took,      \* ghost: client -> <<server, item>> -> times an item was recorded
    searched,  \* ghost: client -> <<server, item>> -> times a search was recorded
    faults

vars == <<held, alive, tally, rejected, job, took, searched, faults>>

NoJob == [kind |-> None, items |-> <<>>, todo |-> <<>>, answer |-> <<>>, got |-> <<>>,
          status |-> None, there |-> {}, lost |-> {}]

Pair(item)     == <<item.ns, item.value>>
Indices(items) == DOMAIN items
Open(c)        == job[c].kind # None /\ job[c].status = None

\* The slots of a request's ghosts: which server, which item.
Slots(items) == Server \X Indices(items)
Zero(items)  == [s \in Slots(items) |-> 0]
Plus(f, hit) == [s \in DOMAIN f |-> IF s \in hit THEN f[s] + 1 ELSE f[s]]

-----------------------------------------------------------------------------
(* Which peer to ask.                                                      *)

\* Not stored here, and not this server's own either.
Elsewhere(ns) == ns \notin Holds[Entry] \cup Internal

HoldersOf(ns)     == SelectSeq(Peers, LAMBDA p : ns \in Declared[p])
LiveHoldersOf(ns) == SelectSeq(HoldersOf(ns), LAMBDA p : p \in alive)

\* reader_url: one live holder, chosen by the value.
ReaderUrl(ns, value) ==
    IF LiveHoldersOf(ns) = <<>> THEN None
    ELSE SelectSeq(Rank[value], LAMBDA p : p \in Range(LiveHoldersOf(ns)))[1]

\* Peers in the order they first come up, each with the indices it is to serve.
Grouped(indexed) ==
    LET peers == FoldLeft(LAMBDA acc, x : IF Contains(acc, x[1]) THEN acc ELSE Append(acc, x[1]),
                          <<>>, indexed)
        Share(p) == SelectSeq(indexed, LAMBDA x : x[1] = p)
    IN  [k \in DOMAIN peers |->
           <<peers[k], [i \in DOMAIN Share(peers[k]) |-> Share(peers[k])[i][2]]>>]

-----------------------------------------------------------------------------
(* What one server does with the items it is given.                        *)

\* check_item: refused to this key, or not writable here at all.
CheckItem(s, item) ==
    IF item.ns \in Refuses[s] THEN "refused"
    ELSE IF item.ns \in Internal \/ item.ns \notin Holds[s] THEN "invalid"
    ELSE "ok"

\* The items a server records, and its answer for each.
Accepted(s, items) == {i \in Indices(items) : CheckItem(s, items[i]) = "ok"}
WriteAnswer(s, items) ==
    [i \in Indices(items) |->
        IF i \notin Accepted(s, items) THEN "error"
        ELSE IF Pair(items[i]) \in held[s]
                \/ \E j \in Accepted(s, items) : j < i /\ Pair(items[j]) = Pair(items[i])
        THEN "old" ELSE "new"]

\* sighting_reader::read, of one item.
ReadAnswer(s, item) == IF Pair(item) \in held[s] THEN "found" ELSE "missing"

\* Rejections::record: the oldest makes way.
Reject(list, items) ==
    LET all == list \o items
    IN  IF Capacity = 0 THEN <<>>
        ELSE SubSeq(all, IF Len(all) > Capacity THEN Len(all) - Capacity + 1 ELSE 1, Len(all))

\* The verdict on a batch of writes.
Verdict(answer, refusals) ==
    LET failed == {i \in DOMAIN answer : answer[i] = "error"}
    IN  IF failed = {} THEN "ok"
        ELSE IF failed # DOMAIN answer THEN "partial"
        ELSE IF refusals = failed THEN "forbidden" ELSE "failed"

Refusals(s, items) == {i \in Indices(items) : CheckItem(s, items[i]) = "refused"}

-----------------------------------------------------------------------------
(* Reads: /r of one value, /rb of several.                                 *)

NotYet(c) == job[c].kind = None

Reading(kind, items, here, groups) ==
    [NoJob EXCEPT !.kind = kind, !.items = items, !.todo = groups, !.answer = here,
                  !.status = IF groups = <<>> THEN "answered" ELSE None]

\* forwarded_read and do_read: the search is recorded here before anything is
\* asked of a mirror.
StartRead(c, item, hops) ==
    LET items  == <<item>>
        url    == ReaderUrl(item.ns, item.value)
        noted  == IF item.noshadow THEN {} ELSE {<<Entry, 1>>}
        Ends(status) == [NoJob EXCEPT !.kind = "read", !.items = items, !.status = status]
    IN
    /\ NotYet(c)
    /\ IF item.ns \in Refuses[Entry] THEN
         /\ job' = [job EXCEPT ![c] = Ends("forbidden")]
         /\ searched' = [searched EXCEPT ![c] = Zero(items)]
       ELSE IF Elsewhere(item.ns) /\ hops = 0 THEN
         /\ job' = [job EXCEPT ![c] = Ends("loop")]
         /\ searched' = [searched EXCEPT ![c] = Zero(items)]
       ELSE
         /\ searched' = [searched EXCEPT ![c] = Plus(Zero(items), noted)]
         /\ job' = [job EXCEPT ![c] =
               IF ~Elsewhere(item.ns)
               THEN Reading("read", items, <<ReadAnswer(Entry, item)>>, <<>>)
               ELSE IF url = None THEN Ends("unanswered")
               ELSE Reading("read", items, <<"pending">>, <<<<url, <<1>>>>>>)]
    /\ took' = [took EXCEPT ![c] = Zero(items)]
    /\ UNCHANGED <<held, alive, tally, rejected, faults>>

\* do_read_bulk, up to the first send.
StartReadBulk(c, items, hops) ==
    LET far(i)  == Elsewhere(items[i].ns)
        url(i)  == IF far(i) /\ hops > 0 THEN ReaderUrl(items[i].ns, items[i].value) ELSE None
        asked   == SelectSeq([i \in Indices(items) |-> <<url(i), i>>], LAMBDA x : x[1] # None)
        here    == [i \in Indices(items) |->
                      IF ~far(i) THEN ReadAnswer(Entry, items[i])
                      ELSE IF url(i) = None THEN "error" ELSE "pending"]
        noted   == {<<Entry, i>> : i \in {j \in Indices(items) :
                      ~items[j].noshadow /\ (far(j) => url(j) # None)}}
    IN
    /\ NotYet(c)
    /\ IF \E i \in Indices(items) : items[i].ns \in Refuses[Entry] THEN
         /\ job' = [job EXCEPT ![c] =
               [NoJob EXCEPT !.kind = "read", !.items = items, !.status = "forbidden"]]
         /\ searched' = [searched EXCEPT ![c] = Zero(items)]
       ELSE
         /\ job' = [job EXCEPT ![c] = Reading("read", items, here, Grouped(asked))]
         /\ searched' = [searched EXCEPT ![c] = Plus(Zero(items), noted)]
    /\ took' = [took EXCEPT ![c] = Zero(items)]
    /\ UNCHANGED <<held, alive, tally, rejected, faults>>

\* Mutant: a mirror is sent the items as the client sent them.
ShareAsSent(c, indices) == [k \in DOMAIN indices |-> job[c].items[indices[k]]]

\* What a mirror is sent: its share, asking for no shadow.
Share(c, indices) ==
    [k \in DOMAIN indices |-> [job[c].items[indices[k]] EXCEPT !.noshadow = TRUE]]

\* Mutant: a mirror's answers are put back by their own position.
PlacedByPosition(indices, said) ==
    [i \in Range(indices) |-> IF i \in DOMAIN said THEN said[i] ELSE "no answer"]

\* A mirror's answers, back where the items were.
Placed(indices, said) ==
    [i \in Range(indices) |->
        LET k == CHOOSE k \in DOMAIN indices : indices[k] = i
        IN  IF k \in DOMAIN said THEN said[k] ELSE "no answer"]

\* The mirror answers for its share, or says nothing that can be read; by then
\* it may have recorded the searches.
SendRead(c, arrives, heard) ==
    /\ Open(c) /\ job[c].kind = "read"
    /\ LET p == Head(job[c].todo)[1]
           indices == Head(job[c].todo)[2]
           share   == Share(c, indices)
           refused == \E k \in DOMAIN share : share[k].ns \in Refuses[p]
           said    == IF ~heard \/ refused THEN <<>>
                      ELSE [k \in DOMAIN share |-> ReadAnswer(p, share[k])]
           noted   == IF ~arrives \/ refused THEN {}
                      ELSE {<<p, indices[k]>> : k \in {j \in DOMAIN share : ~share[j].noshadow}}
       IN  /\ job' = [job EXCEPT ![c] = [@ EXCEPT
                 !.todo = Tail(@), !.answer = Placed(indices, said) @@ @,
                 !.status = IF Len(job[c].todo) = 1 THEN "answered" ELSE None]]
           /\ searched' = [searched EXCEPT ![c] = Plus(@, noted)]
    /\ UNCHANGED <<held, alive, tally, rejected, took>>

-----------------------------------------------------------------------------
(* Writes: /wb.                                                            *)

FarNamespaces(items) ==
    SelectSeq([i \in Indices(items) |-> items[i].ns], LAMBDA ns : Elsewhere(ns))

\* Mutant: a peer is listed once for each item it holds.
EveryHolder(items) ==
    FlattenSeq([k \in DOMAIN FarNamespaces(items) |-> LiveHoldersOf(FarNamespaces(items)[k])])

\* The live peers holding any item of a batch, each once.
BatchPeers(items) ==
    FoldLeft(LAMBDA acc, p : IF Contains(acc, p) THEN acc ELSE Append(acc, p), <<>>,
        FlattenSeq([k \in DOMAIN FarNamespaces(items) |-> LiveHoldersOf(FarNamespaces(items)[k])]))

\* write_bulk, up to the first send.  A batch with nothing for the peers is
\* written here item by item; one the budget or the peers cannot take at all
\* is refused whole.
StartWriteBulk(c, items, hops) ==
    LET wanted == BatchPeers(items)
        answer == WriteAnswer(Entry, items)
        failed == SelectSeq([i \in Indices(items) |-> i], LAMBDA i : answer[i] = "error")
        Job(status) == [NoJob EXCEPT !.kind = "write", !.items = items, !.status = status]
    IN
    /\ NotYet(c)
    /\ IF FarNamespaces(items) = <<>> THEN
         /\ held' = [held EXCEPT ![Entry] = @ \cup {Pair(items[i]) : i \in Accepted(Entry, items)}]
         /\ took' = [took EXCEPT ![c] = Plus(Zero(items), {Entry} \X Accepted(Entry, items))]
         /\ rejected' = Reject(rejected, [k \in DOMAIN failed |-> Pair(items[failed[k]])])
         /\ job' = [job EXCEPT ![c] =
               [Job(Verdict(answer, Refusals(Entry, items))) EXCEPT !.answer = answer]]
       ELSE
         /\ job' = [job EXCEPT ![c] =
               IF hops = 0 THEN Job("loop")
               ELSE IF wanted = <<>> THEN Job("no holder")
               ELSE [Job(None) EXCEPT !.todo = wanted]]
         /\ took' = [took EXCEPT ![c] = Zero(items)]
         /\ UNCHANGED <<held, rejected>>
    /\ searched' = [searched EXCEPT ![c] = Zero(items)]
    /\ UNCHANGED <<alive, tally, faults>>

\* forward_batch: the whole batch, to each of them once.
SendBatch(c, arrives, heard) ==
    /\ Open(c) /\ job[c].kind = "write" /\ job[c].todo # <<>>
    /\ LET p == Head(job[c].todo)
           items == job[c].items
           taken == IF arrives THEN Accepted(p, items) ELSE {}
       IN  /\ job' = [job EXCEPT ![c].todo = Tail(@),
                         ![c].got = IF heard THEN Append(@, WriteAnswer(p, items)) ELSE @]
           /\ held' = [held EXCEPT ![p] = @ \cup {Pair(items[i]) : i \in taken}]
           /\ took' = [took EXCEPT ![c] = Plus(@, {p} \X taken)]
    /\ UNCHANGED <<alive, tally, rejected, searched>>

\* The peers' answers for item i that say it was written.
Took(c, i) == SelectSeq(job[c].got, LAMBDA said : said[i] # "error")

\* note_consensus_batch: once for each item a mirror said was new.
NoteConsensusBatch(items, fresh) ==
    tally' = [v \in Value |-> tally[v] + Cardinality({i \in fresh : items[i].value = v})]

\* merged_batch: what this server stores is written here, the rest is as the
\* first peer to take it said.
MergeBatch(c) ==
    /\ Open(c) /\ job[c].kind = "write" /\ job[c].todo = <<>>
    /\ LET items  == job[c].items
           mine   == {i \in Indices(items) : ~Elsewhere(items[i].ns)}
           here   == WriteAnswer(Entry, items)
           answer == [i \in Indices(items) |->
                        IF i \in mine THEN here[i]
                        ELSE IF Took(c, i) = <<>> THEN "error" ELSE Took(c, i)[1][i]]
           failed == SelectSeq([i \in Indices(items) |-> i],
                               LAMBDA i : i \in mine /\ answer[i] = "error")
           taken  == mine \cap Accepted(Entry, items)
           fresh  == {i \in Indices(items) \ mine : answer[i] = "new"}
       IN  IF job[c].got = <<>> THEN
             /\ job' = [job EXCEPT ![c].status = "bad gateway"]
             /\ UNCHANGED <<held, tally, rejected, took>>
           ELSE
             /\ held' = [held EXCEPT ![Entry] = @ \cup {Pair(items[i]) : i \in taken}]
             /\ took' = [took EXCEPT ![c] = Plus(@, {Entry} \X taken)]
             /\ rejected' = Reject(rejected, [k \in DOMAIN failed |-> Pair(items[failed[k]])])
             /\ NoteConsensusBatch(items, fresh)
             /\ job' = [job EXCEPT ![c].answer = answer, ![c].status = Verdict(answer, {})]
    /\ UNCHANGED <<alive, searched, faults>>

\* validate_bulk: the same check, and nothing written.
Validate(c, items) ==
    /\ NotYet(c)
    /\ LET answer == [i \in Indices(items) |->
                        IF i \in Accepted(Entry, items) THEN "ok" ELSE "error"]
       IN  job' = [job EXCEPT ![c] = [NoJob EXCEPT
              !.kind = "validate", !.items = items, !.answer = answer,
              !.status = Verdict(answer, Refusals(Entry, items))]]
    /\ took' = [took EXCEPT ![c] = Zero(items)]
    /\ searched' = [searched EXCEPT ![c] = Zero(items)]
    /\ UNCHANGED <<held, alive, tally, rejected, faults>>

-----------------------------------------------------------------------------
(* Exports.                                                                *)

Exists(s, ns) == \E v \in Value : <<ns, v>> \in held[s]

\* gathered_export, up to the first send: this server's part, and what nobody
\* holds.  Names served elsewhere are grouped by mirror.
StartExport(c, names) ==
    LET reader(ns) == IF Elsewhere(ns) THEN ReaderUrl(ns, None) ELSE Entry
        asked == SelectSeq([k \in DOMAIN names |-> <<reader(names[k]), names[k]>>],
                           LAMBDA x : x[1] \notin {None, Entry})
        here  == {ns \in Range(names) : reader(ns) = Entry /\ Exists(Entry, ns)}
    IN
    /\ NotYet(c)
    /\ job' = [job EXCEPT ![c] =
          IF \E ns \in Range(names) : ns \in Refuses[Entry]
          THEN [NoJob EXCEPT !.kind = "export", !.items = names, !.status = "forbidden"]
          ELSE [NoJob EXCEPT !.kind = "export", !.items = names, !.todo = Grouped(asked),
                  !.answer = [ns \in Range(names) |->
                     IF ns \in here THEN "exported"
                     ELSE IF reader(ns) \in {None, Entry} THEN "missing" ELSE "pending"],
                  !.there = {ns \in Range(names) : reader(ns) # None /\ Exists(reader(ns), ns)}]]
    /\ took' = [took EXCEPT ![c] = Zero(names)]
    /\ searched' = [searched EXCEPT ![c] = Zero(names)]
    /\ UNCHANGED <<held, alive, tally, rejected, faults>>

\* Mutant: a mirror that refuses is taken for one that has nothing.
UnreachableIfLost(heard, refused) == ~heard

\* A mirror that does not answer, or answers anything but a bundle or a 404,
\* could not be asked; its namespaces are missing either way.
Unreachable(heard, refused) == ~heard \/ refused

SendExport(c, heard) ==
    /\ Open(c) /\ job[c].kind = "export" /\ job[c].todo # <<>>
    /\ LET p == Head(job[c].todo)[1]
           share == Range(Head(job[c].todo)[2])
           refused == share \cap Refuses[p] # {}
           have == IF ~heard \/ refused THEN {} ELSE {ns \in share : Exists(p, ns)}
       IN  job' = [job EXCEPT ![c] = [@ EXCEPT
              !.todo = Tail(@),
              !.answer = [ns \in share |-> IF ns \in have THEN "exported" ELSE "missing"] @@ @,
              !.lost = IF Unreachable(heard, refused) THEN @ \cup share ELSE @]]
    /\ UNCHANGED <<held, alive, tally, rejected, took, searched>>

\* merge_exports and the answer: nothing at all is a 502 if some mirror could
\* not be asked, and a 404 if all of them could.
EndExport(c) ==
    /\ Open(c) /\ job[c].kind = "export" /\ job[c].todo = <<>>
    /\ job' = [job EXCEPT ![c].status =
          IF \E ns \in DOMAIN job[c].answer : job[c].answer[ns] = "exported" THEN "ok"
          ELSE IF job[c].lost # {} THEN "bad gateway" ELSE "not found"]
    /\ UNCHANGED <<held, alive, tally, rejected, took, searched, faults>>

-----------------------------------------------------------------------------
\* A send gets through, or the request or its answer is lost.
Send(c, arrives, heard) ==
    /\ heard => arrives
    /\ IF heard THEN UNCHANGED faults ELSE faults < MaxFaults /\ faults' = faults + 1
    /\ \/ SendRead(c, arrives, heard)
       \/ SendBatch(c, arrives, heard)
       \/ SendExport(c, heard) /\ arrives = heard

Init ==
    /\ held \in Stock
    /\ alive \in Alive
    /\ tally = [v \in Value |-> 0]
    /\ rejected = <<>>
    /\ job = [c \in Client |-> NoJob]
    /\ took = [c \in Client |-> Zero(<<>>)]
    /\ searched = [c \in Client |-> Zero(<<>>)]
    /\ faults = 0

Next ==
    \E c \in Client :
        \/ \E items \in Batch, hops \in {0, 1} :
              \/ Len(items) = 1 /\ StartRead(c, items[1], hops)
              \/ StartReadBulk(c, items, hops)
              \/ StartWriteBulk(c, items, hops)
        \/ \E items \in Batch : Validate(c, items)
        \/ \E names \in Wanted : StartExport(c, names)
        \/ \E arrives, heard \in BOOLEAN : Send(c, arrives, heard)
        \/ MergeBatch(c) \/ EndExport(c)

Spec == Init /\ [][Next]_vars

-----------------------------------------------------------------------------
Finished(c, kind) == job[c].kind = kind /\ job[c].status # None

\* An answer of a batch is about the item it stands beside: one that says found
\* is for a value the server chosen for that item holds, and one that has been
\* asked of a mirror is not left open (do_read_bulk).
AnswersInOrder ==
    \A c \in Client : Finished(c, "read") =>
        \A i \in DOMAIN job[c].answer :
            LET item == job[c].items[i]
                server == IF Elsewhere(item.ns) THEN ReaderUrl(item.ns, item.value) ELSE Entry
            IN  /\ job[c].answer[i] # "pending"
                /\ job[c].answer[i] = "found" => Pair(item) \in held[server]

\* A search is recorded once, at the server the client talks to, whichever
\* mirror reads the value and whatever becomes of its answer (forwarded_read,
\* do_read_bulk, suppressing_shadow).
SearchedOnce ==
    \A c \in Client : \A slot \in DOMAIN searched[c] :
        /\ searched[c][slot] <= IF slot[1] = Entry THEN 1 ELSE 0
        /\ /\ Finished(c, "read") /\ slot[1] = Entry
           /\ slot[2] \in DOMAIN job[c].answer /\ job[c].answer[slot[2]] # "error"
           => searched[c][slot] = IF job[c].items[slot[2]].noshadow THEN 0 ELSE 1

\* A batch counts each item at most once on each server, and one answered with
\* success has been counted somewhere (forward_batch, merged_batch).
CountedOnce ==
    \A c \in Client :
        /\ \A slot \in DOMAIN took[c] : took[c][slot] <= 1
        /\ Finished(c, "write") =>
              \A i \in DOMAIN job[c].answer : job[c].answer[i] # "error" =>
                  \E s \in Server : took[c][<<s, i>>] = 1

\* An export answers that there is no such namespace only if the servers that
\* were to serve it had none of it, and a partial one leaves out only what could
\* not be asked for (gathered_export).
ExportHonest ==
    \A c \in Client :
        /\ Finished(c, "export") /\ job[c].status = "not found" => job[c].there = {}
        /\ Finished(c, "export") /\ job[c].status = "ok" =>
              \A ns \in job[c].there : job[c].answer[ns] = "exported" \/ ns \in job[c].lost
=============================================================================

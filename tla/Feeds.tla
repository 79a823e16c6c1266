-------------------------------- MODULE Feeds --------------------------------
(***************************************************************************)
(* A server that ingests a feed, and what reads it meanwhile: the ZeroMQ   *)
(* subscription that records each message (ingest/mod.rs), the STIX export *)
(* and the import of its bundle elsewhere (stix.rs, ingest/stix.rs,        *)
(* main.rs --import-stix), the client that polls /_api/latest, the         *)
(* management interface that adds, deletes and browses, and the DNS        *)
(* threads.                                                                *)
(*                                                                         *)
(* A write is three steps of its writer, as sighting_writer takes them:    *)
(* the value is written (with its activity), the clock is read for the     *)
(* record of latest writes, and the entry is pushed under its lock.        *)
(*                                                                         *)
(* `scene' is what happens in this behaviour: who reads, what is published *)
(* and what was stored before, and how far the clock runs.                 *)
(***************************************************************************)
EXTENDS Misp, Arrivals, Dns, Browse

CONSTANTS Scene,        \* the scenes
          Thread,       \* DNS threads
          Held,         \* namespaces this server stores (and those below)
          PollLimit,    \* the limit= of the polling client
          MaxRestarts,
          MaxQueries    \* queries the DNS threads take in all

VARIABLES scene, clock,
          inbox,      \* what is still to be published
          connected, breaks, restarts,
          writer,     \* each writer: what it has to write, and its step
          received,   \* messages taken in, for the properties
          store,      \* <<namespace, value>> |-> count, window and tags
          rejected,   \* rejections: what was not accepted
          latest, activity,
          accepted,   \* <<root, bucket>> |-> accepted writes, for the properties
          polled,     \* the client: where it is, and what it was shown
          export,     \* the export under way
          imported,   \* the other server's store after the import, or None
          made,       \* namespaces created with nothing in them
          deleted,    \* namespaces deleted; `deleting' is the deletion under way
          deleting,
          browse,     \* a walk of the namespace tree
          limiter, thread, queries,
          heard       \* <<source, window>> |-> queries let through

feedVars == <<inbox, connected, breaks, received>>
readVars == <<export, imported>>
treeVars == <<made, deleted, deleting, browse>>
dnsVars  == <<limiter, thread, queries, heard>>
vars == <<scene, clock, feedVars, restarts, writer, store, rejected, latest,
          activity, accepted, polled, readVars, treeVars, dnsVars>>

Writer == {"feed", "admin"}

(***************************************************************************)
(* Storing.                                                                *)
(***************************************************************************)

Holds(ns) == \E h \in Held : IsPrefix(h, ns)

\* check: what the writer refuses before it touches the database.
Refused(s) == s.value = None \/ Internal(s.ns) \/ ~Holds(s.ns)

Least(a, b) == IF a < b THEN a ELSE b
Most(a, b) == IF a > b THEN a ELSE b

\* One sighting: it is counted, the window widens, and the tags are merged.
WriteTagged(db, ns, value, when, tags) ==
    LET key == <<ns, value>>
        old == db[key]
    IN (key :> IF key \in DOMAIN db
               THEN [count |-> old.count + 1, first |-> Least(old.first, when),
                     last |-> Most(old.last, when), tags |-> AddTags(old.tags, tags)]
               ELSE [count |-> 1, first |-> when, last |-> when,
                     tags |-> AddTags(<<>>, tags)])
       @@ db

\* record: the first write opens the window, the others close it.
Record(db, s, now) ==
    LET first == IF s.at # None THEN s.at ELSE now
        last == IF s.last # None THEN s.last ELSE first
        again(d, n) == WriteTagged(d, s.ns, s.value, last, <<>>)
    IN FoldLeft(again, WriteTagged(db, s.ns, s.value, first, s.tags),
                [n \in 1..(s.count - 1) |-> n])

(***************************************************************************)
(* The feed.                                                               *)
(***************************************************************************)

\* A pasted list, in one namespace and with the same tags; empty lines go.
AddValues(list) ==
    LET values == SelectSeq(list.values, LAMBDA v : v # None)
    IN [i \in DOMAIN values |-> Once(list.ns, values[i], list.at, list.tags)]

Idle == [todo |-> <<>>, step |-> "write", stamp |-> 0]

Init ==
    /\ scene \in Scene
    /\ clock = 0
    /\ inbox = scene.messages
    /\ connected = TRUE
    /\ breaks = 0
    /\ restarts = 0
    /\ writer = [w \in Writer |-> [Idle EXCEPT !.todo =
                    IF w = "feed" THEN <<>> ELSE AddValues(scene.added)]]
    /\ received = <<>>
    /\ store = scene.store
    /\ rejected = {}
    /\ latest = <<>>
    /\ activity = <<>>
    /\ accepted = <<>>
    /\ polled = [since |-> Nothing, seen |-> {}, fresh |-> FALSE]
    /\ export = [step |-> "idle"]
    /\ imported = None
    /\ made = {}
    /\ deleted = {}
    /\ deleting = Nothing
    /\ browse = [step |-> "idle"]
    /\ limiter = NewLimiter
    /\ thread = [t \in Thread |-> [step |-> "idle"]]
    /\ queries = 0
    /\ heard = <<>>

\* body_of and the parser of the format: a message neither reads is dropped.
Sightings(message) ==
    CASE message.format = "misp" -> Parse(message.body)
      [] message.format = "native" -> ParseNative(message.body)
      [] message.format = "malformed" -> <<>>

Receive ==
    /\ connected /\ inbox # <<>>
    /\ writer["feed"].todo = <<>>
    /\ inbox' = Tail(inbox)
    /\ received' = Append(received, Head(inbox))
    /\ writer' = [writer EXCEPT !["feed"].todo = Sightings(Head(inbox))]
    /\ UNCHANGED <<scene, clock, connected, breaks, restarts, store, rejected,
                   latest, activity, accepted, polled, treeVars, readVars, dnsVars>>

\* The stream ends; what is published until the next subscription is lost.
StreamEnds ==
    /\ connected /\ breaks < scene.breaks
    /\ writer["feed"].todo = <<>>
    /\ connected' = FALSE
    /\ breaks' = breaks + 1
    /\ UNCHANGED <<scene, clock, inbox, restarts, writer, received, store, rejected,
                   latest, activity, accepted, polled, treeVars, readVars, dnsVars>>

PublishUnheard ==
    /\ ~connected /\ inbox # <<>>
    /\ inbox' = Tail(inbox)
    /\ UNCHANGED <<scene, clock, connected, breaks, restarts, writer, received,
                   store, rejected, latest, activity, accepted, polled, treeVars, readVars,
                   dnsVars>>

Subscribe ==
    /\ ~connected
    /\ connected' = TRUE
    /\ UNCHANGED <<scene, clock, inbox, breaks, restarts, writer, received, store,
                   rejected, latest, activity, accepted, polled, treeVars, readVars, dnsVars>>

Noted(ns) ==
    LET at == <<RootOf(ns), (clock \div Hour) * Hour>>
    IN (at :> 1 + (IF at \in DOMAIN accepted THEN accepted[at] ELSE 0)) @@ accepted

\* record and write_tagged_as up to the database; a refusal is kept, and the
\* next sighting is taken.
WriteNext(w) ==
    LET s == Head(writer[w].todo)
    IN /\ writer[w].todo # <<>> /\ writer[w].step = "write"
       /\ IF Refused(s)
          THEN /\ rejected' = rejected \cup {<<s.ns, s.value>>}
               /\ writer' = [writer EXCEPT ![w].todo = Tail(@)]
               /\ UNCHANGED <<store, activity, accepted>>
          ELSE /\ activity' = RecordWrite(activity, s.ns, clock)
               /\ accepted' = Noted(s.ns)
               /\ store' = Record(store, s, clock)
               /\ writer' = [writer EXCEPT ![w].step = "stamp"]
               /\ UNCHANGED rejected
       /\ UNCHANGED <<scene, clock, feedVars, restarts, latest, polled, treeVars, readVars,
                      dnsVars>>

\* Latest::record reads the clock before it has the lock.
StampNext(w) ==
    /\ writer[w].step = "stamp"
    /\ writer' = [writer EXCEPT ![w].step = "list", ![w].stamp = clock]
    /\ UNCHANGED <<scene, clock, feedVars, restarts, store, rejected, latest,
                   activity, accepted, polled, treeVars, readVars, dnsVars>>

ListNext(w) ==
    LET s == Head(writer[w].todo)
    IN /\ writer[w].step = "list"
       /\ latest' = RecordAt(latest, s.ns, s.value, writer[w].stamp)
       /\ writer' = [writer EXCEPT ![w] = [Idle EXCEPT !.todo = Tail(writer[w].todo)]]
       /\ polled' = [polled EXCEPT !.fresh = FALSE]
       /\ UNCHANGED <<scene, clock, feedVars, restarts, store, rejected, activity,
                      accepted, treeVars, readVars, dnsVars>>

Tick ==
    /\ clock < scene.ticks
    /\ clock' = clock + 1
    /\ UNCHANGED <<scene, feedVars, restarts, writer, store, rejected, latest,
                   activity, accepted, polled, treeVars, readVars, dnsVars>>

\* A clean stop saves all that is remembered, and the start restores it.
Restart ==
    /\ scene.polls /\ restarts < MaxRestarts
    /\ \A w \in Writer : writer[w].todo = <<>>
    /\ restarts' = restarts + 1
    /\ latest' = Restore(latest, <<>>)
    /\ activity' = RestoreActivity(<<>>, activity)
    /\ UNCHANGED <<scene, clock, feedVars, writer, store, rejected, accepted,
                   polled, treeVars, readVars, dnsVars>>

(***************************************************************************)
(* The polling client: it passes back the time of the newest entry it got. *)
(***************************************************************************)

Poll ==
    LET shown == Recent(latest, PollLimit, polled.since, <<>>)
    IN /\ scene.polls
       /\ polled' = [since |-> IF shown = <<>> THEN polled.since ELSE shown[1].written,
                     seen |-> polled.seen \cup ToSet(shown),
                     fresh |-> TRUE]
       /\ UNCHANGED <<scene, clock, feedVars, restarts, writer, store, rejected,
                      latest, activity, accepted, treeVars, readVars, dnsVars>>

(***************************************************************************)
(* The export, a namespace at a time, and the import of its bundle.        *)
(***************************************************************************)

Views(db, ns) ==
    LET keys == SetToSeq({k \in DOMAIN db : k[1] = ns})
    IN [i \in DOMAIN keys |->
           [value |-> keys[i][2], count |-> db[keys[i]].count,
            first_seen |-> db[keys[i]].first, last_seen |-> db[keys[i]].last,
            tags |-> db[keys[i]].tags]]

Catalogue == made \cup {k[1] : k \in DOMAIN store}

\* export_stix_api: every namespace named is authorized, then expanded.  What
\* is not held here is left to the mirrors.
BeginExport ==
    LET held == {scene.peer[i].ns : i \in DOMAIN scene.peer}
        wanted == IF scene.recursive
                  THEN ReachableSubtrees(Catalogue, held # {}, <<held>>, scene.exports,
                                         scene.reads)
                  ELSE scene.exports
    IN /\ wanted # <<>> /\ export.step = "idle"
       /\ \A i \in DOMAIN scene.exports : CanReadAt(scene.reads, scene.exports[i])
       /\ export' = [step |-> "paging", wanted |-> wanted,
                     todo |-> IF held = {} THEN wanted
                              ELSE SelectSeq(wanted, LAMBDA ns : Holds(ns)),
                     pages |-> NoPages(scene.limit),
                     before |-> {k \in DOMAIN store :
                                    /\ CanReadAt(scene.reads, k[1])
                                    /\ \E i \in DOMAIN scene.exports :
                                          \/ scene.exports[i] = k[1]
                                          \/ scene.recursive /\ IsPrefix(scene.exports[i], k[1])}]
       /\ UNCHANGED <<scene, clock, feedVars, restarts, writer, store, rejected, latest,
                      activity, accepted, polled, treeVars, imported, dnsVars>>

\* value_page of one namespace; a namespace that is not there is passed over.
ExportNext ==
    LET ns == Head(export.todo)
    IN /\ export.step = "paging" /\ export.todo # <<>>
       /\ export' = [export EXCEPT !.todo = Tail(@),
              !.pages = IF ns \in Catalogue \/ @.budget = 0
                        THEN TakePage(@, ns, TypeOfNamespace(scene.order, ns),
                                      Views(store, ns))
                        ELSE @]
       /\ UNCHANGED <<scene, clock, feedVars, restarts, writer, store, rejected,
                      latest, activity, accepted, polled, treeVars, imported, dnsVars>>

\* What a mirror exported of the namespaces asked of it is folded in.
PeerPages(wanted) ==
    LET asked == SelectSeq(scene.peer, LAMBDA part : part.ns \in ToSet(wanted) /\ ~Holds(part.ns))
    IN FoldLeft(LAMBDA acc, part : TakePage(acc, part.ns,
                                       TypeOfNamespace(scene.order, part.ns), part.views),
                NoPages(scene.limit), asked)

FinishExport ==
    LET theirs == PeerPages(export.wanted)
    IN /\ export.step = "paging" /\ export.todo = <<>>
       /\ export' = [step |-> "done", before |-> export.before,
                     parts |-> export.pages.parts \o theirs.parts,
                     bundle |-> MergeExports(<<ExportOf(export.pages, scene.untyped)>>
                                   \o (IF theirs.parts = <<>> THEN <<>>
                                       ELSE <<ExportOf(theirs, scene.untyped)>>))]
       /\ UNCHANGED <<scene, clock, feedVars, restarts, writer, store, rejected, latest,
                      activity, accepted, polled, treeVars, imported, dnsVars>>

\* main.rs import_stix, into a server that stores every namespace.
Import ==
    /\ export.step = "done" /\ imported = None
    /\ imported' = FoldLeft(LAMBDA db, s : Record(db, s, clock), <<>>,
                            ParseBundle(export.bundle.objects))
    /\ UNCHANGED <<scene, clock, feedVars, restarts, writer, store, rejected, latest,
                   activity, accepted, polled, treeVars, export, dnsVars>>

(***************************************************************************)
(* The management interface: namespaces are created, deleted and browsed.  *)
(***************************************************************************)

CreateNamespace(ns) ==
    /\ ns \in scene.creates /\ ns \notin Catalogue
    /\ made' = made \cup {ns}
    /\ UNCHANGED <<scene, clock, feedVars, restarts, writer, store, rejected, latest,
                   activity, accepted, polled, readVars, deleted, deleting, browse,
                   dnsVars>>

\* Database::delete, of exactly one namespace ...
Delete(ns) ==
    /\ ns \in scene.deletes \ deleted /\ deleting = Nothing
    /\ ns \in Catalogue /\ ~Internal(ns)
    /\ store' = Restrict(store, {k \in DOMAIN store : k[1] # ns})
    /\ made' = made \ {ns}
    /\ deleted' = deleted \cup {ns}
    /\ deleting' = ns
    /\ UNCHANGED <<scene, clock, feedVars, restarts, writer, rejected, latest, activity,
                   accepted, polled, readVars, browse, dnsVars>>

\* ... and, last, Latest::forget_namespace.
Forget ==
    /\ deleting # Nothing
    /\ latest' = ForgetNamespace(latest, deleting)
    /\ deleting' = Nothing
    /\ UNCHANGED <<scene, clock, feedVars, restarts, writer, store, rejected, activity,
                   accepted, polled, readVars, made, deleted, browse, dnsVars>>

Readable == {ns \in Catalogue : Browsable(ns) /\ CanReadAt(scene.reads, ns)}

\* From the root of the tree, or down the flat list of names.
BeginBrowse(path) ==
    /\ scene.page > 0 /\ browse.step = "idle"
    /\ browse' = [step |-> "walking", before |-> Readable, seen |-> {},
                  todo |-> <<[path |-> path, offset |-> 0]>>]
    /\ UNCHANGED <<scene, clock, feedVars, restarts, writer, store, rejected, latest,
                   activity, accepted, polled, readVars, made, deleted, deleting, dnsVars>>

\* One page of one level; its folders, and its next page, are opened later.
OpenPage ==
    LET at == Head(browse.todo)
        level == NamespaceChildren(Catalogue, at.path, at.offset, scene.page, scene.reads)
        folders == SelectSeq(level.items, LAMBDA e : e.descendants > 0)
        more == IF at.offset + scene.page < level.total
                THEN <<[at EXCEPT !.offset = @ + scene.page]>> ELSE <<>>
    IN /\ browse.step = "walking" /\ browse.todo # <<>> /\ at.path # Nothing
       /\ browse' = [browse EXCEPT
             !.seen = @ \cup {e.path : e \in {f \in ToSet(level.items) : f.is_namespace}},
             !.todo = more \o [i \in DOMAIN folders |-> [path |-> folders[i].path, offset |-> 0]]
                           \o Tail(@)]
       /\ UNCHANGED <<scene, clock, feedVars, restarts, writer, store, rejected, latest,
                      activity, accepted, polled, readVars, made, deleted, deleting,
                      dnsVars>>

ListPage ==
    LET at == Head(browse.todo)
        page == NamespacePage(Catalogue, at.offset, scene.page, scene.reads)
    IN /\ browse.step = "walking" /\ browse.todo # <<>> /\ at.path = Nothing
       /\ browse' = [browse EXCEPT
             !.seen = @ \cup ToSet(page.items),
             !.todo = IF at.offset + scene.page < page.total
                      THEN <<[at EXCEPT !.offset = @ + scene.page]>> ELSE <<>>]
       /\ UNCHANGED <<scene, clock, feedVars, restarts, writer, store, rejected, latest,
                      activity, accepted, polled, readVars, made, deleted, deleting,
                      dnsVars>>

(***************************************************************************)
(* The DNS threads.                                                        *)
(***************************************************************************)

\* RateLimiter::allow reads the time before it locks the source's shard.
Hear(t) ==
    /\ thread[t].step = "idle" /\ queries < MaxQueries
    /\ queries' = queries + 1
    /\ \E query \in scene.queries :
          thread' = [thread EXCEPT ![t] = [step |-> "limit", query |-> query,
                                           window |-> clock]]
    /\ UNCHANGED <<scene, clock, feedVars, restarts, writer, store, rejected, latest,
                   activity, accepted, polled, treeVars, readVars, limiter, heard>>

\* A source over its budget is not answered at all.
Limit(t) ==
    LET source == thread[t].query.source
        counted == Counted(limiter, source, thread[t].window)
        at == <<source, thread[t].window>>
    IN /\ thread[t].step = "limit"
       /\ limiter' = counted
       /\ IF Within(counted, source)
          THEN /\ heard' = (at :> 1 + (IF at \in DOMAIN heard THEN heard[at] ELSE 0))
                           @@ heard
               /\ thread' = [thread EXCEPT ![t].step = "answer"]
          ELSE /\ thread' = [thread EXCEPT ![t] = [step |-> "idle"]]
               /\ UNCHANGED heard
       /\ UNCHANGED <<scene, clock, feedVars, restarts, writer, store, rejected,
                      latest, activity, accepted, polled, treeVars, readVars, queries>>

\* A lookup is a read; a name that looks nothing up changes nothing.
Answer(t) ==
    LET query == thread[t].query
        wanted == LooksUp(query)
        key == <<wanted.ns, wanted.value>>
        count == IF wanted # NoValue /\ key \in DOMAIN store THEN store[key].count ELSE 0
    IN /\ thread[t].step = "answer"
       /\ thread' = [thread EXCEPT ![t] = [step |-> "idle",
                                           reply |-> Respond(query, count)]]
       /\ activity' = IF wanted = NoValue THEN activity
                      ELSE RecordRead(activity, wanted.ns, clock)
       /\ UNCHANGED <<scene, clock, feedVars, restarts, writer, store, rejected,
                      latest, accepted, polled, treeVars, readVars, limiter, queries,
                      heard>>

Next ==
    \/ Receive
    \/ StreamEnds
    \/ PublishUnheard
    \/ Subscribe
    \/ \E w \in Writer : WriteNext(w)
    \/ \E w \in Writer : StampNext(w)
    \/ \E w \in Writer : ListNext(w)
    \/ Tick
    \/ Restart
    \/ Poll
    \/ BeginExport
    \/ ExportNext
    \/ FinishExport
    \/ Import
    \/ \E ns \in scene.creates : CreateNamespace(ns)
    \/ \E ns \in scene.deletes : Delete(ns)
    \/ Forget
    \/ \E path \in {<<>>, Nothing} : BeginBrowse(path)
    \/ OpenPage
    \/ ListPage
    \/ \E t \in Thread : Hear(t)
    \/ \E t \in Thread : Limit(t)
    \/ \E t \in Thread : Answer(t)

Spec == Init /\ [][Next]_vars

(***************************************************************************)
(* Properties.                                                             *)
(***************************************************************************)

\* The attributes taken in, each with the event it came with.
Published ==
    Concat([i \in DOMAIN received |->
        IF received[i].format # "misp" THEN <<>>
        ELSE LET found == Collect(received[i].body)
             IN [j \in DOMAIN found |-> [attribute |-> found[j],
                                         event |-> received[i].body.event]]])

Items == Concat([i \in DOMAIN received |->
                    IF received[i].format = "native" THEN received[i].body ELSE <<>>])

\* Whether a published attribute is to be recorded under a key, as itself or
\* as its digest.
RecordedAs(a, key) ==
    /\ a.to_ids \/ ~RequireToIds
    /\ a.value # None
    /\ Holds(key[1])
    /\ \/ StoreValues /\ key = <<MispNamespaceFor(a.type), a.value>>
       \/ key = <<HashedNamespace, Digest(a.value)>>

TlpOf(tags) == ToSet(TagValues(tags, "tlp"))

\* An attribute's own marking, or else the first one of its event.
MarkedAs(p) ==
    IF TlpOf(p.attribute.tags) # {} THEN TlpOf(p.attribute.tags)
    ELSE IF p.event = None \/ TlpOf(p.event.tags) = {} THEN {}
    ELSE {TagValue(p.event.tags, "tlp")}

Keys ==
    LET ps == ToSet(Published)
        is == ToSet(Items)
    IN DOMAIN store
         \cup {<<MispNamespaceFor(p.attribute.type), p.attribute.value>> :
                  p \in {q \in ps : MispNamespaceFor(q.attribute.type) # None}}
         \cup {<<HashedNamespace, Digest(p.attribute.value)>> :
                  p \in {q \in ps : q.attribute.value # None}}
         \cup {<<i.ns, i.value>> : i \in is}

CountOf(db, key) == IF key \in DOMAIN db THEN db[key].count ELSE 0
TagsIn(db, key) == IF key \in DOMAIN db THEN db[key].tags ELSE <<>>

\* Between messages, every value counts each time it was published, mapped
\* types in the clear and every type as a digest, and bears exactly the
\* markings its attributes had of their own or else from their event
\* (ingest/misp.rs parse and tags_of, ingest/mod.rs consume and record).
FeedRecorded ==
    LET published == Published
        items == Items
    IN writer["feed"].todo = <<>> /\ scene.added.values = <<>> /\ scene.deletes = {} =>
        \A key \in Keys :
            LET mine == {i \in DOMAIN published : RecordedAs(published[i].attribute, key)}
                native == {i \in DOMAIN items : /\ <<items[i].ns, items[i].value>> = key
                                                /\ Holds(key[1])}
            IN /\ CountOf(store, key) = CountOf(scene.store, key)
                                         + Cardinality(mine) + Cardinality(native)
               /\ TlpOf(TagsIn(store, key)) =
                     TlpOf(TagsIn(scene.store, key))
                         \cup UNION {MarkedAs(published[i]) : i \in mine}

AcceptedIn(root, from, to) ==
    MapThenSumSet(LAMBDA at : accepted[at],
                  {at \in DOMAIN accepted : at[1] = root /\ from <= at[2] /\ at[2] <= to})

\* Whether a table gives the number of values that bear a tag, in a row of
\* its own or in the sum of a family that stands for it.
Tabled(tag, table, counts) ==
    \E row \in table :
        \/ row.name = tag /\ row.used = counts[tag]
        \/ /\ row.family /\ Under(row.name, tag)
           /\ row.used = MapThenSumSet(LAMBDA t : counts[t],
                            {t \in DOMAIN counts : /\ Under(row.name, t)
                                                   /\ row.defined \/ t \notin scene.vocabulary})

\* What the management interface reports is what happened: the activity of a
\* root shows each bucket of the window the writes accepted in it, through a
\* restart as well, and every tag on a stored value is in the tag table a
\* browser opens, with its number, whatever the vocabulary has of it (activity.rs bump, restore and
\* report, db.rs tag_usage, admin/mod.rs list_tags).
ReportsTrue ==
    /\ \A width \in {Hour, Day} :
          LET keep == IF width = Hour THEN HourlyBuckets ELSE DailyBuckets
              report == Report(activity, width, keep, clock, keep, DOMAIN activity)
          IN \A root \in DOMAIN activity, i \in 1..keep :
                LET start == report.start + (i - 1) * width
                IN report.roots[root].writes[i] = AcceptedIn(root, start, start + width - 1)
    /\ browse.step = "walking" /\ browse.todo = <<>> =>
          LET counts == TagUsage(store)
              table == ListTags(scene.vocabulary, counts, TRUE)
          IN \A tag \in DOMAIN counts : Tabled(tag, table, counts)

\* A walk of the namespace tree that opens every folder and every page, or of
\* every page of the flat list, comes to each readable namespace there was when
\* it began and that was not deleted since, whatever is created meanwhile
\* (db.rs namespace_children and namespace_page).
BrowsedAll ==
    browse.step = "walking" /\ browse.todo = <<>> =>
        browse.before \subseteq browse.seen \cup deleted

\* "After the write, so a client that sees it listed can read it back": what is
\* listed as just written can be read once nobody is writing or deleting
\* (sighting_writer.rs write_tagged_as).
ListedIsStored ==
    deleting = Nothing /\ (\A w \in Writer : writer[w].todo = <<>>) =>
        \A i \in DOMAIN latest : <<latest[i].ns, latest[i].value>> \in DOMAIN store

\* The views an export carries to a server with the same mapping.
Carried ==
    LET parts == export.parts
        lands(part, v) ==
            LET type == ObservableType(v, part.default, scene.untyped)
            IN type # None /\ NamespaceFor(type) # None
    IN Concat([i \in DOMAIN parts |->
                  SelectSeq(parts[i].views, LAMBDA v : lands(parts[i], v))])

\* A bundle imported elsewhere gives every value it carries the total, the
\* window and the markings it was exported with, in however many namespaces
\* and on however many servers it was held, and an export that does not say it
\* was cut short carries all that was there when it began, whatever the feed
\* did meanwhile (stix.rs bundle_of and merge_exports, ingest/stix.rs
\* parse_bundle: an indicator a sighting points at is not counted again).
RoundTrip ==
    LET carried == Carried
    IN imported # None =>
        /\ \A i \in DOMAIN carried :
              LET value == carried[i].value
                  same == {j \in DOMAIN carried : carried[j].value = value}
                  there == {k \in DOMAIN imported : k[2] = value}
              IN /\ MapThenSumSet(LAMBDA k : imported[k].count, there) =
                       MapThenSumSet(LAMBDA j : Clamped(carried[j].count), same)
                 /\ Min({imported[k].first : k \in there}) =
                       Min({carried[j].first_seen : j \in same})
                 /\ Max({imported[k].last : k \in there}) =
                       Max({carried[j].last_seen : j \in same})
                 /\ UNION {TlpOf(imported[k].tags) : k \in there} =
                       UNION {ToSet(Markings(carried[j])) : j \in same}
        /\ ~export.bundle.truncated =>
              \A k \in export.before :
                  \E i \in DOMAIN export.parts :
                     /\ export.parts[i].ns = k[1]
                     /\ \E j \in DOMAIN export.parts[i].views :
                            export.parts[i].views[j].value = k[2]

\* A client that passes back the time of the newest entry it was shown has,
\* after each poll, been shown every entry the server still lists, with the
\* time of its last write (latest.rs recent, handlers.rs LatestQuery).
PolledAll == polled.fresh => ToSet(latest) \subseteq polled.seen

\* However long a thread is held up between reading the time and locking the
\* shard, one window lets a source through at most once per thread more than
\* the limit for each thread (dns/server.rs RateLimiter::allow).
RateBounded ==
    RateLimit > 0 =>
        \A at \in DOMAIN heard :
            heard[at] <= RateLimit * Cardinality(Thread) + Cardinality(Thread) - 1

\* The limit as RateLimiter states it, "a fixed one-second window per source
\* address": no window lets a source through more often than the limit.
LimitKept == RateLimit > 0 => \A at \in DOMAIN heard : heard[at] <= RateLimit
=============================================================================

------------------------------- MODULE MCFeeds -------------------------------
\* A feed of addresses, domains and free text, whose digests are kept too; the
\* registry keys are mapped to a namespace this server does not store.  Scenes:
\* exports while the feed writes, a client polling, and DNS threads.
EXTENDS Feeds

Ips    == <<"feeds", "ips">>
Doms   == <<"feeds", "doms">>
Eu     == <<"other", "eu">>
Cold   == <<"feeds", "cold">>
Hashes == <<"hashes">>
Far    == <<"far">>

V(text) == [text |-> text, slashes |-> 0, quotes |-> 0, odd |-> FALSE, digest |-> FALSE]
Ip   == V("ip")
Dom  == [V("dom") EXCEPT !.quotes = 1]
Note == V("note")
Key  == [V("key") EXCEPT !.slashes = 1]

V4  == Plain("ipv4-addr")
V6  == Plain("ipv6-addr")
DN  == Plain("domain-name")
Reg == Plain("windows-registry-key")

TypesStix  == (V4 :> Ips) @@ (V6 :> Ips) @@ (DN :> Doms) @@ (OfFile("SHA-256") :> Hashes)
                  @@ (Reg :> Far)
TypesMisp  == ("ip-src" :> Ips) @@ ("domain" :> Doms) @@ ("regkey" :> Far)
ShapeOf    == ("ip" :> V4) @@ ("dom" :> DN)
HeldHere   == {<<"feeds">>, <<"hashes">>}
Ring       == <<"feeds">>

Attr(type, value, tags) ==
    [type |-> type, value |-> value, to_ids |-> TRUE, at |-> None, event |-> None,
     category |-> "c", comment |-> "c", tags |-> tags]
Tlp(level) == Tag("tlp", level)

Event == [format |-> "misp",
          body |-> [attributes |-> <<>>,
                    event |-> [id |-> "e", tags |-> <<Tlp("amber"), Tlp("red")>>,
                               attributes |-> <<Attr("ip-src", Ip, <<Tlp("white")>>),
                                                Attr("domain", Dom, <<>>)>>,
                               objects |-> <<<<Attr("text", Note, <<>>)>>>>]]]
Single == [format |-> "misp",
           body |-> [attributes |-> <<[Attr("ip-src", Ip, <<>>) EXCEPT !.at = 3],
                                      [Attr("domain", Dom, <<>>) EXCEPT !.to_ids = FALSE],
                                      Attr("regkey", Key, <<>>)>>,
                     event |-> None]]
Brief == [format |-> "misp",
          body |-> [attributes |-> <<>>,
                    event |-> [id |-> "e", tags |-> <<Tlp("amber"), Tlp("red")>>, objects |-> <<>>,
                               attributes |-> <<Attr("ip-src", Ip, <<>>)>>]]]
Garbage == [format |-> "malformed", body |-> None]
Native  == [format |-> "native",
            body |-> <<[ns |-> Ips, value |-> Ip, at |-> None],
                       [ns |-> Doms, value |-> Dom, at |-> 0]>>]
Native2 == [format |-> "native",
            body |-> <<[ns |-> Ips, value |-> Note, at |-> None],
                       [ns |-> Ips, value |-> Ip, at |-> 0],
                       [ns |-> Far, value |-> Ip, at |-> 0]>>]

Stored(count, tags) == [count |-> count, first |-> 1, last |-> 2, tags |-> tags]
View(value, count, tags) ==
    [value |-> value, count |-> count, first_seen |-> 1, last_seen |-> 5, tags |-> tags]

Pasted(values) == [ns |-> Ips, values |-> values, at |-> None, tags |-> <<Tlp("red")>>]

Quietly == [messages |-> <<>>, store |-> <<>>, ticks |-> 0, breaks |-> 0,
            polls |-> FALSE, exports |-> <<>>, limit |-> 9, peer |-> <<>>,
            untyped |-> "include", order |-> <<V4, V6, DN, OfFile("SHA-256"), Reg>>,
            queries |-> {}, recursive |-> FALSE, reads |-> {<<>>}, vocabulary |-> {},
            added |-> Pasted(<<>>), creates |-> {}, deletes |-> {}, page |-> 0]

Peer == <<[ns |-> Eu, views |-> <<View(Ip, 3, <<Tlp("green"), Tag("identity", "them")>>),
                                  View(Dom, 2, <<Tag("stix-id", <<"given", "d">>)>>)>>]>>
Export(messages, limit, peer, untyped, order) ==
    [Quietly EXCEPT !.messages = messages, !.exports = <<Ips, Hashes, Doms, Eu, <<"gone">>>>,
                    !.limit = limit, !.peer = peer, !.untyped = untyped, !.order = order,
                    !.store = (<<Ips, Note>> :> Stored(2, <<>>))]
Sixes == <<V6, V4, DN, OfFile("SHA-256"), Reg>>
Exporting ==
    {Export(<<Event, Single>>, 9, Peer, "include", Quietly.order),
     Export(<<Single, Garbage, Event>>, 3, Peer, "skip", Sixes),
     Export(<<Event>>, 9, <<>>, "skip", Sixes),
     Export(<<Single, Single>>, 9, Peer, "include", Sixes),
     [Export(<<Event>>, 9, Peer, "include", Sixes) EXCEPT !.recursive = TRUE,
         !.exports = <<<<"other">>, <<"feeds">>>>, !.reads = {<<"other">>, <<"feeds">>}],
     [Export(<<Event>>, 9, <<>>, "include", Sixes) EXCEPT !.recursive = TRUE,
         !.exports = <<<<>>, <<"feeds">>>>, !.reads = {<<>>}]}

Polling ==
    {[Quietly EXCEPT !.messages = <<Native, Native2>>, !.ticks = 4, !.breaks = 1, !.polls = TRUE]}

Asked(form, value) == [place |-> "under", label |-> form, labels |-> [form |-> form, value |-> value]]
Query(source, type, name) ==
    [source |-> source, op |-> "query", class |-> "IN", type |-> type, name |-> name]
Asking ==
    {[Quietly EXCEPT !.messages = <<Native>>, !.ticks = 1,
        !.queries = {Query("x", "A", Asked("ip", Ip)), Query("y", "ANY", Asked("domain", Dom))}],
     [Quietly EXCEPT !.ticks = 2, !.store = (<<Ips, Ip>> :> Stored(12, <<>>)),
        !.queries = {Query("x", "TXT", Asked("ip", Ip)), Query("x", "A", [place |-> "outside"])}]}

\* A tree of two levels, a page of one entry, and namespaces that appear.
Whole(family) == <<family, Each>>
Browse1(reads, vocabulary) ==
    [Quietly EXCEPT !.messages = <<Brief>>, !.page = 1, !.reads = reads,
        !.creates = {Cold, <<"_shadow", "ips">>}, !.added = Pasted(<<None, Dom>>),
        !.vocabulary = vocabulary,
        !.store = (<<Doms, Dom>> :> Stored(1, <<Tlp("green")>>))
                      @@ (<<<<"_all">>, Dom>> :> Stored(1, <<>>))]
Browsing ==
    {Browse1({<<>>}, {}), Browse1({<<>>}, {Whole("tlp"), Tlp("red")}),
     Browse1({<<"feeds">>}, {Tlp("amber"), Whole("event")})}

Delete1(page) ==
    [Quietly EXCEPT !.messages = <<Native>>, !.page = page, !.creates = {Cold},
        !.deletes = {Ips, Doms}, !.polls = TRUE,
        !.store = (<<Doms, Dom>> :> Stored(1, <<>>)) @@ (<<Ips, Note>> :> Stored(1, <<>>))]
Deleting == {Delete1(9)}

\* Scenes in which a statement of the code fails: an indicator that named two
\* values, a registry key, and a client writing while the feed does.
SharedId ==
    {[Quietly EXCEPT !.exports = <<Ips, Doms>>,
        !.store = (<<Ips, Ip>> :> Stored(2, <<Tag("stix-id", <<"given", "i">>)>>))
                      @@ (<<Doms, Dom>> :> Stored(3, <<Tag("stix-id", <<"given", "i">>)>>))]}
Backslash ==
    {[Quietly EXCEPT !.exports = <<Doms>>,
        !.store = (<<Doms, Key>> :> Stored(2, <<Tag("stix-type", Reg)>>))]}
Overtaking ==
    {[Quietly EXCEPT !.messages = <<Native>>, !.ticks = 2, !.polls = TRUE,
        !.added = Pasted(<<Note>>)]}

Shifting == {Delete1(1)}

Scenes  == Exporting \cup Polling \cup Asking \cup Browsing \cup Deleting
Segments == <<"_all", "_shadow", "cold", "doms", "eu", "far", "feeds", "gone", "hashes", "ips", "other">>
Exposing == ("ip" :> [ns |-> Ips, encoding |-> "ip"])
                @@ ("domain" :> [ns |-> Doms, encoding |-> "domain"])
=============================================================================

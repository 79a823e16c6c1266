-------------------------------- MODULE Stix --------------------------------
(***************************************************************************)
(* STIX bundles: what an export makes of stored values (stix.rs) and what  *)
(* an import makes of a bundle (ingest/stix.rs).                           *)
(*                                                                         *)
(* A value is its text with the number of backslashes and quotes in it     *)
(* (the two characters a pattern literal escapes), whether it is spelt     *)
(* otherwise than in its canonical lower-case form, and whether it is the  *)
(* digest of that text.  A tag is its family and its text; a value's tags  *)
(* keep their order, because the first tag of a family is the one that     *)
(* counts.  An observable type is a STIX object and, for a file, the hash. *)
(* A namespace is the sequence of its segments.  An id is what it is       *)
(* derived from.  A bundle is the sequence of its objects.  Names,         *)
(* confidence, kinds and validity are tags that travel as the identity     *)
(* does, and are left out.                                                 *)
(***************************************************************************)
EXTENDS Naturals, Sequences, SequencesExt, FiniteSets

CONSTANTS StixTypes,     \* [stix.types]: observable type |-> namespace
          StixDefault,   \* default_namespace, or None
          Shape,         \* text |-> the observable type it looks like
          Author,        \* the identity exports are published under
          MaxCount,      \* the most a STIX sighting may count
          None

Levels == {"white", "green", "amber", "red"}
OfFile(hash) == [object |-> "file", hash |-> hash]
Plain(object) == [object |-> object, hash |-> None]
UntypedType == Plain("x-sightingdb-value")
Tag(family, text) == <<family, text>>
Family(tag) == tag[1]

AddTags(tags, more) ==
    FoldLeft(LAMBDA all, t : IF t \in ToSet(all) THEN all ELSE Append(all, t),
             tags, more)

TagValues(tags, family) ==
    LET of == SelectSeq(tags, LAMBDA t : Family(t) = family)
    IN [i \in DOMAIN of |-> of[i][2]]

TagValue(tags, family) ==
    LET found == TagValues(tags, family)
    IN IF found = <<>> THEN None ELSE found[1]

Concat(seqs) == FoldLeft(LAMBDA x, y : x \o y, <<>>, seqs)

(***************************************************************************)
(* Export.  A view is a stored value with its count, its window and tags.  *)
(***************************************************************************)

\* The longest mapped namespace that covers ns says what ns holds.  `order' is
\* the order the map of types is walked in: of equals, the last one wins.
TypeOfNamespace(order, ns) ==
    LET covering == {i \in DOMAIN order : IsPrefix(StixTypes[order[i]], ns)}
        better(i, j) == \/ Len(StixTypes[order[i]]) > Len(StixTypes[order[j]])
                        \/ /\ Len(StixTypes[order[i]]) = Len(StixTypes[order[j]])
                           /\ i >= j
    IN IF covering = {} THEN None
       ELSE order[CHOOSE i \in covering : \A j \in covering : better(i, j)]

InferType(value) ==
    IF value.digest THEN OfFile("SHA-256")
    ELSE IF value.text \in DOMAIN Shape THEN Shape[value.text] ELSE None

\* None is a value left out and counted as skipped.
ObservableType(view, default, untyped) ==
    LET tagged == TagValue(view.tags, "stix-type")
    IN CASE tagged # None -> tagged
         [] tagged = None /\ default # None -> default
         [] OTHER -> IF InferType(view.value) # None THEN InferType(view.value)
                     ELSE IF untyped = "include" THEN UntypedType ELSE None

\* Every backslash doubled, every quote given one.
Escape(value) ==
    [value EXCEPT !.slashes = 2 * @ + value.quotes]

Property(object) ==
    CASE object \in {"file", "mutex"} -> "name"
      [] object = "windows-registry-key" -> "key"
      [] object = "process" -> "command_line"
      [] object = "user-account" -> "user_id"
      [] object = "autonomous-system" -> "number"
      [] OTHER -> "value"

PatternFor(type, value) ==
    [object |-> type.object,
     path |-> IF type.hash # None THEN <<"hashes", type.hash>>
                                  ELSE <<Property(type.object)>>,
     literal |-> Escape(value)]

Identity(name) == [type |-> "identity", id |-> <<"identity", name>>, name |-> name]
Marking(level) == [type |-> "marking", id |-> <<"marking", level>>, tlp |-> level]

\* The id a value arrived with, or one made from the value.
IndicatorId(view, type) ==
    LET given == TagValue(view.tags, "stix-id")
    IN IF given # None THEN given ELSE <<"indicator", type, view.value>>

Markings(view) ==
    SelectSeq(TagValues(view.tags, "tlp"), LAMBDA level : level \in Levels)

SightedBy(view) ==
    LET names == TagValues(view.tags, "identity")
    IN IF names = <<>> THEN <<Author>> ELSE names

Indicator(view, type) ==
    [type |-> "indicator", id |-> IndicatorId(view, type),
     by |-> <<"identity", Author>>,
     pattern |-> <<PatternFor(type, view.value)>>,
     seen |-> view.first_seen,
     marks |-> [i \in DOMAIN Markings(view) |-> <<"marking", Markings(view)[i]>>]]

Clamped(count) ==
    IF count < 1 THEN 1 ELSE IF count > MaxCount THEN MaxCount ELSE count

SightingObject(ns, view, type) ==
    [type |-> "sighting", id |-> <<"sighting", ns, type, view.value>>,
     by |-> <<"identity", Author>>,
     count |-> Clamped(view.count),
     first |-> view.first_seen, last |-> view.last_seen,
     of |-> IndicatorId(view, type), data |-> <<>>,
     where |-> [i \in DOMAIN SightedBy(view) |-> <<"identity", SightedBy(view)[i]>>],
     marks |-> [i \in DOMAIN Markings(view) |-> <<"marking", Markings(view)[i]>>]]

\* The first object of an id stays.
DedupeById(objects) ==
    FoldLeft(LAMBDA kept, o :
                IF \E i \in DOMAIN kept : kept[i].id = o.id THEN kept
                ELSE Append(kept, o),
             <<>>, objects)

\* A part is a namespace, the type it holds by default, and its views.
BundleOf(parts, untyped) ==
    LET typed(part) == SelectSeq(part.views,
                           LAMBDA v : ObservableType(v, part.default, untyped) # None)
        pair(part, v) == LET type == ObservableType(v, part.default, untyped)
                         IN <<Indicator(v, type), SightingObject(part.ns, v, type)>>
        of(part) == Concat([i \in DOMAIN typed(part) |-> pair(part, typed(part)[i])])
        views == Concat([i \in DOMAIN parts |-> typed(parts[i])])
        all == Concat([i \in DOMAIN parts |-> parts[i].views])
        names == Concat([i \in DOMAIN views |-> TagValues(views[i].tags, "identity")])
        levels == UNION {ToSet(Markings(views[i])) : i \in DOMAIN views}
    IN [objects |-> DedupeById(
            <<Identity(Author)>>
                \o Concat([i \in DOMAIN parts |-> of(parts[i])])
                \o [i \in DOMAIN names |-> Identity(names[i])]
                \o SetToSeq({Marking(level) : level \in levels})),
        exported |-> Len(views),
        skipped |-> Len(all) - Len(views)]

\* export_namespaces, a page at a time: the budget is spent over the
\* namespaces in turn, and one reached with nothing left is not read.
NoPages(limit) == [budget |-> limit, truncated |-> FALSE, parts |-> <<>>]

TakePage(pages, ns, default, views) ==
    IF pages.budget = 0 THEN [pages EXCEPT !.truncated = TRUE]
    ELSE LET n == IF Len(views) < pages.budget THEN Len(views) ELSE pages.budget
         IN [budget |-> pages.budget - n,
             truncated |-> pages.truncated \/ n < Len(views),
             parts |-> Append(pages.parts,
                          [ns |-> ns, default |-> default,
                           views |-> SubSeq(views, 1, n)])]

ExportOf(pages, untyped) ==
    LET bundle == BundleOf(pages.parts, untyped)
    IN [objects |-> bundle.objects, exported |-> bundle.exported,
        skipped |-> bundle.skipped, truncated |-> pages.truncated]

\* merge_exports: the bundle one server holding everything would have made.
MergeExports(parts) ==
    [objects |-> DedupeById(Concat([i \in DOMAIN parts |-> parts[i].objects])),
     exported |-> FoldLeft(LAMBDA n, p : n + p.exported, 0, parts),
     skipped |-> FoldLeft(LAMBDA n, p : n + p.skipped, 0, parts),
     truncated |-> \E i \in DOMAIN parts : parts[i].truncated]

(***************************************************************************)
(* Import.                                                                 *)
(***************************************************************************)

NamespaceFor(type) ==
    IF type \in DOMAIN StixTypes THEN StixTypes[type] ELSE StixDefault

ById(objects, id) ==
    LET found == {i \in DOMAIN objects : objects[i].id = id}
    IN IF found = {} THEN None ELSE objects[CHOOSE i \in found :
                                              \A j \in found : j <= i]

\* Only `\'' is undone.
Unescape(literal) == [literal EXCEPT !.slashes = @ - literal.quotes]

FromPattern(pattern) ==
    [i \in DOMAIN pattern |->
        [type |-> IF pattern[i].object = "file" /\ pattern[i].path[1] = "hashes"
                  THEN OfFile(pattern[i].path[2]) ELSE Plain(pattern[i].object),
         value |-> Unescape(pattern[i].literal)]]

CollectObservable(object) ==
    IF object # None /\ object.type = "observable"
    THEN <<[type |-> object.of, value |-> object.value]>> ELSE <<>>

ObservablesOf(objects, observed) ==
    Concat([i \in DOMAIN observed.refs |->
               CollectObservable(ById(objects, observed.refs[i]))])

NamesOf(objects, ids) ==
    Concat([i \in DOMAIN ids |->
        LET who == ById(objects, ids[i])
        IN IF who # None /\ who.type = "identity"
           THEN <<Tag("identity", who.name)>> ELSE <<>>])

\* A marking is read from its fixed id.
Describe(objects, object) ==
    NamesOf(objects, <<object.by>>)
        \o [i \in DOMAIN object.marks |-> Tag("tlp", object.marks[i][2])]

DescribeIndicator(objects, indicator) ==
    Describe(objects, indicator) \o <<Tag("stix-id", indicator.id)>>

Emit(observables, first, last, count, tags) ==
    LET here(o) == [ns |-> NamespaceFor(o.type), value |-> o.value,
                    at |-> IF first # None THEN first ELSE last, last |-> last,
                    count |-> count,
                    tags |-> AddTags(<<Tag("stix-type", o.type)>>, tags)]
        landed == SelectSeq(observables, LAMBDA o : NamespaceFor(o.type) # None)
    IN [i \in DOMAIN landed |-> here(landed[i])]

FromSighting(objects, s) ==
    LET target == ById(objects, s.of)
        known == target # None
        isIndicator == known /\ target.type = "indicator"
        seen == (IF isIndicator THEN FromPattern(target.pattern)
                 ELSE CollectObservable(target))
                    \o Concat([i \in DOMAIN s.data |->
                          IF ById(objects, s.data[i]) = None THEN <<>>
                          ELSE ObservablesOf(objects, ById(objects, s.data[i]))])
        tags == Describe(objects, s) \o NamesOf(objects, s.where)
                    \o (IF isIndicator THEN DescribeIndicator(objects, target)
                                       ELSE <<>>)
    IN Emit(seen, s.first, s.last, s.count, tags)

FromObservedData(objects, o) ==
    Emit(ObservablesOf(objects, o), o.first, o.last, o.count,
         Describe(objects, o))

FromIndicator(objects, i) ==
    Emit(FromPattern(i.pattern), i.seen, None, 1, DescribeIndicator(objects, i))

Sighted(objects) ==
    {objects[i].of : i \in {j \in DOMAIN objects : objects[j].type = "sighting"}}

\* Mutant: every indicator is read, those a sighting points at included.
ParseBundleEveryIndicator(objects) ==
    Concat([i \in DOMAIN objects |->
        CASE objects[i].type = "sighting" -> FromSighting(objects, objects[i])
          [] objects[i].type = "observed-data" -> FromObservedData(objects, objects[i])
          [] objects[i].type = "indicator" -> FromIndicator(objects, objects[i])
          [] OTHER -> <<>>])

ParseBundle(objects) ==
    Concat([i \in DOMAIN objects |->
        CASE objects[i].type = "sighting" -> FromSighting(objects, objects[i])
          [] objects[i].type = "observed-data" -> FromObservedData(objects, objects[i])
          [] /\ objects[i].type = "indicator"
             /\ objects[i].id \notin Sighted(objects) ->
                FromIndicator(objects, objects[i])
          [] OTHER -> <<>>])
=============================================================================

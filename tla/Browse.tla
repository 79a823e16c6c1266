-------------------------------- MODULE Browse -------------------------------
(***************************************************************************)
(* What is listed of a server's namespaces and tags: the levels of the     *)
(* namespace tree and the tag table of the management interface (db.rs     *)
(* namespace_children and tag_usage, admin/mod.rs list_tags), and the      *)
(* namespaces a recursive export covers (handlers.rs reachable_subtrees).  *)
(*                                                                         *)
(* A namespace is the sequence of its path segments, a catalogue the set   *)
(* of those that exist, and `reads' the prefixes a key may read.  A tag is *)
(* <<family, text>>, and an entry of the vocabulary a tag or a family,     *)
(* <<family, Each>>.                                                        *)
(***************************************************************************)
EXTENDS Naturals, Sequences, FiniteSets, SequencesExt, FiniteSetsExt, Functions

CONSTANTS Alphabet,       \* the segments in their order
          FreeTextAbove,  \* more texts than this make a family free text
          Each

Comes(a, b) ==
    LET rank(s) == CHOOSE i \in DOMAIN Alphabet : Alphabet[i] = s
    IN rank(a) < rank(b)

\* The order of names, segment by segment.
Precedes(m, n) ==
    \/ IsStrictPrefix(m, n)
    \/ \E i \in DOMAIN m \cap DOMAIN n :
          /\ SubSeq(m, 1, i - 1) = SubSeq(n, 1, i - 1)
          /\ Comes(m[i], n[i])

Sorted(names) == SetToSortSeq(names, Precedes)

CanReadAt(reads, ns) == \E p \in reads : IsPrefix(p, ns)

\* skip(offset).take(limit)
Page(items, offset, limit) ==
    SubSeq(items, offset + 1, Min({offset + limit, Len(items)}))

(***************************************************************************)
(* The namespace tree.                                                     *)
(***************************************************************************)

\* Bookkeeping is not browsed; what was searched for is.
Browsable(ns) == ns # <<>> /\ ns[1] \notin {"_config", "_all"}

\* Mutant: a segment is a child only if it is a namespace itself.
NamespaceChildrenFlat(catalogue, prefix, offset, limit, reads) ==
    LET shown == {n \in catalogue : /\ Browsable(n) /\ CanReadAt(reads, n)
                                    /\ IsStrictPrefix(prefix, n)}
        at(s) == Append(prefix, s)
        names == SetToSortSeq({s \in ToSet(Alphabet) : at(s) \in shown}, Comes)
        entry(s) == [path |-> at(s), is_namespace |-> at(s) \in shown,
                     descendants |-> Cardinality({n \in shown : IsStrictPrefix(at(s), n)})]
        page == Page(names, offset, limit)
    IN [items |-> [i \in DOMAIN page |-> entry(page[i])], total |-> Len(names)]

\* One level of the tree, grouped on the segment that follows the prefix.
NamespaceChildren(catalogue, prefix, offset, limit, reads) ==
    LET shown == {n \in catalogue : /\ Browsable(n) /\ CanReadAt(reads, n)
                                    /\ IsStrictPrefix(prefix, n)}
        at(s) == Append(prefix, s)
        names == SetToSortSeq({n[Len(prefix) + 1] : n \in shown}, Comes)
        entry(s) == [path |-> at(s), is_namespace |-> at(s) \in shown,
                     descendants |-> Cardinality({n \in shown : IsStrictPrefix(at(s), n)})]
        page == Page(names, offset, limit)
    IN [items |-> [i \in DOMAIN page |-> entry(page[i])], total |-> Len(names)]

\* The flat listing of the same names.
NamespacePage(catalogue, offset, limit, reads) ==
    LET names == Sorted({n \in catalogue : Browsable(n) /\ CanReadAt(reads, n)})
    IN [items |-> Page(names, offset, limit), total |-> Len(names)]

(***************************************************************************)
(* The namespaces a recursive export covers.                               *)
(***************************************************************************)

NamespacesUnder(catalogue, prefix, reads) ==
    Sorted({n \in catalogue : /\ Browsable(n) /\ n[1] # "_shadow"
                              /\ IsPrefix(prefix, n) /\ CanReadAt(reads, n)})

\* What was named and all below it, each once, as the key may read it.
ExpandSubtrees(catalogue, wanted, reads) ==
    FoldLeft(LAMBDA found, prefix :
                found \o SelectSeq(NamespacesUnder(catalogue, prefix, reads),
                                   LAMBDA n : n \notin ToSet(found)),
             <<>>, wanted)

\* The catalogues of the peers that answer, one after the other.
GalaxyUnder(answers, prefixes) ==
    {n \in UNION ToSet(answers) : \E p \in ToSet(prefixes) : IsPrefix(p, n)}

\* With a galaxy, what its mirrors hold is found too, and all of it is sorted.
ReachableSubtrees(catalogue, galaxy, answers, wanted, reads) ==
    LET found == ExpandSubtrees(catalogue, wanted, reads)
        reached == {n \in GalaxyUnder(answers, wanted) :
                       /\ Browsable(n) /\ n[1] # "_shadow" /\ CanReadAt(reads, n)}
    IN IF galaxy THEN Sorted(ToSet(found) \cup reached) ELSE found

(***************************************************************************)
(* The tag table.                                                          *)
(***************************************************************************)

\* How many of the values stored bear each tag; all are in memory here.
TagUsage(store) ==
    LET counted == {k \in DOMAIN store : Browsable(k[1]) /\ k[1][1] # "_shadow"}
        used == UNION {ToSet(store[k].tags) : k \in counted}
    IN [t \in used |-> Cardinality({k \in counted : t \in ToSet(store[k].tags)})]

IsFamily(name) == name[2] = Each
Under(family, tag) == tag[1] = family[1]

\* Vocabulary::colour_of: the tag's own entry, or its family's.
Coloured(vocabulary, tag) ==
    tag \in vocabulary \/ \E f \in vocabulary : IsFamily(f) /\ Under(f, tag)

\* One row for each entry of the vocabulary; then the tags it has no colour
\* for, one by one, or as a family where they are used as free text.
ListTags(vocabulary, counts, everywhere) ==
    LET usage == IF everywhere THEN counts ELSE <<>>
        sum(tags) == MapThenSumSet(LAMBDA t : usage[t], tags)
        row(name, tags, defined) ==
            [name |-> name, family |-> IsFamily(name), used |-> sum(tags), defined |-> defined]
        carried(name) == {t \in DOMAIN usage : IF IsFamily(name) THEN Under(name, t) ELSE t = name}
        unknown == {t \in DOMAIN usage : ~Coloured(vocabulary, t)}
        keyed(t) == {u \in unknown : u[1] = t[1]}
        free(t) == t[1] # Each /\ Cardinality(keyed(t)) > FreeTextAbove
    IN {row(name, carried(name), TRUE) : name \in vocabulary}
         \cup {IF free(t) THEN row(<<t[1], Each>>, keyed(t), FALSE)
               ELSE row(t, {t}, FALSE) : t \in unknown}
=============================================================================

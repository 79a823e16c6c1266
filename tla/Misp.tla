-------------------------------- MODULE Misp --------------------------------
(***************************************************************************)
(* What a MISP publication becomes (ingest/misp.rs): the sightings of its  *)
(* attributes and of their digests, with the tags each one is given.       *)
(*                                                                         *)
(* A message has the attributes published on their own and, or None, the   *)
(* event: its id, its tags, its attributes and those of its objects.       *)
(***************************************************************************)
EXTENDS Stix

CONSTANTS MispTypes,        \* [zmq.types]: attribute type |-> namespace
          MispDefault,      \* default_namespace, or None
          RequireToIds,     \* ingest only what is flagged as actionable
          HashedNamespace,  \* hashed_namespace, or None
          StoreValues       \* store_values

SingleValued == {"tlp"}
ValueRevealing == {"description", "misp-event", "stix-type"}

MispNamespaceFor(type) ==
    IF type \in DOMAIN MispTypes THEN MispTypes[type] ELSE MispDefault

StixTypeForMisp(type) ==
    CASE type \in {"ip-src", "ip-dst", "ip-src|port", "ip-dst|port"} -> Plain("ipv4-addr")
      [] type \in {"domain", "hostname", "domain|ip"} -> Plain("domain-name")
      [] type \in {"url", "uri"} -> Plain("url")
      [] type \in {"email", "email-src", "email-dst", "email-reply-to"} -> Plain("email-addr")
      [] type \in {"md5", "filename|md5"} -> OfFile("MD5")
      [] type \in {"sha1", "filename|sha1"} -> OfFile("SHA-1")
      [] type \in {"sha256", "filename|sha256"} -> OfFile("SHA-256")
      [] type \in {"filename"} -> Plain("file")
      [] type \in {"mutex"} -> Plain("mutex")
      [] type \in {"regkey"} -> Plain("windows-registry-key")
      [] type \in {"mac-address"} -> Plain("mac-addr")
      [] type \in {"AS"} -> Plain("autonomous-system")
      [] OTHER -> None

Given(family, text) == IF text = None THEN <<>> ELSE <<Tag(family, text)>>

Conflicts(tags, tag) ==
    /\ Family(tag) \in SingleValued
    /\ \E i \in DOMAIN tags : Family(tags[i]) = Family(tag)

\* What an attribute inherits from the event it came with.
EventContext(event) ==
    IF event = None THEN [tags |-> <<>>, id |-> None]
                    ELSE [tags |-> event.tags, id |-> event.id]

\* Mutant: the event's tags are not inherited.
TagsOfItsOwn(attribute, context) ==
    AddTags(<<>>, Given("misp-type", attribute.type)
                      \o Given("stix-type", StixTypeForMisp(attribute.type))
                      \o attribute.tags)

TagsOf(attribute, context) ==
    LET own == Given("misp-type", attribute.type)
                   \o Given("stix-type", StixTypeForMisp(attribute.type))
                   \o Given("misp-category", attribute.category)
                   \o Given("misp-event", IF attribute.event # None
                                          THEN attribute.event ELSE context.id)
                   \o Given("description", attribute.comment)
                   \o attribute.tags
        inherit(tags, t) == IF Conflicts(tags, t) THEN tags ELSE Append(tags, t)
    IN AddTags(<<>>, FoldLeft(inherit, own, context.tags))

HashedTags(tags) == SelectSeq(tags, LAMBDA t : Family(t) \notin ValueRevealing)

\* sha256_hex: hexadecimal, so nothing in it is ever escaped.
Digest(value) ==
    [text |-> value.text, digest |-> TRUE, slashes |-> 0, quotes |-> 0,
     odd |-> FALSE]

Once(ns, value, at, tags) ==
    [ns |-> ns, value |-> value, at |-> at, last |-> None, count |-> 1,
     tags |-> tags]

AttributeToSightings(attribute, context) ==
    LET ns == MispNamespaceFor(attribute.type)
        tags == TagsOf(attribute, context)
    IN IF (RequireToIds /\ ~attribute.to_ids) \/ attribute.value = None
       THEN <<>>
       ELSE (IF ns = None \/ ~StoreValues THEN <<>>
             ELSE <<Once(ns, attribute.value, attribute.at, tags)>>)
                \o (IF HashedNamespace = None THEN <<>>
                    ELSE <<Once(HashedNamespace, Digest(attribute.value),
                                attribute.at, HashedTags(tags))>>)

\* Every attribute of a message, wherever it hangs.
Collect(message) ==
    message.attributes
        \o (IF message.event = None THEN <<>>
            ELSE message.event.attributes \o Concat(message.event.objects))

Parse(message) ==
    LET found == Collect(message)
        context == EventContext(message.event)
    IN Concat([i \in DOMAIN found |-> AttributeToSightings(found[i], context)])

ParseNative(items) ==
    [i \in DOMAIN items |-> Once(items[i].ns, items[i].value, items[i].at, <<>>)]
=============================================================================

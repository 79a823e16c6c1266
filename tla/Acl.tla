--------------------------------- MODULE Acl ---------------------------------
(***************************************************************************)
(* API keys and what each may do (src/acl.rs), with the two forms a grant  *)
(* is converted to and from: the entry of the management interface         *)
(* (KeyEntry in src/admin/mod.rs) and the text of the acl_file.            *)
(*                                                                         *)
(* A namespace or a prefix is the sequence of its path segments: slashes   *)
(* at the ends and doubled ones disappear in `segments`.  An ACL is a      *)
(* function from the keys it holds to the set of their grants.             *)
(***************************************************************************)
EXTENDS Naturals, Sequences, FiniteSets, Functions

CONSTANT Key,     \* API keys
         Prefix,  \* namespace prefixes grants are made on; <<>> is everything
         Unusable \* prefixes validate_namespace refuses

AllData == [prefix |-> <<>>, read |-> TRUE, write |-> TRUE, admin |-> FALSE]

AdminGrant == [prefix |-> <<>>, read |-> FALSE, write |-> FALSE, admin |-> TRUE]

\* What a clause of the acl_file, or an entry of the interface, can grant.
Grant == {AdminGrant} \cup {g \in [prefix : Prefix, read : BOOLEAN, write : BOOLEAN, admin : {FALSE}] :
                               g.read \/ g.write}

\* A key that is listed has at least one.
Grants == (SUBSET Grant) \ {{}}

\* Per path segment: feeds/misp covers feeds/misp/ips, not feeds/misp-internal.
Covers(grant, namespace) ==
    /\ Len(grant.prefix) <= Len(namespace)
    /\ SubSeq(namespace, 1, Len(grant.prefix)) = grant.prefix

NoKeys == <<>>

SetKey(acl, key, grants) ==
    [k \in DOMAIN acl \cup {key} |-> IF k = key THEN grants ELSE acl[k]]

GrantFull(acl, key) == SetKey(acl, key, {AllData, AdminGrant})

RemoveKey(acl, key) == Restrict(acl, DOMAIN acl \ {key})

IsAdmin(acl, key) == key \in DOMAIN acl /\ \E g \in acl[key] : g.admin

AdminCount(acl) == Cardinality({k \in DOMAIN acl : IsAdmin(acl, k)})

CanRead(acl, key, namespace) ==
    /\ key \in DOMAIN acl
    /\ \E g \in acl[key] : g.read /\ Covers(g, namespace)

CanWrite(acl, key, namespace) ==
    /\ key \in DOMAIN acl
    /\ \E g \in acl[key] : g.write /\ Covers(g, namespace)

-----------------------------------------------------------------------------
(* The interface's view of a key.                                          *)

KeyEntry == [key : Key, admin : BOOLEAN, read : SUBSET Prefix, write : SUBSET Prefix]

FromGrants(key, grants) ==
    [key   |-> key,
     admin |-> \E g \in grants : g.admin,
     read  |-> {g.prefix : g \in {h \in grants : h.read}},
     write |-> {g.prefix : g \in {h \in grants : h.write}}]

\* One grant per prefix, read and write of one prefix collapsed.
ToGrants(entry) ==
    {[prefix |-> p, read |-> p \in entry.read, write |-> p \in entry.write,
      admin  |-> FALSE] : p \in entry.read \cup entry.write}
    \cup (IF entry.admin THEN {AdminGrant} ELSE {})

Valid(entry) ==
    /\ (entry.read \cup entry.write) \cap Unusable = {}
    /\ entry.admin \/ entry.read # {} \/ entry.write # {}

-----------------------------------------------------------------------------
(* The acl_file: for each key the list of its grant clauses.  A clause is  *)
(* "admin", or letters followed by the prefix unless that is empty.        *)

Letters(grant) == IF grant.read THEN IF grant.write THEN "rw" ELSE "r"
                  ELSE IF grant.write THEN "w" ELSE ""

ToSpec(grant) ==
    IF grant.admin THEN <<"admin">>
    ELSE IF Letters(grant) = "" THEN <<>>
    ELSE IF grant.prefix = <<>> THEN <<Letters(grant)>> ELSE <<Letters(grant), grant.prefix>>

\* A key none of whose grants says anything is left out of the file.
ToToml(acl) ==
    LET specs(k) == {ToSpec(g) : g \in acl[k]} \ {<<>>}
    IN  [k \in {j \in DOMAIN acl : specs(j) # {}} |-> specs(k)]

ParseGrant(spec) ==
    IF spec[1] = "admin" THEN AdminGrant
    ELSE [prefix |-> IF Len(spec) = 1 THEN <<>> ELSE spec[2],
          read   |-> spec[1] \in {"r", "rw", "wr"},
          write  |-> spec[1] \in {"w", "rw", "wr"},
          admin  |-> FALSE]

\* build_acl of src/config.rs: every entry of the table, parsed.
ParseAcl(text) == [k \in DOMAIN text |-> {ParseGrant(s) : s \in text[k]}]
==============================================================================

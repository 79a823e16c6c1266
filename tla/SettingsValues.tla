--------------------------- MODULE SettingsValues ---------------------------
(***************************************************************************)
(* What the settings of Settings can be, for any keys, tags, peers and     *)
(* shards: every change a handler accepts makes a proper value of a proper *)
(* one, and every value is read back from the text it is rendered to.      *)
(***************************************************************************)
EXTENDS Settings, FiniteSetTheorems, TLAPS

(* Key lists.                                                              *)

Acls == Partial(Key, Grants)

LEMMA PartialIs ==
    ASSUME NEW S, NEW T, NEW f
    PROVE  f \in Partial(S, T) <=> /\ f = [x \in DOMAIN f |-> f[x]] /\ DOMAIN f \subseteq S
                                   /\ \A x \in DOMAIN f : f[x] \in T
<1>1. ASSUME f \in Partial(S, T)
      PROVE  /\ f = [x \in DOMAIN f |-> f[x]] /\ DOMAIN f \subseteq S
             /\ \A x \in DOMAIN f : f[x] \in T
  <2>1. PICK R \in SUBSET S : f \in [R -> T]
    BY <1>1 DEF Partial
  <2> QED  BY <2>1
<1>2. ASSUME f = [x \in DOMAIN f |-> f[x]], DOMAIN f \subseteq S, \A x \in DOMAIN f : f[x] \in T
      PROVE  f \in Partial(S, T)
  <2>1. f \in [DOMAIN f -> T]
    BY <1>2
  <2> QED  BY <1>2, <2>1 DEF Partial
<1> QED  BY <1>1, <1>2

\* Tables are built by writing one entry, by taking some entries out, or empty.
LEMMA PartialPut ==
    ASSUME NEW S, NEW T, NEW f \in Partial(S, T), NEW x \in S, NEW y \in T
    PROVE  [z \in DOMAIN f \cup {x} |-> IF z = x THEN y ELSE f[z]] \in Partial(S, T)
<1>1. DOMAIN f \subseteq S /\ \A z \in DOMAIN f : f[z] \in T
  BY PartialIs
<1>2. PICK g : g = [z \in DOMAIN f \cup {x} |-> IF z = x THEN y ELSE f[z]]
  OBVIOUS
<1>3. g \in [DOMAIN f \cup {x} -> T] /\ DOMAIN f \cup {x} \in SUBSET S
  BY <1>1, <1>2
<1> QED  BY <1>2, <1>3 DEF Partial

LEMMA PartialRestrict ==
    ASSUME NEW S, NEW T, NEW f \in Partial(S, T), NEW R, R \subseteq DOMAIN f
    PROVE  /\ Restrict(f, R) \in Partial(S, T) /\ DOMAIN Restrict(f, R) = R
           /\ \A x \in R : Restrict(f, R)[x] = f[x]
<1>1. DOMAIN f \subseteq S /\ \A z \in DOMAIN f : f[z] \in T
  BY PartialIs
<1>2. Restrict(f, R) = [x \in R |-> f[x]]
  BY DEF Restrict
<1>3. [x \in R |-> f[x]] \in [R -> T] /\ R \in SUBSET S
  BY <1>1
<1> QED  BY <1>2, <1>3 DEF Partial

LEMMA PartialEmpty ==
    ASSUME NEW S, NEW T
    PROVE  <<>> \in Partial(S, T) /\ DOMAIN <<>> = {}
<1>1. DOMAIN <<>> = {}
  <2>1. <<>> \in Seq(T) /\ Len(<<>>) = 0
    OBVIOUS
  <2>2. DOMAIN <<>> = 1..0
    BY <2>1
  <2> QED  BY <2>2
<1>2. <<>> \in [{} -> T]
  <2>1. <<>> \in Seq(T) /\ Len(<<>>) = 0
    OBVIOUS
  <2>2. <<>> \in [1..0 -> T]
    BY <2>1
  <2>3. 1..0 = {}
    OBVIOUS
  <2> QED  BY <2>2, <2>3
<1>3. {} \in SUBSET S
  OBVIOUS
<1> QED  BY <1>1, <1>2, <1>3 DEF Partial

LEMMA AclsAre ==
    \A a : a \in Acls <=> /\ a = [k \in DOMAIN a |-> a[k]] /\ DOMAIN a \subseteq Key
                          /\ \A k \in DOMAIN a : a[k] \in Grants
  BY PartialIs DEF Acls

LEMMA HasAdminIs ==
    ASSUME NEW a, DOMAIN a \subseteq Key
    PROVE  HasAdmin(a) <=> \E k \in DOMAIN a : IsAdmin(a, k)
<1> DEFINE S == {k \in DOMAIN a : IsAdmin(a, k)}
<1>1. IsFiniteSet(S)
  BY SettingsAssumption, FS_Subset
<1>2. Cardinality(S) \in Nat /\ (Cardinality(S) = 0 <=> S = {})
  BY <1>1, FS_CardinalityType, FS_EmptySet
<1>3. HasAdmin(a) <=> S # {}
  BY <1>2 DEF HasAdmin, AdminCount
<1> QED  BY <1>3

LEMMA AclValues == \A a : a \in Values("acl") <=> a \in Acls /\ HasAdmin(a)
  BY DEF Values, Acls

LEMMA GrantSets == \A s : s \in Grants <=> s \subseteq Grant /\ s # {}
  BY DEF Grants

LEMMA GrantsAre ==
    /\ AdminGrant \in Grant /\ AllData \in Grant /\ AdminGrant.admin = TRUE
    /\ \A g \in Grant : g.admin => g = AdminGrant
    /\ \A g \in Grant : g.admin \in BOOLEAN
<1>1. AdminGrant \in Grant /\ AdminGrant.admin = TRUE
  BY DEF Grant, AdminGrant
<1>2. AllData \in Grant
  <2>1. <<>> \in Prefix
    BY SettingsAssumption
  <2>2. AllData \in [prefix : Prefix, read : BOOLEAN, write : BOOLEAN, admin : {FALSE}]
    BY <2>1 DEF AllData
  <2> QED  BY <2>2 DEF Grant, AllData
<1>3. ASSUME NEW g \in Grant
      PROVE  g.admin \in BOOLEAN /\ (g.admin => g = AdminGrant)
  <2>1. CASE g = AdminGrant
    BY <1>1, <2>1
  <2>2. CASE g # AdminGrant
    BY <2>2 DEF Grant
  <2> QED  BY <2>1, <2>2
<1> QED  BY <1>1, <1>2, <1>3

LEMMA SetKeyAcl ==
    ASSUME NEW a \in Acls, NEW key \in Key, NEW grants \in Grants
    PROVE  /\ SetKey(a, key, grants) \in Acls
           /\ DOMAIN SetKey(a, key, grants) = DOMAIN a \cup {key}
           /\ SetKey(a, key, grants)[key] = grants
           /\ \A k \in DOMAIN a : k # key => SetKey(a, key, grants)[k] = a[k]
<1>1. [k \in DOMAIN a \cup {key} |-> IF k = key THEN grants ELSE a[k]] \in Acls
  BY PartialPut DEF Acls
<1> QED  BY <1>1 DEF SetKey

LEMMA RemoveKeyAcl ==
    ASSUME NEW a \in Acls, NEW key
    PROVE  RemoveKey(a, key) \in Acls
<1>1. DOMAIN a \ {key} \subseteq DOMAIN a
  OBVIOUS
<1> QED  BY <1>1, PartialRestrict DEF Acls, RemoveKey

\* A key granted everything can manage the server.
LEMMA GrantFullAcl ==
    ASSUME NEW a \in Acls, NEW key \in Key
    PROVE  GrantFull(a, key) \in Values("acl")
<1>1. PICK full : full = {AllData, AdminGrant}
  OBVIOUS
<1>2. full \in SUBSET Grant /\ full # {} /\ \E g \in full : g.admin
  BY <1>1, GrantsAre
<1>3. PICK b : b = SetKey(a, key, full)
  OBVIOUS
<1>4. full \in Grants
  BY <1>2, GrantSets
<1>5. b \in Acls /\ DOMAIN b = DOMAIN a \cup {key} /\ b[key] = full
  BY <1>3, <1>4, SetKeyAcl
<1>6. IsAdmin(b, key) /\ DOMAIN b \subseteq Key
  BY <1>2, <1>5, AclsAre DEF IsAdmin
<1>7. HasAdmin(b)
  BY <1>5, <1>6, HasAdminIs
<1> QED  BY <1>1, <1>3, <1>5, <1>7, AclValues DEF GrantFull

-----------------------------------------------------------------------------
(* What is written of a key list is read back.                             *)

LEMMA GrantRoundTrip ==
    ASSUME NEW g \in Grant
    PROVE  ToSpec(g) # <<>> /\ ParseGrant(ToSpec(g)) = g
<1>1. CASE g = AdminGrant
  <2>1. ToSpec(g) = <<"admin">>
    BY <1>1 DEF ToSpec, AdminGrant
  <2>2. <<"admin">> # <<>> /\ <<"admin">>[1] = "admin"
    OBVIOUS
  <2> QED  BY <1>1, <2>1, <2>2 DEF ParseGrant
<1>2. CASE g # AdminGrant
  <2>1. /\ g \in [prefix : Prefix, read : BOOLEAN, write : BOOLEAN, admin : {FALSE}]
        /\ g.read \/ g.write
    BY <1>2 DEF Grant
  <2>2. PICK l \in {"r", "w", "rw"} :
           /\ l = Letters(g) /\ g.read = (l \in {"r", "rw", "wr"}) /\ g.write = (l \in {"w", "rw", "wr"})
    BY <2>1 DEF Letters
  <2>3. ToSpec(g) = IF g.prefix = <<>> THEN <<l>> ELSE <<l, g.prefix>>
    BY <2>1, <2>2 DEF ToSpec
  <2>4. g = [prefix |-> g.prefix, read |-> l \in {"r", "rw", "wr"},
             write |-> l \in {"w", "rw", "wr"}, admin |-> FALSE]
    BY <2>1, <2>2
  <2>5. CASE g.prefix = <<>>
    <3>1. /\ ToSpec(g) = <<l>> /\ <<l>> # <<>> /\ <<l>>[1] = l /\ Len(<<l>>) = 1 /\ l # "admin"
      BY <2>3, <2>5
    <3>2. ParseGrant(<<l>>) = [prefix |-> <<>>, read |-> l \in {"r", "rw", "wr"},
                               write |-> l \in {"w", "rw", "wr"}, admin |-> FALSE]
      BY <3>1 DEF ParseGrant
    <3>3. ParseGrant(<<l>>) = g
      BY <2>4, <2>5, <3>2
    <3> QED  BY <3>1, <3>3
  <2>6. CASE g.prefix # <<>>
    <3>1. PICK q : q = g.prefix
      OBVIOUS
    <3>2. /\ ToSpec(g) = <<l, q>> /\ <<l, q>> # <<>> /\ <<l, q>>[1] = l /\ <<l, q>>[2] = q
          /\ Len(<<l, q>>) = 2 /\ l # "admin"
      BY <2>3, <2>6, <3>1
    <3>3. ParseGrant(<<l, q>>) = [prefix |-> q, read |-> l \in {"r", "rw", "wr"},
                                  write |-> l \in {"w", "rw", "wr"}, admin |-> FALSE]
      BY <3>2 DEF ParseGrant
    <3>4. ParseGrant(<<l, q>>) = g
      BY <2>4, <3>1, <3>3
    <3> QED  BY <3>2, <3>4
  <2> QED  BY <2>5, <2>6
<1> QED  BY <1>1, <1>2

LEMMA AclRoundTrip ==
    ASSUME NEW a \in Acls
    PROVE  ParseAcl(ToToml(a)) = a
<1> DEFINE specs(k) == {ToSpec(g) : g \in a[k]} \ {<<>>}
           text == [k \in {j \in DOMAIN a : specs(j) # {}} |-> specs(k)]
<1>1. a = [k \in DOMAIN a |-> a[k]] /\ \A k \in DOMAIN a : a[k] \subseteq Grant /\ a[k] # {}
  BY AclsAre, GrantSets
<1>2. \A k \in DOMAIN a : specs(k) = {ToSpec(g) : g \in a[k]} /\ specs(k) # {}
  BY <1>1, GrantRoundTrip
<1>3. \A k \in DOMAIN a : {ParseGrant(s) : s \in specs(k)} = a[k]
  BY <1>1, <1>2, GrantRoundTrip
<1>4. {j \in DOMAIN a : specs(j) # {}} = DOMAIN a
  BY <1>2
<1>5. DOMAIN text = DOMAIN a /\ \A k \in DOMAIN a : text[k] = specs(k)
  BY <1>4
<1>6. ToToml(a) = text
  BY DEF ToToml
<1> HIDE DEF text
<1>7. ParseAcl(text) = [k \in DOMAIN a |-> {ParseGrant(s) : s \in specs(k)}]
  BY <1>5 DEF ParseAcl
<1> HIDE DEF specs
<1>8. ParseAcl(text) = [k \in DOMAIN a |-> a[k]]
  BY <1>3, <1>7
<1> QED  BY <1>1, <1>6, <1>8

LEMMA LoadAclOf ==
    ASSUME NEW text, NEW listed \in Acls,
           listed = IF text \in {None, Blank} THEN NoKeys ELSE ParseAcl(text),
           HasAdmin(listed) \/ listed = NoKeys
    PROVE  /\ LoadAcl(text) \in Values("acl")
           /\ CliKey = None /\ HasAdmin(listed) => LoadAcl(text) = listed
<1>1. HasAdmin(listed) => DOMAIN listed # {}
  BY AclsAre, HasAdminIs
<1>2. LoadAcl(text) = LET given == IF CliKey = None THEN listed
                                   ELSE GrantFull(RemoveKey(listed, DefaultKey), CliKey)
                      IN  IF DOMAIN given = {} THEN GrantFull(given, DefaultKey) ELSE given
  BY DEF LoadAcl
<1>3. CASE CliKey = None
  <2>1. LoadAcl(text) = IF DOMAIN listed = {} THEN GrantFull(listed, DefaultKey) ELSE listed
    BY <1>2, <1>3
  <2>2. CASE HasAdmin(listed)
    BY <1>1, <2>1, <2>2, AclValues
  <2>3. CASE ~HasAdmin(listed)
    <3>1. DOMAIN listed = {}
      BY <2>3, PartialEmpty DEF NoKeys
    <3> QED  BY <2>1, <2>3, <3>1, GrantFullAcl, SettingsAssumption
  <2> QED  BY <2>2, <2>3
<1>4. CASE CliKey # None
  <2>1. CliKey \in Key /\ RemoveKey(listed, DefaultKey) \in Acls
    BY <1>4, SettingsAssumption, RemoveKeyAcl
  <2>2. PICK given : given = GrantFull(RemoveKey(listed, DefaultKey), CliKey)
    OBVIOUS
  <2>3. given \in Values("acl")
    BY <2>1, <2>2, GrantFullAcl
  <2>4. DOMAIN given # {}
    BY <2>3, AclValues, AclsAre, HasAdminIs
  <2>5. LoadAcl(text) = given
    BY <1>2, <1>4, <2>2, <2>4
  <2> QED  BY <1>4, <2>3, <2>5
<1> QED  BY <1>3, <1>4

-----------------------------------------------------------------------------
(* Peers and tiers are read back too.                                      *)

LEMMA KindsAre ==
    /\ \A v : v \in Values("tags") <=> v \in Partial(Tag, Colour)
    /\ \A v : v \in Values("peers") <=>
          v \in Partial(Url, Peer) /\ \A u \in Fixed : u \in DOMAIN v /\ v[u] = Configured
    /\ \A v : v \in Values("tiers") <=> v \in Partial(Shard, TierEntry \ {NoEntry})
  BY DEF Values

LEMMA LoadIs ==
    \A text : /\ Load("acl", text) = LoadAcl(text) /\ Load("tags", text) = LoadTags(text)
              /\ Load("peers", text) = LoadPeers(text) /\ Load("tiers", text) = LoadTiers(text)
  BY DEF Load

LEMMA RenderIs ==
    \A v : /\ Render("acl", v) = ToToml(v) /\ Render("tags", v) = v
           /\ Render("peers", v) = PeersToToml(EditablePeers(v))
           /\ Render("tiers", v) = TiersToToml(v)
  BY DEF Render

LEMMA PeerRoundTrip == \A p \in Peer : ValidatedPeer(PeerLines(p)) = p
<1> SUFFICES ASSUME NEW p \in Peer PROVE ValidatedPeer(PeerLines(p)) = p
  OBVIOUS
<1>1. p = [stores |-> p.stores, enabled |-> p.enabled] /\ p.stores \in {"all", "part"}
      /\ p.enabled \in BOOLEAN
  BY DEF Peer
<1>2. ("namespaces" \in PeerLines(p)) <=> p.stores = "part"
  BY DEF PeerLines
<1>3. ("enabled = false" \in PeerLines(p)) <=> ~p.enabled
  BY DEF PeerLines
<1>4. ValidatedPeer(PeerLines(p)).stores = p.stores
  BY <1>1, <1>2 DEF ValidatedPeer
<1>5. ValidatedPeer(PeerLines(p)).enabled = p.enabled
  BY <1>1, <1>3 DEF ValidatedPeer
<1>6. ValidatedPeer(PeerLines(p)) = [stores  |-> ValidatedPeer(PeerLines(p)).stores,
                                     enabled |-> ValidatedPeer(PeerLines(p)).enabled]
  BY DEF ValidatedPeer
<1> QED  BY <1>1, <1>4, <1>5, <1>6

LEMMA PeersRoundTrip ==
    ASSUME NEW v \in Values("peers"), Render("peers", v) \notin {None, Blank}
    PROVE  LoadPeers(Render("peers", v)) = v
<1>1. /\ v = [u \in DOMAIN v |-> v[u]] /\ \A u \in DOMAIN v : v[u] \in Peer
      /\ v \in Partial(Url, Peer) /\ \A u \in Fixed : u \in DOMAIN v /\ v[u] = Configured
  BY KindsAre, PartialIs
<1>2. PICK R : R = {u \in DOMAIN v : ~IsFixed(u)}
  OBVIOUS
<1>3. PICK w : w = Restrict(v, R)
  OBVIOUS
<1>4. DOMAIN w = R /\ \A u \in R : w[u] = v[u]
  BY <1>1, <1>2, <1>3, PartialRestrict
<1>5. PICK text : text = PeersToToml(w)
  OBVIOUS
<1>6. Render("peers", v) = text
  BY <1>2, <1>3, <1>5, RenderIs DEF EditablePeers
<1>7. DOMAIN text = R /\ \A u \in R : text[u] = PeerLines(v[u])
  BY <1>4, <1>5 DEF PeersToToml
<1>8. Fixed \cup (DOMAIN text \ Fixed) = DOMAIN v
  BY <1>1, <1>2, <1>7 DEF IsFixed
<1>9. LoadPeers(text) = [u \in Fixed \cup (DOMAIN text \ Fixed) |->
                            IF u \in Fixed THEN Configured ELSE ValidatedPeer(text[u])]
  BY <1>6 DEF LoadPeers
<1>10. \A u \in DOMAIN v : (IF u \in Fixed THEN Configured ELSE ValidatedPeer(text[u])) = v[u]
  BY <1>1, <1>2, <1>7, PeerRoundTrip DEF IsFixed
<1>11. LoadPeers(text) = [u \in DOMAIN v |-> v[u]]
  BY <1>8, <1>9, <1>10
<1> QED  BY <1>1, <1>6, <1>11

LEMMA TierRoundTrip == \A e \in TierEntry \ {NoEntry} : ParseEntry(TierToToml(e)) = e
<1> SUFFICES ASSUME NEW e \in TierEntry \ {NoEntry} PROVE ParseEntry(TierToToml(e)) = e
  OBVIOUS
<1>1. e = [tier |-> e.tier, warm_idle |-> e.warm_idle] /\ (e.tier # None \/ e.warm_idle # None)
  BY DEF TierEntry, NoEntry
<1>2. PICK t, w : t = e.tier /\ w = e.warm_idle
  OBVIOUS
<1>3. CASE t # None /\ w = None
  <2>1. TierToToml(e) = <<t>>
    BY <1>2, <1>3 DEF TierToToml
  <2>2. <<t>>[1] = t /\ Len(<<t>>) = 1
    OBVIOUS
  <2>3. ParseEntry(<<t>>) = [tier |-> t, warm_idle |-> None]
    BY <2>2 DEF ParseEntry
  <2> QED  BY <1>1, <1>2, <1>3, <2>1, <2>3
<1>4. CASE t # None /\ w # None
  <2>1. TierToToml(e) = <<"tier", t, "warm_idle", w>>
    BY <1>2, <1>4 DEF TierToToml
  <2>2. PICK x : x = <<"tier", t, "warm_idle", w>>
    OBVIOUS
  <2>3. x[2] = t /\ x[4] = w /\ Len(x) = 4
    BY <2>2
  <2>4. ParseEntry(x) = [tier |-> t, warm_idle |-> w]
    BY <2>3 DEF ParseEntry
  <2> QED  BY <1>1, <1>2, <2>1, <2>2, <2>4
<1>5. CASE t = None /\ w # None
  <2>1. TierToToml(e) = <<"warm_idle", w>>
    BY <1>2, <1>5 DEF TierToToml
  <2>2. PICK x : x = <<"warm_idle", w>>
    OBVIOUS
  <2>3. x[2] = w /\ Len(x) = 2
    BY <2>2
  <2>4. ParseEntry(x) = [tier |-> None, warm_idle |-> w]
    BY <2>3 DEF ParseEntry
  <2> QED  BY <1>1, <1>2, <1>5, <2>1, <2>2, <2>4
<1> QED  BY <1>1, <1>2, <1>3, <1>4, <1>5

LEMMA TiersRoundTrip ==
    ASSUME NEW v \in Values("tiers"), Render("tiers", v) \notin {None, Blank}
    PROVE  LoadTiers(Render("tiers", v)) = v
<1>1. v = [s \in DOMAIN v |-> v[s]] /\ \A s \in DOMAIN v : v[s] \in TierEntry \ {NoEntry}
  BY KindsAre, PartialIs
<1>2. PICK text : text = TiersToToml(v)
  OBVIOUS
<1>3. DOMAIN text = DOMAIN v /\ \A s \in DOMAIN v : text[s] = TierToToml(v[s])
  BY <1>2 DEF TiersToToml
<1>4. text # None /\ Render("tiers", v) = text
  BY <1>2, RenderIs
<1>5. LoadTiers(text) = [s \in DOMAIN text |-> ParseEntry(text[s])]
  BY <1>4 DEF LoadTiers
<1>6. \A s \in DOMAIN v : ParseEntry(text[s]) = v[s]
  BY <1>1, <1>3, TierRoundTrip
<1>7. LoadTiers(text) = [s \in DOMAIN v |-> v[s]]
  BY <1>3, <1>5, <1>6
<1> QED  BY <1>1, <1>4, <1>7

\* What save_acl, save_tags, save_peers and TierPolicy::save write of a setting can
\* be read, and is that setting unless a key is given on the command line.
LEMMA RoundTrip ==
    ASSUME NEW k \in Kind, NEW v \in Values(k)
    PROVE  /\ Render(k, v) \notin {None, Blank}
           /\ Load(k, Render(k, v)) \in Values(k)
           /\ CliKey = None => Load(k, Render(k, v)) = v
<1>1. Render(k, v) \notin {None, Blank}
  BY FilesAssumption
<1>2. CASE k = "acl"
  <2>1. v \in Acls /\ HasAdmin(v) /\ ParseAcl(Render(k, v)) = v
    BY <1>2, AclValues, AclRoundTrip, RenderIs
  <2>2. LoadAcl(Render(k, v)) \in Values("acl") /\ (CliKey = None => LoadAcl(Render(k, v)) = v)
    BY <1>1, <2>1, LoadAclOf
  <2> QED  BY <1>1, <1>2, <2>2, LoadIs
<1>3. CASE k = "tags"
  <2>1. LoadTags(v) = v
    BY <1>1, <1>3, RenderIs DEF LoadTags
  <2> QED  BY <1>1, <1>3, <2>1, RenderIs, LoadIs
<1>4. CASE k = "peers"
  BY <1>1, <1>4, PeersRoundTrip, LoadIs
<1>5. CASE k = "tiers"
  BY <1>1, <1>5, TiersRoundTrip, LoadIs
<1> QED  BY <1>2, <1>3, <1>4, <1>5 DEF Kind

\* Without a file, or with one that was created and not written, a setting is what
\* a new installation has; only a tier file that is empty cannot be read.
LEMMA LoadDefault ==
    /\ \A k \in Kind : Load(k, None) \in Values(k)
    /\ \A k \in Kind : k # "tiers" => Load(k, Blank) \in Values(k)
<1>1. \A text \in {None, Blank} : Load("acl", text) \in Values("acl")
  <2> SUFFICES ASSUME NEW text \in {None, Blank} PROVE Load("acl", text) \in Values("acl")
    OBVIOUS
  <2>1. NoKeys \in Acls
    BY PartialEmpty DEF Acls, NoKeys
  <2> QED  BY <2>1, LoadAclOf, LoadIs
<1>2. \A text \in {None, Blank} : Load("tags", text) \in Values("tags")
  BY PartialEmpty, FilesAssumption, KindsAre, LoadIs DEF LoadTags
<1>3. \A text \in {None, Blank} : Load("peers", text) \in Values("peers")
  <2> SUFFICES ASSUME NEW text \in {None, Blank} PROVE LoadPeers(text) \in Values("peers")
    BY LoadIs
  <2>1. LoadPeers(text) = [u \in Fixed |-> Configured]
    BY DEF LoadPeers
  <2>2. Configured \in Peer
    BY DEF Configured, Peer
  <2>3. PICK v : v = [u \in Fixed |-> Configured]
    OBVIOUS
  <2>4. v = [u \in DOMAIN v |-> v[u]] /\ DOMAIN v \subseteq Url /\ \A u \in DOMAIN v : v[u] \in Peer
    BY <2>2, <2>3, SettingsAssumption
  <2>5. v \in Partial(Url, Peer)
    BY <2>4, PartialIs
  <2> QED  BY <2>1, <2>3, <2>5, KindsAre
<1>4. Load("tiers", None) \in Values("tiers")
  BY FilesAssumption, LoadIs DEF LoadTiers
<1> QED  BY <1>1, <1>2, <1>3, <1>4 DEF Kind

-----------------------------------------------------------------------------
(* The handlers make settings out of settings.                             *)

LEMMA ToGrantsAre ==
    ASSUME NEW entry \in KeyEntry, Valid(entry)
    PROVE  /\ ToGrants(entry) \in Grants
           /\ entry.admin <=> \E g \in ToGrants(entry) : g.admin
<1>1. /\ entry.read \in SUBSET Prefix /\ entry.write \in SUBSET Prefix /\ entry.admin \in BOOLEAN
      /\ entry.admin \/ entry.read # {} \/ entry.write # {}
  BY DEF KeyEntry, Valid
<1>2. PICK data : data = {[prefix |-> p, read |-> p \in entry.read, write |-> p \in entry.write,
                           admin  |-> FALSE] : p \in entry.read \cup entry.write}
  OBVIOUS
<1>3. ToGrants(entry) = data \cup (IF entry.admin THEN {AdminGrant} ELSE {})
  BY <1>2 DEF ToGrants
<1>4. \A g \in data : g \in Grant /\ g.admin = FALSE
  <2> SUFFICES ASSUME NEW p \in entry.read \cup entry.write, NEW g,
                      g = [prefix |-> p, read |-> p \in entry.read, write |-> p \in entry.write,
                           admin  |-> FALSE]
               PROVE  g \in Grant /\ g.admin = FALSE
    BY <1>2
  <2>1. g \in [prefix : Prefix, read : BOOLEAN, write : BOOLEAN, admin : {FALSE}]
    BY <1>1
  <2>2. g.read \/ g.write
    OBVIOUS
  <2> QED  BY <2>1, <2>2 DEF Grant
<1>5. entry.read # {} \/ entry.write # {} => data # {}
  BY <1>2
<1>6. AdminGrant \in Grant /\ AdminGrant.admin = TRUE
  BY GrantsAre
<1>7. CASE entry.admin
  BY <1>3, <1>4, <1>6, <1>7, GrantSets
<1>8. CASE ~entry.admin
  <2>1. ToGrants(entry) = data /\ data # {}
    BY <1>1, <1>3, <1>5, <1>8
  <2> QED  BY <1>4, <1>8, <2>1, GrantSets
<1> QED  BY <1>7, <1>8

\* The guards of save_key: an administrator is left.
LEMMA SaveKeyValue ==
    ASSUME NEW a \in Values("acl"), NEW entry \in KeyEntry, Valid(entry),
           ~(IsAdmin(a, entry.key) /\ ~entry.admin
             /\ AdminCount(SetKey(a, entry.key, ToGrants(entry))) = 0)
    PROVE  SetKey(a, entry.key, ToGrants(entry)) \in Values("acl")
<1>1. a \in Acls /\ HasAdmin(a) /\ entry.key \in Key /\ entry.admin \in BOOLEAN
  BY AclValues DEF KeyEntry
<1>2. PICK key \in Key, grants \in {ToGrants(entry)} : key = entry.key /\ grants = ToGrants(entry)
  BY <1>1
<1>3. grants \in Grants /\ (entry.admin <=> \E g \in grants : g.admin)
  BY <1>2, ToGrantsAre
<1>4. PICK b : b = SetKey(a, key, grants)
  OBVIOUS
<1>5. /\ b \in Acls /\ DOMAIN b = DOMAIN a \cup {key} /\ b[key] = grants
      /\ \A k \in DOMAIN a : k # key => b[k] = a[k]
  <2>1. a \in Acls /\ grants \in Grants
    BY <1>1, <1>3
  <2>2. /\ SetKey(a, key, grants) \in Acls
        /\ DOMAIN SetKey(a, key, grants) = DOMAIN a \cup {key}
        /\ SetKey(a, key, grants)[key] = grants
        /\ \A k \in DOMAIN a : k # key => SetKey(a, key, grants)[k] = a[k]
    BY <2>1, SetKeyAcl
  <2> QED  BY <1>4, <2>2
<1>6. DOMAIN b \subseteq Key /\ DOMAIN a \subseteq Key
  BY <1>1, <1>5, AclsAre
<1>7. HasAdmin(b)
  <2>1. CASE entry.admin
    <3>1. IsAdmin(b, key)
      BY <1>3, <1>5, <2>1 DEF IsAdmin
    <3> QED  BY <1>5, <1>6, <3>1, HasAdminIs
  <2>2. CASE ~entry.admin /\ ~IsAdmin(a, key)
    <3>1. PICK k \in DOMAIN a : IsAdmin(a, k)
      BY <1>1, <1>6, HasAdminIs
    <3>2. k # key /\ IsAdmin(b, k)
      BY <1>5, <2>2, <3>1 DEF IsAdmin
    <3> QED  BY <1>5, <1>6, <3>1, <3>2, HasAdminIs
  <2>3. CASE ~entry.admin /\ IsAdmin(a, key)
    <3>1. AdminCount(b) # 0
      BY <1>2, <1>4, <2>3
    <3>2. AdminCount(b) \in Nat
      <4>1. {k \in DOMAIN b : IsAdmin(b, k)} \in SUBSET Key
        BY <1>6
      <4> QED  BY <4>1, SettingsAssumption, FS_Subset, FS_CardinalityType DEF AdminCount
    <3> QED  BY <3>1, <3>2 DEF HasAdmin
  <2> QED  BY <1>1, <2>1, <2>2, <2>3
<1> QED  BY <1>2, <1>4, <1>5, <1>7, AclValues

LEMMA ReplaceKeysValue ==
    ASSUME NEW wanted \in SUBSET KeyEntry, \A e \in wanted : Valid(e),
           NEW acl, acl = [k \in {e.key : e \in wanted} |->
                              ToGrants(CHOOSE e \in wanted : e.key = k)],
           AdminCount(acl) > 0
    PROVE  acl \in Values("acl")
<1>1. DOMAIN acl = {e.key : e \in wanted}
  OBVIOUS
<1>2. DOMAIN acl \subseteq Key
  BY <1>1 DEF KeyEntry
<1>3. \A k \in DOMAIN acl : acl[k] \in Grants
  <2> SUFFICES ASSUME NEW k \in DOMAIN acl PROVE acl[k] \in Grants
    OBVIOUS
  <2>1. PICK e : e = CHOOSE f \in wanted : f.key = k
    OBVIOUS
  <2>2. e \in wanted
    BY <1>1, <2>1
  <2>3. acl[k] = ToGrants(e)
    BY <1>1, <2>1
  <2> QED  BY <2>2, <2>3, ToGrantsAre
<1>4. acl = [k \in DOMAIN acl |-> acl[k]]
  OBVIOUS
<1>5. acl \in Acls
  BY <1>2, <1>3, <1>4, AclsAre
<1> QED  BY <1>5, AclValues DEF HasAdmin

LEMMA TagValues ==
    ASSUME NEW tags \in Values("tags"), NEW name
    PROVE  /\ RemoveTag(tags, name) \in Values("tags")
           /\ \A colour \in Colour : name \in Tag => SetTag(tags, name, colour) \in Values("tags")
<1>1. tags \in Partial(Tag, Colour)
  BY KindsAre
<1>2. DOMAIN tags \ {name} \subseteq DOMAIN tags
  OBVIOUS
<1>3. RemoveTag(tags, name) \in Partial(Tag, Colour)
  BY <1>1, <1>2, PartialRestrict DEF RemoveTag
<1>4. \A colour \in Colour : name \in Tag => SetTag(tags, name, colour) \in Partial(Tag, Colour)
  BY <1>1, PartialPut DEF SetTag
<1> QED  BY <1>3, <1>4, KindsAre

LEMMA PeerValues ==
    ASSUME NEW peers \in Values("peers"), NEW url \in Url \ Fixed
    PROVE  /\ Restrict(peers, DOMAIN peers \ {url}) \in Values("peers")
           /\ \A peer \in Peer : /\ PutPeer(peers, url, peer) \in Values("peers")
                                 /\ url \in DOMAIN PutPeer(peers, url, peer)
                                 /\ PutPeer(peers, url, peer)[url] = peer
<1>1. peers \in Partial(Url, Peer) /\ \A u \in Fixed : u \in DOMAIN peers /\ peers[u] = Configured
  BY KindsAre
<1>2. Restrict(peers, DOMAIN peers \ {url}) \in Values("peers")
  <2>1. PICK R : R = DOMAIN peers \ {url}
    OBVIOUS
  <2>2. PICK p : p = Restrict(peers, R)
    OBVIOUS
  <2>3. p \in Partial(Url, Peer) /\ DOMAIN p = R /\ \A x \in R : p[x] = peers[x]
    BY <1>1, <2>1, <2>2, PartialRestrict
  <2>4. \A u \in Fixed : u \in DOMAIN p /\ p[u] = Configured
    BY <1>1, <2>1, <2>3
  <2> QED  BY <2>1, <2>2, <2>3, <2>4, KindsAre
<1>3. ASSUME NEW peer \in Peer
      PROVE  /\ PutPeer(peers, url, peer) \in Values("peers")
             /\ url \in DOMAIN PutPeer(peers, url, peer)
             /\ PutPeer(peers, url, peer)[url] = peer
  <2>1. PICK p : p = PutPeer(peers, url, peer)
    OBVIOUS
  <2>2. p \in Partial(Url, Peer)
    BY <1>1, <2>1, PartialPut DEF PutPeer
  <2>3. DOMAIN p = DOMAIN peers \cup {url} /\ p[url] = peer
           /\ \A u \in DOMAIN peers : u # url => p[u] = peers[u]
    BY <2>1 DEF PutPeer
  <2>4. \A u \in Fixed : u \in DOMAIN p /\ p[u] = Configured
    BY <1>1, <2>3
  <2> QED  BY <2>1, <2>2, <2>3, <2>4, KindsAre
<1> QED  BY <1>2, <1>3

LEMMA TierValues ==
    ASSUME NEW tiers \in Values("tiers"), NEW shard \in Shard, NEW entry \in TierEntry
    PROVE  SetTierEntry(tiers, shard, entry) \in Values("tiers")
<1>1. tiers \in Partial(Shard, TierEntry \ {NoEntry})
  BY KindsAre
<1>2. CASE entry = NoEntry
  <2>1. DOMAIN tiers \ {shard} \subseteq DOMAIN tiers
    OBVIOUS
  <2> QED  BY <1>1, <1>2, <2>1, PartialRestrict, KindsAre DEF SetTierEntry
<1>3. CASE entry # NoEntry
  <2>1. entry \in TierEntry \ {NoEntry}
    BY <1>3
  <2>2. [s \in DOMAIN tiers \cup {shard} |-> IF s = shard THEN entry ELSE tiers[s]]
           \in Partial(Shard, TierEntry \ {NoEntry})
    BY <1>1, <2>1, PartialPut
  <2> QED  BY <1>3, <2>2, KindsAre DEF SetTierEntry
<1> QED  BY <1>2, <1>3
=============================================================================

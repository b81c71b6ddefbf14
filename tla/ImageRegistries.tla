---------------------------- MODULE ImageRegistries ----------------------------
(***************************************************************************)
(* Which container image stands for a technology: api/registry.py, over the  *)
(* registries as they answer it.  Pure: the catalogues it keeps for the life *)
(* of its process are a parameter and a result.  A code is what its name     *)
(* reduces to: [code, bare (without the version's digits), stem (its words)];*)
(* an image is [registry, path], the path the sequence of its segments; a    *)
(* row of a search is an image with what the search says of it.  "world" is  *)
(* what the registries have and who of them answers.                         *)
(***************************************************************************)
EXTENDS SoftwareSources

Image(registry, path) == [registry |-> registry, path |-> path]
Allowed(image) == image.registry \in REGISTRIES /\ PathOk(image.path)

\* Every item once, where it came first.
Once(items) ==
    FoldLeft(LAMBDA seen, item : IF item \in Range(seen) THEN seen ELSE Append(seen, item),
             <<>>, items)

\* candidates: the three usual places of an image of the name, and of the name without its
\* version.
Shapes(name) ==
    <<Image("docker.io", <<"library", name>>), Image("docker.io", <<name, name>>),
      Image("quay.io", <<name, name>>)>>
Candidates(code) ==
    IF ~Good(code.code) THEN <<>>
    ELSE Once(SelectSeq(Shapes(code.code)
                        \o (IF code.bare \notin {Absent, code.code} THEN Shapes(code.bare) ELSE <<>>),
                        Allowed))

----------------------------------------------------------------------------
(* One image *)

TOKEN_SERVICES == {"docker.io", "quay.io", "ghcr.io", "container-registry.oracle.com"}

\* _token: a registry that wants one and has no service here is not read.
MayRead(registry, world) ==
    registry \in world.open \/ registry \in TOKEN_SERVICES \cap world.tokens

\* The manifest of an image under a tag, when the registry shows it.
Manifests(image, tag, world) ==
    {m \in world.manifests :
        /\ m.image = image /\ m.tag = tag
        /\ image.registry \in world.answering
        /\ MayRead(image.registry, world)}

\* The first child of an index that is for this portal's machines.
ForMachines(manifest) ==
    LET ours == {i \in DOMAIN manifest.children : manifest.children[i].platform = "linux/amd64"}
    IN  {manifest.children[i] : i \in {j \in ours : \A k \in ours : j <= k}}

\* _platform_digest: the first such child whose digest is one.
PlatformDigest(manifest) ==
    LET children == SelectSeq(manifest.children,
                              LAMBDA c : c.platform = "linux/amd64" /\ Good(c.digest))
    IN  IF manifest.index /\ children # <<>> THEN children[1].digest ELSE Absent

\* _ports: what the image's configuration exposes over TCP; nothing when it cannot be read.
PortsOf(manifest) ==
    LET configs == IF manifest.index THEN {c.config : c \in ForMachines(manifest)}
                   ELSE {manifest.config}
    IN  Ports(UNION {{p.number : p \in {q \in exposed : q.protocol \in {Absent, "tcp"}}} :
                       exposed \in configs})

\* describe: an image that is allowed, is there, and has a digest.
Describe(image, tag, world) ==
    LET Described(m) ==
            [digest |-> m.digest, ports |-> PortsOf(m),
             platform_digest |-> IF PlatformDigest(m) = m.digest THEN Absent
                                 ELSE PlatformDigest(m)]
    IN  IF ~Allowed(image) \/ ~Good(tag) THEN {}
        ELSE {Described(m) : m \in {n \in Manifests(image, tag, world) : Good(n.digest)}}

\* tags: [name, version], the version the numbers of a release and empty for any other tag.
Tags(image, world) ==
    IF Allowed(image) /\ image.registry \in world.answering /\ MayRead(image.registry, world)
    THEN SelectSeq(world.tags, LAMBDA t : t.image = image) ELSE <<>>

\* newest_release: the highest version, the first of equals.
NewestRelease(image, world) ==
    LET releases == SelectSeq(Tags(image, world), LAMBDA t : t.version # <<>>)
        newest == {i \in DOMAIN releases :
                     /\ \A j \in DOMAIN releases : ~Precedes(releases[i].version, releases[j].version)
                     /\ \A j \in 1..(i - 1) : releases[j].version # releases[i].version}
    IN  IF releases = <<>> THEN Absent ELSE releases[CHOOSE i \in newest : TRUE].name

----------------------------------------------------------------------------
(* Searching *)

SEARCH_LIMIT == 10
FIND_LIMIT == 8

\* _trusted: an official image, the vendor's own namespace, or one that is a longer word
\* for it and whose repository is too.  A row's names are reduced to their words.
Trusted(row, code) ==
    \/ row.official
    \/ /\ row.namespace # <<>> /\ code.stem # <<>>
       /\ \/ row.namespace = code.stem
          \/ IsPrefix(code.stem, row.namespace) /\ IsPrefix(code.stem, row.repository)

\* The Hub's own search: official before others, then the most starred, the shortest.
HubSearch(code, world) ==
    LET rows == IF "hub" \in world.answering
                THEN SubSeq(world.hub, 1, IF Len(world.hub) < SEARCH_LIMIT THEN Len(world.hub)
                                          ELSE SEARCH_LIMIT)
                ELSE <<>>
        key == [i \in DOMAIN rows |->
                  <<IF rows[i].official THEN 0 ELSE 1, -rows[i].stars, rows[i].length, rows[i].place>>]
        kept == {i \in DOMAIN rows : Trusted(rows[i], code) /\ PathOk(rows[i].path)}
        order == SetToSortSeq(kept, LAMBDA i, j : Precedes(key[i], key[j]))
    IN  Once([n \in DOMAIN order |-> Image("docker.io", rows[order[n]].path)])

\* first_party_registries: where only the registry's owner publishes, of those that are
\* shipped: one that was added is allowed and is not among them.
FirstPartyRegistries == FIRST_PARTY

\* catalogue: what a registry listed when it was first asked, or nothing, if it did not
\* answer then; of what it lists now only what a process that has not asked it yet sees.  (That
\* at most twenty thousand names of one are read is left out.)
Catalogue(registry, known, world) ==
    IF registry \in DOMAIN known THEN known[registry]
    ELSE IF registry \in world.answering
         THEN SelectSeq(world.catalogue, LAMBDA row : row.registry = registry) ELSE <<>>

\* _catalogues after a search.
CataloguesAfter(known, world) ==
    [registry \in FirstPartyRegistries \cup DOMAIN known |-> Catalogue(registry, known, world)]

\* _first_party_match: the whole of the first segment, and not a part of it.
FirstPartyMatch(row, code) == code.stem # <<>> /\ row.namespace = code.stem

\* catalogue_search: the shallowest, the shortest.
CatalogueSearch(code, known, world) ==
    LET rows == UNION {{row \in Range(Catalogue(registry, known, world)) :
                          PathOk(row.path) /\ FirstPartyMatch(row, code)} :
                         registry \in FirstPartyRegistries}
        Key(row) == <<Len(row.path), row.length, row.place>>
        order == SetToSortSeq(rows, LAMBDA a, b : Precedes(Key(a), Key(b)))
    IN  Once([n \in DOMAIN order |-> Image(order[n].registry, order[n].path)])

\* search: without the Hub nothing is searched at all.
Search(code, known, world) ==
    IF ~Good(code.code) \/ "hub" \notin world.answering THEN <<>>
    ELSE Once(HubSearch(code, world) \o CatalogueSearch(code, known, world))

\* PUBLISHED_IMAGES: what vendors publish under another name.
PUBLISHED_IMAGES ==
    [x \in {"oracle-free"} |-> Image("container-registry.oracle.com", <<"database", "free">>)]

\* find: the first of what was guessed, searched and looked up that exposes a port; else
\* the first that is there at all.
Ordered(code, known, world) ==
    LET curated == IF code.code \in DOMAIN PUBLISHED_IMAGES THEN <<PUBLISHED_IMAGES[code.code]>>
                   ELSE <<>>
    IN  Once(Candidates(code) \o Search(code, known, world) \o curated)

\* What is known of one image: under the tag that was asked, else its newest release.
FoundAt(image, tag, world) ==
    LET newest == NewestRelease(image, world)
        used == IF Describe(image, tag, world) = {} /\ tag = "latest" /\ newest # Absent
                THEN newest ELSE tag
    IN  {[registry |-> image.registry, path |-> image.path, tag |-> used, digest |-> d.digest,
          platform_digest |-> d.platform_digest, ports |-> d.ports] :
           d \in Describe(image, used, world)}

Find(code, tag, known, world) ==
    LET all == Ordered(code, known, world)
        tried == SubSeq(all, 1, IF Len(all) < FIND_LIMIT THEN Len(all) ELSE FIND_LIMIT)
        at == [i \in DOMAIN tried |-> FoundAt(tried[i], tag, world)]
        open == {i \in DOMAIN tried : \E found \in at[i] : found.ports # {}}
        silent == {i \in DOMAIN tried : at[i] # {}} \ open
        First(indices) == UNION {at[i] : i \in {j \in indices : \A k \in indices : j <= k}}
    IN  IF open # {} THEN First(open) ELSE First(silent)
=============================================================================

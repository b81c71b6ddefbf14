--------------------------- MODULE BlueprintRegistry ---------------------------
(***************************************************************************)
(* What the portal believes it can build: orchestrator/blueprint_registry.py *)
(* over the manifests that are on disk, the shipped ones before those it     *)
(* wrote itself, and the profiles it generated.  Pure.  "files" is the        *)
(* sequence of the manifests in the order they are read; "world" is the      *)
(* environment's variables and what configure.py knows: the generated        *)
(* profiles, the families a code installs on, what was verified and refuted  *)
(* on real machines, the module streams of a family.                         *)
(***************************************************************************)
EXTENDS Integers, Sequences, SequencesExt

Unset == ""

\* serves_of: anything but "platform" serves the catalogue.
ServesOf(file) == IF file.serves = "platform" THEN "platform" ELSE "catalogue"

\* _readiness: the flag that is not on and the variables that are not set.
MissingConfig(file, world) ==
    ({file.enable_flag} \ ({Unset} \cup world.truthy)) \cup (file.requires_env \ world.set)

\* _streams_for, _verified_for, _refuted_for: of what the manifest itself builds.
StreamsFor(builds, world) ==
    [code \in {c \in builds : \E known \in DOMAIN world.streams : known[1] = c} |->
        {known \in DOMAIN world.streams : known[1] = code}]
FamiliesOf(pairs, builds) ==
    [code \in {pair[1] : pair \in {p \in pairs : p[1] \in builds}} |->
        {pair[2] : pair \in {p \in pairs : p[1] = code}}]
VerifiedFor(builds, world) == FamiliesOf(world.verified, builds)
RefutedFor(builds, world) == FamiliesOf(world.refuted, builds)

\* _network_tiers: those of clusters, or those machines have.
NetworkTiers(kind, world) == IF kind = "oci-oke" THEN world.clusterTiers ELSE world.machineTiers

\* The generated profiles that extend a blueprint; none at all when configure.py fails.
ExtraBuilds(ref, world) ==
    {code \in DOMAIN world.profiles :
        world.configured /\ ref # Unset /\ world.profiles[code].builds_on = ref}

\* Those of them whose machine fetches from the internet.
ExtraInternet(ref, world) ==
    {code \in ExtraBuilds(ref, world) :
        world.profiles[code].archive # {} \/ world.profiles[code].repo # {}}

\* The families each of its codes installs on, of those that install anywhere.
InstallsOn(codes, world) ==
    [code \in {c \in codes \cap DOMAIN world.families :
                 world.configured /\ world.families[c] # {}} |-> world.families[code]]

----------------------------------------------------------------------------
(* The manifests *)

IsPlatform(file) == ServesOf(file) = "platform"
BuildsUnasked(file) == IsPlatform(file) /\ file.builds # {}
Incomplete(file) ==
    \/ Unset \in {file.ref, file.target, file.kind}
    \/ ~IsPlatform(file) /\ file.builds = {}
WellDeclared(file) == file.parses /\ ~BuildsUnasked(file) /\ ~Incomplete(file)

\* The shipped ones that were read claim their names and their kinds.
Shipped(files) == {f \in Range(files) : f.origin = "shipped" /\ WellDeclared(f)}
Shadows(file, files) ==
    /\ file.origin = "generated"
    /\ \E f \in Shipped(files) : f.ref = file.ref \/ f.kind = file.kind

Error(file, files) ==
    IF ~file.parses THEN "unparsable"
    ELSE IF BuildsUnasked(file) THEN "platform builds"
    ELSE IF Incomplete(file) THEN "incomplete"
    ELSE IF Shadows(file, files) THEN "shadows"
    ELSE Unset

Nowhere == <<>>

\* A manifest that is refused is listed, and builds nothing.
ErrorRow(file, why) ==
    [ref |-> IF why = "unparsable" \/ file.ref = Unset THEN file.stem ELSE file.ref,
     kind |-> IF why = "unparsable" THEN Unset ELSE file.kind,
     origin |-> file.origin, serves |-> ServesOf(file), error |-> why, builds |-> {}, ready |-> FALSE,
     missing |-> {}, internet |-> {}, installs_on |-> Nowhere, os_families |-> {},
     verified |-> Nowhere, refuted |-> Nowhere, streams |-> Nowhere, tiers |-> {}]

\* One that is accepted; what was generated is built by the shipped ones only.
Row(file, world) ==
    LET ships == file.origin = "shipped"
        extra == IF ships THEN ExtraBuilds(file.ref, world) ELSE {}
        builds == file.builds \cup extra
    IN  [ref |-> file.ref, kind |-> file.kind, origin |-> file.origin,
         serves |-> ServesOf(file), error |-> Unset, builds |-> builds,
         ready |-> MissingConfig(file, world) = {}, missing |-> MissingConfig(file, world),
         internet |-> file.needs_internet
                        \cup (IF ships THEN ExtraInternet(file.ref, world) ELSE {}),
         installs_on |-> InstallsOn(builds, world), os_families |-> file.os_families,
         verified |-> VerifiedFor(file.builds, world),
         refuted |-> RefutedFor(file.builds, world),
         streams |-> StreamsFor(file.builds, world),
         tiers |-> NetworkTiers(file.kind, world)]

\* discover: a row of each manifest, in their order.
Discover(files, world) ==
    [i \in DOMAIN files |->
        LET why == Error(files[i], files)
        IN  IF why = Unset THEN Row(files[i], world) ELSE ErrorRow(files[i], why)]

\* The first row there is, if there is one.
FirstRow(rows, Suits(_)) == LET suited == SelectSeq(rows, Suits)
                            IN  IF suited = <<>> THEN {} ELSE {suited[1]}

\* for_resource_kind: a refused manifest answers for its kind too.
ForResourceKind(kind, files, world) ==
    FirstRow(Discover(files, world), LAMBDA row : row.kind = kind)

\* for_technology: a platform blueprint builds nothing for the catalogue.
ForTechnology(code, files, world) ==
    FirstRow(Discover(files, world),
             LAMBDA row : code # Unset /\ row.serves # "platform" /\ code \in row.builds)

\* os_families_for_technology: nothing of a technology that nothing builds.
OsFamiliesForTechnology(code, files, world) ==
    {row.os_families : row \in ForTechnology(code, files, world)}
=============================================================================

---------------------------- MODULE ComponentForm ----------------------------
(***************************************************************************)
(* What the request form offers for one technology, and what a submission   *)
(* accepts of it.  The form asks for its options whenever the image changes *)
(* and mends what it holds when the answer comes; the API answers, and      *)
(* later validates, from three caches that are refreshed meanwhile: the     *)
(* options of the cloud, what the orchestrator's blueprints install, and    *)
(* what the build network reaches.                                          *)
(***************************************************************************)
EXTENDS Integers, FiniteSets

CONSTANTS Families,    \* operating system families: "rhel", "debian", ...
          NoFamily,    \* the family of an image nobody has measured, or of no image
          Blank,       \* a field the form leaves empty
          Anchors,     \* the technology's sizing anchors, [size -> numbers]
          RowSets,     \* what the stored options may be
          Catalogues,  \* what the blueprints that build the technology may be
          Networks,    \* what the build network may reach
          MaxRefreshes \* bound on the refreshes of the caches

ASSUME FormConstants ==
    /\ NoFamily \notin Families /\ MaxRefreshes \in Nat
    /\ DOMAIN Anchors # {}
    /\ \A r \in RowSets : \A image \in r.image :
          image # Blank /\ r.familyOf[image] \in Families \cup {NoFamily}
    /\ \A c \in Catalogues : \A bp \in c : bp.refuted \subseteq Families

VARIABLES rows,        \* ComponentOption: images, their families, versions, shapes
          shipped,     \* blueprint_capabilities: the blueprints, none while unread
          net,         \* network_egress: what is reached, and whether that is known
          picked,      \* the component as the form holds it
          offers,      \* the options the form got last
          fetching,    \* whether it waits for others
          refreshes    \* how often a cache was refreshed

formVars == <<rows, shipped, net, picked, offers, fetching, refreshes>>
cacheVars == <<rows, shipped, net, refreshes>>

Numeric == {"vcpu", "memory_gb", "storage_gb"}
Text == {"version", "image"}
Fields == Numeric \cup Text

----------------------------------------------------------------------------
(* blueprint_capabilities *)

\* _build, of one blueprint: its families but for those a build has disproved; a recipe
\* that says where it installs narrows them.
UsableOn(bp) ==
    (bp.families \ bp.refuted) \cap (IF bp.installsOn = {} THEN Families ELSE bp.installsOn)

\* families_for: None, or what any of them installs on.
FamiliesKnown == shipped # {}
SupportedFamilies == UNION {UsableOn(bp) : bp \in shipped}

\* refusal: the families that any of them was refuted on.
Refuted == UNION {bp.refuted : bp \in shipped}

\* streams: the versions that a family's repositories were measured to carry.
Streams(family) == UNION {bp.streams[family] : bp \in shipped}

NeedsInternet == \E bp \in shipped : bp.internet

----------------------------------------------------------------------------
(* network_egress: what is not known is not refused *)

CanInstall(family) == family = NoFamily \/ ~net.known \/ family \in net.families

ReachesInternet == ~net.known \/ net.internet

----------------------------------------------------------------------------
(* options_for *)

\* The families whose images install a version by name.
CanPinAVersion == {"rhel"}

\* Mutant: the network is not asked about.
ImageSuitsAnyNetwork(family) ==
    \/ ~FamiliesKnown
    \/ SupportedFamilies # {} /\ family \in {NoFamily} \cup SupportedFamilies

\* _image_suits: while nothing is known every image is shown; else those of a family the
\* recipes support and the network can install, and those of no family.
ImageSuits(family) ==
    \/ ~FamiliesKnown
    \/ /\ SupportedFamilies # {}
       /\ \/ family = NoFamily
          \/ CanInstall(family) /\ family \in SupportedFamilies

OfferedImages == {image \in rows.image : ImageSuits(rows.familyOf[image])}

\* A family that cannot pin a version offers none; measured streams stand in the stored
\* ones' stead.
OfferedVersions(family) ==
    IF family = NoFamily THEN rows.version
    ELSE IF family \notin CanPinAVersion THEN {}
    ELSE IF Streams(family) = {} THEN rows.version ELSE Streams(family)

\* No number is stored: those of the anchors are offered.
Offered(field, family) ==
    CASE field = "image" -> OfferedImages
      [] field = "version" -> OfferedVersions(family)
      [] OTHER -> {Anchors[size][field] : size \in DOMAIN Anchors}

\* os_family_for_image.
FamilyOf(image) == IF image \in rows.image THEN rows.familyOf[image] ELSE NoFamily

OptionsFor(image) == [f \in Fields |-> Offered(f, FamilyOf(image))]
NoOptions == [f \in Fields |-> {}]

\* The default of a field: the stored one where it is offered, else the first.
Defaults(field, options) ==
    IF rows.default[field] \in options[field] THEN {rows.default[field]} ELSE options[field]

\* installable_on: an unknown or empty support refuses nothing.
Installable(family) ==
    family = NoFamily \/ SupportedFamilies = {} \/ family \in SupportedFamilies

----------------------------------------------------------------------------
(* shape_fit_error *)

\* max(1, round(vcpu / 2)), half to even.
Ocpus(vcpu) ==
    IF vcpu <= 2 THEN 1 ELSE IF vcpu % 4 = 1 THEN (vcpu - 1) \div 2 ELSE (vcpu + 1) \div 2

\* _shape_hosts: the processors, the memory, and the memory that each may have.
ShapeHosts(shape, ocpus, memory) ==
    /\ shape.minOcpus <= ocpus /\ ocpus <= shape.maxOcpus
    /\ shape.minMemory <= memory /\ memory <= shape.maxMemory
    /\ shape.perOcpu # 0 => memory <= ocpus * shape.perOcpu

\* Only a pair that was chosen, where shapes are on record, is looked at.
ShapeFits(chosen) ==
    \/ rows.shapes = {} \/ Blank \in {chosen.vcpu, chosen.memory_gb}
    \/ \E s \in rows.shapes : ShapeHosts(s, Ocpus(chosen.vcpu), chosen.memory_gb)

----------------------------------------------------------------------------
(* validate *)

\* What is not offered.
WrongFields(chosen) ==
    {f \in Fields : chosen[f] # Blank /\ chosen[f] \notin OptionsFor(chosen.image)[f]}

\* The fields a submission is refused for: an image or an archive the network cannot
\* fetch, an image it was refuted on or does not install on, each before the next; then
\* what is not offered, and a pair that no shape hosts.
ComponentErrors(chosen) ==
    LET family == FamilyOf(chosen.image)
        wrong == WrongFields(chosen)
    IN  IF ~CanInstall(family) THEN {"image"}
        ELSE IF NeedsInternet /\ ~ReachesInternet THEN {"technology_code"}
        ELSE IF family \in Refuted \/ ~Installable(family) THEN {"image"}
        ELSE IF {"vcpu", "memory_gb"} \cap wrong = {} /\ ~ShapeFits(chosen)
             THEN wrong \cup {"vcpu"} ELSE wrong

----------------------------------------------------------------------------
(* The caches *)

\* A fetch that fails changes nothing, and what was known is never unknown again.
RefreshOptions ==
    /\ refreshes < MaxRefreshes /\ refreshes' = refreshes + 1
    /\ rows' \in RowSets
    /\ UNCHANGED <<shipped, net, picked, offers, fetching>>

RefreshCapabilities ==
    /\ refreshes < MaxRefreshes /\ refreshes' = refreshes + 1
    /\ shipped' \in Catalogues \ {{}}
    /\ UNCHANGED <<rows, net, picked, offers, fetching>>

RefreshEgress ==
    /\ refreshes < MaxRefreshes /\ refreshes' = refreshes + 1
    /\ net' \in Networks
    /\ UNCHANGED <<rows, shipped, picked, offers, fetching>>

----------------------------------------------------------------------------
(* The form *)

Component == [f \in Fields |-> Blank]

FormInit ==
    /\ rows \in RowSets /\ shipped \in Catalogues /\ net \in Networks
    /\ picked = Component /\ offers = NoOptions /\ fetching = TRUE
    /\ refreshes = 0

\* Mutant: a version that is no longer offered is kept.
ClearedImage(held, options) ==
    [f \in Fields |-> IF f = "image" /\ held[f] \notin options[f] THEN Blank ELSE held[f]]

\* A text that is no longer offered is cleared; the numbers are not.
Cleared(held, options) ==
    [f \in Fields |-> IF f \in Text /\ held[f] \notin options[f] THEN Blank ELSE held[f]]

\* Without a number of processors, the size's numbers.
Shaped(held, size) ==
    [f \in Fields |-> IF f \in Numeric /\ held.vcpu = Blank THEN Anchors[size][f] ELSE held[f]]

\* The answer comes: what is held is mended, and the empty fields take their defaults;
\* an image that changed with it is asked about in its turn.
OptionsArrive ==
    /\ fetching
    /\ LET options == OptionsFor(picked.image)
       IN  /\ offers' = options
           /\ \E size \in DOMAIN Anchors :
                 LET held == Shaped(Cleared(picked, options), size)
                     Choice(f) == IF held[f] = Blank /\ options[f] # {} THEN Defaults(f, options)
                                  ELSE {held[f]}
                 IN  \E version \in Choice("version"), image \in Choice("image") :
                        picked' = [held EXCEPT !.version = version, !.image = image]
    /\ fetching' = (picked'.image # picked.image)
    /\ UNCHANGED cacheVars

\* A fetch that failed offers nothing, and leaves the component as it is.
OptionsLost ==
    /\ fetching
    /\ offers' = NoOptions /\ fetching' = FALSE
    /\ UNCHANGED <<picked, cacheVars>>

\* Another value of one field; another image is asked about.
SetDetail(field) ==
    /\ \E v \in offers[field] \ {picked[field]} : picked' = [picked EXCEPT ![field] = v]
    /\ fetching' = (fetching \/ field = "image")
    /\ UNCHANGED <<offers, cacheVars>>

\* A size fills in its numbers.
SetSize(size) ==
    /\ offers # NoOptions
    /\ picked' = [f \in Fields |-> IF f \in Numeric THEN Anchors[size][f] ELSE picked[f]]
    /\ UNCHANGED <<offers, fetching, cacheVars>>

FormNext ==
    \/ RefreshOptions \/ RefreshCapabilities \/ RefreshEgress
    \/ OptionsArrive \/ OptionsLost
    \/ \E f \in Fields : SetDetail(f)
    \/ \E size \in DOMAIN Anchors : SetSize(size)

FormSpec == FormInit /\ [][FormNext]_formVars
----------------------------------------------------------------------------
FormTypeOK ==
    /\ rows \in RowSets /\ shipped \in Catalogues /\ net \in Networks
    /\ \A f \in Text : picked[f] = Blank \/ picked[f] \in UNION {r[f] : r \in RowSets}
                        \/ \E c \in Catalogues : \E bp \in c, x \in Families : picked[f] \in bp.streams[x]
    /\ \A f \in Numeric : picked[f] = Blank \/ \E size \in DOMAIN Anchors : picked[f] = Anchors[size][f]
    /\ fetching \in BOOLEAN /\ refreshes \in 0 .. MaxRefreshes

\* Once the form has its answer, and no cache has changed since, the server accepts what
\* the form holds (api/component_options.py:241-249), but for what the form cannot show:
\* an image shown because nothing was known of the recipes, software that needs an
\* internet that is not there, a family that one of two blueprints was refuted on, and a
\* pair of numbers that no shape hosts.
OfferedIsAccepted ==
    LET family == FamilyOf(picked.image)
    IN  ~fetching /\ offers = OptionsFor(picked.image) =>
            \/ ComponentErrors(picked) = {}
            \/ ~FamiliesKnown /\ ~CanInstall(family)
            \/ NeedsInternet /\ ~ReachesInternet
            \/ \E one, other \in shipped : family \in one.refuted /\ family \in UsableOn(other)
            \/ ~ShapeFits(picked)
=============================================================================

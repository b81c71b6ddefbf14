-------------------------------- MODULE Pricing --------------------------------
(***************************************************************************)
(* What a request costs: api/pricing.py over api/sizing.py, the cost of its  *)
(* components one by one, and of the machines and managed services of a      *)
(* placement.  Pure.  Money is in units small enough to be whole, and cents  *)
(* are not rounded; a target's cards all have one discount.  "cat" is the    *)
(* catalogue: the blueprints' kinds, what the classifier would build, the    *)
(* sizing anchors, the Marketplace listings; "cards" are the rate cards and  *)
(* the live price source of the target.                                      *)
(***************************************************************************)
EXTENDS Integers, SequencesExt

Unresolved == 0    \* a number that is not known: a shape has none that are zero

TARGETS == {"onprem", "azure", "oci", "aws", "gcp"}
BILLING_MODEL ==
    [k \in {"oci-service-vm", "oci-apache", "oci-instance", "onprem-vm"} |-> "vm"]
    @@ [k \in {"oci-bucket"} |-> "bucket"] @@ [k \in {"oci-oke"} |-> "cluster"]
    @@ [k \in {"oci-postgres", "oci-psql"} |-> "managed-db"]
REQUIRED_RATES ==
    [m \in {"bucket"} |-> {"bucket-storage-gb-month"}]
    @@ [m \in {"cluster"} |-> {"oke-cluster-hour", "vcpu-hour", "memory-gb-hour"}]
    @@ [m \in {"managed-db"} |-> {"psql-vcpu-hour", "storage-gb-month"}]
    @@ [m \in {"vm", ""} |-> {}]

HOURS_PER_MONTH == 730
BACKUP_FACTOR == [x \in {"7"} |-> 10] @@ [x \in {"30"} |-> 30] @@ [x \in {"90"} |-> 60]
MONITORING_MONTHLY == [basic |-> 15000, enhanced |-> 50000]
SUPPORT_PCT == [business |-> 10, premium |-> 20]
LICENCE_OF == [postgres16 |-> "postgres-licence", win2019 |-> "windows-licence",
               mssql |-> "mssql-licence"]

\* What a table says of a key, and nothing of one it has not.
At(table, key) == IF key \in DOMAIN table THEN table[key] ELSE 0
Percent(amount, percent) == (amount * percent) \div 100
Total(lines, Amount(_)) == FoldLeft(LAMBDA sum, line : sum + Amount(line), 0, lines)

----------------------------------------------------------------------------
(* The rates *)

\* _apply_discount: what the bucket has for free is no price.
Discounted(rates, discount) ==
    [item \in DOMAIN rates |->
        IF item = "bucket-free-gb" THEN rates[item] ELSE Percent(rates[item], 100 - discount)]

\* A live source that answers replaces the cards; one that does not leaves them; Azure's
\* has only machines' prices.
RatesFor(target, cards) ==
    IF target \notin TARGETS THEN <<>>
    ELSE IF target \in {"oci", "aws", "gcp"} /\ cards.source = "live"
         THEN Discounted(cards.live, cards.discount)
         ELSE Discounted(cards.cached, cards.discount)

----------------------------------------------------------------------------
(* A component *)

\* resolve_components: the size's anchor, and over it each number that was chosen.
Shape(c, cat) ==
    [f \in {"vcpu", "memory_gb", "storage_gb"} |->
        IF c[f] # Unresolved THEN c[f]
        ELSE IF <<c.technology, c.size>> \in DOMAIN cat.anchors
             THEN cat.anchors[<<c.technology, c.size>>][f] ELSE Unresolved]
IsResolved(shape) == \A f \in DOMAIN shape : shape[f] # Unresolved

\* resource_kind_for: the blueprint wins over what the component says of itself.
ResourceKind(c, target, cat) ==
    IF <<c.technology, target>> \in DOMAIN cat.kinds THEN cat.kinds[<<c.technology, target>>]
    ELSE c.kind

\* projected_model: software on a machine is billed as one before it has a blueprint.
ProjectedModel(c, cat) == IF c.technology \in cat.vmServices THEN "vm" ELSE ""

\* _target_uses_blueprints.
UsesBlueprints(target, cat) == \E k \in DOMAIN cat.kinds : k[2] = target

\* How it is billed, "" when nobody knows.
ModelOf(c, target, cat) ==
    LET kind == ResourceKind(c, target, cat)
    IN  IF target \notin TARGETS THEN ""
        ELSE IF kind # "" THEN (IF kind \in DOMAIN BILLING_MODEL THEN BILLING_MODEL[kind] ELSE "")
        ELSE IF ~UsesBlueprints(target, cat) THEN "vm"
        ELSE ProjectedModel(c, cat)

\* Whether a price can be given: a shape, a model, and every rate the model needs.
Priceable(c, target, cat, rates) ==
    LET model == ModelOf(c, target, cat)
    IN  IsResolved(Shape(c, cat)) /\ model # "" /\ REQUIRED_RATES[model] \subseteq DOMAIN rates

\* _cloud_compute_cached and _component_parts.
ComputeOfVm(shape, target, rates) ==
    IF target = "onprem"
    THEN shape.vcpu * At(rates, "vcpu") + shape.memory_gb * At(rates, "memory-gb")
    ELSE (shape.vcpu * At(rates, "vcpu-hour") + shape.memory_gb * At(rates, "memory-gb-hour"))
         * HOURS_PER_MONTH
StorageOfVm(shape, target, rates) ==
    shape.storage_gb * At(rates, IF target = "onprem" THEN "storage-gb" ELSE "storage-gb-month")

\* Azure's live price is of a size, not of a shape; a size without one is computed.
ComputeOnAzure(c, shape, cards, rates) ==
    IF cards.source = "live" /\ c.size \in DOMAIN cards.sizes
    THEN Percent(cards.sizes[c.size], 100 - cards.discount)
    ELSE ComputeOfVm(shape, "azure", rates)

\* _not_a_vm_parts: no compute for a bucket; nodes and a control plane for a cluster; its
\* own rate for a database.
ComputeOf(model, c, shape, target, cards, rates) ==
    CASE model = "bucket" -> 0
      [] model = "cluster" -> At(rates, "oke-cluster-hour") * HOURS_PER_MONTH
                              + ComputeOfVm(shape, "oci", rates)
      [] model = "managed-db" -> shape.vcpu * At(rates, "psql-vcpu-hour") * HOURS_PER_MONTH
      [] model = "vm" -> IF target = "azure" THEN ComputeOnAzure(c, shape, cards, rates)
                         ELSE ComputeOfVm(shape, target, rates)
StorageOf(model, shape, target, rates) ==
    LET billed == shape.storage_gb - At(rates, "bucket-free-gb")
    IN  CASE model = "bucket" -> IF billed <= 0 THEN 0
                                 ELSE billed * At(rates, "bucket-storage-gb-month")
          [] model = "vm" -> StorageOfVm(shape, target, rates)
          [] OTHER -> StorageOfVm(shape, "oci", rates)

LicenceFor(technology, cards) ==
    IF technology \in DOMAIN LICENCE_OF THEN At(cards.licences, LICENCE_OF[technology]) ELSE 0

\* marketplace_licence: the publisher's fee, where it is by the processor for each vcpu;
\* reported, and in no total.
ExternalLicence(c, target, shape, cat) ==
    IF <<c.technology, target>> \notin DOMAIN cat.listings THEN <<>>
    ELSE LET listing == cat.listings[<<c.technology, target>>]
         IN  <<[technology |-> c.technology, currency |-> listing.currency,
                monthly |-> IF listing.strategy # "PER_OCPU_LINEAR" THEN "unknown"
                            ELSE listing.rate * (IF shape.vcpu = Unresolved THEN 1 ELSE shape.vcpu)
                                 * HOURS_PER_MONTH]>>

\* A line of the estimate; what cannot be priced has a line, and costs nothing on it.
Line(c, target, cat, cards, ha) ==
    LET rates == RatesFor(target, cards)
        shape == Shape(c, cat)
        model == ModelOf(c, target, cat)
        priced == Priceable(c, target, cat, rates)
        compute == IF priced THEN ComputeOf(model, c, shape, target, cards, rates) ELSE 0
    IN  [technology |-> c.technology, size |-> c.size, resolved |-> priced,
         provisional |-> /\ priced /\ ResourceKind(c, target, cat) = ""
                         /\ UsesBlueprints(target, cat),
         compute |-> IF ha THEN 2 * compute ELSE compute,
         storage |-> IF priced THEN StorageOf(model, shape, target, rates) ELSE 0,
         licence |-> IF priced THEN LicenceFor(c.technology, cards) ELSE 0,
         external |-> ExternalLicence(c, target, shape, cat),
         oneTime |-> IF priced /\ model = "vm" /\ target = "onprem" THEN At(rates, "setup") ELSE 0]

----------------------------------------------------------------------------
\* estimate_cost: the components' lines, and what the advanced options add to their sum.
EstimateCost(components, target, cat, cards, advanced) ==
    LET lines == [i \in DOMAIN components |-> Line(components[i], target, cat, cards, advanced.ha)]
        compute == Total(lines, LAMBDA line : line.compute)
        storage == Total(lines, LAMBDA line : line.storage)
        licence == Total(lines, LAMBDA line : line.licence)
        backup == Percent(storage, At(BACKUP_FACTOR, advanced.backup))
        monitoring == At(MONITORING_MONTHLY, advanced.monitoring)
        base == compute + storage + licence + backup + monitoring
        support == Percent(base, At(SUPPORT_PCT, advanced.support))
    IN  [lines |-> lines,
         unpriced |-> {line.technology : line \in {l \in ToSet(lines) : ~l.resolved}},
         provisional |-> {line.technology : line \in {l \in ToSet(lines) : l.provisional}},
         external |-> FlattenSeq([i \in DOMAIN lines |-> lines[i].external]),
         compute |-> compute, storage |-> storage, licence |-> licence, backup |-> backup,
         monitoring |-> monitoring, support |-> support,
         oneTime |-> Total(lines, LAMBDA line : line.oneTime),
         monthly |-> base + support]

NothingToPrice ==
    [lines |-> <<>>, unpriced |-> {}, provisional |-> {}, external |-> <<>>, compute |-> 0,
     storage |-> 0, licence |-> 0, backup |-> 0, monitoring |-> 0, support |-> 0,
     oneTime |-> 0, monthly |-> 0]

Estimated(components, target, cat, cards, advanced) ==
    IF components = <<>> THEN NothingToPrice
    ELSE EstimateCost(components, target, cat, cards, advanced)

----------------------------------------------------------------------------
(* A placement: its hosts as size_hosts left them *)

Managed(hosts) == SelectSeq(hosts, LAMBDA h : h.mode = "managed")
Sized(hosts) == SelectSeq(hosts, LAMBDA h : h.mode # "managed" /\ h.resolved)
Unsized(hosts) == SelectSeq(hosts, LAMBDA h : h.mode # "managed" /\ ~h.resolved)
Carried(hosts) == FlattenSeq([i \in DOMAIN hosts |-> hosts[i].components])

\* A machine is priced as a bare one of its shape, a managed component as itself.
MachineOf(host, sizes) ==
    [technology |-> "compute-vm", kind |-> "", vcpu |-> host.vcpu, memory_gb |-> host.memory_gb,
     storage_gb |-> host.storage_gb,
     size |-> IF host.components = <<>> THEN "" ELSE sizes[Head(host.components)]]
ManagedOf(technology, sizes) ==
    [technology |-> technology, kind |-> "", size |-> sizes[technology],
     vcpu |-> Unresolved, memory_gb |-> Unresolved, storage_gb |-> Unresolved]

\* merge: of lines that are equal only the first is kept.
Merged(one, other) ==
    FoldLeft(LAMBDA kept, line : IF Contains(kept, line) THEN kept ELSE Append(kept, line),
             <<>>, one \o other)

\* estimate_placement_cost: machines and managed components each as an estimate of their
\* own, advanced options included, and the licences of what is on machines.
EstimatePlacementCost(hosts, target, cat, cards, sizes, advanced) ==
    LET Cost(components) == Estimated(components, target, cat, cards, advanced)
        Each(seq, Of(_)) == [i \in DOMAIN seq |-> Of(seq[i])]
        machines == Cost(Each(Sized(hosts), LAMBDA h : MachineOf(h, sizes)))
        managed == Cost(Each(Carried(Managed(hosts)), LAMBDA t : ManagedOf(t, sizes)))
        onMachines == SelectSeq(Carried(hosts), LAMBDA t : ~Contains(Carried(Managed(hosts)), t))
        licences == Total(onMachines, LAMBDA t : LicenceFor(t, cards))
    IN  [lines |-> Merged(machines.lines, managed.lines),
         unpriced |-> ToSet(Carried(Unsized(hosts))) \cup machines.unpriced \cup managed.unpriced,
         resolved |-> Unsized(hosts) = <<>> /\ machines.unpriced = {},
         oneTime |-> machines.oneTime + managed.oneTime,
         monthly |-> machines.monthly + managed.monthly + licences]

\* placement_attachment_rows: a row for each machine, each managed component and each
\* host without a size, in that order.
AttachmentRows(hosts) ==
    Sized(hosts) \o Carried(Managed(hosts)) \o Unsized(hosts)

\* compare_options: over the cheapest that could be priced.
CompareOptions(options) ==
    LET priced == {o.monthly : o \in {p \in ToSet(options) : p.resolved}}
        cheapest == CHOOSE least \in priced : \A m \in priced : least <= m
    IN  [i \in DOMAIN options |->
            IF options[i].resolved THEN <<options[i].monthly - cheapest>> ELSE <<>>]

----------------------------------------------------------------------------
\* _authorise: a rise of more than the drift over what was approved is refused.  The
\* orchestrator asks for the price of the components, without options or placement.
COST_DRIFT_PERCENT == 10
NoOptionsChosen == [ha |-> FALSE, backup |-> "", monitoring |-> "", support |-> ""]
DriftRefused(approved, components, target, cat, cards) ==
    EstimateCost(components, target, cat, cards, NoOptionsChosen).monthly * 100
        > approved * (100 + COST_DRIFT_PERCENT)
=============================================================================

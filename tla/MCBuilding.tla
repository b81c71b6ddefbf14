------------------------------ MODULE MCBuilding ------------------------------
(* A request's way to what is built, for TLC: its form, its submission, its        *)
(* approval, its placement, the saved plans and the first boot of its machines,    *)
(* and the proof builds that try recipes the same way, side by side.  In a         *)
(* behaviour one of them moves and the others rest, so their states add and do     *)
(* not multiply.                                                                   *)
EXTENDS ComponentForm, Intake, ApprovalGates, Placement, SavedPlans, FirstBoot, ProofBuild,
        Sequences, TLC

P == INSTANCE Pricing

CONSTANTS r1, r2

\* What a part holds while it rests is one of what it may begin with.
ASSUME BuildingConstants ==
    /\ RowSets # {} /\ {} \in Catalogues /\ Networks # {}
    /\ 1 \in Quorums /\ Moments # {} /\ Stacks # {}
    /\ KindSets # {} /\ ReportSets # {}

VARIABLE part

\* Two tabs on one draft, one on another.
TabsOfDrafts == {<<r1, 1>>, <<r1, 2>>, <<r2, 1>>}

\* nginx and nodejs20 are built by one kind of machine; "plain" has no host mode.
Fact(modes, role, built) == [modes |-> modes, role |-> role, kind |-> built]
CatalogueFacts ==
    [nginx   |-> Fact({"vm", "container"}, "workload", "oci-service-vm"),
     nodejs  |-> Fact({"vm", "container"}, "workload", "oci-service-vm"),
     pg      |-> Fact({"vm", "container", "managed"}, "workload", "oci-postgres"),
     plain   |-> Fact({}, "workload", "oci-service-vm"),
     adb     |-> Fact({"managed"}, "workload", "oci-adb"),
     oke     |-> Fact({"managed"}, "cluster", "oci-oke"),
     box     |-> Fact({"vm"}, "machine", "oci-instance")]
FormStacks == {{"nginx", "nodejs"}, {"nginx", "pg"}, {"nginx", "plain"}, {"nginx", "adb"},
               {"oke", "nginx"}, {"oke"}, {"box", "pg"}}
Drawn(id, mode, carries) == [id |-> <<"drawn", id>>, mode |-> mode, carries |-> carries]
DrawnLayouts ==
    {{Drawn("x", "vm", {"nginx"}), Drawn("y", "vm", {"pg"})},
     {Drawn("x", "vm", {"nginx", "pg"})},
     {Drawn("x", "vm", {"nginx"})},
     {Drawn("x", "container", {"nginx"}), Drawn("y", "managed", {"pg"})},
     {Drawn("x", "vm", {"nginx"}), Drawn("x", "vm", {"pg"})},
     {Drawn("x", "managed", {"nginx"}), Drawn("y", "vm", {"pg"})},
     {Drawn("x", "vm", {"nginx", "pg"}), Drawn("y", "vm", {"pg"})}}

\* A service machine and a cluster's node, or two nodes of one cluster; a database that
\* runs in a container and a web server from an archive.
KindsOfMachines == {[a |-> "oci-service-vm", b |-> "oci-kafka"], [a |-> "oci-kafka", b |-> "oci-kafka"],
                    [a |-> "oci-service-vm", b |-> "oci-service-vm"]}
\* Every machine is asked to report, none is, or those of one blueprint are not.
AskedToReport == {{"oci-service-vm", "oci-kafka"}, {"oci-service-vm"}, {}}
PartOfMachine == [a |-> "db", b |-> "web"]
DeliveryOf == [db |-> "container", web |-> "archive"]

\* Jira: a ticket may be approved, rejected, asked for again or taken straight to work.
TicketMoves == {<<"pending", "approved">>, <<"pending", "rejected">>, <<"pending", "working">>,
                <<"approved", "pending">>, <<"approved", "working">>, <<"approved", "rejected">>,
                <<"rejected", "pending">>}
\* The window is open from Friday (4) round the week's end to Tuesday (1), in the morning.
Mornings == [from |-> 4, to |-> 1, opens |-> 8, closes |-> 12]
HoursOfTheWeek == {<<6, 10>>, <<6, 13>>, <<2, 10>>}

\* Two sizes; the shape on record hosts the small one.
AnchorsOfSizes == [small |-> [vcpu |-> 2, memory_gb |-> 8, storage_gb |-> 50],
                   large |-> [vcpu |-> 8, memory_gb |-> 64, storage_gb |-> 50]]
SmallShape == [minOcpus |-> 1, maxOcpus |-> 2, minMemory |-> 1, maxMemory |-> 64, perOcpu |-> 16]
OptionRow(default) ==
    [image |-> {"ol9", "ubuntu", "own"}, version |-> {"15", "16"}, shapes |-> {SmallShape},
     familyOf |-> [ol9 |-> "rhel", ubuntu |-> "debian", own |-> ""],
     default |-> [image |-> default, version |-> "16"]]
OptionRows == {OptionRow("ol9"), [OptionRow("ubuntu") EXCEPT !.image = {"ol9", "ubuntu"}]}
Recipe(families, refuted, on, streams, internet) ==
    [families |-> families, refuted |-> refuted, installsOn |-> on, internet |-> internet,
     streams |-> [rhel |-> streams, debian |-> {}]]
\* Nothing read yet; a recipe with measured streams; one that installs on one family and
\* was refuted on it; two, each refuted on or narrowed to what the other does not; one
\* that fetches an archive.
RecipeCatalogues ==
    {{}, {Recipe({"rhel", "debian"}, {}, {}, {"15"}, FALSE)},
     {Recipe({"rhel", "debian"}, {"rhel"}, {"rhel"}, {}, FALSE)},
     {Recipe({"rhel", "debian"}, {"debian"}, {}, {}, FALSE),
      Recipe({"debian"}, {}, {"debian"}, {}, FALSE)},
     {Recipe({"rhel"}, {}, {}, {}, TRUE)}}
BuildNetworks == {[known |-> FALSE, families |-> {}, internet |-> FALSE],
                  [known |-> TRUE, families |-> {"rhel"}, internet |-> FALSE],
                  [known |-> TRUE, families |-> {"rhel", "debian"}, internet |-> TRUE]}

buildingVars == <<part, formVars, intakeVars, gateVars, placementVars, planVars, bootVars,
                  proofVars>>

FormRests ==
    /\ rows = CHOOSE r \in RowSets : TRUE
    /\ shipped = {} /\ net = (CHOOSE n \in Networks : TRUE)
    /\ picked = Component /\ offers = NoOptions /\ fetching = TRUE /\ refreshes = 0
IntakeRests == IntakeInit
GatesRest ==
    /\ quorum = 1 /\ moment = CHOOSE m \in Moments : TRUE
    /\ ticket = "pending" /\ lastApprover = Nobody /\ approvers = {} /\ decisions = {}
    /\ moves = 0 /\ raised = "submitted" /\ gate = [w \in Readers |-> "none"]
    /\ unread = FALSE
PlacementRests ==
    /\ asked = CHOOSE S \in Stacks : TRUE
    /\ form = asked /\ choice = NoLayout /\ press = "idle" /\ stage = "draft"
    /\ current = NoPlacement /\ handed = NoUnits
PlansRest == PlansInit
ProofRests == ProofInit
BootRests ==
    /\ kind = (CHOOSE K \in KindSets : TRUE) /\ reporting = CHOOSE R \in ReportSets : TRUE
    /\ step = [m \in Machines |-> "none"]
    /\ fit = [m \in Machines |-> "absent"] /\ run = [m \in Machines |-> "stopped"]
    /\ noted = {}
    /\ object = [n \in Names |-> "none"]
    /\ request = "applying" /\ attempts = 1
    /\ told = [m \in Machines |-> "none"] /\ saw = [m \in Machines |-> {}]
    /\ replaced = {}

\* Every part rests but the one that is named.
Rest(p) ==
    /\ p = "form" \/ FormRests
    /\ p = "intake" \/ IntakeRests
    /\ p = "gates" \/ GatesRest
    /\ p = "placement" \/ PlacementRests
    /\ p = "plans" \/ PlansRest
    /\ p = "boot" \/ BootRests
    /\ p = "proof" \/ ProofRests

BuildingInit ==
    \/ part = "form" /\ FormInit /\ Rest("form")
    \/ part = "intake" /\ IntakeInit /\ Rest("intake")
    \/ part = "gates" /\ GatesInit /\ Rest("gates")
    \/ part = "placement" /\ PlacementInit /\ Rest("placement")
    \/ part = "plans" /\ PlansInit /\ Rest("plans")
    \/ part = "boot" /\ BootInit /\ Rest("boot")
    \/ part = "proof" /\ ProofInit /\ Rest("proof")

InForm == part = "form" /\ UNCHANGED <<part, intakeVars, gateVars, placementVars, planVars,
                                       bootVars, proofVars>>
InIntake == part = "intake" /\ UNCHANGED <<part, formVars, gateVars, placementVars,
                                           planVars, bootVars, proofVars>>
InGates == part = "gates" /\ UNCHANGED <<part, formVars, intakeVars, placementVars,
                                         planVars, bootVars, proofVars>>
InPlacement == part = "placement" /\ UNCHANGED <<part, formVars, intakeVars, gateVars,
                                                 planVars, bootVars, proofVars>>
InPlans == part = "plans" /\ UNCHANGED <<part, formVars, intakeVars, gateVars,
                                         placementVars, bootVars, proofVars>>
InBoot == part = "boot" /\ UNCHANGED <<part, formVars, intakeVars, gateVars, placementVars,
                                       planVars, proofVars>>
InProof == part = "proof" /\ UNCHANGED <<part, formVars, intakeVars, gateVars,
                                         placementVars, planVars, bootVars>>

\* The next-state relations of the seven, action by action.
BuildingNext ==
    \/ \E s \in Sessions : InIntake /\ SubmitChecks(s)
    \/ \E s \in Sessions : InIntake /\ SubmitFails(s)
    \/ \E s \in Sessions : InIntake /\ SubmitCommits(s)
    \/ \E r \in Drafts : InIntake /\ EditLoads(r)
    \/ \E r \in Drafts : InIntake /\ EditCommits(r)
    \/ \E r \in Drafts : InIntake /\ CancelLoads(r)
    \/ \E r \in Drafts : InIntake /\ CancelCommits(r)
    \/ \E r \in Drafts : InIntake /\ Progress(r)
    \/ InForm /\ RefreshOptions
    \/ InForm /\ RefreshCapabilities
    \/ InForm /\ RefreshEgress
    \/ InForm /\ OptionsArrive
    \/ InForm /\ OptionsLost
    \/ \E f \in Fields : InForm /\ SetDetail(f)
    \/ \E size \in DOMAIN Anchors : InForm /\ SetSize(size)
    \/ \E p \in People, to \in TicketStatus : InGates /\ MoveTicket(p, to)
    \/ \E p \in People : InGates /\ Decide(p)
    \/ \E p \in People : InGates /\ PressReads(p)
    \/ InGates /\ TimeMoves
    \/ InGates /\ PollReads
    \/ \E w \in Readers : InGates /\ FourEyes(w)
    \/ \E w \in Readers : InGates /\ EnoughApprovers(w)
    \/ InGates /\ ChangeWindow
    \/ \E w \in Readers : InGates /\ HandOff(w)
    \/ InGates /\ ApplyPlanned
    \/ InPlacement /\ EditForm
    \/ InPlacement /\ WorkOut
    \/ InPlacement /\ Resume
    \/ InPlacement /\ PressSubmit
    \/ InPlacement /\ PressResolves
    \/ InPlacement /\ PressEnds
    \/ InPlacement /\ ResolveNow
    \/ InPlacement /\ Handover
    \/ InPlans /\ RecordPlacement
    \/ \E op \in {"plan", "apply", "drift", "resize"} : InPlans /\ Send(op)
    \/ \E c \in calls : InPlans /\ PlanHandled(c)
    \/ \E c \in calls : InPlans /\ ApplyHandled(c)
    \/ \E c \in calls : InPlans /\ DriftHandled(c)
    \/ \E c \in calls : InPlans /\ ResizeHandled(c)
    \/ \E m \in Machines : InBoot /\ BuildMachine(m)
    \/ \E m \in Machines : InBoot /\ Install(m)
    \/ \E m \in Machines : InBoot /\ StartServices(m)
    \/ \E m \in Machines : InBoot /\ Look(m)
    \/ \E m \in Machines : InBoot /\ WatchInside(m)
    \/ \E m \in Machines : InBoot /\ Report(m)
    \/ \E m \in Machines : InBoot /\ SoftwareMoves(m)
    \/ \E m \in Machines : InBoot /\ Dies(m)
    \/ InBoot /\ ApplyReturns
    \/ InBoot /\ RetryApply
    \/ InBoot /\ VerifyEnds
    \/ InBoot /\ VerifyGivesUp
    \/ InProof /\ DayPasses
    \/ InProof /\ ImagesAsk
    \/ InProof /\ ImagesReap
    \/ InProof /\ ImagesCommit
    \/ \E answered \in BOOLEAN : InProof /\ ImagesSettle(answered)
    \/ InProof /\ ProofCrash
    \/ \E b \in Builds : InProof /\ RecordProof(b)
    \/ \E b \in Builds : InProof /\ PlanProof(b)
    \/ \E b \in Builds : InProof /\ ApplyProof(b)
    \/ \E b \in Builds : InProof /\ TearDownApplied(b)
    \/ \E b \in Builds : InProof /\ VerifyProof(b)
    \/ \E b \in Builds : InProof /\ KeepImage(b)
    \/ \E b \in Builds : InProof /\ DestroyProof(b)
    \/ \E b \in Builds : InProof /\ FinishBuild(b)
    \/ \E b \in Builds : InProof /\ RefuseRecipe(b)
    \/ \E b \in Builds : InProof /\ WithdrawImage(b)
    \/ \E b \in Builds : InProof /\ HandOut(b)
    \/ \E b \in Builds : InProof /\ CloudFinishes(b)

BuildingSpec == BuildingInit /\ [][BuildingNext]_buildingVars

\* What the variables of the seven parts hold.
BuildingTypeOK == FormTypeOK /\ IntakeTypeOK /\ GatesTypeOK /\ PlacementTypeOK
                  /\ PlansTypeOK /\ BootTypeOK /\ ProofTypeOK

----------------------------------------------------------------------------
(* Pricing, over small stacks: software on machines, a managed database, a bucket    *)
(* and something without a blueprint, in two sizes, under every advanced option.     *)

SizeAnchors ==
    [t \in {"web", "postgres16", "store", "new"} \X {"small", "large"} |->
        IF t[2] = "small" THEN [vcpu |-> 2, memory_gb |-> 8, storage_gb |-> 50]
        ELSE [vcpu |-> 4, memory_gb |-> 16, storage_gb |-> 100]]
PricedCatalogue ==
    [anchors |-> SizeAnchors, vmServices |-> {"new"}, listings |-> <<>>,
     kinds |-> (<<"web", "oci">> :> "oci-service-vm") @@ (<<"compute-vm", "oci">> :> "oci-instance")
               @@ (<<"postgres16", "oci">> :> "oci-postgres") @@ (<<"store", "oci">> :> "oci-bucket")]
RateCards ==
    [source |-> "cards", discount |-> 0, licences |-> ("postgres-licence" :> 700),
     cached |-> ("vcpu-hour" :> 4) @@ ("memory-gb-hour" :> 1) @@ ("storage-gb-month" :> 10)
                @@ ("psql-vcpu-hour" :> 9) @@ ("bucket-storage-gb-month" :> 5)
                @@ ("bucket-free-gb" :> 10) @@ ("vcpu" :> 900) @@ ("memory-gb" :> 100)
                @@ ("storage-gb" :> 10) @@ ("setup" :> 5000)]
Ordered(technology, size) ==
    [technology |-> technology, size |-> size, kind |-> "", vcpu |-> 0, memory_gb |-> 0,
     storage_gb |-> 0]
Alone(c) == [components |-> <<c.technology>>, mode |-> "vm", resolved |-> TRUE]
            @@ P!Shape(c, PricedCatalogue)
Together(c, d) ==
    [components |-> <<c.technology, d.technology>>, mode |-> "vm", resolved |-> TRUE]
    @@ [f \in {"vcpu", "memory_gb", "storage_gb"} |->
            P!Shape(c, PricedCatalogue)[f] + P!Shape(d, PricedCatalogue)[f]]
SoftwareOrders == {Ordered(t, size) : t \in {"web", "new"}, size \in {"small", "large"}}
SizesOf(cs) == [t \in {"web", "new", "postgres16", "store"} |-> cs[1].size]
CostOf(cs, target, options) == P!EstimateCost(cs, target, PricedCatalogue, RateCards, options)
CostPlaced(hosts, target, sizes, options) ==
    P!EstimatePlacementCost(hosts, target, PricedCatalogue, RateCards, sizes, options)
AdvancedOptions == [ha : BOOLEAN, backup : {"", "30"}, monitoring : {"", "basic"},
                    support : {"", "premium"}]

\* Software that is placed on machines of its own costs what it cost before it was placed,
\* whatever is chosen with it; on one machine it costs no more.
ASSUME PlacingCostsNothing ==
    \A c, d \in SoftwareOrders, target \in {"oci", "onprem"}, options \in AdvancedOptions :
        LET alone == CostPlaced(<<Alone(c), Alone(d)>>, target, SizesOf(<<c>>), options)
            together == CostPlaced(<<Together(c, d)>>, target, SizesOf(<<c>>), options)
            before == CostOf(<<c, d>>, target, options)
        IN  /\ alone.monthly = before.monthly /\ alone.oneTime = before.oneTime
            /\ together.monthly <= alone.monthly /\ together.oneTime <= alone.oneTime

\* Monitoring is paid twice once one of two components is managed, for machines and
\* managed services are two estimates; and two machines that are alike have two rows in
\* the approver's table and one line.
ASSUME PlacedApart ==
    LET web == Ordered("web", "small")
        db == Ordered("postgres16", "small")
        managed == [components |-> <<"postgres16">>, mode |-> "managed", resolved |-> TRUE]
        watched == [P!NoOptionsChosen EXCEPT !.monitoring = "basic"]
        Placed(options) == CostPlaced(<<Alone(web), managed>>, "oci", SizesOf(<<web>>), options)
        twins == <<Alone(web), Alone(web)>>
    IN  /\ Placed(P!NoOptionsChosen).monthly = CostOf(<<web, db>>, "oci", P!NoOptionsChosen).monthly
        /\ Placed(watched).monthly = CostOf(<<web, db>>, "oci", watched).monthly + 15000
        /\ Len(P!AttachmentRows(twins)) = 2
        /\ Len(CostPlaced(twins, "oci", SizesOf(<<web>>), watched).lines) = 1

\* What is built at the price that was approved is not refused for its drift while
\* the options that were approved cost nothing less than none.
ASSUME DriftOfNothing ==
    \A c, d \in SoftwareOrders, options \in AdvancedOptions :
        ~P!DriftRefused(CostOf(<<c, d>>, "oci", options).monthly, <<c, d>>, "oci",
                        PricedCatalogue, RateCards)
=============================================================================

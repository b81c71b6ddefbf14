------------------------------ MODULE MCFactory ------------------------------
(* Certification and the recipe ladder for TLC, side by side: in a behaviour one *)
(* of them moves and the other rests, so their states add and do not multiply.   *)
EXTENDS Certification, RecipeLadder

CONSTANTS c1, k1

ASSUME FactoryConstants == c1 \in Codes /\ k1 \in Kinds

VARIABLE part

KindOfOne == c1 :> k1
RememberedOnes == {<<"container", "declared">>}

factoryVars == <<part, certVars, ladderVars>>

CertRests ==
    /\ blueprints = [c \in Codes |-> Unloaded] /\ store = {}
    /\ requests = [r \in Reqs |-> [says |-> "nothing", kind |-> k1, at |-> 0]]
    /\ proofs = [p \in Proofs |-> [code |-> c1, status |-> "unused", end |-> 0,
                                   refuted |-> FALSE]]
    /\ proofsBegan = 0 /\ sweep = SweepIdle
    /\ ladder = [c \in Codes |-> [pc |-> "idle", proof |-> NoProof, pending |-> FALSE]]
    /\ credits = [c \in Codes |-> [p \in Proofs |-> 0]]
    /\ now = 1 /\ rare = 0

LadderRests ==
    /\ climb = NoClimb /\ recipeStore = Nothing /\ keptFor = Nothing /\ orphan = Nothing
    /\ memory = <<>> /\ passedOn = {} /\ climbs = 0

FactoryInit == \/ part = "certification" /\ CertInit /\ LadderRests
               \/ part = "ladder" /\ LadderInit /\ CertRests

InCert == part = "certification" /\ UNCHANGED <<part, ladderVars>>
InLadder == part = "ladder" /\ UNCHANGED <<part, certVars>>

\* CertNext and LadderNext, action by action.
FactoryNext ==
    \/ InCert /\ CertTick
    \/ InCert /\ SweepRestore
    \/ InCert /\ SweepCommit
    \/ InCert /\ CertCrash
    \/ \E answered \in BOOLEAN : InCert /\ SweepReview(answered)
    \/ \E r \in Reqs : InCert /\ RequestFinishes(r)
    \/ \E r \in Reqs : InCert /\ RequestRetried(r)
    \/ \E c \in Codes : InCert /\ PublishDraft(c)
    \/ \E c \in Codes : InCert /\ StartProof(c)
    \/ \E c \in Codes : InCert /\ FinishProof(c)
    \/ \E c \in Codes : InCert /\ CertifyFromProof(c)
    \/ \E c \in Codes : InCert /\ NarrowContainer(c)
    \/ \E c \in Codes : InCert /\ RefuseAtTheDoor(c)
    \/ \E c \in Codes : InCert /\ TakeItBack(c)
    \/ \E c \in Codes : InCert /\ CommitTakeBack(c)
    \/ \E c \in Codes : InCert /\ CertifyByHand(c)
    \/ \E c \in Codes : InCert /\ Decertify(c)
    \/ \E c \in Codes : InCert /\ Retire(c)
    \/ InLadder /\ EnsureBegins
    \/ InLadder /\ ProveShipped
    \/ InLadder /\ ResolveMethods
    \/ InLadder /\ RungsRunOut
    \/ InLadder /\ TakeRung
    \/ InLadder /\ NoRouteOut
    \/ InLadder /\ AskRepository
    \/ InLadder /\ PublishRung
    \/ InLadder /\ FollowTheMemory
    \/ InLadder /\ NotReported
    \/ InLadder /\ ProveRung
    \/ InLadder /\ ObservePorts
    \/ InLadder /\ ClimbOn
    \/ InLadder /\ BuildModule
    \/ InLadder /\ ClimbCrash
    \/ \E r \in Recipe : InLadder /\ RefutationExpires(r)

FactorySpec ==
    /\ FactoryInit /\ [][FactoryNext]_factoryVars
    /\ WF_factoryVars(InCert /\ Sweep) /\ SF_factoryVars(InCert /\ SweepReview(TRUE))
    /\ WF_factoryVars(InLadder /\ Climb)

\* What the variables of the two parts hold.
FactoryTypeOK == CertTypeOK /\ LadderTypeOK

----------------------------------------------------------------------------
(* Where software comes from: SoftwareSources and ImageRegistries on small inputs *)

I == INSTANCE ImageRegistries WITH AddedRegistries <- {"vendor.example"}

\* What a machine says of one code: what it names, what matches, what it searched.
Match(name, repo, accessory, length) ==
    [name |-> name, repo |-> repo, accessory |-> accessory, versioned |-> FALSE,
     startsWithStem |-> TRUE, length |-> length, place |-> length]
Matchings == {<<>>, <<Match("redis-devel", "appstream", TRUE, 11)>>,
              <<Match("redis-server", "epel", FALSE, 12), Match("redis", "vendor", FALSE, 5)>>,
              <<Match("odd", "", FALSE, 3), Match("redis", "appstream", FALSE, 5)>>}
Namings == {{}, {[name |-> "redis", repo |-> ""]}, {[name |-> "redis", repo |-> "vendor"]},
            {[name |-> "odd", repo |-> "epel"]}}
SearchedSets == {{}, {"appstream"}, {"appstream", "epel"}, {"appstream", "vendor-epel-mirror"}}
Said == [named : Namings, matches : Matchings, repos : SearchedSets, current : BOOLEAN,
         queryable : BOOLEAN, epel : {"", "present", "unavailable"}, inside : {{0, 6379}}]
ReportOf(said, searched) ==
    [searched |-> searched, opened |-> {22, 65536}, of |-> [x \in {"redis7"} |-> said]]

\* What a machine measured can be installed: the profile that is drafted from a finding is
\* one that is accepted, and its package comes from a repository the machine has.
ASSUME MeasuredIsAccepted ==
    \A said \in Said, searched \in BOOLEAN :
        LET finding == I!FindingFor(ReportOf(said, searched), "redis7")
        IN  finding.outcome = "found" =>
                /\ I!Reachable(finding.repo, said.repos)
                /\ \A profile \in I!ProfileFrom("redis7", finding) :
                      I!Blockers(profile, {}) = {}

\* That there is nothing is only believed of a search that could have found something, and
\* never over a package that is at hand.
ASSUME NothingIsHeard ==
    \A said \in Said, searched \in BOOLEAN :
        I!FindingFor(ReportOf(said, searched), "redis7").outcome = "nothing" =>
            /\ searched /\ said.current /\ said.queryable /\ said.repos # {}
            /\ \A i \in DOMAIN said.matches :
                  LET m == said.matches[i]
                  IN  m.accessory \/ m.name = "odd" \/ (m.repo # "epel" /\ m.repo \notin said.repos)

\* A repository that only sounds like EPEL is taken for it here, and nowhere else.
ASSUME SoundsLikeEpel ==
    \E said \in Said : /\ said.epel = "present"
                      /\ said.repos \cap I!EPEL_REPO_IDS = {}
                      /\ I!SearchWasSound(ReportOf(said, TRUE), "redis7")

\* Every recipe that is drafted without a model can be built, but MongoDB's: the address
\* of its repository is not that of a definition file.
ASSUME DraftsCanBeBuilt ==
    \A code \in {"keycloak", "vault", "consul", "mongodb", "redis7"},
       method \in {"", "package", "repo", "archive", "container"} :
        LET draft == I!DraftProfile(code, method, "", {})
        IN  I!Blockers(draft, {}) = {} <=> ~(code = "mongodb" /\ draft.repo # {})

\* No secret is made up by the portal: a container that demands one is given a password
\* of its machine's own, or waits for a person; and it is never run without.
ASSUME NoSecretMadeUp ==
    \A names \in SUBSET (I!SECRET \cup I!LICENCE), accepted \in BOOLEAN :
        LET answer == I!AnswerEnvironment(I!Demanded(names \cup I!NOT_A_VARIABLE), accepted)
        IN  /\ DOMAIN answer.environment \cap I!SECRET \subseteq I!RANDOM
            /\ names # {} => answer.needsAPerson # {} \/ DOMAIN answer.environment # {}
            /\ names \cap I!RANDOM = {}
                 => names \cap (I!SECRET \ I!EMPTY) \subseteq answer.needsAPerson

\* A command is read off a usage screen when it is the only one there; otherwise a person
\* is asked, or nothing was printed that could be read.
ASSUME OnlyTheOneCommand ==
    \A usage \in BOOLEAN, takesArgs \in BOOLEAN,
       commands \in {<<>>, <<"server">>, <<"server", "gateway">>, <<"odd">>} :
        LET names == I!OfferedCommands([usage |-> usage, commands |-> commands])
            answer == I!AnswerCommand(names, takesArgs, "redis")
        IN  /\ answer.command # "" <=> usage /\ commands = <<"server">>
            /\ answer.needsAPerson # {} <=> usage /\ Len(commands) > 1

\* The images of a technology, each as it may be: not there, silent, open, or unpinned.
Redis == [code |-> "redis7", bare |-> "redis", stem |-> <<"redis">>]
Official == I!Image("docker.io", <<"library", "redis">>)
Stranger == [official |-> FALSE, stars |-> 9, namespace |-> <<"my">>, repository |-> <<"redis">>,
             length |-> 8, place |-> 1, path |-> <<"my", "redis">>]
Vendor == [Stranger EXCEPT !.namespace = <<"redis">>, !.path = <<"redis", "stack">>, !.stars = 5]
Listed(registry) == [registry |-> registry, namespace |-> <<"redis">>, length |-> 11,
                     place |-> 1, path |-> <<"redis", "server">>]
InCatalogue == I!Image("mcr.microsoft.com", <<"redis", "server">>)
Images == {Official, I!Image("docker.io", <<"redis", "stack">>),
           I!Image("docker.io", <<"my", "redis">>), InCatalogue}
Manifest(image, tag, digest, exposed) ==
    [image |-> image, tag |-> tag, digest |-> digest, index |-> TRUE, config |-> {},
     children |-> <<[platform |-> "linux/arm64", digest |-> "d2", config |-> {}],
                    [platform |-> "linux/amd64", digest |-> "d1", config |-> exposed]>>]
Shown(image) ==
    {{}, {Manifest(image, "latest", "d0", {})}, {Manifest(image, "latest", "odd", {})},
     {Manifest(image, "7.2", "d0", {[number |-> 6379, protocol |-> "tcp"]})}}
Registries ==
    {[manifests |-> UNION Images_, answering |-> answering, open |-> {"mcr.microsoft.com"},
      tokens |-> {"docker.io"}, hub |-> <<Stranger, Vendor>>,
      catalogue |-> <<Listed("mcr.microsoft.com"), Listed("vendor.example")>>,
      tags |-> <<[image |-> InCatalogue, name |-> "7.2", version |-> <<7, 2>>],
                 [image |-> Official, name |-> "7.2", version |-> <<7, 2>>],
                 [image |-> Official, name |-> "7", version |-> <<7>>],
                 [image |-> Official, name |-> "alpine", version |-> <<>>]>>] :
       Images_ \in {{a, b, c} : a \in Shown(Official), b \in Shown(InCatalogue),
                                c \in Shown(I!Image("docker.io", <<"my", "redis">>))},
       answering \in {{"vendor.example"} \cup some :
                        some \in SUBSET {"docker.io", "hub", "mcr.microsoft.com"}}}

\* An image, once a machine has run it: where it listens, and the command it asked for.
Observed(image) ==
    LET report == ReportOf(CHOOSE said \in Said : TRUE, TRUE)
    IN  image @@ [listening |-> I!ListeningInside(report, "redis7"), command |-> "server",
                  environment |-> <<>>]

\* An image that is found is pinned and accepted, it is not a stranger's, and it opens a
\* port if any that is tried does.
ASSUME FoundIsAccepted ==
    \A world \in Registries :
        LET found == I!Find(Redis, "latest", <<>>, world)
            tried == I!Ordered(Redis, <<>>, world)
        IN  /\ \A image \in found :
                  /\ I!DraftFromImage("redis7", Observed(image)) # {}
                  /\ image.path # <<"my", "redis">>
            /\ \A i \in DOMAIN tried :
                  (\E at \in I!FoundAt(tried[i], "latest", world) : at.ports # {})
                     => \E image \in found : image.ports # {}

\* The vendor's image is found in its catalogue; but not by a process that asked while the
\* registry did not answer, whatever it answers later; nor in a registry that was added.
ASSUME OutageIsRemembered ==
    \A world \in {w \in Registries : {"hub", "mcr.microsoft.com"} \subseteq w.answering} :
        LET during == [world EXCEPT !.answering = @ \ {"mcr.microsoft.com"}]
            after == I!CataloguesAfter(<<>>, during)
            searched == I!Search(Redis, <<>>, world)
        IN  /\ InCatalogue \in I!Range(searched)
            /\ InCatalogue \notin I!Range(I!Search(Redis, after, world))
            /\ I!Allowed(I!Image("vendor.example", <<"redis", "server">>))
            /\ I!Image("vendor.example", <<"redis", "server">>) \notin I!Range(searched)

----------------------------------------------------------------------------
(* What the portal believes it can build: BlueprintRegistry on small inputs *)

B == INSTANCE BlueprintRegistry

File(origin, ref, kind, builds) ==
    [parses |-> TRUE, stem |-> ref, origin |-> origin, serves |-> "", ref |-> ref,
     target |-> "oci", kind |-> kind, builds |-> builds, enable_flag |-> "",
     requires_env |-> {}, needs_internet |-> {}, os_families |-> {"rhel"}]
ShippedFiles ==
    {File("shipped", "oci/service-vm", "oci-service-vm", {"nginx"}),
     File("shipped", "oci/oke", "oci-oke", {}),
     [File("shipped", "oci/oke", "oci-oke", {}) EXCEPT !.serves = "platform"],
     [File("shipped", "oci/oke", "oci-oke", {"oke"}) EXCEPT !.parses = FALSE]}
GeneratedFiles ==
    {File("generated", ref, kind, builds) :
       ref \in {"oci/service-vm", "oci/oke", "gen"},
       kind \in {"oci-oke", "gen-kind"}, builds \in {{"nginx"}, {"oke", "kafka"}}}
Files == {<<a, b, c>> : a \in ShippedFiles, b \in ShippedFiles, c \in GeneratedFiles}
Extends(on, archive) == [builds_on |-> on, archive |-> archive, repo |-> {}]
Known(configured) ==
    [set |-> {}, truthy |-> {}, configured |-> configured,
     profiles |-> [kafka |-> Extends("oci/service-vm", {"a"}), redis |-> Extends("gen", {}),
                   nginx |-> Extends("", {})],
     families |-> [kafka |-> {"rhel"}, nginx |-> {"rhel", "debian"}],
     verified |-> {<<"nginx", "rhel">>}, refuted |-> {<<"kafka", "debian">>},
     streams |-> [x \in {<<"nginx", "rhel">>} |-> {"1.24"}],
     clusterTiers |-> {"app"}, machineTiers |-> {"web"}]

\* What was shipped is not displaced: a technology or a kind that a shipped blueprint has
\* is never one of a generated blueprint, whatever was generated.
ASSUME ShippedWins ==
    \A files \in Files, configured \in BOOLEAN :
        \A shipped \in B!Shipped(files) :
            /\ \A code \in shipped.builds :
                  \A row \in B!ForTechnology(code, files, Known(configured)) :
                      row.origin = "shipped"
            /\ \A row \in B!ForResourceKind(shipped.kind, files, Known(configured))
                        \cup {r \in I!Range(B!Discover(files, Known(configured))) :
                                 r.kind = shipped.kind /\ r.error = ""} :
                  row.origin = "shipped"

\* A generated profile adds to a shipped blueprint only, and says where it installs; but
\* what was refuted of it on a machine is not told.
ASSUME ProfilesExtendWhatShips ==
    \A files \in Files :
        \A i \in DOMAIN files :
            LET row == B!Discover(files, Known(TRUE))[i]
            IN  /\ "redis" \notin row.builds
                /\ row.origin = "shipped" /\ row.ref = "oci/service-vm"
                     => /\ {"nginx", "kafka"} \subseteq row.builds
                        /\ DOMAIN row.installs_on = {"nginx", "kafka"}
                        /\ row.internet = {"kafka"} /\ DOMAIN row.refuted = {}

\* A shipped manifest that cannot be read claims nothing: a generated one takes its place.
ASSUME BrokenIsReplaced ==
    LET broken == [File("shipped", "oci/oke", "oci-oke", {"oke"}) EXCEPT !.parses = FALSE]
        taken == File("generated", "oci/oke", "oci-oke", {"oke"})
    IN  /\ \A row \in B!ForTechnology("oke", <<broken, taken>>, Known(TRUE)) :
              row.origin = "generated"
        /\ B!ForTechnology("oke", <<broken, taken>>, Known(TRUE)) # {}
=============================================================================

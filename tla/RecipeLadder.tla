---------------------------- MODULE RecipeLadder ----------------------------
(***************************************************************************)
(* The ladder an uncertified technology climbs: a recipe for each way of   *)
(* installing it, cheapest first, published, proved on a machine, and kept *)
(* or taken back.  What a machine disproves is remembered against the      *)
(* recipe; what it reports adds rungs: the package it found, the vendor's  *)
(* image, the same container with the ports it bound or the environment it *)
(* asked for.                                                              *)
(*                                                                         *)
(* A recipe is <<method, variant>>: two drafts with one fingerprint are    *)
(* one recipe.  What the outside answers (machines, registries, package    *)
(* repositories, reports) is chosen freely at every question.              *)
(***************************************************************************)
EXTENDS Integers, Sequences, FiniteSets, SequencesExt, TLC

CONSTANTS Findings,      \* packages a machine may report in place of a guess
          MaxRevisions,  \* MAX_RECIPE_REVISIONS
          MaxAttempts,   \* AUTOBUILD_MAX_ATTEMPTS
          Remembered,    \* recipes earlier climbs left a refutation or a file of
          MaxClimbs,     \* bound on requests that climb
          MaxVerdicts    \* bound on what the memory counts

VARIABLES climb,         \* the locals of ensure
          recipeStore,   \* the recipe the orchestrator offers for the technology
          keptFor,       \* the recipe the certification rests on
          memory,        \* the recipe_refutation rows: how many, and is the last one live
          passedOn,      \* history: recipes a machine proved
          orphan,        \* history: the recipe a crash left in the store
          climbs

ladderVars == <<climb, recipeStore, keptFor, memory, passedOn, orphan, climbs>>
outside == <<recipeStore, keptFor, memory, passedOn, orphan, climbs>>

Methods == {"package", "repo", "archive", "container", "discovered"}
Recipe == ({"package", "repo"} \X {"drafted", "swapped"}) \cup {<<"archive", "drafted">>}
          \cup ({"container"} \X {"declared", "listening", "environment", "both"})
          \cup ({"discovered"} \X Findings) \cup {<<"module", "drafted">>}
ASSUME RecipeLadderAssumption ==
    /\ MaxRevisions \in Nat /\ MaxAttempts \in Nat \ {0} /\ MaxClimbs \in Nat
    /\ Remembered \subseteq Recipe /\ MaxVerdicts \in Nat \ {0, 1}

Nothing == <<"none", "">>
HandWritten == <<"reviewed", "">>      \* written by a person: the ladder cannot retire it
NoFinding == "no finding"

\* What a proof build can answer.  "unheard" failed before the machine reported.
Outcomes == {"passed", "disproved", "unheard", "refused", "abandoned"}
Status(outcome) == IF outcome \in {"disproved", "unheard"} THEN "failed" ELSE outcome

NoClimb ==
    [pc |-> "idle", methods |-> <<>>, method |-> "", recipe |-> Nothing,
     registry |-> "none", offered |-> FALSE, image |-> FALSE, listening |-> FALSE,
     env |-> FALSE, finding |-> NoFinding, narrowed |-> FALSE, looked |-> FALSE,
     askedEnv |-> FALSE, asked |-> {}, rerun |-> {}, refuted |-> {}, attempt |-> 0,
     ended |-> ""]

ClimbState ==
    [pc : {"idle", "shipped", "resolve", "rung", "ask", "prove", "observe", "refuted", "module"},
     methods : Seq(Methods), method : Methods \cup {""}, recipe : Recipe \cup {Nothing},
     registry : {"none", "silent", "declares"}, offered : BOOLEAN, image : BOOLEAN,
     listening : BOOLEAN, env : BOOLEAN, finding : Findings \cup {NoFinding},
     narrowed : BOOLEAN, looked : BOOLEAN, askedEnv : BOOLEAN, asked : SUBSET Recipe,
     rerun : SUBSET Methods, refuted : SUBSET Methods, attempt : Nat,
     ended : {"", "published", "failed", "refused", "exhausted", "abandoned"}]

LadderTypeOK ==
    /\ climb \in ClimbState
    /\ {recipeStore, keptFor} \subseteq Recipe \cup {Nothing, HandWritten}
    /\ DOMAIN memory \subseteq Recipe
    /\ \A r \in DOMAIN memory :
          memory[r] \in [times : 1 .. MaxVerdicts, live : BOOLEAN]
    /\ passedOn \subseteq Recipe
    /\ climbs \in 0 .. MaxClimbs

----------------------------------------------------------------------------
(* What is remembered, and what a draft is *)

TimesRefuted(r) == IF r \in DOMAIN memory THEN memory[r].times ELSE 0
PreviouslyRefuted(r) == r \in DOMAIN memory /\ memory[r].live

Remember(r) ==
    /\ TimesRefuted(r) < MaxVerdicts                                    \* bound
    /\ memory' = [s \in DOMAIN memory \cup {r} |->
                     IF s = r THEN [times |-> TimesRefuted(r) + 1, live |-> TRUE] ELSE memory[s]]

\* image_for / registry.find: silence and failure look alike.
FindsImage(found) == found => climb.registry # "none"

\* draft, draft_from_finding, draft_from_image
Drafted(method) ==
    CASE method = "discovered" -> <<"discovered", climb.finding>>
      [] method = "container" ->
            <<"container", CASE climb.listening /\ climb.env -> "both"
                             [] climb.listening -> "listening"
                             [] climb.env -> "environment"
                             [] OTHER -> "declared">>
      [] OTHER -> <<method, "drafted">>

Listens(r) == r[1] = "container" /\ r[2] \in {"listening", "both"}

\* _installed_but_not_running: the guessed package starts nothing, and the image of
\* its own publisher listens.
RunsNothing(r) == r[1] = "package" /\ climb.registry = "declares"

\* _claims_nothing: no port to serve and no version to be asked.
ClaimsNothing(r) == r[1] = "container" /\ ~Listens(r)

MayCertify == ~(climb.method = "container" /\ ~climb.narrowed)

\* resolve.methods_for: a package unless the search named none, then what is curated,
\* then the image, asked for only when the search named none.
MethodsFor(packaged, repo, archive, image) ==
    LET When(offered, m) == IF offered THEN <<m>> ELSE <<>>
    IN  When(packaged, "package") \o When(repo, "repo") \o When(archive, "archive")
        \o When(~packaged /\ image, "container")

Ends(status) == climb' = [NoClimb EXCEPT !.ended = status]

\* Mutant: the certification goes, the files stay.
TakenBackByHalf == recipeStore' = recipeStore /\ keptFor' = Nothing

\* take_it_back: the files and the certification that rests on them.
TakenBack == recipeStore' = Nothing /\ keptFor' = Nothing

----------------------------------------------------------------------------
LadderInit ==
    /\ climb = NoClimb
    /\ recipeStore \in {Nothing, HandWritten} \cup Remembered
    /\ keptFor = Nothing
    /\ \/ memory = <<>>
       \/ \E r \in Remembered, n \in 1 .. 2 :
             memory = [s \in {r} |-> [times |-> n, live |-> TRUE]]
    /\ passedOn = {} /\ orphan = recipeStore /\ climbs = 0

\* A request names the technology and nothing certified provides it.
EnsureBegins ==
    /\ climb.pc = "idle" /\ keptFor = Nothing
    /\ climbs < MaxClimbs                                              \* bound
    /\ climbs' = climbs + 1
    /\ \E registry \in {"none", "silent", "declares"} :
          climb' = [NoClimb EXCEPT !.pc = IF recipeStore = Nothing THEN "resolve" ELSE "shipped",
                                   !.registry = registry]
    /\ UNCHANGED <<recipeStore, keptFor, memory, passedOn, orphan>>

\* A recipe that is there but uncertified is proved as it is.
ProveShipped ==
    /\ climb.pc = "shipped"
    /\ \E outcome \in Outcomes :
          \/ /\ outcome = "passed"
             /\ keptFor' = recipeStore
             /\ passedOn' = (passedOn \cup {recipeStore}) \ {HandWritten}
             /\ Ends("published")
             /\ UNCHANGED <<recipeStore, memory>>
          \/ /\ outcome # "passed" /\ recipeStore = HandWritten
             /\ Ends("failed")
             /\ UNCHANGED <<recipeStore, keptFor, memory, passedOn>>
          \* Written by the agent: retired, remembered, and the ladder goes on.
          \/ /\ outcome # "passed" /\ recipeStore # HandWritten
             /\ recipeStore' = Nothing
             /\ Remember(recipeStore)
             /\ climb' = [climb EXCEPT !.pc = "resolve"]
             /\ UNCHANGED <<keptFor, passedOn>>
    /\ UNCHANGED <<orphan, climbs>>

\* A capability is refused; what is not software on a machine goes to the drafter.
ResolveMethods ==
    /\ climb.pc = "resolve"
    /\ \/ Ends("refused")
       \/ climb' = [climb EXCEPT !.pc = "module"]
       \/ \E packaged, repo, archive, image \in BOOLEAN :
             /\ FindsImage(image)
             /\ climb' = [climb EXCEPT !.pc = "rung", !.offered = ~packaged /\ image,
                                       !.methods = MethodsFor(packaged, repo, archive, image)]
    /\ UNCHANGED outside

\* Nothing left to try: the last rung's answer is the ladder's.
RungsRunOut ==
    /\ climb.pc = "rung" /\ climb.methods = <<>>
    /\ Ends("refused")
    /\ UNCHANGED outside

\* Take the next rung and draft it.  A draft that cannot be made or that the linter
\* blocks is skipped.
TakeRung ==
    /\ climb.pc = "rung" /\ climb.methods # <<>>
    /\ \E found, drafts \in BOOLEAN :
          LET method == Head(climb.methods)
              image == climb.image \/ (method = "container" /\ found)
          IN  /\ FindsImage(found)
              /\ method = "container" /\ ~image => ~drafts
              /\ climb' = [climb EXCEPT !.methods = Tail(@), !.method = method,
                              !.image = image, !.attempt = 0,
                              !.recipe = IF drafts THEN Drafted(method) ELSE Nothing,
                              !.pc = IF drafts THEN "ask" ELSE "rung"]
    /\ UNCHANGED outside

\* No egress from the build subnet judges the request, not the rung.
NoRouteOut ==
    /\ climb.pc = "ask" /\ climb.method \in {"repo", "archive"}
    /\ Ends("refused")
    /\ UNCHANGED outside

\* The repository names a better package, at most MaxRevisions times, or refuses.
AskRepository ==
    /\ climb.pc = "ask" /\ climb.method \in {"package", "repo", "discovered"}
    /\ \/ /\ climb.attempt < MaxRevisions /\ climb.method # "discovered"
          /\ climb' = [climb EXCEPT !.attempt = @ + 1, !.recipe = <<climb.method, "swapped">>]
       \/ climb' = [climb EXCEPT !.pc = "rung"]
    /\ UNCHANGED outside

\* A rung is taken from memory unless this climb is running it again.
PublishRung ==
    /\ climb.pc = "ask"
    /\ ~PreviouslyRefuted(climb.recipe) \/ climb.method \in climb.rerun
    /\ \/ /\ recipeStore' = climb.recipe
          /\ climb' = [climb EXCEPT !.pc = "prove"]
       \* The generated store did not take it.
       \/ Ends("failed") /\ UNCHANGED recipeStore
    /\ UNCHANGED <<keptFor, memory, passedOn, orphan, climbs>>

----------------------------------------------------------------------------
(* A rung the memory refuses: its machine is asked what it found instead *)

\* Mutant: which machines were asked is not written down.
AsksAgain(r) == climb.asked

Asks(r) == climb.asked \cup {r}

\* A machine searches its repositories only for a package it could not install: the
\* report of a container's machine has no such section.
Searched(r) == r[1] # "container"

FollowTheMemory ==
    /\ climb.pc = "ask"
    /\ PreviouslyRefuted(climb.recipe) /\ climb.method \notin climb.rerun
    /\ LET r == climb.recipe
           m == climb.method
           Next_(c) == climb' = [c EXCEPT !.pc = "rung"]
           asking == [climb EXCEPT !.asked = Asks(r)]
       IN  IF r \in climb.asked THEN Next_(climb)
           ELSE \/ \E f \in Findings :
                      Searched(r) /\ Next_([asking EXCEPT !.finding = f, !.methods = Append(@, "discovered")])
                \* Not asked then: the rung runs once more, once per recipe.
                \/ /\ m \notin climb.rerun /\ TimesRefuted(r) < 2
                   /\ Next_([asking EXCEPT !.rerun = @ \cup {m}, !.methods = <<m>> \o @])
                \* Settled, or sound and nothing there: the vendor is still to be asked.
                \/ \E found \in BOOLEAN :
                      /\ FindsImage(found) /\ (found => ~climb.looked)
                      /\ Next_([asking EXCEPT
                            !.looked = TRUE, !.image = @ \/ found,
                            !.listening = @ /\ ~found, !.env = @ /\ ~found,
                            !.methods = IF found THEN Append(@, "container") ELSE @])
    /\ UNCHANGED outside

----------------------------------------------------------------------------
(* A rung on a machine *)

\* The orchestrator does not report the profile: taken back, and nothing was built.
NotReported ==
    /\ climb.pc = "prove"
    /\ TakenBack
    /\ Ends("failed")
    /\ UNCHANGED <<memory, passedOn, orphan, climbs>>

\* A machine's verdict, or a door that refuses what the machine proved.
Disproved ==
    /\ Remember(climb.recipe)
    /\ TakenBack
    /\ climb' = [climb EXCEPT !.pc = "refuted", !.refuted = @ \cup {climb.method}]

ProveRung ==
    /\ climb.pc = "prove"
    /\ \E outcome \in Outcomes :
          \/ outcome = "disproved" /\ Disproved /\ UNCHANGED passedOn
          \/ /\ outcome \in {"unheard", "refused", "abandoned"}
             /\ TakenBack
             /\ Ends("failed")
             /\ UNCHANGED <<memory, passedOn>>
          \* A container's first pass is a question to the machine.
          \/ /\ outcome = "passed" /\ ~MayCertify
             /\ passedOn' = passedOn \cup {climb.recipe}
             /\ climb' = [climb EXCEPT !.pc = "observe"]
             /\ UNCHANGED <<recipeStore, keptFor, memory>>
          \/ /\ outcome = "passed" /\ MayCertify
             /\ RunsNothing(climb.recipe) \/ ClaimsNothing(climb.recipe)
             /\ Disproved /\ UNCHANGED passedOn
          \* The vendor's word may not be had: then nothing contradicts the recipe.
          \/ /\ outcome = "passed" /\ MayCertify
             /\ ~ClaimsNothing(climb.recipe)
             /\ RunsNothing(climb.recipe) => ~climb.offered
             /\ passedOn' = passedOn \cup {climb.recipe}
             /\ keptFor' = climb.recipe
             /\ Ends("published")
             /\ UNCHANGED <<recipeStore, memory>>
    /\ UNCHANGED <<orphan, climbs>>

\* Mutant: the first pass certifies, and its draft is withdrawn to be written again.
ObservePortsCertified ==
    /\ climb.pc = "observe"
    /\ recipeStore' = Nothing /\ keptFor' = climb.recipe
    /\ climb' = [climb EXCEPT !.narrowed = TRUE, !.listening = TRUE, !.pc = "rung",
                              !.methods = Append(@, "container")]
    /\ UNCHANGED <<memory, passedOn, orphan, climbs>>

\* What the container bound.  Nothing its image declares: it never started.  Ports it
\* was not published with: the recipe is written again with them.
ObservePorts ==
    /\ climb.pc = "observe"
    /\ \/ /\ climb.registry = "declares"
          /\ recipeStore' = Nothing
          /\ Ends("failed")
          /\ UNCHANGED keptFor
       \/ /\ recipeStore' = Nothing
          /\ climb' = [climb EXCEPT !.narrowed = TRUE, !.listening = TRUE, !.pc = "rung",
                                    !.methods = Append(@, "container")]
          /\ UNCHANGED keptFor
       \/ /\ climb.registry = "silent" \/ Listens(climb.recipe)
          /\ keptFor' = climb.recipe
          /\ Ends("published")
          /\ UNCHANGED recipeStore
    /\ UNCHANGED <<memory, passedOn, orphan, climbs>>

\* What a machine that refuted its rung says when it is asked, once per recipe: the
\* package it found, or nothing there, and then the vendor is looked up, once.
Reported(answer, found, f) ==
    LET first == climb.recipe \notin climb.asked
        lookNow == first /\ answer = "nothing there" /\ ~climb.looked
    IN  [climb EXCEPT
            !.asked = Asks(climb.recipe),
            !.finding = IF first /\ answer = "found" THEN f ELSE @,
            !.looked = @ \/ lookNow,
            !.image = @ \/ (lookNow /\ found),
            !.listening = @ /\ ~(lookNow /\ found),
            !.env = @ /\ ~(lookNow /\ found),
            !.methods = @ \o IF first /\ answer = "found" THEN <<"discovered">>
                             ELSE IF lookNow /\ found THEN <<"container">> ELSE <<>>]

\* A container that did not run is asked, once, for the environment it wants.
AsksForEnvironment(c) ==
    climb.method = "container" /\ ~c.askedEnv /\ c.image /\ ~c.env

\* The vendor's image is the next rung, if it is neither tried nor coming.
VendorIsNext(c, found) ==
    /\ climb.offered \/ found
    /\ climb.method # "container" /\ "container" \notin Range(c.methods)
    /\ "container" \notin c.refuted

\* From a refuted rung to the next: with the environment the container asked for, if
\* nobody has to choose it; else with the vendor's image, or the rungs there are.
TriesNext(c, found, supplied) ==
    LET needs == AsksForEnvironment(c)
        rung == VendorIsNext(c, found)
    IN  /\ supplied # "nothing" => needs
        /\ \/ /\ supplied = "environment"
              /\ climb' = [c EXCEPT !.askedEnv = TRUE, !.env = TRUE, !.narrowed = FALSE,
                                    !.methods = Append(@, "container")]
           \/ supplied = "person" /\ Ends("failed")
           \/ /\ supplied = "nothing"
              /\ climb' = [c EXCEPT
                     !.askedEnv = @ \/ needs,
                     !.image = @ \/ rung, !.looked = @ \/ rung,
                     !.listening = @ /\ ~rung, !.env = @ /\ ~rung,
                     !.methods = IF rung THEN Append(@, "container") ELSE @]

\* Only a machine's verdict is a reason to try another recipe.
ClimbOn ==
    /\ climb.pc = "refuted"
    /\ \E answer \in {"could not tell", "nothing there", "found"}, found \in BOOLEAN,
          f \in Findings, supplied \in {"nothing", "environment", "person"} :
          /\ FindsImage(found)
          /\ answer # "could not tell" => Searched(climb.recipe)
          /\ TriesNext([Reported(answer, found, f) EXCEPT !.pc = "rung"], found, supplied)
    /\ UNCHANGED outside

----------------------------------------------------------------------------
\* build, for what is not software on a machine: draft, check, prove, diagnose, again.
BuildModule ==
    /\ climb.pc = "module"
    /\ \E outcome \in Outcomes \cup {"linted"} :
          \/ /\ outcome \in {"linted", "disproved", "unheard"}
             /\ IF climb.attempt + 1 = MaxAttempts THEN Ends("exhausted")
                ELSE climb' = [climb EXCEPT !.attempt = @ + 1]
             /\ UNCHANGED <<recipeStore, keptFor, passedOn>>
          \* Refused on price, or not torn down: more builds would add to it.
          \/ /\ outcome \in {"refused", "abandoned"}
             /\ Ends(outcome)
             /\ UNCHANGED <<recipeStore, keptFor, passedOn>>
          \* Published after the proof; the orchestrator may not report it.
          \/ /\ outcome = "passed"
             /\ passedOn' = passedOn \cup {<<"module", "drafted">>}
             /\ \/ Ends("failed") /\ UNCHANGED <<recipeStore, keptFor>>
                \/ /\ recipeStore' = <<"module", "drafted">>
                   /\ \/ Ends("failed") /\ UNCHANGED keptFor
                      \/ Ends("published") /\ keptFor' = <<"module", "drafted">>
    /\ UNCHANGED <<memory, orphan, climbs>>

\* A refutation is no longer evidence once it is older than a certification may be.
RefutationExpires(r) ==
    /\ climb.pc = "idle" /\ climbs < MaxClimbs                        \* bound
    /\ PreviouslyRefuted(r)
    /\ memory' = [memory EXCEPT ![r].live = FALSE]
    /\ UNCHANGED <<climb, recipeStore, keptFor, passedOn, orphan, climbs>>

\* The API stops in the middle of a climb: what is in the store stays there.
ClimbCrash ==
    /\ climb.pc # "idle"
    /\ climb' = NoClimb /\ orphan' = recipeStore
    /\ UNCHANGED <<recipeStore, keptFor, memory, passedOn, climbs>>

Climb ==
    \/ ProveShipped \/ ResolveMethods \/ RungsRunOut \/ TakeRung \/ NoRouteOut
    \/ AskRepository \/ PublishRung \/ FollowTheMemory \/ NotReported \/ ProveRung
    \/ ObservePorts \/ ClimbOn \/ BuildModule

LadderNext == EnsureBegins \/ Climb \/ ClimbCrash \/ \E r \in Recipe : RefutationExpires(r)

LadderSpec == LadderInit /\ [][LadderNext]_ladderVars /\ WF_ladderVars(Climb)
----------------------------------------------------------------------------
\* The certification and the store speak of one recipe, and a machine proved it.
KeptWasProved ==
    keptFor # Nothing =>
       recipeStore = keptFor /\ keptFor \in passedOn \cup {HandWritten}

\* However a climb ends, no recipe it drafted stays in the store unproved, where every
\* later request would find it installable.  (A crash leaves one; the next climb
\* proves or retires it.)
NothingUnprovedLeft ==
    climb.pc = "idle" => recipeStore \in passedOn \cup {Nothing, orphan}

\* Every rung a machine's report adds is spent: a climb ends.
LadderEnds == climb.pc # "idle" ~> climb.pc = "idle"
=============================================================================

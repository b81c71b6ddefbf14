---------------------------- MODULE Factory_proofs ----------------------------
(***************************************************************************)
(* Proofs about RecipeLadder, for any findings, revisions, attempts, climbs *)
(* and verdicts, and whatever machines, registries and reports answer: that *)
(* what is certified was proved and is what the store offers, and that no   *)
(* climb leaves an unproved recipe of its own behind.  The argument is that *)
(* between two rungs the store is empty, on a rung it holds the recipe of   *)
(* that rung, and nothing is certified while a climb goes on.               *)
(*                                                                         *)
(* And about MCFactory, which TLC checks: a behaviour of the two parts is   *)
(* one of each, so that what was proved of each holds of both together.     *)
(***************************************************************************)
EXTENDS MCFactory, Certification_proofs, TLAPS

OnARung == {"ask", "prove", "observe", "refuted"}
BetweenRungs == {"resolve", "rung", "ask", "refuted", "module"}

\* A rung for what a machine found is there only once a machine has found something.
Offered(c) == IF c.finding \in Findings THEN Methods ELSE Methods \ {"discovered"}

\* The locals of a climb: on a rung there is a recipe and the method it is for.
ClimbOK(c) ==
    /\ c \in ClimbState
    /\ c.methods \in Seq(Offered(c))
    /\ c.pc \in OnARung => c.recipe \in Recipe /\ c.method \in Offered(c)

\* What the store offers while a climb goes on.
StoreFollows ==
    /\ climb.pc \in {"prove", "observe"} => recipeStore = climb.recipe
    /\ climb.pc \in BetweenRungs => recipeStore = Nothing
    /\ climb.pc = "shipped" => recipeStore # Nothing /\ recipeStore \in passedOn \cup {orphan}

NothingKept == climb.pc # "idle" => keptFor = Nothing

ObservedPassed == climb.pc = "observe" => climb.recipe \in passedOn

\* What is remembered and what was proved.
RecordOK ==
    /\ {recipeStore, keptFor} \subseteq Recipe \cup {Nothing, HandWritten}
    /\ DOMAIN memory \subseteq Recipe
    /\ \A r \in DOMAIN memory : memory[r] \in [times : 1 .. MaxVerdicts, live : BOOLEAN]
    /\ passedOn \subseteq Recipe
    /\ climbs \in 0 .. MaxClimbs

RungInv == /\ StoreFollows /\ NothingKept /\ ObservedPassed
           /\ KeptWasProved /\ NothingUnprovedLeft

LInv == ClimbOK(climb) /\ RecordOK /\ RungInv

----------------------------------------------------------------------------
(* Recipes and climbs *)

LEMMA NotRecipes == Nothing \notin Recipe /\ HandWritten \notin Recipe /\ Nothing # HandWritten
BY DEF Recipe, Nothing, HandWritten

LEMMA SomeRecipes ==
    /\ \A m \in {"package", "repo"} : <<m, "swapped">> \in Recipe
    /\ \A m \in {"package", "repo", "archive"} : <<m, "drafted">> \in Recipe
    /\ \A v \in {"declared", "listening", "environment", "both"} : <<"container", v>> \in Recipe
    /\ \A f \in Findings : <<"discovered", f>> \in Recipe
    /\ <<"module", "drafted">> \in Recipe
BY DEF Recipe

LEMMA NoClimbOK == ClimbOK(NoClimb) /\ NoClimb.pc = "idle"
<1>1. NoClimb \in ClimbState
  <2>1. <<>> \in Seq(Methods)
    OBVIOUS
  <2>2. Nothing \in Recipe \cup {Nothing} /\ {} \in SUBSET Recipe /\ {} \in SUBSET Methods
    OBVIOUS
  <2> HIDE DEF Nothing
  <2> QED BY <2>1, <2>2 DEF NoClimb, ClimbState
<1>2. NoClimb.pc = "idle" /\ NoClimb.methods = <<>>
  BY DEF NoClimb
<1> QED BY <1>1, <1>2 DEF ClimbOK, OnARung

\* A climb that ends is idle, and holds nothing.
LEMMA EndsIdle ==
    ASSUME NEW status \in {"published", "failed", "refused", "exhausted", "abandoned"},
           Ends(status)
    PROVE  ClimbOK(climb') /\ climb'.pc = "idle"
<1>1. climb' \in ClimbState /\ climb'.pc = "idle" /\ climb'.methods = <<>>
  BY NoClimbOK DEF ClimbOK, Ends, ClimbState, NoClimb
<1> QED BY <1>1 DEF ClimbOK, OnARung

\* Only the place changes.
LEMMA GoesTo ==
    ASSUME ClimbOK(climb), NEW pc \in {"resolve", "rung", "prove", "observe", "module"},
           climb' = [climb EXCEPT !.pc = pc],
           pc \in OnARung => climb.pc \in OnARung
    PROVE  ClimbOK(climb') /\ climb'.pc = pc /\ climb'.recipe = climb.recipe
<1>1. /\ climb' \in ClimbState /\ climb'.pc = pc /\ climb'.methods = climb.methods
      /\ climb'.finding = climb.finding /\ climb'.recipe = climb.recipe
      /\ climb'.method = climb.method
  BY DEF ClimbOK, ClimbState
<1> QED BY <1>1 DEF ClimbOK, Offered

\* A rung more at the end, or a rung again at the front.
LEMMA MoreRungs ==
    ASSUME NEW S, NEW q \in Seq(S), NEW m \in S
    PROVE  Append(q, m) \in Seq(S) /\ <<m>> \o q \in Seq(S)
OBVIOUS

LEMMA MoreOffered ==
    ASSUME NEW S, NEW T, S \subseteq T, NEW q \in Seq(S)
    PROVE  q \in Seq(T)
OBVIOUS

\* What methods_for offers needs no finding.
LEMMA MethodsForType ==
    ASSUME NEW packaged \in BOOLEAN, NEW repo \in BOOLEAN, NEW archive \in BOOLEAN,
           NEW image \in BOOLEAN
    PROVE  MethodsFor(packaged, repo, archive, image) \in Seq(Methods \ {"discovered"})
<1> DEFINE S == Methods \ {"discovered"}
           When(offered, m) == IF offered THEN <<m>> ELSE <<>>
<1>1. /\ When(packaged, "package") \in Seq(S) /\ When(repo, "repo") \in Seq(S)
      /\ When(archive, "archive") \in Seq(S) /\ When(~packaged /\ image, "container") \in Seq(S)
  <2>1. \A m \in S : <<m>> \in Seq(S)
    OBVIOUS
  <2>2. <<>> \in Seq(S)
    OBVIOUS
  <2>3. {"package", "repo", "archive", "container"} \subseteq S
    BY DEF Methods
  <2> HIDE DEF S
  <2> QED BY <2>1, <2>2, <2>3
<1>2. MethodsFor(packaged, repo, archive, image) =
         When(packaged, "package") \o When(repo, "repo") \o When(archive, "archive")
         \o When(~packaged /\ image, "container")
  BY DEF MethodsFor
<1> HIDE DEF When, S
<1>3. MethodsFor(packaged, repo, archive, image) \in Seq(S)
  BY <1>1, <1>2
<1> QED BY <1>3 DEF S

\* A draft is a recipe, if what it is for is offered.
LEMMA DraftedIsRecipe ==
    ASSUME ClimbOK(climb), NEW method \in Offered(climb)
    PROVE  Drafted(method) \in Recipe
<1>1. CASE method = "discovered"
  BY <1>1, SomeRecipes DEF Drafted, Offered
<1>2. CASE method = "container"
  BY <1>2, SomeRecipes DEF Drafted
<1>3. CASE method \in {"package", "repo", "archive"}
  BY <1>3, SomeRecipes DEF Drafted
<1> QED BY <1>1, <1>2, <1>3 DEF Offered, Methods

\* What is remembered stays of its type, whatever is remembered.
LEMMA RememberOK ==
    ASSUME RecordOK, NEW r \in Recipe, Remember(r)
    PROVE  /\ DOMAIN memory' \subseteq Recipe
           /\ \A s \in DOMAIN memory' :
                 memory'[s] \in [times : 1 .. MaxVerdicts, live : BOOLEAN]
<1> DEFINE row == [times |-> TimesRefuted(r) + 1, live |-> TRUE]
           Rows == [times : 1 .. MaxVerdicts, live : BOOLEAN]
<1>1. TimesRefuted(r) \in 0 .. MaxVerdicts /\ TimesRefuted(r) < MaxVerdicts
  <2>1. CASE r \in DOMAIN memory
    <3>1. memory[r] \in Rows
      BY <2>1 DEF RecordOK
    <3>2. memory[r].times \in 1 .. MaxVerdicts
      BY <3>1
    <3> QED BY <2>1, <3>2, RecipeLadderAssumption DEF TimesRefuted, Remember
  <2>2. CASE r \notin DOMAIN memory
    BY <2>2, RecipeLadderAssumption DEF TimesRefuted, Remember
  <2> QED BY <2>1, <2>2
<1>2. row \in Rows
  BY <1>1, RecipeLadderAssumption
<1>3. memory' = [s \in DOMAIN memory \cup {r} |-> IF s = r THEN row ELSE memory[s]]
  BY DEF Remember
<1>4. \A s \in DOMAIN memory : memory[s] \in Rows
  BY DEF RecordOK
<1> HIDE DEF row, Rows
<1>5. /\ DOMAIN memory' = {r} \cup DOMAIN memory
      /\ \A s \in DOMAIN memory' : memory'[s] = IF s = r THEN row ELSE memory[s]
  BY <1>3
<1>6. \A s \in DOMAIN memory' : memory'[s] \in Rows
  BY <1>2, <1>4, <1>5
<1>7. DOMAIN memory' \subseteq Recipe
  BY <1>5 DEF RecordOK
<1> QED BY <1>6, <1>7 DEF Rows

----------------------------------------------------------------------------
(* Between rungs the store is empty, and stays so *)

LEMMA StaysBetween ==
    ASSUME LInv, UNCHANGED outside, ClimbOK(climb'),
           climb.pc \in BetweenRungs, climb'.pc \in BetweenRungs \cup {"idle"}
    PROVE  LInv'
<1>1. recipeStore' = Nothing /\ keptFor' = Nothing
  BY DEF LInv, RungInv, StoreFollows, NothingKept, BetweenRungs, outside
<1>2. StoreFollows' /\ NothingKept' /\ ObservedPassed' /\ KeptWasProved' /\ NothingUnprovedLeft'
  BY <1>1 DEF StoreFollows, NothingKept, ObservedPassed, KeptWasProved, NothingUnprovedLeft,
              BetweenRungs
<1>3. RecordOK'
  BY DEF LInv, RecordOK, outside
<1> QED BY <1>2, <1>3 DEF LInv, RungInv

\* The store is emptied: nothing of this rung is left.
LEMMA RungIsOver ==
    ASSUME LInv, recipeStore' = Nothing, keptFor' = Nothing, passedOn' = passedOn,
           orphan' = orphan, climbs' = climbs, ClimbOK(climb'),
           climb'.pc \in {"idle", "refuted", "rung", "resolve"},
           \/ memory' = memory
           \/ \E r \in Recipe : Remember(r)
    PROVE  LInv'
<1>1. StoreFollows' /\ NothingKept' /\ ObservedPassed' /\ KeptWasProved' /\ NothingUnprovedLeft'
  BY DEF StoreFollows, NothingKept, ObservedPassed, KeptWasProved, NothingUnprovedLeft,
         BetweenRungs
<1>2. /\ DOMAIN memory' \subseteq Recipe
      /\ \A s \in DOMAIN memory' :
            memory'[s] \in [times : 1 .. MaxVerdicts, live : BOOLEAN]
  BY RememberOK DEF LInv, RecordOK
<1>3. RecordOK'
  BY <1>2 DEF LInv, RecordOK
<1> QED BY <1>1, <1>3 DEF LInv, RungInv

LEMMA EnsureBeginsStep ==
    ASSUME LInv, EnsureBegins
    PROVE  LInv'
<1>1. PICK registry \in {"none", "silent", "declares"} :
         climb' = [NoClimb EXCEPT !.pc = IF recipeStore = Nothing THEN "resolve" ELSE "shipped",
                                  !.registry = registry]
  BY DEF EnsureBegins
<1>2. /\ climb' \in ClimbState /\ climb'.methods = <<>>
      /\ climb'.pc = IF recipeStore = Nothing THEN "resolve" ELSE "shipped"
  <2> DEFINE place == IF recipeStore = Nothing THEN "resolve" ELSE "shipped"
  <2>1. place \in {"resolve", "shipped"}
    OBVIOUS
  <2>2. NoClimb \in ClimbState /\ NoClimb.methods = <<>>
    BY NoClimbOK DEF ClimbOK, NoClimb
  <2>3. climb' = [NoClimb EXCEPT !.pc = place, !.registry = registry]
    BY <1>1
  <2> HIDE DEF place
  <2>4. climb' \in ClimbState /\ climb'.methods = <<>> /\ climb'.pc = place
    BY <2>1, <2>2, <2>3, ZenonT(120) DEF ClimbState
  <2> QED BY <2>4 DEF place
<1>3. ClimbOK(climb')
  BY <1>2 DEF ClimbOK, OnARung
<1>4. /\ keptFor' = Nothing /\ recipeStore' = recipeStore /\ passedOn' = passedOn
      /\ orphan' = orphan /\ memory' = memory /\ climbs' \in 0 .. MaxClimbs
      /\ recipeStore \in passedOn \cup {Nothing, orphan}
  BY RecipeLadderAssumption DEF LInv, RecordOK, RungInv, NothingUnprovedLeft, EnsureBegins
<1>5. RecordOK'
  BY <1>4 DEF LInv, RecordOK
<1>6. StoreFollows' /\ NothingKept' /\ ObservedPassed' /\ KeptWasProved' /\ NothingUnprovedLeft'
  BY <1>2, <1>4 DEF StoreFollows, NothingKept, ObservedPassed, KeptWasProved,
                    NothingUnprovedLeft, BetweenRungs
<1> QED BY <1>3, <1>5, <1>6 DEF LInv, RungInv

LEMMA ProveShippedStep ==
    ASSUME LInv, ProveShipped
    PROVE  LInv'
<1>1. /\ climb.pc = "shipped" /\ keptFor = Nothing /\ orphan' = orphan /\ climbs' = climbs
      /\ recipeStore # Nothing /\ recipeStore \in passedOn \cup {orphan}
      /\ recipeStore \in Recipe \cup {HandWritten} /\ passedOn \subseteq Recipe
  BY DEF LInv, RungInv, StoreFollows, NothingKept, RecordOK, ProveShipped
<1>2. CASE /\ keptFor' = recipeStore
           /\ passedOn' = (passedOn \cup {recipeStore}) \ {HandWritten}
           /\ Ends("published")
           /\ UNCHANGED <<recipeStore, memory>>
  <2>1. ClimbOK(climb') /\ climb'.pc = "idle"
    BY <1>2, EndsIdle
  <2>2. RecordOK'
    BY <1>1, <1>2 DEF LInv, RecordOK
  <2>3. recipeStore' \in passedOn' \cup {orphan'} /\ keptFor' \in passedOn' \cup {HandWritten}
    BY <1>1, <1>2, NotRecipes
  <2>4. StoreFollows' /\ NothingKept' /\ ObservedPassed' /\ KeptWasProved' /\ NothingUnprovedLeft'
    BY <1>2, <2>1, <2>3 DEF StoreFollows, NothingKept, ObservedPassed, KeptWasProved,
                            NothingUnprovedLeft, BetweenRungs
  <2> QED BY <2>1, <2>2, <2>4 DEF LInv, RungInv
<1>3. CASE /\ Ends("failed")
           /\ UNCHANGED <<recipeStore, keptFor, memory, passedOn>>
  <2>1. ClimbOK(climb') /\ climb'.pc = "idle"
    BY <1>3, EndsIdle
  <2>2. RecordOK'
    BY <1>1, <1>3 DEF LInv, RecordOK
  <2>3. StoreFollows' /\ NothingKept' /\ ObservedPassed' /\ KeptWasProved' /\ NothingUnprovedLeft'
    BY <1>1, <1>3, <2>1 DEF StoreFollows, NothingKept, ObservedPassed, KeptWasProved,
                            NothingUnprovedLeft, BetweenRungs
  <2> QED BY <2>1, <2>2, <2>3 DEF LInv, RungInv
<1>4. CASE /\ recipeStore # HandWritten
           /\ recipeStore' = Nothing
           /\ Remember(recipeStore)
           /\ climb' = [climb EXCEPT !.pc = "resolve"]
           /\ UNCHANGED <<keptFor, passedOn>>
  <2>1. ClimbOK(climb') /\ climb'.pc = "resolve"
    BY <1>4, GoesTo DEF LInv, OnARung
  <2>2. recipeStore \in Recipe
    BY <1>1, <1>4
  <2> QED BY <1>1, <1>4, <2>1, <2>2, RungIsOver
<1> QED BY <1>2, <1>3, <1>4 DEF ProveShipped

LEMMA ResolveMethodsStep ==
    ASSUME LInv, ResolveMethods
    PROVE  LInv'
<1>1. ClimbOK(climb) /\ climb.pc \in BetweenRungs /\ UNCHANGED outside
  BY DEF LInv, ResolveMethods, BetweenRungs
<1>2. CASE Ends("refused")
  BY <1>1, <1>2, EndsIdle, StaysBetween
<1>3. CASE climb' = [climb EXCEPT !.pc = "module"]
  <2>1. ClimbOK(climb') /\ climb'.pc = "module"
    BY <1>1, <1>3, GoesTo DEF OnARung
  <2> QED BY <1>1, <2>1, StaysBetween DEF BetweenRungs
<1>4. ASSUME NEW packaged \in BOOLEAN, NEW repo \in BOOLEAN, NEW archive \in BOOLEAN,
             NEW image \in BOOLEAN,
             climb' = [climb EXCEPT !.pc = "rung", !.offered = ~packaged /\ image,
                                    !.methods = MethodsFor(packaged, repo, archive, image)]
      PROVE  LInv'
  <2> DEFINE q == MethodsFor(packaged, repo, archive, image)
  <2>1. q \in Seq(Methods \ {"discovered"})
    BY MethodsForType
  <2> HIDE DEF q
  <2>2. q \in Seq(Methods) /\ q \in Seq(Offered(climb))
    BY <2>1, MoreOffered DEF Offered
  <2>3. /\ climb' \in ClimbState /\ climb'.methods = q /\ climb'.finding = climb.finding
        /\ climb'.pc = "rung"
    <3>1. climb \in ClimbState
      BY <1>1 DEF ClimbOK
    <3>2. climb' = [climb EXCEPT !.pc = "rung", !.offered = ~packaged /\ image, !.methods = q]
      BY <1>4 DEF q
    <3> QED BY <2>2, <3>1, <3>2, ZenonT(120) DEF ClimbState
  <2>4. ClimbOK(climb')
    BY <2>2, <2>3 DEF ClimbOK, OnARung, Offered
  <2> QED BY <1>1, <2>3, <2>4, StaysBetween DEF BetweenRungs
<1> QED BY <1>2, <1>3, <1>4 DEF ResolveMethods

LEMMA RungsRunOutStep ==
    ASSUME LInv, RungsRunOut
    PROVE  LInv'
BY EndsIdle, StaysBetween DEF RungsRunOut, BetweenRungs

LEMMA TakeRungStep ==
    ASSUME LInv, TakeRung
    PROVE  LInv'
<1>1. /\ ClimbOK(climb) /\ climb.pc = "rung" /\ climb.methods # <<>> /\ UNCHANGED outside
  BY DEF LInv, TakeRung
<1>2. PICK found \in BOOLEAN : \E drafts \in BOOLEAN :
         LET method == Head(climb.methods)
             image == climb.image \/ (method = "container" /\ found)
         IN  climb' = [climb EXCEPT !.methods = Tail(@), !.method = method,
                          !.image = image, !.attempt = 0,
                          !.recipe = IF drafts THEN Drafted(method) ELSE Nothing,
                          !.pc = IF drafts THEN "ask" ELSE "rung"]
  BY DEF TakeRung
<1> DEFINE method == Head(climb.methods)
           image == climb.image \/ (method = "container" /\ found)
<1>3. PICK drafts \in BOOLEAN :
         climb' = [climb EXCEPT !.methods = Tail(@), !.method = method,
                      !.image = image, !.attempt = 0,
                      !.recipe = IF drafts THEN Drafted(method) ELSE Nothing,
                      !.pc = IF drafts THEN "ask" ELSE "rung"]
  BY <1>2
<1>4. method \in Offered(climb) /\ Tail(climb.methods) \in Seq(Offered(climb))
  BY <1>1 DEF ClimbOK
<1>5. Drafted(method) \in Recipe /\ method \in Methods /\ Tail(climb.methods) \in Seq(Methods)
  <2>1. Offered(climb) \subseteq Methods
    BY DEF Offered
  <2> HIDE DEF method
  <2> QED BY <1>1, <1>4, <2>1, DraftedIsRecipe, MoreOffered
<1>6. image \in BOOLEAN
  BY <1>1 DEF ClimbOK, ClimbState
<1> DEFINE draft == IF drafts THEN Drafted(method) ELSE Nothing
           place == IF drafts THEN "ask" ELSE "rung"
           rest == Tail(climb.methods)
<1>7. draft \in Recipe \cup {Nothing} /\ place \in {"ask", "rung"} /\ rest \in Seq(Methods)
  BY <1>5
<1>8. climb' = [climb EXCEPT !.methods = rest, !.method = method, !.image = image,
                             !.attempt = 0, !.recipe = draft, !.pc = place]
  BY <1>3
<1> HIDE DEF method, image, draft, place, rest
<1>9. /\ climb' \in ClimbState /\ climb'.methods = rest
      /\ climb'.finding = climb.finding /\ climb'.method = method
      /\ climb'.recipe = draft /\ climb'.pc = place
  <2>1. climb \in ClimbState
    BY <1>1 DEF ClimbOK
  <2> QED BY <1>5, <1>6, <1>7, <1>8, <2>1, ZenonT(120) DEF ClimbState
<1>10. /\ climb' \in ClimbState /\ climb'.methods = Tail(climb.methods)
       /\ climb'.finding = climb.finding /\ climb'.method = method
       /\ climb'.recipe = IF drafts THEN Drafted(method) ELSE Nothing
       /\ climb'.pc = IF drafts THEN "ask" ELSE "rung"
  BY <1>9 DEF draft, place, rest
<1>11. ClimbOK(climb')
  BY <1>4, <1>5, <1>10 DEF ClimbOK, OnARung, Offered
<1> QED BY <1>1, <1>10, <1>11, StaysBetween DEF BetweenRungs

LEMMA NoRouteOutStep ==
    ASSUME LInv, NoRouteOut
    PROVE  LInv'
BY EndsIdle, StaysBetween DEF NoRouteOut, BetweenRungs

LEMMA AskRepositoryStep ==
    ASSUME LInv, AskRepository
    PROVE  LInv'
<1>1. ClimbOK(climb) /\ climb.pc = "ask" /\ UNCHANGED outside
  BY DEF LInv, AskRepository
<1>2. CASE /\ climb.method \in {"package", "repo"}
           /\ climb' = [climb EXCEPT !.attempt = @ + 1, !.recipe = <<climb.method, "swapped">>]
  <2> DEFINE swapped == <<climb.method, "swapped">>
  <2>1. swapped \in Recipe
    BY <1>2, SomeRecipes
  <2>2. climb' = [climb EXCEPT !.attempt = @ + 1, !.recipe = swapped]
    BY <1>2
  <2> HIDE DEF swapped
  <2>3. climb \in ClimbState /\ climb.attempt + 1 \in Nat
    <3>1. climb \in ClimbState /\ climb.attempt \in Nat
      BY <1>1 DEF ClimbOK, ClimbState
    <3> QED BY <3>1
  <2>4. /\ climb' \in ClimbState /\ climb'.methods = climb.methods
        /\ climb'.finding = climb.finding /\ climb'.method = climb.method
        /\ climb'.recipe = swapped /\ climb'.pc = "ask"
    BY <1>1, <2>1, <2>2, <2>3 DEF ClimbState
  <2>5. ClimbOK(climb')
    BY <1>1, <2>1, <2>4 DEF ClimbOK, OnARung, Offered
  <2> QED BY <1>1, <2>4, <2>5, StaysBetween DEF BetweenRungs
<1>3. CASE climb' = [climb EXCEPT !.pc = "rung"]
  <2>1. ClimbOK(climb') /\ climb'.pc = "rung"
    BY <1>1, <1>3, GoesTo DEF OnARung
  <2> QED BY <1>1, <2>1, StaysBetween DEF BetweenRungs
<1> QED BY <1>2, <1>3 DEF AskRepository

LEMMA PublishRungStep ==
    ASSUME LInv, PublishRung
    PROVE  LInv'
<1>1. /\ ClimbOK(climb) /\ climb.pc = "ask" /\ recipeStore = Nothing /\ keptFor = Nothing
      /\ climb.recipe \in Recipe /\ UNCHANGED <<keptFor, memory, passedOn, orphan, climbs>>
  BY DEF LInv, RungInv, StoreFollows, NothingKept, ClimbOK, OnARung, BetweenRungs, PublishRung
<1>2. CASE recipeStore' = climb.recipe /\ climb' = [climb EXCEPT !.pc = "prove"]
  <2>1. ClimbOK(climb') /\ climb'.pc = "prove" /\ climb'.recipe = climb.recipe
    BY <1>1, <1>2, GoesTo DEF OnARung
  <2>2. StoreFollows' /\ NothingKept' /\ ObservedPassed' /\ KeptWasProved' /\ NothingUnprovedLeft'
    BY <1>1, <1>2, <2>1 DEF StoreFollows, NothingKept, ObservedPassed, KeptWasProved,
                            NothingUnprovedLeft, BetweenRungs
  <2>3. RecordOK'
    BY <1>1, <1>2 DEF LInv, RecordOK
  <2> QED BY <2>1, <2>2, <2>3 DEF LInv, RungInv
<1>3. CASE Ends("failed") /\ UNCHANGED recipeStore
  <2>1. ClimbOK(climb') /\ climb'.pc = "idle"
    BY <1>3, EndsIdle
  <2> QED BY <1>1, <1>3, <2>1, RungIsOver
<1> QED BY <1>2, <1>3 DEF PublishRung

----------------------------------------------------------------------------
(* What a machine reports: more rungs *)

\* What a rung may be for only grows with what is found.
LEMMA OffersMore ==
    ASSUME NEW c, NEW d, c.finding \in Findings => d.finding \in Findings,
           NEW q \in Seq(Offered(c))
    PROVE  q \in Seq(Offered(d))
<1>1. Offered(c) \subseteq Offered(d)
  BY DEF Offered
<1> QED BY <1>1, MoreOffered

\* The next rung is taken from locals that are in order.
LEMMA NextRungOK ==
    ASSUME NEW c \in ClimbState, c.methods \in Seq(Offered(c)),
           climb' = [c EXCEPT !.pc = "rung"]
    PROVE  ClimbOK(climb') /\ climb'.pc = "rung"
<1>1. /\ climb' \in ClimbState /\ climb'.methods = c.methods
      /\ climb'.finding = c.finding /\ climb'.pc = "rung"
  BY DEF ClimbState
<1> QED BY <1>1 DEF ClimbOK, OnARung, Offered

LEMMA FollowTheMemoryStep ==
    ASSUME LInv, FollowTheMemory
    PROVE  LInv'
<1> DEFINE r == climb.recipe
           m == climb.method
           asking == [climb EXCEPT !.asked = Asks(r)]
<1>1. /\ ClimbOK(climb) /\ climb.pc = "ask" /\ UNCHANGED outside
      /\ r \in Recipe /\ m \in Methods /\ m \in Offered(climb)
  BY DEF LInv, FollowTheMemory, ClimbOK, OnARung, Offered
<1>2. /\ asking \in ClimbState /\ asking.methods = climb.methods
      /\ asking.finding = climb.finding
  <2>1. Asks(r) \in SUBSET Recipe
    BY <1>1 DEF ClimbOK, ClimbState, Asks
  <2> HIDE DEF r
  <2> QED BY <1>1, <2>1 DEF ClimbOK, ClimbState
<1>3. climb.methods \in Seq(Methods) /\ climb.methods \in Seq(Offered(climb))
  BY <1>1 DEF ClimbOK, ClimbState
<1>4. ASSUME ClimbOK(climb'), climb'.pc = "rung"
      PROVE  LInv'
  BY <1>1, <1>4, StaysBetween DEF BetweenRungs
<1>5. CASE climb' = [climb EXCEPT !.pc = "rung"]
  BY <1>1, <1>4, <1>5, GoesTo DEF OnARung
<1>6. ASSUME NEW f \in Findings,
             climb' = [[asking EXCEPT !.finding = f, !.methods = Append(@, "discovered")]
                          EXCEPT !.pc = "rung"]
      PROVE  LInv'
  <2> DEFINE more == Append(climb.methods, "discovered")
             c == [asking EXCEPT !.finding = f, !.methods = Append(@, "discovered")]
  <2>1. more \in Seq(Methods)
    BY <1>3, MoreRungs DEF Methods
  <2> HIDE DEF asking, more
  <2>2. c \in ClimbState /\ c.methods = more /\ c.finding = f
    BY <1>2, <2>1 DEF ClimbState, more
  <2>3. Offered(c) = Methods
    BY <2>2 DEF Offered
  <2> HIDE DEF c
  <2> QED BY <1>4, <1>6, <2>1, <2>2, <2>3, NextRungOK DEF c
<1>7. CASE climb' = [[asking EXCEPT !.rerun = @ \cup {m}, !.methods = <<m>> \o @]
                        EXCEPT !.pc = "rung"]
  <2> DEFINE more == <<m>> \o climb.methods
             again == climb.rerun \cup {m}
             c == [asking EXCEPT !.rerun = @ \cup {m}, !.methods = <<m>> \o @]
  <2>1. more \in Seq(Methods) /\ more \in Seq(Offered(climb))
    BY <1>1, <1>3, MoreRungs
  <2>2. again \in SUBSET Methods /\ asking.rerun = climb.rerun
    BY <1>1 DEF ClimbOK, ClimbState
  <2> HIDE DEF asking, more, again
  <2>3. c = [asking EXCEPT !.rerun = again, !.methods = more]
    BY <1>2, <2>2 DEF ClimbState, more, again
  <2> HIDE DEF c
  <2>4. c \in ClimbState /\ c.methods = more /\ c.finding = climb.finding
    BY <1>2, <2>1, <2>2, <2>3 DEF ClimbState
  <2>5. c.methods \in Seq(Offered(c))
    BY <2>1, <2>4 DEF Offered
  <2> QED BY <1>4, <1>7, <2>4, <2>5, NextRungOK DEF c
<1>8. ASSUME NEW found \in BOOLEAN,
             climb' = [[asking EXCEPT
                           !.looked = TRUE, !.image = @ \/ found,
                           !.listening = @ /\ ~found, !.env = @ /\ ~found,
                           !.methods = IF found THEN Append(@, "container") ELSE @]
                         EXCEPT !.pc = "rung"]
      PROVE  LInv'
  <2> DEFINE c == [asking EXCEPT
                      !.looked = TRUE, !.image = @ \/ found,
                      !.listening = @ /\ ~found, !.env = @ /\ ~found,
                      !.methods = IF found THEN Append(@, "container") ELSE @]
             more == IF found THEN Append(climb.methods, "container") ELSE climb.methods
  <2>1. more \in Seq(Methods) /\ more \in Seq(Offered(climb))
    BY <1>3, MoreRungs DEF Methods, Offered
  <2> DEFINE image == asking.image \/ found
             listening == asking.listening /\ ~found
             env == asking.env /\ ~found
  <2>2. {image, listening, env} \subseteq BOOLEAN
    BY <1>2 DEF ClimbState
  <2> HIDE DEF asking
  <2>3. c = [asking EXCEPT !.looked = TRUE, !.image = image, !.listening = listening,
                           !.env = env, !.methods = more]
    BY <1>2 DEF ClimbState
  <2> HIDE DEF c, more, image, listening, env
  <2>4. c \in ClimbState /\ c.methods = more /\ c.finding = climb.finding
    BY <1>2, <2>1, <2>2, <2>3 DEF ClimbState
  <2>5. c.methods \in Seq(Offered(c))
    BY <2>1, <2>4 DEF Offered
  <2> QED BY <1>4, <1>8, <2>4, <2>5, NextRungOK DEF c
<1> QED BY <1>5, <1>6, <1>7, <1>8 DEF FollowTheMemory

----------------------------------------------------------------------------
(* A rung on its machine *)

LEMMA NotReportedStep ==
    ASSUME LInv, NotReported
    PROVE  LInv'
BY EndsIdle, RungIsOver DEF NotReported, TakenBack

LEMMA DisprovedStep ==
    ASSUME LInv, climb.pc = "prove", Disproved, UNCHANGED <<passedOn, orphan, climbs>>
    PROVE  LInv'
<1>1. climb \in ClimbState /\ climb.recipe \in Recipe /\ climb.method \in Offered(climb)
  BY DEF LInv, ClimbOK, OnARung
<1> DEFINE more == climb.refuted \cup {climb.method}
<1>2. more \in SUBSET Methods
  BY <1>1 DEF ClimbState, Offered
<1>3. climb' = [climb EXCEPT !.pc = "refuted", !.refuted = more]
  BY DEF Disproved
<1> HIDE DEF more
<1>4. /\ climb' \in ClimbState /\ climb'.pc = "refuted" /\ climb'.methods = climb.methods
      /\ climb'.finding = climb.finding /\ climb'.recipe = climb.recipe
      /\ climb'.method = climb.method
  BY <1>1, <1>2, <1>3 DEF ClimbState
<1>5. ClimbOK(climb')
  BY <1>1, <1>4 DEF LInv, ClimbOK, Offered
<1> QED BY <1>1, <1>4, <1>5, RungIsOver DEF Disproved, TakenBack

\* What is certified on a rung: the recipe of that rung, which a machine proved.
LEMMA RungIsKept ==
    ASSUME LInv, climb.pc \in {"prove", "observe"}, Ends("published"),
           keptFor' = climb.recipe, climb.recipe \in passedOn',
           passedOn' \subseteq passedOn \cup {climb.recipe},
           UNCHANGED <<recipeStore, memory, orphan, climbs>>
    PROVE  LInv'
<1>1. climb.recipe \in Recipe /\ recipeStore = climb.recipe
  BY DEF LInv, RungInv, StoreFollows, ClimbOK, OnARung
<1>2. ClimbOK(climb') /\ climb'.pc = "idle"
  BY EndsIdle
<1>3. StoreFollows' /\ NothingKept' /\ ObservedPassed' /\ KeptWasProved' /\ NothingUnprovedLeft'
  BY <1>1, <1>2 DEF StoreFollows, NothingKept, ObservedPassed, KeptWasProved,
                    NothingUnprovedLeft, BetweenRungs
<1>4. RecordOK'
  BY <1>1 DEF LInv, RecordOK
<1> QED BY <1>2, <1>3, <1>4 DEF LInv, RungInv

LEMMA ProveRungStep ==
    ASSUME LInv, ProveRung
    PROVE  LInv'
<1>1. /\ climb.pc = "prove" /\ ClimbOK(climb) /\ UNCHANGED <<orphan, climbs>>
      /\ climb.recipe \in Recipe /\ keptFor = Nothing /\ recipeStore = climb.recipe
  BY DEF LInv, RungInv, StoreFollows, NothingKept, ClimbOK, OnARung, ProveRung
<1>2. CASE Disproved /\ UNCHANGED passedOn
  BY <1>1, <1>2, DisprovedStep
<1>3. CASE TakenBack /\ Ends("failed") /\ UNCHANGED <<memory, passedOn>>
  BY <1>1, <1>3, EndsIdle, RungIsOver DEF TakenBack
<1>4. CASE /\ passedOn' = passedOn \cup {climb.recipe}
           /\ climb' = [climb EXCEPT !.pc = "observe"]
           /\ UNCHANGED <<recipeStore, keptFor, memory>>
  <2>1. ClimbOK(climb') /\ climb'.pc = "observe" /\ climb'.recipe = climb.recipe
    BY <1>1, <1>4, GoesTo DEF OnARung
  <2>2. StoreFollows' /\ NothingKept' /\ ObservedPassed' /\ KeptWasProved' /\ NothingUnprovedLeft'
    BY <1>1, <1>4, <2>1 DEF StoreFollows, NothingKept, ObservedPassed, KeptWasProved,
                            NothingUnprovedLeft, BetweenRungs
  <2>3. RecordOK'
    BY <1>1, <1>4 DEF LInv, RecordOK
  <2> QED BY <2>1, <2>2, <2>3 DEF LInv, RungInv
<1>5. CASE /\ passedOn' = passedOn \cup {climb.recipe}
           /\ keptFor' = climb.recipe
           /\ Ends("published")
           /\ UNCHANGED <<recipeStore, memory>>
  BY <1>1, <1>5, RungIsKept
<1> QED BY <1>2, <1>3, <1>4, <1>5 DEF ProveRung

LEMMA ObservePortsStep ==
    ASSUME LInv, ObservePorts
    PROVE  LInv'
<1>1. /\ climb.pc = "observe" /\ ClimbOK(climb) /\ climb \in ClimbState
      /\ climb.recipe \in passedOn /\ keptFor = Nothing
      /\ UNCHANGED <<memory, passedOn, orphan, climbs>>
  BY DEF LInv, RungInv, NothingKept, ObservedPassed, ClimbOK, ObservePorts
<1>2. CASE recipeStore' = Nothing /\ Ends("failed") /\ UNCHANGED keptFor
  BY <1>1, <1>2, EndsIdle, RungIsOver
<1>3. CASE /\ recipeStore' = Nothing
           /\ climb' = [climb EXCEPT !.narrowed = TRUE, !.listening = TRUE, !.pc = "rung",
                                     !.methods = Append(@, "container")]
           /\ UNCHANGED keptFor
  <2> DEFINE more == Append(climb.methods, "container")
  <2>1. more \in Seq(Methods) /\ more \in Seq(Offered(climb))
    <3>1. climb.methods \in Seq(Methods) /\ climb.methods \in Seq(Offered(climb))
      BY <1>1 DEF ClimbOK, ClimbState
    <3> QED BY <3>1, MoreRungs DEF Methods, Offered
  <2> HIDE DEF more
  <2>2. climb' = [climb EXCEPT !.narrowed = TRUE, !.listening = TRUE, !.pc = "rung",
                               !.methods = more]
    BY <1>3 DEF more
  <2>3. /\ climb' \in ClimbState /\ climb'.methods = more /\ climb'.pc = "rung"
        /\ climb'.finding = climb.finding
    BY <1>1, <2>1, <2>2 DEF ClimbState
  <2>4. ClimbOK(climb')
    BY <2>1, <2>3 DEF ClimbOK, OnARung, Offered
  <2> QED BY <1>1, <1>3, <2>3, <2>4, RungIsOver
<1>4. CASE keptFor' = climb.recipe /\ Ends("published") /\ UNCHANGED recipeStore
  BY <1>1, <1>4, RungIsKept
<1> QED BY <1>2, <1>3, <1>4 DEF ObservePorts

----------------------------------------------------------------------------
(* Modules, what a refutation forgets, and a crash *)

LEMMA BuildModuleStep ==
    ASSUME LInv, BuildModule
    PROVE  LInv'
<1>1. /\ climb.pc = "module" /\ ClimbOK(climb) /\ climb \in ClimbState
      /\ recipeStore = Nothing /\ keptFor = Nothing /\ UNCHANGED <<memory, orphan, climbs>>
  BY DEF LInv, RungInv, StoreFollows, NothingKept, ClimbOK, BetweenRungs, BuildModule
<1> DEFINE built == <<"module", "drafted">>
<1>2. built \in Recipe
  BY SomeRecipes
<1>3. CASE /\ UNCHANGED <<recipeStore, keptFor, passedOn>>
           /\ \E status \in {"exhausted", "refused", "abandoned"} : Ends(status)
  <2>1. ClimbOK(climb') /\ climb'.pc = "idle"
    BY <1>3, EndsIdle
  <2> QED BY <1>1, <1>3, <2>1, RungIsOver
<1>4. CASE /\ UNCHANGED <<recipeStore, keptFor, passedOn>>
           /\ climb' = [climb EXCEPT !.attempt = @ + 1]
  <2>1. climb.attempt \in Nat
    BY <1>1 DEF ClimbState
  <2>2. climb.attempt + 1 \in Nat
    BY <2>1
  <2>3. /\ climb' \in ClimbState /\ climb'.methods = climb.methods
        /\ climb'.finding = climb.finding /\ climb'.pc = "module"
    BY <1>1, <1>4, <2>2 DEF ClimbState
  <2>4. ClimbOK(climb')
    BY <1>1, <2>3 DEF ClimbOK, OnARung, Offered
  <2> QED BY <1>1, <1>4, <2>3, <2>4, StaysBetween DEF BetweenRungs, outside
<1>5. CASE /\ passedOn' = passedOn \cup {built}
           /\ \E status \in {"failed", "published"} : Ends(status)
           /\ \/ UNCHANGED <<recipeStore, keptFor>>
              \/ recipeStore' = built /\ keptFor' \in {keptFor, built}
  <2>1. ClimbOK(climb') /\ climb'.pc = "idle"
    BY <1>5, EndsIdle
  <2> HIDE DEF built
  <2>2. StoreFollows' /\ NothingKept' /\ ObservedPassed' /\ KeptWasProved' /\ NothingUnprovedLeft'
    BY <1>1, <1>5, <2>1 DEF StoreFollows, NothingKept, ObservedPassed, KeptWasProved,
                            NothingUnprovedLeft, BetweenRungs
  <2>3. RecordOK'
    BY <1>1, <1>2, <1>5 DEF LInv, RecordOK
  <2> QED BY <2>1, <2>2, <2>3 DEF LInv, RungInv
<1> QED BY <1>3, <1>4, <1>5 DEF BuildModule

LEMMA RefutationExpiresStep ==
    ASSUME LInv, NEW r \in Recipe, RefutationExpires(r)
    PROVE  LInv'
<1>1. /\ r \in DOMAIN memory /\ climb' = climb
      /\ UNCHANGED <<climb, recipeStore, keptFor, passedOn, orphan, climbs>>
  BY DEF RefutationExpires, PreviouslyRefuted
<1> DEFINE Rows == [times : 1 .. MaxVerdicts, live : BOOLEAN]
           row == [memory[r] EXCEPT !.live = FALSE]
<1>2. \A s \in DOMAIN memory : memory[s] \in Rows
  BY DEF LInv, RecordOK
<1>3. row \in Rows
  BY <1>1, <1>2
<1>4. memory' = [memory EXCEPT ![r] = row]
  BY DEF RefutationExpires
<1> HIDE DEF Rows, row
<1>5. DOMAIN memory' = DOMAIN memory /\ \A s \in DOMAIN memory' : memory'[s] \in Rows
  BY <1>2, <1>3, <1>4
<1>6. RecordOK'
  BY <1>1, <1>5 DEF LInv, RecordOK, Rows
<1>7. RungInv' /\ ClimbOK(climb')
  BY <1>1 DEF LInv, RungInv, StoreFollows, NothingKept, ObservedPassed, KeptWasProved,
              NothingUnprovedLeft
<1> QED BY <1>6, <1>7 DEF LInv

LEMMA ClimbCrashStep ==
    ASSUME LInv, ClimbCrash
    PROVE  LInv'
<1>1. /\ climb' = NoClimb /\ orphan' = recipeStore /\ keptFor = Nothing
      /\ UNCHANGED <<recipeStore, keptFor, memory, passedOn, climbs>>
  BY DEF LInv, RungInv, NothingKept, ClimbCrash
<1>2. ClimbOK(climb') /\ climb'.pc = "idle"
  BY <1>1, NoClimbOK
<1>3. RungInv'
  BY <1>1, <1>2 DEF RungInv, StoreFollows, NothingKept, ObservedPassed, KeptWasProved,
                    NothingUnprovedLeft, BetweenRungs
<1>4. RecordOK'
  BY <1>1 DEF LInv, RecordOK
<1> QED BY <1>2, <1>3, <1>4 DEF LInv

----------------------------------------------------------------------------
(* From one rung to the next *)

LEMMA ReportedOK ==
    ASSUME ClimbOK(climb), climb.recipe \in Recipe,
           NEW answer, NEW found \in BOOLEAN, NEW f \in Findings
    PROVE  /\ Reported(answer, found, f) \in ClimbState
           /\ Reported(answer, found, f).methods \in Seq(Offered(Reported(answer, found, f)))
<1> DEFINE first == climb.recipe \notin climb.asked
           lookNow == first /\ answer = "nothing there" /\ ~climb.looked
           tells == first /\ answer = "found"
           asked == Asks(climb.recipe)
           finding == IF tells THEN f ELSE climb.finding
           looked == climb.looked \/ lookNow
           image == climb.image \/ (lookNow /\ found)
           listening == climb.listening /\ ~(lookNow /\ found)
           env == climb.env /\ ~(lookNow /\ found)
           rungs == IF tells THEN <<"discovered">>
                    ELSE IF lookNow /\ found THEN <<"container">> ELSE <<>>
           methods == climb.methods \o rungs
           c == Reported(answer, found, f)
<1>1. /\ climb \in ClimbState /\ climb.asked \in SUBSET Recipe
      /\ climb.finding \in Findings \cup {NoFinding}
      /\ {climb.looked, climb.image, climb.listening, climb.env} \subseteq BOOLEAN
  BY DEF ClimbOK, ClimbState
<1>2. climb.methods \in Seq(Offered(climb))
  BY DEF ClimbOK
<1>3. /\ {looked, image, listening, env} \subseteq BOOLEAN
      /\ finding \in Findings \cup {NoFinding}
      /\ asked \in SUBSET Recipe
  BY <1>1 DEF Asks
<1>4. c = [climb EXCEPT !.asked = asked, !.finding = finding, !.looked = looked,
                        !.image = image, !.listening = listening, !.env = env,
                        !.methods = methods]
  BY <1>1 DEF Reported, ClimbState
<1> DEFINE Rungs == IF finding \in Findings THEN Methods ELSE Methods \ {"discovered"}
<1>5. Offered(climb) \subseteq Rungs /\ Rungs \subseteq Methods
  BY <1>1 DEF Offered
<1>6. rungs \in Seq(Rungs)
  <2> HIDE DEF Rungs
  <2>1. \A m \in Rungs : <<m>> \in Seq(Rungs)
    OBVIOUS
  <2>2. <<>> \in Seq(Rungs)
    OBVIOUS
  <2>3. "container" \in Rungs /\ (tells => "discovered" \in Rungs)
    BY DEF Methods, Rungs
  <2> HIDE DEF tells, lookNow
  <2> QED BY <2>1, <2>2, <2>3
<1> HIDE DEF rungs, Rungs
<1>7. methods \in Seq(Rungs) /\ methods \in Seq(Methods)
  <2>1. climb.methods \in Seq(Rungs)
    BY <1>2, <1>5, MoreOffered
  <2>2. methods \in Seq(Rungs)
    BY <1>6, <2>1
  <2> HIDE DEF methods
  <2> QED BY <1>5, <2>2, MoreOffered
<1> HIDE DEF c, asked, finding, looked, image, listening, env, methods
<1>8. c \in ClimbState /\ c.methods = methods /\ c.finding = finding
  BY <1>1, <1>3, <1>4, <1>7 DEF ClimbState
<1>9. Offered(c) = Rungs
  BY <1>8 DEF Offered, Rungs
<1> QED BY <1>7, <1>8, <1>9 DEF c

LEMMA ClimbOnStep ==
    ASSUME LInv, ClimbOn
    PROVE  LInv'
<1>1. /\ climb.pc = "refuted" /\ ClimbOK(climb) /\ climb.recipe \in Recipe
      /\ UNCHANGED outside
  BY DEF LInv, ClimbOK, OnARung, ClimbOn
<1> USE <1>1
<1>2. PICK answer \in {"could not tell", "nothing there", "found"}, found \in BOOLEAN,
           f \in Findings, supplied \in {"nothing", "environment", "person"} :
         TriesNext([Reported(answer, found, f) EXCEPT !.pc = "rung"], found, supplied)
  BY DEF ClimbOn
<1> DEFINE b == Reported(answer, found, f)
           c == [b EXCEPT !.pc = "rung"]
           needs == AsksForEnvironment(c)
           rung == VendorIsNext(c, found)
<1>3. b \in ClimbState /\ b.methods \in Seq(Offered(b))
  BY ReportedOK
<1> HIDE DEF b
<1>4. /\ c \in ClimbState /\ c.methods = b.methods /\ c.finding = b.finding
      /\ c.pc = "rung"
  BY <1>3 DEF ClimbState
<1>5. TriesNext(c, found, supplied)
  BY <1>2 DEF b, c
<1> HIDE DEF c
<1>6. /\ c.methods \in Seq(Offered(c)) /\ c.methods \in Seq(Methods)
      /\ {c.askedEnv, c.image, c.looked, c.listening, c.env} \subseteq BOOLEAN
  BY <1>3, <1>4 DEF Offered, ClimbState
<1>7. /\ Append(c.methods, "container") \in Seq(Methods)
      /\ Append(c.methods, "container") \in Seq(Offered(c))
  BY <1>6, MoreRungs DEF Methods, Offered
<1>8. ASSUME ClimbOK(climb'), climb'.pc \in {"rung", "idle"}
      PROVE  LInv'
  BY <1>8, StaysBetween DEF BetweenRungs
<1>9. CASE climb' = [c EXCEPT !.askedEnv = TRUE, !.env = TRUE, !.narrowed = FALSE,
                              !.methods = Append(@, "container")]
  <2> DEFINE more == Append(c.methods, "container")
  <2>1. climb' = [c EXCEPT !.askedEnv = TRUE, !.env = TRUE, !.narrowed = FALSE,
                           !.methods = more]
    BY <1>9
  <2>2. more \in Seq(Methods) /\ more \in Seq(Offered(c))
    BY <1>7
  <2> HIDE DEF more
  <2>3. /\ climb' \in ClimbState /\ climb'.methods = more /\ climb'.pc = "rung"
        /\ climb'.finding = c.finding
    BY <1>4, <2>1, <2>2 DEF ClimbState
  <2>4. ClimbOK(climb')
    BY <2>2, <2>3 DEF ClimbOK, OnARung, Offered
  <2> QED BY <1>8, <2>3, <2>4
<1>10. CASE Ends("failed")
  BY <1>8, <1>10, EndsIdle
<1>11. CASE climb' = [c EXCEPT
                         !.askedEnv = @ \/ needs,
                         !.image = @ \/ rung, !.looked = @ \/ rung,
                         !.listening = @ /\ ~rung, !.env = @ /\ ~rung,
                         !.methods = IF rung THEN Append(@, "container") ELSE @]
  <2> DEFINE askedEnv == c.askedEnv \/ needs
             image == c.image \/ rung
             looked == c.looked \/ rung
             listening == c.listening /\ ~rung
             env == c.env /\ ~rung
             more == IF rung THEN Append(c.methods, "container") ELSE c.methods
  <2>1. climb' = [c EXCEPT !.askedEnv = askedEnv, !.image = image, !.looked = looked,
                           !.listening = listening, !.env = env, !.methods = more]
    BY <1>11
  <2>2. more \in Seq(Methods) /\ more \in Seq(Offered(c))
    BY <1>6, <1>7
  <2>3. needs \in BOOLEAN /\ rung \in BOOLEAN
    BY DEF AsksForEnvironment, VendorIsNext
  <2> HIDE DEF needs, rung
  <2>4. {askedEnv, image, looked, listening, env} \subseteq BOOLEAN
    BY <1>6, <2>3
  <2> HIDE DEF askedEnv, image, looked, listening, env, more
  <2>5. /\ climb' \in ClimbState /\ climb'.methods = more /\ climb'.pc = "rung"
        /\ climb'.finding = c.finding
    BY <1>4, <2>1, <2>2, <2>4 DEF ClimbState
  <2>6. ClimbOK(climb')
    BY <2>2, <2>5 DEF ClimbOK, OnARung, Offered
  <2> QED BY <1>8, <2>5, <2>6
<1> QED BY <1>5, <1>9, <1>10, <1>11 DEF TriesNext

----------------------------------------------------------------------------
(* The invariant *)

LEMMA LInvInit == LadderInit => LInv
<1> SUFFICES ASSUME LadderInit
             PROVE  LInv
  OBVIOUS
<1>1. ClimbOK(climb) /\ climb.pc = "idle"
  BY NoClimbOK DEF LadderInit
<1>2. RungInv
  BY <1>1 DEF LadderInit, RungInv, StoreFollows, NothingKept, ObservedPassed, KeptWasProved,
              NothingUnprovedLeft, BetweenRungs
<1>3. /\ DOMAIN memory \subseteq Recipe
      /\ \A r \in DOMAIN memory : memory[r] \in [times : 1 .. MaxVerdicts, live : BOOLEAN]
  <2>1. CASE memory = <<>>
    BY <2>1
  <2>2. ASSUME NEW r \in Remembered, NEW n \in 1 .. 2,
               memory = [s \in {r} |-> [times |-> n, live |-> TRUE]]
        PROVE  /\ DOMAIN memory \subseteq Recipe
               /\ \A s \in DOMAIN memory : memory[s] \in [times : 1 .. MaxVerdicts, live : BOOLEAN]
    <3>1. n \in 1 .. MaxVerdicts
      BY RecipeLadderAssumption
    <3>2. [times |-> n, live |-> TRUE] \in [times : 1 .. MaxVerdicts, live : BOOLEAN]
      BY <3>1
    <3> QED BY <2>2, <3>2, RecipeLadderAssumption
  <2>3. memory = <<>> \/ \E r \in Remembered, n \in 1 .. 2 :
                             memory = [s \in {r} |-> [times |-> n, live |-> TRUE]]
    BY DEF LadderInit
  <2> QED BY <2>1, <2>2, <2>3
<1>4. RecordOK
  BY <1>3, RecipeLadderAssumption DEF LadderInit, RecordOK
<1> QED BY <1>1, <1>2, <1>4 DEF LInv

LEMMA LInvStep == LInv /\ [LadderNext]_ladderVars => LInv'
<1> SUFFICES ASSUME LInv, [LadderNext]_ladderVars
             PROVE  LInv'
  OBVIOUS
<1>1. CASE EnsureBegins
  BY <1>1, EnsureBeginsStep
<1>2. CASE Climb
  BY <1>2, ProveShippedStep, ResolveMethodsStep, RungsRunOutStep, TakeRungStep,
     NoRouteOutStep, AskRepositoryStep, PublishRungStep, FollowTheMemoryStep,
     NotReportedStep, ProveRungStep, ObservePortsStep, ClimbOnStep, BuildModuleStep DEF Climb
<1>3. CASE ClimbCrash
  BY <1>3, ClimbCrashStep
<1>4. ASSUME NEW r \in Recipe, RefutationExpires(r)
      PROVE  LInv'
  BY <1>4, RefutationExpiresStep
<1>5. CASE UNCHANGED ladderVars
  BY <1>5 DEF ladderVars, LInv, RecordOK, RungInv, StoreFollows, NothingKept, ObservedPassed,
              KeptWasProved, NothingUnprovedLeft
<1> QED BY <1>1, <1>2, <1>3, <1>4, <1>5 DEF LadderNext

LEMMA LadderInvariant == LadderSpec => []LInv
BY LInvInit, LInvStep, PTL DEF LadderSpec

\* The types of the ladder: what ensure keeps while it climbs, and what it leaves.
THEOREM LadderTypeCorrect == LadderSpec => []LadderTypeOK
<1>1. LInv => LadderTypeOK
  BY DEF LInv, ClimbOK, RecordOK, LadderTypeOK
<1> QED BY <1>1, LadderInvariant, PTL

\* What is certified is what the store offers, and a machine proved it (or a person
\* wrote it): no refutation, withdrawal or crash separates the two.
THEOREM CertifiedWasProved == LadderSpec => []KeptWasProved
<1>1. LInv => KeptWasProved
  BY DEF LInv, RungInv
<1> QED BY <1>1, LadderInvariant, PTL

\* However a climb ends, refused, exhausted or failed on any rung, it takes back the
\* recipe it published unless a machine proved it.
THEOREM ClimbsLeaveNothing == LadderSpec => []NothingUnprovedLeft
<1>1. LInv => NothingUnprovedLeft
  BY DEF LInv, RungInv
<1> QED BY <1>1, LadderInvariant, PTL

\* While a climb goes on nothing is certified, and the store offers the recipe of the
\* rung on its machine and no other.
THEOREM OneRungAtATime == LadderSpec => [](NothingKept /\ StoreFollows)
<1>1. LInv => NothingKept /\ StoreFollows
  BY DEF LInv, RungInv
<1> QED BY <1>1, LadderInvariant, PTL

----------------------------------------------------------------------------
(* Certification and the ladder together *)

\* Where a part rests, it is as at its beginning.
LEMMA FactoryBegins == FactoryInit => CertInit /\ LadderInit
<1>1. CertRests => CertInit
  <2> SUFFICES ASSUME CertRests PROVE CertInit
    OBVIOUS
  <2>1. /\ store \in SUBSET Codes
        /\ blueprints = [c \in Codes |-> [status |-> "none", certAt |-> 0]]
    BY DEF CertRests, Unloaded
  <2>2. /\ requests \in [Reqs -> {[says |-> "nothing", kind |-> k, at |-> 0] : k \in Kinds}]
        /\ proofs \in [Proofs -> {[code |-> c, status |-> "unused", end |-> 0,
                                   refuted |-> FALSE] : c \in Codes}]
    BY FactoryConstants DEF CertRests
  <2>3. \A c \in Codes : blueprints[c].status # "certified"
    BY <2>1
  <2> QED BY <2>1, <2>2, <2>3 DEF CertRests, CertInit
<1>2. LadderRests => LadderInit
  BY DEF LadderRests, LadderInit
<1> QED BY <1>1, <1>2 DEF FactoryInit

\* One part moves as it does alone, and the other not at all.
LEMMA FactoryMoves ==
    [FactoryNext]_factoryVars => [CertNext]_certVars /\ [LadderNext]_ladderVars
<1> SUFFICES ASSUME [FactoryNext]_factoryVars
             PROVE  [CertNext]_certVars /\ [LadderNext]_ladderVars
  OBVIOUS
<1>1. CASE UNCHANGED factoryVars
  BY <1>1 DEF factoryVars, certVars, ladderVars
<1>2. CASE FactoryNext /\ InCert
  <2>1. CertNext
    BY <1>2 DEF FactoryNext, InCert, InLadder, CertNext, Sweep, Ladder
  <2> QED BY <1>2, <2>1 DEF InCert
<1>3. CASE FactoryNext /\ InLadder
  <2>1. LadderNext
    BY <1>3 DEF FactoryNext, InCert, InLadder, LadderNext, Climb
  <2> QED BY <1>3, <2>1 DEF InLadder
<1> QED BY <1>1, <1>2, <1>3 DEF FactoryNext

\* The inductive invariants of the two parts hold side by side.
THEOREM FactoryCorrect == FactorySpec => [](CertInv /\ LInv)
<1>1. FactoryInit => CertInv /\ LInv
  BY FactoryBegins, CertInvInit, LInvInit
<1>2. CertInv /\ LInv /\ [FactoryNext]_factoryVars => (CertInv /\ LInv)'
  BY FactoryMoves, CertInvStep, LInvStep
<1> QED BY <1>1, <1>2, PTL DEF FactorySpec

\* The variables of both parts keep their types.
THEOREM FactoryTypeCorrect == FactorySpec => []FactoryTypeOK
<1>1. CertInv /\ LInv => FactoryTypeOK
  BY DEF CertInv, LInv, ClimbOK, RecordOK, LadderTypeOK, FactoryTypeOK
<1> QED BY <1>1, FactoryCorrect, PTL

\* Of both parts together, as TLC checks it of one code and one climb: no proof is spent
\* twice, what is certified was proved, and no climb leaves an unproved recipe behind.
THEOREM FactoryKeeps ==
    FactorySpec => [](ProofSpentOnce /\ KeptWasProved /\ NothingUnprovedLeft)
<1>1. CertInv /\ LInv => ProofSpentOnce /\ KeptWasProved /\ NothingUnprovedLeft
  BY DEF CertInv, Ledger, LInv, RungInv
<1> QED BY <1>1, FactoryCorrect, PTL
=============================================================================

----------------------------- MODULE ProofBuild -----------------------------
(***************************************************************************)
(* A proof build spends a real machine to find out whether a recipe works, *)
(* and the golden images kept from the machines that did.                  *)
(*                                                                         *)
(* A build goes record, preflight, price, provision, apply, verify, keep,  *)
(* destroy, finish; every call to the orchestrator may fail, with or       *)
(* without effect.  The image sweep (promote, supersede, expire, reap,     *)
(* commit) decides in one session and asks the cloud in the middle of it,  *)
(* while builds keep images, the ladder's door refuses recipes and         *)
(* requests are handed images.  One technology, on one cloud.              *)
(***************************************************************************)
EXTENDS Integers, FiniteSets

CONSTANTS Builds,        \* proof references: a larger one is newer
          StuckAfter,    \* STUCK_AFTER_HOURS
          RetainFor,     \* GOLDEN_IMAGE_RETAIN_DAYS
          LapseAfter,    \* CERTIFICATION_VALIDITY_DAYS
          MaxDay         \* bound on the clock

ASSUME ProofBuildAssumption ==
    /\ Builds \subseteq Nat /\ MaxDay \in Nat
    /\ {StuckAfter, RetainFor, LapseAfter} \subseteq Nat

VARIABLES build,         \* where each run_proof stands, and its record
          standing,       \* proof references something exists under
          image,         \* the golden_image rows
          cloudImage,    \* what the cloud says of each image
          refusedAtDoor, \* proofs a recipe_refutation row names
          imageSweep,    \* the sweep's session
          handedAt,      \* history: the day an image was last handed to a request
          day

proofVars == <<build, standing, image, cloudImage, refusedAtDoor, imageSweep,
               handedAt, day>>

Finished == {"passed", "failed", "refused", "abandoned"}
ImageState == {"none", "capturing", "available", "failed", "superseded", "expired",
               "withdrawn", "deleted"}
REAPABLE == {"superseded", "expired", "failed", "withdrawn"}
Never == -1
Days == 0 .. MaxDay
ImageRow == [state : ImageState, created : Days, retired : Days \cup {Never}]
NoImage == [state |-> "none", created |-> 0, retired |-> Never]

ProofTypeOK ==
    /\ build \in [Builds -> [pc : {"unborn", "recorded", "planned", "applied", "undone",
                                   "verified", "kept", "down"} \cup Finished, healthy : BOOLEAN]]
    /\ standing \subseteq Builds /\ refusedAtDoor \subseteq Builds
    /\ image \in [Builds -> ImageRow]
    /\ cloudImage \in [Builds -> {"none", "PROVISIONING", "AVAILABLE", "DEAD"}]
    /\ imageSweep \in [pc : {"idle", "asked", "settled", "reaped"},
                       loaded : SUBSET Builds, pending : [Builds -> ImageRow]]
    /\ handedAt \in [Builds -> Days \cup {Never}] /\ day \in Days

SweepAsleep == [pc |-> "idle", loaded |-> {}, pending |-> [b \in Builds |-> NoImage]]

ProofInit ==
    /\ build = [b \in Builds |-> [pc |-> "unborn", healthy |-> FALSE]]
    /\ standing = {} /\ refusedAtDoor = {}
    /\ image = [b \in Builds |-> NoImage]
    /\ cloudImage = [b \in Builds |-> "none"]
    /\ imageSweep = SweepAsleep
    /\ handedAt = [b \in Builds |-> Never] /\ day = 0

----------------------------------------------------------------------------
(* run_proof *)

Step(b, pc) == build' = [build EXCEPT ![b].pc = pc]
KeepsImages == UNCHANGED <<image, cloudImage, refusedAtDoor, imageSweep, handedAt, day>>

RecordProof(b) ==
    /\ build[b].pc = "unborn"
    \* bound: one at a time, and another only after one that kept an image
    /\ \A c \in Builds : c < b => build[c].pc \in Finished /\ image[c].state # "none"
    /\ Step(b, "recorded")
    /\ UNCHANGED standing /\ KeepsImages

\* preflight and the cost cap refuse; a refused provision or a plan that builds
\* nothing, or something else, fails.
PlanProof(b) ==
    /\ build[b].pc = "recorded"
    /\ \E next \in {"refused", "failed", "planned"} : Step(b, next)
    /\ UNCHANGED standing /\ KeepsImages

\* Mutant: a failed apply is taken to have built nothing.
ApplyProofUndone(b) ==
    /\ build[b].pc = "planned"
    /\ \E answered, exists \in BOOLEAN :
          /\ answered => exists
          /\ Step(b, IF answered THEN "applied" ELSE "failed")
          /\ standing' = IF exists THEN standing \cup {b} ELSE standing
    /\ KeepsImages

\* The apply may fail half way, or its answer be lost: only one that answered has surely
\* built.  The orchestrator takes one call at a time, in the order they come, so what an
\* unanswered apply builds it has built before the teardown is taken.
ApplyProof(b) ==
    /\ build[b].pc = "planned"
    /\ \E answered, exists \in BOOLEAN :
          /\ answered => exists
          /\ Step(b, IF answered THEN "applied" ELSE "undone")
          /\ standing' = IF exists THEN standing \cup {b} ELSE standing
    /\ KeepsImages

\* A failed apply is torn down in a call of its own, and a teardown that fails, or whose
\* answer is lost, is said to leave something.
TearDownApplied(b) ==
    /\ build[b].pc = "undone"
    /\ \/ Step(b, "failed") /\ standing' = standing \ {b}
       \/ Step(b, "abandoned") /\ standing' \in {standing, standing \ {b}}
    /\ KeepsImages

\* verify waits for the machine's own report until its deadline; what files no report
\* has built and will tear down.
VerifyProof(b) ==
    /\ build[b].pc = "applied"
    /\ \E healthy \in BOOLEAN :
          /\ build' = [build EXCEPT ![b] = [pc |-> "verified", healthy |-> healthy]]
    /\ UNCHANGED standing /\ KeepsImages

\* _keep: the row is committed whatever the capture says; without an image it failed.
KeepImage(b) ==
    /\ build[b].pc = "verified"
    /\ day + StuckAfter < MaxDay                                        \* bound
    /\ Step(b, "kept")
    /\ \/ ~build[b].healthy /\ UNCHANGED <<image, cloudImage>>
       \/ /\ build[b].healthy
          /\ \E captured \in BOOLEAN :
                /\ image' = [image EXCEPT ![b] =
                      [state |-> IF captured THEN "capturing" ELSE "failed",
                       created |-> day, retired |-> Never]]
                /\ cloudImage' = IF captured THEN [cloudImage EXCEPT ![b] = "PROVISIONING"]
                                 ELSE cloudImage
    /\ UNCHANGED <<standing, refusedAtDoor, imageSweep, handedAt, day>>

\* Torn down whatever was found; a machine that may remain is said to.
DestroyProof(b) ==
    /\ build[b].pc = "kept"
    /\ \/ Step(b, "down") /\ standing' = standing \ {b}
       \/ Step(b, "abandoned") /\ standing' \in {standing, standing \ {b}}
    /\ KeepsImages

\* Mutant: a status of its own for what was built and is gone.
FinishBuildOddly(b) ==
    /\ build[b].pc = "down"
    /\ Step(b, "done")
    /\ UNCHANGED standing /\ KeepsImages

FinishBuild(b) ==
    /\ build[b].pc = "down"
    /\ Step(b, IF build[b].healthy THEN "passed" ELSE "failed")
    /\ UNCHANGED standing /\ KeepsImages

\* The ladder's door refuses a recipe whose machine passed: the refutation is
\* committed first, the image withdrawn with the session's next commit.
RefuseRecipe(b) ==
    /\ build[b].pc = "passed" /\ b \notin refusedAtDoor
    /\ refusedAtDoor' = refusedAtDoor \cup {b}
    /\ UNCHANGED <<build, standing, image, cloudImage, imageSweep, handedAt, day>>

WithdrawImage(b) ==
    /\ b \in refusedAtDoor /\ image[b].state \in {"available", "capturing"}
    /\ image' = [image EXCEPT ![b].state = "withdrawn", ![b].retired = day]
    /\ UNCHANGED <<build, standing, cloudImage, refusedAtDoor, imageSweep, handedAt, day>>

----------------------------------------------------------------------------
(* Images: the newest one whose proof no row refutes is handed to a request *)

\* Mutant: the row alone is asked.
UsableForAvailable == {b \in Builds : image[b].state = "available"}

UsableFor == {b \in Builds : image[b].state = "available" /\ b \notin refusedAtDoor}
Newest(B) == {b \in B : \A c \in B \ {b} :
                image[c].created < image[b].created
                  \/ (image[c].created = image[b].created /\ c < b)}

HandOut(b) ==
    /\ b \in Newest(UsableFor) /\ handedAt[b] # day
    /\ handedAt' = [handedAt EXCEPT ![b] = day]
    /\ UNCHANGED <<build, standing, image, cloudImage, refusedAtDoor, imageSweep, day>>

CloudFinishes(b) ==
    /\ cloudImage[b] = "PROVISIONING"
    /\ \E s \in {"AVAILABLE", "DEAD"} : cloudImage' = [cloudImage EXCEPT ![b] = s]
    /\ UNCHANGED <<build, standing, image, refusedAtDoor, imageSweep, handedAt, day>>

\* A sweep takes less than a day.
DayPasses ==
    /\ imageSweep.pc = "idle" /\ day < MaxDay
    /\ day' = day + 1
    /\ UNCHANGED <<build, standing, image, cloudImage, refusedAtDoor, imageSweep, handedAt>>

\* promote: the capturing rows are loaded, then the cloud is asked about them.
ImagesAsk ==
    /\ imageSweep.pc = "idle"
    /\ imageSweep' = [imageSweep EXCEPT !.pc = "asked",
                         !.loaded = {b \in Builds : image[b].state = "capturing"}]
    /\ UNCHANGED <<build, standing, image, cloudImage, refusedAtDoor, handedAt, day>>

RetiredRow(row, state) == [row EXCEPT !.state = state, !.retired = day]
Stuck(b) == day - image[b].created > StuckAfter

\* Mutant: a capture the cloud never answers for is asked about for ever.
PromotedUnhurried(b, answered) ==
    CASE answered /\ cloudImage[b] = "AVAILABLE" -> [image[b] EXCEPT !.state = "available"]
      [] answered /\ cloudImage[b] = "DEAD" -> [image[b] EXCEPT !.state = "failed"]
      [] OTHER -> NoImage

Promoted(b, answered) ==
    CASE answered /\ cloudImage[b] = "AVAILABLE" -> [image[b] EXCEPT !.state = "available"]
      [] answered /\ cloudImage[b] = "DEAD" -> [image[b] EXCEPT !.state = "failed"]
      [] Stuck(b) -> [image[b] EXCEPT !.state = "failed"]
      [] OTHER -> NoImage

\* supersede and expire read what is committed: a row promoted in this session is
\* not among the available ones yet.
AgedImage(b) ==
    IF image[b].state # "available" THEN NoImage
    ELSE IF day - image[b].created > LapseAfter THEN RetiredRow(image[b], "expired")
    ELSE IF b \notin Newest({c \in Builds : image[c].state = "available"})
         THEN RetiredRow(image[b], "superseded") ELSE NoImage

\* Rows loaded as capturing are written over whatever became of them meanwhile.
ImagesSettle(answered) ==
    /\ imageSweep.pc = "asked"
    /\ imageSweep' = [imageSweep EXCEPT !.pc = "settled",
                         !.pending = [b \in Builds |->
                            IF b \in imageSweep.loaded THEN Promoted(b, answered) ELSE AgedImage(b)]]
    /\ UNCHANGED <<build, standing, image, cloudImage, refusedAtDoor, handedAt, day>>

\* Mutant: retired is reason enough.
DueAtOnce(b) == image[b].retired # Never

Due(b) == image[b].retired # Never /\ day - image[b].retired >= RetainFor

\* reap: a row nothing retired starts the clock; an image past its grace is deleted
\* in the cloud before the session commits that it is; a delete that fails is tried
\* again.
ImagesReap ==
    /\ imageSweep.pc = "settled"
    /\ \E failing \in SUBSET Builds :
          LET reapable == {b \in Builds : image[b].state \in REAPABLE
                                            /\ imageSweep.pending[b] = NoImage}
              gone == {b \in reapable : Due(b)} \ failing
          IN  /\ cloudImage' = [b \in Builds |-> IF b \in gone THEN "none" ELSE cloudImage[b]]
              /\ imageSweep' = [imageSweep EXCEPT !.pc = "reaped",
                    !.pending = [b \in Builds |->
                       CASE b \in gone -> [image[b] EXCEPT !.state = "deleted"]
                         [] b \in reapable /\ image[b].retired = Never ->
                               [image[b] EXCEPT !.retired = day]
                         [] OTHER -> imageSweep.pending[b]]]
    /\ UNCHANGED <<build, standing, image, refusedAtDoor, handedAt, day>>

\* Only the columns the session changed are written.
ImagesCommit ==
    /\ imageSweep.pc = "reaped"
    /\ image' = [b \in Builds |->
          LET p == imageSweep.pending[b]
          IN  IF p = NoImage THEN image[b]
              ELSE [image[b] EXCEPT !.state = p.state,
                                    !.retired = IF p.retired = Never THEN @ ELSE p.retired]]
    /\ imageSweep' = SweepAsleep
    /\ UNCHANGED <<build, standing, cloudImage, refusedAtDoor, handedAt, day>>

\* The API stops before the sweep commits: what it deleted in the cloud is gone, what
\* it decided is lost.  (Stopping earlier is not having begun.  A build that is stopped
\* takes no further step.)
ProofCrash ==
    /\ imageSweep.pc = "reaped" /\ imageSweep' = SweepAsleep
    /\ UNCHANGED <<build, standing, image, cloudImage, refusedAtDoor, handedAt, day>>

RunProof(b) ==
    \/ RecordProof(b) \/ PlanProof(b) \/ ApplyProof(b) \/ TearDownApplied(b)
    \/ VerifyProof(b) \/ KeepImage(b) \/ DestroyProof(b) \/ FinishBuild(b)

ImageSweep ==
    \/ ImagesAsk \/ ImagesReap \/ ImagesCommit
    \/ \E answered \in BOOLEAN : ImagesSettle(answered)

ProofNext ==
    \/ DayPasses \/ ImageSweep \/ ProofCrash
    \/ \E b \in Builds : \/ RunProof(b) \/ RefuseRecipe(b) \/ WithdrawImage(b)
                         \/ HandOut(b) \/ CloudFinishes(b)

ProofSpec == ProofInit /\ [][ProofNext]_proofVars
----------------------------------------------------------------------------
\* A proof that ends without saying so leaves nothing running: only one under way, or one
\* that says it was abandoned, may, however its calls failed and whichever answers were
\* lost on their way back.
NothingLeftQuietly ==
    \A b \in standing :
        build[b].pc \in {"applied", "undone", "verified", "kept", "abandoned"}

\* An image handed to a request is still in the cloud until the grace after that day
\* has passed, through withdrawals, re-promotions and sweeps that were interrupted.
HandedImageSurvives ==
    [][\A b \in Builds :
          cloudImage[b] = "AVAILABLE" /\ cloudImage'[b] = "none" /\ handedAt[b] # Never
             => day - handedAt[b] >= RetainFor]_proofVars

\* Nothing is handed out whose machine did not verify, or whose recipe the door
\* refused, whatever state a sweep wrote over the row.
HandedOnlyProved ==
    [][\A b \in Builds : handedAt'[b] # handedAt[b] =>
          build[b].healthy /\ b \notin refusedAtDoor]_proofVars

\* A capture the cloud does not finish is not waited for: a sweep that commits leaves none
\* open that has run past STUCK_AFTER_HOURS, whatever became of its row while the cloud was
\* asked (api/golden.py:40).
CapturesEnd ==
    [][ImagesCommit => \A b \in imageSweep.loaded :
          Stuck(b) => image'[b].state # "capturing"]_proofVars
=============================================================================

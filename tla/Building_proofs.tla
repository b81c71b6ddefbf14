--------------------------- MODULE Building_proofs ---------------------------
(***************************************************************************)
(* Proofs about the way to what is built: the saved plans (SavedPlans), the *)
(* proof builds with the golden images kept from them (ProofBuild), the      *)
(* layouts that are shared out (Placement) and the machines' reports that    *)
(* are believed (FirstBoot), for any units, builds, stacks and machines, any *)
(* ages and any bounds.                                                    *)
(*                                                                         *)
(* For the plans the argument is the marker: whatever was mixed, a marker   *)
(* that is there names the layout its plan was made for.  For the images it *)
(* is the order of two days: a row that is retired was retired no earlier   *)
(* than it was last handed out, also in what a sweep holds back until it    *)
(* commits, and one a sweep may bring back was refused at the door.  For     *)
(* the layouts it is what the orchestrator checks before it accepts; for the *)
(* reports, that each is filed by a machine that looked at itself.           *)
(***************************************************************************)
EXTENDS MCBuilding, Submission_proofs, FiniteSetTheorems, TLAPS

\* The strengthening: the types, and that a marker tells what its plan is for.
PInv == PlansTypeOK /\ MarkerTellsThePlan

\* None is no layout, so a marker that equals the layout of a call is really there.
LEMMA NoneIsNoLayout == None \notin Layouts \cup {Unplaced}
BY SavedPlansConstants DEF None, Unplaced, Layouts

\* At first nothing is planned, and nothing is claimed of a plan.
LEMMA PInvInit == PlansInit => PInv
BY SavedPlansConstants, NoneIsNoLayout
   DEF PlansInit, PInv, PlansTypeOK, MarkerTellsThePlan, NoPlan, None, Layouts

\* What a build does to one unit: the plan keeps its layout, and a machine that was built
\* is what its plan said.
LEMMA ChangeKeepsLayouts ==
    ASSUME PlansTypeOK, NEW built \in SUBSET Units, NEW touched \in SUBSET Units,
           Change(built, touched)
    PROVE  /\ stated' \subseteq Units
           /\ file' \in [Units -> [layout : Layouts \cup {None, Unplaced}, fresh : BOOLEAN]]
           /\ \A u \in Units : file'[u].layout = file[u].layout
           /\ machine' \in [Units -> Layouts \cup {None, Unplaced}]
<1>1. \A u \in Units : file[u] \in [layout : Layouts \cup {None, Unplaced}, fresh : BOOLEAN]
  BY DEF PlansTypeOK
<1>2. \A u \in Units :
        /\ file'[u].layout = file[u].layout
        /\ file'[u] \in [layout : Layouts \cup {None, Unplaced}, fresh : BOOLEAN]
  <2> SUFFICES ASSUME NEW u \in Units
               PROVE  /\ file'[u].layout = file[u].layout
                      /\ file'[u] \in [layout : Layouts \cup {None, Unplaced}, fresh : BOOLEAN]
    OBVIOUS
  <2>1. file'[u] = [file[u] EXCEPT !.fresh = @ /\ u \notin built \cup touched]
    BY DEF Change
  <2>2. (file[u].fresh /\ u \notin built \cup touched) \in BOOLEAN
    OBVIOUS
  <2> QED BY <1>1, <2>1, <2>2
<1>3. file' = [u \in Units |-> file'[u]]
  BY DEF Change
<1>4. \A u \in Units : (IF u \in built THEN file[u].layout ELSE machine[u])
                           \in Layouts \cup {None, Unplaced}
  BY <1>1 DEF PlansTypeOK
<1> QED BY <1>2, <1>3, <1>4 DEF Change, PlansTypeOK

\* Recording a layout and sending a call touch no workspace.
LEMMA RecordKeeps == PInv /\ RecordPlacement => PInv'
BY SavedPlansConstants
   DEF PInv, PlansTypeOK, MarkerTellsThePlan, RecordPlacement, Disk, Layouts

LEMMA SendKeeps ==
    ASSUME PInv, NEW op \in {"plan", "apply", "drift", "resize"}, Send(op)
    PROVE  PInv'
BY DEF PInv, PlansTypeOK, MarkerTellsThePlan, Send, Carried, Disk

\* A call that is handled leaves no call that was not there.
LEMMA HandledKeeps ==
    ASSUME PlansTypeOK, NEW c \in calls, Handled(c)
    PROVE  calls' \subseteq [op : {"plan", "apply", "drift", "resize"},
                         layout : Layouts \cup {Unplaced}]
BY DEF PlansTypeOK, Handled

\* terraform_plan: a unit it finished has plan and marker for the same layout, a unit it
\* stopped at has no marker.
LEMMA PlanKeeps ==
    ASSUME PInv, NEW c \in calls, PlanHandled(c)
    PROVE  PInv'
<1>1. PICK done \in SUBSET Units, stopped \in SUBSET Units, written \in SUBSET Units :
        /\ stopped \cap done = {} /\ written \subseteq stopped
        /\ file' = [u \in Units |-> IF u \in done \cup written
                                    THEN Fresh(c.layout) ELSE file[u]]
        /\ marker' = [u \in Units |-> IF u \in done THEN c.layout
                                      ELSE IF u \in stopped THEN None ELSE marker[u]]
  <2>1. PICK done \in SUBSET Units : \E stopped \in SUBSET (Units \ done) :
          /\ \E written \in SUBSET stopped :
                file' = [u \in Units |-> IF u \in done \cup written
                                         THEN Fresh(c.layout) ELSE file[u]]
          /\ marker' = [u \in Units |-> IF u \in done THEN c.layout
                                        ELSE IF u \in stopped THEN None ELSE marker[u]]
    BY DEF PlanHandled
  <2>2. PICK stopped \in SUBSET (Units \ done) :
          /\ \E written \in SUBSET stopped :
                file' = [u \in Units |-> IF u \in done \cup written
                                         THEN Fresh(c.layout) ELSE file[u]]
          /\ marker' = [u \in Units |-> IF u \in done THEN c.layout
                                        ELSE IF u \in stopped THEN None ELSE marker[u]]
    BY <2>1
  <2>3. PICK written \in SUBSET stopped :
          file' = [u \in Units |-> IF u \in done \cup written
                                   THEN Fresh(c.layout) ELSE file[u]]
    BY <2>2
  <2>4. stopped \in SUBSET Units /\ written \in SUBSET Units /\ stopped \cap done = {}
    OBVIOUS
  <2> QED BY <2>2, <2>3, <2>4
<1>2. c.layout \in Layouts \cup {Unplaced}
  BY DEF PInv, PlansTypeOK
<1>3. Fresh(c.layout) \in [layout : Layouts \cup {None, Unplaced}, fresh : BOOLEAN]
  BY <1>2 DEF Fresh
<1>4. PlansTypeOK'
  BY <1>1, <1>2, <1>3, HandledKeeps DEF PInv, PlansTypeOK, PlanHandled
<1>5. MarkerTellsThePlan'
  <2> SUFFICES ASSUME NEW u \in Units, marker'[u] # None
               PROVE  file'[u].layout = marker'[u]
    BY DEF MarkerTellsThePlan
  <2>1. CASE u \in done
    BY <1>1, <2>1 DEF Fresh
  <2>2. CASE u \notin done
    BY <1>1, <2>2 DEF PInv, MarkerTellsThePlan
  <2> QED BY <2>1, <2>2
<1> QED BY <1>4, <1>5 DEF PInv

\* terraform_apply: a build leaves the layouts of the plans as they are.
LEMMA ApplyKeeps ==
    ASSUME PInv, NEW c \in calls, ApplyHandled(c)
    PROVE  PInv'
<1>1. PICK built \in SUBSET Units, touched \in SUBSET Units : Change(built, touched)
  BY DEF ApplyHandled
<1>2. UNCHANGED <<layout, marker>> /\ Handled(c)
  BY DEF ApplyHandled
<1> QED BY <1>1, <1>2, ChangeKeepsLayouts, HandledKeeps
        DEF PInv, PlansTypeOK, MarkerTellsThePlan

\* terraform_drift: a workspace it planned over has no marker.
LEMMA DriftKeeps ==
    ASSUME PInv, NEW c \in calls, DriftHandled(c)
    PROVE  PInv'
<1>1. PICK here \in SUBSET Units :
        /\ file' = [u \in Units |-> IF u \in here THEN Fresh(c.layout) ELSE file[u]]
        /\ marker' = [u \in Units |-> IF u \in here THEN None ELSE marker[u]]
  BY DEF DriftHandled
<1>2. Fresh(c.layout) \in [layout : Layouts \cup {None, Unplaced}, fresh : BOOLEAN]
  BY DEF Fresh, PInv, PlansTypeOK
<1> QED BY <1>1, <1>2, HandledKeeps
        DEF PInv, PlansTypeOK, MarkerTellsThePlan, DriftHandled

\* /reduce and /dns: the marker, if it is written, says what the plan is: of no layout.
LEMMA ResizeKeeps ==
    ASSUME PInv, NEW c \in calls, ResizeHandled(c)
    PROVE  PInv'
<1>1. PICK u \in Units, remembered \in BOOLEAN, applied \in BOOLEAN :
        /\ applied => remembered
        /\ file' = [file EXCEPT ![u] = [Fresh(Unplaced) EXCEPT !.fresh = ~applied]]
        /\ marker' = [marker EXCEPT ![u] = IF remembered THEN Unplaced ELSE None]
        /\ stated' = IF applied THEN stated \cup {u} ELSE stated
        /\ machine' = IF applied THEN [machine EXCEPT ![u] = Unplaced] ELSE machine
  BY DEF ResizeHandled
<1>2. [Fresh(Unplaced) EXCEPT !.fresh = ~applied] = [layout |-> Unplaced, fresh |-> ~applied]
  BY DEF Fresh
<1>3. layout' = layout /\ Handled(c)
  BY DEF ResizeHandled
<1>4. PlansTypeOK'
  BY <1>1, <1>2, <1>3, HandledKeeps DEF PInv, PlansTypeOK
<1>5. MarkerTellsThePlan'
  BY <1>1, <1>2 DEF PInv, PlansTypeOK, MarkerTellsThePlan
<1> QED BY <1>4, <1>5 DEF PInv

\* Every step keeps the strengthening.
LEMMA PInvStep == PInv /\ [PlansNext]_planVars => PInv'
<1> SUFFICES ASSUME PInv, [PlansNext]_planVars PROVE PInv'
  OBVIOUS
<1>1. CASE RecordPlacement
  BY <1>1, RecordKeeps
<1>2. CASE \E op \in {"plan", "apply", "drift", "resize"} : Send(op)
  BY <1>2, SendKeeps
<1>3. CASE \E c \in calls : CallHandled(c)
  BY <1>3, PlanKeeps, ApplyKeeps, DriftKeeps, ResizeKeeps DEF CallHandled
<1>4. CASE UNCHANGED planVars
  BY <1>4 DEF PInv, PlansTypeOK, MarkerTellsThePlan, planVars
<1> QED BY <1>1, <1>2, <1>3, <1>4 DEF PlansNext

\* The types, and that a marker tells the plan, hold for every value of the constants.
THEOREM MarkersTellThePlan == PlansSpec => []PInv
BY PInvInit, PInvStep, PTL DEF PlansSpec

\* The types of what is on disk and of the calls that wait.
THEOREM PlansTypeCorrect == PlansSpec => []PlansTypeOK
<1>1. PInv => PlansTypeOK
  BY DEF PInv
<1> QED BY <1>1, MarkersTellThePlan, PTL

\* A unit that an apply built is what the call asked for: the marker named the layout of
\* the call, and the plan was the marker's.
LEMMA BuiltForTheCall ==
    ASSUME PInv, NEW c \in calls, ApplyHandled(c), NEW u \in Units,
           machine'[u] # machine[u]
    PROVE  c.op = "apply" /\ c.layout = machine'[u]
<1>1. PICK built \in SUBSET Units, touched \in SUBSET Units :
        /\ \A v \in built : Applicable(v, c.layout)
        /\ Change(built, touched)
  BY DEF ApplyHandled
<1>2. u \in built /\ machine'[u] = file[u].layout
  BY <1>1 DEF Change
<1>3. c.layout # None
  BY NoneIsNoLayout DEF PInv, PlansTypeOK
<1>4. marker[u] = c.layout
  BY <1>1, <1>2 DEF Applicable
<1>5. file[u].layout = c.layout
  BY <1>3, <1>4 DEF PInv, MarkerTellsThePlan
<1> QED BY <1>2, <1>5 DEF ApplyHandled

\* No other step builds anything of a layout.
LEMMA OnlyApplyBuilds ==
    ASSUME PInv, [PlansNext]_planVars, NEW u \in Units,
           machine'[u] # machine[u], machine'[u] # Unplaced
    PROVE  \E c \in calls : c.op = "apply" /\ c.layout = machine'[u]
<1>1. CASE RecordPlacement
  BY <1>1 DEF RecordPlacement, Disk
<1>2. CASE \E op \in {"plan", "apply", "drift", "resize"} : Send(op)
  BY <1>2 DEF Send, Disk
<1>3. CASE UNCHANGED planVars
  BY <1>3 DEF planVars
<1>4. CASE \E c \in calls : CallHandled(c)
  <2>1. PICK c \in calls : CallHandled(c)
    BY <1>4
  <2>2. CASE PlanHandled(c)
    BY <2>2 DEF PlanHandled
  <2>3. CASE DriftHandled(c)
    BY <2>3 DEF DriftHandled
  <2>4. CASE ResizeHandled(c)
    BY <2>4 DEF ResizeHandled, PInv, PlansTypeOK
  <2>5. CASE ApplyHandled(c)
    BY <2>5, BuiltForTheCall
  <2> QED BY <2>1, <2>2, <2>3, <2>4, <2>5 DEF CallHandled
<1> QED BY <1>1, <1>2, <1>3, <1>4 DEF PlansNext

\* What an apply builds was planned for the layout that apply was sent for.
THEOREM AppliedAsSent == PlansSpec => AppliedIsApproved
<1>1. PInv /\ [PlansNext]_planVars =>
        [\A u \in Units : machine'[u] # machine[u] /\ machine'[u] # Unplaced =>
            \E c \in calls : c.op = "apply" /\ c.layout = machine'[u]]_planVars
  BY OnlyApplyBuilds
<1> QED BY <1>1, MarkersTellThePlan, PTL DEF PlansSpec, AppliedIsApproved

----------------------------------------------------------------------------
(* ProofBuild *)

\* An image's row exists only for a build whose machine verified.
RowsProved ==
    \A b \in Builds : image[b].state # "none" =>
        build[b].healthy /\ build[b].pc \in {"kept", "down", "abandoned", "passed", "failed"}

\* What a sweep loaded, or holds back until it commits, is about rows that exist; it
\* holds nothing back before it settles.
SessionRows ==
    /\ \A b \in Builds : imageSweep.pending[b] # NoImage \/ b \in imageSweep.loaded =>
          image[b].state # "none"
    /\ imageSweep.pc \in {"idle", "asked"} =>
          \A b \in Builds : imageSweep.pending[b] = NoImage

\* A retired row was retired no earlier than it was last handed out, and will not be
\* handed out again: the only rows that come back are of recipes the door refused.
RetiredAfterHanded ==
    \A b \in Builds :
        /\ handedAt[b] <= day
        /\ image[b].retired # Never =>
              /\ handedAt[b] <= image[b].retired
              /\ image[b].state \in {"available", "capturing"} => b \in refusedAtDoor

\* A row that was loaded as capturing still is, or was withdrawn for a refused recipe.
LoadedOrRefused ==
    \A b \in imageSweep.loaded : image[b].state = "capturing" \/ b \in refusedAtDoor

\* The same of what a sweep holds back: it retires today what may be handed out today.
Retiring(b, p) ==
    /\ p.state \notin {"capturing", "none"}
    /\ p.retired # Never =>
          /\ handedAt[b] <= p.retired
          /\ p.retired = day \/ image[b].state # "available" \/ b \in refusedAtDoor
    /\ p.state = "available" /\ (p.retired # Never \/ image[b].retired # Never) =>
          b \in refusedAtDoor
PendingInOrder ==
    \A b \in Builds : imageSweep.pending[b] # NoImage => Retiring(b, imageSweep.pending[b])

\* Once settled, every loaded capture that ran too long has a verdict.
StuckHaveVerdict ==
    imageSweep.pc \in {"settled", "reaped"} =>
        \A b \in imageSweep.loaded : Stuck(b) => imageSweep.pending[b] # NoImage

ImagesInv ==
    /\ ProofTypeOK /\ RowsProved /\ SessionRows /\ RetiredAfterHanded
    /\ LoadedOrRefused /\ PendingInOrder /\ StuckHaveVerdict

BuildRecord == [pc : {"unborn", "recorded", "planned", "applied", "undone", "verified",
                      "kept", "down"} \cup Finished, healthy : BOOLEAN]
SweepRecord == [pc : {"idle", "asked", "settled", "reaped"}, loaded : SUBSET Builds,
                pending : [Builds -> ImageRow]]

\* Never is no day, and comes before every day.
LEMMA DaysAndNever ==
    /\ Days \subseteq Int /\ 0 \in Days /\ Never \in Int /\ Never \notin Days
    /\ \A d \in Days \cup {Never} : d \in Int /\ Never <= d /\ d <= MaxDay
    /\ \A d \in Days : 0 <= d /\ (d < MaxDay => d + 1 \in Days)
BY ProofBuildAssumption DEF Days, Never

LEMMA NoImageIsRow == NoImage \in ImageRow /\ NoImage.state = "none" /\ NoImage.retired = Never
BY DaysAndNever DEF NoImage, ImageRow, ImageState

LEMMA SleepIsTyped ==
    /\ SweepAsleep \in SweepRecord
    /\ SweepAsleep.pc = "idle" /\ SweepAsleep.loaded = {}
    /\ \A b \in Builds : SweepAsleep.pending[b] = NoImage
BY NoImageIsRow DEF SweepAsleep, SweepRecord

LEMMA ImagesInvInit == ProofInit => ImagesInv
<1> SUFFICES ASSUME ProofInit PROVE ImagesInv
  OBVIOUS
<1>1. ProofTypeOK
  BY DaysAndNever, NoImageIsRow, SleepIsTyped
     DEF ProofInit, ProofTypeOK, SweepRecord, Finished
<1>2. \A b \in Builds : image[b].state = "none" /\ image[b].retired = Never /\ handedAt[b] = Never
  BY NoImageIsRow DEF ProofInit
<1>3. imageSweep.loaded = {} /\ imageSweep.pc = "idle"
      /\ \A b \in Builds : imageSweep.pending[b] = NoImage
  BY SleepIsTyped DEF ProofInit
<1>4. RowsProved /\ SessionRows /\ LoadedOrRefused /\ PendingInOrder /\ StuckHaveVerdict
  BY <1>2, <1>3 DEF RowsProved, SessionRows, LoadedOrRefused, PendingInOrder, StuckHaveVerdict
<1>5. RetiredAfterHanded
  BY <1>1, <1>2, DaysAndNever DEF RetiredAfterHanded, ProofTypeOK
<1> QED
  BY <1>1, <1>4, <1>5 DEF ImagesInv

\* A build moves on, and only it.
LEMMA StepMovesOne ==
    ASSUME build \in [Builds -> BuildRecord], NEW b \in Builds,
           NEW pc \in {"recorded", "planned", "applied", "undone", "kept", "down"} \cup Finished,
           Step(b, pc)
    PROVE  /\ build' \in [Builds -> BuildRecord]
           /\ build'[b].pc = pc /\ build'[b].healthy = build[b].healthy
           /\ \A c \in Builds : c # b => build'[c] = build[c]
<1> DEFINE moved == [build[b] EXCEPT !.pc = pc]
<1>1. build[b] \in BuildRecord
  OBVIOUS
<1>2. moved \in BuildRecord /\ moved.pc = pc /\ moved.healthy = build[b].healthy
  BY <1>1 DEF BuildRecord
<1>3. build' = [build EXCEPT ![b] = moved]
  BY DEF Step
<1> HIDE DEF moved
<1> QED
  BY <1>2, <1>3

\* What a step of a build other than keeping its image does to the builds: a row's
\* machine stays verified.
LEMMA RunsKeepRows ==
    ASSUME ProofTypeOK, RowsProved, NEW b \in Builds,
           RecordProof(b) \/ PlanProof(b) \/ ApplyProof(b) \/ TearDownApplied(b)
             \/ VerifyProof(b) \/ DestroyProof(b) \/ FinishBuild(b)
    PROVE  KeepsImages /\ ProofTypeOK' /\ RowsProved'
<1>0. build \in [Builds -> BuildRecord]
  BY DEF ProofTypeOK, BuildRecord
<1>1. KeepsImages
  BY DEF RecordProof, PlanProof, ApplyProof, TearDownApplied, VerifyProof, DestroyProof,
     FinishBuild
<1>2. /\ build' \in [Builds -> BuildRecord] /\ standing' \subseteq Builds
      /\ \A c \in Builds : c # b => build'[c] = build[c]
      /\ image[b].state # "none" => /\ build'[b].healthy
                                    /\ build'[b].pc \in {"down", "abandoned", "passed", "failed"}
  <2>1. CASE RecordProof(b)
    BY <2>1, <1>0, StepMovesOne DEF RecordProof, ProofTypeOK, RowsProved
  <2>2. CASE PlanProof(b)
    <3>1. PICK next \in {"refused", "failed", "planned"} : Step(b, next)
      BY <2>2 DEF PlanProof
    <3>2. next \in {"recorded", "planned", "applied", "undone", "kept", "down"} \cup Finished
      BY DEF Finished
    <3> QED
      BY <2>2, <3>1, <3>2, <1>0, StepMovesOne DEF PlanProof, ProofTypeOK, RowsProved
  <2>3. CASE ApplyProof(b)
    <3>1. PICK pc \in {"applied", "undone"} :
             Step(b, pc) /\ standing' \in {standing, standing \cup {b}}
      BY <2>3 DEF ApplyProof
    <3>2. pc \in {"recorded", "planned", "applied", "undone", "kept", "down"} \cup Finished
      BY DEF Finished
    <3> QED
      BY <2>3, <3>1, <3>2, <1>0, StepMovesOne DEF ApplyProof, ProofTypeOK, RowsProved
  <2>4. CASE VerifyProof(b)
    <3>1. PICK healthy \in BOOLEAN :
             build' = [build EXCEPT ![b] = [pc |-> "verified", healthy |-> healthy]]
      BY <2>4 DEF VerifyProof
    <3>2. [pc |-> "verified", healthy |-> healthy] \in BuildRecord
      BY DEF BuildRecord
    <3> QED
      BY <2>4, <3>1, <3>2, <1>0 DEF VerifyProof, ProofTypeOK, RowsProved
  <2>5. CASE DestroyProof(b)
    <3>1. PICK pc \in {"down", "abandoned"} :
             Step(b, pc) /\ standing' \in {standing, standing \ {b}}
      BY <2>5 DEF DestroyProof
    <3>2. pc \in {"recorded", "planned", "applied", "undone", "kept", "down"} \cup Finished
      BY DEF Finished
    <3> QED
      BY <2>5, <3>1, <3>2, <1>0, StepMovesOne DEF DestroyProof, ProofTypeOK, RowsProved
  <2>6. CASE FinishBuild(b)
    <3>1. PICK pc \in {"passed", "failed"} : Step(b, pc)
      BY <2>6 DEF FinishBuild
    <3>2. pc \in {"recorded", "planned", "applied", "undone", "kept", "down"} \cup Finished
      BY DEF Finished
    <3> QED
      BY <2>6, <3>1, <3>2, <1>0, StepMovesOne DEF FinishBuild, ProofTypeOK, RowsProved
  <2>7. CASE TearDownApplied(b)
    <3>1. PICK pc \in {"failed", "abandoned"} :
             Step(b, pc) /\ standing' \in {standing, standing \ {b}}
      BY <2>7 DEF TearDownApplied
    <3>2. pc \in {"recorded", "planned", "applied", "undone", "kept", "down"} \cup Finished
      BY DEF Finished
    <3> QED
      BY <2>7, <3>1, <3>2, <1>0, StepMovesOne DEF TearDownApplied, ProofTypeOK, RowsProved
  <2> QED
    BY <2>1, <2>2, <2>3, <2>4, <2>5, <2>6, <2>7
<1>3. ProofTypeOK'
  BY <1>1, <1>2 DEF ProofTypeOK, KeepsImages, BuildRecord
<1>4. RowsProved'
  BY <1>1, <1>2 DEF RowsProved, KeepsImages
<1> QED
  BY <1>1, <1>3, <1>4

\* A step that leaves the rows, the sweep, the days and what was handed out alone, and
\* takes back no refusal, keeps what is said of them.
LEMMA ImagesRestInOrder ==
    ASSUME SessionRows, RetiredAfterHanded, LoadedOrRefused, PendingInOrder, StuckHaveVerdict,
           UNCHANGED <<image, imageSweep, handedAt, day>>, refusedAtDoor \subseteq refusedAtDoor'
    PROVE  /\ SessionRows' /\ RetiredAfterHanded' /\ LoadedOrRefused' /\ PendingInOrder'
           /\ StuckHaveVerdict'
<1>1. SessionRows' /\ StuckHaveVerdict'
  BY DEF SessionRows, StuckHaveVerdict, Stuck
<1>2. RetiredAfterHanded' /\ LoadedOrRefused'
  BY DEF RetiredAfterHanded, LoadedOrRefused
<1>3. PendingInOrder'
  BY DEF PendingInOrder, Retiring
<1> QED
  BY <1>1, <1>2, <1>3

\* KeepImage: the row is new, so nothing was loaded of it, held back or handed out after
\* it was retired.
LEMMA KeepImageInOrder ==
    ASSUME ImagesInv, NEW b \in Builds, KeepImage(b)
    PROVE  ImagesInv'
<1>0. /\ build \in [Builds -> BuildRecord] /\ image \in [Builds -> ImageRow] /\ day \in Days
      /\ cloudImage \in [Builds -> {"none", "PROVISIONING", "AVAILABLE", "DEAD"}]
  BY DEF ImagesInv, ProofTypeOK, BuildRecord
<1>1. "kept" \in {"recorded", "planned", "applied", "undone", "kept", "down"} \cup Finished
  OBVIOUS
<1>2. /\ build' \in [Builds -> BuildRecord]
      /\ build'[b].pc = "kept" /\ build'[b].healthy = build[b].healthy
      /\ \A c \in Builds : c # b => build'[c] = build[c]
  BY <1>0, <1>1, StepMovesOne DEF KeepImage
<1>3. image[b].state = "none" /\ imageSweep.pending[b] = NoImage /\ b \notin imageSweep.loaded
  BY DEF ImagesInv, RowsProved, SessionRows, KeepImage
<1>4. UNCHANGED <<standing, refusedAtDoor, imageSweep, handedAt, day>>
  BY DEF KeepImage
<1>5. /\ image' \in [Builds -> ImageRow]
      /\ \A c \in Builds : c # b => image'[c] = image[c]
      /\ image'[b] = image[b] \/ (image'[b].retired = Never /\ build[b].healthy)
  <2>1. CASE ~build[b].healthy /\ image' = image
    BY <2>1, <1>0
  <2>2. ASSUME NEW captured \in BOOLEAN, build[b].healthy,
               image' = [image EXCEPT ![b] =
                      [state |-> IF captured THEN "capturing" ELSE "failed",
                       created |-> day, retired |-> Never]]
        PROVE  <1>5!1 /\ <1>5!2 /\ <1>5!3
    <3> DEFINE row == [state |-> IF captured THEN "capturing" ELSE "failed",
                       created |-> day, retired |-> Never]
    <3>1. row \in ImageRow /\ row.retired = Never
      BY <1>0 DEF ImageRow, ImageState
    <3>2. image' = [image EXCEPT ![b] = row]
      BY <2>2
    <3> HIDE DEF row
    <3> QED
      BY <3>1, <3>2, <2>2, <1>0
  <2> QED
    BY <2>1, <2>2 DEF KeepImage
<1>6. cloudImage' \in [Builds -> {"none", "PROVISIONING", "AVAILABLE", "DEAD"}]
  BY <1>0 DEF KeepImage
<1>7. ProofTypeOK'
  BY <1>2, <1>4, <1>5, <1>6 DEF ImagesInv, ProofTypeOK, BuildRecord
<1>8. RowsProved'
  BY <1>2, <1>3, <1>5 DEF ImagesInv, RowsProved
<1>9. SessionRows' /\ LoadedOrRefused'
  <2>1. imageSweep.loaded \subseteq Builds
    BY DEF ImagesInv, ProofTypeOK
  <2>2. \A c \in Builds : imageSweep.pending[c] # NoImage \/ c \in imageSweep.loaded => c # b
    BY <1>3
  <2>3. SessionRows'
    BY <2>2, <1>4, <1>5 DEF ImagesInv, SessionRows
  <2>4. LoadedOrRefused'
    BY <2>1, <2>2, <1>4, <1>5 DEF ImagesInv, LoadedOrRefused
  <2> QED
    BY <2>3, <2>4
<1>10. RetiredAfterHanded'
  BY <1>3, <1>4, <1>5 DEF ImagesInv, RetiredAfterHanded
<1>11. PendingInOrder'
  <2> SUFFICES ASSUME NEW c \in Builds, imageSweep.pending[c] # NoImage
               PROVE  Retiring(c, imageSweep.pending[c])'
    BY <1>4 DEF PendingInOrder
  <2>1. c # b /\ image'[c] = image[c]
    BY <1>3, <1>5
  <2> QED
    BY <2>1, <1>4 DEF ImagesInv, PendingInOrder, Retiring
<1>12. StuckHaveVerdict'
  BY <1>3, <1>4, <1>5 DEF ImagesInv, StuckHaveVerdict, Stuck, ProofTypeOK
<1> QED
  BY <1>7, <1>8, <1>9, <1>10, <1>11, <1>12 DEF ImagesInv

\* WithdrawImage: it retires the row today, of a recipe the door refused.
LEMMA WithdrawInOrder ==
    ASSUME ImagesInv, NEW b \in Builds, WithdrawImage(b)
    PROVE  ImagesInv'
<1> DEFINE row == [image[b] EXCEPT !.state = "withdrawn", !.retired = day]
<1>0. image \in [Builds -> ImageRow] /\ day \in Days
  BY DEF ImagesInv, ProofTypeOK
<1>1. UNCHANGED <<build, standing, cloudImage, refusedAtDoor, imageSweep, handedAt, day>>
      /\ b \in refusedAtDoor /\ image[b].state \in {"available", "capturing"}
  BY DEF WithdrawImage
<1>2. row \in ImageRow /\ row.state = "withdrawn" /\ row.retired = day
      /\ row.created = image[b].created
  BY <1>0 DEF ImageRow, ImageState
<1>3. image' = [image EXCEPT ![b] = row]
  BY DEF WithdrawImage
<1> HIDE DEF row
<1>4. /\ image' \in [Builds -> ImageRow] /\ image'[b] = row
      /\ \A c \in Builds : c # b => image'[c] = image[c]
  BY <1>0, <1>2, <1>3
<1>5. ProofTypeOK'
  BY <1>1, <1>4 DEF ImagesInv, ProofTypeOK
<1>6. RowsProved' /\ SessionRows'
  BY <1>1, <1>2, <1>4 DEF ImagesInv, RowsProved, SessionRows
<1>10. LoadedOrRefused'
  <2>1. imageSweep.loaded \subseteq Builds
    BY DEF ImagesInv, ProofTypeOK
  <2> QED
    BY <2>1, <1>1, <1>4 DEF ImagesInv, LoadedOrRefused
<1>7. RetiredAfterHanded'
  BY <1>1, <1>2, <1>4 DEF ImagesInv, RetiredAfterHanded
<1>8. PendingInOrder'
  <2> SUFFICES ASSUME NEW c \in Builds, imageSweep.pending[c] # NoImage
               PROVE  Retiring(c, imageSweep.pending[c])'
    BY <1>1 DEF PendingInOrder
  <2>1. Retiring(c, imageSweep.pending[c])
    BY DEF ImagesInv, PendingInOrder
  <2>2. c # b => image'[c] = image[c]
    BY <1>4
  <2>3. CASE c = b
    BY <2>1, <2>3, <1>1, <1>2, <1>4 DEF Retiring
  <2>4. CASE c # b
    BY <2>1, <2>2, <2>4, <1>1 DEF Retiring
  <2> QED
    BY <2>3, <2>4
<1>9. StuckHaveVerdict'
  BY <1>1, <1>2, <1>4 DEF ImagesInv, StuckHaveVerdict, Stuck, ProofTypeOK
<1> QED
  BY <1>5, <1>6, <1>7, <1>8, <1>9, <1>10 DEF ImagesInv

\* HandOut: what is handed out is available and its recipe is not refused, so nothing
\* retired it before today.
LEMMA HandOutInOrder ==
    ASSUME ImagesInv, NEW b \in Builds, HandOut(b)
    PROVE  ImagesInv' /\ build[b].healthy /\ b \notin refusedAtDoor
           /\ \A c \in Builds : c # b => handedAt'[c] = handedAt[c]
<1>0. handedAt \in [Builds -> Days \cup {Never}] /\ day \in Days
  BY DEF ImagesInv, ProofTypeOK
<1>1. UNCHANGED <<build, standing, image, cloudImage, refusedAtDoor, imageSweep, day>>
      /\ handedAt' = [handedAt EXCEPT ![b] = day]
  BY DEF HandOut
<1>2. image[b].state = "available" /\ b \notin refusedAtDoor
  BY DEF HandOut, Newest, UsableFor
<1>3. /\ handedAt' \in [Builds -> Days \cup {Never}] /\ handedAt'[b] = day
      /\ \A c \in Builds : c # b => handedAt'[c] = handedAt[c]
  BY <1>0, <1>1
<1>4. image[b].retired = Never /\ day <= day
  BY <1>0, <1>2, DaysAndNever DEF ImagesInv, RetiredAfterHanded
<1>5. ProofTypeOK' /\ RowsProved' /\ SessionRows' /\ LoadedOrRefused' /\ StuckHaveVerdict'
  BY <1>1, <1>3 DEF ImagesInv, ProofTypeOK, RowsProved, SessionRows, LoadedOrRefused,
                    StuckHaveVerdict, Stuck
<1>6. RetiredAfterHanded'
  BY <1>1, <1>3, <1>4 DEF ImagesInv, RetiredAfterHanded
<1>7. PendingInOrder'
  <2> SUFFICES ASSUME NEW c \in Builds, imageSweep.pending[c] # NoImage
               PROVE  Retiring(c, imageSweep.pending[c])'
    BY <1>1 DEF PendingInOrder
  <2>1. Retiring(c, imageSweep.pending[c])
    BY DEF ImagesInv, PendingInOrder
  <2>2. CASE c = b
    <3>1. imageSweep.pending[b].retired # Never => imageSweep.pending[b].retired = day
      BY <2>1, <2>2, <1>2 DEF Retiring
    <3> QED
      BY <2>1, <2>2, <3>1, <1>1, <1>3, <1>4 DEF Retiring
  <2>3. CASE c # b
    BY <2>1, <2>3, <1>1, <1>3 DEF Retiring
  <2> QED
    BY <2>2, <2>3
<1>8. build[b].healthy
  BY <1>2 DEF ImagesInv, RowsProved
<1> QED
  BY <1>2, <1>3, <1>5, <1>6, <1>7, <1>8 DEF ImagesInv

\* DayPasses: no sweep is under way, so nothing is held back.
LEMMA DayInOrder ==
    ASSUME ImagesInv, DayPasses
    PROVE  ImagesInv'
<1>0. day \in Days /\ handedAt \in [Builds -> Days \cup {Never}]
  BY DEF ImagesInv, ProofTypeOK
<1>1. UNCHANGED <<build, standing, image, cloudImage, refusedAtDoor, imageSweep, handedAt>>
      /\ imageSweep.pc = "idle" /\ day < MaxDay /\ day' = day + 1
  BY DEF DayPasses
<1>2. day' \in Days
  BY <1>0, <1>1, DaysAndNever
<1>3. \A b \in Builds : handedAt[b] <= day => handedAt[b] <= day'
  <2>1. day \in Int /\ \A b \in Builds : handedAt[b] \in Int
    BY <1>0, DaysAndNever
  <2> QED
    BY <2>1, <1>1
<1>4. ProofTypeOK' /\ RowsProved' /\ SessionRows' /\ LoadedOrRefused' /\ StuckHaveVerdict'
  BY <1>1, <1>2 DEF ImagesInv, ProofTypeOK, RowsProved, SessionRows, LoadedOrRefused,
                    StuckHaveVerdict
<1>5. RetiredAfterHanded'
  BY <1>1, <1>3 DEF ImagesInv, RetiredAfterHanded
<1>6. PendingInOrder'
  BY <1>1 DEF ImagesInv, SessionRows, PendingInOrder
<1> QED
  BY <1>4, <1>5, <1>6 DEF ImagesInv

\* The sweep's session is put to sleep, or asks: nothing is held back.
LEMMA AskInOrder ==
    ASSUME ImagesInv, ImagesAsk \/ ProofCrash
    PROVE  ImagesInv'
<1>0. imageSweep \in SweepRecord
  BY DEF ImagesInv, ProofTypeOK, SweepRecord
<1>1. UNCHANGED <<build, standing, image, cloudImage, refusedAtDoor, handedAt, day>>
  BY DEF ImagesAsk, ProofCrash
<1>2. /\ imageSweep' \in SweepRecord /\ imageSweep'.pc \in {"idle", "asked"}
      /\ \A b \in Builds : imageSweep'.pending[b] = NoImage
      /\ \A b \in imageSweep'.loaded : b \in Builds /\ image[b].state = "capturing"
  <2>1. CASE ProofCrash
    BY <2>1, SleepIsTyped DEF ProofCrash
  <2>2. CASE ImagesAsk
    <3> DEFINE L == {b \in Builds : image[b].state = "capturing"}
    <3>1. L \in SUBSET Builds /\ \A b \in L : b \in Builds /\ image[b].state = "capturing"
      OBVIOUS
    <3>2. imageSweep' = [imageSweep EXCEPT !.pc = "asked", !.loaded = L]
          /\ imageSweep.pc = "idle"
      BY <2>2 DEF ImagesAsk
    <3> HIDE DEF L
    <3>3. imageSweep' \in SweepRecord /\ imageSweep'.pc = "asked" /\ imageSweep'.loaded = L
          /\ imageSweep'.pending = imageSweep.pending
      BY <3>1, <3>2, <1>0 DEF SweepRecord
    <3> QED
      BY <3>1, <3>2, <3>3 DEF ImagesInv, SessionRows
  <2> QED
    BY <2>1, <2>2
<1>3. ProofTypeOK' /\ RowsProved'
  BY <1>1, <1>2 DEF ImagesInv, ProofTypeOK, RowsProved, SweepRecord
<1>4. SessionRows' /\ LoadedOrRefused' /\ PendingInOrder' /\ StuckHaveVerdict'
  BY <1>1, <1>2 DEF SessionRows, LoadedOrRefused, PendingInOrder, StuckHaveVerdict
<1>5. RetiredAfterHanded'
  BY <1>1 DEF ImagesInv, RetiredAfterHanded
<1> QED
  BY <1>3, <1>4, <1>5 DEF ImagesInv

\* What promote and the ageing of images decide about one row.
LEMMA PromotedRow ==
    ASSUME ProofTypeOK, NEW b \in Builds, NEW answered \in BOOLEAN
    PROVE  /\ Promoted(b, answered) \in ImageRow
           /\ Stuck(b) => Promoted(b, answered) # NoImage
           /\ Promoted(b, answered) # NoImage =>
                /\ Promoted(b, answered).state \in {"available", "failed"}
                /\ Promoted(b, answered).retired = image[b].retired
<1> DEFINE up == [image[b] EXCEPT !.state = "available"]
           failed == [image[b] EXCEPT !.state = "failed"]
<1>1. image[b] \in ImageRow
  BY DEF ProofTypeOK
<1>2. /\ up \in ImageRow /\ up.state = "available" /\ up.retired = image[b].retired
      /\ failed \in ImageRow /\ failed.state = "failed" /\ failed.retired = image[b].retired
  BY <1>1 DEF ImageRow, ImageState
<1>3. /\ Promoted(b, answered) \in {up, failed, NoImage}
      /\ Stuck(b) => Promoted(b, answered) \in {up, failed}
  BY DEF Promoted
<1> HIDE DEF up, failed
<1> QED
  BY <1>2, <1>3, NoImageIsRow

LEMMA AgedRow ==
    ASSUME ProofTypeOK, NEW b \in Builds
    PROVE  /\ AgedImage(b) \in ImageRow
           /\ AgedImage(b) # NoImage =>
                /\ AgedImage(b).state \in {"expired", "superseded"}
                /\ AgedImage(b).retired = day /\ image[b].state = "available"
<1>1. image[b] \in ImageRow /\ day \in Days
  BY DEF ProofTypeOK
<1>2. ASSUME NEW state \in {"expired", "superseded"}
      PROVE  /\ RetiredRow(image[b], state) \in ImageRow
             /\ RetiredRow(image[b], state).state = state
             /\ RetiredRow(image[b], state).retired = day
  BY <1>1 DEF RetiredRow, ImageRow, ImageState
<1>3. \/ AgedImage(b) = NoImage
      \/ image[b].state = "available" /\ AgedImage(b) = RetiredRow(image[b], "expired")
      \/ image[b].state = "available" /\ AgedImage(b) = RetiredRow(image[b], "superseded")
  BY DEF AgedImage
<1> QED
  BY <1>2, <1>3, NoImageIsRow

\* ImagesSettle: a loaded row comes back only if its recipe was refused, and what is
\* aged is retired today.
LEMMA SettleInOrder ==
    ASSUME ImagesInv, NEW answered \in BOOLEAN, ImagesSettle(answered)
    PROVE  ImagesInv'
<1> DEFINE After == [b \in Builds |-> IF b \in imageSweep.loaded THEN Promoted(b, answered)
                                  ELSE AgedImage(b)]
<1>0. imageSweep \in SweepRecord /\ ProofTypeOK
  BY DEF ImagesInv, ProofTypeOK, SweepRecord
<1>1. UNCHANGED <<build, standing, image, cloudImage, refusedAtDoor, handedAt, day>>
      /\ imageSweep' = [imageSweep EXCEPT !.pc = "settled", !.pending = After]
  BY DEF ImagesSettle
<1>2. After \in [Builds -> ImageRow]
  BY <1>0, PromotedRow, AgedRow
<1>3. \A b \in Builds : After[b] = IF b \in imageSweep.loaded THEN Promoted(b, answered)
                               ELSE AgedImage(b)
  OBVIOUS
<1> HIDE DEF After
<1>4. imageSweep' \in SweepRecord /\ imageSweep'.pc = "settled"
      /\ imageSweep'.loaded = imageSweep.loaded /\ imageSweep'.pending = After
  BY <1>0, <1>1, <1>2 DEF SweepRecord
<1>5. \A b \in Builds : After[b] # NoImage => image[b].state # "none" /\ Retiring(b, After[b])
  <2> SUFFICES ASSUME NEW b \in Builds, After[b] # NoImage
               PROVE  image[b].state # "none" /\ Retiring(b, After[b])
    OBVIOUS
  <2>0. /\ handedAt[b] <= day
        /\ image[b].retired # Never =>
              /\ handedAt[b] <= image[b].retired
              /\ image[b].state \in {"available", "capturing"} => b \in refusedAtDoor
    BY DEF ImagesInv, RetiredAfterHanded
  <2>1. CASE b \in imageSweep.loaded
    <3>1. After[b].state \in {"available", "failed"} /\ After[b].retired = image[b].retired
      BY <2>1, <1>0, <1>3, PromotedRow
    <3>2. image[b].state # "none" /\ (image[b].state = "capturing" \/ b \in refusedAtDoor)
      BY <2>1 DEF ImagesInv, SessionRows, LoadedOrRefused
    <3> QED
      BY <3>1, <3>2, <2>0 DEF Retiring
  <2>2. CASE b \notin imageSweep.loaded
    <3>1. After[b].state \in {"expired", "superseded"} /\ After[b].retired = day
          /\ image[b].state = "available"
      BY <2>2, <1>0, <1>3, AgedRow
    <3> QED
      BY <3>1, <2>0 DEF Retiring
  <2> QED
    BY <2>1, <2>2
<1>6. ProofTypeOK' /\ RowsProved' /\ LoadedOrRefused' /\ RetiredAfterHanded'
  BY <1>0, <1>1, <1>4 DEF ImagesInv, ProofTypeOK, RowsProved, LoadedOrRefused, SweepRecord,
                          RetiredAfterHanded
<1>7. SessionRows'
  BY <1>1, <1>4, <1>5 DEF ImagesInv, SessionRows
<1>8. PendingInOrder'
  BY <1>1, <1>4, <1>5 DEF PendingInOrder, Retiring
<1>9. StuckHaveVerdict'
  <2>1. \A b \in imageSweep.loaded : b \in Builds
    BY <1>0 DEF SweepRecord
  <2>2. \A b \in imageSweep.loaded : Stuck(b) => After[b] # NoImage
    BY <2>1, <1>0, <1>3, PromotedRow
  <2> QED
    BY <2>2, <1>1, <1>4 DEF StuckHaveVerdict, Stuck
<1> QED
  BY <1>6, <1>7, <1>8, <1>9 DEF ImagesInv

\* ImagesReap: it deletes only what was retired, and not handed out since, long enough
\* ago; what it adds to the session is about rows nobody can be handed.
LEMMA ReapInOrder ==
    ASSUME ImagesInv, ImagesReap
    PROVE  /\ ImagesInv'
           /\ \A b \in Builds : cloudImage'[b] # cloudImage[b] =>
                 day - image[b].retired >= RetainFor /\ image[b].retired # Never
<1>0. imageSweep \in SweepRecord /\ ProofTypeOK /\ day \in Days
      /\ cloudImage \in [Builds -> {"none", "PROVISIONING", "AVAILABLE", "DEAD"}]
      /\ image \in [Builds -> ImageRow]
  BY DEF ImagesInv, ProofTypeOK, SweepRecord
<1>a. UNCHANGED <<build, standing, image, refusedAtDoor, handedAt, day>>
      /\ imageSweep.pc = "settled"
  BY DEF ImagesReap
<1> DEFINE Reapable == {b \in Builds : image[b].state \in REAPABLE
                                          /\ imageSweep.pending[b] = NoImage}
           Deleted(b) == [image[b] EXCEPT !.state = "deleted"]
           Stamped(b) == [image[b] EXCEPT !.retired = day]
           After(gone) == [b \in Builds |->
                         CASE b \in gone -> Deleted(b)
                           [] b \in Reapable /\ image[b].retired = Never -> Stamped(b)
                           [] OTHER -> imageSweep.pending[b]]
<1>b. PICK gone \in SUBSET Reapable :
         /\ \A b \in gone : Due(b)
         /\ cloudImage' = [b \in Builds |-> IF b \in gone THEN "none" ELSE cloudImage[b]]
         /\ imageSweep' = [imageSweep EXCEPT !.pc = "reaped", !.pending = After(gone)]
  <2>1. PICK failing \in SUBSET Builds :
           LET went == {b \in Reapable : Due(b)} \ failing
           IN  /\ cloudImage' = [b \in Builds |-> IF b \in went THEN "none" ELSE cloudImage[b]]
               /\ imageSweep' = [imageSweep EXCEPT !.pc = "reaped", !.pending = After(went)]
    BY DEF ImagesReap
  <2> DEFINE went == {b \in Reapable : Due(b)} \ failing
  <2>2. went \in SUBSET Reapable /\ \A b \in went : Due(b)
    OBVIOUS
  <2> QED
    BY <2>1, <2>2
<1>c. /\ \A b \in Reapable : b \in Builds /\ image[b].state \in REAPABLE
                              /\ imageSweep.pending[b] = NoImage
  OBVIOUS
<1>d. \A b \in Builds :
        /\ Deleted(b) \in ImageRow /\ Deleted(b).state = "deleted"
        /\ Deleted(b).retired = image[b].retired
        /\ Stamped(b) \in ImageRow /\ Stamped(b).state = image[b].state
        /\ Stamped(b).retired = day
  BY <1>0 DEF ImageRow, ImageState
<1>e. \A b \in Builds :
        \/ b \in gone /\ After(gone)[b] = Deleted(b)
        \/ b \in Reapable /\ After(gone)[b] = Stamped(b)
        \/ b \notin gone /\ After(gone)[b] = imageSweep.pending[b]
  OBVIOUS
<1> HIDE DEF Reapable, Deleted, Stamped
<1>f. After(gone) \in [Builds -> ImageRow]
  <2>1. \A b \in Builds : After(gone)[b] \in ImageRow
    BY <1>c, <1>d, <1>e, <1>0 DEF SweepRecord
  <2>2. After(gone) = [b \in Builds |-> After(gone)[b]]
    OBVIOUS
  <2> QED
    BY <2>1, <2>2
<1> HIDE DEF After
<1>1. imageSweep' \in SweepRecord /\ imageSweep'.pc = "reaped"
      /\ imageSweep'.loaded = imageSweep.loaded /\ imageSweep'.pending = After(gone)
  BY <1>0, <1>b, <1>f DEF SweepRecord
<1>2. \A b \in Builds : After(gone)[b] # NoImage => image[b].state # "none" /\ Retiring(b, After(gone)[b])
  <2> SUFFICES ASSUME NEW b \in Builds, After(gone)[b] # NoImage
               PROVE  image[b].state # "none" /\ Retiring(b, After(gone)[b])
    OBVIOUS
  <2>0. /\ handedAt[b] <= day
        /\ image[b].retired # Never => handedAt[b] <= image[b].retired
    BY DEF ImagesInv, RetiredAfterHanded
  <2>1. CASE b \in gone /\ After(gone)[b] = Deleted(b)
    <3>1. image[b].state \in REAPABLE
      BY <2>1, <1>b, <1>c
    <3> QED
      BY <3>1, <2>0, <2>1, <1>d DEF REAPABLE, Retiring
  <2>2. CASE b \in Reapable /\ After(gone)[b] = Stamped(b)
    <3>1. image[b].state \in REAPABLE
      BY <2>2, <1>c
    <3> QED
      BY <3>1, <2>0, <2>2, <1>d DEF REAPABLE, Retiring
  <2>3. CASE After(gone)[b] = imageSweep.pending[b]
    BY <2>3 DEF ImagesInv, PendingInOrder, SessionRows
  <2> QED
    BY <2>1, <2>2, <2>3, <1>e
<1>3. \A b \in Builds : imageSweep.pending[b] # NoImage => After(gone)[b] # NoImage
  BY <1>b, <1>c, <1>e
<1>4. cloudImage' \in [Builds -> {"none", "PROVISIONING", "AVAILABLE", "DEAD"}]
      /\ \A b \in Builds : cloudImage'[b] # cloudImage[b] => b \in gone
  BY <1>0, <1>b
<1>5. ProofTypeOK' /\ RowsProved' /\ LoadedOrRefused' /\ RetiredAfterHanded'
  BY <1>0, <1>a, <1>1, <1>4 DEF ImagesInv, ProofTypeOK, RowsProved, LoadedOrRefused,
                                SweepRecord, RetiredAfterHanded
<1>6. SessionRows'
  BY <1>a, <1>1, <1>2 DEF ImagesInv, SessionRows
<1>7. PendingInOrder'
  BY <1>a, <1>1, <1>2 DEF PendingInOrder, Retiring
<1>8. StuckHaveVerdict'
  <2>1. \A b \in imageSweep.loaded : b \in Builds
    BY <1>0 DEF SweepRecord
  <2>2. \A b \in imageSweep.loaded : Stuck(b) => After(gone)[b] # NoImage
    BY <2>1, <1>3, <1>a DEF ImagesInv, StuckHaveVerdict
  <2> QED
    BY <2>2, <1>a, <1>1 DEF StuckHaveVerdict, Stuck
<1>9. \A b \in gone : day - image[b].retired >= RetainFor /\ image[b].retired # Never
  BY <1>b DEF Due
<1> QED
  BY <1>4, <1>5, <1>6, <1>7, <1>8, <1>9 DEF ImagesInv

\* ImagesCommit: a row that was withdrawn meanwhile comes back only as refused as it
\* was, and a capture that ran too long is left in no row.
LEMMA CommitInOrder ==
    ASSUME ImagesInv, ImagesCommit
    PROVE  /\ ImagesInv'
           /\ \A b \in imageSweep.loaded : Stuck(b) => image'[b].state # "capturing"
<1> DEFINE Q(b) == imageSweep.pending[b]
           Written(b) == [image[b] EXCEPT !.state = Q(b).state,
                                          !.retired = IF Q(b).retired = Never THEN @
                                                      ELSE Q(b).retired]
<1>0. /\ imageSweep \in SweepRecord /\ day \in Days /\ image \in [Builds -> ImageRow]
      /\ \A b \in Builds : image[b] \in ImageRow /\ Q(b) \in ImageRow
  BY DEF ImagesInv, ProofTypeOK, SweepRecord
<1>1. UNCHANGED <<build, standing, cloudImage, refusedAtDoor, handedAt, day>>
      /\ imageSweep.pc = "reaped" /\ imageSweep' = SweepAsleep
  BY DEF ImagesCommit
<1>2. \A b \in Builds :
        /\ Written(b) \in ImageRow /\ Written(b).state = Q(b).state
        /\ Written(b).retired = IF Q(b).retired = Never THEN image[b].retired ELSE Q(b).retired
  BY <1>0 DEF ImageRow
<1>3. image' = [b \in Builds |-> IF Q(b) = NoImage THEN image[b] ELSE Written(b)]
  BY DEF ImagesCommit
<1> HIDE DEF Written
<1>4. image' \in [Builds -> ImageRow]
  BY <1>0, <1>2, <1>3
<1>5. \A b \in Builds : image'[b] = IF Q(b) = NoImage THEN image[b] ELSE Written(b)
  BY <1>3
<1>6. \A b \in Builds : Q(b) # NoImage => image[b].state # "none" /\ Retiring(b, Q(b))
  BY DEF ImagesInv, SessionRows, PendingInOrder
<1>7. ProofTypeOK'
  BY <1>1, <1>4, SleepIsTyped DEF ImagesInv, ProofTypeOK, SweepRecord
<1>8. RowsProved'
  <2>1. \A b \in Builds : image'[b].state # "none" => image[b].state # "none"
    BY <1>5, <1>6
  <2> QED
    BY <2>1, <1>1 DEF ImagesInv, RowsProved
<1>9. SessionRows' /\ LoadedOrRefused' /\ PendingInOrder' /\ StuckHaveVerdict'
  BY <1>1, SleepIsTyped DEF SessionRows, LoadedOrRefused, PendingInOrder, StuckHaveVerdict
<1>10. RetiredAfterHanded'
  <2> SUFFICES ASSUME NEW b \in Builds
               PROVE  /\ handedAt[b] <= day
                      /\ image'[b].retired # Never =>
                            /\ handedAt[b] <= image'[b].retired
                            /\ image'[b].state \in {"available", "capturing"} =>
                                  b \in refusedAtDoor
    BY <1>1 DEF RetiredAfterHanded
  <2>1. /\ handedAt[b] <= day
        /\ image[b].retired # Never =>
              /\ handedAt[b] <= image[b].retired
              /\ image[b].state \in {"available", "capturing"} => b \in refusedAtDoor
    BY DEF ImagesInv, RetiredAfterHanded
  <2>2. CASE Q(b) = NoImage
    BY <2>1, <2>2, <1>5
  <2>3. CASE Q(b) # NoImage
    <3>1. image'[b] = Written(b) /\ Retiring(b, Q(b))
      BY <2>3, <1>5, <1>6
    <3>2. /\ image'[b].state = Q(b).state
          /\ image'[b].retired = IF Q(b).retired = Never THEN image[b].retired ELSE Q(b).retired
      BY <3>1, <1>2
    <3> HIDE DEF Q
    <3> QED
      BY <3>1, <3>2, <2>1 DEF Retiring
  <2> QED
    BY <2>2, <2>3
<1>11. ASSUME NEW b \in imageSweep.loaded, Stuck(b)
       PROVE  image'[b].state # "capturing"
  <2>1. b \in Builds
    BY <1>0 DEF SweepRecord
  <2>2. Q(b) # NoImage
    BY <1>1, <1>11 DEF ImagesInv, StuckHaveVerdict
  <2>3. image'[b] = Written(b) /\ Retiring(b, Q(b))
    BY <2>1, <2>2, <1>5, <1>6
  <2>4. image'[b].state = Q(b).state
    BY <2>1, <2>3, <1>2
  <2> QED
    BY <2>3, <2>4 DEF Retiring
<1> QED
  BY <1>7, <1>8, <1>9, <1>10, <1>11 DEF ImagesInv

\* Every step keeps the invariant.
LEMMA ImagesInvStep ==
    ASSUME ImagesInv, [ProofNext]_proofVars
    PROVE  ImagesInv'
<1>1. CASE UNCHANGED proofVars
  BY <1>1 DEF proofVars, ImagesInv, ProofTypeOK, RowsProved, SessionRows, RetiredAfterHanded,
     LoadedOrRefused, PendingInOrder, Retiring, StuckHaveVerdict, Stuck
<1>2. CASE DayPasses
  BY <1>2, DayInOrder
<1>3. CASE ImageSweep
  BY <1>3, AskInOrder, ReapInOrder, CommitInOrder, SettleInOrder DEF ImageSweep
<1>4. CASE ProofCrash
  BY <1>4, AskInOrder
<1>5. ASSUME NEW b \in Builds, RunProof(b)
      PROVE  ImagesInv'
  <2>1. CASE KeepImage(b)
    BY <2>1, KeepImageInOrder
  <2>2. CASE ~KeepImage(b)
    <3>1. KeepsImages /\ ProofTypeOK' /\ RowsProved'
      BY <1>5, <2>2, RunsKeepRows DEF RunProof, ImagesInv
    <3>2. UNCHANGED <<image, imageSweep, handedAt, day>> /\ refusedAtDoor \subseteq refusedAtDoor'
      BY <3>1 DEF KeepsImages
    <3> QED
      BY <3>1, <3>2, ImagesRestInOrder DEF ImagesInv
  <2> QED
    BY <2>1, <2>2
<1>6. ASSUME NEW b \in Builds, RefuseRecipe(b)
      PROVE  ImagesInv'
  <2>1. UNCHANGED <<image, imageSweep, handedAt, day>> /\ refusedAtDoor \subseteq refusedAtDoor'
        /\ UNCHANGED <<build, standing, cloudImage>> /\ refusedAtDoor' = refusedAtDoor \cup {b}
    BY <1>6 DEF RefuseRecipe
  <2>2. ProofTypeOK' /\ RowsProved'
    BY <2>1 DEF ImagesInv, ProofTypeOK, RowsProved
  <2> QED
    BY <2>1, <2>2, ImagesRestInOrder DEF ImagesInv
<1>7. ASSUME NEW b \in Builds, CloudFinishes(b)
      PROVE  ImagesInv'
  <2>1. UNCHANGED <<image, imageSweep, handedAt, day>> /\ refusedAtDoor \subseteq refusedAtDoor'
        /\ UNCHANGED <<build, standing, refusedAtDoor>>
    BY <1>7 DEF CloudFinishes
  <2>2. cloudImage' \in [Builds -> {"none", "PROVISIONING", "AVAILABLE", "DEAD"}]
    BY <1>7 DEF CloudFinishes, ImagesInv, ProofTypeOK
  <2>3. ProofTypeOK' /\ RowsProved'
    BY <2>1, <2>2 DEF ImagesInv, ProofTypeOK, RowsProved
  <2> QED
    BY <2>1, <2>3, ImagesRestInOrder DEF ImagesInv
<1>8. CASE \E b \in Builds : WithdrawImage(b) \/ HandOut(b)
  BY <1>8, WithdrawInOrder, HandOutInOrder
<1> QED
  BY <1>1, <1>2, <1>3, <1>4, <1>5, <1>6, <1>7, <1>8 DEF ProofNext

\* What each step that touches it does to what was handed out, and to the cloud's images.
LEMMA OnlyHandedByHand ==
    ASSUME ImagesInv, [ProofNext]_proofVars, NEW b \in Builds, handedAt'[b] # handedAt[b]
    PROVE  build[b].healthy /\ b \notin refusedAtDoor
<1>1. PICK c \in Builds : HandOut(c)
  BY DEF ProofNext, proofVars, DayPasses, ImageSweep, ImagesAsk, ImagesReap, ImagesCommit,
     ImagesSettle, ProofCrash, RunProof, RecordProof, PlanProof, ApplyProof, TearDownApplied,
     VerifyProof, KeepImage, DestroyProof, FinishBuild, KeepsImages, RefuseRecipe, WithdrawImage,
     CloudFinishes
<1>2. c = b
  BY <1>1, HandOutInOrder
<1> QED
  BY <1>1, <1>2, HandOutInOrder

LEMMA OnlyReapDeletes ==
    ASSUME ImagesInv, [ProofNext]_proofVars, NEW b \in Builds,
           cloudImage[b] = "AVAILABLE", cloudImage'[b] = "none"
    PROVE  ImagesReap
<1>0. cloudImage \in [Builds -> {"none", "PROVISIONING", "AVAILABLE", "DEAD"}]
  BY DEF ImagesInv, ProofTypeOK
<1>1. ASSUME NEW c \in Builds, KeepImage(c) \/ CloudFinishes(c)
      PROVE  FALSE
  BY <1>0, <1>1 DEF KeepImage, CloudFinishes
<1>2. cloudImage' # cloudImage
  OBVIOUS
<1> QED
  BY <1>1, <1>2
     DEF ProofNext, proofVars, DayPasses, ImageSweep, ImagesAsk, ImagesCommit,
     ImagesSettle, ProofCrash, RunProof, RecordProof, PlanProof, ApplyProof, TearDownApplied,
     VerifyProof, DestroyProof, FinishBuild, KeepsImages, RefuseRecipe, WithdrawImage, HandOut

\* An image that was handed out is deleted only when its grace after that day is over.
LEMMA GraceIsKept ==
    ASSUME ImagesInv, [ProofNext]_proofVars, NEW b \in Builds,
           cloudImage[b] = "AVAILABLE", cloudImage'[b] = "none", handedAt[b] # Never
    PROVE  day - handedAt[b] >= RetainFor
<1>1. ImagesReap /\ cloudImage'[b] # cloudImage[b]
  BY OnlyReapDeletes
<1>2. day - image[b].retired >= RetainFor /\ image[b].retired # Never
  BY <1>1, ReapInOrder
<1>3. handedAt[b] <= image[b].retired
  BY <1>2 DEF ImagesInv, RetiredAfterHanded
<1>4. day \in Int /\ image[b].retired \in Int /\ handedAt[b] \in Int /\ RetainFor \in Int
  <2>1. /\ day \in Days /\ image[b] \in ImageRow /\ handedAt[b] \in Days \cup {Never}
    BY DEF ImagesInv, ProofTypeOK
  <2>2. image[b].retired \in Days \cup {Never}
    BY <2>1 DEF ImageRow
  <2>3. RetainFor \in Int
    BY ProofBuildAssumption
  <2> QED
    BY <2>1, <2>2, <2>3, DaysAndNever
<1> QED
  BY <1>2, <1>3, <1>4

\* The variables of proof builds and golden images keep their types.
THEOREM ProofTypeCorrect == ProofSpec => []ProofTypeOK
<1>1. ImagesInv => ProofTypeOK
  BY DEF ImagesInv
<1> QED
  BY <1>1, ImagesInvInit, ImagesInvStep, PTL DEF ProofSpec

\* Nothing is handed to a request whose machine did not verify, or whose recipe the
\* door refused, whatever state a sweep wrote over the row.
THEOREM HandedOutIsProved == ProofSpec => HandedOnlyProved
<1>1. ImagesInv /\ [ProofNext]_proofVars =>
        [\A b \in Builds : handedAt'[b] # handedAt[b] =>
            build[b].healthy /\ b \notin refusedAtDoor]_proofVars
  BY OnlyHandedByHand
<1> QED
  BY <1>1, ImagesInvInit, ImagesInvStep, PTL DEF ProofSpec, HandedOnlyProved

\* An image a request was handed stays in the cloud for its grace, through withdrawals,
\* rows a late sweep brings back and sweeps that stop half way.
THEOREM HandedImageStays == ProofSpec => HandedImageSurvives
<1>1. ImagesInv /\ [ProofNext]_proofVars =>
        [\A b \in Builds :
            cloudImage[b] = "AVAILABLE" /\ cloudImage'[b] = "none" /\ handedAt[b] # Never
               => day - handedAt[b] >= RetainFor]_proofVars
  BY GraceIsKept
<1> QED
  BY <1>1, ImagesInvInit, ImagesInvStep, PTL DEF ProofSpec, HandedImageSurvives

\* A sweep that commits leaves no capture open that it loaded and that ran too long.
THEOREM NoCaptureForEver == ProofSpec => CapturesEnd
<1>1. ImagesInv /\ [ProofNext]_proofVars =>
        [ImagesCommit => \A b \in imageSweep.loaded :
            Stuck(b) => image'[b].state # "capturing"]_proofVars
  BY CommitInOrder
<1> QED
  BY <1>1, ImagesInvInit, ImagesInvStep, PTL DEF ProofSpec, CapturesEnd

\* A proof that ends without saying so leaves nothing running.  Each step keeps this by
\* itself: what a failed apply may have left is torn down, or the build is abandoned.
LEMMA NothingLeftStep ==
    ASSUME ProofTypeOK, NothingLeftQuietly, [ProofNext]_proofVars
    PROVE  NothingLeftQuietly'
<1>0. build \in [Builds -> BuildRecord] /\ standing \subseteq Builds
  BY DEF ProofTypeOK, BuildRecord
<1>1. CASE UNCHANGED <<build, standing>>
  BY <1>1 DEF NothingLeftQuietly
<1>2. ASSUME NEW b \in Builds, NEW pc \in {"recorded", "planned", "applied", "undone", "kept", "down"}
                                           \cup Finished,
             Step(b, pc), standing' \subseteq standing \cup {b},
             b \in standing' => pc \in {"applied", "undone", "verified", "kept", "abandoned"}
      PROVE  NothingLeftQuietly'
  BY <1>0, <1>2, StepMovesOne DEF NothingLeftQuietly
<1>3. ASSUME NEW b \in Builds, RunProof(b)
      PROVE  NothingLeftQuietly'
  <2>1. CASE RecordProof(b)
    BY <2>1, <1>2 DEF RecordProof, NothingLeftQuietly
  <2>2. CASE PlanProof(b)
    <3>1. PICK pc \in {"refused", "failed", "planned"} : Step(b, pc)
      BY <2>2 DEF PlanProof
    <3>2. standing' = standing /\ b \notin standing
      BY <2>2 DEF PlanProof, NothingLeftQuietly
    <3> QED
      BY <3>1, <3>2, <1>2 DEF Finished
  <2>3. CASE ApplyProof(b)
    <3>1. PICK pc \in {"applied", "undone"} :
             Step(b, pc) /\ standing' \subseteq standing \cup {b}
      BY <2>3 DEF ApplyProof
    <3> QED
      BY <3>1, <1>2 DEF Finished
  <2>4. CASE VerifyProof(b)
    <3>1. standing' = standing /\ build'[b].pc = "verified"
          /\ \A c \in Builds : c # b => build'[c] = build[c]
      BY <2>4, <1>0 DEF VerifyProof
    <3> QED
      BY <3>1, <1>0 DEF NothingLeftQuietly
  <2>5. CASE KeepImage(b)
    BY <2>5, <1>2 DEF KeepImage
  <2>6. CASE DestroyProof(b)
    <3>1. PICK pc \in {"down", "abandoned"} :
             /\ Step(b, pc) /\ standing' \subseteq standing \cup {b}
             /\ pc = "down" => standing' = standing \ {b}
      BY <2>6 DEF DestroyProof
    <3> QED
      BY <3>1, <1>2 DEF Finished
  <2>7. CASE FinishBuild(b)
    <3>1. PICK pc \in {"passed", "failed"} : Step(b, pc)
      BY <2>7 DEF FinishBuild
    <3>2. standing' = standing /\ b \notin standing
      BY <2>7 DEF FinishBuild, NothingLeftQuietly
    <3> QED
      BY <3>1, <3>2, <1>2 DEF Finished
  <2>8. CASE TearDownApplied(b)
    <3>1. PICK pc \in {"failed", "abandoned"} :
             /\ Step(b, pc) /\ standing' \subseteq standing \cup {b}
             /\ pc = "failed" => standing' = standing \ {b}
      BY <2>8 DEF TearDownApplied
    <3> QED
      BY <3>1, <1>2 DEF Finished
  <2> QED
    BY <1>3, <2>1, <2>2, <2>3, <2>4, <2>5, <2>6, <2>7, <2>8 DEF RunProof
<1> QED
  BY <1>1, <1>3 DEF ProofNext, proofVars, DayPasses, ImageSweep, ImagesAsk, ImagesReap,
     ImagesCommit, ImagesSettle, ProofCrash, RefuseRecipe, WithdrawImage, HandOut, CloudFinishes

\* However the calls of a proof build fail and whatever answer is lost, only a build that
\* says it was abandoned, or one still under way, has something standing.
THEOREM NothingIsLeftQuietly == ProofSpec => []NothingLeftQuietly
<1>1. ProofInit => NothingLeftQuietly
  BY DEF ProofInit, NothingLeftQuietly
<1> QED
  BY <1>1, ProofTypeCorrect, NothingLeftStep, PTL DEF ProofSpec
----------------------------------------------------------------------------
(* Placement *)

\* Hosts that share a stack out among them: each has a name of its own and components
\* of its own, together they carry all of it, and a managed one is offered as managed.
SharedOut(hosts, S) ==
    /\ \A g, h \in hosts : g # h => g.id # h.id /\ g.carries \cap h.carries = {}
    /\ UNION {h.carries : h \in hosts} = Placeable(S)
    /\ \A h \in hosts : h.mode = "managed" => \A c \in h.carries : "managed" \in Facts[c].modes

HostsTyped(hosts) == \A h \in hosts : h.mode \in HostModes /\ h.carries # {}

\* What may be recorded is shared out, unless it runs in containers, which no cluster
\* takes from a handover.
RecordedShared ==
    current # NoPlacement =>
        \/ \E h \in current.layout.hosts : h.mode = "container"
        \/ SharedOut(current.layout.hosts, current.of)

PlacedInv == PlacementTypeOK /\ RecordedShared /\ BuiltAsPlaced

\* The services that are managed and one machine for the rest.
LEMMA ManagedSharesOut ==
    ASSUME NEW S \in Stacks, NEW chosen \in ManagedLayout(Placeable(S))
    PROVE  SharedOut(chosen.hosts, S) /\ HostsTyped(chosen.hosts) /\ chosen.key \in Keys
<1> DEFINE W == Placeable(S)
           M == Supports(W, "managed")
           rest == W \ M
           services == {Host(<<"managed", c>>, "managed", {c}) : c \in M}
           host == Host(<<"host", "1">>, "vm", rest)
<1>1. M \subseteq W /\ \A c \in M : "managed" \in Facts[c].modes
  BY DEF Supports
<1>2. chosen = Layout("managed", services \cup (IF rest = {} THEN {} ELSE {host}))
  BY DEF ManagedLayout
<1>3. chosen.key = "managed"
      /\ chosen.hosts = services \cup (IF rest = {} THEN {} ELSE {host})
  BY <1>2 DEF Layout
<1>4. \A h \in services : \E c \in M : h.id = <<"managed", c>> /\ h.mode = "managed"
                                      /\ h.carries = {c} /\ h = Host(<<"managed", c>>, "managed", {c})
  BY DEF Host
<1>5. host.id = <<"host", "1">> /\ host.mode = "vm" /\ host.carries = rest
  BY DEF Host
<1>6. \A c \in M : \E h \in services : h.carries = {c}
  <2> SUFFICES ASSUME NEW c \in M PROVE \E h \in services : h.carries = {c}
    OBVIOUS
  <2>1. Host(<<"managed", c>>, "managed", {c}) \in services
    OBVIOUS
  <2>2. Host(<<"managed", c>>, "managed", {c}).carries = {c}
    BY DEF Host
  <2> QED
    BY <2>1, <2>2
<1> HIDE DEF W, M, services, host
<1>7. \A h \in chosen.hosts : h \in services \/ (h = host /\ rest # {})
  BY <1>3
<1>8. ASSUME NEW g \in chosen.hosts, NEW h \in chosen.hosts, g # h
      PROVE  g.id # h.id /\ g.carries \cap h.carries = {}
  <2>1. CASE g \in services /\ h \in services
    <3>1. PICK c \in M : g.id = <<"managed", c>> /\ g.carries = {c}
                         /\ g = Host(<<"managed", c>>, "managed", {c})
      BY <1>4, <2>1
    <3>2. PICK d \in M : h.id = <<"managed", d>> /\ h.carries = {d}
                         /\ h = Host(<<"managed", d>>, "managed", {d})
      BY <1>4, <2>1
    <3>3. c # d
      BY <1>8, <3>1, <3>2
    <3> QED
      BY <3>1, <3>2, <3>3
  <2>2. CASE g = host /\ h \in services
    <3>1. PICK c \in M : h.id = <<"managed", c>> /\ h.carries = {c}
      BY <1>4, <2>2
    <3>2. <<"host", "1">> # <<"managed", c>> /\ c \notin rest
      OBVIOUS
    <3> QED
      BY <3>1, <3>2, <2>2, <1>5
  <2>3. CASE g \in services /\ h = host
    <3>1. PICK c \in M : g.id = <<"managed", c>> /\ g.carries = {c}
      BY <1>4, <2>3
    <3>2. <<"host", "1">> # <<"managed", c>> /\ c \notin rest
      OBVIOUS
    <3> QED
      BY <3>1, <3>2, <2>3, <1>5
  <2> QED
    BY <1>7, <1>8, <2>1, <2>2, <2>3
<1>9. UNION {h.carries : h \in chosen.hosts} = W
  <2>1. ASSUME NEW h \in chosen.hosts PROVE h.carries \subseteq W
    <3>1. CASE h \in services
      <4>1. PICK c \in M : h.carries = {c}
        BY <1>4, <3>1
      <4> QED BY <1>1, <4>1
    <3>2. CASE h = host
      BY <1>5, <3>2 DEF rest
    <3> QED BY <1>7, <3>1, <3>2
  <2>2. ASSUME NEW c \in W PROVE \E h \in chosen.hosts : c \in h.carries
    <3>1. CASE c \in M
      BY <3>1, <1>3, <1>6
    <3>2. CASE c \notin M
      BY <3>2, <1>3, <1>5
    <3> QED
      BY <3>1, <3>2
  <2> QED
    BY <2>1, <2>2
<1>10. \A h \in chosen.hosts : h.mode \in {"managed", "vm"} /\ h.carries # {}
  BY <1>1, <1>4, <1>5, <1>7
<1>11. \A h \in chosen.hosts : h.mode = "managed" => \A c \in h.carries : "managed" \in Facts[c].modes
  <2>1. \A h \in services : \A c \in h.carries : "managed" \in Facts[c].modes
    BY <1>1, <1>4
  <2>2. "vm" # "managed"
    OBVIOUS
  <2> QED BY <1>5, <1>7, <2>1, <2>2
<1>12. SharedOut(chosen.hosts, S)
  BY <1>8, <1>9, <1>11 DEF SharedOut, W
<1>13. HostsTyped(chosen.hosts)
  BY <1>10 DEF HostsTyped, HostModes
<1> QED
  BY <1>3, <1>12, <1>13 DEF Keys

\* One machine for everything.
LEMMA ConsolidatedSharesOut ==
    ASSUME NEW S \in Stacks, NEW chosen \in ConsolidatedLayout(Placeable(S))
    PROVE  SharedOut(chosen.hosts, S) /\ HostsTyped(chosen.hosts) /\ chosen.key \in Keys
<1> DEFINE W == Placeable(S)
           host == Host(<<"host", "1">>, "vm", W)
<1>1. chosen = Layout("consolidated", {host}) /\ ~(Cardinality(W) < 2)
  BY DEF ConsolidatedLayout
<1>2. chosen.key = "consolidated" /\ chosen.hosts = {host}
  BY <1>1 DEF Layout
<1>3. host.mode = "vm" /\ host.carries = W
  BY DEF Host
<1>4. W # {}
  BY <1>1, FS_EmptySet
<1> HIDE DEF W, host
<1>5. UNION {h.carries : h \in chosen.hosts} = W
  BY <1>2, <1>3
<1>6. \A g, h \in chosen.hosts : g = h
  BY <1>2
<1>7. \A h \in chosen.hosts : h.mode = "vm" /\ h.carries # {}
  BY <1>2, <1>3, <1>4
<1>8. SharedOut(chosen.hosts, S)
  BY <1>5, <1>6, <1>7 DEF SharedOut, W
<1> QED
  BY <1>2, <1>7, <1>8 DEF HostsTyped, HostModes, Keys

\* A machine for each.
LEMMA SeparatedSharesOut ==
    ASSUME NEW S \in Stacks, NEW chosen \in SeparatedLayout(Placeable(S))
    PROVE  SharedOut(chosen.hosts, S) /\ HostsTyped(chosen.hosts) /\ chosen.key \in Keys
<1> DEFINE W == Placeable(S)
           machines == {Host(<<"host", c>>, "vm", {c}) : c \in W}
<1>1. chosen = Layout("separated", machines)
  BY DEF SeparatedLayout
<1>2. chosen.key = "separated" /\ chosen.hosts = machines
  BY <1>1 DEF Layout
<1>3. \A h \in machines : \E c \in W : h.id = <<"host", c>> /\ h.mode = "vm"
                                      /\ h.carries = {c} /\ h = Host(<<"host", c>>, "vm", {c})
  BY DEF Host
<1>4. \A c \in W : \E h \in machines : h.carries = {c}
  <2> SUFFICES ASSUME NEW c \in W PROVE \E h \in machines : h.carries = {c}
    OBVIOUS
  <2>1. Host(<<"host", c>>, "vm", {c}) \in machines
    OBVIOUS
  <2>2. Host(<<"host", c>>, "vm", {c}).carries = {c}
    BY DEF Host
  <2> QED
    BY <2>1, <2>2
<1> HIDE DEF W, machines
<1>5. ASSUME NEW g \in machines, NEW h \in machines, g # h
      PROVE  g.id # h.id /\ g.carries \cap h.carries = {}
  <2>1. PICK c \in W : g.id = <<"host", c>> /\ g.carries = {c} /\ g = Host(<<"host", c>>, "vm", {c})
    BY <1>3
  <2>2. PICK d \in W : h.id = <<"host", d>> /\ h.carries = {d} /\ h = Host(<<"host", d>>, "vm", {d})
    BY <1>3
  <2>3. c # d
    BY <1>5, <2>1, <2>2
  <2> QED
    BY <2>1, <2>2, <2>3
<1>6. UNION {h.carries : h \in chosen.hosts} = W
  <2>1. ASSUME NEW h \in chosen.hosts PROVE h.carries \subseteq W
    BY <1>2, <1>3
  <2>2. ASSUME NEW c \in W PROVE \E h \in chosen.hosts : c \in h.carries
    BY <1>2, <1>4
  <2> QED
    BY <2>1, <2>2
<1> QED
  <2>1. \A h \in chosen.hosts : h.mode = "vm" /\ h.carries # {}
    BY <1>2, <1>3
  <2>2. SharedOut(chosen.hosts, S)
    BY <1>2, <1>5, <1>6, <2>1 DEF SharedOut, W
  <2> QED BY <1>2, <2>1, <2>2 DEF HostsTyped, HostModes, Keys

\* On a cluster something runs in a container.
LEMMA ClusterContains ==
    ASSUME NEW S \in Stacks, NEW chosen \in ClusterLayouts(S)
    PROVE  /\ \E h \in chosen.hosts : h.mode = "container"
           /\ HostsTyped(chosen.hosts) /\ chosen.key \in Keys
<1> DEFINE W == Role(S, "workload")
           clusters == Role(S, "cluster")
           own == Host(<<"new", "cluster">>, "managed", clusters)
           pods == {Host(<<"cluster", c>>, "container", {c}) : c \in W}
<1>1. PICK c \in W : TRUE
  BY DEF ClusterLayouts, Supports
<1>2. clusters # {}
  BY DEF ClusterLayouts
<1>3. \/ chosen = Layout("existing-cluster", ClusterHosts(W, <<"oke", "1">>))
      \/ chosen = Layout("new-cluster", {own} \cup pods)
  BY DEF ClusterLayouts
<1>4. own.mode = "managed" /\ own.carries = clusters
  BY DEF Host
<1>5. /\ \A h \in pods : h.mode = "container" /\ h.carries # {}
      /\ \E h \in pods : TRUE
  <2>1. \A d \in W : /\ Host(<<"cluster", d>>, "container", {d}).mode = "container"
                     /\ Host(<<"cluster", d>>, "container", {d}).carries = {d}
    BY DEF Host
  <2>2. Host(<<"cluster", c>>, "container", {c}) \in pods
    OBVIOUS
  <2> QED
    BY <2>1, <2>2
<1> DEFINE tenants == ClusterHosts(W, <<"oke", "1">>)
<1>6. /\ \A h \in tenants : h.mode = "container" /\ h.carries # {}
      /\ \E h \in tenants : TRUE
  <2>1. \A d \in W : /\ Host(<<"oke", "1">>, "container", {d}).mode = "container"
                     /\ Host(<<"oke", "1">>, "container", {d}).carries = {d}
    BY DEF Host
  <2>2. tenants = {Host(<<"oke", "1">>, "container", {d}) : d \in W}
    BY DEF ClusterHosts
  <2>3. Host(<<"oke", "1">>, "container", {c}) \in tenants
    BY <2>2
  <2> QED
    BY <2>1, <2>2, <2>3
<1> HIDE DEF W, clusters, own, pods, tenants
<1>7. \/ chosen.key = "existing-cluster" /\ chosen.hosts = tenants
      \/ chosen.key = "new-cluster" /\ chosen.hosts = {own} \cup pods
  <2>1. CASE chosen = Layout("existing-cluster", tenants)
    BY <2>1 DEF Layout
  <2>2. CASE chosen = Layout("new-cluster", {own} \cup pods)
    BY <2>2 DEF Layout
  <2> QED
    BY <1>3, <2>1, <2>2 DEF tenants
<1> QED
  BY <1>2, <1>4, <1>5, <1>6, <1>7 DEF HostsTyped, HostModes, Keys

\* A layout that was drawn and judged is shared out.
LEMMA JudgedSharesOut ==
    ASSUME NEW S \in Stacks, NEW hosts, Judged(S, hosts)
    PROVE  SharedOut(hosts, S) /\ HostsTyped(hosts)
<1>1. \A h \in hosts : h.carries \subseteq S
  BY DEF Judged, Placeable
<1>2. \A h \in hosts : \A c \in h.carries : h.mode \in Facts[c].modes
  BY <1>1 DEF Judged
<1>3. \A c \in S : Facts[c].modes \subseteq HostModes
  BY PlacementConstants DEF Catalogued
<1>4. HostsTyped(hosts)
  BY <1>1, <1>2, <1>3 DEF HostsTyped, Judged
<1> QED
  BY <1>2, <1>4 DEF SharedOut, Judged

\* What the builders offer is shared out, or runs in containers.
LEMMA OptionsShareOut ==
    ASSUME NEW S \in Stacks, NEW chosen \in Options(S)
    PROVE  /\ HostsTyped(chosen.hosts) /\ chosen.key \in Keys
           /\ (\E h \in chosen.hosts : h.mode = "container") \/ SharedOut(chosen.hosts, S)
BY ManagedSharesOut, ConsolidatedSharesOut, SeparatedSharesOut, ClusterContains DEF Options

\* Whatever is recorded is typed, and shared out among the stack it is recorded for.
LEMMA RecordShares ==
    ASSUME PlacementTypeOK, NEW chosen, Resolvable(chosen), RecordLayout(chosen)
    PROVE  /\ current'.version \in 0 .. MaxVersion /\ current'.of \in Stacks \cup {{}}
           /\ \A h \in current'.layout.hosts : h.mode \in HostModes /\ h.carries # {}
           /\ current'.layout.key \in Keys /\ RecordedShared'
<1>1. /\ current'.version = current.version + 1 /\ current'.of = asked
      /\ current'.layout = chosen /\ current.version < MaxVersion
  BY DEF RecordLayout
<1>2. asked \in Stacks /\ current.version \in 0 .. MaxVersion
  BY DEF PlacementTypeOK
<1>3. HostsTyped(chosen.hosts) /\ chosen.key \in Keys
      /\ ((\E h \in chosen.hosts : h.mode = "container") \/ SharedOut(chosen.hosts, asked))
  BY <1>2, JudgedSharesOut, OptionsShareOut DEF Resolvable, Keys
<1>4. current'.version \in 0 .. MaxVersion
  BY <1>1, <1>2, PlacementConstants
<1> QED
  BY <1>1, <1>2, <1>3, <1>4 DEF HostsTyped, RecordedShared

\* A layout the orchestrator does not refuse, with the units it makes of it: two hosts of
\* one kind have workspaces of their own, whatever blueprints are certified.
LEMMA UnitsBuiltAsPlaced ==
    ASSUME NEW hosts, NEW S, NEW certified, SharedOut(hosts, S),
           Buildable(hosts, certified),
           handed' = [of |-> S,
                      units |-> {[workspace |-> Workspace(h, hosts, certified),
                                  mode |-> h.mode, carries |-> h.carries,
                                  installs |-> Installs(h, certified)] : h \in hosts}]
    PROVE  BuiltAsPlaced'
<1> DEFINE Unit(h) == [workspace |-> Workspace(h, hosts, certified),
                       mode |-> h.mode, carries |-> h.carries,
                       installs |-> Installs(h, certified)]
<1>1. /\ handed'.of = S
      /\ \A u \in handed'.units : \E h \in hosts : u = Unit(h)
      /\ \A h \in hosts : Unit(h) \in handed'.units
  OBVIOUS
<1>2. \A h \in hosts : /\ Unit(h).workspace = Workspace(h, hosts, certified)
                      /\ Unit(h).mode = h.mode /\ Unit(h).carries = h.carries
  OBVIOUS
<1> HIDE DEF Unit
<1>3. ASSUME NEW g \in hosts, NEW h \in hosts,
             Workspace(g, hosts, certified) = Workspace(h, hosts, certified)
      PROVE  g = h
  <2> SUFFICES ASSUME g # h PROVE FALSE
    OBVIOUS
  <2> DEFINE k == KindOf(g, certified)
             l == KindOf(h, certified)
  <2> HIDE DEF k, l
  <2>1. g.id # h.id
    BY DEF SharedOut
  <2>2. Workspace(g, hosts, certified) \in {<<k>>, <<k, g.id>>}
        /\ Workspace(h, hosts, certified) \in {<<l>>, <<l, h.id>>}
    BY DEF Workspace, k, l
  <2>3. k = l
    BY <1>3, <2>2
  <2>4. Workspace(g, hosts, certified) = <<k, g.id>>
    BY <2>3 DEF Workspace, k, l
  <2>5. Workspace(h, hosts, certified) = <<k, h.id>>
    BY <2>3 DEF Workspace, k, l
  <2>6. <<k, g.id>>[2] = g.id /\ <<k, h.id>>[2] = h.id
    OBVIOUS
  <2> QED
    BY <1>3, <2>1, <2>4, <2>5, <2>6
<1>4. \A u, v \in handed'.units : u.workspace = v.workspace => u = v
  <2> SUFFICES ASSUME NEW u \in handed'.units, NEW v \in handed'.units,
                      u.workspace = v.workspace
               PROVE  u = v
    OBVIOUS
  <2>1. PICK g \in hosts : u = Unit(g)
    BY <1>1
  <2>2. PICK h \in hosts : v = Unit(h)
    BY <1>1
  <2> QED BY <1>2, <1>3, <2>1, <2>2
<1>5. \A u, v \in handed'.units : u # v => u.carries \cap v.carries = {}
  <2> SUFFICES ASSUME NEW u \in handed'.units, NEW v \in handed'.units, u # v
               PROVE  u.carries \cap v.carries = {}
    OBVIOUS
  <2>1. PICK g \in hosts : u = Unit(g)
    BY <1>1
  <2>2. PICK h \in hosts : v = Unit(h)
    BY <1>1
  <2>3. g.carries \cap h.carries = {}
    BY <2>1, <2>2 DEF SharedOut
  <2> QED BY <1>2, <2>1, <2>2, <2>3
<1>6. handed'.units # {} => UNION {u.carries : u \in handed'.units} = Placeable(S)
  <2>1. UNION {u.carries : u \in handed'.units} = UNION {h.carries : h \in hosts}
    <3>1. \A u \in handed'.units : \E h \in hosts : u.carries = h.carries
      BY <1>1, <1>2
    <3>2. \A h \in hosts : \E u \in handed'.units : u.carries = h.carries
      BY <1>1, <1>2
    <3> QED
      BY <3>1, <3>2
  <2> QED
    BY <2>1 DEF SharedOut
<1>7. \A u \in handed'.units : \A c \in u.carries : u.mode \in Facts[c].modes
  <2> SUFFICES ASSUME NEW h \in hosts, NEW c \in h.carries PROVE h.mode \in Facts[c].modes
    BY <1>1, <1>2
  <2> QED
    BY DEF SharedOut, Buildable, Sized
<1> QED
  BY <1>1, <1>4, <1>5, <1>6, <1>7 DEF BuiltAsPlaced

LEMMA PlacedInvInit == PlacementInit => PlacedInv
<1> SUFFICES ASSUME PlacementInit PROVE PlacedInv
  OBVIOUS
<1>1. NoPlacement.version = 0 /\ NoPlacement.layout.hosts = {} /\ NoPlacement.of = {}
      /\ NoLayout.key = "none" /\ NoPlacement.layout.key = "none" /\ NoUnits.units = {} /\ NoUnits.of = {}
  BY DEF NoPlacement, NoLayout, NoUnits
<1>2. 0 \in 0 .. MaxVersion
  BY PlacementConstants
<1>3. PlacementTypeOK
  BY <1>1, <1>2 DEF PlacementInit, PlacementTypeOK
<1>4. RecordedShared /\ BuiltAsPlaced
  BY <1>1 DEF PlacementInit, RecordedShared, BuiltAsPlaced
<1> QED
  BY <1>3, <1>4 DEF PlacedInv

LEMMA PlacedInvStep ==
    ASSUME PlacedInv, [PlacementNext]_placementVars
    PROVE  PlacedInv'
<1>0. PlacementTypeOK /\ RecordedShared /\ BuiltAsPlaced
  BY DEF PlacedInv
<1>n. NoLayout.key = "none" /\ \A hosts : Layout("custom", hosts).key = "custom"
  BY DEF NoLayout, Layout
<1>1. CASE UNCHANGED placementVars
  BY <1>1 DEF placementVars, PlacedInv, PlacementTypeOK, RecordedShared, BuiltAsPlaced
<1>2. ASSUME UNCHANGED <<current, handed>>
      PROVE  RecordedShared' /\ BuiltAsPlaced'
  BY <1>0, <1>2 DEF RecordedShared, BuiltAsPlaced
<1>3. CASE EditForm
  BY <1>0, <1>2, <1>3, <1>n DEF EditForm, PlacedInv, PlacementTypeOK
<1>4. CASE WorkOut
  <2>1. choice'.key \in Keys \cup {"none"}
    BY <1>0, <1>4, <1>n, OptionsShareOut DEF WorkOut, PlacementTypeOK, Keys
  <2> QED
    BY <1>0, <1>2, <1>4, <2>1 DEF WorkOut, PlacedInv, PlacementTypeOK
<1>5. CASE Resume
  <2>1. choice'.key \in Keys \cup {"none"}
    BY <1>0, <1>5, <1>n DEF Resume, PlacementTypeOK, Keys
  <2> QED
    BY <1>0, <1>2, <1>5, <2>1 DEF Resume, PlacedInv, PlacementTypeOK
<1>6. CASE PressSubmit
  BY <1>0, <1>2, <1>6 DEF PressSubmit, PlacedInv, PlacementTypeOK
<1>7. CASE PressResolves
  <2>1. CASE Resolvable(choice) /\ RecordLayout(choice) /\ press' = "placed" /\ UNCHANGED choice
    <3>1. BuiltAsPlaced'
      BY <1>0, <1>7 DEF PressResolves, BuiltAsPlaced
    <3> QED
      BY <1>0, <1>7, <2>1, <3>1, RecordShares DEF PressResolves, PlacedInv, PlacementTypeOK
  <2>2. CASE UNCHANGED current
    <3>1. choice'.key \in Keys \cup {"none"} /\ press' \in {"idle", "saved", "placed"}
      BY <1>0, <1>7, <1>n DEF PressResolves, PlacementTypeOK
    <3> QED
      BY <1>0, <1>2, <1>7, <2>2, <3>1 DEF PressResolves, PlacedInv, PlacementTypeOK
  <2> QED
    BY <1>7, <2>1, <2>2 DEF PressResolves
<1>8. CASE PressEnds
  BY <1>0, <1>2, <1>8, <1>n DEF PressEnds, PlacedInv, PlacementTypeOK
<1>9. CASE ResolveNow
  <2>1. PICK chosen : Resolvable(chosen) /\ RecordLayout(chosen)
    BY <1>9 DEF ResolveNow
  <2>2. BuiltAsPlaced'
    BY <1>0, <1>9 DEF ResolveNow, BuiltAsPlaced
  <2> QED
    BY <1>0, <1>9, <2>1, <2>2, RecordShares DEF ResolveNow, PlacedInv, PlacementTypeOK
<1>10. CASE Handover
  <2>1. PICK certified \in SUBSET asked :
           LET hosts == current.layout.hosts
           IN  /\ Buildable(hosts, certified)
               /\ handed' = [of |-> current.of,
                             units |-> {[workspace |-> Workspace(h, hosts, certified),
                                         mode |-> h.mode, carries |-> h.carries,
                                         installs |-> Installs(h, certified)] : h \in hosts}]
    BY <1>10 DEF Handover
  <2>2. SharedOut(current.layout.hosts, current.of)
    BY <1>0, <1>10, <2>1 DEF Handover, RecordedShared, Buildable
  <2>3. BuiltAsPlaced' /\ handed'.of = current.of
    BY <2>1, <2>2, UnitsBuiltAsPlaced
  <2>4. RecordedShared'
    BY <1>0, <1>10 DEF Handover, RecordedShared
  <2> QED
    BY <1>0, <1>10, <2>3, <2>4 DEF Handover, PlacedInv, PlacementTypeOK
<1> QED
  BY <1>1, <1>3, <1>4, <1>5, <1>6, <1>7, <1>8, <1>9, <1>10 DEF PlacementNext

\* The variables of placement keep their types: no host is recorded without a mode the
\* builders know, or empty.
THEOREM PlacementTypeCorrect == PlacementSpec => []PlacementTypeOK
<1>1. PlacedInv => PlacementTypeOK
  BY DEF PlacedInv
<1> QED
  BY <1>1, PlacedInvInit, PlacedInvStep, PTL DEF PlacementSpec

\* What the orchestrator accepts is what was placed, for every catalogue, every drawn
\* layout and whatever is certified in between: each component on one machine or service,
\* in a mode of its own, and each of these in a Terraform state of its own.
THEOREM BuiltIsPlaced == PlacementSpec => []BuiltAsPlaced
<1>1. PlacedInv => BuiltAsPlaced
  BY DEF PlacedInv
<1> QED
  BY <1>1, PlacedInvInit, PlacedInvStep, PTL DEF PlacementSpec
----------------------------------------------------------------------------
(* FirstBoot *)

\* A machine whose first boot is not over has said nothing yet, and what it could not
\* install it has noted.
NotYetSaid ==
    \A m \in Machines :
        /\ step[m] # "over" => told[m] = "none"
        /\ step[m] \in {"start", "look", "watch", "finish"} /\ fit[m] = "absent" => m \in noted
        /\ step[m] = "finish" /\ Part[m] \in Declaring => m \in noted \/ "serving" \in saw[m]

\* A machine of its kind, whose report has its report's name, was replaced or is well.
Vouched(m) ==
    \E n \in Machines : /\ kind[n] = kind[m] /\ ReportName(n) = ReportName(m)
                        /\ n \in replaced \/ Evidence(n)

\* A report that says all is well is one a machine of that name made of itself, or of one
\* that was replaced.
ReportsAreEvidence == \A m \in Machines : object[ReportName(m)] = "ok" => Vouched(m)

BootInv == BootTypeOK /\ NotYetSaid /\ ReportsAreEvidence /\ ProvisionedOnEvidence

Stands(n) == n \in replaced \/ Evidence(n)

\* A report's name tells its kind: a node's is its own, another machine's its kind's.
LEMMA NamesTellKinds ==
    ASSUME BootTypeOK, NEW m \in Machines, NEW n \in Machines
    PROVE  /\ ReportName(m) \in Names /\ kind[m] \in Kinds
           /\ ReportName(m) = ReportName(n) => kind[m] = kind[n]
<1>1. kind \in KindSets
  BY DEF BootTypeOK
<1>2. kind[m] \notin Machines /\ kind[n] \notin Machines
  BY <1>1, FirstBootConstants
<1>3. kind[m] \in Kinds
  BY <1>1 DEF Kinds
<1> QED
  BY <1>2, <1>3 DEF ReportName, Names

LEMMA BootInvInit == BootInit => BootInv
<1> SUFFICES ASSUME BootInit PROVE BootInv
  OBVIOUS
<1>1. 1 \in 1 .. MaxAttempts
  BY FirstBootConstants
<1>2. BootTypeOK
  BY <1>1 DEF BootInit, BootTypeOK, Steps
<1>3. NotYetSaid /\ ProvisionedOnEvidence
  BY DEF BootInit, NotYetSaid, ProvisionedOnEvidence
<1>4. ReportsAreEvidence
  BY <1>2, NamesTellKinds DEF BootInit, ReportsAreEvidence
<1> QED
  BY <1>2, <1>3, <1>4 DEF BootInv

\* While a machine's first boot is not over, what it does takes no evidence away; nor does
\* one that replaces it.
LEMMA EvidenceStands ==
    ASSUME NotYetSaid, NEW m \in Machines, step[m] # "over" \/ m \in replaced',
           replaced \subseteq replaced',
           \A n \in Machines : n # m => told'[n] = told[n] /\ saw'[n] = saw[n],
           NEW n \in Machines, Stands(n)
    PROVE  Stands(n)'
<1>1. CASE n = m
  BY <1>1 DEF Stands, Evidence, NotYetSaid
<1>2. CASE n # m
  BY <1>2 DEF Stands, Evidence
<1> QED
  BY <1>1, <1>2

\* So what the reports and the request say stays true while they say the same.
LEMMA ClaimsStand ==
    ASSUME ReportsAreEvidence, ProvisionedOnEvidence, UNCHANGED <<kind, reporting, object>>,
           request' = request \/ request' # "provisioned",
           \A n \in Machines : Stands(n) => Stands(n)'
    PROVE  ReportsAreEvidence' /\ ProvisionedOnEvidence'
<1>1. \A n \in Machines : ReportName(n)' = ReportName(n)
  BY DEF ReportName
<1>2. ASSUME NEW m \in Machines, Vouched(m) PROVE Vouched(m)'
  <2>1. PICK n \in Machines : kind[n] = kind[m] /\ ReportName(n) = ReportName(m) /\ Stands(n)
    BY <1>2 DEF Vouched, Stands
  <2>2. Stands(n)'
    BY <2>1
  <2> QED
    BY <1>1, <2>1, <2>2 DEF Vouched, Stands
<1>3. ReportsAreEvidence'
  BY <1>1, <1>2 DEF ReportsAreEvidence
<1>4. ProvisionedOnEvidence'
  <2> SUFFICES ASSUME request' = "provisioned", NEW m \in Machines, kind[m] \in reporting
               PROVE  \E n \in Machines : kind'[n] = kind'[m] /\ Stands(n)'
    BY DEF ProvisionedOnEvidence, Stands
  <2>1. PICK n \in Machines : kind[n] = kind[m] /\ Stands(n)
    BY DEF ProvisionedOnEvidence, Stands
  <2> QED
    BY <2>1
<1> QED
  BY <1>3, <1>4

\* The first boot up to its report: what could not be had, and what never served, is noted.
LEMMA InsideKeepsBoot ==
    ASSUME BootInv, NEW m \in Machines,
           Install(m) \/ StartServices(m) \/ Look(m) \/ WatchInside(m) \/ SoftwareMoves(m)
             \/ Dies(m)
    PROVE  BootInv'
<1>0. /\ BootTypeOK /\ NotYetSaid /\ ReportsAreEvidence /\ ProvisionedOnEvidence
      /\ step \in [Machines -> Steps] /\ fit \in [Machines -> {"absent", "wrong", "right"}]
      /\ run \in [Machines -> {"stopped", "up", "serving"}] /\ noted \subseteq Machines
      /\ saw \in [Machines -> SUBSET {"there", "serving"}]
  BY DEF BootInv, BootTypeOK
<1>1. /\ step[m] # "over" /\ UNCHANGED <<kind, reporting, object, request, attempts, told, replaced>>
      /\ \A n \in Machines : n # m => saw'[n] = saw[n]
  BY <1>0 DEF Install, StartServices, Look, WatchInside, SoftwareMoves, Dies, Outside, Sees
<1>2. /\ step' \in [Machines -> Steps] /\ fit' \in [Machines -> {"absent", "wrong", "right"}]
      /\ run' \in [Machines -> {"stopped", "up", "serving"}] /\ noted' \subseteq Machines
      /\ saw' \in [Machines -> SUBSET {"there", "serving"}] /\ NotYetSaid'
  <2>1. CASE Install(m)
    BY <2>1, <1>0 DEF Install, Notes, Outside, NotYetSaid, Steps
  <2>2. CASE StartServices(m)
    <3>1. CASE kind[m] \in reporting
      <4>1. /\ step[m] = "start" /\ step' = [step EXCEPT ![m] = "look"]
            /\ UNCHANGED <<fit, Outside>> /\ noted' \in {noted, noted \cup {m}}
        BY <2>2, <3>1 DEF StartServices, Notes
      <4>2. run' \in [Machines -> {"stopped", "up", "serving"}]
        BY <2>2, <3>1, <1>0 DEF StartServices
      <4> QED
        BY <4>1, <4>2, <1>0 DEF Outside, NotYetSaid, Steps
    <3>2. CASE kind[m] \notin reporting
      <4>1. /\ step' = [step EXCEPT ![m] = "over"] /\ fit' = [fit EXCEPT ![m] = "absent"]
            /\ run' = [run EXCEPT ![m] = "stopped"] /\ noted' = noted \ {m}
            /\ UNCHANGED Outside
        BY <2>2, <3>2 DEF StartServices, Silent
      <4> QED
        BY <4>1, <1>0 DEF Outside, NotYetSaid, Steps
    <3> QED
      BY <3>1, <3>2
  <2>3. CASE Look(m)
    <3>1. /\ step[m] = "look" /\ step' = [step EXCEPT ![m] = "watch"]
          /\ UNCHANGED <<fit, run, Outside>> /\ noted' \in {noted, noted \cup {m}}
      BY <2>3 DEF Look, Notes
    <3> QED
      BY <3>1, <1>0 DEF Outside, NotYetSaid, Steps
  <2>4. CASE WatchInside(m)
    <3>1. /\ step[m] = "watch" /\ step' = [step EXCEPT ![m] = "finish"]
          /\ UNCHANGED <<fit, run, told>> /\ noted' \in {noted, noted \cup {m}}
      BY <2>4 DEF WatchInside, Notes
    <3>2. /\ Part[m] \in Declaring /\ run[m] # "serving" => m \in noted'
          /\ Part[m] \in Declaring /\ run[m] = "serving" => saw' = [saw EXCEPT ![m] = @ \cup {"serving"}]
          /\ saw' = [saw EXCEPT ![m] = @ \cup {"serving"}] \/ saw' = [saw EXCEPT ![m] = @ \cup {}]
      BY <2>4 DEF WatchInside, Notes, Sees, Serving
    <3>3. saw' \in [Machines -> SUBSET {"there", "serving"}]
          /\ \A n \in Machines : n # m => saw'[n] = saw[n]
      BY <3>2, <1>0
    <3>4. Part[m] \in Declaring => m \in noted' \/ "serving" \in saw'[m]
      BY <3>2, <1>0
    <3> QED
      BY <3>1, <3>3, <3>4, <1>0 DEF NotYetSaid, Steps
  <2>5. CASE SoftwareMoves(m)
    <3>1. UNCHANGED <<step, fit, noted, Outside>>
      BY <2>5 DEF SoftwareMoves
    <3>2. run' \in [Machines -> {"stopped", "up", "serving"}]
      BY <2>5, <1>0 DEF SoftwareMoves
    <3> QED
      BY <3>1, <3>2, <1>0 DEF Outside, NotYetSaid
  <2>6. CASE Dies(m)
    <3>1. /\ step' = [step EXCEPT ![m] = "over"] /\ fit' = [fit EXCEPT ![m] = "absent"]
          /\ run' = [run EXCEPT ![m] = "stopped"] /\ noted' = noted \ {m}
          /\ saw' = [saw EXCEPT ![m] = {}] /\ UNCHANGED told
      BY <2>6 DEF Dies, Silent
    <3> QED
      BY <3>1, <1>0 DEF NotYetSaid, Steps
  <2> QED
    BY <2>1, <2>2, <2>3, <2>4, <2>5, <2>6
<1>3. BootTypeOK'
  BY <1>0, <1>1, <1>2 DEF BootTypeOK, Names, Kinds
<1>4. \A n \in Machines : Stands(n) => Stands(n)'
  BY <1>0, <1>1, EvidenceStands
<1>5. ReportsAreEvidence' /\ ProvisionedOnEvidence'
  BY <1>0, <1>1, <1>4, ClaimsStand
<1> QED
  BY <1>2, <1>3, <1>5 DEF BootInv

\* A report that finds nothing wrong was made of software that is there and, where that
\* can be told, serves.
LEMMA GoodReport ==
    ASSUME BootTypeOK, NotYetSaid, NEW m \in Machines, step[m] = "finish", m \notin noted,
           ~NothingListens(m), told'[m] = "ok",
           saw'[m] = saw[m] \cup (There(m) \cup Serving(m))
    PROVE  Evidence(m)'
<1>1. run[m] \in {"stopped", "up", "serving"} /\ fit[m] # "absent"
  BY DEF BootTypeOK, NotYetSaid
<1>2. "there" \in saw'[m]
  BY <1>1 DEF There
<1>3. Part[m] \in Declaring => "serving" \in saw'[m]
  BY DEF NotYetSaid
<1>4. Part[m] \in Ported /\ How[Part[m]] # "container" => "serving" \in saw'[m]
  BY DEF NothingListens, Serving
<1> QED
  BY <1>2, <1>3, <1>4 DEF Evidence

LEMMA ReportKeepsBoot ==
    ASSUME BootInv, NEW m \in Machines, Report(m)
    PROVE  BootInv'
<1>0. /\ BootTypeOK /\ NotYetSaid /\ ReportsAreEvidence /\ ProvisionedOnEvidence
      /\ step \in [Machines -> Steps] /\ fit \in [Machines -> {"absent", "wrong", "right"}]
      /\ run \in [Machines -> {"stopped", "up", "serving"}] /\ noted \subseteq Machines
      /\ saw \in [Machines -> SUBSET {"there", "serving"}]
      /\ object \in [Names -> {"none", "ok", "bad"}] /\ told \in [Machines -> {"none", "ok", "bad"}]
  BY DEF BootInv, BootTypeOK
<1>n. ReportName(m) \in Names
  BY <1>0, NamesTellKinds
<1>1. /\ step[m] = "finish" /\ step' = [step EXCEPT ![m] = "over"]
      /\ fit' = [fit EXCEPT ![m] = "absent"] /\ run' = [run EXCEPT ![m] = "stopped"]
      /\ noted' = noted \ {m} /\ UNCHANGED <<kind, reporting, request, attempts, replaced>>
  BY DEF Report, Silent
<1>2. \/ UNCHANGED <<object, told>> /\ saw' = [saw EXCEPT ![m] = {}]
      \/ \E says \in {"ok", "bad"} :
            /\ object' = [object EXCEPT ![ReportName(m)] = says]
            /\ told' = [told EXCEPT ![m] = says]
            /\ saw' = [saw EXCEPT ![m] = @ \cup (There(m) \cup Serving(m))]
            /\ says = "ok" => m \notin noted /\ ~NothingListens(m)
  BY DEF Report, Sees
<1>3. /\ saw' \in [Machines -> SUBSET {"there", "serving"}]
      /\ object' \in [Names -> {"none", "ok", "bad"}] /\ told' \in [Machines -> {"none", "ok", "bad"}]
      /\ \A n \in Machines : n # m => told'[n] = told[n] /\ saw'[n] = saw[n]
  <2>1. There(m) \cup Serving(m) \subseteq {"there", "serving"}
    BY DEF There, Serving
  <2> QED
    BY <2>1, <1>0, <1>2
<1>4. /\ step' \in [Machines -> Steps] /\ fit' \in [Machines -> {"absent", "wrong", "right"}]
      /\ run' \in [Machines -> {"stopped", "up", "serving"}] /\ noted' \subseteq Machines
  BY <1>0, <1>1 DEF Steps
<1>5. BootTypeOK'
  BY <1>0, <1>1, <1>3, <1>4 DEF BootTypeOK, Names, Kinds
<1>6. NotYetSaid'
  BY <1>0, <1>1, <1>3, <1>4 DEF NotYetSaid
<1>7. \A n \in Machines : Stands(n) => Stands(n)'
  BY <1>0, <1>1, <1>3, EvidenceStands
<1>8. ReportsAreEvidence' /\ ProvisionedOnEvidence'
  <2>1. CASE UNCHANGED <<object, told>>
    BY <2>1, <1>0, <1>1, <1>7, ClaimsStand
  <2>2. ASSUME NEW says \in {"ok", "bad"},
               object' = [object EXCEPT ![ReportName(m)] = says],
               told' = [told EXCEPT ![m] = says],
               saw' = [saw EXCEPT ![m] = @ \cup (There(m) \cup Serving(m))],
               says = "ok" => m \notin noted /\ ~NothingListens(m)
        PROVE  ReportsAreEvidence' /\ ProvisionedOnEvidence'
    <3>1. /\ object'[ReportName(m)] = says /\ told'[m] = says
          /\ saw'[m] = saw[m] \cup (There(m) \cup Serving(m))
          /\ \A name \in Names : name # ReportName(m) => object'[name] = object[name]
      BY <2>2, <1>0, <1>n
    <3>2. says = "ok" => Stands(m)'
      BY <2>2, <3>1, <1>0, <1>1, GoodReport DEF Stands
    <3>3. \A n \in Machines : ReportName(n)' = ReportName(n)
      BY <1>1 DEF ReportName
    <3>4. ASSUME NEW n \in Machines, object'[ReportName(n)] = "ok"
          PROVE  \E w \in Machines : kind[w] = kind[n] /\ ReportName(w) = ReportName(n) /\ Stands(w)'
      <4>1. CASE ReportName(n) = ReportName(m)
        <5>1. kind[m] = kind[n]
          BY <4>1, <1>0, NamesTellKinds
        <5> QED
          BY <5>1, <4>1, <3>1, <3>2, <3>4
      <4>2. CASE ReportName(n) # ReportName(m)
        <5>1. ReportName(n) \in Names
          BY <1>0, NamesTellKinds
        <5>2. object[ReportName(n)] = "ok"
          BY <5>1, <4>2, <3>1, <3>4
        <5>3. PICK w \in Machines : kind[w] = kind[n] /\ ReportName(w) = ReportName(n) /\ Stands(w)
          BY <5>2, <1>0 DEF ReportsAreEvidence, Vouched, Stands
        <5> QED
          BY <5>3, <1>7
      <4> QED
        BY <4>1, <4>2
    <3>5. ReportsAreEvidence'
      <4> SUFFICES ASSUME NEW n \in Machines, object'[ReportName(n)'] = "ok" PROVE Vouched(n)'
        BY DEF ReportsAreEvidence
      <4>1. PICK w \in Machines : kind[w] = kind[n] /\ ReportName(w) = ReportName(n) /\ Stands(w)'
        BY <3>3, <3>4
      <4> QED
        BY <4>1, <3>3, <1>1 DEF Vouched, Stands
    <3>6. ProvisionedOnEvidence'
      <4> SUFFICES ASSUME request' = "provisioned", NEW n \in Machines, kind[n] \in reporting
                   PROVE  \E w \in Machines : kind'[w] = kind'[n] /\ Stands(w)'
        BY <1>1 DEF ProvisionedOnEvidence, Stands
      <4>1. PICK w \in Machines : kind[w] = kind[n] /\ Stands(w)
        BY <1>0, <1>1 DEF ProvisionedOnEvidence, Stands
      <4> QED
        BY <4>1, <1>1, <1>7
    <3> QED
      BY <3>5, <3>6
  <2> QED
    BY <1>2, <2>1, <2>2
<1> QED
  BY <1>5, <1>6, <1>8 DEF BootInv

\* A machine that is built has said nothing; one in another's place is known to be.
LEMMA BuildKeepsBoot ==
    ASSUME BootInv, NEW m \in Machines, BuildMachine(m)
    PROVE  BootInv'
<1>0. /\ BootTypeOK /\ NotYetSaid /\ ReportsAreEvidence /\ ProvisionedOnEvidence
      /\ step \in [Machines -> Steps] /\ replaced \subseteq Machines
      /\ saw \in [Machines -> SUBSET {"there", "serving"}]
      /\ told \in [Machines -> {"none", "ok", "bad"}]
  BY DEF BootInv, BootTypeOK
<1>1. /\ step[m] \in {"none", "over"} /\ step' = [step EXCEPT ![m] = "install"]
      /\ told' = [told EXCEPT ![m] = "none"] /\ saw' = [saw EXCEPT ![m] = {}]
      /\ replaced' = IF step[m] = "none" THEN replaced ELSE replaced \cup {m}
      /\ UNCHANGED <<fit, run, noted, kind, reporting, object, request, attempts>>
  BY DEF BuildMachine, Inside
<1>2. /\ step' \in [Machines -> Steps] /\ told' \in [Machines -> {"none", "ok", "bad"}]
      /\ saw' \in [Machines -> SUBSET {"there", "serving"}] /\ replaced' \subseteq Machines
      /\ step'[m] = "install" /\ told'[m] = "none"
      /\ \A n \in Machines : n # m =>
            step'[n] = step[n] /\ told'[n] = told[n] /\ saw'[n] = saw[n]
  BY <1>0, <1>1 DEF Steps
<1>3. BootTypeOK'
  BY <1>0, <1>1, <1>2 DEF BootTypeOK, Names, Kinds
<1>4. NotYetSaid'
  BY <1>0, <1>1, <1>2 DEF NotYetSaid
<1>5. \A n \in Machines : Stands(n) => Stands(n)'
  BY <1>0, <1>1, <1>2, EvidenceStands
<1>6. ReportsAreEvidence' /\ ProvisionedOnEvidence'
  BY <1>0, <1>1, <1>5, ClaimsStand
<1> QED
  BY <1>3, <1>4, <1>6 DEF BootInv

\* The portal: nothing on the machines moves, and it calls the request provisioned only
\* when every kind it asked could be read and reported that all is well.
LEMMA PortalKeepsBoot ==
    ASSUME BootInv, ApplyReturns \/ RetryApply \/ VerifyEnds \/ VerifyGivesUp
    PROVE  BootInv'
<1>0. BootTypeOK /\ NotYetSaid /\ ReportsAreEvidence /\ ProvisionedOnEvidence
  BY DEF BootInv
<1>1. UNCHANGED <<kind, reporting, step, Inside, object, told, saw, replaced>>
  BY DEF ApplyReturns, RetryApply, VerifyEnds, VerifyGivesUp
<1>2. /\ request' \in {"applying", "apply-failed", "verifying", "provisioned", "verify-failed"}
      /\ attempts' \in 1 .. MaxAttempts
  <2>1. attempts \in 1 .. MaxAttempts /\ MaxAttempts \in Nat
    BY <1>0, FirstBootConstants DEF BootTypeOK
  <2>2. attempts' = attempts \/ (attempts < MaxAttempts /\ attempts' = attempts + 1)
    BY DEF ApplyReturns, RetryApply, VerifyEnds, VerifyGivesUp
  <2>3. attempts' \in 1 .. MaxAttempts
    BY <2>1, <2>2
  <2> QED
    BY <2>3 DEF ApplyReturns, RetryApply, VerifyEnds, VerifyGivesUp
<1>3. BootTypeOK' /\ NotYetSaid'
  BY <1>0, <1>1, <1>2 DEF BootTypeOK, NotYetSaid, Inside, Names, Kinds
<1>4. \A n \in Machines : Stands(n)' = Stands(n)
  BY <1>1 DEF Stands, Evidence
<1>5. CASE request' = request \/ request' # "provisioned"
  BY <1>0, <1>1, <1>3, <1>4, <1>5, ClaimsStand DEF BootInv
<1>6. CASE request' = "provisioned" /\ request # "provisioned"
  <2>1. PICK readable \in SUBSET reporting : AllOk(readable)
    BY <1>6 DEF ApplyReturns, RetryApply, VerifyEnds, VerifyGivesUp
  <2>2. ASSUME NEW m \in Machines, kind[m] \in reporting
        PROVE  \E n \in Machines : kind[n] = kind[m] /\ Stands(n)
    <3>1. ReportsFor(kind[m]) = {"ok"}
      BY <2>1, <2>2 DEF AllOk
    <3>2. PICK n \in Machines : kind[n] = kind[m] /\ object[ReportName(n)] = "ok"
      BY <3>1 DEF ReportsFor
    <3>3. Vouched(n)
      BY <3>2, <1>0 DEF ReportsAreEvidence
    <3> QED
      BY <3>2, <3>3 DEF Vouched, Stands
  <2>3. ProvisionedOnEvidence'
    BY <2>2, <1>1, <1>4 DEF ProvisionedOnEvidence, Stands
  <2>4. ReportsAreEvidence'
    <3>1. \A n \in Machines : ReportName(n)' = ReportName(n)
      BY <1>1 DEF ReportName
    <3> QED
      BY <3>1, <1>0, <1>1, <1>4 DEF ReportsAreEvidence, Vouched, Stands
  <2> QED
    BY <2>3, <2>4, <1>3 DEF BootInv
<1> QED
  BY <1>5, <1>6

LEMMA BootInvStep ==
    ASSUME BootInv, [BootNext]_bootVars
    PROVE  BootInv'
<1>1. CASE UNCHANGED bootVars
  BY <1>1 DEF bootVars, BootInv, BootTypeOK, NotYetSaid, ReportsAreEvidence, Vouched,
     ReportName, Evidence, ProvisionedOnEvidence
<1>2. CASE BootNext
  BY <1>2, InsideKeepsBoot, ReportKeepsBoot, BuildKeepsBoot, PortalKeepsBoot
     DEF BootNext, FirstBoot
<1> QED
  BY <1>1, <1>2

\* The variables of the first boots keep their types.
THEOREM BootTypeCorrect == BootSpec => []BootTypeOK
<1>1. BootInv => BootTypeOK
  BY DEF BootInv
<1> QED
  BY <1>1, BootInvInit, BootInvStep, PTL DEF BootSpec

\* A request is called provisioned only if of every kind of machine it is made of, and that
\* is asked to report, one found its software there and, where that can be told, serving,
\* or replaced one that had reported: for any machines, kinds, components and settings.
THEOREM ProvisionedIsEvident == BootSpec => []ProvisionedOnEvidence
<1>1. BootInv => ProvisionedOnEvidence
  BY DEF BootInv
<1> QED
  BY <1>1, BootInvInit, BootInvStep, PTL DEF BootSpec

----------------------------------------------------------------------------
(* The parts together *)

\* Where a part rests, it is as at its beginning.
LEMMA BuildingBegins ==
    BuildingInit => /\ FormInit /\ IntakeInit /\ GatesInit /\ PlacementInit
                    /\ PlansInit /\ BootInit /\ ProofInit
<1>1. FormRests => FormInit
  BY BuildingConstants DEF FormRests, FormInit
<1>2. GatesRest => GatesInit
  BY BuildingConstants DEF GatesRest, GatesInit
<1>3. PlacementRests => PlacementInit
  BY BuildingConstants DEF PlacementRests, PlacementInit
<1>4. BootRests => BootInit
  BY BuildingConstants DEF BootRests, BootInit
<1> QED BY <1>1, <1>2, <1>3, <1>4
        DEF BuildingInit, Rest, IntakeRests, PlansRest, ProofRests

\* One part moves as it does alone, and the others not at all.
LEMMA BuildingMoves ==
    ASSUME [BuildingNext]_buildingVars
    PROVE  /\ [FormNext]_formVars /\ [IntakeNext]_intakeVars /\ [GatesNext]_gateVars
           /\ [PlacementNext]_placementVars /\ [PlansNext]_planVars /\ [BootNext]_bootVars
           /\ [ProofNext]_proofVars
<1>1. CASE UNCHANGED buildingVars
  BY <1>1 DEF buildingVars, formVars, intakeVars, gateVars, placementVars, planVars, bootVars,
              proofVars
<1>2. CASE BuildingNext /\ InForm
  <2>1. FormNext
    BY <1>2 DEF BuildingNext, InForm, InIntake, InGates, InPlacement, InPlans, InBoot, InProof,
                FormNext
  <2> QED BY <1>2, <2>1 DEF InForm
<1>3. CASE BuildingNext /\ InIntake
  <2>1. IntakeNext
    BY <1>3 DEF BuildingNext, InForm, InIntake, InGates, InPlacement, InPlans, InBoot, InProof,
                IntakeNext
  <2> QED BY <1>3, <2>1 DEF InIntake
<1>4. CASE BuildingNext /\ InGates
  <2>1. GatesNext
    BY <1>4 DEF BuildingNext, InForm, InIntake, InGates, InPlacement, InPlans, InBoot, InProof,
                GatesNext
  <2> QED BY <1>4, <2>1 DEF InGates
<1>5. CASE BuildingNext /\ InPlacement
  <2>1. PlacementNext
    BY <1>5 DEF BuildingNext, InForm, InIntake, InGates, InPlacement, InPlans, InBoot, InProof,
                PlacementNext
  <2> QED BY <1>5, <2>1 DEF InPlacement
<1>6. CASE BuildingNext /\ InPlans
  <2>1. PlansNext
    BY <1>6 DEF BuildingNext, InForm, InIntake, InGates, InPlacement, InPlans, InBoot, InProof,
                PlansNext, CallHandled
  <2> QED BY <1>6, <2>1 DEF InPlans
<1>7. CASE BuildingNext /\ InBoot
  <2>1. BootNext
    BY <1>7 DEF BuildingNext, InForm, InIntake, InGates, InPlacement, InPlans, InBoot, InProof,
                BootNext, FirstBoot
  <2> QED BY <1>7, <2>1 DEF InBoot
<1>8. CASE BuildingNext /\ InProof
  <2>1. ProofNext
    BY <1>8 DEF BuildingNext, InForm, InIntake, InGates, InPlacement, InPlans, InBoot, InProof,
                ProofNext, ImageSweep, RunProof
  <2> QED BY <1>8, <2>1 DEF InProof
<1> QED BY <1>1, <1>2, <1>3, <1>4, <1>5, <1>6, <1>7, <1>8 DEF BuildingNext

\* The inductive invariants of the parts, side by side.
Sound == /\ FormInv /\ IntakeInv /\ GatesInv /\ PlacedInv /\ PInv /\ BootInv /\ ImagesInv
         /\ NothingLeftQuietly

\* They hold of all the parts together.
THEOREM BuildingCorrect == BuildingSpec => []Sound
<1>1. BuildingInit => Sound
  BY BuildingBegins, FormConstants, FormStarts, IntakeInvInit, GatesInvInit, PlacedInvInit, PInvInit,
     BootInvInit, ImagesInvInit DEF Sound, ProofInit, NothingLeftQuietly
<1>2. Sound /\ [BuildingNext]_buildingVars => Sound'
  <2> SUFFICES ASSUME Sound, [BuildingNext]_buildingVars PROVE Sound'
    OBVIOUS
  <2>1. FormInv' /\ IntakeInv' /\ GatesInv'
    BY BuildingMoves, FormConstants, FormStep, IntakeInvStep, GatesInvStep DEF Sound
  <2>2. PlacedInv' /\ PInv' /\ BootInv'
    BY BuildingMoves, PlacedInvStep, PInvStep, BootInvStep DEF Sound
  <2>3. ImagesInv' /\ NothingLeftQuietly'
    BY BuildingMoves, ImagesInvStep, NothingLeftStep DEF Sound, ImagesInv
  <2> QED BY <2>1, <2>2, <2>3 DEF Sound
<1> QED BY <1>1, <1>2, PTL DEF BuildingSpec

\* The variables of all the parts keep their types.
THEOREM BuildingTypeCorrect == BuildingSpec => []BuildingTypeOK
<1>1. Sound => BuildingTypeOK
  BY DEF Sound, FormInv, IntakeInv, GatesInv, PlacedInv, PInv, BootInv, ImagesInv, BuildingTypeOK
<1> QED BY <1>1, BuildingCorrect, PTL

\* Of all the parts together, as TLC checks them of small ones: the server accepts what
\* the form holds, what was sent stays sent, the budget holds, what was handed over was
\* approved by others and is built as it was placed, it is provisioned on evidence, and
\* no proof build leaves anything quietly.
THEOREM BuildingKeeps ==
    BuildingSpec => [](/\ OfferedIsAccepted /\ SentStaysSent /\ BudgetHolds
                       /\ ApprovedByOthers /\ BuiltAsPlaced
                       /\ ProvisionedOnEvidence /\ NothingLeftQuietly)
<1>1. Sound => /\ OfferedIsAccepted /\ SentStaysSent /\ BudgetHolds
               /\ ApprovedByOthers /\ BuiltAsPlaced
               /\ ProvisionedOnEvidence /\ NothingLeftQuietly
  BY HeldIsAccepted DEF Sound, IntakeInv, GatesInv, PlacedInv, BootInv
<1> QED BY <1>1, BuildingCorrect, PTL
=============================================================================

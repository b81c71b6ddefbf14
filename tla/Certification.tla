--------------------------- MODULE Certification ---------------------------
(***************************************************************************)
(* Who may be offered: the certification of a blueprint, taken away by the *)
(* evidence of failed requests or by age, given back by a newer proof.     *)
(*                                                                         *)
(* Four parties write the same row.  The poller's sweep (review, expire,   *)
(* ask the orchestrator, restore, commit) holds its decisions in a session *)
(* that flushes only at commit; the autobuild ladder publishes a draft,    *)
(* proves it and certifies it or takes it back; administrators certify and *)
(* decertify by hand; operators retire a recipe.  Requests finish in any   *)
(* order, and the API may stop between any two steps.                      *)
(***************************************************************************)
EXTENDS Integers, FiniteSets, FiniteSetsExt

CONSTANTS Codes,        \* technologies, on one cloud
          Kinds,        \* resource kinds
          KindOf,       \* the kind a technology's blueprint builds
          Reqs,         \* ids of create requests: a larger id is a newer request
          Proofs,       \* ids of proof builds
          Threshold,    \* CERTIFICATION_FAILURE_THRESHOLD
          Validity,     \* CERTIFICATION_VALIDITY_DAYS
          MaxTime,      \* bound on the clock
          MaxRare       \* bound on restarts, retries and acts of people

ASSUME CertificationAssumption ==
    /\ KindOf \in [Codes -> Kinds]
    /\ Reqs \subseteq Nat \ {0} /\ Proofs \subseteq Nat \ {0}
    /\ Threshold \in Nat \ {0} /\ Validity \in Nat
    /\ MaxTime \in Nat \ {0} /\ MaxRare \in Nat

VARIABLES blueprints,   \* the rows: status and when it was last certified
          requests,     \* what each request says about a kind, and when it said so
          proofs,       \* the certification_proof rows
          proofsBegan,  \* when the first of them started, or 0
          store,        \* the technologies the orchestrator can build
          ladder,       \* the autobuild ladder of each technology
          sweep,        \* the sweep's session
          credits,      \* history: how often a proof brought a blueprint back
          now, rare

certVars == <<blueprints, requests, proofs, proofsBegan, store, ladder, sweep,
              credits, now, rare>>

Time == 0 .. MaxTime
BlueprintStatus == {"none", "certified", "suspended", "stale", "withdrawn"}
ProofStatus == {"unused", "running", "passed", "failed", "refused", "abandoned"}
Row == [status : BlueprintStatus, certAt : Time]
Unloaded == [status |-> "none", certAt |-> 0]
NoProof == 0

CertTypeOK ==
    /\ blueprints \in [Codes -> Row]
    /\ requests \in [Reqs -> [says : {"nothing", "built", "failed"},
                              kind : Kinds, at : Time]]
    /\ proofs \in [Proofs -> [code : Codes, status : ProofStatus, end : Time,
                              refuted : BOOLEAN]]
    /\ proofsBegan \in Time
    /\ store \subseteq Codes
    /\ ladder \in [Codes -> [pc : {"idle", "published", "proving", "proved",
                                   "refused", "takenback"},
                             proof : Proofs \cup {NoProof}, pending : BOOLEAN]]
    /\ sweep \in [pc : {"idle", "asked", "restored"},
                  loaded : [Codes -> Row], row : [Codes -> Row],
                  builds : SUBSET Codes,
                  credit : [Codes -> Proofs \cup {NoProof}],
                  overtaken : SUBSET Codes]
    /\ credits \in [Codes -> [Proofs -> Nat]]
    /\ now \in Time /\ rare \in 0 .. MaxRare

----------------------------------------------------------------------------
(* What the record says *)

\* Requests that say something about a kind; the rest is silence.
Attributable(k) == {r \in Reqs : requests[r].says # "nothing" /\ requests[r].kind = k}

\* outcomes_for_kind: the newest attributable outcomes, by request id.
OutcomesForKind(k, n) ==
    {r \in Attributable(k) : Cardinality({s \in Attributable(k) : s > r}) < n}

ShouldWithdraw(k) ==
    /\ Cardinality(OutcomesForKind(k, Threshold)) = Threshold
    /\ \A r \in OutcomesForKind(k, Threshold) : requests[r].says = "failed"

\* A proof the gate refused is not a proof.
PassingProofs(c) ==
    {p \in Proofs : /\ proofs[p].code = c /\ proofs[p].status = "passed"
                    /\ ~proofs[p].refuted}

LastPassingProof(c) ==
    IF PassingProofs(c) = {} THEN NoProof
    ELSE CHOOSE p \in PassingProofs(c) :
            \A q \in PassingProofs(c) : proofs[q].end <= proofs[p].end

ProofInFlight(c) ==
    \E p \in Proofs : proofs[p].code = c /\ proofs[p].status = "running"

\* newest_failure_at: the time of the failure with the largest request id, or 0.
NewestFailureAt(k) ==
    LET failed == {r \in Attributable(k) : requests[r].says = "failed"}
    IN  IF failed = {} THEN 0 ELSE requests[Max(failed)].at

IsStale(t) == now - t > Validity

\* expire: the last passing proof, or the day proofs began, is too long ago.
Expired(c) ==
    /\ proofsBegan # 0
    /\ IsStale(IF LastPassingProof(c) = NoProof THEN proofsBegan
               ELSE proofs[LastPassingProof(c)].end)

\* Mutant: a proof is compared with the failures only, not with the certification.
NewEvidenceUndated(c, certAt) ==
    LET p == LastPassingProof(c)
    IN  /\ ~ProofInFlight(c) /\ p # NoProof /\ ~IsStale(proofs[p].end)
        /\ proofs[p].end > NewestFailureAt(KindOf[c]) \/ NewestFailureAt(KindOf[c]) = 0

\* restore: everything but the status of the row and the orchestrator's answer.
NewEvidence(c, certAt) ==
    LET p == LastPassingProof(c)
    IN  /\ ~ProofInFlight(c)
        /\ p # NoProof
        /\ ~IsStale(proofs[p].end)
        /\ certAt = 0 \/ proofs[p].end > certAt
        /\ NewestFailureAt(KindOf[c]) = 0
             \/ proofs[p].end > NewestFailureAt(KindOf[c])

SweepIdle ==
    [pc |-> "idle", loaded |-> [c \in Codes |-> Unloaded],
     row |-> [c \in Codes |-> Unloaded], builds |-> {},
     credit |-> [c \in Codes |-> NoProof], overtaken |-> {}]

----------------------------------------------------------------------------
CertInit ==
    /\ store \in SUBSET Codes
    /\ blueprints \in [Codes -> {[status |-> "none", certAt |-> 0]} \cup
                                {[status |-> "certified", certAt |-> 1]}]
    /\ \A c \in Codes : blueprints[c].status = "certified" => c \in store
    /\ requests \in [Reqs -> {[says |-> "nothing", kind |-> k, at |-> 0] : k \in Kinds}]
    /\ proofs \in [Proofs -> {[code |-> c, status |-> "unused", end |-> 0,
                               refuted |-> FALSE] : c \in Codes}]
    /\ proofsBegan = 0
    /\ ladder = [c \in Codes |-> [pc |-> "idle", proof |-> NoProof, pending |-> FALSE]]
    /\ sweep = SweepIdle
    /\ credits = [c \in Codes |-> [p \in Proofs |-> 0]]
    /\ now = 1 /\ rare = 0

Rarely == rare < MaxRare /\ rare' = rare + 1

CertTick ==
    /\ now < MaxTime /\ now' = now + 1
    /\ UNCHANGED <<blueprints, requests, proofs, proofsBegan, store, ladder, sweep, credits, rare>>

\* A create request ends as provisioned (its resource row exists) or as a failure
\* that names the kind it was building.
RequestFinishes(r) ==
    /\ requests[r].says = "nothing"
    /\ \E s \in {"built", "failed"} :
          requests' = [requests EXCEPT ![r].says = s, ![r].at = IF s = "failed" THEN now ELSE 0]
    /\ UNCHANGED <<blueprints, proofs, proofsBegan, store, ladder, sweep, credits, now, rare>>

\* The Approve button plans a failed request anew: it says nothing until it ends again.
RequestRetried(r) ==
    /\ requests[r].says = "failed"
    /\ Rarely
    /\ requests' = [requests EXCEPT ![r].says = "nothing", ![r].at = 0]
    /\ UNCHANGED <<blueprints, proofs, proofsBegan, store, ladder, sweep, credits, now>>

----------------------------------------------------------------------------
(* The ladder *)

SetLadder(c, pc, p) == ladder' = [ladder EXCEPT ![c].pc = pc, ![c].proof = p]

\* A request named an uncertified technology.  A recipe the orchestrator already
\* has is proved as it is; otherwise a draft is written to the store first.
PublishDraft(c) ==
    /\ ladder[c].pc = "idle" /\ blueprints[c].status # "certified"
    /\ \E p \in Proofs : proofs[p].code = c /\ proofs[p].status = "unused"   \* bound
    /\ store' = store \cup {c}
    /\ SetLadder(c, "published", NoProof)
    /\ UNCHANGED <<blueprints, requests, proofs, proofsBegan, sweep, credits, now, rare>>

StartProof(c) ==
    /\ ladder[c].pc = "published"
    /\ \E p \in Proofs :
          /\ proofs[p].status = "unused" /\ proofs[p].code = c
          /\ \A q \in Proofs : q < p => proofs[q].status # "unused"
          /\ proofs' = [proofs EXCEPT ![p].status = "running"]
          /\ proofsBegan' = IF proofsBegan = 0 THEN now ELSE proofsBegan
          /\ SetLadder(c, "proving", p)
    /\ UNCHANGED <<blueprints, requests, store, sweep, credits, now, rare>>

\* Every outcome but "passed" is taken back.
FinishProof(c) ==
    /\ ladder[c].pc = "proving"
    /\ \E s \in {"passed", "failed", "refused", "abandoned"} :
          /\ proofs' = [proofs EXCEPT ![ladder[c].proof].status = s,
                                      ![ladder[c].proof].end = IF s = "passed" THEN now ELSE 0]
          /\ IF s = "passed" THEN SetLadder(c, "proved", ladder[c].proof)
             ELSE SetLadder(c, "refused", NoProof)
    /\ UNCHANGED <<blueprints, requests, proofsBegan, store, sweep, credits, now, rare>>

CertifyFromProof(c) ==
    /\ ladder[c].pc = "proved"
    /\ blueprints' = [blueprints EXCEPT ![c] = [status |-> "certified", certAt |-> now]]
    /\ SetLadder(c, "idle", NoProof)
    /\ UNCHANGED <<requests, proofs, proofsBegan, store, sweep, credits, now, rare>>

\* The first pass of a container recipe, published without ports: what the machine
\* bound is read back, and the draft leaves the store to be written again or dropped.
NarrowContainer(c) ==
    /\ ladder[c].pc = "proved"
    /\ store' = store \ {c}
    /\ SetLadder(c, "idle", NoProof)
    /\ UNCHANGED <<blueprints, requests, proofs, proofsBegan, sweep, credits, now, rare>>

\* The door refuses a recipe whose machine passed: remembered against the proof.
RefuseAtTheDoor(c) ==
    /\ ladder[c].pc = "proved"
    /\ proofs' = [proofs EXCEPT ![ladder[c].proof].refuted = TRUE]
    /\ SetLadder(c, "refused", NoProof)
    /\ UNCHANGED <<blueprints, requests, proofsBegan, store, sweep, credits, now, rare>>

\* take_it_back: the files go at once, the status with the session's next commit.
TakeItBack(c) ==
    /\ ladder[c].pc = "refused"
    /\ store' = store \ {c}
    /\ ladder' = [ladder EXCEPT
          ![c] = [pc |-> "takenback", proof |-> NoProof,
                  pending |-> blueprints[c].status \notin {"none", "withdrawn"}]]
    /\ UNCHANGED <<blueprints, requests, proofs, proofsBegan, sweep, credits, now, rare>>

\* A withdrawal committed while a sweep is under way: the sweep does not know of it.
Withdraw(c) ==
    /\ blueprints' = [blueprints EXCEPT ![c].status = "withdrawn"]
    /\ sweep' = IF sweep.pc = "idle" THEN sweep
                ELSE [sweep EXCEPT !.overtaken = @ \cup {c}]

\* A row deleted meanwhile makes the flush fail: nothing is written.
CommitTakeBack(c) ==
    /\ ladder[c].pc = "takenback"
    /\ IF ladder[c].pending /\ blueprints[c].status # "none"
       THEN Withdraw(c) ELSE UNCHANGED <<blueprints, sweep>>
    /\ ladder' = [ladder EXCEPT ![c].pc = "idle", ![c].pending = FALSE]
    /\ UNCHANGED <<requests, proofs, proofsBegan, store, credits, now, rare>>

----------------------------------------------------------------------------
(* People *)

\* Refused for what the orchestrator does not build.
CertifyByHand(c) ==
    /\ c \in store
    /\ Rarely
    /\ blueprints' = [blueprints EXCEPT ![c] = [status |-> "certified", certAt |-> now]]
    /\ UNCHANGED <<requests, proofs, proofsBegan, store, ladder, sweep, credits, now>>

Decertify(c) ==
    /\ blueprints[c].status # "none"
    /\ Rarely
    /\ blueprints' = [blueprints EXCEPT ![c] = [status |-> "none", certAt |-> 0]]
    /\ UNCHANGED <<requests, proofs, proofsBegan, store, ladder, sweep, credits, now>>

\* Mutant: a status no reader knows.
RetireOddly(c) ==
    /\ blueprints[c].status # "none"
    /\ Rarely
    /\ store' = store \ {c}
    /\ blueprints' = [blueprints EXCEPT ![c].status = "retired"]
    /\ UNCHANGED <<requests, proofs, proofsBegan, ladder, sweep, credits, now>>

\* retire: both files of the recipe and the certification, in one operation.
Retire(c) ==
    /\ blueprints[c].status # "none"
    /\ Rarely
    /\ store' = store \ {c}
    /\ IF blueprints[c].status = "withdrawn"
       THEN UNCHANGED <<blueprints, sweep>> ELSE Withdraw(c)
    /\ UNCHANGED <<requests, proofs, proofsBegan, ladder, credits, now>>

----------------------------------------------------------------------------
(* The sweep: nothing it decides is in the database before SweepCommit *)

Reviewed(c, row) ==
    IF row.status = "certified" /\ ShouldWithdraw(KindOf[c])
    THEN [row EXCEPT !.status = "suspended"] ELSE row

Aged(c, row) ==
    IF row.status = "certified" /\ Expired(c) THEN [row EXCEPT !.status = "stale"] ELSE row

\* The session keeps the rows it has changed; the others it reads again.
Holding(pc, loaded, row) ==
    [sweep EXCEPT !.pc = pc,
                  !.loaded = [c \in Codes |-> IF row[c] = loaded[c] THEN Unloaded ELSE loaded[c]],
                  !.row = [c \in Codes |-> IF row[c] = loaded[c] THEN Unloaded ELSE row[c]]]

\* Then it asks what the orchestrator builds; unreachable is an empty answer.
SweepReview(answered) ==
    /\ sweep.pc = "idle"
    /\ sweep' = [Holding("asked", blueprints,
                         [c \in Codes |-> Aged(c, Reviewed(c, blueprints[c]))])
                 EXCEPT !.builds = IF answered THEN store ELSE {}]
    /\ UNCHANGED <<blueprints, requests, proofs, proofsBegan, store, ladder, credits, now, rare>>

Changed(c) == sweep.row[c] # sweep.loaded[c]

\* Mutant: whatever is not certified is restored.
RestoresWithdrawn(c, row) ==
    /\ row.status \in {"suspended", "stale", "withdrawn"}
    /\ NewEvidence(c, row.certAt)
    /\ c \in sweep.builds

\* Mutant: only what failures suspended is restored.
RestoresSuspended(c, row) ==
    /\ row.status = "suspended"
    /\ NewEvidence(c, row.certAt)
    /\ c \in sweep.builds

Restores(c, row) ==
    /\ row.status \in {"suspended", "stale"}
    /\ NewEvidence(c, row.certAt)
    /\ c \in sweep.builds

\* restore reads the rows again, except those the session has already changed.
SweepRestore ==
    /\ sweep.pc = "asked"
    /\ LET loaded == [c \in Codes |-> IF Changed(c) THEN sweep.loaded[c] ELSE blueprints[c]]
           seen == [c \in Codes |-> IF Changed(c) THEN sweep.row[c] ELSE blueprints[c]]
           back == {c \in Codes : Restores(c, seen[c])}
       IN  sweep' = [Holding("restored", loaded,
                             [c \in Codes |-> IF c \in back
                                 THEN [status |-> "certified", certAt |-> now] ELSE seen[c]])
                     EXCEPT !.builds = {},
                            !.credit = [c \in Codes |-> IF c \in back
                                           THEN LastPassingProof(c) ELSE NoProof]]
    /\ UNCHANGED <<blueprints, requests, proofs, proofsBegan, store, ladder, credits, now, rare>>

\* Only the columns the session changed are written, over whatever is there now.
Written(c) ==
    [status |-> IF sweep.row[c].status # sweep.loaded[c].status
                THEN sweep.row[c].status ELSE blueprints[c].status,
     certAt |-> IF sweep.row[c].certAt # sweep.loaded[c].certAt
                THEN sweep.row[c].certAt ELSE blueprints[c].certAt]

\* A changed row that was deleted meanwhile fails the flush, and the sweep with it.
SweepCommit ==
    /\ sweep.pc = "restored"
    /\ IF \E c \in Codes : Changed(c) /\ blueprints[c].status = "none"
       THEN UNCHANGED <<blueprints, credits>>
       ELSE /\ blueprints' = [c \in Codes |-> IF Changed(c) THEN Written(c) ELSE blueprints[c]]
            /\ credits' = [c \in Codes |-> [p \in Proofs |->
                  credits[c][p] + IF sweep.credit[c] = p THEN 1 ELSE 0]]
    /\ sweep' = SweepIdle
    /\ UNCHANGED <<requests, proofs, proofsBegan, store, ladder, now, rare>>

----------------------------------------------------------------------------
\* The API stops: what no commit has written is gone, and a running proof stays so.
CertCrash ==
    /\ Rarely
    /\ ladder' = [c \in Codes |-> [pc |-> "idle", proof |-> NoProof, pending |-> FALSE]]
    /\ UNCHANGED <<blueprints, requests, proofs, proofsBegan, store, credits, now>>
    /\ sweep' = SweepIdle

Ladder(c) ==
    \/ PublishDraft(c) \/ StartProof(c) \/ FinishProof(c) \/ CertifyFromProof(c)
    \/ NarrowContainer(c) \/ RefuseAtTheDoor(c) \/ TakeItBack(c) \/ CommitTakeBack(c)

Sweep ==
    \/ SweepRestore \/ SweepCommit
    \/ \E answered \in BOOLEAN : SweepReview(answered)

CertNext ==
    \/ CertTick \/ Sweep \/ CertCrash
    \/ \E r \in Reqs : RequestFinishes(r) \/ RequestRetried(r)
    \/ \E c \in Codes : \/ Ladder(c) \/ CertifyByHand(c) \/ Decertify(c) \/ Retire(c)

CertFairness == WF_certVars(Sweep) /\ SF_certVars(SweepReview(TRUE))

CertSpec == CertInit /\ [][CertNext]_certVars /\ CertFairness
----------------------------------------------------------------------------
\* A proof is spent by being used: however suspensions, restorations and the
\* ladder's own certifications interleave, no proof build brings the same
\* blueprint back twice.
ProofSpentOnce == \A c \in Codes : \A p \in Proofs : credits[c][p] <= 1

\* A withdrawn recipe comes back only through a proof of a recipe or a person: no
\* sweep that began after the withdrawal lifts it.  (A sweep that had already
\* loaded the row writes over it.)
WithdrawnStays ==
    [][\A c \in Codes :
          blueprints[c].status = "withdrawn" /\ blueprints'[c].status # "withdrawn" =>
             \/ CertifyFromProof(c) \/ CertifyByHand(c) \/ Decertify(c)
             \/ c \in sweep.overtaken]_certVars

\* Evidence for a suspended or stale blueprint does not lie unheard: a blueprint
\* the sweep could restore is restored, or what made it restorable goes away.
Restorable(c) ==
    /\ blueprints[c].status \in {"suspended", "stale"}
    /\ NewEvidence(c, blueprints[c].certAt) /\ c \in store
EvidenceHeard == \A c \in Codes : Restorable(c) ~> ~Restorable(c)
=============================================================================

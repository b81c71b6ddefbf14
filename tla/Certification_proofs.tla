------------------------- MODULE Certification_proofs -------------------------
(***************************************************************************)
(* Proofs about Certification, for any technologies, kinds, requests and    *)
(* proofs, any threshold and validity: that a proof brings a blueprint back *)
(* at most once, and that a withdrawal is not lifted by a sweep that began  *)
(* after it.  Both rest on dates: a row that was brought back by a proof is *)
(* dated at or after that proof's end, and so is what a sweep under way     *)
(* holds to be written over it.                                             *)
(***************************************************************************)
EXTENDS Certification, WellFoundedInduction, TLAPS

\* A row that is there has been certified once, and says when.
Dated == \A c \in Codes : blueprints[c].status # "none" => blueprints[c].certAt > 0

\* No proof ends in the future.
EndsPast == now > 0 /\ \A p \in Proofs : proofs[p].end <= now

\* What the ladder waits for is running.
LadderWaits ==
    \A c \in Codes : ladder[c].pc = "proving" =>
        /\ ladder[c].proof \in Proofs
        /\ proofs[ladder[c].proof].status = "running" /\ proofs[ladder[c].proof].code = c

\* A proof that brought a blueprint back ended before the row's date, for as long as the
\* row is there; and it has ended for good.
SpentBefore ==
    \A c \in Codes : \A p \in Proofs : credits[c][p] > 0 =>
        /\ proofs[p].status = "passed"
        /\ blueprints[c].status # "none" => blueprints[c].certAt >= proofs[p].end

IdleIsIdle == sweep.pc = "idle" => sweep = SweepIdle

\* What a sweep under way has changed of a row.  Until it restores, only certified rows
\* lose their status; what it will write is dated after every proof spent so far; and a
\* status it changed is not over a withdrawal, unless that came later.
HeldIsDated ==
    \A c \in Codes : Changed(c) =>
        /\ sweep.row[c].status \in {"certified", "suspended", "stale"}
        /\ sweep.row[c].certAt > 0
        /\ \A p \in Proofs : credits[c][p] > 0 => sweep.row[c].certAt >= proofs[p].end
        /\ sweep.pc = "asked" => /\ sweep.loaded[c].status = "certified"
                                 /\ sweep.row[c].certAt = sweep.loaded[c].certAt
        /\ sweep.row[c].status # sweep.loaded[c].status /\ blueprints[c].status = "withdrawn"
              => c \in sweep.overtaken

\* A proof the sweep is about to spend is a new one, and the date will be written.
CreditIsNew ==
    \A c \in Codes : \A p \in Proofs : sweep.credit[c] = p =>
        /\ sweep.pc = "restored" /\ proofs[p].status = "passed" /\ credits[c][p] = 0
        /\ sweep.row[c].certAt # sweep.loaded[c].certAt
        /\ sweep.row[c].certAt >= proofs[p].end

\* What depends on the dates alone.
Ledger == Dated /\ SpentBefore /\ IdleIsIdle /\ HeldIsDated /\ CreditIsNew /\ ProofSpentOnce

CertInv == CertTypeOK /\ EndsPast /\ LadderWaits /\ Ledger

----------------------------------------------------------------------------
(* The last passing proof *)

\* A set on which f is bounded has an element where f is greatest.
LEMMA GreatestBy ==
    ASSUME NEW N \in Nat, NEW S, S # {}, NEW f, \A x \in S : f[x] \in 0 .. N
    PROVE  \E x \in S : \A y \in S : f[y] <= f[x]
<1> DEFINE T == {N - f[x] : x \in S}
<1>1. T \subseteq Nat /\ T # {}
  <2>1. \A x \in S : f[x] \in Int /\ N - f[x] \in Nat
    OBVIOUS
  <2>2. PICK x \in S : TRUE
    OBVIOUS
  <2>3. N - f[x] \in T
    OBVIOUS
  <2> QED BY <2>1, <2>3
<1>2. PICK t \in T : \A y \in T : ~ (<<y, t>> \in OpToRel(<, Nat))
  <2> HIDE DEF T
  <2> QED BY <1>1, NatLessThanWellFounded, WFMin
<1>3. \A y \in T : ~ (y < t)
  BY <1>1, <1>2 DEF OpToRel
<1>4. PICK x \in S : t = N - f[x]
  OBVIOUS
<1>5. \A y \in S : f[y] <= f[x]
  <2> SUFFICES ASSUME NEW y \in S PROVE f[y] <= f[x]
    OBVIOUS
  <2>1. ~ (N - f[y] < t)
    BY <1>3
  <2> QED BY <1>4, <2>1
<1> QED BY <1>5

\* last_passing_proof answers with a proof that passed, or with none.
LEMMA LastPasses ==
    ASSUME CertTypeOK, NEW c \in Codes, LastPassingProof(c) # NoProof
    PROVE  LastPassingProof(c) \in Proofs /\ proofs[LastPassingProof(c)].status = "passed"
<1> DEFINE P == PassingProofs(c)
<1>1. P # {} /\ P \subseteq Proofs /\ \A p \in P : proofs[p].status = "passed"
  BY DEF LastPassingProof, PassingProofs
<1>2. MaxTime \in Nat /\ \A p \in P : proofs[p].end \in 0 .. MaxTime
  BY <1>1, CertificationAssumption DEF CertTypeOK, Time
<1>3. \E p \in P : \A q \in P : proofs[q].end <= proofs[p].end
  <2> DEFINE end == [p \in P |-> proofs[p].end]
  <2> HIDE DEF P
  <2>1. \A p \in P : end[p] = proofs[p].end
    OBVIOUS
  <2>2. \E p \in P : \A q \in P : end[q] <= end[p]
    <3> HIDE DEF end
    <3>1. MaxTime \in Nat /\ P # {} /\ \A p \in P : end[p] \in 0 .. MaxTime
      BY <1>1, <1>2, <2>1
    <3> QED BY ONLY <3>1, GreatestBy
  <2> QED BY <2>1, <2>2
<1>4. LastPassingProof(c) \in P
  BY <1>1, <1>3 DEF LastPassingProof
<1> QED BY <1>1, <1>4

----------------------------------------------------------------------------
(* What a session of the sweep holds *)

\* A session in its type is the record of its six fields.
SweepState == [pc : {"idle", "asked", "restored"},
               loaded : [Codes -> Row], row : [Codes -> Row],
               builds : SUBSET Codes,
               credit : [Codes -> Proofs \cup {NoProof}],
               overtaken : SUBSET Codes]

LEMMA UnloadedIsRow == Unloaded \in Row
BY CertificationAssumption DEF Unloaded, Row, BlueprintStatus, Time

\* Nothing is held, and nothing is changed, by a session that is over.
LEMMA IdleHoldsNothing ==
    ASSUME sweep' = SweepIdle
    PROVE  /\ sweep' \in SweepState
           /\ \A c \in Codes : ~Changed(c)'
           /\ \A c \in Codes : sweep'.credit[c] = NoProof
           /\ sweep'.pc = "idle"
BY UnloadedIsRow DEF SweepIdle, SweepState, Changed

\* Of the rows a session has gone over it keeps those it changed.
LEMMA HoldingKeeps ==
    ASSUME sweep \in SweepState, NEW pc \in {"asked", "restored"},
           NEW loaded \in [Codes -> Row], NEW row \in [Codes -> Row],
           NEW h, h = Holding(pc, loaded, row)
    PROVE  /\ h \in SweepState /\ h.pc = pc
           /\ h.builds = sweep.builds /\ h.credit = sweep.credit
           /\ h.overtaken = sweep.overtaken
           /\ \A c \in Codes : row[c] # loaded[c] =>
                 h.row[c] = row[c] /\ h.loaded[c] = loaded[c]
           /\ \A c \in Codes : h.row[c] # h.loaded[c] => row[c] # loaded[c]
<1> DEFINE ld == [c \in Codes |-> IF row[c] = loaded[c] THEN Unloaded ELSE loaded[c]]
           rw == [c \in Codes |-> IF row[c] = loaded[c] THEN Unloaded ELSE row[c]]
<1>1. ld \in [Codes -> Row] /\ rw \in [Codes -> Row]
  BY UnloadedIsRow
<1>2. /\ \A c \in Codes : row[c] # loaded[c] => rw[c] = row[c] /\ ld[c] = loaded[c]
      /\ \A c \in Codes : rw[c] # ld[c] => row[c] # loaded[c]
  OBVIOUS
<1>3. h = [sweep EXCEPT !.pc = pc, !.loaded = ld, !.row = rw]
  BY DEF Holding
<1> HIDE DEF ld, rw
<1>4. /\ h \in SweepState /\ h.pc = pc /\ h.loaded = ld /\ h.row = rw
      /\ h.builds = sweep.builds /\ h.credit = sweep.credit /\ h.overtaken = sweep.overtaken
  BY <1>1, <1>3 DEF SweepState
<1> QED BY <1>2, <1>4

----------------------------------------------------------------------------
(* What a step may do to the dates *)

\* Proofs only go forward: one that has passed stays as it is, none ends in the future.
Forward ==
    /\ now' >= now /\ now' \in Time
    /\ \A p \in Proofs : proofs'[p].end <= now'
    /\ \A p \in Proofs : proofs[p].status = "passed" =>
          proofs'[p].status = "passed" /\ proofs'[p].end = proofs[p].end

\* A step that leaves rows, sweep and credits alone leaves the ledger alone.
LEMMA QuietKeeps ==
    ASSUME CertTypeOK, EndsPast, Ledger, Forward, UNCHANGED <<blueprints, sweep, credits>>
    PROVE  Ledger' /\ EndsPast'
<1>1. Dated' /\ IdleIsIdle' /\ ProofSpentOnce' /\ EndsPast'
  BY DEF Ledger, Dated, IdleIsIdle, ProofSpentOnce, EndsPast, Forward, CertTypeOK, Time
<1>2. SpentBefore'
  BY DEF Ledger, SpentBefore, Forward
<1>3. HeldIsDated'
  <2>1. \A c \in Codes : \A p \in Proofs :
           credits[c][p] > 0 => proofs'[p].end = proofs[p].end
    BY DEF Ledger, SpentBefore, Forward
  <2> QED BY <2>1 DEF Ledger, HeldIsDated, Changed
<1>4. CreditIsNew'
  BY DEF Ledger, CreditIsNew, Forward
<1> QED BY <1>1, <1>2, <1>3, <1>4 DEF Ledger

\* A certification by a proof or by hand dates the row now, after every proof.
LEMMA CertifiedKeeps ==
    ASSUME CertTypeOK, EndsPast, Ledger, NEW c \in Codes,
           blueprints' = [blueprints EXCEPT ![c] = [status |-> "certified", certAt |-> now]],
           UNCHANGED <<proofs, sweep, credits, now>>
    PROVE  Ledger' /\ blueprints' \in [Codes -> Row]
<1>1. /\ blueprints'[c].status = "certified" /\ blueprints'[c].certAt = now
      /\ \A d \in Codes : d # c => blueprints'[d] = blueprints[d]
      /\ blueprints' \in [Codes -> Row]
  BY DEF CertTypeOK, Row, BlueprintStatus
<1>2. Dated' /\ IdleIsIdle' /\ ProofSpentOnce' /\ CreditIsNew'
  BY <1>1 DEF Ledger, Dated, IdleIsIdle, ProofSpentOnce, EndsPast, CreditIsNew
<1>3. SpentBefore'
  BY <1>1 DEF Ledger, SpentBefore, EndsPast
<1>4. HeldIsDated'
  BY <1>1 DEF Ledger, HeldIsDated, Changed
<1> QED BY <1>1, <1>2, <1>3, <1>4 DEF Ledger

\* A deletion leaves no row to be dated.
LEMMA DeletedKeeps ==
    ASSUME CertTypeOK, EndsPast, Ledger, NEW c \in Codes,
           blueprints' = [blueprints EXCEPT ![c] = [status |-> "none", certAt |-> 0]],
           UNCHANGED <<proofs, sweep, credits, now>>
    PROVE  Ledger' /\ blueprints' \in [Codes -> Row]
<1>1. /\ blueprints'[c].status = "none"
      /\ \A d \in Codes : d # c => blueprints'[d] = blueprints[d]
      /\ blueprints' \in [Codes -> Row]
  BY CertificationAssumption DEF CertTypeOK, Row, BlueprintStatus, Time
<1>2. Dated' /\ IdleIsIdle' /\ ProofSpentOnce' /\ CreditIsNew'
  BY <1>1 DEF Ledger, Dated, IdleIsIdle, ProofSpentOnce, EndsPast, CreditIsNew
<1>3. SpentBefore'
  BY <1>1 DEF Ledger, SpentBefore, EndsPast
<1>4. HeldIsDated'
  BY <1>1 DEF Ledger, HeldIsDated, Changed
<1> QED BY <1>1, <1>2, <1>3, <1>4 DEF Ledger

\* A withdrawal keeps the date, and a sweep under way is told apart by it.
LEMMA WithdrawKeeps ==
    ASSUME CertTypeOK, EndsPast, Ledger, NEW c \in Codes, blueprints[c].status # "none",
           Withdraw(c), UNCHANGED <<proofs, credits, now>>
    PROVE  Ledger' /\ blueprints' \in [Codes -> Row] /\ sweep' \in SweepState
<1>1. /\ blueprints'[c].status = "withdrawn" /\ blueprints'[c].certAt = blueprints[c].certAt
      /\ \A d \in Codes : d # c => blueprints'[d] = blueprints[d]
      /\ blueprints' \in [Codes -> Row]
  <2> DEFINE row == [blueprints[c] EXCEPT !.status = "withdrawn"]
  <2>0. blueprints[c] \in Row
    BY DEF CertTypeOK
  <2>1. row \in Row /\ row.status = "withdrawn" /\ row.certAt = blueprints[c].certAt
    BY <2>0 DEF Row, BlueprintStatus
  <2>2. blueprints' = [blueprints EXCEPT ![c] = row]
    BY DEF Withdraw
  <2> HIDE DEF row
  <2> QED BY <2>1, <2>2 DEF CertTypeOK
<1>2. /\ sweep' \in SweepState
      /\ sweep'.pc = sweep.pc /\ sweep'.row = sweep.row /\ sweep'.loaded = sweep.loaded
      /\ sweep'.credit = sweep.credit
      /\ sweep.pc = "idle" => sweep' = sweep
      /\ sweep.pc # "idle" => sweep'.overtaken = sweep.overtaken \cup {c}
  BY DEF CertTypeOK, SweepState, Withdraw
<1>3. \A d \in Codes : Changed(d)' <=> Changed(d)
  BY <1>2 DEF Changed
<1>4. Dated' /\ IdleIsIdle' /\ ProofSpentOnce' /\ CreditIsNew'
  BY <1>1, <1>2 DEF Ledger, Dated, IdleIsIdle, ProofSpentOnce, CreditIsNew
<1>5. SpentBefore'
  BY <1>1 DEF Ledger, SpentBefore
<1>6. sweep.pc = "idle" => \A d \in Codes : ~Changed(d)
  BY DEF Ledger, IdleIsIdle, SweepIdle, Changed
<1>7. HeldIsDated'
  <2> SUFFICES ASSUME NEW d \in Codes, Changed(d)
               PROVE  /\ sweep.row[d].status \in {"certified", "suspended", "stale"}
                      /\ sweep.row[d].certAt > 0
                      /\ \A p \in Proofs : credits[d][p] > 0 =>
                            sweep.row[d].certAt >= proofs[p].end
                      /\ sweep.pc = "asked" =>
                            /\ sweep.loaded[d].status = "certified"
                            /\ sweep.row[d].certAt = sweep.loaded[d].certAt
                      /\ sweep.row[d].status # sweep.loaded[d].status
                           /\ blueprints'[d].status = "withdrawn" => d \in sweep'.overtaken
    BY <1>2, <1>3 DEF HeldIsDated
  <2>1. sweep'.overtaken = sweep.overtaken \cup {c}
    BY <1>2, <1>6
  <2> QED BY <1>1, <2>1 DEF Ledger, HeldIsDated
<1> QED BY <1>1, <1>2, <1>4, <1>5, <1>7 DEF Ledger

----------------------------------------------------------------------------
(* The ladder and people *)

LadderState == [pc : {"idle", "published", "proving", "proved", "refused", "takenback"},
                proof : Proofs \cup {NoProof}, pending : BOOLEAN]

ProofState == [code : Codes, status : ProofStatus, end : Time, refuted : BOOLEAN]

\* A ladder whose technology is not waiting for a proof.
LEMMA LadderMoves ==
    ASSUME CertTypeOK, LadderWaits, NEW c \in Codes, NEW l \in LadderState,
           ladder' = [ladder EXCEPT ![c] = l],
           l.pc = "proving" => /\ l.proof \in Proofs
                               /\ proofs'[l.proof].status = "running" /\ proofs'[l.proof].code = c,
           \A d \in Codes \ {c} : ladder[d].pc = "proving" =>
              proofs'[ladder[d].proof] = proofs[ladder[d].proof]
    PROVE  LadderWaits' /\ ladder' \in [Codes -> LadderState]
BY DEF CertTypeOK, LadderWaits, LadderState

\* SetLadder writes place and proof, and keeps what is pending.
LEMMA SetLadderIs ==
    ASSUME CertTypeOK, NEW c \in Codes, NEW p \in Proofs \cup {NoProof},
           NEW pc \in {"idle", "published", "proving", "proved", "refused", "takenback"},
           SetLadder(c, pc, p)
    PROVE  \E l \in LadderState :
              ladder' = [ladder EXCEPT ![c] = l] /\ l.pc = pc /\ l.proof = p
<1> DEFINE l == [ladder[c] EXCEPT !.pc = pc, !.proof = p]
<1>0. ladder[c] \in LadderState
  BY DEF CertTypeOK, LadderState
<1>1. l \in LadderState /\ l.pc = pc /\ l.proof = p
  BY <1>0 DEF LadderState
<1>2. ladder' = [ladder EXCEPT ![c] = l]
  BY DEF SetLadder
<1> QED BY <1>1, <1>2

\* Nothing of the proofs or the clock changes: every proof goes forward.
LEMMA StillForward ==
    ASSUME CertTypeOK, EndsPast, UNCHANGED <<proofs, now>>
    PROVE  Forward
BY CertificationAssumption DEF CertTypeOK, EndsPast, Forward, Time

\* PublishDraft, NarrowContainer: store and ladder only.
LEMMA PublishKeeps ==
    ASSUME CertInv, NEW c \in Codes, PublishDraft(c) \/ NarrowContainer(c)
    PROVE  CertInv'
<1>1. /\ UNCHANGED <<blueprints, requests, proofs, proofsBegan, sweep, credits, now, rare>>
      /\ store' \subseteq Codes
      /\ SetLadder(c, "published", NoProof) \/ SetLadder(c, "idle", NoProof)
  BY DEF PublishDraft, NarrowContainer, CertInv, CertTypeOK
<1>2. LadderWaits' /\ ladder' \in [Codes -> LadderState]
  BY <1>1, SetLadderIs, LadderMoves DEF CertInv, LadderWaits
<1>3. Ledger' /\ EndsPast'
  BY <1>1, StillForward, QuietKeeps DEF CertInv
<1> QED BY <1>1, <1>2, <1>3 DEF CertInv, CertTypeOK, LadderState

LEMMA StartKeeps ==
    ASSUME CertInv, NEW c \in Codes, StartProof(c)
    PROVE  CertInv'
<1>1. PICK p \in Proofs :
        /\ proofs[p].status = "unused" /\ proofs[p].code = c
        /\ proofs' = [proofs EXCEPT ![p].status = "running"]
        /\ proofsBegan' = IF proofsBegan = 0 THEN now ELSE proofsBegan
        /\ SetLadder(c, "proving", p)
  BY DEF StartProof
<1>2. UNCHANGED <<blueprints, requests, store, sweep, credits, now, rare>>
  BY DEF StartProof
<1>3. /\ proofs' \in [Proofs -> ProofState]
      /\ proofs'[p].status = "running" /\ proofs'[p].end = proofs[p].end
      /\ proofs'[p].code = c
      /\ \A q \in Proofs : q # p => proofs'[q] = proofs[q]
  <2> DEFINE row == [proofs[p] EXCEPT !.status = "running"]
  <2>0. proofs[p] \in ProofState
    BY DEF CertInv, CertTypeOK, ProofState
  <2>1. row \in ProofState /\ row.status = "running" /\ row.end = proofs[p].end /\ row.code = c
    BY <1>1, <2>0 DEF ProofState, ProofStatus
  <2>2. proofs' = [proofs EXCEPT ![p] = row]
    BY <1>1
  <2> HIDE DEF row
  <2> QED BY <2>1, <2>2 DEF CertInv, CertTypeOK, ProofState
<1>4. Forward
  BY <1>1, <1>2, <1>3, CertificationAssumption DEF CertInv, CertTypeOK, EndsPast, Forward, Time
<1>5. LadderWaits' /\ ladder' \in [Codes -> LadderState]
  BY <1>1, <1>3, SetLadderIs, LadderMoves DEF CertInv, LadderWaits
<1>6. Ledger' /\ EndsPast'
  BY <1>2, <1>4, QuietKeeps DEF CertInv
<1> QED BY <1>1, <1>2, <1>3, <1>5, <1>6 DEF CertInv, CertTypeOK, LadderState, ProofState

LEMMA FinishKeeps ==
    ASSUME CertInv, NEW c \in Codes, FinishProof(c)
    PROVE  CertInv'
<1> DEFINE p == ladder[c].proof
<1>1. PICK st \in {"passed", "failed", "refused", "abandoned"} :
        /\ proofs' = [proofs EXCEPT ![p].status = st,
                                    ![p].end = IF st = "passed" THEN now ELSE 0]
        /\ IF st = "passed" THEN SetLadder(c, "proved", p) ELSE SetLadder(c, "refused", NoProof)
  BY DEF FinishProof
<1>2. UNCHANGED <<blueprints, requests, proofsBegan, store, sweep, credits, now, rare>>
  BY DEF FinishProof
<1>3. /\ ladder[c].pc = "proving" /\ p \in Proofs
      /\ proofs[p].status = "running" /\ proofs[p].code = c
  BY DEF FinishProof, CertInv, LadderWaits
<1> DEFINE e == IF st = "passed" THEN now ELSE 0
<1>4. e \in Time /\ e <= now /\ now \in Nat
  BY CertificationAssumption DEF CertInv, CertTypeOK, EndsPast, Time
<1>5. /\ proofs' \in [Proofs -> ProofState]
      /\ proofs'[p].status = st /\ proofs'[p].end = e
      /\ \A q \in Proofs : q # p => proofs'[q] = proofs[q]
  <2> DEFINE row == [proofs[p] EXCEPT !.status = st, !.end = e]
  <2>0. proofs[p] \in ProofState
    BY <1>3 DEF CertInv, CertTypeOK, ProofState
  <2> HIDE DEF e, p
  <2>1. row \in ProofState /\ row.status = st /\ row.end = e
    BY <1>4, <2>0 DEF ProofState, ProofStatus
  <2>2. proofs' = [proofs EXCEPT ![p] = row]
    BY <1>1, <1>3, <2>0 DEF CertInv, CertTypeOK, e
  <2> HIDE DEF row, e, p
  <2> QED BY <1>3, <2>1, <2>2 DEF CertInv, CertTypeOK, ProofState
<1>6. Forward
  <2> HIDE DEF e, p
  <2>1. now' = now /\ now \in Time /\ now >= now
    BY <1>2, <1>4 DEF CertInv, CertTypeOK
  <2>2. \A q \in Proofs : proofs'[q].end <= now
    BY <1>4, <1>5 DEF CertInv, EndsPast
  <2>3. \A q \in Proofs : proofs[q].status = "passed" => proofs'[q] = proofs[q]
    BY <1>3, <1>5
  <2> QED BY <2>1, <2>2, <2>3 DEF Forward
<1>7. LadderWaits' /\ ladder' \in [Codes -> LadderState]
  <2>1. \A d \in Codes \ {c} : ladder[d].pc = "proving" =>
           ladder[d].proof \in Proofs /\ ladder[d].proof # p
    BY <1>3 DEF CertInv, LadderWaits
  <2> HIDE DEF p
  <2>2. PICK l \in LadderState : ladder' = [ladder EXCEPT ![c] = l] /\ l.pc # "proving"
    <3>1. CertTypeOK
      BY DEF CertInv
    <3>2. CASE st = "passed"
      BY <1>1, <1>3, <3>1, <3>2, SetLadderIs
    <3>3. CASE st # "passed"
      BY <1>1, <1>3, <3>1, <3>3, SetLadderIs
    <3> QED BY <3>2, <3>3
  <2>3. \A d \in Codes \ {c} : ladder[d].pc = "proving" =>
           proofs'[ladder[d].proof] = proofs[ladder[d].proof]
    BY <1>5, <2>1
  <2> QED BY <2>2, <2>3, LadderMoves DEF CertInv
<1>8. Ledger' /\ EndsPast'
  BY <1>2, <1>6, QuietKeeps DEF CertInv
<1> QED BY <1>2, <1>5, <1>7, <1>8 DEF CertInv, CertTypeOK, LadderState, ProofState

LEMMA CertifyFromProofKeeps ==
    ASSUME CertInv, NEW c \in Codes, CertifyFromProof(c)
    PROVE  CertInv'
<1>1. /\ blueprints' = [blueprints EXCEPT ![c] = [status |-> "certified", certAt |-> now]]
      /\ SetLadder(c, "idle", NoProof)
      /\ UNCHANGED <<requests, proofs, proofsBegan, store, sweep, credits, now, rare>>
  BY DEF CertifyFromProof
<1>2. LadderWaits' /\ ladder' \in [Codes -> LadderState]
  BY <1>1, SetLadderIs, LadderMoves DEF CertInv, LadderWaits
<1>3. Ledger' /\ blueprints' \in [Codes -> Row]
  BY <1>1, CertifiedKeeps DEF CertInv
<1> QED BY <1>1, <1>2, <1>3 DEF CertInv, CertTypeOK, LadderState, EndsPast

LEMMA RefuseKeeps ==
    ASSUME CertInv, NEW c \in Codes, RefuseAtTheDoor(c)
    PROVE  CertInv'
<1> DEFINE p == ladder[c].proof
<1>1. /\ proofs' = [proofs EXCEPT ![p].refuted = TRUE]
      /\ SetLadder(c, "refused", NoProof)
      /\ UNCHANGED <<blueprints, requests, proofsBegan, store, sweep, credits, now, rare>>
  BY DEF RefuseAtTheDoor
<1>2. /\ proofs' \in [Proofs -> ProofState]
      /\ \A q \in Proofs : /\ proofs'[q].status = proofs[q].status
                           /\ proofs'[q].end = proofs[q].end /\ proofs'[q].code = proofs[q].code
  <2>0. \A q \in Proofs : proofs[q] \in ProofState
    BY DEF CertInv, CertTypeOK, ProofState
  <2>1. proofs' = [q \in Proofs |-> IF q = p THEN [proofs[q] EXCEPT !.refuted = TRUE]
                                     ELSE proofs[q]]
    BY <1>1 DEF CertInv, CertTypeOK
  <2> HIDE DEF p
  <2>2. \A q \in Proofs : /\ [proofs[q] EXCEPT !.refuted = TRUE] \in ProofState
                          /\ [proofs[q] EXCEPT !.refuted = TRUE].status = proofs[q].status
                          /\ [proofs[q] EXCEPT !.refuted = TRUE].end = proofs[q].end
                          /\ [proofs[q] EXCEPT !.refuted = TRUE].code = proofs[q].code
    BY <2>0 DEF ProofState
  <2> QED BY <2>0, <2>1, <2>2
<1>3. Forward
  BY <1>1, <1>2, CertificationAssumption DEF CertInv, CertTypeOK, EndsPast, Forward, Time
<1>4. PICK l \in LadderState : ladder' = [ladder EXCEPT ![c] = l] /\ l.pc = "refused"
  BY <1>1, SetLadderIs DEF CertInv
<1>5. LadderWaits' /\ ladder' \in [Codes -> LadderState]
  BY <1>2, <1>4 DEF CertInv, CertTypeOK, LadderWaits, LadderState
<1>6. Ledger' /\ EndsPast'
  BY <1>1, <1>3, QuietKeeps DEF CertInv
<1> QED BY <1>1, <1>2, <1>5, <1>6 DEF CertInv, CertTypeOK, LadderState, ProofState

LEMMA TakeItBackKeeps ==
    ASSUME CertInv, NEW c \in Codes, TakeItBack(c)
    PROVE  CertInv'
<1> DEFINE l == [pc |-> "takenback", proof |-> NoProof,
                 pending |-> blueprints[c].status \notin {"none", "withdrawn"}]
<1>1. /\ ladder' = [ladder EXCEPT ![c] = l] /\ store' = store \ {c}
      /\ UNCHANGED <<blueprints, requests, proofs, proofsBegan, sweep, credits, now, rare>>
  BY DEF TakeItBack
<1>2. l \in LadderState /\ l.pc # "proving"
  BY DEF LadderState
<1>3. LadderWaits' /\ ladder' \in [Codes -> LadderState]
  <2> HIDE DEF l
  <2> QED BY <1>1, <1>2, LadderMoves DEF CertInv
<1>4. Ledger' /\ EndsPast'
  BY <1>1, StillForward, QuietKeeps DEF CertInv
<1> QED BY <1>1, <1>3, <1>4 DEF CertInv, CertTypeOK, LadderState

LEMMA CommitTakeBackKeeps ==
    ASSUME CertInv, NEW c \in Codes, CommitTakeBack(c)
    PROVE  CertInv'
<1>1. /\ ladder' = [ladder EXCEPT ![c].pc = "idle", ![c].pending = FALSE]
      /\ UNCHANGED <<requests, proofs, proofsBegan, store, credits, now, rare>>
      /\ \/ blueprints[c].status # "none" /\ Withdraw(c)
         \/ UNCHANGED <<blueprints, sweep>>
  BY DEF CommitTakeBack
<1>2. LadderWaits' /\ ladder' \in [Codes -> LadderState]
  <2> DEFINE l == [ladder[c] EXCEPT !.pc = "idle", !.pending = FALSE]
  <2>1. ladder[c] \in LadderState
    BY DEF CertInv, CertTypeOK, LadderState
  <2>2. l \in LadderState /\ l.pc = "idle"
    BY <2>1 DEF LadderState
  <2>3. ladder' = [ladder EXCEPT ![c] = l]
    BY <1>1, <2>1 DEF LadderState, CertInv, CertTypeOK
  <2> HIDE DEF l
  <2> QED BY <1>1, <2>2, <2>3, LadderMoves DEF CertInv
<1>3. Ledger' /\ blueprints' \in [Codes -> Row] /\ sweep' \in SweepState
  <2>1. CASE blueprints[c].status # "none" /\ Withdraw(c)
    BY <1>1, <2>1, WithdrawKeeps DEF CertInv
  <2>2. CASE UNCHANGED <<blueprints, sweep>>
    BY <1>1, <2>2, StillForward, QuietKeeps DEF CertInv, CertTypeOK, SweepState
  <2> QED BY <1>1, <2>1, <2>2
<1> QED BY <1>1, <1>2, <1>3 DEF CertInv, CertTypeOK, LadderState, SweepState, EndsPast

\* A person certifies, decertifies or retires.
LEMMA PeopleKeep ==
    ASSUME CertInv, NEW c \in Codes, CertifyByHand(c) \/ Decertify(c) \/ Retire(c)
    PROVE  CertInv'
<1>1. /\ UNCHANGED <<requests, proofs, proofsBegan, ladder, credits, now>>
      /\ store' \subseteq Codes /\ rare' \in 0 .. MaxRare
  BY CertificationAssumption
     DEF CertifyByHand, Decertify, Retire, Rarely, CertInv, CertTypeOK
<1>2. Ledger' /\ blueprints' \in [Codes -> Row] /\ sweep' \in SweepState
  <2>0. sweep \in SweepState /\ blueprints \in [Codes -> Row]
    BY DEF CertInv, CertTypeOK, SweepState
  <2>1. CASE CertifyByHand(c)
    BY <1>1, <2>0, <2>1, CertifiedKeeps DEF CertInv, CertifyByHand
  <2>2. CASE Decertify(c)
    BY <1>1, <2>0, <2>2, DeletedKeeps DEF CertInv, Decertify
  <2>3. CASE Retire(c) /\ blueprints[c].status # "withdrawn"
    BY <1>1, <2>3, WithdrawKeeps DEF CertInv, Retire
  <2>4. CASE Retire(c) /\ blueprints[c].status = "withdrawn"
    BY <1>1, <2>0, <2>4, StillForward, QuietKeeps DEF CertInv, Retire
  <2> QED BY <2>1, <2>2, <2>3, <2>4
<1> QED BY <1>1, <1>2 DEF CertInv, CertTypeOK, SweepState, EndsPast, LadderWaits

----------------------------------------------------------------------------
(* The clock, requests and a crash *)

LEMMA TickKeeps == CertInv /\ CertTick => CertInv'
<1> SUFFICES ASSUME CertInv, CertTick PROVE CertInv'
  OBVIOUS
<1>1. /\ now' = now + 1 /\ now' \in Time
      /\ UNCHANGED <<blueprints, requests, proofs, proofsBegan, store, ladder, sweep,
                     credits, rare>>
  BY CertificationAssumption DEF CertTick, CertInv, CertTypeOK, Time
<1>2. Forward
  BY <1>1, CertificationAssumption DEF CertInv, CertTypeOK, EndsPast, Forward, Time
<1>3. Ledger' /\ EndsPast'
  BY <1>1, <1>2, QuietKeeps DEF CertInv
<1> QED BY <1>1, <1>3 DEF CertInv, CertTypeOK, LadderWaits

LEMMA RequestKeeps ==
    ASSUME CertInv, NEW r \in Reqs, RequestFinishes(r) \/ RequestRetried(r)
    PROVE  CertInv'
<1> DEFINE Req == [says : {"nothing", "built", "failed"}, kind : Kinds, at : Time]
<1>1. /\ UNCHANGED <<blueprints, proofs, proofsBegan, store, ladder, sweep, credits, now>>
      /\ rare' \in 0 .. MaxRare
  BY CertificationAssumption
     DEF RequestFinishes, RequestRetried, Rarely, CertInv, CertTypeOK
<1>2. PICK st \in {"nothing", "built", "failed"}, t \in Time :
         requests' = [requests EXCEPT ![r].says = st, ![r].at = t]
  <2>1. now \in Time /\ 0 \in Time
    BY CertificationAssumption DEF CertInv, CertTypeOK, Time
  <2> QED BY <2>1 DEF RequestFinishes, RequestRetried
<1>3. requests' \in [Reqs -> Req]
  <2>1. requests \in [Reqs -> Req]
    BY DEF CertInv, CertTypeOK
  <2>2. [requests[r] EXCEPT !.says = st, !.at = t] \in Req
    BY <2>1
  <2>3. requests' = [requests EXCEPT ![r] = [requests[r] EXCEPT !.says = st, !.at = t]]
    BY <1>2, <2>1
  <2> QED BY <2>1, <2>2, <2>3
<1>4. Ledger' /\ EndsPast'
  BY <1>1, StillForward, QuietKeeps DEF CertInv
<1> QED BY <1>1, <1>3, <1>4 DEF CertInv, CertTypeOK, LadderWaits

\* A session that is over spends nothing.
LEMMA OverKeeps ==
    ASSUME CertTypeOK, Ledger, sweep' = SweepIdle, UNCHANGED <<blueprints, proofs, credits>>
    PROVE  Ledger' /\ sweep' \in SweepState
<1>1. NoProof \notin Proofs
  BY CertificationAssumption DEF NoProof
<1> QED BY <1>1, IdleHoldsNothing
        DEF Ledger, Dated, SpentBefore, IdleIsIdle, HeldIsDated, CreditIsNew, ProofSpentOnce

LEMMA CrashKeeps == CertInv /\ CertCrash => CertInv'
<1> SUFFICES ASSUME CertInv, CertCrash PROVE CertInv'
  OBVIOUS
<1>1. /\ UNCHANGED <<blueprints, requests, proofs, proofsBegan, store, credits, now>>
      /\ sweep' = SweepIdle /\ rare' \in 0 .. MaxRare
      /\ ladder' = [c \in Codes |-> [pc |-> "idle", proof |-> NoProof, pending |-> FALSE]]
  BY CertificationAssumption DEF CertCrash, Rarely, CertInv, CertTypeOK
<1>2. LadderWaits' /\ ladder' \in [Codes -> LadderState]
  BY <1>1 DEF LadderWaits, LadderState
<1>3. Ledger' /\ sweep' \in SweepState
  BY <1>1, OverKeeps DEF CertInv
<1> QED BY <1>1, <1>2, <1>3 DEF CertInv, CertTypeOK, LadderState, SweepState, EndsPast

----------------------------------------------------------------------------
(* The sweep *)

\* review and expire: only a certified row is changed, and only its status.
LEMMA ReviewedRows ==
    ASSUME CertTypeOK, NEW c \in Codes, NEW row, row = Aged(c, Reviewed(c, blueprints[c]))
    PROVE  /\ row \in Row /\ row.certAt = blueprints[c].certAt
           /\ row # blueprints[c] => /\ blueprints[c].status = "certified"
                                     /\ row.status \in {"suspended", "stale"}
<1>1. blueprints[c] \in Row
  BY DEF CertTypeOK
<1> DEFINE rev == Reviewed(c, blueprints[c])
<1>2. /\ rev \in Row /\ rev.certAt = blueprints[c].certAt
      /\ rev # blueprints[c] => blueprints[c].status = "certified" /\ rev.status = "suspended"
  BY <1>1 DEF Reviewed, Row, BlueprintStatus
<1>3. row = IF rev.status = "certified" /\ Expired(c) THEN [rev EXCEPT !.status = "stale"]
            ELSE rev
  BY DEF Aged
<1> HIDE DEF rev
<1>4. CASE rev.status = "certified" /\ Expired(c)
  <2>1. rev = blueprints[c]
    BY <1>2, <1>4
  <2>2. row = [blueprints[c] EXCEPT !.status = "stale"]
    BY <1>3, <1>4, <2>1
  <2> QED BY <1>1, <1>4, <2>1, <2>2 DEF Row, BlueprintStatus
<1>5. CASE ~(rev.status = "certified" /\ Expired(c))
  BY <1>2, <1>3, <1>5
<1> QED BY <1>4, <1>5

LEMMA SweepReviewKeeps ==
    ASSUME CertInv, NEW answered \in BOOLEAN, SweepReview(answered)
    PROVE  CertInv'
<1> DEFINE row == [c \in Codes |-> Aged(c, Reviewed(c, blueprints[c]))]
           h == Holding("asked", blueprints, row)
           builds == IF answered THEN store ELSE {}
<1>1. /\ sweep.pc = "idle" /\ sweep' = [h EXCEPT !.builds = builds]
      /\ UNCHANGED <<blueprints, requests, proofs, proofsBegan, store, ladder, credits, now, rare>>
  BY DEF SweepReview
<1>2. sweep = SweepIdle /\ sweep \in SweepState /\ blueprints \in [Codes -> Row]
  BY <1>1 DEF CertInv, CertTypeOK, Ledger, IdleIsIdle, SweepState
<1>3. /\ row \in [Codes -> Row]
      /\ \A c \in Codes : /\ row[c].certAt = blueprints[c].certAt
                          /\ row[c] # blueprints[c] =>
                               /\ blueprints[c].status = "certified"
                               /\ row[c].status \in {"suspended", "stale"}
  BY ReviewedRows DEF CertInv
<1>4. builds \subseteq Codes
  BY DEF CertInv, CertTypeOK
<1> HIDE DEF row, builds
<1>5. /\ h \in SweepState /\ h.pc = "asked" /\ h.credit = sweep.credit
      /\ \A c \in Codes : row[c] # blueprints[c] =>
            h.row[c] = row[c] /\ h.loaded[c] = blueprints[c]
      /\ \A c \in Codes : h.row[c] # h.loaded[c] => row[c] # blueprints[c]
  <2> HIDE DEF h
  <2>1. h = Holding("asked", blueprints, row)
    BY DEF h
  <2> QED BY <1>2, <1>3, <2>1, HoldingKeeps
<1> HIDE DEF h
<1>6. /\ sweep' \in SweepState /\ sweep'.pc = "asked" /\ sweep'.credit = sweep.credit
      /\ sweep'.row = h.row /\ sweep'.loaded = h.loaded
  BY <1>1, <1>4, <1>5 DEF SweepState
<1>7. \A c \in Codes : sweep'.credit[c] = NoProof
  BY <1>2, <1>6 DEF SweepIdle
<1>8. CreditIsNew' /\ IdleIsIdle'
  <2>1. NoProof \notin Proofs
    BY CertificationAssumption DEF NoProof
  <2> QED BY <1>6, <1>7, <2>1 DEF CreditIsNew, IdleIsIdle
<1>9. HeldIsDated'
  <2> SUFFICES ASSUME NEW c \in Codes, Changed(c)'
               PROVE  /\ sweep'.row[c].status \in {"certified", "suspended", "stale"}
                      /\ sweep'.row[c].certAt > 0
                      /\ \A p \in Proofs : credits[c][p] > 0 =>
                            sweep'.row[c].certAt >= proofs[p].end
                      /\ sweep'.loaded[c].status = "certified"
                      /\ sweep'.row[c].certAt = sweep'.loaded[c].certAt
                      /\ blueprints[c].status # "withdrawn"
    BY <1>1 DEF HeldIsDated
  <2>1. row[c] # blueprints[c]
    BY <1>5, <1>6 DEF Changed
  <2>2. sweep'.row[c] = row[c] /\ sweep'.loaded[c] = blueprints[c]
    BY <1>5, <1>6, <2>1
  <2> QED BY <1>3, <2>1, <2>2 DEF CertInv, Ledger, Dated, SpentBefore
<1>10. Dated' /\ SpentBefore' /\ ProofSpentOnce'
  BY <1>1 DEF CertInv, Ledger, Dated, SpentBefore, ProofSpentOnce
<1> QED BY <1>1, <1>6, <1>8, <1>9, <1>10
        DEF CertInv, CertTypeOK, SweepState, EndsPast, LadderWaits, Ledger

\* restore brings back what is suspended or stale by a proof that passed after the row's
\* date: a proof that was spent on it ended at or before that date.
LEMMA RestoredByNew ==
    ASSUME CertInv, NEW c \in Codes, NEW row \in Row, row.status # "none", row.certAt > 0,
           \A p \in Proofs : credits[c][p] > 0 => row.certAt >= proofs[p].end,
           Restores(c, row)
    PROVE  /\ row.status \in {"suspended", "stale"}
           /\ LastPassingProof(c) \in Proofs
           /\ proofs[LastPassingProof(c)].status = "passed"
           /\ credits[c][LastPassingProof(c)] = 0
           /\ now >= proofs[LastPassingProof(c)].end
           /\ now > row.certAt
           /\ \A p \in Proofs : credits[c][p] > 0 => now >= proofs[p].end
<1> DEFINE q == LastPassingProof(c)
<1>1. row.status \in {"suspended", "stale"} /\ q # NoProof /\ proofs[q].end > row.certAt
  BY DEF Restores, NewEvidence
<1>2. q \in Proofs /\ proofs[q].status = "passed"
  BY <1>1, LastPasses DEF CertInv
<1> HIDE DEF q
<1>3. /\ proofs[q].end <= now /\ \A p \in Proofs : proofs[p].end \in Int /\ proofs[p].end <= now
      /\ now \in Int /\ row.certAt \in Int /\ credits[c][q] \in Nat
  BY <1>2, CertificationAssumption DEF CertInv, EndsPast, CertTypeOK, Time, Row
<1>4. credits[c][q] = 0
  BY <1>1, <1>2, <1>3
<1> QED BY <1>1, <1>2, <1>3, <1>4 DEF q

LEMMA SweepRestoreKeeps ==
    ASSUME CertInv, SweepRestore
    PROVE  CertInv'
<1> DEFINE loaded == [c \in Codes |-> IF Changed(c) THEN sweep.loaded[c] ELSE blueprints[c]]
           seen == [c \in Codes |-> IF Changed(c) THEN sweep.row[c] ELSE blueprints[c]]
           back == {c \in Codes : Restores(c, seen[c])}
           row == [c \in Codes |-> IF c \in back
                                   THEN [status |-> "certified", certAt |-> now] ELSE seen[c]]
           credit == [c \in Codes |-> IF c \in back THEN LastPassingProof(c) ELSE NoProof]
           h == Holding("restored", loaded, row)
<1>1. /\ sweep.pc = "asked" /\ sweep' = [h EXCEPT !.builds = {}, !.credit = credit]
      /\ UNCHANGED <<blueprints, requests, proofs, proofsBegan, store, ladder, credits, now, rare>>
  BY DEF SweepRestore
<1>2. /\ sweep \in SweepState /\ blueprints \in [Codes -> Row] /\ now \in Time /\ now > 0
      /\ NoProof \notin Proofs
  BY CertificationAssumption DEF CertInv, CertTypeOK, SweepState, EndsPast, NoProof
<1>3. loaded \in [Codes -> Row] /\ seen \in [Codes -> Row]
  BY <1>2 DEF SweepState
<1>4. \A c \in Codes : seen[c].status # "none" =>
         /\ seen[c].certAt > 0
         /\ \A p \in Proofs : credits[c][p] > 0 => seen[c].certAt >= proofs[p].end
  BY DEF CertInv, Ledger, Dated, SpentBefore, HeldIsDated
<1>5. \A c \in back : seen[c].status \in {"suspended", "stale"}
  BY DEF Restores
<1>6. \A c \in back :
         /\ LastPassingProof(c) \in Proofs
         /\ proofs[LastPassingProof(c)].status = "passed"
         /\ credits[c][LastPassingProof(c)] = 0
         /\ now >= proofs[LastPassingProof(c)].end
         /\ now > seen[c].certAt
         /\ \A p \in Proofs : credits[c][p] > 0 => now >= proofs[p].end
  <2> SUFFICES ASSUME NEW c \in back
               PROVE  /\ LastPassingProof(c) \in Proofs
                      /\ proofs[LastPassingProof(c)].status = "passed"
                      /\ credits[c][LastPassingProof(c)] = 0
                      /\ now >= proofs[LastPassingProof(c)].end
                      /\ now > seen[c].certAt
                      /\ \A p \in Proofs : credits[c][p] > 0 => now >= proofs[p].end
    OBVIOUS
  <2>1. c \in Codes /\ Restores(c, seen[c])
    OBVIOUS
  <2>2. /\ seen[c] \in Row /\ seen[c].status # "none" /\ seen[c].certAt > 0
        /\ \A p \in Proofs : credits[c][p] > 0 => seen[c].certAt >= proofs[p].end
    BY <1>3, <1>4, <1>5, <2>1
  <2> HIDE DEF seen, back
  <2> QED BY <2>1, <2>2, RestoredByNew
<1>7. \A c \in Codes : ~Changed(c) => loaded[c] = blueprints[c] /\ seen[c] = blueprints[c]
  OBVIOUS
<1>8. \A c \in Codes : Changed(c) =>
         /\ loaded[c] = sweep.loaded[c] /\ seen[c] = sweep.row[c]
         /\ seen[c].certAt = loaded[c].certAt /\ seen[c].status # loaded[c].status
         /\ seen[c].status # "none" /\ loaded[c].status = "certified"
         /\ blueprints[c].status = "withdrawn" => c \in sweep.overtaken
  <2> SUFFICES ASSUME NEW c \in Codes, Changed(c)
               PROVE  /\ sweep.row[c].certAt = sweep.loaded[c].certAt
                      /\ sweep.row[c].status # sweep.loaded[c].status
                      /\ sweep.row[c].status # "none" /\ sweep.loaded[c].status = "certified"
                      /\ blueprints[c].status = "withdrawn" => c \in sweep.overtaken
    OBVIOUS
  <2>1. /\ sweep.row[c].certAt = sweep.loaded[c].certAt /\ sweep.loaded[c].status = "certified"
        /\ sweep.row[c].status \in {"certified", "suspended", "stale"}
        /\ sweep.row[c].status # sweep.loaded[c].status /\ blueprints[c].status = "withdrawn"
              => c \in sweep.overtaken
    BY <1>1 DEF CertInv, Ledger, HeldIsDated
  <2>2. sweep.row[c] \in Row /\ sweep.loaded[c] \in Row /\ sweep.row[c] # sweep.loaded[c]
    BY <1>2 DEF SweepState, Changed
  <2> QED BY <2>1, <2>2 DEF Row
<1>9. \A c \in Codes : row[c] = IF c \in back THEN [status |-> "certified", certAt |-> now]
                                ELSE seen[c]
  OBVIOUS
<1>10. row \in [Codes -> Row]
  BY <1>2, <1>3 DEF Row, BlueprintStatus
<1>11. credit \in [Codes -> Proofs \cup {NoProof}]
  BY <1>6
<1>12. \A c \in Codes : \A p \in Proofs : credit[c] = p => c \in back /\ p = LastPassingProof(c)
  BY <1>2
<1> HIDE DEF loaded, seen, back, row, credit
<1>13. /\ h \in SweepState /\ h.pc = "restored" /\ h.overtaken = sweep.overtaken
       /\ \A c \in Codes : row[c] # loaded[c] =>
             h.row[c] = row[c] /\ h.loaded[c] = loaded[c]
       /\ \A c \in Codes : h.row[c] # h.loaded[c] => row[c] # loaded[c]
  <2> HIDE DEF h
  <2>1. h = Holding("restored", loaded, row)
    BY DEF h
  <2> QED BY <1>2, <1>3, <1>10, <2>1, HoldingKeeps
<1> HIDE DEF h
<1>14. /\ sweep' \in SweepState /\ sweep'.pc = "restored" /\ sweep'.credit = credit
       /\ sweep'.row = h.row /\ sweep'.loaded = h.loaded /\ sweep'.overtaken = sweep.overtaken
  BY <1>1, <1>11, <1>13 DEF SweepState
<1>15. HeldIsDated'
  <2> SUFFICES ASSUME NEW c \in Codes, Changed(c)'
               PROVE  /\ row[c].status \in {"certified", "suspended", "stale"}
                      /\ row[c].certAt > 0
                      /\ \A p \in Proofs : credits[c][p] > 0 => row[c].certAt >= proofs[p].end
                      /\ row[c].status # loaded[c].status /\ blueprints[c].status = "withdrawn"
                           => c \in sweep.overtaken
    <3>1. \A c \in Codes : Changed(c)' => sweep'.row[c] = row[c] /\ sweep'.loaded[c] = loaded[c]
      BY <1>13, <1>14 DEF Changed
    <3> QED BY <1>1, <1>14, <3>1 DEF HeldIsDated
  <2>1. row[c] # loaded[c]
    BY <1>13, <1>14 DEF Changed
  <2>2. CASE c \in back
    <3>1. row[c].status = "certified" /\ row[c].certAt = now
      BY <1>9, <2>2
    <3>2. ~Changed(c) => blueprints[c].status \in {"suspended", "stale"}
      BY <1>5, <1>7, <2>2
    <3> QED BY <1>2, <1>6, <1>8, <2>2, <3>1, <3>2
  <2>3. CASE c \notin back
    <3>1. row[c] = seen[c] /\ Changed(c)
      BY <1>7, <1>9, <2>1, <2>3
    <3>2. seen[c] = sweep.row[c]
      BY <1>8, <3>1
    <3> QED BY <1>4, <1>8, <3>1, <3>2 DEF CertInv, Ledger, HeldIsDated
  <2> QED BY <2>2, <2>3
<1>16. CreditIsNew'
  <2> SUFFICES ASSUME NEW c \in Codes, NEW p \in Proofs, credit[c] = p
               PROVE  /\ proofs[p].status = "passed" /\ credits[c][p] = 0
                      /\ sweep'.row[c].certAt # sweep'.loaded[c].certAt
                      /\ sweep'.row[c].certAt >= proofs[p].end
    BY <1>1, <1>14 DEF CreditIsNew
  <2>1. c \in back /\ p = LastPassingProof(c)
    BY <1>12
  <2>2. row[c].certAt = now /\ now > seen[c].certAt /\ seen[c].certAt = loaded[c].certAt
    BY <1>6, <1>7, <1>8, <1>9, <2>1
  <2>3. loaded[c].certAt \in Int /\ now \in Int
    BY <1>2, <1>3, CertificationAssumption DEF Row, Time
  <2>4. row[c].certAt # loaded[c].certAt
    BY <2>2, <2>3
  <2>5. sweep'.row[c] = row[c] /\ sweep'.loaded[c] = loaded[c]
    BY <1>13, <1>14, <2>4
  <2> QED BY <1>6, <2>1, <2>2, <2>4, <2>5
<1>17. Dated' /\ SpentBefore' /\ ProofSpentOnce' /\ IdleIsIdle'
  BY <1>1, <1>14 DEF CertInv, Ledger, Dated, SpentBefore, ProofSpentOnce, IdleIsIdle
<1> QED BY <1>1, <1>14, <1>15, <1>16, <1>17
        DEF CertInv, CertTypeOK, SweepState, EndsPast, LadderWaits, Ledger

\* The commit writes dates not before the proofs that were spent, this sweep's included.
LEMMA SweepCommitKeeps ==
    ASSUME CertInv, SweepCommit
    PROVE  CertInv'
<1>1. /\ sweep' = SweepIdle
      /\ UNCHANGED <<requests, proofs, proofsBegan, store, ladder, now, rare>>
  BY DEF SweepCommit
<1>2. CASE \E c \in Codes : Changed(c) /\ blueprints[c].status = "none"
  <2>1. UNCHANGED <<blueprints, credits>>
    BY <1>2 DEF SweepCommit
  <2> QED BY <1>1, <2>1, OverKeeps
          DEF CertInv, CertTypeOK, SweepState, EndsPast, LadderWaits
<1>3. CASE ~ \E c \in Codes : Changed(c) /\ blueprints[c].status = "none"
  <2>1. /\ blueprints' = [c \in Codes |-> IF Changed(c) THEN Written(c) ELSE blueprints[c]]
        /\ credits' = [c \in Codes |-> [p \in Proofs |->
              credits[c][p] + IF sweep.credit[c] = p THEN 1 ELSE 0]]
    BY <1>3 DEF SweepCommit
  <2>2. \A c \in Codes : Written(c) \in Row
    BY DEF Written, CertInv, CertTypeOK, Row
  <2>3. blueprints' \in [Codes -> Row]
    BY <2>1, <2>2 DEF CertInv, CertTypeOK
  <2>4. credits' \in [Codes -> [Proofs -> Nat]]
    BY <2>1 DEF CertInv, CertTypeOK
  <2>5. \A c \in Codes : Changed(c) =>
           /\ blueprints'[c].certAt \in {sweep.row[c].certAt, blueprints[c].certAt}
           /\ sweep.row[c].certAt # sweep.loaded[c].certAt =>
                 blueprints'[c].certAt = sweep.row[c].certAt
           /\ blueprints[c].status # "none"
    BY <1>3, <2>1 DEF Written
  <2>6. Dated'
    BY <2>1, <2>5 DEF CertInv, Ledger, Dated, HeldIsDated
  <2>7. ProofSpentOnce'
    BY <2>1 DEF CertInv, CertTypeOK, Ledger, ProofSpentOnce, CreditIsNew
  <2>8. SpentBefore'
    <3> SUFFICES ASSUME NEW c \in Codes, NEW p \in Proofs, credits'[c][p] > 0
                 PROVE  /\ proofs[p].status = "passed"
                        /\ blueprints'[c].status # "none" =>
                              blueprints'[c].certAt >= proofs[p].end
      BY <1>1 DEF SpentBefore
    <3>1. CASE sweep.credit[c] = p
      <4>1. /\ proofs[p].status = "passed" /\ sweep.row[c].certAt >= proofs[p].end
            /\ sweep.row[c].certAt # sweep.loaded[c].certAt
        BY <3>1 DEF CertInv, Ledger, CreditIsNew
      <4>2. Changed(c)
        BY <4>1 DEF Changed
      <4> QED BY <2>5, <4>1, <4>2
    <3>2. CASE sweep.credit[c] # p
      <4>1. credits[c][p] > 0
        BY <2>1, <3>2 DEF CertInv, CertTypeOK
      <4>2. proofs[p].status = "passed"
        BY <4>1 DEF CertInv, Ledger, SpentBefore
      <4>3. CASE Changed(c)
        BY <2>5, <4>1, <4>2, <4>3 DEF CertInv, Ledger, SpentBefore, HeldIsDated
      <4>4. CASE ~Changed(c)
        BY <2>1, <4>1, <4>2, <4>4 DEF CertInv, Ledger, SpentBefore
      <4> QED BY <4>3, <4>4
    <3> QED BY <3>1, <3>2
  <2>9. sweep' \in SweepState /\ IdleIsIdle' /\ HeldIsDated' /\ CreditIsNew'
    <3>1. NoProof \notin Proofs
      BY CertificationAssumption DEF NoProof
    <3> QED BY <1>1, <3>1, IdleHoldsNothing DEF IdleIsIdle, HeldIsDated, CreditIsNew
  <2> QED BY <1>1, <2>3, <2>4, <2>6, <2>7, <2>8, <2>9
          DEF CertInv, CertTypeOK, SweepState, EndsPast, LadderWaits, Ledger
<1> QED BY <1>2, <1>3

----------------------------------------------------------------------------
LEMMA CertInvInit == CertInit => CertInv
<1> SUFFICES ASSUME CertInit PROVE CertInv
  OBVIOUS
<1>1. 0 \in Time /\ 1 \in Time /\ NoProof \notin Proofs
  BY CertificationAssumption DEF Time, NoProof
<1>2. sweep \in SweepState /\ \A c \in Codes : ~Changed(c) /\ sweep.credit[c] = NoProof
  BY UnloadedIsRow DEF CertInit, SweepIdle, SweepState, Changed
<1>3. CertTypeOK
  <2>1. blueprints \in [Codes -> Row]
    BY <1>1 DEF CertInit, Row, BlueprintStatus
  <2>2. /\ requests \in [Reqs -> [says : {"nothing", "built", "failed"}, kind : Kinds, at : Time]]
        /\ proofs \in [Proofs -> ProofState]
    <3>1. {[says |-> "nothing", kind |-> k, at |-> 0] : k \in Kinds} \subseteq
              [says : {"nothing", "built", "failed"}, kind : Kinds, at : Time]
      BY <1>1
    <3>2. {[code |-> c, status |-> "unused", end |-> 0, refuted |-> FALSE] : c \in Codes}
              \subseteq ProofState
      <4>1. \A c \in Codes : [code |-> c, status |-> "unused", end |-> 0, refuted |-> FALSE]
                                \in ProofState
        BY <1>1 DEF ProofState, ProofStatus
      <4> QED BY <4>1
    <3>3. /\ requests \in [Reqs -> {[says |-> "nothing", kind |-> k, at |-> 0] : k \in Kinds}]
          /\ proofs \in [Proofs -> {[code |-> c, status |-> "unused", end |-> 0,
                                     refuted |-> FALSE] : c \in Codes}]
      BY DEF CertInit
    <3> QED BY <3>1, <3>2, <3>3
  <2>3. /\ ladder \in [Codes -> LadderState] /\ credits \in [Codes -> [Proofs -> Nat]]
        /\ now \in Time /\ proofsBegan \in Time /\ rare \in 0 .. MaxRare /\ store \subseteq Codes
    BY <1>1, CertificationAssumption DEF CertInit, LadderState
  <2> QED BY <1>2, <2>1, <2>2, <2>3 DEF CertTypeOK, SweepState, LadderState, ProofState
<1>4. EndsPast /\ LadderWaits
  BY DEF CertInit, EndsPast, LadderWaits
<1>5. Dated
  BY DEF CertInit, Dated
<1>6. SpentBefore /\ ProofSpentOnce /\ IdleIsIdle
  BY DEF CertInit, SpentBefore, ProofSpentOnce, IdleIsIdle
<1>7. HeldIsDated /\ CreditIsNew
  BY <1>1, <1>2 DEF HeldIsDated, CreditIsNew
<1> QED BY <1>3, <1>4, <1>5, <1>6, <1>7 DEF CertInv, Ledger

LEMMA CertInvStep == CertInv /\ [CertNext]_certVars => CertInv'
<1> SUFFICES ASSUME CertInv, [CertNext]_certVars PROVE CertInv'
  OBVIOUS
<1>1. CASE CertTick \/ CertCrash
  BY <1>1, TickKeeps, CrashKeeps
<1>2. CASE Sweep
  BY <1>2, SweepReviewKeeps, SweepRestoreKeeps, SweepCommitKeeps DEF Sweep
<1>3. CASE \E r \in Reqs : RequestFinishes(r) \/ RequestRetried(r)
  BY <1>3, RequestKeeps
<1>4. CASE \E c \in Codes : Ladder(c)
  BY <1>4, PublishKeeps, StartKeeps, FinishKeeps, CertifyFromProofKeeps, RefuseKeeps,
     TakeItBackKeeps, CommitTakeBackKeeps DEF Ladder
<1>5. CASE \E c \in Codes : CertifyByHand(c) \/ Decertify(c) \/ Retire(c)
  BY <1>5, PeopleKeep
<1>6. CASE UNCHANGED certVars
  BY <1>6 DEF certVars, CertInv, CertTypeOK, EndsPast, LadderWaits, Ledger, Dated, SpentBefore,
              IdleIsIdle, HeldIsDated, CreditIsNew, ProofSpentOnce, Changed
<1> QED BY <1>1, <1>2, <1>3, <1>4, <1>5, <1>6 DEF CertNext

\* Rows, requests, proofs, ladders and the sweep's session keep their types, and the dates
\* their order.
THEOREM CertCorrect == CertSpec => []CertInv
BY CertInvInit, CertInvStep, PTL DEF CertSpec

\* However suspensions, restorations and certifications interleave, no proof brings a
\* blueprint back twice.
THEOREM SpentOnce == CertSpec => []ProofSpentOnce
<1>1. CertInv => ProofSpentOnce
  BY DEF CertInv, Ledger
<1> QED BY <1>1, CertCorrect, PTL

\* What lifts a withdrawal in one step.
LEMMA LiftedBy ==
    ASSUME CertInv, [CertNext]_certVars, NEW c \in Codes,
           blueprints[c].status = "withdrawn", blueprints'[c].status # "withdrawn"
    PROVE  CertifyFromProof(c) \/ CertifyByHand(c) \/ Decertify(c) \/ c \in sweep.overtaken
<1>0. blueprints \in [Codes -> Row]
  BY DEF CertInv, CertTypeOK
<1>1. CASE CertTick \/ CertCrash \/ \E r \in Reqs : RequestFinishes(r) \/ RequestRetried(r)
  BY <1>1 DEF CertTick, CertCrash, RequestFinishes, RequestRetried
<1>2. CASE SweepRestore \/ \E answered \in BOOLEAN : SweepReview(answered)
  BY <1>2 DEF SweepRestore, SweepReview
<1>3. CASE SweepCommit
  <2>1. Changed(c) /\ blueprints'[c] = Written(c)
    BY <1>0, <1>3 DEF SweepCommit
  <2>2. sweep.row[c].status # sweep.loaded[c].status
    BY <2>1 DEF Written
  <2> QED BY <2>1, <2>2 DEF CertInv, Ledger, HeldIsDated
<1>4. ASSUME NEW d \in Codes, Ladder(d)
      PROVE  CertifyFromProof(c) \/ c \in sweep.overtaken
  <2>1. CASE CommitTakeBack(d)
    BY <1>0, <2>1 DEF CommitTakeBack, Withdraw, Row
  <2>2. CASE CertifyFromProof(d)
    BY <1>0, <2>2 DEF CertifyFromProof
  <2>3. CASE ~CommitTakeBack(d) /\ ~CertifyFromProof(d)
    BY <1>4, <2>3 DEF Ladder, PublishDraft, StartProof, FinishProof, NarrowContainer,
                      RefuseAtTheDoor, TakeItBack
  <2> QED BY <2>1, <2>2, <2>3
<1>5. ASSUME NEW d \in Codes, CertifyByHand(d) \/ Decertify(d) \/ Retire(d)
      PROVE  CertifyByHand(c) \/ Decertify(c)
  <2>1. CASE CertifyByHand(d) \/ Decertify(d)
    BY <1>0, <2>1 DEF CertifyByHand, Decertify
  <2>2. CASE Retire(d)
    BY <1>0, <2>2 DEF Retire, Withdraw, Row
  <2> QED BY <1>5, <2>1, <2>2
<1>6. CASE UNCHANGED certVars
  BY <1>6 DEF certVars
<1> QED BY <1>1, <1>2, <1>3, <1>4, <1>5, <1>6 DEF CertNext, Sweep

\* A withdrawn recipe comes back only through a proof of a recipe, a person, or a sweep
\* that had loaded the row before it was withdrawn.
THEOREM WithdrawalStays == CertSpec => WithdrawnStays
<1>1. CertInv /\ [CertNext]_certVars =>
        [\A c \in Codes :
            blueprints[c].status = "withdrawn" /\ blueprints'[c].status # "withdrawn" =>
               \/ CertifyFromProof(c) \/ CertifyByHand(c) \/ Decertify(c)
               \/ c \in sweep.overtaken]_certVars
  BY LiftedBy
<1> QED BY <1>1, CertCorrect, PTL DEF CertSpec, WithdrawnStays
=============================================================================

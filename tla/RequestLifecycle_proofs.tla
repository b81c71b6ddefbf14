----------------------- MODULE RequestLifecycle_proofs -----------------------
(***************************************************************************)
(* Theorems of RequestLifecycle, for any number of requests, units,        *)
(* pollers and buttons, and any number of faults.  The agreement of status, *)
(* rows, ledger and cloud is the exception: it needs a system where no call *)
(* fails and one thread works on a request (Calm), or, for the ledger,      *)
(* histories without a half failed destroy.  And a request that nobody can *)
(* reach is ruled out where the ladder of builds is off.                   *)
(***************************************************************************)
EXTENDS RequestLifecycle, TLAPS

\* The part of the type invariant that is about the threads.
WorkOK ==
    /\ work \in [Workers -> Work]
    /\ \A w \in Workers : WellFormed(work[w])

LEMMA NormalizeType == \A t \in Tickets : Normalize(t) \in Verdicts
BY DEF Normalize, Tickets, Verdicts

LEMMA IdleWork == Idle \in Work
BY DEF Idle, Work, Pcs, Statuses, QUEUED_STATUSES, Verdicts, Replies

\* A new value for one thread keeps the threads in their type.
LEMMA SetWork ==
  ASSUME TypeOK, NEW w \in Workers, NEW e \in Work,
         WellFormed(e),
         work' = [work EXCEPT ![w] = e]
  PROVE  WorkOK'
BY DEF TypeOK, WorkOK

LEMMA DoneType ==
  ASSUME TypeOK, NEW w \in Workers, Done(w)
  PROVE  WorkOK'
<1>1. WellFormed(Idle)
  BY DEF WellFormed, Idle, Calls
<1>2. QED
  BY <1>1, IdleWork, SetWork DEF Done

LEMMA LoadedType ==
  ASSUME TypeOK, NEW r \in Requests, NEW pc \in Pcs
  PROVE  /\ Loaded(r, pc) \in Work
         /\ Loaded(r, pc).ref = r /\ Loaded(r, pc).pc = pc
         /\ Loaded(r, pc).st = status[r]
BY DEF TypeOK, Loaded, Idle, Work, Pcs, Statuses, QUEUED_STATUSES, Verdicts, Replies

LEMMA GoType ==
  ASSUME TypeOK, NEW w \in Workers, work[w].ref \in Requests,
         NEW pc \in Pcs \ Calls, Go(w, pc)
  PROVE  WorkOK'
<1>1. [work[w] EXCEPT !.pc = pc] \in Work
  BY DEF TypeOK, Work
<1>2. WellFormed([work[w] EXCEPT !.pc = pc])
  BY DEF TypeOK, Work, WellFormed
<1>3. QED
  BY <1>1, <1>2, SetWork DEF Go

LEMMA GoWithType ==
  ASSUME TypeOK, NEW w \in Workers, work[w].ref \in Requests,
         NEW pc \in Pcs \ Calls, NEW s \in Statuses, GoWith(w, pc, s)
  PROVE  WorkOK'
<1>1. [work[w] EXCEPT !.pc = pc, !.st = s] \in Work
  BY DEF TypeOK, Work
<1>2. WellFormed([work[w] EXCEPT !.pc = pc, !.st = s])
  BY DEF TypeOK, Work, WellFormed
<1>3. QED
  BY <1>1, <1>2, SetWork DEF GoWith, TypeOK

LEMMA ReplyType ==
  ASSUME TypeOK, NEW w \in Workers, work[w].ref \in Requests,
         NEW out \in Replies \ {"none"}, work' = [work EXCEPT ![w].reply = out]
  PROVE  WorkOK'
<1>1. [work[w] EXCEPT !.reply = out] \in Work
  BY DEF TypeOK, Work
<1>2. WellFormed([work[w] EXCEPT !.reply = out])
  BY DEF TypeOK, Work, WellFormed
<1>3. QED
  BY <1>1, <1>2, SetWork

LEMMA CallType ==
  ASSUME TypeOK, LifecycleConstants, NEW w \in Workers, NEW pc \in Pcs, NEW e \in Work,
         e.ref \in Requests, Call(w, pc, e)
  PROVE  WorkOK'
<1>1. [e EXCEPT !.pc = pc, !.left = PostAttempts] \in Work
  BY DEF Work, LifecycleConstants
<1>2. WellFormed([e EXCEPT !.pc = pc, !.left = PostAttempts])
  BY DEF Work, WellFormed, LifecycleConstants
<1>3. QED
  BY <1>1, <1>2, SetWork DEF Call

LEMMA FreshType ==
  ASSUME NEW r \in Requests
  PROVE  Fresh(r) \in Work /\ Fresh(r).ref = r
BY IdleWork DEF Fresh, Idle, Work

LEMMA ReverifyType ==
  ASSUME TypeOK, NEW r \in Requests, Reverify(r)
  PROVE  appr' \in [Requests -> Verdicts]
<1>1. Normalize(ticket[r]) \in Verdicts
  BY NormalizeType DEF TypeOK
<1>2. QED
  BY <1>1 DEF TypeOK, Reverify

LEMMA CreateType ==
  ASSUME TypeOK, NEW r \in Requests, NEW S \in SUBSET Units, Create(r, S)
  PROVE  /\ plans' \in [Requests -> SUBSET Units]
         /\ live' \in [Requests -> SUBSET Units]
         /\ made' \in [Requests -> SUBSET Units]
<1>1. /\ plans \in [Requests -> SUBSET Units] /\ live \in [Requests -> SUBSET Units]
      /\ made \in [Requests -> SUBSET Units]
  BY DEF TypeOK
<1>2. plans' \in [Requests -> SUBSET Units]
  BY <1>1 DEF Create
<1>3. live' \in [Requests -> SUBSET Units]
  BY <1>1 DEF Create
<1>4. made' \in [Requests -> SUBSET Units]
  BY <1>1 DEF Create
<1>5. QED
  BY <1>2, <1>3, <1>4

\* What a call does at the orchestrator keeps its state in its types.
OrchOK ==
    /\ appr \in [Requests -> Verdicts]
    /\ ledger \subseteq Requests
    /\ plans \in [Requests -> SUBSET Units]
    /\ live \in [Requests -> SUBSET Units]
    /\ made \in [Requests -> SUBSET Units]

LEMMA HandleType ==
  ASSUME TypeOK, NEW r \in Requests, NEW op, NEW out, Handle(op, r, out)
  PROVE  OrchOK'
<1>0. OrchOK
  BY DEF TypeOK, OrchOK
<1>1. CASE HandlePlan(r, out)
  <2>1. appr' \in [Requests -> Verdicts]
    BY <1>1, ReverifyType DEF HandlePlan, Approves
  <2>2. plans' \in [Requests -> SUBSET Units]
    BY <1>0, <1>1 DEF OrchOK, HandlePlan
  <2>3. QED
    BY <1>0, <1>1, <2>1, <2>2 DEF OrchOK, HandlePlan
<1>2. CASE HandleApply(r, out)
  <2>1. appr' \in [Requests -> Verdicts]
    BY <1>2, ReverifyType DEF HandleApply, Approves
  <2>2. ledger' \subseteq Requests
    BY <1>0, <1>2 DEF OrchOK, HandleApply, orch
  <2>3. UNCHANGED <<plans, live, made>> \/ \E S \in SUBSET Units : Create(r, S)
    BY <1>0, <1>2 DEF OrchOK, HandleApply, orch
  <2>4. QED
    BY <1>0, <2>1, <2>2, <2>3, CreateType DEF OrchOK
<1>3. CASE HandleDestroy(r, out)
  BY <1>0, <1>3 DEF OrchOK, HandleDestroy
<1>4. QED
  BY <1>1, <1>2, <1>3 DEF Handle

-----------------------------------------------------------------------------
\* Type correctness, action by action.

LEMMA NetworkType ==
  ASSUME TypeOK, LifecycleConstants, NEW w \in Workers, Network(w)
  PROVE  TypeOK'
<1> DEFINE r == work[w].ref
<1>0. /\ work \in [Workers -> Work] /\ work[w] \in Work /\ OrchOK
      /\ \A v \in Workers : WellFormed(work[v])
  BY DEF TypeOK, OrchOK
<1>1. work[w].pc \in Calls /\ r \in Requests
  BY <1>0 DEF Network, Answer, PartialWork, CallLost, CallTimesOut, Waiting, Calls,
              WellFormed
<1>2. ASSUME NEW error \in Replies \ {"none"}, Waiting(w), Retry(w, error)
      PROVE  WorkOK'
  <2> DEFINE e == [work[w] EXCEPT !.left = @ - 1,
                                  !.reply = IF work[w].left = 1 THEN error ELSE "none"]
  <2>1. work[w].left \in Nat \ {0}
    BY <1>0, <1>2 DEF WellFormed, Waiting, Work
  <2>2. e \in Work
    <3>1. work[w].left - 1 \in Nat
      BY <2>1
    <3>2. (IF work[w].left = 1 THEN error ELSE "none") \in Replies
      BY DEF Replies
    <3>3. QED
      BY <1>0, <3>1, <3>2 DEF Work
  <2>3. WellFormed(e)
    BY <1>0, <1>1, <1>2, <2>1 DEF WellFormed, Work
  <2>4. QED
    BY <1>2, <2>2, <2>3, SetWork DEF Retry
<1>3. CASE Answer(w)
  <2>1. PICK out \in Replies : /\ Handle(work[w].pc, r, out)
                               /\ work' = [work EXCEPT ![w].reply = out]
    BY <1>3 DEF Answer
  <2>2. OrchOK'
    BY <1>1, <2>1, HandleType
  <2>3. WorkOK'
    BY <1>1, <1>3, ReplyType DEF Answer
  <2>4. QED
    BY <1>3, <2>2, <2>3 DEF TypeOK, OrchOK, WorkOK, Answer
<1>4. CASE PartialWork(w)
  <2>1. WorkOK'
    BY <1>1, <1>4, ReplyType DEF PartialWork, Replies
  <2>2. OrchOK'
    BY <1>0, <1>1, <1>4, ReverifyType, CreateType DEF PartialWork, OrchOK, Approves
  <2>3. faults' \in Nat
    BY <1>4 DEF PartialWork, Fault, TypeOK
  <2>4. QED
    BY <1>4, <2>1, <2>2, <2>3 DEF TypeOK, OrchOK, WorkOK, PartialWork
<1>5. CASE CallLost(w)
  <2>1. WorkOK'
    BY <1>2, <1>5 DEF CallLost, Replies
  <2>2. OrchOK'
    BY <1>0, <1>1, <1>5, HandleType DEF CallLost, OrchOK, orch
  <2>3. faults' \in Nat
    BY <1>5 DEF CallLost, Fault, Outage, TypeOK
  <2>4. QED
    BY <1>5, <2>1, <2>2, <2>3 DEF TypeOK, OrchOK, WorkOK, CallLost
<1>6. CASE CallTimesOut(w)
  <2>1. WorkOK'
    BY <1>2, <1>6 DEF CallTimesOut, Replies
  <2>2. ghosts' \subseteq Calls \X Requests
    BY <1>1, <1>6 DEF CallTimesOut, TypeOK
  <2>3. faults' \in Nat
    BY <1>6 DEF CallTimesOut, Fault, Outage, TypeOK
  <2>4. QED
    BY <1>6, <2>1, <2>2, <2>3 DEF TypeOK, WorkOK, CallTimesOut, db, orch
<1>7. QED
  BY <1>3, <1>4, <1>5, <1>6 DEF Network

LEMMA SetStatusType ==
  ASSUME TypeOK, NEW w, NEW r \in Requests, NEW s \in Statuses, SetStatus(w, r, s)
  PROVE  status' \in [Requests -> Statuses]
BY DEF TypeOK, SetStatus

LEMMA StoreApprovalType ==
  ASSUME TypeOK, NEW w, NEW r \in Requests, NEW v \in Verdicts, StoreApproval(w, r, v)
  PROVE  appr' \in [Requests -> Verdicts]
BY DEF TypeOK, StoreApproval

LEMMA RecordType ==
  ASSUME TypeOK, NEW r \in Requests, Record(r)
  PROVE  rows' \in [Requests -> [Units -> 0 .. 2]] /\ had' \in [Requests -> BOOLEAN]
BY DEF TypeOK, Record

\* The statuses the code writes are statuses.
LEMMA StatusValues ==
  {"submitted", "planned", "auto-building", "in-progress", "apply-failed",
   "verify-failed", "manual-fulfil", "cost-changed", "provisioned", "rejected",
   "cancelled", "decommissioned"} \subseteq Statuses
BY DEF Statuses, QUEUED_STATUSES, WORKING_STATUSES, CANCELLABLE

LEMMA PollType ==
  ASSUME TypeOK, LifecycleConstants, NEW p \in Pollers, Poll(p)
  PROVE  TypeOK'
<1> DEFINE r == work[p].ref
<1> USE StatusValues
<1>0. /\ p \in Workers /\ work[p] \in Work /\ WellFormed(work[p])
      /\ work[p].tr \in Nat /\ work[p].st \in Statuses
  BY DEF TypeOK, Workers, Work
<1>1. work[p].pc # "idle" => r \in Requests
  BY <1>0 DEF WellFormed
<1>2. ASSUME NEW q \in Requests, Visit(p, q) PROVE TypeOK'
  <2>1. /\ WellFormed(Loaded(q, "jira")) /\ Loaded(q, "jira") \in Work
        /\ WellFormed(Loaded(q, "start")) /\ Loaded(q, "start") \in Work
    BY LoadedType DEF WellFormed, Pcs, Calls
  <2>2. WorkOK'
    BY <1>0, <1>2, <2>1, SetWork DEF Visit
  <2>3. QED
    BY <1>2, <2>2 DEF TypeOK, WorkOK, Visit, db, orch
<1>3. CASE PollNotApproved(p)
  <2>1. r \in Requests /\ Normalize(ticket[r]) \in Verdicts
    BY <1>1, <1>3, NormalizeType DEF PollNotApproved, At, TypeOK
  <2>2. status' \in [Requests -> Statuses]
    BY <1>3, <2>1, SetStatusType DEF PollNotApproved, TypeOK
  <2>3. appr' \in [Requests -> Verdicts]
    BY <1>3, <2>1, StoreApprovalType DEF PollNotApproved
  <2>4. WorkOK'
    BY <1>0, <1>3, DoneType DEF PollNotApproved
  <2>5. QED
    BY <1>3, <2>2, <2>3, <2>4 DEF TypeOK, WorkOK, PollNotApproved, orch
<1>4. CASE PollHeld(p)
  <2>1. r \in Requests
    BY <1>1, <1>4 DEF PollHeld, At
  <2>2. appr' \in [Requests -> Verdicts]
    BY <1>4, <2>1, StoreApprovalType DEF PollHeld, TypeOK, Verdicts
  <2>3. WorkOK'
    BY <1>0, <1>4, DoneType DEF PollHeld
  <2>4. QED
    BY <1>4, <2>2, <2>3 DEF TypeOK, WorkOK, PollHeld, orch
<1>5. CASE PollApproved(p)
  <2>1. r \in Requests
    BY <1>1, <1>5 DEF PollApproved, At
  <2>2. appr' \in [Requests -> Verdicts]
    BY <1>5, <2>1, StoreApprovalType DEF PollApproved, Verdicts
  <2>3. [work[p] EXCEPT !.pc = "fulfil", !.ap = "approved"] \in Work
    BY <1>0 DEF Work, Pcs, Verdicts
  <2>4. WellFormed([work[p] EXCEPT !.pc = "fulfil", !.ap = "approved"])
    BY <1>0, <2>1 DEF Work, WellFormed, Calls
  <2>5. WorkOK'
    <3>1. work' = [work EXCEPT ![p] = [work[p] EXCEPT !.pc = "fulfil", !.ap = "approved"]]
      BY <1>5 DEF PollApproved, TypeOK
    <3>2. QED
      BY <1>0, <2>3, <2>4, <3>1, SetWork
  <2>6. QED
    BY <1>5, <2>2, <2>5 DEF TypeOK, WorkOK, PollApproved, orch
<1>6. ASSUME ManualFulfilment(p), r \in Requests
      PROVE  WorkOK' /\ status' \in [Requests -> Statuses]
  BY <1>0, <1>6, DoneType DEF ManualFulfilment, TypeOK
<1>7. CASE Fulfil(p)
  <2>1. r \in Requests
    BY <1>1, <1>7 DEF Fulfil, At
  <2>2. WorkOK' /\ status' \in [Requests -> Statuses]
    <3>1. CASE ManualFulfilment(p)
      BY <1>6, <2>1, <3>1
    <3>2. CASE /\ status' = [status EXCEPT ![work[p].ref] = "auto-building"]
               /\ GoWith(p, "autobuild", "auto-building")
      BY <1>0, <2>1, <3>2, GoWithType DEF TypeOK, Pcs, Calls
    <3>3. CASE Go(p, "handoff") /\ UNCHANGED status
      BY <1>0, <2>1, <3>3, GoType DEF TypeOK, Pcs, Calls
    <3>4. QED
      BY <1>7, <3>1, <3>2, <3>3 DEF Fulfil
  <2>3. QED
    BY <1>7, <2>2 DEF TypeOK, WorkOK, Fulfil, orch
<1>8. CASE AutobuildDone(p)
  <2>1. r \in Requests
    BY <1>1, <1>8 DEF AutobuildDone, At
  <2>2. WorkOK' /\ status' \in [Requests -> Statuses]
    <3>1. CASE ManualFulfilment(p)
      BY <1>6, <2>1, <3>1
    <3>2. CASE GoWith(p, "handoff", "in-progress") /\ UNCHANGED status
      BY <1>0, <2>1, <3>2, GoWithType DEF TypeOK, Pcs, Calls
    <3>3. CASE Go(p, "handoff") /\ UNCHANGED status
      BY <1>0, <2>1, <3>3, GoType DEF TypeOK, Pcs, Calls
    <3>4. QED
      BY <1>8, <3>1, <3>2, <3>3 DEF AutobuildDone
  <2>3. QED
    BY <1>8, <2>2 DEF TypeOK, WorkOK, AutobuildDone, orch
<1>9. CASE PollHalted(p)
  <2>1. WorkOK'
    BY <1>0, <1>9, DoneType DEF PollHalted
  <2>2. QED
    BY <1>9, <2>1 DEF TypeOK, WorkOK, PollHalted, db, orch
<1>10. CASE Handoff(p)
  <2>1. r \in Requests
    BY <1>1, <1>10 DEF Handoff, At
  <2>2. WorkOK'
    BY <1>0, <1>10, <2>1, CallType DEF Handoff, Pcs, Calls
  <2>3. status' \in [Requests -> Statuses]
    BY <1>10, <2>1 DEF Handoff, TypeOK
  <2>4. QED
    BY <1>10, <2>2, <2>3 DEF TypeOK, WorkOK, Handoff, orch
<1>11. CASE PlanFails(p)
  <2>1. r \in Requests
    BY <1>1, <1>11 DEF PlanFails, At
  <2>2. WorkOK'
    BY <1>0, <1>11, DoneType DEF PlanFails
  <2>3. status' \in [Requests -> Statuses]
    BY <1>11, <2>1 DEF PlanFails, TypeOK
  <2>4. attempts' \in [Requests -> Nat] /\ burned' \in [Requests -> Nat]
    BY <1>0, <1>11, <2>1 DEF PlanFails, TypeOK
  <2>5. QED
    BY <1>11, <2>2, <2>3, <2>4 DEF TypeOK, WorkOK, PlanFails, orch
<1>12. ASSUME ClearAttempts(p, r), r \in Requests
       PROVE  attempts' \in [Requests -> Nat] /\ burned' \in [Requests -> Nat]
  BY <1>12 DEF ClearAttempts, TypeOK
<1>13. CASE PlanSucceeds(p)
  <2>1. r \in Requests
    BY <1>1, <1>13 DEF PlanSucceeds, At
  <2>2. /\ [Fresh(r) EXCEPT !.pc = "start", !.st = "planned"] \in Work
        /\ WellFormed([Fresh(r) EXCEPT !.pc = "start", !.st = "planned"])
    BY <2>1 DEF Fresh, Idle, Work, WellFormed, Pcs, Calls, Replies, Verdicts
  <2>3. WorkOK'
    BY <1>0, <1>13, <2>2, SetWork DEF PlanSucceeds
  <2>4. status' \in [Requests -> Statuses]
    BY <1>13, <2>1, SetStatusType DEF PlanSucceeds
  <2>5. attempts' \in [Requests -> Nat] /\ burned' \in [Requests -> Nat]
    BY <1>12, <1>13, <2>1 DEF PlanSucceeds
  <2>6. QED
    BY <1>13, <2>3, <2>4, <2>5 DEF TypeOK, WorkOK, PlanSucceeds, orch
<1>14. CASE PlanFindsBuilt(p)
  <2>1. r \in Requests
    BY <1>1, <1>14 DEF PlanFindsBuilt, At
  <2>2. WorkOK'
    BY <1>0, <1>14, DoneType DEF PlanFindsBuilt
  <2>3. status' \in [Requests -> Statuses]
    BY <1>14, <2>1, SetStatusType DEF PlanFindsBuilt
  <2>4. attempts' \in [Requests -> Nat] /\ burned' \in [Requests -> Nat]
    BY <1>12, <1>14, <2>1 DEF PlanFindsBuilt
  <2>5. rows' \in [Requests -> [Units -> 0 .. 2]] /\ had' \in [Requests -> BOOLEAN]
    BY <1>14, <2>1, RecordType DEF PlanFindsBuilt
  <2>6. QED
    BY <1>14, <2>2, <2>3, <2>4, <2>5 DEF TypeOK, WorkOK, PlanFindsBuilt, orch
<1>15. QED
  BY <1>2, <1>3, <1>4, <1>5, <1>7, <1>8, <1>9, <1>10, <1>11, <1>13, <1>14 DEF Poll

LEMMA ButtonType ==
  ASSUME TypeOK, LifecycleConstants, NEW c \in Clickers, Button(c)
  PROVE  TypeOK'
<1> DEFINE r == work[c].ref
<1> USE StatusValues
<1>0. /\ c \in Workers /\ work[c] \in Work /\ WellFormed(work[c])
  BY DEF TypeOK, Workers
<1>1. work[c].pc # "idle" => r \in Requests
  BY <1>0 DEF WellFormed
<1>2. ASSUME NEW q \in Requests, NEW pc \in Pcs \ Calls, Click(c, q, pc) PROVE TypeOK'
  <2>1. /\ WellFormed(Loaded(q, pc)) /\ Loaded(q, pc) \in Work
    BY LoadedType DEF WellFormed
  <2>2. WorkOK'
    BY <1>0, <1>2, <2>1, SetWork DEF Click
  <2>3. QED
    BY <1>2, <2>2 DEF TypeOK, WorkOK, Click, db, orch
<1>3. ASSUME NEW q \in Requests,
             ClickApprove(c, q) \/ ClickApply(c, q) \/ ClickCancel(c, q)
      PROVE  TypeOK'
  BY <1>2, <1>3 DEF ClickApprove, ClickApply, ClickCancel, Pcs, Calls
<1>4. ASSUME NEW q \in Requests, ClickRetry(c, q) PROVE TypeOK'
  BY <1>4 DEF TypeOK, ClickRetry, orch
<1>5. ASSUME NEW q \in Requests, ClickDestroy(c, q) PROVE TypeOK'
  <2>1. Loaded(q, "destroying") \in Work /\ Loaded(q, "destroying").ref = q
    BY LoadedType DEF Pcs, Calls
  <2>2. WorkOK'
    BY <1>0, <1>5, <2>1, CallType DEF ClickDestroy, Pcs, Calls
  <2>3. QED
    BY <1>5, <2>2 DEF TypeOK, WorkOK, ClickDestroy, db, orch
<1>6. CASE ApproveRefused(c)
  <2>1. r \in Requests /\ Normalize(ticket[r]) \in Verdicts
    BY <1>1, <1>6, NormalizeType DEF ApproveRefused, At, TypeOK
  <2>2. appr' \in [Requests -> Verdicts]
    BY <1>6, <2>1, StoreApprovalType DEF ApproveRefused, TypeOK
  <2>3. WorkOK'
    BY <1>0, <1>6, DoneType DEF ApproveRefused
  <2>4. QED
    BY <1>6, <2>2, <2>3 DEF TypeOK, WorkOK, ApproveRefused, orch
<1>7. CASE Approve(c)
  <2>1. r \in Requests
    BY <1>1, <1>7 DEF Approve, At
  <2>2. appr' \in [Requests -> Verdicts]
    BY <1>7, <2>1, StoreApprovalType DEF Approve, Verdicts
  <2>3. /\ [work[c] EXCEPT !.ap = "approved"] \in Work
        /\ [work[c] EXCEPT !.ap = "approved"].ref \in Requests
    BY <1>0, <2>1 DEF Work, Verdicts
  <2>4. WorkOK'
    BY <1>0, <1>7, <2>3, CallType DEF Approve, Pcs, Calls
  <2>5. QED
    BY <1>7, <2>2, <2>4 DEF TypeOK, WorkOK, Approve, orch
<1>8. CASE ApproveEnds(c)
  <2>1. r \in Requests
    BY <1>1, <1>8 DEF ApproveEnds, At
  <2>2. SetStatus(c, r, "planned") \/ SetStatus(c, r, "provisioned") \/ UNCHANGED status
    BY <1>8 DEF ApproveEnds
  <2>3. status' \in [Requests -> Statuses]
    BY <2>1, <2>2, SetStatusType DEF TypeOK
  <2>4. WorkOK'
    BY <1>0, <1>8, DoneType DEF ApproveEnds
  <2>5. QED
    BY <1>8, <2>3, <2>4 DEF TypeOK, WorkOK, ApproveEnds, orch
<1>9. CASE Cancel(c)
  <2>1. r \in Requests
    BY <1>1, <1>9 DEF Cancel, At
  <2>2. status' \in [Requests -> Statuses] /\ ticket' \in [Requests -> Tickets]
    BY <1>9, <2>1 DEF Cancel, TypeOK, Tickets
  <2>3. WorkOK'
    BY <1>0, <1>9, DoneType DEF Cancel
  <2>4. QED
    BY <1>9, <2>2, <2>3 DEF TypeOK, WorkOK, Cancel, orch
<1>10. CASE DestroyEnds(c)
  <2>1. r \in Requests
    BY <1>1, <1>10 DEF DestroyEnds, At
  <2>2. status' \in [Requests -> Statuses]
    BY <1>10, <2>1, SetStatusType DEF DestroyEnds, TypeOK
  <2>3. rows' \in [Requests -> [Units -> 0 .. 2]]
    <3>1. [u \in Units |-> 0] \in [Units -> 0 .. 2]
      OBVIOUS
    <3>2. rows' = [rows EXCEPT ![r] = [u \in Units |-> 0]] \/ rows' = rows
      BY <1>10 DEF DestroyEnds
    <3>3. QED
      BY <2>1, <3>1, <3>2 DEF TypeOK
  <2>4. WorkOK'
    BY <1>0, <1>10, DoneType DEF DestroyEnds
  <2>5. QED
    BY <1>10, <2>2, <2>3, <2>4 DEF TypeOK, WorkOK, DestroyEnds, orch
<1>11. QED
  BY <1>3, <1>4, <1>5, <1>6, <1>7, <1>8, <1>9, <1>10 DEF Button

LEMMA TransitionType ==
  ASSUME TypeOK, NEW r \in Requests, NEW to \in Tickets, Transition(r, to)
  PROVE  ticket' \in [Requests -> Tickets]
BY DEF TypeOK, Transition

LEMMA BuildType ==
  ASSUME TypeOK, LifecycleConstants, NEW w \in Workers, Build(w)
  PROVE  TypeOK'
<1> DEFINE r == work[w].ref
<1> USE StatusValues
<1>0. work[w] \in Work /\ WellFormed(work[w])
  BY DEF TypeOK
<1>1. work[w].pc # "idle" => r \in Requests
  BY <1>0 DEF WellFormed
<1>2. CASE StartApply(w)
  <2>1. r \in Requests
    BY <1>1, <1>2 DEF StartApply, At
  <2>2. status' \in [Requests -> Statuses]
    BY <1>2, <2>1, SetStatusType DEF StartApply
  <2>3. ticket' \in [Requests -> Tickets]
    BY <1>2, <2>1, TransitionType DEF StartApply, Tickets
  <2>4. WorkOK'
    BY <1>2, <2>1, FreshType, CallType DEF StartApply, Pcs, Calls
  <2>5. QED
    BY <1>2, <2>2, <2>3, <2>4 DEF TypeOK, WorkOK, StartApply, orch
<1>3. CASE ApplyFails(w)
  <2>1. r \in Requests
    BY <1>1, <1>3 DEF ApplyFails, At
  <2>2. status' \in [Requests -> Statuses]
    BY <1>3, <2>1 DEF ApplyFails, TypeOK
  <2>3. WorkOK'
    BY <1>3, DoneType DEF ApplyFails
  <2>4. QED
    BY <1>3, <2>2, <2>3 DEF TypeOK, WorkOK, ApplyFails, orch
<1>4. CASE ApplyEnds(w)
  <2>1. r \in Requests
    BY <1>1, <1>4 DEF ApplyEnds, At
  <2>2. rows' \in [Requests -> [Units -> 0 .. 2]] /\ had' \in [Requests -> BOOLEAN]
    BY <1>4, <2>1, RecordType DEF ApplyEnds, TypeOK
  <2>3. /\ [Fresh(r) EXCEPT !.pc = "verifying"] \in Work
        /\ WellFormed([Fresh(r) EXCEPT !.pc = "verifying"])
    BY <2>1, FreshType DEF Work, WellFormed, Pcs, Calls
  <2>4. WorkOK'
    BY <1>4, <2>3, SetWork DEF ApplyEnds
  <2>5. QED
    BY <1>4, <2>2, <2>4 DEF TypeOK, WorkOK, ApplyEnds, orch
<1>5. CASE Verified(w)
  <2>1. r \in Requests
    BY <1>1, <1>5 DEF Verified, At
  <2>2. status' \in [Requests -> Statuses]
    BY <1>5, <2>1 DEF Verified, TypeOK
  <2>3. ticket' \in [Requests -> Tickets]
    BY <1>5, <2>1, TransitionType DEF Verified, Tickets, TypeOK
  <2>4. appr' \in [Requests -> Verdicts]
    BY <1>5, <2>1, ReverifyType DEF Verified, Approves, TypeOK
  <2>5. WorkOK'
    BY <1>5, DoneType DEF Verified
  <2>6. QED
    BY <1>5, <2>2, <2>3, <2>4, <2>5 DEF TypeOK, WorkOK, Verified, orch
<1>6. QED
  BY <1>2, <1>3, <1>4, <1>5 DEF Build

LEMMA WorldType ==
  ASSUME TypeOK, LifecycleConstants
  PROVE  /\ \A r \in Requests : ManagerDecides(r) \/ ChatDecides(r) => TypeOK'
         /\ GhostRuns \/ OrchRestarts \/ ApiRestarts => TypeOK'
<1>1. ASSUME NEW r \in Requests, ManagerDecides(r) PROVE TypeOK'
  BY <1>1 DEF TypeOK, ManagerDecides, Rejects, Signs, Tickets, db, orch
<1>2. ASSUME NEW r \in Requests, ChatDecides(r) PROVE TypeOK'
  <2>1. ticket' \in [Requests -> Tickets] /\ signed' \in [Requests -> BOOLEAN]
    BY <1>2 DEF TypeOK, ChatDecides, Rejects, Signs, Tickets
  <2>2. Normalize(ticket'[r]) \in Verdicts
    BY <2>1, NormalizeType
  <2>3. appr' \in [Requests -> Verdicts]
    BY <1>2, <2>2 DEF TypeOK, ChatDecides
  <2>4. QED
    BY <1>2, <2>1, <2>3 DEF TypeOK, ChatDecides, orch
<1>3. CASE GhostRuns
  <2>1. PICK g \in ghosts : \E out \in Replies :
              /\ Handle(g[1], g[2], out)
              /\ ghosts' = ghosts \ {g}
    BY <1>3 DEF GhostRuns
  <2>2. g[2] \in Requests
    BY DEF TypeOK
  <2>3. OrchOK'
    BY <2>1, <2>2, HandleType
  <2>4. QED
    BY <1>3, <2>1, <2>3 DEF TypeOK, OrchOK, GhostRuns
<1>4. CASE OrchRestarts
  BY <1>4 DEF TypeOK, OrchRestarts, Fault, db
<1>5. CASE ApiRestarts
  <2>1. WorkOK'
    BY <1>5, IdleWork DEF ApiRestarts, WorkOK, WellFormed, Idle, Calls
  <2>2. \A w \in Workers : Waiting(w) => <<work[w].pc, work[w].ref>> \in Calls \X Requests
    BY DEF TypeOK, Waiting, WellFormed, Calls
  <2>3. ghosts' \subseteq Calls \X Requests
    BY <1>5, <2>2 DEF TypeOK, ApiRestarts, InFlight
  <2>4. QED
    BY <1>5, <2>1, <2>3 DEF TypeOK, WorkOK, ApiRestarts, Fault, db, orch
<1>6. QED
  BY <1>1, <1>2, <1>3, <1>4, <1>5

LEMMA TypeStep == TypeOK /\ [Next]_vars => TypeOK'
<1> SUFFICES ASSUME TypeOK, [Next]_vars PROVE TypeOK'
  OBVIOUS
<1>1. CASE Next
  <2>1. Pollers \subseteq Workers /\ Clickers \subseteq Workers
    BY DEF Workers
  <2>2. QED
    BY <1>1, <2>1, LifecycleConstants, PollType, ButtonType, BuildType, NetworkType, WorldType
       DEF Next
<1>2. CASE UNCHANGED vars
  BY <1>2 DEF TypeOK, vars, Waiting
<1>3. QED
  BY <1>1, <1>2

\* The variables keep their types: every status written is one of the column's
\* vocabulary (api/main.py), every session and call is well formed.
THEOREM TypeCorrect == Spec => []TypeOK
<1>1. Init => TypeOK
  <2>1. Init => status \in [Requests -> Statuses]
    BY StatusValues DEF Init
  <2>2. Init => WorkOK
    BY IdleWork DEF Init, WorkOK, WellFormed, Idle, Calls
  <2>3. QED
    BY <2>1, <2>2 DEF Init, TypeOK, WorkOK, Verdicts, Tickets
<1>2. QED
  BY <1>1, TypeStep, PTL DEF Spec

-----------------------------------------------------------------------------
(* Nothing is built, or shown as past its approval, that was never signed. *)

\* A thread at one of these points has seen an approval, or a status that
\* needed one.
PastApproval == {"fulfil", "autobuild", "handoff", "planning", "replanning", "start",
                 "starting", "applying", "verifying"}

TicketSigned == \A r \in Requests : Normalize(ticket[r]) = "approved" => signed[r]
CopySigned   == \A r \in Requests : appr[r] = "approved" => signed[r]
WorkSigned   == \A w \in Workers : work[w].pc \in PastApproval => signed[work[w].ref]
OrchSigned   == \A r \in Requests : plans[r] # {} \/ made[r] # {} => signed[r]
RowsSigned   == \A r \in Requests : status[r] \in NeedsApproval \/ had[r] => signed[r]

\* The inductive invariant: the two places an approval is kept, every thread
\* that acts on one, and what came of it.
SInv == TicketSigned /\ CopySigned /\ WorkSigned /\ OrchSigned /\ RowsSigned

LEMMA SetWorkSigned ==
  ASSUME TypeOK, WorkSigned, NEW w \in Workers, NEW e,
         e.pc \in PastApproval => signed[e.ref],
         work' = [work EXCEPT ![w] = e], signed' = signed
  PROVE  WorkSigned'
BY DEF TypeOK, WorkSigned

LEMMA DoneSigned ==
  ASSUME TypeOK, WorkSigned, NEW w \in Workers, Done(w), signed' = signed
  PROVE  WorkSigned'
BY SetWorkSigned DEF Done, Idle, PastApproval

LEMMA ReverifySigned ==
  ASSUME TypeOK, TicketSigned, CopySigned, NEW r \in Requests, Reverify(r),
         signed' = signed
  PROVE  CopySigned'
BY DEF TypeOK, TicketSigned, CopySigned, Reverify

\* The orchestrator plans or creates only after it has re-verified the approval.
LEMMA HandleSigned ==
  ASSUME TypeOK, SInv, NEW r \in Requests, NEW op, NEW out, Handle(op, r, out),
         signed' = signed
  PROVE  CopySigned' /\ OrchSigned'
<1>0. plans \in [Requests -> SUBSET Units] /\ made \in [Requests -> SUBSET Units]
  BY DEF TypeOK
<1>1. CopySigned'
  BY ReverifySigned
     DEF SInv, CopySigned, Handle, HandlePlan, HandleApply, HandleDestroy, Approves
<1>2. Approves(r) => signed[r]
  BY <1>1 DEF Approves, CopySigned
<1>3. CASE HandlePlan(r, out)
  <2>1. made' = made /\ \A q \in Requests \ {r} : plans'[q] = plans[q]
    BY <1>0, <1>3 DEF HandlePlan
  <2>2. plans'[r] = plans[r] \/ signed[r]
    BY <1>2, <1>3 DEF HandlePlan
  <2>3. QED
    BY <1>1, <2>1, <2>2 DEF SInv, OrchSigned
<1>4. CASE HandleApply(r, out)
  <2>1. ASSUME NEW S, Create(r, S)
        PROVE  \A q \in Requests \ {r} : plans'[q] = plans[q] /\ made'[q] = made[q]
    BY <1>0, <2>1 DEF Create
  <2>2. UNCHANGED <<plans, made>> \/ \E S \in SUBSET Units : Create(r, S)
    BY <1>0, <1>4 DEF HandleApply, orch
  <2>3. UNCHANGED <<plans, made>> \/ signed[r] \/ plans[r] # {}
        \/ \E S \in SUBSET Units : S = {} /\ Create(r, S)
    BY <1>0, <1>2, <1>4 DEF HandleApply, Create, orch
  <2>4. ASSUME Create(r, {}) PROVE plans'[r] = plans[r] /\ made'[r] = made[r]
    BY <1>0, <2>4 DEF Create
  <2>5. QED
    BY <1>1, <2>1, <2>2, <2>3, <2>4 DEF SInv, OrchSigned
<1>5. CASE HandleDestroy(r, out)
  BY <1>0, <1>1, <1>5 DEF HandleDestroy, SInv, OrchSigned
<1>6. QED
  BY <1>3, <1>4, <1>5 DEF Handle

LEMMA NetworkSigned ==
  ASSUME TypeOK, SInv, NEW w \in Workers, Network(w)
  PROVE  SInv'
<1> DEFINE r == work[w].ref
<1>0. r \in Requests /\ signed' = signed /\ ticket' = ticket /\ status' = status /\ had' = had
  BY DEF TypeOK, WellFormed, Network, Answer, PartialWork, CallLost, CallTimesOut,
         Waiting, Calls, db
<1>1. TicketSigned' /\ RowsSigned'
  BY <1>0 DEF SInv, TicketSigned, RowsSigned
<1>2. /\ work'[w].pc = work[w].pc /\ work'[w].ref = work[w].ref
      /\ \A v \in Workers \ {w} : work'[v] = work[v]
  BY DEF TypeOK, Work, Network, Answer, PartialWork, CallLost, CallTimesOut, Retry
<1>3. WorkSigned'
  BY <1>0, <1>2 DEF SInv, WorkSigned
<1>4. CopySigned' /\ OrchSigned'
  <2>1. CASE \E op, out : Handle(op, r, out)
    BY <1>0, <2>1, HandleSigned
  <2>2. CASE UNCHANGED <<appr, plans, made>>
    BY <1>0, <2>2 DEF SInv, CopySigned, OrchSigned
  <2>3. CASE PartialWork(w) /\ At(w, "applying")
    <3>1. Approves(r)
      BY <2>3 DEF PartialWork, At
    <3>2. CopySigned' /\ signed[r]
      BY <1>0, <3>1, ReverifySigned DEF SInv, Approves, CopySigned
    <3>3. \A q \in Requests \ {r} : plans'[q] = plans[q] /\ made'[q] = made[q]
      BY <2>3 DEF PartialWork, At, Create, TypeOK
    <3>4. QED
      BY <1>0, <3>2, <3>3 DEF SInv, OrchSigned
  <2>4. CASE PartialWork(w) /\ At(w, "destroying")
    <3>1. PICK S : plans' = [plans EXCEPT ![r] = @ \ S]
      BY <2>4 DEF PartialWork, At
    <3>2. \A q \in Requests : plans[q] = {} => plans'[q] = {}
      BY <3>1 DEF TypeOK
    <3>3. made' = made /\ appr' = appr
      BY <2>4 DEF PartialWork, At
    <3>4. QED
      BY <1>0, <3>2, <3>3 DEF SInv, CopySigned, OrchSigned
  <2>5. QED
    BY <2>1, <2>2, <2>3, <2>4
       DEF Network, Answer, PartialWork, CallLost, CallTimesOut, db, orch
<1>5. QED
  BY <1>1, <1>3, <1>4 DEF SInv

LEMMA SetStatusSigned ==
  ASSUME TypeOK, RowsSigned, NEW w, NEW r \in Requests, NEW s, SetStatus(w, r, s),
         s \in NeedsApproval => signed[r], signed' = signed,
         had' = had \/ (signed[r] /\ \A q \in Requests \ {r} : had'[q] = had[q])
  PROVE  RowsSigned'
BY DEF TypeOK, RowsSigned, SetStatus

LEMMA StoreApprovalSigned ==
  ASSUME TypeOK, CopySigned, NEW w, NEW r \in Requests, NEW v, StoreApproval(w, r, v),
         v = "approved" => signed[r], signed' = signed
  PROVE  CopySigned'
BY DEF TypeOK, CopySigned, StoreApproval

LEMMA TransitionSigned ==
  ASSUME TypeOK, TicketSigned, NEW r \in Requests, NEW to, Transition(r, to),
         signed' = signed
  PROVE  TicketSigned'
BY DEF TypeOK, TicketSigned, Transition

LEMMA PollSigned ==
  ASSUME TypeOK, SInv, NEW p \in Workers, Poll(p)
  PROVE  SInv'
<1> DEFINE r == work[p].ref
<1>0. /\ work[p].pc # "idle" => r \in Requests
      /\ signed' = signed /\ ticket' = ticket /\ UNCHANGED <<plans, made>>
  BY DEF TypeOK, WellFormed, Poll, Visit, PollNotApproved, PollHeld, PollApproved,
         Fulfil, AutobuildDone, PollHalted, Handoff, PlanFails, PlanSucceeds,
         PlanFindsBuilt, db, orch
<1>1. TicketSigned' /\ OrchSigned'
  BY <1>0 DEF SInv, TicketSigned, OrchSigned
<1>2. work[p].pc \in PastApproval => r \in Requests /\ signed[r]
  BY <1>0 DEF SInv, WorkSigned, PastApproval
<1>3. r \in Requests /\ Normalize(ticket[r]) = "approved" => signed[r]
  BY DEF SInv, TicketSigned
<1>4. CASE \E q \in Requests : Visit(p, q)
  <2>1. PICK q \in Requests : Visit(p, q)
    BY <1>4
  <2>2. UNCHANGED <<status, had, appr>>
    BY <2>1 DEF Visit, db
  <2>3. WorkSigned'
    <3>1. CASE work' = [work EXCEPT ![p] = Loaded(q, "jira")]
      <4>1. Loaded(q, "jira").pc = "jira"
        BY LoadedType DEF Pcs
      <4>2. QED
        BY <1>0, <3>1, <4>1, SetWorkSigned DEF SInv, PastApproval
    <3>2. CASE status[q] = "planned" /\ work' = [work EXCEPT ![p] = Loaded(q, "start")]
      <4>1. Loaded(q, "start").ref = q
        BY LoadedType DEF Pcs
      <4>2. signed[q]
        BY <3>2 DEF SInv, RowsSigned, NeedsApproval
      <4>3. QED
        BY <1>0, <3>2, <4>1, <4>2, SetWorkSigned DEF SInv
    <3>3. QED
      BY <2>1, <3>1, <3>2 DEF Visit
  <2>4. QED
    BY <1>0, <1>1, <2>2, <2>3 DEF SInv, CopySigned, RowsSigned
<1>5. CASE PollNotApproved(p)
  <2>1. RowsSigned'
    BY <1>0, <1>5, SetStatusSigned DEF PollNotApproved, At, SInv, RowsSigned, NeedsApproval
  <2>2. CopySigned'
    BY <1>0, <1>5, StoreApprovalSigned DEF PollNotApproved, At, SInv
  <2>3. QED
    BY <1>0, <1>1, <1>5, <2>1, <2>2, DoneSigned DEF PollNotApproved, SInv
<1>6. CASE PollHeld(p)
  <2>1. CopySigned'
    BY <1>0, <1>3, <1>6, StoreApprovalSigned DEF PollHeld, At, SInv, CopySigned
  <2>2. QED
    BY <1>0, <1>1, <1>6, <2>1, DoneSigned DEF PollHeld, SInv, RowsSigned
<1>7. CASE PollApproved(p)
  <2>1. r \in Requests /\ signed[r]
    BY <1>0, <1>3, <1>7 DEF PollApproved, At
  <2>2. CopySigned'
    BY <1>0, <1>7, <2>1, StoreApprovalSigned DEF PollApproved, SInv
  <2>3. work'[p].ref = r /\ \A v \in Workers \ {p} : work'[v] = work[v]
    BY <1>7 DEF PollApproved, TypeOK, Work
  <2>4. WorkSigned'
    BY <1>0, <2>1, <2>3 DEF SInv, WorkSigned
  <2>5. QED
    BY <1>0, <1>1, <1>7, <2>2, <2>4 DEF PollApproved, SInv, RowsSigned
<1>8. CASE Fulfil(p) \/ AutobuildDone(p) \/ Handoff(p)
  <2>1. r \in Requests /\ signed[r] /\ appr' = appr /\ had' = had
    BY <1>2, <1>8 DEF Fulfil, AutobuildDone, Handoff, At, PastApproval
  <2>2. \A q \in Requests \ {r} : status'[q] = status[q]
    BY <1>8 DEF Fulfil, AutobuildDone, Handoff, ManualFulfilment, TypeOK
  <2>3. /\ work'[p].ref = r \/ work'[p] = Idle
        /\ \A v \in Workers \ {p} : work'[v] = work[v]
    <3>1. work \in [Workers -> Work]
      BY DEF TypeOK
    <3>2. Done(p) \/ (\E pc : Go(p, pc)) \/ (\E pc, st : GoWith(p, pc, st))
            \/ Call(p, "planning", work[p])
      BY <1>8 DEF Fulfil, AutobuildDone, Handoff, ManualFulfilment
    <3>3. QED
      BY <3>1, <3>2 DEF Done, Go, GoWith, Call, Work
  <2>4. WorkSigned'
    BY <1>0, <2>1, <2>3 DEF SInv, WorkSigned, Idle, PastApproval
  <2>5. QED
    BY <1>0, <1>1, <2>1, <2>2, <2>4 DEF SInv, CopySigned, RowsSigned
<1>9. CASE PollHalted(p)
  BY <1>0, <1>1, <1>9, DoneSigned DEF PollHalted, db, SInv, CopySigned, RowsSigned
<1>10. CASE PlanFails(p) \/ PlanSucceeds(p) \/ PlanFindsBuilt(p)
  <2>1. r \in Requests /\ signed[r] /\ appr' = appr
    BY <1>2, <1>10 DEF PlanFails, PlanSucceeds, PlanFindsBuilt, At, PastApproval
  <2>2. \A q \in Requests \ {r} : status'[q] = status[q] /\ had'[q] = had[q]
    BY <1>10 DEF PlanFails, PlanSucceeds, PlanFindsBuilt, SetStatus, Record, TypeOK
  <2>3. /\ work'[p].ref = r \/ work'[p] = Idle
        /\ \A v \in Workers \ {p} : work'[v] = work[v]
    <3>1. [Fresh(r) EXCEPT !.pc = "start", !.st = "planned"].ref = r
      BY <2>1, FreshType DEF Work
    <3>2. Done(p) \/ work' = [work EXCEPT ![p] = [Fresh(r) EXCEPT !.pc = "start", !.st = "planned"]]
      BY <1>10 DEF PlanFails, PlanSucceeds, PlanFindsBuilt
    <3>3. QED
      BY <3>1, <3>2 DEF Done, TypeOK
  <2>4. WorkSigned'
    BY <1>0, <2>1, <2>3 DEF SInv, WorkSigned, Idle, PastApproval
  <2>5. QED
    BY <1>0, <1>1, <2>1, <2>2, <2>4 DEF SInv, CopySigned, RowsSigned
<1>11. QED
  BY <1>4, <1>5, <1>6, <1>7, <1>8, <1>9, <1>10 DEF Poll

LEMMA ButtonSigned ==
  ASSUME TypeOK, SInv, NEW c \in Workers, Button(c)
  PROVE  SInv'
<1> DEFINE r == work[c].ref
<1>0. /\ work[c].pc # "idle" => r \in Requests
      /\ signed' = signed /\ UNCHANGED <<plans, made>>
  BY DEF TypeOK, WellFormed, Button, ClickApprove, ClickApply, ClickCancel, ClickRetry,
         ClickDestroy, Click, ApproveRefused, Approve, ApproveEnds, Cancel, DestroyEnds,
         db, orch
<1>1. OrchSigned'
  BY <1>0 DEF SInv, OrchSigned
<1>2. work[c].pc \in PastApproval => r \in Requests /\ signed[r]
  BY <1>0 DEF SInv, WorkSigned, PastApproval
<1>3. r \in Requests /\ Normalize(ticket[r]) = "approved" => signed[r]
  BY DEF SInv, TicketSigned
<1>4. ASSUME NEW q \in Requests, NEW pc \in Pcs, Click(c, q, pc),
             pc \in PastApproval => signed[q]
      PROVE  SInv'
  <2>1. Loaded(q, pc).ref = q /\ Loaded(q, pc).pc = pc
    BY LoadedType
  <2>2. WorkSigned'
    BY <1>0, <1>4, <2>1, SetWorkSigned DEF Click, SInv
  <2>3. QED
    BY <1>0, <1>1, <1>4, <2>2
       DEF Click, db, SInv, TicketSigned, CopySigned, RowsSigned
<1>5. ASSUME NEW q \in Requests, ClickApprove(c, q) PROVE SInv'
  BY <1>4, <1>5 DEF ClickApprove, Pcs, Calls, PastApproval
<1>6. ASSUME NEW q \in Requests, ClickApply(c, q) PROVE SInv'
  BY <1>4, <1>6 DEF ClickApply, Pcs, SInv, RowsSigned, NeedsApproval
<1>7. ASSUME NEW q \in Requests, ClickCancel(c, q) PROVE SInv'
  BY <1>4, <1>7 DEF ClickCancel, Pcs, PastApproval
<1>8. ASSUME NEW q \in Requests, ClickRetry(c, q) PROVE SInv'
  BY <1>0, <1>1, <1>8
     DEF ClickRetry, SInv, TicketSigned, CopySigned, RowsSigned, WorkSigned
<1>9. ASSUME NEW q \in Requests, ClickDestroy(c, q) PROVE SInv'
  <2>1. [Loaded(q, "destroying") EXCEPT !.pc = "destroying", !.left = PostAttempts].pc
          = "destroying"
    BY LoadedType DEF Pcs, Calls, Work
  <2>2. WorkSigned'
    BY <1>0, <1>9, <2>1, SetWorkSigned DEF ClickDestroy, Call, SInv, PastApproval
  <2>3. QED
    BY <1>0, <1>1, <1>9, <2>2
       DEF ClickDestroy, db, SInv, TicketSigned, CopySigned, RowsSigned
<1>10. CASE ApproveRefused(c)
  <2>1. CopySigned'
    BY <1>0, <1>3, <1>10, StoreApprovalSigned DEF ApproveRefused, At, SInv, CopySigned
  <2>2. QED
    BY <1>0, <1>1, <1>10, <2>1, DoneSigned DEF ApproveRefused, SInv, TicketSigned, RowsSigned
<1>11. CASE Approve(c)
  <2>1. r \in Requests /\ signed[r]
    BY <1>0, <1>3, <1>11 DEF Approve, At
  <2>2. CopySigned'
    BY <1>0, <1>11, <2>1, StoreApprovalSigned DEF Approve, SInv
  <2>3. [[work[c] EXCEPT !.ap = "approved"]
           EXCEPT !.pc = "replanning", !.left = PostAttempts].ref = r
    BY DEF TypeOK, Work
  <2>4. WorkSigned'
    BY <1>0, <1>11, <2>1, <2>3, SetWorkSigned DEF Approve, Call, SInv
  <2>5. QED
    BY <1>0, <1>1, <1>11, <2>2, <2>4 DEF Approve, SInv, TicketSigned, RowsSigned
<1>12. CASE ApproveEnds(c)
  <2>1. r \in Requests /\ signed[r]
    BY <1>2, <1>12 DEF ApproveEnds, At, PastApproval
  <2>2. \A q \in Requests \ {r} : status'[q] = status[q]
    BY <1>12 DEF ApproveEnds, SetStatus, TypeOK
  <2>3. RowsSigned'
    BY <1>0, <1>12, <2>1, <2>2 DEF ApproveEnds, SInv, RowsSigned
  <2>4. QED
    BY <1>0, <1>1, <1>12, <2>3, DoneSigned DEF ApproveEnds, SInv, TicketSigned, CopySigned
<1>13. CASE Cancel(c)
  <2>1. r \in Requests
    BY <1>0, <1>13 DEF Cancel, At
  <2>2. RowsSigned'
    BY <1>0, <1>13, <2>1 DEF Cancel, SInv, RowsSigned, NeedsApproval, TypeOK
  <2>3. \A q \in Requests : ticket'[q] = ticket[q] \/ Normalize(ticket'[q]) = "rejected"
    BY <1>13, <2>1 DEF Cancel, TypeOK, Normalize
  <2>4. TicketSigned'
    BY <1>0, <2>3 DEF SInv, TicketSigned
  <2>5. QED
    BY <1>0, <1>1, <1>13, <2>2, <2>4, DoneSigned DEF Cancel, SInv, CopySigned
<1>14. CASE DestroyEnds(c)
  <2>1. r \in Requests
    BY <1>0, <1>14 DEF DestroyEnds, At
  <2>2. RowsSigned'
    BY <1>0, <1>14, <2>1, SetStatusSigned DEF DestroyEnds, SInv, RowsSigned, NeedsApproval
  <2>3. QED
    BY <1>0, <1>1, <1>14, <2>2, DoneSigned DEF DestroyEnds, SInv, TicketSigned, CopySigned
<1>15. QED
  BY <1>5, <1>6, <1>7, <1>8, <1>9, <1>10, <1>11, <1>12, <1>13, <1>14 DEF Button

LEMMA BuildSigned ==
  ASSUME TypeOK, SInv, NEW w \in Workers, Build(w)
  PROVE  SInv'
<1> DEFINE r == work[w].ref
<1>0. r \in Requests /\ signed' = signed /\ UNCHANGED <<plans, made>>
  BY DEF TypeOK, WellFormed, Build, StartApply, ApplyFails, ApplyEnds, Verified, At, orch
<1>1. signed[r]
  BY DEF Build, StartApply, ApplyFails, ApplyEnds, Verified, At, SInv, WorkSigned, PastApproval
<1>2. OrchSigned'
  BY <1>0 DEF SInv, OrchSigned
<1>3. TicketSigned'
  BY <1>0, TransitionSigned
     DEF Build, StartApply, ApplyFails, ApplyEnds, Verified, SInv, TicketSigned
<1>4. CopySigned'
  BY <1>0, ReverifySigned
     DEF Build, StartApply, ApplyFails, ApplyEnds, Verified, Approves, SInv, CopySigned
<1>5. RowsSigned'
  <2>1. \A q \in Requests \ {r} : status'[q] = status[q] /\ had'[q] = had[q]
    BY DEF Build, StartApply, ApplyFails, ApplyEnds, Verified, SetStatus, Record, TypeOK
  <2>2. QED
    BY <1>0, <1>1, <2>1 DEF SInv, RowsSigned
<1>6. WorkSigned'
  <2>1. [Fresh(r) EXCEPT !.pc = "verifying"].ref = r
        /\ [Fresh(r) EXCEPT !.pc = "applying", !.left = PostAttempts].ref = r
    BY <1>0, FreshType DEF Work
  <2>2. \/ Done(w)
        \/ work' = [work EXCEPT ![w] = [Fresh(r) EXCEPT !.pc = "verifying"]]
        \/ work' = [work EXCEPT ![w] = [Fresh(r) EXCEPT !.pc = "applying", !.left = PostAttempts]]
    BY DEF Build, StartApply, ApplyFails, ApplyEnds, Verified, Call
  <2>3. QED
    BY <1>0, <1>1, <2>1, <2>2, DoneSigned, SetWorkSigned DEF SInv
<1>7. QED
  BY <1>2, <1>3, <1>4, <1>5, <1>6 DEF SInv

\* The manager, the calls nobody waits for, and the restarts.
LEMMA WorldSigned ==
  ASSUME TypeOK, SInv
  PROVE  /\ \A r \in Requests : ManagerDecides(r) \/ ChatDecides(r) => SInv'
         /\ GhostRuns \/ OrchRestarts \/ ApiRestarts => SInv'
<1>1. ASSUME NEW r \in Requests, ManagerDecides(r) \/ ChatDecides(r) PROVE SInv'
  <2>1. \A q \in Requests : signed[q] => signed'[q]
    BY <1>1 DEF ManagerDecides, ChatDecides, Rejects, Signs, TypeOK
  <2>2. TicketSigned'
    BY <1>1 DEF ManagerDecides, ChatDecides, Rejects, Signs, TypeOK, SInv, TicketSigned,
                Normalize
  <2>3. CopySigned'
    BY <1>1, <2>1, <2>2 DEF ManagerDecides, ChatDecides, db, TypeOK, SInv, CopySigned,
                            TicketSigned
  <2>4. UNCHANGED <<plans, made, status, had, work>>
    BY <1>1 DEF ManagerDecides, ChatDecides, db, orch
  <2>5. \A w \in Workers : work[w].pc \in PastApproval => work[w].ref \in Requests
    BY DEF TypeOK, WellFormed, PastApproval
  <2>6. QED
    BY <2>1, <2>2, <2>3, <2>4, <2>5 DEF SInv, OrchSigned, RowsSigned, WorkSigned
<1>2. CASE GhostRuns
  <2>1. PICK g \in ghosts : \E out \in Replies : Handle(g[1], g[2], out)
    BY <1>2 DEF GhostRuns
  <2>2. g[2] \in Requests
    BY DEF TypeOK
  <2>3. CopySigned' /\ OrchSigned'
    BY <1>2, <2>1, <2>2, HandleSigned DEF GhostRuns
  <2>4. QED
    BY <1>2, <2>3 DEF GhostRuns, SInv, TicketSigned, RowsSigned, WorkSigned
<1>3. CASE OrchRestarts
  BY <1>3 DEF OrchRestarts, db, SInv, TicketSigned, CopySigned, OrchSigned, RowsSigned,
              WorkSigned
<1>4. CASE ApiRestarts
  BY <1>4 DEF ApiRestarts, db, orch, Idle, PastApproval, SInv, TicketSigned, CopySigned,
              OrchSigned, RowsSigned, WorkSigned
<1>5. QED
  BY <1>1, <1>2, <1>3, <1>4

\* Whatever the threads, the retries, the lost calls and the restarts do, a
\* request is planned, built, put on record or shown as past its approval only
\* if the manager signed its ticket.
THEOREM ApprovedFirst == Spec => []NothingUnapproved
<1>1. Init => SInv
  BY DEF Init, SInv, TicketSigned, CopySigned, WorkSigned, OrchSigned, RowsSigned,
         Normalize, NeedsApproval, Idle, PastApproval
<1>2. TypeOK /\ SInv /\ [Next]_vars => SInv'
  <2> SUFFICES ASSUME TypeOK, SInv, [Next]_vars PROVE SInv'
    OBVIOUS
  <2>1. CASE Next
    <3>1. Pollers \subseteq Workers /\ Clickers \subseteq Workers
      BY DEF Workers
    <3>2. QED
      BY <2>1, <3>1, PollSigned, ButtonSigned, BuildSigned, NetworkSigned, WorldSigned
         DEF Next
  <2>2. CASE UNCHANGED vars
    BY <2>2 DEF vars, SInv, TicketSigned, CopySigned, WorkSigned, OrchSigned, RowsSigned
  <2>3. QED
    BY <2>1, <2>2
<1>3. SInv => NothingUnapproved
  BY DEF SInv, OrchSigned, RowsSigned, NothingUnapproved
<1>4. QED
  BY <1>1, <1>2, <1>3, TypeCorrect, PTL DEF Spec

-----------------------------------------------------------------------------
(* What is on record was created.                                          *)

\* An answer that makes the portal put every unit of the request on record.
SaysBuilt(e) ==
    \/ e.pc = "applying" /\ e.reply = "ok"
    \/ e.pc = "planning" /\ e.reply = "built"

LedgerMade == \A r \in ledger : made[r] = Units
SaidMade   == \A w \in Workers : SaysBuilt(work[w]) => made[work[w].ref] = Units
\* An answer is forgotten before the next call.
NoAnswerYet == \A w \in Workers : work[w].pc \notin Calls => work[w].reply = "none"

\* The inductive invariant: the ledger and the answers on their way speak only
\* of what was created.
RInv == RowsWereBuilt /\ LedgerMade /\ SaidMade /\ NoAnswerYet

\* A handled call creates, never un-creates; and when it says "built", it was.
LEMMA HandleMade ==
  ASSUME TypeOK, LedgerMade, NEW r \in Requests, NEW op, NEW out, Handle(op, r, out)
  PROVE  /\ \A q \in Requests : made[q] \subseteq made'[q] /\ made'[q] \subseteq Units
         /\ LedgerMade'
         /\ (op = "applying" /\ out = "ok") \/ (op = "planning" /\ out = "built")
            => made'[r] = Units
<1>1. OrchOK'
  BY HandleType
<1>2. ASSUME NEW S \in SUBSET Units, Create(r, S)
      PROVE  /\ \A q \in Requests : made[q] \subseteq made'[q]
             /\ S \subseteq made'[r]
  BY <1>2 DEF Create, TypeOK
<1>3. CASE op \in {"planning", "replanning"} /\ HandlePlan(r, out)
  BY <1>1, <1>3 DEF HandlePlan, LedgerMade, OrchOK
<1>4. CASE op = "applying" /\ HandleApply(r, out)
  <2>1. CASE UNCHANGED orch /\ (out = "refused" \/ r \in ledger)
    BY <1>1, <1>4, <2>1 DEF orch, LedgerMade, OrchOK
  <2>2. CASE out = "ok" /\ Create(r, Units) /\ ledger' = ledger \cup {r}
    <3>1. \A q \in Requests : made[q] \subseteq made'[q] /\ made'[q] \subseteq Units
      BY <1>1, <1>2, <2>2 DEF OrchOK
    <3>2. made'[r] = Units
      BY <1>2, <2>2, <3>1
    <3>3. \A q \in Requests : made[q] = Units => made'[q] = Units
      BY <3>1
    <3>4. QED
      BY <1>4, <2>2, <3>1, <3>2, <3>3 DEF LedgerMade, TypeOK
  <2>3. CASE /\ out = "refused" /\ UNCHANGED ledger
             /\ \E S \in SUBSET plans[r] : Create(r, S)
    <3>1. \A q \in Requests : made[q] \subseteq made'[q] /\ made'[q] \subseteq Units
      BY <1>1, <1>2, <2>3 DEF OrchOK, TypeOK
    <3>2. \A q \in Requests : made[q] = Units => made'[q] = Units
      BY <3>1
    <3>3. QED
      BY <1>4, <2>3, <3>1, <3>2 DEF LedgerMade, TypeOK
  <2>4. QED
    BY <1>4, <2>1, <2>2, <2>3 DEF HandleApply
<1>5. CASE op = "destroying" /\ HandleDestroy(r, out)
  BY <1>1, <1>5 DEF HandleDestroy, LedgerMade, OrchOK
<1>6. QED
  BY <1>3, <1>4, <1>5 DEF Handle

\* Creating something disturbs nothing that was true of what was created.
LEMMA MadeGrows ==
  ASSUME TypeOK, RInv, LedgerMade', NoAnswerYet', UNCHANGED rows,
         \A q \in Requests : made[q] \subseteq made'[q] /\ made'[q] \subseteq Units,
         \A w \in Workers : SaysBuilt(work'[w]) =>
            \/ SaysBuilt(work[w]) /\ work'[w].ref = work[w].ref
            \/ made'[work'[w].ref] = Units
  PROVE  RInv'
<1>1. RowsWereBuilt'
  BY DEF RInv, RowsWereBuilt
<1>2. SaidMade'
  <2>1. \A w \in Workers : SaysBuilt(work[w]) => work[w].ref \in Requests
    BY DEF TypeOK, WellFormed, SaysBuilt
  <2>2. \A q \in Requests : made[q] = Units => made'[q] = Units
    OBVIOUS
  <2>3. QED
    BY <2>1, <2>2 DEF RInv, SaidMade
<1>3. QED
  BY <1>1, <1>2 DEF RInv

\* A thread's step that creates nothing keeps the invariant if it is done with
\* its last answer, and records only what an answer that says "built" allowed.
LEMMA ThreadRecords ==
  ASSUME TypeOK, RInv, NEW w \in Workers, NEW e, e.reply = "none",
         work' = [work EXCEPT ![w] = e], UNCHANGED <<made, ledger>>,
         \A r \in Requests, u \in Units : rows'[r][u] > 0 =>
            rows[r][u] > 0 \/ (SaysBuilt(work[w]) /\ r = work[w].ref)
  PROVE  RInv'
<1>1. RowsWereBuilt'
  BY DEF RInv, RowsWereBuilt, SaidMade
<1>2. SaidMade' /\ NoAnswerYet'
  BY DEF TypeOK, RInv, SaidMade, SaysBuilt, NoAnswerYet
<1>3. LedgerMade'
  BY DEF RInv, LedgerMade
<1>4. QED
  BY <1>1, <1>2, <1>3 DEF RInv

LEMMA NetworkRecords ==
  ASSUME TypeOK, RInv, NEW w \in Workers, Network(w)
  PROVE  RInv'
<1> DEFINE r == work[w].ref
<1>0. work[w] \in Work /\ r \in Requests /\ Waiting(w)
  BY DEF Network, Answer, PartialWork, CallLost, CallTimesOut, Waiting, TypeOK,
         WellFormed, Calls
<1>1. UNCHANGED rows /\ NoAnswerYet'
  <2>1. UNCHANGED rows
    BY DEF Network, Answer, PartialWork, CallLost, CallTimesOut, db
  <2>2. \A v \in Workers : work'[v].pc = work[v].pc /\ (v # w => work'[v] = work[v])
    BY <1>0 DEF Network, Answer, PartialWork, CallLost, CallTimesOut, Retry, TypeOK, Work
  <2>3. work[w].pc \in Calls
    BY <1>0 DEF Waiting
  <2>4. QED
    BY <2>1, <2>2, <2>3 DEF RInv, NoAnswerYet
<1>2. ASSUME NEW out, Handle(work[w].pc, r, out)
      PROVE  /\ \A q \in Requests : made[q] \subseteq made'[q] /\ made'[q] \subseteq Units
             /\ LedgerMade'
             /\ SaysBuilt([work[w] EXCEPT !.reply = out]) => made'[r] = Units
  <2>1. SaysBuilt([work[w] EXCEPT !.reply = out]) =>
           \/ work[w].pc = "applying" /\ out = "ok"
           \/ work[w].pc = "planning" /\ out = "built"
    BY <1>0 DEF SaysBuilt, Work
  <2>2. QED
    BY <1>0, <1>2, <2>1, HandleMade DEF RInv
<1>3. CASE Answer(w)
  <2>1. PICK out \in Replies : /\ Handle(work[w].pc, r, out)
                               /\ work' = [work EXCEPT ![w].reply = out]
    BY <1>3 DEF Answer
  <2>2. \A v \in Workers : SaysBuilt(work'[v]) =>
            \/ SaysBuilt(work[v]) /\ work'[v].ref = work[v].ref
            \/ made'[work'[v].ref] = Units
    <3>1. ASSUME NEW v \in Workers, v # w PROVE work'[v] = work[v]
      BY <2>1, <3>1 DEF TypeOK
    <3>2. work'[w] = [work[w] EXCEPT !.reply = out] /\ work'[w].ref = r
      BY <1>0, <2>1 DEF TypeOK, Work
    <3>3. SaysBuilt(work'[w]) => made'[r] = Units
      BY <1>2, <2>1, <3>2
    <3>4. QED
      BY <3>1, <3>2, <3>3
  <2>3. QED
    BY <1>1, <1>2, <2>1, <2>2, MadeGrows
<1>4. CASE PartialWork(w)
  <2>1. work' = [work EXCEPT ![w].reply = "refused"]
    BY <1>4 DEF PartialWork
  <2>2. /\ \A q \in Requests : made[q] \subseteq made'[q] /\ made'[q] \subseteq Units
        /\ UNCHANGED ledger
    <3>1. made \in [Requests -> SUBSET Units] /\ plans \in [Requests -> SUBSET Units]
      BY DEF TypeOK
    <3>2. UNCHANGED made \/ \E S \in SUBSET plans[r] : Create(r, S)
      BY <1>4 DEF PartialWork
    <3>3. ASSUME NEW S \in SUBSET plans[r], Create(r, S)
          PROVE  \A q \in Requests : made[q] \subseteq made'[q] /\ made'[q] \subseteq Units
      BY <1>0, <3>1, <3>3 DEF Create
    <3>4. UNCHANGED ledger
      BY <1>4 DEF PartialWork
    <3>5. QED
      BY <3>1, <3>2, <3>3, <3>4
  <2>3. LedgerMade'
    <3>1. \A q \in Requests : made[q] = Units => made'[q] = Units
      BY <2>2
    <3>2. ledger \subseteq Requests
      BY DEF TypeOK
    <3>3. QED
      BY <2>2, <3>1, <3>2 DEF RInv, LedgerMade
  <2>4. \A v \in Workers : SaysBuilt(work'[v]) => work'[v] = work[v]
    BY <1>0, <2>1 DEF TypeOK, SaysBuilt, Work
  <2>5. QED
    BY <1>1, <2>2, <2>3, <2>4, MadeGrows
<1>5. CASE CallLost(w) \/ CallTimesOut(w)
  <2>1. PICK error \in {"down", "timeout"} : Retry(w, error)
    BY <1>5 DEF CallLost, CallTimesOut
  <2>2. \A v \in Workers : SaysBuilt(work'[v]) => work'[v] = work[v]
    BY <1>0, <2>1 DEF Retry, TypeOK, SaysBuilt, Work
  <2>3. UNCHANGED orch \/ \E out \in Replies : Handle(work[w].pc, r, out)
    BY <1>5 DEF CallLost, CallTimesOut
  <2>4. /\ \A q \in Requests : made[q] \subseteq made'[q] /\ made'[q] \subseteq Units
        /\ LedgerMade'
    BY <1>2, <2>3 DEF orch, TypeOK, RInv, LedgerMade
  <2>5. QED
    BY <1>1, <2>2, <2>4, MadeGrows
<1>6. QED
  BY <1>3, <1>4, <1>5 DEF Network

LEMMA DoneRecords ==
  ASSUME TypeOK, RInv, NEW w \in Workers, Done(w), UNCHANGED <<made, ledger>>,
         \A r \in Requests, u \in Units : rows'[r][u] > 0 =>
            rows[r][u] > 0 \/ (SaysBuilt(work[w]) /\ r = work[w].ref)
  PROVE  RInv'
BY ThreadRecords DEF Done, Idle

\* Putting a request on record adds rows of that request only.
LEMMA RecordAdds ==
  ASSUME TypeOK, NEW q \in Requests, Record(q)
  PROVE  \A r \in Requests, u \in Units : rows'[r][u] > 0 => rows[r][u] > 0 \/ r = q
BY DEF Record, TypeOK

LEMMA PollRecords ==
  ASSUME TypeOK, RInv, NEW p \in Pollers, Poll(p)
  PROVE  RInv'
<1>0. /\ p \in Workers /\ work[p] \in Work
      /\ work[p].pc # "idle" => work[p].ref \in Requests
  BY DEF Workers, TypeOK, WellFormed
<1>1. UNCHANGED <<made, ledger>>
  BY DEF Poll, Visit, PollNotApproved, PollHeld, PollApproved, Fulfil, AutobuildDone,
         PollHalted, Handoff, PlanFails, PlanSucceeds, PlanFindsBuilt, orch
<1>2. CASE PlanFindsBuilt(p)
  <2>1. work[p].ref \in Requests /\ SaysBuilt(work[p]) /\ Record(work[p].ref) /\ Done(p)
    BY <1>0, <1>2 DEF PlanFindsBuilt, At, SaysBuilt
  <2>2. QED
    BY <1>0, <1>1, <2>1, RecordAdds, DoneRecords
<1>3. ASSUME UNCHANGED rows,
             Done(p) \/ (\E e : e.reply = "none" /\ work' = [work EXCEPT ![p] = e])
      PROVE  RInv'
  <2>1. CASE Done(p)
    BY <1>0, <1>1, <1>3, <2>1, DoneRecords
  <2>2. ASSUME NEW e, e.reply = "none", work' = [work EXCEPT ![p] = e] PROVE RInv'
    BY <1>0, <1>1, <1>3, <2>2, ThreadRecords
  <2>3. QED
    BY <1>3, <2>1, <2>2
<1>4. CASE \E r \in Requests : Visit(p, r)
  <2>1. UNCHANGED rows
    BY <1>4 DEF Visit, db
  <2>2. \A r, pc : Loaded(r, pc).reply = "none"
    BY DEF Loaded, Idle
  <2>3. QED
    BY <1>3, <1>4, <2>1, <2>2 DEF Visit
<1>5. CASE PollNotApproved(p) \/ PollHeld(p) \/ PollHalted(p) \/ PlanFails(p)
  BY <1>3, <1>5 DEF PollNotApproved, PollHeld, PollHalted, PlanFails, db
<1>6. CASE PollApproved(p) \/ Fulfil(p) \/ AutobuildDone(p) \/ Handoff(p)
  <2>1. work[p].reply = "none" /\ UNCHANGED rows
    BY <1>0, <1>6 DEF PollApproved, Fulfil, AutobuildDone, Handoff, At, Calls, RInv, NoAnswerYet
  <2>2. ASSUME NEW pc PROVE [work[p] EXCEPT !.pc = pc].reply = "none"
    BY <1>0, <2>1 DEF Work
  <2>3. ASSUME NEW pc, NEW st PROVE [work[p] EXCEPT !.pc = pc, !.st = st].reply = "none"
    BY <1>0, <2>1 DEF Work
  <2>4. /\ [work[p] EXCEPT !.pc = "fulfil", !.ap = "approved"].reply = "none"
        /\ [work[p] EXCEPT !.pc = "planning", !.left = PostAttempts].reply = "none"
    BY <1>0, <2>1 DEF Work
  <2>5. \/ Done(p)
        \/ \E pc : Go(p, pc)
        \/ \E pc, st : GoWith(p, pc, st)
        \/ work' = [work EXCEPT ![p].pc = "fulfil", ![p].ap = "approved"]
        \/ Call(p, "planning", work[p])
    BY <1>6 DEF PollApproved, Fulfil, AutobuildDone, Handoff, ManualFulfilment
  <2>6. QED
    BY <1>0, <1>3, <2>1, <2>2, <2>3, <2>4, <2>5 DEF Go, GoWith, Call, TypeOK
<1>7. CASE PlanSucceeds(p)
  <2>1. [Fresh(work[p].ref) EXCEPT !.pc = "start", !.st = "planned"].reply = "none"
    BY DEF Fresh, Idle
  <2>2. UNCHANGED rows
    BY <1>7 DEF PlanSucceeds
  <2>3. QED
    BY <1>3, <1>7, <2>1, <2>2 DEF PlanSucceeds
<1>8. QED
  BY <1>2, <1>4, <1>5, <1>6, <1>7 DEF Poll

LEMMA ButtonRecords ==
  ASSUME TypeOK, RInv, NEW c \in Clickers, Button(c)
  PROVE  RInv'
<1>0. /\ c \in Workers /\ work[c] \in Work
      /\ work[c].pc # "idle" => work[c].ref \in Requests
  BY DEF Workers, TypeOK, WellFormed
<1>1. UNCHANGED <<made, ledger>>
  BY DEF Button, ClickApprove, ClickApply, ClickCancel, Click, ClickRetry, ClickDestroy,
         ApproveRefused, Approve, ApproveEnds, Cancel, DestroyEnds, orch
<1>2. \A r, pc : Loaded(r, pc).reply = "none"
  BY DEF Loaded, Idle
<1>3. ASSUME NEW q \in Requests,
             ClickApprove(c, q) \/ ClickApply(c, q) \/ ClickCancel(c, q)
      PROVE  RInv'
  <2>1. PICK pc : Click(c, q, pc)
    BY <1>3 DEF ClickApprove, ClickApply, ClickCancel
  <2>2. work' = [work EXCEPT ![c] = Loaded(q, pc)] /\ UNCHANGED rows
    BY <2>1 DEF Click, db
  <2>3. QED
    BY <1>0, <1>1, <1>2, <2>2, ThreadRecords
<1>4. ASSUME NEW q \in Requests, ClickRetry(c, q) PROVE RInv'
  BY <1>1, <1>4 DEF ClickRetry, RInv, RowsWereBuilt, LedgerMade, SaidMade, NoAnswerYet
<1>5. ASSUME NEW q \in Requests, ClickDestroy(c, q) PROVE RInv'
  <2>1. /\ work' = [work EXCEPT ![c] = [Loaded(q, "destroying")
                       EXCEPT !.pc = "destroying", !.left = PostAttempts]]
        /\ UNCHANGED rows
    BY <1>5 DEF ClickDestroy, Call, db
  <2>2. [Loaded(q, "destroying") EXCEPT !.pc = "destroying", !.left = PostAttempts].reply
           = "none"
    BY DEF Loaded, Idle
  <2>3. QED
    BY <1>0, <1>1, <2>1, <2>2, ThreadRecords
<1>6. CASE ApproveRefused(c) \/ ApproveEnds(c) \/ Cancel(c)
  BY <1>0, <1>1, <1>6, DoneRecords DEF ApproveRefused, ApproveEnds, Cancel
<1>7. CASE Approve(c)
  <2>1. work[c].reply = "none" /\ UNCHANGED rows
    BY <1>0, <1>7 DEF Approve, At, Calls, RInv, NoAnswerYet
  <2>2. [[work[c] EXCEPT !.ap = "approved"]
            EXCEPT !.pc = "replanning", !.left = PostAttempts].reply = "none"
    BY <1>0, <2>1 DEF Work
  <2>3. QED
    BY <1>0, <1>1, <1>7, <2>1, <2>2, ThreadRecords DEF Approve, Call
<1>8. CASE DestroyEnds(c)
  <2>1. Done(c) /\ \/ UNCHANGED rows
                   \/ rows' = [rows EXCEPT ![work[c].ref] = [u \in Units |-> 0]]
    BY <1>8 DEF DestroyEnds
  <2>2. ASSUME NEW r \in Requests, NEW u \in Units, rows'[r][u] > 0 PROVE rows[r][u] > 0
    <3>1. \A v \in Units : [x \in Units |-> 0][v] = 0
      OBVIOUS
    <3>2. rows' = rows \/ rows'[r] = rows[r] \/ rows'[r] = [x \in Units |-> 0]
      BY <2>1 DEF TypeOK
    <3>3. QED
      BY <2>2, <3>1, <3>2
  <2>3. QED
    BY <1>0, <1>1, <2>1, <2>2, DoneRecords
<1>9. QED
  BY <1>3, <1>4, <1>5, <1>6, <1>7, <1>8 DEF Button

LEMMA BuildRecords ==
  ASSUME TypeOK, RInv, NEW w \in Workers, Build(w)
  PROVE  RInv'
<1> DEFINE r == work[w].ref
<1>0. work[w] \in Work /\ r \in Requests
  BY DEF Build, StartApply, ApplyFails, ApplyEnds, Verified, At, TypeOK, WellFormed
<1>1. UNCHANGED <<made, ledger>>
  BY DEF Build, StartApply, ApplyFails, ApplyEnds, Verified, orch
<1>2. /\ [Fresh(r) EXCEPT !.pc = "verifying"].reply = "none"
      /\ [Fresh(r) EXCEPT !.pc = "applying", !.left = PostAttempts].reply = "none"
  BY DEF Fresh, Idle
<1>3. CASE StartApply(w)
  BY <1>1, <1>2, <1>3, ThreadRecords DEF StartApply, Call
<1>4. CASE ApplyFails(w) \/ Verified(w)
  BY <1>1, <1>4, DoneRecords DEF ApplyFails, Verified
<1>5. CASE ApplyEnds(w)
  <2>1. UNCHANGED rows \/ (SaysBuilt(work[w]) /\ Record(r))
    BY <1>5 DEF ApplyEnds, At, SaysBuilt
  <2>2. \A q \in Requests, u \in Units : rows'[q][u] > 0 =>
            rows[q][u] > 0 \/ (SaysBuilt(work[w]) /\ q = r)
    BY <1>0, <2>1, RecordAdds
  <2>3. QED
    BY <1>1, <1>2, <1>5, <2>2, ThreadRecords DEF ApplyEnds
<1>6. QED
  BY <1>3, <1>4, <1>5 DEF Build

LEMMA WorldRecords ==
  ASSUME TypeOK, RInv
  PROVE  /\ \A r \in Requests : ManagerDecides(r) \/ ChatDecides(r) => RInv'
         /\ GhostRuns \/ OrchRestarts \/ ApiRestarts => RInv'
<1> USE DEF RInv, RowsWereBuilt, LedgerMade, SaidMade, NoAnswerYet
<1>1. ASSUME NEW r \in Requests, ManagerDecides(r) \/ ChatDecides(r) PROVE RInv'
  BY <1>1 DEF ManagerDecides, ChatDecides, db, orch
<1>2. CASE GhostRuns
  <2>1. PICK g \in ghosts : \E out \in Replies : Handle(g[1], g[2], out)
    BY <1>2 DEF GhostRuns
  <2>2. g[2] \in Requests
    BY DEF TypeOK
  <2>3. /\ \A q \in Requests : made[q] \subseteq made'[q] /\ made'[q] \subseteq Units
        /\ LedgerMade'
    BY <2>1, <2>2, HandleMade
  <2>4. UNCHANGED <<rows, work>>
    BY <1>2 DEF GhostRuns
  <2>5. QED
    BY <2>3, <2>4, MadeGrows
<1>3. CASE OrchRestarts
  BY <1>3 DEF OrchRestarts, db
<1>4. CASE ApiRestarts
  BY <1>4 DEF ApiRestarts, db, orch, Idle, SaysBuilt
<1>5. QED
  BY <1>1, <1>2, <1>3, <1>4

\* A unit on record was created: whatever the ledger replays, whatever call is
\* repeated, lost or handled after its caller gave up, the portal never puts a
\* machine on record that nobody built (api/main.py, ProvisionedResource).
THEOREM RecordedWasBuilt == Spec => []RowsWereBuilt
<1>1. Init => RInv
  BY DEF Init, RInv, RowsWereBuilt, LedgerMade, SaidMade, NoAnswerYet, SaysBuilt, Idle
<1>2. TypeOK /\ RInv /\ [Next]_vars => RInv'
  <2> SUFFICES ASSUME TypeOK, RInv, [Next]_vars PROVE RInv'
    OBVIOUS
  <2>1. CASE Next
    <3>1. Pollers \subseteq Workers /\ Clickers \subseteq Workers
      BY DEF Workers
    <3>2. QED
      BY <2>1, <3>1, PollRecords, ButtonRecords, BuildRecords, NetworkRecords, WorldRecords
         DEF Next
  <2>2. CASE UNCHANGED vars
    BY <2>2 DEF vars, RInv, RowsWereBuilt, LedgerMade, SaidMade, NoAnswerYet
  <2>3. QED
    BY <2>1, <2>2
<1>3. QED
  BY <1>1, <1>2, TypeCorrect, PTL DEF Spec, RInv

-----------------------------------------------------------------------------
(* One poller fails at most MaxAttempts times in a row.                    *)

\* The points of a sweep between reading the counter and writing it back.
Counting == {"jira", "fulfil", "autobuild", "handoff", "planning"}

\* What leadership is for.
OnePoller == \A p, q \in Pollers : p = q

Counted == \A r \in Requests : burned[r] <= attempts[r] /\ burned[r] <= MaxAttempts
CopyCounts ==
    \A w \in Workers : work[w].pc \in Counting =>
        /\ w \in Pollers
        /\ burned[work[w].ref] <= work[w].tr
        /\ work[w].pc = "planning" => work[w].tr < MaxAttempts

\* The inductive invariant: neither the column nor the poller's copy of it ever
\* says less than the failures there were; a Retry in between only lowers these.
BInv == Counted /\ CopyCounts

\* A step that leaves the counters alone and moves one thread.
LEMMA MoveCounts ==
  ASSUME TypeOK, BInv, NEW w \in Workers, NEW e, work' = [work EXCEPT ![w] = e],
         UNCHANGED <<attempts, burned>>,
         e.pc \in Counting => /\ w \in Pollers
                              /\ burned[e.ref] <= e.tr
                              /\ e.pc = "planning" => e.tr < MaxAttempts
  PROVE  BInv'
BY DEF TypeOK, BInv, Counted, CopyCounts

LEMMA DoneCounts ==
  ASSUME TypeOK, BInv, NEW w \in Workers, Done(w), UNCHANGED <<attempts, burned>>
  PROVE  BInv'
BY MoveCounts DEF Done, Idle, Counting

LEMMA PollCounts ==
  ASSUME TypeOK, LifecycleConstants, OnePoller, BInv, NEW p \in Pollers, Poll(p)
  PROVE  BInv'
<1> DEFINE r == work[p].ref
<1>0. /\ p \in Workers /\ work[p] \in Work
      /\ work[p].pc # "idle" => r \in Requests
  BY DEF Workers, TypeOK, WellFormed
<1>1. \A w \in Workers \ {p} : work[w].pc \notin Counting
  BY DEF BInv, CopyCounts, OnePoller
<1>2. ASSUME NEW q \in Requests, Visit(p, q) PROVE BInv'
  <2>1. /\ Loaded(q, "jira").ref = q /\ Loaded(q, "jira").pc = "jira"
        /\ Loaded(q, "jira").tr = attempts[q] /\ Loaded(q, "start").pc = "start"
    BY DEF Loaded, Idle
  <2>2. burned[q] <= attempts[q]
    BY DEF BInv, Counted
  <2>3. UNCHANGED <<attempts, burned>>
    BY <1>2 DEF Visit, db
  <2>4. QED
    BY <1>0, <1>2, <2>1, <2>2, <2>3, MoveCounts DEF Visit, Counting
<1>3. CASE PollNotApproved(p) \/ PollHeld(p) \/ PollHalted(p)
  BY <1>0, <1>3, DoneCounts DEF PollNotApproved, PollHeld, PollHalted, db
<1>4. CASE PollApproved(p) \/ Fulfil(p) \/ AutobuildDone(p)
  <2>1. UNCHANGED <<attempts, burned>> /\ burned[r] <= work[p].tr
    BY <1>0, <1>4 DEF PollApproved, Fulfil, AutobuildDone, At, BInv, CopyCounts, Counting
  <2>2. CASE Done(p)
    BY <1>0, <2>1, <2>2, DoneCounts
  <2>3. ASSUME NEW e \in Work, e.pc # "planning", e.ref = r, e.tr = work[p].tr,
               work' = [work EXCEPT ![p] = e]
        PROVE  BInv'
    BY <1>0, <2>1, <2>3, MoveCounts
  <2>4. \/ Done(p) \/ Go(p, "handoff")
        \/ GoWith(p, "autobuild", "auto-building") \/ GoWith(p, "handoff", "in-progress")
        \/ work' = [work EXCEPT ![p].pc = "fulfil", ![p].ap = "approved"]
    BY <1>4 DEF PollApproved, Fulfil, AutobuildDone, ManualFulfilment
  <2>5. CASE Go(p, "handoff")
    <3>1. [work[p] EXCEPT !.pc = "handoff"] \in Work
      BY <1>0 DEF Work, Pcs
    <3>2. QED
      BY <1>0, <2>3, <2>5, <3>1 DEF Go, Work
  <2>6. ASSUME NEW pc \in {"autobuild", "handoff"},
               NEW s \in {"auto-building", "in-progress"}, GoWith(p, pc, s)
        PROVE  BInv'
    <3>1. [work[p] EXCEPT !.pc = pc, !.st = s] \in Work
      BY <1>0 DEF Work, Pcs, Statuses, WORKING_STATUSES
    <3>2. work' = [work EXCEPT ![p] = [work[p] EXCEPT !.pc = pc, !.st = s]]
      BY <1>0, <2>6 DEF GoWith, TypeOK
    <3>3. QED
      BY <1>0, <2>3, <3>1, <3>2 DEF Work
  <2>7. CASE work' = [work EXCEPT ![p].pc = "fulfil", ![p].ap = "approved"]
    <3>1. [work[p] EXCEPT !.pc = "fulfil", !.ap = "approved"] \in Work
      BY <1>0 DEF Work, Pcs, Verdicts
    <3>2. work' = [work EXCEPT ![p] = [work[p] EXCEPT !.pc = "fulfil", !.ap = "approved"]]
      BY <1>0, <2>7 DEF TypeOK
    <3>3. QED
      BY <1>0, <2>3, <3>1, <3>2 DEF Work
  <2>8. QED
    BY <2>2, <2>4, <2>5, <2>6, <2>7
<1>5. CASE Handoff(p)
  <2>1. /\ UNCHANGED <<attempts, burned>> /\ burned[r] <= work[p].tr
        /\ work[p].tr < MaxAttempts
        /\ work' = [work EXCEPT ![p] =
                      [work[p] EXCEPT !.pc = "planning", !.left = PostAttempts]]
    BY <1>0, <1>5 DEF Handoff, Call, At, BInv, CopyCounts, Counting
  <2>2. /\ [work[p] EXCEPT !.pc = "planning", !.left = PostAttempts].ref = r
        /\ [work[p] EXCEPT !.pc = "planning", !.left = PostAttempts].tr = work[p].tr
    BY <1>0 DEF Work
  <2>3. QED
    BY <1>0, <2>1, <2>2, MoveCounts
<1>6. CASE PlanFails(p)
  <2>1. r \in Requests /\ burned[r] <= work[p].tr /\ work[p].tr < MaxAttempts
    BY <1>0, <1>6 DEF PlanFails, At, BInv, CopyCounts, Counting
  <2>2. /\ attempts' = [attempts EXCEPT ![r] = work[p].tr + 1]
        /\ burned' = [burned EXCEPT ![r] = @ + 1] /\ Done(p)
    BY <1>6 DEF PlanFails
  <2>3. Counted'
    BY <1>0, <2>1, <2>2 DEF TypeOK, Work, BInv, Counted, LifecycleConstants
  <2>4. CopyCounts'
    BY <1>1, <2>2 DEF Done, Idle, Counting, CopyCounts, TypeOK
  <2>5. QED
    BY <2>3, <2>4 DEF BInv
<1>7. CASE PlanSucceeds(p) \/ PlanFindsBuilt(p)
  <2>1. r \in Requests /\ ClearAttempts(p, r)
    BY <1>0, <1>7 DEF PlanSucceeds, PlanFindsBuilt, At
  <2>2. Counted'
    BY <2>1 DEF ClearAttempts, TypeOK, BInv, Counted, LifecycleConstants
  <2>3. work'[p].pc \notin Counting /\ \A w \in Workers \ {p} : work'[w] = work[w]
    <3>1. PICK e : work' = [work EXCEPT ![p] = e] /\ e.pc \in {"idle", "start"}
      <4>1. Idle.pc = "idle" /\ [Fresh(r) EXCEPT !.pc = "start", !.st = "planned"].pc = "start"
        BY DEF Idle, Fresh
      <4>2. QED
        BY <1>7, <4>1 DEF PlanSucceeds, PlanFindsBuilt, Done
    <3>2. QED
      BY <1>0, <3>1 DEF TypeOK, Counting
  <2>4. CopyCounts'
    BY <1>1, <2>3 DEF CopyCounts
  <2>5. QED
    BY <2>2, <2>4 DEF BInv
<1>8. QED
  BY <1>2, <1>3, <1>4, <1>5, <1>6, <1>7 DEF Poll

LEMMA ButtonCounts ==
  ASSUME TypeOK, LifecycleConstants, BInv, NEW c \in Clickers, Button(c)
  PROVE  BInv'
<1>0. c \in Workers /\ work[c] \in Work
  BY DEF Workers, TypeOK
<1>1. ASSUME NEW q \in Requests, ClickRetry(c, q) PROVE BInv'
  <2>1. /\ attempts' = [attempts EXCEPT ![q] = 0] /\ burned' = [burned EXCEPT ![q] = 0]
        /\ UNCHANGED work
    BY <1>1 DEF ClickRetry
  <2>2. Counted'
    BY <2>1 DEF TypeOK, BInv, Counted, LifecycleConstants
  <2>3. ASSUME NEW w \in Workers, work[w].pc \in Counting
        PROVE  burned'[work[w].ref] <= work[w].tr
    <3>1. work[w].tr \in Nat /\ work[w].ref \in Requests /\ burned[work[w].ref] <= work[w].tr
      BY <2>3 DEF TypeOK, Work, WellFormed, Counting, BInv, CopyCounts
    <3>2. QED
      BY <2>1, <3>1 DEF TypeOK
  <2>4. CopyCounts'
    BY <2>1, <2>3 DEF BInv, CopyCounts
  <2>5. QED
    BY <2>2, <2>4 DEF BInv
<1>2. ASSUME NEW q \in Requests,
             ClickApprove(c, q) \/ ClickApply(c, q) \/ ClickCancel(c, q)
      PROVE  BInv'
  <2>1. PICK pc \in {"approving", "starting", "cancelling"} : Click(c, q, pc)
    BY <1>2 DEF ClickApprove, ClickApply, ClickCancel
  <2>2. Loaded(q, pc).pc = pc
    BY DEF Loaded, Idle
  <2>3. QED
    BY <1>0, <2>1, <2>2, MoveCounts DEF Click, Counting, db
<1>3. ASSUME NEW q \in Requests, ClickDestroy(c, q) PROVE BInv'
  <2>1. [Loaded(q, "destroying") EXCEPT !.pc = "destroying", !.left = PostAttempts].pc
           = "destroying"
    BY DEF Loaded, Idle
  <2>2. QED
    BY <1>0, <1>3, <2>1, MoveCounts DEF ClickDestroy, Call, Counting, db
<1>4. CASE Approve(c)
  <2>1. [[work[c] EXCEPT !.ap = "approved"]
            EXCEPT !.pc = "replanning", !.left = PostAttempts].pc = "replanning"
    BY <1>0 DEF Work
  <2>2. QED
    BY <1>0, <1>4, <2>1, MoveCounts DEF Approve, Call, Counting
<1>5. CASE ApproveRefused(c) \/ ApproveEnds(c) \/ Cancel(c) \/ DestroyEnds(c)
  BY <1>0, <1>5, DoneCounts DEF ApproveRefused, ApproveEnds, Cancel, DestroyEnds
<1>6. QED
  BY <1>1, <1>2, <1>3, <1>4, <1>5 DEF Button

\* A build and a call over the network leave the counters alone.
LEMMA BuildCounts ==
  ASSUME TypeOK, BInv, NEW w \in Workers, Build(w)
  PROVE  BInv'
<1>1. /\ [Fresh(work[w].ref) EXCEPT !.pc = "verifying"].pc = "verifying"
      /\ [Fresh(work[w].ref) EXCEPT !.pc = "applying", !.left = PostAttempts].pc = "applying"
  BY DEF Fresh, Idle
<1>2. CASE StartApply(w)
  BY <1>1, <1>2, MoveCounts DEF StartApply, Call, Counting
<1>3. CASE ApplyFails(w) \/ Verified(w)
  BY <1>3, DoneCounts DEF ApplyFails, Verified
<1>4. CASE ApplyEnds(w)
  BY <1>1, <1>4, MoveCounts DEF ApplyEnds, Counting
<1>5. QED
  BY <1>2, <1>3, <1>4 DEF Build

LEMMA NetworkCounts ==
  ASSUME TypeOK, BInv, NEW w \in Workers, Network(w)
  PROVE  BInv'
<1>1. UNCHANGED <<attempts, burned>>
  BY DEF Network, Answer, PartialWork, CallLost, CallTimesOut, db
<1>2. \A v \in Workers : /\ work'[v].pc = work[v].pc /\ work'[v].ref = work[v].ref
                         /\ work'[v].tr = work[v].tr
  <2>1. work \in [Workers -> Work]
    BY DEF TypeOK
  <2>2. CASE Answer(w) \/ PartialWork(w)
    <3>1. PICK out : work' = [work EXCEPT ![w].reply = out]
      BY <2>2 DEF Answer, PartialWork
    <3>2. QED
      BY <2>1, <3>1 DEF Work
  <2>3. CASE CallLost(w) \/ CallTimesOut(w)
    <3>1. PICK left, out : work' = [work EXCEPT ![w].left = left, ![w].reply = out]
      BY <2>1, <2>3 DEF CallLost, CallTimesOut, Retry
    <3>2. QED
      BY <2>1, <3>1 DEF Work
  <2>4. QED
    BY <2>2, <2>3 DEF Network
<1>3. QED
  BY <1>1, <1>2 DEF BInv, Counted, CopyCounts

LEMMA WorldCounts ==
  ASSUME TypeOK, BInv
  PROVE  /\ \A r \in Requests : ManagerDecides(r) \/ ChatDecides(r) => BInv'
         /\ GhostRuns \/ OrchRestarts \/ ApiRestarts => BInv'
<1> USE DEF BInv, Counted, CopyCounts
<1>1. ASSUME NEW r \in Requests, ManagerDecides(r) \/ ChatDecides(r) PROVE BInv'
  BY <1>1 DEF ManagerDecides, ChatDecides, db
<1>2. CASE GhostRuns
  BY <1>2 DEF GhostRuns
<1>3. CASE OrchRestarts
  BY <1>3 DEF OrchRestarts, db
<1>4. CASE ApiRestarts
  BY <1>4 DEF ApiRestarts, db, Idle, Counting
<1>5. QED
  BY <1>1, <1>2, <1>3, <1>4

LEMMA CountStep == OnePoller /\ TypeOK /\ BInv /\ [Next]_vars => BInv'
<1> SUFFICES ASSUME OnePoller, TypeOK, BInv, [Next]_vars PROVE BInv'
  OBVIOUS
<1>1. CASE Next
  <2>1. Pollers \subseteq Workers /\ Clickers \subseteq Workers
    BY DEF Workers
  <2>2. QED
    BY <1>1, <2>1, LifecycleConstants, PollCounts, ButtonCounts, BuildCounts, NetworkCounts,
       WorldCounts DEF Next
<1>2. CASE UNCHANGED vars
  BY <1>2 DEF vars, BInv, Counted, CopyCounts
<1>3. QED
  BY <1>1, <1>2

\* With one poller, which is what the lease is for, no more than MaxAttempts
\* handoffs in a row fail before a Retry or a success: the counter is written
\* from a copy read minutes before (api/main.py, _advance_request), but a Retry
\* pressed in between never lets the copy fall behind the failures.
THEOREM FailuresBounded == OnePoller => (Spec => []AttemptsBounded)
<1> SUFFICES ASSUME OnePoller PROVE Spec => []AttemptsBounded
  OBVIOUS
<1>1. Init => BInv
  BY LifecycleConstants DEF LifecycleConstants, Init, BInv, Counted, CopyCounts, Idle, Counting
<1>2. TypeOK /\ BInv /\ [Next]_vars => BInv'
  BY CountStep
<1>3. BInv => AttemptsBounded
  BY DEF BInv, Counted, AttemptsBounded
<1>4. QED
  BY <1>1, <1>2, <1>3, TypeCorrect, PTL DEF Spec

-----------------------------------------------------------------------------
(* Where nothing fails and one thread at a time works on a request, the    *)
(* portal, the ledger and the cloud agree.                                 *)

Calm == OneInside /\ MaxFaults = 0

\* A request belongs to the thread that works on it.
Alone ==
    \A w \in Workers :
        /\ work[w].pc = "idle" => work[w].ref = NoRequest
        /\ \A v \in Workers : work[v].ref = work[w].ref /\ work[w].ref # NoRequest => v = w

\* The first try of every call is the last.
Undisturbed(w) ==
    /\ work[w].reply \notin {"down", "timeout"}
    /\ work[w].pc \notin Calls => work[w].reply = "none"
    /\ work[w].pc \in Calls /\ work[w].reply = "none" => work[w].left = PostAttempts
NoFaultYet == faults = 0 /\ ghosts = {} /\ \A w \in Workers : Undisturbed(w)

\* The two states a request comes to rest in, and which status each has.
Unbuilt(r) == r \notin ledger /\ AllRows(r, 0)
Whole(r)   == r \in ledger /\ live[r] = Units /\ AllRows(r, 1) /\ had[r]
Settled(r) == IF status[r] \in {"provisioned", "verify-failed"} THEN Whole(r)
              ELSE Unbuilt(r) /\ (status[r] = "decommissioned" => live[r] = {})
Open(r)    == status[r] \notin {"provisioned", "verify-failed", "decommissioned"}

\* What w finds of the request it works on, by how far it has come.
Building == {"jira", "fulfil", "autobuild", "handoff", "planning", "start", "starting",
             "cancelling", "applying"}
Unsettled == {"applying", "verifying", "destroying"}
Created(r) == r \in ledger /\ live[r] = Units /\ AllRows(r, 0)
Removed(r) == r \notin ledger /\ live[r] = {}
Holds(w, r) ==
    /\ work[w].pc \notin Unsettled => Settled(r)
    /\ work[w].pc \in Building => Open(r)
    /\ work[w].pc = "planning" => work[w].reply # "built"
    /\ work[w].pc = "replanning" => /\ (work[w].reply = "ok" => Unbuilt(r))
                                     /\ (work[w].reply = "built" => Whole(r))
    /\ work[w].pc = "applying" => IF work[w].reply = "ok" THEN Created(r) ELSE Unbuilt(r)
    /\ work[w].pc = "verifying" => Whole(r)
    /\ work[w].pc = "destroying" =>
          /\ work[w].st = status[r]
          /\ IF work[w].reply = "ok" THEN Removed(r) ELSE Settled(r)

Agreement ==
    \A r \in Requests : /\ (Quiet(r) => Settled(r))
                         /\ \A w \in Workers : Inside(w, r) => Holds(w, r)

\* The inductive invariant.
CalmInv == Alone /\ NoFaultYet /\ Agreement

\* A step that concerns r leaves the other requests as they are.
Elsewhere(r) ==
    \A q \in Requests \ {r} :
        /\ status'[q] = status[q] /\ rows'[q] = rows[q] /\ had'[q] = had[q]
        /\ live'[q] = live[q] /\ (q \in ledger' <=> q \in ledger)

\* The step of a thread that has r, or enters it while nobody is there.
LEMMA OwnStep ==
  ASSUME TypeOK, CalmInv, LifecycleConstants, NEW w \in Workers, NEW r \in Requests,
         Inside(w, r) \/ (Quiet(r) /\ work[w].ref = NoRequest),
         Elsewhere(r), faults' = faults, ghosts' = ghosts,
         \A v \in Workers \ {w} : work'[v] = work[v],
         work'[w].pc = "idle" => work'[w].ref = NoRequest,
         Undisturbed(w)',
         \/ work'[w].ref = NoRequest /\ Settled(r)'
         \/ work'[w].ref = r /\ Holds(w, r)'
  PROVE  CalmInv'
<1>0. r # NoRequest /\ work[w].ref \in {r, NoRequest} /\ work'[w].ref \in {r, NoRequest}
  BY DEF LifecycleConstants, Inside
<1>1. \A v \in Workers \ {w} : work[v].ref # r
  BY <1>0 DEF CalmInv, Alone, Inside, Quiet
<1>2. Alone'
  BY <1>0, <1>1 DEF CalmInv, Alone
<1>3. NoFaultYet'
  BY DEF CalmInv, NoFaultYet, Undisturbed
<1>4. ASSUME NEW q \in Requests \ {r}
      PROVE  (Quiet(q)' => Settled(q)') /\ \A v \in Workers : Inside(v, q)' => Holds(v, q)'
  <2>1. /\ (Settled(q)' <=> Settled(q)) /\ (Unbuilt(q)' <=> Unbuilt(q))
        /\ (Whole(q)' <=> Whole(q)) /\ (Created(q)' <=> Created(q))
        /\ (Removed(q)' <=> Removed(q)) /\ (Open(q)' <=> Open(q))
        /\ status'[q] = status[q]
    BY DEF Elsewhere, Settled, Whole, Unbuilt, AllRows, Created, Removed, Open
  <2>2. ~Inside(w, q) /\ ~Inside(w, q)'
    BY <1>0, LifecycleConstants DEF Inside, LifecycleConstants
  <2>3. ASSUME NEW v \in Workers \ {w}
        PROVE  (Holds(v, q)' <=> Holds(v, q)) /\ (Inside(v, q)' <=> Inside(v, q))
    BY <2>1 DEF Holds, Inside
  <2>4. Quiet(q)' <=> Quiet(q)
    BY <2>2, <2>3 DEF Quiet
  <2>5. QED
    BY <2>1, <2>2, <2>3, <2>4 DEF CalmInv, Agreement
<1>5. (Quiet(r)' => Settled(r)') /\ \A v \in Workers : Inside(v, r)' => Holds(v, r)'
  BY <1>0, <1>1 DEF Inside, Quiet
<1>6. QED
  BY <1>2, <1>3, <1>4, <1>5 DEF CalmInv, Agreement

\* The thread is done, and leaves the request settled.
LEMMA DoneStep ==
  ASSUME TypeOK, CalmInv, LifecycleConstants, NEW w \in Workers, NEW r \in Requests,
         work[w].ref = r, Done(w), Elsewhere(r), faults' = faults, ghosts' = ghosts,
         Settled(r)'
  PROVE  CalmInv'
<1>1. work'[w] = Idle /\ \A v \in Workers \ {w} : work'[v] = work[v]
  BY DEF Done, TypeOK
<1>2. work'[w].ref = NoRequest /\ Undisturbed(w)'
  BY <1>1 DEF Idle, Undisturbed, Calls
<1>3. QED
  BY <1>1, <1>2, OwnStep DEF Inside

\* The thread goes on with the request, or enters it.
LEMMA MoveStep ==
  ASSUME TypeOK, CalmInv, LifecycleConstants, NEW w \in Workers, NEW r \in Requests,
         Inside(w, r) \/ (Quiet(r) /\ work[w].ref = NoRequest),
         Elsewhere(r), faults' = faults, ghosts' = ghosts,
         NEW e \in Work, work' = [work EXCEPT ![w] = e],
         e.ref = r, e.pc # "idle", e.reply \notin {"down", "timeout"},
         e.pc \notin Calls => e.reply = "none",
         e.pc \in Calls /\ e.reply = "none" => e.left = PostAttempts,
         Holds(w, r)'
  PROVE  CalmInv'
<1>1. work'[w] = e /\ \A v \in Workers \ {w} : work'[v] = work[v]
  BY DEF TypeOK
<1>2. Undisturbed(w)'
  BY <1>1 DEF Undisturbed
<1>3. QED
  BY <1>1, <1>2, OwnStep

\* A thread that goes on with nothing answered yet.
LEMMA SettledMove ==
  ASSUME NEW w \in Workers, NEW r \in Requests, Settled(r)',
         work'[w].reply = "none", work'[w].pc \notin {"applying", "verifying"},
         work'[w].pc \in Building => Open(r)',
         work'[w].pc = "destroying" => work'[w].st = status'[r]
  PROVE  Holds(w, r)'
BY DEF Holds, Unsettled

\* A request that is open and settled has nothing on record.
LEMMA OpenIsUnbuilt ==
  ASSUME NEW r \in Requests, Settled(r), Open(r)
  PROVE  Unbuilt(r)
BY DEF Settled, Open

\* A step that changes the status of r alone, to one that means no more.
LEMMA OpenStays ==
  ASSUME TypeOK, NEW r \in Requests, Settled(r), Open(r),
         UNCHANGED <<rows, had, ledger, live>>,
         NEW s \in Statuses \ {"provisioned", "verify-failed", "decommissioned"},
         status' \in {status, [status EXCEPT ![r] = s]}
  PROVE  Settled(r)' /\ Open(r)' /\ Elsewhere(r)
<1>1. status'[r] \in {status[r], s} /\ \A q \in Requests \ {r} : status'[q] = status[q]
  BY DEF TypeOK
<1>2. Open(r)' /\ Elsewhere(r)
  BY <1>1 DEF Open, Elsewhere
<1>3. QED
  BY <1>1, <1>2, OpenIsUnbuilt DEF Settled, Open, Unbuilt, AllRows

\* What a thread knows before its step.
LEMMA HoldsNow ==
  ASSUME TypeOK, CalmInv, NEW w \in Workers, work[w].pc # "idle"
  PROVE  /\ work[w].ref \in Requests /\ Inside(w, work[w].ref) /\ Holds(w, work[w].ref)
         /\ Undisturbed(w) /\ work[w] \in Work
BY DEF TypeOK, WellFormed, CalmInv, Agreement, NoFaultYet, Inside

LEMMA PollCalm ==
  ASSUME Calm, TypeOK, CalmInv, LifecycleConstants, NEW p \in Pollers, Poll(p)
  PROVE  CalmInv'
<1> SUFFICES ASSUME NEW r, r = work[p].ref PROVE CalmInv'
  OBVIOUS
<1>0. p \in Workers /\ work[p] \in Work
  BY DEF Workers, TypeOK
<1>1. ASSUME NEW q \in Requests, Visit(p, q) PROVE CalmInv'
  <2>1. PICK pc \in {"jira", "start"} :
           /\ work' = [work EXCEPT ![p] = Loaded(q, pc)]
           /\ status[q] \in {"submitted", "planned"}
    BY <1>1 DEF Visit
  <2>2. Quiet(q) /\ work[p].ref = NoRequest /\ Settled(q) /\ Open(q)
    BY <1>0, <1>1, <2>1 DEF Visit, At, MayEnter, Calm, CalmInv, Alone, Agreement, Open
  <2>3. Loaded(q, pc) \in Work /\ Loaded(q, pc).ref = q /\ Loaded(q, pc).pc = pc
    BY LoadedType DEF Pcs
  <2>4. Loaded(q, pc).reply = "none"
    BY DEF Loaded, Idle
  <2>5. UNCHANGED <<status, rows, had, ledger, live, faults, ghosts>>
    BY <1>1 DEF Visit, db, orch
  <2>6. Elsewhere(q) /\ Settled(q)' /\ Open(q)'
    BY <2>2, <2>5 DEF Elsewhere, Settled, Open, Whole, Unbuilt, AllRows
  <2>7. work'[p] = Loaded(q, pc)
    BY <1>0, <2>1 DEF TypeOK
  <2>8. Holds(p, q)'
    BY <1>0, <2>3, <2>4, <2>6, <2>7, SettledMove
  <2>9. QED
    BY <1>0, <2>1, <2>2, <2>3, <2>4, <2>5, <2>6, <2>8, MoveStep DEF Calls
<1>2. CASE PollNotApproved(p) \/ PollHeld(p) \/ PollHalted(p)
  <2>1. work[p].pc \in {"jira", "handoff"} /\ Done(p)
    BY <1>2 DEF PollNotApproved, PollHeld, PollHalted, At
  <2>2. r \in Requests /\ Settled(r) /\ Open(r)
    BY <1>0, <2>1, HoldsNow DEF Holds, Unsettled, Building
  <2>3. /\ status' \in {status, [status EXCEPT ![r] = "rejected"]}
        /\ UNCHANGED <<rows, had, ledger, live, faults, ghosts>>
    BY <1>2, <2>2 DEF PollNotApproved, PollHeld, PollHalted, SetStatus, db, orch, TypeOK
  <2>4. Settled(r)' /\ Elsewhere(r)
    BY <2>2, <2>3, OpenStays, StatusValues
  <2>5. QED
    BY <1>0, <2>1, <2>2, <2>3, <2>4, DoneStep
<1>3. CASE PollApproved(p)
  <2>1. work[p].pc = "jira"
    BY <1>3 DEF PollApproved, At
  <2>2. /\ r \in Requests /\ Settled(r) /\ Open(r) /\ work[p].reply = "none" /\ Inside(p, r)
    BY <1>0, <2>1, HoldsNow DEF Holds, Unsettled, Building, Undisturbed, Calls
  <2> DEFINE e == [work[p] EXCEPT !.pc = "fulfil", !.ap = "approved"]
  <2>3. e \in Work /\ e.ref = r /\ e.pc = "fulfil" /\ e.reply = "none"
    BY <1>0, <2>2 DEF Work, Pcs, Verdicts
  <2>4. work' = [work EXCEPT ![p] = e]
    BY <1>0, <1>3 DEF PollApproved, TypeOK
  <2>5. UNCHANGED <<status, rows, had, ledger, live, faults, ghosts>>
    BY <1>3 DEF PollApproved, orch
  <2>6. Elsewhere(r) /\ Settled(r)' /\ Open(r)'
    BY <2>2, <2>5 DEF Elsewhere, Settled, Open, Whole, Unbuilt, AllRows
  <2>7. work'[p] = e
    BY <1>0, <2>4 DEF TypeOK
  <2> HIDE DEF e
  <2>8. Holds(p, r)'
    BY <1>0, <2>2, <2>3, <2>6, <2>7, SettledMove
  <2>9. QED
    BY <1>0, <2>2, <2>3, <2>4, <2>5, <2>6, <2>8, MoveStep DEF Calls
<1>4. CASE Fulfil(p) \/ AutobuildDone(p)
  <2>1. work[p].pc \in {"fulfil", "autobuild"}
    BY <1>4 DEF Fulfil, AutobuildDone, At
  <2>2. /\ r \in Requests /\ Settled(r) /\ Open(r) /\ work[p].reply = "none" /\ Inside(p, r)
    BY <1>0, <2>1, HoldsNow DEF Holds, Unsettled, Building, Undisturbed, Calls
  <2>3. UNCHANGED <<rows, had, ledger, live, faults, ghosts>>
    BY <1>4 DEF Fulfil, AutobuildDone, orch
  <2>4. \/ Done(p) /\ status' = [status EXCEPT ![r] = "manual-fulfil"]
        \/ GoWith(p, "autobuild", "auto-building")
           /\ status' = [status EXCEPT ![r] = "auto-building"]
        \/ Go(p, "handoff") /\ UNCHANGED status
        \/ GoWith(p, "handoff", "in-progress") /\ UNCHANGED status
    BY <1>4 DEF Fulfil, AutobuildDone, ManualFulfilment
  <2>5. Settled(r)' /\ Open(r)' /\ Elsewhere(r)
    <3>1. PICK s \in {"manual-fulfil", "auto-building"} :
             status' \in {status, [status EXCEPT ![r] = s]}
      BY <2>4
    <3>2. QED
      BY <2>2, <2>3, <3>1, OpenStays, StatusValues
  <2>6. CASE Done(p)
    BY <1>0, <2>2, <2>3, <2>5, <2>6, DoneStep
  <2>7. ASSUME NEW e \in Work, e.ref = r, e.pc \in {"autobuild", "handoff"}, e.reply = "none",
               work' = [work EXCEPT ![p] = e]
        PROVE  CalmInv'
    <3>1. work'[p] = e
      BY <1>0, <2>7 DEF TypeOK
    <3>2. Holds(p, r)'
      BY <1>0, <2>2, <2>5, <2>7, <3>1, SettledMove
    <3>3. QED
      BY <1>0, <2>2, <2>3, <2>5, <2>7, <3>2, MoveStep DEF Calls
  <2>8. CASE Go(p, "handoff")
    <3>1. [work[p] EXCEPT !.pc = "handoff"] \in Work
      BY <1>0 DEF Work, Pcs
    <3>2. QED
      BY <1>0, <2>2, <2>7, <2>8, <3>1 DEF Go, Work
  <2>9. ASSUME NEW pc \in {"autobuild", "handoff"},
               NEW s \in {"auto-building", "in-progress"}, GoWith(p, pc, s)
        PROVE  CalmInv'
    <3>1. [work[p] EXCEPT !.pc = pc, !.st = s] \in Work
      BY <1>0 DEF Work, Pcs, Statuses, WORKING_STATUSES
    <3>2. work' = [work EXCEPT ![p] = [work[p] EXCEPT !.pc = pc, !.st = s]]
      BY <1>0, <2>9 DEF GoWith, TypeOK
    <3>3. QED
      BY <1>0, <2>2, <2>7, <3>1, <3>2 DEF Work
  <2>10. QED
    BY <2>4, <2>6, <2>8, <2>9
<1>5. CASE Handoff(p)
  <2>1. work[p].pc = "handoff"
    BY <1>5 DEF Handoff, At
  <2>2. /\ r \in Requests /\ Settled(r) /\ Open(r) /\ work[p].reply = "none" /\ Inside(p, r)
    BY <1>0, <2>1, HoldsNow DEF Holds, Unsettled, Building, Undisturbed, Calls
  <2> DEFINE e == [work[p] EXCEPT !.pc = "planning", !.left = PostAttempts]
  <2>3. /\ e \in Work /\ e.ref = r /\ e.pc = "planning" /\ e.reply = "none"
        /\ e.left = PostAttempts
    BY <1>0, <2>2, LifecycleConstants DEF Work, Pcs, Calls, LifecycleConstants
  <2>4. work' = [work EXCEPT ![p] = e]
    BY <1>5 DEF Handoff, Call
  <2>5. /\ UNCHANGED <<rows, had, ledger, live, faults, ghosts>>
        /\ status' \in {status, [status EXCEPT ![r] = "in-progress"]}
    BY <1>0, <1>5, <2>2 DEF Handoff, orch, TypeOK
  <2>6. Elsewhere(r) /\ Settled(r)' /\ Open(r)'
    BY <2>2, <2>5, OpenStays, StatusValues
  <2>7. work'[p] = e
    BY <1>0, <2>4 DEF TypeOK
  <2> HIDE DEF e
  <2>8. Holds(p, r)'
    BY <1>0, <2>2, <2>3, <2>6, <2>7, SettledMove
  <2>9. QED
    BY <1>0, <2>2, <2>3, <2>4, <2>5, <2>6, <2>8, MoveStep DEF Calls
<1>6. CASE PlanFails(p)
  <2>1. work[p].pc = "planning" /\ Done(p)
    BY <1>6 DEF PlanFails, At
  <2>2. r \in Requests /\ Settled(r) /\ Open(r)
    BY <1>0, <2>1, HoldsNow DEF Holds, Unsettled, Building
  <2>3. PICK s \in {"cost-changed", "submitted"} :
           /\ status' \in {status, [status EXCEPT ![r] = s]}
           /\ UNCHANGED <<rows, had, ledger, live, faults, ghosts>>
    BY <1>6 DEF PlanFails, orch
  <2>4. Settled(r)' /\ Elsewhere(r)
    BY <2>2, <2>3, OpenStays, StatusValues
  <2>5. QED
    BY <1>0, <2>1, <2>2, <2>3, <2>4, DoneStep
<1>7. CASE PlanSucceeds(p)
  <2>1. work[p].pc = "planning"
    BY <1>7 DEF PlanSucceeds, At
  <2>2. r \in Requests /\ Settled(r) /\ Open(r) /\ Inside(p, r)
    BY <1>0, <2>1, HoldsNow DEF Holds, Unsettled, Building
  <2> DEFINE e == [Fresh(r) EXCEPT !.pc = "start", !.st = "planned"]
  <2>3. e \in Work /\ e.ref = r /\ e.pc = "start" /\ e.reply = "none"
    BY <2>2, FreshType DEF Work, Pcs, Fresh, Idle, Statuses, QUEUED_STATUSES
  <2>4. work' = [work EXCEPT ![p] = e]
    BY <1>7 DEF PlanSucceeds
  <2>5. /\ UNCHANGED <<rows, had, ledger, live, faults, ghosts>>
        /\ status' \in {status, [status EXCEPT ![r] = "planned"]}
    BY <1>0, <1>7, <2>2 DEF PlanSucceeds, orch, SetStatus, TypeOK
  <2>6. Elsewhere(r) /\ Settled(r)' /\ Open(r)'
    BY <2>2, <2>5, OpenStays, StatusValues
  <2>7. work'[p] = e
    BY <1>0, <2>4 DEF TypeOK
  <2> HIDE DEF e
  <2>8. Holds(p, r)'
    BY <1>0, <2>2, <2>3, <2>6, <2>7, SettledMove
  <2>9. QED
    BY <1>0, <2>2, <2>3, <2>4, <2>5, <2>6, <2>8, MoveStep DEF Calls
<1>8. CASE PlanFindsBuilt(p)
  <2>1. work[p].pc = "planning" /\ work[p].reply = "built"
    BY <1>8 DEF PlanFindsBuilt, At
  <2>2. QED
    BY <1>0, <2>1, HoldsNow DEF Holds
<1>9. QED
  BY <1>1, <1>2, <1>3, <1>4, <1>5, <1>6, <1>7, <1>8 DEF Poll

\* What is neither the thread's nor the request's changes nothing here.
LEMMA CalmFrame ==
  ASSUME CalmInv, UNCHANGED <<status, rows, had, ledger, live, work, faults, ghosts>>
  PROVE  CalmInv'
BY DEF CalmInv, Alone, NoFaultYet, Undisturbed, Agreement, Quiet, Inside, Holds, Settled,
       Whole, Unbuilt, Created, Removed, Open, AllRows

LEMMA ButtonCalm ==
  ASSUME Calm, TypeOK, CalmInv, LifecycleConstants, NEW c \in Clickers, Button(c)
  PROVE  CalmInv'
<1> SUFFICES ASSUME NEW r, r = work[c].ref PROVE CalmInv'
  OBVIOUS
<1>0. c \in Workers /\ work[c] \in Work
  BY DEF Workers, TypeOK
<1>1. ASSUME NEW q \in Requests, At(c, "idle"), MayEnter(q), NEW e \in Work,
             work' = [work EXCEPT ![c] = e],
             UNCHANGED <<status, rows, had, ledger, live, faults, ghosts>>,
             e.ref = q, e.pc \in {"approving", "starting", "cancelling", "destroying"},
             e.reply = "none", e.st = status[q],
             e.pc \in Calls => e.left = PostAttempts,
             e.pc \in {"starting", "cancelling"} => Open(q)
      PROVE  CalmInv'
  <2>1. Quiet(q) /\ work[c].ref = NoRequest /\ Settled(q)
    BY <1>0, <1>1 DEF At, MayEnter, Calm, CalmInv, Alone, Agreement
  <2>2. Elsewhere(q) /\ Settled(q)' /\ (Open(q) => Open(q)')
    BY <1>1, <2>1 DEF Elsewhere, Settled, Open, Whole, Unbuilt, AllRows
  <2>3. work'[c] = e
    BY <1>0, <1>1 DEF TypeOK
  <2>4. Holds(c, q)'
    BY <1>0, <1>1, <2>2, <2>3, SettledMove DEF Building
  <2>5. QED
    BY <1>0, <1>1, <2>1, <2>2, <2>4, MoveStep DEF Calls
<1>2. ASSUME NEW q \in Requests,
             ClickApprove(c, q) \/ ClickApply(c, q) \/ ClickCancel(c, q)
      PROVE  CalmInv'
  <2>1. PICK pc \in {"approving", "starting", "cancelling"} :
           /\ Click(c, q, pc)
           /\ pc = "starting" => status[q] = "planned"
           /\ pc = "cancelling" => ~had[q] /\ status[q] \in CANCELLABLE
    BY <1>2 DEF ClickApprove, ClickApply, ClickCancel
  <2>2. /\ Loaded(q, pc) \in Work /\ Loaded(q, pc).ref = q /\ Loaded(q, pc).pc = pc
        /\ Loaded(q, pc).st = status[q]
    BY LoadedType DEF Pcs
  <2>3. Loaded(q, pc).reply = "none"
    BY DEF Loaded, Idle
  <2>4. At(c, "idle") /\ MayEnter(q) /\ work' = [work EXCEPT ![c] = Loaded(q, pc)]
    BY <2>1 DEF Click
  <2>5. Settled(q)
    BY <2>4 DEF MayEnter, Calm, CalmInv, Agreement
  <2>6. pc \in {"starting", "cancelling"} => Open(q)
    BY <2>1, <2>5 DEF Settled, Whole, Open, CANCELLABLE
  <2>7. UNCHANGED <<status, rows, had, ledger, live, faults, ghosts>>
    BY <2>1 DEF Click, db, orch
  <2>8. QED
    BY <1>1, <2>2, <2>3, <2>4, <2>6, <2>7 DEF Calls
<1>3. ASSUME NEW q \in Requests, ClickDestroy(c, q) PROVE CalmInv'
  <2> DEFINE e == [Loaded(q, "destroying") EXCEPT !.pc = "destroying", !.left = PostAttempts]
  <2>1. /\ Loaded(q, "destroying") \in Work /\ Loaded(q, "destroying").ref = q
        /\ Loaded(q, "destroying").st = status[q]
    BY LoadedType DEF Pcs, Calls
  <2>2. Loaded(q, "destroying").reply = "none"
    BY DEF Loaded, Idle
  <2>3. /\ e \in Work /\ e.ref = q /\ e.pc = "destroying" /\ e.reply = "none"
        /\ e.left = PostAttempts /\ e.st = status[q]
    BY <2>1, <2>2, LifecycleConstants DEF Work, Pcs, Calls, LifecycleConstants
  <2>4. At(c, "idle") /\ MayEnter(q) /\ work' = [work EXCEPT ![c] = e]
    BY <1>3 DEF ClickDestroy, Call
  <2>5. UNCHANGED <<status, rows, had, ledger, live, faults, ghosts>>
    BY <1>3 DEF ClickDestroy, db, orch
  <2> HIDE DEF e
  <2>6. QED
    BY <1>1, <2>3, <2>4, <2>5
<1>4. ASSUME NEW q \in Requests, ClickRetry(c, q) PROVE CalmInv'
  BY <1>4, CalmFrame DEF ClickRetry, orch
<1>5. CASE ApproveRefused(c)
  <2>1. work[c].pc = "approving" /\ Done(c)
    BY <1>5 DEF ApproveRefused, At
  <2>2. r \in Requests /\ Settled(r)
    BY <1>0, <2>1, HoldsNow DEF Holds, Unsettled
  <2>3. UNCHANGED <<status, rows, had, ledger, live, faults, ghosts>>
    BY <1>5 DEF ApproveRefused, orch
  <2>4. Settled(r)' /\ Elsewhere(r)
    BY <2>2, <2>3 DEF Elsewhere, Settled, Whole, Unbuilt, AllRows
  <2>5. QED
    BY <1>0, <2>1, <2>2, <2>3, <2>4, DoneStep
<1>6. CASE Approve(c)
  <2>1. work[c].pc = "approving"
    BY <1>6 DEF Approve, At
  <2>2. r \in Requests /\ Settled(r) /\ work[c].reply = "none" /\ Inside(c, r)
    BY <1>0, <2>1, HoldsNow DEF Holds, Unsettled, Undisturbed, Calls
  <2> DEFINE e == [[work[c] EXCEPT !.ap = "approved"]
                      EXCEPT !.pc = "replanning", !.left = PostAttempts]
  <2>3. /\ e \in Work /\ e.ref = r /\ e.pc = "replanning" /\ e.reply = "none"
        /\ e.left = PostAttempts
    BY <1>0, <2>2, LifecycleConstants DEF Work, Pcs, Calls, Verdicts, LifecycleConstants
  <2>4. work' = [work EXCEPT ![c] = e]
    BY <1>6 DEF Approve, Call
  <2>5. UNCHANGED <<status, rows, had, ledger, live, faults, ghosts>>
    BY <1>6 DEF Approve, orch
  <2>6. Settled(r)' /\ Elsewhere(r)
    BY <2>2, <2>5 DEF Elsewhere, Settled, Whole, Unbuilt, AllRows
  <2>7. work'[c] = e
    BY <1>0, <2>4 DEF TypeOK
  <2> HIDE DEF e
  <2>8. Holds(c, r)'
    BY <1>0, <2>2, <2>3, <2>6, <2>7, SettledMove DEF Building
  <2>9. QED
    BY <1>0, <2>2, <2>3, <2>4, <2>5, <2>6, <2>8, MoveStep DEF Calls
<1>7. CASE ApproveEnds(c)
  <2>1. work[c].pc = "replanning" /\ Done(c)
    BY <1>7 DEF ApproveEnds, At
  <2>2. /\ r \in Requests /\ Settled(r)
        /\ work[c].reply = "ok" => Unbuilt(r)
        /\ work[c].reply = "built" => Whole(r)
    BY <1>0, <2>1, HoldsNow DEF Holds, Unsettled
  <2>3. UNCHANGED <<rows, had, ledger, live, faults, ghosts>>
    BY <1>7 DEF ApproveEnds, orch
  <2>4. \/ status' = status
        \/ work[c].reply = "ok" /\ status' = [status EXCEPT ![r] = "planned"]
        \/ work[c].reply = "built" /\ status' = [status EXCEPT ![r] = "provisioned"]
    BY <1>7, <2>2 DEF ApproveEnds, SetStatus, TypeOK
  <2>5. \/ status'[r] = status[r]
        \/ work[c].reply = "ok" /\ status'[r] = "planned"
        \/ work[c].reply = "built" /\ status'[r] = "provisioned"
    BY <2>2, <2>4 DEF TypeOK
  <2>6. Settled(r)'
    BY <2>2, <2>3, <2>5 DEF Settled, Whole, Unbuilt, AllRows
  <2>7. Elsewhere(r)
    BY <2>2, <2>3, <2>4 DEF Elsewhere, TypeOK
  <2>8. QED
    BY <1>0, <2>1, <2>2, <2>3, <2>6, <2>7, DoneStep
<1>8. CASE Cancel(c)
  <2>1. work[c].pc = "cancelling" /\ Done(c)
    BY <1>8 DEF Cancel, At
  <2>2. r \in Requests /\ Settled(r) /\ Open(r)
    BY <1>0, <2>1, HoldsNow DEF Holds, Unsettled, Building
  <2>3. /\ status' \in {status, [status EXCEPT ![r] = "cancelled"]}
        /\ UNCHANGED <<rows, had, ledger, live, faults, ghosts>>
    BY <1>8 DEF Cancel, orch
  <2>4. Settled(r)' /\ Elsewhere(r)
    BY <2>2, <2>3, OpenStays, StatusValues
  <2>5. QED
    BY <1>0, <2>1, <2>2, <2>3, <2>4, DoneStep
<1>9. CASE DestroyEnds(c)
  <2>1. work[c].pc = "destroying" /\ Done(c)
    BY <1>9 DEF DestroyEnds, At
  <2>2. /\ r \in Requests /\ work[c].st = status[r]
        /\ IF work[c].reply = "ok" THEN Removed(r) ELSE Settled(r)
    BY <1>0, <2>1, HoldsNow DEF Holds
  <2>3. UNCHANGED <<had, ledger, live, faults, ghosts>>
    BY <1>9 DEF DestroyEnds, orch
  <2>4. CASE work[c].reply = "ok"
    <3>1. /\ rows' = [rows EXCEPT ![r] = [u \in Units |-> 0]]
          /\ SetStatus(c, r, "decommissioned")
      BY <1>9, <2>4 DEF DestroyEnds
    <3>2. /\ status'[r] = "decommissioned" /\ rows'[r] = [u \in Units |-> 0]
          /\ \A q \in Requests \ {r} : status'[q] = status[q] /\ rows'[q] = rows[q]
      BY <2>2, <3>1 DEF SetStatus, TypeOK
    <3>3. Settled(r)'
      BY <2>2, <2>3, <2>4, <3>2 DEF Removed, Settled, Unbuilt, AllRows
    <3>4. Elsewhere(r)
      BY <2>3, <3>2 DEF Elsewhere
    <3>5. QED
      BY <1>0, <2>1, <2>2, <2>3, <3>3, <3>4, DoneStep
  <2>5. CASE work[c].reply # "ok"
    <3>1. UNCHANGED <<rows, status>>
      BY <1>9, <2>5 DEF DestroyEnds
    <3>2. Settled(r)' /\ Elsewhere(r)
      BY <2>2, <2>3, <2>5, <3>1 DEF Elsewhere, Settled, Whole, Unbuilt, AllRows
    <3>3. QED
      BY <1>0, <2>1, <2>2, <2>3, <3>2, DoneStep
  <2>6. QED
    BY <2>4, <2>5
<1>10. QED
  BY <1>2, <1>3, <1>4, <1>5, <1>6, <1>7, <1>8, <1>9 DEF Button

LEMMA BuildCalm ==
  ASSUME Calm, TypeOK, CalmInv, LifecycleConstants, NEW w \in Workers, Build(w)
  PROVE  CalmInv'
<1> SUFFICES ASSUME NEW r, r = work[w].ref PROVE CalmInv'
  OBVIOUS
<1>0. work[w] \in Work
  BY DEF TypeOK
<1>1. CASE StartApply(w)
  <2>1. work[w].pc \in {"start", "starting"}
    BY <1>1 DEF StartApply, At
  <2>2. r \in Requests /\ Settled(r) /\ Open(r) /\ Inside(w, r)
    BY <1>0, <2>1, HoldsNow DEF Holds, Unsettled, Building
  <2> DEFINE e == [Fresh(r) EXCEPT !.pc = "applying", !.left = PostAttempts]
  <2>3. /\ e \in Work /\ e.ref = r /\ e.pc = "applying" /\ e.reply = "none"
        /\ e.left = PostAttempts
    BY <2>2, FreshType, LifecycleConstants DEF Work, Pcs, Calls, Fresh, Idle, LifecycleConstants
  <2>4. work' = [work EXCEPT ![w] = e]
    BY <1>1 DEF StartApply, Call
  <2>5. /\ UNCHANGED <<rows, had, ledger, live, faults, ghosts>>
        /\ status' \in {status, [status EXCEPT ![r] = "in-progress"]}
    BY <1>1, <2>2 DEF StartApply, orch, SetStatus, TypeOK
  <2>6. Elsewhere(r) /\ Settled(r)' /\ Open(r)'
    BY <2>2, <2>5, OpenStays, StatusValues
  <2>7. Unbuilt(r)'
    BY <2>6 DEF Settled, Open
  <2>8. work'[w] = e
    BY <1>0, <2>4 DEF TypeOK
  <2> HIDE DEF e
  <2>9. Holds(w, r)'
    BY <2>3, <2>6, <2>7, <2>8 DEF Holds, Unsettled
  <2>10. QED
    BY <2>2, <2>3, <2>4, <2>5, <2>6, <2>9, MoveStep DEF Calls
<1>2. CASE ApplyFails(w)
  <2>1. work[w].pc = "applying" /\ Done(w) /\ work[w].reply # "ok"
    BY <1>2 DEF ApplyFails, At
  <2>2. r \in Requests /\ Unbuilt(r)
    BY <1>0, <2>1, HoldsNow DEF Holds
  <2>3. /\ status' = [status EXCEPT ![r] = "apply-failed"]
        /\ UNCHANGED <<rows, had, ledger, live, faults, ghosts>>
    BY <1>2 DEF ApplyFails, orch
  <2>4. Settled(r)' /\ Elsewhere(r)
    BY <2>2, <2>3 DEF Elsewhere, Settled, Unbuilt, AllRows, TypeOK
  <2>5. QED
    BY <1>0, <2>1, <2>2, <2>3, <2>4, DoneStep
<1>3. CASE ApplyEnds(w)
  <2>1. work[w].pc = "applying" /\ work[w].reply = "ok"
    <3>1. work[w].pc = "applying" /\ work[w].reply \in {"ok", "timeout"}
      BY <1>3 DEF ApplyEnds, At
    <3>2. QED
      BY <3>1, HoldsNow DEF Undisturbed
  <2>2. r \in Requests /\ Created(r) /\ Inside(w, r)
    BY <1>0, <2>1, HoldsNow DEF Holds
  <2> DEFINE e == [Fresh(r) EXCEPT !.pc = "verifying"]
  <2>3. e \in Work /\ e.ref = r /\ e.pc = "verifying" /\ e.reply = "none"
    BY <2>2, FreshType DEF Work, Pcs, Fresh, Idle
  <2>4. work' = [work EXCEPT ![w] = e]
    BY <1>3 DEF ApplyEnds
  <2>5. UNCHANGED <<status, ledger, live, faults, ghosts>> /\ Record(r)
    BY <1>3, <2>1 DEF ApplyEnds, orch
  <2>6. /\ had'[r] = TRUE /\ AllRows(r, 1)'
        /\ \A q \in Requests \ {r} : rows'[q] = rows[q] /\ had'[q] = had[q]
    BY <2>2, <2>5 DEF Record, Created, AllRows, TypeOK
  <2>7. Elsewhere(r) /\ Whole(r)'
    BY <2>2, <2>5, <2>6 DEF Elsewhere, Whole, Created
  <2>8. work'[w] = e
    BY <1>0, <2>4 DEF TypeOK
  <2> HIDE DEF e
  <2>9. Holds(w, r)'
    BY <2>3, <2>7, <2>8 DEF Holds, Unsettled, Building
  <2>10. QED
    BY <2>2, <2>3, <2>4, <2>5, <2>7, <2>9, MoveStep DEF Calls
<1>4. CASE Verified(w)
  <2>1. work[w].pc = "verifying" /\ Done(w)
    BY <1>4 DEF Verified, At
  <2>2. r \in Requests /\ Whole(r)
    BY <1>0, <2>1, HoldsNow DEF Holds
  <2>3. PICK s \in {"provisioned", "verify-failed"} :
           /\ status' = [status EXCEPT ![r] = s]
           /\ UNCHANGED <<rows, had, ledger, live, faults, ghosts>>
    BY <1>4 DEF Verified, orch
  <2>4. Settled(r)' /\ Elsewhere(r)
    BY <2>2, <2>3 DEF Elsewhere, Settled, Whole, AllRows, TypeOK
  <2>5. QED
    BY <1>0, <2>1, <2>2, <2>3, <2>4, DoneStep
<1>5. QED
  BY <1>1, <1>2, <1>3, <1>4 DEF Build

\* The one thing a call may do here: be handled, once, while its caller waits.
LEMMA AnswerCalm ==
  ASSUME Calm, TypeOK, CalmInv, LifecycleConstants, NEW w \in Workers, Answer(w)
  PROVE  CalmInv'
<1> SUFFICES ASSUME NEW r, r = work[w].ref PROVE CalmInv'
  OBVIOUS
<1>0. work[w] \in Work /\ work[w].pc \in Calls /\ work[w].reply = "none"
  BY DEF TypeOK, Answer, Waiting
<1>1. /\ r \in Requests /\ Inside(w, r) /\ Holds(w, r) /\ work[w].pc # "idle"
  BY <1>0, HoldsNow DEF Calls
<1>2. PICK out \in Replies \ {"none", "down", "timeout"} :
         /\ Handle(work[w].pc, r, out)
         /\ work' = [work EXCEPT ![w].reply = out]
  BY DEF Answer
<1>3. UNCHANGED <<status, rows, had, ghosts, faults>>
  BY DEF Answer
<1> DEFINE e == [work[w] EXCEPT !.reply = out]
<1>4. /\ e \in Work /\ e.ref = r /\ e.pc = work[w].pc /\ e.reply = out /\ e.st = work[w].st
  BY <1>0 DEF Work
<1>5. work' = [work EXCEPT ![w] = e] /\ work'[w] = e
  BY <1>0, <1>2 DEF TypeOK
<1> HIDE DEF e
<1>6. ASSUME Elsewhere(r), Holds(w, r)' PROVE CalmInv'
  BY <1>0, <1>1, <1>3, <1>4, <1>5, <1>6, MoveStep DEF Replies
<1>7. CASE work[w].pc \in {"planning", "replanning"}
  <2>1. HandlePlan(r, out)
    BY <1>2, <1>7 DEF Handle
  <2>2. UNCHANGED <<status, rows, had, ledger, live>>
    BY <1>3, <2>1 DEF HandlePlan
  <2>3. (out = "built" => r \in ledger) /\ (out = "ok" => r \notin ledger)
    BY <2>1 DEF HandlePlan
  <2>4. Settled(r) /\ (work[w].pc = "planning" => Open(r))
    BY <1>1, <1>7 DEF Holds, Unsettled, Building
  <2>5. /\ out = "built" => Whole(r) /\ work[w].pc # "planning"
        /\ out = "ok" => Unbuilt(r)
    BY <2>3, <2>4 DEF Settled, Open, Whole, Unbuilt
  <2>6. /\ (Settled(r)' <=> Settled(r)) /\ (Open(r)' <=> Open(r)) /\ Elsewhere(r)
        /\ (Whole(r)' <=> Whole(r)) /\ (Unbuilt(r)' <=> Unbuilt(r))
    BY <2>2 DEF Elsewhere, Settled, Open, Whole, Unbuilt, AllRows
  <2>7. Holds(w, r)'
    BY <1>4, <1>5, <1>7, <2>4, <2>5, <2>6 DEF Holds, Unsettled, Building
  <2>8. QED
    BY <1>6, <2>6, <2>7
<1>8. CASE work[w].pc = "applying"
  <2>1. HandleApply(r, out)
    BY <1>2, <1>8 DEF Handle
  <2>2. Unbuilt(r) /\ Open(r)
    BY <1>0, <1>1, <1>8 DEF Holds, Building
  <2>3. \A q \in Requests \ {r} : live'[q] = live[q] /\ (q \in ledger' <=> q \in ledger)
    BY <1>1, <2>1 DEF HandleApply, orch, Create, TypeOK
  <2>4. IF out = "ok" THEN r \in ledger' /\ live'[r] = Units ELSE r \notin ledger'
    <3>1. \/ UNCHANGED orch /\ out = "refused"
          \/ out = "ok" /\ Create(r, Units) /\ ledger' = ledger \cup {r}
          \/ UNCHANGED ledger /\ out = "refused"
      BY <2>1, <2>2 DEF HandleApply, Unbuilt
    <3>2. CASE out = "ok" /\ Create(r, Units) /\ ledger' = ledger \cup {r}
      <4>1. live[r] \subseteq Units /\ live'[r] = live[r] \cup Units
        BY <1>1, <3>2 DEF Create, TypeOK
      <4>2. QED
        BY <3>2, <4>1
    <3>3. CASE out = "refused"
      BY <2>2, <3>1, <3>3 DEF orch, Unbuilt
    <3>4. QED
      BY <3>1, <3>2, <3>3
  <2>5. AllRows(r, 0)' /\ Open(r)' /\ Elsewhere(r)
    BY <1>3, <2>2, <2>3 DEF Unbuilt, AllRows, Open, Elsewhere
  <2>6. Holds(w, r)'
    BY <1>4, <1>5, <1>8, <2>4, <2>5 DEF Holds, Unsettled, Created, Unbuilt
  <2>7. QED
    BY <1>6, <2>5, <2>6
<1>9. CASE work[w].pc = "destroying"
  <2>1. HandleDestroy(r, out)
    BY <1>2, <1>9 DEF Handle
  <2>2. Settled(r) /\ work[w].st = status[r]
    BY <1>0, <1>1, <1>9 DEF Holds
  <2>3. \A q \in Requests \ {r} : live'[q] = live[q] /\ (q \in ledger' <=> q \in ledger)
    BY <1>1, <2>1 DEF HandleDestroy, TypeOK
  <2>4. \/ out = "ok" /\ r \notin ledger' /\ live'[r] = {}
        \/ out # "ok" /\ UNCHANGED <<ledger, live>>
    BY <1>1, <2>1 DEF HandleDestroy, TypeOK
  <2>5. Elsewhere(r) /\ status'[r] = status[r]
    BY <1>3, <2>3 DEF Elsewhere
  <2>6. out # "ok" => Settled(r)'
    BY <1>3, <2>2, <2>4 DEF Settled, Whole, Unbuilt, AllRows
  <2>7. Holds(w, r)'
    BY <1>4, <1>5, <1>9, <2>2, <2>4, <2>5, <2>6 DEF Holds, Unsettled, Building, Removed
  <2>8. QED
    BY <1>6, <2>5, <2>7
<1>10. QED
  BY <1>0, <1>7, <1>8, <1>9 DEF Calls

LEMMA NoFaultIsLeft == Calm /\ TypeOK /\ CalmInv => ~Fault
BY DEF Calm, CalmInv, NoFaultYet, Fault

LEMMA NetworkCalm ==
  ASSUME Calm, TypeOK, CalmInv, LifecycleConstants, NEW w \in Workers, Network(w)
  PROVE  CalmInv'
<1>1. ~PartialWork(w)
  BY NoFaultIsLeft DEF PartialWork
<1>2. Waiting(w) => work[w].left = PostAttempts
  BY DEF Waiting, CalmInv, NoFaultYet, Undisturbed
<1>3. Waiting(w) => ~Outage(w)
  BY <1>2, NoFaultIsLeft, LifecycleConstants DEF Outage, LifecycleConstants
<1>4. ~CallLost(w) /\ ~CallTimesOut(w)
  BY <1>3 DEF CallLost, CallTimesOut
<1>5. QED
  BY <1>1, <1>4, AnswerCalm DEF Network

LEMMA WorldCalm ==
  ASSUME Calm, TypeOK, CalmInv
  PROVE  /\ \A r \in Requests : ManagerDecides(r) \/ ChatDecides(r) => CalmInv'
         /\ GhostRuns \/ OrchRestarts \/ ApiRestarts => CalmInv'
<1>1. ASSUME NEW r \in Requests, ManagerDecides(r) \/ ChatDecides(r) PROVE CalmInv'
  <2>1. UNCHANGED <<status, rows, had, ledger, live, work, faults, ghosts>>
    BY <1>1 DEF ManagerDecides, ChatDecides, db, orch
  <2>2. QED
    BY <2>1, CalmFrame
<1>2. ~GhostRuns
  BY DEF GhostRuns, CalmInv, NoFaultYet
<1>3. ~OrchRestarts /\ ~ApiRestarts
  BY NoFaultIsLeft DEF OrchRestarts, ApiRestarts
<1>4. QED
  BY <1>1, <1>2, <1>3

LEMMA CalmStep == Calm /\ TypeOK /\ CalmInv /\ [Next]_vars => CalmInv'
<1> SUFFICES ASSUME Calm, TypeOK, CalmInv, [Next]_vars PROVE CalmInv'
  OBVIOUS
<1>1. CASE Next
  <2>1. Pollers \subseteq Workers /\ Clickers \subseteq Workers
    BY DEF Workers
  <2>2. QED
    BY <1>1, <2>1, LifecycleConstants, PollCalm, ButtonCalm, BuildCalm, NetworkCalm, WorldCalm
       DEF Next
<1>2. CASE UNCHANGED vars
  <2>1. UNCHANGED <<status, rows, had, ledger, live, work, faults, ghosts>>
    BY <1>2 DEF vars
  <2>2. QED
    BY <2>1, CalmFrame
<1>3. QED
  BY <1>1, <1>2

LEMMA CalmAlways == Calm => (Spec => []CalmInv)
<1> SUFFICES ASSUME Calm PROVE Spec => []CalmInv
  OBVIOUS
<1>1. Init => CalmInv
  <2> SUFFICES ASSUME Init PROVE CalmInv
    OBVIOUS
  <2>1. \A w \in Workers : work[w] = Idle
    BY DEF Init
  <2>2. Alone /\ NoFaultYet /\ \A r \in Requests, w \in Workers : ~Inside(w, r)
    BY <2>1, LifecycleConstants DEF Init, Alone, NoFaultYet, Undisturbed, Idle, Calls, Inside,
       LifecycleConstants
  <2>3. \A r \in Requests : Settled(r)
    BY DEF Init, Settled, Unbuilt, AllRows
  <2>4. QED
    BY <2>2, <2>3 DEF CalmInv, Agreement
<1>2. TypeOK /\ CalmInv /\ [Next]_vars => CalmInv'
  BY CalmStep
<1>3. QED
  BY <1>1, <1>2, TypeCorrect, PTL DEF Spec

\* Where no call fails and one thread at a time works on a request, whatever the
\* managers, the buttons and Jira do, a request that nobody works on is shown as what
\* it is: built and verified (or not) with every unit live and on record once, or with
\* nothing on record (api/main.py, _provision_in_background and decommission).  The
\* number of pollers does not matter, nor whether Jira can be read.
THEOREM StatusIsTrue == Calm => (Spec => []StatusMatchesCloud)
<1> SUFFICES ASSUME Calm PROVE Spec => []StatusMatchesCloud
  OBVIOUS
<1>1. CalmInv => StatusMatchesCloud
  BY DEF CalmInv, Agreement, StatusMatchesCloud, Settled, Whole, Unbuilt
<1>2. QED
  BY <1>1, CalmAlways, PTL

-----------------------------------------------------------------------------
(* The orchestrator's ledger.                                              *)

\* Whoever calls, and however often: what a call does keeps the ledger true.
LEMMA HandleKeepsLedger ==
  ASSUME TypeOK, LedgerMatchesCloud, NEW r \in Requests, NEW op, NEW out, Handle(op, r, out)
  PROVE  LedgerMatchesCloud'
<1>1. CASE HandlePlan(r, out)
  BY <1>1 DEF HandlePlan, LedgerMatchesCloud
<1>2. CASE HandleApply(r, out)
  <2>1. CASE UNCHANGED orch
    BY <2>1 DEF orch, LedgerMatchesCloud
  <2>2. ASSUME NEW S \in SUBSET Units, Create(r, S), r \notin ledger,
               UNCHANGED ledger \/ (S = Units /\ ledger' = ledger \cup {r})
        PROVE  LedgerMatchesCloud'
    <3>1. \A q \in Requests \ {r} : live'[q] = live[q]
      BY <2>2 DEF Create, TypeOK
    <3>2. live[r] \subseteq Units /\ live'[r] = live[r] \cup S
      BY <2>2 DEF Create, TypeOK
    <3>3. ASSUME NEW q \in ledger' PROVE live'[q] = Units
      <4>1. CASE q # r
        BY <2>2, <3>1, <3>3, <4>1 DEF LedgerMatchesCloud, TypeOK
      <4>2. CASE q = r
        BY <2>2, <3>2, <3>3, <4>2
      <4>3. QED
        BY <4>1, <4>2
    <3>4. QED
      BY <3>3 DEF LedgerMatchesCloud
  <2>3. QED
    <3>1. plans[r] \subseteq Units
      BY DEF TypeOK
    <3>2. QED
      BY <1>2, <2>1, <2>2, <3>1 DEF HandleApply
<1>3. CASE HandleDestroy(r, out)
  BY <1>3 DEF HandleDestroy, TypeOK, LedgerMatchesCloud
<1>4. QED
  BY <1>1, <1>2, <1>3 DEF Handle

LEMMA NetworkKeepsLedger ==
  ASSUME TypeOK, LedgerMatchesCloud, NEW w \in Workers, Network(w), ~HalfDestroyed
  PROVE  LedgerMatchesCloud'
<1>1. Waiting(w) /\ work[w].ref \in Requests
  BY DEF Network, Answer, PartialWork, CallLost, CallTimesOut, Waiting, TypeOK, WellFormed,
         Calls
<1>2. CASE Answer(w)
  BY <1>1, <1>2, HandleKeepsLedger DEF Answer
<1>3. CASE PartialWork(w)
  <2>1. PICK S \in SUBSET Units : Create(work[w].ref, S) /\ work[w].ref \notin ledger
                                 /\ UNCHANGED ledger
    BY <1>1, <1>3 DEF PartialWork, HalfDestroyed, TypeOK
  <2>2. QED
    BY <1>1, <2>1 DEF Create, TypeOK, LedgerMatchesCloud
<1>4. CASE CallLost(w)
  <2>1. CASE UNCHANGED orch
    BY <2>1 DEF orch, LedgerMatchesCloud
  <2>2. QED
    BY <1>1, <1>4, <2>1, HandleKeepsLedger DEF CallLost
<1>5. CASE CallTimesOut(w)
  BY <1>5 DEF CallTimesOut, orch, LedgerMatchesCloud
<1>6. QED
  BY <1>2, <1>3, <1>4, <1>5 DEF Network

LEMMA LedgerStep ==
  TypeOK /\ [Next]_vars => [LedgerMatchesCloud /\ ~HalfDestroyed => LedgerMatchesCloud']_vars
<1> SUFFICES ASSUME TypeOK, Next, LedgerMatchesCloud, ~HalfDestroyed
             PROVE  LedgerMatchesCloud'
  OBVIOUS
<1>1. CASE UNCHANGED orch
  BY <1>1 DEF orch, LedgerMatchesCloud
<1>2. \/ UNCHANGED orch
      \/ \E w \in Workers : Network(w)
      \/ GhostRuns \/ OrchRestarts
  BY DEF Next, Poll, Visit, PollNotApproved, PollHeld, PollApproved, Fulfil,
     AutobuildDone, PollHalted, Handoff, PlanFails, PlanSucceeds, PlanFindsBuilt,
     Button, ClickApprove, ClickApply, ClickCancel, ClickRetry, ClickDestroy, Click,
     ApproveRefused, Approve, ApproveEnds, Cancel, DestroyEnds, Build, StartApply,
     ApplyFails, ApplyEnds, Verified, ManagerDecides, ChatDecides, ApiRestarts
<1>3. CASE GhostRuns
  BY <1>3, HandleKeepsLedger DEF GhostRuns, TypeOK
<1>4. CASE OrchRestarts
  BY <1>4 DEF OrchRestarts, LedgerMatchesCloud
<1>5. QED
  BY <1>1, <1>2, <1>3, <1>4, NetworkKeepsLedger

\* A ledger that tells the truth goes on telling it through every step of the system but
\* one: a destroy on which Terraform fails half way (orchestrator/main.py, destroy), which
\* removes units and keeps the key.  For any number of threads, units and faults.
THEOREM OnlyDestroySpoils == Spec => LedgerSpoiltByDestroyOnly
<1>1. TypeOK /\ [Next]_vars => [LedgerMatchesCloud /\ ~HalfDestroyed => LedgerMatchesCloud']_vars
  BY LedgerStep
<1>2. QED
  BY <1>1, TypeCorrect, PTL DEF Spec, LedgerSpoiltByDestroyOnly

\* So the orchestrator's idempotency ledger (orchestrator/main.py, _provisioned) answers
\* "already created" only about a request whose every unit is live, in every history in
\* which no destroy fails half way.
THEOREM LedgerIsTrue == Spec /\ [][~HalfDestroyed]_vars => []LedgerMatchesCloud
<1>1. Init => LedgerMatchesCloud
  BY DEF Init, LedgerMatchesCloud
<1>2. TypeOK /\ LedgerMatchesCloud /\ [Next]_vars /\ [~HalfDestroyed]_vars
        => LedgerMatchesCloud'
  <2> SUFFICES ASSUME TypeOK, LedgerMatchesCloud, [Next]_vars, [~HalfDestroyed]_vars
               PROVE  LedgerMatchesCloud'
    OBVIOUS
  <2>1. CASE UNCHANGED vars
    BY <2>1 DEF vars, LedgerMatchesCloud
  <2>2. CASE ~UNCHANGED vars
    BY <2>2, LedgerStep
  <2>3. QED
    BY <2>1, <2>2
<1>3. QED
  BY <1>1, <1>2, TypeCorrect, PTL DEF Spec

\* Where no call fails the ledger is true, whoever presses what and when.
COROLLARY LedgerIsTrueInCalm == MaxFaults = 0 => (Spec => []LedgerMatchesCloud)
<1> SUFFICES ASSUME MaxFaults = 0 PROVE Spec => []LedgerMatchesCloud
  OBVIOUS
<1>1. TypeOK => ~HalfDestroyed
  BY DEF HalfDestroyed, PartialWork, Fault, TypeOK
<1>2. Spec => [][~HalfDestroyed]_vars
  BY <1>1, TypeCorrect, PTL
<1>3. QED
  BY <1>2, LedgerIsTrue, PTL


-----------------------------------------------------------------------------
(* A request nobody works on can be collected, cancelled or is finished:   *)
(* the ladder of builds alone makes an exception.                          *)

\* A step that gives r a status, but not the one that only the ladder gives.
LEMMA SetsVisible ==
  ASSUME TypeOK, \A q \in Requests : status[q] # "auto-building",
         NEW r, NEW s, s # "auto-building", status' \in {status, [status EXCEPT ![r] = s]}
  PROVE  \A q \in Requests : status'[q] # "auto-building"
BY DEF TypeOK

LEMMA PollVisible ==
  ASSUME ~Autobuild, TypeOK, \A q \in Requests : status[q] # "auto-building",
         NEW p \in Pollers, Poll(p)
  PROVE  \A q \in Requests : status'[q] # "auto-building"
<1> SUFFICES ASSUME NEW r, r = work[p].ref
             PROVE  \A q \in Requests : status'[q] # "auto-building"
  OBVIOUS
<1>1. CASE (\E q \in Requests : Visit(p, q)) \/ PollHeld(p) \/ PollApproved(p) \/ PollHalted(p)
  BY <1>1 DEF Visit, PollHeld, PollApproved, PollHalted, db
<1>2. CASE PollNotApproved(p)
  <2>1. [status EXCEPT ![r] = status[r]] = status
    BY DEF TypeOK
  <2>2. status' \in {status, [status EXCEPT ![r] = "rejected"]}
    BY <1>2, <2>1 DEF PollNotApproved, SetStatus
  <2> QED BY <2>2, SetsVisible
<1>3. CASE Fulfil(p) \/ AutobuildDone(p)
  <2>1. status' \in {status, [status EXCEPT ![r] = "manual-fulfil"]}
    BY <1>3 DEF Fulfil, AutobuildDone, ManualFulfilment
  <2> QED BY <2>1, SetsVisible
<1>4. CASE Handoff(p)
  <2>1. status' \in {[status EXCEPT ![r] = status[r]], [status EXCEPT ![r] = "in-progress"]}
    BY <1>4 DEF Handoff
  <2>2. [status EXCEPT ![r] = status[r]] = status
    BY DEF TypeOK
  <2> QED BY <2>1, <2>2, SetsVisible
<1>5. CASE PlanFails(p)
  <2>1. \/ status' \in {status, [status EXCEPT ![r] = "cost-changed"]}
        \/ status' \in {status, [status EXCEPT ![r] = "submitted"]}
    BY <1>5 DEF PlanFails
  <2> QED BY <2>1, SetsVisible
<1>6. CASE PlanSucceeds(p) \/ PlanFindsBuilt(p)
  <2>1. \/ status' \in {[status EXCEPT ![r] = status[r]], [status EXCEPT ![r] = "planned"]}
        \/ status' \in {[status EXCEPT ![r] = status[r]], [status EXCEPT ![r] = "provisioned"]}
    BY <1>6 DEF PlanSucceeds, PlanFindsBuilt, SetStatus
  <2>2. [status EXCEPT ![r] = status[r]] = status
    BY DEF TypeOK
  <2> QED BY <2>1, <2>2, SetsVisible
<1> QED BY <1>1, <1>2, <1>3, <1>4, <1>5, <1>6 DEF Poll

LEMMA ButtonVisible ==
  ASSUME TypeOK, \A q \in Requests : status[q] # "auto-building",
         NEW c \in Clickers, Button(c)
  PROVE  \A q \in Requests : status'[q] # "auto-building"
<1> SUFFICES ASSUME NEW r, r = work[c].ref
             PROVE  \A q \in Requests : status'[q] # "auto-building"
  OBVIOUS
<1>1. CASE \/ \E q \in Requests : \/ ClickApprove(c, q) \/ ClickApply(c, q) \/ ClickCancel(c, q)
                                  \/ ClickRetry(c, q) \/ ClickDestroy(c, q)
           \/ ApproveRefused(c) \/ Approve(c)
  BY <1>1 DEF ClickApprove, ClickApply, ClickCancel, ClickRetry, ClickDestroy, Click,
              ApproveRefused, Approve, db
<1>2. CASE ApproveEnds(c) \/ Cancel(c) \/ DestroyEnds(c)
  <2>1. [status EXCEPT ![r] = status[r]] = status
    BY DEF TypeOK
  <2>2. \E s \in {"planned", "provisioned", "cancelled", "decommissioned"} :
            status' \in {status, [status EXCEPT ![r] = s]}
    BY <1>2, <2>1 DEF ApproveEnds, Cancel, DestroyEnds, SetStatus
  <2> QED BY <2>2, SetsVisible
<1> QED BY <1>1, <1>2 DEF Button

LEMMA BuildVisible ==
  ASSUME TypeOK, \A q \in Requests : status[q] # "auto-building",
         NEW w \in Workers, Build(w)
  PROVE  \A q \in Requests : status'[q] # "auto-building"
<1> SUFFICES ASSUME NEW r, r = work[w].ref
             PROVE  \A q \in Requests : status'[q] # "auto-building"
  OBVIOUS
<1>1. [status EXCEPT ![r] = status[r]] = status
  BY DEF TypeOK
<1>2. \E s \in {"in-progress", "apply-failed", "provisioned", "verify-failed"} :
          status' \in {status, [status EXCEPT ![r] = s]}
  BY <1>1 DEF Build, StartApply, ApplyFails, ApplyEnds, Verified, SetStatus
<1> QED BY <1>2, SetsVisible

\* Where the ladder is off, a request that no thread works on is always one the sweep
\* will collect, one its owner may cancel, or finished (api/main.py, the comment at
\* QUEUED_STATUSES): no failure, race or restart hides one from everybody.
THEOREM WayOutWithoutBuilds == ~Autobuild => (Spec => []AlwaysAWayOut)
<1> SUFFICES ASSUME ~Autobuild PROVE Spec => []AlwaysAWayOut
  OBVIOUS
<1> DEFINE Visible == \A q \in Requests : status[q] # "auto-building"
<1>1. Init => Visible
  BY DEF Init
<1>2. TypeOK /\ Visible /\ [Next]_vars => Visible'
  <2> SUFFICES ASSUME TypeOK, Visible, [Next]_vars PROVE Visible'
    OBVIOUS
  <2>1. CASE UNCHANGED vars
    BY <2>1 DEF vars
  <2>2. ASSUME NEW w \in Workers, Network(w) PROVE Visible'
    BY <2>2 DEF Network, Answer, PartialWork, CallLost, CallTimesOut, db
  <2>3. CASE \/ \E r \in Requests : ManagerDecides(r) \/ ChatDecides(r)
             \/ GhostRuns \/ OrchRestarts \/ ApiRestarts
    BY <2>3 DEF ManagerDecides, ChatDecides, GhostRuns, OrchRestarts, ApiRestarts, db
  <2> QED BY <2>1, <2>2, <2>3, PollVisible, ButtonVisible, BuildVisible DEF Next
<1>3. TypeOK /\ Visible => AlwaysAWayOut
  BY DEF TypeOK, AlwaysAWayOut, Statuses, WORKING_STATUSES, CANCELLABLE, Finished
<1> QED BY <1>1, <1>2, <1>3, TypeCorrect, PTL DEF Spec
=============================================================================

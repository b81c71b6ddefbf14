--------------------------- MODULE RequestLifecycle ---------------------------
(***************************************************************************)
(* The life of a request to build an environment: the portal's database    *)
(* (api/main.py), the Jira ticket that carries the approval, and the       *)
(* orchestrator (orchestrator/main.py) with its idempotency ledger, the    *)
(* saved Terraform plans and what is really live in the cloud.             *)
(*                                                                         *)
(* Workers are threads of the API: the poller's sweep, and the threads     *)
(* that serve the Approve, Apply, Retry, Cancel and Destroy buttons.  Each *)
(* loads the request into a session that is NOT expired on commit, works   *)
(* from that copy (work[w].st, .tr, .ap), and writes back only what it     *)
(* changed.  The orchestrator's handlers block its one event loop, so each *)
(* runs as one step.  PROVISION_MODE is "apply".                           *)
(***************************************************************************)
EXTENDS Integers

CONSTANTS
    Requests,      \* requests with an approval ticket
    Units,         \* the work units (workspaces) one request builds
    Pollers,       \* threads that sweep (one, if the lease does its work)
    Clickers,      \* threads that serve the buttons
    NoRequest,
    MaxAttempts,   \* PROVISION_MAX_ATTEMPTS
    PostAttempts,  \* ORCH_MAX_ATTEMPTS
    Reporting,     \* the units /verify has something to ask of
    Autobuild,     \* autobuild.enabled()
    OneInside,     \* no two threads work on one request at once
    JiraMayFail,   \* Jira may be unreachable when an approval is re-verified
    MaxFaults      \* bound on outages, partial work and restarts

ASSUME LifecycleConstants ==
    /\ MaxAttempts \in Nat \ {0} /\ PostAttempts \in Nat \ {0} /\ MaxFaults \in Nat
    /\ Reporting \subseteq Units
    /\ Autobuild \in BOOLEAN /\ OneInside \in BOOLEAN /\ JiraMayFail \in BOOLEAN
    /\ NoRequest \notin Requests

VARIABLES
    status,    \* Request.status
    attempts,  \* Request.provision_attempts
    appr,      \* Approval.status, the portal's copy of Jira's answer
    rows,      \* active ProvisionedResource rows per unit (2 stands for more)
    had,       \* the request has a ProvisionedResource row, whatever its state
    ticket,    \* the Jira ticket
    ledger,    \* _provisioned, in the orchestrator's memory
    plans,     \* units with a saved plan that Terraform would still apply
    live,      \* units that exist in the cloud (and in the Terraform state)
    ghosts,    \* calls whose caller stopped waiting, still to be handled
    work,      \* what each thread is doing
    faults,
    signed,    \* history: the manager approved the ticket at some time
    burned,    \* history: failed poller handoffs since the counter was cleared
    made       \* history: units ever created

db   == <<status, attempts, appr, rows, had>>
orch == <<ledger, plans, live, made>>
vars == <<status, attempts, appr, rows, had, ticket, ledger, plans, live, ghosts, work,
          faults, signed, burned, made>>

Workers == Pollers \cup Clickers

QUEUED_STATUSES  == {"submitted", "planned"}
WORKING_STATUSES == {"auto-building", "in-progress"}
CANCELLABLE      == {"submitted", "planned", "in-progress", "apply-failed",
                     "verify-failed", "manual-fulfil", "cost-changed"}
Statuses == QUEUED_STATUSES \cup WORKING_STATUSES \cup CANCELLABLE
            \cup {"provisioned", "rejected", "cancelled", "decommissioned"}

Tickets == {"open", "approved", "in progress", "resolved", "rejected"}

\* Mutant: whatever is not rejected counts as approved.
NormalizeLoose(t) == IF t = "rejected" THEN "rejected" ELSE "approved"

\* api/jira.py normalize_status: the portal's own transitions count as approved.
Normalize(t) == CASE t = "open" -> "pending"
                  [] t = "rejected" -> "rejected"
                  [] OTHER -> "approved"

Verdicts == {"pending", "approved", "rejected"}

-----------------------------------------------------------------------------
(* Threads                                                                 *)

Calls == {"planning", "applying", "replanning", "destroying"}
Pcs == Calls \cup {"idle", "jira", "fulfil", "autobuild", "handoff", "start",
                   "verifying", "approving", "starting", "cancelling"}
Replies == {"none", "ok", "built", "refused", "cost", "down", "timeout"}

Idle == [pc |-> "idle", ref |-> NoRequest, st |-> "submitted", tr |-> 0,
         ap |-> "pending", reply |-> "none", left |-> 0]

\* A session opened on r: the columns as they are now (of those the thread uses).
Loaded(r, pc) == [Idle EXCEPT !.pc = pc, !.ref = r, !.st = status[r],
                              !.tr = IF pc = "jira" THEN attempts[r] ELSE @,
                              !.ap = IF pc \in {"jira", "approving"} THEN appr[r] ELSE @]

At(w, pc)   == work[w].pc = pc
Done(w)     == work' = [work EXCEPT ![w] = Idle]
Go(w, pc)   == work' = [work EXCEPT ![w].pc = pc]
\* Go on with req.status = s in this session.
GoWith(w, pc, s) == work' = [work EXCEPT ![w].pc = pc, ![w].st = s]
\* _post_to_orchestrator: the first of PostAttempts tries, from `session`.
Call(w, pc, session) ==
    work' = [work EXCEPT ![w] = [session EXCEPT !.pc = pc, !.left = PostAttempts]]
\* A session of its own, in which r is only written.
Fresh(r) == [Idle EXCEPT !.ref = r]

Inside(w, r) == work[w].ref = r
Quiet(r)     == \A w \in Workers : ~Inside(w, r)
MayEnter(r)  == OneInside => Quiet(r)

\* SQLAlchemy writes an attribute only if it differs from the loaded value.
SetStatus(w, r, s) == status' = [status EXCEPT ![r] = IF work[w].st = s THEN @ ELSE s]
StoreApproval(w, r, v) == appr' = [appr EXCEPT ![r] = IF work[w].ap = v THEN @ ELSE v]

-----------------------------------------------------------------------------
(* The orchestrator: what one call does there, and its answer `out`.       *)

\* _authorise asks GET /api/approvals, which reads Jira, stores the answer and
\* gives it; if Jira is unreachable it gives the stored one.
Reverify(r) ==
    \/ appr' = [appr EXCEPT ![r] = Normalize(ticket[r])]
    \/ JiraMayFail /\ UNCHANGED appr
Approves(r) == Reverify(r) /\ appr'[r] = "approved"

\* POST /provision: plan every unit; nothing is created.
HandlePlan(r, out) ==
    /\ UNCHANGED <<ledger, live, made>>
    /\ \/ out = "refused" /\ Reverify(r) /\ UNCHANGED plans  \* approval, policy
       \/ out = "cost" /\ Approves(r) /\ UNCHANGED plans
       \/ out = "built" /\ Approves(r) /\ r \in ledger /\ UNCHANGED plans
       \/ out \in {"ok", "refused"}                           \* refused: the IaC scan
          /\ Approves(r) /\ r \notin ledger
          /\ plans' = [plans EXCEPT ![r] = Units]
       \/ out = "refused" /\ Approves(r) /\ r \notin ledger   \* one unit's plan fails
          /\ \E good \in SUBSET Units : \E bad \in Units \ good : \E lost \in SUBSET {bad} :
                plans' = [plans EXCEPT ![r] = (@ \cup good) \ lost]

\* Terraform applies the saved plans of S.  A plan that created something is
\* used up; the plan of a unit that was there already changed nothing.
Create(r, S) ==
    /\ S \subseteq plans[r]
    /\ live' = [live EXCEPT ![r] = @ \cup S]
    /\ made' = [made EXCEPT ![r] = @ \cup S]
    /\ plans' = [plans EXCEPT ![r] = @ \ (S \ live[r])]

\* POST /apply: unit after unit; a unit with no plan to apply stops it.
HandleApply(r, out) ==
    \/ out = "refused" /\ Reverify(r) /\ UNCHANGED orch
    \/ out = "ok" /\ Approves(r) /\ r \in ledger /\ UNCHANGED orch
    \/ out = "ok" /\ Approves(r) /\ r \notin ledger
       /\ Create(r, Units) /\ ledger' = ledger \cup {r}
    \/ out = "refused" /\ Approves(r) /\ r \notin ledger /\ plans[r] # Units
       /\ \E S \in SUBSET plans[r] : Create(r, S)
       /\ UNCHANGED ledger

\* Mutant: the idempotency key is not popped.
HandleDestroyKeepsKey(r, out) ==
    /\ UNCHANGED <<made, appr, ledger>>
    /\ \/ out = "refused" /\ UNCHANGED <<plans, live>>
       \/ out = "ok"
          /\ plans' = [plans EXCEPT ![r] = @ \ live[r]]
          /\ live' = [live EXCEPT ![r] = {}]

\* POST /destroy: authority from the signature alone.
HandleDestroy(r, out) ==
    /\ UNCHANGED <<made, appr>>
    /\ \/ out = "refused" /\ UNCHANGED <<ledger, plans, live>>
       \/ out = "ok"
          /\ ledger' = ledger \ {r}
          /\ plans' = [plans EXCEPT ![r] = @ \ live[r]]
          /\ live' = [live EXCEPT ![r] = {}]

Handle(op, r, out) ==
    \/ op \in {"planning", "replanning"} /\ HandlePlan(r, out)
    \/ op = "applying" /\ HandleApply(r, out)
    \/ op = "destroying" /\ HandleDestroy(r, out)

Waiting(w) == work[w].pc \in Calls /\ work[w].reply = "none"

Fault == faults < MaxFaults /\ faults' = faults + 1
\* An outage takes one try of a call, or several in a row.
Outage(w) == IF work[w].left < PostAttempts THEN UNCHANGED faults ELSE Fault

\* The call is handled and its answer arrives.
Answer(w) ==
    /\ Waiting(w)
    /\ \E out \in Replies \ {"none", "down", "timeout"} :
         /\ Handle(work[w].pc, work[w].ref, out)
         /\ work' = [work EXCEPT ![w].reply = out]
    /\ UNCHANGED <<status, attempts, rows, had, ticket, ghosts, faults, signed, burned>>

\* Terraform fails on one unit of an apply or a destroy: a 400, with the units
\* before it done, and possibly that one (a create that ends in an error).
PartialWork(w) ==
    /\ Waiting(w) /\ Fault
    /\ LET r == work[w].ref IN
       \/ /\ At(w, "applying") /\ Approves(r) /\ r \notin ledger
          /\ \E S \in SUBSET plans[r] : S # {} /\ Create(r, S)
          /\ UNCHANGED ledger
       \/ /\ At(w, "destroying")
          /\ \E S \in SUBSET live[r] : S # {}
               /\ live' = [live EXCEPT ![r] = @ \ S]
               /\ plans' = [plans EXCEPT ![r] = @ \ S]
          /\ UNCHANGED <<ledger, made, appr>>
    /\ work' = [work EXCEPT ![w].reply = "refused"]
    /\ UNCHANGED <<status, attempts, rows, had, ticket, ghosts, signed, burned>>

\* One try fails: the next one, or the last error is the answer.
Retry(w, error) ==
    work' = [work EXCEPT ![w].left = @ - 1,
                         ![w].reply = IF work[w].left = 1 THEN error ELSE "none"]

\* Connection error or 5xx: before the handler ran, or after.
CallLost(w) ==
    /\ Waiting(w) /\ Outage(w)
    /\ \/ UNCHANGED <<orch, appr>>
       \/ \E out \in Replies : Handle(work[w].pc, work[w].ref, out)
    /\ Retry(w, "down")
    /\ UNCHANGED <<status, attempts, rows, had, ticket, ghosts, signed, burned>>

\* The caller gives up after ORCH_TIMEOUT; the orchestrator does not know.
CallTimesOut(w) ==
    /\ Waiting(w) /\ Outage(w)
    /\ ghosts' = ghosts \cup {<<work[w].pc, work[w].ref>>}
    /\ Retry(w, "timeout")
    /\ UNCHANGED <<db, ticket, orch, signed, burned>>

GhostRuns ==
    \E g \in ghosts : \E out \in Replies :
        /\ Handle(g[1], g[2], out)
        /\ ghosts' = ghosts \ {g}
        /\ UNCHANGED <<status, attempts, rows, had, ticket, work, faults,
                       signed, burned>>

\* The orchestrator restarts: the ledger was in memory.
OrchRestarts ==
    /\ ledger # {} /\ Fault
    /\ ledger' = {}
    /\ UNCHANGED <<db, ticket, plans, live, made, ghosts, work, signed, burned>>

InFlight == {<<work[w].pc, work[w].ref>> : w \in {x \in Workers : Waiting(x)}}

\* The API restarts: every thread is gone, what was committed stays, and a call
\* that was on its way may or may not still be handled.
ApiRestarts ==
    /\ \E w \in Workers : work[w] # Idle
    /\ Fault
    /\ work' = [w \in Workers |-> Idle]
    /\ ghosts' = ghosts \/ ghosts' = ghosts \cup InFlight
    /\ UNCHANGED <<db, ticket, orch, signed, burned>>

-----------------------------------------------------------------------------
(* The manager, in Jira or through the chat (api/chatbot.py).              *)

Rejects(r) ==
    /\ ticket[r] # "rejected" /\ ticket' = [ticket EXCEPT ![r] = "rejected"]
    /\ UNCHANGED signed

Signs(r) ==
    /\ ticket[r] \in {"open", "rejected"} /\ ticket' = [ticket EXCEPT ![r] = "approved"]
    /\ signed' = [signed EXCEPT ![r] = TRUE]

ManagerDecides(r) ==
    /\ Rejects(r) \/ Signs(r)
    /\ UNCHANGED <<db, orch, ghosts, work, faults, burned>>

\* chatbot._decide moves the ticket, then stores the decision beside it.
ChatDecides(r) ==
    /\ Rejects(r) \/ Signs(r)
    /\ appr' = [appr EXCEPT ![r] = Normalize(ticket'[r])]
    /\ UNCHANGED <<status, attempts, rows, had, orch, ghosts, work, faults, burned>>

\* _transition_jira: best effort; the workflow reaches In Progress and Resolved
\* only past an approval.
Transition(r, to) ==
    \/ Normalize(ticket[r]) = "approved" /\ ticket' = [ticket EXCEPT ![r] = to]
    \/ UNCHANGED ticket

-----------------------------------------------------------------------------
(* The poller: _poll_once and _advance_request.                            *)

\* A sweep walks the references that were queued when it began, and loads each
\* when its turn comes; one that has left the queue by then is passed over.
Visit(p, r) ==
    /\ At(p, "idle") /\ MayEnter(r)
    /\ \/ status[r] = "submitted" /\ work' = [work EXCEPT ![p] = Loaded(r, "jira")]
       \/ status[r] = "planned" /\ work' = [work EXCEPT ![p] = Loaded(r, "start")]
    /\ UNCHANGED <<db, ticket, orch, ghosts, faults, signed, burned>>

\* Step 1, not approved: mirror Jira's answer.  (A Jira error changes nothing.)
PollNotApproved(p) ==
    /\ At(p, "jira")
    /\ LET r == work[p].ref
           v == Normalize(ticket[r]) IN
       /\ v # "approved"
       /\ StoreApproval(p, r, v)
       /\ IF v = "rejected" /\ work[p].ap # "rejected"
            THEN SetStatus(p, r, "rejected") ELSE UNCHANGED status
    /\ Done(p)
    /\ UNCHANGED <<attempts, rows, had, ticket, orch, ghosts, faults, signed, burned>>

\* Jira cannot be read, four-eyes refuses, or (approval recorded) the quorum or
\* the change window holds the request: nothing more this cycle.
PollHeld(p) ==
    /\ At(p, "jira")
    /\ LET r == work[p].ref IN
       \/ UNCHANGED appr
       \/ Normalize(ticket[r]) = "approved" /\ StoreApproval(p, r, "approved")
    /\ Done(p)
    /\ UNCHANGED <<status, attempts, rows, had, ticket, orch, ghosts, faults,
                   signed, burned>>

PollApproved(p) ==
    /\ At(p, "jira") /\ Normalize(ticket[work[p].ref]) = "approved"
    /\ StoreApproval(p, work[p].ref, "approved")
    /\ work' = [work EXCEPT ![p].pc = "fulfil", ![p].ap = "approved"]
    /\ UNCHANGED <<status, attempts, rows, had, ticket, orch, ghosts, faults,
                   signed, burned>>

\* _unautomated_components: nothing, some or everything lacks a certified
\* blueprint.  The agent claims the request before it tries to build recipes.
Unmet == {"nothing", "some", "all"}

\* Mutant: a status the column has no room for.
ManualFulfilmentLong(p) ==
    /\ status' = [status EXCEPT ![work[p].ref] = "manual-fulfilment"]
    /\ Done(p)

ManualFulfilment(p) ==
    /\ status' = [status EXCEPT ![work[p].ref] = "manual-fulfil"]
    /\ Done(p)

Fulfil(p) ==
    /\ At(p, "fulfil")
    /\ \E unmet \in Unmet :
         \/ /\ unmet # "nothing" /\ Autobuild
            /\ status' = [status EXCEPT ![work[p].ref] = "auto-building"]
            /\ GoWith(p, "autobuild", "auto-building")
         \/ unmet = "all" /\ ~Autobuild /\ ManualFulfilment(p)
         \/ /\ unmet = "nothing" \/ (unmet = "some" /\ ~Autobuild)
            /\ Go(p, "handoff") /\ UNCHANGED status
    /\ UNCHANGED <<attempts, appr, rows, had, ticket, orch, ghosts, faults,
                   signed, burned>>

\* The question is asked again after the agent's builds.  in-progress is set in
\* the session only; the next commit is the handoff's.
AutobuildDone(p) ==
    /\ At(p, "autobuild")
    /\ \E unmet \in Unmet :
         \/ unmet = "nothing" /\ GoWith(p, "handoff", "in-progress") /\ UNCHANGED status
         \/ unmet = "some" /\ Go(p, "handoff") /\ UNCHANGED status
         \/ unmet = "all" /\ ManualFulfilment(p)
    /\ UNCHANGED <<attempts, appr, rows, had, ticket, orch, ghosts, faults,
                   signed, burned>>

\* Held after MaxAttempts failures: the session is closed without a commit.
PollHalted(p) ==
    /\ At(p, "handoff") /\ work[p].tr >= MaxAttempts
    /\ Done(p)
    /\ UNCHANGED <<db, ticket, orch, ghosts, faults, signed, burned>>

\* Mutant: one attempt too many.
HandoffOnceMore(p) ==
    /\ At(p, "handoff") /\ work[p].tr <= MaxAttempts
    /\ status' = [status EXCEPT ![work[p].ref] =
                    IF work[p].st = "in-progress" THEN "in-progress" ELSE @]
    /\ Call(p, "planning", work[p])
    /\ UNCHANGED <<attempts, appr, rows, had, ticket, orch, ghosts, faults, signed, burned>>

Handoff(p) ==
    /\ At(p, "handoff") /\ work[p].tr < MaxAttempts
    /\ status' = [status EXCEPT ![work[p].ref] =
                    IF work[p].st = "in-progress" THEN "in-progress" ELSE @]
    /\ Call(p, "planning", work[p])
    /\ UNCHANGED <<attempts, appr, rows, had, ticket, orch, ghosts, faults,
                   signed, burned>>

\* Mutant: the failure is not counted.
PlanFailsUncounted(p) ==
    /\ At(p, "planning") /\ work[p].reply \in {"refused", "cost", "down", "timeout"}
    /\ LET r == work[p].ref IN
       /\ burned' = [burned EXCEPT ![r] = @ + 1]
       /\ IF work[p].reply = "cost"
            THEN status' = [status EXCEPT ![r] = "cost-changed"]
            ELSE UNCHANGED status
    /\ Done(p)
    /\ UNCHANGED <<attempts, appr, rows, had, ticket, orch, ghosts, faults, signed>>

\* The handoff failed: count it; a cost refusal parks the request, and one that
\* is still claimed as auto-building goes back to the queue.
PlanFails(p) ==
    /\ At(p, "planning") /\ work[p].reply \in {"refused", "cost", "down", "timeout"}
    /\ LET r == work[p].ref IN
       /\ attempts' = [attempts EXCEPT ![r] = work[p].tr + 1]
       /\ burned' = [burned EXCEPT ![r] = @ + 1]
       /\ IF work[p].reply = "cost"
            THEN status' = [status EXCEPT ![r] = "cost-changed"]
            ELSE IF work[p].st \notin QUEUED_STATUSES \cup CANCELLABLE
              THEN status' = [status EXCEPT ![r] = "submitted"]
              ELSE UNCHANGED status
    /\ Done(p)
    /\ UNCHANGED <<appr, rows, had, ticket, orch, ghosts, faults, signed>>

ClearAttempts(p, r) ==
    /\ attempts' = [attempts EXCEPT ![r] = IF work[p].tr = 0 THEN @ ELSE 0]
    /\ burned' = [burned EXCEPT ![r] = 0]

\* One row per unit of the answer (the model counts 0, 1, more).
Record(r) ==
    /\ rows' = [rows EXCEPT ![r] = [u \in Units |-> IF @[u] = 0 THEN 1 ELSE 2]]
    /\ had' = [had EXCEPT ![r] = TRUE]

PlanSucceeds(p) ==
    /\ At(p, "planning") /\ work[p].reply = "ok"
    /\ ClearAttempts(p, work[p].ref)
    /\ SetStatus(p, work[p].ref, "planned")
    /\ work' = [work EXCEPT ![p] = [Fresh(work[p].ref) EXCEPT !.pc = "start", !.st = "planned"]]
    /\ UNCHANGED <<appr, rows, had, ticket, orch, ghosts, faults, signed>>

\* The ledger answered the handoff: it is built already.
PlanFindsBuilt(p) ==
    /\ At(p, "planning") /\ work[p].reply = "built"
    /\ ClearAttempts(p, work[p].ref)
    /\ Record(work[p].ref)
    /\ SetStatus(p, work[p].ref, "provisioned")
    /\ Done(p)
    /\ UNCHANGED <<appr, ticket, orch, ghosts, faults, signed>>

\* Step 2: In Progress in Jira, in-progress here, then the apply.  The Apply
\* button's thread does the same after its own checks (pc "starting").
StartApply(w) ==
    /\ At(w, "start") \/ At(w, "starting")
    /\ Transition(work[w].ref, "in progress")
    /\ SetStatus(w, work[w].ref, "in-progress")
    /\ Call(w, "applying", Fresh(work[w].ref))
    /\ UNCHANGED <<attempts, appr, rows, had, orch, ghosts, faults, signed, burned>>

-----------------------------------------------------------------------------
(* _provision_in_background, in the poller's thread or the button's.       *)

ApplyFails(w) ==
    /\ At(w, "applying") /\ work[w].reply \in {"refused", "down"}
    /\ status' = [status EXCEPT ![work[w].ref] = "apply-failed"]
    /\ Done(w)
    /\ UNCHANGED <<attempts, appr, rows, had, ticket, orch, ghosts, faults,
                   signed, burned>>

\* Mutant: a timed-out apply is recorded as if it had answered.
ApplyEndsRecorded(w) ==
    /\ At(w, "applying") /\ work[w].reply \in {"ok", "timeout"}
    /\ Record(work[w].ref)
    /\ work' = [work EXCEPT ![w] = [Fresh(work[w].ref) EXCEPT !.pc = "verifying"]]
    /\ UNCHANGED <<status, attempts, appr, ticket, orch, ghosts, faults, signed, burned>>

\* A success is recorded before anything else; a timeout goes on with nothing.
ApplyEnds(w) ==
    /\ At(w, "applying") /\ work[w].reply \in {"ok", "timeout"}
    /\ IF work[w].reply = "ok" THEN Record(work[w].ref) ELSE UNCHANGED <<rows, had>>
    /\ work' = [work EXCEPT ![w] = [Fresh(work[w].ref) EXCEPT !.pc = "verifying"]]
    /\ UNCHANGED <<status, attempts, appr, ticket, orch, ghosts, faults, signed, burned>>

\* Mutant: a bad verdict is written down as a failed apply.
VerifiedOrFailed(w) ==
    /\ At(w, "verifying")
    /\ LET r == work[w].ref IN
       \/ /\ Reporting \subseteq made[r] /\ Approves(r)
          /\ Transition(r, "resolved")
          /\ status' = [status EXCEPT ![r] = "provisioned"]
       \/ /\ status' = [status EXCEPT ![r] = "apply-failed"]
          /\ UNCHANGED <<ticket, appr>>
    /\ Done(w)
    /\ UNCHANGED <<attempts, rows, had, orch, ghosts, faults, signed, burned>>

\* _await_boot_reports, then the verdict on a freshly loaded request.  A report
\* is filed under the request and the kind, and only a machine that was once
\* made files one; silence, a refusal or a broken machine is a bad verdict.
\* /verify re-verifies the approval too.
Verified(w) ==
    /\ At(w, "verifying")
    /\ LET r == work[w].ref IN
       \/ /\ Reporting \subseteq made[r] /\ Approves(r)
          /\ Transition(r, "resolved")
          /\ status' = [status EXCEPT ![r] = "provisioned"]
       \/ /\ status' = [status EXCEPT ![r] = "verify-failed"]
          /\ Reverify(r) \/ UNCHANGED appr
          /\ UNCHANGED ticket
    /\ Done(w)
    /\ UNCHANGED <<attempts, rows, had, orch, ghosts, faults, signed, burned>>

-----------------------------------------------------------------------------
(* The buttons.                                                            *)

Click(c, r, pc) ==
    /\ At(c, "idle") /\ MayEnter(r)
    /\ work' = [work EXCEPT ![c] = Loaded(r, pc)]
    /\ UNCHANGED <<db, ticket, orch, ghosts, faults, signed, burned>>

\* Approve: no test of the status but "provisioned".
ClickApprove(c, r) == status[r] # "provisioned" /\ Click(c, r, "approving")

\* Not approved in Jira (the answer is stored), Jira unreadable, or four-eyes
\* or the quorum hold.
ApproveRefused(c) ==
    /\ At(c, "approving")
    /\ LET r == work[c].ref IN
         StoreApproval(c, r, Normalize(ticket[r])) \/ UNCHANGED appr
    /\ Done(c)
    /\ UNCHANGED <<status, attempts, rows, had, ticket, orch, ghosts, faults,
                   signed, burned>>

Approve(c) ==
    /\ At(c, "approving") /\ Normalize(ticket[work[c].ref]) = "approved"
    /\ StoreApproval(c, work[c].ref, "approved")
    /\ Call(c, "replanning", [work[c] EXCEPT !.ap = "approved"])
    /\ UNCHANGED <<status, attempts, rows, had, ticket, orch, ghosts, faults,
                   signed, burned>>

ApproveEnds(c) ==
    /\ At(c, "replanning") /\ work[c].reply # "none"
    /\ LET r == work[c].ref IN
       CASE work[c].reply = "ok" -> SetStatus(c, r, "planned")
         [] work[c].reply = "built" -> SetStatus(c, r, "provisioned")
         [] OTHER -> UNCHANGED status
    /\ Done(c)
    /\ UNCHANGED <<attempts, appr, rows, had, ticket, orch, ghosts, faults,
                   signed, burned>>

ClickApply(c, r) == status[r] = "planned" /\ Click(c, r, "starting")

\* Cancel looks at the rows and the status when it loads the request ...
ClickCancel(c, r) ==
    ~had[r] /\ status[r] \in CANCELLABLE /\ Click(c, r, "cancelling")

\* ... then comments and transitions the ticket in Jira, and commits.
Cancel(c) ==
    /\ At(c, "cancelling")
    /\ LET r == work[c].ref IN
         /\ status' = [status EXCEPT ![r] = "cancelled"]
         /\ \/ ticket' = [ticket EXCEPT ![r] = "rejected"]
            \/ UNCHANGED ticket
    /\ Done(c)
    /\ UNCHANGED <<attempts, appr, rows, had, orch, ghosts, faults, signed, burned>>

\* Retry clears the counter and leaves the status alone.
ClickRetry(c, r) ==
    /\ At(c, "idle") /\ MayEnter(r) /\ attempts[r] # 0
    /\ attempts' = [attempts EXCEPT ![r] = 0]
    /\ burned' = [burned EXCEPT ![r] = 0]
    /\ UNCHANGED <<status, appr, rows, had, ticket, orch, ghosts, work, faults, signed>>

\* Destroy: no test of the status at all.
ClickDestroy(c, r) ==
    /\ At(c, "idle") /\ MayEnter(r)
    /\ Call(c, "destroying", Loaded(r, "destroying"))
    /\ UNCHANGED <<db, ticket, orch, ghosts, faults, signed, burned>>

DestroyEnds(c) ==
    /\ At(c, "destroying") /\ work[c].reply # "none"
    /\ LET r == work[c].ref IN
       IF work[c].reply = "ok"
         THEN /\ rows' = [rows EXCEPT ![r] = [u \in Units |-> 0]]
              /\ SetStatus(c, r, "decommissioned")
         ELSE UNCHANGED <<rows, status>>
    /\ Done(c)
    /\ UNCHANGED <<attempts, appr, had, ticket, orch, ghosts, faults, signed, burned>>

-----------------------------------------------------------------------------
Init ==
    /\ status = [r \in Requests |-> "submitted"]
    /\ attempts = [r \in Requests |-> 0]
    /\ appr = [r \in Requests |-> "pending"]
    /\ rows = [r \in Requests |-> [u \in Units |-> 0]]
    /\ had = [r \in Requests |-> FALSE]
    /\ ticket = [r \in Requests |-> "open"]
    /\ ledger = {}
    /\ plans = [r \in Requests |-> {}]
    /\ live = [r \in Requests |-> {}]
    /\ ghosts = {}
    /\ work = [w \in Workers |-> Idle]
    /\ faults = 0
    /\ signed = [r \in Requests |-> FALSE]
    /\ burned = [r \in Requests |-> 0]
    /\ made = [r \in Requests |-> {}]

Poll(p) ==
    \/ \E r \in Requests : Visit(p, r)
    \/ PollNotApproved(p) \/ PollHeld(p) \/ PollApproved(p)
    \/ Fulfil(p) \/ AutobuildDone(p) \/ PollHalted(p) \/ Handoff(p)
    \/ PlanFails(p) \/ PlanSucceeds(p) \/ PlanFindsBuilt(p)

Button(c) ==
    \/ \E r \in Requests : \/ ClickApprove(c, r) \/ ClickApply(c, r) \/ ClickCancel(c, r)
                           \/ ClickRetry(c, r) \/ ClickDestroy(c, r)
    \/ ApproveRefused(c) \/ Approve(c) \/ ApproveEnds(c) \/ Cancel(c) \/ DestroyEnds(c)

Build(w) == StartApply(w) \/ ApplyFails(w) \/ ApplyEnds(w) \/ Verified(w)

Network(w) == Answer(w) \/ PartialWork(w) \/ CallLost(w) \/ CallTimesOut(w)

Next ==
    \/ \E p \in Pollers : Poll(p)
    \/ \E c \in Clickers : Button(c)
    \/ \E w \in Workers : Build(w) \/ Network(w)
    \/ \E r \in Requests : ManagerDecides(r) \/ ChatDecides(r)
    \/ GhostRuns \/ OrchRestarts \/ ApiRestarts

Spec == Init /\ [][Next]_vars

\* The sweep comes round and every step of a thread that is not held up by a
\* person is taken.  Strong fairness of reading the ticket: Jira is not down at
\* every visit, and the quorum and the change window do not hold an approved
\* ticket for ever.  Nothing makes a manager decide, a button be pressed or a
\* plan succeed.
ReadsTicket(p, r) == work[p].ref = r /\ (PollApproved(p) \/ PollNotApproved(p))
ThreadGoesOn(w) ==
    Answer(w) \/ StartApply(w) \/ ApplyFails(w) \/ ApplyEnds(w) \/ Verified(w)
PollGoesOn(p) ==
    \/ PollNotApproved(p) \/ PollHeld(p) \/ Fulfil(p) \/ AutobuildDone(p) \/ PollHalted(p)
    \/ Handoff(p) \/ PlanFails(p) \/ PlanSucceeds(p) \/ PlanFindsBuilt(p)
ButtonGoesOn(c) ==
    ApproveRefused(c) \/ Approve(c) \/ ApproveEnds(c) \/ Cancel(c) \/ DestroyEnds(c)

Fairness ==
    /\ \A p \in Pollers :
         /\ WF_vars(PollGoesOn(p)) /\ WF_vars(ThreadGoesOn(p))
         /\ \A r \in Requests : WF_vars(Visit(p, r)) /\ SF_vars(ReadsTicket(p, r))
    /\ \A c \in Clickers : WF_vars(ButtonGoesOn(c)) /\ WF_vars(ThreadGoesOn(c))

\* People do not press the buttons for ever.
Click1(c) == \E r \in Requests :
    ClickApprove(c, r) \/ ClickApply(c, r) \/ ClickCancel(c, r) \/ ClickRetry(c, r)
    \/ ClickDestroy(c, r)
Settles == <>[][\A c \in Clickers : ~Click1(c)]_vars

LiveSpec == Spec /\ Fairness /\ Settles

-----------------------------------------------------------------------------
(* Properties                                                              *)

Work == [pc : Pcs, ref : Requests \cup {NoRequest}, st : Statuses, tr : Nat,
         ap : Verdicts, reply : Replies, left : Nat]

\* A busy thread has a request, and a call that is waited for has tries left.
WellFormed(e) ==
    /\ e.pc # "idle" => e.ref \in Requests
    /\ e.pc \in Calls /\ e.reply = "none" => e.left > 0

TypeOK ==
    /\ status \in [Requests -> Statuses]
    /\ attempts \in [Requests -> Nat]
    /\ appr \in [Requests -> Verdicts]
    /\ rows \in [Requests -> [Units -> 0 .. 2]]
    /\ had \in [Requests -> BOOLEAN]
    /\ ticket \in [Requests -> Tickets]
    /\ ledger \subseteq Requests
    /\ plans \in [Requests -> SUBSET Units]
    /\ live \in [Requests -> SUBSET Units]
    /\ ghosts \subseteq Calls \X Requests
    /\ work \in [Workers -> Work]
    /\ \A w \in Workers : WellFormed(work[w])
    /\ faults \in Nat
    /\ signed \in [Requests -> BOOLEAN]
    /\ burned \in [Requests -> Nat]
    /\ made \in [Requests -> SUBSET Units]

\* Nothing is planned, built, recorded, or shown as past its approval unless the
\* manager signed the ticket: whatever the threads, the retries and the lost
\* calls do, the portal never comes to approve a request itself.
NeedsApproval == {"planned", "auto-building", "in-progress", "provisioned",
                  "apply-failed", "verify-failed", "manual-fulfil", "cost-changed"}
NothingUnapproved ==
    \A r \in Requests :
        status[r] \in NeedsApproval \/ plans[r] # {} \/ made[r] # {} \/ had[r]
        => signed[r]

\* A unit on record was created: the ledger's replay of an old answer, or a
\* repeated call, never puts a machine on record that nobody built.
RowsWereBuilt ==
    \A r \in Requests, u \in Units : rows[r][u] > 0 => u \in made[r]

\* The poller gives up after MaxAttempts failures in a row: no interleaving of
\* its stale copy of the counter with a Retry buys it one more.
AttemptsBounded == \A r \in Requests : burned[r] <= MaxAttempts

\* Between two threads' work, what the portal shows agrees with the cloud.
AllRows(r, n) == \A u \in Units : rows[r][u] = n
StatusMatchesCloud ==
    \A r \in Requests : Quiet(r) =>
        IF status[r] \in {"provisioned", "verify-failed"}
          THEN live[r] = Units /\ AllRows(r, 1)
          ELSE AllRows(r, 0) /\ (status[r] = "decommissioned" => live[r] = {})

\* The idempotency ledger only answers "already created" about what is there.
LedgerMatchesCloud == \A r \in ledger : live[r] = Units

\* Terraform fails on one unit of a destroy, with others gone already.
HalfDestroyed == \E w \in Workers : At(w, "destroying") /\ PartialWork(w)

\* Nothing else makes the ledger lie: not a repeated, lost, late or abandoned call, a
\* failed apply, a second thread or a restart (orchestrator/main.py pops the key only
\* when the whole destroy is through).
LedgerSpoiltByDestroyOnly ==
    [][LedgerMatchesCloud /\ ~HalfDestroyed => LedgerMatchesCloud']_vars

\* A request that Jira keeps approving does not stay in the queue: it is built,
\* or it ends where a person must act, or it is held after MaxAttempts failures.
\* (One case of "a person must act" wears the status of a busy request: when a
\* handoff fails after the agent's builds, "in-progress" stays for its owner to
\* cancel.)
LeftInProgress(r) == status[r] = "in-progress" /\ Quiet(r)
ApprovedSettles ==
    \A r \in Requests :
        (status[r] \in QUEUED_STATUSES /\ Normalize(ticket[r]) = "approved")
        ~> (status[r] \notin QUEUED_STATUSES \cup WORKING_STATUSES \/ LeftInProgress(r)
            \/ Normalize(ticket[r]) # "approved" \/ attempts[r] >= MaxAttempts)

\* "A request is either collectable by the sweep ... or cancellable by its owner"
\* (or finished), as soon as no thread is working on it.
Finished == {"provisioned", "rejected", "cancelled", "decommissioned"}
AlwaysAWayOut ==
    \A r \in Requests : Quiet(r) => status[r] \in QUEUED_STATUSES \cup CANCELLABLE \cup Finished

\* "A request that owns anything real is refused" by Cancel.
CancelledOwnsNothing ==
    \A r \in Requests : status[r] = "cancelled" => live[r] = {}

\* "Rejected in Jira -> poller stops the request".
RejectionStopsRequest ==
    \A r \in Requests :
        (status[r] = "submitted" /\ ticket[r] = "rejected")
        ~> (status[r] # "submitted" \/ ticket[r] # "rejected")

=============================================================================

------------------------------- MODULE Intake -------------------------------
(***************************************************************************)
(* How a draft becomes a request that waits for approval.  Saving a draft,  *)
(* submitting and cancelling each load the request into a session of their  *)
(* own, decide by what they loaded, and commit later; a submission asks the *)
(* policy service and raises a Jira ticket in between, and compares the     *)
(* spend with a budget that the other submissions use up.  Two browser tabs *)
(* may submit the same draft.  What was sent is then worked on by threads   *)
(* that move its status, and with it in and out of the spend.  No save      *)
(* moves a draft to another cost centre, and the budget is not changed.     *)
(***************************************************************************)
EXTENDS Integers, FiniteSets, FiniteSetsExt

CONSTANTS Drafts,       \* requests of one cost centre and project
          Sessions,     \* submission sessions, <<draft, tab>>
          MaxCost,      \* what a draft may come to cost: 1 .. MaxCost
          Limit,        \* Budget.monthly_limit
          Reached,      \* statuses that work comes to (a run takes some of each sort)
          Enforcement   \* what BUDGET_ENFORCE may be when a submission reads it

ASSUME IntakeConstants ==
    /\ IsFiniteSet(Drafts) /\ \A s \in Sessions : s[1] \in Drafts
    /\ MaxCost \in Nat \ {0} /\ Limit \in Nat
    /\ Enforcement \in SUBSET BOOLEAN \ {{}}

\* "operated" stands for what a follow-on request comes to: restored, dns-failed, ...
RequestState ==
    {"draft", "submitted", "planned", "auto-building", "in-progress", "provisioned",
     "apply-failed", "verify-failed", "manual-fulfil", "cost-changed", "rejected",
     "decommissioned", "operated", "cancelled"}

ASSUME WorkReaches == Reached \subseteq RequestState \ {"draft", "cancelled"}

VARIABLES status,      \* Request.status
          content,     \* what the draft asks for, told apart by what it costs
          estimate,    \* Estimate.monthly of each, 0 before there is one
          approval,    \* the content its Approval's ticket describes, 0 without one
          submit,      \* submission sessions: what they loaded, and saw committed
          edit,        \* drafts a session has loaded to save over
          cancel,      \* requests a session has loaded to cancel
          unchecked,   \* history: counted on figures that had changed meanwhile, or on none
          warned       \* history: sent past the limit, with a warning

intakeVars == <<status, content, estimate, approval, submit, edit, cancel, unchecked, warned>>

Costs == 1 .. MaxCost
\* "was" and "content" are the columns as the session loaded them.
NoSubmit == [was |-> "draft", content |-> 0, seen |-> {}, over |-> FALSE]

IntakeTypeOK ==
    /\ status \in [Drafts -> RequestState]
    /\ content \in [Drafts -> Costs]
    /\ estimate \in [Drafts -> Costs \cup {0}] /\ approval \in [Drafts -> Costs \cup {0}]
    /\ submit \in [Sessions -> [was : RequestState, content : Costs \cup {0},
                                seen : SUBSET Drafts, over : BOOLEAN]]
    /\ edit \subseteq Drafts /\ cancel \subseteq Drafts
    /\ unchecked \subseteq Drafts /\ warned \subseteq Drafts

IntakeInit ==
    /\ status = [r \in Drafts |-> "draft"] /\ content = [r \in Drafts |-> 1]
    /\ estimate = [r \in Drafts |-> 0] /\ approval = [r \in Drafts |-> 0]
    /\ submit = [s \in Sessions |-> NoSubmit]
    /\ edit = {} /\ cancel = {}
    /\ unchecked = {} /\ warned = {}

----------------------------------------------------------------------------
(* save_draft *)

EditLoads(r) ==
    /\ r \notin edit /\ status[r] = "draft"
    /\ edit' = edit \cup {r}
    /\ UNCHANGED <<status, content, estimate, approval, submit, cancel, unchecked, warned>>

\* Mutant: every column is written.
EditCommitsAll(r) ==
    /\ r \in edit
    /\ \E c \in Costs : content' = [content EXCEPT ![r] = c]
    /\ status' = [status EXCEPT ![r] = "draft"]
    /\ edit' = edit \ {r}
    /\ UNCHANGED <<estimate, approval, submit, cancel, unchecked, warned>>

\* The status is assigned what the session loaded, so only the content is written.
EditCommits(r) ==
    /\ r \in edit
    /\ \E c \in Costs : content' = [content EXCEPT ![r] = c]
    /\ edit' = edit \ {r}
    /\ UNCHANGED <<status, estimate, approval, submit, cancel, unchecked, warned>>

----------------------------------------------------------------------------
(* submit_request *)

\* SHOWBACK_SCOPES["committed"].
COMMITTED == {"provisioned", "submitted", "planned", "in-progress"}

\* Mutant: what waits for approval is not yet counted.
CommittedBuilt(except) ==
    {r \in Drafts \ {except} : status[r] \in COMMITTED \ {"submitted"}}

\* What a cost centre's spend and a project's environments are counted over.
Committed(except) ==
    {r \in Drafts \ {except} : status[r] \in COMMITTED}

Total(e, D) == MapThenSumSet(LAMBDA r : e[r], D)
Spend(D) == Total(estimate, D)

\* submit_request up to the ticket: a request that has an approval is answered as it
\* stands; the validation, the policy service or an expired project may refuse anything
\* else (which changes nothing).  What would go past the limit is refused while
\* BUDGET_ENFORCE says so, and warned of otherwise.
SubmitChecks(s) ==
    LET r == s[1]
    IN  /\ submit[s] = NoSubmit /\ approval[r] = 0
        /\ \E enforced \in Enforcement :
              LET over == Spend(Committed(r)) + content[r] > Limit
              IN  /\ ~(over /\ enforced)
                  /\ submit' = [submit EXCEPT ![s] =
                        [was |-> status[r], content |-> content[r],
                         seen |-> Committed(r), over |-> over]]
        /\ UNCHANGED <<status, content, estimate, approval, edit, cancel, unchecked, warned>>

\* create_issue fails, or its answer is lost: the submission is rolled back.
SubmitFails(s) ==
    /\ submit[s] # NoSubmit
    /\ submit' = [submit EXCEPT ![s] = NoSubmit]
    /\ UNCHANGED <<status, content, estimate, approval, edit, cancel, unchecked, warned>>

\* Approval.request_id and Estimate.request_id are unique: of two submissions of one
\* draft the second one fails whole.  The status is written when it was another one.
SubmitCommits(s) ==
    LET r == s[1]
    IN  /\ submit[s] # NoSubmit
        /\ submit' = [submit EXCEPT ![s] = NoSubmit]
        /\ IF approval[r] # 0 THEN UNCHANGED <<status, estimate, approval, unchecked, warned>>
           ELSE /\ status' = IF submit[s].was = "submitted" THEN status
                             ELSE [status EXCEPT ![r] = "submitted"]
                /\ estimate' = [estimate EXCEPT ![r] = submit[s].content]
                /\ approval' = [approval EXCEPT ![r] = submit[s].content]
                /\ unchecked' = IF Committed(r) \subseteq submit[s].seen THEN unchecked
                                ELSE unchecked \cup {r}
                /\ warned' = IF submit[s].over THEN warned \cup {r} ELSE warned
        /\ UNCHANGED <<content, edit, cancel>>

----------------------------------------------------------------------------
(* What becomes of it *)

CANCELLABLE == {"draft", "submitted", "planned", "in-progress", "apply-failed",
                "verify-failed", "manual-fulfil", "cost-changed"}

CancelLoads(r) ==
    /\ r \notin cancel /\ status[r] \in CANCELLABLE
    /\ cancel' = cancel \cup {r}
    /\ UNCHANGED <<status, content, estimate, approval, submit, edit, unchecked, warned>>

CancelCommits(r) ==
    /\ r \in cancel
    /\ status' = [status EXCEPT ![r] = "cancelled"]
    /\ cancel' = cancel \ {r}
    /\ UNCHANGED <<content, estimate, approval, submit, edit, unchecked, warned>>

\* A thread that has worked on what was sent -- the sweep, a build, the Approve and the
\* Destroy button, a follow-on request, the time to live -- writes the status it has come
\* to, whatever the row says by then (RequestLifecycle has which).  None of them looks at
\* a budget, not even when the spend had been without the request.
Progress(r) ==
    /\ approval[r] # 0
    /\ \E next \in Reached :
          /\ status' = [status EXCEPT ![r] = next]
          /\ unchecked' = IF status[r] \notin COMMITTED /\ next \in COMMITTED
                          THEN unchecked \cup {r} ELSE unchecked
    /\ UNCHANGED <<content, estimate, approval, submit, edit, cancel, warned>>

IntakeNext ==
    \/ \E s \in Sessions : SubmitChecks(s) \/ SubmitFails(s) \/ SubmitCommits(s)
    \/ \E r \in Drafts : EditLoads(r) \/ EditCommits(r) \/ CancelLoads(r) \/ CancelCommits(r)
                         \/ Progress(r)

IntakeSpec == IntakeInit /\ [][IntakeNext]_intakeVars
----------------------------------------------------------------------------
\* What was sent for approval is never pulled back into a draft (api/main.py:2788), and
\* its estimate is the one its ticket carries, whoever saved, submitted twice or
\* cancelled meanwhile.
SentStaysSent ==
    \A r \in Drafts : approval[r] # 0 =>
        /\ status[r] # "draft" /\ estimate[r] = approval[r]

\* The committed spend keeps to the budget (api/main.py:3537), but for what was sent past
\* it with a warning, for what was committed on figures that another submission had changed
\* since, and for what was counted again, by a build or a retry, after the spend had been
\* without it.
BudgetHolds ==
    Spend({r \in Drafts \ (unchecked \cup warned) : status[r] \in COMMITTED}) <= Limit
=============================================================================

---------------------------- MODULE ApprovalGates ----------------------------
(***************************************************************************)
(* What stands between a Jira ticket that reads approved and the handoff of *)
(* its request: segregation of duties, four eyes, a quorum of approvers and *)
(* a change window.  The poller and the Approve button each read the ticket *)
(* several times, one HTTP call at a time, while people go on moving it;    *)
(* the orchestrator reads it once more.                                     *)
(***************************************************************************)
EXTENDS Integers, FiniteSets

CONSTANTS People,       \* who moves and decides tickets in Jira
          Requester,    \* who raised the request, under his own Jira account
          Nobody,       \* no author: a read that failed, or nobody approved it
          Quorums,      \* what APPROVAL_QUORUM may be
          Workflow,     \* the moves the Jira workflow allows, <<from, to>>
          Window,       \* CHANGE_WINDOW_*: [from, to, opens, closes]
          Moments,      \* when it may be, <<weekday, hour>>
          MaxMoves      \* bound on what people do in Jira

ASSUME GatesConstants ==
    /\ Requester \in People /\ Nobody \notin People
    /\ Quorums \subseteq Nat \ {0} /\ MaxMoves \in Nat

VARIABLES ticket,        \* the ticket's workflow status
          lastApprover,  \* author of its last transition into an approved status
          approvers,     \* authors of all of them, the changelog's
          decisions,     \* who approved it in Jira Service Management
          moves,         \* how often people have acted
          quorum,        \* APPROVAL_QUORUM
          moment,        \* the time in the window's time zone
          raised,        \* the request's status
          gate,          \* the gate each of the two stands before
          unread         \* history: four eyes let pass an author it did not know

gateVars == <<ticket, lastApprover, approvers, decisions, moves, quorum, moment, raised,
              gate, unread>>
jiraVars == <<ticket, lastApprover, approvers, decisions, moves>>

Readers == {"poller", "button"}
Gates == {"none", "four eyes", "quorum", "window", "handoff"}
TicketStatus == {"pending", "approved", "working", "rejected"}

GatesTypeOK ==
    /\ ticket \in TicketStatus /\ lastApprover \in People \cup {Nobody}
    /\ approvers \subseteq People /\ decisions \subseteq People
    /\ moves \in 0 .. MaxMoves /\ quorum \in Quorums /\ moment \in Moments
    /\ raised \in {"submitted", "rejected", "planned", "provisioned"}
    /\ gate \in [Readers -> Gates] /\ unread \in BOOLEAN

GatesInit ==
    /\ ticket = "pending" /\ lastApprover = Nobody /\ approvers = {} /\ decisions = {}
    /\ moves = 0 /\ quorum \in Quorums /\ moment \in Moments
    /\ raised = "submitted" /\ gate = [w \in Readers |-> "none"] /\ unread = FALSE

----------------------------------------------------------------------------
(* What the portal takes from Jira *)

\* normalize_status: work in progress and work resolved count as approved.
Normalized ==
    CASE ticket \in {"approved", "working"} -> "approved"
      [] ticket = "rejected" -> "rejected"
      [] OTHER -> "pending"

\* get_approval_author: None when the read fails.
AuthorReads == {lastApprover, Nobody}

\* get_approvers: the service desk's decisions, or without any the changelog's authors,
\* or nobody when neither can be read.
ApproverReads ==
    (IF decisions # {} THEN {decisions} ELSE {}) \cup {approvers, {}}

\* Mutant: the requester is counted.
EverybodyAmong(people) == people

\* Each person once, and not the requester.
OthersAmong(people) == people \ {Requester}

\* _parse_days of a range: it may go round the end of the week.
Weekdays(from, to) == {d \in 0 .. 6 : (d - from) % 7 <= (to - from) % 7}

\* change_window_status: a window that would go past midnight is never open.
WindowOpen ==
    /\ moment[1] \in Weekdays(Window.from, Window.to)
    /\ Window.opens <= moment[2] /\ moment[2] <= Window.closes

----------------------------------------------------------------------------
(* Jira and the clock *)

\* Somebody moves the ticket; only a move into an approved status is an approval.
MoveTicket(p, to) ==
    /\ moves < MaxMoves /\ <<ticket, to>> \in Workflow
    /\ moves' = moves + 1 /\ ticket' = to
    /\ IF to = "approved" THEN /\ lastApprover' = p /\ approvers' = approvers \cup {p}
       ELSE UNCHANGED <<lastApprover, approvers>>
    /\ UNCHANGED <<decisions, quorum, moment, raised, gate, unread>>

Decide(p) ==
    /\ moves < MaxMoves /\ p \notin decisions
    /\ moves' = moves + 1 /\ decisions' = decisions \cup {p}
    /\ UNCHANGED <<ticket, lastApprover, approvers, quorum, moment, raised, gate, unread>>

TimeMoves ==
    /\ moment' \in Moments \ {moment}
    /\ UNCHANGED <<jiraVars, quorum, raised, gate, unread>>

----------------------------------------------------------------------------
(* The gates, one read of Jira a step *)

Passes(w, next) == gate' = [gate EXCEPT ![w] = next]

\* _advance_request of a submitted request: a ticket that is rejected ends it, one that
\* is not approved is left for the next poll.
PollReads ==
    /\ gate["poller"] = "none" /\ raised = "submitted"
    /\ \/ Normalized = "rejected" /\ raised' = "rejected" /\ UNCHANGED gate
       \/ Normalized = "approved" /\ Passes("poller", "four eyes") /\ UNCHANGED raised
    /\ UNCHANGED <<jiraVars, quorum, moment, unread>>

\* approve: anybody but the requester may press it, on whatever is not yet provisioned.
PressReads(actor) ==
    /\ gate["button"] = "none" /\ raised # "provisioned" /\ actor # Requester
    /\ Normalized = "approved" /\ Passes("button", "four eyes")
    /\ UNCHANGED <<jiraVars, quorum, moment, raised, unread>>

\* _four_eyes_ok: it lets pass an author it cannot read.
FourEyes(w) ==
    /\ gate[w] = "four eyes"
    /\ \E author \in AuthorReads :
          IF author = Requester THEN Passes(w, "none") /\ UNCHANGED unread
          ELSE /\ Passes(w, "quorum")
               /\ unread' = (unread \/ author = Nobody)
    /\ UNCHANGED <<jiraVars, quorum, moment, raised>>

\* _quorum_ok: it holds when it cannot read; only the poller keeps the change window.
EnoughApprovers(w) ==
    /\ gate[w] = "quorum"
    /\ \E people \in ApproverReads :
          IF quorum <= 1 \/ Cardinality(OthersAmong(people)) >= quorum
          THEN Passes(w, IF w = "poller" THEN "window" ELSE "handoff")
          ELSE Passes(w, "none")
    /\ UNCHANGED <<jiraVars, quorum, moment, raised, unread>>

\* _hold_for_change_window.
ChangeWindow ==
    /\ gate["poller"] = "window"
    /\ Passes("poller", IF WindowOpen THEN "handoff" ELSE "none")
    /\ UNCHANGED <<jiraVars, quorum, moment, raised, unread>>

\* The orchestrator reads the ticket again through get_approval, and refuses what is no
\* longer approved; the poller's handoff plans, the button's builds.
HandOff(w) ==
    /\ gate[w] = "handoff" /\ Passes(w, "none")
    /\ raised' = IF Normalized # "approved" \/ raised = "provisioned" THEN raised
                 ELSE IF w = "poller" THEN "planned" ELSE "provisioned"
    /\ UNCHANGED <<jiraVars, quorum, moment, unread>>

\* The next poll applies the plan.  It asks none of the gates again.
ApplyPlanned ==
    /\ raised = "planned" /\ gate["poller"] = "none" /\ Normalized = "approved"
    /\ raised' = "provisioned"
    /\ UNCHANGED <<jiraVars, quorum, moment, gate, unread>>

GatesNext ==
    \/ \E p \in People, to \in TicketStatus : MoveTicket(p, to)
    \/ \E p \in People : Decide(p) \/ PressReads(p)
    \/ \E w \in Readers : FourEyes(w) \/ EnoughApprovers(w) \/ HandOff(w)
    \/ TimeMoves \/ PollReads \/ ChangeWindow \/ ApplyPlanned

GatesSpec == GatesInit /\ [][GatesNext]_gateVars
----------------------------------------------------------------------------
\* What was handed over had been approved by as many people other than its requester as
\* the quorum asks (api/main.py:3858-3899), and by one of them where the quorum is one,
\* unless four eyes could not tell who approved it, whichever way it was handed over and
\* whoever moved the ticket between the reads.
ApprovedByOthers ==
    raised \in {"planned", "provisioned"} =>
        LET others == (approvers \cup decisions) \ {Requester}
        IN  /\ quorum > 1 => Cardinality(others) >= quorum
            /\ others = {} => unread
=============================================================================

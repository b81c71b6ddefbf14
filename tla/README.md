# Shift-Left Infra Portal: a TLA+ verification project

The portal lets a person ask for infrastructure. A request is filled in on a form,
validated and priced, gets a Jira ticket, waits there for people to approve it, and is
then planned and built by an orchestrator that runs Terraform. The portal does not
believe a successful apply: it asks the machines. What it may build it decides from
proofs: real machines that were built, looked at and torn down. This directory models
the parts of that system whose correctness depends on *when* things happen and in what
order, checks them with TLC on small instances, and proves properties that matter most
with TLAPS for every value of the constants. The pure parts (validation, pricing, what
may be installed, the registries) are operators, checked on small inputs.

Source paths are relative to the repository (`src/`). `PROJECT.json` maps every
definition that models code to the lines it models, and lists the hazards of the code,
each at its line with the properties that cover it.

## 1. Inventory

| Part | State | Operations | Module |
|---|---|---|---|
| Poller leadership (`api/leader.py`, `api/main.py` 8329-8434) | the `LeaderLease` row; per process `last_poll`, the stop events | `try_acquire`, `release`, the loop, the heartbeat, the watchdog | `LeaderLease` implements `ExclusiveSweep` |
| Request lifecycle (`api/main.py`) | `Request.status`, `provision_attempts`, `Approval`, resource rows | the sweep; the Approve, Apply, Retry, Cancel and Destroy routes | `RequestLifecycle` |
| Orchestrator handoff (`orchestrator/main.py`) | the idempotency ledger, in memory; the cloud | `/provision`, `/apply`, `/verify`, `/destroy`, re-verification | `RequestLifecycle`, `Environment` |
| Approval gates | the ticket, who moved it, who approved it | segregation of duties, four eyes, quorum, change window | `ApprovalGates` |
| Request form and catalogues (`RequestForm.tsx`, `component_options.py`, `cloud_options.py`) | what the form holds; three caches | options, mending, validation | `ComponentForm` |
| Submission (`api/main.py`) | drafts, budget, quota, tickets | save, submit, cancel | `Intake`; fields: `Validation` |
| Placement and sizing (`placement.py`, `placement_store.py`) | recorded layouts | options, a drawn layout, hand over, units | `Placement` |
| Pricing (`pricing.py`) | none | the estimate of a request and of a layout | `Pricing` |
| Terraform workspaces (`provisioner.py`, `drift.py`) | plan, marker and state per unit | plan, apply, drift check, resize | `SavedPlans` |
| First boot and its reports (`configure.py`, `boot_reports.py`) | a machine's script and its report | install, look, upload, poll, judge | `FirstBoot` |
| Certification (`certification.py`) | certified, suspended, stale, withdrawn; outcomes; proofs | review, expire, restore, certify, withdraw | `Certification` |
| The autobuild ladder (`autobuild.py`, `recipe_memory.py`, `resolve.py`) | the store of recipes, the memory of refutations | climb: draft, publish, prove, keep or take back | `RecipeLadder` |
| Where software comes from (`profile_rules.py`, `discovery.py`, `registry.py`, `ai_blueprint.py`) | the catalogues that were read | what may be installed, what a report says, which image | `SoftwareSources`, `ImageRegistries` |
| What can be built (`blueprint_registry.py`) | manifests on disk | discover | `BlueprintRegistry` |
| Proof builds, golden images (`proof.py`, `golden.py`) | proof rows; image rows and images | run a proof; keep, promote, reap, hand out | `ProofBuild` |
| Follow-on requests and time to live (`api/main.py`) | a request that acts on another; rows; workspaces on disk | decommission, restore, refresh, reduce, dns, destroy, expiry | `Environment` |
| Shutdown out of hours (`api/main.py`) | `power_state`, `auto_stopped` | the sweep, the Stop/Start button | `AutoShutdown` |
| Audit chain and webhooks (`audit.py`, `webhooks.py`) | linked entries; a cursor, delivery attempts | append, `verify_chain`, the webhook sweep | `AuditFeed` |

What is hard here:

* **Two actors, one row.** A sweep works for up to fifty minutes on a request, from a
  session created with `expire_on_commit=False`; buttons, other sweeps and other tabs
  act on the same row meanwhile. Nothing locks it. A session writes the columns it
  changed, from what it loaded.
* **A call whose answer is lost.** Three tries, a timeout, and an orchestrator that
  goes on after its caller gave up.
* **Restarts**, of either side, between any two steps.
* **Evidence.** What is certified rests on proofs, what is provisioned on reports, what
  is not there on searches. Each is dated, can be spent once, and may be about
  something else than it seems.
* **Caches and copies**: an approved layout and the plan on disk, a form and three
  caches, a price at approval and a price at build.
* **Statuses with an owner and statuses without**: nothing checks that every path
  leaves a request where somebody can act.

## 2. Modules

Every module with state has its variables, an initial predicate, one action per step
between two points where another party can be seen (a commit, a call, a callback), a
type invariant and its properties. The recurring idiom is the *session*: a record of
what a thread loaded, from which it decides and writes.

| Module | What it is |
|---|---|
| `ExclusiveSweep`, `LeaderLease`, `MCLeaderLease`, `LeaderLease_proofs` | the lease, its abstract promise, its runs and proofs |
| `RequestLifecycle`, `MCRequestLifecycle`, `RequestLifecycle_proofs` | portal database, ticket, orchestrator and the threads between them |
| `ComponentForm`, `Intake`, `ApprovalGates`, `Placement`, `SavedPlans`, `FirstBoot`, `ProofBuild` | a request's way to what is built; composed in `MCBuilding` |
| `Certification`, `RecipeLadder` | what may be built; composed in `MCFactory` |
| `Environment`, `AutoShutdown`, `AuditFeed` | what becomes of it; composed in `MCKeeping` |
| `Validation`, `Pricing`, `SoftwareSources`, `ImageRegistries`, `BlueprintRegistry` | pure operators; stated about in the three harnesses, which instantiate them |
| `Submission_proofs` | theorems of `ComponentForm`, `Intake`, `ApprovalGates` |
| `Building_proofs` | theorems of `SavedPlans`, `ProofBuild`, `Placement`, `FirstBoot`, and of `MCBuilding` |
| `Certification_proofs`, `AuditFeed_proofs` | theorems of the module each is named for |
| `Factory_proofs` | theorems of `RecipeLadder`, and of `MCFactory` |
| `Keeping_proofs` | theorems of `AutoShutdown` and `Environment`, and of `MCKeeping` |

`MCBuilding`, `MCFactory` and `MCKeeping` put several modules side by side: a variable
`part` says which of them moves, the others rest in their initial state, so their state
spaces add. The modules share no variable; their interaction is through what one
assumes of another (a verdict of a machine, a certified blueprint), which is chosen
freely where it is used.

### LeaderLease

One action per step of `_poller_loop` and `_renew_lease_during_sweep`:
`LoopTick` is the top of the loop (`try_acquire`, then decide), `BeginSweep` and
`EndSweep` bracket the inline sweep, `HbWake`, `HbRenew` and `HbMiss` are the
heartbeat's wait, its call and its swallowed failure; `StopPoller`, `ExitLoop` and
`ProcessEnds` are shutdown and death. A heartbeat that is past its stop check when
the sweep ends is not joined by the code: `stray` is that thread, and `StrayRenew`
its last renewal, which can come after the loop released the lease.

Time is relative. `left` counts down to `expires_at` on the slowest clock, and
`Skew[r]` is how far r's clock is ahead: r sees the row expired when
`left <= Skew[r]` and writes `left' = TTL + Skew[r]`. This makes the model finite
without a horizon. `Timely` (external: the thread scheduler) lets an elected loop
start its sweep within `Slack` seconds and a heartbeat make its call within
`Slack` of the end of its wait; nothing else is timed.

A sweep is *guarded* from the moment the loop is elected until it ends or its
watchdog lets go of the heartbeat. A sweep past its watchdog is the documented
escape hatch and is left out of mutual exclusion, not out of the model.

### RequestLifecycle

`work[w]` is a thread: where it is (`pc`), its request and the columns of *its
session's copy* that it uses. A thread writes from that copy, and SQLAlchemy
writes a column only if it differs from the value loaded (`SetStatus`,
`StoreApproval`, `ClearAttempts`), so stale copies lose or overwrite updates as
they do in the code. One action is the work between two points where another
thread's change can be seen: a commit followed by a long call, or a call to Jira.

| Code | Actions |
|---|---|
| `_poll_once`, `_advance_request` step 1 | `Visit`, `PollNotApproved`, `PollHeld`, `PollApproved` |
| certified-blueprint fork and autobuild | `Fulfil`, `ManualFulfilment`, `AutobuildDone` |
| the handoff and its end | `PollHalted`, `Handoff`, `PlanFails`, `PlanSucceeds`, `PlanFindsBuilt` |
| step 2 and `_provision_in_background` | `StartApply`, `ApplyFails`, `ApplyEnds`, `Verified` |
| the routes | `ClickApprove`/`ApproveRefused`/`Approve`/`ApproveEnds`, `ClickApply`, `ClickCancel`/`Cancel`, `ClickRetry`, `ClickDestroy`/`DestroyEnds` |
| `_post_to_orchestrator` | `Call`, `Answer`, `CallLost`, `CallTimesOut`, `Retry`; `GhostRuns` is a call handled after its caller gave up |
| the orchestrator's handlers | `HandlePlan`, `HandleApply`, `HandleDestroy`; `PartialWork` is Terraform failing part-way |
| re-verification (`GET /api/approvals/...`) | `Reverify`, `Approves` |
| restarts | `OrchRestarts` empties the ledger; `ApiRestarts` ends every thread, and what was in flight may still be handled |
| the manager | `ManagerDecides` (in Jira), `ChatDecides` (`api/chatbot.py`) |

The orchestrator's handlers are `async` functions that block their one event loop,
so each is one step. `signed`, `burned` and `made` are history variables.
`signed` is set once and not taken back, so `NothingUnapproved` does not speak of an approval
that was withdrawn and is still honoured from the stored copy; `RowsWereBuilt` says that
rows are not invented, not that none is doubled or missing.

`OneInside = TRUE` keeps a second thread off a request while one works on it. The
code has no such rule; the constant separates what holds even with interleaving
(the *storm* run and the proof) from what holds only without it (*calm*).

Abstractions: which blueprints are certified is chosen each time; four-eyes,
quorum and the change window are one hold (`PollHeld`); `rows` counts 0, 1, more;
machines' reports are reduced to who can have filed one (a report is listed by
request and kind, so the report of a destroyed machine still speaks); a
workflow that lets the portal move a ticket to *In Progress* or *Resolved* only
past an approval is assumed (`Transition`).

### ComponentForm, Intake, ApprovalGates, Placement

`ComponentForm` is one technology on the request form (`RequestForm.tsx` 674-795): the
options arrive, are lost, or are asked for again when the image changes, and the form
mends what it holds (`Cleared`, `Shaped`, `Defaults`). The API answers (`OptionsFor`) and
later validates (`ComponentErrors`) from three caches which the `Refresh...` actions
replace. `Intake` is save, submit and cancel as sessions that load, decide by policy and
budget, raise the ticket and commit, with two tabs on one draft and a failure in between.
Past its limit a submission is refused only where `BUDGET_ENFORCE` is on; as shipped it is
off, and the submission goes through with a warning (`main.py` 1569, 3537): `Enforcement`
is what the setting may be, `warned` who got through. After that `Progress` writes the
statuses work comes to (`Reached`). Several of them are outside
`SHOWBACK_SCOPES["committed"]`: `auto-building`, `apply-failed`, `verify-failed`,
`manual-fulfil`, `cost-changed`. From each a request comes back into the spend with no
look at the budget (`main.py` 7482, 7579, 7601, Approve at 4020), and others may have been
let in meanwhile; `unchecked` holds these. Cost centre and limit are fixed; the quota of
environments has the same shape, also warns only as shipped, and is left out.
`ApprovalGates` reads author, approvers and status by separate calls
(`PollReads`, `PressReads`) while people move the ticket; `Gates` is segregation of
duties, four eyes, quorum and change window, `HandOff` the orchestrator's own read.
`Placement` enumerates options, judges a drawn layout, records a version and hands the
current one over; the orchestrator sizes and maps it or refuses (`Sized`).

### SavedPlans, FirstBoot, ProofBuild

`SavedPlans` keeps per work unit the plan file, the marker with the layout the plan was
made for, and what was built. Calls carry the layout that was current when sent; they
wait for one another, are handled in any order or twice, and stop half way. Approve's own
plan carries no layout (`Carried`, `main.py` 3983), so an apply that has one refuses it; the
handover of `Placement` is that of the other routes.
`FirstBoot` is the script at first boot (install, start, open, then look at itself step
after step) against software that starts, crashes and is restarted, and the portal's poll
and judgement of reports stored by request and kind. `reporting` is which kinds are asked
to report. As shipped it is none: without `OCI_BOOT_REPORT_PAR_URL` no machine is asked,
nothing is checked, and every request is provisioned with no evidence (`main.py` 5698,
`.env.example` 409); a blueprint may also be exempt. None, all and one kind of two are the
settings of the run, and none is also what `BOOT_VERIFY_ENFORCED=false` comes to. The
setting does not change while a request is built. `ProofBuild` is a proof from record
to teardown, where every call may fail with or without effect (apply and teardown are two
calls; the orchestrator takes them in order, so no apply is handled after its own
teardown), and the golden image kept
from a machine that passed: promoted, superseded, withdrawn, expired, reaped by a sweep
that decides in one session and asks the cloud in the middle.

### Certification, RecipeLadder

`Certification` has four writers of one row: the sweep (review, expire, restore, one
commit), the ladder (publish, certify, take back), people, and retirement.
`RecipeLadder` climbs: a rung per method of installing, drafted, published, proved, kept
or taken back. A report adds rungs (a package found, an image, ports, environment).
A recipe is `<<method, variant>>`; what the outside answers is chosen freely.

### Environment, AutoShutdown, AuditFeed

`Environment` is one built environment and the requests that act on it. A worker claims,
calls, and writes down what it was told; the orchestrator's handlers are one step each
and find workspaces on disk. `AutoShutdown` is the sweep and the button, each from its
own session. `AuditFeed` is the chain with concurrent sessions, and the webhook sweep's
cursor, attempts and one commit.

### The pure modules

Text is abstracted to what a rule tells apart: absent, refused by its pattern, or
accepted. Numbers are small; money is in whole units. `Validation` is `api/validation.py`
by kind of request; `Pricing` the estimate by component and by layout;
`SoftwareSources` the rules of profiles, a machine's report read, and the drafted
profiles; `ImageRegistries` guess, search and pin of a container image;
`BlueprintRegistry` the manifests on disk. What is stated of them is an `ASSUME` of a
harness, which TLC evaluates on every run of it:

| Statement | What it says |
|---|---|
| `ActsOnWhatIsThere` (`MCKeeping`) | an accepted follow-on request acts on something that is there, and no other is doing the same |
| `RefreshGoesDown` | a refresh goes to a lower tier; production counts as lowest (see below) |
| `PlacingCostsNothing` (`MCBuilding`) | software placed on machines of its own costs what it did unplaced |
| `PlacedApart` | monitoring and support are charged twice once a part is managed (see below) |
| `DriftOfNothing` | what is built at its approved price is not refused for drift, unless options were priced |
| `MeasuredIsAccepted`, `NothingIsHeard` (`MCFactory`) | what a machine measured can be installed; an absence is believed of a sound search only |
| `SoundsLikeEpel`, `DraftsCanBeBuilt` | a repository that only sounds like EPEL counts as it; all drafts are accepted but MongoDB's (see below) |
| `NoSecretMadeUp`, `OnlyTheOneCommand` | secrets are the machine's or a person's; a command is read only when it is the only one |
| `FoundIsAccepted`, `OutageIsRemembered` | a found image is pinned, trusted and accepted; an outage hides a vendor's images for the life of the process |
| `ShippedWins`, `ProfilesExtendWhatShips`, `BrokenIsReplaced` | a generated blueprint displaces no shipped one, unless that one cannot be read |

## 3. Runs

| Run | Instance | Shows |
|---|---|---|
| `lease` | 2 replicas, one clock a second ahead, TTL 9, Renew 2, Slack 1, Watchdog 5, one missed renewal | the lease covers each guarded sweep; refinement of `ExclusiveSweep`; a wedged sweep is replaced; somebody sweeps again. 131 thousand states |
| `lifecycle_calm` | 1 request, 2 units, poller and button thread, no faults, `OneInside` | status and rows agree with the cloud; an approved request settles. 32 thousand states |
| `lifecycle_storm` | 1 request, 1 unit, poller and button interleaved, two tries per call, Jira may fail, one fault | nothing unapproved, no invented rows, the failure bound; only a destroy that fails half way makes the ledger lie. 2.8 million states |
| `factory` | 1 blueprint, 2 requests, 2 proofs, threshold 2; one climb with one finding, one revision, two attempts | a proof is spent once, evidence is heard, what is withdrawn stays so; what is kept was proved, nothing unproved is left, a climb ends. 384 thousand states |
| `building` | the form with 2 sizes and 2 catalogue states; 2 drafts, 3 tabs; 3 people, quorum 1 or 2; 7 stacks, 7 drawn layouts; 2 workspaces, 2 layouts, 2 waiting calls; 2 machines, 2 applies; 2 proofs over 3 days; budget enforced or not; none, all or one kind asked to report | the twelve properties of the way to what is built. 1.9 million states |
| `keeping` | 2 kinds, 2 tickets, poller and clicker, 1 fault; 2 machines, 3 mishaps; 2 writers, 3 entries | the nine properties of what becomes of it. 353 thousand states |
| `lifecycle_wayout`, `lifecycle_cancel`, `lifecycle_reject`, `named`, `shared`, `software` | | one finding each, below |

### The properties of the three composed runs

| Property | Says |
|---|---|
| `OfferedIsAccepted` | what the form holds once its options arrived is accepted by the server, but for four cases it cannot show |
| `SentStaysSent`, `BudgetHolds` | what was sent for approval is not drawn back into a draft, and its estimate is its ticket's; commitments keep to the budget, but for what was sent past it with a warning, on figures that changed since they were read, or counted again after work on it |
| `ApprovedByOthers` | what is handed over was approved by as many others as the quorum asks, unless four eyes could not tell who |
| `BuiltAsPlaced` | what the orchestrator accepts gives each placed component one machine or service in a mode it has, and a state of its own |
| `AppliedIsApproved` | an apply builds what was planned for the layout it was sent for |
| `ProvisionedOnEvidence` | provisioned rests, for each kind that is asked to report, on a machine that found its software there and serving, unless it replaced another; of a kind that is not asked it says nothing |
| `NothingLeftQuietly` | a proof that leaves something running says so |
| `HandedImageSurvives`, `HandedOnlyProved`, `CapturesEnd` | an image that was handed out outlives the grace; it came from a machine that passed; a capture does not stay open |
| `ProofSpentOnce`, `EvidenceHeard`, `WithdrawnStays` | no proof restores a blueprint twice; newer evidence is acted on; a withdrawal is lifted only by a proof or a person |
| `KeptWasProved`, `NothingUnprovedLeft`, `LadderEnds` | certification and store speak of one proved recipe; no unproved one stays; a climb ends |
| `RecordMatchesCloud`, `StraysWereForgotten` | rows and machines agree except where a teardown failed or was lost; what is torn down unnamed had been forgotten by the catalogue |
| `TtlReclaims` | past its time to live an environment is torn down or renewed |
| `StartsWhatItStopped`, `StoppedComesBack` | the sweep starts only what a sweep stopped, and starts it again |
| `NoFalseAlarm`, `OnlyLateOnesMissed`, `HeardOrGivenUp` | forks and gaps raise no alarm; the webhook sweep misses only what became visible late; everything else is delivered or given up |

Why the bounds are enough. Replicas interact only through one row, so two suffice for
every conflict (the proofs cover any number); TTL 9 is the smallest that satisfies
`TimelyRenewal` there: with 8, `LeaseCoversSweep` fails. Watchdog 5 makes a guarded sweep
outlast the lease it was elected with. Requests of the lifecycle share no state but the
ledger set and the poller's time, so one shows every race of threads; two units are needed
only for partial work. `MaxFaults` 1 lets one outage, partial step or restart happen
anywhere. Two drafts and a third tab are what it takes to overdraw a budget and to submit
one draft twice; `Reached` takes one status of each sort that the budget and Cancel tell
apart (counted or not, cancellable or not), and more of a sort would add no behaviour.
Two workspaces show a half-finished apply, two layouts a plan that is out
of date, two waiting calls every reordering of a pair. Two machines are two of a kind or
one of each. Two proofs are a superseded image and its successor, three days the grace
of one. Two tickets are a teardown and whatever races it. Three audit entries of two
writers with a batch of one are the smallest history in which the cursor passes an entry
that is not yet visible. `MaxAttempts` is 2 everywhere, so that "not yet" and "given up"
are both reached. The counters `MaxRare`, `MaxMishaps`, `MaxStops`, `MaxRefreshes`,
`MaxMoves` and `MaxVerdicts` bound what people and the network do, not what the program
does.

The runs of the three harnesses set `CHECK_DEADLOCK FALSE`: a request that is built, an
environment that is gone and a clock at its bound have nothing left to do.

### Findings

1. **A held request can be stranded in `auto-building`** (`lifecycle_wayout`). The
   claim is committed before the attempts are looked at; a held request that is
   claimed again returns early from the test at line 7505 with the claim in place.
   The guard that requeues after a failed handoff (line 7573) is not on that path.
2. **Cancel during an apply** (`lifecycle_cancel`). Rows are written when the apply
   returns, so a request whose machines are being created looks empty.
3. **A rejection stored by another path is never acted on** (`lifecycle_reject`).
   The poller acts only if the stored copy was not yet `rejected`; the chat, the
   Approve route and the re-verification also store it.
4. **A decommission of one component tears down all** (`named`). What remains of the
   environment is computed from the blueprints that are certified *now*; when a sibling's
   is suspended, stale or withdrawn nothing remains, and the orchestrator sweeps every
   workspace it finds.
5. **Machines are told to install each other's software** (`software`). The components
   of a machine are selected by resource kind and not by host, so two machines of one
   kind in a separated layout both install both components.
6. **Two machines of one kind vanish from the records** (`shared`). Their workspaces are
   named by kind and host, their rows by kind. A decommission of part of the environment
   sends the kind, the orchestrator finds no workspace of exactly that name, destroys
   nothing and says so; the portal takes the empty answer for that of an older
   orchestrator and closes both rows, while both machines run.

Divergences that the models pin or name as an exception, without a run of their own:

* Lease: `renew` is at most `ttl // 2`; a failed renewal is swallowed and the next try is
  a whole period later, at or after the TTL. The docstring of `_poller_loop` says that the
  lease never lapses in place. `TimelyRenewal`, under which it is proved not to, is
  `Slack + (MaxMisses + 1) * (Renew + Slack) + clock difference < TTL`: the defaults
  (TTL 60, renew 30) satisfy it with no missed renewal and a margin of about thirty
  seconds, and not with one.
* Validation: the ranks of tiers keep the old names (`validation.py` 91, 484), so
  production ranks lowest in a refresh (`RefreshGoesDown`); a `dr` request is always
  refused (625-637); a pair of numbers no shape hosts is refused only when both are given.
* Gates: a change window that goes past midnight never opens (`main.py` 7681); it is not
  asked by the Approve button nor by the apply of a planned request; four eyes lets pass
  what it cannot read; an approval that was withdrawn still counts for the quorum.
* Form: four things the server refuses that the form shows as fine (`OfferedIsAccepted`).
* Pricing: a layout with machines and managed parts pays monitoring and support twice;
  like machines merge into one line while their rows stay two, so the approver's table
  pairs prices by position wrongly (`pricing.py` 574, 648); a Marketplace licence counts
  vCPUs for OCPUs (461) and is lost once a component is placed.
* Budget: by its comment the committed spend includes in-flight requests (`main.py`
  1405-1407); `auto-building` is not in the list, so for the minutes a build takes the
  request is missing from the spend.
* Golden images: `withdraw` says that a withdrawn image cannot come back as available
  (`golden.py` 225-227), which holds of one session only: a sweep that loaded the row before
  the withdrawal writes `available` over it. `HandedOnlyProved` holds regardless, because
  `usable_for` asks the refutations as well.
* Certification: `restore` does not look again after a restoration (`certification.py`
  569-600), so a failure of a later sweep may follow at once. A refutation that was heard
  before a rung was published is not looked at again (`autobuild.py` 735).
* Software: the curated MongoDB recipe (`ai_blueprint.py` 521) names a base URL, and the
  rules accept only a `.repo` file, so it can never be proved (`DraftsCanBeBuilt`); a
  registry added in the Admin console may be pulled from and is never searched
  (`registry.py` 648); without Docker Hub no vendor's catalogue is searched; a failed
  listing is cached for ever (`OutageIsRemembered`); `search_was_sound` takes any name
  with "epel" in it for EPEL while `discovery.py` 42 says never a substring
  (`SoundsLikeEpel`).
* Blueprints: a refutation of a generated profile is not told to the form
  (`blueprint_registry.py` 358, `ProfilesExtendWhatShips`).
* Environment: two restores of one ticket may both run; resize and DNS re-create machines
  that were torn down; an event committed late under a lower id is never delivered.
* Lifecycle: after a successful autobuild the claim becomes `in-progress`; a failed
  handoff leaves it there, since `in-progress` is cancellable, and the sweep does not
  retry. `ApprovedSettles` names it as one of its ends.

## 4. Fairness

* `LeaderLease`: time passes and threads that are ready run (weak fairness);
  `LoopTick` is strongly fair, because a failing database makes `LoopTickFails`
  take its place and the database does not fail at every tick for ever. No
  fairness makes a sweep end, a process start or a process die. `Settles` says
  replicas do not crash-loop for ever: one that did could win every election.
* `RequestLifecycle`: each thread's next step is taken, the sweep comes round
  (the poller is a loop over the queue), and a ticket that is read is, infinitely
  often, really read (strong fairness of `ReadsTicket`: Jira is not down, and the
  quorum and the change window do not hold, at every visit for ever). Nothing
  makes a manager decide, a plan succeed or a button be pressed; `Settles` says
  people do not press buttons for ever.
* `Certification`: the sweep runs for ever and is, infinitely often, answered by the
  orchestrator (`SF` of its review with an answer). `RecipeLadder`: a climb goes on.
* `Environment`, `AutoShutdown`, `AuditFeed`: the poller sweeps for ever and a thread that
  was started goes on; calls fail only as often as their bound. Nothing makes a person
  act, a ticket be raised or an entry be written. The other modules need no fairness.

## 5. Proofs

`LeaderLease_proofs`, for any replicas, timings and clock offsets:

* `TypeCorrect`: `Spec => []TypeOK`, from `LeaseConstants`.
* `SweepIsCovered`: under `TimelyRenewal`, `Spec => []LeaseCoversSweep`. The
  property is not inductive. The strengthening says how much of the lease must be
  left as a function of how long the thread has waited and how many renewals it
  has missed: each second of waiting costs one second of `left`, each miss costs a
  period, and `Timely` bounds both. `TimelyRenewal` is the bound's positivity.
* `OneSweep`: no two guarded sweeps, from the same invariant (two guarded sweeps
  would be two holders).
* `Implements`: every step of `LeaderLease` is a step of `ExclusiveSweep` or
  stutters, under the mapping of the guarded replicas to `active`.

`RequestLifecycle_proofs`, for any requests, units, threads, faults and attempts,
with or without `OneInside` but where it says otherwise:

* `TypeCorrect`: `Spec => []TypeOK`. `WellFormed` is in it because a call must
  have tries left and a busy thread a request.
* `ApprovedFirst`: `Spec => []NothingUnapproved`. The approval is seen in four
  places before it has an effect, so the inductive invariant `SInv` says of each
  that it can only have come from the signature: the ticket (`TicketSigned`), the
  stored copy (`CopySigned`), what a thread's session believes or has gone on to
  do (`WorkSigned`), what the orchestrator has, including calls whose caller is
  gone (`OrchSigned`), and what is recorded (`RowsSigned`).
* `RecordedWasBuilt`: `Spec => []RowsWereBuilt`. Rows are written from an answer,
  and the answer may come from the ledger, so the invariant `RInv` adds that every
  request in the ledger was created in full (`LedgerMade`), that an answer saying
  "built" is true when it arrives and stays so (`SaidMade`), and that a thread has
  forgotten its last answer before it asks again (`NoAnswerYet`).
* `FailuresBounded`: `OnePoller => (Spec => []AttemptsBounded)`. The counter is
  written from a copy read before a long call. `BInv` says neither the column nor
  the poller's copy is below the failures there were: a Retry in between lowers
  only the failures. It needs `OnePoller`: two pollers, each with a copy, could
  exceed the bound, and it is leadership that rules them out.
* `StatusIsTrue`: `Calm => (Spec => []StatusMatchesCloud)`, where `Calm` is `OneInside`
  and `MaxFaults = 0`. Both are needed: TLC refutes the property when either is dropped.
  A request is settled between two threads' work, but not during it, so `CalmInv` says
  for each point of a thread's way what it may find (`Holds`): created in full and not
  yet on record, removed and still on record, untouched. To that it adds that one thread
  at a time is inside (`Alone`) and that every call is its first and last try
  (`NoFaultYet`).
* `OnlyDestroySpoils`: `Spec => LedgerSpoiltByDestroyOnly`, with no hypothesis. No lost,
  repeated or late call, failed apply, second thread or restart makes the ledger lie;
  a destroy that fails half way does, since the key is popped after the whole of it.
* `LedgerIsTrue`: `Spec /\ [][~HalfDestroyed]_vars => []LedgerMatchesCloud`, in every
  history without such a destroy; `LedgerIsTrueInCalm` where there are no faults at all.
* `WayOutWithoutBuilds`: `~Autobuild => (Spec => []AlwaysAWayOut)`. It complements the run
  `lifecycle_wayout`, which refutes the property with the ladder on: with it off, no race,
  failure, lost call or restart leaves a request that can be neither collected by the sweep
  nor cancelled, so the ladder's own status is the only way to lose one.

`Submission_proofs`, for any drafts, tabs, costs, people, options and caches:

* `SentIsKept` and `BudgetIsKept`: `IntakeSpec => []SentStaysSent` and `[]BudgetHolds`.
  A session decides on what it loaded, so `IntakeInv` speaks of what sessions hold: each
  holds a draft or a request cancelled before it was sent (`Loaded`), all it saw
  committed has a ticket, which keeps its estimate (`Charged`), and what it is about to
  commit without a warning fitted beside what it saw (`Affordable`). `Counted` is the set
  the budget is held to: committed, not warned of, and not taken or retaken unchecked. Where
  the budget is always enforced nothing is warned of (`Enforced`), so there the exception
  falls away. The spend is a sum over a finite set
  of requests. That it adds up is proved without induction over data: of the sets for
  which it would not, one contains no other (`SmallestSet`, from the library's theorem
  that the strict subsets of a finite set are well founded).
* `OthersApproved`: `GatesSpec => []ApprovedByOthers`. `GatesInv` adds what a reader that
  is past a gate may rely on (`Passed`): approvals are recorded and never fewer later.
* `FormIsAccepted`: `FormSpec => []OfferedIsAccepted`. What is held was in the last
  answer (`HeldIsOffered`) when there is one; `FormInv` says besides what it can be at
  all (`HeldIsKnown`), which is what a form that asks again has to start from.

`Building_proofs`, for any units, layouts, stacks, builds, images and machines:

* `MarkersTellThePlan`: `PlansSpec => []PInv`, the types and `MarkerTellsThePlan`: a
  marker that is there names the layout of the plan beside it. It is kept because the
  marker is removed before a plan is overwritten and written after it.
* `AppliedAsSent`: `PlansSpec => AppliedIsApproved`. An apply compares the marker with
  its own layout, and no layout is the empty one, so the invariant gives the plan's.
* `HandedOutIsProved`, `HandedImageStays`, `NoCaptureForEver`: the three action
  properties of golden images, from `ImagesInv`. A sweep decides in one session and
  commits after it asked the cloud, so what it holds back must be right when it is
  written: a row is retired no earlier than it was last handed out, in the table
  (`RetiredAfterHanded`) and in what is held back (`PendingInOrder`); what was loaded is
  still capturing or was refused at the door (`LoadedOrRefused`); and each capture that
  ran too long has a verdict (`StuckHaveVerdict`).
* `NothingIsLeftQuietly`: `ProofSpec => []NothingLeftQuietly`.
* `BuiltIsPlaced`: `PlacementSpec => []BuiltAsPlaced`. `PlacedInv` adds that what may be
  recorded shares the stack out among its hosts or runs in containers, which the
  handover refuses (`RecordedShared`).
* `ProvisionedIsEvident`: `BootSpec => []ProvisionedOnEvidence`. A report is stored under
  a name that several machines may have, so `BootInv` says of a good report only that a
  machine of that name and kind stands behind it (`ReportsAreEvidence`), and of a machine
  whose first boot is not over that it has said nothing and noted what is missing
  (`NotYetSaid`). It holds for every setting of who reports, and says nothing of a kind that
  is not asked: with the settings as shipped, nothing at all.

`Certification_proofs`, for any blueprints, requests, proofs, threshold and validity:

* `SpentOnce` and `WithdrawalStays`, from `CertCorrect`: `CertSpec => []CertInv`. The
  argument is dates. A blueprint that a proof brought back is dated at or after that
  proof's end (`SpentBefore`), and so is what a sweep under way is about to write over
  it (`HeldIsDated`, `CreditIsNew`), so the proof is too old to be used again.

`Factory_proofs`, for any findings, revisions, attempts, climbs and verdicts:

* `CertifiedWasProved`, `ClimbsLeaveNothing` and `OneRungAtATime`, from `LInv`. While a
  climb goes on nothing is certified (`NothingKept`); the store is empty between two rungs
  and offers the recipe of the rung on one (`StoreFollows`); what is observed has passed
  (`ObservedPassed`).

`Keeping_proofs`, for any machines, kinds, tickets, workers and faults:

* `OnlyItsOwnStarts`: `PowerSpec => StartsWhatItStopped`. `PowerInv` adds what the sweep
  and a person know of each other while they do not overlap (`Apart`).
* `RecordAgreesPerKind`: `EnvSpec => []RecordAgrees`: for every kind the layout has one
  machine of, what lives is on record unless a late `/reduce` or `/dns` put it back, and
  what is on record lives unless a teardown failed or its record was lost. `EnvInv` adds
  what a teardown is about to remove (`Aimed`) and what it was told it removed
  (`Answered`). `RecordIsTrue` is `RecordMatchesCloud`, under `Shared = {}`; without it
  the property is false, which is the run `shared`.
* `StraysAreExplained`: what a teardown removed unnamed was forgotten by the catalogue
  when the teardown was claimed, or is a bucket: where the portal finds no kind for a
  component it takes it for one. `StraysForgotten` is `StraysWereForgotten` where no
  bucket is built. `Reapply` makes no bucket, which `/dns` would where the portal finds no
  kind for any component. A bucket torn down because of that default is outside the `keeping`
  run, whose kinds include none.
* `NamedWhileCatalogued`: `Bucket \notin Kinds => (EnvSpec /\ [](certified = Kinds) =>
  []NamedOnly)`. The run `named` refutes `NamedOnly`; the theorem says that a blueprint
  which lost its certificate is all it takes: while every kind stays in the catalogue, a
  teardown removes what somebody named and nothing else, in every layout.

`AuditFeed_proofs`, for any writers, entries and rollbacks:

* `ChainVerifies`: `FeedSpec => []NoFalseAlarm`. The strengthening `CInv` says what an
  entry of an open session names is committed, or flushed in the same session, so that
  a commit brings both and a rollback loses both. `Greatest` (a bounded set of naturals
  has a maximum) makes `LastSeen` an entry that is there.
* `OnlyLateMissed`: `FeedSpec => []OnlyLateOnesMissed`. The sweep reads a batch, calls and
  commits at the end; `HooksInv` says that what it has queued jumps over nothing it could
  see when it read (`NothingJumped`), and that the cursor stands on an entry that has its
  delivery (`CursorStands`).

The three composites. In each the parts share no variable, and a step moves one part and
leaves the others as they are, so the conjunction of the parts' inductive invariants is
inductive, and each part's lemma about its own step carries it (`FactoryMoves`,
`BuildingMoves`, `KeepingMoves`: a step of the composite is a step of each part or
leaves it alone). What the runs check together therefore holds together, for every value
of the constants:

* `FactoryCorrect`, `FactoryTypeCorrect`, `FactoryKeeps`: `FactorySpec` keeps `CertInv` and
  `LInv`, hence its types, `ProofSpentOnce`, `KeptWasProved` and `NothingUnprovedLeft`.
* `BuildingCorrect`, `BuildingTypeCorrect`, `BuildingKeeps`: `BuildingSpec` keeps the seven
  invariants (`Sound`), hence its types, `OfferedIsAccepted`, `SentStaysSent`, `BudgetHolds`,
  `ApprovedByOthers`, `BuiltAsPlaced`, `ProvisionedOnEvidence` and `NothingLeftQuietly`.
* `KeepingCorrect`, `KeepingTypeCorrect`, `KeepingKeeps`: `KeepingSpec` keeps the four, hence
  its types and, where `Shared = {}`, `RecordMatchesCloud`, `NoFalseAlarm` and
  `OnlyLateOnesMissed`.

Each inductive invariant was checked with TLC on the instance of its run before it was
proved. Every module's type invariant is proved for its own specification, and the type
invariants of the composites for theirs.

What the proofs assume of the constants is in each module's named `ASSUME`, and TLC
evaluates it in the runs. Besides the types: there are finitely many drafts (a spend is a
sum); work never comes back to a draft and cancels nothing (`WorkReaches`); a name that tells
one machine's report is not the name of a kind; tickets differ from
the labels of the sweep and the button; an attempt is allowed at least once; a catalogue
has a size to start from, names only families it knows as refuted, and its images are not
the empty choice. A part of a composite that
rests is in one fixed initial state, and the composites assume that this state exists:
there is a network, a stack, a moment, a set of kinds to name and one to report, a quorum of
one and an empty catalogue (`BuildingConstants`), a blueprint and a kind for the named model values
(`FactoryConstants`), a DNS type (`KeepingConstants`).

Only model-checked:

* Liveness, since it rests on fairness and ENABLED: `WedgedSweepIsReplaced`,
  `SomebodySweeps`, `ApprovedSettles`, `EvidenceHeard`, `LadderEnds`, `TtlReclaims`,
  `StoppedComesBack`, `HeardOrGivenUp`.
* What the harnesses assume of the pure modules: it speaks of tables that are given
  there, and TLC evaluates it.

Recursion is by folds, so no module is closed to proofs.

## 6. Not modelled

Mock and plan mode, a setting that changes while a request is built, the escalation reminder, and an exception
in the middle of a step other than a restart. Terraform itself, cloud-init text, the format
of reports and tickets, and every message's wording. The Rego rules (`policy/infra.rego`),
quotas (by kind and of environments), cost sheets, forecasts and reports. Access grants, orphan and
project-expiry reminders. Scores of layout options. What a language model answers. The
rate limiter, identity, backups, clusters, tracing, the vault, and the views that only
read. Tampering with the audit table is not a step of the program. Parts with no module
are listed in `PROJECT.json` with the reason.

## 7. Plan

The model covers what was planned, and each safety property of the runs has its proof.
What is left:

1. Lemmas about the pure operators for every table: that what `Validation` accepts acts on
   something that is there, that a price is monotone in what is placed.
2. An abstract specification of a teardown (asked, gone, closed) that `Environment` is
   shown to implement where `Shared = {}`.

------------------------------ MODULE SavedPlans ------------------------------
(***************************************************************************)
(* What stands between an approved layout and what Terraform builds: the   *)
(* orchestrator keeps one directory per work unit, with the state, the     *)
(* saved plan and a marker naming the layout the plan was made for.  The   *)
(* portal sends plan, apply, drift and resize calls, each with the layout  *)
(* that was current when it was sent, or with none; calls wait for one     *)
(* another, may be handled twice, in any order, and stop half way.         *)
(***************************************************************************)
EXTENDS Integers, FiniteSets

CONSTANTS Units,       \* workspaces of the request
          MaxLayout,   \* bound on the versions a requester records
          MaxCalls     \* bound on the calls that wait at one time

ASSUME SavedPlansConstants == MaxLayout \in Nat \ {0} /\ MaxCalls \in Nat

VARIABLES layout,     \* the current placement's version
          calls,      \* sent by the portal, still to be handled
          file,       \* tfplan: the layout it was computed for, and whether the state
                      \* is still the one it was computed from
          marker,     \* plan.meta.json
          stated,     \* units with a Terraform state
          machine     \* the layout each unit's machine was built to

planVars == <<layout, calls, file, marker, stated, machine>>

None == 0
Unplaced == -1         \* an empty plan_id: /reduce, /dns, and a plan Approve asks for
Layouts == 1 .. MaxLayout
NoPlan == [layout |-> None, fresh |-> FALSE]

PlansTypeOK ==
    /\ layout \in Layouts /\ stated \subseteq Units
    /\ calls \subseteq [op : {"plan", "apply", "drift", "resize"},
                  layout : Layouts \cup {Unplaced}]
    /\ file \in [Units -> [layout : Layouts \cup {None, Unplaced}, fresh : BOOLEAN]]
    /\ marker \in [Units -> Layouts \cup {None, Unplaced}]
    /\ machine \in [Units -> Layouts \cup {None, Unplaced}]

PlansInit ==
    /\ layout = 1 /\ calls = {} /\ stated = {}
    /\ file = [u \in Units |-> NoPlan] /\ marker = [u \in Units |-> None]
    /\ machine = [u \in Units |-> None]

Disk == <<file, marker, stated, machine>>

\* /api/placement/resolve records a new version at any time: nothing is frozen by the
\* approval.
RecordPlacement ==
    /\ layout < MaxLayout /\ layout' = layout + 1
    /\ UNCHANGED <<calls, Disk>>

\* _handoff_payload carries the layout that is current when it is sent; the plan that the
\* Approve button asks for carries none.
Carried(op) == IF op = "plan" THEN {layout, Unplaced} ELSE {layout}

Send(op) ==
    /\ \E carried \in Carried(op) :
          calls' = calls \cup {[op |-> op, layout |-> carried]}
    /\ calls' # calls /\ Cardinality(calls') <= MaxCalls                \* bound
    /\ UNCHANGED <<layout, Disk>>

\* A handled call may come again: its answer was lost and the portal repeats it.
Handled(c) == calls' \in {calls, calls \ {c}}

Fresh(id) == [layout |-> id, fresh |-> TRUE]

\* Mutant: the old marker is dropped only once the new plan is there.
PlanHandledLate(c) ==
    /\ c \in calls /\ c.op = "plan" /\ Handled(c)
    /\ \E done \in SUBSET Units : \E stopped \in SUBSET (Units \ done) :
          /\ Cardinality(stopped) <= 1
          /\ \E written \in SUBSET stopped :
                file' = [u \in Units |-> IF u \in done \cup written
                                         THEN Fresh(c.layout) ELSE file[u]]
          /\ marker' = [u \in Units |-> IF u \in done THEN c.layout ELSE marker[u]]
    /\ UNCHANGED <<layout, stated, machine>>

\* terraform_plan, unit after unit: forget the marker, write the plan, remember what it
\* is for.  It may stop before, between or after the two writes.
PlanHandled(c) ==
    /\ c \in calls /\ c.op = "plan" /\ Handled(c)
    /\ \E done \in SUBSET Units : \E stopped \in SUBSET (Units \ done) :
          /\ Cardinality(stopped) <= 1
          /\ \E written \in SUBSET stopped :
                file' = [u \in Units |-> IF u \in done \cup written
                                         THEN Fresh(c.layout) ELSE file[u]]
          /\ marker' = [u \in Units |-> IF u \in done THEN c.layout
                                        ELSE IF u \in stopped THEN None ELSE marker[u]]
    /\ UNCHANGED <<layout, stated, machine>>

\* terraform_apply: a saved plan, a marker, and the layout the caller asks for; Terraform
\* itself refuses a plan made for an older state.
Applicable(u, id) == file[u] # NoPlan /\ marker[u] = id /\ file[u].fresh

Change(built, touched) ==
    /\ stated' = stated \cup built \cup touched
    /\ file' = [u \in Units |-> [file[u] EXCEPT !.fresh = @ /\ u \notin built \cup touched]]
    /\ machine' = [u \in Units |-> IF u \in built THEN file[u].layout ELSE machine[u]]

\* Unit after unit; one that is refused or fails ends it, and may have left its mark on
\* the state.
ApplyHandled(c) ==
    /\ c \in calls /\ c.op = "apply" /\ Handled(c)
    /\ \E done \in SUBSET Units :
          /\ \A u \in done : Applicable(u, c.layout)
          /\ \/ Change(done, {})
             \/ \E u \in Units \ done : Applicable(u, c.layout) /\ Change(done, {u})
    /\ UNCHANGED <<layout, marker>>

\* Mutant: the drift check leaves the marker of the plan it overwrites.
DriftHandledMarked(c) ==
    /\ c \in calls /\ c.op = "drift" /\ Handled(c)
    /\ \E done \in SUBSET Units :
          file' = [u \in Units |-> IF u \in done \cap stated
                                   THEN Fresh(c.layout) ELSE file[u]]
    /\ UNCHANGED <<layout, stated, machine, marker>>

\* terraform_drift plans over the saved plan in every workspace that has a state, and
\* nothing may be built from what it leaves.
DriftHandled(c) ==
    /\ c \in calls /\ c.op = "drift" /\ Handled(c)
    /\ \E done \in SUBSET Units :
          LET here == done \cap stated
          IN  /\ file' = [u \in Units |-> IF u \in here THEN Fresh(c.layout) ELSE file[u]]
              /\ marker' = [u \in Units |-> IF u \in here THEN None ELSE marker[u]]
    /\ UNCHANGED <<layout, stated, machine>>

\* /reduce and /dns plan and apply in one handler, with no layout; either may fail.
ResizeHandled(c) ==
    /\ c \in calls /\ c.op = "resize" /\ Handled(c)
    /\ \E u \in Units :
          /\ \E remembered, applied \in BOOLEAN :
                /\ applied => remembered
                /\ file' = [file EXCEPT ![u] = [Fresh(Unplaced) EXCEPT !.fresh = ~applied]]
                /\ marker' = [marker EXCEPT ![u] = IF remembered THEN Unplaced ELSE None]
                /\ stated' = IF applied THEN stated \cup {u} ELSE stated
                /\ machine' = IF applied THEN [machine EXCEPT ![u] = Unplaced] ELSE machine
    /\ UNCHANGED layout

CallHandled(c) == PlanHandled(c) \/ ApplyHandled(c) \/ DriftHandled(c) \/ ResizeHandled(c)

PlansNext ==
    \/ RecordPlacement
    \/ \E op \in {"plan", "apply", "drift", "resize"} : Send(op)
    \/ \E c \in calls : CallHandled(c)

PlansSpec == PlansInit /\ [][PlansNext]_planVars
----------------------------------------------------------------------------
\* What an apply builds was planned for the layout that apply was sent for, however plans,
\* drift checks, resizes and repeated calls were mixed: a machine comes to a layout only
\* while a call for it is there.
AppliedIsApproved ==
    [][\A u \in Units : machine'[u] # machine[u] /\ machine'[u] # Unplaced =>
          \E c \in calls : c.op = "apply" /\ c.layout = machine'[u]]_planVars

\* A saved plan with a marker is the plan that marker names.
MarkerTellsThePlan == \A u \in Units : marker[u] # None => file[u].layout = marker[u]
=============================================================================

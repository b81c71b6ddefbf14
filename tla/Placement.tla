------------------------------ MODULE Placement ------------------------------
(***************************************************************************)
(* Where the components of a request come to run.  The portal enumerates    *)
(* layouts of the stored request, judges one a requester drew himself,      *)
(* records the layout chosen and later hands the current one over to be     *)
(* built; the orchestrator refuses what it cannot size or map and gives     *)
(* each host a workspace.  The form saves, resolves and submits in three    *)
(* calls, any of which may be refused or never made.                        *)
(***************************************************************************)
EXTENDS Integers, FiniteSets

CONSTANTS Facts,        \* component -> what the catalogue says of it
          Stacks,       \* the sets of components a form may hold
          Proposals,    \* layouts a requester may draw, right or wrong
          Deploys,      \* CLUSTER_DEPLOYMENT_ENABLED
          MaxVersion    \* bound on the layouts that are recorded

HostModes == {"vm", "container", "managed"}
Catalogued == DOMAIN Facts

ASSUME PlacementConstants ==
    /\ \A c \in Catalogued : Facts[c].modes \subseteq HostModes
    /\ \A c \in Catalogued : Facts[c].role \in {"workload", "machine", "cluster"}
    /\ Stacks \subseteq SUBSET Catalogued
    /\ Deploys \in BOOLEAN /\ MaxVersion \in Nat

VARIABLES asked,      \* the components stored with the request
          form,       \* the components on the screen
          choice,     \* the layout chosen on the screen
          press,      \* how far pressing submit has come
          stage,      \* Request.status, as far as placement tells it apart
          current,    \* the placement in force
          handed      \* what the orchestrator accepted to build, and for which layout

placementVars == <<asked, form, choice, press, stage, current, handed>>

NoLayout == [key |-> "none", hosts |-> {}]
NoPlacement == [version |-> 0, layout |-> NoLayout, of |-> {}]
NoUnits == [units |-> {}, of |-> {}]

Keys == {"managed", "consolidated", "separated", "existing-cluster", "new-cluster", "custom"}

PlacementTypeOK ==
    /\ asked \in Stacks /\ form \in Stacks
    /\ {choice.key, current.layout.key} \subseteq Keys \cup {"none"}
    /\ press \in {"idle", "saved", "placed"}
    /\ stage \in {"draft", "submitted", "built", "failed"}
    /\ current.version \in 0 .. MaxVersion /\ current.of \in Stacks \cup {{}}
    /\ \A h \in current.layout.hosts : h.mode \in HostModes /\ h.carries # {}
    /\ handed.of \in Stacks \cup {{}}

PlacementInit ==
    /\ asked \in Stacks /\ form = asked
    /\ choice = NoLayout /\ press = "idle" /\ stage = "draft"
    /\ current = NoPlacement /\ handed = NoUnits

----------------------------------------------------------------------------
(* The layouts of a stack *)

Role(S, role) == {c \in S : Facts[c].role = role}

\* placeable_components: outside a cluster layout a cluster is a workload like another.
Placeable(S) == S \ Role(S, "machine")

Supports(S, mode) == {c \in S : mode \in Facts[c].modes}
CloudOnly(S) == {c \in S : Facts[c].modes = {"managed"}}

Host(id, mode, carries) == [id |-> id, mode |-> mode, carries |-> carries]
Layout(key, hosts) == [key |-> key, hosts |-> hosts]

ManagedLayout(W) ==
    LET managed == Supports(W, "managed")
        rest == W \ managed
    IN  IF managed = {} THEN {}
        ELSE {Layout("managed",
                {Host(<<"managed", c>>, "managed", {c}) : c \in managed}
                \cup (IF rest = {} THEN {} ELSE {Host(<<"host", "1">>, "vm", rest)}))}

ConsolidatedLayout(W) ==
    IF Cardinality(W) < 2 \/ CloudOnly(W) # {} THEN {}
    ELSE {Layout("consolidated", {Host(<<"host", "1">>, "vm", W)})}

SeparatedLayout(W) ==
    IF W = {} \/ CloudOnly(W) # {} THEN {}
    ELSE {Layout("separated", {Host(<<"host", c>>, "vm", {c}) : c \in W})}

\* A container for each; on a cluster that is named every host takes the cluster's id.
ClusterHosts(W, id) == {Host(id, "container", {c}) : c \in W}

ClusterLayouts(S) ==
    LET W == Role(S, "workload")
        providers == Role(S, "cluster")
    IN  IF providers = {} \/ Supports(W, "container") = {} \/ ~Deploys THEN {}
        ELSE {Layout("existing-cluster", ClusterHosts(W, <<"oke", "1">>)),
              Layout("new-cluster",
                {Host(<<"new", "cluster">>, "managed", providers)}
                \cup {Host(<<"cluster", c>>, "container", {c}) : c \in W})}

\* enumerate_options, those that are eligible.
Options(S) ==
    LET W == Placeable(S)
    IN  ClusterLayouts(S) \cup ManagedLayout(W) \cup ConsolidatedLayout(W) \cup SeparatedLayout(W)

\* _refuse_proposed_topology finds nothing to say.
Judged(S, hosts) ==
    /\ hosts # {}
    /\ \A h \in hosts : h.carries # {} /\ \A c \in h.carries \cap S : h.mode \in Facts[c].modes
    /\ \A g, h \in hosts : g # h => g.id # h.id /\ g.carries \cap h.carries = {}
    /\ UNION {h.carries : h \in hosts} = Placeable(S)

ModesOf(hosts) == {h.mode : h \in hosts}

\* filter_options: an environment that may have been built keeps to how it is hosted.
Unfiltered(hosts) ==
    \/ stage \in {"draft", "submitted"} \/ current = NoPlacement
    \/ ModesOf(hosts) \subseteq ModesOf(current.layout.hosts) \cup {"managed"}

\* What /api/placement/resolve would record of the stored request; the policy service
\* and the clusters' scope and capacity may refuse any of it.
Resolvable(layout) ==
    IF layout.key = "custom" THEN Judged(asked, layout.hosts)
    ELSE layout \in Options(asked) /\ Unfiltered(layout.hosts)

RecordLayout(layout) ==
    /\ current.version < MaxVersion                                      \* bound
    /\ current' = [version |-> current.version + 1, layout |-> layout, of |-> asked]

----------------------------------------------------------------------------
(* The form *)

\* Another stack on the screen drops what was chosen for the former one.
EditForm ==
    /\ press = "idle" /\ stage = "draft"
    /\ form' \in Stacks \ {form} /\ choice' = NoLayout
    /\ UNCHANGED <<asked, press, stage, current, handed>>

\* onWorkOutPlacement stores the draft and asks for its options; one is then chosen, or
\* drawn.
WorkOut ==
    /\ press = "idle" /\ stage = "draft"
    /\ asked' = form
    /\ choice' \in Options(form) \cup {NoLayout}
                   \cup {Layout("custom", p) : p \in {q \in Proposals : Judged(form, q)}}
    /\ UNCHANGED <<form, press, stage, current, handed>>

\* The draft opened again, from another page or after the browser was closed: the layout
\* that is in force is put back, the hosts of one that was drawn are not.
Resume ==
    /\ stage = "draft"
    /\ form' = asked /\ press' = "idle"
    /\ choice' = IF current.layout.key = "custom" THEN Layout("custom", {}) ELSE current.layout
    /\ UNCHANGED <<asked, stage, current, handed>>

\* onSubmit's first call.
PressSubmit ==
    /\ press = "idle" /\ stage = "draft"
    /\ asked' = form /\ press' = "saved"
    /\ UNCHANGED <<form, choice, stage, current, handed>>

\* Its second call, left out when nothing was chosen.
PressResolves ==
    /\ press = "saved"
    /\ IF choice = NoLayout THEN press' = "placed" /\ UNCHANGED <<choice, current>>
       ELSE \/ /\ Resolvable(choice) /\ RecordLayout(choice)
               /\ press' = "placed" /\ UNCHANGED choice
            \/ press' = "idle" /\ choice' = NoLayout /\ UNCHANGED current
    /\ UNCHANGED <<asked, form, stage, handed>>

\* Its third: the submission is taken, or refused and left as a draft.
PressEnds ==
    /\ press = "placed" /\ press' = "idle"
    /\ \/ stage' = "submitted" /\ choice' = NoLayout
       \/ UNCHANGED <<stage, choice>>
    /\ UNCHANGED <<asked, form, current, handed>>

\* /api/placement/resolve answers at any status.
ResolveNow ==
    /\ \E layout \in Options(asked) \cup {Layout("custom", p) : p \in Proposals} :
          Resolvable(layout) /\ RecordLayout(layout)
    /\ UNCHANGED <<asked, form, choice, press, stage, handed>>

----------------------------------------------------------------------------
(* What is built *)

\* Mutant: a component without a requirement adds nothing to its machine.
SizedAnyway(h) == h.mode = "managed" \/ \E c \in h.carries : h.mode \in Facts[c].modes

\* size_hosts: a requirement is recorded for each component in each of its modes.
Sized(h) == h.mode = "managed" \/ \A c \in h.carries : h.mode \in Facts[c].modes

\* The kind of the first component a certified blueprint builds.
KindOf(h, certified) ==
    LET built == h.carries \cap certified
    IN  IF built = {} THEN "" ELSE Facts[CHOOSE c \in built : TRUE].kind

\* workspace_name: the host's id is added where another host is of the same kind.
Workspace(h, hosts, certified) ==
    LET kind == KindOf(h, certified)
    IN  IF \E g \in hosts \ {h} : KindOf(g, certified) = kind THEN <<kind, h.id>> ELSE <<kind>>

\* _components_for: a machine's first boot is given whatever in the request its kind builds.
Installs(h, certified) ==
    IF h.mode = "managed" THEN h.carries
    ELSE {c \in asked : Facts[c].kind = KindOf(h, certified)}

\* _refuse_unsized_hosts
Buildable(hosts, certified) ==
    \A h \in hosts : h.mode # "container" /\ Sized(h) /\ KindOf(h, certified) # ""

\* _placement_handoff and _work_units, whatever blueprints are certified by now; the
\* build then ends or fails, and a failed one is handed over again.  (What the Approve
\* button hands over carries no placement and is only planned: see SavedPlans.)
Handover ==
    /\ stage \in {"submitted", "failed"} /\ current # NoPlacement
    /\ \E certified \in SUBSET asked :
          LET hosts == current.layout.hosts
          IN  /\ Buildable(hosts, certified)
              /\ handed' = [of |-> current.of,
                            units |-> {[workspace |-> Workspace(h, hosts, certified),
                                        mode |-> h.mode, carries |-> h.carries,
                                        installs |-> Installs(h, certified)] : h \in hosts}]
    /\ stage' \in {"built", "failed"}
    /\ UNCHANGED <<asked, form, choice, press, current>>

PlacementNext ==
    \/ EditForm \/ WorkOut \/ Resume \/ PressSubmit \/ PressResolves \/ PressEnds
    \/ ResolveNow \/ Handover

PlacementSpec == PlacementInit /\ [][PlacementNext]_placementVars
----------------------------------------------------------------------------
\* What the orchestrator accepts gives each component of the stack that was placed one
\* machine or service, in a mode the catalogue records for it, and each of these a
\* Terraform state of its own: what the option builders leave open, the sizing and the
\* orchestrator's refusals must catch.
BuiltAsPlaced ==
    /\ \A u, v \in handed.units : u.workspace = v.workspace => u = v
    /\ \A u, v \in handed.units : u # v => u.carries \cap v.carries = {}
    /\ handed.units # {} => UNION {u.carries : u \in handed.units} = Placeable(handed.of)
    /\ \A u \in handed.units : \A c \in u.carries : u.mode \in Facts[c].modes

\* A machine is given the software of the components placed on it: each resource "must be
\* told to install only its own software" (orchestrator/main.py:1246).
InstalledAsPlaced == \A u \in handed.units : u.installs = u.carries
=============================================================================

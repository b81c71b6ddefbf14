------------------------------ MODULE Environment ------------------------------
(***************************************************************************)
(* One environment after it was built: the requests that act on it         *)
(* (decommission, restore, refresh, reduce, dns), the Destroy button, its   *)
(* time to live, and the Terraform workspaces the orchestrator finds on     *)
(* disk when it tears down.                                                *)
(*                                                                         *)
(* A worker (the poller's thread, or one that serves the Approve button)   *)
(* loads a request, calls the orchestrator with no lock held, and writes    *)
(* down what it was told; the call is repeated when its answer is lost.     *)
(* The orchestrator's handlers run one at a time, each as one step.         *)
(***************************************************************************)
EXTENDS Integers, FiniteSets

CONSTANTS Kinds,      \* resource kinds this environment was built from, one component each
          Shared,     \* those the approved layout put two machines on
          Columned,   \* those whose catalogue row names its kind, not the default
          Poller, Clicker,
          Tickets,
          Types,      \* what the tickets may ask for
          MaxFaults   \* bound on lost calls, restarts, failures and repeated clicks

ASSUME EnvironmentConstants ==
    /\ Shared \subseteq Kinds /\ Columned \subseteq Kinds /\ MaxFaults \in Nat
    /\ Types \subseteq {"decommission", "restore", "refresh", "reduce", "dns"}
    \* what a worker is at is a ticket, the sweep, the button or nothing
    /\ Tickets \cap {"ttl", "button", ""} = {}

VARIABLES certified,  \* kinds whose blueprint is certified now
          source,     \* Request.status of the environment
          rows,       \* its active ProvisionedResource rows, one per machine
          built,      \* workspaces with a terraform.tfstate: teardown leaves the file
          live,       \* workspaces something exists in
          ticket,
          work,       \* what each worker is doing
          ttl,        \* ProvisionedResource.ttl_expiry and Request.ttl_notified
          faults,
          restored,   \* history: database systems created for a ticket
          risen,       \* history: what /reduce and /dns created, the environment having none
          stray,      \* history: what a teardown removed and its ticket did not name
          forgotten,  \* history: kinds no blueprint certified when a teardown was claimed
          unheard     \* history: removed by a teardown that was not recorded

envVars == <<certified, source, rows, built, live, ticket, work, ttl, faults, restored,
             risen, stray, forgotten, unheard>>

Workers == {Poller, Clicker}
Bucket == "oci-bucket"
Named(k) == <<k, "">>
\* A placement with two machines of one kind names their workspaces after the hosts.
Workspaces == {Named(k) : k \in Kinds \ Shared} \cup (Shared \X {"a", "b"})
KindOf(w) == w[1]

IN_FLIGHT_STATUSES == {"submitted", "decommissioning"}
TicketState == {"draft", "submitted", "decommissioning", "done", "failed"}
Idle == [pc |-> "idle", op |-> "", kinds |-> {}, partial |-> FALSE, told |-> {}]

EnvTypeOK ==
    /\ certified \subseteq Kinds /\ source \in {"provisioned", "decommissioned"}
    /\ rows \subseteq Workspaces
    /\ live \subseteq built /\ built \subseteq Workspaces \cup {Named(k) : k \in Kinds}
    /\ ticket \in [Tickets -> [type : Types, parts : SUBSET Kinds, status : TicketState]]
    /\ work \in [Workers -> [pc : {"idle", "near", "over", "loaded", "post", "answered", "refused"},
                             op : Tickets \cup {"", "ttl", "button"},
                             kinds : SUBSET (Kinds \cup {Bucket}), partial : BOOLEAN,
                             told : SUBSET (built \cup {Named(k) : k \in Kinds \cup {Bucket}})]]
    /\ ttl \in [left : {"ample", "near", "over"}, notified : {"none", "expiring", "expired"}]
    /\ faults \in 0 .. MaxFaults /\ restored \in [Tickets -> 0 .. 2]
    /\ risen \subseteq built /\ stray \subseteq built /\ unheard \subseteq Workspaces
    /\ forgotten \subseteq Kinds

EnvInit ==
    /\ certified = Kinds /\ source = "provisioned"
    /\ rows = Workspaces /\ built = Workspaces /\ live = Workspaces
    \* a reduce names its components too, but nothing here depends on which
    /\ ticket \in [Tickets -> [type : Types \cap {"decommission"}, parts : SUBSET Kinds \ {{}},
                               status : {"draft"}]
                             \cup [type : Types \ {"decommission"}, parts : {Kinds},
                                   status : {"draft"}]]
    /\ work = [w \in Workers |-> Idle]
    /\ ttl = [left |-> "ample", notified |-> "none"]
    /\ faults = 0 /\ restored = [t \in Tickets |-> 0]
    /\ risen = {} /\ stray = {} /\ forgotten = {} /\ unheard = {}

History == <<restored, risen, stray, forgotten, unheard>>
Cloud == <<built, live>>

Fault == faults < MaxFaults /\ faults' = faults + 1

----------------------------------------------------------------------------
(* What a teardown names *)

\* _environment_resource_kinds: from the components, by what the catalogue certifies
\* now; when it certifies none of them, the legacy kind of the catalogue's column.
KindsOf(parts) ==
    IF parts \cap certified # {} THEN parts \cap certified
    ELSE LET column == parts \cap Columned
         IN  IF column = {} THEN {Bucket}
             ELSE IF "oci-postgres" \in column THEN {"oci-postgres"}
             ELSE IF "oci-instance" \in column THEN {"oci-instance"} ELSE {Bucket}

\* Mutant: a partial teardown sweeps what is on disk like a full one.
TargetsAll(kinds, partial) == built

\* A partial teardown removes what it names, a full one whatever is on disk.
Targets(kinds, partial) ==
    IF partial THEN {w \in built : \E k \in kinds : w = Named(k)} ELSE built

----------------------------------------------------------------------------
(* Submission and the catalogue *)

Overlap(t, o) ==
    ticket[t].type \notin {"decommission", "reduce"} \/ ticket[t].parts \cap ticket[o].parts # {}

\* validate_submission: the environment stands, what is to go is still recorded as
\* there, and no other request of the type is doing the same.
SubmitFollowOn(t) ==
    /\ ticket[t].status = "draft"
    /\ source = "provisioned"
    /\ ticket[t].type = "decommission" =>
         \A k \in ticket[t].parts : \E w \in rows : KindOf(w) = k
    /\ ticket[t].type # "dns" =>
         \A o \in Tickets \ {t} :
            ticket[o].type = ticket[t].type /\ ticket[o].status \in IN_FLIGHT_STATUSES
              => ~Overlap(t, o)
    /\ ticket' = [ticket EXCEPT ![t].status = "submitted"]
    /\ UNCHANGED <<certified, source, rows, built, live, work, ttl, faults, History>>

\* The certification sweep suspends a blueprint, or one returns to service.
CatalogueMoves(k) ==
    /\ Fault
    /\ certified' = IF k \in certified THEN certified \ {k} ELSE certified \cup {k}
    /\ UNCHANGED <<source, rows, built, live, ticket, work, ttl, History>>

----------------------------------------------------------------------------
(* A worker takes a ticket *)

\* The poller collects what is submitted; the button asks only that the request is
\* not "provisioned", which these never are.
TakeTicket(w, t) ==
    /\ work[w].pc = "idle"
    /\ IF w = Poller THEN ticket[t].status = "submitted" /\ UNCHANGED faults
       ELSE ticket[t].status # "draft" /\ Fault
    /\ work' = [work EXCEPT ![w] = [Idle EXCEPT !.pc = "loaded", !.op = t]]
    /\ UNCHANGED <<certified, source, rows, built, live, ticket, ttl, History>>

\* _decommission, to its claim: the kinds are derived and the request committed as
\* decommissioning before the call that blocks.
ClaimTeardown(w) ==
    LET t == work[w].op
        kinds == KindsOf(ticket[t].parts)
    IN  /\ work[w].pc = "loaded" /\ t \in Tickets /\ ticket[t].type = "decommission"
        /\ work' = [work EXCEPT ![w] = [@ EXCEPT !.pc = "post", !.kinds = kinds,
                                        !.partial = KindsOf(Kinds) \ kinds # {}]]
        /\ ticket' = [ticket EXCEPT ![t].status = "decommissioning"]
        /\ forgotten' = forgotten \cup (Kinds \ certified)
        /\ UNCHANGED <<certified, source, rows, built, live, ttl, faults, restored, risen,
                       stray, unheard>>

\* _restore, _refresh, _reduce, _dns commit nothing that keeps a second worker out.
\* The kind a reduce or dns names is the first certified one.
HandOver(w) ==
    LET t == work[w].op
    IN  /\ work[w].pc = "loaded" /\ t \in Tickets /\ ticket[t].type # "decommission"
        /\ \E k \in KindsOf(Kinds) :
              work' = [work EXCEPT ![w].pc = "post", ![w].kinds = {k}]
        /\ UNCHANGED <<certified, source, rows, built, live, ticket, ttl, faults, History>>

----------------------------------------------------------------------------
(* The orchestrator *)

Tears(op) == IF op \in Tickets THEN ticket[op].type = "decommission" ELSE TRUE
NamedBy(op) == IF op \in Tickets THEN ticket[op].parts ELSE Kinds

Told(w, status, told) == work' = [work EXCEPT ![w].pc = status, ![w].told = told]

\* Mutant: what failed half way is answered as done.
DestroyShrugs(w) ==
    LET targets == Targets(work[w].kinds, work[w].partial)
    IN  /\ work[w].pc = "post" /\ Tears(work[w].op)
        /\ \E done \in SUBSET targets :
              /\ done = targets \/ Fault
              /\ done = targets => UNCHANGED faults
              /\ Told(w, "answered", targets)
              /\ live' = live \ done
              /\ stray' = stray \cup {x \in done \cap live : KindOf(x) \notin NamedBy(work[w].op)}
              /\ unheard' = unheard \cup (done \cap Workspaces)
        /\ UNCHANGED <<certified, source, rows, built, ticket, ttl, restored, risen, forgotten>>

\* /destroy: one workspace after the other; the first that fails ends it, and what
\* was already torn down stays so.  The answer may be lost: the caller asks again.
Destroy(w) ==
    LET targets == Targets(work[w].kinds, work[w].partial)
    IN  /\ work[w].pc = "post" /\ Tears(work[w].op)
        /\ \E done \in SUBSET targets, heard \in BOOLEAN :
              /\ IF done = targets /\ heard THEN UNCHANGED faults ELSE Fault
              /\ IF ~heard THEN UNCHANGED work
                 ELSE IF done = targets THEN Told(w, "answered", targets)
                 ELSE Told(w, "refused", {})
              /\ live' = live \ done
              /\ stray' = stray \cup {x \in done \cap live : KindOf(x) \notin NamedBy(work[w].op)}
              /\ unheard' = unheard \cup (done \cap Workspaces)
        /\ UNCHANGED <<certified, source, rows, built, ticket, ttl, restored, risen, forgotten>>

\* /reduce and /dns plan and apply in the workspace named by the kind, whatever
\* became of the environment.  (/reduce refuses a bucket; that /dns would make one, where
\* the portal finds no kind for any component, is left out.)
Reapply(w) ==
    /\ work[w].pc = "post" /\ work[w].op \in Tickets
    /\ ticket[work[w].op].type \in {"reduce", "dns"}
    /\ \E heard \in BOOLEAN :
          /\ IF heard THEN Told(w, "answered", {}) /\ UNCHANGED faults
             ELSE UNCHANGED work /\ Fault
          /\ LET here == {Named(k) : k \in work[w].kinds \ {Bucket}}
             IN  /\ built' = built \cup here /\ live' = live \cup here
                 /\ risen' = risen \cup (here \ live)
    /\ UNCHANGED <<certified, source, rows, ticket, ttl, restored, stray, forgotten, unheard>>

\* /restore creates a database system from the backup; the idempotency key is not
\* looked at.
RestoreToNewSystem(w) ==
    /\ work[w].pc = "post" /\ work[w].op \in Tickets /\ ticket[work[w].op].type = "restore"
    /\ restored[work[w].op] < 2                                         \* bound
    /\ restored' = [restored EXCEPT ![work[w].op] = @ + 1]
    /\ \/ Told(w, "answered", {}) /\ UNCHANGED faults
       \/ UNCHANGED work /\ Fault
    /\ UNCHANGED <<certified, source, rows, built, live, ticket, ttl, risen, stray, forgotten,
                   unheard>>

\* /refresh copies nothing here: its live mode is refused.
RefreshAnswers(w) ==
    /\ work[w].pc = "post" /\ work[w].op \in Tickets /\ ticket[work[w].op].type = "refresh"
    /\ \E status \in {"answered", "refused"} : Told(w, status, {})
    /\ UNCHANGED <<certified, source, rows, built, live, ticket, ttl, faults, History>>

\* The orchestrator refuses, or cannot be reached often enough.
CallFails(w) ==
    /\ work[w].pc = "post" /\ Fault
    /\ Told(w, "refused", {})
    /\ UNCHANGED <<certified, source, rows, built, live, ticket, ttl, History>>

----------------------------------------------------------------------------
(* The worker writes down what it was told *)

\* The kinds the answer names or, when it names none, those that were asked for.
DestroyedKinds(w) == IF work[w].told # {} THEN work[w].told
                     ELSE {Named(k) : k \in work[w].kinds}
\* Mutant: from what was asked for.
RowsOfAsked(w) == {r \in rows : KindOf(r) \in work[w].kinds}

\* A row carries the kind; the answer, the names of workspaces.
RowsOf(w) == {r \in rows : Named(KindOf(r)) \in DestroyedKinds(w)}

RecordTeardown(w) ==
    LET t == work[w].op
    IN  /\ work[w].pc = "answered" /\ t \in Tickets /\ ticket[t].type = "decommission"
        /\ rows' = rows \ RowsOf(w)
        /\ source' = IF rows' = {} THEN "decommissioned" ELSE "provisioned"
        /\ ticket' = [ticket EXCEPT ![t].status = "done"]
        /\ work' = [work EXCEPT ![w] = Idle]
        /\ unheard' = unheard \ work[w].told
        /\ UNCHANGED <<certified, built, live, ttl, faults, restored, risen, stray, forgotten>>

\* The Destroy button and the TTL sweep tear everything down and mark every row.
RecordDestroyed(w) ==
    /\ work[w].pc = "answered" /\ work[w].op \in {"ttl", "button"}
    /\ rows' = {} /\ source' = "decommissioned"
    /\ work' = [work EXCEPT ![w] = Idle]
    /\ unheard' = {}
    /\ UNCHANGED <<certified, built, live, ticket, ttl, faults, restored, risen, stray, forgotten>>

RecordFollowOn(w) ==
    LET t == work[w].op
    IN  /\ work[w].pc = "answered" /\ t \in Tickets /\ ticket[t].type # "decommission"
        /\ ticket' = [ticket EXCEPT ![t].status = "done"]
        /\ work' = [work EXCEPT ![w] = Idle]
        /\ UNCHANGED <<certified, source, rows, built, live, ttl, faults, History>>

RecordFailure(w) ==
    /\ work[w].pc = "refused"
    /\ ticket' = [t \in Tickets |-> IF t = work[w].op THEN [ticket[t] EXCEPT !.status = "failed"]
                                    ELSE ticket[t]]
    /\ work' = [work EXCEPT ![w] = Idle]
    /\ UNCHANGED <<certified, source, rows, built, live, ttl, faults, History>>

\* The API restarts: its threads are gone, what they called goes on.
EnvCrash ==
    /\ Fault
    /\ work' = [w \in Workers |-> Idle]
    /\ UNCHANGED <<certified, source, rows, built, live, ticket, ttl, History>>

----------------------------------------------------------------------------
(* The Destroy button, and the time to live (TTL_ENFORCE) *)

PressDestroy ==
    /\ work[Clicker].pc = "idle" /\ Fault
    /\ work' = [work EXCEPT ![Clicker] = [Idle EXCEPT !.pc = "post", !.op = "button",
                                          !.kinds = KindsOf(Kinds)]]
    /\ UNCHANGED <<certified, source, rows, built, live, ticket, ttl, History>>

TtlShortens ==
    /\ ttl' = [ttl EXCEPT !.left = IF @ = "ample" THEN "near" ELSE "over"]
    /\ ttl # ttl'
    /\ UNCHANGED <<certified, source, rows, built, live, ticket, work, faults, History>>

\* renew_request: while a row is active; the flag is cleared so that it warns again.
Renew ==
    /\ rows # {} /\ Fault
    /\ ttl' = [left |-> "ample", notified |-> "none"]
    /\ UNCHANGED <<certified, source, rows, built, live, ticket, work, History>>

\* _sweep_ttls reads every expiry first, and comes to this environment after the
\* others' teardowns.
TtlRead ==
    /\ work[Poller].pc = "idle" /\ rows # {} /\ ttl.left # "ample"
    /\ work' = [work EXCEPT ![Poller] = [Idle EXCEPT !.pc = ttl.left, !.op = "ttl"]]
    /\ UNCHANGED <<certified, source, rows, built, live, ticket, ttl, faults, History>>

TtlSkips ==
    /\ work[Poller].pc \in {"near", "over"} /\ source # "provisioned"
    /\ work' = [work EXCEPT ![Poller] = Idle]
    /\ UNCHANGED <<certified, source, rows, built, live, ticket, ttl, faults, History>>

TtlWarns ==
    /\ work[Poller].pc = "near" /\ source = "provisioned"
    /\ ttl' = [ttl EXCEPT !.notified = IF @ = "none" THEN "expiring" ELSE @]
    /\ work' = [work EXCEPT ![Poller] = Idle]
    /\ UNCHANGED <<certified, source, rows, built, live, ticket, faults, History>>

\* Mutant: an environment already told that it expired is left to its owner.
TtlExpiresOnce ==
    /\ work[Poller].pc = "over" /\ source = "provisioned"
    /\ ttl' = [ttl EXCEPT !.notified = "expired"]
    /\ work' = [work EXCEPT ![Poller] =
          IF ttl.notified = "expired" THEN Idle
          ELSE [@ EXCEPT !.pc = "post", !.kinds = KindsOf(Kinds)]]
    /\ UNCHANGED <<certified, source, rows, built, live, ticket, faults, History>>

TtlExpires ==
    /\ work[Poller].pc = "over" /\ source = "provisioned"
    /\ ttl' = [ttl EXCEPT !.notified = "expired"]
    /\ work' = [work EXCEPT ![Poller] = [@ EXCEPT !.pc = "post", !.kinds = KindsOf(Kinds)]]
    /\ UNCHANGED <<certified, source, rows, built, live, ticket, faults, History>>

Work(w) ==
    \/ ClaimTeardown(w) \/ HandOver(w) \/ Destroy(w) \/ Reapply(w) \/ RestoreToNewSystem(w)
    \/ RefreshAnswers(w) \/ RecordTeardown(w) \/ RecordDestroyed(w) \/ RecordFollowOn(w)
    \/ RecordFailure(w)

Sweeping ==
    \/ TtlRead \/ TtlSkips \/ TtlWarns \/ TtlExpires
    \/ \E t \in Tickets : TakeTicket(Poller, t)

EnvNext ==
    \/ PressDestroy \/ TtlShortens \/ Renew \/ EnvCrash \/ Sweeping
    \/ \E k \in Kinds : CatalogueMoves(k)
    \/ \E t \in Tickets : SubmitFollowOn(t) \/ TakeTicket(Clicker, t)
    \/ \E w \in Workers : Work(w) \/ CallFails(w)

\* The poller's thread sweeps for ever, and a worker that took a request goes on.
EnvSpec ==
    /\ EnvInit /\ [][EnvNext]_envVars
    /\ WF_envVars(Sweeping) /\ WF_envVars(Work(Poller)) /\ WF_envVars(Work(Clicker))
----------------------------------------------------------------------------
\* No teardown hides live infrastructure (api/main.py:6959): whatever is live without an
\* active row was put there by a /reduce or /dns that ran when it was no longer there.
HidesNothing == \A w \in live : w \in rows \/ w \in risen

\* A machine shown as running is there, unless the teardown that removed it failed
\* half way or its record was lost.
ShownIsThere == rows \subseteq live \cup unheard

\* Neither way does the record part from the cloud, but as those two say.
RecordMatchesCloud == HidesNothing /\ ShownIsThere

\* Nothing is torn down that nobody named, but what the catalogue had forgotten when a
\* teardown was claimed.
StraysWereForgotten == \A w \in stray : KindOf(w) \in forgotten

\* With enforcement on, an environment past its time to live is torn down or renewed,
\* whatever failed on the way.
TtlReclaims ==
    ttl.left = "over" /\ source = "provisioned"
       ~> ttl.left # "over" \/ source = "decommissioned"

\* A decommission removes what it names (api/main.py:6907, orchestrator/main.py:2083).
NamedOnly == stray = {}
=============================================================================

------------------------------ MODULE MCKeeping ------------------------------
(* What becomes of an environment after it was built, for TLC: follow-on requests   *)
(* and the time to live, shutdown out of hours, and the audit feed, side by side.   *)
(* In a behaviour one of them moves and the others rest, so their states add and    *)
(* do not multiply.                                                                 *)
EXTENDS Environment, AutoShutdown, AuditFeed

V == INSTANCE Validation

\* The follow-on requests of an environment that rests are drafts of DNS changes.
ASSUME KeepingConstants == "dns" \in Types

VARIABLE part

keepingVars == <<part, envVars, powerVars, feedVars>>

EnvRests ==
    /\ certified = Kinds /\ source = "provisioned"
    /\ rows = Workspaces /\ built = Workspaces /\ live = Workspaces
    /\ ticket = [t \in Tickets |-> [type |-> "dns", parts |-> Kinds, status |-> "draft"]]
    /\ work = [w \in Workers |-> Idle]
    /\ ttl = [left |-> "ample", notified |-> "none"]
    /\ faults = 0 /\ restored = [t \in Tickets |-> 0]
    /\ risen = {} /\ stray = {} /\ forgotten = {} /\ unheard = {}

KeepingInit ==
    \/ part = "environment" /\ EnvInit /\ PowerInit /\ FeedInit
    \/ part \in {"power", "feed"} /\ EnvRests /\ PowerInit /\ FeedInit

InEnv == part = "environment" /\ UNCHANGED <<part, powerVars, feedVars>>
InPower == part = "power" /\ UNCHANGED <<part, envVars, feedVars>>
InFeed == part = "feed" /\ UNCHANGED <<part, envVars, powerVars>>

\* The next-state relations of the three, action by action.
KeepingNext ==
    \/ InEnv /\ PressDestroy
    \/ InEnv /\ TtlShortens
    \/ InEnv /\ Renew
    \/ InEnv /\ EnvCrash
    \/ InEnv /\ TtlRead
    \/ InEnv /\ TtlSkips
    \/ InEnv /\ TtlWarns
    \/ InEnv /\ TtlExpires
    \/ \E k \in Kinds : InEnv /\ CatalogueMoves(k)
    \/ \E t \in Tickets : InEnv /\ SubmitFollowOn(t)
    \/ \E w \in Workers, t \in Tickets : InEnv /\ TakeTicket(w, t)
    \/ \E w \in Workers : InEnv /\ ClaimTeardown(w)
    \/ \E w \in Workers : InEnv /\ HandOver(w)
    \/ \E w \in Workers : InEnv /\ Destroy(w)
    \/ \E w \in Workers : InEnv /\ Reapply(w)
    \/ \E w \in Workers : InEnv /\ RestoreToNewSystem(w)
    \/ \E w \in Workers : InEnv /\ RefreshAnswers(w)
    \/ \E w \in Workers : InEnv /\ RecordTeardown(w)
    \/ \E w \in Workers : InEnv /\ RecordDestroyed(w)
    \/ \E w \in Workers : InEnv /\ RecordFollowOn(w)
    \/ \E w \in Workers : InEnv /\ RecordFailure(w)
    \/ \E w \in Workers : InEnv /\ CallFails(w)
    \/ InPower /\ HoursChange
    \/ InPower /\ SweepLoads
    \/ InPower /\ SweepDecides
    \/ InPower /\ SweepActuates
    \/ InPower /\ SweepCommits
    \/ \E action \in {"stop", "start"} : InPower /\ Press(action)
    \/ InPower /\ PressActuates
    \/ InPower /\ PressCommits
    \/ InPower /\ PowerCrash
    \/ InFeed /\ HooksSweep
    \/ InFeed /\ HooksCommit
    \/ InFeed /\ HooksCrash
    \/ \E w \in Writers, lifecycle \in Lifecycle : InFeed /\ AppendAudit(w, lifecycle)
    \/ \E w \in Writers : InFeed /\ FlushTxn(w)
    \/ \E w \in Writers : InFeed /\ CommitTxn(w)
    \/ \E w \in Writers : InFeed /\ RollbackTxn(w)

\* The fairness of the three: the poller sweeps for ever, a worker goes on.
KeepingSpec ==
    /\ KeepingInit /\ [][KeepingNext]_keepingVars
    /\ WF_keepingVars(InEnv /\ Sweeping)
    /\ WF_keepingVars(InEnv /\ Work(Poller)) /\ WF_keepingVars(InEnv /\ Work(Clicker))
    /\ WF_keepingVars(InPower /\ Shutdowns)
    /\ WF_keepingVars(InFeed /\ (HooksSweep \/ HooksCommit))

\* What the variables of the three parts hold.
KeepingTypeOK == EnvTypeOK /\ PowerTypeOK /\ FeedTypeOK

----------------------------------------------------------------------------
(* Validation, over small databases: one or two environments with nginx and a       *)
(* database, and a request that acts on one of them.                                *)

StackOf(size) == [nginx |-> [kind |-> "oci-service-vm", size |-> size],
                  pg    |-> [kind |-> "", size |-> size]]
Sources ==
    [status : {"provisioned", "submitted", "decommissioned"}, tier : {"UAT", "Production"},
     active : {{}, {"oci-service-vm"}, {"oci-postgres"}}, recorded : BOOLEAN,
     stack : {StackOf("medium")}, source : {""}, type : {"create"}]
Others ==
    [status : {"provisioned", "submitted"}, tier : {"UAT"}, active : {{}}, recorded : {TRUE},
     stack : {StackOf("medium")}, source : {"e1", ""}, type : {"refresh", "reduce", "decommission"}]
Databases == {[requests |-> [e1 |-> one, e2 |-> other], backups |-> [b1 |-> "e1"]] :
                 one \in Sources, other \in Others}
Asked == [type : V!SOURCE_ACTING, reference : {"new"}, source : {"e1", ""}, from : {"e2", "e1"},
          backup : {"b1", "b2"}, tier : {""},
          components : {{}, {[technology |-> "nginx", size |-> "small"]},
                        {[technology |-> "pg", size |-> "large"]}}]
Allowed == [cost_centre_code |-> {"cc"}]

\* What is accepted acts on an environment that is there: one that is provisioned, or of
\* which something that is named still runs; and nothing else is doing the same to it.
ASSUME ActsOnWhatIsThere ==
    \A db \in Databases, data \in Asked :
        V!Accepted(data, db, Allowed) =>
            LET r == db.requests[data.source]
            IN  /\ r.status = "provisioned" \/ (data.type = "decommission" /\ r.active # {})
                /\ data.type = "reduce" => \A c \in data.components : c.size = "small"
                /\ \A ref \in DOMAIN db.requests :
                      LET other == db.requests[ref]
                      IN  other.source = data.source /\ other.status = "submitted"
                            => other.type # data.type

\* A refresh into a lower tier is accepted, one from a lower tier is not; but production
\* counts as lowest.
ASSUME RefreshGoesDown ==
    LET Tiered(tier) == [status |-> "provisioned", tier |-> tier]
        Refresh(from, into) ==
            V!RefreshErrors([source |-> "into", from |-> "from"],
                            [requests |-> [into |-> Tiered(into), from |-> Tiered(from)]])
    IN  /\ Refresh("UAT", "Test") = {} /\ Refresh("Test", "UAT") # {}
        /\ Refresh("Production", "UAT") # {} /\ Refresh("Development", "Pre-Test") = {}
=============================================================================

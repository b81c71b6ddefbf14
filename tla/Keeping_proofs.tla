---------------------------- MODULE Keeping_proofs ----------------------------
(***************************************************************************)
(* What is proved of an environment after it was built: of the shutdown    *)
(* out of hours (AutoShutdown), of the requests that tear it down or       *)
(* change it (Environment), and of both with the audit feed (MCKeeping),    *)
(* which TLC checks: a behaviour of the three is one of each, so that what  *)
(* was proved of each holds of all of them together.                       *)
(***************************************************************************)
EXTENDS MCKeeping, AuditFeed_proofs, TLAPS

(***************************************************************************)
(* Shutdown out of hours                                                   *)
(***************************************************************************)

\* What a person and the sweep know of each other as long as they did not overlap: the
\* one that works has the flag as it is, a person stops only what is not all stopped,
\* and an environment on record as stopped by the sweep was stopped by it.
Apart ==
    ~mixed =>
        /\ presser.pc # "idle" =>
              /\ sweeper.pc = "idle" /\ presser.auto = auto
              /\ presser.action = "stop" => ~All("stopped")
        /\ sweeper.pc # "idle" => sweeper.auto = auto
        /\ sweeper.pc = "called" /\ sweeper.action = "stop" => stopper = "sweep"
        /\ auto /\ All("stopped") => stopper = "sweep"

PowerInv == PowerTypeOK /\ Apart

LEMMA RestingIsASession == Resting \in Session /\ Resting.pc = "idle"
BY DEF Resting, Session, PowerState

LEMMA MishapType ==
    ASSUME PowerTypeOK, Mishap
    PROVE  mishaps' \in 0 .. MaxMishaps
BY AutoShutdownConstants DEF PowerTypeOK, Mishap

LEMMA WrittenPowerType ==
    ASSUME PowerTypeOK, NEW s \in Session
    PROVE  WrittenPower(s) \in [Machines -> PowerState]
BY DEF PowerTypeOK, WrittenPower, Target, PowerState

LEMMA ActuatedType ==
    ASSUME PowerTypeOK, NEW action, NEW done \in SUBSET Machines
    PROVE  Actuated(action, done) \subseteq Machines
BY DEF PowerTypeOK, Actuated

LEMMA PowerInvInit == PowerInit => PowerInv
<1> SUFFICES ASSUME PowerInit
             PROVE  PowerInv
  OBVIOUS
<1>1. 0 \in 0 .. MaxMishaps
  BY AutoShutdownConstants
<1>2. PowerTypeOK
  BY <1>1, RestingIsASession DEF PowerInit, PowerTypeOK, PowerState
<1>3. Apart
  BY RestingIsASession DEF PowerInit, Apart
<1> QED BY <1>2, <1>3 DEF PowerInv

LEMMA HoursChangeStep ==
    ASSUME PowerInv, HoursChange
    PROVE  PowerInv'
BY DEF PowerInv, PowerTypeOK, Apart, HoursChange, Registry, All

LEMMA SweepLoadsStep ==
    ASSUME PowerInv, SweepLoads
    PROVE  PowerInv'
<1>1. /\ sweeper' \in Session
      /\ sweeper'.pc = "loaded" /\ sweeper'.auto = auto
  BY DEF PowerInv, PowerTypeOK, SweepLoads, Resting, Session, PowerState
<1>2. PowerTypeOK'
  BY <1>1 DEF PowerInv, PowerTypeOK, SweepLoads, Registry
<1>3. Apart'
  BY <1>1 DEF PowerInv, Apart, SweepLoads, Registry, All
<1> QED BY <1>2, <1>3 DEF PowerInv

LEMMA SweepDecidesStep ==
    ASSUME PowerInv, SweepDecides
    PROVE  PowerInv'
<1>1. /\ sweeper' \in Session
      /\ \/ sweeper'.pc = "calling" /\ sweeper'.auto = sweeper.auto
         \/ sweeper'.pc = "idle"
  BY RestingIsASession DEF PowerInv, PowerTypeOK, SweepDecides, Session, PowerState
<1>2. PowerTypeOK'
  BY <1>1 DEF PowerInv, PowerTypeOK, SweepDecides, Registry
<1>3. Apart'
  BY <1>1 DEF PowerInv, Apart, SweepDecides, Registry, All
<1> QED BY <1>2, <1>3 DEF PowerInv

LEMMA SweepActuatesStep ==
    ASSUME PowerInv, SweepActuates
    PROVE  PowerInv'
<1>1. PICK done \in SUBSET Machines, heard \in BOOLEAN :
         /\ running' = Actuated(sweeper.action, done)
         /\ IF heard THEN sweeper' = [sweeper EXCEPT !.pc = "called"] /\ UNCHANGED mishaps
            ELSE sweeper' = Resting /\ Mishap
  BY DEF SweepActuates
<1>2. /\ sweeper' \in Session
      /\ \/ /\ sweeper'.pc = "called" /\ sweeper'.auto = sweeper.auto
            /\ sweeper'.action = sweeper.action
         \/ sweeper'.pc = "idle"
  BY <1>1, RestingIsASession DEF PowerInv, PowerTypeOK, Session
<1>3. mishaps' \in 0 .. MaxMishaps
  BY <1>1, MishapType DEF PowerInv, PowerTypeOK
<1>4. running' \subseteq Machines
  BY <1>1, ActuatedType DEF PowerInv
<1>5. PowerTypeOK'
  BY <1>2, <1>3, <1>4 DEF PowerInv, PowerTypeOK, SweepActuates, Registry
<1>6. Apart'
  BY <1>2 DEF PowerInv, Apart, SweepActuates, Registry, All
<1> QED BY <1>5, <1>6 DEF PowerInv

LEMMA SweepCommitsStep ==
    ASSUME PowerInv, SweepCommits
    PROVE  PowerInv'
<1>1. PowerTypeOK'
  <2>1. power' \in [Machines -> PowerState] /\ auto' \in BOOLEAN /\ sweeper' \in Session
    BY WrittenPowerType, RestingIsASession
       DEF PowerInv, PowerTypeOK, SweepCommits, WrittenFlag
  <2> QED BY <2>1 DEF PowerInv, PowerTypeOK, SweepCommits
<1>2. ~mixed => /\ presser.pc = "idle"
                /\ auto' => stopper = "sweep"
  BY DEF PowerInv, PowerTypeOK, Session, Apart, SweepCommits, WrittenFlag
<1>3. Apart'
  BY <1>2, RestingIsASession DEF Apart, SweepCommits
<1> QED BY <1>1, <1>3 DEF PowerInv

LEMMA PressStep ==
    ASSUME PowerInv, NEW action \in {"stop", "start"}, Press(action)
    PROVE  PowerInv'
<1>1. /\ presser' \in Session
      /\ presser'.pc = "calling" /\ presser'.auto = auto /\ presser'.action = action
  BY DEF PowerInv, PowerTypeOK, Press, Session
<1>2. PowerTypeOK'
  BY <1>1, MishapType DEF PowerInv, PowerTypeOK, Press, Registry
<1>3. action = "stop" => ~All("stopped")
  BY DEF Press, Target
<1>4. Apart'
  BY <1>1, <1>3 DEF PowerInv, Apart, Press, Registry, All
<1> QED BY <1>2, <1>4 DEF PowerInv

LEMMA PressActuatesStep ==
    ASSUME PowerInv, PressActuates
    PROVE  PowerInv'
<1>1. PICK done \in SUBSET Machines, heard \in BOOLEAN :
         /\ running' = Actuated(presser.action, done)
         /\ presser' = IF heard THEN [presser EXCEPT !.pc = "called"] ELSE Resting
  BY DEF PressActuates
<1>2. /\ presser' \in Session
      /\ \/ /\ presser'.pc = "called" /\ presser'.auto = presser.auto
            /\ presser'.action = presser.action
         \/ presser'.pc = "idle"
  BY <1>1, RestingIsASession DEF PowerInv, PowerTypeOK, Session
<1>3. running' \subseteq Machines
  BY <1>1, ActuatedType DEF PowerInv
<1>4. PowerTypeOK'
  BY <1>2, <1>3 DEF PowerInv, PowerTypeOK, PressActuates, Registry
<1>5. Apart'
  BY <1>2 DEF PowerInv, PowerTypeOK, Session, Apart, PressActuates, Registry, All
<1> QED BY <1>4, <1>5 DEF PowerInv

LEMMA PressCommitsStep ==
    ASSUME PowerInv, PressCommits
    PROVE  PowerInv'
<1>1. PowerTypeOK'
  <2>1. power' \in [Machines -> PowerState] /\ auto' \in BOOLEAN /\ presser' \in Session
    BY WrittenPowerType, RestingIsASession
       DEF PowerInv, PowerTypeOK, PressCommits, WrittenFlag
  <2> QED BY <2>1 DEF PowerInv, PowerTypeOK, PressCommits
<1>2. ~mixed => sweeper.pc = "idle" /\ ~auto'
  BY DEF PowerInv, PowerTypeOK, Session, Apart, PressCommits, WrittenFlag
<1>3. Apart'
  BY <1>2, RestingIsASession DEF Apart, PressCommits
<1> QED BY <1>1, <1>3 DEF PowerInv

LEMMA PowerCrashStep ==
    ASSUME PowerInv, PowerCrash
    PROVE  PowerInv'
<1>1. PowerTypeOK'
  BY MishapType, RestingIsASession DEF PowerInv, PowerTypeOK, PowerCrash, Registry
<1>2. Apart'
  BY RestingIsASession DEF PowerInv, Apart, PowerCrash, Registry, All
<1> QED BY <1>1, <1>2 DEF PowerInv

LEMMA PowerInvStep == PowerInv /\ [PowerNext]_powerVars => PowerInv'
<1> SUFFICES ASSUME PowerInv, [PowerNext]_powerVars
             PROVE  PowerInv'
  OBVIOUS
<1>1. CASE Shutdowns
  BY <1>1, SweepLoadsStep, SweepDecidesStep, SweepActuatesStep, SweepCommitsStep DEF Shutdowns
<1>2. CASE HoursChange \/ PressActuates \/ PressCommits \/ PowerCrash
  BY <1>2, HoursChangeStep, PressActuatesStep, PressCommitsStep, PowerCrashStep
<1>3. ASSUME NEW action \in {"stop", "start"}, Press(action)
      PROVE  PowerInv'
  BY <1>3, PressStep
<1>4. CASE UNCHANGED powerVars
  BY <1>4 DEF powerVars, PowerInv, PowerTypeOK, Apart, All
<1> QED BY <1>1, <1>2, <1>3, <1>4 DEF PowerNext

LEMMA PowerInvariant == PowerSpec => []PowerInv
BY PowerInvInit, PowerInvStep, PTL DEF PowerSpec

\* What the sessions of the sweep and of the button load, and the flags and power states
\* they write back, stay what the columns hold, through failed calls and restarts.
THEOREM PowerTypeCorrect == PowerSpec => []PowerTypeOK
<1>1. PowerInv => PowerTypeOK
  BY DEF PowerInv
<1> QED BY <1>1, PowerInvariant, PTL

\* The sweep starts only what a sweep stopped (_sweep_shutdowns, actuate_request): with
\* any machines and any number of failed calls, presses and restarts, an environment a
\* person stopped last is not started, unless the two worked on it at the same time.
THEOREM OnlyItsOwnStarts == PowerSpec => StartsWhatItStopped
<1>1. PowerInv /\ [PowerNext]_powerVars =>
         [sweeper.pc = "loaded" /\ sweeper'.pc = "calling" /\ sweeper'.action = "start"
             => stopper = "sweep" \/ mixed]_powerVars
  <2> SUFFICES ASSUME PowerInv, PowerNext,
                      sweeper.pc = "loaded", sweeper'.pc = "calling",
                      sweeper'.action = "start", ~mixed
               PROVE  stopper = "sweep"
    OBVIOUS
  <2>1. SweepDecides
    <3>1. sweeper' # sweeper /\ sweeper' # Resting
      BY RestingIsASession
    <3> QED BY <3>1 DEF PowerNext, Shutdowns, HoursChange, SweepLoads, SweepActuates,
                        SweepCommits, Press, PressActuates, PressCommits, PowerCrash
  <2>2. DueNow("start")
    <3>1. PICK action \in {"stop", "start"} :
             /\ DueNow(action)
             /\ sweeper' = [sweeper EXCEPT !.pc = "calling", !.action = action, !.seen = power]
      BY <2>1, RestingIsASession DEF SweepDecides
    <3>2. sweeper'.action = action
      BY <3>1 DEF PowerInv, PowerTypeOK, Session
    <3> QED BY <3>1, <3>2
  <2> QED BY <2>2 DEF PowerInv, PowerTypeOK, Session, Apart, DueNow
<1> QED BY <1>1, PowerInvariant, PTL DEF PowerSpec, StartsWhatItStopped

(***************************************************************************)
(* Teardowns and the other requests on an environment                      *)
(***************************************************************************)

\* What a worker's record may be.
Doing ==
    [pc : {"idle", "near", "over", "loaded", "post", "answered", "refused"},
     op : Tickets \cup {"", "ttl", "button"},
     kinds : SUBSET (Kinds \cup {Bucket}), partial : BOOLEAN,
     told : SUBSET (built \cup {Named(k) : k \in Kinds \cup {Bucket}})]

\* The sweep and the button tear everything down; the sweep that found an expiry does.
Whole(w) ==
    /\ work[w].op \in {"ttl", "button"} => ~work[w].partial
    /\ work[w].pc \in {"near", "over"} => work[w].op = "ttl"

\* What a teardown is about to remove was named, or the catalogue had forgotten it when
\* the teardown was claimed; or it is a bucket, which the derivation falls back to.
Aimed(w) ==
    work[w].pc \in {"post", "answered"} /\ Tears(work[w].op) =>
        /\ work[w].partial =>
             \A k \in work[w].kinds \cap Kinds : k \in NamedBy(work[w].op) \cup {Bucket}
        /\ ~work[w].partial =>
             \A k \in Kinds : k \in NamedBy(work[w].op) \cup forgotten \cup {Bucket}

\* What a teardown that was answered says it removed is gone, unless it rose again.
Answered(w) ==
    work[w].pc = "answered" /\ Tears(work[w].op) =>
        /\ work[w].told \cap live \subseteq risen
        /\ work[w].partial => \A k \in work[w].kinds : Named(k) \in Workspaces => Named(k) \in work[w].told
        /\ ~work[w].partial => Workspaces \subseteq work[w].told /\ live \subseteq risen

\* The record and the cloud agree on every kind the layout has one machine of.
RecordAgrees ==
    /\ \A x \in live : x \in rows \/ x \in risen \/ KindOf(x) \in Shared
    /\ \A x \in rows : x \in live \/ x \in unheard \/ KindOf(x) \in Shared

StraysExplained == \A x \in stray : KindOf(x) \in forgotten \cup {Bucket}

WorkersInv == \A w \in Workers : Whole(w) /\ Aimed(w) /\ Answered(w)

EnvInv == EnvTypeOK /\ Workspaces \subseteq built /\ WorkersInv /\ RecordAgrees /\ StraysExplained

----------------------------------------------------------------------------
(* What the actions are built from *)

LEMMA IdleIsDoing ==
    /\ Idle \in Doing /\ Idle.pc = "idle" /\ Idle.op = "" /\ ~Idle.partial /\ Idle.kinds = {}
    /\ Idle.told = {}
BY DEF Idle, Doing

LEMMA FaultType ==
    ASSUME EnvTypeOK, Fault \/ UNCHANGED faults
    PROVE  faults' \in 0 .. MaxFaults
<1>1. faults \in 0 .. MaxFaults /\ MaxFaults \in Nat
  BY EnvironmentConstants DEF EnvTypeOK
<1> QED BY <1>1 DEF Fault

\* The requests stay what they ask for.
SameAsks ==
    \A t \in Tickets : ticket'[t].type = ticket[t].type /\ ticket'[t].parts = ticket[t].parts

TicketsType == ticket \in [Tickets -> [type : Types, parts : SUBSET Kinds, status : TicketState]]

LEMMA StatusMoves ==
    ASSUME EnvTypeOK, NEW t \in Tickets, NEW s \in TicketState,
           ticket' = [ticket EXCEPT ![t].status = s]
    PROVE  TicketsType' /\ SameAsks
<1> DEFINE Asks == [type : Types, parts : SUBSET Kinds, status : TicketState]
           moved == [ticket[t] EXCEPT !.status = s]
<1>1. ticket \in [Tickets -> Asks]
  BY DEF EnvTypeOK
<1>2. ticket[t] \in Asks
  BY <1>1
<1>3. moved \in Asks /\ moved.type = ticket[t].type /\ moved.parts = ticket[t].parts
  BY <1>2
<1>4. ticket' = [ticket EXCEPT ![t] = moved]
  OBVIOUS
<1> HIDE DEF Asks, moved
<1>5. ticket' \in [Tickets -> Asks]
  BY <1>1, <1>3, <1>4
<1>6. \A q \in Tickets : ticket'[q] = IF q = t THEN moved ELSE ticket[q]
  BY <1>1, <1>4
<1>7. SameAsks
  BY <1>3, <1>6 DEF SameAsks
<1> QED BY <1>5, <1>7 DEF TicketsType, Asks

\* _environment_resource_kinds names what the components name, or the default; when a
\* teardown leaves nothing of the environment, what it does not name is not certified.
LEMMA DerivedKinds ==
    ASSUME NEW parts \in SUBSET Kinds
    PROVE  /\ KindsOf(parts) \subseteq parts \cup {Bucket}
           /\ KindsOf(Kinds) \ KindsOf(parts) = {} =>
                 \A k \in Kinds : k \in parts \cup (Kinds \ certified) \cup {Bucket}
<1>1. ASSUME NEW some \in SUBSET Kinds
      PROVE  KindsOf(some) \subseteq some \cup {Bucket}
  BY DEF KindsOf
<1>2. ASSUME KindsOf(Kinds) \ KindsOf(parts) = {}, NEW k \in Kinds \cap certified
      PROVE  k \in parts \cup {Bucket}
  <2>1. k \in KindsOf(Kinds)
    BY DEF KindsOf
  <2> QED BY <1>1, <1>2, <2>1
<1> QED BY <1>1, <1>2

\* A workspace of a kind with one machine is named by its kind.
LEMMA NamedByKind ==
    /\ \A k : KindOf(Named(k)) = k
    /\ \A x \in Workspaces : KindOf(x) \in Kinds
    /\ \A x \in Workspaces : KindOf(x) \notin Shared => x = Named(KindOf(x))
<1>1. \A k : KindOf(Named(k)) = k
  BY DEF KindOf, Named
<1>2. ASSUME NEW x \in Workspaces
      PROVE  KindOf(x) \in Kinds /\ (KindOf(x) \notin Shared => x = Named(KindOf(x)))
  <2>1. CASE x \in {Named(k) : k \in Kinds \ Shared}
    BY <1>1, <2>1
  <2>2. CASE x \in Shared \X {"a", "b"}
    BY <2>2, EnvironmentConstants DEF KindOf
  <2> QED BY <2>1, <2>2 DEF Workspaces
<1> QED BY <1>1, <1>2

LEMMA TargetsBuilt ==
    ASSUME NEW kinds, NEW partial \in BOOLEAN
    PROVE  Targets(kinds, partial) \subseteq built
BY DEF Targets

\* What a step that leaves the cloud and the record alone keeps of a worker it does not
\* touch.
LEMMA WorkerRests ==
    ASSUME NEW w \in Workers, Whole(w), Aimed(w), Answered(w), SameAsks,
           work'[w] = work[w], forgotten \subseteq forgotten',
           risen \subseteq risen', live' \subseteq live \cup risen'
    PROVE  Whole(w)' /\ Aimed(w)' /\ Answered(w)'
<1>1. (Tears(work[w].op))' = Tears(work[w].op) /\ (NamedBy(work[w].op))' = NamedBy(work[w].op)
  BY DEF SameAsks, Tears, NamedBy
<1> QED BY <1>1 DEF Whole, Aimed, Answered

\* A worker that is not at a teardown promises nothing.
LEMMA NotTearing ==
    ASSUME NEW w \in Workers,
           \/ work'[w].pc \notin {"post", "answered"} /\ (Whole(w))'
           \/ /\ work'[w].op \in Tickets /\ ticket'[work'[w].op].type # "decommission"
              /\ work'[w].pc \notin {"near", "over"}
    PROVE  Whole(w)' /\ Aimed(w)' /\ Answered(w)'
BY EnvironmentConstants DEF Whole, Aimed, Answered, Tears

\* One worker's record changes.
LEMMA WorkerMoves ==
    ASSUME EnvTypeOK, NEW w \in Workers, NEW r \in Doing, work' = [work EXCEPT ![w] = r],
           UNCHANGED built
    PROVE  /\ work' \in [Workers -> Doing'] /\ work'[w] = r
           /\ \A v \in Workers : v # w => work'[v] = work[v]
BY DEF EnvTypeOK, Doing

\* A step that writes down nothing of the cloud: the requests and the workers may move.
LEMMA PaperStep ==
    ASSUME EnvInv, EnvTypeOK', SameAsks, forgotten \subseteq forgotten',
           UNCHANGED <<rows, built, live, risen, stray, unheard>>,
           \A w \in Workers : work'[w] = work[w] \/ (Whole(w)' /\ Aimed(w)' /\ Answered(w)')
    PROVE  EnvInv'
<1>1. WorkersInv'
  BY WorkerRests DEF EnvInv, WorkersInv
<1>2. RecordAgrees' /\ StraysExplained'
  BY DEF EnvInv, RecordAgrees, StraysExplained
<1> QED BY <1>1, <1>2 DEF EnvInv

LEMMA AsksUnchanged == UNCHANGED ticket => SameAsks
BY DEF SameAsks

----------------------------------------------------------------------------
(* The requests and the clock *)

LEMMA SubmitStep ==
    ASSUME EnvInv, NEW t \in Tickets, SubmitFollowOn(t)
    PROVE  EnvInv'
<1>1. TicketsType' /\ SameAsks
  BY StatusMoves DEF EnvInv, SubmitFollowOn, TicketState
<1>2. EnvTypeOK'
  BY <1>1 DEF EnvInv, EnvTypeOK, TicketsType, SubmitFollowOn, History
<1> QED BY <1>1, <1>2, PaperStep DEF SubmitFollowOn, History

LEMMA CatalogueStep ==
    ASSUME EnvInv, NEW k \in Kinds, CatalogueMoves(k)
    PROVE  EnvInv'
<1>1. EnvTypeOK'
  <2>1. faults' \in 0 .. MaxFaults
    BY FaultType DEF EnvInv, CatalogueMoves
  <2>2. certified' \subseteq Kinds
    BY DEF EnvInv, EnvTypeOK, CatalogueMoves
  <2> QED BY <2>1, <2>2 DEF EnvInv, EnvTypeOK, CatalogueMoves, History
<1> QED BY <1>1, AsksUnchanged, PaperStep DEF CatalogueMoves, History

LEMMA TtlStep ==
    ASSUME EnvInv, TtlShortens \/ Renew
    PROVE  EnvInv'
<1>1. EnvTypeOK'
  <2>1. faults' \in 0 .. MaxFaults
    BY FaultType DEF EnvInv, TtlShortens, Renew
  <2>2. ttl' \in [left : {"ample", "near", "over"}, notified : {"none", "expiring", "expired"}]
    <3>1. CASE TtlShortens
      <4> DEFINE left == IF ttl.left = "ample" THEN "near" ELSE "over"
      <4>1. ttl' = [ttl EXCEPT !.left = left] /\ left \in {"ample", "near", "over"}
        BY <3>1 DEF TtlShortens
      <4> HIDE DEF left
      <4> QED BY <4>1 DEF EnvInv, EnvTypeOK
    <3>2. CASE Renew
      BY <3>2 DEF Renew
    <3> QED BY <3>1, <3>2
  <2> QED BY <2>1, <2>2 DEF EnvInv, EnvTypeOK, TtlShortens, Renew, History
<1> QED BY <1>1, AsksUnchanged, PaperStep DEF TtlShortens, Renew, History

LEMMA CrashStep ==
    ASSUME EnvInv, EnvCrash
    PROVE  EnvInv'
<1>1. EnvTypeOK'
  <2>1. faults' \in 0 .. MaxFaults
    BY FaultType DEF EnvInv, EnvCrash
  <2>2. work' \in [Workers -> Doing']
    BY IdleIsDoing DEF EnvCrash, Doing
  <2> QED BY <2>1, <2>2 DEF EnvInv, EnvTypeOK, Doing, EnvCrash, History
<1>2. \A w \in Workers : Whole(w)' /\ Aimed(w)' /\ Answered(w)'
  BY IdleIsDoing, NotTearing DEF EnvCrash, Whole
<1> QED BY <1>1, <1>2, AsksUnchanged, PaperStep DEF EnvCrash, History

----------------------------------------------------------------------------
(* A worker takes a request, and hears *)

LEMMA TakeTicketStep ==
    ASSUME EnvInv, NEW w \in Workers, NEW t \in Tickets, TakeTicket(w, t)
    PROVE  EnvInv'
<1> DEFINE r == [Idle EXCEPT !.pc = "loaded", !.op = t]
<1>1. r \in Doing /\ r.pc = "loaded" /\ r.op = t
  BY DEF Idle, Doing
<1>2. work' = [work EXCEPT ![w] = r] /\ UNCHANGED built
  BY DEF TakeTicket
<1> HIDE DEF r
<1>3. /\ work' \in [Workers -> Doing'] /\ work'[w] = r
      /\ \A v \in Workers : v # w => work'[v] = work[v]
  BY <1>1, <1>2, WorkerMoves DEF EnvInv
<1>4. EnvTypeOK'
  <2>1. faults' \in 0 .. MaxFaults
    BY FaultType DEF EnvInv, TakeTicket
  <2> QED BY <1>3, <2>1 DEF EnvInv, EnvTypeOK, Doing, TakeTicket, History
<1>5. Whole(w)' /\ Aimed(w)' /\ Answered(w)'
  BY <1>1, <1>3, NotTearing, EnvironmentConstants DEF Whole
<1> QED BY <1>3, <1>4, <1>5, AsksUnchanged, PaperStep DEF TakeTicket, History

LEMMA ClaimStep ==
    ASSUME EnvInv, NEW w \in Workers, ClaimTeardown(w)
    PROVE  EnvInv'
<1> DEFINE t == work[w].op
           kinds == KindsOf(ticket[t].parts)
           partial == KindsOf(Kinds) \ kinds # {}
<1>1. /\ t \in Tickets /\ ticket[t].type = "decommission" /\ ticket[t].parts \in SUBSET Kinds
      /\ partial \in BOOLEAN /\ kinds \subseteq Kinds \cup {Bucket} /\ work[w] \in Doing
  BY DerivedKinds DEF EnvInv, EnvTypeOK, Doing, ClaimTeardown
<1>2. /\ work' = [work EXCEPT ![w] = [work[w] EXCEPT !.pc = "post", !.kinds = kinds,
                                                     !.partial = partial]]
      /\ UNCHANGED built /\ ticket' = [ticket EXCEPT ![t].status = "decommissioning"]
      /\ forgotten' = forgotten \cup (Kinds \ certified)
      /\ kinds \subseteq ticket[t].parts \cup {Bucket}
      /\ ~partial => \A k \in Kinds : k \in ticket[t].parts \cup (Kinds \ certified) \cup {Bucket}
  BY <1>1, DerivedKinds DEF EnvInv, EnvTypeOK, ClaimTeardown
<1>3. t = work[w].op
  OBVIOUS
<1> HIDE DEF t, kinds, partial
<1> DEFINE r == [work[w] EXCEPT !.pc = "post", !.kinds = kinds, !.partial = partial]
<1>4. /\ r \in Doing /\ r.pc = "post" /\ r.op = t /\ r.kinds = kinds /\ r.partial = partial
  BY <1>1, <1>3 DEF Doing
<1>5. work' = [work EXCEPT ![w] = r]
  BY <1>2
<1> HIDE DEF r
<1>6. /\ work' \in [Workers -> Doing'] /\ work'[w] = r
      /\ \A v \in Workers : v # w => work'[v] = work[v]
  BY <1>2, <1>4, <1>5, WorkerMoves DEF EnvInv
<1>7. TicketsType' /\ SameAsks
  BY <1>1, <1>2, StatusMoves DEF EnvInv, TicketState
<1>8. EnvTypeOK'
  BY <1>2, <1>6, <1>7 DEF EnvInv, EnvTypeOK, TicketsType, Doing, ClaimTeardown
<1>9. Whole(w)' /\ Aimed(w)' /\ Answered(w)'
  <2>1. (NamedBy(work[w].op))' = ticket[t].parts
    BY <1>1, <1>4, <1>6, <1>7 DEF SameAsks, NamedBy
  <2>2. work'[w].pc = "post" /\ work'[w].op = t /\ work'[w].kinds = kinds
    BY <1>4, <1>6
  <2>3. t \notin {"ttl", "button"}
    BY <1>1, EnvironmentConstants
  <2>4. work'[w].partial = partial
    BY <1>4, <1>6
  <2>5. Whole(w)' /\ Answered(w)'
    BY <2>2, <2>3 DEF Whole, Answered
  <2>6. work'[w].partial =>
           \A k \in work'[w].kinds \cap Kinds : k \in (NamedBy(work[w].op))' \cup {Bucket}
    BY <1>2, <2>1, <2>2
  <2>7. ~work'[w].partial =>
           \A k \in Kinds : k \in (NamedBy(work[w].op))' \cup forgotten' \cup {Bucket}
    BY <1>2, <2>1, <2>4
  <2> QED BY <2>5, <2>6, <2>7 DEF Aimed
<1> QED BY <1>2, <1>6, <1>7, <1>8, <1>9, PaperStep DEF ClaimTeardown

LEMMA HandOverStep ==
    ASSUME EnvInv, NEW w \in Workers, HandOver(w)
    PROVE  EnvInv'
<1>1. work[w] \in Doing /\ work[w].op \in Tickets /\ ticket[work[w].op].type # "decommission"
  BY DEF EnvInv, EnvTypeOK, Doing, HandOver
<1>2. PICK k \in KindsOf(Kinds) :
         work' = [work EXCEPT ![w].pc = "post", ![w].kinds = {k}]
  BY DEF HandOver
<1>3. k \in Kinds \cup {Bucket}
  BY <1>2, DerivedKinds
<1> DEFINE r == [work[w] EXCEPT !.pc = "post", !.kinds = {k}]
<1>4. r \in Doing /\ r.op = work[w].op /\ r.pc = "post"
  BY <1>1, <1>3 DEF Doing
<1>5. work' = [work EXCEPT ![w] = r] /\ UNCHANGED <<built, ticket>>
  BY <1>2 DEF HandOver
<1> HIDE DEF r
<1>6. /\ work' \in [Workers -> Doing'] /\ work'[w] = r
      /\ \A v \in Workers : v # w => work'[v] = work[v]
  BY <1>4, <1>5, WorkerMoves DEF EnvInv
<1>7. EnvTypeOK'
  BY <1>6 DEF EnvInv, EnvTypeOK, Doing, HandOver, History
<1>8. Whole(w)' /\ Aimed(w)' /\ Answered(w)'
  BY <1>1, <1>4, <1>5, <1>6, NotTearing
<1> QED BY <1>6, <1>7, <1>8, AsksUnchanged, PaperStep DEF HandOver, History

\* The answer of a call: the worker keeps what it asked for.
LEMMA ToldMoves ==
    ASSUME EnvTypeOK, NEW w \in Workers, NEW status \in {"answered", "refused"},
           NEW told \in SUBSET built, Told(w, status, told), built \subseteq built'
    PROVE  /\ work' \in [Workers -> Doing']
           /\ work'[w].pc = status /\ work'[w].told = told /\ work'[w].op = work[w].op
           /\ work'[w].kinds = work[w].kinds /\ work'[w].partial = work[w].partial
           /\ \A v \in Workers : v # w => work'[v] = work[v]
<1> DEFINE r == [work[w] EXCEPT !.pc = status, !.told = told]
<1>1. work \in [Workers -> Doing] /\ work[w] \in Doing
  BY DEF EnvTypeOK, Doing
<1>2. /\ r \in Doing /\ r.pc = status /\ r.told = told /\ r.op = work[w].op
      /\ r.kinds = work[w].kinds /\ r.partial = work[w].partial
  BY <1>1 DEF Doing
<1>3. work' = [work EXCEPT ![w] = r]
  BY DEF Told
<1>4. \A d \in Doing : d \in Doing'
  BY DEF Doing
<1> HIDE DEF r
<1> QED BY <1>1, <1>2, <1>3, <1>4

LEMMA RefreshStep ==
    ASSUME EnvInv, NEW w \in Workers, RefreshAnswers(w)
    PROVE  EnvInv'
<1>1. PICK status \in {"answered", "refused"} : Told(w, status, {})
  BY DEF RefreshAnswers
<1>2. /\ work' \in [Workers -> Doing'] /\ work'[w].op = work[w].op
      /\ work'[w].pc \in {"answered", "refused"}
      /\ \A v \in Workers : v # w => work'[v] = work[v]
  BY <1>1, ToldMoves DEF EnvInv, RefreshAnswers
<1>3. EnvTypeOK'
  BY <1>2 DEF EnvInv, EnvTypeOK, Doing, RefreshAnswers, History
<1>4. Whole(w)' /\ Aimed(w)' /\ Answered(w)'
  BY <1>2, NotTearing DEF RefreshAnswers
<1> QED BY <1>2, <1>3, <1>4, AsksUnchanged, PaperStep DEF RefreshAnswers, History

LEMMA CallFailsStep ==
    ASSUME EnvInv, NEW w \in Workers, CallFails(w)
    PROVE  EnvInv'
<1>1. /\ work' \in [Workers -> Doing'] /\ work'[w].op = work[w].op
      /\ work'[w].pc = "refused" /\ work'[w].partial = work[w].partial
      /\ \A v \in Workers : v # w => work'[v] = work[v]
  BY ToldMoves DEF EnvInv, CallFails
<1>2. faults' \in 0 .. MaxFaults
  BY FaultType DEF EnvInv, CallFails
<1>3. EnvTypeOK'
  BY <1>1, <1>2 DEF EnvInv, EnvTypeOK, Doing, CallFails, History
<1>4. Whole(w)' /\ Aimed(w)' /\ Answered(w)'
  BY <1>1, NotTearing DEF EnvInv, WorkersInv, Whole
<1> QED BY <1>1, <1>3, <1>4, AsksUnchanged, PaperStep DEF CallFails, History

LEMMA RestoreStep ==
    ASSUME EnvInv, NEW w \in Workers, RestoreToNewSystem(w)
    PROVE  EnvInv'
<1>1. /\ work' \in [Workers -> Doing'] /\ work'[w].op = work[w].op
      /\ work'[w].pc \in {"post", "answered"}
      /\ \A v \in Workers : v # w => work'[v] = work[v]
  <2>1. CASE Told(w, "answered", {})
    BY <2>1, ToldMoves DEF EnvInv, RestoreToNewSystem
  <2>2. CASE UNCHANGED work
    BY <2>2 DEF EnvInv, EnvTypeOK, Doing, RestoreToNewSystem
  <2> QED BY <2>1, <2>2 DEF RestoreToNewSystem
<1>2. faults' \in 0 .. MaxFaults
  BY FaultType DEF EnvInv, RestoreToNewSystem
<1>3. restored' \in [Tickets -> 0 .. 2]
  <2>1. restored \in [Tickets -> 0 .. 2] /\ work[w].op \in Tickets
    BY DEF EnvInv, EnvTypeOK, RestoreToNewSystem
  <2>2. restored[work[w].op] + 1 \in 0 .. 2
    BY <2>1 DEF RestoreToNewSystem
  <2> QED BY <2>1, <2>2 DEF RestoreToNewSystem
<1>4. EnvTypeOK'
  BY <1>1, <1>2, <1>3 DEF EnvInv, EnvTypeOK, Doing, RestoreToNewSystem
<1>5. Whole(w)' /\ Aimed(w)' /\ Answered(w)'
  BY <1>1, NotTearing DEF RestoreToNewSystem
<1> QED BY <1>1, <1>4, <1>5, AsksUnchanged, PaperStep DEF RestoreToNewSystem

\* A worker is done.
LEMMA WorkerRetires ==
    ASSUME EnvTypeOK, NEW w \in Workers, work' = [work EXCEPT ![w] = Idle], UNCHANGED built
    PROVE  /\ work' \in [Workers -> Doing'] /\ work'[w] = Idle
           /\ \A v \in Workers : v # w => work'[v] = work[v]
           /\ Whole(w)' /\ Aimed(w)' /\ Answered(w)'
<1>1. /\ work' \in [Workers -> Doing'] /\ work'[w] = Idle
      /\ \A v \in Workers : v # w => work'[v] = work[v]
  BY IdleIsDoing, WorkerMoves
<1>2. Whole(w)'
  BY <1>1, IdleIsDoing DEF Whole
<1> QED BY <1>1, <1>2, IdleIsDoing, NotTearing

LEMMA FollowOnStep ==
    ASSUME EnvInv, NEW w \in Workers, RecordFollowOn(w)
    PROVE  EnvInv'
<1>1. TicketsType' /\ SameAsks
  BY StatusMoves DEF EnvInv, RecordFollowOn, TicketState
<1>2. /\ work' \in [Workers -> Doing']
      /\ \A v \in Workers : v # w => work'[v] = work[v]
      /\ Whole(w)' /\ Aimed(w)' /\ Answered(w)'
  BY WorkerRetires DEF EnvInv, RecordFollowOn
<1>3. EnvTypeOK'
  BY <1>1, <1>2 DEF EnvInv, EnvTypeOK, TicketsType, Doing, RecordFollowOn, History
<1> QED BY <1>1, <1>2, <1>3, PaperStep DEF RecordFollowOn, History

LEMMA FailureStep ==
    ASSUME EnvInv, NEW w \in Workers, RecordFailure(w)
    PROVE  EnvInv'
<1>1. TicketsType' /\ SameAsks
  <2>1. \A t \in Tickets : [ticket[t] EXCEPT !.status = "failed"]
                             \in [type : Types, parts : SUBSET Kinds, status : TicketState]
    <3>1. "failed" \in TicketState
      BY DEF TicketState
    <3>2. \A t \in Tickets : ticket[t] \in [type : Types, parts : SUBSET Kinds, status : TicketState]
      BY DEF EnvInv, EnvTypeOK
    <3> QED BY <3>1, <3>2
  <2>2. \A t \in Tickets : /\ [ticket[t] EXCEPT !.status = "failed"].type = ticket[t].type
                           /\ [ticket[t] EXCEPT !.status = "failed"].parts = ticket[t].parts
    BY DEF EnvInv, EnvTypeOK
  <2> QED BY <2>1, <2>2 DEF EnvInv, EnvTypeOK, TicketsType, SameAsks, RecordFailure
<1>2. /\ work' \in [Workers -> Doing']
      /\ \A v \in Workers : v # w => work'[v] = work[v]
      /\ Whole(w)' /\ Aimed(w)' /\ Answered(w)'
  BY WorkerRetires DEF EnvInv, RecordFailure
<1>3. EnvTypeOK'
  BY <1>1, <1>2 DEF EnvInv, EnvTypeOK, TicketsType, Doing, RecordFailure, History
<1> QED BY <1>1, <1>2, <1>3, PaperStep DEF RecordFailure, History

----------------------------------------------------------------------------
(* The Destroy button and the time to live *)

\* A teardown of everything aims at what is the environment's.
LEMMA EverythingIsNamed ==
    ASSUME EnvInv, NEW w \in Workers,
           work'[w].op \in {"ttl", "button"}, ~work'[w].partial, work'[w].pc # "answered",
           work'[w].pc \in {"near", "over"} => work'[w].op = "ttl"
    PROVE  Whole(w)' /\ Aimed(w)' /\ Answered(w)'
<1>1. work'[w].op \notin Tickets
  BY EnvironmentConstants
<1> QED BY <1>1 DEF Whole, Aimed, Answered, NamedBy

LEMMA EverythingDerived == KindsOf(Kinds) \subseteq Kinds \cup {Bucket}
BY DerivedKinds

LEMMA PressDestroyStep ==
    ASSUME EnvInv, PressDestroy
    PROVE  EnvInv'
<1> DEFINE all == KindsOf(Kinds)
<1>1. all \subseteq Kinds \cup {Bucket} /\ Clicker \in Workers
  BY EverythingDerived DEF Workers
<1>2. /\ work' = [work EXCEPT ![Clicker] = [Idle EXCEPT !.pc = "post", !.op = "button",
                                                        !.kinds = all]]
      /\ UNCHANGED built
  BY DEF PressDestroy
<1> HIDE DEF all
<1> DEFINE r == [Idle EXCEPT !.pc = "post", !.op = "button", !.kinds = all]
<1>3. r \in Doing /\ r.pc = "post" /\ r.op = "button" /\ ~r.partial
  BY <1>1 DEF Idle, Doing
<1>4. work' = [work EXCEPT ![Clicker] = r]
  BY <1>2
<1> HIDE DEF r
<1>5. /\ work' \in [Workers -> Doing'] /\ work'[Clicker] = r
      /\ \A v \in Workers : v # Clicker => work'[v] = work[v]
  BY <1>1, <1>2, <1>3, <1>4, WorkerMoves DEF EnvInv
<1>6. EnvTypeOK'
  <2>1. faults' \in 0 .. MaxFaults
    BY FaultType DEF EnvInv, PressDestroy
  <2> QED BY <1>5, <2>1 DEF EnvInv, EnvTypeOK, Doing, PressDestroy, History
<1>7. Whole(Clicker)' /\ Aimed(Clicker)' /\ Answered(Clicker)'
  BY <1>1, <1>3, <1>5, EverythingIsNamed
<1> QED BY <1>5, <1>6, <1>7, AsksUnchanged, PaperStep DEF PressDestroy, History

LEMMA TtlReadStep ==
    ASSUME EnvInv, TtlRead
    PROVE  EnvInv'
<1> DEFINE left == ttl.left
           r == [Idle EXCEPT !.pc = left, !.op = "ttl"]
<1>1. left \in {"near", "over"} /\ Poller \in Workers
  BY DEF EnvInv, EnvTypeOK, TtlRead, Workers
<1>2. work' = [work EXCEPT ![Poller] = r] /\ UNCHANGED built
  BY DEF TtlRead
<1> HIDE DEF left
<1>3. r \in Doing /\ r.pc = left /\ r.op = "ttl" /\ ~r.partial
  BY <1>1 DEF Idle, Doing
<1> HIDE DEF r
<1>4. /\ work' \in [Workers -> Doing'] /\ work'[Poller] = r
      /\ \A v \in Workers : v # Poller => work'[v] = work[v]
  BY <1>1, <1>2, <1>3, WorkerMoves DEF EnvInv
<1>5. EnvTypeOK'
  BY <1>4 DEF EnvInv, EnvTypeOK, Doing, TtlRead, History
<1>6. Whole(Poller)' /\ Aimed(Poller)' /\ Answered(Poller)'
  BY <1>1, <1>3, <1>4, EverythingIsNamed
<1> QED BY <1>4, <1>5, <1>6, AsksUnchanged, PaperStep DEF TtlRead, History

LEMMA NotifiedType ==
    ASSUME EnvTypeOK, TtlWarns \/ TtlExpires
    PROVE  ttl' \in [left : {"ample", "near", "over"}, notified : {"none", "expiring", "expired"}]
<1>1. CASE TtlWarns
  <2> DEFINE told == IF ttl.notified = "none" THEN "expiring" ELSE ttl.notified
  <2>1. ttl' = [ttl EXCEPT !.notified = told] /\ told \in {"none", "expiring", "expired"}
    BY <1>1 DEF EnvTypeOK, TtlWarns
  <2> HIDE DEF told
  <2> QED BY <2>1 DEF EnvTypeOK
<1>2. CASE TtlExpires
  BY <1>2 DEF EnvTypeOK, TtlExpires
<1> QED BY <1>1, <1>2

LEMMA TtlLeavesStep ==
    ASSUME EnvInv, TtlSkips \/ TtlWarns
    PROVE  EnvInv'
<1>1. /\ Poller \in Workers /\ work' \in [Workers -> Doing']
      /\ \A v \in Workers : v # Poller => work'[v] = work[v]
      /\ Whole(Poller)' /\ Aimed(Poller)' /\ Answered(Poller)'
  <2>1. Poller \in Workers
    BY DEF Workers
  <2> QED BY <2>1, WorkerRetires DEF EnvInv, TtlSkips, TtlWarns
<1>2. EnvTypeOK'
  BY <1>1, NotifiedType DEF EnvInv, EnvTypeOK, Doing, TtlSkips, TtlWarns, History
<1> QED BY <1>1, <1>2, AsksUnchanged, PaperStep DEF TtlSkips, TtlWarns, History

LEMMA TtlExpiresStep ==
    ASSUME EnvInv, TtlExpires
    PROVE  EnvInv'
<1> DEFINE all == KindsOf(Kinds)
<1>1. /\ all \subseteq Kinds \cup {Bucket} /\ Poller \in Workers /\ work[Poller] \in Doing
  BY EverythingDerived DEF Workers, EnvInv, EnvTypeOK, Doing
<1>2. /\ work' = [work EXCEPT ![Poller] = [work[Poller] EXCEPT !.pc = "post", !.kinds = all]]
      /\ UNCHANGED built
  BY <1>1 DEF TtlExpires, EnvInv, EnvTypeOK
<1> HIDE DEF all
<1> DEFINE r == [work[Poller] EXCEPT !.pc = "post", !.kinds = all]
<1>3. r \in Doing /\ r.pc = "post" /\ r.op = work[Poller].op /\ r.partial = work[Poller].partial
  BY <1>1 DEF Doing
<1>4. work' = [work EXCEPT ![Poller] = r]
  BY <1>2
<1> HIDE DEF r
<1>5. /\ work' \in [Workers -> Doing'] /\ work'[Poller] = r
      /\ \A v \in Workers : v # Poller => work'[v] = work[v]
  BY <1>1, <1>2, <1>3, <1>4, WorkerMoves DEF EnvInv
<1>6. EnvTypeOK'
  BY <1>5, NotifiedType DEF EnvInv, EnvTypeOK, Doing, TtlExpires, History
<1>7. work[Poller].op = "ttl" /\ ~work[Poller].partial
  BY <1>1 DEF EnvInv, WorkersInv, Whole, TtlExpires
<1>8. Whole(Poller)' /\ Aimed(Poller)' /\ Answered(Poller)'
  BY <1>1, <1>3, <1>5, <1>7, EverythingIsNamed
<1> QED BY <1>5, <1>6, <1>8, AsksUnchanged, PaperStep DEF TtlExpires, History

----------------------------------------------------------------------------
(* The orchestrator tears down and applies *)

\* A workspace that a teardown removes and nobody named.
Unnamed(x, op) == KindOf(x) \notin NamedBy(op)

LEMMA AimedAtStrays ==
    ASSUME EnvInv, NEW w \in Workers, work[w].pc = "post", Tears(work[w].op),
           NEW x \in Targets(work[w].kinds, work[w].partial), Unnamed(x, work[w].op)
    PROVE  KindOf(x) \in forgotten \cup {Bucket}
<1>1. Aimed(w) /\ work[w] \in Doing
  BY DEF EnvInv, WorkersInv, EnvTypeOK, Doing
<1>2. x \in built /\ KindOf(x) \in Kinds
  <2>1. x \in built
    BY <1>1, TargetsBuilt DEF Doing
  <2>2. x \in Workspaces \/ \E k \in Kinds : x = Named(k)
    BY <2>1 DEF EnvInv, EnvTypeOK
  <2> QED BY <2>1, <2>2, NamedByKind
<1>3. CASE work[w].partial
  <2>1. PICK k \in work[w].kinds : x = Named(k)
    BY <1>3 DEF Targets
  <2>2. KindOf(x) \in work[w].kinds
    BY <2>1, NamedByKind
  <2> QED BY <1>1, <1>2, <1>3, <2>2 DEF Aimed, Unnamed
<1>4. CASE ~work[w].partial
  BY <1>1, <1>2, <1>4 DEF Aimed, Unnamed
<1> QED BY <1>3, <1>4

LEMMA DestroyStep ==
    ASSUME EnvInv, NEW w \in Workers, Destroy(w)
    PROVE  EnvInv'
<1> DEFINE targets == Targets(work[w].kinds, work[w].partial)
<1>1. PICK done \in SUBSET targets, heard \in BOOLEAN :
         /\ IF done = targets /\ heard THEN UNCHANGED faults ELSE Fault
         /\ IF ~heard THEN UNCHANGED work
            ELSE IF done = targets THEN Told(w, "answered", targets)
            ELSE Told(w, "refused", {})
         /\ live' = live \ done
         /\ stray' = stray \cup {x \in done \cap live : Unnamed(x, work[w].op)}
         /\ unheard' = unheard \cup (done \cap Workspaces)
  BY DEF Destroy, Unnamed
<1>2. /\ work[w].pc = "post" /\ Tears(work[w].op) /\ work[w] \in Doing /\ targets \subseteq built
      /\ work \in [Workers -> Doing]
      /\ UNCHANGED <<certified, source, rows, built, ticket, ttl, restored, risen, forgotten>>
  BY TargetsBuilt DEF EnvInv, EnvTypeOK, Doing, Destroy
<1>3. SameAsks
  BY <1>2, AsksUnchanged
<1>4. /\ \A x \in targets : Unnamed(x, work[w].op) => KindOf(x) \in forgotten \cup {Bucket}
      /\ work[w].partial =>
            \A k \in work[w].kinds : Named(k) \in Workspaces => Named(k) \in targets
      /\ ~work[w].partial => targets = built
  BY <1>2, AimedAtStrays DEF EnvInv, Targets
<1> HIDE DEF targets
<1>5. /\ work' \in [Workers -> Doing']
      /\ \A v \in Workers : v # w => work'[v] = work[v]
      /\ work'[w] = work[w] \/ (Whole(w)' /\ Aimed(w)' /\ Answered(w)')
  <2>1. CASE ~heard
    BY <1>1, <1>2, <2>1 DEF Doing
  <2>2. CASE heard /\ done = targets
    <3>1. /\ work' \in [Workers -> Doing']
          /\ work'[w].pc = "answered" /\ work'[w].told = targets /\ work'[w].op = work[w].op
          /\ work'[w].kinds = work[w].kinds /\ work'[w].partial = work[w].partial
          /\ \A v \in Workers : v # w => work'[v] = work[v]
      BY <1>1, <1>2, <2>2, ToldMoves DEF EnvInv
    <3>2. Whole(w)' /\ Aimed(w)'
      <4>1. (NamedBy(work[w].op))' = NamedBy(work[w].op)
        BY <1>2, <3>1 DEF NamedBy
      <4> QED BY <1>2, <3>1, <4>1 DEF EnvInv, WorkersInv, Whole, Aimed
    <3>3. Answered(w)'
      <4>1. live' \subseteq built \ targets
        BY <1>1, <2>2 DEF EnvInv, EnvTypeOK
      <4> QED BY <1>2, <1>4, <3>1, <4>1 DEF EnvInv, Answered
    <3> QED BY <3>1, <3>2, <3>3
  <2>3. CASE heard /\ done # targets
    <3>1. /\ work' \in [Workers -> Doing']
          /\ work'[w].pc = "refused" /\ work'[w].op = work[w].op
          /\ work'[w].partial = work[w].partial
          /\ \A v \in Workers : v # w => work'[v] = work[v]
      BY <1>1, <1>2, <2>3, ToldMoves DEF EnvInv
    <3> QED BY <3>1, NotTearing DEF EnvInv, WorkersInv, Whole
  <2> QED BY <2>1, <2>2, <2>3
<1>6. WorkersInv'
  <2>1. forgotten \subseteq forgotten' /\ risen \subseteq risen' /\ live' \subseteq live \cup risen'
    BY <1>1, <1>2
  <2> QED BY <1>3, <1>5, <2>1, WorkerRests DEF EnvInv, WorkersInv
<1>7. EnvTypeOK'
  <2>1. faults' \in 0 .. MaxFaults
    BY <1>1, FaultType DEF EnvInv
  <2>2. live' \subseteq built /\ stray' \subseteq built /\ unheard' \subseteq Workspaces
    BY <1>1 DEF EnvInv, EnvTypeOK
  <2> QED BY <1>2, <1>5, <2>1, <2>2 DEF EnvInv, EnvTypeOK, Doing
<1>8. RecordAgrees'
  <2>1. \A x \in live' : x \in live
    BY <1>1
  <2>2. \A x \in rows : x \in live \/ x \in unheard => x \in live' \/ x \in unheard'
    BY <1>1 DEF EnvInv, EnvTypeOK
  <2> QED BY <1>2, <2>1, <2>2 DEF EnvInv, RecordAgrees
<1>9. StraysExplained'
  BY <1>1, <1>2, <1>4 DEF EnvInv, StraysExplained
<1> QED BY <1>2, <1>6, <1>7, <1>8, <1>9 DEF EnvInv

LEMMA ReapplyStep ==
    ASSUME EnvInv, NEW w \in Workers, Reapply(w)
    PROVE  EnvInv'
<1> DEFINE here == {Named(k) : k \in work[w].kinds \ {Bucket}}
<1>1. /\ built' = built \cup here /\ live' = live \cup here
      /\ risen' = risen \cup (here \ live)
      /\ UNCHANGED <<certified, source, rows, ticket, ttl, restored, stray, forgotten, unheard>>
      /\ work[w].op \in Tickets /\ ticket[work[w].op].type # "decommission"
      /\ work[w].pc = "post"
  BY DEF Reapply
<1>2. here \subseteq {Named(k) : k \in Kinds}
  <2>1. work[w].kinds \subseteq Kinds \cup {Bucket}
    BY DEF EnvInv, EnvTypeOK
  <2> QED BY <2>1
<1> HIDE DEF here
<1>3. SameAsks
  BY <1>1, AsksUnchanged
<1>4. /\ work' \in [Workers -> Doing'] /\ work'[w].op = work[w].op
      /\ work'[w].pc \in {"post", "answered"}
      /\ \A v \in Workers : v # w => work'[v] = work[v]
  <2>1. CASE Told(w, "answered", {})
    BY <1>1, <2>1, ToldMoves DEF EnvInv
  <2>2. CASE UNCHANGED work
    <3>1. \A d \in Doing : d \in Doing'
      BY <1>1 DEF Doing
    <3>2. work \in [Workers -> Doing]
      BY DEF EnvInv, EnvTypeOK, Doing
    <3> QED BY <1>1, <2>2, <3>1, <3>2
  <2> QED BY <2>1, <2>2 DEF Reapply
<1>5. faults' \in 0 .. MaxFaults
  BY FaultType DEF EnvInv, Reapply
<1>6. EnvTypeOK'
  <2>1. /\ live' \subseteq built' /\ built' \subseteq Workspaces \cup {Named(k) : k \in Kinds}
        /\ risen' \subseteq built' /\ stray' \subseteq built'
    BY <1>1, <1>2 DEF EnvInv, EnvTypeOK
  <2> QED BY <1>1, <1>4, <1>5, <2>1 DEF EnvInv, EnvTypeOK, Doing
<1>7. Whole(w)' /\ Aimed(w)' /\ Answered(w)'
  BY <1>1, <1>4, NotTearing
<1>8. risen \subseteq risen' /\ live' \subseteq live \cup risen'
  BY <1>1
<1>9. WorkersInv'
  BY <1>1, <1>3, <1>4, <1>7, <1>8, WorkerRests DEF EnvInv, WorkersInv
<1>10. RecordAgrees' /\ StraysExplained'
  BY <1>1, <1>8 DEF EnvInv, RecordAgrees, StraysExplained
<1> QED BY <1>1, <1>6, <1>9, <1>10 DEF EnvInv

----------------------------------------------------------------------------
(* A teardown is written down *)

\* The rows a recorded teardown removes are those it was told of.
LEMMA RowsWereTold ==
    ASSUME EnvInv, NEW w \in Workers, work[w].pc = "answered", Tears(work[w].op),
           NEW x \in rows, KindOf(x) \notin Shared
    PROVE  /\ x \in RowsOf(w) => x \in work[w].told
           /\ x \in work[w].told => x \in RowsOf(w)
<1>1. x \in Workspaces /\ x = Named(KindOf(x))
  BY NamedByKind DEF EnvInv, EnvTypeOK
<1>2. ASSUME x \in RowsOf(w)
      PROVE  x \in work[w].told
  <2>1. CASE work[w].told # {}
    BY <1>1, <1>2, <2>1 DEF RowsOf, DestroyedKinds
  <2>2. CASE work[w].told = {}
    <3>1. PICK k \in work[w].kinds : x = Named(k)
      BY <1>1, <1>2, <2>2 DEF RowsOf, DestroyedKinds
    <3>2. work[w].partial \in BOOLEAN /\ Answered(w)
      BY DEF EnvInv, WorkersInv, EnvTypeOK
    <3> QED BY <1>1, <3>1, <3>2 DEF Answered
  <2> QED BY <2>1, <2>2
<1>3. ASSUME x \in work[w].told
      PROVE  x \in RowsOf(w)
  <2>1. DestroyedKinds(w) = work[w].told
    BY <1>3 DEF DestroyedKinds
  <2> QED BY <1>1, <1>3, <2>1 DEF RowsOf
<1> QED BY <1>2, <1>3

LEMMA RecordTeardownStep ==
    ASSUME EnvInv, NEW w \in Workers, RecordTeardown(w)
    PROVE  EnvInv'
<1>1. /\ work[w].pc = "answered" /\ Tears(work[w].op) /\ work[w].op \in Tickets
      /\ rows' = rows \ RowsOf(w) /\ unheard' = unheard \ work[w].told
      /\ source' \in {"provisioned", "decommissioned"}
      /\ work' = [work EXCEPT ![w] = Idle]
      /\ ticket' = [ticket EXCEPT ![work[w].op].status = "done"]
      /\ UNCHANGED <<certified, built, live, ttl, faults, restored, risen, stray, forgotten>>
  BY DEF RecordTeardown, Tears
<1>2. TicketsType' /\ SameAsks
  BY <1>1, StatusMoves DEF EnvInv, TicketState
<1>3. /\ work' \in [Workers -> Doing']
      /\ \A v \in Workers : v # w => work'[v] = work[v]
      /\ Whole(w)' /\ Aimed(w)' /\ Answered(w)'
  BY <1>1, WorkerRetires DEF EnvInv
<1>4. EnvTypeOK'
  <2>1. rows' \subseteq Workspaces /\ unheard' \subseteq Workspaces
    BY <1>1 DEF EnvInv, EnvTypeOK
  <2> QED BY <1>1, <1>2, <1>3, <2>1 DEF EnvInv, EnvTypeOK, TicketsType, Doing
<1>5. WorkersInv'
  BY <1>1, <1>2, <1>3, WorkerRests DEF EnvInv, WorkersInv
<1>6. RecordAgrees'
  <2>1. ASSUME NEW x \in live, x \notin risen, KindOf(x) \notin Shared
        PROVE  x \in rows'
    <3>1. x \in rows
      BY <2>1 DEF EnvInv, RecordAgrees
    <3>2. x \notin work[w].told
      BY <1>1, <2>1 DEF EnvInv, WorkersInv, Answered
    <3> QED BY <1>1, <2>1, <3>1, <3>2, RowsWereTold
  <2>2. ASSUME NEW x \in rows', KindOf(x) \notin Shared
        PROVE  x \in live \/ x \in unheard'
    <3>1. x \in rows /\ x \notin RowsOf(w)
      BY <1>1, <2>2
    <3>2. x \notin work[w].told
      BY <1>1, <2>2, <3>1, RowsWereTold
    <3> QED BY <1>1, <2>2, <3>1, <3>2 DEF EnvInv, RecordAgrees
  <2> QED BY <1>1, <2>1, <2>2 DEF RecordAgrees
<1>7. StraysExplained'
  BY <1>1 DEF EnvInv, StraysExplained
<1> QED BY <1>1, <1>4, <1>5, <1>6, <1>7 DEF EnvInv

LEMMA RecordDestroyedStep ==
    ASSUME EnvInv, NEW w \in Workers, RecordDestroyed(w)
    PROVE  EnvInv'
<1>1. /\ work[w].pc = "answered" /\ work[w].op \in {"ttl", "button"}
      /\ rows' = {} /\ source' = "decommissioned" /\ unheard' = {}
      /\ work' = [work EXCEPT ![w] = Idle]
      /\ UNCHANGED <<certified, built, live, ticket, ttl, faults, restored, risen, stray,
                     forgotten>>
  BY DEF RecordDestroyed
<1>2. SameAsks
  BY <1>1, AsksUnchanged
<1>3. /\ work' \in [Workers -> Doing']
      /\ \A v \in Workers : v # w => work'[v] = work[v]
      /\ Whole(w)' /\ Aimed(w)' /\ Answered(w)'
  BY <1>1, WorkerRetires DEF EnvInv
<1>4. EnvTypeOK'
  BY <1>1, <1>3 DEF EnvInv, EnvTypeOK, Doing
<1>5. WorkersInv'
  BY <1>1, <1>2, <1>3, WorkerRests DEF EnvInv, WorkersInv
<1>6. live \subseteq risen
  <2>1. Tears(work[w].op)
    BY <1>1, EnvironmentConstants DEF Tears
  <2> QED BY <1>1, <2>1 DEF EnvInv, WorkersInv, Whole, Answered
<1>7. RecordAgrees' /\ StraysExplained'
  BY <1>1, <1>6 DEF EnvInv, RecordAgrees, StraysExplained
<1> QED BY <1>1, <1>4, <1>5, <1>7 DEF EnvInv

----------------------------------------------------------------------------
(* The invariant, and what it says *)

LEMMA EnvInvInit == EnvInit => EnvInv
<1> SUFFICES ASSUME EnvInit
             PROVE  EnvInv
  OBVIOUS
<1>1. TicketsType
  BY DEF EnvInit, TicketsType, TicketState
<1>2. work \in [Workers -> Doing] /\ \A w \in Workers : work[w] = Idle
  BY IdleIsDoing DEF EnvInit
<1>3. 0 \in 0 .. MaxFaults /\ restored \in [Tickets -> 0 .. 2]
  <2>1. MaxFaults \in Nat
    BY EnvironmentConstants
  <2>2. 0 \in 0 .. MaxFaults
    BY <2>1
  <2>3. 0 \in 0 .. 2
    OBVIOUS
  <2> QED BY <2>2, <2>3 DEF EnvInit
<1>4. EnvTypeOK
  BY <1>1, <1>2, <1>3 DEF EnvInit, EnvTypeOK, TicketsType, Doing
<1>5. WorkersInv
  BY <1>2, IdleIsDoing DEF WorkersInv, Whole, Aimed, Answered
<1>6. Workspaces \subseteq built /\ RecordAgrees /\ StraysExplained
  BY DEF EnvInit, RecordAgrees, StraysExplained
<1> QED BY <1>4, <1>5, <1>6 DEF EnvInv

LEMMA EnvInvStep == EnvInv /\ [EnvNext]_envVars => EnvInv'
<1> SUFFICES ASSUME EnvInv, [EnvNext]_envVars
             PROVE  EnvInv'
  OBVIOUS
<1>1. CASE PressDestroy \/ TtlShortens \/ Renew \/ EnvCrash
  BY <1>1, PressDestroyStep, TtlStep, CrashStep
<1>2. CASE Sweeping
  <2>1. Poller \in Workers
    BY DEF Workers
  <2> QED BY <1>2, <2>1, TtlReadStep, TtlLeavesStep, TtlExpiresStep, TakeTicketStep DEF Sweeping
<1>3. ASSUME NEW k \in Kinds, CatalogueMoves(k)
      PROVE  EnvInv'
  BY <1>3, CatalogueStep
<1>4. ASSUME NEW t \in Tickets, SubmitFollowOn(t) \/ TakeTicket(Clicker, t)
      PROVE  EnvInv'
  <2>1. Clicker \in Workers
    BY DEF Workers
  <2> QED BY <1>4, <2>1, SubmitStep, TakeTicketStep
<1>5. ASSUME NEW w \in Workers, Work(w) \/ CallFails(w)
      PROVE  EnvInv'
  BY <1>5, ClaimStep, HandOverStep, DestroyStep, ReapplyStep, RestoreStep, RefreshStep,
     RecordTeardownStep, RecordDestroyedStep, FollowOnStep, FailureStep, CallFailsStep DEF Work
<1>6. CASE UNCHANGED envVars
  <2>1. UNCHANGED <<certified, source, rows, built, live, ticket, work, ttl, faults, restored,
                    risen, stray, forgotten, unheard>>
    BY <1>6 DEF envVars
  <2>2. EnvTypeOK'
    BY <2>1 DEF EnvInv, EnvTypeOK
  <2> QED BY <2>1, <2>2, AsksUnchanged, PaperStep
<1> QED BY <1>1, <1>2, <1>3, <1>4, <1>5, <1>6 DEF EnvNext

LEMMA EnvInvariant == EnvSpec => []EnvInv
BY EnvInvInit, EnvInvStep, PTL DEF EnvSpec

\* What the record of an environment, its workspaces, its requests and the workers at them
\* hold, through lost answers, failures half way, repeated clicks and restarts.
THEOREM EnvTypeCorrect == EnvSpec => []EnvTypeOK
<1>1. EnvInv => EnvTypeOK
  BY DEF EnvInv
<1> QED BY <1>1, EnvInvariant, PTL

\* The record and the cloud part only as the code knows (_decommission, api/main.py:6955):
\* of a kind with one machine nothing that lives is hidden but what a /reduce or /dns put
\* there, and nothing is shown that is gone but what a teardown that failed removed.
THEOREM RecordAgreesPerKind == EnvSpec => []RecordAgrees
<1>1. EnvInv => RecordAgrees
  BY DEF EnvInv
<1> QED BY <1>1, EnvInvariant, PTL

\* In an environment with one machine of each kind the record matches the cloud.
THEOREM RecordIsTrue == Shared = {} => (EnvSpec => []RecordMatchesCloud)
<1> SUFFICES ASSUME Shared = {}
             PROVE  EnvSpec => []RecordMatchesCloud
  OBVIOUS
<1>1. EnvInv => RecordMatchesCloud
  BY DEF EnvInv, RecordAgrees, RecordMatchesCloud, HidesNothing, ShownIsThere
<1> QED BY <1>1, EnvInvariant, PTL

\* What a teardown removes and nobody named was forgotten by the catalogue when a teardown
\* was claimed, or is the bucket that _legacy_resource_kind falls back to.
THEOREM StraysAreExplained == EnvSpec => []StraysExplained
<1>1. EnvInv => StraysExplained
  BY DEF EnvInv
<1> QED BY <1>1, EnvInvariant, PTL

\* In an environment without a bucket every stray was forgotten.
THEOREM StraysForgotten == Bucket \notin Kinds => (EnvSpec => []StraysWereForgotten)
<1> SUFFICES ASSUME Bucket \notin Kinds
             PROVE  EnvSpec => []StraysWereForgotten
  OBVIOUS
<1>1. EnvInv => StraysWereForgotten
  <2> SUFFICES ASSUME EnvInv, NEW x \in stray
               PROVE  KindOf(x) \in forgotten
    BY DEF StraysWereForgotten
  <2>1. stray \subseteq Workspaces \cup {Named(k) : k \in Kinds}
    BY DEF EnvInv, EnvTypeOK
  <2>2. x \in Workspaces \/ \E k \in Kinds : x = Named(k)
    BY <2>1
  <2>3. KindOf(x) \in Kinds
    BY <2>2, NamedByKind
  <2> QED BY <2>3 DEF EnvInv, StraysExplained
<1> QED BY <1>1, EnvInvariant, PTL

\* A decommission removes only what it names (api/main.py:6907) as long as the catalogue
\* keeps every kind of the environment certified; the run that refutes NamedOnly lets it
\* forget one.
THEOREM NamedWhileCatalogued ==
    Bucket \notin Kinds => (EnvSpec /\ [](certified = Kinds) => []NamedOnly)
<1> SUFFICES ASSUME Bucket \notin Kinds
             PROVE  EnvSpec /\ [](certified = Kinds) => []NamedOnly
  OBVIOUS
<1>1. EnvInit => forgotten = {}
  BY DEF EnvInit
<1>2. forgotten = {} /\ certified = Kinds /\ [EnvNext]_envVars => (forgotten = {})'
  <2> SUFFICES ASSUME forgotten = {}, certified = Kinds, [EnvNext]_envVars
               PROVE  forgotten' = {}
    OBVIOUS
  <2>1. UNCHANGED forgotten \/ forgotten' = forgotten \cup (Kinds \ certified)
    BY DEF EnvNext, envVars, PressDestroy, TtlShortens, Renew, EnvCrash, Sweeping, TtlRead,
           TtlSkips, TtlWarns, TtlExpires, CatalogueMoves, SubmitFollowOn, TakeTicket, Work,
           CallFails, ClaimTeardown, HandOver, Destroy, Reapply, RestoreToNewSystem,
           RefreshAnswers, RecordTeardown, RecordDestroyed, RecordFollowOn, RecordFailure,
           History
  <2> QED BY <2>1
<1>3. forgotten = {} /\ StraysWereForgotten => NamedOnly
  BY DEF StraysWereForgotten, NamedOnly
<1>4. EnvSpec => []StraysWereForgotten
  BY StraysForgotten
<1> QED BY <1>1, <1>2, <1>3, <1>4, PTL DEF EnvSpec

----------------------------------------------------------------------------
(* The environment, its shutdown and the audit feed together *)

\* Where a part rests, it is as at its beginning.
LEMMA KeepingBegins == KeepingInit => EnvInit /\ PowerInit /\ FeedInit
<1>1. EnvRests => EnvInit
  <2> SUFFICES ASSUME EnvRests PROVE EnvInit
    OBVIOUS
  <2>1. [type |-> "dns", parts |-> Kinds, status |-> "draft"]
           \in [type : Types \ {"decommission"}, parts : {Kinds}, status : {"draft"}]
    BY KeepingConstants
  <2>2. ticket = [t \in Tickets |-> [type |-> "dns", parts |-> Kinds, status |-> "draft"]]
    BY DEF EnvRests
  <2>3. ticket \in [Tickets -> [type : Types \cap {"decommission"}, parts : SUBSET Kinds \ {{}},
                                status : {"draft"}]
                              \cup [type : Types \ {"decommission"}, parts : {Kinds},
                                    status : {"draft"}]]
    BY <2>1, <2>2
  <2> QED BY <2>3 DEF EnvRests, EnvInit
<1> QED BY <1>1 DEF KeepingInit

\* One part moves as it does alone, and the others not at all.
LEMMA KeepingMoves ==
    [KeepingNext]_keepingVars => [EnvNext]_envVars /\ [PowerNext]_powerVars /\ [FeedNext]_feedVars
<1> SUFFICES ASSUME [KeepingNext]_keepingVars
             PROVE  [EnvNext]_envVars /\ [PowerNext]_powerVars /\ [FeedNext]_feedVars
  OBVIOUS
<1>1. CASE UNCHANGED keepingVars
  BY <1>1 DEF keepingVars, envVars, powerVars, feedVars
<1>2. CASE KeepingNext /\ InEnv
  <2>1. EnvNext
    BY <1>2 DEF KeepingNext, InEnv, InPower, InFeed, EnvNext, Sweeping, Work, Workers
  <2> QED BY <1>2, <2>1 DEF InEnv
<1>3. CASE KeepingNext /\ InPower
  <2>1. PowerNext
    BY <1>3 DEF KeepingNext, InEnv, InPower, InFeed, PowerNext, Shutdowns
  <2> QED BY <1>3, <2>1 DEF InPower
<1>4. CASE KeepingNext /\ InFeed
  <2>1. FeedNext
    BY <1>4 DEF KeepingNext, InEnv, InPower, InFeed, FeedNext
  <2> QED BY <1>4, <2>1 DEF InFeed
<1> QED BY <1>1, <1>2, <1>3, <1>4 DEF KeepingNext

\* The inductive invariants of the three hold side by side.
THEOREM KeepingCorrect == KeepingSpec => [](EnvInv /\ PowerInv /\ CInv /\ HooksInv)
<1>1. KeepingInit => EnvInv /\ PowerInv /\ CInv /\ HooksInv
  BY KeepingBegins, EnvInvInit, PowerInvInit, CInvInit, HooksInvInit
<1>2. /\ EnvInv /\ PowerInv /\ CInv /\ HooksInv
      /\ [KeepingNext]_keepingVars
      => (EnvInv /\ PowerInv /\ CInv /\ HooksInv)'
  BY KeepingMoves, EnvInvStep, PowerInvStep, CInvStep, HooksInvStep
<1> QED BY <1>1, <1>2, PTL DEF KeepingSpec

\* The variables of the three parts keep their types.
THEOREM KeepingTypeCorrect == KeepingSpec => []KeepingTypeOK
<1>1. EnvInv /\ PowerInv /\ CInv /\ HooksInv => KeepingTypeOK
  BY DEF EnvInv, PowerInv, CInv, ChainTypeOK, HooksInv, HooksTypeOK, FeedTypeOK, KeepingTypeOK
<1> QED BY <1>1, KeepingCorrect, PTL

\* Of the three together, as TLC checks them: the audit chain raises no false alarm and the
\* feed misses only late entries; and where no layout has two machines of one kind, the
\* record matches the cloud.
THEOREM KeepingKeeps ==
    Shared = {} => (KeepingSpec => [](RecordMatchesCloud /\ NoFalseAlarm /\ OnlyLateOnesMissed))
<1> SUFFICES ASSUME Shared = {}
             PROVE  KeepingSpec => [](RecordMatchesCloud /\ NoFalseAlarm /\ OnlyLateOnesMissed)
  OBVIOUS
<1>1. EnvInv => RecordMatchesCloud
  BY DEF EnvInv, RecordAgrees, RecordMatchesCloud, HidesNothing, ShownIsThere
<1>2. CInv /\ HooksInv => NoFalseAlarm /\ OnlyLateOnesMissed
  BY DEF CInv, HooksInv, LateOnes, OnlyLateOnesMissed, NoDelivery
<1> QED BY <1>1, <1>2, KeepingCorrect, PTL
=============================================================================

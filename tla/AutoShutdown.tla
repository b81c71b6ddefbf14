---------------------------- MODULE AutoShutdown ----------------------------
(***************************************************************************)
(* Machines of one environment stopped out of hours and started again.     *)
(* A sweep and the Stop/Start button both read the registry, call the      *)
(* orchestrator with no lock held and then write what they did; the sweep  *)
(* visits other environments before and after this one and commits once,   *)
(* at its end.  A session writes only the columns it changed, and compares *)
(* with what it loaded.                                                    *)
(***************************************************************************)
EXTENDS Integers, FiniteSets

CONSTANTS Machines,    \* compute resources of the environment
          MaxMishaps   \* bound on failed calls, crashes and presses of the button

ASSUME AutoShutdownConstants == IsFiniteSet(Machines) /\ Machines # {} /\ MaxMishaps \in Nat

VARIABLES running,    \* machines that run in the cloud
          power,      \* ProvisionedResource.power_state of each
          auto,       \* Request.auto_stopped
          offHours,   \* is_off_hours of the effective policy, auto-shutdown being enabled
          sweeper,    \* the sweep's session and the button's
          presser,
          mishaps,
          stopper,    \* history: whose stop call last reached the cloud
          mixed       \* history: the two have overlapped since auto was last set alone

powerVars == <<running, power, auto, offHours, sweeper, presser, mishaps, stopper, mixed>>

PowerState == {"running", "stopped"}
\* "seen" and "auto" are the columns as the session loaded them.
Resting == [pc |-> "idle", action |-> "stop", auto |-> FALSE,
            seen |-> [m \in Machines |-> "running"]]
Session == [pc : {"idle", "loaded", "calling", "called"}, action : {"stop", "start"},
            auto : BOOLEAN, seen : [Machines -> PowerState]]

PowerTypeOK ==
    /\ running \subseteq Machines /\ power \in [Machines -> PowerState]
    /\ auto \in BOOLEAN /\ offHours \in BOOLEAN
    /\ sweeper \in Session /\ presser \in Session
    /\ mishaps \in 0 .. MaxMishaps /\ stopper \in {"nobody", "sweep", "person"}
    /\ mixed \in BOOLEAN

PowerInit ==
    /\ running = Machines /\ power = [m \in Machines |-> "running"]
    /\ auto = FALSE /\ offHours = FALSE
    /\ sweeper = Resting /\ presser = Resting
    /\ mishaps = 0 /\ stopper = "nobody" /\ mixed = FALSE

Mishap == mishaps < MaxMishaps /\ mishaps' = mishaps + 1
Registry == <<power, auto>>
All(state) == \A m \in Machines : power[m] = state
Target(action) == IF action = "stop" THEN "stopped" ELSE "running"

\* The clock, the policy or the environment's own override changes the answer.
HoursChange ==
    /\ offHours' = ~offHours
    /\ UNCHANGED <<running, Registry, sweeper, presser, mishaps, stopper, mixed>>

----------------------------------------------------------------------------
(* The calls, and what a session writes after one *)

\* Instances one after the other: the first that fails ends it, and the answer is then
\* an error.  (A lost answer is the same to the caller.)
Actuated(action, done) ==
    IF action = "stop" THEN running \ done ELSE running \cup done

\* req.auto_stopped = (a stop by the sweep); no UPDATE when that is what was loaded.
WrittenFlag(s, mine) ==
    LET flag == mine /\ s.action = "stop"
    IN  IF flag = s.auto THEN auto ELSE flag

WrittenPower(s) ==
    [m \in Machines |-> IF s.seen[m] = Target(s.action) THEN power[m] ELSE Target(s.action)]

----------------------------------------------------------------------------
(* _sweep_shutdowns *)

\* Mutant: one session for every sweep, which never expires what it loaded first.
SweepLoadsOnce ==
    /\ sweeper.pc = "idle"
    /\ sweeper' = [Resting EXCEPT !.pc = "loaded"]
    /\ mixed' = ((mixed /\ auto) \/ presser.pc # "idle")
    /\ UNCHANGED <<running, Registry, offHours, presser, mishaps, stopper>>

\* nonprod_provisioned: the requests are loaded first, with their flags.
SweepLoads ==
    /\ sweeper.pc = "idle"
    /\ sweeper' = [Resting EXCEPT !.pc = "loaded", !.auto = auto]
    /\ mixed' = ((mixed /\ auto) \/ presser.pc # "idle")
    /\ UNCHANGED <<running, Registry, offHours, presser, mishaps, stopper>>

\* Mutant: whatever is stopped in working hours is started.
DueAnyway(action) ==
    IF action = "stop" THEN offHours /\ ~All("stopped") ELSE ~offHours /\ All("stopped")

\* The power is read when the sweep comes to this environment; the flag is the one it
\* loaded.
DueNow(action) ==
    IF action = "stop" THEN offHours /\ ~All("stopped")
    ELSE ~offHours /\ All("stopped") /\ sweeper.auto

SweepDecides ==
    /\ sweeper.pc = "loaded"
    /\ \/ \E action \in {"stop", "start"} :
             /\ DueNow(action)
             /\ sweeper' = [sweeper EXCEPT !.pc = "calling", !.action = action, !.seen = power]
       \/ ~DueNow("stop") /\ ~DueNow("start") /\ sweeper' = Resting
    /\ UNCHANGED <<running, Registry, offHours, presser, mishaps, stopper, mixed>>

\* A failed call leaves nothing to write, and the next sweep decides anew.
SweepActuates ==
    /\ sweeper.pc = "calling"
    /\ \E done \in SUBSET Machines, heard \in BOOLEAN :
          /\ heard => done = Machines
          /\ running' = Actuated(sweeper.action, done)
          /\ IF heard THEN sweeper' = [sweeper EXCEPT !.pc = "called"] /\ UNCHANGED mishaps
             ELSE sweeper' = Resting /\ Mishap
    /\ stopper' = IF sweeper.action = "stop" THEN "sweep" ELSE stopper
    /\ UNCHANGED <<Registry, offHours, presser, mixed>>

SweepCommits ==
    /\ sweeper.pc = "called"
    /\ power' = WrittenPower(sweeper) /\ auto' = WrittenFlag(sweeper, TRUE)
    /\ sweeper' = Resting
    /\ UNCHANGED <<running, offHours, presser, mishaps, stopper, mixed>>

----------------------------------------------------------------------------
(* The button: actuate_request *)

\* An environment that is already where it is asked to be is left as it is, the flag
\* included.
Press(action) ==
    /\ presser.pc = "idle" /\ ~All(Target(action)) /\ Mishap
    /\ presser' = [pc |-> "calling", action |-> action, auto |-> auto, seen |-> power]
    /\ mixed' = (mixed \/ sweeper.pc # "idle")
    /\ UNCHANGED <<running, Registry, offHours, sweeper, stopper>>

PressActuates ==
    /\ presser.pc = "calling"
    /\ \E done \in SUBSET Machines, heard \in BOOLEAN :
          /\ heard => done = Machines
          /\ running' = Actuated(presser.action, done)
          /\ presser' = IF heard THEN [presser EXCEPT !.pc = "called"] ELSE Resting
    /\ stopper' = IF presser.action = "stop" THEN "person" ELSE stopper
    /\ UNCHANGED <<Registry, offHours, sweeper, mishaps, mixed>>

PressCommits ==
    /\ presser.pc = "called"
    /\ power' = WrittenPower(presser) /\ auto' = WrittenFlag(presser, FALSE)
    /\ presser' = Resting
    /\ UNCHANGED <<running, offHours, sweeper, mishaps, stopper, mixed>>

\* The API restarts: what was not committed is lost.
PowerCrash ==
    /\ Mishap /\ sweeper' = Resting /\ presser' = Resting
    /\ UNCHANGED <<running, Registry, offHours, stopper, mixed>>

Shutdowns == SweepLoads \/ SweepDecides \/ SweepActuates \/ SweepCommits

PowerNext ==
    \/ HoursChange \/ Shutdowns \/ PressActuates \/ PressCommits \/ PowerCrash
    \/ \E action \in {"stop", "start"} : Press(action)

\* The poller sweeps for ever.
PowerSpec == PowerInit /\ [][PowerNext]_powerVars /\ WF_powerVars(Shutdowns)
----------------------------------------------------------------------------
\* The sweep starts only what a sweep stopped (api/main.py:7854): after a stop a person
\* carried out it leaves the environment alone, through failed calls and restarts, unless
\* the two worked on it at the same time.
StartsWhatItStopped ==
    [][sweeper.pc = "loaded" /\ sweeper'.pc = "calling" /\ sweeper'.action = "start"
          => stopper = "sweep" \/ mixed]_powerVars

\* What a sweep is on record as having stopped is started again in working hours, whatever
\* call failed, unless a person takes over.
StoppedComesBack ==
    auto /\ ~offHours /\ All("stopped") ~> offHours \/ ~All("stopped") \/ ~auto
=============================================================================

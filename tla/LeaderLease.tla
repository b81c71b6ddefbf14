----------------------------- MODULE LeaderLease -----------------------------
(***************************************************************************)
(* The single-active lease of the background poller: api/leader.py, and    *)
(* the poller loop, its sweep and its heartbeat thread in api/main.py.     *)
(*                                                                         *)
(* Several API replicas share one LeaderLease row.  Each runs a loop that  *)
(* tries the lease every Renew seconds and, when it has it and Interval    *)
(* seconds went by since its last sweep, runs the sweep INLINE.  While the *)
(* sweep runs, a heartbeat thread renews the lease every Renew seconds,    *)
(* until the sweep ends or a watchdog deadline passes.                     *)
(*                                                                         *)
(* Time is relative, so that the model is finite and unbounded in time:    *)
(* `left` counts down to the row's expires_at and the other timers count   *)
(* up or down with it; Tick is one second of all of them.  Skew[r] is how  *)
(* far replica r's clock runs ahead of the slowest one (try_acquire        *)
(* compares and writes with the CALLER's clock).                           *)
(***************************************************************************)

EXTENDS Integers

CONSTANTS
    Replicas,      \* API processes that may run the poller
    Nobody,        \* a holder id no live process has (a dead INSTANCE_ID, no row)
    TTL,           \* leader.ttl_seconds()
    Renew,         \* `renew` of _poller_loop: max(2, min(interval, ttl // 2))
    Interval,      \* POLL_INTERVAL_SECONDS
    Watchdog,      \* sweep_watchdog_seconds()
    Skew,          \* [Replicas -> Nat], clock offsets
    Slack,         \* how late a runnable thread may be scheduled
    MaxMisses      \* consecutive renewals a heartbeat may lose to errors

ASSUME LeaseConstants ==
    /\ Nobody \notin Replicas
    /\ TTL \in Nat \ {0} /\ Renew \in Nat \ {0} /\ Interval \in Nat
    /\ Watchdog \in Nat \ {0} /\ Slack \in Nat /\ MaxMisses \in Nat
    /\ Skew \in [Replicas -> Nat]

VARIABLES
    holder,   \* LeaderLease.holder
    left,     \* seconds until LeaderLease.expires_at, 0 once it has passed
    loop,     \* where each replica's _poller_loop is
    was,      \* was_leader
    stop,     \* _poller_stop is set
    cool,     \* seconds until `now - last_poll >= interval`
    hb,       \* the heartbeat thread of the running sweep
    stray,    \* a heartbeat of a finished sweep, already past its stop check
    timer,    \* seconds the loop (idle, elected) or the heartbeat has waited
    misses,   \* renewals the heartbeat has lost in a row
    age       \* seconds the sweep has run, up to Watchdog

vars == <<holder, left, loop, was, stop, cool, hb, stray, timer, misses, age>>
lease == <<holder, left>>

LoopState == {"off", "idle", "elected", "sweep", "done"}
HbState   == {"off", "wait", "woken"}

Running(r) == loop[r] \in {"idle", "elected", "sweep"}

\* A sweep that is about to run, or runs with its heartbeat alive.  A sweep the
\* watchdog has given up (hb = "off") is the documented escape hatch.
Guarded(r) == loop[r] = "elected" \/ (loop[r] = "sweep" /\ hb[r] # "off")

-----------------------------------------------------------------------------
(* leader.try_acquire and leader.release                                   *)

\* Mutants: no expiry clause; the expiry compared the wrong way round.
CanTakeOwnOnly(r)   == holder = r
CanTakeUnexpired(r) == holder = r \/ left >= Skew[r]

\* The WHERE clause of the conditional UPDATE (or the INSERT of a first row).
CanTake(r) == holder = r \/ left <= Skew[r]

\* One try_acquire by r: the row changes only if the WHERE clause matches.
TryAcquire(r) ==
    IF CanTake(r)
      THEN holder' = r /\ left' = TTL + Skew[r]
      ELSE UNCHANGED lease

\* Mutant: expires_at set a whole TTL back.
ReleaseBackdated(r) ==
    IF holder = r
      THEN left' = Skew[r] - TTL /\ UNCHANGED holder
      ELSE UNCHANGED lease

\* expires_at := now, only where holder = r.
Release(r) ==
    IF holder = r
      THEN left' = Skew[r] /\ UNCHANGED holder
      ELSE UNCHANGED lease

-----------------------------------------------------------------------------
Init ==
    /\ holder = Nobody /\ left = 0
    /\ loop = [r \in Replicas |-> "off"]
    /\ was = [r \in Replicas |-> FALSE]
    /\ stop = [r \in Replicas |-> FALSE]
    /\ cool = [r \in Replicas |-> 0]
    /\ hb = [r \in Replicas |-> "off"]
    /\ stray = [r \in Replicas |-> FALSE]
    /\ timer = [r \in Replicas |-> 0]
    /\ misses = [r \in Replicas |-> 0]
    /\ age = [r \in Replicas |-> 0]

\* _start_poller in a new process: a new INSTANCE_ID, last_poll = 0.
Start(r) ==
    /\ loop[r] = "off"
    /\ loop' = [loop EXCEPT ![r] = "idle"]
    /\ timer' = [timer EXCEPT ![r] = Renew]
    /\ UNCHANGED <<lease, was, stop, cool, hb, stray, misses, age>>

\* The top of the loop: one try_acquire, then sweep if leader and due.
LoopTick(r) ==
    /\ loop[r] = "idle" /\ ~stop[r] /\ timer[r] >= Renew
    /\ TryAcquire(r)
    /\ was' = [was EXCEPT ![r] = CanTake(r)]
    /\ loop' = [loop EXCEPT ![r] = IF CanTake(r) /\ cool[r] = 0 THEN "elected" ELSE "idle"]
    /\ timer' = [timer EXCEPT ![r] = 0]
    /\ UNCHANGED <<stop, cool, hb, stray, misses, age>>

\* The same try_acquire raising: "treat any lease error as not leader".
LoopTickFails(r) ==
    /\ loop[r] = "idle" /\ ~stop[r] /\ timer[r] >= Renew
    /\ was' = [was EXCEPT ![r] = FALSE]
    /\ timer' = [timer EXCEPT ![r] = 0]
    /\ UNCHANGED <<lease, loop, stop, cool, hb, stray, misses, age>>

\* last_poll = now, start the heartbeat thread, enter _poll_once.
BeginSweep(r) ==
    /\ loop[r] = "elected"
    /\ loop' = [loop EXCEPT ![r] = "sweep"]
    /\ hb' = [hb EXCEPT ![r] = "wait"]
    /\ cool' = [cool EXCEPT ![r] = Interval]
    /\ timer' = [timer EXCEPT ![r] = 0]
    /\ UNCHANGED <<lease, was, stop, stray, misses, age>>

\* _poll_once returns or raises; `finally: _sweep_stop.set()`.  A heartbeat
\* past its stop check is not joined: it still makes its call (stray).
EndSweep(r) ==
    /\ loop[r] = "sweep"
    /\ loop' = [loop EXCEPT ![r] = "idle"]
    /\ hb' = [hb EXCEPT ![r] = "off"]
    /\ stray' = [stray EXCEPT ![r] = stray[r] \/ hb[r] = "woken"]
    /\ timer' = [timer EXCEPT ![r] = 0]
    /\ misses' = [misses EXCEPT ![r] = 0]
    /\ age' = [age EXCEPT ![r] = 0]
    /\ UNCHANGED <<lease, was, stop, cool>>

\* Mutant: the deadline is not looked at.
HbWakeForEver(r) ==
    /\ hb[r] = "wait" /\ timer[r] >= Renew
    /\ hb' = [hb EXCEPT ![r] = "woken"]
    /\ UNCHANGED <<lease, loop, was, stop, cool, stray, timer, misses, age>>

\* stop.wait(every) timed out.  Past the deadline the thread ends for good.
HbWake(r) ==
    /\ hb[r] = "wait" /\ timer[r] >= Renew
    /\ hb' = [hb EXCEPT ![r] = IF age[r] >= Watchdog THEN "off" ELSE "woken"]
    /\ UNCHANGED <<lease, loop, was, stop, cool, stray, timer, misses, age>>

\* Mutant: the renewal is never committed.
HbRenewUncommitted(r) ==
    /\ hb[r] = "woken"
    /\ hb' = [hb EXCEPT ![r] = "wait"]
    /\ timer' = [timer EXCEPT ![r] = 0]
    /\ misses' = [misses EXCEPT ![r] = 0]
    /\ UNCHANGED <<lease, loop, was, stop, cool, stray, age>>

\* The heartbeat's try_acquire.  Its result is not looked at.
HbRenew(r) ==
    /\ hb[r] = "woken"
    /\ TryAcquire(r)
    /\ hb' = [hb EXCEPT ![r] = "wait"]
    /\ timer' = [timer EXCEPT ![r] = 0]
    /\ misses' = [misses EXCEPT ![r] = 0]
    /\ UNCHANGED <<loop, was, stop, cool, stray, age>>

\* The heartbeat's try_acquire raising: "a renewal failure is not fatal here".
HbMiss(r) ==
    /\ hb[r] = "woken" /\ misses[r] < MaxMisses
    /\ hb' = [hb EXCEPT ![r] = "wait"]
    /\ timer' = [timer EXCEPT ![r] = 0]
    /\ misses' = [misses EXCEPT ![r] = @ + 1]
    /\ UNCHANGED <<lease, loop, was, stop, cool, stray, age>>

\* The heartbeat of a finished sweep completes the call it had begun.
StrayRenew(r) ==
    /\ stray[r]
    /\ TryAcquire(r)
    /\ stray' = [stray EXCEPT ![r] = FALSE]
    /\ UNCHANGED <<loop, was, stop, cool, hb, timer, misses, age>>

\* _stop_poller: only the loop's own test and wait look at the event.
StopPoller(r) ==
    /\ Running(r) /\ ~stop[r]
    /\ stop' = [stop EXCEPT ![r] = TRUE]
    /\ UNCHANGED <<lease, loop, was, cool, hb, stray, timer, misses, age>>

\* The loop leaves, releasing the lease if it believed itself the leader.
ExitLoop(r) ==
    /\ loop[r] = "idle" /\ stop[r]
    /\ IF was[r] THEN Release(r) ELSE UNCHANGED lease
    /\ loop' = [loop EXCEPT ![r] = "done"]
    /\ UNCHANGED <<was, stop, cool, hb, stray, timer, misses, age>>

\* The process dies or ends (its threads are daemons).  Its INSTANCE_ID dies
\* with it: whatever lease it held is nobody's until it expires.
ProcessEnds(r) ==
    /\ loop[r] # "off"
    /\ holder' = IF holder = r THEN Nobody ELSE holder
    /\ loop' = [loop EXCEPT ![r] = "off"]
    /\ hb' = [hb EXCEPT ![r] = "off"]
    /\ stray' = [stray EXCEPT ![r] = FALSE]
    /\ was' = [was EXCEPT ![r] = FALSE]
    /\ stop' = [stop EXCEPT ![r] = FALSE]
    /\ cool' = [cool EXCEPT ![r] = 0]
    /\ timer' = [timer EXCEPT ![r] = 0]
    /\ misses' = [misses EXCEPT ![r] = 0]
    /\ age' = [age EXCEPT ![r] = 0]
    /\ UNCHANGED left

\* How late a step of r may be: an elected loop starts its sweep within Slack,
\* a heartbeat makes its call within Slack of the end of its wait.
Timely(r) ==
    /\ loop[r] = "elected" => timer[r] < Slack
    /\ loop[r] = "sweep" /\ hb[r] # "off" => timer[r] < Renew + Slack

CountUp(n, bound) == IF n < bound THEN n + 1 ELSE n
CountDown(n)      == IF n > 0 THEN n - 1 ELSE 0

\* One second passes for everybody.
Tick ==
    /\ \A r \in Replicas : Timely(r)
    /\ left' = CountDown(left)
    /\ cool' = [r \in Replicas |-> CountDown(cool[r])]
    /\ timer' = [r \in Replicas |-> CountUp(timer[r], Renew + Slack)]
    /\ age' = [r \in Replicas |-> IF loop[r] = "sweep" THEN CountUp(age[r], Watchdog) ELSE 0]
    /\ UNCHANGED <<holder, loop, was, stop, hb, stray, misses>>

Loop(r) == LoopTick(r) \/ LoopTickFails(r) \/ BeginSweep(r) \/ EndSweep(r) \/ ExitLoop(r)

Heartbeat(r) == HbWake(r) \/ HbRenew(r) \/ HbMiss(r) \/ StrayRenew(r)

Process(r) == Start(r) \/ StopPoller(r) \/ ProcessEnds(r)

Next == Tick \/ \E r \in Replicas : Loop(r) \/ Heartbeat(r) \/ Process(r)

Spec == Init /\ [][Next]_vars

\* The scheduler runs the loops and heartbeats that are ready, and time passes.
\* Strong fairness of LoopTick: the database does not fail at every tick for
\* ever.  Nothing makes a sweep END (it may be wedged), a process start or die.
Fairness ==
    /\ WF_vars(Tick)
    /\ \A r \in Replicas :
         /\ SF_vars(LoopTick(r)) /\ WF_vars(BeginSweep(r)) /\ WF_vars(ExitLoop(r))
         /\ WF_vars(HbWake(r)) /\ WF_vars(HbRenew(r)) /\ WF_vars(StrayRenew(r))

\* Replicas do not crash-loop for ever (one that did could win every election
\* and die in every sweep).
Settles == <>[][\A r \in Replicas : ~ProcessEnds(r)]_vars

LiveSpec == Spec /\ Fairness /\ Settles

-----------------------------------------------------------------------------
(* Properties                                                              *)

TypeOK ==
    /\ holder \in Replicas \cup {Nobody}
    /\ left \in Nat
    /\ loop \in [Replicas -> LoopState]
    /\ was \in [Replicas -> BOOLEAN]
    /\ stop \in [Replicas -> BOOLEAN]
    /\ cool \in [Replicas -> Nat]
    /\ hb \in [Replicas -> HbState]
    /\ stray \in [Replicas -> BOOLEAN]
    /\ timer \in [Replicas -> Nat]
    /\ misses \in [Replicas -> Nat]
    /\ age \in [Replicas -> Nat]

\* The arithmetic the deployment must satisfy for the lease to do its work: the
\* longest gap between two successful lease calls of a sweeping replica, plus
\* the difference of two clocks, stays below the TTL.
Period == Renew + Slack
TimelyRenewal ==
    \A r, q \in Replicas :
        Slack + (MaxMisses + 1) * Period + Skew[q] - Skew[r] < TTL

\* While a sweep runs with its heartbeat alive, the lease is its own and has not
\* run out on ANY replica's clock, so nobody else can be made the leader: the
\* module's "must run in exactly ONE replica at a time".
LeaseCoversSweep ==
    \A r \in Replicas : Guarded(r) => holder = r /\ \A q \in Replicas : left > Skew[q]

\* No two replicas sweep at once, leaving aside a sweep its watchdog gave up:
\* "otherwise N replicas would advance the same request" (api/leader.py).
OneGuardedSweep ==
    \A r, q \in Replicas : Guarded(r) /\ Guarded(q) => r = q

\* The lease implements mutual exclusion of sweeps, step by step.
ES == INSTANCE ExclusiveSweep WITH active <- {r \in Replicas : Guarded(r)}
ImplementsExclusiveSweep == ES!Spec

\* A wedged sweep does not keep the poller for ever: once it is past its
\* watchdog, another running replica comes to sweep ("lets a standby take over,
\* so this cannot become a lease held by a dead loop").
WedgedSweepIsReplaced ==
    \A r, q \in Replicas :
        (r # q /\ loop[r] = "sweep" /\ age[r] >= Watchdog /\ Running(q) /\ ~stop[q])
        ~> (loop[r] # "sweep" \/ ~Running(q) \/ stop[q]
            \/ \E p \in Replicas \ {r} : loop[p] = "sweep")

\* As long as some replica's poller is up, requests get swept, whatever lease a
\* dead replica left behind ("if it dies, the lease expires and another replica
\* takes over").
SomebodySweeps ==
    \A r \in Replicas :
        (Running(r) /\ ~stop[r])
        ~> (~Running(r) \/ stop[r] \/ \E q \in Replicas : loop[q] = "sweep")

=============================================================================

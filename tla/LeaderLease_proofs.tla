------------------------- MODULE LeaderLease_proofs -------------------------
(***************************************************************************)
(* Theorems of LeaderLease, for every set of replicas and every setting of *)
(* the timers, with their proofs.                                          *)
(*                                                                         *)
(* The safety argument: a guarded sweep holds the lease, and what is left  *)
(* of it is the TTL less the time since the last successful call, which    *)
(* the heartbeat keeps below the TTL.  Cover is that bookkeeping: after m  *)
(* lost renewals the time since the last success is at most the start-up   *)
(* delay, m periods, and the current wait.                                 *)
(***************************************************************************)
EXTENDS LeaderLease, TLAPS

\* The lease arithmetic of one replica.
Cover(r) ==
    /\ hb[r] # "off" => loop[r] = "sweep"
    /\ loop[r] # "sweep" => misses[r] = 0
    /\ loop[r] = "elected" =>
          /\ holder = r
          /\ timer[r] <= Slack
          /\ left + timer[r] >= TTL + Skew[r]
    /\ loop[r] = "sweep" /\ hb[r] # "off" =>
          /\ holder = r
          /\ timer[r] <= Period
          /\ misses[r] <= MaxMisses
          /\ left + timer[r] + misses[r] * Period + Slack >= TTL + Skew[r]

IInv == TypeOK /\ \A r \in Replicas : Cover(r)

-----------------------------------------------------------------------------
\* Every step keeps the variables in their types.
LEMMA TypeStep == TypeOK /\ [Next]_vars => TypeOK'
<1> SUFFICES ASSUME TypeOK, [Next]_vars PROVE TypeOK'
  OBVIOUS
<1> USE LeaseConstants DEF TypeOK, LoopState, HbState
<1>1. CASE Tick
  BY <1>1 DEF Tick, CountUp, CountDown
<1>2. ASSUME NEW r \in Replicas, Loop(r) PROVE TypeOK'
  <2>1. CASE LoopTick(r)
    BY <2>1 DEF LoopTick, TryAcquire, CanTake, lease
  <2>2. CASE LoopTickFails(r)
    BY <2>2 DEF LoopTickFails, lease
  <2>3. CASE BeginSweep(r)
    BY <2>3 DEF BeginSweep, lease
  <2>4. CASE EndSweep(r)
    BY <2>4 DEF EndSweep, lease
  <2>5. CASE ExitLoop(r)
    BY <2>5 DEF ExitLoop, Release, lease
  <2>6. QED
    BY <1>2, <2>1, <2>2, <2>3, <2>4, <2>5 DEF Loop
<1>3. ASSUME NEW r \in Replicas, Heartbeat(r) PROVE TypeOK'
  <2>1. CASE HbWake(r)
    BY <2>1 DEF HbWake, lease
  <2>2. CASE HbRenew(r)
    BY <2>2 DEF HbRenew, TryAcquire, CanTake, lease
  <2>3. CASE HbMiss(r)
    BY <2>3 DEF HbMiss, lease
  <2>4. CASE StrayRenew(r)
    BY <2>4 DEF StrayRenew, TryAcquire, CanTake, lease
  <2>5. QED
    BY <1>3, <2>1, <2>2, <2>3, <2>4 DEF Heartbeat
<1>4. ASSUME NEW r \in Replicas, Process(r) PROVE TypeOK'
  <2>1. CASE Start(r)
    BY <2>1 DEF Start, lease
  <2>2. CASE StopPoller(r)
    BY <2>2 DEF StopPoller, lease
  <2>3. CASE ProcessEnds(r)
    BY <2>3 DEF ProcessEnds, lease
  <2>4. QED
    BY <1>4, <2>1, <2>2, <2>3 DEF Process
<1>5. CASE UNCHANGED vars
  BY <1>5 DEF vars
<1>6. QED
  BY <1>1, <1>2, <1>3, <1>4, <1>5 DEF Next

\* The variables of the poller and of the lease row keep their types.
THEOREM TypeCorrect == Spec => []TypeOK
<1>1. Init => TypeOK
  BY LeaseConstants DEF Init, TypeOK, LoopState, HbState
<1>2. QED
  BY <1>1, TypeStep, PTL DEF Spec

-----------------------------------------------------------------------------
\* Losing m renewals costs at most as much as losing MaxMisses.
LEMMA MissCost ==
  ASSUME NEW m \in Nat, m <= MaxMisses
  PROVE  m * Period \in Nat /\ m * Period <= MaxMisses * Period
<1>1. Period \in Nat
  BY LeaseConstants DEF Period
<1>2. \A p, a, b \in Nat : a <= b => a * p \in Nat /\ a * p <= b * p
  BY SMT
<1>3. QED
  BY <1>1, <1>2, LeaseConstants

\* A guarded sweep's lease has not run out on any replica's clock.
LEMMA GuardedLease ==
  ASSUME TimelyRenewal, IInv, NEW r \in Replicas, NEW q \in Replicas, Guarded(r)
  PROVE  holder = r /\ left > Skew[q]
<1> USE LeaseConstants DEF IInv, TypeOK
<1>1. Slack + (MaxMisses + 1) * Period + Skew[q] - Skew[r] < TTL
  BY DEF TimelyRenewal
<1>2. (MaxMisses + 1) * Period = MaxMisses * Period + Period
      /\ MaxMisses * Period \in Nat /\ Period \in Nat
  <2>1. Period \in Nat
    BY DEF Period
  <2>2. \A p, a \in Nat : (a + 1) * p = a * p + p /\ a * p \in Nat
    BY SMT
  <2>3. QED
    BY <2>1, <2>2
<1>3. CASE loop[r] = "elected"
  BY <1>1, <1>2, <1>3 DEF Cover
<1>4. CASE loop[r] = "sweep" /\ hb[r] # "off"
  <2>1. /\ holder = r /\ timer[r] <= Period /\ misses[r] <= MaxMisses
        /\ left + timer[r] + misses[r] * Period + Slack >= TTL + Skew[r]
    BY <1>4 DEF Cover
  <2>2. misses[r] * Period \in Nat /\ misses[r] * Period <= MaxMisses * Period
    BY <2>1, MissCost
  <2>3. QED
    BY <1>1, <1>2, <2>1, <2>2
<1>5. QED
  BY <1>3, <1>4 DEF Guarded

\* So another replica's try_acquire cannot succeed while r's sweep is guarded.
LEMMA NoTakeover ==
  ASSUME TimelyRenewal, IInv, NEW r \in Replicas, NEW q \in Replicas, q # r,
         Guarded(r)
  PROVE  ~CanTake(q)
<1>1. holder = r /\ left > Skew[q]
  BY GuardedLease
<1>2. QED
  BY <1>1, LeaseConstants DEF CanTake, IInv, TypeOK

\* A step that leaves r's threads alone, and the lease too if r is guarded,
\* keeps r's bookkeeping.
LEMMA Frame ==
  ASSUME NEW r \in Replicas, Cover(r),
         loop'[r] = loop[r], hb'[r] = hb[r], timer'[r] = timer[r],
         misses'[r] = misses[r],
         Guarded(r) => holder' = holder /\ left' = left
  PROVE  Cover(r)'
<1>1. CASE Guarded(r)
  BY <1>1 DEF Cover
<1>2. CASE ~Guarded(r)
  BY <1>2 DEF Cover, Guarded
<1>3. QED
  BY <1>1, <1>2

\* What a step of another replica does to r: nothing to its threads, nothing to
\* a lease that covers its sweep.
LEMMA OtherReplica ==
  ASSUME TimelyRenewal, IInv, NEW r \in Replicas, NEW q \in Replicas, q # r,
         Loop(q) \/ Heartbeat(q) \/ Process(q)
  PROVE  Cover(r)'
<1> USE DEF IInv, TypeOK
<1>1. Guarded(r) => holder = r /\ ~CanTake(q)
  BY GuardedLease, NoTakeover
<1>2. TryAcquire(q) => (Guarded(r) => holder' = holder /\ left' = left)
  BY <1>1 DEF TryAcquire, lease
<1>3. ASSUME Loop(q) PROVE Cover(r)'
  <2>1. CASE LoopTick(q)
    BY <1>2, <2>1, Frame DEF LoopTick
  <2>2. CASE LoopTickFails(q)
    BY <2>2, Frame DEF LoopTickFails, lease
  <2>3. CASE BeginSweep(q)
    BY <2>3, Frame DEF BeginSweep, lease
  <2>4. CASE EndSweep(q)
    BY <2>4, Frame DEF EndSweep, lease
  <2>5. CASE ExitLoop(q)
    BY <1>1, <2>5, Frame DEF ExitLoop, Release, lease
  <2>6. QED
    BY <1>3, <2>1, <2>2, <2>3, <2>4, <2>5 DEF Loop
<1>4. ASSUME Heartbeat(q) PROVE Cover(r)'
  <2>1. CASE HbWake(q)
    BY <2>1, Frame DEF HbWake, lease
  <2>2. CASE HbRenew(q)
    BY <1>2, <2>2, Frame DEF HbRenew
  <2>3. CASE HbMiss(q)
    BY <2>3, Frame DEF HbMiss, lease
  <2>4. CASE StrayRenew(q)
    BY <1>2, <2>4, Frame DEF StrayRenew
  <2>5. QED
    BY <1>4, <2>1, <2>2, <2>3, <2>4 DEF Heartbeat
<1>5. ASSUME Process(q) PROVE Cover(r)'
  <2>1. CASE Start(q)
    BY <2>1, Frame DEF Start, lease
  <2>2. CASE StopPoller(q)
    BY <2>2, Frame DEF StopPoller, lease
  <2>3. CASE ProcessEnds(q)
    BY <1>1, <2>3, Frame DEF ProcessEnds
  <2>4. QED
    BY <1>5, <2>1, <2>2, <2>3 DEF Process
<1>6. QED
  BY <1>3, <1>4, <1>5

\* What a step of r itself does: a successful call starts the account afresh, a
\* lost one moves a period's wait onto it.
LEMMA SameReplica ==
  ASSUME IInv, NEW r \in Replicas, Loop(r) \/ Heartbeat(r) \/ Process(r)
  PROVE  Cover(r)'
<1> USE LeaseConstants DEF IInv, TypeOK
<1>1. Cover(r) /\ Period \in Nat
  BY DEF Period
<1>2. \A p \in Nat : 0 * p = 0
  BY SMT
<1>3. ASSUME Loop(r) PROVE Cover(r)'
  <2>1. CASE LoopTick(r)
    BY <1>1, <2>1 DEF Cover, LoopTick, TryAcquire
  <2>2. CASE LoopTickFails(r)
    BY <1>1, <2>2 DEF Cover, LoopTickFails, lease
  <2>3. CASE BeginSweep(r)
    <3>1. /\ holder' = r /\ hb'[r] = "wait" /\ loop'[r] = "sweep"
          /\ timer'[r] = 0 /\ misses'[r] = 0 /\ left' = left
          /\ left + Slack >= TTL + Skew[r]
      BY <1>1, <2>3 DEF Cover, BeginSweep, lease
    <3>2. misses'[r] * Period = 0
      BY <1>1, <1>2, <3>1
    <3>3. QED
      BY <1>1, <3>1, <3>2 DEF Cover
  <2>4. CASE EndSweep(r)
    BY <1>1, <2>4 DEF Cover, EndSweep, lease
  <2>5. CASE ExitLoop(r)
    BY <1>1, <2>5 DEF Cover, ExitLoop
  <2>6. QED
    BY <1>3, <2>1, <2>2, <2>3, <2>4, <2>5 DEF Loop
<1>4. ASSUME Heartbeat(r) PROVE Cover(r)'
  <2>1. CASE HbWake(r)
    BY <1>1, <2>1 DEF Cover, HbWake, lease
  <2>2. CASE HbRenew(r)
    <3>1. /\ holder' = r /\ left' = TTL + Skew[r]
          /\ loop'[r] = "sweep" /\ timer'[r] = 0 /\ misses'[r] = 0
      BY <1>1, <2>2 DEF Cover, HbRenew, TryAcquire, CanTake
    <3>2. misses'[r] * Period = 0
      BY <1>1, <1>2, <3>1
    <3>3. QED
      BY <1>1, <3>1, <3>2 DEF Cover
  <2>3. CASE HbMiss(r)
    <3>1. /\ holder' = r /\ left' = left /\ timer'[r] = 0
          /\ loop'[r] = "sweep" /\ misses'[r] = misses[r] + 1
          /\ misses'[r] <= MaxMisses /\ timer[r] <= Period
          /\ left + timer[r] + misses[r] * Period + Slack >= TTL + Skew[r]
      BY <1>1, <2>3 DEF Cover, HbMiss, lease
    <3>2. \A p, a \in Nat : (a + 1) * p = a * p + p /\ a * p \in Nat
      BY SMT
    <3>3. /\ misses'[r] * Period = misses[r] * Period + Period
          /\ misses[r] * Period \in Nat
      BY <1>1, <3>1, <3>2
    <3>4. QED
      BY <1>1, <3>1, <3>3 DEF Cover
  <2>4. CASE StrayRenew(r)
    BY <1>1, <2>4 DEF Cover, StrayRenew, TryAcquire, lease
  <2>5. QED
    BY <1>4, <2>1, <2>2, <2>3, <2>4 DEF Heartbeat
<1>5. ASSUME Process(r) PROVE Cover(r)'
  <2>1. CASE Start(r)
    BY <1>1, <2>1 DEF Cover, Start, lease
  <2>2. CASE StopPoller(r)
    BY <1>1, <2>2 DEF Cover, StopPoller, lease
  <2>3. CASE ProcessEnds(r)
    BY <1>1, <2>3 DEF Cover, ProcessEnds
  <2>4. QED
    BY <1>5, <2>1, <2>2, <2>3 DEF Process
<1>6. QED
  BY <1>3, <1>4, <1>5

\* A second that passes is charged to every account at once.
LEMMA TickCover ==
  ASSUME IInv, Tick, NEW r \in Replicas
  PROVE  Cover(r)'
<1> USE LeaseConstants DEF IInv, TypeOK
<1>1. Cover(r) /\ Timely(r) /\ Period \in Nat /\ Period = Renew + Slack
  BY DEF Tick, Period
<1>2. /\ holder' = holder /\ loop'[r] = loop[r] /\ hb'[r] = hb[r]
      /\ misses'[r] = misses[r]
      /\ left' \in Nat /\ left' >= left - 1
      /\ timer'[r] = IF timer[r] < Renew + Slack THEN timer[r] + 1 ELSE timer[r]
  BY DEF Tick, CountDown, CountUp
<1>3. CASE loop[r] = "elected"
  BY <1>1, <1>2, <1>3 DEF Cover, Timely
<1>4. CASE loop[r] = "sweep" /\ hb[r] # "off"
  <2>1. misses[r] * Period \in Nat
    BY <1>1, <1>4, MissCost DEF Cover
  <2>2. timer'[r] = timer[r] + 1 /\ timer'[r] <= Period
    BY <1>1, <1>2, <1>4 DEF Timely
  <2>3. misses'[r] * Period = misses[r] * Period
    BY <1>2
  <2>4. left' + timer'[r] + misses'[r] * Period + Slack >= TTL + Skew[r]
    BY <1>1, <1>2, <1>4, <2>1, <2>2, <2>3 DEF Cover
  <2>5. QED
    BY <1>1, <1>2, <1>4, <2>2, <2>4 DEF Cover
<1>5. CASE ~Guarded(r)
  BY <1>1, <1>2, <1>5 DEF Cover, Guarded
<1>6. QED
  BY <1>3, <1>4, <1>5 DEF Guarded

LEMMA IInvStep == TimelyRenewal /\ IInv /\ [Next]_vars => IInv'
<1> SUFFICES ASSUME TimelyRenewal, IInv, [Next]_vars, NEW r \in Replicas
             PROVE  Cover(r)'
  BY TypeStep DEF IInv
<1>1. CASE Tick
  BY <1>1, TickCover
<1>2. ASSUME NEW q \in Replicas, Loop(q) \/ Heartbeat(q) \/ Process(q)
      PROVE  Cover(r)'
  BY <1>2, OtherReplica, SameReplica
<1>3. CASE UNCHANGED vars
  BY <1>3, Frame DEF vars, IInv
<1>4. QED
  BY <1>1, <1>2, <1>3 DEF Next

LEMMA IInvInit == Init => IInv
BY LeaseConstants DEF Init, IInv, TypeOK, Cover, LoopState, HbState

\* A guarded sweep is covered by a lease of its own that no replica's clock has
\* seen expire (api/leader.py try_acquire and the heartbeat of api/main.py), for
\* every TTL, renewal period, skew and number of lost renewals that satisfy
\* TimelyRenewal.
THEOREM SweepIsCovered == TimelyRenewal => (Spec => []LeaseCoversSweep)
<1>1. IInv /\ TimelyRenewal => LeaseCoversSweep
  BY GuardedLease DEF LeaseCoversSweep
<1> SUFFICES ASSUME TimelyRenewal PROVE Spec => []LeaseCoversSweep
  OBVIOUS
<1>2. IInv /\ [Next]_vars => IInv'
  BY IInvStep
<1>3. IInv => LeaseCoversSweep
  BY <1>1
<1>4. QED
  BY IInvInit, <1>2, <1>3, PTL DEF Spec

\* The poller runs in one replica at a time (api/leader.py), but for sweeps that
\* their watchdog has given up.
THEOREM OneSweep == TimelyRenewal => (Spec => []OneGuardedSweep)
<1>1. LeaseCoversSweep => OneGuardedSweep
  BY DEF LeaseCoversSweep, OneGuardedSweep
<1>2. QED
  BY <1>1, SweepIsCovered, PTL

-----------------------------------------------------------------------------
LEMMA StepMapsToStep ==
  ASSUME TimelyRenewal, IInv, IInv', [Next]_vars
  PROVE  [ES!Next]_{r \in Replicas : Guarded(r)}
<1> DEFINE A == {r \in Replicas : Guarded(r)}
<1>1. ASSUME NEW r \in Replicas,
             \A q \in Replicas : q # r => (Guarded(q)' <=> Guarded(q))
      PROVE  [ES!Next]_A
  <2>1. CASE Guarded(r)' <=> Guarded(r)
    BY <1>1, <2>1
  <2>2. CASE Guarded(r) /\ ~Guarded(r)'
    <3>1. A' = A \ {r} /\ r \in A
      BY <1>1, <2>2
    <3>2. QED
      BY <3>1 DEF ES!Next, ES!Leave
  <2>3. CASE ~Guarded(r) /\ Guarded(r)'
    <3>1. A' = A \cup {r} /\ r \notin A
      BY <1>1, <2>3
    <3>2. A = {}
      <4> SUFFICES ASSUME NEW q \in Replicas, Guarded(q) PROVE FALSE
        OBVIOUS
      <4>1. q # r /\ Guarded(q)'
        BY <1>1, <2>3
      <4>2. holder' = q /\ holder' = r
        <5>1. TimelyRenewal'
          BY DEF TimelyRenewal, Period
        <5>2. \A x \in Replicas : Guarded(x)' => holder' = x
          BY <5>1 DEF IInv, Cover, Guarded
        <5>3. QED
          BY <2>3, <4>1, <5>2
      <4>3. QED
        BY <4>1, <4>2
    <3>3. A' = {r}
      BY <3>1, <3>2
    <3>4. QED
      BY <3>2, <3>3 DEF ES!Next, ES!Enter
  <2>4. QED
    BY <2>1, <2>2, <2>3 DEF Guarded
<1>2. CASE Tick \/ UNCHANGED vars
  <2>1. A' = A
    BY <1>2 DEF Tick, Guarded, vars
  <2>2. QED
    BY <2>1
<1>3. ASSUME NEW r \in Replicas, Loop(r) \/ Heartbeat(r) \/ Process(r)
      PROVE  [ES!Next]_A
  <2>1. \A q \in Replicas : q # r => loop'[q] = loop[q] /\ hb'[q] = hb[q]
    <3> USE DEF IInv, TypeOK
    <3>1. CASE Loop(r)
      BY <3>1 DEF Loop, LoopTick, LoopTickFails, BeginSweep, EndSweep, ExitLoop
    <3>2. CASE Heartbeat(r)
      BY <3>2 DEF Heartbeat, HbWake, HbRenew, HbMiss, StrayRenew
    <3>3. CASE Process(r)
      BY <3>3 DEF Process, Start, StopPoller, ProcessEnds
    <3>4. QED
      BY <1>3, <3>1, <3>2, <3>3
  <2>2. \A q \in Replicas : q # r => (Guarded(q)' <=> Guarded(q))
    BY <2>1 DEF Guarded
  <2>3. QED
    BY <1>1, <2>2
<1>4. QED
  BY <1>2, <1>3 DEF Next

\* The lease, its loops and its heartbeats implement mutual exclusion of sweeps:
\* every step enters an empty critical section, leaves it, or stutters.
THEOREM Implements == TimelyRenewal => (Spec => ImplementsExclusiveSweep)
<1> SUFFICES ASSUME TimelyRenewal PROVE Spec => ES!Spec
  BY DEF ImplementsExclusiveSweep
<1>1. Init => ES!Init
  BY DEF Init, ES!Init, Guarded
<1>2. IInv /\ [Next]_vars => IInv'
  BY IInvStep
<1>3. IInv /\ IInv' /\ [Next]_vars => [ES!Next]_{r \in Replicas : Guarded(r)}
  BY StepMapsToStep
<1>4. QED
  BY IInvInit, <1>1, <1>2, <1>3, PTL DEF Spec, ES!Spec
=============================================================================

------------------------------ MODULE AuditFeed ------------------------------
(***************************************************************************)
(* The audit chain, and the webhooks that are fed from it.  Every session  *)
(* chains an entry to the last one it can see; several sessions write at    *)
(* once, so the chain forks and identifiers become visible out of order.    *)
(* The webhook sweep keeps a cursor over the identifiers, turns lifecycle   *)
(* events into deliveries and tries each a bounded number of times, in one  *)
(* session it commits at the end.  One subscription.                        *)
(***************************************************************************)
EXTENDS Integers, FiniteSets, FiniteSetsExt

CONSTANTS Writers,       \* sessions that append
          Lifecycle,     \* of the entries they append: TRUE, FALSE or either
          MaxId,         \* bound on the entries
          Batch,         \* _BATCH
          MaxAttempts,   \* MAX_ATTEMPTS
          MaxStops       \* bound on rollbacks and restarts

ASSUME AuditFeedConstants ==
    /\ Lifecycle \subseteq BOOLEAN
    /\ {MaxId, MaxStops} \subseteq Nat /\ {Batch, MaxAttempts} \subseteq Nat \ {0}

VARIABLES log,        \* committed entries
          nextId,     \* the sequence
          txn,        \* each writer's session: entries added, then flushed with identifiers
          cursor,     \* WebhookState.last_event_id
          delivery,   \* WebhookDelivery by event
          sweepTxn,   \* the webhook sweep's session
          stops,
          late        \* history: entries committed after a higher identifier was

feedVars == <<log, nextId, txn, cursor, delivery, sweepTxn, stops, late>>

Ids == 1 .. MaxId
\* "prev" is the identifier of the entry whose hash this one carries, 0 for none.
Entry == [id : Ids, prev : Ids \cup {0}, lifecycle : BOOLEAN]
NoDelivery == [status |-> "none", attempts |-> 0]
Delivery == [status : {"none", "pending", "delivered", "failed"}, attempts : 0 .. MaxAttempts]
NoTxn == [added |-> {}, rows |-> {}]
NoSweep == [pc |-> "idle", queued |-> {}, tried |-> {}]

FeedTypeOK ==
    /\ log \subseteq Entry /\ nextId \in 1 .. MaxId + 1
    /\ txn \in [Writers -> [added : SUBSET [prev : Ids \cup {0}, lifecycle : BOOLEAN],
                            rows : SUBSET Entry]]
    /\ cursor \in Ids \cup {0} /\ delivery \in [Ids -> Delivery]
    /\ sweepTxn \in [pc : {"idle", "called"}, queued : SUBSET Ids, tried : SUBSET Ids]
    /\ stops \in 0 .. MaxStops /\ late \subseteq Ids

FeedInit ==
    /\ log = {} /\ nextId = 1 /\ txn = [w \in Writers |-> NoTxn]
    /\ cursor = 0 /\ delivery = [i \in Ids |-> NoDelivery] /\ sweepTxn = NoSweep
    /\ stops = 0 /\ late = {}

Hooks == <<cursor, delivery, sweepTxn>>

----------------------------------------------------------------------------
(* append_audit *)

\* Mutant: the last identifier that was handed out.
LastSeenAny(w) == nextId - 1

\* What is committed, and what the session itself has flushed; autoflush is off.
LastSeen(w) == Max({e.id : e \in log \cup txn[w].rows} \cup {0})

AppendAudit(w, lifecycle) ==
    \* bound: at most one entry of each kind between two flushes
    /\ txn' = [txn EXCEPT ![w].added = @ \cup {[prev |-> LastSeen(w), lifecycle |-> lifecycle]}]
    /\ \A e \in txn[w].added : e.lifecycle /\ ~lifecycle
    /\ UNCHANGED <<log, nextId, Hooks, stops, late>>

Numbered(w) ==
    {numbered \in SUBSET [id : nextId .. nextId + Cardinality(txn[w].added) - 1,
                      prev : Ids \cup {0}, lifecycle : BOOLEAN] :
        /\ {[prev |-> e.prev, lifecycle |-> e.lifecycle] : e \in numbered} = txn[w].added
        /\ Cardinality(numbered) = Cardinality(txn[w].added)
        /\ \A e, f \in numbered : e.id = f.id => e = f}

FlushTxn(w) ==
    /\ txn[w].added # {}
    /\ nextId + Cardinality(txn[w].added) <= MaxId + 1                    \* bound
    /\ nextId' = nextId + Cardinality(txn[w].added)
    /\ \E numbered \in Numbered(w) : txn' = [txn EXCEPT ![w] = [added |-> {}, rows |-> @.rows \cup numbered]]
    /\ UNCHANGED <<log, Hooks, stops, late>>

CommitTxn(w) ==
    /\ txn[w].rows # {} /\ txn[w].added = {}
    /\ log' = log \cup txn[w].rows
    /\ late' = late \cup {e.id : e \in {f \in txn[w].rows : \E g \in log : g.id > f.id}}
    /\ txn' = [txn EXCEPT ![w] = NoTxn]
    /\ UNCHANGED <<nextId, Hooks, stops>>

\* The identifiers of a session that is rolled back are not used again.
RollbackTxn(w) ==
    /\ txn[w].rows # {} /\ stops < MaxStops
    /\ stops' = stops + 1
    /\ txn' = [txn EXCEPT ![w] = NoTxn]
    /\ UNCHANGED <<log, nextId, Hooks, late>>

----------------------------------------------------------------------------
(* webhooks.process *)

\* Mutant: the batch is taken from the newest.
NewEventsNewest ==
    LET after == {e.id : e \in {f \in log : f.id > cursor /\ f.lifecycle}}
    IN  {i \in after : Cardinality({j \in after : j > i}) < Batch}

NewEvents ==
    LET after == {e.id : e \in {f \in log : f.id > cursor /\ f.lifecycle}}
    IN  {i \in after : Cardinality({j \in after : j < i}) < Batch}

\* Queries see what is committed, so what this sweep enqueues is tried by the next one.
HooksSweep ==
    LET pending == {i \in Ids : delivery[i].status = "pending"}
    IN  /\ sweepTxn.pc = "idle" /\ NewEvents \cup pending # {}
        /\ \E tried \in SUBSET pending :
              /\ tried = pending \/ Cardinality(tried) = Batch
              /\ Cardinality(tried) <= Batch
              /\ sweepTxn' = [pc |-> "called", queued |-> NewEvents, tried |-> tried]
        /\ UNCHANGED <<log, nextId, txn, cursor, delivery, stops, late>>

\* Mutant: attempts are counted and never run out.
TriedForEver(i, heard) ==
    [attempts |-> delivery[i].attempts + 1, status |-> IF heard THEN "delivered" ELSE "pending"]

\* Mutant: a failed attempt is not counted.
TriedUncounted(i, heard) ==
    [attempts |-> delivery[i].attempts, status |-> IF heard THEN "delivered" ELSE "pending"]

Tried(i, heard) ==
    LET attempts == delivery[i].attempts + 1
    IN  [attempts |-> attempts,
         status |-> IF heard THEN "delivered"
                    ELSE IF attempts >= MaxAttempts THEN "failed" ELSE "pending"]

\* The sweep's own webhook.delivered entries are appended like any other session's.
HooksCommit ==
    /\ sweepTxn.pc = "called"
    /\ cursor' = Max(sweepTxn.queued \cup {cursor})
    /\ \E heard \in SUBSET sweepTxn.tried :
          delivery' = [i \in Ids |->
             IF i \in sweepTxn.tried THEN Tried(i, i \in heard)
             ELSE IF i \in sweepTxn.queued THEN [status |-> "pending", attempts |-> 0]
             ELSE delivery[i]]
    /\ sweepTxn' = NoSweep
    /\ UNCHANGED <<log, nextId, txn, stops, late>>

\* A restart, or an exception: nothing of the sweep is kept, the calls were made.
HooksCrash ==
    /\ sweepTxn.pc = "called" /\ stops < MaxStops
    /\ stops' = stops + 1 /\ sweepTxn' = NoSweep
    /\ UNCHANGED <<log, nextId, txn, cursor, delivery, late>>

FeedNext ==
    \/ HooksSweep \/ HooksCommit \/ HooksCrash
    \/ \E w \in Writers : FlushTxn(w) \/ CommitTxn(w) \/ RollbackTxn(w)
    \/ \E w \in Writers, lifecycle \in Lifecycle : AppendAudit(w, lifecycle)

FeedSpec == FeedInit /\ [][FeedNext]_feedVars /\ WF_feedVars(HooksSweep \/ HooksCommit)
----------------------------------------------------------------------------
\* verify_chain: every entry names one that is there.  Forks, rollbacks and identifiers
\* that become visible out of order raise no alarm.
NoFalseAlarm == \A e \in log : e.prev # 0 => \E f \in log : f.id = e.prev

\* The sweep misses only what it could not see: a lifecycle event behind the cursor has
\* its delivery unless another session with a higher identifier committed before its own.
OnlyLateOnesMissed ==
    \A e \in log : e.lifecycle /\ e.id <= cursor /\ delivery[e.id] = NoDelivery => e.id \in late

\* Any other lifecycle event is delivered, or given up after MAX_ATTEMPTS, whatever
\* sweep was lost on the way.
HeardOrGivenUp ==
    \A i \in Ids :
        (i \notin late /\ \E e \in log : e.id = i /\ e.lifecycle)
            ~> delivery[i].status \in {"delivered", "failed"}
=============================================================================

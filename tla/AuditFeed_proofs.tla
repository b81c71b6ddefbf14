--------------------------- MODULE AuditFeed_proofs ---------------------------
(***************************************************************************)
(* Proofs about the audit chain of AuditFeed, for any writers, any number   *)
(* of entries and any bound on rollbacks: that verify_chain raises no false *)
(* alarm.  A session links an entry to one it can see, which is committed   *)
(* or flushed in the same session; a session is committed or lost as a      *)
(* whole, so no entry comes to be visible without the one it names.         *)
(*                                                                         *)
(* And about the webhook sweep: that what is behind its cursor has a         *)
(* delivery, but for entries that became visible after one with a higher     *)
(* identifier.                                                             *)
(***************************************************************************)
EXTENDS AuditFeed, FiniteSetTheorems, WellFoundedInduction, TLAPS

\* The types of the chain; the webhook sweep does not write it.
ChainTypeOK ==
    /\ log \subseteq Entry /\ nextId \in Nat \ {0}
    /\ txn \in [Writers -> [added : SUBSET [prev : Ids \cup {0}, lifecycle : BOOLEAN],
                            rows : SUBSET Entry]]
    /\ \A w \in Writers : IsFiniteSet(txn[w].added)

\* What a link names is the empty chain, or an entry of S.
Linked(prev, S) == prev # 0 => \E f \in S : f.id = prev

\* Entries of a session, numbered or not, name what is committed or will be with them.
SessionsLinked ==
    \A w \in Writers : \A e \in txn[w].added \cup txn[w].rows :
        Linked(e.prev, log \cup txn[w].rows)

CInv == ChainTypeOK /\ SessionsLinked /\ NoFalseAlarm

\* A set of naturals below a bound has a greatest element, and Max is it.
LEMMA Greatest ==
    ASSUME NEW N \in Nat, NEW S \in SUBSET (0 .. N), S # {}
    PROVE  Max(S) \in S /\ \A y \in S : y <= Max(S)
<1> DEFINE T == {N - x : x \in S}
<1>1. T \subseteq Nat /\ T # {}
  <2>1. \A x \in S : x \in Int /\ N - x \in Nat
    OBVIOUS
  <2>2. PICK x \in S : TRUE
    OBVIOUS
  <2>3. N - x \in T
    OBVIOUS
  <2> QED BY <2>1, <2>3
<1>2. PICK t \in T : \A y \in T : ~ (<<y, t>> \in OpToRel(<, Nat))
  <2> HIDE DEF T
  <2> QED BY <1>1, NatLessThanWellFounded, WFMin
<1>3. \A y \in T : ~ (y < t)
  BY <1>1, <1>2 DEF OpToRel
<1>4. PICK x \in S : t = N - x
  OBVIOUS
<1>5. \A y \in S : x >= y
  <2> SUFFICES ASSUME NEW y \in S PROVE x >= y
    OBVIOUS
  <2>1. ~ (N - y < t)
    BY <1>3
  <2> QED BY <1>4, <2>1
<1> QED BY <1>5 DEF Max

\* The last entry a session sees is one it sees.
LEMMA LastSeenIsSeen ==
    ASSUME ChainTypeOK, NEW w \in Writers
    PROVE  /\ LastSeen(w) \in Ids \cup {0}
           /\ Linked(LastSeen(w), log \cup txn[w].rows)
<1> DEFINE seen == {e.id : e \in log \cup txn[w].rows} \cup {0}
<1>1. log \cup txn[w].rows \subseteq Entry
  BY DEF ChainTypeOK
<1>2. \A e \in Entry : e.id \in Ids
  BY DEF Entry
<1>3. seen \subseteq Ids \cup {0}
  BY <1>1, <1>2
<1>4. MaxId \in Nat
  BY AuditFeedConstants
<1>5. seen \in SUBSET (0 .. MaxId) /\ seen # {}
  BY <1>3, <1>4 DEF Ids
<1>6. Max(seen) \in seen
  <2> HIDE DEF seen
  <2> QED BY <1>4, <1>5, Greatest
<1>7. LastSeen(w) = Max(seen)
  BY DEF LastSeen
<1> QED BY <1>3, <1>6, <1>7 DEF Linked

\* At first there is no entry.
LEMMA CInvInit == FeedInit => CInv
<1> SUFFICES ASSUME FeedInit PROVE CInv
  OBVIOUS
<1>1. log = {} /\ nextId = 1 /\ txn = [w \in Writers |-> [added |-> {}, rows |-> {}]]
  BY DEF FeedInit, NoTxn
<1>2. \A w \in Writers : txn[w] = [added |-> {}, rows |-> {}]
  BY <1>1
<1>3. \A w \in Writers : txn[w].added = {} /\ txn[w].rows = {}
  BY <1>2
<1>4. ChainTypeOK
  <2>1. IsFiniteSet({})
    BY FS_EmptySet
  <2>2. \A w \in Writers : IsFiniteSet(txn[w].added)
    BY <1>3, <2>1
  <2>3. txn \in [Writers -> [added : SUBSET [prev : Ids \cup {0}, lifecycle : BOOLEAN],
                             rows : SUBSET Entry]]
    <3>1. [added |-> {}, rows |-> {}]
             \in [added : SUBSET [prev : Ids \cup {0}, lifecycle : BOOLEAN], rows : SUBSET Entry]
      OBVIOUS
    <3> QED BY <1>1, <3>1
  <2> QED BY <1>1, <2>2, <2>3 DEF ChainTypeOK
<1>5. SessionsLinked
  BY <1>3 DEF SessionsLinked
<1>6. NoFalseAlarm
  BY <1>1 DEF NoFalseAlarm
<1> QED BY <1>4, <1>5, <1>6 DEF CInv

\* append_audit: the new entry names what the session sees, the others stay as they are.
LEMMA AppendKeeps ==
    ASSUME CInv, NEW w \in Writers, NEW lifecycle \in Lifecycle, AppendAudit(w, lifecycle)
    PROVE  CInv'
<1> DEFINE entry == [prev |-> LastSeen(w), lifecycle |-> lifecycle]
<1>1. /\ txn' = [txn EXCEPT ![w].added = @ \cup {entry}]
      /\ log' = log
  BY DEF AppendAudit
<1>2. entry \in [prev : Ids \cup {0}, lifecycle : BOOLEAN] /\ Linked(entry.prev, log \cup txn[w].rows)
  BY LastSeenIsSeen, AuditFeedConstants DEF CInv
<1> HIDE DEF entry
<1>3. /\ txn'[w].added = txn[w].added \cup {entry} /\ txn'[w].rows = txn[w].rows
      /\ \A v \in Writers : v # w => txn'[v] = txn[v]
  BY <1>1 DEF CInv, ChainTypeOK
<1>4. ChainTypeOK'
  <2>1. \A v \in Writers : IsFiniteSet(txn'[v].added)
    <3>1. IsFiniteSet(txn[w].added)
      BY DEF CInv, ChainTypeOK
    <3>2. IsFiniteSet(txn[w].added \cup {entry})
      BY <3>1, FS_AddElement
    <3> QED BY <1>3, <3>2 DEF CInv, ChainTypeOK
  <2>2. txn' \in [Writers -> [added : SUBSET [prev : Ids \cup {0}, lifecycle : BOOLEAN],
                             rows : SUBSET Entry]]
    BY <1>1, <1>2 DEF CInv, ChainTypeOK
  <2>3. nextId' = nextId
    BY DEF AppendAudit
  <2> QED BY <1>1, <2>1, <2>2, <2>3 DEF CInv, ChainTypeOK
<1>5. SessionsLinked'
  <2> SUFFICES ASSUME NEW v \in Writers, NEW e \in txn'[v].added \cup txn'[v].rows
               PROVE  Linked(e.prev, log' \cup txn'[v].rows)
    BY DEF SessionsLinked, Linked
  <2>1. CASE v = w /\ e = entry
    BY <1>1, <1>2, <1>3, <2>1
  <2>2. CASE ~ (v = w /\ e = entry)
    BY <1>1, <1>3, <2>2 DEF CInv, SessionsLinked
  <2> QED BY <2>1, <2>2
<1> QED BY <1>1, <1>4, <1>5 DEF CInv, NoFalseAlarm

\* The identifiers a flush gives are within the bound, so what it numbers are entries.
LEMMA NumberedAreEntries ==
    ASSUME ChainTypeOK, NEW w \in Writers, NEW numbered \in Numbered(w),
           nextId + Cardinality(txn[w].added) <= MaxId + 1
    PROVE  numbered \subseteq Entry
<1>1. MaxId \in Nat
  BY AuditFeedConstants
<1>2. nextId .. nextId + Cardinality(txn[w].added) - 1 \subseteq Ids
  <2>1. Cardinality(txn[w].added) \in Nat
    BY FS_CardinalityType DEF ChainTypeOK
  <2> QED BY <1>1, <2>1 DEF Ids, ChainTypeOK
<1>3. numbered \subseteq [id : nextId .. nextId + Cardinality(txn[w].added) - 1,
                          prev : Ids \cup {0}, lifecycle : BOOLEAN]
  BY DEF Numbered
<1> QED BY <1>2, <1>3 DEF Entry

\* A flush gives identifiers, and leaves what the entries name.
LEMMA FlushKeeps ==
    ASSUME CInv, NEW w \in Writers, FlushTxn(w)
    PROVE  CInv'
<1>1. PICK numbered \in Numbered(w) :
        txn' = [txn EXCEPT ![w] = [added |-> {}, rows |-> @.rows \cup numbered]]
  BY DEF FlushTxn
<1>2. log' = log
  BY DEF FlushTxn
<1>3. /\ txn'[w].added = {} /\ txn'[w].rows = txn[w].rows \cup numbered
      /\ \A v \in Writers : v # w => txn'[v] = txn[v]
  BY <1>1 DEF CInv, ChainTypeOK
<1>4. \A e \in numbered : \E a \in txn[w].added : a.prev = e.prev
  <2> SUFFICES ASSUME NEW e \in numbered PROVE \E a \in txn[w].added : a.prev = e.prev
    OBVIOUS
  <2>1. [prev |-> e.prev, lifecycle |-> e.lifecycle] \in txn[w].added
    BY DEF Numbered
  <2> QED BY <2>1
<1>5. numbered \subseteq Entry
  BY NumberedAreEntries DEF FlushTxn, CInv
<1>6. ChainTypeOK'
  <2>1. \A v \in Writers : IsFiniteSet(txn'[v].added)
    BY <1>3, FS_EmptySet DEF CInv, ChainTypeOK
  <2>2. nextId' \in Nat \ {0}
    <3>1. Cardinality(txn[w].added) \in Nat
      BY FS_CardinalityType DEF CInv, ChainTypeOK
    <3> QED BY <3>1 DEF FlushTxn, CInv, ChainTypeOK
  <2> QED BY <1>1, <1>2, <1>5, <2>1, <2>2 DEF CInv, ChainTypeOK
<1>7. SessionsLinked'
  <2> SUFFICES ASSUME NEW v \in Writers, NEW e \in txn'[v].added \cup txn'[v].rows
               PROVE  Linked(e.prev, log' \cup txn'[v].rows)
    BY DEF SessionsLinked, Linked
  <2>1. CASE v # w
    BY <1>2, <1>3, <2>1 DEF CInv, SessionsLinked
  <2>2. CASE v = w
    <3>1. Linked(e.prev, log \cup txn[w].rows)
      BY <1>3, <1>4, <2>2 DEF CInv, SessionsLinked
    <3> QED BY <1>2, <1>3, <2>2, <3>1 DEF Linked
  <2> QED BY <2>1, <2>2
<1> QED BY <1>2, <1>6, <1>7 DEF CInv, NoFalseAlarm

\* A commit makes the session's entries visible together.
LEMMA CommitKeeps ==
    ASSUME CInv, NEW w \in Writers, CommitTxn(w)
    PROVE  CInv'
<1>1. log' = log \cup txn[w].rows /\ txn' = [txn EXCEPT ![w] = NoTxn]
  BY DEF CommitTxn
<1>2. /\ txn'[w].added = {} /\ txn'[w].rows = {}
      /\ \A v \in Writers : v # w => txn'[v] = txn[v]
  BY <1>1 DEF CInv, ChainTypeOK, NoTxn
<1>3. ChainTypeOK'
  <2>1. \A v \in Writers : IsFiniteSet(txn'[v].added)
    BY <1>2, FS_EmptySet DEF CInv, ChainTypeOK
  <2>2. nextId' = nextId
    BY DEF CommitTxn
  <2> QED BY <1>1, <2>1, <2>2 DEF CInv, ChainTypeOK, NoTxn
<1>4. SessionsLinked'
  <2> SUFFICES ASSUME NEW v \in Writers, NEW e \in txn'[v].added \cup txn'[v].rows
               PROVE  Linked(e.prev, log' \cup txn'[v].rows)
    BY DEF SessionsLinked, Linked
  <2>1. v # w /\ Linked(e.prev, log \cup txn[v].rows)
    BY <1>2 DEF CInv, SessionsLinked
  <2> QED BY <1>1, <1>2, <2>1 DEF Linked
<1>5. NoFalseAlarm'
  BY <1>1 DEF CInv, SessionsLinked, NoFalseAlarm, Linked
<1> QED BY <1>3, <1>4, <1>5 DEF CInv

\* A rollback loses the session as a whole.
LEMMA RollbackKeeps ==
    ASSUME CInv, NEW w \in Writers, RollbackTxn(w)
    PROVE  CInv'
<1>1. log' = log /\ txn' = [txn EXCEPT ![w] = NoTxn]
  BY DEF RollbackTxn
<1>2. /\ txn'[w].added = {} /\ txn'[w].rows = {}
      /\ \A v \in Writers : v # w => txn'[v] = txn[v]
  BY <1>1 DEF CInv, ChainTypeOK, NoTxn
<1>3. ChainTypeOK'
  <2>1. \A v \in Writers : IsFiniteSet(txn'[v].added)
    BY <1>2, FS_EmptySet DEF CInv, ChainTypeOK
  <2>2. nextId' = nextId
    BY DEF RollbackTxn
  <2> QED BY <1>1, <2>1, <2>2 DEF CInv, ChainTypeOK, NoTxn
<1> QED BY <1>1, <1>2, <1>3 DEF CInv, SessionsLinked, NoFalseAlarm, Linked

\* Every step keeps the strengthening: the webhook sweep writes neither log nor sessions.
LEMMA CInvStep == CInv /\ [FeedNext]_feedVars => CInv'
<1> SUFFICES ASSUME CInv, [FeedNext]_feedVars PROVE CInv'
  OBVIOUS
<1>1. CASE UNCHANGED <<log, nextId, txn>>
  BY <1>1 DEF CInv, ChainTypeOK, SessionsLinked, NoFalseAlarm, Linked
<1>2. CASE HooksSweep \/ HooksCommit \/ HooksCrash
  BY <1>1, <1>2 DEF HooksSweep, HooksCommit, HooksCrash
<1>3. CASE \E w \in Writers : FlushTxn(w) \/ CommitTxn(w) \/ RollbackTxn(w)
  BY <1>3, FlushKeeps, CommitKeeps, RollbackKeeps
<1>4. CASE \E w \in Writers, lifecycle \in Lifecycle : AppendAudit(w, lifecycle)
  BY <1>4, AppendKeeps
<1> QED BY <1>1, <1>2, <1>3, <1>4 DEF FeedNext, feedVars

\* verify_chain finds for every entry the one it names: forks, rollbacks and identifiers
\* that become visible out of order raise no alarm.
THEOREM ChainVerifies == FeedSpec => []NoFalseAlarm
<1>1. CInv => NoFalseAlarm
  BY DEF CInv
<1> QED BY <1>1, CInvInit, CInvStep, PTL DEF FeedSpec

----------------------------------------------------------------------------
(* The webhooks *)

HooksTypeOK ==
    /\ cursor \in Ids \cup {0} /\ delivery \in [Ids -> Delivery]
    /\ sweepTxn \in [pc : {"idle", "called"}, queued : SUBSET Ids, tried : SUBSET Ids]
    /\ nextId \in 1 .. MaxId + 1 /\ stops \in 0 .. MaxStops /\ late \subseteq Ids

\* What is tried has an attempt left.
AttemptsLeft ==
    /\ \A i \in Ids : delivery[i].status = "pending" => delivery[i].attempts < MaxAttempts
    /\ sweepTxn.pc = "called" => \A i \in sweepTxn.tried : delivery[i].status = "pending"

\* The cursor stands on an entry it has seen, and that one has its delivery.
CursorStands ==
    cursor # 0 => delivery[cursor].status # "none" /\ \E g \in log : g.id = cursor

\* A sweep jumps over no lifecycle event that it could see when it read.
NothingJumped ==
    sweepTxn.pc = "called" =>
        /\ \A q \in sweepTxn.queued : \E g \in log : g.id = q
        /\ \A e \in log : \A q \in sweepTxn.queued :
              e.lifecycle /\ cursor < e.id /\ e.id < q /\ e.id \notin sweepTxn.queued
                 => e.id \in late

\* The property, as strong as it is inductive.
LateOnes ==
    \A e \in log : e.lifecycle /\ e.id <= cursor /\ delivery[e.id].status = "none" => e.id \in late

HooksInv == HooksTypeOK /\ AttemptsLeft /\ CursorStands /\ NothingJumped /\ LateOnes

\* A sweep takes the first of the events it can see: none of them is before one it takes.
LEMMA NewEventsFirst ==
    ASSUME CInv, HooksTypeOK
    PROVE  /\ NewEvents \subseteq Ids
           /\ \A q \in NewEvents : cursor < q /\ \E g \in log : g.id = q
           /\ \A e \in log, q \in NewEvents :
                 e.lifecycle /\ cursor < e.id /\ e.id < q => e.id \in NewEvents
<1> DEFINE after == {e.id : e \in {f \in log : f.id > cursor /\ f.lifecycle}}
           Below(i) == {j \in after : j < i}
<1>1. NewEvents = {i \in after : Cardinality(Below(i)) < Batch}
  BY DEF NewEvents
<1>2. /\ after \subseteq Ids
      /\ \A q \in after : cursor < q /\ \E g \in log : g.id = q
      /\ \A e \in log : e.lifecycle /\ cursor < e.id => e.id \in after
  BY DEF CInv, ChainTypeOK, Entry, HooksTypeOK, Ids
<1>3. MaxId \in Nat /\ Batch \in Nat
  BY AuditFeedConstants
<1> HIDE DEF after
<1>4. \A i \in after : IsFiniteSet(Below(i)) /\ Cardinality(Below(i)) \in Nat
  <2>1. IsFiniteSet(1 .. MaxId)
    BY <1>3, FS_Interval
  <2>2. \A i \in after : Below(i) \subseteq 1 .. MaxId
    BY <1>2 DEF Ids
  <2> QED BY <2>1, <2>2, FS_Subset, FS_CardinalityType
<1>5. ASSUME NEW i \in after, NEW q \in NewEvents, i < q
      PROVE  i \in NewEvents
  <2>1. q \in after /\ Cardinality(Below(q)) < Batch
    BY <1>1
  <2>2. Below(i) \subseteq Below(q)
    <3>1. \A j \in after : j \in Int
      BY <1>2, <1>3 DEF Ids
    <3>2. \A j \in after : j < i => j < q
      BY <1>5, <2>1, <3>1
    <3> QED BY <3>2
  <2>3. Cardinality(Below(i)) <= Cardinality(Below(q))
    BY <1>4, <2>1, <2>2, FS_Subset
  <2>4. Cardinality(Below(i)) < Batch
    <3> HIDE DEF Below
    <3> QED BY <1>3, <1>4, <2>1, <2>3
  <2> QED BY <1>1, <2>4
<1> QED BY <1>1, <1>2, <1>5

LEMMA HooksInvInit == FeedInit => HooksInv
<1> SUFFICES ASSUME FeedInit
             PROVE  HooksInv
  OBVIOUS
<1>1. MaxId \in Nat /\ MaxStops \in Nat /\ MaxAttempts \in Nat \ {0}
  BY AuditFeedConstants
<1>2. 1 \in 1 .. MaxId + 1 /\ 0 \in 0 .. MaxStops /\ NoDelivery \in Delivery
  BY <1>1 DEF NoDelivery, Delivery
<1>3. HooksTypeOK
  BY <1>2 DEF FeedInit, HooksTypeOK, NoSweep
<1> QED BY <1>3 DEF FeedInit, HooksInv, AttemptsLeft, CursorStands, NothingJumped, LateOnes,
                    NoDelivery, NoSweep

\* A session that writes no webhook: entries may be numbered, and a rollback counted.
LEMMA NotCommitted ==
    ASSUME HooksInv, HooksTypeOK', UNCHANGED <<log, cursor, delivery, late>>,
           sweepTxn' = sweepTxn \/ sweepTxn' = NoSweep
    PROVE  HooksInv'
BY DEF HooksInv, AttemptsLeft, CursorStands, NothingJumped, LateOnes, NoSweep

LEMMA WriterHooks ==
    ASSUME CInv, HooksInv, NEW w \in Writers,
           FlushTxn(w) \/ RollbackTxn(w) \/ \E lifecycle \in Lifecycle : AppendAudit(w, lifecycle)
    PROVE  HooksInv'
<1>1. UNCHANGED <<log, cursor, delivery, sweepTxn, late>>
  BY DEF FlushTxn, RollbackTxn, AppendAudit, Hooks
<1>2. nextId' \in 1 .. MaxId + 1
  <2>1. MaxId \in Nat /\ nextId \in 1 .. MaxId + 1 /\ Cardinality(txn[w].added) \in Nat
    BY AuditFeedConstants, FS_CardinalityType DEF CInv, ChainTypeOK, HooksInv, HooksTypeOK
  <2> QED BY <2>1 DEF FlushTxn, RollbackTxn, AppendAudit
<1>3. stops' \in 0 .. MaxStops
  <2>1. MaxStops \in Nat /\ stops \in 0 .. MaxStops
    BY AuditFeedConstants DEF HooksInv, HooksTypeOK
  <2> QED BY <2>1 DEF FlushTxn, RollbackTxn, AppendAudit
<1>4. HooksTypeOK'
  BY <1>1, <1>2, <1>3 DEF HooksInv, HooksTypeOK
<1> QED BY <1>1, <1>4, NotCommitted

LEMMA HooksCrashStep ==
    ASSUME HooksInv, HooksCrash
    PROVE  HooksInv'
<1>1. stops' \in 0 .. MaxStops
  <2>1. MaxStops \in Nat /\ stops \in 0 .. MaxStops
    BY AuditFeedConstants DEF HooksInv, HooksTypeOK
  <2> QED BY <2>1 DEF HooksCrash
<1>2. HooksTypeOK'
  BY <1>1 DEF HooksInv, HooksTypeOK, HooksCrash, NoSweep
<1> QED BY <1>2, NotCommitted DEF HooksCrash

\* What a session commits behind the cursor, or behind what a sweep has read, is late.
LEMMA CommitHooks ==
    ASSUME CInv, HooksInv, NEW w \in Writers, CommitTxn(w)
    PROVE  HooksInv'
<1>1. /\ log' = log \cup txn[w].rows /\ UNCHANGED <<nextId, cursor, delivery, sweepTxn, stops>>
      /\ late' = late \cup {e.id : e \in {f \in txn[w].rows : \E g \in log : g.id > f.id}}
  BY DEF CommitTxn, Hooks
<1>2. txn[w].rows \subseteq Entry /\ log \subseteq Entry
  BY DEF CInv, ChainTypeOK
<1>3. \A e \in Entry : e.id \in Ids
  BY DEF Entry
<1>4. \A e \in txn[w].rows : \A g \in log : e.id < g.id => e.id \in late'
  BY <1>1, <1>2, <1>3 DEF Ids
<1>5. HooksTypeOK'
  BY <1>1, <1>2, <1>3 DEF HooksInv, HooksTypeOK
<1>6. AttemptsLeft' /\ CursorStands'
  BY <1>1 DEF HooksInv, AttemptsLeft, CursorStands
<1>7. NothingJumped'
  <2> SUFFICES ASSUME sweepTxn.pc = "called"
               PROVE  /\ \A q \in sweepTxn.queued : \E g \in log' : g.id = q
                      /\ \A e \in log' : \A q \in sweepTxn.queued :
                            e.lifecycle /\ cursor < e.id /\ e.id < q /\ e.id \notin sweepTxn.queued
                               => e.id \in late'
    BY <1>1 DEF NothingJumped
  <2>1. \A q \in sweepTxn.queued : \E g \in log : g.id = q
    BY DEF HooksInv, NothingJumped
  <2> QED BY <1>1, <1>4, <2>1 DEF HooksInv, NothingJumped
<1>8. LateOnes'
  <2> SUFFICES ASSUME NEW e \in log', e.lifecycle, e.id <= cursor,
                      delivery[e.id].status = "none"
               PROVE  e.id \in late'
    BY <1>1 DEF LateOnes
  <2>1. CASE e \in log
    BY <1>1, <2>1 DEF HooksInv, LateOnes
  <2>2. CASE e \in txn[w].rows
    <3>1. e.id \in Nat \ {0} /\ cursor \in Nat
      BY <1>2, <1>3, <2>2, AuditFeedConstants DEF HooksInv, HooksTypeOK, Ids
    <3>2. PICK g \in log : g.id = cursor
      BY <3>1 DEF HooksInv, CursorStands
    <3>3. e.id # cursor
      BY <3>1 DEF HooksInv, CursorStands
    <3> QED BY <1>4, <2>2, <3>1, <3>2, <3>3
  <2> QED BY <1>1, <2>1, <2>2
<1> QED BY <1>5, <1>6, <1>7, <1>8 DEF HooksInv

LEMMA HooksSweepStep ==
    ASSUME CInv, HooksInv, HooksSweep
    PROVE  HooksInv'
<1>1. PICK tried \in SUBSET {i \in Ids : delivery[i].status = "pending"} :
         sweepTxn' = [pc |-> "called", queued |-> NewEvents, tried |-> tried]
  BY DEF HooksSweep
<1>2. /\ sweepTxn'.pc = "called" /\ sweepTxn'.queued = NewEvents /\ sweepTxn'.tried = tried
      /\ UNCHANGED <<log, nextId, cursor, delivery, stops, late>>
  BY <1>1 DEF HooksSweep
<1>3. HooksTypeOK'
  BY <1>1, <1>2, NewEventsFirst DEF HooksInv, HooksTypeOK
<1>4. AttemptsLeft' /\ CursorStands' /\ LateOnes'
  BY <1>1, <1>2 DEF HooksInv, AttemptsLeft, CursorStands, LateOnes
<1>5. NothingJumped'
  BY <1>2, NewEventsFirst DEF HooksInv, NothingJumped
<1> QED BY <1>3, <1>4, <1>5 DEF HooksInv

\* A sweep commits what it has read and tried: the cursor moves over what has a delivery.
LEMMA HooksCommitStep ==
    ASSUME CInv, HooksInv, HooksCommit
    PROVE  HooksInv'
<1> DEFINE queued == sweepTxn.queued
           tried == sweepTxn.tried
<1>1. /\ sweepTxn.pc = "called" /\ sweepTxn' = NoSweep
      /\ UNCHANGED <<log, nextId, stops, late>>
      /\ queued \subseteq Ids /\ tried \subseteq Ids /\ cursor \in Ids \cup {0}
      /\ cursor' = Max(queued \cup {cursor})
  BY DEF HooksCommit, HooksInv, HooksTypeOK
<1>2. PICK heard \in SUBSET tried :
         delivery' = [i \in Ids |->
             IF i \in tried THEN Tried(i, i \in heard)
             ELSE IF i \in queued THEN [status |-> "pending", attempts |-> 0]
             ELSE delivery[i]]
  BY DEF HooksCommit
<1>3. MaxId \in Nat /\ MaxAttempts \in Nat \ {0}
  BY AuditFeedConstants
<1>4. \A i \in tried, done \in BOOLEAN :
         /\ Tried(i, done) \in Delivery /\ Tried(i, done).status # "none"
         /\ Tried(i, done).status = "pending" => Tried(i, done).attempts < MaxAttempts
  <2> SUFFICES ASSUME NEW i \in tried, NEW done \in BOOLEAN
               PROVE  /\ Tried(i, done) \in Delivery /\ Tried(i, done).status # "none"
                      /\ Tried(i, done).status = "pending" => Tried(i, done).attempts < MaxAttempts
    OBVIOUS
  <2> DEFINE attempts == delivery[i].attempts + 1
             status == IF done THEN "delivered"
                       ELSE IF attempts >= MaxAttempts THEN "failed" ELSE "pending"
  <2>1. delivery[i].attempts \in 0 .. MaxAttempts /\ delivery[i].attempts < MaxAttempts
    BY <1>1 DEF HooksInv, HooksTypeOK, AttemptsLeft, Delivery
  <2>2. attempts \in 0 .. MaxAttempts
    BY <1>3, <2>1
  <2>3. /\ status \in {"pending", "delivered", "failed"}
        /\ status = "pending" => attempts < MaxAttempts
    BY <1>3, <2>2
  <2>4. Tried(i, done) = [attempts |-> attempts, status |-> status]
    BY DEF Tried
  <2> HIDE DEF attempts, status
  <2> QED BY <2>2, <2>3, <2>4 DEF Delivery
<1>5. [status |-> "pending", attempts |-> 0] \in Delivery
  BY <1>3 DEF Delivery
<1> HIDE DEF queued, tried
<1>6. /\ cursor' \in queued \cup {cursor} /\ cursor <= cursor'
      /\ \A q \in queued : q <= cursor'
  <2> DEFINE seen == queued \cup {cursor}
  <2>1. seen \in SUBSET (0 .. MaxId) /\ seen # {}
    BY <1>1, <1>3 DEF Ids
  <2>2. cursor' = Max(seen) /\ cursor \in seen /\ queued \subseteq seen
    BY <1>1
  <2>3. Max(seen) \in seen /\ \A y \in seen : y <= Max(seen)
    <3> HIDE DEF seen
    <3> QED BY <1>3, <2>1, Greatest
  <2> HIDE DEF seen
  <2>4. cursor' \in seen
    BY <2>2, <2>3
  <2> QED BY <2>2, <2>3, <2>4 DEF seen
<1>7. /\ \A i \in Ids : i \in tried => delivery'[i] \in Delivery /\ delivery'[i].status # "none"
      /\ \A i \in Ids : i \in queued => delivery'[i] \in Delivery /\ delivery'[i].status # "none"
      /\ \A i \in Ids : i \notin tried \cup queued => delivery'[i] = delivery[i]
      /\ \A i \in Ids : delivery'[i].status = "pending" => delivery'[i].attempts < MaxAttempts
  <2> SUFFICES ASSUME NEW i \in Ids
               PROVE  /\ i \in tried => delivery'[i] \in Delivery /\ delivery'[i].status # "none"
                      /\ i \in queued => delivery'[i] \in Delivery /\ delivery'[i].status # "none"
                      /\ i \notin tried \cup queued => delivery'[i] = delivery[i]
                      /\ delivery'[i].status = "pending" => delivery'[i].attempts < MaxAttempts
    OBVIOUS
  <2>1. CASE i \in tried
    <3>1. delivery'[i] = Tried(i, TRUE) \/ delivery'[i] = Tried(i, FALSE)
      BY <1>2, <2>1 DEF Tried
    <3> QED BY <1>4, <2>1, <3>1
  <2>2. CASE i \notin tried /\ i \in queued
    <3>1. delivery'[i] = [status |-> "pending", attempts |-> 0]
      BY <1>2, <2>2
    <3> QED BY <1>3, <1>5, <2>2, <3>1
  <2>3. CASE i \notin tried \cup queued
    <3>1. delivery'[i] = delivery[i]
      BY <1>2, <2>3
    <3> QED BY <2>3, <3>1 DEF HooksInv, AttemptsLeft
  <2> QED BY <2>1, <2>2, <2>3
<1>8. HooksTypeOK'
  <2>1. delivery' \in [Ids -> Delivery]
    <3>1. \A i \in Ids : delivery'[i] \in Delivery
      BY <1>7 DEF HooksInv, HooksTypeOK
    <3> QED BY <1>2, <3>1
  <2>2. cursor' \in Ids \cup {0}
    BY <1>1, <1>6
  <2> QED BY <1>1, <2>1, <2>2 DEF HooksInv, HooksTypeOK, NoSweep
<1>9. AttemptsLeft' /\ NothingJumped'
  BY <1>1, <1>7 DEF AttemptsLeft, NothingJumped, NoSweep
<1>10. CursorStands'
  <2>1. CASE cursor' \in queued
    BY <1>1, <1>7, <2>1 DEF CursorStands, HooksInv, NothingJumped, queued
  <2>2. CASE cursor' = cursor
    BY <1>1, <1>7, <2>2 DEF CursorStands, HooksInv
  <2> QED BY <1>6, <2>1, <2>2
<1>11. LateOnes'
  <2> SUFFICES ASSUME NEW e \in log, e.lifecycle, e.id <= cursor', delivery'[e.id].status = "none"
               PROVE  e.id \in late
    BY <1>1 DEF LateOnes
  <2>1. e.id \in Ids
    BY DEF CInv, ChainTypeOK, Entry
  <2>2. e.id \notin queued /\ delivery[e.id].status = "none"
    BY <1>7, <2>1
  <2>3. CASE e.id <= cursor
    BY <2>2, <2>3 DEF HooksInv, LateOnes
  <2>4. CASE cursor < e.id
    <3>1. e.id \in Nat /\ cursor \in Nat /\ cursor' \in Nat
      BY <1>1, <1>3, <1>6, <2>1 DEF Ids
    <3>2. cursor' \in queued
      BY <1>6, <2>4, <3>1
    <3>3. e.id < cursor'
      BY <2>2, <3>1, <3>2
    <3> QED BY <1>1, <2>2, <2>4, <3>2, <3>3 DEF HooksInv, NothingJumped, queued
  <2>5. e.id \in Nat /\ cursor \in Nat
    BY <1>1, <1>3, <2>1 DEF Ids
  <2> QED BY <2>3, <2>4, <2>5
<1> QED BY <1>8, <1>9, <1>10, <1>11 DEF HooksInv

LEMMA HooksInvStep == CInv /\ HooksInv /\ [FeedNext]_feedVars => HooksInv'
<1> SUFFICES ASSUME CInv, HooksInv, [FeedNext]_feedVars
             PROVE  HooksInv'
  OBVIOUS
<1>1. CASE HooksSweep \/ HooksCommit \/ HooksCrash
  BY <1>1, HooksSweepStep, HooksCommitStep, HooksCrashStep
<1>2. CASE \E w \in Writers : FlushTxn(w) \/ CommitTxn(w) \/ RollbackTxn(w)
  BY <1>2, WriterHooks, CommitHooks
<1>3. CASE \E w \in Writers, lifecycle \in Lifecycle : AppendAudit(w, lifecycle)
  BY <1>3, WriterHooks
<1>4. CASE UNCHANGED feedVars
  <2>1. HooksTypeOK'
    BY <1>4 DEF HooksInv, HooksTypeOK, feedVars
  <2> QED BY <1>4, <2>1, NotCommitted DEF feedVars
<1> QED BY <1>1, <1>2, <1>3, <1>4 DEF FeedNext

LEMMA HooksInvariant == FeedSpec => [](CInv /\ HooksInv)
BY CInvInit, CInvStep, HooksInvInit, HooksInvStep, PTL DEF FeedSpec

\* What the log, the sessions, the cursor and the deliveries hold.
THEOREM FeedTypeCorrect == FeedSpec => []FeedTypeOK
<1>1. CInv /\ HooksInv => FeedTypeOK
  BY DEF CInv, ChainTypeOK, HooksInv, HooksTypeOK, FeedTypeOK
<1> QED BY <1>1, HooksInvariant, PTL

\* The sweep misses only what it could not see (webhooks.process): with any batch and any
\* number of sessions, a lifecycle event behind the cursor has its delivery unless another
\* session with a higher identifier was committed before its own.
THEOREM OnlyLateMissed == FeedSpec => []OnlyLateOnesMissed
<1>1. HooksInv => OnlyLateOnesMissed
  BY DEF HooksInv, LateOnes, OnlyLateOnesMissed, NoDelivery
<1> QED BY <1>1, HooksInvariant, PTL
=============================================================================

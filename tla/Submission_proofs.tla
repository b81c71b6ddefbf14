--------------------------- MODULE Submission_proofs ---------------------------
(***************************************************************************)
(* Proofs about a request's way to what is handed over, for any options,    *)
(* recipes and networks, any drafts, tabs, costs and budget, and any        *)
(* people, quorum and change window: that what the form offers is accepted, *)
(* that what was sent for approval stays sent and carries its estimate,     *)
(* that the committed spend keeps to the budget, and that what was handed   *)
(* over had been approved by others than its requester.                     *)
(*                                                                          *)
(* A budget is a sum over a set of requests.  The theorems on induction     *)
(* take an operator, but that every set of finite sets has a smallest one   *)
(* can be cited, and what a sum is follows from it.                         *)
(***************************************************************************)
EXTENDS ComponentForm, Intake, ApprovalGates, FiniteSetTheorems, WellFoundedInduction, TLAPS

----------------------------------------------------------------------------
(* Sums *)

\* Of any finite sets there is one that contains no other.
LEMMA SmallestSet ==
    ASSUME NEW S, IsFiniteSet(S), NEW Bad, Bad \subseteq SUBSET S, Bad # {}
    PROVE  \E D \in Bad : \A E \in Bad : ~(E \subseteq D /\ E # D)
<1>1. IsWellFoundedOn(StrictSubsetOrdering(S), FiniteSubsetsOf(S))
  BY FS_StrictSubsetOrderingWellFounded
<1>2. Bad \subseteq FiniteSubsetsOf(S)
  BY FS_Subset DEF FiniteSubsetsOf
<1>3. PICK D \in Bad : \A E \in Bad : ~(<<E, D>> \in StrictSubsetOrdering(S))
  BY <1>1, <1>2, WFMin
<1> QED BY <1>3 DEF StrictSubsetOrdering

LEMMA SmallestNumber ==
    ASSUME NEW Bad, Bad \subseteq Nat, Bad # {}
    PROVE  \E n \in Bad : \A m \in Bad : ~(m < n)
<1>1. PICK n \in Bad : \A m \in Bad : ~(<<m, n>> \in OpToRel(<, Nat))
  BY NatLessThanWellFounded, WFMin
<1> QED BY <1>1 DEF OpToRel

\* What MapThenSumSet takes out first.
First(s) == CHOOSE x \in s : TRUE

\* g adds up e over the subsets of S of at most n elements.
AddsUp(g, e, S, n) ==
    \A s \in SUBSET S : Cardinality(s) <= n =>
       g[s] = IF s = {} THEN 0 ELSE e[First(s)] + g[s \ {First(s)}]

\* g adds up e over the subsets of S, whichever element is taken first.
SumsUp(g, e, S) ==
    g[{}] = 0 /\ \A D \in SUBSET S : \A x \in D : g[D] = e[x] + g[D \ {x}]

LEMMA FirstIn == \A s : s # {} => First(s) \in s
BY DEF First

LEMMA Smaller ==
    ASSUME NEW S, IsFiniteSet(S), NEW s \in SUBSET S, NEW x \in s
    PROVE  /\ s \ {x} \in SUBSET S /\ IsFiniteSet(s) /\ IsFiniteSet(s \ {x})
           /\ Cardinality(s) \in Nat /\ Cardinality(s \ {x}) = Cardinality(s) - 1
<1>1. IsFiniteSet(s)
  BY FS_Subset
<1> QED BY <1>1, FS_RemoveElement, FS_CardinalityType

\* There is a function that adds up: one element more at a time.
LEMMA AddsUpTo ==
    ASSUME NEW S, IsFiniteSet(S), NEW e \in [S -> Nat],
           NEW n \in Nat
    PROVE  \E g \in [SUBSET S -> Nat] : AddsUp(g, e, S, n)
<1> DEFINE Bad == {k \in Nat : ~ \E g \in [SUBSET S -> Nat] : AddsUp(g, e, S, k)}
<1>1. SUFFICES ASSUME Bad # {}
               PROVE  FALSE
  OBVIOUS
<1>2. PICK k \in Bad : \A m \in Bad : ~(m < k)
  BY <1>1, SmallestNumber
<1>3. k # 0
  <2> DEFINE g == [s \in SUBSET S |-> 0]
  <2>1. g \in [SUBSET S -> Nat]
    OBVIOUS
  <2>2. \A s \in SUBSET S : Cardinality(s) <= 0 => s = {}
    BY FS_Subset, FS_EmptySet, FS_CardinalityType
  <2>3. AddsUp(g, e, S, 0)
    BY <2>2 DEF AddsUp
  <2> QED BY <2>1, <2>3
<1>4. PICK g \in [SUBSET S -> Nat] : AddsUp(g, e, S, k - 1)
  <2>1. k - 1 \in Nat /\ k - 1 < k
    BY <1>2, <1>3
  <2>2. k - 1 \notin Bad
    BY <1>2, <2>1
  <2> QED BY <2>1, <2>2
<1> DEFINE h == [s \in SUBSET S |->
                   IF s = {} THEN 0
                   ELSE IF Cardinality(s) <= k - 1 THEN g[s]
                   ELSE e[First(s)] + g[s \ {First(s)}]]
<1>5. h \in [SUBSET S -> Nat]
  <2> SUFFICES ASSUME NEW s \in SUBSET S, s # {}
               PROVE  e[First(s)] + g[s \ {First(s)}] \in Nat
    OBVIOUS
  <2>1. First(s) \in S /\ s \ {First(s)} \in SUBSET S
    BY FirstIn
  <2> QED BY <2>1
<1>6. AddsUp(h, e, S, k)
  <2> SUFFICES ASSUME NEW s \in SUBSET S, Cardinality(s) <= k, s # {}
               PROVE  h[s] = e[First(s)] + h[s \ {First(s)}]
    BY DEF AddsUp
  <2> DEFINE x == First(s)
             t == s \ {x}
  <2>1. x \in s /\ t \in SUBSET S /\ Cardinality(t) = Cardinality(s) - 1 /\ Cardinality(s) \in Nat
    BY FirstIn, Smaller
  <2>2. h[t] = g[t]
    <3>1. CASE t = {}
      <4>1. Cardinality(t) <= k - 1
        BY <2>1, <1>2
      <4>2. g[t] = 0
        BY <1>4, <4>1, <3>1, <2>1 DEF AddsUp
      <4> QED BY <3>1, <4>2
    <3>2. CASE t # {}
      BY <2>1, <1>2, <3>2
    <3> QED BY <3>1, <3>2
  <2>3. h[s] = e[x] + g[t]
    <3>1. CASE Cardinality(s) <= k - 1
      BY <1>4, <3>1 DEF AddsUp
    <3>2. CASE ~(Cardinality(s) <= k - 1)
      BY <3>2
    <3> QED BY <3>1, <3>2
  <2> HIDE DEF h
  <2> QED BY <2>2, <2>3
<1> HIDE DEF h
<1> QED BY <1>2, <1>5, <1>6

\* And it is what Total comes to.
LEMMA TotalAddsUp ==
    ASSUME NEW S, IsFiniteSet(S), NEW e \in [S -> Nat],
           NEW g \in [SUBSET S -> Nat], AddsUp(g, e, S, Cardinality(S)),
           NEW D \in SUBSET S
    PROVE  Total(e, D) = g[D]
<1> DEFINE Step(f) == [s \in SUBSET D |-> IF s = {} THEN 0
                            ELSE LET x == CHOOSE x \in s : TRUE IN e[x] + f[s \ {x}]]
           iter == CHOOSE f : f = Step(f)
           h == [s \in SUBSET D |-> g[s]]
<1>1. Total(e, D) = iter[D]
  BY DEF Total, MapThenSumSet, MapThenFoldSet
<1>2. \A s \in SUBSET S : g[s] = IF s = {} THEN 0 ELSE e[First(s)] + g[s \ {First(s)}]
  BY FS_Subset DEF AddsUp
<1>3. h = Step(h)
  BY <1>2 DEF First
<1>4. iter = Step(iter)
  BY <1>3
<1>5. \A s \in SUBSET D : iter[s] = IF s = {} THEN 0 ELSE e[First(s)] + iter[s \ {First(s)}]
  BY <1>4 DEF First
<1> HIDE DEF iter
<1> DEFINE Bad == {s \in SUBSET D : iter[s] # g[s]}
<1>6. ASSUME Bad # {}
      PROVE  FALSE
  <2>1. PICK s \in Bad : \A t \in Bad : ~(t \subseteq s /\ t # s)
    <3>1. Bad \subseteq SUBSET S
      OBVIOUS
    <3> HIDE DEF Bad
    <3> QED BY <1>6, <3>1, SmallestSet
  <2>2. s # {} /\ s \in SUBSET S
    BY <1>2, <1>5, <2>1
  <2> DEFINE t == s \ {First(s)}
  <2>3. First(s) \in s /\ t \in SUBSET D /\ t \subseteq s /\ t # s
    BY <2>1, <2>2, FirstIn
  <2>4. iter[t] = g[t]
    BY <2>1, <2>3
  <2>5. iter[s] = e[First(s)] + iter[t] /\ g[s] = e[First(s)] + g[t]
    BY <1>2, <1>5, <2>1, <2>2
  <2> QED BY <2>1, <2>4, <2>5
<1>7. iter[D] = g[D]
  BY <1>6
<1> QED BY <1>1, <1>7

\* Any element may be taken first.
LEMMA AnyFirst ==
    ASSUME NEW S, IsFiniteSet(S), NEW e \in [S -> Nat],
           NEW g \in [SUBSET S -> Nat], AddsUp(g, e, S, Cardinality(S))
    PROVE  SumsUp(g, e, S)
<1>1. \A s \in SUBSET S : g[s] = IF s = {} THEN 0 ELSE e[First(s)] + g[s \ {First(s)}]
  BY FS_Subset DEF AddsUp
<1> DEFINE Bad == {s \in SUBSET S : \E x \in s : g[s] # e[x] + g[s \ {x}]}
<1>2. ASSUME Bad # {}
      PROVE  FALSE
  <2>1. PICK s \in Bad : \A t \in Bad : ~(t \subseteq s /\ t # s)
    <3>1. Bad \subseteq SUBSET S
      OBVIOUS
    <3> HIDE DEF Bad
    <3> QED BY <1>2, <3>1, SmallestSet
  <2>2. PICK x \in s : g[s] # e[x] + g[s \ {x}]
    BY <2>1
  <2> DEFINE y == First(s)
             u == s \ {x}
             v == s \ {y}
             w == s \ {x, y}
  <2>3. y \in s /\ s \in SUBSET S /\ g[s] = e[y] + g[v]
    BY <1>1, <2>1, <2>2, FirstIn
  <2>4. x # y
    BY <2>2, <2>3
  <2>5. u \notin Bad /\ v \notin Bad
    BY <2>1, <2>2, <2>3
  <2>6. g[u] = e[y] + g[w]
    <3>1. y \in u /\ u \ {y} = w
      BY <2>3, <2>4
    <3> QED BY <2>3, <2>5, <3>1
  <2>7. g[v] = e[x] + g[w]
    <3>1. x \in v /\ v \ {x} = w
      BY <2>3, <2>4
    <3> QED BY <2>3, <2>5, <3>1
  <2>8. e[x] \in Nat /\ e[y] \in Nat /\ g[w] \in Nat
    BY <2>1, <2>3
  <2> QED BY <2>2, <2>3, <2>6, <2>7, <2>8
<1> QED BY <1>1, <1>2 DEF SumsUp

\* A total is a sum: nothing over nothing, and any element apart from the rest.
LEMMA TotalIsASum ==
    ASSUME NEW S, IsFiniteSet(S), NEW e \in [S -> Nat]
    PROVE  \E g \in [SUBSET S -> Nat] :
              SumsUp(g, e, S) /\ \A D \in SUBSET S : Total(e, D) = g[D]
<1>1. PICK g \in [SUBSET S -> Nat] : AddsUp(g, e, S, Cardinality(S))
  BY AddsUpTo, FS_CardinalityType
<1>2. SumsUp(g, e, S)
  BY <1>1, AnyFirst
<1>3. \A D \in SUBSET S : Total(e, D) = g[D]
  BY <1>1, TotalAddsUp
<1> QED BY <1>2, <1>3

\* What is added up over more, and more of each, comes to no less.
LEMMA TotalGrows ==
    ASSUME NEW S, IsFiniteSet(S), NEW e \in [S -> Nat],
           NEW d \in [S -> Nat],
           NEW D \in SUBSET S, NEW E \in SUBSET D
    PROVE  /\ Total(e, D) \in Nat /\ Total(d, E) \in Nat
           /\ (\A x \in E : d[x] <= e[x]) => Total(d, E) <= Total(e, D)
<1>1. \A f \in [S -> Nat] : \E g \in [SUBSET S -> Nat] :
          SumsUp(g, f, S) /\ \A F \in SUBSET S : Total(f, F) = g[F]
  BY TotalIsASum
<1>2. PICK g \in [SUBSET S -> Nat] :
          SumsUp(g, e, S) /\ \A F \in SUBSET S : Total(e, F) = g[F]
  BY <1>1
<1>3. PICK h \in [SUBSET S -> Nat] :
          SumsUp(h, d, S) /\ \A F \in SUBSET S : Total(d, F) = h[F]
  BY <1>1
<1> DEFINE Bad == {F \in SUBSET S : /\ \A x \in F : d[x] <= e[x]
                                    /\ \E G \in SUBSET S : F \subseteq G /\ ~(h[F] <= g[G])}
<1>4. ASSUME Bad # {}
      PROVE  FALSE
  <2>1. PICK F \in Bad : \A t \in Bad : ~(t \subseteq F /\ t # F)
    <3>1. Bad \subseteq SUBSET S
      OBVIOUS
    <3> HIDE DEF Bad
    <3> QED BY <1>4, <3>1, SmallestSet
  <2>2. PICK G \in SUBSET S : F \subseteq G /\ ~(h[F] <= g[G])
    BY <2>1
  <2>3. F # {}
    <3>1. h[{}] = 0 /\ g[G] \in Nat
      BY <1>3 DEF SumsUp
    <3>2. g[G] >= 0
      BY <3>1
    <3> QED BY <2>2, <3>1, <3>2
  <2>4. PICK x \in F : TRUE
    BY <2>3
  <2> DEFINE P == F \ {x}
             Q == G \ {x}
  <2>5. P \in SUBSET S /\ Q \in SUBSET S /\ P \subseteq Q /\ P \notin Bad
    BY <2>1, <2>2, <2>4
  <2>6. h[P] <= g[Q]
    BY <2>1, <2>5
  <2>7. h[F] = d[x] + h[P] /\ g[G] = e[x] + g[Q] /\ d[x] <= e[x]
    BY <1>2, <1>3, <2>1, <2>2, <2>4 DEF SumsUp
  <2>8. d[x] \in Nat /\ e[x] \in Nat /\ h[P] \in Nat /\ g[Q] \in Nat
    BY <2>1, <2>4, <2>5
  <2> QED BY <2>2, <2>6, <2>7, <2>8
<1>5. (\A x \in E : d[x] <= e[x]) => h[E] <= g[D]
  BY <1>4
<1> QED BY <1>2, <1>3, <1>5

LEMMA TotalWith ==
    ASSUME NEW S, IsFiniteSet(S), NEW e \in [S -> Nat],
           NEW D \in SUBSET S, NEW x \in S \ D
    PROVE  Total(e, D \cup {x}) = e[x] + Total(e, D)
<1>1. D \cup {x} \in SUBSET S /\ (D \cup {x}) \ {x} = D
  OBVIOUS
<1>2. PICK g \in [SUBSET S -> Nat] :
          SumsUp(g, e, S) /\ \A F \in SUBSET S : Total(e, F) = g[F]
  BY TotalIsASum
<1>3. g[D \cup {x}] = e[x] + g[(D \cup {x}) \ {x}]
  BY <1>1, <1>2 DEF SumsUp
<1> QED BY <1>1, <1>2, <1>3

----------------------------------------------------------------------------
(* Submissions *)

\* What a session holds was a draft when it looked, or one that was cancelled before it
\* was ever sent.
Loaded ==
    \A s \in Sessions : submit[s] # NoSubmit =>
        /\ submit[s].content \in Costs
        /\ submit[s].was \in {"draft", "cancelled"}

\* What was ever worked on has a ticket, and so does what a session saw counted.
Charged ==
    /\ \A r \in Drafts : status[r] \notin {"draft", "cancelled"} => approval[r] # 0
    /\ \A s \in Sessions : \A r \in submit[s].seen : approval[r] # 0

\* What a session submits without a warning fitted beside what it saw.
Affordable ==
    \A s \in Sessions : submit[s] # NoSubmit /\ ~submit[s].over =>
        Spend(submit[s].seen) + submit[s].content <= Limit

\* Where the budget is enforced nothing is sent past it.
Enforced == Enforcement = {TRUE} => warned = {} /\ \A s \in Sessions : ~submit[s].over

\* What the budget is held to.
Counted == {r \in Drafts \ (unchecked \cup warned) : status[r] \in COMMITTED}

IntakeInv ==
    /\ IntakeTypeOK /\ SentStaysSent /\ Loaded /\ Charged /\ Affordable /\ Enforced
    /\ BudgetHolds

SubmitRecord ==
    [was : RequestState, content : Costs \cup {0}, seen : SUBSET Drafts, over : BOOLEAN]

LEMMA NoSubmitOK == NoSubmit \in SubmitRecord /\ NoSubmit.seen = {} /\ ~NoSubmit.over
BY DEF NoSubmit, SubmitRecord, RequestState

LEMMA EstimatesAreAmounts ==
    ASSUME IntakeTypeOK
    PROVE  estimate \in [Drafts -> Nat]
BY IntakeConstants DEF IntakeTypeOK, Costs

\* As long as the estimates of what is counted stay, less counted comes to no more.
LEMMA SpendShrinks ==
    ASSUME IntakeTypeOK, IntakeTypeOK', NEW D \in SUBSET Drafts, NEW E \in SUBSET D,
           \A r \in E : estimate'[r] = estimate[r]
    PROVE  /\ Total(estimate, D) \in Nat /\ Total(estimate', E) \in Nat
           /\ Total(estimate', E) <= Total(estimate, D)
<1>1. estimate \in [Drafts -> Nat] /\ estimate' \in [Drafts -> Nat]
  BY EstimatesAreAmounts, IntakeConstants DEF IntakeTypeOK, Costs
<1>2. \A r \in E : estimate'[r] <= estimate[r]
  BY <1>1
<1> QED BY <1>1, <1>2, IntakeConstants, TotalGrows

\* Steps that send nothing keep what the submissions rest on.
LEMMA NothingSent ==
    ASSUME IntakeInv, IntakeTypeOK', UNCHANGED <<estimate, approval, submit, warned>>,
           \A r \in Drafts : status'[r] # status[r] =>
               /\ status'[r] # "draft"
               /\ status'[r] = "cancelled" \/ approval[r] # 0,
           Counted' \subseteq Counted
    PROVE  IntakeInv'
<1>1. SentStaysSent'
  BY DEF IntakeInv, SentStaysSent
<1>2. Loaded'
  BY DEF IntakeInv, Loaded
<1>3. Charged'
  BY DEF IntakeInv, Charged
<1>4. Affordable' /\ Enforced'
  BY DEF IntakeInv, Affordable, Spend, Enforced
<1>5. BudgetHolds'
  <2>1. Counted \in SUBSET Drafts /\ Counted' \in SUBSET Counted
    BY DEF Counted
  <2> HIDE DEF Counted
  <2>2. /\ Total(estimate, Counted) \in Nat /\ Total(estimate', Counted') \in Nat
        /\ Total(estimate', Counted') <= Total(estimate, Counted)
    BY <2>1, SpendShrinks DEF IntakeInv
  <2>3. Total(estimate, Counted) <= Limit
    BY DEF IntakeInv, BudgetHolds, Spend, Counted
  <2>4. Total(estimate', Counted') <= Limit
    BY <2>2, <2>3, IntakeConstants
  <2> QED BY <2>4 DEF BudgetHolds, Spend, Counted
<1> QED BY <1>1, <1>2, <1>3, <1>4, <1>5 DEF IntakeInv

LEMMA EditLoadsStep ==
    ASSUME IntakeInv, NEW r \in Drafts, EditLoads(r)
    PROVE  IntakeInv'
<1>1. IntakeTypeOK'
  BY DEF IntakeInv, IntakeTypeOK, EditLoads
<1> QED BY <1>1, NothingSent DEF EditLoads, Counted

LEMMA EditCommitsStep ==
    ASSUME IntakeInv, NEW r \in Drafts, EditCommits(r)
    PROVE  IntakeInv'
<1>1. IntakeTypeOK'
  BY DEF IntakeInv, IntakeTypeOK, EditCommits
<1> QED BY <1>1, NothingSent DEF EditCommits, Counted

LEMMA CancelLoadsStep ==
    ASSUME IntakeInv, NEW r \in Drafts, CancelLoads(r)
    PROVE  IntakeInv'
<1>1. IntakeTypeOK'
  BY DEF IntakeInv, IntakeTypeOK, CancelLoads
<1> QED BY <1>1, NothingSent DEF CancelLoads, Counted

LEMMA CancelCommitsStep ==
    ASSUME IntakeInv, NEW r \in Drafts, CancelCommits(r)
    PROVE  IntakeInv'
<1>1. IntakeTypeOK'
  BY DEF IntakeInv, IntakeTypeOK, CancelCommits, RequestState
<1>2. \A o \in Drafts : status'[o] = IF o = r THEN "cancelled" ELSE status[o]
  BY DEF IntakeInv, IntakeTypeOK, CancelCommits
<1>3. Counted' \subseteq Counted
  BY <1>2 DEF CancelCommits, Counted, COMMITTED
<1>4. UNCHANGED <<estimate, approval, submit, warned>>
  BY DEF CancelCommits
<1> QED BY <1>1, <1>2, <1>3, <1>4, NothingSent DEF COMMITTED

LEMMA ProgressStep ==
    ASSUME IntakeInv, NEW r \in Drafts, Progress(r)
    PROVE  IntakeInv'
<1>1. PICK next \in Reached :
          /\ status' = [status EXCEPT ![r] = next]
          /\ unchecked' = IF status[r] \notin COMMITTED /\ next \in COMMITTED
                          THEN unchecked \cup {r} ELSE unchecked
  BY DEF Progress
<1>2. /\ next \in RequestState \ {"draft", "cancelled"} /\ approval[r] # 0
      /\ UNCHANGED <<content, estimate, approval, submit, edit, cancel, warned>>
  BY WorkReaches DEF Progress
<1>3. \A o \in Drafts : status'[o] = IF o = r THEN next ELSE status[o]
  BY <1>1 DEF IntakeInv, IntakeTypeOK
<1>4. IntakeTypeOK'
  BY <1>1, <1>2 DEF IntakeInv, IntakeTypeOK
<1>5. Counted' \subseteq Counted
  BY <1>1, <1>2, <1>3 DEF Counted
<1> QED BY <1>2, <1>3, <1>4, <1>5, NothingSent

\* A session that is emptied holds nothing.
LEMMA Empties ==
    ASSUME IntakeInv, NEW s \in Sessions, submit' = [submit EXCEPT ![s] = NoSubmit]
    PROVE  /\ submit' \in [Sessions -> SubmitRecord]
           /\ \A o \in Sessions : submit'[o] # NoSubmit => submit'[o] = submit[o]
           /\ \A o \in Sessions : submit'[o].seen \subseteq submit[o].seen
           /\ \A o \in Sessions : submit'[o].over => submit[o].over
<1>1. submit \in [Sessions -> SubmitRecord]
  BY DEF IntakeInv, IntakeTypeOK, SubmitRecord
<1> QED BY <1>1, NoSubmitOK

LEMMA SubmitFailsStep ==
    ASSUME IntakeInv, NEW s \in Sessions, SubmitFails(s)
    PROVE  IntakeInv'
<1>1. /\ submit' \in [Sessions -> SubmitRecord]
      /\ \A o \in Sessions : submit'[o] # NoSubmit => submit'[o] = submit[o]
      /\ \A o \in Sessions : submit'[o].seen \subseteq submit[o].seen
      /\ \A o \in Sessions : submit'[o].over => submit[o].over
  BY Empties DEF SubmitFails
<1>2. UNCHANGED <<status, content, estimate, approval, edit, cancel, unchecked, warned>>
  BY DEF SubmitFails
<1>3. IntakeTypeOK' /\ SentStaysSent' /\ BudgetHolds'
  BY <1>1, <1>2 DEF IntakeInv, IntakeTypeOK, SentStaysSent, BudgetHolds, Spend, SubmitRecord
<1>4. Loaded'
  BY <1>1, <1>2 DEF IntakeInv, Loaded
<1>5. Charged'
  BY <1>1, <1>2 DEF IntakeInv, Charged
<1>6. Affordable' /\ Enforced'
  BY <1>1, <1>2 DEF IntakeInv, Affordable, Spend, Enforced
<1> QED BY <1>3, <1>4, <1>5, <1>6 DEF IntakeInv

LEMMA SubmitChecksStep ==
    ASSUME IntakeInv, NEW s \in Sessions, SubmitChecks(s)
    PROVE  IntakeInv'
<1>0. PICK enforced \in Enforcement :
          LET over == Spend(Committed(s[1])) + content[s[1]] > Limit
          IN  /\ ~(over /\ enforced)
              /\ submit' = [submit EXCEPT ![s] =
                    [was |-> status[s[1]], content |-> content[s[1]],
                     seen |-> Committed(s[1]), over |-> over]]
  BY DEF SubmitChecks
<1> DEFINE r == s[1]
           over == Spend(Committed(r)) + content[r] > Limit
           row == [was |-> status[r], content |-> content[r], seen |-> Committed(r),
                   over |-> over]
<1>1. /\ r \in Drafts /\ approval[r] = 0 /\ ~(over /\ enforced)
      /\ submit' = [submit EXCEPT ![s] = row]
      /\ UNCHANGED <<status, content, estimate, approval, edit, cancel, unchecked, warned>>
  BY <1>0, IntakeConstants DEF SubmitChecks
<1>2. submit \in [Sessions -> SubmitRecord] /\ status[r] \in RequestState /\ content[r] \in Costs
  BY <1>1 DEF IntakeInv, IntakeTypeOK, SubmitRecord
<1>3. /\ row \in SubmitRecord /\ row.seen = Committed(r) /\ row.content = content[r]
      /\ row.was = status[r] /\ row.over = over
  BY <1>2 DEF SubmitRecord, Committed
<1>4. row.was \in {"draft", "cancelled"}
  BY <1>1, <1>2, <1>3 DEF IntakeInv, Charged
<1>5. \A o \in row.seen : approval[o] # 0
  BY <1>3 DEF IntakeInv, Charged, Committed, COMMITTED
<1>a. ~row.over => Spend(row.seen) + row.content <= Limit
  <2>1. estimate \in [Drafts -> Nat] /\ Committed(r) \in SUBSET Drafts
    BY EstimatesAreAmounts DEF IntakeInv, Committed
  <2>2. Spend(Committed(r)) \in Nat
    BY <2>1, IntakeConstants, TotalGrows DEF Spend
  <2>3. content[r] \in Nat /\ Limit \in Nat
    BY <1>2, IntakeConstants DEF Costs
  <2>4. ~over => Spend(Committed(r)) + content[r] <= Limit
    BY <2>2, <2>3
  <2> QED BY <2>4, <1>3
<1>b. Enforcement = {TRUE} => ~row.over
  <2> HIDE DEF row, over
  <2>1. enforced \in Enforcement /\ ~(over /\ enforced) /\ row.over = over
    BY <1>1, <1>3
  <2>2. CASE Enforcement = {TRUE}
    BY <2>1, <2>2, Zenon
  <2> QED BY <2>2
<1> HIDE DEF row, over, r
<1>6. \A o \in Sessions : submit'[o] = IF o = s THEN row ELSE submit[o]
  BY <1>1, <1>2
<1>7. submit' \in [Sessions -> SubmitRecord]
  BY <1>1, <1>2, <1>3
<1>8. IntakeTypeOK' /\ SentStaysSent' /\ BudgetHolds'
  BY <1>1, <1>7 DEF IntakeInv, IntakeTypeOK, SentStaysSent, BudgetHolds, Spend, SubmitRecord
<1>9. Loaded'
  BY <1>1, <1>2, <1>3, <1>4, <1>6 DEF IntakeInv, Loaded
<1>10. Charged'
  BY <1>1, <1>5, <1>6 DEF IntakeInv, Charged
<1>11. Affordable'
  BY <1>1, <1>a, <1>6 DEF IntakeInv, Affordable, Spend
<1>12. Enforced'
  BY <1>1, <1>b, <1>6 DEF IntakeInv, Enforced
<1> QED BY <1>8, <1>9, <1>10, <1>11, <1>12 DEF IntakeInv

LEMMA SubmitCommitsStep ==
    ASSUME IntakeInv, NEW s \in Sessions, SubmitCommits(s)
    PROVE  IntakeInv'
<1> DEFINE r == s[1]
           cost == submit[s].content
<1>1. /\ submit' \in [Sessions -> SubmitRecord]
      /\ \A o \in Sessions : submit'[o] # NoSubmit => submit'[o] = submit[o]
      /\ \A o \in Sessions : submit'[o].seen \subseteq submit[o].seen
      /\ \A o \in Sessions : submit'[o].over => submit[o].over
  BY Empties DEF SubmitCommits
<1>2. /\ r \in Drafts /\ cost \in Costs /\ submit[s] # NoSubmit
      /\ submit[s].was \in {"draft", "cancelled"}
      /\ submit[s].seen \in SUBSET Drafts /\ UNCHANGED <<content, edit, cancel>>
  BY IntakeConstants DEF IntakeInv, IntakeTypeOK, Loaded, SubmitCommits
<1>3. /\ Loaded' /\ (~submit[s].over => Spend(submit[s].seen) + cost <= Limit)
  BY <1>1, <1>2 DEF IntakeInv, Loaded, Affordable
<1>4. CASE UNCHANGED <<status, estimate, approval, unchecked, warned>>
  <2>1. IntakeTypeOK' /\ SentStaysSent' /\ BudgetHolds'
    BY <1>1, <1>2, <1>4 DEF IntakeInv, IntakeTypeOK, SentStaysSent, BudgetHolds, Spend,
                            SubmitRecord
  <2>2. Charged'
    BY <1>1, <1>4 DEF IntakeInv, Charged
  <2>3. Affordable' /\ Enforced'
    BY <1>1, <1>4 DEF IntakeInv, Affordable, Spend, Enforced
  <2> QED BY <1>3, <2>1, <2>2, <2>3 DEF IntakeInv
<1>5. CASE /\ approval[r] = 0
           /\ status' = [status EXCEPT ![r] = "submitted"]
           /\ estimate' = [estimate EXCEPT ![r] = cost]
           /\ approval' = [approval EXCEPT ![r] = cost]
           /\ unchecked' = IF Committed(r) \subseteq submit[s].seen THEN unchecked
                           ELSE unchecked \cup {r}
           /\ warned' = IF submit[s].over THEN warned \cup {r} ELSE warned
  <2> HIDE DEF r, cost
  <2>1. IntakeTypeOK'
    BY <1>1, <1>2, <1>5 DEF IntakeInv, IntakeTypeOK, SubmitRecord, RequestState
  <2>2. /\ \A o \in Drafts : status'[o] = IF o = r THEN "submitted" ELSE status[o]
        /\ \A o \in Drafts : estimate'[o] = IF o = r THEN cost ELSE estimate[o]
        /\ \A o \in Drafts : approval'[o] = IF o = r THEN cost ELSE approval[o]
        /\ cost # 0 /\ cost \in Nat
    BY <1>2, <1>5, IntakeConstants DEF IntakeInv, IntakeTypeOK, Costs
  <2>3. SentStaysSent'
    BY <2>2 DEF IntakeInv, SentStaysSent
  <2>4. Charged'
    BY <1>1, <2>1, <2>2 DEF IntakeInv, IntakeTypeOK, SubmitRecord, Charged
  \* What a session saw had its ticket, and keeps its estimate.
  <2>5. \A o \in Sessions : r \notin submit[o].seen
    BY <1>5 DEF IntakeInv, Charged
  <2>6. ASSUME NEW o \in Sessions
        PROVE  /\ Total(estimate, submit[o].seen) \in Nat
               /\ Total(estimate', submit[o].seen) \in Nat
               /\ Total(estimate', submit[o].seen) <= Total(estimate, submit[o].seen)
    <3>1. submit[o].seen \in SUBSET Drafts /\ submit[o].seen \in SUBSET submit[o].seen
      BY DEF IntakeInv, IntakeTypeOK
    <3>2. \A q \in submit[o].seen : estimate'[q] = estimate[q]
      BY <2>2, <2>5, <3>1
    <3> QED BY <2>1, <3>1, <3>2, SpendShrinks DEF IntakeInv
  <2>7. Affordable'
    <3> SUFFICES ASSUME NEW o \in Sessions, submit'[o] # NoSubmit, ~submit'[o].over
                 PROVE  Total(estimate', submit'[o].seen) + submit'[o].content <= Limit
      BY DEF Affordable, Spend
    <3>1. submit'[o] = submit[o] /\ submit[o] # NoSubmit
      BY <1>1
    <3>2. /\ Total(estimate, submit[o].seen) + submit[o].content <= Limit
          /\ submit[o].content \in Nat
      BY <3>1, IntakeConstants DEF IntakeInv, Affordable, Spend, Loaded, Costs
    <3> QED BY <2>6, <3>1, <3>2, IntakeConstants
  <2>8. Total(estimate', Counted') <= Limit
    <3>1. CASE Committed(r) \subseteq submit[s].seen /\ ~submit[s].over
      <4> DEFINE others == Counted' \ {r}
      <4>1. others \in SUBSET submit[s].seen /\ others \in SUBSET Drafts /\ r \notin others
        BY <2>2, <3>1, <1>5 DEF Counted, Committed
      <4>2. \A q \in others : estimate'[q] = estimate[q]
        BY <2>2, <4>1
      <4> HIDE DEF others
      <4>3. /\ Total(estimate, submit[s].seen) \in Nat /\ Total(estimate', others) \in Nat
            /\ Total(estimate', others) <= Total(estimate, submit[s].seen)
        BY <1>2, <2>1, <4>1, <4>2, SpendShrinks DEF IntakeInv
      <4>4. Total(estimate, submit[s].seen) + cost <= Limit
        BY <1>3, <3>1 DEF Spend
      <4>5. estimate' \in [Drafts -> Nat]
        BY <2>1, IntakeConstants DEF IntakeTypeOK, Costs
      <4>6. Total(estimate', others \cup {r}) = cost + Total(estimate', others)
        <5>1. r \in Drafts \ others /\ estimate'[r] = cost
          BY <1>2, <2>2, <4>1
        <5> QED BY <4>1, <4>5, <5>1, IntakeConstants, TotalWith
      <4>7. Counted' = others \/ Counted' = others \cup {r}
        BY DEF others
      <4>8. /\ Total(estimate', others) <= Limit
            /\ Total(estimate', others \cup {r}) <= Limit
        BY <2>2, <4>3, <4>4, <4>6, IntakeConstants
      <4> HIDE DEF Counted
      <4> QED BY <4>7, <4>8
    <3>2. CASE ~(Committed(r) \subseteq submit[s].seen) \/ submit[s].over
      <4>1. Counted' \in SUBSET Counted /\ Counted \in SUBSET Drafts /\ r \notin Counted'
        BY <1>5, <2>2, <3>2 DEF Counted
      <4>2. \A q \in Counted' : estimate'[q] = estimate[q]
        BY <2>2, <4>1
      <4>3. /\ Total(estimate, Counted) \in Nat /\ Total(estimate', Counted') \in Nat
            /\ Total(estimate', Counted') <= Total(estimate, Counted)
        BY <2>1, <4>1, <4>2, SpendShrinks DEF IntakeInv
      <4>4. Total(estimate, Counted) <= Limit
        BY DEF IntakeInv, BudgetHolds, Spend, Counted
      <4> QED BY <4>3, <4>4, IntakeConstants
    <3> QED BY <3>1, <3>2
  <2>9. BudgetHolds'
    BY <2>8 DEF BudgetHolds, Spend, Counted
  <2>10. Enforced'
    BY <1>1, <1>5 DEF IntakeInv, Enforced
  <2> QED BY <1>3, <2>1, <2>3, <2>4, <2>7, <2>9, <2>10 DEF IntakeInv
<1> QED BY <1>2, <1>4, <1>5 DEF SubmitCommits

LEMMA IntakeInvInit == IntakeInit => IntakeInv
<1> SUFFICES ASSUME IntakeInit
             PROVE  IntakeInv
  OBVIOUS
<1>1. IntakeTypeOK
  BY NoSubmitOK, IntakeConstants DEF IntakeInit, IntakeTypeOK, SubmitRecord, RequestState, Costs
<1>2. SentStaysSent /\ Loaded /\ Affordable /\ Enforced
  BY NoSubmitOK DEF IntakeInit, SentStaysSent, Loaded, Affordable, Enforced
<1>3. Charged
  BY NoSubmitOK DEF IntakeInit, Charged, COMMITTED
<1>4. BudgetHolds
  <2>1. Counted = {} /\ {} \in SUBSET Drafts
    BY DEF IntakeInit, Counted, COMMITTED
  <2>2. PICK g \in [SUBSET Drafts -> Nat] :
           SumsUp(g, estimate, Drafts) /\ \A D \in SUBSET Drafts : Total(estimate, D) = g[D]
    <3>1. \A e \in [Drafts -> Nat] : \E g \in [SUBSET Drafts -> Nat] :
             SumsUp(g, e, Drafts) /\ \A D \in SUBSET Drafts : Total(e, D) = g[D]
      BY IntakeConstants, TotalIsASum
    <3> QED BY <3>1, <1>1, EstimatesAreAmounts
  <2>3. Total(estimate, {}) = 0
    BY <2>1, <2>2 DEF SumsUp
  <2>4. Total(estimate, Counted) <= Limit
    BY <2>1, <2>3, IntakeConstants
  <2> QED BY <2>4 DEF BudgetHolds, Spend, Counted
<1> QED BY <1>1, <1>2, <1>3, <1>4 DEF IntakeInv

LEMMA IntakeInvStep == IntakeInv /\ [IntakeNext]_intakeVars => IntakeInv'
<1> SUFFICES ASSUME IntakeInv, [IntakeNext]_intakeVars
             PROVE  IntakeInv'
  OBVIOUS
<1>1. ASSUME NEW s \in Sessions, SubmitChecks(s) \/ SubmitFails(s) \/ SubmitCommits(s)
      PROVE  IntakeInv'
  BY <1>1, SubmitChecksStep, SubmitFailsStep, SubmitCommitsStep
<1>2. ASSUME NEW r \in Drafts,
             \/ EditLoads(r) \/ EditCommits(r) \/ CancelLoads(r) \/ CancelCommits(r)
             \/ Progress(r)
      PROVE  IntakeInv'
  BY <1>2, EditLoadsStep, EditCommitsStep, CancelLoadsStep, CancelCommitsStep, ProgressStep
<1>3. CASE UNCHANGED intakeVars
  BY <1>3 DEF intakeVars, IntakeInv, IntakeTypeOK, SentStaysSent, Loaded, Charged, Affordable,
              Enforced, BudgetHolds, Spend
<1> QED BY <1>1, <1>2, <1>3 DEF IntakeNext

LEMMA IntakeInvariant == IntakeSpec => []IntakeInv
BY IntakeInvInit, IntakeInvStep, PTL DEF IntakeSpec

\* The types of a draft on its way to approval.
THEOREM IntakeTypeCorrect == IntakeSpec => []IntakeTypeOK
<1>1. IntakeInv => IntakeTypeOK
  BY DEF IntakeInv
<1> QED BY <1>1, IntakeInvariant, PTL

\* Whatever tabs save, submit twice or cancel meanwhile, what was sent for approval is no
\* draft again and its estimate is its ticket's.
THEOREM SentIsKept == IntakeSpec => []SentStaysSent
<1>1. IntakeInv => SentStaysSent
  BY DEF IntakeInv
<1> QED BY <1>1, IntakeInvariant, PTL

\* However submissions of one cost centre interleave between their checks and their
\* commits, and whatever becomes of what was sent, what was sent without a warning, on
\* figures that still stood, and was never counted again after it had been left out, keeps
\* to the budget; while the budget is enforced nothing is sent past it with a warning.
THEOREM BudgetIsKept ==
    IntakeSpec => [](BudgetHolds /\ (Enforcement = {TRUE} => warned = {}))
<1>1. IntakeInv => BudgetHolds /\ (Enforcement = {TRUE} => warned = {})
  BY DEF IntakeInv, Enforced
<1> QED BY <1>1, IntakeInvariant, PTL

----------------------------------------------------------------------------
(* The gates of an approval *)

\* Who approved it, in Jira or on the service desk, the requester apart.
Others == (approvers \cup decisions) \ {Requester}

SomebodyElse == Others = {} => unread
EnoughElse == quorum > 1 => Cardinality(Others) >= quorum

\* Each gate that was passed stands for what it let pass, whatever is done in Jira next.
Passed ==
    /\ lastApprover \in approvers \cup {Nobody}
    /\ IsFiniteSet(approvers) /\ IsFiniteSet(decisions)
    /\ \A w \in Readers : gate[w] \in {"quorum", "window", "handoff"} => SomebodyElse
    /\ \A w \in Readers : gate[w] \in {"window", "handoff"} => EnoughElse

GatesInv == GatesTypeOK /\ Passed /\ ApprovedByOthers

\* The approval that the requester had no part in, as the property says it.
LEMMA ApprovedMeans ==
    ApprovedByOthers <=>
        (raised \in {"planned", "provisioned"} => SomebodyElse /\ EnoughElse)
BY DEF ApprovedByOthers, SomebodyElse, EnoughElse, Others

\* People who approved are never fewer later.
LEMMA OthersGrow ==
    ASSUME NEW P, NEW Q, IsFiniteSet(Q), P \subseteq Q
    PROVE  /\ IsFiniteSet(P) /\ Cardinality(P) \in Nat /\ Cardinality(Q) \in Nat
           /\ Cardinality(P) <= Cardinality(Q)
BY FS_Subset, FS_CardinalityType

LEMMA OthersFinite ==
    ASSUME Passed
    PROVE  IsFiniteSet(Others)
BY FS_Union, FS_Difference DEF Passed, Others

\* More approvals keep what was passed, with the gates and the request as they are.
LEMMA MoreApprovals ==
    ASSUME GatesInv, approvers \subseteq approvers', decisions \subseteq decisions',
           IsFiniteSet(approvers'), IsFiniteSet(decisions'),
           lastApprover' \in approvers' \cup {Nobody},
           UNCHANGED <<quorum, raised, gate, unread>>, GatesTypeOK'
    PROVE  GatesInv'
<1>1. Others \subseteq Others'
  BY DEF Others
<1>2. IsFiniteSet(Others')
  BY FS_Union, FS_Difference DEF Others
<1>3. Cardinality(Others) <= Cardinality(Others') /\ Cardinality(Others) \in Nat
      /\ Cardinality(Others') \in Nat /\ quorum \in Nat
  BY <1>1, <1>2, OthersGrow, GatesConstants DEF GatesInv, GatesTypeOK
<1>4. (SomebodyElse => SomebodyElse') /\ (EnoughElse => EnoughElse')
  BY <1>1, <1>3 DEF SomebodyElse, EnoughElse
<1>5. Passed'
  BY <1>4 DEF GatesInv, Passed
<1>6. raised \in {"planned", "provisioned"} => SomebodyElse /\ EnoughElse
  BY ApprovedMeans DEF GatesInv
<1>7. raised' \in {"planned", "provisioned"} => SomebodyElse' /\ EnoughElse'
  BY <1>4, <1>6
<1>8. ApprovedByOthers'
  BY <1>7 DEF ApprovedByOthers, SomebodyElse, EnoughElse, Others
<1> QED BY <1>5, <1>8 DEF GatesInv

\* A step of a reader: the gate it comes to and the request it makes of it are what the
\* approvals allow.
LEMMA ReaderMoves ==
    ASSUME GatesInv, UNCHANGED <<jiraVars, quorum>>, GatesTypeOK', unread => unread',
           \A w \in Readers : gate'[w] # gate[w] =>
              /\ gate'[w] \in {"quorum", "window", "handoff"} => SomebodyElse'
              /\ gate'[w] \in {"window", "handoff"} => EnoughElse,
           raised' # raised => raised' = "rejected" \/ (SomebodyElse /\ EnoughElse)
    PROVE  GatesInv'
<1>1. UNCHANGED <<lastApprover, approvers, decisions, quorum>>
  BY DEF jiraVars
<1>2. (SomebodyElse => SomebodyElse') /\ (EnoughElse => EnoughElse')
  BY <1>1 DEF SomebodyElse, EnoughElse, Others
<1>3. Passed'
  BY <1>1, <1>2 DEF GatesInv, Passed
<1>4. raised \in {"planned", "provisioned"} => SomebodyElse /\ EnoughElse
  BY ApprovedMeans DEF GatesInv
<1>5. raised' \in {"planned", "provisioned"} => SomebodyElse' /\ EnoughElse'
  BY <1>2, <1>4
<1>6. ApprovedByOthers'
  BY <1>5 DEF ApprovedByOthers, SomebodyElse, EnoughElse, Others
<1> QED BY <1>3, <1>6 DEF GatesInv

LEMMA MoveTicketStep ==
    ASSUME GatesInv, NEW p \in People, NEW to \in TicketStatus, MoveTicket(p, to)
    PROVE  GatesInv'
<1>1. GatesTypeOK'
  BY GatesConstants DEF GatesInv, GatesTypeOK, MoveTicket
<1>2. IsFiniteSet(approvers') /\ IsFiniteSet(decisions')
  BY FS_AddElement DEF GatesInv, Passed, MoveTicket
<1>3. /\ approvers \subseteq approvers' /\ decisions \subseteq decisions'
      /\ lastApprover' \in approvers' \cup {Nobody}
      /\ UNCHANGED <<quorum, raised, gate, unread>>
  <2>1. CASE to = "approved"
    BY <2>1 DEF MoveTicket
  <2>2. CASE to # "approved"
    BY <2>2 DEF GatesInv, Passed, MoveTicket
  <2> QED BY <2>1, <2>2
<1> QED BY <1>1, <1>2, <1>3, MoreApprovals

LEMMA DecideStep ==
    ASSUME GatesInv, NEW p \in People, Decide(p)
    PROVE  GatesInv'
<1>1. GatesTypeOK'
  BY GatesConstants DEF GatesInv, GatesTypeOK, Decide
<1>2. IsFiniteSet(approvers') /\ IsFiniteSet(decisions')
  BY FS_AddElement DEF GatesInv, Passed, Decide
<1> QED BY <1>1, <1>2, MoreApprovals DEF GatesInv, Passed, Decide

LEMMA TimeMovesStep ==
    ASSUME GatesInv, TimeMoves
    PROVE  GatesInv'
<1>1. GatesTypeOK'
  BY DEF GatesInv, GatesTypeOK, TimeMoves, jiraVars
<1> QED BY <1>1, ReaderMoves DEF TimeMoves

\* Where a reader goes next.
LEMMA PassesType ==
    ASSUME GatesTypeOK, NEW w \in Readers, NEW next \in Gates, Passes(w, next)
    PROVE  /\ gate' \in [Readers -> Gates]
           /\ \A v \in Readers : gate'[v] = IF v = w THEN next ELSE gate[v]
BY DEF GatesTypeOK, Passes

LEMMA PollReadsStep ==
    ASSUME GatesInv, PollReads
    PROVE  GatesInv'
<1>1. CASE raised' = "rejected" /\ UNCHANGED gate
  <2>1. GatesTypeOK'
    BY <1>1 DEF GatesInv, GatesTypeOK, PollReads, jiraVars
  <2>2. UNCHANGED <<jiraVars, quorum, unread>>
    BY DEF PollReads
  <2>3. /\ \A w \in Readers : gate'[w] = gate[w]
        /\ raised' = "rejected"
    BY <1>1
  <2> QED BY <2>1, <2>2, <2>3, ReaderMoves
<1>2. CASE Passes("poller", "four eyes") /\ UNCHANGED raised
  <2>1. /\ gate' \in [Readers -> Gates]
        /\ \A v \in Readers : gate'[v] = IF v = "poller" THEN "four eyes" ELSE gate[v]
    BY <1>2, PassesType DEF GatesInv, Readers, Gates
  <2>2. GatesTypeOK'
    BY <1>2, <2>1 DEF GatesInv, GatesTypeOK, PollReads, jiraVars
  <2> QED BY <1>2, <2>1, <2>2, ReaderMoves DEF PollReads
<1> QED BY <1>1, <1>2 DEF PollReads

LEMMA PressReadsStep ==
    ASSUME GatesInv, NEW actor \in People, PressReads(actor)
    PROVE  GatesInv'
<1>1. /\ gate' \in [Readers -> Gates]
      /\ \A v \in Readers : gate'[v] = IF v = "button" THEN "four eyes" ELSE gate[v]
  BY PassesType DEF GatesInv, Readers, Gates, PressReads
<1>2. GatesTypeOK'
  BY <1>1 DEF GatesInv, GatesTypeOK, PressReads, jiraVars
<1> QED BY <1>1, <1>2, ReaderMoves DEF PressReads

\* Four eyes let pass another approver than the requester, or nobody it knows.
LEMMA FourEyesStep ==
    ASSUME GatesInv, NEW w \in Readers, FourEyes(w)
    PROVE  GatesInv'
<1>1. PICK author \in AuthorReads :
         IF author = Requester THEN Passes(w, "none") /\ UNCHANGED unread
         ELSE /\ Passes(w, "quorum")
              /\ unread' = (unread \/ author = Nobody)
  BY DEF FourEyes
<1>2. UNCHANGED <<jiraVars, quorum, moment, raised>>
  BY DEF FourEyes
<1>3. CASE author = Requester
  <2>1. /\ gate' \in [Readers -> Gates]
        /\ \A v \in Readers : gate'[v] = IF v = w THEN "none" ELSE gate[v]
    BY <1>1, <1>3, PassesType DEF GatesInv, Gates
  <2>2. GatesTypeOK'
    BY <1>1, <1>2, <1>3, <2>1 DEF GatesInv, GatesTypeOK, jiraVars
  <2> QED BY <1>1, <1>2, <1>3, <2>1, <2>2, ReaderMoves
<1>4. CASE author # Requester
  <2>1. /\ gate' \in [Readers -> Gates]
        /\ \A v \in Readers : gate'[v] = IF v = w THEN "quorum" ELSE gate[v]
    BY <1>1, <1>4, PassesType DEF GatesInv, Gates
  <2>2. unread' \in BOOLEAN /\ (unread => unread')
    BY <1>1, <1>4 DEF GatesInv, GatesTypeOK
  <2>3. GatesTypeOK'
    BY <1>2, <2>1, <2>2 DEF GatesInv, GatesTypeOK, jiraVars
  <2>4. author \in approvers \cup {Nobody}
    BY DEF AuthorReads, GatesInv, Passed
  <2>5. SomebodyElse'
    BY <1>1, <1>2, <1>4, <2>4 DEF SomebodyElse, Others, jiraVars
  <2> QED BY <1>2, <2>1, <2>2, <2>3, <2>5, ReaderMoves
<1> QED BY <1>3, <1>4

\* The quorum counts people whom Jira names as approvers, and not the requester.
LEMMA EnoughApproversStep ==
    ASSUME GatesInv, NEW w \in Readers, EnoughApprovers(w)
    PROVE  GatesInv'
<1>1. PICK people \in ApproverReads :
         IF quorum <= 1 \/ Cardinality(OthersAmong(people)) >= quorum
         THEN Passes(w, IF w = "poller" THEN "window" ELSE "handoff")
         ELSE Passes(w, "none")
  BY DEF EnoughApprovers
<1>2. gate[w] = "quorum" /\ SomebodyElse /\ UNCHANGED <<jiraVars, quorum, moment, raised, unread>>
  BY DEF GatesInv, Passed, EnoughApprovers
<1>3. SomebodyElse'
  BY <1>2 DEF SomebodyElse, Others, jiraVars
<1>4. PICK next \in {"none", "window", "handoff"} :
         /\ Passes(w, next)
         /\ next # "none" => quorum <= 1 \/ Cardinality(OthersAmong(people)) >= quorum
  BY <1>1
<1>5. next # "none" => EnoughElse
  <2>1. OthersAmong(people) \subseteq Others
    BY DEF OthersAmong, ApproverReads, Others
  <2>2. /\ Cardinality(OthersAmong(people)) <= Cardinality(Others)
        /\ Cardinality(OthersAmong(people)) \in Nat /\ Cardinality(Others) \in Nat
    BY <2>1, OthersFinite, OthersGrow DEF GatesInv
  <2>3. quorum \in Nat
    BY GatesConstants DEF GatesInv, GatesTypeOK
  <2> QED BY <1>4, <2>2, <2>3 DEF EnoughElse
<1>6. /\ gate' \in [Readers -> Gates]
      /\ \A v \in Readers : gate'[v] = IF v = w THEN next ELSE gate[v]
  <2>1. next \in Gates /\ GatesTypeOK
    BY DEF Gates, GatesInv
  <2> QED BY <1>4, <2>1, PassesType
<1>7. GatesTypeOK'
  BY <1>2, <1>6 DEF GatesInv, GatesTypeOK, jiraVars
<1> QED BY <1>2, <1>3, <1>5, <1>6, <1>7, ReaderMoves

LEMMA ChangeWindowStep ==
    ASSUME GatesInv, ChangeWindow
    PROVE  GatesInv'
<1>1. /\ gate["poller"] = "window" /\ SomebodyElse /\ EnoughElse
      /\ UNCHANGED <<jiraVars, quorum, moment, raised, unread>>
  BY DEF GatesInv, Passed, Readers, ChangeWindow
<1>2. SomebodyElse'
  BY <1>1 DEF SomebodyElse, Others, jiraVars
<1>3. PICK next \in {"handoff", "none"} : Passes("poller", next)
  BY DEF ChangeWindow
<1>4. /\ gate' \in [Readers -> Gates]
      /\ \A v \in Readers : gate'[v] = IF v = "poller" THEN next ELSE gate[v]
  BY <1>3, PassesType DEF GatesInv, Readers, Gates
<1>5. GatesTypeOK'
  BY <1>1, <1>4 DEF GatesInv, GatesTypeOK, jiraVars
<1> QED BY <1>1, <1>2, <1>4, <1>5, ReaderMoves

LEMMA HandOffStep ==
    ASSUME GatesInv, NEW w \in Readers, HandOff(w)
    PROVE  GatesInv'
<1>1. /\ gate[w] = "handoff" /\ SomebodyElse /\ EnoughElse
      /\ UNCHANGED <<jiraVars, quorum, moment, unread>>
      /\ raised' \in {raised, "planned", "provisioned"}
  BY DEF GatesInv, Passed, HandOff
<1>2. /\ gate' \in [Readers -> Gates]
      /\ \A v \in Readers : gate'[v] = IF v = w THEN "none" ELSE gate[v]
  BY PassesType DEF GatesInv, Gates, HandOff
<1>3. GatesTypeOK'
  BY <1>1, <1>2 DEF GatesInv, GatesTypeOK, jiraVars
<1> QED BY <1>1, <1>2, <1>3, ReaderMoves

LEMMA ApplyPlannedStep ==
    ASSUME GatesInv, ApplyPlanned
    PROVE  GatesInv'
<1>1. /\ SomebodyElse /\ EnoughElse /\ raised' = "provisioned"
      /\ UNCHANGED <<jiraVars, quorum, moment, gate, unread>>
  BY ApprovedMeans DEF GatesInv, ApplyPlanned
<1>2. GatesTypeOK'
  BY <1>1 DEF GatesInv, GatesTypeOK, jiraVars
<1> QED BY <1>1, <1>2, ReaderMoves

LEMMA GatesInvInit == GatesInit => GatesInv
<1> SUFFICES ASSUME GatesInit
             PROVE  GatesInv
  OBVIOUS
<1>1. GatesTypeOK
  <2>1. 0 \in 0 .. MaxMoves
    BY GatesConstants
  <2>2. [w \in Readers |-> "none"] \in [Readers -> Gates]
    BY DEF Gates
  <2> QED BY <2>1, <2>2 DEF GatesInit, GatesTypeOK, TicketStatus
<1>2. Passed
  BY FS_EmptySet DEF GatesInit, Passed
<1> QED BY <1>1, <1>2 DEF GatesInit, GatesInv, ApprovedByOthers

LEMMA GatesInvStep == GatesInv /\ [GatesNext]_gateVars => GatesInv'
<1> SUFFICES ASSUME GatesInv, [GatesNext]_gateVars
             PROVE  GatesInv'
  OBVIOUS
<1>1. ASSUME NEW p \in People, NEW to \in TicketStatus, MoveTicket(p, to)
      PROVE  GatesInv'
  BY <1>1, MoveTicketStep
<1>2. ASSUME NEW p \in People, Decide(p) \/ PressReads(p)
      PROVE  GatesInv'
  BY <1>2, DecideStep, PressReadsStep
<1>3. ASSUME NEW w \in Readers, FourEyes(w) \/ EnoughApprovers(w) \/ HandOff(w)
      PROVE  GatesInv'
  BY <1>3, FourEyesStep, EnoughApproversStep, HandOffStep
<1>4. CASE TimeMoves \/ PollReads \/ ChangeWindow \/ ApplyPlanned
  BY <1>4, TimeMovesStep, PollReadsStep, ChangeWindowStep, ApplyPlannedStep
<1>5. CASE UNCHANGED gateVars
  BY <1>5 DEF gateVars, jiraVars, GatesInv, GatesTypeOK, Passed, SomebodyElse, EnoughElse, Others,
              ApprovedByOthers
<1> QED BY <1>1, <1>2, <1>3, <1>4, <1>5 DEF GatesNext

LEMMA GatesInvariant == GatesSpec => []GatesInv
BY GatesInvInit, GatesInvStep, PTL DEF GatesSpec

\* The types of the gates.
THEOREM GatesTypeCorrect == GatesSpec => []GatesTypeOK
<1>1. GatesInv => GatesTypeOK
  BY DEF GatesInv
<1> QED BY <1>1, GatesInvariant, PTL

\* Whoever moves the ticket between the reads of the gates, what was planned or built had
\* the approvals the gates ask for, the requester's own not counted.
THEOREM OthersApproved == GatesSpec => []ApprovedByOthers
<1>1. GatesInv => ApprovedByOthers
  BY DEF GatesInv
<1> QED BY <1>1, GatesInvariant, PTL

----------------------------------------------------------------------------
(* The form *)

Numbers(f) == {Anchors[size][f] : size \in DOMAIN Anchors}
KnownText(f, v) ==
    \/ v \in UNION {r[f] : r \in RowSets}
    \/ \E c \in Catalogues : \E bp \in c, x \in Families : v \in bp.streams[x]

\* What is held is a function of the fields, of numbers that a size has and texts that
\* were known at some time.
HeldIsKnown ==
    /\ picked = [f \in Fields |-> picked[f]]
    /\ \A f \in Numeric : picked[f] \in {Blank} \cup Numbers(f)
    /\ \A f \in Text : picked[f] = Blank \/ KnownText(f, picked[f])
OffersAreKnown ==
    offers # NoOptions =>
        /\ \A f \in Numeric : offers[f] = Numbers(f)
        /\ \A f \in Text : \A v \in offers[f] : KnownText(f, v)
HeldIsOffered ==
    offers # NoOptions => \A f \in Fields : picked[f] \in {Blank} \cup offers[f]

\* The inductive invariant.  That what the form holds was in its last answer is what the
\* property rests on; it survives an answer that changes the image and asks again.
FormInv == FormTypeOK /\ HeldIsKnown /\ OffersAreKnown /\ HeldIsOffered

LEMMA FieldSets ==
    /\ Numeric \cap Text = {} /\ Fields = Numeric \cup Text
    /\ "image" \in Text /\ "version" \in Text /\ "vcpu" \in Numeric
BY DEF Numeric, Text, Fields

\* What is offered for any image: its numbers, and texts that are known.
LEMMA OffersOf ==
    ASSUME FormTypeOK, FormConstants, NEW image
    PROVE  /\ \A f \in Numeric : OptionsFor(image)[f] = Numbers(f)
           /\ \A f \in Text : \A v \in OptionsFor(image)[f] : KnownText(f, v)
           /\ OptionsFor(image) # NoOptions
<1> DEFINE family == FamilyOf(image)
<1>1. \A f \in Numeric : OptionsFor(image)[f] = Numbers(f)
    BY FieldSets DEF OptionsFor, Offered, Numbers, Numeric
<1>2. family \in Families \cup {NoFamily}
    BY DEF FamilyOf, FormConstants, FormTypeOK
<1>3. ASSUME NEW v \in OptionsFor(image)["image"] PROVE KnownText("image", v)
  <2>1. v \in rows["image"]
    BY <1>3 DEF OptionsFor, Offered, OfferedImages, Fields, Text
  <2> QED BY <2>1 DEF KnownText, FormTypeOK
<1>4. ASSUME NEW v \in OptionsFor(image)["version"] PROVE KnownText("version", v)
  <2>1. v \in OfferedVersions(family)
    BY <1>4 DEF OptionsFor, Offered, Fields, Text
  <2>2. v \in rows["version"] \/ (family # NoFamily /\ v \in Streams(family))
    BY <2>1 DEF OfferedVersions
  <2>3. CASE v \in rows["version"]
    BY <2>3 DEF KnownText, FormTypeOK
  <2>4. CASE family # NoFamily /\ v \in Streams(family)
    BY <1>2, <2>4 DEF Streams, KnownText, FormTypeOK
  <2> QED BY <2>2, <2>3, <2>4
<1>5. OptionsFor(image)["vcpu"] # {} /\ NoOptions["vcpu"] = {}
    BY <1>1, FieldSets DEF Numbers, FormConstants, NoOptions
<1> QED BY <1>1, <1>3, <1>4, <1>5 DEF Text

LEMMA FormStarts == FormConstants /\ FormInit => FormInv
BY FieldSets DEF FormConstants, FormInit, FormInv, FormTypeOK, HeldIsKnown, OffersAreKnown,
   HeldIsOffered, Component

\* The type invariant says of what is held what HeldIsKnown says.
LEMMA FormTypeFrom ==
    ASSUME HeldIsKnown, rows \in RowSets, shipped \in Catalogues, net \in Networks,
           fetching \in BOOLEAN, refreshes \in 0 .. MaxRefreshes
    PROVE  FormTypeOK
BY DEF FormTypeOK, HeldIsKnown, KnownText, Numbers

LEMMA OptionsArriveForm ==
    ASSUME FormInv, FormConstants, OptionsArrive
    PROVE  FormInv'
<1> DEFINE options == OptionsFor(picked.image)
<1>1. /\ \A f \in Numeric : options[f] = Numbers(f)
      /\ \A f \in Text : \A v \in options[f] : KnownText(f, v)
    BY OffersOf DEF FormInv
<1>2. /\ offers' = options /\ UNCHANGED cacheVars
      /\ fetching' = (picked'.image # picked.image)
    BY DEF OptionsArrive
<1>3. PICK size \in DOMAIN Anchors :
         LET held == Shaped(Cleared(picked, options), size)
             Choice(f) == IF held[f] = Blank /\ options[f] # {} THEN Defaults(f, options)
                          ELSE {held[f]}
         IN  \E version \in Choice("version"), image \in Choice("image") :
                picked' = [held EXCEPT !.version = version, !.image = image]
    BY DEF OptionsArrive
<1> DEFINE held == Shaped(Cleared(picked, options), size)
<1>4. /\ \A f \in Numeric : held[f] \in {Blank} \cup Numbers(f)
      /\ \A f \in Text : held[f] \in {Blank} \cup options[f]
      /\ held = [f \in Fields |-> held[f]]
  <2> HIDE DEF options
  <2>1. \A f \in Fields : Cleared(picked, options)[f]
            = IF f \in Text /\ picked[f] \notin options[f] THEN Blank ELSE picked[f]
    BY DEF Cleared
  <2>2. \A f \in Fields : held[f] = IF f \in Numeric /\ Cleared(picked, options).vcpu = Blank
                                    THEN Anchors[size][f] ELSE Cleared(picked, options)[f]
    BY DEF Shaped
  <2>3. \A f \in Numeric : held[f] \in {Blank} \cup Numbers(f)
    BY <2>1, <2>2, FieldSets DEF FormInv, HeldIsKnown, Numbers
  <2>4. \A f \in Text : held[f] \in {Blank} \cup options[f]
    BY <2>1, <2>2, FieldSets
  <2>5. held = [f \in Fields |-> held[f]]
    BY DEF Shaped
  <2> QED BY <2>3, <2>4, <2>5
<1>5. \A f \in Text : Defaults(f, options) \subseteq options[f]
    BY DEF Defaults
<1> DEFINE Choice(f) == IF held[f] = Blank /\ options[f] # {} THEN Defaults(f, options)
                        ELSE {held[f]}
<1>6. PICK version \in Choice("version"), image \in Choice("image") :
         picked' = [held EXCEPT !.version = version, !.image = image]
    BY <1>3
<1> HIDE DEF options, held
<1>6a. version \in {Blank} \cup options["version"] /\ image \in {Blank} \cup options["image"]
    BY <1>4, <1>5, FieldSets
<1> HIDE DEF Choice
<1>7. /\ picked' = [f \in Fields |-> picked'[f]]
      /\ \A f \in Numeric : picked'[f] = held[f]
      /\ \A f \in Text : picked'[f] \in {Blank} \cup options[f]
    BY <1>4, <1>6, <1>6a, FieldSets DEF Numeric, Text
<1>8. HeldIsKnown'
    BY <1>1, <1>4, <1>7 DEF HeldIsKnown, KnownText, Numbers
<1>9. OffersAreKnown' /\ HeldIsOffered'
    BY <1>1, <1>2, <1>4, <1>7, FieldSets DEF OffersAreKnown, HeldIsOffered, KnownText, Numbers
<1>10. FormTypeOK'
    BY <1>2, <1>8, FormTypeFrom DEF FormInv, FormTypeOK, cacheVars, HeldIsKnown, KnownText,
       Numbers
<1> QED BY <1>8, <1>9, <1>10 DEF FormInv

\* A cache that is refreshed, and an answer that is lost, change nothing that is held.
LEMMA RefreshForm ==
    ASSUME FormInv, FormConstants, RefreshOptions \/ RefreshCapabilities \/ RefreshEgress
    PROVE  FormInv'
<1>1. UNCHANGED <<picked, offers, fetching>>
    BY DEF RefreshOptions, RefreshCapabilities, RefreshEgress
<1>2. HeldIsKnown' /\ OffersAreKnown' /\ HeldIsOffered'
    BY <1>1 DEF FormInv, HeldIsKnown, OffersAreKnown, HeldIsOffered, KnownText, Numbers
<1>3. /\ rows' \in RowSets /\ shipped' \in Catalogues /\ net' \in Networks
      /\ refreshes' \in 0 .. MaxRefreshes
    BY DEF FormInv, FormTypeOK, RefreshOptions, RefreshCapabilities, RefreshEgress, FormConstants
<1>4. FormTypeOK'
    BY <1>1, <1>2, <1>3 DEF FormInv, FormTypeOK, HeldIsKnown, KnownText, Numbers
<1> QED BY <1>2, <1>4 DEF FormInv

LEMMA OptionsLostForm ==
    ASSUME FormInv, OptionsLost
    PROVE  FormInv'
BY DEF OptionsLost, cacheVars, FormInv, FormTypeOK, HeldIsKnown, OffersAreKnown, HeldIsOffered,
       KnownText, Numbers

\* A value that is offered takes the place of one field's.
LEMMA SetDetailForm ==
    ASSUME FormInv, FormConstants, NEW field \in Fields, SetDetail(field)
    PROVE  FormInv'
<1>1. PICK v \in offers[field] : picked' = [picked EXCEPT ![field] = v]
    BY DEF SetDetail
<1>2. UNCHANGED <<offers, rows, shipped, net, refreshes>> /\ fetching' \in BOOLEAN
    BY DEF SetDetail, cacheVars, FormInv, FormTypeOK
<1>3. offers # NoOptions
    BY <1>1 DEF NoOptions
<1>4. /\ picked' = [f \in Fields |-> picked'[f]] /\ picked'[field] = v
      /\ \A f \in Fields \ {field} : picked'[f] = picked[f]
    BY <1>1 DEF FormInv, HeldIsKnown
<1>5. /\ \A f \in Numeric : picked'[f] \in {Blank} \cup Numbers(f)
      /\ \A f \in Text : picked'[f] = Blank \/ KnownText(f, picked'[f])
    BY <1>1, <1>3, <1>4, FieldSets DEF FormInv, HeldIsKnown, OffersAreKnown
<1>6. HeldIsKnown'
    BY <1>4, <1>5 DEF HeldIsKnown, KnownText, Numbers
<1>7. OffersAreKnown' /\ HeldIsOffered'
    BY <1>1, <1>2, <1>4 DEF FormInv, OffersAreKnown, HeldIsOffered, KnownText, Numbers
<1>8. FormTypeOK'
    BY <1>2, <1>6 DEF FormInv, FormTypeOK, HeldIsKnown, KnownText, Numbers
<1> QED BY <1>6, <1>7, <1>8 DEF FormInv

\* A size's numbers are among those on offer.
LEMMA SetSizeForm ==
    ASSUME FormInv, FormConstants, NEW size \in DOMAIN Anchors, SetSize(size)
    PROVE  FormInv'
<1>1. /\ UNCHANGED <<offers, fetching, rows, shipped, net, refreshes>> /\ offers # NoOptions
      /\ picked' = [f \in Fields |-> IF f \in Numeric THEN Anchors[size][f] ELSE picked[f]]
    BY DEF SetSize, cacheVars
<1>2. /\ picked' = [f \in Fields |-> picked'[f]]
      /\ \A f \in Numeric : picked'[f] \in Numbers(f)
      /\ \A f \in Text : picked'[f] = picked[f]
    BY <1>1, FieldSets DEF Numbers
<1>3. HeldIsKnown'
    BY <1>2 DEF FormInv, HeldIsKnown, KnownText, Numbers
<1>4. OffersAreKnown' /\ HeldIsOffered'
    BY <1>1, <1>2, FieldSets DEF FormInv, OffersAreKnown, HeldIsOffered, KnownText, Numbers
<1>5. FormTypeOK'
    BY <1>1, <1>3 DEF FormInv, FormTypeOK, HeldIsKnown, KnownText, Numbers
<1> QED BY <1>3, <1>4, <1>5 DEF FormInv

LEMMA FormStep == FormConstants /\ FormInv /\ [FormNext]_formVars => FormInv'
<1> SUFFICES ASSUME FormConstants, FormInv, [FormNext]_formVars PROVE FormInv'
  OBVIOUS
<1>1. CASE UNCHANGED formVars
  BY <1>1 DEF formVars, FormInv, FormTypeOK, HeldIsKnown, OffersAreKnown, HeldIsOffered,
              KnownText, Numbers
<1>2. CASE FormNext
  BY <1>2, RefreshForm, OptionsArriveForm, OptionsLostForm, SetDetailForm, SetSizeForm
     DEF FormNext
<1> QED BY <1>1, <1>2

LEMMA FormInvariant == FormSpec => []FormInv
BY FormStarts, FormStep, FormConstants, PTL DEF FormSpec

\* An image that is offered can be installed, or nothing was known when it was shown.
LEMMA OfferedSuits ==
    ASSUME FormInv, FormConstants, offers = OptionsFor(picked.image),
           NEW family, family = FamilyOf(picked.image)
    PROVE  \/ family = NoFamily
           \/ ~FamiliesKnown
           \/ CanInstall(family) /\ family \in SupportedFamilies
<1>1. picked.image = Blank \/ picked.image \in OfferedImages
  <2>1. picked["image"] \in {Blank} \cup OptionsFor(picked.image)["image"]
    BY OffersOf, FieldSets DEF FormInv, HeldIsOffered
  <2> QED BY <2>1, FieldSets DEF OptionsFor, Offered
<1>2. picked.image = Blank => family = NoFamily
    BY DEF FormInv, FormTypeOK, FormConstants, FamilyOf
<1>3. picked.image \in OfferedImages => ImageSuits(family)
    BY DEF OfferedImages, FamilyOf
<1> QED BY <1>1, <1>2, <1>3 DEF ImageSuits

\* What the form holds of a field is on offer or left empty.
LEMMA NothingWrong ==
    ASSUME FormInv, FormConstants, offers = OptionsFor(picked.image)
    PROVE  WrongFields(picked) = {}
BY OffersOf DEF FormInv, HeldIsOffered, WrongFields

\* The types of the form and of its caches.
THEOREM FormTypeCorrect == FormSpec => []FormTypeOK
<1>1. FormInv => FormTypeOK
  BY DEF FormInv
<1> QED BY <1>1, FormInvariant, PTL

\* So what the form holds is accepted, but for the cases it cannot show.
LEMMA HeldIsAccepted == FormInv => OfferedIsAccepted
<1> DEFINE family == FamilyOf(picked.image)
<1> SUFFICES ASSUME FormInv, offers = OptionsFor(picked.image), ShapeFits(picked),
                    FamiliesKnown \/ CanInstall(family),
                    ~NeedsInternet \/ ReachesInternet,
                    \A one, other \in shipped : ~(family \in one.refuted
                                                  /\ family \in UsableOn(other))
             PROVE  ComponentErrors(picked) = {}
  BY DEF OfferedIsAccepted
<1>1. WrongFields(picked) = {}
  BY NothingWrong, FormConstants
<1>2. family = NoFamily \/ ~FamiliesKnown \/ (CanInstall(family) /\ family \in SupportedFamilies)
  BY OfferedSuits, FormConstants
<1>3. CanInstall(family)
  BY <1>2 DEF CanInstall
<1>4. Installable(family)
  BY <1>2 DEF Installable, FamiliesKnown, SupportedFamilies
<1>5. family \notin Refuted
  <2>1. CASE family = NoFamily
    BY <2>1, FormConstants DEF FormConstants, Refuted, FormInv, FormTypeOK
  <2>2. CASE ~FamiliesKnown
    BY <2>2 DEF FamiliesKnown, Refuted
  <2>3. CASE family \in SupportedFamilies
    BY <2>3 DEF SupportedFamilies, Refuted
  <2> QED BY <1>2, <2>1, <2>2, <2>3
<1> QED BY <1>1, <1>3, <1>4, <1>5 DEF ComponentErrors

\* Once the form has its answer and no cache has changed since, the server accepts what
\* it holds (api/component_options.py, options_for and validate), but for the four things
\* that the form cannot show; for any options, recipes, networks and sizes, and however
\* the person changes the image, the fields and the size while caches are refreshed.
THEOREM FormIsAccepted == FormSpec => []OfferedIsAccepted
BY HeldIsAccepted, FormInvariant, PTL
=============================================================================

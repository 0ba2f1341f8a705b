-------------------------- MODULE CostControlProofs --------------------------
(***************************************************************************)
(* For any number of workers, kinds of jobs and months: the usage of a     *)
(* month is bounded, and what executions have counted is recorded once.    *)
(***************************************************************************)
EXTENDS CostControl, Sums, FiniteSetTheorems, TLAPS

\* The bound as a sum.
LEMMA BoundAt ==
  ASSUME NEW n \in Nat
  PROVE  /\ Cardinality(Workers) * Ceiling \in Nat /\ n * Ceiling \in Nat
         /\ Budget + (Cardinality(Workers) + n) * Ceiling
              = Budget + Cardinality(Workers) * Ceiling + n * Ceiling
<1>1. Cardinality(Workers) \in Nat
  BY FS_CardinalityType, CostAssumption
<1>2. /\ Cardinality(Workers) * Ceiling \in Nat /\ n * Ceiling \in Nat
      /\ (Cardinality(Workers) + n) * Ceiling = Cardinality(Workers) * Ceiling + n * Ceiling
  BY <1>1, Times, CostAssumption
<1>. DEFINE all == Cardinality(Workers) * Ceiling
            some == n * Ceiling
            both == (Cardinality(Workers) + n) * Ceiling
<1>3. all \in Nat /\ some \in Nat /\ both = all + some
  BY <1>2
<1>. HIDE DEF all, some, both
<1>4. Budget + both = Budget + all + some
  BY <1>3, CostAssumption
<1>. QED
  BY <1>2, <1>4 DEF all, some, both

\* It is a number, and leaves a ceiling for every worker above the budget.
LEMMA BoundIs ==
  ASSUME blind \in Nat
  PROVE  Bound \in Nat /\ Budget + Cardinality(Workers) * Ceiling <= Bound
<1>. DEFINE all == Cardinality(Workers) * Ceiling
            some == blind * Ceiling
<1>1. all \in Nat /\ some \in Nat /\ Bound = Budget + all + some
  BY BoundAt DEF Bound
<1>. HIDE DEF all, some
<1>2. Bound \in Nat /\ Budget + all <= Bound
  BY <1>1, CostAssumption
<1>. QED
  BY <1>2 DEF all

\* A bound is kept by whatever adds no execution to a set and no cost to a row.
LEMMA BoundKept ==
  ASSUME NEW A \in SUBSET Workers, NEW B \in SUBSET A,
         NEW u \in Nat, NEW v \in Nat, v <= u,
         NEW l \in Nat, u + Cardinality(A) * Ceiling <= l
  PROVE  v + Cardinality(B) * Ceiling <= l
<1>1. IsFiniteSet(A)
  BY CostAssumption, FS_Subset
<1>2. IsFiniteSet(B) /\ Cardinality(B) <= Cardinality(A)
  BY <1>1, FS_Subset
<1>3. Cardinality(A) \in Nat /\ Cardinality(B) \in Nat
  BY <1>1, <1>2, FS_CardinalityType
<1>4. Cardinality(B) * Ceiling <= Cardinality(A) * Ceiling
  BY <1>2, <1>3, Times, CostAssumption
<1>5. Cardinality(A) * Ceiling \in Nat /\ Cardinality(B) * Ceiling \in Nat
  BY <1>3, Times, CostAssumption
<1>. QED
  BY <1>4, <1>5

\* A row within the budget leaves room for every worker.
LEMMA RoomForAll ==
  ASSUME NEW B \in SUBSET Workers, NEW v \in Nat, v <= Budget,
         NEW l \in Nat, Budget + Cardinality(Workers) * Ceiling <= l
  PROVE  v + Cardinality(B) * Ceiling <= l
BY BoundKept, CostAssumption

\* The ceiling of a kind holds the calls a handler may still make.
LEMMA CeilingHolds ==
  ASSUME NEW k \in Kinds, NEW r \in 0 .. MaxRefused, k \notin Agents
  PROVE  /\ r * MaxCall \in Nat
         /\ (r + 1) * MaxCall = r * MaxCall + MaxCall
         /\ TaskLimit[k] \in Nat
         /\ TaskLimit[k] + r * MaxCall + MaxCall <= Ceiling
<1>1. r \in Nat /\ MaxRefused \in Nat /\ r <= MaxRefused /\ MaxCall \in Nat
  BY CostAssumption
<1>2. /\ r * MaxCall \in Nat /\ r * MaxCall <= MaxRefused * MaxCall
      /\ (r + 1) * MaxCall = r * MaxCall + MaxCall
  BY <1>1, Times
<1>3. /\ MaxRefused * MaxCall \in Nat
      /\ (MaxRefused + 1) * MaxCall = MaxRefused * MaxCall + MaxCall
  BY <1>1, Times
<1>4. TaskLimit[k] \in Nat /\ TaskLimit[k] + (MaxRefused + 1) * MaxCall <= Ceiling
  BY CostAssumption DEF MostCounted
<1>. DEFINE now == r * MaxCall
            all == MaxRefused * MaxCall
<1>5. now \in Nat /\ all \in Nat /\ now <= all
  BY <1>2, <1>3
<1>6. TaskLimit[k] + (all + MaxCall) <= Ceiling
  BY <1>3, <1>4
<1>. HIDE DEF now, all
<1>7. TaskLimit[k] + now + MaxCall <= Ceiling
  BY <1>1, <1>4, <1>5, <1>6, CostAssumption
<1>. QED
  BY <1>2, <1>4, <1>7 DEF now

IInv == TypeOK /\ CostsAreCapped /\ RoomIsLeft

\* An execution that is not idle has all its fields.
LEMMA Fields ==
  ASSUME TypeOK, NEW w \in Workers, slot[w].phase # "idle"
  PROVE  /\ slot[w] \in Execution
         /\ slot[w].phase \in {"creating", "running", "recording"}
         /\ slot[w].kind \in Kinds /\ slot[w].month \in Months
         /\ slot[w].cost \in Nat /\ slot[w].spent \in Nat
         /\ slot[w].refused \in 0 .. MaxRefused
<1>1. slot[w] # Idle
  BY DEF Idle
<1>2. slot[w] \in Execution
  BY <1>1 DEF TypeOK
<1>. QED
  BY <1>2 DEF Execution

\* Initially nobody runs, and no month has a row.
LEMMA InitIInv == Init => IInv
<1>. SUFFICES ASSUME Init PROVE IInv
  OBVIOUS
<1>1. 0 \in Months
  BY CostAssumption DEF Months
<1>2. TypeOK
  BY <1>1 DEF Init, TypeOK
<1>3. CostsAreCapped
  BY DEF Init, CostsAreCapped, Capped, Idle
<1>4. RoomIsLeft
  <2>. SUFFICES ASSUME NEW m \in Months
                PROVE  usage[m] + Cardinality(MayReach(m)) * Ceiling <= Bound
    BY DEF Init, RoomIsLeft
  <2>1. MayReach(m) \in SUBSET Workers
    BY DEF MayReach
  <2>2. Bound \in Nat /\ Budget + Cardinality(Workers) * Ceiling <= Bound
    BY BoundIs, CostAssumption DEF Init
  <2>. QED
    BY <2>1, <2>2, RoomForAll, CostAssumption DEF Init
<1>. QED
  BY <1>2, <1>3, <1>4 DEF IInv

\* How a step may change a month's row and the executions that may still reach it.
RowStep(m) ==
  \/ usage'[m] <= Budget
  \/ usage'[m] <= usage[m] /\ MayReach(m)' \subseteq MayReach(m)
  \/ \E w \in MayReach(m) :
       /\ usage'[m] = usage[m] + slot[w].cost
       /\ MayReach(m)' \subseteq MayReach(m) \ {w}
  \/ /\ usage'[m] <= usage[m] /\ blind' = blind + 1
     /\ \E w \in Workers : MayReach(m)' \subseteq MayReach(m) \cup {w}

\* One execution less leaves room for what it has counted.
LEMMA OneLess ==
  ASSUME NEW A \in SUBSET Workers, NEW w \in A, NEW u \in Nat, NEW c \in Nat,
         c <= Ceiling, NEW l \in Nat, u + Cardinality(A) * Ceiling <= l
  PROVE  (u + c) + Cardinality(A \ {w}) * Ceiling <= l
<1>. DEFINE n == Cardinality(A \ {w})
<1>1. IsFiniteSet(A) /\ IsFiniteSet(A \ {w}) /\ Cardinality(A) = n + 1
  <2>1. IsFiniteSet(A)
    BY CostAssumption, FS_Subset
  <2>2. IsFiniteSet(A \ {w}) /\ n = Cardinality(A) - 1
    BY <2>1, FS_RemoveElement
  <2>3. Cardinality(A) \in Nat
    BY <2>1, FS_CardinalityType
  <2>. QED
    BY <2>1, <2>2, <2>3
<1>2. n \in Nat
  BY <1>1, FS_CardinalityType
<1>3. (n + 1) * Ceiling = n * Ceiling + Ceiling /\ n * Ceiling \in Nat
  BY <1>2, Times, CostAssumption
<1>. DEFINE total == n * Ceiling
<1>4. u + (total + Ceiling) <= l /\ total \in Nat
  BY <1>1, <1>3
<1>. HIDE DEF total
<1>5. (u + c) + total <= l
  BY <1>4, CostAssumption
<1>. QED
  BY <1>5 DEF total

\* One execution more takes at most a ceiling.
LEMMA OneMore ==
  ASSUME NEW A \in SUBSET Workers, NEW w \in Workers, NEW u \in Nat,
         NEW l \in Nat, u + Cardinality(A) * Ceiling <= l
  PROVE  u + Cardinality(A \cup {w}) * Ceiling <= l + Ceiling
<1>. DEFINE n == Cardinality(A)
            k == Cardinality(A \cup {w})
<1>1. IsFiniteSet(A)
  BY CostAssumption, FS_Subset
<1>2. n \in Nat /\ k \in Nat /\ k <= n + 1
  <2>1. IsFiniteSet(A \cup {w}) /\ (k = n \/ k = n + 1)
    BY <1>1, FS_AddElement
  <2>2. n \in Nat
    BY <1>1, FS_CardinalityType
  <2>. QED
    BY <2>1, <2>2
<1>3. /\ (n + 1) * Ceiling = n * Ceiling + Ceiling /\ n * Ceiling \in Nat
      /\ k * Ceiling <= (n + 1) * Ceiling /\ k * Ceiling \in Nat
  BY <1>2, Times, CostAssumption
<1>. DEFINE before == n * Ceiling
            after == k * Ceiling
<1>4. before \in Nat /\ after \in Nat /\ after <= before + Ceiling /\ u + before <= l
  BY <1>3
<1>. HIDE DEF before, after
<1>5. u + after <= l + Ceiling
  BY <1>4, CostAssumption
<1>. QED
  BY <1>5 DEF after

\* RoomIsLeft is kept if every row takes such a step, and later months stay empty.
LEMMA RoomKept ==
  ASSUME IInv, TypeOK', blind' \in {blind, blind + 1}, \A m \in Months : RowStep(m),
         \A m \in Months : m > month' => usage'[m] = 0
  PROVE  RoomIsLeft'
<1>. SUFFICES ASSUME NEW m \in Months
              PROVE  usage'[m] + Cardinality(MayReach(m)') * Ceiling <= Bound'
  BY DEF RoomIsLeft
<1>1. MayReach(m) \in SUBSET Workers /\ MayReach(m)' \in SUBSET Workers
  BY DEF MayReach
<1>2. usage[m] \in Nat /\ usage'[m] \in Nat /\ blind \in Nat /\ blind' \in Nat
  BY DEF IInv, TypeOK
<1>b. /\ Bound \in Nat /\ Bound' \in Nat /\ Bound <= Bound'
      /\ Budget + Cardinality(Workers) * Ceiling <= Bound'
      /\ blind' = blind + 1 => Bound' = Bound + Ceiling
  <2>. DEFINE all == Cardinality(Workers) * Ceiling
              some == blind * Ceiling
              then == blind' * Ceiling
  <2>1. all \in Nat /\ some \in Nat /\ Bound = Budget + all + some
    BY <1>2, BoundAt DEF Bound
  <2>2. then \in Nat /\ Bound' = Budget + all + then
    BY <1>2, BoundAt DEF Bound
  <2>3. (blind + 1) * Ceiling = some + Ceiling
    BY <1>2, Times, CostAssumption
  <2>4. then = IF blind' = blind + 1 THEN some + Ceiling ELSE some
    BY <1>2, <2>3
  <2>. HIDE DEF all, some, then
  <2>5. Bound \in Nat /\ Bound' \in Nat /\ Bound <= Bound' /\ Budget + all <= Bound'
    BY <2>1, <2>2, <2>4, CostAssumption
  <2>6. blind' = blind + 1 => Bound' = Bound + Ceiling
    BY <2>1, <2>2, <2>4, CostAssumption
  <2>. QED
    BY <2>5, <2>6 DEF all
<1>r. usage[m] + Cardinality(MayReach(m)) * Ceiling <= Bound
  BY DEF IInv, RoomIsLeft
<1>s. Cardinality(MayReach(m)) * Ceiling \in Nat
  BY <1>1, FS_Subset, FS_CardinalityType, Times, CostAssumption
<1>t. usage[m] + Cardinality(MayReach(m)) * Ceiling <= Bound'
  BY <1>2, <1>b, <1>r, <1>s
<1>3. CASE usage'[m] <= Budget
  BY <1>1, <1>2, <1>b, <1>3, RoomForAll
<1>4. CASE usage'[m] <= usage[m] /\ MayReach(m)' \subseteq MayReach(m)
  BY <1>1, <1>2, <1>b, <1>4, <1>t, BoundKept
<1>5. ASSUME NEW w \in MayReach(m), usage'[m] = usage[m] + slot[w].cost,
             MayReach(m)' \subseteq MayReach(m) \ {w}
      PROVE  usage'[m] + Cardinality(MayReach(m)') * Ceiling <= Bound'
  <2>1. w \in Workers /\ slot[w].phase # "idle"
    BY <1>5 DEF MayReach, Reaches
  <2>2. slot[w].cost \in Nat /\ slot[w].cost <= Ceiling
    BY <2>1, Fields DEF IInv, CostsAreCapped, Capped
  <2>4. usage'[m] + Cardinality(MayReach(m) \ {w}) * Ceiling <= Bound'
    BY <1>1, <1>2, <1>b, <1>5, <1>t, <2>2, OneLess
  <2>. DEFINE rest == MayReach(m) \ {w}
  <2>5. rest \in SUBSET Workers /\ MayReach(m)' \in SUBSET rest
    BY <1>1, <1>5
  <2>. HIDE DEF rest
  <2>6. usage'[m] + Cardinality(rest) * Ceiling <= Bound'
    BY <2>4 DEF rest
  <2>7. usage'[m] <= usage'[m]
    BY <1>2
  <2>. QED
    BY <1>2, <1>b, <2>5, <2>6, <2>7, BoundKept
<1>6. ASSUME NEW w \in Workers, usage'[m] <= usage[m], blind' = blind + 1,
             MayReach(m)' \subseteq MayReach(m) \cup {w}
      PROVE  usage'[m] + Cardinality(MayReach(m)') * Ceiling <= Bound'
  <2>. DEFINE more == MayReach(m) \cup {w}
  <2>1. usage[m] + Cardinality(more) * Ceiling <= Bound'
    BY <1>1, <1>2, <1>b, <1>r, <1>6, OneMore
  <2>2. more \in SUBSET Workers /\ MayReach(m)' \in SUBSET more
    BY <1>1, <1>6
  <2>. HIDE DEF more
  <2>. QED
    BY <1>2, <1>b, <1>6, <2>1, <2>2, BoundKept
<1>. QED
  BY <1>3, <1>4, <1>5, <1>6 DEF RowStep

\* What a step keeps that replaces one execution within a month.
LEMMA SlotStep ==
  ASSUME IInv, NEW w \in Workers, NEW s \in {Idle} \cup Execution,
         month' = month, slot' = [slot EXCEPT ![w] = s], Capped(s)
  PROVE  /\ slot' \in [Workers -> {Idle} \cup Execution]
         /\ CostsAreCapped'
         /\ \A m \in Months :
              (Reaches(s, m) => w \in MayReach(m)) => MayReach(m)' \subseteq MayReach(m)
         /\ \A m \in Months :
              ~Reaches(s, m) => MayReach(m)' \subseteq MayReach(m) \ {w}
<1>1. slot' \in [Workers -> {Idle} \cup Execution]
  BY DEF IInv, TypeOK
<1>2. \A v \in Workers : slot'[v] = IF v = w THEN s ELSE slot[v]
  BY DEF IInv, TypeOK
<1>3. CostsAreCapped'
  BY <1>2 DEF IInv, CostsAreCapped, Capped
<1>4. \A m \in Months, v \in Workers :
        v \in MayReach(m)' <=> IF v = w THEN Reaches(s, m) ELSE v \in MayReach(m)
  BY <1>2 DEF MayReach, Reaches
<1>5. \A m \in Months : MayReach(m)' \subseteq Workers
  BY DEF MayReach
<1>. QED
  BY <1>1, <1>3, <1>4, <1>5

\* The fields of a new execution.
LEMMA NewExecution ==
  ASSUME IInv, NEW k \in Kinds, NEW phase \in {"creating", "running"}
  PROVE  LET s == [phase |-> phase, kind |-> k, month |-> month,
                   cost |-> 0, spent |-> 0, refused |-> 0]
         IN  s \in Execution /\ Capped(s)
<1>. DEFINE s == [phase |-> phase, kind |-> k, month |-> month,
                  cost |-> 0, spent |-> 0, refused |-> 0]
<1>1. s \in Execution
  BY CostAssumption DEF Execution, IInv, TypeOK
<1>2. 0 <= TaskLimit[k] + 0 * MaxCall /\ 0 <= Ceiling /\ month <= month
  BY CostAssumption DEF IInv, TypeOK, Months
<1>3. Capped(s)
  BY <1>2 DEF Capped
<1>. QED
  BY <1>1, <1>3

\* An admission looks at its month's row, and later months are empty.
LEMMA FindsRowKeeps ==
  ASSUME IInv, NEW w \in Workers, PreflightFindsRow(w)
  PROVE  IInv'
<1>1. PICK k \in Kinds : Admits(k, Left(month)) /\ Fill(w, "running", k)
  BY DEF PreflightFindsRow
<1>. DEFINE s == [phase |-> "running", kind |-> k, month |-> month,
                  cost |-> 0, spent |-> 0, refused |-> 0]
<1>2. /\ slot' = [slot EXCEPT ![w] = s]
      /\ UNCHANGED <<month, created, usage, viewing, tracked, blind>>
  BY <1>1 DEF PreflightFindsRow, Fill, rowVars
<1>3. s \in {Idle} \cup Execution /\ Capped(s)
  BY NewExecution
<1>. HIDE DEF s
<1>4. TypeOK' /\ CostsAreCapped'
  BY <1>2, <1>3, SlotStep DEF IInv, TypeOK
<1>5. ASSUME NEW m \in Months PROVE RowStep(m)
  <2>1. CASE m < month
    <3>1. month \in Nat /\ m \in Nat
      BY CostAssumption DEF IInv, TypeOK, Months
    <3>2. ~Reaches(s, m)
      BY <2>1, <3>1 DEF Reaches, s
    <3>3. MayReach(m)' \subseteq MayReach(m)
      BY <1>2, <1>3, <3>2, SlotStep
    <3>4. usage'[m] <= usage[m]
      BY <1>2 DEF IInv, TypeOK
    <3>. QED
      BY <3>3, <3>4 DEF RowStep
  <2>2. CASE m = month
    <3>1. TaskBudget[k] \in Nat \ {0} /\ usage[month] \in Nat
      BY CostAssumption DEF IInv, TypeOK
    <3>2. usage[month] <= Budget
      BY <1>1, <3>1, CostAssumption DEF Admits, Left
    <3>. QED
      BY <1>2, <2>2, <3>2 DEF RowStep
  <2>3. CASE m > month
    BY <1>2, <2>3, CostAssumption DEF RowStep, IInv, RoomIsLeft
  <2>. QED
    BY <2>1, <2>2, <2>3 DEF IInv, TypeOK, Months
<1>6. \A m \in Months : m > month' => usage'[m] = 0
  BY <1>2 DEF IInv, RoomIsLeft
<1>. QED
  BY <1>1, <1>2, <1>4, <1>5, <1>6, RoomKept DEF IInv

\* Finding no row admits nobody; later months are empty.
LEMMA FindsNothingKeeps ==
  ASSUME IInv, NEW w \in Workers, PreflightFindsNothing(w)
  PROVE  IInv'
<1>1. PICK k \in Kinds : Fill(w, "creating", k)
  BY DEF PreflightFindsNothing
<1>. DEFINE s == [phase |-> "creating", kind |-> k, month |-> month,
                  cost |-> 0, spent |-> 0, refused |-> 0]
<1>2. /\ slot' = [slot EXCEPT ![w] = s]
      /\ UNCHANGED <<month, created, usage, viewing, tracked, blind>>
  BY <1>1 DEF PreflightFindsNothing, Fill, rowVars
<1>3. s \in {Idle} \cup Execution /\ Capped(s)
  BY NewExecution
<1>. HIDE DEF s
<1>4. TypeOK' /\ CostsAreCapped'
  BY <1>2, <1>3, SlotStep DEF IInv, TypeOK
<1>5. ASSUME NEW m \in Months PROVE RowStep(m)
  <2>1. month \in Nat /\ m \in Nat
    BY CostAssumption DEF IInv, TypeOK, Months
  <2>2. CASE m <= month
    <3>1. ~Reaches(s, m)
      BY <2>1, <2>2 DEF Reaches, s
    <3>2. MayReach(m)' \subseteq MayReach(m)
      BY <1>2, <1>3, <3>1, SlotStep
    <3>3. usage'[m] <= usage[m]
      BY <1>2 DEF IInv, TypeOK
    <3>. QED
      BY <3>2, <3>3 DEF RowStep
  <2>3. CASE m > month
    BY <1>2, <2>3, CostAssumption DEF RowStep, IInv, RoomIsLeft
  <2>. QED
    BY <2>1, <2>2, <2>3
<1>6. \A m \in Months : m > month' => usage'[m] = 0
  BY <1>2 DEF IInv, RoomIsLeft
<1>. QED
  BY <1>1, <1>2, <1>4, <1>5, <1>6, RoomKept DEF IInv

\* Creating a row sets it to zero, and whoever created it could already reach the
\* months after it.
LEMMA CreatesRowKeeps ==
  ASSUME IInv, NEW w \in Workers, PreflightCreatesRow(w)
  PROVE  IInv'
<1>. DEFINE n == slot[w].month
            s == IF Admits(slot[w].kind, Budget)
                 THEN [slot[w] EXCEPT !.phase = "running"] ELSE Idle
<1>1. /\ slot[w].phase = "creating" /\ slot' = [slot EXCEPT ![w] = s]
      /\ created' = created \cup {n} /\ usage' = [usage EXCEPT ![n] = 0]
      /\ UNCHANGED <<month, viewing, tracked, blind>>
  BY DEF PreflightCreatesRow, LetIn, CreateRow, IInv, TypeOK
<1>2. /\ slot[w] \in Execution /\ n \in Months /\ n <= month
      /\ slot[w].cost = 0 /\ slot[w].refused = 0 /\ slot[w].kind \in Kinds
  BY <1>1, Fields DEF IInv, CostsAreCapped, Capped
<1>3. s \in {Idle} \cup Execution
  BY <1>2 DEF Execution
<1>4. Capped(s)
  <2>1. CASE Admits(slot[w].kind, Budget)
    <3>1. /\ s.phase = "running" /\ s.month = n /\ s.kind = slot[w].kind
          /\ s.cost = 0 /\ s.refused = 0
      BY <1>2, <2>1 DEF Execution
    <3>2. 0 <= TaskLimit[slot[w].kind] + 0 * MaxCall /\ 0 <= Ceiling
      BY <1>2, CostAssumption
    <3>. QED
      BY <1>2, <3>1, <3>2 DEF Capped
  <2>2. CASE ~Admits(slot[w].kind, Budget)
    BY <2>2 DEF Capped, Idle
  <2>. QED
    BY <2>1, <2>2
<1>5. \A m \in Months : Reaches(s, m) => month <= m
  BY <1>2 DEF Reaches, Idle, Execution
<1>. HIDE DEF s
<1>6. TypeOK' /\ CostsAreCapped'
  BY <1>1, <1>2, <1>3, <1>4, SlotStep DEF IInv, TypeOK
<1>7. ASSUME NEW m \in Months PROVE RowStep(m)
  <2>1. month \in Nat /\ m \in Nat /\ n \in Nat
    BY <1>2, CostAssumption DEF IInv, TypeOK, Months
  <2>2. CASE m = n
    BY <1>1, <1>2, <2>2, CostAssumption DEF RowStep, IInv, TypeOK
  <2>3. CASE m # n
    <3>1. Reaches(s, m) => w \in MayReach(m)
      BY <1>1, <1>2, <1>5, <2>1, <2>3 DEF MayReach, Reaches
    <3>2. usage'[m] = usage[m] /\ usage[m] \in Nat
      BY <1>1, <2>3 DEF IInv, TypeOK
    <3>3. MayReach(m)' \subseteq MayReach(m)
      BY <1>1, <1>3, <1>4, <3>1, SlotStep
    <3>4. usage'[m] <= usage[m]
      BY <3>2
    <3>. QED
      BY <3>3, <3>4 DEF RowStep
  <2>. QED
    BY <2>2, <2>3
<1>8. \A m \in Months : m > month' => usage'[m] = 0
  BY <1>1, <1>2 DEF IInv, TypeOK, RoomIsLeft
<1>. QED
  BY <1>1, <1>6, <1>7, <1>8, RoomKept DEF IInv

\* Neither the SELECT nor the upsert got through: the execution joins those that
\* may still add to its month, and the bound grows by its ceiling, if the month had
\* a row.
LEMMA WritesNothingKeeps ==
  ASSUME IInv, NEW w \in Workers, PreflightWritesNothing(w)
  PROVE  IInv'
<1>. DEFINE n == slot[w].month
            s == IF Admits(slot[w].kind, Budget)
                 THEN [slot[w] EXCEPT !.phase = "running"] ELSE Idle
<1>1. /\ slot[w].phase = "creating" /\ slot' = [slot EXCEPT ![w] = s]
      /\ UNCHANGED <<month, created, usage, viewing, tracked>>
      /\ blind' = IF n \in created THEN blind + 1 ELSE blind
  BY DEF PreflightWritesNothing, LetIn, rowVars, IInv, TypeOK
<1>2. /\ slot[w] \in Execution /\ n \in Months /\ n <= month
      /\ slot[w].cost = 0 /\ slot[w].refused = 0 /\ slot[w].kind \in Kinds
  BY <1>1, Fields DEF IInv, CostsAreCapped, Capped
<1>3. s \in {Idle} \cup Execution
  BY <1>2 DEF Execution
<1>4. Capped(s)
  <2>1. CASE Admits(slot[w].kind, Budget)
    <3>1. /\ s.phase = "running" /\ s.month = n /\ s.kind = slot[w].kind
          /\ s.cost = 0 /\ s.refused = 0
      BY <1>2, <2>1 DEF Execution
    <3>2. 0 <= TaskLimit[slot[w].kind] + 0 * MaxCall /\ 0 <= Ceiling
      BY <1>2, CostAssumption
    <3>. QED
      BY <1>2, <3>1, <3>2 DEF Capped
  <2>2. CASE ~Admits(slot[w].kind, Budget)
    BY <2>2 DEF Capped, Idle
  <2>. QED
    BY <2>1, <2>2
<1>5. \A m \in Months : Reaches(s, m) => month <= m
  BY <1>2 DEF Reaches, Idle, Execution
<1>. HIDE DEF s
<1>b. blind \in Nat /\ blind' \in Nat
  BY <1>1 DEF IInv, TypeOK
<1>6. TypeOK' /\ CostsAreCapped'
  BY <1>1, <1>2, <1>3, <1>4, <1>b, SlotStep DEF IInv, TypeOK
<1>7. ASSUME NEW m \in Months PROVE RowStep(m)
  <2>1. month \in Nat /\ m \in Nat /\ n \in Nat
    BY <1>2, CostAssumption DEF IInv, TypeOK, Months
  <2>2. usage'[m] = usage[m] /\ usage[m] \in Nat /\ usage'[m] <= usage[m]
    BY <1>1 DEF IInv, TypeOK
  <2>3. CASE m = n /\ n \in created
    <3>1. MayReach(m)' \subseteq MayReach(m) \cup {w}
      BY <1>1 DEF MayReach, Reaches, IInv, TypeOK
    <3>. QED
      BY <1>1, <2>2, <2>3, <3>1 DEF RowStep
  <2>4. CASE m = n /\ n \notin created
    BY <1>2, <2>2, <2>4, CostAssumption DEF RowStep, IInv, TypeOK
  <2>5. CASE m # n
    <3>1. Reaches(s, m) => w \in MayReach(m)
      BY <1>1, <1>2, <1>5, <2>1, <2>5 DEF MayReach, Reaches
    <3>2. MayReach(m)' \subseteq MayReach(m)
      BY <1>1, <1>3, <1>4, <3>1, SlotStep
    <3>. QED
      BY <2>2, <3>2 DEF RowStep
  <2>. QED
    BY <2>3, <2>4, <2>5
<1>8. \A m \in Months : m > month' => usage'[m] = 0
  BY <1>1 DEF IInv, RoomIsLeft
<1>. QED
  BY <1>1, <1>6, <1>7, <1>8, RoomKept DEF IInv

\* A usage request creates a row without admitting anybody.
LEMMA ViewCreatesKeeps ==
  ASSUME IInv, ViewCreatesRow
  PROVE  IInv'
<1>1. PICK n \in viewing : CreateRow(n) /\ viewing' \in {viewing, viewing \ {n}}
                          /\ UNCHANGED <<month, slot, tracked, blind>>
  BY DEF ViewCreatesRow
<1>2. n \in Months /\ usage' = [usage EXCEPT ![n] = 0] /\ created' = created \cup {n}
  BY <1>1 DEF CreateRow, IInv, TypeOK
<1>3. TypeOK'
  BY <1>1, <1>2 DEF IInv, TypeOK
<1>4. CostsAreCapped'
  BY <1>1 DEF IInv, CostsAreCapped, Capped
<1>5. ASSUME NEW m \in Months PROVE RowStep(m)
  <2>1. MayReach(m)' = MayReach(m)
    BY <1>1 DEF MayReach, Reaches
  <2>2. usage'[m] <= usage[m]
    BY <1>2 DEF IInv, TypeOK
  <2>. QED
    BY <2>1, <2>2 DEF RowStep
<1>6. \A m \in Months : m > month' => usage'[m] = 0
  BY <1>1, <1>2 DEF IInv, TypeOK, RoomIsLeft
<1>. QED
  BY <1>1, <1>3, <1>4, <1>5, <1>6, RoomKept DEF IInv

\* A step of one execution that touches no row and reaches no more months.
LEMMA WithinMonthKeeps ==
  ASSUME IInv, NEW w \in Workers, NEW s \in {Idle} \cup Execution, Capped(s),
         slot' = [slot EXCEPT ![w] = s],
         UNCHANGED <<month, created, usage, viewing, blind>>, tracked' \in Nat,
         \A m \in Months : Reaches(s, m) => Reaches(slot[w], m)
  PROVE  IInv'
<1>1. TypeOK' /\ CostsAreCapped'
  BY SlotStep DEF IInv, TypeOK
<1>2. ASSUME NEW m \in Months PROVE RowStep(m)
  <2>1. Reaches(s, m) => w \in MayReach(m)
    BY DEF MayReach
  <2>2. MayReach(m)' \subseteq MayReach(m)
    BY <2>1, SlotStep
  <2>3. usage'[m] <= usage[m]
    BY DEF IInv, TypeOK
  <2>. QED
    BY <2>2, <2>3 DEF RowStep
<1>3. \A m \in Months : m > month' => usage'[m] = 0
  BY DEF IInv, RoomIsLeft
<1>. QED
  BY <1>1, <1>2, <1>3, RoomKept DEF IInv

\* An execution that ran turns to recording in the current month.
LEMMA TurnsToRecording ==
  ASSUME IInv, NEW w \in Workers, NEW s \in Execution, Capped(s),
         slot[w].phase = "running",
         s.phase = "recording", s.month = month,
         slot' = [slot EXCEPT ![w] = s],
         UNCHANGED <<month, created, usage, viewing, blind>>, tracked' \in Nat
  PROVE  IInv'
<1>1. month \in Nat
  BY CostAssumption DEF IInv, TypeOK, Months
<1>2. \A m \in Months : Reaches(s, m) => Reaches(slot[w], m)
  BY <1>1 DEF Reaches
<1>. QED
  BY <1>2, WithinMonthKeeps

\* What Recording() makes of an execution.
LEMMA RecordingFields ==
  ASSUME TypeOK, NEW s \in Execution, s.cost <= Ceiling
  PROVE  /\ Recording(s) \in Execution /\ Capped(Recording(s))
         /\ Recording(s).phase = "recording" /\ Recording(s).month = month
<1>1. /\ Recording(s) \in Execution /\ Recording(s).phase = "recording"
      /\ Recording(s).month = month /\ Recording(s).cost = s.cost
  BY DEF Recording, Execution, TypeOK
<1>2. month \in Nat
  BY CostAssumption DEF TypeOK, Months
<1>. QED
  BY <1>1, <1>2 DEF Capped

\* What Counted() makes of an execution.
LEMMA CountedFields ==
  ASSUME NEW e \in Execution, NEW c \in Nat, NEW d \in Nat
  PROVE  /\ Counted(e, c, d) \in Execution
         /\ Counted(e, c, d).phase = e.phase /\ Counted(e, c, d).kind = e.kind
         /\ Counted(e, c, d).month = e.month
         /\ Counted(e, c, d).refused = e.refused
         /\ Counted(e, c, d).cost = e.cost + c
<1>1. e.cost + c \in Nat /\ e.spent + d \in Nat
  BY DEF Execution
<1>. DEFINE s == Counted(e, c, d)
<1>2. s = [e EXCEPT !.cost = e.cost + c, !.spent = e.spent + d]
  BY DEF Counted, Execution
<1>. HIDE DEF s
<1>3. s \in Execution
  BY <1>1, <1>2 DEF Execution
<1>4. /\ s.phase = e.phase /\ s.kind = e.kind /\ s.month = e.month
      /\ s.refused = e.refused /\ s.cost = e.cost + c
  BY <1>1, <1>2 DEF Execution
<1>. QED
  BY <1>3, <1>4 DEF s

\* A call, refused or not, stays under the ceiling.
LEMMA SpendKeeps ==
  ASSUME IInv, NEW w \in Workers, Spend(w)
  PROVE  IInv'
<1>1. PICK c \in 1 .. MaxCall :
        LET s == Counted(slot[w], c, c) IN
        /\ tracked' = tracked + c
        /\ \/ s.cost <= TaskLimit[s.kind] /\ slot' = [slot EXCEPT ![w] = s]
           \/ s.cost > TaskLimit[s.kind] /\ slot' = [slot EXCEPT ![w] = Recording(s)]
           \/ /\ s.cost > TaskLimit[s.kind]
              /\ s.refused < MaxRefused
              /\ slot' = [slot EXCEPT ![w] = [s EXCEPT !.refused = @ + 1]]
  BY DEF Spend
<1>. DEFINE k == slot[w].kind
            r == slot[w].refused
            s == Counted(slot[w], c, c)
            t == [s EXCEPT !.refused = @ + 1]
<1>2. /\ slot[w].phase = "running" /\ k \notin Agents
      /\ UNCHANGED <<month, created, usage, viewing, blind>>
  BY DEF Spend, rowVars
<1>3. /\ slot[w] \in Execution /\ k \in Kinds /\ r \in 0 .. MaxRefused
      /\ slot[w].cost \in Nat /\ slot[w].spent \in Nat
  BY <1>2, Fields DEF IInv
<1>4. /\ slot[w].cost <= TaskLimit[k] + r * MaxCall /\ slot[w].month <= month
  BY <1>2 DEF IInv, CostsAreCapped, Capped
<1>5. c \in Nat /\ c <= MaxCall /\ MaxCall \in Nat /\ tracked' \in Nat
  BY <1>1, CostAssumption DEF IInv, TypeOK
<1>6. /\ s \in Execution /\ s.phase = "running" /\ s.kind = k /\ s.refused = r
      /\ s.month = slot[w].month /\ s.cost = slot[w].cost + c
  <2>1. slot[w] \in Execution /\ c \in Nat
    BY <1>3, <1>5
  <2>. QED
    BY <1>2, <2>1, CountedFields, Zenon
<1>7. /\ r * MaxCall \in Nat /\ (r + 1) * MaxCall = r * MaxCall + MaxCall
      /\ TaskLimit[k] \in Nat
      /\ TaskLimit[k] + r * MaxCall + MaxCall <= Ceiling
  BY <1>2, <1>3, CeilingHolds
<1>. DEFINE extra == r * MaxCall
<1>. HIDE DEF s, extra
<1>8. s.cost <= TaskLimit[k] + extra + MaxCall /\ s.cost <= Ceiling
  <2>1. /\ extra \in Nat /\ slot[w].cost <= TaskLimit[k] + extra
        /\ TaskLimit[k] + extra + MaxCall <= Ceiling
    BY <1>4, <1>7 DEF extra
  <2>. QED
    BY <1>3, <1>5, <1>6, <1>7, <2>1, CostAssumption
<1>9. CASE s.cost <= TaskLimit[s.kind] /\ slot' = [slot EXCEPT ![w] = s]
  <2>1. s.cost <= TaskLimit[s.kind] + s.refused * MaxCall
    <3>1. extra \in Nat /\ extra = s.refused * MaxCall
      BY <1>6, <1>7 DEF extra
    <3>2. s.cost <= TaskLimit[k] + extra
      BY <1>3, <1>5, <1>6, <1>7, <1>9, <3>1
    <3>. QED
      BY <1>6, <3>1, <3>2
  <2>2. Capped(s)
    BY <1>2, <1>4, <1>6, <1>8, <2>1 DEF Capped
  <2>3. s \in Execution /\ s.phase = "running" /\ slot' = [slot EXCEPT ![w] = s]
    BY <1>6, <1>9
  <2>4. /\ slot[w].phase = "running" /\ tracked' \in Nat
        /\ UNCHANGED <<month, created, usage, viewing, blind>>
    BY <1>2, <1>5
  <2>5. \A m \in Months : Reaches(s, m) => Reaches(slot[w], m)
    BY <2>3, <2>4 DEF Reaches
  <2>. QED
    BY <2>2, <2>3, <2>4, <2>5, WithinMonthKeeps
<1>10. CASE slot' = [slot EXCEPT ![w] = Recording(s)]
  BY <1>2, <1>5, <1>6, <1>8, <1>10, RecordingFields, TurnsToRecording DEF IInv
<1>11. CASE s.refused < MaxRefused /\ slot' = [slot EXCEPT ![w] = t]
  <2>1. /\ t \in Execution /\ t.phase = "running" /\ t.kind = k
        /\ t.refused = r + 1 /\ t.month = slot[w].month /\ t.cost = s.cost
    BY <1>3, <1>6, <1>11, CostAssumption DEF Execution
  <2>2. t.cost <= TaskLimit[t.kind] + t.refused * MaxCall
    <3>1. t.refused * MaxCall = extra + MaxCall /\ extra \in Nat
      BY <1>7, <2>1 DEF extra
    <3>. HIDE DEF t
    <3>2. t.cost <= TaskLimit[k] + (extra + MaxCall)
      BY <1>3, <1>5, <1>6, <1>7, <1>8, <2>1, <3>1
    <3>. QED
      BY <2>1, <3>1, <3>2
  <2>3. Capped(t)
    BY <1>2, <1>4, <1>8, <2>1, <2>2 DEF Capped
  <2>. HIDE DEF t
  <2>4. t \in Execution /\ t.phase = "running" /\ slot' = [slot EXCEPT ![w] = t]
    BY <1>11, <2>1
  <2>5. /\ slot[w].phase = "running" /\ tracked' \in Nat
        /\ UNCHANGED <<month, created, usage, viewing, blind>>
    BY <1>2, <1>5
  <2>6. \A m \in Months : Reaches(t, m) => Reaches(slot[w], m)
    BY <2>4, <2>5 DEF Reaches
  <2>. QED
    BY <2>3, <2>4, <2>5, <2>6, WithinMonthKeeps
<1>. QED
  BY <1>1, <1>9, <1>10, <1>11 DEF s

\* An agent's run is counted once or twice.
LEMMA AgentRunsKeeps ==
  ASSUME IInv, NEW w \in Workers, AgentRuns(w)
  PROVE  IInv'
<1>1. PICK c \in 0 .. MaxCall, times \in {1, 2} :
        /\ slot' = [slot EXCEPT ![w] = Recording(Counted(@, times * c, c))]
        /\ tracked' = tracked + times * c
  BY DEF AgentRuns
<1>. DEFINE k == slot[w].kind
            s == Counted(slot[w], times * c, c)
<1>2. /\ slot[w].phase = "running" /\ k \in Agents
      /\ UNCHANGED <<month, created, usage, viewing, blind>>
  BY DEF AgentRuns, rowVars
<1>3. slot[w] \in Execution /\ k \in Kinds /\ slot[w].spent \in Nat
  BY <1>2, Fields DEF IInv
<1>4. slot[w].cost = 0
  BY <1>2 DEF IInv, CostsAreCapped, Capped
<1>5. /\ c \in Nat /\ times * c \in Nat /\ times * c <= 2 * MaxCall
      /\ tracked' \in Nat
  BY <1>1, CostAssumption DEF IInv, TypeOK
<1>6. 2 * MaxCall <= Ceiling
  BY <1>2, <1>3, CostAssumption DEF MostCounted
<1>7. s \in Execution /\ s.cost = times * c
  <2>1. slot[w] \in Execution /\ c \in Nat /\ times * c \in Nat
    BY <1>3, <1>5
  <2>2. s \in Execution /\ s.cost = slot[w].cost + times * c
    BY <2>1, CountedFields, Zenon
  <2>. QED
    BY <1>4, <1>5, <2>2
<1>8. s.cost <= Ceiling
  BY <1>5, <1>6, <1>7, CostAssumption
<1>9. slot' = [slot EXCEPT ![w] = Recording(s)]
  BY <1>1 DEF IInv, TypeOK
<1>. HIDE DEF s
<1>. QED
  BY <1>2, <1>5, <1>7, <1>8, <1>9, RecordingFields, TurnsToRecording DEF IInv

\* Finishing changes the phase only.
LEMMA FinishKeeps ==
  ASSUME IInv, NEW w \in Workers, Finish(w)
  PROVE  IInv'
<1>1. /\ slot[w].phase = "running" /\ slot' = [slot EXCEPT ![w] = Recording(slot[w])]
      /\ UNCHANGED <<month, created, usage, viewing, blind>> /\ tracked' \in Nat
  BY DEF Finish, rowVars, IInv, TypeOK
<1>2. slot[w] \in Execution /\ slot[w].cost <= Ceiling
  BY <1>1, Fields DEF IInv, CostsAreCapped, Capped
<1>. QED
  BY <1>1, <1>2, RecordingFields, TurnsToRecording DEF IInv

\* What is lost leaves more room.
LEMMA LoseCostKeeps ==
  ASSUME IInv, NEW w \in Workers, LoseCost(w)
  PROVE  IInv'
<1>1. /\ slot' = [slot EXCEPT ![w] = Idle]
      /\ UNCHANGED <<month, created, usage, viewing, blind>> /\ tracked' \in Nat
  BY DEF LoseCost, rowVars, IInv, TypeOK
<1>2. /\ Idle \in {Idle} \cup Execution /\ Capped(Idle)
      /\ \A m \in Months : ~Reaches(Idle, m)
  BY DEF Capped, Reaches, Idle
<1>. QED
  BY <1>1, <1>2, WithinMonthKeeps

\* The recorded cost takes the room the execution had been left.
LEMMA RecordKeeps ==
  ASSUME IInv, NEW w \in Workers, RecordJobCost(w)
  PROVE  IInv'
<1>. DEFINE n == slot[w].month
<1>1. /\ slot[w].phase = "recording" /\ slot' = [slot EXCEPT ![w] = Idle]
      /\ created' = created \cup {n}
      /\ usage' = [usage EXCEPT ![n] = usage[n] + slot[w].cost]
      /\ UNCHANGED <<month, viewing, tracked, blind>>
  BY DEF RecordJobCost, Recorded, IInv, TypeOK
<1>2. n \in Months /\ n <= month /\ slot[w].cost \in Nat
  BY <1>1, Fields DEF IInv, CostsAreCapped, Capped
<1>3. /\ Idle \in {Idle} \cup Execution /\ Capped(Idle)
      /\ \A m \in Months : ~Reaches(Idle, m)
  BY DEF Capped, Reaches, Idle
<1>4. TypeOK' /\ CostsAreCapped'
  <2>1. slot' \in [Workers -> {Idle} \cup Execution] /\ CostsAreCapped'
    BY <1>1, <1>3, SlotStep
  <2>2. created' \subseteq Months /\ usage' \in [Months -> Nat]
    BY <1>1, <1>2 DEF IInv, TypeOK
  <2>3. \A m \in Months : m \notin created' => usage'[m] = 0
    BY <1>1, <1>2 DEF IInv, TypeOK
  <2>. QED
    BY <1>1, <2>1, <2>2, <2>3 DEF IInv, TypeOK
<1>5. ASSUME NEW m \in Months PROVE RowStep(m)
  <2>1. MayReach(m)' \subseteq MayReach(m) \ {w}
    BY <1>1, <1>3, SlotStep
  <2>2. CASE m = n
    <3>1. w \in MayReach(m)
      BY <1>1, <2>2 DEF MayReach, Reaches
    <3>2. usage'[m] = usage[m] + slot[w].cost
      BY <1>1, <1>2, <2>2 DEF IInv, TypeOK
    <3>. QED
      BY <2>1, <3>1, <3>2 DEF RowStep
  <2>3. CASE m # n
    <3>1. usage'[m] <= usage[m]
      BY <1>1, <2>3 DEF IInv, TypeOK
    <3>2. MayReach(m)' \subseteq MayReach(m)
      BY <2>1
    <3>. QED
      BY <3>1, <3>2 DEF RowStep
  <2>. QED
    BY <2>2, <2>3
<1>6. ASSUME NEW m \in Months, m > month' PROVE usage'[m] = 0
  <2>1. m # n /\ usage[m] = 0
    BY <1>1, <1>2, <1>6, CostAssumption DEF IInv, TypeOK, RoomIsLeft, Months
  <2>. QED
    BY <1>1, <2>1 DEF IInv, TypeOK
<1>. QED
  BY <1>1, <1>2, <1>4, <1>5, <1>6, RoomKept DEF IInv

\* Whoever can reach a month after the turn could do so before.
LEMMA MonthEndsKeeps ==
  ASSUME IInv, MonthEnds
  PROVE  IInv'
<1>1. month' = month + 1 /\ UNCHANGED <<created, usage, slot, viewing, tracked, blind>>
  BY DEF MonthEnds, rowVars
<1>2. month \in Nat /\ month' \in Months
  BY CostAssumption DEF MonthEnds, IInv, TypeOK, Months
<1>3. TypeOK'
  BY <1>1, <1>2 DEF IInv, TypeOK
<1>4. CostsAreCapped'
  <2>1. ASSUME NEW w \in Workers, slot[w].phase # "idle" PROVE slot[w].month <= month'
    <3>1. slot[w].month \in Months /\ slot[w].month <= month
      BY <2>1, Fields DEF IInv, CostsAreCapped, Capped
    <3>. QED
      BY <1>1, <1>2, <3>1, CostAssumption DEF Months
  <2>. QED
    BY <1>1, <2>1 DEF IInv, CostsAreCapped, Capped
<1>5. ASSUME NEW m \in Months PROVE RowStep(m)
  <2>1. m \in Nat
    BY CostAssumption DEF Months
  <2>2. MayReach(m)' \subseteq MayReach(m)
    BY <1>1, <1>2, <2>1 DEF MayReach, Reaches
  <2>3. usage'[m] <= usage[m]
    BY <1>1 DEF IInv, TypeOK
  <2>. QED
    BY <2>2, <2>3 DEF RowStep
<1>6. ASSUME NEW m \in Months, m > month' PROVE usage'[m] = 0
  <2>1. m > month
    BY <1>1, <1>2, <1>6, CostAssumption DEF Months
  <2>. QED
    BY <1>1, <2>1 DEF IInv, RoomIsLeft
<1>. QED
  BY <1>1, <1>3, <1>5, <1>4, <1>6, RoomKept DEF IInv

\* Nothing IInv speaks of changes.
LEMMA SameKeeps ==
  ASSUME IInv, viewing' \subseteq Months,
         UNCHANGED <<month, created, usage, slot, tracked, blind>>
  PROVE  IInv'
BY DEF IInv, TypeOK, CostsAreCapped, Capped, RoomIsLeft, MayReach, Reaches, Bound

\* IInv is inductive.
LEMMA NextKeeps == IInv /\ [Next]_vars => IInv'
<1>. SUFFICES ASSUME IInv, [Next]_vars PROVE IInv'
  OBVIOUS
<1>1. ASSUME NEW w \in Workers, PreflightFindsRow(w) PROVE IInv'
  BY <1>1, FindsRowKeeps
<1>2. ASSUME NEW w \in Workers, PreflightFindsNothing(w) PROVE IInv'
  BY <1>2, FindsNothingKeeps
<1>3. ASSUME NEW w \in Workers, PreflightCreatesRow(w) PROVE IInv'
  BY <1>3, CreatesRowKeeps
<1>4. ASSUME NEW w \in Workers, Spend(w) PROVE IInv'
  BY <1>4, SpendKeeps
<1>5. ASSUME NEW w \in Workers, AgentRuns(w) PROVE IInv'
  BY <1>5, AgentRunsKeeps
<1>6. ASSUME NEW w \in Workers, Finish(w) PROVE IInv'
  BY <1>6, FinishKeeps
<1>7. ASSUME NEW w \in Workers, RecordJobCost(w) PROVE IInv'
  BY <1>7, RecordKeeps
<1>8. ASSUME NEW w \in Workers, LoseCost(w) PROVE IInv'
  BY <1>8, LoseCostKeeps
<1>9. CASE ViewFindsNothing
  <2>1. viewing' \subseteq Months /\ UNCHANGED <<month, created, usage, slot, tracked, blind>>
    BY <1>9 DEF ViewFindsNothing, rowVars, IInv, TypeOK
  <2>. QED
    BY <2>1, SameKeeps
<1>10. CASE ViewCreatesRow
  BY <1>10, ViewCreatesKeeps
<1>11. CASE MonthEnds
  BY <1>11, MonthEndsKeeps
<1>13. ASSUME NEW w \in Workers, PreflightWritesNothing(w) PROVE IInv'
  BY <1>13, WritesNothingKeeps
<1>14. CASE ViewWritesNothing
  <2>1. viewing' \subseteq Months /\ UNCHANGED <<month, created, usage, slot, tracked, blind>>
    BY <1>14 DEF ViewWritesNothing, rowVars, IInv, TypeOK
  <2>. QED
    BY <2>1, SameKeeps
<1>12. CASE UNCHANGED vars
  <2>1. viewing' \subseteq Months /\ UNCHANGED <<month, created, usage, slot, tracked, blind>>
    BY <1>12 DEF vars, rowVars, IInv, TypeOK
  <2>. QED
    BY <2>1, SameKeeps
<1>. QED
  BY <1>1, <1>2, <1>3, <1>4, <1>5, <1>6, <1>7, <1>8, <1>9, <1>10, <1>11, <1>12,
     <1>13, <1>14
  DEF Next, Begins, Continues

\* IInv holds in every reachable state.
LEMMA Inductive == Spec => []IInv
BY InitIInv, NextKeeps, PTL DEF Spec

\* The room that is left is at most the bound.
LEMMA RoomBounds == IInv => UsageIsBounded
<1>. SUFFICES ASSUME IInv, NEW m \in Months
              PROVE  usage[m] <= Bound
  BY DEF UsageIsBounded
<1>1. MayReach(m) \in SUBSET Workers /\ {} \in SUBSET MayReach(m) /\ usage[m] \in Nat
  BY DEF MayReach, IInv, TypeOK
<1>2. usage[m] + Cardinality(MayReach(m)) * Ceiling <= Bound /\ Bound \in Nat
  BY BoundIs DEF IInv, RoomIsLeft, TypeOK
<1>3. usage[m] <= usage[m]
  BY <1>1
<1>4. usage[m] + Cardinality({}) * Ceiling <= Bound
  BY <1>1, <1>2, <1>3, BoundKept
<1>5. Cardinality({}) * Ceiling = 0
  BY FS_EmptySet, CostAssumption
<1>. QED
  BY <1>1, <1>2, <1>4, <1>5, CostAssumption

\* Every reachable state of the cost control has its types.
THEOREM CostTypes == Spec => []TypeOK
<1>1. IInv => TypeOK
  BY DEF IInv
<1>. QED
  BY <1>1, Inductive, PTL

\* No execution counts more than its ceiling, whatever its handler ignores.
THEOREM CostsCapped == Spec => []CostsAreCapped
<1>1. IInv => CostsAreCapped
  BY DEF IInv
<1>. QED
  BY <1>1, Inductive, PTL

\* The row of a month leaves room, below the bound, for all that the executions still
\* under way may add to it; later months have no usage yet.
THEOREM RoomLeft == Spec => []RoomIsLeft
<1>1. IInv => RoomIsLeft
  BY DEF IInv
<1>. QED
  BY <1>1, Inductive, PTL

\* However executions, rows and months interleave, a month's recorded usage exceeds
\* the budget by at most one execution at its ceiling for every worker, and one for
\* every execution let in because SELECT and upsert of its check both failed.
THEOREM UsageBounded == Spec => []UsageIsBounded
BY RoomBounds, Inductive, PTL

-----------------------------------------------------------------------------
(* Costs are recorded once.                                                *)

CostOf(s) == IF s.phase = "idle" THEN 0 ELSE s.cost

\* A row that changes changes the sum of the rows by as much.
LEMMA RowsSum ==
  ASSUME IInv, IInv', NEW m \in Months, \A n \in Months : n # m => usage'[n] = usage[n]
  PROVE  /\ SumFunction(usage) \in Nat /\ SumFunction(usage') \in Nat
         /\ usage[m] \in Nat /\ usage'[m] \in Nat
         /\ SumFunction(usage') + usage[m] = SumFunction(usage) + usage'[m]
<1>1. IsFiniteSet(Months)
  BY CostAssumption, FS_Interval DEF Months
<1>2. usage \in [Months -> Nat] /\ usage' \in [Months -> Nat]
  BY DEF IInv, TypeOK
<1>. QED
  BY <1>1, <1>2, SumsDiffer

\* An execution that changes changes what is unrecorded by as much.
LEMMA SlotsSum ==
  ASSUME IInv, IInv', NEW w \in Workers, NEW s, slot' = [slot EXCEPT ![w] = s]
  PROVE  /\ SumFunction(Unrecorded) \in Nat /\ SumFunction(Unrecorded') \in Nat
         /\ CostOf(slot[w]) \in Nat /\ CostOf(s) \in Nat
         /\ SumFunction(Unrecorded') + CostOf(slot[w]) = SumFunction(Unrecorded) + CostOf(s)
<1>1. slot \in [Workers -> {Idle} \cup Execution] /\ slot' \in [Workers -> {Idle} \cup Execution]
  BY DEF IInv, TypeOK
<1>2. \A x \in {Idle} \cup Execution : CostOf(x) \in Nat
  BY DEF CostOf, Idle, Execution
<1>3. /\ Unrecorded \in [Workers -> Nat] /\ \A v \in Workers : Unrecorded[v] = CostOf(slot[v])
      /\ Unrecorded' \in [Workers -> Nat] /\ \A v \in Workers : Unrecorded'[v] = CostOf(slot'[v])
  BY <1>1, <1>2 DEF Unrecorded, CostOf
<1>4. slot'[w] = s /\ \A v \in Workers : v # w => slot'[v] = slot[v]
  BY <1>1
<1>5. \A v \in Workers : v # w => Unrecorded'[v] = Unrecorded[v]
  BY <1>3, <1>4
<1>6. /\ SumFunction(Unrecorded) \in Nat /\ SumFunction(Unrecorded') \in Nat
      /\ SumFunction(Unrecorded') + Unrecorded[w] = SumFunction(Unrecorded) + Unrecorded'[w]
  BY <1>3, <1>5, CostAssumption, SumsDiffer
<1>. QED
  BY <1>1, <1>2, <1>3, <1>4, <1>6

\* What a step takes off or adds to a row and to an execution is tracked.
LEMMA SumsKeep ==
  ASSUME IInv, IInv', CostsRecordedOnce, NEW m \in Months, \A n \in Months : n # m => usage'[n] = usage[n],
         NEW w \in Workers, NEW s, slot' = [slot EXCEPT ![w] = s],
         usage'[m] + CostOf(s) + tracked <= usage[m] + CostOf(slot[w]) + tracked'
  PROVE  CostsRecordedOnce'
<1>1. /\ SumFunction(usage) \in Nat /\ SumFunction(usage') \in Nat
      /\ usage[m] \in Nat /\ usage'[m] \in Nat
      /\ SumFunction(usage') + usage[m] = SumFunction(usage) + usage'[m]
  BY RowsSum
<1>2. /\ SumFunction(Unrecorded) \in Nat /\ SumFunction(Unrecorded') \in Nat
      /\ CostOf(slot[w]) \in Nat /\ CostOf(s) \in Nat
      /\ SumFunction(Unrecorded') + CostOf(slot[w]) = SumFunction(Unrecorded) + CostOf(s)
  BY SlotsSum
<1>3. tracked \in Nat /\ tracked' \in Nat
  BY DEF IInv, TypeOK
<1>. QED
  BY <1>1, <1>2, <1>3 DEF CostsRecordedOnce

\* So it is where no execution changes.
LEMMA RowSumsKeep ==
  ASSUME IInv, IInv', CostsRecordedOnce, NEW m \in Months, \A n \in Months : n # m => usage'[n] = usage[n],
         usage'[m] <= usage[m], UNCHANGED <<slot, tracked>>
  PROVE  CostsRecordedOnce'
<1>1. /\ SumFunction(usage) \in Nat /\ SumFunction(usage') \in Nat
      /\ usage[m] \in Nat /\ usage'[m] \in Nat
      /\ SumFunction(usage') + usage[m] = SumFunction(usage) + usage'[m]
  BY RowsSum
<1>2. Unrecorded' = Unrecorded
  BY DEF Unrecorded
<1>3. Unrecorded \in [Workers -> Nat]
  BY DEF Unrecorded, IInv, TypeOK, Idle, Execution
<1>4. PICK F : Adds(F, Unrecorded, Workers) /\ SumFunction(Unrecorded) = F[Workers]
  BY <1>3, CostAssumption, SumIs
<1>5. SumFunction(Unrecorded) \in Nat
  BY <1>4 DEF Adds
<1>6. tracked \in Nat
  BY DEF IInv, TypeOK
<1>. QED
  BY <1>1, <1>2, <1>5, <1>6 DEF CostsRecordedOnce

\* So it is where only an execution changes.
LEMMA SlotKeeps ==
  ASSUME IInv, IInv', CostsRecordedOnce, NEW w \in Workers, NEW s,
         slot' = [slot EXCEPT ![w] = s], UNCHANGED usage,
         CostOf(s) + tracked <= CostOf(slot[w]) + tracked'
  PROVE  CostsRecordedOnce'
<1>1. month \in Months /\ usage \in [Months -> Nat] /\ tracked \in Nat /\ tracked' \in Nat
  BY DEF IInv, TypeOK
<1>2. CostOf(slot[w]) \in Nat /\ CostOf(s) \in Nat
  BY SlotsSum
<1>3. usage[month] \in Nat /\ usage'[month] = usage[month]
      /\ \A n \in Months : n # month => usage'[n] = usage[n]
  BY <1>1
<1>4. usage'[month] + CostOf(s) + tracked <= usage[month] + CostOf(slot[w]) + tracked'
  BY <1>1, <1>2, <1>3
<1>. QED
  BY <1>1, <1>3, <1>4, SumsKeep

\* No step records a cost that was not counted, or one a second time.
LEMMA NextRecordsOnce == IInv /\ CostsRecordedOnce /\ [Next]_vars => CostsRecordedOnce'
<1>. SUFFICES ASSUME IInv, CostsRecordedOnce, [Next]_vars PROVE CostsRecordedOnce'
  OBVIOUS
<1>i. IInv'
  BY NextKeeps
<1>m. month \in Months /\ usage \in [Months -> Nat] /\ tracked \in Nat
  BY DEF IInv, TypeOK
<1>1. ASSUME NEW w \in Workers, NEW phase \in {"running", "creating"}, NEW k, Fill(w, phase, k),
             slot[w].phase = "idle", UNCHANGED <<usage, tracked>>
      PROVE  CostsRecordedOnce'
  <2>. DEFINE s == [phase |-> phase, kind |-> k, month |-> month, cost |-> 0, spent |-> 0, refused |-> 0]
  <2>1. CostOf(s) = 0 /\ CostOf(slot[w]) = 0 /\ slot' = [slot EXCEPT ![w] = s]
    BY <1>1 DEF CostOf, Fill
  <2>. HIDE DEF s
  <2>2. CostOf(s) + tracked <= CostOf(slot[w]) + tracked'
    BY <2>1, <1>1, <1>m
  <2>. QED
    BY <2>1, <2>2, <1>1, <1>i, SlotKeeps
<1>2. ASSUME NEW w \in Workers, PreflightFindsRow(w) \/ PreflightFindsNothing(w) PROVE CostsRecordedOnce'
  BY <1>1, <1>2 DEF PreflightFindsRow, PreflightFindsNothing, rowVars
<1>3. ASSUME NEW w \in Workers, PreflightCreatesRow(w) PROVE CostsRecordedOnce'
  <2>. DEFINE m == slot[w].month
  <2>1. slot[w] \in Execution /\ m \in Months /\ slot[w].phase = "creating"
    BY <1>3, Fields DEF IInv, PreflightCreatesRow
  <2>2. usage' = [usage EXCEPT ![m] = 0] /\ tracked' = tracked
    BY <1>3 DEF PreflightCreatesRow, CreateRow
  <2>3. PICK s \in {Idle, [slot[w] EXCEPT !.phase = "running"]} : slot' = [slot EXCEPT ![w] = s]
    BY <1>3 DEF PreflightCreatesRow, LetIn
  <2>4. CostOf(slot[w]) = slot[w].cost /\ slot[w].cost \in Nat /\ CostOf(s) \in {0, slot[w].cost}
    BY <2>1, <2>3 DEF CostOf, Idle, Execution
  <2>5. usage'[m] = 0 /\ usage[m] \in Nat /\ \A n \in Months : n # m => usage'[n] = usage[n]
    BY <1>m, <2>1, <2>2
  <2>6. usage'[m] + CostOf(s) + tracked <= usage[m] + CostOf(slot[w]) + tracked'
    BY <2>2, <2>4, <2>5, <1>m
  <2>. QED
    BY <2>1, <2>3, <2>5, <2>6, <1>i, SumsKeep
<1>4. ASSUME NEW w \in Workers, Spend(w) PROVE CostsRecordedOnce'
  <2>1. PICK c \in 1 .. MaxCall :
          /\ tracked' = tracked + c
          /\ LET s == Counted(slot[w], c, c) IN
             \/ slot' = [slot EXCEPT ![w] = s]
             \/ slot' = [slot EXCEPT ![w] = Recording(s)]
             \/ slot' = [slot EXCEPT ![w] = [s EXCEPT !.refused = @ + 1]]
    BY <1>4 DEF Spend
  <2>. DEFINE s == Counted(slot[w], c, c)
  <2>2. slot[w] \in Execution /\ slot[w].phase = "running" /\ UNCHANGED usage /\ c \in Nat
    BY <1>4, CostAssumption, Fields DEF IInv, Spend, rowVars
  <2>3. s \in Execution /\ s.cost = slot[w].cost + c /\ s.phase = slot[w].phase
    BY <2>2, CountedFields, Zenon
  <2>4. PICK t \in {s, Recording(s), [s EXCEPT !.refused = @ + 1]} : slot' = [slot EXCEPT ![w] = t]
    BY <2>1
  <2>5. t.cost = s.cost /\ t.phase \in {"running", "recording"}
    BY <2>2, <2>3, <2>4 DEF Recording, Execution
  <2>. HIDE DEF s
  <2>6. CostOf(t) = slot[w].cost + c /\ CostOf(slot[w]) = slot[w].cost /\ slot[w].cost \in Nat
    BY <2>2, <2>3, <2>5 DEF CostOf, Execution
  <2>7. CostOf(t) + tracked <= CostOf(slot[w]) + tracked'
    BY <2>1, <2>2, <2>6, <1>m
  <2>. QED
    BY <2>2, <2>4, <2>7, <1>i, SlotKeeps
<1>5. ASSUME NEW w \in Workers, AgentRuns(w) PROVE CostsRecordedOnce'
  <2>1. PICK c \in 0 .. MaxCall, times \in {1, 2} :
          /\ slot' = [slot EXCEPT ![w] = Recording(Counted(@, times * c, c))]
          /\ tracked' = tracked + times * c
    BY <1>5 DEF AgentRuns
  <2>. DEFINE s == Counted(slot[w], times * c, c)
  <2>2. /\ slot[w] \in Execution /\ slot[w].phase = "running" /\ UNCHANGED usage
        /\ c \in Nat /\ times * c \in Nat /\ slot[w].cost \in Nat
    BY <1>5, CostAssumption, Fields DEF IInv, AgentRuns, rowVars
  <2>3. s \in Execution /\ s.cost = slot[w].cost + times * c
    BY <2>2, CountedFields, Zenon
  <2>4. slot' = [slot EXCEPT ![w] = Recording(s)]
    BY <2>1 DEF IInv, TypeOK
  <2>. HIDE DEF s
  <2>5. Recording(s).cost = s.cost /\ Recording(s).phase = "recording"
    BY <2>3 DEF Recording, Execution
  <2>6. CostOf(Recording(s)) = slot[w].cost + times * c /\ CostOf(slot[w]) = slot[w].cost
    BY <2>2, <2>3, <2>5 DEF CostOf
  <2>7. CostOf(Recording(s)) + tracked <= CostOf(slot[w]) + tracked'
    BY <2>1, <2>2, <2>6, <1>m
  <2>. QED
    BY <2>2, <2>4, <2>7, <1>i, SlotKeeps
<1>6. ASSUME NEW w \in Workers, Finish(w) PROVE CostsRecordedOnce'
  <2>1. slot[w] \in Execution /\ slot[w].phase = "running" /\ UNCHANGED <<usage, tracked>>
    BY <1>6, Fields DEF IInv, Finish, rowVars
  <2>2. slot' = [slot EXCEPT ![w] = Recording(slot[w])] /\ slot[w].cost \in Nat
    BY <1>6, <2>1 DEF Finish, IInv, TypeOK, Execution
  <2>3. CostOf(Recording(slot[w])) = CostOf(slot[w]) /\ CostOf(slot[w]) \in Nat
    BY <2>1, <2>2 DEF CostOf, Recording, Execution
  <2>4. CostOf(Recording(slot[w])) + tracked <= CostOf(slot[w]) + tracked'
    BY <2>1, <2>3, <1>m
  <2>. QED
    BY <2>1, <2>2, <2>4, <1>i, SlotKeeps
<1>7. ASSUME NEW w \in Workers, RecordJobCost(w) PROVE CostsRecordedOnce'
  <2>. DEFINE m == slot[w].month
  <2>1. slot[w] \in Execution /\ m \in Months /\ slot[w].phase = "recording" /\ slot[w].cost \in Nat
    BY <1>7, Fields DEF IInv, RecordJobCost
  <2>2. /\ usage' = [usage EXCEPT ![m] = usage[m] + slot[w].cost]
        /\ slot' = [slot EXCEPT ![w] = Idle] /\ tracked' = tracked
    BY <1>7, <1>m, <2>1 DEF RecordJobCost, Recorded, IInv, TypeOK
  <2>3. CostOf(slot[w]) = slot[w].cost /\ CostOf(Idle) = 0
    BY <2>1 DEF CostOf, Idle
  <2>4. /\ usage'[m] = usage[m] + slot[w].cost /\ usage[m] \in Nat
        /\ \A n \in Months : n # m => usage'[n] = usage[n]
    BY <1>m, <2>1, <2>2
  <2>5. usage'[m] + CostOf(Idle) + tracked <= usage[m] + CostOf(slot[w]) + tracked'
    BY <2>1, <2>2, <2>3, <2>4, <1>m
  <2>. QED
    BY <2>1, <2>2, <2>4, <2>5, <1>i, SumsKeep
<1>8. ASSUME NEW w \in Workers, LoseCost(w) PROVE CostsRecordedOnce'
  <2>1. slot' = [slot EXCEPT ![w] = Idle] /\ UNCHANGED <<usage, tracked>>
    BY <1>8 DEF LoseCost, rowVars
  <2>2. CostOf(Idle) = 0 /\ CostOf(slot[w]) \in Nat
    BY <2>1, <1>i, SlotsSum DEF CostOf, Idle
  <2>3. CostOf(Idle) + tracked <= CostOf(slot[w]) + tracked'
    BY <2>1, <2>2, <1>m
  <2>. QED
    BY <2>1, <2>3, <1>i, SlotKeeps
<1>9. CASE ViewCreatesRow
  <2>1. PICK m \in viewing : CreateRow(m) /\ UNCHANGED <<slot, tracked>>
    BY <1>9 DEF ViewCreatesRow
  <2>2. m \in Months /\ usage' = [usage EXCEPT ![m] = 0]
    BY <2>1 DEF IInv, TypeOK, CreateRow
  <2>3. usage'[m] <= usage[m] /\ \A n \in Months : n # m => usage'[n] = usage[n]
    BY <1>m, <2>2
  <2>. QED
    BY <2>1, <2>2, <2>3, <1>i, RowSumsKeep
<1>11. ASSUME NEW w \in Workers, PreflightWritesNothing(w) PROVE CostsRecordedOnce'
  <2>1. slot[w] \in Execution /\ UNCHANGED <<usage, tracked>>
    BY <1>11, Fields DEF IInv, PreflightWritesNothing, rowVars
  <2>2. PICK s \in {Idle, [slot[w] EXCEPT !.phase = "running"]} : slot' = [slot EXCEPT ![w] = s]
    BY <1>11 DEF PreflightWritesNothing, LetIn
  <2>3. CostOf(slot[w]) = slot[w].cost /\ slot[w].cost \in Nat /\ CostOf(s) \in {0, slot[w].cost}
    BY <1>11, <2>1, <2>2 DEF CostOf, Idle, Execution, PreflightWritesNothing
  <2>4. CostOf(s) + tracked <= CostOf(slot[w]) + tracked'
    BY <1>m, <2>1, <2>3
  <2>. QED
    BY <2>1, <2>2, <2>4, <1>i, SlotKeeps
<1>10. CASE ViewFindsNothing \/ ViewWritesNothing \/ MonthEnds \/ UNCHANGED vars
  BY <1>10 DEF ViewFindsNothing, ViewWritesNothing, MonthEnds, vars, rowVars, CostsRecordedOnce, Unrecorded
<1>. QED
  BY <1>2, <1>3, <1>4, <1>5, <1>6, <1>7, <1>8, <1>9, <1>10, <1>11 DEF Next, Begins, Continues

\* Over every exit of an execution, through late rows, rows set to zero and the turn of
\* the month, what is recorded and still to record was counted, and counted once.
THEOREM RecordedOnce == Spec => []CostsRecordedOnce
<1>1. Init => CostsRecordedOnce
  <2>. SUFFICES ASSUME Init PROVE CostsRecordedOnce
    OBVIOUS
  <2>1. /\ usage \in [Months -> Nat] /\ \A m \in Months : usage[m] = 0
        /\ Unrecorded \in [Workers -> Nat] /\ \A w \in Workers : Unrecorded[w] = 0
    BY DEF Init, Unrecorded, Idle
  <2>2. IsFiniteSet(Months) /\ IsFiniteSet(Workers)
    BY CostAssumption, FS_Interval DEF Months
  <2>3. SumFunction(usage) = 0
    BY <2>1, <2>2, SumOfZeros
  <2>4. SumFunction(Unrecorded) = 0
    BY <2>1, <2>2, SumOfZeros
  <2>. QED
    BY <2>3, <2>4 DEF Init, CostsRecordedOnce
<1>. QED
  BY <1>1, Inductive, NextRecordsOnce, PTL DEF Spec
=============================================================================

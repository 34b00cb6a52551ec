-------------------------- MODULE RuleEngineProofs --------------------------
(***************************************************************************)
(* The properties of RuleEngine for every table of capabilities, every     *)
(* limit and every set of plans.                                           *)
(*                                                                         *)
(* What the sweep has found is known exactly at every moment (SweepInv):   *)
(* the collisions among the pairs it has met or skipped.  That skipping is *)
(* right rests on the order of the steps and on ends that did not wrap     *)
(* around, hence the hypothesis OffsetsInRange of two theorems.            *)
(*                                                                         *)
(* That risks are distinct and strictly ordered needs less of the sweep:   *)
(* every risk it found is one the plan can give rise to (MetInv).  It      *)
(* rests on keys that tell the steps they name, hence NoColons: with steps *)
(* a:b, a:b:a and b:a the conflicts of the first two and of the last two   *)
(* have one key.                                                           *)
(***************************************************************************)
EXTENDS RuleEngine, FiniteSetTheorems, TLAPS

(* No step starts within a longest duration of the end of int64.           *)
OffsetsInRange ==
  \A p \in Plans : \A k \in DOMAIN p.steps :
    p.steps[k].starts < Int64Limit - MaxDurationMS

Running == pc \in {"rules", "sweep", "done"}

(* The sweep has dealt with the steps at these places of the order.        *)
Dealt(k, l) == k < l /\ (k < left \/ (k = left /\ l < right))

Swept(risk) ==
  \E k, l \in DOMAIN ordered :
    /\ Dealt(k, l)
    /\ Collide(ordered[k], ordered[l])
    /\ risk = ZoneRisk(ordered[k], ordered[l])

SweptAllIn(risks) ==
  \A k, l \in DOMAIN ordered :
    Dealt(k, l) /\ Collide(ordered[k], ordered[l]) =>
      ZoneRisk(ordered[k], ordered[l]) \in risks

CheckedRisks == UNION {StepRisks(plan.steps[k]) : k \in 1 .. (next - 1)}

RulesInv ==
  /\ pc = "validate" => next = 1 /\ found = {}
  /\ pc \in {"validate", "rules"} => left = 1 /\ right = 2
  /\ pc = "rules" => found = CheckedRisks
  /\ Running => \A k \in 1 .. (next - 1) : SupportsZone(plan.steps[k])

OrderInv ==
  pc \in {"sweep", "done"} =>
    /\ next = Len(plan.steps) + 1
    /\ ordered \in OrderedSteps(plan)
    /\ pc = "done" => left > Len(ordered) /\ Range(answer) = found

SweepInv ==
  pc \in {"sweep", "done"} =>
    /\ AllStepRisks(plan) \subseteq found /\ SweptAllIn(found)
    /\ \A risk \in found : risk \in AllStepRisks(plan) \/ Swept(risk)

BaseInv ==
  /\ TypeOK
  /\ plan \in Plans
  /\ Running => ValidateSteps(plan)
  /\ right > left

(* The part that holds of every plan, wherever its steps end.              *)
LoopInv == BaseInv /\ RulesInv /\ OrderInv

IInv == LoopInv /\ SweepInv

----------------------------------------------------------------------------
(* Arithmetic of offsets.                                                  *)

LEMMA SmallRemainder ==
  ASSUME NEW m \in Nat \ {0}, NEW a \in 0 .. (m - 1)
  PROVE  a % m = a
  OBVIOUS

LEMMA TrueEnd ==
  ASSUME NEW step \in MotionSteps, NEW window \in Int, ValidStep(step, window),
         step.starts < Int64Limit - MaxDurationMS
  PROVE  /\ EndsAtOffsetMS(step) = step.starts + step.duration
         /\ step.starts + step.duration <= window
         /\ step.starts \in Nat /\ step.duration \in Nat \ {0}
  <1> DEFINE n == step.starts + step.duration
  <1>1. /\ step.starts \in Nat /\ step.duration \in 1 .. MaxDurationMS
        /\ Int64Limit \in Nat \ {0} /\ MaxDurationMS \in Nat
    BY EngineAssumption DEF MotionSteps, ValidStep, Int64
  <1>2. n + Int64Limit \in 0 .. ((2 * Int64Limit) - 1) /\ n \in Nat
    BY <1>1
  <1>3. (n + Int64Limit) % (2 * Int64Limit) = n + Int64Limit
    BY <1>1, <1>2, SmallRemainder
  <1>4. Wrapped(n) = n
    BY <1>1, <1>2, <1>3 DEF Wrapped
  <1> QED
    BY <1>1, <1>4 DEF EndsAtOffsetMS, ValidStep

----------------------------------------------------------------------------
(* The order of the steps.                                                 *)

LEMMA OrderedFacts ==
  ASSUME NEW p \in Plans, NEW o \in OrderedSteps(p)
  PROVE  /\ o \in Seq(Range(p.steps))
         /\ \A x \in Range(p.steps) : \E k \in DOMAIN o : o[k] = x
         /\ DOMAIN o = 1 .. Len(o) /\ Len(o) \in Nat
         /\ \A k, l \in DOMAIN o : k < l => ~ StartsBefore(o[l], o[k])
  <1> DEFINE S == Range(p.steps)
             n == Cardinality(S)
  <1>1. p.steps \in Seq(MotionSteps)
    BY EngineAssumption DEF MotionPlans
  <1>2. p.steps \in Surjection(1 .. Len(p.steps), S) /\ Len(p.steps) \in Nat
    BY <1>1 DEF Surjection, Range
  <1>3. IsFiniteSet(S)
    BY <1>2, FS_NatSurjection DEF ExistsSurjection
  <1>4. n \in Nat
    BY <1>3, FS_CardinalityType
  <1>5. o \in [1 .. n -> S] /\ \A x \in S : \E k \in 1 .. n : o[k] = x
    BY DEF OrderedSteps, Arrangements, Surjection
  <1>6. o \in Seq(S) /\ Len(o) = n /\ DOMAIN o = 1 .. n
    BY <1>4, <1>5
  <1> QED
    BY <1>4, <1>5, <1>6 DEF OrderedSteps

(* What the hypothesis OffsetsInRange gives for the steps of an      *)
(* accepted plan, at any place in the order.                               *)
LEMMA AcceptedSteps ==
  ASSUME OffsetsInRange, NEW p \in Plans, ValidateSteps(p),
         NEW x \in Range(p.steps)
  PROVE  /\ x \in MotionSteps
         /\ EndsAtOffsetMS(x) = x.starts + x.duration
         /\ x.starts + x.duration <= p.window
         /\ x.starts \in Nat /\ x.duration \in Nat \ {0}
  <1>1. p.steps \in Seq(MotionSteps) /\ p.window \in Int
    BY EngineAssumption DEF MotionPlans
  <1>2. PICK k \in DOMAIN p.steps : x = p.steps[k]
    BY DEF Range
  <1>3. x \in MotionSteps
    BY <1>1, <1>2
  <1>4. ValidStep(x, p.window) /\ x.starts < Int64Limit - MaxDurationMS
    BY <1>2 DEF ValidateSteps, OffsetsInRange
  <1> QED
    BY <1>1, <1>3, <1>4, TrueEnd

LEMMA StepsDiffer ==
  ASSUME NEW p \in Plans, ValidateSteps(p),
         NEW x \in Range(p.steps), NEW y \in Range(p.steps), x # y
  PROVE  x.id # y.id
  BY DEF ValidateSteps, Range

LEMMA OneIsBefore ==
  ASSUME NEW x \in MotionSteps, NEW y \in MotionSteps, x.id # y.id
  PROVE  StartsBefore(x, y) <=> ~ StartsBefore(y, x)
  <1>1. x.starts \in Int /\ y.starts \in Int /\ x.id \in Ids /\ y.id \in Ids
    BY EngineAssumption DEF MotionSteps, Int64
  <1>2. TextLess(x.id, y.id) <=> ~ TextLess(y.id, x.id)
    BY <1>1, EngineAssumption DEF Keys
  <1> QED
    BY <1>1, <1>2 DEF StartsBefore

(* A machine that starts before another ends, and not after it, collides   *)
(* with it; one that starts when the other is over does not.               *)
LEMMA WhenTheyCollide ==
  ASSUME NEW x, NEW y, x.starts \in Nat, y.starts \in Nat,
         x.duration \in Nat \ {0}, y.duration \in Nat \ {0},
         x.starts <= y.starts
  PROVE  Collide(x, y) <=> /\ x.zone = y.zone /\ x.device # y.device
                           /\ y.starts < x.starts + x.duration
  <1>1. ASSUME y.starts < x.starts + x.duration
        PROVE  \E t \in x.starts .. (x.starts + x.duration) :
                 Moves(x, t) /\ Moves(y, t)
    <2>1. y.starts \in x.starts .. (x.starts + x.duration)
      BY <1>1
    <2>2. Moves(x, y.starts) /\ Moves(y, y.starts)
      BY <1>1 DEF Moves
    <2> QED
      BY <2>1, <2>2
  <1>2. ASSUME NEW t \in x.starts .. (x.starts + x.duration),
               Moves(x, t), Moves(y, t)
        PROVE  y.starts < x.starts + x.duration
    BY <1>2 DEF Moves
  <1> QED
    BY <1>1, <1>2 DEF Collide

----------------------------------------------------------------------------
(* The invariant.                                                          *)

LEMMA InitInv == Init => IInv
  <1> SUFFICES ASSUME Init PROVE IInv
    OBVIOUS
  <1>1. plan \in MotionPlans /\ Len(plan.steps) \in Nat
    BY EngineAssumption DEF Init, MotionPlans
  <1>2. Range(answer) = {} /\ ordered \in Seq(Range(plan.steps))
    BY DEF Init, Range
  <1>3. BaseInv
    BY <1>1, <1>2 DEF Init, BaseInv, TypeOK, Running
  <1> QED
    BY <1>3 DEF Init, IInv, LoopInv, RulesInv, OrderInv, SweepInv, Running

LEMMA FailInv ==
  ASSUME LoopInv, Fail
  PROVE  LoopInv'
  BY DEF LoopInv, BaseInv, TypeOK, Running, RulesInv, OrderInv, Fail

LEMMA AcceptPlanInv ==
  ASSUME LoopInv, AcceptPlan
  PROVE  LoopInv'
  <1>1. CheckedRisks' = {}
    BY DEF LoopInv, RulesInv, AcceptPlan, CheckedRisks
  <1> QED
    BY <1>1 DEF LoopInv, BaseInv, TypeOK, Running, RulesInv, OrderInv,
                AcceptPlan

LEMMA CheckStepInv ==
  ASSUME LoopInv, CheckStep
  PROVE  LoopInv'
  <1>1. /\ plan \in MotionPlans /\ Len(plan.steps) \in Nat
        /\ next \in 1 .. Len(plan.steps) /\ next' = next + 1
        /\ plan' = plan /\ pc = "rules" /\ pc' = "rules"
    BY DEF LoopInv, BaseInv, TypeOK, CheckStep, MotionPlans
  <1>2. 1 .. (next' - 1) = (1 .. (next - 1)) \cup {next}
    BY <1>1
  <1>3. CheckedRisks' = CheckedRisks \cup StepRisks(plan.steps[next])
    BY <1>1, <1>2 DEF CheckedRisks
  <1>4. BaseInv'
    BY <1>1 DEF LoopInv, BaseInv, TypeOK, Running, CheckStep
  <1>5. RulesInv'
    BY <1>1, <1>2, <1>3 DEF LoopInv, RulesInv, Running, CheckStep
  <1> QED
    BY <1>1, <1>4, <1>5 DEF LoopInv, OrderInv

(* The sweep begins with all risks of single steps and no pair dealt with. *)
LEMMA OrderStepsInv ==
  ASSUME LoopInv, OrderSteps
  PROVE  LoopInv' /\ SweepInv'
  <1>1. /\ plan \in Plans /\ plan \in MotionPlans /\ Len(plan.steps) \in Nat
        /\ plan.steps \in Seq(MotionSteps)
        /\ next = Len(plan.steps) + 1 /\ next' = next
        /\ plan' = plan /\ pc = "rules" /\ pc' = "sweep"
        /\ left = 1 /\ left' = left /\ right = 2 /\ right' = right
        /\ found' = found /\ answer' = answer
        /\ ordered' \in OrderedSteps(plan)
    BY DEF LoopInv, BaseInv, TypeOK, RulesInv, OrderSteps, MotionPlans
  <1>2. ordered' \in Seq(Range(plan.steps)) /\ Len(ordered') \in Nat
        /\ DOMAIN ordered' = 1 .. Len(ordered')
    BY <1>1, OrderedFacts
  <1>3. CheckedRisks = AllStepRisks(plan)
    BY <1>1 DEF CheckedRisks, AllStepRisks, Range
  <1>4. \A k, l \in DOMAIN ordered' : ~ Dealt(k, l)'
    BY <1>1, <1>2 DEF Dealt
  <1>5. found = AllStepRisks(plan)
    BY <1>1, <1>3 DEF LoopInv, RulesInv
  <1>6. BaseInv'
    BY <1>1, <1>2 DEF LoopInv, BaseInv, TypeOK, Running
  <1>7. RulesInv' /\ OrderInv'
    BY <1>1 DEF LoopInv, RulesInv, OrderInv, Running
  <1>8. SweepInv'
    BY <1>1, <1>4, <1>5 DEF SweepInv, SweptAllIn
  <1> QED
    BY <1>6, <1>7, <1>8 DEF LoopInv

LEMMA SweepLoopInv ==
  ASSUME LoopInv, NextLeft \/ ComparePair
  PROVE  LoopInv'
  <1>1. /\ left \in Nat /\ right \in Nat /\ Len(ordered) \in Nat
        /\ left <= Len(ordered) /\ pc = "sweep"
    BY DEF LoopInv, BaseInv, TypeOK, NextLeft, ComparePair
  <1>2. /\ left' \in {left, left + 1} /\ right' > left' /\ right' \in Nat
        /\ found \subseteq found'
        /\ plan' = plan /\ pc' = pc /\ next' = next /\ ordered' = ordered
        /\ answer' = answer
    BY <1>1 DEF LoopInv, BaseInv, NextLeft, ComparePair
  <1> QED
    BY <1>1, <1>2 DEF LoopInv, BaseInv, TypeOK, Running, RulesInv, OrderInv

LEMMA OrderRisksInv ==
  ASSUME LoopInv, OrderRisks
  PROVE  LoopInv'
  <1>1. Range(answer') = found
    BY DEF OrderRisks, OrderedRisks, Arrangements, Surjection, Range
  <1> QED
    BY <1>1 DEF LoopInv, BaseInv, TypeOK, Running, RulesInv, OrderInv,
                OrderRisks

LEMMA LoopStep ==
  ASSUME LoopInv, [Next]_vars
  PROVE  LoopInv'
  <1>1. CASE Fail
    BY <1>1, FailInv
  <1>2. CASE AcceptPlan
    BY <1>2, AcceptPlanInv
  <1>3. CASE CheckStep
    BY <1>3, CheckStepInv
  <1>4. CASE OrderSteps
    BY <1>4, OrderStepsInv
  <1>5. CASE NextLeft \/ ComparePair
    BY <1>5, SweepLoopInv
  <1>6. CASE OrderRisks
    BY <1>6, OrderRisksInv
  <1>7. CASE UNCHANGED vars
    BY <1>7 DEF vars, LoopInv, BaseInv, TypeOK, Running, RulesInv, OrderInv,
                CheckedRisks
  <1> QED
    BY <1>1, <1>2, <1>3, <1>4, <1>5, <1>6, <1>7
    DEF Next, Cancelled, RefusePlan, RefuseStep

----------------------------------------------------------------------------
(* The sweep.                                                              *)

(* What is known at every step of the sweep.                               *)
LEMMA Sweeping ==
  ASSUME OffsetsInRange, LoopInv, pc = "sweep", left <= Len(ordered)
  PROVE  /\ plan \in Plans /\ ValidateSteps(plan)
         /\ Len(ordered) \in Nat /\ DOMAIN ordered = 1 .. Len(ordered)
         /\ left \in 1 .. Len(ordered) /\ right \in Nat /\ right > left
         /\ \A k \in DOMAIN ordered : ordered[k] \in Range(plan.steps)
         /\ \A k, l \in DOMAIN ordered :
              k < l => ordered[k].starts <= ordered[l].starts
         /\ \A k, l \in DOMAIN ordered :
              k < l => (Collide(ordered[k], ordered[l]) <=>
                          /\ ordered[k].zone = ordered[l].zone
                          /\ ordered[k].device # ordered[l].device
                          /\ ordered[l].starts < EndsAtOffsetMS(ordered[k]))
  <1>1. /\ plan \in Plans /\ ValidateSteps(plan)
        /\ ordered \in OrderedSteps(plan)
        /\ left \in 1 .. (Len(ordered) + 1) /\ right \in Nat /\ right > left
    BY DEF LoopInv, BaseInv, TypeOK, Running, OrderInv
  <1>2. /\ ordered \in Seq(Range(plan.steps))
        /\ Len(ordered) \in Nat /\ DOMAIN ordered = 1 .. Len(ordered)
        /\ \A k, l \in DOMAIN ordered :
             k < l => ~ StartsBefore(ordered[l], ordered[k])
    BY <1>1, OrderedFacts
  <1>3. \A k \in DOMAIN ordered : ordered[k] \in Range(plan.steps)
    BY <1>2
  <1>4. ASSUME NEW k \in DOMAIN ordered, NEW l \in DOMAIN ordered, k < l
        PROVE  /\ ordered[k].starts <= ordered[l].starts
               /\ Collide(ordered[k], ordered[l]) <=>
                    /\ ordered[k].zone = ordered[l].zone
                    /\ ordered[k].device # ordered[l].device
                    /\ ordered[l].starts < EndsAtOffsetMS(ordered[k])
    <2> DEFINE x == ordered[k]
               y == ordered[l]
    <2>1. x \in Range(plan.steps) /\ y \in Range(plan.steps)
      BY <1>3
    <2>2. /\ EndsAtOffsetMS(x) = x.starts + x.duration
          /\ x.starts \in Nat /\ x.duration \in Nat \ {0}
          /\ y.starts \in Nat /\ y.duration \in Nat \ {0}
      BY <1>1, <2>1, AcceptedSteps
    <2>3. ~ StartsBefore(y, x)
      BY <1>2, <1>4
    <2>4. x.starts <= y.starts
      BY <2>2, <2>3 DEF StartsBefore
    <2> HIDE DEF x, y
    <2>5. Collide(x, y) <=> /\ x.zone = y.zone /\ x.device # y.device
                            /\ y.starts < EndsAtOffsetMS(x)
      BY <2>2, <2>4, WhenTheyCollide
    <2> QED
      BY <2>4, <2>5 DEF x, y
  <1> QED
    BY <1>1, <1>2, <1>3, <1>4

(* Skipping is right: all steps from right on start when left is over.     *)
LEMMA NextLeftSweep ==
  ASSUME OffsetsInRange, LoopInv, SweepInv, NextLeft
  PROVE  SweepInv'
  <1>1. /\ pc = "sweep" /\ left <= Len(ordered) /\ PastEnd
        /\ left' = left + 1 /\ right' = left + 2
        /\ plan' = plan /\ pc' = pc /\ next' = next /\ ordered' = ordered
        /\ found' = found /\ answer' = answer
    BY DEF NextLeft
  <1>2. ASSUME NEW k \in DOMAIN ordered, k > left, k >= right
        PROVE  ~ Collide(ordered[left], ordered[k])
    <2>1. /\ left \in DOMAIN ordered /\ right \in DOMAIN ordered
          /\ ordered[right].starts >= EndsAtOffsetMS(ordered[left])
      BY <1>1, <1>2, Sweeping DEF PastEnd
    <2>2. /\ plan \in Plans /\ ValidateSteps(plan)
          /\ \A l \in DOMAIN ordered : ordered[l] \in Range(plan.steps)
      BY <1>1, Sweeping
    <2>3. \A l \in DOMAIN ordered :
            /\ ordered[l].starts \in Int
            /\ EndsAtOffsetMS(ordered[l]) \in Int
      BY <2>2, AcceptedSteps
    <2>4. ordered[right].starts <= ordered[k].starts
      <3>1. CASE k = right
        BY <2>1, <2>3, <3>1
      <3>2. CASE k # right
        BY <1>1, <1>2, <2>1, <3>2, Sweeping
      <3> QED
        BY <3>1, <3>2
    <2>5. ~ (ordered[k].starts < EndsAtOffsetMS(ordered[left]))
      BY <1>2, <2>1, <2>3, <2>4
    <2> QED
      BY <1>1, <1>2, <2>1, <2>5, Sweeping
  <1>3. \A k, l \in DOMAIN ordered :
          /\ Dealt(k, l) => Dealt(k, l)'
          /\ Dealt(k, l)' /\ ~ Dealt(k, l) => k = left /\ l > left /\ l >= right
    BY <1>1, Sweeping DEF Dealt
  <1>4. \A k, l \in DOMAIN ordered :
          Collide(ordered[k], ordered[l]) => (Dealt(k, l)' <=> Dealt(k, l))
    BY <1>2, <1>3
  <1>5. SweptAllIn(found)' /\ \A risk : Swept(risk) => Swept(risk)'
    BY <1>1, <1>4 DEF SweepInv, SweptAllIn, Swept
  <1> QED
    BY <1>1, <1>5 DEF SweepInv

LEMMA ComparePairSweep ==
  ASSUME OffsetsInRange, LoopInv, SweepInv, ComparePair
  PROVE  SweepInv'
  <1> DEFINE a == ordered[left]
             b == ordered[right]
  <1>1. /\ pc = "sweep" /\ left <= Len(ordered) /\ ~ PastEnd
        /\ right' = right + 1 /\ left' = left
        /\ found' = IF a.zone # b.zone \/ a.device = b.device
                    THEN found ELSE found \cup {ZoneRisk(a, b)}
        /\ plan' = plan /\ pc' = pc /\ next' = next /\ ordered' = ordered
        /\ answer' = answer
    BY DEF ComparePair
  <1>2. /\ left \in DOMAIN ordered /\ right \in DOMAIN ordered /\ left < right
        /\ left \in Nat /\ right \in Nat
    BY <1>1, Sweeping DEF PastEnd
  <1>3. Collide(a, b) <=> a.zone = b.zone /\ a.device # b.device
    <2>1. Collide(a, b) <=> /\ a.zone = b.zone /\ a.device # b.device
                            /\ b.starts < EndsAtOffsetMS(a)
      BY <1>1, <1>2, Sweeping
    <2>2. /\ plan \in Plans /\ ValidateSteps(plan)
          /\ a \in Range(plan.steps) /\ b \in Range(plan.steps)
      BY <1>1, <1>2, Sweeping
    <2>3. b.starts \in Int /\ EndsAtOffsetMS(a) \in Int
      BY <2>2, AcceptedSteps
    <2>4. ~ (b.starts >= EndsAtOffsetMS(a))
      BY <1>1 DEF PastEnd
    <2> QED
      BY <2>1, <2>3, <2>4
  <1>4. \A k, l \in DOMAIN ordered :
          Dealt(k, l)' <=> Dealt(k, l) \/ (k = left /\ l = right)
    BY <1>1, <1>2, Sweeping DEF Dealt
  <1>5. /\ found \subseteq found'
        /\ Collide(a, b) => ZoneRisk(a, b) \in found'
        /\ \A risk \in found' \ found : Collide(a, b) /\ risk = ZoneRisk(a, b)
    BY <1>1, <1>3
  <1>6. SweptAllIn(found)'
    BY <1>1, <1>4, <1>5 DEF SweepInv, SweptAllIn
  <1>7. \A risk : Swept(risk) => Swept(risk)'
    BY <1>1, <1>4 DEF Swept
  <1>8. \A risk \in found' \ found : Swept(risk)'
    BY <1>1, <1>2, <1>4, <1>5 DEF Swept
  <1> QED
    BY <1>1, <1>5, <1>6, <1>7, <1>8 DEF SweepInv

LEMMA StepInv ==
  ASSUME OffsetsInRange, IInv, [Next]_vars
  PROVE  IInv'
  <1>1. LoopInv' /\ LoopInv /\ SweepInv
    BY LoopStep DEF IInv
  <1>2. CASE Fail \/ AcceptPlan \/ CheckStep
    BY <1>1, <1>2 DEF Fail, AcceptPlan, CheckStep, IInv, SweepInv
  <1>3. CASE OrderSteps
    BY <1>1, <1>3, OrderStepsInv DEF IInv
  <1>4. CASE NextLeft
    BY <1>1, <1>4, NextLeftSweep DEF IInv
  <1>5. CASE ComparePair
    BY <1>1, <1>5, ComparePairSweep DEF IInv
  <1>6. CASE OrderRisks
    BY <1>1, <1>6 DEF OrderRisks, IInv, SweepInv, SweptAllIn, Swept, Dealt
  <1>7. CASE UNCHANGED vars
    BY <1>1, <1>7 DEF vars, IInv, SweepInv, SweptAllIn, Swept, Dealt
  <1> QED
    BY <1>2, <1>3, <1>4, <1>5, <1>6, <1>7
    DEF Next, Cancelled, RefusePlan, RefuseStep

(* When the sweep is over, the pairs it dealt with are all pairs, and the  *)
(* collisions among them are the collisions of the plan.                   *)
LEMMA SweepIsComplete ==
  ASSUME OffsetsInRange, IInv, pc = "done"
  PROVE  Range(answer) = AllStepRisks(plan) \cup Collisions(plan)
  <1>1. /\ plan \in Plans /\ ValidateSteps(plan)
        /\ ordered \in OrderedSteps(plan)
        /\ left \in Nat /\ left > Len(ordered) /\ Range(answer) = found
        /\ AllStepRisks(plan) \subseteq found /\ SweptAllIn(found)
        /\ \A risk \in found : risk \in AllStepRisks(plan) \/ Swept(risk)
    BY DEF IInv, LoopInv, BaseInv, TypeOK, Running, OrderInv, SweepInv
  <1>2. /\ ordered \in Seq(Range(plan.steps))
        /\ \A x \in Range(plan.steps) : \E k \in DOMAIN ordered : ordered[k] = x
        /\ DOMAIN ordered = 1 .. Len(ordered) /\ Len(ordered) \in Nat
        /\ \A k, l \in DOMAIN ordered :
             k < l => ~ StartsBefore(ordered[l], ordered[k])
    BY <1>1, OrderedFacts
  <1>3. \A k, l \in DOMAIN ordered : Dealt(k, l) <=> k < l
    BY <1>1, <1>2 DEF Dealt
  <1>4. ASSUME NEW x \in Range(plan.steps), NEW y \in Range(plan.steps),
               x # y
        PROVE  StartsBefore(x, y) <=> ~ StartsBefore(y, x)
    BY <1>1, <1>4, AcceptedSteps, StepsDiffer, OneIsBefore
  <1>5. ASSUME NEW risk, Swept(risk)
        PROVE  risk \in Collisions(plan)
    <2>1. PICK k, l \in DOMAIN ordered :
            /\ k < l /\ Collide(ordered[k], ordered[l])
            /\ risk = ZoneRisk(ordered[k], ordered[l])
      BY <1>3, <1>5 DEF Swept
    <2>2. /\ ordered[k] \in Range(plan.steps) /\ ordered[l] \in Range(plan.steps)
          /\ ordered[k] # ordered[l]
      BY <1>2, <2>1 DEF Collide
    <2>3. StartsBefore(ordered[k], ordered[l])
      BY <1>2, <1>4, <2>1, <2>2
    <2>4. <<ordered[k], ordered[l]>> \in
            {xy \in Range(plan.steps) \X Range(plan.steps) :
               StartsBefore(xy[1], xy[2]) /\ Collide(xy[1], xy[2])}
      BY <2>1, <2>2, <2>3
    <2> QED
      BY <2>1, <2>4 DEF Collisions
  <1>6. ASSUME NEW risk \in Collisions(plan)
        PROVE  risk \in found
    <2>1. PICK x, y \in Range(plan.steps) :
            StartsBefore(x, y) /\ Collide(x, y) /\ risk = ZoneRisk(x, y)
      BY <1>6 DEF Collisions
    <2>2. PICK k, l \in DOMAIN ordered : ordered[k] = x /\ ordered[l] = y
      BY <1>2, <2>1
    <2>3. x # y
      BY <2>1 DEF Collide
    <2>4. k < l
      BY <1>2, <1>4, <2>1, <2>2, <2>3
    <2> QED
      BY <1>1, <1>3, <2>1, <2>2, <2>4 DEF SweptAllIn
  <1> QED
    BY <1>1, <1>5, <1>6

----------------------------------------------------------------------------
(* The theorems.                                                           *)

LEMMA LoopInvHolds == Spec => []LoopInv
  <1>1. Init => LoopInv
    BY InitInv DEF IInv
  <1> QED
    BY <1>1, LoopStep, PTL DEF Spec

(* The variables keep their types.                                         *)
THEOREM TypeCorrect == Spec => []TypeOK
  <1>1. LoopInv => TypeOK
    BY DEF LoopInv, BaseInv
  <1> QED
    BY <1>1, LoopInvHolds, PTL

(* No evaluation that ends has passed over a step it has no rules for.     *)
THEOREM UnknownNeverSafe == Spec => []UnknownIsNotSafe
  <1>1. LoopInv => UnknownIsNotSafe
    <2> SUFFICES ASSUME LoopInv, pc = "done", NEW step \in Range(plan.steps)
                 PROVE  SupportsZone(step)
      BY DEF UnknownIsNotSafe
    <2>1. /\ plan.steps \in Seq(MotionSteps)
          /\ next = Len(plan.steps) + 1
          /\ \A k \in 1 .. (next - 1) : SupportsZone(plan.steps[k])
      BY DEF LoopInv, BaseInv, TypeOK, MotionPlans, RulesInv, OrderInv, Running
    <2> QED
      BY <2>1 DEF Range
  <1> QED
    BY <1>1, LoopInvHolds, PTL

(* Whatever plan is evaluated, the answer is exactly the steps that break  *)
(* a rule and the pairs of machines that collide, while ends do not wrap   *)
(* around.                                                                 *)
THEOREM EveryRiskFound ==
  ASSUME OffsetsInRange
  PROVE  Spec => []FindsEveryRisk
  <1>1. IInv /\ [Next]_vars => IInv'
    BY StepInv
  <1>2. IInv => FindsEveryRisk
    BY SweepIsComplete DEF FindsEveryRisk
  <1> QED
    BY <1>1, <1>2, InitInv, PTL DEF Spec

(* While ends do not wrap around, no accepted step outlasts the            *)
(* performance.                                                            *)
THEOREM AcceptedStepsEndInTime ==
  ASSUME OffsetsInRange
  PROVE  Spec => []StepsEndInTime
  <1>1. LoopInv => StepsEndInTime
    <2> SUFFICES ASSUME LoopInv, pc \notin {"validate", "failed"},
                        NEW step \in Range(plan.steps)
                 PROVE  step.starts + step.duration <= plan.window
      BY DEF StepsEndInTime
    <2>1. plan \in Plans /\ ValidateSteps(plan)
      BY DEF LoopInv, BaseInv, TypeOK, Running
    <2> QED
      BY <2>1, AcceptedSteps
  <1> QED
    BY <1>1, LoopInvHolds, PTL

----------------------------------------------------------------------------
(* The risks that were met, and their order.                               *)

(* No id and no interlock code contains a colon.                           *)
NoColons == \A text \in Ids \cup Interlocks : text = <<text[1]>>

(* An evaluation of the plan can meet the risk, whichever pairs its sweep  *)
(* compares.                                                               *)
CanMeet(p, risk) ==
  \/ \E x \in Range(p.steps) : SupportsZone(x) /\ risk \in StepRisks(x)
  \/ \E x, y \in Range(p.steps) : StartsBefore(x, y) /\ risk = ZoneRisk(x, y)

MetInv ==
  /\ IsFiniteSet(found)
  /\ found # {} => ValidateSteps(plan)
  /\ \A risk \in found : CanMeet(plan, risk)
  /\ pc = "done" => answer \in OrderedRisks(plan, found)
  /\ pc # "done" => answer = <<>>

LEMMA StepRisksAreFinite ==
  ASSUME NEW step, SupportsZone(step)
  PROVE  IsFiniteSet(StepRisks(step))
  <1> DEFINE codes == Capabilities[step.device].interlocks \ step.interlocks
             Missing(code) ==
               StepRisk("INTERLOCK_REQUIRED", step, Joined(step.id, code))
             risk == [code \in codes |-> Missing(code)]
             missing == {Missing(code) : code \in codes}
             load == IF step.load > Capabilities[step.device].maxLoad
                     THEN {StepRisk("LOAD_LIMIT", step, step.id)} ELSE {}
             person == IF step.clearance = "required"
                       THEN {StepRisk("PERSONNEL_CLEARANCE", step, step.id)}
                       ELSE {}
  <1>1. IsFiniteSet(codes)
    <2>1. IsFiniteSet(Capabilities[step.device].interlocks)
      BY EngineAssumption DEF SupportsZone
    <2> QED
      BY <2>1, FS_Subset
  <1>2. risk \in Surjection(codes, missing)
    BY DEF Surjection
  <1>3. IsFiniteSet(missing)
    BY <1>1, <1>2, FS_Surjection
  <1>4. IsFiniteSet(load) /\ IsFiniteSet(person)
    BY FS_EmptySet, FS_Singleton
  <1>5. IsFiniteSet((load \cup person) \cup missing)
    BY <1>3, <1>4, FS_Union
  <1>6. StepRisks(step) = (load \cup person) \cup missing
    BY DEF StepRisks
  <1> QED
    BY <1>5, <1>6

LEMMA MetStep ==
  ASSUME LoopInv, MetInv, [Next]_vars
  PROVE  MetInv'
  <1>1. CASE \/ Cancelled \/ RefusePlan \/ RefuseStep
             \/ AcceptPlan \/ OrderSteps \/ NextLeft
    <2>1. /\ plan' = plan /\ found' = found /\ answer' = answer
          /\ pc # "done" /\ pc' # "done"
      BY <1>1 DEF Cancelled, RefusePlan, RefuseStep, Fail, AcceptPlan, OrderSteps,
                  NextLeft
    <2> QED
      BY <2>1 DEF MetInv
  <1>2. CASE CheckStep
    <2>1. /\ plan \in Plans /\ plan.steps \in Seq(MotionSteps)
          /\ next \in 1 .. Len(plan.steps)
          /\ ValidateSteps(plan) /\ SupportsZone(plan.steps[next])
          /\ found' = found \cup StepRisks(plan.steps[next])
          /\ plan' = plan /\ pc = "rules" /\ pc' = pc /\ answer' = answer
      BY <1>2 DEF LoopInv, BaseInv, TypeOK, Running, CheckStep, MotionPlans
    <2>2. plan.steps[next] \in Range(plan.steps)
      BY <2>1 DEF Range
    <2>3. \A risk \in StepRisks(plan.steps[next]) : CanMeet(plan, risk)
      BY <2>1, <2>2 DEF CanMeet
    <2>4. IsFiniteSet(found')
      BY <2>1, StepRisksAreFinite, FS_Union DEF MetInv
    <2> QED
      BY <2>1, <2>3, <2>4 DEF MetInv
  <1>3. CASE ComparePair
    <2> DEFINE a == ordered[left]
               b == ordered[right]
    <2>1. /\ plan \in Plans /\ ValidateSteps(plan)
          /\ ordered \in OrderedSteps(plan)
          /\ left \in Nat /\ right \in Nat /\ left \in 1 .. Len(ordered)
          /\ right > left
      BY <1>3 DEF LoopInv, BaseInv, TypeOK, Running, OrderInv, ComparePair
    <2>2. /\ plan' = plan /\ pc = "sweep" /\ pc' = pc /\ answer' = answer
          /\ ~ PastEnd
          /\ found' = IF a.zone # b.zone \/ a.device = b.device
                      THEN found ELSE found \cup {ZoneRisk(a, b)}
      BY <1>3 DEF ComparePair
    <2>3. right <= Len(ordered)
      BY <2>2 DEF PastEnd
    <2>4. ASSUME a.device # b.device
          PROVE  CanMeet(plan, ZoneRisk(a, b))
      <3>1. /\ DOMAIN ordered = 1 .. Len(ordered) /\ Len(ordered) \in Nat
            /\ ordered \in Seq(Range(plan.steps))
            /\ \A k, l \in DOMAIN ordered :
                 k < l => ~ StartsBefore(ordered[l], ordered[k])
        BY <2>1, OrderedFacts
      <3>2. /\ a \in Range(plan.steps) /\ b \in Range(plan.steps) /\ a # b
            /\ ~ StartsBefore(b, a)
        BY <2>1, <2>3, <2>4, <3>1
      <3>3. a \in MotionSteps /\ b \in MotionSteps
        <4>1. plan.steps \in Seq(MotionSteps)
          BY <2>1, EngineAssumption DEF MotionPlans
        <4> QED
          BY <3>2, <4>1 DEF Range
      <3>4. a.id # b.id
        BY <2>1, <3>2, StepsDiffer
      <3>5. StartsBefore(a, b)
        BY <3>2, <3>3, <3>4, OneIsBefore
      <3> QED
        BY <3>2, <3>5 DEF CanMeet
    <2>5. IsFiniteSet(found')
      BY <2>2, FS_AddElement DEF MetInv
    <2> QED
      BY <2>1, <2>2, <2>4, <2>5 DEF MetInv
  <1>4. CASE OrderRisks
    BY <1>4 DEF MetInv, OrderRisks
  <1>5. CASE UNCHANGED vars
    BY <1>5 DEF MetInv, vars
  <1> QED
    BY <1>1, <1>2, <1>3, <1>4, <1>5 DEF Next

LEMMA MetInvHolds == Spec => [](LoopInv /\ MetInv)
  <1>1. Init => LoopInv /\ MetInv
    <2> SUFFICES ASSUME Init PROVE MetInv
      BY InitInv DEF IInv
    <2> QED
      BY FS_EmptySet DEF Init, MetInv
  <1>2. LoopInv /\ MetInv /\ [Next]_vars => (LoopInv /\ MetInv)'
    BY LoopStep, MetStep
  <1> QED
    BY <1>1, <1>2, PTL DEF Spec

(* What a risk that was met looks like.                                    *)
LEMMA RiskShape ==
  ASSUME NEW p \in Plans, NEW f, CanMeet(p, f)
  PROVE  \E x \in Range(p.steps) :
           \/ f = StepRisk("LOAD_LIMIT", x, x.id)
           \/ f = StepRisk("PERSONNEL_CLEARANCE", x, x.id)
           \/ \E code \in Interlocks :
                f = StepRisk("INTERLOCK_REQUIRED", x, Joined(x.id, code))
           \/ \E y \in Range(p.steps) : StartsBefore(y, x) /\ f = ZoneRisk(y, x)
  <1>1. CASE \E x \in Range(p.steps) : SupportsZone(x) /\ f \in StepRisks(x)
    <2>1. PICK x \in Range(p.steps) : SupportsZone(x) /\ f \in StepRisks(x)
      BY <1>1
    <2>2. Capabilities[x.device].interlocks \subseteq Interlocks
      BY <2>1, EngineAssumption DEF SupportsZone, DeviceCapabilities
    <2> QED
      BY <2>1, <2>2 DEF StepRisks
  <1> QED
    BY <1>1 DEF CanMeet

LEMMA PlanSteps ==
  ASSUME NEW p \in Plans, NEW x \in Range(p.steps)
  PROVE  x \in MotionSteps /\ x.id \in Ids /\ x.sequence \in Int
  <1>1. p.steps \in Seq(MotionSteps)
    BY EngineAssumption DEF MotionPlans
  <1>2. x \in MotionSteps
    BY <1>1 DEF Range
  <1> QED
    BY <1>2 DEF MotionSteps

(* Texts without colons can be told from what they were joined to.         *)
LEMMA JoinedSegments ==
  ASSUME NEW T, NEW s \in Seq(T), NEW t \in Seq(T), Len(s) = 1, Len(t) = 1
  PROVE  (s \o t)[1] = s[1] /\ (s \o t)[2] = t[1]
  OBVIOUS

LEMMA JoinsDiffer ==
  ASSUME NoColons, NEW a \in Ids, NEW c \in Ids,
         NEW b \in Ids \cup Interlocks, NEW d \in Ids \cup Interlocks,
         Joined(a, b) = Joined(c, d)
  PROVE  a = c /\ b = d
  <1> DEFINE T == {a[1], b[1], c[1], d[1]}
  <1>1. a = <<a[1]>> /\ b = <<b[1]>> /\ c = <<c[1]>> /\ d = <<d[1]>>
    BY DEF NoColons
  <1>2. ASSUME NEW s, s[1] \in T, s = <<s[1]>>
        PROVE  s \in Seq(T) /\ Len(s) = 1
    <2> HIDE DEF T
    <2>1. <<s[1]>> \in Seq(T) /\ Len(<<s[1]>>) = 1
      BY <1>2
    <2> QED
      BY <1>2, <2>1, Zenon
  <1>3. /\ a \in Seq(T) /\ b \in Seq(T) /\ c \in Seq(T) /\ d \in Seq(T)
        /\ Len(a) = 1 /\ Len(b) = 1 /\ Len(c) = 1 /\ Len(d) = 1
    BY <1>1, <1>2
  <1> HIDE DEF T
  <1>4. /\ Joined(a, b)[1] = a[1] /\ Joined(a, b)[2] = b[1]
        /\ Joined(c, d)[1] = c[1] /\ Joined(c, d)[2] = d[1]
    BY <1>3, JoinedSegments, Zenon DEF Joined
  <1>5. a[1] = c[1] /\ b[1] = d[1]
    BY <1>4
  <1> QED
    BY <1>1, <1>5

(* The two steps of a conflict are known from its key, and the later one   *)
(* from their order.                                                       *)
LEMMA ZoneKeyTells ==
  ASSUME NoColons, NEW p \in Plans, ValidateSteps(p),
         NEW x \in Range(p.steps), NEW y \in Range(p.steps),
         NEW v \in Range(p.steps), NEW w \in Range(p.steps),
         StartsBefore(x, y), StartsBefore(v, w),
         ZoneRisk(x, y).key = ZoneRisk(v, w).key
  PROVE  ZoneRisk(x, y) = ZoneRisk(v, w)
  <1>1. /\ x.id \in Ids /\ y.id \in Ids /\ v.id \in Ids /\ w.id \in Ids
        /\ x \in MotionSteps /\ y \in MotionSteps
        /\ v \in MotionSteps /\ w \in MotionSteps
    BY PlanSteps
  <1>2. (IF TextLess(y.id, x.id)
         THEN Joined(y.id, x.id) ELSE Joined(x.id, y.id))
        = (IF TextLess(w.id, v.id)
           THEN Joined(w.id, v.id) ELSE Joined(v.id, w.id))
    BY DEF ZoneRisk, Risk
  <1>3. \/ x.id = v.id /\ y.id = w.id
        \/ x.id = w.id /\ y.id = v.id
    <2>1. CASE Joined(x.id, y.id) = Joined(v.id, w.id)
      BY <1>1, <2>1, JoinsDiffer
    <2>2. CASE Joined(x.id, y.id) = Joined(w.id, v.id)
      BY <1>1, <2>2, JoinsDiffer
    <2>3. CASE Joined(y.id, x.id) = Joined(v.id, w.id)
      BY <1>1, <2>3, JoinsDiffer
    <2>4. CASE Joined(y.id, x.id) = Joined(w.id, v.id)
      BY <1>1, <2>4, JoinsDiffer
    <2> QED
      BY <1>2, <2>1, <2>2, <2>3, <2>4
  <1>4. CASE x.id = v.id /\ y.id = w.id
    BY <1>4, StepsDiffer
  <1>5. CASE x.id = w.id /\ y.id = v.id
    <2>1. x = w /\ y = v
      BY <1>5, StepsDiffer
    <2>2. x.starts \in Int /\ y.starts \in Int
      BY <1>1, EngineAssumption DEF MotionSteps, Int64
    <2>3. x.id = y.id
      BY <1>1, <2>1, OneIsBefore
    <2>4. x = y
      BY <2>3, StepsDiffer
    <2> QED
      BY <2>1, <2>4
  <1> QED
    BY <1>3, <1>4, <1>5

(* Rule and key make out one risk.                                         *)
LEMMA KeyTells ==
  ASSUME NoColons, NEW p \in Plans, ValidateSteps(p),
         NEW f, NEW g, CanMeet(p, f), CanMeet(p, g),
         f.rule = g.rule, f.key = g.key
  PROVE  f = g
  <1>1. PICK x \in Range(p.steps) :
          \/ f = StepRisk("LOAD_LIMIT", x, x.id)
          \/ f = StepRisk("PERSONNEL_CLEARANCE", x, x.id)
          \/ \E code \in Interlocks :
               f = StepRisk("INTERLOCK_REQUIRED", x, Joined(x.id, code))
          \/ \E y \in Range(p.steps) : StartsBefore(y, x) /\ f = ZoneRisk(y, x)
    BY RiskShape
  <1>2. PICK z \in Range(p.steps) :
          \/ g = StepRisk("LOAD_LIMIT", z, z.id)
          \/ g = StepRisk("PERSONNEL_CLEARANCE", z, z.id)
          \/ \E code \in Interlocks :
               g = StepRisk("INTERLOCK_REQUIRED", z, Joined(z.id, code))
          \/ \E y \in Range(p.steps) : StartsBefore(y, z) /\ g = ZoneRisk(y, z)
    BY RiskShape
  <1>3. x.id \in Ids /\ z.id \in Ids
    BY PlanSteps
  <1>4. CASE f.rule \in {"LOAD_LIMIT", "PERSONNEL_CLEARANCE"}
    BY <1>1, <1>2, <1>4 DEF StepRisk, ZoneRisk, Risk
  <1>5. CASE f.rule = "INTERLOCK_REQUIRED"
    <2>1. PICK c \in Interlocks :
            f = StepRisk("INTERLOCK_REQUIRED", x, Joined(x.id, c))
      BY <1>1, <1>5 DEF StepRisk, ZoneRisk, Risk
    <2>2. PICK d \in Interlocks :
            g = StepRisk("INTERLOCK_REQUIRED", z, Joined(z.id, d))
      <3>1. g.rule = "INTERLOCK_REQUIRED"
        BY <1>5
      <3> QED
        BY <1>2, <3>1 DEF StepRisk, ZoneRisk, Risk
    <2>3. Joined(x.id, c) = Joined(z.id, d)
      BY <2>1, <2>2 DEF StepRisk, Risk
    <2>4. x.id = z.id
      BY <1>3, <2>3, JoinsDiffer
    <2> QED
      BY <2>1, <2>2, <2>3, <2>4 DEF StepRisk
  <1>6. CASE f.rule = "ZONE_CONFLICT"
    <2>1. PICK y \in Range(p.steps) : StartsBefore(y, x) /\ f = ZoneRisk(y, x)
      BY <1>1, <1>6 DEF StepRisk, ZoneRisk, Risk
    <2>2. PICK v \in Range(p.steps) : StartsBefore(v, z) /\ g = ZoneRisk(v, z)
      <3>1. g.rule = "ZONE_CONFLICT"
        BY <1>6
      <3> QED
        BY <1>2, <3>1 DEF StepRisk, ZoneRisk, Risk
    <2> QED
      BY <2>1, <2>2, ZoneKeyTells
  <1> QED
    BY <1>1, <1>4, <1>5, <1>6 DEF StepRisk, ZoneRisk, Risk

(* Any two risks that were met have one order.                             *)
LEMMA OneComesBefore ==
  ASSUME NoColons, NEW p \in Plans, ValidateSteps(p),
         NEW f, NEW g, CanMeet(p, f), CanMeet(p, g), f # g
  PROVE  ComesBefore(p, f, g) \/ ComesBefore(p, g, f)
  <1>1. ASSUME NEW h, CanMeet(p, h)
        PROVE  /\ h.rule \in DOMAIN RulePosition /\ h.key \in Keys
               /\ severityRank(h) \in Int /\ SequenceOf(p, h.at) \in Int
    <2>1. PICK x \in Range(p.steps) :
            \/ h = StepRisk("LOAD_LIMIT", x, x.id)
            \/ h = StepRisk("PERSONNEL_CLEARANCE", x, x.id)
            \/ \E code \in Interlocks :
                 h = StepRisk("INTERLOCK_REQUIRED", x, Joined(x.id, code))
            \/ \E y \in Range(p.steps) : StartsBefore(y, x) /\ h = ZoneRisk(y, x)
      BY <1>1, RiskShape
    <2>2. /\ x.id \in Ids /\ x.sequence \in Int
          /\ \A y \in Range(p.steps) : y.id \in Ids
      BY PlanSteps
    <2>3. h.at = x.id
      BY <2>1 DEF StepRisk, ZoneRisk, Risk
    <2>4. (CHOOSE step \in Range(p.steps) : step.id = x.id) = x
      BY StepsDiffer
    <2>5. SequenceOf(p, h.at) = x.sequence
      BY <2>3, <2>4 DEF SequenceOf
    <2>6. h.key \in Keys
      BY <2>1, <2>2 DEF StepRisk, ZoneRisk, Risk, Keys
    <2>7. h.rule \in DOMAIN RulePosition
      BY <2>1 DEF StepRisk, ZoneRisk, Risk, RulePosition
    <2> QED
      BY <2>2, <2>5, <2>6, <2>7 DEF severityRank
  <1>2. ASSUME NEW r \in DOMAIN RulePosition, NEW t \in DOMAIN RulePosition
        PROVE  /\ RulePosition[r] \in Int /\ RulePosition[t] \in Int
               /\ RulePosition[r] = RulePosition[t] => r = t
    BY DEF RulePosition
  <1>3. \/ PlacedBefore(p, f, g) \/ PlacedBefore(p, g, f)
        \/ SamePlace(p, f, g) /\ SamePlace(p, g, f)
    BY <1>1, <1>2 DEF PlacedBefore, SamePlace
  <1>4. CASE SamePlace(p, f, g) /\ SamePlace(p, g, f)
    <2>1. f.key # g.key
      BY <1>4, KeyTells DEF SamePlace
    <2>2. TextLess(f.key, g.key) \/ TextLess(g.key, f.key)
      BY <1>1, <2>1, EngineAssumption
    <2> QED
      BY <1>4, <2>2 DEF ComesBefore
  <1> QED
    BY <1>3, <1>4 DEF ComesBefore

(* No two risks of an evaluation get one id, while no text contains the    *)
(* colon that joins them.                                                  *)
THEOREM EveryRiskHasItsId ==
  ASSUME NoColons
  PROVE  Spec => []RiskIdsAreDistinct
  <1>1. LoopInv /\ MetInv => RiskIdsAreDistinct
    <2> SUFFICES ASSUME LoopInv, MetInv, NEW f \in found, NEW g \in found,
                        f # g, f.rule = g.rule, f.key = g.key
                 PROVE  FALSE
      BY DEF RiskIdsAreDistinct
    <2>1. /\ plan \in Plans /\ ValidateSteps(plan)
          /\ CanMeet(plan, f) /\ CanMeet(plan, g)
      BY DEF LoopInv, BaseInv, MetInv
    <2> QED
      BY <2>1, KeyTells
  <1> QED
    BY <1>1, MetInvHolds, PTL

(* One plan has one answer, while no text contains a colon: the risks of   *)
(* an answer are all distinct and strictly in order.                       *)
THEOREM OnePlanOneAnswer ==
  ASSUME NoColons
  PROVE  Spec => []AnswerIsDetermined
  <1>1. LoopInv /\ MetInv => AnswerIsDetermined
    <2> SUFFICES ASSUME LoopInv, MetInv, NEW k \in DOMAIN answer,
                        NEW l \in DOMAIN answer, k < l
                 PROVE  ComesBefore(plan, answer[k], answer[l])
      BY DEF AnswerIsDetermined
    <2> DEFINE n == Cardinality(found)
    <2>1. pc = "done"
      BY DEF MetInv
    <2>2. /\ plan \in Plans /\ \A risk \in found : CanMeet(plan, risk)
          /\ IsFiniteSet(found) /\ answer \in OrderedRisks(plan, found)
          /\ found # {} => ValidateSteps(plan)
      BY <2>1 DEF LoopInv, BaseInv, MetInv
    <2>3. n \in Nat
      BY <2>2, FS_CardinalityType
    <2>4. /\ answer \in Surjection(1 .. n, found)
          /\ ~ ComesBefore(plan, answer[l], answer[k])
      BY <2>2 DEF OrderedRisks, Arrangements
    <2>5. answer \in Injection(1 .. n, found)
      <3>1. IsFiniteSet(1 .. n) /\ Cardinality(1 .. n) = n
        BY <2>3, FS_Interval
      <3> QED
        BY <2>4, <3>1, FS_Surjection
    <2>6. /\ k \in 1 .. n /\ l \in 1 .. n
          /\ answer[k] \in found /\ answer[l] \in found
          /\ answer[k] # answer[l]
      BY <2>3, <2>5 DEF Injection, IsInjective
    <2> QED
      BY <2>2, <2>4, <2>6, OneComesBefore
  <1> QED
    BY <1>1, MetInvHolds, PTL

============================================================================

----------------------------- MODULE RuleEngine -----------------------------
(***************************************************************************)
(* Engine.Evaluate of internal/rules/engine.go with ValidateSteps of       *)
(* internal/domain/validation.go: one evaluation of one motion plan.  The  *)
(* plan is validated, every step is checked by itself, the steps are       *)
(* sorted and swept for moves that overlap in a zone, and the risks are    *)
(* sorted.  Offsets are int64, so the end of a step wraps around.          *)
(*                                                                         *)
(* Abstractions.  A text is a sequence of the segments that ':' separates, *)
(* so that joining texts is concatenation; trimming, blank texts, repeated *)
(* interlock codes and the foreign case id, which validation refuses, are  *)
(* left out.  A load is a number that is compared with the capability.     *)
(* The list of risks is a set while it grows: it is sorted before anybody  *)
(* reads it, and each is found once because the sweep meets a pair once.   *)
(* A risk carries the ids its message names, as about.  The plan may be    *)
(* any: the engine does not rely on what ReplacePlan did to it before.     *)
(*                                                                         *)
(* An operator whose comment begins with "Fault" is not part of the model: *)
(* it is a slip one could make in the definition after it, kept here to    *)
(* show that some property notices.                                        *)
(***************************************************************************)
EXTENDS Integers, Sequences, FiniteSets, Functions

CONSTANTS
  Ids,             \* step ids
  DeviceCodes,     \* device codes a plan may name
  Zones,           \* stage zones
  Interlocks,      \* interlock codes
  Capabilities,    \* the devices the engine knows and what each may do
  MaxMotionSteps,  \* 200 in the code
  MaxDurationMS,   \* 24 hours in the code
  Int64Limit,      \* 2^63 in the code
  Plans,           \* the plans that are evaluated
  TextLess(_, _)   \* the order of texts

Int64 == (- Int64Limit) .. (Int64Limit - 1)

MotionSteps ==
  [id : Ids, sequence : Int, device : DeviceCodes, zone : Zones,
   starts : Int64, duration : Int64, load : Int,
   clearance : {"notRequired", "required", "confirmed"},
   interlocks : SUBSET Interlocks]

MotionPlans == [window : Int, steps : Seq(MotionSteps)]

DeviceCapabilities ==
  [maxLoad : Int, interlocks : SUBSET Interlocks, zones : SUBSET Zones]

(* Two texts with a colon between them.                                    *)
Joined(s, t) == s \o t

(* The texts that order steps and risks: an id, or an id joined to another *)
(* id or to an interlock code.                                             *)
Keys == Ids \cup {Joined(id, text) : id \in Ids, text \in Ids \cup Interlocks}

(* A device's interlocks are a slice, and the order of strings is total.   *)
ASSUME EngineAssumption ==
  /\ Int64Limit \in Nat \ {0}
  /\ MaxMotionSteps \in Nat
  /\ MaxDurationMS \in 1 .. (Int64Limit - 1)
  /\ DOMAIN Capabilities \subseteq DeviceCodes
  /\ Capabilities \in [DOMAIN Capabilities -> DeviceCapabilities]
  /\ \A d \in DOMAIN Capabilities : IsFiniteSet(Capabilities[d].interlocks)
  /\ Plans \subseteq MotionPlans
  /\ \A a, b \in Keys : a # b => (TextLess(a, b) <=> ~ TextLess(b, a))

----------------------------------------------------------------------------
(* Validation.                                                             *)

Wrapped(n) == ((n + Int64Limit) % (2 * Int64Limit)) - Int64Limit

(* Fault: the end is a millisecond early.                                  *)
LastMomentMS(step) == Wrapped(step.starts + step.duration - 1)

EndsAtOffsetMS(step) == Wrapped(step.starts + step.duration)

ValidStep(step, window) ==
  /\ step.sequence > 0
  /\ step.starts >= 0
  /\ step.duration \in 1 .. MaxDurationMS
  /\ EndsAtOffsetMS(step) <= window
  /\ step.load >= 0

ValidateSteps(p) ==
  /\ Len(p.steps) \in 1 .. MaxMotionSteps
  /\ \A k \in DOMAIN p.steps : ValidStep(p.steps[k], p.window)
  /\ \A k, l \in DOMAIN p.steps :
        k # l => /\ p.steps[k].id # p.steps[l].id
                 /\ p.steps[k].sequence # p.steps[l].sequence

----------------------------------------------------------------------------
(* The rules.                                                              *)

Risk(rule, key, at, about) ==
  [rule |-> rule, key |-> key, at |-> at, about |-> about]

StepRisk(rule, step, key) == Risk(rule, key, step.id, {step.id})

StepRisks(step) ==
  LET capability == Capabilities[step.device]
  IN  (IF step.load > capability.maxLoad
       THEN {StepRisk("LOAD_LIMIT", step, step.id)} ELSE {})
      \cup
      (IF step.clearance = "required"
       THEN {StepRisk("PERSONNEL_CLEARANCE", step, step.id)} ELSE {})
      \cup
      {StepRisk("INTERLOCK_REQUIRED", step, Joined(step.id, code)) :
         code \in capability.interlocks \ step.interlocks}

SupportsZone(step) ==
  /\ step.device \in DOMAIN Capabilities
  /\ step.zone \in Capabilities[step.device].zones

(* Fault: the key names only the step at fault.                            *)
ZoneRiskOfLater(earlier, later) ==
  Risk("ZONE_CONFLICT", later.id, later.id, {earlier.id, later.id})

(* The key names both steps, the lesser id first; the later one is at      *)
(* fault.                                                                  *)
ZoneRisk(earlier, later) ==
  Risk("ZONE_CONFLICT",
       IF TextLess(later.id, earlier.id) THEN Joined(later.id, earlier.id)
                                         ELSE Joined(earlier.id, later.id),
       later.id, {earlier.id, later.id})

(* sort.Slice is not stable: any arrangement that the order allows may     *)
(* result.                                                                 *)
Arrangements(S) == Surjection(1 .. Cardinality(S), S)

StartsBefore(a, b) ==
  \/ a.starts < b.starts
  \/ a.starts = b.starts /\ TextLess(a.id, b.id)

OrderedSteps(p) ==
  {o \in Arrangements(Range(p.steps)) :
     \A k, l \in DOMAIN o : k < l => ~ StartsBefore(o[l], o[k])}

severityRank(risk) ==
  IF risk.rule \in {"LOAD_LIMIT", "ZONE_CONFLICT"} THEN 0 ELSE 1

(* The alphabetical order of the rule codes.                               *)
RulePosition ==
  [INTERLOCK_REQUIRED |-> 1, LOAD_LIMIT |-> 2, PERSONNEL_CLEARANCE |-> 3,
   ZONE_CONFLICT |-> 4]

SequenceOf(p, id) ==
  (CHOOSE step \in Range(p.steps) : step.id = id).sequence

(* Severity, then the step's place in the plan, then the rule.             *)
SamePlace(p, f, g) ==
  /\ severityRank(f) = severityRank(g)
  /\ SequenceOf(p, f.at) = SequenceOf(p, g.at)
  /\ f.rule = g.rule

PlacedBefore(p, f, g) ==
  \/ severityRank(f) < severityRank(g)
  \/ /\ severityRank(f) = severityRank(g)
     /\ \/ SequenceOf(p, f.at) < SequenceOf(p, g.at)
        \/ /\ SequenceOf(p, f.at) = SequenceOf(p, g.at)
           /\ RulePosition[f.rule] < RulePosition[g.rule]

(* Fault: risks of one rule at one step are not ordered by their key.      *)
ComesBeforeByPlace(p, f, g) == PlacedBefore(p, f, g)

ComesBefore(p, f, g) ==
  \/ PlacedBefore(p, f, g)
  \/ SamePlace(p, f, g) /\ TextLess(f.key, g.key)

OrderedRisks(p, risks) ==
  {o \in Arrangements(risks) :
     \A k, l \in DOMAIN o : k < l => ~ ComesBefore(p, o[l], o[k])}

----------------------------------------------------------------------------
(* One evaluation.                                                         *)

VARIABLES
  plan,     \* the case that is evaluated
  pc,       \* where the evaluation is
  next,     \* the step the rules look at
  ordered,  \* the steps in the order of the sweep
  left,     \* the step the sweep compares ...
  right,    \* ... with this one
  found,    \* the risks so far
  answer    \* the sorted list that is returned

vars == <<plan, pc, next, ordered, left, right, found, answer>>

Init ==
  /\ plan \in Plans
  /\ pc = "validate"
  /\ next = 1
  /\ ordered = <<>>
  /\ left = 1
  /\ right = 2
  /\ found = {}
  /\ answer = <<>>

Fail ==
  /\ pc' = "failed"
  /\ UNCHANGED <<plan, next, ordered, left, right, found, answer>>

(* The context is looked at before the validation and before every step.   *)
Cancelled ==
  /\ pc = "validate" \/ (pc = "rules" /\ next <= Len(plan.steps))
  /\ Fail

RefusePlan == pc = "validate" /\ ~ ValidateSteps(plan) /\ Fail

AcceptPlan ==
  /\ pc = "validate"
  /\ ValidateSteps(plan)
  /\ pc' = "rules"
  /\ UNCHANGED <<plan, next, ordered, left, right, found, answer>>

RefuseStep ==
  /\ pc = "rules"
  /\ next <= Len(plan.steps)
  /\ ~ SupportsZone(plan.steps[next])
  /\ Fail

(* Fault: a step the engine knows nothing about is passed over.            *)
CheckKnownStep ==
  /\ pc = "rules"
  /\ next <= Len(plan.steps)
  /\ next' = next + 1
  /\ found' = found \cup (IF SupportsZone(plan.steps[next])
                          THEN StepRisks(plan.steps[next]) ELSE {})
  /\ UNCHANGED <<plan, pc, ordered, left, right, answer>>

CheckStep ==
  /\ pc = "rules"
  /\ next <= Len(plan.steps)
  /\ SupportsZone(plan.steps[next])
  /\ next' = next + 1
  /\ found' = found \cup StepRisks(plan.steps[next])
  /\ UNCHANGED <<plan, pc, ordered, left, right, answer>>

OrderSteps ==
  /\ pc = "rules"
  /\ next > Len(plan.steps)
  /\ ordered' \in OrderedSteps(plan)
  /\ pc' = "sweep"
  /\ UNCHANGED <<plan, next, left, right, found, answer>>

(* Fault: only neighbours in the order are compared.                       *)
PastNeighbour == right <= Len(ordered) => right > left + 1

(* The inner loop ends with the list or at the first step that starts when *)
(* the left one is over.                                                   *)
PastEnd ==
  right <= Len(ordered) =>
    ordered[right].starts >= EndsAtOffsetMS(ordered[left])

NextLeft ==
  /\ pc = "sweep"
  /\ left <= Len(ordered)
  /\ PastEnd
  /\ left' = left + 1
  /\ right' = left + 2
  /\ UNCHANGED <<plan, pc, next, ordered, found, answer>>

(* Fault: the inner loop forgets to move on over a pair that is harmless.  *)
ComparePairAgain ==
  LET a == ordered[left]
      b == ordered[right]
  IN  /\ pc = "sweep"
      /\ left <= Len(ordered)
      /\ ~ PastEnd
      /\ IF a.zone # b.zone \/ a.device = b.device
         THEN UNCHANGED <<right, found>>
         ELSE right' = right + 1 /\ found' = found \cup {ZoneRisk(a, b)}
      /\ UNCHANGED <<plan, pc, next, ordered, left, answer>>

ComparePair ==
  LET a == ordered[left]
      b == ordered[right]
  IN  /\ pc = "sweep"
      /\ left <= Len(ordered)
      /\ ~ PastEnd
      /\ right' = right + 1
      /\ found' = IF a.zone # b.zone \/ a.device = b.device
                  THEN found ELSE found \cup {ZoneRisk(a, b)}
      /\ UNCHANGED <<plan, pc, next, ordered, left, answer>>

OrderRisks ==
  /\ pc = "sweep"
  /\ left > Len(ordered)
  /\ answer' \in OrderedRisks(plan, found)
  /\ pc' = "done"
  /\ UNCHANGED <<plan, next, ordered, left, right, found>>

Next ==
  \/ Cancelled
  \/ RefusePlan
  \/ AcceptPlan
  \/ RefuseStep
  \/ CheckStep
  \/ OrderSteps
  \/ NextLeft
  \/ ComparePair
  \/ OrderRisks

Spec == Init /\ [][Next]_vars

(* Evaluate is a plain loop on one goroutine: it takes its next step.      *)
FairSpec == Spec /\ WF_vars(Next)

----------------------------------------------------------------------------
(* Properties.                                                             *)

(* The types.                                                              *)
TypeOK ==
  /\ plan \in MotionPlans
  /\ pc \in {"validate", "rules", "sweep", "done", "failed"}
  /\ next \in 1 .. (Len(plan.steps) + 1)
  /\ ordered \in Seq(Range(plan.steps))
  /\ left \in 1 .. (Len(ordered) + 1)
  /\ right \in Nat
  /\ Range(answer) \subseteq found

(* Two machines collide in a zone when there is a millisecond at which     *)
(* both move; said of the true times, not of the int64 ones.               *)
Moves(step, t) == step.starts <= t /\ t < step.starts + step.duration

Collide(a, b) ==
  /\ a.zone = b.zone
  /\ a.device # b.device
  /\ \E t \in a.starts .. (a.starts + a.duration) : Moves(a, t) /\ Moves(b, t)

Collisions(p) ==
  {ZoneRisk(ab[1], ab[2]) :
     ab \in {xy \in Range(p.steps) \X Range(p.steps) :
               StartsBefore(xy[1], xy[2]) /\ Collide(xy[1], xy[2])}}

AllStepRisks(p) == UNION {StepRisks(step) : step \in Range(p.steps)}

(* The catalogue's promise (catalog.go): an evaluation that ends reports   *)
(* every step that breaks a rule and every two machines that move in one   *)
(* zone at one time, and nothing else, although the sweep stops looking at *)
(* the first step that starts too late.                                    *)
FindsEveryRisk ==
  pc = "done" => Range(answer) = AllStepRisks(plan) \cup Collisions(plan)

(* An unknown device or a zone without rules is never taken for safe.      *)
UnknownIsNotSafe ==
  pc = "done" => \A step \in Range(plan.steps) : SupportsZone(step)

(* The same plan gets the same list, though the sort is not stable: every  *)
(* two risks of the answer have one order.                                 *)
AnswerIsDetermined ==
  \A k, l \in DOMAIN answer : k < l => ComesBefore(plan, answer[k], answer[l])

(* No two risks of an evaluation share the rule and key their id is made   *)
(* from, so that ApplyEvaluation accepts the list.                         *)
RiskIdsAreDistinct ==
  \A f, g \in found : f # g => <<f.rule, f.key>> # <<g.rule, g.key>>

(* A plan that passed validation does not move anything after the          *)
(* performance.                                                            *)
StepsEndInTime ==
  pc \notin {"validate", "failed"} =>
    \A step \in Range(plan.steps) :
      step.starts + step.duration <= plan.window

(* Every evaluation ends.                                                  *)
EvaluationEnds == <>(pc \in {"done", "failed"})

============================================================================

----------------------- MODULE ClearanceServiceProofs -----------------------
(***************************************************************************)
(* The safety properties of ClearanceService for any number of workers and *)
(* cases, and that it implements SerialClearance.                          *)
(*                                                                         *)
(* The argument.  What a worker holds was computed from the snapshot it    *)
(* read.  The snapshot may have been replaced since, but every save        *)
(* increases the revision; so when Save finds the revision the worker      *)
(* started from, nothing was saved in between, and the case in the         *)
(* worker's hands is what the command makes of the snapshot that is stored *)
(* at this moment (InHand).  Then the save is one serial step.             *)
(***************************************************************************)
EXTENDS ClearanceService, ClearanceLemmas

(* What a worker holds was computed from the snapshot that is stored, or a *)
(* newer one was saved since.                                              *)
InHand(h) ==
  /\ h.step = "create" => h.case = CreatedCase(h.key)
  /\ h.step = "put" =>
       /\ store[h.key] # None
       /\ CaseInv(h.case) /\ Evaluated(h.case) /\ h.case.pendingEvents = <<>>
       /\ h.case.revision <= store[h.key].case.revision
       /\ h.case.revision = store[h.key].case.revision =>
            h.case = store[h.key].case /\ Prepared(h.case, h.request)
  /\ h.step = "save" =>
       /\ store[h.key] # None
       /\ h.base <= store[h.key].case.revision
       /\ h.base = store[h.key].case.revision =>
            \E r \in Requests :
              /\ Prepared(store[h.key].case, r)
              /\ h.case \in Results(store[h.key].case, r)

ServiceInv ==
  /\ TypeOK
  /\ \A key \in Stored : SnapshotInv(store[key])
  /\ \A w \in Workers : InHand(handler[w])

----------------------------------------------------------------------------
(* Steps that leave the store alone, and steps of the store.               *)

LEMMA NoneIsNoSnapshot == None \notin Snapshots
  BY CommandsAssumption DEF CommandsAssumption

LEMMA IdleInHand == InHand(Idle)
  BY DEF InHand, Idle

LEMMA StoredSnapshot ==
  ASSUME ServiceInv, NEW key \in CaseKeys, store[key] # None
  PROVE  /\ SnapshotInv(store[key]) /\ store[key] \in Snapshots
         /\ store[key].case \in Cases /\ CaseInv(store[key].case)
         /\ Evaluated(store[key].case)
         /\ store[key].case.pendingEvents = <<>>
         /\ store[key].case.revision \in Nat
  <1>1. SnapshotInv(store[key])
    BY DEF ServiceInv, Stored
  <1> QED
    BY <1>1 DEF SnapshotInv, Snapshots, Cases

LEMMA WorkerTypes ==
  ASSUME TypeOK, NEW w \in Workers
  PROVE  /\ handler[w].step = "idle" => handler[w] = Idle
         /\ handler[w].step = "create" => handler[w] \in CreateSteps
         /\ handler[w].step = "put" => handler[w] \in EvidenceSteps
         /\ handler[w].step = "save" => handler[w] \in SaveSteps
  BY DEF TypeOK, Idle, CreateSteps, EvidenceSteps, SaveSteps

(* A worker takes something up or puts it down; the store stays.           *)
LEMMA HandlerStep ==
  ASSUME ServiceInv, NEW w \in Workers,
         NEW h \in {Idle} \cup CreateSteps \cup EvidenceSteps \cup SaveSteps,
         InHand(h), store' = store, evidence' \subseteq Contents, up' \in BOOLEAN,
         handler' = [handler EXCEPT ![w] = h]
  PROVE  ServiceInv'
  <1>1. /\ TypeOK
        /\ \A key \in Stored : SnapshotInv(store[key])
        /\ \A v \in Workers : InHand(handler[v])
    BY DEF ServiceInv
  <1>2. TypeOK'
    BY <1>1 DEF TypeOK
  <1>3. \A key \in Stored' : SnapshotInv(store'[key])
    BY <1>1 DEF Stored
  <1>4. ASSUME NEW v \in Workers PROVE InHand(handler[v])'
    <2>1. handler'[v] = IF v = w THEN h ELSE handler[v]
      BY <1>1 DEF TypeOK
    <2>2. InHand(handler'[v])
      BY <1>1, <2>1
    <2> QED
      BY <2>2 DEF InHand
  <1> QED
    BY <1>2, <1>3, <1>4 DEF ServiceInv

(* A snapshot is written by a worker that is then done.                    *)
LEMMA StoreStep ==
  ASSUME ServiceInv, NEW w \in Workers, NEW key \in CaseKeys, NEW s,
         SnapshotInv(s),
         store[key] # None => s.case.revision > store[key].case.revision,
         store' = [store EXCEPT ![key] = s],
         evidence' = evidence, up' = up, Finish(w)
  PROVE  ServiceInv'
  <1>1. /\ TypeOK
        /\ \A k \in Stored : SnapshotInv(store[k])
        /\ \A v \in Workers : InHand(handler[v])
    BY DEF ServiceInv
  <1>2. s \in Snapshots /\ s # None /\ s.case.revision \in Nat
    BY NoneIsNoSnapshot DEF SnapshotInv, Snapshots, Cases
  <1>3. /\ store \in [CaseKeys -> Snapshots \cup {None}]
        /\ store'[key] = s
        /\ \A k \in CaseKeys \ {key} : store'[k] = store[k]
    BY <1>1 DEF TypeOK
  <1>4. handler' = [handler EXCEPT ![w] = Idle]
    BY DEF Finish
  <1>5. TypeOK'
    BY <1>1, <1>2, <1>4 DEF TypeOK
  <1>6. \A k \in Stored' : SnapshotInv(store'[k])
    BY <1>1, <1>3 DEF Stored
  <1>7. \A k \in CaseKeys : store[k] # None =>
          /\ store'[k] # None
          /\ store[k].case.revision \in Nat /\ store'[k].case.revision \in Nat
          /\ \/ store'[k] = store[k]
             \/ store[k].case.revision < store'[k].case.revision
    BY <1>2, <1>3, StoredSnapshot
  <1>8. ASSUME NEW v \in Workers PROVE InHand(handler[v])'
    <2>1. CASE v = w
      <3>1. handler'[v] = Idle
        BY <1>1, <1>4, <2>1 DEF TypeOK
      <3> QED
        BY <3>1 DEF InHand, Idle
    <2>2. CASE v # w
      <3>1. handler'[v] = handler[v] /\ InHand(handler[v])
        BY <1>1, <1>4, <2>2 DEF TypeOK
      <3> DEFINE h == handler[v]
      <3>2. h.step = "create" => h \in CreateSteps
        BY <1>1, WorkerTypes
      <3>3. h.step = "put" => h.key \in CaseKeys /\ h.case.revision \in Nat
        BY <1>1, WorkerTypes DEF EvidenceSteps, Cases
      <3>4. h.step = "save" => h.key \in CaseKeys /\ h.base \in Nat
        BY <1>1, WorkerTypes DEF SaveSteps
      <3> HIDE DEF h
      <3>5. InHand(h)
        BY <3>1 DEF h
      <3>6. h.step = "put" =>
              /\ store'[h.key] # None
              /\ CaseInv(h.case) /\ Evaluated(h.case) /\ h.case.pendingEvents = <<>>
              /\ h.case.revision <= store'[h.key].case.revision
              /\ h.case.revision = store'[h.key].case.revision =>
                   h.case = store'[h.key].case /\ Prepared(h.case, h.request)
        BY <1>7, <3>3, <3>5 DEF InHand
      <3>7. h.step = "save" =>
              /\ store'[h.key] # None
              /\ h.base <= store'[h.key].case.revision
              /\ h.base = store'[h.key].case.revision =>
                   \E r \in Requests :
                     /\ Prepared(store'[h.key].case, r)
                     /\ h.case \in Results(store'[h.key].case, r)
        BY <1>7, <3>4, <3>5 DEF InHand
      <3>8. h.step = "create" => h.case = CreatedCase(h.key)
        BY <3>5 DEF InHand
      <3>9. handler'[v] = h
        BY <3>1 DEF h
      <3> QED
        BY <3>6, <3>7, <3>8, <3>9 DEF InHand
    <2> QED
      BY <2>1, <2>2
  <1> QED
    BY <1>5, <1>6, <1>8 DEF ServiceInv

----------------------------------------------------------------------------
(* The actions.                                                            *)

LEMMA BeginCreateCaseInv ==
  ASSUME ServiceInv, NEW w \in Workers, NEW key \in CaseKeys, BeginCreateCase(w, key)
  PROVE  ServiceInv'
  <1> DEFINE h == [step |-> "create", key |-> key, case |-> CreatedCase(key)]
  <1>1. CreatedCase(key) \in Cases
    BY CreatedCaseFields
  <1>2. h \in CreateSteps
    BY <1>1 DEF CreateSteps
  <1>3. InHand(h)
    BY DEF InHand
  <1>4. /\ store' = store /\ evidence' = evidence /\ up' = up
        /\ handler' = [handler EXCEPT ![w] = h]
    BY DEF BeginCreateCase
  <1>5. evidence \subseteq Contents /\ up \in BOOLEAN
    BY DEF ServiceInv, TypeOK
  <1> HIDE DEF h
  <1> QED
    BY <1>2, <1>3, <1>4, <1>5, HandlerStep

LEMMA BeginInv ==
  ASSUME ServiceInv, NEW w \in Workers, NEW key \in Stored, NEW r \in Requests,
         NEW results, results \subseteq Results(store[key].case, r),
         Begin(w, key, r, results)
  PROVE  ServiceInv'
  <1>1. key \in CaseKeys /\ store[key] # None
    BY DEF Stored
  <1>2. PICK c \in results :
          handler' = [handler EXCEPT ![w] =
                        [step |-> "save", key |-> key, case |-> c,
                         base |-> store[key].case.revision]]
    BY DEF Begin
  <1> DEFINE h == [step |-> "save", key |-> key, case |-> c,
                   base |-> store[key].case.revision]
  <1>3. Applied(store[key].case, c, r)
    BY <1>1, <1>2, StoredSnapshot, ResultsApplied
  <1>4. h \in SaveSteps
    BY <1>1, <1>3, StoredSnapshot DEF SaveSteps, Applied
  <1>5. store[key].case.revision \in Nat /\ Prepared(store[key].case, r)
    BY <1>1, StoredSnapshot DEF Begin
  <1>6. InHand(h)
    BY <1>1, <1>2, <1>5 DEF InHand
  <1>7. store' = store /\ evidence' = evidence /\ up' = up
    BY DEF Begin
  <1>8. evidence \subseteq Contents /\ up \in BOOLEAN
    BY DEF ServiceInv, TypeOK
  <1>9. handler' = [handler EXCEPT ![w] = h]
    BY <1>2
  <1> HIDE DEF h
  <1> QED
    BY <1>4, <1>6, <1>7, <1>8, <1>9, HandlerStep

LEMMA BeginSubmitEvidenceInv ==
  ASSUME ServiceInv, NEW w \in Workers, NEW key \in Stored, NEW r \in Requests,
         NEW f \in Findings, NEW content \in Contents, NEW note \in BOOLEAN,
         BeginSubmitEvidence(w, key, r, f, content, note)
  PROVE  ServiceInv'
  <1> DEFINE h == [step |-> "put", key |-> key, case |-> store[key].case,
                   request |-> r, finding |-> f, content |-> content,
                   note |-> note]
  <1>1. key \in CaseKeys /\ store[key] # None
    BY DEF Stored
  <1>2. /\ store[key].case \in Cases /\ CaseInv(store[key].case)
        /\ Evaluated(store[key].case) /\ store[key].case.pendingEvents = <<>>
        /\ store[key].case.revision \in Nat /\ Prepared(store[key].case, r)
    BY <1>1, StoredSnapshot DEF BeginSubmitEvidence
  <1>3. h \in EvidenceSteps
    BY <1>1, <1>2 DEF EvidenceSteps
  <1>4. InHand(h)
    BY <1>1, <1>2 DEF InHand
  <1>5. /\ store' = store /\ evidence' = evidence /\ up' = up
        /\ handler' = [handler EXCEPT ![w] = h]
    BY DEF BeginSubmitEvidence
  <1>6. evidence \subseteq Contents /\ up \in BOOLEAN
    BY DEF ServiceInv, TypeOK
  <1> HIDE DEF h
  <1> QED
    BY <1>3, <1>4, <1>5, <1>6, HandlerStep

LEMMA ChangesAreResults ==
  ASSUME NEW c, NEW r \in Requests
  PROVE  /\ \A plan \in Plans : ReplacePlanResults(c, r, plan) \subseteq Results(c, r)
         /\ EvaluateResults(c, r) \subseteq Results(c, r)
         /\ \A f \in Findings, content \in Contents, note \in BOOLEAN :
               EvidenceResults(c, r, f, content, note) \subseteq Results(c, r)
         /\ RequestReviewResults(c, r) \subseteq Results(c, r)
         /\ \A f \in Findings, verdict \in Verdicts, note \in BOOLEAN, who \in Names :
               ReviewFindingResults(c, r, f, verdict, note, who) \subseteq Results(c, r)
         /\ \A who \in Names : SignResults(c, r, who) \subseteq Results(c, r)
  BY DEF Results

LEMMA BeginChangeInv ==
  ASSUME ServiceInv, NEW w \in Workers, BeginChange(w)
  PROVE  ServiceInv'
  <1> PICK key \in Stored, r \in Requests :
        \/ \E plan \in Plans : BeginReplacePlan(w, key, r, plan)
        \/ BeginEvaluate(w, key, r)
        \/ \E f \in Findings, content \in Contents, note \in BOOLEAN :
              BeginSubmitEvidence(w, key, r, f, content, note)
        \/ BeginRequestReview(w, key, r)
        \/ \E f \in Findings, verdict \in Verdicts, note \in BOOLEAN, who \in Names :
              BeginReviewFinding(w, key, r, f, verdict, note, who)
        \/ \E who \in Names : BeginSign(w, key, r, who)
    BY DEF BeginChange
  <1>1. CASE \E plan \in Plans : BeginReplacePlan(w, key, r, plan)
    BY <1>1, BeginInv, ChangesAreResults DEF BeginReplacePlan
  <1>2. CASE BeginEvaluate(w, key, r)
    BY <1>2, BeginInv, ChangesAreResults DEF BeginEvaluate
  <1>3. CASE \E f \in Findings, content \in Contents, note \in BOOLEAN :
               BeginSubmitEvidence(w, key, r, f, content, note)
    BY <1>3, BeginSubmitEvidenceInv
  <1>4. CASE BeginRequestReview(w, key, r)
    BY <1>4, BeginInv, ChangesAreResults DEF BeginRequestReview
  <1>5. CASE \E f \in Findings, verdict \in Verdicts, note \in BOOLEAN, who \in Names :
               BeginReviewFinding(w, key, r, f, verdict, note, who)
    <2>1. PICK f \in Findings, verdict \in Verdicts, note \in BOOLEAN, who \in Names :
            BeginReviewFinding(w, key, r, f, verdict, note, who)
      BY <1>5
    <2>2. ReviewFindingResults(store[key].case, r, f, verdict, note, who)
            \subseteq Results(store[key].case, r)
      BY ChangesAreResults
    <2> QED
      BY <2>1, <2>2, BeginInv DEF BeginReviewFinding
  <1>6. CASE \E who \in Names : BeginSign(w, key, r, who)
    BY <1>6, BeginInv, ChangesAreResults DEF BeginSign
  <1> QED
    BY <1>1, <1>2, <1>3, <1>4, <1>5, <1>6

(* A create that takes effect is a serial creation, any other changes      *)
(* nothing.                                                                *)
LEMMA CreateStep ==
  ASSUME ServiceInv, NEW w \in Workers, Create(w)
  PROVE  /\ handler[w].key \in CaseKeys
         /\ \/ UNCHANGED store
            \/ /\ store[handler[w].key] = None
               /\ store' = [store EXCEPT ![handler[w].key] =
                              Saved(<<>>, CreatedCase(handler[w].key))]
  <1>1. handler[w].step = "create"
    BY DEF Create
  <1>2. handler[w] \in CreateSteps
    BY <1>1, WorkerTypes DEF ServiceInv
  <1>3. handler[w].case = CreatedCase(handler[w].key)
    BY <1>1 DEF ServiceInv, InHand
  <1> QED
    BY <1>2, <1>3 DEF Create, CreateSteps

LEMMA FinishInv ==
  ASSUME ServiceInv, NEW w \in Workers, Finish(w), store' = store,
         evidence' \subseteq Contents, up' = up
  PROVE  ServiceInv'
  BY HandlerStep, IdleInHand DEF Finish, ServiceInv, TypeOK

LEMMA CreateInv ==
  ASSUME ServiceInv, NEW w \in Workers, Create(w)
  PROVE  ServiceInv'
  <1> DEFINE key == handler[w].key
             s == Saved(<<>>, CreatedCase(key))
  <1>1. key \in CaseKeys
    BY CreateStep
  <1>2. evidence' = evidence /\ up' = up /\ Finish(w) /\ evidence \subseteq Contents
    BY DEF Create, ServiceInv, TypeOK
  <1>3. CASE UNCHANGED store
    BY <1>2, <1>3, FinishInv
  <1>4. CASE store[key] = None /\ store' = [store EXCEPT ![key] = s]
    <2>1. SnapshotInv(s)
      BY <1>1, CreatedSnapshot
    <2> HIDE DEF key, s
    <2> QED
      BY <1>1, <1>2, <1>4, <2>1, StoreStep
  <1> QED
    BY <1>3, <1>4, CreateStep

LEMMA PutEvidenceInv ==
  ASSUME ServiceInv, NEW w \in Workers, PutEvidence(w)
  PROVE  ServiceInv'
  <1> DEFINE h == handler[w]
  <1>1. h.step = "put"
    BY DEF PutEvidence
  <1>2. /\ h.key \in CaseKeys /\ h.case \in Cases /\ h.request \in Requests
        /\ h.finding \in Findings /\ h.content \in Contents /\ h.note \in BOOLEAN
    BY <1>1, WorkerTypes DEF ServiceInv, EvidenceSteps
  <1>3. InHand(h)
    BY DEF ServiceInv
  <1>4. store' = store /\ up' = up /\ up \in BOOLEAN /\ evidence' \subseteq Contents
    BY <1>2 DEF PutEvidence, ServiceInv, TypeOK
  <1>5. CASE Finish(w)
    BY <1>4, <1>5, FinishInv
  <1>6. CASE \E c \in EvidenceResults(h.case, h.request, h.finding, h.content, h.note) :
               handler' = [handler EXCEPT ![w] =
                             [step |-> "save", key |-> h.key, case |-> c,
                              base |-> h.case.revision]]
    <2>1. PICK c \in EvidenceResults(h.case, h.request, h.finding, h.content, h.note) :
            handler' = [handler EXCEPT ![w] =
                          [step |-> "save", key |-> h.key, case |-> c,
                           base |-> h.case.revision]]
      BY <1>6
    <2> DEFINE g == [step |-> "save", key |-> h.key, case |-> c,
                     base |-> h.case.revision]
    <2>2. CaseInv(h.case) /\ Evaluated(h.case) /\ h.case.pendingEvents = <<>>
      BY <1>1, <1>3 DEF InHand
    <2>3. c \in Results(h.case, h.request)
      BY <1>2, ChangesAreResults
    <2>4. Applied(h.case, c, h.request)
      BY <1>2, <2>2, <2>3, ResultsApplied
    <2>5. g \in SaveSteps
      BY <1>2, <2>4 DEF SaveSteps, Applied, Cases
    <2>6. InHand(g)
      BY <1>1, <1>2, <1>3, <2>3 DEF InHand
    <2>7. handler' = [handler EXCEPT ![w] = g]
      BY <2>1
    <2> HIDE DEF g, h
    <2> QED
      BY <1>4, <2>5, <2>6, <2>7, HandlerStep
  <1> QED
    BY <1>5, <1>6 DEF PutEvidence

(* A save that takes effect is a serial command, any other changes         *)
(* nothing.                                                                *)
LEMMA SaveStep ==
  ASSUME ServiceInv, NEW w \in Workers, Save(w)
  PROVE  \/ UNCHANGED store
         \/ \E key \in Stored, r \in Requests :
              /\ Prepared(store[key].case, r)
              /\ \E c \in Results(store[key].case, r) :
                   store' = [store EXCEPT ![key] = Saved(store[key].audit, c)]
  <1>1. handler[w].step = "save"
    BY DEF Save
  <1>2. handler[w].key \in CaseKeys
    BY <1>1, WorkerTypes DEF ServiceInv, SaveSteps
  <1>3. InHand(handler[w])
    BY DEF ServiceInv
  <1> QED
    BY <1>1, <1>2, <1>3 DEF Save, InHand, Stored

LEMMA SaveInv ==
  ASSUME ServiceInv, NEW w \in Workers, Save(w)
  PROVE  ServiceInv'
  <1>1. evidence' = evidence /\ up' = up /\ Finish(w) /\ evidence \subseteq Contents
    BY DEF Save, ServiceInv, TypeOK
  <1>2. CASE UNCHANGED store
    BY <1>1, <1>2, FinishInv
  <1>3. CASE \E key \in Stored, r \in Requests :
               /\ Prepared(store[key].case, r)
               /\ \E c \in Results(store[key].case, r) :
                    store' = [store EXCEPT ![key] = Saved(store[key].audit, c)]
    <2>1. PICK key \in Stored, r \in Requests :
            /\ Prepared(store[key].case, r)
            /\ \E c \in Results(store[key].case, r) :
                 store' = [store EXCEPT ![key] = Saved(store[key].audit, c)]
      BY <1>3
    <2>2. PICK c \in Results(store[key].case, r) :
            store' = [store EXCEPT ![key] = Saved(store[key].audit, c)]
      BY <2>1
    <2>3. key \in CaseKeys /\ store[key] # None
      BY DEF Stored
    <2> DEFINE s == Saved(store[key].audit, c)
    <2>4. Applied(store[key].case, c, r)
      BY <2>2, <2>3, StoredSnapshot, ResultsApplied
    <2>5. SnapshotInv(s)
      BY <2>1, <2>3, <2>4, StoredSnapshot, SavedSnapshot DEF Prepared
    <2>6. s.case.revision = c.revision
      BY <2>4, CloneCaseFields DEF Saved, Applied
    <2>7. s.case.revision > store[key].case.revision
      BY <2>3, <2>4, <2>6, StoredSnapshot DEF Applied
    <2>8. store' = [store EXCEPT ![key] = s]
      BY <2>2
    <2> HIDE DEF s
    <2> QED
      BY <1>1, <2>3, <2>5, <2>7, <2>8, StoreStep
  <1> QED
    BY <1>2, <1>3, SaveStep

LEMMA CrashInv ==
  ASSUME ServiceInv, Crash
  PROVE  ServiceInv'
  <1>1. TypeOK'
    BY DEF ServiceInv, TypeOK, Crash
  <1>2. \A w \in Workers : handler'[w] = Idle
    BY DEF Crash
  <1>3. \A w \in Workers : InHand(handler[w])'
    BY <1>2 DEF InHand, Idle
  <1> QED
    BY <1>1, <1>3 DEF ServiceInv, Crash, Stored

LEMMA Invariance == Spec => []ServiceInv
  <1>1. Init => ServiceInv
    BY IdleInHand DEF Init, ServiceInv, TypeOK, Stored
  <1>2. ServiceInv /\ [Next]_vars => ServiceInv'
    <2> SUFFICES ASSUME ServiceInv, [Next]_vars PROVE ServiceInv'
      OBVIOUS
    <2>1. CASE \E w \in Workers, key \in CaseKeys : BeginCreateCase(w, key)
      BY <2>1, BeginCreateCaseInv
    <2>2. CASE \E w \in Workers : BeginChange(w)
      BY <2>2, BeginChangeInv
    <2>3. CASE \E w \in Workers : Create(w)
      BY <2>3, CreateInv
    <2>4. CASE \E w \in Workers : PutEvidence(w)
      BY <2>4, PutEvidenceInv
    <2>5. CASE \E w \in Workers : Save(w)
      BY <2>5, SaveInv
    <2>6. CASE \E w \in Workers : Abort(w)
      BY <2>6, FinishInv DEF Abort, ServiceInv, TypeOK
    <2>7. CASE Crash
      BY <2>7, CrashInv
    <2>8. CASE Restart
      BY <2>8 DEF Restart, ServiceInv, TypeOK, Stored, InHand
    <2>9. CASE UNCHANGED vars
      BY <2>9 DEF vars, ServiceInv, TypeOK, Stored, InHand
    <2> QED
      BY <2>1, <2>2, <2>3, <2>4, <2>5, <2>6, <2>7, <2>8, <2>9 DEF Next, Continue
  <1> QED
    BY <1>1, <1>2, PTL DEF Spec

----------------------------------------------------------------------------
(* The theorems.                                                           *)

(* The files and what the workers hold keep their types.                   *)
THEOREM TypeCorrect == Spec => []TypeOK
  <1>1. ServiceInv => TypeOK
    BY DEF ServiceInv
  <1> QED
    BY <1>1, Invariance, PTL

(* Every step of the store is a creation, a command on the snapshot that   *)
(* is stored at that moment, or nothing.                                   *)
LEMMA StoreMoves ==
  ASSUME ServiceInv, [Next]_vars
  PROVE  \/ UNCHANGED store
         \/ \E key \in CaseKeys :
              /\ store[key] = None
              /\ store' = [store EXCEPT ![key] = Saved(<<>>, CreatedCase(key))]
         \/ \E key \in Stored, r \in Requests :
              /\ Prepared(store[key].case, r)
              /\ \E c \in Results(store[key].case, r) :
                   store' = [store EXCEPT ![key] = Saved(store[key].audit, c)]
  <1>1. CASE \E w \in Workers, key \in CaseKeys : BeginCreateCase(w, key)
    BY <1>1 DEF BeginCreateCase
  <1>2. CASE \E w \in Workers : BeginChange(w)
    BY <1>2
    DEF BeginChange, Begin, BeginReplacePlan, BeginEvaluate, BeginSubmitEvidence,
        BeginRequestReview, BeginReviewFinding, BeginSign
  <1>3. CASE \E w \in Workers : Create(w)
    BY <1>3, CreateStep
  <1>4. CASE \E w \in Workers : PutEvidence(w)
    BY <1>4 DEF PutEvidence
  <1>5. CASE \E w \in Workers : Save(w)
    BY <1>5, SaveStep
  <1>6. CASE \E w \in Workers : Abort(w)
    BY <1>6 DEF Abort
  <1>7. CASE Crash \/ Restart \/ UNCHANGED vars
    BY <1>7 DEF Crash, Restart, vars
  <1> QED
    BY <1>1, <1>2, <1>3, <1>4, <1>5, <1>6, <1>7 DEF Next, Continue

(* The operators of the instance have the definitions of this module's.    *)
LEMMA SameCases ==
  /\ \A c : Serial!Found(c) = Found(c) /\ Serial!Processed(c) = Processed(c)
  /\ \A c, r : Serial!IsNewRequest(c, r) = IsNewRequest(c, r)
  /\ \A c : Serial!CloneCase(c) = CloneCase(c)
  /\ \A c, r, command : Serial!RecordRequest(c, r, command) = RecordRequest(c, r, command)
  /\ Serial!NewCase = NewCase
  /\ Serial!ClosingEvents = ClosingEvents
  BY Zenon DEF Serial!Found, Found, Serial!Processed, Processed, Serial!IsNewRequest,
     IsNewRequest, Serial!CloneCase, CloneCase, Serial!NameAfterJson,
     NameAfterJson, Serial!RecordRequest, RecordRequest, Serial!NewCase,
     NewCase, Serial!Event, Event, Serial!NoFinding, NoFinding,
     Serial!NotProcessed, NotProcessed, Serial!NoCertificate, NoCertificate,
     Serial!ClosingEvents, ClosingEvents

LEMMA SameResults ==
  \A c, r : Serial!Results(c, r) = Results(c, r)
  <1>1. \A c, type, f : Serial!Advance(c, type, f) = Advance(c, type, f)
    BY Zenon DEF Serial!Advance, Advance, Serial!Event, Event
  <1>2. \A c, r, plan :
          Serial!ReplacePlanResults(c, r, plan) = ReplacePlanResults(c, r, plan)
    BY <1>1, SameCases
    DEF Serial!ReplacePlanResults, ReplacePlanResults,
        Serial!CanReplacePlan, CanReplacePlan, Serial!ReplacePlan,
        ReplacePlan
  <1>3. \A c : Serial!SubmitEvaluation(c) = SubmitEvaluation(c)
    BY <1>1 DEF Serial!SubmitEvaluation, SubmitEvaluation
  <1>4. \A c, found : Serial!ApplyEvaluation(c, found) = ApplyEvaluation(c, found)
    BY <1>1, Zenon
    DEF Serial!ApplyEvaluation, ApplyEvaluation, Serial!OpenFinding,
        OpenFinding, Serial!NoFinding, NoFinding, Serial!RuleVersion,
        RuleVersion
  <1>5. \A c, r : Serial!EvaluateResults(c, r) = EvaluateResults(c, r)
    BY <1>3, <1>4, SameCases
    DEF Serial!EvaluateResults, EvaluateResults, Serial!CanSubmitEvaluation,
        CanSubmitEvaluation, Serial!CanApplyEvaluation, CanApplyEvaluation
  <1>6. \A c, r, f, content, note :
          Serial!EvidenceResults(c, r, f, content, note)
            = EvidenceResults(c, r, f, content, note)
    BY <1>1, SameCases
    DEF Serial!EvidenceResults, EvidenceResults, Serial!CanAddEvidence,
        CanAddEvidence, Serial!AddEvidence, AddEvidence
  <1>7. \A c, r : Serial!RequestReviewResults(c, r) = RequestReviewResults(c, r)
    BY <1>1, SameCases
    DEF Serial!RequestReviewResults, RequestReviewResults,
        Serial!CanRequestReview, CanRequestReview, Serial!RequestReview,
        RequestReview
  <1>8. \A c, r, f, verdict, note, who :
          Serial!ReviewFindingResults(c, r, f, verdict, note, who)
            = ReviewFindingResults(c, r, f, verdict, note, who)
    BY <1>1, SameCases
    DEF Serial!ReviewFindingResults, ReviewFindingResults,
        Serial!CanReviewFinding, CanReviewFinding, Serial!ReviewFinding,
        ReviewFinding, Serial!Judged, Judged, Serial!ReviewEvent,
        ReviewEvent
  <1>9. \A c, r, who : Serial!SignResults(c, r, who) = SignResults(c, r, who)
    BY <1>1, SameCases
    DEF Serial!SignResults, SignResults, Serial!CanNewCertificate,
        CanNewCertificate, Serial!NewCertificate, NewCertificate,
        Serial!CanMarkReleased, CanMarkReleased, Serial!MarkReleased,
        MarkReleased, Serial!AllAccepted, AllAccepted, Serial!PlanDigest,
        PlanDigest
  <1>10. Serial!Verdicts = Verdicts
    BY DEF Serial!Verdicts, Verdicts
  <1> QED
    BY <1>2, <1>5, <1>6, <1>7, <1>8, <1>9, <1>10 DEF Serial!Results, Results

(* Overlapping, repeated, cancelled and crashed commands leave the store   *)
(* as if some of them had been executed one after the other.               *)
THEOREM ServiceImplementsSerial == Spec => ImplementsSerial
  <1>1. Init => Serial!Init
    BY DEF Init, Serial!Init
  <1>2. ServiceInv /\ [Next]_vars => [Serial!Next]_store
    <2> SUFFICES ASSUME ServiceInv, [Next]_vars PROVE [Serial!Next]_store
      OBVIOUS
    <2>1. /\ \A audit, c : Serial!Saved(audit, c) = Saved(audit, c)
          /\ \A key : Serial!CreatedCase(key) = CreatedCase(key)
          /\ \A c, r : Serial!Prepared(c, r) = Prepared(c, r)
      BY SameCases
      DEF Serial!Saved, Saved, Serial!CreatedCase, CreatedCase, Serial!Prepared, Prepared
    <2>2. CASE UNCHANGED store
      BY <2>2
    <2>3. CASE \E key \in CaseKeys :
                 /\ store[key] = None
                 /\ store' = [store EXCEPT ![key] = Saved(<<>>, CreatedCase(key))]
      BY <2>1, <2>3 DEF Serial!Next, Serial!CreateCase
    <2>4. CASE \E key \in Stored, r \in Requests :
                 /\ Prepared(store[key].case, r)
                 /\ \E c \in Results(store[key].case, r) :
                      store' = [store EXCEPT ![key] = Saved(store[key].audit, c)]
      BY <2>1, <2>4, SameResults DEF Serial!Next, Serial!ExecuteCommand, Stored
    <2> QED
      BY <2>2, <2>3, <2>4, StoreMoves
  <1> QED
    BY <1>1, <1>2, Invariance, PTL DEF Spec, ImplementsSerial, Serial!Spec

(* A snapshot is only replaced by one that continues it.                   *)
THEOREM SnapshotsOnlyGrow == Spec => HistoryOnlyGrows
  <1>1. ServiceInv /\ [Next]_vars => SnapshotsContinue
    <2> SUFFICES ASSUME ServiceInv, [Next]_vars, NEW key \in Stored
                 PROVE  store'[key] # None /\ Continues(store[key], store'[key])
      BY DEF SnapshotsContinue
    <2>1. key \in CaseKeys /\ store[key] # None
      BY DEF Stored
    <2>2. store \in [CaseKeys -> Snapshots \cup {None}]
      BY DEF ServiceInv, TypeOK
    <2>3. CASE store'[key] = store[key]
      BY <2>1, <2>3 DEF Continues
    <2>4. CASE store'[key] # store[key]
      <3>1. PICK r \in Requests :
              /\ Prepared(store[key].case, r)
              /\ \E c \in Results(store[key].case, r) :
                   store'[key] = Saved(store[key].audit, c)
        BY <2>1, <2>2, <2>4, StoreMoves DEF Stored
      <3>2. PICK c \in Results(store[key].case, r) :
              store'[key] = Saved(store[key].audit, c)
        BY <3>1
      <3>3. Applied(store[key].case, c, r)
        BY <2>1, StoredSnapshot, ResultsApplied
      <3>4. /\ SnapshotInv(store'[key])
            /\ Continues(store[key], store'[key])
        BY <2>1, <3>1, <3>2, <3>3, StoredSnapshot, SavedSnapshot DEF Prepared
      <3> QED
        BY <3>4, NoneIsNoSnapshot DEF SnapshotInv
    <2> QED
      BY <2>3, <2>4
  <1> QED
    BY <1>1, Invariance, PTL DEF Spec, HistoryOnlyGrows

(* However often a command is sent, it took effect once.                   *)
THEOREM RequestsAppliedOnce == Spec => []ExactlyOnce
  <1>1. ServiceInv => ExactlyOnce
    <2> SUFFICES ASSUME ServiceInv, NEW key \in CaseKeys, store[key] # None
                 PROVE  Serial!AppliedOnce(store[key])
      BY DEF ExactlyOnce, Serial!ExactlyOnce, Serial!Stored
    <2>1. AppliedOnce(store[key])
      BY StoredSnapshot DEF SnapshotInv
    <2> QED
      BY <2>1, SameCases DEF AppliedOnce, Serial!AppliedOnce
  <1> QED
    BY <1>1, Invariance, PTL

----------------------------------------------------------------------------
(* Recovery.  Of every case that is stored or about to be saved the        *)
(* evidence is in the store and the certificate verifies, because evidence *)
(* is put before the case is computed and is never removed.                *)

BackingInv ==
  /\ \A key \in Stored : Backed(store[key].case, evidence)
  /\ \A w \in Workers : handler[w].step # "idle" => Backed(handler[w].case, evidence)

LEMMA MoreFilesBack ==
  ASSUME NEW c, NEW files, NEW more, Backed(c, files), files \subseteq more
  PROVE  Backed(c, more)
  BY DEF Backed

LEMMA HandlerBacking ==
  ASSUME ServiceInv, BackingInv, NEW w \in Workers, NEW h,
         h.step # "idle" => Backed(h.case, evidence'),
         store' = store, evidence \subseteq evidence',
         handler' = [handler EXCEPT ![w] = h]
  PROVE  BackingInv'
  <1>1. \A key \in Stored' : Backed(store'[key].case, evidence')
    BY MoreFilesBack DEF BackingInv, Stored
  <1>2. ASSUME NEW v \in Workers, handler'[v].step # "idle"
        PROVE  Backed(handler'[v].case, evidence')
    <2>1. handler'[v] = IF v = w THEN h ELSE handler[v]
      BY DEF ServiceInv, TypeOK
    <2> QED
      BY <1>2, <2>1, MoreFilesBack DEF BackingInv
  <1> QED
    BY <1>1, <1>2 DEF BackingInv

LEMMA BeginBacking ==
  ASSUME ServiceInv, BackingInv, NEW w \in Workers, NEW key \in Stored,
         NEW r \in Requests, NEW results, Begin(w, key, r, results),
         \A c \in results : Backed(c, evidence)
  PROVE  BackingInv'
  <1>1. PICK c \in results :
          handler' = [handler EXCEPT ![w] =
                        [step |-> "save", key |-> key, case |-> c,
                         base |-> store[key].case.revision]]
    BY DEF Begin
  <1> DEFINE h == [step |-> "save", key |-> key, case |-> c,
                   base |-> store[key].case.revision]
  <1>2. Backed(h.case, evidence) /\ handler' = [handler EXCEPT ![w] = h]
    BY <1>1
  <1>3. store' = store /\ evidence' = evidence
    BY DEF Begin
  <1> HIDE DEF h
  <1> QED
    BY <1>2, <1>3, HandlerBacking

LEMMA BeginChangeBacking ==
  ASSUME ServiceInv, BackingInv, NEW w \in Workers, BeginChange(w)
  PROVE  BackingInv'
  <1> PICK key \in Stored, r \in Requests :
        \/ \E plan \in Plans : BeginReplacePlan(w, key, r, plan)
        \/ BeginEvaluate(w, key, r)
        \/ \E f \in Findings, content \in Contents, note \in BOOLEAN :
              BeginSubmitEvidence(w, key, r, f, content, note)
        \/ BeginRequestReview(w, key, r)
        \/ \E f \in Findings, verdict \in Verdicts, note \in BOOLEAN, who \in Names :
              BeginReviewFinding(w, key, r, f, verdict, note, who)
        \/ \E who \in Names : BeginSign(w, key, r, who)
    BY DEF BeginChange
  <1> DEFINE c == store[key].case
  <1>1. c \in Cases /\ Backed(c, evidence)
    BY StoredSnapshot DEF Stored, BackingInv
  <1>2. CASE \E plan \in Plans : BeginReplacePlan(w, key, r, plan)
    <2>1. PICK plan \in Plans : BeginReplacePlan(w, key, r, plan)
      BY <1>2
    <2>2. \A d \in ReplacePlanResults(c, r, plan) : Backed(d, evidence)
      BY <1>1, ReplacePlanBacked
    <2> QED
      BY <2>1, <2>2, BeginBacking DEF BeginReplacePlan
  <1>3. CASE BeginEvaluate(w, key, r)
    <2>1. \A d \in EvaluateResults(c, r) : Backed(d, evidence)
      BY <1>1, EvaluateBacked
    <2> QED
      BY <1>3, <2>1, BeginBacking DEF BeginEvaluate
  <1>4. CASE \E f \in Findings, content \in Contents, note \in BOOLEAN :
               BeginSubmitEvidence(w, key, r, f, content, note)
    <2>1. PICK f \in Findings, content \in Contents, note \in BOOLEAN :
            BeginSubmitEvidence(w, key, r, f, content, note)
      BY <1>4
    <2> DEFINE h == [step |-> "put", key |-> key, case |-> c, request |-> r,
                     finding |-> f, content |-> content, note |-> note]
    <2>2. /\ store' = store /\ evidence' = evidence
          /\ handler' = [handler EXCEPT ![w] = h]
      BY <2>1 DEF BeginSubmitEvidence
    <2>3. Backed(h.case, evidence)
      BY <1>1
    <2> HIDE DEF h
    <2> QED
      BY <2>2, <2>3, HandlerBacking
  <1>5. CASE BeginRequestReview(w, key, r)
    <2>1. \A d \in RequestReviewResults(c, r) : Backed(d, evidence)
      BY <1>1, RequestReviewBacked
    <2> QED
      BY <1>5, <2>1, BeginBacking DEF BeginRequestReview
  <1>6. CASE \E f \in Findings, verdict \in Verdicts, note \in BOOLEAN, who \in Names :
               BeginReviewFinding(w, key, r, f, verdict, note, who)
    <2>1. PICK f \in Findings, verdict \in Verdicts, note \in BOOLEAN, who \in Names :
            BeginReviewFinding(w, key, r, f, verdict, note, who)
      BY <1>6
    <2>2. \A d \in ReviewFindingResults(c, r, f, verdict, note, who) : Backed(d, evidence)
      BY <1>1, ReviewFindingBacked
    <2> QED
      BY <2>1, <2>2, BeginBacking DEF BeginReviewFinding
  <1>7. CASE \E who \in Names : BeginSign(w, key, r, who)
    <2>1. PICK who \in Names : BeginSign(w, key, r, who)
      BY <1>7
    <2>2. \A d \in SignResults(c, r, who) : Backed(d, evidence)
      BY <1>1, SignBacked
    <2> QED
      BY <2>1, <2>2, BeginBacking DEF BeginSign
  <1> QED
    BY <1>2, <1>3, <1>4, <1>5, <1>6, <1>7

LEMMA PutEvidenceBacking ==
  ASSUME ServiceInv, BackingInv, NEW w \in Workers, PutEvidence(w)
  PROVE  BackingInv'
  <1> DEFINE h == handler[w]
  <1>1. h.step = "put"
    BY DEF PutEvidence
  <1>2. /\ h.case \in Cases /\ h.request \in Requests
        /\ h.finding \in Findings /\ h.content \in Contents /\ h.note \in BOOLEAN
    BY <1>1, WorkerTypes DEF ServiceInv, EvidenceSteps
  <1>3. evidence' = evidence \cup {h.content} /\ store' = store
    BY DEF PutEvidence
  <1>4. Backed(h.case, evidence')
    BY <1>1, <1>3, MoreFilesBack DEF BackingInv
  <1>5. CASE Finish(w)
    BY <1>3, <1>5, HandlerBacking DEF Finish, Idle
  <1>6. CASE \E c \in EvidenceResults(h.case, h.request, h.finding, h.content, h.note) :
               handler' = [handler EXCEPT ![w] =
                             [step |-> "save", key |-> h.key, case |-> c,
                              base |-> h.case.revision]]
    <2>1. PICK c \in EvidenceResults(h.case, h.request, h.finding, h.content, h.note) :
            handler' = [handler EXCEPT ![w] =
                          [step |-> "save", key |-> h.key, case |-> c,
                           base |-> h.case.revision]]
      BY <1>6
    <2>2. Backed(c, evidence')
      BY <1>2, <1>3, <1>4, EvidenceBacked
    <2> DEFINE g == [step |-> "save", key |-> h.key, case |-> c,
                     base |-> h.case.revision]
    <2>3. Backed(g.case, evidence') /\ handler' = [handler EXCEPT ![w] = g]
      BY <2>1, <2>2
    <2> HIDE DEF g, h
    <2> QED
      BY <1>3, <2>3, HandlerBacking
  <1> QED
    BY <1>5, <1>6 DEF PutEvidence

(* Create and Save write the case the worker holds, as JSON keeps it.      *)
LEMMA WriteBacking ==
  ASSUME ServiceInv, BackingInv, NEW w \in Workers, NEW audit,
         handler[w].case \in Cases, handler[w].key \in CaseKeys,
         handler[w].step # "idle", \A n \in Names : JsonText[n] = n,
         \/ UNCHANGED store
         \/ store' = [store EXCEPT ![handler[w].key] = Saved(audit, handler[w].case)],
         evidence' = evidence, Finish(w)
  PROVE  BackingInv'
  <1> DEFINE key == handler[w].key
             c == handler[w].case
             s == Saved(audit, c)
  <1>1. CASE UNCHANGED store
    BY <1>1, HandlerBacking DEF Finish, Idle
  <1>2. CASE store' = [store EXCEPT ![key] = s]
    <2>1. Backed(c, evidence)
      BY DEF BackingInv
    <2>2. Backed(s.case, evidence)
      BY <2>1, CloneCaseBacked DEF Saved
    <2> HIDE DEF s
    <2>3. \A k \in Stored' : Backed(store'[k].case, evidence')
      BY <1>2, <2>2 DEF BackingInv, Stored, ServiceInv, TypeOK
    <2>4. \A v \in Workers : handler'[v].step # "idle" => Backed(handler'[v].case, evidence')
      BY DEF Finish, Idle, BackingInv, ServiceInv, TypeOK
    <2> QED
      BY <2>3, <2>4 DEF BackingInv
  <1> QED
    BY <1>1, <1>2

LEMMA BackingStep ==
  ASSUME ServiceInv, BackingInv, [Next]_vars, \A n \in Names : JsonText[n] = n
  PROVE  BackingInv'
  <1>1. ASSUME NEW w \in Workers, NEW key \in CaseKeys, BeginCreateCase(w, key)
        PROVE  BackingInv'
    <2> DEFINE h == [step |-> "create", key |-> key, case |-> CreatedCase(key)]
    <2>1. /\ store' = store /\ evidence' = evidence
          /\ handler' = [handler EXCEPT ![w] = h]
      BY <1>1 DEF BeginCreateCase
    <2>2. Backed(h.case, evidence)
      BY CreatedCaseBacked
    <2> HIDE DEF h
    <2> QED
      BY <2>1, <2>2, HandlerBacking
  <1>2. ASSUME NEW w \in Workers, BeginChange(w)
        PROVE  BackingInv'
    BY <1>2, BeginChangeBacking
  <1>3. ASSUME NEW w \in Workers, Create(w)
        PROVE  BackingInv'
    <2>1. handler[w].step = "create"
      BY <1>3 DEF Create
    <2>2. handler[w].key \in CaseKeys /\ handler[w].case \in Cases
      BY <2>1, WorkerTypes DEF ServiceInv, CreateSteps
    <2> QED
      BY <1>3, <2>1, <2>2, WriteBacking DEF Create
  <1>4. ASSUME NEW w \in Workers, PutEvidence(w)
        PROVE  BackingInv'
    BY <1>4, PutEvidenceBacking
  <1>5. ASSUME NEW w \in Workers, Save(w)
        PROVE  BackingInv'
    <2>1. handler[w].step = "save"
      BY <1>5 DEF Save
    <2>2. handler[w].key \in CaseKeys /\ handler[w].case \in Cases
      BY <2>1, WorkerTypes DEF ServiceInv, SaveSteps
    <2> QED
      BY <1>5, <2>1, <2>2, WriteBacking DEF Save
  <1>6. ASSUME NEW w \in Workers, Abort(w)
        PROVE  BackingInv'
    BY <1>6, HandlerBacking DEF Abort, Finish, Idle
  <1>7. CASE Crash
    BY <1>7 DEF Crash, BackingInv, Stored, Idle
  <1>8. CASE Restart \/ UNCHANGED vars
    BY <1>8 DEF Restart, vars, BackingInv, Stored
  <1> QED
    BY <1>1, <1>2, <1>3, <1>4, <1>5, <1>6, <1>7, <1>8 DEF Next, Continue

(* If every name survives JSON, the service can be started again whenever  *)
(* it stops.  Without the assumption this is false: the run latin1_signer. *)
THEOREM AlwaysRecoverable ==
  ASSUME \A n \in Names : JsonText[n] = n
  PROVE  Spec => []Recoverable
  <1>1. Init => BackingInv
    BY DEF Init, BackingInv, Stored, Idle
  <1>2. ServiceInv /\ BackingInv /\ [Next]_vars => BackingInv'
    BY BackingStep
  <1>3. ServiceInv /\ BackingInv => Recoverable
    <2> SUFFICES ASSUME ServiceInv, BackingInv, NEW key \in Stored
                 PROVE  ValidSnapshot(store[key])
      BY DEF Recoverable, CanStart
    <2> DEFINE c == store[key].case
    <2>1. /\ c \in Cases /\ CaseInv(c) /\ Evaluated(c)
          /\ Backed(c, evidence)
      BY StoredSnapshot DEF Stored, BackingInv
    <2>2. Justified(c)
      BY <2>1, InvJustified
    <2> HIDE DEF c
    <2>3. \A f \in Found(c) : c.findings[f].evidence \in evidence \cup {None}
      BY <2>1 DEF Backed, Found
    <2> QED
      BY <2>1, <2>2, <2>3 DEF ValidSnapshot, Justified, Backed, c
  <1> QED
    BY <1>1, <1>2, <1>3, Invariance, PTL DEF Spec

=============================================================================

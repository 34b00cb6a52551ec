------------------------- MODULE ClearanceService --------------------------
(***************************************************************************)
(* The application service over the file store, with every request of the  *)
(* HTTP server in a goroutine of its own.  A command reads a copy of the   *)
(* case under the store's read lock, computes outside any lock, and saves  *)
(* under the write lock if the revision is still the one it read; evidence *)
(* is written, under the lock again, between the two.  So a command is     *)
(* two or three steps here, and other commands, a cancelled context, an    *)
(* I/O error or the death of the process come between them.                *)
(*                                                                         *)
(* Answers are not modelled: a query or a refused command changes nothing, *)
(* and a client may take any answer as a lost one and send the command     *)
(* again, with the same id or with a new one.                              *)
(***************************************************************************)
EXTENDS SnapshotProperties

CONSTANT Workers      \* requests the server handles at the same time

VARIABLES
  store,      \* cases/: the snapshot in each file, None where there is none
  evidence,   \* evidence/: the contents that are there
  handler,    \* what each worker has in hand
  up          \* the process runs

vars == <<store, evidence, handler, up>>

Idle == [step |-> "idle"]

(* A case about to be created, a command that has still to store its       *)
(* evidence file, and a case about to be saved over revision base.         *)
CreateSteps == [step : {"create"}, key : CaseKeys, case : Cases]

EvidenceSteps ==
  [step : {"put"}, key : CaseKeys, case : Cases, request : Requests,
   finding : Findings, content : Contents, note : BOOLEAN]

SaveSteps == [step : {"save"}, key : CaseKeys, case : Cases, base : Nat]

TypeOK ==
  /\ store \in [CaseKeys -> Snapshots \cup {None}]
  /\ evidence \subseteq Contents
  /\ handler \in [Workers -> {Idle} \cup CreateSteps \cup EvidenceSteps \cup SaveSteps]
  /\ up \in BOOLEAN

Init ==
  /\ store = [key \in CaseKeys |-> None]
  /\ evidence = {}
  /\ handler = [w \in Workers |-> Idle]
  /\ up = TRUE

Stored == {key \in CaseKeys : store[key] # None}

Finish(w) == handler' = [handler EXCEPT ![w] = Idle]

----------------------------------------------------------------------------
(* Creating a case.                                                        *)

BeginCreateCase(w, key) ==
  /\ up /\ handler[w] = Idle
  /\ store[key] = None
  /\ handler' = [handler EXCEPT ![w] =
                   [step |-> "create", key |-> key, case |-> CreatedCase(key)]]
  /\ UNCHANGED <<store, evidence, up>>

(* Fault: the file is written whether or not it exists.                    *)
CreateOrReplace(w) ==
  /\ handler[w].step = "create"
  /\ LET h == handler[w]
     IN  store' = [store EXCEPT ![h.key] = Saved(<<>>, h.case)]
  /\ Finish(w)
  /\ UNCHANGED <<evidence, up>>

Create(w) ==
  /\ handler[w].step = "create"
  /\ LET h == handler[w]
     IN  store' = IF store[h.key] = None
                  THEN [store EXCEPT ![h.key] = Saved(<<>>, h.case)]
                  ELSE store                              \* ErrConflict
  /\ Finish(w)
  /\ UNCHANGED <<evidence, up>>

----------------------------------------------------------------------------
(* Changing a case.  A client names the revision it expects: with another  *)
(* one the command ends in ErrConflict before it has done anything.        *)

Begin(w, key, r, results) ==
  /\ up /\ handler[w] = Idle
  /\ Prepared(store[key].case, r)
  /\ \E c \in results :
       handler' = [handler EXCEPT ![w] =
                     [step |-> "save", key |-> key, case |-> c,
                      base |-> store[key].case.revision]]
  /\ UNCHANGED <<store, evidence, up>>

BeginReplacePlan(w, key, r, plan) ==
  Begin(w, key, r, ReplacePlanResults(store[key].case, r, plan))

BeginEvaluate(w, key, r) ==
  Begin(w, key, r, EvaluateResults(store[key].case, r))

BeginRequestReview(w, key, r) ==
  Begin(w, key, r, RequestReviewResults(store[key].case, r))

BeginReviewFinding(w, key, r, f, verdict, note, who) ==
  Begin(w, key, r,
        ReviewFindingResults(store[key].case, r, f, verdict, note, who))

BeginSign(w, key, r, who) ==
  Begin(w, key, r, SignResults(store[key].case, r, who))

BeginSubmitEvidence(w, key, r, f, content, note) ==
  /\ up /\ handler[w] = Idle
  /\ Prepared(store[key].case, r)
  /\ handler' = [handler EXCEPT ![w] =
                   [step |-> "put", key |-> key, case |-> store[key].case,
                    request |-> r, finding |-> f, content |-> content,
                    note |-> note]]
  /\ UNCHANGED <<store, evidence, up>>

(* Fault: the case may be saved before its evidence is stored.             *)
PutEvidenceLater(w) ==
  /\ handler[w].step = "put"
  /\ LET h == handler[w]
     IN  \E c \in EvidenceResults(h.case, h.request, h.finding, h.content, h.note) :
           handler' = [handler EXCEPT ![w] =
                         [step |-> "save", key |-> h.key, case |-> c,
                          base |-> h.case.revision]]
  /\ UNCHANGED <<store, evidence, up>>

(* The file is stored before AddEvidence has a say: when that refuses, the *)
(* file stays behind and belongs to no case.                               *)
PutEvidence(w) ==
  /\ handler[w].step = "put"
  /\ LET h == handler[w]
         results == EvidenceResults(h.case, h.request, h.finding, h.content, h.note)
     IN  /\ evidence' = evidence \cup {h.content}
         /\ \/ results = {} /\ Finish(w)
            \/ \E c \in results :
                 handler' = [handler EXCEPT ![w] =
                               [step |-> "save", key |-> h.key, case |-> c,
                                base |-> h.case.revision]]
  /\ UNCHANGED <<store, up>>

(* Fault: the stored revision is not compared.                             *)
SaveOverNewer(w) ==
  /\ handler[w].step = "save"
  /\ LET h == handler[w]
     IN  store' = [store EXCEPT ![h.key] = Saved(store[h.key].audit, h.case)]
  /\ Finish(w)
  /\ UNCHANGED <<evidence, up>>

(* Fault: only the new events are written.                                 *)
SaveNewEvents(w) ==
  /\ handler[w].step = "save"
  /\ LET h == handler[w]
     IN  /\ store[h.key].case.revision = h.base
         /\ store' = [store EXCEPT ![h.key] = Saved(<<>>, h.case)]
  /\ Finish(w)
  /\ UNCHANGED <<evidence, up>>

(* Fault: after a conflict the same copy is saved again and again.         *)
SaveUntilAccepted(w) ==
  /\ handler[w].step = "save"
  /\ LET h == handler[w]
     IN  /\ store[h.key].case.revision = h.base
         /\ store' = [store EXCEPT ![h.key] = Saved(store[h.key].audit, h.case)]
  /\ Finish(w)
  /\ UNCHANGED <<evidence, up>>

Save(w) ==
  /\ handler[w].step = "save"
  /\ LET h == handler[w]
         current == store[h.key]
     IN  store' = IF current.case.revision = h.base /\ h.case.revision > h.base
                  THEN [store EXCEPT ![h.key] = Saved(current.audit, h.case)]
                  ELSE store                              \* ErrConflict
  /\ Finish(w)
  /\ UNCHANGED <<evidence, up>>

----------------------------------------------------------------------------
(* Failures.                                                               *)

(* The request's context is cancelled, or the store fails before the       *)
(* rename.  A failure after the rename is a Create, PutEvidence or Save    *)
(* whose answer is an error.                                               *)
Abort(w) ==
  /\ handler[w] # Idle
  /\ Finish(w)
  /\ UNCHANGED <<store, evidence, up>>

Crash ==
  /\ up
  /\ up' = FALSE
  /\ handler' = [w \in Workers |-> Idle]
  /\ UNCHANGED <<store, evidence>>

(* Fault: every finding must have evidence.                                *)
ValidOnlyWithEvidence(s) ==
  \A f \in Found(s.case) : s.case.findings[f].evidence \in evidence

(* What validateExisting demands of a snapshot.                            *)
ValidSnapshot(s) ==
  /\ HasCertificate(s.case) =>
       /\ VerifyCertificate(s.case.certificate)
       /\ s.case.certificate.planDigest = PlanDigest(s.case)
       /\ s.case.status = "released"
  /\ \A f \in Found(s.case) :
       s.case.findings[f].evidence \in evidence \cup {None}

CanStart == \A key \in Stored : ValidSnapshot(store[key])

Restart ==
  /\ ~ up
  /\ CanStart
  /\ up' = TRUE
  /\ UNCHANGED <<store, evidence, handler>>

----------------------------------------------------------------------------

BeginChange(w) ==
  \E key \in Stored, r \in Requests :
    \/ \E plan \in Plans : BeginReplacePlan(w, key, r, plan)
    \/ BeginEvaluate(w, key, r)
    \/ \E f \in Findings, content \in Contents, note \in BOOLEAN :
          BeginSubmitEvidence(w, key, r, f, content, note)
    \/ BeginRequestReview(w, key, r)
    \/ \E f \in Findings, verdict \in Verdicts, note \in BOOLEAN, who \in Names :
          BeginReviewFinding(w, key, r, f, verdict, note, who)
    \/ \E who \in Names : BeginSign(w, key, r, who)

(* What a worker that has something in hand does next.                     *)
Continue(w) == Create(w) \/ PutEvidence(w) \/ Save(w)

Next ==
  \/ \E w \in Workers :
       \/ \E key \in CaseKeys : BeginCreateCase(w, key)
       \/ BeginChange(w)
       \/ Continue(w)
       \/ Abort(w)
  \/ Crash
  \/ Restart

Spec == Init /\ [][Next]_vars

(* A goroutine that runs is scheduled until its request is answered, and   *)
(* whoever operates the service starts it again after it stopped.          *)
Fairness == (\A w \in Workers : WF_vars(Continue(w))) /\ WF_vars(Restart)

FairSpec == Spec /\ Fairness

----------------------------------------------------------------------------
(* Properties.                                                             *)

Serial == INSTANCE SerialClearance WITH db <- store

(* Interleaved, retried, cancelled and crashed commands leave the store as *)
(* if some of them had run one after the other (the revision check of      *)
(* store.go:107 and the request table of case.go:241-264).                 *)
ImplementsSerial == Serial!Spec

(* However often a client sends a command, and whichever copies of it are  *)
(* handled at the same time, it took effect once (service.go:230-236).     *)
ExactlyOnce == Serial!ExactlyOnce

(* Whenever the process stops, it can start again: every snapshot refers   *)
(* only to evidence that is stored and carries a certificate that verifies *)
(* (store.go:188-223).                                                     *)
Recoverable == CanStart

(* A snapshot is only ever replaced by one that continues it, and never    *)
(* after the release (store.go:110-114).                                   *)
SnapshotsContinue ==
  \A key \in Stored :
    store'[key] # None /\ Continues(store[key], store'[key])

HistoryOnlyGrows == [][SnapshotsContinue]_vars

(* A released case's certificate verifies for anyone who looks it up       *)
(* (store.go:171-186).                                                     *)
SignedIsVerifiable ==
  \A key \in Stored :
    HasCertificate(store[key].case) => VerifyCertificate(store[key].case.certificate)

(* Every request the server accepted is answered, and the service comes    *)
(* back after every crash.                                                 *)
EveryRequestEnds == \A w \in Workers : handler[w] # Idle ~> handler[w] = Idle
ServiceReturns == ~ up ~> up

============================================================================

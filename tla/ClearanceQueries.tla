-------------------------- MODULE ClearanceQueries --------------------------
(***************************************************************************)
(* What the read side of internal/application tells clients: the progress  *)
(* of a case, the queue of the safety reviewer, and the public lookup of a *)
(* certificate.  A query reads the files under the read lock and changes   *)
(* nothing, so its answer is a function of what SerialClearance stores.    *)
(*                                                                         *)
(* The clearance number ends in eight hex digits of the case id: two cases *)
(* may share one.  The code of a certificate covers the id of its case.    *)
(***************************************************************************)
EXTENDS SerialClearance, FiniteSets, Functions

CONSTANTS
  Schedules,         \* when the performance of each case may start
  CaseRank,          \* the order of the case ids
  ClearanceNumber    \* the number of each case

ASSUME QueriesAssumption ==
  /\ Schedules \subseteq [CaseKeys -> Nat]
  /\ CaseRank \in [CaseKeys -> Nat]
  /\ \A k, l \in CaseKeys : CaseRank[k] = CaseRank[l] => k = l
  /\ DOMAIN ClearanceNumber = CaseKeys
  /\ \A plan \in EvaluablePlans : IsFiniteSet(RuleFindings[plan])

VARIABLES
  startsAt,   \* when the performance of each case starts, once it is created
  published   \* the certificates handed out, as a client keeps them

----------------------------------------------------------------------------
(* The projections.                                                        *)

WithEvidence(c) == {f \in Found(c) : c.findings[f].evidence # None}
WithStatus(c, status) == {f \in Found(c) : c.findings[f].status = status}

Progress(c) ==
  [total |-> Cardinality(Found(c)),
   evidenceSubmitted |-> Cardinality(WithEvidence(c)),
   accepted |-> Cardinality(WithStatus(c, "accepted")),
   returned |-> Cardinality(WithStatus(c, "returned"))]

QueueItem(key) ==
  [case |-> key, startsAt |-> startsAt[key],
   revision |-> db[key].case.revision,
   findingCount |-> Cardinality(Found(db[key].case)),
   acceptedCount |-> Cardinality(WithStatus(db[key].case, "accepted"))]

QueuedBefore(a, b) ==
  \/ a.startsAt < b.startsAt
  \/ a.startsAt = b.startsAt /\ CaseRank[a.case] < CaseRank[b.case]

(* Fault: a returned case stays with the reviewer.                         *)
WaitingEvaluated ==
  {key \in Stored : db[key].case.status \in {"remediation", "pending_review"}}

Waiting == {key \in Stored : db[key].case.status = "pending_review"}

(* sortQueue: ids differ, so the items have exactly one order.             *)
ReviewQueue ==
  LET items == {QueueItem(key) : key \in Waiting}
  IN  CHOOSE queue \in Injection(1 .. Cardinality(items), items) :
        \A i, j \in DOMAIN queue : i < j => QueuedBefore(queue[i], queue[j])

----------------------------------------------------------------------------
(* Certificates.                                                           *)

(* What a client needs to look a certificate up.                           *)
Lookup(key, cert) ==
  [number |-> ClearanceNumber[key],
   code |-> [case |-> key, seal |-> cert.verificationCode]]

(* Fault: the number alone is compared.                                    *)
MatchesOfNumber(lookup) ==
  {key \in Stored : /\ HasCertificate(db[key].case)
                    /\ ClearanceNumber[key] = lookup.number}

Matches(lookup) ==
  {key \in Stored :
     /\ HasCertificate(db[key].case)
     /\ Lookup(key, db[key].case.certificate) = lookup}

(* FindCertificate takes the first match of a list whose order depends on  *)
(* when cases were changed: each match is a possible answer.               *)
CertificateAnswers(lookup) ==
  IF Matches(lookup) = {}
  THEN {[result |-> "not_found"]}
  ELSE {LET cert == db[key].case.certificate
        IN  IF VerifyCertificate(cert)
            THEN [result |-> "valid", case |-> key, certificate |-> cert]
            ELSE [result |-> "digest_mismatch"] : key \in Matches(lookup)}

----------------------------------------------------------------------------
(* The commands between the queries.                                       *)

QueryInit ==
  /\ Init
  /\ startsAt \in Schedules
  /\ published = {}

(* The answer of a signature carries the certificate in memory, before it  *)
(* has become JSON.                                                        *)
HandedOut(key, r) ==
  {[case |-> key, certificate |-> c.certificate] :
     c \in {d \in Results(db[key].case, r) :
             HasCertificate(d) /\ db'[key] = Saved(db[key].audit, d)}}

QueryNext ==
  /\ \E key \in CaseKeys :
       \/ CreateCase(key) /\ UNCHANGED published
       \/ \E r \in Requests :
            /\ ExecuteCommand(key, r)
            /\ published' = published \cup HandedOut(key, r)
  /\ UNCHANGED startsAt

QuerySpec == QueryInit /\ [][QueryNext]_<<db, startsAt, published>>

----------------------------------------------------------------------------
(* Properties.                                                             *)

(* The four numbers of the progress view tell the truth about the status   *)
(* (views.go:74-85): what waits for review is complete and holds nothing   *)
(* returned, what is in remediation has work left that is not accepted,    *)
(* and what is released was accepted whole, after any returns.             *)
ProgressTellsStatus ==
  \A key \in Stored :
    LET c == db[key].case
        p == Progress(c)
    IN  /\ c.status = "draft" => p.total = 0
        /\ c.status = "remediation" => p.accepted < p.total
        /\ c.status = "pending_review" =>
             p.evidenceSubmitted = p.total /\ p.returned = 0
        /\ c.status = "released" => p.accepted = p.total

ReviewerCanAct(c) ==
  \/ CanNewCertificate(c)
  \/ \E f \in Findings, verdict \in Verdicts :
       CanReviewFinding(c, f, verdict, TRUE)

(* The queue is the reviewer's work and nothing else, each case once and   *)
(* the next performance first; its counts say whether to judge or to sign  *)
(* (queries.go:30-43, views.go:89-111).                                    *)
QueueIsWork ==
  LET queue == ReviewQueue
  IN  /\ \A key \in Stored :
           ReviewerCanAct(db[key].case) <=>
             \E i \in DOMAIN queue : queue[i].case = key
      /\ \A i, j \in DOMAIN queue :
           i < j => QueuedBefore(queue[i], queue[j])
      /\ \A i \in DOMAIN queue :
           CanNewCertificate(db[queue[i].case].case) <=>
             queue[i].acceptedCount = queue[i].findingCount

(* Whoever was given a certificate finds it again with its number and code *)
(* at any time, and finds that one (queries.go:53-66, store.go:171-186).   *)
PublishedStaysValid ==
  \A p \in published :
    CertificateAnswers(Lookup(p.case, p.certificate)) =
      {[result |-> "valid", case |-> p.case, certificate |-> p.certificate]}

============================================================================

---------------------------- MODULE HttpProtocol ----------------------------
(***************************************************************************)
(* The change requests of internal/httpui: what the handlers and the       *)
(* service look at, one after the other, before a command takes effect,    *)
(* and what they answer.  A message may arrive at any time after it was    *)
(* sent and any number of times: a client repeats what it got no answer    *)
(* to, and what its user saw may be old by then.                           *)
(*                                                                         *)
(* A message that is refused changes nothing; so only messages that take   *)
(* effect are steps, and what any message is answered at some moment is    *)
(* the operator Answer: the code of apiError, or "ok" for 200 and 201.     *)
(* The command takes effect at once on what SerialClearance stores.  A     *)
(* blank name or request id, another media type than the endpoint's and a  *)
(* body that does not parse are answered first and left out.               *)
(***************************************************************************)
EXTENDS SerialClearance, FiniteSetsExt

CONSTANTS
  MaxEvidenceBytes,     \* 10 MiB in the code
  MultipartOverhead,    \* 1 MiB in the code
  FileSizes, FormSizes  \* sizes of an upload's file, and of the rest of it

ASSUME ProtocolAssumption ==
  /\ MaxEvidenceBytes \in Nat \ {0}
  /\ MultipartOverhead \in Nat
  /\ FileSizes \cup FormSizes \subseteq Nat

VARIABLE done     \* the messages that took effect

----------------------------------------------------------------------------
(* Messages.                                                               *)

Roles == {"technical_director", "mechanical_lead", "safety_reviewer"}

RoleFor ==
  [create_case     |-> "technical_director",
   replace_plan    |-> "technical_director",
   evaluate        |-> "technical_director",
   submit_evidence |-> "mechanical_lead",
   request_review  |-> "mechanical_lead",
   review_finding  |-> "safety_reviewer",
   sign            |-> "safety_reviewer"]

Ops == DOMAIN RoleFor

Bodies ==
  [create_case     |-> {None},
   replace_plan    |-> Plans,
   evaluate        |-> {None},
   submit_evidence |-> [finding : Findings, content : Contents,
                        genuine : BOOLEAN, note : BOOLEAN,
                        file : FileSizes, form : FormSizes],
   request_review  |-> {None},
   review_finding  |-> [finding : Findings, verdict : Verdicts,
                        note : BOOLEAN],
   sign            |-> {None}]

Exists(key) == db[key] # None

----------------------------------------------------------------------------
(* What is looked at.  Each check is about one part of a message.          *)

(* Fault: the whole message may only be as large as its file.              *)
BodyIsReadableWithoutForm(op, body) ==
  op = "submit_evidence" => body.file + body.form <= MaxEvidenceBytes

BodyIsReadable(op, body) ==
  op = "submit_evidence" =>
    body.file + body.form <= MaxEvidenceBytes + MultipartOverhead

FileIsAcceptable(op, body) ==
  op = "submit_evidence" => body.file \in 1 .. MaxEvidenceBytes

(* Fault: any of the three roles will do.                                  *)
RoleIsKnown(op, role) == role \in Roles

RoleIsAllowed(op, role) == role = RoleFor[op]

IdIsTaken(op, key, request) ==
  /\ Exists(key)
  /\ request \in Processed(db[key].case)
  /\ db[key].case.requests[request].command # op

(* Fault: a repeated command is a new one.                                 *)
IsNeverPrior(op, key, request) == FALSE

IsPrior(op, key, request) ==
  /\ Exists(key)
  /\ request \in Processed(db[key].case)
  /\ db[key].case.requests[request].command = op

(* Fault: a command is not held against what its client has seen.          *)
IsPositive(op, key, revision) ==
  op # "create_case" /\ Exists(key) => revision > 0

IsCurrent(op, key, revision) ==
  op # "create_case" /\ Exists(key) =>
    revision > 0 /\ db[key].case.revision = revision

(* The cases a command can make of the stored one, none if it refuses.     *)
Effects(m) ==
  LET c == db[m.key].case
  IN  CASE m.op = "create_case" ->
             IF Exists(m.key) THEN {} ELSE {CreatedCase(m.key)}
        [] m.op = "replace_plan" -> ReplacePlanResults(c, m.request, m.body)
        [] m.op = "evaluate" -> EvaluateResults(c, m.request)
        [] m.op = "submit_evidence" ->
             IF m.body.genuine
             THEN EvidenceResults(c, m.request, m.body.finding,
                                  m.body.content, m.body.note)
             ELSE {}
        [] m.op = "request_review" -> RequestReviewResults(c, m.request)
        [] m.op = "review_finding" ->
             ReviewFindingResults(c, m.request, m.body.finding,
                                  m.body.verdict, m.body.note, m.who)
        [] m.op = "sign" -> SignResults(c, m.request, m.who)

(* Fault: the revision is compared before the request id is looked up.     *)
StagesRevisionFirst(m) ==
  <<[passed |-> m.role \in Roles,              answer |-> "validation_failed"],
    [passed |-> BodyIsReadable(m.op, m.body),  answer |-> "invalid_body"],
    [passed |-> FileIsAcceptable(m.op, m.body),
     answer |-> "validation_failed"],
    [passed |-> RoleIsAllowed(m.op, m.role),   answer |-> "forbidden"],
    [passed |-> m.op = "create_case" \/ Exists(m.key), answer |-> "not_found"],
    [passed |-> IsCurrent(m.op, m.key, m.revision),
     answer |-> "revision_conflict"],
    [passed |-> ~ IdIsTaken(m.op, m.key, m.request),
     answer |-> "revision_conflict"],
    [passed |-> ~ IsPrior(m.op, m.key, m.request), answer |-> "ok"]>>

(* The checks in the order of the code, and what each answers.             *)
Stages(m) ==
  <<[passed |-> m.role \in Roles,              answer |-> "validation_failed"],
    [passed |-> BodyIsReadable(m.op, m.body),  answer |-> "invalid_body"],
    [passed |-> FileIsAcceptable(m.op, m.body),
     answer |-> "validation_failed"],
    [passed |-> RoleIsAllowed(m.op, m.role),   answer |-> "forbidden"],
    [passed |-> m.op = "create_case" \/ Exists(m.key), answer |-> "not_found"],
    [passed |-> ~ IdIsTaken(m.op, m.key, m.request),
     answer |-> "revision_conflict"],
    [passed |-> ~ IsPrior(m.op, m.key, m.request), answer |-> "ok"],
    [passed |-> IsCurrent(m.op, m.key, m.revision),
     answer |-> "revision_conflict"]>>

(* What the domain refuses is answered by one of several codes that no     *)
(* property tells apart.                                                   *)
Answer(m) ==
  LET stages == Stages(m)
      failed == {i \in DOMAIN stages : ~ stages[i].passed}
  IN  IF failed # {} THEN stages[Min(failed)].answer
      ELSE IF Effects(m) = {} THEN "domain_error"
      ELSE "ok"

----------------------------------------------------------------------------

HttpInit == Init /\ done = {}

(* The messages that pass every check.  A creation names no revision, and  *)
(* the id of its case follows from its sender and its request id.          *)
Passing(op, key) ==
  {m \in [op : {op}, key : {key}, who : Names,
          role : {role \in Roles : RoleIsAllowed(op, role)},
          request : {r \in Requests : /\ ~ IdIsTaken(op, key, r)
                                      /\ ~ IsPrior(op, key, r)},
          revision : {n \in 0 .. MaxRevision : IsCurrent(op, key, n)},
          body : {b \in Bodies[op] : /\ BodyIsReadable(op, b)
                                     /\ FileIsAcceptable(op, b)}] :
     IF op = "create_case"
     THEN key = <<m.who, m.request>> /\ m.revision = 0
     ELSE Exists(key)}

(* Bound: nothing is computed from a case at MaxRevision.                  *)
Handle(m) ==
  /\ Exists(m.key) => db[m.key].case.revision < MaxRevision
  /\ \E c \in Effects(m) :
       db' = [db EXCEPT ![m.key] =
                Saved(IF Exists(m.key) THEN db[m.key].audit ELSE <<>>, c)]
  /\ done' = done \cup {m}

HttpNext ==
  \E op \in Ops, key \in CaseKeys :
    \E m \in Passing(op, key) : Handle(m)

HttpSpec == HttpInit /\ [][HttpNext]_<<db, done>>

----------------------------------------------------------------------------
(* Properties.                                                             *)

(* The messages of one kind that took effect on a case.                    *)
Done(key, op) == {m \in done : m.key = key /\ m.op = op}

(* Whoever repeats a command that took effect, whatever happened to the    *)
(* case since then, is told that it did: the request id is looked up       *)
(* before revision and state are compared (service.go:222-241, 41-49).  In *)
(* another role, or under another command, its id is worth nothing.        *)
RetryIsAnswered ==
  \A m \in done :
    /\ Answer(m) = "ok"
    /\ \A role \in (Roles \cup {None}) \ {m.role} :
         Answer([m EXCEPT !.role = role]) # "ok"
    /\ m.op = "request_review" =>
         Answer([m EXCEPT !.op = "evaluate",
                          !.role = "technical_director"]) # "ok"

(* An acceptance is of the evidence the reviewer saw, and a signature of   *)
(* the case the reviewer saw, however long they were under way             *)
(* (service.go:237-239): no evidence of an accepted finding is newer than  *)
(* the revision its acceptance named.                                      *)
AcceptedAsSeen ==
  \A key \in Stored :
    LET c == db[key].case
        audit == db[key].audit
    IN  /\ \A f \in Found(c) :
             c.findings[f].status = "accepted" =>
               \E m \in Done(key, "review_finding") :
                 /\ m.body.finding = f /\ m.body.verdict = "accepted"
                 /\ \A i \in DOMAIN audit :
                      /\ audit[i].type = "evidence.submitted"
                      /\ audit[i].finding = f
                      => i <= m.revision
        /\ HasCertificate(c) =>
             \E m \in Done(key, "sign") :
               m.revision + 1 = c.certificate.revision

(* Nobody releases a case alone: a director planned and evaluated it, a    *)
(* lead supplied the evidence of every finding, a reviewer accepted each   *)
(* after that and signed (service.go:73-196, protocol.go:89-109).          *)
ReleaseTakesAllRoles ==
  \A key \in Stored :
    LET c == db[key].case
        By(op, role) == {m \in Done(key, op) : m.role = role}
    IN  c.status = "released" =>
          /\ \E m \in By("replace_plan", "technical_director") :
               m.body = c.plan
          /\ By("evaluate", "technical_director") # {}
          /\ By("sign", "safety_reviewer") # {}
          /\ \A f \in Found(c) :
               \E e \in By("submit_evidence", "mechanical_lead"),
                  a \in By("review_finding", "safety_reviewer") :
                 /\ e.body.finding = f /\ a.body.finding = f
                 /\ e.body.content = c.findings[f].evidence
                 /\ a.body.verdict = "accepted"
                 /\ e.revision < a.revision

(* A file of the documented size passes with the form around it, and a     *)
(* larger one never does (README.md:51, evidence_handler.go:25-38, 65-77). *)
UploadLimitIsExact ==
  \A m \in UNION {Done(key, "submit_evidence") : key \in CaseKeys} :
    \A file \in FileSizes, form \in FormSizes :
      LET n == [m EXCEPT !.body.file = file, !.body.form = form]
      IN  /\ file > MaxEvidenceBytes => Answer(n) # "ok"
          /\ file \in 1 .. MaxEvidenceBytes /\ form <= MultipartOverhead =>
               Answer(n) = Answer(m)

(* Every message that takes effect is one command of the serial service,   *)
(* and no other message is any.                                            *)
ImplementsSerial == Spec

============================================================================

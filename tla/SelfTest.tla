----------------------------- MODULE SelfTest -----------------------------
(***************************************************************************)
(* The self test of cmd/server/selftest.go: the process starts the service *)
(* on a data directory, drives one case from its creation to a verified    *)
(* certificate through the HTTP interface, loads the directory once more,  *)
(* stops the service and exits.  An answer may be late, an operation may   *)
(* fail, and the process may be killed; then somebody starts it again.     *)
(*                                                                         *)
(* The script sends one request at a time, numbers its request ids from 1  *)
(* in every process, and gives up at the first error.  The service executes *)
(* a command at once, as SerialClearance does; a command whose client has  *)
(* stopped waiting may still be executed.  Process has the process around  *)
(* it.                                                                     *)
(***************************************************************************)
EXTENDS SnapshotProperties, SequencesExt, FiniteSetsExt

CONSTANTS
  SmokePlan,       \* the plan of smokeSteps
  SmokeFindings,   \* its findings in the order of the answer
  SmokeContent,    \* the evidence
  Director, Reviewer,
  MinFindings,     \* 4 in the code
  MinEvents,       \* 10 in the code
  MaxTests         \* bound: so many self tests are started

Case == <<Director, 1>>

VARIABLES
  db,        \* the data directory, as in SerialClearance
  temp,      \* the data directory is a temporary one of each process
  stage,     \* where runSelfTest is
  at,        \* the step of the script
  wire,      \* the request of that step
  view,      \* the last answer: the case and its timeline
  verdict,   \* what runSelfTest is going to return
  faulty,    \* something failed in this test or was late
  tests      \* self tests started so far

selfTestVars == <<db, temp, stage, at, wire, view, verdict, faulty, tests>>

----------------------------------------------------------------------------
(* The script.                                                             *)

Step(do, f) == [do |-> do, finding |-> f]

ForEachFinding(do) ==
  [i \in DOMAIN SmokeFindings |-> Step(do, SmokeFindings[i])]

Script ==
  <<Step("create_case", None), Step("replace_plan", None),
    Step("evaluate", None)>>
  \o ForEachFinding("submit_evidence")
  \o <<Step("request_review", None)>>
  \o ForEachFinding("review_finding")
  \o <<Step("sign", None), Step("verify", None), Step("timeline", None),
       Step("reload", None)>>

RequestID(i) == i

Commands == CommandNames \ {"none"}

CommandResults(step, c, r) ==
  CASE step.do = "replace_plan" -> ReplacePlanResults(c, r, SmokePlan)
    [] step.do = "evaluate" -> EvaluateResults(c, r)
    [] step.do = "submit_evidence" ->
         EvidenceResults(c, r, step.finding, SmokeContent, TRUE)
    [] step.do = "request_review" -> RequestReviewResults(c, r)
    [] step.do = "review_finding" ->
         ReviewFindingResults(c, r, step.finding, "accepted", TRUE, Reviewer)
    [] step.do = "sign" -> SignResults(c, r, Reviewer)
    [] OTHER -> {}

(* The plan brings up what the flow asks for, each finding once; its       *)
(* commands leave one event each at least; the reviewer's name is UTF-8.   *)
SelfTestAssumption ==
  /\ SmokePlan \in EvaluablePlans
  /\ SmokeFindings \in Seq(Findings) /\ IsInjective(SmokeFindings)
  /\ ToSet(SmokeFindings) = RuleFindings[SmokePlan]
  /\ MinFindings \in Nat \ {0}
  /\ Cardinality(RuleFindings[SmokePlan]) >= MinFindings
  /\ MinEvents \in Nat /\ MinEvents <= 2 * Len(SmokeFindings) + 5
  /\ SmokeContent \in Contents
  /\ Case \in CaseKeys
  /\ {RequestID(k) : k \in {j \in DOMAIN Script : Script[j].do \in Commands}}
       \subseteq Requests
  /\ {Director, Reviewer} \subseteq Names
  /\ JsonText[Reviewer] = Reviewer
  /\ MaxTests \in Nat

SelfTestTypeOK ==
  /\ db \in [CaseKeys -> Snapshots \cup {None}]
  /\ temp \in BOOLEAN
  /\ stage \in {"off", "start", "ready", "flow", "stop"}
  /\ at \in DOMAIN Script
  /\ wire \in {"quiet", "sent", "answered", "refused"}
  /\ view \in Snapshots \cup {None}
  /\ verdict \in {"none", "pass", "fail", "killed"}
  /\ faulty \in BOOLEAN
  /\ tests \in 0 .. MaxTests

Empty == [key \in CaseKeys |-> None]

SelfTestInit ==
  /\ db = Empty
  /\ temp \in BOOLEAN
  /\ stage = "off"
  /\ at = 1
  /\ wire = "quiet"
  /\ view = None
  /\ verdict = "none"
  /\ faulty = FALSE
  /\ tests = 0

----------------------------------------------------------------------------
(* The service.                                                            *)

(* RequestResult: the id was used before, for this command.                *)
Prior(c, r, command) == c.requests[r].command = command

(* What a command makes of the snapshot: it is there already, or the        *)
(* command takes effect, or it is refused.                                 *)
Executed(s, step, r) ==
  IF s = None
  THEN IF step.do = "create_case"
       THEN {Saved(<<>>, CreatedCase(Case))} ELSE {}
  ELSE IF Prior(s.case, r, step.do) THEN {s}
  ELSE IF IsNewRequest(s.case, r) /\ view.case.revision = s.case.revision
  THEN {Saved(s.audit, c) : c \in CommandResults(step, s.case, r)}
  ELSE {}

Answered ==
  IF stage = "flow"
  THEN wire' = "answered" /\ view' = db'[Case]
  ELSE wire' = "quiet" /\ UNCHANGED view       \* nobody waits any more

ServeCommand ==
  /\ wire = "sent" /\ Script[at].do \in Commands
  /\ \E s \in Executed(db[Case], Script[at], RequestID(at)) :
       db' = [db EXCEPT ![Case] = s]
  /\ Answered
  /\ UNCHANGED <<temp, stage, at, verdict, faulty, tests>>

Verifies(s) ==
  HasCertificate(s.case) /\ VerifyCertificate(s.case.certificate)

ServeQuery ==
  /\ wire = "sent"
  /\ \/ Script[at].do = "timeline"
     \/ Script[at].do = "verify" /\ Verifies(db[Case])
  /\ UNCHANGED db
  /\ Answered
  /\ UNCHANGED <<temp, stage, at, verdict, faulty, tests>>

Refused == wire' = IF stage = "flow" THEN "refused" ELSE "quiet"

(* The command is against the rules of the case.                           *)
Refuse ==
  /\ wire = "sent"
  /\ Script[at].do \in Commands =>
       Executed(db[Case], Script[at], RequestID(at)) = {}
  /\ Script[at].do = "verify" => ~ Verifies(db[Case])
  /\ Script[at].do # "timeline"
  /\ Refused
  /\ UNCHANGED <<db, temp, stage, at, view, verdict, faulty, tests>>

(* The store fails.                                                        *)
Break ==
  /\ wire = "sent"
  /\ Refused
  /\ faulty' = TRUE
  /\ UNCHANGED <<db, temp, stage, at, view, verdict, tests>>

----------------------------------------------------------------------------
(* The process.                                                            *)

Begin ==
  /\ stage = "off" /\ tests < MaxTests
  /\ stage' = "start"
  /\ db' = IF temp THEN Empty ELSE db
  /\ at' = 1 /\ wire' = "quiet" /\ view' = None /\ verdict' = "none"
  /\ faulty' = FALSE
  /\ tests' = tests + 1
  /\ UNCHANGED temp

(* The deferred RemoveAll runs whatever is returned.                       *)
Leave(result) ==
  /\ stage' = "off"
  /\ verdict' = result
  /\ wire' = "quiet"
  /\ db' = IF temp THEN Empty ELSE db

(* BuildRuntime and net.Listen.                                            *)
Start ==
  /\ stage = "start"
  /\ stage' = "ready"
  /\ UNCHANGED <<db, temp, at, wire, view, verdict, faulty, tests>>

StartFails ==
  /\ stage = "start"
  /\ Leave("fail")
  /\ faulty' = TRUE
  /\ UNCHANGED <<temp, at, view, tests>>

(* waitReady asks every 40 ms, until the 20 s of the context are over.     *)
Ready ==
  /\ stage = "ready"
  /\ stage' = "flow"
  /\ UNCHANGED <<db, temp, at, wire, view, verdict, faulty, tests>>

GiveUp ==
  /\ stage' = "stop" /\ verdict' = "fail"
  /\ UNCHANGED <<db, temp, at, view, tests>>

NotReady ==
  /\ stage = "ready"
  /\ GiveUp
  /\ faulty' = TRUE
  /\ UNCHANGED wire

Ask ==
  /\ stage = "flow" /\ wire = "quiet" /\ Script[at].do # "reload"
  /\ wire' = "sent"
  /\ UNCHANGED <<db, temp, stage, at, view, verdict, faulty, tests>>

(* 5 s for the request or 20 s for the flow are over.  The handler goes on *)
(* with a request that was sent.                                           *)
Timeout ==
  /\ stage = "flow"
  /\ GiveUp
  /\ faulty' = TRUE
  /\ wire' = IF wire = "sent" THEN "sent" ELSE "quiet"

(* What the flow checks of an answer; a command that did nothing but       *)
(* answer passes like one that took effect.                                *)
Checked ==
  /\ wire = "answered"
  /\ Script[at].do = "evaluate" =>
       /\ view.case.status = "remediation"
       /\ Cardinality(Found(view.case)) >= MinFindings
  /\ Script[at].do = "sign" => Verifies(view)
  /\ Script[at].do = "timeline" => Len(view.audit) >= MinEvents

Advanced ==
  /\ stage = "flow"
  /\ Checked
  /\ at' = at + 1
  /\ wire' = "quiet"
  /\ UNCHANGED <<db, temp, stage, view, verdict, faulty, tests>>

(* Fault: the error is lost in a variable of an inner scope.               *)
DisappointedInside ==
  /\ stage = "flow"
  /\ wire = "refused" \/ (wire = "answered" /\ ~ Checked)
  /\ stage' = "stop" /\ verdict' = "pass"
  /\ wire' = "quiet"
  /\ UNCHANGED <<db, temp, at, view, faulty, tests>>

Disappointed ==
  /\ stage = "flow"
  /\ wire = "refused" \/ (wire = "answered" /\ ~ Checked)
  /\ GiveUp
  /\ wire' = "quiet"
  /\ UNCHANGED faulty

(* store.New on the directory of the running service, and a verification   *)
(* by a service of its own.                                                *)
Reload ==
  /\ stage = "flow" /\ Script[at].do = "reload"
  /\ stage' = "stop"
  /\ verdict' = IF Verifies(db[Case]) THEN "pass" ELSE "fail"
  /\ UNCHANGED <<db, temp, at, wire, view, faulty, tests>>

(* Shutdown waits for the handlers, 4 s at most.                           *)
Stop ==
  /\ stage = "stop" /\ wire # "sent"
  /\ Leave(verdict)
  /\ UNCHANGED <<temp, at, view, faulty, tests>>

StopLate ==
  /\ stage = "stop" /\ wire = "sent"
  /\ Leave("fail")
  /\ UNCHANGED <<temp, at, view, faulty, tests>>

(* A temporary directory is orphaned then: the next test has its own.      *)
Kill ==
  /\ stage # "off"
  /\ stage' = "off" /\ verdict' = "killed" /\ wire' = "quiet"
  /\ UNCHANGED <<db, temp, at, view, faulty, tests>>

Run ==
  \/ Start \/ StartFails \/ NotReady
  \/ Ask \/ Timeout \/ Advanced \/ Disappointed \/ Reload
  \/ Stop \/ StopLate

Serve == Ready \/ ServeCommand \/ ServeQuery \/ Refuse \/ Break

----------------------------------------------------------------------------
(* Properties.                                                             *)

(* A case that was released on accepted evidence for all that the plan     *)
(* must bring up, each of its requests applied once, with its certificate  *)
(* and its timeline on the disk.                                           *)
EarnedBy(s) ==
  /\ s # None
  /\ s.case.status = "released" /\ Justified(s.case) /\ Verifies(s)
  /\ Cardinality(Found(s.case)) >= MinFindings
  /\ TimelineTells(s) /\ AppliedOnce(s)

============================================================================

----------------------------- MODULE Workbench -----------------------------
(***************************************************************************)
(* The browser page of internal/httpui/web/app.js against the service.     *)
(* Every request is awaited without blocking the page: between two awaits  *)
(* the user goes on clicking, other answers arrive, and other users change *)
(* the cases.  Code after an await reads `state.current' as it is then.    *)
(*                                                                         *)
(* A slot of `tasks' is one chain of awaits that a click began, with the   *)
(* request it waits for.  The request is "sent", then "answered" by the    *)
(* service, and its answer is delivered last; submitting evidence begins   *)
(* with "hash", the awaits on the file and its digest.                     *)
(*                                                                         *)
(* A case without findings comes with `findings: null': toCaseView copies  *)
(* an empty list to a nil one (views.go:61).  Code of the page that reads  *)
(* its length throws, and the handler that called it shows the error.      *)
(*                                                                         *)
(* Abstractions.  A case is its revision, its status and whether it has    *)
(* risks, and its timeline is its revision; it has one finding at most,    *)
(* with the id FindingOf(case).  The list is the ids in it.  The service   *)
(* may refuse any request (role, contents, missing evidence, revision).    *)
(* Toasts, tabs, the filter, the health line and names that no header can  *)
(* carry are left out.                                                     *)
(***************************************************************************)
EXTENDS Naturals

CONSTANTS
  Cases,        \* ids of cases
  Slots,        \* chains of awaits at the same time
  None,         \* no case, no answer, no task
  Scenarios     \* who uses the page, and how far

(* A scenario: whether the user waits until the page is at rest, whether a *)
(* request or an answer may be lost, whether there are other users; and    *)
(* the bounds: what of a case may be stored at the start, what is clicked, *)
(* and the revision no case goes beyond.                                   *)
Statuses == {"draft", "remediation", "pending_review", "released"}

(* A draft was not evaluated, and only risks call for a remediation        *)
(* (case.go:103, 141-145, 212-218).                                        *)
Stored ==
  {c \in [revision : Nat \ {0}, status : Statuses, risks : BOOLEAN] :
     /\ c.status = "draft" => ~ c.risks
     /\ c.status = "remediation" => c.risks}

Views ==
  [id : Cases, revision : Nat \ {0}, status : Statuses, risks : BOOLEAN]
Points == [id : Cases, revision : Nat \ {0}]

(* The changes: the status in which renderCurrent offers their button and  *)
(* the service accepts them, and what the service makes of the case.       *)
Changes ==
  [plan     |-> [from |-> "draft", to |-> {"draft"}, revisions |-> 1],
   evaluate |-> [from |-> "draft", to |-> {"remediation", "pending_review"},
                 revisions |-> 2],
   evidence |-> [from |-> "remediation", to |-> {"remediation"},
                 revisions |-> 1],
   request  |-> [from |-> "remediation", to |-> {"pending_review"},
                 revisions |-> 1],
   review   |-> [from |-> "pending_review",
                 to |-> {"pending_review", "remediation"}, revisions |-> 1],
   sign     |-> [from |-> "pending_review", to |-> {"released"},
                 revisions |-> 1]]

Ops == DOMAIN Changes \cup {"list", "get", "timeline", "create", "verify"}

Answers(op) ==
  CASE op = "list" -> SUBSET Cases
    [] op = "timeline" -> Points
    [] op \in {"create", "verify"} -> Cases
    [] OTHER -> Views

(* An awaited request.  `seen' is what the header had at the click, or     *)
(* when evidence was sent; `of' the case whose plan or finding it carries, *)
(* `certificate' the one to show at the end, and `refresh' whether the     *)
(* timeline follows the list.                                              *)
Tasks(op) ==
  [op : {op}, stage : {"hash", "sent", "answered"}, id : Cases \cup {None},
   revision : Nat, seen : Points \cup {None}, of : Cases \cup {None},
   certificate : Cases \cup {None}, refresh : BOOLEAN,
   answer : Answers(op) \cup {None}]

ASSUME WorkbenchAssumption ==
  /\ None \notin Cases \cup Stored \cup Views \cup Points
  /\ \A cases \in SUBSET Cases : None # cases
  /\ \A op \in Ops : None \notin Tasks(op)
  /\ \A sc \in Scenarios :
       /\ {sc.patient, sc.reliable, sc.others} \subseteq BOOLEAN
       /\ sc.start \subseteq Stored \cup {None}
       /\ sc.maxRevision \in Nat

VARIABLES
  scenario,   \* the scenario, which does not change
  server,     \* the stored cases
  current,    \* state.current: the selected case as it was answered last
  header,     \* the case and revision in the header of the page
  shown,      \* the case below it: what renderCurrent rendered to the end
  rows,       \* the case whose plan is in the table, edited or not
  list,       \* the cases in state.cases
  timeline,   \* state.timeline, and whose it is
  panel,      \* the case whose certificate is in the certificate panel
  dialog,     \* the case whose finding the open evidence dialog is for
  tasks       \* the chains of awaits

(* What is behind the dialog, what is on the page, and the whole.          *)
behind == <<current, header, shown, rows, list, timeline, panel>>
page == <<behind, dialog>>
vars == <<scenario, server, page, tasks>>

TypeOK ==
  /\ scenario \in Scenarios
  /\ server \in [Cases -> Stored \cup {None}]
  /\ current \in Views \cup {None}
  /\ header \in Points \cup {None}
  /\ shown \in Views \cup {None}
  /\ rows \in Cases \cup {None}
  /\ list \subseteq Cases
  /\ timeline \in Points \cup {None}
  /\ panel \in Cases \cup {None}
  /\ dialog \in Cases \cup {None}
  /\ DOMAIN tasks = Slots
  /\ \A s \in Slots :
       tasks[s] = None \/ \E op \in Ops : tasks[s] \in Tasks(op)

Request(op, id) ==
  [op |-> op, stage |-> "sent", id |-> id, revision |-> 0, seen |-> None,
   of |-> None, certificate |-> None, refresh |-> FALSE, answer |-> None]

Await(s, task) == tasks' = [tasks EXCEPT ![s] = task]
End(s) == Await(s, None)
AtRest == \A s \in Slots : tasks[s] = None

(* stableFindingID hashes the id of the case.                              *)
FindingOf(c) == c

View(c) ==
  [id |-> c, revision |-> server[c].revision, status |-> server[c].status,
   risks |-> server[c].risks]
Point(v) == [id |-> v.id, revision |-> v.revision]

----------------------------------------------------------------------------
(* The service.                                                            *)

NewCase == [revision |-> 1, status |-> "draft", risks |-> FALSE]

Changed(op, c) ==
  LET change == Changes[op]
      n == server[c].revision + change.revisions
  IN  IF /\ server[c].status = change.from /\ n <= scenario.maxRevision
         /\ op = "review" => server[c].risks       \* a finding it has
      THEN {[revision |-> n, status |-> status,
             risks |-> IF op = "evaluate" THEN status = "remediation"
                       ELSE server[c].risks] : status \in change.to}
      ELSE {}

Answer(s, answer) ==
  Await(s, [tasks[s] EXCEPT !.stage = "answered", !.answer = answer])

ServeQuery(s) ==
  LET t == tasks[s]
  IN  /\ t.stage = "sent"
      /\ \/ t.op = "list" /\ Answer(s, {c \in Cases : server[c] # None})
         \/ t.op = "get" /\ Answer(s, View(t.id))
         \/ t.op = "timeline" /\ Answer(s, Point(View(t.id)))
         \/ /\ t.op = "verify"
            /\ LET valid == server[t.id].status = "released"
               IN  Answer(s, IF valid THEN t.id ELSE None)
      /\ UNCHANGED <<server, page>>

ServeChange(s) ==
  LET t == tasks[s]
  IN  /\ t.stage = "sent" /\ t.op \in DOMAIN Changes
      /\ t.revision = server[t.id].revision
      /\ t.op \in {"evidence", "review"} => FindingOf(t.of) = FindingOf(t.id)
      /\ t.op = "plan" => t.of # None              \* no plan is empty
      /\ \E stored \in Changed(t.op, t.id) :
           /\ server' = [server EXCEPT ![t.id] = stored]
           /\ Answer(s, [id |-> t.id, revision |-> stored.revision,
                         status |-> stored.status, risks |-> stored.risks])
      /\ UNCHANGED page

ServeCreate(s) ==
  /\ tasks[s].stage = "sent" /\ tasks[s].op = "create"
  /\ \E c \in Cases :
       /\ server[c] = None
       /\ server' = [server EXCEPT ![c] = NewCase]
       /\ Answer(s, c)
  /\ UNCHANGED page

Refuse(s) ==
  /\ tasks[s].stage = "sent"
  /\ tasks[s].op \in DOMAIN Changes \cup {"create"}
  /\ Answer(s, None)
  /\ UNCHANGED <<server, page>>

(* Another user changes or creates a case.                                 *)
OtherUser(c) ==
  /\ scenario.others
  /\ \E stored \in IF server[c] = None THEN {NewCase}
                   ELSE UNION {Changed(op, c) : op \in DOMAIN Changes} :
       server' = [server EXCEPT ![c] = stored]
  /\ UNCHANGED <<page, tasks>>

----------------------------------------------------------------------------
(* Clicks.  While the evidence dialog is open the rest of the page is      *)
(* inert.                                                                  *)

CanUse(button) ==
  dialog = None /\ (scenario.patient => AtRest) /\ button \in scenario.clicks

Free(s) == tasks[s] = None /\ (scenario.patient => AtRest)
CanClick(s, button) == tasks[s] = None /\ CanUse(button)

(* A case of the list, or the refresh button.                              *)
SelectCase(s, c) ==
  /\ CanClick(s, "get")
  /\ c \in list \/ (current # None /\ c = current.id)
  /\ Await(s, Request("get", c))
  /\ UNCHANGED <<server, page>>

(* The page comes with its buttons enabled.                                *)
Offered(op) ==
  /\ op # "evidence"                        \* it has a form of its own
  /\ current # None
  /\ IF shown = None THEN op # "review" ELSE shown.status = Changes[op].from

(* The table is edited, for the case in the header.                        *)
EditPlan ==
  /\ CanUse("plan")
  /\ Offered("plan")
  /\ rows' = current.id
  /\ UNCHANGED <<server, current, header, shown, list, timeline, panel,
                 dialog, tasks>>

ClickChange(s, op) ==
  /\ CanClick(s, op)
  /\ Offered(op)
  /\ Await(s, [Request(op, current.id) EXCEPT
                 !.revision = current.revision, !.seen = header,
                 !.of = CASE op = "plan" -> rows
                          [] op = "review" -> shown.id
                          [] OTHER -> None])
  /\ UNCHANGED <<server, page>>

ClickCreate(s) ==
  /\ CanClick(s, "create")
  /\ Await(s, Request("create", None))
  /\ UNCHANGED <<server, page>>

(* Number and code of any certificate, from anywhere.                      *)
ClickVerify(s, c) ==
  /\ CanClick(s, "verify")
  /\ server[c] # None
  /\ Await(s, Request("verify", c))
  /\ UNCHANGED <<server, page>>

OpenEvidence ==
  /\ CanUse("evidence")
  /\ shown # None /\ shown.status = "remediation"
  /\ current # None /\ current.risks
  /\ FindingOf(shown.id) = FindingOf(current.id)
  /\ dialog' = current.id
  /\ UNCHANGED <<server, behind, tasks>>

CloseEvidence ==
  /\ dialog # None
  /\ dialog' = None
  /\ UNCHANGED <<server, behind, tasks>>

ClickSubmit(s) ==
  /\ Free(s)
  /\ dialog # None
  /\ Await(s, [Request("evidence", None) EXCEPT
                 !.stage = "hash", !.of = dialog])
  /\ UNCHANGED <<server, page>>

(* The digest is there, and the request is made for what is selected now.  *)
SubmitEvidence(s) ==
  LET t == tasks[s]
  IN  /\ t.stage = "hash"
      /\ IF current = None
         THEN End(s)                               \* a TypeError, caught
         ELSE Await(s, [t EXCEPT !.stage = "sent", !.id = current.id,
                                 !.revision = current.revision,
                                 !.seen = header])
      /\ UNCHANGED <<server, page>>

----------------------------------------------------------------------------
(* Answers arrive.                                                         *)

(* renderCurrent, right after state.current is assigned: it gets no further *)
(* than the number of risks if there are none (app.js:141).                *)
Render(view) ==
  /\ current' = view
  /\ header' = Point(view)
  /\ IF view.risks
     THEN /\ shown' = view
          /\ rows' = view.id
          /\ panel' = IF view.status = "released" THEN view.id ELSE None
     ELSE UNCHANGED <<shown, rows, panel>>

Arrived(s, op) ==
  /\ tasks[s].stage = "answered" /\ tasks[s].op = op
  /\ tasks[s].answer # None

(* The end of selectCase and of who awaited it: signCase and               *)
(* verifyCertificate put their certificate into the panel.                 *)
EndOfSelect(s) ==
  /\ End(s)
  /\ panel' = IF tasks[s].certificate = None THEN panel
              ELSE tasks[s].certificate

LoadTimeline(s, view, certificate) ==
  Await(s, [Request("timeline", view.id) EXCEPT !.certificate = certificate])

(* Fault: the page is rendered when the timeline is there as well.         *)
SelectedUnrendered(s) ==
  /\ Arrived(s, "get")
  /\ current' = tasks[s].answer
  /\ LoadTimeline(s, tasks[s].answer, tasks[s].certificate)
  /\ UNCHANGED <<server, header, shown, rows, panel, list, timeline, dialog>>

Selected(s) ==
  /\ Arrived(s, "get")
  /\ LET view == tasks[s].answer
         certificate == tasks[s].certificate
     IN  IF view.risks
         THEN Render(view) /\ LoadTimeline(s, view, certificate)
         ELSE /\ current' = view /\ header' = Point(view)
              /\ EndOfSelect(s)
              /\ UNCHANGED <<shown, rows>>
  /\ UNCHANGED <<server, list, timeline, dialog>>

TimelineLoaded(s) ==
  /\ Arrived(s, "timeline")
  /\ timeline' = tasks[s].answer
  /\ EndOfSelect(s)
  /\ UNCHANGED <<server, current, header, shown, rows, list, dialog>>

(* The rest of loadCases and, after a change, of refreshAfterMutation.     *)
AfterList(s, cases, view) ==
  /\ list' = cases
  /\ current' = view
  /\ IF tasks[s].refresh /\ view # None
     THEN LoadTimeline(s, view, None)
     ELSE End(s)

ListLoaded(s) ==
  /\ Arrived(s, "list")
  /\ LET cases == tasks[s].answer
         gone == current # None /\ current.id \notin cases
     IN  AfterList(s, cases, IF gone THEN None ELSE current)
  /\ UNCHANGED <<server, header, shown, rows, timeline, panel, dialog>>

(* Fault: the list and the timeline are not loaded again.                  *)
ChangedUnrefreshed(s) ==
  /\ \E op \in DOMAIN Changes \ {"sign"} : Arrived(s, op)
  /\ Render(tasks[s].answer)
  /\ dialog' = IF tasks[s].op = "evidence" THEN None ELSE dialog
  /\ End(s)
  /\ UNCHANGED <<server, list, timeline>>

(* A change is answered: its case becomes the selected one, whatever was.  *)
(* Without risks, evaluateCase throws before it renders (app.js:320).      *)
ChangeDone(s) ==
  /\ \E op \in DOMAIN Changes \ {"sign"} : Arrived(s, op)
  /\ LET view == tasks[s].answer
     IN  /\ IF tasks[s].op = "evaluate" /\ ~ view.risks
            THEN current' = view /\ UNCHANGED <<header, shown, rows, panel>>
            ELSE Render(view)
         /\ IF view.risks
            THEN Await(s, [Request("list", None) EXCEPT !.refresh = TRUE])
            ELSE End(s)
  /\ dialog' = IF tasks[s].op = "evidence" THEN None ELSE dialog
  /\ UNCHANGED <<server, list, timeline>>

(* The selected case is loaded again, be it the signed one or not.         *)
Signed(s) ==
  /\ Arrived(s, "sign")
  /\ IF current = None
     THEN End(s)                                   \* a TypeError, caught
     ELSE Await(s, [Request("get", current.id) EXCEPT
                      !.certificate = tasks[s].answer.id])
  /\ UNCHANGED <<server, page>>

Verified(s) ==
  /\ Arrived(s, "verify")
  /\ LET c == tasks[s].answer
     IN  IF c \in list
         THEN /\ Await(s, [Request("get", c) EXCEPT !.certificate = c])
              /\ UNCHANGED panel
         ELSE End(s) /\ panel' = c
  /\ UNCHANGED <<server, current, header, shown, rows, list, timeline, dialog>>

(* createCase closes the dialog and resets its form by event.currentTarget, *)
(* which the browser has set to null when the click was over: the rest, a  *)
(* toast and loadCases(created.id), is never reached.                      *)
Created(s) ==
  /\ Arrived(s, "create")
  /\ End(s)
  /\ UNCHANGED <<server, page>>

(* An error answer, or a request or answer that is lost.  Every function   *)
(* catches the errors of its own awaits, so who awaits it goes on.         *)
Failed(s) ==
  LET t == tasks[s]
  IN  /\ \/ t.stage = "answered" /\ t.answer = None
         \/ t.stage \in {"sent", "answered"} /\ ~ scenario.reliable
      /\ CASE t.op \in {"get", "timeline"} ->
             EndOfSelect(s) /\ UNCHANGED <<current, list>>
           [] t.op = "list" -> AfterList(s, list, current) /\ UNCHANGED panel
           [] OTHER -> End(s) /\ UNCHANGED <<current, list, panel>>
      /\ UNCHANGED <<server, header, shown, rows, timeline, dialog>>

----------------------------------------------------------------------------

(* A page that has just started to load the list.                          *)
Starting(s) ==
  [t \in Slots |-> IF t = s THEN Request("list", None) ELSE None]

Init ==
  /\ scenario \in Scenarios
  /\ server \in [Cases -> scenario.start]
  /\ current = None
  /\ header = None
  /\ shown = None
  /\ rows = None
  /\ list = {}
  /\ timeline = None
  /\ panel = None
  /\ dialog = None
  /\ \E s \in Slots : tasks = Starting(s)

(* The browser's reload.  A request that was sent may still be served      *)
(* after it, as by another user.                                           *)
Reload(s) ==
  /\ scenario.patient => AtRest
  /\ tasks' = Starting(s)
  /\ current' = None
  /\ header' = None
  /\ shown' = None
  /\ rows' = None
  /\ list' = {}
  /\ timeline' = None
  /\ panel' = None
  /\ dialog' = None
  /\ UNCHANGED server

Serve(s) ==
  tasks[s] # None /\
    (ServeQuery(s) \/ ServeChange(s) \/ ServeCreate(s) \/ Refuse(s))

Continue(s) ==
  tasks[s] # None /\
    \/ SubmitEvidence(s)
    \/ Selected(s) \/ TimelineLoaded(s) \/ ListLoaded(s)
    \/ ChangeDone(s) \/ Signed(s) \/ Verified(s) \/ Created(s)
    \/ Failed(s)

Click(s) ==
  \/ \E c \in Cases : SelectCase(s, c) \/ ClickVerify(s, c)
  \/ \E op \in DOMAIN Changes : ClickChange(s, op)
  \/ ClickCreate(s)
  \/ ClickSubmit(s)

Next ==
  /\ \/ \E s \in Slots : Click(s) \/ Serve(s) \/ Continue(s) \/ Reload(s)
     \/ EditPlan \/ OpenEvidence \/ CloseEvidence
     \/ \E c \in Cases : OtherUser(c)
  /\ UNCHANGED scenario

Spec == Init /\ [][Next]_vars

----------------------------------------------------------------------------
(* Properties.                                                             *)

(* Whatever arrives while the user looks at the page, a change that the    *)
(* service accepts replaces the very revision that was in the header when  *)
(* the user clicked, and evidence the one that was there when the file had *)
(* been read and it was sent (app.js:136-138, 304-310, 361-368, 399).      *)
(* Except the signature of a case without risks, whose evaluation on this  *)
(* page may not have been rendered.                                        *)
ChangesWereSeen ==
  \A s \in Slots :
    LET t == tasks[s]
    IN  (/\ t # None /\ t.op \in DOMAIN Changes
         /\ t.op = "sign" => server[t.id].risks
         /\ ServeChange(s)) =>
          t.seen = Point(View(t.id))

ChangesAreBasedOnTheScreen == [][ChangesWereSeen]_vars

IsCalm(sc) == sc.patient /\ sc.reliable /\ ~ sc.others

(* For a user who waits, on a network that loses nothing, without other    *)
(* users: at rest every part of the page tells what the service has of the *)
(* selected case, if it has risks (app.js:112-150, 442-445).               *)
ScreenIsTrue ==
  (IsCalm(scenario) /\ AtRest /\ current # None /\ current.risks) =>
    /\ current = View(current.id)
    /\ shown = current
    /\ header = Point(current)
    /\ timeline = Point(current)
    /\ rows = current.id
    /\ panel = IF current.status = "released" THEN current.id ELSE None
    /\ current.id \in list

============================================================================

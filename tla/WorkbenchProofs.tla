-------------------------- MODULE WorkbenchProofs --------------------------
(***************************************************************************)
(* The properties of Workbench for any number of cases, of chains of       *)
(* awaits, and any scenarios.                                              *)
(*                                                                         *)
(* That a change replaces what was on the screen rests on what the page    *)
(* may be holding (IInv): every view in it or on its way to it is of a     *)
(* revision the service had, and is the stored case while that revision is *)
(* the last.  A header may be behind the selected case only when that case *)
(* waits for its review without a risk, and of what the page offers then   *)
(* the service accepts the signature alone.                                *)
(*                                                                         *)
(* That the screen of a calm user is true needs what each chain of awaits  *)
(* leaves to be done, and that there is one chain at a time (CalmInv).     *)
(***************************************************************************)
EXTENDS Workbench, TLAPS

ServerType == [Cases -> Stored \cup {None}]

Existing(stored) == {c \in Cases : stored[c] # None}

(* A view that a service that stores this once gave out.                   *)
Known(stored, v) ==
  LET c == stored[v.id]
  IN  /\ v \in Views
      /\ v.id \in Existing(stored)
      /\ v.revision <= c.revision
      /\ v.revision = c.revision => v.status = c.status /\ v.risks = c.risks
      /\ v.status # "draft" => c.status # "draft" /\ v.risks = c.risks

(* A change that was made with another revision in the header than the one *)
(* it is sent with comes to nothing, unless it is the signature of a case  *)
(* without risks; a judgment is sent from a case with risks.               *)
WasSeen(stored, t) ==
  LET c == stored[t.id]
  IN  /\ t.revision <= c.revision
      /\ \/ t.seen = [id |-> t.id, revision |-> t.revision]
         \/ t.revision = c.revision => c.status = "pending_review" /\ ~ c.risks
      /\ t.op = "review" /\ t.of = t.id => c.status # "draft" /\ c.risks

Answered(stored, t) ==
  /\ t.op = "list" => t.answer \subseteq Existing(stored)
  /\ t.op = "verify" => t.answer \in Existing(stored)
  /\ t.op \in DOMAIN Changes \cup {"get"} => Known(stored, t.answer)
  /\ t.op = "evaluate" => t.answer.risks \/ t.answer.status = "pending_review"

TaskOK(stored, t) ==
  /\ t.op \in Ops /\ t \in Tasks(t.op)
  /\ t.stage = "hash" => t.op = "evidence"
  /\ t.op \notin {"list", "create"} /\ t.stage # "hash" =>
       t.id \in Existing(stored)
  /\ t.op \in DOMAIN Changes /\ t.stage # "hash" => WasSeen(stored, t)
  /\ t.answer # None => Answered(stored, t)

ServerOK == scenario \in Scenarios /\ server \in ServerType

PageOK ==
  /\ current # None => Known(server, current)
  /\ header \in Points \cup {None}
  /\ current # None =>
       \/ header = Point(current)
       \/ current.status = "pending_review" /\ ~ current.risks
  /\ shown # None => Known(server, shown) /\ shown.risks
  /\ rows \in Cases \cup {None}
  /\ list \subseteq Existing(server)
  /\ timeline \in Points \cup {None}
  /\ panel \in Cases \cup {None}
  /\ dialog \in Cases \cup {None}

TasksOK ==
  /\ tasks = [s \in Slots |-> tasks[s]]
  /\ \A s \in Slots : tasks[s] # None => TaskOK(server, tasks[s])

IInv == ServerOK /\ PageOK /\ TasksOK

(* What is on the screen of the selected case, but for its timeline.       *)
Rendered ==
  /\ current # None /\ current.risks
  /\ current = View(current.id)
  /\ shown = current
  /\ header = Point(current)
  /\ rows = current.id
  /\ panel = IF current.status = "released" THEN current.id ELSE None

ScreenTells ==
  current # None /\ current.risks => Rendered /\ timeline = Point(current)

(* What a chain of awaits in a calm scenario finds or leaves to be done.   *)
CalmTask(t) ==
  /\ t.certificate # None =>
       /\ t.op \in {"get", "timeline"}
       /\ t.certificate = t.id /\ server[t.id].status = "released"
  /\ t.refresh => t.op = "list"
  /\ t.answer # None => t.stage = "answered"
  /\ t.op = "list" =>
       /\ IF t.refresh THEN Rendered ELSE current = None
       /\ t.stage = "answered" => t.answer = Existing(server)
  /\ t.op = "get" =>
       /\ t.id \in list
       /\ t.stage = "answered" => t.answer = View(t.id)
  /\ t.op = "timeline" =>
       /\ Rendered /\ t.id = current.id
       /\ t.stage = "answered" => t.answer = Point(current)
  /\ t.op \in {"verify", "create"} => ScreenTells
  /\ t.op = "verify" /\ t.answer # None =>
       server[t.answer].status = "released"
  /\ t.op \in DOMAIN Changes =>
       /\ t.stage # "hash" => current # None /\ t.id = current.id
       /\ IF t.answer = None THEN ScreenTells ELSE t.answer = View(t.id)
       /\ t.op = "sign" /\ t.answer # None => t.answer.status = "released"

CalmOK ==
  /\ \A s, t \in Slots : tasks[s] # None /\ tasks[t] # None => s = t
  /\ current # None => current.id \in list
  /\ \/ \A c \in Existing(server) \ list : server[c].status = "draft"
     \/ \E s \in Slots :
          tasks[s] # None /\ tasks[s].op = "list" /\ ~ tasks[s].refresh
  /\ AtRest => ScreenTells
  /\ \A s \in Slots : tasks[s] # None => CalmTask(tasks[s])

CalmInv == IsCalm(scenario) => CalmOK

----------------------------------------------------------------------------
(* The service.                                                            *)

(* What a service may have made of what it stored: no case is forgotten,   *)
(* none changes within a revision, and none gets risks or loses them after *)
(* it was evaluated.                                                       *)
Grown(old, new) ==
  \A c \in Existing(old) :
    /\ new[c] # None
    /\ new[c] = old[c] \/ new[c].revision > old[c].revision
    /\ old[c].status # "draft" =>
         new[c].status # "draft" /\ new[c].risks = old[c].risks

LEMMA StoredFacts ==
  ASSUME NEW sv \in ServerType, NEW c \in Existing(sv)
  PROVE  /\ c \in Cases /\ sv[c] \in Stored /\ sv[c].revision \in Nat \ {0}
         /\ sv[c].status \in Statuses /\ sv[c].risks \in BOOLEAN
         /\ sv[c].status = "draft" => ~ sv[c].risks
         /\ sv[c].status = "remediation" => sv[c].risks
  <1>1. c \in Cases /\ sv[c] \in Stored
    BY DEF ServerType, Existing
  <1> QED
    BY <1>1 DEF Stored

LEMMA GrownIsReflexive == \A sv : Grown(sv, sv)
  BY DEF Grown, Existing

LEMMA KnownStays ==
  ASSUME NEW sv \in ServerType, NEW sw \in ServerType, Grown(sv, sw),
         NEW v, Known(sv, v)
  PROVE  Known(sw, v)
  <1>1. v \in Views /\ v.id \in Existing(sv) /\ v.revision \in Nat
    BY DEF Known, Views
  <1>2. v.id \in Existing(sw)
    BY <1>1 DEF Grown, Existing
  <1>3. sv[v.id].revision \in Nat /\ sw[v.id].revision \in Nat
    BY <1>1, <1>2, StoredFacts
  <1> QED
    BY <1>1, <1>2, <1>3 DEF Known, Grown

LEMMA SeenStays ==
  ASSUME NEW sv \in ServerType, NEW sw \in ServerType, Grown(sv, sw),
         NEW t, t.id \in Existing(sv), t.revision \in Nat, WasSeen(sv, t)
  PROVE  WasSeen(sw, t)
  <1>1. t.id \in Existing(sw)
    BY DEF Grown, Existing
  <1>2. sv[t.id].revision \in Nat /\ sw[t.id].revision \in Nat
    BY <1>1, StoredFacts
  <1> QED
    BY <1>1, <1>2 DEF WasSeen, Grown

LEMMA TaskFacts ==
  ASSUME NEW sv \in ServerType, NEW t, TaskOK(sv, t)
  PROVE  /\ t.op \in Ops /\ t \in Tasks(t.op)
         /\ t.stage \in {"hash", "sent", "answered"}
         /\ t.id \in Cases \cup {None} /\ t.revision \in Nat
         /\ t.of \in Cases \cup {None} /\ t.certificate \in Cases \cup {None}
         /\ t.answer \in Answers(t.op) \cup {None}
         /\ t.refresh \in BOOLEAN
  BY DEF TaskOK, Tasks

LEMMA TaskStays ==
  ASSUME NEW sv \in ServerType, NEW sw \in ServerType, Grown(sv, sw),
         NEW t, TaskOK(sv, t)
  PROVE  TaskOK(sw, t)
  <1>1. t.op \in Ops /\ t \in Tasks(t.op) /\ t.revision \in Nat
    BY TaskFacts
  <1>2. Existing(sv) \subseteq Existing(sw)
    BY DEF Grown, Existing
  <1>3. t.op \in DOMAIN Changes /\ t.stage # "hash" => WasSeen(sw, t)
    <2> SUFFICES ASSUME t.op \in DOMAIN Changes, t.stage # "hash"
                 PROVE  WasSeen(sw, t)
      OBVIOUS
    <2>1. t.op \notin {"list", "create"}
      BY DEF Changes, TaskOK
    <2>2. t.id \in Existing(sv) /\ WasSeen(sv, t)
      BY <2>1 DEF TaskOK
    <2> QED
      BY <1>1, <2>2, SeenStays
  <1>4. t.answer # None => Answered(sw, t)
    <2> SUFFICES ASSUME t.answer # None, Answered(sv, t)
                 PROVE  Answered(sw, t)
      BY DEF TaskOK
    <2> QED
      BY <1>2, KnownStays DEF Answered
  <1> QED
    BY <1>1, <1>2, <1>3, <1>4 DEF TaskOK

(* What the service makes of a case by a change.                           *)
LEMMA ChangedFacts ==
  ASSUME ServerOK, NEW op \in DOMAIN Changes, NEW c \in Existing(server),
         NEW stored \in Changed(op, c)
  PROVE  /\ stored \in Stored
         /\ stored.revision > server[c].revision
         /\ server[c].status = Changes[op].from
         /\ stored.status \in Changes[op].to
         /\ stored.status # "draft" \/ server[c].status = "draft"
         /\ server[c].status # "draft" => stored.risks = server[c].risks
  <1>1. /\ server[c].revision \in Nat \ {0} /\ server[c].risks \in BOOLEAN
        /\ server[c].status = "draft" => ~ server[c].risks
        /\ server[c].status = "remediation" => server[c].risks
    BY StoredFacts DEF ServerOK
  <1>2. /\ Changes[op].revisions \in Nat \ {0}
        /\ Changes[op].to \subseteq Statuses
        /\ op \in {"plan", "evaluate", "evidence", "request", "review", "sign"}
    BY DEF Changes, Statuses
  <1>3. /\ server[c].status = Changes[op].from
        /\ stored.status \in Changes[op].to
        /\ stored.revision = server[c].revision + Changes[op].revisions
        /\ stored.risks = IF op = "evaluate" THEN stored.status = "remediation"
                          ELSE server[c].risks
        /\ stored = [revision |-> stored.revision, status |-> stored.status,
                     risks |-> stored.risks]
        /\ op = "review" => server[c].risks
    BY DEF Changed
  <1>4. /\ stored.revision > server[c].revision
        /\ stored.revision \in Nat \ {0}
    BY <1>1, <1>2, <1>3
  <1>5. /\ server[c].status # "draft" => op # "evaluate"
        /\ stored.status = "draft" =>
             op = "plan" /\ server[c].status = "draft"
        /\ stored.status = "remediation" =>
             \/ op \in {"evaluate", "review"}
             \/ server[c].status = "remediation"
    BY <1>2, <1>3 DEF Changes
  <1>6. stored \in Stored
    BY <1>1, <1>2, <1>3, <1>4, <1>5 DEF Stored
  <1> QED
    BY <1>3, <1>4, <1>5, <1>6


LEMMA ServerGrows ==
  ASSUME ServerOK, NEW c \in Cases, NEW stored \in Stored,
         server' = [server EXCEPT ![c] = stored], UNCHANGED scenario,
         server[c] = None \/ \E op \in DOMAIN Changes : stored \in Changed(op, c)
  PROVE  /\ ServerOK' /\ Grown(server, server')
         /\ server'[c] = stored /\ c \in Existing(server')
  <1>1. server \in ServerType /\ stored # None
    BY WorkbenchAssumption DEF ServerOK, WorkbenchAssumption
  <1>2. server'[c] = stored /\ \A d \in Cases : d # c => server'[d] = server[d]
    BY <1>1 DEF ServerType
  <1>3. ServerOK'
    BY <1>1 DEF ServerOK, ServerType
  <1>4. c \in Existing(server')
    BY <1>1, <1>2 DEF Existing
  <1>5. CASE server[c] = None
    BY <1>1, <1>2, <1>3, <1>4, <1>5 DEF Grown, Existing
  <1>6. CASE server[c] # None
    <2>1. PICK op \in DOMAIN Changes : stored \in Changed(op, c)
      BY <1>6
    <2>2. c \in Existing(server)
      BY <1>6 DEF Existing
    <2>3. /\ stored.revision > server[c].revision
          /\ server[c].status # "draft" =>
               stored.status # "draft" /\ stored.risks = server[c].risks
      BY <2>1, <2>2, ChangedFacts
    <2> QED
      BY <1>1, <1>2, <1>3, <1>4, <2>3 DEF Grown, Existing
  <1> QED
    BY <1>5, <1>6

LEMMA ViewIsKnown ==
  ASSUME NEW sv \in ServerType, NEW c \in Existing(sv), NEW v,
         v = [id |-> c, revision |-> sv[c].revision, status |-> sv[c].status,
              risks |-> sv[c].risks]
  PROVE  Known(sv, v) /\ v.id = c /\ v.status = sv[c].status
  <1>1. /\ c \in Cases /\ sv[c].revision \in Nat \ {0}
        /\ sv[c].status \in Statuses /\ sv[c].risks \in BOOLEAN
    BY StoredFacts
  <1> QED
    BY <1>1 DEF Known, Views

LEMMA PointOfKnown ==
  ASSUME NEW sv \in ServerType, NEW v, Known(sv, v)
  PROVE  /\ Point(v) = [id |-> v.id, revision |-> v.revision]
         /\ Point(v) \in Points /\ v \in Views /\ v.id \in Existing(sv)
         /\ v.id \in Cases
  BY DEF Known, Point, Points, Views, Existing

LEMMA PageStays ==
  ASSUME ServerOK, ServerOK', Grown(server, server'), PageOK, UNCHANGED page
  PROVE  PageOK'
  <1>1. server \in ServerType /\ server' \in ServerType
    BY DEF ServerOK
  <1>2. Existing(server) \subseteq Existing(server')
    BY DEF Grown, Existing
  <1>3. \A v : Known(server, v) => Known(server', v)
    BY <1>1, KnownStays
  <1> QED
    BY <1>2, <1>3 DEF PageOK, page, behind, Point

LEMMA OneTask ==
  ASSUME ServerOK, ServerOK', Grown(server, server'), TasksOK,
         NEW s \in Slots, NEW x, x = None \/ TaskOK(server', x),
         tasks' = [tasks EXCEPT ![s] = x]
  PROVE  TasksOK'
  <1>1. server \in ServerType /\ server' \in ServerType
    BY DEF ServerOK
  <1>2. \A t : TaskOK(server, t) => TaskOK(server', t)
    BY <1>1, TaskStays
  <1>3. \A r \in Slots : tasks'[r] = IF r = s THEN x ELSE tasks[r]
    BY DEF TasksOK
  <1>4. tasks' = [r \in Slots |-> tasks'[r]]
    BY DEF TasksOK
  <1> QED
    BY <1>2, <1>3, <1>4 DEF TasksOK

LEMMA NoTaskChanges ==
  ASSUME ServerOK, ServerOK', Grown(server, server'), TasksOK, UNCHANGED tasks
  PROVE  TasksOK'
  <1>1. \A t : TaskOK(server, t) => TaskOK(server', t)
    BY TaskStays DEF ServerOK
  <1> QED
    BY <1>1 DEF TasksOK

LEMMA ServerStays ==
  ASSUME ServerOK, UNCHANGED <<scenario, server>>
  PROVE  ServerOK' /\ Grown(server, server')
  BY GrownIsReflexive DEF ServerOK

LEMMA AnswerOK ==
  ASSUME ServerOK, ServerOK', Grown(server, server'), TasksOK,
         NEW s \in Slots, tasks[s] # None, tasks[s].stage = "sent",
         NEW a \in Answers(tasks[s].op) \cup {None}, Answer(s, a),
         \A x : x.op = tasks[s].op /\ x.answer = a /\ a # None =>
                  Answered(server', x)
  PROVE  TasksOK'
  <1> DEFINE t == tasks[s]
             x == [t EXCEPT !.stage = "answered", !.answer = a]
  <1>1. server \in ServerType /\ server' \in ServerType
    BY DEF ServerOK
  <1>2. TaskOK(server, t)
    BY DEF TasksOK
  <1>3. TaskOK(server', t) /\ t \in Tasks(t.op) /\ t.op \in Ops
    BY <1>1, <1>2, TaskStays DEF TaskOK
  <1>4. /\ x \in Tasks(t.op)
        /\ x.stage = "answered" /\ x.answer = a
        /\ x.op = t.op /\ x.id = t.id /\ x.revision = t.revision
        /\ x.seen = t.seen /\ x.of = t.of
    BY <1>3 DEF Tasks
  <1>5. a # None => Answered(server', x)
    BY <1>4
  <1>6. tasks' = [tasks EXCEPT ![s] = x]
    BY DEF Answer, Await
  <1> HIDE DEF x
  <1>7. x.op \in DOMAIN Changes => WasSeen(server', x)
    BY <1>3, <1>4 DEF TaskOK, WasSeen
  <1>8. TaskOK(server', x)
    BY <1>3, <1>4, <1>5, <1>7 DEF TaskOK
  <1> QED
    BY <1>6, <1>8, OneTask

(* One step of the service.                                                *)
LEMMA ServeQueryInv ==
  ASSUME IInv, UNCHANGED scenario, NEW s \in Slots, tasks[s] # None,
         ServeQuery(s)
  PROVE  IInv'
  <1> DEFINE t == tasks[s]
  <1>1. /\ ServerOK /\ PageOK /\ TasksOK /\ server \in ServerType
        /\ t.stage = "sent" /\ UNCHANGED <<server, page>>
    BY DEF IInv, ServerOK, ServeQuery
  <1>2. ServerOK' /\ Grown(server, server') /\ PageOK' /\ server' = server
    BY <1>1, ServerStays, PageStays
  <1>3. TaskOK(server, t) /\ t.op \in Ops
    BY <1>1 DEF TasksOK, TaskOK
  <1>4. t.op \in {"get", "timeline", "verify"} => t.id \in Existing(server)
    BY <1>1, <1>3 DEF TaskOK
  <1>5. CASE t.op = "list" /\ Answer(s, {c \in Cases : server[c] # None})
    <2> DEFINE a == {c \in Cases : server[c] # None}
    <2>1. a \in Answers(t.op) \cup {None}
      BY <1>5 DEF Answers
    <2>2. ASSUME NEW x, x.op = "list", x.answer = a
          PROVE  Answered(server', x)
      BY <1>2, <2>2 DEF Answered, Existing, Changes
    <2> QED
      BY <1>1, <1>2, <1>5, <2>1, <2>2, AnswerOK DEF IInv
  <1>6. CASE t.op = "get" /\ Answer(s, View(t.id))
    <2> DEFINE a == View(t.id)
    <2>1. Known(server', a)
      BY <1>1, <1>2, <1>4, <1>6, ViewIsKnown DEF View
    <2>2. a \in Answers(t.op) \cup {None}
      BY <1>6, <2>1 DEF Answers, Known
    <2>3. ASSUME NEW x, x.op = "get", x.answer = a
          PROVE  Answered(server', x)
      BY <2>1, <2>3 DEF Answered, Changes
    <2> HIDE DEF a
    <2> QED
      BY <1>1, <1>2, <1>6, <2>2, <2>3, AnswerOK DEF IInv, a
  <1>7. CASE t.op = "timeline" /\ Answer(s, Point(View(t.id)))
    <2> DEFINE a == Point(View(t.id))
    <2>1. Known(server, View(t.id))
      BY <1>1, <1>4, <1>7, ViewIsKnown DEF View
    <2>2. a \in Points
      BY <1>1, <2>1, PointOfKnown
    <2> HIDE DEF a
    <2>3. a \in Answers(t.op) \cup {None}
      BY <1>7, <2>2 DEF Answers
    <2>4. ASSUME NEW x, x.op = "timeline"
          PROVE  Answered(server', x)
      BY <2>4 DEF Answered, Changes
    <2> QED
      BY <1>1, <1>2, <1>7, <2>3, <2>4, AnswerOK DEF IInv, a
  <1>8. CASE /\ t.op = "verify"
             /\ Answer(s, IF server[t.id].status = "released"
                          THEN t.id ELSE None)
    <2> DEFINE a == IF server[t.id].status = "released" THEN t.id ELSE None
    <2>1. a \in Answers(t.op) \cup {None}
      BY <1>4, <1>8 DEF Answers, Existing
    <2>2. a # None => a \in Existing(server')
      BY <1>2, <1>4, <1>8
    <2>3. ASSUME NEW x, x.op = "verify", x.answer = a, a # None
          PROVE  Answered(server', x)
      BY <2>2, <2>3 DEF Answered, Changes
    <2> HIDE DEF a
    <2> QED
      BY <1>1, <1>2, <1>8, <2>1, <2>3, AnswerOK DEF IInv, a
  <1> QED
    BY <1>5, <1>6, <1>7, <1>8 DEF ServeQuery

LEMMA ServeChangeInv ==
  ASSUME IInv, UNCHANGED scenario, NEW s \in Slots, tasks[s] # None,
         ServeChange(s)
  PROVE  IInv'
  <1> DEFINE t == tasks[s]
  <1>1. /\ ServerOK /\ PageOK /\ TasksOK /\ server \in ServerType
        /\ t.stage = "sent" /\ t.op \in DOMAIN Changes /\ UNCHANGED page
    BY DEF IInv, ServerOK, ServeChange
  <1>2. TaskOK(server, t) /\ t.op \in Ops /\ t \in Tasks(t.op)
    BY <1>1 DEF TasksOK, TaskOK
  <1>3. t.id \in Existing(server) /\ t.id \in Cases
    BY <1>1, <1>2 DEF TaskOK, Changes, Existing
  <1>4. PICK stored \in Changed(t.op, t.id) :
          /\ server' = [server EXCEPT ![t.id] = stored]
          /\ Answer(s, [id |-> t.id, revision |-> stored.revision,
                        status |-> stored.status, risks |-> stored.risks])
    BY DEF ServeChange
  <1> DEFINE a == [id |-> t.id, revision |-> stored.revision,
                   status |-> stored.status, risks |-> stored.risks]
  <1>5. stored \in Stored /\ stored.status \in Changes[t.op].to
    BY <1>1, <1>3, ChangedFacts
  <1>6. /\ ServerOK' /\ Grown(server, server')
        /\ server'[t.id] = stored /\ t.id \in Existing(server')
    BY <1>1, <1>3, <1>4, <1>5, ServerGrows
  <1>7. Known(server', a)
    BY <1>6, ViewIsKnown DEF ServerOK
  <1>8. t.op = "evaluate" => a.risks \/ a.status = "pending_review"
    BY <1>5 DEF Changes, Stored
  <1> HIDE DEF a
  <1>9. a \in Answers(t.op) \cup {None}
    BY <1>1, <1>7 DEF Answers, Known, Changes
  <1>10. ASSUME NEW x, x.op = t.op, x.answer = a
         PROVE  Answered(server', x)
    BY <1>1, <1>7, <1>8, <1>10 DEF Answered, Changes
  <1>11. PageOK'
    BY <1>1, <1>6, PageStays
  <1>12. Answer(s, a)
    BY <1>4 DEF a
  <1> QED
    BY <1>1, <1>6, <1>9, <1>10, <1>11, <1>12, AnswerOK DEF IInv

LEMMA NewCaseType == NewCase \in Stored
  BY DEF NewCase, Stored, Statuses

LEMMA ServeCreateInv ==
  ASSUME IInv, UNCHANGED scenario, NEW s \in Slots, tasks[s] # None,
         ServeCreate(s)
  PROVE  IInv'
  <1> DEFINE t == tasks[s]
  <1>1. /\ ServerOK /\ PageOK /\ TasksOK /\ server \in ServerType
        /\ t.stage = "sent" /\ t.op = "create" /\ UNCHANGED page
    BY DEF IInv, ServerOK, ServeCreate
  <1>2. TaskOK(server, t) /\ t.op \in Ops /\ t \in Tasks(t.op)
    BY <1>1 DEF TasksOK, TaskOK
  <1>3. PICK c \in Cases : /\ server[c] = None
                           /\ server' = [server EXCEPT ![c] = NewCase]
                           /\ Answer(s, c)
    BY DEF ServeCreate
  <1>4. ServerOK' /\ Grown(server, server')
    BY <1>1, <1>3, NewCaseType, ServerGrows
  <1>5. PageOK'
    BY <1>1, <1>4, PageStays
  <1>6. ASSUME NEW x, x.op = "create" PROVE Answered(server', x)
    BY <1>6 DEF Answered, Changes
  <1>7. c \in Answers(t.op) \cup {None}
    BY <1>1 DEF Answers
  <1> QED
    BY <1>1, <1>3, <1>4, <1>5, <1>6, <1>7, AnswerOK DEF IInv

LEMMA RefuseInv ==
  ASSUME IInv, UNCHANGED scenario, NEW s \in Slots, tasks[s] # None, Refuse(s)
  PROVE  IInv'
  <1>1. /\ ServerOK /\ PageOK /\ TasksOK
        /\ tasks[s].stage = "sent" /\ Answer(s, None)
        /\ UNCHANGED <<server, page>>
    BY DEF IInv, Refuse
  <1>2. ServerOK' /\ Grown(server, server') /\ PageOK'
    BY <1>1, ServerStays, PageStays
  <1> QED
    BY <1>1, <1>2, AnswerOK DEF IInv

LEMMA OtherUserInv ==
  ASSUME IInv, UNCHANGED scenario, NEW c \in Cases, OtherUser(c)
  PROVE  IInv'
  <1>1. /\ ServerOK /\ PageOK /\ TasksOK /\ UNCHANGED <<page, tasks>>
    BY DEF IInv, OtherUser
  <1>2. PICK stored \in IF server[c] = None THEN {NewCase}
                        ELSE UNION {Changed(op, c) : op \in DOMAIN Changes} :
          server' = [server EXCEPT ![c] = stored]
    BY DEF OtherUser
  <1>3. /\ stored \in Stored
        /\ server[c] = None \/ \E op \in DOMAIN Changes : stored \in Changed(op, c)
    <2>1. CASE server[c] = None
      BY <1>2, <2>1, NewCaseType
    <2>2. CASE server[c] # None
      <3>1. PICK op \in DOMAIN Changes : stored \in Changed(op, c)
        BY <1>2, <2>2
      <3>2. c \in Existing(server)
        BY <2>2 DEF Existing
      <3>3. stored \in Stored
        BY <1>1, <3>1, <3>2, ChangedFacts
      <3> QED
        BY <3>1, <3>3
    <2> QED
      BY <2>1, <2>2
  <1>4. ServerOK' /\ Grown(server, server')
    BY <1>1, <1>2, <1>3, ServerGrows
  <1> QED
    BY <1>1, <1>4, PageStays, NoTaskChanges DEF IInv

----------------------------------------------------------------------------
(* Clicks.                                                                 *)

LEMMA NewTask ==
  ASSUME ServerOK, TasksOK, UNCHANGED <<scenario, server>>,
         NEW s \in Slots, NEW x, x = None \/ TaskOK(server, x), Await(s, x)
  PROVE  TasksOK'
  <1>1. ServerOK' /\ Grown(server, server') /\ server' = server
    BY ServerStays
  <1> QED
    BY <1>1, OneTask DEF Await

(* The requests of the page that make no change.                           *)
LEMMA QueryTask ==
  ASSUME NEW sv, NEW x, x \in Tasks(x.op), x.answer = None, x.stage = "sent",
         \/ x.op \in {"list", "create"}
         \/ x.op \in {"get", "timeline", "verify"} /\ x.id \in Existing(sv)
  PROVE  TaskOK(sv, x)
  <1>1. x.op \in Ops \ DOMAIN Changes
    BY DEF Ops, Changes
  <1> QED
    BY <1>1 DEF TaskOK

LEMMA QueryRequests ==
  /\ TaskOK(server, Request("create", None))
  /\ TaskOK(server, Request("list", None))
  /\ TaskOK(server, [Request("list", None) EXCEPT !.refresh = TRUE])
  /\ \A c \in Existing(server) :
       TaskOK(server, Request("get", c)) /\ TaskOK(server, Request("verify", c))
  /\ \A c \in Existing(server), d \in Cases \cup {None} :
       /\ TaskOK(server, [Request("get", c) EXCEPT !.certificate = d])
       /\ TaskOK(server, [Request("timeline", c) EXCEPT !.certificate = d])
  <1>1. ASSUME NEW op \in {"list", "create"}
        PROVE  TaskOK(server, Request(op, None))
    <2> DEFINE x == Request(op, None)
    <2>1. x \in Tasks(x.op) /\ x.answer = None /\ x.stage = "sent" /\ x.op = op
      BY DEF Request, Tasks
    <2> HIDE DEF x
    <2>2. TaskOK(server, x)
      BY <2>1, QueryTask
    <2> QED
      BY <2>2 DEF x
  <1>2. TaskOK(server, [Request("list", None) EXCEPT !.refresh = TRUE])
    <2> DEFINE x == [Request("list", None) EXCEPT !.refresh = TRUE]
    <2>1. x \in Tasks(x.op) /\ x.answer = None /\ x.stage = "sent"
          /\ x.op = "list"
      BY DEF Request, Tasks
    <2> HIDE DEF x
    <2>2. TaskOK(server, x)
      BY <2>1, QueryTask
    <2> QED
      BY <2>2 DEF x
  <1>3. ASSUME NEW op \in {"get", "verify"}, NEW c \in Existing(server)
        PROVE  TaskOK(server, Request(op, c))
    <2> DEFINE x == Request(op, c)
    <2>1. x \in Tasks(x.op) /\ x.answer = None /\ x.stage = "sent" /\ x.op = op
          /\ x.id = c
      BY DEF Request, Tasks, Existing
    <2> HIDE DEF x
    <2>2. TaskOK(server, x)
      BY <2>1, QueryTask
    <2> QED
      BY <2>2 DEF x
  <1>4. ASSUME NEW op \in {"get", "timeline"}, NEW c \in Existing(server),
               NEW d \in Cases \cup {None}
        PROVE  TaskOK(server, [Request(op, c) EXCEPT !.certificate = d])
    <2> DEFINE x == [Request(op, c) EXCEPT !.certificate = d]
    <2>1. x \in Tasks(x.op) /\ x.answer = None /\ x.stage = "sent" /\ x.op = op
          /\ x.id = c
      BY DEF Request, Tasks, Existing
    <2> HIDE DEF x
    <2>2. TaskOK(server, x)
      BY <2>1, QueryTask
    <2> QED
      BY <2>2 DEF x
  <1> QED
    BY <1>1, <1>2, <1>3, <1>4

LEMMA QueryClickInv ==
  ASSUME IInv, UNCHANGED scenario, NEW s \in Slots,
         \/ \E c \in Cases : SelectCase(s, c) \/ ClickVerify(s, c)
         \/ ClickCreate(s)
  PROVE  IInv'
  <1>1. ServerOK /\ PageOK /\ TasksOK /\ UNCHANGED <<server, page>>
    BY DEF IInv, SelectCase, ClickVerify, ClickCreate
  <1>2. ServerOK' /\ PageOK'
    BY <1>1, ServerStays, PageStays
  <1>3. CASE \E c \in Cases : SelectCase(s, c)
    <2>1. PICK c \in Cases : SelectCase(s, c)
      BY <1>3
    <2>2. c \in Existing(server)
      BY <1>1, <2>1 DEF SelectCase, PageOK, Known
    <2>3. TaskOK(server, Request("get", c))
      BY <2>2, QueryRequests
    <2> QED
      BY <1>1, <1>2, <2>1, <2>3, NewTask DEF SelectCase, IInv
  <1>4. CASE \E c \in Cases : ClickVerify(s, c)
    <2>1. PICK c \in Cases : ClickVerify(s, c)
      BY <1>4
    <2>2. c \in Existing(server)
      BY <2>1 DEF ClickVerify, Existing
    <2>3. TaskOK(server, Request("verify", c))
      BY <2>2, QueryRequests
    <2> QED
      BY <1>1, <1>2, <2>1, <2>3, NewTask DEF ClickVerify, IInv
  <1>5. CASE ClickCreate(s)
    <2>1. TaskOK(server, Request("create", None))
      BY QueryRequests
    <2> QED
      BY <1>1, <1>2, <1>5, <2>1, NewTask DEF ClickCreate, IInv
  <1> QED
    BY <1>3, <1>4, <1>5

(* What the page offers is offered for the revision in the header, or      *)
(* comes to nothing.                                                       *)
LEMMA ClickChangeTask ==
  ASSUME IInv, NEW s \in Slots, NEW op \in DOMAIN Changes, ClickChange(s, op)
  PROVE  /\ current # None
         /\ \E x :
              /\ TaskOK(server, x) /\ Await(s, x)
              /\ x.op = op /\ x.id = current.id /\ x.stage = "sent"
              /\ x.certificate = None /\ x.refresh = FALSE /\ x.answer = None
  <1>1. /\ ServerOK /\ PageOK /\ TasksOK /\ server \in ServerType
        /\ Offered(op)
    BY DEF IInv, ServerOK, ClickChange
  <1> DEFINE of == CASE op = "plan" -> rows
                     [] op = "review" -> shown.id
                     [] OTHER -> None
             x == [Request(op, current.id) EXCEPT
                     !.revision = current.revision, !.seen = header, !.of = of]
  <1>2. /\ op # "evidence" /\ current # None
        /\ IF shown = None THEN op # "review"
           ELSE shown.status = Changes[op].from
    BY <1>1 DEF Offered
  <1>3. /\ Known(server, current) /\ current \in Views
        /\ current.id \in Existing(server) /\ current.id \in Cases
        /\ current.revision \in Nat
        /\ Point(current) = [id |-> current.id, revision |-> current.revision]
    BY <1>1, <1>2, PointOfKnown DEF PageOK, Views
  <1>4. op = "review" =>
          /\ shown # None /\ shown.status = "pending_review" /\ shown.risks
          /\ Known(server, shown) /\ shown.id \in Cases
    BY <1>1, <1>2, PointOfKnown DEF PageOK, Changes
  <1>5. of \in Cases \cup {None} /\ (op = "review" => of = shown.id)
    BY <1>1, <1>4 DEF PageOK
  <1> HIDE DEF of
  <1>6. /\ x.op = op /\ x.stage = "sent" /\ x.id = current.id
        /\ x.revision = current.revision /\ x.seen = header
        /\ x.of = of /\ x.answer = None /\ x \in Tasks(op)
        /\ x.certificate = None /\ x.refresh = FALSE
    BY <1>1, <1>3, <1>5 DEF Request, Tasks, PageOK
  <1>7. op \in Ops
    BY DEF Ops
  <1>8. Await(s, x)
    BY DEF ClickChange, of
  <1> HIDE DEF x
  <1>9. WasSeen(server, x)
    <2>1. x.revision <= server[x.id].revision
      BY <1>3, <1>6 DEF Known
    <2>2. \/ x.seen = [id |-> x.id, revision |-> x.revision]
          \/ current.status = "pending_review" /\ ~ current.risks
      BY <1>1, <1>2, <1>3, <1>6 DEF PageOK
    <2>3. x.op = "review" /\ x.of = x.id =>
            server[x.id].status # "draft" /\ server[x.id].risks
      BY <1>4, <1>5, <1>6 DEF Known
    <2> QED
      BY <1>3, <1>6, <2>1, <2>2, <2>3 DEF WasSeen, Known
  <1>10. TaskOK(server, x)
    BY <1>2, <1>3, <1>6, <1>7, <1>9 DEF TaskOK
  <1> QED
    BY <1>2, <1>6, <1>8, <1>10

LEMMA ClickChangeInv ==
  ASSUME IInv, UNCHANGED scenario, NEW s \in Slots, NEW op \in DOMAIN Changes,
         ClickChange(s, op)
  PROVE  IInv'
  <1>1. ServerOK /\ PageOK /\ TasksOK /\ UNCHANGED <<server, page>>
    BY DEF IInv, ClickChange
  <1>2. ServerOK' /\ PageOK'
    BY <1>1, ServerStays, PageStays
  <1>3. PICK x : TaskOK(server, x) /\ Await(s, x)
    BY ClickChangeTask
  <1> QED
    BY <1>1, <1>2, <1>3, NewTask DEF IInv

LEMMA EvidenceTask ==
  ASSUME NEW c \in Cases
  PROVE  TaskOK(server, [Request("evidence", None) EXCEPT
                           !.stage = "hash", !.of = c])
  <1> DEFINE x == [Request("evidence", None) EXCEPT !.stage = "hash", !.of = c]
  <1>1. /\ x.op = "evidence" /\ x.stage = "hash" /\ x.answer = None
        /\ x \in Tasks("evidence") /\ "evidence" \in Ops
    BY DEF Request, Tasks, Ops, Changes
  <1> HIDE DEF x
  <1>2. TaskOK(server, x)
    BY <1>1 DEF TaskOK
  <1> QED
    BY <1>2 DEF x

LEMMA ClickSubmitInv ==
  ASSUME IInv, UNCHANGED scenario, NEW s \in Slots, ClickSubmit(s)
  PROVE  IInv'
  <1>1. /\ ServerOK /\ PageOK /\ TasksOK /\ UNCHANGED <<server, page>>
        /\ dialog \in Cases
    BY DEF IInv, ClickSubmit, PageOK
  <1>2. ServerOK' /\ PageOK'
    BY <1>1, ServerStays, PageStays
  <1>3. TaskOK(server, [Request("evidence", None) EXCEPT
                          !.stage = "hash", !.of = dialog])
    BY <1>1, EvidenceTask
  <1> QED
    BY <1>1, <1>2, <1>3, NewTask DEF ClickSubmit, IInv

LEMMA SubmitEvidenceInv ==
  ASSUME IInv, UNCHANGED scenario, NEW s \in Slots, tasks[s] # None,
         SubmitEvidence(s)
  PROVE  IInv'
  <1> DEFINE t == tasks[s]
             x == [t EXCEPT !.stage = "sent", !.id = current.id,
                            !.revision = current.revision, !.seen = header]
  <1>1. /\ ServerOK /\ PageOK /\ TasksOK /\ UNCHANGED <<server, page>>
        /\ t.stage = "hash"
    BY DEF IInv, SubmitEvidence
  <1>2. ServerOK' /\ PageOK'
    BY <1>1, ServerStays, PageStays
  <1>3. CASE current = None
    BY <1>1, <1>2, <1>3, NewTask DEF SubmitEvidence, End, IInv
  <1>4. CASE current # None
    <2>1. TaskOK(server, t) /\ t.op = "evidence" /\ t \in Tasks(t.op) /\ t.op \in Ops
      BY <1>1 DEF TasksOK, TaskOK
    <2>2. /\ current.id \in Existing(server) /\ current.id \in Cases
          /\ current.revision \in Nat /\ header \in Points \cup {None}
          /\ Point(current) = [id |-> current.id,
                               revision |-> current.revision]
      BY <1>1, <1>4 DEF PageOK, Known, Existing, Views, Point
    <2>3. /\ x.op = "evidence" /\ x.stage = "sent" /\ x.id = current.id
          /\ x.revision = current.revision /\ x.seen = header
          /\ x.answer = t.answer /\ x \in Tasks("evidence")
      BY <2>1, <2>2 DEF Tasks
    <2>4. Await(s, x)
      BY <1>4 DEF SubmitEvidence
    <2> HIDE DEF x
    <2>5. x.answer # None => Answered(server, x)
      BY <2>1, <2>3 DEF TaskOK, Answered
    <2>6. WasSeen(server, x)
      BY <1>1, <1>4, <2>2, <2>3 DEF PageOK, Known, WasSeen
    <2>7. TaskOK(server, x)
      BY <2>1, <2>2, <2>3, <2>5, <2>6 DEF TaskOK
    <2> QED
      BY <1>1, <1>2, <2>4, <2>7, NewTask DEF IInv
  <1> QED
    BY <1>3, <1>4

LEMMA PageClickInv ==
  ASSUME IInv, UNCHANGED scenario, EditPlan \/ OpenEvidence \/ CloseEvidence
  PROVE  IInv'
  <1>1. /\ ServerOK /\ PageOK /\ TasksOK
        /\ UNCHANGED <<server, tasks, current, header, shown, list, timeline,
                       panel>>
    BY DEF IInv, EditPlan, OpenEvidence, CloseEvidence, behind
  <1>2. ServerOK' /\ TasksOK'
    BY <1>1, ServerStays, NoTaskChanges
  <1>3. rows' \in Cases \cup {None} /\ dialog' \in Cases \cup {None}
    <2>1. current # None => current.id \in Cases
      BY <1>1 DEF PageOK, Known, Existing
    <2> QED
      BY <1>1, <2>1
      DEF EditPlan, Offered, OpenEvidence, CloseEvidence, PageOK, behind
  <1>4. PageOK'
    BY <1>1, <1>3 DEF PageOK, Point
  <1> QED
    BY <1>2, <1>4 DEF IInv

----------------------------------------------------------------------------
(* Answers arrive.                                                         *)

LEMMA Continued ==
  ASSUME IInv, UNCHANGED <<scenario, server>>, PageOK',
         NEW s \in Slots, NEW x, x = None \/ TaskOK(server, x), Await(s, x)
  PROVE  IInv'
  <1>1. ServerOK /\ TasksOK
    BY DEF IInv
  <1> QED
    BY <1>1, ServerStays, NewTask DEF IInv

LEMMA AnswerFacts ==
  ASSUME IInv, NEW s \in Slots, tasks[s] # None
  PROVE  /\ TaskOK(server, tasks[s])
         /\ tasks[s].certificate \in Cases \cup {None}
         /\ tasks[s].answer # None => Answered(server, tasks[s])
         /\ tasks[s].answer \in Answers(tasks[s].op) \cup {None}
  <1>1. TaskOK(server, tasks[s]) /\ server \in ServerType
    BY DEF IInv, TasksOK, ServerOK
  <1>2. tasks[s].answer # None => Answered(server, tasks[s])
    BY <1>1 DEF TaskOK
  <1> QED
    BY <1>1, <1>2, TaskFacts

(* A part of the page and what it may come to be.                          *)
Kept ==
  /\ UNCHANGED <<server, header, shown, rows, timeline>>
  /\ current' = current \/ current' = None
  /\ list' \subseteq Existing(server)
  /\ panel' \in Cases \cup {None}
  /\ dialog' \in {dialog, None}

LEMMA KeptOK ==
  ASSUME PageOK, Kept
  PROVE  PageOK'
  BY DEF PageOK, Kept, Point

LEMMA RenderOK ==
  ASSUME PageOK, UNCHANGED <<server, timeline, list>>, NEW view,
         server \in ServerType, Known(server, view), Render(view),
         dialog' \in {dialog, None}
  PROVE  PageOK'
  <1>1. Point(view) \in Points /\ view.id \in Cases
    BY PointOfKnown
  <1>2. /\ current' = view /\ header' = Point(view)
        /\ shown' = shown \/ (shown' = view /\ view.risks)
        /\ rows' \in {rows, view.id} /\ panel' \in {panel, view.id, None}
    BY DEF Render
  <1>3. (header = Point(current))' /\ Known(server', current')
    BY <1>2 DEF Point
  <1>4. (shown # None => Known(server, shown) /\ shown.risks)'
    BY <1>2 DEF PageOK
  <1> QED
    BY <1>1, <1>2, <1>3, <1>4 DEF PageOK

LEMMA SelectedInv ==
  ASSUME IInv, UNCHANGED scenario, NEW s \in Slots, tasks[s] # None, Selected(s)
  PROVE  IInv'
  <1> DEFINE t == tasks[s]
             view == t.answer
  <1>1. /\ PageOK /\ server \in ServerType /\ Known(server, view)
        /\ t.certificate \in Cases \cup {None}
        /\ UNCHANGED <<server, list, timeline, dialog>>
    BY AnswerFacts DEF IInv, ServerOK, Selected, Arrived, Answered
  <1>2. view.id \in Existing(server) /\ Point(view) \in Points
    BY <1>1, PointOfKnown
  <1>3. CASE view.risks
    <2>1. Render(view) /\ LoadTimeline(s, view, t.certificate)
      BY <1>3 DEF Selected
    <2>2. PageOK'
      BY <1>1, <2>1, RenderOK
    <2>3. TaskOK(server, [Request("timeline", view.id) EXCEPT
                            !.certificate = t.certificate])
      BY <1>1, <1>2, QueryRequests
    <2> QED
      BY <1>1, <2>1, <2>2, <2>3, Continued DEF LoadTimeline
  <1>4. CASE ~ view.risks
    <2>1. /\ current' = view /\ header' = Point(view) /\ End(s)
          /\ panel' \in {panel, t.certificate} /\ UNCHANGED <<shown, rows>>
      BY <1>4 DEF Selected, EndOfSelect
    <2>2. (header = Point(current))'
      BY <2>1 DEF Point
    <2>3. PageOK'
      BY <1>1, <1>2, <2>1, <2>2 DEF PageOK
    <2> QED
      BY <1>1, <2>1, <2>3, Continued DEF End
  <1> QED
    BY <1>3, <1>4

LEMMA TimelineLoadedInv ==
  ASSUME IInv, UNCHANGED scenario, NEW s \in Slots, tasks[s] # None,
         TimelineLoaded(s)
  PROVE  IInv'
  <1>1. /\ PageOK /\ tasks[s].certificate \in Cases \cup {None}
        /\ timeline' = tasks[s].answer /\ EndOfSelect(s)
        /\ UNCHANGED <<server, current, header, shown, rows, list, dialog>>
    BY AnswerFacts DEF IInv, TimelineLoaded
  <1>2. timeline' \in Points
    BY AnswerFacts DEF TimelineLoaded, Arrived, Answers
  <1>3. panel' \in {panel, tasks[s].certificate} /\ End(s)
    BY <1>1 DEF EndOfSelect
  <1>4. PageOK'
    BY <1>1, <1>2, <1>3 DEF PageOK, Point
  <1> QED
    BY <1>1, <1>3, <1>4, Continued DEF End

LEMMA AfterListInv ==
  ASSUME IInv, UNCHANGED <<scenario, server, header, shown, rows, timeline,
                           dialog, panel>>,
         NEW s \in Slots, tasks[s] # None,
         NEW cases \in SUBSET Existing(server),
         NEW view, view = current \/ view = None, AfterList(s, cases, view)
  PROVE  IInv'
  <1>1. PageOK /\ list' = cases /\ current' = view /\ panel' \in Cases \cup {None}
    BY DEF IInv, AfterList, PageOK
  <1>2. PageOK'
    BY <1>1, KeptOK DEF Kept
  <1>3. CASE tasks[s].refresh /\ view # None
    <2>1. LoadTimeline(s, view, None) /\ view.id \in Existing(server)
      BY <1>1, <1>3 DEF AfterList, PageOK, Known
    <2>2. TaskOK(server, [Request("timeline", view.id) EXCEPT
                            !.certificate = None])
      BY <2>1, QueryRequests
    <2> QED
      BY <1>2, <2>1, <2>2, Continued DEF LoadTimeline
  <1>4. CASE ~ (tasks[s].refresh /\ view # None)
    BY <1>2, <1>4, Continued DEF AfterList, End
  <1> QED
    BY <1>3, <1>4

LEMMA ListLoadedInv ==
  ASSUME IInv, UNCHANGED scenario, NEW s \in Slots, tasks[s] # None,
         ListLoaded(s)
  PROVE  IInv'
  <1>1. tasks[s].answer \in SUBSET Existing(server)
    BY AnswerFacts DEF ListLoaded, Arrived, Answered
  <1>2. PICK view \in {current, None} : AfterList(s, tasks[s].answer, view)
    BY DEF ListLoaded
  <1> QED
    BY <1>1, <1>2, AfterListInv DEF ListLoaded

LEMMA ChangeDoneInv ==
  ASSUME IInv, UNCHANGED scenario, NEW s \in Slots, tasks[s] # None,
         ChangeDone(s)
  PROVE  IInv'
  <1> DEFINE t == tasks[s]
             view == t.answer
  <1>1. /\ PageOK /\ server \in ServerType /\ t.op \in DOMAIN Changes
        /\ t.answer # None /\ Answered(server, t)
        /\ UNCHANGED <<server, list, timeline>>
    BY AnswerFacts DEF IInv, ServerOK, ChangeDone, Arrived
  <1>2. /\ Known(server, view)
        /\ t.op = "evaluate" => view.risks \/ view.status = "pending_review"
        /\ dialog' \in {dialog, None}
    BY <1>1 DEF Answered, ChangeDone
  <1>3. PageOK'
    <2>1. CASE t.op = "evaluate" /\ ~ view.risks
      <3>1. /\ current' = view /\ UNCHANGED <<header, shown, rows, panel>>
        BY <2>1 DEF ChangeDone
      <3>2. view.status = "pending_review"
        BY <1>2, <2>1
      <3> QED
        BY <1>1, <1>2, <2>1, <3>1, <3>2 DEF PageOK
    <2>2. CASE ~ (t.op = "evaluate" /\ ~ view.risks)
      <3>1. Render(view)
        BY <2>2 DEF ChangeDone
      <3> QED
        BY <1>1, <1>2, <3>1, RenderOK
    <2> QED
      BY <2>1, <2>2
  <1>4. CASE view.risks
    <2>1. Await(s, [Request("list", None) EXCEPT !.refresh = TRUE])
      BY <1>4 DEF ChangeDone
    <2> QED
      BY <1>1, <1>3, <2>1, QueryRequests, Continued
  <1>5. CASE ~ view.risks
    BY <1>1, <1>3, <1>5, Continued DEF ChangeDone, End
  <1> QED
    BY <1>4, <1>5

LEMMA SignedInv ==
  ASSUME IInv, UNCHANGED scenario, NEW s \in Slots, tasks[s] # None, Signed(s)
  PROVE  IInv'
  <1>1. ServerOK /\ PageOK /\ UNCHANGED <<server, page>>
    BY DEF IInv, Signed
  <1>2. PageOK'
    BY <1>1, ServerStays, PageStays
  <1>3. CASE current = None
    BY <1>1, <1>2, <1>3, Continued DEF Signed, End
  <1>4. CASE current # None
    <2>1. Known(server, tasks[s].answer) /\ current.id \in Existing(server)
      BY <1>1, <1>4, AnswerFacts
      DEF Signed, Arrived, Answered, PageOK, Known, Changes
    <2>2. tasks[s].answer.id \in Cases \cup {None}
      BY <2>1 DEF Known, Existing
    <2> QED
      BY <1>1, <1>2, <1>4, <2>1, <2>2, QueryRequests, Continued DEF Signed
  <1> QED
    BY <1>3, <1>4

LEMMA VerifiedInv ==
  ASSUME IInv, UNCHANGED scenario, NEW s \in Slots, tasks[s] # None, Verified(s)
  PROVE  IInv'
  <1> DEFINE c == tasks[s].answer
  <1>1. /\ PageOK /\ c \in Existing(server) /\ c \in Cases
        /\ UNCHANGED <<server, current, header, shown, rows, list, timeline,
                       dialog>>
    BY AnswerFacts DEF IInv, Verified, Arrived, Answered, Existing
  <1>2. CASE c \in list
    <2>1. Await(s, [Request("get", c) EXCEPT !.certificate = c])
          /\ UNCHANGED panel
      BY <1>2 DEF Verified
    <2>2. PageOK'
      BY <1>1, <2>1, KeptOK DEF Kept, PageOK
    <2>3. TaskOK(server, [Request("get", c) EXCEPT !.certificate = c])
      BY <1>1, QueryRequests
    <2> HIDE DEF c
    <2> QED
      BY <1>1, <2>1, <2>2, <2>3, Continued
  <1>3. CASE c \notin list
    <2>1. End(s) /\ panel' = c
      BY <1>3 DEF Verified
    <2>2. PageOK'
      BY <1>1, <2>1, KeptOK DEF Kept, PageOK
    <2> QED
      BY <1>1, <2>1, <2>2, Continued DEF End
  <1> QED
    BY <1>2, <1>3

LEMMA FailedInv ==
  ASSUME IInv, UNCHANGED scenario, NEW s \in Slots, tasks[s] # None, Failed(s)
  PROVE  IInv'
  <1>1. /\ PageOK /\ UNCHANGED <<server, header, shown, rows, timeline, dialog>>
        /\ tasks[s].certificate \in Cases \cup {None}
    BY AnswerFacts DEF IInv, Failed
  <1>2. CASE tasks[s].op = "list"
    <2>1. AfterList(s, list, current) /\ UNCHANGED panel
          /\ list \in SUBSET Existing(server)
      BY <1>1, <1>2 DEF Failed, PageOK
    <2> QED
      BY <1>1, <2>1, AfterListInv
  <1>3. CASE tasks[s].op # "list"
    <2>1. /\ End(s) /\ UNCHANGED <<current, list>>
          /\ panel' \in {panel, tasks[s].certificate}
      BY <1>3 DEF Failed, EndOfSelect
    <2>2. PageOK'
      BY <1>1, <2>1, KeptOK DEF Kept, PageOK
    <2> QED
      BY <1>1, <2>1, <2>2, Continued DEF End
  <1> QED
    BY <1>2, <1>3

LEMMA CreatedInv ==
  ASSUME IInv, UNCHANGED scenario, NEW s \in Slots, tasks[s] # None, Created(s)
  PROVE  IInv'
  <1>1. ServerOK /\ PageOK /\ UNCHANGED <<server, page>> /\ End(s)
    BY DEF IInv, Created
  <1>2. PageOK'
    BY <1>1, ServerStays, PageStays
  <1> QED
    BY <1>1, <1>2, Continued DEF End

(* A page that has just been loaded holds nothing.                         *)
LEMMA StartingOK ==
  ASSUME NEW s \in Slots, tasks' = Starting(s), server' = server
  PROVE  TasksOK'
  <1>1. \A t \in Slots :
          tasks'[t] = IF t = s THEN Request("list", None) ELSE None
    BY DEF Starting
  <1>2. tasks' = [t \in Slots |-> tasks'[t]]
    BY DEF Starting
  <1> QED
    BY <1>1, <1>2, QueryRequests DEF TasksOK

LEMMA ReloadInv ==
  ASSUME IInv, UNCHANGED scenario, NEW s \in Slots, Reload(s)
  PROVE  IInv'
  <1>1. ServerOK' /\ TasksOK'
    BY ServerStays, StartingOK DEF IInv, Reload
  <1>2. PageOK'
    BY DEF Reload, PageOK
  <1> QED
    BY <1>1, <1>2 DEF IInv

LEMMA InitInv == Init => IInv
  <1> SUFFICES ASSUME Init PROVE IInv
    OBVIOUS
  <1>1. ServerOK
    BY WorkbenchAssumption DEF Init, ServerOK, ServerType, WorkbenchAssumption
  <1>2. PageOK
    BY DEF Init, PageOK
  <1>3. PICK s \in Slots : tasks = Starting(s)
    BY DEF Init
  <1>4. /\ \A t \in Slots :
             tasks[t] = IF t = s THEN Request("list", None) ELSE None
        /\ tasks = [t \in Slots |-> tasks[t]]
    BY <1>3 DEF Starting
  <1>5. TasksOK
    BY <1>4, QueryRequests DEF TasksOK
  <1> QED
    BY <1>1, <1>2, <1>5 DEF IInv

LEMMA StepInv ==
  ASSUME IInv, [Next]_vars
  PROVE  IInv'
  <1>1. CASE UNCHANGED vars
    <2>1. UNCHANGED <<scenario, server, page, tasks>> /\ ServerOK /\ PageOK
          /\ TasksOK
      BY <1>1 DEF vars, IInv
    <2> QED
      BY <2>1, ServerStays, PageStays, NoTaskChanges DEF IInv
  <1>2. CASE Next
    <2>1. UNCHANGED scenario
      BY <1>2 DEF Next
    <2>2. CASE \E s \in Slots : Click(s)
      BY <2>1, <2>2, QueryClickInv, ClickChangeInv, ClickSubmitInv DEF Click
    <2>3. CASE \E s \in Slots : Serve(s)
      BY <2>1, <2>3, ServeQueryInv, ServeChangeInv, ServeCreateInv, RefuseInv
      DEF Serve
    <2>4. CASE \E s \in Slots : Continue(s)
      BY <2>1, <2>4, SubmitEvidenceInv, SelectedInv, TimelineLoadedInv,
         ListLoadedInv, ChangeDoneInv, SignedInv, VerifiedInv, CreatedInv,
         FailedInv DEF Continue
    <2>5. CASE \E s \in Slots : Reload(s)
      BY <2>1, <2>5, ReloadInv
    <2>6. CASE EditPlan \/ OpenEvidence \/ CloseEvidence
      BY <2>1, <2>6, PageClickInv
    <2>7. CASE \E c \in Cases : OtherUser(c)
      BY <2>1, <2>7, OtherUserInv
    <2> QED
      BY <1>2, <2>2, <2>3, <2>4, <2>5, <2>6, <2>7 DEF Next
  <1> QED
    BY <1>1, <1>2

LEMMA IInvHolds == Spec => []IInv
  BY InitInv, StepInv, PTL DEF Spec

(* The page and the tasks have the types of the module.                    *)
THEOREM TypeCorrect == Spec => []TypeOK
  <1>1. IInv => TypeOK
    <2> SUFFICES ASSUME IInv PROVE TypeOK
      OBVIOUS
    <2>1. /\ current # None => current \in Views
          /\ shown # None => shown \in Views
      BY DEF IInv, PageOK, Known
    <2>2. list \subseteq Cases
      BY DEF IInv, PageOK, Existing
    <2>3. /\ DOMAIN tasks = Slots
          /\ \A s \in Slots :
               tasks[s] = None \/ \E op \in Ops : tasks[s] \in Tasks(op)
      BY DEF IInv, TasksOK, TaskOK
    <2> QED
      BY <2>1, <2>2, <2>3 DEF IInv, ServerOK, ServerType, PageOK, TypeOK
  <1> QED
    BY <1>1, IInvHolds, PTL

(* Whatever arrives while the user looks at the page, a change that the    *)
(* service accepts replaces the very revision that was in the header when  *)
(* the user clicked, or when evidence was sent, but for the signature of a *)
(* case without risks (app.js:136-138, 304-310, 361-368, 399).             *)
THEOREM ChangesReplaceWhatWasSeen == Spec => ChangesAreBasedOnTheScreen
  <1>1. IInv => ChangesWereSeen
    <2> SUFFICES ASSUME IInv, NEW s \in Slots, tasks[s] # None,
                        tasks[s].op \in DOMAIN Changes,
                        tasks[s].op = "sign" => server[tasks[s].id].risks,
                        ServeChange(s)
                 PROVE  tasks[s].seen = Point(View(tasks[s].id))
      BY DEF ChangesWereSeen
    <2> DEFINE t == tasks[s]
               c == server[t.id]
    <2>1. /\ t.stage = "sent" /\ t.revision = c.revision
          /\ t.op = "review" => t.of = t.id
      BY DEF ServeChange, FindingOf
    <2>2. TaskOK(server, t) /\ t.op \notin {"list", "create"}
      BY DEF IInv, TasksOK, Changes
    <2>3. WasSeen(server, t) /\ t.id \in Existing(server)
      BY <2>1, <2>2 DEF TaskOK
    <2>4. PICK stored : stored \in Changed(t.op, t.id)
      BY DEF ServeChange
    <2>5. c.status = Changes[t.op].from
      BY <2>3, <2>4, ChangedFacts DEF IInv
    <2>6. ~ (c.status = "pending_review" /\ ~ c.risks)
      BY <2>1, <2>3, <2>5 DEF Changes, WasSeen
    <2>7. t.seen = [id |-> t.id, revision |-> t.revision]
      BY <2>1, <2>3, <2>6 DEF WasSeen
    <2> QED
      BY <2>1, <2>7 DEF View, Point
  <1> QED
    BY <1>1, IInvHolds, PTL DEF Spec, ChangesAreBasedOnTheScreen

----------------------------------------------------------------------------
(* A user who waits, on a network that loses nothing, alone.               *)

DraftsAreNew == \A c \in Existing(server) \ list : server[c].status = "draft"

(* The step of the one chain of awaits there is.                           *)
LEMMA ChainStep ==
  ASSUME TasksOK, NEW s \in Slots, \A r \in Slots : tasks[r] # None => r = s,
         NEW x, tasks' = [tasks EXCEPT ![s] = x],
         (current # None => current.id \in list)',
         DraftsAreNew' \/ (x # None /\ x.op = "list" /\ ~ x.refresh),
         x = None => ScreenTells',
         x # None => CalmTask(x)'
  PROVE  CalmOK'
  <1>1. \A r \in Slots : tasks'[r] = IF r = s THEN x ELSE None
    BY DEF TasksOK
  <1>2. AtRest' <=> x = None
    BY <1>1 DEF AtRest
  <1>3. \A r \in Slots : tasks'[r] # None => tasks'[r] = x /\ r = s
    BY <1>1
  <1>4. (\A r \in Slots : tasks[r] # None => CalmTask(tasks[r]))'
    <2> SUFFICES ASSUME NEW r \in Slots, tasks'[r] # None
                 PROVE  CalmTask(tasks[r])'
      OBVIOUS
    <2>1. tasks'[r] = x /\ x # None
      BY <1>3
    <2> QED
      BY <2>1 DEF CalmTask
  <1>5. tasks'[s] = x
    BY <1>1
  <1> QED
    BY <1>2, <1>3, <1>4, <1>5 DEF CalmOK, DraftsAreNew

----------------------------------------------------------------------------
LEMMA ChainFacts ==
  ASSUME IInv, CalmOK, NEW s \in Slots, tasks[s] # None
  PROVE  /\ ServerOK /\ PageOK /\ TasksOK /\ server \in ServerType
         /\ TaskOK(server, tasks[s]) /\ CalmTask(tasks[s])
         /\ tasks[s] \in Tasks(tasks[s].op) /\ tasks[s].op \in Ops
         /\ \A r \in Slots : tasks[r] # None => r = s
         /\ DraftsAreNew \/ (tasks[s].op = "list" /\ ~ tasks[s].refresh)
         /\ current # None => current.id \in list
  <1>1. ServerOK /\ PageOK /\ TasksOK /\ server \in ServerType
    BY DEF IInv, ServerOK
  <1>2. TaskOK(server, tasks[s])
    BY <1>1 DEF TasksOK
  <1>3. tasks[s] \in Tasks(tasks[s].op) /\ tasks[s].op \in Ops
    BY <1>2 DEF TaskOK
  <1> QED
    BY <1>1, <1>2, <1>3 DEF CalmOK, DraftsAreNew

LEMMA RestFacts ==
  ASSUME IInv, CalmOK, AtRest
  PROVE  /\ ServerOK /\ PageOK /\ TasksOK /\ DraftsAreNew /\ ScreenTells
         /\ current # None => current.id \in list
         /\ \A s \in Slots : tasks[s] = None
  BY DEF IInv, CalmOK, DraftsAreNew, AtRest

LEMMA TaskIsNotNone ==
  ASSUME NEW sv, NEW x, TaskOK(sv, x)
  PROVE  x # None
  BY WorkbenchAssumption DEF WorkbenchAssumption, TaskOK

LEMMA AnsweredTask ==
  ASSUME IInv, NEW s \in Slots, tasks[s] # None,
         NEW a \in Answers(tasks[s].op) \cup {None}, Answer(s, a)
  PROVE  \E x :
           /\ x.op = tasks[s].op /\ x.stage = "answered" /\ x.id = tasks[s].id
           /\ x.certificate = tasks[s].certificate
           /\ x.refresh = tasks[s].refresh
           /\ x.answer = a /\ x # None
           /\ tasks' = [tasks EXCEPT ![s] = x]
  <1>1. tasks[s] \in Tasks(tasks[s].op) /\ tasks[s].op \in Ops
    BY DEF IInv, TasksOK, TaskOK
  <1> DEFINE x == [tasks[s] EXCEPT !.stage = "answered", !.answer = a]
  <1>2. x \in Tasks(tasks[s].op)
    BY <1>1 DEF Tasks
  <1>3. x # None
    BY <1>1, <1>2, WorkbenchAssumption DEF WorkbenchAssumption
  <1>4. /\ x.op = tasks[s].op /\ x.stage = "answered" /\ x.id = tasks[s].id
        /\ x.certificate = tasks[s].certificate
        /\ x.refresh = tasks[s].refresh
        /\ x.answer = a
    BY <1>1 DEF Tasks
  <1>5. tasks' = [tasks EXCEPT ![s] = x]
    BY DEF Answer, Await
  <1> HIDE DEF x
  <1> QED
    BY <1>3, <1>4, <1>5

(* An answer that leaves the service and the page as they are.             *)
LEMMA CalmAnswer ==
  ASSUME IInv, CalmOK, NEW s \in Slots, tasks[s] # None,
         UNCHANGED <<server, page>>,
         NEW a \in Answers(tasks[s].op) \cup {None}, Answer(s, a),
         tasks[s].stage = "sent",
         tasks[s].op = "list" => a = Existing(server),
         tasks[s].op = "get" => a = View(tasks[s].id),
         tasks[s].op = "timeline" => a = Point(current),
         tasks[s].op = "verify" /\ a # None => server[a].status = "released",
         tasks[s].op \in DOMAIN Changes => a = None
  PROVE  CalmOK'
  <1> DEFINE t == tasks[s]
  <1>1. PICK x :
          /\ x.op = t.op /\ x.stage = "answered" /\ x.id = t.id
          /\ x.certificate = t.certificate /\ x.refresh = t.refresh
          /\ x.answer = a /\ x # None
          /\ tasks' = [tasks EXCEPT ![s] = x]
    BY AnsweredTask
  <1>2. CalmTask(t) /\ UNCHANGED <<server, current, header, shown, rows, list,
                                   timeline, panel>>
    BY ChainFacts DEF page, behind
  <1>3. CalmTask(x)'
    <2>1. (Rendered <=> Rendered') /\ (ScreenTells <=> ScreenTells')
      BY <1>2 DEF Rendered, ScreenTells, Point, View
    <2> QED
      BY <1>1, <1>2, <2>1 DEF CalmTask, Point, View, Existing, Changes
  <1>4. (current # None => current.id \in list)'
    BY <1>2, ChainFacts
  <1>5. DraftsAreNew' \/ (x # None /\ x.op = "list" /\ ~ x.refresh)
    <2>1. CASE DraftsAreNew
      BY <1>2, <2>1 DEF DraftsAreNew, Existing
    <2>2. CASE t.op = "list" /\ ~ t.refresh
      BY <1>1, <2>2
    <2> QED
      BY <2>1, <2>2, ChainFacts
  <1> QED
    BY <1>1, <1>3, <1>4, <1>5, ChainFacts, ChainStep

LEMMA CalmServeQuery ==
  ASSUME IInv, CalmOK, NEW s \in Slots, tasks[s] # None, ServeQuery(s)
  PROVE  CalmOK'
  <1> DEFINE t == tasks[s]
  <1>1. /\ t.stage = "sent" /\ UNCHANGED <<server, page>>
        /\ TaskOK(server, t) /\ CalmTask(t) /\ server \in ServerType
    BY ChainFacts DEF ServeQuery
  <1>2. t.op \in {"get", "timeline", "verify"} =>
          t.id \in Existing(server) /\ t.id \in Cases
    BY <1>1 DEF TaskOK, Existing
  <1>3. CASE t.op = "list" /\ Answer(s, {c \in Cases : server[c] # None})
    <2>1. Existing(server) \in Answers(t.op) \cup {None} /\ t.op \notin DOMAIN Changes
      BY <1>3 DEF Answers, Existing, Changes
    <2>2. Answer(s, Existing(server))
      BY <1>3 DEF Existing
    <2> QED
      BY <1>1, <1>3, <2>1, <2>2, CalmAnswer
  <1>4. CASE t.op = "get" /\ Answer(s, View(t.id))
    <2>1. View(t.id) \in Answers(t.op) \cup {None} /\ t.op \notin DOMAIN Changes
      BY <1>1, <1>2, <1>4, ViewIsKnown DEF Answers, View, Known, Changes
    <2> QED
      BY <1>1, <1>4, <2>1, CalmAnswer
  <1>5. CASE t.op = "timeline" /\ Answer(s, Point(View(t.id)))
    <2>1. Rendered /\ t.id = current.id
      BY <1>1, <1>5 DEF CalmTask
    <2>2. View(t.id) = current
      BY <2>1 DEF Rendered
    <2>3. Known(server, View(t.id))
      BY <1>1, <1>2, <1>5, ViewIsKnown DEF View
    <2>4. Point(current) \in Answers(t.op) \cup {None}
          /\ t.op \notin DOMAIN Changes
      BY <1>1, <1>5, <2>2, <2>3, PointOfKnown DEF Answers, Changes
    <2> QED
      BY <1>1, <1>5, <2>2, <2>4, CalmAnswer
  <1>6. CASE /\ t.op = "verify"
             /\ Answer(s, IF server[t.id].status = "released"
                          THEN t.id ELSE None)
    <2>1. PICK a : a = IF server[t.id].status = "released" THEN t.id ELSE None
      OBVIOUS
    <2>2. /\ a \in Answers(t.op) \cup {None} /\ t.op \notin DOMAIN Changes
          /\ a # None => server[a].status = "released"
      BY <1>2, <1>6, <2>1 DEF Answers, Changes
    <2> QED
      BY <1>1, <1>6, <2>1, <2>2, CalmAnswer
  <1> QED
    BY <1>3, <1>4, <1>5, <1>6 DEF ServeQuery

LEMMA CalmRefuse ==
  ASSUME IInv, CalmOK, NEW s \in Slots, tasks[s] # None, Refuse(s)
  PROVE  CalmOK'
  BY CalmAnswer DEF Refuse, Changes

(* A change is made of the selected case, which is in the list.            *)
LEMMA CalmServeChange ==
  ASSUME IInv, CalmOK, UNCHANGED scenario, NEW s \in Slots, tasks[s] # None,
         ServeChange(s)
  PROVE  CalmOK'
  <1> DEFINE t == tasks[s]
  <1>1. /\ t.stage = "sent" /\ UNCHANGED page /\ t.op \in DOMAIN Changes
        /\ TaskOK(server, t) /\ CalmTask(t) /\ server \in ServerType /\ ServerOK
    BY ChainFacts DEF ServeChange
  <1>2. t.id \in Existing(server) /\ t.id \in Cases /\ t.certificate = None
        /\ t.refresh = FALSE
    BY <1>1, TaskFacts DEF TaskOK, Existing, Changes, CalmTask
  <1>3. PICK stored \in Changed(t.op, t.id) :
          /\ server' = [server EXCEPT ![t.id] = stored]
          /\ Answer(s, [id |-> t.id, revision |-> stored.revision,
                        status |-> stored.status, risks |-> stored.risks])
    BY DEF ServeChange
  <1>4. stored \in Stored /\ stored.status \in Changes[t.op].to
    BY <1>1, <1>2, <1>3, ChangedFacts
  <1>5. /\ ServerOK' /\ server'[t.id] = stored /\ t.id \in Existing(server')
    BY <1>1, <1>2, <1>3, <1>4, ServerGrows
  <1>6. PICK a : a = [id |-> t.id, revision |-> stored.revision,
                      status |-> stored.status, risks |-> stored.risks]
    OBVIOUS
  <1>7. /\ Known(server', a)
        /\ a = [id |-> t.id, revision |-> server'[t.id].revision,
                status |-> server'[t.id].status, risks |-> server'[t.id].risks]
    BY <1>5, <1>6, ViewIsKnown DEF ServerOK
  <1>8. a \in Answers(t.op) \cup {None} /\ a # None
    BY <1>1, <1>7, WorkbenchAssumption
    DEF Answers, Known, Changes, WorkbenchAssumption
  <1>9. PICK x :
          /\ x.op = t.op /\ x.stage = "answered" /\ x.id = t.id
          /\ x.certificate = t.certificate /\ x.refresh = t.refresh
          /\ x.answer = a /\ x # None
          /\ tasks' = [tasks EXCEPT ![s] = x]
    BY <1>3, <1>6, <1>8, AnsweredTask
  <1>10. current # None /\ t.id = current.id /\ current.id \in list
         /\ UNCHANGED <<current, list>>
    BY <1>1, ChainFacts DEF CalmTask, page, behind
  <1>11. t.op = "sign" => a.status = "released"
    BY <1>4, <1>6 DEF Changes
  <1>12. CalmTask(x)'
    BY <1>1, <1>2, <1>7, <1>8, <1>9, <1>10, <1>11
    DEF CalmTask, View, Changes
  <1>13. DraftsAreNew'
    <2>1. DraftsAreNew
      BY <1>1, ChainFacts DEF Changes
    <2>2. \A c \in Cases : c # t.id => server'[c] = server[c]
      BY <1>1, <1>3 DEF ServerType
    <2> QED
      BY <1>10, <2>1, <2>2 DEF DraftsAreNew, Existing
  <1> QED
    BY <1>9, <1>10, <1>12, <1>13, ChainFacts, ChainStep

(* A new case is a draft.                                                  *)
LEMMA CalmServeCreate ==
  ASSUME IInv, CalmOK, NEW s \in Slots, tasks[s] # None, ServeCreate(s)
  PROVE  CalmOK'
  <1> DEFINE t == tasks[s]
  <1>1. /\ t.stage = "sent" /\ UNCHANGED page /\ t.op = "create"
        /\ CalmTask(t) /\ server \in ServerType /\ PageOK
        /\ t.certificate = None /\ DraftsAreNew
        /\ current # None => current.id \in list
    BY ChainFacts DEF ServeCreate, CalmTask
  <1>2. PICK c \in Cases : /\ server[c] = None
                           /\ server' = [server EXCEPT ![c] = NewCase]
                           /\ Answer(s, c)
    BY DEF ServeCreate
  <1>3. /\ server'[c] = NewCase
        /\ \A d \in Cases : d # c => server'[d] = server[d]
    BY <1>1, <1>2 DEF ServerType
  <1>4. c \in Answers(t.op) \cup {None}
    BY <1>1 DEF Answers
  <1>5. PICK x :
          /\ x.op = t.op /\ x.stage = "answered" /\ x.id = t.id
          /\ x.certificate = t.certificate /\ x.refresh = t.refresh
          /\ x.answer = c /\ x # None
          /\ tasks' = [tasks EXCEPT ![s] = x]
    BY <1>2, <1>4, AnsweredTask
  <1>6. UNCHANGED <<current, header, shown, rows, list, timeline, panel>>
    BY <1>1 DEF page, behind
  <1>7. ScreenTells'
    <2>1. CASE current # None /\ current.risks
      <3>1. current.id \in Existing(server)
        BY <1>1, <2>1 DEF PageOK, Known
      <3>2. server'[current.id] = server[current.id]
        BY <1>2, <1>3, <3>1 DEF Existing
      <3> QED
        BY <1>1, <1>6, <3>2
        DEF CalmTask, ScreenTells, Rendered, View, Point
    <2>2. CASE ~ (current # None /\ current.risks)
      BY <1>6, <2>2 DEF ScreenTells
    <2> QED
      BY <2>1, <2>2
  <1>8. CalmTask(x)'
    BY <1>1, <1>5, <1>7 DEF CalmTask, Changes
  <1>9. DraftsAreNew'
    BY <1>1, <1>3, <1>6 DEF DraftsAreNew, Existing, NewCase
  <1> QED
    BY <1>1, <1>5, <1>6, <1>8, <1>9, ChainFacts, ChainStep

(* The chain ends.                                                         *)
LEMMA CalmEnd ==
  ASSUME IInv, CalmOK, NEW s \in Slots, tasks[s] # None, End(s),
         (current # None => current.id \in list)', DraftsAreNew', ScreenTells'
  PROVE  CalmOK'
  <1>1. tasks' = [tasks EXCEPT ![s] = None]
    BY DEF End, Await
  <1> QED
    BY <1>1, ChainFacts, ChainStep

(* The chain goes on by another request.                                   *)
LEMMA CalmNext ==
  ASSUME IInv, CalmOK, NEW s \in Slots, tasks[s] # None,
         NEW x, TaskOK(server, x), Await(s, x),
         (current # None => current.id \in list)', DraftsAreNew', CalmTask(x)'
  PROVE  CalmOK'
  <1>1. tasks' = [tasks EXCEPT ![s] = x] /\ x # None
    BY TaskIsNotNone DEF Await
  <1> QED
    BY <1>1, ChainFacts, ChainStep

LEMMA DraftsStayNew ==
  ASSUME DraftsAreNew, UNCHANGED <<server, list>>
  PROVE  DraftsAreNew'
  BY DEF DraftsAreNew, Existing

LEMMA CalmSubmitEvidence ==
  ASSUME IInv, CalmOK, NEW s \in Slots, tasks[s] # None, SubmitEvidence(s)
  PROVE  CalmOK'
  <1> DEFINE t == tasks[s]
  <1>1. /\ t.stage = "hash" /\ UNCHANGED <<server, page>>
        /\ TaskOK(server, t) /\ CalmTask(t) /\ t.op = "evidence"
        /\ t.answer = None /\ t \in Tasks("evidence") /\ "evidence" \in Ops
        /\ DraftsAreNew /\ (current # None => current.id \in list)
    BY ChainFacts DEF SubmitEvidence, TaskOK, CalmTask
  <1>2. UNCHANGED <<current, header, shown, rows, list, timeline, panel>>
    BY <1>1 DEF page, behind
  <1>3. ScreenTells'
    BY <1>1, <1>2 DEF CalmTask, ScreenTells, Rendered, View, Point, Changes
  <1>4. DraftsAreNew'
    BY <1>1, <1>2, DraftsStayNew
  <1>5. CASE current = None
    BY <1>1, <1>2, <1>3, <1>4, <1>5, CalmEnd DEF SubmitEvidence
  <1>6. CASE current # None
    <2>1. PICK x : x = [t EXCEPT !.stage = "sent", !.id = current.id,
                                 !.revision = current.revision,
                                 !.seen = header]
      OBVIOUS
    <2>2. /\ current.id \in Cases /\ current.revision \in Nat
          /\ header \in Points \cup {None}
      BY <1>6, PointOfKnown DEF IInv, ServerOK, PageOK, Views
    <2>3. /\ x.op = "evidence" /\ x.id = current.id /\ x.answer = None
          /\ x.certificate = t.certificate /\ x.refresh = t.refresh
          /\ x \in Tasks("evidence")
      BY <1>1, <2>1, <2>2 DEF Tasks
    <2>4. tasks' = [tasks EXCEPT ![s] = x] /\ x # None
      BY <1>1, <1>6, <2>1, <2>3, WorkbenchAssumption
      DEF SubmitEvidence, Await, WorkbenchAssumption
    <2>5. CalmTask(x)'
      BY <1>1, <1>2, <1>3, <1>6, <2>3 DEF CalmTask, Changes
    <2> QED
      BY <1>1, <1>2, <1>4, <2>4, <2>5, ChainFacts, ChainStep
  <1> QED
    BY <1>5, <1>6

LEMMA CalmSelected ==
  ASSUME IInv, CalmOK, NEW s \in Slots, tasks[s] # None, Selected(s)
  PROVE  CalmOK'
  <1> DEFINE t == tasks[s]
  <1>1. /\ UNCHANGED <<server, list, timeline>> /\ CalmTask(t)
        /\ t.op = "get" /\ t.stage = "answered" /\ DraftsAreNew
        /\ Answered(server, t)
    BY ChainFacts, AnswerFacts DEF Selected, Arrived
  <1>2. PICK view : view = View(t.id) /\ view = t.answer
    BY <1>1 DEF CalmTask
  <1>3. /\ view.id = t.id /\ view.id \in list /\ Known(server, view)
        /\ view.status = server[t.id].status /\ view.id \in Existing(server)
    BY <1>1, <1>2 DEF CalmTask, View, Answered, Known
  <1>4. current' = view /\ header' = Point(view)
    BY <1>2 DEF Selected, Render
  <1>5. DraftsAreNew' /\ (current # None => current.id \in list)'
    BY <1>1, <1>3, <1>4, DraftsStayNew
  <1>6. view # None
    BY <1>3, WorkbenchAssumption DEF WorkbenchAssumption, Known
  <1>7. CASE view.risks
    <2>1. Render(view) /\ LoadTimeline(s, view, t.certificate)
      BY <1>2, <1>7 DEF Selected
    <2>2. PICK x : x = [Request("timeline", view.id) EXCEPT
                          !.certificate = t.certificate]
      OBVIOUS
    <2>3. TaskOK(server, x)
      BY <1>3, <2>2, QueryRequests, AnswerFacts
    <2>4. Rendered'
      BY <1>1, <1>2, <1>3, <1>4, <1>6, <1>7, <2>1
      DEF Rendered, Render, View, Point
    <2>5. /\ x.op = "timeline" /\ x.id = view.id /\ x.stage = "sent"
          /\ x.certificate = t.certificate /\ x.refresh = FALSE
          /\ x.answer = None
      BY <2>2 DEF Request
    <2>6. CalmTask(x)'
      BY <1>1, <1>3, <1>4, <2>4, <2>5 DEF CalmTask, Changes
    <2> QED
      BY <1>5, <2>1, <2>2, <2>3, <2>6, CalmNext DEF LoadTimeline
  <1>8. CASE ~ view.risks
    <2>1. End(s)
      BY <1>2, <1>8 DEF Selected, EndOfSelect
    <2>2. ScreenTells'
      BY <1>4, <1>8 DEF ScreenTells
    <2> QED
      BY <1>5, <2>1, <2>2, CalmEnd
  <1> QED
    BY <1>7, <1>8

LEMMA CalmTimelineLoaded ==
  ASSUME IInv, CalmOK, NEW s \in Slots, tasks[s] # None, TimelineLoaded(s)
  PROVE  CalmOK'
  <1> DEFINE t == tasks[s]
  <1>1. /\ UNCHANGED <<server, current, header, shown, rows, list>>
        /\ timeline' = t.answer /\ EndOfSelect(s)
        /\ t.op = "timeline" /\ t.stage = "answered" /\ CalmTask(t)
        /\ DraftsAreNew /\ (current # None => current.id \in list)
    BY ChainFacts DEF TimelineLoaded, Arrived
  <1>2. Rendered /\ t.id = current.id /\ timeline' = Point(current)
    BY <1>1 DEF CalmTask
  <1>3. panel' = panel
    <2>1. CASE t.certificate = None
      BY <1>1, <2>1 DEF EndOfSelect
    <2>2. CASE t.certificate # None
      <3>1. t.certificate = current.id /\ server[current.id].status = "released"
        BY <1>1, <1>2, <2>2 DEF CalmTask
      <3>2. current.status = "released"
        BY <1>2, <3>1 DEF Rendered, View
      <3> QED
        BY <1>1, <1>2, <2>2, <3>1, <3>2 DEF EndOfSelect, Rendered
    <2> QED
      BY <2>1, <2>2
  <1>4. ScreenTells'
    BY <1>1, <1>2, <1>3 DEF ScreenTells, Rendered, View, Point
  <1>5. DraftsAreNew' /\ End(s)
    BY <1>1, DraftsStayNew DEF EndOfSelect
  <1> QED
    BY <1>1, <1>4, <1>5, CalmEnd

(* The loaded list has every case there is, the selected one too.          *)
LEMMA CalmListLoaded ==
  ASSUME IInv, CalmOK, NEW s \in Slots, tasks[s] # None, ListLoaded(s)
  PROVE  CalmOK'
  <1> DEFINE t == tasks[s]
  <1>1. /\ UNCHANGED <<server, header, shown, rows, timeline, panel>>
        /\ t.op = "list" /\ t.answer = Existing(server) /\ CalmTask(t)
        /\ current # None => Known(server, current)
        /\ t.certificate = None
    BY ChainFacts DEF ListLoaded, Arrived, CalmTask, PageOK
  <1>2. current # None => current.id \in Existing(server)
    BY <1>1 DEF Known
  <1>3. AfterList(s, Existing(server), current)
    BY <1>1, <1>2 DEF ListLoaded
  <1>4. list' = Existing(server) /\ current' = current
    BY <1>3 DEF AfterList
  <1>5. DraftsAreNew' /\ (current # None => current.id \in list)'
    BY <1>1, <1>2, <1>4 DEF DraftsAreNew, Existing
  <1>6. CASE t.refresh
    <2>1. Rendered /\ current # None
      BY <1>1, <1>6 DEF CalmTask, Rendered
    <2>2. PICK x : x = [Request("timeline", current.id) EXCEPT
                          !.certificate = None]
      OBVIOUS
    <2>3. TaskOK(server, x)
      BY <1>2, <2>1, <2>2, QueryRequests
    <2>4. Rendered'
      BY <1>1, <1>4, <2>1 DEF Rendered, View, Point
    <2>5. /\ x.op = "timeline" /\ x.id = current.id /\ x.stage = "sent"
          /\ x.certificate = None /\ x.refresh = FALSE /\ x.answer = None
      BY <2>2 DEF Request
    <2>6. CalmTask(x)'
      BY <1>4, <2>4, <2>5 DEF CalmTask, Changes
    <2>7. Await(s, x)
      BY <1>3, <1>6, <2>1, <2>2 DEF AfterList, LoadTimeline
    <2> QED
      BY <1>5, <2>3, <2>6, <2>7, CalmNext
  <1>7. CASE ~ t.refresh
    <2>1. current = None /\ End(s)
      BY <1>1, <1>3, <1>7 DEF CalmTask, AfterList
    <2>2. ScreenTells'
      BY <1>4, <2>1 DEF ScreenTells
    <2> QED
      BY <1>5, <2>1, <2>2, CalmEnd
  <1> QED
    BY <1>6, <1>7

LEMMA CalmChangeDone ==
  ASSUME IInv, CalmOK, NEW s \in Slots, tasks[s] # None, ChangeDone(s)
  PROVE  CalmOK'
  <1> DEFINE t == tasks[s]
  <1>1. /\ UNCHANGED <<server, list, timeline>> /\ CalmTask(t)
        /\ t.op \in DOMAIN Changes /\ t.stage = "answered" /\ t.answer # None
        /\ DraftsAreNew /\ (current # None => current.id \in list)
    BY ChainFacts DEF ChangeDone, Arrived, Changes
  <1>2. PICK view : view = View(t.id) /\ view = t.answer
    BY <1>1 DEF CalmTask
  <1>3. view = View(view.id) /\ view.id \in list
    BY <1>1, <1>2 DEF CalmTask, View
  <1>4. current' = view
    BY <1>2 DEF ChangeDone, Render
  <1>5. DraftsAreNew' /\ (current # None => current.id \in list)'
    BY <1>1, <1>3, <1>4, DraftsStayNew
  <1>6. CASE view.risks
    <2>1. Render(view)
      BY <1>2, <1>6 DEF ChangeDone
    <2>2. Rendered'
      BY <1>1, <1>2, <1>3, <1>6, <2>1 DEF Rendered, Render, View, Point
    <2>3. PICK x : x = [Request("list", None) EXCEPT !.refresh = TRUE]
      OBVIOUS
    <2>4. /\ x.op = "list" /\ x.stage = "sent" /\ x.certificate = None
          /\ x.refresh = TRUE /\ x.answer = None
      BY <2>3 DEF Request
    <2>5. CalmTask(x)'
      BY <2>2, <2>4 DEF CalmTask, Changes
    <2>6. TaskOK(server, x) /\ Await(s, x)
      BY <1>2, <1>6, <2>3, QueryRequests DEF ChangeDone
    <2> QED
      BY <1>5, <2>5, <2>6, CalmNext
  <1>7. CASE ~ view.risks
    <2>1. End(s)
      BY <1>2, <1>7 DEF ChangeDone
    <2>2. ScreenTells'
      BY <1>4, <1>7 DEF ScreenTells
    <2> QED
      BY <1>5, <2>1, <2>2, CalmEnd
  <1> QED
    BY <1>6, <1>7

LEMMA CalmSigned ==
  ASSUME IInv, CalmOK, NEW s \in Slots, tasks[s] # None, Signed(s)
  PROVE  CalmOK'
  <1> DEFINE t == tasks[s]
  <1>1. /\ UNCHANGED <<server, page>> /\ CalmTask(t)
        /\ t.op = "sign" /\ t.stage = "answered" /\ t.answer # None
        /\ DraftsAreNew /\ (current # None => current.id \in list)
    BY ChainFacts DEF Signed, Arrived, Changes
  <1>2. /\ current # None /\ t.id = current.id /\ t.answer = View(t.id)
        /\ t.answer.status = "released"
    BY <1>1 DEF CalmTask, Changes
  <1>3. /\ t.answer.id = current.id
        /\ server[current.id].status = "released"
    BY <1>2 DEF View
  <1>4. current.id \in Existing(server) /\ current.id \in Cases
    BY <1>2, PointOfKnown DEF IInv, ServerOK, PageOK
  <1>5. UNCHANGED <<current, list>>
    BY <1>1 DEF page, behind
  <1>6. PICK x : x = [Request("get", current.id) EXCEPT
                        !.certificate = t.answer.id]
    OBVIOUS
  <1>7. /\ x.op = "get" /\ x.id = current.id /\ x.stage = "sent"
        /\ x.certificate = current.id /\ x.refresh = FALSE /\ x.answer = None
    BY <1>3, <1>6 DEF Request
  <1>8. CalmTask(x)'
    BY <1>1, <1>2, <1>3, <1>5, <1>7 DEF CalmTask, Changes
  <1>9. TaskOK(server, x) /\ Await(s, x)
    BY <1>2, <1>3, <1>4, <1>6, QueryRequests DEF Signed
  <1>10. DraftsAreNew' /\ (current # None => current.id \in list)'
    BY <1>1, <1>5, DraftsStayNew
  <1> QED
    BY <1>8, <1>9, <1>10, CalmNext

(* A released case is in the list.                                         *)
LEMMA CalmVerified ==
  ASSUME IInv, CalmOK, NEW s \in Slots, tasks[s] # None, Verified(s)
  PROVE  CalmOK'
  <1> DEFINE t == tasks[s]
  <1>1. /\ UNCHANGED <<server, current, list>> /\ CalmTask(t)
        /\ t.op = "verify" /\ t.answer # None /\ Answered(server, t)
        /\ DraftsAreNew /\ (current # None => current.id \in list)
    BY ChainFacts, AnswerFacts DEF Verified, Arrived
  <1>2. PICK c : c = t.answer
    OBVIOUS
  <1>3. /\ c \in Existing(server) /\ c \in Cases /\ c # None
        /\ server[c].status = "released"
    BY <1>1, <1>2 DEF Answered, CalmTask, Existing
  <1>4. c \in list
    BY <1>1, <1>3 DEF DraftsAreNew
  <1>5. PICK x : x = [Request("get", c) EXCEPT !.certificate = c]
    OBVIOUS
  <1>6. /\ x.op = "get" /\ x.id = c /\ x.stage = "sent"
        /\ x.certificate = c /\ x.refresh = FALSE /\ x.answer = None
    BY <1>5 DEF Request
  <1>7. CalmTask(x)'
    BY <1>1, <1>3, <1>4, <1>6 DEF CalmTask, Changes
  <1>8. TaskOK(server, x) /\ Await(s, x)
    BY <1>2, <1>3, <1>4, <1>5, QueryRequests DEF Verified
  <1>9. DraftsAreNew' /\ (current # None => current.id \in list)'
    BY <1>1, DraftsStayNew
  <1> QED
    BY <1>7, <1>8, <1>9, CalmNext

LEMMA CalmCreated ==
  ASSUME IInv, CalmOK, NEW s \in Slots, tasks[s] # None, Created(s)
  PROVE  CalmOK'
  <1>1. /\ UNCHANGED <<server, page>> /\ End(s) /\ ScreenTells /\ DraftsAreNew
        /\ current # None => current.id \in list
    BY ChainFacts DEF Created, Arrived, CalmTask
  <1>2. UNCHANGED <<current, header, shown, rows, list, timeline, panel>>
    BY <1>1 DEF page, behind
  <1>3. ScreenTells' /\ DraftsAreNew' /\ (current # None => current.id \in list)'
    BY <1>1, <1>2, DraftsStayNew DEF ScreenTells, Rendered, View, Point
  <1> QED
    BY <1>1, <1>3, CalmEnd

(* Nothing is lost, and only what changes nothing is answered by an error. *)
LEMMA CalmFailed ==
  ASSUME IInv, CalmOK, IsCalm(scenario), NEW s \in Slots, tasks[s] # None,
         Failed(s)
  PROVE  CalmOK'
  <1> DEFINE t == tasks[s]
  <1>1. /\ t.stage = "answered" /\ t.answer = None /\ CalmTask(t)
        /\ TaskOK(server, t) /\ server \in ServerType /\ t.op \in Ops
        /\ UNCHANGED <<server, header, shown, rows, timeline>>
    BY ChainFacts DEF Failed, IsCalm
  <1>2. t.op \notin {"list", "get", "timeline"}
    <2>1. t.op # "list"
      BY <1>1, WorkbenchAssumption DEF CalmTask, Existing, WorkbenchAssumption
    <2>2. t.op # "get"
      <3> SUFFICES ASSUME t.op = "get" PROVE FALSE
        OBVIOUS
      <3>1. t.id \in Existing(server) /\ View(t.id) = None
        BY <1>1 DEF TaskOK, CalmTask
      <3>2. View(t.id) \in Views
        BY <1>1, <3>1, ViewIsKnown DEF View, Known
      <3> QED
        BY <3>1, <3>2, WorkbenchAssumption DEF WorkbenchAssumption
    <2>3. t.op # "timeline"
      <3> SUFFICES ASSUME t.op = "timeline" PROVE FALSE
        OBVIOUS
      <3>1. current # None /\ Point(current) = None
        BY <1>1 DEF CalmTask, Rendered
      <3>2. Point(current) \in Points
        BY <1>1, <3>1, PointOfKnown DEF IInv, PageOK
      <3> QED
        BY <3>1, <3>2, WorkbenchAssumption DEF WorkbenchAssumption
    <2> QED
      BY <2>1, <2>2, <2>3
  <1>3. End(s) /\ UNCHANGED <<current, list, panel>>
    BY <1>2 DEF Failed
  <1>4. ScreenTells /\ DraftsAreNew /\ (current # None => current.id \in list)
    BY <1>1, <1>2, ChainFacts DEF CalmTask, Ops
  <1>5. ScreenTells' /\ DraftsAreNew' /\ (current # None => current.id \in list)'
    BY <1>1, <1>3, <1>4, DraftsStayNew
    DEF ScreenTells, Rendered, View, Point
  <1> QED
    BY <1>3, <1>5, CalmEnd

(* A click while the page is at rest begins the one chain there is.        *)
LEMMA CalmClicked ==
  ASSUME IInv, CalmOK, AtRest, UNCHANGED <<server, page>>, NEW s \in Slots,
         NEW x, TaskOK(server, x), Await(s, x),
         x.certificate = None, x.refresh = FALSE, x.answer = None,
         x.stage # "answered",
         \/ x.op = "get" /\ x.id \in list
         \/ x.op \in {"create", "verify"}
         \/ /\ x.op \in DOMAIN Changes
            /\ x.stage # "hash" => current # None /\ x.id = current.id
  PROVE  CalmOK'
  <1>1. /\ TasksOK /\ ScreenTells /\ DraftsAreNew
        /\ current # None => current.id \in list
        /\ \A r \in Slots : tasks[r] # None => r = s
    BY RestFacts
  <1>2. UNCHANGED <<current, header, shown, rows, list, timeline, panel>>
    BY DEF page, behind
  <1>3. ScreenTells' /\ DraftsAreNew' /\ (current # None => current.id \in list)'
    BY <1>1, <1>2, DraftsStayNew DEF ScreenTells, Rendered, View, Point
  <1>4. x # None /\ tasks' = [tasks EXCEPT ![s] = x]
    BY TaskIsNotNone DEF Await
  <1>5. CalmTask(x)'
    BY <1>2, <1>3 DEF CalmTask, Changes
  <1> QED
    BY <1>1, <1>3, <1>4, <1>5, ChainStep

LEMMA CalmClick ==
  ASSUME IInv, CalmOK, IsCalm(scenario), NEW s \in Slots, Click(s)
  PROVE  CalmOK'
  <1>1. AtRest /\ UNCHANGED <<server, page>> /\ server \in ServerType
    BY DEF Click, SelectCase, ClickVerify, ClickChange, ClickCreate,
           ClickSubmit, CanClick, CanUse, Free, IsCalm, IInv, ServerOK
  <1>2. /\ current # None =>
             /\ current.id \in Existing(server) /\ current.id \in list
        /\ list \subseteq Existing(server)
    BY <1>1, RestFacts DEF PageOK, Known
  <1>3. CASE \E c \in Cases : SelectCase(s, c)
    <2>1. PICK c \in Cases : SelectCase(s, c)
      BY <1>3
    <2>2. c \in list /\ c \in Existing(server)
      BY <1>2, <2>1 DEF SelectCase
    <2>3. PICK x : x = Request("get", c)
      OBVIOUS
    <2>4. TaskOK(server, x) /\ Await(s, x)
      BY <2>1, <2>2, <2>3, QueryRequests DEF SelectCase
    <2>5. /\ x.op = "get" /\ x.id = c /\ x.answer = None /\ x.stage = "sent"
          /\ x.certificate = None /\ x.refresh = FALSE
      BY <2>3 DEF Request
    <2> QED
      BY <1>1, <2>2, <2>4, <2>5, CalmClicked
  <1>4. CASE \E c \in Cases : ClickVerify(s, c)
    <2>1. PICK c \in Cases : ClickVerify(s, c)
      BY <1>4
    <2>2. c \in Existing(server)
      BY <2>1 DEF ClickVerify, Existing
    <2>3. PICK x : x = Request("verify", c)
      OBVIOUS
    <2>4. TaskOK(server, x) /\ Await(s, x)
      BY <2>1, <2>2, <2>3, QueryRequests DEF ClickVerify
    <2>5. /\ x.op = "verify" /\ x.answer = None /\ x.stage = "sent"
          /\ x.certificate = None /\ x.refresh = FALSE
      BY <2>3 DEF Request
    <2> QED
      BY <1>1, <2>4, <2>5, CalmClicked
  <1>5. CASE ClickCreate(s)
    <2>1. PICK x : x = Request("create", None)
      OBVIOUS
    <2>2. TaskOK(server, x) /\ Await(s, x)
      BY <1>5, <2>1, QueryRequests DEF ClickCreate
    <2>3. /\ x.op = "create" /\ x.answer = None /\ x.stage = "sent"
          /\ x.certificate = None /\ x.refresh = FALSE
      BY <2>1 DEF Request
    <2> QED
      BY <1>1, <2>2, <2>3, CalmClicked
  <1>6. CASE \E op \in DOMAIN Changes : ClickChange(s, op)
    <2>1. PICK op \in DOMAIN Changes : ClickChange(s, op)
      BY <1>6
    <2>2. PICK x :
            /\ TaskOK(server, x) /\ Await(s, x)
            /\ x.op = op /\ x.id = current.id /\ x.stage = "sent"
            /\ x.certificate = None /\ x.refresh = FALSE /\ x.answer = None
      BY <2>1, ClickChangeTask
    <2> QED
      BY <1>1, <2>1, <2>2, ClickChangeTask, CalmClicked
  <1>7. CASE ClickSubmit(s)
    <2>1. PICK x : x = [Request("evidence", None) EXCEPT
                          !.stage = "hash", !.of = dialog]
      OBVIOUS
    <2>2. dialog \in Cases /\ Await(s, x)
      BY <1>7, <2>1 DEF ClickSubmit, IInv, PageOK
    <2>3. TaskOK(server, x)
      BY <2>1, <2>2, EvidenceTask
    <2>4. /\ x.op = "evidence" /\ x.stage = "hash" /\ x.answer = None
          /\ x.certificate = None /\ x.refresh = FALSE
      BY <2>1 DEF Request
    <2> QED
      BY <1>1, <2>2, <2>3, <2>4, CalmClicked DEF Changes
  <1> QED
    BY <1>3, <1>4, <1>5, <1>6, <1>7 DEF Click

(* What the user does with the page itself: the table shows the selected   *)
(* case when it is edited, and the dialog is no part of the screen.        *)
LEMMA CalmPageClick ==
  ASSUME IInv, CalmOK, IsCalm(scenario),
         EditPlan \/ OpenEvidence \/ CloseEvidence
  PROVE  CalmOK'
  <1>1. UNCHANGED <<server, tasks, current, header, shown, list, timeline,
                    panel>>
    BY DEF EditPlan, OpenEvidence, CloseEvidence, behind
  <1>2. CASE rows' = rows
    <2>1. (ScreenTells <=> ScreenTells') /\ (Rendered <=> Rendered')
      BY <1>1, <1>2 DEF ScreenTells, Rendered, View, Point
    <2>2. \A t : CalmTask(t) => CalmTask(t)'
      BY <1>1, <2>1 DEF CalmTask, View, Point, Existing
    <2> QED
      BY <1>1, <2>1, <2>2 DEF CalmOK, AtRest, Existing
  <1>3. CASE EditPlan
    <2>1. AtRest /\ rows' = current.id
      BY <1>3 DEF EditPlan, CanUse, IsCalm
    <2>2. ScreenTells'
      BY <1>1, <2>1, RestFacts DEF ScreenTells, Rendered, View, Point
    <2> QED
      BY <1>1, <2>1, <2>2 DEF CalmOK, AtRest, Existing
  <1> QED
    BY <1>2, <1>3 DEF OpenEvidence, CloseEvidence, behind

(* A page that is loading its first list.                                  *)
LEMMA FirstRequest ==
  ASSUME NEW x, x = Request("list", None)
  PROVE  /\ x.op = "list" /\ x.stage = "sent" /\ x.certificate = None
         /\ x.refresh = FALSE /\ x.answer = None /\ x # None
  <1>1. x # None
    BY QueryRequests, TaskIsNotNone
  <1> QED
    BY <1>1 DEF Request

LEMMA CalmInit == Init => CalmOK
  <1> SUFFICES ASSUME Init PROVE CalmOK
    OBVIOUS
  <1>1. PICK s \in Slots : tasks = Starting(s) /\ current = None
    BY DEF Init
  <1> PICK x : x = Request("list", None)
    OBVIOUS
  <1>2. /\ \A t \in Slots : tasks[t] = IF t = s THEN x ELSE None
        /\ x.op = "list" /\ x.stage = "sent" /\ x.certificate = None
        /\ x.refresh = FALSE /\ x.answer = None /\ x # None
    BY <1>1, FirstRequest DEF Starting
  <1>3. CalmTask(x) /\ ~ AtRest
    BY <1>1, <1>2 DEF CalmTask, Changes, AtRest
  <1> QED
    BY <1>1, <1>2, <1>3 DEF CalmOK

LEMMA CalmReload ==
  ASSUME NEW s \in Slots, Reload(s)
  PROVE  CalmOK'
  <1>1. tasks' = Starting(s) /\ current' = None
    BY DEF Reload
  <1> PICK x : x = Request("list", None)
    OBVIOUS
  <1>2. /\ \A t \in Slots : tasks'[t] = IF t = s THEN x ELSE None
        /\ x.op = "list" /\ x.stage = "sent" /\ x.certificate = None
        /\ x.refresh = FALSE /\ x.answer = None /\ x # None
    BY <1>1, FirstRequest DEF Starting
  <1>3. CalmTask(x)' /\ ~ AtRest'
    BY <1>1, <1>2 DEF CalmTask, Changes, AtRest
  <1>4. \A t \in Slots : tasks'[t] # None => t = s /\ tasks'[t] = x
    BY <1>2
  <1>5. (\A t \in Slots : tasks[t] # None => CalmTask(tasks[t]))'
    <2> SUFFICES ASSUME NEW t \in Slots, tasks'[t] # None
                 PROVE  CalmTask(tasks[t])'
      OBVIOUS
    <2>1. tasks'[t] = x
      BY <1>4
    <2> QED
      BY <1>3, <2>1 DEF CalmTask
  <1>6. tasks'[s] = x
    BY <1>2
  <1> QED
    BY <1>1, <1>2, <1>3, <1>4, <1>5, <1>6 DEF CalmOK

LEMMA CalmStep ==
  ASSUME IInv, CalmOK, IsCalm(scenario), [Next]_vars
  PROVE  CalmOK'
  <1>1. CASE UNCHANGED vars
    <2>1. /\ UNCHANGED <<server, tasks, current, header, shown, rows, list,
                         timeline, panel>>
      BY <1>1 DEF vars, page, behind
    <2>2. (ScreenTells <=> ScreenTells') /\ (Rendered <=> Rendered')
      BY <2>1 DEF ScreenTells, Rendered, View, Point
    <2>3. \A t : CalmTask(t) => CalmTask(t)'
      BY <2>1, <2>2 DEF CalmTask, View, Point, Existing
    <2> QED
      BY <2>1, <2>2, <2>3 DEF CalmOK, AtRest, Existing
  <1>2. CASE Next
    <2>1. UNCHANGED scenario
      BY <1>2 DEF Next
    <2>2. CASE \E s \in Slots : Click(s)
      BY <2>2, CalmClick
    <2>3. CASE \E s \in Slots : Serve(s)
      BY <2>1, <2>3, CalmServeQuery, CalmServeChange, CalmServeCreate,
         CalmRefuse DEF Serve
    <2>4. CASE \E s \in Slots : Continue(s)
      BY <2>4, CalmSubmitEvidence, CalmSelected, CalmTimelineLoaded,
         CalmListLoaded, CalmChangeDone, CalmSigned, CalmVerified, CalmCreated,
         CalmFailed DEF Continue
    <2>5. CASE \E s \in Slots : Reload(s)
      BY <2>5, CalmReload
    <2>6. CASE EditPlan \/ OpenEvidence \/ CloseEvidence
      BY <2>6, CalmPageClick
    <2>7. ~ \E c \in Cases : OtherUser(c)
      BY DEF OtherUser, IsCalm
    <2> QED
      BY <1>2, <2>2, <2>3, <2>4, <2>5, <2>6, <2>7 DEF Next
  <1> QED
    BY <1>1, <1>2

LEMMA CalmInvHolds == Spec => []CalmInv
  <1>1. Init => CalmInv
    BY CalmInit DEF CalmInv
  <1>2. IInv /\ CalmInv /\ [Next]_vars => CalmInv'
    <2> SUFFICES ASSUME IInv, CalmInv, [Next]_vars, IsCalm(scenario')
                 PROVE  CalmOK'
      BY DEF CalmInv, IsCalm
    <2>1. scenario' = scenario
      BY DEF Next, vars
    <2>2. IsCalm(scenario) /\ CalmOK
      BY <2>1 DEF CalmInv
    <2> QED
      BY <2>2, CalmStep
  <1> QED
    BY <1>1, <1>2, IInvHolds, PTL DEF Spec

(* For a user who waits until the page is at rest before the next click,   *)
(* on a network that loses nothing, without other users: at rest every     *)
(* part of the page tells what the service has of the selected case, if it *)
(* has risks (app.js:112-150, 442-445).                                    *)
THEOREM ScreenTellsTheTruth == Spec => []ScreenIsTrue
  <1>1. CalmInv => ScreenIsTrue
    <2> SUFFICES ASSUME CalmInv, IsCalm(scenario), AtRest, current # None,
                        current.risks
                 PROVE  /\ ScreenTells /\ current.id \in list
      BY DEF ScreenIsTrue, ScreenTells, Rendered
    <2> QED
      BY DEF CalmInv, CalmOK
  <1> QED
    BY <1>1, CalmInvHolds, PTL
============================================================================

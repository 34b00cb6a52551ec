--------------------------- MODULE ProcessProofs ---------------------------
(***************************************************************************)
(* The properties of Process for every plan of the self test, any number   *)
(* of findings and of connections, and any number of self tests.           *)
(*                                                                         *)
(* What an exit code means rests on where the main goroutine can have been *)
(* (ServiceInv).  That a verdict is earned rests on what is on the disk    *)
(* when the flow has come to a step (FlowInv), whoever wrote it.  That the *)
(* first self test in a directory fails only on a fault needs more: the    *)
(* case as it is after each step of the script (Place), of which the next  *)
(* command is then not refused.                                            *)
(***************************************************************************)
EXTENDS Process, ClearanceLemmas, FiniteSetTheorems, SequenceTheorems

----------------------------------------------------------------------------
(* The process around the service.                                         *)

Configured ==
  /\ address = P!ParseConfig(options)
  /\ address # None

ServiceInv ==
  /\ main = "configure" => address = None
  /\ main \in {"build", "listen", "select", "shutdown"} => Configured
  /\ exit # None <=> main = "exited"
  /\ exit = 2 => P!ParseConfig(options) = None
  /\ exit \in {0, 1} => Configured
  /\ serving = "yes" => main = "select"
  /\ main = "shutdown" => signalled
  /\ main # "exited" => \A c \in Connections : connection[c] # "cut"
  /\ (~ selfTest /\ exit = 0) =>
       signalled /\ \A c \in Connections : connection[c] # "cut"

(* A self test serves nobody but itself, and only while main is in it.     *)
SelfTestAlone ==
  /\ selfTest =>
       /\ main \in {"configure", "build", "exited", "killed"}
       /\ serving = "no"
       /\ \A c \in Connections : connection[c] = "none"
  /\ stage # "off" => selfTest /\ main = "build"
  /\ tests = 0 => stage = "off" /\ db = Empty

----------------------------------------------------------------------------
(* What is on the disk.                                                    *)

StoredInv ==
  db[Case] # None =>
    /\ SnapshotInv(db[Case])
    /\ db[Case].case.plan \in {SmokePlan, None}

FlowInv ==
  /\ wire # "quiet" => stage \in {"flow", "stop"} /\ Script[at].do # "reload"
  /\ stage \in {"start", "ready"} => wire = "quiet" /\ at = 1
  /\ (stage = "flow" /\ (at > 1 \/ wire = "answered")) => db[Case] # None
  /\ stage = "stop" =>
       /\ verdict \in {"pass", "fail"}
       /\ wire \in {"quiet", "sent"}
       /\ verdict = "pass" => wire = "quiet" /\ EarnedBy(db[Case])

----------------------------------------------------------------------------
(* The case after k steps of the script.                                   *)

N == Len(SmokeFindings)

StatusAt(k) ==
  IF k <= 2 THEN "draft"
  ELSE IF k <= N + 3 THEN "remediation"
  ELSE IF k <= 2 * N + 4 THEN "pending_review"
  ELSE "released"

FindingStatusAt(k, i) ==
  IF k < 3 + i THEN "open"
  ELSE IF k < N + 4 + i THEN "evidence_submitted"
  ELSE "accepted"

Landmark(k, c) ==
  /\ c.status = StatusAt(k)
  /\ k >= 2 => c.plan = SmokePlan
  /\ k >= 3 =>
       \A i \in 1 .. N : c.findings[SmokeFindings[i]].status = FindingStatusAt(k, i)

Fresh(k, c) == \A i \in k + 1 .. 2 * N + 5 : IsNewRequest(c, i)

Place(k, s) ==
  IF k = 0 THEN s = None
  ELSE /\ s # None
       /\ SnapshotInv(s)
       /\ Landmark(k, s.case) /\ Fresh(k, s.case)
       /\ s.case.revision >= k \/ s.case.revision >= 2 * N + 5
       /\ k >= 2 * N + 5 => Verifies(s)

(* The first test in its directory, as long as nothing failed or was late. *)
First == selfTest /\ (temp \/ tests = 1)

Undisturbed == First /\ ~ faulty

FirstFlow ==
  /\ stage \in {"start", "ready"} => db[Case] = None /\ view = None
  /\ stage = "flow" =>
       /\ wire # "refused" /\ view = db[Case]
       /\ Place(IF wire = "answered" THEN at ELSE at - 1, db[Case])
  /\ stage = "stop" => verdict = "pass"

FirstInv == Undisturbed => FirstFlow /\ exit # 1

----------------------------------------------------------------------------
(* The steps of the process around the service.                            *)

ServiceOK == P!TypeOK /\ ServiceInv

LEMMA NoneAddress ==
  /\ None \notin 0 .. 2
  /\ \A o \in [addr : P!Addresses \cup {None}, PORT : Ports \cup {None}, rest : BOOLEAN] :
       /\ P!Requested(o) \in [host : Hosts, port : Ports \cup {P!DefaultPort}]
       /\ P!Requested(o) # None
       /\ P!ParseConfig(o) \in [host : Hosts, port : Ports \cup {P!DefaultPort}] \cup {None}
       /\ P!ParseConfig(o) # None =>
            /\ P!ParseConfig(o) = P!Requested(o)
            /\ P!IsBindable(P!Requested(o))
       /\ (P!ParseConfig(o) = None /\ o.rest) => ~ P!IsBindable(P!Requested(o))
  BY ProcessAssumption
  DEF P!RuntimeAssumption, P!ParseConfig, P!Requested, P!Address, P!Addresses,
      P!DefaultHost, P!DefaultPort

(* What the end of main leaves of the connections.                         *)
LEMMA ExitLeaves ==
  ASSUME ServiceOK, main # "exited", NEW code \in 0 .. 2, P!Exit(code)
  PROVE  /\ main' = "exited" /\ exit' = code /\ serving' = "no"
         /\ connection' \in [Connections -> P!ConnectionStates]
         /\ P!Quiescent => \A c \in Connections : connection'[c] # "cut"
         /\ (\A c \in Connections : connection[c] = "none") =>
              \A c \in Connections : connection'[c] = "none"
  BY DEF ServiceOK, ServiceInv, P!TypeOK, P!Exit, P!ConnectionStates, P!Quiescent

LEMMA ConfigureOK ==
  ASSUME ServiceOK, P!Configure, selfTest' = selfTest
  PROVE  ServiceOK'
  <1>1. P!TypeOK /\ ServiceInv /\ main = "configure" /\ exit = None
    BY DEF ServiceOK, ServiceInv, P!Configure
  <1>2. P!ParseConfig(options) \in
          [host : Hosts, port : Ports \cup {P!DefaultPort}] \cup {None}
    BY <1>1, NoneAddress DEF P!TypeOK
  <1>3. CASE address' = None
    <2>1. P!Exit(2) /\ UNCHANGED <<options, signalled>>
          /\ address' = P!ParseConfig(options)
      BY <1>3 DEF P!Configure
    <2>2. /\ main' = "exited" /\ exit' = 2 /\ serving' = "no"
          /\ connection' \in [Connections -> P!ConnectionStates]
      BY <1>1, <2>1, ExitLeaves DEF ServiceOK
    <2>3. P!ParseConfig(options)' = P!ParseConfig(options)
      BY <2>1 DEF P!ParseConfig, P!Requested
    <2> QED
      BY <1>1, <1>2, <1>3, <2>1, <2>2, <2>3, NoneAddress
      DEF ServiceOK, ServiceInv, Configured, P!TypeOK
  <1>4. CASE address' # None
    <2>1. /\ main' = "build" /\ UNCHANGED <<serving, connection, exit, options, signalled>>
          /\ address' = P!ParseConfig(options)
      BY <1>4 DEF P!Configure
    <2>2. P!ParseConfig(options)' = P!ParseConfig(options)
      BY <2>1 DEF P!ParseConfig, P!Requested
    <2> QED
      BY <1>1, <1>2, <1>4, <2>1, <2>2, NoneAddress
      DEF ServiceOK, ServiceInv, Configured, P!TypeOK
  <1> QED
    BY <1>3, <1>4

(* After the configuration, main ends with 0 only when it was told to and  *)
(* nothing was in work.                                                    *)
LEMMA ExitOK ==
  ASSUME ServiceOK, selfTest' = selfTest, NEW code \in {0, 1},
         main \in {"build", "listen", "select", "shutdown"},
         P!Exit(code), UNCHANGED <<options, address, signalled>>,
         (~ selfTest /\ code = 0) => signalled /\ P!Quiescent
  PROVE  ServiceOK'
  <1>1. /\ main' = "exited" /\ exit' = code /\ serving' = "no"
        /\ connection' \in [Connections -> P!ConnectionStates]
        /\ P!Quiescent => \A c \in Connections : connection'[c] # "cut"
    BY ExitLeaves
  <1>2. P!ParseConfig(options)' = P!ParseConfig(options)
    BY DEF P!ParseConfig, P!Requested
  <1>3. Configured'
    BY <1>2 DEF ServiceOK, ServiceInv, Configured
  <1> QED
    BY <1>1, <1>2, <1>3, NoneAddress
    DEF ServiceOK, ServiceInv, Configured, P!TypeOK

LEMMA MainOK ==
  ASSUME ServiceOK, ~ selfTest, selfTest' = selfTest, P!Main
  PROVE  ServiceOK'
  <1>1. CASE P!Configure
    BY <1>1, ConfigureOK
  <1>2. CASE \/ P!Exit(1) /\ main \in {"build", "listen"}
                /\ UNCHANGED <<options, address, signalled>>
             \/ P!ServeEnded \/ P!Deadline
    <2>1. /\ P!Exit(1) /\ UNCHANGED <<options, address, signalled>>
          /\ main \in {"build", "listen", "select", "shutdown"}
      BY <1>2 DEF P!ServeEnded, P!Deadline
    <2> QED
      BY <2>1, ExitOK
  <1>3. CASE P!ShutdownDone
    <2> DEFINE code == IF serving = "failed" THEN 1 ELSE 0
    <2>1. /\ P!Exit(code) /\ UNCHANGED <<options, address, signalled>>
          /\ main = "shutdown" /\ P!Quiescent /\ code \in {0, 1} /\ signalled
      BY <1>3 DEF P!ShutdownDone, ServiceOK, ServiceInv
    <2> QED
      BY <2>1, ExitOK
  <1>4. CASE /\ main \in {"build", "listen", "select"} /\ main' \in {"listen", "select", "shutdown"}
             /\ UNCHANGED <<connection, exit, options, address, signalled>>
             /\ serving' \in {serving, "yes", "closed"}
             /\ serving' = "yes" => main' = "select"
             /\ main' = "shutdown" => signalled
    <2>1. P!ParseConfig(options)' = P!ParseConfig(options)
      BY <1>4 DEF P!ParseConfig, P!Requested
    <2> QED
      BY <1>4, <2>1, NoneAddress DEF ServiceOK, ServiceInv, Configured, P!TypeOK
  <1>5. CASE P!Build
    BY <1>2, <1>4, <1>5 DEF P!Build, ServiceOK, ServiceInv
  <1>6. CASE P!Listen
    BY <1>2, <1>4, <1>6 DEF P!Listen
  <1>7. CASE P!BeginShutdown
    BY <1>4, <1>7 DEF P!BeginShutdown
  <1> QED
    BY <1>1, <1>2, <1>3, <1>5, <1>6, <1>7 DEF P!Main

(* What goes on around the main goroutine.                                 *)
LEMMA SignalOK ==
  ASSUME ServiceOK, selfTest' = selfTest, P!Signal
  PROVE  ServiceOK'
  <1>1. P!ParseConfig(options)' = P!ParseConfig(options)
    BY DEF P!Signal, P!ParseConfig, P!Requested
  <1> QED
    BY <1>1, NoneAddress DEF ServiceOK, ServiceInv, Configured, P!TypeOK, P!Signal

(* One connection moves; none is cut by that, and none moves once main has *)
(* ended.                                                                  *)
LEMMA AroundOK ==
  ASSUME ServiceOK, selfTest' = selfTest, Around
  PROVE  ServiceOK' /\ UNCHANGED <<options, address, main, signalled, exit>>
  <1>1. CASE P!ServeFails
    <2>1. P!ParseConfig(options)' = P!ParseConfig(options)
      BY <1>1 DEF P!ServeFails, P!ParseConfig, P!Requested
    <2> QED
      BY <1>1, <2>1 DEF ServiceOK, ServiceInv, Configured, P!TypeOK, P!ServeFails
  <1>2. ASSUME NEW c \in Connections,
               P!Connect(c) \/ P!BeginRequest(c) \/ P!CloseIdle(c) \/ P!Respond(c)
        PROVE  ServiceOK' /\ UNCHANGED <<options, address, main, signalled, exit>>
    <2>1. PICK to \in {"open", "active", "dropped", "answered"} :
            /\ connection' = [connection EXCEPT ![c] = to]
            /\ UNCHANGED <<options, address, main, serving, signalled, exit>>
            /\ main \in {"select", "shutdown"}
      BY <1>2 DEF P!Connect, P!BeginRequest, P!CloseIdle, P!Respond, P!Move, P!Up,
                  ServiceOK, ServiceInv
    <2>2. P!ParseConfig(options)' = P!ParseConfig(options)
      BY <2>1 DEF P!ParseConfig, P!Requested
    <2>3. connection' \in [Connections -> P!ConnectionStates]
          /\ \A d \in Connections : connection'[d] # "cut"
      BY <2>1 DEF ServiceOK, ServiceInv, P!TypeOK, P!ConnectionStates
    <2> QED
      BY <2>1, <2>2, <2>3, NoneAddress DEF ServiceOK, ServiceInv, Configured, P!TypeOK
  <1> QED
    BY <1>1, <1>2 DEF Around

LEMMA StartAgainOK ==
  ASSUME ServiceOK, SelfTestAlone, selfTest' = selfTest, StartAgain
  PROVE  ServiceOK'
  <1>1. P!ParseConfig(options)' = P!ParseConfig(options)
    BY DEF StartAgain, P!ParseConfig, P!Requested
  <1> QED
    BY <1>1, NoneAddress
    DEF ServiceOK, ServiceInv, SelfTestAlone, Configured, P!TypeOK, StartAgain

----------------------------------------------------------------------------
(* The script: which step has which number.                                *)

LEMMA FindingsFacts ==
  /\ N \in Nat /\ N > 0
  /\ SmokeFindings \in Seq(Findings)
  /\ DOMAIN SmokeFindings = 1 .. N
  /\ \A i \in 1 .. N : SmokeFindings[i] \in Findings
  /\ \A i, j \in 1 .. N : SmokeFindings[i] = SmokeFindings[j] => i = j
  /\ RuleFindings[SmokePlan] = {SmokeFindings[i] : i \in 1 .. N}
  /\ RuleFindings[SmokePlan] \in SUBSET Findings
  /\ RuleFindings[SmokePlan] # {}
  <1>1. /\ SmokeFindings \in Seq(Findings) /\ IsInjective(SmokeFindings)
        /\ ToSet(SmokeFindings) = RuleFindings[SmokePlan]
        /\ SmokePlan \in EvaluablePlans
        /\ MinFindings \in Nat \ {0}
        /\ Cardinality(RuleFindings[SmokePlan]) >= MinFindings
    BY ProcessAssumption DEF SelfTestAssumption
  <1>2. RuleFindings[SmokePlan] \in SUBSET Findings
    BY <1>1, CommandsAssumption
  <1>3. RuleFindings[SmokePlan] # {}
    <2> SUFFICES ASSUME RuleFindings[SmokePlan] = {} PROVE FALSE
      OBVIOUS
    <2>1. Cardinality(RuleFindings[SmokePlan]) = 0
      BY FS_EmptySet
    <2> QED
      BY <1>1, <2>1
  <1>4. DOMAIN SmokeFindings = 1 .. N /\ N \in Nat
    BY <1>1 DEF N
  <1>5. RuleFindings[SmokePlan] = {SmokeFindings[i] : i \in 1 .. N}
    BY <1>1, <1>4 DEF ToSet
  <1>6. N > 0
    BY <1>3, <1>4, <1>5
  <1> QED
    BY <1>1, <1>2, <1>3, <1>4, <1>5, <1>6 DEF IsInjective

Steps ==
  [do : CommandNames \cup {"verify", "timeline", "reload"},
   finding : Findings \cup {None}]

LEMMA EachFinding ==
  ASSUME NEW do \in CommandNames
  PROVE  /\ ForEachFinding(do) \in Seq(Steps)
         /\ Len(ForEachFinding(do)) = N
         /\ \A i \in 1 .. N : ForEachFinding(do)[i] = Step(do, SmokeFindings[i])
  <1>1. /\ DOMAIN SmokeFindings = 1 .. N /\ N \in Nat
        /\ \A i \in 1 .. N : Step(do, SmokeFindings[i]) \in Steps
    BY FindingsFacts DEF Step, Steps
  <1>2. ForEachFinding(do) = [i \in 1 .. N |-> Step(do, SmokeFindings[i])]
    BY <1>1 DEF ForEachFinding
  <1>3. ForEachFinding(do) \in [1 .. N -> Steps]
    BY <1>1, <1>2
  <1>4. ForEachFinding(do) \in Seq(Steps)
    BY <1>1, <1>3, SeqDef
  <1>5. Len(ForEachFinding(do)) = N
    BY <1>1, <1>3, <1>4, LenProperties
  <1> QED
    BY <1>2, <1>4, <1>5

LEMMA Concat ==
  ASSUME NEW S, NEW a \in Seq(S), NEW b \in Seq(S)
  PROVE  /\ a \o b \in Seq(S)
         /\ Len(a \o b) = Len(a) + Len(b)
         /\ \A i \in 1 .. Len(a) : (a \o b)[i] = a[i]
         /\ \A i \in Len(a) + 1 .. Len(a) + Len(b) : (a \o b)[i] = b[i - Len(a)]
  OBVIOUS

LEMMA ScriptFacts ==
  /\ Script \in Seq(Steps)
  /\ Len(Script) = 2 * N + 8
  /\ DOMAIN Script = 1 .. 2 * N + 8
  /\ Script[1] = Step("create_case", None)
  /\ Script[2] = Step("replace_plan", None)
  /\ Script[3] = Step("evaluate", None)
  /\ \A i \in 1 .. N : Script[3 + i] = Step("submit_evidence", SmokeFindings[i])
  /\ Script[N + 4] = Step("request_review", None)
  /\ \A i \in 1 .. N : Script[N + 4 + i] = Step("review_finding", SmokeFindings[i])
  /\ Script[2 * N + 5] = Step("sign", None)
  /\ Script[2 * N + 6] = Step("verify", None)
  /\ Script[2 * N + 7] = Step("timeline", None)
  /\ Script[2 * N + 8] = Step("reload", None)
  <1> DEFINE a == <<Step("create_case", None), Step("replace_plan", None),
                    Step("evaluate", None)>>
             b == ForEachFinding("submit_evidence")
             c == <<Step("request_review", None)>>
             d == ForEachFinding("review_finding")
             e == <<Step("sign", None), Step("verify", None), Step("timeline", None),
                    Step("reload", None)>>
             ab == a \o b
             abc == ab \o c
             abcd == abc \o d
  <1>0. \A do \in CommandNames \cup {"verify", "timeline", "reload"} :
          Step(do, None) \in Steps
    BY DEF Step, Steps
  <1>1. N \in Nat
    BY FindingsFacts
  <1>2. /\ a \in Seq(Steps) /\ Len(a) = 3
        /\ a[1] = Step("create_case", None) /\ a[2] = Step("replace_plan", None)
        /\ a[3] = Step("evaluate", None)
    BY <1>0 DEF CommandNames
  <1>3. /\ b \in Seq(Steps) /\ Len(b) = N
        /\ \A i \in 1 .. N : b[i] = Step("submit_evidence", SmokeFindings[i])
    BY EachFinding DEF CommandNames
  <1>4. c \in Seq(Steps) /\ Len(c) = 1 /\ c[1] = Step("request_review", None)
    BY <1>0 DEF CommandNames
  <1>5. /\ d \in Seq(Steps) /\ Len(d) = N
        /\ \A i \in 1 .. N : d[i] = Step("review_finding", SmokeFindings[i])
    BY EachFinding DEF CommandNames
  <1>6. /\ e \in Seq(Steps) /\ Len(e) = 4
        /\ e[1] = Step("sign", None) /\ e[2] = Step("verify", None)
        /\ e[3] = Step("timeline", None) /\ e[4] = Step("reload", None)
    <2>1. /\ Step("sign", None) \in Steps /\ Step("verify", None) \in Steps
          /\ Step("timeline", None) \in Steps /\ Step("reload", None) \in Steps
      BY <1>0 DEF CommandNames
    <2> QED
      BY <2>1
  <1>7. Script = abcd \o e
    BY DEF Script
  <1> HIDE DEF a, b, c, d, e
  <1>8. /\ ab \in Seq(Steps) /\ Len(ab) = N + 3
        /\ ab[1] = a[1] /\ ab[2] = a[2] /\ ab[3] = a[3]
        /\ \A i \in 1 .. N : ab[3 + i] = b[i]
    <2>1. /\ ab \in Seq(Steps)
          /\ Len(ab) = Len(a) + Len(b)
          /\ \A i \in 1 .. Len(a) : ab[i] = a[i]
          /\ \A i \in Len(a) + 1 .. Len(a) + Len(b) : ab[i] = b[i - Len(a)]
      BY <1>2, <1>3, Concat
    <2> HIDE DEF ab
    <2>2. \A i \in 1 .. N : 3 + i \in 4 .. 3 + N /\ 3 + i - 3 = i
      BY <1>1
    <2> QED
      BY <1>1, <1>2, <1>3, <2>1, <2>2
  <1> HIDE DEF ab
  <1>9. /\ abc \in Seq(Steps) /\ Len(abc) = N + 4
        /\ \A i \in 1 .. N + 3 : abc[i] = ab[i]
        /\ abc[N + 4] = c[1]
    <2>1. /\ abc \in Seq(Steps)
          /\ Len(abc) = Len(ab) + Len(c)
          /\ \A i \in 1 .. Len(ab) : abc[i] = ab[i]
          /\ \A i \in Len(ab) + 1 .. Len(ab) + Len(c) : abc[i] = c[i - Len(ab)]
      BY <1>4, <1>8, Concat
    <2> QED
      BY <1>1, <1>4, <1>8, <2>1
  <1> HIDE DEF abc
  <1>10. /\ abcd \in Seq(Steps) /\ Len(abcd) = 2 * N + 4
         /\ \A i \in 1 .. N + 4 : abcd[i] = abc[i]
         /\ \A i \in 1 .. N : abcd[N + 4 + i] = d[i]
    <2>1. /\ abcd \in Seq(Steps)
          /\ Len(abcd) = Len(abc) + Len(d)
          /\ \A i \in 1 .. Len(abc) : abcd[i] = abc[i]
          /\ \A i \in Len(abc) + 1 .. Len(abc) + Len(d) : abcd[i] = d[i - Len(abc)]
      BY <1>5, <1>9, Concat
    <2> HIDE DEF abcd
    <2>2. \A i \in 1 .. N : N + 4 + i \in N + 4 + 1 .. N + 4 + N /\ N + 4 + i - (N + 4) = i
      BY <1>1
    <2> QED
      BY <1>1, <1>5, <1>9, <2>1, <2>2
  <1> HIDE DEF abcd
  <1>11. /\ Script \in Seq(Steps) /\ Len(Script) = 2 * N + 8
         /\ \A i \in 1 .. 2 * N + 4 : Script[i] = abcd[i]
         /\ Script[2 * N + 5] = e[1] /\ Script[2 * N + 6] = e[2]
         /\ Script[2 * N + 7] = e[3] /\ Script[2 * N + 8] = e[4]
    <2> DEFINE whole == abcd \o e
    <2>0. /\ whole \in Seq(Steps)
          /\ Len(whole) = Len(abcd) + Len(e)
          /\ \A i \in 1 .. Len(abcd) : whole[i] = abcd[i]
          /\ \A i \in Len(abcd) + 1 .. Len(abcd) + Len(e) : whole[i] = e[i - Len(abcd)]
      BY <1>6, <1>10, Concat
    <2>1. /\ Script \in Seq(Steps)
          /\ Len(Script) = Len(abcd) + Len(e)
          /\ \A i \in 1 .. Len(abcd) : Script[i] = abcd[i]
          /\ \A i \in Len(abcd) + 1 .. Len(abcd) + Len(e) : Script[i] = e[i - Len(abcd)]
      <3> HIDE DEF whole
      <3>1. Script = whole
        BY <1>7 DEF whole
      <3> QED
        BY <2>0, <3>1
    <2>2. /\ Len(Script) = 2 * N + 8
          /\ \A i \in 1 .. 4 : Script[2 * N + 4 + i] = e[i]
      <3>1. \A i \in 1 .. 4 : /\ 2 * N + 4 + i \in Len(abcd) + 1 .. Len(abcd) + Len(e)
                             /\ 2 * N + 4 + i - Len(abcd) = i
        BY <1>1, <1>6, <1>10
      <3> QED
        BY <1>1, <1>6, <1>10, <2>1, <3>1
    <2>3. /\ Script[2 * N + 4 + 1] = e[1] /\ Script[2 * N + 4 + 2] = e[2]
          /\ Script[2 * N + 4 + 3] = e[3] /\ Script[2 * N + 4 + 4] = e[4]
      BY <2>2
    <2>4. /\ 2 * N + 4 + 1 = 2 * N + 5 /\ 2 * N + 4 + 2 = 2 * N + 6
          /\ 2 * N + 4 + 3 = 2 * N + 7 /\ 2 * N + 4 + 4 = 2 * N + 8
      BY <1>1
    <2> QED
      BY <1>10, <2>1, <2>2, <2>3, <2>4
  <1>12. /\ \A i \in 1 .. N + 3 : Script[i] = ab[i]
         /\ Script[N + 4] = c[1]
         /\ \A i \in 1 .. N : Script[N + 4 + i] = d[i]
    BY <1>1, <1>9, <1>10, <1>11
  <1>13. \A i \in 1 .. N : Script[3 + i] = b[i]
    BY <1>1, <1>8, <1>12
  <1>14. Script[1] = a[1] /\ Script[2] = a[2] /\ Script[3] = a[3]
    BY <1>1, <1>8, <1>12
  <1>15. DOMAIN Script = 1 .. 2 * N + 8
    BY <1>11
  <1> QED
    BY <1>2, <1>3, <1>4, <1>5, <1>6, <1>11, <1>12, <1>13, <1>14, <1>15

LEMMA StepKind ==
  ASSUME NEW k \in DOMAIN Script
  PROVE  \/ k = 1 /\ Script[k] = Step("create_case", None)
         \/ k = 2 /\ Script[k] = Step("replace_plan", None)
         \/ k = 3 /\ Script[k] = Step("evaluate", None)
         \/ \E i \in 1 .. N :
              k = 3 + i /\ Script[k] = Step("submit_evidence", SmokeFindings[i])
         \/ k = N + 4 /\ Script[k] = Step("request_review", None)
         \/ \E i \in 1 .. N :
              k = N + 4 + i /\ Script[k] = Step("review_finding", SmokeFindings[i])
         \/ k = 2 * N + 5 /\ Script[k] = Step("sign", None)
         \/ k = 2 * N + 6 /\ Script[k] = Step("verify", None)
         \/ k = 2 * N + 7 /\ Script[k] = Step("timeline", None)
         \/ k = 2 * N + 8 /\ Script[k] = Step("reload", None)
  <1>1. N \in Nat /\ k \in 1 .. 2 * N + 8
    BY FindingsFacts, ScriptFacts
  <1>2. CASE k \in 4 .. N + 3
    <2>1. k - 3 \in 1 .. N /\ k = 3 + (k - 3)
      BY <1>1, <1>2
    <2>2. Script[3 + (k - 3)] = Step("submit_evidence", SmokeFindings[k - 3])
      BY <2>1, ScriptFacts
    <2> QED
      BY <2>1, <2>2
  <1>3. CASE k \in N + 5 .. 2 * N + 4
    <2>1. k - (N + 4) \in 1 .. N /\ k = N + 4 + (k - (N + 4))
      BY <1>1, <1>3
    <2>2. Script[N + 4 + (k - (N + 4))] = Step("review_finding", SmokeFindings[k - (N + 4)])
      BY <2>1, ScriptFacts
    <2> QED
      BY <2>1, <2>2
  <1>4. CASE k \in {1, 2, 3, N + 4, 2 * N + 5, 2 * N + 6, 2 * N + 7, 2 * N + 8}
    BY <1>4, ScriptFacts
  <1> QED
    BY <1>1, <1>2, <1>3, <1>4

LEMMA StepFacts ==
  ASSUME NEW k \in DOMAIN Script
  PROVE  /\ N \in Nat /\ N > 0 /\ k \in 1 .. 2 * N + 8
         /\ RequestID(k) = k
         /\ Script[k].do \in Commands <=> k <= 2 * N + 5
         /\ Script[k].do = "create_case" <=> k = 1
         /\ Script[k].do = "evaluate" <=> k = 3
         /\ Script[k].do = "sign" <=> k = 2 * N + 5
         /\ Script[k].do = "verify" <=> k = 2 * N + 6
         /\ Script[k].do = "timeline" <=> k = 2 * N + 7
         /\ Script[k].do = "reload" <=> k = 2 * N + 8
         /\ Script[k].do \in {"submit_evidence", "review_finding"} =>
              Script[k].finding \in Findings
         /\ k <= 2 * N + 5 => k \in Requests
  <1>1. /\ N \in Nat /\ N > 0 /\ k \in 1 .. 2 * N + 8
        /\ \A i \in 1 .. N : SmokeFindings[i] \in Findings
    BY FindingsFacts, ScriptFacts
  <1>2. /\ Script[k].do \in Commands <=> k <= 2 * N + 5
        /\ Script[k].do = "create_case" <=> k = 1
        /\ Script[k].do = "evaluate" <=> k = 3
        /\ Script[k].do = "sign" <=> k = 2 * N + 5
        /\ Script[k].do = "verify" <=> k = 2 * N + 6
        /\ Script[k].do = "timeline" <=> k = 2 * N + 7
        /\ Script[k].do = "reload" <=> k = 2 * N + 8
        /\ Script[k].do \in {"submit_evidence", "review_finding"} =>
             Script[k].finding \in Findings
    BY <1>1, StepKind DEF Step, Commands, CommandNames
  <1>3. \A j \in DOMAIN Script : Script[j].do \in Commands => j \in Requests
    BY ProcessAssumption DEF SelfTestAssumption, RequestID
  <1> QED
    BY <1>1, <1>2, <1>3 DEF RequestID

----------------------------------------------------------------------------
(* What the commands of the self test leave on the disk.                   *)

LEMMA SmokeFacts ==
  /\ SmokePlan \in Plans /\ SmokePlan \in ValidPlans /\ SmokePlan \in EvaluablePlans
  /\ SmokePlan # None
  /\ SmokeContent \in Contents
  /\ Reviewer \in Names /\ JsonText[Reviewer] = Reviewer
  /\ Case \in CaseKeys /\ Case[2] = 1
  /\ None \notin Snapshots
  BY ProcessAssumption, CommandsAssumption, DomainAssumption
  DEF SelfTestAssumption, Case

(* A command that is not refused was applied, and the only plan it can     *)
(* bring is the one of the script.                                         *)
LEMMA CommandApplied ==
  ASSUME NEW s, SnapshotInv(s), NEW k \in DOMAIN Script, k \in Requests,
         NEW d \in CommandResults(Script[k], s.case, k)
  PROVE  /\ Applied(s.case, d, k)
         /\ d.plan \in {s.case.plan, SmokePlan}
  <1> DEFINE c == s.case
             step == Script[k]
  <1>1. /\ c \in Cases /\ CaseInv(c) /\ Evaluated(c) /\ c.pendingEvents = <<>>
    BY DEF SnapshotInv, Snapshots
  <1>2. step.do \in {"submit_evidence", "review_finding"} => step.finding \in Findings
    BY StepFacts
  <1>3. "accepted" \in Verdicts /\ TRUE \in BOOLEAN
        /\ \A do \in CommandNames \ {"none"} : do \in CommandNames
    BY DEF Verdicts
  <1>4. CASE step.do = "replace_plan"
    <2>1. d \in ReplacePlanResults(c, k, SmokePlan)
      BY <1>4 DEF CommandResults
    <2>2. d = RecordRequest(ReplacePlan(c, SmokePlan), k, "replace_plan")
      BY <2>1 DEF ReplacePlanResults
    <2>3. ReplacePlan(c, SmokePlan) \in Cases /\ ReplacePlan(c, SmokePlan).plan = SmokePlan
      BY <1>1, SmokeFacts, ReplacePlanFields
    <2>4. d.plan = SmokePlan
      BY <2>2, <2>3, RecordRequestFields DEF CommandNames
    <2> QED
      BY <1>1, <2>1, <2>4, SmokeFacts, ReplacePlanApplied
  <1>5. CASE step.do = "evaluate"
    <2> DEFINE asked == SubmitEvaluation(c)
               found == RuleFindings[c.plan]
               m == ApplyEvaluation(asked, found)
    <2>1. d \in EvaluateResults(c, k)
      BY <1>5 DEF CommandResults
    <2>2. c.plan \in EvaluablePlans /\ d = RecordRequest(m, k, "evaluate")
      BY <2>1 DEF EvaluateResults
    <2>3. asked \in Cases /\ asked.plan = c.plan
      BY <1>1, SubmitEvaluationFields
    <2>4. m \in Cases /\ m.plan = c.plan
      <3>1. found \in SUBSET Findings
        BY <2>2, CommandsAssumption
      <3>2. asked \in Cases
        BY <2>3
      <3> HIDE DEF asked, found
      <3>3. m \in Cases /\ m.plan = asked.plan
        BY <3>1, <3>2, ApplyEvaluationFields
      <3> QED
        BY <2>3, <3>3
    <2>5. d.plan = c.plan
      <3> HIDE DEF m
      <3> QED
        BY <2>2, <2>4, RecordRequestFields DEF CommandNames
    <2> QED
      BY <1>1, <2>1, <2>5, EvaluateApplied
  <1>6. CASE step.do = "submit_evidence"
    <2> DEFINE m == AddEvidence(c, step.finding, SmokeContent)
    <2>1. d \in EvidenceResults(c, k, step.finding, SmokeContent, TRUE)
      BY <1>6 DEF CommandResults
    <2>2. d = RecordRequest(m, k, "submit_evidence")
      BY <2>1 DEF EvidenceResults
    <2>3. m \in Cases /\ m.plan = c.plan
      BY <1>1, <1>2, <1>6, SmokeFacts, AddEvidenceFields
    <2>4. d.plan = c.plan
      <3> HIDE DEF m
      <3> QED
        BY <2>2, <2>3, RecordRequestFields DEF CommandNames
    <2> QED
      BY <1>1, <1>2, <1>3, <1>6, <2>1, <2>4, SmokeFacts, EvidenceApplied
  <1>7. CASE step.do = "request_review"
    <2>1. d \in RequestReviewResults(c, k)
      BY <1>7 DEF CommandResults
    <2>2. d = RecordRequest(RequestReview(c), k, "request_review")
      BY <2>1 DEF RequestReviewResults
    <2>3. RequestReview(c) \in Cases /\ RequestReview(c).plan = c.plan
      BY <1>1, RequestReviewFields
    <2>4. d.plan = c.plan
      BY <2>2, <2>3, RecordRequestFields DEF CommandNames
    <2> QED
      BY <1>1, <2>1, <2>4, RequestReviewApplied
  <1>8. CASE step.do = "review_finding"
    <2> DEFINE m == ReviewFinding(c, step.finding, "accepted", Reviewer)
    <2>1. d \in ReviewFindingResults(c, k, step.finding, "accepted", TRUE, Reviewer)
      BY <1>8 DEF CommandResults
    <2>2. d = RecordRequest(m, k, "review_finding")
      BY <2>1 DEF ReviewFindingResults
    <2>3. m \in Cases /\ m.plan = c.plan
      BY <1>1, <1>2, <1>3, <1>8, SmokeFacts, ReviewFindingFields
    <2>4. d.plan = c.plan
      <3> HIDE DEF m
      <3> QED
        BY <2>2, <2>3, RecordRequestFields DEF CommandNames
    <2> QED
      BY <1>1, <1>2, <1>3, <1>8, <2>1, <2>4, SmokeFacts, ReviewFindingApplied
  <1>9. CASE step.do = "sign"
    <2> DEFINE cert == NewCertificate(c, Reviewer)
               m == MarkReleased(c, cert)
    <2>1. d \in SignResults(c, k, Reviewer)
      BY <1>9 DEF CommandResults
    <2>2. d = RecordRequest(m, k, "sign")
      BY <2>1 DEF SignResults
    <2>3. m \in Cases /\ m.plan = c.plan
      <3>1. cert \in Certificates
        BY <1>1, SmokeFacts, NewCertificateFields
      <3> HIDE DEF cert
      <3> QED
        BY <1>1, <3>1, MarkReleasedFields
    <2>4. d.plan = c.plan
      <3> HIDE DEF m
      <3> QED
        BY <2>2, <2>3, RecordRequestFields DEF CommandNames
    <2> QED
      BY <1>1, <2>1, <2>4, SmokeFacts, SignApplied
  <1>10. step.do \in {"replace_plan", "evaluate", "submit_evidence", "request_review",
                      "review_finding", "sign"}
    BY DEF CommandResults
  <1> QED
    BY <1>4, <1>5, <1>6, <1>7, <1>8, <1>9, <1>10

Sound(s) == SnapshotInv(s) /\ s.case.plan \in {SmokePlan, None}

LEMMA CreatedSound ==
  /\ Sound(Saved(<<>>, CreatedCase(Case)))
  /\ Saved(<<>>, CreatedCase(Case)) # None
  <1> DEFINE c == CreatedCase(Case)
             s == Saved(<<>>, c)
  <1>1. SnapshotInv(s)
    BY SmokeFacts, CreatedSnapshot
  <1>2. c \in Cases /\ c.plan = None
    <2>1. Case[2] \in Requests
      BY SmokeFacts, CommandsAssumption
    <2> QED
      BY <2>1, NewCaseFields, RecordRequestFields DEF CreatedCase, CommandNames
  <1>3. s.case.plan = None
    <2> HIDE DEF c
    <2>1. CloneCase(c).plan = None
      BY <1>2, CloneCaseFields
    <2> QED
      BY <2>1 DEF Saved
  <1>4. s \in Snapshots
    BY <1>1 DEF SnapshotInv
  <1> QED
    BY <1>1, <1>3, <1>4, SmokeFacts DEF Sound

LEMMA SavedSound ==
  ASSUME NEW s, Sound(s), NEW k \in DOMAIN Script, k \in Requests,
         IsNewRequest(s.case, k), NEW d \in CommandResults(Script[k], s.case, k)
  PROVE  Sound(Saved(s.audit, d)) /\ Saved(s.audit, d) # None
  <1> DEFINE t == Saved(s.audit, d)
  <1>1. Applied(s.case, d, k) /\ d.plan \in {s.case.plan, SmokePlan}
    BY CommandApplied DEF Sound
  <1>2. SnapshotInv(t)
    BY <1>1, SavedSnapshot DEF Sound
  <1>3. t.case.plan = d.plan
    <2>1. d \in Cases
      BY <1>1 DEF Applied
    <2> QED
      BY <2>1, CloneCaseFields DEF Saved
  <1>4. t \in Snapshots
    BY <1>2 DEF SnapshotInv
  <1> QED
    BY <1>1, <1>2, <1>3, <1>4, SmokeFacts DEF Sound

(* Whatever the service makes of the case, it stays sound.                 *)
LEMMA ExecutedSound ==
  ASSUME NEW s, s # None => Sound(s), NEW k \in DOMAIN Script,
         Script[k].do \in Commands,
         NEW t \in Executed(s, Script[k], k)
  PROVE  Sound(t) /\ t # None
  <1>1. k \in Requests
    BY StepFacts
  <1>2. CASE s = None
    BY <1>2, CreatedSound DEF Executed
  <1>3. CASE s # None /\ t = s
    BY <1>3
  <1>4. CASE s # None /\ t # s
    <2>1. /\ IsNewRequest(s.case, k)
          /\ \E d \in CommandResults(Script[k], s.case, k) : t = Saved(s.audit, d)
      BY <1>4 DEF Executed
    <2> QED
      BY <1>1, <1>4, <2>1, SavedSound
  <1> QED
    BY <1>2, <1>3, <1>4

(* A sound snapshot with a certificate that verifies is one of a release   *)
(* on accepted evidence for everything the plan brings up.                 *)
LEMMA VerifiedEarned ==
  ASSUME NEW s, s # None, Sound(s), Verifies(s)
  PROVE  EarnedBy(s)
  <1>1. /\ s.case \in Cases /\ CaseInv(s.case) /\ Evaluated(s.case)
        /\ TimelineTells(s) /\ AppliedOnce(s) /\ s.case.plan \in {SmokePlan, None}
    BY DEF Sound, SnapshotInv, Snapshots
  <1>2. Justified(s.case)
    BY <1>1, InvJustified
  <1>3. s.case.status = "released"
    BY <1>2 DEF Justified, Verifies
  <1>4. s.case.plan = SmokePlan /\ Found(s.case) = RuleFindings[SmokePlan]
    <2>1. s.case.plan \in EvaluablePlans /\ Found(s.case) = RuleFindings[s.case.plan]
      BY <1>1, <1>3 DEF Evaluated
    <2>2. None \notin EvaluablePlans
      BY CommandsAssumption, DomainAssumption
    <2> QED
      BY <1>1, <2>1, <2>2
  <1>5. Cardinality(Found(s.case)) >= MinFindings
    BY <1>4, ProcessAssumption DEF SelfTestAssumption
  <1> QED
    BY <1>1, <1>2, <1>3, <1>5 DEF EarnedBy

----------------------------------------------------------------------------
(* The steps of the self test, whoever serves it.                          *)

FlowOK == SelfTestTypeOK /\ StoredInv /\ FlowInv

LEMMA StoredSound == StoredInv <=> (db[Case] # None => Sound(db[Case]))
  BY DEF StoredInv, Sound

(* Whatever happens, the directory is as it was or as good as new.         *)
LEMMA SameDisk ==
  ASSUME FlowOK, \/ db' = db
                 \/ db' = Empty
                 \/ db' = IF temp THEN Empty ELSE db
  PROVE  /\ db' \in [CaseKeys -> Snapshots \cup {None}]
         /\ StoredInv'
         /\ db' = db \/ db'[Case] = None
  <1>1. Empty \in [CaseKeys -> Snapshots \cup {None}] /\ Empty[Case] = None
    BY SmokeFacts DEF Empty
  <1>2. db' = db \/ db' = Empty
    OBVIOUS
  <1>3. CASE db' = db
    BY <1>3 DEF FlowOK, SelfTestTypeOK, StoredInv
  <1>4. CASE db' = Empty
    BY <1>1, <1>4 DEF StoredInv
  <1> QED
    BY <1>2, <1>3, <1>4

LEMMA BeginFlow ==
  ASSUME FlowOK, Begin
  PROVE  FlowOK'
  <1>1. db' \in [CaseKeys -> Snapshots \cup {None}] /\ StoredInv'
    BY SameDisk DEF Begin
  <1>2. 1 \in DOMAIN Script
    BY ScriptFacts, FindingsFacts
  <1>3. tests + 1 \in 0 .. MaxTests
    BY ProcessAssumption DEF SelfTestAssumption, FlowOK, SelfTestTypeOK, Begin
  <1>4. SelfTestTypeOK'
    BY <1>1, <1>2, <1>3 DEF FlowOK, SelfTestTypeOK, Begin
  <1>5. FlowInv'
    BY DEF FlowInv, Begin
  <1> QED
    BY <1>1, <1>4, <1>5 DEF FlowOK

LEMMA KillFlow ==
  ASSUME FlowOK, Kill
  PROVE  FlowOK'
  <1>1. db' \in [CaseKeys -> Snapshots \cup {None}] /\ StoredInv'
    BY SameDisk DEF Kill
  <1>2. SelfTestTypeOK' /\ FlowInv'
    BY <1>1 DEF FlowOK, SelfTestTypeOK, FlowInv, Kill
  <1> QED
    BY <1>1, <1>2 DEF FlowOK

(* Leaving ends the flow with nothing on the wire.                         *)
LEMMA LeaveFlow ==
  ASSUME FlowOK, NEW result \in {"pass", "fail"}, Leave(result),
         UNCHANGED <<temp, at, view, tests>>, faulty' \in BOOLEAN
  PROVE  FlowOK'
  <1>1. db' \in [CaseKeys -> Snapshots \cup {None}] /\ StoredInv'
    BY SameDisk DEF Leave
  <1>2. SelfTestTypeOK' /\ FlowInv'
    BY <1>1 DEF FlowOK, SelfTestTypeOK, FlowInv, Leave
  <1> QED
    BY <1>1, <1>2 DEF FlowOK

(* So does giving up, but a command may still be on its way.               *)
LEMMA GiveUpFlow ==
  ASSUME FlowOK, GiveUp, faulty' \in BOOLEAN,
         wire' \in {"quiet", "sent"}, wire' = "sent" => wire = "sent"
  PROVE  FlowOK'
  <1>1. db' \in [CaseKeys -> Snapshots \cup {None}] /\ StoredInv'
    BY SameDisk DEF GiveUp
  <1>2. SelfTestTypeOK'
    BY <1>1 DEF FlowOK, SelfTestTypeOK, GiveUp
  <1>3. FlowInv'
    BY DEF FlowOK, FlowInv, GiveUp
  <1> QED
    BY <1>1, <1>2, <1>3 DEF FlowOK

LEMMA AdvancedFlow ==
  ASSUME FlowOK, Advanced
  PROVE  FlowOK'
  <1>1. /\ wire = "answered" /\ stage = "flow" /\ at \in DOMAIN Script
        /\ Script[at].do # "reload" /\ db[Case] # None
    BY DEF Advanced, Checked, FlowOK, SelfTestTypeOK, FlowInv
  <1>2. at + 1 \in DOMAIN Script
    BY <1>1, StepFacts, ScriptFacts
  <1>3. db' \in [CaseKeys -> Snapshots \cup {None}] /\ StoredInv'
    BY SameDisk DEF Advanced
  <1>4. SelfTestTypeOK' /\ FlowInv'
    BY <1>1, <1>2, <1>3 DEF FlowOK, SelfTestTypeOK, FlowInv, Advanced
  <1> QED
    BY <1>3, <1>4 DEF FlowOK

LEMMA ReloadFlow ==
  ASSUME FlowOK, Reload
  PROVE  FlowOK'
  <1>1. /\ at \in DOMAIN Script /\ Script[at].do = "reload" /\ stage = "flow"
        /\ wire = "quiet"
    BY DEF Reload, FlowOK, SelfTestTypeOK, FlowInv
  <1>2. at > 1
    BY <1>1, StepFacts
  <1>3. Verifies(db[Case]) => EarnedBy(db[Case])
    BY <1>1, <1>2, StoredSound, VerifiedEarned DEF FlowOK, FlowInv
  <1>4. db' \in [CaseKeys -> Snapshots \cup {None}] /\ StoredInv'
    BY SameDisk DEF Reload
  <1>5. SelfTestTypeOK'
    BY <1>4 DEF FlowOK, SelfTestTypeOK, Reload
  <1>6. FlowInv'
    BY <1>1, <1>3 DEF FlowInv, Reload
  <1> QED
    BY <1>4, <1>5, <1>6 DEF FlowOK

LEMMA RunFlow ==
  ASSUME FlowOK, Run
  PROVE  FlowOK'
  <1>1. CASE Start \/ Ask
    <2>1. db' \in [CaseKeys -> Snapshots \cup {None}] /\ StoredInv'
      BY <1>1, SameDisk DEF Start, Ask
    <2>2. SelfTestTypeOK' /\ FlowInv'
      BY <1>1, <2>1 DEF FlowOK, SelfTestTypeOK, FlowInv, Start, Ask
    <2> QED
      BY <2>1, <2>2 DEF FlowOK
  <1>2. CASE StartFails
    BY <1>2, LeaveFlow DEF StartFails
  <1>3. CASE NotReady
    BY <1>3, GiveUpFlow DEF NotReady, FlowOK, FlowInv
  <1>4. CASE Timeout
    BY <1>4, GiveUpFlow DEF Timeout
  <1>5. CASE Advanced
    BY <1>5, AdvancedFlow
  <1>6. CASE Disappointed
    BY <1>6, GiveUpFlow DEF Disappointed, FlowOK, SelfTestTypeOK
  <1>7. CASE Reload
    BY <1>7, ReloadFlow
  <1>8. CASE Stop
    BY <1>8, LeaveFlow DEF Stop, FlowOK, FlowInv, SelfTestTypeOK
  <1>9. CASE StopLate
    BY <1>9, LeaveFlow DEF StopLate, FlowOK, SelfTestTypeOK
  <1> QED
    BY <1>1, <1>2, <1>3, <1>4, <1>5, <1>6, <1>7, <1>8, <1>9 DEF Run

LEMMA ServeCommandFlow ==
  ASSUME FlowOK, ServeCommand
  PROVE  FlowOK'
  <1>1. /\ wire = "sent" /\ Script[at].do \in Commands /\ at \in DOMAIN Script
        /\ stage \in {"flow", "stop"} /\ Script[at].do # "reload"
    BY DEF ServeCommand, FlowOK, SelfTestTypeOK, FlowInv
  <1>2. PICK s \in Executed(db[Case], Script[at], RequestID(at)) :
          db' = [db EXCEPT ![Case] = s]
    BY DEF ServeCommand
  <1>3. db \in [CaseKeys -> Snapshots \cup {None}] /\ Case \in CaseKeys
    BY SmokeFacts DEF FlowOK, SelfTestTypeOK
  <1>4. Sound(s) /\ s # None
    BY <1>1, <1>2, StoredSound, ExecutedSound, StepFacts DEF FlowOK
  <1>5. s \in Snapshots /\ db'[Case] = s
    BY <1>2, <1>3, <1>4 DEF Sound, SnapshotInv
  <1>6. db' \in [CaseKeys -> Snapshots \cup {None}]
    BY <1>2, <1>3, <1>5
  <1>7. StoredInv'
    BY <1>4, <1>5 DEF StoredInv, Sound
  <1>8. SelfTestTypeOK'
    BY <1>5, <1>6 DEF FlowOK, SelfTestTypeOK, ServeCommand, Answered
  <1>9. FlowInv'
    BY <1>1, <1>4, <1>5 DEF FlowOK, FlowInv, ServeCommand, Answered
  <1> QED
    BY <1>7, <1>8, <1>9 DEF FlowOK

LEMMA ServeFlow ==
  ASSUME FlowOK, Serve
  PROVE  FlowOK'
  <1>1. CASE Ready
    <2>1. db' \in [CaseKeys -> Snapshots \cup {None}] /\ StoredInv'
      BY <1>1, SameDisk DEF Ready
    <2>2. SelfTestTypeOK' /\ FlowInv'
      BY <1>1, <2>1 DEF FlowOK, SelfTestTypeOK, FlowInv, Ready
    <2> QED
      BY <2>1, <2>2 DEF FlowOK
  <1>2. CASE ServeCommand
    BY <1>2, ServeCommandFlow
  <1>3. CASE ServeQuery
    <2>1. db' \in [CaseKeys -> Snapshots \cup {None}] /\ StoredInv' /\ db' = db
      BY <1>3, SameDisk DEF ServeQuery
    <2>2. at > 1 /\ at' = at
      BY <1>3, StepFacts DEF ServeQuery, FlowOK, SelfTestTypeOK
    <2>3. db[Case] \in Snapshots \cup {None}
      BY SmokeFacts DEF FlowOK, SelfTestTypeOK
    <2>4. SelfTestTypeOK'
      BY <1>3, <2>1, <2>3 DEF FlowOK, SelfTestTypeOK, ServeQuery, Answered
    <2>5. FlowInv'
      BY <1>3, <2>1, <2>2 DEF FlowOK, FlowInv, ServeQuery, Answered
    <2> QED
      BY <2>1, <2>4, <2>5 DEF FlowOK
  <1>4. CASE Refuse \/ Break
    <2>1. db' \in [CaseKeys -> Snapshots \cup {None}] /\ StoredInv' /\ db' = db
      BY <1>4, SameDisk DEF Refuse, Break
    <2>2. SelfTestTypeOK'
      BY <1>4, <2>1 DEF FlowOK, SelfTestTypeOK, Refuse, Break, Refused
    <2>3. FlowInv'
      BY <1>4, <2>1 DEF FlowOK, FlowInv, Refuse, Break, Refused
    <2> QED
      BY <2>1, <2>2, <2>3 DEF FlowOK
  <1> QED
    BY <1>1, <1>2, <1>3, <1>4 DEF Serve

----------------------------------------------------------------------------
(* The process and its self test together.                                 *)

BaseInv == selfTest \in BOOLEAN /\ ServiceOK /\ SelfTestAlone /\ FlowOK

LEMMA SameService ==
  ASSUME ServiceOK, UNCHANGED serviceVars, selfTest' = selfTest
  PROVE  ServiceOK'
  <1>1. P!ParseConfig(options)' = P!ParseConfig(options)
    BY DEF serviceVars, P!ParseConfig, P!Requested
  <1>2. P!TypeOK'
    BY DEF ServiceOK, serviceVars, P!TypeOK
  <1>3. ServiceInv'
    BY <1>1 DEF ServiceOK, ServiceInv, Configured, serviceVars
  <1> QED
    BY <1>2, <1>3 DEF ServiceOK

LEMMA SameFlow ==
  ASSUME FlowOK, UNCHANGED selfTestVars
  PROVE  FlowOK'
  BY DEF FlowOK, SelfTestTypeOK, StoredInv, FlowInv, selfTestVars

LEMMA RunRuns ==
  ASSUME SelfTestAlone, Run
  PROVE  selfTest /\ main = "build" /\ tests # 0 /\ tests' = tests
  BY DEF SelfTestAlone, Run, Start, StartFails, NotReady, Ask, Timeout, Advanced,
         Disappointed, Reload, Stop, StopLate, Leave, GiveUp

LEMMA ConfigureBase ==
  ASSUME BaseInv, Configure, selfTest' = selfTest
  PROVE  BaseInv'
  <1>1. ServiceOK' /\ FlowOK'
    BY ConfigureOK, SameFlow DEF BaseInv, Configure
  <1>2. SelfTestAlone'
    <2>1. /\ main = "configure" /\ stage = "off" /\ UNCHANGED selfTestVars
          /\ P!Configure
      BY DEF BaseInv, SelfTestAlone, Configure, P!Configure
    <2>2. CASE address' = None
      <3>1. P!Exit(2)
        BY <2>1, <2>2 DEF P!Configure
      <3> QED
        BY <2>1, <3>1, ExitLeaves DEF BaseInv, SelfTestAlone, selfTestVars
    <2>3. CASE address' # None
      <3>1. main' = "build" /\ UNCHANGED <<serving, connection>>
        BY <2>1, <2>3 DEF P!Configure
      <3> QED
        BY <2>1, <3>1 DEF BaseInv, SelfTestAlone, selfTestVars
    <2> QED
      BY <2>2, <2>3
  <1> QED
    BY <1>1, <1>2 DEF BaseInv

LEMMA ProductionBase ==
  ASSUME BaseInv, Production, selfTest' = selfTest
  PROVE  BaseInv'
  <1>1. ServiceOK' /\ FlowOK'
    BY MainOK, SameFlow DEF BaseInv, Production
  <1>2. SelfTestAlone'
    BY DEF BaseInv, SelfTestAlone, Production, selfTestVars
  <1> QED
    BY <1>1, <1>2 DEF BaseInv

LEMMA BeginBase ==
  ASSUME BaseInv, BeginSelfTest, selfTest' = selfTest
  PROVE  BaseInv'
  <1>1. ServiceOK' /\ FlowOK'
    BY SameService, BeginFlow DEF BaseInv, BeginSelfTest
  <1>2. SelfTestAlone'
    BY DEF BaseInv, SelfTestAlone, BeginSelfTest, Begin, serviceVars, FlowOK, SelfTestTypeOK
  <1> QED
    BY <1>1, <1>2 DEF BaseInv

(* The code the process ends with when the self test returns.              *)
LEMMA RunReturns ==
  ASSUME BaseInv, RunSelfTest, selfTest' = selfTest, stage' = "off"
  PROVE  \E code \in {0, 1} :
           /\ P!Exit(code) /\ UNCHANGED <<options, address, signalled>>
           /\ code = IF verdict' = "pass" THEN 0 ELSE 1
  BY DEF RunSelfTest, Returns

LEMMA RunBase ==
  ASSUME BaseInv, RunSelfTest, selfTest' = selfTest
  PROVE  BaseInv'
  <1>1. Run /\ Returns /\ FlowOK'
    BY RunFlow DEF BaseInv, RunSelfTest
  <1>2. selfTest /\ main = "build" /\ tests # 0 /\ tests' = tests
    BY <1>1, RunRuns DEF BaseInv
  <1>3. CASE stage' = "off"
    <2>1. PICK code \in {0, 1} :
            P!Exit(code) /\ UNCHANGED <<options, address, signalled>>
      BY <1>3, RunReturns
    <2>2. ServiceOK'
      BY <1>2, <2>1, ExitOK DEF BaseInv
    <2>3. SelfTestAlone'
      BY <1>2, <1>3, <2>1, ExitLeaves DEF BaseInv, SelfTestAlone
    <2> QED
      BY <1>1, <2>2, <2>3 DEF BaseInv
  <1>4. CASE stage' # "off"
    <2>1. UNCHANGED serviceVars
      BY <1>1, <1>4 DEF Returns
    <2>2. ServiceOK'
      BY <2>1, SameService DEF BaseInv
    <2>3. SelfTestAlone'
      BY <1>2, <2>1 DEF BaseInv, SelfTestAlone, serviceVars
    <2> QED
      BY <1>1, <2>2, <2>3 DEF BaseInv
  <1> QED
    BY <1>3, <1>4

LEMMA ServeBase ==
  ASSUME BaseInv, ServeSelfTest, selfTest' = selfTest
  PROVE  BaseInv'
  <1>1. ServiceOK' /\ FlowOK'
    BY SameService, ServeFlow DEF BaseInv, ServeSelfTest
  <1>2. stage # "off" /\ tests' = tests
    BY DEF BaseInv, FlowOK, FlowInv, ServeSelfTest, Serve, Ready, ServeCommand,
           ServeQuery, Refuse, Break
  <1>3. SelfTestAlone'
    BY <1>2 DEF BaseInv, SelfTestAlone, ServeSelfTest, serviceVars
  <1> QED
    BY <1>1, <1>3 DEF BaseInv

LEMMA SignalBase ==
  ASSUME BaseInv, Signal, selfTest' = selfTest
  PROVE  BaseInv'
  <1>1. P!Signal
    BY DEF Signal
  <1>2. ServiceOK'
    BY <1>1, SignalOK DEF BaseInv
  <1>3. FlowOK'
    BY SameFlow, KillFlow DEF BaseInv, Signal
  <1>4. SelfTestAlone'
    BY <1>1 DEF BaseInv, SelfTestAlone, Signal, Kill, selfTestVars, P!Signal
  <1> QED
    BY <1>2, <1>3, <1>4 DEF BaseInv

LEMMA AroundBase ==
  ASSUME BaseInv, Around, selfTest' = selfTest
  PROVE  BaseInv'
  <1>1. ServiceOK' /\ UNCHANGED main /\ FlowOK'
    BY AroundOK, SameFlow DEF BaseInv, Around
  <1>2. ~ selfTest
    <2> SUFFICES ASSUME selfTest PROVE FALSE
      BY DEF BaseInv
    <2>1. main \notin {"select", "shutdown"} /\ serving = "no"
      BY DEF BaseInv, SelfTestAlone
    <2> QED
      BY <2>1 DEF Around, P!ServeFails, P!Connect, P!BeginRequest, P!CloseIdle,
                  P!Respond, P!Up
  <1>3. SelfTestAlone'
    BY <1>1, <1>2 DEF BaseInv, SelfTestAlone, Around, selfTestVars
  <1> QED
    BY <1>1, <1>3 DEF BaseInv

LEMMA StartAgainBase ==
  ASSUME BaseInv, StartAgain, selfTest' = selfTest
  PROVE  BaseInv'
  <1>1. ServiceOK' /\ FlowOK'
    BY StartAgainOK, SameFlow DEF BaseInv, StartAgain
  <1>2. SelfTestAlone'
    BY DEF BaseInv, SelfTestAlone, StartAgain, selfTestVars
  <1> QED
    BY <1>1, <1>2 DEF BaseInv

LEMMA BaseInit == Init => BaseInv
  <1> SUFFICES ASSUME Init PROVE BaseInv
    OBVIOUS
  <1>1. ServiceOK
    <2>1. P!TypeOK
      BY DEF Init, P!Init, P!TypeOK, P!ConnectionStates
    <2>2. ServiceInv
      BY NoneAddress DEF Init, P!Init, ServiceInv
    <2> QED
      BY <2>1, <2>2 DEF ServiceOK
  <1>2. Empty \in [CaseKeys -> Snapshots \cup {None}] /\ Empty[Case] = None
    BY SmokeFacts DEF Empty
  <1>3. 1 \in DOMAIN Script /\ MaxTests \in Nat
    BY ScriptFacts, FindingsFacts, ProcessAssumption DEF SelfTestAssumption
  <1>4. FlowOK
    <2>1. db = Empty /\ view = None /\ at = 1 /\ stage = "off" /\ wire = "quiet"
      BY DEF Init, SelfTestInit
    <2>2. SelfTestTypeOK
      <3>1. tests \in 0 .. MaxTests /\ at \in DOMAIN Script
        BY <1>3 DEF Init, SelfTestInit
      <3>2. db \in [CaseKeys -> Snapshots \cup {None}] /\ view \in Snapshots \cup {None}
        BY <1>2 DEF Init, SelfTestInit
      <3>3. temp \in BOOLEAN /\ faulty \in BOOLEAN /\ verdict = "none"
        BY DEF Init, SelfTestInit
      <3> QED
        BY <2>1, <3>1, <3>2, <3>3 DEF SelfTestTypeOK
    <2>3. StoredInv /\ FlowInv
      BY <1>2, <2>1 DEF StoredInv, FlowInv
    <2> QED
      BY <2>2, <2>3 DEF FlowOK
  <1>5. SelfTestAlone
    BY DEF Init, SelfTestInit, P!Init, SelfTestAlone
  <1> QED
    BY <1>1, <1>4, <1>5 DEF BaseInv, Init

LEMMA BaseNext == BaseInv /\ [Next]_vars => BaseInv'
  <1> SUFFICES ASSUME BaseInv, [Next]_vars PROVE BaseInv'
    OBVIOUS
  <1>1. CASE UNCHANGED vars
    <2>1. ServiceOK' /\ FlowOK' /\ selfTest' = selfTest
      BY <1>1, SameService, SameFlow DEF BaseInv, vars
    <2>2. SelfTestAlone'
      BY <1>1 DEF BaseInv, SelfTestAlone, vars, selfTestVars, serviceVars
    <2> QED
      BY <2>1, <2>2 DEF BaseInv
  <1>2. CASE Next
    <2>1. selfTest' = selfTest
      BY <1>2 DEF Next
    <2> QED
      BY <1>2, <2>1, ConfigureBase, ProductionBase, BeginBase, RunBase, ServeBase,
         SignalBase, AroundBase, StartAgainBase
      DEF Next, Main
  <1> QED
    BY <1>1, <1>2

LEMMA BaseAlways == Spec => []BaseInv
  BY BaseInit, BaseNext, PTL DEF Spec

----------------------------------------------------------------------------
(* What follows of it.                                                     *)

(* Every variable of the process, of its service and of its self test has  *)
(* its type.                                                               *)
THEOREM TypeCorrect == Spec => []TypeOK
  <1>1. BaseInv => TypeOK
    BY DEF BaseInv, ServiceOK, FlowOK, TypeOK
  <1> QED
    BY <1>1, BaseAlways, PTL

LEMMA BaseExitCode == BaseInv => ExitCodeTells
  <1> SUFFICES ASSUME BaseInv PROVE ExitCodeTells
    OBVIOUS
  <1>1. ServiceInv /\ options \in [addr : P!Addresses \cup {None},
                                   PORT : Ports \cup {None}, rest : BOOLEAN]
    BY DEF BaseInv, ServiceOK, P!TypeOK
  <1>2. Documented(options) = P!Requested(options)
    BY <1>1 DEF Documented, P!Requested, P!Address, P!Addresses, P!DefaultHost,
                P!DefaultPort
  <1>3. (exit = 2 /\ options.rest) =>
          \/ Documented(options).host \notin LoopbackHosts
          \/ Documented(options).port \notin 1 .. P!LastPort
    <2> SUFFICES ASSUME exit = 2, options.rest
                 PROVE  \/ Documented(options).host \notin LoopbackHosts
                        \/ Documented(options).port \notin 1 .. P!LastPort
      OBVIOUS
    <2>1. P!ParseConfig(options) = None
      BY <1>1 DEF ServiceInv
    <2>2. ~ P!IsBindable(P!Requested(options))
      BY <1>1, <2>1, NoneAddress
    <2>3. ~ P!IsBindable(Documented(options))
      BY <1>2, <2>2
    <2> QED
      BY <2>3 DEF P!IsBindable, P!IsPort
  <1>4. exit \in {0, 1} =>
          address = Documented(options) /\ address.host \in LoopbackHosts
    BY <1>1, <1>2, NoneAddress DEF ServiceInv, Configured, P!IsBindable
  <1>5. (~ selfTest /\ exit = 0) =>
          signalled /\ \A c \in Connections : connection[c] # "cut"
    BY <1>1 DEF ServiceInv
  <1> QED
    BY <1>3, <1>4, <1>5 DEF ExitCodeTells

(* The exit code tells how the process ended, and the address it was asked *)
(* for (main.go:10-28, runtime.go:60-77, config.go:35-84).                 *)
THEOREM ExitCodesTell == Spec => []ExitCodeTells
  BY BaseAlways, BaseExitCode, PTL

----------------------------------------------------------------------------
(* The script on a fresh directory: each command finds the case as the     *)
(* last one left it, and is not refused.                                   *)

CaseAt(k, c) == c \in Cases /\ CaseInv(c) /\ Evaluated(c) /\ Landmark(k, c)

(* The case after the command of step k, as it is before it is saved.      *)
Taken(k, c, d) ==
  /\ CommandResults(Script[k], c, k) = {d}
  /\ Landmark(k, d)
  /\ k = 2 * N + 5 => VerifyCertificate(d.certificate) /\ d.certificate.signer = Reviewer

LEMMA StatusCounts ==
  ASSUME NEW k \in Nat
  PROVE  /\ N \in Nat /\ N > 0
         /\ k <= 2 => StatusAt(k) = "draft"
         /\ k \in 3 .. N + 3 => StatusAt(k) = "remediation"
         /\ k \in N + 4 .. 2 * N + 4 => StatusAt(k) = "pending_review"
         /\ k >= 2 * N + 5 => StatusAt(k) = "released"
         /\ \A i \in 1 .. N :
              /\ k \in 3 .. 2 + i => FindingStatusAt(k, i) = "open"
              /\ k \in 3 + i .. N + 3 + i => FindingStatusAt(k, i) = "evidence_submitted"
              /\ k >= N + 4 + i => FindingStatusAt(k, i) = "accepted"
  BY FindingsFacts DEF StatusAt, FindingStatusAt

(* Recording the request leaves what the method made of the case.          *)
LEMMA RecordedLandmark ==
  ASSUME NEW k, NEW m \in Cases, Landmark(k, m), NEW r \in Requests,
         NEW command \in CommandNames
  PROVE  /\ Landmark(k, RecordRequest(m, r, command))
         /\ RecordRequest(m, r, command).certificate = m.certificate
  <1> DEFINE d == RecordRequest(m, r, command)
  <1>1. /\ d.status = m.status /\ d.plan = m.plan
        /\ d.findings = m.findings /\ d.certificate = m.certificate
    BY RecordRequestFields
  <1>2. Landmark(k, d)
    <2> HIDE DEF d
    <2> QED
      BY <1>1 DEF Landmark
  <1> QED
    BY <1>1, <1>2

(* From the evaluation on the findings are those of the plan.              *)
LEMMA FoundAt ==
  ASSUME NEW k \in Nat, k >= 3, NEW c, CaseAt(k, c)
  PROVE  /\ Found(c) = {SmokeFindings[i] : i \in 1 .. N}
         /\ \A i \in 1 .. N :
              /\ SmokeFindings[i] \in Found(c)
              /\ c.findings[SmokeFindings[i]].status = FindingStatusAt(k, i)
              /\ FindingStatusAt(k, i) # "open" =>
                   c.findings[SmokeFindings[i]].evidence # None
  <1>1. /\ c.plan = SmokePlan /\ c.status = StatusAt(k) /\ Evaluated(c)
        /\ \A i \in 1 .. N : c.findings[SmokeFindings[i]].status = FindingStatusAt(k, i)
        /\ JudgedOnEvidence(c)
    BY DEF CaseAt, Landmark, CaseInv
  <1>2. c.status # "draft"
    BY <1>1, StatusCounts DEF StatusAt
  <1>3. Found(c) = RuleFindings[SmokePlan]
    BY <1>1, <1>2 DEF Evaluated
  <1>4. Found(c) = {SmokeFindings[i] : i \in 1 .. N}
    BY <1>3, FindingsFacts
  <1>5. \A i \in 1 .. N : SmokeFindings[i] \in Found(c)
    BY <1>4
  <1> QED
    BY <1>1, <1>4, <1>5 DEF JudgedOnEvidence

LEMMA PlanTaken ==
  ASSUME NEW c, CaseAt(1, c)
  PROVE  \E d : Taken(2, c, d)
  <1> DEFINE m == ReplacePlan(c, SmokePlan)
             d == RecordRequest(m, 2, "replace_plan")
  <1>1. /\ c \in Cases /\ c.status = "draft" /\ N \in Nat /\ N > 0
        /\ 2 \in DOMAIN Script /\ Script[2] = Step("replace_plan", None)
        /\ StatusAt(2) = "draft"
    BY StatusCounts, ScriptFacts DEF CaseAt, Landmark
  <1>2. 2 \in Requests
    BY <1>1, StepFacts
  <1>3. CommandResults(Script[2], c, 2) = {d}
    <2>1. CanReplacePlan(c, SmokePlan)
      BY <1>1, SmokeFacts DEF CanReplacePlan
    <2> QED
      BY <1>1, <2>1 DEF CommandResults, Step, ReplacePlanResults
  <1>4. m \in Cases /\ m.status = "draft" /\ m.plan = SmokePlan
    BY <1>1, SmokeFacts, ReplacePlanFields
  <1> HIDE DEF m
  <1>5. Landmark(2, m)
    BY <1>1, <1>4 DEF Landmark
  <1>6. Landmark(2, d)
    BY <1>2, <1>4, <1>5, RecordedLandmark DEF CommandNames
  <1>7. 2 # 2 * N + 5
    BY <1>1
  <1> QED
    BY <1>3, <1>6, <1>7 DEF Taken

LEMMA EvaluateTaken ==
  ASSUME NEW c, CaseAt(2, c)
  PROVE  \E d : Taken(3, c, d)
  <1> DEFINE asked == SubmitEvaluation(c)
             found == RuleFindings[c.plan]
             m == ApplyEvaluation(asked, found)
             d == RecordRequest(m, 3, "evaluate")
  <1>1. /\ c \in Cases /\ c.status = "draft" /\ c.plan = SmokePlan
        /\ N \in Nat /\ N > 0
        /\ 3 \in DOMAIN Script /\ Script[3] = Step("evaluate", None)
        /\ StatusAt(3) = "remediation"
        /\ \A i \in 1 .. N : FindingStatusAt(3, i) = "open"
    BY StatusCounts, ScriptFacts DEF CaseAt, Landmark
  <1>2. 3 \in Requests
    BY <1>1, StepFacts
  <1>3. asked \in Cases /\ asked.status = "pending_evaluation" /\ asked.plan = c.plan
    BY <1>1, SubmitEvaluationFields
  <1>4. CommandResults(Script[3], c, 3) = {d}
    <2>1. CanSubmitEvaluation(c) /\ c.plan \in EvaluablePlans /\ CanApplyEvaluation(asked)
      BY <1>1, <1>3, SmokeFacts DEF CanSubmitEvaluation, CanApplyEvaluation
    <2> QED
      BY <1>1, <2>1 DEF CommandResults, Step, EvaluateResults
  <1>5. found \in SUBSET Findings /\ found # {}
        /\ \A i \in 1 .. N : SmokeFindings[i] \in found /\ SmokeFindings[i] \in Findings
    BY <1>1, FindingsFacts
  <1> HIDE DEF asked, found
  <1>6. /\ m \in Cases /\ m.status = "remediation" /\ m.plan = asked.plan
        /\ m.findings = [f \in Findings |-> IF f \in found THEN OpenFinding ELSE NoFinding]
    BY <1>3, <1>5, ApplyEvaluationFields
  <1> HIDE DEF m
  <1>7. \A i \in 1 .. N : m.findings[SmokeFindings[i]].status = "open"
    BY <1>5, <1>6 DEF OpenFinding
  <1>8. Landmark(3, m)
    BY <1>1, <1>3, <1>6, <1>7 DEF Landmark
  <1>9. Landmark(3, d)
    BY <1>2, <1>6, <1>8, RecordedLandmark DEF CommandNames
  <1>10. 3 # 2 * N + 5
    BY <1>1
  <1> QED
    BY <1>4, <1>9, <1>10 DEF Taken

LEMMA EvidenceTaken ==
  ASSUME NEW i \in 1 .. N, NEW c, CaseAt(2 + i, c)
  PROVE  \E d : Taken(3 + i, c, d)
  <1> DEFINE k == 3 + i
             f == SmokeFindings[i]
             m == AddEvidence(c, f, SmokeContent)
             d == RecordRequest(m, k, "submit_evidence")
  <1>1. /\ N \in Nat /\ i \in Nat /\ k \in Nat /\ k >= 3
        /\ 2 + i \in Nat /\ 2 + i >= 3
        /\ k \in DOMAIN Script /\ Script[k] = Step("submit_evidence", f)
    BY ScriptFacts, FindingsFacts
  <1>2. /\ c \in Cases /\ c.status = "remediation" /\ c.plan = SmokePlan
        /\ StatusAt(k) = "remediation"
    BY <1>1, StatusCounts DEF CaseAt, Landmark
  <1>3. k \in Requests /\ f \in Findings
    BY <1>1, StepFacts, FindingsFacts
  <1>4. FindingStatusAt(2 + i, i) = "open" /\ FindingStatusAt(k, i) = "evidence_submitted"
    BY <1>1, StatusCounts
  <1>5. f \in Found(c) /\ c.findings[f].status = "open"
    BY <1>1, <1>4, FoundAt
  <1>6. CommandResults(Script[k], c, k) = {d}
    <2>1. CanAddEvidence(c, f, TRUE)
      BY <1>2, <1>5 DEF CanAddEvidence
    <2> QED
      BY <1>1, <2>1 DEF CommandResults, Step, EvidenceResults
  <1>7. /\ m \in Cases /\ m.status = "remediation" /\ m.plan = SmokePlan
        /\ m.findings[f].status = "evidence_submitted"
        /\ \A g \in Findings \ {f} : m.findings[g] = c.findings[g]
    <2>1. SmokeContent \in Contents
      BY SmokeFacts
    <2> HIDE DEF f
    <2>2. /\ m \in Cases /\ m.status = c.status /\ m.plan = c.plan
          /\ m.findings[f] = [status |-> "evidence_submitted",
                               evidence |-> SmokeContent, reviewer |-> None]
          /\ \A g \in Findings \ {f} : m.findings[g] = c.findings[g]
      BY <1>2, <1>3, <2>1, AddEvidenceFields
    <2> QED
      BY <1>2, <2>2
  <1> HIDE DEF m
  <1>8. \A j \in 1 .. N : m.findings[SmokeFindings[j]].status = FindingStatusAt(k, j)
    <2> SUFFICES ASSUME NEW j \in 1 .. N, j # i
                 PROVE  m.findings[SmokeFindings[j]].status = FindingStatusAt(k, j)
      BY <1>4, <1>7
    <2>1. SmokeFindings[j] \in Findings \ {f}
      BY FindingsFacts
    <2>2. FindingStatusAt(k, j) = FindingStatusAt(2 + i, j)
      BY <1>1 DEF FindingStatusAt
    <2>3. c.findings[SmokeFindings[j]].status = FindingStatusAt(2 + i, j)
      BY <1>1, FoundAt
    <2> QED
      BY <1>7, <2>1, <2>2, <2>3
  <1>9. Landmark(k, m)
    BY <1>1, <1>2, <1>7, <1>8 DEF Landmark
  <1>10. Landmark(k, d)
    BY <1>3, <1>7, <1>9, RecordedLandmark DEF CommandNames
  <1>11. k # 2 * N + 5
    BY <1>1
  <1> QED
    BY <1>6, <1>10, <1>11 DEF Taken

LEMMA RequestReviewTaken ==
  ASSUME NEW c, CaseAt(N + 3, c)
  PROVE  \E d : Taken(N + 4, c, d)
  <1> DEFINE k == N + 4
             m == RequestReview(c)
             d == RecordRequest(m, k, "request_review")
  <1>1. /\ N \in Nat /\ k \in Nat /\ k >= 3 /\ N + 3 \in Nat /\ N + 3 >= 3
        /\ k \in DOMAIN Script /\ Script[k] = Step("request_review", None)
        /\ k \in Requests /\ k # 2 * N + 5
    <2>1. N \in Nat /\ N > 0 /\ k \in DOMAIN Script /\ k <= 2 * N + 5
      BY ScriptFacts, FindingsFacts
    <2>2. k \in Requests
      <3> HIDE DEF k
      <3> QED
        BY <2>1, StepFacts
    <2> QED
      BY <2>1, <2>2, ScriptFacts
  <1>2. /\ c \in Cases /\ c.status = "remediation" /\ c.plan = SmokePlan
        /\ StatusAt(k) = "pending_review"
        /\ \A i \in 1 .. N : /\ FindingStatusAt(N + 3, i) = "evidence_submitted"
                             /\ FindingStatusAt(k, i) = "evidence_submitted"
    BY <1>1, StatusCounts DEF CaseAt, Landmark
  <1>3. /\ Found(c) = {SmokeFindings[i] : i \in 1 .. N}
        /\ \A i \in 1 .. N :
             /\ c.findings[SmokeFindings[i]].status = "evidence_submitted"
             /\ c.findings[SmokeFindings[i]].evidence # None
    BY <1>1, <1>2, FoundAt
  <1>4. CommandResults(Script[k], c, k) = {d}
    <2>1. CanRequestReview(c)
      BY <1>2, <1>3 DEF CanRequestReview
    <2> QED
      BY <1>1, <2>1 DEF CommandResults, Step, RequestReviewResults
  <1>5. /\ m \in Cases /\ m.status = "pending_review" /\ m.plan = SmokePlan
        /\ m.findings = c.findings
    BY <1>2, RequestReviewFields
  <1> HIDE DEF m
  <1>6. Landmark(k, m)
    BY <1>1, <1>2, <1>3, <1>5 DEF Landmark
  <1>7. Landmark(k, d)
    BY <1>1, <1>5, <1>6, RecordedLandmark DEF CommandNames
  <1> QED
    BY <1>1, <1>4, <1>7 DEF Taken

LEMMA ReviewTaken ==
  ASSUME NEW i \in 1 .. N, NEW c, CaseAt(N + 3 + i, c)
  PROVE  \E d : Taken(N + 4 + i, c, d)
  <1> DEFINE k == N + 4 + i
             p == N + 3 + i
             f == SmokeFindings[i]
             m == ReviewFinding(c, f, "accepted", Reviewer)
             d == RecordRequest(m, k, "review_finding")
  <1>1. /\ N \in Nat /\ i \in Nat /\ k \in Nat /\ k >= 3 /\ p \in Nat /\ p >= 3
        /\ k \in DOMAIN Script /\ Script[k] = Step("review_finding", f)
        /\ k # 2 * N + 5
    BY ScriptFacts, FindingsFacts
  <1>2. /\ c \in Cases /\ c.status = "pending_review" /\ c.plan = SmokePlan
        /\ StatusAt(k) = "pending_review"
    BY <1>1, StatusCounts DEF CaseAt, Landmark
  <1>3. k \in Requests /\ f \in Findings
    BY <1>1, StepFacts, FindingsFacts
  <1>4. FindingStatusAt(p, i) = "evidence_submitted" /\ FindingStatusAt(k, i) = "accepted"
    BY <1>1, StatusCounts
  <1>5. /\ f \in Found(c) /\ c.findings[f].status = "evidence_submitted"
        /\ c.findings[f].evidence # None
    BY <1>1, <1>4, FoundAt
  <1>6. CommandResults(Script[k], c, k) = {d}
    <2>1. CanReviewFinding(c, f, "accepted", TRUE)
      BY <1>2, <1>5 DEF CanReviewFinding
    <2> QED
      BY <1>1, <2>1 DEF CommandResults, Step, ReviewFindingResults
  <1>7. /\ m \in Cases /\ m.status = "pending_review" /\ m.plan = SmokePlan
        /\ m.findings[f].status = "accepted"
        /\ \A g \in Findings \ {f} : m.findings[g] = c.findings[g]
    <2>1. Reviewer \in Names /\ "accepted" \in Verdicts /\ c.findings[f] \in FindingRecords
      BY <1>2, <1>3, SmokeFacts DEF Verdicts, Cases
    <2> HIDE DEF f
    <2>2. /\ m \in Cases /\ m.status = c.status /\ m.plan = c.plan
          /\ m.findings[f] = Judged(c.findings[f], "accepted", Reviewer)
          /\ \A g \in Findings \ {f} : m.findings[g] = c.findings[g]
      BY <1>2, <1>3, <2>1, ReviewFindingFields
    <2>3. Judged(c.findings[f], "accepted", Reviewer).status = "accepted"
      BY <2>1, JudgedFields
    <2> QED
      BY <1>2, <2>2, <2>3
  <1> HIDE DEF m
  <1>8. \A j \in 1 .. N : m.findings[SmokeFindings[j]].status = FindingStatusAt(k, j)
    <2> SUFFICES ASSUME NEW j \in 1 .. N, j # i
                 PROVE  m.findings[SmokeFindings[j]].status = FindingStatusAt(k, j)
      BY <1>4, <1>7
    <2>1. SmokeFindings[j] \in Findings \ {f}
      BY FindingsFacts
    <2>2. FindingStatusAt(k, j) = FindingStatusAt(p, j)
      BY <1>1 DEF FindingStatusAt
    <2>3. c.findings[SmokeFindings[j]].status = FindingStatusAt(p, j)
      BY <1>1, FoundAt
    <2> QED
      BY <1>7, <2>1, <2>2, <2>3
  <1>9. Landmark(k, m)
    BY <1>1, <1>2, <1>7, <1>8 DEF Landmark
  <1>10. Landmark(k, d)
    BY <1>3, <1>7, <1>9, RecordedLandmark DEF CommandNames
  <1> QED
    BY <1>1, <1>6, <1>10 DEF Taken

LEMMA SignTaken ==
  ASSUME NEW c, CaseAt(2 * N + 4, c)
  PROVE  \E d : Taken(2 * N + 5, c, d)
  <1> DEFINE k == 2 * N + 5
             p == 2 * N + 4
             cert == NewCertificate(c, Reviewer)
             m == MarkReleased(c, cert)
             d == RecordRequest(m, k, "sign")
  <1>1. /\ N \in Nat /\ k \in Nat /\ k >= 3 /\ p \in Nat /\ p >= 3
        /\ k \in DOMAIN Script /\ Script[k] = Step("sign", None)
        /\ k \in Requests
    <2>1. N \in Nat /\ N > 0 /\ k \in DOMAIN Script /\ k <= 2 * N + 5
      BY ScriptFacts, FindingsFacts
    <2>2. k \in Requests
      <3> HIDE DEF k
      <3> QED
        BY <2>1, StepFacts
    <2> QED
      BY <2>1, <2>2, ScriptFacts
  <1>2. /\ c \in Cases /\ c.status = "pending_review" /\ c.plan = SmokePlan
        /\ StatusAt(k) = "released"
        /\ \A i \in 1 .. N : /\ FindingStatusAt(p, i) = "accepted"
                             /\ FindingStatusAt(k, i) = "accepted"
    BY <1>1, StatusCounts DEF CaseAt, Landmark
  <1>3. /\ Found(c) = {SmokeFindings[i] : i \in 1 .. N}
        /\ \A i \in 1 .. N : c.findings[SmokeFindings[i]].status = "accepted"
    BY <1>1, <1>2, FoundAt
  <1>4. /\ cert \in Certificates /\ cert.revision = c.revision + 1
        /\ VerifyCertificate(cert) /\ cert.signer = Reviewer
    BY <1>2, SmokeFacts, NewCertificateFields
  <1>5. CommandResults(Script[k], c, k) = {d}
    <2>1. CanNewCertificate(c) /\ CanMarkReleased(c, cert)
      BY <1>2, <1>3, <1>4 DEF CanNewCertificate, CanMarkReleased, AllAccepted
    <2> QED
      BY <1>1, <2>1 DEF CommandResults, Step, SignResults
  <1> HIDE DEF cert
  <1>6. /\ m \in Cases /\ m.status = "released" /\ m.plan = SmokePlan
        /\ m.findings = c.findings /\ m.certificate = cert
    BY <1>2, <1>4, MarkReleasedFields
  <1> HIDE DEF m
  <1>7. Landmark(k, m)
    BY <1>1, <1>2, <1>3, <1>6 DEF Landmark
  <1>8. Landmark(k, d) /\ d.certificate = cert
    BY <1>1, <1>6, <1>7, RecordedLandmark DEF CommandNames
  <1> QED
    BY <1>4, <1>5, <1>8 DEF Taken

LEMMA CommandTaken ==
  ASSUME NEW k \in 2 .. 2 * N + 5, NEW c, CaseAt(k - 1, c)
  PROVE  \E d : Taken(k, c, d)
  <1>1. N \in Nat /\ N > 0
    BY FindingsFacts
  <1>2. CASE k = 2
    BY <1>2, PlanTaken
  <1>3. CASE k = 3
    BY <1>3, EvaluateTaken
  <1>4. CASE k \in 4 .. N + 3
    <2> DEFINE i == k - 3
    <2>1. i \in 1 .. N /\ k - 1 = 2 + i /\ k = 3 + i
      BY <1>1, <1>4
    <2> HIDE DEF i
    <2> QED
      BY <2>1, EvidenceTaken
  <1>5. CASE k = N + 4
    <2>1. k - 1 = N + 3
      BY <1>1, <1>5
    <2> QED
      BY <1>5, <2>1, RequestReviewTaken
  <1>6. CASE k \in N + 5 .. 2 * N + 4
    <2> DEFINE i == k - (N + 4)
    <2>1. i \in 1 .. N /\ k - 1 = N + 3 + i /\ k = N + 4 + i
      BY <1>1, <1>6
    <2> HIDE DEF i
    <2> QED
      BY <2>1, ReviewTaken
  <1>7. CASE k = 2 * N + 5
    <2>1. k - 1 = 2 * N + 4
      BY <1>1, <1>7
    <2> QED
      BY <1>7, <2>1, SignTaken
  <1> QED
    BY <1>1, <1>2, <1>3, <1>4, <1>5, <1>6, <1>7

(* What the command made of the case is saved, and answered.               *)
LEMMA SavedPlace ==
  ASSUME NEW k \in 2 .. 2 * N + 5, NEW s, Place(k - 1, s),
         NEW d, Taken(k, s.case, d)
  PROVE  Place(k, Saved(s.audit, d))
  <1> DEFINE c == s.case
             t == Saved(s.audit, d)
             e == t.case
  <1>1. /\ N \in Nat /\ N > 0 /\ k \in Nat /\ k - 1 # 0 /\ k # 0
        /\ k \in DOMAIN Script /\ k \in Requests
    <2>1. N \in Nat /\ N > 0 /\ k \in Nat /\ k - 1 # 0 /\ k # 0 /\ k <= 2 * N + 5
          /\ k \in DOMAIN Script
      BY FindingsFacts, ScriptFacts
    <2> QED
      BY <2>1, StepFacts
  <1>2. /\ SnapshotInv(s) /\ Fresh(k - 1, c)
        /\ c.revision >= k - 1 \/ c.revision >= 2 * N + 5
        /\ d \in CommandResults(Script[k], c, k) /\ Landmark(k, d)
    BY <1>1 DEF Place, Taken
  <1>3. c \in Cases /\ c.revision \in Nat /\ IsNewRequest(c, k)
    BY <1>1, <1>2 DEF SnapshotInv, Snapshots, Cases, Fresh
  <1>4. Applied(c, d, k)
    BY <1>1, <1>2, CommandApplied
  <1>5. SnapshotInv(t)
    BY <1>1, <1>2, <1>3, <1>4, SavedSnapshot
  <1>6. /\ d \in Cases
        /\ d.revision >= c.revision + 1
        /\ \E record : d.requests = [c.requests EXCEPT ![k] = record]
    <2>1. d \in Cases /\ Len(d.pendingEvents) > 0
          /\ d.revision = c.revision + Len(d.pendingEvents)
      BY <1>4 DEF Applied
    <2>2. Len(d.pendingEvents) \in Nat
      BY <2>1 DEF Cases
    <2>3. \E record : d.requests = [c.requests EXCEPT ![k] = record]
      BY <1>4, Zenon DEF Applied
    <2>4. d.revision >= c.revision + 1
      BY <1>3, <2>1, <2>2
    <2> QED
      BY <2>1, <2>3, <2>4
  <1>7. e = CloneCase(d)
    BY DEF Saved
  <1>8. /\ e.status = d.status /\ e.revision = d.revision /\ e.plan = d.plan
        /\ \A f \in Findings : e.findings[f].status = d.findings[f].status
        /\ e.certificate = [d.certificate EXCEPT !.signer = NameAfterJson(@)]
        /\ e.requests = d.requests
    BY <1>6, <1>7, CloneCaseFields
  <1>9. Landmark(k, e)
    BY <1>2, <1>8, FindingsFacts DEF Landmark
  <1>10. Fresh(k, e)
    <2> SUFFICES ASSUME NEW i \in k + 1 .. 2 * N + 5 PROVE IsNewRequest(e, i)
      BY DEF Fresh
    <2>1. IsNewRequest(c, i) /\ i # k
      BY <1>1, <1>2 DEF Fresh
    <2>2. i \in Requests => e.requests[i] = c.requests[i]
      <3>1. c.requests \in [Requests -> IdempotencyRecords]
        BY <1>3 DEF Cases
      <3> QED
        BY <1>6, <1>8, <2>1, <3>1
    <2> QED
      BY <2>1, <2>2 DEF IsNewRequest, Processed
  <1>11. e.revision >= k \/ e.revision >= 2 * N + 5
    <2>1. d.revision \in Nat
      BY <1>6 DEF Cases
    <2> QED
      BY <1>1, <1>2, <1>3, <1>6, <1>8, <2>1
  <1>12. k >= 2 * N + 5 => Verifies(t)
    <2> SUFFICES ASSUME k = 2 * N + 5 PROVE Verifies(t)
      BY <1>1
    <2>1. VerifyCertificate(d.certificate) /\ d.certificate.signer = Reviewer
      BY DEF Taken
    <2>2. NameAfterJson(Reviewer) = Reviewer
      BY SmokeFacts DEF NameAfterJson
    <2>3. d.certificate \in Certificates
      BY <1>6 DEF Cases
    <2>4. e.certificate = d.certificate
      BY <1>8, <2>1, <2>2, <2>3 DEF Certificates
    <2>5. e \in Cases /\ CaseInv(e) /\ Evaluated(e)
      BY <1>5 DEF SnapshotInv, Snapshots
    <2>6. e.status = "released"
      BY <1>1, <1>9 DEF Landmark, StatusAt
    <2>7. HasCertificate(e)
      BY <2>5, <2>6, InvJustified DEF Justified
    <2> QED
      BY <2>1, <2>4, <2>7 DEF Verifies
  <1>13. t # None
    BY <1>5, SmokeFacts DEF SnapshotInv
  <1> QED
    BY <1>1, <1>5, <1>9, <1>10, <1>11, <1>12, <1>13 DEF Place

LEMMA CreatedPlace == Place(1, Saved(<<>>, CreatedCase(Case)))
  <1> DEFINE c == CreatedCase(Case)
             t == Saved(<<>>, c)
             e == t.case
  <1>1. SnapshotInv(t) /\ t # None
    BY CreatedSound DEF Sound
  <1>2. /\ c \in Cases /\ c.status = "draft" /\ c.revision = 1
        /\ c.requests = [[r \in Requests |-> NotProcessed] EXCEPT ![1] =
                           [command |-> "create_case", revision |-> 1]]
    BY SmokeFacts, CreatedCaseFields
  <1>3. e.status = "draft" /\ e.revision = 1 /\ e.requests = c.requests
    <2> HIDE DEF c
    <2>1. e = CloneCase(c)
      BY DEF Saved
    <2> QED
      BY <1>2, <2>1, CloneCaseFields
  <1>4. N \in Nat /\ N > 0
    BY FindingsFacts
  <1>5. Landmark(1, e)
    BY <1>3, StatusCounts DEF Landmark
  <1>6. Fresh(1, e)
    <2> SUFFICES ASSUME NEW i \in 1 + 1 .. 2 * N + 5 PROVE IsNewRequest(e, i)
      BY DEF Fresh
    <2>1. i \in Requests => e.requests[i] = NotProcessed
      BY <1>2, <1>3, <1>4
    <2> QED
      BY <2>1 DEF IsNewRequest, Processed, NotProcessed
  <1>7. ~ (1 >= 2 * N + 5)
    BY <1>4
  <1> QED
    BY <1>1, <1>3, <1>5, <1>6, <1>7 DEF Place

(* A command of the script is executed, and brings the case to its place.  *)
LEMMA ExecutedPlace ==
  ASSUME NEW k \in 1 .. 2 * N + 5, NEW s, Place(k - 1, s), view = s
  PROVE  /\ Executed(s, Script[k], k) # {}
         /\ \A t \in Executed(s, Script[k], k) : Place(k, t)
  <1>1. N \in Nat /\ N > 0 /\ k \in DOMAIN Script
    BY FindingsFacts, ScriptFacts
  <1>2. CASE k = 1
    <2>1. s = None
      BY <1>2 DEF Place
    <2>2. Executed(s, Script[k], k) = {Saved(<<>>, CreatedCase(Case))}
      BY <1>2, <2>1, ScriptFacts DEF Executed, Step
    <2> QED
      BY <1>2, <2>2, CreatedPlace
  <1>3. CASE k # 1
    <2>1. k \in 2 .. 2 * N + 5 /\ k - 1 # 0
      BY <1>1, <1>3
    <2>2. /\ s # None /\ SnapshotInv(s) /\ Landmark(k - 1, s.case)
          /\ Fresh(k - 1, s.case)
      BY <2>1 DEF Place
    <2>3. CaseAt(k - 1, s.case)
      BY <2>2 DEF CaseAt, SnapshotInv, Snapshots
    <2>4. PICK d : Taken(k, s.case, d)
      BY <2>1, <2>3, CommandTaken
    <2>5. k \in Requests
      BY <1>1, StepFacts
    <2>6. IsNewRequest(s.case, k)
      BY <1>1, <2>1, <2>2 DEF Fresh
    <2>7. ~ Prior(s.case, k, Script[k].do)
      <3>1. Script[k].do # "none"
        BY <1>1, StepFacts DEF Commands
      <3> QED
        BY <2>5, <2>6, <3>1 DEF Prior, IsNewRequest, Processed
    <2>8. Executed(s, Script[k], k) = {Saved(s.audit, d)}
      BY <2>2, <2>4, <2>6, <2>7 DEF Executed, Taken
    <2> QED
      BY <2>1, <2>4, <2>8, SavedPlace
  <1> QED
    BY <1>2, <1>3

(* The last queries and the reload leave the case where it is.             *)
LEMMA ReleasedPlace ==
  ASSUME NEW k \in 2 * N + 5 .. 2 * N + 7, NEW s, Place(k, s)
  PROVE  Verifies(s) /\ Place(k + 1, s)
  <1>1. N \in Nat /\ N > 0 /\ k \in Nat /\ k + 1 \in Nat /\ k # 0 /\ k + 1 # 0
    BY FindingsFacts
  <1>2. /\ s # None /\ SnapshotInv(s) /\ Landmark(k, s.case) /\ Fresh(k, s.case)
        /\ s.case.revision >= k \/ s.case.revision >= 2 * N + 5
        /\ Verifies(s)
    BY <1>1 DEF Place
  <1>3. Landmark(k + 1, s.case)
    <2>1. StatusAt(k + 1) = StatusAt(k)
          /\ \A i \in 1 .. N : FindingStatusAt(k + 1, i) = FindingStatusAt(k, i)
      BY <1>1 DEF StatusAt, FindingStatusAt
    <2> QED
      BY <1>1, <1>2, <2>1 DEF Landmark
  <1>4. Fresh(k + 1, s.case)
    BY <1>1 DEF Fresh
  <1>5. s.case.revision >= 2 * N + 5
    <2>1. s.case.revision \in Nat
      BY <1>2 DEF SnapshotInv, Snapshots, Cases
    <2> QED
      BY <1>1, <1>2, <2>1
  <1> QED
    BY <1>1, <1>2, <1>3, <1>4, <1>5 DEF Place

(* What the flow checks of an answer is true of the case in its place.     *)
LEMMA PlacePasses ==
  ASSUME at \in DOMAIN Script, wire = "answered", Place(at, view)
  PROVE  Checked
  <1>1. N \in Nat /\ N > 0 /\ at \in 1 .. 2 * N + 8
    BY StepFacts
  <1>2. /\ SnapshotInv(view) /\ Landmark(at, view.case)
        /\ view.case.revision >= at \/ view.case.revision >= 2 * N + 5
        /\ at >= 2 * N + 5 => Verifies(view)
    BY <1>1 DEF Place
  <1>3. Script[at].do = "evaluate" =>
          /\ view.case.status = "remediation"
          /\ Cardinality(Found(view.case)) >= MinFindings
    <2> SUFFICES ASSUME at = 3
                 PROVE  /\ view.case.status = "remediation"
                        /\ Cardinality(Found(view.case)) >= MinFindings
      BY StepFacts
    <2>1. view.case.status = "remediation" /\ view.case.plan = SmokePlan
      BY <1>1, <1>2 DEF Landmark, StatusAt
    <2>2. Found(view.case) = RuleFindings[SmokePlan]
      BY <1>2, <2>1 DEF SnapshotInv, Evaluated
    <2> QED
      BY <2>1, <2>2, ProcessAssumption DEF SelfTestAssumption
  <1>4. Script[at].do = "sign" => Verifies(view)
    BY <1>1, <1>2, StepFacts
  <1>5. Script[at].do = "timeline" => Len(view.audit) >= MinEvents
    <2> SUFFICES ASSUME at = 2 * N + 7 PROVE Len(view.audit) >= MinEvents
      BY StepFacts
    <2>1. view.case.revision \in Nat /\ Len(view.audit) = view.case.revision
      BY <1>2 DEF SnapshotInv, Snapshots, Cases, TimelineTells, Contiguous
    <2>2. MinEvents \in Nat /\ MinEvents <= 2 * N + 5
      BY ProcessAssumption DEF SelfTestAssumption, N
    <2> QED
      BY <1>1, <1>2, <2>1, <2>2
  <1> QED
    BY <1>3, <1>4, <1>5 DEF Checked

----------------------------------------------------------------------------
(* The first self test in a directory.                                     *)

(* In a flow that nothing disturbed, the case is in its place, and a step  *)
(* that was sent is one of the script.                                     *)
LEMMA FlowPlaces ==
  ASSUME FlowOK, FirstFlow, stage = "flow"
  PROVE  /\ N \in Nat /\ N > 0 /\ at \in 1 .. 2 * N + 8 /\ at \in DOMAIN Script
         /\ view = db[Case] /\ wire # "refused"
         /\ wire = "answered" => Place(at, db[Case])
         /\ wire # "answered" => Place(at - 1, db[Case])
  <1>1. at \in DOMAIN Script
    BY DEF FlowOK, SelfTestTypeOK
  <1>2. N \in Nat /\ N > 0 /\ at \in 1 .. 2 * N + 8
    BY <1>1, StepFacts
  <1> QED
    BY <1>1, <1>2 DEF FirstFlow

LEMMA RunFirst ==
  ASSUME FlowOK, FirstFlow, Run, ~ faulty'
  PROVE  FirstFlow' /\ (stage' = "off" => verdict' = "pass")
  <1>1. CASE Start
    BY <1>1 DEF Start, FirstFlow
  <1>2. CASE StartFails \/ NotReady \/ Timeout
    BY <1>2 DEF StartFails, NotReady, Timeout
  <1>3. CASE Ask
    BY <1>3 DEF Ask, FirstFlow
  <1>4. CASE Advanced
    <2>1. /\ stage = "flow" /\ wire = "answered" /\ at' = at + 1 /\ wire' = "quiet"
          /\ UNCHANGED <<db, stage, view, verdict>>
      BY <1>4 DEF Advanced, Checked
    <2>2. /\ at \in Nat /\ view = db[Case] /\ Place(at, db[Case])
      BY <2>1, FlowPlaces
    <2>3. at' - 1 = at
      BY <2>1, <2>2
    <2>4. Place(IF wire' = "answered" THEN at' ELSE at' - 1, db[Case])
      BY <2>1, <2>2, <2>3
    <2> QED
      BY <2>1, <2>2, <2>4 DEF FirstFlow
  <1>5. CASE Disappointed
    <2>1. stage = "flow" /\ (wire = "refused" \/ (wire = "answered" /\ ~ Checked))
      BY <1>5 DEF Disappointed
    <2>2. /\ at \in DOMAIN Script /\ wire # "refused" /\ view = db[Case]
          /\ wire = "answered" => Place(at, db[Case])
      BY <2>1, FlowPlaces
    <2> QED
      BY <2>1, <2>2, PlacePasses
  <1>6. CASE Reload
    <2>1. /\ stage = "flow" /\ Script[at].do = "reload" /\ stage' = "stop"
          /\ verdict' = IF Verifies(db[Case]) THEN "pass" ELSE "fail"
      BY <1>6 DEF Reload
    <2>2. at \in DOMAIN Script /\ N \in Nat
      BY <2>1, FlowPlaces
    <2>3. at = 2 * N + 8 /\ at - 1 \in 2 * N + 5 .. 2 * N + 7
      BY <2>1, <2>2, StepFacts
    <2>4. wire # "answered"
      BY <2>1 DEF FlowOK, FlowInv
    <2>5. Place(at - 1, db[Case])
      BY <2>1, <2>4, FlowPlaces
    <2>6. 2 * N + 7 \in 2 * N + 5 .. 2 * N + 7 /\ at - 1 = 2 * N + 7
      BY <2>2, <2>3
    <2>7. Verifies(db[Case])
      BY <2>5, <2>6, ReleasedPlace
    <2> QED
      BY <2>1, <2>7 DEF FirstFlow
  <1>7. CASE Stop
    BY <1>7 DEF Stop, Leave, FirstFlow
  <1>8. CASE StopLate
    BY <1>8 DEF StopLate, FirstFlow, FlowOK, FlowInv
  <1> QED
    BY <1>1, <1>2, <1>3, <1>4, <1>5, <1>6, <1>7, <1>8 DEF Run

LEMMA ServeFirst ==
  ASSUME FlowOK, FirstFlow, Serve, ~ faulty'
  PROVE  FirstFlow'
  <1> DEFINE s == db[Case]
  <1>1. CASE Ready
    <2>1. /\ stage = "ready" /\ stage' = "flow" /\ wire = "quiet" /\ at = 1
          /\ s = None /\ view = None
          /\ UNCHANGED <<db, at, wire, view>>
      BY <1>1 DEF Ready, FirstFlow, FlowOK, FlowInv
    <2>2. Place(0, s)
      BY <2>1 DEF Place
    <2>3. Place(IF wire' = "answered" THEN at' ELSE at' - 1, s)
      BY <2>1, <2>2
    <2> QED
      BY <2>1, <2>3 DEF FirstFlow
  <1>2. CASE ~ Ready /\ stage # "flow"
    <2>1. stage = "stop" /\ wire = "sent" /\ UNCHANGED <<stage, verdict>>
      BY <1>2 DEF Serve, ServeCommand, ServeQuery, Refuse, Break, FlowOK, FlowInv
    <2> QED
      BY <2>1 DEF FirstFlow
  <1>3. CASE ~ Ready /\ stage = "flow"
    <2>1. /\ wire = "sent" /\ stage' = "flow" /\ at' = at
          /\ ~ Break
          /\ Script[at].do # "reload"
      BY <1>3 DEF Serve, ServeCommand, ServeQuery, Refuse, Break, FlowOK, FlowInv
    <2>2. /\ N \in Nat /\ N > 0 /\ at \in 1 .. 2 * N + 8 /\ at \in DOMAIN Script
          /\ view = s /\ Place(at - 1, s) /\ RequestID(at) = at
      BY <1>3, <2>1, FlowPlaces, StepFacts
    <2>3. CASE at <= 2 * N + 5
      <3>1. /\ at \in 1 .. 2 * N + 5
            /\ Script[at].do \in Commands
            /\ Script[at].do # "timeline" /\ Script[at].do # "verify"
        BY <2>2, <2>3, StepFacts
      <3>2. /\ Executed(s, Script[at], at) # {}
            /\ \A t \in Executed(s, Script[at], at) : Place(at, t)
        BY <2>2, <3>1, ExecutedPlace
      <3>3. ServeCommand
        BY <1>3, <2>1, <2>2, <3>1, <3>2 DEF Serve, ServeQuery, Refuse
      <3>4. PICK t \in Executed(s, Script[at], at) : db' = [db EXCEPT ![Case] = t]
        BY <2>2, <3>3 DEF ServeCommand
      <3>5. db'[Case] = t
        BY <3>4, SmokeFacts DEF FlowOK, SelfTestTypeOK
      <3>6. wire' = "answered" /\ view' = db'[Case]
        BY <1>3, <3>3 DEF ServeCommand, Answered
      <3>7. Place(at, t)
        BY <3>2, <3>4
      <3>8. Place(IF wire' = "answered" THEN at' ELSE at' - 1, db'[Case])
        BY <2>1, <3>5, <3>6, <3>7
      <3> QED
        BY <2>1, <3>6, <3>8 DEF FirstFlow
    <2>4. CASE at > 2 * N + 5
      <3>1. /\ Script[at].do \notin Commands
            /\ Script[at].do = "verify" \/ Script[at].do = "timeline"
            /\ at - 1 \in 2 * N + 5 .. 2 * N + 7 /\ at - 1 + 1 = at
        BY <2>1, <2>2, <2>4, StepFacts
      <3>2. Verifies(s) /\ Place(at - 1 + 1, s)
        BY <2>2, <3>1, ReleasedPlace
      <3>3. ServeQuery
        BY <1>3, <2>1, <3>1, <3>2 DEF Serve, ServeCommand, Refuse
      <3>4. db' = db /\ wire' = "answered" /\ view' = db'[Case]
        BY <1>3, <3>3 DEF ServeQuery, Answered
      <3>5. Place(at, s)
        BY <3>1, <3>2
      <3>6. Place(IF wire' = "answered" THEN at' ELSE at' - 1, db'[Case])
        BY <2>1, <3>4, <3>5
      <3> QED
        BY <2>1, <3>4, <3>6 DEF FirstFlow
    <2> QED
      BY <2>2, <2>3, <2>4
  <1> QED
    BY <1>1, <1>2, <1>3

(* The directory of the first test is empty, and a temporary one is new.   *)
LEMMA BeginFirst ==
  ASSUME BaseInv, BeginSelfTest, selfTest' = selfTest
  PROVE  (Undisturbed' => FirstFlow') /\ exit' # 1
  <1>1. exit = None /\ exit' = exit
    BY DEF BaseInv, ServiceOK, ServiceInv, BeginSelfTest, serviceVars
  <1>2. exit' # 1
    BY <1>1, NoneAddress
  <1>3. ASSUME Undisturbed' PROVE db'[Case] = None
    <2>1. Empty[Case] = None
      BY SmokeFacts DEF Empty
    <2>2. CASE temp
      BY <2>1, <2>2 DEF BeginSelfTest, Begin
    <2>3. CASE ~ temp
      <3>1. tests' = 1 /\ tests' = tests + 1 /\ tests \in Nat /\ db' = db
        BY <1>3, <2>3 DEF Undisturbed, First, BeginSelfTest, Begin, BaseInv, FlowOK,
                          SelfTestTypeOK
      <3>2. db = Empty
        BY <3>1 DEF BaseInv, SelfTestAlone
      <3> QED
        BY <2>1, <3>1, <3>2
    <2> QED
      BY <2>2, <2>3
  <1> QED
    BY <1>2, <1>3 DEF BeginSelfTest, Begin, FirstFlow

LEMMA SameFirst ==
  ASSUME FirstInv, UNCHANGED selfTestVars, selfTest' = selfTest,
         exit' \in {exit, 2, None}
  PROVE  FirstInv'
  <1>1. exit' = 1 => exit = 1
    BY NoneAddress
  <1>2. Undisturbed' = Undisturbed /\ FirstFlow' = FirstFlow
    BY DEF Undisturbed, First, FirstFlow, selfTestVars
  <1> QED
    BY <1>1, <1>2 DEF FirstInv

LEMMA RunSelfTestFirst ==
  ASSUME BaseInv, FirstInv, RunSelfTest, selfTest' = selfTest
  PROVE  FirstInv'
  <1>1. /\ Run /\ Returns
        /\ UNCHANGED <<temp, tests>> /\ (~ faulty' => ~ faulty)
    BY DEF RunSelfTest, Run, Start, StartFails, NotReady, Ask, Timeout, Advanced,
           Disappointed, Reload, Stop, StopLate, Leave, GiveUp
  <1>2. SUFFICES ASSUME Undisturbed' PROVE FirstFlow' /\ exit' # 1
    BY DEF FirstInv
  <1>3. Undisturbed /\ ~ faulty'
    BY <1>1, <1>2 DEF Undisturbed, First
  <1>4. FirstFlow /\ exit # 1
    BY <1>3 DEF FirstInv
  <1>5. FirstFlow' /\ (stage' = "off" => verdict' = "pass")
    BY <1>1, <1>3, <1>4, RunFirst DEF BaseInv
  <1>6. CASE stage' = "off"
    <2>1. P!Exit(0)
      BY <1>5, <1>6, RunReturns
    <2> QED
      BY <1>5, <2>1 DEF P!Exit
  <1>7. CASE stage' # "off"
    BY <1>1, <1>4, <1>5, <1>7 DEF Returns, serviceVars
  <1> QED
    BY <1>6, <1>7

LEMMA ServeSelfTestFirst ==
  ASSUME BaseInv, FirstInv, ServeSelfTest, selfTest' = selfTest
  PROVE  FirstInv'
  <1>1. /\ Serve /\ exit' = exit
        /\ UNCHANGED <<temp, tests>> /\ (~ faulty' => ~ faulty)
    BY DEF ServeSelfTest, Serve, Ready, ServeCommand, ServeQuery, Refuse, Break,
           serviceVars
  <1>2. SUFFICES ASSUME Undisturbed' PROVE FirstFlow' /\ exit' # 1
    BY DEF FirstInv
  <1>3. Undisturbed /\ ~ faulty'
    BY <1>1, <1>2 DEF Undisturbed, First
  <1>4. FirstFlow /\ exit # 1
    BY <1>3 DEF FirstInv
  <1> QED
    BY <1>1, <1>3, <1>4, ServeFirst DEF BaseInv

LEMMA SignalFirst ==
  ASSUME FirstInv, Signal, selfTest' = selfTest
  PROVE  FirstInv'
  <1>1. exit' = exit
    BY DEF Signal, P!Signal
  <1>2. CASE stage = "off"
    BY <1>1, <1>2, SameFirst DEF Signal
  <1>3. CASE stage # "off"
    <2>1. stage' = "off" /\ UNCHANGED <<temp, tests, faulty>>
      BY <1>3 DEF Signal, Kill
    <2>2. Undisturbed' = Undisturbed /\ FirstFlow'
      BY <2>1 DEF Undisturbed, First, FirstFlow
    <2> QED
      BY <1>1, <2>2 DEF FirstInv
  <1> QED
    BY <1>2, <1>3

LEMMA FirstInit == Init => FirstInv
  BY NoneAddress DEF Init, SelfTestInit, P!Init, FirstInv, FirstFlow

LEMMA FirstNext == BaseInv /\ FirstInv /\ [Next]_vars => FirstInv'
  <1> SUFFICES ASSUME BaseInv, FirstInv, [Next]_vars PROVE FirstInv'
    OBVIOUS
  <1>1. CASE UNCHANGED vars
    BY <1>1, SameFirst DEF vars, serviceVars
  <1>2. CASE Next
    <2>1. selfTest' = selfTest
      BY <1>2 DEF Next
    <2>2. CASE Configure
      BY <2>1, <2>2, SameFirst DEF Configure, P!Configure, P!Exit
    <2>3. CASE Production
      BY <2>1, <2>3 DEF Production, FirstInv, Undisturbed, First
    <2>4. CASE BeginSelfTest
      BY <2>1, <2>4, BeginFirst DEF FirstInv
    <2>5. CASE RunSelfTest
      BY <2>1, <2>5, RunSelfTestFirst
    <2>6. CASE ServeSelfTest
      BY <2>1, <2>6, ServeSelfTestFirst
    <2>7. CASE Signal
      BY <2>1, <2>7, SignalFirst
    <2>8. CASE Around
      BY <2>1, <2>8, AroundOK, SameFirst DEF BaseInv, Around
    <2>9. CASE StartAgain
      BY <2>1, <2>9, SameFirst DEF StartAgain
    <2> QED
      BY <1>2, <2>2, <2>3, <2>4, <2>5, <2>6, <2>7, <2>8, <2>9 DEF Next, Main
  <1> QED
    BY <1>1, <1>2

(* A self test passes only with a case that earned its release, and the    *)
(* first one in a directory fails only if something failed or was late     *)
(* (selftest.go:59-153, README.md:47).                                     *)
THEOREM VerdictsTell == Spec => []VerdictTells
  <1>1. BaseInv /\ FirstInv => VerdictTells
    BY DEF BaseInv, FlowOK, FlowInv, FirstInv, Undisturbed, First, VerdictTells
  <1>2. Spec => [](BaseInv /\ FirstInv)
    BY BaseInit, BaseNext, FirstInit, FirstNext, PTL DEF Spec
  <1> QED
    BY <1>1, <1>2, PTL

============================================================================

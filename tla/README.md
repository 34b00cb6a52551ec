# stage-clearance: specification and proofs

`stage-clearance` keeps clearance cases for stage machinery: a technical
director writes a motion plan, a rule engine derives risk findings from it, a
mechanical lead uploads evidence for each finding, a safety reviewer accepts or
returns the evidence and finally signs a release certificate. It is one Go
process over a directory of JSON snapshots. This directory holds its TLA+
specification, the TLC configurations that check it and the TLAPS proofs.

## 1. The system

### Components

| component | source | state | operations |
|---|---|---|---|
| Case aggregate | `internal/domain/case.go`, `types.go`, `certificate.go`, `clone.go`, `digest.go` | one `ClearanceCase`: status, revision, plan, rule version, findings with evidence and verdicts, certificate, table of processed requests, queued audit events | `NewCase`, `ReplacePlan`, `SubmitEvaluation`, `ApplyEvaluation`, `AddEvidence`, `RequestReview`, `ReviewFinding`, `NewCertificate`, `MarkReleased`, `RecordRequest`, `RequestResult`, `DrainEvents`, `CloneCase` |
| Plan validation | `internal/domain/validation.go` | none | `ValidateSteps` |
| Application commands | `internal/application/service.go` | none (one goroutine per request) | `CreateCase`, `ReplacePlan`, `Evaluate`, `SubmitEvidence`, `RequestReview`, `ReviewFinding`, `Sign`, each with an actor, a request id and an expected revision |
| Queries, views, health | `internal/application/queries.go`, `views.go`, `health.go`, `identity.go` | none | list, get, timeline, review queue, certificate verification |
| File store | `internal/store/*.go` | `cases/<id>.json` (case and audit timeline, with a digest), `evidence/<aa>/<sha256>` | `New` (validates everything), `Create`, `Get`, `Save`, `PutEvidence`, `ReadEvidence`, `List`, `Timeline`, `FindCertificate` |
| Rule engine | `internal/rules/*.go` | none (fixed catalogue) | `Evaluate` |
| HTTP | `internal/httpui/*.go` | none | decoding, dispatch, error codes |
| Workbench | `internal/httpui/web/app.js` | selected case, case list, timeline, plan table, certificate panel, evidence dialog | asynchronous loads and commands |
| Runtime | `cmd/server/runtime.go`, `config.go`, `main.go` | the process | resolve the address, start, serve, shut down |
| Self test | `cmd/server/selftest*.go` | the process, its data directory | a scripted client of the HTTP interface |

### How they interact

A request is decoded by an HTTP handler and runs in a goroutine of its own. A
command (`Service.change`) takes the store's read lock, reads and clones the
case, releases the lock, answers from the table of processed requests if the
request id was used, compares the expected revision, calls one or two methods
of the aggregate, records the request in the case, and calls `Save`. `Save`
takes the write lock, reads the file again, refuses with a conflict if its
revision is no longer the one the command started from, and replaces the file
(temporary file, fsync, rename, directory fsync) by the new case and the old
audit timeline with the drained events appended. `SubmitEvidence` writes the
evidence file, under the write lock, between the read and the save.
`CreateCase` derives the case id from the actor and the request id and relies
on `Create` refusing an existing file. On start, `New` validates every
snapshot: digest, status, seal and plan digest of the certificate, and that
every evidence file a finding refers to is there.

### What is hard

* Two commands on one case overlap between the read and the save; only the
  revision comparison under the write lock separates them.
* A client repeats a command whose answer it lost, while the first copy is
  still being handled or after it took effect.
* A command fails, is cancelled or dies with the process between two writes,
  or fails *after* the rename, so that the client hears of an error although
  the command took effect.
* The evaluation is two steps of the aggregate with the engine between them,
  and no command leaves the state in between.
* Findings are accepted, returned, supplemented and resubmitted in any order,
  and nothing may be released that was not accepted as it is.
* The certificate seals bytes that pass through JSON.
* The power fails between the write, the rename and the two kinds of sync, and
  what is durable is not what was visible.
* A file is damaged from outside while commands, lists and uploads go on.
* The page awaits several answers at a time; after each await the selected case
  may be another one.
* A message is under way for so long that the case it was meant for has changed.

`PROJECT.json` lists these as hazards, each with the line where it bites and
the properties that would notice.

### What makes each component correct

* *Aggregate*: a released case has accepted evidence for every finding and a
  seal over its last revision and its evaluated plan; evidence under an
  acceptance is frozen; the evaluated plan is locked; the reviewer can judge
  every finding of a case that waits for review; the events explain the case.
* *Commands*: every request takes effect exactly once or not at all; the
  timeline has one event per revision; no case is ever stuck; overlapping
  commands behave as some serial order of them.
* *Store*: a snapshot is only replaced by one that continues it; whenever the
  process or the machine stops it can start again, with everything that was
  confirmed; damage that is there when a command looks is never covered up.
* *HTTP*: a repeated request is answered as the first was; nobody accepts what
  they did not see; no role can do the work of another.
* *Queries*: the queue is the reviewer's work; a certificate that was handed out
  is found again.
* *Plan validation and rules*: offsets are compared as the numbers they stand
  for; every finding has an id of its own; every valid plan can be evaluated.
* *Workbench*: what is shown belongs to the case that is selected, and what is
  sent is what was shown.
* *Runtime and self test*: they end, and their exit code is true.

## 2. Modules

```
ClearanceDomain              the aggregate: a guard CanX and a result X per method
 |- CaseLifecycle            one case object, its methods called in any order
 `- ClearanceCommands        the commands as functions of the copy they read
     `- SnapshotProperties   what is true of every snapshot and every change of one
         |- SerialClearance  abstract service: one command at a time
         |   |- ClearanceQueries   and what the read side answers meanwhile
         |   `- HttpProtocol       change requests, late and repeated
         |- ClearanceService workers, file store, failures, crashes; implements
         |                   SerialClearance (INSTANCE ... WITH db <- store)
         `- SelfTest         the scripted client and its process
RuleEngine                   one evaluation: validation, rules, sweep, order
DurableRevisions             abstract store: revisions that survive
 `- FileStore                the steps of atomicWrite, power loss, damage;
                             implements DurableRevisions
Workbench                    the page of the browser against the service
Runtime                      the process as a service
Process                      main: composes Runtime and SelfTest, exit codes

MCCaseLifecycle, MCSerialClearance, MCClearanceService, MCRuleEngine,
MCFileStore, MCHttpProtocol, MCWorkbench, MCProcess
                             small instances for TLC

ClearanceLemmas              what each method changes and keeps, what each command
 |                           makes of a snapshot
 |- CaseLifecycleProofs
 |- SerialClearanceProofs    with the queries and the messages
 |- ClearanceServiceProofs
 `- ProcessProofs            the service's process and the self test
RuleEngineProofs             the sweep's invariant, and that risks are distinct
FileStoreProofs              what may be lost and what may not
WorkbenchProofs              what the page may be holding
```

**ClearanceDomain** is the record `Cases` and the methods. A method that
returns an error leaves the object alone, so a method is a guard and a result.
`Advance` is `advance`/`record`: each success increments the revision once and
queues one event. `findings` and `requests` are total functions; `NoFinding`
and `NotProcessed` stand for ids that are not in the Go slice or map. A plan is
a value of `Plans`, `ValidPlans` are those `ValidateSteps` accepts. A digest is
the record of the fields it covers. `CloneCase` is a trip through JSON: queued
events are gone and every name has been through `JsonText`, which replaces
bytes that are not UTF-8.

**CaseLifecycle** is the state machine of one object in memory, as
`case_test.go` drives it: any call at any time, any result of the engine, and
the variable `issued`, a certificate that was issued some calls before it is
used.

**ClearanceCommands** gives, for each command, the set of cases it computes
from the copy it read (empty when it is refused). What the
engine does is the pair of constants `EvaluablePlans` and `RuleFindings`: it is
deterministic, and it refuses some valid plans.

**SerialClearance** is the promise: `db` maps each case to its snapshot, and
`CreateCase` and `ExecuteCommand` are atomic. **ClearanceService** is the code:
`store` (`cases/`), `evidence` (`evidence/`), `handler[w]` (the local variables
of a request between two of its store calls) and `up`. Its actions:

| action | code |
|---|---|
| `BeginCreateCase`, `Create` | `CreateCase` up to the call of `Create`; `FileStore.Create` under the lock |
| `BeginX` for each command | `prepareChange` and the change function up to the store's write |
| `PutEvidence` | `FileStore.PutEvidence`, then `AddEvidence`: refused evidence stays as an orphan file |
| `Save` | `FileStore.Save` under the lock: read again, compare, replace or conflict |
| `Abort` | cancelled context or I/O error before the rename |
| `Crash`, `Restart` | death of the process; `New` with `validateExisting` |

A worker's context is one request, so a duplicate sent by an impatient client
is another worker with the same request id.

**RuleEngine** is one call of `Engine.Evaluate`, loop by loop: `AcceptPlan` or
`RefusePlan` (`ValidateSteps`, the same function that guards `ReplacePlan` and
`SubmitEvaluation`), `CheckStep` or `RefuseStep` for each step, `OrderSteps`, the
two loops of `overlappingZoneFindings` (`ComparePair` is a turn of the inner
one, `NextLeft` its end, by the list or by the `break`), and `OrderRisks`.
`Cancelled` is `ctx.Err()` where the code looks at it. `EndsAtOffsetMS` wraps
around at `Int64Limit`. A text is the sequence of its segments between colons,
so joining (`Joined`) is concatenation. `sort.Slice` promises no more than an order, so
sorting chooses any arrangement that the order allows. The engine and the case
modules meet in `EvaluablePlans` and `RuleFindings`.

**FileStore** opens the step that `Create`, `Save` and `PutEvidence` are in
ClearanceService. `tree` is the data directory as processes see it, `pasts` the
directories a power loss may leave, and `handler[w]` where a request is in the
store. Its actions:

| action | code |
|---|---|
| `BeginList`, `ReadSnapshot`, `AnswerList` | `List` under the read lock, one file after the other; the first bad one ends it |
| `Create`, `Save`, `PutEvidence` | the write lock, what is looked at under it, and the directory of the evidence |
| `WriteTemp`, `SyncTemp`, `Rename`, `SyncDir` | `atomicWrite`; the caller is told at the end |
| `Fail` | an error of any of these |
| `Crash`, `PowerLoss`, `Restart` | the process ends; the machine stops and any member of `pasts` is found; `New` with `validateExisting` |
| `Damage` | a file stops matching its digest, at any moment: the locks of the service bind the service only |

There are two file systems. With `OneJournal`, what survives is the state after
a prefix of the directory operations, and each fsync commits all of them. Without
it, each operation since the fsync of its own directory may be missing; that
variant is only reasoned about (section 5), TLC runs the journaling one. A
snapshot is its revision and the evidence it refers to. The two modules of the
store meet there: ClearanceService has the contents of snapshots and takes
durability for granted, FileStore has durability and takes from a command that
its case refers to evidence the snapshot had or that `PutEvidence` confirmed.
**DurableRevisions** is the promise: revisions go up, and one that was confirmed
is never gone back behind; nothing is promised of a file that was damaged from
outside, be it before or while it is confirmed, and one that was damaged makes no
difference to the others.

**HttpProtocol** is a message at the moment it is handled: `Stages` lists the
checks of handler and service in the order of the code, each with the error code
it answers, and `Answer` is what the message would be told now. `Handle` applies
a message that passes all of them. Nothing is kept of a message but that it took
effect (`done`), which is all the module adds to the state of SerialClearance, so
every message may arrive at any time and again.

**ClearanceQueries** extends SerialClearance by what its clients see between any
two commands: `startsAt`, the time in the request that created a case, and
`published`, the certificates that signatures were answered with. The answers are
operators on what is stored: `Progress`, `ReviewQueue`, `CertificateAnswers`.
`ReviewQueue` is the arrangement of the reviewer's work that is sorted by its keys;
since the keys of two entries differ, there is one.

**Workbench** has the page's variables, `server` as far as the page can see it,
and `tasks`, the chains of awaits under way. A click begins a chain; `ServeQuery`,
`ServeChange`, `ServeCreate` and `Refuse` are the service, and one action for each
continuation applies an answer to the page as it is *then*. A stored case has risks
if it is in remediation and none if it is a draft (`Stored`); evidence and judgments
need a finding, so the case they change has risks. `Render` stops where
`renderCurrent` throws for a case without findings. The variable `scenario`, which
never changes, says who uses the page: whether the user waits for every answer,
what is clicked, whether there are other users and whether the network loses
messages.

**SelfTest** is `runSelfTest` by stages (start, ready, flow, stop) and the script
of `executeSmokeFlow` as a sequence of steps, against the commands of
ClearanceCommands. **Runtime** is `ParseConfig` and `Runtime.Serve`, with
connections in the states of `net/http`. **Process** is `main`: the configuration
decides which of the two runs, what it returns becomes the exit code, a signal
reaches either (a self test catches none), and a self test may be started again
on what the last one left.

Operators whose comment begins with "Fault" are not part of the model. Each is
a slip one could make in the definition that follows it, and is used to show
that the property listed with it in `PROJECT.json` would notice.

## 3. What TLC checks

| run | instance | question |
|---|---|---|
| `lifecycle` | `MCCaseLifecycle.cfg` | Any order of calls on one object: is what is released justified, does an acceptance stand, do the events explain every finding? |
| `serial` | `MCSerialClearance.cfg` | Commands one at a time and every query between them: is the timeline right, is no case ever stuck, and do progress, queue and certificate lookup tell the truth about two cases that share a clearance number? |
| `service` | `MCClearanceService.cfg` | Two commands at a time with duplicates, failures and crashes between any two steps: does the store behave as the serial specification, and can it always start again? |
| `service_liveness` | `MCServiceLiveness.cfg` | Is every request answered, and does the service come back? |
| `engine` | `MCRuleEngine.cfg` | Does the sweep, which stops looking early, report exactly the moves that collide, in one order and under distinct ids, and does every evaluation end? |
| `late_start` | `MCRuleEngineLate.cfg` | Does every accepted step end in time if it may start anywhere in int64? It does not: see section 6. |
| `colon_ids` | `MCRuleEngineColon.cfg` | Are the ids of risks distinct if step ids contain colons? They are not: see section 6. |
| `latin1_signer` | `MCServiceLatin1.cfg` | Does every stored certificate verify? It does not: see section 6. |
| `store` | `MCFileStore.cfg` | With errors, power losses and damage to a file between any two steps of `atomicWrite`, from the first start on: is anything torn, lost or hidden, does a command that looks at a damaged file leave it alone, and does the service always start again? |
| `http` | `MCHttpProtocol.cfg` | With messages of every role, late and repeated: what may an old one do, and what is a repeated one told? |
| `page` | `MCWorkbench.cfg` | Does the page agree with the service for a user who waits; and for one who does not, among other users or on a bad network, can a change replace a revision that was not shown? |
| `process` | `MCProcess.cfg` | As a service and as a self test: where does the process listen, does it end, and do verdict and exit code tell what happened? |

The properties and what they say:

* `ReleaseIsJustified`, `ReleasedIsJustified`: a released case was accepted
  finding by finding on evidence, and its certificate seals its last revision
  and the plan that was evaluated. At the object, a certificate that was issued
  before a return must not release the case after it; the service issues and
  uses one in the same call (`service.go:182-186`).
* `ReviewableFindings`, `NeverStranded`: no sequence of returns and
  resubmissions produces a finding that can be neither judged nor
  supplemented, or a case whose every command is refused.
* `AcceptedEvidenceIsFrozen`, `EvaluatedPlanIsLocked`: action properties over
  all steps.
* `EventsExplainFindings`, `TimelineIsTrue`: the audit events alone determine
  the status of every finding and of the case.
* `ExactlyOnce`: the request table and the timeline match one to one, so no
  command was applied twice or lost.
* `ImplementsSerial`: the refinement. `HistoryOnlyGrows`: no saved event or
  request record is ever rewritten.
* `Recoverable`: `validateExisting` accepts the directory at every moment, so
  also at every moment of a crash.
* `FindsEveryRisk`: the answer is the steps that break a rule and the pairs for
  which there is a millisecond at which both machines move, said without
  int64 and without the sweep. `UnknownIsNotSafe`, `AnswerIsDetermined`,
  `RiskIdsAreDistinct`, `StepsEndInTime`: see the comments in the module.
* `NoTornFile`, `StartsAfterPowerLoss`: said of every directory in `pasts`, so of
  a power loss at every moment. `ImplementsDurableRevisions` is about readers too:
  what they see is only ever lost if it was never confirmed.
* `ListIsComplete`, `DamageIsNeverCoveredUp`, `GrantedEvidenceIsGenuine`: what
  reading, saving and uploading do about a damaged file. A command looks at the
  file once, under the lock (`store.go:59`, `store.go:100`, `evidence.go:41`), and
  leaves alone what it finds damaged. It does not look again before the rename
  (`snapshot.go:99`): damage between the two is overwritten and nobody hears of
  it. The run has such steps; `DamageIsNeverCoveredUp` is about damage that is not
  under a replacement (`LyingDamaged`), as damage is that a failed one left. In the
  same way new evidence may be confirmed that was damaged between its rename and
  the directory fsync (`snapshot.go:102-107`), and only then.
* `RetryIsAnswered`: every message that took effect would be answered `ok` if it
  arrived again now, and by none under another role or command.
  `AcceptedAsSeen`: no evidence of an accepted finding is newer than the revision
  its acceptance named. `ReleaseTakesAllRoles`, `UploadLimitIsExact`: see there.
* `ProgressTellsStatus`, `QueueIsWork`, `PublishedStaysValid`: projections against
  what the domain allows and what clients were given.
* `ScreenIsTrue`, `ChangesAreBasedOnTheScreen`: the page against the service. The
  first is about a user who waits. The second is about any number of answers under
  way: a change that is accepted replaces the revision that was in the header at the
  click, or, for evidence, when it was sent, two awaits after the click. The
  signature of a case without risks is exempt: section 6 says why. That evidence
  or a judgment cannot reach a finding of another case is no property: ids of findings
  are hashed with the id of their case, so the service finds none, and in the
  model that is the guard of `ServeChange`.
* `VerdictTells`: however often self tests are killed and repeated on one
  directory, one passes only with a case that was really brought to its release,
  each of its requests applied once; and the first fails only if something did.
* `ExitCodeTells`: 0 only if no request was cut off, 2 only if the configuration
  is refused, and otherwise the process listened where the manual says.
* `EveryRequestEnds`, `ServiceReturns`, `EvaluationEnds`, `ProcessEnds`: liveness.

Types (`TypeOK` of each module) are not among the properties of the runs; those
of the modules with proofs are theorems (`TypeCorrect`).

Each property has a mutant in `PROJECT.json`: a plausible slip in a modelled
definition that TLC shows to violate it.

### Bounds and why they are enough

`MaxRevision` ends a run: no command starts at that revision, so `CHECK_DEADLOCK
FALSE` in the lifecycle, serial and HTTP runs, where the system stops there. The
13 revisions of the first two hold a release after a return with two findings
(create 1, plan 2, evaluate 4, evidence 6, review 7, return 8, evidence 9,
review 10, accept 12, release 13); two findings are needed because one must be
accepted while the other is returned. In `serial` a second case shares the
clearance number of the first, as two may: nothing compares it. It goes straight
to its release, while the first waits for review or is released
(`NeighbourIsPlain`), which is when a queue or a lookup could confuse the two;
the performances start together or that of the first is earlier. The service
runs keep one finding and one case (cases share nothing but the set of evidence
files, which only grows) and two workers, which is what a lost update, a double
application or a double creation needs; 8 revisions hold a return of the finding
while the other worker is anywhere between two of its steps. In `service` there
are as many request ids as revisions, so that no command is refused for want of
one. What the bounds cut off the theorems of section 5 cover.

The engine run evaluates about 4000 plans: three moves with every arrangement of
times, and of two machines and two zones (3456 plans; with three, one pair can
be passed over while another is reported, and a long move can outlast a short one
that hides behind it); two that cross and break the other rules; and two at the
limits of validation and of the capability table. Int64 has 4 bits, a duration at
most 3 ms and a plan at most 3 steps, so that each limit is met and passed.
An evaluation ends, hence `CHECK_DEADLOCK FALSE`.

The store run has one case with two contents in directories of their own, since
what can go wrong is one file being more durable than another; two
revisions hold a confirmed one and one that refers to evidence and is
lost. It has two workers, for the lock and for lists beside writes; one file
is damaged (`MaxDamage`), the others are bystanders. The directory is empty at
first (`Fresh`), so the first start is among the steps.

The HTTP run has one case with one finding, a certificate and 11 revisions, so
that a return, a second judgment and the release fit between the sending and the
arrival of a message; limits of 2 and 1 bytes with sizes around both and their sum.

The page has two cases, since its hazards are confusions of two, and two slots: one
answer that is late and one that overtakes it. `Calm` is one user who waits and
uses every button from drafts to a release; `Hasty` does not wait, has other users
beside and starts from findings; `Lossy` loses requests and answers, from
drafts. Each bounds the revisions as its start requires.

The process run has two connections, one that is in the way of the shutdown and
one that is not, and hosts and ports on both sides of every check. The self test
runs its full script with the four findings it demands; its three starts are a
first run, one after a kill and one after that.

Request ids are compared for equality only. `LowestFresh` (an action
constraint) lets a command use a new id only if it is the lowest that neither a
snapshot nor a worker knows: any other run is one of these with ids renamed.
Workers are symmetric for the same reason (not in the liveness run).

### Fairness

`FairSpec` assumes weak fairness of each worker's `Continue` and of `Restart`. The
first is the Go scheduler: a goroutine in `Create`, `PutEvidence` or `Save` waits
only for the store's mutex, whose holders do not wait for anything but the disk.
The second is whoever operates the service: nothing in the code starts it again.
No fairness is assumed of clients, of `Abort` or of `Crash`. In `RuleEngine` it is
weak fairness of `Next`: an evaluation is a plain loop on one goroutine.

In `Process` only the main goroutine is fair, timeouts included, which the Go
runtime fires whatever the service does. Nothing is assumed of the answers, of
requests or of signals: that a process ends although nothing is ever answered is
what `ProcessEnds` is about. The other modules have safety properties only.

## 4. What the model leaves out

* In `ClearanceService`: answers, roles and texts. A refused command and a query
  change nothing, and a wrong role, a blank name or an unknown revision is
  answered before anything is touched. `HttpProtocol` has the answers and the
  roles, with commands that take effect at once; that commands which overlap
  do so as well is what `ImplementsSerial` of `ClearanceService` says.
* Media types, bodies that do not parse, blank names and ids, static files and
  response headers. They are answered first and touch nothing.
* Request ids are taken to be UTF-8. In JSON bodies they always are; the
  evidence form would admit others, whose id in the table JSON would change.
* In `ClearanceService` a rename is atomic and durable, and files are only what the
  program wrote: that is `FileStore`, which in turn knows of a case no more than
  its revision and its evidence. Orphaned temporary files are in neither: no
  reader takes their names for those of a case or of evidence.
* Two processes on one data directory. They share no lock, and nothing in the
  repository asks for it.
* The growth of the request table and of the timeline: no bound is stated.
* In the case modules the rule engine is the function `RuleFindings`, plan
  validation the set `ValidPlans`; severity, messages and times decide nothing
  there. In `RuleEngine`, trimming, blank texts, repeated interlock codes and
  the foreign case id, all refused by validation, and the texts of a finding
  are left out. A load is an integer.
* The order of the case list, the counts of the health check and `ReadEvidence`,
  which nothing calls.
* Of the page: styles, toasts, tabs, the search and the health line. A case there
  is a revision, a status and whether it has risks. Names that no header can
  carry are left out, see section 6.
* The removal of the self test's temporary directory. The text of flags: an
  option of `Runtime` is given or not, and is a host and a port.

Two notes on words used above: a *finding* is a risk finding of the program; a
*fault* is a definition used as a mutant.

## 5. What is proved

All proofs are for arbitrary constants under `DomainAssumption`,
`CommandsAssumption`, `QueriesAssumption`, `EngineAssumption`,
`FileStoreAssumption`, `ProtocolAssumption`, `WorkbenchAssumption` and
`ProcessAssumption`: the valid
plans are plans, the engine's findings are finitely many findings, `None` is none of
the other values, JSON changes a name at most once, the ids that order the queue
differ, the interlocks of a device are finitely many, of two keys of risks one
is the lesser, and the default host is a loopback address. Of the self test it is
assumed what its script is written for: the plan of `smokeSteps` can be evaluated,
`SmokeFindings` has each of its findings once and no fewer than the flow asks for
(`MinFindings`), the timeline is not asked for more events than its commands leave
(`MinEvents`), its actors, evidence and request ids are among those of the case
modules, and the reviewer's name is UTF-8. TLC evaluates each in every run of a module that extends it. What
a theorem needs beyond them is a hypothesis of the theorem and named below.

* `CaseLifecycleProofs`. `IInv` is the types, `CaseInv` (accepted means evidence
  and a reviewer; what waits for review is reviewable; findings only after an
  evaluation; while one is in remediation there is work left, `WorkIsLeft`; a
  certificate exactly when released) and `IssuedInv`: the
  certificate a caller holds seals itself and covers the plan, and the case
  left draft. Without `IssuedInv`, `ReleaseIsJustified` is not inductive: the
  step `MarkReleased` takes any certificate with the right revision.
  Theorems: `TypeCorrect`, `ReleaseJustified`, `AlwaysReviewable`,
  `AcceptedEvidenceFrozen`, `EvaluatedPlanLocked`, `EventsExplain`. The last
  rests on `EventsInv`: no event is about a finding the case does not have,
  because an evaluation opens findings that no event may have mentioned yet.
* `SerialClearanceProofs`. `SnapshotInv` joins `CaseInv`, `Evaluated` (a stored case
  is never half-way through an evaluation), the timeline and the request table.
  The lemma `SavedSnapshot` shows that every command keeps it: a new request's
  revision lies beyond all old ones, so it can be confused with none.
  Theorems: `TypeCorrect`, `TimelinesTrue`, `RequestsAppliedOnce`,
  `AlwaysANextStep` (if there is a valid plan), `ReleasesJustified`.

  The queries are proved in the same module: `QueriesAreOfSpec` says that they add
  no behaviour to `SerialClearance`, so that all of the above holds while they are
  asked. `ProgressViewsTell` counts findings and rests on `WorkIsLeft`: without it
  a case could be in remediation with evidence for everything. `QueueIsReviewersWork`
  rests on `QueryInv` (every stored case has a time to start at) and on
  `SortedArrangement`, that a set which is ordered strictly and totally can be
  arranged in one way only. `PublishedCertificatesAreFound` is from `PublishedInv`:
  what a signature answered is still the certificate of that case; it assumes
  that JSON keeps every name, as `AlwaysRecoverable` does below.
* `ClearanceServiceProofs`. `ServiceInv` adds `InHand`: what a worker holds follows
  from the snapshot that is stored, or a newer one was saved since. Revisions
  only increase, so when `Save` finds the revision it started from, it found the
  snapshot it started from, and the save is one serial step. `BackingInv` says
  that evidence and certificate of every stored or held case are sound.
  Theorems: `TypeCorrect`, `ServiceImplementsSerial`, `SnapshotsOnlyGrow`,
  `RequestsAppliedOnce`, and `AlwaysRecoverable`, which assumes that JSON keeps
  every name; section 6 shows that the assumption is needed.

* `RuleEngineProofs`. `LoopInv` follows the loops of every evaluation and gives
  `TypeCorrect` and `UnknownNeverSafe`. `SweepInv` says what the sweep has found
  at every moment: the collisions among the pairs it has dealt with, met or
  skipped. Skipping is right because the steps are ordered by their start and
  ends are true ends, which holds under `OffsetsInRange`: no step starts within
  24 hours of 2^63 ms. Under this hypothesis `EveryRiskFound` and
  `AcceptedStepsEndInTime` hold; section 6 shows that it is needed.

  `EveryRiskHasItsId` and `OnePlanOneAnswer` are from `MetInv`: whatever the sweep has
  found is a risk the plan can give rise to, of a step or of two steps in their
  order. Under `NoColons`, that no id and no interlock contains a colon, the key of
  such a risk tells the steps it is about, so no two risks have one id and the order
  of the answer is strict. The hypothesis is needed for both. For ids see section 6;
  for the order, the steps `a:b`, `a:b:a` and `b:a`, all at once in one zone, have
  two collisions with the key `a:b:a:b:a`, which `sort.Slice` may leave either way.

* `FileStoreProofs`. `IInv` relates what may be found after a power loss to what is
  visible: every past has for a file what the tree has or an older state of it
  that was in place before, but for damage; contents are synced before they are
  renamed, so no past is torn; what is confirmed is in every past; and while a
  worker is between rename and directory fsync nobody else writes. Under `OneJournal`
  the pasts are a chain, so a past that has a snapshot has what came before it, its evidence
  included; that is the argument of `AlwaysStarts`, and what POSIX alone does not
  give. A file that lies damaged is not being replaced, and no operation begins to
  (`ReplacingBegins`), since each looks first. Theorems: `TypeCorrect`,
  `NoTornFiles`, `ListsAreComplete`, `DamageIsKept` and `GrantsAreSound` (with the
  window of section 3) without further assumption; `ConfirmedIsKept` if there is one
  journal or the data directory is durable; `AlwaysStarts` with one journal;
  `StoreIsDurable`, the refinement of `DurableRevisions`, under the assumption of
  `ConfirmedIsKept`, whatever is damaged.

  The messages are proved there too. `HttpInv` is that every stored case is sound
  (`SnapshotInv`) and that every message in `done` left its request in the table of
  its case (`TookEffect`), from which no command removes anything. Theorems:
  `RetriesAreAnswered`, `UploadLimitsAreExact` and `HttpImplementsSerial`, the
  refinement of `SerialClearance`.

  Who did what is not in the case: neither the role of an actor nor the revision a
  judgment was made at is stored. `TraceInv` finds both in the messages that took
  effect: one of a director for the plan, one of a lead for each evidence, one
  of a reviewer for each acceptance and for the release, with their revisions in
  that order. From it follow `VerdictsAreOfWhatWasSeen` (`AcceptedAsSeen`: nothing is
  accepted that came after the revision the reviewer named) and
  `NobodyReleasesAlone` (`ReleaseTakesAllRoles`).

* `WorkbenchProofs`. `IInv` is what the page may be holding, among any number of
  chains of awaits, for any scenario: each view on the page or on its way to it is of
  a revision the service had, and is the stored case while that revision is the last
  (`Known`); a header may lag behind the selected case only if that case waits for its
  review and has no risks, where `renderCurrent` threw. It gives `TypeCorrect` and
  `ChangesReplaceWhatWasSeen`: a change made with another revision than the one in
  the header is refused (`WasSeen`), but for the signature that section 6 speaks of.
  For evidence the header is the one when the file has been read.

  `ScreenTellsTheTruth` (`ScreenIsTrue`) is about one user who waits. `CalmInv` says
  that there is one chain at a time, that the page is true of the selected case but
  for what this chain still has to load or to render (`CalmTask`), and that the list
  lacks nothing but drafts. The lemmas about it go through the clicks, the answers
  and the continuations one by one.

* `ProcessProofs`. `BaseInv` is the types, where the main goroutine can have been
  (`ServiceInv`), that a self test has the process to itself (`SelfTestAlone`), that
  a stored case is sound and has no plan but the smoke plan, whoever wrote it
  (`StoredInv`), and that a flow past its first step has a stored case and one that
  is about to pass has one that earned its release (`FlowInv`). It gives
  `TypeCorrect`, `ExitCodesTell` and the first half of `VerdictsTell`: a self test
  passes only on a case that earned its release, on however many killed or failed
  self tests it was built.

  The second half, that the first self test in a directory fails only on a fault, is
  about what is *not* refused, so it needs the case exactly as it is after each
  step of the script: its status, the status of each finding, its plan, a revision
  that gives the timeline its events, and the request ids not used yet (`Place`,
  with `Landmark` and `Fresh`). `FirstInv` says that while nothing failed, the last
  answer is what is stored, and it is at the place of the script, before or
  after the step under way. One lemma per command (`PlanTaken` to `SignTaken`) shows
  that from its place it is not refused and leads to the next.

Only model-checked:

* The liveness properties, `EveryRequestEnds`, `ServiceReturns`, `EvaluationEnds` and
  `ProcessEnds`, which need fairness and `ENABLED` and are beyond the prover.
* The run with a name that JSON changes: it is a counterexample.

## 6. Disagreements with the repository's own statements

The first three are runs in which TLC finds the statement violated. The others were
seen while the code was modelled; no run is about them, and what the models say of
the places is noted with each.

**Names that are not UTF-8.** `README.md:9` of the repository says that a
certificate can be verified by anyone with its number and code. The seal covers
the signer's name as the bytes of the `X-Actor-Name` header
(`certificate.go:29-31`, `digest.go:46-55`), but the snapshot is JSON, which
replaces bytes that are not UTF-8 by U+FFFD. If a reviewer's client sends the
name as Latin-1, the stored certificate no longer matches its code: verification
answers `digest_mismatch` (`store.go:179`), and `validateExisting`
(`store.go:204`) refuses to start the service. Run `latin1_signer` shows it in
the shortest way: create, plan, evaluate, sign.

**Steps that start very late.** `validation.go:52` compares the int64 sum of start
and duration with the length of the performance; its message says that an action
must not exceed the performance. Run `late_start`: a start close to 2^63
wraps the end around to a negative number, and the step is accepted. In the
sweep everything else starts after such an end, so the step collides with
nothing either.

**Step ids with a colon.** `engine.go:105-108` makes the key of a collision from the
two ids joined by `:`, and validation admits ids that contain one. Run
`colon_ids`: the collisions of `a:b` with `c` and of `a` with `b:c` are both
`zone:a:b:c`. `ApplyEvaluation` refuses the list (`case.go:127`), so a valid plan
cannot be evaluated until its steps are renamed.

**Evidence directories after a power loss.** `BENZHI_README.md:5` promises a
complete local recovery. `PutEvidence` makes `evidence/<aa>` with `MkdirAll`
(`evidence.go:38`), and `atomicWrite` syncs that directory after the rename
(`snapshot.go:102-107`), but the entry of `<aa>` in `evidence/` is never synced. On a
file system that promises no more than POSIX, a snapshot in `cases/` may be durable
while the directory of its evidence is not, and then `validateExisting` refuses to
start. On one with a single journal (ext4, XFS) the
fsync of any directory commits the earlier `mkdir`, which is run `store` and the
theorem `AlwaysStarts`.

**A second self test.** `README.md:47` describes a self test that passes and
exits, `BENZHI_README.md:29` expects exit code 0, and a data directory may be
given. Request ids are `selftest-<action>-<serial>` with a serial that starts
anew in every process (`selftest_client.go:43-46`). On a directory that was used
before, every command up to the evaluation is answered as a repeat with the
released case, and `selftest.go:89` misses the remediation. `VerdictTells`
therefore says of a repeated self test only that it does not pass wrongly. This
is also what a request id is worth to a client whose ids repeat.

**The page.** `Workbench` has the behaviour of the code in each of these places:

* `loadTimeline` (`app.js:247-256`) does not look whether the case it
  asked for is still selected. The tab belongs to the views of the case
  (`workbench.html:76`).
* `submitEvidence` takes the revision when it sends (`app.js:363`),
  after two awaits, not when the form was filled (`app.js:335`). The optimistic
  concurrency control of `README.md:9` then has nothing to object.
* A case without findings has `findings: null` (`views.go:61`), on which
  `renderCurrent` throws (`app.js:141`) before it renders the plan; `app.js:203` shows
  that null was reckoned with. The table keeps the plan of the case before, and
  `savePlan` stores it in the selected one.
* `event.currentTarget` is null after an await, so `app.js:296` throws
  and the announcement and the load of the new case (`app.js:297-298`) are never
  reached.
* A header of `fetch` cannot carry the name `workbench.html:22` presets.
* For the same null `evaluateCase` throws (`app.js:320`) before it renders the
  evaluated case, which may be signed at once: its findings were none, but the user
  signs a revision the header never showed.

Together, the null of a case without findings and the preset name mean that the
page can hardly be used as it comes; the properties that hold are about its code
once the name fits.

## 7. Plan

Done: everything in sections 2 to 5. What could follow, in this order:

1. The refinement of the constants `EvaluablePlans` and `RuleFindings` by an
   evaluation of `RuleEngine`: `OnePlanOneAnswer` makes the second a function, and
   `EveryRiskHasItsId` says for which plans the first is all that is valid.
2. A composition of `FileStore` with `ClearanceService` in one state space. Today
   they meet in an argument (section 2), not in a refinement.

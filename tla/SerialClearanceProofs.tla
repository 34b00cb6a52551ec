----------------------- MODULE SerialClearanceProofs ------------------------
(***************************************************************************)
(* The properties of SerialClearance for any number of cases, any plans,   *)
(* findings, files, names and request ids, and any engine.                 *)
(*                                                                         *)
(* None of them is inductive alone: whether the timeline tells the status  *)
(* depends on what the findings are, whether a request was applied once on *)
(* the timeline having one event per revision.  DbInv joins them.          *)
(*                                                                         *)
(* Two modules extend SerialClearance and implement it.  What the queries  *)
(* of ClearanceQueries answer follows from DbInv, from the times of        *)
(* creation (QueryInv) and from what clients were given (PublishedInv).    *)
(*                                                                         *)
(* What a message of HttpProtocol that took effect is answered depends on  *)
(* what is stored by then: HttpInv says that its request stays recorded    *)
(* under its command, through everything other messages do to the case.    *)
(* Who did what to a case is in the messages that took effect: TraceInv    *)
(* finds there one for the plan, for each evidence, each acceptance and    *)
(* the release, with the revisions in order.                               *)
(***************************************************************************)
EXTENDS ClearanceQueries, HttpProtocol, ClearanceLemmas, FiniteSetTheorems

DbInv ==
  /\ TypeOK
  /\ \A key \in Stored : SnapshotInv(db[key])

LEMMA InitInv == Init => DbInv
  BY DEF Init, DbInv, TypeOK, Stored

LEMMA CreateCaseInv ==
  ASSUME DbInv, NEW key \in CaseKeys, CreateCase(key)
  PROVE  DbInv'
  <1>1. SnapshotInv(Saved(<<>>, CreatedCase(key)))
    BY CreatedSnapshot
  <1>2. Saved(<<>>, CreatedCase(key)) \in Snapshots
    BY <1>1 DEF SnapshotInv
  <1>3. /\ db \in [CaseKeys -> Snapshots \cup {None}]
        /\ db' = [db EXCEPT ![key] = Saved(<<>>, CreatedCase(key))]
    BY DEF DbInv, TypeOK, CreateCase
  <1> QED
    BY <1>1, <1>2, <1>3 DEF DbInv, TypeOK, Stored

LEMMA ExecuteCommandInv ==
  ASSUME DbInv, NEW key \in CaseKeys, NEW r \in Requests, ExecuteCommand(key, r)
  PROVE  DbInv'
  <1>1. /\ SnapshotInv(db[key]) /\ IsNewRequest(db[key].case, r)
        /\ db \in [CaseKeys -> Snapshots \cup {None}]
    BY DEF DbInv, TypeOK, Stored, ExecuteCommand, Prepared
  <1>2. PICK c \in Results(db[key].case, r) :
          db' = [db EXCEPT ![key] = Saved(db[key].audit, c)]
    BY DEF ExecuteCommand
  <1>3. Applied(db[key].case, c, r)
    BY <1>1, <1>2, ResultsApplied DEF SnapshotInv, Snapshots
  <1>4. SnapshotInv(Saved(db[key].audit, c))
    BY <1>1, <1>3, SavedSnapshot
  <1>5. Saved(db[key].audit, c) \in Snapshots
    BY <1>4 DEF SnapshotInv
  <1> QED
    BY <1>1, <1>2, <1>4, <1>5 DEF DbInv, TypeOK, Stored

LEMMA Invariance == Spec => []DbInv
  <1>1. Init => DbInv
    BY InitInv
  <1>2. DbInv /\ [Next]_db => DbInv'
    <2> SUFFICES ASSUME DbInv, [Next]_db PROVE DbInv'
      OBVIOUS
    <2>1. CASE \E key \in CaseKeys : CreateCase(key)
      BY <2>1, CreateCaseInv
    <2>2. CASE \E key \in CaseKeys, r \in Requests : ExecuteCommand(key, r)
      BY <2>2, ExecuteCommandInv
    <2>3. CASE UNCHANGED db
      BY <2>3 DEF DbInv, TypeOK, Stored
    <2> QED
      BY <2>1, <2>2, <2>3 DEF Next
  <1> QED
    BY <1>1, <1>2, PTL DEF Spec

----------------------------------------------------------------------------

(* Every file holds a snapshot.                                            *)
THEOREM TypeCorrect == Spec => []TypeOK
  <1>1. DbInv => TypeOK
    BY DEF DbInv
  <1> QED
    BY <1>1, Invariance, PTL

(* The audit timeline has one event per revision and tells the status;     *)
(* a case half-way through an evaluation is never stored.                  *)
THEOREM TimelinesTrue == Spec => []TimelineIsTrue
  <1>1. DbInv => TimelineIsTrue
    BY DEF DbInv, SnapshotInv, TimelineIsTrue, Stored
  <1> QED
    BY <1>1, Invariance, PTL

(* Processed requests and closing events match one to one.                 *)
THEOREM RequestsAppliedOnce == Spec => []ExactlyOnce
  <1>1. DbInv => ExactlyOnce
    BY DEF DbInv, SnapshotInv, ExactlyOnce, Stored
  <1> QED
    BY <1>1, Invariance, PTL

(* As long as some plan is valid, every case has a command that is not     *)
(* refused until it is released.                                           *)
THEOREM AlwaysANextStep ==
  ASSUME ValidPlans # {}
  PROVE  Spec => []NeverStranded
  <1>1. DbInv => NeverStranded
    BY InvHasNextStep DEF DbInv, SnapshotInv, Snapshots, NeverStranded
  <1> QED
    BY <1>1, Invariance, PTL

(* A certificate is there exactly when the case is released, and every     *)
(* finding the engine derives from its plan was accepted on evidence.      *)
THEOREM ReleasesJustified == Spec => []ReleasedIsJustified
  <1>1. DbInv => ReleasedIsJustified
    BY InvJustified DEF DbInv, SnapshotInv, Snapshots, ReleasedIsJustified
  <1> QED
    BY <1>1, Invariance, PTL

----------------------------------------------------------------------------
(* The queries.  They see what Spec stores, and what clients keep.         *)

(* Every certificate a client keeps is the stored one, for good: nothing   *)
(* follows a release.                                                      *)
PublishedInv ==
  \A p \in published :
    /\ p.case \in Stored
    /\ db[p.case].case.status = "released"
    /\ db[p.case].case.certificate = p.certificate
    /\ VerifyCertificate(p.certificate)

(* There are only finitely many cases to count and to sort.                *)
QueryInv ==
  /\ DbInv
  /\ IsFiniteSet(Stored)
  /\ startsAt \in [CaseKeys -> Nat]

(* Beside the queries, the service is the serial one.                      *)
THEOREM QueriesAreOfSpec == QuerySpec => Spec
  <1>1. QueryInit => Init
    BY DEF QueryInit
  <1>2. [QueryNext]_<<db, startsAt, published>> => [Next]_db
    BY DEF QueryNext, Next
  <1> QED
    BY <1>1, <1>2, PTL DEF QuerySpec, Spec

LEMMA StoredStaysFinite ==
  ASSUME DbInv, IsFiniteSet(Stored), QueryNext
  PROVE  IsFiniteSet(Stored')
  <1>1. PICK key \in CaseKeys :
          \E s : db' = [db EXCEPT ![key] = s]
    BY DEF QueryNext, CreateCase, ExecuteCommand
  <1>2. Stored' \subseteq Stored \cup {key}
    BY <1>1 DEF Stored, DbInv, TypeOK
  <1>3. IsFiniteSet(Stored \cup {key})
    BY FS_AddElement
  <1> QED
    BY <1>2, <1>3, FS_Subset

LEMMA QueryInvariance == QuerySpec => []QueryInv
  <1> DEFINE Rest == IsFiniteSet(Stored) /\ startsAt \in [CaseKeys -> Nat]
  <1>1. QueryInit => Rest
    <2> SUFFICES ASSUME QueryInit PROVE Rest
      OBVIOUS
    <2>1. Stored = {}
      BY DEF QueryInit, Init, Stored
    <2> QED
      BY <2>1, FS_EmptySet, QueriesAssumption DEF QueryInit, QueriesAssumption
  <1>2. DbInv /\ Rest /\ [QueryNext]_<<db, startsAt, published>> => Rest'
    <2> SUFFICES ASSUME DbInv, Rest, [QueryNext]_<<db, startsAt, published>>
                 PROVE  Rest'
      OBVIOUS
    <2>1. CASE QueryNext
      BY <2>1, StoredStaysFinite DEF QueryNext
    <2>2. CASE UNCHANGED <<db, startsAt, published>>
      BY <2>2 DEF Stored
    <2> QED
      BY <2>1, <2>2
  <1>3. QuerySpec => []DbInv
    BY QueriesAreOfSpec, Invariance, PTL
  <1> QED
    BY <1>1, <1>2, <1>3, PTL DEF QuerySpec, QueryInv

----------------------------------------------------------------------------
(* Counting.                                                               *)

LEMMA FoundIsFinite ==
  ASSUME NEW c, CaseInv(c), Evaluated(c)
  PROVE  IsFiniteSet(Found(c)) /\ Cardinality(Found(c)) \in Nat
  <1>1. CASE c.status = "draft"
    <2>1. Found(c) = {}
      BY <1>1 DEF CaseInv, PlanBehindFindings
    <2> QED
      BY <2>1, FS_EmptySet
  <1>2. CASE c.status # "draft"
    <2>1. IsFiniteSet(Found(c))
      BY <1>2, QueriesAssumption DEF Evaluated, QueriesAssumption
    <2> QED
      BY <2>1, FS_CardinalityType
  <1> QED
    BY <1>1, <1>2

LEMMA AcceptedCount ==
  ASSUME NEW c, CaseInv(c), Evaluated(c)
  PROVE  LET accepted == Cardinality(WithStatus(c, "accepted"))
             total == Cardinality(Found(c))
         IN  /\ accepted \in Nat /\ total \in Nat /\ accepted <= total
             /\ accepted = total <=> AllAccepted(c)
  <1> DEFINE A == WithStatus(c, "accepted")
             F == Found(c)
  <1>1. A \subseteq F /\ (A = F <=> AllAccepted(c))
    BY DEF WithStatus, AllAccepted
  <1>2. IsFiniteSet(F) /\ Cardinality(F) \in Nat
    BY FoundIsFinite
  <1> HIDE DEF A, F
  <1>3. /\ IsFiniteSet(A) /\ Cardinality(A) <= Cardinality(F)
        /\ Cardinality(F) = Cardinality(A) => F = A
    BY <1>1, <1>2, FS_Subset
  <1>4. Cardinality(A) \in Nat
    BY <1>3, FS_CardinalityType
  <1> QED
    BY <1>1, <1>2, <1>3, <1>4 DEF A, F

(* The numbers of the progress view tell the truth about the status:       *)
(* whoever sees a case in remediation sees work that is left, in review    *)
(* evidence for all of it, and after the release all of it accepted.       *)
THEOREM ProgressViewsTell == QuerySpec => []ProgressTellsStatus
  <1>1. QueryInv => ProgressTellsStatus
    <2> SUFFICES ASSUME QueryInv, NEW key \in Stored
                 PROVE  LET c == db[key].case
                            p == Progress(c)
                        IN  /\ c.status = "draft" => p.total = 0
                            /\ c.status = "remediation" => p.accepted < p.total
                            /\ c.status = "pending_review" =>
                                 p.evidenceSubmitted = p.total /\ p.returned = 0
                            /\ c.status = "released" => p.accepted = p.total
      BY DEF ProgressTellsStatus
    <2> DEFINE c == db[key].case
    <2>1. CaseInv(c) /\ Evaluated(c)
      BY DEF QueryInv, DbInv, SnapshotInv
    <2> HIDE DEF c
    <2>2. /\ Progress(c).total = Cardinality(Found(c))
          /\ Progress(c).evidenceSubmitted = Cardinality(WithEvidence(c))
          /\ Progress(c).accepted = Cardinality(WithStatus(c, "accepted"))
          /\ Progress(c).returned = Cardinality(WithStatus(c, "returned"))
      BY DEF Progress
    <2>3. ASSUME c.status = "draft" PROVE Progress(c).total = 0
      <3>1. Found(c) = {}
        BY <2>1, <2>3 DEF CaseInv, PlanBehindFindings
      <3> QED
        BY <2>2, <3>1, FS_EmptySet
    <2>4. ASSUME c.status = "remediation"
          PROVE  Progress(c).accepted < Progress(c).total
      <3>1. ~ AllAccepted(c)
        BY <2>1, <2>4 DEF CaseInv, WorkIsLeft
      <3> QED
        BY <2>1, <2>2, <3>1, AcceptedCount
    <2>5. ASSUME c.status = "pending_review"
          PROVE  /\ Progress(c).evidenceSubmitted = Progress(c).total
                 /\ Progress(c).returned = 0
      <3>1. \A f \in Found(c) :
              /\ c.findings[f].evidence # None
              /\ c.findings[f].status # "returned"
        BY <2>1, <2>5 DEF CaseInv, Reviewable
      <3>2. WithEvidence(c) = Found(c) /\ WithStatus(c, "returned") = {}
        BY <3>1 DEF WithEvidence, WithStatus
      <3> QED
        BY <2>2, <3>2, FS_EmptySet
    <2>6. ASSUME c.status = "released"
          PROVE  Progress(c).accepted = Progress(c).total
      <3>1. AllAccepted(c)
        BY <2>1, <2>6 DEF CaseInv, CertifiedIfReleased
      <3> QED
        BY <2>1, <2>2, <3>1, AcceptedCount
    <2> QED
      BY <2>3, <2>4, <2>5, <2>6 DEF c
  <1> QED
    BY <1>1, QueryInvariance, PTL

----------------------------------------------------------------------------
(* Sorting.                                                                *)

(* A finite set with a strict total order has a sorted arrangement: every  *)
(* element at the place that the number of smaller ones gives it.          *)
LEMMA SortedArrangement ==
  ASSUME NEW S, IsFiniteSet(S), NEW R,
         \A a \in S : <<a, a>> \notin R,
         \A a, b, c \in S : <<a, b>> \in R /\ <<b, c>> \in R => <<a, c>> \in R,
         \A a, b \in S : a = b \/ <<a, b>> \in R \/ <<b, a>> \in R
  PROVE  \E q \in Injection(1 .. Cardinality(S), S) :
           \A i, j \in DOMAIN q : i < j => <<q[i], q[j]>> \in R
  <1> DEFINE n == Cardinality(S)
             Below(x) == {y \in S : <<y, x>> \in R}
             rank == [x \in S |-> Cardinality(Below(x)) + 1]
             place == [i \in 1 .. n |-> CHOOSE x \in S : rank[x] = i]
  <1>1. n \in Nat
    BY FS_CardinalityType
  <1>2. \A x \in S : IsFiniteSet(Below(x)) /\ Cardinality(Below(x)) \in Nat
    <2> TAKE x \in S
    <2>1. Below(x) \in SUBSET S
      OBVIOUS
    <2> HIDE DEF Below
    <2>2. IsFiniteSet(Below(x))
      BY <2>1, FS_Subset
    <2> QED
      BY <2>2, FS_CardinalityType
  <1>3. ASSUME NEW x \in S PROVE rank[x] \in 1 .. n
    <2>1. IsFiniteSet(S \ {x}) /\ Cardinality(S \ {x}) = n - 1
      BY FS_RemoveElement
    <2>2. Below(x) \in SUBSET (S \ {x})
      OBVIOUS
    <2> HIDE DEF Below, n
    <2>3. Cardinality(Below(x)) <= n - 1
      BY <2>1, <2>2, FS_Subset
    <2>4. Cardinality(Below(x)) \in Nat
      BY <1>2
    <2>5. Cardinality(Below(x)) + 1 \in 1 .. n
      BY <1>1, <2>3, <2>4
    <2> QED
      BY <2>5
  <1>4. ASSUME NEW x \in S, NEW y \in S, <<x, y>> \in R
        PROVE  rank[x] < rank[y]
    <2>1. Below(x) \in SUBSET Below(y) /\ x \in Below(y) /\ x \notin Below(x)
      BY <1>4
    <2> HIDE DEF Below
    <2>2. /\ Cardinality(Below(x)) <= Cardinality(Below(y))
          /\ Cardinality(Below(x)) # Cardinality(Below(y))
      BY <1>2, <2>1, FS_Subset
    <2>3. Cardinality(Below(x)) \in Nat /\ Cardinality(Below(y)) \in Nat
      BY <1>2
    <2> QED
      BY <2>2, <2>3
  <1> HIDE DEF rank, n
  <1>5. rank \in [S -> 1 .. n]
    BY <1>3 DEF rank
  <1>6. \A x, y \in S : rank[x] = rank[y] => x = y
    <2> SUFFICES ASSUME NEW x \in S, NEW y \in S, rank[x] = rank[y], x # y
                 PROVE  FALSE
      OBVIOUS
    <2>1. rank[x] < rank[y] \/ rank[y] < rank[x]
      BY <1>4
    <2> QED
      BY <1>1, <1>3, <2>1
  <1>7. rank \in Injection(S, 1 .. n)
    BY <1>5, <1>6 DEF Injection, IsInjective
  <1>8. IsFiniteSet(1 .. n) /\ Cardinality(1 .. n) = n
    BY <1>1, FS_Interval
  <1>9. rank \in Surjection(S, 1 .. n)
    BY <1>7, <1>8, FS_Injection DEF n
  <1>10. \A i \in 1 .. n : \E x \in S : rank[x] = i
    BY <1>9 DEF Surjection
  <1>11. \A i \in 1 .. n : place[i] \in S /\ rank[place[i]] = i
    BY <1>10
  <1>12. place \in [1 .. n -> S] /\ DOMAIN place = 1 .. n
    BY <1>11
  <1> HIDE DEF place
  <1>13. place \in Injection(1 .. n, S)
    BY <1>11, <1>12 DEF Injection, IsInjective
  <1>14. ASSUME NEW i \in 1 .. n, NEW j \in 1 .. n, i < j
         PROVE  <<place[i], place[j]>> \in R
    <2>1. place[i] # place[j]
      BY <1>1, <1>11, <1>14
    <2>2. <<place[j], place[i]>> \notin R
      <3> SUFFICES ASSUME <<place[j], place[i]>> \in R PROVE FALSE
        OBVIOUS
      <3>1. rank[place[j]] < rank[place[i]]
        BY <1>4, <1>11
      <3> QED
        BY <1>1, <1>11, <1>14, <3>1
    <2> QED
      BY <1>11, <2>1, <2>2
  <1> QED
    BY <1>12, <1>13, <1>14 DEF n

QueueItems == {QueueItem(key) : key \in Waiting}

LEMMA QueueItemFields ==
  ASSUME NEW key
  PROVE  LET a == QueueItem(key)
         IN  /\ a.case = key /\ a.startsAt = startsAt[key]
             /\ a.findingCount = Cardinality(Found(db[key].case))
             /\ a.acceptedCount =
                  Cardinality(WithStatus(db[key].case, "accepted"))
  BY DEF QueueItem

LEMMA QueueItemsAreFinite ==
  ASSUME QueryInv
  PROVE  IsFiniteSet(QueueItems)
  <1> DEFINE item == [key \in Waiting |-> QueueItem(key)]
  <1>1. IsFiniteSet(Waiting)
    <2>1. Waiting \in SUBSET Stored
      BY DEF Waiting
    <2> QED
      BY <2>1, FS_Subset DEF QueryInv
  <1>2. item \in Surjection(Waiting, QueueItems)
    BY DEF Surjection, QueueItems
  <1> QED
    BY <1>1, <1>2, FS_Surjection

(* The ids settle what the dates leave open.                               *)
LEMMA QueueIsOrdered ==
  ASSUME QueryInv
  PROVE  /\ \A a \in QueueItems : ~ QueuedBefore(a, a)
         /\ \A a, b, c \in QueueItems :
              QueuedBefore(a, b) /\ QueuedBefore(b, c) => QueuedBefore(a, c)
         /\ \A a, b \in QueueItems :
              a = b \/ QueuedBefore(a, b) \/ QueuedBefore(b, a)
  <1>1. ASSUME NEW a \in QueueItems
        PROVE  /\ a.case \in CaseKeys /\ a = QueueItem(a.case)
               /\ a.startsAt \in Nat /\ CaseRank[a.case] \in Nat
    <2>1. PICK key \in Waiting : a = QueueItem(key)
      BY DEF QueueItems
    <2>2. key \in CaseKeys
      BY DEF Waiting, Stored
    <2> QED
      BY <2>1, <2>2, QueueItemFields, QueriesAssumption
      DEF QueryInv, QueriesAssumption
  <1>2. \A a \in QueueItems : ~ QueuedBefore(a, a)
    BY <1>1 DEF QueuedBefore
  <1>3. \A a, b, c \in QueueItems :
          QueuedBefore(a, b) /\ QueuedBefore(b, c) => QueuedBefore(a, c)
    BY <1>1 DEF QueuedBefore
  <1>4. ASSUME NEW a \in QueueItems, NEW b \in QueueItems
        PROVE  a = b \/ QueuedBefore(a, b) \/ QueuedBefore(b, a)
    <2>1. CaseRank[a.case] = CaseRank[b.case] => a.case = b.case
      BY <1>1, QueriesAssumption DEF QueriesAssumption
    <2>2. a.case = b.case => a = b
      BY <1>1
    <2> QED
      BY <1>1, <2>1, <2>2 DEF QueuedBefore
  <1> QED
    BY <1>2, <1>3, <1>4

(* The queue holds every waiting case, in order.                           *)
LEMMA QueueFacts ==
  ASSUME QueryInv
  PROVE  /\ ReviewQueue \in [1 .. Cardinality(QueueItems) -> QueueItems]
         /\ \A a \in QueueItems : \E i \in DOMAIN ReviewQueue : ReviewQueue[i] = a
         /\ \A i, j \in DOMAIN ReviewQueue :
              i < j => QueuedBefore(ReviewQueue[i], ReviewQueue[j])
  <1> DEFINE S == QueueItems
             n == Cardinality(S)
             R == {p \in S \X S : QueuedBefore(p[1], p[2])}
             Sorted(q) == \A i, j \in DOMAIN q : i < j => QueuedBefore(q[i], q[j])
  <1>1. IsFiniteSet(S) /\ n \in Nat
    BY QueueItemsAreFinite, FS_CardinalityType
  <1>2. \A a, b \in S : <<a, b>> \in R <=> QueuedBefore(a, b)
    OBVIOUS
  <1>3. /\ \A a \in S : <<a, a>> \notin R
        /\ \A a, b, c \in S : <<a, b>> \in R /\ <<b, c>> \in R => <<a, c>> \in R
        /\ \A a, b \in S : a = b \/ <<a, b>> \in R \/ <<b, a>> \in R
    <2> HIDE DEF R, S
    <2>1. /\ \A a \in S : ~ QueuedBefore(a, a)
          /\ \A a, b, c \in S :
               QueuedBefore(a, b) /\ QueuedBefore(b, c) => QueuedBefore(a, c)
          /\ \A a, b \in S : a = b \/ QueuedBefore(a, b) \/ QueuedBefore(b, a)
      BY QueueIsOrdered DEF S
    <2> QED
      BY <1>2, <2>1
  <1> HIDE DEF R, S
  <1>4. PICK q \in Injection(1 .. n, S) :
          \A i, j \in DOMAIN q : i < j => <<q[i], q[j]>> \in R
    BY <1>1, <1>3, SortedArrangement
  <1>5. Sorted(q)
    <2>1. \A i \in DOMAIN q : q[i] \in S
      BY DEF Injection
    <2> QED
      BY <1>2, <1>4, <2>1
  <1>6. ReviewQueue = CHOOSE p \in Injection(1 .. n, S) : Sorted(p)
    BY Zenon DEF ReviewQueue, QueueItems, S
  <1> HIDE DEF Sorted
  <1>7. ReviewQueue \in Injection(1 .. n, S) /\ Sorted(ReviewQueue)
    BY <1>5, <1>6
  <1>8. IsFiniteSet(1 .. n) /\ Cardinality(1 .. n) = n
    BY <1>1, FS_Interval
  <1>9. ReviewQueue \in Surjection(1 .. n, S)
    <2> HIDE DEF n
    <2>1. Cardinality(1 .. n) = Cardinality(S)
      BY <1>8 DEF n
    <2> QED
      BY <1>1, <1>7, <2>1, FS_Injection
  <1>10. ReviewQueue \in [1 .. n -> S]
    BY <1>7 DEF Injection
  <1>11. \A a \in S : \E i \in DOMAIN ReviewQueue : ReviewQueue[i] = a
    BY <1>9, <1>10 DEF Surjection
  <1>12. \A i, j \in DOMAIN ReviewQueue :
           i < j => QueuedBefore(ReviewQueue[i], ReviewQueue[j])
    BY <1>7 DEF Sorted
  <1> QED
    BY <1>10, <1>11, <1>12 DEF S

(* A reviewer can act on exactly the cases that wait for review.           *)
LEMMA ReviewerActs ==
  ASSUME NEW c \in Cases, CaseInv(c)
  PROVE  ReviewerCanAct(c) <=> c.status = "pending_review"
  <1>1. ReviewerCanAct(c) => c.status = "pending_review"
    BY DEF ReviewerCanAct, CanNewCertificate, CanReviewFinding
  <1>2. ASSUME c.status = "pending_review" PROVE ReviewerCanAct(c)
    <2>1. CASE AllAccepted(c)
      BY <1>2, <2>1 DEF ReviewerCanAct, CanNewCertificate
    <2>2. CASE ~ AllAccepted(c)
      <3>1. PICK f \in Found(c) : c.findings[f].status # "accepted"
        BY <2>2 DEF AllAccepted
      <3>2. f \in Findings /\ c.findings[f].evidence # None
        BY <1>2 DEF CaseInv, Reviewable, Found
      <3>3. "accepted" \in Verdicts /\ CanReviewFinding(c, f, "accepted", TRUE)
        BY <1>2, <3>1, <3>2 DEF Verdicts, CanReviewFinding
      <3> QED
        BY <3>2, <3>3 DEF ReviewerCanAct
    <2> QED
      BY <2>1, <2>2
  <1> QED
    BY <1>1, <1>2

(* The queue is the reviewer's work and nothing else: each waiting case is *)
(* in it, once, the next performance first, and its counts say whether to  *)
(* judge or to sign (queries.go:30-43, views.go:89-111).                   *)
THEOREM QueueIsReviewersWork == QuerySpec => []QueueIsWork
  <1>1. QueryInv => QueueIsWork
    <2> SUFFICES ASSUME QueryInv PROVE QueueIsWork
      OBVIOUS
    <2> DEFINE queue == ReviewQueue
    <2>1. /\ \A i \in DOMAIN queue : queue[i] \in QueueItems
          /\ \A a \in QueueItems : \E i \in DOMAIN queue : queue[i] = a
          /\ \A i, j \in DOMAIN queue :
               i < j => QueuedBefore(queue[i], queue[j])
      BY QueueFacts
    <2>2. \A key \in Stored :
            /\ db[key].case \in Cases /\ CaseInv(db[key].case)
            /\ Evaluated(db[key].case)
      BY DEF QueryInv, DbInv, SnapshotInv, Snapshots
    <2> HIDE DEF queue
    <2>3. ASSUME NEW key \in Stored
          PROVE  ReviewerCanAct(db[key].case) <=>
                   \E i \in DOMAIN queue : queue[i].case = key
      <3>1. ReviewerCanAct(db[key].case) <=> key \in Waiting
        BY <2>2, ReviewerActs DEF Waiting
      <3>2. ASSUME key \in Waiting
            PROVE  \E i \in DOMAIN queue : queue[i].case = key
        <4>1. QueueItem(key) \in QueueItems /\ QueueItem(key).case = key
          BY <3>2, QueueItemFields DEF QueueItems
        <4> QED
          BY <2>1, <4>1
      <3>3. ASSUME NEW i \in DOMAIN queue, queue[i].case = key
            PROVE  key \in Waiting
        <4>1. PICK k \in Waiting : queue[i] = QueueItem(k)
          BY <2>1 DEF QueueItems
        <4> QED
          BY <3>3, <4>1, QueueItemFields
      <3> QED
        BY <3>1, <3>2, <3>3
    <2>4. ASSUME NEW i \in DOMAIN queue
          PROVE  CanNewCertificate(db[queue[i].case].case) <=>
                   queue[i].acceptedCount = queue[i].findingCount
      <3>1. PICK key \in Waiting : queue[i] = QueueItem(key)
        BY <2>1 DEF QueueItems
      <3> DEFINE c == db[key].case
      <3>2. key \in Stored /\ c.status = "pending_review"
        BY DEF Waiting
      <3>3. CaseInv(c) /\ Evaluated(c)
        BY <2>2, <3>2
      <3>4. /\ queue[i].case = key
            /\ queue[i].findingCount = Cardinality(Found(c))
            /\ queue[i].acceptedCount = Cardinality(WithStatus(c, "accepted"))
        BY <3>1, QueueItemFields
      <3>5. CanNewCertificate(c) <=> AllAccepted(c)
        BY <3>2 DEF CanNewCertificate
      <3> HIDE DEF c
      <3>6. queue[i].acceptedCount = queue[i].findingCount <=> AllAccepted(c)
        BY <3>3, <3>4, AcceptedCount
      <3> QED
        BY <3>4, <3>5, <3>6 DEF c
    <2> QED
      BY <2>1, <2>3, <2>4 DEF QueueIsWork, queue
  <1> QED
    BY <1>1, QueryInvariance, PTL

----------------------------------------------------------------------------
(* Certificates, if every signer's name is JSON text already.              *)

(* A certificate a command makes verifies.                                 *)
LEMMA ResultsVerify ==
  ASSUME NEW c \in Cases, NEW r \in Requests, NEW d \in Results(c, r),
         c.certificate = NoCertificate, HasCertificate(d)
  PROVE  VerifyCertificate(d.certificate)
  <1>1. \A f \in Findings : c.findings[f].evidence \in Contents \cup {None}
    BY DEF Cases, FindingRecords
  <1>2. Backed(c, Contents)
    BY <1>1 DEF Backed, HasCertificate
  <1>3. CASE \E plan \in Plans : d \in ReplacePlanResults(c, r, plan)
    BY <1>2, <1>3, ReplacePlanBacked DEF Backed
  <1>4. CASE d \in EvaluateResults(c, r)
    BY <1>2, <1>4, EvaluateBacked DEF Backed
  <1>5. CASE \E f \in Findings, content \in Contents, note \in BOOLEAN :
               d \in EvidenceResults(c, r, f, content, note)
    BY <1>2, <1>5, EvidenceBacked DEF Backed
  <1>6. CASE d \in RequestReviewResults(c, r)
    BY <1>2, <1>6, RequestReviewBacked DEF Backed
  <1>7. CASE \E f \in Findings, verdict \in Verdicts, note \in BOOLEAN,
                who \in Names :
               d \in ReviewFindingResults(c, r, f, verdict, note, who)
    BY <1>2, <1>7, ReviewFindingBacked DEF Backed
  <1>8. CASE \E who \in Names : d \in SignResults(c, r, who)
    BY <1>2, <1>8, SignBacked DEF Backed
  <1> QED
    BY <1>3, <1>4, <1>5, <1>6, <1>7, <1>8 DEF Results

LEMMA CloneKeepsCertificate ==
  ASSUME NEW c \in Cases, \A n \in Names : JsonText[n] = n
  PROVE  CloneCase(c).certificate = c.certificate
  <1>1. c.certificate \in Certificates
    BY DEF Cases
  <1>2. CloneCase(c).certificate =
          [c.certificate EXCEPT !.signer = NameAfterJson(@)]
    BY CloneCaseFields
  <1>3. NameAfterJson(c.certificate.signer) = c.certificate.signer
    BY <1>1 DEF Certificates, NameAfterJson
  <1> QED
    BY <1>1, <1>2, <1>3 DEF Certificates

(* A certificate that is handed out is the one that is stored.             *)
LEMMA HandedOutIsStored ==
  ASSUME \A n \in Names : JsonText[n] = n,
         DbInv, NEW key \in CaseKeys, NEW r \in Requests,
         ExecuteCommand(key, r), NEW p \in HandedOut(key, r)
  PROVE  /\ p.case \in Stored'
         /\ db'[p.case].case.status = "released"
         /\ db'[p.case].case.certificate = p.certificate
         /\ VerifyCertificate(p.certificate)
  <1>1. PICK d \in Results(db[key].case, r) :
          /\ HasCertificate(d) /\ db'[key] = Saved(db[key].audit, d)
          /\ p = [case |-> key, certificate |-> d.certificate]
    BY DEF HandedOut
  <1>2. SnapshotInv(db[key]) /\ db[key].case \in Cases
    BY DEF DbInv, Stored, ExecuteCommand, SnapshotInv, Snapshots
  <1>3. Applied(db[key].case, d, r)
    BY <1>1, <1>2, ResultsApplied DEF SnapshotInv
  <1>4. d \in Cases /\ d.status = "released"
    BY <1>1, <1>3 DEF Applied, HasCertificate, CaseInv, CertifiedIfReleased
  <1>5. db'[key].case = CloneCase(d)
    BY <1>1 DEF Saved
  <1>6. /\ db'[key].case.status = "released"
        /\ db'[key].case.certificate = d.certificate
    BY <1>4, <1>5, CloneCaseFields, CloneKeepsCertificate
  <1>7. db[key].case.certificate = NoCertificate
    BY <1>2, <1>3 DEF Applied, SnapshotInv, CaseInv, CertifiedIfReleased
  <1>8. VerifyCertificate(d.certificate)
    BY <1>1, <1>2, <1>7, ResultsVerify
  <1>9. key \in Stored'
    <2>1. DbInv'
      BY ExecuteCommandInv
    <2>2. PICK e \in Results(db[key].case, r) :
            db' = [db EXCEPT ![key] = Saved(db[key].audit, e)]
      BY DEF ExecuteCommand
    <2>3. Applied(db[key].case, e, r)
      BY <1>2, <2>2, ResultsApplied DEF SnapshotInv
    <2>4. Saved(db[key].audit, e) \in Snapshots
      BY <1>2, <2>3, SavedSnapshot DEF ExecuteCommand, Prepared, SnapshotInv
    <2>5. db'[key] # None
      BY <2>2, <2>4, CommandsAssumption DEF DbInv, TypeOK, CommandsAssumption
    <2> QED
      BY <2>5 DEF Stored
  <1> QED
    BY <1>1, <1>6, <1>8, <1>9

(* What was handed out before is of another case: this one was not         *)
(* released yet.                                                           *)
LEMMA PublishedStays ==
  ASSUME DbInv, PublishedInv, NEW key \in CaseKeys, NEW p \in published,
         CreateCase(key) \/ \E r \in Requests : ExecuteCommand(key, r)
  PROVE  /\ p.case \in Stored'
         /\ db'[p.case].case.status = "released"
         /\ db'[p.case].case.certificate = p.certificate
         /\ VerifyCertificate(p.certificate)
  <1>1. /\ p.case \in Stored /\ db[p.case].case.status = "released"
        /\ db[p.case].case.certificate = p.certificate
        /\ VerifyCertificate(p.certificate)
    BY DEF PublishedInv
  <1>2. p.case # key
    <2>1. CASE CreateCase(key)
      BY <1>1, <2>1 DEF CreateCase, Stored
    <2>2. ASSUME NEW r \in Requests, ExecuteCommand(key, r) PROVE p.case # key
      <3>1. PICK d \in Results(db[key].case, r) : TRUE
        BY <2>2 DEF ExecuteCommand
      <3>2. SnapshotInv(db[key]) /\ db[key].case \in Cases
        BY <2>2 DEF DbInv, Stored, ExecuteCommand, SnapshotInv, Snapshots
      <3>3. Applied(db[key].case, d, r)
        BY <3>1, <3>2, ResultsApplied DEF SnapshotInv
      <3> QED
        BY <1>1, <3>3 DEF Applied
    <2> QED
      BY <2>1, <2>2
  <1>3. db'[p.case] = db[p.case]
    BY <1>1, <1>2 DEF CreateCase, ExecuteCommand, Stored, DbInv, TypeOK
  <1> QED
    BY <1>1, <1>3 DEF Stored

LEMMA PublishedInvariance ==
  ASSUME \A n \in Names : JsonText[n] = n
  PROVE  QuerySpec => []PublishedInv
  <1>1. QueryInit => PublishedInv
    BY DEF QueryInit, PublishedInv
  <1>2. DbInv /\ PublishedInv /\ [QueryNext]_<<db, startsAt, published>>
          => PublishedInv'
    <2> SUFFICES ASSUME DbInv, PublishedInv,
                        [QueryNext]_<<db, startsAt, published>>
                 PROVE  PublishedInv'
      OBVIOUS
    <2>1. ASSUME NEW key \in CaseKeys, CreateCase(key), UNCHANGED published
          PROVE  PublishedInv'
      BY <2>1, PublishedStays DEF PublishedInv
    <2>2. ASSUME NEW key \in CaseKeys, NEW r \in Requests,
                 ExecuteCommand(key, r),
                 published' = published \cup HandedOut(key, r)
          PROVE  PublishedInv'
      <3>1. ASSUME NEW p \in published'
            PROVE  /\ p.case \in Stored'
                   /\ db'[p.case].case.status = "released"
                   /\ db'[p.case].case.certificate = p.certificate
                   /\ VerifyCertificate(p.certificate)
        <4>1. CASE p \in published
          BY <2>2, <4>1, PublishedStays
        <4>2. CASE p \in HandedOut(key, r)
          BY <2>2, <4>2, HandedOutIsStored
        <4> QED
          BY <2>2, <4>1, <4>2
      <3> QED
        BY <3>1 DEF PublishedInv
    <2>3. CASE UNCHANGED <<db, startsAt, published>>
      BY <2>3 DEF PublishedInv, Stored
    <2> QED
      BY <2>1, <2>2, <2>3 DEF QueryNext
  <1>3. QuerySpec => []DbInv
    BY QueriesAreOfSpec, Invariance, PTL
  <1> QED
    BY <1>1, <1>2, <1>3, PTL DEF QuerySpec

(* Whoever was given a certificate finds it again with its number and      *)
(* code, as valid, and finds only that one, whatever other cases share the *)
(* number (queries.go:53-66, store.go:171-186).  Of a signer whose name    *)
(* JSON changes the answer is digest_mismatch: the seal covers the bytes.  *)
THEOREM PublishedCertificatesAreFound ==
  ASSUME \A n \in Names : JsonText[n] = n
  PROVE  QuerySpec => []PublishedStaysValid
  <1>1. QueryInv /\ PublishedInv => PublishedStaysValid
    <2> SUFFICES ASSUME QueryInv, PublishedInv, NEW p \in published
                 PROVE  CertificateAnswers(Lookup(p.case, p.certificate)) =
                          {[result |-> "valid", case |-> p.case,
                            certificate |-> p.certificate]}
      BY DEF PublishedStaysValid
    <2> DEFINE key == p.case
               lookup == Lookup(key, p.certificate)
    <2>1. /\ key \in Stored /\ db[key].case.status = "released"
          /\ db[key].case.certificate = p.certificate
          /\ VerifyCertificate(p.certificate)
      BY DEF PublishedInv
    <2>2. HasCertificate(db[key].case)
      BY <2>1, InvJustified
      DEF QueryInv, DbInv, SnapshotInv, Snapshots, Justified
    <2>3. key \in Matches(lookup)
      BY <2>1, <2>2 DEF Matches
    <2>4. \A k \in Matches(lookup) : k = key
      BY DEF Matches, Lookup
    <2>5. Matches(lookup) = {key}
      BY <2>3, <2>4
    <2> HIDE DEF lookup
    <2>6. CertificateAnswers(lookup) =
            {[result |-> "valid", case |-> key, certificate |-> p.certificate]}
      BY <2>1, <2>5 DEF CertificateAnswers
    <2> QED
      BY <2>6 DEF lookup
  <1> QED
    BY <1>1, QueryInvariance, PublishedInvariance, PTL

----------------------------------------------------------------------------
(* Messages that take effect (HttpProtocol).                               *)

Messages ==
  [op : Ops, key : CaseKeys, who : Names, role : Roles, request : Requests,
   revision : 0 .. MaxRevision, body : UNION {Bodies[op] : op \in Ops}]

(* What stays true of a message that took effect.                          *)
TookEffect(m) ==
  /\ m \in Messages
  /\ m.body \in Bodies[m.op]
  /\ m.role = RoleFor[m.op]
  /\ BodyIsReadable(m.op, m.body) /\ FileIsAcceptable(m.op, m.body)
  /\ Exists(m.key)
  /\ db[m.key].case.requests[m.request].command = m.op

HttpInv ==
  /\ db \in [CaseKeys -> Snapshots \cup {None}]
  /\ \A key \in Stored : SnapshotInv(db[key])
  /\ \A m \in done : TookEffect(m)

----------------------------------------------------------------------------
(* What the commands make of a case.                                       *)

LEMMA RoleForFacts ==
  /\ RoleFor \in [Ops -> Roles]
  /\ Ops \subseteq CommandNames \ {"none"}
  BY DEF RoleFor, Roles, Ops, CommandNames

LEMMA RecordedCommand ==
  ASSUME NEW x, NEW r \in Requests, NEW command,
         RecordRequest(x, r, command) \in Cases
  PROVE  RecordRequest(x, r, command).requests[r].command = command
  <1> DEFINE d == RecordRequest(x, r, command)
  <1>1. d.requests \in [Requests -> IdempotencyRecords]
    BY DEF Cases
  <1>2. DOMAIN d.requests = Requests
    BY <1>1
  <1>3. DOMAIN d = DOMAIN x /\ "requests" \in DOMAIN d
    BY DEF RecordRequest, Cases
  <1>4. d.requests = [x.requests EXCEPT ![r] =
                        [command |-> command, revision |-> x.revision]]
    BY <1>3 DEF RecordRequest
  <1>5. r \in DOMAIN x.requests
    BY <1>2, <1>4
  <1> QED
    BY <1>4, <1>5

LEMMA OneOfResults ==
  ASSUME NEW c, NEW r, NEW d,
         \/ \E plan \in Plans : d \in ReplacePlanResults(c, r, plan)
         \/ d \in EvaluateResults(c, r)
         \/ \E f \in Findings, content \in Contents, note \in BOOLEAN :
              d \in EvidenceResults(c, r, f, content, note)
         \/ d \in RequestReviewResults(c, r)
         \/ \E f \in Findings, verdict \in Verdicts, note \in BOOLEAN,
               who \in Names :
              d \in ReviewFindingResults(c, r, f, verdict, note, who)
         \/ \E who \in Names : d \in SignResults(c, r, who)
  PROVE  d \in Results(c, r)
  <1>1. CASE \E plan \in Plans : d \in ReplacePlanResults(c, r, plan)
    BY <1>1 DEF Results
  <1>2. CASE d \in EvaluateResults(c, r) \/ d \in RequestReviewResults(c, r)
    BY <1>2 DEF Results
  <1>3. CASE \E f \in Findings, content \in Contents, note \in BOOLEAN :
               d \in EvidenceResults(c, r, f, content, note)
    BY <1>3 DEF Results
  <1>4. CASE \E f \in Findings, verdict \in Verdicts, note \in BOOLEAN,
                who \in Names :
               d \in ReviewFindingResults(c, r, f, verdict, note, who)
    BY <1>4 DEF Results
  <1>5. CASE \E who \in Names : d \in SignResults(c, r, who)
    BY <1>5 DEF Results
  <1> QED
    BY <1>1, <1>2, <1>3, <1>4, <1>5

(* A command that is not a creation makes one of the cases some command    *)
(* with its request id makes, and records its own name.                    *)
LEMMA EffectsAreResults ==
  ASSUME NEW m \in Messages, m.body \in Bodies[m.op], m.op # "create_case",
         NEW c \in Effects(m)
  PROVE  /\ c \in Results(db[m.key].case, m.request)
         /\ \E x : c = RecordRequest(x, m.request, m.op)
  <1> DEFINE old == db[m.key].case
             r == m.request
             recorded == \E x : c = RecordRequest(x, r, m.op)
  <1>0. m.op \in Ops /\ m.who \in Names
    BY DEF Messages
  <1>1. CASE m.op = "replace_plan"
    <2>1. m.body \in Plans
      BY <1>1 DEF Bodies
    <2>2. c \in ReplacePlanResults(old, r, m.body)
      BY <1>1 DEF Effects
    <2>3. recorded
      BY <1>1, <2>2 DEF ReplacePlanResults
    <2> HIDE DEF old, r, recorded
    <2>4. c \in Results(old, r)
      BY <1>0, <2>1, <2>2, OneOfResults
    <2> QED
      BY <2>3, <2>4 DEF old, r, recorded
  <1>2. CASE m.op = "evaluate"
    <2>2. c \in EvaluateResults(old, r)
      BY <1>2 DEF Effects
    <2>3. recorded
      BY <1>2, <2>2 DEF EvaluateResults
    <2> HIDE DEF old, r, recorded
    <2>4. c \in Results(old, r)
      BY <1>0, <2>2, OneOfResults
    <2> QED
      BY <2>3, <2>4 DEF old, r, recorded
  <1>3. CASE m.op = "submit_evidence"
    <2>1. /\ m.body.finding \in Findings /\ m.body.content \in Contents
          /\ m.body.note \in BOOLEAN
      BY <1>3 DEF Bodies
    <2>2. c \in EvidenceResults(old, r, m.body.finding, m.body.content,
                                m.body.note)
      BY <1>3 DEF Effects
    <2>3. recorded
      BY <1>3, <2>2 DEF EvidenceResults
    <2> HIDE DEF old, r, recorded
    <2>4. c \in Results(old, r)
      BY <1>0, <2>1, <2>2, OneOfResults
    <2> QED
      BY <2>3, <2>4 DEF old, r, recorded
  <1>4. CASE m.op = "request_review"
    <2>2. c \in RequestReviewResults(old, r)
      BY <1>4 DEF Effects
    <2>3. recorded
      BY <1>4, <2>2 DEF RequestReviewResults
    <2> HIDE DEF old, r, recorded
    <2>4. c \in Results(old, r)
      BY <1>0, <2>2, OneOfResults
    <2> QED
      BY <2>3, <2>4 DEF old, r, recorded
  <1>5. CASE m.op = "review_finding"
    <2>1. /\ m.body.finding \in Findings /\ m.body.verdict \in Verdicts
          /\ m.body.note \in BOOLEAN
      BY <1>5 DEF Bodies
    <2>2. c \in ReviewFindingResults(old, r, m.body.finding, m.body.verdict,
                                     m.body.note, m.who)
      BY <1>5 DEF Effects
    <2>3. recorded
      BY <1>5, <2>2 DEF ReviewFindingResults
    <2> HIDE DEF old, r, recorded
    <2>4. c \in Results(old, r)
      BY <1>0, <2>1, <2>2, OneOfResults
    <2> QED
      BY <2>3, <2>4 DEF old, r, recorded
  <1>6. CASE m.op = "sign"
    <2>2. c \in SignResults(old, r, m.who)
      BY <1>6 DEF Effects
    <2>3. recorded
      BY <1>6, <2>2 DEF SignResults
    <2> HIDE DEF old, r, recorded
    <2>4. c \in Results(old, r)
      BY <1>0, <2>2, OneOfResults
    <2> QED
      BY <2>3, <2>4 DEF old, r, recorded
  <1> QED
    BY <1>0, <1>1, <1>2, <1>3, <1>4, <1>5, <1>6 DEF Ops, RoleFor

----------------------------------------------------------------------------
(* One message that takes effect.                                          *)

LEMMA PassingFacts ==
  ASSUME NEW op \in Ops, NEW key \in CaseKeys, NEW m \in Passing(op, key)
  PROVE  /\ m \in Messages /\ m.op = op /\ m.key = key
         /\ m.body \in Bodies[op]
         /\ m.role = RoleFor[op]
         /\ BodyIsReadable(op, m.body) /\ FileIsAcceptable(op, m.body)
         /\ ~ IdIsTaken(op, key, m.request) /\ ~ IsPrior(op, key, m.request)
         /\ op = "create_case" => key = <<m.who, m.request>>
         /\ op # "create_case" => Exists(key)
  BY DEF Passing, Messages, RoleIsAllowed

LEMMA EffectIsApplied ==
  ASSUME HttpInv, NEW op \in Ops, NEW key \in CaseKeys,
         NEW m \in Passing(op, key), op # "create_case", NEW c \in Effects(m)
  PROVE  /\ c \in Results(db[key].case, m.request)
         /\ IsNewRequest(db[key].case, m.request)
         /\ Applied(db[key].case, c, m.request)
         /\ SnapshotInv(Saved(db[key].audit, c))
         /\ Continues(db[key], Saved(db[key].audit, c))
         /\ Saved(db[key].audit, c).case.requests[m.request].command = op
  <1> DEFINE r == m.request
  <1>1. /\ m \in Messages /\ m.op = op /\ m.key = key
        /\ m.body \in Bodies[op] /\ Exists(key)
        /\ ~ IdIsTaken(op, key, r) /\ ~ IsPrior(op, key, r)
    BY PassingFacts
  <1>2. r \in Requests
    BY <1>1 DEF Messages
  <1>3. /\ c \in Results(db[key].case, r)
        /\ \E x : c = RecordRequest(x, r, op)
    BY <1>1, EffectsAreResults
  <1>4. IsNewRequest(db[key].case, r)
    BY <1>1 DEF IdIsTaken, IsPrior, IsNewRequest
  <1>5. SnapshotInv(db[key]) /\ db[key].case \in Cases
    BY <1>1 DEF HttpInv, Stored, Exists, SnapshotInv, Snapshots
  <1>6. Applied(db[key].case, c, r)
    BY <1>2, <1>3, <1>5, ResultsApplied DEF SnapshotInv
  <1>7. /\ SnapshotInv(Saved(db[key].audit, c))
        /\ Continues(db[key], Saved(db[key].audit, c))
    BY <1>2, <1>4, <1>5, <1>6, SavedSnapshot
  <1>8. c \in Cases
    BY <1>6 DEF Applied
  <1>9. c.requests[r].command = op
    BY <1>2, <1>3, <1>8, RecordedCommand
  <1>10. Saved(db[key].audit, c).case.requests = c.requests
    BY <1>8, CloneCaseFields DEF Saved
  <1> QED
    BY <1>3, <1>4, <1>6, <1>7, <1>9, <1>10

(* A creation names the case after its request, so the id is new with it.  *)
LEMMA CreationRecords ==
  ASSUME NEW key \in CaseKeys
  PROVE  /\ SnapshotInv(Saved(<<>>, CreatedCase(key)))
         /\ Saved(<<>>, CreatedCase(key)).case.requests[key[2]].command =
              "create_case"
  <1> DEFINE c == CreatedCase(key)
  <1>1. SnapshotInv(Saved(<<>>, c))
    BY CreatedSnapshot
  <1>2. key[2] \in Requests
    BY CommandsAssumption DEF CommandsAssumption
  <1>3. c \in Cases
    BY CreatedCaseFields
  <1>4. c.requests = [[r \in Requests |-> NotProcessed] EXCEPT ![key[2]] =
                        [command |-> "create_case", revision |-> 1]]
    BY CreatedCaseFields
  <1>5. Saved(<<>>, c).case.requests = c.requests
    BY <1>3, CloneCaseFields DEF Saved
  <1> HIDE DEF c
  <1>6. c.requests[key[2]].command = "create_case"
    BY <1>2, <1>4
  <1> QED
    BY <1>1, <1>5, <1>6 DEF c

(* What a message makes of its case: sound, a continuation of what was     *)
(* there, and with the request recorded.                                   *)
LEMMA HandledSnapshot ==
  ASSUME HttpInv, NEW op \in Ops, NEW key \in CaseKeys,
         NEW m \in Passing(op, key), Handle(m)
  PROVE  \E s \in Snapshots :
           /\ db' = [db EXCEPT ![key] = s]
           /\ SnapshotInv(s)
           /\ Exists(key) => Continues(db[key], s)
           /\ s.case.requests[m.request].command = op
  <1>1. /\ m \in Messages /\ m.op = op /\ m.key = key
        /\ op = "create_case" => key = <<m.who, m.request>>
        /\ op # "create_case" => Exists(key)
    BY PassingFacts
  <1>2. PICK c \in Effects(m) :
          db' = [db EXCEPT ![key] =
                   Saved(IF Exists(key) THEN db[key].audit ELSE <<>>, c)]
    BY <1>1 DEF Handle
  <1>3. CASE op = "create_case"
    <2>1. ~ Exists(key) /\ c = CreatedCase(key)
      BY <1>1, <1>2, <1>3 DEF Effects
    <2>2. db' = [db EXCEPT ![key] = Saved(<<>>, CreatedCase(key))]
      BY <1>2, <2>1
    <2>3. key[2] = m.request
      BY <1>1, <1>3
    <2> QED
      BY <1>3, <2>1, <2>2, <2>3, CreationRecords DEF SnapshotInv
  <1>4. CASE op # "create_case"
    <2>1. db' = [db EXCEPT ![key] = Saved(db[key].audit, c)]
      BY <1>1, <1>2, <1>4
    <2>2. /\ SnapshotInv(Saved(db[key].audit, c))
          /\ Continues(db[key], Saved(db[key].audit, c))
          /\ Saved(db[key].audit, c).case.requests[m.request].command = op
      BY <1>2, <1>4, EffectIsApplied
    <2>3. Saved(db[key].audit, c) \in Snapshots
      BY <2>2 DEF SnapshotInv
    <2> QED
      BY <2>1, <2>2, <2>3
  <1> QED
    BY <1>3, <1>4

LEMMA RequestsStay ==
  ASSUME NEW s, NEW t, Continues(s, t), NEW r \in Requests,
         s.case.requests[r].command # "none"
  PROVE  t.case.requests[r].command = s.case.requests[r].command
  BY DEF Continues, Processed

LEMMA HandleInv ==
  ASSUME HttpInv, NEW op \in Ops, NEW key \in CaseKeys,
         NEW m \in Passing(op, key), Handle(m)
  PROVE  HttpInv'
  <1>1. PICK s \in Snapshots :
          /\ db' = [db EXCEPT ![key] = s]
          /\ SnapshotInv(s)
          /\ Exists(key) => Continues(db[key], s)
          /\ s.case.requests[m.request].command = op
    BY HandledSnapshot
  <1>2. db \in [CaseKeys -> Snapshots \cup {None}] /\ s # None
    BY CommandsAssumption DEF HttpInv, CommandsAssumption
  <1>3. /\ db' \in [CaseKeys -> Snapshots \cup {None}]
        /\ db'[key] = s
        /\ \A k \in CaseKeys \ {key} : db'[k] = db[k]
    BY <1>1, <1>2
  <1>4. \A k \in Stored' : SnapshotInv(db'[k])
    BY <1>1, <1>3 DEF HttpInv, Stored
  <1>5. ASSUME NEW n \in done PROVE TookEffect(n)'
    <2>1. /\ TookEffect(n) /\ n.key \in CaseKeys /\ n.request \in Requests
          /\ n.op \in CommandNames \ {"none"}
      BY RoleForFacts DEF HttpInv, TookEffect, Messages
    <2>2. /\ Exists(n.key)'
          /\ db'[n.key].case.requests[n.request].command = n.op
      <3>1. CASE n.key = key
        BY <1>1, <1>2, <1>3, <2>1, <3>1, RequestsStay DEF TookEffect, Exists
      <3>2. CASE n.key # key
        BY <1>3, <2>1, <3>2 DEF TookEffect, Exists
      <3> QED
        BY <3>1, <3>2
    <2> QED
      BY <2>1, <2>2 DEF TookEffect
  <1>6. TookEffect(m)'
    <2>1. /\ m \in Messages /\ m.op = op /\ m.key = key
          /\ m.body \in Bodies[op] /\ m.role = RoleFor[op]
          /\ BodyIsReadable(op, m.body) /\ FileIsAcceptable(op, m.body)
      BY PassingFacts
    <2> QED
      BY <1>1, <1>2, <1>3, <2>1 DEF TookEffect, Exists
  <1>7. done' = done \cup {m}
    BY DEF Handle
  <1> QED
    BY <1>3, <1>4, <1>5, <1>6, <1>7 DEF HttpInv

LEMMA HttpInvariance == HttpSpec => []HttpInv
  <1>1. HttpInit => HttpInv
    BY DEF HttpInit, Init, HttpInv, Stored
  <1>2. HttpInv /\ [HttpNext]_<<db, done>> => HttpInv'
    <2> SUFFICES ASSUME HttpInv, [HttpNext]_<<db, done>> PROVE HttpInv'
      OBVIOUS
    <2>1. CASE HttpNext
      <3>1. PICK op \in Ops, key \in CaseKeys :
              \E m \in Passing(op, key) : Handle(m)
        BY <2>1 DEF HttpNext
      <3> QED
        BY <3>1, HandleInv
    <2>2. CASE UNCHANGED <<db, done>>
      BY <2>2 DEF HttpInv, Stored, TookEffect, Exists
    <2> QED
      BY <2>1, <2>2
  <1> QED
    BY <1>1, <1>2, PTL DEF HttpSpec

----------------------------------------------------------------------------
(* Answers.                                                                *)

LEMMA StageChecks ==
  ASSUME NEW m
  PROVE  /\ Stages(m)[1].passed <=> m.role \in Roles
         /\ Stages(m)[2].passed <=> BodyIsReadable(m.op, m.body)
         /\ Stages(m)[3].passed <=> FileIsAcceptable(m.op, m.body)
         /\ Stages(m)[4].passed <=> RoleIsAllowed(m.op, m.role)
         /\ Stages(m)[5].passed <=> m.op = "create_case" \/ Exists(m.key)
         /\ Stages(m)[6].passed <=> ~ IdIsTaken(m.op, m.key, m.request)
         /\ Stages(m)[7].passed <=> ~ IsPrior(m.op, m.key, m.request)
  BY DEF Stages

LEMMA StageAnswers ==
  ASSUME NEW m
  PROVE  /\ DOMAIN Stages(m) = 1 .. 8
         /\ Stages(m)[7].answer = "ok"
         /\ \A i \in 1 .. 6 : Stages(m)[i].answer # "ok"
  BY DEF Stages

LEMMA FirstOfStages ==
  ASSUME NEW S, S \subseteq 1 .. 8, S # {}
  PROVE  /\ Min(S) \in S /\ Min(S) \in 1 .. 8
         /\ \A i \in S : Min(S) <= i
  <1>1. \E x \in S : \A y \in S : x <= y
    <2>1. CASE 1 \in S
      BY <2>1
    <2>2. CASE S \subseteq 2 .. 8 /\ 2 \in S
      BY <2>2
    <2>3. CASE S \subseteq 3 .. 8 /\ 3 \in S
      BY <2>3
    <2>4. CASE S \subseteq 4 .. 8 /\ 4 \in S
      BY <2>4
    <2>5. CASE S \subseteq 5 .. 8 /\ 5 \in S
      BY <2>5
    <2>6. CASE S \subseteq 6 .. 8 /\ 6 \in S
      BY <2>6
    <2>7. CASE S \subseteq 7 .. 8 /\ 7 \in S
      BY <2>7
    <2>8. CASE S \subseteq {8}
      <3>1. 8 \in S
        BY <2>8
      <3> QED
        BY <2>8, <3>1
    <2>9. /\ 1 \in S \/ S \subseteq 2 .. 8
          /\ S \subseteq 2 .. 8 => 2 \in S \/ S \subseteq 3 .. 8
          /\ S \subseteq 3 .. 8 => 3 \in S \/ S \subseteq 4 .. 8
          /\ S \subseteq 4 .. 8 => 4 \in S \/ S \subseteq 5 .. 8
          /\ S \subseteq 5 .. 8 => 5 \in S \/ S \subseteq 6 .. 8
          /\ S \subseteq 6 .. 8 => 6 \in S \/ S \subseteq 7 .. 8
          /\ S \subseteq 7 .. 8 => 7 \in S \/ S \subseteq {8}
      OBVIOUS
    <2> QED
      BY <2>1, <2>2, <2>3, <2>4, <2>5, <2>6, <2>7, <2>8, <2>9
  <1>2. Min(S) \in S /\ \A y \in S : Min(S) <= y
    BY <1>1 DEF Min
  <1> QED
    BY <1>2

(* A message that fails one of the first six checks is refused.            *)
LEMMA EarlyRefusal ==
  ASSUME NEW m, NEW i \in 1 .. 6, ~ Stages(m)[i].passed
  PROVE  Answer(m) # "ok"
  <1> DEFINE failed == {j \in DOMAIN Stages(m) : ~ Stages(m)[j].passed}
  <1>1. DOMAIN Stages(m) = 1 .. 8
    BY StageAnswers
  <1>2. failed \subseteq 1 .. 8 /\ i \in failed
    BY <1>1
  <1>3. Answer(m) = Stages(m)[Min(failed)].answer
    BY <1>2 DEF Answer
  <1> HIDE DEF failed
  <1>4. Min(failed) \in 1 .. 8 /\ Min(failed) <= i
    BY <1>2, FirstOfStages
  <1>5. Min(failed) \in 1 .. 6
    BY <1>4
  <1> QED
    BY <1>3, <1>5, StageAnswers

(* One that passes them and repeats a command is answered as done.         *)
LEMMA AnsweredFromTable ==
  ASSUME NEW m, \A i \in 1 .. 6 : Stages(m)[i].passed, ~ Stages(m)[7].passed
  PROVE  Answer(m) = "ok"
  <1> DEFINE failed == {j \in DOMAIN Stages(m) : ~ Stages(m)[j].passed}
  <1>1. DOMAIN Stages(m) = 1 .. 8
    BY StageAnswers
  <1>2. failed \subseteq 1 .. 8 /\ failed \subseteq 7 .. 8 /\ 7 \in failed
    BY <1>1
  <1>3. Answer(m) = Stages(m)[Min(failed)].answer
    BY <1>2 DEF Answer
  <1> HIDE DEF failed
  <1>4. Min(failed) \in 7 .. 8 /\ Min(failed) <= 7
    BY <1>2, FirstOfStages
  <1>5. Min(failed) = 7
    BY <1>4
  <1> QED
    BY <1>3, <1>5, StageAnswers

(* A copy of a message that took effect, with whatever file and form.      *)
LEMMA RepeatIsAnswered ==
  ASSUME NEW m, TookEffect(m), NEW n,
         n.op = m.op, n.key = m.key, n.request = m.request, n.role = m.role,
         BodyIsReadable(n.op, n.body), FileIsAcceptable(n.op, n.body)
  PROVE  Answer(n) = "ok"
  <1>1. /\ m.op \in Ops /\ m.op # "none" /\ m.role = RoleFor[m.op]
        /\ m.role \in Roles /\ m.request \in Requests
        /\ Exists(m.key) /\ db[m.key].case.requests[m.request].command = m.op
    BY RoleForFacts DEF TookEffect, Messages
  <1>2. IsPrior(n.op, n.key, n.request) /\ ~ IdIsTaken(n.op, n.key, n.request)
    BY <1>1 DEF IsPrior, IdIsTaken, Processed
  <1>3. /\ Stages(n)[1].passed /\ Stages(n)[2].passed
        /\ Stages(n)[3].passed /\ Stages(n)[4].passed
        /\ Stages(n)[5].passed /\ Stages(n)[6].passed
    BY <1>1, <1>2, StageChecks DEF RoleIsAllowed
  <1>4. \A i \in 1 .. 6 : Stages(n)[i].passed
    BY <1>3
  <1>5. ~ Stages(n)[7].passed
    BY <1>2, StageChecks
  <1> QED
    BY <1>4, <1>5, AnsweredFromTable

----------------------------------------------------------------------------

(* Whoever repeats a command that took effect is told so, whatever         *)
(* happened to the case since; in another role nobody is, and under        *)
(* another command its request id is refused.                              *)
THEOREM RetriesAreAnswered == HttpSpec => []RetryIsAnswered
  <1>1. HttpInv => RetryIsAnswered
    <2> SUFFICES ASSUME HttpInv, NEW m \in done
                 PROVE  /\ Answer(m) = "ok"
                        /\ \A role \in (Roles \cup {None}) \ {m.role} :
                             Answer([m EXCEPT !.role = role]) # "ok"
                        /\ m.op = "request_review" =>
                             Answer([m EXCEPT !.op = "evaluate",
                                              !.role = "technical_director"])
                               # "ok"
      BY DEF RetryIsAnswered
    <2>1. TookEffect(m)
      BY DEF HttpInv
    <2>2. Answer(m) = "ok"
      BY <2>1, RepeatIsAnswered DEF TookEffect
    <2>3. ASSUME NEW role \in (Roles \cup {None}) \ {m.role}
          PROVE  Answer([m EXCEPT !.role = role]) # "ok"
      <3> DEFINE n == [m EXCEPT !.role = role]
      <3>1. n.op = m.op /\ n.role = role /\ m.role = RoleFor[m.op]
        BY <2>1 DEF TookEffect, Messages
      <3> HIDE DEF n
      <3>2. ~ Stages(n)[4].passed
        BY <2>3, <3>1, StageChecks DEF RoleIsAllowed
      <3>3. Answer(n) # "ok"
        BY <3>2, EarlyRefusal
      <3> QED
        BY <3>3 DEF n
    <2>4. ASSUME m.op = "request_review"
          PROVE  Answer([m EXCEPT !.op = "evaluate",
                                  !.role = "technical_director"]) # "ok"
      <3> DEFINE n == [m EXCEPT !.op = "evaluate",
                                !.role = "technical_director"]
      <3>1. n.op = "evaluate" /\ n.key = m.key /\ n.request = m.request
        BY <2>1 DEF TookEffect, Messages
      <3>2. /\ m.request \in Requests /\ Exists(m.key)
            /\ db[m.key].case.requests[m.request].command = "request_review"
        BY <2>1, <2>4 DEF TookEffect, Messages
      <3> HIDE DEF n
      <3>3. IdIsTaken(n.op, n.key, n.request)
        BY <3>1, <3>2 DEF IdIsTaken, Processed
      <3>4. ~ Stages(n)[6].passed
        BY <3>3, StageChecks
      <3>5. Answer(n) # "ok"
        BY <3>4, EarlyRefusal
      <3> QED
        BY <3>5 DEF n
    <2> QED
      BY <2>2, <2>3, <2>4
  <1> QED
    BY <1>1, HttpInvariance, PTL

(* The limit of a file is exact, and independent of the limit of the form  *)
(* around it as long as that stays within its own.                         *)
THEOREM UploadLimitsAreExact == HttpSpec => []UploadLimitIsExact
  <1>1. HttpInv => UploadLimitIsExact
    <2> SUFFICES ASSUME HttpInv, NEW m \in done, m.op = "submit_evidence",
                        NEW file \in FileSizes, NEW form \in FormSizes
                 PROVE  LET n == [m EXCEPT !.body.file = file,
                                           !.body.form = form]
                        IN  /\ file > MaxEvidenceBytes => Answer(n) # "ok"
                            /\ /\ file \in 1 .. MaxEvidenceBytes
                               /\ form <= MultipartOverhead
                               => Answer(n) = Answer(m)
      BY DEF UploadLimitIsExact, Done
    <2> DEFINE n == [m EXCEPT !.body.file = file, !.body.form = form]
    <2>1. TookEffect(m) /\ m \in Messages
      BY DEF HttpInv, TookEffect
    <2>2. m.body \in Bodies["submit_evidence"]
      BY <2>1 DEF TookEffect
    <2>3. /\ n.op = m.op /\ n.key = m.key /\ n.request = m.request
          /\ n.role = m.role
      BY <2>1 DEF Messages
    <2>4. n.body.file = file /\ n.body.form = form
      BY <2>1, <2>2 DEF Messages, Bodies
    <2>5. file \in Nat /\ form \in Nat
      BY ProtocolAssumption DEF ProtocolAssumption
    <2>6. MaxEvidenceBytes \in Nat /\ MultipartOverhead \in Nat
      BY ProtocolAssumption DEF ProtocolAssumption
    <2> HIDE DEF n
    <2>7. ASSUME file > MaxEvidenceBytes PROVE Answer(n) # "ok"
      <3>1. ~ FileIsAcceptable(n.op, n.body)
        BY <2>3, <2>4, <2>5, <2>6, <2>7 DEF FileIsAcceptable
      <3>2. ~ Stages(n)[3].passed
        BY <3>1, StageChecks
      <3> QED
        BY <3>2, EarlyRefusal
    <2>8. ASSUME file \in 1 .. MaxEvidenceBytes, form <= MultipartOverhead
          PROVE  Answer(n) = Answer(m)
      <3>1. FileIsAcceptable(n.op, n.body) /\ BodyIsReadable(n.op, n.body)
        BY <2>4, <2>5, <2>6, <2>8 DEF FileIsAcceptable, BodyIsReadable
      <3>2. Answer(n) = "ok"
        BY <2>1, <2>3, <3>1, RepeatIsAnswered
      <3>3. Answer(m) = "ok"
        BY <2>1, RepeatIsAnswered DEF TookEffect
      <3> QED
        BY <3>2, <3>3
    <2> QED
      BY <2>7, <2>8 DEF n
  <1> QED
    BY <1>1, HttpInvariance, PTL

(* A message that takes effect is a command of the serial service: the     *)
(* checks of the handlers let through no more than its guards do.          *)
LEMMA HandleIsSerial ==
  ASSUME HttpInv, NEW op \in Ops, NEW key \in CaseKeys,
         NEW m \in Passing(op, key), Handle(m)
  PROVE  Next
  <1>1. /\ m \in Messages /\ m.op = op /\ m.key = key
        /\ op # "create_case" => Exists(key)
    BY PassingFacts
  <1>2. PICK c \in Effects(m) :
          db' = [db EXCEPT ![key] =
                   Saved(IF Exists(key) THEN db[key].audit ELSE <<>>, c)]
    BY <1>1 DEF Handle
  <1>3. CASE op = "create_case"
    <2>1. ~ Exists(key) /\ c = CreatedCase(key)
      BY <1>1, <1>2, <1>3 DEF Effects
    <2>2. db' = [db EXCEPT ![key] = Saved(<<>>, CreatedCase(key))]
      BY <1>2, <2>1
    <2>3. CreateCase(key)
      BY <2>1, <2>2 DEF CreateCase, Exists
    <2> QED
      BY <2>3 DEF Next
  <1>4. CASE op # "create_case"
    <2>1. db' = [db EXCEPT ![key] = Saved(db[key].audit, c)]
      BY <1>1, <1>2, <1>4
    <2>2. /\ c \in Results(db[key].case, m.request)
          /\ IsNewRequest(db[key].case, m.request)
      BY <1>2, <1>4, EffectIsApplied
    <2>3. db[key] # None /\ db[key].case.revision < MaxRevision
      BY <1>1, <1>4 DEF Handle, Exists
    <2>4. ExecuteCommand(key, m.request)
      BY <2>1, <2>2, <2>3 DEF ExecuteCommand, Prepared
    <2>5. m.request \in Requests
      BY <1>1 DEF Messages
    <2> QED
      BY <2>4, <2>5 DEF Next
  <1> QED
    BY <1>3, <1>4

THEOREM HttpImplementsSerial == HttpSpec => ImplementsSerial
  <1>1. HttpInit => Init
    BY DEF HttpInit
  <1>2. HttpInv /\ [HttpNext]_<<db, done>> => [Next]_db
    <2> SUFFICES ASSUME HttpInv, [HttpNext]_<<db, done>> PROVE [Next]_db
      OBVIOUS
    <2>1. CASE HttpNext
      <3>1. PICK op \in Ops, key \in CaseKeys :
              \E m \in Passing(op, key) : Handle(m)
        BY <2>1 DEF HttpNext
      <3> QED
        BY <3>1, HandleIsSerial
    <2>2. CASE UNCHANGED <<db, done>>
      BY <2>2
    <2> QED
      BY <2>1, <2>2
  <1> QED
    BY <1>1, <1>2, HttpInvariance, PTL DEF HttpSpec, ImplementsSerial, Spec

----------------------------------------------------------------------------
(* Who did what: every trace a command left in a case leads back to the    *)
(* message that left it.  This is inductive together with HttpInv only as  *)
(* a whole: an acceptance finds the message its evidence came with through *)
(* EvidenceIsTraced, and that it came earlier through the revision.        *)

PlanIsTraced(key) ==
  LET c == db[key].case
  IN  /\ c.plan # None =>
           \E m \in Done(key, "replace_plan") : m.body = c.plan
      /\ c.status # "draft" => Done(key, "evaluate") # {}

EvidenceIsTraced(key) ==
  LET c == db[key].case
  IN  \A f \in Findings :
        c.findings[f].evidence # None =>
          \E e \in Done(key, "submit_evidence") :
            /\ e.body.finding = f
            /\ e.body.content = c.findings[f].evidence
            /\ e.revision < c.revision

(* Evidence e is what a accepted, and there was no later one.              *)
AcceptedBy(key, f, e, a) ==
  LET c == db[key].case
      audit == db[key].audit
  IN  /\ e.body.finding = f /\ e.body.content = c.findings[f].evidence
      /\ a.body.finding = f /\ a.body.verdict = "accepted"
      /\ e.revision < a.revision
      /\ \A i \in DOMAIN audit :
           audit[i].type = "evidence.submitted" /\ audit[i].finding = f
             => i <= a.revision

AcceptanceIsTraced(key) ==
  \A f \in Findings :
    db[key].case.findings[f].status = "accepted" =>
      \E e \in Done(key, "submit_evidence"), a \in Done(key, "review_finding") :
        AcceptedBy(key, f, e, a)

ReleaseIsTraced(key) ==
  LET c == db[key].case
  IN  c.status = "released" =>
        \E m \in Done(key, "sign") : m.revision + 1 = c.certificate.revision

TraceInv ==
  \A key \in Stored :
    /\ PlanIsTraced(key)
    /\ EvidenceIsTraced(key)
    /\ AcceptanceIsTraced(key)
    /\ ReleaseIsTraced(key)

(* What message m can have left of case c when it made case d of it.       *)
Left(m, c, d) ==
  /\ d.plan = c.plan \/ (m.op = "replace_plan" /\ d.plan = m.body)
  /\ d.status # "draft" => c.status # "draft" \/ m.op = "evaluate"
  /\ d.status = "released" =>
       m.op = "sign" /\ d.certificate.revision = c.revision + 1
  /\ \A f \in Findings :
       /\ \/ d.findings[f].evidence \in {None, c.findings[f].evidence}
          \/ /\ m.op = "submit_evidence" /\ m.body.finding = f
             /\ d.findings[f].evidence = m.body.content
       /\ d.findings[f].status = "accepted" =>
            /\ d.findings[f].evidence = c.findings[f].evidence
            /\ \/ /\ c.findings[f].status = "accepted"
                  /\ ~ (m.op = "submit_evidence" /\ m.body.finding = f)
               \/ /\ m.op = "review_finding" /\ m.body.finding = f
                  /\ m.body.verdict = "accepted"
                  /\ c.findings[f].evidence # None
  /\ \A i \in DOMAIN d.pendingEvents :
       d.pendingEvents[i].type = "evidence.submitted" =>
         m.op = "submit_evidence" /\ d.pendingEvents[i].finding = m.body.finding

(* Recording the request adds nothing to what was left.                    *)
LEMMA RecordedLeft ==
  ASSUME NEW m, NEW c, NEW x \in Cases, NEW r \in Requests,
         NEW command \in CommandNames, Left(m, c, x)
  PROVE  Left(m, c, RecordRequest(x, r, command))
  <1> DEFINE d == RecordRequest(x, r, command)
  <1>1. /\ d.status = x.status /\ d.plan = x.plan /\ d.findings = x.findings
        /\ d.certificate = x.certificate
        /\ d.pendingEvents = x.pendingEvents
    BY RecordRequestFields
  <1> HIDE DEF d
  <1>2. Left(m, c, d)
    BY <1>1 DEF Left
  <1> QED
    BY <1>2 DEF d

(* A method that leaves the findings and their timeline alone.             *)
LEMMA FindingsLeft ==
  ASSUME NEW m, m.op \notin {"submit_evidence"}, NEW c \in Cases, NEW d \in Cases,
         c.pendingEvents = <<>>,
         d.findings = c.findings,
         NEW type, type # "evidence.submitted", NEW n,
         d.pendingEvents = Append(c.pendingEvents, Event(n, type, None)),
         d.plan = c.plan \/ (m.op = "replace_plan" /\ d.plan = m.body),
         d.status # "draft" => c.status # "draft" \/ m.op = "evaluate",
         d.status = "released" =>
           m.op = "sign" /\ d.certificate.revision = c.revision + 1
  PROVE  Left(m, c, d)
  <1> DEFINE e == Event(n, type, None)
  <1>1. e.type # "evidence.submitted"
    BY DEF Event
  <1> HIDE DEF e
  <1>2. d.pendingEvents = <<e>>
    BY DEF e
  <1>3. \A i \in DOMAIN d.pendingEvents :
          d.pendingEvents[i].type # "evidence.submitted"
    BY <1>1, <1>2
  <1> QED
    BY <1>3 DEF Left

LEMMA ReplacePlanLeft ==
  ASSUME NEW c \in Cases, c.pendingEvents = <<>>, NEW r \in Requests,
         NEW m, m.op = "replace_plan", m.body \in Plans,
         NEW d \in ReplacePlanResults(c, r, m.body)
  PROVE  Left(m, c, d)
  <1> DEFINE x == ReplacePlan(c, m.body)
  <1>1. /\ CanReplacePlan(c, m.body)
        /\ d = RecordRequest(x, r, "replace_plan")
    BY DEF ReplacePlanResults
  <1>2. /\ x \in Cases /\ x.status = "draft" /\ x.plan = m.body
        /\ x.findings = c.findings
        /\ x.pendingEvents =
             Append(c.pendingEvents, Event(c.revision + 1, "plan.updated", None))
    BY <1>1, ReplacePlanFields DEF CanReplacePlan
  <1> HIDE DEF x
  <1>3. Left(m, c, x)
    BY <1>2, FindingsLeft
  <1> QED
    BY <1>1, <1>2, <1>3, RecordedLeft DEF CommandNames

LEMMA EvaluateLeft ==
  ASSUME NEW c \in Cases, c.pendingEvents = <<>>, NEW r \in Requests,
         NEW m, m.op = "evaluate", NEW d \in EvaluateResults(c, r)
  PROVE  Left(m, c, d)
  <1> DEFINE asked == SubmitEvaluation(c)
             found == RuleFindings[c.plan]
             x == ApplyEvaluation(asked, found)
             e1 == Event(c.revision + 1, "evaluation.requested", None)
             e2 == Event(asked.revision + 1, "evaluation.completed", None)
  <1>1. c.plan \in EvaluablePlans /\ d = RecordRequest(x, r, "evaluate")
    BY DEF EvaluateResults
  <1>2. found \in SUBSET Findings
    BY <1>1, CommandsAssumption DEF CommandsAssumption
  <1>3. /\ asked \in Cases /\ asked.plan = c.plan
        /\ asked.pendingEvents = Append(c.pendingEvents, e1)
    BY SubmitEvaluationFields
  <1>4. e1.type # "evidence.submitted" /\ e2.type # "evidence.submitted"
    BY DEF Event
  <1> HIDE DEF asked, found
  <1>5. /\ x \in Cases /\ x.plan = asked.plan
        /\ x.status \in {"pending_review", "remediation"}
        /\ x.findings = [f \in Findings |->
                           IF f \in found THEN OpenFinding ELSE NoFinding]
        /\ x.pendingEvents = Append(asked.pendingEvents, e2)
    BY <1>2, <1>3, ApplyEvaluationFields
  <1> HIDE DEF x, e1, e2
  <1>6. \A f \in Findings :
          x.findings[f].evidence = None /\ x.findings[f].status # "accepted"
    BY <1>5 DEF OpenFinding, NoFinding
  <1>7. x.pendingEvents = Append(Append(<<>>, e1), e2)
    BY <1>3, <1>5
  <1>8. \A i \in DOMAIN x.pendingEvents :
          x.pendingEvents[i].type # "evidence.submitted"
    BY <1>4, <1>7
  <1>9. Left(m, c, x)
    BY <1>3, <1>5, <1>6, <1>8 DEF Left
  <1> QED
    BY <1>1, <1>5, <1>9, RecordedLeft DEF CommandNames

LEMMA EvidenceLeft ==
  ASSUME NEW c \in Cases, c.pendingEvents = <<>>, NEW r \in Requests,
         NEW m, m.op = "submit_evidence", m.body.finding \in Findings,
         m.body.content \in Contents,
         NEW d \in EvidenceResults(c, r, m.body.finding, m.body.content,
                                   m.body.note)
  PROVE  Left(m, c, d)
  <1> DEFINE f == m.body.finding
             x == AddEvidence(c, f, m.body.content)
             e == Event(c.revision + 1, "evidence.submitted", f)
  <1>1. /\ CanAddEvidence(c, f, m.body.note)
        /\ d = RecordRequest(x, r, "submit_evidence")
    BY DEF EvidenceResults
  <1>2. c.status = "remediation"
    BY <1>1 DEF CanAddEvidence
  <1>3. /\ x \in Cases /\ x.status = c.status /\ x.plan = c.plan
        /\ x.findings[f] = [status |-> "evidence_submitted",
                            evidence |-> m.body.content, reviewer |-> None]
        /\ \A g \in Findings \ {f} : x.findings[g] = c.findings[g]
        /\ x.pendingEvents = Append(c.pendingEvents, e)
    BY AddEvidenceFields
  <1>4. e.finding = f
    BY DEF Event
  <1> HIDE DEF x, e
  <1>5. x.pendingEvents = <<e>>
    BY <1>3
  <1>6. \A i \in DOMAIN x.pendingEvents : x.pendingEvents[i].finding = f
    BY <1>4, <1>5
  <1>7. Left(m, c, x)
    BY <1>2, <1>3, <1>6 DEF Left
  <1> QED
    BY <1>1, <1>3, <1>7, RecordedLeft DEF CommandNames

LEMMA RequestReviewLeft ==
  ASSUME NEW c \in Cases, c.pendingEvents = <<>>, NEW r \in Requests,
         NEW m, m.op = "request_review", NEW d \in RequestReviewResults(c, r)
  PROVE  Left(m, c, d)
  <1> DEFINE x == RequestReview(c)
  <1>1. CanRequestReview(c) /\ d = RecordRequest(x, r, "request_review")
    BY DEF RequestReviewResults
  <1>2. /\ x \in Cases /\ x.status = "pending_review" /\ x.plan = c.plan
        /\ x.findings = c.findings
        /\ x.pendingEvents =
             Append(c.pendingEvents, Event(c.revision + 1, "review.requested", None))
    BY RequestReviewFields
  <1> HIDE DEF x
  <1>3. Left(m, c, x)
    BY <1>1, <1>2, FindingsLeft DEF CanRequestReview
  <1> QED
    BY <1>1, <1>2, <1>3, RecordedLeft DEF CommandNames

LEMMA ReviewFindingLeft ==
  ASSUME NEW c \in Cases, c.pendingEvents = <<>>, NEW r \in Requests,
         NEW m, m.op = "review_finding", m.who \in Names,
         m.body.finding \in Findings, m.body.verdict \in Verdicts,
         NEW d \in ReviewFindingResults(c, r, m.body.finding, m.body.verdict,
                                        m.body.note, m.who)
  PROVE  Left(m, c, d)
  <1> DEFINE f == m.body.finding
             verdict == m.body.verdict
             x == ReviewFinding(c, f, verdict, m.who)
             e == Event(c.revision + 1, ReviewEvent(verdict), f)
  <1>1. /\ CanReviewFinding(c, f, verdict, m.body.note)
        /\ d = RecordRequest(x, r, "review_finding")
    BY DEF ReviewFindingResults
  <1>2. c.status = "pending_review" /\ c.findings[f].evidence # None
    BY <1>1 DEF CanReviewFinding
  <1>3. /\ x \in Cases /\ x.plan = c.plan
        /\ x.status \in {"pending_review", "remediation"}
        /\ x.findings[f] = Judged(c.findings[f], verdict, m.who)
        /\ \A g \in Findings \ {f} : x.findings[g] = c.findings[g]
        /\ x.pendingEvents = Append(c.pendingEvents, e)
    BY <1>2, ReviewFindingFields
  <1>4. e.type # "evidence.submitted"
    BY DEF Event, ReviewEvent
  <1>5. c.findings[f] \in FindingRecords
    BY DEF Cases
  <1>6. /\ Judged(c.findings[f], verdict, m.who).status = verdict
        /\ Judged(c.findings[f], verdict, m.who).evidence
             = c.findings[f].evidence
    BY <1>5, JudgedFields
  <1> HIDE DEF x, e
  <1>7. x.pendingEvents = <<e>>
    BY <1>3
  <1>8. \A i \in DOMAIN x.pendingEvents :
          x.pendingEvents[i].type # "evidence.submitted"
    BY <1>4, <1>7
  <1>9. Left(m, c, x)
    BY <1>2, <1>3, <1>6, <1>8 DEF Left
  <1> QED
    BY <1>1, <1>3, <1>9, RecordedLeft DEF CommandNames

LEMMA SignLeft ==
  ASSUME NEW c \in Cases, c.pendingEvents = <<>>, NEW r \in Requests,
         NEW m, m.op = "sign", m.who \in Names,
         NEW d \in SignResults(c, r, m.who)
  PROVE  Left(m, c, d)
  <1> DEFINE cert == NewCertificate(c, m.who)
             x == MarkReleased(c, cert)
  <1>1. CanMarkReleased(c, cert) /\ d = RecordRequest(x, r, "sign")
    BY DEF SignResults
  <1>2. cert \in Certificates /\ cert.revision = c.revision + 1
    BY NewCertificateFields
  <1> HIDE DEF cert
  <1>3. /\ x \in Cases /\ x.plan = c.plan /\ x.certificate = cert
        /\ x.findings = c.findings
        /\ x.pendingEvents =
             Append(c.pendingEvents, Event(c.revision + 1, "case.released", None))
    BY <1>2, MarkReleasedFields
  <1> HIDE DEF x
  <1>4. Left(m, c, x)
    BY <1>1, <1>2, <1>3, FindingsLeft DEF CanMarkReleased
  <1> QED
    BY <1>1, <1>3, <1>4, RecordedLeft DEF CommandNames

LEMMA EffectLeft ==
  ASSUME NEW m \in Messages, m.body \in Bodies[m.op], m.op # "create_case",
         db[m.key].case \in Cases, db[m.key].case.pendingEvents = <<>>,
         NEW d \in Effects(m)
  PROVE  Left(m, db[m.key].case, d)
  <1> DEFINE c == db[m.key].case
             r == m.request
  <1>0. m.op \in Ops /\ m.who \in Names /\ r \in Requests
    BY DEF Messages
  <1>1. CASE m.op = "replace_plan"
    <2>1. m.body \in Plans /\ d \in ReplacePlanResults(c, r, m.body)
      BY <1>1 DEF Bodies, Effects
    <2> QED
      BY <1>0, <1>1, <2>1, ReplacePlanLeft
  <1>2. CASE m.op = "evaluate"
    <2>1. d \in EvaluateResults(c, r)
      BY <1>2 DEF Effects
    <2> QED
      BY <1>0, <1>2, <2>1, EvaluateLeft
  <1>3. CASE m.op = "submit_evidence"
    <2>1. /\ m.body.finding \in Findings /\ m.body.content \in Contents
          /\ d \in EvidenceResults(c, r, m.body.finding, m.body.content,
                                   m.body.note)
      BY <1>3 DEF Bodies, Effects
    <2> QED
      BY <1>0, <1>3, <2>1, EvidenceLeft
  <1>4. CASE m.op = "request_review"
    <2>1. d \in RequestReviewResults(c, r)
      BY <1>4 DEF Effects
    <2> QED
      BY <1>0, <1>4, <2>1, RequestReviewLeft
  <1>5. CASE m.op = "review_finding"
    <2>1. /\ m.body.finding \in Findings /\ m.body.verdict \in Verdicts
          /\ d \in ReviewFindingResults(c, r, m.body.finding, m.body.verdict,
                                        m.body.note, m.who)
      BY <1>5 DEF Bodies, Effects
    <2> QED
      BY <1>0, <1>5, <2>1, ReviewFindingLeft
  <1>6. CASE m.op = "sign"
    <2>1. d \in SignResults(c, r, m.who)
      BY <1>6 DEF Effects
    <2> QED
      BY <1>0, <1>6, <2>1, SignLeft
  <1> QED
    BY <1>0, <1>1, <1>2, <1>3, <1>4, <1>5, <1>6 DEF Ops, RoleFor

(* JSON changes names only, and nothing a trace is about is a name.        *)
LEMMA CloneLeft ==
  ASSUME NEW m, NEW c, NEW d \in Cases, Left(m, c, d)
  PROVE  Left(m, c, CloneCase(d))
  <1> DEFINE t == CloneCase(d)
  <1>1. /\ t.status = d.status /\ t.plan = d.plan
        /\ \A f \in Findings :
             /\ t.findings[f].status = d.findings[f].status
             /\ t.findings[f].evidence = d.findings[f].evidence
        /\ t.certificate = [d.certificate EXCEPT !.signer = NameAfterJson(@)]
        /\ t.pendingEvents = <<>>
    BY CloneCaseFields
  <1> HIDE DEF t
  <1>2. d.certificate \in Certificates
    BY DEF Cases
  <1>3. t.certificate.revision = d.certificate.revision
    BY <1>1, <1>2 DEF Certificates
  <1>4. Left(m, c, t)
    BY <1>1, <1>3 DEF Left
  <1> QED
    BY <1>4 DEF t

(* The stored snapshot after a message on an existing case.                *)
LEMMA HandledLeft ==
  ASSUME HttpInv, NEW op \in Ops, NEW key \in CaseKeys,
         NEW m \in Passing(op, key), Handle(m), op # "create_case"
  PROVE  \E s \in Snapshots :
           LET old == db[key]
           IN  /\ db' = [db EXCEPT ![key] = s]
               /\ Left(m, old.case, s.case)
               /\ m.revision = old.case.revision
               /\ old.case.revision < s.case.revision
               /\ \A i \in DOMAIN s.audit :
                    \/ i <= old.case.revision /\ s.audit[i] = old.audit[i]
                       /\ i \in DOMAIN old.audit
                    \/ s.audit[i].type = "evidence.submitted" =>
                         /\ m.op = "submit_evidence"
                         /\ s.audit[i].finding = m.body.finding
  <1>1. /\ m \in Messages /\ m.op = op /\ m.key = key
        /\ m.body \in Bodies[op] /\ Exists(key)
    BY PassingFacts
  <1>2. PICK d \in Effects(m) : db' = [db EXCEPT ![key] = Saved(db[key].audit, d)]
    BY <1>1 DEF Handle
  <1> DEFINE c == db[key].case
             s == Saved(db[key].audit, d)
             new == d.pendingEvents
  <1>3. /\ Applied(c, d, m.request)
        /\ SnapshotInv(s)
    BY <1>2, EffectIsApplied
  <1>4. SnapshotInv(db[key])
    BY <1>1 DEF HttpInv, Stored, Exists
  <1>5. /\ c \in Cases /\ c.pendingEvents = <<>> /\ db[key].audit \in Seq(Events)
        /\ Len(db[key].audit) = c.revision /\ c.revision \in Nat
    BY <1>4 DEF SnapshotInv, Snapshots, TimelineTells, Contiguous, Cases
  <1>6. /\ d \in Cases /\ new \in Seq(Events) /\ Len(new) > 0
        /\ d.revision = c.revision + Len(new)
    BY <1>3 DEF Applied, Cases
  <1>7. Left(m, c, d)
    BY <1>1, <1>2, <1>5, EffectLeft
  <1>8. Left(m, c, s.case)
    BY <1>6, <1>7, CloneLeft DEF Saved
  <1>9. m.revision = c.revision
    BY <1>1 DEF Passing, IsCurrent
  <1>10. s.case.revision = d.revision
    BY <1>6, CloneCaseFields DEF Saved
  <1>11. s.audit = db[key].audit \o new
    BY DEF Saved
  <1>12. \A i \in DOMAIN new :
           new[i].type = "evidence.submitted" =>
             m.op = "submit_evidence" /\ new[i].finding = m.body.finding
    BY <1>7 DEF Left
  <1>13. s \in Snapshots
    BY <1>3 DEF SnapshotInv
  <1> HIDE DEF s, new
  <1>14. ASSUME NEW i \in DOMAIN s.audit
         PROVE  \/ /\ i <= c.revision /\ s.audit[i] = db[key].audit[i]
                   /\ i \in DOMAIN db[key].audit
                \/ s.audit[i].type = "evidence.submitted" =>
                     /\ m.op = "submit_evidence"
                     /\ s.audit[i].finding = m.body.finding
    <2>1. /\ DOMAIN s.audit = 1 .. c.revision + Len(new)
          /\ \A j \in 1 .. c.revision : s.audit[j] = db[key].audit[j]
          /\ \A j \in 1 .. Len(new) : s.audit[c.revision + j] = new[j]
      <3> DEFINE old == db[key].audit
                 all == old \o new
      <3>1. old \in Seq(Events) /\ new \in Seq(Events) /\ Len(old) = c.revision
        BY <1>5, <1>6
      <3> HIDE DEF old
      <3>2. /\ all \in Seq(Events) /\ Len(all) = Len(old) + Len(new)
            /\ \A j \in 1 .. Len(old) : all[j] = old[j]
            /\ \A j \in 1 .. Len(new) : all[Len(old) + j] = new[j]
        BY <3>1, LongerTimeline
      <3> HIDE DEF all
      <3>3. DOMAIN all = 1 .. Len(all)
        BY <3>2
      <3> QED
        BY <1>11, <3>1, <3>2, <3>3 DEF all, old
    <2>2. Len(new) \in Nat /\ DOMAIN new = 1 .. Len(new)
      BY <1>6
    <2>3. CASE i <= c.revision
      <3>1. i \in 1 .. c.revision
        BY <1>5, <2>1, <2>2, <2>3
      <3>2. i \in DOMAIN db[key].audit
        BY <1>5, <3>1
      <3> QED
        BY <2>1, <2>3, <3>1, <3>2
    <2>4. CASE ~ i <= c.revision
      <3>1. i - c.revision \in 1 .. Len(new) /\ i = c.revision + (i - c.revision)
        BY <1>5, <2>1, <2>2, <2>4
      <3> QED
        BY <1>12, <2>1, <2>2, <3>1
    <2> QED
      BY <2>3, <2>4
  <1>15. c.revision < s.case.revision
    BY <1>5, <1>6, <1>10
  <1> QED
    BY <1>2, <1>8, <1>9, <1>13, <1>14, <1>15 DEF s

(* A case that was just created tells of nothing.                          *)
LEMMA CreationLeft ==
  ASSUME NEW key \in CaseKeys
  PROVE  LET c == Saved(<<>>, CreatedCase(key)).case
         IN  /\ c.status = "draft" /\ c.plan = None
             /\ \A f \in Findings :
                  /\ c.findings[f].evidence = None
                  /\ c.findings[f].status # "accepted"
  <1> DEFINE d == CreatedCase(key)
             c == CloneCase(d)
  <1>1. /\ d \in Cases /\ d.status = "draft"
        /\ d.findings = [f \in Findings |-> NoFinding]
    BY CreatedCaseFields
  <1>2. key[2] \in Requests /\ "create_case" \in CommandNames
    BY CommandsAssumption DEF CommandsAssumption, CommandNames
  <1>3. d.plan = None
    BY <1>2, NewCaseFields, RecordRequestFields DEF CreatedCase
  <1>4. Saved(<<>>, d).case = c
    BY DEF Saved
  <1> HIDE DEF d
  <1>5. /\ c.status = d.status /\ c.plan = d.plan
        /\ \A f \in Findings :
             /\ c.findings[f].status = d.findings[f].status
             /\ c.findings[f].evidence = d.findings[f].evidence
    BY <1>1, CloneCaseFields
  <1> HIDE DEF c
  <1>6. \A f \in Findings :
          d.findings[f].evidence = None /\ d.findings[f].status # "accepted"
    BY <1>1 DEF NoFinding
  <1> QED
    BY <1>1, <1>3, <1>4, <1>5, <1>6 DEF d

(* The traces of the case a message was for.  s is what became of it.      *)
LEMMA TracesGrow ==
  ASSUME HttpInv, TraceInv, NEW op \in Ops, NEW key \in CaseKeys,
         NEW m \in Passing(op, key), Handle(m), op # "create_case"
  PROVE  /\ PlanIsTraced(key)' /\ EvidenceIsTraced(key)'
         /\ AcceptanceIsTraced(key)' /\ ReleaseIsTraced(key)'
  <1> DEFINE old == db[key]
             c == db[key].case
  <1>1. PICK s \in Snapshots :
          /\ db' = [db EXCEPT ![key] = s]
          /\ Left(m, old.case, s.case)
          /\ m.revision = old.case.revision
          /\ old.case.revision < s.case.revision
          /\ \A i \in DOMAIN s.audit :
               \/ i <= old.case.revision /\ s.audit[i] = old.audit[i]
                  /\ i \in DOMAIN old.audit
               \/ s.audit[i].type = "evidence.submitted" =>
                    /\ m.op = "submit_evidence"
                    /\ s.audit[i].finding = m.body.finding
    BY HandledLeft
  <1>2. /\ m.op = op /\ m.key = key /\ Exists(key)
    BY PassingFacts
  <1>3. key \in Stored /\ key \in DOMAIN db
    BY <1>2 DEF HttpInv, Stored, Exists
  <1>4. db'[key] = s
    BY <1>1, <1>3
  <1>5. /\ PlanIsTraced(key) /\ EvidenceIsTraced(key)
        /\ AcceptanceIsTraced(key) /\ ReleaseIsTraced(key)
    BY <1>3 DEF TraceInv
  <1>6. SnapshotInv(old)
    BY <1>3 DEF HttpInv
  <1>7. /\ c.revision \in Nat /\ s.case.revision \in Nat
        /\ c.status # "released"
        /\ DOMAIN old.audit = 1 .. c.revision
    <2>1. c \in Cases /\ s.case \in Cases /\ old.audit \in Seq(Events)
      BY <1>6 DEF SnapshotInv, Snapshots
    <2>2. Len(old.audit) = c.revision
      BY <1>6 DEF SnapshotInv, TimelineTells, Contiguous
    <2>3. c.status # "released"
      <3>1. PICK d \in Effects(m) : TRUE
        BY DEF Handle
      <3> QED
        BY <3>1, EffectIsApplied DEF Applied
    <2> QED
      BY <2>1, <2>2, <2>3 DEF Cases
  <1>8. /\ \A o : Done(key, o) \subseteq Done(key, o)'
        /\ m \in Done(key, op)'
    BY <1>2 DEF Handle, Done
  <1>9. \A n \in done : n.revision \in Nat
    BY CommandsAssumption DEF HttpInv, TookEffect, Messages, CommandsAssumption
  <1> DEFINE d == s.case
  <1>10. PlanIsTraced(key)'
    <2>1. ASSUME d.plan # None
          PROVE  \E n \in Done(key, "replace_plan")' : n.body = d.plan
      <3>1. CASE d.plan = c.plan
        BY <1>5, <1>8, <2>1, <3>1 DEF PlanIsTraced
      <3>2. CASE m.op = "replace_plan" /\ d.plan = m.body
        BY <1>2, <1>8, <3>2
      <3> QED
        BY <1>1, <3>1, <3>2 DEF Left
    <2>2. ASSUME d.status # "draft" PROVE Done(key, "evaluate")' # {}
      <3>1. CASE c.status # "draft"
        BY <1>5, <1>8, <3>1 DEF PlanIsTraced
      <3>2. CASE m.op = "evaluate"
        BY <1>2, <1>8, <3>2
      <3> QED
        BY <1>1, <2>2, <3>1, <3>2 DEF Left
    <2> QED
      BY <1>4, <2>1, <2>2 DEF PlanIsTraced
  <1>11. EvidenceIsTraced(key)'
    <2>1. ASSUME NEW f \in Findings, d.findings[f].evidence # None
          PROVE  \E e \in Done(key, "submit_evidence")' :
                   /\ e.body.finding = f
                   /\ e.body.content = d.findings[f].evidence
                   /\ e.revision < d.revision
      <3>1. CASE d.findings[f].evidence = c.findings[f].evidence
        <4>1. PICK e \in Done(key, "submit_evidence") :
                /\ e.body.finding = f
                /\ e.body.content = c.findings[f].evidence
                /\ e.revision < c.revision
          BY <1>5, <2>1, <3>1 DEF EvidenceIsTraced
        <4>2. e.revision \in Nat
          BY <1>9 DEF Done
        <4>3. e.revision < d.revision
          BY <1>1, <1>7, <4>1, <4>2
        <4> QED
          BY <1>8, <3>1, <4>1, <4>3
      <3>2. CASE /\ m.op = "submit_evidence" /\ m.body.finding = f
                 /\ d.findings[f].evidence = m.body.content
        BY <1>1, <1>2, <1>8, <3>2
      <3> QED
        BY <1>1, <2>1, <3>1, <3>2 DEF Left
    <2> QED
      BY <1>4, <2>1 DEF EvidenceIsTraced
  <1>12. AcceptanceIsTraced(key)'
    <2>1. ASSUME NEW f \in Findings, d.findings[f].status = "accepted"
          PROVE  \E e \in Done(key, "submit_evidence")',
                    a \in Done(key, "review_finding")' :
                   AcceptedBy(key, f, e, a)'
      <3>1. d.findings[f].evidence = c.findings[f].evidence
        BY <1>1, <2>1 DEF Left
      <3>2. CASE /\ c.findings[f].status = "accepted"
                 /\ ~ (m.op = "submit_evidence" /\ m.body.finding = f)
        <4>1. PICK e \in Done(key, "submit_evidence"),
                   a \in Done(key, "review_finding") : AcceptedBy(key, f, e, a)
          BY <1>5, <3>2 DEF AcceptanceIsTraced
        <4>2. \A i \in DOMAIN s.audit :
                s.audit[i].type = "evidence.submitted" /\ s.audit[i].finding = f
                  => i <= a.revision
          BY <1>1, <3>2, <4>1 DEF AcceptedBy
        <4>3. AcceptedBy(key, f, e, a)'
          BY <1>4, <3>1, <4>1, <4>2 DEF AcceptedBy
        <4> QED
          BY <1>8, <4>1, <4>3
      <3>3. CASE /\ m.op = "review_finding" /\ m.body.finding = f
                 /\ m.body.verdict = "accepted"
                 /\ c.findings[f].evidence # None
        <4>1. PICK e \in Done(key, "submit_evidence") :
                /\ e.body.finding = f
                /\ e.body.content = c.findings[f].evidence
                /\ e.revision < c.revision
          BY <1>5, <3>3 DEF EvidenceIsTraced
        <4>2. \A i \in DOMAIN s.audit :
                s.audit[i].type = "evidence.submitted" => i <= m.revision
          BY <1>1, <3>3
        <4>3. AcceptedBy(key, f, e, m)'
          BY <1>1, <1>4, <3>1, <3>3, <4>1, <4>2 DEF AcceptedBy
        <4> QED
          BY <1>2, <1>8, <3>3, <4>1, <4>3
      <3> QED
        BY <1>1, <2>1, <3>2, <3>3 DEF Left
    <2> QED
      BY <1>4, <2>1 DEF AcceptanceIsTraced
  <1>13. ReleaseIsTraced(key)'
    <2>1. ASSUME d.status = "released"
          PROVE  \E n \in Done(key, "sign")' : n.revision + 1 = d.certificate.revision
      <3>1. m.op = "sign" /\ d.certificate.revision = c.revision + 1
        BY <1>1, <2>1 DEF Left
      <3> QED
        BY <1>1, <1>2, <1>8, <3>1
    <2> QED
      BY <1>4, <2>1 DEF ReleaseIsTraced
  <1> QED
    BY <1>10, <1>11, <1>12, <1>13

LEMMA HandleTraces ==
  ASSUME HttpInv, TraceInv, NEW op \in Ops, NEW key \in CaseKeys,
         NEW m \in Passing(op, key), Handle(m)
  PROVE  TraceInv'
  <1>1. PICK s \in Snapshots : db' = [db EXCEPT ![key] = s]
    BY HandledSnapshot
  <1>2. db \in [CaseKeys -> Snapshots \cup {None}]
    BY DEF HttpInv
  <1>3. \A k, o : Done(k, o) \subseteq Done(k, o)'
    BY DEF Handle, Done
  <1>4. ASSUME NEW k \in Stored', k # key
        PROVE  /\ PlanIsTraced(k)' /\ EvidenceIsTraced(k)'
               /\ AcceptanceIsTraced(k)' /\ ReleaseIsTraced(k)'
    <2>1. db'[k] = db[k] /\ k \in Stored
      BY <1>1, <1>2, <1>4 DEF Stored
    <2>2. /\ PlanIsTraced(k) /\ EvidenceIsTraced(k)
          /\ AcceptanceIsTraced(k) /\ ReleaseIsTraced(k)
      BY <2>1 DEF TraceInv
    <2>3. PlanIsTraced(k)'
      BY <1>3, <2>1, <2>2 DEF PlanIsTraced
    <2>4. EvidenceIsTraced(k)'
      BY <1>3, <2>1, <2>2 DEF EvidenceIsTraced
    <2>5. AcceptanceIsTraced(k)'
      <3>1. \A f, e, a : AcceptedBy(k, f, e, a)' = AcceptedBy(k, f, e, a)
        BY <2>1 DEF AcceptedBy
      <3> QED
        BY <1>3, <2>1, <2>2, <3>1 DEF AcceptanceIsTraced
    <2>6. ReleaseIsTraced(k)'
      BY <1>3, <2>1, <2>2 DEF ReleaseIsTraced
    <2> QED
      BY <2>3, <2>4, <2>5, <2>6
  <1>5. /\ PlanIsTraced(key)' /\ EvidenceIsTraced(key)'
        /\ AcceptanceIsTraced(key)' /\ ReleaseIsTraced(key)'
    <2>1. CASE op # "create_case"
      BY <2>1, TracesGrow
    <2>2. CASE op = "create_case"
      <3>1. m.op = op /\ m.key = key
        BY PassingFacts
      <3>2. db' = [db EXCEPT ![key] = Saved(<<>>, CreatedCase(key))]
        BY <2>2, <3>1 DEF Handle, Effects
      <3>3. db'[key] = Saved(<<>>, CreatedCase(key))
        BY <1>2, <3>2
      <3> DEFINE c == db'[key].case
      <3>4. /\ c.status = "draft" /\ c.plan = None
            /\ \A f \in Findings :
                 /\ c.findings[f].evidence = None
                 /\ c.findings[f].status # "accepted"
        BY <3>3, CreationLeft
      <3> QED
        BY <3>4 DEF PlanIsTraced, EvidenceIsTraced, AcceptanceIsTraced,
                    ReleaseIsTraced
    <2> QED
      BY <2>1, <2>2
  <1> QED
    BY <1>4, <1>5 DEF TraceInv

LEMMA TraceInvariance == HttpSpec => []TraceInv
  <1>1. HttpInit => TraceInv
    BY DEF HttpInit, Init, TraceInv, Stored
  <1>2. HttpInv /\ TraceInv /\ [HttpNext]_<<db, done>> => TraceInv'
    <2> SUFFICES ASSUME HttpInv, TraceInv, [HttpNext]_<<db, done>> PROVE TraceInv'
      OBVIOUS
    <2>1. CASE HttpNext
      <3>1. PICK op \in Ops, key \in CaseKeys :
              \E m \in Passing(op, key) : Handle(m)
        BY <2>1 DEF HttpNext
      <3> QED
        BY <3>1, HandleTraces
    <2>2. CASE UNCHANGED <<db, done>>
      BY <2>2 DEF TraceInv, Stored, PlanIsTraced, EvidenceIsTraced,
                  AcceptanceIsTraced, AcceptedBy, ReleaseIsTraced, Done
    <2> QED
      BY <2>1, <2>2
  <1> QED
    BY <1>1, <1>2, HttpInvariance, PTL DEF HttpSpec

----------------------------------------------------------------------------

(* However long a verdict or a signature was under way, it took effect on  *)
(* what its sender had seen: no evidence of an accepted finding is newer   *)
(* than the revision its acceptance named, and the certificate is of the   *)
(* revision after the one the signer named (service.go:237-239).           *)
THEOREM VerdictsAreOfWhatWasSeen == HttpSpec => []AcceptedAsSeen
  <1>1. HttpInv /\ TraceInv => AcceptedAsSeen
    <2> SUFFICES ASSUME HttpInv, TraceInv, NEW key \in Stored
                 PROVE  LET c == db[key].case
                            audit == db[key].audit
                        IN  /\ \A f \in Found(c) :
                                 c.findings[f].status = "accepted" =>
                                   \E m \in Done(key, "review_finding") :
                                     /\ m.body.finding = f
                                     /\ m.body.verdict = "accepted"
                                     /\ \A i \in DOMAIN audit :
                                          /\ audit[i].type = "evidence.submitted"
                                          /\ audit[i].finding = f
                                          => i <= m.revision
                            /\ HasCertificate(c) =>
                                 \E m \in Done(key, "sign") :
                                   m.revision + 1 = c.certificate.revision
      BY DEF AcceptedAsSeen
    <2>1. AcceptanceIsTraced(key) /\ ReleaseIsTraced(key)
      BY DEF TraceInv
    <2>2. HasCertificate(db[key].case) <=> db[key].case.status = "released"
      BY InvJustified DEF HttpInv, SnapshotInv, Snapshots, Justified
    <2> QED
      BY <2>1, <2>2 DEF AcceptanceIsTraced, AcceptedBy, ReleaseIsTraced, Found
  <1> QED
    BY <1>1, HttpInvariance, TraceInvariance, PTL

(* A released case took a director's plan and evaluation, a lead's         *)
(* evidence for every finding, and a reviewer's acceptance of each after   *)
(* that and signature: no one role can release a case                      *)
(* (service.go:73-196, protocol.go:89-109).                                *)
THEOREM NobodyReleasesAlone == HttpSpec => []ReleaseTakesAllRoles
  <1>1. HttpInv /\ TraceInv => ReleaseTakesAllRoles
    <2> SUFFICES ASSUME HttpInv, TraceInv, NEW key \in Stored,
                        db[key].case.status = "released"
                 PROVE  LET c == db[key].case
                            By(op, role) == {m \in Done(key, op) : m.role = role}
                        IN  /\ \E m \in By("replace_plan", "technical_director") :
                                 m.body = c.plan
                            /\ By("evaluate", "technical_director") # {}
                            /\ By("sign", "safety_reviewer") # {}
                            /\ \A f \in Found(c) :
                                 \E e \in By("submit_evidence", "mechanical_lead"),
                                    a \in By("review_finding", "safety_reviewer") :
                                   /\ e.body.finding = f /\ a.body.finding = f
                                   /\ e.body.content = c.findings[f].evidence
                                   /\ a.body.verdict = "accepted"
                                   /\ e.revision < a.revision
      BY DEF ReleaseTakesAllRoles
    <2> DEFINE c == db[key].case
    <2>1. /\ PlanIsTraced(key) /\ AcceptanceIsTraced(key)
          /\ ReleaseIsTraced(key)
      BY DEF TraceInv
    <2>2. /\ c.plan \in EvaluablePlans
          /\ \A f \in Found(c) : c.findings[f].status = "accepted"
      BY InvJustified DEF HttpInv, SnapshotInv, Snapshots, Justified
    <2>3. c.plan # None
      BY <2>2, CommandsAssumption, DomainAssumption
      DEF CommandsAssumption, DomainAssumption
    <2>4. \A m \in done : m.role = RoleFor[m.op]
      BY DEF HttpInv, TookEffect
    <2>5. /\ \A m \in Done(key, "replace_plan") \cup Done(key, "evaluate") :
               m.role = "technical_director"
          /\ \A m \in Done(key, "submit_evidence") : m.role = "mechanical_lead"
          /\ \A m \in Done(key, "review_finding") \cup Done(key, "sign") :
               m.role = "safety_reviewer"
      BY <2>4 DEF Done, RoleFor
    <2>6. \E m \in Done(key, "replace_plan") : m.body = c.plan
      BY <2>1, <2>3 DEF PlanIsTraced
    <2>7. Done(key, "evaluate") # {} /\ Done(key, "sign") # {}
      BY <2>1 DEF PlanIsTraced, ReleaseIsTraced
    <2>8. \A f \in Found(c) :
            \E e \in Done(key, "submit_evidence"),
               a \in Done(key, "review_finding") : AcceptedBy(key, f, e, a)
      BY <2>1, <2>2 DEF AcceptanceIsTraced, Found
    <2> QED
      BY <2>5, <2>6, <2>7, <2>8 DEF AcceptedBy
  <1> QED
    BY <1>1, HttpInvariance, TraceInvariance, PTL

==============================================================================

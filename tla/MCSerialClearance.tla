------------------------- MODULE MCSerialClearance -------------------------
(* SerialClearance and the queries on a small instance.                    *)
EXTENDS ClearanceQueries

CONSTANTS ascii, clear, risky, broken, f1, f2, NumRequests

MCJsonText == [n \in Names |-> n]

\* The engine fails on the plan broken: its evaluation is an error.
MCRuleFindings ==
  [p \in EvaluablePlans |-> IF p = risky THEN {f1, f2} ELSE {}]

MCRequests == 1 .. NumRequests

\* A case that goes every way, and a neighbour with the same clearance number.
Main == <<ascii, 1>>
Neighbour == <<ascii, 2>>
MCCaseKeys == {Main, Neighbour}
MCCaseRank == [key \in CaseKeys |-> IF key = Main THEN 2 ELSE 1]
\* The performances start together, or that of the main case is first.
MCSchedules ==
  {[key \in CaseKeys |-> IF key = Main THEN 1 ELSE n] : n \in {1, 2}}
MCClearanceNumber == [key \in CaseKeys |-> "SC"]

\* Request ids are compared within one case only: the lowest fresh one of a
\* case stands for all that the case does not know.
Known(key) == IF db[key] = None THEN {} ELSE Processed(db[key].case)
LowestFresh ==
  \A key \in Stored :
    \A r \in Processed(db'[key].case) \ Known(key) :
      \A q \in Requests \ Known(key) : r <= q

\* Bound: the neighbour goes straight to its release (created, with a plan
\* without risks, evaluated, signed), while the main case waits for review or
\* is released.
NeighbourIsPlain ==
  db'[Neighbour] # db[Neighbour] =>
    /\ db[Main] # None
    /\ db[Main].case.status \in {"pending_review", "released"}
    /\ db'[Neighbour].case.plan \in {None, clear}
    /\ db'[Neighbour].case.revision \in {1, 2, 4, 5}

============================================================================

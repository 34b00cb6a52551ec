------------------------- MODULE MCClearanceService ------------------------
(* ClearanceService on small instances.                                    *)
EXTENDS ClearanceService, FiniteSets, TLC

CONSTANTS ascii, latin1, replaced, clear, risky, invalid, f1, NumRequests

\* The name that is not UTF-8 is read back with U+FFFD in it.
MCJsonText == [n \in Names |-> IF n = latin1 THEN replaced ELSE n]

MCEvaluablePlans == {clear, risky} \cap Plans
MCRuleFindings == [p \in MCEvaluablePlans |-> IF p = risky THEN {f1} ELSE {}]

MCRequests == 1 .. NumRequests
MCCaseKeys == {<<n, 1>> : n \in Names \ {replaced}}

\* Request ids are only compared for equality.  An id no snapshot and no
\* worker knows is like any other such id, so the lowest stands for them all.
Known ==
  UNION {Processed(store[key].case) : key \in Stored}
    \cup UNION {Processed(handler[w].case) : w \in {v \in Workers : handler[v] # Idle}}
    \cup {handler[w].request : w \in {v \in Workers : handler[v].step = "put"}}
LowestFresh ==
  \A r \in Known' \ Known : \A q \in Requests \ Known : r <= q

WorkerSymmetry == Permutations(Workers)

============================================================================

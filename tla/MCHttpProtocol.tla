--------------------------- MODULE MCHttpProtocol ---------------------------
(* HttpProtocol with one case.                                             *)
EXTENDS HttpProtocol

CONSTANTS ascii, clear, risky, f1, NumRequests

MCJsonText == [n \in Names |-> n]
MCRuleFindings ==
  [p \in EvaluablePlans |-> IF p = risky THEN {f1} ELSE {}]
MCRequests == 1 .. NumRequests
MCCaseKeys == {<<ascii, 1>>}

\* Request ids are only compared for equality: the lowest fresh one stands
\* for all that no message used.
Used == {m.request : m \in done}
LowestFresh ==
  \A m \in done' \ done :
    m.request \notin Used => \A q \in Requests \ Used : m.request <= q

============================================================================

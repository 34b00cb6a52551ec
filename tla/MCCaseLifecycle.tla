-------------------------- MODULE MCCaseLifecycle --------------------------
(* CaseLifecycle on a small instance.                                      *)
EXTENDS CaseLifecycle

CONSTANTS n1, n2

\* Both names are UTF-8: what JSON does to the others is ClearanceService's
\* subject, an object in memory never meets JSON.
MCNames == {n1, n2}
MCJsonText == [n \in MCNames |-> n]

============================================================================

---------------------------- MODULE MCWorkbench ----------------------------
(* Workbench with two cases in three scenarios.                            *)
EXTENDS Workbench, TLC

Drafts == {None, NewCase}
WithRisks == {[revision |-> 3, status |-> "remediation", risks |-> TRUE]}

\* A user who waits, alone, on a network that loses nothing: every button.
Calm ==
  [patient |-> TRUE, reliable |-> TRUE, others |-> FALSE, start |-> Drafts,
   clicks |-> Ops \ {"list", "timeline"}, maxRevision |-> 8]

\* Other users, and findings from the start.
Hasty ==
  [patient |-> FALSE, reliable |-> TRUE, others |-> TRUE, start |-> WithRisks,
   clicks |-> {"get", "evidence", "review", "sign"}, maxRevision |-> 5]

\* Drafts that other users evaluate, and losses.
Lossy ==
  [patient |-> FALSE, reliable |-> FALSE, others |-> TRUE, start |-> Drafts,
   clicks |-> {"get", "evaluate", "request", "sign"}, maxRevision |-> 4]

MCScenarios == {Calm, Hasty, Lossy}

Symmetric == Permutations(Cases) \cup Permutations(Slots)

============================================================================

----------------------------- MODULE MCProcess -----------------------------
(* Process with two connections, every kind of address, and self tests of  *)
(* one plan with four findings.                                            *)
EXTENDS Process

CONSTANTS director, reviewer, smoke, f1, f2, f3, f4

MCJsonText == [n \in Names |-> n]
MCRuleFindings == [p \in EvaluablePlans |-> Findings]
MCSmokeFindings == <<f1, f2, f3, f4>>
MCRequests == 1 .. 13
MCCaseKeys == {<<director, 1>>}
MCHosts == {"127.0.0.1", "localhost", "0.0.0.0", "not a host"}
MCPorts == {-1, 0, 1, 65535, 65536}

============================================================================

------------------------- MODULE DurableRevisions --------------------------
(***************************************************************************)
(* What the store promises of the snapshots of cases/, said without files: *)
(* a case has a revision, 0 as long as there is none; it goes up; once a   *)
(* command is told that its revision is saved, not even a power loss       *)
(* brings the case back before it.  Nothing is promised of a file that     *)
(* something else has damaged, but for the others it makes no difference.  *)
(***************************************************************************)
EXTENDS Naturals

CONSTANT CaseFiles

VARIABLES
  revision,     \* what a reader would find now
  confirmed,    \* the highest revision a command was told of as saved
  damaged       \* files damaged from outside

vars == <<revision, confirmed, damaged>>

Init ==
  /\ revision = [f \in CaseFiles |-> 0]
  /\ confirmed = [f \in CaseFiles |-> 0]
  /\ damaged = {}

Advance(f) ==
  /\ revision'[f] \in Nat
  /\ revision'[f] > revision[f]
  /\ revision' = [revision EXCEPT ![f] = revision'[f]]
  /\ UNCHANGED <<confirmed, damaged>>

(* A file may be damaged before the command is told.                       *)
Confirm(f) ==
  /\ confirmed'[f] \in Nat
  /\ f \notin damaged => confirmed'[f] = revision[f]
  /\ confirmed' = [confirmed EXCEPT ![f] = confirmed'[f]]
  /\ UNCHANGED <<revision, damaged>>

(* What was not confirmed may be lost, of some cases and not of others.    *)
Lose ==
  /\ revision' \in [CaseFiles -> Nat]
  /\ \A f \in CaseFiles \ damaged :
       revision'[f] <= revision[f] /\ confirmed[f] <= revision'[f]
  /\ UNCHANGED <<confirmed, damaged>>

Damage(f) ==
  /\ damaged' = damaged \cup {f}
  /\ revision' = [revision EXCEPT ![f] = 0]
  /\ UNCHANGED confirmed

Next ==
  \/ \E f \in CaseFiles : Advance(f) \/ Confirm(f) \/ Damage(f)
  \/ Lose

Spec == Init /\ [][Next]_vars

============================================================================

-------------------------- MODULE SerialClearance --------------------------
(***************************************************************************)
(* What the service promises: as if every command were executed alone and  *)
(* at once on the stored case.  No copies, no retries, no crashes: a       *)
(* command that does not take effect is not there at all.                  *)
(***************************************************************************)
EXTENDS SnapshotProperties

VARIABLE db       \* the snapshot of every case, None before it is created

TypeOK == db \in [CaseKeys -> Snapshots \cup {None}]

Init == db = [key \in CaseKeys |-> None]

CreateCase(key) ==
  /\ db[key] = None
  /\ db' = [db EXCEPT ![key] = Saved(<<>>, CreatedCase(key))]

ExecuteCommand(key, r) ==
  /\ db[key] # None
  /\ Prepared(db[key].case, r)
  /\ \E c \in Results(db[key].case, r) :
       db' = [db EXCEPT ![key] = Saved(db[key].audit, c)]

Next ==
  \E key \in CaseKeys :
    \/ CreateCase(key)
    \/ \E r \in Requests : ExecuteCommand(key, r)

Spec == Init /\ [][Next]_db

----------------------------------------------------------------------------
(* Properties.                                                             *)

Stored == {key \in CaseKeys : db[key] # None}

(* The timeline has one event per revision and its last event explains the *)
(* status; pending_evaluation, which no command leaves, is never stored    *)
(* (service.go:92-113: both steps of an evaluation are saved together).    *)
TimelineIsTrue == \A key \in Stored : TimelineTells(db[key])

(* Every processed request took effect exactly once (service.go:230-236,   *)
(* case.go:241-264).                                                       *)
ExactlyOnce == \A key \in Stored : AppliedOnce(db[key])

(* No legal sequence of returns and resubmissions leads a case into a      *)
(* state where every role's command is refused (case.go:158, 180, 198).    *)
NeverStranded == \A key \in Stored : HasNextStep(db[key].case)

(* A certificate exists exactly for a released case, for its last revision *)
(* and the plan whose findings were all accepted (certificate.go:8-33,     *)
(* case.go:223-239).                                                       *)
ReleasedIsJustified == \A key \in Stored : Justified(db[key].case)

============================================================================

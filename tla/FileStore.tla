----------------------------- MODULE FileStore -----------------------------
(***************************************************************************)
(* internal/store over a file system that may lose power.  Every file is   *)
(* written by atomicWrite: a temporary file, its fsync, a rename, the      *)
(* fsync of the directory.  ClearanceService takes this for one step;      *)
(* here each of the steps may fail, and the process or the machine may     *)
(* stop between any two.                                                   *)
(*                                                                         *)
(* `tree' is the data directory as processes see it.  `pasts' holds the    *)
(* directories that may be found after a power loss.  A rename or mkdir    *)
(* becomes durable at the fsync of its directory at the latest.  If the    *)
(* file system has one journal (OneJournal), what survives is the state    *)
(* after some prefix of the operations, and the fsync of any directory     *)
(* commits all of them; POSIX alone promises less: any of the operations   *)
(* since the fsync of their own directory may be missing, in any           *)
(* combination.                                                            *)
(*                                                                         *)
(* Abstractions.  A snapshot is its revision and the evidence its findings *)
(* refer to; a content with a wrong digest is Torn.  Names of temporary    *)
(* files never end in .json nor are digests, so nothing reads those that   *)
(* a crash leaves behind, and they are not in the tree.  A file that is in *)
(* place is evidence or a snapshot of the program, whole or damaged from   *)
(* outside.                                                                *)
(***************************************************************************)
EXTENDS Naturals, FiniteSets

CONSTANTS
  CaseFiles,    \* names in cases/, one for each case
  Blobs,        \* evidence contents, each with the name its digest gives it
  Shards,       \* the directories in evidence/
  Shard,        \* the one a content belongs to, by the start of its digest
  Workers,      \* requests the server handles at the same time
  None,         \* no such file
  Torn,         \* a content that does not match its digest
  OneJournal,   \* directory operations become durable in their order
  Fresh,        \* the first start creates the data directory
  MaxRevision,  \* bound: no case is saved beyond it
  MaxDamage     \* bound: this many files are damaged from outside

CasesDir == "cases"
Dirs == Shards \cup {CasesDir}
Files == CaseFiles \cup Blobs

Dir(f) == IF f \in CaseFiles THEN CasesDir ELSE Shard[f]

Snapshots == [revision : Nat \ {0}, refs : SUBSET Blobs]

FirstSnapshot == [revision |-> 1, refs |-> {}]

(* A file: its content, and whether the content has been synced.           *)
Inodes == [data : Snapshots \cup Blobs \cup {Torn}, synced : BOOLEAN]
Whole(data) == [data |-> data, synced |-> TRUE]

ASSUME FileStoreAssumption ==
  /\ CaseFiles \cap Blobs = {}
  /\ Shard \in [Blobs -> Shards]
  /\ CasesDir \notin Shards
  /\ Torn \notin Blobs \cup Snapshots
  /\ None \notin Inodes \cup Snapshots
  /\ OneJournal \in BOOLEAN
  /\ Fresh \in BOOLEAN
  /\ MaxRevision \in Nat
  /\ MaxDamage \in Nat

Trees == [dirs : SUBSET Dirs, files : [Files -> Inodes \cup {None}]]

VARIABLES
  tree,       \* the data directory
  pasts,      \* what a power loss may leave of it
  handler,    \* what each worker is doing in the store
  granted,    \* evidence whose storage was confirmed to a running command
  confirmed,  \* the highest revision of each case that was confirmed
  damaged,    \* files damaged from outside
  up          \* the process runs

vars == <<tree, pasts, handler, granted, confirmed, damaged, up>>

Idle == [step |-> "idle"]

WriteSteps == {"write", "sync", "rename", "syncDir"}
Writing == [step : WriteSteps, file : Files, inode : Inodes]

Listing ==
  [step : {"list"}, todo : SUBSET CaseFiles,
   seen : [CaseFiles -> Snapshots \cup {None}]]

TypeOK ==
  /\ tree \in Trees
  /\ pasts \subseteq Trees
  /\ handler \in [Workers -> {Idle} \cup Writing \cup Listing]
  /\ granted \subseteq Blobs
  /\ confirmed \in [CaseFiles -> Nat]
  /\ damaged \subseteq Files
  /\ up \in BOOLEAN

(* Who holds the store's mutex.                                            *)
WriteLocked == \E w \in Workers : handler[w].step \in WriteSteps
Locked == \E w \in Workers : handler[w] # Idle

Exists(f) == tree.files[f] # None
Content(f) == tree.files[f].data

(* The digest of the file is right.                                        *)
Readable(f) == Exists(f) /\ Content(f) # Torn

Finish(w) == handler' = [handler EXCEPT ![w] = Idle]

----------------------------------------------------------------------------
(* The file system.                                                        *)

WithDir(t, d) == [t EXCEPT !.dirs = @ \cup {d}]
WithFile(t, f, inode) == [t EXCEPT !.files[f] = inode]

(* An operation Op(t) on the directory tree that is not yet durable.       *)
Apply(Op(_)) ==
  /\ tree' = Op(tree)
  /\ pasts' = pasts \cup IF OneJournal THEN {Op(tree)} ELSE {Op(t) : t \in pasts}

MkdirAll(d) ==
  IF d \in tree.dirs THEN UNCHANGED <<tree, pasts>>
  ELSE LET Op(t) == WithDir(t, d) IN Apply(Op)

(* fsync of directory d: its entries are durable, those of d's parent,     *)
(* and with them d itself, only if they are in the same journal.           *)
Synced(t, d) ==
  [t EXCEPT !.files = [f \in Files |-> IF Dir(f) = d THEN tree.files[f] ELSE @[f]]]

FsyncDir(d) ==
  pasts' = IF OneJournal THEN {tree} ELSE {Synced(t, d) : t \in pasts}

(* The directory a power loss leaves: the files whose directory is there,  *)
(* with any content, for which Torn stands, if it was not synced.          *)
Found(t) ==
  [t EXCEPT !.files =
     [f \in Files |->
        IF @[f] = None \/ Dir(f) \notin t.dirs THEN None
        ELSE IF @[f].synced THEN @[f]
        ELSE Whole(Torn)]]

----------------------------------------------------------------------------
(* Reading.  List, under the read lock, opens every snapshot; the queue,   *)
(* certificate verification and the health check are made from it.         *)

BeginList(w) ==
  /\ up /\ handler[w] = Idle /\ ~ WriteLocked
  /\ handler' = [handler EXCEPT ![w] =
                   [step |-> "list", todo |-> {f \in CaseFiles : Exists(f)},
                    seen |-> [f \in CaseFiles |-> None]]]
  /\ UNCHANGED <<tree, pasts, granted, confirmed, damaged, up>>

(* Fault: what cannot be read is passed over.                              *)
ReadSnapshotLeniently(w) ==
  /\ handler[w].step = "list"
  /\ \E f \in handler[w].todo :
       handler' = [handler EXCEPT ![w].todo = @ \ {f},
                     ![w].seen[f] = IF Readable(f) THEN Content(f) ELSE None]
  /\ UNCHANGED <<tree, pasts, granted, confirmed, damaged, up>>

ReadSnapshot(w) ==
  /\ handler[w].step = "list"
  /\ \E f \in handler[w].todo :
       IF Readable(f)
       THEN handler' = [handler EXCEPT ![w].todo = @ \ {f},
                                       ![w].seen[f] = Content(f)]
       ELSE Finish(w)                       \* one bad file: no list at all
  /\ UNCHANGED <<tree, pasts, granted, confirmed, damaged, up>>

AnswerList(w) ==
  /\ handler[w].step = "list"
  /\ handler[w].todo = {}
  /\ Finish(w)
  /\ UNCHANGED <<tree, pasts, granted, confirmed, damaged, up>>

----------------------------------------------------------------------------
(* Writing.  Each operation takes the write lock, looks at the file that   *)
(* is there and, if it agrees with it, starts atomicWrite.                 *)

BeginWrite(w, f, data) ==
  handler' = [handler EXCEPT ![w] =
                [step |-> "write", file |-> f,
                 inode |-> [data |-> data, synced |-> FALSE]]]

Create(w, f) ==
  /\ up /\ handler[w] = Idle /\ ~ Locked
  /\ ~ Exists(f)                            \* else ErrConflict
  /\ BeginWrite(w, f, FirstSnapshot)
  /\ UNCHANGED <<tree, pasts, granted, confirmed, damaged, up>>

(* Fault: the command's copy is written over whatever is there.            *)
SaveUnread(w, f) ==
  /\ up /\ handler[w] = Idle /\ ~ Locked
  /\ Exists(f)
  /\ \E n \in 1 .. MaxRevision :
       /\ (Readable(f) => n > Content(f).revision)
       /\ BeginWrite(w, f, [revision |-> n, refs |-> {}])
  /\ UNCHANGED <<tree, pasts, granted, confirmed, damaged, up>>

(* A command that started from the revision that is still there.  Its      *)
(* case refers to evidence it had and to evidence stored for it since.     *)
Save(w, f) ==
  /\ up /\ handler[w] = Idle /\ ~ Locked
  /\ Readable(f)                            \* else the error of readSnapshot
  /\ \E n \in (Content(f).revision + 1) .. MaxRevision,
        refs \in SUBSET (Content(f).refs \cup granted) :
       BeginWrite(w, f, [revision |-> n, refs |-> refs])
  /\ UNCHANGED <<tree, pasts, granted, confirmed, damaged, up>>

(* Fault: evidence is confirmed when its writing begins.                   *)
PutEvidenceEarly(w, b) ==
  /\ up /\ handler[w] = Idle /\ ~ Locked
  /\ MkdirAll(Shard[b])
  /\ granted' = granted \cup {b}
  /\ IF Exists(b) THEN UNCHANGED handler ELSE BeginWrite(w, b, b)
  /\ UNCHANGED <<confirmed, damaged, up>>

(* Fault: a file of the right name is taken for the evidence.              *)
PutEvidenceByName(w, b) ==
  /\ up /\ handler[w] = Idle /\ ~ Locked
  /\ MkdirAll(Shard[b])
  /\ IF ~ Exists(b)
     THEN BeginWrite(w, b, b) /\ UNCHANGED granted
     ELSE granted' = granted \cup {b} /\ UNCHANGED handler
  /\ UNCHANGED <<confirmed, damaged, up>>

(* Evidence that is there already is not written again, nor synced.        *)
PutEvidence(w, b) ==
  /\ up /\ handler[w] = Idle /\ ~ Locked
  /\ MkdirAll(Shard[b])
  /\ IF ~ Exists(b)
     THEN BeginWrite(w, b, b) /\ UNCHANGED granted
     ELSE /\ granted' = IF Content(b) = b THEN granted \cup {b} ELSE granted
          /\ UNCHANGED handler
  /\ UNCHANGED <<confirmed, damaged, up>>

----------------------------------------------------------------------------
(* atomicWrite.                                                            *)

Step(w, from, to) ==
  /\ handler[w].step = from
  /\ handler' = [handler EXCEPT ![w].step = to]

(* CreateTemp, Chmod and Write.                                            *)
WriteTemp(w) ==
  /\ Step(w, "write", "sync")
  /\ UNCHANGED <<tree, pasts, granted, confirmed, damaged, up>>

(* Fault: the file is closed without being synced.                         *)
CloseTemp(w) ==
  /\ Step(w, "sync", "rename")
  /\ UNCHANGED <<tree, pasts, granted, confirmed, damaged, up>>

(* Sync and Close.                                                         *)
SyncTemp(w) ==
  /\ handler[w].step = "sync"
  /\ handler' = [handler EXCEPT ![w].step = "rename", ![w].inode.synced = TRUE]
  /\ UNCHANGED <<tree, pasts, granted, confirmed, damaged, up>>

Rename(w) ==
  /\ Step(w, "rename", "syncDir")
  /\ LET h == handler[w]
         Op(t) == WithFile(t, h.file, h.inode)
     IN  Apply(Op)
  /\ UNCHANGED <<granted, confirmed, damaged, up>>

(* The caller is told that its file is saved.                              *)
Confirm(h) ==
  IF h.file \in CaseFiles
  THEN /\ confirmed' = [confirmed EXCEPT ![h.file] = h.inode.data.revision]
       /\ UNCHANGED granted
  ELSE /\ granted' = granted \cup {h.file}
       /\ UNCHANGED confirmed

(* Fault: atomicWrite returns after the rename.                            *)
ReturnEarly(w) ==
  /\ handler[w].step = "syncDir"
  /\ Confirm(handler[w])
  /\ Finish(w)
  /\ UNCHANGED <<tree, pasts, damaged, up>>

SyncDir(w) ==
  /\ handler[w].step = "syncDir"
  /\ FsyncDir(Dir(handler[w].file))
  /\ Confirm(handler[w])
  /\ Finish(w)
  /\ UNCHANGED <<tree, damaged, up>>

(* Any step fails: the temporary file is removed and the caller hears of   *)
(* an error, also if the rename is done.  A listing may fail likewise.     *)
Fail(w) ==
  /\ handler[w] # Idle
  /\ Finish(w)
  /\ UNCHANGED <<tree, pasts, granted, confirmed, damaged, up>>

----------------------------------------------------------------------------
(* Stops, starts and damage.                                               *)

Stop ==
  /\ handler' = [w \in Workers |-> Idle]
  /\ granted' = {}
  /\ up' = FALSE

Crash ==
  /\ up
  /\ Stop
  /\ UNCHANGED <<tree, pasts, confirmed, damaged>>

PowerLoss ==
  /\ Stop
  /\ \E t \in pasts : tree' = Found(t)
  /\ pasts' = {tree'}
  /\ UNCHANGED <<confirmed, damaged>>

(* validateExisting: every snapshot and the evidence it refers to is       *)
(* there with its digest.                                                  *)
CanStart(t) ==
  \A f \in CaseFiles :
    t.files[f] # None =>
      /\ t.files[f].data # Torn
      /\ \A b \in t.files[f].data.refs :
           t.files[b] # None /\ t.files[b].data = b

Restart ==
  /\ ~ up
  /\ CanStart(tree)
  /\ MkdirAll(CasesDir)
  /\ up' = TRUE
  /\ UNCHANGED <<handler, granted, confirmed, damaged>>

(* A file is damaged by something else than the service, at any moment: no *)
(* lock of the service keeps it off.                                       *)
Damage(f) ==
  /\ Cardinality(damaged) < MaxDamage
  /\ Readable(f)
  /\ LET rotten(t) == IF t.files[f] = tree.files[f]
                      THEN WithFile(t, f, Whole(Torn)) ELSE t
     IN  /\ tree' = rotten(tree)
         /\ pasts' = {rotten(t) : t \in pasts}
  /\ damaged' = damaged \cup {f}
  /\ UNCHANGED <<handler, granted, confirmed, up>>

----------------------------------------------------------------------------

EmptyTree(dirs) == [dirs |-> dirs, files |-> [f \in Files |-> None]]

(* The first start is over.                                                *)
Init ==
  /\ tree = EmptyTree({CasesDir})
  /\ pasts = IF Fresh THEN {EmptyTree({}), tree} ELSE {tree}
  /\ handler = [w \in Workers |-> Idle]
  /\ granted = {}
  /\ confirmed = [f \in CaseFiles |-> 0]
  /\ damaged = {}
  /\ up = TRUE

Next ==
  \/ \E w \in Workers :
       \/ BeginList(w) \/ ReadSnapshot(w) \/ AnswerList(w)
       \/ \E f \in CaseFiles : Create(w, f) \/ Save(w, f)
       \/ \E b \in Blobs : PutEvidence(w, b)
       \/ WriteTemp(w) \/ SyncTemp(w) \/ Rename(w) \/ SyncDir(w)
       \/ Fail(w)
  \/ Crash
  \/ PowerLoss
  \/ Restart
  \/ \E f \in Files : Damage(f)

Spec == Init /\ [][Next]_vars

----------------------------------------------------------------------------
(* Properties.                                                             *)

Revision(t, f) ==
  IF t.files[f] = None \/ t.files[f].data = Torn THEN 0
  ELSE t.files[f].data.revision

(* Whenever the power fails, there is either no file or a complete one     *)
(* under every name (snapshot.go:92-98).                                   *)
NoTornFile ==
  \A t \in pasts \cup {tree}, f \in Files \ damaged :
    Found(t).files[f] # None => Found(t).files[f].data # Torn

(* A revision that was confirmed to a command is never lost                *)
(* (snapshot.go:98-108).                                                   *)
ConfirmedSurvives ==
  \A t \in pasts, f \in CaseFiles \ damaged :
    confirmed[f] <= Revision(Found(t), f)

(* Whenever the power fails, what is left passes the validation at start:  *)
(* no snapshot is more durable than the evidence it refers to              *)
(* (evidence.go:36-54, store.go:188-223).                                  *)
StartsAfterPowerLoss == damaged = {} => \A t \in pasts : CanStart(Found(t))

(* A list that is answered has every case there is, as it is at that       *)
(* moment, and nothing that fails its digest (store.go:117-150).           *)
ListIsComplete ==
  \A w \in Workers :
    (handler[w].step = "list" /\ handler[w].todo = {}) =>
      \A f \in CaseFiles :
        /\ Exists(f) <=> handler[w].seen[f] # None
        /\ (Exists(f) /\ f \notin damaged) => handler[w].seen[f] = Content(f)

(* A write of f that has still to rename: it looked at f under the lock,   *)
(* and will not look again.                                                *)
Replacing(f) ==
  \E w \in Workers :
    handler[w].step \in {"write", "sync", "rename"} /\ handler[w].file = f

LyingDamaged(f) == Exists(f) /\ ~ Readable(f) /\ ~ Replacing(f)

(* Damage that is there when a command looks stays as it is: no command    *)
(* replaces the file or begins to, and its trace is kept until a power     *)
(* loss (store.go:100-106, evidence.go:41-49).  Damage to a file whose     *)
(* replacement is under way is not seen; it is covered up if that succeeds *)
(* and lies there if it fails.                                             *)
DamageStays ==
  \A f \in Files :
    (LyingDamaged(f) /\ up') =>
      tree'.files[f] = tree.files[f] /\ LyingDamaged(f)'

DamageIsNeverCoveredUp == [][DamageStays]_vars

(* Evidence that is confirmed to a command is there with its digest, but   *)
(* for damage that hit it while it was being written (evidence.go:41-52).  *)
GrantsAreGenuine ==
  \A b \in granted' \ granted :
    \/ tree'.files[b].data = b
    \/ /\ b \in damaged
       /\ \E w \in Workers : handler[w].step = "syncDir" /\ handler[w].file = b
GrantedEvidenceIsGenuine == [][GrantsAreGenuine]_vars

Durable == INSTANCE DurableRevisions
             WITH revision <- [f \in CaseFiles |-> Revision(tree, f)],
                  damaged <- damaged \cap CaseFiles

(* Seen by revisions, the steps of atomicWrite, their failures, crashes    *)
(* and power losses are a register that never forgets what it confirmed.   *)
ImplementsDurableRevisions == Durable!Spec

============================================================================

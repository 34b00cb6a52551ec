--------------------------- MODULE FileStoreProofs --------------------------
(***************************************************************************)
(* Proofs about FileStore, for any files, workers and bounds, and for both *)
(* kinds of file systems unless a theorem names one.                       *)
(***************************************************************************)
EXTENDS FileStore, FiniteSetTheorems, TLAPS

USE FileStoreAssumption

----------------------------------------------------------------------------
(* The inductive invariant.                                                *)

DataOf(f) == IF f \in CaseFiles THEN Snapshots ELSE {f}

FileOK(f, i) ==
  i # None =>
    /\ i.synced
    /\ i.data \in DataOf(f) \cup {Torn}
    /\ f \notin damaged => i.data # Torn

(* With one journal no file outlives the directory it is in.  Without, one *)
(* can still rely on directories that were there before the first start.   *)
DirsOK(t) ==
  /\ OneJournal => \A f \in Files : t.files[f] # None => Dir(f) \in t.dirs
  /\ (~ OneJournal /\ ~ Fresh) => CasesDir \in t.dirs

(* No snapshot outlives the evidence it refers to: with one journal never, *)
(* without one as long as the process runs.                                *)
RefsThere(t) ==
  \A f \in CaseFiles :
    (t.files[f] # None /\ t.files[f].data # Torn) =>
      \A b \in t.files[f].data.refs : t.files[b] # None

RefsOK(t) == OneJournal => RefsThere(t)

PastOK(t) ==
  /\ \A f \in Files : FileOK(f, t.files[f])
  /\ DirsOK(t)
  /\ RefsOK(t)

PastsOK == tree \in pasts /\ \A t \in pasts : PastOK(t)

(* The file system keeps what was confirmed to be in cases/.               *)
Trusted == OneJournal \/ ~ Fresh

RevisionsOK ==
  Trusted =>
    \A t \in pasts, f \in CaseFiles \ damaged :
      /\ confirmed[f] <= Revision(t, f)
      /\ Revision(t, f) <= Revision(tree, f)

(* What a worker is about to put in place continues what is there, and     *)
(* once it is in place only damage changes it.                             *)
WriterOK(h) ==
  /\ up
  /\ h.inode.data \in DataOf(h.file)
  /\ Dir(h.file) \in tree.dirs
  /\ h.step \in {"rename", "syncDir"} => h.inode.synced
  /\ h.step = "syncDir" =>
       \/ tree.files[h.file] = h.inode
       \/ h.file \in damaged /\ tree.files[h.file] = Whole(Torn)
  /\ (h.step # "syncDir" /\ h.file \in CaseFiles) =>
       Revision(tree, h.file) < h.inode.data.revision
  /\ h.file \in CaseFiles => \A b \in h.inode.data.refs : Exists(b)

ReaderOK(h) ==
  /\ up
  /\ \A f \in CaseFiles :
       IF f \in h.todo THEN Exists(f)
       ELSE /\ Exists(f) <=> h.seen[f] # None
            /\ (Exists(f) /\ f \notin damaged) => h.seen[f] = Content(f)

HandlerOK(w) ==
  /\ handler[w].step \in WriteSteps => WriterOK(handler[w])
  /\ handler[w].step = "list" => ReaderOK(handler[w])

HandlersOK == \A w \in Workers : HandlerOK(w)

(* A writer is alone with the store.                                       *)
Mutex ==
  \A v, w \in Workers :
    (handler[v].step \in WriteSteps /\ handler[w] # Idle) => v = w

OthersOK ==
  /\ up => CasesDir \in tree.dirs /\ RefsThere(tree)
  /\ \A b \in granted : Exists(b)

IInv == TypeOK /\ PastsOK /\ RevisionsOK /\ HandlersOK /\ Mutex /\ OthersOK

----------------------------------------------------------------------------
(* The operations on directory trees.                                      *)

LEMMA WithDirIs ==
  ASSUME NEW t \in Trees, NEW d \in Dirs
  PROVE  /\ WithDir(t, d) \in Trees
         /\ WithDir(t, d).files = t.files
         /\ WithDir(t, d).dirs = t.dirs \cup {d}
BY DEF WithDir, Trees

LEMMA WithFileIs ==
  ASSUME NEW t \in Trees, NEW f \in Files, NEW i \in Inodes
  PROVE  /\ WithFile(t, f, i) \in Trees
         /\ WithFile(t, f, i).dirs = t.dirs
         /\ WithFile(t, f, i).files[f] = i
         /\ \A g \in Files : g # f => WithFile(t, f, i).files[g] = t.files[g]
BY DEF WithFile, Trees

LEMMA SyncedIs ==
  ASSUME NEW t \in Trees, tree \in Trees, NEW d
  PROVE  /\ Synced(t, d) \in Trees
         /\ Synced(t, d).dirs = t.dirs
         /\ \A f \in Files :
              Synced(t, d).files[f] = IF Dir(f) = d THEN tree.files[f] ELSE t.files[f]
BY DEF Synced, Trees

LEMMA FoundIs ==
  ASSUME NEW t \in Trees, \A f \in Files : t.files[f] # None => t.files[f].synced
  PROVE  /\ Found(t) \in Trees
         /\ Found(t).dirs = t.dirs
         /\ \A f \in Files :
              Found(t).files[f] = IF Dir(f) \notin t.dirs THEN None ELSE t.files[f]
BY DEF Found, Trees

LEMMA RevisionIs ==
  ASSUME NEW t \in Trees, NEW f \in CaseFiles, FileOK(f, t.files[f])
  PROVE  Revision(t, f) \in Nat
<1>1. CASE t.files[f] = None \/ t.files[f].data = Torn
  BY <1>1 DEF Revision
<1>2. CASE t.files[f] # None /\ t.files[f].data # Torn
  <2>1. t.files[f].data \in Snapshots
    BY <1>2 DEF FileOK, DataOf
  <2> QED  BY <1>2, <2>1 DEF Revision, Snapshots
<1> QED  BY <1>1, <1>2

(* What a tree of directories keeps when a directory is added, a file is   *)
(* put in place, or the power fails.                                       *)
LEMMA MoreDirs ==
  ASSUME NEW t \in Trees, PastOK(t), NEW u \in Trees,
         u.files = t.files, t.dirs \subseteq u.dirs
  PROVE  PastOK(u)
BY DEF PastOK, DirsOK, RefsOK, RefsThere

LEMMA Intact ==
  ASSUME NEW f \in Files, NEW i \in Inodes, i.synced, i.data \in DataOf(f)
  PROVE  FileOK(f, i)
BY DEF FileOK, DataOf, Files

LEMMA MoreRefs ==
  ASSUME NEW t \in Trees, PastOK(t), RefsThere(t),
         NEW f \in Files, NEW i \in Inodes, FileOK(f, i),
         (f \in CaseFiles /\ i.data # Torn) =>
           \A b \in i.data.refs : t.files[b] # None
  PROVE  RefsThere(WithFile(t, f, i))
<1> DEFINE u == WithFile(t, f, i)
<1>1. /\ u.files[f] = i
      /\ \A g \in Files : g # f => u.files[g] = t.files[g]
  BY WithFileIs
<1>2. i # None
  BY DEF Inodes
<1> HIDE DEF u
<1> SUFFICES ASSUME NEW c \in CaseFiles,
                    u.files[c] # None, u.files[c].data # Torn,
                    NEW b \in u.files[c].data.refs
             PROVE  u.files[b] # None
  BY DEF RefsThere, u
<1>3. c \in Files /\ FileOK(c, u.files[c])
  BY <1>1 DEF Files, PastOK
<1>4. b \in Files
  BY <1>3 DEF FileOK, DataOf, Snapshots, Files
<1>5. CASE c = f
  BY <1>1, <1>2, <1>4, <1>5
<1>6. CASE c # f
  BY <1>1, <1>2, <1>3, <1>4, <1>6 DEF RefsThere
<1> QED  BY <1>5, <1>6

LEMMA MoreFiles ==
  ASSUME NEW t \in Trees, PastOK(t), NEW f \in Files, NEW i \in Inodes,
         FileOK(f, i), OneJournal => Dir(f) \in t.dirs,
         (OneJournal /\ f \in CaseFiles /\ i.data # Torn) =>
           \A b \in i.data.refs : t.files[b] # None
  PROVE  PastOK(WithFile(t, f, i))
<1> DEFINE u == WithFile(t, f, i)
<1>1. /\ u.dirs = t.dirs
      /\ u.files[f] = i
      /\ \A g \in Files : g # f => u.files[g] = t.files[g]
  BY WithFileIs
<1>2. RefsOK(u)
  BY MoreRefs DEF PastOK, RefsOK
<1> HIDE DEF u
<1>3. \A g \in Files : FileOK(g, u.files[g])
  BY <1>1 DEF PastOK
<1>4. DirsOK(u)
  BY <1>1 DEF PastOK, DirsOK
<1> QED  BY <1>2, <1>3, <1>4 DEF PastOK, u

LEMMA FoundKeeps ==
  ASSUME NEW t \in Trees, PastOK(t)
  PROVE  /\ Found(t) \in Trees
         /\ PastOK(Found(t))
         /\ Trusted => \A f \in CaseFiles : Found(t).files[f] = t.files[f]
         /\ OneJournal => \A f \in Files : Found(t).files[f] = t.files[f]
<1> DEFINE u == Found(t)
<1>1. \A f \in Files : t.files[f] # None => t.files[f].synced
  BY DEF PastOK, FileOK
<1>2. /\ u \in Trees
      /\ u.dirs = t.dirs
      /\ \A f \in Files :
           u.files[f] = IF Dir(f) \notin t.dirs THEN None ELSE t.files[f]
  BY <1>1, FoundIs
<1> HIDE DEF u
<1>3. OneJournal => \A f \in Files : u.files[f] = t.files[f]
  BY <1>2 DEF PastOK, DirsOK
<1>4. Trusted => \A f \in CaseFiles : u.files[f] = t.files[f]
  <2>1. \A f \in CaseFiles : f \in Files /\ Dir(f) = CasesDir
    BY DEF Files, Dir
  <2> QED  BY <1>2, <1>3, <2>1 DEF PastOK, DirsOK, Trusted
<1>5. \A f \in Files : FileOK(f, u.files[f])
  BY <1>2 DEF PastOK, FileOK
<1>6. DirsOK(u)
  BY <1>2, <1>3 DEF PastOK, DirsOK
<1>7. RefsOK(u)
  <2> SUFFICES ASSUME OneJournal, NEW c \in CaseFiles,
                      u.files[c] # None, u.files[c].data # Torn,
                      NEW b \in u.files[c].data.refs
               PROVE  u.files[b] # None
    BY DEF RefsOK, RefsThere
  <2>1. c \in Files /\ FileOK(c, u.files[c])
    BY <1>5 DEF Files
  <2>2. b \in Files
    BY <2>1 DEF FileOK, DataOf, Snapshots, Files
  <2> QED  BY <1>3, <2>1, <2>2 DEF PastOK, RefsOK, RefsThere
<1> QED  BY <1>2, <1>3, <1>4, <1>5, <1>6, <1>7 DEF PastOK, u

LEMMA SyncedKeeps ==
  ASSUME NEW t \in Trees, PastOK(t), tree \in Trees, PastOK(tree), ~ OneJournal,
         NEW d
  PROVE  PastOK(Synced(t, d))
<1> DEFINE u == Synced(t, d)
<1>1. /\ u.dirs = t.dirs
      /\ \A f \in Files :
           u.files[f] = IF Dir(f) = d THEN tree.files[f] ELSE t.files[f]
  BY SyncedIs
<1> HIDE DEF u
<1>2. \A f \in Files : FileOK(f, u.files[f])
  BY <1>1 DEF PastOK
<1>3. DirsOK(u) /\ RefsOK(u)
  BY <1>1 DEF PastOK, DirsOK, RefsOK, RefsThere
<1> QED  BY <1>2, <1>3 DEF PastOK, u

----------------------------------------------------------------------------
(* What a step of one worker keeps.                                        *)

Tasks == {Idle} \cup Writing \cup Listing

LEMMA TaskSteps ==
  ASSUME NEW h \in Tasks
  PROVE  /\ h = Idle => h.step = "idle"
         /\ h \in Writing <=> h.step \in WriteSteps
         /\ h \in Listing <=> h.step = "list"
         /\ h = Idle \/ h \in Writing \/ h \in Listing
BY DEF Tasks, Idle, Writing, Listing, WriteSteps

LEMMA SameFiles ==
  ASSUME PastsOK, RevisionsOK, UNCHANGED <<tree, pasts, confirmed, damaged>>
  PROVE  PastsOK' /\ RevisionsOK'
BY DEF PastsOK, PastOK, FileOK, DirsOK, RefsOK, RefsThere, RevisionsOK, Revision

LEMMA SameHandler ==
  ASSUME NEW v \in Workers, HandlerOK(v), handler'[v] = handler[v],
         UNCHANGED <<tree, damaged, up>>
  PROVE  HandlerOK(v)'
BY DEF HandlerOK, WriterOK, ReaderOK, Exists, Readable, Content, Revision

LEMMA IdleHandler ==
  ASSUME NEW v \in Workers, handler'[v] = Idle
  PROVE  HandlerOK(v)'
BY DEF HandlerOK, Idle, WriteSteps

LEMMA MutexKept ==
  ASSUME Mutex, NEW w \in Workers,
         \A v \in Workers \ {w} : handler'[v] = handler[v],
         handler'[w].step \in WriteSteps =>
           handler[w].step \in WriteSteps \/ ~ Locked,
         handler'[w] # Idle => handler[w] # Idle \/ ~ WriteLocked
  PROVE  Mutex'
BY DEF Mutex, Locked, WriteLocked

(* A step that moves worker w on and changes no file.                      *)
LEMMA Moved ==
  ASSUME IInv, NEW w \in Workers, handler' \in [Workers -> Tasks],
         UNCHANGED <<tree, pasts, damaged, confirmed, granted, up>>,
         \A v \in Workers \ {w} : handler'[v] = handler[v],
         handler'[w].step \in WriteSteps =>
           handler[w].step \in WriteSteps \/ ~ Locked,
         handler'[w] # Idle => handler[w] # Idle \/ ~ WriteLocked,
         HandlerOK(w)'
  PROVE  IInv'
<1>1. TypeOK'
  BY DEF IInv, TypeOK, Tasks
<1>2. PastsOK' /\ RevisionsOK'
  BY SameFiles DEF IInv
<1>3. HandlersOK'
  BY SameHandler DEF IInv, HandlersOK
<1>4. Mutex'
  BY MutexKept DEF IInv
<1>5. OthersOK'
  BY DEF IInv, OthersOK, RefsThere, Exists
<1> QED  BY <1>1, <1>2, <1>3, <1>4, <1>5 DEF IInv

LEMMA Finished ==
  ASSUME IInv, NEW w \in Workers, Finish(w),
         UNCHANGED <<tree, pasts, damaged, confirmed, granted, up>>
  PROVE  IInv'
<1>1. handler \in [Workers -> Tasks]
  BY DEF IInv, TypeOK, Tasks
<1>2. /\ handler' \in [Workers -> Tasks]
      /\ handler'[w] = Idle
      /\ \A v \in Workers \ {w} : handler'[v] = handler[v]
  BY <1>1 DEF Finish, Tasks
<1>3. handler'[w].step \notin WriteSteps
  BY <1>2 DEF Idle, WriteSteps
<1>4. HandlerOK(w)'
  BY <1>2, IdleHandler
<1> QED  BY <1>2, <1>3, <1>4, Moved

----------------------------------------------------------------------------
(* One lemma for each action.                                              *)

LEMMA HandlerOf ==
  ASSUME TypeOK, NEW w \in Workers, NEW STATE h, h \in Tasks,
         handler' = [handler EXCEPT ![w] = h]
  PROVE  /\ handler' \in [Workers -> Tasks]
         /\ handler'[w] = h
         /\ \A v \in Workers \ {w} : handler'[v] = handler[v]
BY DEF TypeOK, Tasks

LEMMA BeginListKeeps ==
  ASSUME IInv, NEW w \in Workers, BeginList(w)
  PROVE  IInv'
<1> DEFINE h == [step |-> "list", todo |-> {f \in CaseFiles : Exists(f)},
                 seen |-> [f \in CaseFiles |-> None]]
<1>1. h \in Listing
  BY DEF Listing
<1>2. /\ handler' = [handler EXCEPT ![w] = h]
      /\ h \in Tasks
  BY <1>1 DEF BeginList, Tasks
<1>3. /\ h.step = "list"
      /\ \A f \in CaseFiles : f \in h.todo <=> Exists(f)
      /\ \A f \in CaseFiles : h.seen[f] = None
  OBVIOUS
<1> HIDE DEF h
<1>4. /\ handler' \in [Workers -> Tasks]
      /\ handler'[w] = h
      /\ \A v \in Workers \ {w} : handler'[v] = handler[v]
  BY <1>2, HandlerOf DEF IInv
<1>5. HandlerOK(w)'
  BY <1>3, <1>4 DEF BeginList, HandlerOK, ReaderOK, Exists, WriteSteps
<1>6. handler'[w].step \notin WriteSteps
  BY <1>3, <1>4 DEF WriteSteps
<1> QED  BY <1>4, <1>5, <1>6, Moved DEF BeginList

LEMMA ReadSnapshotKeeps ==
  ASSUME IInv, NEW w \in Workers, ReadSnapshot(w)
  PROVE  IInv'
<1>1. PICK f \in handler[w].todo :
        IF Readable(f)
        THEN handler' = [handler EXCEPT ![w].todo = @ \ {f},
                                        ![w].seen[f] = Content(f)]
        ELSE Finish(w)
  BY DEF ReadSnapshot
<1>2. CASE ~ Readable(f)
  BY <1>1, <1>2, Finished DEF ReadSnapshot
<1>3. CASE Readable(f)
  <2> DEFINE h == [handler[w] EXCEPT !.todo = @ \ {f}, !.seen[f] = Content(f)]
  <2>1. handler[w] \in Listing /\ HandlerOK(w)
    BY TaskSteps DEF IInv, TypeOK, Tasks, HandlersOK, ReadSnapshot
  <2>2. f \in CaseFiles /\ f \in Files
    BY <2>1 DEF Listing, Files
  <2>3. FileOK(f, tree.files[f])
    BY <2>2 DEF IInv, PastsOK, PastOK
  <2>4. Content(f) \in Snapshots
    BY <1>3, <2>2, <2>3 DEF Readable, Exists, Content, FileOK, DataOf
  <2>5. handler' = [handler EXCEPT ![w] = h]
    BY <1>1, <1>3 DEF IInv, TypeOK
  <2>6. /\ h.step = "list"
        /\ h.todo = handler[w].todo \ {f}
        /\ h.seen \in [CaseFiles -> Snapshots \cup {None}]
        /\ h.seen[f] = Content(f)
        /\ \A g \in CaseFiles \ {f} : h.seen[g] = handler[w].seen[g]
        /\ h \in Listing
    BY <2>1, <2>2, <2>4 DEF Listing
  <2> HIDE DEF h
  <2>7. /\ handler' \in [Workers -> Tasks]
        /\ handler'[w] = h
        /\ \A v \in Workers \ {w} : handler'[v] = handler[v]
    BY <2>5, <2>6, HandlerOf DEF IInv, Tasks
  <2>8. None \notin Snapshots
    OBVIOUS
  <2>9. ReaderOK(handler[w])
    BY <2>1 DEF ReadSnapshot, HandlerOK
  <2>10. HandlerOK(w)'
    <3>1. UNCHANGED <<tree, damaged, up>>
      BY DEF ReadSnapshot
    <3>2. Exists(f)
      BY <1>3 DEF Readable
    <3>3. ASSUME NEW g \in CaseFiles
          PROVE  IF g \in h.todo THEN Exists(g)
                 ELSE /\ Exists(g) <=> h.seen[g] # None
                      /\ (Exists(g) /\ g \notin damaged) =>
                           h.seen[g] = Content(g)
      <4>1. CASE g = f
        BY <2>4, <2>6, <2>8, <3>2, <4>1
      <4>2. CASE g # f
        BY <2>6, <2>9, <4>2 DEF ReaderOK
      <4> QED  BY <4>1, <4>2
    <3>4. ReaderOK(handler[w])'
      BY <2>7, <2>9, <3>1, <3>3 DEF ReaderOK, Exists, Content
    <3> QED  BY <2>6, <2>7, <3>4 DEF HandlerOK, WriteSteps
  <2>11. handler'[w].step \notin WriteSteps
    BY <2>6, <2>7 DEF WriteSteps
  <2>12. handler[w] # Idle
    BY DEF ReadSnapshot, Idle
  <2> QED  BY <2>7, <2>10, <2>11, <2>12, Moved DEF ReadSnapshot
<1> QED  BY <1>2, <1>3

(* A worker that starts to write a file.                                   *)
LEMMA Begun ==
  ASSUME IInv, NEW w \in Workers, NEW f \in Files, NEW data \in DataOf(f),
         up, ~ Locked, BeginWrite(w, f, data),
         UNCHANGED <<tree, pasts, damaged, confirmed, granted, up>>,
         Dir(f) \in tree.dirs,
         f \in CaseFiles =>
           /\ Revision(tree, f) < data.revision
           /\ \A b \in data.refs : Exists(b)
  PROVE  IInv'
<1> DEFINE i == [data |-> data, synced |-> FALSE]
           h == [step |-> "write", file |-> f, inode |-> i]
<1>1. i \in Inodes
  BY DEF Inodes, DataOf, Files
<1>2. h \in Writing
  BY <1>1 DEF Writing, WriteSteps
<1>3. /\ h.step = "write" /\ h.file = f /\ h.inode = i
      /\ i.data = data
      /\ handler' = [handler EXCEPT ![w] = h]
      /\ h \in Tasks
  BY <1>2 DEF BeginWrite, Tasks
<1> HIDE DEF i, h
<1>4. /\ handler' \in [Workers -> Tasks]
      /\ handler'[w] = h
      /\ \A v \in Workers \ {w} : handler'[v] = handler[v]
  BY <1>3, HandlerOf DEF IInv
<1>5. WriterOK(h)'
  BY <1>3 DEF WriterOK, Exists, Revision
<1>6. HandlerOK(w)'
  BY <1>3, <1>4, <1>5 DEF HandlerOK
<1>7. ~ WriteLocked
  BY DEF Locked, WriteLocked, Idle, WriteSteps
<1> QED  BY <1>4, <1>6, <1>7, Moved

LEMMA CreateKeeps ==
  ASSUME IInv, NEW w \in Workers, NEW f \in CaseFiles, Create(w, f)
  PROVE  IInv'
<1>1. f \in Files /\ Dir(f) = CasesDir
  BY DEF Files, Dir
<1>2. /\ FirstSnapshot \in DataOf(f)
      /\ FirstSnapshot.revision = 1
      /\ FirstSnapshot.refs = {}
  BY DEF FirstSnapshot, DataOf, Snapshots
<1>3. Revision(tree, f) = 0
  BY DEF Create, Exists, Revision
<1> QED  BY <1>1, <1>2, <1>3, Begun DEF Create, IInv, OthersOK

LEMMA SaveKeeps ==
  ASSUME IInv, NEW w \in Workers, NEW f \in CaseFiles, Save(w, f)
  PROVE  IInv'
<1>1. f \in Files /\ Dir(f) = CasesDir
  BY DEF Files, Dir
<1>2. Exists(f) /\ Content(f) # Torn
  BY DEF Save, Readable
<1>3. PastOK(tree)
  BY DEF IInv, PastsOK
<1>4. Content(f) \in Snapshots
  BY <1>1, <1>2, <1>3 DEF PastOK, FileOK, DataOf, Exists, Content
<1>5. Revision(tree, f) = Content(f).revision
  BY <1>2 DEF Exists, Revision, Content
<1>6. PICK n \in (Content(f).revision + 1) .. MaxRevision :
        \E refs \in SUBSET (Content(f).refs \cup granted) :
          BeginWrite(w, f, [revision |-> n, refs |-> refs])
  BY DEF Save
<1>7. PICK refs \in SUBSET (Content(f).refs \cup granted) :
        BeginWrite(w, f, [revision |-> n, refs |-> refs])
  BY <1>6
<1> DEFINE data == [revision |-> n, refs |-> refs]
<1>8. refs \subseteq Blobs
  BY <1>4, <1>7 DEF IInv, TypeOK, Snapshots
<1>9. n \in Nat \ {0} /\ Content(f).revision < n
  BY <1>4, <1>6 DEF Snapshots
<1>10. data \in DataOf(f)
  BY <1>8, <1>9 DEF DataOf, Snapshots
<1>11. data.revision = n /\ data.refs = refs /\ BeginWrite(w, f, data)
  BY <1>7
<1>12. \A b \in refs : Exists(b)
  <2> SUFFICES ASSUME NEW b \in refs
               PROVE  Exists(b)
    OBVIOUS
  <2>1. CASE b \in granted
    BY <2>1 DEF IInv, OthersOK
  <2>2. CASE b \in Content(f).refs
    BY <1>2, <2>2 DEF IInv, OthersOK, RefsThere, Exists, Content, Save
  <2> QED  BY <1>7, <2>1, <2>2
<1> HIDE DEF data
<1> QED  BY <1>1, <1>2, <1>5, <1>9, <1>10, <1>11, <1>12, Begun
         DEF Save, IInv, OthersOK

(* MkdirAll leaves every file alone.                                       *)
LEMMA Mkdir ==
  ASSUME IInv, NEW d \in Dirs, MkdirAll(d), UNCHANGED <<confirmed, damaged>>
  PROVE  /\ tree' \in Trees
         /\ tree'.files = tree.files
         /\ tree'.dirs = tree.dirs \cup {d}
         /\ pasts' \subseteq Trees
         /\ PastsOK'
         /\ RevisionsOK'
<1>1. tree \in Trees /\ pasts \subseteq Trees /\ PastsOK
  BY DEF IInv, TypeOK
<1>2. CASE d \in tree.dirs
  <2>1. UNCHANGED <<tree, pasts>>
    BY <1>2 DEF MkdirAll
  <2> QED  BY <1>1, <1>2, <2>1, SameFiles DEF IInv
<1>3. CASE d \notin tree.dirs
  <2>1. /\ tree' = WithDir(tree, d)
        /\ pasts' = pasts \cup IF OneJournal THEN {WithDir(tree, d)}
                               ELSE {WithDir(t, d) : t \in pasts}
    BY <1>3 DEF MkdirAll, Apply
  <2>2. /\ tree' \in Trees
        /\ tree'.files = tree.files
        /\ tree'.dirs = tree.dirs \cup {d}
    BY <1>1, <2>1, WithDirIs
  <2>3. tree \in pasts /\ tree' \in pasts'
    BY <1>1, <2>1 DEF PastsOK
  <2>4. ASSUME NEW t \in pasts'
        PROVE  \E u \in pasts :
                 /\ t \in Trees
                 /\ t.files = u.files
                 /\ u.dirs \subseteq t.dirs
    <3>1. t \in pasts \/ \E u \in pasts : t = WithDir(u, d)
      BY <2>1, <2>3
    <3> QED  BY <1>1, <3>1, WithDirIs
  <2>5. ASSUME NEW t \in pasts'
        PROVE  PastOK(t)'
    <3>1. PICK u \in pasts :
            t \in Trees /\ t.files = u.files /\ u.dirs \subseteq t.dirs
      BY <2>4
    <3>2. PastOK(t)
      BY <1>1, <3>1, MoreDirs DEF PastsOK
    <3> QED  BY <3>2 DEF PastOK, FileOK, DirsOK, RefsOK
  <2>6. RevisionsOK'
    BY <2>2, <2>4 DEF IInv, RevisionsOK, Revision
  <2> QED  BY <2>2, <2>3, <2>4, <2>5, <2>6 DEF PastsOK
<1> QED  BY <1>2, <1>3

LEMMA PutEvidenceKeeps ==
  ASSUME IInv, NEW w \in Workers, NEW b \in Blobs, PutEvidence(w, b)
  PROVE  IInv'
<1>1. /\ b \in Files /\ b \notin CaseFiles
      /\ Dir(b) = Shard[b] /\ Shard[b] \in Dirs
      /\ DataOf(b) = {b}
      /\ up /\ up' = up /\ ~ Locked
      /\ UNCHANGED <<confirmed, damaged>>
  BY DEF PutEvidence, Files, Dir, Dirs, DataOf
<1>2. /\ tree' \in Trees
      /\ tree'.files = tree.files
      /\ tree'.dirs = tree.dirs \cup {Shard[b]}
      /\ pasts' \subseteq Trees
      /\ PastsOK'
      /\ RevisionsOK'
  BY <1>1, Mkdir DEF PutEvidence
<1>3. ASSUME NEW v \in Workers
      PROVE  handler[v] = Idle
  BY <1>1 DEF Locked
<1>4. CASE Exists(b)
  <2>1. handler' = handler /\ granted' \subseteq granted \cup {b}
    BY <1>4 DEF PutEvidence
  <2>2. TypeOK'
    BY <1>1, <1>2, <2>1 DEF IInv, TypeOK
  <2>3. HandlersOK'
    BY <1>3, <2>1, IdleHandler DEF HandlersOK
  <2>4. Mutex'
    BY <1>3, <2>1 DEF Mutex, Idle, WriteSteps
  <2>5. OthersOK'
    BY <1>1, <1>2, <1>4, <2>1 DEF IInv, OthersOK, RefsThere, Exists
  <2> QED  BY <1>2, <2>2, <2>3, <2>4, <2>5 DEF IInv
<1>5. CASE ~ Exists(b)
  <2> DEFINE i == [data |-> b, synced |-> FALSE]
             h == [step |-> "write", file |-> b, inode |-> i]
  <2>1. i \in Inodes
    BY DEF Inodes
  <2>2. h \in Writing
    BY <1>1, <2>1 DEF Writing, WriteSteps
  <2>3. /\ h.step = "write" /\ h.file = b /\ h.inode = i
        /\ i.data = b
        /\ handler' = [handler EXCEPT ![w] = h]
        /\ granted' = granted
        /\ h \in Tasks
    BY <1>5, <2>2 DEF PutEvidence, BeginWrite, Tasks
  <2> HIDE DEF i, h
  <2>4. /\ handler' \in [Workers -> Tasks]
        /\ handler'[w] = h
        /\ \A v \in Workers \ {w} : handler'[v] = handler[v]
    BY <2>3, HandlerOf DEF IInv
  <2>5. TypeOK'
    BY <1>1, <1>2, <2>3, <2>4 DEF IInv, TypeOK, Tasks
  <2>6. WriterOK(h)'
    BY <1>1, <1>2, <1>5, <2>3 DEF WriterOK, Exists, Readable, Content
  <2>7. HandlerOK(w)'
    BY <2>3, <2>4, <2>6 DEF HandlerOK
  <2>8. HandlersOK'
    <3>1. \A v \in Workers \ {w} : HandlerOK(v)'
      BY <1>3, <2>4, IdleHandler
    <3> QED  BY <2>7, <3>1 DEF HandlersOK
  <2>9. Mutex'
    BY <1>3, <2>4 DEF Mutex, Idle, WriteSteps
  <2>10. OthersOK'
    BY <1>1, <1>2, <2>3 DEF IInv, OthersOK, RefsThere, Exists
  <2> QED  BY <1>2, <2>5, <2>8, <2>9, <2>10 DEF IInv
<1> QED  BY <1>4, <1>5

(* A writer on its way to another step of atomicWrite.                     *)
LEMMA WriterIs ==
  ASSUME IInv, NEW w \in Workers, handler[w].step \in WriteSteps
  PROVE  /\ handler[w] \in Writing
         /\ handler[w] \in Tasks
         /\ handler[w] # Idle
         /\ WriterOK(handler[w])
         /\ \A v \in Workers \ {w} : handler[v] = Idle
BY TaskSteps DEF IInv, TypeOK, HandlersOK, HandlerOK, Mutex, Tasks, Idle, WriteSteps

LEMMA WriteTempKeeps ==
  ASSUME IInv, NEW w \in Workers, WriteTemp(w)
  PROVE  IInv'
<1> DEFINE h == [handler[w] EXCEPT !.step = "sync"]
<1>1. handler[w].step = "write" /\ handler[w].step \in WriteSteps
  BY DEF WriteTemp, Step, WriteSteps
<1>2. handler' = [handler EXCEPT ![w] = h]
  BY DEF WriteTemp, Step, IInv, TypeOK
<1>3. /\ h \in Writing
      /\ h.step = "sync" /\ h.file = handler[w].file
      /\ h.inode = handler[w].inode
  BY <1>1, WriterIs DEF Writing, WriteSteps
<1> HIDE DEF h
<1>4. /\ handler' \in [Workers -> Tasks]
      /\ handler'[w] = h
      /\ \A v \in Workers \ {w} : handler'[v] = handler[v]
  BY <1>2, <1>3, HandlerOf DEF IInv, Tasks
<1>5. HandlerOK(w)'
  BY <1>1, <1>3, <1>4, WriterIs
  DEF WriteTemp, HandlerOK, WriterOK, Exists, Readable, Content, Revision
<1> QED  BY <1>1, <1>4, <1>5, Moved, WriterIs DEF WriteTemp

LEMMA SyncTempKeeps ==
  ASSUME IInv, NEW w \in Workers, SyncTemp(w)
  PROVE  IInv'
<1> DEFINE h == [handler[w] EXCEPT !.step = "rename", !.inode.synced = TRUE]
<1>1. handler[w].step = "sync" /\ handler[w].step \in WriteSteps
  BY DEF SyncTemp, WriteSteps
<1>2. handler' = [handler EXCEPT ![w] = h]
  BY DEF SyncTemp, IInv, TypeOK
<1>3. /\ h \in Writing
      /\ h.step = "rename" /\ h.file = handler[w].file
      /\ h.inode.data = handler[w].inode.data
      /\ h.inode.synced
  BY <1>1, WriterIs DEF Writing, WriteSteps, Inodes
<1> HIDE DEF h
<1>4. /\ handler' \in [Workers -> Tasks]
      /\ handler'[w] = h
      /\ \A v \in Workers \ {w} : handler'[v] = handler[v]
  BY <1>2, <1>3, HandlerOf DEF IInv, Tasks
<1>5. HandlerOK(w)'
  BY <1>1, <1>3, <1>4, WriterIs
  DEF SyncTemp, HandlerOK, WriterOK, Exists, Readable, Content, Revision
<1> QED  BY <1>1, <1>4, <1>5, Moved, WriterIs DEF SyncTemp

LEMMA RenameKeeps ==
  ASSUME IInv, NEW w \in Workers, Rename(w)
  PROVE  IInv'
<1> DEFINE h == handler[w]
           f == h.file
           i == h.inode
<1>1. /\ h.step = "rename"
      /\ h \in Writing
      /\ WriterOK(h)
      /\ \A v \in Workers \ {w} : handler[v] = Idle
      /\ f \in Files /\ i \in Inodes /\ i # None /\ i.synced
      /\ i.data \in DataOf(f)
      /\ UNCHANGED <<granted, confirmed, damaged, up>>
  <2>1. h.step = "rename" /\ UNCHANGED <<granted, confirmed, damaged, up>>
    BY DEF Rename, Step
  <2>2. h \in Writing /\ WriterOK(h) /\ \A v \in Workers \ {w} : handler[v] = Idle
    BY <2>1, WriterIs DEF WriteSteps
  <2> QED  BY <2>1, <2>2 DEF Writing, WriterOK, Inodes
<1>2. /\ tree' = WithFile(tree, f, i)
      /\ pasts' = pasts \cup IF OneJournal THEN {WithFile(tree, f, i)}
                             ELSE {WithFile(t, f, i) : t \in pasts}
  BY DEF Rename, Apply
<1>3. handler' = [handler EXCEPT ![w].step = "syncDir"]
  BY DEF Rename, Step
<1>4. /\ handler' \in [Workers -> Tasks]
      /\ handler'[w].step = "syncDir"
      /\ handler'[w].file = f /\ handler'[w].inode = i
      /\ \A v \in Workers \ {w} : handler'[v] = Idle
  BY <1>1, <1>3 DEF IInv, TypeOK, Tasks, Writing, WriteSteps
<1>5. tree \in Trees /\ pasts \subseteq Trees /\ PastsOK
  BY DEF IInv, TypeOK
<1>6. FileOK(f, i)
  BY <1>1, Intact
<1>7. /\ Dir(f) \in tree.dirs
      /\ f \in CaseFiles => \A b \in i.data.refs : tree.files[b] # None
      /\ f \in CaseFiles => Revision(tree, f) < i.data.revision
  BY <1>1 DEF WriterOK, Exists
<1> HIDE DEF h, f, i
<1>8. /\ tree' \in Trees
      /\ tree'.dirs = tree.dirs
      /\ tree'.files[f] = i
      /\ \A g \in Files : g # f => tree'.files[g] = tree.files[g]
  BY <1>1, <1>2, <1>5, WithFileIs
<1>9. PastOK(tree) /\ PastOK(WithFile(tree, f, i))
  BY <1>1, <1>5, <1>6, <1>7, MoreFiles DEF PastsOK
<1>10. ASSUME NEW t \in pasts'
       PROVE  /\ t \in Trees
              /\ PastOK(t)
              /\ \/ t \in pasts
                 \/ \E u \in pasts : t = WithFile(u, f, i)
  <2>1. CASE t \in pasts
    BY <1>5, <2>1 DEF PastsOK
  <2>2. CASE OneJournal /\ t = WithFile(tree, f, i)
    BY <1>2, <1>5, <1>8, <1>9, <2>2 DEF PastsOK
  <2>3. ASSUME ~ OneJournal, NEW u \in pasts, t = WithFile(u, f, i)
        PROVE  t \in Trees /\ PastOK(t)
    <3>1. u \in Trees /\ PastOK(u)
      BY <1>5 DEF PastsOK
    <3>2. WithFile(u, f, i) \in Trees
      BY <1>1, <3>1, WithFileIs
    <3>3. PastOK(WithFile(u, f, i))
      BY <1>1, <1>6, <2>3, <3>1, MoreFiles
    <3> QED  BY <2>3, <3>2, <3>3
  <2> QED  BY <1>2, <2>1, <2>2, <2>3
<1>11. PastsOK'
  <2>1. tree' \in pasts'
    BY <1>2, <1>5 DEF PastsOK
  <2>2. ASSUME NEW t \in pasts'
        PROVE  PastOK(t)'
    BY <1>1, <1>10 DEF PastOK, FileOK, DirsOK, RefsOK, RefsThere
  <2> QED  BY <2>1, <2>2 DEF PastsOK
<1>12. RevisionsOK'
  <2> SUFFICES ASSUME Trusted, NEW t \in pasts', NEW c \in CaseFiles \ damaged
               PROVE  /\ confirmed[c] <= Revision(t, c)
                      /\ Revision(t, c) <= Revision(tree', c)
    BY <1>1 DEF RevisionsOK, Revision
  <2>1. c \in Files /\ confirmed[c] \in Nat
    BY DEF Files, IInv, TypeOK
  <2>2. \A u \in pasts : /\ u \in Trees
                         /\ Revision(u, c) \in Nat
                         /\ confirmed[c] <= Revision(u, c)
                         /\ Revision(u, c) <= Revision(tree, c)
    BY <1>5, <2>1, RevisionIs DEF IInv, PastsOK, PastOK, RevisionsOK
  <2>3. Revision(tree, c) \in Nat
    BY <1>5, <2>2 DEF PastsOK
  <2>4. CASE c # f
    <3>1. Revision(tree', c) = Revision(tree, c)
      BY <1>8, <2>1, <2>4 DEF Revision
    <3>2. \A u \in pasts : Revision(WithFile(u, f, i), c) = Revision(u, c)
      BY <1>1, <2>1, <2>2, <2>4, WithFileIs DEF Revision
    <3> QED  BY <1>10, <2>2, <3>1, <3>2
  <2>5. CASE c = f
    <3>1. /\ i.data \in Snapshots /\ i.data # Torn
          /\ i.data.revision \in Nat
      BY <1>1, <2>5 DEF DataOf, Snapshots
    <3>2. Revision(tree', c) = i.data.revision
      BY <1>1, <1>8, <2>5, <3>1 DEF Revision
    <3>3. \A u \in pasts : Revision(WithFile(u, f, i), c) = i.data.revision
      BY <1>1, <2>2, <2>5, <3>1, WithFileIs DEF Revision
    <3>4. Revision(tree, c) < i.data.revision
      BY <1>7, <2>5
    <3> QED  BY <1>10, <2>1, <2>2, <2>3, <3>1, <3>2, <3>3, <3>4
  <2> QED  BY <2>4, <2>5
<1>13. TypeOK'
  BY <1>1, <1>4, <1>8, <1>10 DEF IInv, TypeOK, Tasks
<1>14. HandlersOK'
  <2>1. WriterOK(handler[w])'
    <3>1. up
      BY <1>1 DEF WriterOK
    <3>2. f \in CaseFiles => \A b \in i.data.refs : tree'.files[b] # None
      BY <1>1, <1>7, <1>8 DEF DataOf, Snapshots, Files
    <3> QED  BY <1>1, <1>4, <1>7, <1>8, <3>1, <3>2 DEF WriterOK, DataOf, Exists
  <2>2. \A v \in Workers \ {w} : HandlerOK(v)'
    BY <1>4, IdleHandler
  <2>3. HandlerOK(w)'
    BY <1>4, <2>1 DEF HandlerOK
  <2> QED  BY <2>2, <2>3 DEF HandlersOK
<1>15. Mutex'
  BY <1>4 DEF Mutex, Idle, WriteSteps
<1>16. OthersOK'
  <2>1. up /\ RefsThere(tree) /\ CasesDir \in tree.dirs
    BY <1>1 DEF IInv, OthersOK, WriterOK
  <2>2. RefsThere(tree')
    BY <1>1, <1>2, <1>5, <1>6, <1>7, <1>9, <2>1, MoreRefs
  <2>3. \A b \in granted : tree'.files[b] # None
    BY <1>1, <1>8 DEF IInv, TypeOK, OthersOK, Exists, Files
  <2> QED  BY <1>1, <1>8, <2>1, <2>2, <2>3 DEF OthersOK, RefsThere, Exists
<1> QED  BY <1>11, <1>12, <1>13, <1>14, <1>15, <1>16 DEF IInv

LEMMA SyncDirKeeps ==
  ASSUME IInv, NEW w \in Workers, SyncDir(w)
  PROVE  IInv'
<1> DEFINE h == handler[w]
           f == h.file
           i == h.inode
<1>1. /\ h.step = "syncDir"
      /\ h \in Writing
      /\ WriterOK(h)
      /\ f \in Files /\ i \in Inodes
      /\ i.data \in DataOf(f)
      /\ tree.files[f] # None
      /\ f \notin damaged => tree.files[f] = i
      /\ up
      /\ UNCHANGED <<tree, damaged, up>>
      /\ pasts' = IF OneJournal THEN {tree} ELSE {Synced(t, Dir(f)) : t \in pasts}
      /\ Finish(w)
  <2>1. h.step = "syncDir" /\ UNCHANGED <<tree, damaged, up>>
    BY DEF SyncDir
  <2>2. h \in Writing /\ WriterOK(h)
    BY <2>1, WriterIs DEF WriteSteps
  <2>3. /\ tree.files[f] # None
        /\ f \notin damaged => tree.files[f] = i
    <3>1. i \in Inodes /\ Whole(Torn) \in Inodes
      BY <2>2 DEF Writing, Whole, Inodes
    <3>2. i # None /\ Whole(Torn) # None
      BY <3>1
    <3> QED  BY <2>1, <2>2, <3>2 DEF WriterOK
  <2> QED  BY <2>1, <2>2, <2>3 DEF SyncDir, FsyncDir, Writing, WriterOK
<1>2. IF f \in CaseFiles
      THEN /\ confirmed' = [confirmed EXCEPT ![f] = i.data.revision]
           /\ UNCHANGED granted
      ELSE /\ granted' = granted \cup {f}
           /\ UNCHANGED confirmed
  BY DEF SyncDir, Confirm
<1>3. /\ tree \in Trees /\ pasts \subseteq Trees /\ PastsOK
      /\ confirmed \in [CaseFiles -> Nat] /\ granted \subseteq Blobs
  BY DEF IInv, TypeOK
<1>4. /\ handler' \in [Workers -> Tasks]
      /\ handler'[w] = Idle
      /\ \A v \in Workers \ {w} : handler'[v] = handler[v]
  BY <1>1 DEF Finish, IInv, TypeOK, Tasks
<1> HIDE DEF h, f, i
<1>5. Synced(tree, Dir(f)) = tree
  BY <1>3 DEF Synced, Trees
<1>6. tree \in pasts' /\ tree \in pasts /\ PastOK(tree)
  BY <1>1, <1>3, <1>5 DEF PastsOK
<1>7. ASSUME NEW t \in pasts'
      PROVE  /\ t \in Trees
             /\ PastOK(t)
             /\ \/ t = tree
                \/ \E u \in pasts : t = Synced(u, Dir(f))
  <2>1. CASE OneJournal
    BY <1>1, <1>3, <1>6, <2>1
  <2>2. CASE ~ OneJournal
    <3>1. PICK u \in pasts : t = Synced(u, Dir(f))
      BY <1>1, <2>2
    <3>2. u \in Trees /\ PastOK(u)
      BY <1>3 DEF PastsOK
    <3>3. Synced(u, Dir(f)) \in Trees
      BY <1>3, <3>2, SyncedIs
    <3>4. PastOK(Synced(u, Dir(f)))
      BY <1>3, <1>6, <2>2, <3>2, SyncedKeeps
    <3> QED  BY <3>1, <3>3, <3>4
  <2> QED  BY <2>1, <2>2
<1>8. PastsOK'
  <2>1. ASSUME NEW t \in pasts'
        PROVE  PastOK(t)'
    BY <1>1, <1>7 DEF PastOK, FileOK, DirsOK, RefsOK, RefsThere
  <2> QED  BY <1>1, <1>6, <2>1 DEF PastsOK
<1>9. ASSUME f \in CaseFiles
      PROVE  /\ f \notin damaged => Revision(tree, f) = i.data.revision
             /\ i.data.revision \in Nat
  <2>1. i.data \in Snapshots /\ i.data # Torn /\ i # None
    BY <1>1, <1>9 DEF DataOf
  <2> QED  BY <1>1, <2>1 DEF Revision, Snapshots
<1>10. RevisionsOK'
  <2> SUFFICES ASSUME Trusted, NEW t \in pasts', NEW c \in CaseFiles \ damaged
               PROVE  /\ confirmed'[c] <= Revision(t, c)
                      /\ Revision(t, c) <= Revision(tree, c)
    BY <1>1 DEF RevisionsOK, Revision
  <2>1. c \in Files /\ Dir(c) = CasesDir
    BY DEF Files, Dir
  <2>2. \A u \in pasts : /\ u \in Trees
                         /\ Revision(u, c) \in Nat
                         /\ confirmed[c] <= Revision(u, c)
                         /\ Revision(u, c) <= Revision(tree, c)
    BY <1>3, <2>1, RevisionIs DEF IInv, PastsOK, PastOK, RevisionsOK
  <2>3. Revision(tree, c) \in Nat /\ confirmed[c] <= Revision(tree, c)
    BY <1>6, <2>2
  <2>4. CASE t = tree
    <3>1. confirmed'[c] <= Revision(tree, c)
      BY <1>2, <1>3, <1>9, <2>3
    <3> QED  BY <2>3, <2>4, <3>1
  <2>5. ASSUME NEW u \in pasts, t = Synced(u, Dir(f))
        PROVE  /\ confirmed'[c] <= Revision(t, c)
               /\ Revision(t, c) <= Revision(tree, c)
    <3>1. t.files[c] = IF CasesDir = Dir(f) THEN tree.files[c] ELSE u.files[c]
      BY <1>3, <2>1, <2>2, <2>5, SyncedIs
    <3>2. CASE CasesDir = Dir(f)
      <4>1. Revision(t, c) = Revision(tree, c)
        BY <3>1, <3>2 DEF Revision
      <4>2. confirmed'[c] <= Revision(tree, c)
        BY <1>2, <1>3, <1>9, <2>3
      <4> QED  BY <2>3, <4>1, <4>2
    <3>3. CASE CasesDir # Dir(f)
      <4>1. f \notin CaseFiles
        BY <3>3 DEF Dir
      <4>2. Revision(t, c) = Revision(u, c)
        BY <3>1, <3>3 DEF Revision
      <4> QED  BY <1>2, <2>2, <4>1, <4>2
    <3> QED  BY <3>2, <3>3
  <2> QED  BY <1>7, <2>4, <2>5
<1>11. TypeOK'
  <2>1. confirmed' \in [CaseFiles -> Nat] /\ granted' \subseteq Blobs
    BY <1>1, <1>2, <1>3, <1>9 DEF Files
  <2> QED  BY <1>1, <1>4, <1>7, <2>1 DEF IInv, TypeOK, Tasks
<1>12. HandlersOK'
  <2>1. \A v \in Workers \ {w} : HandlerOK(v)'
    BY <1>1, <1>4, SameHandler DEF IInv, HandlersOK
  <2> QED  BY <1>4, <2>1, IdleHandler DEF HandlersOK
<1>13. Mutex'
  BY <1>4, MutexKept DEF IInv, Idle, WriteSteps
<1>14. OthersOK'
  BY <1>1, <1>2 DEF IInv, OthersOK, RefsThere, Exists
<1> QED  BY <1>8, <1>10, <1>11, <1>12, <1>13, <1>14 DEF IInv

LEMMA FailKeeps ==
  ASSUME IInv, NEW w \in Workers, Fail(w) \/ AnswerList(w)
  PROVE  IInv'
BY Finished DEF Fail, AnswerList

(* All workers stop.                                                       *)
LEMMA Stopped ==
  ASSUME Stop
  PROVE  /\ HandlersOK' /\ Mutex' /\ OthersOK'
         /\ handler' \in [Workers -> Tasks]
<1>1. handler' = [w \in Workers |-> Idle] /\ granted' = {} /\ up' = FALSE
  BY DEF Stop
<1>2. HandlersOK'
  BY <1>1, IdleHandler DEF HandlersOK
<1>3. Mutex' /\ OthersOK'
  BY <1>1 DEF Mutex, OthersOK
<1> QED  BY <1>1, <1>2, <1>3 DEF Tasks

LEMMA CrashKeeps ==
  ASSUME IInv, Crash
  PROVE  IInv'
<1>1. TypeOK'
  BY Stopped DEF Crash, Stop, IInv, TypeOK, Tasks
<1> QED  BY <1>1, Stopped, SameFiles DEF Crash, IInv

LEMMA PowerLossKeeps ==
  ASSUME IInv, PowerLoss
  PROVE  IInv'
<1>1. PICK t \in pasts : tree' = Found(t)
  BY DEF PowerLoss
<1>2. t \in Trees /\ PastOK(t)
  BY DEF IInv, TypeOK, PastsOK
<1>3. /\ tree' \in Trees
      /\ PastOK(tree')
      /\ Trusted => \A f \in CaseFiles : tree'.files[f] = t.files[f]
  BY <1>1, <1>2, FoundKeeps
<1>4. pasts' = {tree'} /\ UNCHANGED <<confirmed, damaged>> /\ Stop
  BY DEF PowerLoss
<1>5. TypeOK'
  BY <1>3, <1>4, Stopped DEF Stop, IInv, TypeOK, Tasks
<1>6. PastsOK'
  BY <1>3, <1>4 DEF PastsOK, PastOK, FileOK, DirsOK, RefsOK, RefsThere
<1>7. RevisionsOK'
  <2> SUFFICES ASSUME Trusted, NEW c \in CaseFiles \ damaged
               PROVE  /\ confirmed[c] <= Revision(tree', c)
                      /\ Revision(tree', c) <= Revision(tree', c)
    BY <1>4 DEF RevisionsOK, Revision
  <2>1. Revision(tree', c) = Revision(t, c)
    BY <1>3 DEF Revision
  <2>2. Revision(t, c) \in Nat
    BY <1>2, RevisionIs DEF PastOK, Files
  <2>3. confirmed[c] <= Revision(t, c)
    BY DEF IInv, RevisionsOK
  <2> QED  BY <2>1, <2>2, <2>3
<1> QED  BY <1>4, <1>5, <1>6, <1>7, Stopped DEF IInv

LEMMA RestartKeeps ==
  ASSUME IInv, Restart
  PROVE  IInv'
<1>1. /\ tree' \in Trees
      /\ tree'.files = tree.files
      /\ tree'.dirs = tree.dirs \cup {CasesDir}
      /\ pasts' \subseteq Trees
      /\ PastsOK'
      /\ RevisionsOK'
  BY Mkdir DEF Restart, Dirs
<1>2. ASSUME NEW w \in Workers
      PROVE  handler[w] = Idle
  BY TaskSteps
  DEF Restart, IInv, TypeOK, Tasks, HandlersOK, HandlerOK, WriterOK, ReaderOK
<1>3. TypeOK'
  BY <1>1 DEF Restart, IInv, TypeOK
<1>4. HandlersOK' /\ Mutex'
  BY <1>2, IdleHandler DEF Restart, HandlersOK, Mutex, Idle, WriteSteps
<1>5. RefsThere(tree)
  BY DEF Restart, CanStart, RefsThere
<1>6. OthersOK'
  BY <1>1, <1>5 DEF Restart, IInv, OthersOK, RefsThere, Exists
<1> QED  BY <1>1, <1>3, <1>4, <1>6 DEF IInv

Rotten(t, f) ==
  IF t.files[f] = tree.files[f] THEN WithFile(t, f, Whole(Torn)) ELSE t

LEMMA DamageIs ==
  ASSUME IInv, NEW f \in Files, Damage(f)
  PROVE  /\ tree' = Rotten(tree, f)
         /\ pasts' = {Rotten(t, f) : t \in pasts}
         /\ damaged' = damaged \cup {f}
         /\ Exists(f) /\ tree \in pasts
         /\ \A t \in pasts :
              /\ t \in Trees /\ PastOK(t)
              /\ Rotten(t, f) \in Trees
              /\ Rotten(t, f).dirs = t.dirs
              /\ Rotten(t, f).files[f] # None <=> t.files[f] # None
              /\ Rotten(t, f).files[f] \in {t.files[f], Whole(Torn)}
              /\ \A g \in Files : g # f => Rotten(t, f).files[g] = t.files[g]
<1>1. /\ tree' = Rotten(tree, f)
      /\ pasts' = {Rotten(t, f) : t \in pasts}
      /\ damaged' = damaged \cup {f}
      /\ Exists(f)
  BY DEF Damage, Rotten, Readable
<1>2. Whole(Torn) \in Inodes /\ Whole(Torn) # None
  <2>1. Whole(Torn) \in Inodes
    BY DEF Whole, Inodes
  <2> QED  BY <2>1
<1>3. tree \in pasts
  BY DEF IInv, PastsOK
<1>4. ASSUME NEW t \in pasts
      PROVE  /\ t \in Trees /\ PastOK(t)
             /\ Rotten(t, f) \in Trees
             /\ Rotten(t, f).dirs = t.dirs
             /\ Rotten(t, f).files[f] # None <=> t.files[f] # None
             /\ Rotten(t, f).files[f] \in {t.files[f], Whole(Torn)}
             /\ \A g \in Files : g # f => Rotten(t, f).files[g] = t.files[g]
  <2>1. t \in Trees /\ PastOK(t)
    BY DEF IInv, TypeOK, PastsOK
  <2>2. CASE t.files[f] = tree.files[f]
    BY <1>1, <1>2, <2>1, <2>2, WithFileIs DEF Rotten, Exists
  <2>3. CASE t.files[f] # tree.files[f]
    BY <2>1, <2>3 DEF Rotten
  <2> QED  BY <2>1, <2>2, <2>3
<1> QED  BY <1>1, <1>3, <1>4

LEMMA DamageKeeps ==
  ASSUME IInv, NEW f \in Files, Damage(f)
  PROVE  IInv'
<1>1. /\ UNCHANGED <<handler, granted, confirmed, up>>
      /\ damaged' = damaged \cup {f}
      /\ tree \in Trees /\ tree' \in Trees /\ tree' \in pasts'
      /\ tree'.dirs = tree.dirs
      /\ \A g \in Files : tree'.files[g] # None <=> tree.files[g] # None
      /\ \A g \in Files : g # f => tree'.files[g] = tree.files[g]
      /\ tree'.files[f] \in {tree.files[f], Whole(Torn)}
  BY DamageIs DEF Damage
<1>2. Whole(Torn).data = Torn /\ Whole(Torn).synced
  BY DEF Whole
<1>3. ASSUME NEW u \in pasts'
      PROVE  /\ u \in Trees
             /\ PastOK(u)'
             /\ \E t \in pasts :
                  \A g \in Files : g # f => u.files[g] = t.files[g]
  <2>1. PICK t \in pasts : u = Rotten(t, f)
    BY DamageIs
  <2>2. /\ t \in Trees /\ PastOK(t)
        /\ u \in Trees
        /\ u.dirs = t.dirs
        /\ u.files[f] # None <=> t.files[f] # None
        /\ u.files[f] \in {t.files[f], Whole(Torn)}
        /\ \A g \in Files : g # f => u.files[g] = t.files[g]
    BY <2>1, DamageIs
  <2>3. ASSUME NEW g \in Files
        PROVE  FileOK(g, u.files[g])'
    <3>1. FileOK(g, t.files[g])
      BY <2>2 DEF PastOK
    <3>2. CASE g = f
      BY <1>1, <1>2, <2>2, <3>1, <3>2 DEF FileOK
    <3>3. CASE g # f
      BY <1>1, <2>2, <3>1, <3>3 DEF FileOK
    <3> QED  BY <3>2, <3>3
  <2>4. DirsOK(u)
    BY <2>2 DEF PastOK, DirsOK
  <2>5. RefsOK(u)
    <3> SUFFICES ASSUME OneJournal, NEW c \in CaseFiles,
                        u.files[c] # None, u.files[c].data # Torn,
                        NEW b \in u.files[c].data.refs
                 PROVE  u.files[b] # None
      BY DEF RefsOK, RefsThere
    <3>1. c \in Files /\ u.files[c] = t.files[c]
      BY <1>2, <2>2 DEF Files
    <3>2. b \in Files
      BY <2>2, <3>1 DEF PastOK, FileOK, DataOf, Snapshots, Files
    <3> QED  BY <2>2, <3>1, <3>2 DEF PastOK, RefsOK, RefsThere
  <2>6. PastOK(u)'
    BY <2>3, <2>4, <2>5 DEF PastOK, DirsOK, RefsOK, RefsThere
  <2> QED  BY <2>2, <2>6
<1>4. TypeOK'
  BY <1>1, <1>3 DEF IInv, TypeOK
<1>5. PastsOK'
  BY <1>1, <1>3 DEF PastsOK
<1>6. RevisionsOK'
  BY <1>1, <1>3 DEF IInv, RevisionsOK, Revision, Files
<1>7. HandlersOK'
  <2> SUFFICES ASSUME NEW w \in Workers
               PROVE  HandlerOK(w)'
    BY DEF HandlersOK
  <2>1. CASE handler[w].step \in WriteSteps
    <3> DEFINE h == handler[w]
    <3>1. h \in Writing /\ WriterOK(h)
      BY <2>1, WriterIs
    <3>2. /\ h.file \in Files /\ h.inode \in Inodes
          /\ h.inode.data \in DataOf(h.file)
      BY <3>1 DEF Writing, WriterOK
    <3>3. \/ tree'.files[h.file] = tree.files[h.file]
          \/ h.file = f /\ tree'.files[h.file] = Whole(Torn)
      BY <1>1, <3>2
    <3>4. h.step = "syncDir" =>
            \/ tree'.files[h.file] = h.inode
            \/ h.file \in damaged' /\ tree'.files[h.file] = Whole(Torn)
      BY <1>1, <3>1, <3>3 DEF WriterOK
    <3>5. ASSUME h.step # "syncDir", h.file \in CaseFiles
          PROVE  Revision(tree', h.file) < h.inode.data.revision
      <4>1. h.inode.data.revision \in Nat \ {0}
        BY <3>2, <3>5 DEF DataOf, Snapshots
      <4>2. CASE tree'.files[h.file] = tree.files[h.file]
        BY <3>1, <3>5, <4>2 DEF WriterOK, Revision
      <4>3. CASE tree'.files[h.file] = Whole(Torn)
        <5>1. Revision(tree', h.file) = 0
          BY <1>2, <4>3 DEF Revision
        <5> QED  BY <4>1, <5>1
      <4> QED  BY <3>3, <4>2, <4>3
    <3>6. ASSUME h.file \in CaseFiles
          PROVE  \A b \in h.inode.data.refs : tree'.files[b] # None
      <4>1. h.inode.data.refs \subseteq Files
        BY <3>2, <3>6 DEF DataOf, Snapshots, Files
      <4>2. \A b \in h.inode.data.refs : Exists(b)
        BY <3>1, <3>6 DEF WriterOK
      <4> QED  BY <1>1, <4>1, <4>2 DEF Exists
    <3>7. /\ up /\ Dir(h.file) \in tree.dirs
          /\ h.step \in {"rename", "syncDir"} => h.inode.synced
      BY <3>1 DEF WriterOK
    <3>8. handler'[w] = h /\ up' = up /\ tree'.dirs = tree.dirs
      BY <1>1
    <3> HIDE DEF h
    <3>9. WriterOK(handler[w])'
      BY <3>2, <3>4, <3>5, <3>6, <3>7, <3>8 DEF WriterOK, Revision, Exists
    <3> QED  BY <2>1, <3>8, <3>9 DEF HandlerOK, h, WriteSteps
  <2>2. CASE handler[w].step = "list"
    <3>1. ReaderOK(handler[w])
      BY <2>2 DEF IInv, HandlersOK, HandlerOK
    <3>2. ReaderOK(handler[w])'
      BY <1>1, <3>1 DEF ReaderOK, Exists, Content, Files
    <3> QED  BY <1>1, <2>2, <3>2 DEF HandlerOK, WriteSteps
  <2>3. CASE handler[w].step \notin WriteSteps \cup {"list"}
    BY <1>1, <2>3 DEF HandlerOK
  <2> QED  BY <2>1, <2>2, <2>3
<1>8. Mutex'
  BY <1>1 DEF IInv, Mutex
<1>9. OthersOK'
  <2>1. ASSUME RefsThere(tree)
        PROVE  RefsThere(tree')
    <3> SUFFICES ASSUME NEW c \in CaseFiles,
                        tree'.files[c] # None, tree'.files[c].data # Torn,
                        NEW b \in tree'.files[c].data.refs
                 PROVE  tree'.files[b] # None
      BY DEF RefsThere
    <3>1. c \in Files /\ tree'.files[c] = tree.files[c]
      BY <1>1, <1>2 DEF Files
    <3>2. b \in Files
      BY <3>1 DEF IInv, PastsOK, PastOK, FileOK, DataOf, Snapshots, Files
    <3> QED  BY <1>1, <2>1, <3>1, <3>2 DEF RefsThere
  <2>2. RefsThere(tree') => RefsThere(tree)'
    BY DEF RefsThere
  <2>3. \A b \in granted : b \in Files
    BY DEF IInv, TypeOK, Files
  <2> QED  BY <1>1, <2>1, <2>2, <2>3 DEF IInv, OthersOK, Exists
<1> QED  BY <1>4, <1>5, <1>6, <1>7, <1>8, <1>9 DEF IInv

LEMMA InitHolds ==
  ASSUME Init
  PROVE  IInv
<1> DEFINE E(D) == EmptyTree(D)
<1>1. ASSUME NEW D \in SUBSET Dirs
      PROVE  /\ E(D) \in Trees
             /\ E(D).dirs = D
             /\ \A f \in Files : E(D).files[f] = None
  BY DEF EmptyTree, Trees
<1>2. {} \in SUBSET Dirs /\ {CasesDir} \in SUBSET Dirs
  BY DEF Dirs
<1> HIDE DEF E
<1>3. /\ tree = E({CasesDir})
      /\ pasts = IF Fresh THEN {E({}), tree} ELSE {tree}
      /\ handler = [w \in Workers |-> Idle]
      /\ granted = {}
      /\ confirmed = [f \in CaseFiles |-> 0]
      /\ damaged = {}
      /\ up = TRUE
  BY DEF Init, E
<1>4. ASSUME NEW t \in pasts
      PROVE  /\ t \in Trees
             /\ \A f \in Files : t.files[f] = None
             /\ ~ Fresh => CasesDir \in t.dirs
             /\ tree.dirs = {CasesDir}
             /\ \A f \in Files : tree.files[f] = None
             /\ tree \in Trees
  BY <1>1, <1>2, <1>3
<1>5. TypeOK
  BY <1>3, <1>4 DEF TypeOK
<1>6. PastsOK
  <2>1. tree \in pasts
    BY <1>3
  <2>2. ASSUME NEW t \in pasts
        PROVE  PastOK(t)
    BY <1>4 DEF PastOK, FileOK, DirsOK, RefsOK, RefsThere, Files
  <2> QED  BY <2>1, <2>2 DEF PastsOK
<1>7. RevisionsOK
  <2>1. ASSUME NEW t \in pasts, NEW f \in CaseFiles
        PROVE  Revision(t, f) = 0 /\ Revision(tree, f) = 0
    BY <1>4 DEF Revision, Files
  <2>2. \A f \in CaseFiles : confirmed[f] = 0
    BY <1>3
  <2> QED  BY <2>1, <2>2 DEF RevisionsOK
<1>8. HandlersOK
  BY <1>3 DEF HandlersOK, HandlerOK, Idle, WriteSteps
<1>9. Mutex
  BY <1>3 DEF Mutex
<1>10. OthersOK
  BY <1>3, <1>4 DEF OthersOK, RefsThere, Files
<1> QED  BY <1>5, <1>6, <1>7, <1>8, <1>9, <1>10 DEF IInv

LEMMA StutterKeeps ==
  ASSUME IInv, UNCHANGED vars
  PROVE  IInv'
<1>1. PastsOK' /\ RevisionsOK'
  BY SameFiles DEF IInv, vars
<1>2. HandlersOK'
  BY SameHandler DEF IInv, HandlersOK, vars
<1> QED  BY <1>1, <1>2 DEF IInv, vars, TypeOK, Mutex, OthersOK, RefsThere, Exists

LEMMA NextKeeps ==
  ASSUME IInv, [Next]_vars
  PROVE  IInv'
<1>1. CASE UNCHANGED vars
  BY <1>1, StutterKeeps
<1>2. ASSUME NEW w \in Workers, BeginList(w)
      PROVE  IInv'
  BY <1>2, BeginListKeeps
<1>3. ASSUME NEW w \in Workers, ReadSnapshot(w)
      PROVE  IInv'
  BY <1>3, ReadSnapshotKeeps
<1>4. ASSUME NEW w \in Workers, Fail(w) \/ AnswerList(w)
      PROVE  IInv'
  BY <1>4, FailKeeps
<1>5. ASSUME NEW w \in Workers, NEW f \in CaseFiles, Create(w, f)
      PROVE  IInv'
  BY <1>5, CreateKeeps
<1>6. ASSUME NEW w \in Workers, NEW f \in CaseFiles, Save(w, f)
      PROVE  IInv'
  BY <1>6, SaveKeeps
<1>7. ASSUME NEW w \in Workers, NEW b \in Blobs, PutEvidence(w, b)
      PROVE  IInv'
  BY <1>7, PutEvidenceKeeps
<1>8. ASSUME NEW w \in Workers, WriteTemp(w)
      PROVE  IInv'
  BY <1>8, WriteTempKeeps
<1>9. ASSUME NEW w \in Workers, SyncTemp(w)
      PROVE  IInv'
  BY <1>9, SyncTempKeeps
<1>10. ASSUME NEW w \in Workers, Rename(w)
       PROVE  IInv'
  BY <1>10, RenameKeeps
<1>11. ASSUME NEW w \in Workers, SyncDir(w)
       PROVE  IInv'
  BY <1>11, SyncDirKeeps
<1>12. CASE Crash
  BY <1>12, CrashKeeps
<1>13. CASE PowerLoss
  BY <1>13, PowerLossKeeps
<1>14. CASE Restart
  BY <1>14, RestartKeeps
<1>15. ASSUME NEW f \in Files, Damage(f)
       PROVE  IInv'
  BY <1>15, DamageKeeps
<1> QED  BY <1>1, <1>2, <1>3, <1>4, <1>5, <1>6, <1>7, <1>8, <1>9, <1>10,
            <1>11, <1>12, <1>13, <1>14, <1>15 DEF Next

(* The inductive invariant holds always.                                   *)
THEOREM Invariance == Spec => []IInv
BY InitHolds, NextKeeps, PTL DEF Spec

----------------------------------------------------------------------------
(* What the runs check, for every value of the constants.                  *)

(* The state of the store is of its types in every behaviour.              *)
THEOREM TypeCorrect == Spec => []TypeOK
<1>1. IInv => TypeOK
  BY DEF IInv
<1> QED  BY <1>1, Invariance, PTL

(* On either kind of file system no power loss leaves a torn file under a  *)
(* name the store reads: sync before rename (snapshot.go:92-98).           *)
THEOREM NoTornFiles == Spec => []NoTornFile
<1>1. ASSUME IInv
      PROVE  NoTornFile
  <2> SUFFICES ASSUME NEW t \in pasts, NEW f \in Files \ damaged,
                      Found(t).files[f] # None
               PROVE  Found(t).files[f].data # Torn
    BY <1>1 DEF NoTornFile, IInv, PastsOK
  <2>1. t \in Trees /\ PastOK(t)
    BY <1>1 DEF IInv, TypeOK, PastsOK
  <2>2. PastOK(Found(t))
    BY <2>1, FoundKeeps
  <2> QED  BY <2>2 DEF PastOK, FileOK
<1> QED  BY <1>1, Invariance, PTL

(* A confirmed revision survives power losses on a file system with one    *)
(* journal, and on any other once the data directory itself is durable.    *)
THEOREM ConfirmedIsKept ==
  ASSUME Trusted PROVE Spec => []ConfirmedSurvives
<1>1. ASSUME IInv
      PROVE  ConfirmedSurvives
  <2> SUFFICES ASSUME NEW t \in pasts, NEW f \in CaseFiles \ damaged
               PROVE  confirmed[f] <= Revision(Found(t), f)
    BY DEF ConfirmedSurvives
  <2>1. t \in Trees /\ PastOK(t)
    BY <1>1 DEF IInv, TypeOK, PastsOK
  <2>2. Found(t).files[f] = t.files[f]
    BY <2>1, FoundKeeps
  <2>3. Revision(Found(t), f) = Revision(t, f)
    BY <2>2 DEF Revision
  <2> QED  BY <1>1, <2>3 DEF IInv, RevisionsOK
<1> QED  BY <1>1, Invariance, PTL

(* With one journal the service starts again after every power loss: the   *)
(* evidence is durable before a snapshot refers to it.                     *)
THEOREM AlwaysStarts ==
  ASSUME OneJournal PROVE Spec => []StartsAfterPowerLoss
<1>1. ASSUME IInv
      PROVE  StartsAfterPowerLoss
  <2> SUFFICES ASSUME damaged = {}, NEW t \in pasts
               PROVE  CanStart(Found(t))
    BY DEF StartsAfterPowerLoss
  <2> DEFINE u == Found(t)
  <2>1. t \in Trees /\ PastOK(t)
    BY <1>1 DEF IInv, TypeOK, PastsOK
  <2>2. PastOK(u)
    BY <2>1, FoundKeeps
  <2> HIDE DEF u
  <2> SUFFICES ASSUME NEW f \in CaseFiles, u.files[f] # None
               PROVE  /\ u.files[f].data # Torn
                      /\ \A b \in u.files[f].data.refs :
                           u.files[b] # None /\ u.files[b].data = b
    BY DEF CanStart, u
  <2>3. f \in Files /\ FileOK(f, u.files[f])
    BY <2>2 DEF PastOK, Files
  <2>4. u.files[f].data # Torn /\ u.files[f].data \in Snapshots
    BY <2>3 DEF FileOK, DataOf
  <2>5. ASSUME NEW b \in u.files[f].data.refs
        PROVE  u.files[b] # None /\ u.files[b].data = b
    <3>1. b \in Files /\ b \notin CaseFiles
      BY <2>4 DEF Snapshots, Files
    <3>2. u.files[b] # None
      BY <2>2, <2>3, <2>4 DEF PastOK, RefsOK, RefsThere
    <3> QED  BY <2>2, <3>1, <3>2 DEF PastOK, FileOK, DataOf
  <2> QED  BY <2>4, <2>5
<1> QED  BY <1>1, Invariance, PTL

(* What List answers is complete and current, although it reads one file   *)
(* after the other: writers wait (store.go:117-150).                       *)
THEOREM ListsAreComplete == Spec => []ListIsComplete
<1>1. ASSUME IInv
      PROVE  ListIsComplete
  BY <1>1 DEF IInv, HandlersOK, HandlerOK, ReaderOK, ListIsComplete
<1> QED  BY <1>1, Invariance, PTL

(* Which steps change a file: one puts a file in place, one damages one,   *)
(* one is the power loss.                                                  *)
LEMMA FileChanges ==
  ASSUME IInv, [Next]_vars
  PROVE  \/ tree'.files = tree.files
         \/ \E w \in Workers : Rename(w)
         \/ PowerLoss
         \/ \E f \in Files : Damage(f)
<1>1. ASSUME NEW d \in Dirs, MkdirAll(d)
      PROVE  tree'.files = tree.files
  <2>1. tree \in Trees
    BY DEF IInv, TypeOK
  <2>2. tree' = tree \/ tree' = WithDir(tree, d)
    BY <1>1 DEF MkdirAll, Apply
  <2> QED  BY <2>1, <2>2, WithDirIs
<1>2. ASSUME NEW w \in Workers, NEW b \in Blobs, PutEvidence(w, b)
      PROVE  tree'.files = tree.files
  BY <1>1, <1>2 DEF PutEvidence, Dirs
<1>3. ASSUME Restart
      PROVE  tree'.files = tree.files
  BY <1>1, <1>3 DEF Restart, Dirs
<1>4. ASSUME NEW w \in Workers,
             \/ BeginList(w) \/ ReadSnapshot(w) \/ AnswerList(w)
             \/ \E f \in CaseFiles : Create(w, f) \/ Save(w, f)
             \/ WriteTemp(w) \/ SyncTemp(w) \/ SyncDir(w) \/ Fail(w)
      PROVE  tree' = tree
  BY <1>4 DEF BeginList, ReadSnapshot, AnswerList, Create, Save, WriteTemp,
              SyncTemp, SyncDir, Fail
<1>5. ASSUME Crash \/ UNCHANGED vars
      PROVE  tree' = tree
  BY <1>5 DEF Crash, vars
<1> QED  BY <1>2, <1>3, <1>4, <1>5 DEF Next

(* What Rename puts in place.                                              *)
LEMMA RenameIs ==
  ASSUME IInv, NEW w \in Workers, Rename(w)
  PROVE  /\ WriterOK(handler[w])
         /\ handler[w].step = "rename"
         /\ handler[w].file \in Files
         /\ handler[w].inode \in Inodes
         /\ tree'.files[handler[w].file] = handler[w].inode
         /\ \A g \in Files :
              g # handler[w].file => tree'.files[g] = tree.files[g]
<1>1. handler[w].step = "rename"
  BY DEF Rename, Step
<1>2. handler[w] \in Writing /\ WriterOK(handler[w])
  BY <1>1, WriterIs DEF WriteSteps
<1>3. handler[w].file \in Files /\ handler[w].inode \in Inodes
  BY <1>2 DEF Writing
<1>4. tree' = WithFile(tree, handler[w].file, handler[w].inode)
  BY DEF Rename, Apply
<1> QED  BY <1>1, <1>2, <1>3, <1>4, WithFileIs DEF IInv, TypeOK

(* Which steps begin to replace a file: those that look at it first.       *)
LEMMA ReplacingBegins ==
  ASSUME IInv, [Next]_vars, NEW f \in Files, Replacing(f)'
  PROVE  Replacing(f) \/ (Exists(f) => Readable(f))
<1>1. PICK w \in Workers :
        /\ handler'[w].step \in {"write", "sync", "rename"}
        /\ handler'[w].file = f
  BY DEF Replacing
<1>2. handler \in [Workers -> Tasks] /\ \A v \in Workers : HandlerOK(v)
  BY DEF IInv, TypeOK, Tasks, HandlersOK
<1>3. ASSUME handler'[w] = handler[w]
      PROVE  Replacing(f)
  BY <1>1, <1>3 DEF Replacing
<1>4. ASSUME NEW v \in Workers, handler' = [handler EXCEPT ![v] = Idle]
      PROVE  handler'[w] = handler[w]
  BY <1>1, <1>2, <1>4 DEF Idle
<1>5. ASSUME NEW v \in Workers, BeginList(v)
      PROVE  handler'[w] = handler[w]
  BY <1>1, <1>2, <1>5 DEF BeginList
<1>6. ASSUME NEW v \in Workers, ReadSnapshot(v)
      PROVE  handler'[w] = handler[w]
  <2>1. handler[v].step = "list"
    BY <1>6 DEF ReadSnapshot
  <2>2. PICK g \in handler[v].todo :
          \/ handler' = [handler EXCEPT ![v].todo = @ \ {g},
                                        ![v].seen[g] = Content(g)]
          \/ handler' = [handler EXCEPT ![v] = Idle]
    BY <1>6 DEF ReadSnapshot, Finish
  <2>3. handler[v] \in Listing
    BY <1>2, <2>1 DEF Tasks, Idle, Writing, WriteSteps
  <2>4. CASE w # v
    BY <1>2, <2>2, <2>4
  <2>5. CASE w = v
    BY <1>1, <1>2, <2>1, <2>2, <2>3, <2>5 DEF Idle, Listing
  <2> QED  BY <2>4, <2>5
<1>7. ASSUME NEW v \in Workers, NEW g \in Files, NEW data,
             BeginWrite(v, g, data), Exists(g) => Readable(g)
      PROVE  handler'[w] = handler[w] \/ (Exists(f) => Readable(f))
  BY <1>1, <1>2, <1>7 DEF BeginWrite
<1>8. ASSUME NEW v \in Workers, NEW g \in CaseFiles, Create(v, g) \/ Save(v, g)
      PROVE  handler'[w] = handler[w] \/ (Exists(f) => Readable(f))
  BY <1>7, <1>8 DEF Create, Save, Readable, Files
<1>9. ASSUME NEW v \in Workers, NEW b \in Blobs, PutEvidence(v, b)
      PROVE  handler'[w] = handler[w] \/ (Exists(f) => Readable(f))
  BY <1>7, <1>9 DEF PutEvidence, Files
<1>10. ASSUME NEW v \in Workers, WriteTemp(v) \/ SyncTemp(v) \/ Rename(v)
       PROVE  Replacing(f)
  <2>1. handler[v].step \in {"write", "sync", "rename"}
    BY <1>10 DEF WriteTemp, SyncTemp, Rename, Step
  <2>2. handler[v] \in Writing
    BY <2>1, WriterIs DEF WriteSteps
  <2>3. CASE w # v
    BY <1>1, <1>2, <1>10, <2>3
    DEF WriteTemp, SyncTemp, Rename, Step, Replacing
  <2>4. CASE w = v
    BY <1>1, <1>2, <1>10, <2>1, <2>2, <2>4
    DEF WriteTemp, SyncTemp, Rename, Step, Replacing, Writing
  <2> QED  BY <2>3, <2>4
<1>11. ASSUME NEW v \in Workers, AnswerList(v) \/ SyncDir(v) \/ Fail(v)
       PROVE  handler'[w] = handler[w]
  BY <1>4, <1>11 DEF AnswerList, SyncDir, Fail, Finish
<1>12. ASSUME Crash \/ PowerLoss
       PROVE  FALSE
  BY <1>1, <1>12 DEF Crash, PowerLoss, Stop, Idle
<1>13. ASSUME \/ Restart \/ UNCHANGED vars
              \/ \E g \in Files : Damage(g)
       PROVE  handler'[w] = handler[w]
  BY <1>13 DEF Restart, Damage, vars
<1> QED  BY <1>3, <1>5, <1>6, <1>8, <1>9, <1>10, <1>11, <1>12, <1>13 DEF Next

(* While the machine runs, nobody replaces or begins to replace a file     *)
(* that lies damaged (store.go:100-106, evidence.go:41-49).                *)
THEOREM DamageIsKept == Spec => DamageIsNeverCoveredUp
<1>1. ASSUME IInv, [Next]_vars
      PROVE  DamageStays
  <2> SUFFICES ASSUME NEW f \in Files, LyingDamaged(f), up'
               PROVE  tree'.files[f] = tree.files[f] /\ LyingDamaged(f)'
    BY DEF DamageStays
  <2>1. Exists(f) /\ ~ Readable(f) /\ ~ Replacing(f)
    BY DEF LyingDamaged
  <2>2. ASSUME NEW w \in Workers, Rename(w)
        PROVE  tree'.files[f] = tree.files[f]
    <3>1. f # handler[w].file
      BY <1>1, <2>1, <2>2, RenameIs DEF Replacing
    <3> QED  BY <1>1, <2>2, <3>1, RenameIs
  <2>3. ASSUME NEW g \in Files, Damage(g)
        PROVE  tree'.files[f] = tree.files[f]
    <3>1. f # g
      BY <2>1, <2>3 DEF Damage
    <3> QED  BY <1>1, <2>3, <3>1, DamageIs
  <2>4. ~ PowerLoss
    BY DEF PowerLoss, Stop
  <2>5. tree'.files[f] = tree.files[f]
    BY <1>1, <2>2, <2>3, <2>4, FileChanges
  <2>6. ~ Replacing(f)'
    BY <1>1, <2>1, ReplacingBegins
  <2> QED  BY <2>1, <2>5, <2>6 DEF LyingDamaged, Exists, Readable, Content
<1>2. IInv /\ [Next]_vars => [DamageStays]_vars
  BY <1>1
<1> QED  BY <1>2, Invariance, PTL DEF Spec, DamageIsNeverCoveredUp

(* Evidence is confirmed only when its content is there, or was put there  *)
(* and then damaged by something else (evidence.go:41-54).                 *)
THEOREM GrantsAreSound == Spec => GrantedEvidenceIsGenuine
<1>1. ASSUME IInv, Next
      PROVE  GrantsAreGenuine
  <2> DEFINE Hit(b) ==
        /\ b \in damaged
        /\ \E w \in Workers :
             handler[w].step = "syncDir" /\ handler[w].file = b
  <2> SUFFICES ASSUME NEW b \in granted' \ granted
               PROVE  tree'.files[b].data = b \/ Hit(b)
    BY DEF GrantsAreGenuine
  <2>1. ASSUME NEW w \in Workers, NEW c \in Blobs, PutEvidence(w, c)
        PROVE  tree'.files[b].data = b
    <3>1. b = c /\ Content(b) = b
      BY <2>1 DEF PutEvidence
    <3>2. tree'.files = tree.files
      BY <1>1, <2>1, Mkdir DEF PutEvidence, Dirs
    <3> QED  BY <3>1, <3>2 DEF Content
  <2>2. ASSUME NEW w \in Workers, SyncDir(w)
        PROVE  tree'.files[b].data = b \/ Hit(b)
    <3>1. handler[w].step = "syncDir" /\ tree' = tree
      BY <2>2 DEF SyncDir
    <3>2. WriterOK(handler[w])
      BY <1>1, <3>1, WriterIs DEF WriteSteps
    <3>3. b = handler[w].file /\ b \notin CaseFiles
      BY <2>2 DEF SyncDir, Confirm
    <3> QED  BY <3>1, <3>2, <3>3 DEF WriterOK, DataOf
  <2>3. ASSUME NEW w \in Workers,
               \/ BeginList(w) \/ ReadSnapshot(w) \/ AnswerList(w)
               \/ \E f \in CaseFiles : Create(w, f) \/ Save(w, f)
               \/ WriteTemp(w) \/ SyncTemp(w) \/ Rename(w) \/ Fail(w)
        PROVE  granted' = granted
    BY <2>3 DEF BeginList, ReadSnapshot, AnswerList, Create, Save, WriteTemp,
                SyncTemp, Rename, Fail
  <2>4. ASSUME Crash \/ PowerLoss
        PROVE  granted' = {}
    BY <2>4 DEF Crash, PowerLoss, Stop
  <2>5. ASSUME Restart \/ \E f \in Files : Damage(f)
        PROVE  granted' = granted
    BY <2>5 DEF Restart, Damage
  <2> QED  BY <1>1, <2>1, <2>2, <2>3, <2>4, <2>5 DEF Next
<1>2. IInv /\ [Next]_vars => [GrantsAreGenuine]_vars
  BY <1>1
<1> QED  BY <1>2, Invariance, PTL DEF Spec, GrantedEvidenceIsGenuine

----------------------------------------------------------------------------
(* The refinement.                                                         *)

(* The store implements durable revisions: each step is one of theirs or   *)
(* changes neither the revisions nor what was confirmed nor what is        *)
(* damaged in cases/ (store.go:44-115, snapshot.go:76-108).                *)
THEOREM StoreIsDurable ==
  ASSUME Trusted PROVE Spec => ImplementsDurableRevisions
<1>1. ASSUME Init
      PROVE  Durable!Init
  <2>1. IInv
    BY <1>1, InitHolds
  <2>2. ASSUME NEW f \in CaseFiles
        PROVE  Revision(tree, f) = 0
    BY <1>1 DEF Init, EmptyTree, Revision, Files
  <2> QED  BY <1>1, <2>2 DEF Durable!Init, Init
<1>2. ASSUME IInv, [Next]_vars
      PROVE  [Durable!Next]_(Durable!vars)
  <2>1. IInv'
    BY <1>2, NextKeeps
  <2>2. ASSUME NEW f \in CaseFiles
        PROVE  /\ f \in Files
               /\ Revision(tree, f) \in Nat
               /\ Revision(tree', f) \in Nat
    <3>1. tree \in Trees /\ FileOK(f, tree.files[f]) /\ f \in Files
      BY <1>2 DEF IInv, TypeOK, PastsOK, PastOK, Files
    <3>2. tree' \in Trees /\ FileOK(f, tree.files[f])'
      BY <2>1, <3>1 DEF IInv, TypeOK, PastsOK, PastOK
    <3>3. FileOK(f, tree.files[f])' =>
            \/ tree'.files[f] = None
            \/ tree'.files[f].data \in DataOf(f) \cup {Torn}
      BY DEF FileOK
    <3>4. Revision(tree', f) \in Nat
      BY <3>2, <3>3 DEF Revision, DataOf, Snapshots
    <3> QED  BY <3>1, <3>4, RevisionIs
  <2>3. ASSUME \A f \in CaseFiles : Revision(tree', f) = Revision(tree, f),
               UNCHANGED <<confirmed, damaged>>
        PROVE  UNCHANGED Durable!vars
    BY <2>3 DEF Durable!vars, Revision
  <2>4. ASSUME NEW w \in Workers, Rename(w)
        PROVE  [Durable!Next]_(Durable!vars)
    <3> DEFINE f == handler[w].file
    <3>1. UNCHANGED <<confirmed, damaged>>
      BY <2>4 DEF Rename
    <3>2. CASE f \in CaseFiles
      <4>1. /\ Revision(tree', f) = handler[w].inode.data.revision
            /\ Revision(tree, f) < handler[w].inode.data.revision
            /\ handler[w].inode.data.revision \in Nat
        <5>1. /\ handler[w].inode.data \in Snapshots
              /\ handler[w].inode # None
              /\ Revision(tree, f) < handler[w].inode.data.revision
              /\ tree'.files[f] = handler[w].inode
          BY <1>2, <2>4, <3>2, RenameIs DEF WriterOK, DataOf, Inodes
        <5> QED  BY <5>1 DEF Revision, Snapshots
      <4>2. \A g \in CaseFiles : g # f => Revision(tree', g) = Revision(tree, g)
        BY <1>2, <2>2, <2>4, RenameIs DEF Revision
      <4> HIDE DEF f
      <4>3. Durable!Advance(f)
        BY <2>2, <3>1, <3>2, <4>1, <4>2 DEF Durable!Advance, Revision
      <4> QED  BY <3>2, <4>3 DEF Durable!Next
    <3>3. CASE f \notin CaseFiles
      <4>1. \A g \in CaseFiles : Revision(tree', g) = Revision(tree, g)
        BY <1>2, <2>2, <2>4, <3>3, RenameIs DEF Revision
      <4> QED  BY <2>3, <3>1, <4>1
    <3> QED  BY <3>2, <3>3
  <2>5. ASSUME NEW w \in Workers, SyncDir(w)
        PROVE  [Durable!Next]_(Durable!vars)
    <3> DEFINE f == handler[w].file
    <3>1. /\ tree' = tree /\ damaged' = damaged /\ WriterOK(handler[w])
          /\ f \notin damaged => tree.files[f] = handler[w].inode
          /\ handler[w].inode \in Inodes
      <4>1. /\ handler[w].step = "syncDir" /\ tree' = tree
            /\ damaged' = damaged
        BY <2>5 DEF SyncDir
      <4>2. handler[w] \in Writing /\ WriterOK(handler[w])
        BY <1>2, <4>1, WriterIs DEF WriteSteps
      <4> QED  BY <4>1, <4>2 DEF WriterOK, Writing
    <3>2. CASE f \in CaseFiles
      <4>1. handler[w].inode.data \in Snapshots /\ handler[w].inode # None
        BY <3>1, <3>2 DEF WriterOK, DataOf, Inodes
      <4> DEFINE n == handler[w].inode.data.revision
      <4>2. n \in Nat /\ (f \notin damaged => Revision(tree, f) = n)
        BY <3>1, <4>1 DEF Revision, Snapshots
      <4>3. confirmed' = [confirmed EXCEPT ![f] = n]
        BY <2>5, <3>2 DEF SyncDir, Confirm
      <4>4. confirmed \in [CaseFiles -> Nat]
        BY <1>2 DEF IInv, TypeOK
      <4> HIDE DEF f, n
      <4>5. Durable!Confirm(f)
        BY <3>1, <3>2, <4>2, <4>3, <4>4 DEF Durable!Confirm, Revision
      <4> QED  BY <3>2, <4>5 DEF Durable!Next
    <3>3. CASE f \notin CaseFiles
      BY <2>3, <2>5, <3>1, <3>3 DEF SyncDir, Confirm, Revision
    <3> QED  BY <3>2, <3>3
  <2>6. ASSUME PowerLoss
        PROVE  [Durable!Next]_(Durable!vars)
    <3>1. PICK t \in pasts : tree' = Found(t)
      BY <2>6 DEF PowerLoss
    <3>2. t \in Trees /\ PastOK(t)
      BY <1>2 DEF IInv, TypeOK, PastsOK
    <3>3. ASSUME NEW f \in CaseFiles \ damaged
          PROVE  /\ Revision(tree', f) <= Revision(tree, f)
                 /\ confirmed[f] <= Revision(tree', f)
      <4>1. Revision(tree', f) = Revision(t, f)
        BY <3>1, <3>2, FoundKeeps DEF Revision
      <4> QED  BY <1>2, <4>1 DEF IInv, RevisionsOK
    <3>4. UNCHANGED <<confirmed, damaged>>
      BY <2>6 DEF PowerLoss
    <3>5. Durable!Lose
      BY <2>2, <3>3, <3>4 DEF Durable!Lose, Revision
    <3> QED  BY <3>5 DEF Durable!Next
  <2>7. ASSUME NEW f \in Files, Damage(f)
        PROVE  [Durable!Next]_(Durable!vars)
    <3>1. /\ damaged' = damaged \cup {f} /\ UNCHANGED confirmed
          /\ tree.files[f] # None
          /\ tree'.files[f] = Whole(Torn)
          /\ \A g \in Files : g # f => tree'.files[g] = tree.files[g]
      <4>1. tree' = WithFile(tree, f, Whole(Torn)) /\ Exists(f)
        BY <2>7 DEF Damage, Readable
      <4>2. Whole(Torn) \in Inodes
        BY DEF Whole, Inodes
      <4> QED  BY <1>2, <2>7, <4>1, <4>2, WithFileIs
               DEF IInv, TypeOK, Damage, Exists
    <3>2. \A g \in CaseFiles : g # f => Revision(tree', g) = Revision(tree, g)
      BY <2>2, <3>1 DEF Revision
    <3>3. CASE f \in CaseFiles
      <4>1. Revision(tree', f) = 0
        BY <3>1 DEF Revision, Whole
      <4>2. Durable!Damage(f)
        BY <3>1, <3>2, <3>3, <4>1 DEF Durable!Damage, Revision
      <4> QED  BY <3>3, <4>2 DEF Durable!Next
    <3>4. CASE f \notin CaseFiles
      <4>1. damaged' \cap CaseFiles = damaged \cap CaseFiles
        BY <3>1, <3>4
      <4>2. \A g \in CaseFiles : Revision(tree', g) = Revision(tree, g)
        BY <3>2, <3>4
      <4> QED  BY <3>1, <4>1, <4>2 DEF Durable!vars, Revision
    <3> QED  BY <3>3, <3>4
  <2>8. ASSUME tree'.files = tree.files, ~ \E w \in Workers : SyncDir(w),
               ~ \E f \in Files : Damage(f)
        PROVE  UNCHANGED Durable!vars
    <3>1. UNCHANGED <<confirmed, damaged>>
      BY <1>2, <2>8
      DEF Next, vars, BeginList, ReadSnapshot, AnswerList, Create, Save,
          PutEvidence, WriteTemp, SyncTemp, Rename, Fail, Crash, PowerLoss,
          Restart
    <3> QED  BY <2>3, <2>8, <3>1 DEF Revision
  <2> QED  BY <1>2, <2>4, <2>5, <2>6, <2>7, <2>8, FileChanges
<1>3. IInv /\ [Next]_vars => [Durable!Next]_(Durable!vars)
  BY <1>2
<1>4. Init => Durable!Init
  BY <1>1
<1> QED  BY <1>3, <1>4, Invariance, PTL
         DEF Spec, ImplementsDurableRevisions, Durable!Spec

============================================================================

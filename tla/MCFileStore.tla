---------------------------- MODULE MCFileStore ----------------------------
(* FileStore on small instances.                                           *)
EXTENDS FileStore, TLC

CONSTANTS s1, s2, b1, b2

MCShard == [b \in Blobs |-> IF b = b1 THEN s1 ELSE s2]

Symmetric == Permutations(Workers) \cup Permutations(CaseFiles)

============================================================================

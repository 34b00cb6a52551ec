\* A journaling file system from the first start on: one case and two contents
\* in two directories, of which one file is damaged from outside.
CONSTANTS
  s1 = s1
  s2 = s2
  b1 = b1
  b2 = b2
  CaseFiles = {c1}
  Blobs = {b1, b2}
  Shards = {s1, s2}
  Shard <- MCShard
  Workers = {w1, w2}
  None = None
  Torn = Torn
  OneJournal = TRUE
  Fresh = TRUE
  MaxRevision = 2
  MaxDamage = 1
SPECIFICATION Spec
INVARIANTS NoTornFile StartsAfterPowerLoss ListIsComplete
PROPERTIES ImplementsDurableRevisions DamageIsNeverCoveredUp GrantedEvidenceIsGenuine
SYMMETRY Symmetric

SPECIFICATION CommitSpec
CONSTANTS
  m1 = m1
  m2 = m2
  t1 = t1
  t2 = t2
  Nothing = Nothing
  Truncated = Truncated
  Mixed = Mixed
  Managers = {m1}
  Tasks = {t1, t2}
  OwnerOf <- OneManager
  Mutations = {x, y}
  Inodes = {i1, i2, i3, i4}
  Serialized = TRUE
  Quiet = FALSE
  MaxRevision = 2
INVARIANTS
  ManifestPassesIntegrity

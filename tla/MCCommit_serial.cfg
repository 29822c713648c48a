SPECIFICATION FairSpec
CONSTANTS
  m1 = m1
  m2 = m2
  t1 = t1
  t2 = t2
  Nothing = Nothing
  Truncated = Truncated
  Mixed = Mixed
  Managers = {m1, m2}
  Tasks = {t1, t2}
  OwnerOf <- TwoManagers
  Mutations = {x, y}
  Inodes = {i1, i2, i3, i4}
  Serialized = TRUE
  Quiet = TRUE
  MaxRevision = 2
INVARIANTS
  CommitTypeOK
  NoLostUpdate
  CleanManagersAreCurrent
PROPERTIES
  ImplementsPublished
  CallsReturn

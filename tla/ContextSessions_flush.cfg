SPECIFICATION FairSpec
CONSTANTS
  Sessions = {"s1", "s2"}
  MaxOffloads = 1
  MaxObjects = 2
  MaxMutations = 2
  MaxRevision = 2
INVARIANTS
  TypeOK
  
PROPERTIES
  CallsEnd

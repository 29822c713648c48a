SPECIFICATION IngestSpec
CONSTANTS
  Values = {"a", "b"}
  Keys = {"k1", "k2"}
  KeyOf <- MCKeyOf
  Sources = {"user"}
  Slots = {"sum"}
  CONFIDENCE_SUPERIORITY_THRESHOLD = 2
  CONVERGENCE_BONUS = 1
  CONFIDENCE_MAX = 3
  Confidences = {1, 3}
  Unknown = {}
  MaxParents = 0
  MaxFacts = 3
  MaxSummaries = 0
INVARIANTS
  OneAuthority
CHECK_DEADLOCK FALSE

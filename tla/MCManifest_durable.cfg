SPECIFICATION Spec
CONSTANTS
  Values = {"a", "b"}
  Keys = {"k1", "k2"}
  KeyOf <- MCKeyOf
  Sources = {"user"}
  Slots = {"sum"}
  CONFIDENCE_SUPERIORITY_THRESHOLD = 2
  CONVERGENCE_BONUS = 1
  CONFIDENCE_MAX = 3
  Confidences = {1, 3}
  Unknown = {}
  MaxParents = 1
  MaxFacts = 2
  MaxSummaries = 2
INVARIANTS
  OneActiveSummary
  FreshSummariesAreCurrent
  
  CleanMeansSaved
CHECK_DEADLOCK FALSE

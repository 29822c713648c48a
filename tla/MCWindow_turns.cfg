SPECIFICATION OffloadSpec
CONSTANTS
  Batches <- MCBatches
  LinesOf <- MCLinesOf
  max_tokens = 4
  max_turns = 3
  offload_threshold_chars = 5
  chars_per_token = 2
  pointer_chars = 3
  full_mode_max_lines = 4
  full_mode_max_bytes = 6
  search_context_lines = 1
  search_max_matches = 2
  MaxMessages = 5
  MaxCrashes = 1
INVARIANTS
  WindowIsLongestFit
  MessagesOnce
  ReferencesResolve
  OffloadedTextsAreHeld
  
  SearchFindsFirstMatches
CHECK_DEADLOCK FALSE

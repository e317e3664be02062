CONSTANTS
  Docs = {1, 2, 3, 4}
  Id <- MCId
  Lexical = {"full_document_bm25"}
  Dense = {"dense"}
  Derived <- MCDerived
  Channels <- MCChannels
  Weight <- MCWeight
  Scores = {0, 1, 2}
  Gains = {0, 1}
  ChannelTopK = 3
  PrefixDepth = 2
  TargetDepth = 3
  RrfK = 1
  Scale = 12
SPECIFICATION Spec
INVARIANTS ExactTopKIsFullSort PrefixIsBaseline PoolIsFull
CHECK_DEADLOCK FALSE

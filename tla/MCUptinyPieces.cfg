CONSTANTS
  token_pool_size = 60
  ecuid = "ecu1"
  hwid = "hw"
  signature_pool_size = 2
  crypto_ctx_pool_size = 2
  TARGETS_MAX_HASHES = 2
  Roots <- MCRoots
  Documents <- MCDocuments
  Images <- MCImages
  FactoryRoot <- MCFactoryRoot
  ROOT_MAX_KEYS = 6
  Pieces = {1, 6, 99}
  MaxDeliveries = 2
  None = None
SPECIFICATION Spec
INVARIANT AnswersRightInPieces
CHECK_DEADLOCK FALSE

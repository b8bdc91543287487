CONSTANTS
  AttemptSettings <- MCAttemptSettings
  DefaultAttempts = 3
  User = User
  None = None
SPECIFICATION RunSpec
INVARIANTS
  SuccessDelivers
  NoRetryAfterWrite
  NothingLeftBehind
  PromptFitsHistory
  AttemptsAccounted
PROPERTIES
  Terminates

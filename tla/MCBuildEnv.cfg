CONSTANTS
  port = port
  token = token
  own = own
  Names = {port, token, own}
  Keys = {port, token}
  ArgNames = {port, own}
  Words <- SomeWords
  MaxWords = 2
SPECIFICATION PrepareSpec
INVARIANTS
  MeaningPreserved
  OnlyReferencedPublic
CHECK_DEADLOCK FALSE

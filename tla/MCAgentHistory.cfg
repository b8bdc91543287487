CONSTANTS
  Callers = {1, 2}
  CallIDs <- MCCallIDs
  NoID = NoID
  OutputLens = {1, 3, 9}
  MetaLens = {1}
  RefLen <- MCRefLen
  MaxBytes = 9
  MaxInline = 1
  MaxSaves = 6
  NoSave = NoSave
  MaxCalls = 2
  MaxRounds = 3
  MaxAttempts = 2
  CatalogLines = 1
  PageLens = {1}
SPECIFICATION HistorySpec
INVARIANTS
  ContextBudgeted
  NoticesTruthful
PROPERTIES
  LostOnlyToOtherTools
  RoundCompletes

CONSTANTS
  Callers = {g1}
  CallIDs = {c1, c2}
  NoID = NoID
  OutputLens = {1, 3, 8}
  MetaLens = {0, 1}
  RefLen <- MCRefLen
  MaxBytes = 8
  MaxInline = 1
  MaxSaves = 5
  NoSave = NoSave
SPECIFICATION StoreSpec
INVARIANTS
  TypeOK
  RetainsSuffix
  BudgetRespected
  EvictsOnlyForRoom
  CompactionDescribesLatest
PROPERTIES
  RefsNeverReused
CHECK_DEADLOCK FALSE

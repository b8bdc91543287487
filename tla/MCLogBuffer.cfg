CONSTANTS
  Limits = {0, 1, 2, 3, 4, 5, 6, 7, 8, 9}
  MaxTotal = 16
  Cut = Cut
SPECIFICATION BufferSpec
INVARIANTS
  BufferTypeOK
PROPERTIES
  KeepsPromise

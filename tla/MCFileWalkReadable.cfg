CONSTANTS
  Entries <- MCEntries
  Size <- MCSize
  Hits <- MCHits
  DefaultIgnoredDirs <- MCDefaults
  SensitiveNames = {"secret"}
  GitignoreLines <- MCLines
  MaxLines = 3
  MaxIgnorePatterns = 3
  Globs <- MCGlobs
  Wildcard <- MCWildcard
  MaxVisited = 9
  MaxFileBytes = 2
  MaxGrepFiles = 3
  MaxGrepBytes = 3
  MaxDirectoryScan = 3
  MaxTreeEntries = 4
  Limits = {1, 2, 9}
SPECIFICATION WalkSpec
INVARIANT ExactlyWhatToolsRead
CHECK_DEADLOCK FALSE

\* As MCConfig: every file and command line of MCConfig, with every worker and console.
CONSTANTS
  Folding <- MCFolding
  Replacement = 63
  Null = Null
  MAXPAIRS = 2
  Charsets <- MCCharsets
  ChunkFiles <- MCChunkFiles
  CommandLines <- MCCommandLines
  JobFiles <- MCJobFiles
  Dictionaries <- MCDictionaries
  Locales <- MCLocales
  InitFunctions <- MCInitFunctions
  MaxBit = 12
SPECIFICATION Spec
INVARIANTS
  PrefixKept
CHECK_DEADLOCK FALSE

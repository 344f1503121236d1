\* As MCConfig: keys that both description files have.
CONSTANTS
  Folding <- MCFolding
  Replacement = 63
  Null = Null
  MAXPAIRS = 2
  Charsets <- MCCharsets
  ChunkFiles <- MCChunkFiles
  CommandLines <- MCCommandLines
  JobFiles <- MCJobFiles
  Dictionaries <- MCDictionaries
  Locales <- MCLocales
  InitFunctions <- MCInitFunctions
  MaxBit = 12
SPECIFICATION Spec
INVARIANTS
  ChunkFilePrecedes
CHECK_DEADLOCK FALSE

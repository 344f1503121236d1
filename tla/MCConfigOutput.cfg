\* As MCConfig: an output encoding that only the first of two files has.
CONSTANTS
  Folding <- MCFolding
  Replacement = 63
  Null = Null
  MAXPAIRS = 2
  Charsets <- MCCharsets
  ChunkFiles <- MCChunkFiles
  CommandLines <- MCCommandLines
  JobFiles <- MCJobFiles
  Dictionaries <- MCDictionaries
  Locales <- MCLocales
  InitFunctions <- MCInitFunctions
  MaxBit = 12
SPECIFICATION Spec
INVARIANTS
  OutputKept
CHECK_DEADLOCK FALSE

\* A dictionary whose chunk description file names its encoding.
CONSTANTS
  Folding <- MCFolding
  Replacement = 63
  Null = Null
  MAXPAIRS = 2
  Charsets <- MCCharsets
  ChunkFiles <- MCEncodingFiles
  CommandLines <- MCCommandLines
  JobFiles <- MCJobFiles
  Dictionaries <- MCDictionaries
  Locales <- MCLocales
  InitFunctions <- MCInitFunctions
  MaxBit = 12
SPECIFICATION Spec
INVARIANTS
  DictionaryEncoding
CHECK_DEADLOCK FALSE

SPECIFICATION MCSpec
CONSTANTS
  Parts = {"map"}
  Keys <- MCKeys
  Families <- PruneFamilies
  Values = {0}
  Slots = {0, 1}
  Word = 3
  MaxLevels = 4
  Hash <- MCHash
  EmptiesBelowLast = TRUE
  LevelBits = 3
  Hashes <- MCHashes
  Filling <- MCFilling
  N = 2
  PoolStart = 0
  PoolSizes = {13}
  BumpStart = 32
  BumpAlign = 2
  BumpSizes = {12}
  Locked = {TRUE, FALSE}
  HeapStart = 64
  HeapSize = 3
  MaxBlocks = 3
  Requests <- MCRequests
  WordBits = 2
  Schoolbook = 3
  Frame = 5
  Operands <- MCOperands
  Buffers <- MCBuffers
  Needles <- MCNeedles
  Encodings = {"ascii"}
  SignedBytes = 128
  Bits = 8
  Ten = 3
  Chunk = 2
  CellBits = 8
  Numerals <- MCNumerals
  Radixes = {1, 2, 3, 8, 10, 16, 36}
  FloatWord = 14
  MantissaBits = 5
  ExponentBits = 5
  PowRange = 8
  Accuracies = {0, 1, 2, 3, 4}
  Others <- MCOthers
INVARIANTS FindsEntries
CHECK_DEADLOCK FALSE

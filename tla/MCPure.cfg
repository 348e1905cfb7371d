SPECIFICATION Spec
CHECK_DEADLOCK FALSE
CONSTANTS
  HashSize = 3
  MaxByte = 3
  difficulty = 2
  KeyDigits = 2
  MaxHeight = 99
  kHour = 2
  Slots = 3
  Recent = 2
  TpsBlocks = 1
  U64 = 64
  MaxLeaves = 6
  MaxChain = 3
  Txids <- MCTxids
  Leaves <- MCLeaves
  Txs <- MCTxs
  Sigs <- MCSigs
  Blocks <- MCBlocks
  Messages <- MCMessages
  Chains <- MCChains
  Clock <- MCClock
  Windows <- MCWindows
INVARIANTS
  MerkleIsTree
  MerkleCommits
  WorkIsLeadingZeros
  RoundTrip
  OnlyWholeValues
  SizesExact
  TxidCommits
  KeysInOrder
  
  ActivityBounded

SPECIFICATION FairSpec
CONSTANTS
  Tx <- MCTx
  Address <- MCAddress
  PublicKey <- MCPublicKey
  MaxIndex = 1
  MaxAmount = 7
  inputs <- MCInputs
  outputs <- MCOutputs
  derive_address <- MCDerive
  Genesis = "g"
  GenesisTime = 0
  NoBlock = NoBlock
  Timestamp = {0}
  Coinbase = {"c1", "c2", "c3"}
  Submitted <- SubmitSome
  MaxBlocks = 4
  MaxRefs = 2
  MaxCrashes = 1
  CarefulMiner = TRUE
INVARIANTS
  NothingAppliedTwice
  SpentStaysSpent
  BalanceExact
PROPERTIES
  LoadingEnds
  AddBlockEnds
  ImplementsLedger

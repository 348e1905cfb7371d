SPECIFICATION Spec
CONSTANTS
  Tx <- MCTx
  Address <- MCAddress
  PublicKey <- MCPublicKey
  MaxIndex = 1
  MaxAmount = 7
  inputs <- MCInputs
  outputs <- MCOutputs
  derive_address <- MCDerive
  Genesis = "g"
  GenesisTime = 0
  NoBlock = NoBlock
  Timestamp = {0}
  Coinbase = {"c1"}
  Submitted <- SubmitFan
  MaxBlocks = 4
  MaxRefs = 1
  MaxCrashes = 0
  CarefulMiner = FALSE
INVARIANT SpentStaysSpent

SPECIFICATION SpecP
CONSTANTS
  Tx <- MCTx
  Address <- MCAddress
  PublicKey <- MCPublicKey
  MaxIndex = 1
  MaxAmount = 7
  inputs <- MCInputs
  outputs <- MCOutputs
  derive_address <- MCDerive
  Genesis = "g"
  GenesisTime = 0
  NoBlock = NoBlock
  Timestamp = {0}
  Coinbase = {"c1", "c2", "c3"}
  Submitted <- SubmitFamily
  MaxBlocks = 3
  MaxRefs = 1
  MaxCrashes = 0
  MaxFaults = 0
  MaxPower = 1
  CarefulMiner = TRUE
INVARIANT NothingAppliedTwice

SPECIFICATION SpecP
CONSTANTS
  Tx <- MCTx
  Address <- MCAddress
  PublicKey <- MCPublicKey
  MaxIndex = 1
  MaxAmount = 7
  inputs <- MCInputs
  outputs <- MCOutputs
  derive_address <- MCDerive
  Genesis = "g"
  GenesisTime = 0
  NoBlock = NoBlock
  Timestamp = {0}
  Coinbase = {"c1"}
  Submitted <- SubmitFamily
  MaxBlocks = 4
  MaxRefs = 2
  MaxCrashes = 0
  MaxFaults = 1
  MaxPower = 1
  CarefulMiner = FALSE
INVARIANTS
  IndexSound
  ChainLinked
  RestartHeals
PROPERTIES
  HistoryOnlyCutByPower
  LocksHeld

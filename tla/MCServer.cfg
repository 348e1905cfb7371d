SPECIFICATION FairSpecS
CONSTANTS
  Tx <- MCTx
  Address <- MCAddress
  PublicKey <- MCPublicKey
  MaxIndex = 1
  MaxAmount = 7
  inputs <- MCInputs
  outputs <- MCOutputs
  derive_address <- MCDerive
  Genesis = "g"
  GenesisTime = 0
  NoBlock = NoBlock
  Timestamp = {0}
  Coinbase = {"c1"}
  Submitted <- SubmitOne
  MaxBlocks = 3
  MaxRefs = 1
  MaxCrashes = 1
  Client = {w1, w2}
  NoMsg = NoMsg
  Requests <- AllTypes
  Flaws = {"none", "short"}
  CarefulMiner = FALSE
INVARIANTS
  GetPoolTxFinds
  AcceptedIsStored
  OneWinnerPerTip
  PoolReplyNotShort
PROPERTIES
  ChainSpec
  Answered

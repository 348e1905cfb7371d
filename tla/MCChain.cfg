SPECIFICATION Spec
CONSTANTS
  Tx <- MCTx
  Address <- MCAddress
  PublicKey <- MCPublicKey
  MaxIndex = 1
  MaxAmount = 7
  inputs <- MCInputs
  outputs <- MCOutputs
  derive_address <- MCDerive
  Genesis = "g"
  GenesisTime = 0
  NoBlock = NoBlock
  Timestamp = {0}
  Coinbase <- Coins
  Submitted <- SubmitAll
  MaxBlocks = 4
  MaxRefs = 2
  MaxCrashes = 2
  CarefulMiner = FALSE
INVARIANTS
  IInv
  UtxoMatchesChain
  PoolSpendable
  StoresAgree
  ValueConserved
  BlockLookup
  RestartIsIdentity
PROPERTIES
  HistoryImmutable
  LossOnlyInFlight

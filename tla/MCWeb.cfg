SPECIFICATION SpecW
CONSTANTS
  Tx <- MCTx
  Address <- MCAddress
  PublicKey <- MCPublicKey
  MaxIndex = 1
  MaxAmount = 7
  inputs <- MCInputs
  outputs <- MCOutputs
  derive_address <- MCDerive
  Genesis = "g"
  GenesisTime = 0
  NoBlock = NoBlock
  Timestamp = {0}
  Coinbase = {"c1"}
  Submitted <- SubmitOne
  MaxBlocks = 4
  MaxRefs = 1
  MaxCrashes = 1
  Worker = {h1}
  Conn = {x1}
  Free = Free
  MaxPage = 1
  Queries = {"tip", "status", "blocks"}
  CarefulMiner = FALSE
INVARIANTS
  TipLabelNotAhead
  PageSound
  BlocksInOrder
PROPERTY TcpTxBeforeBlock

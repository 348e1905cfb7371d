---------------------------- MODULE FaultProofs ----------------------------
(***************************************************************************)
(* Proofs about ChainFaults and PowerLoss: what holds whatever LevelDB     *)
(* call fails and however much of either log a power failure takes, for    *)
(* any universe of transactions and any bounds.                            *)
(***************************************************************************)
EXTENDS PowerLoss, ChainProofs

-----------------------------------------------------------------------------
(* The inductive invariant *)

\* The block inside add_block extends the tip.
TipExtended == phase = "up" /\ blk # NoBlock => blk.prev_hash = TipHash

\* What is left of IInv of Chain when calls may fail: neither utxo_ nor the
\* pool need fit the chain, the blocks and the index still do.
FInv ==
  /\ TypeOK /\ BlocksMirror /\ TipExtended /\ ChainLinked
  /\ IndexSound /\ RestartHeals /\ pool_spent \subseteq Claimed

\* What a power failure can bring back: earlier states of the databases, the
\* blocks among them as prefixes of what is stored now.
PastSound ==
  /\ \A c \in blocks_past : c \in Seq(Block) /\ Prefix(c, blocks_db)
  /\ \A p \in pool_past : p \subseteq Tx
  /\ outages \in Nat

PInv == FInv /\ PastSound

-----------------------------------------------------------------------------
(* The blocks: memory, database, links *)

\* Appending a block that extends the tip keeps the chain linked.
LEMMA LinkAppend ==
  ASSUME TypeOK, ChainLinked, blocks_db # <<>>, NEW b \in Block,
         b.prev_hash = BlockHash(blocks_db[Len(blocks_db)]),
         blocks_db' = Append(blocks_db, b)
  PROVE  ChainLinked'
<1> DEFINE c == blocks_db
           n == Len(blocks_db)
<1>1. c \in Seq(Block) /\ n \in Nat /\ n >= 1
  BY DEF TypeOK
<1>2. /\ Len(c') = n + 1 /\ c'[n + 1] = b
      /\ \A h \in 1..n : c'[h] = c[h]
  BY <1>1, AppendProperties
<1> SUFFICES ASSUME NEW h \in 1..(n + 1)
             PROVE  c'[h].prev_hash = IF h = 1 THEN <<>> ELSE BlockHash(c'[h - 1])
  BY <1>2, SMTT(40) DEF ChainLinked
<1>3. CASE h = n + 1
  <2>1. h # 1 /\ h - 1 = n /\ c'[h - 1] = c[n]
    BY <1>1, <1>2, <1>3
  <2> QED BY <1>2, <1>3, <2>1
<1>4. CASE h \in 1..n
  <2>1. h # 1 => c'[h - 1] = c[h - 1]
    BY <1>1, <1>2, <1>4
  <2>2. c[h].prev_hash = IF h = 1 THEN <<>> ELSE BlockHash(c[h - 1])
    BY <1>4 DEF ChainLinked
  <2> QED BY <1>2, <1>4, <2>1, <2>2
<1> QED BY <1>1, <1>3, <1>4

\* The constructor: blocks_ catches up with the database, key by key.
LEMMA LoadBlocks ==
  ASSUME TypeOK, BlocksMirror, TipExtended, ChainLinked, LoadStep
  PROVE  BlocksMirror' /\ TipExtended' /\ ChainLinked'
<1>0. /\ blocks \in Seq(Block) /\ blocks_db \in Seq(Block)
      /\ Len(blocks) \in Nat /\ Len(blocks_db) \in Nat
  BY DEF TypeOK
<1>1. CASE LoadBlock
  <2>0. /\ phase = "loading" /\ phase' = "loading" /\ done' = 0
        /\ Len(blocks) < Len(blocks_db) /\ blk = NoBlock
        /\ blk' = blocks_db[Len(blocks) + 1] /\ blk' \in Block
        /\ UNCHANGED <<blocks, pool, pool_spent, blocks_db>>
    BY <1>0, <1>1 DEF LoadBlock, disk
  <2>1. blk' # NoBlock
    BY <2>0, NoBlockAssumption
  <2>2. BlocksMirror'
    BY <1>0, <2>0, <2>1 DEF BlocksMirror, Block
  <2> QED BY <2>0, <2>2 DEF TipExtended, ChainLinked
<1>2. CASE ApplyLoaded
  <2>0. /\ phase = "loading" /\ phase' = "loading" /\ blk # NoBlock
        /\ done < Len(blk.txs) /\ done' = done + 1 /\ done \in Nat
        /\ blk \in Block /\ Len(blk.txs) \in Nat
        /\ UNCHANGED <<blocks, blk, height, pool, pool_spent, blocks_db>>
    BY <1>2 DEF ApplyLoaded, disk, TypeOK, Block
  <2>1. BlocksMirror'
    BY <2>0 DEF BlocksMirror
  <2> QED BY <2>0, <2>1 DEF TipExtended, ChainLinked
<1>3. CASE PushLoaded
  <2>0. /\ phase = "loading" /\ phase' = "loading" /\ blk # NoBlock
        /\ done' = 0 /\ blk' = NoBlock /\ blk \in Block
        /\ blocks' = Append(blocks, blk)
        /\ UNCHANGED <<height, pool, pool_spent, blocks_db>>
    BY <1>3 DEF PushLoaded, disk, TypeOK
  <2>1. /\ Len(blocks') = Len(blocks) + 1
        /\ \A h \in 1..Len(blocks) : blocks'[h] = blocks[h]
        /\ blocks'[Len(blocks) + 1] = blk
    BY <1>0, <2>0, AppendProperties
  <2>2. /\ Len(blocks) < Len(blocks_db) /\ blk = blocks_db[Len(blocks) + 1]
        /\ \A h \in 1..Len(blocks) : blocks[h] = blocks_db[h]
    BY <2>0 DEF BlocksMirror
  <2>3. \A h \in 1..Len(blocks') : blocks'[h] = blocks_db'[h]
    BY <1>0, <2>0, <2>1, <2>2
  <2>4. BlocksMirror'
    BY <1>0, <2>0, <2>1, <2>2, <2>3 DEF BlocksMirror
  <2> QED BY <2>0, <2>4 DEF TipExtended, ChainLinked
<1>4. CASE load_pool
  <2>0. /\ phase = "loading" /\ blk = NoBlock /\ done = 0
        /\ Len(blocks) = Len(blocks_db) /\ height' = Len(blocks)
        /\ phase' = IF blocks = <<>> THEN "genesis" ELSE "up"
        /\ UNCHANGED <<blocks, blk, done, blocks_db>>
    BY <1>4 DEF load_pool, disk, BlocksMirror
  <2>1. blocks = blocks_db
    BY <1>0, <2>0, SameChain DEF BlocksMirror
  <2>2. BlocksMirror'
    BY <2>0, <2>1 DEF BlocksMirror
  <2> QED BY <2>0, <2>2 DEF TipExtended, ChainLinked
<1>5. CASE create_genesis
  <2>0. /\ phase' = "up" /\ blk = NoBlock /\ blk' = NoBlock
        /\ blocks = <<>> /\ blocks_db = <<>> /\ done' = 0
        /\ blocks_db' = PutBlock(blocks_db, Len(blocks) + 1, GenesisBlock)
        /\ blocks' = Append(blocks, GenesisBlock) /\ height' = 1
    BY <1>5 DEF create_genesis, BlocksMirror
  <2>1. blocks' = <<GenesisBlock>> /\ blocks_db' = <<GenesisBlock>>
    <3>1. Append(<<>>, GenesisBlock) = <<GenesisBlock>>
      OBVIOUS
    <3>2. PutBlock(<<>>, Len(<<>>) + 1, GenesisBlock) = Append(<<>>, GenesisBlock)
      BY <1>0, <2>0, GenesisType, PutAppends
    <3> QED BY <2>0, <3>1, <3>2
  <2>2. BlocksMirror'
    BY <2>0, <2>1 DEF BlocksMirror
  <2>3. ChainLinked'
    BY <2>1, GenesisType DEF ChainLinked
  <2> QED BY <2>0, <2>2, <2>3 DEF TipExtended
<1> QED BY <1>1, <1>2, <1>3, <1>4, <1>5 DEF LoadStep

\* The block add_block stores goes behind the tip; everything else that runs
\* leaves the blocks alone.
LEMMA BlocksStep ==
  ASSUME TypeOK, BlocksMirror, TipExtended, ChainLinked, [Next]_vars
  PROVE  BlocksMirror' /\ TipExtended' /\ ChainLinked'
<1>0. /\ blocks \in Seq(Block) /\ blocks_db \in Seq(Block) /\ done \in Nat
      /\ blk \in Block \cup {NoBlock}
  BY DEF TypeOK
<1>1. CASE LoadStep
  BY <1>1, LoadBlocks
<1>2. CASE Submission
  <2>1. /\ phase = "up" /\ phase' = "up"
        /\ UNCHANGED <<blocks, height, blk, done, blocks_db>>
    BY <1>2 DEF Submission, add_tx, reject_tx, Unlocked, vars, mem, disk
  <2> QED BY <2>1 DEF BlocksMirror, TipExtended, TipHash, ChainLinked
<1>3. CASE BeginBlock
  <2>1. PICK c \in Coinbase, refs \in RefLists, ts \in Timestamp :
          LockForBlock(Assemble(TipHash, c, refs, ts))
    BY <1>3 DEF BeginBlock
  <2> DEFINE b == Assemble(TipHash, c, refs, ts)
  <2>2. /\ phase = "up" /\ phase' = "up" /\ blk' = b /\ done' = 0
        /\ UNCHANGED <<blocks, height, blocks_db>> /\ blocks # <<>>
    BY <2>1 DEF LockForBlock, Unlocked, disk, BlocksMirror
  <2>3. b \in Block /\ b.prev_hash = TipHash
    <3>1. b \in Block
      BY <2>2, AssembleType
    <3> QED BY <3>1 DEF Assemble
  <2>4. b # NoBlock /\ Len(b.txs) \in Nat
    BY <2>3, NoBlockAssumption DEF Block
  <2> HIDE DEF b
  <2>5. BlocksMirror'
    BY <2>2, <2>4 DEF BlocksMirror
  <2> QED BY <2>2, <2>3, <2>5 DEF TipExtended, TipHash, ChainLinked
<1>4. CASE ApplyMined
  <2>1. /\ phase = "up" /\ phase' = "up" /\ done < Len(blk.txs)
        /\ done' = done + 1 /\ blk # NoBlock /\ Len(blk.txs) \in Nat
        /\ UNCHANGED <<blocks, height, blk, blocks_db>>
    BY <1>0, <1>4 DEF ApplyMined, Block
  <2>2. BlocksMirror'
    BY <1>0, <2>1 DEF BlocksMirror
  <2> QED BY <2>1, <2>2 DEF TipExtended, TipHash, ChainLinked
<1>5. CASE StoreBlock
  <2>1. /\ phase = "up" /\ phase' = "up" /\ blk \in Block
        /\ blk.prev_hash = TipHash /\ blk' = NoBlock /\ done' = 0
        /\ blocks = blocks_db /\ blocks # <<>> /\ height = Len(blocks)
        /\ blocks_db' = PutBlock(blocks_db, Len(blocks) + 1, blk)
        /\ blocks' = Append(blocks, blk) /\ height' = height + 1
    BY <1>0, <1>5 DEF StoreBlock, BlocksMirror, TipExtended
  <2>2. blocks_db' = Append(blocks_db, blk)
    BY <1>0, <2>1, PutAppends
  <2>3. Len(blocks') = Len(blocks) + 1 /\ blocks' # <<>>
    BY <1>0, <2>1, AppendProperties
  <2>4. BlocksMirror'
    BY <2>1, <2>2, <2>3 DEF BlocksMirror
  <2>5. ChainLinked'
    BY <2>1, <2>2, LinkAppend DEF TipHash
  <2> QED BY <2>1, <2>4, <2>5 DEF TipExtended
<1>6. CASE Start
  <2>1. /\ MemEmpty /\ phase' = "loading" /\ UNCHANGED blocks_db
        /\ UNCHANGED mem
    BY <1>6 DEF Start, BlocksMirror, disk
  <2>2. BlocksMirror'
    BY <1>0, <2>1 DEF BlocksMirror, MemEmpty, mem
  <2> QED BY <2>1, <2>2 DEF TipExtended, ChainLinked
<1>7. CASE Stop \/ Crash
  <2>1. LoseMemory /\ phase' = "down" /\ UNCHANGED blocks_db
    BY <1>7 DEF Stop, Crash, disk
  <2> QED BY <2>1 DEF LoseMemory, BlocksMirror, MemEmpty, TipExtended, ChainLinked
<1>8. CASE UNCHANGED vars
  BY <1>8 DEF vars, mem, disk, BlocksMirror, MemEmpty, TipExtended, TipHash,
              ChainLinked
<1> QED BY <1>1, <1>2, <1>3, <1>4, <1>5, <1>6, <1>7, <1>8
        DEF Next, BlockStep, Process

-----------------------------------------------------------------------------
(* The index and the rebuilt UTXO set *)

\* Every step applies a transaction to utxo_ and to its index together, empties
\* both, or touches neither.
LEMMA IndexNext ==
  ASSUME TypeOK, BlocksMirror, IndexSound, [Next]_vars PROVE IndexSound'
<1>1. CASE UNCHANGED <<utxo, address_utxo>>
  BY <1>1 DEF IndexSound
<1>2. CASE ApplyLoaded \/ ApplyMined
  <2>1. blk \in Block /\ done \in Nat /\ done < Len(blk.txs)
    BY <1>2 DEF ApplyLoaded, ApplyMined, TypeOK
  <2>2. blk.txs[done + 1] \in Tx
    BY <2>1 DEF Block
  <2> QED BY <1>2, <2>2, IndexStep DEF ApplyLoaded, ApplyMined
<1>3. CASE create_genesis
  BY <1>3, CoinbaseAssumption, IndexStep DEF create_genesis
<1>4. CASE Stop \/ Crash
  <2>1. utxo' = {} /\ address_utxo' = NoIndex
    BY <1>4 DEF Stop, Crash, LoseMemory
  <2> QED BY <2>1 DEF IndexSound, NoIndex
<1>5. CASE LoadBlock \/ PushLoaded \/ load_pool \/ Submission \/ BeginBlock
           \/ StoreBlock \/ Start \/ UNCHANGED vars
  BY <1>1, <1>5 DEF LoadBlock, PushLoaded, load_pool, Submission, add_tx,
     reject_tx, BeginBlock, LockForBlock, StoreBlock, Start, vars, mem
<1> QED BY <1>2, <1>3, <1>4, <1>5 DEF Next, LoadStep, BlockStep, Process

\* load_blocks starts from nothing and applies the stored blocks in order.
LEMMA HealsNext ==
  ASSUME TypeOK, BlocksMirror, RestartHeals, [Next]_vars PROVE RestartHeals'
<1>0. /\ blocks \in Seq(Block) /\ blocks_db \in Seq(Block)
      /\ Len(blocks) \in Nat /\ Len(blocks_db) \in Nat
  BY DEF TypeOK
<1>1. CASE LoadBlock
  <2>1. /\ phase = "loading" /\ blk = NoBlock /\ blk' \in Block /\ done' = 0
        /\ UNCHANGED <<blocks, utxo>>
    BY <1>0, <1>1 DEF LoadBlock
  <2>2. blk' # NoBlock
    BY <2>1, NoBlockAssumption
  <2> QED BY <1>0, <2>1, <2>2, UnspentStart
          DEF RestartHeals, UtxoMatchesChain, AppliedChain
<1>2. CASE ApplyLoaded
  BY <1>2, ApplyNext DEF ApplyLoaded, RestartHeals
<1>3. CASE PushLoaded
  <2>1. /\ phase = "loading" /\ blk # NoBlock /\ blk \in Block
        /\ done = Len(blk.txs) /\ blk' = NoBlock
        /\ blocks' = Append(blocks, blk) /\ UNCHANGED utxo
    BY <1>3 DEF PushLoaded, TypeOK
  <2> QED BY <1>0, <2>1, UnspentFull
          DEF RestartHeals, UtxoMatchesChain, AppliedChain
<1>4. CASE load_pool \/ UNCHANGED vars
  <2>1. /\ UNCHANGED <<blocks, blk, done, utxo>>
        /\ phase \in {"loading", "genesis"} \/ phase' = phase
    BY <1>4 DEF load_pool, vars, mem
  <2> QED BY <2>1 DEF RestartHeals, UtxoMatchesChain, AppliedChain
<1>5. CASE Start
  <2>1. MemEmpty /\ UNCHANGED mem
    BY <1>5 DEF Start, BlocksMirror
  <2> QED BY <2>1, UnspentEmpty
          DEF MemEmpty, mem, RestartHeals, UtxoMatchesChain, AppliedChain
<1>6. CASE create_genesis \/ Submission \/ BeginBlock \/ BlockStep \/ Stop \/ Crash
  <2>1. phase' \in {"up", "down"}
    BY <1>6 DEF create_genesis, Submission, add_tx, reject_tx, BeginBlock,
       LockForBlock, Unlocked, BlockStep, ApplyMined, StoreBlock, Stop, Crash, vars
  <2> QED BY <2>1 DEF RestartHeals
<1> QED BY <1>1, <1>2, <1>3, <1>4, <1>5, <1>6 DEF Next, LoadStep, Process

-----------------------------------------------------------------------------
(* The locks of the pool *)

\* A transaction leaves the pool together with its locks.
LEMMA UnpoolLocks ==
  ASSUME pool_spent \subseteq Claimed, NEW t,
         pool_spent' = pool_spent \ SpentBy(t), pool' = pool \ {t}
  PROVE  pool_spent' \subseteq Claimed'
<1>1. ASSUME NEW op \in pool_spent' PROVE \E s \in pool' : op \in SpentBy(s)
  <2>1. op \in pool_spent /\ op \notin SpentBy(t)
    OBVIOUS
  <2>2. PICK s \in pool : op \in SpentBy(s)
    BY <2>1 DEF Claimed
  <2> QED BY <2>1, <2>2
<1> QED BY <1>1 DEF Claimed

\* No step of a node without faults leaves a lock behind.
LEMMA LocksNext ==
  ASSUME TypeOK, pool_spent \subseteq Claimed, [Next]_vars
  PROVE  pool_spent' \subseteq Claimed'
<1>1. CASE UNCHANGED <<pool, pool_spent>>
  BY <1>1 DEF Claimed
<1>2. CASE load_pool
  BY <1>2 DEF load_pool, Claimed
<1>3. ASSUME NEW st \in Submitted, add_tx(st) PROVE pool_spent' \subseteq Claimed'
  BY <1>3 DEF add_tx, Claimed
<1>4. CASE ApplyMined
  <2> DEFINE t == blk.txs[done + 1]
  <2>1. Unpool(t)
    BY <1>4 DEF ApplyMined
  <2>2. CASE is_coinbase(t)
    BY <1>1, <2>1, <2>2 DEF Unpool
  <2>3. CASE ~is_coinbase(t)
    BY <2>1, <2>3, UnpoolLocks DEF Unpool
  <2> QED BY <2>2, <2>3
<1>5. CASE Stop \/ Crash
  BY <1>5 DEF Stop, Crash, LoseMemory
<1>6. CASE LoadBlock \/ ApplyLoaded \/ PushLoaded \/ create_genesis \/ BeginBlock
           \/ StoreBlock \/ Start \/ UNCHANGED vars
  BY <1>1, <1>6 DEF LoadBlock, ApplyLoaded, PushLoaded, create_genesis,
     BeginBlock, LockForBlock, StoreBlock, Start, vars, mem
<1>7. ASSUME NEW st \in Submitted, reject_tx(st) PROVE pool_spent' \subseteq Claimed'
  BY <1>1, <1>7 DEF reject_tx, vars, mem
<1> QED BY <1>2, <1>3, <1>4, <1>5, <1>6, <1>7
        DEF Next, LoadStep, Submission, BlockStep, Process

\* What add_tx lets in competes with nothing while the locks are exact, whether
\* or not its key reaches the database.
LEMMA AcceptExact ==
  ASSUME LocksExact, NEW st \in Submitted, Unlocked,
         ValidateTx(st, utxo, pool, pool_spent) = "None",
         pool' = pool \cup {st.tx}, pool_spent' = pool_spent \cup SpentBy(st.tx),
         UNCHANGED <<phase, blk>>
  PROVE  LocksExact'
<1> DEFINE t == st.tx
<1>1. SpentBy(t) \cap pool_spent = {}
  BY SubmittedAssumption, ValidateNone
<1>2. pool_spent = UNION {SpentBy(s) : s \in pool}
  BY DEF LocksExact, PoolSpentExact, Unlocked
<1>3. \A s \in pool : SpentBy(s) \cap SpentBy(t) = {}
  BY <1>1, <1>2
<1>4. NoCompetition'
  BY <1>3 DEF LocksExact, NoCompetition
<1>5. PoolSpentExact'
  BY <1>2 DEF PoolSpentExact
<1>6. BlockFits'
  BY DEF BlockFits, Unlocked
<1> QED BY <1>4, <1>5, <1>6 DEF LocksExact

\* Taking the next transaction of the block out of the pool leaves the locks of
\* the others, whether or not add_block goes on.
LEMMA UnpoolExact ==
  ASSUME TypeOK, LocksExact, phase = "up", blk # NoBlock, done < Len(blk.txs),
         NEW t, t = blk.txs[done + 1],
         \/ is_coinbase(t) /\ UNCHANGED <<pool, pool_spent>>
         \/ pool_spent' = pool_spent \ SpentBy(t) /\ pool' = pool \ {t}
  PROVE  NoCompetition' /\ PoolSpentExact' /\ pool' \subseteq pool
<1>1. blk \in Block /\ Len(blk.txs) \in Nat /\ done \in Nat
  BY DEF TypeOK, Block
<1>2. \A s \in pool : s # t => SpentBy(s) \cap SpentBy(t) = {}
  BY <1>1 DEF LocksExact, BlockFits
<1>3. pool' \subseteq pool
  OBVIOUS
<1>4. NoCompetition'
  BY <1>3 DEF LocksExact, NoCompetition
<1>5. pool_spent = UNION {SpentBy(s) : s \in pool}
  BY DEF LocksExact, PoolSpentExact
<1>6. pool_spent' = UNION {SpentBy(s) : s \in pool'}
  BY <1>2, <1>5
<1> QED BY <1>3, <1>4, <1>6 DEF PoolSpentExact

\* A block of pool transactions competes with nothing in a pool without
\* competition.
LEMMA BeginExact ==
  ASSUME TypeOK, BlocksMirror, LocksExact, BeginBlock PROVE LocksExact'
<1>1. PICK c \in Coinbase, refs \in RefLists, ts \in Timestamp :
        LockForBlock(Assemble(TipHash, c, refs, ts))
  BY DEF BeginBlock
<1> DEFINE b == Assemble(TipHash, c, refs, ts)
<1>2. /\ phase = "up" /\ phase' = "up" /\ blk' = b /\ done' = 0
      /\ blocks # <<>> /\ UNCHANGED <<blocks, pool, pool_spent>>
  BY <1>1 DEF LockForBlock, Unlocked, BlocksMirror
<1>3. /\ b \in Block /\ Len(b.txs) = Len(refs) + 1 /\ Len(refs) \in Nat
      /\ b.txs[1] = c /\ b.prev_hash = TipHash
      /\ \A i \in 2..(Len(refs) + 1) : b.txs[i] \in pool
  <2>1. b.prev_hash = TipHash
    BY DEF Assemble
  <2> QED BY <1>2, <2>1, AssembleType
<1> HIDE DEF b
<1>4. \A i \in 1..Len(b.txs), t \in pool :
        t # b.txs[i] => SpentBy(t) \cap SpentBy(b.txs[i]) = {}
  <2> SUFFICES ASSUME NEW i \in 1..Len(b.txs), NEW t \in pool, t # b.txs[i]
               PROVE  SpentBy(t) \cap SpentBy(b.txs[i]) = {}
    OBVIOUS
  <2>1. CASE i = 1
    BY <1>3, <2>1, CoinbaseAssumption DEF SpentBy
  <2>2. CASE i # 1
    BY <1>3, <2>2 DEF LocksExact, NoCompetition
  <2> QED BY <2>1, <2>2
<1>5. BlockFits'
  BY <1>2, <1>3, <1>4 DEF BlockFits, TipHash
<1> QED BY <1>2, <1>5 DEF LocksExact, NoCompetition, PoolSpentExact

\* An empty pool has exact locks.
LEMMA EmptyExact ==
  ASSUME pool' = {}, pool_spent' = {}, blk' = NoBlock PROVE LocksExact'
BY DEF LocksExact, NoCompetition, PoolSpentExact, BlockFits

\* Outside the constructor exact locks stay exact, whatever fails.
LEMMA ExactStep ==
  ASSUME TypeOK, BlocksMirror, LocksExact, phase # "loading", [NextF]_fvars
  PROVE  LocksExact'
<1>1. CASE Submission
  <2>1. PICK st \in Submitted : add_tx(st) \/ reject_tx(st)
    BY <1>1 DEF Submission
  <2>2. CASE add_tx(st)
    BY <2>2, AcceptExact DEF add_tx
  <2>3. CASE reject_tx(st)
    BY <2>3 DEF reject_tx, vars, mem, LocksExact, NoCompetition, PoolSpentExact,
                BlockFits, TipHash
  <2> QED BY <2>1, <2>2, <2>3
<1>2. ASSUME NEW st \in Submitted, PutFails(st) PROVE LocksExact'
  BY <1>2, AcceptExact DEF PutFails
<1>3. CASE BeginBlock
  BY <1>3, BeginExact
<1>4. CASE ApplyMined
  <2>1. /\ phase = "up" /\ phase' = "up" /\ blk # NoBlock /\ done < Len(blk.txs)
        /\ done' = done + 1 /\ Unpool(blk.txs[done + 1])
        /\ UNCHANGED <<blocks, blk>> /\ blk \in Block /\ Len(blk.txs) \in Nat
        /\ done \in Nat
    BY <1>4 DEF ApplyMined, TypeOK, Block
  <2>2. NoCompetition' /\ PoolSpentExact' /\ pool' \subseteq pool
    BY <2>1, UnpoolExact DEF Unpool
  <2>3. BlockFits'
    BY <2>1, <2>2 DEF LocksExact, BlockFits, TipHash
  <2> QED BY <2>2, <2>3 DEF LocksExact
<1>5. CASE DeleteFails
  <2>1. NoCompetition' /\ PoolSpentExact'
    BY <1>5, UnpoolExact DEF DeleteFails
  <2>2. BlockFits'
    BY <1>5 DEF DeleteFails, AbortBlock, BlockFits
  <2> QED BY <2>1, <2>2 DEF LocksExact
<1>6. CASE StoreBlock \/ StoreFails
  <2>1. /\ phase = "up" /\ phase' = "up" /\ blk' = NoBlock
        /\ UNCHANGED <<pool, pool_spent>>
    BY <1>6 DEF StoreBlock, StoreFails, AbortBlock
  <2> QED BY <2>1 DEF LocksExact, NoCompetition, PoolSpentExact, BlockFits
<1>7. CASE create_genesis
  <2>1. /\ phase = "genesis" /\ phase' = "up" /\ blk' = NoBlock
        /\ UNCHANGED <<pool, pool_spent>>
    BY <1>7 DEF create_genesis, BlocksMirror
  <2> QED BY <2>1 DEF LocksExact, NoCompetition, PoolSpentExact, BlockFits
<1>8. CASE Start
  BY <1>8, EmptyExact DEF Start, BlocksMirror, MemEmpty, mem
<1>9. CASE Stop \/ Crash
  BY <1>9, EmptyExact DEF Stop, Crash, LoseMemory
<1>10. CASE UNCHANGED vars
  BY <1>10 DEF vars, mem, LocksExact, NoCompetition, PoolSpentExact, BlockFits,
               TipHash
<1>11. CASE LoadBlock \/ ApplyLoaded \/ PushLoaded \/ load_pool \/ IterateFails
  BY <1>11 DEF LoadBlock, ApplyLoaded, PushLoaded, load_pool, IterateFails
<1> QED BY <1>1, <1>2, <1>3, <1>4, <1>5, <1>6, <1>7, <1>8, <1>9, <1>10, <1>11
        DEF NextF, Next, LoadStep, BlockStep, Process, fvars

-----------------------------------------------------------------------------
(* FInv is inductive *)

\* The state before the first start.
LEMMA InitFInv == Init => FInv
<1> SUFFICES ASSUME Init PROVE FInv
  OBVIOUS
<1>1. TypeOK /\ BlocksMirror /\ ChainLinked /\ IndexSound
  BY InitIInv DEF IInv, Mirror
<1>2. TipExtended /\ RestartHeals /\ pool_spent \subseteq Claimed
  BY DEF Init, MemEmpty, TipExtended, RestartHeals
<1> QED BY <1>1, <1>2 DEF FInv

\* The Put of add_tx fails: the pool has the transaction, its database has not.
LEMMA PutFailsFInv ==
  ASSUME FInv, NEW st \in Submitted, PutFails(st) PROVE FInv'
<1>1. /\ phase = "up" /\ phase' = "up" /\ blk = NoBlock
      /\ pool' = pool \cup {st.tx}
      /\ pool_spent' = pool_spent \cup SpentBy(st.tx)
      /\ UNCHANGED <<blocks, height, utxo, address_utxo, blk, done, blocks_db,
                     pool_db, acked, crashes>>
  BY DEF PutFails, Unlocked, disk
<1>2. st.tx \in Tx
  BY SubmittedAssumption DEF SignedTransaction
<1>3. TypeOK'
  BY <1>1, <1>2, SpentByType DEF FInv, TypeOK
<1>4. BlocksMirror' /\ TipExtended' /\ ChainLinked' /\ IndexSound' /\ RestartHeals'
  BY <1>1 DEF FInv, BlocksMirror, TipExtended, ChainLinked, IndexSound,
              RestartHeals
<1>5. pool_spent' \subseteq Claimed'
  BY <1>1 DEF FInv, Claimed
<1> QED BY <1>3, <1>4, <1>5 DEF FInv

\* A Delete of add_block fails: one more transaction has been applied.
LEMMA DeleteFailsFInv == ASSUME FInv, DeleteFails PROVE FInv'
<1> DEFINE t == blk.txs[done + 1]
<1>1. /\ phase = "up" /\ phase' = "up" /\ blk # NoBlock /\ done < Len(blk.txs)
      /\ apply_tx(t) /\ pool_spent' = pool_spent \ SpentBy(t) /\ pool' = pool \ {t}
      /\ blk' = NoBlock /\ done' = 0
      /\ UNCHANGED <<blocks, height, blocks_db, pool_db, acked, crashes>>
  BY DEF DeleteFails, AbortBlock, disk
<1>2. blk \in Block /\ done \in Nat
  BY <1>1 DEF FInv, TypeOK
<1>3. t \in Tx
  BY <1>1, <1>2 DEF Block
<1>4. utxo' \subseteq OutPoint /\ address_utxo' \in [Address -> [OutPoint -> Nat]]
  BY <1>1, <1>3, ApplyType DEF FInv, TypeOK, apply_tx
<1> HIDE DEF t
<1>5. TypeOK'
  BY <1>1, <1>4 DEF FInv, TypeOK
<1>6. IndexSound'
  BY <1>1, <1>3, IndexStep DEF FInv
<1>7. BlocksMirror' /\ TipExtended' /\ ChainLinked' /\ RestartHeals'
  BY <1>1 DEF FInv, BlocksMirror, TipExtended, ChainLinked, RestartHeals
<1>8. pool_spent' \subseteq Claimed'
  BY <1>1, UnpoolLocks DEF FInv
<1> QED BY <1>5, <1>6, <1>7, <1>8 DEF FInv

\* store_block fails: nothing has been pushed and the key is still free.
LEMMA StoreFailsFInv == ASSUME FInv, StoreFails PROVE FInv'
<1>1. /\ phase = "up" /\ phase' = "up" /\ blk' = NoBlock /\ done' = 0
      /\ UNCHANGED <<blocks, height, utxo, address_utxo, pool, pool_spent,
                     blocks_db, pool_db, acked, crashes>>
  BY DEF StoreFails, AbortBlock, disk
<1>2. TypeOK'
  BY <1>1 DEF FInv, TypeOK
<1>3. BlocksMirror' /\ TipExtended' /\ ChainLinked' /\ IndexSound' /\ RestartHeals'
  BY <1>1 DEF FInv, BlocksMirror, TipExtended, ChainLinked, IndexSound,
              RestartHeals
<1> QED BY <1>1, <1>2, <1>3 DEF FInv, Claimed

\* load_pool ends early: it has read a part of the pool database.
LEMMA IterateFailsFInv == ASSUME FInv, IterateFails PROVE FInv'
<1>1. PICK read \in SUBSET pool_db :
        pool' = read /\ pool_spent' = UNION {SpentBy(t) : t \in read}
  BY DEF IterateFails
<1>2. /\ phase = "loading" /\ blk = NoBlock /\ done = 0
      /\ Len(blocks) = Len(blocks_db) /\ height' = Len(blocks)
      /\ phase' = IF blocks = <<>> THEN "genesis" ELSE "up"
      /\ UNCHANGED <<blocks, utxo, address_utxo, blk, done, blocks_db, pool_db,
                     acked, crashes>>
  BY DEF IterateFails, disk, FInv, BlocksMirror
<1>3. blocks \in Seq(Block) /\ blocks_db \in Seq(Block)
  BY DEF FInv, TypeOK
<1>4. blocks = blocks_db
  BY <1>2, <1>3, SameChain DEF FInv, BlocksMirror
<1>5. pool' \subseteq Tx /\ pool_spent' \subseteq OutPoint /\ height' \in Nat
  BY <1>1, <1>2, <1>3, SpentByType DEF FInv, TypeOK
<1>6. TypeOK'
  BY <1>2, <1>5 DEF FInv, TypeOK
<1>7. BlocksMirror'
  BY <1>2, <1>4 DEF BlocksMirror
<1>8. TipExtended' /\ ChainLinked' /\ IndexSound'
  BY <1>2 DEF FInv, TipExtended, ChainLinked, IndexSound
<1>9. RestartHeals'
  BY <1>2 DEF FInv, RestartHeals, UtxoMatchesChain, AppliedChain
<1>10. pool_spent' \subseteq Claimed'
  BY <1>1 DEF Claimed
<1> QED BY <1>6, <1>7, <1>8, <1>9, <1>10 DEF FInv

\* Every step of a node whose database calls may fail preserves FInv.
LEMMA NextFInv == ASSUME FInv, [NextF]_fvars PROVE FInv'
<1>1. CASE [Next]_vars
  <2>1. TypeOK'
    BY <1>1, TypeStep DEF FInv
  <2>2. BlocksMirror' /\ TipExtended' /\ ChainLinked'
    BY <1>1, BlocksStep DEF FInv
  <2>3. IndexSound' /\ RestartHeals'
    BY <1>1, IndexNext, HealsNext DEF FInv
  <2>4. pool_spent' \subseteq Claimed'
    BY <1>1, LocksNext DEF FInv
  <2> QED BY <2>1, <2>2, <2>3, <2>4 DEF FInv
<1>2. ASSUME NEW st \in Submitted, PutFails(st) PROVE FInv'
  BY <1>2, PutFailsFInv
<1> QED BY <1>1, <1>2, DeleteFailsFInv, StoreFailsFInv, IterateFailsFInv
        DEF NextF, fvars

-----------------------------------------------------------------------------
(* Power failures *)

\* A process that runs, whatever fails in it, only appends to the blocks
\* database; outside it the database stays as it is.
LEMMA DbGrows ==
  ASSUME FInv, [NextF]_fvars
  PROVE  /\ Prefix(blocks_db, blocks_db')
         /\ phase = "down" => UNCHANGED <<blocks_db, pool_db>>
<1>0. blocks_db \in Seq(Block) /\ Len(blocks_db) \in Nat
  BY DEF FInv, TypeOK
<1>1. CASE UNCHANGED <<blocks_db, pool_db>>
  BY <1>0, <1>1 DEF Prefix
<1>2. ASSUME NEW b \in Block, blocks = blocks_db,
             blocks_db' = PutBlock(blocks_db, Len(blocks) + 1, b)
      PROVE  Prefix(blocks_db, blocks_db')
  <2>1. blocks_db' = Append(blocks_db, b)
    BY <1>0, <1>2, PutAppends
  <2> QED BY <1>0, <2>1, AppendProperties DEF Prefix
<1>3. CASE create_genesis
  BY <1>2, <1>3, GenesisType DEF create_genesis, FInv, BlocksMirror
<1>4. CASE StoreBlock
  BY <1>2, <1>4 DEF StoreBlock, FInv, BlocksMirror, TypeOK
<1>5. CASE Submission \/ ApplyMined
  <2>1. UNCHANGED blocks_db /\ phase # "down"
    BY <1>5 DEF Submission, add_tx, reject_tx, Unlocked, ApplyMined, vars, disk
  <2> QED BY <1>0, <2>1 DEF Prefix
<1>6. CASE ~create_genesis /\ ~StoreBlock /\ ~Submission /\ ~ApplyMined
  <2>1. UNCHANGED <<blocks_db, pool_db>>
    BY <1>6 DEF NextF, Next, LoadStep, LoadBlock, ApplyLoaded, PushLoaded,
       load_pool, BeginBlock, LockForBlock, BlockStep, Process, Start, Stop, Crash,
       PutFails, DeleteFails, StoreFails, IterateFails, disk, vars, fvars
  <2> QED BY <1>1, <2>1
<1> QED BY <1>3, <1>4, <1>5, <1>6

\* A prefix of a prefix is a prefix.
LEMMA PrefixTrans ==
  ASSUME NEW b \in Seq(Block), NEW c \in Seq(Block), NEW d \in Seq(Block),
         Prefix(b, c), Prefix(c, d)
  PROVE  Prefix(b, d)
<1>1. Len(b) \in Nat /\ Len(c) \in Nat /\ Len(d) \in Nat
  OBVIOUS
<1>2. \A h \in 1..Len(b) : h \in 1..Len(c)
  BY <1>1 DEF Prefix
<1> QED BY <1>1, <1>2 DEF Prefix

\* A chain is a prefix of itself.
LEMMA PrefixRefl == ASSUME NEW c \in Seq(Block) PROVE Prefix(c, c)
BY DEF Prefix

\* Before the first start there is nothing to lose.
LEMMA InitPInv == InitP => PInv
<1> SUFFICES ASSUME InitP PROVE PInv
  OBVIOUS
<1>1. FInv
  BY InitFInv DEF InitP, InitF
<1>2. blocks_db \in Seq(Block) /\ pool_db \subseteq Tx
  BY <1>1 DEF FInv, TypeOK
<1>3. PastSound
  BY <1>2, PrefixRefl DEF InitP, PastSound
<1> QED BY <1>1, <1>3 DEF PInv

\* A step of the process: the past grows by the present.
LEMMA WritePInv ==
  ASSUME PInv, [NextF]_fvars, IF phase = "down" THEN Open ELSE Write,
         UNCHANGED outages
  PROVE  PInv'
<1>1. FInv'
  BY NextFInv DEF PInv
<1>2. /\ blocks_db \in Seq(Block) /\ blocks_db' \in Seq(Block)
      /\ pool_db' \subseteq Tx
  BY <1>1 DEF PInv, FInv, TypeOK
<1>3. Prefix(blocks_db, blocks_db')
  BY DbGrows DEF PInv
<1>4. \A c \in blocks_past : c \in Seq(Block) /\ Prefix(c, blocks_db)
  BY DEF PInv, PastSound
<1>5. \A c \in blocks_past : Prefix(c, blocks_db')
  BY <1>2, <1>3, <1>4, PrefixTrans
<1>6. Prefix(blocks_db', blocks_db')
  BY <1>2, PrefixRefl
<1>7. PastSound'
  <2>1. blocks_past' \subseteq blocks_past \cup {blocks_db'}
    BY DEF Open, Write
  <2>2. pool_past' \subseteq pool_past \cup {pool_db'}
    BY DEF Open, Write
  <2> QED BY <1>2, <1>4, <1>5, <1>6, <2>1, <2>2 DEF PInv, PastSound
<1> QED BY <1>1, <1>7 DEF PInv

\* The machine goes down: a prefix of a linked chain is linked, and the memory,
\* which did not fit it, is gone.
LEMMA PowerFailPInv ==
  ASSUME PInv, PowerFail PROVE PInv' /\ Prefix(blocks_db', blocks_db)
<1>1. /\ phase' = "down" /\ LoseMemory /\ blocks_db' \in blocks_past
      /\ pool_db' \in pool_past /\ blocks_past' = {blocks_db'}
      /\ pool_past' = {pool_db'} /\ outages' = outages + 1
      /\ UNCHANGED <<acked, crashes>>
  BY DEF PowerFail, Open
<1>2. /\ blocks_db' \in Seq(Block) /\ Prefix(blocks_db', blocks_db)
      /\ pool_db' \subseteq Tx /\ outages' \in Nat
  BY <1>1 DEF PInv, PastSound
<1>3. blocks_db \in Seq(Block)
  BY DEF PInv, FInv, TypeOK
<1>4. TypeOK'
  <2>1. NoIndex \in [Address -> [OutPoint -> Nat]]
    BY DEF NoIndex
  <2>2. <<>> \in Seq(Block)
    OBVIOUS
  <2> QED BY <1>1, <1>2, <2>1, <2>2 DEF PInv, FInv, TypeOK, LoseMemory
<1>5. ChainLinked'
  <2> SUFFICES ASSUME NEW h \in 1..Len(blocks_db')
               PROVE  blocks_db'[h].prev_hash =
                        IF h = 1 THEN <<>> ELSE BlockHash(blocks_db'[h - 1])
    BY DEF ChainLinked
  <2>1. /\ h \in 1..Len(blocks_db) /\ blocks_db'[h] = blocks_db[h]
        /\ h # 1 => blocks_db'[h - 1] = blocks_db[h - 1]
    BY <1>2, <1>3 DEF Prefix
  <2>2. blocks_db[h].prev_hash =
          IF h = 1 THEN <<>> ELSE BlockHash(blocks_db[h - 1])
    BY <2>1 DEF PInv, FInv, ChainLinked
  <2> QED BY <2>1, <2>2
<1>6. BlocksMirror' /\ TipExtended' /\ RestartHeals'
  BY <1>1 DEF LoseMemory, BlocksMirror, MemEmpty, TipExtended, RestartHeals
<1>7. IndexSound'
  BY <1>1 DEF LoseMemory, IndexSound, NoIndex
<1>8. pool_spent' \subseteq Claimed'
  BY <1>1 DEF LoseMemory
<1>9. PastSound'
  BY <1>1, <1>2, PrefixRefl DEF PastSound
<1> QED BY <1>2, <1>4, <1>5, <1>6, <1>7, <1>8, <1>9 DEF PInv, FInv

\* Nothing changes.
LEMMA StutterPInv == ASSUME PInv, UNCHANGED pvars PROVE PInv'
<1>1. UNCHANGED fvars /\ UNCHANGED <<blocks_db, blocks_past, pool_past, outages>>
  BY DEF pvars, power, fvars, vars, disk
<1>2. FInv'
  BY <1>1, NextFInv DEF PInv
<1> QED BY <1>1, <1>2 DEF PInv, PastSound, Prefix

\* Every step preserves PInv.
LEMMA NextPInv == PInv /\ [NextP]_pvars => PInv'
BY WritePInv, PowerFailPInv, StutterPInv DEF NextP

-----------------------------------------------------------------------------
(* The theorems *)

\* PInv is an invariant of the node, whatever fails.
THEOREM FaultInvariance == SpecP => []PInv
BY InitPInv, NextPInv, PTL DEF SpecP

\* Whichever LevelDB calls fail and whatever the power failures take,
\* address_utxo_ stays an index of utxo_ (so the utxo_.at of get_utxos does not
\* throw) and the stored blocks stay linked.
THEOREM IndexSurvives == SpecP => [](IndexSound /\ ChainLinked)
<1>1. PInv => IndexSound /\ ChainLinked
  BY DEF PInv, FInv
<1> QED BY <1>1, FaultInvariance, PTL

\* Whatever a failed call has left in memory, the constructor rebuilds utxo_ from
\* the stored blocks.
THEOREM RestartRepairs == SpecP => []RestartHeals
<1>1. PInv => RestartHeals
  BY DEF PInv, FInv
<1> QED BY <1>1, FaultInvariance, PTL

\* Only a power failure removes stored blocks, from the end, and none is ever
\* changed: block_key never names a key in use, not even after an add_block
\* that ended in an exception.
THEOREM OnlyPowerCuts == SpecP => HistoryOnlyCutByPower
<1> DEFINE Kept == \/ Prefix(blocks_db, blocks_db')
                   \/ outages' > outages /\ Prefix(blocks_db', blocks_db)
<1>1. PInv /\ [NextP]_pvars => [Kept]_pvars
  <2> SUFFICES ASSUME PInv, NextP PROVE Kept
    OBVIOUS
  <2>1. CASE NextF
    BY <2>1, DbGrows DEF PInv
  <2>2. CASE PowerFail
    <3>1. outages' > outages
      BY <2>2 DEF PowerFail, PInv, PastSound
    <3> QED BY <2>2, <3>1, PowerFailPInv
  <2> QED BY <2>1, <2>2 DEF NextP
<1> QED BY <1>1, FaultInvariance, PTL DEF SpecP, HistoryOnlyCutByPower

\* No output is ever locked by a transaction that has left the pool, and a pool
\* loaded without competing transactions keeps exact locks until the process
\* ends, although add_tx and add_block may be cut short by an exception at any
\* database call.
THEOREM LocksKept == SpecP => LocksHeld
<1> DEFINE Lock == /\ pool_spent' \subseteq Claimed'
                   /\ phase # "loading" /\ LocksExact => LocksExact'
<1>1. PInv /\ [NextP]_pvars => [Lock]_fvars
  <2> SUFFICES ASSUME PInv, NextP PROVE Lock
    BY DEF pvars
  <2>1. pool_spent' \subseteq Claimed'
    BY NextPInv DEF PInv, FInv
  <2>2. CASE NextF
    BY <2>1, <2>2, ExactStep DEF PInv, FInv
  <2>3. CASE PowerFail
    BY <2>1, <2>3, EmptyExact DEF PowerFail, LoseMemory
  <2> QED BY <2>2, <2>3 DEF NextP
<1> QED BY <1>1, FaultInvariance, PTL DEF SpecP, LocksHeld
=============================================================================

-------------------------- MODULE InterfaceProofs ---------------------------
(***************************************************************************)
(* What the callers of Chain may rely on: to its clients it is an          *)
(* AbstractLedger, the two ways to look a block up agree, a balance counts *)
(* each output once, and a restart changes no answer.                      *)
(***************************************************************************)
EXTENDS Refinement, Queries, ClientProofs

-----------------------------------------------------------------------------
(* The operators of the instance are those of Ledger *)

\* What a transaction spends is the same seen through the instance.
LEMMA AbstractSpentBy == \A t : Abstract!SpentBy(t) = SpentBy(t)
  BY DEF SpentBy, Abstract!SpentBy

\* What a chain leaves unspent is the same seen through the instance.
LEMMA AbstractUnspent == \A c : Abstract!Unspent(c) = Unspent(c)
<1>1. \A t : Abstract!CreatedBy(t) = CreatedBy(t)
  BY DEF CreatedBy, Abstract!CreatedBy
<1>2. \A c, op, h, i : Abstract!LiveFrom(c, op, h, i) <=> LiveFrom(c, op, h, i)
  BY <1>1, AbstractSpentBy DEF LiveFrom, Abstract!LiveFrom
<1>3. Abstract!OutPoint = OutPoint
  BY DEF OutPoint, Abstract!OutPoint
<1> QED BY <1>2, <1>3 DEF Unspent, Abstract!Unspent

-----------------------------------------------------------------------------
(* BlockOfPending *)

\* Outside add_block the pending transactions are those of the pool database.
LEMMA PendingOutside ==
  ASSUME phase # "up" \/ blk = NoBlock PROVE Pending = pool_db
  BY DEF Pending, Unkeyed

\* While add_block runs, its next transaction is pending and has inputs, unless
\* it is the coinbase in front; the iteration leaves the pending ones as they
\* are.
LEMMA ApplyMinedPending ==
  ASSUME IInv, BlockOfPending, ApplyMined
  PROVE  Pending' = Pending /\ BlockOfPending'
<1> DEFINE t == blk.txs[done + 1]
<1>0. /\ phase = "up" /\ phase' = "up" /\ blk # NoBlock /\ blk' = blk
      /\ done \in Nat /\ done < Len(blk.txs) /\ done' = done + 1
      /\ Len(blk.txs) \in Nat /\ Unpool(t)
  BY DEF ApplyMined, IInv, TypeOK, Block
<1>1. CASE done = 0
  <2>1. is_coinbase(t)
    BY <1>0, <1>1, CoinbaseAssumption DEF BlockOfPending, is_coinbase
  <2>2. pool_db' = pool_db
    BY <1>0, <2>1 DEF Unpool
  <2>3. Unkeyed = {} /\ Unkeyed' = {} /\ 2..done' = {}
    BY <1>0, <1>1 DEF Unkeyed
  <2>4. Pending' = Pending
    BY <2>2, <2>3 DEF Pending
  <2> QED BY <1>0, <2>2, <2>3, <2>4 DEF BlockOfPending
<1>2. CASE done # 0
  <2>1. done + 1 \in 2..Len(blk.txs) /\ 2..done' = (2..done) \cup {done + 1}
    BY <1>0, <1>2
  <2>2. t \in Pending /\ ~is_coinbase(t)
    BY <1>0, <2>1 DEF BlockOfPending, is_coinbase
  <2>3. pool_db' = pool_db \ {t}
    BY <1>0, <2>2 DEF Unpool
  <2>4. Unkeyed' = Unkeyed \cup {t}
    BY <1>0, <2>1 DEF Unkeyed
  <2>5. Pending' = Pending
    BY <2>2, <2>3, <2>4 DEF Pending
  <2>6. \A i \in 2..done' : blk.txs[i] \notin pool_db'
    BY <1>0, <2>1, <2>3 DEF BlockOfPending
  <2> QED BY <1>0, <2>3, <2>5, <2>6 DEF BlockOfPending
<1> QED BY <1>1, <1>2

\* A block that enters add_block is made of pending transactions.
LEMMA BeginBlockPending ==
  ASSUME IInv, BlockOfPending, BeginBlock
  PROVE  Pending' = Pending /\ BlockOfPending'
<1>1. PICK c \in Coinbase, refs \in RefLists, ts \in Timestamp :
        LockForBlock(Assemble(TipHash, c, refs, ts))
  BY DEF BeginBlock
<1> DEFINE b == Assemble(TipHash, c, refs, ts)
<1>2. /\ phase = "up" /\ phase' = "up" /\ blk = NoBlock
      /\ blk' = b /\ done' = 0 /\ TypeOK /\ blocks # <<>>
      /\ pool_db' = pool_db /\ pool = pool_db
  BY <1>1 DEF LockForBlock, Unlocked, disk, IInv, Mirror, BlocksMirror
<1>3. PICK n \in 0..MaxRefs : refs \in [1..n -> pool]
  BY DEF RefLists
<1>4. Len(refs) = n /\ n \in Nat /\ MaxRefs \in Nat
  BY <1>3, ChainBounds
<1>5. /\ Len(b.txs) = n + 1 /\ b.txs[1] = c
      /\ \A i \in 2..(n + 1) : b.txs[i] \in pool
  BY <1>2, <1>4, AssembleType
<1> HIDE DEF b
<1>6. Unkeyed' = {} /\ 2..done' = {}
  BY <1>2 DEF Unkeyed
<1>7. Pending' = pool_db /\ Pending = pool_db
  BY <1>2, <1>6, PendingOutside DEF Pending
<1> QED BY <1>2, <1>4, <1>5, <1>6, <1>7 DEF BlockOfPending

\* The invariant of the refinement is inductive.
LEMMA PendingStep ==
  ASSUME IInv, BlockOfPending, [Next]_vars PROVE BlockOfPending'
<1>1. CASE LoadStep \/ Process
  <2>1. pool_db' = pool_db /\ (phase' # "up" \/ blk' = NoBlock)
    BY <1>1 DEF LoadStep, Process, LoadBlock, ApplyLoaded, PushLoaded, load_pool,
                create_genesis, Start, Stop, Crash, disk, LoseMemory, IInv, Mirror, BlocksMirror
  <2> QED BY <2>1 DEF BlockOfPending
<1>2. CASE Submission
  <2>1. PICK st \in Submitted : add_tx(st) \/ reject_tx(st)
    BY <1>2 DEF Submission
  <2>2. CASE add_tx(st)
    <3>1. inputs[st.tx] # <<>>
      BY <2>2, SubmittedAssumption, ValidateNone DEF add_tx
    <3> QED BY <2>2, <3>1 DEF add_tx, Unlocked, BlockOfPending
  <2>3. CASE reject_tx(st)
    BY <2>3 DEF reject_tx, Unlocked, vars, mem, disk, BlockOfPending
  <2> QED BY <2>1, <2>2, <2>3
<1>3. CASE BeginBlock
  BY <1>3, BeginBlockPending
<1>4. CASE ApplyMined
  BY <1>4, ApplyMinedPending
<1>5. CASE StoreBlock
  BY <1>5 DEF StoreBlock, BlockOfPending
<1>6. CASE UNCHANGED vars
  BY <1>6 DEF vars, mem, disk, BlockOfPending, Pending, Unkeyed
<1> QED BY <1>1, <1>2, <1>3, <1>4, <1>5, <1>6 DEF Next, BlockStep

-----------------------------------------------------------------------------
(* The steps that a client can see *)

\* A transaction that passes every check has inputs of one owner.
LEMMA ValidateOwned ==
  ASSUME NEW st \in SignedTransaction, NEW u, NEW p, NEW ps,
         ValidateTx(st, u, p, ps) = "None"
  PROVE  Abstract!Owned(st.tx)
<1> DEFINE t == st.tx
           ie == InputError(t, derive_address[st.pubkey], u)
<1>1. ie = "None"
  BY DEF ValidateTx
<1>2. \A i \in 1..Len(inputs[t]) :
        OutputAt(inputs[t][i]).recipient = derive_address[st.pubkey]
  BY <1>1 DEF InputError
<1>3. \A op \in SpentBy(t) : OutputAt(op).recipient = derive_address[st.pubkey]
  BY <1>2 DEF SpentBy
<1>4. \A op : Abstract!OutputAt(op) = OutputAt(op)
  BY DEF OutputAt, Abstract!OutputAt
<1>5. st.pubkey \in PublicKey
  BY DEF SignedTransaction
<1> QED BY <1>3, <1>4, <1>5, AbstractSpentBy DEF Abstract!Owned

\* add_tx is Accept.
LEMMA AddTxAccepts ==
  ASSUME IInv, NEW st \in Submitted, add_tx(st)
  PROVE  Abstract!Accept(st.tx) /\ st.tx \in Tx
<1> DEFINE t == st.tx
<1>0. st \in SignedTransaction /\ t \in Tx
  BY SubmittedAssumption DEF SignedTransaction
<1>1. /\ phase = "up" /\ blk = NoBlock /\ phase' = "up" /\ blk' = NoBlock
      /\ pool_db' = pool_db \cup {t} /\ acked' = acked \cup {t}
      /\ UNCHANGED <<blocks_db, crashes>>
      /\ ValidateTx(st, utxo, pool, pool_spent) = "None"
  BY DEF add_tx, Unlocked
<1>2. Pending = pool_db /\ Pending' = pool_db'
  BY <1>1, PendingOutside DEF Pending, Unkeyed
<1>3. /\ SpentBy(t) \subseteq utxo /\ SpentBy(t) \cap pool_spent = {}
      /\ t \notin pool /\ inputs[t] # <<>>
  BY <1>0, <1>1, ValidateNone
<1>4. /\ pool = pool_db /\ utxo = Unspent(blocks_db)
      /\ pool_spent = UNION {SpentBy(s) : s \in pool}
  BY <1>1 DEF IInv, Mirror, BlocksMirror, UtxoMatchesChain, AppliedChain, PoolSpentExact
<1>5. \A s \in pool_db : SpentBy(s) \cap SpentBy(t) = {}
  BY <1>3, <1>4
<1>6. Abstract!Owned(t)
  BY <1>0, <1>1, ValidateOwned
<1> QED BY <1>0, <1>1, <1>2, <1>3, <1>4, <1>5, <1>6, AbstractSpentBy,
           AbstractUnspent DEF Abstract!Accept

\* The references of the first n transactions of the block in add_block.
Refs(n) == [i \in 1..(n - 1) |-> blk.txs[i + 1]]

\* They are a list of pending transactions that Confirm and Lose may choose.
LEMMA RefsListed ==
  ASSUME IInv, BlockOfPending, phase = "up", blk # NoBlock,
         NEW n \in 1..Len(blk.txs)
  PROVE  /\ Refs(n) \in Abstract!Lists
         /\ Abstract!Listed(Refs(n)) = {blk.txs[i] : i \in 2..n}
<1>1. /\ Len(blk.txs) \in Nat /\ Len(blk.txs) <= MaxRefs + 1 /\ MaxRefs \in Nat
      /\ \A i \in 2..Len(blk.txs) : blk.txs[i] \in Pending
  BY ChainBounds DEF BlockOfPending
<1>2. n - 1 \in 0..MaxRefs /\ n \in Nat
  BY <1>1
<1>3. \A i \in 1..(n - 1) : i + 1 \in 2..n /\ i + 1 \in 2..Len(blk.txs)
  BY <1>1, <1>2
<1>4. Refs(n) \in [1..(n - 1) -> Pending]
  BY <1>1, <1>3 DEF Refs
<1>5. Refs(n) \in Abstract!Lists
  BY <1>2, <1>4 DEF Abstract!Lists
<1>6. \A i \in 2..n : i - 1 \in 1..(n - 1) /\ (i - 1) + 1 = i
  BY <1>2
<1>7. DOMAIN Refs(n) = 1..(n - 1) /\ \A i \in 1..(n - 1) : Refs(n)[i] = blk.txs[i + 1]
  BY DEF Refs
<1>8. Abstract!Listed(Refs(n)) = {Refs(n)[i] : i \in 1..(n - 1)}
  BY <1>7 DEF Abstract!Listed
<1>9. \A i \in 2..n : Refs(n)[i - 1] = blk.txs[i]
  BY <1>6, <1>7
<1>10. \A i \in 1..(n - 1) : Refs(n)[i] \in {blk.txs[k] : k \in 2..n}
  BY <1>3, <1>7
<1>11. \A i \in 2..n : blk.txs[i] \in {Refs(n)[k] : k \in 1..(n - 1)}
  BY <1>6, <1>9
<1>12. {Refs(n)[i] : i \in 1..(n - 1)} = {blk.txs[i] : i \in 2..n}
  BY <1>10, <1>11
<1> QED BY <1>5, <1>8, <1>12

\* store_block is Confirm.
LEMMA StoreBlockConfirms ==
  ASSUME IInv, BlockOfPending, StoreBlock PROVE Abstract!Confirm
<1> DEFINE n == Len(blk.txs)
<1>0. /\ phase = "up" /\ blk # NoBlock /\ done = n /\ blk \in Block
      /\ blk' = NoBlock /\ blocks = blocks_db /\ blocks_db # <<>>
      /\ blocks_db \in Seq(Block) /\ UNCHANGED <<pool_db, acked, crashes>>
      /\ blk.prev_hash = BlockHash(blocks_db[Len(blocks_db)])
  BY DEF StoreBlock, IInv, TypeOK, Mirror, BlocksMirror, BlockFits, TipHash
<1>1. blocks_db' = Append(blocks_db, blk)
  BY <1>0, PutAppends DEF StoreBlock
<1>2. /\ n \in 1..(MaxRefs + 1) /\ MaxRefs \in Nat /\ n \in 1..Len(blk.txs)
      /\ blk.txs[1] \in Coinbase /\ blk.timestamp \in Timestamp
      /\ blk.txs \in Seq(Tx)
  BY <1>0, ChainBounds DEF BlockOfPending, Block
<1>3. /\ Refs(n) \in Abstract!Lists
      /\ Abstract!Listed(Refs(n)) = {blk.txs[i] : i \in 2..n}
  BY <1>0, <1>2, RefsListed
<1>4. Pending' = Pending \ Abstract!Listed(Refs(n))
  <2>1. Pending' = pool_db
    BY <1>0 DEF Pending, Unkeyed
  <2>2. Pending = pool_db \cup {blk.txs[i] : i \in 2..n}
    BY <1>0 DEF Pending, Unkeyed
  <2>3. pool_db \cap {blk.txs[i] : i \in 2..n} = {}
    BY <1>0 DEF BlockOfPending
  <2> QED BY <1>3, <2>1, <2>2, <2>3
<1>5. <<blk.txs[1]>> \o Refs(n) = blk.txs
  <2> DEFINE s == <<blk.txs[1]>> \o Refs(n)
  <2>1. /\ <<blk.txs[1]>> \in Seq(Tx) /\ Len(<<blk.txs[1]>>) = 1
        /\ <<blk.txs[1]>>[1] = blk.txs[1]
    BY <1>2
  <2>2. Refs(n) \in [1..(n - 1) -> Tx] /\ n - 1 \in Nat
    BY <1>2 DEF Refs
  <2>3. Refs(n) \in Seq(Tx) /\ Len(Refs(n)) = n - 1
    BY <2>2
  <2>4. /\ s \in Seq(Tx) /\ Len(s) = n /\ s[1] = blk.txs[1]
        /\ \A i \in 2..n : s[i] = Refs(n)[i - 1]
    BY <1>2, <2>1, <2>3, ConcatProperties
  <2>5. \A i \in 2..n : Refs(n)[i - 1] = blk.txs[i]
    BY <1>2 DEF Refs
  <2>6. \A i \in 1..n : s[i] = blk.txs[i]
    BY <1>2, <2>4, <2>5
  <2> HIDE DEF s
  <2> QED BY <1>2, <2>4, <2>6, SeqEqual DEF s
<1>6. Abstract!Assemble(BlockHash(blocks_db[Len(blocks_db)]), blk.txs[1], Refs(n),
                        blk.timestamp) = blk
  BY <1>0, <1>5 DEF Abstract!Assemble, Block
<1>7. Abstract!BlockHash(blocks_db[Len(blocks_db)])
        = BlockHash(blocks_db[Len(blocks_db)])
  BY DEF BlockHash, Abstract!BlockHash
<1> QED BY <1>0, <1>1, <1>2, <1>3, <1>4, <1>6, <1>7 DEF Abstract!Confirm

\* The death of the process is Lose.
LEMMA CrashLoses ==
  ASSUME IInv, BlockOfPending, Crash PROVE Abstract!Lose
<1>0. /\ phase' = "down" /\ crashes' = crashes + 1
      /\ UNCHANGED <<blocks_db, pool_db, acked>>
  BY DEF Crash, disk
<1>1. Pending' = pool_db
  BY <1>0 DEF Pending, Unkeyed
<1>2. CASE phase = "up" /\ blk # NoBlock /\ done # 0
  <2>1. done \in 1..Len(blk.txs)
    BY <1>2 DEF IInv, TypeOK, Mirror, BlocksMirror, Block
  <2>2. /\ Refs(done) \in Abstract!Lists
        /\ Abstract!Listed(Refs(done)) = {blk.txs[i] : i \in 2..done}
    BY <1>2, <2>1, RefsListed
  <2>3. Pending = pool_db \cup {blk.txs[i] : i \in 2..done}
    BY <1>2 DEF Pending, Unkeyed
  <2>4. pool_db \cap {blk.txs[i] : i \in 2..done} = {}
    BY <1>2 DEF BlockOfPending
  <2>5. Pending' = Pending \ Abstract!Listed(Refs(done))
    BY <1>1, <2>2, <2>3, <2>4
  <2> QED BY <1>0, <2>2, <2>5 DEF Abstract!Lose
<1>3. CASE ~(phase = "up" /\ blk # NoBlock /\ done # 0)
  <2>1. Unkeyed = {}
    BY <1>3 DEF Unkeyed
  <2>2. Pending' = Pending
    BY <1>1, <2>1 DEF Pending
  <2>3. <<>> \in Abstract!Lists
    <3>1. <<>> \in [1..0 -> Pending] /\ 0 \in 0..MaxRefs
      BY ChainBounds
    <3> QED BY <3>1 DEF Abstract!Lists
  <2>4. Abstract!Listed(<<>>) = {}
    BY DEF Abstract!Listed
  <2> QED BY <1>0, <2>2, <2>3, <2>4 DEF Abstract!Lose
<1> QED BY <1>2, <1>3

\* create_genesis is Begin.
LEMMA GenesisBegins ==
  ASSUME IInv, create_genesis PROVE Abstract!Begin
<1>1. /\ blocks_db = <<>> /\ blocks = <<>> /\ blk' = NoBlock /\ phase = "genesis"
      /\ UNCHANGED <<pool_db, acked, crashes>> /\ blk = NoBlock
      /\ blocks_db \in Seq(Block)
  BY DEF create_genesis, IInv, TypeOK, Mirror, BlocksMirror
<1>2. blocks_db' = Append(blocks_db, GenesisBlock)
  BY <1>1, PutAppends, GenesisType DEF create_genesis
<1>3. blocks_db' = <<Abstract!GenesisBlock>>
  BY <1>1, <1>2 DEF GenesisBlock, Abstract!GenesisBlock
<1>4. Pending' = Pending
  BY <1>1 DEF Pending, Unkeyed
<1> QED BY <1>1, <1>3, <1>4 DEF Abstract!Begin

\* Every step is a step of the abstract ledger or invisible.
LEMMA RefinementStep ==
  ASSUME IInv, BlockOfPending, [Next]_vars PROVE [Abstract!Next]_(Abstract!absvars)
<1>1. CASE LoadBlock \/ ApplyLoaded \/ PushLoaded \/ load_pool \/ Start \/ Stop
  <2>1. /\ UNCHANGED <<blocks_db, pool_db, acked, crashes>>
        /\ phase # "up" \/ blk = NoBlock
        /\ phase' # "up" \/ blk' = NoBlock
    BY <1>1 DEF LoadBlock, ApplyLoaded, PushLoaded, load_pool, Start, Stop, Unlocked,
                disk
  <2>2. Pending' = Pending
    BY <2>1 DEF Pending, Unkeyed
  <2> QED BY <2>1, <2>2 DEF Abstract!absvars
<1>2. CASE create_genesis
  BY <1>2, GenesisBegins DEF Abstract!Next
<1>3. CASE Submission
  <2>1. PICK st \in Submitted : add_tx(st) \/ reject_tx(st)
    BY <1>3 DEF Submission
  <2>2. CASE add_tx(st)
    BY <2>2, AddTxAccepts DEF Abstract!Next
  <2>3. CASE reject_tx(st)
    BY <2>3 DEF reject_tx, vars, mem, disk, Pending, Unkeyed, Abstract!absvars
  <2> QED BY <2>1, <2>2, <2>3
<1>4. CASE BeginBlock
  BY <1>4, BeginBlockPending DEF BeginBlock, LockForBlock, disk, Abstract!absvars
<1>5. CASE ApplyMined
  BY <1>5, ApplyMinedPending DEF ApplyMined, Abstract!absvars
<1>6. CASE StoreBlock
  BY <1>6, StoreBlockConfirms DEF Abstract!Next
<1>7. CASE Crash
  BY <1>7, CrashLoses DEF Abstract!Next
<1>8. CASE UNCHANGED vars
  BY <1>8 DEF vars, mem, disk, Pending, Unkeyed, Abstract!absvars
<1> QED BY <1>1, <1>2, <1>3, <1>4, <1>5, <1>6, <1>7, <1>8
        DEF Next, LoadStep, BlockStep, Process

\* Chain implements AbstractLedger: seen from outside, add_block with its many
\* writes is one step, restarts change nothing, and only the death of the
\* process loses accepted transactions, at most those of one block.
THEOREM Implements == Spec => ImplementsLedger
<1>1. Init => Abstract!Init
  BY DEF Init, Pending, Unkeyed, Abstract!Init
<1>2. Init => BlockOfPending
  BY DEF Init, BlockOfPending
<1>3. IInv /\ BlockOfPending /\ [Next]_vars => BlockOfPending'
  BY PendingStep
<1>4. IInv /\ BlockOfPending /\ [Next]_vars => [Abstract!Next]_(Abstract!absvars)
  BY RefinementStep
<1> QED BY <1>1, <1>2, <1>3, <1>4, Invariance, PTL
        DEF Spec, ImplementsLedger, Abstract!Spec

-----------------------------------------------------------------------------
(* GET /api/block *)

\* Blocks at different heights have different hashes.
LEMMA HashesDiffer ==
  ASSUME TypeOK, HashHeights, blocks = blocks_db,
         NEW h \in 1..Len(blocks), NEW i \in 1..Len(blocks),
         BlockHash(blocks[h]) = BlockHash(blocks[i])
  PROVE  h = i
<1>1. blocks[h] \in Block /\ blocks[i] \in Block
  BY DEF TypeOK
<1>2. ASSUME NEW b \in Block PROVE Len(BlockHash(b)) = Len(b.prev_hash) + 1
  BY DEF BlockHash, Block, Hash
<1>3. Len(blocks[h].prev_hash) = h - 1 /\ Len(blocks[i].prev_hash) = i - 1
  BY DEF HashHeights
<1>4. Len(blocks[h].prev_hash) + 1 = Len(blocks[i].prev_hash) + 1
  BY <1>1, <1>2
<1> QED BY <1>3, <1>4 DEF TypeOK

\* /api/block/<hash> and /api/block/<height> answer alike.
THEOREM LookupsAgree == Spec => []BlockLookup
<1>1. ASSUME IInv, HashHeights PROVE BlockLookup
  <2> SUFFICES ASSUME Unlocked, NEW h \in 0..(Len(blocks) - 1)
               PROVE  /\ api_block_height(h).status = 200
                      /\ api_block_hash(BlockHash(blocks[h + 1])) = api_block_height(h)
    BY DEF BlockLookup
  <2>1. /\ blocks = blocks_db /\ TypeOK /\ blocks \in Seq(Block) /\ Len(blocks) \in Nat
        /\ h + 1 \in 1..Len(blocks)
    BY <1>1 DEF IInv, Unlocked, Mirror, BlocksMirror, TypeOK
  <2>2. blocks[h + 1] # NoBlock
    BY <2>1, NoBlockAssumption
  <2>3. get_block_at(h) = blocks[h + 1]
    BY <2>1 DEF get_block_at
  <2>4. api_block_height(h) = Found(h, blocks[h + 1])
    BY <2>2, <2>3 DEF api_block_height
  <2> DEFINE H == HeightsOf(BlockHash(blocks[h + 1]))
  <2>5. H = {h}
    <3>1. h \in H
      BY DEF HeightsOf
    <3>2. ASSUME NEW i \in H PROVE i = h
      <4>1. i \in 0..(Len(blocks) - 1) /\ BlockHash(blocks[i + 1]) = BlockHash(blocks[h + 1])
        BY <3>2 DEF HeightsOf
      <4>2. i + 1 \in 1..Len(blocks)
        BY <2>1, <4>1
      <4>3. i + 1 = h + 1
        BY <1>1, <2>1, <4>1, <4>2, HashesDiffer
      <4> QED BY <2>1, <4>1, <4>3
    <3> QED BY <3>1, <3>2
  <2>6. Min(H) = h
    BY <2>5 DEF Min
  <2>7. api_block_hash(BlockHash(blocks[h + 1])) = Found(h, blocks[h + 1])
    BY <2>5, <2>6 DEF api_block_hash
  <2> QED BY <2>4, <2>7 DEF Found
<1> QED BY <1>1, Invariance, HashTellsHeight, PTL

-----------------------------------------------------------------------------
(* GET /api/utxos *)

\* An unspent outpoint names an output.
LEMMA UnspentOutput ==
  ASSUME NEW c, NEW op \in Unspent(c) PROVE OutputAt(op) \in TxOutput
<1>1. PICK h \in 1..Len(c) : \E i \in 1..Len(c[h].txs) : op \in CreatedBy(c[h].txs[i])
  BY DEF Unspent, LiveFrom
<1>2. PICK i \in 1..Len(c[h].txs) : op \in CreatedBy(c[h].txs[i])
  BY <1>1
<1> DEFINE t == c[h].txs[i]
<1>3. PICK j \in 1..Len(outputs[t]) : op = [txid |-> t, index |-> j - 1]
  BY <1>2 DEF CreatedBy
<1>4. op \in OutPoint
  BY DEF Unspent
<1>5. t \in Tx
  BY <1>3, <1>4 DEF OutPoint
<1> HIDE DEF t
<1>6. outputs[t] \in Seq(TxOutput)
  BY <1>5, TxAssumption
<1>7. outputs[t][j] \in TxOutput /\ (j - 1) + 1 = j
  BY <1>6
<1> QED BY <1>3, <1>7 DEF OutputAt

\* With careful miners get_utxos lists the outputs that the chain leaves to the
\* address and the pool does not claim, each of them once.
LEMMA UtxosListed ==
  ASSUME IInv, CarefulInv, Unlocked, NEW a \in Address
  PROVE  /\ DOMAIN get_utxos(a) =
              {op \in Unspent(blocks) : /\ OutputAt(op).recipient = a
                                        /\ \A t \in pool : op \notin SpentBy(t)}
         /\ \A op \in DOMAIN get_utxos(a) : get_utxos(a)[op] = 1
<1>1. /\ phase = "up" /\ utxo = Unspent(blocks) /\ utxo \subseteq OutPoint
      /\ address_utxo \in [Address -> [OutPoint -> Nat]]
      /\ pool_spent = UNION {SpentBy(t) : t \in pool}
  BY DEF Unlocked, IInv, UtxoMatchesChain, AppliedChain, PoolSpentExact, TypeOK
<1>2. \A op \in OutPoint :
        address_utxo[a][op] > 0 <=> (op \in utxo /\ OutputAt(op).recipient = a)
  BY DEF IInv, IndexSound
<1>3. \A op \in OutPoint : address_utxo[a][op] \in Nat /\ address_utxo[a][op] <= 1
  BY <1>1 DEF CarefulInv, ListedOnce
<1>4. DOMAIN get_utxos(a) = {o \in OutPoint : address_utxo[a][o] > 0} \ pool_spent
  BY DEF get_utxos
<1>5. \A op : op \in pool_spent <=> \E t \in pool : op \in SpentBy(t)
  BY <1>1
<1>6. \A op \in DOMAIN get_utxos(a) : get_utxos(a)[op] = 1
  BY <1>3 DEF get_utxos
<1> QED BY <1>1, <1>2, <1>4, <1>5, <1>6

\* As long as miners repeat no coinbase and list no txid twice, the balance of
\* /api/utxos is the sum of the outputs of the address, modulo 2^64.
THEOREM BalanceCorrect == ASSUME CarefulMiner PROVE Spec => []BalanceExact
<1>1. ASSUME IInv, CarefulInv PROVE BalanceExact
  <2> SUFFICES ASSUME Unlocked, NEW a \in Address
               PROVE  Balance(a) =
                        Value({op \in Unspent(blocks) :
                                 /\ OutputAt(op).recipient = a
                                 /\ \A t \in pool : op \notin SpentBy(t)}) % (MaxAmount + 1)
    BY DEF BalanceExact
  <2> DEFINE l == get_utxos(a)
             S == DOMAIN l
  <2>1. /\ S = {op \in Unspent(blocks) : /\ OutputAt(op).recipient = a
                                         /\ \A t \in pool : op \notin SpentBy(t)}
        /\ \A op \in S : l[op] = 1
    BY <1>1, UtxosListed
  <2>2. \A op \in S : OutputAt(op).amount \in Int
    BY <2>1, UnspentOutput, BoundsAssumption DEF TxOutput
  <2>3. [op \in S |-> l[op] * OutputAt(op).amount] = [op \in S |-> OutputAt(op).amount]
    <3> HIDE DEF l, S
    <3> QED BY <2>1, <2>2
  <2>4. Balance(a) = Value(S) % (MaxAmount + 1)
    BY <2>3, Zenon DEF Balance, Value
  <2> QED BY <2>1, <2>4, Zenon
<1> QED BY <1>1, CarefulInvariance, PTL

-----------------------------------------------------------------------------
(* rebuild_utxo *)

Fresh == [utxo |-> {}, index |-> NoIndex]

\* What the two loops make of a candidate for what they have done after each
\* iteration.
AfterTxs(m, s, g) ==
  [n \in 0..Len(s) |-> IF n = 0 THEN m ELSE Step(g[n - 1], s[n])]
AfterBlocks(c, g) ==
  [h \in 0..Len(c) |-> IF h = 0 THEN Fresh ELSE ApplyAll(g[h - 1], c[h].txs)]

\* The loop over the transactions of a block ends.
LEMMA TxLoop ==
  ASSUME NEW m, NEW s \in Seq(Tx)
  PROVE  LET G == CHOOSE g : g = AfterTxs(m, s, g)
         IN  G = AfterTxs(m, s, G) /\ ApplyAll(m, s) = G[Len(s)]
<1> DEFINE One(g, n) == IF n = 0 THEN m ELSE Step(g[n - 1], s[n])
           Upto(k) == \E g : \A n \in 0..k : g[n] = One(g, n)
           N == {k \in Nat : Upto(k)}
<1>1. 0 \in N
  <2> DEFINE g == [n \in {0} |-> m]
  <2>1. \A n \in 0..0 : g[n] = One(g, n)
    OBVIOUS
  <2> HIDE DEF g
  <2> QED BY <2>1
<1>2. \A k \in Nat : k \in N => k + 1 \in N
  <2> SUFFICES ASSUME NEW k \in Nat, Upto(k) PROVE Upto(k + 1)
    <3> HIDE DEF Upto
    <3> QED OBVIOUS
  <2>0. PICK g : \A n \in 0..k : g[n] = One(g, n)
    <3> HIDE DEF One
    <3> QED OBVIOUS
  <2> DEFINE f == [n \in 0..(k + 1) |-> IF n = k + 1 THEN Step(g[k], s[k + 1]) ELSE g[n]]
  <2>1. f[k + 1] = Step(g[k], s[k + 1]) /\ \A n \in 0..k : f[n] = g[n]
    OBVIOUS
  <2> HIDE DEF f
  <2>2. ASSUME NEW n \in 0..(k + 1) PROVE f[n] = One(f, n)
    <3>1. CASE n = k + 1
      <4>1. n # 0 /\ n - 1 = k /\ k \in 0..k
        BY <3>1
      <4> QED BY <2>1, <3>1, <4>1
    <3>2. CASE n = 0
      <4>1. 0 \in 0..k
        OBVIOUS
      <4> QED BY <2>0, <2>1, <3>2, <4>1
    <3>3. CASE n # k + 1 /\ n # 0
      <4>1. n \in 0..k /\ n - 1 \in 0..k
        BY <3>3
      <4>2. f[n] = g[n] /\ f[n - 1] = g[n - 1] /\ g[n] = Step(g[n - 1], s[n])
        BY <2>0, <2>1, <3>3, <4>1
      <4> QED BY <3>3, <4>2
    <3> QED BY <3>1, <3>2, <3>3
  <2> QED BY <2>2
<1>3. \A k \in Nat : k \in N
  <2> HIDE DEF N
  <2> QED BY <1>1, <1>2, Induction
<1>4. PICK g : \A n \in 0..Len(s) : g[n] = One(g, n)
  <2>1. Len(s) \in Nat /\ \A k \in Nat : Upto(k)
    <3> HIDE DEF Upto
    <3> QED BY <1>3
  <2> HIDE DEF One
  <2> QED BY <2>1
<1> DEFINE f == [n \in 0..Len(s) |-> g[n]]
<1>5. f = AfterTxs(m, s, f)
  <2>1. ASSUME NEW n \in 0..Len(s) PROVE g[n] = IF n = 0 THEN m ELSE Step(f[n - 1], s[n])
    <3>1. n # 0 => n - 1 \in 0..Len(s)
      OBVIOUS
    <3> QED BY <1>4, <3>1
  <2> QED BY <2>1, Zenon DEF AfterTxs
<1> HIDE DEF f
<1>6. ApplyAll(m, s) = (CHOOSE e : e = AfterTxs(m, s, e))[Len(s)]
  BY DEF ApplyAll, AfterTxs
<1> QED BY <1>5, <1>6

\* So does the loop over the blocks.
LEMMA BlockLoop ==
  ASSUME NEW c \in Seq(Block)
  PROVE  LET G == CHOOSE g : g = AfterBlocks(c, g)
         IN  G = AfterBlocks(c, G) /\ rebuild_utxo(c) = G[Len(c)]
<1> DEFINE One(g, n) == IF n = 0 THEN Fresh ELSE ApplyAll(g[n - 1], c[n].txs)
           Upto(k) == \E g : \A n \in 0..k : g[n] = One(g, n)
           N == {k \in Nat : Upto(k)}
<1>1. 0 \in N
  <2> DEFINE g == [n \in {0} |-> Fresh]
  <2>1. \A n \in 0..0 : g[n] = One(g, n)
    OBVIOUS
  <2> HIDE DEF g
  <2> QED BY <2>1
<1>2. \A k \in Nat : k \in N => k + 1 \in N
  <2> SUFFICES ASSUME NEW k \in Nat, Upto(k) PROVE Upto(k + 1)
    <3> HIDE DEF Upto
    <3> QED OBVIOUS
  <2>0. PICK g : \A n \in 0..k : g[n] = One(g, n)
    <3> HIDE DEF One
    <3> QED OBVIOUS
  <2> DEFINE f == [n \in 0..(k + 1) |-> IF n = k + 1 THEN ApplyAll(g[k], c[k + 1].txs) ELSE g[n]]
  <2>1. f[k + 1] = ApplyAll(g[k], c[k + 1].txs) /\ \A n \in 0..k : f[n] = g[n]
    OBVIOUS
  <2> HIDE DEF f
  <2>2. ASSUME NEW n \in 0..(k + 1) PROVE f[n] = One(f, n)
    <3>1. CASE n = k + 1
      <4>1. n # 0 /\ n - 1 = k /\ k \in 0..k
        BY <3>1
      <4> QED BY <2>1, <3>1, <4>1
    <3>2. CASE n = 0
      <4>1. 0 \in 0..k
        OBVIOUS
      <4> QED BY <2>0, <2>1, <3>2, <4>1
    <3>3. CASE n # k + 1 /\ n # 0
      <4>1. n \in 0..k /\ n - 1 \in 0..k
        BY <3>3
      <4>2. f[n] = g[n] /\ f[n - 1] = g[n - 1] /\ g[n] = ApplyAll(g[n - 1], c[n].txs)
        BY <2>0, <2>1, <3>3, <4>1
      <4> QED BY <3>3, <4>2
    <3> QED BY <3>1, <3>2, <3>3
  <2> QED BY <2>2
<1>3. \A k \in Nat : k \in N
  <2> HIDE DEF N
  <2> QED BY <1>1, <1>2, Induction
<1>4. PICK g : \A n \in 0..Len(c) : g[n] = One(g, n)
  <2>1. Len(c) \in Nat /\ \A k \in Nat : Upto(k)
    <3> HIDE DEF Upto
    <3> QED BY <1>3
  <2> HIDE DEF One
  <2> QED BY <2>1
<1> DEFINE f == [n \in 0..Len(c) |-> g[n]]
<1>5. f = AfterBlocks(c, f)
  <2>1. ASSUME NEW n \in 0..Len(c) PROVE g[n] = IF n = 0 THEN Fresh ELSE ApplyAll(f[n - 1], c[n].txs)
    <3>1. n # 0 => n - 1 \in 0..Len(c)
      OBVIOUS
    <3> QED BY <1>4, <3>1
  <2> QED BY <2>1, Zenon DEF AfterBlocks
<1> HIDE DEF f
<1>6. rebuild_utxo(c) = (CHOOSE e : e = AfterBlocks(c, e))[Len(c)]
  BY DEF rebuild_utxo, AfterBlocks, Fresh
<1> QED BY <1>5, <1>6

\* One more transaction, one more block.
LEMMA ApplyAllEmpty == ASSUME NEW m PROVE ApplyAll(m, <<>>) = m
<1> DEFINE G == CHOOSE g : g = AfterTxs(m, <<>>, g)
<1>1. <<>> \in Seq(Tx) /\ Len(<<>>) = 0
  OBVIOUS
<1>2. G = AfterTxs(m, <<>>, G) /\ ApplyAll(m, <<>>) = G[0]
  BY <1>1, TxLoop
<1> HIDE DEF G
<1>3. AfterTxs(m, <<>>, G)[0] = m
  BY <1>1 DEF AfterTxs
<1> QED BY <1>2, <1>3

LEMMA ApplyAllAppend ==
  ASSUME NEW m, NEW s \in Seq(Tx), NEW t \in Tx
  PROVE  ApplyAll(m, Append(s, t)) = Step(ApplyAll(m, s), t)
<1> DEFINE r == Append(s, t)
           G == CHOOSE g : g = AfterTxs(m, s, g)
           H == CHOOSE g : g = AfterTxs(m, r, g)
           k == Len(s)
           N == {n \in Nat : n <= k => G[n] = H[n]}
<1>1. /\ r \in Seq(Tx) /\ k \in Nat /\ Len(r) = k + 1 /\ r[k + 1] = t
      /\ \A n \in 1..k : r[n] = s[n]
  BY AppendProperties
<1>2. G = AfterTxs(m, s, G) /\ ApplyAll(m, s) = G[k]
  BY TxLoop
<1>3. H = AfterTxs(m, r, H) /\ ApplyAll(m, r) = H[Len(r)]
  BY <1>1, TxLoop
<1> HIDE DEF r, G, H, k
<1>4. \A n \in 0..k : G[n] = IF n = 0 THEN m ELSE Step(G[n - 1], s[n])
  <2>1. \A n \in 0..k : AfterTxs(m, s, G)[n] = IF n = 0 THEN m ELSE Step(G[n - 1], s[n])
    BY DEF AfterTxs, k
  <2> QED BY <1>2, <2>1
<1>5. \A n \in 0..(k + 1) : H[n] = IF n = 0 THEN m ELSE Step(H[n - 1], r[n])
  <2>1. \A n \in 0..Len(r) : AfterTxs(m, r, H)[n] = IF n = 0 THEN m ELSE Step(H[n - 1], r[n])
    BY DEF AfterTxs
  <2> QED BY <1>1, <1>3, <2>1
<1>6. 0 \in N
  BY <1>1, <1>4, <1>5
<1>7. \A n \in Nat : n \in N => n + 1 \in N
  <2> SUFFICES ASSUME NEW n \in Nat, n + 1 <= k, G[n] = H[n] PROVE G[n + 1] = H[n + 1]
    BY <1>1
  <2>1. n + 1 \in 0..k /\ n + 1 \in 0..(k + 1) /\ n + 1 # 0 /\ (n + 1) - 1 = n /\ n + 1 \in 1..k
    BY <1>1
  <2>2. G[n + 1] = Step(G[n], s[n + 1]) /\ H[n + 1] = Step(H[n], r[n + 1])
    BY <1>4, <1>5, <2>1
  <2> QED BY <1>1, <2>1, <2>2
<1> HIDE DEF N
<1>8. \A n \in Nat : n \in N
  BY <1>6, <1>7, Induction
<1>9. G[k] = H[k]
  BY <1>1, <1>8 DEF N
<1>10. H[k + 1] = Step(H[k], r[k + 1])
  <2>1. k + 1 \in 0..(k + 1) /\ k + 1 # 0 /\ (k + 1) - 1 = k
    BY <1>1
  <2> QED BY <1>5, <2>1
<1> QED BY <1>1, <1>2, <1>3, <1>9, <1>10 DEF r

LEMMA RebuildEmpty == rebuild_utxo(<<>>) = Fresh
<1> DEFINE G == CHOOSE g : g = AfterBlocks(<<>>, g)
<1>1. <<>> \in Seq(Block) /\ Len(<<>>) = 0
  OBVIOUS
<1>2. G = AfterBlocks(<<>>, G) /\ rebuild_utxo(<<>>) = G[0]
  BY <1>1, BlockLoop
<1> HIDE DEF G
<1>3. AfterBlocks(<<>>, G)[0] = Fresh
  BY <1>1 DEF AfterBlocks
<1> QED BY <1>2, <1>3

LEMMA RebuildAppend ==
  ASSUME NEW c \in Seq(Block), NEW b \in Block
  PROVE  rebuild_utxo(Append(c, b)) = ApplyAll(rebuild_utxo(c), b.txs)
<1> DEFINE r == Append(c, b)
           G == CHOOSE g : g = AfterBlocks(c, g)
           H == CHOOSE g : g = AfterBlocks(r, g)
           k == Len(c)
           N == {n \in Nat : n <= k => G[n] = H[n]}
<1>1. /\ r \in Seq(Block) /\ k \in Nat /\ Len(r) = k + 1 /\ r[k + 1] = b
      /\ \A n \in 1..k : r[n] = c[n]
  BY AppendProperties
<1>2. G = AfterBlocks(c, G) /\ rebuild_utxo(c) = G[k]
  BY BlockLoop
<1>3. H = AfterBlocks(r, H) /\ rebuild_utxo(r) = H[Len(r)]
  BY <1>1, BlockLoop
<1> HIDE DEF r, G, H, k
<1>4. \A n \in 0..k : G[n] = IF n = 0 THEN Fresh ELSE ApplyAll(G[n - 1], c[n].txs)
  <2>1. \A n \in 0..k : AfterBlocks(c, G)[n] = IF n = 0 THEN Fresh ELSE ApplyAll(G[n - 1], c[n].txs)
    BY DEF AfterBlocks, k
  <2> QED BY <1>2, <2>1
<1>5. \A n \in 0..(k + 1) : H[n] = IF n = 0 THEN Fresh ELSE ApplyAll(H[n - 1], r[n].txs)
  <2>1. \A n \in 0..Len(r) : AfterBlocks(r, H)[n] = IF n = 0 THEN Fresh ELSE ApplyAll(H[n - 1], r[n].txs)
    BY DEF AfterBlocks
  <2> QED BY <1>1, <1>3, <2>1
<1>6. 0 \in N
  BY <1>1, <1>4, <1>5
<1>7. \A n \in Nat : n \in N => n + 1 \in N
  <2> SUFFICES ASSUME NEW n \in Nat, n + 1 <= k, G[n] = H[n] PROVE G[n + 1] = H[n + 1]
    BY <1>1
  <2>1. n + 1 \in 0..k /\ n + 1 \in 0..(k + 1) /\ n + 1 # 0 /\ (n + 1) - 1 = n /\ n + 1 \in 1..k
    BY <1>1
  <2>2. G[n + 1] = ApplyAll(G[n], c[n + 1].txs) /\ H[n + 1] = ApplyAll(H[n], r[n + 1].txs)
    BY <1>4, <1>5, <2>1
  <2> QED BY <1>1, <2>1, <2>2
<1> HIDE DEF N
<1>8. \A n \in Nat : n \in N
  BY <1>6, <1>7, Induction
<1>9. G[k] = H[k]
  BY <1>1, <1>8 DEF N
<1>10. H[k + 1] = ApplyAll(H[k], r[k + 1].txs)
  <2>1. k + 1 \in 0..(k + 1) /\ k + 1 # 0 /\ (k + 1) - 1 = k
    BY <1>1
  <2> QED BY <1>5, <2>1
<1> QED BY <1>1, <1>2, <1>3, <1>9, <1>10 DEF r

-----------------------------------------------------------------------------
(* A restart changes nothing *)

\* utxo_ and address_utxo_, with the copies in its vectors, are what replaying
\* the applied chain makes.
Replayed == rebuild_utxo(AppliedChain) = [utxo |-> utxo, index |-> address_utxo]

\* Replaying a block transaction by transaction.
LEMMA CutFacts ==
  ASSUME NEW b \in Block, NEW n \in 0..Len(b.txs)
  PROVE  CutBlock(b, n) \in Block /\ CutBlock(b, n).txs = SubSeq(b.txs, 1, n)
<1>1. b.txs \in Seq(Tx) /\ Len(b.txs) \in Nat /\ n \in Nat
  BY DEF Block
<1>2. SubSeq(b.txs, 1, n) \in Seq(Tx)
  BY <1>1
<1> QED BY <1>2 DEF CutBlock, Block

LEMMA ReplayStart ==
  ASSUME NEW c \in Seq(Block), NEW b \in Block
  PROVE  rebuild_utxo(Applied(c, b, 0)) = rebuild_utxo(c)
<1>1. b.txs \in Seq(Tx) /\ 0 \in 0..Len(b.txs) /\ SubSeq(b.txs, 1, 0) = <<>>
  BY DEF Block
<1>2. CutBlock(b, 0) \in Block /\ CutBlock(b, 0).txs = <<>>
  BY <1>1, CutFacts
<1> QED BY <1>2, RebuildAppend, ApplyAllEmpty DEF Applied

LEMMA ReplayNext ==
  ASSUME NEW c \in Seq(Block), NEW b \in Block, NEW n \in Nat, n < Len(b.txs)
  PROVE  rebuild_utxo(Applied(c, b, n + 1)) = Step(rebuild_utxo(Applied(c, b, n)), b.txs[n + 1])
<1> DEFINE s == SubSeq(b.txs, 1, n)
           r == SubSeq(b.txs, 1, n + 1)
           t == b.txs[n + 1]
<1>1. /\ b.txs \in Seq(Tx) /\ Len(b.txs) \in Nat
      /\ n \in 0..Len(b.txs) /\ n + 1 \in 0..Len(b.txs)
  BY DEF Block
<1>2. /\ s \in Seq(Tx) /\ t \in Tx /\ Len(s) = n /\ \A i \in 1..n : s[i] = b.txs[i]
      /\ r \in Seq(Tx) /\ Len(r) = n + 1 /\ \A i \in 1..(n + 1) : r[i] = b.txs[i]
  BY <1>1
<1>3. /\ CutBlock(b, n) \in Block /\ CutBlock(b, n).txs = s
      /\ CutBlock(b, n + 1) \in Block /\ CutBlock(b, n + 1).txs = r
  BY <1>1, CutFacts
<1>4. r = Append(s, t)
  <2>1. t = b.txs[n + 1]
    OBVIOUS
  <2> HIDE DEF s, r, t
  <2>2. /\ Append(s, t) \in Seq(Tx) /\ Len(Append(s, t)) = n + 1
        /\ \A i \in 1..(n + 1) : Append(s, t)[i] = r[i]
    BY <1>2, <2>1
  <2> QED BY <1>2, <2>2, SeqEqual
<1> HIDE DEF s, r
<1>5. /\ rebuild_utxo(Applied(c, b, n)) = ApplyAll(rebuild_utxo(c), s)
      /\ rebuild_utxo(Applied(c, b, n + 1)) = ApplyAll(rebuild_utxo(c), r)
  BY <1>3, RebuildAppend DEF Applied
<1> QED BY <1>2, <1>4, <1>5, ApplyAllAppend

\* apply_tx is the step of the replay.
LEMMA ReplayApply ==
  ASSUME TypeOK, Replayed, blk # NoBlock, done < Len(blk.txs), done' = done + 1,
         apply_tx(blk.txs[done + 1]), UNCHANGED <<blocks, blk>>
  PROVE  Replayed'
<1>1. blk \in Block /\ blocks \in Seq(Block) /\ done \in Nat
  BY DEF TypeOK
<1>2. AppliedChain = Applied(blocks, blk, done) /\ AppliedChain' = Applied(blocks, blk, done + 1)
  BY DEF AppliedChain
<1>3. rebuild_utxo(AppliedChain') = Step(rebuild_utxo(AppliedChain), blk.txs[done + 1])
  BY <1>1, <1>2, ReplayNext
<1>4. Step([utxo |-> utxo, index |-> address_utxo], blk.txs[done + 1])
        = [utxo |-> utxo', index |-> address_utxo']
  BY DEF Step, apply_tx
<1> QED BY <1>3, <1>4 DEF Replayed

\* Every step of the node keeps it.
LEMMA ReplayedStep == ASSUME IInv, Replayed, [Next]_vars PROVE Replayed'
<1>0. /\ TypeOK /\ blocks \in Seq(Block) /\ blocks_db \in Seq(Block) /\ NoBlock \notin Block
      /\ blk \in Block \cup {NoBlock}
  BY NoBlockAssumption DEF IInv, TypeOK
<1>1. ASSUME UNCHANGED <<blocks, blk, done, utxo, address_utxo>> PROVE Replayed'
  BY <1>1 DEF Replayed, AppliedChain
<1>2. ASSUME blk = NoBlock, blk' \in Block, done' = 0, UNCHANGED <<blocks, utxo, address_utxo>>
      PROVE  Replayed'
  BY <1>0, <1>2, ReplayStart DEF Replayed, AppliedChain
<1>3. CASE Start \/ load_pool \/ Submission \/ UNCHANGED vars
  BY <1>1, <1>3 DEF Start, load_pool, Submission, add_tx, reject_tx, vars, mem
<1>4. CASE LoadBlock
  <2>1. blk = NoBlock /\ blk' \in Block /\ done' = 0 /\ UNCHANGED <<blocks, utxo, address_utxo>>
    BY <1>0, <1>4 DEF LoadBlock
  <2> QED BY <1>2, <2>1
<1>5. CASE BeginBlock
  <2>1. PICK c \in Coinbase, refs \in RefLists, ts \in Timestamp :
          LockForBlock(Assemble(TipHash, c, refs, ts))
    BY <1>5 DEF BeginBlock
  <2>2. blocks # <<>>
    BY <2>1 DEF LockForBlock, Unlocked, IInv, Mirror, BlocksMirror
  <2>3. Assemble(TipHash, c, refs, ts) \in Block
    BY <1>0, <2>2, AssembleType
  <2> QED BY <1>2, <2>1, <2>3 DEF LockForBlock, Unlocked
<1>6. CASE ApplyLoaded \/ ApplyMined
  BY <1>0, <1>6, ReplayApply DEF ApplyLoaded, ApplyMined
<1>7. CASE PushLoaded \/ StoreBlock
  <2>1. /\ blk \in Block /\ blk # NoBlock /\ done = Len(blk.txs) /\ blk' = NoBlock
        /\ blocks' = Append(blocks, blk) /\ UNCHANGED <<utxo, address_utxo>>
    BY <1>0, <1>7 DEF PushLoaded, StoreBlock
  <2>2. AppliedChain' = AppliedChain
    BY <1>0, <2>1, AppliedFull DEF AppliedChain
  <2> QED BY <2>1, <2>2 DEF Replayed
<1>8. CASE create_genesis
  <2>1. /\ blocks = <<>> /\ blk = NoBlock /\ blk' = NoBlock
        /\ blocks' = Append(blocks, GenesisBlock) /\ apply_tx(Genesis)
    BY <1>8 DEF create_genesis, IInv, Mirror, BlocksMirror
  <2>2. rebuild_utxo(blocks') = ApplyAll(rebuild_utxo(blocks), <<Genesis>>)
    BY <1>0, <2>1, RebuildAppend, GenesisType
  <2>3. <<Genesis>> = Append(<<>>, Genesis) /\ <<>> \in Seq(Tx) /\ Genesis \in Tx
    BY CoinbaseAssumption
  <2>4. ApplyAll(rebuild_utxo(blocks), <<Genesis>>) = Step(rebuild_utxo(blocks), Genesis)
    BY <2>3, ApplyAllAppend, ApplyAllEmpty, ZenonT(60)
  <2>5. Step([utxo |-> utxo, index |-> address_utxo], Genesis)
          = [utxo |-> utxo', index |-> address_utxo']
    BY <2>1 DEF Step, apply_tx
  <2> QED BY <2>1, <2>2, <2>4, <2>5 DEF Replayed, AppliedChain
<1>9. CASE Stop \/ Crash
  <2>1. blocks' = <<>> /\ blk' = NoBlock /\ utxo' = {} /\ address_utxo' = NoIndex
    BY <1>9 DEF Stop, Crash, LoseMemory
  <2> QED BY <2>1, RebuildEmpty DEF Replayed, AppliedChain, Fresh
<1> QED BY <1>3, <1>4, <1>5, <1>6, <1>7, <1>8, <1>9
        DEF Next, LoadStep, BlockStep, Process

\* Between two calls a restart would change nothing, down to the copies in the
\* vectors of address_utxo_: whatever the miners repeat and wherever the process
\* has died before.
THEOREM RestartChangesNothing == Spec => []RestartIsIdentity
<1>1. Init => Replayed
  BY RebuildEmpty DEF Init, MemEmpty, Replayed, AppliedChain, Fresh
<1>2. IInv /\ Replayed /\ [Next]_vars => Replayed'
  BY ReplayedStep
<1>3. IInv /\ Replayed => RestartIsIdentity
  BY DEF IInv, Mirror, BlocksMirror, PoolSpentExact, Unlocked, Replayed, AppliedChain,
         RestartIsIdentity
<1> QED BY <1>1, <1>2, <1>3, Invariance, PTL DEF Spec
=============================================================================

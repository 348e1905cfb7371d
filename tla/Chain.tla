------------------------------- MODULE Chain -------------------------------
(***************************************************************************)
(* Class Chain: the memory of the node (blocks_, height_, utxo_,           *)
(* address_utxo_, pool_, pool_spent_), its two LevelDB stores, and the     *)
(* operations that change them: construction (load_blocks, load_pool,      *)
(* create_genesis), add_tx and add_block.                                  *)
(*                                                                         *)
(* add_tx and add_block hold mutex_ exclusively.  add_tx changes one       *)
(* database key, so no crash can tell it from an atomic step.  add_block   *)
(* deletes one pool_db_ key per transaction before it stores the block:    *)
(* it takes one step per transaction and one for the store, blk and done   *)
(* being its argument and the loop index, and the process may die between  *)
(* any two of them.                                                        *)
(***************************************************************************)
EXTENDS Ledger

CONSTANTS
  NoBlock,      \* no add_block or load_blocks iteration is under way
  Submitted,    \* the signed transactions wallets submit
  MaxBlocks,    \* bound: length of the chain
  MaxRefs,      \* bound: pool transactions a mined block lists
  MaxCrashes,   \* bound: process deaths
  CarefulMiner  \* TRUE: no miner repeats a coinbase or lists a txid twice

ASSUME NoBlockAssumption == NoBlock \notin Block
ASSUME SubmittedAssumption == Submitted \subseteq SignedTransaction
ASSUME ChainBounds ==
  MaxBlocks \in Nat /\ MaxRefs \in Nat /\ MaxCrashes \in Nat
  /\ CarefulMiner \in BOOLEAN

VARIABLES
  phase,        \* "down", "loading", "genesis" (in the constructor) or "up"
  blocks,       \* blocks_
  height,       \* height_
  utxo,         \* the keys of utxo_
  address_utxo, \* address_utxo_: copies of an outpoint in an address' vector
  pool,         \* the keys of pool_
  pool_spent,   \* the keys of pool_spent_
  blk,          \* the block being loaded or added
  done,         \* how many of its transactions have been applied
  blocks_db,    \* the blocks database, ordered by block_key
  pool_db,      \* the keys of the pool database
  acked,        \* txids for which add_tx has returned TxError::None (history)
  crashes       \* process deaths so far (bound)

mem  == <<blocks, height, utxo, address_utxo, pool, pool_spent, blk, done>>
disk == <<blocks_db, pool_db>>
vars == <<phase, mem, disk, acked, crashes>>

NoIndex == [a \in Address |-> [op \in OutPoint |-> 0]]

\* The memory of a process that is not running, or has just been started.
MemEmpty ==
  /\ blocks = <<>> /\ height = 0
  /\ utxo = {} /\ address_utxo = NoIndex
  /\ pool = {} /\ pool_spent = {}
  /\ blk = NoBlock /\ done = 0

Init ==
  /\ phase = "down" /\ MemEmpty
  /\ blocks_db = <<>> /\ pool_db = {}
  /\ acked = {} /\ crashes = 0

-----------------------------------------------------------------------------
(* Construction.  No request is served before the constructor returns.     *)

\* open_db, twice: the members still have their initial values.
Start ==
  /\ phase = "down"
  /\ phase' = "loading"
  /\ UNCHANGED <<mem, disk, acked, crashes>>

\* Mutant: the iteration is skipped and the iterator stays where it is.
LoadBlockStuck ==
  /\ phase = "loading" /\ blk = NoBlock
  /\ Len(blocks) < Len(blocks_db)
  /\ UNCHANGED vars
\* load_blocks: the iterator is Valid at the next key.
LoadBlock ==
  /\ phase = "loading" /\ blk = NoBlock
  /\ Len(blocks) < Len(blocks_db)
  /\ blk' = blocks_db[Len(blocks) + 1] /\ done' = 0
  /\ UNCHANGED <<phase, blocks, height, utxo, address_utxo, pool, pool_spent,
                 disk, acked, crashes>>

\* Mutant: the inputs are looked up after they were erased.
apply_tx_EraseFirst(t) ==
  /\ utxo' = ApplyToUtxo(utxo, t)
  /\ address_utxo' = ApplyToIndex(address_utxo, utxo \ SpentBy(t), t)
apply_tx(t) ==
  /\ utxo' = ApplyToUtxo(utxo, t)
  /\ address_utxo' = ApplyToIndex(address_utxo, utxo, t)

\* load_blocks: the next transaction of the block is applied.
ApplyLoaded ==
  /\ phase = "loading" /\ blk # NoBlock /\ done < Len(blk.txs)
  /\ apply_tx(blk.txs[done + 1])
  /\ done' = done + 1
  /\ UNCHANGED <<phase, blocks, height, pool, pool_spent, blk,
                 disk, acked, crashes>>

\* load_blocks: the block is pushed and the iterator moves on.
PushLoaded ==
  /\ phase = "loading" /\ blk # NoBlock /\ done = Len(blk.txs)
  /\ blocks' = Append(blocks, blk)
  /\ blk' = NoBlock /\ done' = 0
  /\ UNCHANGED <<phase, height, utxo, address_utxo, pool, pool_spent,
                 disk, acked, crashes>>

\* Mutant: pool_spent_ is not rebuilt.
load_pool_NoLocks ==
  /\ phase = "loading" /\ blk = NoBlock /\ Len(blocks) = Len(blocks_db)
  /\ height' = Len(blocks)
  /\ pool' = pool_db /\ pool_spent' = {}
  /\ phase' = IF blocks = <<>> THEN "genesis" ELSE "up"
  /\ UNCHANGED <<blocks, utxo, address_utxo, blk, done, disk, acked, crashes>>
\* The end of load_blocks, then load_pool, which trusts what it reads.
load_pool ==
  /\ phase = "loading" /\ blk = NoBlock /\ Len(blocks) = Len(blocks_db)
  /\ height' = Len(blocks)
  /\ pool' = pool_db
  /\ pool_spent' = UNION {SpentBy(t) : t \in pool_db}
  /\ phase' = IF blocks = <<>> THEN "genesis" ELSE "up"
  /\ UNCHANGED <<blocks, utxo, address_utxo, blk, done, disk, acked, crashes>>

\* Mutant: the key is the height of the tip, not the number of blocks.
PutBlockAtTip(db, n, b) ==
  IF db = <<>> THEN <<b>> ELSE [db EXCEPT ![Len(db)] = b]
\* store_block's Put: the value at key n (from 1) is written or overwritten.
PutBlock(db, n, b) ==
  [i \in (1..Len(db)) \cup {n} |-> IF i = n THEN b ELSE db[i]]

create_genesis ==
  /\ phase = "genesis"
  /\ blocks_db' = PutBlock(blocks_db, Len(blocks) + 1, GenesisBlock)
  /\ apply_tx(Genesis)
  /\ blocks' = Append(blocks, GenesisBlock)
  /\ height' = 1
  /\ phase' = "up"
  /\ UNCHANGED <<pool, pool_spent, blk, done, pool_db, acked, crashes>>

-----------------------------------------------------------------------------
(* add_tx *)

Unlocked == phase = "up" /\ blk = NoBlock

\* The submission passes every check: into pool_, pool_spent_ and pool_db_.
add_tx(st) ==
  /\ Unlocked
  /\ ValidateTx(st, utxo, pool, pool_spent) = "None"
  /\ pool' = pool \cup {st.tx}
  /\ pool_spent' = pool_spent \cup SpentBy(st.tx)
  /\ pool_db' = pool_db \cup {st.tx}
  /\ acked' = acked \cup {st.tx}
  /\ UNCHANGED <<phase, blocks, height, utxo, address_utxo, blk, done,
                 blocks_db, crashes>>

\* Every early return leaves the node as it was.
reject_tx(st) ==
  /\ Unlocked
  /\ ValidateTx(st, utxo, pool, pool_spent) # "None"
  /\ UNCHANGED vars

-----------------------------------------------------------------------------
(* add_block *)

\* Mutant: the first block is taken for the tip.
GenesisHash == BlockHash(blocks[1])
\* tip_hash().
TipHash == BlockHash(blocks[Len(blocks)])

\* The lists of pool transactions a CreateBlock message may name, each as often
\* as the miner likes.
RefLists == UNION {[1..n -> pool] : n \in 0..MaxRefs}

\* The bound and the assumption on miners, neither of which the node checks.
MinerMay(b) ==
  /\ Len(blocks) < MaxBlocks
  /\ CarefulMiner =>
       /\ b.txs[1] \notin TxsOf(blocks)
       /\ \A i, j \in DOMAIN b.txs : b.txs[i] = b.txs[j] => i = j

\* add_block is entered with block b: mutex_ is taken exclusively.
LockForBlock(b) ==
  /\ Unlocked
  /\ blk' = b /\ done' = 0
  /\ UNCHANGED <<phase, blocks, height, utxo, address_utxo, pool, pool_spent,
                 disk, acked, crashes>>

\* on_create_block lets a block in when it extends the tip.  Merkle root and
\* proof of work are the miner's business: it has found a fitting nonce.
BeginBlock ==
  /\ Unlocked
  /\ \E c \in Coinbase, refs \in RefLists, ts \in Timestamp :
       LET b == Assemble(TipHash, c, refs, ts)
       IN  MinerMay(b) /\ LockForBlock(b)

\* Mutant: the inputs stay in pool_spent_.
UnpoolKeepsLocks(t) ==
  /\ UNCHANGED pool_spent
  /\ pool' = pool \ {t} /\ pool_db' = pool_db \ {t}
\* Mutant: the pool database is not told.
UnpoolKeepsKey(t) ==
  /\ pool_spent' = pool_spent \ SpentBy(t) /\ pool' = pool \ {t}
  /\ UNCHANGED pool_db
\* Mutant: the mined transaction stays in the pool.
UnpoolKeepsTx(t) == UNCHANGED <<pool, pool_spent, pool_db>>
\* Mutant: the whole pool is dropped with the first transaction.
UnpoolEverything(t) == pool' = {} /\ pool_spent' = {} /\ pool_db' = {}

\* One iteration of add_block's loop: apply the transaction and, unless it is
\* a coinbase, take it and its inputs out of the pool and out of pool_db_.
Unpool(t) ==
  /\ pool_spent' = IF is_coinbase(t) THEN pool_spent
                                     ELSE pool_spent \ SpentBy(t)
  /\ pool'    = IF is_coinbase(t) THEN pool    ELSE pool \ {t}
  /\ pool_db' = IF is_coinbase(t) THEN pool_db ELSE pool_db \ {t}

ApplyMined ==
  /\ phase = "up" /\ blk # NoBlock /\ done < Len(blk.txs)
  /\ apply_tx(blk.txs[done + 1])
  /\ Unpool(blk.txs[done + 1])
  /\ done' = done + 1
  /\ UNCHANGED <<phase, blocks, height, blk, blocks_db, acked, crashes>>

\* Mutant: store_block is tried again and again with mutex_ held.
StoreBlockRetries ==
  /\ phase = "up" /\ blk # NoBlock /\ done = Len(blk.txs)
  /\ UNCHANGED vars
\* After the loop: store_block, push_back, ++height_; mutex_ is released.
StoreBlock ==
  /\ phase = "up" /\ blk # NoBlock /\ done = Len(blk.txs)
  /\ blocks_db' = PutBlock(blocks_db, Len(blocks) + 1, blk)
  /\ blocks' = Append(blocks, blk)
  /\ height' = height + 1
  /\ blk' = NoBlock /\ done' = 0
  /\ UNCHANGED <<phase, utxo, address_utxo, pool, pool_spent, pool_db,
                 acked, crashes>>

-----------------------------------------------------------------------------
(* The process *)

LoseMemory ==
  /\ blocks' = <<>> /\ height' = 0
  /\ utxo' = {} /\ address_utxo' = NoIndex
  /\ pool' = {} /\ pool_spent' = {}
  /\ blk' = NoBlock /\ done' = 0

\* SIGINT or SIGTERM: the handler runs on the executor of the TCP server, so
\* never inside add_block; the node restarts from its databases.
Stop ==
  /\ Unlocked
  /\ phase' = "down" /\ LoseMemory
  /\ UNCHANGED <<disk, acked, crashes>>

\* The process dies at any point; what it has written survives.
Crash ==
  /\ phase # "down" /\ crashes < MaxCrashes
  /\ phase' = "down" /\ LoseMemory
  /\ crashes' = crashes + 1
  /\ UNCHANGED <<disk, acked>>

LoadStep == LoadBlock \/ ApplyLoaded \/ PushLoaded \/ load_pool \/ create_genesis
BlockStep == ApplyMined \/ StoreBlock
Submission == \E st \in Submitted : add_tx(st) \/ reject_tx(st)
Process == Start \/ Stop \/ Crash

Next == LoadStep \/ Submission \/ BeginBlock \/ BlockStep \/ Process

Spec == Init /\ [][Next]_vars

\* A running thread keeps running: the constructor and add_block go on.
\* Nobody is obliged to start the node, to submit or to mine.
Fairness == WF_vars(LoadStep) /\ WF_vars(BlockStep)
FairSpec == Spec /\ Fairness

-----------------------------------------------------------------------------
(* What the state should mean *)

\* The chain whose transactions have been applied: blocks_ and the first done
\* transactions of the block in progress.
CutBlock(b, n) == [prev_hash |-> b.prev_hash, txs |-> SubSeq(b.txs, 1, n),
                   timestamp |-> b.timestamp]
Applied(c, b, n) == Append(c, CutBlock(b, n))
AppliedChain == IF blk = NoBlock THEN blocks ELSE Applied(blocks, blk, done)

Positions(c) == UNION {{<<h, i>> : i \in 1..Len(c[h].txs)} : h \in 1..Len(c)}

-----------------------------------------------------------------------------
(* Properties *)

\* The variables have the types of the members they stand for.
TypeOK ==
  /\ phase \in {"down", "loading", "genesis", "up"}
  /\ blocks \in Seq(Block) /\ height \in Nat
  /\ utxo \subseteq OutPoint
  /\ address_utxo \in [Address -> [OutPoint -> Nat]]
  /\ pool \subseteq Tx /\ pool_spent \subseteq OutPoint
  /\ blk \in Block \cup {NoBlock} /\ done \in Nat
  /\ blocks_db \in Seq(Block) /\ pool_db \subseteq Tx
  /\ acked \subseteq Tx /\ crashes \in 0..MaxCrashes

\* utxo_ is what the chain leaves unspent, at every point of load_blocks and
\* of add_block, after any restart: the incremental updates of apply_tx never
\* drift from the blocks they come from.
UtxoMatchesChain == utxo = Unspent(AppliedChain)

\* address_utxo_ lists exactly the unspent outputs of each address, so the
\* utxo_.at of get_utxos never throws and no output is forgotten.
IndexSound ==
  \A a \in Address, op \in OutPoint :
    address_utxo[a][op] > 0 <=> (op \in utxo /\ OutputAt(op).recipient = a)

\* No two pool transactions compete for an output.
NoCompetition ==
  \A s, t \in pool : s # t => SpentBy(s) \cap SpentBy(t) = {}

\* No two pool transactions compete for an output and every pool transaction
\* can still be mined, although neither add_block nor load_pool looks at the
\* pool again: also after a crash in the middle of add_block.
PoolSpendable ==
  /\ \A t \in pool : SpentBy(t) \subseteq utxo
  /\ NoCompetition

\* pool_spent_ holds the inputs of the pool transactions, no more and no less:
\* an output is never locked by a transaction that is gone.
PoolSpentExact ==
  phase \in {"genesis", "up"} => pool_spent = UNION {SpentBy(t) : t \in pool}

\* Between two calls the databases hold what the memory holds.
StoresAgree ==
  Unlocked => /\ blocks_db = blocks /\ pool_db = pool /\ height = Len(blocks)

\* Every stored block extends the one stored before it, from genesis on.
ChainLinked ==
  \A h \in 1..Len(blocks_db) :
    blocks_db[h].prev_hash =
      IF h = 1 THEN <<>> ELSE BlockHash(blocks_db[h - 1])

\* A stored block is never changed or removed: block_key never names a key
\* that is in use.
HistoryImmutable ==
  [][/\ Len(blocks_db) <= Len(blocks_db')
     /\ \A h \in 1..Len(blocks_db) : blocks_db'[h] = blocks_db[h]]_vars

\* What the outputs are worth, and what the coinbases of a chain have issued.
Value(ops) == Total([op \in ops |-> OutputAt(op).amount])
Mints(c) == {p \in Positions(c) : is_coinbase(c[p[1]].txs[p[2]])}
Minted(c) == Total([p \in Mints(c) |-> outputs[c[p[1]].txs[p[2]]][1].amount])

\* The unspent outputs never hold more than the coinbases have issued:
\* confirmed transactions create no money.  (As long as no submission lists an
\* input twice, which add_tx lets pass.)
ValueConserved == Value(utxo) <= Minted(AppliedChain)

\* No transaction is applied at two positions of the chain.
NothingAppliedTwice ==
  \A p, q \in Positions(AppliedChain) :
    AppliedChain[p[1]].txs[p[2]] = AppliedChain[q[1]].txs[q[2]] => p = q

\* An output that the chain has spent is never spendable again.
SpentStaysSpent ==
  \A t \in TxsOf(AppliedChain) : SpentBy(t) \cap utxo = {}

Held == TxsOf(blocks_db) \cup pool_db

\* A transaction that was acknowledged stays in a database until it is in a
\* stored block (add_block, while it runs, has it in memory).
AckedDurable == blk = NoBlock => acked \subseteq Held

InFlight == IF phase = "up" /\ blk # NoBlock THEN TxsOf(<<blk>>) ELSE {}
Lost == acked \ (Held \cup InFlight)

\* Only the death of the process inside add_block loses an acknowledged
\* transaction, and only one of the block being added.
LossOnlyInFlight == [][Lost' \ Lost \subseteq InFlight]_vars

\* A constructor that has begun ends, unless the process dies: load_blocks
\* reaches the end of its iterator.
LoadingEnds == phase \in {"loading", "genesis"} ~> phase \in {"up", "down"}

\* An add_block that has begun stores its block and releases mutex_, unless the
\* process dies; so does each iteration of load_blocks.
AddBlockEnds == blk # NoBlock ~> blk = NoBlock

-----------------------------------------------------------------------------
(* The inductive invariant behind the safety properties *)

\* What survives a crash is always fit to start from: the pool database alone
\* can be mined on top of the blocks database alone.
DiskSound ==
  /\ \A t \in pool_db : SpentBy(t) \subseteq Unspent(blocks_db)
  /\ \A s, t \in pool_db : s # t => SpentBy(s) \cap SpentBy(t) = {}

\* How far the memory mirrors the blocks database in each phase.
BlocksMirror ==
  /\ blk = NoBlock => done = 0
  /\ blk # NoBlock => /\ phase \in {"loading", "up"}
                      /\ done <= Len(blk.txs)
  /\ phase = "down" => MemEmpty
  /\ phase = "loading" =>
       /\ pool = {} /\ pool_spent = {}
       /\ Len(blocks) <= Len(blocks_db)
       /\ \A h \in 1..Len(blocks) : blocks[h] = blocks_db[h]
       /\ blk # NoBlock => /\ Len(blocks) < Len(blocks_db)
                           /\ blk = blocks_db[Len(blocks) + 1]
  /\ phase = "genesis" => blocks = <<>> /\ blocks_db = <<>>
  /\ phase = "up" => /\ blocks = blocks_db /\ blocks # <<>>
                     /\ height = Len(blocks)

\* So does the pool, once it is loaded.
Mirror == BlocksMirror /\ (phase \in {"genesis", "up"} => pool = pool_db)

\* A block in the middle of add_block extends the tip, and what it has yet to
\* apply competes with no pool transaction that it does not contain.
BlockFits ==
  phase = "up" /\ blk # NoBlock =>
    /\ blk.prev_hash = TipHash
    /\ \A i \in (done + 1)..Len(blk.txs), t \in pool :
         t # blk.txs[i] => SpentBy(t) \cap SpentBy(blk.txs[i]) = {}

\* The invariant every step preserves: each conjunct needs the others.
IInv ==
  /\ TypeOK /\ Mirror /\ DiskSound /\ BlockFits
  /\ UtxoMatchesChain /\ IndexSound
  /\ PoolSpendable /\ PoolSpentExact /\ ChainLinked
=============================================================================

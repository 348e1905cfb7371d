------------------------------ MODULE Queries ------------------------------
(***************************************************************************)
(* The requests that read Chain under one lock: get_utxos with the balance *)
(* of /api/utxos, the two get_block of /api/block/<id>, and rebuild_utxo,  *)
(* the fold of apply_tx over the chain that load_blocks makes as well.     *)
(* Their answers are functions of one state, so they need no action.       *)
(***************************************************************************)
EXTENDS Chain

\* Mutant: outputs claimed by the pool are listed too.
get_utxos_Claimed(a) ==
  [op \in {o \in OutPoint : address_utxo[a][o] > 0} |-> address_utxo[a][op]]
\* Chain::get_utxos: the outputs of the address no pool transaction spends,
\* each as often as the vector of the index holds it.
get_utxos(a) ==
  [op \in {o \in OutPoint : address_utxo[a][o] > 0} \ pool_spent
     |-> address_utxo[a][op]]

\* The utxos handler: a uint64_t sum without a test for overflow.
Balance(a) ==
  LET listed == get_utxos(a)
  IN  Total([op \in DOMAIN listed |-> listed[op] * OutputAt(op).amount])
        % (MaxAmount + 1)

\* Chain::get_block(height), with heights from 0, and Chain::get_block(hash),
\* which takes the first block with that hash.
get_block_at(h) == IF h >= Len(blocks) THEN NoBlock ELSE blocks[h + 1]
HeightsOf(hash) == {i \in 0..(Len(blocks) - 1) : BlockHash(blocks[i + 1]) = hash}

\* GET /api/block/<id>, for an id that is a height and for one that is a hash
\* (any other is refused before the chain is read).
Found(h, b) == [status |-> 200, height |-> h, block |-> b]
NotFound == [status |-> 404]
api_block_height(h) ==
  IF get_block_at(h) = NoBlock THEN NotFound ELSE Found(h, get_block_at(h))
api_block_hash(hash) ==
  IF HeightsOf(hash) = {} THEN NotFound
  ELSE LET h == Min(HeightsOf(hash)) IN Found(h, blocks[h + 1])

\* apply_tx of one more transaction, on a pair of utxo_ and address_utxo_.
Step(m, t) == [utxo  |-> ApplyToUtxo(m.utxo, t),
               index |-> ApplyToIndex(m.index, m.utxo, t)]

\* Its two loops: over the blocks, and over the transactions of a block.
ApplyAll(m, txs) ==
  LET after[n \in 0..Len(txs)] == IF n = 0 THEN m ELSE Step(after[n - 1], txs[n])
  IN  after[Len(txs)]
rebuild_utxo(c) ==
  LET after[h \in 0..Len(c)] == IF h = 0 THEN [utxo |-> {}, index |-> NoIndex]
                                ELSE ApplyAll(after[h - 1], c[h].txs)
  IN  after[Len(c)]

-----------------------------------------------------------------------------
(* Properties *)

\* The two ways to ask for a block agree: under the hash of the block at a
\* height /api/block answers with that block and that height, as it does under
\* the height.  No two blocks of the chain share a hash.
BlockLookup ==
  Unlocked => \A h \in 0..(Len(blocks) - 1) :
    /\ api_block_height(h).status = 200
    /\ api_block_hash(BlockHash(blocks[h + 1])) = api_block_height(h)

\* Between two calls a restart would change nothing: the vectors of the index,
\* copies included, the UTXO set, the pool and its locks are what the
\* constructor would make of the databases.
RestartIsIdentity ==
  Unlocked =>
    /\ rebuild_utxo(blocks_db) = [utxo |-> utxo, index |-> address_utxo]
    /\ pool = pool_db /\ pool_spent = UNION {SpentBy(t) : t \in pool_db}

\* The balance of an address is what the chain leaves to it and no pool
\* transaction claims, each output counted once, modulo 2^64.
BalanceExact ==
  Unlocked => \A a \in Address :
    Balance(a) =
      Value({op \in Unspent(blocks) : /\ OutputAt(op).recipient = a
                                     /\ \A t \in pool : op \notin SpentBy(t)})
        % (MaxAmount + 1)
=============================================================================

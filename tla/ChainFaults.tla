---------------------------- MODULE ChainFaults ----------------------------
(***************************************************************************)
(* Chain with LevelDB calls that fail.  A Put or Delete that returns an    *)
(* error makes add_tx or add_block throw in the middle; on_create_tx,      *)
(* on_create_block and the POST handler catch the exception and answer     *)
(* InvalidPayload, mutex_ is released by the unwinding, and the node goes  *)
(* on with the memory it has.  (In the constructor the exception reaches   *)
(* main, and the process ends: Crash.)                                     *)
(***************************************************************************)
EXTENDS Chain

CONSTANT MaxFaults  \* bound: LevelDB calls that fail

ASSUME FaultBound == MaxFaults \in Nat

VARIABLE faults

fvars == <<vars, faults>>

InitF == Init /\ faults = 0

Fail == faults < MaxFaults /\ faults' = faults + 1

\* The exception leaves add_block: blk is gone, what was applied stays.
AbortBlock == blk' = NoBlock /\ done' = 0

\* add_tx, Put fails: pool_ and pool_spent_ have been updated, pool_db_ has
\* not, and the submitter is told that the transaction was not accepted.
PutFails(st) ==
  /\ Fail
  /\ Unlocked
  /\ ValidateTx(st, utxo, pool, pool_spent) = "None"
  /\ pool' = pool \cup {st.tx}
  /\ pool_spent' = pool_spent \cup SpentBy(st.tx)
  /\ UNCHANGED <<phase, blocks, height, utxo, address_utxo, blk, done,
                 disk, acked, crashes>>

\* add_block, Delete fails: the transaction has been applied and taken out of
\* pool_ and pool_spent_, its key is still in pool_db_.
DeleteFails ==
  /\ Fail
  /\ phase = "up" /\ blk # NoBlock /\ done < Len(blk.txs)
  /\ LET t == blk.txs[done + 1]
     IN  /\ ~is_coinbase(t)
         /\ apply_tx(t)
         /\ pool_spent' = pool_spent \ SpentBy(t)
         /\ pool' = pool \ {t}
  /\ AbortBlock
  /\ UNCHANGED <<phase, blocks, height, disk, acked, crashes>>

\* add_block, the Put of store_block fails: everything has been applied.
StoreFails ==
  /\ Fail
  /\ phase = "up" /\ blk # NoBlock /\ done = Len(blk.txs)
  /\ AbortBlock
  /\ UNCHANGED <<phase, blocks, height, utxo, address_utxo, pool, pool_spent,
                 disk, acked, crashes>>

\* load_pool, the iterator runs into an error and is no longer Valid.  Unlike
\* load_blocks, load_pool does not ask for its status: what it has not reached
\* is missing from the pool and stays in pool_db_.
IterateFails ==
  /\ Fail
  /\ phase = "loading" /\ blk = NoBlock /\ Len(blocks) = Len(blocks_db)
  /\ height' = Len(blocks)
  /\ \E read \in SUBSET pool_db \ {pool_db} :
       pool' = read /\ pool_spent' = UNION {SpentBy(t) : t \in read}
  /\ phase' = IF blocks = <<>> THEN "genesis" ELSE "up"
  /\ UNCHANGED <<blocks, utxo, address_utxo, blk, done, disk, acked, crashes>>

NextF ==
  \/ Next /\ UNCHANGED faults
  \/ \E st \in Submitted : PutFails(st)
  \/ DeleteFails
  \/ StoreFails
  \/ IterateFails

SpecF == InitF /\ [][NextF]_fvars

-----------------------------------------------------------------------------
(* Properties *)

\* Whatever fails, a restart rebuilds utxo_ from the stored blocks: from
\* Start to the end of the constructor utxo_ is what they leave unspent.
RestartHeals == phase \in {"loading", "genesis"} => UtxoMatchesChain

Claimed == UNION {SpentBy(t) : t \in pool}

\* The locks of a pool without competing transactions, and of a block that
\* competes with no pool transaction it does not contain.
LocksExact == NoCompetition /\ PoolSpentExact /\ BlockFits

\* Whatever fails, no output is locked by a transaction that is not in the
\* pool.  And only load_pool can bring competing transactions in, after an
\* iteration that stopped early or a power failure: as long as the pool it has
\* loaded has none, the locks stay exact and no output is claimed twice.
LocksHeld ==
  [][/\ pool_spent' \subseteq Claimed'
     /\ phase # "loading" /\ LocksExact => LocksExact']_fvars
=============================================================================

----------------------------- MODULE Refinement -----------------------------
(***************************************************************************)
(* Chain implements AbstractLedger.  The history is the blocks database.   *)
(* A transaction is pending while its key is in the pool database, and     *)
(* while the add_block that has deleted the key has yet to store the       *)
(* block: so all of add_block is invisible but its last step.              *)
(***************************************************************************)
EXTENDS Chain

Unkeyed ==
  IF phase = "up" /\ blk # NoBlock THEN {blk.txs[i] : i \in 2..done} ELSE {}
Pending == pool_db \cup Unkeyed

Abstract == INSTANCE AbstractLedger
              WITH history <- blocks_db, pending <- Pending, accepted <- acked,
                   deaths <- crashes

\* To its clients the node is an AbstractLedger: add_block, with its deletions
\* and its store, is one step, restarts are none, and a process that dies loses
\* at most the transactions of the block it was adding.
ImplementsLedger == Abstract!Spec

-----------------------------------------------------------------------------
(* The invariant behind the refinement *)

\* A block inside add_block consists of a coinbase and pending transactions,
\* none of them a coinbase; the keys of those already applied are gone.
BlockOfPending ==
  /\ \A t \in pool_db : inputs[t] # <<>>
  /\ phase = "up" /\ blk # NoBlock =>
       /\ Len(blk.txs) \in 1..(MaxRefs + 1)
       /\ blk.txs[1] \in Coinbase
       /\ \A i \in 2..Len(blk.txs) :
            blk.txs[i] \in Pending /\ inputs[blk.txs[i]] # <<>>
       /\ \A i \in 2..done : blk.txs[i] \notin pool_db
=============================================================================

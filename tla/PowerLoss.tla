----------------------------- MODULE PowerLoss -----------------------------
(***************************************************************************)
(* ChainFaults with power failures.  Every Put and Delete is made with     *)
(* leveldb::WriteOptions(), whose sync is false: a write that was          *)
(* acknowledged is in the page cache only.  The death of the process       *)
(* leaves it there; the death of the machine loses the end of the log of   *)
(* each database, and of the one independently of the other.  Opening a    *)
(* database writes out what was recovered from its log.                    *)
(***************************************************************************)
EXTENDS ChainFaults

CONSTANT MaxPower  \* bound: power failures

ASSUME PowerBound == MaxPower \in Nat

VARIABLES
  blocks_past,  \* what the blocks database has held since it was opened
  pool_past,    \* what the pool database has held since it was opened
  outages       \* power failures so far (bound)

power == <<blocks_past, pool_past, outages>>
pvars == <<fvars, power>>

InitP ==
  /\ InitF
  /\ blocks_past = {blocks_db} /\ pool_past = {pool_db} /\ outages = 0

\* open_db, twice: what is there now is there for good.
Open == blocks_past' = {blocks_db'} /\ pool_past' = {pool_db'}

\* A step of a running process, or its death: the writes are remembered.
Write ==
  /\ blocks_past' = blocks_past \cup {blocks_db'}
  /\ pool_past' = pool_past \cup {pool_db'}

\* The machine goes down: each database comes back as it was after some
\* prefix of the writes since it was opened.
PowerFail ==
  /\ phase # "down" /\ outages < MaxPower
  /\ outages' = outages + 1
  /\ phase' = "down" /\ LoseMemory
  /\ blocks_db' \in blocks_past /\ pool_db' \in pool_past
  /\ Open
  /\ UNCHANGED <<acked, crashes, faults>>

\* Only Start leaves "down", so that step is the one that opens the databases.
NextP ==
  \/ /\ NextF
     /\ IF phase = "down" THEN Open ELSE Write
     /\ UNCHANGED outages
  \/ PowerFail

SpecP == InitP /\ [][NextP]_pvars

-----------------------------------------------------------------------------
(* Properties *)

Prefix(c, d) == Len(c) <= Len(d) /\ \A h \in 1..Len(c) : c[h] = d[h]

\* A stored block is never changed, and only a power failure removes blocks,
\* from the end: an aborted add_block leaves the key of the next block alone,
\* and a node that lost blocks builds on what is left.
HistoryOnlyCutByPower ==
  [][\/ Prefix(blocks_db, blocks_db')
     \/ outages' > outages /\ Prefix(blocks_db', blocks_db)]_pvars
=============================================================================

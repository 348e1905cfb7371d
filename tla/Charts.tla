------------------------------- MODULE Charts -------------------------------
(***************************************************************************)
(* /api/charts.  The handler reads height() once and then the blocks below *)
(* it one by one; blocks are never changed (HistoryImmutable), so it sees  *)
(* one prefix c of the chain whatever is mined meanwhile.  Each section    *)
(* reads the clock for itself.  A member of c stands for a block: its      *)
(* timestamp, which the miner chose, its number of transactions and its    *)
(* block_serialized_size.                                                  *)
(***************************************************************************)
EXTENDS Sums

CONSTANTS
  kHour,      \* seconds of an hour, scaled down
  Slots,      \* hours shown: 24, scaled down
  Recent,     \* blocks of txPerBlock: 20, scaled down
  TpsBlocks,  \* blocks of total_tx: 10, scaled down
  U64         \* 2^64, scaled down

ASSUME ChartsAssumption ==
  /\ kHour \in Nat \ {0} /\ Slots \in Nat \ {0} /\ U64 \in Nat \ {0}
  /\ Recent \in Nat /\ TpsBlocks \in Nat

\* uint64_t subtraction.
Minus(a, b) == (a - b) % U64

Hour(ts) == ts - (ts % kHour)
Oldest(now) == Minus(Hour(now), (Slots - 1) * kHour)

\* The slots shown.
SlotsAt(now) == {s \in Oldest(now)..Hour(now) : (s - Oldest(now)) % kHour = 0}

\* Mutant: the clock, not the hour, bounds the window.
InWindowFromNow(b, now) == b.timestamp > Minus(now, (Slots - 1) * kHour)
\* Whether a block is put into a bucket: the oldest slot is left out.
InWindow(b, now) == Hour(b.timestamp) > Oldest(now)

Bucket(c, now, s) ==
  {h \in 1..Len(c) : InWindow(c[h], now) /\ Hour(c[h].timestamp) = s}

blocksOverTime(c, now) == [s \in SlotsAt(now) |-> Cardinality(Bucket(c, now, s))]

avgBlockSize(c, now) ==
  [s \in SlotsAt(now) |->
     LET b == Bucket(c, now, s)
     IN  IF b = {} THEN 0
         ELSE Total([h \in b |-> c[h].size]) \div Cardinality(b)]

\* Mutant: the age of a block of the future is taken for zero.
TooOldSaturated(b, now, secs) ==
  (IF b.timestamp > now THEN 0 ELSE now - b.timestamp) > secs
\* The age of a block is unsigned: a block of the future is very old.
TooOld(b, now, secs) == Minus(now, b.timestamp) > secs

\* networkActivity: transactions from the tip down to the first block that is
\* older than secs.
recent_tx(c, now, secs) ==
  LET old == {h \in 1..Len(c) : TooOld(c[h], now, secs)}
  IN  Total([h \in (Max(old \cup {0}) + 1)..Len(c) |-> c[h].txs])

\* networkActivity also adds up the last TpsBlocks blocks, and leaves it at that:
\* the sum goes into no answer.
total_tx(c) ==
  Total([h \in (Max({Len(c) - TpsBlocks, 0}) + 1)..Len(c) |-> c[h].txs])

\* txPerBlock: the last blocks with their ages (which are shown in seconds,
\* minutes or hours).
txPerBlock(c, now) ==
  [h \in (Max({Len(c) - Recent, 0}) + 1)..Len(c) |->
     [height |-> h - 1, txs |-> c[h].txs, age |-> Minus(now, c[h].timestamp)]]
=============================================================================

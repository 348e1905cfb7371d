-------------------------------- MODULE Pure --------------------------------
(***************************************************************************)
(* The pure parts of the node.  A behaviour picks one case from the given  *)
(* inputs; the invariants say what the functions return for it.            *)
(***************************************************************************)
EXTENDS Hashing, Codec, Charts

CONSTANTS
  Txids,     \* txids, as the Merkle tree sees them
  Leaves,    \* lists of txids
  Txs,       \* transactions that are stored or submitted
  Sigs,      \* signatures of submissions
  Blocks,    \* blocks that are stored
  Messages,  \* CreateBlock messages
  Chains,    \* chains that are charted
  Clock,     \* times at which they are; it is read more than once per answer
  Windows    \* windows of networkActivity: 60, 300 and 3600, scaled down

VARIABLE case

Words(n) == [1..Field(n) -> Nat]
TxInput == [txid : Words("hash"), index : Nat]
TxOutput == [recipient : Words("addr"), amount : Words("u64")]
Transaction == [txid : Words("hash"), timestamp : Words("u64"),
                inputs : Seq(TxInput), outputs : Seq(TxOutput)]
BlockHeader == [prev_hash : Words("hash"), merkle_root : Words("hash"),
                timestamp : Words("u64"), nonce : Words("u64")]
Block == [header : BlockHeader, transactions : Seq(Transaction)]
Message == [header : BlockHeader, address : Words("addr"), reward : Words("u64"),
            timestamp : Words("u64"), refs : Seq(Words("hash"))]
\* The miner chooses the timestamps: they may go back, or lie in the future.
ChartBlock == [timestamp : 0..(U64 - 1), txs : Nat, size : Nat]

ASSUME LeavesAssumption ==
  Leaves \subseteq Seq(Txids) /\ \A t \in Txids : Len(t) = 1
ASSUME EncodingAssumption ==
  /\ Txs \subseteq Transaction /\ Sigs \subseteq Words("sig")
  /\ Blocks \subseteq Block /\ Messages \subseteq Message
\* The clock is past the first hours of 1970.
ASSUME ClockAssumption ==
  /\ Chains \subseteq Seq(ChartBlock) /\ Windows \subseteq Nat
  /\ \A now \in Clock : /\ now \in (Slots * kHour)..(U64 - 1)
                         /\ \A secs \in Windows : secs <= now

Cases ==
  {[kind |-> "leaves", s |-> s] : s \in Leaves}
    \cup {[kind |-> "digest", h |-> h] : h \in [1..HashSize -> 0..MaxByte]}
    \cup {[kind |-> "tx", t |-> t, sig |-> sig] : t \in Txs, sig \in Sigs}
    \cup {[kind |-> "block", b |-> b] : b \in Blocks}
    \cup {[kind |-> "message", m |-> m] : m \in Messages}
    \cup {[kind |-> "key", n |-> n] : n \in 0..MaxHeight}
    \cup {[kind |-> "chart", c |-> c, now |-> t[1], later |-> t[2]] :
             c \in Chains, t \in {u \in Clock \X Clock : u[1] <= u[2]}}

Init == case = [kind |-> "none"]
Pick == case.kind = "none" /\ case' \in Cases
Next == Pick
Spec == Init /\ [][Next]_case

-----------------------------------------------------------------------------
(* Merkle root and proof of work *)

\* The loop of compute_merkle_root builds the binary tree over the txids.
MerkleIsTree ==
  case.kind = "leaves" => compute_merkle_root(case.s) = Tree(case.s)

SamePrefix(s, t) == \A i \in 1..Min({Len(s), Len(t)}) : s[i] = t[i]
Members(s) == {s[i] : i \in DOMAIN s}

Rooted == {[s |-> s, root |-> compute_merkle_root(s)] : s \in Leaves}

\* A Merkle root determines the list of txids but for repetitions at its end:
\* of two lists with one root, one is a prefix of the other and both have the
\* same txids.  (<<a, b, c>> and <<a, b, c, c>> do have one root.)
MerkleCommits ==
  case.kind = "leaves" =>
    LET root == compute_merkle_root(case.s)
    IN  \A r \in Rooted : r.root = root =>
          SamePrefix(r.s, case.s) /\ Members(r.s) = Members(case.s)

\* The comparison of a block hash with the target is the rule of the
\* documentation and of verify_block_header: difficulty_ leading zero bytes.
WorkIsLeadingZeros ==
  case.kind = "digest" => (~HashTooHigh(case.h) <=> LeadingZeros(case.h))

-----------------------------------------------------------------------------
(* Encodings *)

Written(r, fields) == r.ok /\ \A f \in DOMAIN fields : r[f] = fields[f]

\* Whatever is written is read back: stored transactions and blocks, the
\* messages of wallets and miners, over TCP and over HTTP.  (A submission has
\* its public key where a stored transaction has its txid.)
RoundTrip ==
  /\ case.kind = "tx" =>
       LET d   == SubmitMessage(case.t.txid, case.t, case.sig)
           got == [body |-> case.t, sig |-> case.sig]
       IN  /\ TxOf(LoadPoolValue(SerializeTx(case.t))) = case.t
           /\ Written(parse_create_tx_payload(d), got)
           /\ Written(parse_signed_transaction_payload(d), got)
  /\ case.kind = "block" => Written(LoadBlockValue(SerializeBlock(case.b)), case.b)
  /\ case.kind = "message" =>
       Written(parse_create_block_payload(BlockMessage(case.m)), case.m)

Cut(d) == {SubSeq(d, 1, n) : n \in 0..(Len(d) - 1)}

\* Only a whole value is accepted.  One that is cut short anywhere, inside a
\* field, between two inputs or before the last transaction, is refused: counts
\* and sizes never make a prefix look complete.  One with bytes left over is
\* refused by load_blocks and over HTTP; over TCP it is read as if they were
\* not there, and otherwise the two parsers of a submission agree.
OnlyWholeValues ==
  /\ case.kind = "tx" =>
       LET d == SubmitMessage(case.t.txid, case.t, case.sig)
       IN  /\ \A e \in Cut(SerializeTx(case.t)) : ~LoadPoolValue(e).ok
           /\ \A e \in Cut(d) : ~parse_create_tx_payload(e).ok
           /\ ~parse_signed_transaction_payload(Append(d, 0)).ok
           /\ parse_create_tx_payload(Append(d, 0)) = parse_signed_transaction_payload(d)
  /\ case.kind = "block" =>
       LET d == SerializeBlock(case.b)
       IN  \A e \in Cut(d) \cup {Append(d, 0)} : ~LoadBlockValue(e).ok
  /\ case.kind = "message" =>
       \A e \in Cut(BlockMessage(case.m)) : ~parse_create_block_payload(e).ok

\* The sizes of the HTTP answers and of the charts, computed from constants of
\* web.cpp, are the sizes of the serialized values.
SizesExact ==
  /\ case.kind = "tx" => TxSize(case.t) = 4 * Len(SerializeTx(case.t))
  /\ case.kind = "block" =>
       block_serialized_size(case.b) = 4 * Len(SerializeBlock(case.b))

Contents(t) == <<t.timestamp, t.inputs, t.outputs>>
Hashed == {[t |-> t, preimage |-> TxidPreimage(t)] : t \in Txs}

\* A txid determines the contents of a transaction, but for the border between
\* inputs and outputs: of two transactions with one preimage and different
\* contents, one has 7 inputs (or a multiple) more and 9 outputs fewer.
TxidCommits ==
  case.kind = "tx" =>
    LET preimage == TxidPreimage(case.t)
    IN  \A r \in Hashed : r.preimage = preimage =>
          LET more  == Len(r.t.inputs) - Len(case.t.inputs)
              fewer == Len(case.t.outputs) - Len(r.t.outputs)
          IN  Contents(r.t) = Contents(case.t) \/ (more # 0 /\ 9 * more = 7 * fewer)

LexLess(a, b) ==
  \/ \E i \in 1..Min({Len(a), Len(b)}) : a[i] < b[i] /\ \A j \in 1..(i - 1) : a[j] = b[j]
  \/ Len(a) < Len(b) /\ \A i \in 1..Len(a) : a[i] = b[i]

\* LevelDB iterates over the blocks in the order of their heights.
KeysInOrder ==
  case.kind = "key" =>
    \A m \in 0..MaxHeight : LexLess(block_key(m), block_key(case.n)) <=> m < case.n

-----------------------------------------------------------------------------
(* Charts *)

During(c, s) == {h \in 1..Len(c) : c[h].timestamp \in s..(s + kHour - 1)}

\* avg is the average size of the blocks hs of c, rounded down; 0 if there are none.
Averages(avg, c, hs) ==
  LET all == Total([h \in hs |-> c[h].size])
  IN  /\ avg * Cardinality(hs) <= all
      /\ hs # {} => all < (avg + 1) * Cardinality(hs)

\* What may stand in a slot: the blocks of its hour.  Of the oldest slot it is
\* left open whether it shows them.
MayShow(c, now, s) ==
  {During(c, s)} \cup (IF s = Oldest(now) THEN {{}} ELSE {})

\* The hourly charts, each at the time it reads from the clock: an hour counts
\* its blocks and averages their sizes, also when timestamps go back or lie in
\* the future, and no hour is shown in part.
ChartHours ==
  case.kind = "chart" =>
    /\ \A s \in SlotsAt(case.now) : \E hs \in MayShow(case.c, case.now, s) :
         blocksOverTime(case.c, case.now)[s] = Cardinality(hs)
    /\ \A s \in SlotsAt(case.later) : \E hs \in MayShow(case.c, case.later, s) :
         Averages(avgBlockSize(case.c, case.later)[s], case.c, hs)

\* What the comment on blocksOverTime says: blocks are grouped by hour for all the
\* slots.  The code leaves the oldest one empty.
AllHoursShown ==
  case.kind = "chart" =>
    \A s \in SlotsAt(case.now) :
      blocksOverTime(case.c, case.now)[s] = Cardinality(During(case.c, s))

\* networkActivity and txPerBlock read the clock for themselves.  The activity of
\* a window is never overstated: only transactions of blocks whose age is within
\* the window are counted.  It is exact if timestamps increase along the chain
\* and none is in the future.  And unless a timestamp is ahead of the clock, it
\* counts nothing that txPerBlock, of a chain it shows whole, gives as too old.
ActivityBounded ==
  case.kind = "chart" => \A secs \in Windows :
    LET c == case.c
        activity == recent_tx(c, case.later, secs)
        young == {h \in 1..Len(c) : case.later - c[h].timestamp \in 0..secs}
        all == Total([h \in young |-> c[h].txs])
        rows == txPerBlock(c, case.now)
        shown == {h \in DOMAIN rows : rows[h].age <= secs}
        past(t) == \A h \in 1..Len(c) : c[h].timestamp <= t
        ordered == \A h \in 1..(Len(c) - 1) : c[h].timestamp <= c[h + 1].timestamp
    IN  /\ activity <= all
        /\ ordered /\ past(case.later) => activity = all
        /\ Len(c) <= Recent /\ past(case.now) =>
             activity <= Total([h \in shown |-> rows[h].txs])

\* What the comment on networkActivity says: it is made of the last blocks.  The
\* code goes back as far as the window does.
ActivityOfLastBlocks ==
  case.kind = "chart" =>
    \A secs \in Windows : recent_tx(case.c, case.later, secs) <= total_tx(case.c)

\* What the comments of /api/charts say of blocksOverTime and networkActivity:
\* the one groups the blocks of every slot it shows, the other is made of the
\* last blocks.
ChartsAsCommented == AllHoursShown /\ ActivityOfLastBlocks
=============================================================================

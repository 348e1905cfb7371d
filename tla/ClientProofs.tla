---------------------------- MODULE ClientProofs ----------------------------
(***************************************************************************)
(* Proofs about Chain under what it does not check itself.  When no miner  *)
(* repeats a coinbase or lists a txid twice in a block, CarefulInv is      *)
(* inductive relative to IInv and no transaction is applied twice.  When   *)
(* no wallet lists an input twice, ValueInv is, and no money is created.   *)
(***************************************************************************)
EXTENDS ChainProofs, SumProofs

-----------------------------------------------------------------------------
(* What careful miners add to IInv *)

\* The transaction at a position stands at no other one, and what it spends was
\* created by transactions that stand before it.
StandsOnce(c, k, j) ==
  \A h \in 1..Len(c) : \A i \in 1..Len(c[h].txs) :
    c[h].txs[i] = c[k].txs[j] => h = k /\ i = j
CreatedBefore(c, k, j, op) ==
  \E h \in 1..k : \E i \in 1..Len(c[h].txs) :
    (h < k \/ i < j) /\ c[h].txs[i] = op.txid
Ordered(c) ==
  \A k \in 1..Len(c) : \A j \in 1..Len(c[k].txs) :
    /\ StandsOnce(c, k, j)
    /\ \A op \in SpentBy(c[k].txs[j]) : CreatedBefore(c, k, j, op)

\* A block inside add_block begins with a new coinbase and goes on with pool
\* transactions, each of which is in the pool until it is applied.
FreshBlock ==
  phase = "up" /\ blk # NoBlock =>
    /\ Len(blk.txs) >= 1 /\ is_coinbase(blk.txs[1])
    /\ done = 0 => blk.txs[1] \notin TxsOf(blocks)
    /\ \A i, j \in 1..Len(blk.txs) : blk.txs[i] = blk.txs[j] => i = j
    /\ \A i \in (done + 1)..Len(blk.txs) : i # 1 => blk.txs[i] \in pool

\* No vector of the index holds an outpoint twice.
ListedOnce == \A a \in Address, op \in OutPoint : address_utxo[a][op] <= 1

\* With IInv, what makes every step of a node with careful miners apply a
\* transaction that has not been applied before.
CarefulInv ==
  /\ \A t \in pool_db : ~is_coinbase(t)
  /\ Ordered(blocks_db)
  /\ phase = "up" => Ordered(AppliedChain)
  /\ FreshBlock /\ ListedOnce

-----------------------------------------------------------------------------
(* Ordered chains *)

\* The transactions of a block are counted by a natural number.
LEMMA LenTxs ==
  ASSUME NEW c \in Seq(Block)
  PROVE  /\ Len(c) \in Nat
         /\ \A h \in 1..Len(c) : Len(c[h].txs) \in Nat
         /\ \A h \in 1..Len(c) : \A i \in 1..Len(c[h].txs) : c[h].txs[i] \in Tx
<1>1. \A h \in 1..Len(c) : c[h] \in Block
  OBVIOUS
<1> QED BY <1>1 DEF Block

\* An unspent output of an ordered chain is spent nowhere in it: its creator
\* stands at one position, and whoever spends it stands behind.
LEMMA OrderedUnspent ==
  ASSUME NEW c \in Seq(Block), Ordered(c), NEW op \in Unspent(c),
         NEW h \in 1..Len(c), NEW i \in 1..Len(c[h].txs)
  PROVE  op \notin SpentBy(c[h].txs[i])
<1>0. PICK p \in 1..Len(c) : \E q \in 1..Len(c[p].txs) : LiveFrom(c, op, p, q)
  BY DEF Unspent
<1>1. PICK q \in 1..Len(c[p].txs) : LiveFrom(c, op, p, q)
  BY <1>0
<1>2. op.txid = c[p].txs[q]
  BY <1>1 DEF LiveFrom, CreatedBy
<1> SUFFICES ASSUME op \in SpentBy(c[h].txs[i]) PROVE FALSE
  OBVIOUS
<1>3. CreatedBefore(c, h, i, op) /\ StandsOnce(c, p, q)
  BY DEF Ordered
<1>4. PICK r \in 1..h : \E s \in 1..Len(c[r].txs) :
        (r < h \/ s < i) /\ c[r].txs[s] = op.txid
  BY <1>3 DEF CreatedBefore
<1>5. PICK s \in 1..Len(c[r].txs) : (r < h \/ s < i) /\ c[r].txs[s] = op.txid
  BY <1>4
<1>6. r \in 1..Len(c)
  BY LenTxs
<1>7. r = p /\ s = q
  BY <1>3, <1>2, <1>5, <1>6 DEF StandsOnce
<1>8. h \in p..Len(c) /\ (h > p \/ i > q)
  BY <1>5, <1>7, LenTxs
<1> QED BY <1>1, <1>8 DEF LiveFrom

\* The creator of an unspent output is on the chain.
LEMMA UnspentOnChain ==
  ASSUME NEW c, NEW op \in Unspent(c) PROVE op.txid \in TxsOf(c)
<1>0. PICK p \in 1..Len(c) : \E q \in 1..Len(c[p].txs) : LiveFrom(c, op, p, q)
  BY DEF Unspent
<1>1. PICK q \in 1..Len(c[p].txs) : LiveFrom(c, op, p, q)
  BY <1>0
<1>2. op.txid = c[p].txs[q]
  BY <1>1 DEF LiveFrom, CreatedBy
<1> QED BY <1>2 DEF TxsOf

\* A transaction whose inputs are all unspent is not on the chain yet.
LEMMA SpendableIsNew ==
  ASSUME NEW c \in Seq(Block), Ordered(c), NEW t \in Tx, ~is_coinbase(t),
         SpentBy(t) \subseteq Unspent(c)
  PROVE  t \notin TxsOf(c)
<1>1. inputs[t] \in Seq(OutPoint) /\ inputs[t] # <<>>
  BY TxAssumption DEF is_coinbase
<1>2. 1 \in 1..Len(inputs[t])
  BY <1>1
<1>3. PICK op : op \in SpentBy(t)
  BY <1>2 DEF SpentBy
<1>4. op \in Unspent(c)
  BY <1>3
<1> SUFFICES ASSUME t \in TxsOf(c) PROVE FALSE
  OBVIOUS
<1>5. PICK h \in 1..Len(c) : \E i \in 1..Len(c[h].txs) : c[h].txs[i] = t
  BY DEF TxsOf
<1>6. PICK i \in 1..Len(c[h].txs) : c[h].txs[i] = t
  BY <1>5
<1> QED BY <1>3, <1>4, <1>6, OrderedUnspent

\* Cutting an ordered chain off after any transaction leaves it ordered.
LEMMA OrderedPrefix ==
  ASSUME NEW c \in Seq(Block), NEW d \in Seq(Block), Ordered(d),
         Len(c) <= Len(d),
         \A h \in 1..Len(c) : Len(c[h].txs) <= Len(d[h].txs),
         \A h \in 1..Len(c) : h < Len(c) => Len(c[h].txs) = Len(d[h].txs),
         \A h \in 1..Len(c) : \A i \in 1..Len(c[h].txs) : c[h].txs[i] = d[h].txs[i]
  PROVE  Ordered(c)
<1> SUFFICES ASSUME NEW k \in 1..Len(c), NEW j \in 1..Len(c[k].txs)
             PROVE  /\ StandsOnce(c, k, j)
                    /\ \A op \in SpentBy(c[k].txs[j]) : CreatedBefore(c, k, j, op)
  BY DEF Ordered
<1>1. \A h \in 1..Len(c) : \A i \in 1..Len(c[h].txs) :
        h \in 1..Len(d) /\ i \in 1..Len(d[h].txs)
  BY LenTxs
<1>2. k \in 1..Len(d) /\ j \in 1..Len(d[k].txs) /\ c[k].txs[j] = d[k].txs[j]
  BY <1>1
<1>3. /\ StandsOnce(d, k, j)
      /\ \A op \in SpentBy(d[k].txs[j]) : CreatedBefore(d, k, j, op)
  BY <1>2 DEF Ordered
<1>4. StandsOnce(c, k, j)
  BY <1>1, <1>2, <1>3 DEF StandsOnce
<1>5. ASSUME NEW op \in SpentBy(c[k].txs[j]) PROVE CreatedBefore(c, k, j, op)
  <2>0. CreatedBefore(d, k, j, op)
    BY <1>2, <1>5, <1>3
  <2>1. PICK h \in 1..k : \E i \in 1..Len(d[h].txs) :
          (h < k \/ i < j) /\ d[h].txs[i] = op.txid
    BY <2>0 DEF CreatedBefore
  <2>2. PICK i \in 1..Len(d[h].txs) : (h < k \/ i < j) /\ d[h].txs[i] = op.txid
    BY <2>1
  <2>3. h \in 1..Len(c) /\ Len(c[h].txs) \in Nat /\ Len(d[h].txs) \in Nat
    BY LenTxs
  <2>4. i \in 1..Len(c[h].txs)
    <3>1. CASE h < k
      <4>1. h < Len(c)
        BY <2>3, <3>1, LenTxs
      <4> QED BY <2>3, <4>1
    <3>2. CASE ~(h < k)
      <4>1. h = k /\ i < j
        BY <2>2, <3>2
      <4> QED BY <2>3, <4>1
    <3> QED BY <3>1, <3>2
  <2> QED BY <2>2, <2>3, <2>4 DEF CreatedBefore
<1> QED BY <1>4, <1>5

\* A block of which nothing has been applied adds no position.
LEMMA OrderedStart ==
  ASSUME NEW c \in Seq(Block), NEW b \in Block, Ordered(c)
  PROVE  Ordered(Applied(c, b, 0))
<1> DEFINE d == Applied(c, b, 0)
<1>0. 0 \in 0..Len(b.txs)
  BY DEF Block
<1>1. /\ Len(d) = Len(c) + 1
      /\ \A k \in 1..Len(c) : d[k] = c[k]
      /\ Len(d[Len(c) + 1].txs) = 0
  BY <1>0, AppliedFacts
<1> HIDE DEF d
<1>2. \A k \in 1..Len(d) : \A j \in 1..Len(d[k].txs) : k \in 1..Len(c) /\ d[k] = c[k]
  BY <1>1, LenTxs
<1>3. \A k \in 1..Len(c) : \A h \in 1..k : h \in 1..Len(c) /\ d[h] = c[h]
  BY <1>1, LenTxs
<1>4. ASSUME NEW k \in 1..Len(d), NEW j \in 1..Len(d[k].txs)
      PROVE  /\ StandsOnce(d, k, j)
             /\ \A op \in SpentBy(d[k].txs[j]) : CreatedBefore(d, k, j, op)
  <2>1. k \in 1..Len(c) /\ d[k] = c[k] /\ j \in 1..Len(c[k].txs)
    BY <1>2
  <2>2. /\ StandsOnce(c, k, j)
        /\ \A op \in SpentBy(c[k].txs[j]) : CreatedBefore(c, k, j, op)
    BY <2>1 DEF Ordered
  <2>3. StandsOnce(d, k, j)
    BY <1>2, <2>1, <2>2 DEF StandsOnce
  <2>4. ASSUME NEW op \in SpentBy(d[k].txs[j]) PROVE CreatedBefore(d, k, j, op)
    BY <1>3, <2>1, <2>2, <2>4 DEF CreatedBefore
  <2> QED BY <2>3, <2>4
<1> QED BY <1>4 DEF Ordered, d

\* Applying a new transaction behind the creators of its inputs keeps the chain
\* ordered.
LEMMA OrderedStep ==
  ASSUME NEW c \in Seq(Block), NEW b \in Block, NEW n \in Nat, n < Len(b.txs),
         Ordered(Applied(c, b, n)),
         b.txs[n + 1] \notin TxsOf(Applied(c, b, n)),
         \A op \in SpentBy(b.txs[n + 1]) : op.txid \in TxsOf(Applied(c, b, n))
  PROVE  Ordered(Applied(c, b, n + 1))
<1> DEFINE d == Applied(c, b, n)
           e == Applied(c, b, n + 1)
           L == Len(c) + 1
           t == b.txs[n + 1]
<1>1. OneMore(d, e, L, n + 1, t)
  BY AppliedNext
<1>2. /\ Ordered(d) /\ t \notin TxsOf(d)
      /\ \A op \in SpentBy(t) : op.txid \in TxsOf(d)
  OBVIOUS
<1> HIDE DEF d, e, L, t
<1>3. /\ L \in Nat /\ Len(d) = L /\ Len(e) = L
  BY <1>1 DEF OneMore
<1>4. e[L].txs[n + 1] = t /\ L \in 1..L /\ n + 1 \in 1..Len(e[L].txs)
  BY <1>1 DEF OneMore
<1>5. \A h \in 1..L : \A i \in 1..Len(e[h].txs) :
        \/ h = L /\ i = n + 1
        \/ i \in 1..Len(d[h].txs) /\ e[h].txs[i] = d[h].txs[i]
  BY <1>1, Zenon DEF OneMore
<1>6. \A h \in 1..L : \A i \in 1..Len(d[h].txs) :
        /\ i \in 1..Len(e[h].txs) /\ e[h].txs[i] = d[h].txs[i]
        /\ h < L \/ i < n + 1
  BY <1>1, Zenon DEF OneMore
<1>7. \A h \in 1..L : \A i \in 1..Len(d[h].txs) : d[h].txs[i] # t
  BY <1>3, <1>2 DEF TxsOf
<1>8. ASSUME NEW k \in 1..L, NEW j \in 1..Len(e[k].txs)
      PROVE  /\ StandsOnce(e, k, j)
             /\ \A op \in SpentBy(e[k].txs[j]) : CreatedBefore(e, k, j, op)
  <2>1. CASE k = L /\ j = n + 1
    <3>1. StandsOnce(e, k, j)
      <4> SUFFICES ASSUME NEW h \in 1..L, NEW i \in 1..Len(e[h].txs),
                          e[h].txs[i] = t
                   PROVE  h = L /\ i = n + 1
        BY <1>3, <1>4, <2>1 DEF StandsOnce
      <4> QED BY <1>5, <1>7
    <3>2. ASSUME NEW op \in SpentBy(e[k].txs[j]) PROVE CreatedBefore(e, k, j, op)
      <4>1. op.txid \in TxsOf(d)
        BY <1>2, <1>4, <2>1, <3>2
      <4>2. PICK h \in 1..L : \E i \in 1..Len(d[h].txs) : d[h].txs[i] = op.txid
        BY <1>3, <4>1 DEF TxsOf
      <4> QED BY <1>6, <2>1, <4>2 DEF CreatedBefore
    <3> QED BY <3>1, <3>2
  <2>2. CASE ~(k = L /\ j = n + 1)
    <3>1. j \in 1..Len(d[k].txs) /\ e[k].txs[j] = d[k].txs[j]
      BY <1>5, <2>2
    <3>2. /\ StandsOnce(d, k, j)
          /\ \A op \in SpentBy(d[k].txs[j]) : CreatedBefore(d, k, j, op)
      BY <1>3, <1>2, <3>1 DEF Ordered
    <3>3. StandsOnce(e, k, j)
      <4> SUFFICES ASSUME NEW h \in 1..L, NEW i \in 1..Len(e[h].txs),
                          e[h].txs[i] = e[k].txs[j]
                   PROVE  h = k /\ i = j
        BY <1>3 DEF StandsOnce
      <4>1. ~(h = L /\ i = n + 1)
        BY <1>4, <1>7, <3>1
      <4>2. i \in 1..Len(d[h].txs) /\ e[h].txs[i] = d[h].txs[i]
        BY <1>5, <4>1
      <4> QED BY <1>3, <3>1, <3>2, <4>2 DEF StandsOnce
    <3>4. ASSUME NEW op \in SpentBy(e[k].txs[j]) PROVE CreatedBefore(e, k, j, op)
      <4>1. CreatedBefore(d, k, j, op)
        BY <3>1, <3>2, <3>4
      <4>2. PICK h \in 1..k : \E i \in 1..Len(d[h].txs) :
              (h < k \/ i < j) /\ d[h].txs[i] = op.txid
        BY <4>1 DEF CreatedBefore
      <4>3. h \in 1..L
        BY <1>3
      <4> QED BY <1>6, <4>2, <4>3 DEF CreatedBefore
    <3> QED BY <3>3, <3>4
  <2> QED BY <2>1, <2>2
<1> QED BY <1>3, <1>8 DEF Ordered, e, L

\* The transaction applied last stands nowhere else in an ordered chain.
LEMMA LastIsNew ==
  ASSUME NEW d, NEW e, NEW L, NEW n, NEW t, OneMore(d, e, L, n, t), Ordered(e)
  PROVE  t \notin TxsOf(d)
<1>1. /\ Len(d) = L /\ Len(e) = L /\ L \in 1..L /\ n \in 1..Len(e[L].txs)
      /\ e[L].txs[n] = t /\ L \in Nat /\ Len(e[L].txs) = n
      /\ d \in Seq(Block)
  BY DEF OneMore
<1>2. StandsOnce(e, L, n)
  BY <1>1 DEF Ordered
<1> SUFFICES ASSUME t \in TxsOf(d) PROVE FALSE
  OBVIOUS
<1>3. PICK h \in 1..L : \E i \in 1..Len(d[h].txs) : d[h].txs[i] = t
  BY <1>1 DEF TxsOf
<1>4. PICK i \in 1..Len(d[h].txs) : d[h].txs[i] = t
  BY <1>3
<1>5. /\ i \in 1..Len(e[h].txs) /\ e[h].txs[i] = t /\ (h < L \/ i < n)
  BY <1>4 DEF OneMore
<1>6. h = L /\ i = n
  BY <1>1, <1>2, <1>5 DEF StandsOnce
<1> QED BY <1>1, <1>5, <1>6

\* What load_blocks has applied of an ordered database is ordered.
LEMMA LoadedOrdered ==
  ASSUME NEW db \in Seq(Block), Ordered(db), NEW c \in Seq(Block),
         Len(c) <= Len(db), \A h \in 1..Len(c) : c[h] = db[h]
  PROVE  Ordered(c)
<1>1. \A h \in 1..Len(c) : Len(c[h].txs) <= Len(db[h].txs)
  BY LenTxs
<1> QED BY <1>1, OrderedPrefix

\* Likewise with the first n transactions of the next block.
LEMMA PartlyLoadedOrdered ==
  ASSUME NEW db \in Seq(Block), Ordered(db), NEW c \in Seq(Block),
         Len(c) < Len(db), \A h \in 1..Len(c) : c[h] = db[h],
         NEW b \in Block, b = db[Len(c) + 1], NEW n \in 0..Len(b.txs)
  PROVE  Ordered(Applied(c, b, n))
<1> DEFINE d == Applied(c, b, n)
           L == Len(c) + 1
<1>1. /\ d \in Seq(Block) /\ Len(d) = L
      /\ \A h \in 1..Len(c) : d[h] = c[h]
      /\ Len(d[L].txs) = n
      /\ \A i \in 1..n : d[L].txs[i] = b.txs[i]
  BY AppliedFacts, ZenonT(60)
<1>2. /\ L \in Nat /\ Len(db) \in Nat /\ Len(c) \in Nat /\ Len(b.txs) \in Nat
      /\ L <= Len(db) /\ n <= Len(b.txs)
  BY DEF Block
<1>3. \A h \in 1..L : (h < L /\ h \in 1..Len(c) /\ d[h] = db[h]) \/ h = L
  BY <1>1, <1>2
<1>4. \A h \in 1..L : Len(db[h].txs) \in Nat
  BY <1>2, LenTxs
<1> HIDE DEF d, L
<1>5. \A h \in 1..L : Len(d[h].txs) <= Len(db[h].txs)
  <2> SUFFICES ASSUME NEW h \in 1..L PROVE Len(d[h].txs) <= Len(db[h].txs)
    OBVIOUS
  <2>1. CASE h = L
    BY <1>1, <1>2, <2>1 DEF L
  <2>2. CASE d[h] = db[h]
    BY <1>4, <2>2
  <2> QED BY <1>3, <2>1, <2>2
<1>6. \A h \in 1..L : h < L => Len(d[h].txs) = Len(db[h].txs)
  BY <1>2, <1>3
<1>7. \A h \in 1..L : \A i \in 1..Len(d[h].txs) : d[h].txs[i] = db[h].txs[i]
  <2> SUFFICES ASSUME NEW h \in 1..L, NEW i \in 1..Len(d[h].txs)
               PROVE  d[h].txs[i] = db[h].txs[i]
    OBVIOUS
  <2>1. CASE h = L
    BY <1>1, <2>1 DEF L
  <2> QED BY <1>3, <2>1
<1>8. Ordered(d)
  BY <1>1, <1>2, <1>5, <1>6, <1>7, OrderedPrefix
<1> QED BY <1>8 DEF d

\* A block of which nothing has been applied adds no transaction.
LEMMA TxsOfStart ==
  ASSUME NEW c \in Seq(Block), NEW b \in Block
  PROVE  TxsOf(Applied(c, b, 0)) \subseteq TxsOf(c)
<1> DEFINE d == Applied(c, b, 0)
<1>0. 0 \in 0..Len(b.txs)
  BY DEF Block
<1>1. /\ Len(d) = Len(c) + 1
      /\ \A k \in 1..Len(c) : d[k] = c[k]
      /\ Len(d[Len(c) + 1].txs) = 0
  BY <1>0, AppliedFacts
<1> HIDE DEF d
<1>2. \A k \in 1..Len(d) : \A j \in 1..Len(d[k].txs) : k \in 1..Len(c) /\ d[k] = c[k]
  BY <1>1, LenTxs
<1>3. ASSUME NEW t \in TxsOf(d) PROVE t \in TxsOf(c)
  <2>1. PICK h \in 1..Len(d) : \E i \in 1..Len(d[h].txs) : d[h].txs[i] = t
    BY <1>3 DEF TxsOf
  <2>2. PICK i \in 1..Len(d[h].txs) : d[h].txs[i] = t
    BY <2>1
  <2>3. h \in 1..Len(c) /\ d[h] = c[h]
    BY <1>2, <2>2
  <2> QED BY <2>2, <2>3 DEF TxsOf
<1> QED BY <1>3 DEF d

\* The genesis block alone is ordered.
LEMMA GenesisOrdered == Ordered(<<GenesisBlock>>)
<1> DEFINE G == GenesisBlock
<1>1. <<>> \in Seq(Block) /\ G \in Block /\ Len(G.txs) = 1 /\ G.txs[0 + 1] = Genesis
  BY GenesisType
<1>2. Ordered(<<>>)
  BY DEF Ordered
<1>3. Ordered(Applied(<<>>, G, 0)) /\ TxsOf(Applied(<<>>, G, 0)) \subseteq TxsOf(<<>>)
  BY <1>1, <1>2, OrderedStart, TxsOfStart
<1>4. TxsOf(<<>>) = {}
  <2>1. 1..Len(<<>>) = {}
    OBVIOUS
  <2> QED BY <2>1, Zenon DEF TxsOf
<1>5. SpentBy(Genesis) = {}
  <2>1. inputs[Genesis] = <<>>
    BY CoinbaseAssumption
  <2> QED BY <2>1 DEF SpentBy
<1>6. Ordered(Applied(<<>>, G, 0 + 1))
  <2>1. /\ G.txs[0 + 1] \notin TxsOf(Applied(<<>>, G, 0))
        /\ \A op \in SpentBy(G.txs[0 + 1]) : op.txid \in TxsOf(Applied(<<>>, G, 0))
    BY <1>1, <1>3, <1>4, <1>5
  <2>2. 0 \in Nat /\ 0 < Len(G.txs)
    BY <1>1
  <2> HIDE DEF G
  <2> QED BY <1>1, <1>3, <2>1, <2>2, OrderedStep
<1>7. Applied(<<>>, G, Len(G.txs)) = Append(<<>>, G)
  BY <1>1, AppliedFull
<1> QED BY <1>1, <1>6, <1>7

-----------------------------------------------------------------------------
(* CarefulInv is inductive relative to IInv *)

\* apply_tx pushes an outpoint that the vectors do not hold yet.
LEMMA ListedOnceStep ==
  ASSUME TypeOK, IndexSound, ListedOnce, NEW t \in Tx, apply_tx(t),
         CreatedBy(t) \cap utxo = {}
  PROVE  ListedOnce'
<1> SUFFICES ASSUME NEW a \in Address, NEW op \in OutPoint
             PROVE  ApplyToIndex(address_utxo, utxo, t)[a][op] <= 1
  BY DEF ListedOnce, apply_tx
<1> DEFINE mine == OutputAt(op).recipient = a
           kept == IF op \in SpentBy(t) \cap utxo /\ mine THEN 0
                                                         ELSE address_utxo[a][op]
           made == IF op \in CreatedBy(t) /\ mine THEN 1 ELSE 0
<1>1. ApplyToIndex(address_utxo, utxo, t)[a][op] = kept + made
  BY DEF ApplyToIndex
<1>2. address_utxo[a][op] \in Nat /\ address_utxo[a][op] <= 1
  BY DEF TypeOK, ListedOnce
<1>3. op \in CreatedBy(t) => address_utxo[a][op] = 0
  BY <1>2 DEF IndexSound
<1> QED BY <1>1, <1>2, <1>3

\* A transaction that is not on the chain has no output in utxo_.
LEMMA NewCreates ==
  ASSUME UtxoMatchesChain, NEW t \in Tx, t \notin TxsOf(AppliedChain)
  PROVE  CreatedBy(t) \cap utxo = {}
<1> SUFFICES ASSUME NEW op \in CreatedBy(t), op \in Unspent(AppliedChain) PROVE FALSE
  BY DEF UtxoMatchesChain
<1>1. op.txid = t
  BY DEF CreatedBy
<1> QED BY <1>1, UnspentOnChain

\* The state before the first start.
LEMMA InitCareful == Init => CarefulInv
<1> SUFFICES ASSUME Init PROVE CarefulInv
  OBVIOUS
<1>1. Ordered(blocks_db)
  BY DEF Init, Ordered
<1>2. ListedOnce
  BY DEF Init, MemEmpty, ListedOnce, NoIndex
<1> QED BY <1>1, <1>2 DEF Init, CarefulInv, FreshBlock

\* Starting, stopping and dying leave the databases alone.
LEMMA ProcessCareful == ASSUME IInv, CarefulInv, Process PROVE CarefulInv'
<1>1. /\ UNCHANGED <<blocks_db, pool_db>> /\ phase' # "up"
      /\ address_utxo' = address_utxo \/ address_utxo' = NoIndex
  BY DEF Process, Start, Stop, Crash, mem, disk, LoseMemory
<1>2. ListedOnce'
  BY <1>1 DEF CarefulInv, ListedOnce, NoIndex
<1> QED BY <1>1, <1>2 DEF CarefulInv, FreshBlock

\* The constructor applies what the database holds, each transaction once.
LEMMA LoadCareful == ASSUME IInv, CarefulInv, LoadStep PROVE CarefulInv'
<1>0. /\ blocks \in Seq(Block) /\ blocks_db \in Seq(Block) /\ Ordered(blocks_db)
      /\ ListedOnce /\ \A t \in pool_db : ~is_coinbase(t)
      /\ TypeOK /\ IndexSound /\ UtxoMatchesChain /\ BlocksMirror
  BY DEF IInv, TypeOK, CarefulInv, Mirror
<1>1. CASE LoadBlock \/ PushLoaded
  <2>1. phase' = "loading" /\ UNCHANGED <<blocks_db, pool_db, address_utxo>>
    BY <1>1 DEF LoadBlock, PushLoaded, disk
  <2> QED BY <1>0, <2>1 DEF CarefulInv, FreshBlock, ListedOnce
<1>2. CASE ApplyLoaded
  <2>0. /\ phase = "loading" /\ phase' = "loading" /\ blk # NoBlock
        /\ blk \in Block /\ done \in Nat /\ done < Len(blk.txs)
        /\ Len(blk.txs) \in Nat /\ blk.txs[done + 1] \in Tx
        /\ apply_tx(blk.txs[done + 1]) /\ UNCHANGED <<blocks_db, pool_db>>
    BY <1>2 DEF ApplyLoaded, disk, IInv, TypeOK, Block
  <2> DEFINE t == blk.txs[done + 1]
             e == Applied(blocks, blk, done + 1)
  <2>1. /\ Len(blocks) < Len(blocks_db) /\ blk = blocks_db[Len(blocks) + 1]
        /\ \A h \in 1..Len(blocks) : blocks[h] = blocks_db[h]
    BY <1>0, <2>0 DEF BlocksMirror
  <2>2. done + 1 \in 0..Len(blk.txs)
    BY <2>0
  <2>3. Ordered(e)
    BY <1>0, <2>0, <2>1, <2>2, PartlyLoadedOrdered
  <2>4. OneMore(AppliedChain, e, Len(blocks) + 1, done + 1, t)
    BY <1>0, <2>0, AppliedNext DEF AppliedChain
  <2> HIDE DEF e
  <2>5. t \notin TxsOf(AppliedChain)
    BY <2>3, <2>4, LastIsNew
  <2>6. CreatedBy(t) \cap utxo = {}
    BY <1>0, <2>0, <2>5, NewCreates
  <2>7. ListedOnce'
    BY <1>0, <2>0, <2>6, ListedOnceStep
  <2> QED BY <1>0, <2>0, <2>7 DEF CarefulInv, FreshBlock
<1>3. CASE load_pool
  <2>0. /\ phase = "loading" /\ blk = NoBlock /\ blk' = NoBlock
        /\ Len(blocks) = Len(blocks_db)
        /\ UNCHANGED <<blocks, blocks_db, pool_db, address_utxo>>
    BY <1>3 DEF load_pool, disk
  <2>1. blocks = blocks_db
    BY <1>0, <2>0, SameChain DEF BlocksMirror
  <2>2. Ordered(AppliedChain')
    BY <1>0, <2>0, <2>1 DEF AppliedChain
  <2> QED BY <1>0, <2>0, <2>2 DEF CarefulInv, FreshBlock, ListedOnce
<1>4. CASE create_genesis
  <2>0. /\ blocks = <<>> /\ blocks_db = <<>> /\ blk = NoBlock /\ blk' = NoBlock
        /\ blocks_db' = PutBlock(blocks_db, Len(blocks) + 1, GenesisBlock)
        /\ apply_tx(Genesis) /\ blocks' = Append(blocks, GenesisBlock)
        /\ UNCHANGED pool_db
    BY <1>0, <1>4 DEF create_genesis, BlocksMirror
  <2>1. blocks' = <<GenesisBlock>> /\ blocks_db' = <<GenesisBlock>>
    <3>1. Append(<<>>, GenesisBlock) = <<GenesisBlock>>
      OBVIOUS
    <3>2. PutBlock(<<>>, Len(<<>>) + 1, GenesisBlock) = Append(<<>>, GenesisBlock)
      BY <1>0, <2>0, GenesisType, PutAppends
    <3> QED BY <2>0, <3>1, <3>2
  <2>2. utxo = {}
    BY <1>0, <2>0, UnspentEmpty DEF UtxoMatchesChain, AppliedChain
  <2>3. ListedOnce'
    BY <1>0, <2>0, <2>2, CoinbaseAssumption, ListedOnceStep
  <2> QED BY <1>0, <2>0, <2>1, <2>3, GenesisOrdered
          DEF CarefulInv, FreshBlock, AppliedChain
<1> QED BY <1>1, <1>2, <1>3, <1>4 DEF LoadStep

\* What add_tx lets in is no coinbase.
LEMMA SubmissionCareful ==
  ASSUME IInv, CarefulInv, Submission PROVE CarefulInv'
<1>1. PICK st \in Submitted : add_tx(st) \/ reject_tx(st)
  BY DEF Submission
<1>2. /\ phase' = phase /\ blk = NoBlock /\ blk' = NoBlock
      /\ UNCHANGED <<blocks, blocks_db, address_utxo>>
  BY <1>1 DEF add_tx, reject_tx, Unlocked, vars, mem, disk
<1>3. \A t \in pool_db' : ~is_coinbase(t)
  <2>1. CASE add_tx(st)
    <3>1. ~is_coinbase(st.tx)
      BY <2>1, SubmittedAssumption, ValidateNone DEF add_tx, is_coinbase
    <3> QED BY <2>1, <3>1 DEF add_tx, CarefulInv
  <2>2. CASE reject_tx(st)
    BY <2>2 DEF reject_tx, vars, disk, CarefulInv
  <2> QED BY <1>1, <2>1, <2>2
<1> QED BY <1>2, <1>3 DEF CarefulInv, FreshBlock, ListedOnce, AppliedChain

\* A careful miner's block is fresh when add_block is entered.
LEMMA BeginBlockCareful ==
  ASSUME CarefulMiner, IInv, CarefulInv, BeginBlock PROVE CarefulInv'
<1>1. PICK c \in Coinbase, refs \in RefLists, ts \in Timestamp :
        /\ MinerMay(Assemble(TipHash, c, refs, ts))
        /\ LockForBlock(Assemble(TipHash, c, refs, ts))
  BY DEF BeginBlock
<1> DEFINE b == Assemble(TipHash, c, refs, ts)
<1>2. /\ phase = "up" /\ phase' = "up" /\ blk = NoBlock
      /\ blk' = b /\ done' = 0 /\ TypeOK /\ blocks # <<>>
      /\ blocks \in Seq(Block)
      /\ UNCHANGED <<blocks, address_utxo, pool, blocks_db, pool_db>>
  BY <1>1 DEF LockForBlock, Unlocked, disk, IInv, Mirror, BlocksMirror, TypeOK
<1>3. /\ b \in Block /\ Len(b.txs) = Len(refs) + 1 /\ Len(refs) \in Nat
      /\ b.txs[1] = c /\ \A i \in 2..(Len(refs) + 1) : b.txs[i] \in pool
  BY <1>2, AssembleType
<1>4. /\ b.txs[1] \notin TxsOf(blocks)
      /\ \A i, j \in DOMAIN b.txs : b.txs[i] = b.txs[j] => i = j
  BY <1>1 DEF MinerMay
<1> HIDE DEF b
<1>5. DOMAIN b.txs = 1..Len(b.txs)
  BY <1>3 DEF Block
<1>6. is_coinbase(b.txs[1])
  BY <1>3, CoinbaseAssumption DEF is_coinbase
<1>7. blk' # NoBlock
  BY <1>2, <1>3, NoBlockAssumption
<1>8. Ordered(AppliedChain')
  <2>1. Ordered(blocks)
    BY <1>2 DEF CarefulInv, AppliedChain
  <2> QED BY <1>2, <1>3, <1>7, <2>1, OrderedStart DEF AppliedChain
<1>9. FreshBlock'
  BY <1>2, <1>3, <1>4, <1>5, <1>6 DEF FreshBlock
<1> QED BY <1>2, <1>8, <1>9 DEF CarefulInv, ListedOnce

\* One iteration of add_block applies a transaction that is not on the chain:
\* the new coinbase, or a pool transaction, whose inputs are all unspent.
LEMMA ApplyMinedCareful ==
  ASSUME IInv, CarefulInv, ApplyMined PROVE CarefulInv'
<1> DEFINE t == blk.txs[done + 1]
<1>0. /\ phase = "up" /\ phase' = "up" /\ blk # NoBlock /\ blk \in Block
      /\ done \in Nat /\ done < Len(blk.txs) /\ done' = done + 1
      /\ Len(blk.txs) \in Nat /\ t \in Tx /\ blocks \in Seq(Block)
      /\ apply_tx(t) /\ Unpool(t) /\ UNCHANGED <<blocks, blk, blocks_db>>
  BY DEF ApplyMined, IInv, TypeOK, Block
<1>1. /\ AppliedChain = Applied(blocks, blk, done)
      /\ AppliedChain' = Applied(blocks, blk, done + 1)
  BY <1>0 DEF AppliedChain
<1>2. /\ Ordered(AppliedChain) /\ FreshBlock /\ pool = pool_db
      /\ TypeOK /\ IndexSound /\ UtxoMatchesChain /\ ListedOnce
  BY <1>0 DEF CarefulInv, IInv, Mirror
<1>3. AppliedChain \in Seq(Block)
  BY <1>0, <1>1, AppliedFacts
<1>4. /\ t \notin TxsOf(AppliedChain)
      /\ \A op \in SpentBy(t) : op.txid \in TxsOf(AppliedChain)
  <2>1. CASE done = 0
    <3>1. t \notin TxsOf(blocks) /\ inputs[t] = <<>>
      BY <1>0, <1>2, <2>1 DEF FreshBlock, is_coinbase
    <3>2. SpentBy(t) = {}
      BY <3>1 DEF SpentBy
    <3>3. TxsOf(AppliedChain) \subseteq TxsOf(blocks)
      BY <1>0, <1>1, <2>1, TxsOfStart
    <3> QED BY <3>1, <3>2, <3>3
  <2>2. CASE done # 0
    <3>1. done + 1 \in (done + 1)..Len(blk.txs) /\ done + 1 # 1
      BY <1>0, <2>2
    <3>2. t \in pool
      BY <1>0, <1>2, <3>1 DEF FreshBlock
    <3>3. ~is_coinbase(t) /\ SpentBy(t) \subseteq Unspent(AppliedChain)
      BY <1>2, <3>2 DEF CarefulInv, IInv, PoolSpendable, UtxoMatchesChain
    <3> QED BY <1>0, <1>2, <1>3, <3>3, SpendableIsNew, UnspentOnChain
  <2> QED BY <2>1, <2>2
<1>5. Ordered(AppliedChain')
  BY <1>0, <1>1, <1>2, <1>4, OrderedStep
<1>6. ListedOnce'
  <2>1. CreatedBy(t) \cap utxo = {}
    BY <1>0, <1>2, <1>4, NewCreates
  <2> QED BY <1>0, <1>2, <2>1, ListedOnceStep
<1>7. FreshBlock'
  <2>1. /\ Len(blk.txs) >= 1 /\ is_coinbase(blk.txs[1])
        /\ \A i, j \in 1..Len(blk.txs) : blk.txs[i] = blk.txs[j] => i = j
        /\ \A i \in (done + 1)..Len(blk.txs) : i # 1 => blk.txs[i] \in pool
    BY <1>0, <1>2 DEF FreshBlock
  <2>2. ASSUME NEW i \in (done' + 1)..Len(blk.txs), i # 1 PROVE blk.txs[i] \in pool'
    <3>1. /\ i \in (done + 1)..Len(blk.txs) /\ i \in 1..Len(blk.txs)
          /\ done + 1 \in 1..Len(blk.txs) /\ i # done + 1
      BY <1>0
    <3>2. blk.txs[i] \in pool /\ blk.txs[i] # t
      BY <2>1, <2>2, <3>1
    <3> QED BY <1>0, <3>2 DEF Unpool
  <2>3. done' # 0
    BY <1>0
  <2> QED BY <1>0, <2>1, <2>2, <2>3 DEF FreshBlock
<1>8. \A s \in pool_db' : ~is_coinbase(s)
  BY <1>0 DEF Unpool, CarefulInv
<1>9. Ordered(blocks_db')
  BY <1>0 DEF CarefulInv
<1> QED BY <1>5, <1>6, <1>7, <1>8, <1>9 DEF CarefulInv

\* store_block keeps the chain that was applied.
LEMMA StoreBlockCareful ==
  ASSUME IInv, CarefulInv, StoreBlock PROVE CarefulInv'
<1>0. /\ phase = "up" /\ phase' = "up" /\ blk # NoBlock /\ blk \in Block
      /\ done = Len(blk.txs) /\ blk' = NoBlock
      /\ blocks_db' = PutBlock(blocks_db, Len(blocks) + 1, blk)
      /\ blocks' = Append(blocks, blk) /\ blocks = blocks_db
      /\ blocks \in Seq(Block) /\ UNCHANGED <<address_utxo, pool_db>>
  BY DEF StoreBlock, IInv, TypeOK, Mirror, BlocksMirror
<1>1. blocks_db' = Append(blocks, blk)
  BY <1>0, PutAppends
<1>2. Ordered(Append(blocks, blk))
  BY <1>0, AppliedFull DEF CarefulInv, AppliedChain
<1> QED BY <1>0, <1>1, <1>2 DEF CarefulInv, FreshBlock, ListedOnce, AppliedChain

\* Every step preserves CarefulInv.
LEMMA NextCareful ==
  ASSUME CarefulMiner, IInv, CarefulInv, [Next]_vars PROVE CarefulInv'
<1>1. CASE UNCHANGED vars
  BY <1>1 DEF vars, mem, disk, CarefulInv, FreshBlock, ListedOnce, AppliedChain
<1> QED BY <1>1, ProcessCareful, LoadCareful, SubmissionCareful, BeginBlockCareful,
           ApplyMinedCareful, StoreBlockCareful DEF Next, BlockStep

-----------------------------------------------------------------------------
(* The theorems *)

\* What has been applied is ordered at all times, in the constructor too.
LEMMA AppliedOrdered == ASSUME IInv, CarefulInv PROVE Ordered(AppliedChain)
<1>0. /\ blocks \in Seq(Block) /\ blocks_db \in Seq(Block) /\ Ordered(blocks_db)
      /\ TypeOK /\ BlocksMirror
  BY DEF IInv, TypeOK, CarefulInv, Mirror
<1>1. CASE phase = "up"
  BY <1>1 DEF CarefulInv
<1>2. CASE phase \in {"down", "genesis"}
  <2>1. blk = NoBlock /\ blocks = <<>>
    BY <1>0, <1>2 DEF BlocksMirror, MemEmpty
  <2> QED BY <2>1 DEF AppliedChain, Ordered
<1>3. CASE phase = "loading"
  <2>1. CASE blk = NoBlock
    BY <1>0, <1>3, <2>1, LoadedOrdered DEF BlocksMirror, AppliedChain
  <2>2. CASE blk # NoBlock
    <3>1. blk \in Block /\ done \in 0..Len(blk.txs)
      BY <1>0, <2>2 DEF TypeOK, BlocksMirror, Block
    <3> QED BY <1>0, <1>3, <2>2, <3>1, PartlyLoadedOrdered DEF BlocksMirror, AppliedChain
  <2> QED BY <2>1, <2>2
<1> QED BY <1>0, <1>1, <1>2, <1>3 DEF TypeOK

\* With careful miners CarefulInv is an invariant of the node.
LEMMA CarefulInvariance == ASSUME CarefulMiner PROVE Spec => [](IInv /\ CarefulInv)
<1>1. Init => CarefulInv
  BY InitCareful
<1>2. IInv /\ CarefulInv /\ [Next]_vars => CarefulInv'
  BY NextCareful
<1> QED BY <1>1, <1>2, Invariance, PTL DEF Spec

\* As long as miners repeat no coinbase and list no txid twice, add_block and
\* load_blocks apply no transaction twice: although add_block does not check its
\* block against the chain, and whatever crashes and restarts there are.
THEOREM AppliedOnce == ASSUME CarefulMiner PROVE Spec => []NothingAppliedTwice
<1>1. ASSUME IInv, CarefulInv PROVE NothingAppliedTwice
  <2> DEFINE c == AppliedChain
  <2>1. Ordered(c)
    BY <1>1, AppliedOrdered
  <2> HIDE DEF c
  <2>2. ASSUME NEW p \in Positions(c), NEW q \in Positions(c),
               c[p[1]].txs[p[2]] = c[q[1]].txs[q[2]]
        PROVE  p = q
    <3>1. /\ p = <<p[1], p[2]>> /\ p[1] \in 1..Len(c) /\ p[2] \in 1..Len(c[p[1]].txs)
          /\ q = <<q[1], q[2]>> /\ q[1] \in 1..Len(c) /\ q[2] \in 1..Len(c[q[1]].txs)
      BY DEF Positions
    <3>2. StandsOnce(c, q[1], q[2])
      BY <2>1, <3>1 DEF Ordered
    <3>3. p[1] = q[1] /\ p[2] = q[2]
      BY <2>2, <3>1, <3>2 DEF StandsOnce
    <3> QED BY <3>1, <3>3
  <2> QED BY <2>2 DEF NothingAppliedTwice, c
<1> QED BY <1>1, CarefulInvariance, PTL

\* With such miners no output that a confirmed transaction has spent comes back
\* into utxo_.
THEOREM SpentForGood == ASSUME CarefulMiner PROVE Spec => []SpentStaysSpent
<1>1. ASSUME IInv, CarefulInv PROVE SpentStaysSpent
  <2>1. AppliedChain \in Seq(Block)
    <3>1. CASE blk = NoBlock
      BY <1>1, <3>1 DEF IInv, TypeOK, AppliedChain
    <3>2. CASE blk # NoBlock
      <4>1. blk \in Block /\ blocks \in Seq(Block) /\ done \in 0..Len(blk.txs)
        BY <1>1, <3>2 DEF IInv, TypeOK, Mirror, BlocksMirror, Block
      <4> QED BY <3>2, <4>1, AppliedFacts DEF AppliedChain
    <3> QED BY <3>1, <3>2
  <2>2. Ordered(AppliedChain) /\ utxo = Unspent(AppliedChain)
    BY <1>1, AppliedOrdered DEF IInv, UtxoMatchesChain
  <2>3. \A t \in TxsOf(AppliedChain) : \E h \in 1..Len(AppliedChain) :
          \E i \in 1..Len(AppliedChain[h].txs) : AppliedChain[h].txs[i] = t
    BY DEF TxsOf
  <2> QED BY <2>1, <2>2, <2>3, OrderedUnspent DEF SpentStaysSpent
<1> QED BY <1>1, CarefulInvariance, PTL

-----------------------------------------------------------------------------
(* What wallets that list no input twice add to IInv *)

\* A block that can be applied to the chain c without creating money: after the
\* coinbase it lists transactions that pay for what they create with unspent
\* outputs of c, no two of them with the same one.
Paying(t) == ~is_coinbase(t) /\ Value(CreatedBy(t)) <= Value(SpentBy(t))
PaidBlock(c, b) ==
  /\ Len(b.txs) >= 1 /\ b.txs[1] \in Coinbase \cup {Genesis}
  /\ \A i \in 2..Len(b.txs) : Paying(b.txs[i]) /\ SpentBy(b.txs[i]) \subseteq Unspent(c)
  /\ \A i, j \in 2..Len(b.txs) :
       b.txs[i] # b.txs[j] => SpentBy(b.txs[i]) \cap SpentBy(b.txs[j]) = {}

PaidChain(c) == \A h \in 1..Len(c) : PaidBlock(SubSeq(c, 1, h - 1), c[h])

\* With IInv, what makes every step keep the value of the unspent outputs
\* within what was issued: the pool transactions pay for what they create, and
\* so do the blocks, the one in progress and the stored ones, which are applied
\* again after a restart.
ValueInv ==
  /\ \A t \in pool_db : Paying(t)
  /\ PaidChain(blocks_db)
  /\ phase = "up" /\ blk # NoBlock => PaidBlock(blocks, blk)

\* The outpoints that name an output, and what they are worth.
Outputs == UNION {CreatedBy(t) : t \in Tx}
Worth == [op \in Outputs |-> OutputAt(op).amount]

-----------------------------------------------------------------------------
(* The value of a set of outputs *)

LEMMA CreatedOutput ==
  ASSUME NEW t \in Tx, NEW i \in 1..Len(outputs[t])
  PROVE  LET op == [txid |-> t, index |-> i - 1]
         IN  /\ op \in CreatedBy(t) /\ op \in Outputs
             /\ OutputAt(op) = outputs[t][i] /\ OutputAt(op).amount \in Nat
<1> DEFINE op == [txid |-> t, index |-> i - 1]
<1>1. outputs[t] \in Seq(TxOutput) /\ Len(outputs[t]) \in Nat
  BY TxAssumption
<1>2. op \in CreatedBy(t)
  BY DEF CreatedBy
<1>3. op \in Outputs
  BY <1>2 DEF Outputs
<1>4. op.txid = t /\ op.index + 1 = i
  BY <1>1
<1>5. OutputAt(op) = outputs[t][i]
  BY <1>4 DEF OutputAt
<1>6. outputs[t][i] \in TxOutput
  BY <1>1
<1> QED BY <1>2, <1>3, <1>5, <1>6, BoundsAssumption DEF TxOutput

LEMMA WorthNat == \A op \in Outputs : Worth[op] = OutputAt(op).amount /\ Worth[op] \in Nat
<1> SUFFICES ASSUME NEW op \in Outputs PROVE OutputAt(op).amount \in Nat
  BY DEF Worth
<1>1. PICK t \in Tx : op \in CreatedBy(t)
  BY DEF Outputs
<1>2. PICK i \in 1..Len(outputs[t]) : op = [txid |-> t, index |-> i - 1]
  BY <1>1 DEF CreatedBy
<1> QED BY <1>2, CreatedOutput

LEMMA ValueTotal ==
  ASSUME NEW S \in SUBSET Outputs, IsFiniteSet(S)
  PROVE  Value(S) = TotalOn(Worth, S) /\ Value(S) \in Nat
<1> DEFINE f == [op \in S |-> OutputAt(op).amount]
<1>1. DOMAIN f = S /\ \A op \in S : f[op] \in Nat /\ Worth[op] = f[op] /\ Worth[op] \in Nat
  BY WorthNat
<1>2. Value(S) = TotalOn(f, DOMAIN f)
  BY DEF Value, Total, TotalOn
<1> HIDE DEF f
<1>3. TotalOn(f, S) = TotalOn(Worth, S)
  BY <1>1, TotalSame
<1>4. TotalOn(Worth, S) \in Nat
  <2>1. S \in SUBSET S
    OBVIOUS
  <2> QED BY <1>1, <2>1, TotalType
<1> QED BY <1>1, <1>2, <1>3, <1>4

\* The unspent outputs of a chain name outputs.
LEMMA UnspentOutputs == ASSUME NEW c \in Seq(Block) PROVE Unspent(c) \subseteq Outputs
<1> SUFFICES ASSUME NEW op \in Unspent(c) PROVE op \in Outputs
  OBVIOUS
<1>1. PICK h \in 1..Len(c) : \E i \in 1..Len(c[h].txs) : op \in CreatedBy(c[h].txs[i])
  BY DEF Unspent, LiveFrom
<1>2. PICK i \in 1..Len(c[h].txs) : op \in CreatedBy(c[h].txs[i])
  BY <1>1
<1>3. c[h] \in Block
  OBVIOUS
<1>4. c[h].txs[i] \in Tx
  BY <1>3 DEF Block
<1> QED BY <1>2, <1>4 DEF Outputs

-----------------------------------------------------------------------------
(* The running sums of add_tx *)

\* sum_out is the value of the outputs a transaction creates.
LEMMA SumOutValue ==
  ASSUME NEW t \in Tx
  PROVE  /\ IsFiniteSet(CreatedBy(t)) /\ CreatedBy(t) \subseteq Outputs
         /\ SumOut(t, Len(outputs[t])) = Value(CreatedBy(t))
         /\ Value(CreatedBy(t)) \in Nat
<1> DEFINE n == Len(outputs[t])
           f == [i \in 1..n |-> outputs[t][i].amount]
           m == [i \in 1..n |-> [txid |-> t, index |-> i - 1]]
<1>1. n \in Nat /\ IsFiniteSet(1..n)
  BY TxAssumption, FS_Interval
<1>2. \A i \in 1..n : f[i] \in Nat /\ Worth[m[i]] = f[i]
  BY CreatedOutput, WorthNat
<1>3. \A i, j \in 1..n : m[i] = m[j] => i = j
  <2> SUFFICES ASSUME NEW i \in 1..n, NEW j \in 1..n, m[i] = m[j] PROVE i = j
    OBVIOUS
  <2>1. m[i].index = i - 1 /\ m[j].index = j - 1
    OBVIOUS
  <2> HIDE DEF m
  <2> QED BY <1>1, <2>1
<1>4. /\ m \in [1..n -> CreatedBy(t)]
      /\ \A op \in CreatedBy(t) : \E i \in 1..n : op = m[i]
      /\ CreatedBy(t) \subseteq Outputs
  BY DEF CreatedBy, Outputs
<1>5. SumOut(t, n) = TotalOn(f, 1..n)
  <2>1. DOMAIN f = 1..n /\ SumOut(t, n) = TotalOn(f, DOMAIN f)
    BY DEF SumOut, Total, TotalOn
  <2> HIDE DEF f, n
  <2> QED BY <2>1
<1> HIDE DEF f, m, n
<1>6. IsFiniteSet(CreatedBy(t)) /\ TotalOn(f, 1..n) = TotalOn(Worth, CreatedBy(t))
  <2> DEFINE D == 1..n
  <2>1. /\ IsFiniteSet(D) /\ \A i \in D : f[i] \in Nat /\ Worth[m[i]] = f[i]
        /\ \A i, j \in D : m[i] = m[j] => i = j
        /\ m \in [D -> CreatedBy(t)] /\ \A op \in CreatedBy(t) : \E i \in D : op = m[i]
    BY <1>1, <1>2, <1>3, <1>4
  <2> HIDE DEF D
  <2>2. IsFiniteSet(CreatedBy(t)) /\ TotalOn(f, D) = TotalOn(Worth, CreatedBy(t))
    BY <2>1, TotalImage
  <2> QED BY <2>2 DEF D
<1> QED BY <1>4, <1>5, <1>6, ValueTotal DEF n

\* sum_in is the value of the outputs it spends, if it lists none twice.
LEMMA SumInValue ==
  ASSUME NEW t \in Tx, NEW u \in SUBSET Outputs, SpentBy(t) \subseteq u,
         \A i, j \in 1..Len(inputs[t]) : inputs[t][i] = inputs[t][j] => i = j
  PROVE  /\ IsFiniteSet(SpentBy(t))
         /\ SumIn(t, Len(inputs[t]), u) = Value(SpentBy(t))
         /\ Value(SpentBy(t)) \in Nat
<1> DEFINE n == Len(inputs[t])
           S == {j \in 1..n : inputs[t][j] \in u}
           f == [i \in S |-> OutputAt(inputs[t][i]).amount]
           m == [i \in 1..n |-> inputs[t][i]]
<1>1. n \in Nat /\ IsFiniteSet(1..n)
  BY TxAssumption, FS_Interval
<1>2. \A i \in 1..n : m[i] \in u
  BY DEF SpentBy
<1>3. S = 1..n
  BY <1>2
<1>4. \A i \in 1..n : f[i] \in Nat /\ Worth[m[i]] = f[i]
  BY <1>2, <1>3, WorthNat
<1>5. /\ m \in [1..n -> SpentBy(t)]
      /\ \A op \in SpentBy(t) : \E i \in 1..n : op = m[i]
      /\ \A i, j \in 1..n : m[i] = m[j] => i = j
  BY DEF SpentBy
<1>6. SumIn(t, n, u) = TotalOn(f, 1..n)
  <2>1. DOMAIN f = S /\ SumIn(t, n, u) = TotalOn(f, DOMAIN f)
    BY DEF SumIn, Total, TotalOn
  <2> HIDE DEF f, n, S
  <2> QED BY <1>3, <2>1
<1> HIDE DEF f, S, m, n
<1>7. IsFiniteSet(SpentBy(t)) /\ TotalOn(f, 1..n) = TotalOn(Worth, SpentBy(t))
  <2> DEFINE D == 1..n
  <2>1. /\ IsFiniteSet(D) /\ \A i \in D : f[i] \in Nat /\ Worth[m[i]] = f[i]
        /\ \A i, j \in D : m[i] = m[j] => i = j
        /\ m \in [D -> SpentBy(t)] /\ \A op \in SpentBy(t) : \E i \in D : op = m[i]
    BY <1>1, <1>4, <1>5
  <2> HIDE DEF D
  <2>2. IsFiniteSet(SpentBy(t)) /\ TotalOn(f, D) = TotalOn(Worth, SpentBy(t))
    BY <2>1, TotalImage
  <2> QED BY <2>2 DEF D
<1>8. SpentBy(t) \subseteq Outputs
  OBVIOUS
<1> QED BY <1>6, <1>7, <1>8, ValueTotal DEF n

\* What add_tx lets into the pool pays for what it creates.
LEMMA ValidatedPays ==
  ASSUME NEW st \in SignedTransaction, NEW u \in SUBSET Outputs, NEW p, NEW ps,
         ValidateTx(st, u, p, ps) = "None",
         \A i, j \in 1..Len(inputs[st.tx]) : inputs[st.tx][i] = inputs[st.tx][j] => i = j
  PROVE  Paying(st.tx)
<1> DEFINE t == st.tx
<1>1. t \in Tx
  BY DEF SignedTransaction
<1>2. SpentBy(t) \subseteq u /\ ~is_coinbase(t)
  BY ValidateNone DEF is_coinbase
<1>3. InputError(t, derive_address[st.pubkey], u) = "None"
  BY DEF ValidateTx
<1>4. ~Overspends(t, u)
  BY <1>3 DEF InputError
<1>5. /\ SumIn(t, Len(inputs[t]), u) = Value(SpentBy(t)) /\ Value(SpentBy(t)) \in Nat
      /\ SumOut(t, Len(outputs[t])) = Value(CreatedBy(t)) /\ Value(CreatedBy(t)) \in Nat
  BY <1>1, <1>2, SumInValue, SumOutValue
<1>6. Value(CreatedBy(t)) <= MaxAmount
  <2>1. Len(outputs[t]) \in Nat /\ OutputError(t) = "None"
    BY <1>1, TxAssumption DEF ValidateTx
  <2>2. Len(outputs[t]) # 0
    BY <2>1 DEF OutputError
  <2>3. ~(SumOut(t, Len(outputs[t])) > MaxAmount)
    BY <2>1, <2>2 DEF OutputError
  <2> QED BY <1>5, <2>3, BoundsAssumption
<1>7. Value(SpentBy(t)) <= MaxAmount
  <2>1. Len(inputs[t]) \in Nat /\ Len(inputs[t]) # 0
    BY <1>1, <1>2, TxAssumption DEF is_coinbase
  <2>2. ~(SumIn(t, Len(inputs[t]), u) > MaxAmount)
    BY <1>3, <2>1 DEF InputError
  <2> QED BY <1>5, <2>2, BoundsAssumption
<1>8. \A x, m \in Nat : x <= m => x % (m + 1) = x
  OBVIOUS
<1>9. Value(CreatedBy(t)) <= Value(SpentBy(t))
  <2>1. /\ Value(CreatedBy(t)) % (MaxAmount + 1) = Value(CreatedBy(t))
        /\ Value(SpentBy(t)) % (MaxAmount + 1) = Value(SpentBy(t))
    BY <1>5, <1>6, <1>7, <1>8, BoundsAssumption
  <2> QED BY <1>4, <1>5, <2>1 DEF Overspends
<1> QED BY <1>2, <1>9 DEF Paying

-----------------------------------------------------------------------------
(* What a block spends and creates *)

\* The outputs spent and created by the transactions of b from the second to
\* the n-th.
SpentIn(b, n) == UNION {SpentBy(b.txs[i]) : i \in 2..n}
CreatedIn(b, n) == UNION {CreatedBy(b.txs[i]) : i \in 2..n}

LEMMA PaidUpTo ==
  ASSUME NEW c \in Seq(Block), NEW b \in Block, PaidBlock(c, b),
         IsFiniteSet(Unspent(c)), NEW n \in 0..Len(b.txs)
  PROVE  /\ SpentIn(b, n) \subseteq Unspent(c)
         /\ IsFiniteSet(CreatedIn(b, n)) /\ CreatedIn(b, n) \subseteq Outputs
         /\ Value(CreatedIn(b, n)) <= Value(SpentIn(b, n))
<1> DEFINE Paid(k) == /\ SpentIn(b, k) \subseteq Unspent(c)
                      /\ IsFiniteSet(CreatedIn(b, k)) /\ CreatedIn(b, k) \subseteq Outputs
                      /\ Value(CreatedIn(b, k)) <= Value(SpentIn(b, k))
           N == {k \in Nat : k <= Len(b.txs) => Paid(k)}
<1>0. /\ b.txs \in Seq(Tx) /\ Len(b.txs) \in Nat
      /\ Unspent(c) \subseteq Outputs /\ \A S \in SUBSET Unspent(c) : IsFiniteSet(S)
  <2>1. b.txs \in Seq(Tx)
    BY DEF Block
  <2>2. \A S \in SUBSET Unspent(c) : IsFiniteSet(S)
    BY FS_Subset
  <2> QED BY <2>1, <2>2, UnspentOutputs
<1>1. ASSUME NEW k \in Nat, k <= 1 PROVE Paid(k)
  <2>1. SpentIn(b, k) = {} /\ CreatedIn(b, k) = {}
    BY <1>1 DEF SpentIn, CreatedIn
  <2>2. Value({}) \in Nat
    BY ValueTotal, FS_EmptySet
  <2> QED BY <2>1, <2>2, FS_EmptySet
<1>2. ASSUME NEW k \in Nat, k >= 1, k < Len(b.txs), Paid(k) PROVE Paid(k + 1)
  <2> DEFINE t == b.txs[k + 1]
             I == SpentIn(b, k)
             O == CreatedIn(b, k)
  <2>1. t \in Tx /\ k + 1 \in 2..Len(b.txs)
    BY <1>0, <1>2
  <2>2. Value(CreatedBy(t)) <= Value(SpentBy(t)) /\ SpentBy(t) \subseteq Unspent(c)
    BY <2>1 DEF PaidBlock, Paying
  <2>3. SpentIn(b, k + 1) = I \cup SpentBy(t) /\ CreatedIn(b, k + 1) = O \cup CreatedBy(t)
    <3>1. 2..(k + 1) = (2..k) \cup {k + 1}
      BY <1>2
    <3> HIDE DEF t
    <3> QED BY <3>1 DEF SpentIn, CreatedIn, t
  <2>4. CASE \E i \in 2..k : b.txs[i] = t
    <3>1. SpentBy(t) \subseteq I /\ CreatedBy(t) \subseteq O
      BY <2>4 DEF SpentIn, CreatedIn
    <3>2. SpentIn(b, k + 1) = I /\ CreatedIn(b, k + 1) = O
      BY <2>3, <3>1
    <3> QED BY <1>2, <3>2, Zenon
  <2>5. CASE ~\E i \in 2..k : b.txs[i] = t
    <3>1. I \cap SpentBy(t) = {}
      <4>1. \A i \in 2..k : SpentBy(b.txs[i]) \cap SpentBy(t) = {}
        <5> SUFFICES ASSUME NEW i \in 2..k PROVE SpentBy(b.txs[i]) \cap SpentBy(t) = {}
          OBVIOUS
        <5>1. i \in 2..Len(b.txs) /\ b.txs[i] # t
          BY <1>0, <1>2, <2>5
        <5> QED BY <2>1, <5>1 DEF PaidBlock
      <4> QED BY <4>1 DEF SpentIn
    <3>2. /\ IsFiniteSet(CreatedBy(t)) /\ CreatedBy(t) \subseteq Outputs
          /\ IsFiniteSet(O) /\ O \subseteq Outputs
          /\ IsFiniteSet(SpentBy(t)) /\ SpentBy(t) \subseteq Outputs
          /\ IsFiniteSet(I) /\ I \subseteq Outputs
          /\ Value(O) <= Value(I)
      BY <1>0, <1>2, <2>1, <2>2, SumOutValue
    <3> HIDE DEF t, I, O
    <3>3. /\ IsFiniteSet(O \cup CreatedBy(t)) /\ O \cup CreatedBy(t) \subseteq Outputs
          /\ IsFiniteSet(I \cup SpentBy(t)) /\ I \cup SpentBy(t) \subseteq Outputs
      BY <3>2, FS_Union
    <3>4. Value(O \cup CreatedBy(t)) <= Value(O) + Value(CreatedBy(t))
      BY <3>2, <3>3, ValueTotal, TotalParts, WorthNat
    <3>5. Value(I \cup SpentBy(t)) = Value(I) + Value(SpentBy(t))
      BY <3>1, <3>2, <3>3, ValueTotal, TotalUnion, WorthNat
    <3>6. /\ Value(O) \in Nat /\ Value(CreatedBy(t)) \in Nat
          /\ Value(I) \in Nat /\ Value(SpentBy(t)) \in Nat
          /\ Value(O \cup CreatedBy(t)) \in Nat
      BY <3>2, <3>3, ValueTotal
    <3>7. Value(O \cup CreatedBy(t)) <= Value(I \cup SpentBy(t))
      BY <2>2, <3>2, <3>4, <3>5, <3>6
    <3>8. I \cup SpentBy(t) \subseteq Unspent(c)
      BY <1>2, <2>2 DEF I
    <3> QED BY <2>3, <3>3, <3>7, <3>8, Zenon
  <2> QED BY <2>4, <2>5
<1> HIDE DEF Paid
<1>3. 0 \in N
  BY <1>1
<1>4. \A k \in Nat : k \in N => k + 1 \in N
  <2> SUFFICES ASSUME NEW k \in Nat, k + 1 <= Len(b.txs), k \in N PROVE Paid(k + 1)
    OBVIOUS
  <2>1. CASE k = 0
    BY <1>1, <2>1
  <2>2. CASE k # 0
    BY <1>0, <1>2, <2>2
  <2> QED BY <2>1, <2>2
<1> HIDE DEF N
<1>5. \A k \in Nat : k \in N
  BY <1>3, <1>4, Induction
<1>6. Paid(n)
  BY <1>0, <1>5 DEF N
<1> QED BY <1>6 DEF Paid

\* What is unspent after the first n transactions of a block was unspent before
\* and is not spent by them, or one of them has created it.
LEMMA UnspentParts ==
  ASSUME NEW c \in Seq(Block), NEW b \in Block, NEW n \in 0..Len(b.txs)
  PROVE  Unspent(Applied(c, b, n)) \subseteq
           (Unspent(c) \ SpentIn(b, n)) \cup CreatedIn(b, n)
             \cup (IF n = 0 THEN {} ELSE CreatedBy(b.txs[1]))
<1> DEFINE d == Applied(c, b, n)
<1> SUFFICES ASSUME NEW op \in Unspent(d), op \notin CreatedIn(b, n),
                    n # 0 => op \notin CreatedBy(b.txs[1])
             PROVE  op \in Unspent(c) /\ op \notin SpentIn(b, n)
  OBVIOUS
<1>0. Len(c) \in Nat /\ n \in Nat /\ Len(b.txs) \in Nat
  BY DEF Block
<1>1. /\ Len(d) = Len(c) + 1 /\ \A k \in 1..Len(c) : d[k] = c[k]
      /\ Len(d[Len(c) + 1].txs) = n /\ \A j \in 1..n : d[Len(c) + 1].txs[j] = b.txs[j]
  BY AppliedFacts
<1> HIDE DEF d
<1>2. op \in OutPoint
  BY DEF Unspent
<1>3. PICK h \in 1..Len(d) : \E i \in 1..Len(d[h].txs) : LiveFrom(d, op, h, i)
  BY DEF Unspent
<1>4. PICK i \in 1..Len(d[h].txs) : LiveFrom(d, op, h, i)
  BY <1>3
<1>5. h <= Len(c)
  <2> SUFFICES ASSUME h = Len(c) + 1 PROVE FALSE
    BY <1>0, <1>1
  <2>1. i \in 1..n /\ op \in CreatedBy(b.txs[i])
    BY <1>1, <1>4 DEF LiveFrom
  <2>2. i = 1 \/ i \in 2..n
    BY <1>0, <2>1
  <2>3. CASE i = 1
    BY <1>0, <2>1, <2>3
  <2>4. CASE i \in 2..n
    BY <2>1, <2>4 DEF CreatedIn
  <2> QED BY <2>2, <2>3, <2>4
<1>6. \A k \in h..Len(d) : \A j \in 1..Len(d[k].txs) :
        (k > h \/ j > i) => op \notin SpentBy(d[k].txs[j])
  BY <1>4 DEF LiveFrom
<1>7. LiveFrom(c, op, h, i)
  BY <1>0, <1>1, <1>4, <1>5, <1>6 DEF LiveFrom
<1>8. \A j \in 2..n : op \notin SpentBy(b.txs[j])
  <2> SUFFICES ASSUME NEW j \in 2..n PROVE op \notin SpentBy(b.txs[j])
    OBVIOUS
  <2>1. j \in 1..n /\ Len(c) + 1 \in h..Len(d) /\ Len(c) + 1 > h
    BY <1>0, <1>1, <1>5
  <2> QED BY <1>1, <1>6, <2>1
<1>9. h \in 1..Len(c) /\ i \in 1..Len(c[h].txs)
  BY <1>0, <1>1, <1>5
<1> QED BY <1>2, <1>7, <1>8, <1>9 DEF Unspent, SpentIn

-----------------------------------------------------------------------------
(* What the coinbases issue *)

\* The coinbases of the blocks of c are their first transactions.
MintedFirst(c) == \A h \in 1..Len(c) :
  /\ Len(c[h].txs) >= 1 /\ c[h].txs[1] \in Coinbase \cup {Genesis}
  /\ \A i \in 2..Len(c[h].txs) : ~is_coinbase(c[h].txs[i])

LEMMA InPositions ==
  ASSUME NEW c
  PROVE  \A p : p \in Positions(c) <=>
           \E h \in 1..Len(c) : \E i \in 1..Len(c[h].txs) : p = <<h, i>>
BY DEF Positions

\* A coinbase has one output.
LEMMA CoinbaseValue ==
  ASSUME NEW t \in Coinbase \cup {Genesis}
  PROVE  /\ t \in Tx /\ is_coinbase(t) /\ outputs[t][1].amount \in Nat
         /\ Value(CreatedBy(t)) = outputs[t][1].amount
<1> DEFINE op == [txid |-> t, index |-> 0]
<1>1. t \in Tx /\ is_coinbase(t) /\ Len(outputs[t]) = 1
  BY CoinbaseAssumption DEF is_coinbase
<1>2. CreatedBy(t) = {op}
  BY <1>1 DEF CreatedBy
<1>3. 1 \in 1..Len(outputs[t]) /\ 1 - 1 = 0
  BY <1>1
<1>4. op \in Outputs /\ OutputAt(op) = outputs[t][1] /\ OutputAt(op).amount \in Nat
  BY <1>1, <1>3, CreatedOutput
<1> HIDE DEF op
<1>5. IsFiniteSet({op}) /\ {op} \subseteq Outputs /\ {op} \ {op} = {}
  BY <1>4, FS_Singleton
<1>6. Value({op}) = TotalOn(Worth, {op})
  BY <1>5, ValueTotal
<1>7. TotalOn(Worth, {op}) = Worth[op] + TotalOn(Worth, {op} \ {op})
  BY <1>4, <1>5, TotalRemove, WorthNat
<1>8. TotalOn(Worth, {op} \ {op}) = 0
  BY <1>5, TotalEmpty
<1>9. Worth[op] = outputs[t][1].amount
  BY <1>4, WorthNat
<1> QED BY <1>1, <1>2, <1>4, <1>6, <1>7, <1>8, <1>9

\* The coinbases of a chain are one per block.
LEMMA MintsFirst ==
  ASSUME NEW c \in Seq(Block), MintedFirst(c)
  PROVE  /\ IsFiniteSet(Mints(c))
         /\ \A p \in Mints(c) : /\ p[1] \in 1..Len(c) /\ p[2] = 1 /\ p = <<p[1], 1>>
                                /\ outputs[c[p[1]].txs[p[2]]][1].amount \in Nat
<1> DEFINE S == 1..Len(c)
           m == [h \in S |-> <<h, 1>>]
<1>1. \A p \in Mints(c) : /\ p[1] \in S /\ p[2] = 1 /\ p = <<p[1], 1>>
                          /\ outputs[c[p[1]].txs[p[2]]][1].amount \in Nat
  <2> SUFFICES ASSUME NEW p \in Mints(c)
               PROVE  /\ p[1] \in S /\ p[2] = 1 /\ p = <<p[1], 1>>
                      /\ outputs[c[p[1]].txs[p[2]]][1].amount \in Nat
    OBVIOUS
  <2>1. p \in Positions(c) /\ is_coinbase(c[p[1]].txs[p[2]])
    BY DEF Mints
  <2>2. PICK h \in S : \E i \in 1..Len(c[h].txs) : p = <<h, i>>
    BY <2>1, InPositions
  <2>3. PICK i \in 1..Len(c[h].txs) : p = <<h, i>>
    BY <2>2
  <2>4. is_coinbase(c[h].txs[i]) /\ p[1] = h /\ p[2] = i
    BY <2>1, <2>3
  <2>5. c[h] \in Block
    OBVIOUS
  <2>6. i = 1
    BY <2>4, <2>5 DEF MintedFirst, Block
  <2>7. c[h].txs[1] \in Coinbase \cup {Genesis}
    BY DEF MintedFirst
  <2> QED BY <2>3, <2>4, <2>6, <2>7, CoinbaseValue
<1>2. \A h \in S : <<h, 1>> \in Mints(c)
  <2> SUFFICES ASSUME NEW h \in S PROVE <<h, 1>> \in Mints(c)
    OBVIOUS
  <2>1. c[h] \in Block
    OBVIOUS
  <2>2. 1 \in 1..Len(c[h].txs) /\ c[h].txs[1] \in Coinbase \cup {Genesis}
    BY <2>1 DEF MintedFirst, Block
  <2>3. <<h, 1>> \in Positions(c)
    BY <2>2, InPositions
  <2> QED BY <2>2, <2>3, CoinbaseValue DEF Mints
<1>3. IsFiniteSet(S)
  BY FS_Interval
<1>4. m \in Surjection(S, Mints(c))
  <2> HIDE DEF S
  <2> QED BY <1>1, <1>2 DEF Surjection
<1>5. IsFiniteSet(Mints(c))
  BY <1>3, <1>4, FS_Surjection
<1> QED BY <1>1, <1>5

LEMMA MintedNat == ASSUME NEW c \in Seq(Block), MintedFirst(c) PROVE Minted(c) \in Nat
<1> DEFINE S == Mints(c)
           v == [p \in S |-> outputs[c[p[1]].txs[p[2]]][1].amount]
<1>1. /\ DOMAIN v = S /\ IsFiniteSet(S) /\ S \in SUBSET S /\ \A p \in S : v[p] \in Nat
      /\ Minted(c) = TotalOn(v, DOMAIN v)
  BY MintsFirst DEF Minted, Total, TotalOn
<1> HIDE DEF v, S
<1>2. TotalOn(v, S) \in Nat
  BY <1>1, TotalType
<1> QED BY <1>1, <1>2

\* A partly applied block adds the output of its coinbase.
LEMMA MintedApplied ==
  ASSUME NEW c \in Seq(Block), MintedFirst(c), NEW b \in Block, PaidBlock(c, b),
         NEW n \in 0..Len(b.txs)
  PROVE  /\ Minted(c) \in Nat
         /\ Minted(Applied(c, b, n)) =
              Minted(c) + (IF n = 0 THEN 0 ELSE outputs[b.txs[1]][1].amount)
<1> DEFINE d == Applied(c, b, n)
           v(e) == [p \in Mints(e) |-> outputs[e[p[1]].txs[p[2]]][1].amount]
           q == <<Len(c) + 1, 1>>
           X == IF n = 0 THEN {} ELSE {q}
<1>0. Len(c) \in Nat /\ n \in Nat /\ Len(b.txs) \in Nat
  BY DEF Block
<1>1. /\ Len(d) = Len(c) + 1 /\ \A k \in 1..Len(c) : d[k] = c[k]
      /\ Len(d[Len(c) + 1].txs) = n /\ \A j \in 1..n : d[Len(c) + 1].txs[j] = b.txs[j]
  BY AppliedFacts
<1> HIDE DEF d
<1>2. \A h \in 1..Len(d) : h \in 1..Len(c) \/ h = Len(c) + 1
  BY <1>0, <1>1
<1>3. Mints(d) = Mints(c) \cup X
  <2>1. ASSUME NEW p \in Mints(d) PROVE p \in Mints(c) \cup X
    <3>1. p \in Positions(d) /\ is_coinbase(d[p[1]].txs[p[2]])
      BY DEF Mints
    <3>2. PICK h \in 1..Len(d) : \E i \in 1..Len(d[h].txs) : p = <<h, i>>
      BY <3>1, InPositions
    <3>3. PICK i \in 1..Len(d[h].txs) : p = <<h, i>>
      BY <3>2
    <3>4. is_coinbase(d[h].txs[i]) /\ p[1] = h /\ p[2] = i
      BY <3>1, <3>3
    <3>5. CASE h \in 1..Len(c)
      <4>1. d[h] = c[h]
        BY <1>1, <3>5
      <4>2. p \in Positions(c)
        BY <3>3, <3>5, <4>1, InPositions
      <4> QED BY <3>4, <4>1, <4>2 DEF Mints
    <3>6. CASE h = Len(c) + 1
      <4>1. i \in 1..n /\ is_coinbase(b.txs[i])
        BY <1>1, <3>4, <3>6
      <4>2. i = 1 \/ i \in 2..Len(b.txs)
        BY <1>0, <4>1
      <4>3. i = 1
        BY <4>1, <4>2 DEF PaidBlock, Paying
      <4>4. n # 0
        BY <4>1
      <4> QED BY <3>3, <3>6, <4>3, <4>4
    <3> QED BY <1>2, <3>5, <3>6
  <2>2. ASSUME NEW p \in Mints(c) PROVE p \in Mints(d)
    <3>1. p \in Positions(c) /\ is_coinbase(c[p[1]].txs[p[2]])
      BY DEF Mints
    <3>2. PICK h \in 1..Len(c) : \E i \in 1..Len(c[h].txs) : p = <<h, i>>
      BY <3>1, InPositions
    <3>3. PICK i \in 1..Len(c[h].txs) : p = <<h, i>>
      BY <3>2
    <3>4. h \in 1..Len(d) /\ d[h] = c[h] /\ p[1] = h
      BY <1>0, <1>1, <3>3
    <3>5. p \in Positions(d)
      BY <3>3, <3>4, InPositions
    <3> QED BY <3>1, <3>4, <3>5 DEF Mints
  <2>3. ASSUME n # 0 PROVE q \in Mints(d)
    <3>1. 1 \in 1..n /\ Len(c) + 1 \in 1..Len(d)
      BY <1>0, <1>1, <2>3
    <3>2. q \in Positions(d)
      BY <1>1, <3>1, InPositions
    <3>3. is_coinbase(b.txs[1])
      BY CoinbaseValue DEF PaidBlock
    <3>4. d[q[1]].txs[q[2]] = b.txs[1]
      BY <1>1, <3>1
    <3> QED BY <3>2, <3>3, <3>4 DEF Mints
  <2> QED BY <2>1, <2>2, <2>3
<1>4. /\ IsFiniteSet(Mints(c))
      /\ \A p \in Mints(c) : p[1] \in 1..Len(c) /\ outputs[c[p[1]].txs[p[2]]][1].amount \in Nat
  BY MintsFirst, SMTT(40)
<1>5. /\ \A p \in Mints(c) : v(c)[p] \in Nat /\ v(d)[p] = v(c)[p]
      /\ n # 0 => /\ q \notin Mints(c) /\ v(d)[q] = outputs[b.txs[1]][1].amount
                  /\ v(d)[q] \in Nat
  <2>1. ASSUME NEW p \in Mints(c) PROVE v(c)[p] \in Nat /\ v(d)[p] = v(c)[p]
    <3>1. d[p[1]] = c[p[1]] /\ p \in Mints(d)
      BY <1>1, <1>3, <1>4, SMTT(40)
    <3> QED BY <1>4, <3>1
  <2>2. ASSUME n # 0
        PROVE  /\ q \notin Mints(c) /\ v(d)[q] = outputs[b.txs[1]][1].amount
               /\ v(d)[q] \in Nat
    <3>1. q[1] = Len(c) + 1 /\ q[2] = 1 /\ 1 \in 1..n /\ q \in Mints(d)
      BY <1>0, <1>3, <2>2
    <3>2. d[q[1]].txs[q[2]] = b.txs[1] /\ b.txs[1] \in Coinbase \cup {Genesis}
      BY <1>1, <3>1 DEF PaidBlock
    <3>3. q \notin Mints(c)
      BY <1>0, <1>4, <3>1
    <3>4. v(d)[q] = outputs[b.txs[1]][1].amount
      BY <3>1, <3>2
    <3> QED BY <3>2, <3>3, <3>4, CoinbaseValue
  <2> QED BY <2>1, <2>2
<1>6. /\ DOMAIN v(c) = Mints(c) /\ DOMAIN v(d) = Mints(d)
      /\ Minted(c) = TotalOn(v(c), DOMAIN v(c)) /\ Minted(d) = TotalOn(v(d), DOMAIN v(d))
  BY DEF Minted, Total, TotalOn
<1> HIDE DEF v
<1>7. TotalOn(v(c), Mints(c)) = TotalOn(v(d), Mints(c)) /\ TotalOn(v(c), Mints(c)) \in Nat
  <2>1. Mints(c) \in SUBSET Mints(c)
    OBVIOUS
  <2> QED BY <1>4, <1>5, <2>1, TotalSame, TotalType
<1>8. CASE n = 0
  <2>1. Mints(d) = Mints(c)
    BY <1>3, <1>8
  <2> QED BY <1>6, <1>7, <1>8, <2>1 DEF d
<1>9. CASE n # 0
  <2> HIDE DEF q
  <2>1. Mints(d) = Mints(c) \cup {q} /\ Mints(d) \ {q} = Mints(c) /\ q \in Mints(d)
    BY <1>3, <1>5, <1>9
  <2>2. IsFiniteSet(Mints(c) \cup {q}) /\ \A p \in Mints(d) : v(d)[p] \in Nat
    BY <1>4, <1>5, <1>9, <2>1, FS_AddElement
  <2>3. TotalOn(v(d), Mints(d)) = v(d)[q] + TotalOn(v(d), Mints(d) \ {q})
    BY <2>1, <2>2, TotalRemove
  <2>4. TotalOn(v(d), Mints(d) \ {q}) = TotalOn(v(d), Mints(c))
    BY <2>1
  <2> QED BY <1>5, <1>6, <1>7, <1>9, <2>3, <2>4 DEF d
<1> QED BY <1>8, <1>9

-----------------------------------------------------------------------------
(* What is unspent is worth no more than what was issued *)

WithinMinted(c) == IsFiniteSet(Unspent(c)) /\ Value(Unspent(c)) <= Minted(c)

\* A block that is paid for, applied in part or in full, creates no money.
LEMMA BlockValue ==
  ASSUME NEW c \in Seq(Block), MintedFirst(c), WithinMinted(c),
         NEW b \in Block, PaidBlock(c, b), NEW n \in 0..Len(b.txs)
  PROVE  WithinMinted(Applied(c, b, n))
<1> DEFINE d == Applied(c, b, n)
           U == Unspent(c)
           I == SpentIn(b, n)
           O == CreatedIn(b, n)
           X == IF n = 0 THEN {} ELSE CreatedBy(b.txs[1])
           V == Unspent(d)
<1>1. /\ V \subseteq ((U \ I) \cup O) \cup X
      /\ I \subseteq U /\ IsFiniteSet(O) /\ O \subseteq Outputs /\ Value(O) <= Value(I)
      /\ IsFiniteSet(U) /\ U \subseteq Outputs /\ Value(U) <= Minted(c)
  BY UnspentParts, PaidUpTo, UnspentOutputs DEF WithinMinted
<1>2. /\ IsFiniteSet(X) /\ X \subseteq Outputs
      /\ Minted(c) \in Nat /\ Minted(d) = Minted(c) + Value(X)
  <2>1. /\ Minted(c) \in Nat
        /\ Minted(d) = Minted(c) + (IF n = 0 THEN 0 ELSE outputs[b.txs[1]][1].amount)
    BY MintedApplied
  <2>2. CASE n = 0
    <3>1. X = {} /\ IsFiniteSet(X) /\ X \subseteq Outputs
      BY <2>2, FS_EmptySet
    <3>2. Value({}) = TotalOn(Worth, {}) /\ TotalOn(Worth, {}) = 0
      BY <3>1, ValueTotal, TotalEmpty
    <3> QED BY <2>1, <2>2, <3>1, <3>2
  <2>3. CASE n # 0
    <3>1. b.txs[1] \in Coinbase \cup {Genesis}
      BY DEF PaidBlock
    <3> QED BY <2>1, <2>3, <3>1, CoinbaseValue, SumOutValue
  <2> QED BY <2>2, <2>3
<1> HIDE DEF d, U, I, O, X, V
<1>3. /\ IsFiniteSet(I) /\ I \subseteq Outputs
      /\ IsFiniteSet(U \ I) /\ U \ I \subseteq Outputs
      /\ IsFiniteSet((U \ I) \cup O) /\ (U \ I) \cup O \subseteq Outputs
      /\ IsFiniteSet(((U \ I) \cup O) \cup X) /\ ((U \ I) \cup O) \cup X \subseteq Outputs
      /\ IsFiniteSet(V) /\ V \subseteq Outputs
  <2>1. IsFiniteSet(I) /\ IsFiniteSet(U \ I)
    <3>1. I \in SUBSET U /\ U \ I \in SUBSET U
      BY <1>1
    <3> QED BY <1>1, <3>1, FS_Subset
  <2>2. IsFiniteSet((U \ I) \cup O)
    BY <1>1, <2>1, FS_Union
  <2>3. IsFiniteSet(((U \ I) \cup O) \cup X)
    BY <1>2, <2>2, FS_Union
  <2>4. IsFiniteSet(V)
    BY <1>1, <2>3, FS_Subset
  <2> QED BY <1>1, <1>2, <2>1, <2>2, <2>3, <2>4
<1>4. /\ Value(I) \in Nat /\ Value(U \ I) \in Nat /\ Value(O) \in Nat /\ Value(X) \in Nat
      /\ Value((U \ I) \cup O) \in Nat /\ Value(((U \ I) \cup O) \cup X) \in Nat
      /\ Value(V) \in Nat /\ Value(U) \in Nat
  BY <1>1, <1>2, <1>3, ValueTotal
<1>5. Value(U) = Value(U \ I) + Value(I)
  <2>1. (U \ I) \cup I = U /\ (U \ I) \cap I = {}
    BY <1>1
  <2>2. TotalOn(Worth, (U \ I) \cup I) = TotalOn(Worth, U \ I) + TotalOn(Worth, I)
    BY <1>1, <1>3, <2>1, TotalUnion, WorthNat
  <2>3. /\ Value(U) = TotalOn(Worth, U) /\ Value(I) = TotalOn(Worth, I)
        /\ Value(U \ I) = TotalOn(Worth, U \ I)
    BY <1>1, <1>3, ValueTotal
  <2> QED BY <2>1, <2>2, <2>3
<1>6. Value((U \ I) \cup O) <= Value(U \ I) + Value(O)
  <2> DEFINE W == U \ I
  <2>1. /\ IsFiniteSet(W) /\ W \subseteq Outputs
        /\ IsFiniteSet(W \cup O) /\ W \cup O \subseteq Outputs
    BY <1>3
  <2> HIDE DEF W
  <2>2. Value(W \cup O) <= Value(W) + Value(O)
    BY <1>1, <2>1, ValueTotal, TotalParts, WorthNat
  <2> QED BY <2>2 DEF W
<1>7. Value(V) <= Value((U \ I) \cup O) + Value(X)
  <2> DEFINE W == (U \ I) \cup O
  <2>1. /\ IsFiniteSet(W) /\ W \subseteq Outputs /\ V \in SUBSET (W \cup X)
        /\ IsFiniteSet(W \cup X) /\ W \cup X \subseteq Outputs
    BY <1>1, <1>3
  <2>2. Value(W) \in Nat /\ Value(W \cup X) \in Nat
    BY <1>4
  <2> HIDE DEF W
  <2>3. Value(W \cup X) <= Value(W) + Value(X)
    BY <1>2, <2>1, ValueTotal, TotalParts, WorthNat
  <2>4. Value(V) <= Value(W \cup X)
    <3>1. TotalOn(Worth, V) <= TotalOn(Worth, W \cup X)
      BY <2>1, TotalSubset, WorthNat
    <3> QED BY <1>3, <2>1, <3>1, ValueTotal
  <2>5. Value(V) <= Value(W) + Value(X)
    BY <1>4, <2>2, <2>3, <2>4
  <2> QED BY <2>5 DEF W
<1>8. Value(V) <= Minted(d)
  BY <1>1, <1>2, <1>4, <1>5, <1>6, <1>7
<1> QED BY <1>3, <1>8 DEF WithinMinted, V, d

\* Neither does a chain of such blocks, however far it has been loaded.
LEMMA ChainValue ==
  ASSUME NEW c \in Seq(Block), PaidChain(c), NEW n \in 0..Len(c)
  PROVE  MintedFirst(SubSeq(c, 1, n)) /\ WithinMinted(SubSeq(c, 1, n))
<1> DEFINE N == {k \in Nat : k <= Len(c) => WithinMinted(SubSeq(c, 1, k))}
<1>0. Len(c) \in Nat
  OBVIOUS
<1>1. ASSUME NEW k \in 0..Len(c)
      PROVE  /\ SubSeq(c, 1, k) \in Seq(Block) /\ Len(SubSeq(c, 1, k)) = k
             /\ \A h \in 1..k : SubSeq(c, 1, k)[h] = c[h]
             /\ MintedFirst(SubSeq(c, 1, k))
  <2>1. /\ SubSeq(c, 1, k) \in Seq(Block) /\ Len(SubSeq(c, 1, k)) = k
        /\ \A h \in 1..k : SubSeq(c, 1, k)[h] = c[h]
    BY <1>0
  <2>2. \A h \in 1..k : PaidBlock(SubSeq(c, 1, h - 1), c[h])
    BY <1>0 DEF PaidChain
  <2> QED BY <2>1, <2>2 DEF MintedFirst, PaidBlock, Paying
<1>2. 0 \in N
  <2>1. SubSeq(c, 1, 0) = <<>>
    OBVIOUS
  <2>2. Unspent(<<>>) = {} /\ IsFiniteSet({}) /\ {} \subseteq Outputs
    BY UnspentEmpty, FS_EmptySet
  <2>3. Value({}) = 0
    BY <2>2, ValueTotal, TotalEmpty
  <2>4. Minted(<<>>) \in Nat
    <3>1. <<>> \in Seq(Block) /\ MintedFirst(<<>>)
      BY DEF MintedFirst
    <3> QED BY <3>1, MintedNat
  <2>5. WithinMinted(<<>>)
    <3>1. IsFiniteSet(Unspent(<<>>)) /\ Value(Unspent(<<>>)) = 0
      BY <2>2, <2>3
    <3> QED BY <2>4, <3>1 DEF WithinMinted
  <2> QED BY <2>1, <2>5
<1>3. \A k \in Nat : k \in N => k + 1 \in N
  <2> SUFFICES ASSUME NEW k \in Nat, k + 1 <= Len(c), WithinMinted(SubSeq(c, 1, k))
               PROVE  WithinMinted(SubSeq(c, 1, k + 1))
    BY <1>0
  <2> DEFINE d == SubSeq(c, 1, k)
             e == SubSeq(c, 1, k + 1)
             b == c[k + 1]
  <2>1. /\ d \in Seq(Block) /\ Len(d) = k /\ MintedFirst(d)
        /\ \A h \in 1..k : d[h] = c[h]
        /\ e \in Seq(Block) /\ Len(e) = k + 1 /\ \A h \in 1..(k + 1) : e[h] = c[h]
    <3>1. k \in 0..Len(c) /\ k + 1 \in 0..Len(c)
      BY <1>0
    <3> QED BY <1>1, <3>1
  <2>2. b \in Block /\ k + 1 \in 1..Len(c)
    BY <1>0
  <2>3. PaidBlock(d, b)
    <3>1. (k + 1) - 1 = k
      OBVIOUS
    <3> QED BY <2>2, <3>1 DEF PaidChain
  <2> HIDE DEF d, e, b
  <2>4. e = Append(d, b)
    <3>1. /\ Append(d, b) \in Seq(Block) /\ Len(Append(d, b)) = k + 1
          /\ \A h \in 1..(k + 1) : Append(d, b)[h] = c[h]
      BY <2>1, <2>2 DEF b
    <3> QED BY <2>1, <3>1, SameChain
  <2>5. Len(b.txs) \in 0..Len(b.txs)
    BY <2>2 DEF Block
  <2>6. WithinMinted(Applied(d, b, Len(b.txs)))
    BY <2>1, <2>2, <2>3, <2>5, BlockValue DEF d
  <2> QED BY <2>1, <2>2, <2>4, <2>6, AppliedFull DEF e
<1> HIDE DEF N
<1>4. \A k \in Nat : k \in N
  BY <1>2, <1>3, Induction
<1> QED BY <1>0, <1>1, <1>4 DEF N

-----------------------------------------------------------------------------
(* The steps of the node *)

\* No submission lists an input twice: add_tx does not check it.
InputsOnce == \A st \in Submitted : \A i, j \in 1..Len(inputs[st.tx]) :
  inputs[st.tx][i] = inputs[st.tx][j] => i = j

\* The blocks in memory are the first ones of the database.
LEMMA LoadedPrefix ==
  ASSUME IInv PROVE Len(blocks) \in 0..Len(blocks_db) /\ blocks = SubSeq(blocks_db, 1, Len(blocks))
<1>1. /\ blocks \in Seq(Block) /\ blocks_db \in Seq(Block)
      /\ Len(blocks) \in Nat /\ Len(blocks_db) \in Nat
  BY DEF IInv, TypeOK
<1>2. Len(blocks) <= Len(blocks_db) /\ \A h \in 1..Len(blocks) : blocks[h] = blocks_db[h]
  <2>1. CASE phase \in {"down", "genesis"}
    <3>1. blocks = <<>>
      BY <2>1 DEF IInv, Mirror, BlocksMirror, MemEmpty
    <3> QED BY <1>1, <3>1
  <2>2. CASE phase = "loading"
    BY <2>2 DEF IInv, Mirror, BlocksMirror
  <2>3. CASE phase = "up"
    BY <1>1, <2>3 DEF IInv, Mirror, BlocksMirror
  <2> QED BY <2>1, <2>2, <2>3 DEF IInv, TypeOK
<1> DEFINE p == SubSeq(blocks_db, 1, Len(blocks))
<1>3. /\ p \in Seq(Block) /\ Len(p) = Len(blocks)
      /\ \A h \in 1..Len(blocks) : p[h] = blocks_db[h]
  BY <1>1, <1>2
<1> HIDE DEF p
<1>4. blocks = p
  BY <1>1, <1>2, <1>3, SameChain
<1> QED BY <1>1, <1>2, <1>4 DEF p

\* The invariant is what ValueConserved needs.
LEMMA ValueFollows == IInv /\ ValueInv => ValueConserved
<1> SUFFICES ASSUME IInv, ValueInv PROVE ValueConserved
  OBVIOUS
<1>1. /\ blocks \in Seq(Block) /\ blocks_db \in Seq(Block) /\ PaidChain(blocks_db)
      /\ utxo = Unspent(AppliedChain)
  BY DEF IInv, TypeOK, ValueInv, UtxoMatchesChain
<1>2. Len(blocks) \in 0..Len(blocks_db) /\ blocks = SubSeq(blocks_db, 1, Len(blocks))
  BY LoadedPrefix
<1>3. MintedFirst(blocks) /\ WithinMinted(blocks)
  <2> DEFINE n == Len(blocks)
  <2>1. n \in 0..Len(blocks_db) /\ blocks = SubSeq(blocks_db, 1, n)
    BY <1>2
  <2> HIDE DEF n
  <2> QED BY <1>1, <2>1, ChainValue
<1>4. CASE blk = NoBlock
  BY <1>1, <1>3, <1>4 DEF ValueConserved, AppliedChain, WithinMinted
<1>5. CASE blk # NoBlock
  <2>1. blk \in Block /\ done \in 0..Len(blk.txs)
    BY <1>5 DEF IInv, TypeOK, Mirror, BlocksMirror, Block
  <2>2. PaidBlock(blocks, blk)
    <3>1. CASE phase = "up"
      BY <1>5, <3>1 DEF ValueInv
    <3>2. CASE phase = "loading"
      <4> DEFINE h == Len(blocks) + 1
      <4>1. h \in 1..Len(blocks_db) /\ blk = blocks_db[h] /\ h - 1 = Len(blocks)
        BY <1>1, <1>5, <3>2 DEF IInv, Mirror, BlocksMirror
      <4>2. PaidBlock(SubSeq(blocks_db, 1, h - 1), blocks_db[h])
        BY <1>1, <4>1 DEF PaidChain
      <4> HIDE DEF h
      <4> QED BY <1>2, <4>1, <4>2
    <3> QED BY <1>5, <3>1, <3>2 DEF IInv, Mirror, BlocksMirror
  <2>3. WithinMinted(Applied(blocks, blk, done))
    BY <1>1, <1>3, <2>1, <2>2, BlockValue
  <2> QED BY <1>1, <1>5, <2>3 DEF ValueConserved, AppliedChain, WithinMinted
<1> QED BY <1>4, <1>5

\* A longer database of blocks that are paid for.
LEMMA PaidAppend ==
  ASSUME NEW c \in Seq(Block), PaidChain(c), NEW b \in Block, PaidBlock(c, b)
  PROVE  PaidChain(Append(c, b))
<1> DEFINE d == Append(c, b)
<1>1. /\ d \in Seq(Block) /\ Len(d) = Len(c) + 1 /\ Len(c) \in Nat
      /\ d[Len(c) + 1] = b /\ \A k \in 1..Len(c) : d[k] = c[k]
  BY AppendProperties
<1> HIDE DEF d
<1>2. \A n \in 0..Len(c) : SubSeq(d, 1, n) = SubSeq(c, 1, n)
  <2> SUFFICES ASSUME NEW n \in 0..Len(c) PROVE SubSeq(d, 1, n) = SubSeq(c, 1, n)
    OBVIOUS
  <2>1. /\ SubSeq(d, 1, n) \in Seq(Block) /\ Len(SubSeq(d, 1, n)) = n
        /\ SubSeq(c, 1, n) \in Seq(Block) /\ Len(SubSeq(c, 1, n)) = n
        /\ \A k \in 1..n : SubSeq(d, 1, n)[k] = d[k] /\ SubSeq(c, 1, n)[k] = c[k]
    BY <1>1
  <2>2. \A k \in 1..n : SubSeq(d, 1, n)[k] = SubSeq(c, 1, n)[k]
    BY <1>1, <2>1
  <2> QED BY <2>1, <2>2, SameChain
<1>3. SubSeq(c, 1, Len(c)) = c
  OBVIOUS
<1> SUFFICES ASSUME NEW h \in 1..(Len(c) + 1) PROVE PaidBlock(SubSeq(d, 1, h - 1), d[h])
  BY <1>1 DEF PaidChain, d
<1>4. h - 1 \in 0..Len(c) /\ SubSeq(d, 1, h - 1) = SubSeq(c, 1, h - 1)
  BY <1>1, <1>2
<1>5. CASE h = Len(c) + 1
  <2>1. h - 1 = Len(c)
    BY <1>1, <1>5
  <2> QED BY <1>3, <1>4, <1>1, <1>5, <2>1
<1>6. CASE h \in 1..Len(c)
  BY <1>1, <1>4, <1>6 DEF PaidChain
<1> QED BY <1>1, <1>5, <1>6

\* What add_block is given is paid for: the pool transactions pay, with outputs
\* that are unspent and that no two of them share.
LEMMA BeginBlockPaid == ASSUME IInv, ValueInv, BeginBlock PROVE ValueInv'
<1>1. PICK c \in Coinbase, refs \in RefLists, ts \in Timestamp :
        LockForBlock(Assemble(TipHash, c, refs, ts))
  BY DEF BeginBlock
<1> DEFINE b == Assemble(TipHash, c, refs, ts)
<1>2. /\ phase = "up" /\ blk = NoBlock /\ blk' = b /\ TypeOK /\ blocks # <<>>
      /\ pool = pool_db /\ utxo = Unspent(blocks)
      /\ UNCHANGED <<blocks, blocks_db, pool_db>>
  BY <1>1 DEF LockForBlock, Unlocked, disk, IInv, Mirror, BlocksMirror,
              UtxoMatchesChain, AppliedChain
<1>3. /\ b.txs[1] = c /\ Len(b.txs) = Len(refs) + 1 /\ Len(refs) \in Nat
      /\ \A i \in 2..(Len(refs) + 1) : b.txs[i] \in pool
  BY <1>2, AssembleType
<1> HIDE DEF b
<1>4. \A i \in 2..Len(b.txs) : b.txs[i] \in pool
  BY <1>3
<1>5. PaidBlock(blocks, b)
  BY <1>2, <1>3, <1>4 DEF PaidBlock, ValueInv, IInv, PoolSpendable, NoCompetition
<1> QED BY <1>2, <1>5 DEF ValueInv

\* Every step keeps the pool and the blocks paid for.
LEMMA NextValueInv ==
  ASSUME InputsOnce, IInv, ValueInv, [Next]_vars PROVE ValueInv'
<1>0. /\ blocks \in Seq(Block) /\ blocks_db \in Seq(Block) /\ NoBlock \notin Block
      /\ blk \in Block \cup {NoBlock}
  BY NoBlockAssumption DEF IInv, TypeOK
<1>1. CASE LoadBlock \/ ApplyLoaded \/ PushLoaded \/ Process
  BY <1>1 DEF LoadBlock, ApplyLoaded, PushLoaded, Process, Start, Stop,
              Crash, LoseMemory, mem, disk, ValueInv
<1>2. CASE load_pool
  BY <1>2 DEF load_pool, disk, ValueInv
<1>3. CASE create_genesis
  <2>1. /\ blocks = <<>> /\ blocks_db = <<>> /\ blk = NoBlock /\ blk' = NoBlock
        /\ pool_db' = pool_db
        /\ blocks_db' = PutBlock(blocks_db, Len(blocks) + 1, GenesisBlock)
    BY <1>3 DEF create_genesis, IInv, Mirror, BlocksMirror
  <2>2. blocks_db' = Append(blocks_db, GenesisBlock)
    BY <1>0, <2>1, GenesisType, PutAppends
  <2>3. PaidBlock(blocks_db, GenesisBlock)
    <3>1. Len(GenesisBlock.txs) = 1 /\ GenesisBlock.txs[1] = Genesis /\ 2..1 = {}
      BY GenesisType
    <3> QED BY <3>1 DEF PaidBlock
  <2>4. PaidChain(blocks_db')
    BY <1>0, <2>2, <2>3, GenesisType, PaidAppend DEF ValueInv
  <2> QED BY <2>1, <2>4 DEF ValueInv
<1>4. ASSUME NEW st \in Submitted, add_tx(st) PROVE ValueInv'
  <2>1. /\ phase = "up" /\ blk = NoBlock /\ blk' = NoBlock
        /\ ValidateTx(st, utxo, pool, pool_spent) = "None"
        /\ pool_db' = pool_db \cup {st.tx} /\ blocks_db' = blocks_db
    BY <1>4 DEF add_tx, Unlocked
  <2>2. utxo \in SUBSET Outputs
    BY <1>0, <2>1, UnspentOutputs DEF IInv, UtxoMatchesChain, AppliedChain
  <2>3. st \in SignedTransaction
    BY SubmittedAssumption
  <2>4. \A i, j \in 1..Len(inputs[st.tx]) : inputs[st.tx][i] = inputs[st.tx][j] => i = j
    BY DEF InputsOnce
  <2>5. Paying(st.tx)
    BY <2>1, <2>2, <2>3, <2>4, ValidatedPays
  <2> QED BY <2>1, <2>5 DEF ValueInv
<1>5. ASSUME NEW st \in Submitted, reject_tx(st) PROVE ValueInv'
  BY <1>5 DEF reject_tx, vars, mem, disk, ValueInv
<1>6. CASE BeginBlock
  BY <1>6, BeginBlockPaid
<1>7. CASE ApplyMined
  <2>1. /\ pool_db' \subseteq pool_db /\ UNCHANGED <<phase, blocks, blk, blocks_db>>
    BY <1>7 DEF ApplyMined, Unpool
  <2> QED BY <2>1 DEF ValueInv
<1>8. CASE StoreBlock
  <2>1. /\ phase = "up" /\ blk \in Block /\ blk # NoBlock /\ blk' = NoBlock
        /\ pool_db' = pool_db /\ blocks = blocks_db
        /\ blocks_db' = PutBlock(blocks_db, Len(blocks) + 1, blk)
    BY <1>0, <1>8 DEF StoreBlock, IInv, Mirror, BlocksMirror
  <2>2. blocks_db' = Append(blocks_db, blk)
    BY <1>0, <2>1, PutAppends
  <2>3. PaidChain(blocks_db')
    BY <1>0, <2>1, <2>2, PaidAppend DEF ValueInv
  <2> QED BY <2>1, <2>3 DEF ValueInv
<1>9. CASE UNCHANGED vars
  BY <1>9 DEF vars, mem, disk, ValueInv
<1> QED BY <1>1, <1>2, <1>3, <1>4, <1>5, <1>6, <1>7, <1>8, <1>9
        DEF Next, LoadStep, BlockStep, Submission

\* The unspent outputs are never worth more than the coinbases have issued, at
\* every point of load_blocks and add_block and after any crash, if no wallet
\* submits a transaction that lists an input twice: the sums of add_tx are the
\* only check, made once, against the UTXO set of that moment.
THEOREM NoMoneyCreated == ASSUME InputsOnce PROVE Spec => []ValueConserved
<1>1. Init => ValueInv
  BY DEF Init, MemEmpty, ValueInv, PaidChain
<1>2. IInv /\ ValueInv /\ [Next]_vars => ValueInv'
  BY NextValueInv
<1>3. IInv /\ ValueInv => ValueConserved
  BY ValueFollows
<1> QED BY <1>1, <1>2, <1>3, Invariance, PTL DEF Spec
=============================================================================

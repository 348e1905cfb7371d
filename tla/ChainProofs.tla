---------------------------- MODULE ChainProofs ----------------------------
(***************************************************************************)
(* Proofs about Chain: IInv is inductive, for any universe of transactions *)
(* and any bounds, and the safety properties of the runs follow from it.   *)
(***************************************************************************)
EXTENDS Chain, SequenceTheorems, TLAPS

-----------------------------------------------------------------------------
(* Beside IInv of Chain *)

\* A block hash grows by one part per block, so it tells the height.
HashHeights ==
  \A h \in 1..Len(blocks_db) : Len(blocks_db[h].prev_hash) = h - 1

-----------------------------------------------------------------------------
(* The operators of Ledger *)

\* The inputs of a transaction are outpoints.
LEMMA SpentByType == ASSUME NEW t \in Tx PROVE SpentBy(t) \subseteq OutPoint
BY TxAssumption DEF SpentBy

\* The outputs of a transaction are named by outpoints within MaxIndex.
LEMMA CreatedByType == ASSUME NEW t \in Tx PROVE CreatedBy(t) \subseteq OutPoint
<1> SUFFICES ASSUME NEW i \in 1..Len(outputs[t])
             PROVE  [txid |-> t, index |-> i - 1] \in OutPoint
  BY DEF CreatedBy
<1>1. /\ Len(outputs[t]) \in Nat /\ Len(outputs[t]) <= MaxIndex + 1
      /\ MaxIndex \in Nat
  BY TxAssumption, BoundsAssumption
<1> QED BY <1>1 DEF OutPoint

\* apply_tx keeps the types of utxo_ and address_utxo_.
LEMMA ApplyType ==
  ASSUME NEW ix \in [Address -> [OutPoint -> Nat]], NEW u \in SUBSET OutPoint,
         NEW t \in Tx
  PROVE  /\ ApplyToUtxo(u, t) \subseteq OutPoint
         /\ ApplyToIndex(ix, u, t) \in [Address -> [OutPoint -> Nat]]
<1>1. ApplyToUtxo(u, t) \subseteq OutPoint
  BY CreatedByType DEF ApplyToUtxo
<1>2. ApplyToIndex(ix, u, t) \in [Address -> [OutPoint -> Nat]]
  BY DEF ApplyToIndex
<1> QED BY <1>1, <1>2

\* apply_tx keeps the address index in step with utxo_.
LEMMA ApplyIndexSound ==
  ASSUME NEW ix \in [Address -> [OutPoint -> Nat]], NEW u \in SUBSET OutPoint,
         NEW t \in Tx,
         \A a \in Address, op \in OutPoint :
           ix[a][op] > 0 <=> (op \in u /\ OutputAt(op).recipient = a)
  PROVE  \A a \in Address, op \in OutPoint :
           ApplyToIndex(ix, u, t)[a][op] > 0
             <=> (op \in ApplyToUtxo(u, t) /\ OutputAt(op).recipient = a)
<1> SUFFICES ASSUME NEW a \in Address, NEW op \in OutPoint
             PROVE  ApplyToIndex(ix, u, t)[a][op] > 0
                     <=> (op \in ApplyToUtxo(u, t) /\ OutputAt(op).recipient = a)
  OBVIOUS
<1> DEFINE mine == OutputAt(op).recipient = a
           kept == IF op \in SpentBy(t) \cap u /\ mine THEN 0 ELSE ix[a][op]
           made == IF op \in CreatedBy(t) /\ mine THEN 1 ELSE 0
<1>1. ApplyToIndex(ix, u, t)[a][op] = kept + made
  BY DEF ApplyToIndex
<1>2. kept \in Nat /\ made \in Nat
  OBVIOUS
<1>3. kept > 0 <=> (op \in u \ SpentBy(t) /\ mine)
  OBVIOUS
<1>4. made > 0 <=> (op \in CreatedBy(t) /\ mine)
  OBVIOUS
<1>5. kept + made > 0 <=> (kept > 0 \/ made > 0)
  BY <1>2
<1> QED BY <1>1, <1>3, <1>4, <1>5 DEF ApplyToUtxo

\* A submission that passes add_tx spends outputs that are unspent and that no
\* other pool transaction has claimed.
LEMMA ValidateNone ==
  ASSUME NEW st \in SignedTransaction, NEW u, NEW p, NEW ps,
         ValidateTx(st, u, p, ps) = "None"
  PROVE  /\ SpentBy(st.tx) \subseteq u
         /\ SpentBy(st.tx) \cap ps = {}
         /\ st.tx \notin p
         /\ inputs[st.tx] # <<>>
<1> DEFINE t == st.tx
           ie == InputError(t, derive_address[st.pubkey], u)
<1>1. /\ ie = "None" /\ t \notin p /\ SpentBy(t) \cap ps = {}
      /\ inputs[t] # <<>>
  BY DEF ValidateTx, ClaimedByPool
<1>2. \A i \in 1..Len(inputs[t]) : inputs[t][i] \in u
  BY <1>1 DEF InputError
<1> QED BY <1>1, <1>2 DEF SpentBy

-----------------------------------------------------------------------------
(* The unspent outputs of a chain *)

\* A partly applied block, position by position.
LEMMA AppliedFacts ==
  ASSUME NEW c \in Seq(Block), NEW b \in Block, NEW n \in 0..Len(b.txs)
  PROVE  /\ Applied(c, b, n) \in Seq(Block)
         /\ Len(Applied(c, b, n)) = Len(c) + 1
         /\ \A k \in 1..Len(c) : Applied(c, b, n)[k] = c[k]
         /\ Len(Applied(c, b, n)[Len(c) + 1].txs) = n
         /\ \A j \in 1..n : Applied(c, b, n)[Len(c) + 1].txs[j] = b.txs[j]
<1> DEFINE s == SubSeq(b.txs, 1, n)
           cut == CutBlock(b, n)
<1>1. b.txs \in Seq(Tx) /\ Len(b.txs) \in Nat /\ n \in Nat
  BY DEF Block
<1>2. \A i \in 1..n : b.txs[i] \in Tx
  BY <1>1
<1>3. /\ s \in Seq(Tx) /\ Len(s) = n
      /\ \A i \in 1..n : s[i] = b.txs[i]
  BY <1>1, <1>2, SubSeqProperties, Z3
<1>4. cut \in Block /\ cut.txs = s
  BY <1>3 DEF Block, CutBlock
<1>5. /\ Append(c, cut) \in Seq(Block)
      /\ Len(Append(c, cut)) = Len(c) + 1
      /\ \A k \in 1..Len(c) : Append(c, cut)[k] = c[k]
      /\ Append(c, cut)[Len(c) + 1] = cut
  BY <1>4, AppendProperties
<1> QED BY <1>3, <1>4, <1>5 DEF Applied

\* Once every transaction is applied the block is part of the chain.
LEMMA AppliedFull ==
  ASSUME NEW c \in Seq(Block), NEW b \in Block
  PROVE  Applied(c, b, Len(b.txs)) = Append(c, b)
<1>1. b.txs \in Seq(Tx) /\ Len(b.txs) \in Nat
  BY DEF Block
<1> DEFINE s == SubSeq(b.txs, 1, Len(b.txs))
<1>2. s = b.txs
  BY <1>1
<1>3. CutBlock(b, Len(b.txs)) = b
  BY <1>2 DEF Block, CutBlock
<1> QED BY <1>3 DEF Applied

\* An empty chain leaves nothing unspent.
LEMMA UnspentEmpty == Unspent(<<>>) = {}
BY DEF Unspent

\* A block of which nothing has been applied changes nothing.
LEMMA UnspentStart ==
  ASSUME NEW c \in Seq(Block), NEW b \in Block
  PROVE  Unspent(Applied(c, b, 0)) = Unspent(c)
<1> DEFINE d == Applied(c, b, 0)
<1>0. Len(c) \in Nat /\ 0 \in 0..Len(b.txs)
  BY DEF Block
<1>1. /\ Len(d) = Len(c) + 1
      /\ \A k \in 1..Len(c) : d[k] = c[k]
      /\ Len(d[Len(c) + 1].txs) = 0
  BY <1>0, AppliedFacts
<1> HIDE DEF d
<1>2. ASSUME NEW op, NEW h \in 1..Len(c), NEW i \in 1..Len(c[h].txs)
      PROVE  LiveFrom(d, op, h, i) <=> LiveFrom(c, op, h, i)
  <2>1. ASSUME NEW k \in h..(Len(c) + 1)
        PROVE  (k \in h..Len(c) /\ d[k] = c[k]) \/ (k \notin h..Len(c) /\ Len(d[k].txs) = 0)
    BY <1>0, <1>1
  <2>2. d[h] = c[h] /\ \A k \in h..Len(c) : k \in h..(Len(c) + 1)
    BY <1>0, <1>1
  <2>3. Len(d) = Len(c) + 1
    BY <1>1
  <2>4. \A k \in h..(Len(c) + 1) : \A j \in 1..Len(d[k].txs) :
          k \in h..Len(c) /\ d[k] = c[k]
    BY <2>1
  <2>5. \A k \in h..Len(c) : k \in h..(Len(c) + 1) /\ d[k] = c[k]
    BY <2>1, <2>2
  <2>6. ASSUME LiveFrom(c, op, h, i) PROVE LiveFrom(d, op, h, i)
    BY <2>2, <2>3, <2>4, <2>6 DEF LiveFrom
  <2>7. ASSUME LiveFrom(d, op, h, i) PROVE LiveFrom(c, op, h, i)
    BY <2>2, <2>3, <2>5, <2>7 DEF LiveFrom
  <2> QED BY <2>6, <2>7
<1>3. \A h \in 1..Len(d) : (h \in 1..Len(c) /\ d[h] = c[h]) \/ Len(d[h].txs) = 0
  BY <1>0, <1>1
<1>4. \A h \in 1..Len(c) : h \in 1..Len(d) /\ d[h] = c[h]
  BY <1>0, <1>1
<1> QED BY <1>2, <1>3, <1>4 DEF Unspent, d

\* Chain e, of L blocks, has the positions of chain d with the same transactions,
\* and t behind them, at place n of its last block.
OneMore(d, e, L, n, t) ==
  /\ L \in Nat /\ t \in Tx
  /\ d \in Seq(Block) /\ Len(d) = L /\ e \in Seq(Block) /\ Len(e) = L
  /\ L \in 1..L /\ n \in 1..Len(e[L].txs) /\ Len(e[L].txs) = n
  /\ e[L].txs[n] = t
  /\ \A k \in 1..L : \A j \in 1..Len(d[k].txs) :
       /\ j \in 1..Len(e[k].txs) /\ e[k].txs[j] = d[k].txs[j]
       /\ k < L \/ j < n
  /\ \A k \in 1..L : \A j \in 1..Len(e[k].txs) :
       \/ k = L /\ j = n
       \/ j \in 1..Len(d[k].txs) /\ e[k].txs[j] = d[k].txs[j]

\* A partly applied block, before and after one more of its transactions.
LEMMA AppliedNext ==
  ASSUME NEW c \in Seq(Block), NEW b \in Block, NEW n \in Nat, n < Len(b.txs)
  PROVE  OneMore(Applied(c, b, n), Applied(c, b, n + 1), Len(c) + 1, n + 1,
                 b.txs[n + 1])
<1> DEFINE d == Applied(c, b, n)
           e == Applied(c, b, n + 1)
           L == Len(c) + 1
<1>0. /\ L \in Nat /\ Len(c) \in Nat /\ Len(b.txs) \in Nat
      /\ n \in 0..Len(b.txs) /\ n + 1 \in 0..Len(b.txs) /\ b.txs[n + 1] \in Tx
  BY DEF Block
<1>1. /\ d \in Seq(Block) /\ Len(d) = L
      /\ \A k \in 1..Len(c) : d[k] = c[k]
      /\ Len(d[L].txs) = n
      /\ \A j \in 1..n : d[L].txs[j] = b.txs[j]
  BY <1>0, AppliedFacts, ZenonT(60)
<1>2. /\ e \in Seq(Block) /\ Len(e) = L
      /\ \A k \in 1..Len(c) : e[k] = c[k]
      /\ Len(e[L].txs) = n + 1
      /\ \A j \in 1..(n + 1) : e[L].txs[j] = b.txs[j]
  BY <1>0, AppliedFacts, ZenonT(60)
<1> HIDE DEF d, e
<1>3. \A k \in 1..L : k \in 1..Len(c) \/ k = L
  BY <1>0
<1>4. ASSUME NEW k \in 1..L, NEW j \in 1..Len(d[k].txs)
      PROVE  /\ j \in 1..Len(e[k].txs) /\ e[k].txs[j] = d[k].txs[j]
             /\ k < L \/ j < n + 1
  <2>1. CASE k \in 1..Len(c)
    BY <1>0, <1>1, <1>2, <2>1
  <2>2. CASE k = L
    BY <1>0, <1>1, <1>2, <2>2
  <2> QED BY <1>3, <2>1, <2>2
<1>5. ASSUME NEW k \in 1..L, NEW j \in 1..Len(e[k].txs)
      PROVE  \/ k = L /\ j = n + 1
             \/ j \in 1..Len(d[k].txs) /\ e[k].txs[j] = d[k].txs[j]
  <2>1. CASE k \in 1..Len(c)
    BY <1>0, <1>1, <1>2, <2>1
  <2>2. CASE k = L
    BY <1>0, <1>1, <1>2, <2>2
  <2> QED BY <1>3, <2>1, <2>2
<1>6. L \in 1..L /\ e[L].txs[n + 1] = b.txs[n + 1] /\ n + 1 \in 1..Len(e[L].txs)
  BY <1>0, <1>2
<1> HIDE DEF L
<1>7. OneMore(d, e, L, n + 1, b.txs[n + 1])
  BY <1>0, <1>1, <1>2, <1>4, <1>5, <1>6, Zenon DEF OneMore
<1> QED BY <1>7 DEF d, e, L

\* Applying the next transaction of a block is what apply_tx does to utxo_.
LEMMA UnspentStep ==
  ASSUME NEW c \in Seq(Block), NEW b \in Block,
         NEW n \in Nat, n < Len(b.txs)
  PROVE  Unspent(Applied(c, b, n + 1))
           = ApplyToUtxo(Unspent(Applied(c, b, n)), b.txs[n + 1])
<1> DEFINE d == Applied(c, b, n)
           e == Applied(c, b, n + 1)
           L == Len(c) + 1
           t == b.txs[n + 1]
<1>1. OneMore(d, e, L, n + 1, t)
  BY AppliedNext
<1> HIDE DEF d, e, L, t
<1>2. /\ L \in Nat /\ t \in Tx /\ Len(d) = L /\ Len(e) = L
      /\ L \in 1..L /\ Len(e[L].txs) = n + 1 /\ e[L].txs[n + 1] = t
      /\ n + 1 \in 1..Len(e[L].txs)
  BY <1>1 DEF OneMore
<1>3. \A k \in 1..L : \A j \in 1..Len(d[k].txs) :
        /\ j \in 1..Len(e[k].txs) /\ e[k].txs[j] = d[k].txs[j]
        /\ k < L \/ j < n + 1
  BY <1>1, Zenon DEF OneMore
<1>4. \A k \in 1..L : \A j \in 1..Len(e[k].txs) :
        \/ k = L /\ j = n + 1
        \/ j \in 1..Len(d[k].txs) /\ e[k].txs[j] = d[k].txs[j]
  BY <1>1, Zenon DEF OneMore
<1>5. CreatedBy(t) \subseteq OutPoint
  BY <1>2, CreatedByType
<1>6. ASSUME NEW op \in Unspent(e) PROVE op \in ApplyToUtxo(Unspent(d), t)
  <2>1. PICK h \in 1..L : \E i \in 1..Len(e[h].txs) : LiveFrom(e, op, h, i)
    BY <1>2, <1>6 DEF Unspent
  <2>2. PICK i \in 1..Len(e[h].txs) : LiveFrom(e, op, h, i)
    BY <2>1
  <2>3. /\ op \in CreatedBy(e[h].txs[i])
        /\ \A k \in h..L : \A j \in 1..Len(e[k].txs) :
             (k > h \/ j > i) => op \notin SpentBy(e[k].txs[j])
    BY <1>2, <2>2 DEF LiveFrom
  <2>4. CASE h = L /\ i = n + 1
    BY <1>2, <2>3, <2>4 DEF ApplyToUtxo
  <2>5. CASE ~(h = L /\ i = n + 1)
    <3>1. i \in 1..Len(d[h].txs)
      BY <1>4, <2>3, <2>5
    <3>2. op \in CreatedBy(d[h].txs[i]) /\ (h < L \/ i < n + 1)
      BY <1>3, <2>3, <3>1
    <3>3. op \notin SpentBy(t)
      <4>1. L \in h..L /\ (L > h \/ n + 1 > i)
        BY <1>2, <3>2
      <4> QED BY <1>2, <2>3, <4>1
    <3>4. ASSUME NEW k \in h..L, NEW j \in 1..Len(d[k].txs), k > h \/ j > i
          PROVE  op \notin SpentBy(d[k].txs[j])
      <4>1. k \in 1..L
        BY <1>2
      <4>2. j \in 1..Len(e[k].txs) /\ e[k].txs[j] = d[k].txs[j]
        BY <1>3, <4>1
      <4> QED BY <2>3, <3>4, <4>2
    <3>5. op \in OutPoint
      BY <1>6 DEF Unspent
    <3>6. op \in Unspent(d)
      BY <1>2, <3>1, <3>2, <3>4, <3>5 DEF Unspent, LiveFrom
    <3> QED BY <3>3, <3>6 DEF ApplyToUtxo
  <2> QED BY <2>4, <2>5
<1>7. ASSUME NEW op \in CreatedBy(t) PROVE op \in Unspent(e)
  <2>1. ASSUME NEW k \in L..L, NEW j \in 1..Len(e[k].txs), k > L \/ j > n + 1
        PROVE  op \notin SpentBy(e[k].txs[j])
    BY <1>2, <2>1
  <2> QED BY <1>2, <1>5, <2>1 DEF Unspent, LiveFrom
<1>8. ASSUME NEW op \in Unspent(d), op \notin SpentBy(t) PROVE op \in Unspent(e)
  <2>1. PICK h \in 1..L : \E i \in 1..Len(d[h].txs) : LiveFrom(d, op, h, i)
    BY <1>2, <1>8 DEF Unspent
  <2>2. PICK i \in 1..Len(d[h].txs) : LiveFrom(d, op, h, i)
    BY <2>1
  <2>3. /\ op \in CreatedBy(d[h].txs[i])
        /\ \A k \in h..L : \A j \in 1..Len(d[k].txs) :
             (k > h \/ j > i) => op \notin SpentBy(d[k].txs[j])
    BY <1>2, <2>2 DEF LiveFrom
  <2>4. i \in 1..Len(e[h].txs) /\ op \in CreatedBy(e[h].txs[i])
    BY <1>3, <2>3
  <2>5. ASSUME NEW k \in h..L, NEW j \in 1..Len(e[k].txs), k > h \/ j > i
        PROVE  op \notin SpentBy(e[k].txs[j])
    <3>1. k \in 1..L
      BY <1>2
    <3>2. CASE k = L /\ j = n + 1
      BY <1>8, <1>2, <3>2
    <3>3. CASE j \in 1..Len(d[k].txs)
      BY <1>3, <2>3, <2>5, <3>1, <3>3
    <3> QED BY <1>4, <3>1, <3>2, <3>3
  <2>6. op \in OutPoint
    BY <1>8 DEF Unspent
  <2> QED BY <1>2, <2>3, <2>4, <2>5, <2>6 DEF Unspent, LiveFrom
<1> QED BY <1>6, <1>7, <1>8 DEF ApplyToUtxo, d, e, t

\* store_block and push_back of the block: nothing more changes.
LEMMA UnspentFull ==
  ASSUME NEW c \in Seq(Block), NEW b \in Block
  PROVE  Unspent(Append(c, b)) = Unspent(Applied(c, b, Len(b.txs)))
BY AppliedFull

\* block_key of the next height is a new key: the Put appends.
LEMMA PutAppends ==
  ASSUME NEW c \in Seq(Block), NEW b \in Block
  PROVE  PutBlock(c, Len(c) + 1, b) = Append(c, b)
<1>1. Len(c) \in Nat
  OBVIOUS
<1>2. (1..Len(c)) \cup {Len(c) + 1} = 1..(Len(c) + 1)
  BY <1>1
<1>3. PutBlock(c, Len(c) + 1, b)
        = [i \in 1..(Len(c) + 1) |-> IF i = Len(c) + 1 THEN b ELSE c[i]]
  BY <1>2 DEF PutBlock
<1> QED BY <1>1, <1>3

\* The block BeginBlock assembles is a block.
LEMMA AssembleType ==
  ASSUME TypeOK, blocks # <<>>, NEW c \in Coinbase, NEW refs \in RefLists,
         NEW ts \in Timestamp
  PROVE  /\ Assemble(TipHash, c, refs, ts) \in Block
         /\ Len(Assemble(TipHash, c, refs, ts).txs) = Len(refs) + 1
         /\ Len(refs) \in Nat
         /\ Assemble(TipHash, c, refs, ts).txs[1] = c
         /\ \A i \in 2..(Len(refs) + 1) :
              Assemble(TipHash, c, refs, ts).txs[i] \in pool
<1>1. PICK n \in 0..MaxRefs : refs \in [1..n -> pool]
  BY DEF RefLists
<1>2. refs \in Seq(pool) /\ Len(refs) = n /\ n \in Nat
  BY <1>1, ChainBounds
<1>3. refs \in Seq(Tx) /\ <<c>> \in Seq(Tx)
  BY <1>1, <1>2, CoinbaseAssumption DEF TypeOK
<1>4. blocks[Len(blocks)] \in Block
  BY DEF TypeOK
<1>5. TipHash \in Hash
  BY <1>4 DEF TipHash, BlockHash, Block, Hash, Body
<1>6. /\ <<c>> \o refs \in Seq(Tx) /\ Len(<<c>> \o refs) = n + 1
      /\ (<<c>> \o refs)[1] = c
      /\ \A i \in 2..(n + 1) : (<<c>> \o refs)[i] = refs[i - 1]
  BY <1>2, <1>3, ConcatProperties
<1>7. \A i \in 2..(n + 1) : refs[i - 1] \in pool
  BY <1>1, <1>2
<1> QED BY <1>2, <1>5, <1>6, <1>7 DEF Assemble, Block

\* The genesis block is a block.
LEMMA GenesisType ==
  /\ GenesisBlock \in Block /\ GenesisBlock.txs = <<Genesis>>
  /\ GenesisBlock.prev_hash = <<>>
BY CoinbaseAssumption, TimeAssumption DEF GenesisBlock, Block, Hash

\* Two chains that agree on their blocks are one chain.
LEMMA SameChain ==
  ASSUME NEW c \in Seq(Block), NEW d \in Seq(Block), Len(c) = Len(d),
         \A h \in 1..Len(c) : c[h] = d[h]
  PROVE  c = d
BY SeqEqual

-----------------------------------------------------------------------------
(* Type correctness *)

\* Every step keeps the types, given how blk relates to the databases.
LEMMA TypeStep == TypeOK /\ BlocksMirror /\ [Next]_vars => TypeOK'
<1> SUFFICES ASSUME TypeOK, BlocksMirror, [Next]_vars PROVE TypeOK'
  OBVIOUS
<1> USE DEF TypeOK
<1>1. CASE Start
  BY <1>1 DEF Start, mem, disk
<1>2. CASE LoadBlock
  BY <1>2 DEF LoadBlock, disk
<1>3. CASE ApplyLoaded \/ ApplyMined
  <2>1. blk \in Block /\ blk.txs[done + 1] \in Tx
    BY <1>3 DEF ApplyLoaded, ApplyMined, Block
  <2>2. apply_tx(blk.txs[done + 1])
    BY <1>3 DEF ApplyLoaded, ApplyMined
  <2>3. utxo' \subseteq OutPoint /\ address_utxo' \in [Address -> [OutPoint -> Nat]]
    BY <2>1, <2>2, ApplyType DEF apply_tx
  <2> QED BY <1>3, <2>3 DEF ApplyLoaded, ApplyMined, Unpool, disk
<1>4. CASE PushLoaded
  BY <1>4, AppendProperties DEF PushLoaded, disk
<1>5. CASE load_pool
  BY <1>5, SpentByType DEF load_pool, disk
<1>6. CASE create_genesis
  <2>1. blocks = <<>> /\ blocks_db = <<>>
    BY <1>6 DEF create_genesis, BlocksMirror
  <2>2. Append(blocks, GenesisBlock) \in Seq(Block)
    BY GenesisType, AppendProperties
  <2>3. PutBlock(blocks_db, Len(blocks) + 1, GenesisBlock) = Append(blocks, GenesisBlock)
    BY <2>1, GenesisType, PutAppends
  <2>4. blocks' \in Seq(Block) /\ blocks_db' \in Seq(Block)
    BY <1>6, <2>2, <2>3 DEF create_genesis
  <2>5. utxo' \subseteq OutPoint /\ address_utxo' \in [Address -> [OutPoint -> Nat]]
    BY <1>6, ApplyType, CoinbaseAssumption DEF create_genesis, apply_tx
  <2> QED BY <1>6, <2>4, <2>5 DEF create_genesis
<1>7. ASSUME NEW st \in Submitted, add_tx(st) PROVE TypeOK'
  <2>1. st.tx \in Tx
    BY SubmittedAssumption DEF SignedTransaction
  <2> QED BY <1>7, <2>1, SpentByType DEF add_tx
<1>8. ASSUME NEW st \in Submitted, reject_tx(st) PROVE TypeOK'
  BY <1>8 DEF reject_tx, vars, mem, disk
<1>9. CASE BeginBlock
  <2>1. blocks # <<>>
    BY <1>9 DEF BeginBlock, Unlocked, BlocksMirror
  <2> QED BY <1>9, <2>1, AssembleType DEF BeginBlock, LockForBlock, disk
<1>10. CASE StoreBlock
  <2>1. blk \in Block /\ blocks_db = blocks
    BY <1>10 DEF StoreBlock, BlocksMirror
  <2>2. Append(blocks, blk) \in Seq(Block)
    BY <2>1, AppendProperties
  <2>3. PutBlock(blocks_db, Len(blocks) + 1, blk) = Append(blocks, blk)
    BY <2>1, PutAppends
  <2> QED BY <1>10, <2>2, <2>3, SMTT(40) DEF StoreBlock
<1>11. CASE Stop \/ Crash
  <2>1. NoIndex \in [Address -> [OutPoint -> Nat]]
    BY DEF NoIndex
  <2>2. crashes' \in 0..MaxCrashes
    BY <1>11, ChainBounds DEF Stop, Crash
  <2>3. LoseMemory /\ phase' = "down" /\ UNCHANGED <<blocks_db, pool_db, acked>>
    BY <1>11 DEF Stop, Crash, disk
  <2>4. <<>> \in Seq(Block)
    OBVIOUS
  <2> QED BY <2>1, <2>2, <2>3, <2>4 DEF LoseMemory
<1>12. CASE UNCHANGED vars
  BY <1>12 DEF vars, mem, disk
<1> QED BY <1>1, <1>2, <1>3, <1>4, <1>5, <1>6, <1>7, <1>8, <1>9, <1>10, <1>11,
           <1>12 DEF Next, LoadStep, BlockStep, Submission, Process

-----------------------------------------------------------------------------
(* IInv is inductive *)

\* The state before the first start satisfies the invariant.
LEMMA InitIInv == Init => IInv
<1> SUFFICES ASSUME Init PROVE IInv
  OBVIOUS
<1> USE DEF Init, MemEmpty
<1>1. TypeOK
  <2>1. NoIndex \in [Address -> [OutPoint -> Nat]]
    BY DEF NoIndex
  <2>2. <<>> \in Seq(Block)
    OBVIOUS
  <2> QED BY <2>1, <2>2, ChainBounds DEF TypeOK
<1>2. UtxoMatchesChain
  BY UnspentEmpty DEF UtxoMatchesChain, AppliedChain
<1>3. IndexSound
  BY DEF IndexSound, NoIndex
<1>4. Mirror /\ DiskSound /\ BlockFits /\ PoolSpendable /\ PoolSpentExact
  BY DEF Mirror, BlocksMirror, DiskSound, BlockFits, PoolSpendable, NoCompetition, PoolSpentExact
<1>5. ChainLinked
  BY DEF ChainLinked
<1> QED BY <1>1, <1>2, <1>3, <1>4, <1>5 DEF IInv

\* The process ends: the databases alone satisfy their part of the invariant.
LEMMA ProcessIInv == ASSUME IInv, TypeOK', Process PROVE IInv'
<1>1. CASE Start
  <2>1. UNCHANGED <<mem, disk>>
    BY <1>1 DEF Start
  <2>2. MemEmpty /\ MemEmpty'
    BY <1>1, <2>1 DEF Start, IInv, Mirror, BlocksMirror, MemEmpty, mem
  <2>3. UtxoMatchesChain' /\ IndexSound' /\ DiskSound' /\ ChainLinked'
    BY <2>1 DEF IInv, UtxoMatchesChain, AppliedChain, IndexSound, DiskSound,
                ChainLinked, mem, disk
  <2>4. Mirror'
    BY <1>1, <2>2 DEF Start, Mirror, BlocksMirror, MemEmpty, TypeOK
  <2>5. BlockFits' /\ PoolSpendable' /\ PoolSpentExact'
    BY <1>1, <2>2 DEF Start, BlockFits, PoolSpendable, NoCompetition, PoolSpentExact, MemEmpty
  <2> QED BY <2>3, <2>4, <2>5 DEF IInv
<1>2. CASE Stop \/ Crash
  <2>1. LoseMemory /\ phase' = "down" /\ UNCHANGED <<blocks_db, pool_db>>
    BY <1>2 DEF Stop, Crash, disk
  <2>2. DiskSound' /\ ChainLinked'
    BY <2>1 DEF IInv, DiskSound, ChainLinked
  <2>3. UtxoMatchesChain'
    BY <2>1, UnspentEmpty DEF UtxoMatchesChain, AppliedChain, LoseMemory
  <2>4. IndexSound'
    BY <2>1 DEF IndexSound, NoIndex, LoseMemory
  <2>5. Mirror'
    BY <2>1 DEF Mirror, BlocksMirror, MemEmpty, LoseMemory
  <2>6. BlockFits' /\ PoolSpendable' /\ PoolSpentExact'
    BY <2>1 DEF BlockFits, PoolSpendable, NoCompetition, PoolSpentExact, LoseMemory
  <2> QED BY <2>2, <2>3, <2>4, <2>5, <2>6 DEF IInv
<1> QED BY <1>1, <1>2 DEF Process

\* apply_tx keeps IndexSound.
LEMMA IndexStep ==
  ASSUME TypeOK, IndexSound, NEW t \in Tx, apply_tx(t) PROVE IndexSound'
<1>1. /\ address_utxo \in [Address -> [OutPoint -> Nat]]
      /\ utxo \in SUBSET OutPoint
      /\ \A a \in Address, op \in OutPoint :
           address_utxo[a][op] > 0 <=> (op \in utxo /\ OutputAt(op).recipient = a)
  BY DEF TypeOK, IndexSound
<1>2. \A a \in Address, op \in OutPoint :
        ApplyToIndex(address_utxo, utxo, t)[a][op] > 0
          <=> (op \in ApplyToUtxo(utxo, t) /\ OutputAt(op).recipient = a)
  BY <1>1, ApplyIndexSound
<1> QED BY <1>2 DEF IndexSound, apply_tx

\* apply_tx on the next transaction of the block in progress.
LEMMA ApplyNext ==
  ASSUME TypeOK, blk # NoBlock, done < Len(blk.txs), done' = done + 1,
         apply_tx(blk.txs[done + 1]), UNCHANGED <<blocks, blk>>
  PROVE  /\ UtxoMatchesChain => UtxoMatchesChain'
         /\ IndexSound => IndexSound'
<1>1. /\ blk \in Block /\ blocks \in Seq(Block) /\ done \in Nat
      /\ blk.txs[done + 1] \in Tx
  BY DEF TypeOK, Block
<1>2. UtxoMatchesChain => UtxoMatchesChain'
  BY <1>1, UnspentStep DEF UtxoMatchesChain, AppliedChain, apply_tx
<1>3. IndexSound => IndexSound'
  BY <1>1, IndexStep
<1> QED BY <1>2, <1>3

\* The constructor rebuilds the memory from the databases.
LEMMA LoadIInv == ASSUME IInv, TypeOK', LoadStep PROVE IInv'
<1>0. /\ blocks \in Seq(Block) /\ blocks_db \in Seq(Block)
      /\ Len(blocks) \in Nat /\ Len(blocks_db) \in Nat
  BY DEF IInv, TypeOK
<1>1. CASE LoadBlock
  <2>0. /\ phase = "loading" /\ phase' = "loading" /\ done' = 0
        /\ Len(blocks) < Len(blocks_db) /\ blk = NoBlock
        /\ blk' = blocks_db[Len(blocks) + 1] /\ blk' \in Block
        /\ UNCHANGED <<blocks, height, utxo, address_utxo, pool, pool_spent,
                       blocks_db, pool_db>>
    BY <1>0, <1>1 DEF LoadBlock, disk
  <2>1. blk' # NoBlock
    BY <2>0, NoBlockAssumption
  <2>2. UtxoMatchesChain'
    BY <1>0, <2>0, <2>1, UnspentStart DEF IInv, UtxoMatchesChain, AppliedChain
  <2>3. Mirror'
    BY <1>0, <2>0, <2>1 DEF IInv, Mirror, BlocksMirror, Block
  <2>4. IndexSound' /\ DiskSound' /\ ChainLinked' /\ PoolSpendable'
    BY <2>0 DEF IInv, IndexSound, DiskSound, ChainLinked, PoolSpendable, NoCompetition
  <2>5. BlockFits' /\ PoolSpentExact'
    BY <2>0 DEF BlockFits, PoolSpentExact
  <2> QED BY <2>2, <2>3, <2>4, <2>5 DEF IInv
<1>2. CASE ApplyLoaded
  <2>0. /\ phase = "loading" /\ phase' = "loading" /\ blk # NoBlock
        /\ done < Len(blk.txs) /\ done' = done + 1 /\ done \in Nat
        /\ blk \in Block /\ Len(blk.txs) \in Nat
        /\ apply_tx(blk.txs[done + 1])
        /\ UNCHANGED <<blocks, blk, height, pool, pool_spent, blocks_db, pool_db>>
    BY <1>2 DEF ApplyLoaded, disk, IInv, TypeOK, Block
  <2>1. UtxoMatchesChain' /\ IndexSound'
    BY <2>0, ApplyNext DEF IInv
  <2>2. Mirror'
    BY <2>0 DEF IInv, Mirror, BlocksMirror
  <2>3. DiskSound' /\ ChainLinked'
    BY <2>0 DEF IInv, DiskSound, ChainLinked
  <2>4. BlockFits' /\ PoolSpentExact' /\ PoolSpendable'
    BY <2>0 DEF BlockFits, PoolSpentExact, PoolSpendable, NoCompetition, IInv, Mirror, BlocksMirror
  <2> QED BY <2>1, <2>2, <2>3, <2>4 DEF IInv
<1>3. CASE PushLoaded
  <2>0. /\ phase = "loading" /\ phase' = "loading" /\ blk # NoBlock
        /\ done = Len(blk.txs) /\ done' = 0 /\ blk' = NoBlock /\ blk \in Block
        /\ blocks' = Append(blocks, blk)
        /\ UNCHANGED <<utxo, address_utxo, height, pool, pool_spent,
                       blocks_db, pool_db>>
    BY <1>3 DEF PushLoaded, disk, IInv, TypeOK
  <2>1. UtxoMatchesChain'
    BY <1>0, <2>0, UnspentFull DEF IInv, UtxoMatchesChain, AppliedChain
  <2>2. /\ Len(blocks') = Len(blocks) + 1
        /\ \A h \in 1..Len(blocks) : blocks'[h] = blocks[h]
        /\ blocks'[Len(blocks) + 1] = blk
    BY <1>0, <2>0, AppendProperties
  <2>3. /\ Len(blocks) < Len(blocks_db) /\ blk = blocks_db[Len(blocks) + 1]
        /\ \A h \in 1..Len(blocks) : blocks[h] = blocks_db[h]
    BY <2>0 DEF IInv, Mirror, BlocksMirror
  <2>4. \A h \in 1..Len(blocks') : blocks'[h] = blocks_db'[h]
    BY <1>0, <2>0, <2>2, <2>3
  <2>5. Mirror'
    BY <1>0, <2>0, <2>2, <2>3, <2>4 DEF IInv, Mirror, BlocksMirror
  <2>6. IndexSound' /\ DiskSound' /\ ChainLinked' /\ PoolSpendable'
    BY <2>0 DEF IInv, IndexSound, DiskSound, ChainLinked, PoolSpendable, NoCompetition
  <2>7. BlockFits' /\ PoolSpentExact'
    BY <2>0 DEF BlockFits, PoolSpentExact
  <2> QED BY <2>1, <2>5, <2>6, <2>7 DEF IInv
<1>4. CASE load_pool
  <2>0. /\ phase = "loading" /\ blk = NoBlock /\ done = 0
        /\ Len(blocks) = Len(blocks_db) /\ height' = Len(blocks)
        /\ pool' = pool_db /\ pool_spent' = UNION {SpentBy(t) : t \in pool_db}
        /\ phase' = IF blocks = <<>> THEN "genesis" ELSE "up"
        /\ UNCHANGED <<blocks, utxo, address_utxo, blk, done, blocks_db, pool_db>>
    BY <1>4 DEF load_pool, disk, IInv, Mirror, BlocksMirror
  <2>1. blocks = blocks_db
    BY <1>0, <2>0, SameChain DEF IInv, Mirror, BlocksMirror
  <2>2. Mirror'
    BY <2>0, <2>1 DEF Mirror, BlocksMirror
  <2>3. UtxoMatchesChain' /\ IndexSound' /\ DiskSound' /\ ChainLinked'
    BY <2>0 DEF IInv, UtxoMatchesChain, AppliedChain, IndexSound, DiskSound,
                ChainLinked
  <2>4. utxo = Unspent(blocks_db)
    BY <2>0, <2>1 DEF IInv, UtxoMatchesChain, AppliedChain
  <2>5. PoolSpendable'
    BY <2>0, <2>4 DEF IInv, DiskSound, PoolSpendable, NoCompetition
  <2>6. PoolSpentExact' /\ BlockFits'
    BY <2>0 DEF PoolSpentExact, BlockFits
  <2> QED BY <2>2, <2>3, <2>5, <2>6 DEF IInv
<1>5. CASE create_genesis
  <2>0. /\ phase = "genesis" /\ phase' = "up" /\ blk = NoBlock
        /\ blocks = <<>> /\ blocks_db = <<>> /\ done = 0
        /\ blocks_db' = PutBlock(blocks_db, Len(blocks) + 1, GenesisBlock)
        /\ apply_tx(Genesis) /\ blocks' = Append(blocks, GenesisBlock)
        /\ height' = 1 /\ pool = pool_db
        /\ UNCHANGED <<pool, pool_spent, blk, done, pool_db>>
    BY <1>5 DEF create_genesis, IInv, Mirror, BlocksMirror
  <2>1. blocks' = <<GenesisBlock>> /\ blocks_db' = <<GenesisBlock>>
    <3>1. Append(<<>>, GenesisBlock) = <<GenesisBlock>>
      OBVIOUS
    <3>2. PutBlock(<<>>, Len(<<>>) + 1, GenesisBlock) = Append(<<>>, GenesisBlock)
      BY <1>0, <2>0, GenesisType, PutAppends
    <3> QED BY <2>0, <3>1, <3>2
  <2>2. utxo = {}
    BY <2>0, UnspentEmpty DEF IInv, UtxoMatchesChain, AppliedChain
  <2>3. Unspent(<<GenesisBlock>>) = ApplyToUtxo({}, Genesis)
    <3> DEFINE G == GenesisBlock
    <3>1. /\ <<>> \in Seq(Block) /\ G \in Block /\ Len(G.txs) = 1
          /\ G.txs[0 + 1] = Genesis /\ 0 < Len(G.txs)
      BY GenesisType
    <3>2. Unspent(Applied(<<>>, G, 0)) = {}
      BY <3>1, UnspentStart, UnspentEmpty
    <3>3. Unspent(Applied(<<>>, G, 0 + 1)) = ApplyToUtxo({}, Genesis)
      BY <3>1, <3>2, UnspentStep
    <3>4. Unspent(Append(<<>>, G)) = Unspent(Applied(<<>>, G, Len(G.txs)))
      BY <3>1, UnspentFull
    <3> QED BY <3>1, <3>3, <3>4
  <2>4. UtxoMatchesChain'
    BY <2>0, <2>1, <2>2, <2>3 DEF UtxoMatchesChain, AppliedChain, apply_tx
  <2>5. IndexSound'
    BY <2>0, CoinbaseAssumption, IndexStep DEF IInv
  <2>6. \A t \in pool_db : SpentBy(t) = {}
    BY <2>0, UnspentEmpty DEF IInv, DiskSound
  <2>7. DiskSound' /\ PoolSpendable'
    BY <2>0, <2>6 DEF IInv, DiskSound, PoolSpendable, NoCompetition
  <2>8. PoolSpentExact' /\ BlockFits'
    BY <2>0 DEF IInv, PoolSpentExact, BlockFits
  <2>9. ChainLinked'
    BY <2>1, GenesisType DEF ChainLinked
  <2>10. Mirror'
    BY <2>0, <2>1 DEF Mirror, BlocksMirror
  <2> QED BY <2>4, <2>5, <2>7, <2>8, <2>9, <2>10 DEF IInv
<1> QED BY <1>1, <1>2, <1>3, <1>4, <1>5 DEF LoadStep

\* add_tx lets in only what can be mined next to the rest of the pool.
LEMMA AddTxIInv ==
  ASSUME IInv, TypeOK', NEW st \in Submitted, add_tx(st) PROVE IInv'
<1> DEFINE t == st.tx
<1>0. /\ phase = "up" /\ phase' = "up" /\ blk = NoBlock
      /\ ValidateTx(st, utxo, pool, pool_spent) = "None"
      /\ pool' = pool \cup {t} /\ pool_spent' = pool_spent \cup SpentBy(t)
      /\ pool_db' = pool_db \cup {t}
      /\ UNCHANGED <<blocks, height, utxo, address_utxo, blk, done, blocks_db>>
  BY DEF add_tx, Unlocked
<1>1. SpentBy(t) \subseteq utxo /\ SpentBy(t) \cap pool_spent = {}
  BY <1>0, SubmittedAssumption, ValidateNone
<1>2. /\ pool = pool_db /\ blocks = blocks_db /\ utxo = Unspent(blocks_db)
      /\ pool_spent = UNION {SpentBy(s) : s \in pool}
  BY <1>0 DEF IInv, Mirror, BlocksMirror, UtxoMatchesChain, AppliedChain, PoolSpentExact
<1>3. \A s \in pool : SpentBy(s) \cap SpentBy(t) = {}
  BY <1>1, <1>2
<1>4. PoolSpendable'
  BY <1>0, <1>1, <1>3 DEF IInv, PoolSpendable, NoCompetition
<1>5. PoolSpentExact'
  BY <1>0, <1>2 DEF PoolSpentExact
<1>6. DiskSound'
  BY <1>0, <1>2, <1>4 DEF DiskSound, PoolSpendable, NoCompetition
<1>7. Mirror'
  BY <1>0 DEF IInv, Mirror, BlocksMirror
<1>8. UtxoMatchesChain' /\ IndexSound' /\ ChainLinked'
  BY <1>0 DEF IInv, UtxoMatchesChain, AppliedChain, IndexSound, ChainLinked
<1>9. BlockFits'
  BY <1>0 DEF BlockFits
<1> QED BY <1>4, <1>5, <1>6, <1>7, <1>8, <1>9 DEF IInv

\* A block on_create_block lets in fits the pool and the tip.
LEMMA BeginBlockIInv == ASSUME IInv, TypeOK', BeginBlock PROVE IInv'
<1>1. PICK c \in Coinbase, refs \in RefLists, ts \in Timestamp :
        LockForBlock(Assemble(TipHash, c, refs, ts))
  BY DEF BeginBlock
<1> DEFINE b == Assemble(TipHash, c, refs, ts)
<1>2. /\ phase = "up" /\ phase' = "up" /\ blk = NoBlock
      /\ blk' = b /\ done' = 0 /\ TypeOK /\ blocks # <<>>
      /\ blocks \in Seq(Block)
      /\ UNCHANGED <<blocks, height, utxo, address_utxo, pool, pool_spent,
                     blocks_db, pool_db>>
  BY <1>1 DEF LockForBlock, Unlocked, disk, IInv, Mirror, BlocksMirror, TypeOK
<1>3. /\ b \in Block /\ Len(b.txs) = Len(refs) + 1 /\ Len(refs) \in Nat
      /\ b.txs[1] = c /\ b.prev_hash = TipHash
      /\ \A i \in 2..(Len(refs) + 1) : b.txs[i] \in pool
  <2>1. b.prev_hash = TipHash
    BY DEF Assemble
  <2> QED BY <1>2, <2>1, AssembleType
<1> HIDE DEF b
<1>4. blk' # NoBlock
  BY <1>2, <1>3, NoBlockAssumption
<1>5. UtxoMatchesChain'
  BY <1>2, <1>3, <1>4, UnspentStart DEF IInv, UtxoMatchesChain, AppliedChain
<1>6. \A i \in 1..Len(b.txs), t \in pool :
        t # b.txs[i] => SpentBy(t) \cap SpentBy(b.txs[i]) = {}
  <2> SUFFICES ASSUME NEW i \in 1..Len(b.txs), NEW t \in pool, t # b.txs[i]
               PROVE  SpentBy(t) \cap SpentBy(b.txs[i]) = {}
    OBVIOUS
  <2>1. CASE i = 1
    BY <1>3, <2>1, CoinbaseAssumption DEF SpentBy
  <2>2. CASE i # 1
    BY <1>3, <2>2 DEF IInv, PoolSpendable, NoCompetition
  <2> QED BY <2>1, <2>2
<1>7. BlockFits'
  BY <1>2, <1>3, <1>6 DEF BlockFits, TipHash
<1>8. Mirror'
  BY <1>2, <1>3, <1>4 DEF IInv, Mirror, BlocksMirror
<1>9. IndexSound' /\ DiskSound' /\ ChainLinked' /\ PoolSpendable' /\ PoolSpentExact'
  BY <1>2 DEF IInv, IndexSound, DiskSound, ChainLinked, PoolSpendable, NoCompetition,
              PoolSpentExact
<1> QED BY <1>5, <1>7, <1>8, <1>9 DEF IInv

\* One iteration of add_block takes the transaction out of the pool and leaves
\* the others spendable.
LEMMA ApplyMinedIInv == ASSUME IInv, TypeOK', ApplyMined PROVE IInv'
<1> DEFINE t == blk.txs[done + 1]
<1>0. /\ phase = "up" /\ phase' = "up" /\ blk # NoBlock
      /\ done < Len(blk.txs) /\ done' = done + 1 /\ done \in Nat
      /\ blk \in Block /\ Len(blk.txs) \in Nat
      /\ apply_tx(t) /\ Unpool(t)
      /\ UNCHANGED <<blocks, height, blk, blocks_db>>
  BY DEF ApplyMined, IInv, TypeOK, Block
<1>1. UtxoMatchesChain' /\ IndexSound'
  BY <1>0, ApplyNext DEF IInv
<1>2. done + 1 \in (done + 1)..Len(blk.txs)
  BY <1>0
<1>3. \A s \in pool : s # t => SpentBy(s) \cap SpentBy(t) = {}
  BY <1>0, <1>2 DEF IInv, BlockFits
<1>4. is_coinbase(t) => SpentBy(t) = {}
  BY DEF is_coinbase, SpentBy
<1>5. pool' \subseteq pool /\ pool_db' \subseteq pool_db /\ pool' = pool_db'
  BY <1>0 DEF Unpool, IInv, Mirror, BlocksMirror
<1>6. \A s \in pool' : SpentBy(s) \cap SpentBy(t) = {}
  BY <1>0, <1>3, <1>4 DEF Unpool
<1>7. PoolSpendable'
  <2>1. utxo' = (utxo \ SpentBy(t)) \cup CreatedBy(t)
    BY <1>0 DEF apply_tx, ApplyToUtxo
  <2> QED BY <1>5, <1>6, <2>1 DEF IInv, PoolSpendable, NoCompetition
<1>8. PoolSpentExact'
  <2>1. pool_spent = UNION {SpentBy(s) : s \in pool}
    BY <1>0 DEF IInv, PoolSpentExact
  <2>2. CASE is_coinbase(t)
    BY <1>0, <2>1, <2>2 DEF Unpool, PoolSpentExact
  <2>3. CASE ~is_coinbase(t)
    <3>1. pool_spent' = pool_spent \ SpentBy(t) /\ pool' = pool \ {t}
      BY <1>0, <2>3 DEF Unpool
    <3> QED BY <1>0, <1>3, <2>1, <3>1 DEF PoolSpentExact
  <2> QED BY <2>2, <2>3
<1>9. DiskSound' /\ ChainLinked'
  BY <1>0, <1>5 DEF IInv, DiskSound, ChainLinked
<1>10. BlockFits'
  BY <1>0, <1>5 DEF IInv, BlockFits, TipHash
<1>11. Mirror'
  BY <1>0, <1>5 DEF IInv, Mirror, BlocksMirror
<1> QED BY <1>1, <1>7, <1>8, <1>9, <1>10, <1>11 DEF IInv

\* store_block and push_back: the databases agree with the memory again.
LEMMA StoreBlockIInv == ASSUME IInv, TypeOK', StoreBlock PROVE IInv'
<1>0. /\ phase = "up" /\ phase' = "up" /\ blk # NoBlock /\ blk \in Block
      /\ done = Len(blk.txs) /\ done' = 0 /\ blk' = NoBlock
      /\ blocks_db' = PutBlock(blocks_db, Len(blocks) + 1, blk)
      /\ blocks' = Append(blocks, blk) /\ height' = height + 1
      /\ blocks \in Seq(Block) /\ Len(blocks) \in Nat /\ blocks # <<>>
      /\ blocks = blocks_db /\ pool = pool_db /\ height = Len(blocks)
      /\ UNCHANGED <<utxo, address_utxo, pool, pool_spent, pool_db>>
  BY DEF StoreBlock, IInv, TypeOK, Mirror, BlocksMirror
<1>1. blocks_db' = blocks'
  BY <1>0, PutAppends
<1>2. /\ Len(blocks') = Len(blocks) + 1
      /\ \A h \in 1..Len(blocks) : blocks'[h] = blocks[h]
      /\ blocks'[Len(blocks) + 1] = blk /\ blocks' # <<>>
  BY <1>0, AppendProperties
<1>3. UtxoMatchesChain'
  BY <1>0, UnspentFull DEF IInv, UtxoMatchesChain, AppliedChain
<1>4. utxo = Unspent(blocks_db')
  BY <1>0, <1>1, <1>3 DEF UtxoMatchesChain, AppliedChain
<1>5. DiskSound'
  BY <1>0, <1>4 DEF IInv, DiskSound, PoolSpendable, NoCompetition
<1>6. ChainLinked'
  <2>1. blk.prev_hash = BlockHash(blocks[Len(blocks)]) /\ Len(blocks) >= 1
    BY <1>0 DEF IInv, BlockFits, TipHash
  <2>2. \A h \in 1..Len(blocks) : blocks[h].prev_hash =
          IF h = 1 THEN <<>> ELSE BlockHash(blocks[h - 1])
    BY <1>0 DEF IInv, ChainLinked
  <2> SUFFICES ASSUME NEW h \in 1..(Len(blocks) + 1)
               PROVE  blocks'[h].prev_hash =
                        IF h = 1 THEN <<>> ELSE BlockHash(blocks'[h - 1])
    BY <1>1, <1>2 DEF ChainLinked
  <2>3. CASE h = Len(blocks) + 1
    <3>1. h # 1 /\ h - 1 = Len(blocks) /\ blocks'[h - 1] = blocks[Len(blocks)]
      BY <1>0, <1>2, <2>1, <2>3
    <3> QED BY <1>2, <2>1, <2>3, <3>1
  <2>4. CASE h \in 1..Len(blocks)
    <3>1. h # 1 => blocks'[h - 1] = blocks[h - 1]
      BY <1>0, <1>2, <2>4
    <3> QED BY <1>2, <2>2, <2>4, <3>1
  <2> QED BY <1>0, <2>3, <2>4
<1>7. Mirror'
  BY <1>0, <1>1, <1>2 DEF Mirror, BlocksMirror
<1>8. IndexSound' /\ PoolSpendable' /\ PoolSpentExact'
  BY <1>0 DEF IInv, IndexSound, PoolSpendable, NoCompetition, PoolSpentExact
<1>9. BlockFits'
  BY <1>0 DEF BlockFits
<1> QED BY <1>3, <1>5, <1>6, <1>7, <1>8, <1>9 DEF IInv

\* A step that changes nothing.
LEMMA UnchangedIInv == ASSUME IInv, UNCHANGED vars PROVE IInv'
<1> USE DEF vars, mem, disk
<1>1. TypeOK' /\ Mirror'
  BY DEF IInv, TypeOK, Mirror, BlocksMirror, MemEmpty
<1>2. DiskSound' /\ PoolSpendable' /\ PoolSpentExact' /\ IndexSound'
  BY DEF IInv, DiskSound, PoolSpendable, NoCompetition, PoolSpentExact, IndexSound
<1>3. UtxoMatchesChain' /\ BlockFits' /\ ChainLinked'
  BY DEF IInv, UtxoMatchesChain, AppliedChain, BlockFits, TipHash, ChainLinked
<1> QED BY <1>1, <1>2, <1>3 DEF IInv

\* Every step preserves the invariant.
LEMMA NextIInv == IInv /\ [Next]_vars => IInv'
<1> SUFFICES ASSUME IInv, [Next]_vars PROVE IInv'
  OBVIOUS
<1>0. TypeOK'
  BY TypeStep DEF IInv, Mirror
<1>1. CASE LoadStep
  BY <1>0, <1>1, LoadIInv
<1>2. CASE Submission
  <2>1. PICK st \in Submitted : add_tx(st) \/ reject_tx(st)
    BY <1>2 DEF Submission
  <2>2. CASE add_tx(st)
    BY <1>0, <2>2, AddTxIInv
  <2>3. CASE reject_tx(st)
    <3>1. UNCHANGED vars
      BY <2>3 DEF reject_tx
    <3> QED BY <3>1, UnchangedIInv
  <2> QED BY <2>1, <2>2, <2>3
<1>3. CASE BeginBlock
  BY <1>0, <1>3, BeginBlockIInv
<1>4. CASE BlockStep
  BY <1>0, <1>4, ApplyMinedIInv, StoreBlockIInv DEF BlockStep
<1>5. CASE Process
  BY <1>0, <1>5, ProcessIInv
<1>6. CASE UNCHANGED vars
  BY <1>6, UnchangedIInv
<1> QED BY <1>1, <1>2, <1>3, <1>4, <1>5, <1>6 DEF Next

-----------------------------------------------------------------------------
(* The theorems *)

\* IInv is an invariant of the node, whatever the universe and the bounds.
THEOREM Invariance == Spec => []IInv
BY InitIInv, NextIInv, PTL DEF Spec

\* The members keep their types (chain.h).
THEOREM TypeCorrect == Spec => []TypeOK
<1>1. IInv => TypeOK
  BY DEF IInv
<1> QED BY <1>1, Invariance, PTL

\* utxo_ is at all times what the chain leaves unspent, and address_utxo_ is
\* an index of it: apply_tx, load_blocks and add_block never drift, across
\* crashes and restarts.
THEOREM LedgerFaithful == Spec => [](UtxoMatchesChain /\ IndexSound)
<1>1. IInv => UtxoMatchesChain /\ IndexSound
  BY DEF IInv
<1> QED BY <1>1, Invariance, PTL

\* No two pool transactions compete, each can be mined, and pool_spent_ is
\* exactly their inputs: although load_pool and add_block check nothing, and
\* the process may die anywhere in add_block.
THEOREM PoolSound == Spec => [](PoolSpendable /\ PoolSpentExact)
<1>1. IInv => PoolSpendable /\ PoolSpentExact
  BY DEF IInv
<1> QED BY <1>1, Invariance, PTL

\* Between calls the two databases hold what the memory holds.
THEOREM StoresInStep == Spec => []StoresAgree
<1>1. IInv => StoresAgree
  BY DEF IInv, Mirror, BlocksMirror, StoresAgree, Unlocked
<1> QED BY <1>1, Invariance, PTL

\* The stored blocks form one hash-linked chain.
THEOREM Linked == Spec => []ChainLinked
<1>1. IInv => ChainLinked
  BY DEF IInv
<1> QED BY <1>1, Invariance, PTL

\* The length of prev_hash is the height of a block, from genesis on.
LEMMA HashHeightsStep == ASSUME IInv, HashHeights, [Next]_vars PROVE HashHeights'
<1>1. CASE create_genesis
  <2>1. blocks_db = <<>> /\ blocks = <<>>
        /\ blocks_db' = PutBlock(blocks_db, Len(blocks) + 1, GenesisBlock)
    BY <1>1 DEF create_genesis, IInv, Mirror, BlocksMirror
  <2>2. blocks_db \in Seq(Block)
    BY DEF IInv, TypeOK
  <2>3. blocks_db' = Append(<<>>, GenesisBlock)
    BY <2>1, <2>2, GenesisType, PutAppends
  <2>4. Len(blocks_db') = 1 /\ Len(blocks_db'[1].prev_hash) = 0
    BY <2>3, GenesisType
  <2> QED BY <2>4 DEF HashHeights
<1>2. CASE StoreBlock
  <2>0. /\ blk \in Block /\ blocks \in Seq(Block) /\ blocks # <<>>
        /\ blocks = blocks_db /\ blk.prev_hash = BlockHash(blocks[Len(blocks)])
        /\ blocks_db' = PutBlock(blocks_db, Len(blocks) + 1, blk)
    BY <1>2 DEF StoreBlock, IInv, TypeOK, Mirror, BlocksMirror, BlockFits, TipHash
  <2>1. blocks_db' = Append(blocks, blk)
    BY <2>0, PutAppends
  <2>2. /\ Len(blocks) \in Nat /\ Len(blocks) \in 1..Len(blocks)
        /\ Len(blocks_db') = Len(blocks) + 1
        /\ \A h \in 1..Len(blocks) : blocks_db'[h] = blocks[h]
        /\ blocks_db'[Len(blocks) + 1] = blk
    BY <2>0, <2>1, AppendProperties
  <2>3. Len(blk.prev_hash) = Len(blocks)
    <3>1. /\ blocks[Len(blocks)].prev_hash \in Seq(Body)
          /\ Len(blocks[Len(blocks)].prev_hash) = Len(blocks) - 1
      <4>1. blocks[Len(blocks)] \in Block
        BY <2>0, <2>2
      <4> QED BY <2>0, <2>2, <4>1 DEF HashHeights, Block, Hash
    <3> DEFINE p == blocks[Len(blocks)].prev_hash
               x == [txs |-> blocks[Len(blocks)].txs,
                     timestamp |-> blocks[Len(blocks)].timestamp]
    <3>2. blk.prev_hash = Append(p, x)
      BY <2>0 DEF BlockHash
    <3>3. Len(Append(p, x)) = Len(p) + 1
      BY <3>1
    <3> QED BY <2>2, <3>1, <3>2, <3>3
  <2>4. ASSUME NEW h \in 1..(Len(blocks) + 1)
        PROVE  Len(blocks_db'[h].prev_hash) = h - 1
    <3>1. CASE h = Len(blocks) + 1
      BY <2>2, <2>3, <3>1
    <3>2. CASE h \in 1..Len(blocks)
      BY <2>0, <2>2, <3>2 DEF HashHeights
    <3> QED BY <2>2, <3>1, <3>2
  <2> QED BY <2>2, <2>4 DEF HashHeights
<1>3. CASE ~create_genesis /\ ~StoreBlock
  <2>1. UNCHANGED blocks_db
    BY <1>3 DEF Next, LoadStep, BlockStep, Submission, Process, LoadBlock, ApplyLoaded,
                PushLoaded, load_pool, add_tx, reject_tx, BeginBlock, LockForBlock,
                ApplyMined, Start, Stop, Crash, vars, mem, disk
  <2> QED BY <2>1 DEF HashHeights
<1> QED BY <1>1, <1>2, <1>3

\* A block hash tells the height of the block: no two stored blocks have the
\* same predecessor, or the same hash.
THEOREM HashTellsHeight == Spec => []HashHeights
<1>1. Init => HashHeights
  BY DEF Init, HashHeights
<1>2. IInv /\ HashHeights /\ [Next]_vars => HashHeights'
  BY HashHeightsStep
<1> QED BY <1>1, <1>2, Invariance, PTL DEF Spec

\* No stored block is overwritten or removed.
THEOREM Immutable == Spec => HistoryImmutable
<1> DEFINE Kept == /\ Len(blocks_db) <= Len(blocks_db')
                   /\ \A h \in 1..Len(blocks_db) : blocks_db'[h] = blocks_db[h]
<1>1. IInv /\ [Next]_vars => [Kept]_vars
  <2> SUFFICES ASSUME IInv, Next PROVE Kept
    OBVIOUS
  <2>0. blocks_db \in Seq(Block) /\ Len(blocks_db) \in Nat
    BY DEF IInv, TypeOK
  <2>1. CASE UNCHANGED blocks_db
    BY <2>0, <2>1
  <2>2. ASSUME NEW b \in Block, blocks_db' = PutBlock(blocks_db, Len(blocks) + 1, b),
               blocks = blocks_db
        PROVE  Kept
    <3>1. blocks_db' = Append(blocks_db, b)
      BY <2>0, <2>2, PutAppends
    <3> QED BY <2>0, <3>1, AppendProperties
  <2>3. CASE create_genesis
    BY <2>2, <2>3, GenesisType DEF create_genesis, IInv, Mirror, BlocksMirror
  <2>4. CASE StoreBlock
    BY <2>2, <2>4 DEF StoreBlock, IInv, Mirror, BlocksMirror, TypeOK
  <2>5. CASE ~create_genesis /\ ~StoreBlock
    <3>1. UNCHANGED blocks_db
      BY <2>5 DEF Next, LoadStep, LoadBlock, ApplyLoaded, PushLoaded, load_pool,
         Submission, add_tx, reject_tx, BeginBlock, LockForBlock, BlockStep,
         ApplyMined, Process, Start, Stop, Crash, disk, vars
    <3> QED BY <2>1, <3>1
  <2> QED BY <2>3, <2>4, <2>5
<1> QED BY <1>1, Invariance, PTL DEF Spec, HistoryImmutable

-----------------------------------------------------------------------------
(* Durability of acknowledged transactions *)

\* The transactions of a longer chain.
LEMMA TxsOfAppend ==
  ASSUME NEW c \in Seq(Block), NEW b \in Block
  PROVE  TxsOf(Append(c, b)) = TxsOf(c) \cup TxsOf(<<b>>)
<1> DEFINE d == Append(c, b)
           In(x) == {x.txs[i] : i \in 1..Len(x.txs)}
<1>1. /\ Len(d) = Len(c) + 1 /\ Len(c) \in Nat
      /\ \A h \in 1..Len(c) : d[h] = c[h]
      /\ d[Len(c) + 1] = b
  BY AppendProperties
<1>2. TxsOf(c) = UNION {In(c[h]) : h \in 1..Len(c)}
  BY DEF TxsOf
<1>3. TxsOf(d) = UNION {In(d[h]) : h \in 1..Len(d)}
  BY DEF TxsOf
<1>4. TxsOf(<<b>>) = In(b)
  <2>1. Len(<<b>>) = 1 /\ <<b>>[1] = b /\ 1..1 = {1}
    OBVIOUS
  <2> QED BY <2>1 DEF TxsOf
<1>5. \A h \in 1..Len(d) : (h \in 1..Len(c) /\ d[h] = c[h]) \/ d[h] = b
  BY <1>1
<1>6. \A h \in 1..Len(c) : h \in 1..Len(d) /\ d[h] = c[h]
  BY <1>1
<1>7. Len(c) + 1 \in 1..Len(d)
  BY <1>1
<1> HIDE DEF d, In
<1>8. TxsOf(d) \subseteq TxsOf(c) \cup TxsOf(<<b>>)
  BY <1>2, <1>3, <1>4, <1>5
<1>9. TxsOf(c) \cup TxsOf(<<b>>) \subseteq TxsOf(d)
  BY <1>1, <1>2, <1>3, <1>4, <1>6, <1>7
<1> QED BY <1>8, <1>9 DEF d

\* A step that is not the death of the process loses nothing that was
\* acknowledged; the death of the process at most the block in progress.
LEMMA LossStep ==
  ASSUME IInv, [Next]_vars
  PROVE  /\ Lost' \subseteq Lost \cup InFlight
         /\ ~Crash => Lost' \subseteq Lost
<1>0. /\ blocks_db \in Seq(Block) /\ blk \in Block \cup {NoBlock}
      /\ NoBlock \notin Block
  BY NoBlockAssumption DEF IInv, TypeOK
<1>1. CASE LoadBlock \/ ApplyLoaded \/ PushLoaded \/ load_pool \/ Start
  <2>1. InFlight = {} /\ UNCHANGED <<acked, blocks_db, pool_db>>
    BY <1>1 DEF LoadBlock, ApplyLoaded, PushLoaded, load_pool, Start, InFlight, disk
  <2> QED BY <2>1 DEF Lost, Held
<1>2. CASE create_genesis
  <2>1. InFlight = {} /\ UNCHANGED <<acked, pool_db>>
    BY <1>2 DEF create_genesis, InFlight
  <2>2. blocks_db' = Append(blocks_db, GenesisBlock)
    BY <1>0, <1>2, PutAppends, GenesisType DEF create_genesis, IInv, Mirror, BlocksMirror
  <2>3. TxsOf(blocks_db) \subseteq TxsOf(blocks_db')
    BY <1>0, <2>2, TxsOfAppend, GenesisType
  <2> QED BY <2>1, <2>3 DEF Lost, Held
<1>3. CASE Submission
  <2>1. PICK st \in Submitted : add_tx(st) \/ reject_tx(st)
    BY <1>3 DEF Submission
  <2>2. CASE add_tx(st)
    BY <2>2 DEF add_tx, Unlocked, Lost, Held, InFlight
  <2>3. CASE reject_tx(st)
    BY <2>3 DEF reject_tx, vars, mem, disk, Lost, Held, InFlight
  <2> QED BY <2>1, <2>2, <2>3
<1>4. CASE BeginBlock
  <2>1. /\ UNCHANGED <<acked, blocks_db, pool_db>> /\ InFlight = {}
    BY <1>4 DEF BeginBlock, LockForBlock, Unlocked, InFlight, disk
  <2> QED BY <2>1 DEF Lost, Held
<1>5. CASE ApplyMined
  <2>1. /\ phase = "up" /\ phase' = "up" /\ blk # NoBlock /\ blk' = blk
        /\ UNCHANGED <<acked, blocks_db>> /\ done + 1 \in 1..Len(blk.txs)
        /\ Unpool(blk.txs[done + 1])
    BY <1>0, <1>5 DEF ApplyMined, IInv, TypeOK, Block
  <2>2. blk.txs[done + 1] \in TxsOf(<<blk>>)
    <3>1. Len(<<blk>>) = 1 /\ <<blk>>[1] = blk /\ 1 \in 1..1
      OBVIOUS
    <3>2. TxsOf(<<blk>>) = UNION {{<<blk>>[h].txs[i] : i \in 1..Len(<<blk>>[h].txs)} :
                                    h \in 1..1}
      BY <3>1 DEF TxsOf
    <3> QED BY <2>1, <3>1, <3>2
  <2>3. InFlight' = InFlight /\ InFlight = TxsOf(<<blk>>)
    BY <2>1 DEF InFlight
  <2>4. pool_db \subseteq pool_db' \cup InFlight
    BY <2>1, <2>2, <2>3 DEF Unpool
  <2> QED BY <2>1, <2>3, <2>4 DEF Lost, Held
<1>6. CASE StoreBlock
  <2>1. /\ blk \in Block /\ InFlight = TxsOf(<<blk>>)
        /\ UNCHANGED <<acked, pool_db>>
    BY <1>0, <1>6 DEF StoreBlock, InFlight
  <2>2. blocks_db' = Append(blocks_db, blk)
    BY <1>0, <1>6, <2>1, PutAppends DEF StoreBlock, IInv, Mirror, BlocksMirror
  <2>3. TxsOf(blocks_db') = TxsOf(blocks_db) \cup InFlight
    BY <1>0, <2>1, <2>2, TxsOfAppend
  <2> QED BY <2>1, <2>3 DEF Lost, Held
<1>7. CASE Stop
  <2>1. InFlight = {} /\ UNCHANGED <<acked, blocks_db, pool_db>>
    BY <1>7 DEF Stop, Unlocked, InFlight, disk
  <2> QED BY <2>1 DEF Lost, Held
<1>8. CASE Crash
  <2>1. UNCHANGED <<acked, blocks_db, pool_db>>
    BY <1>8 DEF Crash, disk
  <2> QED BY <1>8, <2>1 DEF Lost, Held
<1>9. CASE UNCHANGED vars
  BY <1>9 DEF vars, mem, disk, Lost, Held, InFlight
<1> QED BY <1>1, <1>2, <1>3, <1>4, <1>5, <1>6, <1>7, <1>8, <1>9
        DEF Next, LoadStep, BlockStep, Process

\* Whatever happens, an acknowledged transaction can only be lost by a death of
\* the process inside add_block, and then only with the block being added.
THEOREM LossBounded == Spec => LossOnlyInFlight
<1>1. IInv /\ [Next]_vars => [Lost' \ Lost \subseteq InFlight]_vars
  BY LossStep
<1> QED BY <1>1, Invariance, PTL DEF Spec, LossOnlyInFlight

\* Without crashes, across any number of orderly restarts, an acknowledged
\* transaction stays in a database until a stored block holds it.
THEOREM Durable == ASSUME MaxCrashes = 0 PROVE Spec => []AckedDurable
<1>1. Init => Lost = {}
  BY DEF Init, MemEmpty, Lost
<1>2. IInv /\ Lost = {} /\ [Next]_vars => (Lost = {})'
  <2>1. IInv => ~Crash
    BY DEF IInv, TypeOK, Crash
  <2> QED BY <2>1, LossStep
<1>3. Lost = {} => AckedDurable
  BY DEF Lost, AckedDurable, InFlight
<1> QED BY <1>1, <1>2, <1>3, Invariance, PTL DEF Spec
=============================================================================

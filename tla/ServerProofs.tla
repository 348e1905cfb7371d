--------------------------- MODULE ServerProofs ---------------------------
(***************************************************************************)
(* Proofs about Server: the TCP thread, with HTTP submissions between its  *)
(* calls, drives the chain as Chain specifies, and SInv is inductive.      *)
(***************************************************************************)
EXTENDS Server, ChainProofs, FiniteSetTheorems

-----------------------------------------------------------------------------
(* The inductive invariant behind the safety properties *)

\* The message type whose handler is at a control point.
TypeAt(p) ==
  IF p \in {"get_pool_tx", "add_block", "adding"} THEN "CreateBlock"
  ELSE IF p = "ListPool" THEN "GetPool" ELSE p

STypeOK ==
  /\ inbox \in [Client -> Frame \cup {NoMsg}] /\ reply = [c \in Client |-> reply[c]]
  /\ ready \in Seq(Client) /\ client \in Client
  /\ pc \in MsgType \cup {"idle", "ListPool", "get_pool_tx", "add_block", "adding"}
  /\ k \in Nat \ {0} /\ count \in Nat

\* A session waits in ready at most once, with its frame, and not while it is
\* served: no two handlers work for one client.
Sessions ==
  /\ \A i \in 1..Len(ready) : inbox[ready[i]] # NoMsg
  /\ \A i, j \in 1..Len(ready) : ready[i] = ready[j] => i = j
  /\ pc # "idle" => /\ msg # NoMsg /\ msg.type = TypeAt(pc)
                    /\ \A i \in 1..Len(ready) : ready[i] # client
  /\ phase # "up" => /\ pc = "idle" /\ ready = <<>>
                     /\ \A c \in Client : inbox[c] = NoMsg /\ reply[c] = NoMsg

\* What on_create_block has checked stays true until add_block relies on it:
\* the pool shrinks and the tip moves only in add_block, which it calls itself.
Checked ==
  /\ phase = "up" /\ blk # NoBlock => pc = "adding" /\ blk = BlockOf(msg)
  /\ pc \in {"CreateBlock", "get_pool_tx"} =>
       /\ k <= Len(msg.refs) + 1
       /\ \A i \in 1..(k - 1) : msg.refs[i] \in pool
  /\ pc = "get_pool_tx" => k <= Len(msg.refs) /\ msg.refs[k] \in pool
  /\ pc = "add_block" => /\ msg.prev_hash = TipHash
                         /\ \A i \in 1..Len(msg.refs) : msg.refs[i] \in pool
  /\ pc \in {"add_block", "adding"} =>
       \A i \in 1..Len(msg.refs) : ~is_coinbase(msg.refs[i])
  /\ pc = "adding" /\ blk = NoBlock => blocks[Len(blocks)] = BlockOf(msg)
  /\ pc = "ListPool" => count <= Cardinality(pool)

\* The blocks on their way that are not stored yet keep the bound and the
\* promises of Chain's miners.
Outstanding == Mining \ IF pc = "adding" /\ blk = NoBlock THEN {client} ELSE {}
Promised ==
  /\ \A c \in Mining : Len(inbox[c].refs) <= MaxRefs
  /\ Outstanding # {} => Len(blocks) + Cardinality(Outstanding) <= MaxBlocks
  /\ CarefulMiner =>
       /\ \A c \in Outstanding : inbox[c].coinbase \notin TxsOf(blocks)
       /\ \A c, d \in Outstanding : inbox[c].coinbase = inbox[d].coinbase => c = d
       /\ \A c \in Mining : \A i, j \in 1..Len(inbox[c].refs) :
            inbox[c].refs[i] = inbox[c].refs[j] => i = j

\* A block that is stored and not yet answered for has won its tip.
Winner ==
  pc = "adding" /\ blk = NoBlock =>
    \A c \in Client : Accepted(c) => reply[c].block.prev_hash # msg.prev_hash

ChainInv ==
  /\ IInv /\ HashHeights
  /\ IsFiniteSet(pool_db) /\ \A t \in pool_db : ~is_coinbase(t)
NetInv ==
  /\ STypeOK /\ Sessions /\ Checked /\ Promised
  /\ AcceptedIsStored /\ OneWinnerPerTip /\ Winner /\ PoolReplyNotShort
SInv == ChainInv /\ NetInv

-----------------------------------------------------------------------------
(* Frames *)

\* The fields of a frame depend on its type.
LEMMA FrameFields ==
  ASSUME NEW r \in Frame
  PROVE  /\ r # NoMsg /\ r.type \in MsgType
         /\ r.type = "CreateBlock" =>
              /\ r.prev_hash \in Hash /\ r.coinbase \in Coinbase
              /\ r.refs \in Seq(Tx) /\ r.timestamp \in Timestamp
         /\ r.type = "CreateTransaction" => r.st \in Submitted
BY ServerAssumption DEF Frame, MsgType

\* What a client sends is a frame; a block lists at most MaxRefs transactions.
LEMMA RequestType ==
  ASSUME TypeOK, NEW r \in Request
  PROVE  r \in Frame /\ (r.type = "CreateBlock" => Len(r.refs) <= MaxRefs)
<1>1. CASE r \in BlockRequest
  <2>1. PICK p \in KnownHashes, cb \in Coinbase, ts \in Timestamp, f \in Flaws,
             rs \in UNION {[1..n -> Known] : n \in 0..MaxRefs} :
          r = [type |-> "CreateBlock", prev_hash |-> p, coinbase |-> cb,
               refs |-> rs, timestamp |-> ts, flaw |-> f]
    BY <1>1 DEF BlockRequest
  <2>2. p \in Hash
    <3>1. PICK h \in 1..Len(blocks) : p = BlockHash(blocks[h])
      BY DEF KnownHashes
    <3>2. blocks[h] \in Block
      BY DEF TypeOK
    <3> QED BY <3>1, <3>2 DEF BlockHash, Block, Hash, Body
  <2>3. PICK n \in 0..MaxRefs : rs \in [1..n -> Known]
    OBVIOUS
  <2>4. Known \subseteq Tx
    BY SubmittedAssumption DEF Known, SignedTransaction
  <2>5. rs \in Seq(Tx) /\ Len(rs) = n /\ n <= MaxRefs
    BY <2>3, <2>4, ChainBounds
  <2>6. f \in Flaw
    BY ServerAssumption
  <2> QED BY <2>1, <2>2, <2>5, <2>6 DEF Frame
<1>2. CASE r \in TxRequest
  <2>1. PICK st \in Submitted, f \in Flaws \cap {"none", "short"} :
          r = [type |-> "CreateTransaction", st |-> st, flaw |-> f]
    BY <1>2 DEF TxRequest
  <2> QED BY <2>1 DEF Frame
<1>3. CASE r \notin BlockRequest \cup TxRequest
  <2>1. \/ \E a \in Address : r = [type |-> "GetUTXOs", addr |-> a]
        \/ \E q \in Requests \ {"CreateBlock", "CreateTransaction", "GetUTXOs"} :
             r = [type |-> q]
    BY <1>3 DEF Request
  <2> QED BY <2>1, ServerAssumption DEF Frame
<1> QED BY <1>1, <1>2, <1>3

\* The handler at work has the frame of its type.
LEMMA Served ==
  ASSUME STypeOK, Sessions, pc # "idle"
  PROVE  msg \in Frame /\ msg.type = TypeAt(pc) /\ client \in Client /\ phase = "up"
BY DEF STypeOK, Sessions, msg

\* A block under way is made of what its frame names.
LEMMA BlockOfFrame ==
  ASSUME NEW r \in Frame, r.type = "CreateBlock"
  PROVE  /\ BlockOf(r) \in Block /\ Len(r.refs) \in Nat
         /\ Len(BlockOf(r).txs) = Len(r.refs) + 1
         /\ BlockOf(r).txs[1] = r.coinbase /\ BlockOf(r).prev_hash = r.prev_hash
         /\ \A i \in 2..(Len(r.refs) + 1) : BlockOf(r).txs[i] = r.refs[i - 1]
<1>1. /\ r.prev_hash \in Hash /\ r.coinbase \in Tx
      /\ r.refs \in Seq(Tx) /\ r.timestamp \in Timestamp
  BY FrameFields, CoinbaseAssumption
<1>2. <<r.coinbase>> \in Seq(Tx) /\ Len(<<r.coinbase>>) = 1
  BY <1>1
<1>3. /\ <<r.coinbase>> \o r.refs \in Seq(Tx)
      /\ Len(<<r.coinbase>> \o r.refs) = Len(r.refs) + 1
      /\ (<<r.coinbase>> \o r.refs)[1] = r.coinbase
      /\ \A i \in 2..(Len(r.refs) + 1) : (<<r.coinbase>> \o r.refs)[i] = r.refs[i - 1]
  BY <1>1, <1>2, ConcatProperties
<1> QED BY <1>1, <1>3 DEF BlockOf, Assemble, Block

-----------------------------------------------------------------------------
(* The server drives the chain as Chain specifies *)

\* The miners whose blocks are outstanding are finitely many.
LEMMA OutstandingFinite ==
  /\ Mining \subseteq Client /\ Outstanding \subseteq Mining
  /\ IsFiniteSet(Mining) /\ IsFiniteSet(Outstanding)
  /\ Cardinality(Mining) \in Nat /\ Cardinality(Outstanding) \in Nat
<1>1. Mining \subseteq Client /\ Outstanding \subseteq Mining
  BY DEF Mining, Outstanding
<1>2. IsFiniteSet(Mining) /\ IsFiniteSet(Outstanding)
  BY <1>1, ServerAssumption, FS_Subset
<1> QED BY <1>1, <1>2, FS_CardinalityType

\* When add_block is entered the tip and the pool are as they were checked: the
\* step is the BeginBlock of Chain.
LEMMA EnterIsBegin == ASSUME SInv, EnterAddBlock PROVE BeginBlock
<1>0. /\ pc = "add_block" /\ LockForBlock(BlockOf(msg)) /\ STypeOK /\ Sessions
      /\ Checked /\ Promised /\ TypeOK
  BY DEF EnterAddBlock, SInv, ChainInv, NetInv, IInv
<1>1. /\ msg \in Frame /\ msg.type = "CreateBlock" /\ client \in Client
      /\ phase = "up" /\ msg # NoMsg
  BY <1>0, Served, FrameFields DEF TypeAt
<1>2. /\ msg.prev_hash = TipHash
      /\ \A i \in 1..Len(msg.refs) : msg.refs[i] \in pool /\ ~is_coinbase(msg.refs[i])
  BY <1>0 DEF Checked
<1>3. /\ msg.coinbase \in Coinbase /\ msg.refs \in Seq(Tx) /\ msg.timestamp \in Timestamp
  BY <1>1, FrameFields
<1>4. client \in Mining /\ Outstanding = Mining
  BY <1>0, <1>1 DEF Mining, Outstanding, msg
<1>5. msg.refs \in RefLists
  <2>1. Len(msg.refs) <= MaxRefs /\ Len(msg.refs) \in Nat
    BY <1>0, <1>3, <1>4 DEF Promised, msg
  <2>2. msg.refs \in [1..Len(msg.refs) -> pool]
    BY <1>2, <1>3
  <2>3. Len(msg.refs) \in 0..MaxRefs
    BY <2>1, ChainBounds
  <2> QED BY <2>2, <2>3 DEF RefLists
<1> DEFINE b == Assemble(TipHash, msg.coinbase, msg.refs, msg.timestamp)
<1>6. BlockOf(msg) = b
  BY <1>2 DEF BlockOf
<1>7. MinerMay(b)
  <2>1. Len(blocks) < MaxBlocks
    <3>1. Cardinality(Outstanding) \in Nat /\ Cardinality(Outstanding) # 0
      BY <1>4, OutstandingFinite, FS_EmptySet
    <3>2. Len(blocks) + Cardinality(Outstanding) <= MaxBlocks
      BY <1>0, <1>4 DEF Promised
    <3>3. Len(blocks) \in Nat /\ MaxBlocks \in Nat
      BY <1>0, ChainBounds DEF TypeOK
    <3> QED BY <3>1, <3>2, <3>3
  <2>2. /\ b \in Block /\ Len(msg.refs) \in Nat /\ Len(b.txs) = Len(msg.refs) + 1
        /\ b.txs[1] = msg.coinbase
        /\ \A i \in 2..(Len(msg.refs) + 1) : b.txs[i] = msg.refs[i - 1]
    BY <1>1, <1>6, BlockOfFrame
  <2> HIDE DEF b
  <2>3. ASSUME CarefulMiner
        PROVE  /\ b.txs[1] \notin TxsOf(blocks)
               /\ \A i, j \in DOMAIN b.txs : b.txs[i] = b.txs[j] => i = j
    <3>1. msg.coinbase \notin TxsOf(blocks)
      BY <1>0, <1>4, <2>3 DEF Promised, msg
    <3>2. \A i, j \in 1..Len(msg.refs) : msg.refs[i] = msg.refs[j] => i = j
      BY <1>0, <1>4, <2>3 DEF Promised, msg
    <3>3. DOMAIN b.txs = 1..(Len(msg.refs) + 1)
      BY <2>2 DEF Block
    <3>4. is_coinbase(msg.coinbase)
      BY <1>3, CoinbaseAssumption DEF is_coinbase
    <3>5. \A i \in 2..(Len(msg.refs) + 1) : i - 1 \in 1..Len(msg.refs)
      BY <2>2
    <3>6. \A i \in 2..(Len(msg.refs) + 1) : b.txs[i] # b.txs[1]
      BY <1>2, <2>2, <3>4, <3>5
    <3>7. \A i, j \in 2..(Len(msg.refs) + 1) : b.txs[i] = b.txs[j] => i - 1 = j - 1
      BY <2>2, <3>2, <3>5, SMTT(40)
    <3>8. \A i \in 1..(Len(msg.refs) + 1) : i = 1 \/ i \in 2..(Len(msg.refs) + 1)
      BY <2>2
    <3>9. \A i, j \in 2..(Len(msg.refs) + 1) : i - 1 = j - 1 => i = j
      BY <2>2
    <3> QED BY <2>2, <3>1, <3>3, <3>6, <3>7, <3>8, <3>9
  <2> QED BY <2>1, <2>3 DEF MinerMay
<1>8. Unlocked
  BY <1>0 DEF LockForBlock
<1>9. LockForBlock(b)
  BY <1>0, <1>6
<1> HIDE DEF b
<1> QED BY <1>3, <1>5, <1>7, <1>8, <1>9 DEF BeginBlock, b

\* Every step of the server is a step of Chain, or leaves the chain alone.
LEMMA ServerStep == ASSUME SInv, [NextS]_svars PROVE [Next]_vars
<1>1. ASSUME NEW c \in Client, NEW r \in Request, Send(c, r) PROVE [Next]_vars
  BY <1>1 DEF Send
<1>2. CASE Handler
  <2>1. CASE on_create_tx
    <3>1. msg \in Frame /\ msg.type = "CreateTransaction"
      BY <2>1, Served DEF on_create_tx, SInv, NetInv, TypeAt
    <3>2. msg.st \in Submitted
      BY <3>1, FrameFields
    <3> QED BY <2>1, <3>2 DEF on_create_tx, Submission, Next
  <2>2. CASE EnterAddBlock
    BY <2>2, EnterIsBegin DEF Next
  <2>3. CASE ~on_create_tx /\ ~EnterAddBlock
    BY <1>2, <2>3
       DEF Handler, handle_msg, on_unknown, on_get_difficulty, on_get_tip, on_get_utxos,
           CountPool, ListPool, pool_contains, get_pool_tx, CheckBlock, BlockAccepted
  <2> QED BY <2>1, <2>2, <2>3
<1>3. CASE (LoadStep \/ BlockStep \/ Submission \/ Start) /\ UNCHANGED net
  BY <1>3 DEF Next, Process
<1>4. CASE StopServer \/ CrashServer
  BY <1>4 DEF StopServer, CrashServer, Next, Process
<1>5. CASE UNCHANGED svars
  BY <1>5 DEF svars
<1> QED BY <1>1, <1>2, <1>3, <1>4, <1>5 DEF NextS

\* The pool database stays finite and without coinbases.
LEMMA PoolDbStep ==
  ASSUME [Next]_vars, IsFiniteSet(pool_db), \A t \in pool_db : ~is_coinbase(t)
  PROVE  IsFiniteSet(pool_db') /\ \A t \in pool_db' : ~is_coinbase(t)
<1>1. CASE Submission
  <2>1. PICK st \in Submitted : add_tx(st) \/ reject_tx(st)
    BY <1>1 DEF Submission
  <2>2. CASE add_tx(st)
    <3>1. ~is_coinbase(st.tx) /\ pool_db' = pool_db \cup {st.tx}
      BY <2>2, SubmittedAssumption, ValidateNone DEF add_tx, is_coinbase
    <3> QED BY <3>1, FS_AddElement
  <2>3. CASE reject_tx(st)
    BY <2>3 DEF reject_tx, vars, disk
  <2> QED BY <2>1, <2>2, <2>3
<1>2. CASE ApplyMined
  <2>1. pool_db' \subseteq pool_db
    BY <1>2 DEF ApplyMined, Unpool
  <2> QED BY <2>1, FS_Subset
<1>3. CASE ~Submission /\ ~ApplyMined
  <2>1. UNCHANGED pool_db
    BY <1>3 DEF Next, LoadStep, BlockStep, Process, LoadBlock, ApplyLoaded, PushLoaded,
                load_pool, create_genesis, BeginBlock, LockForBlock, StoreBlock, Start,
                Stop, Crash, vars, mem, disk
  <2> QED BY <2>1
<1> QED BY <1>1, <1>2, <1>3

-----------------------------------------------------------------------------
(* SInv is inductive *)

\* No request and no response is outstanding: nothing to keep.
LEMMA QuietNet ==
  ASSUME STypeOK', pc' = "idle", ready' = <<>>,
         \A c \in Client : inbox'[c] = NoMsg /\ reply'[c] = NoMsg,
         phase' = "up" => blk' = NoBlock
  PROVE  NetInv'
<1>1. Mining' = {} /\ Outstanding' = {}
  BY DEF Mining, Outstanding
<1>2. Sessions'
  BY DEF Sessions
<1>3. Checked'
  BY DEF Checked
<1>4. Promised'
  BY <1>1 DEF Promised
<1>5. AcceptedIsStored' /\ OneWinnerPerTip' /\ Winner' /\ PoolReplyNotShort'
  BY DEF AcceptedIsStored, OneWinnerPerTip, Winner, PoolReplyNotShort, Accepted
<1> QED BY <1>2, <1>3, <1>4, <1>5 DEF NetInv

\* A client sends: its session, which had no frame, queues behind the others.
LEMMA SendNet ==
  ASSUME SInv, NEW c \in Client, NEW r \in Request, Send(c, r) PROVE NetInv'
<1>0. /\ phase = "up" /\ inbox[c] = NoMsg /\ MaySend(r)
      /\ inbox' = [inbox EXCEPT ![c] = r] /\ ready' = Append(ready, c)
      /\ reply' = [reply EXCEPT ![c] = NoMsg]
      /\ UNCHANGED <<phase, blocks, pool, blk, blocks_db, pc, client, k, count>>
      /\ TypeOK /\ STypeOK /\ Sessions /\ Checked /\ Promised
  BY DEF Send, SInv, ChainInv, NetInv, IInv, vars, mem, disk
<1>1. r \in Frame /\ r # NoMsg /\ (r.type = "CreateBlock" => Len(r.refs) <= MaxRefs)
  BY <1>0, RequestType, FrameFields
<1>2. /\ inbox'[c] = r /\ reply'[c] = NoMsg
      /\ \A d \in Client : d # c => inbox'[d] = inbox[d] /\ reply'[d] = reply[d]
  BY <1>0 DEF STypeOK
<1>3. STypeOK'
  <2>1. reply' = [d \in Client |-> reply'[d]]
    BY <1>0 DEF STypeOK
  <2> QED BY <1>0, <1>1, <2>1, AppendProperties DEF STypeOK
<1>4. /\ Len(ready) \in Nat /\ Len(ready') = Len(ready) + 1
      /\ \A i \in 1..Len(ready) : ready'[i] = ready[i] /\ ready[i] \in Client
      /\ ready'[Len(ready) + 1] = c
  BY <1>0, AppendProperties DEF STypeOK
<1>5. \A i \in 1..Len(ready) : ready[i] # c
  BY <1>0 DEF Sessions
<1>6. pc # "idle" => client # c /\ msg' = msg /\ client \in Client
  BY <1>0, <1>2 DEF Sessions, msg, STypeOK
<1>7. Sessions'
  <2>1. \A i \in 1..Len(ready') : i \in 1..Len(ready) \/ i = Len(ready) + 1
    BY <1>4
  <2>2. \A i \in 1..Len(ready') : inbox'[ready'[i]] # NoMsg
    BY <1>0, <1>1, <1>2, <1>4, <1>5, <2>1 DEF Sessions
  <2>3. \A i, j \in 1..Len(ready') : ready'[i] = ready'[j] => i = j
    BY <1>0, <1>4, <1>5, <2>1 DEF Sessions
  <2>4. pc # "idle" => \A i \in 1..Len(ready') : ready'[i] # client
    BY <1>0, <1>4, <1>6, <2>1 DEF Sessions
  <2> QED BY <1>0, <1>6, <2>2, <2>3, <2>4 DEF Sessions
<1>8. Checked'
  BY <1>0, <1>6 DEF Checked, TipHash
<1>9. Promised'
  <2>1. /\ Mining' = IF r.type = "CreateBlock" THEN Mining \cup {c} ELSE Mining
        /\ c \notin Mining /\ \A d \in Mining : inbox'[d] = inbox[d]
    BY <1>0, <1>1, <1>2 DEF Mining
  <2>2. Outstanding' = IF r.type = "CreateBlock" THEN Outstanding \cup {c} ELSE Outstanding
    BY <1>0, <1>6, <2>1 DEF Outstanding
  <2>3. Outstanding \subseteq Mining
    BY DEF Outstanding
  <2>4. CASE r.type # "CreateBlock"
    BY <1>0, <2>1, <2>2, <2>3, <2>4, SMTT(40) DEF Promised
  <2>5. CASE r.type = "CreateBlock"
    <3>1. /\ Len(blocks) + Cardinality(Mining) < MaxBlocks
          /\ CarefulMiner =>
               /\ r.coinbase \notin TxsOf(blocks)
               /\ \A d \in Mining : r.coinbase # inbox[d].coinbase
               /\ \A i, j \in DOMAIN r.refs : r.refs[i] = r.refs[j] => i = j
      BY <1>0, <2>5 DEF MaySend
    <3>2. DOMAIN r.refs = 1..Len(r.refs)
      BY <1>1, <2>5, FrameFields
    <3>3. Cardinality(Outstanding') <= Cardinality(Mining) + 1
      <4>1. Cardinality(Outstanding) <= Cardinality(Mining)
        BY <2>3, OutstandingFinite, FS_Subset
      <4>2. Cardinality(Outstanding') = Cardinality(Outstanding) + 1
        BY <2>1, <2>2, <2>3, <2>5, OutstandingFinite, FS_AddElement
      <4> QED BY <4>1, <4>2, OutstandingFinite
    <3>4. Len(blocks') + Cardinality(Outstanding') <= MaxBlocks
      <4>1. Len(blocks) \in Nat /\ MaxBlocks \in Nat /\ Cardinality(Mining) \in Nat
        BY <1>0, ChainBounds, OutstandingFinite DEF TypeOK
      <4>2. Cardinality(Outstanding') \in Nat
        <5>1. IsFiniteSet(Outstanding')
          BY <2>2, <2>5, OutstandingFinite, FS_AddElement
        <5> QED BY <5>1, FS_CardinalityType
      <4> QED BY <1>0, <3>1, <3>3, <4>1, <4>2
    <3>5. \A d \in Mining' : Len(inbox'[d].refs) <= MaxRefs
      BY <1>0, <1>1, <1>2, <2>1, <2>5 DEF Promised
    <3>6. ASSUME CarefulMiner
          PROVE  /\ \A d \in Outstanding' : inbox'[d].coinbase \notin TxsOf(blocks')
                 /\ \A d, e \in Outstanding' :
                      inbox'[d].coinbase = inbox'[e].coinbase => d = e
                 /\ \A d \in Mining' : \A i, j \in 1..Len(inbox'[d].refs) :
                      inbox'[d].refs[i] = inbox'[d].refs[j] => i = j
      <4>1. \A d \in Outstanding' : inbox'[d].coinbase \notin TxsOf(blocks')
        BY <1>0, <1>2, <2>1, <2>2, <2>3, <2>5, <3>1, <3>6 DEF Promised
      <4>2. \A d, e \in Outstanding' : inbox'[d].coinbase = inbox'[e].coinbase => d = e
        BY <1>0, <1>2, <2>1, <2>2, <2>3, <2>5, <3>1, <3>6 DEF Promised
      <4>3. \A d \in Mining' : \A i, j \in 1..Len(inbox'[d].refs) :
              inbox'[d].refs[i] = inbox'[d].refs[j] => i = j
        BY <1>0, <1>2, <2>1, <2>5, <3>1, <3>2, <3>6 DEF Promised
      <4> QED BY <4>1, <4>2, <4>3
    <3> QED BY <3>4, <3>5, <3>6 DEF Promised
  <2> QED BY <2>4, <2>5
<1>10. \A d \in Client : Accepted(d)' => Accepted(d) /\ reply'[d] = reply[d]
  BY <1>2 DEF Accepted
<1>11. AcceptedIsStored' /\ OneWinnerPerTip'
  BY <1>0, <1>10 DEF SInv, NetInv, AcceptedIsStored, OneWinnerPerTip
<1>12. Winner'
  BY <1>0, <1>6, <1>10 DEF SInv, NetInv, Winner
<1>13. PoolReplyNotShort'
  BY <1>2 DEF SInv, NetInv, PoolReplyNotShort
<1> QED BY <1>3, <1>7, <1>8, <1>9, <1>11, <1>12, <1>13 DEF NetInv

\* The thread takes up the frame of the session that has waited longest.
LEMMA HandleNet == ASSUME SInv, handle_msg PROVE NetInv'
<1>0. /\ phase = "up" /\ pc = "idle" /\ ready # <<>> /\ client' = Head(ready)
      /\ ready' = Tail(ready) /\ pc' = inbox[Head(ready)].type /\ k' = 1
      /\ UNCHANGED <<phase, blocks, pool, blk, blocks_db, inbox, count, reply>>
      /\ STypeOK /\ Sessions /\ Checked /\ Promised
  BY DEF handle_msg, SInv, ChainInv, NetInv, vars, mem, disk
<1>1. /\ Len(ready) \in Nat \ {0} /\ Head(ready) = ready[1]
      /\ Tail(ready) \in Seq(Client) /\ Len(Tail(ready)) = Len(ready) - 1
      /\ \A i \in 1..Len(Tail(ready)) : Tail(ready)[i] = ready[i + 1]
      /\ \A i \in 1..Len(ready) : ready[i] \in Client
  BY <1>0, EmptySeq, HeadTailProperties DEF STypeOK
<1>2. 1 \in 1..Len(ready) /\ \A i \in 1..Len(Tail(ready)) : i + 1 \in 1..Len(ready)
  BY <1>1
<1>3. client' \in Client /\ inbox[client'] # NoMsg /\ inbox[client'] \in Frame
  BY <1>0, <1>1, <1>2 DEF Sessions, STypeOK
<1>4. msg' = inbox[client'] /\ pc' = msg'.type /\ pc' \in MsgType
  BY <1>0, <1>3, FrameFields DEF msg
<1>5. TypeAt(pc') = pc'
  BY <1>4 DEF TypeAt, MsgType
<1>6. STypeOK'
  BY <1>0, <1>1, <1>3, <1>4 DEF STypeOK
<1>7. Sessions'
  <2>1. \A i \in 1..Len(ready') : inbox'[ready'[i]] # NoMsg
    BY <1>0, <1>1, <1>2 DEF Sessions
  <2>2. \A i, j \in 1..Len(ready') : ready'[i] = ready'[j] => i = j
    BY <1>0, <1>1, <1>2 DEF Sessions
  <2>3. \A i \in 1..Len(ready') : ready'[i] # client'
    BY <1>0, <1>1, <1>2 DEF Sessions
  <2> QED BY <1>0, <1>3, <1>4, <1>5, <2>1, <2>2, <2>3 DEF Sessions
<1>8. Checked'
  <2>1. blk = NoBlock
    BY <1>0 DEF Checked
  <2>2. pc' = "CreateBlock" => Len(msg'.refs) \in Nat
    BY <1>3, <1>4, FrameFields
  <2> QED BY <1>0, <1>4, <2>1, <2>2 DEF Checked, MsgType
<1>9. Mining' = Mining /\ Outstanding' = Outstanding
  BY <1>0, <1>4 DEF Mining, Outstanding, MsgType
<1>10. Promised'
  BY <1>0, <1>9 DEF Promised, Mining
<1>11. AcceptedIsStored' /\ OneWinnerPerTip' /\ PoolReplyNotShort'
  BY <1>0 DEF SInv, NetInv, AcceptedIsStored, OneWinnerPerTip, PoolReplyNotShort, Accepted
<1>12. Winner'
  BY <1>4 DEF Winner, MsgType
<1> QED BY <1>6, <1>7, <1>8, <1>10, <1>11, <1>12 DEF NetInv

\* A handler answers: with success only for a block that is stored, with a count
\* only when as many txids follow.
LEMMA AnswerNet ==
  ASSUME SInv, pc # "idle", NEW r, send(r),
         UNCHANGED <<phase, blocks, blk, blocks_db>>, blk = NoBlock,
         r.type = "CreateBlockResponse" /\ r.err = "None" =>
           pc = "adding" /\ r.block = BlockOf(msg),
         r.type = "PoolResponse" => r.count <= Cardinality(r.txids)
  PROVE  NetInv'
<1>0. /\ reply' = [reply EXCEPT ![client] = r]
      /\ inbox' = [inbox EXCEPT ![client] = NoMsg] /\ pc' = "idle"
      /\ UNCHANGED <<ready, client, k, count>>
      /\ IInv /\ STypeOK /\ Sessions /\ Checked /\ Promised
  BY DEF send, SInv, ChainInv, NetInv
<1>1. /\ msg \in Frame /\ msg.type = TypeAt(pc) /\ client \in Client /\ phase = "up"
      /\ msg # NoMsg
  BY <1>0, Served, FrameFields
<1>2. /\ inbox'[client] = NoMsg /\ reply'[client] = r
      /\ \A d \in Client : d # client => inbox'[d] = inbox[d] /\ reply'[d] = reply[d]
  BY <1>0, <1>1 DEF STypeOK
<1>3. STypeOK'
  <2>1. reply' = [d \in Client |-> reply'[d]]
    BY <1>0 DEF STypeOK
  <2> QED BY <1>0, <2>1 DEF STypeOK
<1>4. Sessions'
  <2>1. \A i \in 1..Len(ready) : ready[i] # client /\ ready[i] \in Client
    BY <1>0 DEF Sessions, STypeOK
  <2> QED BY <1>0, <1>1, <1>2, <2>1 DEF Sessions
<1>5. Checked'
  BY <1>0 DEF Checked
<1>6. Promised'
  <2>1. /\ Mining' = Mining \ {client} /\ Outstanding' = Mining \ {client}
        /\ \A d \in Mining' : inbox'[d] = inbox[d]
    BY <1>0, <1>2 DEF Mining, Outstanding
  <2>2. Outstanding' \subseteq Outstanding
    BY <2>1 DEF Outstanding
  <2>3. ASSUME Outstanding' # {} PROVE Len(blocks') + Cardinality(Outstanding') <= MaxBlocks
    <3>1. /\ Cardinality(Outstanding') <= Cardinality(Outstanding)
          /\ IsFiniteSet(Outstanding')
      BY <2>2, OutstandingFinite, FS_Subset
    <3>2. Cardinality(Outstanding') \in Nat
      BY <3>1, FS_CardinalityType
    <3>3. Len(blocks) + Cardinality(Outstanding) <= MaxBlocks
      BY <1>0, <2>2, <2>3 DEF Promised
    <3>4. Len(blocks) \in Nat /\ MaxBlocks \in Nat
      BY <1>0, ChainBounds DEF IInv, TypeOK
    <3> QED BY <3>1, <3>2, <3>3, <3>4, OutstandingFinite
  <2>4. \A d \in Mining' : Len(inbox'[d].refs) <= MaxRefs
    BY <1>0, <2>1 DEF Promised
  <2>5. ASSUME CarefulMiner
        PROVE  /\ \A d \in Outstanding' : inbox'[d].coinbase \notin TxsOf(blocks')
               /\ \A d, e \in Outstanding' :
                    inbox'[d].coinbase = inbox'[e].coinbase => d = e
               /\ \A d \in Mining' : \A i, j \in 1..Len(inbox'[d].refs) :
                    inbox'[d].refs[i] = inbox'[d].refs[j] => i = j
    BY <1>0, <2>1, <2>2, <2>5 DEF Promised
  <2> QED BY <2>3, <2>4, <2>5 DEF Promised
<1>7. \A d \in Client : d # client /\ Accepted(d)' => Accepted(d) /\ reply'[d] = reply[d]
  BY <1>2 DEF Accepted
<1>8. Accepted(client)' =>
        /\ pc = "adding" /\ reply'[client].block = BlockOf(msg)
        /\ reply'[client].block.prev_hash = msg.prev_hash
        /\ blocks[Len(blocks)] = BlockOf(msg)
  <2> SUFFICES ASSUME Accepted(client)'
               PROVE  /\ pc = "adding" /\ reply'[client].block = BlockOf(msg)
                      /\ reply'[client].block.prev_hash = msg.prev_hash
                      /\ blocks[Len(blocks)] = BlockOf(msg)
    OBVIOUS
  <2>1. pc = "adding" /\ r.block = BlockOf(msg)
    BY <1>0, <1>2 DEF Accepted
  <2>2. BlockOf(msg).prev_hash = msg.prev_hash
    BY <1>1, <2>1, BlockOfFrame DEF TypeAt
  <2>3. blocks[Len(blocks)] = BlockOf(msg)
    BY <1>0, <2>1 DEF Checked
  <2> QED BY <1>2, <2>1, <2>2, <2>3
<1>9. AcceptedIsStored'
  <2>1. blocks = blocks_db /\ Len(blocks) \in 1..Len(blocks_db)
    <3>1. blocks = blocks_db /\ blocks # <<>> /\ blocks \in Seq(Block)
      BY <1>0, <1>1 DEF IInv, Mirror, BlocksMirror, TypeOK
    <3> QED BY <3>1, EmptySeq
  <2>2. ASSUME NEW d \in Client, Accepted(d)'
        PROVE  \E h \in 1..Len(blocks_db') : blocks_db'[h] = reply'[d].block
    <3>1. CASE d = client
      BY <1>0, <1>8, <2>1, <2>2, <3>1 DEF Accepted
    <3>2. CASE d # client
      BY <1>7, <2>2, <3>2 DEF SInv, NetInv, AcceptedIsStored
    <3> QED BY <3>1, <3>2
  <2> QED BY <2>2 DEF AcceptedIsStored
<1>10. OneWinnerPerTip'
  <2>1. \A d \in Client : d # client /\ Accepted(d)' /\ Accepted(client)'
          => reply'[d].block.prev_hash # reply'[client].block.prev_hash
    BY <1>7, <1>8 DEF SInv, NetInv, Winner
  <2>2. \A d, e \in Client : d # client /\ e # client /\ d # e /\ Accepted(d)' /\ Accepted(e)'
          => reply'[d].block.prev_hash # reply'[e].block.prev_hash
    BY <1>7 DEF SInv, NetInv, OneWinnerPerTip
  <2> QED BY <1>0, <2>1, <2>2 DEF OneWinnerPerTip
<1>11. Winner'
  BY <1>0 DEF Winner
<1>12. PoolReplyNotShort'
  BY <1>2 DEF SInv, NetInv, PoolReplyNotShort
<1> QED BY <1>3, <1>4, <1>5, <1>6, <1>9, <1>10, <1>11, <1>12 DEF NetInv

\* The thread moves on within a handler, or drops a frame.
LEMMA InnerNet ==
  ASSUME SInv, UNCHANGED <<vars, inbox, ready, client, reply>>,
         pc \notin {"idle", "adding"}, pc' # "adding", STypeOK', Checked',
         pc' = "idle" \/ TypeAt(pc') = TypeAt(pc)
  PROVE  NetInv'
<1>0. /\ UNCHANGED <<phase, blocks, pool, blk, blocks_db, inbox, ready, client, reply>>
      /\ STypeOK /\ Sessions /\ Checked /\ Promised
  BY DEF SInv, ChainInv, NetInv, vars, mem, disk
<1>1. phase = "up" /\ msg' = msg
  BY <1>0, Served DEF msg
<1>2. Sessions'
  BY <1>0, <1>1 DEF Sessions
<1>3. Mining' = Mining /\ Outstanding' = Outstanding
  BY <1>0 DEF Mining, Outstanding
<1>4. Promised'
  BY <1>0, <1>3 DEF Promised, Mining
<1>5. AcceptedIsStored' /\ OneWinnerPerTip' /\ PoolReplyNotShort' /\ Winner'
  BY <1>0 DEF SInv, NetInv, AcceptedIsStored, OneWinnerPerTip, PoolReplyNotShort, Accepted,
              Winner
<1> QED BY <1>2, <1>4, <1>5 DEF NetInv

\* add_block is entered: the frame stays until its block is stored.
LEMMA EnterNet == ASSUME SInv, EnterAddBlock PROVE NetInv'
<1>0. /\ pc = "add_block" /\ pc' = "adding" /\ phase = "up" /\ blk' = BlockOf(msg)
      /\ UNCHANGED <<phase, blocks, pool, blocks_db, inbox, ready, client, k, count, reply>>
      /\ STypeOK /\ Sessions /\ Checked /\ Promised
  BY DEF EnterAddBlock, LockForBlock, Unlocked, SInv, ChainInv, NetInv, disk
<1>1. msg' = msg /\ msg \in Frame /\ msg.type = "CreateBlock"
  BY <1>0, Served DEF msg, TypeAt
<1>2. blk' # NoBlock
  BY <1>0, <1>1, BlockOfFrame, NoBlockAssumption
<1>3. STypeOK' /\ Sessions'
  BY <1>0, <1>1 DEF STypeOK, Sessions, TypeAt
<1>4. Checked'
  BY <1>0, <1>1, <1>2 DEF Checked
<1>5. Mining' = Mining /\ Outstanding' = Outstanding
  BY <1>0, <1>2 DEF Mining, Outstanding
<1>6. Promised'
  BY <1>0, <1>5 DEF Promised, Mining
<1>7. AcceptedIsStored' /\ OneWinnerPerTip' /\ PoolReplyNotShort' /\ Winner'
  BY <1>0, <1>2 DEF SInv, NetInv, AcceptedIsStored, OneWinnerPerTip, PoolReplyNotShort,
                    Accepted, Winner
<1> QED BY <1>3, <1>4, <1>6, <1>7 DEF NetInv

\* The steps of a handler, each one of the above.
LEMMA HandlerNet == ASSUME SInv, Handler PROVE NetInv'
<1>0. STypeOK /\ Sessions /\ Checked /\ ChainInv /\ IInv
  BY DEF SInv, ChainInv, NetInv
<1>1. ASSUME pc # "idle"
      PROVE  /\ msg \in Frame /\ msg.type = TypeAt(pc) /\ client \in Client
             /\ phase = "up"
  BY <1>0, <1>1, Served
<1>2. CASE handle_msg
  BY <1>2, HandleNet
<1>3. CASE on_unknown
  <2>1. STypeOK' /\ Checked'
    BY <1>0, <1>3, <1>1 DEF on_unknown, STypeOK, Checked, vars, mem
  <2> QED BY <1>3, <2>1, InnerNet DEF on_unknown
<1>4. CASE on_get_difficulty \/ on_get_tip \/ on_get_utxos
  <2>1. PICK r : /\ r.type \in {"DifficultyResponse", "TipResponse", "UTXOsResponse"}
                 /\ send(r) /\ Unlocked /\ UNCHANGED vars /\ pc # "idle"
    BY <1>4 DEF on_get_difficulty, on_get_tip, on_get_utxos
  <2> QED BY <2>1, AnswerNet DEF Unlocked, vars, mem, disk
<1>5. CASE CountPool
  <2>1. pool = pool_db /\ Cardinality(pool) \in Nat
    BY <1>0, <1>5, FS_CardinalityType
       DEF CountPool, Unlocked, ChainInv, IInv, Mirror
  <2>2. STypeOK'
    BY <1>0, <1>5, <2>1 DEF CountPool, STypeOK
  <2>3. Checked'
    BY <1>0, <1>5, <2>1 DEF CountPool, Unlocked, Checked, vars, mem
  <2> QED BY <1>5, <2>2, <2>3, InnerNet DEF CountPool, TypeAt
<1>6. CASE ListPool
  <2> DEFINE r == [type |-> "PoolResponse", count |-> count, txids |-> pool]
  <2>1. /\ r.type = "PoolResponse" /\ r.count <= Cardinality(r.txids)
        /\ send(r) /\ Unlocked /\ UNCHANGED vars /\ pc # "idle"
    BY <1>0, <1>6 DEF ListPool, Checked
  <2> HIDE DEF r
  <2> QED BY <2>1, AnswerNet DEF Unlocked, vars, mem, disk
<1>7. CASE on_create_tx
  <2>1. PICK r : /\ r.type = "TransactionResponse" /\ send(r)
                 /\ UNCHANGED <<phase, blocks, blk, blocks_db>>
    BY <1>7 DEF on_create_tx, TxResponse, add_tx, reject_tx, vars, mem, disk
  <2>2. pc # "idle" /\ blk = NoBlock
    BY <1>0, <1>1, <1>7 DEF on_create_tx, Checked
  <2> QED BY <2>1, <2>2, AnswerNet
<1>8. CASE pool_contains
  <2>1. CASE msg.refs[k] \in pool
    <3>1. STypeOK'
      BY <1>0, <1>8, <2>1 DEF pool_contains, STypeOK
    <3>2. Checked'
      BY <1>0, <1>8, <2>1 DEF pool_contains, Unlocked, Checked, vars, mem, msg
    <3> QED BY <1>8, <2>1, <3>1, <3>2, InnerNet DEF pool_contains, TypeAt
  <2>2. CASE msg.refs[k] \notin pool
    <3>1. PICK r : /\ r.type = "CreateBlockResponse" /\ r.err = "InvalidPayload"
                   /\ send(r) /\ Unlocked /\ UNCHANGED vars /\ pc # "idle"
      BY <1>8, <2>2 DEF pool_contains, BlockResponse
    <3> QED BY <3>1, AnswerNet DEF Unlocked, vars, mem, disk
  <2> QED BY <2>1, <2>2
<1>9. CASE get_pool_tx
  <2>1. CASE msg.refs[k] \in pool
    <3>1. STypeOK'
      BY <1>0, <1>9, <2>1 DEF get_pool_tx, STypeOK, MsgType
    <3>2. Len(msg.refs) \in Nat /\ k \in Nat \ {0} /\ k <= Len(msg.refs)
      BY <1>0, <1>1, <1>9, FrameFields DEF get_pool_tx, TypeAt, Checked, STypeOK
    <3>3. \A i \in 1..(k' - 1) : i \in 1..(k - 1) \/ i = k
      BY <1>9, <2>1, <3>2 DEF get_pool_tx
    <3>4. msg' = msg /\ pc' = "CreateBlock" /\ k' = k + 1
          /\ UNCHANGED <<phase, blocks, blk, pool>> /\ Unlocked
      BY <1>9, <2>1 DEF get_pool_tx, vars, mem, msg
    <3>5. Checked'
      BY <1>0, <1>9, <2>1, <3>2, <3>3, <3>4 DEF get_pool_tx, Unlocked, Checked
    <3> QED BY <1>9, <2>1, <3>1, <3>5, InnerNet DEF get_pool_tx, TypeAt
  <2>2. CASE msg.refs[k] \notin pool
    BY <1>0, <1>9, <2>2 DEF get_pool_tx, Checked
  <2> QED BY <2>1, <2>2
<1>10. CASE CheckBlock
  <2>1. CASE BlockErr # "None"
    <3>1. PICK r : /\ r.type = "CreateBlockResponse" /\ r.err # "None"
                   /\ send(r) /\ Unlocked /\ UNCHANGED vars /\ pc # "idle"
      BY <1>10, <2>1 DEF CheckBlock, BlockResponse
    <3> QED BY <3>1, AnswerNet DEF Unlocked, vars, mem, disk
  <2>2. CASE BlockErr = "None"
    <3>1. STypeOK'
      BY <1>0, <1>10, <2>2 DEF CheckBlock, STypeOK
    <3>2. Len(msg.refs) \in Nat /\ k \in Nat \ {0} /\ k <= Len(msg.refs) + 1
      BY <1>0, <1>1, <1>10, FrameFields DEF CheckBlock, TypeAt, Checked, STypeOK
    <3>3. \A i \in 1..Len(msg.refs) : msg.refs[i] \in pool /\ ~is_coinbase(msg.refs[i])
      <4>1. k - 1 = Len(msg.refs)
        BY <1>10, <3>2 DEF CheckBlock
      <4>2. pool = pool_db
        BY <1>0, <1>10 DEF CheckBlock, Unlocked, IInv, Mirror
      <4> QED BY <1>0, <1>10, <4>1, <4>2 DEF CheckBlock, Checked, ChainInv
    <3>4. msg.prev_hash = TipHash
      BY <2>2 DEF BlockErr
    <3>5. Checked'
      BY <1>0, <1>10, <2>2, <3>3, <3>4
         DEF CheckBlock, Unlocked, Checked, vars, mem, msg, TipHash
    <3> QED BY <1>10, <2>2, <3>1, <3>5, InnerNet DEF CheckBlock, TypeAt
  <2> QED BY <2>1, <2>2
<1>11. CASE EnterAddBlock
  BY <1>11, EnterNet
<1>12. CASE BlockAccepted
  <2> DEFINE r == BlockResponse("None")
  <2>1. /\ r.type = "CreateBlockResponse" /\ r.block = BlockOf(msg)
        /\ pc = "adding" /\ send(r) /\ Unlocked /\ UNCHANGED vars
    BY <1>12 DEF BlockAccepted, BlockResponse
  <2> HIDE DEF r
  <2> QED BY <2>1, AnswerNet DEF Unlocked, vars, mem, disk
<1> QED BY <1>2, <1>3, <1>4, <1>5, <1>6, <1>7, <1>8, <1>9, <1>10, <1>11, <1>12 DEF Handler

\* While the node loads nobody is connected.
LEMMA LoadNet == ASSUME SInv, LoadStep \/ Start, UNCHANGED net PROVE NetInv'
<1>0. /\ UNCHANGED <<inbox, ready, pc, client, k, count, reply>>
      /\ STypeOK /\ Sessions /\ BlocksMirror
  BY DEF net, SInv, ChainInv, NetInv, IInv, Mirror
<1>1. phase # "up" /\ (phase' = "up" => blk' = NoBlock)
  BY <1>0 DEF LoadStep, LoadBlock, ApplyLoaded, PushLoaded, load_pool, create_genesis,
              Start, mem, BlocksMirror
<1>2. STypeOK'
  BY <1>0 DEF STypeOK
<1> QED BY <1>0, <1>1, <1>2, QuietNet DEF Sessions

\* A wallet's submission over HTTP lets the pool only grow.
LEMMA SubmissionNet == ASSUME SInv, Submission, UNCHANGED net PROVE NetInv'
<1>0. /\ UNCHANGED <<inbox, ready, pc, client, k, count, reply>>
      /\ STypeOK /\ Sessions /\ Checked /\ Promised /\ IInv /\ IsFiniteSet(pool_db)
  BY DEF net, SInv, ChainInv, NetInv
<1>1. PICK st \in Submitted : add_tx(st) \/ reject_tx(st)
  BY DEF Submission
<1>2. /\ UNCHANGED <<phase, blocks, blk, blocks_db>> /\ phase = "up" /\ blk = NoBlock
      /\ pool' = pool \cup {st.tx} \/ pool' = pool
  BY <1>1 DEF add_tx, reject_tx, Unlocked, vars, mem, disk
<1>3. pool \subseteq pool' /\ Cardinality(pool) <= Cardinality(pool')
      /\ Cardinality(pool) \in Nat /\ Cardinality(pool') \in Nat
  <2>1. pool = pool_db
    BY <1>0, <1>2 DEF IInv, Mirror
  <2>2. IsFiniteSet(pool') /\ pool \subseteq pool'
    BY <1>0, <1>2, <2>1, FS_AddElement
  <2> QED BY <1>0, <2>1, <2>2, FS_Subset, FS_CardinalityType
<1>4. msg' = msg
  BY <1>0 DEF msg
<1>5. STypeOK' /\ Sessions'
  BY <1>0, <1>2, <1>4 DEF STypeOK, Sessions
<1>6. Checked'
  <2>1. pc = "ListPool" => count <= Cardinality(pool')
    BY <1>0, <1>3 DEF Checked, STypeOK
  <2> QED BY <1>0, <1>2, <1>3, <1>4, <2>1 DEF Checked, TipHash
<1>7. Mining' = Mining /\ Outstanding' = Outstanding
  BY <1>0, <1>2 DEF Mining, Outstanding
<1>8. Promised'
  BY <1>0, <1>2, <1>7 DEF Promised
<1>9. AcceptedIsStored' /\ OneWinnerPerTip' /\ PoolReplyNotShort' /\ Winner'
  BY <1>0, <1>2, <1>4 DEF SInv, NetInv, AcceptedIsStored, OneWinnerPerTip,
                          PoolReplyNotShort, Accepted, Winner
<1> QED BY <1>5, <1>6, <1>8, <1>9 DEF NetInv

\* add_block takes transactions out of the pool while the thread waits for it.
LEMMA ApplyMinedNet == ASSUME SInv, ApplyMined, UNCHANGED net PROVE NetInv'
<1>0. /\ UNCHANGED <<inbox, ready, pc, client, k, count, reply>>
      /\ UNCHANGED <<phase, blocks, blk, blocks_db>> /\ phase = "up" /\ blk # NoBlock
      /\ STypeOK /\ Sessions /\ Checked /\ Promised
  BY DEF net, SInv, ChainInv, NetInv, ApplyMined
<1>1. msg' = msg /\ pc = "adding"
  BY <1>0 DEF msg, Checked
<1>2. STypeOK' /\ Sessions'
  BY <1>0, <1>1 DEF STypeOK, Sessions
<1>3. Checked'
  BY <1>0, <1>1 DEF Checked
<1>4. Mining' = Mining /\ Outstanding' = Outstanding
  BY <1>0 DEF Mining, Outstanding
<1>5. Promised'
  BY <1>0, <1>4 DEF Promised
<1>6. AcceptedIsStored' /\ OneWinnerPerTip' /\ PoolReplyNotShort' /\ Winner'
  BY <1>0 DEF SInv, NetInv, AcceptedIsStored, OneWinnerPerTip, PoolReplyNotShort,
              Accepted, Winner
<1> QED BY <1>2, <1>3, <1>5, <1>6 DEF NetInv

\* The block is stored: its miner is the first to win this tip.
LEMMA StoreBlockNet ==
  ASSUME SInv, StoreBlock, UNCHANGED net, HashHeights' PROVE NetInv'
<1>0. /\ UNCHANGED <<inbox, ready, pc, client, k, count, reply>>
      /\ phase = "up" /\ phase' = "up" /\ blk # NoBlock /\ blk' = NoBlock
      /\ blocks' = Append(blocks, blk)
      /\ blocks_db' = PutBlock(blocks_db, Len(blocks) + 1, blk)
      /\ STypeOK /\ Sessions /\ Checked /\ Promised /\ IInv /\ HashHeights
  BY DEF net, SInv, ChainInv, NetInv, StoreBlock
<1>1. pc = "adding" /\ blk = BlockOf(msg) /\ msg' = msg
  BY <1>0 DEF Checked, msg
<1>2. msg \in Frame /\ msg.type = "CreateBlock" /\ client \in Client /\ msg # NoMsg
  BY <1>0, <1>1, Served, FrameFields DEF TypeAt
<1>3. /\ blocks \in Seq(Block) /\ blocks = blocks_db /\ blk \in Block
  BY <1>0 DEF IInv, TypeOK, Mirror, BlocksMirror
<1>4. blocks_db' = Append(blocks, blk)
  BY <1>0, <1>3, PutAppends
<1>5. /\ Len(blocks) \in Nat /\ Len(blocks') = Len(blocks) + 1
      /\ \A h \in 1..Len(blocks) : blocks_db'[h] = blocks[h]
      /\ blocks_db'[Len(blocks) + 1] = blk /\ blocks' = blocks_db'
  BY <1>0, <1>3, <1>4, AppendProperties
<1>6. STypeOK' /\ Sessions'
  BY <1>0, <1>1 DEF STypeOK, Sessions
<1>7. Checked'
  BY <1>0, <1>1, <1>5 DEF Checked
<1>8. /\ Mining' = Mining /\ Outstanding = Mining /\ client \in Mining
      /\ Outstanding' = Mining \ {client}
  BY <1>0, <1>1, <1>2 DEF Mining, Outstanding, msg
<1>9. Promised'
  <2>1. Len(blocks') + Cardinality(Outstanding') <= MaxBlocks
    <3>1. Cardinality(Outstanding') = Cardinality(Outstanding) - 1
      BY <1>8, OutstandingFinite, FS_RemoveElement
    <3>2. Len(blocks) + Cardinality(Outstanding) <= MaxBlocks
      BY <1>0, <1>8 DEF Promised
    <3> QED BY <1>5, <3>1, <3>2, OutstandingFinite, ChainBounds
  <2>2. ASSUME CarefulMiner, NEW d \in Outstanding'
        PROVE  inbox[d].coinbase \notin TxsOf(blocks')
    <3>1. /\ d \in Outstanding /\ d # client /\ d \in Client
          /\ inbox[d] \in Frame /\ inbox[d].type = "CreateBlock"
      BY <1>0, <1>8, <2>2 DEF Mining, STypeOK
    <3>2. inbox[d].coinbase \notin TxsOf(blocks) /\ inbox[d].coinbase # msg.coinbase
      BY <1>0, <1>8, <2>2, <3>1 DEF Promised, msg
    <3>3. is_coinbase(inbox[d].coinbase)
      BY <3>1, FrameFields, CoinbaseAssumption DEF is_coinbase
    <3>4. ASSUME NEW i \in 1..Len(blk.txs) PROVE blk.txs[i] # inbox[d].coinbase
      <4>1. /\ Len(msg.refs) \in Nat /\ Len(blk.txs) = Len(msg.refs) + 1
            /\ blk.txs[1] = msg.coinbase
            /\ \A j \in 2..(Len(msg.refs) + 1) : blk.txs[j] = msg.refs[j - 1]
        BY <1>1, <1>2, BlockOfFrame
      <4>2. CASE i = 1
        BY <3>2, <4>1, <4>2
      <4>3. CASE i # 1
        <5>1. i \in 2..(Len(msg.refs) + 1) /\ i - 1 \in 1..Len(msg.refs)
          BY <4>1, <4>3
        <5>2. ~is_coinbase(msg.refs[i - 1])
          BY <1>0, <1>1, <5>1 DEF Checked
        <5> QED BY <3>3, <4>1, <5>1, <5>2
      <4> QED BY <4>2, <4>3
    <3>5. TxsOf(<<blk>>) = {blk.txs[i] : i \in 1..Len(blk.txs)}
      <4>1. Len(<<blk>>) = 1 /\ <<blk>>[1] = blk /\ 1..1 = {1}
        OBVIOUS
      <4> QED BY <4>1 DEF TxsOf
    <3>6. TxsOf(blocks') = TxsOf(blocks) \cup TxsOf(<<blk>>)
      BY <1>0, <1>3, TxsOfAppend
    <3> QED BY <3>2, <3>4, <3>5, <3>6
  <2>3. Outstanding' \subseteq Outstanding /\ inbox' = inbox
    BY <1>0, <1>8
  <2> QED BY <1>0, <1>8, <2>1, <2>2, <2>3 DEF Promised
<1>10. \A c \in Client : Accepted(c)' => Accepted(c)
  BY <1>0 DEF Accepted
<1>11. AcceptedIsStored'
  <2>1. \A h \in 1..Len(blocks_db) : h \in 1..Len(blocks_db') /\ blocks_db'[h] = blocks_db[h]
    BY <1>3, <1>5
  <2> QED BY <1>0, <1>10, <2>1 DEF SInv, NetInv, AcceptedIsStored
<1>12. OneWinnerPerTip' /\ PoolReplyNotShort'
  BY <1>0, <1>10 DEF SInv, NetInv, OneWinnerPerTip, PoolReplyNotShort
<1>13. Winner'
  <2>1. Len(msg.prev_hash) = Len(blocks)
    <3>1. Len(blk.prev_hash) = Len(blocks)
      <4>1. Len(blocks) + 1 \in 1..Len(blocks_db')
        BY <1>5
      <4>2. Len(blocks_db'[Len(blocks) + 1].prev_hash) = (Len(blocks) + 1) - 1
        BY <4>1 DEF HashHeights
      <4> QED BY <1>5, <4>2
    <3> QED BY <1>1, <1>2, <3>1, BlockOfFrame
  <2>2. ASSUME NEW c \in Client, Accepted(c) PROVE reply[c].block.prev_hash # msg.prev_hash
    <3>1. PICK h \in 1..Len(blocks_db) : blocks_db[h] = reply[c].block
      BY <2>2 DEF SInv, NetInv, AcceptedIsStored
    <3>2. Len(blocks_db[h].prev_hash) = h - 1
      BY <1>0 DEF HashHeights
    <3>3. h - 1 < Len(blocks)
      BY <1>3, <1>5
    <3> QED BY <1>5, <2>1, <3>1, <3>2, <3>3
  <2> QED BY <1>0, <1>1, <1>10, <2>2 DEF Winner
<1> QED BY <1>6, <1>7, <1>9, <1>11, <1>12, <1>13 DEF NetInv

\* Nothing happens.
LEMMA IdleNet == ASSUME SInv, UNCHANGED svars PROVE NetInv'
BY DEF SInv, NetInv, STypeOK, Sessions, Checked, Promised, Outstanding, Mining,
       AcceptedIsStored, OneWinnerPerTip, PoolReplyNotShort, Accepted, Winner,
       svars, net, vars, mem, disk, msg, TipHash

LEMMA NextSInv == SInv /\ [NextS]_svars => SInv'
<1> SUFFICES ASSUME SInv, [NextS]_svars PROVE SInv'
  OBVIOUS
<1>1. [Next]_vars
  BY ServerStep
<1>2. ChainInv'
  <2>1. IInv' /\ HashHeights'
    BY <1>1, NextIInv, HashHeightsStep DEF SInv, ChainInv
  <2>2. (IsFiniteSet(pool_db) /\ \A t \in pool_db : ~is_coinbase(t))'
    BY <1>1, PoolDbStep DEF SInv, ChainInv
  <2> QED BY <2>1, <2>2 DEF ChainInv
<1>3. NetInv'
  <2>1. ASSUME NEW c \in Client, NEW r \in Request, Send(c, r) PROVE NetInv'
    BY <2>1, SendNet
  <2>2. CASE Handler
    BY <2>2, HandlerNet
  <2>3. CASE (LoadStep \/ Start) /\ UNCHANGED net
    BY <2>3, LoadNet
  <2>4. CASE Submission /\ UNCHANGED net
    BY <2>4, SubmissionNet
  <2>5. CASE BlockStep /\ UNCHANGED net
    BY <1>2, <2>5, ApplyMinedNet, StoreBlockNet DEF BlockStep, ChainInv
  <2>6. CASE StopServer \/ CrashServer
    <3>1. phase' = "down" /\ CloseAll
      BY <2>6 DEF StopServer, CrashServer, Stop, Crash
    <3>2. STypeOK'
      BY <3>1 DEF CloseAll, STypeOK, SInv, NetInv
    <3>3. pc' = "idle" /\ ready' = <<>>
          /\ \A c \in Client : inbox'[c] = NoMsg /\ reply'[c] = NoMsg
      BY <3>1 DEF CloseAll
    <3> QED BY <3>1, <3>2, <3>3, QuietNet
  <2>7. CASE UNCHANGED svars
    BY <2>7, IdleNet
  <2> QED BY <2>1, <2>2, <2>3, <2>4, <2>5, <2>6, <2>7 DEF NextS
<1> QED BY <1>2, <1>3 DEF SInv

LEMMA InitSInv == InitS => SInv
<1> SUFFICES ASSUME InitS PROVE SInv
  OBVIOUS
<1>1. Init /\ IInv
  BY InitIInv DEF InitS
<1>2. ChainInv
  BY <1>1, FS_EmptySet DEF Init, ChainInv, HashHeights
<1>3. STypeOK /\ Sessions
  BY DEF InitS, Init, STypeOK, Sessions
<1>4. Mining = {} /\ Outstanding = {}
  BY DEF InitS, Mining, Outstanding
<1>5. Checked /\ Promised
  BY <1>4 DEF InitS, Init, Checked, Promised
<1>6. AcceptedIsStored /\ OneWinnerPerTip /\ PoolReplyNotShort /\ Winner
  BY DEF InitS, AcceptedIsStored, OneWinnerPerTip, PoolReplyNotShort, Accepted, Winner
<1> QED BY <1>2, <1>3, <1>5, <1>6 DEF SInv, NetInv

-----------------------------------------------------------------------------
(* The theorems *)

\* The invariant of the TCP server and the chain behind it, whatever the number
\* of clients, wallets, restarts and crashes (net.cpp, chain.cpp).
THEOREM ServerInvariance == SpecS => []SInv
BY InitSInv, NextSInv, PTL DEF SpecS

\* Server implements Chain: a block enters add_block only on the tip and only
\* with pool transactions, although on_create_block checked both under locks it
\* has released since; so every theorem about Chain holds of the server.
THEOREM DrivesChain == SpecS => ChainSpec
<1>1. InitS => Init
  BY DEF InitS
<1>2. SInv /\ [NextS]_svars => [Next]_vars
  BY ServerStep
<1> QED BY <1>1, <1>2, ServerInvariance, PTL DEF SpecS, ChainSpec, Spec

\* The pool_.at of get_pool_tx never throws: between pool_contains and
\* get_pool_tx only submissions happen, and they remove nothing.
THEOREM PoolTxFound == SpecS => []GetPoolTxFinds
<1>1. SInv => GetPoolTxFinds
  BY DEF SInv, NetInv, Checked, GetPoolTxFinds
<1> QED BY <1>1, ServerInvariance, PTL

\* A block that a miner is told was accepted is in the blocks database: the
\* response follows store_block, and nothing removes a block.
THEOREM AcceptedStored == SpecS => []AcceptedIsStored
<1>1. SInv => AcceptedIsStored
  BY DEF SInv, NetInv
<1> QED BY <1>1, ServerInvariance, PTL

\* Of any number of miners racing for a tip one is told that it has won.
THEOREM OneWinner == SpecS => []OneWinnerPerTip
<1>1. SInv => OneWinnerPerTip
  BY DEF SInv, NetInv
<1> QED BY <1>1, ServerInvariance, PTL

\* A PoolResponse announces no more txids than it carries, although on_get_pool
\* reads the pool twice.
THEOREM PoolReplyWhole == SpecS => []PoolReplyNotShort
<1>1. SInv => PoolReplyNotShort
  BY DEF SInv, NetInv
<1> QED BY <1>1, ServerInvariance, PTL
=============================================================================

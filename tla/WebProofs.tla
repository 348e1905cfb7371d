----------------------------- MODULE WebProofs -----------------------------
(***************************************************************************)
(* Proofs about Web: what HTTP answers say and what WebSocket connections  *)
(* are told, with any number of threads, connections, blocks and restarts. *)
(***************************************************************************)
EXTENDS Web, ChainProofs

-----------------------------------------------------------------------------
(* The inductive invariant behind them; that of Chain holds as well *)

WTypeOK ==
  /\ job = [w \in Worker |-> job[w]] /\ tcp \in Event \cup {Free}
  /\ conn \in [Conn -> {"new", "opening", "open", "closed"}]
  /\ stream \in [Conn -> Seq(Message)]
  /\ log \in Seq(Event) /\ via_tcp \subseteq Tx

\* Until the constructor returns nothing is served.
Quiet ==
  phase # "up" => /\ \A w \in Worker : job[w] = NoJob
                  /\ tcp = Free /\ ws_connections = {} /\ via_tcp = {}

\* What a handler has read of a chain of n blocks or fewer, and what it has sent.
JobOK(j, n) ==
  /\ j.at = "broadcast" => j.tx \in Tx
  /\ j.at \in {"tip", "status"} => j.height \in Nat /\ j.height <= n
  /\ j.at = "page" => /\ j.start \in Nat /\ Len(j.page) \in Nat
                      /\ Labelled(j.start, j.page, n)
  /\ j.at = "sent" /\ j.body.type = "tip" =>
       j.body.height <= Len(j.body.block.prev_hash)
  /\ j.at = "sent" /\ j.body.type = "status" => j.body.blockHeight <= Len(j.body.tipHash)
  /\ j.at = "sent" /\ j.body.type = "blocks" =>
       Labelled(j.body.start, j.body.page, j.body.total)
Jobs == \A w \in Worker : JobOK(job[w], Len(blocks))

\* A block under way to the connections is the tip, and no other is begun.
PendingBlock == tcp # Free /\ IsBlock(tcp)
Announcing ==
  /\ phase = "up" /\ blk # NoBlock => tcp = Free
  /\ PendingBlock => tcp.hash = TipHash

\* The last block a registered connection was told of, if any, is the tip, or
\* the one below the tip that is about to be announced.
UpTo(s, hash) ==
  \A i \in 1..Len(s) :
    IsBlock(s[i]) /\ (\A m \in (i + 1)..Len(s) : ~IsBlock(s[m])) => s[i].hash = hash
Told == IF PendingBlock THEN PrevOf(tcp.hash) ELSE TipHash
Streams ==
  /\ \A x \in Conn : conn[x] = "new" => stream[x] = <<>>
  /\ \A x \in ws_connections : UpTo(stream[x], Told)

\* What came over TCP is announced at once.
Announced ==
  \A t \in via_tcp : tcp = new_tx(t) \/ \E j \in 1..Len(log) : log[j] = new_tx(t)

WInv ==
  WTypeOK /\ Quiet /\ Jobs /\ Announcing /\ Streams /\ BlocksInOrder /\ Announced

-----------------------------------------------------------------------------
(* The threads around the chain change it only as Chain allows *)

LEMMA WebStep == ASSUME [NextW]_wvars PROVE [Next]_vars
<1>1. CASE Http
  BY <1>1 DEF Http, PostTx, BroadcastTx, ReadHeight, ReadTip, ReadStatus, ReadPage,
              ReadTotal, Reply, Submission, Next
<1>2. CASE Tcp
  BY <1>2 DEF Tcp, TcpTx, TcpBlock, TcpApply, TcpStored, TcpBroadcast, Submission,
              BlockStep, Next
<1>3. CASE \E x \in Conn : onopen(x) \/ greet(x) \/ onclose(x)
  BY <1>3 DEF onopen, greet, onclose
<1>4. CASE (LoadStep \/ Start) /\ UNCHANGED web
  BY <1>4 DEF Next, Process
<1>5. CASE StopWeb \/ CrashWeb
  BY <1>5 DEF StopWeb, CrashWeb, Next, Process
<1>6. CASE UNCHANGED wvars
  BY <1>6 DEF wvars
<1> QED BY <1>1, <1>2, <1>3, <1>4, <1>5, <1>6 DEF NextW

\* What holds of Chain holds of the chain behind the HTTP server.
LEMMA WebChain == SpecW => Spec
<1>1. InitW => Init
  BY DEF InitW
<1>2. [NextW]_wvars => [Next]_vars
  BY WebStep
<1> QED BY <1>1, <1>2, PTL DEF SpecW, Spec

-----------------------------------------------------------------------------
(* Sequences of messages *)

\* A message that is no block changes nothing for the blocks before it.
LEMMA AppendOther ==
  ASSUME NEW s \in Seq(Message), NEW e \in Message, ~IsBlock(e)
  PROVE  /\ InOrder(s) => InOrder(Append(s, e))
         /\ \A hash : UpTo(s, hash) => UpTo(Append(s, e), hash)
<1> DEFINE d == Append(s, e)
<1>1. /\ Len(s) \in Nat /\ Len(d) = Len(s) + 1 /\ d[Len(s) + 1] = e
      /\ \A i \in 1..Len(s) : d[i] = s[i]
  BY AppendProperties
<1> HIDE DEF d
<1>2. \A i \in 1..Len(d) : IsBlock(d[i]) => i \in 1..Len(s) /\ d[i] = s[i]
  BY <1>1
<1>3. ASSUME InOrder(s) PROVE InOrder(d)
  <2> SUFFICES ASSUME NEW i \in 1..Len(d), NEW j \in 1..Len(d),
                      i < j, IsBlock(d[i]), IsBlock(d[j]),
                      \A m \in (i + 1)..(j - 1) : ~IsBlock(d[m])
               PROVE  PrevOf(d[j].hash) = d[i].hash
    BY DEF InOrder
  <2>1. i \in 1..Len(s) /\ j \in 1..Len(s) /\ d[i] = s[i] /\ d[j] = s[j]
    BY <1>2
  <2>2. \A m \in (i + 1)..(j - 1) : m \in 1..Len(s) /\ d[m] = s[m]
    BY <1>1, <2>1
  <2> QED BY <1>3, <2>1, <2>2 DEF InOrder
<1>4. ASSUME NEW hash, UpTo(s, hash) PROVE UpTo(d, hash)
  <2> SUFFICES ASSUME NEW i \in 1..Len(d), IsBlock(d[i]),
                      \A m \in (i + 1)..Len(d) : ~IsBlock(d[m])
               PROVE  d[i].hash = hash
    BY DEF UpTo
  <2>1. i \in 1..Len(s) /\ d[i] = s[i]
    BY <1>2
  <2>2. \A m \in (i + 1)..Len(s) : m \in (i + 1)..Len(d) /\ d[m] = s[m]
    BY <1>1, <2>1
  <2> QED BY <1>4, <2>1, <2>2 DEF UpTo
<1> QED BY <1>3, <1>4 DEF d

\* A block follows on the last block before it.
LEMMA AppendBlock ==
  ASSUME NEW s \in Seq(Message), NEW e \in Message, IsBlock(e),
         InOrder(s), UpTo(s, PrevOf(e.hash))
  PROVE  InOrder(Append(s, e)) /\ UpTo(Append(s, e), e.hash)
<1> DEFINE d == Append(s, e)
<1>1. /\ Len(s) \in Nat /\ Len(d) = Len(s) + 1 /\ d[Len(s) + 1] = e
      /\ \A i \in 1..Len(s) : d[i] = s[i]
  BY AppendProperties
<1> HIDE DEF d
<1>2. InOrder(d)
  <2> SUFFICES ASSUME NEW i \in 1..Len(d), NEW j \in 1..Len(d),
                      i < j, IsBlock(d[i]), IsBlock(d[j]),
                      \A m \in (i + 1)..(j - 1) : ~IsBlock(d[m])
               PROVE  PrevOf(d[j].hash) = d[i].hash
    BY DEF InOrder
  <2>1. i \in 1..Len(s) /\ d[i] = s[i]
    BY <1>1
  <2>2. CASE j \in 1..Len(s)
    <3>1. d[j] = s[j] /\ \A m \in (i + 1)..(j - 1) : m \in 1..Len(s) /\ d[m] = s[m]
      BY <1>1, <2>1, <2>2
    <3> QED BY <2>1, <2>2, <3>1 DEF InOrder
  <2>3. CASE j = Len(s) + 1
    <3>1. \A m \in (i + 1)..Len(s) : m \in (i + 1)..(j - 1) /\ d[m] = s[m]
      BY <1>1, <2>1, <2>3
    <3>2. s[i].hash = PrevOf(e.hash)
      BY <2>1, <3>1 DEF UpTo
    <3> QED BY <1>1, <2>1, <2>3, <3>2
  <2> QED BY <1>1, <2>2, <2>3
<1>3. UpTo(d, e.hash)
  <2> SUFFICES ASSUME NEW i \in 1..Len(d), IsBlock(d[i]),
                      \A m \in (i + 1)..Len(d) : ~IsBlock(d[m])
               PROVE  d[i].hash = e.hash
    BY DEF UpTo
  <2>1. CASE i = Len(s) + 1
    BY <1>1, <2>1
  <2>2. CASE i \in 1..Len(s)
    <3>1. Len(s) + 1 \in (i + 1)..Len(d)
      BY <1>1, <2>2
    <3> QED BY <1>1, <3>1
  <2> QED BY <1>1, <2>1, <2>2
<1> QED BY <1>2, <1>3 DEF d

\* The hash of a block leads back to that of its predecessor.
LEMMA HashOfBlock ==
  ASSUME NEW b \in Block
  PROVE  /\ BlockHash(b) \in Hash /\ PrevOf(BlockHash(b)) = b.prev_hash
         /\ Len(BlockHash(b)) = Len(b.prev_hash) + 1
<1> DEFINE x == [txs |-> b.txs, timestamp |-> b.timestamp]
           p == b.prev_hash
<1>1. p \in Seq(Body) /\ x \in Body /\ BlockHash(b) = Append(p, x) /\ Len(p) \in Nat
  BY DEF Block, Hash, Body, BlockHash
<1> HIDE DEF p, x
<1>2. Append(p, x) \in Seq(Body) /\ Len(Append(p, x)) = Len(p) + 1
  BY <1>1
<1>3. SubSeq(Append(p, x), 1, Len(p)) = p
  BY <1>1
<1> QED BY <1>1, <1>2, <1>3 DEF PrevOf, Hash, p

-----------------------------------------------------------------------------
(* HTTP answers *)

LEMMA MinOfTwo ==
  ASSUME NEW a \in Nat, NEW b \in Nat
  PROVE  Min({a, b}) \in Nat /\ Min({a, b}) <= a /\ Min({a, b}) <= b
<1>1. \E x \in {a, b} : \A y \in {a, b} : x <= y
  <2>1. a <= b \/ b <= a
    OBVIOUS
  <2> QED BY <2>1
<1>2. Min({a, b}) \in {a, b} /\ \A y \in {a, b} : Min({a, b}) <= y
  BY <1>1 DEF Min
<1> QED BY <1>2

\* A longer chain leaves what was read of it right.
LEMMA JobGrows ==
  ASSUME NEW j, NEW n \in Nat, NEW m \in Nat, n <= m, JobOK(j, n)
  PROVE  JobOK(j, m)
<1>1. j.at \in {"tip", "status"} => j.height \in Nat /\ j.height <= m
  BY DEF JobOK
<1>2. j.at = "page" => Labelled(j.start, j.page, m)
  BY DEF JobOK, Labelled
<1> QED BY <1>1, <1>2 DEF JobOK

\* Once the node is up the chain does not get shorter until the process ends.
LEMMA ChainGrows ==
  ASSUME IInv, IInv', [Next]_vars, phase = "up", phase' = "up"
  PROVE  /\ Len(blocks) \in Nat /\ Len(blocks') \in Nat /\ Len(blocks) <= Len(blocks')
         /\ ~StoreBlock => blocks' = blocks
<1>0. blocks \in Seq(Block)
  BY DEF IInv, TypeOK
<1>1. CASE StoreBlock
  <2>1. blocks' = Append(blocks, blk) /\ blk \in Block
    BY <1>1 DEF StoreBlock, IInv, TypeOK
  <2> QED BY <1>0, <1>1, <2>1, AppendProperties
<1>2. CASE ~StoreBlock
  <2>1. blocks' = blocks
    BY <1>2 DEF Next, LoadStep, BlockStep, Submission, Process, LoadBlock, ApplyLoaded,
                PushLoaded, load_pool, create_genesis, add_tx, reject_tx, BeginBlock,
                LockForBlock, ApplyMined, Start, Stop, Crash, vars, mem
  <2> QED BY <1>0, <1>2, <2>1
<1> QED BY <1>1, <1>2

\* Every block of the chain in memory tells its height.
LEMMA BlocksHeights ==
  ASSUME IInv, HashHeights, phase = "up"
  PROVE  /\ blocks \in Seq(Block) /\ Len(blocks) \in Nat \ {0}
         /\ height = Len(blocks)
         /\ \A h \in 1..Len(blocks) : Len(blocks[h].prev_hash) = h - 1
         /\ blocks[Len(blocks)] \in Block /\ TipHash \in Hash
<1>1. /\ blocks \in Seq(Block) /\ blocks = blocks_db /\ blocks # <<>>
      /\ height = Len(blocks)
  BY DEF IInv, TypeOK, Mirror, BlocksMirror
<1>2. Len(blocks) \in Nat \ {0}
  BY <1>1, EmptySeq
<1>3. blocks[Len(blocks)] \in Block
  BY <1>1, <1>2
<1> QED BY <1>1, <1>2, <1>3, HashOfBlock DEF HashHeights, TipHash

\* The page of get_blocks holds the blocks it should.
LEMMA PageLabelled ==
  ASSUME IInv, HashHeights, phase = "up",
         NEW start \in Nat, NEW n \in Nat, NEW to, to = PageEnd(start, n)
  PROVE  /\ Len(SubSeq(blocks, start + 1, to)) \in Nat
         /\ Labelled(start, SubSeq(blocks, start + 1, to), Len(blocks))
<1> DEFINE page == SubSeq(blocks, start + 1, to)
<1>0. /\ blocks \in Seq(Block) /\ Len(blocks) \in Nat
      /\ \A h \in 1..Len(blocks) : Len(blocks[h].prev_hash) = h - 1
  BY BlocksHeights
<1>1. to \in Nat /\ to >= start /\ (to > start => to <= Len(blocks))
  <2>1. CASE start >= Len(blocks) \/ n = 0
    BY <2>1 DEF PageEnd
  <2>2. CASE ~(start >= Len(blocks) \/ n = 0)
    <3>1. Len(blocks) - start \in Nat
      BY <1>0, <2>2
    <3>2. /\ Min({n, Len(blocks) - start}) \in Nat
          /\ Min({n, Len(blocks) - start}) <= Len(blocks) - start
      BY <3>1, MinOfTwo
    <3>3. to = start + Min({n, Len(blocks) - start})
      BY <2>2 DEF PageEnd
    <3> QED BY <1>0, <3>2, <3>3
  <2> QED BY <2>1, <2>2
<1>2. to = start => page = <<>>
  BY <1>1, SubSeqEmpty
<1>3. to > start =>
        /\ Len(page) = to - start
        /\ \A i \in 1..(to - start) : page[i] = blocks[start + 1 + i - 1]
  BY <1>0, <1>1, SubSeqProperties
<1> HIDE DEF page
<1>4. CASE to = start
  <2>1. Len(page) = 0
    BY <1>2, <1>4
  <2>2. Len(page) \in Nat /\ Labelled(start, page, Len(blocks))
    BY <2>1 DEF Labelled
  <2> QED BY <2>2 DEF page
<1>5. CASE to > start
  <2>1. to <= Len(blocks) /\ Len(page) = to - start /\ Len(page) \in Nat
    BY <1>1, <1>3, <1>5
  <2>2. ASSUME NEW i \in 1..Len(page)
        PROVE  Len(page[i].prev_hash) = start + i - 1 /\ start + i <= Len(blocks)
    <3>1. /\ i \in 1..(to - start) /\ start + i \in 1..Len(blocks)
          /\ start + 1 + i - 1 = start + i
      BY <1>0, <1>1, <2>1
    <3>2. page[i] = blocks[start + i]
      BY <1>3, <1>5, <3>1
    <3>3. Len(blocks[start + i].prev_hash) = (start + i) - 1
      BY <1>0, <3>1
    <3> QED BY <1>0, <3>1, <3>2, <3>3
  <2>3. Len(page) \in Nat /\ Labelled(start, page, Len(blocks))
    BY <2>1, <2>2 DEF Labelled
  <2> QED BY <2>3 DEF page
<1> QED BY <1>1, <1>4, <1>5

\* What a thread does leaves the other threads' work alone, and is right itself.
LEMMA OneJob ==
  ASSUME IInv, IInv', [Next]_vars, phase = "up", phase' = "up", WTypeOK, Jobs,
         NEW w \in Worker, NEW j, job' = [job EXCEPT ![w] = j], JobOK(j, Len(blocks'))
  PROVE  job' = [v \in Worker |-> job'[v]] /\ Jobs'
<1>1. job' = [v \in Worker |-> job'[v]]
  BY DEF WTypeOK
<1>2. job'[w] = j /\ \A v \in Worker : v # w => job'[v] = job[v]
  BY DEF WTypeOK
<1>3. \A v \in Worker : JobOK(job[v], Len(blocks'))
  BY ChainGrows, JobGrows DEF Jobs
<1> QED BY <1>1, <1>2, <1>3 DEF Jobs

LEMMA JobsStep ==
  ASSUME IInv, IInv', HashHeights, WTypeOK, Quiet, Jobs, [NextW]_wvars
  PROVE  job' = [w \in Worker |-> job'[w]] /\ Jobs'
<1> DEFINE Goal == job' = [w \in Worker |-> job'[w]] /\ Jobs'
<1> SUFFICES Goal
  OBVIOUS
<1>0. [Next]_vars
  BY WebStep
<1>1. ASSUME NEW w \in Worker, NEW st \in Submitted, PostTx(w, st) PROVE Goal
  <2>1. phase = "up" /\ phase' = "up"
    BY <1>1 DEF PostTx, add_tx, reject_tx, Unlocked, vars
  <2>2. st.tx \in Tx
    BY SubmittedAssumption DEF SignedTransaction
  <2>3. PICK j : job' = [job EXCEPT ![w] = j]
                 /\ (j = NoJob \/ j = [at |-> "broadcast", tx |-> st.tx])
    BY <1>1 DEF PostTx
  <2>4. JobOK(j, Len(blocks'))
    BY <2>2, <2>3 DEF JobOK, NoJob
  <2> QED BY <1>0, <2>1, <2>3, <2>4, OneJob
<1>2. ASSUME NEW w \in Worker, BroadcastTx(w) PROVE Goal
  <2>1. phase = "up" /\ phase' = "up" /\ job' = [job EXCEPT ![w] = NoJob]
    BY <1>2 DEF BroadcastTx, Quiet, NoJob, vars
  <2>2. JobOK(NoJob, Len(blocks'))
    BY DEF JobOK, NoJob
  <2> QED BY <1>0, <2>1, <2>2, OneJob
<1>3. ASSUME NEW w \in Worker, NEW q \in {"tip", "status"}, ReadHeight(w, q) PROVE Goal
  <2>1. phase = "up" /\ UNCHANGED <<phase, blocks>>
        /\ job' = [job EXCEPT ![w] = [at |-> q, height |-> height]]
    BY <1>3 DEF ReadHeight, Unlocked, vars, mem
  <2>2. height = Len(blocks) /\ Len(blocks) \in Nat
    BY <2>1, BlocksHeights
  <2>3. JobOK([at |-> q, height |-> height], Len(blocks'))
    BY <2>1, <2>2 DEF JobOK
  <2> QED BY <1>0, <2>1, <2>3, OneJob
<1>4. ASSUME NEW w \in Worker, ReadTip(w) PROVE Goal
  <2> DEFINE body == [type |-> "tip", height |-> job[w].height - 1,
                      block |-> blocks[Len(blocks)]]
             j == [at |-> "sent", body |-> body]
  <2>1. phase = "up" /\ UNCHANGED <<phase, blocks>> /\ job' = [job EXCEPT ![w] = j]
        /\ job[w].at = "tip"
    BY <1>4 DEF ReadTip, Reply, Unlocked, vars, mem
  <2>2. job[w].height \in Nat /\ job[w].height <= Len(blocks)
    BY <2>1 DEF Jobs, JobOK
  <2>3. Len(blocks) \in 1..Len(blocks) /\ Len(blocks[Len(blocks)].prev_hash) = Len(blocks) - 1
    BY <2>1, BlocksHeights
  <2>4. /\ j.at = "sent" /\ j.body.type = "tip"
        /\ j.body.height <= Len(j.body.block.prev_hash)
    BY <2>2, <2>3
  <2> HIDE DEF j
  <2>5. JobOK(j, Len(blocks'))
    BY <2>4 DEF JobOK
  <2> QED BY <1>0, <2>1, <2>5, OneJob
<1>5. ASSUME NEW w \in Worker, ReadStatus(w) PROVE Goal
  <2> DEFINE body == [type |-> "status", blockHeight |-> job[w].height, tipHash |-> TipHash]
             j == [at |-> "sent", body |-> body]
  <2>1. phase = "up" /\ UNCHANGED <<phase, blocks>> /\ job' = [job EXCEPT ![w] = j]
        /\ job[w].at = "status"
    BY <1>5 DEF ReadStatus, Reply, Unlocked, vars, mem
  <2>2. job[w].height \in Nat /\ job[w].height <= Len(blocks)
    BY <2>1 DEF Jobs, JobOK
  <2>3. /\ Len(blocks) \in Nat /\ Len(blocks) \in 1..Len(blocks)
        /\ Len(blocks[Len(blocks)].prev_hash) = Len(blocks) - 1
        /\ blocks[Len(blocks)] \in Block
    BY <2>1, BlocksHeights
  <2>4. Len(TipHash) = Len(blocks[Len(blocks)].prev_hash) + 1
    BY <2>3, HashOfBlock DEF TipHash
  <2>5. Len(TipHash) = Len(blocks)
    BY <2>3, <2>4
  <2>6. /\ j.at = "sent" /\ j.body.type = "status"
        /\ j.body.blockHeight <= Len(j.body.tipHash)
    BY <2>2, <2>5
  <2> HIDE DEF j
  <2>7. JobOK(j, Len(blocks'))
    BY <2>6 DEF JobOK
  <2> QED BY <1>0, <2>1, <2>7, OneJob
<1>6. ASSUME NEW w \in Worker, ReadPage(w) PROVE Goal
  <2>1. PICK start \in 0..MaxBlocks, n \in 0..(MaxPage + 1) :
          job' = [job EXCEPT ![w] =
                    [at |-> "page", start |-> start,
                     page |-> SubSeq(blocks, start + 1, PageEnd(start, Min({n, MaxPage})))]]
    BY <1>6 DEF ReadPage
  <2>2. phase = "up" /\ UNCHANGED <<phase, blocks>>
    BY <1>6 DEF ReadPage, Unlocked, vars, mem
  <2>3. start \in Nat /\ n \in Nat /\ Min({n, MaxPage}) \in Nat
    BY ChainBounds, WebAssumption, MinOfTwo
  <2> DEFINE page == SubSeq(blocks, start + 1, PageEnd(start, Min({n, MaxPage})))
             j == [at |-> "page", start |-> start, page |-> page]
  <2>4. Len(page) \in Nat /\ Labelled(start, page, Len(blocks))
    BY <2>2, <2>3, PageLabelled
  <2> HIDE DEF page
  <2>5. j.at = "page" /\ j.start = start /\ j.page = page
    OBVIOUS
  <2>6. job' = [job EXCEPT ![w] = j]
    BY <2>1 DEF page
  <2> HIDE DEF j
  <2>7. JobOK(j, Len(blocks'))
    BY <2>2, <2>3, <2>4, <2>5 DEF JobOK
  <2> QED BY <1>0, <2>2, <2>6, <2>7, OneJob
<1>7. ASSUME NEW w \in Worker, ReadTotal(w) PROVE Goal
  <2> DEFINE body == [type |-> "blocks", start |-> job[w].start,
                      page |-> job[w].page, total |-> height]
             j == [at |-> "sent", body |-> body]
  <2>1. phase = "up" /\ UNCHANGED <<phase, blocks>> /\ job' = [job EXCEPT ![w] = j]
        /\ job[w].at = "page"
    BY <1>7 DEF ReadTotal, Reply, Unlocked, vars, mem
  <2>2. Labelled(job[w].start, job[w].page, height)
    BY <2>1, BlocksHeights DEF Jobs, JobOK
  <2>3. /\ j.at = "sent" /\ j.body.type = "blocks"
        /\ Labelled(j.body.start, j.body.page, j.body.total)
    BY <2>2
  <2> HIDE DEF j
  <2>4. JobOK(j, Len(blocks'))
    BY <2>3 DEF JobOK
  <2> QED BY <1>0, <2>1, <2>4, OneJob
<1>8. ASSUME UNCHANGED job, phase = "up" => phase' = "up" PROVE Goal
  <2>1. CASE phase = "up"
    BY <1>0, <1>8, <2>1, ChainGrows, JobGrows DEF WTypeOK, Jobs
  <2>2. CASE phase # "up"
    <3>1. \A w \in Worker : JobOK(NoJob, Len(blocks'))
      BY DEF JobOK, NoJob
    <3> QED BY <1>8, <2>2, <3>1 DEF WTypeOK, Jobs, Quiet
  <2> QED BY <2>1, <2>2
<1>9. CASE Tcp
  <2>1. UNCHANGED <<job, phase>>
    BY <1>9 DEF Tcp, TcpTx, TcpBlock, TcpApply, TcpStored, TcpBroadcast, add_tx, reject_tx,
                BeginBlock, LockForBlock, ApplyMined, StoreBlock, web, vars
  <2> QED BY <1>8, <2>1
<1>10. CASE \E x \in Conn : onopen(x) \/ greet(x) \/ onclose(x)
  <2>1. UNCHANGED <<job, phase>>
    BY <1>10 DEF onopen, greet, onclose, vars
  <2> QED BY <1>8, <2>1
<1>11. CASE (LoadStep \/ Start) /\ UNCHANGED web
  <2>1. phase # "up"
    BY <1>11 DEF LoadStep, LoadBlock, ApplyLoaded, PushLoaded, load_pool, create_genesis, Start
  <2> QED BY <1>8, <1>11, <2>1 DEF web
<1>12. CASE StopWeb \/ CrashWeb
  <2>1. job' = [w \in Worker |-> NoJob]
    BY <1>12 DEF StopWeb, CrashWeb, Disconnect
  <2> QED BY <2>1 DEF Jobs, JobOK, NoJob
<1>13. CASE UNCHANGED wvars
  BY <1>8, <1>13 DEF wvars, web, vars
<1> HIDE DEF Goal
<1> QED
  BY <1>1, <1>2, <1>3, <1>4, <1>5, <1>6, <1>7, <1>9, <1>10, <1>11, <1>12, <1>13
     DEF NextW, Http

-----------------------------------------------------------------------------
(* WebSocket streams *)

\* What the threads broadcast are events.
LEMMA EventTypes ==
  /\ \A t \in Tx : new_tx(t) \in Event /\ ~IsBlock(new_tx(t)) /\ new_tx(t) # Free
  /\ \A b \in Block : new_block(b) \in Event /\ new_block(b) # Free
  /\ \A b \in Block : IsBlock(new_block(b)) /\ new_block(b).hash = BlockHash(b)
  /\ Event \subseteq Message /\ [type |-> "connected"] \in Message
  /\ ~IsBlock([type |-> "connected"])
<1>1. \A b \in Block : BlockHash(b) \in Hash
  BY HashOfBlock
<1>2. \A t \in Tx : new_tx(t) \in Event
  BY DEF new_tx, Event
<1>3. \A b \in Block : new_block(b) \in Event
  BY <1>1 DEF new_block, Event
<1> QED BY <1>2, <1>3, WebAssumption DEF new_tx, new_block, IsBlock, Message

\* broadcast_text extends the streams of the registered connections alone.
LEMMA BroadcastType ==
  ASSUME WTypeOK, NEW e \in Event, broadcast_text(e)
  PROVE  /\ stream' \in [Conn -> Seq(Message)] /\ log' \in Seq(Event)
         /\ \A x \in Conn : stream'[x] = IF x \in ws_connections THEN Append(stream[x], e)
                                                                ELSE stream[x]
         /\ Len(log) \in Nat /\ Len(log') = Len(log) + 1 /\ log'[Len(log) + 1] = e
         /\ \A i \in 1..Len(log) : log'[i] = log[i]
<1>1. /\ stream \in [Conn -> Seq(Message)] /\ log \in Seq(Event) /\ e \in Message
      /\ log' = Append(log, e)
      /\ stream' = [x \in Conn |-> IF x \in ws_connections THEN Append(stream[x], e)
                                                           ELSE stream[x]]
  BY EventTypes DEF WTypeOK, broadcast_text
<1>2. \A x \in Conn : stream[x] \in Seq(Message) /\ Append(stream[x], e) \in Seq(Message)
  BY <1>1, AppendProperties
<1>3. stream' \in [Conn -> Seq(Message)]
  BY <1>1, <1>2
<1>4. /\ log' \in Seq(Event) /\ Len(log) \in Nat /\ Len(log') = Len(log) + 1
      /\ log'[Len(log) + 1] = e /\ \A i \in 1..Len(log) : log'[i] = log[i]
  BY <1>1, AppendProperties
<1> QED BY <1>1, <1>3, <1>4

\* What the broadcasts change.
socket == <<tcp, conn, stream, log, via_tcp>>

\* The web part of WTypeOK, apart from the jobs.
LEMMA WTypeStep ==
  ASSUME IInv, WTypeOK, Jobs, [NextW]_wvars, job' = [w \in Worker |-> job'[w]]
  PROVE  WTypeOK'
<1>0. /\ tcp \in Event \cup {Free} /\ log \in Seq(Event) /\ via_tcp \subseteq Tx
      /\ conn \in [Conn -> {"new", "opening", "open", "closed"}]
      /\ stream \in [Conn -> Seq(Message)]
  BY DEF WTypeOK
<1>1. CASE UNCHANGED socket
  BY <1>0, <1>1 DEF socket, WTypeOK
<1>2. ASSUME NEW w \in Worker, BroadcastTx(w) PROVE WTypeOK'
  <2>1. new_tx(job[w].tx) \in Event
    BY <1>2, EventTypes DEF BroadcastTx, Jobs, JobOK
  <2> QED BY <1>0, <1>2, <2>1, BroadcastType DEF BroadcastTx, WTypeOK
<1>3. ASSUME NEW st \in Submitted, TcpTx(st) PROVE WTypeOK'
  <2>1. st.tx \in Tx
    BY SubmittedAssumption DEF SignedTransaction
  <2> QED BY <1>0, <1>3, <2>1, EventTypes DEF TcpTx, WTypeOK
<1>4. CASE TcpStored
  <2>1. blk \in Block
    BY <1>4 DEF TcpStored, StoreBlock, IInv, TypeOK
  <2> QED BY <1>0, <1>4, <2>1, EventTypes DEF TcpStored, WTypeOK
<1>5. CASE TcpBroadcast
  BY <1>0, <1>5, BroadcastType DEF TcpBroadcast, WTypeOK
<1>6. ASSUME NEW x \in Conn, onopen(x) \/ greet(x) \/ onclose(x) PROVE WTypeOK'
  <2>1. stream[x] \in Seq(Message) /\ [type |-> "connected"] \in Message
    BY <1>0, EventTypes
  <2>2. Append(stream[x], [type |-> "connected"]) \in Seq(Message)
    BY <2>1, AppendProperties
  <2> QED BY <1>0, <1>6, <2>2 DEF onopen, greet, onclose, WTypeOK
<1>7. CASE StopWeb \/ CrashWeb
  <2>1. /\ tcp' = Free /\ log' = <<>> /\ via_tcp' = {} /\ stream' = stream
        /\ conn' = [x \in Conn |-> IF conn[x] = "new" THEN "new" ELSE "closed"]
    BY <1>7 DEF StopWeb, CrashWeb, Disconnect
  <2>2. log' \in Seq(Event)
    BY <2>1
  <2>3. conn' \in [Conn -> {"new", "opening", "open", "closed"}]
    BY <2>1
  <2> QED BY <1>0, <2>1, <2>2, <2>3 DEF WTypeOK
<1>8. ASSUME NEW w \in Worker,
             \/ \E st \in Submitted : PostTx(w, st)
             \/ ReadHeight(w, "tip") \/ ReadHeight(w, "status") \/ ReadTip(w)
             \/ ReadStatus(w) \/ ReadPage(w) \/ ReadTotal(w)
      PROVE  WTypeOK'
  BY <1>1, <1>8 DEF socket, PostTx, ReadHeight, ReadTip, ReadStatus, ReadPage, ReadTotal, Reply
<1>9. CASE TcpBlock \/ TcpApply \/ ((LoadStep \/ Start) /\ UNCHANGED web) \/ UNCHANGED wvars
  BY <1>1, <1>9 DEF socket, TcpBlock, TcpApply, web, wvars
<1> QED BY <1>2, <1>3, <1>4, <1>5, <1>6, <1>7, <1>8, <1>9 DEF NextW, Http, Tcp

\* The parts of WInv that are not about HTTP answers.
StreamInv == Quiet /\ Announcing /\ Streams /\ BlocksInOrder /\ Announced

\* Nobody is connected and nothing is to be announced.
LEMMA QuietStreams ==
  ASSUME tcp' = Free, ws_connections' = {}, via_tcp' = {}, stream' = stream, Quiet',
         BlocksInOrder, \A x \in Conn : conn'[x] = "new" => stream[x] = <<>>
  PROVE  StreamInv'
BY DEF StreamInv, Announcing, PendingBlock, Streams, BlocksInOrder, Announced

\* A step of the chain or of a handler that neither moves the tip nor announces.
LEMMA SilentStreams ==
  ASSUME StreamInv, UNCHANGED socket, phase' = "up", TipHash' = TipHash,
         blk' # NoBlock => tcp = Free
  PROVE  StreamInv'
<1>1. ws_connections' = ws_connections /\ PendingBlock' = PendingBlock /\ Told' = Told
  BY DEF socket, ws_connections, PendingBlock, Told
<1>2. Quiet' /\ Announcing'
  BY <1>1 DEF StreamInv, Quiet, Announcing, socket
<1>3. Streams' /\ BlocksInOrder' /\ Announced'
  BY <1>1 DEF StreamInv, Streams, BlocksInOrder, Announced, socket
<1> QED BY <1>2, <1>3 DEF StreamInv

\* A transaction is broadcast: by the thread that submitted it, or by the TCP
\* thread, which then has nothing more to announce.
LEMMA BroadcastTxStreams ==
  ASSUME WTypeOK, StreamInv, NEW t \in Tx, broadcast_text(new_tx(t)), phase = "up",
         UNCHANGED <<phase, blocks, blk, conn, via_tcp>>,
         tcp' = tcp \/ (tcp = new_tx(t) /\ tcp' = Free)
  PROVE  StreamInv'
<1> DEFINE e == new_tx(t)
<1>0. e \in Event /\ e \in Message /\ ~IsBlock(e) /\ e # Free
  BY EventTypes
<1>1. /\ \A x \in Conn : stream'[x] = IF x \in ws_connections THEN Append(stream[x], e)
                                                              ELSE stream[x]
      /\ Len(log) \in Nat /\ Len(log') = Len(log) + 1 /\ log'[Len(log) + 1] = e
      /\ \A i \in 1..Len(log) : log'[i] = log[i]
  BY <1>0, BroadcastType
<1> HIDE DEF e
<1>2. /\ ws_connections' = ws_connections /\ ws_connections \subseteq Conn
      /\ \A x \in Conn : stream[x] \in Seq(Message)
  BY DEF ws_connections, WTypeOK
<1>3. /\ PendingBlock' = PendingBlock /\ TipHash' = TipHash /\ Told' = Told
      /\ PendingBlock => tcp' = tcp
  <2>1. tcp' = tcp \/ (~PendingBlock /\ ~PendingBlock')
    BY <1>0 DEF PendingBlock, e
  <2> QED BY <2>1 DEF PendingBlock, TipHash, Told
<1>4. Quiet' /\ Announcing'
  BY <1>3 DEF StreamInv, Quiet, Announcing
<1>5. Streams'
  <2>1. \A x \in ws_connections : UpTo(stream'[x], Told')
    BY <1>0, <1>1, <1>2, <1>3, AppendOther DEF StreamInv, Streams
  <2>2. \A x \in Conn : conn'[x] = "new" => stream'[x] = <<>>
    BY <1>1 DEF StreamInv, Streams, ws_connections
  <2> QED BY <1>2, <2>1, <2>2 DEF Streams
<1>6. BlocksInOrder'
  BY <1>0, <1>1, <1>2, AppendOther DEF StreamInv, BlocksInOrder
<1>7. Announced'
  <2>1. \A i \in 1..Len(log) : i \in 1..Len(log') /\ log'[i] = log[i]
    BY <1>1
  <2>2. Len(log) + 1 \in 1..Len(log') /\ log'[Len(log) + 1] = new_tx(t)
    BY <1>1 DEF e
  <2>3. ASSUME NEW u \in via_tcp
        PROVE  tcp' = new_tx(u) \/ \E j \in 1..Len(log') : log'[j] = new_tx(u)
    BY <2>1, <2>2, <2>3 DEF StreamInv, Announced
  <2> QED BY <2>3 DEF Announced
<1> QED BY <1>4, <1>5, <1>6, <1>7 DEF StreamInv

\* A block is broadcast: it follows on the last one every connection was told of.
LEMMA BroadcastBlockStreams ==
  ASSUME WTypeOK, StreamInv, PendingBlock, broadcast_text(tcp), phase = "up",
         UNCHANGED <<phase, blocks, blk, conn, via_tcp>>, tcp' = Free
  PROVE  StreamInv'
<1> DEFINE e == tcp
<1>0. e \in Event /\ e \in Message /\ IsBlock(e) /\ e.hash = TipHash
  BY EventTypes DEF WTypeOK, PendingBlock, StreamInv, Announcing
<1>1. /\ \A x \in Conn : stream'[x] = IF x \in ws_connections THEN Append(stream[x], e)
                                                              ELSE stream[x]
      /\ Len(log) \in Nat /\ Len(log') = Len(log) + 1
      /\ \A i \in 1..Len(log) : log'[i] = log[i]
  BY <1>0, BroadcastType
<1>2. /\ ws_connections' = ws_connections /\ ws_connections \subseteq Conn
      /\ \A x \in Conn : stream[x] \in Seq(Message)
  BY DEF ws_connections, WTypeOK
<1>3. /\ ~PendingBlock' /\ TipHash' = TipHash /\ Told' = TipHash /\ Told = PrevOf(e.hash)
  BY DEF PendingBlock, TipHash, Told
<1>4. Quiet' /\ Announcing'
  BY <1>3 DEF Quiet, Announcing
<1>5. ASSUME NEW x \in ws_connections
      PROVE  InOrder(stream'[x]) /\ UpTo(stream'[x], TipHash)
  <2>1. InOrder(stream[x]) /\ UpTo(stream[x], PrevOf(e.hash)) /\ stream[x] \in Seq(Message)
    BY <1>2, <1>3, <1>5 DEF StreamInv, Streams, BlocksInOrder
  <2>2. stream'[x] = Append(stream[x], e)
    BY <1>1, <1>2, <1>5
  <2> QED BY <1>0, <2>1, <2>2, AppendBlock
<1>6. Streams'
  <2>1. \A x \in Conn : conn'[x] = "new" => stream'[x] = <<>>
    BY <1>1 DEF StreamInv, Streams, ws_connections
  <2> QED BY <1>2, <1>3, <1>5, <2>1 DEF Streams
<1>7. BlocksInOrder'
  BY <1>1, <1>5 DEF StreamInv, BlocksInOrder
<1>8. Announced'
  <2>1. \A i \in 1..Len(log) : i \in 1..Len(log') /\ log'[i] = log[i]
    BY <1>1
  <2>2. ASSUME NEW u \in via_tcp PROVE tcp # new_tx(u)
    BY <1>0, <2>2, EventTypes DEF WTypeOK
  <2> QED BY <2>1, <2>2 DEF StreamInv, Announced
<1> QED BY <1>4, <1>6, <1>7, <1>8 DEF StreamInv

\* The TCP thread accepts a transaction: it is the next thing it announces.
LEMMA TcpTxStreams ==
  ASSUME WTypeOK, StreamInv, NEW st \in Submitted, TcpTx(st) PROVE StreamInv'
<1>0. /\ tcp = Free /\ UNCHANGED <<conn, stream, log, phase, blocks, blk>>
      /\ phase = "up" /\ blk = NoBlock
      /\ \/ tcp' = new_tx(st.tx) /\ via_tcp' = via_tcp \cup {st.tx}
         \/ tcp' = tcp /\ via_tcp' = via_tcp
  BY DEF TcpTx, add_tx, reject_tx, Unlocked, vars, mem
<1>1. st.tx \in Tx
  BY SubmittedAssumption DEF SignedTransaction
<1>2. ~PendingBlock /\ ~PendingBlock' /\ TipHash' = TipHash
  BY <1>0, <1>1, EventTypes DEF PendingBlock, TipHash
<1>3. Quiet' /\ Announcing'
  BY <1>0, <1>2 DEF Quiet, Announcing
<1>4. Streams' /\ BlocksInOrder'
  BY <1>0, <1>2 DEF StreamInv, Streams, BlocksInOrder, ws_connections, Told
<1>5. Announced'
  <2>1. \A t \in via_tcp : tcp # new_tx(t)
    BY <1>0, EventTypes DEF WTypeOK
  <2> QED BY <1>0, <2>1 DEF StreamInv, Announced
<1> QED BY <1>3, <1>4, <1>5 DEF StreamInv

\* add_block returns to the TCP thread: the tip moves and is to be announced.
LEMMA TcpStoredStreams ==
  ASSUME IInv, WTypeOK, StreamInv, TcpStored PROVE StreamInv'
<1>0. /\ phase = "up" /\ phase' = "up" /\ blk # NoBlock /\ blk' = NoBlock
      /\ blocks' = Append(blocks, blk) /\ tcp' = new_block(blk)
      /\ UNCHANGED <<conn, stream, log, via_tcp>>
  BY DEF TcpStored, StoreBlock
<1>1. /\ blocks \in Seq(Block) /\ blk \in Block /\ blk.prev_hash = TipHash
      /\ tcp = Free
  BY <1>0 DEF IInv, TypeOK, BlockFits, StreamInv, Announcing
<1>2. TipHash' = BlockHash(blk)
  <2>1. Len(blocks') = Len(blocks) + 1 /\ blocks'[Len(blocks) + 1] = blk
    BY <1>0, <1>1, AppendProperties
  <2> QED BY <2>1 DEF TipHash
<1>3. /\ tcp' # Free /\ IsBlock(tcp') /\ tcp'.hash = BlockHash(blk)
      /\ PrevOf(tcp'.hash) = TipHash
  BY <1>0, <1>1, EventTypes, HashOfBlock
<1>4. PendingBlock' /\ ~PendingBlock /\ Told' = Told
  BY <1>1, <1>3 DEF PendingBlock, Told
<1>5. Quiet' /\ Announcing'
  BY <1>0, <1>2, <1>3 DEF Quiet, Announcing
<1>6. Streams' /\ BlocksInOrder'
  BY <1>0, <1>4 DEF StreamInv, Streams, BlocksInOrder, ws_connections
<1>7. Announced'
  <2>1. \A t \in via_tcp : tcp # new_tx(t)
    BY <1>1, EventTypes DEF WTypeOK
  <2> QED BY <1>0, <2>1 DEF StreamInv, Announced
<1> QED BY <1>5, <1>6, <1>7 DEF StreamInv

\* Connections come with an empty stream and go without a change to it.
LEMMA ConnStreams ==
  ASSUME WTypeOK, StreamInv, NEW x \in Conn, onopen(x) \/ greet(x) \/ onclose(x)
  PROVE  StreamInv'
<1> DEFINE g == [type |-> "connected"]
<1>0. /\ UNCHANGED <<phase, blocks, blk, tcp, log, via_tcp>>
      /\ \A y \in Conn : y # x => conn'[y] = conn[y] /\ stream'[y] = stream[y]
      /\ \/ /\ phase = "up" /\ conn[x] = "new" /\ conn'[x] = "opening"
            /\ stream'[x] = stream[x]
         \/ conn[x] = "opening" /\ conn'[x] = "open" /\ stream'[x] = Append(stream[x], g)
         \/ conn[x] = "open" /\ conn'[x] = "closed" /\ stream'[x] = stream[x]
  BY DEF onopen, greet, onclose, vars, mem, WTypeOK
<1>1. /\ stream[x] \in Seq(Message) /\ g \in Message /\ ~IsBlock(g)
  BY EventTypes DEF WTypeOK
<1> HIDE DEF g
<1>2. phase = "up"
  BY <1>0 DEF StreamInv, Quiet, ws_connections
<1>3. PendingBlock' = PendingBlock /\ TipHash' = TipHash /\ Told' = Told
  BY <1>0 DEF PendingBlock, TipHash, Told
<1>4. Quiet' /\ Announcing'
  BY <1>0, <1>2, <1>3 DEF StreamInv, Quiet, Announcing
<1>5. Streams'
  <2>1. ASSUME NEW y \in Conn, conn'[y] \in {"opening", "open"}
        PROVE  UpTo(stream'[y], Told)
    <3>1. CASE y # x
      BY <1>0, <2>1, <3>1 DEF StreamInv, Streams, ws_connections
    <3>2. CASE y = x /\ conn[x] = "new"
      <4>1. stream'[x] = <<>>
        BY <1>0, <3>2 DEF StreamInv, Streams
      <4> QED BY <3>2, <4>1 DEF UpTo
    <3>3. CASE y = x /\ conn[x] # "new"
      <4>1. conn[x] = "opening" /\ stream'[x] = Append(stream[x], g)
        BY <1>0, <2>1, <3>3
      <4>2. UpTo(stream[x], Told)
        BY <4>1 DEF StreamInv, Streams, ws_connections
      <4> QED BY <1>1, <3>3, <4>1, <4>2, AppendOther
    <3> QED BY <3>1, <3>2, <3>3
  <2>2. \A y \in Conn : conn'[y] = "new" => stream'[y] = <<>>
    BY <1>0 DEF StreamInv, Streams
  <2> QED BY <1>3, <2>1, <2>2 DEF Streams, ws_connections
<1>6. BlocksInOrder'
  <2>1. \A y \in Conn : InOrder(stream[y])
    BY DEF StreamInv, BlocksInOrder
  <2>2. InOrder(stream'[x])
    BY <1>0, <1>1, <2>1, AppendOther
  <2> QED BY <1>0, <2>1, <2>2 DEF BlocksInOrder
<1>7. Announced'
  BY <1>0 DEF StreamInv, Announced
<1> QED BY <1>4, <1>5, <1>6, <1>7 DEF StreamInv

LEMMA StreamStep ==
  ASSUME IInv, WTypeOK, Jobs, StreamInv, [NextW]_wvars PROVE StreamInv'
<1>1. ASSUME UNCHANGED socket, phase = "up", phase' = "up", UNCHANGED <<blocks, blk>>
      PROVE  StreamInv'
  BY <1>1, SilentStreams DEF TipHash, StreamInv, Announcing
<1>2. ASSUME NEW w \in Worker,
             \/ \E st \in Submitted : PostTx(w, st)
             \/ ReadHeight(w, "tip") \/ ReadHeight(w, "status") \/ ReadTip(w)
             \/ ReadStatus(w) \/ ReadPage(w) \/ ReadTotal(w)
      PROVE  StreamInv'
  <2>1. UNCHANGED socket /\ phase = "up" /\ UNCHANGED <<phase, blocks, blk>>
    BY <1>2 DEF socket, PostTx, add_tx, reject_tx, ReadHeight, ReadTip, ReadStatus, ReadPage,
                ReadTotal, Reply, Unlocked, vars, mem
  <2> QED BY <1>1, <2>1
<1>3. ASSUME NEW w \in Worker, BroadcastTx(w) PROVE StreamInv'
  <2>1. job[w].tx \in Tx /\ phase = "up"
    BY <1>3 DEF BroadcastTx, Jobs, JobOK, StreamInv, Quiet, NoJob
  <2>2. /\ broadcast_text(new_tx(job[w].tx)) /\ tcp' = tcp
        /\ UNCHANGED <<phase, blocks, blk, conn, via_tcp>>
    BY <1>3 DEF BroadcastTx, vars, mem
  <2> QED BY <2>1, <2>2, BroadcastTxStreams
<1>4. ASSUME NEW st \in Submitted, TcpTx(st) PROVE StreamInv'
  BY <1>4, TcpTxStreams
<1>5. CASE TcpBlock
  <2>1. UNCHANGED socket /\ phase' = "up" /\ UNCHANGED blocks /\ tcp = Free
    BY <1>5 DEF TcpBlock, BeginBlock, LockForBlock, Unlocked, socket, web
  <2> QED BY <2>1, SilentStreams DEF TipHash
<1>6. CASE TcpApply
  <2>1. UNCHANGED socket /\ phase = "up" /\ UNCHANGED <<phase, blocks, blk>>
    BY <1>6 DEF TcpApply, ApplyMined, socket, web
  <2> QED BY <1>1, <2>1
<1>7. CASE TcpStored
  BY <1>7, TcpStoredStreams
<1>8. CASE TcpBroadcast
  <2>1. /\ tcp # Free /\ broadcast_text(tcp) /\ tcp' = Free /\ phase = "up"
        /\ UNCHANGED <<phase, blocks, blk, conn, via_tcp>>
    BY <1>8 DEF TcpBroadcast, vars, mem, StreamInv, Quiet
  <2>2. CASE IsBlock(tcp)
    BY <2>1, <2>2, BroadcastBlockStreams DEF PendingBlock
  <2>3. CASE ~IsBlock(tcp)
    <3>1. tcp.tx \in Tx /\ tcp = new_tx(tcp.tx)
      BY <2>1, <2>3 DEF WTypeOK, Event, IsBlock, new_tx
    <3> QED BY <2>1, <3>1, BroadcastTxStreams
  <2> QED BY <2>2, <2>3
<1>9. ASSUME NEW x \in Conn, onopen(x) \/ greet(x) \/ onclose(x) PROVE StreamInv'
  BY <1>9, ConnStreams
<1>10. CASE (LoadStep \/ Start) /\ UNCHANGED web
  <2>1. phase # "up"
    BY <1>10 DEF LoadStep, LoadBlock, ApplyLoaded, PushLoaded, load_pool, create_genesis, Start
  <2>2. UNCHANGED <<job, tcp, conn, stream, via_tcp>>
    BY <1>10 DEF web
  <2>3. /\ tcp = Free /\ ws_connections = {} /\ via_tcp = {}
        /\ \A w \in Worker : job[w] = NoJob
    BY <2>1 DEF StreamInv, Quiet
  <2>4. ws_connections' = {} /\ Quiet'
    BY <2>2, <2>3 DEF ws_connections, Quiet
  <2> QED BY <2>2, <2>3, <2>4, QuietStreams DEF StreamInv, Streams
<1>11. CASE StopWeb \/ CrashWeb
  <2>1. Disconnect
    BY <1>11 DEF StopWeb, CrashWeb
  <2>2. ws_connections' = {} /\ Quiet'
    BY <2>1 DEF Disconnect, ws_connections, Quiet
  <2>3. \A x \in Conn : conn'[x] = "new" => stream[x] = <<>>
    BY <2>1 DEF Disconnect, StreamInv, Streams
  <2> QED BY <2>1, <2>2, <2>3, QuietStreams DEF StreamInv, Disconnect
<1>12. CASE UNCHANGED wvars
  <2>1. CASE phase = "up"
    BY <1>1, <1>12, <2>1 DEF wvars, web, vars, mem, socket
  <2>2. CASE phase # "up"
    <3>1. UNCHANGED <<job, tcp, conn, stream, via_tcp>>
      BY <1>12 DEF wvars, web
    <3>2. /\ tcp = Free /\ ws_connections = {} /\ via_tcp = {}
          /\ \A w \in Worker : job[w] = NoJob
      BY <2>2 DEF StreamInv, Quiet
    <3>3. ws_connections' = {} /\ Quiet'
      BY <3>1, <3>2 DEF ws_connections, Quiet
    <3> QED BY <3>1, <3>2, <3>3, QuietStreams DEF StreamInv, Streams
  <2> QED BY <2>1, <2>2
<1> QED BY <1>2, <1>3, <1>4, <1>5, <1>6, <1>7, <1>8, <1>9, <1>10, <1>11, <1>12
        DEF NextW, Http, Tcp

-----------------------------------------------------------------------------
(* The theorems *)

\* The invariant of the HTTP and WebSocket server (web.cpp): with that of Chain
\* it is kept by every thread.
THEOREM WebInvariance == SpecW => []WInv
<1>1. InitW => WInv
  <2> SUFFICES ASSUME InitW PROVE WInv
    OBVIOUS
  <2>1. WTypeOK
    <3>1. <<>> \in Seq(Event) /\ <<>> \in Seq(Message)
      OBVIOUS
    <3> QED BY <3>1 DEF InitW, WTypeOK
  <2>2. Quiet /\ Jobs
    BY DEF InitW, Quiet, Jobs, JobOK, NoJob, ws_connections
  <2>3. Announcing /\ Announced
    BY DEF InitW, Announcing, Announced, PendingBlock, Init
  <2>4. Streams /\ BlocksInOrder
    BY DEF InitW, Streams, BlocksInOrder, InOrder, ws_connections
  <2> QED BY <2>1, <2>2, <2>3, <2>4 DEF WInv
<1>2. IInv /\ HashHeights /\ WInv /\ [NextW]_wvars => WInv'
  <2> SUFFICES ASSUME IInv, HashHeights, WInv, [NextW]_wvars PROVE WInv'
    OBVIOUS
  <2>1. IInv'
    BY WebStep, NextIInv
  <2>2. job' = [w \in Worker |-> job'[w]] /\ Jobs'
    BY <2>1, JobsStep DEF WInv
  <2>3. WTypeOK'
    BY <2>2, WTypeStep DEF WInv
  <2>4. StreamInv'
    BY StreamStep DEF WInv, StreamInv
  <2> QED BY <2>2, <2>3, <2>4 DEF WInv, StreamInv
<1> QED BY <1>1, <1>2, WebChain, Invariance, HashTellsHeight, PTL DEF SpecW

\* /api/tip never labels a block with too large a height, and /api/status never
\* counts more blocks than lead to its tipHash, although they read the height and
\* the tip under separate locks.
THEOREM TipLabelled == SpecW => []TipLabelNotAhead
<1>1. WInv => TipLabelNotAhead
  BY DEF WInv, Jobs, JobOK, TipLabelNotAhead, Answers, Sent
<1> QED BY <1>1, WebInvariance, PTL

\* /api/blocks labels each block with its own height and reports a total that
\* covers the page, although it reads page and total under separate locks.
THEOREM PagesLabelled == SpecW => []PageSound
<1>1. WInv => PageSound
  BY DEF WInv, Jobs, JobOK, PageSound, Answers, Sent
<1> QED BY <1>1, WebInvariance, PTL

\* A WebSocket client is told of the blocks without gap, repetition or exchange
\* from the first one it is told of, although it may connect between the return
\* of add_block and the broadcast.
THEOREM StreamsInOrder == SpecW => []BlocksInOrder
<1>1. WInv => BlocksInOrder
  BY DEF WInv
<1> QED BY <1>1, WebInvariance, PTL

\* The transactions accepted over TCP are announced before the block with them.
THEOREM TxAnnouncedFirst == SpecW => TcpTxBeforeBlock
<1> DEFINE First == Len(log') > Len(log) /\ IsBlock(log'[Len(log')]) =>
                      \A t \in TxidsOf(log'[Len(log')].hash) \cap via_tcp :
                        \E j \in 1..Len(log) : log[j] = new_tx(t)
<1>1. WInv /\ [NextW]_wvars => [First]_wvars
  <2> SUFFICES ASSUME WInv, NextW, Len(log') > Len(log), IsBlock(log'[Len(log')]),
                      NEW t \in via_tcp
               PROVE  \E j \in 1..Len(log) : log[j] = new_tx(t)
    OBVIOUS
  <2>0. WTypeOK /\ Jobs /\ Announced /\ Len(log) \in Nat /\ t \in Tx
    BY DEF WInv, WTypeOK
  <2>1. ASSUME NEW w \in Worker, BroadcastTx(w) PROVE FALSE
    <3>1. job[w].tx \in Tx /\ broadcast_text(new_tx(job[w].tx))
      BY <2>0, <2>1 DEF BroadcastTx, Jobs, JobOK
    <3> QED BY <2>0, <3>1, EventTypes, BroadcastType
  <2>2. CASE TcpBroadcast
    <3>1. tcp \in Event /\ broadcast_text(tcp)
      BY <2>0, <2>2 DEF TcpBroadcast, WTypeOK
    <3>2. IsBlock(tcp)
      BY <2>0, <3>1, BroadcastType
    <3>3. tcp # new_tx(t)
      BY <2>0, <3>2, EventTypes
    <3> QED BY <2>0, <3>3 DEF Announced
  <2>3. CASE ~TcpBroadcast /\ \A w \in Worker : ~BroadcastTx(w)
    <3>1. log' = log \/ log' = <<>>
      BY <2>3 DEF NextW, Http, Tcp, PostTx, ReadHeight, ReadTip, ReadStatus, ReadPage,
                  ReadTotal, Reply, TcpTx, TcpBlock, TcpApply, TcpStored, onopen,
                  greet, onclose, StopWeb, CrashWeb, Disconnect, web
    <3> QED BY <2>0, <3>1
  <2> QED BY <2>1, <2>2, <2>3
<1> QED BY <1>1, WebInvariance, PTL DEF SpecW, TcpTxBeforeBlock
=============================================================================

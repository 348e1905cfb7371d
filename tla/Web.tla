-------------------------------- MODULE Web --------------------------------
(***************************************************************************)
(* class WebServer around a Chain: the HTTP handlers, run by several Crow  *)
(* threads, and the WebSocket broadcast.                                   *)
(*                                                                         *)
(* Each Chain method takes mutex_ for itself, so a handler that calls two  *)
(* of them sees two states of the chain.  A transaction is announced after *)
(* add_tx has released mutex_, by the thread that submitted it; a block is *)
(* announced by the TCP thread, in ServerEvents::on_block_accepted, before *)
(* it turns to the next message.                                           *)
(***************************************************************************)
EXTENDS Chain

CONSTANTS
  Worker,   \* Crow threads
  Conn,     \* WebSocket connections; each opens and closes at most once
  Free,     \* the TCP thread has nothing to announce
  MaxPage,  \* kMaxBlockCount, scaled down
  Queries   \* the HTTP queries that are asked: "tip", "status", "blocks"

\* What is broadcast, and what a connection may be sent.
Event == [type : {"new_tx"}, tx : Tx] \cup [type : {"new_block"}, hash : Hash]
Message == Event \cup [type : {"connected"}]

ASSUME WebAssumption ==
  MaxPage \in Nat /\ Queries \subseteq {"tip", "status", "blocks"} /\ Free \notin Event

VARIABLES
  job,      \* job[w]: what thread w of the HTTP server is in the middle of, or
            \* at "sent", the JSON body it has sent last
  tcp,      \* the event the TCP thread is about to broadcast, or Free
  conn,     \* conn[x]: "new", "opening", "open" or "closed"
  stream,   \* stream[x]: the messages sent to connection x
  log,      \* the events broadcast since the process started (history)
  via_tcp   \* the txids accepted over TCP since then (history)

web   == <<job, tcp, conn, stream, log, via_tcp>>
wvars == <<vars, web>>

NoJob == [at |-> "idle"]

ws_connections == {x \in Conn : conn[x] \in {"opening", "open"}}

InitW ==
  /\ Init
  /\ job = [w \in Worker |-> NoJob]
  /\ tcp = Free
  /\ conn = [x \in Conn |-> "new"] /\ stream = [x \in Conn |-> <<>>]
  /\ log = <<>> /\ via_tcp = {}

-----------------------------------------------------------------------------
(* WebSocket *)

\* broadcast_text: under ws_mutex_, to every registered connection.
broadcast_text(e) ==
  /\ stream' = [x \in Conn |-> IF x \in ws_connections THEN Append(stream[x], e)
                                                       ELSE stream[x]]
  /\ log' = Append(log, e)

new_tx(t) == [type |-> "new_tx", tx |-> t]
new_block(b) == [type |-> "new_block", hash |-> BlockHash(b)]

\* onopen registers the connection under ws_mutex_ and greets it afterwards.
onopen(x) ==
  /\ phase = "up" /\ conn[x] = "new"
  /\ conn' = [conn EXCEPT ![x] = "opening"]
  /\ UNCHANGED <<vars, job, tcp, stream, log, via_tcp>>

greet(x) ==
  /\ conn[x] = "opening"
  /\ conn' = [conn EXCEPT ![x] = "open"]
  /\ stream' = [stream EXCEPT ![x] = Append(@, [type |-> "connected"])]
  /\ UNCHANGED <<vars, job, tcp, log, via_tcp>>

onclose(x) ==
  /\ conn[x] = "open"
  /\ conn' = [conn EXCEPT ![x] = "closed"]
  /\ UNCHANGED <<vars, job, tcp, stream, log, via_tcp>>

-----------------------------------------------------------------------------
(* HTTP *)

Idle(w) == job[w].at \in {"idle", "sent"}

\* POST /api/transaction: add_tx, and on success a broadcast later.
PostTx(w, st) ==
  /\ Idle(w)
  /\ \/ add_tx(st) /\ job' = [job EXCEPT ![w] = [at |-> "broadcast", tx |-> st.tx]]
     \/ reject_tx(st) /\ job' = [job EXCEPT ![w] = NoJob]
  /\ UNCHANGED <<tcp, conn, stream, log, via_tcp>>

BroadcastTx(w) ==
  /\ job[w].at = "broadcast"
  /\ broadcast_text(new_tx(job[w].tx))
  /\ job' = [job EXCEPT ![w] = NoJob]
  /\ UNCHANGED <<vars, tcp, conn, via_tcp>>

\* A handler ends with an answer; the thread may take the next request.
Reply(w, a) ==
  /\ job' = [job EXCEPT ![w] = [at |-> "sent", body |-> a]]
  /\ UNCHANGED <<vars, tcp, conn, stream, log, via_tcp>>

\* /api/tip and /api/status read height() first (the chain has its genesis block,
\* so the answer to an empty one is never given) ...
ReadHeight(w, q) ==
  /\ q \in Queries /\ Idle(w) /\ Unlocked
  /\ job' = [job EXCEPT ![w] = [at |-> q, height |-> height]]
  /\ UNCHANGED <<vars, tcp, conn, stream, log, via_tcp>>

\* Mutant: the label is height(), not height() - 1.
ReadTipCountAsLabel(w) ==
  /\ job[w].at = "tip" /\ Unlocked
  /\ Reply(w, [type |-> "tip", height |-> job[w].height,
               block |-> blocks[Len(blocks)]])
\* ... and then, under another lock, /api/tip reads tip() and labels it with the
\* index of the last block of that height ...
ReadTip(w) ==
  /\ job[w].at = "tip" /\ Unlocked
  /\ Reply(w, [type |-> "tip", height |-> job[w].height - 1,
               block |-> blocks[Len(blocks)]])

\* ... and /api/status reads tip_hash() and reports the height itself.
ReadStatus(w) ==
  /\ job[w].at = "status" /\ Unlocked
  /\ Reply(w, [type |-> "status", blockHeight |-> job[w].height, tipHash |-> TipHash])

\* Chain::get_blocks: the end of the page that starts at start (from 0).
PageEnd(start, n) ==
  IF start >= Len(blocks) \/ n = 0 THEN start
  ELSE start + Min({n, Len(blocks) - start})

\* /api/blocks: the page, of at most MaxPage blocks, then the total.
ReadPage(w) ==
  /\ "blocks" \in Queries /\ Idle(w) /\ Unlocked
  /\ \E start \in 0..MaxBlocks, n \in 0..(MaxPage + 1) :
       LET to == PageEnd(start, Min({n, MaxPage}))
       IN  job' = [job EXCEPT ![w] =
                     [at |-> "page", start |-> start,
                      page |-> SubSeq(blocks, start + 1, to)]]
  /\ UNCHANGED <<vars, tcp, conn, stream, log, via_tcp>>

\* Mutant: the total is the height of the tip.
ReadTotalTipIndex(w) ==
  /\ job[w].at = "page" /\ Unlocked
  /\ Reply(w, [type |-> "blocks", start |-> job[w].start,
               page |-> job[w].page, total |-> height - 1])
\* The total of the answer: height(), under another lock.
ReadTotal(w) ==
  /\ job[w].at = "page" /\ Unlocked
  /\ Reply(w, [type |-> "blocks", start |-> job[w].start,
               page |-> job[w].page, total |-> height])

Http == \E w \in Worker :
  \/ \E st \in Submitted : PostTx(w, st)
  \/ BroadcastTx(w)
  \/ ReadHeight(w, "tip") \/ ReadTip(w)
  \/ ReadHeight(w, "status") \/ ReadStatus(w)
  \/ ReadPage(w) \/ ReadTotal(w)

-----------------------------------------------------------------------------
(* The TCP thread, as far as the WebSocket sees it *)

\* on_create_tx: add_tx; the accepted transaction is announced next.
TcpTx(st) ==
  /\ tcp = Free
  /\ \/ /\ add_tx(st)
        /\ tcp' = new_tx(st.tx) /\ via_tcp' = via_tcp \cup {st.tx}
     \/ reject_tx(st) /\ UNCHANGED <<tcp, via_tcp>>
  /\ UNCHANGED <<job, conn, stream, log>>

\* Mutant: the next message is handled before the event is out.
TcpBlockAnyTime == BeginBlock /\ UNCHANGED web
\* on_create_block: the checks and the call of add_block ...
TcpBlock == tcp = Free /\ BeginBlock /\ UNCHANGED web
TcpApply == ApplyMined /\ UNCHANGED web

\* ... which returns with the block stored and still to be announced.
TcpStored ==
  /\ StoreBlock
  /\ tcp' = new_block(blk)
  /\ UNCHANGED <<job, conn, stream, log, via_tcp>>

TcpBroadcast ==
  /\ tcp # Free
  /\ broadcast_text(tcp) /\ tcp' = Free
  /\ UNCHANGED <<vars, job, conn, via_tcp>>

Tcp == (\E st \in Submitted : TcpTx(st))
       \/ TcpBlock \/ TcpApply \/ TcpStored \/ TcpBroadcast

-----------------------------------------------------------------------------
(* The process *)

Disconnect ==
  /\ job' = [w \in Worker |-> NoJob]
  /\ tcp' = Free
  /\ conn' = [x \in Conn |-> IF conn[x] = "new" THEN "new" ELSE "closed"]
  /\ log' = <<>> /\ via_tcp' = {}
  /\ UNCHANGED stream

\* The signal handler runs between two messages of the TCP thread.
StopWeb == tcp = Free /\ Stop /\ Disconnect
CrashWeb == Crash /\ Disconnect

NextW ==
  \/ Http \/ Tcp
  \/ \E x \in Conn : onopen(x) \/ greet(x) \/ onclose(x)
  \/ (LoadStep \/ Start) /\ UNCHANGED web
  \/ StopWeb \/ CrashWeb

SpecW == InitW /\ [][NextW]_wvars

-----------------------------------------------------------------------------
(* Properties *)

\* What a block hash commits to: the hash before it and the txids of the block.
PrevOf(hash) == SubSeq(hash, 1, Len(hash) - 1)
TxidsOf(hash) == {hash[Len(hash)].txs[i] : i \in 1..Len(hash[Len(hash)].txs)}

Sent(w, type) == job[w].at = "sent" /\ job[w].body.type = type
Answers(type) == {job[w].body : w \in {v \in Worker : Sent(v, type)}}

\* /api/tip may label a block with too small a height, never with too large a
\* one: height() is read before tip(), and blocks are only added.  For the same
\* reason /api/status, which reports a number of blocks and not an index, never
\* reports more of them than the chain up to tipHash has.
TipLabelNotAhead ==
  /\ \A a \in Answers("tip") : a.height <= Len(a.block.prev_hash)
  /\ \A a \in Answers("status") : a.blockHeight <= Len(a.tipHash)

\* The blocks of a page that starts at start (from 0) lie within the first n, and
\* each is where the page says it is.
Labelled(start, page, n) ==
  \A i \in 1..Len(page) : /\ Len(page[i].prev_hash) = start + i - 1
                          /\ start + i <= n

\* /api/blocks labels each block with its own height and reports a total that
\* covers them all, although the total is read after the page.
PageSound == \A a \in Answers("blocks") : Labelled(a.start, a.page, a.total)

IsBlock(e) == e.type = "new_block"
InOrder(s) ==
  \A i, j \in 1..Len(s) :
    /\ i < j /\ IsBlock(s[i]) /\ IsBlock(s[j])
    /\ \A m \in (i + 1)..(j - 1) : ~IsBlock(s[m])
    => PrevOf(s[j].hash) = s[i].hash

\* A connection that is told of two blocks is told of every block in between,
\* in the order of the chain, and of each one once.
BlocksInOrder == \A x \in Conn : InOrder(stream[x])

\* When a block is announced, every transaction of it that was accepted over TCP
\* has been announced before.
TcpTxBeforeBlock ==
  [][Len(log') > Len(log) /\ IsBlock(log'[Len(log')]) =>
       \A t \in TxidsOf(log'[Len(log')].hash) \cap via_tcp :
         \E j \in 1..Len(log) : log[j] = new_tx(t)]_wvars
=============================================================================

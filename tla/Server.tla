------------------------------- MODULE Server -------------------------------
(***************************************************************************)
(* class Server, the TCP protocol of wallets and miners, around a Chain.   *)
(*                                                                         *)
(* One thread runs the io_context.  A session is a coroutine that gives    *)
(* the thread up only where it waits for its socket, so the handler of one *)
(* message is never interrupted by another session; but it takes mutex_    *)
(* once per call of a Chain method, and the threads of the HTTP server     *)
(* submit transactions (the Submission action of Chain) between two calls. *)
(* The handlers therefore take one step per Chain call.                    *)
(***************************************************************************)
EXTENDS Queries

CONSTANTS
  Client,   \* TCP connections
  NoMsg,    \* no request outstanding, or no response received
  Requests, \* message types clients send, see Request
  Flaws     \* what may be wrong with a payload: members of Flaw

\* "short": Reader runs out of bytes.  "merkle": the merkle root on the wire
\* is not that of the transactions.  "work": the hash exceeds the target.
Flaw == {"none", "short", "merkle", "work"}

MsgType == {"GetUTXOs", "GetTip", "GetPool", "CreateTransaction",
            "GetDifficulty", "CreateBlock", "GetBlock"}

\* The frames of the protocol, as far as the handlers tell them apart.
Frame ==
  [type : {"CreateBlock"}, prev_hash : Hash, coinbase : Coinbase, refs : Seq(Tx),
   timestamp : Timestamp, flaw : Flaw]
    \cup [type : {"CreateTransaction"}, st : Submitted, flaw : {"none", "short"}]
    \cup [type : {"GetUTXOs"}, addr : Address]
    \cup [type : MsgType \ {"CreateBlock", "CreateTransaction", "GetUTXOs"}]

ASSUME ServerAssumption ==
  /\ Requests \subseteq MsgType /\ Flaws \subseteq Flaw
  /\ IsFiniteSet(Client) /\ NoMsg \notin Frame

VARIABLES
  inbox,   \* inbox[c]: the frame of client c that is not yet answered
  ready,   \* asio: sessions with a complete frame, in order of arrival
  pc,      \* where the TCP thread is
  client,  \* the session it serves
  k,       \* parse_create_block_payload: index of the next txid
  count,   \* on_get_pool: txCount
  reply    \* reply[c]: the last response sent to client c

net   == <<inbox, ready, pc, client, k, count, reply>>
svars == <<vars, net>>

msg == inbox[client]

\* The txids a miner may list: it learns them from GetPool or from its wallet.
Known == {st.tx : st \in Submitted}
KnownHashes == {BlockHash(blocks[h]) : h \in 1..Len(blocks)}

BlockRequest ==
  {[type |-> "CreateBlock", prev_hash |-> p, coinbase |-> cb, refs |-> rs,
    timestamp |-> ts, flaw |-> f] :
      p \in KnownHashes, cb \in Coinbase, ts \in Timestamp, f \in Flaws,
      rs \in UNION {[1..n -> Known] : n \in 0..MaxRefs}}
TxRequest ==
  {[type |-> "CreateTransaction", st |-> st, flaw |-> f] :
      st \in Submitted, f \in Flaws \cap {"none", "short"}}
Request ==
  {r \in BlockRequest \cup TxRequest : r.type \in Requests}
    \cup {[type |-> "GetUTXOs", addr |-> a] : a \in
            IF "GetUTXOs" \in Requests THEN Address ELSE {}}
    \cup {[type |-> q] : q \in Requests \ {"CreateBlock", "CreateTransaction",
                                           "GetUTXOs"}}

\* The bound, and the assumption on miners of Chain, when a block is sent.
Mining == {c \in Client : inbox[c] # NoMsg /\ inbox[c].type = "CreateBlock"}
MaySend(r) ==
  r.type = "CreateBlock" =>
    /\ Len(blocks) + Cardinality(Mining) < MaxBlocks
    /\ CarefulMiner =>
         /\ r.coinbase \notin TxsOf(blocks) \cup {inbox[c].coinbase : c \in Mining}
         /\ \A i, j \in DOMAIN r.refs : r.refs[i] = r.refs[j] => i = j

InitS ==
  /\ Init
  /\ inbox = [c \in Client |-> NoMsg] /\ reply = [c \in Client |-> NoMsg]
  /\ ready = <<>> /\ pc = "idle" /\ client \in Client
  /\ k = 1 /\ count = 0

-----------------------------------------------------------------------------
(* Sessions *)

\* A client sends a request and waits for the response.
Send(c, r) ==
  /\ phase = "up" /\ inbox[c] = NoMsg /\ MaySend(r)
  /\ inbox' = [inbox EXCEPT ![c] = r]
  /\ ready' = Append(ready, c)
  /\ reply' = [reply EXCEPT ![c] = NoMsg]
  /\ UNCHANGED <<vars, pc, client, k, count>>

\* Mutant: the last frame to arrive is served first.
handle_msg_Lifo ==
  /\ phase = "up" /\ pc = "idle" /\ ready # <<>>
  /\ client' = ready[Len(ready)] /\ ready' = SubSeq(ready, 1, Len(ready) - 1)
  /\ pc' = inbox[ready[Len(ready)]].type
  /\ k' = 1
  /\ UNCHANGED <<vars, inbox, count, reply>>
\* handle_client resumes with a frame, handle_msg picks the handler.
handle_msg ==
  /\ phase = "up" /\ pc = "idle" /\ ready # <<>>
  /\ client' = Head(ready) /\ ready' = Tail(ready)
  /\ pc' = inbox[Head(ready)].type
  /\ k' = 1
  /\ UNCHANGED <<vars, inbox, count, reply>>

\* send: the response leaves, the session waits for its next frame.
send(r) ==
  /\ reply' = [reply EXCEPT ![client] = r]
  /\ inbox' = [inbox EXCEPT ![client] = NoMsg]
  /\ pc' = "idle"
  /\ UNCHANGED <<ready, client, k, count>>

\* The default branch of handle_msg: a log line and no response.
on_unknown ==
  /\ pc = "GetBlock" /\ pc' = "idle"
  /\ UNCHANGED <<vars, inbox, ready, client, k, count, reply>>

-----------------------------------------------------------------------------
(* Queries *)

on_get_difficulty ==
  /\ pc = "GetDifficulty" /\ Unlocked
  /\ send([type |-> "DifficultyResponse"])
  /\ UNCHANGED vars

on_get_tip ==
  /\ pc = "GetTip" /\ Unlocked
  /\ send([type |-> "TipResponse", hash |-> TipHash])
  /\ UNCHANGED vars

on_get_utxos ==
  /\ pc = "GetUTXOs" /\ Unlocked
  /\ send([type |-> "UTXOsResponse", utxos |-> get_utxos(msg.addr)])
  /\ UNCHANGED vars

\* Mutant: the count is one too large.
CountPoolOneMore ==
  /\ pc = "GetPool" /\ Unlocked
  /\ count' = Cardinality(pool) + 1 /\ pc' = "ListPool"
  /\ UNCHANGED <<vars, inbox, ready, client, k, reply>>
\* on_get_pool calls get_pool_txs twice: for the count and for the txids.
CountPool ==
  /\ pc = "GetPool" /\ Unlocked
  /\ count' = Cardinality(pool) /\ pc' = "ListPool"
  /\ UNCHANGED <<vars, inbox, ready, client, k, reply>>

ListPool ==
  /\ pc = "ListPool" /\ Unlocked
  /\ send([type |-> "PoolResponse", count |-> count, txids |-> pool])
  /\ UNCHANGED vars

-----------------------------------------------------------------------------
(* on_create_tx *)

TxResponse(err) == [type |-> "TransactionResponse", err |-> err]

on_create_tx ==
  /\ pc = "CreateTransaction"
  /\ \/ /\ msg.flaw = "short"
        /\ send(TxResponse("InvalidPayload")) /\ UNCHANGED vars
     \/ /\ msg.flaw = "none"
        /\ add_tx(msg.st) \/ reject_tx(msg.st)
        /\ send(TxResponse(ValidateTx(msg.st, utxo, pool, pool_spent)))

-----------------------------------------------------------------------------
(* on_create_block *)

\* The block of a request, once every txid has been found in the pool.
BlockOf(r) == Assemble(r.prev_hash, r.coinbase, r.refs, r.timestamp)

\* The response; the block is kept with it for the properties.
BlockResponse(err) ==
  [type |-> "CreateBlockResponse", err |-> err, block |-> BlockOf(msg)]

\* Mutant: the pool is not asked.
pool_contains_Skipped ==
  /\ pc = "CreateBlock" /\ k <= Len(msg.refs) /\ Unlocked
  /\ pc' = "get_pool_tx"
  /\ UNCHANGED <<vars, inbox, ready, client, k, count, reply>>
\* parse_create_block_payload, pool_contains for the next txid.
pool_contains ==
  /\ pc = "CreateBlock" /\ k <= Len(msg.refs) /\ Unlocked
  /\ \/ /\ msg.refs[k] \in pool
        /\ pc' = "get_pool_tx"
        /\ UNCHANGED <<inbox, ready, client, k, count, reply>>
     \/ /\ msg.refs[k] \notin pool
        /\ send(BlockResponse("InvalidPayload"))
  /\ UNCHANGED vars

\* get_pool_tx for the same txid, under another lock: .at may throw.
get_pool_tx ==
  /\ pc = "get_pool_tx" /\ Unlocked
  /\ \/ /\ msg.refs[k] \in pool
        /\ pc' = "CreateBlock" /\ k' = k + 1
        /\ UNCHANGED <<inbox, ready, client, count, reply>>
     \/ /\ msg.refs[k] \notin pool
        /\ send(BlockResponse("InvalidPayload"))
  /\ UNCHANGED vars

\* Mutant: the tip is not compared.
BlockErrNoTip ==
  IF msg.flaw = "short" THEN "InvalidPayload"
  ELSE IF msg.flaw = "merkle" THEN "InvalidBlockHash"
  ELSE IF msg.flaw = "work" THEN "HighHash"
  ELSE "None"
\* The end of the payload, merkle root, target and tip, in this order.
BlockErr ==
  IF msg.flaw = "short" THEN "InvalidPayload"
  ELSE IF msg.flaw = "merkle" THEN "InvalidBlockHash"
  ELSE IF msg.flaw = "work" THEN "HighHash"
  ELSE IF msg.prev_hash # TipHash THEN "BadPreviousHash"
  ELSE "None"

CheckBlock ==
  /\ pc = "CreateBlock" /\ k > Len(msg.refs) /\ Unlocked
  /\ \/ /\ BlockErr # "None"
        /\ send(BlockResponse(BlockErr))
     \/ /\ BlockErr = "None" /\ pc' = "add_block"
        /\ UNCHANGED <<inbox, ready, client, k, count, reply>>
  /\ UNCHANGED vars

\* add_block takes the lock and trusts the checks made before.
EnterAddBlock ==
  /\ pc = "add_block" /\ LockForBlock(BlockOf(msg))
  /\ pc' = "adding"
  /\ UNCHANGED <<inbox, ready, client, k, count, reply>>

\* Mutant: the response does not wait for add_block.
BlockAcceptedEarly ==
  /\ pc = "adding"
  /\ send(BlockResponse("None"))
  /\ UNCHANGED vars
\* add_block has returned.  The event callback, which comes next, is taken not to
\* throw: it formats the block and hands it to the WebSocket connections.
BlockAccepted ==
  /\ pc = "adding" /\ Unlocked
  /\ send(BlockResponse("None"))
  /\ UNCHANGED vars

Handler ==
  \/ handle_msg \/ on_unknown
  \/ on_get_difficulty \/ on_get_tip \/ on_get_utxos \/ CountPool \/ ListPool
  \/ on_create_tx
  \/ pool_contains \/ get_pool_tx \/ CheckBlock \/ EnterAddBlock
  \/ BlockAccepted

-----------------------------------------------------------------------------
(* The process *)

\* The end of the process closes every connection.
CloseAll ==
  /\ inbox' = [c \in Client |-> NoMsg] /\ reply' = [c \in Client |-> NoMsg]
  /\ ready' = <<>> /\ pc' = "idle" /\ k' = 1 /\ count' = 0
  /\ UNCHANGED client

\* The signal handler runs on the executor of the server, between handlers.
StopServer == pc = "idle" /\ Stop /\ CloseAll
CrashServer == Crash /\ CloseAll

NextS ==
  \/ \E c \in Client : \E r \in Request : Send(c, r)
  \/ Handler
  \/ (LoadStep \/ BlockStep \/ Submission \/ Start) /\ UNCHANGED net
  \/ StopServer \/ CrashServer

SpecS == InitS /\ [][NextS]_svars

\* The TCP thread, once it runs, keeps running, in handlers and in add_block.
FairSpecS ==
  SpecS /\ WF_svars(Handler) /\ WF_svars(LoadStep /\ UNCHANGED net)
        /\ WF_svars(BlockStep /\ UNCHANGED net)

-----------------------------------------------------------------------------
(* Properties *)

\* The server drives the chain as Chain specifies: a block that enters
\* add_block still extends the tip and still consists of pool transactions,
\* although both were checked under locks released long before.
ChainSpec == Spec

\* pool_.at of get_pool_tx never throws: what pool_contains has seen is there.
GetPoolTxFinds == pc = "get_pool_tx" => msg.refs[k] \in pool

Accepted(c) ==
  reply[c] # NoMsg /\ reply[c].type = "CreateBlockResponse" /\ reply[c].err = "None"

\* A block that is answered with success is in the blocks database.
AcceptedIsStored ==
  \A c \in Client : Accepted(c) =>
    \E h \in 1..Len(blocks_db) : blocks_db[h] = reply[c].block

\* Of the miners that race for one tip at most one is told it has won.
OneWinnerPerTip ==
  \A c, d \in Client :
    Accepted(c) /\ Accepted(d) /\ c # d
      => reply[c].block.prev_hash # reply[d].block.prev_hash

\* The count of a PoolResponse never exceeds the txids that follow: only the
\* TCP thread itself takes transactions out of the pool.
PoolReplyNotShort ==
  \A c \in Client :
    reply[c] # NoMsg /\ reply[c].type = "PoolResponse"
      => reply[c].count <= Cardinality(reply[c].txids)

\* Every request of a handled type is answered, unless the process dies first.
Answered ==
  \A c \in Client :
    inbox[c] # NoMsg /\ inbox[c].type # "GetBlock" ~> inbox[c] = NoMsg
=============================================================================

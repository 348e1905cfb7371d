--------------------------- MODULE AbstractLedger ---------------------------
(***************************************************************************)
(* What the node promises its clients: a history of blocks that only       *)
(* grows, and a set of accepted transactions waiting to be mined.  There   *)
(* is no memory, no database, no lock and no half-added block here.        *)
(***************************************************************************)
EXTENDS Ledger

CONSTANT MaxRefs  \* bound: pending transactions a block lists

VARIABLES
  history,   \* the confirmed blocks, from genesis on
  pending,   \* the txids of accepted transactions not yet confirmed
  accepted,  \* the txids that were ever accepted
  deaths     \* how often the process has died

absvars == <<history, pending, accepted, deaths>>

Init == history = <<>> /\ pending = {} /\ accepted = {} /\ deaths = 0

Begin ==
  /\ history = <<>>
  /\ history' = <<GenesisBlock>>
  /\ UNCHANGED <<pending, accepted, deaths>>

\* All inputs of t belong to one key.
Owned(t) ==
  \E pk \in PublicKey : \A op \in SpentBy(t) :
    OutputAt(op).recipient = derive_address[pk]

\* Only a new transaction that spends what the history leaves unspent, from
\* one owner and in competition with nothing pending, becomes pending.
Accept(t) ==
  /\ t \notin pending
  /\ inputs[t] # <<>> /\ Owned(t)
  /\ SpentBy(t) \subseteq Unspent(history)
  /\ \A s \in pending : SpentBy(s) \cap SpentBy(t) = {}
  /\ pending' = pending \cup {t}
  /\ accepted' = accepted \cup {t}
  /\ UNCHANGED <<history, deaths>>

Lists == UNION {[1..n -> pending] : n \in 0..MaxRefs}
Listed(refs) == {refs[i] : i \in DOMAIN refs}

\* A block of a coinbase and pending transactions extends the history in one
\* step, and its transactions are no longer pending.
Confirm ==
  /\ history # <<>>
  /\ \E c \in Coinbase, refs \in Lists, ts \in Timestamp :
       /\ history' = Append(history,
                       Assemble(BlockHash(history[Len(history)]), c, refs, ts))
       /\ pending' = pending \ Listed(refs)
  /\ UNCHANGED <<accepted, deaths>>

\* A process that dies may lose the transactions of one block.
Lose ==
  /\ deaths' = deaths + 1
  /\ \E refs \in Lists : pending' = pending \ Listed(refs)
  /\ UNCHANGED <<history, accepted>>

Next == Begin \/ (\E t \in Tx : Accept(t)) \/ Confirm \/ Lose

Spec == Init /\ [][Next]_absvars
=============================================================================

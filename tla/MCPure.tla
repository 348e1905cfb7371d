------------------------------- MODULE MCPure -------------------------------
(***************************************************************************)
(* Small inputs for Pure.                                                  *)
(***************************************************************************)
EXTENDS Pure, TLC

CONSTANTS
  MaxLeaves,  \* bound: txids of a Merkle tree
  MaxChain    \* bound: blocks of a chart

\* Every sequence over S of length at most n.
SeqsUpTo(S, n) == UNION {[1..k -> S] : k \in 0..n}

MCTxids == {<<"a">>, <<"b">>, <<"c">>}
MCLeaves == SeqsUpTo(MCTxids, MaxLeaves)

\* A field filled with one word.
Fill(w, n) == [i \in 1..Field(n) |-> w]
In(w, i) == [txid |-> Fill(w, "hash"), index |-> i]
Out(w, v) == [recipient |-> Fill(w, "addr"), amount |-> <<v, 0>>]
MkTx(ins, outs, ts) ==
  [txid |-> Fill(9, "hash"), timestamp |-> <<ts, 0>>, inputs |-> ins, outputs |-> outs]

\* Transactions with a few inputs and outputs that differ ...
SmallTx == {MkTx(ins, outs, ts) :
              ins \in SeqsUpTo({In(1, 0), In(1, 1), In(2, 0)}, 2),
              outs \in SeqsUpTo({Out(1, 1), Out(2, 1)}, 2), ts \in {0, 1}}
\* ... and with many that are filled with one word, where inputs and outputs
\* can be taken for one another.
WideTx == {MkTx([i \in 1..n |-> In(1, 1)],
                [i \in 1..m |-> [recipient |-> Fill(1, "addr"), amount |-> <<1, 1>>]],
                1) : n \in 0..8, m \in 0..10}
MCTxs == SmallTx \cup WideTx
MCSigs == {Fill(8, "sig")}

Header == [prev_hash |-> Fill(3, "hash"), merkle_root |-> Fill(4, "hash"),
           timestamp |-> <<5, 0>>, nonce |-> <<6, 0>>]
BlockTx == {MkTx(<<>>, <<Out(1, 1)>>, 0), MkTx(<<In(1, 0)>>, <<Out(1, 1)>>, 1),
            MkTx(<<In(1, 0), In(2, 0)>>, <<Out(1, 1), Out(2, 1)>>, 1)}
MCBlocks == {[header |-> Header, transactions |-> s] : s \in SeqsUpTo(BlockTx, 3)}
MCMessages ==
  {[header |-> Header, address |-> Fill(7, "addr"), reward |-> <<8, 0>>,
    timestamp |-> <<1, 0>>, refs |-> s] :
      s \in SeqsUpTo({Fill(1, "hash"), Fill(2, "hash")}, 2)}

Latest == Slots * kHour + 1
MCChains ==
  SeqsUpTo({[timestamp |-> ts, txs |-> n, size |-> 2 * n + 1] :
              ts \in 0..(Latest + kHour), n \in 1..2}, MaxChain) \ {<<>>}
\* Chains as long as the bound allows, all of whose blocks lie in the slots.
MCFullChains ==
  [1..MaxChain -> {[timestamp |-> ts, txs |-> 1, size |-> 1] :
                     ts \in kHour..(Latest - 1)}]
MCClock == (Latest - 1)..(Latest + 1)
MCWindows == {0, 1, kHour}
MCDay == {Slots * kHour}
=============================================================================

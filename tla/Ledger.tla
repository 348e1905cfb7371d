------------------------------- MODULE Ledger -------------------------------
(***************************************************************************)
(* The data of the node: transactions, outpoints, outputs and blocks, the  *)
(* effect of one transaction on the UTXO set and on the address index, and *)
(* the validation pipeline of Chain::add_tx.                               *)
(*                                                                         *)
(* Hashes are ideal.  A txid is the BLAKE2b hash of the contents of a      *)
(* transaction, so the contents are a constant function of the txid; a     *)
(* member of Tx is a txid.  A block hash commits to the header and through *)
(* prev_hash to every earlier header, so it is the path of block bodies    *)
(* from the genesis block to the block.                                    *)
(***************************************************************************)
EXTENDS Sums

CONSTANTS
  Tx,             \* txids of the transactions clients and miners can build
  Address,        \* 20-byte addresses
  PublicKey,      \* Ed25519 public keys
  Timestamp,      \* block timestamps
  MaxIndex,       \* largest output index of an outpoint
  MaxAmount,      \* std::numeric_limits<uint64_t>::max(), scaled down
  inputs,         \* inputs[t]: the outpoints transaction t spends, in order
  outputs,        \* outputs[t]: the outputs transaction t creates, in order
  derive_address, \* derive_address[pk]: the address of a public key
  Coinbase,       \* the coinbase transactions miners put in their blocks
  Genesis,        \* the coinbase of the hard-coded genesis block
  GenesisTime     \* its timestamp

OutPoint == [txid : Tx, index : 0..MaxIndex]
TxOutput == [recipient : Address, amount : 0..MaxAmount]

\* A signature is valid for the key that made it and the txid it was made over.
Signature == [signer : PublicKey, msg : Tx]
SignedTransaction == [tx : Tx, pubkey : PublicKey, sig : Signature]

TxError == {"None", "InvalidPayload", "ZeroAmount", "BadOwnership",
            "BadSignature", "Duplicate", "InputSpent"}

ASSUME BoundsAssumption == MaxIndex \in Nat /\ MaxAmount \in Nat
ASSUME TxAssumption ==
  /\ inputs \in [Tx -> Seq(OutPoint)]
  /\ outputs \in [Tx -> Seq(TxOutput)]
  /\ \A t \in Tx : Len(outputs[t]) <= MaxIndex + 1
  /\ derive_address \in [PublicKey -> Address]
\* A coinbase built by parse_create_block_payload or create_genesis has no
\* input and exactly one output.
ASSUME CoinbaseAssumption ==
  /\ Coinbase \subseteq Tx /\ Genesis \in Tx
  /\ \A t \in Coinbase \cup {Genesis} : inputs[t] = <<>> /\ Len(outputs[t]) = 1
ASSUME TimeAssumption == Timestamp \subseteq Nat /\ GenesisTime \in Timestamp

-----------------------------------------------------------------------------
(* Transactions *)

is_coinbase(t) == inputs[t] = <<>>

SpentBy(t) == {inputs[t][i] : i \in 1..Len(inputs[t])}
CreatedBy(t) == {[txid |-> t, index |-> i - 1] : i \in 1..Len(outputs[t])}

\* The output an existing outpoint names.  utxo_ maps an outpoint to exactly
\* this value, so the model keeps only the set of outpoints in utxo_.
OutputAt(op) == outputs[op.txid][op.index + 1]

\* Mutant: the inputs are not erased.
ApplyToUtxoKeepsInputs(u, t) == u \cup CreatedBy(t)

\* Chain::apply_tx on utxo_: erase every input that is present, then insert
\* (or overwrite) every output.
ApplyToUtxo(u, t) == (u \ SpentBy(t)) \cup CreatedBy(t)

\* Mutant: spent outputs stay in the vectors.
ApplyToIndexKeepsInputs(ix, u, t) ==
  [a \in Address |-> [op \in OutPoint |->
     ix[a][op] + (IF op \in CreatedBy(t) /\ OutputAt(op).recipient = a THEN 1 ELSE 0)]]
\* Chain::apply_tx on address_utxo_.  ix[a][op] is the number of copies of op
\* in the vector of address a (0 everywhere: no vector).  An input found in
\* utxo_ loses all its copies (std::erase); every output is pushed once more,
\* whether or not the vector holds it already.
ApplyToIndex(ix, u, t) ==
  [a \in Address |-> [op \in OutPoint |->
     (IF op \in SpentBy(t) \cap u /\ OutputAt(op).recipient = a
        THEN 0 ELSE ix[a][op])
     + (IF op \in CreatedBy(t) /\ OutputAt(op).recipient = a THEN 1 ELSE 0)]]

-----------------------------------------------------------------------------
(* Chain::add_tx: the checks in the order the code makes them.             *)

\* What the two loops add up, as exact integers; a sum that the overflow test of
\* every iteration let pass is the uint64_t of the code.
SumOut(t, n) == Total([i \in 1..n |-> outputs[t][i].amount])
SumIn(t, n, u) ==
  Total([i \in {j \in 1..n : inputs[t][j] \in u} |-> OutputAt(inputs[t][i]).amount])

\* Mutant: the sum of the outputs may overflow.
OutputErrorWraps(t) ==
  IF \E i \in DOMAIN outputs[t] : outputs[t][i].amount = 0 THEN "ZeroAmount" ELSE "None"
\* Outputs: the first output with a zero amount or an overflowing sum decides.
OutputError(t) ==
  LET n   == Len(outputs[t])
      bad == {i \in 1..n : \/ outputs[t][i].amount = 0
                           \/ SumOut(t, i) > MaxAmount}
  IN  IF bad = {}
        THEN IF n = 0 THEN "ZeroAmount" ELSE "None"
        ELSE IF outputs[t][Min(bad)].amount = 0
               THEN "ZeroAmount" ELSE "InvalidPayload"

\* sum_in < sum_out, both uint64_t.
Overspends(t, u) ==
  SumIn(t, Len(inputs[t]), u) % (MaxAmount + 1)
    < SumOut(t, Len(outputs[t])) % (MaxAmount + 1)

\* Inputs: the first one that is missing, foreign or overflows the sum decides.
InputError(t, sender, u) ==
  LET n   == Len(inputs[t])
      bad == {i \in 1..n : \/ inputs[t][i] \notin u
                           \/ OutputAt(inputs[t][i]).recipient # sender
                           \/ SumIn(t, i, u) > MaxAmount}
      foreign(op) == op \notin u \/ OutputAt(op).recipient # sender
  IN  IF bad = {}
        THEN IF Overspends(t, u) THEN "BadOwnership" ELSE "None"
        ELSE IF foreign(inputs[t][Min(bad)])
               THEN "BadOwnership" ELSE "InvalidPayload"

verify_sig(pk, t, sig) == sig = [signer |-> pk, msg |-> t]

\* Mutant: pool_spent_ is not consulted.
NeverClaimed(t, ps) == FALSE
\* Some input is in pool_spent_.
ClaimedByPool(t, ps) == SpentBy(t) \cap ps # {}

\* What add_tx returns for a submission st when utxo_, pool_ and pool_spent_
\* are u, p and ps.
ValidateTx(st, u, p, ps) ==
  LET t  == st.tx
      ie == InputError(t, derive_address[st.pubkey], u)
  IN  IF OutputError(t) # "None" THEN OutputError(t)
      ELSE IF inputs[t] = <<>> THEN "InvalidPayload"
      ELSE IF ie # "None" THEN ie
      ELSE IF ~verify_sig(st.pubkey, t, st.sig) THEN "BadSignature"
      ELSE IF t \in p THEN "Duplicate"
      ELSE IF ClaimedByPool(t, ps) THEN "InputSpent"
      ELSE "None"

-----------------------------------------------------------------------------
(* Blocks *)

Body  == [txs : Seq(Tx), timestamp : Timestamp]
Hash  == Seq(Body)
Block == [prev_hash : Hash, txs : Seq(Tx), timestamp : Timestamp]

\* The hash of a block: prev_hash extended with what the header commits to.
BlockHash(b) ==
  Append(b.prev_hash, [txs |-> b.txs, timestamp |-> b.timestamp])

\* The block create_genesis builds; its prev_hash is all zero.
GenesisBlock ==
  [prev_hash |-> <<>>, txs |-> <<Genesis>>, timestamp |-> GenesisTime]

\* The block parse_create_block_payload makes of a CreateBlock message: the
\* coinbase first, then the transactions it found in pool_.
Assemble(prev, c, refs, ts) ==
  [prev_hash |-> prev, txs |-> <<c>> \o refs, timestamp |-> ts]

\* The txids confirmed by a chain c.
TxsOf(c) == UNION {{c[h].txs[i] : i \in 1..Len(c[h].txs)} : h \in 1..Len(c)}

\* The outpoints that the chain c leaves unspent: those created by some
\* transaction of c and spent by no later one.
LiveFrom(c, op, h, i) ==
  /\ op \in CreatedBy(c[h].txs[i])
  /\ \A k \in h..Len(c) : \A j \in 1..Len(c[k].txs) :
       (k > h \/ j > i) => op \notin SpentBy(c[k].txs[j])
Unspent(c) ==
  {op \in OutPoint : \E h \in 1..Len(c) : \E i \in 1..Len(c[h].txs) :
     LiveFrom(c, op, h, i)}
=============================================================================

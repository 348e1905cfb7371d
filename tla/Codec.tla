------------------------------- MODULE Codec -------------------------------
(***************************************************************************)
(* Reader, Writer and the encodings built on them.                         *)
(*                                                                         *)
(* Every field but the tags of a response is a multiple of four bytes      *)
(* wide, so a byte string is a sequence of 4-byte words: a u32 is one      *)
(* word, a u64 two, an address five, a hash or a public key eight, a       *)
(* signature sixteen.  A Reader is its data with an offset; Has is its     *)
(* check, and an exception is the result Thrown.                           *)
(***************************************************************************)
EXTENDS Sums, SequencesExt

CONSTANTS
  KeyDigits,  \* digits of a block key: 10, scaled down
  MaxHeight   \* largest height, a uint32_t, scaled down

Field(n) == [u32 |-> 1, u64 |-> 2, addr |-> 5, hash |-> 8, sig |-> 16][n]

OutPointWords == Field("hash") + Field("u32")
TxOutputWords == Field("addr") + Field("u64")

-----------------------------------------------------------------------------
(* Writer *)

PutInputs(ins) == FlattenSeq([i \in DOMAIN ins |-> Append(ins[i].txid, ins[i].index)])
PutOutputs(outs) == FlattenSeq([i \in DOMAIN outs |-> outs[i].recipient \o outs[i].amount])

\* Mutant: the timestamp is not hashed.
TxidPreimageNoTime(t) == PutInputs(t.inputs) \o PutOutputs(t.outputs)
\* Transaction::compute_hash: what blake2b is applied to.
TxidPreimage(t) == PutInputs(t.inputs) \o PutOutputs(t.outputs) \o t.timestamp

\* The part that a stored transaction and a submission share: a txid or a
\* public key, then timestamp, inputs and outputs.
PutBody(id, t) ==
  id \o t.timestamp
     \o <<Len(t.inputs)>> \o PutInputs(t.inputs)
     \o <<Len(t.outputs)>> \o PutOutputs(t.outputs)

SerializeTx(t) == PutBody(t.txid, t)

\* What wallets send as CreateTransaction and post as rawTx.
SubmitMessage(pk, t, sig) == PutBody(pk, t) \o sig

SerializeHeader(h) == h.prev_hash \o h.merkle_root \o h.timestamp \o h.nonce

Sized(ws) == <<4 * Len(ws)>> \o ws
SerializeBlock(b) ==
  SerializeHeader(b.header) \o <<Len(b.transactions)>>
    \o FlattenSeq([i \in DOMAIN b.transactions |-> Sized(SerializeTx(b.transactions[i]))])

\* What miners send as CreateBlock.
BlockMessage(m) ==
  SerializeHeader(m.header) \o m.address \o m.reward \o m.timestamp
    \o <<Len(m.refs)>> \o FlattenSeq(m.refs)

\* The sizes web.cpp reports, in bytes, from its own constants.
TxSize(t) == 48 + 36 * Len(t.inputs) + 28 * Len(t.outputs)
\* Mutant: the size prefix of a transaction is forgotten.
block_serialized_size_NoPrefix(b) ==
  80 + 4 + Total([i \in DOMAIN b.transactions |-> TxSize(b.transactions[i])])
block_serialized_size(b) ==
  80 + 4 + Total([i \in DOMAIN b.transactions |-> 4 + TxSize(b.transactions[i])])

Digit(n, i) == Quotient(n, 10, KeyDigits - i) % 10
ASSUME KeyAssumption ==
  KeyDigits \in Nat /\ MaxHeight \in Nat /\ Quotient(MaxHeight, 10, KeyDigits) = 0

\* Mutant: no leading zeros.
block_key_Bare(n) == SelectSeq([i \in 1..KeyDigits |-> Digit(n, i)], LAMBDA d : d # 0)
\* Chain::block_key, "%010u": the decimal digits, padded with zeros.
block_key(n) == [i \in 1..KeyDigits |-> Digit(n, i)]

-----------------------------------------------------------------------------
(* Reader *)

Thrown == [ok |-> FALSE]

\* Reader's check, made before every take.
Has(d, o, n) == o + n <= Len(d)

\* take_hash, take_u64 and the others, after their check.
Take(d, o, n) == SubSeq(d, o + 1, o + n)

\* Mutant: the index is read before the txid.
TakeInputsIndexFirst(d, o, n) ==
  [i \in 1..n |->
     LET at == o + (i - 1) * OutPointWords
     IN  [txid |-> Take(d, at + 1, Field("hash")), index |-> d[at + 1]]]
TakeInputs(d, o, n) ==
  [i \in 1..n |->
     LET at == o + (i - 1) * OutPointWords
     IN  [txid |-> Take(d, at, Field("hash")), index |-> d[at + OutPointWords]]]
TakeOutputs(d, o, n) ==
  [i \in 1..n |->
     LET at == o + (i - 1) * TxOutputWords
     IN  [recipient |-> Take(d, at, Field("addr")),
          amount |-> Take(d, at + Field("addr"), Field("u64"))]]

\* The reading of PutBody, from offset o: a count is believed as soon as it is
\* read, and the loop after it throws where the data end.
TakeBody(d, o) ==
  LET ins == o + Field("hash") + Field("u64") + Field("u32")
  IN  IF ~Has(d, o, ins - o) THEN Thrown ELSE
      LET outs == ins + d[ins] * OutPointWords + Field("u32")
      IN  IF ~Has(d, ins, outs - ins) THEN Thrown ELSE
          LET end == outs + d[outs] * TxOutputWords
          IN  IF ~Has(d, outs, end - outs) THEN Thrown ELSE
              [ok |-> TRUE, offset |-> end, id |-> Take(d, o, Field("hash")),
               timestamp |-> Take(d, o + Field("hash"), Field("u64")),
               inputs |-> TakeInputs(d, ins, d[ins]),
               outputs |-> TakeOutputs(d, outs, d[outs])]

\* Transaction::deserialize: the txid is read, not computed.
TxOf(r) == [txid |-> r.id, timestamp |-> r.timestamp,
            inputs |-> r.inputs, outputs |-> r.outputs]

\* parse_create_tx_payload (TCP): bytes after the signature are ignored.
parse_create_tx_payload(d) ==
  LET r == TakeBody(d, 0)
  IN  IF ~r.ok THEN Thrown
      ELSE IF ~Has(d, r.offset, Field("sig")) THEN Thrown
      ELSE [ok |-> TRUE, body |-> TxOf(r), sig |-> Take(d, r.offset, Field("sig")),
            offset |-> r.offset + Field("sig")]

\* Mutant: the size of the payload is not compared.
parse_signed_Lax(d) == parse_create_tx_payload(d)
\* parse_signed_transaction_payload (HTTP): they are an error.
parse_signed_transaction_payload(d) ==
  LET r == parse_create_tx_payload(d)
  IN  IF r.ok /\ r.offset # Len(d) THEN Thrown ELSE r

HeaderWords == 2 * Field("hash") + 2 * Field("u64")
HeaderOf(d) ==
  [prev_hash |-> Take(d, 0, Field("hash")),
   merkle_root |-> Take(d, Field("hash"), Field("hash")),
   timestamp |-> Take(d, 2 * Field("hash"), Field("u64")),
   nonce |-> Take(d, 2 * Field("hash") + Field("u64"), Field("u64"))]

\* Block::deserialize.  After i transactions the offset is at[i], or -1 if an
\* exception was thrown; a transaction is read from a view of the size that
\* precedes it, and what is left of the view is skipped.  The code takes a size of
\* any number of bytes; the ones Block::serialize writes are whole words, and
\* others are rounded down here.
TxView(d, o) == Take(d, o + 1, d[o + 1] \div 4)
AfterTx(d, o) ==
  IF o = -1 \/ ~Has(d, o, 1) THEN -1
  ELSE IF ~Has(d, o + 1, d[o + 1] \div 4) THEN -1
  ELSE IF ~TakeBody(TxView(d, o), 0).ok THEN -1
  ELSE o + 1 + d[o + 1] \div 4
DeserializeBlock(d) ==
  IF ~Has(d, 0, HeaderWords + 1) THEN Thrown ELSE
  LET n == d[HeaderWords + 1]
      at[i \in 0..n] == IF i = 0 THEN HeaderWords + 1 ELSE AfterTx(d, at[i - 1])
  IN  IF at[n] = -1 THEN Thrown ELSE
      [ok |-> TRUE, offset |-> at[n], header |-> HeaderOf(d),
       transactions |-> [i \in 1..n |-> TxOf(TakeBody(TxView(d, at[i - 1]), 0))]]

\* load_blocks accepts a value that is consumed to its end, load_pool one that
\* does not end too early.
LoadBlockValue(d) ==
  LET r == DeserializeBlock(d)
  IN  IF r.ok /\ r.offset # Len(d) THEN Thrown ELSE r
LoadPoolValue(d) == TakeBody(d, 0)

\* parse_create_block_payload, its Reader.
parse_create_block_payload(d) ==
  LET refs == HeaderWords + Field("addr") + 2 * Field("u64") + Field("u32")
  IN  IF ~Has(d, 0, refs) THEN Thrown
      ELSE IF ~Has(d, refs, d[refs] * Field("hash")) THEN Thrown
      ELSE [ok |-> TRUE, header |-> HeaderOf(d),
            address |-> Take(d, HeaderWords, Field("addr")),
            reward |-> Take(d, HeaderWords + Field("addr"), Field("u64")),
            timestamp |-> Take(d, HeaderWords + Field("addr") + Field("u64"), Field("u64")),
            refs |-> [i \in 1..d[refs] |->
                        Take(d, refs + (i - 1) * Field("hash"), Field("hash"))]]
=============================================================================

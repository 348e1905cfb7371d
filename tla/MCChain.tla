------------------------------ MODULE MCChain ------------------------------
(***************************************************************************)
(* A small universe of transactions for Chain: two keys, the genesis       *)
(* coinbase, three coinbases of miners, and transactions that conflict,    *)
(* depend on each other or fail one check of add_tx each.                  *)
(***************************************************************************)
EXTENDS Refinement, Queries, TLC

Op(t, i) == [txid |-> t, index |-> i]
Pay(a, n) == [recipient |-> a, amount |-> n]

MCAddress == {"A", "B"}
MCPublicKey == {"pkA", "pkB"}
MCDerive == [pkA |-> "A", pkB |-> "B"]

\* g: genesis, 3 to A.  c1, c2, c3: coinbases.
\* split and rival spend the genesis output, child an output of split, fan the
\* output of c1.  twin lists one input twice.
Valid == {"split", "rival", "child", "fan", "twin"}
Invalid == {"zero", "empty", "overflow", "overspend", "inflow"}
MCTx == {"g", "c1", "c2", "c3"} \cup Valid \cup Invalid

MCInputs ==
  [t \in MCTx |->
    CASE t \in {"g", "c1", "c2", "c3"} -> <<>>
      [] t = "child" -> <<Op("split", 0)>>
      [] t = "fan"   -> <<Op("c1", 0)>>
      [] t = "twin"  -> <<Op("g", 0), Op("g", 0)>>
      [] t = "inflow" -> <<Op("g", 0), Op("g", 0), Op("g", 0)>>
      [] OTHER -> <<Op("g", 0)>>]

MCOutputs ==
  [t \in MCTx |->
    CASE t = "g"     -> <<Pay("A", 3)>>
      [] t = "c1"    -> <<Pay("B", 2)>>
      [] t = "c2"    -> <<Pay("A", 2)>>
      [] t = "c3"    -> <<Pay("A", 6)>>
      [] t = "split" -> <<Pay("A", 2), Pay("B", 1)>>
      [] t = "rival" -> <<Pay("B", 3)>>
      [] t = "child" -> <<Pay("B", 2)>>
      [] t = "fan"   -> <<Pay("A", 1), Pay("B", 1)>>
      [] t = "twin"  -> <<Pay("A", 6)>>
      [] t = "zero"  -> <<Pay("A", 1), Pay("B", 0)>>
      [] t = "empty" -> <<>>
      [] t = "overflow"  -> <<Pay("A", 5), Pay("A", 4)>>
      [] t = "overspend" -> <<Pay("B", 4)>>
      [] OTHER -> <<Pay("A", 1)>>]

Signed(t, pk) ==
  [tx |-> t, pubkey |-> pk, sig |-> [signer |-> pk, msg |-> t]]
Owner(t) == IF t = "fan" THEN "pkB" ELSE "pkA"

\* Honest wallets; "twin" is what a wallet that lists an input twice builds.
Good == {Signed(t, Owner(t)) : t \in Valid \ {"twin"}}
\* One submission per way to fail: foreign key, signature by another key,
\* coinbase as a submission, and the malformed transactions.
Bad == {Signed("split", "pkB"), Signed("c1", "pkA"),
        [Signed("split", "pkA") EXCEPT !.sig.signer = "pkB"]}
       \cup {Signed(t, "pkA") : t \in Invalid}

\* Which submissions and coinbases a run uses.
SubmitAll == Good \cup Bad
SubmitSome == {Signed(t, Owner(t)) : t \in {"split", "rival", "child", "fan"}}
SubmitFan == {Signed(t, Owner(t)) : t \in {"fan"}}
SubmitTwin == {Signed("twin", "pkA")}
Coins == {"c1", "c2"}
=============================================================================

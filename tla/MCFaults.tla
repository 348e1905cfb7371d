------------------------------ MODULE MCFaults ------------------------------
(***************************************************************************)
(* PowerLoss, and with it ChainFaults, over the universe of MCChain.       *)
(***************************************************************************)
EXTENDS MCChain, PowerLoss

\* A transaction, its rival and its child.
SubmitFamily == {Signed(t, Owner(t)) : t \in {"split", "rival", "child"}}
=============================================================================

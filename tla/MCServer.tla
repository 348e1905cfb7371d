------------------------------ MODULE MCServer ------------------------------
(***************************************************************************)
(* Server over the universe of MCChain, with two connections.              *)
(***************************************************************************)
EXTENDS MCChain, Server

SubmitOne == {Signed("split", Owner("split"))}
AllTypes == MsgType
=============================================================================

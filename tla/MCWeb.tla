------------------------------- MODULE MCWeb -------------------------------
(***************************************************************************)
(* Web over the universe of MCChain.                                       *)
(***************************************************************************)
EXTENDS MCChain, Web

SubmitOne == {Signed("split", "pkA")}
=============================================================================

----------------------------- MODULE MCReceipts -----------------------------
(***************************************************************************)
(* TLC instances of Receipts: wiki/concepts/x.md and wiki/topics/x.md have *)
(* one normalized title.                                                   *)
(***************************************************************************)
EXTENDS Receipts

CONSTANTS concept, topic, summary

SameTitle == [p \in Pages |-> "x"]
=============================================================================

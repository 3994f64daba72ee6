-------------------------- MODULE MCThreadVectors --------------------------
(* The instance of ThreadVectors: a thread of two messages, one of them indexed      *)
(* before there were sums, that can carry the same attachment.                       *)
EXTENDS ThreadVectors, TLC

CONSTANTS early, later, attachment, letter, one

OneThread == (early :> one) @@ (later :> one)
=============================================================================

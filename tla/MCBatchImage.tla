---------------------------- MODULE MCBatchImage ----------------------------
(* BatchImage with up to two workers and one request of the owner. *)
EXTENDS BatchImage

CONSTANTS c1, w1, w2
=============================================================================

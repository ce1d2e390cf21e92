--------------------------- MODULE MCIdempotency ---------------------------
(* Small instances of Idempotency for TLC. *)
EXTENDS Idempotency, TLC

CONSTANTS a, b, c, d

\* Three attempts of the same request.
ThreeReqs == {a, b, c}

\* d reuses the key for another payload.
FourReqs == {a, b, c, d}
TwoPayloads == [r \in FourReqs |-> IF r = d THEN "other" ELSE "same"]

\* The attempts are only compared, if none of them is Detached or Large.
Symmetry == Permutations(ThreeReqs)
=============================================================================

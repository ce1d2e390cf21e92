------------------------- MODULE MCConcurrencySlots -------------------------
(* Small instances of ConcurrencySlots for TLC. *)
EXTENDS ConcurrencySlots, TLC

CONSTANTS p1, p2, r1, r2, r3, r4

TwoProcs == {p1, p2}
TwoReqs == {r1, r3}
FourReqs == {r1, r2, r3, r4}

\* p1 serves r1, r2 and r4, p2 serves r3.
CrowdOwner == [r \in FourReqs |-> IF r = r3 THEN p2 ELSE p1]
PairOwner == [r \in TwoReqs |-> IF r = r3 THEN p2 ELSE p1]
CrowdSymmetry == Permutations({r1, r2, r4})

=============================================================================

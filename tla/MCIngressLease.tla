--------------------------- MODULE MCIngressLease ---------------------------
(* Small instances of IngressLease for TLC. *)
EXTENDS IngressLease, TLC

CONSTANTS s1, s2

TwoSessions == {s1, s2}

Symmetry == Permutations(Sessions)
=============================================================================

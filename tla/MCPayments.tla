----------------------------- MODULE MCPayments -----------------------------
(* Payments on one order with up to two handlers and two administrators.   *)
EXTENDS Payments, TLC

CONSTANTS h1, h2, a1, a2

OneHandler == {h1}
TwoHandlers == {h1, h2}
NoAdmin == {}
OneAdmin == {a1}
TwoAdmins == {a1, a2}

AllFaults == FaultKinds
NoFaults == {}

\* Bound: at most two of them are busy at a time.
TwoBusy ==
    Cardinality({h \in Handlers : pc[h] # "idle"})
        + Cardinality({a \in Admins : rpc[a] # "idle"}) <= 2

Symmetry == Permutations(Handlers) \cup Permutations(Admins)
=============================================================================

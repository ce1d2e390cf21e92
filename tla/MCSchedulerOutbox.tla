------------------------- MODULE MCSchedulerOutbox -------------------------
(* Small instances of SchedulerOutbox for TLC. *)
EXTENDS SchedulerOutbox, TLC

CONSTANTS k1, k2, i1, i2, r1, r2, r3, w1, w2

\* Keys, instances and writers are only compared.
Symmetry == Permutations(Pollers) \cup Permutations(Workers) \cup Permutations(Writers)

\* Bound: two loops at work at a time, be they two pollers, a poller and a
\* worker, or two workers.  All may have left anything behind.
TwoBusy ==
    Cardinality({i \in Pollers : poller[i] # "idle"}) +
        Cardinality({i \in Workers : worker[i] # "idle"}) <= 2
=============================================================================

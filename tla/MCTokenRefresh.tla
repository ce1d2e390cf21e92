--------------------------- MODULE MCTokenRefresh ---------------------------
(* Two instances, configured differently, and one administrator.           *)
EXTENDS TokenRefresh, TLC

CONSTANTS w1, w2

\* One instance gives up after its first attempt, the other tries again.
MCMaxRetries == (w1 :> 1) @@ (w2 :> 2)
=============================================================================

-------------------------- MODULE MCExchangeLimiter --------------------------
(* An instance of ExchangeLimiter.                                         *)
EXTENDS ExchangeLimiter, TLC

Symmetry == Permutations(Tasks) \cup Permutations(Sources)
=============================================================================

---------------------------- MODULE MCOidcReplay ----------------------------
(* An instance of OidcReplay: two tokens that expire a second apart.       *)
EXTENDS OidcReplay, TLC

CONSTANTS t1, t2

MCExp == [t \in Tokens |-> IF t = t1 THEN 1 ELSE 2]

Symmetry == Permutations(Attempts)
=============================================================================

---------------------------- MODULE MCKeyUnlock ----------------------------
(* An instance of KeyUnlock: a keyring with three members, one of them     *)
(* disabled, whose two active members share one passphrase, and a keyring  *)
(* that has no active member left.                                         *)
EXTENDS KeyUnlock, TLC

CONSTANTS k1, k2, k3, k4, g1, g2, p1, p2

MCKeyState == (k1 :> "active") @@ (k2 :> "active") @@ (k3 :> "disabled")
              @@ (k4 :> "retired")
MCRingKeys == (g1 :> <<k1, k3, k2>>) @@ (g2 :> <<k4>>)
MCOpens == (k1 :> {p1, p2}) @@ (k2 :> {p1}) @@ (k3 :> {p1}) @@ (k4 :> {p1})

Symmetry == Permutations(Requests)
=============================================================================

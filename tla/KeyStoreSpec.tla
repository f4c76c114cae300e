----------------------------- MODULE KeyStoreSpec -----------------------------
(***************************************************************************)
(* What src/key.rs promises of the key store, seen by its users: a set of  *)
(* keys that can sign, which only grows.  Unlocking one key adds that key. *)
(* Unlocking a keyring adds, in ONE step, every active member that is      *)
(* still locked, and happens only with a passphrase that opens all of      *)
(* them; there is no step that adds some of them.                          *)
(***************************************************************************)
EXTENDS Sequences, Naturals

CONSTANTS Keys, Rings, Passphrases, KeyState, RingKeys, Opens

VARIABLES
  single,  \* keys unlocked by a request for that key
  whole,   \* keys unlocked by a request for their keyring
  broken   \* keys whose lock is poisoned until the process is restarted

\* Keys whose material is stored.  Readers find those of them unlocked that are not broken.
usable == single \cup whole

Openable(k, p) == KeyState[k] = "active" /\ p \in Opens[k] /\ k \notin broken

RingActive(g) ==
  {k \in {RingKeys[g][i] : i \in 1 .. Len(RingKeys[g])} : KeyState[k] = "active"}

Init == single = {} /\ whole = {} /\ broken = {}

UnlockKey(k, p) ==
  /\ k \notin usable
  /\ Openable(k, p)
  /\ single' = single \cup {k}
  /\ UNCHANGED <<whole, broken>>

UnlockRing(g, p) ==
  /\ \A k \in RingActive(g) \ usable : Openable(k, p)
  /\ whole' = whole \cup (RingActive(g) \ usable)
  /\ UNCHANGED <<single, broken>>

\* An unlocking task dies while it holds locks.
Break ==
  /\ broken' \in SUBSET Keys
  /\ broken \subseteq broken'
  /\ UNCHANGED <<single, whole>>

Next ==
  \/ \E k \in Keys, p \in Passphrases : UnlockKey(k, p)
  \/ \E g \in Rings, p \in Passphrases : UnlockRing(g, p)
  \/ Break

Spec == Init /\ [][Next]_<<single, whole, broken>>
=============================================================================

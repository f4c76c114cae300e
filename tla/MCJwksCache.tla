----------------------------- MODULE MCJwksCache -----------------------------
(* An instance of JwksCache: two keys that GitHub publishes or withdraws,  *)
(* and two requests.                                                       *)
EXTENDS JwksCache
=============================================================================

---------------------------- MODULE MCAdminSocket ----------------------------
(* An instance of AdminSocket: two servers, for instance one that stops    *)
(* and its successor, and a group for the operators.                       *)
EXTENDS AdminSocket
=============================================================================

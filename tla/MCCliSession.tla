---------------------------- MODULE MCCliSession ----------------------------
(* An instance of CliSession: two invocations next to the file of an       *)
(* earlier one, a margin as long as the timeout, as in the code, and a     *)
(* clock that reaches past the end of a session.                           *)
EXTENDS CliSession
=============================================================================

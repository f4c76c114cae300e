--------------------------- MODULE MCDeviceOAuth ---------------------------
(* An instance of DeviceOAuth: two tokens of eligible accounts, and one     *)
(* whose owner has no two-factor authentication.                           *)
EXTENDS DeviceOAuth

CONSTANTS t1, t2, t3

MCClass == [t \in Tokens |-> IF t = t3 THEN "no_2fa" ELSE "good"]
=============================================================================

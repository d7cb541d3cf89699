--------------------------- MODULE MCRegistration ---------------------------
(* A TLC instance of Registration.                                          *)
EXTENDS Registration

CONSTANTS r1, r2, r3
=============================================================================

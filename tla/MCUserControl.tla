--------------------------- MODULE MCUserControl ----------------------------
(* TLC instances of UserControl: two users, and names for the rest.        *)
EXTENDS UserControl

CONSTANTS c1, c2, t1, t2

TwoUsers == {1, 2}
=============================================================================

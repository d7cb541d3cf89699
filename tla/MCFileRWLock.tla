--------------------------- MODULE MCFileRWLock -----------------------------
(* TLC instances of FileRWLock: threads, files and addresses.               *)
EXTENDS FileRWLock

CONSTANTS p1, p2, p3, user_json, friends_json, m1, m2, m3
=============================================================================

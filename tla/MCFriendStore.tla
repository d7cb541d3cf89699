---------------------------- MODULE MCFriendStore ---------------------------
(* A TLC instance of FriendStore: users, threads and their symmetry.        *)
EXTENDS FriendStore

CONSTANTS ann, bob, cid, t1, t2

Symmetric == Permutations(User) \cup Permutations(Thread)
=============================================================================

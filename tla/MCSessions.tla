----------------------------- MODULE MCSessions -----------------------------
(* TLC instances of Sessions: users, threads, sessions and ranges.          *)
EXTENDS Sessions, TLC

CONSTANTS ann, bob, cid, t1, t2, s1, s2, s3

SomeRanges == {<<0, -1>>, <<-2, -1>>, <<1, 5>>, <<1, -2>>, <<-1, 0>>}

Symmetric == Permutations(User) \cup Permutations(Thread)
               \cup Permutations(Session)
=============================================================================

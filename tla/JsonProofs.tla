----------------------------- MODULE JsonProofs -----------------------------
(* Proofs about the documents that the server sends and stores.             *)
(*                                                                          *)
(* Of JsonDocument, for any size of the heap, any keys and any depth of     *)
(* caches: every node has at most one owner, no matter which operations     *)
(* were called before.  The invariant behind it, HeapInv, says that the     *)
(* nodes are trees and that objects own nothing but roots of trees.  And    *)
(* the objects that operator[] has cached follow the document through every *)
(* operation: what an operation changes under one item is found as before   *)
(* under every other (Rewires, FindIn), and what it drops from the caches   *)
(* it drops with all that is below (Rising), so that CacheInv holds.        *)
(*                                                                          *)
(* Of JsonValue, for integers of any width: what a value reads as follows   *)
(* what was stored.                                                         *)
EXTENDS JsonDocument, JsonValue, FiniteSetTheorems, SequenceTheorems, TLAPS

-----------------------------------------------------------------------------
(* Lists of children *)

LEMMA SeqElement ==
  ASSUME NEW S, NEW s \in Seq(S), NEW i \in DOMAIN s
  PROVE  s[i] \in S
OBVIOUS

LEMMA SeqOver ==
  ASSUME NEW S, NEW s \in Seq(S)
  PROVE  Range(s) \subseteq S /\ DOMAIN s = 1 .. Len(s) /\ Len(s) \in Nat
BY SeqElement DEF Range

LEMMA SeqInto ==
  ASSUME NEW S, NEW s \in Seq(S), NEW T, Range(s) \subseteq T
  PROVE  s \in Seq(T)
<1>1. DOMAIN s = 1 .. Len(s) /\ Len(s) \in Nat /\ s \in [1 .. Len(s) -> S]
  OBVIOUS
<1>2. s \in [1 .. Len(s) -> T]
  BY <1>1 DEF Range
<1> QED
  BY <1>1, <1>2

LEMMA AtEnd ==
  ASSUME NEW S, NEW s \in Seq(S), NEW x \in S, IsInjective(s), x \notin Range(s)
  PROVE  /\ Append(s, x) \in Seq(S) /\ IsInjective(Append(s, x))
         /\ Range(Append(s, x)) = Range(s) \cup {x}
<1> DEFINE a == Append(s, x)
<1>1. /\ a \in Seq(S) /\ DOMAIN a = 1 .. Len(s) + 1 /\ Len(s) \in Nat /\ DOMAIN s = 1 .. Len(s)
      /\ \A i \in 1 .. Len(s) : a[i] = s[i]
      /\ a[Len(s) + 1] = x
  OBVIOUS
<1> HIDE DEF a
<1>2. \A i \in 1 .. Len(s) : a[i] # x
  BY <1>1 DEF Range
<1>3. IsInjective(a)
  <2> SUFFICES ASSUME NEW i \in 1 .. Len(s) + 1, NEW j \in 1 .. Len(s) + 1, a[i] = a[j]
               PROVE  i = j
    BY <1>1 DEF IsInjective
  <2> QED
    BY <1>1, <1>2 DEF IsInjective
<1>4. Range(a) = Range(s) \cup {x}
  <2>1. \A i \in 1 .. Len(s) + 1 : a[i] \in Range(s) \cup {x}
    BY <1>1 DEF Range
  <2>2. \A i \in 1 .. Len(s) : s[i] \in Range(a)
    BY <1>1 DEF Range
  <2>3. x \in Range(a)
    BY <1>1 DEF Range
  <2> QED
    BY <1>1, <2>1, <2>2, <2>3 DEF Range
<1> QED
  BY <1>1, <1>3, <1>4 DEF a

LEMMA AtStart ==
  ASSUME NEW S, NEW s \in Seq(S), NEW x \in S, IsInjective(s), x \notin Range(s)
  PROVE  /\ <<x>> \o s \in Seq(S) /\ IsInjective(<<x>> \o s)
         /\ Range(<<x>> \o s) = Range(s) \cup {x}
<1> DEFINE a == <<x>> \o s
<1>1. /\ a \in Seq(S) /\ DOMAIN a = 1 .. Len(s) + 1 /\ Len(s) \in Nat /\ DOMAIN s = 1 .. Len(s)
      /\ \A i \in 2 .. Len(s) + 1 : a[i] = s[i - 1]
      /\ a[1] = x
  OBVIOUS
<1> HIDE DEF a
<1>2. \A i \in 2 .. Len(s) + 1 : a[i] # x
  BY <1>1 DEF Range
<1>3. IsInjective(a)
  <2> SUFFICES ASSUME NEW i \in 1 .. Len(s) + 1, NEW j \in 1 .. Len(s) + 1, a[i] = a[j]
               PROVE  i = j
    BY <1>1 DEF IsInjective
  <2>1. CASE i = 1 \/ j = 1
    BY <1>1, <1>2, <2>1
  <2>2. CASE i # 1 /\ j # 1
    <3>1. i - 1 \in DOMAIN s /\ j - 1 \in DOMAIN s /\ s[i - 1] = s[j - 1]
      BY <1>1, <2>2
    <3>2. i - 1 = j - 1
      BY <3>1 DEF IsInjective
    <3> QED
      BY <3>2
  <2> QED
    BY <2>1, <2>2
<1>4. Range(a) = Range(s) \cup {x}
  <2>1. \A i \in 1 .. Len(s) + 1 : a[i] \in Range(s) \cup {x}
    BY <1>1 DEF Range
  <2>2. ASSUME NEW i \in 1 .. Len(s)
        PROVE  s[i] \in Range(a)
    <3>1. i + 1 \in DOMAIN a /\ a[i + 1] = s[i]
      BY <1>1
    <3> QED
      BY <3>1 DEF Range
  <2>3. x \in Range(a)
    BY <1>1 DEF Range
  <2> QED
    BY <1>1, <2>1, <2>2, <2>3 DEF Range
<1> QED
  BY <1>1, <1>3, <1>4 DEF a

LEMMA AtPlace ==
  ASSUME NEW S, NEW s \in Seq(S), NEW x \in S, IsInjective(s), x \notin Range(s),
         NEW i \in DOMAIN s
  PROVE  /\ [s EXCEPT ![i] = x] \in Seq(S) /\ IsInjective([s EXCEPT ![i] = x])
         /\ Range([s EXCEPT ![i] = x]) = (Range(s) \ {s[i]}) \cup {x}
<1> DEFINE a == [s EXCEPT ![i] = x]
<1>1. /\ a \in Seq(S) /\ DOMAIN a = DOMAIN s
      /\ \A j \in DOMAIN s : j # i => a[j] = s[j]
      /\ a[i] = x
  OBVIOUS
<1> HIDE DEF a
<1>2. \A j \in DOMAIN s : s[j] # x
  BY DEF Range
<1>3. IsInjective(a)
  BY <1>1, <1>2 DEF IsInjective
<1>4. Range(a) = (Range(s) \ {s[i]}) \cup {x}
  BY <1>1, <1>2 DEF Range, IsInjective
<1> QED
  BY <1>1, <1>3, <1>4 DEF a

LEMMA Joined ==
  ASSUME NEW S, NEW s1 \in Seq(S), NEW s2 \in Seq(S)
  PROVE  /\ s1 \o s2 \in Seq(S) /\ Len(s1 \o s2) = Len(s1) + Len(s2)
         /\ \A j \in 1 .. Len(s1) : (s1 \o s2)[j] = s1[j]
         /\ \A j \in 1 .. Len(s2) : (s1 \o s2)[Len(s1) + j] = s2[j]
OBVIOUS

LEMMA Removed ==
  ASSUME NEW S, NEW s \in Seq(S), NEW i \in DOMAIN s
  PROVE  /\ RemoveAt(s, i) \in Seq(S) /\ DOMAIN RemoveAt(s, i) = 1 .. Len(s) - 1
         /\ \A j \in 1 .. Len(s) - 1 : RemoveAt(s, i)[j] = IF j < i THEN s[j] ELSE s[j + 1]
<1> DEFINE a == RemoveAt(s, i)
           before == SubSeq(s, 1, i - 1)
           after == SubSeq(s, i + 1, Len(s))
<1>1. DOMAIN s = 1 .. Len(s) /\ Len(s) \in Nat /\ i \in 1 .. Len(s)
  OBVIOUS
<1>2. /\ before \in Seq(S) /\ Len(before) = i - 1
      /\ after \in Seq(S) /\ Len(after) = Len(s) - i
      /\ \A j \in 1 .. i - 1 : before[j] = s[j]
      /\ \A j \in 1 .. Len(s) - i : after[j] = s[j + i]
  <2>1. before \in Seq(S) /\ Len(before) = i - 1
    BY <1>1
  <2>2. \A j \in 1 .. i - 1 : before[j] = s[j]
    BY <1>1
  <2>3. after \in Seq(S) /\ Len(after) = Len(s) - i
    BY <1>1
  <2>4. \A j \in 1 .. Len(s) - i : after[j] = s[j + i]
    BY <1>1
  <2> QED
    BY <2>1, <2>2, <2>3, <2>4
<1>3. a = before \o after
  BY DEF RemoveAt
<1> HIDE DEF a, before, after
<1>4. /\ a \in Seq(S) /\ Len(a) = Len(s) - 1
      /\ \A j \in 1 .. i - 1 : a[j] = before[j]
      /\ \A j \in 1 .. Len(s) - i : a[i - 1 + j] = after[j]
  <2>1. before \in Seq(S) /\ after \in Seq(S)
    BY <1>2
  <2> DEFINE joined == before \o after
  <2>2. joined \in Seq(S) /\ Len(joined) = Len(before) + Len(after)
    BY <2>1, Joined
  <2>3. /\ \A j \in 1 .. Len(before) : joined[j] = before[j]
        /\ \A j \in 1 .. Len(after) : joined[Len(before) + j] = after[j]
    BY <2>1, Joined
  <2>4. a = joined
    BY <1>3
  <2> HIDE DEF joined
  <2>5. Len(before) = i - 1 /\ Len(after) = Len(s) - i
    BY <1>2
  <2>6. i - 1 + (Len(s) - i) = Len(s) - 1
    BY <1>1
  <2>7. a \in Seq(S) /\ Len(a) = Len(s) - 1
    BY <2>2, <2>4, <2>5, <2>6
  <2>8. \A j \in 1 .. i - 1 : a[j] = before[j]
    BY <2>3, <2>4, <2>5
  <2>9. \A j \in 1 .. Len(s) - i : a[i - 1 + j] = after[j]
    BY <2>3, <2>4, <2>5
  <2> QED
    BY <2>7, <2>8, <2>9
<1>5. \A j \in 1 .. Len(s) - 1 : a[j] = IF j < i THEN s[j] ELSE s[j + 1]
  <2> SUFFICES ASSUME NEW j \in 1 .. Len(s) - 1
               PROVE  a[j] = IF j < i THEN s[j] ELSE s[j + 1]
    OBVIOUS
  <2>1. CASE j < i
    <3>1. j \in 1 .. i - 1
      BY <1>1, <2>1
    <3> QED
      BY <1>2, <1>4, <2>1, <3>1
  <2>2. CASE j >= i
    <3>1. PICK k \in 1 .. Len(s) - i : j = i - 1 + k
      <4>1. j - i + 1 \in 1 .. Len(s) - i /\ j = i - 1 + (j - i + 1)
        BY <1>1, <2>2
      <4> QED
        BY <4>1
    <3>2. a[j] = after[k]
      BY <1>4, <3>1
    <3>3. after[k] = s[k + i]
      BY <1>2
    <3>4. k + i = j + 1 /\ ~(j < i)
      BY <1>1, <2>2, <3>1
    <3> QED
      BY <3>2, <3>3, <3>4
  <2> QED
    BY <1>1, <2>1, <2>2
<1>6. DOMAIN a = 1 .. Len(s) - 1
  BY <1>4
<1> QED
  BY <1>4, <1>5, <1>6 DEF a

LEMMA Without ==
  ASSUME NEW S, NEW s \in Seq(S), IsInjective(s), NEW i \in DOMAIN s
  PROVE  /\ RemoveAt(s, i) \in Seq(S) /\ IsInjective(RemoveAt(s, i))
         /\ Range(RemoveAt(s, i)) = Range(s) \ {s[i]}
<1> DEFINE a == RemoveAt(s, i)
<1>1. DOMAIN s = 1 .. Len(s) /\ Len(s) \in Nat /\ i \in 1 .. Len(s)
  OBVIOUS
<1>2. a \in Seq(S)
  BY Removed
<1>3. \A j \in 1 .. Len(s) - 1 : a[j] = IF j < i THEN s[j] ELSE s[j + 1]
  BY Removed
<1>4. DOMAIN a = 1 .. Len(s) - 1
  BY Removed
<1> HIDE DEF a
<1>5. IsInjective(a)
  <2> SUFFICES ASSUME NEW j \in 1 .. Len(s) - 1, NEW k \in 1 .. Len(s) - 1, a[j] = a[k]
               PROVE  j = k
    BY <1>4 DEF IsInjective
  <2> DEFINE J == IF j < i THEN j ELSE j + 1
             K == IF k < i THEN k ELSE k + 1
  <2>1. J \in DOMAIN s /\ K \in DOMAIN s /\ s[J] = s[K]
    BY <1>1, <1>3
  <2>2. J = K
    BY <2>1 DEF IsInjective
  <2> QED
    BY <1>1, <2>2
<1>6. Range(a) \subseteq Range(s) \ {s[i]}
  <2> SUFFICES ASSUME NEW j \in 1 .. Len(s) - 1
               PROVE  a[j] \in Range(s) /\ a[j] # s[i]
    BY <1>4 DEF Range
  <2> DEFINE J == IF j < i THEN j ELSE j + 1
  <2>1. J \in DOMAIN s /\ J # i /\ a[j] = s[J]
    BY <1>1, <1>3
  <2> QED
    BY <2>1 DEF IsInjective, Range
<1>7. Range(s) \ {s[i]} \subseteq Range(a)
  <2> SUFFICES ASSUME NEW j \in DOMAIN s, s[j] # s[i]
               PROVE  s[j] \in Range(a)
    BY DEF Range
  <2> DEFINE J == IF j < i THEN j ELSE j - 1
  <2>1. J \in DOMAIN a /\ a[J] = s[j]
    BY <1>1, <1>3, <1>4
  <2> QED
    BY <2>1 DEF Range
<1> QED
  BY <1>2, <1>5, <1>6, <1>7 DEF a

-----------------------------------------------------------------------------
(* What is below a node *)

Typed(t) == t \in [DOMAIN t -> ItemType(DOMAIN t)]

LEMMA TypedIs ==
  ASSUME NEW t, Typed(t), NEW n \in DOMAIN t
  PROVE  /\ t[n] \in ItemType(DOMAIN t) /\ t[n].kids \in Seq(DOMAIN t)
         /\ Kids(t, n) \subseteq DOMAIN t
<1>1. t[n] \in ItemType(DOMAIN t)
  BY DEF Typed
<1>2. t[n].kids \in Seq(DOMAIN t)
  BY <1>1 DEF ItemType
<1> QED
  BY <1>1, <1>2, SeqOver DEF Kids

LEMMA BelowClosed ==
  ASSUME NEW t, Typed(t), NEW n \in DOMAIN t
  PROVE  n \in Below(t, n) /\ Below(t, n) \subseteq DOMAIN t /\ Closed(t, Below(t, n))
<1>1. n \in Below(t, n) /\ Below(t, n) \subseteq DOMAIN t
  BY DEF Below
<1>2. ASSUME NEW m \in Below(t, n), NEW k \in Kids(t, m)
      PROVE  k \in Below(t, n)
  <2>1. m \in DOMAIN t /\ k \in DOMAIN t
    BY <1>1, TypedIs
  <2>2. ASSUME NEW S \in SUBSET DOMAIN t, n \in S, Closed(t, S)
        PROVE  k \in S
    BY <2>2 DEF Below, Closed
  <2> QED
    BY <2>1, <2>2 DEF Below
<1> QED
  BY <1>1, <1>2 DEF Closed

LEMMA BelowLeast ==
  ASSUME NEW t, NEW S \in SUBSET DOMAIN t, NEW n \in S, Closed(t, S)
  PROVE  Below(t, n) \subseteq S
BY DEF Below

(* Whatever is below a node has its parent there.                           *)
LEMMA BelowParent ==
  ASSUME NEW t, Typed(t), NEW n \in DOMAIN t, NEW m \in Below(t, n), m # n
  PROVE  \E k \in Below(t, n) : m \in Kids(t, k)
<1> SUFFICES ASSUME \A k \in Below(t, n) : m \notin Kids(t, k)
             PROVE  FALSE
  OBVIOUS
<1> DEFINE S == Below(t, n) \ {m}
<1>1. S \in SUBSET DOMAIN t /\ n \in S /\ Closed(t, S)
  BY BelowClosed DEF Closed
<1> QED
  BY <1>1, BelowLeast

LEMMA BelowShrinks ==
  ASSUME NEW t, NEW t2, Typed(t), Typed(t2), DOMAIN t2 \subseteq DOMAIN t,
         \A m \in DOMAIN t2 : Kids(t2, m) \subseteq Kids(t, m), NEW n \in DOMAIN t2
  PROVE  Below(t2, n) \subseteq Below(t, n)
<1> DEFINE S == Below(t, n) \cap DOMAIN t2
<1>1. n \in Below(t, n) /\ Closed(t, Below(t, n))
  BY BelowClosed
<1>2. S \in SUBSET DOMAIN t2 /\ n \in S /\ Closed(t2, S)
  BY <1>1, TypedIs DEF Closed
<1> QED
  BY <1>2, BelowLeast

-----------------------------------------------------------------------------
(* Taking away and attaching *)

LEMMA TreesTyped ==
  ASSUME NEW t, Trees(t)
  PROVE  Typed(t)
BY DEF Trees, Typed

LEMMA TreesShrink ==
  ASSUME NEW t, NEW t2, Trees(t), Typed(t2), DOMAIN t2 \subseteq DOMAIN t,
         \A m \in DOMAIN t2 : Kids(t2, m) \subseteq Kids(t, m) /\ IsInjective(t2[m].kids)
  PROVE  Trees(t2)
<1>1. \A n \in DOMAIN t2 : Below(t2, n) \subseteq Below(t, n)
  BY BelowShrinks, TreesTyped
<1>2. \A n \in DOMAIN t2 : Below(t2, n) \subseteq DOMAIN t2
  BY BelowClosed
<1>3. \A m1, m2 \in DOMAIN t2 : \A n \in Kids(t2, m1) \cap Kids(t2, m2) : m1 = m2
  BY DEF Trees
<1>4. \A n \in DOMAIN t2 : \A m \in Below(t2, n) : n \notin Kids(t2, m)
  BY <1>1, <1>2 DEF Trees
<1>5. DOMAIN t2 \subseteq Node
  BY DEF Trees
<1> QED
  BY <1>3, <1>4, <1>5 DEF Trees, Typed

LEMMA OwningShrink ==
  ASSUME NEW t, NEW t2, NEW o, Owning(t, o), DOMAIN t2 = DOMAIN t,
         \A m \in DOMAIN t2 : Kids(t2, m) \subseteq Kids(t, m)
  PROVE  Owning(t2, o)
BY DEF Owning, Parentless

(* A node x without a parent becomes a child of n, which is not below it.   *)
LEMMA TreesAttach ==
  ASSUME NEW t, NEW t2, Trees(t), Typed(t2), DOMAIN t2 = DOMAIN t,
         NEW n \in DOMAIN t, NEW x \in DOMAIN t,
         \A m \in DOMAIN t : IsInjective(t2[m].kids),
         \A m \in DOMAIN t \ {n} : Kids(t2, m) = Kids(t, m),
         Kids(t2, n) \subseteq Kids(t, n) \cup {x},
         Parentless(t, x), n \notin Below(t, x)
  PROVE  Trees(t2)
<1>1. ASSUME NEW m1 \in DOMAIN t, NEW m2 \in DOMAIN t, NEW k \in Kids(t2, m1) \cap Kids(t2, m2)
      PROVE  m1 = m2
  <2>1. CASE k = x
    BY <2>1 DEF Parentless
  <2>2. CASE k # x
    <3>1. k \in Kids(t, m1) \cap Kids(t, m2)
      BY <2>2
    <3> QED
      BY <3>1 DEF Trees
  <2> QED
    BY <2>1, <2>2
<1>2. ASSUME NEW k \in DOMAIN t, NEW m \in Below(t2, k), k \in Kids(t2, m)
      PROVE  FALSE
  <2> DEFINE B == Below(t, k)
             X == Below(t, x)
  <2>1. /\ k \in B /\ B \subseteq DOMAIN t /\ Closed(t, B)
        /\ x \in X /\ X \subseteq DOMAIN t /\ Closed(t, X)
    BY BelowClosed, TreesTyped
  <2>2. k \notin UNION {Kids(t, q) : q \in B}
    BY DEF Trees
  <2>3. CASE n \notin B
    <3>1. B \in SUBSET DOMAIN t2 /\ Closed(t2, B)
      BY <2>1, <2>3 DEF Closed
    <3>2. m \in B
      BY <2>1, <3>1, BelowLeast
    <3>3. m # n
      BY <2>3, <3>2
    <3> QED
      BY <1>2, <2>1, <2>2, <3>2, <3>3
  <2>4. CASE n \in B
    <3> DEFINE S == B \cup X
    <3>1. S \in SUBSET DOMAIN t2 /\ k \in S
      BY <2>1
    <3>2. Closed(t2, S)
      <4> SUFFICES ASSUME NEW q \in S PROVE Kids(t2, q) \subseteq S
        BY DEF Closed
      <4>1. Kids(t, q) \subseteq S
        BY <2>1 DEF Closed
      <4>2. Kids(t2, q) \subseteq Kids(t, q) \cup {x}
        BY <2>1
      <4> QED
        BY <2>1, <4>1, <4>2
    <3>3. m \in B \/ m \in X
      BY <3>1, <3>2, BelowLeast
    <3>4. m \in DOMAIN t /\ (k \in Kids(t, m) \/ (m = n /\ k = x))
      BY <1>2, <2>1, <3>3
    <3>5. CASE m = n /\ k = x
      BY <2>4, <3>5
    <3>6. CASE k \in Kids(t, m)
      <4>1. m \in X /\ k \in X
        BY <2>1, <2>2, <3>3, <3>6 DEF Closed
      <4>2. B \subseteq X
        BY <2>1, <4>1, BelowLeast
      <4> QED
        BY <2>4, <4>2
    <3> QED
      BY <3>4, <3>5, <3>6
  <2> QED
    BY <2>3, <2>4
<1>3. DOMAIN t2 \subseteq Node
  BY DEF Trees
<1> QED
  BY <1>1, <1>2, <1>3 DEF Trees, Typed

LEMMA OwningAttach ==
  ASSUME NEW t, NEW t2, NEW o, Owning(t, o), DOMAIN t2 = DOMAIN t,
         NEW n \in DOMAIN t, NEW x \in DOMAIN t,
         \A m \in DOMAIN t \ {n} : Kids(t2, m) = Kids(t, m),
         Kids(t2, n) \subseteq Kids(t, n) \cup {x}, Ownerless(o, x)
  PROVE  Owning(t2, o)
BY DEF Owning, Parentless, Ownerless

-----------------------------------------------------------------------------
(* The end of an operation *)

(* What goes has its parent among what goes, or has neither parent nor      *)
(* owner.                                                                   *)
Goes(t, o, gone) ==
  \A m \in gone : \/ \E k \in gone \cap DOMAIN t : m \in Kids(t, k)
                  \/ Parentless(t, m) /\ Ownerless(o, m)

LEMMA FinishKeeps ==
  ASSUME NEW t, NEW o, NEW drop \in SUBSET DOMAIN o, NEW gone \in SUBSET DOMAIN t,
         Trees(t), Owning(t, o), Goes(t, o, gone),
         \A r \in Root : <<r>> \notin drop,
         Finish(t, o, drop, gone)
  PROVE  HeapInv'
<1> DEFINE dropped == {d \in drop : o[d].own # Null}
           dead == gone \cup UNION {Below(t, o[q].own) : q \in dropped}
           left == [q \in DOMAIN o \ drop |->
                      [o[q] EXCEPT !.ext = IF @ \in dead THEN Dangling ELSE @]]
           seen == ({left[q].own : q \in DOMAIN left} \cup {left[q].ext : q \in DOMAIN left})
                     \cap DOMAIN t
           kept == (UNION {Below(t, m) : m \in seen}) \ dead
           t2 == [n \in kept |-> t[n]]
<1>1. tree' = t2 /\ obj' = left
  BY DEF Finish
<1>2. /\ DOMAIN o \subseteq Path /\ \A r \in Root : <<r>> \in DOMAIN o
      /\ o \in [DOMAIN o -> [own : DOMAIN t \cup {Null}, ext : DOMAIN t \cup {Null, Dangling}]]
      /\ \A p, q \in DOMAIN o : o[p].own = o[q].own /\ o[p].own # Null => p = q
      /\ \A p \in DOMAIN o : Parentless(t, o[p].own)
      /\ Typed(t) /\ DOMAIN t \subseteq Node
  BY TreesTyped DEF Owning, Trees
<1>3. \A q \in dropped : q \in DOMAIN o /\ o[q].own \in DOMAIN t
  BY <1>2
<1>4. dead \subseteq DOMAIN t
  BY <1>3, <1>2, BelowClosed
<1>5. /\ DOMAIN left = DOMAIN o \ drop
      /\ \A q \in DOMAIN left :
           /\ left[q].own = o[q].own
           /\ left[q].ext = IF o[q].ext \in dead THEN Dangling ELSE o[q].ext
           /\ left[q] = [own |-> left[q].own, ext |-> left[q].ext]
  <2> HIDE DEF dead
  <2>1. ASSUME NEW q \in DOMAIN o
        PROVE  o[q] = [own |-> o[q].own, ext |-> o[q].ext]
    BY <1>2
  <2> QED
    BY <2>1
(* Of what is dead: its parent is dead too, or it has neither parent nor    *)
(* owner left.                                                              *)
<1>6. ASSUME NEW m \in dead
      PROVE  \/ \E k \in dead : m \in Kids(t, k)
             \/ Parentless(t, m) /\ \A q \in DOMAIN left : left[q].own # m
  <2>1. CASE m \in gone
    <3>1. CASE \E k \in gone \cap DOMAIN t : m \in Kids(t, k)
      BY <3>1
    <3>2. CASE Parentless(t, m) /\ Ownerless(o, m)
      BY <1>5, <3>2 DEF Ownerless
    <3> QED
      BY <2>1, <3>1, <3>2 DEF Goes
  <2>2. CASE m \notin gone
    <3>1. PICK q \in dropped : m \in Below(t, o[q].own)
      BY <2>2
    <3>2. CASE m = o[q].own
      BY <1>2, <1>5, <3>2
    <3>3. CASE m # o[q].own
      <4>1. \E k \in Below(t, o[q].own) : m \in Kids(t, k)
        BY <1>2, <1>3, <3>1, <3>3, BelowParent
      <4> QED
        BY <4>1
    <3> QED
      BY <3>2, <3>3
  <2> QED
    BY <2>1, <2>2
<1> HIDE DEF dead, left
<1>7. seen \subseteq DOMAIN t /\ seen \cap dead = {}
  <2> SUFFICES ASSUME NEW q \in DOMAIN left, NEW m \in dead,
                      m = left[q].own \/ (m = left[q].ext /\ m # Dangling)
               PROVE  FALSE
    <3>1. Dangling \notin DOMAIN t
      BY <1>2, BoundAssumption DEF Dangling, Node
    <3> QED
      BY <3>1
  <2>1. m # left[q].ext \/ m = Dangling
    BY <1>5
  <2>2. CASE m = left[q].own
    <3>1. Parentless(t, m)
      BY <1>2, <1>5, <2>2
    <3> QED
      BY <1>4, <1>6, <2>2, <3>1 DEF Parentless
  <2> QED
    BY <2>1, <2>2
<1> HIDE DEF seen
<1>7a. \A m : m \in kept <=> m \notin dead /\ \E q \in seen : m \in Below(t, q)
  OBVIOUS
<1> HIDE DEF kept
<1>8. kept \subseteq DOMAIN t
  BY <1>2, <1>7, <1>7a, BelowClosed
<1>9. seen \subseteq kept
  BY <1>2, <1>7, <1>7a, BelowClosed
<1>10. ASSUME NEW m \in kept, NEW k \in Kids(t, m)
       PROVE  k \in kept
  <2>1. PICK q \in seen : k \in Below(t, q)
    BY <1>2, <1>7, <1>7a, BelowClosed DEF Closed
  <2>2. m \in DOMAIN t /\ m \notin dead
    BY <1>7a, <1>8
  <2>3. k \notin dead
    <3> SUFFICES ASSUME k \in dead PROVE FALSE
      OBVIOUS
    <3>1. ~Parentless(t, k)
      BY <2>2 DEF Parentless
    <3>2. PICK j \in dead : k \in Kids(t, j)
      BY <1>6, <3>1
    <3>3. j = m
      BY <1>4, <2>2, <3>2 DEF Trees
    <3> QED
      BY <2>2, <3>3
  <2> QED
    BY <1>7a, <2>1, <2>3
<1>11. DOMAIN t2 = kept /\ \A m \in kept : t2[m] = t[m] /\ Kids(t2, m) = Kids(t, m)
  BY DEF Kids
<1>12. Typed(t2)
  <2> SUFFICES ASSUME NEW m \in kept PROVE t[m] \in ItemType(kept)
    BY <1>11 DEF Typed
  <2>1. m \in DOMAIN t /\ t[m] \in ItemType(DOMAIN t) /\ t[m].kids \in Seq(DOMAIN t)
    BY <1>2, <1>8, TypedIs
  <2>2. Range(t[m].kids) \subseteq kept
    BY <1>10 DEF Kids
  <2>3. t[m].kids \in Seq(kept)
    BY <2>1, <2>2, SeqInto
  <2> QED
    BY <2>1, <2>3 DEF ItemType
<1>13. Trees(t2)
  <2>1. \A m \in kept : IsInjective(t2[m].kids)
    BY <1>8, <1>11 DEF Trees
  <2> HIDE DEF t2
  <2> QED
    BY <1>8, <1>11, <1>12, <2>1, TreesShrink
<1>14. ASSUME NEW q \in DOMAIN left
       PROVE  /\ left[q].own \in kept \cup {Null}
              /\ left[q].ext \in kept \cup {Null, Dangling}
  <2>1. /\ left[q].own \in DOMAIN t \cup {Null}
        /\ left[q].ext \in DOMAIN t \cup {Null, Dangling}
    BY <1>2, <1>5
  <2>2. left[q].own \in DOMAIN t => left[q].own \in kept
    BY <1>9 DEF seen
  <2>3. left[q].ext \in DOMAIN t => left[q].ext \in kept
    BY <1>9 DEF seen
  <2> QED
    BY <2>1, <2>2, <2>3
<1>15. Owning(t2, left)
  <2>1. left \in [DOMAIN left -> [own : kept \cup {Null}, ext : kept \cup {Null, Dangling}]]
    <3>1. left = [q \in DOMAIN left |-> left[q]]
      BY DEF left
    <3>2. \A q \in DOMAIN left : left[q] \in [own : kept \cup {Null}, ext : kept \cup {Null, Dangling}]
      BY <1>5, <1>14
    <3> QED
      BY <3>1, <3>2
  <2>2. \A q \in DOMAIN left : Parentless(t2, left[q].own)
    BY <1>2, <1>5, <1>8, <1>11 DEF Parentless
  <2>3. DOMAIN left \subseteq Path /\ \A r \in Root : <<r>> \in DOMAIN left
    BY <1>2, <1>5
  <2>4. \A p, q \in DOMAIN left : left[p].own = left[q].own /\ left[p].own # Null => p = q
    BY <1>2, <1>5
  <2> HIDE DEF t2
  <2> QED
    BY <1>11, <2>1, <2>2, <2>3, <2>4 DEF Owning
<1> HIDE DEF t2, left
<1> QED
  BY <1>1, <1>13, <1>15, Zenon DEF HeapInv

-----------------------------------------------------------------------------
(* New nodes *)

LEMMA NodesFinite ==
  ASSUME NEW S \in SUBSET Node
  PROVE  IsFiniteSet(S) /\ Cardinality(S) \in Nat
<1>1. IsFiniteSet(Node)
  BY FS_Interval, BoundAssumption DEF Node
<1> QED
  BY <1>1, FS_Subset, FS_CardinalityType

(* What New and cJSON_Parse do to the heap: x is the root of a tree beside  *)
(* the others, which are as they were.                                      *)
Makes(t, t2, x) ==
  /\ Trees(t2) /\ DOMAIN t \subseteq DOMAIN t2 /\ x \in DOMAIN t2 \ DOMAIN t
  /\ \A m \in DOMAIN t : t2[m] = t[m] /\ Below(t2, m) = Below(t, m)
  /\ Parentless(t2, x) /\ Below(t2, x) \cap DOMAIN t = {}
  /\ \A m \in DOMAIN t2 \ DOMAIN t : Kids(t2, m) \cap DOMAIN t = {}

LEMMA Grown ==
  ASSUME NEW t, NEW t2, NEW F \in SUBSET Free(t), NEW x \in F, Trees(t),
         DOMAIN t2 = DOMAIN t \cup F, t2 = [m \in DOMAIN t2 |-> t2[m]],
         \A m \in DOMAIN t : t2[m] = t[m],
         \A f \in F : t2[f] \in ItemType(F) /\ IsInjective(t2[f].kids),
         \A f1, f2 \in F : \A k \in Kids(t2, f1) \cap Kids(t2, f2) : f1 = f2,
         \A f \in F : \A m \in Below(t2, f) : f \notin Kids(t2, m),
         \A f \in F : x \notin Kids(t2, f)
  PROVE  Makes(t, t2, x)
<1>1. /\ DOMAIN t \subseteq Node /\ Typed(t) /\ F \subseteq Node /\ F \cap DOMAIN t = {}
  BY TreesTyped DEF Trees, Free
<1>2. ASSUME NEW m \in DOMAIN t
      PROVE  t2[m] \in ItemType(DOMAIN t2) /\ Kids(t2, m) = Kids(t, m) /\ Kids(t, m) \subseteq DOMAIN t
  <2>1. t[m] \in ItemType(DOMAIN t) /\ t[m].kids \in Seq(DOMAIN t) /\ Kids(t, m) \subseteq DOMAIN t
    BY <1>1, TypedIs
  <2>2. t[m].kids \in Seq(DOMAIN t2)
    BY <2>1, SeqInto DEF Kids
  <2> QED
    BY <2>1, <2>2 DEF ItemType, Kids
<1>3. ASSUME NEW f \in F
      PROVE  t2[f] \in ItemType(DOMAIN t2) /\ Kids(t2, f) \subseteq F
  <2>1. t2[f] \in ItemType(F)
    OBVIOUS
  <2>2. t2[f].kids \in Seq(F)
    BY <2>1 DEF ItemType
  <2>3. Range(t2[f].kids) \subseteq F
    BY <2>2, SeqOver
  <2>4. t2[f].kids \in Seq(DOMAIN t2)
    BY <2>2, <2>3, SeqInto
  <2> QED
    BY <2>1, <2>3, <2>4 DEF ItemType, Kids
<1>4. Typed(t2)
  <2>1. \A m \in DOMAIN t2 : t2[m] \in ItemType(DOMAIN t2)
    BY <1>2, <1>3
  <2> QED
    BY <2>1 DEF Typed
<1>5. \A f \in F : Below(t2, f) \subseteq F
  BY <1>3, BelowLeast DEF Closed
<1>6. ASSUME NEW n \in DOMAIN t
      PROVE  Below(t2, n) = Below(t, n)
  <2>1. Below(t2, n) \subseteq Below(t, n)
    <3>1. n \in Below(t, n) /\ Below(t, n) \subseteq DOMAIN t /\ Closed(t, Below(t, n))
      BY <1>1, BelowClosed
    <3>2. Closed(t2, Below(t, n)) /\ Below(t, n) \in SUBSET DOMAIN t2
      BY <1>2, <3>1 DEF Closed
    <3> QED
      BY <3>1, <3>2, BelowLeast
  <2>2. Below(t, n) \subseteq Below(t2, n)
    <3> DEFINE S == Below(t2, n) \cap DOMAIN t
    <3>1. n \in Below(t2, n) /\ Closed(t2, Below(t2, n))
      BY <1>4, BelowClosed
    <3>2. S \in SUBSET DOMAIN t /\ n \in S /\ Closed(t, S)
      BY <1>2, <3>1 DEF Closed
    <3>3. Below(t, n) \subseteq S
      BY <3>2, BelowLeast
    <3> QED
      BY <3>3
  <2> QED
    BY <2>1, <2>2
<1>7. Trees(t2)
  <2>1. \A n \in DOMAIN t2 : IsInjective(t2[n].kids)
    BY DEF Trees
  <2>2. ASSUME NEW m1 \in DOMAIN t2, NEW m2 \in DOMAIN t2, NEW n \in Kids(t2, m1) \cap Kids(t2, m2)
        PROVE  m1 = m2
    <3>1. CASE n \in F
      BY <1>1, <1>2, <2>2, <3>1
    <3>2. CASE n \notin F
      <4>1. m1 \in DOMAIN t /\ m2 \in DOMAIN t
        BY <1>3, <3>2
      <4> QED
        BY <1>2, <4>1 DEF Trees
    <3> QED
      BY <3>1, <3>2
  <2>3. ASSUME NEW n \in DOMAIN t2, NEW m \in Below(t2, n)
        PROVE  n \notin Kids(t2, m)
    <3>1. CASE n \in F
      BY <3>1
    <3>2. CASE n \in DOMAIN t
      <4>1. m \in Below(t, n) /\ m \in DOMAIN t
        BY <1>1, <1>6, <3>2, BelowClosed
      <4> QED
        BY <1>2, <3>2, <4>1 DEF Trees
    <3> QED
      BY <3>1, <3>2
  <2>4. DOMAIN t2 \subseteq Node
    BY <1>1
  <2> QED
    BY <1>4, <2>1, <2>2, <2>3, <2>4 DEF Trees, Typed
<1>8. Parentless(t2, x)
  BY <1>1, <1>2 DEF Parentless
<1>9. \A m \in DOMAIN t2 \ DOMAIN t : Kids(t2, m) \cap DOMAIN t = {}
  BY <1>1, <1>3
<1> QED
  BY <1>1, <1>5, <1>6, <1>7, <1>8, <1>9 DEF Makes

(* Objects do not notice.                                                   *)
LEMMA OwningMakes ==
  ASSUME NEW t, NEW t2, NEW x, NEW o, Makes(t, t2, x), Trees(t), Owning(t, o)
  PROVE  Owning(t2, o) /\ Ownerless(o, x)
<1>1. /\ DOMAIN t \subseteq DOMAIN t2 /\ x \in DOMAIN t2 \ DOMAIN t /\ DOMAIN t2 \subseteq Node
      /\ Typed(t2) /\ \A m \in DOMAIN t : Kids(t2, m) = Kids(t, m)
  BY TreesTyped DEF Makes, Trees, Kids
<1>2. x # Null /\ Null \notin DOMAIN t2
  BY <1>1 DEF Node, Null
<1>3. \A p \in DOMAIN o : o[p].own \in DOMAIN t \cup {Null}
  BY DEF Owning
<1>4. ASSUME NEW p \in DOMAIN o, NEW m \in DOMAIN t2
      PROVE  o[p].own \notin Kids(t2, m)
  <2>1. CASE m \in DOMAIN t
    BY <1>1, <2>1 DEF Owning, Parentless
  <2>2. CASE m \notin DOMAIN t
    <3>1. Kids(t2, m) \subseteq DOMAIN t2 /\ Kids(t2, m) \cap DOMAIN t = {}
      BY <1>1, <2>2, TypedIs DEF Makes
    <3> QED
      BY <1>2, <1>3, <3>1
  <2> QED
    BY <2>1, <2>2
<1>5. o \in [DOMAIN o -> [own : DOMAIN t2 \cup {Null}, ext : DOMAIN t2 \cup {Null, Dangling}]]
  <2>1. o \in [DOMAIN o -> [own : DOMAIN t \cup {Null}, ext : DOMAIN t \cup {Null, Dangling}]]
    BY DEF Owning
  <2> QED
    BY <1>1, <2>1
<1> QED
  BY <1>1, <1>2, <1>3, <1>4, <1>5 DEF Owning, Parentless, Ownerless

LEMMA WithMakes ==
  ASSUME NEW t, Trees(t), Free(t) # {}, NEW kind \in {"object", "array", "value"}
  PROVE  /\ Makes(t, With(t, kind), New(t))
         /\ DOMAIN With(t, kind) = DOMAIN t \cup {New(t)} /\ New(t) \in Free(t)
         /\ With(t, kind)[New(t)].kind = kind
<1> DEFINE x == New(t)
           t2 == With(t, kind)
<1>1. x \in Free(t)
  BY DEF New
<1>2. x \notin DOMAIN t
  BY <1>1 DEF Free
<1> HIDE DEF x
<1>3. /\ DOMAIN t2 = DOMAIN t \cup {x} /\ t2 = [m \in DOMAIN t2 |-> t2[m]]
      /\ t2[x] = Item(kind) /\ \A m \in DOMAIN t : t2[m] = t[m]
  BY <1>2 DEF With, x
<1> HIDE DEF t2
<1>4. t2[x] \in ItemType({x}) /\ IsInjective(t2[x].kids) /\ Kids(t2, x) = {} /\ t2[x].kind = kind
  BY <1>3 DEF Item, ItemType, IsInjective, Kids, Range
<1>5. \A m \in Below(t2, x) : x \notin Kids(t2, m)
  <2>1. Below(t2, x) \subseteq {x}
    <3>1. {x} \in SUBSET DOMAIN t2 /\ Closed(t2, {x})
      BY <1>3, <1>4 DEF Closed
    <3> QED
      BY <3>1, BelowLeast
  <2> QED
    BY <1>4, <2>1
<1>6. Makes(t, t2, x)
  <2> DEFINE F == {x}
  <2>1. F \in SUBSET Free(t) /\ x \in F /\ DOMAIN t2 = DOMAIN t \cup F
    BY <1>1, <1>3
  <2>2. /\ \A f \in F : t2[f] \in ItemType(F) /\ IsInjective(t2[f].kids)
        /\ \A f1, f2 \in F : \A k \in Kids(t2, f1) \cap Kids(t2, f2) : f1 = f2
        /\ \A f \in F : \A m \in Below(t2, f) : f \notin Kids(t2, m)
        /\ \A f \in F : x \notin Kids(t2, f)
    BY <1>4, <1>5
  <2> HIDE DEF F
  <2> QED
    BY <1>3, <2>1, <2>2, Grown
<1> QED
  BY <1>1, <1>3, <1>4, <1>6 DEF t2, x

(* There are distinct nodes for all of a text when there is room for them.  *)
LEMMA TwinsAre ==
  ASSUME NEW t, NEW text, DOMAIN text \in SUBSET Node,
         Cardinality(DOMAIN text) <= Cardinality(Free(t))
  PROVE  Twins(t, text) \in [DOMAIN text -> Free(t)] /\ IsInjective(Twins(t, text))
<1> DEFINE S == DOMAIN text
           F == Free(t)
           b == Cardinality(S)
           f == Cardinality(F)
<1>1. /\ IsFiniteSet(S) /\ IsFiniteSet(F) /\ b \in Nat /\ f \in Nat /\ b <= f
  BY NodesFinite DEF Free
<1>2. ExistsBijection(1 .. b, S) /\ ExistsBijection(1 .. f, F)
  BY <1>1, FS_CardinalityType
<1> HIDE DEF S, F, b, f
<1>3. PICK g \in [1 .. b -> S] : \A m \in S : \E i \in 1 .. b : g[i] = m
  BY <1>2 DEF ExistsBijection, Bijection, Injection, Surjection
<1>4. PICK h \in [1 .. f -> F] : IsInjective(h)
  BY <1>2 DEF ExistsBijection, Bijection, Injection
<1> DEFINE at == [m \in S |-> CHOOSE i \in 1 .. b : g[i] = m]
           twin == [m \in S |-> h[at[m]]]
<1>5. \A m \in S : at[m] \in 1 .. b /\ g[at[m]] = m /\ at[m] \in 1 .. f
  BY <1>1, <1>3
<1> HIDE DEF at
<1>6. twin \in [S -> F] /\ IsInjective(twin)
  BY <1>4, <1>5 DEF IsInjective
<1> QED
  BY <1>6 DEF Twins, S, F

LEMMA ListIs ==
  ASSUME NEW S, NEW n \in Nat, NEW f \in [1 .. n -> S]
  PROVE  f \in Seq(S)
OBVIOUS

(* The copy of a tree is a tree beside the others.                          *)
LEMMA BuildMakes ==
  ASSUME NEW t, Trees(t), NEW n \in DOMAIN t,
         Cardinality(Below(t, n)) <= Cardinality(Free(t))
  PROVE  Makes(t, Build(t, Text(t, n), n).t, Build(t, Text(t, n), n).x)
<1> DEFINE B == Below(t, n)
           text == Text(t, n)
           twin == Twins(t, text)
           F == Range(twin)
           x == twin[n]
           t2 == Build(t, text, n).t
<1>1. Typed(t) /\ DOMAIN t \subseteq Node /\ n \in B /\ B \subseteq DOMAIN t /\ Closed(t, B)
  BY TreesTyped, BelowClosed DEF Trees
<1>2. /\ DOMAIN text = B
      /\ \A m \in B : text[m].kids = t[m].kids /\ text[m] \in ItemType(DOMAIN t)
  <2>1. \A m \in B : t[m] \in ItemType(DOMAIN t)
    BY <1>1, TypedIs
  <2> QED
    BY <2>1 DEF Text, ItemType
<1>3. twin \in [B -> Free(t)] /\ IsInjective(twin)
  BY <1>1, <1>2, TwinsAre
<1> HIDE DEF text
<1>4. /\ DOMAIN t2 = DOMAIN t \cup F /\ t2 = [m \in DOMAIN t2 |-> t2[m]]
      /\ \A m \in DOMAIN t : t2[m] = t[m]
      /\ \A m \in B : t2[twin[m]] = Twin(text[m], twin)
      /\ Build(t, text, n).x = x
  <2> DEFINE Original(f) == CHOOSE m \in DOMAIN text : twin[m] = f
  <2>1. t2 = [f \in DOMAIN t \cup F |-> IF f \in DOMAIN t THEN t[f] ELSE Twin(text[Original(f)], twin)]
    BY DEF Build
  <2>2. \A m \in B : Original(twin[m]) = m
    BY <1>2, <1>3 DEF IsInjective
  <2>3. \A m \in B : twin[m] \in F /\ twin[m] \notin DOMAIN t
    BY <1>3 DEF Range, Free
  <2>4. Build(t, text, n).x = x
    BY DEF Build
  <2> HIDE DEF Original, F, twin, t2
  <2> QED
    BY <2>1, <2>2, <2>3, <2>4
<1> HIDE DEF twin, t2
<1>5. F \in SUBSET Free(t) /\ x \in F /\ \A f \in F : \E m \in B : f = twin[m]
  BY <1>1, <1>3 DEF Range
<1>6. ASSUME NEW m \in B
      PROVE  /\ t2[twin[m]] \in ItemType(F) /\ IsInjective(t2[twin[m]].kids)
             /\ \A k \in Kids(t2, twin[m]) : \E j \in Kids(t, m) \cap B : k = twin[j]
  <2> DEFINE s == t[m].kids
             s2 == [i \in DOMAIN s |-> twin[s[i]]]
  <2>1. s \in Seq(DOMAIN t) /\ IsInjective(s) /\ Range(s) = Kids(t, m) /\ Range(s) \subseteq B
    BY <1>1, TypedIs DEF Trees, Kids, Closed
  <2>2. s \in Seq(B) /\ DOMAIN s = 1 .. Len(s) /\ Len(s) \in Nat
    BY <2>1, SeqInto, SeqOver
  <2>3. \A i \in DOMAIN s : s[i] \in B /\ s2[i] = twin[s[i]] /\ s2[i] \in F
    BY <1>3, <2>2, SeqElement DEF Range
  <2>4. s2 \in Seq(F)
    <3>1. s2 \in [1 .. Len(s) -> F]
      BY <2>2, <2>3
    <3> HIDE DEF s2
    <3> QED
      BY <2>2, <3>1, ListIs
  <2>5. IsInjective(s2)
    <3> SUFFICES ASSUME NEW i \in DOMAIN s, NEW j \in DOMAIN s, s2[i] = s2[j] PROVE i = j
      BY DEF IsInjective
    <3>1. s[i] = s[j]
      BY <1>3, <2>3 DEF IsInjective
    <3> QED
      BY <2>1, <3>1 DEF IsInjective
  <2>6. \A k \in Range(s2) : \E j \in Range(s) \cap B : k = twin[j]
    BY <2>3 DEF Range
  <2>7. /\ t2[twin[m]].kids = s2
        /\ t2[twin[m]].kind = text[m].kind /\ t2[twin[m]].name = text[m].name
        /\ t2[twin[m]] = [kind |-> text[m].kind, name |-> text[m].name, kids |-> s2]
    <3>1. text[m].kids = s /\ text[m] \in ItemType(DOMAIN t)
      BY <1>2
    <3>2. t2[twin[m]] = [text[m] EXCEPT !.kids = [i \in DOMAIN text[m].kids |-> twin[text[m].kids[i]]]]
      BY <1>4 DEF Twin
    <3> HIDE DEF s
    <3> QED
      BY <3>1, <3>2 DEF ItemType
  <2>8. text[m] \in ItemType(DOMAIN t)
    BY <1>2
  <2> HIDE DEF s, s2
  <2>9. t2[twin[m]] \in ItemType(F)
    BY <2>4, <2>7, <2>8 DEF ItemType
  <2> QED
    BY <2>1, <2>5, <2>6, <2>7, <2>9 DEF Kids
<1>7. \A f \in F : t2[f] \in ItemType(F) /\ IsInjective(t2[f].kids)
  BY <1>5, <1>6
<1>8. ASSUME NEW f1 \in F, NEW f2 \in F, NEW k \in Kids(t2, f1) \cap Kids(t2, f2)
      PROVE  f1 = f2
  <2>1. PICK m1 \in B, m2 \in B : f1 = twin[m1] /\ f2 = twin[m2]
    BY <1>5
  <2>2. PICK j1 \in Kids(t, m1) \cap B : k = twin[j1]
    BY <1>6, <2>1
  <2>3. PICK j2 \in Kids(t, m2) \cap B : k = twin[j2]
    BY <1>6, <2>1
  <2>4. j1 = j2
    BY <1>3, <2>2, <2>3 DEF IsInjective
  <2>5. m1 = m2
    BY <1>1, <2>2, <2>3, <2>4 DEF Trees
  <2> QED
    BY <2>1, <2>5
<1>9. ASSUME NEW f \in F, NEW k \in Below(t2, f), f \in Kids(t2, k)
      PROVE  FALSE
  <2>1. PICK m \in B : f = twin[m]
    BY <1>5
  <2> DEFINE S == {twin[q] : q \in Below(t, m)}
  <2>2. m \in Below(t, m) /\ Below(t, m) \subseteq B /\ Closed(t, Below(t, m))
    BY <1>1, BelowClosed, BelowLeast
  <2>3. S \in SUBSET DOMAIN t2 /\ f \in S
    BY <1>3, <1>4, <2>1, <2>2 DEF Range
  <2>4. Closed(t2, S)
    <3> SUFFICES ASSUME NEW q \in Below(t, m), NEW j \in Kids(t2, twin[q])
                 PROVE  j \in S
      BY DEF Closed
    <3>1. PICK i \in Kids(t, q) : j = twin[i]
      BY <1>6, <2>2
    <3> QED
      BY <2>2, <3>1 DEF Closed
  <2>5. PICK q \in Below(t, m) : k = twin[q]
    BY <1>9, <2>3, <2>4, BelowLeast
  <2>6. PICK i \in Kids(t, q) \cap B : f = twin[i]
    BY <1>6, <1>9, <2>2, <2>5
  <2>7. i = m
    BY <1>3, <2>1, <2>6 DEF IsInjective
  <2> QED
    BY <1>1, <2>5, <2>6, <2>7 DEF Trees
<1>10. ASSUME NEW f \in F, x \in Kids(t2, f)
       PROVE  FALSE
  <2>1. PICK m \in B : f = twin[m]
    BY <1>5
  <2>2. PICK i \in Kids(t, m) \cap B : x = twin[i]
    BY <1>6, <1>10, <2>1
  <2>3. i = n
    BY <1>1, <1>3, <2>2 DEF IsInjective
  <2> QED
    BY <1>1, <2>1, <2>2, <2>3 DEF Trees
<1> HIDE DEF F, x
<1>11. Makes(t, t2, x)
  BY <1>4, <1>5, <1>7, <1>8, <1>9, <1>10, Grown
<1> QED
  BY <1>4, <1>11 DEF t2, text

-----------------------------------------------------------------------------
(* The other variable, what an object stands for, and what Room gives       *)

LEMMA OtherIs ==
  ASSUME Owning(tree, obj), NEW p \in DOMAIN obj
  PROVE  Other(p) \in DOMAIN obj /\ Other(p) # p
<1>1. p \in Path /\ p[1] \in Root
  BY DEF Owning, Path
<1>2. \E r \in Root : r # p[1]
  <2> SUFFICES ASSUME \A r \in Root : r = p[1] PROVE FALSE
    OBVIOUS
  <2>1. Root = {p[1]}
    BY <1>1
  <2>2. Cardinality(Root) = 1
    BY <2>1, FS_Singleton
  <2> QED
    BY <2>2, RootAssumption
<1> DEFINE s == CHOOSE r \in Root : r # p[1]
<1>3. s \in Root /\ s # p[1]
  BY <1>2
<1> HIDE DEF s
<1>4. <<s>> \in DOMAIN obj /\ <<s>>[1] = s
  BY <1>3 DEF Owning
<1>5. Other(p) = <<s>>
  BY DEF Other, s
<1> QED
  BY <1>3, <1>4, <1>5

LEMMA FocusIs ==
  ASSUME NEW t, NEW o, Owning(t, o), NEW p \in DOMAIN o
  PROVE  /\ FocusIn(o, p) \in DOMAIN t \cup {Null, Dangling}
         /\ o[p].own \in DOMAIN t \cup {Null}
         /\ o[p] = [own |-> o[p].own, ext |-> o[p].ext]
BY DEF Owning, FocusIn

LEMMA NoNull ==
  ASSUME NEW t, Trees(t)
  PROVE  Null \notin DOMAIN t /\ Dangling \notin DOMAIN t
BY BoundAssumption DEF Trees, Node, Null, Dangling

LEMMA FreeIs ==
  ASSUME NEW t
  PROVE  /\ IsFiniteSet(Free(t)) /\ Cardinality(Free(t)) \in Nat
         /\ Cardinality(Free(t)) >= 1 => Free(t) # {}
<1>1. Free(t) \in SUBSET Node
  BY DEF Free
<1>2. IsFiniteSet(Free(t)) /\ Cardinality(Free(t)) \in Nat
  BY <1>1, NodesFinite
<1> QED
  BY <1>2, FS_EmptySet

-----------------------------------------------------------------------------
(* Before an item is made                                                   *)

(* What an operation starts from: the heap and the objects as they are, but *)
(* for the tree that was opened for p.                                      *)
Opens(st, p) ==
  /\ Trees(st.t) /\ Owning(st.t, st.o)
  /\ p \in DOMAIN obj /\ DOMAIN st.o = DOMAIN obj
  /\ FocusIn(st.o, p) \in DOMAIN st.t
  /\ Focus(p) # Null => FocusIn(st.o, p) = Focus(p)
  /\ Focus(p) = Null => FocusIn(st.o, p) \notin DOMAIN tree
  /\ DOMAIN tree \subseteq DOMAIN st.t
  /\ \A m \in DOMAIN tree : st.t[m] = tree[m] /\ Below(st.t, m) = Below(tree, m)
  /\ \A q \in DOMAIN obj : q # p => st.o[q] = obj[q]

LEMMA HereOpens ==
  ASSUME HeapInv, NEW p \in DOMAIN obj, Focus(p) \in DOMAIN tree
  PROVE  Opens(Here, p)
<1>1. Here.t = tree /\ Here.o = obj
  BY DEF Here
<1>2. Focus(p) # Null
  BY NoNull DEF HeapInv
<1> QED
  BY <1>1, <1>2 DEF Opens, HeapInv, Focus

LEMMA OpenedOpens ==
  ASSUME HeapInv, NEW p \in DOMAIN obj, Focus(p) # Dangling,
         NEW kind \in {"object", "array"}, NEW n \in Nat, Room(1 + n)
  PROVE  Opens(Opened(p, kind), p) /\ Cardinality(Free(Opened(p, kind).t)) >= n
<1> DEFINE st == Opened(p, kind)
<1>1. Trees(tree) /\ Owning(tree, obj)
  BY DEF HeapInv
<1>2. /\ IsFiniteSet(Free(tree)) /\ Cardinality(Free(tree)) \in Nat
      /\ Cardinality(Free(tree)) >= 1 + n /\ Free(tree) # {}
  BY FreeIs DEF Room
<1>3. CASE Focus(p) # Null
  <2>1. st = Here
    BY <1>3 DEF Opened, Here
  <2>2. Focus(p) \in DOMAIN tree
    BY <1>1, <1>3, FocusIs DEF Focus
  <2>3. Here.t = tree
    BY DEF Here
  <2> QED
    BY <1>2, <2>1, <2>2, <2>3, HereOpens
<1>4. CASE Focus(p) = Null
  <2> DEFINE x == New(tree)
             t2 == With(tree, kind)
             o2 == [obj EXCEPT ![p].own = x]
  <2>1. st.t = t2 /\ st.o = o2
    BY <1>4 DEF Opened
  <2>2. /\ Makes(tree, t2, x) /\ DOMAIN t2 = DOMAIN tree \cup {x} /\ x \in Free(tree)
    BY <1>1, <1>2, WithMakes
  <2> HIDE DEF x, t2
  <2>3. Owning(t2, obj) /\ Ownerless(obj, x)
    BY <1>1, <2>2, OwningMakes
  <2>4. /\ DOMAIN o2 = DOMAIN obj /\ o2[p].own = x
        /\ \A q \in DOMAIN obj : q # p => o2[q] = obj[q]
        /\ Owning(t2, o2)
    <3>1. obj \in [DOMAIN obj -> [own : DOMAIN t2 \cup {Null}, ext : DOMAIN t2 \cup {Null, Dangling}]]
      BY <2>3 DEF Owning
    <3>2. x \in DOMAIN t2 /\ Parentless(t2, x)
      BY <2>2 DEF Makes
    <3>3. /\ o2 \in [DOMAIN obj -> [own : DOMAIN t2 \cup {Null}, ext : DOMAIN t2 \cup {Null, Dangling}]]
          /\ o2[p].own = x
          /\ \A q \in DOMAIN obj : q # p => o2[q] = obj[q]
      BY <3>1, <3>2
    <3> HIDE DEF o2
    <3> QED
      BY <2>3, <3>2, <3>3 DEF Owning, Ownerless
  <2> HIDE DEF o2
  <2>5. x # Null /\ x \notin DOMAIN tree
    BY <2>2 DEF Free, Node, Null
  <2>6. FocusIn(o2, p) = x
    BY <2>4, <2>5 DEF FocusIn
  <2>7. Opens(st, p)
    BY <1>4, <2>1, <2>2, <2>4, <2>5, <2>6 DEF Opens, Makes
  <2>8. Cardinality(Free(t2)) >= n
    <3>1. Free(t2) = Free(tree) \ {x}
      BY <2>2 DEF Free
    <3>2. Cardinality(Free(t2)) = Cardinality(Free(tree)) - 1
      BY <1>2, <2>2, <3>1, FS_RemoveElement
    <3> QED
      BY <1>2, <3>2
  <2> QED
    BY <2>1, <2>7, <2>8
<1> QED
  BY <1>3, <1>4

-----------------------------------------------------------------------------
(* The item that is made: nothing, or the root of a tree that nobody owns   *)
(* and that the node p stands for is not in.                                *)

Loose(t, o, n, x) ==
  /\ n \in DOMAIN t /\ x \in DOMAIN t
  /\ Parentless(t, x) /\ Ownerless(o, x) /\ n \notin Below(t, x)

MadeFor(st, made, p) ==
  /\ Trees(made.t) /\ Owning(made.t, made.o) /\ DOMAIN made.o = DOMAIN obj
  /\ DOMAIN st.t \subseteq DOMAIN made.t
  /\ \A m \in DOMAIN st.t : made.t[m] = st.t[m] /\ Below(made.t, m) = Below(st.t, m)
  /\ FocusIn(made.o, p) = FocusIn(st.o, p)
  /\ made.x # Null => Loose(made.t, made.o, FocusIn(made.o, p), made.x)

LEMMA NewIsMade ==
  ASSUME NEW st, NEW p, Opens(st, p), NEW t2, NEW x, Makes(st.t, t2, x),
         NEW made, made.t = t2, made.o = st.o, made.x = x
  PROVE  MadeFor(st, made, p)
<1>1. Owning(t2, st.o) /\ Ownerless(st.o, x)
  BY OwningMakes DEF Opens
<1>2. /\ FocusIn(st.o, p) \in DOMAIN st.t /\ DOMAIN st.o = DOMAIN obj
      /\ DOMAIN st.t \subseteq DOMAIN t2 /\ Trees(t2)
      /\ x \in DOMAIN t2 /\ Parentless(t2, x) /\ FocusIn(st.o, p) \notin Below(t2, x)
      /\ \A m \in DOMAIN st.t : t2[m] = st.t[m] /\ Below(t2, m) = Below(st.t, m)
  BY DEF Opens, Makes
<1> QED
  BY <1>1, <1>2 DEF MadeFor, Loose

LEMMA FreshIsMade ==
  ASSUME NEW st, NEW p, Opens(st, p), Free(st.t) # {},
         NEW kind \in {"object", "array", "value"}
  PROVE  MadeFor(st, Fresh(st, kind), p)
<1>1. Makes(st.t, With(st.t, kind), New(st.t))
  BY WithMakes DEF Opens
<1> DEFINE made == Fresh(st, kind)
<1>2. made.t = With(st.t, kind) /\ made.o = st.o /\ made.x = New(st.t)
  BY DEF Fresh
<1> HIDE DEF made
<1>3. MadeFor(st, made, p)
  BY <1>1, <1>2, NewIsMade
<1> QED
  BY <1>3 DEF made

LEMMA CopiedIsMade ==
  ASSUME HeapInv, NEW st, NEW p, Opens(st, p), MayCopy(p),
         Cardinality(Free(st.t)) >= Weight(Other(p))
  PROVE  MadeFor(st, Copied(st, p), p)
<1> DEFINE from == FocusIn(st.o, Other(p))
           made == Copied(st, p)
<1>1. Trees(tree) /\ Owning(tree, obj) /\ p \in DOMAIN obj
  BY DEF HeapInv, Opens
<1>2. Other(p) \in DOMAIN obj /\ Other(p) # p
  BY <1>1, OtherIs
<1>3. from = Focus(Other(p))
  BY <1>2 DEF Opens, FocusIn, Focus
<1>4. from \in DOMAIN tree \cup {Null} /\ from # Dangling
  BY <1>1, <1>2, <1>3, FocusIs DEF Focus, MayCopy
<1>5. CASE from = Null
  <2>1. made.t = st.t /\ made.o = st.o /\ made.x = Null
    BY <1>5 DEF Copied
  <2> HIDE DEF made
  <2>2. MadeFor(st, made, p)
    BY <2>1 DEF MadeFor, Opens
  <2> QED
    BY <2>2 DEF made
<1>6. CASE from # Null
  <2>1. from \in DOMAIN tree /\ from \in DOMAIN st.t /\ Below(st.t, from) = Below(tree, from)
    BY <1>4, <1>6 DEF Opens
  <2>2. Weight(Other(p)) = Cardinality(Below(st.t, from))
    BY <1>3, <2>1 DEF Weight
  <2> DEFINE copy == Build(st.t, Text(st.t, from), from)
  <2>3. Below(st.t, from) \in SUBSET Node
    BY <2>1, BelowClosed, TreesTyped DEF Opens, Trees
  <2>4. Cardinality(Below(st.t, from)) <= Cardinality(Free(st.t))
    BY <2>2, <2>3, NodesFinite, FreeIs
  <2>5. Makes(st.t, copy.t, copy.x)
    <3> HIDE DEF from
    <3> QED
      BY <2>1, <2>4, BuildMakes DEF Opens
  <2>6. made.t = copy.t /\ made.o = st.o /\ made.x = copy.x
    BY <1>6 DEF Copied
  <2> HIDE DEF made, copy
  <2>7. MadeFor(st, made, p)
    BY <2>5, <2>6, NewIsMade
  <2> QED
    BY <2>7 DEF made
<1> QED
  BY <1>5, <1>6

LEMMA MovedIsMade ==
  ASSUME HeapInv, NEW st, NEW p, Opens(st, p), MayMove(p)
  PROVE  MadeFor(st, Moved(st, p), p)
<1> DEFINE q == Other(p)
           made == Moved(st, p)
           o2 == [st.o EXCEPT ![q].own = Null]
           x == st.o[q].own
<1>1. Trees(tree) /\ Owning(tree, obj) /\ p \in DOMAIN obj
  BY DEF HeapInv, Opens
<1>2. q \in DOMAIN obj /\ q # p
  BY <1>1, OtherIs
<1>3. made.t = st.t /\ made.o = o2 /\ made.x = x
  BY DEF Moved
<1> HIDE DEF made, q
<1>4. /\ Trees(st.t) /\ Owning(st.t, st.o) /\ DOMAIN st.o = DOMAIN obj
      /\ FocusIn(st.o, p) \in DOMAIN st.t
      /\ st.o[q] = obj[q]
  BY <1>2 DEF Opens
<1>5. x \in DOMAIN tree \cup {Null}
  BY <1>1, <1>2, <1>4, FocusIs
<1>6. Null \notin DOMAIN st.t /\ Null \notin DOMAIN tree
  BY <1>1, <1>4, NoNull
<1>7. /\ DOMAIN o2 = DOMAIN obj /\ o2[q].own = Null
      /\ \A w \in DOMAIN obj : w # q => o2[w] = st.o[w]
      /\ o2 \in [DOMAIN obj -> [own : DOMAIN st.t \cup {Null}, ext : DOMAIN st.t \cup {Null, Dangling}]]
  <2>1. st.o \in [DOMAIN obj -> [own : DOMAIN st.t \cup {Null}, ext : DOMAIN st.t \cup {Null, Dangling}]]
    BY <1>4 DEF Owning
  <2> QED
    BY <1>2, <2>1
<1> HIDE DEF o2
<1>8. Owning(st.t, o2)
  <2>1. Parentless(st.t, Null)
    <3>1. \A m \in DOMAIN st.t : Kids(st.t, m) \subseteq DOMAIN st.t
      BY <1>4, TypedIs, TreesTyped
    <3> QED
      BY <1>6, <3>1 DEF Parentless
  <2> QED
    BY <1>2, <1>4, <1>7, <2>1 DEF Owning
<1>9. FocusIn(o2, p) = FocusIn(st.o, p)
  BY <1>1, <1>2, <1>7 DEF FocusIn
<1>10. ASSUME x # Null
       PROVE  Loose(st.t, o2, FocusIn(o2, p), x)
  <2>1. x \in DOMAIN tree /\ x \in DOMAIN st.t /\ Below(st.t, x) = Below(tree, x)
    BY <1>5, <1>10 DEF Opens
  <2>2. Parentless(st.t, x)
    BY <1>2, <1>4 DEF Owning
  <2>3. Ownerless(o2, x)
    BY <1>2, <1>4, <1>7, <1>10 DEF Owning, Ownerless
  <2>4. Focus(p) \notin Below(tree, x) /\ Below(tree, x) \subseteq DOMAIN tree
    <3>1. x = obj[Other(p)].own
      BY <1>4 DEF q
    <3> QED
      BY <1>1, <1>10, <2>1, <3>1, BelowClosed, TreesTyped DEF MayMove
  <2>5. FocusIn(st.o, p) \notin Below(tree, x)
    <3>1. CASE Focus(p) = Null
      BY <2>4, <3>1 DEF Opens
    <3>2. CASE Focus(p) # Null
      BY <2>4, <3>2 DEF Opens
    <3> QED
      BY <3>1, <3>2
  <2> QED
    BY <1>4, <1>9, <2>1, <2>2, <2>3, <2>5 DEF Loose
<1>11. MadeFor(st, made, p)
  <2> HIDE DEF x
  <2> QED
    BY <1>3, <1>4, <1>7, <1>8, <1>9, <1>10 DEF MadeFor
<1> QED
  BY <1>11 DEF made

-----------------------------------------------------------------------------
(* What the caches lose                                                     *)

(* Objects that may be deleted: none of them is a variable of the caller.   *)
Droppable(drop) == drop \subseteq DOMAIN obj /\ \A r \in Root : <<r>> \notin drop

LEMMA CachedDrops ==
  ASSUME Owning(tree, obj), NEW p \in DOMAIN obj, NEW slot \in Key \cup Index
  PROVE  Droppable(Cached(p, slot))
<1>1. \A q \in DOMAIN obj : q \in Seq(Root \cup Key \cup Index) /\ q # <<>>
  BY DEF Owning, Path
<1>2. p \in Seq(Root \cup Key \cup Index) /\ p # <<>>
  BY <1>1
<1>3. Len(Append(p, slot)) >= 2
  BY <1>2
<1>4. ASSUME NEW r \in Root
      PROVE  ~IsPrefix(Append(p, slot), <<r>>)
  BY <1>2, <1>3 DEF IsPrefix
<1> QED
  BY <1>4 DEF Droppable, Cached

LEMMA FromDrops ==
  ASSUME Owning(tree, obj), NEW p \in DOMAIN obj, NEW i
  PROVE  Droppable(CachedFrom(p, i))
<1>1. \A j \in Index : Droppable(Cached(p, j))
  BY CachedDrops
<1> QED
  BY <1>1 DEF Droppable, CachedFrom

LEMMA AllDrops ==
  ASSUME Owning(tree, obj), NEW p \in DOMAIN obj
  PROVE  Droppable(AllCached(p))
<1>1. \A k \in Key : Droppable(Cached(p, k))
  BY CachedDrops
<1>2. Droppable(CachedFrom(p, 0))
  BY FromDrops
<1> QED
  BY <1>1, <1>2 DEF Droppable, AllCached, CachedKeys

LEMMA NoneDrops == Droppable({})
BY DEF Droppable

-----------------------------------------------------------------------------
(* Linking the item                                                         *)

LEMMA NothingGoes ==
  ASSUME NEW t, NEW o, NEW drop, Trees(t), Owning(t, o), DOMAIN o = DOMAIN obj,
         Droppable(drop), Finish(t, o, drop, {})
  PROVE  HeapInv'
<1>1. drop \in SUBSET DOMAIN o /\ {} \in SUBSET DOMAIN t /\ \A r \in Root : <<r>> \notin drop
  BY DEF Droppable
<1>2. Goes(t, o, {})
  BY DEF Goes
<1> QED
  BY <1>1, <1>2, FinishKeeps

(* What a change of the list of n, to s, makes of a heap t; names may change *)
(* with it.                                                                  *)
Relinks(t, t2, n, s) ==
  /\ DOMAIN t2 = DOMAIN t /\ t2 = [m \in DOMAIN t2 |-> t2[m]]
  /\ \A m \in DOMAIN t : \E name \in Key \cup {NoKey} :
       t2[m] = [kind |-> t[m].kind, name |-> name, kids |-> IF m = n THEN s ELSE t[m].kids]

Items(t) ==
  \A m \in DOMAIN t : /\ t[m].name \in Key \cup {NoKey}
                      /\ t[m] = [kind |-> t[m].kind, name |-> t[m].name, kids |-> t[m].kids]

LEMMA ItemsIs ==
  ASSUME NEW t, Trees(t)
  PROVE  Items(t)
<1>1. \A m \in DOMAIN t : t[m] \in ItemType(DOMAIN t)
  BY TreesTyped, TypedIs
<1> QED
  BY <1>1 DEF ItemType, Items

LEMMA SetKids ==
  ASSUME NEW t, Items(t), NEW n \in DOMAIN t, NEW s
  PROVE  Relinks(t, [t EXCEPT ![n].kids = s], n, s)
<1> DEFINE t2 == [t EXCEPT ![n].kids = s]
<1>1. DOMAIN t2 = DOMAIN t /\ t2 = [m \in DOMAIN t2 |-> t2[m]]
  OBVIOUS
<1>2. \A m \in DOMAIN t : m # n => t2[m] = t[m]
  OBVIOUS
<1>3. t2[n] = [t[n] EXCEPT !.kids = s]
  OBVIOUS
<1>4. t2[n] = [kind |-> t[n].kind, name |-> t[n].name, kids |-> s]
  BY <1>3 DEF Items
<1> HIDE DEF t2
<1>5. ASSUME NEW m \in DOMAIN t
      PROVE  t2[m] = [kind |-> t[m].kind, name |-> t[m].name,
                      kids |-> IF m = n THEN s ELSE t[m].kids]
  BY <1>2, <1>4 DEF Items
<1>6. Relinks(t, t2, n, s)
  BY <1>1, <1>5 DEF Relinks, Items
<1> QED
  BY <1>6 DEF t2

LEMMA SetName ==
  ASSUME NEW t, NEW t1, NEW n, NEW s, Relinks(t, t1, n, s), NEW x \in DOMAIN t, NEW key \in Key
  PROVE  Relinks(t, [t1 EXCEPT ![x].name = key], n, s)
<1> DEFINE t2 == [t1 EXCEPT ![x].name = key]
<1>1. DOMAIN t2 = DOMAIN t /\ t2 = [m \in DOMAIN t2 |-> t2[m]]
  BY DEF Relinks
<1>2. \A m \in DOMAIN t : m # x => t2[m] = t1[m]
  BY DEF Relinks
<1>3. t2[x] = [t1[x] EXCEPT !.name = key]
  BY DEF Relinks
<1>4. t2[x] = [kind |-> t[x].kind, name |-> key, kids |-> IF x = n THEN s ELSE t[x].kids]
  <2> DEFINE kids == IF x = n THEN s ELSE t[x].kids
  <2>1. PICK name \in Key \cup {NoKey} : t1[x] = [kind |-> t[x].kind, name |-> name, kids |-> kids]
    BY DEF Relinks
  <2> HIDE DEF t2, kids
  <2>2. t2[x] = [kind |-> t[x].kind, name |-> key, kids |-> kids]
    BY <1>3, <2>1
  <2> QED
    BY <2>2 DEF kids
<1> HIDE DEF t2
<1>5. Relinks(t, t2, n, s)
  <2>1. ASSUME NEW m \in DOMAIN t
        PROVE  \E name \in Key \cup {NoKey} :
                 t2[m] = [kind |-> t[m].kind, name |-> name, kids |-> IF m = n THEN s ELSE t[m].kids]
    <3>1. CASE m = x
      BY <1>4, <3>1
    <3>2. CASE m # x
      BY <1>2, <3>2 DEF Relinks
    <3> QED
      BY <3>1, <3>2
  <2> QED
    BY <1>1, <2>1 DEF Relinks
<1> QED
  BY <1>5 DEF t2

LEMMA RelinksIs ==
  ASSUME NEW t, Trees(t), NEW t2, NEW n \in DOMAIN t, NEW s \in Seq(DOMAIN t), IsInjective(s),
         Relinks(t, t2, n, s)
  PROVE  /\ Typed(t2) /\ DOMAIN t2 = DOMAIN t
         /\ \A m \in DOMAIN t : IsInjective(t2[m].kids)
         /\ \A m \in DOMAIN t \ {n} : Kids(t2, m) = Kids(t, m)
         /\ Kids(t2, n) = Range(s)
<1>1. ASSUME NEW m \in DOMAIN t
      PROVE  /\ t2[m] \in ItemType(DOMAIN t) /\ IsInjective(t2[m].kids)
             /\ t2[m].kids = IF m = n THEN s ELSE t[m].kids
  <2> DEFINE kids == IF m = n THEN s ELSE t[m].kids
  <2>1. PICK name \in Key \cup {NoKey} : t2[m] = [kind |-> t[m].kind, name |-> name, kids |-> kids]
    BY DEF Relinks
  <2>2. t[m] \in ItemType(DOMAIN t) /\ t[m].kids \in Seq(DOMAIN t) /\ IsInjective(t[m].kids)
    BY TreesTyped, TypedIs DEF Trees
  <2>3. kids \in Seq(DOMAIN t) /\ IsInjective(kids)
    BY <2>2
  <2>4. t[m].kind \in {"object", "array", "value"}
    BY <2>2 DEF ItemType
  <2> HIDE DEF kids
  <2>5. t2[m] \in ItemType(DOMAIN t) /\ t2[m].kids = kids
    BY <2>1, <2>3, <2>4 DEF ItemType
  <2> QED
    BY <2>3, <2>5 DEF kids
<1>2. DOMAIN t2 = DOMAIN t /\ t2 = [m \in DOMAIN t2 |-> t2[m]]
  BY DEF Relinks
<1>3. Typed(t2)
  BY <1>1, <1>2 DEF Typed
<1> QED
  BY <1>1, <1>2, <1>3 DEF Kids

(* The list of a node gets a loose one.                                     *)
LEMMA LinkKeeps ==
  ASSUME NEW t, NEW o, Trees(t), Owning(t, o), NEW n, NEW x, Loose(t, o, n, x),
         NEW t2, NEW s \in Seq(DOMAIN t), IsInjective(s),
         Range(s) \subseteq Range(t[n].kids) \cup {x}, Relinks(t, t2, n, s)
  PROVE  Trees(t2) /\ Owning(t2, o)
<1>1. /\ n \in DOMAIN t /\ x \in DOMAIN t /\ Parentless(t, x) /\ Ownerless(o, x)
      /\ n \notin Below(t, x)
  BY DEF Loose
<1>2. /\ Typed(t2) /\ DOMAIN t2 = DOMAIN t
      /\ \A m \in DOMAIN t : IsInjective(t2[m].kids)
      /\ \A m \in DOMAIN t \ {n} : Kids(t2, m) = Kids(t, m)
      /\ Kids(t2, n) \subseteq Kids(t, n) \cup {x}
  BY <1>1, RelinksIs DEF Kids
<1>3. Trees(t2)
  BY <1>1, <1>2, TreesAttach
<1>4. Owning(t2, o)
  BY <1>1, <1>2, OwningAttach
<1> QED
  BY <1>3, <1>4

(* A loose item is in no list.                                              *)
LEMMA LooseIs ==
  ASSUME NEW t, NEW o, Trees(t), NEW n, NEW x, Loose(t, o, n, x)
  PROVE  /\ n \in DOMAIN t /\ x \in DOMAIN t
         /\ t[n].kids \in Seq(DOMAIN t) /\ IsInjective(t[n].kids) /\ x \notin Range(t[n].kids)
<1>1. Typed(t) /\ n \in DOMAIN t /\ x \in DOMAIN t
  BY TreesTyped DEF Loose
<1>2. t[n].kids \in Seq(DOMAIN t) /\ IsInjective(t[n].kids) /\ x \notin Range(t[n].kids)
  BY <1>1, TypedIs DEF Trees, Loose, Parentless, Kids
<1> QED
  BY <1>1, <1>2

LEMMA AddItemKeeps ==
  ASSUME NEW st, NEW made, NEW p, NEW key \in Key, MadeFor(st, made, p),
         NEW drop, Droppable(drop), AddItem(p, key, made, drop)
  PROVE  HeapInv'
<1> DEFINE t == made.t
           o == made.o
           x == made.x
           n == FocusIn(made.o, p)
           s == Append(t[n].kids, x)
           t2 == AddToObject(t, n, key, x)
<1>1. Trees(t) /\ Owning(t, o) /\ DOMAIN o = DOMAIN obj /\ (x # Null => Loose(t, o, n, x))
  BY DEF MadeFor
<1>2. CASE x = Null
  BY <1>1, <1>2, NothingGoes, NoneDrops DEF AddItem
<1>3. CASE x # Null
  <2>1. Finish(t2, o, drop, {})
    BY <1>3 DEF AddItem
  <2> HIDE DEF t, o, x, n
  <2>2. /\ n \in DOMAIN t /\ x \in DOMAIN t
        /\ t[n].kids \in Seq(DOMAIN t) /\ IsInjective(t[n].kids) /\ x \notin Range(t[n].kids)
    BY <1>1, <1>3, LooseIs
  <2>3. s \in Seq(DOMAIN t) /\ IsInjective(s) /\ Range(s) = Range(t[n].kids) \cup {x}
    BY <2>2, AtEnd
  <2>4. Relinks(t, [t EXCEPT ![n].kids = s], n, s)
    BY <1>1, <2>2, ItemsIs, SetKids
  <2>5. t2 = [[t EXCEPT ![n].kids = s] EXCEPT ![x].name = key]
    BY <2>2 DEF AddToObject
  <2> HIDE DEF t2, s
  <2>6. Relinks(t, t2, n, s)
    BY <2>2, <2>4, <2>5, SetName
  <2>7. Trees(t2) /\ Owning(t2, o)
    BY <1>1, <1>3, <2>3, <2>6, LinkKeeps
  <2> QED
    BY <1>1, <2>1, <2>7, NothingGoes
<1> QED
  BY <1>2, <1>3

LEMMA AppendItemKeeps ==
  ASSUME HeapInv, NEW st, NEW made, NEW p \in DOMAIN obj, MadeFor(st, made, p),
         NEW object \in BOOLEAN, AppendItem(p, made, object)
  PROVE  HeapInv'
<1> DEFINE t == made.t
           o == made.o
           x == made.x
           n == FocusIn(made.o, p)
           s == Append(t[n].kids, x)
           t2 == AddToArray(t, n, x)
           drop == IF object THEN CachedFrom(p, Len(t2[n].kids) - 1) ELSE {}
<1>1. Trees(t) /\ Owning(t, o) /\ DOMAIN o = DOMAIN obj /\ (x # Null => Loose(t, o, n, x))
  BY DEF MadeFor
<1>2. CASE x = Null
  BY <1>1, <1>2, NothingGoes, NoneDrops DEF AppendItem
<1>3. CASE x # Null
  <2>1. Finish(t2, o, drop, {})
    BY <1>3 DEF AppendItem
  <2>2. Droppable(drop)
    BY FromDrops, NoneDrops DEF HeapInv
  <2> HIDE DEF t, o, x, n, drop
  <2>3. /\ n \in DOMAIN t /\ x \in DOMAIN t
        /\ t[n].kids \in Seq(DOMAIN t) /\ IsInjective(t[n].kids) /\ x \notin Range(t[n].kids)
    BY <1>1, <1>3, LooseIs
  <2>4. s \in Seq(DOMAIN t) /\ IsInjective(s) /\ Range(s) = Range(t[n].kids) \cup {x}
    BY <2>3, AtEnd
  <2>5. t2 = [t EXCEPT ![n].kids = s]
    BY <2>3 DEF AddToArray
  <2> HIDE DEF t2, s
  <2>6. Relinks(t, t2, n, s)
    BY <1>1, <2>3, <2>5, ItemsIs, SetKids
  <2>7. Trees(t2) /\ Owning(t2, o)
    BY <1>1, <1>3, <2>4, <2>6, LinkKeeps
  <2> QED
    BY <1>1, <2>1, <2>2, <2>7, NothingGoes
<1> QED
  BY <1>2, <1>3

LEMMA PrependItemKeeps ==
  ASSUME NEW st, NEW made, NEW p, MadeFor(st, made, p),
         NEW drop, Droppable(drop), PrependItem(p, made, drop)
  PROVE  HeapInv'
<1> DEFINE t == made.t
           o == made.o
           x == made.x
           n == FocusIn(made.o, p)
           s == <<x>> \o t[n].kids
           t2 == AddToHead(t, n, x)
<1>1. Trees(t) /\ Owning(t, o) /\ DOMAIN o = DOMAIN obj /\ (x # Null => Loose(t, o, n, x))
  BY DEF MadeFor
<1>2. CASE x = Null
  BY <1>1, <1>2, NothingGoes, NoneDrops DEF PrependItem
<1>3. CASE x # Null
  <2>1. Finish(t2, o, drop, {})
    BY <1>3 DEF PrependItem
  <2> HIDE DEF t, o, x, n
  <2>2. /\ n \in DOMAIN t /\ x \in DOMAIN t
        /\ t[n].kids \in Seq(DOMAIN t) /\ IsInjective(t[n].kids) /\ x \notin Range(t[n].kids)
    BY <1>1, <1>3, LooseIs
  <2>3. s \in Seq(DOMAIN t) /\ IsInjective(s) /\ Range(s) = Range(t[n].kids) \cup {x}
    BY <2>2, AtStart
  <2>4. t2 = [t EXCEPT ![n].kids = s]
    BY <2>2 DEF AddToHead
  <2> HIDE DEF t2, s
  <2>5. Relinks(t, t2, n, s)
    BY <1>1, <2>2, <2>4, ItemsIs, SetKids
  <2>6. Trees(t2) /\ Owning(t2, o)
    BY <1>1, <1>3, <2>3, <2>5, LinkKeeps
  <2> QED
    BY <1>1, <2>1, <2>6, NothingGoes
<1> QED
  BY <1>2, <1>3

-----------------------------------------------------------------------------
(* Unlinking an item                                                        *)

LEMMA PositionIs ==
  ASSUME NEW t, Trees(t), NEW n \in DOMAIN t, NEW slot, Position(t, n, slot) # 0
  PROVE  /\ Position(t, n, slot) \in DOMAIN t[n].kids
         /\ t[n].kids[Position(t, n, slot)] \in Kids(t, n)
         /\ t[n].kids[Position(t, n, slot)] \in DOMAIN t
<1> DEFINE kids == t[n].kids
           Meant(i) == IF slot \in Key THEN SameName(t[kids[i]].name, slot) ELSE i = slot + 1
           found == {i \in DOMAIN kids : Meant(i) /\ \A j \in 1 .. i - 1 : ~Meant(j)}
<1>1. Position(t, n, slot) = IF found = {} THEN 0 ELSE CHOOSE i \in found : TRUE
  BY DEF Position
<1>2. found \subseteq DOMAIN kids
  OBVIOUS
<1> HIDE DEF found
<1>3. Position(t, n, slot) \in DOMAIN kids
  BY <1>1, <1>2
<1>4. Kids(t, n) \subseteq DOMAIN t
  BY TreesTyped, TypedIs
<1> QED
  BY <1>3, <1>4 DEF Kids, Range

(* When the child k of n is in no list any more, all below it goes.         *)
LEMMA UnlinkedGoes ==
  ASSUME Trees(tree), NEW n \in DOMAIN tree, NEW k \in Kids(tree, n),
         NEW t2, NEW o, DOMAIN tree \subseteq DOMAIN t2,
         \A m \in DOMAIN tree \ {n} : Kids(t2, m) = Kids(tree, m),
         Parentless(t2, k), Ownerless(o, k)
  PROVE  Goes(t2, o, Below(tree, k)) /\ Below(tree, k) \subseteq DOMAIN t2
<1>1. Typed(tree) /\ k \in DOMAIN tree
  BY TreesTyped, TypedIs
<1>2. Below(tree, k) \subseteq DOMAIN tree /\ n \notin Below(tree, k)
  BY <1>1, BelowClosed DEF Trees
<1>3. ASSUME NEW m \in Below(tree, k), m # k
      PROVE  \E j \in Below(tree, k) \cap DOMAIN t2 : m \in Kids(t2, j)
  <2>1. PICK j \in Below(tree, k) : m \in Kids(tree, j)
    BY <1>1, <1>3, BelowParent
  <2> QED
    BY <1>2, <2>1
<1> QED
  BY <1>2, <1>3 DEF Goes

LEMMA GoneKeeps ==
  ASSUME NEW t, NEW o, NEW drop, NEW gone \in SUBSET DOMAIN t,
         Trees(t), Owning(t, o), DOMAIN o = DOMAIN obj,
         Droppable(drop), Goes(t, o, gone), Finish(t, o, drop, gone)
  PROVE  HeapInv'
<1>1. drop \in SUBSET DOMAIN o /\ \A r \in Root : <<r>> \notin drop
  BY DEF Droppable
<1> QED
  BY <1>1, FinishKeeps

LEMMA ReplacedKeeps ==
  ASSUME HeapInv, NEW p \in DOMAIN obj, Focus(p) \in DOMAIN tree,
         NEW made, MadeFor(Here, made, p), made.x # Null, NEW slot,
         Position(tree, Focus(p), slot) # 0,
         NEW drop, Droppable(drop), Replaced(p, slot, made, drop)
  PROVE  HeapInv'
<1> DEFINE n == Focus(p)
           i == Position(tree, n, slot)
           k == tree[n].kids[i]
           t == made.t
           o == made.o
           x == made.x
           s == [t[n].kids EXCEPT ![i] = x]
           t1 == ReplaceAtPlace(t, n, i, x)
           t2 == Named(t1, x, slot)
<1>1. Trees(tree) /\ Owning(tree, obj)
  BY DEF HeapInv
<1>2. i \in DOMAIN tree[n].kids /\ k \in Kids(tree, n) /\ k \in DOMAIN tree
  BY <1>1, PositionIs
<1>3. /\ Trees(t) /\ Owning(t, o) /\ DOMAIN o = DOMAIN obj
      /\ DOMAIN tree \subseteq DOMAIN t
      /\ \A m \in DOMAIN tree : t[m] = tree[m] /\ Kids(t, m) = Kids(tree, m)
      /\ Loose(t, o, n, x)
  <2>1. FocusIn(o, p) = n
    BY DEF MadeFor, Here, Focus
  <2> QED
    BY <2>1 DEF MadeFor, Here, Kids
<1>4. Finish(t2, o, drop, Below(tree, k))
  BY DEF Replaced
<1> HIDE DEF n, t, o, x, i
<1>5. /\ n \in DOMAIN t /\ x \in DOMAIN t
      /\ t[n].kids \in Seq(DOMAIN t) /\ IsInjective(t[n].kids) /\ x \notin Range(t[n].kids)
  BY <1>3, LooseIs
<1>6. n \in DOMAIN tree /\ t[n].kids = tree[n].kids
  BY <1>3 DEF n
<1>7. s \in Seq(DOMAIN t) /\ IsInjective(s) /\ Range(s) = (Range(t[n].kids) \ {k}) \cup {x}
  BY <1>2, <1>5, <1>6, AtPlace
<1>8. Relinks(t, t1, n, s)
  <2>1. t1 = [t EXCEPT ![n].kids = s]
    BY <1>5 DEF ReplaceAtPlace
  <2> HIDE DEF s, t1
  <2> QED
    BY <1>3, <1>5, <2>1, ItemsIs, SetKids
<1> HIDE DEF s, t1
<1>9. Relinks(t, t2, n, s)
  <2>1. CASE slot \in Key
    BY <1>5, <1>8, <2>1, SetName DEF Named
  <2>2. CASE slot \notin Key
    BY <1>8, <2>2 DEF Named
  <2> QED
    BY <2>1, <2>2
<1> HIDE DEF t2, k
<1>10. Trees(t2) /\ Owning(t2, o)
  BY <1>3, <1>7, <1>9, LinkKeeps
<1>11. /\ DOMAIN t2 = DOMAIN t
       /\ \A m \in DOMAIN t \ {n} : Kids(t2, m) = Kids(t, m)
       /\ Kids(t2, n) = (Range(t[n].kids) \ {k}) \cup {x}
  BY <1>3, <1>5, <1>7, <1>9, RelinksIs
<1>12. k # x
  BY <1>2, <1>5, <1>6 DEF Kids
<1>13. k \in Kids(t, n)
  BY <1>2, <1>6 DEF Kids
<1>14. Parentless(t2, k)
  BY <1>3, <1>5, <1>11, <1>12, <1>13 DEF Parentless, Trees
<1>15. Ownerless(o, k)
  BY <1>3, <1>5, <1>13 DEF Owning, Ownerless, Parentless
<1>16. Goes(t2, o, Below(tree, k)) /\ Below(tree, k) \subseteq DOMAIN t2
  <2>1. DOMAIN tree \subseteq DOMAIN t2
    BY <1>3, <1>11
  <2>2. \A m \in DOMAIN tree \ {n} : Kids(t2, m) = Kids(tree, m)
    BY <1>3, <1>11
  <2> QED
    BY <1>1, <1>2, <1>6, <1>14, <1>15, <2>1, <2>2, UnlinkedGoes
<1> QED
  BY <1>3, <1>4, <1>10, <1>16, GoneKeeps

LEMMA ReplaceInKeeps ==
  ASSUME HeapInv, NEW p \in DOMAIN obj, Focus(p) \in DOMAIN tree,
         NEW made, MadeFor(Here, made, p), NEW slot \in Key \cup Index,
         NEW early, ReplaceIn(p, slot, made, early)
  PROVE  HeapInv'
<1>1. Droppable(Cached(p, slot)) /\ Droppable({})
  BY CachedDrops, NoneDrops DEF HeapInv
<1>2. CASE Position(tree, Focus(p), slot) # 0
  BY <1>1, <1>2, ReplacedKeeps DEF ReplaceIn
<1>3. CASE Position(tree, Focus(p), slot) = 0
  <2> DEFINE drop == IF early THEN Cached(p, slot) ELSE {}
  <2>1. Finish(made.t, made.o, drop, {})
    BY <1>3 DEF ReplaceIn, Missed
  <2>2. Droppable(drop)
    BY <1>1
  <2>3. Trees(made.t) /\ Owning(made.t, made.o) /\ DOMAIN made.o = DOMAIN obj
    BY DEF MadeFor
  <2> QED
    BY <2>1, <2>2, <2>3, NothingGoes
<1> QED
  BY <1>2, <1>3

(* Delete by key or index: the item under the slot, if there is one.        *)
LEMMA DeletedKeeps ==
  ASSUME HeapInv, NEW n \in DOMAIN tree, NEW slot, NEW i, i = Position(tree, n, slot),
         NEW drop, Droppable(drop),
         Finish(IF i = 0 THEN tree ELSE Detach(tree, n, i), obj, drop,
                IF i = 0 THEN {} ELSE Below(tree, tree[n].kids[i]))
  PROVE  HeapInv'
<1>1. Trees(tree) /\ Owning(tree, obj)
  BY DEF HeapInv
<1>2. CASE i = 0
  BY <1>1, <1>2, NothingGoes
<1>3. CASE i # 0
  <2> DEFINE k == tree[n].kids[i]
             s == RemoveAt(tree[n].kids, i)
             t2 == Detach(tree, n, i)
  <2>1. i \in DOMAIN tree[n].kids /\ k \in Kids(tree, n) /\ k \in DOMAIN tree
    BY <1>1, <1>3, PositionIs
  <2>2. Finish(t2, obj, drop, Below(tree, k))
    BY <1>3
  <2>3. tree[n].kids \in Seq(DOMAIN tree) /\ IsInjective(tree[n].kids)
    BY <1>1, TreesTyped, TypedIs DEF Trees
  <2>4. s \in Seq(DOMAIN tree) /\ IsInjective(s) /\ Range(s) = Kids(tree, n) \ {k}
    BY <2>1, <2>3, Without DEF Kids
  <2>5. t2 = [tree EXCEPT ![n].kids = s]
    BY DEF Detach
  <2> HIDE DEF s, t2, k
  <2>6. Relinks(tree, t2, n, s)
    BY <1>1, <2>5, ItemsIs, SetKids
  <2>7. /\ Typed(t2) /\ DOMAIN t2 = DOMAIN tree
        /\ \A m \in DOMAIN tree : IsInjective(t2[m].kids)
        /\ \A m \in DOMAIN tree \ {n} : Kids(t2, m) = Kids(tree, m)
        /\ Kids(t2, n) = Kids(tree, n) \ {k}
    <3>1. Trees(tree) /\ s \in Seq(DOMAIN tree) /\ IsInjective(s) /\ n \in DOMAIN tree
      BY <1>1, <2>4
    <3>2. /\ Typed(t2) /\ DOMAIN t2 = DOMAIN tree
          /\ \A m \in DOMAIN tree : IsInjective(t2[m].kids)
          /\ \A m \in DOMAIN tree \ {n} : Kids(t2, m) = Kids(tree, m)
          /\ Kids(t2, n) = Range(s)
      BY <2>6, <3>1, RelinksIs
    <3> QED
      BY <2>4, <3>2
  <2>8. \A m \in DOMAIN t2 : Kids(t2, m) \subseteq Kids(tree, m)
    BY <2>7
  <2>9. Trees(t2) /\ Owning(t2, obj)
    BY <1>1, <2>7, <2>8, TreesShrink, OwningShrink
  <2>10. Parentless(t2, k)
    BY <1>1, <2>1, <2>7 DEF Parentless, Trees
  <2>11. Ownerless(obj, k)
    BY <1>1, <2>1 DEF Owning, Ownerless, Parentless
  <2>12. Goes(t2, obj, Below(tree, k)) /\ Below(tree, k) \subseteq DOMAIN t2
    BY <1>1, <2>1, <2>7, <2>10, <2>11, UnlinkedGoes
  <2> QED
    BY <2>2, <2>9, <2>12, GoneKeeps
<1> QED
  BY <1>2, <1>3

-----------------------------------------------------------------------------
(* What an object owns                                                      *)

LEMMA OwnedGoes ==
  ASSUME Trees(tree), Owning(tree, obj), NEW q \in DOMAIN obj,
         NEW t2, NEW o, DOMAIN tree \subseteq DOMAIN t2,
         \A m \in DOMAIN tree : Kids(t2, m) = Kids(tree, m),
         obj[q].own # Null => Parentless(t2, obj[q].own) /\ Ownerless(o, obj[q].own)
  PROVE  Goes(t2, o, Owned(q)) /\ Owned(q) \subseteq DOMAIN tree
<1> DEFINE k == obj[q].own
<1>1. CASE k = Null
  BY <1>1 DEF Owned, Goes
<1>2. CASE k # Null
  <2>1. Typed(tree) /\ k \in DOMAIN tree /\ Owned(q) = Below(tree, k)
    BY <1>2, TreesTyped, FocusIs DEF Owned
  <2>2. Below(tree, k) \subseteq DOMAIN tree
    BY <2>1, BelowClosed
  <2>3. ASSUME NEW m \in Below(tree, k), m # k
        PROVE  \E j \in Below(tree, k) \cap DOMAIN t2 : m \in Kids(t2, j)
    <3>1. PICK j \in Below(tree, k) : m \in Kids(tree, j)
      BY <2>1, <2>3, BelowParent
    <3> QED
      BY <2>2, <3>1
  <2> QED
    BY <1>2, <2>1, <2>2, <2>3 DEF Goes
<1> QED
  BY <1>1, <1>2

LEMMA ClearKeeps ==
  ASSUME HeapInv, NEW p \in DOMAIN obj, Clear(p)
  PROVE  HeapInv'
<1> DEFINE o == Cleared(p)
<1>1. Trees(tree) /\ Owning(tree, obj)
  BY DEF HeapInv
<1>2. /\ DOMAIN o = DOMAIN obj /\ o[p].own = Null
      /\ \A q \in DOMAIN obj : q # p => o[q] = obj[q]
      /\ o \in [DOMAIN obj -> [own : DOMAIN tree \cup {Null}, ext : DOMAIN tree \cup {Null, Dangling}]]
  <2>1. obj \in [DOMAIN obj -> [own : DOMAIN tree \cup {Null}, ext : DOMAIN tree \cup {Null, Dangling}]]
    BY <1>1 DEF Owning
  <2> QED
    BY <2>1 DEF Cleared, NoData
<1>3. Finish(tree, o, AllCached(p), Owned(p)) /\ Droppable(AllCached(p))
  BY <1>1, AllDrops DEF Clear
<1> HIDE DEF o
<1>4. Parentless(tree, Null)
  <2>1. \A m \in DOMAIN tree : Kids(tree, m) \subseteq DOMAIN tree
    BY <1>1, TypedIs, TreesTyped
  <2> QED
    BY <1>1, <2>1, NoNull DEF Parentless
<1>5. Owning(tree, o)
  BY <1>1, <1>2, <1>4 DEF Owning
<1>6. ASSUME obj[p].own # Null
      PROVE  Parentless(tree, obj[p].own) /\ Ownerless(o, obj[p].own)
  BY <1>1, <1>2, <1>6 DEF Owning, Ownerless
<1>7. Goes(tree, o, Owned(p)) /\ Owned(p) \subseteq DOMAIN tree
  BY <1>1, <1>6, OwnedGoes
<1> QED
  BY <1>1, <1>2, <1>3, <1>5, <1>7, GoneKeeps

(* p is given the tree at x, made beside the others, and loses its own.     *)
LEMMA GivenKeeps ==
  ASSUME HeapInv, NEW p \in DOMAIN obj, NEW t2, NEW x, Makes(tree, t2, x),
         Finish(t2, [obj EXCEPT ![p] = [own |-> x, ext |-> Null]], AllCached(p), Owned(p))
  PROVE  HeapInv'
<1> DEFINE o == [obj EXCEPT ![p] = [own |-> x, ext |-> Null]]
<1>1. Trees(tree) /\ Owning(tree, obj)
  BY DEF HeapInv
<1>2. Owning(t2, obj) /\ Ownerless(obj, x)
  BY <1>1, OwningMakes
<1>3. /\ Trees(t2) /\ DOMAIN tree \subseteq DOMAIN t2 /\ x \in DOMAIN t2 \ DOMAIN tree
      /\ \A m \in DOMAIN tree : Kids(t2, m) = Kids(tree, m)
      /\ Parentless(t2, x)
  BY DEF Makes, Kids
<1>4. /\ DOMAIN o = DOMAIN obj /\ o[p].own = x
      /\ \A q \in DOMAIN obj : q # p => o[q] = obj[q]
      /\ o \in [DOMAIN obj -> [own : DOMAIN t2 \cup {Null}, ext : DOMAIN t2 \cup {Null, Dangling}]]
  <2>1. obj \in [DOMAIN obj -> [own : DOMAIN t2 \cup {Null}, ext : DOMAIN t2 \cup {Null, Dangling}]]
    BY <1>2 DEF Owning
  <2> QED
    BY <1>3, <2>1
<1>5. Finish(t2, o, AllCached(p), Owned(p)) /\ Droppable(AllCached(p))
  BY <1>1, AllDrops
<1> HIDE DEF o
<1>6. Owning(t2, o)
  BY <1>2, <1>3, <1>4 DEF Owning, Ownerless
<1>7. ASSUME obj[p].own # Null
      PROVE  Parentless(t2, obj[p].own) /\ Ownerless(o, obj[p].own)
  <2>1. Ownerless(o, obj[p].own)
    <3>1. obj[p].own # x
      BY <1>2 DEF Ownerless
    <3> QED
      BY <1>1, <1>4, <1>7, <3>1 DEF Owning, Ownerless
  <2> QED
    BY <1>2, <2>1 DEF Owning
<1>8. Goes(t2, o, Owned(p)) /\ Owned(p) \subseteq DOMAIN tree
  BY <1>1, <1>3, <1>7, OwnedGoes
<1> QED
  BY <1>3, <1>4, <1>5, <1>6, <1>8, GoneKeeps

LEMMA ParseKeeps ==
  ASSUME HeapInv, NEW p \in DOMAIN obj, NEW text \in {"object", "array", "malformed"},
         Parse(p, text)
  PROVE  HeapInv'
<1>1. CASE text = "malformed"
  BY <1>1, ClearKeeps DEF Parse
<1>2. CASE text # "malformed"
  <2>1. Room(1) /\ Finish(With(tree, text), [obj EXCEPT ![p] = [own |-> New(tree), ext |-> Null]],
                          AllCached(p), Owned(p))
    BY <1>2 DEF Parse
  <2>2. Free(tree) # {}
    BY <2>1, FreeIs DEF Room
  <2>3. Makes(tree, With(tree, text), New(tree))
    BY <1>2, <2>2, WithMakes DEF HeapInv
  <2> QED
    BY <2>1, <2>3, GivenKeeps
<1> QED
  BY <1>1, <1>2

LEMMA ParseFromKeeps ==
  ASSUME HeapInv, NEW p \in DOMAIN obj, NEW n \in DOMAIN tree \cup {Null}, ParseFrom(p, n)
  PROVE  HeapInv'
<1>1. CASE n = Null
  BY <1>1, ClearKeeps DEF ParseFrom
<1>2. CASE n # Null
  <2> DEFINE copy == Build(tree, Text(tree, n), n)
  <2>1. /\ Room(Cardinality(Below(tree, n)))
        /\ Finish(copy.t, [obj EXCEPT ![p] = [own |-> copy.x, ext |-> Null]], AllCached(p), Owned(p))
    BY <1>2 DEF ParseFrom
  <2>2. Below(tree, n) \in SUBSET Node
    BY <1>2, BelowClosed, TreesTyped DEF HeapInv, Trees
  <2>3. Cardinality(Below(tree, n)) <= Cardinality(Free(tree))
    BY <2>1, <2>2, NodesFinite, FreeIs DEF Room
  <2>4. Makes(tree, copy.t, copy.x)
    BY <1>2, <2>3, BuildMakes DEF HeapInv
  <2> QED
    BY <2>1, <2>4, GivenKeeps
<1> QED
  BY <1>1, <1>2

LEMMA FindIs ==
  ASSUME HeapInv, NEW p \in DOMAIN obj, NEW slot
  PROVE  Find(p, slot) \in DOMAIN tree \cup {Null}
<1> DEFINE n == Focus(p)
           place == Position(tree, n, slot)
<1>1. CASE KindOf(p) = (IF slot \in Key THEN "object" ELSE "array") /\ place # 0
  <2>1. n \in DOMAIN tree
    BY <1>1 DEF KindOf
  <2>2. tree[n].kids[place] \in DOMAIN tree
    BY <1>1, <2>1, PositionIs DEF HeapInv
  <2>3. Find(p, slot) = tree[n].kids[place]
    BY <1>1 DEF Find
  <2> QED
    BY <2>2, <2>3
<1>2. CASE ~(KindOf(p) = (IF slot \in Key THEN "object" ELSE "array") /\ place # 0)
  BY <1>2 DEF Find
<1> QED
  BY <1>1, <1>2

LEMMA CacheKeeps ==
  ASSUME HeapInv, NEW p \in DOMAIN obj, NEW slot \in Key \cup Index, Cache(p, slot)
  PROVE  HeapInv'
<1> DEFINE w == Append(p, slot)
           o == [q \in DOMAIN obj \cup {w} |->
                   IF q \in DOMAIN obj THEN obj[q] ELSE [own |-> Null, ext |-> Find(p, slot)]]
<1>1. Trees(tree) /\ Owning(tree, obj)
  BY DEF HeapInv
<1>2. w \notin DOMAIN obj /\ obj' = o /\ tree' = tree
  BY DEF Cache
<1>3. w \in Path
  <2>1. p \in Seq(Root \cup Key \cup Index) /\ p # <<>> /\ p[1] \in Root
    BY <1>1 DEF Owning, Path
  <2>2. w \in Seq(Root \cup Key \cup Index) /\ w # <<>> /\ w[1] = p[1]
    BY <2>1
  <2> QED
    BY <2>1, <2>2 DEF Path
<1> HIDE DEF w
<1>4. Find(p, slot) \in DOMAIN tree \cup {Null}
  BY FindIs
<1>5. /\ DOMAIN o = DOMAIN obj \cup {w} /\ o[w].own = Null
      /\ \A q \in DOMAIN obj : o[q] = obj[q]
      /\ o \in [DOMAIN obj \cup {w} ->
                  [own : DOMAIN tree \cup {Null}, ext : DOMAIN tree \cup {Null, Dangling}]]
  <2>1. obj \in [DOMAIN obj -> [own : DOMAIN tree \cup {Null}, ext : DOMAIN tree \cup {Null, Dangling}]]
    BY <1>1 DEF Owning
  <2> QED
    BY <1>2, <1>4, <2>1
<1> HIDE DEF o
<1>6. Parentless(tree, Null)
  <2>1. \A m \in DOMAIN tree : Kids(tree, m) \subseteq DOMAIN tree
    BY <1>1, TypedIs, TreesTyped
  <2> QED
    BY <1>1, <2>1, NoNull DEF Parentless
<1>7. Owning(tree, o)
  BY <1>1, <1>2, <1>3, <1>5, <1>6 DEF Owning
<1> QED
  BY <1>1, <1>2, <1>7 DEF HeapInv

LEMMA TakenPath ==
  ASSUME NEW r \in Root, NEW q \in Path
  PROVE  <<r>> \o Tail(q) \in Path
<1>1. q \in Seq(Root \cup Key \cup Index) /\ q # <<>>
  BY DEF Path
<1>2. Tail(q) \in Seq(Root \cup Key \cup Index) /\ <<r>> \in Seq(Root \cup Key \cup Index)
  BY <1>1
<1>3. /\ <<r>> \o Tail(q) \in Seq(Root \cup Key \cup Index)
      /\ Len(<<r>> \o Tail(q)) = 1 + Len(Tail(q))
      /\ (<<r>> \o Tail(q))[1] = r
  <2>1. /\ Len(<<r>> \o Tail(q)) = Len(<<r>>) + Len(Tail(q))
        /\ <<r>> \o Tail(q) \in Seq(Root \cup Key \cup Index)
        /\ \A j \in 1 .. Len(<<r>>) : (<<r>> \o Tail(q))[j] = <<r>>[j]
    BY <1>2, Joined
  <2> QED
    BY <1>2, <2>1
<1>4. <<r>> \o Tail(q) # <<>>
  BY <1>2, <1>3
<1> QED
  BY <1>3, <1>4 DEF Path

LEMMA MoveAssignKeeps ==
  ASSUME HeapInv, NEW r \in Root, NEW s \in Root, MoveAssign(r, s)
  PROVE  HeapInv'
<1> DEFINE lost == AllCached(<<r>>) \cup {<<r>>}
           rest == DOMAIN obj \ lost
           To(q) == IF q[1] = s THEN <<r>> \o Tail(q) ELSE q
           moved == {To(q) : q \in rest} \cup {<<s>>}
           From(q) == CHOOSE w \in rest : To(w) = q
           gone == Owned(<<r>>) \cup UNION {Owned(q) : q \in AllCached(<<r>>)}
           o == [q \in moved |-> IF q = <<s>> THEN NoData ELSE obj[From(q)]]
<1>1. /\ Trees(tree) /\ Owning(tree, obj) /\ DOMAIN obj \subseteq Path
      /\ \A w \in Root : <<w>> \in DOMAIN obj
  BY DEF HeapInv, Owning
<1>2. r # s /\ Finish(tree, o, {}, gone)
  BY DEF MoveAssign
<1>3. Droppable(AllCached(<<r>>))
  BY <1>1, AllDrops
<1>4. lost \subseteq DOMAIN obj /\ gone = UNION {Owned(q) : q \in lost}
  BY <1>1, <1>3 DEF Droppable
<1>5. moved \subseteq Path /\ \A w \in Root : <<w>> \in moved
  <2>1. \A q \in rest : To(q) \in Path
    BY <1>1, TakenPath
  <2>2. \A w \in Root : w # r => <<w>> \in rest
    BY <1>1, <1>3 DEF Droppable
  <2>3. <<r>> \in moved
    <3>1. <<s>> \in rest
      BY <1>2, <2>2
    <3>2. To(<<s>>) = <<r>>
      OBVIOUS
    <3> QED
      BY <3>1, <3>2
  <2>4. \A w \in Root : w # r /\ w # s => <<w>> \in moved
    <3> SUFFICES ASSUME NEW w \in Root, w # r, w # s PROVE <<w>> \in moved
      OBVIOUS
    <3>1. To(<<w>>) = <<w>>
      OBVIOUS
    <3> QED
      BY <2>2, <3>1
  <2>5. <<s>> \in Path
    BY <1>1
  <2> QED
    BY <2>1, <2>3, <2>4, <2>5
<1>6. \A q \in moved \ {<<s>>} : From(q) \in rest /\ To(From(q)) = q
  OBVIOUS
<1>7. \A q \in moved : q # <<s>> => From(q) \in rest /\ q = To(From(q))
  BY <1>6
<1> HIDE DEF rest, To, From, moved, lost, gone
<1>8. /\ DOMAIN o = moved /\ o[<<s>>] = NoData
      /\ \A q \in moved \ {<<s>>} : o[q] = obj[From(q)]
  BY <1>5
<1>9. rest \subseteq DOMAIN obj
  BY DEF rest
<1>10. o \in [moved -> [own : DOMAIN tree \cup {Null}, ext : DOMAIN tree \cup {Null, Dangling}]]
  <2>1. \A q \in DOMAIN obj :
          obj[q] \in [own : DOMAIN tree \cup {Null}, ext : DOMAIN tree \cup {Null, Dangling}]
    BY <1>1 DEF Owning
  <2>2. NoData \in [own : DOMAIN tree \cup {Null}, ext : DOMAIN tree \cup {Null, Dangling}]
    BY DEF NoData
  <2>3. \A q \in moved :
          o[q] \in [own : DOMAIN tree \cup {Null}, ext : DOMAIN tree \cup {Null, Dangling}]
    BY <1>6, <1>8, <1>9, <2>1, <2>2
  <2> QED
    BY <2>3
<1> HIDE DEF o
<1>11. o[<<s>>].own = Null
  BY <1>8 DEF NoData
<1>12. ASSUME NEW p \in moved, NEW q \in moved, o[p].own = o[q].own, o[p].own # Null
       PROVE  p = q
  <2>1. p # <<s>> /\ q # <<s>>
    BY <1>11, <1>12
  <2>2. /\ From(p) \in DOMAIN obj /\ From(q) \in DOMAIN obj
        /\ obj[From(p)].own = obj[From(q)].own /\ obj[From(p)].own # Null
    BY <1>6, <1>8, <1>9, <1>12, <2>1
  <2>3. From(p) = From(q)
    BY <1>1, <2>2 DEF Owning
  <2> QED
    BY <1>6, <2>1, <2>3
<1>13. \A q \in moved : Parentless(tree, o[q].own)
  <2>1. Parentless(tree, Null)
    <3>1. \A m \in DOMAIN tree : Kids(tree, m) \subseteq DOMAIN tree
      BY <1>1, TypedIs, TreesTyped
    <3> QED
      BY <1>1, <3>1, NoNull DEF Parentless
  <2>2. \A q \in DOMAIN obj : Parentless(tree, obj[q].own)
    BY <1>1 DEF Owning
  <2> QED
    BY <1>6, <1>8, <1>9, <1>11, <2>1, <2>2
<1>14. Owning(tree, o)
  BY <1>5, <1>8, <1>10, <1>12, <1>13 DEF Owning
<1>15. ASSUME NEW q \in lost
       PROVE  Goes(tree, o, Owned(q)) /\ Owned(q) \subseteq DOMAIN tree
  <2>1. q \in DOMAIN obj
    BY <1>4
  <2>2. ASSUME obj[q].own # Null
        PROVE  Parentless(tree, obj[q].own) /\ Ownerless(o, obj[q].own)
    <3>1. \A w \in rest : obj[w].own # obj[q].own
      BY <1>1, <1>9, <2>1, <2>2 DEF rest, Owning
    <3> QED
      BY <1>1, <1>6, <1>8, <1>11, <2>1, <2>2, <3>1 DEF Owning, Ownerless
  <2> QED
    BY <1>1, <2>1, <2>2, OwnedGoes
<1>16. Goes(tree, o, gone) /\ gone \in SUBSET DOMAIN tree
  <2>1. gone \in SUBSET DOMAIN tree
    BY <1>4, <1>15
  <2>2. ASSUME NEW m \in gone
        PROVE  \/ \E k \in gone \cap DOMAIN tree : m \in Kids(tree, k)
               \/ Parentless(tree, m) /\ Ownerless(o, m)
    <3>1. PICK q \in lost : m \in Owned(q)
      BY <1>4
    <3>2. Owned(q) \subseteq gone
      BY <1>4
    <3> QED
      BY <1>15, <3>1, <3>2 DEF Goes
  <2> QED
    BY <2>1, <2>2 DEF Goes
<1>17. {} \in SUBSET DOMAIN o
  OBVIOUS
<1> QED
  BY <1>1, <1>2, <1>14, <1>16, <1>17, FinishKeeps

-----------------------------------------------------------------------------
(* Each operation keeps the invariant                                       *)

LEMMA HeapInit == Init => HeapInv
<1> SUFFICES ASSUME Init PROVE HeapInv
  OBVIOUS
<1>1. DOMAIN tree = {} /\ tree = [n \in {} |-> Null]
  BY DEF Init
<1>2. Trees(tree)
  BY <1>1 DEF Trees
<1>3. obj = [p \in {<<r>> : r \in Root} |-> NoData]
  BY DEF Init
<1>4. DOMAIN obj \subseteq Path
  <2>1. ASSUME NEW r \in Root
        PROVE  <<r>> \in Path
    <3>1. <<r>> \in Seq(Root \cup Key \cup Index) /\ <<r>> # <<>> /\ <<r>>[1] = r
      OBVIOUS
    <3> QED
      BY <3>1 DEF Path
  <2> QED
    BY <1>3, <2>1
<1>5. \A p \in DOMAIN obj : obj[p] = [own |-> Null, ext |-> Null] /\ obj[p].own = Null
  BY <1>3 DEF NoData
<1>6. obj \in [DOMAIN obj -> [own : DOMAIN tree \cup {Null}, ext : DOMAIN tree \cup {Null, Dangling}]]
  BY <1>3, <1>5
<1>7. \A r \in Root : <<r>> \in DOMAIN obj
  BY <1>3
<1>8. Owning(tree, obj)
  BY <1>1, <1>4, <1>5, <1>6, <1>7 DEF Owning, Parentless
<1> QED
  BY <1>2, <1>8 DEF HeapInv

LEMMA WeightIs ==
  ASSUME HeapInv, NEW p \in DOMAIN obj
  PROVE  Weight(Other(p)) \in Nat
<1>1. CASE Focus(Other(p)) \in DOMAIN tree
  <2>1. Below(tree, Focus(Other(p))) \in SUBSET Node
    BY <1>1, BelowClosed, TreesTyped DEF HeapInv, Trees
  <2> QED
    BY <1>1, <2>1, NodesFinite DEF Weight
<1>2. CASE Focus(Other(p)) \notin DOMAIN tree
  BY <1>2 DEF Weight
<1> QED
  BY <1>1, <1>2

(* The new item of an Add: of a value or an empty container, a copy, or the *)
(* tree of the other variable.                                              *)
LEMMA OpenedFresh ==
  ASSUME HeapInv, NEW p \in DOMAIN obj, Focus(p) # Dangling, Room(2),
         NEW kind \in {"object", "array"}, NEW sort \in {"object", "array", "value"}
  PROVE  MadeFor(Opened(p, kind), Fresh(Opened(p, kind), sort), p)
<1>1. Opens(Opened(p, kind), p) /\ Cardinality(Free(Opened(p, kind).t)) >= 1
  BY OpenedOpens
<1> QED
  BY <1>1, FreeIs, FreshIsMade

LEMMA OpenedCopied ==
  ASSUME HeapInv, NEW p \in DOMAIN obj, Focus(p) # Dangling, MayCopy(p),
         Room(1 + Weight(Other(p))), NEW kind \in {"object", "array"}
  PROVE  MadeFor(Opened(p, kind), Copied(Opened(p, kind), p), p)
<1>1. /\ Opens(Opened(p, kind), p)
      /\ Cardinality(Free(Opened(p, kind).t)) >= Weight(Other(p))
  BY OpenedOpens, WeightIs
<1> QED
  BY <1>1, CopiedIsMade

LEMMA OpenedMoved ==
  ASSUME HeapInv, NEW p \in DOMAIN obj, Focus(p) # Dangling, MayMove(p), Room(1),
         NEW kind \in {"object", "array"}
  PROVE  MadeFor(Opened(p, kind), Moved(Opened(p, kind), p), p)
<1>1. Opens(Opened(p, kind), p)
  BY OpenedOpens
<1> QED
  BY <1>1, MovedIsMade

LEMMA OnKeyKeeps ==
  ASSUME HeapInv, NEW p \in DOMAIN obj, Focus(p) # Dangling, NEW key \in Key, OnKey(p, key)
  PROVE  HeapInv'
<1>1. Droppable({}) /\ Droppable(Cached(p, key))
  BY NoneDrops, CachedDrops DEF HeapInv
<1>2. CASE AddValue(p, key) \/ AddEmptySubObject(p, key) \/ AddEmptySubArray(p, key)
  <2>1. PICK sort \in {"object", "array", "value"} :
          Room(2) /\ AddItem(p, key, Fresh(Opened(p, "object"), sort), {})
    BY <1>2 DEF AddValue, AddEmptySubObject, AddEmptySubArray
  <2> QED
    BY <1>1, <2>1, OpenedFresh, AddItemKeeps
<1>3. CASE AddCopy(p, key)
  BY <1>1, <1>3, OpenedCopied, AddItemKeeps DEF AddCopy
<1>4. CASE AddMoved(p, key)
  BY <1>1, <1>4, OpenedMoved, AddItemKeeps DEF AddMoved
<1>5. ASSUME KindOf(p) = "object"
      PROVE  Focus(p) \in DOMAIN tree /\ Opens(Here, p) /\ Here.t = tree
  BY <1>5, HereOpens DEF KindOf, Here
<1>6. CASE Delete(p, key)
  BY <1>1, <1>5, <1>6, DeletedKeeps DEF Delete
<1>7. CASE ReplaceValue(p, key)
  <2>1. MadeFor(Here, Fresh(Here, "value"), p)
    BY <1>5, <1>7, FreeIs, FreshIsMade DEF ReplaceValue, Room
  <2> QED
    BY <1>5, <1>7, <2>1, ReplaceInKeeps DEF ReplaceValue
<1>8. CASE ReplaceCopy(p, key)
  <2>1. MadeFor(Here, Copied(Here, p), p)
    BY <1>5, <1>8, CopiedIsMade DEF ReplaceCopy, Room
  <2> QED
    BY <1>5, <1>8, <2>1, ReplaceInKeeps DEF ReplaceCopy
<1>9. CASE ReplaceMoved(p, key)
  <2>1. MadeFor(Here, Moved(Here, p), p)
    BY <1>5, <1>9, MovedIsMade DEF ReplaceMoved
  <2> QED
    BY <1>5, <1>9, <2>1, ReplaceInKeeps DEF ReplaceMoved
<1>10. CASE AtKey(p, key)
  BY <1>10, CacheKeeps DEF AtKey
<1>11. CASE Get(p, key)
  BY <1>11, FindIs, OtherIs, ParseFromKeeps DEF Get, GetMember, HeapInv
<1> QED
  BY <1>2, <1>3, <1>4, <1>6, <1>7, <1>8, <1>9, <1>10, <1>11 DEF OnKey

LEMMA OnIndexKeeps ==
  ASSUME HeapInv, NEW p \in DOMAIN obj, Focus(p) # Dangling, NEW i \in Index, OnIndex(p, i)
  PROVE  HeapInv'
<1>1. Droppable(CachedFrom(p, i))
  BY FromDrops DEF HeapInv
<1>2. ASSUME KindOf(p) = "array"
      PROVE  Focus(p) \in DOMAIN tree /\ Opens(Here, p) /\ Here.t = tree
  BY <1>2, HereOpens DEF KindOf, Here
<1>3. CASE DeleteAt(p, i)
  BY <1>1, <1>2, <1>3, DeletedKeeps DEF DeleteAt
<1>4. CASE ReplaceValueAt(p, i)
  <2>1. MadeFor(Here, Fresh(Here, "value"), p)
    BY <1>2, <1>4, FreeIs, FreshIsMade DEF ReplaceValueAt, Room
  <2> QED
    BY <1>2, <1>4, <2>1, ReplaceInKeeps DEF ReplaceValueAt
<1>5. CASE ReplaceCopyAt(p, i)
  <2>1. MadeFor(Here, Copied(Here, p), p)
    BY <1>2, <1>5, CopiedIsMade DEF ReplaceCopyAt, Room
  <2> QED
    BY <1>2, <1>5, <2>1, ReplaceInKeeps DEF ReplaceCopyAt
<1>6. CASE ReplaceMovedAt(p, i)
  <2>1. MadeFor(Here, Moved(Here, p), p)
    BY <1>2, <1>6, MovedIsMade DEF ReplaceMovedAt
  <2> QED
    BY <1>2, <1>6, <2>1, ReplaceInKeeps DEF ReplaceMovedAt
<1>7. CASE AtIndex(p, i)
  BY <1>7, CacheKeeps DEF AtIndex
<1>8. CASE GetAt(p, i)
  BY <1>8, FindIs, OtherIs, ParseFromKeeps DEF GetAt, GetMember, HeapInv
<1> QED
  BY <1>3, <1>4, <1>5, <1>6, <1>7, <1>8 DEF OnIndex

LEMMA OnAllKeeps ==
  ASSUME HeapInv, NEW p \in DOMAIN obj, Focus(p) # Dangling, OnAll(p)
  PROVE  HeapInv'
<1>1. Droppable({}) /\ Droppable(CachedFrom(p, 0))
  BY NoneDrops, FromDrops DEF HeapInv
<1>2. CASE AppendValue(p)
  BY <1>2, OpenedFresh, AppendItemKeeps DEF AppendValue
<1>3. CASE AppendCopy(p)
  BY <1>3, OpenedCopied, AppendItemKeeps DEF AppendCopy
<1>4. CASE AppendMoved(p)
  BY <1>4, OpenedMoved, AppendItemKeeps DEF AppendMoved
<1>5. CASE AddValueAsFirst(p)
  BY <1>1, <1>5, OpenedFresh, PrependItemKeeps DEF AddValueAsFirst
<1>6. CASE AddCopyAsFirst(p)
  BY <1>1, <1>6, OpenedCopied, PrependItemKeeps DEF AddCopyAsFirst
<1>7. CASE AddMovedAsFirst(p)
  BY <1>1, <1>7, OpenedMoved, PrependItemKeeps DEF AddMovedAsFirst
<1> QED
  BY <1>2, <1>3, <1>4, <1>5, <1>6, <1>7 DEF OnAll

LEMMA OnItselfKeeps ==
  ASSUME HeapInv, NEW p \in DOMAIN obj, OnItself(p)
  PROVE  HeapInv'
<1>1. CASE Clear(p)
  BY <1>1, ClearKeeps
<1>2. CASE \E text \in {"object", "array", "malformed"} : Parse(p, text)
  BY <1>2, ParseKeeps
<1>3. CASE \E q \in DOMAIN obj : Assign(p, q)
  <2>1. PICK q \in DOMAIN obj : Assign(p, q)
    BY <1>3
  <2>2. Focus(q) \in DOMAIN tree \cup {Null}
    BY <2>1, FocusIs DEF Assign, Focus, HeapInv
  <2> QED
    BY <2>1, <2>2, ParseFromKeeps DEF Assign
<1> QED
  BY <1>1, <1>2, <1>3 DEF OnItself

LEMMA HeapStep == HeapInv /\ [Next]_vars => HeapInv'
<1> SUFFICES ASSUME HeapInv, [Next]_vars PROVE HeapInv'
  OBVIOUS
<1>1. CASE \E p \in DOMAIN obj :
             /\ Focus(p) # Dangling
             /\ \/ \E key \in Key : OnKey(p, key)
                \/ \E i \in Index : OnIndex(p, i)
                \/ OnAll(p)
  BY <1>1, OnKeyKeeps, OnIndexKeeps, OnAllKeeps
<1>2. CASE \E p \in DOMAIN obj : OnItself(p)
  BY <1>2, OnItselfKeeps
<1>3. CASE \E r, s \in Root : MoveAssign(r, s)
  BY <1>3, MoveAssignKeeps
<1>4. CASE UNCHANGED vars
  BY <1>4 DEF vars, HeapInv
<1> QED
  BY <1>1, <1>2, <1>3, <1>4 DEF Next

-----------------------------------------------------------------------------
(* One owner                                                                *)

LEMMA AtMostOne ==
  ASSUME NEW S, \A a, b \in S : a = b
  PROVE  Cardinality(S) = IF S = {} THEN 0 ELSE 1
<1>1. CASE S = {}
  BY <1>1, FS_EmptySet
<1>2. CASE S # {}
  <2>1. PICK a \in S : TRUE
    BY <1>2
  <2>2. S = {a}
    BY <2>1
  <2> QED
    BY <1>2, <2>2, FS_Singleton
<1> QED
  BY <1>1, <1>2

LEMMA HeapOwned == HeapInv => OwnedOnce
<1> SUFFICES ASSUME HeapInv PROVE OwnedOnce
  OBVIOUS
<1>1. Trees(tree) /\ Owning(tree, obj)
  BY DEF HeapInv
<1> DEFINE Objects(n) == {p \in DOMAIN obj : obj[p].own = n}
           Parents(n) == {m \in DOMAIN tree : n \in Range(tree[m].kids)}
<1>2. ASSUME NEW n, n # Null
      PROVE  Owners(n) = (IF Objects(n) = {} THEN 0 ELSE 1) + (IF Parents(n) = {} THEN 0 ELSE 1)
  <2>1. \A p, q \in Objects(n) : p = q
    BY <1>1, <1>2 DEF Owning
  <2>2. \A p, q \in Parents(n) : p = q
    BY <1>1 DEF Trees, Kids
  <2>3. Owners(n) = Cardinality(Objects(n)) + Cardinality(Parents(n))
    BY DEF Owners
  <2> HIDE DEF Objects, Parents
  <2> QED
    BY <2>1, <2>2, <2>3, AtMostOne
<1>3. ASSUME NEW n \in DOMAIN tree
      PROVE  Owners(n) <= 1 /\ IsInjective(tree[n].kids)
  <2>1. n # Null
    BY <1>1, NoNull
  <2>2. Objects(n) = {} \/ Parents(n) = {}
    BY <1>1 DEF Owning, Parentless, Kids
  <2>3. IsInjective(tree[n].kids)
    BY <1>1 DEF Trees
  <2> HIDE DEF Objects, Parents
  <2> QED
    BY <1>2, <2>1, <2>2, <2>3
<1>4. ASSUME NEW n \in Node, n \notin DOMAIN tree
      PROVE  Owners(n) = 0
  <2>1. n # Null
    BY DEF Node, Null
  <2>2. Objects(n) = {}
    BY <1>1, <1>4, <2>1, FocusIs
  <2>3. Parents(n) = {}
    BY <1>1, <1>4, TreesTyped, TypedIs DEF Kids
  <2> HIDE DEF Objects, Parents
  <2> QED
    BY <1>2, <2>1, <2>2, <2>3
<1> QED
  BY <1>3, <1>4 DEF OwnedOnce

(* Through any sequence of calls no node of a document has two owners, is   *)
(* owned after it was freed, or is twice in a list.                         *)
THEOREM NodesOwnedOnce == Spec => []OwnedOnce
<1>1. HeapInv => OwnedOnce
  BY HeapOwned
<1>2. Init => HeapInv
  BY HeapInit
<1>3. HeapInv /\ [Next]_vars => HeapInv'
  BY HeapStep
<1> QED
  BY <1>1, <1>2, <1>3, PTL DEF Spec

-----------------------------------------------------------------------------
(* What a lookup finds, and when a change of the tree does not change it    *)

Meant(t, n, slot, i) ==
  IF slot \in Key THEN SameName(t[t[n].kids[i]].name, slot) ELSE i = slot + 1

First(t, n, slot, i) ==
  i \in DOMAIN t[n].kids /\ Meant(t, n, slot, i) /\ \A j \in 1 .. i - 1 : ~Meant(t, n, slot, j)

FindIn(t, n, slot) ==
  IF t[n].kind = (IF slot \in Key THEN "object" ELSE "array") /\ Position(t, n, slot) # 0
  THEN t[n].kids[Position(t, n, slot)] ELSE Null

LEMMA FindInIs ==
  ASSUME NEW p, NEW slot
  PROVE  Find(p, slot) = IF Focus(p) \in DOMAIN tree THEN FindIn(tree, Focus(p), slot) ELSE Null
BY DEF Find, FindIn, KindOf

Listed(t, n) == DOMAIN t[n].kids = 1 .. Len(t[n].kids) /\ Len(t[n].kids) \in Nat

LEMMA ListedIs ==
  ASSUME NEW t, Trees(t), NEW n \in DOMAIN t
  PROVE  /\ Listed(t, n) /\ t[n].kids \in Seq(DOMAIN t) /\ IsInjective(t[n].kids)
         /\ Kids(t, n) \subseteq DOMAIN t
<1>1. t[n].kids \in Seq(DOMAIN t) /\ Kids(t, n) \subseteq DOMAIN t
  BY TreesTyped, TypedIs
<1>2. DOMAIN t[n].kids = 1 .. Len(t[n].kids) /\ Len(t[n].kids) \in Nat
  BY <1>1, SeqOver
<1> QED
  BY <1>1, <1>2 DEF Listed, Trees

(* The position is that of the first item that is meant.                    *)
LEMMA PositionFirst ==
  ASSUME NEW t, NEW n, Listed(t, n), NEW slot
  PROVE  /\ \A i : First(t, n, slot, i) => i # 0 /\ Position(t, n, slot) = i
         /\ Position(t, n, slot) # 0 => First(t, n, slot, Position(t, n, slot))
<1> DEFINE found == {i \in DOMAIN t[n].kids :
                       /\ Meant(t, n, slot, i)
                       /\ \A j \in 1 .. i - 1 : ~Meant(t, n, slot, j)}
<1>1. Position(t, n, slot) = IF found = {} THEN 0 ELSE CHOOSE i \in found : TRUE
  BY DEF Position, Meant
<1>2. \A i : First(t, n, slot, i) <=> i \in found
  BY DEF First
<1>3. DOMAIN t[n].kids = 1 .. Len(t[n].kids) /\ Len(t[n].kids) \in Nat
  BY DEF Listed
<1>4. ASSUME NEW i \in found, NEW j \in found
      PROVE  i = j
  BY <1>3
<1>5. \A i \in found : i # 0
  BY <1>3
<1> HIDE DEF found
<1> QED
  BY <1>1, <1>2, <1>4, <1>5

(* What is meant first in one list is so in the other.                      *)
FirstSame(t, t2, n, slot) ==
  /\ \A i : First(t, n, slot, i) => \E j : First(t2, n, slot, j) /\ t2[n].kids[j] = t[n].kids[i]
  /\ \A j : First(t2, n, slot, j) => \E i : First(t, n, slot, i)

LEMMA FindAgrees ==
  ASSUME NEW t, NEW t2, NEW n, NEW slot, t2[n].kind = t[n].kind,
         Listed(t, n), Listed(t2, n), FirstSame(t, t2, n, slot)
  PROVE  FindIn(t2, n, slot) = FindIn(t, n, slot)
<1>1. /\ \A i : First(t, n, slot, i) => i # 0 /\ Position(t, n, slot) = i
      /\ Position(t, n, slot) # 0 => First(t, n, slot, Position(t, n, slot))
  BY PositionFirst
<1>2. /\ \A i : First(t2, n, slot, i) => i # 0 /\ Position(t2, n, slot) = i
      /\ Position(t2, n, slot) # 0 => First(t2, n, slot, Position(t2, n, slot))
  BY PositionFirst
<1> QED
  BY <1>1, <1>2 DEF FindIn, FirstSame

(* The same list of items under the same names.                             *)
LEMMA FindSame ==
  ASSUME NEW t, NEW t2, NEW n, NEW slot, Listed(t, n),
         t2[n].kind = t[n].kind, t2[n].kids = t[n].kids,
         \A k \in Kids(t, n) : t2[k].name = t[k].name
  PROVE  FindIn(t2, n, slot) = FindIn(t, n, slot)
<1>1. \A i \in DOMAIN t[n].kids : Meant(t2, n, slot, i) <=> Meant(t, n, slot, i)
  BY DEF Meant, Kids, Range
<1>2. \A i : First(t2, n, slot, i) <=> First(t, n, slot, i)
  BY <1>1 DEF First, Listed
<1>3. Listed(t, n) /\ Listed(t2, n) /\ FirstSame(t, t2, n, slot)
  BY <1>2 DEF Listed, FirstSame
<1> QED
  BY <1>3, FindAgrees

(* The list of n becomes s, and its items keep their names.                 *)
Gets(t, t2, n, s) ==
  t2[n].kind = t[n].kind /\ t2[n].kids = s /\ \A k \in Kids(t, n) : t2[k].name = t[k].name

(* A further item at the end that is not meant.                             *)
LEMMA FindAppended ==
  ASSUME NEW t, NEW t2, NEW slot, Trees(t), NEW n \in DOMAIN t, NEW x \in DOMAIN t,
         Gets(t, t2, n, Append(t[n].kids, x)),
         ~Meant(t2, n, slot, Len(t[n].kids) + 1)
  PROVE  FindIn(t2, n, slot) = FindIn(t, n, slot)
<1> DEFINE s == t[n].kids
<1>1. /\ t2[n].kind = t[n].kind /\ t2[n].kids = Append(s, x)
      /\ \A k \in Kids(t, n) : t2[k].name = t[k].name
      /\ s \in Seq(DOMAIN t) /\ IsInjective(s)
  BY ListedIs DEF Gets
<1>2. /\ Append(s, x) \in Seq(DOMAIN t) /\ DOMAIN Append(s, x) = 1 .. Len(s) + 1 /\ Len(s) \in Nat
      /\ DOMAIN s = 1 .. Len(s) /\ \A i \in 1 .. Len(s) : Append(s, x)[i] = s[i]
  BY <1>1
<1>3. \A i \in 1 .. Len(s) : Meant(t2, n, slot, i) <=> Meant(t, n, slot, i)
  BY <1>1, <1>2 DEF Meant, Kids, Range
<1>4. \A i : First(t2, n, slot, i) <=> First(t, n, slot, i)
  BY <1>1, <1>2, <1>3 DEF First
<1>5. \A i : First(t, n, slot, i) => t2[n].kids[i] = t[n].kids[i]
  BY <1>1, <1>2 DEF First
<1>6. FirstSame(t, t2, n, slot)
  BY <1>4, <1>5 DEF FirstSame
<1>7. Listed(t, n) /\ Listed(t2, n)
  BY <1>2 DEF Listed
<1> QED
  BY <1>1, <1>6, <1>7, FindAgrees

(* Another item in the place of one, and neither is meant.                  *)
LEMMA FindReplaced ==
  ASSUME NEW t, NEW t2, NEW slot, Trees(t), NEW n \in DOMAIN t, NEW x \in DOMAIN t,
         NEW i \in DOMAIN t[n].kids,
         Gets(t, t2, n, [t[n].kids EXCEPT ![i] = x]),
         ~Meant(t, n, slot, i), ~Meant(t2, n, slot, i)
  PROVE  FindIn(t2, n, slot) = FindIn(t, n, slot)
<1> DEFINE s == t[n].kids
           s2 == [s EXCEPT ![i] = x]
<1>1. /\ t2[n].kind = t[n].kind /\ t2[n].kids = [s EXCEPT ![i] = x]
      /\ \A k \in Kids(t, n) : t2[k].name = t[k].name
      /\ s \in Seq(DOMAIN t) /\ IsInjective(s)
  BY ListedIs DEF Gets
<1>2. /\ s2 \in Seq(DOMAIN t) /\ DOMAIN s2 = DOMAIN s /\ \A j \in DOMAIN s : j # i => s2[j] = s[j]
      /\ DOMAIN s = 1 .. Len(s) /\ Len(s) \in Nat
  BY <1>1
<1> HIDE DEF s2
<1>3. t2[n].kids = s2
  BY <1>1 DEF s2
<1>4. \A j \in DOMAIN s : j # i => (Meant(t2, n, slot, j) <=> Meant(t, n, slot, j))
  BY <1>1, <1>2, <1>3 DEF Meant, Kids, Range
<1>5. \A j \in DOMAIN s : Meant(t2, n, slot, j) <=> Meant(t, n, slot, j)
  BY <1>4
<1>6. \A j : First(t2, n, slot, j) <=> First(t, n, slot, j)
  <2>1. DOMAIN t2[n].kids = DOMAIN s /\ \A j \in DOMAIN s : \A m \in 1 .. j - 1 : m \in DOMAIN s
    BY <1>2, <1>3
  <2> QED
    BY <1>5, <2>1 DEF First
<1>7. \A j : First(t, n, slot, j) => t2[n].kids[j] = t[n].kids[j]
  BY <1>1, <1>2, <1>3 DEF First
<1>8. FirstSame(t, t2, n, slot)
  BY <1>6, <1>7 DEF FirstSame
<1>9. Listed(t, n) /\ Listed(t2, n)
  BY <1>2, <1>3 DEF Listed
<1> QED
  BY <1>1, <1>8, <1>9, FindAgrees

(* One item less: it had another name, or came later.                       *)
LEMMA FindRemoved ==
  ASSUME NEW t, NEW t2, NEW slot, Trees(t), NEW n \in DOMAIN t,
         NEW i \in DOMAIN t[n].kids,
         Gets(t, t2, n, RemoveAt(t[n].kids, i)),
         IF slot \in Key THEN ~Meant(t, n, slot, i) ELSE slot \in Nat /\ slot + 1 < i
  PROVE  FindIn(t2, n, slot) = FindIn(t, n, slot)
<1> DEFINE s == t[n].kids
           s2 == t2[n].kids
<1>1. /\ t2[n].kind = t[n].kind /\ t2[n].kids = RemoveAt(s, i)
      /\ \A k \in Kids(t, n) : t2[k].name = t[k].name
      /\ s \in Seq(DOMAIN t) /\ IsInjective(s)
  BY ListedIs DEF Gets
<1>2. /\ DOMAIN s = 1 .. Len(s) /\ Len(s) \in Nat /\ i \in 1 .. Len(s)
      /\ \A j \in DOMAIN s : s[j] \in Kids(t, n)
  BY <1>1 DEF Kids, Range
<1>3. /\ s2 \in Seq(DOMAIN t) /\ DOMAIN s2 = 1 .. Len(s) - 1
      /\ \A j \in 1 .. Len(s) - 1 : s2[j] = IF j < i THEN s[j] ELSE s[j + 1]
  BY <1>1, Removed
<1>4. /\ \A j \in 1 .. i - 1 : j \in DOMAIN s /\ j \in DOMAIN s2 /\ s2[j] = s[j]
      /\ \A j \in i .. Len(s) - 1 : j + 1 \in DOMAIN s /\ j \in DOMAIN s2 /\ s2[j] = s[j + 1]
  BY <1>2, <1>3
<1>5. Listed(t, n) /\ Listed(t2, n)
  BY <1>2, <1>3 DEF Listed
<1>6. CASE slot \in Key
  <2>1. /\ \A j \in 1 .. i - 1 : Meant(t2, n, slot, j) <=> Meant(t, n, slot, j)
        /\ \A j \in i .. Len(s) - 1 : Meant(t2, n, slot, j) <=> Meant(t, n, slot, j + 1)
    BY <1>1, <1>2, <1>4, <1>6 DEF Meant
  <2>2. ASSUME NEW j, First(t, n, slot, j)
        PROVE  \E j2 : First(t2, n, slot, j2) /\ s2[j2] = s[j]
    <3>1. j \in 1 .. Len(s) /\ Meant(t, n, slot, j) /\ \A m \in 1 .. j - 1 : ~Meant(t, n, slot, m)
      BY <1>2, <2>2 DEF First
    <3>2. j # i
      BY <1>6, <3>1
    <3>3. CASE j < i
      <4>1. j \in 1 .. i - 1 /\ \A m \in 1 .. j - 1 : m \in 1 .. i - 1
        BY <1>2, <3>1, <3>3
      <4>2. First(t2, n, slot, j)
        BY <1>4, <2>1, <3>1, <4>1 DEF First
      <4> QED
        BY <1>4, <4>1, <4>2
    <3>4. CASE j > i
      <4>1. j - 1 \in i .. Len(s) - 1 /\ j - 1 + 1 = j
        BY <1>2, <3>1, <3>4
      <4>2. ASSUME NEW m \in 1 .. j - 1 - 1
            PROVE  ~Meant(t2, n, slot, m)
        <5>1. CASE m < i
          BY <1>2, <2>1, <3>1, <4>2, <5>1
        <5>2. CASE m >= i
          <6>1. m \in i .. Len(s) - 1 /\ m + 1 \in 1 .. j - 1
            BY <1>2, <3>1, <4>1, <4>2, <5>2
          <6> QED
            BY <2>1, <3>1, <6>1
        <5> QED
          BY <1>2, <5>1, <5>2
      <4>3. Meant(t2, n, slot, j - 1) /\ s2[j - 1] = s[j]
        BY <1>4, <2>1, <3>1, <4>1
      <4>4. j - 1 \in DOMAIN t2[n].kids
        BY <1>4, <4>1
      <4>5. First(t2, n, slot, j - 1)
        BY <4>2, <4>3, <4>4 DEF First
      <4> QED
        BY <4>3, <4>5
    <3> QED
      BY <1>2, <3>1, <3>2, <3>3, <3>4
  <2>3. ASSUME NEW j, First(t2, n, slot, j)
        PROVE  \E j2 : First(t, n, slot, j2)
    <3>1. j \in 1 .. Len(s) - 1 /\ Meant(t2, n, slot, j) /\ \A m \in 1 .. j - 1 : ~Meant(t2, n, slot, m)
      BY <1>3, <2>3 DEF First
    <3>2. CASE j < i
      BY <1>2, <2>1, <3>1, <3>2 DEF First
    <3>3. CASE j >= i
      <4>1. j \in i .. Len(s) - 1 /\ j + 1 \in 1 .. Len(s)
        BY <1>2, <3>1, <3>3
      <4>2. ASSUME NEW m \in 1 .. j + 1 - 1
            PROVE  ~Meant(t, n, slot, m)
        <5>1. CASE m < i
          BY <1>2, <2>1, <3>1, <3>3, <4>2, <5>1
        <5>2. CASE m = i
          BY <1>6, <5>2
        <5>3. CASE m > i
          <6>1. m - 1 \in i .. Len(s) - 1 /\ m - 1 \in 1 .. j - 1 /\ m - 1 + 1 = m
            BY <1>2, <3>1, <4>2, <5>3
          <6> QED
            BY <2>1, <3>1, <6>1
        <5> QED
          BY <1>2, <5>1, <5>2, <5>3
      <4>3. First(t, n, slot, j + 1)
        BY <1>2, <2>1, <3>1, <4>1, <4>2 DEF First
      <4> QED
        BY <4>3
    <3> QED
      BY <1>2, <3>1, <3>2, <3>3
  <2> QED
    BY <1>1, <1>5, <2>2, <2>3, FindAgrees DEF FirstSame
<1>7. CASE slot \notin Key
  <2>1. slot + 1 \in 1 .. i - 1
    BY <1>2, <1>7
  <2>2. First(t, n, slot, slot + 1) /\ First(t2, n, slot, slot + 1)
    BY <1>2, <1>4, <1>7, <2>1 DEF First, Meant
  <2>3. \A j : (First(t, n, slot, j) \/ First(t2, n, slot, j)) => j = slot + 1
    BY <1>7 DEF First, Meant
  <2> QED
    BY <1>1, <1>4, <1>5, <2>1, <2>2, <2>3, FindAgrees DEF FirstSame
<1> QED
  BY <1>6, <1>7

-----------------------------------------------------------------------------
(* What a step does to a cached object                                      *)

Rising(drop) == \A p \in CachedObjects : Front(p) \in drop => p \in drop

Exempt(p) ==
  \/ Shared(Front(p))
  \/ ByOtherSpelling(Front(p), Last(p))
  \/ ByValue(Front(p), Last(p))

SameFind(t, p) ==
  Focus(Front(p)) \in DOMAIN tree =>
    FindIn(t, Focus(Front(p)), Last(p)) = FindIn(tree, Focus(Front(p)), Last(p))

Untouched(o, p) == o[p] = obj[p] \/ o[p].own # Null \/ o[p].ext = Null

Follows(t, o, drop, gone) ==
  /\ DOMAIN o = DOMAIN obj /\ \A q \in DOMAIN o : o[q] = [own |-> o[q].own, ext |-> o[q].ext]
  /\ Null \notin DOMAIN t \cup gone
  /\ Rising(drop)
  /\ \A p \in CachedObjects \ drop : Untouched(o, p) /\ (SameFind(t, p) \/ Exempt(p))

Followed(p) ==
  InStep(p) =>
    \/ InStep(p)'
    \/ Focus(Front(p))' # Focus(Front(p))
    \/ Shared(Front(p))
    \/ SetItself(p)
    \/ TakenOver
    \/ ByOtherSpelling(Front(p), Last(p))
    \/ ByValue(Front(p), Last(p))

AllFollowed == \A p \in CachedObjects \cap CachedObjects' : Followed(p)

(* Finish leaves every cached object that it does not drop in step, when    *)
(* its parent finds in the new heap what it found before.                   *)
LEMMA FinishFollows ==
  ASSUME HeapInv, HeapInv', CacheInv, NEW t, NEW o, NEW drop, NEW gone,
         Follows(t, o, drop, gone), Finish(t, o, drop, gone)
  PROVE  CacheInv' /\ AllFollowed
<1> DEFINE dead == gone \cup UNION {Below(t, o[q].own) : q \in {d \in drop : o[d].own # Null}}
           left == [q \in DOMAIN o \ drop |->
                      [o[q] EXCEPT !.ext = IF @ \in dead THEN Dangling ELSE @]]
           seen == ({left[q].own : q \in DOMAIN left} \cup {left[q].ext : q \in DOMAIN left})
                     \cap DOMAIN t
           kept == (UNION {Below(t, m) : m \in seen}) \ dead
<1>1. obj' = left /\ tree' = [n \in kept |-> t[n]]
  BY Zenon DEF Finish
<1>2. DOMAIN obj' = DOMAIN obj \ drop
  BY <1>1 DEF Follows
<1>3. Null \notin dead
  BY DEF Follows, Below
<1>4. /\ Trees(tree) /\ Owning(tree, obj) /\ Trees(tree') /\ Owning(tree', obj')
      /\ Null \notin DOMAIN tree /\ Null \notin DOMAIN tree' /\ Dangling \notin DOMAIN tree'
  <2>1. Trees(tree) /\ Owning(tree, obj) /\ Trees(tree') /\ Owning(tree', obj')
    BY DEF HeapInv
  <2>2. Null \notin DOMAIN tree
    BY <2>1, NoNull
  <2>3. Null \notin DOMAIN tree' /\ Dangling \notin DOMAIN tree'
    BY <2>1, NoNull
  <2> QED
    BY <2>1, <2>2, <2>3
<1>5. DOMAIN tree' \cap dead = {} /\ \A m \in DOMAIN tree' : m \in DOMAIN t /\ tree'[m] = t[m]
  <2>1. kept \cap dead = {} /\ kept \subseteq DOMAIN t
    <3> HIDE DEF dead, seen
    <3> QED
      BY Zenon DEF Below
  <2>2. tree' = [n \in kept |-> t[n]]
    BY <1>1
  <2> HIDE DEF kept, dead
  <2> QED
    BY <2>1, <2>2
<1>6. CacheInv'
  BY <1>2 DEF CacheInv, CachedObjects, Follows, Rising
<1>7. \A q \in DOMAIN obj' : obj'[q].own = o[q].own
                          /\ obj'[q].ext = IF o[q].ext \in dead THEN Dangling ELSE o[q].ext
  <2> HIDE DEF dead
  <2>1. ASSUME NEW q \in DOMAIN obj'
        PROVE  /\ obj'[q] = [o[q] EXCEPT !.ext = IF @ \in dead THEN Dangling ELSE @]
               /\ o[q] = [own |-> o[q].own, ext |-> o[q].ext]
    BY <1>1, <2>1 DEF Follows
  <2> QED
    BY <2>1
<1> HIDE DEF dead, left, seen, kept
<1>8. ASSUME NEW p \in CachedObjects \cap CachedObjects', InStep(p), ~Exempt(p), ~SetItself(p),
             Focus(Front(p))' = Focus(Front(p))
      PROVE  InStep(p)'
  <2> DEFINE g == Front(p)
             slot == Last(p)
             n == Focus(g)
             f == Find(g, slot)
  <2>1. /\ p \in DOMAIN obj /\ p \in DOMAIN obj' /\ p \notin drop
        /\ g \in DOMAIN obj /\ g \in DOMAIN obj'
    BY <1>2, <1>6 DEF CachedObjects, CacheInv
  <2>2. Untouched(o, p) /\ (n \in DOMAIN tree => FindIn(t, n, slot) = f) /\ Focus(p) = f
    BY <1>8, <2>1, FindInIs DEF Follows, SameFind, InStep
  <2>3. n \in DOMAIN tree \cup {Null, Dangling} /\ n \in DOMAIN tree' \cup {Null, Dangling}
    <3>1. FocusIn(obj', g) \in DOMAIN tree' \cup {Null, Dangling}
      BY <1>4, <2>1, FocusIs
    <3> QED
      BY <1>4, <1>8, <2>1, <3>1, FocusIs DEF Focus
  <2>4. CASE n \in DOMAIN tree
    <3>1. n \in DOMAIN tree' /\ n \in DOMAIN t /\ tree'[n] = t[n]
      BY <1>4, <1>5, <2>3, <2>4, NoNull
    <3>2. f = Null \/ (f \in Kids(tree, n) /\ f \in DOMAIN tree)
      BY <1>4, <2>4, FindInIs, PositionIs DEF FindIn
    <3>3. Kids(tree', n) \subseteq DOMAIN tree' /\ tree'[n].kids \in Seq(DOMAIN tree')
      BY <1>4, <3>1, TypedIs, TreesTyped
    <3>4. FindIn(t, n, slot) = FindIn(tree', n, slot)
      <4> DEFINE t2 == tree'
      <4>1. \A k \in Kids(t2, n) : t[k].name = t2[k].name
        BY <1>5, <3>3
      <4>2. t[n].kind = t2[n].kind /\ t[n].kids = t2[n].kids /\ Listed(t2, n)
        BY <3>1, <3>3 DEF Listed
      <4> HIDE DEF t2, n, slot
      <4>3. FindIn(t, n, slot) = FindIn(t2, n, slot)
        BY <4>1, <4>2, FindSame
      <4> QED
        BY <4>3 DEF t2
    <3>5. FindIn(tree', n, slot) = f
      BY <2>2, <2>4, <3>4
    <3>6. Find(g, slot)' = f
      <4>1. Focus(g)' = n
        BY <1>8
      <4>2. Find(g, slot)' = FindIn(tree', n, slot)
        BY <3>1, <4>1 DEF Find, KindOf, FindIn
      <4> QED
        BY <3>5, <4>2
    <3>7. f \notin dead
      <4>1. f = Null \/ f \in Kids(tree', n)
        BY <1>4, <3>1, <3>5, PositionIs DEF FindIn
      <4> QED
        BY <1>3, <1>5, <3>3, <4>1
    <3>8. obj[p].own = Null
      <4>1. obj[p].own # Null => obj[p].own = f
        BY <2>2 DEF Focus, FocusIn
      <4> QED
        BY <1>4, <2>1, <2>4, <3>2, <4>1 DEF Owning, Parentless
    <3>9. obj'[p].own = Null /\ obj'[p].own = o[p].own /\ Focus(p)' = obj'[p].ext
      BY <1>7, <1>8, <2>1 DEF SetItself, Focus, FocusIn
    <3>10. Focus(p) = obj[p].ext
      BY <3>8 DEF Focus, FocusIn
    <3>11. obj'[p].ext = f
      <4>1. CASE o[p] = obj[p]
        BY <1>7, <2>1, <2>2, <3>7, <3>10, <4>1
      <4>2. CASE o[p].ext = Null
        BY <1>3, <1>7, <1>8, <2>1, <2>2, <3>9, <4>2 DEF SetItself
      <4> QED
        BY <2>2, <3>9, <4>1, <4>2 DEF Untouched
    <3> QED
      BY <3>6, <3>9, <3>11 DEF InStep
  <2>5. CASE n \notin DOMAIN tree
    <3>1. n \notin DOMAIN tree' /\ f = Null
      BY <1>4, <2>3, <2>5, FindInIs, NoNull
    <3>2. Find(g, slot)' = Null
      <4>1. Focus(g)' = n
        BY <1>8
      <4> QED
        BY <3>1, <4>1 DEF Find, KindOf
    <3>3. obj[p].own = Null /\ obj[p].ext = Null
      BY <2>2, <3>1 DEF Focus, FocusIn
    <3> QED
      BY <1>3, <1>7, <1>8, <2>1, <2>2, <3>2, <3>3 DEF InStep, Untouched, SetItself, Focus, FocusIn
  <2> QED
    BY <2>4, <2>5
<1> QED
  BY <1>6, <1>8, Zenon DEF AllFollowed, Followed, Exempt

-----------------------------------------------------------------------------
(* Ways                                                                     *)

LEMMA LongWay ==
  ASSUME NEW S, NEW p \in Seq(S), Len(p) > 1
  PROVE  /\ Front(p) \in Seq(S) /\ Len(Front(p)) = Len(p) - 1 /\ Len(p) \in Nat
         /\ \A i \in 1 .. Len(p) - 1 : Front(p)[i] = p[i]
         /\ p = Append(Front(p), Last(p)) /\ Last(p) \in S
<1>1. /\ Front(p) \in Seq(S) /\ Len(Front(p)) = Len(p) - 1 /\ Len(p) \in Nat
      /\ \A i \in 1 .. Len(p) - 1 : Front(p)[i] = p[i]
      /\ Last(p) \in S /\ Last(p) = p[Len(p)]
  BY DEF Front, Last
<1> DEFINE q == Append(Front(p), Last(p))
<1>2. q \in Seq(S) /\ Len(q) = Len(p) /\ \A i \in 1 .. Len(p) : q[i] = p[i]
  BY <1>1
<1> HIDE DEF q
<1>3. q = p
  BY <1>2
<1> QED
  BY <1>1, <1>3 DEF q

LEMMA PrefixIs ==
  ASSUME NEW S, NEW p \in Seq(S), NEW w \in Seq(S)
  PROVE  IsPrefix(w, p) <=> Len(w) <= Len(p) /\ \A i \in 1 .. Len(w) : w[i] = p[i]
<1>1. CASE Len(w) <= Len(p)
  <2> DEFINE a == SubSeq(w, 1, Len(w))
             b == SubSeq(p, 1, Len(w))
  <2>1. /\ a \in Seq(S) /\ Len(a) = Len(w) /\ \A i \in 1 .. Len(w) : a[i] = w[i]
        /\ b \in Seq(S) /\ Len(b) = Len(w) /\ \A i \in 1 .. Len(w) : b[i] = p[i]
    BY <1>1
  <2> HIDE DEF a, b
  <2>2. a = b <=> \A i \in 1 .. Len(w) : w[i] = p[i]
    <3>1. a = b => \A i \in 1 .. Len(w) : w[i] = p[i]
      BY <2>1
    <3>2. ASSUME \A i \in 1 .. Len(w) : w[i] = p[i]
          PROVE  a = b
      BY <2>1, <3>2, SeqEqual
    <3> QED
      BY <3>1, <3>2
  <2> QED
    BY <1>1, <2>2 DEF IsPrefix, a, b
<1> QED
  BY <1>1 DEF IsPrefix

Way == Root \cup Key \cup Index

LEMMA WayIs ==
  ASSUME HeapInv, NEW p \in DOMAIN obj
  PROVE  p \in Seq(Way) /\ p # <<>> /\ p[1] \in Root
BY DEF HeapInv, Owning, Path, Way

LEMMA CachedRises ==
  ASSUME HeapInv, CacheInv, NEW p \in DOMAIN obj, NEW slot \in Key \cup Index
  PROVE  /\ Rising(Cached(p, slot))
         /\ \A q \in CachedObjects : Front(q) = p /\ Last(q) = slot => q \in Cached(p, slot)
<1> DEFINE w == Append(p, slot)
<1>1. p \in Seq(Way) /\ w \in Seq(Way) /\ Len(w) = Len(p) + 1
  BY WayIs DEF Way
<1> HIDE DEF w
<1>2. ASSUME NEW q \in CachedObjects
      PROVE  q \in Seq(Way) /\ q \in DOMAIN obj /\ Len(q) > 1 /\ Front(q) \in DOMAIN obj
  BY WayIs DEF CachedObjects, CacheInv
<1>3. ASSUME NEW q \in CachedObjects, Front(q) \in Cached(p, slot)
      PROVE  q \in Cached(p, slot)
  <2>1. IsPrefix(w, Front(q))
    BY <1>3 DEF Cached, w
  <2>2. Front(q) \in Seq(Way) /\ Len(Front(q)) = Len(q) - 1 /\ \A i \in 1 .. Len(q) - 1 : Front(q)[i] = q[i]
        /\ Len(q) \in Nat
    BY <1>2, <1>3, LongWay
  <2>3. Len(w) <= Len(q) - 1 /\ \A i \in 1 .. Len(w) : w[i] = Front(q)[i]
    BY <1>1, <2>1, <2>2, PrefixIs
  <2>4. Len(w) <= Len(q) /\ \A i \in 1 .. Len(w) : w[i] = q[i]
    BY <1>1, <2>2, <2>3
  <2>5. IsPrefix(w, q)
    BY <1>1, <1>2, <1>3, <2>4, PrefixIs
  <2> QED
    BY <1>2, <1>3, <2>5 DEF Cached, w
<1>4. ASSUME NEW q \in CachedObjects, Front(q) = p, Last(q) = slot
      PROVE  q \in Cached(p, slot)
  <2>1. q = w
    BY <1>2, <1>4, LongWay DEF w
  <2>2. IsPrefix(w, q)
    BY <1>1, <2>1, PrefixIs
  <2> QED
    BY <1>2, <1>4, <2>2 DEF Cached, w
<1> QED
  BY <1>3, <1>4 DEF Rising

LEMMA FromRises ==
  ASSUME HeapInv, CacheInv, NEW p \in DOMAIN obj, NEW i \in Nat
  PROVE  /\ Rising(CachedFrom(p, i))
         /\ \A q \in CachedObjects :
              Front(q) = p /\ Last(q) \in Index /\ Last(q) >= i => q \in CachedFrom(p, i)
<1>1. \A j \in Index : Rising(Cached(p, j))
  BY CachedRises
<1>2. Rising(CachedFrom(p, i))
  BY <1>1 DEF Rising, CachedFrom
<1>3. ASSUME NEW q \in CachedObjects, Front(q) = p, Last(q) \in Index, Last(q) >= i
      PROVE  q \in CachedFrom(p, i)
  <2>1. q \in Cached(p, Last(q))
    BY <1>3, CachedRises
  <2> QED
    BY <1>3, <2>1 DEF CachedFrom
<1> QED
  BY <1>2, <1>3

LEMMA AllRises ==
  ASSUME HeapInv, CacheInv, NEW p \in DOMAIN obj
  PROVE  /\ Rising(AllCached(p))
         /\ \A q \in CachedObjects : Front(q) = p => q \in AllCached(p)
<1>1. Rising(CachedFrom(p, 0)) /\ \A k \in Key : Rising(Cached(p, k))
  BY FromRises, CachedRises
<1>2. Rising(AllCached(p))
  BY <1>1 DEF Rising, AllCached, CachedKeys
<1>3. ASSUME NEW q \in CachedObjects, Front(q) = p
      PROVE  q \in AllCached(p)
  <2>1. CASE Last(q) \in Key
    BY <1>3, <2>1, CachedRises DEF AllCached, CachedKeys
  <2>2. CASE Last(q) \in Index
    <3>1. Last(q) >= 0
      BY <2>2, BoundAssumption DEF Index
    <3> QED
      BY <1>3, <2>2, <3>1, FromRises DEF AllCached
  <2> QED
    BY <1>3, <2>1, <2>2 DEF CacheInv
<1> QED
  BY <1>2, <1>3

LEMMA NoneRises == Rising({})
BY DEF Rising

LEMMA CacheFollowed ==
  ASSUME HeapInv, CacheInv, NEW p \in DOMAIN obj, NEW slot \in Key \cup Index, Cache(p, slot)
  PROVE  CacheInv' /\ AllFollowed
<1> DEFINE w == Append(p, slot)
<1>1. /\ tree' = tree /\ DOMAIN obj' = DOMAIN obj \cup {w}
      /\ \A q \in DOMAIN obj : obj'[q] = obj[q]
  BY DEF Cache
<1>2. p \in Seq(Way) /\ w \in Seq(Way) /\ Len(w) = Len(p) + 1 /\ Len(p) \in Nat
  BY WayIs DEF Way
<1>3. Front(w) = p /\ Last(w) = slot
  <2>1. /\ Len(w) - 1 = Len(p) /\ w[Len(w)] = slot /\ \A i \in 1 .. Len(p) : w[i] = p[i]
    BY <1>2
  <2>2. Front(w) = SubSeq(w, 1, Len(p))
    BY <2>1 DEF Front
  <2>3. Front(w) \in Seq(Way) /\ Len(Front(w)) = Len(p) /\ \A i \in 1 .. Len(p) : Front(w)[i] = p[i]
    BY <1>2, <2>1, <2>2
  <2>4. Front(w) = p
    BY <1>2, <2>3
  <2> QED
    BY <2>1, <2>4 DEF Last
<1> HIDE DEF w
<1>4. CacheInv'
  BY <1>1, <1>3 DEF CacheInv, CachedObjects
<1>5. ASSUME NEW q \in CachedObjects, InStep(q)
      PROVE  InStep(q)'
  <2>1. q \in DOMAIN obj /\ Front(q) \in DOMAIN obj
    BY <1>5 DEF CachedObjects, CacheInv
  <2>2. Focus(q)' = Focus(q) /\ Focus(Front(q))' = Focus(Front(q))
    BY <1>1, <2>1 DEF Focus, FocusIn
  <2> QED
    BY <1>1, <1>5, <2>2 DEF InStep, Find, KindOf
<1> QED
  BY <1>4, <1>5 DEF AllFollowed, Followed

(* What is renamed with a document keeps what it was cached by.             *)
LEMMA TakenWay ==
  ASSUME NEW r \in Root, NEW q \in Seq(Way), q # <<>>
  PROVE  /\ <<r>> \o Tail(q) \in Seq(Way) /\ Len(<<r>> \o Tail(q)) = Len(q)
         /\ (<<r>> \o Tail(q))[1] = r
         /\ \A i \in 2 .. Len(q) : (<<r>> \o Tail(q))[i] = q[i]
<1>1. /\ Tail(q) \in Seq(Way) /\ Len(Tail(q)) = Len(q) - 1 /\ Len(q) \in Nat \ {0}
      /\ \A i \in 1 .. Len(q) - 1 : Tail(q)[i] = q[i + 1]
  OBVIOUS
<1>2. <<r>> \in Seq(Way) /\ Len(<<r>>) = 1 /\ <<r>>[1] = r
  BY DEF Way
<1>3. /\ <<r>> \o Tail(q) \in Seq(Way)
      /\ Len(<<r>> \o Tail(q)) = Len(<<r>>) + Len(Tail(q))
      /\ \A j \in 1 .. Len(<<r>>) : (<<r>> \o Tail(q))[j] = <<r>>[j]
      /\ \A j \in 1 .. Len(Tail(q)) : (<<r>> \o Tail(q))[Len(<<r>>) + j] = Tail(q)[j]
  BY <1>1, <1>2, Joined
<1>4. ASSUME NEW i \in 2 .. Len(q)
      PROVE  (<<r>> \o Tail(q))[i] = q[i]
  <2>1. i - 1 \in 1 .. Len(q) - 1 /\ 1 + (i - 1) = i /\ i - 1 + 1 = i
    BY <1>1
  <2>2. (<<r>> \o Tail(q))[1 + (i - 1)] = Tail(q)[i - 1] /\ Tail(q)[i - 1] = q[i - 1 + 1]
    BY <1>1, <1>2, <1>3, <2>1
  <2> QED
    BY <2>1, <2>2
<1> QED
  BY <1>1, <1>2, <1>3, <1>4

LEMMA TakenFront ==
  ASSUME NEW r \in Root, NEW q \in Seq(Way), Len(q) > 1
  PROVE  /\ Front(<<r>> \o Tail(q)) = <<r>> \o Tail(Front(q))
         /\ Last(<<r>> \o Tail(q)) = Last(q) /\ Front(q)[1] = q[1]
<1> DEFINE w == <<r>> \o Tail(q)
           f == Front(q)
           wf == <<r>> \o Tail(f)
<1>1. /\ f \in Seq(Way) /\ Len(f) = Len(q) - 1 /\ Len(q) \in Nat
      /\ \A i \in 1 .. Len(q) - 1 : f[i] = q[i]
  BY LongWay
<1>2. f # <<>> /\ q # <<>> /\ f[1] = q[1]
  BY <1>1
<1> HIDE DEF w, f, wf
<1>3. w \in Seq(Way) /\ Len(w) = Len(q) /\ w[1] = r /\ \A i \in 2 .. Len(q) : w[i] = q[i]
  BY <1>2, TakenWay DEF w
<1>4. wf \in Seq(Way) /\ Len(wf) = Len(f) /\ wf[1] = r /\ \A i \in 2 .. Len(f) : wf[i] = f[i]
  BY <1>1, <1>2, TakenWay DEF wf
<1>5. /\ Front(w) \in Seq(Way) /\ Len(Front(w)) = Len(w) - 1
      /\ \A i \in 1 .. Len(w) - 1 : Front(w)[i] = w[i]
  BY <1>3, LongWay
<1>6. ASSUME NEW i \in 1 .. Len(f)
      PROVE  Front(w)[i] = wf[i]
  <2>1. CASE i = 1
    BY <1>1, <1>3, <1>4, <1>5, <2>1
  <2>2. CASE i # 1
    <3>1. i \in 2 .. Len(f) /\ i \in 2 .. Len(q) /\ i \in 1 .. Len(q) - 1
      BY <1>1, <2>2
    <3> QED
      BY <1>1, <1>3, <1>4, <1>5, <3>1
  <2> QED
    BY <2>1, <2>2
<1>7. Front(w) = wf
  <2>1. Len(Front(w)) = Len(wf) /\ \A i \in 1 .. Len(Front(w)) : Front(w)[i] = wf[i]
    BY <1>1, <1>3, <1>4, <1>5, <1>6
  <2>2. Front(w) \in Seq(Way) /\ wf \in Seq(Way)
    BY <1>4, <1>5
  <2> HIDE DEF Front
  <2> QED
    BY <2>1, <2>2, SeqEqual
<1>8. Last(w) = Last(q)
  BY <1>1, <1>3 DEF Last
<1> QED
  BY <1>2, <1>7, <1>8 DEF w, f, wf

LEMMA MoveFollowed ==
  ASSUME HeapInv, CacheInv, NEW r \in Root, NEW s \in Root, MoveAssign(r, s)
  PROVE  CacheInv' /\ AllFollowed
<1> DEFINE lost == AllCached(<<r>>) \cup {<<r>>}
           rest == DOMAIN obj \ lost
           To(q) == IF q[1] = s THEN <<r>> \o Tail(q) ELSE q
<1>1. DOMAIN obj' = {To(q) : q \in rest} \cup {<<s>>}
  BY Zenon DEF MoveAssign, Finish
<1>2. <<r>> \in DOMAIN obj /\ <<s>> \in Seq(Way) /\ Len(<<s>>) = 1
  BY DEF HeapInv, Owning, Way
<1>3. ASSUME NEW w \in DOMAIN obj', Len(w) > 1
      PROVE  Front(w) \in DOMAIN obj' /\ Last(w) \in Key \cup Index
  <2>1. PICK q \in rest : w = To(q)
    <3>1. w # <<s>>
      <4> SUFFICES ASSUME w = <<s>> PROVE FALSE
        OBVIOUS
      <4>1. Len(<<s>>) > 1
        BY <1>3
      <4> QED
        BY <4>1
    <3> HIDE DEF rest, To
    <3> QED
      BY <1>1, <3>1
  <2>2. q \in DOMAIN obj /\ q \in Seq(Way) /\ q # <<>>
    BY WayIs
  <2>3. Len(q) > 1
    BY <1>3, <2>1, <2>2, TakenWay
  <2>4. q \in CachedObjects
    BY <2>2, <2>3 DEF CachedObjects
  <2>5. Front(q) \in DOMAIN obj /\ Last(q) \in Key \cup Index
    BY <2>4 DEF CacheInv
  <2>6. Front(q) \in rest
    <3>1. Front(q) # <<r>>
      BY <1>2, <2>1, <2>4, AllRises
    <3>2. Front(q) \notin AllCached(<<r>>)
      BY <1>2, <2>1, <2>4, AllRises DEF Rising
    <3> QED
      BY <2>5, <3>1, <3>2
  <2> HIDE DEF rest
  <2>7. Front(w) = To(Front(q)) /\ Last(w) = Last(q)
    BY <2>1, <2>2, <2>3, TakenFront
  <2> QED
    BY <1>1, <2>5, <2>6, <2>7
<1>4. CacheInv'
  BY <1>3 DEF CacheInv, CachedObjects
<1>5. TakenOver
  BY DEF TakenOver
<1> QED
  BY <1>4, <1>5, Zenon DEF AllFollowed, Followed

-----------------------------------------------------------------------------
(* Where a change of one list shows                                         *)

Grows(t) ==
  Trees(t) /\ DOMAIN tree \subseteq DOMAIN t /\ \A m \in DOMAIN tree : t[m] = tree[m]

(* The list of n becomes s, and of the items only x may get another name.   *)
Rewires(t, t2, n, s, x) ==
  /\ DOMAIN t2 = DOMAIN t
  /\ \A m \in DOMAIN t : /\ t2[m].kind = t[m].kind
                         /\ t2[m].kids = IF m = n THEN s ELSE t[m].kids
                         /\ m # x => t2[m].name = t[m].name

LEMMA GrowsFind ==
  ASSUME Trees(tree), NEW t, Grows(t), NEW n \in DOMAIN tree, NEW slot
  PROVE  FindIn(t, n, slot) = FindIn(tree, n, slot)
<1>1. Listed(tree, n) /\ Kids(tree, n) \subseteq DOMAIN tree
  BY ListedIs
<1>2. t[n] = tree[n] /\ \A k \in Kids(tree, n) : t[k].name = tree[k].name
  BY <1>1 DEF Grows
<1> QED
  BY <1>1, <1>2, FindSame

LEMMA ElsewhereFind ==
  ASSUME Trees(tree), NEW t, Grows(t), NEW t2, NEW n0, NEW s, NEW x,
         Rewires(t, t2, n0, s, x), Parentless(t, x), NEW n \in DOMAIN tree, n # n0, NEW slot
  PROVE  FindIn(t2, n, slot) = FindIn(tree, n, slot)
<1>1. Listed(tree, n) /\ Kids(tree, n) \subseteq DOMAIN tree
  BY ListedIs
<1>2. n \in DOMAIN t /\ t[n] = tree[n] /\ \A k \in Kids(tree, n) : k \in DOMAIN t /\ t[k].name = tree[k].name
  BY <1>1 DEF Grows
<1>3. x \notin Kids(tree, n)
  BY <1>2 DEF Parentless, Kids
<1>4. /\ t2[n].kind = tree[n].kind /\ t2[n].kids = tree[n].kids
      /\ \A k \in Kids(tree, n) : t2[k].name = tree[k].name
  BY <1>2, <1>3 DEF Rewires
<1> QED
  BY <1>1, <1>4, FindSame

-----------------------------------------------------------------------------
(* When all caches follow a change                                          *)

Shaped(o) ==
  /\ DOMAIN o = DOMAIN obj /\ \A q \in DOMAIN o : o[q] = [own |-> o[q].own, ext |-> o[q].ext]
  /\ \A q \in CachedObjects : Untouched(o, q)

LEMMA GrowsFollows ==
  ASSUME HeapInv, CacheInv, NEW t, Grows(t), NEW o, Shaped(o), NEW drop, Rising(drop),
         NEW gone, gone \subseteq DOMAIN tree
  PROVE  Follows(t, o, drop, gone)
<1>1. Null \notin DOMAIN t \cup gone
  BY NoNull DEF HeapInv, Grows
<1>2. \A q \in CachedObjects : SameFind(t, q)
  BY GrowsFind DEF SameFind, HeapInv
<1> QED
  BY <1>1, <1>2 DEF Follows, Shaped

LEMMA ChangeFollows ==
  ASSUME HeapInv, CacheInv, NEW p \in DOMAIN obj,
         NEW t, Grows(t), NEW t2, NEW n, NEW s, NEW x, Rewires(t, t2, n, s, x), Parentless(t, x),
         NEW o, Shaped(o), NEW drop, Rising(drop), NEW gone, gone \subseteq DOMAIN tree,
         n \in DOMAIN tree => Focus(p) = n,
         \A q \in CachedObjects \ drop :
           n \in DOMAIN tree /\ Front(q) = p =>
             FindIn(t2, n, Last(q)) = FindIn(tree, n, Last(q)) \/ Exempt(q)
  PROVE  Follows(t2, o, drop, gone)
<1>1. Null \notin DOMAIN t2 \cup gone /\ Null \notin DOMAIN tree
  BY NoNull DEF HeapInv, Grows, Rewires
<1>2. ASSUME NEW q \in CachedObjects \ drop
      PROVE  SameFind(t2, q) \/ Exempt(q)
  <2>1. Front(q) \in DOMAIN obj
    BY DEF CacheInv
  <2>2. CASE Focus(Front(q)) \notin DOMAIN tree
    BY <2>2 DEF SameFind
  <2>3. CASE Focus(Front(q)) \in DOMAIN tree /\ Focus(Front(q)) # n
    BY <2>3, ElsewhereFind DEF SameFind, HeapInv
  <2>4. CASE Focus(Front(q)) \in DOMAIN tree /\ Focus(Front(q)) = n
    <3>1. Focus(p) = Focus(Front(q)) /\ Focus(Front(q)) # Null
      BY <1>1, <2>4
    <3>2. CASE Front(q) = p
      BY <2>4, <3>2 DEF SameFind
    <3>3. CASE Front(q) # p
      BY <3>1, <3>3 DEF Exempt, Shared
    <3> QED
      BY <3>2, <3>3
  <2> QED
    BY <2>2, <2>3, <2>4
<1> QED
  BY <1>1, <1>2 DEF Follows, Shaped

LEMMA NamesAgree ==
  /\ \A k \in Key : SameName(k, k)
  /\ \A k1, k2, k3 : SameName(k1, k2) /\ SameName(k1, k3) => SameName(k2, k3)
BY KeyAssumption DEF SameName

(* Of an object: items under other names are found as before.               *)
LEMMA KeyChangeFollows ==
  ASSUME HeapInv, CacheInv, NEW p \in DOMAIN obj, NEW key \in Key, OnKey(p, key),
         NEW t, Grows(t), NEW t2, NEW n, NEW s, NEW x, Rewires(t, t2, n, s, x), Parentless(t, x),
         NEW o, Shaped(o), NEW drop, Rising(drop), NEW gone, gone \subseteq DOMAIN tree,
         n \in DOMAIN tree => Focus(p) = n /\ tree[n].kind = "object",
         \A q \in CachedObjects \ drop : Front(q) = p /\ Last(q) = key => Exempt(q),
         \A slot \in Key : n \in DOMAIN tree /\ ~SameName(key, slot) =>
                             FindIn(t2, n, slot) = FindIn(tree, n, slot)
  PROVE  Follows(t2, o, drop, gone)
<1> SUFFICES ASSUME NEW q \in CachedObjects \ drop, n \in DOMAIN tree, Front(q) = p
             PROVE  FindIn(t2, n, Last(q)) = FindIn(tree, n, Last(q)) \/ Exempt(q)
  BY ChangeFollows
<1>1. CASE Last(q) \notin Key
  <2>1. t2[n].kind = "object" /\ tree[n].kind = "object"
    BY DEF Rewires, Grows
  <2> QED
    BY <1>1, <2>1 DEF FindIn
<1>2. CASE Last(q) \in Key /\ SameName(key, Last(q)) /\ Last(q) # key
  BY <1>2 DEF Exempt, ByOtherSpelling
<1> QED
  BY <1>1, <1>2

(* Of an array: what is left in the cache is found as before.               *)
LEMMA IndexChangeFollows ==
  ASSUME HeapInv, CacheInv, NEW p \in DOMAIN obj,
         NEW t, Grows(t), NEW t2, NEW n, NEW s, NEW x, Rewires(t, t2, n, s, x), Parentless(t, x),
         NEW o, Shaped(o), NEW drop, Rising(drop), NEW gone, gone \subseteq DOMAIN tree,
         n \in DOMAIN tree => Focus(p) = n /\ tree[n].kind = "array",
         \A q \in CachedObjects \ drop :
           n \in DOMAIN tree /\ Front(q) = p /\ Last(q) \in Index =>
             FindIn(t2, n, Last(q)) = FindIn(tree, n, Last(q)) \/ Exempt(q)
  PROVE  Follows(t2, o, drop, gone)
<1> SUFFICES ASSUME NEW q \in CachedObjects \ drop, n \in DOMAIN tree, Front(q) = p
             PROVE  FindIn(t2, n, Last(q)) = FindIn(tree, n, Last(q)) \/ Exempt(q)
  BY ChangeFollows
<1>1. CASE Last(q) \in Key
  <2>1. t2[n].kind = "array" /\ tree[n].kind = "array"
    BY DEF Rewires, Grows
  <2> QED
    BY <1>1, <2>1 DEF FindIn
<1>2. CASE Last(q) \in Index
  BY <1>2
<1> QED
  BY <1>1, <1>2 DEF CacheInv

LEMMA KidsRewire ==
  ASSUME NEW t, Trees(t), NEW n \in DOMAIN t, NEW s, NEW x
  PROVE  Rewires(t, [t EXCEPT ![n].kids = s], n, s, x)
<1> DEFINE t2 == [t EXCEPT ![n].kids = s]
<1>1. /\ DOMAIN t2 = DOMAIN t /\ \A m \in DOMAIN t : m # n => t2[m] = t[m]
      /\ t2[n] = [t[n] EXCEPT !.kids = s]
  OBVIOUS
<1>2. t[n] = [kind |-> t[n].kind, name |-> t[n].name, kids |-> t[n].kids]
  BY ItemsIs DEF Items
<1>3. t2[n].kind = t[n].kind /\ t2[n].name = t[n].name /\ t2[n].kids = s
  BY <1>1, <1>2
<1> HIDE DEF t2
<1>4. Rewires(t, t2, n, s, x)
  BY <1>1, <1>3 DEF Rewires
<1> QED
  BY <1>4 DEF t2

Relisted(t, n, s, x, key) == [[t EXCEPT ![n].kids = s] EXCEPT ![x].name = key]

LEMMA NameRewires ==
  ASSUME NEW t, Trees(t), NEW n \in DOMAIN t, NEW s, NEW x \in DOMAIN t, NEW key \in Key
  PROVE  Rewires(t, Relisted(t, n, s, x, key), n, s, x) /\ Relisted(t, n, s, x, key)[x].name = key
<1> DEFINE t1 == [t EXCEPT ![n].kids = s]
           t2 == Relisted(t, n, s, x, key)
<1>1. Rewires(t, t1, n, s, x) /\ Relinks(t, t1, n, s)
  BY KidsRewire, ItemsIs, SetKids
<1>2. t2 = [t1 EXCEPT ![x].name = key]
  BY DEF Relisted
<1> HIDE DEF t1, t2
<1>3. PICK name : t1[x] = [kind |-> t[x].kind, name |-> name, kids |-> IF x = n THEN s ELSE t[x].kids]
  BY <1>1 DEF Relinks
<1>4. t2[x] = [t1[x] EXCEPT !.name = key] /\ \A m \in DOMAIN t : m # x => t2[m] = t1[m]
  BY <1>1, <1>2 DEF Rewires
<1>5. t2[x].name = key /\ t2[x].kind = t1[x].kind /\ t2[x].kids = t1[x].kids
  BY <1>3, <1>4
<1>6. DOMAIN t2 = DOMAIN t
  BY <1>1, <1>2 DEF Rewires
<1>7. Rewires(t, t2, n, s, x)
  BY <1>1, <1>4, <1>5, <1>6 DEF Rewires
<1> QED
  BY <1>5, <1>7 DEF t2

-----------------------------------------------------------------------------
(* The heap and the objects with the new item                               *)

Ready(made, p) ==
  /\ Grows(made.t) /\ Shaped(made.o)
  /\ Focus(p) \in DOMAIN tree \/ FocusIn(made.o, p) \in DOMAIN tree =>
       Focus(p) = FocusIn(made.o, p)
  /\ made.x # Null => Loose(made.t, made.o, FocusIn(made.o, p), made.x)

LEMMA ReadyIs ==
  ASSUME HeapInv, NEW st, NEW made, NEW p, Opens(st, p), MadeFor(st, made, p),
         \A q \in CachedObjects : Untouched(made.o, q)
  PROVE  Ready(made, p)
<1>1. Grows(made.t)
  BY DEF Grows, MadeFor, Opens
<1>2. Shaped(made.o)
  <2>1. \A q \in DOMAIN made.o : made.o[q] = [own |-> made.o[q].own, ext |-> made.o[q].ext]
    BY FocusIs DEF MadeFor
  <2> QED
    BY <2>1 DEF Shaped, MadeFor
<1>3. Null \notin DOMAIN tree
  BY NoNull DEF HeapInv
<1> QED
  BY <1>1, <1>2, <1>3 DEF Ready, MadeFor, Opens

LEMMA OpenedUntouched ==
  ASSUME HeapInv, NEW p \in DOMAIN obj, NEW kind, Room(1)
  PROVE  \A q \in CachedObjects : Untouched(Opened(p, kind).o, q)
<1>1. CASE Focus(p) # Null
  BY <1>1 DEF Opened, Untouched
<1>2. CASE Focus(p) = Null
  <2> DEFINE x == New(tree)
             o == [obj EXCEPT ![p].own = x]
  <2>1. Opened(p, kind).o = o
    BY <1>2 DEF Opened
  <2>2. x # Null
    <3>1. x \in Free(tree)
      BY FreeIs DEF Room, New
    <3> QED
      BY <3>1 DEF Free, Node, Null
  <2> HIDE DEF x
  <2>3. obj[p] = [own |-> obj[p].own, ext |-> obj[p].ext]
    BY FocusIs DEF HeapInv
  <2>4. o[p] = [obj[p] EXCEPT !.own = x] /\ \A q \in DOMAIN obj : q # p => o[q] = obj[q]
    OBVIOUS
  <2>5. o[p].own = x
    BY <2>3, <2>4
  <2> HIDE DEF o
  <2> QED
    BY <2>1, <2>2, <2>4, <2>5 DEF Untouched, CachedObjects
<1> QED
  BY <1>1, <1>2

LEMMA MovedUntouched ==
  ASSUME NEW st, NEW p, \A q \in CachedObjects : Untouched(st.o, q), DOMAIN st.o = DOMAIN obj
  PROVE  \A q \in CachedObjects : Untouched(Moved(st, p).o, q)
<1> SUFFICES ASSUME NEW q \in CachedObjects
             PROVE  Untouched(Moved(st, p).o, q)
  OBVIOUS
<1>1. q # Other(p)
  <2> SUFFICES ASSUME q = Other(p) PROVE FALSE
    OBVIOUS
  <2> DEFINE r == CHOOSE w \in Root : w # p[1]
  <2>1. Other(p) = <<r>>
    BY DEF Other
  <2> HIDE DEF r
  <2>2. Len(<<r>>) > 1
    BY <2>1 DEF CachedObjects
  <2> QED
    BY <2>2
<1>2. Moved(st, p).o[q] = st.o[q]
  BY <1>1 DEF Moved, CachedObjects
<1> QED
  BY <1>2 DEF Untouched

LEMMA FreshUntouched ==
  ASSUME NEW st, NEW kind, NEW p, \A q \in CachedObjects : Untouched(st.o, q)
  PROVE  /\ \A q \in CachedObjects : Untouched(Fresh(st, kind).o, q)
         /\ \A q \in CachedObjects : Untouched(Copied(st, p).o, q)
<1>1. Fresh(st, kind).o = st.o /\ Copied(st, p).o = st.o
  BY DEF Fresh, Copied
<1> QED
  BY <1>1

LEMMA HereUntouched == \A q \in CachedObjects : Untouched(Here.o, q)
BY DEF Here, Untouched

(* As for HeapInv, an item is made for an Add or for a Replace.             *)
LEMMA AddReady ==
  ASSUME HeapInv, NEW p \in DOMAIN obj, Focus(p) # Dangling, NEW kind \in {"object", "array"}
  PROVE  /\ Room(2) => \A sort \in {"object", "array", "value"} : Ready(Fresh(Opened(p, kind), sort), p)
         /\ MayCopy(p) /\ Room(1 + Weight(Other(p))) => Ready(Copied(Opened(p, kind), p), p)
         /\ MayMove(p) /\ Room(1) => Ready(Moved(Opened(p, kind), p), p)
<1> DEFINE st == Opened(p, kind)
<1>1. IsFiniteSet(Free(tree)) /\ Cardinality(Free(tree)) \in Nat /\ Weight(Other(p)) \in Nat
  BY FreeIs, WeightIs
<1>2. /\ Room(2) => Room(1) /\ Room(1 + 1)
      /\ Room(1 + Weight(Other(p))) => Room(1)
      /\ Room(1) => Room(1 + 0)
  BY <1>1 DEF Room
<1>3. ASSUME Room(1)
      PROVE  Opens(st, p) /\ \A q \in CachedObjects : Untouched(st.o, q)
  BY <1>2, <1>3, OpenedOpens, OpenedUntouched
<1>4. ASSUME Room(2), NEW sort \in {"object", "array", "value"}
      PROVE  Ready(Fresh(st, sort), p)
  <2>1. MadeFor(st, Fresh(st, sort), p)
    BY <1>4, OpenedFresh
  <2> HIDE DEF st
  <2> QED
    BY <1>2, <1>3, <1>4, <2>1, FreshUntouched, ReadyIs
<1>5. ASSUME MayCopy(p), Room(1 + Weight(Other(p)))
      PROVE  Ready(Copied(st, p), p)
  <2>1. MadeFor(st, Copied(st, p), p)
    BY <1>5, OpenedCopied
  <2> HIDE DEF st
  <2> QED
    BY <1>2, <1>3, <1>5, <2>1, FreshUntouched, ReadyIs
<1>6. ASSUME MayMove(p), Room(1)
      PROVE  Ready(Moved(st, p), p)
  <2>1. MadeFor(st, Moved(st, p), p)
    BY <1>6, OpenedMoved
  <2> HIDE DEF st
  <2> QED
    BY <1>3, <1>6, <2>1, MovedUntouched, ReadyIs DEF Opens
<1> QED
  BY <1>4, <1>5, <1>6

LEMMA ReplaceReady ==
  ASSUME HeapInv, NEW p \in DOMAIN obj, Focus(p) \in DOMAIN tree
  PROVE  /\ Room(1) => Ready(Fresh(Here, "value"), p)
         /\ MayCopy(p) /\ Room(Weight(Other(p))) => Ready(Copied(Here, p), p)
         /\ MayMove(p) => Ready(Moved(Here, p), p)
<1>1. Opens(Here, p) /\ Here.t = tree /\ DOMAIN Here.o = DOMAIN obj
  BY HereOpens DEF Here
<1>2. ASSUME Room(1)
      PROVE  Ready(Fresh(Here, "value"), p)
  <2>1. MadeFor(Here, Fresh(Here, "value"), p)
    BY <1>1, <1>2, FreeIs, FreshIsMade DEF Room
  <2> QED
    BY <1>1, <2>1, HereUntouched, FreshUntouched, ReadyIs
<1>3. ASSUME MayCopy(p), Room(Weight(Other(p)))
      PROVE  Ready(Copied(Here, p), p)
  <2>1. MadeFor(Here, Copied(Here, p), p)
    BY <1>1, <1>3, CopiedIsMade DEF Room
  <2> QED
    BY <1>1, <2>1, HereUntouched, FreshUntouched, ReadyIs
<1>4. ASSUME MayMove(p)
      PROVE  Ready(Moved(Here, p), p)
  <2>1. MadeFor(Here, Moved(Here, p), p)
    BY <1>1, <1>4, MovedIsMade
  <2> QED
    BY <1>1, <2>1, HereUntouched, MovedUntouched, ReadyIs
<1> QED
  BY <1>2, <1>3, <1>4

-----------------------------------------------------------------------------
(* Operations that add                                                      *)

LEMMA AddItemFollows ==
  ASSUME HeapInv, HeapInv', CacheInv, NEW p \in DOMAIN obj, NEW key \in Key,
         OnKey(p, key), CanAdd(p, key), NEW made, Ready(made, p),
         NEW drop, Rising(drop), AddItem(p, key, made, drop),
         \A q \in CachedObjects \ drop : Front(q) = p /\ Last(q) = key => Exempt(q)
  PROVE  CacheInv' /\ AllFollowed
<1> DEFINE t == made.t
           o == made.o
           x == made.x
           n == FocusIn(made.o, p)
           s == Append(t[n].kids, x)
           t2 == AddToObject(t, n, key, x)
<1>1. /\ Grows(t) /\ Shaped(o) /\ (n \in DOMAIN tree => Focus(p) = n)
      /\ x # Null => Loose(t, o, n, x)
  BY DEF Ready
<1>2. Trees(tree) /\ Trees(t) /\ Null \notin DOMAIN tree
  BY <1>1, NoNull DEF HeapInv, Grows
<1>3. CASE x = Null
  <2>1. Finish(t, o, {}, {})
    BY <1>3 DEF AddItem
  <2>2. Follows(t, o, {}, {})
    BY <1>1, NoneRises, GrowsFollows
  <2> QED
    BY <2>1, <2>2, FinishFollows
<1>4. CASE x # Null
  <2>1. Finish(t2, o, drop, {})
    BY <1>4 DEF AddItem
  <2> HIDE DEF t, o, x, n
  <2>2. /\ n \in DOMAIN t /\ x \in DOMAIN t /\ Parentless(t, x)
        /\ t[n].kids \in Seq(DOMAIN t) /\ x \notin Kids(t, n)
    BY <1>1, <1>2, <1>4, LooseIs DEF Loose, Kids
  <2>3. t2 = Relisted(t, n, s, x, key)
    BY <2>2 DEF AddToObject, Relisted
  <2> HIDE DEF t2
  <2>4. Rewires(t, t2, n, s, x) /\ t2[x].name = key
    <3> HIDE DEF s
    <3> QED
      BY <1>2, <2>2, <2>3, NameRewires
  <2>5. n \in DOMAIN tree => Focus(p) = n /\ tree[n].kind = "object"
    BY <1>1, <1>2 DEF CanAdd, KindOf
  <2>6. ASSUME NEW slot \in Key, n \in DOMAIN tree, ~SameName(key, slot)
        PROVE  FindIn(t2, n, slot) = FindIn(tree, n, slot)
    <3>1. Gets(t, t2, n, s)
      BY <1>2, <2>2, <2>4, ListedIs DEF Rewires, Gets
    <3>2. ~Meant(t2, n, slot, Len(t[n].kids) + 1)
      BY <2>2, <2>4, <2>6, <3>1 DEF Meant, Gets
    <3>3. FindIn(t2, n, slot) = FindIn(t, n, slot)
      BY <1>2, <2>2, <3>1, <3>2, FindAppended
    <3> QED
      BY <1>1, <1>2, <2>6, <3>3, GrowsFind
  <2>7. Follows(t2, o, drop, {})
    <3> HIDE DEF s
    <3> QED
      BY <1>1, <2>2, <2>4, <2>5, <2>6, KeyChangeFollows
  <2> QED
    BY <2>1, <2>7, FinishFollows
<1> QED
  BY <1>3, <1>4

LEMMA AppendItemFollows ==
  ASSUME HeapInv, HeapInv', CacheInv, NEW p \in DOMAIN obj, CanAppend(p),
         NEW made, Ready(made, p), NEW object \in BOOLEAN, AppendItem(p, made, object),
         ~object => AppendValue(p)
  PROVE  CacheInv' /\ AllFollowed
<1> DEFINE t == made.t
           o == made.o
           x == made.x
           n == FocusIn(made.o, p)
           len == Len(t[n].kids)
           s == Append(t[n].kids, x)
           t2 == AddToArray(t, n, x)
           drop == IF object THEN CachedFrom(p, Len(t2[n].kids) - 1) ELSE {}
<1>1. /\ Grows(t) /\ Shaped(o) /\ (n \in DOMAIN tree => Focus(p) = n)
      /\ x # Null => Loose(t, o, n, x)
  BY DEF Ready
<1>2. Trees(tree) /\ Trees(t) /\ Null \notin DOMAIN tree
  BY <1>1, NoNull DEF HeapInv, Grows
<1>3. CASE x = Null
  <2>1. Finish(t, o, {}, {})
    BY <1>3 DEF AppendItem
  <2>2. Follows(t, o, {}, {})
    BY <1>1, NoneRises, GrowsFollows
  <2> QED
    BY <2>1, <2>2, FinishFollows
<1>4. CASE x # Null
  <2>1. Finish(t2, o, drop, {})
    BY <1>4 DEF AppendItem
  <2> HIDE DEF t, o, x, n, drop
  <2>2. /\ n \in DOMAIN t /\ x \in DOMAIN t /\ Parentless(t, x)
        /\ t[n].kids \in Seq(DOMAIN t) /\ x \notin Kids(t, n) /\ len \in Nat
    BY <1>1, <1>2, <1>4, LooseIs DEF Loose, Kids
  <2>3. t2 = [t EXCEPT ![n].kids = s]
    BY <2>2 DEF AddToArray
  <2> HIDE DEF t2
  <2>4. Rewires(t, t2, n, s, x)
    <3> HIDE DEF s
    <3> QED
      BY <1>2, <2>2, <2>3, KidsRewire
  <2>5. Gets(t, t2, n, s)
    BY <1>2, <2>2, <2>4, ListedIs DEF Rewires, Gets
  <2>6. Len(t2[n].kids) - 1 = len
    BY <2>2, <2>5 DEF Gets
  <2>7. Rising(drop)
    BY <2>2, <2>6, FromRises, NoneRises DEF drop
  <2>8. n \in DOMAIN tree => Focus(p) = n /\ tree[n].kind = "array"
    BY <1>1, <1>2 DEF CanAppend, KindOf
  <2>9. ASSUME NEW q \in CachedObjects \ drop, n \in DOMAIN tree, Front(q) = p, Last(q) \in Index
        PROVE  FindIn(t2, n, Last(q)) = FindIn(tree, n, Last(q)) \/ Exempt(q)
    <3>1. Last(q) \notin Key /\ Last(q) \in Nat
      BY <2>9, BoundAssumption, KeyAssumption DEF Index
    <3>2. CASE Last(q) # len
      <4>1. ~Meant(t2, n, Last(q), len + 1)
        BY <2>2, <3>1, <3>2 DEF Meant
      <4>2. FindIn(t2, n, Last(q)) = FindIn(t, n, Last(q))
        BY <1>2, <2>2, <2>5, <4>1, FindAppended
      <4> QED
        BY <1>1, <1>2, <2>9, <4>2, GrowsFind
    <3>3. CASE Last(q) = len
      <4>1. ~object
        <5>1. object => q \in drop
          BY <2>2, <2>6, <2>9, <3>3, FromRises DEF drop
        <5> QED
          BY <2>9, <5>1
      <4>2. tree[n].kids = t[n].kids /\ Listed(tree, n)
        BY <1>1, <1>2, <2>9, ListedIs DEF Grows
      <4>3. \A i : ~First(tree, n, Last(q), i)
        BY <2>2, <3>1, <3>3, <4>2 DEF First, Meant
      <4>4. Position(tree, n, Last(q)) = 0
        BY <4>2, <4>3, PositionFirst
      <4>5. Find(p, Last(q)) = Null
        BY <1>1, <2>9, <4>4, FindInIs DEF FindIn
      <4> QED
        BY <2>9, <4>1, <4>5 DEF Exempt, ByValue
    <3> QED
      BY <3>2, <3>3
  <2>10. Follows(t2, o, drop, {})
    <3> HIDE DEF s
    <3> QED
      BY <1>1, <2>2, <2>4, <2>7, <2>8, <2>9, IndexChangeFollows
  <2> QED
    BY <2>1, <2>10, FinishFollows
<1> QED
  BY <1>3, <1>4

LEMMA PrependItemFollows ==
  ASSUME HeapInv, HeapInv', CacheInv, NEW p \in DOMAIN obj, CanAppend(p),
         NEW made, Ready(made, p), NEW drop, Rising(drop), PrependItem(p, made, drop),
         \A q \in CachedObjects \ drop : Front(q) = p /\ Last(q) \in Index => Exempt(q)
  PROVE  CacheInv' /\ AllFollowed
<1> DEFINE t == made.t
           o == made.o
           x == made.x
           n == FocusIn(made.o, p)
           s == <<x>> \o t[n].kids
           t2 == AddToHead(t, n, x)
<1>1. /\ Grows(t) /\ Shaped(o) /\ (n \in DOMAIN tree => Focus(p) = n)
      /\ x # Null => Loose(t, o, n, x)
  BY DEF Ready
<1>2. Trees(tree) /\ Trees(t) /\ Null \notin DOMAIN tree
  BY <1>1, NoNull DEF HeapInv, Grows
<1>3. CASE x = Null
  <2>1. Finish(t, o, {}, {})
    BY <1>3 DEF PrependItem
  <2>2. Follows(t, o, {}, {})
    BY <1>1, NoneRises, GrowsFollows
  <2> QED
    BY <2>1, <2>2, FinishFollows
<1>4. CASE x # Null
  <2>1. Finish(t2, o, drop, {})
    BY <1>4 DEF PrependItem
  <2> HIDE DEF t, o, x, n
  <2>2. n \in DOMAIN t /\ Parentless(t, x)
    BY <1>1, <1>4 DEF Loose
  <2>3. t2 = [t EXCEPT ![n].kids = s]
    BY <2>2 DEF AddToHead
  <2> HIDE DEF t2, s
  <2>4. Rewires(t, t2, n, s, x)
    BY <1>2, <2>2, <2>3, KidsRewire
  <2>5. n \in DOMAIN tree => Focus(p) = n /\ tree[n].kind = "array"
    BY <1>1, <1>2 DEF CanAppend, KindOf
  <2>6. Follows(t2, o, drop, {})
    BY <1>1, <2>2, <2>4, <2>5, IndexChangeFollows
  <2> QED
    BY <2>1, <2>6, FinishFollows
<1> QED
  BY <1>3, <1>4

-----------------------------------------------------------------------------
(* Operations that take away                                                *)

LEMMA RewiresGets ==
  ASSUME NEW t, Trees(t), NEW n \in DOMAIN t, NEW t2, NEW s, NEW x, x \notin Kids(t, n),
         Rewires(t, t2, n, s, x)
  PROVE  Gets(t, t2, n, s)
<1>1. Kids(t, n) \subseteq DOMAIN t
  BY ListedIs
<1> QED
  BY <1>1 DEF Rewires, Gets

LEMMA NowReady ==
  ASSUME HeapInv
  PROVE  /\ Grows(tree) /\ Shaped(obj) /\ Parentless(tree, Null)
         /\ \A n : Below(tree, n) \subseteq DOMAIN tree
<1>1. Shaped(obj)
  BY FocusIs DEF Shaped, Untouched, HeapInv
<1>2. Parentless(tree, Null)
  BY ListedIs, NoNull DEF HeapInv, Parentless
<1> QED
  BY <1>1, <1>2 DEF Grows, HeapInv, Below

LEMMA DeleteFollows ==
  ASSUME HeapInv, HeapInv', CacheInv, NEW p \in DOMAIN obj, NEW key \in Key, Delete(p, key)
  PROVE  CacheInv' /\ AllFollowed
<1> DEFINE n == Focus(p)
           i == Position(tree, n, key)
           drop == Cached(p, key)
           s == RemoveAt(tree[n].kids, i)
           t2 == Detach(tree, n, i)
           gone == Below(tree, tree[n].kids[i])
<1>1. /\ Trees(tree) /\ n \in DOMAIN tree /\ tree[n].kind = "object"
      /\ OnKey(p, key)
  BY DEF HeapInv, Delete, KindOf, OnKey
<1>2. Rising(drop) /\ \A q \in CachedObjects : Front(q) = p /\ Last(q) = key => q \in drop
  BY CachedRises
<1>3. CASE i = 0
  <2>1. Finish(tree, obj, drop, {})
    BY <1>3 DEF Delete
  <2>2. Follows(tree, obj, drop, {})
    BY <1>2, NowReady, GrowsFollows
  <2> QED
    BY <2>1, <2>2, FinishFollows
<1>4. CASE i # 0
  <2>1. Finish(t2, obj, drop, gone)
    BY <1>4 DEF Delete
  <2>2. First(tree, n, key, i) /\ i \in DOMAIN tree[n].kids
    BY <1>1, <1>4, ListedIs, PositionFirst DEF First
  <2>3. t2 = [tree EXCEPT ![n].kids = s]
    BY DEF Detach
  <2> HIDE DEF n, i, drop
  <2>4. Rewires(tree, t2, n, s, Null)
    <3> HIDE DEF s, t2
    <3> QED
      BY <1>1, <2>3, KidsRewire
  <2> HIDE DEF t2, gone
  <2>5. Gets(tree, t2, n, RemoveAt(tree[n].kids, i))
    BY <1>1, <2>4, ListedIs, NoNull, RewiresGets
  <2>6. ASSUME NEW slot \in Key, ~SameName(key, slot)
        PROVE  FindIn(t2, n, slot) = FindIn(tree, n, slot)
    <3>1. ~Meant(tree, n, slot, i)
      BY <2>2, <2>6, NamesAgree DEF First, Meant
    <3> QED
      BY <1>1, <2>2, <2>5, <3>1, FindRemoved
  <2>7. Follows(t2, obj, drop, gone)
    <3>1. gone \subseteq DOMAIN tree
      BY NowReady DEF gone
    <3>2. n \in DOMAIN tree => Focus(p) = n /\ tree[n].kind = "object"
      BY <1>1 DEF n
    <3> HIDE DEF s
    <3> QED
      BY <1>1, <1>2, <2>4, <2>6, <3>1, <3>2, NowReady, KeyChangeFollows
  <2> QED
    BY <2>1, <2>7, FinishFollows
<1> QED
  BY <1>3, <1>4

LEMMA DeleteAtFollows ==
  ASSUME HeapInv, HeapInv', CacheInv, NEW p \in DOMAIN obj, NEW i \in Index, DeleteAt(p, i)
  PROVE  CacheInv' /\ AllFollowed
<1> DEFINE n == Focus(p)
           place == Position(tree, n, i)
           drop == CachedFrom(p, i)
           s == RemoveAt(tree[n].kids, place)
           t2 == Detach(tree, n, place)
           gone == Below(tree, tree[n].kids[place])
<1>1. Trees(tree) /\ n \in DOMAIN tree /\ tree[n].kind = "array"
  BY DEF HeapInv, DeleteAt, KindOf
<1>2. i \in Nat /\ i \notin Key
  BY BoundAssumption, KeyAssumption DEF Index
<1>3. /\ Rising(drop)
      /\ \A q \in CachedObjects : Front(q) = p /\ Last(q) \in Index /\ Last(q) >= i => q \in drop
  BY <1>2, FromRises
<1>4. CASE place = 0
  <2>1. Finish(tree, obj, drop, {})
    BY <1>4 DEF DeleteAt
  <2>2. Follows(tree, obj, drop, {})
    BY <1>3, NowReady, GrowsFollows
  <2> QED
    BY <2>1, <2>2, FinishFollows
<1>5. CASE place # 0
  <2>1. Finish(t2, obj, drop, gone)
    BY <1>5 DEF DeleteAt
  <2>2. First(tree, n, i, place) /\ place \in DOMAIN tree[n].kids /\ place = i + 1
    BY <1>1, <1>2, <1>5, ListedIs, PositionFirst DEF First, Meant
  <2>3. t2 = [tree EXCEPT ![n].kids = s]
    BY DEF Detach
  <2> HIDE DEF n, place, drop
  <2>4. Rewires(tree, t2, n, s, Null)
    <3> HIDE DEF s, t2
    <3> QED
      BY <1>1, <2>3, KidsRewire
  <2> HIDE DEF t2, gone
  <2>5. Gets(tree, t2, n, RemoveAt(tree[n].kids, place))
    BY <1>1, <2>4, ListedIs, NoNull, RewiresGets
  <2>6. ASSUME NEW q \in CachedObjects \ drop, Front(q) = p, Last(q) \in Index
        PROVE  FindIn(t2, n, Last(q)) = FindIn(tree, n, Last(q))
    <3>1. Last(q) \in Nat /\ Last(q) \notin Key /\ ~(Last(q) >= i)
      BY <1>3, <2>6, BoundAssumption, KeyAssumption DEF Index
    <3>2. Last(q) + 1 < place
      BY <1>2, <2>2, <3>1
    <3> QED
      BY <1>1, <2>2, <2>5, <3>1, <3>2, FindRemoved
  <2>7. Follows(t2, obj, drop, gone)
    <3>1. gone \subseteq DOMAIN tree
      BY NowReady DEF gone
    <3>2. n \in DOMAIN tree => Focus(p) = n /\ tree[n].kind = "array"
      BY <1>1 DEF n
    <3> HIDE DEF s
    <3> QED
      BY <1>3, <2>4, <2>6, <3>1, <3>2, NowReady, IndexChangeFollows
  <2> QED
    BY <2>1, <2>7, FinishFollows
<1> QED
  BY <1>4, <1>5

-----------------------------------------------------------------------------
(* Operations that replace                                                  *)

(* What a replacement makes of the heap and of the list.                    *)
LEMMA ReplacedIs ==
  ASSUME HeapInv, NEW p, Focus(p) \in DOMAIN tree, NEW made, Ready(made, p), made.x # Null,
         NEW slot, Position(tree, Focus(p), slot) # 0,
         NEW n, n = Focus(p), NEW i, i = Position(tree, n, slot),
         NEW t2, t2 = Named(ReplaceAtPlace(made.t, n, i, made.x), made.x, slot)
  PROVE  /\ Trees(made.t) /\ n \in DOMAIN made.t /\ made.x \in DOMAIN made.t
         /\ Parentless(made.t, made.x) /\ made.t[n].kids = tree[n].kids
         /\ First(tree, n, slot, i) /\ i \in DOMAIN made.t[n].kids
         /\ Rewires(made.t, t2, n, [made.t[n].kids EXCEPT ![i] = made.x], made.x)
         /\ Gets(made.t, t2, n, [made.t[n].kids EXCEPT ![i] = made.x])
         /\ slot \in Key => t2[made.x].name = slot
<1> DEFINE t == made.t
           x == made.x
           s == [t[n].kids EXCEPT ![i] = x]
           t1 == ReplaceAtPlace(t, n, i, x)
<1>1. Trees(tree) /\ Grows(t) /\ Trees(t) /\ Loose(t, made.o, n, x)
  BY DEF HeapInv, Ready, Grows
<1>2. t[n].kids = tree[n].kids
  BY <1>1 DEF Grows
<1>3. First(tree, n, slot, i) /\ i \in DOMAIN t[n].kids
  BY <1>1, <1>2, ListedIs, PositionFirst DEF First
<1>4. n \in DOMAIN t /\ x \in DOMAIN t /\ Parentless(t, x) /\ x \notin Kids(t, n)
  BY <1>1 DEF Loose, Parentless
<1>5. t1 = [t EXCEPT ![n].kids = s]
  BY <1>4 DEF ReplaceAtPlace
<1>6. t2 = Named(t1, x, slot)
  OBVIOUS
<1> HIDE DEF t, x, s, t1
<1>7. Rewires(t, t2, n, s, x) /\ (slot \in Key => t2[x].name = slot)
  <2>1. CASE slot \in Key
    <3>1. t2 = Relisted(t, n, s, x, slot)
      BY <1>5, <1>6, <2>1 DEF Named, Relisted
    <3> QED
      BY <1>1, <1>4, <2>1, <3>1, NameRewires
  <2>2. CASE slot \notin Key
    <3>1. t2 = [t EXCEPT ![n].kids = s]
      BY <1>5, <1>6, <2>2 DEF Named
    <3>2. Rewires(t, t2, n, s, x)
      BY <1>1, <1>4, <3>1, TreesTyped DEF Rewires
    <3> QED
      BY <2>2, <3>2
  <2> QED
    BY <2>1, <2>2
<1>8. Gets(t, t2, n, s)
  BY <1>1, <1>4, <1>7, RewiresGets
<1> QED
  BY <1>1, <1>2, <1>3, <1>4, <1>7, <1>8 DEF t, x, s

LEMMA MissedFollows ==
  ASSUME HeapInv, HeapInv', CacheInv, NEW p \in DOMAIN obj, NEW made, Ready(made, p),
         NEW slot \in Key \cup Index, NEW early,
         Missed(p, slot, made, IF early THEN Cached(p, slot) ELSE {})
  PROVE  CacheInv' /\ AllFollowed
<1> DEFINE drop == IF early THEN Cached(p, slot) ELSE {}
<1>1. Rising(drop)
  BY CachedRises, NoneRises
<1>2. Finish(made.t, made.o, drop, {})
  BY DEF Missed
<1>3. Follows(made.t, made.o, drop, {})
  BY <1>1, GrowsFollows DEF Ready
<1> QED
  BY <1>2, <1>3, FinishFollows

LEMMA ReplaceKeyFollows ==
  ASSUME HeapInv, HeapInv', CacheInv, NEW p \in DOMAIN obj, NEW key \in Key,
         KindOf(p) = "object", OnKey(p, key), NEW made, Ready(made, p),
         NEW early, ReplaceIn(p, key, made, early)
  PROVE  CacheInv' /\ AllFollowed
<1> DEFINE n == Focus(p)
           i == Position(tree, n, key)
           t == made.t
           x == made.x
           drop == Cached(p, key)
           s == [t[n].kids EXCEPT ![i] = x]
           t2 == Named(ReplaceAtPlace(t, n, i, x), x, key)
           gone == Below(tree, tree[n].kids[i])
<1>1. Trees(tree) /\ n \in DOMAIN tree /\ tree[n].kind = "object"
  BY DEF HeapInv, KindOf
<1>2. CASE i = 0
  BY <1>2, MissedFollows DEF ReplaceIn
<1>3. CASE i # 0
  <2>1. x # Null /\ Finish(t2, made.o, drop, gone)
    BY <1>3 DEF ReplaceIn, Replaced
  <2>2. Rising(drop) /\ \A q \in CachedObjects : Front(q) = p /\ Last(q) = key => q \in drop
    BY CachedRises
  <2>3. /\ Trees(t) /\ n \in DOMAIN t /\ x \in DOMAIN t /\ Parentless(t, x)
        /\ t[n].kids = tree[n].kids /\ First(tree, n, key, i) /\ i \in DOMAIN t[n].kids
        /\ Rewires(t, t2, n, s, x) /\ Gets(t, t2, n, s) /\ t2[x].name = key
    BY <1>1, <1>3, <2>1, ReplacedIs
  <2>4. Grows(t) /\ Shaped(made.o) /\ gone \subseteq DOMAIN tree
    BY NowReady DEF Ready
  <2>5. n \in DOMAIN tree => Focus(p) = n /\ tree[n].kind = "object"
    BY <1>1
  <2> HIDE DEF n, i, t, x, drop, t2, gone
  <2>6. ASSUME NEW slot \in Key, ~SameName(key, slot)
        PROVE  FindIn(t2, n, slot) = FindIn(tree, n, slot)
    <3>1. ~Meant(t, n, slot, i)
      <4>1. t[t[n].kids[i]].name = tree[tree[n].kids[i]].name
        BY <1>1, <2>3, <2>4, ListedIs DEF Grows, Kids, Range
      <4> QED
        BY <2>3, <2>6, <4>1, NamesAgree DEF First, Meant
    <3>2. ~Meant(t2, n, slot, i)
      <4>1. t2[n].kids[i] = x
        <5>1. t[n].kids \in Seq(DOMAIN t) /\ t2[n].kids = s
          BY <2>3, ListedIs DEF Gets
        <5> QED
          BY <2>3, <5>1
      <4> QED
        BY <2>3, <2>6, <4>1 DEF Meant
    <3>3. FindIn(t2, n, slot) = FindIn(t, n, slot)
      BY <2>3, <3>1, <3>2, FindReplaced
    <3> QED
      BY <1>1, <2>4, <3>3, GrowsFind
  <2>7. Follows(t2, made.o, drop, gone)
    <3> HIDE DEF s
    <3> QED
      BY <2>2, <2>3, <2>4, <2>5, <2>6, KeyChangeFollows
  <2> QED
    BY <2>1, <2>7, FinishFollows
<1> QED
  BY <1>2, <1>3

LEMMA ReplaceIndexFollows ==
  ASSUME HeapInv, HeapInv', CacheInv, NEW p \in DOMAIN obj, NEW j \in Index,
         KindOf(p) = "array", NEW made, Ready(made, p),
         NEW early, ReplaceIn(p, j, made, early)
  PROVE  CacheInv' /\ AllFollowed
<1> DEFINE n == Focus(p)
           i == Position(tree, n, j)
           t == made.t
           x == made.x
           drop == Cached(p, j)
           s == [t[n].kids EXCEPT ![i] = x]
           t2 == Named(ReplaceAtPlace(t, n, i, x), x, j)
           gone == Below(tree, tree[n].kids[i])
<1>1. Trees(tree) /\ n \in DOMAIN tree /\ tree[n].kind = "array"
  BY DEF HeapInv, KindOf
<1>2. CASE i = 0
  BY <1>2, MissedFollows DEF ReplaceIn
<1>3. CASE i # 0
  <2>1. x # Null /\ Finish(t2, made.o, drop, gone)
    BY <1>3 DEF ReplaceIn, Replaced
  <2>2. Rising(drop) /\ \A q \in CachedObjects : Front(q) = p /\ Last(q) = j => q \in drop
    BY CachedRises
  <2>3. /\ Trees(t) /\ n \in DOMAIN t /\ x \in DOMAIN t /\ Parentless(t, x)
        /\ First(tree, n, j, i) /\ i \in DOMAIN t[n].kids
        /\ Rewires(t, t2, n, s, x) /\ Gets(t, t2, n, s)
    BY <1>1, <1>3, <2>1, ReplacedIs
  <2>4. Grows(t) /\ Shaped(made.o) /\ gone \subseteq DOMAIN tree
    BY NowReady DEF Ready
  <2>5. n \in DOMAIN tree => Focus(p) = n /\ tree[n].kind = "array"
    BY <1>1
  <2> HIDE DEF n, i, t, x, drop, t2, gone
  <2>6. ASSUME NEW q \in CachedObjects \ drop, Front(q) = p, Last(q) \in Index
        PROVE  FindIn(t2, n, Last(q)) = FindIn(tree, n, Last(q))
    <3>1. Last(q) \in Nat /\ Last(q) \notin Key /\ j \in Nat /\ j \notin Key /\ Last(q) # j
      BY <2>2, <2>6, BoundAssumption, KeyAssumption DEF Index
    <3>2. i = j + 1
      BY <2>3, <3>1 DEF First, Meant
    <3>3. ~Meant(t, n, Last(q), i) /\ ~Meant(t2, n, Last(q), i)
      BY <3>1, <3>2 DEF Meant
    <3>4. FindIn(t2, n, Last(q)) = FindIn(t, n, Last(q))
      BY <2>3, <3>3, FindReplaced
    <3> QED
      BY <1>1, <2>4, <3>4, GrowsFind
  <2>7. Follows(t2, made.o, drop, gone)
    <3> HIDE DEF s
    <3> QED
      BY <2>2, <2>3, <2>4, <2>5, <2>6, IndexChangeFollows
  <2> QED
    BY <2>1, <2>7, FinishFollows
<1> QED
  BY <1>2, <1>3

-----------------------------------------------------------------------------
(* Operations that give an object another tree                              *)

LEMMA OwnedIn ==
  ASSUME HeapInv, NEW p
  PROVE  Owned(p) \subseteq DOMAIN tree
BY DEF Owned, Below

LEMMA ClearFollows ==
  ASSUME HeapInv, HeapInv', CacheInv, NEW p \in DOMAIN obj, Clear(p)
  PROVE  CacheInv' /\ AllFollowed
<1> DEFINE o == Cleared(p)
<1>1. \A q \in DOMAIN obj : obj[q] = [own |-> obj[q].own, ext |-> obj[q].ext]
  BY FocusIs DEF HeapInv
<1>2. DOMAIN o = DOMAIN obj /\ \A q \in DOMAIN obj : o[q] = IF q = p THEN NoData ELSE obj[q]
  BY DEF Cleared
<1>3. Finish(tree, o, AllCached(p), Owned(p))
  BY DEF Clear
<1> HIDE DEF o
<1>4. Shaped(o)
  BY <1>1, <1>2 DEF Shaped, Untouched, NoData, CachedObjects
<1>5. Follows(tree, o, AllCached(p), Owned(p))
  BY <1>4, NowReady, AllRises, OwnedIn, GrowsFollows
<1> QED
  BY <1>3, <1>5, FinishFollows

LEMMA GivenFollows ==
  ASSUME HeapInv, HeapInv', CacheInv, NEW p \in DOMAIN obj, NEW t2, NEW x, Makes(tree, t2, x),
         Finish(t2, [obj EXCEPT ![p] = [own |-> x, ext |-> Null]], AllCached(p), Owned(p))
  PROVE  CacheInv' /\ AllFollowed
<1> DEFINE o == [obj EXCEPT ![p] = [own |-> x, ext |-> Null]]
<1>1. \A q \in DOMAIN obj : obj[q] = [own |-> obj[q].own, ext |-> obj[q].ext]
  BY FocusIs DEF HeapInv
<1>2. /\ DOMAIN o = DOMAIN obj
      /\ \A q \in DOMAIN obj : o[q] = IF q = p THEN [own |-> x, ext |-> Null] ELSE obj[q]
  OBVIOUS
<1>3. Finish(t2, o, AllCached(p), Owned(p))
  OBVIOUS
<1> HIDE DEF o
<1>4. Shaped(o)
  BY <1>1, <1>2 DEF Shaped, Untouched, CachedObjects
<1>5. Grows(t2)
  BY DEF Makes, Grows
<1>6. Follows(t2, o, AllCached(p), Owned(p))
  BY <1>4, <1>5, AllRises, OwnedIn, GrowsFollows
<1> QED
  BY <1>3, <1>6, FinishFollows

LEMMA ParseFollows ==
  ASSUME HeapInv, HeapInv', CacheInv, NEW p \in DOMAIN obj,
         NEW text \in {"object", "array", "malformed"}, Parse(p, text)
  PROVE  CacheInv' /\ AllFollowed
<1>1. CASE text = "malformed"
  BY <1>1, ClearFollows DEF Parse
<1>2. CASE text # "malformed"
  <2>1. Room(1) /\ Finish(With(tree, text), [obj EXCEPT ![p] = [own |-> New(tree), ext |-> Null]],
                          AllCached(p), Owned(p))
    BY <1>2 DEF Parse
  <2>2. Free(tree) # {}
    BY <2>1, FreeIs DEF Room
  <2>3. Makes(tree, With(tree, text), New(tree))
    BY <1>2, <2>2, WithMakes DEF HeapInv
  <2> QED
    BY <2>1, <2>3, GivenFollows
<1> QED
  BY <1>1, <1>2

LEMMA ParseFromFollows ==
  ASSUME HeapInv, HeapInv', CacheInv, NEW p \in DOMAIN obj, NEW n \in DOMAIN tree \cup {Null},
         ParseFrom(p, n)
  PROVE  CacheInv' /\ AllFollowed
<1>1. CASE n = Null
  BY <1>1, ClearFollows DEF ParseFrom
<1>2. CASE n # Null
  <2> DEFINE copy == Build(tree, Text(tree, n), n)
  <2>1. /\ Room(Cardinality(Below(tree, n)))
        /\ Finish(copy.t, [obj EXCEPT ![p] = [own |-> copy.x, ext |-> Null]], AllCached(p), Owned(p))
    BY <1>2 DEF ParseFrom
  <2>2. Below(tree, n) \in SUBSET Node
    BY <1>2, BelowClosed, TreesTyped DEF HeapInv, Trees
  <2>3. Cardinality(Below(tree, n)) <= Cardinality(Free(tree))
    BY <2>1, <2>2, NodesFinite, FreeIs DEF Room
  <2>4. Makes(tree, copy.t, copy.x)
    BY <1>2, <2>3, BuildMakes DEF HeapInv
  <2> QED
    BY <2>1, <2>4, GivenFollows
<1> QED
  BY <1>1, <1>2

-----------------------------------------------------------------------------
(* Every operation keeps the caches in step                                 *)

LEMMA OnKeyFollows ==
  ASSUME HeapInv, HeapInv', CacheInv, NEW p \in DOMAIN obj, Focus(p) # Dangling,
         NEW key \in Key, OnKey(p, key)
  PROVE  CacheInv' /\ AllFollowed
<1>1. /\ Rising({}) /\ Rising(Cached(p, key))
      /\ \A q \in CachedObjects : Front(q) = p /\ Last(q) = key => q \in Cached(p, key)
  BY NoneRises, CachedRises
<1>2. CASE AddValue(p, key) \/ AddEmptySubObject(p, key) \/ AddEmptySubArray(p, key)
  <2>1. PICK sort \in {"object", "array", "value"} :
          CanAdd(p, key) /\ Room(2) /\ AddItem(p, key, Fresh(Opened(p, "object"), sort), {})
    BY <1>2 DEF AddValue, AddEmptySubObject, AddEmptySubArray
  <2>2. ByValue(p, key)
    BY <1>2 DEF ByValue
  <2>3. \A q \in CachedObjects \ {} : Front(q) = p /\ Last(q) = key => Exempt(q)
    BY <2>2 DEF Exempt
  <2> QED
    BY <1>1, <2>1, <2>3, AddReady, AddItemFollows
<1>3. CASE AddCopy(p, key)
  BY <1>1, <1>3, AddReady, AddItemFollows DEF AddCopy
<1>4. CASE AddMoved(p, key)
  BY <1>1, <1>4, AddReady, AddItemFollows DEF AddMoved
<1>5. ASSUME KindOf(p) = "object"
      PROVE  Focus(p) \in DOMAIN tree
  BY <1>5 DEF KindOf
<1>6. CASE Delete(p, key)
  BY <1>6, DeleteFollows
<1>7. CASE ReplaceValue(p, key)
  BY <1>5, <1>7, ReplaceReady, ReplaceKeyFollows DEF ReplaceValue
<1>8. CASE ReplaceCopy(p, key)
  BY <1>5, <1>8, ReplaceReady, ReplaceKeyFollows DEF ReplaceCopy
<1>9. CASE ReplaceMoved(p, key)
  BY <1>5, <1>9, ReplaceReady, ReplaceKeyFollows DEF ReplaceMoved
<1>10. CASE AtKey(p, key)
  BY <1>10, CacheFollowed DEF AtKey
<1>11. CASE Get(p, key)
  BY <1>11, FindIs, OtherIs, ParseFromFollows DEF Get, GetMember, HeapInv
<1> QED
  BY <1>2, <1>3, <1>4, <1>6, <1>7, <1>8, <1>9, <1>10, <1>11 DEF OnKey

LEMMA OnIndexFollows ==
  ASSUME HeapInv, HeapInv', CacheInv, NEW p \in DOMAIN obj, Focus(p) # Dangling,
         NEW i \in Index, OnIndex(p, i)
  PROVE  CacheInv' /\ AllFollowed
<1>1. ASSUME KindOf(p) = "array"
      PROVE  Focus(p) \in DOMAIN tree
  BY <1>1 DEF KindOf
<1>2. CASE DeleteAt(p, i)
  BY <1>2, DeleteAtFollows
<1>3. CASE ReplaceValueAt(p, i)
  BY <1>1, <1>3, ReplaceReady, ReplaceIndexFollows DEF ReplaceValueAt
<1>4. CASE ReplaceCopyAt(p, i)
  BY <1>1, <1>4, ReplaceReady, ReplaceIndexFollows DEF ReplaceCopyAt
<1>5. CASE ReplaceMovedAt(p, i)
  BY <1>1, <1>5, ReplaceReady, ReplaceIndexFollows DEF ReplaceMovedAt
<1>6. CASE AtIndex(p, i)
  BY <1>6, CacheFollowed DEF AtIndex
<1>7. CASE GetAt(p, i)
  BY <1>7, FindIs, OtherIs, ParseFromFollows DEF GetAt, GetMember, HeapInv
<1> QED
  BY <1>2, <1>3, <1>4, <1>5, <1>6, <1>7 DEF OnIndex

LEMMA OnAllFollows ==
  ASSUME HeapInv, HeapInv', CacheInv, NEW p \in DOMAIN obj, Focus(p) # Dangling, OnAll(p)
  PROVE  CacheInv' /\ AllFollowed
<1>1. /\ Rising({}) /\ Rising(CachedFrom(p, 0))
      /\ \A q \in CachedObjects : Front(q) = p /\ Last(q) \in Index => q \in CachedFrom(p, 0)
  BY NoneRises, FromRises, BoundAssumption DEF Index
<1>2. CASE AppendValue(p)
  BY <1>2, AddReady, AppendItemFollows DEF AppendValue
<1>3. CASE AppendCopy(p)
  BY <1>3, AddReady, AppendItemFollows DEF AppendCopy
<1>4. CASE AppendMoved(p)
  BY <1>4, AddReady, AppendItemFollows DEF AppendMoved
<1>5. CASE AddValueAsFirst(p)
  <2>1. \A q \in CachedObjects \ {} : Front(q) = p /\ Last(q) \in Index => Exempt(q)
    BY <1>5 DEF Exempt, ByValue
  <2> QED
    BY <1>1, <1>5, <2>1, AddReady, PrependItemFollows DEF AddValueAsFirst
<1>6. CASE AddCopyAsFirst(p)
  BY <1>1, <1>6, AddReady, PrependItemFollows DEF AddCopyAsFirst
<1>7. CASE AddMovedAsFirst(p)
  BY <1>1, <1>7, AddReady, PrependItemFollows DEF AddMovedAsFirst
<1> QED
  BY <1>2, <1>3, <1>4, <1>5, <1>6, <1>7 DEF OnAll

LEMMA OnItselfFollows ==
  ASSUME HeapInv, HeapInv', CacheInv, NEW p \in DOMAIN obj, OnItself(p)
  PROVE  CacheInv' /\ AllFollowed
<1>1. CASE Clear(p)
  BY <1>1, ClearFollows
<1>2. CASE \E text \in {"object", "array", "malformed"} : Parse(p, text)
  BY <1>2, ParseFollows
<1>3. CASE \E q \in DOMAIN obj : Assign(p, q)
  <2>1. PICK q \in DOMAIN obj : Assign(p, q)
    BY <1>3
  <2>2. Focus(q) \in DOMAIN tree \cup {Null}
    BY <2>1, FocusIs DEF Assign, Focus, HeapInv
  <2> QED
    BY <2>1, <2>2, ParseFromFollows DEF Assign
<1> QED
  BY <1>1, <1>2, <1>3 DEF OnItself

LEMMA CacheInit == Init => CacheInv
<1> SUFFICES ASSUME Init, NEW p \in CachedObjects PROVE FALSE
  BY DEF CacheInv
<1>1. DOMAIN obj = {<<r>> : r \in Root} /\ p \in DOMAIN obj /\ Len(p) > 1
  BY DEF Init, CachedObjects
<1>2. PICK r \in Root : p = <<r>>
  BY <1>1
<1> QED
  BY <1>1, <1>2

LEMMA CacheStep == HeapInv /\ CacheInv /\ Next => CacheInv' /\ AllFollowed
<1> SUFFICES ASSUME HeapInv, CacheInv, Next PROVE CacheInv' /\ AllFollowed
  OBVIOUS
<1>1. HeapInv'
  BY HeapStep
<1>2. CASE \E p \in DOMAIN obj :
             /\ Focus(p) # Dangling
             /\ \/ \E key \in Key : OnKey(p, key)
                \/ \E i \in Index : OnIndex(p, i)
                \/ OnAll(p)
  BY <1>1, <1>2, OnKeyFollows, OnIndexFollows, OnAllFollows
<1>3. CASE \E p \in DOMAIN obj : OnItself(p)
  BY <1>1, <1>3, OnItselfFollows
<1>4. CASE \E r, s \in Root : MoveAssign(r, s)
  BY <1>4, MoveFollowed
<1> QED
  BY <1>2, <1>3, <1>4 DEF Next

(* Through any sequence of calls, whatever the keys and the depth of the    *)
(* caches: what operator[] has cached stays in step with the document, with *)
(* the exceptions that CacheFollows names.                                  *)
THEOREM CachesFollow == Spec => CacheFollows
<1>1. Init => HeapInv /\ CacheInv
  BY HeapInit, CacheInit
<1>2. HeapInv /\ CacheInv /\ [Next]_vars => (HeapInv /\ CacheInv)' /\ [AllFollowed]_vars
  <2>1. CASE Next
    BY <2>1, CacheStep, HeapStep
  <2>2. CASE UNCHANGED vars
    BY <2>2, HeapStep DEF vars, CacheInv, CachedObjects
  <2> QED
    BY <2>1, <2>2
<1>3. [AllFollowed]_vars => [\A p \in CachedObjects \cap CachedObjects' :
       LET parent == Front(p)
       IN InStep(p) =>
            \/ InStep(p)'
            \/ Focus(parent)' # Focus(parent)
            \/ Shared(parent)
            \/ SetItself(p)
            \/ TakenOver
            \/ ByOtherSpelling(parent, Last(p))
            \/ ByValue(parent, Last(p))]_vars
  BY DEF AllFollowed, Followed
<1> QED
  BY <1>1, <1>2, <1>3, PTL DEF Spec, CacheFollows

-----------------------------------------------------------------------------
(* JsonValue: the conversions *)

(* The remainder of a number at most one modulus away.                      *)
LEMMA Modulo ==
  ASSUME NEW d \in Nat \ {0}, NEW n \in -d .. 2 * d - 1
  PROVE  n % d = IF n < 0 THEN n + d ELSE IF n < d THEN n ELSE n - d
OBVIOUS

LEMMA UnsignedIs ==
  ASSUME NEW half \in Nat \ {0}, NEW n \in -(2 * half) .. 2 * half - 1
  PROVE  Unsigned(n, half) = IF n < 0 THEN n + 2 * half ELSE n
<1>1. 2 * half \in Nat \ {0} /\ n \in -(2 * half) .. 2 * (2 * half) - 1
  OBVIOUS
<1> HIDE DEF Unsigned
<1>2. n % (2 * half) = IF n < 0 THEN n + 2 * half ELSE IF n < 2 * half THEN n ELSE n - 2 * half
  BY <1>1, Modulo
<1> QED
  BY <1>2 DEF Unsigned

LEMMA SignedIs ==
  ASSUME NEW half \in Nat \ {0}, NEW n \in -(2 * half) .. 2 * half - 1
  PROVE  Signed(n, half) =
           IF n >= half THEN n - 2 * half ELSE IF n < -half THEN n + 2 * half ELSE n
BY UnsignedIs DEF Signed

LEMMA Widths ==
  /\ IntHalf \in Nat \ {0} /\ LongHalf \in Nat \ {0} /\ 2 * IntHalf <= LongHalf
  /\ Values("int32") = -IntHalf .. IntHalf - 1
  /\ Values("uint32") = 0 .. 2 * IntHalf - 1
  /\ Values("int64") = -LongHalf .. LongHalf - 1
  /\ Values("uint64") = 0 .. 2 * LongHalf - 1
BY WidthAssumption DEF Values

LEMMA ValuesRange ==
  ASSUME NEW type \in Integer, NEW v \in Values(type)
  PROVE  /\ v \in -LongHalf .. 2 * LongHalf - 1
         /\ type # "uint64" => v < LongHalf
         /\ type \in {"uint32", "uint64"} => v >= 0
BY Widths DEF Integer

(* Storing an integer, with a sign that fits its type.                      *)
LEMMA StoresInteger ==
  ASSUME NEW type \in Integer, NEW v \in Values(type), NEW sign, NEW atHead,
         (sign = -1 /\ (v < LongHalf \/ atHead)) \/ (sign = 1 /\ v >= 0),
         StoreInteger(type, v, sign, atHead)
  PROVE  JVInv'
<1> DEFINE u == Unsigned(v, LongHalf)
<1>1. v \in -LongHalf .. 2 * LongHalf - 1 /\ LongHalf \in Nat \ {0}
  BY ValuesRange, Widths
<1>2. u = (IF v < 0 THEN v + 2 * LongHalf ELSE v)
  BY <1>1, UnsignedIs
<1>3. Signed(u, LongHalf) = Signed(v, LongHalf)
  BY <1>1, <1>2, SignedIs
<1>4. Unsigned(u, LongHalf) = u
  BY <1>1, <1>2, UnsignedIs
<1> HIDE DEF u
<1>5. /\ stored' = [type |-> type, number |-> 2 * v] /\ first' = atHead /\ parsed' = FALSE
      /\ item' = [type |-> "Int", valueint |-> Signed(v, LongHalf),
                  valuedouble |-> 2 * u, sign |-> sign]
  BY <1>3, <1>4 DEF StoreInteger, Store, CreateInt, u
<1>6. IntegerKept'
  BY <1>1, <1>2, <1>5 DEF IntegerKept
<1> QED
  BY <1>1, <1>5, <1>6 DEF JVInv, Integer

(* The four integer types by Add, Replace and their array forms.            *)
LEMMA StoresSigned ==
  ASSUME NEW type \in Integer, NEW v \in Values(type),
         StoreInteger(type, v, SignOf(type), FALSE)
  PROVE  JVInv'
BY StoresInteger, ValuesRange DEF SignOf, Integer

LEMMA StoresAtHead ==
  ASSUME NEW type \in Integer, NEW v \in Values(type), StoreInteger(type, v, -1, TRUE)
  PROVE  JVInv'
BY StoresInteger

LEMMA StoresOther ==
  ASSUME NEW b \in BOOLEAN, NEW halves \in Reals, NEW atHead,
         StoreReal(halves, atHead) \/ StoreBool(b, atHead) \/ StoreNull(atHead)
  PROVE  JVInv'
<1>1. halves \in Int /\ Abs(halves) < 2 * LongHalf
  BY Widths DEF Reals, Abs
<1>2. CASE StoreReal(halves, atHead)
  BY <1>1, <1>2, Widths DEF StoreReal, Store, CreateDouble, JVInv, Integer, NumberKept, TooLong, Abs
<1>3. CASE StoreBool(b, atHead)
  BY <1>3 DEF StoreBool, Store, CreateBool, JVInv, Integer
<1>4. CASE StoreNull(atHead)
  BY <1>4 DEF StoreNull, Store, CreateNull, JVInv, Integer
<1> QED
  BY <1>2, <1>3, <1>4

-----------------------------------------------------------------------------
(* Printing and parsing *)

(* A number without fraction and e that fits in 64 bits.                    *)
LEMMA ParsesInteger ==
  ASSUME NEW shown \in -LongHalf .. 2 * LongHalf - 1
  PROVE  LET i == parse_number(Number(Signum(shown), Abs(shown), NoFraction, 1))
         IN /\ i.type = "Int" /\ i.valueint = Signed(shown, LongHalf)
            /\ i.sign = Signum(shown)
            /\ Abs(shown) < LongHalf => i.valuedouble = 2 * shown
<1> DEFINE n == Signed(Abs(shown), LongHalf)
<1>1. LongHalf \in Nat \ {0} /\ Abs(shown) \in 0 .. 2 * LongHalf - 1
  BY Widths DEF Abs
<1>2. n = IF Abs(shown) >= LongHalf THEN Abs(shown) - 2 * LongHalf ELSE Abs(shown)
  BY <1>1, SignedIs
<1>3. parse_number(Number(Signum(shown), Abs(shown), NoFraction, 1)) =
        [type |-> "Int", valueint |-> Signed(Signum(shown) * n, LongHalf),
         valuedouble |-> Signum(shown) * 2 * n, sign |-> Signum(shown)]
  BY DEF parse_number, Number
<1> HIDE DEF n
<1>4. CASE shown < 0
  <2>1. Signum(shown) = -1 /\ n = IF shown = -LongHalf THEN -LongHalf ELSE -shown
    BY <1>1, <1>2, <1>4 DEF Abs, Signum
  <2>2. Signed(-1 * n, LongHalf) = Signed(shown, LongHalf)
    BY <1>1, <2>1, <1>4, SignedIs
  <2> QED
    BY <1>3, <2>1, <2>2, <1>1, <1>4 DEF Abs
<1>5. CASE shown >= 0
  <2>1. Signum(shown) = 1 /\ n = IF shown >= LongHalf THEN shown - 2 * LongHalf ELSE shown
    BY <1>1, <1>2, <1>5 DEF Abs, Signum
  <2>2. Signed(1 * n, LongHalf) = Signed(shown, LongHalf)
    BY <1>1, <2>1, <1>5, SignedIs
  <2> QED
    BY <1>3, <2>1, <2>2, <1>1, <1>5 DEF Abs
<1> QED
  BY <1>4, <1>5

(* An item that holds v is printed as it is read back: signed with sign -1. *)
LEMMA PrintsInteger ==
  ASSUME NEW i, NEW v \in -LongHalf .. 2 * LongHalf - 1,
         i.valueint = Signed(v, LongHalf), i.sign = -1 \/ (i.sign = 1 /\ v >= 0)
  PROVE  LET shown == IF i.sign = -1 THEN Signed(v, LongHalf) ELSE v
         IN print_int(i) = Number(Signum(shown), Abs(shown), NoFraction, 1)
<1>1. IntHalf \in Nat \ {0} /\ LongHalf \in Nat \ {0} /\ 2 * IntHalf <= LongHalf
  BY Widths
<1>2. i.valueint \in -LongHalf .. LongHalf - 1
      /\ i.valueint = IF v >= LongHalf THEN v - 2 * LongHalf ELSE v
  BY <1>1, SignedIs
<1>3. CASE i.sign = -1
  <2>1. ASSUME i.valueint \in Values("int32")
        PROVE  Signed(i.valueint, IntHalf) = i.valueint
    <3> DEFINE n == i.valueint
    <3>1. n \in -IntHalf .. IntHalf - 1
      BY <2>1, Widths
    <3> HIDE DEF n
    <3>2. n \in -(2 * IntHalf) .. 2 * IntHalf - 1 /\ ~(n >= IntHalf) /\ ~(n < -IntHalf)
      BY <1>1, <3>1
    <3>3. Signed(n, IntHalf) = n
      BY <1>1, <3>2, SignedIs
    <3> QED
      BY <3>3 DEF n
  <2> QED
    BY <2>1, <1>3 DEF print_int
<1>4. CASE i.sign = 1 /\ v >= 0
  <2>1. Unsigned(i.valueint, LongHalf) = v
    BY <1>1, <1>2, <1>4, UnsignedIs
  <2>2. v \in Values("uint32") => Unsigned(v, IntHalf) = v
    BY Widths, UnsignedIs
  <2>3. i.sign # -1
    BY <1>4
  <2>4. CASE v \in Values("uint32")
    <3>1. Unsigned(i.valueint, LongHalf) \in Values("uint32")
          /\ i.valueint = v /\ Unsigned(i.valueint, IntHalf) = v
      BY <1>1, <1>2, <2>1, <2>2, <2>4, Widths
    <3> QED
      BY <1>4, <2>3, <3>1 DEF print_int
  <2>5. CASE v \notin Values("uint32")
    BY <1>4, <2>1, <2>3, <2>5 DEF print_int
  <2> QED
    BY <2>4, <2>5
<1> QED
  BY <1>3, <1>4

(* A floating point number has the same halves after it was printed.        *)
LEMMA ReloadsReal ==
  ASSUME NEW i, i.type = "Double", i.valuedouble \in Int, Abs(i.valuedouble) < 2 * LongHalf
  PROVE  parse_value(i).type = "Double" /\ parse_value(i).valuedouble = i.valuedouble
<1> DEFINE d == i.valuedouble
           digits == Abs(d) \div 2
           half == Abs(d) % 2
<1>1. Abs(d) \in Nat /\ LongHalf \in Nat \ {0}
  BY Widths DEF Abs
<1>2. digits \in 0 .. LongHalf - 1 /\ half \in {0, 1} /\ Abs(d) = 2 * digits + half
  BY <1>1
<1>3. parse_value(i) = parse_number(Number(Signum(d), digits, half, 1))
  BY DEF parse_value, Numeric, print_value, print_double
<1> HIDE DEF digits, half
<1>4. Signed(digits, LongHalf) = digits
  BY <1>1, <1>2, SignedIs
<1>5. half # NoFraction
  BY <1>2 DEF NoFraction
<1>6. /\ parse_value(i).type = "Double"
      /\ parse_value(i).valuedouble = Signum(d) * (2 * digits + half)
  BY <1>3, <1>4, <1>5 DEF parse_number, Number
<1> QED
  BY <1>2, <1>6 DEF Signum, Abs

-----------------------------------------------------------------------------
(* A step keeps the invariant *)

LEMMA ReloadsKept ==
  ASSUME JVInv, item # None, stored.type \in Integer, Reload
  PROVE  IntegerKept'
<1>1. /\ item' = parse_value(item) /\ parsed' = TRUE
      /\ stored' = stored /\ first' = first
  BY DEF Reload
<1>2. PICK v \in Values(stored.type) :
    /\ stored.number = 2 * v
    /\ item.type = "Int" /\ item.valueint = Signed(v, LongHalf)
    /\ (item.sign = -1 /\ (v < LongHalf \/ first)) \/ (item.sign = 1 /\ v >= 0)
    /\ \/ item.valuedouble = 2 * v
       \/ ~parsed /\ v < 0
       \/ parsed /\ Abs(v) >= LongHalf
  BY DEF JVInv, IntegerKept
<1>3. v \in -LongHalf .. 2 * LongHalf - 1 /\ LongHalf \in Nat \ {0}
  BY ValuesRange, Widths
<1> DEFINE shown == IF item.sign = -1 THEN Signed(v, LongHalf) ELSE v
<1>4. Signed(v, LongHalf) = IF v >= LongHalf THEN v - 2 * LongHalf ELSE v
  BY <1>3, SignedIs
<1>5. shown \in -LongHalf .. 2 * LongHalf - 1
  BY <1>3, <1>4
<1>6. parse_value(item) = parse_number(Number(Signum(shown), Abs(shown), NoFraction, 1))
  BY <1>2, <1>3, PrintsInteger DEF parse_value, Numeric, print_value
<1>7. Signed(shown, LongHalf) = Signed(v, LongHalf)
  BY <1>3, <1>4, <1>5, SignedIs
<1>8. shown = v \/ (v >= LongHalf /\ first /\ shown < 0)
  BY <1>2, <1>3, <1>4
<1> HIDE DEF shown
<1>9. /\ item'.type = "Int" /\ item'.valueint = Signed(v, LongHalf)
      /\ item'.sign = Signum(shown)
      /\ Abs(shown) < LongHalf => item'.valuedouble = 2 * shown
  BY <1>1, <1>5, <1>6, <1>7, ParsesInteger
<1>10. (item'.sign = -1 /\ (v < LongHalf \/ first)) \/ (item'.sign = 1 /\ v >= 0)
  BY <1>3, <1>5, <1>8, <1>9 DEF Signum
<1>11. item'.valuedouble = 2 * v \/ Abs(v) >= LongHalf
  BY <1>3, <1>8, <1>9 DEF Abs
<1> QED
  BY <1>1, <1>2, <1>9, <1>10, <1>11 DEF IntegerKept

LEMMA ReloadsNumber ==
  ASSUME JVInv, item # None, stored.type \in {"double", "text"}, ~TooLong(stored.number),
         Reload
  PROVE  NumberKept'
<1>1. item' = parse_value(item) /\ stored' = stored
  BY DEF Reload
<1>2. NumberKept /\ stored.number \in Int /\ Abs(stored.number) < 2 * LongHalf
  BY Widths DEF JVInv, TooLong, Abs
<1>3. CASE item.type = "Double"
  BY <1>1, <1>2, <1>3, ReloadsReal DEF NumberKept
<1>4. CASE item.type = "Int"
  <2> DEFINE v == item.valueint
  <2>1. /\ v \in Int /\ stored.number = 2 * v
        /\ item.sign = -1 \/ (item.sign = 1 /\ v >= 0)
    BY <1>2, <1>4 DEF NumberKept
  <2>2. v \in -LongHalf .. 2 * LongHalf - 1 /\ Abs(v) < LongHalf /\ LongHalf \in Nat \ {0}
    BY <1>2, <2>1, Widths DEF Abs
  <2>3. Signed(v, LongHalf) = v
    BY <2>1, <2>2, SignedIs DEF Abs
  <2>4. parse_value(item) = parse_number(Number(Signum(v), Abs(v), NoFraction, 1))
    BY <1>4, <2>1, <2>2, <2>3, PrintsInteger DEF parse_value, Numeric, print_value
  <2>5. item'.type = "Int" /\ item'.valueint = v /\ item'.valuedouble = 2 * v
        /\ item'.sign = Signum(v)
    BY <1>1, <2>2, <2>3, <2>4, ParsesInteger
  <2> QED
    BY <1>1, <2>1, <2>5 DEF NumberKept, Signum
<1> QED
  BY <1>2, <1>3, <1>4 DEF NumberKept

LEMMA ReloadKeeps ==
  ASSUME JVInv, Reload
  PROVE  JVInv'
<1>1. item # None /\ item' = parse_value(item) /\ stored' = stored
  BY DEF Reload, Absent
<1>2. stored.type \in Integer => IntegerKept'
  BY <1>1, ReloadsKept
<1>3. (stored.type \in {"double", "text"} /\ ~TooLong(stored.number)) => NumberKept'
  BY <1>1, ReloadsNumber
<1>4. item.type \in {"True", "False", "NULL"} => item'.type = item.type
  BY <1>1 DEF parse_value, Numeric
<1> QED
  BY <1>1, <1>2, <1>3, <1>4 DEF JVInv, TooLong

LEMMA ReceiveKeeps ==
  ASSUME NEW sign \in {-1, 1}, NEW digits \in 0 .. MaxDigits,
         NEW fraction \in {NoFraction, 0, 1}, NEW power \in {1, 10},
         Receive(Number(sign, digits, fraction, power))
  PROVE  JVInv'
<1> DEFINE text == Number(sign, digits, fraction, power)
           halves == IF fraction = NoFraction THEN 0 ELSE fraction
           number == sign * (2 * digits + halves) * power
<1>1. LongHalf \in Nat \ {0} /\ digits \in Nat /\ halves \in {0, 1}
  BY Widths, DigitsAssumption DEF NoFraction
<1>2. Meaning(text) = number
  BY DEF Meaning, Number
<1>3. number \in Int
  BY <1>1
<1>4. /\ item' = parse_number(text)
      /\ stored' = [type |-> IF power # 1 /\ fraction = NoFraction
                             THEN "bare exponent" ELSE "text", number |-> number]
  BY <1>2 DEF Receive, Number
<1>5. ASSUME stored'.type = "text", ~TooLong(number)
      PROVE  NumberKept'
  <2>1. digits < LongHalf
    <3>1. number = 2 * digits + halves \/ number = -(2 * digits + halves)
          \/ number = 10 * (2 * digits + halves) \/ number = -(10 * (2 * digits + halves))
      <4>1. CASE power = 1
        BY <4>1, <1>1
      <4>2. CASE power = 10
        BY <4>2, <1>1
      <4> QED
        BY <4>1, <4>2
    <3> HIDE DEF number, halves
    <3> QED
      BY <1>1, <1>5, <3>1 DEF TooLong, Abs
  <2>2. Signed(digits, LongHalf) = digits /\ Signed(-digits, LongHalf) = -digits
    BY <1>1, <2>1, SignedIs
  <2>3. CASE fraction = NoFraction /\ power = 1
    <3>1. Signed(sign * digits, LongHalf) = sign * digits
      <4>1. sign * digits = digits \/ sign * digits = -digits
        BY <1>1
      <4> QED
        BY <2>2, <4>1
    <3>2. item' = [type |-> "Int", valueint |-> sign * digits,
                   valuedouble |-> sign * 2 * digits, sign |-> sign]
      BY <1>4, <2>2, <2>3, <3>1 DEF parse_number, Number
    <3>3. /\ number = 2 * (sign * digits) /\ number = sign * 2 * digits
          /\ sign * digits \in Int /\ (sign = -1 \/ (sign = 1 /\ sign * digits >= 0))
      BY <1>1, <2>3
    <3> HIDE DEF number
    <3>4. /\ item'.type = "Int" /\ item'.valueint = sign * digits
          /\ item'.valuedouble = sign * 2 * digits /\ item'.sign = sign
      BY <3>2
    <3>5. stored'.number = number
      BY <1>4
    <3> QED
      BY <3>3, <3>4, <3>5 DEF NumberKept
  <2>4. CASE fraction # NoFraction
    <3>1. item'.type = "Double" /\ item'.valuedouble = number
      BY <1>1, <1>4, <2>2, <2>4 DEF parse_number, Number
    <3> QED
      BY <1>4, <3>1 DEF NumberKept
  <2> QED
    BY <1>4, <1>5, <2>3, <2>4
<1> HIDE DEF number
<1> QED
  BY <1>3, <1>4, <1>5 DEF JVInv, Integer

(* Every step keeps the invariant.                                          *)
LEMMA StepKeeps ==
  ASSUME JVInv, [JVNext]_jv_vars
  PROVE  JVInv'
<1>1. ASSUME NEW type \in Integer, NEW v \in Values(type),
             \/ AddInteger(type, v) \/ ReplaceInteger(type, v) \/ AppendInteger(type, v)
             \/ ReplaceIntegerAt(type, v)
      PROVE  JVInv'
  BY <1>1, StoresSigned
     DEF AddInteger, ReplaceInteger, AppendInteger, ReplaceIntegerAt
<1>2. ASSUME NEW type \in Integer, NEW v \in Values(type), AddIntegerAsFirst(type, v)
      PROVE  JVInv'
  BY <1>2, StoresAtHead DEF AddIntegerAsFirst
<1>3. ASSUME NEW b \in BOOLEAN,
             AddBool(b) \/ ReplaceBool(b) \/ AppendBool(b) \/ AddBoolAsFirst(b)
             \/ ReplaceBoolAt(b)
      PROVE  JVInv'
  <2>1. 0 \in Reals
    BY Widths DEF Reals
  <2> QED
    BY <1>3, <2>1, StoresOther
       DEF AddBool, ReplaceBool, AppendBool, AddBoolAsFirst, ReplaceBoolAt
<1>4. ASSUME NEW halves \in Reals,
             AddReal(halves) \/ ReplaceReal(halves) \/ AppendReal(halves)
             \/ AddRealAsFirst(halves) \/ ReplaceRealAt(halves)
      PROVE  JVInv'
  BY <1>4, StoresOther DEF AddReal, ReplaceReal, AppendReal, AddRealAsFirst, ReplaceRealAt
<1>5. ASSUME AddNull \/ ReplaceWithNull \/ AppendNull \/ AddNullAsFirst \/ ReplaceWithNullAt
      PROVE  JVInv'
  <2>1. 0 \in Reals
    BY Widths DEF Reals
  <2> QED
    BY <1>5, <2>1, StoresOther
       DEF AddNull, ReplaceWithNull, AppendNull, AddNullAsFirst, ReplaceWithNullAt
<1>6. CASE DeleteItem
  BY <1>6 DEF DeleteItem, JVInv
<1>7. CASE UNCHANGED jv_vars
  BY <1>7 DEF jv_vars, JVInv, IntegerKept, NumberKept
<1> QED
  BY <1>1, <1>2, <1>3, <1>4, <1>5, <1>6, <1>7, ReloadKeeps, ReceiveKeeps DEF JVNext

-----------------------------------------------------------------------------
(* What the invariant says of Get and of the text *)

(* Get by the type it was stored as.                                        *)
LEMMA GetsInteger ==
  ASSUME NEW type \in Integer, NEW v \in Values(type), NEW i,
         i.type = "Int", i.valueint = Signed(v, LongHalf)
  PROVE  GetInteger(type, i) = v
<1> DEFINE w == i.valueint
<1>1. /\ GetInteger("int32", i) = Signed(w, IntHalf)
      /\ GetInteger("uint32", i) = Unsigned(w, IntHalf)
      /\ GetInteger("int64", i) = Signed(w, LongHalf)
      /\ GetInteger("uint64", i) = Unsigned(w, LongHalf)
  BY DEF GetInteger
<1>2. v \in -LongHalf .. 2 * LongHalf - 1 /\ (type # "uint64" => v < LongHalf)
  BY ValuesRange
<1>3. w = IF v >= LongHalf THEN v - 2 * LongHalf ELSE v
  BY <1>2, Widths, SignedIs
<1> HIDE DEF w
<1>4. CASE type = "int32"
  BY <1>1, <1>2, <1>3, <1>4, Widths, SignedIs
<1>5. CASE type = "uint32"
  BY <1>1, <1>2, <1>3, <1>5, Widths, UnsignedIs
<1>6. CASE type = "int64"
  BY <1>1, <1>2, <1>3, <1>6, Widths, SignedIs
<1>7. CASE type = "uint64"
  <2>1. v \in 0 .. 2 * LongHalf - 1 /\ LongHalf \in Nat \ {0}
    BY <1>7, Widths
  <2>2. w \in -(2 * LongHalf) .. 2 * LongHalf - 1
    BY <1>3, <2>1
  <2>3. Unsigned(w, LongHalf) = IF w < 0 THEN w + 2 * LongHalf ELSE w
    BY <2>1, <2>2, UnsignedIs
  <2> QED
    BY <1>1, <1>3, <1>7, <2>1, <2>3
<1> QED
  BY <1>4, <1>5, <1>6, <1>7 DEF Integer

LEMMA KeptIsValue == JVInv => ValueKept
<1> SUFFICES ASSUME JVInv, item # None  PROVE ValueKept
  BY DEF ValueKept
<1>1. ASSUME stored.type \in Integer
      PROVE  /\ 2 * GetInteger(stored.type, item) = stored.number
             /\ ~(first /\ TooLong(stored.number)) => Meaning(print_value(item)) = stored.number
  <2>1. PICK v \in Values(stored.type) :
      /\ stored.number = 2 * v
      /\ item.type = "Int" /\ item.valueint = Signed(v, LongHalf)
      /\ (item.sign = -1 /\ (v < LongHalf \/ first)) \/ (item.sign = 1 /\ v >= 0)
    BY <1>1 DEF JVInv, IntegerKept
  <2>2. v \in -LongHalf .. 2 * LongHalf - 1 /\ LongHalf \in Nat \ {0}
    BY <1>1, ValuesRange, Widths
  <2>3. GetInteger(stored.type, item) = v
    BY <1>1, <2>1, GetsInteger
  <2> DEFINE shown == IF item.sign = -1 THEN Signed(v, LongHalf) ELSE v
  <2>4. print_value(item) = Number(Signum(shown), Abs(shown), NoFraction, 1)
    BY <2>1, <2>2, PrintsInteger DEF print_value
  <2>5. ASSUME ~(first /\ TooLong(stored.number))
        PROVE  shown = v
    BY <2>1, <2>2, <2>5, SignedIs DEF TooLong, Abs
  <2>6. ASSUME shown = v
        PROVE  Meaning(print_value(item)) = stored.number
    <3>1. Meaning(print_value(item)) = Signum(v) * (2 * Abs(v) + 0) * 1
      BY <2>4, <2>6 DEF Meaning, Number
    <3> QED
      BY <2>1, <2>2, <3>1 DEF Signum, Abs
  <2> QED
    BY <2>1, <2>3, <2>5, <2>6
<1>2. stored.type = "bool" => GetBool(item) = (stored.number = 2)
  BY DEF JVInv, GetBool
<1>3. stored.type = "double" => GetDouble(item) = stored.number
  BY DEF JVInv, NumberKept, GetDouble
<1>4. stored.type = "null" => IsNull(item)
  BY DEF JVInv, IsNull, GetValueType
<1>5. (stored.type = "text" /\ ~TooLong(stored.number)) => GetDouble(item) = stored.number
  BY DEF JVInv, NumberKept, GetDouble
<1> QED
  BY <1>1, <1>2, <1>3, <1>4, <1>5 DEF ValueKept

LEMMA KeptIsDouble == JVInv => DoubleAgrees
<1> SUFFICES ASSUME JVInv, item # None, stored.type \in Integer
             PROVE  DoubleAgrees
  BY DEF DoubleAgrees
<1>1. PICK v \in Values(stored.type) :
    /\ stored.number = 2 * v
    /\ item.valuedouble = 2 * v \/ (~parsed /\ v < 0) \/ (parsed /\ Abs(v) >= LongHalf)
  BY DEF JVInv, IntegerKept
<1>2. v \in -LongHalf .. 2 * LongHalf - 1 /\ LongHalf \in Nat \ {0}
  BY ValuesRange, Widths
<1> QED
  BY <1>1, <1>2 DEF DoubleAgrees, GetDouble, TooLong, Abs

LEMMA StartKept == JVInit => JVInv
BY DEF JVInit, JVInv

LEMMA AlwaysKept == JVSpec => []JVInv
<1>1. JVInv /\ [JVNext]_jv_vars => JVInv'
  BY StepKeeps
<1> QED
  BY <1>1, StartKept, PTL DEF JVSpec

(* However often it is saved and loaded again, a value reads as what was    *)
(* stored, for integers of any width: ValueKept with its exceptions.        *)
THEOREM ValuesKept == JVSpec => []ValueKept
BY AlwaysKept, KeptIsValue, PTL

(* And as a floating point number, where DoubleAgrees says so.              *)
THEOREM DoublesAgree == JVSpec => []DoubleAgrees
BY AlwaysKept, KeptIsDouble, PTL
=============================================================================

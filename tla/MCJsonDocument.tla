--------------------------- MODULE MCJsonDocument ---------------------------
(* A TLC instance of JsonDocument: a document with cached objects, a second *)
(* variable to copy and move from, and two keys, one in two spellings.      *)
EXTENDS JsonDocument

CONSTANTS doc, arg, a, A, b

(* What is reached is checked, but not followed further, when a cached      *)
(* object has a tree of its own or refers to a freed item, or the second    *)
(* variable holds more than one node or caches anything.                    *)
Bound ==
  /\ \A p \in CachedObjects : obj[p].own = Null /\ obj[p].ext # Dangling /\ p[1] = doc
  /\ Weight(<<arg>>) <= 1

Symmetry == Permutations({a, A})
=============================================================================

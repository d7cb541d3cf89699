---------------------------- MODULE JsonDocument ----------------------------
(***************************************************************************)
(* neb::CJsonObject (CJsonObject.cpp) over cJSON (cJSON.cpp): a document   *)
(* is a tree of nodes linked by pointers, and an object of the class       *)
(* either owns a tree (m_pJsonData) or refers to a node of another one     *)
(* (m_pExternJsonDataRef).  operator[] keeps the object it returns in a    *)
(* cache, under the key as the caller spells it or under the index, while  *)
(* cJSON finds a member without regard to case.  Every operation that      *)
(* changes the tree must keep the caches in step with it.                  *)
(*                                                                         *)
(* An object is named by the way to it: <<r>> is a variable of the caller, *)
(* Append(p, s) the object that operator[](s) of p caches; so the caches   *)
(* of p are the ways that extend p.  What a member that is neither object  *)
(* nor array holds is the subject of JsonValue: here it is a "value".      *)
(* A call that fails without an effect (wrong type, key exists) is left    *)
(* out.                                                                    *)
(***************************************************************************)
EXTENDS Naturals, FiniteSets, SequencesExt

CONSTANTS
  Root,       \* two CJsonObject variables of the caller
  Key,        \* spellings of keys
  Names,      \* the spellings that differ only in case, as a partition of Key
  NoKey,      \* an item that has no name (cJSON::string is NULL)
  MaxNodes,   \* bounds the nodes on the heap
  MaxIndex,   \* bounds the indices that operator[] is called with
  MaxCached   \* bounds the objects cached below each variable

ASSUME RootAssumption == Cardinality(Root) = 2
ASSUME KeyAssumption ==
  /\ UNION Names = Key /\ \A n1, n2 \in Names : n1 \cap n2 # {} => n1 = n2
  /\ NoKey \notin Key /\ Key \cap Nat = {}
ASSUME BoundAssumption == {MaxNodes, MaxIndex, MaxCached} \subseteq Nat

Null == 0
Node == 1 .. MaxNodes
Dangling == MaxNodes + 1        \* a pointer to a node that was freed
Index == 0 .. MaxIndex

VARIABLES
  tree,   \* the nodes on the heap: kind, name and children, in order
  obj     \* the objects: own = m_pJsonData, ext = m_pExternJsonDataRef

vars == <<tree, obj>>

(* An object that stands for nothing (IsEmpty).                            *)
NoData == [own |-> Null, ext |-> Null]

Init ==
  /\ tree = [n \in {} |-> Null]
  /\ obj = [p \in {<<r>> : r \in Root} |-> NoData]

-----------------------------------------------------------------------------
(* cJSON: nodes *)

SameName(k1, k2) == \E name \in Names : {k1, k2} \subseteq name

Item(kind) == [kind |-> kind, name |-> NoKey, kids |-> <<>>]

Free(t) == Node \ DOMAIN t

(* cJSON_New_Item: malloc may return any free node; which one is the same. *)
New(t) == CHOOSE n \in Free(t) : TRUE
With(t, kind) ==
  [m \in DOMAIN t \cup {New(t)} |-> IF m \in DOMAIN t THEN t[m] ELSE Item(kind)]

Kids(t, n) == Range(t[n].kids)

(* What cJSON_Delete frees: a node and all that is below it, the least set *)
(* that has the node and the children of its members.                      *)
Closed(t, S) == \A m \in S : Kids(t, m) \subseteq S
Below(t, n) ==
  {m \in DOMAIN t : \A S \in SUBSET DOMAIN t : n \in S /\ Closed(t, S) => m \in S}

(* cJSON_GetObjectItem and cJSON_GetArrayItem: the place of the first      *)
(* child that has the name, or of the child with the index; 0 if there is  *)
(* none.                                                                   *)
Position(t, n, slot) ==
  LET kids == t[n].kids
      Meant(i) == IF slot \in Key THEN SameName(t[kids[i]].name, slot) ELSE i = slot + 1
      found == {i \in DOMAIN kids : Meant(i) /\ \A j \in 1 .. i - 1 : ~Meant(j)}
  IN IF found = {} THEN 0 ELSE CHOOSE i \in found : TRUE

(* cJSON_AddItemToObject, cJSON_AddItemToArray, cJSON_AddItemToArrayHead.  *)
AddToObject(t, n, key, x) == [t EXCEPT ![n].kids = Append(@, x), ![x].name = key]
AddToArray(t, n, x) == [t EXCEPT ![n].kids = Append(@, x)]
AddToHead(t, n, x) == [t EXCEPT ![n].kids = <<x>> \o @]

(* cJSON_DetachItemFromArray: the item is unlinked, to be deleted.         *)
Detach(t, n, i) == [t EXCEPT ![n].kids = RemoveAt(@, i)]

(* cJSON_ReplaceItemInArray and, with the key as the new name,             *)
(* cJSON_ReplaceItemInObject.                                              *)
ReplaceAtPlace(t, n, i, x) == [t EXCEPT ![n].kids[i] = x]
Named(t, x, slot) == IF slot \in Key THEN [t EXCEPT ![x].name = slot] ELSE t

(* cJSON_Print: the text has the tree but not the name of its root.        *)
Text(t, n) == [m \in Below(t, n) |-> IF m = n THEN [t[n] EXCEPT !.name = NoKey] ELSE t[m]]

(* cJSON_Parse builds the tree of a text on new nodes.                     *)
Twins(t, text) ==
  CHOOSE twin \in [DOMAIN text -> Free(t)] : IsInjective(twin)
Twin(item, twin) == [item EXCEPT !.kids = [i \in DOMAIN @ |-> twin[@[i]]]]
Build(t, text, n) ==
  LET twin == Twins(t, text)
      Original(f) == CHOOSE m \in DOMAIN text : twin[m] = f
  IN [x |-> twin[n],
      t |-> [f \in DOMAIN t \cup Range(twin) |->
               IF f \in DOMAIN t THEN t[f] ELSE Twin(text[Original(f)], twin)]]

-----------------------------------------------------------------------------
(* CJsonObject: what an object stands for *)

(* pFocusData of every operation.                                          *)
FocusIn(o, p) == IF o[p].own # Null THEN o[p].own ELSE o[p].ext
Focus(p) == FocusIn(obj, p)

KindOf(p) == IF Focus(p) \in DOMAIN tree THEN tree[Focus(p)].kind ELSE "none"

(* What operator[] looks up when its cache has no entry.                   *)
Find(p, slot) ==
  LET place == Position(tree, Focus(p), slot)
  IN IF KindOf(p) = (IF slot \in Key THEN "object" ELSE "array") /\ place # 0
     THEN tree[Focus(p)].kids[place] ELSE Null

Cached(p, slot) == {q \in DOMAIN obj : IsPrefix(Append(p, slot), q)}
CachedFrom(p, i) == UNION {Cached(p, j) : j \in {j \in Index : j >= i}}
CachedKeys(p) == UNION {Cached(p, k) : k \in Key}
AllCached(p) == CachedFrom(p, 0) \cup CachedKeys(p)

(* The end of an operation that left the heap t and the objects o: the     *)
(* objects of drop are deleted (~CJsonObject is Clear: their own trees go  *)
(* with them), the nodes of gone freed, and pointers to them dangle.  A    *)
(* node that no object reaches any more is lost, and the model forgets it. *)
Finish(t, o, drop, gone) ==
  LET dead == gone \cup UNION {Below(t, o[q].own) : q \in {d \in drop : o[d].own # Null}}
      left == [q \in DOMAIN o \ drop |->
                 [o[q] EXCEPT !.ext = IF @ \in dead THEN Dangling ELSE @]]
      seen == ({left[q].own : q \in DOMAIN left} \cup {left[q].ext : q \in DOMAIN left})
                \cap DOMAIN t
  IN /\ tree' = [n \in (UNION {Below(t, m) : m \in seen}) \ dead |-> t[n]]
     /\ obj' = left

(* The first lines of every Add: an object that stands for nothing gets a  *)
(* tree of its own.                                                        *)
Opened(p, kind) ==
  IF Focus(p) # Null THEN [t |-> tree, o |-> obj]
  ELSE [t |-> With(tree, kind),
        o |-> [obj EXCEPT ![p].own = New(tree)]]

Other(p) == <<CHOOSE r \in Root : r # p[1]>>

(* Mutant: the source keeps its pointer to the tree it gave away. *)
Moved_StillOwned(st, p) ==
  [t |-> st.t, o |-> st.o, x |-> st.o[Other(p)].own]

(* The new item: a value, an empty object or array, a copy of the other    *)
(* variable (ToString, then cJSON_Parse; nothing when it stands for        *)
(* nothing), or its tree itself, which it no longer owns then.             *)
Fresh(st, kind) == [t |-> With(st.t, kind), o |-> st.o, x |-> New(st.t)]
Copied(st, p) ==
  LET from == FocusIn(st.o, Other(p))
      copy == Build(st.t, Text(st.t, from), from)
  IN IF from = Null THEN [t |-> st.t, o |-> st.o, x |-> Null]
     ELSE [t |-> copy.t, o |-> st.o, x |-> copy.x]
Moved(st, p) ==
  [t |-> st.t, o |-> [st.o EXCEPT ![Other(p)].own = Null], x |-> st.o[Other(p)].own]

Weight(p) == IF Focus(p) \in DOMAIN tree THEN Cardinality(Below(tree, Focus(p))) ELSE 0
Room(n) == Cardinality(Free(tree)) >= n
-----------------------------------------------------------------------------
(* Operations on an object: Add, AddNull, AddEmptySub*, Delete, Replace *)

CanAdd(p, key) ==
  \/ Focus(p) = Null
  \/ KindOf(p) = "object" /\ Position(tree, Focus(p), key) = 0

AddItem(p, key, made, drop) ==
  IF made.x = Null THEN Finish(made.t, made.o, {}, {})
  ELSE Finish(AddToObject(made.t, FocusIn(made.o, p), key, made.x), made.o, drop, {})

(* A caller does not move a document into itself.                          *)
MayMove(p) ==
  LET own == obj[Other(p)].own
  IN own # Null => Focus(p) \notin Below(tree, own)
MayCopy(p) == Focus(Other(p)) # Dangling

AddValue(p, key) ==
  /\ CanAdd(p, key) /\ Room(2)
  /\ AddItem(p, key, Fresh(Opened(p, "object"), "value"), {})

AddEmptySubObject(p, key) ==
  /\ CanAdd(p, key) /\ Room(2)
  /\ AddItem(p, key, Fresh(Opened(p, "object"), "object"), {})

AddEmptySubArray(p, key) ==
  /\ CanAdd(p, key) /\ Room(2)
  /\ AddItem(p, key, Fresh(Opened(p, "object"), "array"), {})

AddCopy(p, key) ==
  /\ CanAdd(p, key) /\ MayCopy(p) /\ Room(1 + Weight(Other(p)))
  /\ AddItem(p, key, Copied(Opened(p, "object"), p), Cached(p, key))

(* Mutant: the object cached for the key is not deleted. *)
AddMoved_KeepsCache(p, key) ==
  /\ CanAdd(p, key) /\ MayMove(p) /\ Room(1)
  /\ AddItem(p, key, Moved(Opened(p, "object"), p), {})

AddMoved(p, key) ==
  /\ CanAdd(p, key) /\ MayMove(p) /\ Room(1)
  /\ AddItem(p, key, Moved(Opened(p, "object"), p), Cached(p, key))

Delete(p, key) ==
  /\ KindOf(p) = "object"
  /\ LET n == Focus(p)
         i == Position(tree, n, key)
     IN Finish(IF i = 0 THEN tree ELSE Detach(tree, n, i), obj, Cached(p, key),
               IF i = 0 THEN {} ELSE Below(tree, tree[n].kids[i]))

(* An item under a slot gives way to a new one; drop is what the caches    *)
(* lose.  When there is none, the new item is linked nowhere and lost.     *)
Replaced(p, slot, made, drop) ==
  LET n == Focus(p)
      i == Position(tree, n, slot)
  IN Finish(Named(ReplaceAtPlace(made.t, n, i, made.x), made.x, slot), made.o,
            drop, Below(tree, tree[n].kids[i]))
Missed(p, slot, made, drop) == Finish(made.t, made.o, drop, {})

(* Replace with a value empties the cache first, whether or not there is   *)
(* an item; Replace with an object does so only after it replaced one.     *)
ReplaceIn(p, slot, made, first) ==
  IF Position(tree, Focus(p), slot) # 0
  THEN made.x # Null /\ Replaced(p, slot, made, Cached(p, slot))
  ELSE Missed(p, slot, made, IF first THEN Cached(p, slot) ELSE {})

Here == [t |-> tree, o |-> obj]

ReplaceValue(p, key) ==
  /\ KindOf(p) = "object" /\ Room(1)
  /\ ReplaceIn(p, key, Fresh(Here, "value"), TRUE)

ReplaceCopy(p, key) ==
  /\ KindOf(p) = "object" /\ MayCopy(p) /\ Room(Weight(Other(p)))
  /\ ReplaceIn(p, key, Copied(Here, p), FALSE)

ReplaceMoved(p, key) ==
  /\ KindOf(p) = "object" /\ MayMove(p)
  /\ ReplaceIn(p, key, Moved(Here, p), FALSE)

-----------------------------------------------------------------------------
(* Operations on an array: Add, AddAsFirst, Delete, Replace *)

CanAppend(p) == Focus(p) = Null \/ KindOf(p) = "array"

(* Of an object moved or copied in, at the end: what the cache holds from  *)
(* the index of the new item on is deleted.  A value leaves the cache as   *)
(* it is.                                                                  *)
AppendItem(p, made, object) ==
  LET n == FocusIn(made.o, p)
      t == AddToArray(made.t, n, made.x)
  IN IF made.x = Null THEN Finish(made.t, made.o, {}, {})
     ELSE Finish(t, made.o, IF object THEN CachedFrom(p, Len(t[n].kids) - 1) ELSE {}, {})

AppendValue(p) ==
  /\ CanAppend(p) /\ Room(2)
  /\ AppendItem(p, Fresh(Opened(p, "array"), "value"), FALSE)

AppendCopy(p) ==
  /\ CanAppend(p) /\ MayCopy(p) /\ Room(1 + Weight(Other(p)))
  /\ AppendItem(p, Copied(Opened(p, "array"), p), TRUE)

AppendMoved(p) ==
  /\ CanAppend(p) /\ MayMove(p) /\ Room(1)
  /\ AppendItem(p, Moved(Opened(p, "array"), p), TRUE)

(* At the head an object moves every other item by one place, and all of   *)
(* the cache is deleted; a value does so too, and the cache stays.         *)
PrependItem(p, made, drop) ==
  IF made.x = Null THEN Finish(made.t, made.o, {}, {})
  ELSE Finish(AddToHead(made.t, FocusIn(made.o, p), made.x), made.o, drop, {})

AddValueAsFirst(p) ==
  /\ CanAppend(p) /\ Room(2)
  /\ PrependItem(p, Fresh(Opened(p, "array"), "value"), {})

AddCopyAsFirst(p) ==
  /\ CanAppend(p) /\ MayCopy(p) /\ Room(1 + Weight(Other(p)))
  /\ PrependItem(p, Copied(Opened(p, "array"), p), CachedFrom(p, 0))

AddMovedAsFirst(p) ==
  /\ CanAppend(p) /\ MayMove(p) /\ Room(1)
  /\ PrependItem(p, Moved(Opened(p, "array"), p), CachedFrom(p, 0))

DeleteAt(p, i) ==
  /\ KindOf(p) = "array"
  /\ LET n == Focus(p)
         place == Position(tree, n, i)
     IN Finish(IF place = 0 THEN tree ELSE Detach(tree, n, place), obj, CachedFrom(p, i),
               IF place = 0 THEN {} ELSE Below(tree, tree[n].kids[place]))

ReplaceValueAt(p, i) ==
  /\ KindOf(p) = "array" /\ Room(1)
  /\ ReplaceIn(p, i, Fresh(Here, "value"), TRUE)

ReplaceCopyAt(p, i) ==
  /\ KindOf(p) = "array" /\ MayCopy(p) /\ Room(Weight(Other(p)))
  /\ ReplaceIn(p, i, Copied(Here, p), FALSE)

ReplaceMovedAt(p, i) ==
  /\ KindOf(p) = "array" /\ MayMove(p)
  /\ ReplaceIn(p, i, Moved(Here, p), FALSE)

-----------------------------------------------------------------------------
(* Access and assignment *)

(* operator[]: the cached object, or a new one that refers to the item, or *)
(* one that stands for nothing when there is no item.                      *)
Cache(p, slot) ==
  /\ Append(p, slot) \notin DOMAIN obj
  /\ Cardinality({q \in DOMAIN obj : q[1] = p[1]}) <= MaxCached
  /\ obj' = [q \in DOMAIN obj \cup {Append(p, slot)} |->
               IF q \in DOMAIN obj THEN obj[q] ELSE [own |-> Null, ext |-> Find(p, slot)]]
  /\ UNCHANGED tree

AtKey(p, key) == Cache(p, key)
AtIndex(p, i) == Cache(p, i)

Owned(p) == IF obj[p].own = Null THEN {} ELSE Below(tree, obj[p].own)

(* Clear: what the object owns is freed and its caches are deleted.  What  *)
(* is not freed yet is still there to be copied from.                      *)
Cleared(p) == [obj EXCEPT ![p] = NoData]
Clear(p) == Finish(tree, Cleared(p), AllCached(p), Owned(p))

(* Parse: Clear, then the tree the text describes, or none.  Of the texts  *)
(* only the kind of the document is told apart.                            *)
Parse(p, text) ==
  LET x == New(tree)
  IN IF text = "malformed" THEN Clear(p)
     ELSE /\ Room(1)
          /\ Finish(With(tree, text),
                    [obj EXCEPT ![p] = [own |-> x, ext |-> Null]],
                    AllCached(p), Owned(p))

(* operator= and the copy constructors print the source first and parse    *)
(* into the target; Get(key, object) does so with a member.                *)
ParseFrom(p, n) ==
  LET copy == Build(tree, Text(tree, n), n)
  IN IF n = Null THEN Clear(p)
     ELSE /\ Room(Cardinality(Below(tree, n)))
          /\ Finish(copy.t,
                    [obj EXCEPT ![p] = [own |-> copy.x, ext |-> Null]],
                    AllCached(p), Owned(p))

Assign(p, q) ==
  /\ p # q /\ Focus(q) # Dangling
  /\ ParseFrom(p, Focus(q))

GetMember(p, slot) ==
  /\ Find(p, slot) # Null
  /\ ParseFrom(Other(p), Find(p, slot))

Get(p, key) == GetMember(p, key)
GetAt(p, i) == GetMember(p, i)

(* The moving operator= and constructor take everything, caches included.  *)
MoveAssign(r, s) ==
  LET rest == DOMAIN obj \ (AllCached(<<r>>) \cup {<<r>>})
      To(q) == IF q[1] = s THEN <<r>> \o Tail(q) ELSE q
      moved == {To(q) : q \in rest} \cup {<<s>>}
      From(q) == CHOOSE w \in rest : To(w) = q
      gone == Owned(<<r>>) \cup UNION {Owned(q) : q \in AllCached(<<r>>)}
  IN /\ r # s
     /\ Finish(tree, [q \in moved |-> IF q = <<s>> THEN NoData ELSE obj[From(q)]], {}, gone)

-----------------------------------------------------------------------------
OnKey(p, key) ==
  \/ AddValue(p, key) \/ AddEmptySubObject(p, key) \/ AddEmptySubArray(p, key)
  \/ AddCopy(p, key) \/ AddMoved(p, key)
  \/ Delete(p, key)
  \/ ReplaceValue(p, key) \/ ReplaceCopy(p, key) \/ ReplaceMoved(p, key)
  \/ AtKey(p, key)
  \/ Get(p, key)

OnIndex(p, i) ==
  \/ DeleteAt(p, i)
  \/ ReplaceValueAt(p, i) \/ ReplaceCopyAt(p, i) \/ ReplaceMovedAt(p, i)
  \/ AtIndex(p, i)
  \/ GetAt(p, i)

OnAll(p) ==
  \/ AppendValue(p) \/ AppendCopy(p) \/ AppendMoved(p)
  \/ AddValueAsFirst(p) \/ AddCopyAsFirst(p) \/ AddMovedAsFirst(p)

OnItself(p) ==
  \/ Clear(p)
  \/ \E text \in {"object", "array", "malformed"} : Parse(p, text)
  \/ \E q \in DOMAIN obj : Assign(p, q)

(* An object whose item was freed may only be assigned to: any other use   *)
(* of it is undefined.                                                     *)
Next ==
  \/ \E p \in DOMAIN obj :
       /\ Focus(p) # Dangling
       /\ \/ \E key \in Key : OnKey(p, key)
          \/ \E i \in Index : OnIndex(p, i)
          \/ OnAll(p)
  \/ \E p \in DOMAIN obj : OnItself(p)
  \/ \E r, s \in Root : MoveAssign(r, s)

Spec == Init /\ [][Next]_vars

-----------------------------------------------------------------------------
(* Properties *)

Owners(n) ==
  Cardinality({p \in DOMAIN obj : obj[p].own = n})
    + Cardinality({m \in DOMAIN tree : n \in Range(tree[m].kids)})

(* Every node has at most one owner, the object that will delete it or the *)
(* parent it is deleted with, nothing owned was freed, and no node is      *)
(* twice in a list: so destructors, in whatever order, free each node at   *)
(* most once.                                                              *)
OwnedOnce ==
  /\ \A n \in DOMAIN tree : Owners(n) <= 1 /\ IsInjective(tree[n].kids)
  /\ \A n \in Node : Owners(n) > 0 => n \in DOMAIN tree

CachedObjects == {p \in DOMAIN obj : Len(p) > 1}

(* A cached object is in step when it stands for what its parent finds now *)
(* under the slot it is cached for, or for nothing when there is nothing.  *)
InStep(p) == Focus(p) = Find(Front(p), Last(p))

Shared(p) == \E q \in DOMAIN obj \ {p} : Focus(q) = Focus(p) /\ Focus(p) # Null

ByOtherSpelling(p, slot) == \E k \in Key \ {slot} : SameName(k, slot) /\ OnKey(p, k)
ByValue(p, slot) ==
  \/ slot \in Key /\ (AddValue(p, slot) \/ AddEmptySubObject(p, slot) \/ AddEmptySubArray(p, slot))
  \/ AppendValue(p) /\ Find(p, slot) = Null
  \/ AddValueAsFirst(p)
TakenOver == \E r, s \in Root : MoveAssign(r, s)
SetItself(p) == obj'[p].own # Null \/ (Focus(p) # Null /\ Focus(p)' = Null)

(* What operator[] has cached stays in step with the document through any  *)
(* call, and never refers to an item that was freed, with these            *)
(* exceptions: the parent was changed through another object for the same  *)
(* item or stands for something else now; the item was changed under       *)
(* another spelling of its key; a value (not an object) was added where    *)
(* the object stood for nothing, or in front of it; or the object was      *)
(* itself assigned to, or filled while it stood for nothing, which never   *)
(* reaches the document.                                                   *)
CacheFollows ==
  [][\A p \in CachedObjects \cap CachedObjects' :
       LET parent == Front(p)
       IN InStep(p) =>
            \/ InStep(p)'
            \/ Focus(parent)' # Focus(parent)
            \/ Shared(parent)
            \/ SetItself(p)
            \/ TakenOver
            \/ ByOtherSpelling(parent, Last(p))
            \/ ByValue(parent, Last(p))]_vars

-----------------------------------------------------------------------------
(* The inductive invariant, for OwnedOnce                                   *)

Path == {p \in Seq(Root \cup Key \cup Index) : p # <<>> /\ p[1] \in Root}

ItemType(S) ==
  [kind : {"object", "array", "value"}, name : Key \cup {NoKey}, kids : Seq(S)]

Parentless(t, n) == \A m \in DOMAIN t : n \notin Kids(t, m)
Ownerless(o, n) == \A p \in DOMAIN o : o[p].own # n

(* The nodes are trees: no node has two parents, is twice in a list, or is  *)
(* below itself.                                                            *)
Trees(t) ==
  /\ DOMAIN t \subseteq Node /\ t \in [DOMAIN t -> ItemType(DOMAIN t)]
  /\ \A n \in DOMAIN t : IsInjective(t[n].kids)
  /\ \A m1, m2 \in DOMAIN t : \A n \in Kids(t, m1) \cap Kids(t, m2) : m1 = m2
  /\ \A n \in DOMAIN t : \A m \in Below(t, n) : n \notin Kids(t, m)

(* Only roots of trees are owned, each by one object.                       *)
Owning(t, o) ==
  /\ DOMAIN o \subseteq Path /\ \A r \in Root : <<r>> \in DOMAIN o
  /\ o \in [DOMAIN o -> [own : DOMAIN t \cup {Null}, ext : DOMAIN t \cup {Null, Dangling}]]
  /\ \A p, q \in DOMAIN o : o[p].own = o[q].own /\ o[p].own # Null => p = q
  /\ \A p \in DOMAIN o : Parentless(t, o[p].own)

HeapInv == Trees(tree) /\ Owning(tree, obj)

(* What a cached object is cached by exists: the caches are dropped from    *)
(* below.                                                                   *)
CacheInv ==
  \A p \in CachedObjects : Front(p) \in DOMAIN obj /\ Last(p) \in Key \cup Index
=============================================================================

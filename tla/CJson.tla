------------------------------- MODULE CJson -------------------------------
(***************************************************************************)
(* The item trees of src/utils/json/cJSON.c: the heap of cJSON structures  *)
(* behind every payload the device builds or reads, and the functions that *)
(* create, attach, detach, replace, copy and delete them.                  *)
(*                                                                         *)
(* An item is its address.  The items of an array or object are a doubly   *)
(* linked list that starts at its child; the first item has no prev, the   *)
(* last no next.  cJSON_AddItem* look at no type, so an array, an object   *)
(* and a scalar differ in nothing but text, the valuestring.  A reference  *)
(* is an item that shares the child and text of another and frees neither. *)
(* Numbers, types and whether a name is constant or copied are never        *)
(* followed, and are left out.                                             *)
(*                                                                         *)
(* The application calls the functions one at a time, on what it holds:    *)
(* it hands over only a detached item, never puts an item below itself,    *)
(* uses the items of a reference through their owner and deletes no item   *)
(* a reference still shows.  Memory may run out in any allocation.  A call *)
(* that returns NULL or false and leaves the heap as it was is a           *)
(* stuttering step.                                                        *)
(***************************************************************************)
EXTENDS Naturals, Sequences, FiniteSets, SequencesExt

CONSTANTS
    Items,      \* the addresses a cJSON structure may have
    Keys,       \* the names of object members
    NULL,
    MaxCount,   \* bound on the elements of cJSON_CreateIntArray and the like
    MaxApart    \* bound on the references and the items given away and not taken

ASSUME NullAssumption == NULL \notin Items /\ NULL \notin Keys
ASSUME ItemsAssumption == IsFiniteSet(Items)
ASSUME BoundsAssumption == MaxCount \in Nat /\ MaxApart \in Nat

Pointers == Items \cup {NULL}

VARIABLES
    live,       \* the items allocated
    next, prev, child,
    text,       \* the item that allocated the valuestring an item points to
    key,        \* string: the item's name
    reference,  \* the items whose type has cJSON_IsReference
    held,       \* the detached items the application has to delete
    leaked      \* history: the items nobody can reach any more

vars == <<live, next, prev, child, text, key, reference, held, leaked>>

-----------------------------------------------------------------------------
(* Walking *)

\* The items a walk along n from item x visits.
Chain(n, x) ==
    {y \in Items : \A S \in SUBSET Items :
        (x \in S /\ \A z \in S : n[z] # NULL => n[z] \in S) => y \in S}

\* What cJSON_Delete frees: the list that starts at x with all it owns.
Owned(n, c, x) ==
    {y \in Items : \A S \in SUBSET Items :
        /\ x \in S
        /\ \A z \in S : n[z] # NULL => n[z] \in S
        /\ \A z \in S : z \notin reference /\ c[z] # NULL => c[z] \in S
        => y \in S}

\* What a walk from x that enters references too may visit.
Seen(x) ==
    {y \in Items : \A S \in SUBSET Items :
        /\ x \in S
        /\ \A z \in S : next[z] # NULL => next[z] \in S
        /\ \A z \in S : child[z] # NULL => child[z] \in S
        => y \in S}

Elements(p) == IF child[p] = NULL THEN {} ELSE Chain(next, child[p])

\* y comes before z in a list.
Before(y, z) == y # z /\ z \in Chain(next, y)

\* tolower on the keys of an instance.
Lower(k) == IF k = "A" THEN "a" ELSE k

\* get_object_item: the first member of that name, in its own case or in any.
\* The case sensitive walk ends at a member without a name.
Named(p, y, k, sensitive) ==
    /\ y \in Elements(p) /\ key[y] # NULL
    /\ IF sensitive THEN key[y] = k ELSE Lower(key[y]) = Lower(k)
    /\ \A z \in Elements(p) : Before(z, y) =>
          IF sensitive THEN key[z] \notin {NULL, k} ELSE key[z] = NULL \/ Lower(key[z]) # Lower(k)

-----------------------------------------------------------------------------
(* What the application may do *)

\* The arrays and objects it may change.
Containers == {p \in live \ reference : text[p] = NULL}

\* x may go into the list of p without closing a circle.
Fits(p, x) ==
    /\ ({p} \cup Elements(p)) \cap Seen(x) = {}
    /\ \A z \in Elements(p) : x \notin Seen(z)

\* No reference that stays shows an item of D.
Unshown(D) == \A r \in (live \cap reference) \ D : child[r] \notin D /\ text[r] \notin D

-----------------------------------------------------------------------------
(* Creating *)

\* cJSON_CreateNull ... cJSON_CreateObject, and cJSON_CreateString and
\* cJSON_CreateRaw with a copy of the text.
Create(x) ==
    /\ x \notin live
    /\ live' = live \cup {x}
    /\ held' = held \cup {x}
    /\ \E t \in {NULL, x} : text' = [text EXCEPT ![x] = t]
    /\ UNCHANGED <<next, prev, child, key, reference, leaked>>

\* cJSON_CreateObjectReference and cJSON_CreateArrayReference.
CreateReference(x, c) ==
    /\ x \notin live /\ c \in live
    /\ live' = live \cup {x}
    /\ held' = held \cup {x}
    /\ reference' = reference \cup {x}
    /\ child' = [child EXCEPT ![x] = c]
    /\ UNCHANGED <<next, prev, text, key, leaked>>

\* Lists of n different items that are not allocated.
FreshLists(n) == {s \in [1..n -> Items \ live] : \A i, j \in 1..n : s[i] = s[j] => i = j}

\* cJSON_CreateIntArray, FloatArray, DoubleArray and, with own text,
\* StringArray: s[1] is the array, each element is linked to the one before.
CreateArrayOf(s, strings) ==
    LET elements == {s[i] : i \in 2..Len(s)}
        Index(y) == CHOOSE i \in 2..Len(s) : s[i] = y IN
    /\ live' = live \cup {s[1]} \cup elements
    /\ held' = held \cup {s[1]}
    /\ child' = IF elements = {} THEN child ELSE [child EXCEPT ![s[1]] = s[2]]
    /\ next' = [y \in Items |-> IF y \in elements /\ Index(y) < Len(s) THEN s[Index(y) + 1] ELSE next[y]]
    /\ prev' = [y \in Items |-> IF y \in elements /\ Index(y) > 2 THEN s[Index(y) - 1] ELSE prev[y]]
    /\ text' = [y \in Items |-> IF y \in elements /\ strings THEN y ELSE text[y]]
    /\ UNCHANGED <<key, reference, leaked>>

-----------------------------------------------------------------------------
(* Adding *)

\* Mutant of AppendTo: there is no walk to the last element.
MutAppendTo(p, x, c) ==
    \/ /\ child[p] = NULL
       /\ child' = [c EXCEPT ![p] = x]
       /\ UNCHANGED <<next, prev>>
    \/ /\ child[p] # NULL
       /\ child' = c
       /\ next' = [next EXCEPT ![child[p]] = x]
       /\ prev' = [prev EXCEPT ![x] = child[p]]

\* add_item_to_array, c being what the children are otherwise: suffix_object
\* after the last element, or the first element.
AppendTo(p, x, c) ==
    \/ /\ child[p] = NULL
       /\ child' = [c EXCEPT ![p] = x]
       /\ UNCHANGED <<next, prev>>
    \/ /\ child[p] # NULL
       /\ child' = c
       /\ \E last \in Elements(p) :
            /\ next[last] = NULL
            /\ next' = [next EXCEPT ![last] = x]
            /\ prev' = [prev EXCEPT ![x] = last]

\* cJSON_AddItemToArray.
AddItemToArray(p, x) ==
    /\ Fits(p, x)
    /\ AppendTo(p, x, child)
    /\ held' = held \ {x}
    /\ UNCHANGED <<live, text, key, reference, leaked>>

\* cJSON_AddItemToObject and, with a constant name, cJSON_AddItemToObjectCS.
AddItemToObject(p, k, x) ==
    /\ Fits(p, x)
    /\ AppendTo(p, x, child)
    /\ held' = held \ {x}
    /\ key' = [key EXCEPT ![x] = k]
    /\ UNCHANGED <<live, text, reference, leaked>>

\* The copy of the name fails.  cJSON_AddItemToObject returns nothing, so
\* the caller has given the item away and the object has not got it.
AddItemFails(x) ==
    /\ held' = held \ {x}
    /\ leaked' = leaked \cup {x}
    /\ UNCHANGED <<live, next, prev, child, text, key, reference>>

\* cJSON_AddNullToObject ... cJSON_AddArrayToObject: what cannot be added is
\* deleted again, which leaves the heap as it was.
AddNewToObject(p, k, x) ==
    /\ x \notin live
    /\ live' = live \cup {x}
    /\ \E t \in {NULL, x} : text' = [text EXCEPT ![x] = t]
    /\ AppendTo(p, x, child)
    /\ key' = [key EXCEPT ![x] = k]
    /\ UNCHANGED <<reference, held, leaked>>

\* Mutant of create_reference: IsReference is not set.
MutCreateReference(x, y) ==
    /\ live' = live \cup {x}
    /\ text' = [text EXCEPT ![x] = text[y]]
    /\ UNCHANGED reference

\* create_reference, but for the child, which AppendTo sets: the structure
\* is copied, except the name and the neighbours.
create_reference(x, y) ==
    /\ live' = live \cup {x}
    /\ text' = [text EXCEPT ![x] = text[y]]
    /\ reference' = reference \cup {x}

\* The elements of p may not be among what y shows.
FitsReference(p, y) == child[y] = NULL \/ ({p} \cup Elements(p)) \cap Seen(child[y]) = {}

\* cJSON_AddItemReferenceToArray.
AddItemReferenceToArray(p, y, x) ==
    /\ x \notin live /\ FitsReference(p, y)
    /\ create_reference(x, y)
    /\ AppendTo(p, x, [child EXCEPT ![x] = child[y]])
    /\ UNCHANGED <<key, held, leaked>>

\* cJSON_AddItemReferenceToObject.
AddItemReferenceToObject(p, k, y, x) ==
    /\ x \notin live /\ FitsReference(p, y)
    /\ create_reference(x, y)
    /\ AppendTo(p, x, [child EXCEPT ![x] = child[y]])
    /\ key' = [key EXCEPT ![x] = k]
    /\ UNCHANGED <<held, leaked>>

\* The copy of the name fails: nobody has the reference.
AddReferenceFails(y, x) ==
    /\ x \notin live
    /\ create_reference(x, y)
    /\ child' = [child EXCEPT ![x] = child[y]]
    /\ leaked' = leaked \cup {x}
    /\ UNCHANGED <<next, prev, key, held>>

\* cJSON_InsertItemInArray before element y; past the end it is added.
InsertItemInArray(p, y, x) ==
    /\ Fits(p, x)
    /\ next' = [z \in Items |-> IF z = x THEN y ELSE IF y # child[p] /\ z = prev[y] THEN x ELSE next[z]]
    /\ prev' = [prev EXCEPT ![x] = prev[y], ![y] = x]
    /\ child' = IF y = child[p] THEN [child EXCEPT ![p] = x] ELSE child
    /\ held' = held \ {x}
    /\ UNCHANGED <<live, text, key, reference, leaked>>

-----------------------------------------------------------------------------
(* Detaching and deleting *)

\* The heap after the fields of the detached y are taken out of p.
NextWithout(y) == [z \in Items |-> IF z = y THEN NULL ELSE IF z = prev[y] THEN next[y] ELSE next[z]]
PrevWithout(y) == [z \in Items |-> IF z = y THEN NULL ELSE IF z = next[y] THEN prev[y] ELSE prev[z]]

\* Mutant of ChildWithout: the first element stays the child.
MutChildWithout(p, y) == child

ChildWithout(p, y) == IF child[p] = y THEN [child EXCEPT ![p] = next[y]] ELSE child

\* cJSON_DetachItemViaPointer, FromArray and FromObject.
DetachItemViaPointer(p, y) ==
    /\ next' = NextWithout(y)
    /\ prev' = PrevWithout(y)
    /\ child' = ChildWithout(p, y)
    /\ held' = held \cup {y}
    /\ UNCHANGED <<live, text, key, reference, leaked>>

\* What is left of the heap n, v, c, s when the items D are freed.
Free(D, n, v, c, s) ==
    LET Cleared(g) == [z \in Items |-> IF z \in D THEN NULL ELSE g[z]] IN
    /\ Unshown(D)
    /\ live' = live \ D
    /\ next' = Cleared(n)
    /\ prev' = Cleared(v)
    /\ child' = Cleared(c)
    /\ text' = Cleared(text)
    /\ key' = Cleared(s)
    /\ reference' = reference \ D

\* cJSON_Delete.
Delete(x) ==
    LET D == Owned(next, child, x) IN
    /\ Free(D, next, prev, child, key)
    /\ held' = held \ {x}
    /\ UNCHANGED leaked

\* cJSON_DeleteItemFromArray and cJSON_DeleteItemFromObject.
DeleteItemFrom(p, y) ==
    LET D == Owned(NextWithout(y), ChildWithout(p, y), y) IN
    /\ Free(D, NextWithout(y), PrevWithout(y), ChildWithout(p, y), key)
    /\ UNCHANGED <<held, leaked>>

-----------------------------------------------------------------------------
(* Replacing *)

\* The heap in which x has the place of y, and y is alone.
NextWith(y, x) ==
    [z \in Items |-> IF z = y THEN NULL ELSE IF z = x THEN next[y] ELSE IF z = prev[y] THEN x ELSE next[z]]
PrevWith(y, x) ==
    [z \in Items |-> IF z = y THEN NULL ELSE IF z = x THEN prev[y] ELSE IF z = next[y] THEN x ELSE prev[z]]
ChildWith(p, y, x) == IF child[p] = y THEN [child EXCEPT ![p] = x] ELSE child

\* cJSON_ReplaceItemViaPointer, with s the names: y is deleted.
ReplaceItemViaPointer(p, y, x, s) ==
    /\ Fits(p, x)
    /\ Free(Owned(NextWith(y, x), ChildWith(p, y, x), y),
            NextWith(y, x), PrevWith(y, x), ChildWith(p, y, x), s)
    /\ held' = held \ {x}

\* cJSON_ReplaceItemInArray.
ReplaceItemInArray(p, y, x) ==
    /\ ReplaceItemViaPointer(p, y, x, key)
    /\ UNCHANGED leaked

\* replace_item_in_object.  The copy of the name is not checked: when it
\* fails the new member has none.
ReplaceItemInObject(p, k, y, x, sensitive) ==
    /\ Named(p, y, k, sensitive)
    /\ \E name \in {k, NULL} : ReplaceItemViaPointer(p, y, x, [key EXCEPT ![x] = name])
    /\ UNCHANGED leaked

\* No member has the name: true is returned, or nothing at all, and the new
\* item stays with nobody.
ReplaceMissingItem(p, k, x, sensitive) ==
    /\ \A y \in Elements(p) : ~Named(p, y, k, sensitive)
    /\ \E name \in {k, NULL} : key' = [key EXCEPT ![x] = name]
    /\ held' = held \ {x}
    /\ leaked' = leaked \cup {x}
    /\ UNCHANGED <<live, next, prev, child, text, reference>>

-----------------------------------------------------------------------------
(* Copying *)

\* The items a copy of x is made of.
CopiedFrom(x, recurse) == IF recurse /\ child[x] # NULL THEN {x} \cup Seen(child[x]) ELSE {x}

\* No two pointers among R lead to the same item, so that each is copied
\* once, and none back to x.
Unshared(R, x) ==
    /\ \A w \in R : child[w] # x /\ (w # x => next[w] # x)
    /\ \A w, z \in R : w # z /\ child[w] # NULL => child[w] # child[z]
    /\ \A w \in R \ {x}, z \in R : next[w] # NULL => next[w] # child[z]

\* cJSON_Duplicate: f[z] is the copy of z.  References become items of their
\* own.  A failure deletes the copy.
Duplicate(x, R, f) ==
    LET Original(y) == CHOOSE z \in R : f[z] = y
        copies == {f[z] : z \in R}
        \* A pointer of the original among the copies.
        Moved(g, z) == IF g[z] \in R THEN f[g[z]] ELSE NULL IN
    /\ Unshared(R, x)
    /\ \A y, z \in R : f[y] = f[z] => y = z
    /\ live' = live \cup copies
    /\ held' = held \cup {f[x]}
    /\ next' = [y \in Items |-> IF y \in copies \ {f[x]} THEN Moved(next, Original(y)) ELSE next[y]]
    /\ prev' = [y \in Items |-> IF y \in copies \ {f[x]} /\ prev[Original(y)] # x THEN Moved(prev, Original(y)) ELSE prev[y]]
    /\ child' = [y \in Items |-> IF y \in copies THEN Moved(child, Original(y)) ELSE child[y]]
    /\ text' = [y \in Items |-> IF y \in copies /\ text[Original(y)] # NULL THEN y ELSE text[y]]
    /\ key' = [y \in Items |-> IF y \in copies THEN key[Original(y)] ELSE key[y]]
    /\ UNCHANGED <<reference, leaked>>

-----------------------------------------------------------------------------
Init ==
    /\ live = {} /\ held = {} /\ leaked = {}
    /\ reference = {}
    /\ next = [x \in Items |-> NULL]
    /\ prev = [x \in Items |-> NULL]
    /\ child = [x \in Items |-> NULL]
    /\ text = [x \in Items |-> NULL]
    /\ key = [x \in Items |-> NULL]

\* Room for one more reference or lost item.
Room == Cardinality(reference \cup leaked) < MaxApart

CreateAny ==
    \/ \E x \in Items : Create(x)
    \/ \E x \in Items, c \in live : Room /\ CreateReference(x, c)
    \/ \E n \in 0..MaxCount, strings \in BOOLEAN : \E s \in FreshLists(n + 1) : CreateArrayOf(s, strings)

AddAny ==
    \/ \E p \in Containers, x \in held :
        \/ AddItemToArray(p, x)
        \/ \E k \in Keys : AddItemToObject(p, k, x)
        \/ \E y \in Elements(p) : InsertItemInArray(p, y, x)
    \/ \E x \in held : Room /\ AddItemFails(x)
    \/ \E p \in Containers, x \in Items, k \in Keys : AddNewToObject(p, k, x)
    \/ \E p \in Containers, y \in live, x \in Items :
        /\ Room
        /\ \/ AddItemReferenceToArray(p, y, x)
           \/ \E k \in Keys : AddItemReferenceToObject(p, k, y, x)
    \/ \E y \in live, x \in Items : Room /\ AddReferenceFails(y, x)

RemoveAny ==
    \/ \E p \in Containers : \E y \in Elements(p) : DetachItemViaPointer(p, y) \/ DeleteItemFrom(p, y)
    \/ \E x \in held : Delete(x)
    \/ \E p \in Containers, x \in held : \E y \in Elements(p) : ReplaceItemInArray(p, y, x)
    \/ \E p \in Containers, x \in held, k \in Keys, sensitive \in BOOLEAN :
        \/ \E y \in Elements(p) : ReplaceItemInObject(p, k, y, x, sensitive)
        \/ Room /\ ReplaceMissingItem(p, k, x, sensitive)

CopyAny ==
    \E x \in live, recurse \in BOOLEAN :
        LET R == CopiedFrom(x, recurse) IN \E f \in [R -> Items \ live] : Duplicate(x, R, f)

Next == CreateAny \/ AddAny \/ RemoveAny \/ CopyAny

Spec == Init /\ [][Next]_vars

-----------------------------------------------------------------------------
(* Properties *)

\* The variables have their types; what the application holds is allocated
\* and is not what it has given away.
TypeOK ==
    /\ live \subseteq Items
    /\ next \in [Items -> Pointers] /\ prev \in [Items -> Pointers]
    /\ child \in [Items -> Pointers] /\ text \in [Items -> Pointers]
    /\ key \in [Items -> Keys \cup {NULL}]
    /\ reference \subseteq live
    /\ held \subseteq live /\ leaked \subseteq live
    /\ held \cap leaked = {}

\* The neighbours of an item are allocated and point back to it.
NeighboursAgree ==
    \A x \in live :
        /\ next[x] # NULL => next[x] \in live /\ prev[next[x]] = x
        /\ prev[x] # NULL => prev[x] \in live /\ next[prev[x]] = x

\* A list starts at an allocated item without a prev and has one owner;
\* what a reference shows is allocated too.
ListsHaveOneOwner ==
    \A p \in live : child[p] # NULL =>
        /\ child[p] \in live
        /\ p \notin reference => prev[child[p]] = NULL /\ child[p] \notin held \cup leaked
        /\ \A q \in live : p \notin reference /\ q \notin reference /\ child[q] = child[p] => p = q

\* A valuestring is freed with the one item that allocated it, and no item
\* that stays points to it.
TextsHaveOneOwner ==
    \A x \in live : text[x] # NULL => text[x] \in live /\ (x \notin reference => text[x] = x)

\* What the application holds is in no list.
HeldIsAlone == \A x \in held \cup leaked : prev[x] = NULL /\ next[x] = NULL

\* Nothing an item points to has been freed and nothing is freed twice,
\* whatever the calls and whichever allocations fail.
PointersSound == NeighboursAgree /\ ListsHaveOneOwner /\ TextsHaveOneOwner /\ HeldIsAlone

\* The items cJSON_Delete frees when the application deletes all it holds.
Deletable == UNION {Owned(next, child, x) : x \in held}

\* Nothing is lost: apart from the three calls that cannot tell their caller
\* that they did not take the item, every allocated item is freed in the end.
NothingLost == live \subseteq Deletable \cup UNION {Owned(next, child, x) : x \in leaked}

\* s is the list that starts at x, and the elements of p in order.
IsList(s, n, x) ==
    /\ x = NULL => s = <<>>
    /\ x # NULL => s # <<>> /\ s[1] = x
    /\ \A i \in DOMAIN s : n[s[i]] = IF i = Len(s) THEN NULL ELSE s[i + 1]
Sequence(p) ==
    IF p \in reference THEN <<>> ELSE CHOOSE s \in SetToSeqs(Elements(p)) : IsList(s, next, child[p])
Kids == [p \in Items |-> Sequence(p)]

Forest == INSTANCE JsonForest WITH
    nodes <- live, kids <- Kids, name <- key, roots <- held \cup leaked

\* The functions on linked items do what they promise on lists: add at the
\* end, insert, detach, replace in place, delete with everything below.
ListsAsPromised == Forest!Spec

=============================================================================

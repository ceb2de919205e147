---------------------------- MODULE CJson_proofs ----------------------------
(***************************************************************************)
(* Proofs about CJson: for any number of items, of any shape, no function  *)
(* leaves a pointer to a freed item, none frees an item twice, nothing is  *)
(* lost but what is given away, and the lists are those of JsonForest.     *)
(*                                                                         *)
(* The heap is a parameter of what is proved about it (live items L, next  *)
(* n, prev v, child c, text t, references R, and the items A that are in   *)
(* no list), because most functions are several changes in a row: one of   *)
(* these is a lemma, and the functions are put together from them.         *)
(***************************************************************************)
EXTENDS CJson, TLAPS, LeastNumber, SequenceTheorems

Typed(L, n, v, c, t, R, A) ==
    /\ L \subseteq Items /\ R \subseteq L /\ A \subseteq L
    /\ n \in [Items -> Pointers] /\ v \in [Items -> Pointers]
    /\ c \in [Items -> Pointers] /\ t \in [Items -> Pointers]
    /\ \A x \in Items \ L : n[x] = NULL /\ v[x] = NULL /\ c[x] = NULL /\ t[x] = NULL

Neighbours(L, n, v) ==
    \A x \in L :
        /\ n[x] # NULL => n[x] \in L /\ v[n[x]] = x
        /\ v[x] # NULL => v[x] \in L /\ n[v[x]] = x

Owners(L, v, c, R, A) ==
    \A p \in L : c[p] # NULL =>
        /\ c[p] \in L
        /\ p \notin R => v[c[p]] = NULL /\ c[p] \notin A
        /\ \A q \in L : p \notin R /\ q \notin R /\ c[q] = c[p] => p = q

Owns(L, t, R) == \A x \in L : t[x] # NULL => t[x] \in L /\ (x \notin R => t[x] = x)

Alone(n, v, A) == \A x \in A : v[x] = NULL /\ n[x] = NULL

Sound(L, n, v, c, t, R, A) ==
    Typed(L, n, v, c, t, R, A) /\ Neighbours(L, n, v) /\ Owners(L, v, c, R, A) /\ Owns(L, t, R) /\ Alone(n, v, A)

\* y is in the list of p, which is no reference.
Linked(v, c, p, y) == c[p] = y \/ (v[y] # NULL /\ v[y] # y)

-----------------------------------------------------------------------------
(* Walking *)

\* Every element of a list but the first has one before it.
LEMMA ChainBefore ==
    ASSUME NEW n, n \in [Items -> Pointers], NEW a \in Items, NEW y \in Chain(n, a), y # a
    PROVE  \E z \in Items : z # y /\ n[z] = y
<1> SUFFICES ASSUME \A z \in Items \ {y} : n[z] # y PROVE FALSE
  OBVIOUS
<1> DEFINE S == Items \ {y}
<1>1. S \in SUBSET Items /\ a \in S
  OBVIOUS
<1>2. \A z \in S : n[z] # NULL => n[z] \in S
  BY DEF Pointers
<1> HIDE DEF S
<1>3. y \in S
  BY <1>1, <1>2 DEF Chain
<1> QED
  BY <1>3 DEF S

\* The elements of a container are allocated, linked, and not alone.
LEMMA ElementsLinked ==
    ASSUME NEW L, NEW n, NEW v, NEW c, NEW t, NEW R, NEW A, Sound(L, n, v, c, t, R, A),
           NEW p \in L, p \notin R, c[p] # NULL, NEW y \in Chain(n, c[p])
    PROVE  y \in L /\ y \notin A /\ Linked(v, c, p, y)
<1>1. Typed(L, n, v, c, t, R, A) /\ Neighbours(L, n, v) /\ Owners(L, v, c, R, A) /\ Alone(n, v, A)
  BY DEF Sound
<1>2. c[p] \in L /\ c[p] \in Items /\ c[p] \notin A /\ y \in Items
  BY <1>1 DEF Typed, Owners, Chain
<1>3. CASE y = c[p]
  BY <1>2, <1>3 DEF Linked
<1>4. CASE y # c[p]
  <2>1. PICK z \in Items : z # y /\ n[z] = y
    BY <1>1, <1>2, <1>4, ChainBefore DEF Typed
  <2>2. z \in L
    BY <1>1, <1>2, <2>1, NullAssumption DEF Typed
  <2>3. y \in L /\ v[y] = z
    BY <1>1, <1>2, <2>1, <2>2, NullAssumption DEF Neighbours
  <2>4. v[y] # NULL /\ v[y] # y
    BY <2>1, <2>3, NullAssumption
  <2> QED
    BY <1>1, <2>3, <2>4 DEF Linked, Alone
<1> QED
  BY <1>3, <1>4

-----------------------------------------------------------------------------
(* One change of the heap *)

\* A new item that is in no list, with the text and child it may have.
LEMMA Birth ==
    ASSUME NEW L, NEW n, NEW v, NEW c, NEW t, NEW R, NEW A, Sound(L, n, v, c, t, R, A),
           NEW x \in Items \ L, NEW c2 \in [Items -> Pointers], NEW t2 \in [Items -> Pointers], NEW R2,
           R2 = R \/ R2 = R \cup {x},
           \A z \in Items : z # x => c2[z] = c[z] /\ t2[z] = t[z],
           c2[x] = NULL \/ (c2[x] \in L /\ x \in R2),
           t2[x] \in {NULL, x} \/ (t2[x] \in L /\ x \in R2)
    PROVE  Sound(L \cup {x}, n, v, c2, t2, R2, A \cup {x})
<1>1. Typed(L, n, v, c, t, R, A) /\ Neighbours(L, n, v) /\ Owners(L, v, c, R, A) /\ Owns(L, t, R) /\ Alone(n, v, A)
  BY DEF Sound
<1>2. n[x] = NULL /\ v[x] = NULL /\ x \notin R /\ L \subseteq Items /\ R \subseteq L
  BY <1>1 DEF Typed
<1>3. Typed(L \cup {x}, n, v, c2, t2, R2, A \cup {x})
  BY <1>1 DEF Typed
<1>4. Neighbours(L \cup {x}, n, v)
  BY <1>1, <1>2 DEF Neighbours
<1>5. Owners(L \cup {x}, v, c2, R2, A \cup {x})
  BY <1>1, <1>2 DEF Owners
<1>6. Owns(L \cup {x}, t2, R2)
  BY <1>1, <1>2 DEF Owns
<1>7. Alone(n, v, A \cup {x})
  BY <1>1, <1>2 DEF Alone
<1> QED
  BY <1>3, <1>4, <1>5, <1>6, <1>7 DEF Sound

\* An item that is alone goes behind the last element of a list.
LEMMA AttachLast ==
    ASSUME NEW L, NEW n, NEW v, NEW c, NEW t, NEW R, NEW A, Sound(L, n, v, c, t, R, A),
           NEW x \in A, NEW p \in L \ R, NEW last \in L, Linked(v, c, p, last), n[last] = NULL,
           NEW n2, n2 = [n EXCEPT ![last] = x], NEW v2, v2 = [v EXCEPT ![x] = last]
    PROVE  Sound(L, n2, v2, c, t, R, A \ {x})
<1>1. Typed(L, n, v, c, t, R, A) /\ Neighbours(L, n, v) /\ Owners(L, v, c, R, A) /\ Owns(L, t, R) /\ Alone(n, v, A)
  BY DEF Sound
<1>2. /\ last \notin A /\ x \in L /\ x # last /\ v[x] = NULL /\ n[x] = NULL /\ L \subseteq Items /\ NULL \notin L
      /\ last # NULL /\ x # NULL
  BY <1>1, NullAssumption DEF Typed, Owners, Alone, Linked
<1>3. /\ \A z \in Items : n2[z] = IF z = last THEN x ELSE n[z]
      /\ \A z \in Items : v2[z] = IF z = x THEN last ELSE v[z]
      /\ n2 \in [Items -> Pointers] /\ v2 \in [Items -> Pointers]
  BY <1>1, <1>2 DEF Typed, Pointers
<1>4. Typed(L, n2, v2, c, t, R, A \ {x})
  BY <1>1, <1>2, <1>3 DEF Typed
<1>5. Neighbours(L, n2, v2)
  <2> SUFFICES ASSUME NEW w \in L
               PROVE  /\ n2[w] # NULL => n2[w] \in L /\ v2[n2[w]] = w
                      /\ v2[w] # NULL => v2[w] \in L /\ n2[v2[w]] = w
    BY DEF Neighbours
  <2>1. /\ n[w] # NULL => n[w] \in L /\ v[n[w]] = w
        /\ v[w] # NULL => v[w] \in L /\ n[v[w]] = w
    BY <1>1 DEF Neighbours
  <2> QED
    BY <2>1, <1>2, <1>3
<1>6. Owners(L, v2, c, R, A \ {x})
  BY <1>1, <1>2, <1>3 DEF Owners
<1>7. Alone(n2, v2, A \ {x})
  BY <1>1, <1>2, <1>3 DEF Alone, Typed
<1> QED
  BY <1>1, <1>4, <1>5, <1>6, <1>7 DEF Sound

\* Or becomes the only element of one.
LEMMA AttachFirst ==
    ASSUME NEW L, NEW n, NEW v, NEW c, NEW t, NEW R, NEW A, Sound(L, n, v, c, t, R, A),
           NEW x \in A, NEW p \in L \ R, c[p] = NULL,
           NEW c2, c2 = [c EXCEPT ![p] = x]
    PROVE  Sound(L, n, v, c2, t, R, A \ {x})
<1>1. Typed(L, n, v, c, t, R, A) /\ Neighbours(L, n, v) /\ Owners(L, v, c, R, A) /\ Owns(L, t, R) /\ Alone(n, v, A)
  BY DEF Sound
<1>2. x \in L /\ v[x] = NULL /\ n[x] = NULL /\ L \subseteq Items
  BY <1>1 DEF Typed, Alone
<1>3. /\ \A z \in Items : c2[z] = IF z = p THEN x ELSE c[z]
      /\ c2 \in [Items -> Pointers]
  BY <1>1, <1>2 DEF Typed, Pointers
<1>4. Typed(L, n, v, c2, t, R, A \ {x})
  BY <1>1, <1>2, <1>3 DEF Typed
<1>5. Owners(L, v, c2, R, A \ {x})
  <2> SUFFICES ASSUME NEW q \in L, c2[q] # NULL
               PROVE  /\ c2[q] \in L
                      /\ q \notin R => v[c2[q]] = NULL /\ c2[q] \notin A \ {x}
                      /\ \A r \in L : q \notin R /\ r \notin R /\ c2[r] = c2[q] => q = r
    BY DEF Owners
  <2>1. \A r \in L : r \notin R /\ c[r] # NULL => c[r] # x
    BY <1>1 DEF Owners
  <2> QED
    BY <2>1, <1>1, <1>2, <1>3 DEF Owners
<1>6. Alone(n, v, A \ {x})
  BY <1>1 DEF Alone
<1> QED
  BY <1>1, <1>4, <1>5, <1>6 DEF Sound

\* Or goes before an element.
LEMMA AttachBefore ==
    ASSUME NEW L, NEW n, NEW v, NEW c, NEW t, NEW R, NEW A, Sound(L, n, v, c, t, R, A),
           NEW x \in A, NEW p \in L \ R, NEW y \in L, Linked(v, c, p, y),
           NEW n2, n2 = [z \in Items |-> IF z = x THEN y ELSE IF y # c[p] /\ z = v[y] THEN x ELSE n[z]],
           NEW v2, v2 = [z \in Items |-> IF z = y THEN x ELSE IF z = x THEN v[y] ELSE v[z]],
           NEW c2, c2 = IF y = c[p] THEN [c EXCEPT ![p] = x] ELSE c
    PROVE  Sound(L, n2, v2, c2, t, R, A \ {x})
<1>1. Typed(L, n, v, c, t, R, A) /\ Neighbours(L, n, v) /\ Owners(L, v, c, R, A) /\ Owns(L, t, R) /\ Alone(n, v, A)
  BY DEF Sound
<1>2. /\ x \in L /\ v[x] = NULL /\ n[x] = NULL /\ L \subseteq Items /\ NULL \notin L /\ y \notin A /\ x # y
      /\ x # NULL /\ y # NULL /\ x \in Items /\ y \in Items /\ p \in Items
  BY <1>1, NullAssumption DEF Typed, Alone, Owners, Linked
<1>3. /\ \A z \in Items : n2[z] = IF z = x THEN y ELSE IF y # c[p] /\ z = v[y] THEN x ELSE n[z]
      /\ \A z \in Items : v2[z] = IF z = y THEN x ELSE IF z = x THEN v[y] ELSE v[z]
      /\ \A z \in Items : c2[z] = IF z = p /\ y = c[p] THEN x ELSE c[z]
      /\ v[y] \in Pointers
  BY <1>1, <1>2 DEF Typed
<1>4. n2 \in [Items -> Pointers] /\ v2 \in [Items -> Pointers] /\ c2 \in [Items -> Pointers]
  BY <1>1, <1>2, <1>3 DEF Typed, Pointers
<1>5. y = c[p] => v[y] = NULL
  BY <1>1, <1>2 DEF Owners
<1>6. v[y] # NULL => v[y] \in L /\ n[v[y]] = y /\ v[y] # x
  BY <1>1, <1>2 DEF Neighbours
<1>7. Typed(L, n2, v2, c2, t, R, A \ {x})
  <2>1. \A z \in Items \ L : z # x /\ z # y /\ z # p /\ z # v[y]
    BY <1>2, <1>6, NullAssumption
  <2>2. \A z \in Items \ L : n2[z] = NULL /\ v2[z] = NULL /\ c2[z] = NULL /\ t[z] = NULL
    BY <2>1, <1>1, <1>3 DEF Typed
  <2> QED
    BY <2>2, <1>1, <1>4 DEF Typed
<1>8. Neighbours(L, n2, v2)
  <2> SUFFICES ASSUME NEW w \in L
               PROVE  /\ n2[w] # NULL => n2[w] \in L /\ v2[n2[w]] = w
                      /\ v2[w] # NULL => v2[w] \in L /\ n2[v2[w]] = w
    BY DEF Neighbours
  <2>1. /\ n[w] # NULL => n[w] \in L /\ v[n[w]] = w
        /\ v[w] # NULL => v[w] \in L /\ n[v[w]] = w
    BY <1>1 DEF Neighbours
  <2>2. n2[w] # NULL => n2[w] \in L /\ v2[n2[w]] = w
    BY <2>1, <1>2, <1>3, <1>5, <1>6
  <2>3. v2[w] # NULL => v2[w] \in L /\ n2[v2[w]] = w
    <3>1. CASE w = y
      BY <3>1, <1>2, <1>3
    <3>2. CASE w = x
      BY <3>2, <1>2, <1>3, <1>5, <1>6
    <3>3. CASE w # y /\ w # x
      <4> SUFFICES ASSUME v[w] # NULL PROVE v[w] \in L /\ n2[v[w]] = w
        BY <3>3, <1>2, <1>3
      <4>1. v[w] \in L /\ v[w] \in Items /\ n[v[w]] = w /\ v[w] # x
        BY <2>1, <1>2
      <4>2. v[w] # v[y]
        BY <3>3, <4>1, <1>6
      <4> QED
        BY <4>1, <4>2, <1>3
    <3> QED
      BY <3>1, <3>2, <3>3
  <2> QED
    BY <2>2, <2>3
<1>9. Owners(L, v2, c2, R, A \ {x})
  <2> SUFFICES ASSUME NEW q \in L, c2[q] # NULL
               PROVE  /\ c2[q] \in L
                      /\ q \notin R => v2[c2[q]] = NULL /\ c2[q] \notin A \ {x}
                      /\ \A r \in L : q \notin R /\ r \notin R /\ c2[r] = c2[q] => q = r
    BY DEF Owners
  <2>1. \A r \in L : r \notin R /\ c[r] # NULL => c[r] # x /\ (r # p \/ y # c[p] => c[r] # y)
    BY <1>1, <1>2 DEF Owners, Linked
  <2>2. CASE q = p /\ y = c[p]
    <3>1. c2[q] = x /\ v2[x] = NULL /\ x \in L
      BY <2>2, <1>2, <1>3, <1>5
    <3>2. \A r \in L : r \notin R /\ c2[r] = x => r = p
      BY <2>1, <1>2, <1>3
    <3> QED
      BY <2>2, <3>1, <3>2
  <2>3. CASE ~(q = p /\ y = c[p])
    <3>1. c2[q] = c[q] /\ c[q] \in L /\ c[q] \in Items
      BY <2>3, <1>1, <1>2, <1>3 DEF Owners
    <3>2. q \notin R => v[c[q]] = NULL /\ c[q] \notin A /\ c[q] # x /\ c[q] # y
      BY <2>1, <2>3, <3>1, <1>1 DEF Owners
    <3>3. q \notin R => v2[c[q]] = NULL
      BY <3>1, <3>2, <1>3
    <3>4. \A r \in L : q \notin R /\ r \notin R /\ c2[r] = c[q] => q = r
      <4> SUFFICES ASSUME NEW r \in L, q \notin R, r \notin R, c2[r] = c[q] PROVE q = r
        OBVIOUS
      <4>1. c2[r] = c[r]
        BY <3>2, <1>2, <1>3
      <4> QED
        BY <4>1, <3>1, <1>1 DEF Owners
    <3> QED
      BY <3>1, <3>2, <3>3, <3>4
  <2> QED
    BY <2>2, <2>3
<1>10. Alone(n2, v2, A \ {x})
  <2> SUFFICES ASSUME NEW a \in A, a # x PROVE v2[a] = NULL /\ n2[a] = NULL
    BY DEF Alone
  <2>1. a \in Items /\ a \in L /\ v[a] = NULL /\ n[a] = NULL
    BY <1>1 DEF Alone, Typed
  <2> QED
    BY <2>1, <1>2, <1>3, <1>6
<1> QED
  BY <1>1, <1>7, <1>8, <1>9, <1>10 DEF Sound

\* An element leaves its list.
LEMMA Detached ==
    ASSUME NEW L, NEW n, NEW v, NEW c, NEW t, NEW R, NEW A, Sound(L, n, v, c, t, R, A),
           NEW p \in L \ R, NEW y \in L, Linked(v, c, p, y),
           NEW n2, n2 = [z \in Items |-> IF z = y THEN NULL ELSE IF z = v[y] THEN n[y] ELSE n[z]],
           NEW v2, v2 = [z \in Items |-> IF z = y THEN NULL ELSE IF z = n[y] THEN v[y] ELSE v[z]],
           NEW c2, c2 = IF c[p] = y THEN [c EXCEPT ![p] = n[y]] ELSE c
    PROVE  Sound(L, n2, v2, c2, t, R, A \cup {y})
<1>1. Typed(L, n, v, c, t, R, A) /\ Neighbours(L, n, v) /\ Owners(L, v, c, R, A) /\ Owns(L, t, R) /\ Alone(n, v, A)
  BY DEF Sound
<1>2. L \subseteq Items /\ NULL \notin L /\ y # NULL /\ y \in Items /\ p \in Items /\ NULL \notin Items
  BY <1>1, NullAssumption DEF Typed
<1>3. /\ \A z \in Items : n2[z] = IF z = y THEN NULL ELSE IF z = v[y] THEN n[y] ELSE n[z]
      /\ \A z \in Items : v2[z] = IF z = y THEN NULL ELSE IF z = n[y] THEN v[y] ELSE v[z]
      /\ \A z \in Items : c2[z] = IF z = p /\ c[p] = y THEN n[y] ELSE c[z]
      /\ v[y] \in Pointers /\ n[y] \in Pointers
  BY <1>1, <1>2 DEF Typed
<1>4. n2 \in [Items -> Pointers] /\ v2 \in [Items -> Pointers] /\ c2 \in [Items -> Pointers]
  BY <1>1, <1>2, <1>3 DEF Typed, Pointers
<1>5. /\ v[y] # NULL => v[y] \in L /\ n[v[y]] = y
      /\ n[y] # NULL => n[y] \in L /\ v[n[y]] = y
      /\ c[p] = y => v[y] = NULL
      /\ v[y] # y /\ n[y] # y
  BY <1>1, <1>2 DEF Neighbours, Owners, Linked
<1>6. Typed(L, n2, v2, c2, t, R, A \cup {y})
  <2>1. \A z \in Items \ L : z # y /\ z # p /\ z # v[y] /\ z # n[y]
    BY <1>2, <1>5
  <2>2. \A z \in Items \ L : n2[z] = NULL /\ v2[z] = NULL /\ c2[z] = NULL /\ t[z] = NULL
    BY <2>1, <1>1, <1>3 DEF Typed
  <2> QED
    BY <2>2, <1>1, <1>4 DEF Typed
<1>7. Neighbours(L, n2, v2)
  <2> SUFFICES ASSUME NEW w \in L
               PROVE  /\ n2[w] # NULL => n2[w] \in L /\ v2[n2[w]] = w
                      /\ v2[w] # NULL => v2[w] \in L /\ n2[v2[w]] = w
    BY DEF Neighbours
  <2>1. /\ n[w] # NULL => n[w] \in L /\ v[n[w]] = w
        /\ v[w] # NULL => v[w] \in L /\ n[v[w]] = w
    BY <1>1 DEF Neighbours
  <2>2. n2[w] # NULL => n2[w] \in L /\ v2[n2[w]] = w
    <3>1. CASE w = v[y]
      BY <3>1, <1>2, <1>3, <1>5
    <3>2. CASE w # v[y] /\ w # y
      BY <3>2, <2>1, <1>2, <1>3, <1>5
    <3> QED
      BY <3>1, <3>2, <1>2, <1>3
  <2>3. v2[w] # NULL => v2[w] \in L /\ n2[v2[w]] = w
    <3>1. CASE w = n[y]
      BY <3>1, <1>2, <1>3, <1>5
    <3>2. CASE w # n[y] /\ w # y
      BY <3>2, <2>1, <1>2, <1>3, <1>5
    <3> QED
      BY <3>1, <3>2, <1>2, <1>3
  <2> QED
    BY <2>2, <2>3
<1>8. Owners(L, v2, c2, R, A \cup {y})
  <2> SUFFICES ASSUME NEW q \in L, c2[q] # NULL
               PROVE  /\ c2[q] \in L
                      /\ q \notin R => v2[c2[q]] = NULL /\ c2[q] \notin A \cup {y}
                      /\ \A r \in L : q \notin R /\ r \notin R /\ c2[r] = c2[q] => q = r
    BY DEF Owners
  <2>1. \A r \in L : r \notin R /\ c[r] # NULL => v[c[r]] = NULL /\ c[r] \notin A /\ (c[r] = y => r = p)
    BY <1>1, <1>2 DEF Owners, Linked
  <2>2. CASE q = p /\ c[p] = y
    <3>1. c2[q] = n[y] /\ n[y] \in L /\ n[y] \in Items /\ v[n[y]] = y
      BY <2>2, <1>2, <1>3, <1>5
    <3>2. v2[n[y]] = NULL /\ n[y] \notin A \cup {y}
      BY <2>2, <3>1, <1>1, <1>2, <1>3, <1>5 DEF Alone
    <3>3. \A r \in L : r \notin R /\ c2[r] = n[y] => r = p
      BY <2>1, <3>1, <1>2, <1>3
    <3> QED
      BY <2>2, <3>1, <3>2, <3>3
  <2>3. CASE ~(q = p /\ c[p] = y)
    <3>1. c2[q] = c[q] /\ c[q] \in L /\ c[q] \in Items
      BY <2>3, <1>1, <1>2, <1>3 DEF Owners
    <3>2. q \notin R => v[c[q]] = NULL /\ c[q] \notin A /\ c[q] # y /\ c[q] # n[y]
      BY <2>1, <2>3, <3>1, <1>2, <1>5
    <3>3. q \notin R => v2[c[q]] = NULL
      BY <3>1, <3>2, <1>3
    <3>4. \A r \in L : q \notin R /\ r \notin R /\ c2[r] = c[q] => q = r
      <4> SUFFICES ASSUME NEW r \in L, q \notin R, r \notin R, c2[r] = c[q] PROVE q = r
        OBVIOUS
      <4>1. c2[r] = c[r]
        BY <3>2, <1>2, <1>3
      <4> QED
        BY <4>1, <3>1, <1>1, <1>2 DEF Owners
    <3> QED
      BY <3>1, <3>2, <3>3, <3>4
  <2> QED
    BY <2>2, <2>3
<1>9. Alone(n2, v2, A \cup {y})
  <2> SUFFICES ASSUME NEW a \in A, a # y PROVE v2[a] = NULL /\ n2[a] = NULL
    BY <1>2, <1>3 DEF Alone
  <2>1. a \in Items /\ a \in L /\ v[a] = NULL /\ n[a] = NULL
    BY <1>1 DEF Alone, Typed
  <2>2. a # v[y] /\ a # n[y]
    BY <2>1, <1>2, <1>5
  <2> QED
    BY <2>1, <2>2, <1>3
<1> QED
  BY <1>1, <1>6, <1>7, <1>8, <1>9 DEF Sound

\* An item that is alone takes the place of an element.
LEMMA Replaced ==
    ASSUME NEW L, NEW n, NEW v, NEW c, NEW t, NEW R, NEW A, Sound(L, n, v, c, t, R, A),
           NEW x \in A, NEW p \in L \ R, NEW y \in L, Linked(v, c, p, y),
           NEW n2, n2 = [z \in Items |-> IF z = y THEN NULL ELSE IF z = x THEN n[y] ELSE IF z = v[y] THEN x ELSE n[z]],
           NEW v2, v2 = [z \in Items |-> IF z = y THEN NULL ELSE IF z = x THEN v[y] ELSE IF z = n[y] THEN x ELSE v[z]],
           NEW c2, c2 = IF c[p] = y THEN [c EXCEPT ![p] = x] ELSE c
    PROVE  Sound(L, n2, v2, c2, t, R, (A \ {x}) \cup {y}) /\ y \notin A /\ x # y
<1>1. Typed(L, n, v, c, t, R, A) /\ Neighbours(L, n, v) /\ Owners(L, v, c, R, A) /\ Owns(L, t, R) /\ Alone(n, v, A)
  BY DEF Sound
<1>2. /\ L \subseteq Items /\ NULL \notin L /\ y # NULL /\ y \in Items /\ p \in Items /\ NULL \notin Items
      /\ x \in L /\ x \in Items /\ v[x] = NULL /\ n[x] = NULL /\ y \notin A /\ x # y /\ x # NULL
  BY <1>1, NullAssumption DEF Typed, Alone, Owners, Linked
<1>3. /\ \A z \in Items : n2[z] = IF z = y THEN NULL ELSE IF z = x THEN n[y] ELSE IF z = v[y] THEN x ELSE n[z]
      /\ \A z \in Items : v2[z] = IF z = y THEN NULL ELSE IF z = x THEN v[y] ELSE IF z = n[y] THEN x ELSE v[z]
      /\ \A z \in Items : c2[z] = IF z = p /\ c[p] = y THEN x ELSE c[z]
      /\ v[y] \in Pointers /\ n[y] \in Pointers
  BY <1>1, <1>2 DEF Typed
<1>4. n2 \in [Items -> Pointers] /\ v2 \in [Items -> Pointers] /\ c2 \in [Items -> Pointers]
  BY <1>1, <1>2, <1>3 DEF Typed, Pointers
<1>5. /\ v[y] # NULL => v[y] \in L /\ n[v[y]] = y
      /\ n[y] # NULL => n[y] \in L /\ v[n[y]] = y
      /\ c[p] = y => v[y] = NULL
      /\ v[y] # y /\ n[y] # y /\ v[y] # x /\ n[y] # x
  BY <1>1, <1>2 DEF Neighbours, Owners, Linked
<1>6. Typed(L, n2, v2, c2, t, R, (A \ {x}) \cup {y})
  <2>1. \A z \in Items \ L : z # y /\ z # p /\ z # v[y] /\ z # n[y] /\ z # x
    BY <1>2, <1>5
  <2>2. \A z \in Items \ L : n2[z] = NULL /\ v2[z] = NULL /\ c2[z] = NULL /\ t[z] = NULL
    BY <2>1, <1>1, <1>3 DEF Typed
  <2> QED
    BY <2>2, <1>1, <1>4 DEF Typed
<1>7. Neighbours(L, n2, v2)
  <2> SUFFICES ASSUME NEW w \in L
               PROVE  /\ n2[w] # NULL => n2[w] \in L /\ v2[n2[w]] = w
                      /\ v2[w] # NULL => v2[w] \in L /\ n2[v2[w]] = w
    BY DEF Neighbours
  <2>1. /\ n[w] # NULL => n[w] \in L /\ v[n[w]] = w
        /\ v[w] # NULL => v[w] \in L /\ n[v[w]] = w
    BY <1>1 DEF Neighbours
  <2>2. n2[w] # NULL => n2[w] \in L /\ v2[n2[w]] = w
    <3>1. CASE w = x
      BY <3>1, <1>2, <1>3, <1>5
    <3>2. CASE w = v[y]
      BY <3>2, <1>2, <1>3, <1>5
    <3>3. CASE w # x /\ w # v[y] /\ w # y
      BY <3>3, <2>1, <1>2, <1>3, <1>5
    <3> QED
      BY <3>1, <3>2, <3>3, <1>2, <1>3
  <2>3. v2[w] # NULL => v2[w] \in L /\ n2[v2[w]] = w
    <3>1. CASE w = x
      BY <3>1, <1>2, <1>3, <1>5
    <3>2. CASE w = n[y]
      BY <3>2, <1>2, <1>3, <1>5
    <3>3. CASE w # x /\ w # n[y] /\ w # y
      BY <3>3, <2>1, <1>2, <1>3, <1>5
    <3> QED
      BY <3>1, <3>2, <3>3, <1>2, <1>3
  <2> QED
    BY <2>2, <2>3
<1>8. Owners(L, v2, c2, R, (A \ {x}) \cup {y})
  <2> SUFFICES ASSUME NEW q \in L, c2[q] # NULL
               PROVE  /\ c2[q] \in L
                      /\ q \notin R => v2[c2[q]] = NULL /\ c2[q] \notin (A \ {x}) \cup {y}
                      /\ \A r \in L : q \notin R /\ r \notin R /\ c2[r] = c2[q] => q = r
    BY DEF Owners
  <2>1. \A r \in L : r \notin R /\ c[r] # NULL => v[c[r]] = NULL /\ c[r] \notin A /\ (c[r] = y => r = p)
    BY <1>1, <1>2 DEF Owners, Linked
  <2>2. CASE q = p /\ c[p] = y
    <3>1. c2[q] = x /\ v2[x] = NULL
      BY <2>2, <1>2, <1>3, <1>5
    <3>2. \A r \in L : r \notin R /\ c2[r] = x => r = p
      BY <2>1, <1>2, <1>3
    <3> QED
      BY <2>2, <3>1, <3>2, <1>2
  <2>3. CASE ~(q = p /\ c[p] = y)
    <3>1. c2[q] = c[q] /\ c[q] \in L /\ c[q] \in Items
      BY <2>3, <1>1, <1>2, <1>3 DEF Owners
    <3>2. q \notin R => v[c[q]] = NULL /\ c[q] \notin A /\ c[q] # y /\ c[q] # n[y] /\ c[q] # x
      BY <2>1, <2>3, <3>1, <1>2, <1>5
    <3>3. q \notin R => v2[c[q]] = NULL
      BY <3>1, <3>2, <1>3
    <3>4. \A r \in L : q \notin R /\ r \notin R /\ c2[r] = c[q] => q = r
      <4> SUFFICES ASSUME NEW r \in L, q \notin R, r \notin R, c2[r] = c[q] PROVE q = r
        OBVIOUS
      <4>1. c2[r] = c[r]
        BY <3>2, <1>2, <1>3
      <4> QED
        BY <4>1, <3>1, <1>1, <1>2 DEF Owners
    <3> QED
      BY <3>1, <3>2, <3>3, <3>4
  <2> QED
    BY <2>2, <2>3
<1>9. Alone(n2, v2, (A \ {x}) \cup {y})
  <2> SUFFICES ASSUME NEW a \in A, a # y, a # x PROVE v2[a] = NULL /\ n2[a] = NULL
    BY <1>2, <1>3 DEF Alone
  <2>1. a \in Items /\ a \in L /\ v[a] = NULL /\ n[a] = NULL
    BY <1>1 DEF Alone, Typed
  <2>2. a # v[y] /\ a # n[y]
    BY <2>1, <1>2, <1>5
  <2> QED
    BY <2>1, <2>2, <1>3
<1> QED
  BY <1>1, <1>2, <1>6, <1>7, <1>8, <1>9 DEF Sound

\* What is owned is closed under what the items point to,
LEMMA OwnedClosed ==
    ASSUME NEW n, n \in [Items -> Pointers], NEW c, c \in [Items -> Pointers], NEW x \in Items
    PROVE  /\ x \in Owned(n, c, x) /\ Owned(n, c, x) \subseteq Items
           /\ \A z \in Owned(n, c, x) : n[z] # NULL => n[z] \in Owned(n, c, x)
           /\ \A z \in Owned(n, c, x) : z \notin reference /\ c[z] # NULL => c[z] \in Owned(n, c, x)
<1> DEFINE D == Owned(n, c, x)
           Closed(S) == /\ x \in S
                        /\ \A z \in S : n[z] # NULL => n[z] \in S
                        /\ \A z \in S : z \notin reference /\ c[z] # NULL => c[z] \in S
<1>1. D = {y \in Items : \A S \in SUBSET Items : Closed(S) => y \in S}
  BY DEF Owned
<1>2. x \in D
  BY <1>1
<1>3. ASSUME NEW z \in D, n[z] # NULL PROVE n[z] \in D
  <2>1. n[z] \in Items
    BY <1>1, <1>3 DEF Pointers
  <2>2. ASSUME NEW S \in SUBSET Items, Closed(S) PROVE n[z] \in S
    BY <1>1, <1>3, <2>2
  <2> HIDE DEF Closed
  <2> QED
    BY <1>1, <2>1, <2>2
<1>4. ASSUME NEW z \in D, z \notin reference, c[z] # NULL PROVE c[z] \in D
  <2>1. c[z] \in Items
    BY <1>1, <1>4 DEF Pointers
  <2>2. ASSUME NEW S \in SUBSET Items, Closed(S) PROVE c[z] \in S
    BY <1>1, <1>4, <2>2
  <2> HIDE DEF Closed
  <2> QED
    BY <1>1, <2>1, <2>2
<1> QED
  BY <1>1, <1>2, <1>3, <1>4

\* and is the smallest such set.
LEMMA OwnedLeast ==
    ASSUME NEW n, NEW c, NEW x, NEW S \in SUBSET Items, x \in S,
           \A z \in S : n[z] # NULL => n[z] \in S,
           \A z \in S : z \notin reference /\ c[z] # NULL => c[z] \in S
    PROVE  Owned(n, c, x) \subseteq S
  BY DEF Owned

\* Everything that an item which is alone owns is freed, and nothing that
\* stays points to it.
LEMMA Freed ==
    ASSUME NEW L, NEW n, NEW v, NEW c, NEW t, NEW A, Sound(L, n, v, c, t, reference, A),
           NEW x \in A, NEW D, D = Owned(n, c, x),
           \A r \in (L \cap reference) \ D : c[r] \notin D /\ t[r] \notin D,
           NEW n2, n2 = [z \in Items |-> IF z \in D THEN NULL ELSE n[z]],
           NEW v2, v2 = [z \in Items |-> IF z \in D THEN NULL ELSE v[z]],
           NEW c2, c2 = [z \in Items |-> IF z \in D THEN NULL ELSE c[z]],
           NEW t2, t2 = [z \in Items |-> IF z \in D THEN NULL ELSE t[z]]
    PROVE  Sound(L \ D, n2, v2, c2, t2, reference \ D, A \ {x}) /\ x \in D
<1> DEFINE R == reference
<1>1. Typed(L, n, v, c, t, R, A) /\ Neighbours(L, n, v) /\ Owners(L, v, c, R, A) /\ Owns(L, t, R) /\ Alone(n, v, A)
  BY DEF Sound
<1>2. L \subseteq Items /\ NULL \notin Items /\ x \in L /\ x \in Items /\ v[x] = NULL /\ A \subseteq L
  BY <1>1, NullAssumption DEF Typed, Alone
<1>3. /\ x \in D /\ D \subseteq Items
      /\ \A z \in D : n[z] # NULL => n[z] \in D
      /\ \A z \in D : z \notin R /\ c[z] # NULL => c[z] \in D
  BY <1>1, <1>2, OwnedClosed DEF Typed
<1>4. D \subseteq L
  <2>1. \A z \in L : n[z] # NULL => n[z] \in L
    BY <1>1 DEF Neighbours
  <2>2. \A z \in L : z \notin R /\ c[z] # NULL => c[z] \in L
    BY <1>1 DEF Owners
  <2> QED
    BY <2>1, <2>2, <1>2, OwnedLeast
\* An item of D but x is reached from another of D.
<1>5. ASSUME NEW d \in D, d # x,
             \A z \in D \ {d} : n[z] # d,
             \A z \in D \ {d} : z \notin R => c[z] # d
      PROVE  FALSE
  <2> DEFINE S == D \ {d}
  <2>1. S \in SUBSET Items /\ x \in S
    BY <1>3, <1>5
  <2>2. \A z \in S : n[z] # NULL => n[z] \in S
    BY <1>3, <1>5
  <2>3. \A z \in S : z \notin R /\ c[z] # NULL => c[z] \in S
    BY <1>3, <1>5
  <2> HIDE DEF S
  <2>4. D \subseteq S
    BY <2>1, <2>2, <2>3, OwnedLeast
  <2> QED
    BY <2>4 DEF S
<1>6. ASSUME NEW w \in L \ D, n[w] # NULL PROVE n[w] \notin D
  <2> SUFFICES ASSUME n[w] \in D PROVE FALSE
    OBVIOUS
  <2>1. v[n[w]] = w /\ w # NULL
    BY <1>1, <1>2, <1>6 DEF Neighbours
  <2>2. n[w] # x
    BY <2>1, <1>2
  <2>3. \A z \in D : n[z] # n[w]
    BY <2>1, <1>1, <1>4, <1>6 DEF Neighbours
  <2>4. \A z \in D : z \notin R => c[z] # n[w]
    BY <2>1, <1>1, <1>4, <1>6 DEF Owners
  <2> QED
    BY <1>5, <2>2, <2>3, <2>4
<1>7. ASSUME NEW w \in L \ D, v[w] # NULL PROVE v[w] \notin D
  BY <1>1, <1>2, <1>3, <1>7 DEF Neighbours
<1>8. ASSUME NEW p \in L \ D, c[p] # NULL PROVE c[p] \notin D
  <2>1. CASE p \in R
    BY <2>1
  <2>2. CASE p \notin R
    <3> SUFFICES ASSUME c[p] \in D PROVE FALSE
      OBVIOUS
    <3>1. v[c[p]] = NULL /\ c[p] \notin A
      BY <2>2, <1>1, <1>8 DEF Owners
    <3>2. c[p] # x
      BY <3>1
    <3>3. \A z \in D : n[z] # c[p]
      BY <3>1, <1>1, <1>2, <1>4, <1>8 DEF Neighbours
    <3>4. \A z \in D : z \notin R => c[z] # c[p]
      BY <2>2, <1>1, <1>4, <1>8 DEF Owners
    <3> QED
      BY <1>5, <3>2, <3>3, <3>4
  <2> QED
    BY <2>1, <2>2
<1>9. ASSUME NEW a \in A, a # x PROVE a \notin D
  <2> SUFFICES ASSUME a \in D PROVE FALSE
    OBVIOUS
  <2>1. v[a] = NULL /\ a # NULL
    BY <1>1, <1>2 DEF Alone
  <2>2. \A z \in D : n[z] # a
    BY <2>1, <1>1, <1>2, <1>4 DEF Neighbours
  <2>3. \A z \in D : z \notin R => c[z] # a
    BY <2>1, <1>1, <1>4 DEF Owners
  <2> QED
    BY <1>5, <1>9, <2>2, <2>3
<1>10. /\ \A z \in Items : n2[z] = IF z \in D THEN NULL ELSE n[z]
       /\ \A z \in Items : v2[z] = IF z \in D THEN NULL ELSE v[z]
       /\ \A z \in Items : c2[z] = IF z \in D THEN NULL ELSE c[z]
       /\ \A z \in Items : t2[z] = IF z \in D THEN NULL ELSE t[z]
  OBVIOUS
<1>11. /\ n2 \in [Items -> Pointers] /\ v2 \in [Items -> Pointers]
       /\ c2 \in [Items -> Pointers] /\ t2 \in [Items -> Pointers]
  BY <1>1 DEF Typed, Pointers
<1>12. Typed(L \ D, n2, v2, c2, t2, R \ D, A \ {x})
  BY <1>1, <1>2, <1>9, <1>10, <1>11 DEF Typed
<1>13. Neighbours(L \ D, n2, v2)
  <2> SUFFICES ASSUME NEW w \in L \ D
               PROVE  /\ n2[w] # NULL => n2[w] \in L \ D /\ v2[n2[w]] = w
                      /\ v2[w] # NULL => v2[w] \in L \ D /\ n2[v2[w]] = w
    BY DEF Neighbours
  <2>1. /\ n[w] # NULL => n[w] \in L /\ v[n[w]] = w
        /\ v[w] # NULL => v[w] \in L /\ n[v[w]] = w
    BY <1>1 DEF Neighbours
  <2> QED
    BY <2>1, <1>2, <1>6, <1>7, <1>10
<1>14. Owners(L \ D, v2, c2, R \ D, A \ {x})
  <2> SUFFICES ASSUME NEW p \in L \ D, c2[p] # NULL
               PROVE  /\ c2[p] \in L \ D
                      /\ p \notin R \ D => v2[c2[p]] = NULL /\ c2[p] \notin A \ {x}
                      /\ \A q \in L \ D : p \notin R \ D /\ q \notin R \ D /\ c2[q] = c2[p] => p = q
    BY DEF Owners
  <2>1. c2[p] = c[p] /\ c[p] \in L /\ c[p] \notin D /\ v2[c[p]] = v[c[p]]
    BY <1>1, <1>2, <1>8, <1>10 DEF Owners
  <2> QED
    BY <2>1, <1>1, <1>2, <1>10 DEF Owners
<1>15. Owns(L \ D, t2, R \ D)
  BY <1>1, <1>2, <1>10 DEF Owns
<1>16. Alone(n2, v2, A \ {x})
  BY <1>1, <1>2, <1>10 DEF Alone
<1> QED
  BY <1>3, <1>12, <1>13, <1>14, <1>15, <1>16 DEF Sound

\* The heap n2, v2, c2, t2 is n, v, c, t and a new array s[1] with the new
\* elements E, s[2] .. s[m].
MakesArray(L, s, m, E, n, v, c, t, n2, v2, c2, t2) ==
    /\ m \in Nat /\ m > 0
    /\ s \in [1..m -> Items \ L] /\ \A i, j \in 1..m : s[i] = s[j] => i = j
    /\ E = {s[i] : i \in 2..m}
    /\ n2 \in [Items -> Pointers] /\ v2 \in [Items -> Pointers]
    /\ c2 \in [Items -> Pointers] /\ t2 \in [Items -> Pointers]
    /\ \A i \in 2..m : n2[s[i]] = IF i < m THEN s[i + 1] ELSE NULL
    /\ \A i \in 2..m : v2[s[i]] = IF i > 2 THEN s[i - 1] ELSE NULL
    /\ \A z \in Items \ E : n2[z] = n[z] /\ v2[z] = v[z] /\ t2[z] = t[z]
    /\ \A z \in E : t2[z] \in {NULL, z}
    /\ c2[s[1]] = IF m > 1 THEN s[2] ELSE NULL
    /\ \A z \in Items : z # s[1] => c2[z] = c[z]

LEMMA ArrayMade ==
    ASSUME NEW L, NEW n, NEW v, NEW c, NEW t, NEW R, NEW A, Sound(L, n, v, c, t, R, A),
           NEW m, NEW s, NEW E, NEW n2, NEW v2, NEW c2, NEW t2,
           MakesArray(L, s, m, E, n, v, c, t, n2, v2, c2, t2)
    PROVE  Sound((L \cup {s[1]}) \cup E, n2, v2, c2, t2, R, A \cup {s[1]})
<1> USE DEF MakesArray
<1> DEFINE L2 == (L \cup {s[1]}) \cup E
<1>1. Typed(L, n, v, c, t, R, A) /\ Neighbours(L, n, v) /\ Owners(L, v, c, R, A) /\ Owns(L, t, R) /\ Alone(n, v, A)
  BY DEF Sound
<1>2. /\ L \subseteq Items /\ NULL \notin Items /\ A \subseteq L /\ R \subseteq L
      /\ \A i \in 1..m : s[i] \in Items /\ s[i] \notin L /\ s[i] # NULL
  BY <1>1, NullAssumption DEF Typed
<1>3. 1 \in 1..m /\ \A i \in 2..m : i \in 1..m
  OBVIOUS
<1>4. E \subseteq Items /\ E \cap L = {} /\ s[1] \notin E /\ s[1] \in Items \ L /\ s[1] # NULL
  BY <1>2, <1>3
<1>5. \A z \in Items \ L : n[z] = NULL /\ v[z] = NULL /\ c[z] = NULL /\ t[z] = NULL
  BY <1>1 DEF Typed
<1>6. Typed(L2, n2, v2, c2, t2, R, A \cup {s[1]})
  BY <1>1, <1>2, <1>4, <1>5 DEF Typed
<1>7. Neighbours(L2, n2, v2)
  <2> SUFFICES ASSUME NEW w \in L2
               PROVE  /\ n2[w] # NULL => n2[w] \in L2 /\ v2[n2[w]] = w
                      /\ v2[w] # NULL => v2[w] \in L2 /\ n2[v2[w]] = w
    BY DEF Neighbours
  <2>1. CASE w \in L
    <3>1. /\ n[w] # NULL => n[w] \in L /\ v[n[w]] = w
          /\ v[w] # NULL => v[w] \in L /\ n[v[w]] = w
      BY <2>1, <1>1 DEF Neighbours
    <3> QED
      BY <2>1, <3>1, <1>2, <1>4
  <2>2. CASE w = s[1]
    BY <2>2, <1>4, <1>5
  <2>3. CASE w \in E
    <3>1. PICK i \in 2..m : w = s[i]
      BY <2>3
    <3>2. ASSUME i < m PROVE s[i + 1] \in E /\ v2[s[i + 1]] = s[i]
      <4>1. i + 1 \in 2..m /\ i + 1 > 2 /\ (i + 1) - 1 = i
        BY <3>2
      <4> QED
        BY <4>1
    <3>3. ASSUME i > 2 PROVE s[i - 1] \in E /\ n2[s[i - 1]] = s[i]
      <4>1. i - 1 \in 2..m /\ i - 1 < m /\ (i - 1) + 1 = i
        BY <3>3
      <4> QED
        BY <4>1
    <3> QED
      BY <3>1, <3>2, <3>3
  <2> QED
    BY <2>1, <2>2, <2>3
<1>8. Owners(L2, v2, c2, R, A \cup {s[1]})
  <2> SUFFICES ASSUME NEW p \in L2, c2[p] # NULL
               PROVE  /\ c2[p] \in L2
                      /\ p \notin R => v2[c2[p]] = NULL /\ c2[p] \notin A \cup {s[1]}
                      /\ \A q \in L2 : p \notin R /\ q \notin R /\ c2[q] = c2[p] => p = q
    BY DEF Owners
  <2>1. p \notin E /\ \A q \in E : c2[q] = NULL
    BY <1>4, <1>5
  <2>2. CASE p = s[1]
    <3>1. m > 1 /\ c2[p] = s[2] /\ 2 \in 2..m
      BY <2>2
    <3>2. s[2] \in E /\ v2[s[2]] = NULL
      BY <3>1
    <3>3. \A q \in L : c2[q] # s[2]
      BY <3>2, <1>1, <1>2, <1>4 DEF Owners
    <3> QED
      BY <2>1, <2>2, <3>1, <3>2, <3>3, <1>2, <1>4
  <2>3. CASE p \in L
    <3>1. c2[p] = c[p] /\ c[p] \in L /\ v2[c[p]] = v[c[p]] /\ c[p] # s[1] /\ c[p] \notin E
      BY <2>3, <1>1, <1>2, <1>4 DEF Owners
    <3>2. c2[s[1]] # c[p]
      <4>1. CASE m > 1
        <5>1. s[2] \in E
          BY <4>1
        <5> QED
          BY <3>1, <5>1, <4>1
      <4>2. CASE ~(m > 1)
        BY <4>2, <3>1
      <4> QED
        BY <4>1, <4>2
    <3>3. \A q \in L2 : c2[q] = c[p] => q \in L
      BY <3>1, <3>2, <2>1
    <3>4. \A q \in L : c2[q] = c[q]
      BY <1>2, <1>4
    <3> QED
      BY <2>3, <3>1, <3>3, <3>4, <1>1 DEF Owners
  <2> QED
    BY <2>1, <2>2, <2>3
<1>9. Owns(L2, t2, R)
  BY <1>1, <1>2, <1>4, <1>5 DEF Owns
<1>10. Alone(n2, v2, A \cup {s[1]})
  BY <1>1, <1>2, <1>4, <1>5 DEF Alone
<1> QED
  BY <1>6, <1>7, <1>8, <1>9, <1>10 DEF Sound

\* The heap n2, v2, c2, t2 is n, v, c, t and the copies F of the items K,
\* linked as these are.
MakesCopy(L, x, K, f, F, n, v, c, t, n2, v2, c2, t2) ==
    /\ K \subseteq L /\ x \in K
    /\ f \in [K -> Items \ L] /\ \A y, z \in K : f[y] = f[z] => y = z
    /\ F = {f[z] : z \in K}
    /\ \A w \in K : c[w] # x /\ (w # x => n[w] # x)
    /\ \A w, z \in K : w # z /\ c[w] # NULL => c[w] # c[z]
    /\ \A w \in K \ {x}, z \in K : n[w] # NULL => n[w] # c[z]
    /\ n2 \in [Items -> Pointers] /\ v2 \in [Items -> Pointers]
    /\ c2 \in [Items -> Pointers] /\ t2 \in [Items -> Pointers]
    /\ n2[f[x]] = NULL /\ v2[f[x]] = NULL
    /\ \A z \in K \ {x} : n2[f[z]] = IF n[z] \in K THEN f[n[z]] ELSE NULL
    /\ \A z \in K \ {x} : v2[f[z]] = IF v[z] # x /\ v[z] \in K THEN f[v[z]] ELSE NULL
    /\ \A z \in K : c2[f[z]] = IF c[z] \in K THEN f[c[z]] ELSE NULL
    /\ \A y \in F : t2[y] \in {NULL, y}
    /\ \A z \in Items \ F : n2[z] = n[z] /\ v2[z] = v[z] /\ c2[z] = c[z] /\ t2[z] = t[z]

LEMMA CopyMade ==
    ASSUME NEW L, NEW n, NEW v, NEW c, NEW t, NEW R, NEW A, Sound(L, n, v, c, t, R, A),
           NEW x, NEW K, NEW f, NEW F, NEW n2, NEW v2, NEW c2, NEW t2,
           MakesCopy(L, x, K, f, F, n, v, c, t, n2, v2, c2, t2)
    PROVE  Sound(L \cup F, n2, v2, c2, t2, R, A \cup {f[x]})
<1> USE DEF MakesCopy
<1> DEFINE L2 == L \cup F
<1>1. Typed(L, n, v, c, t, R, A) /\ Neighbours(L, n, v) /\ Owners(L, v, c, R, A) /\ Owns(L, t, R) /\ Alone(n, v, A)
  BY DEF Sound
<1>2. /\ L \subseteq Items /\ NULL \notin Items /\ A \subseteq L /\ R \subseteq L /\ NULL \notin K /\ K \subseteq Items
      /\ F \subseteq Items /\ F \cap L = {} /\ f[x] \in F /\ NULL \notin F
      /\ \A z \in K : f[z] \in F
  BY <1>1, NullAssumption DEF Typed
<1>3. \A z \in Items \ L : n[z] = NULL /\ v[z] = NULL /\ c[z] = NULL /\ t[z] = NULL
  BY <1>1 DEF Typed
<1>4. Typed(L2, n2, v2, c2, t2, R, A \cup {f[x]})
  BY <1>1, <1>2, <1>3 DEF Typed
<1>5. Neighbours(L2, n2, v2)
  <2> SUFFICES ASSUME NEW w \in L2
               PROVE  /\ n2[w] # NULL => n2[w] \in L2 /\ v2[n2[w]] = w
                      /\ v2[w] # NULL => v2[w] \in L2 /\ n2[v2[w]] = w
    BY DEF Neighbours
  <2>1. CASE w \in L
    <3>1. /\ n[w] # NULL => n[w] \in L /\ v[n[w]] = w
          /\ v[w] # NULL => v[w] \in L /\ n[v[w]] = w
      BY <2>1, <1>1 DEF Neighbours
    <3> QED
      BY <2>1, <3>1, <1>2
  <2>2. CASE w \in F
    <3>1. PICK z \in K : w = f[z]
      BY <2>2
    <3>2. CASE z = x
      BY <3>1, <3>2
    <3>3. CASE z # x
      <4>1. /\ n[z] # NULL => n[z] \in L /\ v[n[z]] = z
            /\ v[z] # NULL => v[z] \in L /\ n[v[z]] = z
        BY <1>1 DEF Neighbours
      <4>2. ASSUME n[z] \in K PROVE f[n[z]] \in L2 /\ v2[f[n[z]]] = f[z]
        <5>1. n[z] # x /\ v[n[z]] = z
          BY <3>3, <4>1, <4>2, <1>2
        <5> QED
          BY <5>1, <4>2, <3>3, <1>2
      <4>3. ASSUME v[z] \in K, v[z] # x PROVE f[v[z]] \in L2 /\ n2[f[v[z]]] = f[z]
        <5>1. n[v[z]] = z
          BY <4>1, <4>3, <1>2
        <5> QED
          BY <5>1, <4>3, <1>2
      <4> QED
        BY <3>1, <3>3, <4>2, <4>3
    <3> QED
      BY <3>2, <3>3
  <2> QED
    BY <2>1, <2>2
<1>6. Owners(L2, v2, c2, R, A \cup {f[x]})
  <2> SUFFICES ASSUME NEW p \in L2, c2[p] # NULL
               PROVE  /\ c2[p] \in L2
                      /\ p \notin R => v2[c2[p]] = NULL /\ c2[p] \notin A \cup {f[x]}
                      /\ \A q \in L2 : p \notin R /\ q \notin R /\ c2[q] = c2[p] => p = q
    BY DEF Owners
  <2>1. \A q \in L : c2[q] = c[q] /\ (c[q] # NULL => c[q] \in L)
    BY <1>1, <1>2 DEF Owners
  <2>2. \A q \in F : c2[q] # NULL => c2[q] \in F
    BY <1>2
  <2>3. CASE p \in L
    <3>1. c2[p] = c[p] /\ c[p] \in L /\ c[p] \notin F /\ v2[c[p]] = v[c[p]]
      BY <2>1, <2>3, <1>2
    <3>2. \A q \in L2 : c2[q] = c[p] => q \in L
      BY <3>1, <2>2, <2>3
    <3> QED
      BY <2>1, <2>3, <3>1, <3>2, <1>1, <1>2 DEF Owners
  <2>4. CASE p \in F
    <3>1. PICK z \in K : p = f[z]
      BY <2>4
    <3>2. c[z] \in K /\ c[z] # x /\ c[z] # NULL /\ c2[p] = f[c[z]] /\ c2[p] \in F
      BY <3>1, <1>2
    <3>3. c2[p] # f[x] /\ c2[p] \notin A
      BY <3>2, <1>2
    <3>4. v2[f[c[z]]] = NULL
      <4> SUFFICES ASSUME v[c[z]] \in K, v[c[z]] # x PROVE FALSE
        BY <3>2
      <4>1. n[v[c[z]]] = c[z]
        BY <3>2, <1>1, <1>2 DEF Neighbours
      <4> QED
        BY <4>1, <3>2
    <3>5. \A q \in L : c2[q] # c2[p]
      BY <2>1, <3>2, <1>2
    <3>6. ASSUME NEW y \in K, c2[f[y]] = c2[p] PROVE y = z
      <4>1. c[y] \in K /\ f[c[y]] = f[c[z]]
        BY <3>2, <3>6, <1>2
      <4>2. c[y] = c[z]
        BY <4>1, <3>2
      <4> QED
        BY <4>2, <3>2
    <3> QED
      BY <3>1, <3>2, <3>3, <3>4, <3>5, <3>6
  <2> QED
    BY <2>3, <2>4
<1>7. Owns(L2, t2, R)
  BY <1>1, <1>2 DEF Owns
<1>8. Alone(n2, v2, A \cup {f[x]})
  BY <1>1, <1>2 DEF Alone
<1> QED
  BY <1>4, <1>5, <1>6, <1>7, <1>8 DEF Sound

-----------------------------------------------------------------------------
(* The functions *)

\* What the application holds and what is lost are in no list.
Apart == held \cup leaked

HeapSound == Sound(live, next, prev, child, text, reference, Apart)

\* Nothing held is lost.
HeldInv == held \cap leaked = {}

Inv == HeapSound /\ HeldInv

\* The types of the heap.
LEMMA HeapTypes ==
    ASSUME Inv
    PROVE  /\ live \subseteq Items /\ reference \subseteq live /\ held \subseteq live /\ leaked \subseteq live
           /\ next \in [Items -> Pointers] /\ prev \in [Items -> Pointers]
           /\ child \in [Items -> Pointers] /\ text \in [Items -> Pointers]
           /\ NULL \notin Items
           /\ \A z \in Items \ live : next[z] = NULL /\ prev[z] = NULL /\ child[z] = NULL /\ text[z] = NULL
  BY NullAssumption DEF Inv, HeapSound, Sound, Typed, Apart

\* add_item_to_array attaches an item that is alone.
LEMMA Appended ==
    ASSUME NEW L, NEW c, NEW t, NEW R, NEW A, Sound(L, next, prev, c, t, R, A),
           NEW x \in A, NEW p \in L \ R, c[p] = child[p], AppendTo(p, x, c)
    PROVE  Sound(L, next', prev', child', t, R, A \ {x})
<1>1. CASE child[p] = NULL
  <2>1. c[p] = NULL /\ child' = [c EXCEPT ![p] = x] /\ next' = next /\ prev' = prev
    BY <1>1 DEF AppendTo
  <2> QED
    BY <2>1, AttachFirst
<1>2. CASE child[p] # NULL
  <2>1. child' = c
    BY <1>2 DEF AppendTo
  <2>2. PICK last \in Elements(p) :
            next[last] = NULL /\ next' = [next EXCEPT ![last] = x] /\ prev' = [prev EXCEPT ![x] = last]
    BY <1>2 DEF AppendTo
  <2>3. last \in Chain(next, c[p]) /\ c[p] # NULL
    BY <1>2, <2>2 DEF Elements
  <2>4. last \in L /\ Linked(prev, c, p, last)
    BY <2>3, ElementsLinked
  <2> QED
    BY <2>1, <2>2, <2>4, AttachLast
<1> QED
  BY <1>1, <1>2

LEMMA CreateInv ==
    ASSUME Inv, NEW x \in Items, Create(x)
    PROVE  Inv'
<1>1. /\ x \in Items \ live /\ live' = live \cup {x} /\ held' = held \cup {x} /\ leaked' = leaked
      /\ next' = next /\ prev' = prev /\ child' = child /\ reference' = reference
  BY DEF Create
<1>2. PICK s \in {NULL, x} : text' = [text EXCEPT ![x] = s]
  BY DEF Create
<1>3. text' \in [Items -> Pointers] /\ text'[x] \in {NULL, x} /\ \A z \in Items : z # x => text'[z] = text[z]
  BY <1>1, <1>2, HeapTypes DEF Pointers
<1>4. child \in [Items -> Pointers] /\ child[x] = NULL
  BY <1>1, HeapTypes
<1>5. Sound(live \cup {x}, next, prev, child, text', reference, Apart \cup {x})
  BY <1>1, <1>3, <1>4, Birth DEF Inv, HeapSound
<1>6. Apart' = Apart \cup {x} /\ HeldInv'
  BY <1>1, HeapTypes DEF Apart, Inv, HeldInv
<1> QED
  BY <1>1, <1>5, <1>6 DEF Inv, HeapSound

\* A reference that is in no list.
LEMMA ReferenceBorn ==
    ASSUME Inv, NEW x \in Items \ live, NEW c, NEW t, NEW u,
           c = [child EXCEPT ![x] = u], t = [text EXCEPT ![x] = NULL] \/ (\E y \in live : t = [text EXCEPT ![x] = text[y]]),
           u = NULL \/ u \in live
    PROVE  Sound(live \cup {x}, next, prev, c, t, reference \cup {x}, Apart \cup {x})
<1>1. /\ live \subseteq Items /\ child \in [Items -> Pointers] /\ text \in [Items -> Pointers]
      /\ \A y \in live : text[y] = NULL \/ text[y] \in live
  BY HeapTypes DEF Inv, HeapSound, Sound, Owns
<1>2. c \in [Items -> Pointers] /\ \A z \in Items : c[z] = IF z = x THEN u ELSE child[z]
  BY <1>1 DEF Pointers
<1>3. /\ t \in [Items -> Pointers] /\ \A z \in Items : z # x => t[z] = text[z]
      /\ t[x] = NULL \/ t[x] \in live
  <2>1. CASE t = [text EXCEPT ![x] = NULL]
    BY <2>1, <1>1 DEF Pointers
  <2>2. CASE \E y \in live : t = [text EXCEPT ![x] = text[y]]
    BY <2>2, <1>1 DEF Pointers
  <2> QED
    BY <2>1, <2>2
<1> QED
  BY <1>1, <1>2, <1>3, Birth DEF Inv, HeapSound

LEMMA CreateReferenceInv ==
    ASSUME Inv, NEW x \in Items, NEW c \in live, CreateReference(x, c)
    PROVE  Inv'
<1>1. /\ x \in Items \ live /\ live' = live \cup {x} /\ held' = held \cup {x} /\ leaked' = leaked
      /\ next' = next /\ prev' = prev /\ child' = [child EXCEPT ![x] = c] /\ reference' = reference \cup {x}
      /\ text' = text
  BY DEF CreateReference
<1>2. text = [text EXCEPT ![x] = NULL]
  BY <1>1, HeapTypes
<1>3. Sound(live \cup {x}, next, prev, child', text, reference \cup {x}, Apart \cup {x})
  BY <1>1, <1>2, ReferenceBorn
<1>4. Apart' = Apart \cup {x} /\ HeldInv'
  BY <1>1, HeapTypes DEF Apart, Inv, HeldInv
<1> QED
  BY <1>1, <1>3, <1>4 DEF Inv, HeapSound

LEMMA CreatedArray ==
    ASSUME Inv, NEW m \in Nat, NEW s \in FreshLists(m + 1), NEW strings, CreateArrayOf(s, strings),
           NEW E, E = {s[i] : i \in 2..m + 1}
    PROVE  /\ MakesArray(live, s, m + 1, E, next, prev, child, text, next', prev', child', text')
           /\ live' = (live \cup {s[1]}) \cup E /\ reference' = reference
           /\ Apart' = Apart \cup {s[1]} /\ HeldInv'
<1> DEFINE Index(y) == CHOOSE i \in 2..m + 1 : s[i] = y
<1>1. s \in [1..m + 1 -> Items \ live] /\ \A i, j \in 1..m + 1 : s[i] = s[j] => i = j
  BY DEF FreshLists
<1>2. Len(s) = m + 1
  <2>1. s \in Seq(Items \ live)
    BY <1>1
  <2> QED
    BY <1>1, <2>1
<1>3. /\ live' = (live \cup {s[1]}) \cup E /\ held' = held \cup {s[1]} /\ leaked' = leaked /\ reference' = reference
      /\ child' = IF E = {} THEN child ELSE [child EXCEPT ![s[1]] = s[2]]
      /\ next' = [y \in Items |-> IF y \in E /\ Index(y) < m + 1 THEN s[Index(y) + 1] ELSE next[y]]
      /\ prev' = [y \in Items |-> IF y \in E /\ Index(y) > 2 THEN s[Index(y) - 1] ELSE prev[y]]
      /\ text' = [y \in Items |-> IF y \in E /\ strings THEN y ELSE text[y]]
  BY <1>2 DEF CreateArrayOf
<1>4. \A i \in 1..m + 1 : s[i] \in Items /\ s[i] \notin live
  BY <1>1
<1>5. \A i \in 2..m + 1 : Index(s[i]) = i
  BY <1>1
<1>6. \A i \in 2..m + 1 : s[i] \in E
  OBVIOUS
<1>7. E \subseteq Items \ live /\ s[1] \in Items \ live /\ s[1] \notin E
  BY <1>1
<1>8. (E = {} <=> ~(m + 1 > 1)) /\ (m + 1 > 1 => s[2] \in Items)
  <2>1. CASE m = 0
    BY <2>1
  <2>2. CASE m # 0
    <3>1. 2 \in 2..m + 1 /\ 2 \in 1..m + 1
      BY <2>2
    <3>2. s[2] \in E
      BY <3>1, <1>6
    <3>3. s[2] \in Items
      BY <3>1, <1>4
    <3>4. m + 1 > 1
      BY <2>2
    <3> QED
      BY <3>2, <3>3, <3>4
  <2> QED
    BY <2>1, <2>2
<1>9. \A y \in E : \E i \in 2..m + 1 : y = s[i] /\ Index(y) = i
  BY <1>5
<1> HIDE DEF Index
<1>10. next' \in [Items -> Pointers] /\ prev' \in [Items -> Pointers]
  <2>1. \A y \in E : Index(y) < m + 1 => s[Index(y) + 1] \in Items
    BY <1>4, <1>9
  <2>2. \A y \in E : Index(y) > 2 => s[Index(y) - 1] \in Items
    BY <1>4, <1>9
  <2> QED
    BY <2>1, <2>2, <1>3, HeapTypes DEF Pointers
<1>11. child' \in [Items -> Pointers] /\ text' \in [Items -> Pointers]
  BY <1>3, <1>7, <1>8, HeapTypes DEF Pointers
<1>12. \A i \in 2..m + 1 : next'[s[i]] = IF i < m + 1 THEN s[i + 1] ELSE NULL
  BY <1>3, <1>4, <1>5, <1>6, HeapTypes
<1>13. \A i \in 2..m + 1 : prev'[s[i]] = IF i > 2 THEN s[i - 1] ELSE NULL
  BY <1>3, <1>4, <1>5, <1>6, HeapTypes
<1>14. \A z \in Items \ E : next'[z] = next[z] /\ prev'[z] = prev[z] /\ text'[z] = text[z]
  BY <1>3
<1>15. \A z \in E : text'[z] \in {NULL, z}
  BY <1>3, <1>7, HeapTypes
<1>16. /\ child'[s[1]] = IF m + 1 > 1 THEN s[2] ELSE NULL
       /\ \A z \in Items : z # s[1] => child'[z] = child[z]
  BY <1>3, <1>7, <1>8, HeapTypes
<1>17. MakesArray(live, s, m + 1, E, next, prev, child, text, next', prev', child', text')
  BY <1>1, <1>10, <1>11, <1>12, <1>13, <1>14, <1>15, <1>16 DEF MakesArray
<1>18. Apart' = Apart \cup {s[1]} /\ HeldInv'
  BY <1>3, <1>7, HeapTypes DEF Apart, Inv, HeldInv
<1> QED
  BY <1>3, <1>17, <1>18

LEMMA CreateArrayInv ==
    ASSUME Inv, NEW m \in Nat, NEW s \in FreshLists(m + 1), NEW strings, CreateArrayOf(s, strings)
    PROVE  Inv'
<1> DEFINE E == {s[i] : i \in 2..m + 1}
<1> HIDE DEF E
<1>1. /\ MakesArray(live, s, m + 1, E, next, prev, child, text, next', prev', child', text')
      /\ live' = (live \cup {s[1]}) \cup E /\ reference' = reference
      /\ Apart' = Apart \cup {s[1]} /\ HeldInv'
  BY CreatedArray DEF E
<1>2. Sound((live \cup {s[1]}) \cup E, next', prev', child', text', reference, Apart \cup {s[1]})
  BY <1>1, ArrayMade DEF Inv, HeapSound
<1> QED
  BY <1>1, <1>2 DEF Inv, HeapSound

\* The item that is handed over is in no list any more.
LEMMA HandOver ==
    ASSUME Inv, NEW x \in held, held' = held \ {x}, leaked' = leaked
    PROVE  x \in Apart /\ Apart' = Apart \ {x} /\ HeldInv'
  BY DEF Inv, HeldInv, Apart

LEMMA AddInv ==
    ASSUME Inv, NEW p \in Containers, NEW x \in held,
           AddItemToArray(p, x) \/ (\E k \in Keys : AddItemToObject(p, k, x))
    PROVE  Inv'
<1>1. /\ AppendTo(p, x, child) /\ held' = held \ {x} /\ leaked' = leaked
      /\ live' = live /\ text' = text /\ reference' = reference
  BY DEF AddItemToArray, AddItemToObject
<1>2. x \in Apart /\ Apart' = Apart \ {x} /\ HeldInv'
  BY <1>1, HandOver
<1>3. p \in live \ reference
  BY DEF Containers
<1>4. Sound(live, next', prev', child', text, reference, Apart \ {x})
  BY <1>1, <1>2, <1>3, Appended DEF Inv, HeapSound
<1> QED
  BY <1>1, <1>2, <1>4 DEF Inv, HeapSound

\* The three calls that lose an item change no list.
LEMMA LoseInv ==
    ASSUME Inv, NEW x \in held,
           \/ AddItemFails(x)
           \/ \E p \in Containers, k \in Keys, sensitive \in BOOLEAN : ReplaceMissingItem(p, k, x, sensitive)
    PROVE  Inv'
<1>1. /\ held' = held \ {x} /\ leaked' = leaked \cup {x} /\ live' = live /\ next' = next /\ prev' = prev
      /\ child' = child /\ text' = text /\ reference' = reference
  BY DEF AddItemFails, ReplaceMissingItem
<1>2. Apart' = Apart /\ HeldInv'
  BY <1>1 DEF Apart, Inv, HeldInv
<1> QED
  BY <1>1, <1>2 DEF Inv, HeapSound

LEMMA AddNewInv ==
    ASSUME Inv, NEW p \in Containers, NEW x \in Items, NEW k, AddNewToObject(p, k, x)
    PROVE  Inv'
<1>1. /\ x \in Items \ live /\ live' = live \cup {x} /\ held' = held /\ leaked' = leaked
      /\ reference' = reference /\ AppendTo(p, x, child)
  BY DEF AddNewToObject
<1>2. PICK s \in {NULL, x} : text' = [text EXCEPT ![x] = s]
  BY DEF AddNewToObject
<1>3. text' \in [Items -> Pointers] /\ text'[x] \in {NULL, x} /\ \A z \in Items : z # x => text'[z] = text[z]
  BY <1>1, <1>2, HeapTypes DEF Pointers
<1>4. child \in [Items -> Pointers] /\ child[x] = NULL
  BY <1>1, HeapTypes
<1>5. Sound(live \cup {x}, next, prev, child, text', reference, Apart \cup {x})
  BY <1>1, <1>3, <1>4, Birth DEF Inv, HeapSound
<1>6. p \in (live \cup {x}) \ reference /\ x \in Apart \cup {x}
  BY DEF Containers
<1>7. Sound(live \cup {x}, next', prev', child', text', reference, (Apart \cup {x}) \ {x})
  BY <1>1, <1>5, <1>6, Appended
<1>8. (Apart \cup {x}) \ {x} = Apart /\ Apart' = Apart /\ HeldInv'
  BY <1>1, HeapTypes DEF Apart, Inv, HeldInv
<1> QED
  BY <1>1, <1>7, <1>8 DEF Inv, HeapSound

LEMMA AddReferenceInv ==
    ASSUME Inv, NEW p \in Containers, NEW y \in live, NEW x \in Items,
           AddItemReferenceToArray(p, y, x) \/ (\E k \in Keys : AddItemReferenceToObject(p, k, y, x))
    PROVE  Inv'
<1> DEFINE c == [child EXCEPT ![x] = child[y]]
           t == [text EXCEPT ![x] = text[y]]
<1>1. /\ x \in Items \ live /\ live' = live \cup {x} /\ held' = held /\ leaked' = leaked
      /\ reference' = reference \cup {x} /\ text' = t /\ AppendTo(p, x, c)
  BY DEF AddItemReferenceToArray, AddItemReferenceToObject, create_reference
<1>2. child[y] = NULL \/ child[y] \in live
  BY DEF Inv, HeapSound, Sound, Owners
<1>3. Sound(live \cup {x}, next, prev, c, t, reference \cup {x}, Apart \cup {x})
  BY <1>1, <1>2, ReferenceBorn
<1>4. p \in (live \cup {x}) \ (reference \cup {x}) /\ x \in Apart \cup {x} /\ c[p] = child[p]
  BY <1>1, HeapTypes DEF Containers
<1> HIDE DEF c, t
<1>5. Sound(live \cup {x}, next', prev', child', t, reference \cup {x}, (Apart \cup {x}) \ {x})
  BY <1>1, <1>3, <1>4, Appended
<1>6. (Apart \cup {x}) \ {x} = Apart /\ Apart' = Apart /\ HeldInv'
  BY <1>1, HeapTypes DEF Apart, Inv, HeldInv
<1> QED
  BY <1>1, <1>5, <1>6 DEF Inv, HeapSound

LEMMA AddReferenceFailsInv ==
    ASSUME Inv, NEW y \in live, NEW x \in Items, AddReferenceFails(y, x)
    PROVE  Inv'
<1>1. /\ x \in Items \ live /\ live' = live \cup {x} /\ held' = held /\ leaked' = leaked \cup {x}
      /\ next' = next /\ prev' = prev
      /\ reference' = reference \cup {x} /\ text' = [text EXCEPT ![x] = text[y]] /\ child' = [child EXCEPT ![x] = child[y]]
  BY DEF AddReferenceFails, create_reference
<1>2. child[y] = NULL \/ child[y] \in live
  BY DEF Inv, HeapSound, Sound, Owners
<1>3. Sound(live \cup {x}, next, prev, child', text', reference \cup {x}, Apart \cup {x})
  BY <1>1, <1>2, ReferenceBorn
<1>4. Apart' = Apart \cup {x} /\ HeldInv'
  BY <1>1, HeapTypes DEF Apart, Inv, HeldInv
<1> QED
  BY <1>1, <1>3, <1>4 DEF Inv, HeapSound

\* An element of a container, and how it is linked.
LEMMA ElementOf ==
    ASSUME Inv, NEW p \in Containers, NEW y \in Elements(p)
    PROVE  p \in live \ reference /\ y \in live /\ y \notin Apart /\ Linked(prev, child, p, y)
<1>1. p \in live \ reference /\ child[p] # NULL /\ y \in Chain(next, child[p])
  BY DEF Containers, Elements
<1> QED
  BY <1>1, ElementsLinked DEF Inv, HeapSound

LEMMA InsertInv ==
    ASSUME Inv, NEW p \in Containers, NEW x \in held, NEW y \in Elements(p), InsertItemInArray(p, y, x)
    PROVE  Inv'
<1>1. /\ next' = [z \in Items |-> IF z = x THEN y ELSE IF y # child[p] /\ z = prev[y] THEN x ELSE next[z]]
      /\ prev' = [prev EXCEPT ![x] = prev[y], ![y] = x]
      /\ child' = IF y = child[p] THEN [child EXCEPT ![p] = x] ELSE child
      /\ held' = held \ {x} /\ leaked' = leaked /\ live' = live /\ text' = text /\ reference' = reference
  BY DEF InsertItemInArray
<1>2. x \in Apart /\ Apart' = Apart \ {x} /\ HeldInv'
  BY <1>1, HandOver
<1>3. Sound(live, next', prev', child', text, reference, Apart \ {x})
  <2>1. Sound(live, next, prev, child, text, reference, Apart)
    BY DEF Inv, HeapSound
  <2>2. p \in live \ reference /\ y \in live /\ Linked(prev, child, p, y)
    BY ElementOf
  <2> DEFINE n2 == next'
             v2 == prev'
             c2 == child'
  <2>3. /\ n2 = [z \in Items |-> IF z = x THEN y ELSE IF y # child[p] /\ z = prev[y] THEN x ELSE next[z]]
        /\ v2 = [z \in Items |-> IF z = y THEN x ELSE IF z = x THEN prev[y] ELSE prev[z]]
        /\ c2 = IF y = child[p] THEN [child EXCEPT ![p] = x] ELSE child
    BY <1>1, HeapTypes
  <2> HIDE DEF n2, v2, c2
  <2>4. Sound(live, n2, v2, c2, text, reference, Apart \ {x})
    BY <1>2, <2>1, <2>2, <2>3, AttachBefore, SMTT(60)
  <2> QED
    BY <2>4 DEF n2, v2, c2
<1> QED
  BY <1>1, <1>2, <1>3 DEF Inv, HeapSound

LEMMA DetachInv ==
    ASSUME Inv, NEW p \in Containers, NEW y \in Elements(p), DetachItemViaPointer(p, y)
    PROVE  Inv'
<1>1. /\ next' = NextWithout(y) /\ prev' = PrevWithout(y) /\ child' = ChildWithout(p, y)
      /\ held' = held \cup {y} /\ leaked' = leaked /\ live' = live /\ text' = text /\ reference' = reference
  BY DEF DetachItemViaPointer
<1>2. Sound(live, next', prev', child', text, reference, Apart \cup {y})
  BY <1>1, ElementOf, Detached DEF Inv, HeapSound, NextWithout, PrevWithout, ChildWithout
<1>3. Apart' = Apart \cup {y} /\ HeldInv'
  BY <1>1, ElementOf DEF Apart, Inv, HeldInv
<1> QED
  BY <1>1, <1>2, <1>3 DEF Inv, HeapSound

\* Free, when the heap is sound but for the item x that is alone.
LEMMA FreeInv ==
    ASSUME NEW n, NEW v, NEW c, NEW s, NEW A, NEW x \in A, NEW D, D = Owned(n, c, x),
           Sound(live, n, v, c, text, reference, A),
           \A r \in reference : c[r] = child[r],
           Free(D, n, v, c, s)
    PROVE  Sound(live', next', prev', child', text', reference', A \ {x})
<1>1. /\ live' = live \ D /\ reference' = reference \ D
      /\ next' = [z \in Items |-> IF z \in D THEN NULL ELSE n[z]]
      /\ prev' = [z \in Items |-> IF z \in D THEN NULL ELSE v[z]]
      /\ child' = [z \in Items |-> IF z \in D THEN NULL ELSE c[z]]
      /\ text' = [z \in Items |-> IF z \in D THEN NULL ELSE text[z]]
  BY DEF Free
<1>2. \A r \in (live \cap reference) \ D : c[r] \notin D /\ text[r] \notin D
  BY DEF Free, Unshown
<1> QED
  BY <1>1, <1>2, Freed

LEMMA DeleteInv ==
    ASSUME Inv, NEW x \in held, Delete(x)
    PROVE  Inv'
<1>1. Free(Owned(next, child, x), next, prev, child, key) /\ held' = held \ {x} /\ leaked' = leaked
  BY DEF Delete
<1>2. x \in Apart /\ Apart' = Apart \ {x} /\ HeldInv'
  BY <1>1, HandOver
<1>3. Sound(live', next', prev', child', text', reference', Apart \ {x})
  BY <1>1, <1>2, FreeInv DEF Inv, HeapSound
<1> QED
  BY <1>2, <1>3 DEF Inv, HeapSound

LEMMA DeleteItemInv ==
    ASSUME Inv, NEW p \in Containers, NEW y \in Elements(p), DeleteItemFrom(p, y)
    PROVE  Inv'
<1> DEFINE n == NextWithout(y)
           v == PrevWithout(y)
           c == ChildWithout(p, y)
<1>1. Free(Owned(n, c, y), n, v, c, key) /\ held' = held /\ leaked' = leaked
  BY DEF DeleteItemFrom
<1>2. Sound(live, n, v, c, text, reference, Apart \cup {y})
  BY ElementOf, Detached DEF Inv, HeapSound, NextWithout, PrevWithout, ChildWithout
<1>3. \A r \in reference : c[r] = child[r]
  BY HeapTypes DEF ChildWithout, Containers
<1> HIDE DEF n, v, c
<1>4. Sound(live', next', prev', child', text', reference', (Apart \cup {y}) \ {y})
  BY <1>1, <1>2, <1>3, FreeInv
<1>5. (Apart \cup {y}) \ {y} = Apart /\ Apart' = Apart /\ HeldInv'
  BY <1>1, ElementOf DEF Apart, Inv, HeldInv
<1> QED
  BY <1>4, <1>5 DEF Inv, HeapSound

LEMMA ReplaceInv ==
    ASSUME Inv, NEW p \in Containers, NEW y \in Elements(p), NEW x \in held, NEW s,
           ReplaceItemViaPointer(p, y, x, s), leaked' = leaked
    PROVE  Inv'
<1> DEFINE n == NextWith(y, x)
           v == PrevWith(y, x)
           c == ChildWith(p, y, x)
<1>1. Free(Owned(n, c, y), n, v, c, s) /\ held' = held \ {x}
  BY DEF ReplaceItemViaPointer
<1>2. x \in Apart /\ Apart' = Apart \ {x} /\ HeldInv'
  BY <1>1, HandOver
<1>3. Sound(live, n, v, c, text, reference, (Apart \ {x}) \cup {y}) /\ y \notin Apart
  BY <1>2, ElementOf, Replaced DEF Inv, HeapSound, NextWith, PrevWith, ChildWith
<1>4. \A r \in reference : c[r] = child[r]
  BY HeapTypes DEF ChildWith, Containers
<1> HIDE DEF n, v, c
<1>5. Sound(live', next', prev', child', text', reference', ((Apart \ {x}) \cup {y}) \ {y})
  BY <1>1, <1>3, <1>4, FreeInv
<1>6. ((Apart \ {x}) \cup {y}) \ {y} = Apart \ {x}
  BY <1>3
<1> QED
  BY <1>2, <1>5, <1>6 DEF Inv, HeapSound

LEMMA CreatedCopy ==
    ASSUME Inv, NEW x \in live, NEW K, K \subseteq live, x \in K, NEW f \in [K -> Items \ live], Duplicate(x, K, f),
           NEW F, F = {f[z] : z \in K}
    PROVE  /\ MakesCopy(live, x, K, f, F, next, prev, child, text, next', prev', child', text')
           /\ live' = live \cup F /\ reference' = reference
           /\ Apart' = Apart \cup {f[x]} /\ HeldInv'
<1> DEFINE Original(y) == CHOOSE z \in K : f[z] = y
           Moved(g, z) == IF g[z] \in K THEN f[g[z]] ELSE NULL
<1>1. /\ Unshared(K, x) /\ \A y, z \in K : f[y] = f[z] => y = z
      /\ live' = live \cup F /\ held' = held \cup {f[x]} /\ leaked' = leaked /\ reference' = reference
      /\ next' = [y \in Items |-> IF y \in F \ {f[x]} THEN Moved(next, Original(y)) ELSE next[y]]
      /\ prev' = [y \in Items |-> IF y \in F \ {f[x]} /\ prev[Original(y)] # x THEN Moved(prev, Original(y)) ELSE prev[y]]
      /\ child' = [y \in Items |-> IF y \in F THEN Moved(child, Original(y)) ELSE child[y]]
      /\ text' = [y \in Items |-> IF y \in F /\ text[Original(y)] # NULL THEN y ELSE text[y]]
  BY DEF Duplicate
<1>2. \A z \in K : Original(f[z]) = z
  BY <1>1
<1>3. \A z \in K : f[z] \in F /\ f[z] \in Items /\ f[z] \notin live
  OBVIOUS
<1>4. \A y \in F : \E z \in K : y = f[z] /\ Original(y) = z
  BY <1>2
<1>5. F \subseteq Items \ live
  OBVIOUS
<1>6. \A z \in K \ {x} : f[z] # f[x]
  BY <1>1
<1> HIDE DEF Original
<1>7. next' \in [Items -> Pointers] /\ prev' \in [Items -> Pointers]
  BY <1>1, <1>3, HeapTypes DEF Pointers
<1>8. child' \in [Items -> Pointers] /\ text' \in [Items -> Pointers]
  BY <1>1, <1>3, <1>5, HeapTypes DEF Pointers
<1>9. next'[f[x]] = NULL /\ prev'[f[x]] = NULL
  BY <1>1, <1>3, HeapTypes
<1>10. \A z \in K \ {x} : next'[f[z]] = IF next[z] \in K THEN f[next[z]] ELSE NULL
  BY <1>1, <1>2, <1>3, <1>6
<1>11. \A z \in K \ {x} : prev'[f[z]] = IF prev[z] # x /\ prev[z] \in K THEN f[prev[z]] ELSE NULL
  BY <1>1, <1>2, <1>3, <1>6, HeapTypes
<1>12. \A z \in K : child'[f[z]] = IF child[z] \in K THEN f[child[z]] ELSE NULL
  BY <1>1, <1>2, <1>3
<1>13. \A y \in F : text'[y] \in {NULL, y}
  BY <1>1, <1>5, HeapTypes
<1>14. \A z \in Items \ F : next'[z] = next[z] /\ prev'[z] = prev[z] /\ child'[z] = child[z] /\ text'[z] = text[z]
  BY <1>1
<1>15. MakesCopy(live, x, K, f, F, next, prev, child, text, next', prev', child', text')
  BY <1>1, <1>7, <1>8, <1>9, <1>10, <1>11, <1>12, <1>13, <1>14 DEF MakesCopy, Unshared
<1>16. Apart' = Apart \cup {f[x]} /\ HeldInv'
  BY <1>1, <1>3, HeapTypes DEF Apart, Inv, HeldInv
<1> QED
  BY <1>1, <1>15, <1>16

LEMMA DuplicateInv ==
    ASSUME Inv, NEW x \in live, NEW K, K \subseteq live, x \in K, NEW f \in [K -> Items \ live], Duplicate(x, K, f)
    PROVE  Inv'
<1> DEFINE F == {f[z] : z \in K}
<1> HIDE DEF F
<1>1. /\ MakesCopy(live, x, K, f, F, next, prev, child, text, next', prev', child', text')
      /\ live' = live \cup F /\ reference' = reference
      /\ Apart' = Apart \cup {f[x]} /\ HeldInv'
  BY CreatedCopy DEF F
<1>2. Sound(live \cup F, next', prev', child', text', reference, Apart \cup {f[x]})
  BY <1>1, CopyMade DEF Inv, HeapSound
<1> QED
  BY <1>1, <1>2 DEF Inv, HeapSound

\* What is copied is allocated.
LEMMA CopiedIsLive ==
    ASSUME Inv, NEW x \in live, NEW recurse
    PROVE  CopiedFrom(x, recurse) \subseteq live /\ x \in CopiedFrom(x, recurse)
<1>1. \A z \in live : (next[z] # NULL => next[z] \in live) /\ (child[z] # NULL => child[z] \in live)
  BY DEF Inv, HeapSound, Sound, Neighbours, Owners
<1>2. ASSUME child[x] # NULL PROVE Seen(child[x]) \subseteq live
  BY <1>1, <1>2, HeapTypes DEF Seen
<1> QED
  BY <1>2 DEF CopiedFrom

-----------------------------------------------------------------------------
LEMMA InitInv ==
    ASSUME Init
    PROVE  Inv
  BY DEF Init, Inv, HeapSound, HeldInv, Apart, Sound, Typed, Neighbours, Owners, Owns, Alone, Pointers

LEMMA NextInv ==
    ASSUME Inv, [Next]_vars
    PROVE  Inv'
<1>1. CASE UNCHANGED vars
  BY <1>1 DEF vars, Inv, HeapSound, HeldInv, Apart
<1>2. CASE CreateAny
  <2>1. MaxCount \in Nat /\ \A n \in 0..MaxCount : n \in Nat
    BY BoundsAssumption
  <2> QED
    BY <1>2, <2>1, CreateInv, CreateReferenceInv, CreateArrayInv DEF CreateAny
<1>3. CASE AddAny
  <2>1. CASE \E p \in Containers, x \in held : AddItemToArray(p, x) \/ (\E k \in Keys : AddItemToObject(p, k, x))
    BY <2>1, AddInv
  <2>2. CASE \E p \in Containers, x \in held : \E y \in Elements(p) : InsertItemInArray(p, y, x)
    BY <2>2, InsertInv
  <2>3. CASE \E x \in held : AddItemFails(x)
    BY <2>3, LoseInv
  <2>4. CASE \E p \in Containers, x \in Items, k \in Keys : AddNewToObject(p, k, x)
    BY <2>4, AddNewInv
  <2>5. CASE \E p \in Containers, y \in live, x \in Items :
                AddItemReferenceToArray(p, y, x) \/ (\E k \in Keys : AddItemReferenceToObject(p, k, y, x))
    BY <2>5, AddReferenceInv
  <2>6. CASE \E y \in live, x \in Items : AddReferenceFails(y, x)
    BY <2>6, AddReferenceFailsInv
  <2> QED
    BY <1>3, <2>1, <2>2, <2>3, <2>4, <2>5, <2>6 DEF AddAny
<1>4. CASE RemoveAny
  <2>1. CASE \E p \in Containers : \E y \in Elements(p) : DetachItemViaPointer(p, y) \/ DeleteItemFrom(p, y)
    BY <2>1, DetachInv, DeleteItemInv
  <2>2. CASE \E x \in held : Delete(x)
    BY <2>2, DeleteInv
  <2>3. CASE \E p \in Containers, x \in held : \E y \in Elements(p) : ReplaceItemInArray(p, y, x)
    <3>1. PICK p \in Containers, x \in held : \E y \in Elements(p) : ReplaceItemInArray(p, y, x)
      BY <2>3
    <3>2. PICK y \in Elements(p) : ReplaceItemInArray(p, y, x)
      BY <3>1
    <3> QED
      BY <3>2, ReplaceInv DEF ReplaceItemInArray
  <2>4. CASE \E p \in Containers, x \in held, k \in Keys, sensitive \in BOOLEAN :
                \E y \in Elements(p) : ReplaceItemInObject(p, k, y, x, sensitive)
    <3>0. PICK p \in Containers, x \in held, k \in Keys, sensitive \in BOOLEAN :
              \E y \in Elements(p) : ReplaceItemInObject(p, k, y, x, sensitive)
      BY <2>4
    <3>1. PICK y \in Elements(p) : ReplaceItemInObject(p, k, y, x, sensitive)
      BY <3>0
    <3>2. PICK name \in {k, NULL} : ReplaceItemViaPointer(p, y, x, [key EXCEPT ![x] = name])
      BY <3>1 DEF ReplaceItemInObject
    <3>3. leaked' = leaked
      BY <3>1 DEF ReplaceItemInObject
    <3> QED
      BY <3>2, <3>3, ReplaceInv
  <2>5. CASE \E p \in Containers, x \in held, k \in Keys, sensitive \in BOOLEAN : ReplaceMissingItem(p, k, x, sensitive)
    BY <2>5, LoseInv
  <2> QED
    BY <1>4, <2>1, <2>2, <2>3, <2>4, <2>5 DEF RemoveAny
<1>5. CASE CopyAny
  <2>1. PICK x \in live, recurse \in BOOLEAN :
            \E f \in [CopiedFrom(x, recurse) -> Items \ live] : Duplicate(x, CopiedFrom(x, recurse), f)
    BY <1>5 DEF CopyAny
  <2> QED
    BY <2>1, CopiedIsLive, DuplicateInv
<1> QED
  BY <1>1, <1>2, <1>3, <1>4, <1>5 DEF Next

\* For any number of items and any sequence of calls, in which any allocation
\* may fail, the neighbours, children and texts of an allocated item are
\* allocated, lists have one owner, and what the application holds is in none
\* (cJSON.c:224-245, 1830-2257, 2420-2641).
THEOREM PointersAreSound == Spec => []PointersSound
<1>1. Init => Inv
  BY InitInv
<1>2. Inv /\ [Next]_vars => Inv'
  BY NextInv
<1>3. Inv => PointersSound
  BY DEF Inv, HeapSound, Sound, Neighbours, Owners, Owns, Alone, Apart,
         PointersSound, NeighboursAgree, ListsHaveOneOwner, TextsHaveOneOwner, HeldIsAlone
<1> QED
  BY <1>1, <1>2, <1>3, PTL DEF Spec
-----------------------------------------------------------------------------
(***************************************************************************)
(* Every allocated item is freed when the application deletes what it      *)
(* holds, but for the items given away in the three calls that cannot say  *)
(* that they failed.                                                       *)
(*                                                                         *)
(* The invariant says that every set of items that contains what is in no  *)
(* list, and whatever its members own, contains all that is allocated.  A  *)
(* change of the heap preserves it when such a set for the new heap is, or *)
(* can be made into, one for the old.                                      *)
(***************************************************************************)

\* What the members of D own is in D.
Closed(D, n, c, R) ==
    \A z \in D : (n[z] # NULL => n[z] \in D) /\ (z \notin R /\ c[z] # NULL => c[z] \in D)

Reached(L, n, c, R, A) == \A D \in SUBSET Items : A \subseteq D /\ Closed(D, n, c, R) => L \subseteq D

-----------------------------------------------------------------------------
(* One change of the heap *)

LEMMA BirthReaches ==
    ASSUME NEW L, NEW n, NEW c, NEW R, NEW A, Reached(L, n, c, R, A),
           NEW x \in Items, c[x] = NULL, NEW c2, NEW R2, R2 = R \/ R2 = R \cup {x},
           \A z \in Items : z # x => c2[z] = c[z]
    PROVE  Reached(L \cup {x}, n, c2, R2, A \cup {x})
<1> SUFFICES ASSUME NEW D \in SUBSET Items, A \cup {x} \subseteq D, Closed(D, n, c2, R2)
             PROVE  L \cup {x} \subseteq D
  BY DEF Reached
<1>1. Closed(D, n, c, R)
  BY DEF Closed
<1> QED
  BY <1>1 DEF Reached

\* S holds what x owns, so the rest of the heap is reached without x.
LEMMA AttachLastReaches ==
    ASSUME NEW L, NEW n, n \in [Items -> Pointers], NEW c, NEW R, NEW A, Reached(L, n, c, R, A),
           NEW S \in SUBSET Items, NEW x \in S, Closed(S, n, c, R), NEW last \in L \ S, L \subseteq Items, n[last] = NULL,
           NEW n2, n2 = [n EXCEPT ![last] = x]
    PROVE  Reached(L, n2, c, R, A \ {x})
<1> SUFFICES ASSUME NEW D \in SUBSET Items, A \ {x} \subseteq D, Closed(D, n2, c, R)
             PROVE  L \subseteq D
  BY DEF Reached
<1>1. \A z \in Items : n2[z] = IF z = last THEN x ELSE n[z]
  BY DEF Pointers
<1>2. CASE last \in D
  <2>1. x \in D
    BY <1>1, <1>2, NullAssumption DEF Closed
  <2>2. Closed(D, n, c, R)
    BY <1>1 DEF Closed
  <2> QED
    BY <2>1, <2>2 DEF Reached
<1>3. CASE last \notin D
  <2>1. Closed(D \cup S, n, c, R)
    BY <1>1, <1>3 DEF Closed
  <2>2. A \subseteq D \cup S /\ D \cup S \in SUBSET Items
    OBVIOUS
  <2>3. last \in D \cup S
    BY <2>1, <2>2 DEF Reached
  <2> QED
    BY <2>3, <1>3
<1> QED
  BY <1>2, <1>3

LEMMA AttachFirstReaches ==
    ASSUME NEW L, NEW n, NEW c, c \in [Items -> Pointers], NEW R, NEW A, Reached(L, n, c, R, A),
           NEW S \in SUBSET Items, NEW x \in S, Closed(S, n, c, R), NEW p \in L \ S, p \notin R, L \subseteq Items, c[p] = NULL,
           NEW c2, c2 = [c EXCEPT ![p] = x]
    PROVE  Reached(L, n, c2, R, A \ {x})
<1> SUFFICES ASSUME NEW D \in SUBSET Items, A \ {x} \subseteq D, Closed(D, n, c2, R)
             PROVE  L \subseteq D
  BY DEF Reached
<1>1. \A z \in Items : c2[z] = IF z = p THEN x ELSE c[z]
  BY DEF Pointers
<1>2. CASE p \in D
  <2>1. x \in D
    BY <1>1, <1>2, NullAssumption DEF Closed
  <2>2. Closed(D, n, c, R)
    BY <1>1 DEF Closed
  <2> QED
    BY <2>1, <2>2 DEF Reached
<1>3. CASE p \notin D
  <2>1. Closed(D \cup S, n, c, R)
    BY <1>1, <1>3 DEF Closed
  <2>2. A \subseteq D \cup S /\ D \cup S \in SUBSET Items
    OBVIOUS
  <2>3. p \in D \cup S
    BY <2>1, <2>2 DEF Reached
  <2> QED
    BY <2>3, <1>3
<1> QED
  BY <1>2, <1>3

\* The item that leads to y: the one before it or, for the first element,
\* the container.
Leader(v, c, p, y) == IF c[p] = y THEN p ELSE v[y]

\* n2 and c2 are n and c with x before y in the list of p.
GoesBefore(x, p, y, n, v, c, n2, c2) ==
    /\ n2 = [z \in Items |-> IF z = x THEN y ELSE IF y # c[p] /\ z = v[y] THEN x ELSE n[z]]
    /\ c2 = IF y = c[p] THEN [c EXCEPT ![p] = x] ELSE c

LEMMA AttachBeforeReaches ==
    ASSUME NEW L, L \subseteq Items, NEW n, NEW v, NEW c, c \in [Items -> Pointers], NEW R, NEW A, Reached(L, n, c, R, A),
           NEW S \in SUBSET Items, NEW x \in S, n[x] = NULL, Closed(S, n, c, R),
           NEW p \in L \ S, p \notin R, NEW y \in L, x # y,
           y # c[p] => v[y] \in L \ S /\ n[v[y]] = y,
           NEW n2, NEW c2, GoesBefore(x, p, y, n, v, c, n2, c2)
    PROVE  Reached(L, n2, c2, R, A \ {x})
<1> SUFFICES ASSUME NEW D \in SUBSET Items, A \ {x} \subseteq D, Closed(D, n2, c2, R)
             PROVE  L \subseteq D
  BY DEF Reached
<1> DEFINE w == Leader(v, c, p, y)
<1>1. /\ \A z \in Items : n2[z] = IF z = x THEN y ELSE IF y # c[p] /\ z = v[y] THEN x ELSE n[z]
      /\ \A z \in Items : c2[z] = IF z = p /\ y = c[p] THEN x ELSE c[z]
  BY DEF Pointers, GoesBefore
<1>2. w \in L \ S /\ x # NULL /\ y # NULL /\ x \in Items /\ y \in Items
  BY NullAssumption DEF Leader
<1>3. CASE w \in D
  <2>1. x \in D
    BY <1>1, <1>2, <1>3 DEF Closed, Leader
  <2>2. y \in D
    BY <1>1, <1>2, <2>1 DEF Closed
  <2>3. Closed(D, n, c, R)
    BY <1>1, <2>2 DEF Closed
  <2> QED
    BY <2>1, <2>3 DEF Reached
<1>4. CASE w \notin D
  <2>1. Closed(D \cup S, n, c, R)
    BY <1>1, <1>2, <1>4 DEF Closed, Leader
  <2>2. A \subseteq D \cup S /\ D \cup S \in SUBSET Items
    OBVIOUS
  <2>3. w \in D \cup S
    BY <1>2, <2>1, <2>2 DEF Reached
  <2> QED
    BY <2>3, <1>2, <1>4
<1> QED
  BY <1>3, <1>4

\* Nothing else leads to y.
LEMMA DetachedReaches ==
    ASSUME NEW L, NEW n, NEW v, NEW c, NEW t, NEW R, NEW A, Sound(L, n, v, c, t, R, A), Reached(L, n, c, R, A),
           NEW p \in L \ R, NEW y \in L, y \notin A, Linked(v, c, p, y),
           NEW n2, n2 = [z \in Items |-> IF z = y THEN NULL ELSE IF z = v[y] THEN n[y] ELSE n[z]],
           NEW c2, c2 = IF c[p] = y THEN [c EXCEPT ![p] = n[y]] ELSE c
    PROVE  Reached(L, n2, c2, R, A \cup {y})
<1> SUFFICES ASSUME NEW D \in SUBSET Items, A \cup {y} \subseteq D, Closed(D, n2, c2, R)
             PROVE  L \subseteq D
  BY DEF Reached
<1> DEFINE w == Leader(v, c, p, y)
<1>1. Typed(L, n, v, c, t, R, A) /\ Neighbours(L, n, v) /\ Owners(L, v, c, R, A)
  BY DEF Sound
<1>2. /\ L \subseteq Items /\ y \in Items /\ y # NULL /\ p \in Items /\ p # NULL /\ NULL \notin Items
      /\ \A z \in Items \ L : n[z] = NULL /\ c[z] = NULL
  BY <1>1, NullAssumption DEF Typed
<1>3. /\ \A z \in Items : n2[z] = IF z = y THEN NULL ELSE IF z = v[y] THEN n[y] ELSE n[z]
      /\ \A z \in Items : c2[z] = IF z = p /\ c[p] = y THEN n[y] ELSE c[z]
  BY <1>1 DEF Typed
<1>4. c[p] = y => v[y] = NULL /\ n[y] # y
  BY <1>1, <1>2 DEF Owners, Neighbours
<1>5. c[p] # y => v[y] \in L /\ v[y] # y /\ n[v[y]] = y
  BY <1>1 DEF Linked, Neighbours
<1>6. \A z \in Items : n[z] = y => z = v[y]
  BY <1>1, <1>2 DEF Neighbours
<1>7. \A z \in Items : z \notin R /\ c[z] = y => z = p /\ c[p] = y
  <2> SUFFICES ASSUME NEW z \in Items, z \notin R, c[z] = y PROVE z = p /\ c[p] = y
    OBVIOUS
  <2>1. z \in L /\ v[y] = NULL
    BY <1>1, <1>2 DEF Owners
  <2>2. c[p] = y
    BY <1>5, <2>1, <1>2
  <2> QED
    BY <1>1, <1>2, <2>1, <2>2 DEF Owners
<1>8. CASE w \in D
  <2>1. Closed(D, n, c, R)
    <3>1. n[y] # NULL => n[y] \in D
      <4>1. CASE c[p] = y
        BY <1>2, <1>3, <1>8, <4>1 DEF Closed, Leader
      <4>2. CASE c[p] # y
        BY <1>2, <1>3, <1>5, <1>8, <4>2 DEF Closed, Leader
      <4> QED
        BY <4>1, <4>2
    <3>2. ASSUME NEW z \in D PROVE n[z] # NULL => n[z] \in D
      BY <1>3, <1>5, <1>4, <1>2, <3>1 DEF Closed
    <3>3. ASSUME NEW z \in D, z \notin R, c[z] # NULL PROVE c[z] \in D
      BY <1>3, <3>3 DEF Closed
    <3> QED
      BY <3>2, <3>3 DEF Closed
  <2> QED
    BY <2>1 DEF Reached
<1>9. CASE w \notin D
  <2>1. Closed(D \ {y}, n, c, R)
    <3>1. ASSUME NEW z \in D \ {y}, n[z] # NULL PROVE n[z] \in D \ {y}
      <4>1. z # v[y]
        BY <1>2, <1>4, <1>9 DEF Leader
      <4> QED
        BY <3>1, <4>1, <1>3, <1>6 DEF Closed
    <3>2. ASSUME NEW z \in D \ {y}, z \notin R, c[z] # NULL PROVE c[z] \in D \ {y}
      <4>1. ~(z = p /\ c[p] = y)
        BY <1>9 DEF Leader
      <4> QED
        BY <3>2, <4>1, <1>3, <1>7 DEF Closed
    <3> QED
      BY <3>1, <3>2 DEF Closed
  <2>2. y \in D \ {y}
    BY <2>1 DEF Reached
  <2> QED
    BY <2>2
<1> QED
  BY <1>8, <1>9

LEMMA ReplacedReaches ==
    ASSUME NEW L, NEW n, NEW v, NEW c, NEW t, NEW R, NEW A, Sound(L, n, v, c, t, R, A), Reached(L, n, c, R, A),
           NEW p \in L \ R, NEW y \in L, y \notin A, Linked(v, c, p, y),
           NEW S \in SUBSET Items, NEW x \in S, x \in A, Closed(S, n, c, R), y \notin S,
           NEW n2, n2 = [z \in Items |-> IF z = y THEN NULL ELSE IF z = x THEN n[y] ELSE IF z = v[y] THEN x ELSE n[z]],
           NEW c2, c2 = IF c[p] = y THEN [c EXCEPT ![p] = x] ELSE c
    PROVE  Reached(L, n2, c2, R, (A \ {x}) \cup {y})
<1> SUFFICES ASSUME NEW D \in SUBSET Items, (A \ {x}) \cup {y} \subseteq D, Closed(D, n2, c2, R)
             PROVE  L \subseteq D
  BY DEF Reached
<1> DEFINE w == Leader(v, c, p, y)
<1>1. Typed(L, n, v, c, t, R, A) /\ Neighbours(L, n, v) /\ Owners(L, v, c, R, A) /\ Alone(n, v, A)
  BY DEF Sound
<1>2. /\ L \subseteq Items /\ y \in Items /\ y # NULL /\ p \in Items /\ p # NULL /\ NULL \notin Items
      /\ x # NULL /\ x \in Items /\ x # y /\ n[x] = NULL
      /\ \A z \in Items \ L : n[z] = NULL /\ c[z] = NULL
  BY <1>1, NullAssumption DEF Typed, Alone
<1>3. /\ \A z \in Items : n2[z] = IF z = y THEN NULL ELSE IF z = x THEN n[y] ELSE IF z = v[y] THEN x ELSE n[z]
      /\ \A z \in Items : c2[z] = IF z = p /\ c[p] = y THEN x ELSE c[z]
  BY <1>1, <1>2 DEF Typed, Pointers
<1>4. c[p] = y => v[y] = NULL
  BY <1>1, <1>2 DEF Owners
<1>5. c[p] # y => v[y] \in L /\ v[y] # y /\ n[v[y]] = y /\ v[y] # x
  BY <1>1, <1>2 DEF Linked, Neighbours
<1>6. \A z \in Items : n[z] = y => z = v[y]
  BY <1>1, <1>2 DEF Neighbours
<1>7. \A z \in Items : z \notin R /\ c[z] = y => z = p /\ c[p] = y
  <2> SUFFICES ASSUME NEW z \in Items, z \notin R, c[z] = y PROVE z = p /\ c[p] = y
    OBVIOUS
  <2>1. z \in L /\ v[y] = NULL
    BY <1>1, <1>2 DEF Owners
  <2>2. c[p] = y
    BY <1>5, <2>1, <1>2
  <2> QED
    BY <1>1, <1>2, <2>1, <2>2 DEF Owners
<1>8. CASE w \in D
  <2>1. x \in D
    BY <1>2, <1>3, <1>4, <1>5, <1>8 DEF Closed, Leader
  <2>2. n[y] # NULL => n[y] \in D
    BY <1>2, <1>3, <2>1 DEF Closed
  <2>3. Closed(D, n, c, R)
    <3>1. ASSUME NEW z \in D, n[z] # NULL PROVE n[z] \in D
      <4>1. CASE z = v[y]
        <5>1. n[z] = y
          BY <1>4, <1>5, <4>1, <1>2
        <5> QED
          BY <5>1
      <4>2. CASE z # v[y]
        BY <3>1, <4>2, <1>2, <1>3, <2>2 DEF Closed
      <4> QED
        BY <4>1, <4>2
    <3>2. ASSUME NEW z \in D, z \notin R, c[z] # NULL PROVE c[z] \in D
      BY <3>2, <1>3 DEF Closed
    <3> QED
      BY <3>1, <3>2 DEF Closed
  <2> QED
    BY <2>1, <2>3 DEF Reached
<1>9. CASE w \notin D
  <2> DEFINE U == (D \ {y}) \cup S
  <2>1. Closed(U, n, c, R)
    <3>1. ASSUME NEW z \in D \ {y}, n[z] # NULL PROVE n[z] \in D \ {y}
      <4>1. z # v[y] /\ z # x
        BY <3>1, <1>2, <1>4, <1>9 DEF Leader
      <4> QED
        BY <3>1, <4>1, <1>3, <1>6 DEF Closed
    <3>2. ASSUME NEW z \in D \ {y}, z \notin R, c[z] # NULL PROVE c[z] \in D \ {y}
      <4>1. ~(z = p /\ c[p] = y)
        BY <1>9 DEF Leader
      <4> QED
        BY <3>2, <4>1, <1>3, <1>7 DEF Closed
    <3> QED
      BY <3>1, <3>2 DEF Closed
  <2>2. A \subseteq U /\ U \in SUBSET Items
    OBVIOUS
  <2>3. y \in U
    BY <2>1, <2>2 DEF Reached
  <2> QED
    BY <2>3
<1> QED
  BY <1>8, <1>9

\* What x owns is freed with it, and nothing else leads to any of it.
LEMMA FreedReaches ==
    ASSUME NEW L, NEW n, n \in [Items -> Pointers], NEW c, c \in [Items -> Pointers], NEW A,
           Reached(L, n, c, reference, A), NEW x \in Items, NEW D, D = Owned(n, c, x),
           NEW n2, n2 = [z \in Items |-> IF z \in D THEN NULL ELSE n[z]],
           NEW c2, c2 = [z \in Items |-> IF z \in D THEN NULL ELSE c[z]]
    PROVE  Reached(L \ D, n2, c2, reference \ D, A \ {x})
<1> SUFFICES ASSUME NEW E \in SUBSET Items, A \ {x} \subseteq E, Closed(E, n2, c2, reference \ D)
             PROVE  L \ D \subseteq E
  BY DEF Reached
<1>1. x \in D /\ D \subseteq Items /\ Closed(D, n, c, reference)
  BY OwnedClosed DEF Closed
<1>2. \A z \in Items : z \notin D => n2[z] = n[z] /\ c2[z] = c[z]
  OBVIOUS
<1>3. Closed(E \cup D, n, c, reference)
  <2>1. ASSUME NEW z \in E \ D, n[z] # NULL PROVE n[z] \in E
    BY <1>2, <2>1 DEF Closed
  <2>2. ASSUME NEW z \in E \ D, z \notin reference, c[z] # NULL PROVE c[z] \in E
    BY <1>2, <2>2 DEF Closed
  <2> QED
    BY <1>1, <2>1, <2>2 DEF Closed
<1>4. A \subseteq E \cup D /\ E \cup D \in SUBSET Items
  BY <1>1
<1>5. L \subseteq E \cup D
  BY <1>3, <1>4 DEF Reached
<1> QED
  BY <1>5

\* The elements of an array are reached one after the other.
LEMMA ArrayReaches ==
    ASSUME NEW L, NEW n, NEW v, NEW c, NEW t, NEW R, NEW A, Typed(L, n, v, c, t, R, A), Reached(L, n, c, R, A),
           NEW m, NEW s, NEW E, NEW n2, NEW v2, NEW c2, NEW t2,
           MakesArray(L, s, m, E, n, v, c, t, n2, v2, c2, t2)
    PROVE  Reached((L \cup {s[1]}) \cup E, n2, c2, R, A \cup {s[1]})
<1> SUFFICES ASSUME NEW D \in SUBSET Items, A \cup {s[1]} \subseteq D, Closed(D, n2, c2, R)
             PROVE  (L \cup {s[1]}) \cup E \subseteq D
  BY DEF Reached
<1>1. /\ m \in Nat /\ m > 0 /\ \A i \in 1..m : s[i] \in Items \ L
      /\ E = {s[i] : i \in 2..m} /\ R \subseteq L /\ A \subseteq L
  BY DEF MakesArray, Typed
<1>2. /\ \A i \in 2..m : n2[s[i]] = IF i < m THEN s[i + 1] ELSE NULL
      /\ \A z \in Items \ E : n2[z] = n[z]
      /\ c2[s[1]] = IF m > 1 THEN s[2] ELSE NULL
      /\ \A z \in Items : z # s[1] => c2[z] = c[z]
  BY DEF MakesArray
<1>3. \A z \in Items \ L : n[z] = NULL /\ c[z] = NULL
  BY DEF Typed
<1>4. Closed(D, n, c, R)
  <2>1. ASSUME NEW z \in D, n[z] # NULL PROVE n[z] \in D
    <3>1. z \notin E
      BY <1>1, <1>3, <2>1
    <3> QED
      BY <1>2, <2>1, <3>1 DEF Closed
  <2>2. ASSUME NEW z \in D, z \notin R, c[z] # NULL PROVE c[z] \in D
    <3>1. z # s[1]
      BY <1>1, <1>3, <2>2
    <3> QED
      BY <1>2, <2>2, <3>1 DEF Closed
  <2> QED
    BY <2>1, <2>2 DEF Closed
<1>5. L \subseteq D
  BY <1>4 DEF Reached
<1> DEFINE T == {i \in 2..m : s[i] \notin D}
<1>6. CASE T = {}
  BY <1>1, <1>5, <1>6
<1>7. CASE T # {}
  <2>1. PICK k \in T : \A i \in T : k <= i
    <3>1. T \subseteq Nat
      BY <1>1
    <3> HIDE DEF T
    <3> QED
      BY <3>1, <1>7, Least
  <2>2. k \in 2..m /\ s[k] \notin D /\ k \in Nat /\ s[k] # NULL
    BY <1>1, NullAssumption
  <2>3. CASE k = 2
    <3>1. c2[s[1]] = s[2] /\ s[1] \notin R
      BY <1>1, <1>2, <2>2, <2>3
    <3> QED
      BY <2>2, <2>3, <3>1 DEF Closed
  <2>4. CASE k > 2
    <3>1. k - 1 \in 2..m /\ k - 1 \notin T
      BY <1>1, <2>1, <2>2, <2>4
    <3>2. s[k - 1] \in D
      BY <3>1
    <3>3. n2[s[k - 1]] = s[k]
      BY <1>1, <1>2, <2>2, <3>1
    <3> QED
      BY <2>2, <3>2, <3>3 DEF Closed
  <2> QED
    BY <1>1, <2>2, <2>3, <2>4
<1> QED
  BY <1>6, <1>7

\* All of K is reached from x, by its child and by the pointers of others.
FromOne(K, n, c, x) ==
    \A S \in SUBSET K :
        /\ x \in S
        /\ c[x] \in K => c[x] \in S
        /\ \A z \in S \ {x} : (n[z] \in K => n[z] \in S) /\ (c[z] \in K => c[z] \in S)
        => K \subseteq S

\* What is copied is reached from x, by steps that do not lead back to it.
LEMMA CopyReaches ==
    ASSUME NEW L, NEW n, NEW v, NEW c, NEW t, NEW R, NEW A, Typed(L, n, v, c, t, R, A), Reached(L, n, c, R, A),
           NEW x, NEW K, NEW f, NEW F, NEW n2, NEW v2, NEW c2, NEW t2,
           MakesCopy(L, x, K, f, F, n, v, c, t, n2, v2, c2, t2),
           FromOne(K, n, c, x)
    PROVE  Reached(L \cup F, n2, c2, R, A \cup {f[x]})
<1> SUFFICES ASSUME NEW D \in SUBSET Items, A \cup {f[x]} \subseteq D, Closed(D, n2, c2, R)
             PROVE  L \cup F \subseteq D
  BY DEF Reached
<1>1. /\ K \subseteq L /\ x \in K /\ f \in [K -> Items \ L] /\ F = {f[z] : z \in K}
      /\ L \subseteq Items /\ R \subseteq L /\ NULL \notin Items
  BY NullAssumption DEF MakesCopy, Typed
<1>2. /\ \A z \in K \ {x} : n2[f[z]] = IF n[z] \in K THEN f[n[z]] ELSE NULL
      /\ \A z \in K : c2[f[z]] = IF c[z] \in K THEN f[c[z]] ELSE NULL
      /\ \A z \in Items \ F : n2[z] = n[z] /\ c2[z] = c[z]
  BY DEF MakesCopy
<1>3. \A z \in F : n[z] = NULL /\ c[z] = NULL
  BY <1>1 DEF Typed
<1>4. Closed(D, n, c, R)
  BY <1>2, <1>3 DEF Closed
<1>5. L \subseteq D
  BY <1>4 DEF Reached
<1> DEFINE S == {z \in K : f[z] \in D}
<1>6. \A z \in K : f[z] \in Items /\ f[z] \notin L /\ f[z] # NULL /\ f[z] \notin R
  BY <1>1
<1>7. x \in S
  BY <1>1
<1>8. \A z \in S : c[z] \in K => c[z] \in S
  BY <1>2, <1>6 DEF Closed
<1>9. \A z \in S \ {x} : n[z] \in K => n[z] \in S
  BY <1>2, <1>6 DEF Closed
<1>10. S \in SUBSET K
  OBVIOUS
<1> HIDE DEF S
<1>11. K \subseteq S
  BY <1>7, <1>8, <1>9, <1>10 DEF FromOne
<1> QED
  BY <1>1, <1>5, <1>11 DEF S

-----------------------------------------------------------------------------
(* The functions *)

LossInv == Reached(live, next, child, reference, Apart)

LInv == Inv /\ LossInv

\* What an item shows is closed.
LEMMA SeenClosed ==
    ASSUME Inv, NEW x \in Items
    PROVE  /\ x \in Seen(x) /\ Seen(x) \subseteq Items
           /\ \A z \in Seen(x) : (next[z] # NULL => next[z] \in Seen(x)) /\ (child[z] # NULL => child[z] \in Seen(x))
<1> DEFINE C(S) == /\ x \in S
                   /\ \A z \in S : next[z] # NULL => next[z] \in S
                   /\ \A z \in S : child[z] # NULL => child[z] \in S
<1>1. Seen(x) = {y \in Items : \A S \in SUBSET Items : C(S) => y \in S}
  BY DEF Seen
<1>2. \A z \in Items : (next[z] # NULL => next[z] \in Items) /\ (child[z] # NULL => child[z] \in Items)
  BY HeapTypes DEF Pointers
<1>3. x \in Seen(x) /\ Seen(x) \subseteq Items
  BY <1>1
<1>4. ASSUME NEW z \in Seen(x), next[z] # NULL PROVE next[z] \in Seen(x)
  <2>1. next[z] \in Items
    BY <1>2, <1>3, <1>4
  <2>2. ASSUME NEW S \in SUBSET Items, C(S) PROVE next[z] \in S
    <3>1. z \in S
      BY <1>1, <2>2
    <3> QED
      BY <1>4, <2>2, <3>1
  <2> QED
    BY <1>1, <2>1, <2>2
<1>5. ASSUME NEW z \in Seen(x), child[z] # NULL PROVE child[z] \in Seen(x)
  <2>1. child[z] \in Items
    BY <1>2, <1>3, <1>5
  <2>2. ASSUME NEW S \in SUBSET Items, C(S) PROVE child[z] \in S
    <3>1. z \in S
      BY <1>1, <2>2
    <3> QED
      BY <1>5, <2>2, <3>1
  <2> QED
    BY <1>1, <2>1, <2>2
<1> QED
  BY <1>3, <1>4, <1>5

\* AppendTo gives the list of p an item that neither shows p nor any of its
\* elements.
LEMMA AppendReaches ==
    ASSUME Inv, NEW L, L \subseteq Items, NEW c, c \in [Items -> Pointers], NEW R, NEW A, Reached(L, next, c, R, A),
           NEW p \in L, p \notin R, c[p] = child[p], Elements(p) \subseteq L,
           NEW S \in SUBSET Items, NEW x \in S, Closed(S, next, c, R), ({p} \cup Elements(p)) \cap S = {},
           AppendTo(p, x, c)
    PROVE  Reached(L, next', child', R, A \ {x})
<1>1. CASE child[p] = NULL
  <2>1. c[p] = NULL /\ child' = [c EXCEPT ![p] = x] /\ next' = next
    BY <1>1 DEF AppendTo
  <2>2. p \in L \ S
    OBVIOUS
  <2> QED
    BY <2>1, <2>2, AttachFirstReaches
<1>2. CASE child[p] # NULL
  <2>1. child' = c
    BY <1>2 DEF AppendTo
  <2>2. PICK last \in Elements(p) : next[last] = NULL /\ next' = [next EXCEPT ![last] = x]
    BY <1>2 DEF AppendTo
  <2>3. last \in L \ S
    BY <2>2
  <2> QED
    BY <2>1, <2>2, <2>3, HeapTypes, AttachLastReaches
<1> QED
  BY <1>1, <1>2

\* The elements of a container are allocated.
LEMMA ElementsAreLive ==
    ASSUME Inv, NEW p \in Containers
    PROVE  Elements(p) \subseteq live /\ p \in live /\ p \notin reference
  BY ElementOf DEF Containers

LEMMA CreateReaches ==
    ASSUME LInv, NEW x \in Items, Create(x)
    PROVE  LossInv'
<1>1. /\ x \in Items \ live /\ live' = live \cup {x} /\ Apart' = Apart \cup {x}
      /\ next' = next /\ child' = child /\ reference' = reference /\ child[x] = NULL
  BY HeapTypes DEF Create, LInv, Apart
<1> QED
  BY <1>1, BirthReaches DEF LInv, LossInv

LEMMA CreateReferenceReaches ==
    ASSUME LInv, NEW x \in Items, NEW d \in live, CreateReference(x, d) \/ (\E y \in live : AddReferenceFails(y, x))
    PROVE  LossInv'
<1>1. /\ x \in Items \ live /\ live' = live \cup {x} /\ Apart' = Apart \cup {x}
      /\ next' = next /\ reference' = reference \cup {x} /\ child[x] = NULL
  BY HeapTypes DEF CreateReference, AddReferenceFails, create_reference, LInv, Apart
<1>2. \A z \in Items : z # x => child'[z] = child[z]
  BY HeapTypes DEF CreateReference, AddReferenceFails, LInv
<1> QED
  BY <1>1, <1>2, BirthReaches DEF LInv, LossInv

LEMMA AddReaches ==
    ASSUME LInv, NEW p \in Containers, NEW x \in held,
           AddItemToArray(p, x) \/ (\E k \in Keys : AddItemToObject(p, k, x))
    PROVE  LossInv'
<1>1. /\ AppendTo(p, x, child) /\ Fits(p, x) /\ held' = held \ {x} /\ leaked' = leaked
      /\ live' = live /\ reference' = reference
  BY DEF AddItemToArray, AddItemToObject
<1>2. Apart' = Apart \ {x}
  BY <1>1, HandOver DEF LInv
<1>3. Seen(x) \in SUBSET Items /\ x \in Seen(x) /\ Closed(Seen(x), next, child, reference)
  BY SeenClosed, HeapTypes DEF LInv, Closed
<1>4. ({p} \cup Elements(p)) \cap Seen(x) = {}
  BY <1>1 DEF Fits
<1> QED
  BY <1>1, <1>2, <1>3, <1>4, ElementsAreLive, HeapTypes, AppendReaches DEF LInv, LossInv

LEMMA LoseReaches ==
    ASSUME LInv, NEW x \in held,
           \/ AddItemFails(x)
           \/ \E p \in Containers, k \in Keys, sensitive \in BOOLEAN : ReplaceMissingItem(p, k, x, sensitive)
    PROVE  LossInv'
  BY DEF AddItemFails, ReplaceMissingItem, LInv, LossInv, Apart

LEMMA AddNewReaches ==
    ASSUME LInv, NEW p \in Containers, NEW x \in Items, NEW k, AddNewToObject(p, k, x)
    PROVE  LossInv'
<1>1. /\ x \in Items \ live /\ live' = live \cup {x} /\ held' = held /\ leaked' = leaked
      /\ reference' = reference /\ AppendTo(p, x, child)
  BY DEF AddNewToObject
<1>2. next[x] = NULL /\ child[x] = NULL
  BY <1>1, HeapTypes DEF LInv
<1>3. Reached(live \cup {x}, next, child, reference, Apart \cup {x})
  BY <1>1, <1>2, BirthReaches DEF LInv, LossInv
<1>4. Closed({x}, next, child, reference)
  BY <1>2 DEF Closed
<1>5. ({p} \cup Elements(p)) \cap {x} = {} /\ Elements(p) \subseteq live \cup {x}
  BY <1>1, ElementsAreLive DEF LInv
<1>6. Reached(live \cup {x}, next', child', reference, (Apart \cup {x}) \ {x})
  <2>1. live \cup {x} \subseteq Items /\ p \in live \cup {x} /\ p \notin reference /\ child \in [Items -> Pointers]
    BY ElementsAreLive, HeapTypes DEF LInv
  <2>2. {x} \in SUBSET Items /\ x \in {x} /\ Inv
    BY DEF LInv
  <2> QED
    BY <1>1, <1>3, <1>4, <1>5, <2>1, <2>2, AppendReaches
<1>7. (Apart \cup {x}) \ {x} = Apart /\ Apart' = Apart
  BY <1>1, HeapTypes DEF LInv, Apart
<1> QED
  BY <1>1, <1>6, <1>7 DEF LossInv

LEMMA AddReferenceReaches ==
    ASSUME LInv, NEW p \in Containers, NEW y \in live, NEW x \in Items,
           AddItemReferenceToArray(p, y, x) \/ (\E k \in Keys : AddItemReferenceToObject(p, k, y, x))
    PROVE  LossInv'
<1> DEFINE c == [child EXCEPT ![x] = child[y]]
           R == reference \cup {x}
<1>1. /\ x \in Items \ live /\ live' = live \cup {x} /\ held' = held /\ leaked' = leaked
      /\ reference' = R /\ AppendTo(p, x, c)
  BY DEF AddItemReferenceToArray, AddItemReferenceToObject, create_reference
<1>2. next[x] = NULL /\ child[x] = NULL
  BY <1>1, HeapTypes DEF LInv
<1>3. c \in [Items -> Pointers] /\ \A z \in Items : z # x => c[z] = child[z]
  BY HeapTypes DEF LInv
<1>4. p # x /\ p \in live /\ p \notin R /\ c[p] = child[p] /\ Elements(p) \subseteq live
  BY <1>1, <1>3, ElementsAreLive, HeapTypes DEF LInv
<1>5. x \in R /\ R = reference \cup {x}
  OBVIOUS
<1> HIDE DEF c, R
<1>6. Reached(live \cup {x}, next, c, R, Apart \cup {x})
  BY <1>1, <1>2, <1>3, <1>5, BirthReaches DEF LInv, LossInv
<1>7. Closed({x}, next, c, R)
  BY <1>2, <1>5 DEF Closed
<1>8. Reached(live \cup {x}, next', child', R, (Apart \cup {x}) \ {x})
  <2>1. live \cup {x} \subseteq Items /\ p \in live \cup {x} /\ Elements(p) \subseteq live \cup {x} /\ ({p} \cup Elements(p)) \cap {x} = {}
    BY <1>1, <1>4, HeapTypes DEF LInv
  <2>2. {x} \in SUBSET Items /\ x \in {x} /\ Inv
    BY DEF LInv
  <2> QED
    BY <1>1, <1>3, <1>4, <1>6, <1>7, <2>1, <2>2, AppendReaches
<1>9. (Apart \cup {x}) \ {x} = Apart /\ Apart' = Apart
  BY <1>1, HeapTypes DEF LInv, Apart
<1> QED
  BY <1>1, <1>8, <1>9 DEF LossInv

\* The element before an element is one.
LEMMA BeforeIsElement ==
    ASSUME Inv, NEW p \in Containers, NEW y \in Elements(p), y # child[p]
    PROVE  prev[y] \in Elements(p) /\ next[prev[y]] = y
<1> DEFINE C(S) == child[p] \in S /\ \A z \in S : next[z] # NULL => next[z] \in S
<1>1. child[p] # NULL /\ Elements(p) = {w \in Items : \A S \in SUBSET Items : C(S) => w \in S}
  BY DEF Elements, Chain
<1>2. \A z \in Items : next[z] # NULL => next[z] \in Items /\ prev[next[z]] = z
  BY HeapTypes DEF Inv, HeapSound, Sound, Neighbours
<1>3. child[p] \in Items /\ y \in Items
  BY <1>1, HeapTypes DEF Containers, Pointers
<1> SUFFICES ASSUME \A z \in Elements(p) : next[z] # y PROVE FALSE
  BY <1>2, <1>3, <1>1, NullAssumption
<1> DEFINE S == Elements(p) \ {y}
<1>4. S \in SUBSET Items
  BY <1>1
<1>5. child[p] \in S
  BY <1>1, <1>3
<1>6. ASSUME NEW z \in S, next[z] # NULL PROVE next[z] \in S
  <2>1. next[z] \in Items
    BY <1>2, <1>4, <1>6
  <2>2. ASSUME NEW Q \in SUBSET Items, C(Q) PROVE next[z] \in Q
    <3>1. z \in Q
      BY <1>1, <2>2
    <3> QED
      BY <1>6, <2>2, <3>1
  <2>3. next[z] # y
    OBVIOUS
  <2> QED
    BY <1>1, <2>1, <2>2, <2>3
<1>7. y \in S
  <2>1. C(S)
    BY <1>5, <1>6
  <2> QED
    BY <1>1, <1>4, <2>1
<1> QED
  BY <1>7

LEMMA InsertReaches ==
    ASSUME LInv, NEW p \in Containers, NEW x \in held, NEW y \in Elements(p), InsertItemInArray(p, y, x)
    PROVE  LossInv'
<1>1. /\ next' = [z \in Items |-> IF z = x THEN y ELSE IF y # child[p] /\ z = prev[y] THEN x ELSE next[z]]
      /\ child' = IF y = child[p] THEN [child EXCEPT ![p] = x] ELSE child
      /\ held' = held \ {x} /\ leaked' = leaked /\ live' = live /\ reference' = reference /\ Fits(p, x)
  BY DEF InsertItemInArray
<1>2. x \in Apart /\ Apart' = Apart \ {x}
  BY <1>1, HandOver DEF LInv
<1>3. Seen(x) \in SUBSET Items /\ x \in Seen(x) /\ Closed(Seen(x), next, child, reference)
  BY SeenClosed, HeapTypes DEF LInv, Closed
<1>4. ({p} \cup Elements(p)) \cap Seen(x) = {}
  BY <1>1 DEF Fits
<1>5. next[x] = NULL
  BY <1>2 DEF LInv, Inv, HeapSound, Sound, Alone
<1>6. p \in live \ Seen(x) /\ p \notin reference /\ y \in live /\ x # y
  BY <1>3, <1>4, ElementsAreLive DEF LInv
<1>7. y # child[p] => prev[y] \in live \ Seen(x) /\ next[prev[y]] = y
  BY <1>4, ElementsAreLive, BeforeIsElement DEF LInv
<1>8. live \subseteq Items /\ child \in [Items -> Pointers]
  BY HeapTypes DEF LInv
<1> DEFINE n2 == next'
           c2 == child'
<1>9. GoesBefore(x, p, y, next, prev, child, n2, c2)
  BY <1>1 DEF GoesBefore
<1> HIDE DEF n2, c2
<1>10. Reached(live, next, child, reference, Apart)
  BY DEF LInv, LossInv
<1>11. Reached(live, n2, c2, reference, Apart \ {x})
  BY <1>3, <1>5, <1>6, <1>7, <1>8, <1>9, <1>10, AttachBeforeReaches, SMTT(60)
<1> QED
  BY <1>1, <1>2, <1>11 DEF n2, c2, LossInv

LEMMA DetachReaches ==
    ASSUME LInv, NEW p \in Containers, NEW y \in Elements(p), DetachItemViaPointer(p, y)
    PROVE  LossInv'
<1>1. /\ next' = NextWithout(y) /\ child' = ChildWithout(p, y)
      /\ held' = held \cup {y} /\ leaked' = leaked /\ live' = live /\ reference' = reference
  BY DEF DetachItemViaPointer
<1>2. Reached(live, next', child', reference, Apart \cup {y})
  BY <1>1, ElementOf, DetachedReaches DEF LInv, LossInv, Inv, HeapSound, NextWithout, ChildWithout
<1>3. Apart' = Apart \cup {y}
  BY <1>1 DEF Apart
<1> QED
  BY <1>1, <1>2, <1>3 DEF LossInv

LEMMA DeleteReaches ==
    ASSUME LInv, NEW x \in held, Delete(x)
    PROVE  LossInv'
<1> DEFINE D == Owned(next, child, x)
<1>1. /\ live' = live \ D /\ reference' = reference \ D
      /\ next' = [z \in Items |-> IF z \in D THEN NULL ELSE next[z]]
      /\ child' = [z \in Items |-> IF z \in D THEN NULL ELSE child[z]]
      /\ held' = held \ {x} /\ leaked' = leaked
  BY DEF Delete, Free
<1>2. Apart' = Apart \ {x} /\ x \in Items
  BY <1>1, HandOver, HeapTypes DEF LInv
<1> HIDE DEF D
<1>3. D = Owned(next, child, x)
  BY DEF D
<1>4. Reached(live \ D, next', child', reference \ D, Apart \ {x})
  BY <1>1, <1>2, <1>3, HeapTypes, FreedReaches DEF LInv, LossInv
<1> QED
  BY <1>1, <1>2, <1>4 DEF LossInv

LEMMA DeleteItemReaches ==
    ASSUME LInv, NEW p \in Containers, NEW y \in Elements(p), DeleteItemFrom(p, y)
    PROVE  LossInv'
<1> DEFINE n == NextWithout(y)
           c == ChildWithout(p, y)
           D == Owned(n, c, y)
<1>1. /\ live' = live \ D /\ reference' = reference \ D
      /\ next' = [z \in Items |-> IF z \in D THEN NULL ELSE n[z]]
      /\ child' = [z \in Items |-> IF z \in D THEN NULL ELSE c[z]]
      /\ held' = held /\ leaked' = leaked
  BY DEF DeleteItemFrom, Free
<1>2. Reached(live, n, c, reference, Apart \cup {y})
  BY ElementOf, DetachedReaches DEF LInv, LossInv, Inv, HeapSound, NextWithout, ChildWithout
<1>3. n \in [Items -> Pointers] /\ c \in [Items -> Pointers] /\ y \in Items
  BY ElementsAreLive, HeapTypes DEF LInv, NextWithout, ChildWithout, Pointers
<1>4. (Apart \cup {y}) \ {y} = Apart /\ Apart' = Apart
  BY <1>1, ElementOf DEF Apart, LInv
<1> HIDE DEF n, c, D
<1>5. D = Owned(n, c, y)
  BY DEF D
<1>6. Reached(live \ D, next', child', reference \ D, (Apart \cup {y}) \ {y})
  BY <1>1, <1>2, <1>3, <1>5, FreedReaches
<1> QED
  BY <1>1, <1>4, <1>6 DEF LossInv

LEMMA ReplaceReaches ==
    ASSUME LInv, NEW p \in Containers, NEW y \in Elements(p), NEW x \in held, NEW s,
           ReplaceItemViaPointer(p, y, x, s), leaked' = leaked
    PROVE  LossInv'
<1> DEFINE n == NextWith(y, x)
           c == ChildWith(p, y, x)
           D == Owned(n, c, y)
<1>1. /\ live' = live \ D /\ reference' = reference \ D
      /\ next' = [z \in Items |-> IF z \in D THEN NULL ELSE n[z]]
      /\ child' = [z \in Items |-> IF z \in D THEN NULL ELSE c[z]]
      /\ held' = held \ {x} /\ Fits(p, x)
  BY DEF ReplaceItemViaPointer, Free
<1>2. x \in Apart /\ Apart' = Apart \ {x}
  BY <1>1, HandOver DEF LInv
<1>3. Seen(x) \in SUBSET Items /\ x \in Seen(x) /\ Closed(Seen(x), next, child, reference)
  BY SeenClosed, HeapTypes DEF LInv, Closed
<1>4. y \notin Seen(x)
  BY <1>1 DEF Fits
<1>5. p \in live \ reference /\ y \in live /\ y \notin Apart /\ Linked(prev, child, p, y)
  BY ElementOf DEF LInv
<1>6. /\ n = [z \in Items |-> IF z = y THEN NULL ELSE IF z = x THEN next[y] ELSE IF z = prev[y] THEN x ELSE next[z]]
      /\ c = IF child[p] = y THEN [child EXCEPT ![p] = x] ELSE child
  BY DEF NextWith, ChildWith
<1>7. n \in [Items -> Pointers] /\ c \in [Items -> Pointers] /\ y \in Items
  BY <1>5, <1>6, HeapTypes DEF LInv, Pointers
<1> HIDE DEF n, c, D
<1>8. Reached(live, n, c, reference, (Apart \ {x}) \cup {y})
  BY <1>2, <1>3, <1>4, <1>5, <1>6, ReplacedReaches DEF LInv, LossInv, Inv, HeapSound
<1>9. D = Owned(n, c, y)
  BY DEF D
<1>10. Reached(live \ D, next', child', reference \ D, ((Apart \ {x}) \cup {y}) \ {y})
  BY <1>1, <1>7, <1>8, <1>9, FreedReaches
<1>11. ((Apart \ {x}) \cup {y}) \ {y} = Apart \ {x}
  BY <1>5
<1> QED
  BY <1>1, <1>2, <1>10, <1>11 DEF LossInv

LEMMA CreateArrayReaches ==
    ASSUME LInv, NEW m \in Nat, NEW s \in FreshLists(m + 1), NEW strings, CreateArrayOf(s, strings)
    PROVE  LossInv'
<1> DEFINE E == {s[i] : i \in 2..m + 1}
<1> HIDE DEF E
<1>1. /\ MakesArray(live, s, m + 1, E, next, prev, child, text, next', prev', child', text')
      /\ live' = (live \cup {s[1]}) \cup E /\ reference' = reference
      /\ Apart' = Apart \cup {s[1]}
  BY CreatedArray DEF E, LInv
<1>2. Reached((live \cup {s[1]}) \cup E, next', child', reference, Apart \cup {s[1]})
  BY <1>1, ArrayReaches DEF LInv, LossInv, Inv, HeapSound, Sound
<1> QED
  BY <1>1, <1>2 DEF LossInv

\* All that is copied is reached from x without coming back to it.
LEMMA CopiedIsReached ==
    ASSUME Inv, NEW x \in live, NEW recurse, NEW K, K = CopiedFrom(x, recurse), Unshared(K, x),
           NEW S \in SUBSET K, x \in S, child[x] \in K => child[x] \in S,
           \A z \in S \ {x} : (next[z] \in K => next[z] \in S) /\ (child[z] \in K => child[z] \in S)
    PROVE  K \subseteq S
<1>1. CASE K = {x}
  BY <1>1
<1>2. CASE child[x] # NULL /\ K = {x} \cup Seen(child[x])
  <2>1. child[x] \in Items
    BY <1>2, HeapTypes DEF Pointers
  <2>2. /\ child[x] \in Seen(child[x]) /\ Seen(child[x]) \subseteq Items
        /\ \A z \in Seen(child[x]) : /\ next[z] # NULL => next[z] \in Seen(child[x])
                                     /\ child[z] # NULL => child[z] \in Seen(child[x])
    BY <2>1, SeenClosed
  <2>3. \A w \in K : child[w] # x /\ (w # x => next[w] # x)
    BY DEF Unshared
  <2> DEFINE U == (S \cap Seen(child[x])) \ {x}
  <2>4. U \in SUBSET Items /\ child[x] \in U
    BY <1>2, <2>2, <2>3
  <2>5. \A z \in U : next[z] # NULL => next[z] \in U
    BY <1>2, <2>2, <2>3
  <2>6. \A z \in U : child[z] # NULL => child[z] \in U
    BY <1>2, <2>2, <2>3
  <2> HIDE DEF U
  <2>7. Seen(child[x]) \subseteq U
    BY <2>4, <2>5, <2>6 DEF Seen
  <2> QED
    BY <1>2, <2>7 DEF U
<1> QED
  BY <1>1, <1>2 DEF CopiedFrom

LEMMA DuplicateReaches ==
    ASSUME LInv, NEW x \in live, NEW recurse, NEW K, K = CopiedFrom(x, recurse),
           NEW f \in [K -> Items \ live], Duplicate(x, K, f)
    PROVE  LossInv'
<1> DEFINE F == {f[z] : z \in K}
<1> HIDE DEF F
<1>1. K \subseteq live /\ x \in K
  BY CopiedIsLive DEF LInv
<1>2. /\ MakesCopy(live, x, K, f, F, next, prev, child, text, next', prev', child', text')
      /\ live' = live \cup F /\ reference' = reference /\ Apart' = Apart \cup {f[x]}
  BY <1>1, CreatedCopy DEF F, LInv
<1>3. Unshared(K, x)
  BY DEF Duplicate
<1>4. FromOne(K, next, child, x)
  BY <1>3, CopiedIsReached DEF LInv, FromOne
<1>5. Typed(live, next, prev, child, text, reference, Apart) /\ Reached(live, next, child, reference, Apart)
  BY DEF LInv, LossInv, Inv, HeapSound, Sound
<1>6. Reached(live \cup F, next', child', reference, Apart \cup {f[x]})
  BY <1>2, <1>4, <1>5, CopyReaches
<1> QED
  BY <1>2, <1>6 DEF LossInv

-----------------------------------------------------------------------------
LEMMA InitReaches ==
    ASSUME Init
    PROVE  LInv
  BY InitInv DEF Init, LInv, LossInv, Reached

LEMMA NextReaches ==
    ASSUME LInv, [Next]_vars
    PROVE  LInv'
<1> SUFFICES LossInv'
  BY NextInv DEF LInv
<1>1. CASE UNCHANGED vars
  BY <1>1 DEF vars, LInv, LossInv, Apart
<1>2. CASE CreateAny
  <2>1. MaxCount \in Nat /\ \A n \in 0..MaxCount : n \in Nat
    BY BoundsAssumption
  <2> QED
    BY <1>2, <2>1, CreateReaches, CreateReferenceReaches, CreateArrayReaches DEF CreateAny
<1>3. CASE AddAny
  <2>1. CASE \E p \in Containers, x \in held : AddItemToArray(p, x) \/ (\E k \in Keys : AddItemToObject(p, k, x))
    BY <2>1, AddReaches
  <2>2. CASE \E p \in Containers, x \in held : \E y \in Elements(p) : InsertItemInArray(p, y, x)
    BY <2>2, InsertReaches
  <2>3. CASE \E x \in held : AddItemFails(x)
    BY <2>3, LoseReaches
  <2>4. CASE \E p \in Containers, x \in Items, k \in Keys : AddNewToObject(p, k, x)
    BY <2>4, AddNewReaches
  <2>5. CASE \E p \in Containers, y \in live, x \in Items :
                AddItemReferenceToArray(p, y, x) \/ (\E k \in Keys : AddItemReferenceToObject(p, k, y, x))
    BY <2>5, AddReferenceReaches
  <2>6. CASE \E y \in live, x \in Items : AddReferenceFails(y, x)
    BY <2>6, CreateReferenceReaches
  <2> QED
    BY <1>3, <2>1, <2>2, <2>3, <2>4, <2>5, <2>6 DEF AddAny
<1>4. CASE RemoveAny
  <2>1. CASE \E p \in Containers : \E y \in Elements(p) : DetachItemViaPointer(p, y) \/ DeleteItemFrom(p, y)
    BY <2>1, DetachReaches, DeleteItemReaches
  <2>2. CASE \E x \in held : Delete(x)
    BY <2>2, DeleteReaches
  <2>3. CASE \E p \in Containers, x \in held : \E y \in Elements(p) : ReplaceItemInArray(p, y, x)
    <3>1. PICK p \in Containers, x \in held : \E y \in Elements(p) : ReplaceItemInArray(p, y, x)
      BY <2>3
    <3>2. PICK y \in Elements(p) : ReplaceItemInArray(p, y, x)
      BY <3>1
    <3> QED
      BY <3>2, ReplaceReaches DEF ReplaceItemInArray
  <2>4. CASE \E p \in Containers, x \in held, k \in Keys, sensitive \in BOOLEAN :
                \E y \in Elements(p) : ReplaceItemInObject(p, k, y, x, sensitive)
    <3>0. PICK p \in Containers, x \in held, k \in Keys, sensitive \in BOOLEAN :
              \E y \in Elements(p) : ReplaceItemInObject(p, k, y, x, sensitive)
      BY <2>4
    <3>1. PICK y \in Elements(p) : ReplaceItemInObject(p, k, y, x, sensitive)
      BY <3>0
    <3>2. PICK name \in {k, NULL} : ReplaceItemViaPointer(p, y, x, [key EXCEPT ![x] = name])
      BY <3>1 DEF ReplaceItemInObject
    <3>3. leaked' = leaked
      BY <3>1 DEF ReplaceItemInObject
    <3> QED
      BY <3>2, <3>3, ReplaceReaches
  <2>5. CASE \E p \in Containers, x \in held, k \in Keys, sensitive \in BOOLEAN : ReplaceMissingItem(p, k, x, sensitive)
    BY <2>5, LoseReaches
  <2> QED
    BY <1>4, <2>1, <2>2, <2>3, <2>4, <2>5 DEF RemoveAny
<1>5. CASE CopyAny
  <2>1. PICK x \in live, recurse \in BOOLEAN :
            \E f \in [CopiedFrom(x, recurse) -> Items \ live] : Duplicate(x, CopiedFrom(x, recurse), f)
    BY <1>5 DEF CopyAny
  <2> QED
    BY <2>1, DuplicateReaches
<1> QED
  BY <1>1, <1>2, <1>3, <1>4, <1>5 DEF Next

\* For any number of items and any sequence of calls: when the application
\* deletes what it holds, all that is allocated is freed but for the items
\* lost in cJSON_AddItemToObject, cJSON_AddItemReferenceToObject and
\* replace_item_in_object (cJSON.c:224-245, 1909-1975, 2085-2257, 2564-2641).
THEOREM NothingIsLost == Spec => []NothingLost
<1>1. Init => LInv
  BY InitReaches
<1>2. LInv /\ [Next]_vars => LInv'
  BY NextReaches
<1>3. LInv => NothingLost
  <2> SUFFICES ASSUME LInv PROVE NothingLost
    OBVIOUS
  <2> DEFINE D == UNION {Owned(next, child, x) : x \in Apart}
  <2>1. \A x \in Apart : /\ x \in Owned(next, child, x) /\ Owned(next, child, x) \subseteq Items
                         /\ Closed(Owned(next, child, x), next, child, reference)
    BY HeapTypes, OwnedClosed DEF LInv, Closed, Apart
  <2>2. D \in SUBSET Items /\ Apart \subseteq D
    BY <2>1
  <2>3. Closed(D, next, child, reference)
    BY <2>1 DEF Closed
  <2>4. live \subseteq D
    BY <2>2, <2>3 DEF LInv, LossInv, Reached
  <2> QED
    BY <2>4 DEF NothingLost, Deletable, Apart
<1> QED
  BY <1>1, <1>2, <1>3, PTL DEF Spec

-----------------------------------------------------------------------------
(***************************************************************************)
(* The tree functions do what JsonForest says: each step of CJson is one   *)
(* of the forest, whose sequences of elements are the lists a walk along   *)
(* next finds.  That a walk ends follows from NoCircle, which speaks of    *)
(* sets of items; what the functions do to a list is then stated for       *)
(* sequences.                                                              *)
(***************************************************************************)

\* Every set of items has one whose next is not in it.
NoCircle(n) == \A S \in SUBSET Items : S # {} => \E x \in S : n[x] \notin S

List(s, n, x) == s \in Seq(Items) /\ IsList(s, n, x)

\* k are the elements of each item, in a heap n, c, R.
Shows(k, n, c, R) ==
    /\ k \in [Items -> Seq(Items)]
    /\ \A p \in Items : p \in R => k[p] = <<>>
    /\ \A p \in Items : p \notin R => IsList(k[p], n, c[p])

LEMMA ListOfNothing ==
    ASSUME NEW n
    PROVE  List(<<>>, n, NULL)
  BY DEF List, IsList

\* The list of an item is the item and the list of the next one.
LEMMA ListLonger ==
    ASSUME NEW n, NEW x \in Items, NEW s, List(s, n, n[x])
    PROVE  List(<<x>> \o s, n, x)
<1> DEFINE u == <<x>> \o s
<1>1. s \in Seq(Items) /\ x # NULL
  BY NullAssumption DEF List
<1>2. u \in Seq(Items) /\ Len(u) = Len(s) + 1 /\ u[1] = x /\ u # <<>>
  BY <1>1
<1>3. \A i \in 2..Len(u) : u[i] = s[i - 1]
  BY <1>1
<1>4. DOMAIN u = 1..Len(u) /\ DOMAIN s = 1..Len(s) /\ Len(s) \in Nat
  BY <1>1, <1>2
<1> HIDE DEF u
<1>5. ASSUME NEW i \in DOMAIN u PROVE n[u[i]] = IF i = Len(u) THEN NULL ELSE u[i + 1]
  <2>1. CASE i = 1
    <3>1. CASE n[x] = NULL
      BY <3>1, <2>1, <1>2 DEF List, IsList
    <3>2. CASE n[x] # NULL
      <4>1. s # <<>> /\ s[1] = n[x]
        BY <3>2 DEF List, IsList
      <4>2. Len(s) > 0
        BY <4>1, <1>1
      <4>3. u[2] = s[1]
        BY <4>2, <1>2, <1>3, <1>4
      <4> QED
        BY <2>1, <4>1, <4>2, <4>3, <1>2
    <3> QED
      BY <3>1, <3>2
  <2>2. CASE i # 1
    <3>1. i - 1 \in DOMAIN s /\ i \in 2..Len(u) /\ (i # Len(u) => i + 1 \in 2..Len(u))
      BY <2>2, <1>2, <1>4
    <3>2. n[s[i - 1]] = IF i - 1 = Len(s) THEN NULL ELSE s[(i - 1) + 1]
      BY <3>1 DEF List, IsList
    <3>3. u[i] = s[i - 1] /\ (i # Len(u) => u[i + 1] = s[(i - 1) + 1])
      <4>1. ASSUME i # Len(u) PROVE u[i + 1] = s[(i + 1) - 1] /\ (i + 1) - 1 = (i - 1) + 1
        BY <3>1, <4>1, <1>3, <1>4
      <4> QED
        BY <3>1, <4>1, <1>3
    <3> QED
      BY <3>1, <3>2, <3>3, <1>2, <1>4
  <2> QED
    BY <2>1, <2>2
<1>6. List(u, n, x)
  BY <1>1, <1>2, <1>5 DEF List, IsList
<1> QED
  BY <1>6 DEF u

\* And shorter by the first.
LEMMA ListShorter ==
    ASSUME NEW n, NEW x \in Items, NEW s, List(s, n, x)
    PROVE  /\ s # <<>> /\ Head(s) = x /\ s = <<x>> \o Tail(s)
           /\ List(Tail(s), n, n[x])
<1> DEFINE u == Tail(s)
<1>1. s \in Seq(Items) /\ x # NULL /\ s # <<>> /\ s[1] = x
  BY NullAssumption DEF List, IsList
<1>2. u \in Seq(Items) /\ Len(u) = Len(s) - 1 /\ Head(s) = x /\ s = <<x>> \o u /\ Len(s) \in Nat /\ Len(s) > 0
  BY <1>1
<1>3. \A i \in 1..Len(u) : u[i] = s[i + 1]
  BY <1>1
<1>4. DOMAIN u = 1..Len(u) /\ DOMAIN s = 1..Len(s)
  BY <1>1, <1>2
<1> HIDE DEF u
<1>5. \A i \in DOMAIN s : n[s[i]] = IF i = Len(s) THEN NULL ELSE s[i + 1]
  BY DEF List, IsList
<1>6. n[x] = NULL => u = <<>>
  <2>1. ASSUME n[x] = NULL, Len(s) # 1 PROVE FALSE
    <3>0. 1 \in DOMAIN s /\ 1 # Len(s) /\ 1 + 1 = 2 /\ 2 \in 1..Len(s)
      BY <2>1, <1>2, <1>4
    <3>1. s[2] = NULL
      BY <2>1, <3>0, <1>1, <1>5
    <3>2. s[2] \in Items
      BY <3>0, <1>1
    <3> QED
      BY <3>1, <3>2, NullAssumption
  <2> QED
    BY <2>1, <1>2
<1>7. n[x] # NULL => u # <<>> /\ u[1] = n[x]
  <2>1. ASSUME n[x] # NULL PROVE Len(s) # 1 /\ s[1 + 1] = n[x]
    <3>1. 1 \in DOMAIN s
      BY <1>2, <1>4
    <3> QED
      BY <2>1, <3>1, <1>1, <1>5
  <2> QED
    BY <2>1, <1>2, <1>3
<1>8. ASSUME NEW i \in DOMAIN u PROVE n[u[i]] = IF i = Len(u) THEN NULL ELSE u[i + 1]
  <2>1. i + 1 \in DOMAIN s /\ i \in 1..Len(u) /\ (i # Len(u) => i + 1 \in 1..Len(u)) /\ (i = Len(u) <=> i + 1 = Len(s))
    BY <1>2, <1>4
  <2> QED
    BY <2>1, <1>3, <1>5
<1>9. List(u, n, n[x])
  BY <1>2, <1>6, <1>7, <1>8 DEF List, IsList
<1> QED
  BY <1>1, <1>2, <1>9 DEF u

\* Without a circle every walk ends.
LEMMA WalksEnd ==
    ASSUME NEW n \in [Items -> Pointers], NoCircle(n), NEW x \in Pointers
    PROVE  \E s : List(s, n, x)
<1> DEFINE S == {y \in Items : \A s : ~List(s, n, y)}
<1>1. S = {}
  <2> SUFFICES ASSUME S # {} PROVE FALSE
    OBVIOUS
  <2>1. PICK y \in S : n[y] \notin S
    BY DEF NoCircle
  <2>2. y \in Items /\ n[y] \in Pointers
    BY <2>1
  <2>3. \E s : List(s, n, n[y])
    BY <2>1, <2>2, ListOfNothing DEF Pointers
  <2>4. PICK s : List(s, n, n[y])
    BY <2>3
  <2> QED
    BY <2>1, <2>2, <2>4, ListLonger
<1> QED
  BY <1>1, ListOfNothing DEF Pointers

\* And in one way only.
LEMMA OneList ==
    ASSUME NEW n \in [Items -> Pointers], NoCircle(n), NEW x \in Pointers, NEW s, List(s, n, x), NEW t, List(t, n, x)
    PROVE  s = t
<1> DEFINE S == {y \in Items : \E q, r : List(q, n, y) /\ List(r, n, y) /\ q # r}
<1>1. S = {}
  <2> SUFFICES ASSUME S # {} PROVE FALSE
    OBVIOUS
  <2>1. PICK y \in S : n[y] \notin S
    BY DEF NoCircle
  <2>2. PICK q, r : List(q, n, y) /\ List(r, n, y) /\ q # r
    BY <2>1
  <2>3. y \in Items /\ n[y] \in Pointers
    BY <2>1
  <2>4. /\ List(Tail(q), n, n[y]) /\ List(Tail(r), n, n[y])
        /\ q = <<y>> \o Tail(q) /\ r = <<y>> \o Tail(r)
    BY <2>2, <2>3, ListShorter
  <2>5. CASE n[y] = NULL
    BY <2>2, <2>4, <2>5 DEF List, IsList
  <2>6. CASE n[y] # NULL
    <3>1. n[y] \in Items
      BY <2>3, <2>6 DEF Pointers
    <3> QED
      BY <2>1, <2>2, <2>4, <3>1
  <2> QED
    BY <2>5, <2>6
<1>2. CASE x = NULL
  BY <1>2 DEF List, IsList
<1>3. CASE x # NULL
  <2>1. x \in Items
    BY <1>3 DEF Pointers
  <2> QED
    BY <2>1, <1>1
<1> QED
  BY <1>2, <1>3

\* A list stays in every set that next does not leave.
LEMMA ListInside ==
    ASSUME NEW n, NEW x, NEW s, List(s, n, x), NEW S, x # NULL => x \in S,
           \A z \in S : n[z] # NULL => n[z] \in S
    PROVE  ToSet(s) \subseteq S
<1>1. s \in Seq(Items) /\ DOMAIN s = 1..Len(s) /\ Len(s) \in Nat /\ \A i \in DOMAIN s : s[i] \in Items
  BY DEF List
<1> DEFINE T == {i \in DOMAIN s : s[i] \notin S}
<1> SUFFICES ASSUME T # {} PROVE FALSE
  BY DEF ToSet
<1>2. T \subseteq Nat
  BY <1>1
<1>3. PICK i \in T : \A j \in T : i <= j
  <2> HIDE DEF T
  <2> QED
    BY <1>2, Least
<1>4. x # NULL /\ s[1] = x /\ s[1] \in S
  <2>1. s # <<>>
    BY <1>1
  <2> QED
    BY <2>1 DEF List, IsList
<1>5. i # 1 /\ i - 1 \in DOMAIN s /\ i - 1 \notin T
  BY <1>1, <1>3, <1>4
<1>6. n[s[i - 1]] = s[(i - 1) + 1] /\ (i - 1) + 1 = i
  BY <1>1, <1>3, <1>5 DEF List, IsList
<1>7. s[i] \in Items /\ s[i] # NULL
  BY <1>1, <1>3, NullAssumption
<1> QED
  BY <1>3, <1>5, <1>6, <1>7

\* A list visits what the walk visits.
LEMMA ListIsChain ==
    ASSUME NEW n, NEW x \in Items, NEW s, List(s, n, x)
    PROVE  ToSet(s) = Chain(n, x)
<1>1. s \in Seq(Items) /\ DOMAIN s = 1..Len(s) /\ Len(s) \in Nat /\ \A i \in DOMAIN s : s[i] \in Items
  BY DEF List
<1>2. ToSet(s) \in SUBSET Items
  BY <1>1 DEF ToSet
<1>3. x \in ToSet(s)
  <2>1. s # <<>> /\ s[1] = x
    BY NullAssumption DEF List, IsList
  <2>2. 1 \in DOMAIN s
    BY <2>1, <1>1
  <2> QED
    BY <2>1, <2>2 DEF ToSet
<1>4. ASSUME NEW z \in ToSet(s), n[z] # NULL PROVE n[z] \in ToSet(s)
  <2>1. PICK i \in DOMAIN s : s[i] = z
    BY DEF ToSet
  <2>2. i # Len(s) /\ n[z] = s[i + 1] /\ i + 1 \in DOMAIN s
    BY <2>1, <1>1, <1>4 DEF List, IsList
  <2> QED
    BY <2>2 DEF ToSet
<1>5. Chain(n, x) \subseteq ToSet(s)
  BY <1>2, <1>3, <1>4 DEF Chain
<1>6. ASSUME NEW y \in ToSet(s) PROVE y \in Chain(n, x)
  <2>1. y \in Items
    BY <1>2
  <2>2. ASSUME NEW S \in SUBSET Items, x \in S, \A z \in S : n[z] # NULL => n[z] \in S PROVE y \in S
    BY <2>2, ListInside
  <2> QED
    BY <2>1, <2>2 DEF Chain
<1> QED
  BY <1>5, <1>6

-----------------------------------------------------------------------------
(* The lists of a sound heap.                                              *)

\* A walk that ends next to nothing.
LEMMA ShownLists ==
    ASSUME NEW k, NEW n, NEW c, NEW R, Shows(k, n, c, R), NEW p \in Items
    PROVE  /\ p \notin R => List(k[p], n, c[p])
           /\ p \in R => k[p] = <<>>
           /\ k[p] \in Seq(Items)
  BY DEF Shows, List

\* Every heap without a circle shows something,
LEMMA Showing ==
    ASSUME NEW n \in [Items -> Pointers], NoCircle(n), NEW c \in [Items -> Pointers], NEW R
    PROVE  \E k : Shows(k, n, c, R)
<1> DEFINE k == [p \in Items |-> IF p \in R THEN <<>> ELSE CHOOSE s : List(s, n, c[p])]
<1>1. \A p \in Items : p \in R => k[p] = <<>>
  OBVIOUS
<1>2. ASSUME NEW p \in Items, p \notin R PROVE List(k[p], n, c[p])
  <2>1. c[p] \in Pointers
    OBVIOUS
  <2>2. \E s : List(s, n, c[p])
    BY <2>1, WalksEnd
  <2>3. k[p] = CHOOSE s : List(s, n, c[p])
    BY <1>2
  <2> HIDE DEF k
  <2> QED
    BY <2>2, <2>3
<1>3. k = [p \in Items |-> k[p]]
  OBVIOUS
<1> HIDE DEF k
<1>4. ASSUME NEW p \in Items PROVE k[p] \in Seq(Items)
  <2>1. CASE p \in R
    <3>1. k[p] = <<>>
      BY <2>1, <1>1
    <3> QED
      BY <3>1
  <2>2. CASE p \notin R
    BY <2>2, <1>2 DEF List
  <2> QED
    BY <2>1, <2>2
<1>5. k \in [Items -> Seq(Items)]
  BY <1>3, <1>4
<1> QED
  BY <1>1, <1>2, <1>5 DEF Shows, List

\* and one thing only.
LEMMA ShowingOnce ==
    ASSUME NEW n \in [Items -> Pointers], NoCircle(n), NEW c \in [Items -> Pointers], NEW R,
           NEW k, Shows(k, n, c, R), NEW h, Shows(h, n, c, R)
    PROVE  k = h
<1>1. ASSUME NEW p \in Items PROVE k[p] = h[p]
  BY ShownLists, OneList
<1> QED
  BY <1>1 DEF Shows

\* The elements of p are allocated and in no other place: each comes after
\* the one before it, or is the child of p.
LEMMA ElementBefore ==
    ASSUME NEW L, NEW n, NEW v, NEW c, NEW t, NEW R, NEW A, Sound(L, n, v, c, t, R, A),
           NEW k, Shows(k, n, c, R), NEW p \in Items, NEW i \in DOMAIN k[p]
    PROVE  /\ p \in L /\ p \notin R /\ k[p][i] \in L /\ k[p][i] \notin A
           /\ i = 1 => k[p][i] = c[p] /\ v[k[p][i]] = NULL
           /\ i # 1 => i - 1 \in DOMAIN k[p] /\ n[k[p][i - 1]] = k[p][i] /\ v[k[p][i]] = k[p][i - 1]
           /\ i # Len(k[p]) => i + 1 \in DOMAIN k[p] /\ n[k[p][i]] = k[p][i + 1] /\ v[k[p][i + 1]] = k[p][i]
           /\ i = Len(k[p]) => n[k[p][i]] = NULL
<1>1. Typed(L, n, v, c, t, R, A) /\ Neighbours(L, n, v) /\ Owners(L, v, c, R, A) /\ Alone(n, v, A)
  BY DEF Sound
<1> DEFINE s == k[p]
<1>2. p \notin R /\ List(s, n, c[p]) /\ i \in DOMAIN s
  BY ShownLists
<1> HIDE DEF s
<1>3. s \in Seq(Items) /\ DOMAIN s = 1..Len(s) /\ Len(s) \in Nat /\ s # <<>> /\ c[p] # NULL /\ s[1] = c[p]
  BY <1>2 DEF List, IsList
<1>4. p \in L /\ c[p] \in L /\ v[c[p]] = NULL /\ c[p] \notin A
  BY <1>1, <1>2, <1>3 DEF Typed, Owners
<1>5. \A z \in L : n[z] # NULL => n[z] \in L
  BY <1>1 DEF Neighbours
<1>6. ToSet(s) \subseteq L
  BY <1>2, <1>4, <1>5, ListInside
<1>7. \A j \in DOMAIN s : s[j] \in L
  BY <1>6 DEF ToSet
<1>8. \A j \in DOMAIN s : n[s[j]] = IF j = Len(s) THEN NULL ELSE s[j + 1]
  BY <1>2 DEF List, IsList
<1>9. \A j \in DOMAIN s : j # Len(s) => j + 1 \in DOMAIN s /\ s[j + 1] # NULL
  BY <1>1, <1>3, <1>7, NullAssumption DEF Typed
<1>10. \A j \in DOMAIN s : j # Len(s) => n[s[j]] = s[j + 1] /\ v[s[j + 1]] = s[j] /\ v[s[j + 1]] # NULL
  BY <1>1, <1>7, <1>8, <1>9, NullAssumption DEF Neighbours, Typed
<1>11. ASSUME i # 1 PROVE i - 1 \in DOMAIN s /\ n[s[i - 1]] = s[i] /\ v[s[i]] = s[i - 1] /\ v[s[i]] # NULL
  <2>1. i - 1 \in DOMAIN s /\ i - 1 # Len(s) /\ (i - 1) + 1 = i
    BY <1>2, <1>3, <1>11
  <2> QED
    BY <2>1, <1>10
<1>12. s[i] \notin A
  BY <1>1, <1>3, <1>4, <1>11 DEF Alone
<1> QED
  BY <1>2, <1>3, <1>4, <1>7, <1>8, <1>9, <1>10, <1>11, <1>12 DEF s

\* No item is in two places.
LEMMA OnePlace ==
    ASSUME NEW L, NEW n, NEW v, NEW c, NEW t, NEW R, NEW A, Sound(L, n, v, c, t, R, A),
           NEW k, Shows(k, n, c, R), NEW p \in Items, NEW i \in DOMAIN k[p],
           NEW q \in Items, NEW j \in DOMAIN k[q], k[p][i] = k[q][j]
    PROVE  p = q /\ i = j
<1> DEFINE T == {a \in DOMAIN k[p] : \E b \in DOMAIN k[q] : k[p][a] = k[q][b] /\ (p # q \/ a # b)}
<1>0. DOMAIN k[p] = 1..Len(k[p]) /\ DOMAIN k[q] = 1..Len(k[q]) /\ Len(k[p]) \in Nat /\ Len(k[q]) \in Nat
  BY ShownLists
<1> SUFFICES ASSUME T # {} PROVE FALSE
  OBVIOUS
<1>1. T \subseteq Nat
  BY <1>0
<1>2. PICK a \in T : \A d \in T : a <= d
  <2> HIDE DEF T
  <2> QED
    BY <1>1, Least
<1>3. PICK b \in DOMAIN k[q] : k[p][a] = k[q][b] /\ (p # q \/ a # b)
  BY <1>2
<1>4. a \in DOMAIN k[p]
  BY <1>2
<1>5. \A w \in L : w # NULL
  BY NullAssumption DEF Sound, Typed
<1>6. a = 1 <=> b = 1
  BY <1>3, <1>4, <1>5, ElementBefore
<1>7. CASE a = 1
  <2>1. c[p] = c[q] /\ c[p] # NULL /\ p \in L /\ q \in L /\ p \notin R /\ q \notin R
    BY <1>3, <1>4, <1>5, <1>6, <1>7, ElementBefore
  <2> QED
    BY <2>1, <1>3, <1>6, <1>7 DEF Sound, Owners
<1>8. CASE a # 1
  <2>1. a - 1 \in DOMAIN k[p] /\ b - 1 \in DOMAIN k[q] /\ k[p][a - 1] = k[q][b - 1]
    BY <1>3, <1>4, <1>6, <1>8, ElementBefore
  <2>2. a - 1 \notin T
    <3>1. \A d \in T : a <= d
      BY <1>2
    <3>2. a \in Nat
      BY <1>0, <1>4
    <3>3. ~(a <= a - 1)
      BY <3>2
    <3> HIDE DEF T
    <3> QED BY <3>1, <3>3
  <2> QED
    BY <2>1, <2>2, <1>0, <1>3, <1>4
<1> QED
  BY <1>7, <1>8

\* The elements are what the walk of CJson visits.
LEMMA ShownElements ==
    ASSUME NEW n, NEW c \in [Items -> Pointers], NEW R, NEW k, Shows(k, n, c, R), NEW p \in Items, p \notin R
    PROVE  ToSet(k[p]) = IF c[p] = NULL THEN {} ELSE Chain(n, c[p])
<1>1. List(k[p], n, c[p])
  BY ShownLists
<1>2. CASE c[p] = NULL
  BY <1>1, <1>2 DEF List, IsList, ToSet
<1>3. CASE c[p] # NULL
  <2>1. c[p] \in Items
    BY <1>3 DEF Pointers
  <2> QED
    BY <1>1, <1>3, <2>1, ListIsChain
<1> QED
  BY <1>2, <1>3

LEMMA SeqOfSet ==
    ASSUME NEW S, NEW s \in Seq(Items), ToSet(s) = S, \A i, j \in DOMAIN s : s[i] = s[j] => i = j
    PROVE  s \in SetToSeqs(S)
<1>1. DOMAIN s = 1..Len(s) /\ Len(s) \in Nat /\ s \in [1..Len(s) -> S]
  BY DEF ToSet
<1>2. s \in Bijection(1..Len(s), S)
  BY <1>1 DEF Bijection, Injection, IsInjective, Surjection, ToSet
<1>3. ExistsBijection(1..Len(s), S)
  BY <1>2 DEF ExistsBijection
<1>4. IsFiniteSet(1..Len(s)) /\ Cardinality(1..Len(s)) = Len(s)
  BY <1>1, FS_Interval
<1>5. Cardinality(S) = Len(s)
  BY <1>3, <1>4, FS_Bijection
<1> QED
  BY <1>1, <1>5 DEF SetToSeqs

\* So what a heap shows is what Sequence says.
LEMMA ShownSequence ==
    ASSUME NEW L, NEW n, NEW v, NEW c, NEW t, NEW R, NEW A, Sound(L, n, v, c, t, R, A), NoCircle(n),
           NEW k, Shows(k, n, c, R), NEW p \in Items, p \notin R,
           NEW S, S = IF c[p] = NULL THEN {} ELSE Chain(n, c[p])
    PROVE  k[p] = CHOOSE s \in SetToSeqs(S) : IsList(s, n, c[p])
<1>1. n \in [Items -> Pointers] /\ c \in [Items -> Pointers] /\ c[p] \in Pointers
  BY DEF Sound, Typed
<1>2. \A i, j \in DOMAIN k[p] : k[p][i] = k[p][j] => i = j
  BY OnePlace
<1>3. List(k[p], n, c[p]) /\ k[p] \in Seq(Items)
  BY ShownLists
<1>4. k[p] \in SetToSeqs(S)
  BY <1>1, <1>2, <1>3, ShownElements, SeqOfSet
<1>5. S \subseteq Items
  BY DEF Chain
<1>6. ASSUME NEW s \in SetToSeqs(S), IsList(s, n, c[p]) PROVE s = k[p]
  <2>1. s \in [1..Cardinality(S) -> S]
    BY DEF SetToSeqs
  <2>2. DOMAIN k[p] = 1..Cardinality(S) /\ DOMAIN k[p] = 1..Len(k[p])
    BY <1>3, <1>4 DEF SetToSeqs
  <2>3. s \in [1..Len(k[p]) -> Items]
    BY <2>1, <2>2, <1>5
  <2>4. s \in Seq(Items)
    BY <2>3, <1>3
  <2> QED
    BY <2>4, <1>1, <1>3, <1>6, OneList DEF List
<1> QED
  BY <1>3, <1>4, <1>6 DEF List

-----------------------------------------------------------------------------
(* No change of the heap makes a circle.                                   *)

LEMMA NoneClosed ==
    ASSUME NEW n, NoCircle(n), NEW S \in SUBSET Items, S # {}, \A z \in S : n[z] \in S
    PROVE  FALSE
  BY DEF NoCircle

\* x is linked behind last.
LEMMA AppendCircle ==
    ASSUME NEW n \in [Items -> Pointers], NoCircle(n), NEW x \in Items, n[x] = NULL, NEW last \in Items, last # x,
           NEW n2, n2 = [n EXCEPT ![last] = x]
    PROVE  NoCircle(n2)
<1> SUFFICES ASSUME NEW S \in SUBSET Items, S # {}, \A z \in S : n2[z] \in S PROVE FALSE
  BY DEF NoCircle
<1>1. \A z \in Items : n2[z] = IF z = last THEN x ELSE n[z]
  OBVIOUS
<1>2. x \notin S
  BY <1>1, NullAssumption
<1>3. last \notin S
  BY <1>1, <1>2
<1>4. \A z \in S : n[z] \in S
  BY <1>1, <1>3
<1> QED
  BY <1>4, NoneClosed

\* x, which nothing leads to, is linked before y.
LEMMA InsertCircle ==
    ASSUME NEW n \in [Items -> Pointers], NoCircle(n), NEW x \in Items, NEW y \in Items, x # y, \A z \in Items : n[z] # x,
           NEW n2, n2[x] = y, \A z \in Items \ {x} : n2[z] = n[z] \/ (n2[z] = x /\ n[z] = y)
    PROVE  NoCircle(n2)
<1> SUFFICES ASSUME NEW S \in SUBSET Items, S # {}, \A z \in S : n2[z] \in S PROVE FALSE
  BY DEF NoCircle
<1> DEFINE T == S \ {x}
<1>1. T \in SUBSET Items
  OBVIOUS
<1>2. x \in S => y \in T
  OBVIOUS
<1>3. T # {}
  BY <1>2
<1>4. ASSUME NEW z \in T PROVE n[z] \in T
  <2>1. z \in Items \ {x} /\ n[z] # x /\ n2[z] \in S
    BY <1>1
  <2> QED
    BY <2>1, <1>2
<1> HIDE DEF T
<1> QED
  BY <1>1, <1>3, <1>4, NoneClosed

\* y is taken out.
LEMMA DetachCircle ==
    ASSUME NEW n \in [Items -> Pointers], NoCircle(n), NEW y \in Items,
           NEW n2, n2[y] = NULL, \A z \in Items \ {y} : n2[z] = n[z] \/ (n[z] = y /\ n2[z] = n[y])
    PROVE  NoCircle(n2)
<1> SUFFICES ASSUME NEW S \in SUBSET Items, S # {}, \A z \in S : n2[z] \in S PROVE FALSE
  BY DEF NoCircle
<1>1. y \notin S
  BY NullAssumption
<1>2. CASE \E z \in S : n[z] = y
  <2> DEFINE T == S \cup {y}
  <2>1. T \in SUBSET Items /\ T # {}
    OBVIOUS
  <2>2. PICK w \in S : n[w] = y
    BY <1>2
  <2>3. w \in Items \ {y} /\ n2[w] \in S
    BY <1>1, <2>2
  <2>4. n[y] \in T
    BY <1>1, <2>2, <2>3
  <2>5. ASSUME NEW z \in S PROVE n[z] \in T
    <3>1. z \in Items \ {y} /\ n2[z] \in S
      BY <1>1
    <3> QED
      BY <3>1
  <2>6. \A z \in T : n[z] \in T
    BY <2>4, <2>5
  <2> HIDE DEF T
  <2> QED
    BY <2>1, <2>6, NoneClosed
<1>3. CASE ~\E z \in S : n[z] = y
  <2>1. \A z \in S : n[z] \in S
    BY <1>1, <1>3
  <2> QED
    BY <2>1, NoneClosed
<1> QED
  BY <1>2, <1>3

\* x, which nothing leads to, takes the place of y.
LEMMA ReplaceCircle ==
    ASSUME NEW n \in [Items -> Pointers], NoCircle(n), NEW x \in Items, NEW y \in Items, x # y, \A z \in Items : n[z] # x,
           NEW n2, n2[y] = NULL, n2[x] = n[y], \A z \in Items \ {x, y} : n2[z] = n[z] \/ (n[z] = y /\ n2[z] = x)
    PROVE  NoCircle(n2)
<1> SUFFICES ASSUME NEW S \in SUBSET Items, S # {}, \A z \in S : n2[z] \in S PROVE FALSE
  BY DEF NoCircle
<1>1. y \notin S
  BY NullAssumption
<1>2. CASE x \in S
  <2> DEFINE T == (S \ {x}) \cup {y}
  <2>1. T \in SUBSET Items /\ T # {}
    OBVIOUS
  <2>2. n[y] \in T
    BY <1>2
  <2>3. ASSUME NEW z \in S \ {x} PROVE n[z] \in T
    <3>1. z \in Items \ {x, y} /\ n2[z] \in S /\ n[z] # x
      BY <1>1
    <3> QED
      BY <3>1
  <2>4. \A z \in T : n[z] \in T
    BY <2>2, <2>3
  <2> HIDE DEF T
  <2> QED
    BY <2>1, <2>4, NoneClosed
<1>3. CASE x \notin S
  <2>1. \A z \in S : n[z] \in S
    BY <1>1, <1>3
  <2> QED
    BY <2>1, NoneClosed
<1> QED
  BY <1>2, <1>3

\* The items D are freed.
LEMMA FreeCircle ==
    ASSUME NEW n, NoCircle(n), NEW D, NEW n2, n2 = [z \in Items |-> IF z \in D THEN NULL ELSE n[z]]
    PROVE  NoCircle(n2)
<1> SUFFICES ASSUME NEW S \in SUBSET Items, S # {}, \A z \in S : n2[z] \in S PROVE FALSE
  BY DEF NoCircle
<1>1. \A z \in S : n[z] \in S
  BY NullAssumption
<1> QED
  BY <1>1, NoneClosed

LEMMA ArrayCircle ==
    ASSUME NEW L, NEW n, NEW v, NEW c, NEW t, NoCircle(n), NEW m, NEW s, NEW E, NEW n2, NEW v2, NEW c2, NEW t2,
           MakesArray(L, s, m, E, n, v, c, t, n2, v2, c2, t2)
    PROVE  NoCircle(n2)
<1> USE DEF MakesArray
<1> SUFFICES ASSUME NEW S \in SUBSET Items, S # {}, \A z \in S : n2[z] \in S PROVE FALSE
  BY DEF NoCircle
<1>1. CASE S \cap E = {}
  <2>1. \A z \in S : n[z] \in S
    BY <1>1
  <2> QED
    BY <2>1, NoneClosed
<1>2. CASE S \cap E # {}
  <2> DEFINE T == {i \in 2..m : s[i] \in S}
  <2>1. T \subseteq 0..m /\ T # {} /\ m \in Nat
    BY <1>2
  <2>2. PICK i \in T : \A j \in T : j <= i
    <3> HIDE DEF T
    <3> QED
      BY <2>1, Greatest
  <2>3. i \in 2..m /\ s[i] \in S /\ n2[s[i]] \in S
    BY <2>2
  <2>4. CASE i < m
    <3>1. i + 1 \in 2..m /\ s[i + 1] \in S
      BY <2>3, <2>4
    <3>2. i + 1 \in T
      BY <3>1
    <3> QED
      BY <3>2, <2>2, <2>3
  <2>5. CASE ~(i < m)
    BY <2>3, <2>5, NullAssumption
  <2> QED
    BY <2>4, <2>5
<1> QED
  BY <1>1, <1>2

LEMMA CopyCircle ==
    ASSUME NEW L, L \subseteq Items, NEW n, NEW v, NEW c, NEW t, NoCircle(n),
           NEW x, NEW K, NEW f, NEW F, NEW n2, NEW v2, NEW c2, NEW t2,
           MakesCopy(L, x, K, f, F, n, v, c, t, n2, v2, c2, t2)
    PROVE  NoCircle(n2)
<1> USE DEF MakesCopy
<1> SUFFICES ASSUME NEW S \in SUBSET Items, S # {}, \A z \in S : n2[z] \in S PROVE FALSE
  BY DEF NoCircle
<1>1. CASE S \cap F = {}
  <2>1. \A z \in S : n[z] \in S
    BY <1>1
  <2> QED
    BY <2>1, NoneClosed
<1>2. CASE S \cap F # {}
  <2> DEFINE T == {z \in K : f[z] \in S}
  <2>1. T \in SUBSET Items /\ T # {}
    BY <1>2
  <2>2. ASSUME NEW z \in T PROVE n[z] \in T
    <3>1. z \in K /\ f[z] \in S /\ n2[f[z]] \in S /\ n2[f[z]] # NULL
      BY NullAssumption
    <3>2. z # x
      BY <3>1
    <3> QED
      BY <3>1, <3>2
  <2> HIDE DEF T
  <2> QED
    BY <2>1, <2>2, NoneClosed
<1> QED
  BY <1>1, <1>2

-----------------------------------------------------------------------------
(* What a change of the heap does to a list.                               *)

LEMMA InsertAtIs ==
    ASSUME NEW S, NEW s \in Seq(S), NEW i \in 1..Len(s) + 1, NEW x \in S, NEW u, u = InsertAt(s, i, x)
    PROVE  /\ u \in Seq(S) /\ Len(u) = Len(s) + 1
           /\ \A j \in 1..Len(s) + 1 : u[j] = IF j < i THEN s[j] ELSE IF j = i THEN x ELSE s[j - 1]
<1> DEFINE a == SubSeq(s, 1, i - 1)
           b == SubSeq(s, i, Len(s))
<1>1. Len(s) \in Nat /\ i \in Nat /\ i - 1 \in Nat
  OBVIOUS
<1>2. a \in Seq(S) /\ Len(a) = i - 1 /\ \A j \in 1..i - 1 : a[j] = s[j]
  BY <1>1
<1>3. b \in Seq(S) /\ Len(b) = Len(s) - i + 1 /\ \A j \in 1..Len(s) - i + 1 : b[j] = s[i + j - 1]
  BY <1>1
<1>4. u = (a \o <<x>>) \o b
  BY DEF InsertAt
<1> HIDE DEF a, b
<1> DEFINE d == a \o <<x>>
<1>5. d \in Seq(S) /\ Len(d) = i /\ \A j \in 1..i : d[j] = IF j < i THEN s[j] ELSE x
  BY <1>1, <1>2
<1>6. u = d \o b
  BY <1>4
<1> HIDE DEF d
<1>7. u \in Seq(S) /\ Len(u) = Len(s) + 1
  <2>1. u \in Seq(S) /\ Len(u) = Len(d) + Len(b)
    BY <1>3, <1>5, <1>6, ConcatProperties
  <2>2. Len(d) = i /\ Len(b) = Len(s) - i + 1
    BY <1>3, <1>5
  <2> QED
    BY <2>1, <2>2, <1>1
<1>8. ASSUME NEW j \in 1..Len(s) + 1 PROVE u[j] = IF j < i THEN s[j] ELSE IF j = i THEN x ELSE s[j - 1]
  <2>1. CASE j <= i
    <3>1. j \in 1..i /\ u[j] = d[j]
      BY <2>1, <1>1, <1>3, <1>5, <1>6
    <3> QED
      BY <3>1, <2>1, <1>5
  <2>2. CASE ~(j <= i)
    <3>1. j - i \in 1..Len(s) - i + 1 /\ i + (j - i) - 1 = j - 1
      BY <2>2, <1>1
    <3>2. u[j] = b[j - i]
      BY <3>1, <2>2, <1>1, <1>3, <1>5, <1>6
    <3> QED
      BY <3>1, <3>2, <2>2, <1>1, <1>3
  <2> QED
    BY <2>1, <2>2
<1> QED
  BY <1>7, <1>8

LEMMA RemoveAtIs ==
    ASSUME NEW S, NEW s \in Seq(S), NEW i \in 1..Len(s), NEW u, u = RemoveAt(s, i)
    PROVE  /\ u \in Seq(S) /\ Len(u) = Len(s) - 1
           /\ \A j \in 1..Len(s) - 1 : u[j] = IF j < i THEN s[j] ELSE s[j + 1]
<1> DEFINE a == SubSeq(s, 1, i - 1)
           b == SubSeq(s, i + 1, Len(s))
<1>1. Len(s) \in Nat /\ i \in Nat /\ i - 1 \in Nat
  OBVIOUS
<1>2. a \in Seq(S) /\ Len(a) = i - 1 /\ \A j \in 1..i - 1 : a[j] = s[j]
  BY <1>1
<1>3. b \in Seq(S) /\ Len(b) = Len(s) - i /\ \A j \in 1..Len(s) - i : b[j] = s[i + j]
  BY <1>1
<1>4. u = a \o b
  BY DEF RemoveAt
<1> HIDE DEF a, b
<1>5. u \in Seq(S) /\ Len(u) = Len(s) - 1
  BY <1>1, <1>2, <1>3, <1>4
<1>6. ASSUME NEW j \in 1..Len(s) - 1 PROVE u[j] = IF j < i THEN s[j] ELSE s[j + 1]
  <2>1. CASE j < i
    <3>1. j \in 1..i - 1 /\ u[j] = a[j]
      BY <2>1, <1>1, <1>2, <1>3, <1>4
    <3> QED
      BY <3>1, <2>1, <1>2
  <2>2. CASE ~(j < i)
    <3>1. j - (i - 1) \in 1..Len(s) - i /\ i + (j - (i - 1)) = j + 1
      BY <2>2, <1>1
    <3>2. u[j] = b[j - (i - 1)]
      BY <3>1, <2>2, <1>1, <1>2, <1>3, <1>4
    <3> QED
      BY <3>1, <3>2, <2>2, <1>3
  <2> QED
    BY <2>1, <2>2
<1> QED
  BY <1>5, <1>6

\* A list is its items and where each leads.
LEMMA ListFrom ==
    ASSUME NEW u \in Seq(Items), NEW n, NEW x, x = NULL => u = <<>>, x # NULL => u # <<>> /\ u[1] = x,
           \A i \in 1..Len(u) : n[u[i]] = IF i = Len(u) THEN NULL ELSE u[i + 1]
    PROVE  List(u, n, x)
  BY DEF List, IsList

LEMMA ListParts ==
    ASSUME NEW s, NEW n, NEW x, List(s, n, x)
    PROVE  /\ s \in Seq(Items) /\ DOMAIN s = 1..Len(s) /\ Len(s) \in Nat
           /\ x = NULL => s = <<>>
           /\ x # NULL => s # <<>> /\ s[1] = x
           /\ \A i \in 1..Len(s) : n[s[i]] = IF i = Len(s) THEN NULL ELSE s[i + 1]
           /\ \A i \in 1..Len(s) : s[i] \in Items /\ s[i] # NULL
  BY NullAssumption DEF List, IsList

LEMMA SameList ==
    ASSUME NEW s, NEW n, NEW x, List(s, n, x), NEW n2, \A i \in 1..Len(s) : n2[s[i]] = n[s[i]]
    PROVE  List(s, n2, x)
<1>1. /\ s \in Seq(Items) /\ (x = NULL => s = <<>>) /\ (x # NULL => s # <<>> /\ s[1] = x)
      /\ \A i \in 1..Len(s) : n[s[i]] = IF i = Len(s) THEN NULL ELSE s[i + 1]
  BY ListParts
<1>2. \A i \in 1..Len(s) : n2[s[i]] = IF i = Len(s) THEN NULL ELSE s[i + 1]
  BY <1>1
<1> QED
  BY <1>1, <1>2, ListFrom

\* x at place i, which may be behind the last.
LEMMA LongerList ==
    ASSUME NEW s, NEW n, NEW a, List(s, n, a), NEW i \in 1..Len(s) + 1, NEW x \in Items,
           NEW n2, n2[x] = IF i = Len(s) + 1 THEN NULL ELSE s[i],
           i # 1 => n2[s[i - 1]] = x, \A j \in 1..Len(s) : j # i - 1 => n2[s[j]] = n[s[j]],
           NEW a2, a2 = IF i = 1 THEN x ELSE a
    PROVE  List(InsertAt(s, i, x), n2, a2)
<1> DEFINE u == InsertAt(s, i, x)
<1>1. /\ s \in Seq(Items) /\ Len(s) \in Nat /\ (a = NULL => s = <<>>) /\ (a # NULL => s # <<>> /\ s[1] = a)
      /\ \A j \in 1..Len(s) : n[s[j]] = IF j = Len(s) THEN NULL ELSE s[j + 1]
  BY ListParts
<1>2. /\ u \in Seq(Items) /\ Len(u) = Len(s) + 1
      /\ \A j \in 1..Len(s) + 1 : u[j] = IF j < i THEN s[j] ELSE IF j = i THEN x ELSE s[j - 1]
  BY <1>1, InsertAtIs
<1> HIDE DEF u
<1>0. Len(s) \in Nat /\ Len(u) = Len(s) + 1 /\ i \in 1..Len(s) + 1
  BY <1>1, <1>2
<1>3. a2 # NULL /\ u # <<>> /\ u[1] = a2
  <2>1. CASE i = 1
    BY <2>1, <1>1, <1>2, NullAssumption
  <2>2. CASE i # 1
    <3>1. s # <<>>
      BY <2>2, <1>1
    <3> QED
      BY <2>2, <3>1, <1>1, <1>2
  <2> QED
    BY <2>1, <2>2
<1>4. ASSUME NEW j \in 1..Len(u) PROVE n2[u[j]] = IF j = Len(u) THEN NULL ELSE u[j + 1]
  <2>1. CASE j < i - 1
    <3>1. j \in 1..Len(s) /\ j # Len(s) /\ j < i /\ j + 1 < i /\ j + 1 \in 1..Len(s) + 1 /\ j # Len(u)
      BY <2>1, <1>0
    <3>2. u[j] = s[j] /\ u[j + 1] = s[j + 1]
      <4>1. j \in 1..Len(s) + 1
        BY <3>1, <1>0
      <4> QED
        BY <3>1, <4>1, <1>2
    <3>3. n2[s[j]] = s[j + 1]
      <4>1. j # i - 1
        BY <2>1, <3>1
      <4> QED
        BY <3>1, <4>1, <1>1
    <3> QED
      BY <3>1, <3>2, <3>3
  <2>2. CASE j = i - 1
    <3>1. j \in 1..Len(s) + 1 /\ j < i /\ j + 1 = i /\ i # 1 /\ j + 1 \in 1..Len(s) + 1 /\ j # Len(u)
      BY <2>2, <1>0
    <3>2. u[j] = s[j] /\ u[j + 1] = x
      <4>1. ~(j + 1 < i)
        BY <3>1
      <4> QED
        BY <3>1, <4>1, <1>2
    <3>3. n2[s[j]] = x
      BY <2>2, <3>1
    <3> QED
      BY <3>1, <3>2, <3>3
  <2>3. CASE j = i
    <3>1. CASE i = Len(s) + 1
      BY <2>3, <3>1, <1>2
    <3>2. CASE i # Len(s) + 1
      <4>1. j + 1 \in 1..Len(s) + 1 /\ ~(j + 1 < i) /\ j + 1 # i /\ (j + 1) - 1 = i /\ j # Len(u)
        BY <2>3, <3>2, <1>1, <1>2
      <4> QED
        BY <2>3, <3>2, <4>1, <1>2
    <3> QED
      BY <3>1, <3>2
  <2>4. CASE j > i
    <3>1. j - 1 \in 1..Len(s) /\ j - 1 # i - 1 /\ ~(j < i) /\ j # i /\ (j = Len(u) <=> j - 1 = Len(s))
      BY <2>4, <1>1, <1>2
    <3>2. n2[u[j]] = IF j - 1 = Len(s) THEN NULL ELSE s[(j - 1) + 1]
      BY <2>4, <3>1, <1>1, <1>2
    <3>3. ASSUME j # Len(u) PROVE u[j + 1] = s[(j - 1) + 1]
      <4>1. j + 1 \in 1..Len(s) + 1 /\ ~(j + 1 < i) /\ j + 1 # i /\ (j + 1) - 1 = (j - 1) + 1
        BY <2>4, <3>3, <1>0
      <4>2. u[j + 1] = s[(j + 1) - 1]
        BY <4>1, <1>2
      <4> QED
        BY <4>1, <4>2
    <3> QED
      BY <3>1, <3>2, <3>3
  <2> QED
    BY <2>1, <2>2, <2>3, <2>4, <1>2
<1>5. List(u, n2, a2)
  BY <1>2, <1>3, <1>4, ListFrom
<1> QED
  BY <1>5 DEF u

\* The item at place i is gone.
LEMMA ShorterList ==
    ASSUME NEW s, NEW n, NEW a, List(s, n, a), NEW i \in 1..Len(s),
           NEW n2, i # 1 => n2[s[i - 1]] = n[s[i]], \A j \in 1..Len(s) : j # i - 1 /\ j # i => n2[s[j]] = n[s[j]],
           NEW a2, a2 = IF i = 1 THEN n[s[i]] ELSE a
    PROVE  List(RemoveAt(s, i), n2, a2)
<1> DEFINE u == RemoveAt(s, i)
<1>1. /\ s \in Seq(Items) /\ Len(s) \in Nat /\ (a = NULL => s = <<>>) /\ (a # NULL => s # <<>> /\ s[1] = a)
      /\ \A j \in 1..Len(s) : n[s[j]] = IF j = Len(s) THEN NULL ELSE s[j + 1]
      /\ \A j \in 1..Len(s) : s[j] # NULL
  BY ListParts
<1>2. /\ u \in Seq(Items) /\ Len(u) = Len(s) - 1
      /\ \A j \in 1..Len(s) - 1 : u[j] = IF j < i THEN s[j] ELSE s[j + 1]
  BY <1>1, RemoveAtIs
<1> HIDE DEF u
<1>3. (a2 = NULL => u = <<>>) /\ (a2 # NULL => u # <<>> /\ u[1] = a2)
  <2>1. CASE i = 1 /\ Len(s) = 1
    <3>1. a2 = NULL /\ Len(u) = 0
      BY <2>1, <1>1, <1>2
    <3> QED
      BY <3>1, <1>2
  <2>2. CASE i = 1 /\ Len(s) # 1
    <3>0. 1 + 1 \in 1..Len(s) /\ 1 \in 1..Len(s) - 1 /\ 1 \in 1..Len(s)
      <4>1. Len(s) \in Nat /\ i \in 1..Len(s)
        BY <1>1
      <4> QED
        BY <2>2, <4>1
    <3>1. a2 = s[1 + 1]
      BY <2>2, <3>0, <1>1
    <3>2. u[1] = a2 /\ a2 # NULL /\ u # <<>>
      BY <2>2, <3>0, <3>1, <1>1, <1>2
    <3> QED
      BY <3>2
  <2>3. CASE i # 1
    <3>1. s # <<>> /\ 1 \in 1..Len(s) - 1 /\ 1 < i
      BY <2>3, <1>1
    <3>2. u[1] = s[1] /\ u # <<>>
      BY <3>1, <1>2
    <3> QED
      BY <2>3, <3>1, <3>2, <1>1
  <2> QED
    BY <2>1, <2>2, <2>3
<1>4. ASSUME NEW j \in 1..Len(u) PROVE n2[u[j]] = IF j = Len(u) THEN NULL ELSE u[j + 1]
  <2>1. CASE j < i - 1
    <3>1. j \in 1..Len(s) /\ j # Len(s) /\ j < i /\ j + 1 < i /\ j # i /\ j \in 1..Len(s) - 1 /\ j + 1 \in 1..Len(s) - 1 /\ j # Len(u)
      BY <2>1, <1>1, <1>2
    <3> QED
      BY <2>1, <3>1, <1>1, <1>2
  <2>2. CASE j = i - 1
    <3>1. j \in 1..Len(s) - 1 /\ j < i /\ j + 1 = i /\ i # 1 /\ (j = Len(u) <=> i = Len(s))
      BY <2>2, <1>1, <1>2
    <3>2. n2[u[j]] = IF i = Len(s) THEN NULL ELSE s[i + 1]
      BY <2>2, <3>1, <1>1, <1>2
    <3>3. ASSUME j # Len(u) PROVE u[j + 1] = s[i + 1]
      <4>1. j + 1 \in 1..Len(s) - 1
        BY <3>1, <3>3, <1>1, <1>2
      <4>2. u[j + 1] = s[(j + 1) + 1]
        BY <4>1, <3>1, <1>2
      <4> QED
        BY <4>2, <3>1
    <3> QED
      BY <3>1, <3>2, <3>3
  <2>3. CASE j >= i
    <3>1. j + 1 \in 1..Len(s) /\ j + 1 # i - 1 /\ j + 1 # i /\ ~(j < i) /\ (j = Len(u) <=> j + 1 = Len(s)) /\ j \in 1..Len(s) - 1
      BY <2>3, <1>1, <1>2
    <3>2. n2[u[j]] = IF j + 1 = Len(s) THEN NULL ELSE s[(j + 1) + 1]
      BY <3>1, <1>1, <1>2
    <3>3. ASSUME j # Len(u) PROVE u[j + 1] = s[(j + 1) + 1]
      <4>1. j + 1 \in 1..Len(s) - 1 /\ ~(j + 1 < i)
        BY <2>3, <3>3, <1>1, <1>2
      <4> QED
        BY <4>1, <1>2
    <3> QED
      BY <3>1, <3>2, <3>3
  <2> QED
    BY <2>1, <2>2, <2>3, <1>2
<1>5. List(u, n2, a2)
  BY <1>2, <1>3, <1>4, ListFrom
<1> QED
  BY <1>5 DEF u

\* x has the place i.
LEMMA ReplacedList ==
    ASSUME NEW s, NEW n, NEW a, List(s, n, a), NEW i \in 1..Len(s), NEW x \in Items,
           NEW n2, n2[x] = n[s[i]], i # 1 => n2[s[i - 1]] = x, \A j \in 1..Len(s) : j # i - 1 /\ j # i => n2[s[j]] = n[s[j]],
           NEW a2, a2 = IF i = 1 THEN x ELSE a
    PROVE  List(ReplaceAt(s, i, x), n2, a2)
<1> DEFINE u == ReplaceAt(s, i, x)
<1>1. /\ s \in Seq(Items) /\ Len(s) \in Nat /\ (a = NULL => s = <<>>) /\ (a # NULL => s # <<>> /\ s[1] = a)
      /\ \A j \in 1..Len(s) : n[s[j]] = IF j = Len(s) THEN NULL ELSE s[j + 1]
  BY ListParts
<1>2. u \in Seq(Items) /\ Len(u) = Len(s) /\ \A j \in 1..Len(s) : u[j] = IF j = i THEN x ELSE s[j]
  BY <1>1 DEF ReplaceAt
<1> HIDE DEF u
<1>3. a2 # NULL /\ u # <<>> /\ u[1] = a2
  <2>1. s # <<>> /\ 1 \in 1..Len(s)
    BY <1>1
  <2> QED
    BY <2>1, <1>1, <1>2, NullAssumption
<1>4. ASSUME NEW j \in 1..Len(u) PROVE n2[u[j]] = IF j = Len(u) THEN NULL ELSE u[j + 1]
  <2>1. j # Len(u) => j + 1 \in 1..Len(s)
    BY <1>1, <1>2
  <2>2. CASE j = i
    BY <2>1, <2>2, <1>1, <1>2
  <2>3. CASE j = i - 1
    BY <2>1, <2>3, <1>1, <1>2
  <2>4. CASE j # i /\ j # i - 1
    BY <2>1, <2>4, <1>1, <1>2
  <2> QED
    BY <2>2, <2>3, <2>4
<1>5. List(u, n2, a2)
  BY <1>2, <1>3, <1>4, ListFrom
<1> QED
  BY <1>5 DEF u

-----------------------------------------------------------------------------
(* What a change of the heap does to the lists of all items.               *)

\* A sound heap whose lists are k.
Lists(k, n, c, R) ==
    n \in [Items -> Pointers] /\ c \in [Items -> Pointers] /\ NoCircle(n) /\ Shows(k, n, c, R)
Tree(L, n, v, c, t, R, A, k) == Sound(L, n, v, c, t, R, A) /\ Lists(k, n, c, R)

LEMMA TreeTypes ==
    ASSUME NEW L, NEW n, NEW v, NEW c, NEW t, NEW R, NEW A, NEW k, Tree(L, n, v, c, t, R, A, k)
    PROVE  /\ L \subseteq Items /\ R \subseteq L /\ A \subseteq L /\ NULL \notin Items
           /\ n \in [Items -> Pointers] /\ v \in [Items -> Pointers] /\ c \in [Items -> Pointers]
           /\ NoCircle(n) /\ Shows(k, n, c, R) /\ Lists(k, n, c, R) /\ Sound(L, n, v, c, t, R, A)
           /\ k \in [Items -> Seq(Items)]
           /\ \A x \in A : v[x] = NULL /\ n[x] = NULL
           /\ \A z \in Items \ L : n[z] = NULL /\ v[z] = NULL /\ c[z] = NULL
           /\ \A q \in Items : /\ k[q] \in Seq(Items) /\ DOMAIN k[q] = 1..Len(k[q]) /\ Len(k[q]) \in Nat
                               /\ q \in R => k[q] = <<>>
                               /\ q \notin R => List(k[q], n, c[q])
  BY NullAssumption DEF Tree, Lists, Sound, Typed, Alone, Shows, List

\* The list a walk finds is the list of the item.
LEMMA KidsAre ==
    ASSUME NEW k, NEW n, NEW c, NEW R, Lists(k, n, c, R),
           NEW q \in Items, q \notin R, NEW s, List(s, n, c[q])
    PROVE  k[q] = s
<1>1. c[q] \in Pointers
  BY DEF Lists
<1>2. List(k[q], n, c[q])
  BY ShownLists DEF Lists
<1> QED
  BY <1>1, <1>2, OneList DEF Lists

\* A list whose items are not touched stays.
LEMMA KidsStay ==
    ASSUME NEW k, NEW n, NEW c, NEW R, Lists(k, n, c, R),
           NEW k2, NEW n2, NEW c2, NEW R2, Lists(k2, n2, c2, R2), NEW q \in Items,
           \/ q \in R /\ q \in R2
           \/ q \notin R /\ q \notin R2 /\ c2[q] = c[q] /\ \A i \in 1..Len(k[q]) : n2[k[q][i]] = n[k[q][i]]
    PROVE  k2[q] = k[q]
<1>1. CASE q \in R /\ q \in R2
  BY <1>1 DEF Lists, Shows
<1>2. CASE q \notin R /\ q \notin R2 /\ c2[q] = c[q] /\ \A i \in 1..Len(k[q]) : n2[k[q][i]] = n[k[q][i]]
  <2>1. List(k[q], n, c[q])
    BY <1>2, ShownLists DEF Lists
  <2>2. List(k[q], n2, c2[q])
    BY <1>2, <2>1, SameList
  <2> QED
    BY <1>2, <2>2, KidsAre
<1> QED
  BY <1>1, <1>2

\* An item is an element of p or not; the elements are linked.
LEMMA PlaceOf ==
    ASSUME NEW L, NEW n, NEW v, NEW c, NEW t, NEW R, NEW A, NEW k, Tree(L, n, v, c, t, R, A, k),
           NEW p \in Items, p \notin R, c[p] # NULL, NEW y \in Chain(n, c[p])
    PROVE  \E i \in 1..Len(k[p]) : k[p][i] = y
<1>1. ToSet(k[p]) = Chain(n, c[p])
  BY TreeTypes, ShownElements
<1>2. PICK i \in DOMAIN k[p] : k[p][i] = y
  BY <1>1 DEF ToSet
<1> QED
  BY <1>2, TreeTypes

\* x behind the last element.
LEMMA AttachLastKids ==
    ASSUME NEW L, NEW n, NEW v, NEW c, NEW t, NEW R, NEW A, NEW k, Tree(L, n, v, c, t, R, A, k),
           NEW x \in A, NEW p \in L \ R, NEW i \in 1..Len(k[p]), n[k[p][i]] = NULL,
           NEW n2, n2[k[p][i]] = x, \A z \in Items : z # k[p][i] => n2[z] = n[z],
           NEW v2, NEW k2, Tree(L, n2, v2, c, t, R, A \ {x}, k2)
    PROVE  k2 = [k EXCEPT ![p] = InsertAt(k[p], Len(k[p]) + 1, x)]
<1> DEFINE s == k[p]
           last == s[i]
<1>1. p \in Items /\ x \in Items /\ s \in Seq(Items) /\ Len(s) \in Nat /\ i \in DOMAIN s /\ List(s, n, c[p]) /\ n[x] = NULL
  BY TreeTypes
<1>2. i = Len(s) /\ last \notin A /\ last \in Items
  <2>1. \A w \in L : w # NULL /\ w \in Items
    BY TreeTypes
  <2>2. Sound(L, n, v, c, t, R, A) /\ Shows(k, n, c, R) /\ p \in Items
    BY <1>1, TreeTypes
  <2>3. \A j \in DOMAIN k[p] :
            k[p][j] \in L /\ k[p][j] \notin A /\ (j # Len(k[p]) => j + 1 \in DOMAIN k[p] /\ n[k[p][j]] = k[p][j + 1])
    BY ONLY <2>2, ElementBefore
  <2> QED
    BY <1>1, <2>1, <2>3
<1>3. \A z \in Items : n2[z] = IF z = last THEN x ELSE n[z]
  BY <1>2, TreeTypes
<1>4. ASSUME NEW q \in Items, q # p PROVE k2[q] = k[q]
  <2>1. ASSUME NEW j \in 1..Len(k[q]) PROVE n2[k[q][j]] = n[k[q][j]]
    <3>1. j \in DOMAIN k[q] /\ k[q][j] \in Items
      BY TreeTypes
    <3>2. k[q][j] # last
      BY <1>1, <1>4, <3>1, TreeTypes, OnePlace
    <3> QED
      BY <3>1, <3>2, <1>3
  <2>2. Lists(k, n, c, R) /\ Lists(k2, n2, c, R) /\ c[q] = c[q]
    BY TreeTypes
  <2> QED
    BY <2>1, <2>2, KidsStay
<1>5. k2[p] = InsertAt(s, Len(s) + 1, x)
  <2> DEFINE m == Len(s) + 1
  <2>1. m \in 1..Len(s) + 1 /\ m # 1 /\ m - 1 = Len(s)
    BY <1>1, <1>2
  <2>2. n2[x] = NULL
    BY <1>1, <1>2, <1>3
  <2>3. n2[s[m - 1]] = x
    BY <1>2, <1>3, <2>1
  <2>4. ASSUME NEW j \in 1..Len(s), j # m - 1 PROVE n2[s[j]] = n[s[j]]
    <3>1. j \in DOMAIN s /\ s[j] \in Items
      BY <1>1
    <3>2. s[j] # last
      <4>1. j # i
        BY <1>2, <2>1, <2>4
      <4>2. s[j] = s[i] => p = p /\ j = i
        BY <1>1, <3>1, TreeTypes, OnePlace
      <4> QED
        BY <4>1, <4>2
    <3> QED
      BY <3>1, <3>2, <1>3
  <2>5. c[p] # NULL
    BY <1>1, <1>2 DEF List, IsList
  <2> HIDE DEF m, s, last
  <2>6. List(InsertAt(s, m, x), n2, c[p])
    BY <1>1, <2>1, <2>2, <2>3, <2>4, LongerList DEF m
  <2>7. Lists(k2, n2, c, R) /\ p \notin R
    BY TreeTypes
  <2> QED
    BY <1>1, <2>6, <2>7, KidsAre DEF m
<1>6. k2 \in [Items -> Seq(Items)] /\ k \in [Items -> Seq(Items)]
  BY TreeTypes
<1> QED
  BY <1>1, <1>4, <1>5, <1>6

\* x as the only element.
LEMMA AttachFirstKids ==
    ASSUME NEW L, NEW n, NEW v, NEW c, NEW t, NEW R, NEW A, NEW k, Tree(L, n, v, c, t, R, A, k),
           NEW x \in A, NEW p \in L \ R, c[p] = NULL,
           NEW c2, c2[p] = x, \A z \in Items : z # p => c2[z] = c[z], NEW k2, Tree(L, n, v, c2, t, R, A \ {x}, k2)
    PROVE  k2 = [k EXCEPT ![p] = InsertAt(k[p], Len(k[p]) + 1, x)]
<1>1. p \in Items /\ x \in Items /\ List(k[p], n, NULL) /\ n[x] = NULL
  BY TreeTypes
<1>2. k[p] = <<>> /\ Len(k[p]) + 1 = 1
  BY <1>1 DEF List, IsList
<1>5. ASSUME NEW q \in Items, q # p PROVE k2[q] = k[q]
  <2>1. Lists(k, n, c, R) /\ Lists(k2, n, c2, R) /\ c2[q] = c[q]
    BY <1>5, TreeTypes
  <2> QED
    BY <2>1, KidsStay
<1>6. List(InsertAt(k[p], 1, x), n, x)
  <2>1. 1 \in 1..Len(k[p]) + 1 /\ \A j \in 1..Len(k[p]) : FALSE
    BY <1>2
  <2> QED
    BY <1>1, <1>2, <2>1, LongerList
<1>7. k2[p] = InsertAt(k[p], Len(k[p]) + 1, x)
  <2>1. Lists(k2, n, c2, R) /\ p \notin R /\ List(InsertAt(k[p], 1, x), n, c2[p])
    BY <1>6, TreeTypes
  <2> QED
    BY <1>1, <1>2, <2>1, KidsAre
<1>8. k2 \in [Items -> Seq(Items)] /\ k \in [Items -> Seq(Items)]
  BY TreeTypes
<1> QED
  BY <1>1, <1>5, <1>7, <1>8

\* The elements of all items are allocated, linked, and in one place each.
Placed(L, v, c, A, k) ==
    /\ \A q \in Items : \A j \in DOMAIN k[q] :
        /\ k[q][j] \in L /\ k[q][j] \notin A /\ k[q][j] \in Items /\ k[q][j] # NULL
        /\ k[q][j] = c[q] <=> j = 1
        /\ j = 1 => v[k[q][j]] = NULL
        /\ j # 1 => j - 1 \in DOMAIN k[q] /\ v[k[q][j]] = k[q][j - 1]
    /\ \A q, r \in Items : \A i \in DOMAIN k[q] : \A j \in DOMAIN k[r] : k[q][i] = k[r][j] => q = r /\ i = j

LEMMA TreePlaced ==
    ASSUME NEW L, NEW n, NEW v, NEW c, NEW t, NEW R, NEW A, NEW k, Tree(L, n, v, c, t, R, A, k)
    PROVE  Placed(L, v, c, A, k)
<1>1. ASSUME NEW q \in Items, NEW j \in DOMAIN k[q]
      PROVE  /\ q \notin R /\ k[q][j] \in L /\ k[q][j] \notin A /\ k[q][j] \in Items /\ k[q][j] # NULL
             /\ j = 1 => k[q][j] = c[q] /\ v[k[q][j]] = NULL
             /\ j # 1 => j - 1 \in DOMAIN k[q] /\ v[k[q][j]] = k[q][j - 1]
  <2>1. Sound(L, n, v, c, t, R, A) /\ Shows(k, n, c, R) /\ L \subseteq Items /\ NULL \notin Items
    BY TreeTypes
  <2> QED
    BY <2>1, ElementBefore
<1>2. ASSUME NEW q \in Items, NEW r \in Items, NEW i \in DOMAIN k[q], NEW j \in DOMAIN k[r], k[q][i] = k[r][j]
      PROVE  q = r /\ i = j
  BY <1>2, TreeTypes, OnePlace
<1>3. ASSUME NEW q \in Items, NEW j \in DOMAIN k[q], k[q][j] = c[q] PROVE j = 1
  <2>1. c[q] # NULL /\ q \notin R
    BY <1>1, <1>3
  <2>2. List(k[q], n, c[q]) /\ DOMAIN k[q] = 1..Len(k[q]) /\ Len(k[q]) \in Nat /\ k[q] \in Seq(Items)
    BY <2>1, TreeTypes
  <2>3. k[q][1] = c[q] /\ 1 \in DOMAIN k[q]
    BY <2>1, <2>2 DEF List, IsList
  <2> QED
    BY <1>2, <1>3, <2>3
<1> QED
  BY <1>1, <1>2, <1>3 DEF Placed

\* The heap with x before y, without y, and with x for y.
InsertsBefore(x, p, y, n, v, c, n2, c2) ==
    /\ n2[x] = y
    /\ \A z \in Items \ {x} : n2[z] = IF y # c[p] /\ z = v[y] THEN x ELSE n[z]
    /\ \A z \in Items : c2[z] = IF z = p /\ y = c[p] THEN x ELSE c[z]
TakesOut(p, y, n, v, c, n2, c2) ==
    /\ \A z \in Items : n2[z] = IF z = y THEN NULL ELSE IF z = v[y] THEN n[y] ELSE n[z]
    /\ \A z \in Items : c2[z] = IF z = p /\ y = c[p] THEN n[y] ELSE c[z]
PutsFor(x, p, y, n, v, c, n2, c2) ==
    /\ n2[x] = n[y]
    /\ \A z \in Items \ {x} : n2[z] = IF z = y THEN NULL ELSE IF z = v[y] THEN x ELSE n[z]
    /\ \A z \in Items : c2[z] = IF z = p /\ y = c[p] THEN x ELSE c[z]

\* x before element i.
LEMMA AttachBeforeKids ==
    ASSUME NEW L, NEW n, NEW v, NEW c, NEW t, NEW R, NEW A, NEW k, Tree(L, n, v, c, t, R, A, k),
           NEW x \in A, NEW p \in L \ R, NEW i \in 1..Len(k[p]),
           NEW n2, NEW v2, NEW c2, NEW A2, NEW k2, InsertsBefore(x, p, k[p][i], n, v, c, n2, c2),
           Tree(L, n2, v2, c2, t, R, A2, k2)
    PROVE  k2 = [k EXCEPT ![p] = InsertAt(k[p], i, x)]
<1> DEFINE s == k[p]
           y == s[i]
<1>1. /\ p \in Items /\ x \in Items /\ s \in Seq(Items) /\ Len(s) \in Nat /\ DOMAIN s = 1..Len(s) /\ i \in DOMAIN s
      /\ List(s, n, c[p]) /\ p \notin R
  BY TreeTypes
<1>2. \A q \in Items : DOMAIN k[q] = 1..Len(k[q])
  BY TreeTypes
<1>3. Placed(L, v, c, A, k)
  BY TreePlaced
<1>4. \A q \in Items : \A j \in DOMAIN k[q] : k[q][j] \in Items \ {x}
  BY <1>3 DEF Placed
<1>5. ASSUME NEW q \in Items, NEW j \in DOMAIN k[q], q # p \/ j # i - 1 PROVE n2[k[q][j]] = n[k[q][j]]
  <2>1. CASE i = 1
    <3>1. y = c[p] /\ k[q][j] \in Items \ {x}
      BY <2>1, <1>1, <1>3, <1>4 DEF Placed
    <3> QED
      BY <3>1 DEF InsertsBefore
  <2>2. CASE i # 1
    <3>1. i - 1 \in DOMAIN s /\ v[y] = s[i - 1]
      BY <2>2, <1>1, <1>3 DEF Placed
    <3>2. k[q][j] # s[i - 1] /\ k[q][j] \in Items \ {x}
      BY <3>1, <1>1, <1>3, <1>4, <1>5 DEF Placed
    <3> QED
      BY <3>1, <3>2 DEF InsertsBefore
  <2> QED
    BY <2>1, <2>2
<1>6. ASSUME NEW q \in Items, q # p PROVE k2[q] = k[q]
  <2>1. \A j \in 1..Len(k[q]) : n2[k[q][j]] = n[k[q][j]]
    BY <1>2, <1>5, <1>6
  <2>2. Lists(k, n, c, R) /\ Lists(k2, n2, c2, R)
    BY TreeTypes
  <2>3. c2[q] = c[q]
    BY <1>6 DEF InsertsBefore
  <2>4. q \in R \/ q \notin R
    OBVIOUS
  <2> QED
    BY <2>1, <2>2, <2>3, <2>4, KidsStay
<1>7. k2[p] = InsertAt(s, i, x)
  <2> DEFINE a2 == c2[p]
  <2>1. a2 = IF i = 1 THEN x ELSE c[p]
    <3>1. y = c[p] <=> i = 1
      BY <1>1, <1>3 DEF Placed
    <3> QED
      BY <3>1, <1>1 DEF InsertsBefore
  <2>2. i \in 1..Len(s) + 1 /\ i # Len(s) + 1
    BY <1>1
  <2>3. i # 1 => n2[s[i - 1]] = x
    <3>1. i # 1 => y # c[p] /\ i - 1 \in DOMAIN s /\ v[y] = s[i - 1]
      BY <1>1, <1>3 DEF Placed
    <3>2. i # 1 => s[i - 1] \in Items \ {x}
      BY <3>1, <1>1, <1>4
    <3> QED
      BY <3>1, <3>2 DEF InsertsBefore
  <2>4. \A j \in 1..Len(s) : j # i - 1 => n2[s[j]] = n[s[j]]
    BY <1>1, <1>5
  <2>5. n2[x] = IF i = Len(s) + 1 THEN NULL ELSE s[i]
    BY <2>2 DEF InsertsBefore
  <2>6. Lists(k2, n2, c2, R)
    BY TreeTypes
  <2> HIDE DEF s, a2
  <2>7. List(InsertAt(s, i, x), n2, a2)
    BY <1>1, <2>1, <2>2, <2>3, <2>4, <2>5, LongerList
  <2>8. List(InsertAt(s, i, x), n2, c2[p])
    BY <2>7 DEF a2
  <2>9. p \in Items /\ p \notin R
    BY <1>1
  <2>10. \A w : List(w, n2, c2[p]) => k2[p] = w
    BY <2>6, <2>9, KidsAre
  <2> QED
    BY <2>8, <2>10
<1>8. k2 \in [Items -> Seq(Items)] /\ k \in [Items -> Seq(Items)]
  BY TreeTypes
<1> QED
  BY <1>1, <1>6, <1>7, <1>8

\* Element i is taken out.
LEMMA DetachedKids ==
    ASSUME NEW L, NEW n, NEW v, NEW c, NEW t, NEW R, NEW A, NEW k, Tree(L, n, v, c, t, R, A, k),
           NEW p \in L \ R, NEW i \in 1..Len(k[p]),
           NEW n2, NEW v2, NEW c2, NEW A2, NEW k2, TakesOut(p, k[p][i], n, v, c, n2, c2),
           Tree(L, n2, v2, c2, t, R, A2, k2)
    PROVE  k2 = [k EXCEPT ![p] = RemoveAt(k[p], i)]
<1> DEFINE s == k[p]
           y == s[i]
<1>1. /\ p \in Items /\ s \in Seq(Items) /\ Len(s) \in Nat /\ DOMAIN s = 1..Len(s) /\ i \in DOMAIN s
      /\ List(s, n, c[p]) /\ p \notin R
  BY TreeTypes
<1>2. \A q \in Items : DOMAIN k[q] = 1..Len(k[q])
  BY TreeTypes
<1>3. Placed(L, v, c, A, k)
  BY TreePlaced
<1>4. ASSUME NEW q \in Items, NEW j \in DOMAIN k[q] PROVE k[q][j] \in Items /\ k[q][j] # NULL
  BY <1>3 DEF Placed
<1>5. ASSUME NEW q \in Items, NEW j \in DOMAIN k[q], q # p \/ (j # i - 1 /\ j # i) PROVE n2[k[q][j]] = n[k[q][j]]
  <2>0. k[q][j] # y
    BY <1>1, <1>3, <1>5 DEF Placed
  <2>1. CASE i = 1
    <3>1. v[y] = NULL
      BY <2>1, <1>1, <1>3 DEF Placed
    <3> QED
      BY <2>0, <3>1, <1>4 DEF TakesOut
  <2>2. CASE i # 1
    <3>1. i - 1 \in DOMAIN s /\ v[y] = s[i - 1]
      BY <2>2, <1>1, <1>3 DEF Placed
    <3>2. k[q][j] # s[i - 1]
      BY <3>1, <1>1, <1>3, <1>5 DEF Placed
    <3> QED
      BY <2>0, <3>1, <3>2, <1>4 DEF TakesOut
  <2> QED
    BY <2>1, <2>2
<1>6. ASSUME NEW q \in Items, q # p PROVE k2[q] = k[q]
  <2>1. \A j \in 1..Len(k[q]) : n2[k[q][j]] = n[k[q][j]]
    BY <1>2, <1>5, <1>6
  <2>2. Lists(k, n, c, R) /\ Lists(k2, n2, c2, R)
    BY TreeTypes
  <2>3. c2[q] = c[q]
    BY <1>6 DEF TakesOut
  <2>4. q \in R \/ q \notin R
    OBVIOUS
  <2> QED
    BY <2>1, <2>2, <2>3, <2>4, KidsStay
<1>7. k2[p] = RemoveAt(s, i)
  <2> DEFINE a2 == c2[p]
  <2>1. a2 = IF i = 1 THEN n[s[i]] ELSE c[p]
    <3>1. y = c[p] <=> i = 1
      BY <1>1, <1>3 DEF Placed
    <3> QED
      BY <3>1, <1>1 DEF TakesOut
  <2>2. i \in 1..Len(s)
    BY <1>1
  <2>3. i # 1 => n2[s[i - 1]] = n[s[i]]
    <3>1. i # 1 => i - 1 \in DOMAIN s /\ v[y] = s[i - 1] /\ i - 1 # i
      BY <1>1, <1>3 DEF Placed
    <3>2. i # 1 => s[i - 1] # y
      BY <3>1, <1>1, <1>3 DEF Placed
    <3> QED
      BY <3>1, <3>2, <1>1, <1>4 DEF TakesOut
  <2>4. \A j \in 1..Len(s) : j # i - 1 /\ j # i => n2[s[j]] = n[s[j]]
    BY <1>1, <1>5
  <2>5. TRUE
    OBVIOUS
  <2>6. Lists(k2, n2, c2, R)
    BY TreeTypes
  <2> HIDE DEF s, a2
  <2>7. List(RemoveAt(s, i), n2, a2)
    BY <1>1, <2>1, <2>2, <2>3, <2>4, <2>5, ShorterList
  <2>8. List(RemoveAt(s, i), n2, c2[p])
    BY <2>7 DEF a2
  <2>9. p \in Items /\ p \notin R
    BY <1>1
  <2>10. \A w : List(w, n2, c2[p]) => k2[p] = w
    BY <2>6, <2>9, KidsAre
  <2> QED
    BY <2>8, <2>10
<1>8. k2 \in [Items -> Seq(Items)] /\ k \in [Items -> Seq(Items)]
  BY TreeTypes
<1> QED
  BY <1>1, <1>6, <1>7, <1>8

\* x has the place of element i.
LEMMA ReplacedKids ==
    ASSUME NEW L, NEW n, NEW v, NEW c, NEW t, NEW R, NEW A, NEW k, Tree(L, n, v, c, t, R, A, k),
           NEW x \in A, NEW p \in L \ R, NEW i \in 1..Len(k[p]),
           NEW n2, NEW v2, NEW c2, NEW A2, NEW k2, PutsFor(x, p, k[p][i], n, v, c, n2, c2),
           Tree(L, n2, v2, c2, t, R, A2, k2)
    PROVE  k2 = [k EXCEPT ![p] = ReplaceAt(k[p], i, x)]
<1> DEFINE s == k[p]
           y == s[i]
<1>1. /\ p \in Items /\ x \in Items /\ s \in Seq(Items) /\ Len(s) \in Nat /\ DOMAIN s = 1..Len(s) /\ i \in DOMAIN s
      /\ List(s, n, c[p]) /\ p \notin R
  BY TreeTypes
<1>2. \A q \in Items : DOMAIN k[q] = 1..Len(k[q])
  BY TreeTypes
<1>3. Placed(L, v, c, A, k)
  BY TreePlaced
<1>4. ASSUME NEW q \in Items, NEW j \in DOMAIN k[q] PROVE k[q][j] # x /\ k[q][j] \in Items /\ k[q][j] # NULL
  BY <1>3 DEF Placed
<1>5. ASSUME NEW q \in Items, NEW j \in DOMAIN k[q], q # p \/ (j # i - 1 /\ j # i) PROVE n2[k[q][j]] = n[k[q][j]]
  <2>0. k[q][j] # y
    BY <1>1, <1>3, <1>5 DEF Placed
  <2>1. CASE i = 1
    <3>1. v[y] = NULL
      BY <2>1, <1>1, <1>3 DEF Placed
    <3> QED
      BY <2>0, <3>1, <1>4 DEF PutsFor
  <2>2. CASE i # 1
    <3>1. i - 1 \in DOMAIN s /\ v[y] = s[i - 1]
      BY <2>2, <1>1, <1>3 DEF Placed
    <3>2. k[q][j] # s[i - 1]
      BY <3>1, <1>1, <1>3, <1>5 DEF Placed
    <3> QED
      BY <2>0, <3>1, <3>2, <1>4 DEF PutsFor
  <2> QED
    BY <2>1, <2>2
<1>6. ASSUME NEW q \in Items, q # p PROVE k2[q] = k[q]
  <2>1. \A j \in 1..Len(k[q]) : n2[k[q][j]] = n[k[q][j]]
    BY <1>2, <1>5, <1>6
  <2>2. Lists(k, n, c, R) /\ Lists(k2, n2, c2, R)
    BY TreeTypes
  <2>3. c2[q] = c[q]
    BY <1>6 DEF PutsFor
  <2>4. q \in R \/ q \notin R
    OBVIOUS
  <2> QED
    BY <2>1, <2>2, <2>3, <2>4, KidsStay
<1>7. k2[p] = ReplaceAt(s, i, x)
  <2> DEFINE a2 == c2[p]
  <2>1. a2 = IF i = 1 THEN x ELSE c[p]
    <3>1. y = c[p] <=> i = 1
      BY <1>1, <1>3 DEF Placed
    <3> QED
      BY <3>1, <1>1 DEF PutsFor
  <2>2. i \in 1..Len(s)
    BY <1>1
  <2>3. i # 1 => n2[s[i - 1]] = x
    <3>1. i # 1 => i - 1 \in DOMAIN s /\ v[y] = s[i - 1] /\ i - 1 # i
      BY <1>1, <1>3 DEF Placed
    <3>2. i # 1 => s[i - 1] # y
      BY <3>1, <1>1, <1>3 DEF Placed
    <3> QED
      BY <3>1, <3>2, <1>1, <1>4 DEF PutsFor
  <2>4. \A j \in 1..Len(s) : j # i - 1 /\ j # i => n2[s[j]] = n[s[j]]
    BY <1>1, <1>5
  <2>5. n2[x] = n[s[i]]
    BY DEF PutsFor
  <2>6. Lists(k2, n2, c2, R)
    BY TreeTypes
  <2> HIDE DEF s, a2
  <2>7. List(ReplaceAt(s, i, x), n2, a2)
    BY <1>1, <2>1, <2>2, <2>3, <2>4, <2>5, ReplacedList
  <2>8. List(ReplaceAt(s, i, x), n2, c2[p])
    BY <2>7 DEF a2
  <2>9. p \in Items /\ p \notin R
    BY <1>1
  <2>10. \A w : List(w, n2, c2[p]) => k2[p] = w
    BY <2>6, <2>9, KidsAre
  <2> QED
    BY <2>8, <2>10
<1>8. k2 \in [Items -> Seq(Items)] /\ k \in [Items -> Seq(Items)]
  BY TreeTypes
<1> QED
  BY <1>1, <1>6, <1>7, <1>8

-----------------------------------------------------------------------------
(* Items that are new and items that are freed.                            *)

\* The lists of the items that stay do not change,
LEMMA FreedKids ==
    ASSUME NEW L, NEW n, NEW v, NEW c, NEW t, NEW R, NEW A, NEW k, Tree(L, n, v, c, t, R, A, k),
           NEW D, NEW n2, NEW c2, \A z \in Items \ D : n2[z] = n[z] /\ c2[z] = c[z],
           NEW v2, NEW t2, NEW A2, NEW k2, Tree(L \ D, n2, v2, c2, t2, R \ D, A2, k2), NEW q \in Items \ D
    PROVE  k2[q] = k[q] /\ ToSet(k[q]) \cap D = {}
<1>1. Lists(k, n, c, R) /\ Lists(k2, n2, c2, R \ D)
  BY TreeTypes
<1>2. CASE q \in R
  <2>1. k[q] = <<>> /\ k2[q] = <<>>
    BY <1>2, TreeTypes
  <2> QED
    BY <2>1 DEF ToSet
<1>3. CASE q \notin R
  <2>1. List(k[q], n, c[q])
    BY <1>3, TreeTypes
  <2>2. c[q] # NULL => c[q] \in L \ D
    <3>1. c[q] # NULL => q \in L \ D /\ c2[q] # NULL
      BY TreeTypes
    <3>2. Owners(L \ D, v2, c2, R \ D, A2)
      BY TreeTypes DEF Sound
    <3>3. c[q] # NULL => c2[q] \in L \ D
      BY <3>1, <3>2 DEF Owners
    <3> QED
      BY <3>3
  <2>3. \A z \in L \ D : n[z] # NULL => n[z] \in L \ D
    <3>1. Neighbours(L \ D, n2, v2) /\ L \subseteq Items
      BY TreeTypes DEF Sound
    <3> QED
      BY <3>1 DEF Neighbours
  <2>4. ToSet(k[q]) \subseteq L \ D
    BY <2>1, <2>2, <2>3, ListInside
  <2>5. \A i \in 1..Len(k[q]) : k[q][i] \in L \ D
    BY <2>4, TreeTypes DEF ToSet
  <2>6. L \subseteq Items
    BY TreeTypes
  <2>7. \A i \in 1..Len(k[q]) : n2[k[q][i]] = n[k[q][i]]
    BY <2>5, <2>6
  <2>8. q \notin R \ D /\ c2[q] = c[q] /\ q \in Items
    BY <1>3
  <2>9. k2[q] = k[q]
    BY <1>1, <1>3, <2>7, <2>8, KidsStay
  <2> QED
    BY <2>4, <2>9
<1> QED
  BY <1>2, <1>3

\* nor do the lists of the items that were there before.
LEMMA GrownKids ==
    ASSUME NEW L, NEW n, NEW v, NEW c, NEW t, NEW R, NEW A, NEW k, Tree(L, n, v, c, t, R, A, k),
           NEW N, N \cap L = {}, NEW n2, NEW c2, \A z \in Items \ N : n2[z] = n[z] /\ c2[z] = c[z],
           NEW R2, \A z \in Items \ N : z \in R2 <=> z \in R,
           NEW L2, NEW v2, NEW t2, NEW A2, NEW k2, Tree(L2, n2, v2, c2, t2, R2, A2, k2), NEW q \in Items \ N
    PROVE  k2[q] = k[q]
<1>1. Lists(k, n, c, R) /\ Lists(k2, n2, c2, R2) /\ L \subseteq Items
  BY TreeTypes
<1>2. \A i \in 1..Len(k[q]) : k[q][i] \in L
  BY TreeTypes, TreePlaced DEF Placed
<1>3. \A i \in 1..Len(k[q]) : n2[k[q][i]] = n[k[q][i]]
  BY <1>1, <1>2
<1>4. c2[q] = c[q] /\ q \in Items /\ (q \in R2 <=> q \in R)
  OBVIOUS
<1>5. (q \in R /\ q \in R2) \/ (q \notin R /\ q \notin R2)
  BY <1>4
<1> QED
  BY <1>1, <1>3, <1>4, <1>5, KidsStay

\* What is reached is in a list or alone.
LEMMA InSomeList ==
    ASSUME NEW L, NEW n, NEW v, NEW c, NEW t, NEW R, NEW A, NEW k, Tree(L, n, v, c, t, R, A, k),
           Reached(L, n, c, R, A), NEW z \in L \ A
    PROVE  \E q \in L : \E i \in DOMAIN k[q] : k[q][i] = z
<1> DEFINE D == A \cup {w \in Items : \E q \in L : \E i \in DOMAIN k[q] : k[q][i] = w}
<1>1. A \subseteq Items /\ L \subseteq Items /\ \A w \in A : n[w] = NULL
  BY TreeTypes
<1>2. D \in SUBSET Items /\ A \subseteq D
  BY <1>1
<1>3. ASSUME NEW w \in D, n[w] # NULL PROVE n[w] \in D
  <2>0. PICK q \in L : \E i \in DOMAIN k[q] : k[q][i] = w
    BY <1>1, <1>3
  <2>1. PICK i \in DOMAIN k[q] : k[q][i] = w
    BY <2>0
  <2>2. Sound(L, n, v, c, t, R, A) /\ Shows(k, n, c, R) /\ q \in Items
    BY <1>1, TreeTypes
  <2>3. i + 1 \in DOMAIN k[q] /\ n[w] = k[q][i + 1]
    BY <1>3, <2>1, <2>2, ElementBefore
  <2>4. n[w] \in Items
    BY <2>2, <2>3, TreePlaced DEF Placed
  <2> QED
    BY <2>3, <2>4
<1>4. ASSUME NEW w \in D, w \notin R, c[w] # NULL PROVE c[w] \in D
  <2>1. w \in Items /\ w \in L
    BY <1>2, <1>4, TreeTypes
  <2>2. List(k[w], n, c[w])
    BY <1>4, <2>1, TreeTypes
  <2>3. k[w] # <<>> /\ k[w][1] = c[w]
    BY <1>4, <2>2 DEF List, IsList
  <2>4. 1 \in DOMAIN k[w]
    BY <2>1, <2>3, TreeTypes
  <2>5. c[w] \in Items
    BY <2>1, <2>3, <2>4, TreePlaced DEF Placed
  <2> QED
    BY <2>1, <2>3, <2>4, <2>5
<1>5. Closed(D, n, c, R)
  BY <1>3, <1>4 DEF Closed
<1>6. L \subseteq D
  <2> HIDE DEF D
  <2> QED
    BY <1>2, <1>5 DEF Reached
<1> QED
  BY <1>6

\* The new items N make one tree with root r.
OneTree(N, r, k) ==
    /\ \A y \in N : ToSet(k[y]) \subseteq N \ {r}
    /\ \A z \in N \ {r} :
          Cardinality({e \in N \X (1..Cardinality(Items)) : e[2] \in DOMAIN k[e[1]] /\ k[e[1]][e[2]] = z}) = 1

LEMMA NewTree ==
    ASSUME NEW L, NEW n, NEW v, NEW c, NEW t, NEW R, NEW A, NEW k, Tree(L, n, v, c, t, R, A, k), Reached(L, n, c, R, A),
           NEW L2, NEW n2, NEW v2, NEW c2, NEW t2, NEW R2, NEW A2, NEW k2, Tree(L2, n2, v2, c2, t2, R2, A2, k2),
           Reached(L2, n2, c2, R2, A2), NEW N, N \cap L = {}, L2 = L \cup N, NEW r \in N, A2 = A \cup {r},
           \A q \in Items \ N : k2[q] = k[q]
    PROVE  OneTree(N, r, k2)
<1>1. /\ L \subseteq Items /\ L2 \subseteq Items /\ N \subseteq Items /\ A \subseteq L
      /\ Placed(L, v, c, A, k) /\ Placed(L2, v2, c2, A2, k2)
  BY TreeTypes, TreePlaced
<1>2. ASSUME NEW y \in N, NEW w \in ToSet(k2[y]) PROVE w \in N \ {r}
  <2>1. PICK j \in DOMAIN k2[y] : k2[y][j] = w
    BY DEF ToSet
  <2>2. w \in L2 /\ w \notin A2
    BY <1>1, <2>1 DEF Placed
  <2>3. ASSUME w \in L PROVE FALSE
    <3>1. w \in L \ A
      BY <2>2, <2>3
    <3>2. PICK q \in L : \E i \in DOMAIN k[q] : k[q][i] = w
      BY <3>1, InSomeList
    <3>3. q \in Items \ N /\ k2[q] = k[q]
      BY <1>1, <3>2
    <3>4. q = y
      BY <1>1, <2>1, <3>2, <3>3 DEF Placed
    <3> QED
      BY <3>3, <3>4
  <2> QED
    BY <2>2, <2>3
<1>3. ASSUME NEW z \in N \ {r}
      PROVE  Cardinality({e \in N \X (1..Cardinality(Items)) : e[2] \in DOMAIN k2[e[1]] /\ k2[e[1]][e[2]] = z}) = 1
  <2> DEFINE P == {e \in N \X (1..Cardinality(Items)) : e[2] \in DOMAIN k2[e[1]] /\ k2[e[1]][e[2]] = z}
  <2>1. z \in L2 \ A2
    BY <1>1
  <2>2. PICK q \in L2 : \E i \in DOMAIN k2[q] : k2[q][i] = z
    BY <2>1, InSomeList
  <2>3. PICK i \in DOMAIN k2[q] : k2[q][i] = z
    BY <2>2
  <2>4. q \in N
    <3> SUFFICES ASSUME q \notin N PROVE FALSE
      OBVIOUS
    <3>1. q \in Items \ N /\ k2[q] = k[q]
      BY <1>1
    <3>2. z \in L
      BY <1>1, <2>3, <3>1 DEF Placed
    <3> QED
      BY <3>2
  <2>5. i \in 1..Cardinality(Items)
    <3>1. k2[q] \in Seq(Items) /\ DOMAIN k2[q] = 1..Len(k2[q]) /\ Len(k2[q]) \in Nat
      BY <1>1, TreeTypes
    <3>2. \A a, b \in DOMAIN k2[q] : k2[q][a] = k2[q][b] => a = b
      BY <1>1 DEF Placed
    <3>3. k2[q] \in SetToSeqs(ToSet(k2[q]))
      BY <3>1, <3>2, SeqOfSet
    <3>4. 1..Len(k2[q]) = 1..Cardinality(ToSet(k2[q]))
      BY <3>1, <3>3 DEF SetToSeqs
    <3>5. ToSet(k2[q]) \subseteq Items
      BY <3>1 DEF ToSet
    <3>6. Cardinality(ToSet(k2[q])) <= Cardinality(Items) /\ IsFiniteSet(ToSet(k2[q]))
      BY <3>5, ItemsAssumption, FS_Subset
    <3>7. Cardinality(Items) \in Nat /\ Cardinality(ToSet(k2[q])) \in Nat
      BY <3>6, ItemsAssumption, FS_CardinalityType
    <3>8. i \in 1..Cardinality(ToSet(k2[q]))
      BY <2>3, <3>1, <3>4
    <3> QED
      BY <3>6, <3>7, <3>8
  <2>6. P = {<<q, i>>}
    <3>1. <<q, i>> \in P
      BY <2>3, <2>4, <2>5
    <3>2. ASSUME NEW e \in P PROVE e = <<q, i>>
      <4>1. e[1] \in N /\ e[2] \in DOMAIN k2[e[1]] /\ k2[e[1]][e[2]] = k2[q][i] /\ e = <<e[1], e[2]>>
        BY <2>3
      <4>2. e[1] = q /\ e[2] = i
        BY <1>1, <2>3, <4>1 DEF Placed
      <4> QED
        BY <4>1, <4>2
    <3> QED
      BY <3>1, <3>2
  <2>7. Cardinality({<<q, i>>}) = 1
    BY FS_Singleton
  <2> QED
    BY <2>6, <2>7
<1> QED
  BY <1>2, <1>3 DEF OneTree

\* Everything below x, when k are the lists.
BelowIn(k, x) ==
    {y \in Items : \A S \in SUBSET Items : (x \in S /\ \A z \in S : ToSet(k[z]) \subseteq S) => y \in S}

LEMMA BelowClosed ==
    ASSUME NEW k \in [Items -> Seq(Items)], NEW x \in Items
    PROVE  /\ x \in BelowIn(k, x) /\ BelowIn(k, x) \subseteq Items
           /\ \A z \in BelowIn(k, x) : ToSet(k[z]) \subseteq BelowIn(k, x)
<1> DEFINE C(S) == x \in S /\ \A z \in S : ToSet(k[z]) \subseteq S
           B == BelowIn(k, x)
<1>1. B = {y \in Items : \A S \in SUBSET Items : C(S) => y \in S}
  BY DEF BelowIn
<1>2. x \in B /\ B \subseteq Items
  BY <1>1
<1>3. ASSUME NEW z \in B, NEW w \in ToSet(k[z]) PROVE w \in B
  <2>1. w \in Items
    <3>1. k[z] \in Seq(Items)
      BY <1>2
    <3> QED
      BY <3>1 DEF ToSet
  <2>2. ASSUME NEW S \in SUBSET Items, C(S) PROVE w \in S
    <3>1. z \in S
      BY <1>1, <2>2
    <3> QED
      BY <1>3, <2>2, <3>1
  <2> HIDE DEF C
  <2> QED
    BY <1>1, <2>1, <2>2
<1> HIDE DEF B
<1>4. x \in B /\ B \subseteq Items /\ \A z \in B : ToSet(k[z]) \subseteq B
  BY <1>2, <1>3
<1> QED
  BY <1>4 DEF B

LEMMA BelowLeast ==
    ASSUME NEW k, NEW x, NEW S \in SUBSET Items, x \in S, \A z \in S : ToSet(k[z]) \subseteq S
    PROVE  BelowIn(k, x) \subseteq S
  BY DEF BelowIn

\* A root has below it what cJSON_Delete frees.
LEMMA BelowIsOwned ==
    ASSUME NEW L, NEW n, NEW v, NEW c, NEW t, NEW A, NEW k, Tree(L, n, v, c, t, reference, A, k), NEW x \in A
    PROVE  BelowIn(k, x) = Owned(n, c, x)
<1> DEFINE B == BelowIn(k, x)
           D == Owned(n, c, x)
<1>1. /\ n \in [Items -> Pointers] /\ c \in [Items -> Pointers] /\ k \in [Items -> Seq(Items)] /\ x \in Items /\ n[x] = NULL
      /\ Sound(L, n, v, c, t, reference, A) /\ Shows(k, n, c, reference)
  BY TreeTypes
<1>2. x \in B /\ B \in SUBSET Items /\ \A z \in B : ToSet(k[z]) \subseteq B
  BY <1>1, BelowClosed
<1>3. /\ x \in D /\ D \in SUBSET Items
      /\ \A z \in D : n[z] # NULL => n[z] \in D
      /\ \A z \in D : z \notin reference /\ c[z] # NULL => c[z] \in D
  BY <1>1, OwnedClosed
<1>4. Placed(L, v, c, A, k)
  BY TreePlaced
<1> HIDE DEF B, D
<1>5. ASSUME NEW z \in B, z # x PROVE \E y \in B : z \in ToSet(k[y])
  <2> SUFFICES ASSUME \A y \in B : z \notin ToSet(k[y]) PROVE FALSE
    OBVIOUS
  <2> DEFINE S == B \ {z}
  <2>1. S \in SUBSET Items /\ x \in S /\ \A y \in S : ToSet(k[y]) \subseteq S
    BY <1>2, <1>5
  <2> HIDE DEF S
  <2>2. B \subseteq S
    BY <2>1, BelowLeast DEF B
  <2> QED
    BY <2>2 DEF S
<1>6. ASSUME NEW z \in B, n[z] # NULL PROVE n[z] \in B
  <2>1. z # x
    BY <1>1, <1>6
  <2>2. PICK y \in B : z \in ToSet(k[y])
    BY <1>5, <2>1
  <2>3. PICK i \in DOMAIN k[y] : k[y][i] = z
    BY <2>2 DEF ToSet
  <2>4. y \in Items
    BY <1>2
  <2>5. i + 1 \in DOMAIN k[y] /\ k[y][i + 1] = n[z]
    BY <1>1, <1>6, <2>3, <2>4, ElementBefore
  <2>6. n[z] \in ToSet(k[y])
    BY <2>5 DEF ToSet
  <2> QED
    BY <1>2, <2>2, <2>6
<1>7. ASSUME NEW z \in B, z \notin reference, c[z] # NULL PROVE c[z] \in B
  <2>1. z \in Items
    BY <1>2
  <2>2. List(k[z], n, c[z]) /\ k[z] \in Seq(Items) /\ DOMAIN k[z] = 1..Len(k[z])
    BY <1>7, <2>1, TreeTypes
  <2>3. k[z] # <<>> /\ k[z][1] = c[z]
    BY <1>7, <2>2 DEF List, IsList
  <2>4. 1 \in DOMAIN k[z]
    BY <2>2, <2>3
  <2>5. c[z] \in ToSet(k[z])
    BY <2>3, <2>4 DEF ToSet
  <2> QED
    BY <1>2, <2>5
<1>8. D \subseteq B
  BY <1>2, <1>6, <1>7, OwnedLeast DEF D
<1>9. ASSUME NEW z \in D PROVE ToSet(k[z]) \subseteq D
  <2>0. z \in Items
    BY <1>3
  <2>1. CASE z \in reference
    <3>1. k[z] = <<>>
      BY <2>0, <2>1, TreeTypes
    <3> QED
      BY <3>1 DEF ToSet
  <2>2. CASE z \notin reference
    <3>1. List(k[z], n, c[z]) /\ (c[z] # NULL => c[z] \in D)
      BY <1>3, <2>0, <2>2, TreeTypes
    <3> QED
      BY <3>1, <1>3, ListInside
  <2> QED
    BY <2>1, <2>2
<1>10. B \subseteq D
  BY <1>3, <1>9, BelowLeast DEF B
<1> QED
  BY <1>8, <1>10 DEF B, D

\* f and g differ in E at most.
Off(E, f, g) == \A z \in Items : z \notin E => g[z] = f[z]

\* A change of the elements of p changes nothing of what is not above p.
LEMMA BelowSame ==
    ASSUME NEW k \in [Items -> Seq(Items)], NEW k2 \in [Items -> Seq(Items)], NEW p, NEW y \in Items,
           Off({p}, k, k2), p \notin BelowIn(k2, y)
    PROVE  BelowIn(k, y) = BelowIn(k2, y)
<1> DEFINE B == BelowIn(k, y)
           D == BelowIn(k2, y)
<1>1. y \in B /\ B \in SUBSET Items /\ \A z \in B : ToSet(k[z]) \subseteq B
  BY BelowClosed
<1>2. y \in D /\ D \in SUBSET Items /\ \A z \in D : ToSet(k2[z]) \subseteq D
  BY BelowClosed
<1>3. \A z \in D : k2[z] = k[z]
  BY <1>2 DEF Off
<1> HIDE DEF B, D
<1>4. B \subseteq D
  BY <1>2, <1>3, BelowLeast DEF B
<1>5. \A z \in B : k2[z] = k[z]
  BY <1>2, <1>3, <1>4
<1>6. D \subseteq B
  BY <1>1, <1>5, BelowLeast DEF D
<1> QED
  BY <1>4, <1>6 DEF B, D

\* Nor in E nor in S.
Elsewhere(E, S, f, g) == \A z \in Items : z \notin E /\ z \notin S => g[z] = f[z]

\* What stays when D is freed owns nothing of D.
Stays(L, D, n, c, R) == Closed(L \ D, n, c, R)

\* The items D are freed after the elements of p have changed, and p, which
\* was reached before, is not one of them; S is what was alone and is not now.
LEMMA NotFreed ==
    ASSUME NEW L, NEW n, NEW c, NEW R, NEW A, Reached(L, n, c, R, A), L \subseteq Items,
           NEW p \in L, NEW y \in L, NEW D, y \in D,
           NEW S \in SUBSET Items, Closed(S, n, c, R), y \notin S, A \subseteq (L \ D) \cup S,
           NEW n1, NEW c1, Stays(L, D, n1, c1, R),
           NEW E, p \in D => E \subseteq D, Elsewhere(E, S, n, n1), Off({p}, c, c1)
    PROVE  p \notin D
<1> SUFFICES ASSUME p \in D PROVE FALSE
  OBVIOUS
<1> DEFINE T == (L \ D) \cup S
<1>1. T \in SUBSET Items /\ A \subseteq T
  OBVIOUS
<1>2. ASSUME NEW z \in L \ D, z \notin S, n[z] # NULL PROVE n[z] \in L \ D
  <2>1. n1[z] = n[z]
    BY <1>2 DEF Elsewhere
  <2> QED
    BY <1>2, <2>1 DEF Closed, Stays
<1>3. ASSUME NEW z \in L \ D, z \notin R, c[z] # NULL PROVE c[z] \in L \ D
  <2>1. c1[z] = c[z]
    BY <1>3 DEF Off
  <2> QED
    BY <1>3, <2>1 DEF Closed, Stays
<1>4. Closed(T, n, c, R)
  BY <1>2, <1>3 DEF Closed
<1> HIDE DEF T
<1>5. L \subseteq T
  BY <1>1, <1>4 DEF Reached
<1> QED
  BY <1>5 DEF T

-----------------------------------------------------------------------------
(* The steps of the forest.                                                *)

\* The elements of each item by a walk along n.
KidsOf(n, c, R) ==
    [p \in Items |->
        IF p \in R THEN <<>>
        ELSE CHOOSE s \in SetToSeqs(IF c[p] = NULL THEN {} ELSE Chain(n, c[p])) : IsList(s, n, c[p])]

LEMMA WalkShows ==
    ASSUME NEW L, NEW n, NEW v, NEW c, NEW t, NEW R, NEW A, Sound(L, n, v, c, t, R, A), NoCircle(n)
    PROVE  Tree(L, n, v, c, t, R, A, KidsOf(n, c, R))
<1>1. n \in [Items -> Pointers] /\ c \in [Items -> Pointers]
  BY DEF Sound, Typed
<1>2. PICK k : Shows(k, n, c, R)
  BY <1>1, Showing
<1>3. k \in [Items -> Seq(Items)]
  BY <1>2 DEF Shows
<1>4. ASSUME NEW p \in Items PROVE k[p] = KidsOf(n, c, R)[p]
  <2>1. CASE p \in R
    BY <2>1, <1>2 DEF Shows, KidsOf
  <2>2. CASE p \notin R
    <3>1. ASSUME NEW S, S = IF c[p] = NULL THEN {} ELSE Chain(n, c[p])
          PROVE  k[p] = CHOOSE s \in SetToSeqs(S) : IsList(s, n, c[p])
      BY <2>2, <1>2, <3>1, ShownSequence
    <3> QED BY <3>1, <2>2 DEF KidsOf
  <2> QED BY <2>1, <2>2
<1>5. k = KidsOf(n, c, R)
  BY <1>3, <1>4 DEF KidsOf
<1> QED BY <1>1, <1>2, <1>5 DEF Tree, Lists

\* The invariant: no item is lost but those given away, and every walk ends.
FInv == LInv /\ NoCircle(next)

LEMMA KidsNow ==
    ASSUME FInv
    PROVE  Tree(live, next, prev, child, text, reference, Apart, Kids)
<1>1. Kids = KidsOf(next, child, reference)
  BY DEF Kids, KidsOf, Sequence, Elements
<1> QED BY <1>1, WalkShows DEF FInv, LInv, Inv, HeapSound

LEMMA KidsThen ==
    ASSUME FInv'
    PROVE  Tree(live', next', prev', child', text', reference', Apart', Kids')
<1>1. Kids' = KidsOf(next', child', reference')
  BY DEF Kids, KidsOf, Sequence, Elements
<1> QED BY <1>1, WalkShows DEF FInv, LInv, Inv, HeapSound

LEMMA KidsSame ==
    ASSUME UNCHANGED <<next, child, reference>>
    PROVE  Kids' = Kids
BY DEF Kids, Sequence, Elements

\* A new item that is in no list.
LEMMA BornTree ==
    ASSUME NEW L, NEW n, NEW v, NEW c, NEW t, NEW R, NEW A, NEW k, Tree(L, n, v, c, t, R, A, k),
           NEW x \in Items \ L, NEW c2, NEW t2, NEW R2, Sound(L \cup {x}, n, v, c2, t2, R2, A \cup {x}),
           R2 = R \/ R2 = R \cup {x}, \A z \in Items : z # x => c2[z] = c[z], c2[x] = NULL \/ x \in R2
    PROVE  Tree(L \cup {x}, n, v, c2, t2, R2, A \cup {x}, k)
<1>1. x \notin R /\ c[x] = NULL /\ c2 \in [Items -> Pointers] /\ n \in [Items -> Pointers] /\ NoCircle(n)
  BY TreeTypes DEF Sound, Typed
<1>2. k[x] = <<>> /\ Shows(k, n, c, R)
  BY <1>1, TreeTypes DEF List, IsList
<1>3. ASSUME NEW p \in Items, p \in R2 PROVE k[p] = <<>>
  BY <1>2, <1>3 DEF Shows
<1>4. ASSUME NEW p \in Items, p \notin R2 PROVE p \notin R /\ c2[p] = c[p]
  BY <1>1, <1>4
<1>5. Shows(k, n, c2, R2)
  BY <1>2, <1>3, <1>4 DEF Shows
<1> QED BY <1>1, <1>5 DEF Tree, Lists

\* x is linked behind y, the last.
PutsBehind(x, y, n, n2) == n[y] = NULL /\ n2[y] = x /\ \A z \in Items : z # y => n2[z] = n[z]

LEMMA AttachBehindKids ==
    ASSUME NEW L, NEW n, NEW v, NEW c, NEW t, NEW R, NEW A, NEW k, Tree(L, n, v, c, t, R, A, k),
           NEW x \in A, NEW p \in L \ R, NEW y, c[p] # NULL, y \in Chain(n, c[p]),
           NEW n2, NEW v2, NEW k2, PutsBehind(x, y, n, n2), Tree(L, n2, v2, c, t, R, A \ {x}, k2)
    PROVE  k2 = [k EXCEPT ![p] = InsertAt(k[p], Len(k[p]) + 1, x)]
<1>1. p \in Items /\ p \notin R
  BY TreeTypes
<1>2. PICK i \in 1..Len(k[p]) : k[p][i] = y
  BY <1>1, PlaceOf
<1>3. n[k[p][i]] = NULL /\ n2[k[p][i]] = x /\ \A z \in Items : z # k[p][i] => n2[z] = n[z]
  BY <1>2 DEF PutsBehind
<1>4. i \in 1..Len(k[p])
  OBVIOUS
<1> QED BY <1>3, <1>4, AttachLastKids

\* add_item_to_array makes no circle and adds x behind the others.
AddsLast(k, p, x, k2) == k2 = [k EXCEPT ![p] = InsertAt(k[p], Len(k[p]) + 1, x)]

LEMMA AppendKids ==
    ASSUME NEW L, NEW c, NEW t, NEW R, NEW A, NEW k, Tree(L, next, prev, c, t, R, A, k),
           NEW x \in A, NEW p \in L \ R, c[p] = child[p], AppendTo(p, x, c)
    PROVE  /\ NoCircle(next')
           /\ \A k2 : Tree(L, next', prev', child', t, R, A \ {x}, k2) => AddsLast(k, p, x, k2)
<1>1. /\ L \subseteq Items /\ A \subseteq L /\ c \in [Items -> Pointers] /\ next \in [Items -> Pointers] /\ NoCircle(next)
      /\ next[x] = NULL /\ p \in Items /\ p \notin R
  BY TreeTypes
<1>2. CASE child[p] = NULL
  <2>1. child' = [c EXCEPT ![p] = x] /\ next' = next /\ prev' = prev /\ c[p] = NULL
    BY <1>2 DEF AppendTo
  <2>2. child'[p] = x /\ \A z \in Items : z # p => child'[z] = c[z]
    BY <2>1, <1>1
  <2>3. ASSUME NEW k2, Tree(L, next', prev', child', t, R, A \ {x}, k2)
        PROVE  k2 = [k EXCEPT ![p] = InsertAt(k[p], Len(k[p]) + 1, x)]
    <3>1. Tree(L, next, prev, child', t, R, A \ {x}, k2)
      BY <2>1, <2>3
    <3>2. c[p] = NULL
      BY <2>1
    <3> QED BY <2>2, <3>1, <3>2, AttachFirstKids
  <2> QED BY <2>1, <2>3, <1>1 DEF AddsLast
<1>3. CASE child[p] # NULL
  <2>1. PICK last \in Elements(p) : next[last] = NULL /\ next' = [next EXCEPT ![last] = x] /\ prev' = [prev EXCEPT ![x] = last]
    BY <1>3 DEF AppendTo
  <2>2. child' = c
    BY <1>3 DEF AppendTo
  <2>3. c[p] # NULL /\ last \in Chain(next, c[p])
    BY <1>3, <2>1 DEF Elements
  <2>5. last \in L /\ last \notin A
    BY <2>3, <1>1, ElementsLinked DEF Tree
  <2>6. PutsBehind(x, last, next, next')
    BY <2>1, <2>5, <1>1 DEF PutsBehind
  <2>7. NoCircle(next')
    BY <2>1, <2>5, <1>1, AppendCircle
  <2>8. ASSUME NEW k2, Tree(L, next', prev', c, t, R, A \ {x}, k2)
        PROVE  k2 = [k EXCEPT ![p] = InsertAt(k[p], Len(k[p]) + 1, x)]
    <3>1. c[p] # NULL /\ last \in Chain(next, c[p]) /\ PutsBehind(x, last, next, next') /\ x \in A /\ p \in L \ R
      BY <2>3, <2>6
    <3>2. Tree(L, next', prev', c, t, R, A \ {x}, k2) /\ Tree(L, next, prev, c, t, R, A, k)
      BY <2>8
    <3> QED BY ONLY <3>1, <3>2, AttachBehindKids
  <2> QED BY <2>2, <2>7, <2>8 DEF AddsLast
<1> QED BY <1>2, <1>3

\* New items make a new tree.
LEMMA GrowStep ==
    ASSUME FInv, FInv', NEW N, N \cap live = {}, live' = live \cup N, NEW r \in N, Apart' = Apart \cup {r},
           \A z \in Items \ N : next'[z] = next[z] /\ child'[z] = child[z] /\ key'[z] = key[z],
           \A z \in Items \ N : z \in reference' <=> z \in reference
    PROVE  Forest!Next
<1>1. /\ Tree(live, next, prev, child, text, reference, Apart, Kids)
      /\ Tree(live', next', prev', child', text', reference', Apart', Kids')
  BY KidsNow, KidsThen
<1>2. Reached(live, next, child, reference, Apart) /\ Reached(live', next', child', reference', Apart')
  BY DEF FInv, LInv, LossInv
<1>3. \A q \in Items \ N : Kids'[q] = Kids[q]
  BY <1>1, GrownKids
<1>4. OneTree(N, r, Kids')
  BY <1>1, <1>2, <1>3, NewTree
<1>5. live' \ live = N /\ r \in Items
  BY <1>1, TreeTypes
<1>6. Forest!OthersKeep(N)
  BY <1>3 DEF Forest!OthersKeep
<1>7. Forest!Grow(r)
  <2>1. \A x : Forest!ToSet(x) = ToSet(x)
    BY DEF Forest!ToSet, ToSet
  <2>2. \A x : Forest!Cardinality(x) = Cardinality(x)
    BY DEF Forest!Cardinality, Cardinality
  <2> QED BY <1>4, <1>5, <1>6, <2>1, <2>2 DEF Forest!Grow, Apart, OneTree
<1> QED BY <1>5, <1>7 DEF Forest!Next

-----------------------------------------------------------------------------
\* Creating grows a tree.
LEMMA CreateGrows ==
    ASSUME FInv, LInv', NEW x \in Items,
           Create(x) \/ (\E c \in live : CreateReference(x, c)) \/ (\E y \in live : AddReferenceFails(y, x))
    PROVE  FInv' /\ Forest!Next
<1>1. /\ x \notin live /\ live' = live \cup {x} /\ Apart' = Apart \cup {x} /\ next' = next /\ key' = key
      /\ reference' = reference \/ reference' = reference \cup {x}
      /\ child \in [Items -> Pointers]
  BY HeapTypes DEF Create, CreateReference, AddReferenceFails, create_reference, Apart, FInv, LInv
<1>2. \A z \in Items \ {x} : child'[z] = child[z]
  BY <1>1 DEF Create, CreateReference, AddReferenceFails
<1>3. FInv'
  BY <1>1 DEF FInv
<1>4. /\ {x} \cap live = {} /\ x \in {x}
      /\ \A z \in Items \ {x} : next'[z] = next[z] /\ child'[z] = child[z] /\ key'[z] = key[z]
      /\ \A z \in Items \ {x} : z \in reference' <=> z \in reference
  BY <1>1, <1>2
<1> QED BY <1>1, <1>3, <1>4, GrowStep

LEMMA ArrayGrows ==
    ASSUME FInv, LInv', NEW m \in Nat, NEW s \in FreshLists(m + 1), NEW strings, CreateArrayOf(s, strings)
    PROVE  FInv' /\ Forest!Next
<1> DEFINE E == {s[i] : i \in 2..m + 1}
           N == {s[1]} \cup E
<1>0. key' = key
  BY DEF CreateArrayOf
<1> HIDE DEF E
<1>1. /\ MakesArray(live, s, m + 1, E, next, prev, child, text, next', prev', child', text')
      /\ live' = (live \cup {s[1]}) \cup E /\ reference' = reference
      /\ Apart' = Apart \cup {s[1]}
  BY CreatedArray DEF E, FInv, LInv
<1>2. FInv'
  BY <1>1, ArrayCircle DEF FInv
<1>3. \A z \in Items \ N : next'[z] = next[z] /\ child'[z] = child[z] /\ key'[z] = key[z]
  BY <1>0, <1>1 DEF MakesArray
<1>4. s[1] \notin live /\ E \cap live = {}
  BY DEF FreshLists, E
<1>5. N \cap live = {} /\ s[1] \in N /\ live' = live \cup N
  BY <1>1, <1>4
<1> HIDE DEF N
<1> QED BY <1>1, <1>2, <1>3, <1>5, GrowStep

LEMMA CopyGrows ==
    ASSUME FInv, LInv', NEW x \in live, NEW recurse, NEW K, K = CopiedFrom(x, recurse),
           NEW f \in [K -> Items \ live], Duplicate(x, K, f)
    PROVE  FInv' /\ Forest!Next
<1> DEFINE F == {f[z] : z \in K}
<1>0. \A z \in Items \ F : key'[z] = key[z]
  BY DEF Duplicate
<1>00. F \cap live = {}
  OBVIOUS
<1> HIDE DEF F
<1>1. K \subseteq live /\ x \in K
  BY CopiedIsLive DEF FInv, LInv
<1>2. /\ MakesCopy(live, x, K, f, F, next, prev, child, text, next', prev', child', text')
      /\ live' = live \cup F /\ reference' = reference /\ Apart' = Apart \cup {f[x]}
  BY <1>1, CreatedCopy DEF F, FInv, LInv
<1>3. live \subseteq Items /\ NoCircle(next)
  BY HeapTypes DEF FInv, LInv
<1>4. NoCircle(next')
  BY <1>2, <1>3, CopyCircle
<1>5. FInv'
  BY <1>4 DEF FInv
<1>6. \A z \in Items \ F : next'[z] = next[z] /\ child'[z] = child[z] /\ key'[z] = key[z]
  BY <1>0, <1>2 DEF MakesCopy
<1>7. f[x] \in F
  BY <1>1 DEF F
<1> QED BY <1>00, <1>2, <1>5, <1>6, <1>7, GrowStep

\* x gets a place among the elements of p.
LEMMA PlaceStep ==
    ASSUME NEW p \in live, NEW x \in Items, p # x, live \subseteq Items, Apart' = Apart \ {x}, live' = live \cup {x},
           x \in Apart \/ x \notin live, \A z \in Items \ {x} : key'[z] = key[z],
           Kids \in [Items -> Seq(Items)],
           NEW i \in 1..Len(Kids[p]) + 1, Kids' = [Kids EXCEPT ![p] = InsertAt(Kids[p], i, x)]
    PROVE  Forest!Next
<1>1. \A s, j, y : Forest!InsertAt(s, j, y) = InsertAt(s, j, y)
  BY DEF Forest!InsertAt, InsertAt
<1>2. key'[p] = key[p] /\ \A z \in Items \ {p, x} : Kids'[z] = Kids[z] /\ key'[z] = key[z]
  OBVIOUS
<1>3. Forest!Place(p, x)
  BY <1>1, <1>2 DEF Forest!Place, Forest!OthersKeep, Apart
<1> QED BY <1>3 DEF Forest!Next

\* Behind the others, when x is alone.
LEMMA AddPlaces ==
    ASSUME FInv, LInv', NEW p \in Containers, NEW x \in held,
           AddItemToArray(p, x) \/ (\E k \in Keys : AddItemToObject(p, k, x))
    PROVE  FInv' /\ Forest!Next
<1>1. /\ AppendTo(p, x, child) /\ held' = held \ {x} /\ leaked' = leaked /\ Fits(p, x)
      /\ live' = live /\ text' = text /\ reference' = reference
  BY DEF AddItemToArray, AddItemToObject
<1>2. x \in Apart /\ Apart' = Apart \ {x}
  BY <1>1, HandOver DEF FInv, LInv
<1>3. /\ p \in live \ reference /\ x \in live /\ x \in Items /\ x \in Seen(x) /\ p \notin Seen(x) /\ live \subseteq Items
  BY <1>1, SeenClosed, HeapTypes DEF FInv, LInv, Containers, Fits
<1>4. \A z \in Items \ {x} : key'[z] = key[z]
  <2>1. CASE AddItemToArray(p, x)
    BY <2>1 DEF AddItemToArray
  <2>2. CASE \E k \in Keys : AddItemToObject(p, k, x)
    <3>1. PICK k \in Keys : key' = [key EXCEPT ![x] = k]
      BY <2>2 DEF AddItemToObject
    <3> QED BY <3>1
  <2> QED BY <2>1, <2>2
<1>5. Tree(live, next, prev, child, text, reference, Apart, Kids)
  BY KidsNow
<1>6. /\ NoCircle(next')
      /\ \A k2 : Tree(live, next', prev', child', text, reference, Apart \ {x}, k2) => AddsLast(Kids, p, x, k2)
  BY <1>1, <1>2, <1>3, <1>5, AppendKids
<1>7. FInv'
  BY <1>6 DEF FInv
<1>8. Tree(live, next', prev', child', text, reference, Apart \ {x}, Kids')
  BY <1>1, <1>2, <1>7, KidsThen
<1>9. Kids' = [Kids EXCEPT ![p] = InsertAt(Kids[p], Len(Kids[p]) + 1, x)]
  BY <1>6, <1>8 DEF AddsLast
<1>10. Kids \in [Items -> Seq(Items)] /\ Len(Kids[p]) + 1 \in 1..Len(Kids[p]) + 1
  BY <1>3, <1>5, TreeTypes
<1>11. live' = live \cup {x} /\ p # x
  BY <1>1, <1>3
<1> QED BY <1>2, <1>3, <1>4, <1>7, <1>9, <1>10, <1>11, PlaceStep

\* When x is new: a member, or a reference to y.
LEMMA NewPlaces ==
    ASSUME FInv, LInv', NEW p \in Containers, NEW x \in Items \ live, NEW c, NEW R,
           Sound(live \cup {x}, next, prev, c, text', R, Apart \cup {x}),
           R = reference \/ R = reference \cup {x}, \A z \in Items : z # x => c[z] = child[z], c[x] = NULL \/ x \in R,
           AppendTo(p, x, c), live' = live \cup {x}, reference' = R, held' = held, leaked' = leaked,
           \A z \in Items \ {x} : key'[z] = key[z]
    PROVE  FInv' /\ Forest!Next
<1>1. /\ p \in live \ reference /\ live \subseteq Items /\ p # x /\ p \in (live \cup {x}) \ R /\ c[p] = child[p]
      /\ (Apart \cup {x}) \ {x} = Apart /\ Apart' = Apart /\ x \notin Apart
  BY HeapTypes DEF FInv, LInv, Containers, Apart
<1>2. Tree(live, next, prev, child, text, reference, Apart, Kids)
  BY KidsNow
<1>3. Tree(live \cup {x}, next, prev, c, text', R, Apart \cup {x}, Kids)
  BY <1>2, BornTree
<1>4. x \in Apart \cup {x}
  OBVIOUS
<1>5. /\ NoCircle(next')
      /\ \A k2 : Tree(live \cup {x}, next', prev', child', text', R, (Apart \cup {x}) \ {x}, k2)
                    => AddsLast(Kids, p, x, k2)
  BY <1>1, <1>3, <1>4, AppendKids
<1>6. FInv'
  BY <1>5 DEF FInv
<1>7. Tree(live \cup {x}, next', prev', child', text', R, (Apart \cup {x}) \ {x}, Kids')
  BY <1>1, <1>6, KidsThen
<1>8. Kids' = [Kids EXCEPT ![p] = InsertAt(Kids[p], Len(Kids[p]) + 1, x)]
  BY <1>5, <1>7 DEF AddsLast
<1>9. Kids \in [Items -> Seq(Items)] /\ Len(Kids[p]) + 1 \in 1..Len(Kids[p]) + 1
  BY <1>1, <1>2, TreeTypes
<1>10. Apart' = Apart \ {x}
  BY <1>1
<1> QED BY <1>1, <1>6, <1>8, <1>9, <1>10, PlaceStep

LEMMA AddNewPlaces ==
    ASSUME FInv, LInv', NEW p \in Containers, NEW x \in Items, NEW k, AddNewToObject(p, k, x)
    PROVE  FInv' /\ Forest!Next
<1>1. /\ x \in Items \ live /\ live' = live \cup {x} /\ held' = held /\ leaked' = leaked
      /\ reference' = reference /\ AppendTo(p, x, child) /\ key' = [key EXCEPT ![x] = k]
  BY DEF AddNewToObject
<1>2. PICK s \in {NULL, x} : text' = [text EXCEPT ![x] = s]
  BY DEF AddNewToObject
<1>3. text' \in [Items -> Pointers] /\ text'[x] \in {NULL, x} /\ \A z \in Items : z # x => text'[z] = text[z]
  BY <1>1, <1>2, HeapTypes DEF Pointers, FInv, LInv
<1>4. child \in [Items -> Pointers] /\ child[x] = NULL
  BY <1>1, HeapTypes DEF FInv, LInv
<1>5. Sound(live \cup {x}, next, prev, child, text', reference, Apart \cup {x})
  BY <1>1, <1>3, <1>4, Birth DEF FInv, LInv, Inv, HeapSound
<1>6. \A z \in Items \ {x} : key'[z] = key[z]
  BY <1>1
<1> QED BY <1>1, <1>4, <1>5, <1>6, NewPlaces

LEMMA AddReferencePlaces ==
    ASSUME FInv, LInv', NEW p \in Containers, NEW y \in live, NEW x \in Items,
           AddItemReferenceToArray(p, y, x) \/ (\E k \in Keys : AddItemReferenceToObject(p, k, y, x))
    PROVE  FInv' /\ Forest!Next
<1> DEFINE c == [child EXCEPT ![x] = child[y]]
           t == [text EXCEPT ![x] = text[y]]
<1>1. /\ x \in Items \ live /\ live' = live \cup {x} /\ held' = held /\ leaked' = leaked
      /\ reference' = reference \cup {x} /\ text' = t /\ AppendTo(p, x, c)
  BY DEF AddItemReferenceToArray, AddItemReferenceToObject, create_reference
<1>2. child[y] = NULL \/ child[y] \in live
  BY DEF FInv, LInv, Inv, HeapSound, Sound, Owners
<1>3. Sound(live \cup {x}, next, prev, c, t, reference \cup {x}, Apart \cup {x})
  BY <1>1, <1>2, ReferenceBorn DEF FInv, LInv
<1>4. \A z \in Items \ {x} : key'[z] = key[z]
  <2>1. CASE AddItemReferenceToArray(p, y, x)
    BY <2>1 DEF AddItemReferenceToArray
  <2>2. CASE \E k \in Keys : AddItemReferenceToObject(p, k, y, x)
    <3>1. PICK k \in Keys : key' = [key EXCEPT ![x] = k]
      BY <2>2 DEF AddItemReferenceToObject
    <3> QED BY <3>1
  <2> QED BY <2>1, <2>2
<1>5. \A z \in Items : z # x => c[z] = child[z]
  BY HeapTypes DEF FInv, LInv
<1>6. x \in reference \cup {x}
  OBVIOUS
<1> HIDE DEF c, t
<1> QED BY <1>1, <1>3, <1>4, <1>5, <1>6, NewPlaces

\* Before the element y.
LEMMA InsertPlaces ==
    ASSUME FInv, LInv', NEW p \in Containers, NEW x \in held, NEW y \in Elements(p), InsertItemInArray(p, y, x)
    PROVE  FInv' /\ Forest!Next
<1>1. /\ next' = [z \in Items |-> IF z = x THEN y ELSE IF y # child[p] /\ z = prev[y] THEN x ELSE next[z]]
      /\ child' = IF y = child[p] THEN [child EXCEPT ![p] = x] ELSE child
      /\ held' = held \ {x} /\ leaked' = leaked /\ live' = live /\ text' = text /\ reference' = reference /\ key' = key
      /\ Fits(p, x)
  BY DEF InsertItemInArray
<1>2. x \in Apart /\ Apart' = Apart \ {x}
  BY <1>1, HandOver DEF FInv, LInv
<1>3. /\ p \in live \ reference /\ x \in live /\ x \in Items /\ x \in Seen(x) /\ p \notin Seen(x) /\ live \subseteq Items
      /\ next \in [Items -> Pointers] /\ child \in [Items -> Pointers] /\ p \in Items /\ NULL \notin Items
  BY <1>1, SeenClosed, HeapTypes DEF FInv, LInv, Containers, Fits
<1>4. y \in live /\ y \notin Apart /\ Linked(prev, child, p, y)
  BY ElementOf DEF FInv, LInv
<1>5. Tree(live, next, prev, child, text, reference, Apart, Kids) /\ NoCircle(next)
  BY KidsNow DEF FInv
<1>6. child[p] # NULL /\ y \in Chain(next, child[p])
  BY DEF Elements
<1>7. PICK i \in 1..Len(Kids[p]) : Kids[p][i] = y
  BY <1>3, <1>5, <1>6, PlaceOf
<1>8. InsertsBefore(x, p, y, next, prev, child, next', child')
  BY <1>1, <1>3 DEF InsertsBefore
<1>9. \A z \in Items : next[z] # x
  <2>1. \A z \in live : next[z] = x => prev[x] = z
    BY <1>3 DEF FInv, LInv, Inv, HeapSound, Sound, Neighbours
  <2>2. prev[x] = NULL /\ \A z \in Items \ live : next[z] = NULL
    BY <1>2, <1>5, TreeTypes
  <2> QED BY <1>3, <2>1, <2>2
<1>10. \A z \in Items \ {x} : next'[z] = next[z] \/ (next'[z] = x /\ next[z] = y)
  <2>1. ASSUME NEW z \in Items \ {x}, y # child[p], z = prev[y] PROVE next[z] = y
    BY <1>3, <1>4, <2>1 DEF FInv, LInv, Inv, HeapSound, Sound, Neighbours
  <2> QED BY <1>8, <2>1 DEF InsertsBefore
<1>11. NoCircle(next')
  <2>1. next'[x] = y /\ x # y /\ y \in Items
    BY <1>2, <1>3, <1>4, <1>8 DEF InsertsBefore
  <2> QED BY <1>3, <1>5, <1>9, <1>10, <2>1, InsertCircle
<1>12. FInv'
  BY <1>11 DEF FInv
<1>13. Tree(live, next', prev', child', text, reference, Apart \ {x}, Kids')
  BY <1>1, <1>2, <1>12, KidsThen
<1>14. InsertsBefore(x, p, Kids[p][i], next, prev, child, next', child') /\ i \in 1..Len(Kids[p])
  BY <1>7, <1>8
<1>15. Kids' = [Kids EXCEPT ![p] = InsertAt(Kids[p], i, x)]
  BY <1>2, <1>3, <1>5, <1>13, <1>14, AttachBeforeKids
<1>16. Kids \in [Items -> Seq(Items)] /\ i \in 1..Len(Kids[p]) + 1
  BY <1>3, <1>5, <1>14, TreeTypes
<1>17. live' = live \cup {x} /\ p # x /\ \A z \in Items \ {x} : key'[z] = key[z]
  BY <1>1, <1>3
<1> QED BY <1>2, <1>3, <1>12, <1>15, <1>16, <1>17, PlaceStep

-----------------------------------------------------------------------------
\* The operators of the forest are those of the sequences.
LEMMA ForestOperators ==
    /\ \A x : Forest!Below(x) = BelowIn(Kids, x)
    /\ \A s, i : Forest!RemoveAt(s, i) = RemoveAt(s, i)
    /\ \A s, i, x : Forest!ReplaceAt(s, i, x) = ReplaceAt(s, i, x)
<1>1. \A x : Forest!Below(x) = BelowIn(Kids, x)
  BY DEF Forest!Below, BelowIn, Forest!ToSet, ToSet
<1>2. \A s, i : Forest!RemoveAt(s, i) = RemoveAt(s, i)
  BY DEF Forest!RemoveAt, RemoveAt
<1>3. \A s, i, x : Forest!ReplaceAt(s, i, x) = ReplaceAt(s, i, x)
  BY DEF Forest!ReplaceAt, ReplaceAt
<1> QED BY <1>1, <1>2, <1>3

\* An element has a place.
LEMMA ElementPlace ==
    ASSUME FInv, NEW p \in Containers, NEW y \in Elements(p)
    PROVE  /\ p \in live \ reference /\ p \in Items /\ y \in live /\ y \in Items /\ y \notin Apart /\ y # NULL
           /\ Linked(prev, child, p, y) /\ Tree(live, next, prev, child, text, reference, Apart, Kids)
           /\ next \in [Items -> Pointers] /\ child \in [Items -> Pointers] /\ NoCircle(next)
           /\ \E i \in 1..Len(Kids[p]) : Kids[p][i] = y
<1>1. p \in live \ reference /\ p \in Items /\ y \in live /\ y \in Items /\ y \notin Apart /\ y # NULL /\ Linked(prev, child, p, y)
  BY ElementOf, HeapTypes DEF FInv, LInv
<1>2. /\ Tree(live, next, prev, child, text, reference, Apart, Kids)
      /\ next \in [Items -> Pointers] /\ child \in [Items -> Pointers] /\ NoCircle(next)
  BY KidsNow, HeapTypes DEF FInv, LInv
<1>3. child[p] # NULL /\ y \in Chain(next, child[p])
  BY DEF Elements
<1>4. \E i \in 1..Len(Kids[p]) : Kids[p][i] = y
  <2>1. p \in Items /\ p \notin reference
    BY <1>1
  <2>2. Tree(live, next, prev, child, text, reference, Apart, Kids)
    BY <1>2
  <2> QED BY ONLY <1>3, <2>1, <2>2, PlaceOf
<1> QED BY <1>1, <1>2, <1>4

\* The heap without the element y of p.
LEMMA WithoutHeap ==
    ASSUME FInv, NEW p \in Containers, NEW y \in Elements(p), NEW n, NEW c, n = NextWithout(y), c = ChildWithout(p, y)
    PROVE  /\ NoCircle(n) /\ TakesOut(p, y, next, prev, child, n, c)
           /\ \A z \in Items : z # p => c[z] = child[z]
<1>1. /\ p \in Items /\ y \in Items /\ y \in live /\ next \in [Items -> Pointers] /\ child \in [Items -> Pointers]
      /\ NoCircle(next) /\ y # NULL
  BY ElementPlace
<1>2. TakesOut(p, y, next, prev, child, n, c)
  BY <1>1 DEF NextWithout, ChildWithout, TakesOut
<1>3. ASSUME NEW z \in Items, z = prev[y] PROVE next[z] = y
  BY <1>1, <1>3, HeapTypes DEF FInv, LInv, Inv, HeapSound, Sound, Neighbours
<1>4. n[y] = NULL /\ \A z \in Items \ {y} : n[z] = next[z] \/ (next[z] = y /\ n[z] = next[y])
  BY <1>1, <1>2, <1>3 DEF TakesOut
<1>5. NoCircle(n)
  BY <1>1, <1>4, DetachCircle
<1>6. \A z \in Items : z # p => c[z] = child[z]
  BY <1>2 DEF TakesOut
<1> QED BY <1>2, <1>5, <1>6

\* Its elements are without y too.
LEMMA DetachTakes ==
    ASSUME FInv, LInv', NEW p \in Containers, NEW y \in Elements(p), DetachItemViaPointer(p, y)
    PROVE  FInv' /\ Forest!Next
<1>1. /\ next' = NextWithout(y) /\ child' = ChildWithout(p, y)
      /\ held' = held \cup {y} /\ leaked' = leaked /\ live' = live /\ text' = text /\ reference' = reference /\ key' = key
  BY DEF DetachItemViaPointer
<1>2. NoCircle(next') /\ TakesOut(p, y, next, prev, child, next', child')
  BY <1>1, WithoutHeap
<1>3. FInv'
  BY <1>2 DEF FInv
<1>4. Tree(live, next', prev', child', text, reference, Apart', Kids')
  BY <1>1, <1>3, KidsThen
<1>5. p \in live \ reference /\ p \in live /\ Tree(live, next, prev, child, text, reference, Apart, Kids)
  BY ElementPlace
<1>6. PICK i \in 1..Len(Kids[p]) : Kids[p][i] = y
  BY ElementPlace
<1>7. TakesOut(p, Kids[p][i], next, prev, child, next', child') /\ i \in 1..Len(Kids[p])
  BY <1>2, <1>6
<1>8. Kids' = [Kids EXCEPT ![p] = RemoveAt(Kids[p], i)]
  BY <1>4, <1>5, <1>7, DetachedKids
<1>9. i \in DOMAIN Kids[p] /\ Kids[p][i] = y
  BY <1>5, <1>6, TreeTypes
<1>10. Forest!Take(p, i)
  BY <1>1, <1>8, <1>9, ForestOperators DEF Forest!Take
<1> QED BY <1>3, <1>5, <1>9, <1>10 DEF Forest!Next

\* The items D of a sound heap are freed.
LEMMA FreeKids ==
    ASSUME NEW n, NEW v, NEW c, NEW s, NEW A, NEW k, NEW D, Tree(live, n, v, c, text, reference, A, k),
           Free(D, n, v, c, s), LInv'
    PROVE  /\ FInv'
           /\ \A q \in Items \ D : Kids'[q] = k[q] /\ ToSet(k[q]) \cap D = {} /\ key'[q] = s[q]
           /\ Stays(live, D, n, c, reference)
           /\ Apart' \subseteq live \ D /\ live' = live \ D
<1>1. /\ live' = live \ D /\ reference' = reference \ D
      /\ next' = [z \in Items |-> IF z \in D THEN NULL ELSE n[z]]
      /\ child' = [z \in Items |-> IF z \in D THEN NULL ELSE c[z]]
      /\ key' = [z \in Items |-> IF z \in D THEN NULL ELSE s[z]]
  BY DEF Free
<1>2. NoCircle(n) /\ live \subseteq Items
  BY TreeTypes
<1>3. NoCircle(next')
  BY <1>1, <1>2, FreeCircle
<1>4. FInv'
  BY <1>3 DEF FInv
<1>5. Tree(live \ D, next', prev', child', text', reference \ D, Apart', Kids')
  BY <1>1, <1>4, KidsThen
<1>6. \A z \in Items \ D : next'[z] = n[z] /\ child'[z] = c[z] /\ key'[z] = s[z]
  BY <1>1
<1>7. ASSUME NEW q \in Items \ D PROVE Kids'[q] = k[q] /\ ToSet(k[q]) \cap D = {}
  BY <1>5, <1>6, FreedKids
<1>8. Sound(live \ D, next', prev', child', text', reference \ D, Apart')
  BY <1>5, TreeTypes
<1>9. Apart' \subseteq live \ D
  BY <1>8 DEF Sound, Typed
<1>10. \A z \in live \ D : n[z] # NULL => n[z] \in live \ D
  BY <1>2, <1>6, <1>8 DEF Sound, Neighbours
<1>11. \A z \in live \ D : z \notin reference /\ c[z] # NULL => c[z] \in live \ D
  BY <1>2, <1>6, <1>8 DEF Sound, Owners
<1> QED BY <1>1, <1>4, <1>6, <1>7, <1>9, <1>10, <1>11 DEF Closed, Stays

LEMMA DeleteDrops ==
    ASSUME FInv, LInv', NEW x \in held, Delete(x)
    PROVE  FInv' /\ Forest!Next
<1> DEFINE D == Owned(next, child, x)
<1>1. Free(D, next, prev, child, key) /\ held' = held \ {x} /\ leaked' = leaked
  BY DEF Delete
<1>2. x \in Apart /\ Apart' = Apart \ {x} /\ x \in Items
  BY <1>1, HandOver, HeapTypes DEF FInv, LInv
<1>3. Tree(live, next, prev, child, text, reference, Apart, Kids)
  BY KidsNow
<1>4. D = BelowIn(Kids, x)
  BY <1>2, <1>3, BelowIsOwned
<1> HIDE DEF D
<1>5. /\ FInv' /\ live' = live \ D
      /\ \A q \in Items \ D : Kids'[q] = Kids[q] /\ key'[q] = key[q]
  BY <1>1, <1>3, FreeKids
<1>6. Forest!Drop(x)
  BY <1>2, <1>4, <1>5, ForestOperators DEF Forest!Drop, Forest!OthersKeep, Apart
<1> QED BY <1>2, <1>5, <1>6 DEF Forest!Next

\* What stays among the elements.
LEMMA RemovedSet ==
    ASSUME NEW s \in Seq(Items), NEW i \in 1..Len(s), NEW j \in 1..Len(s), j # i
    PROVE  s[j] \in ToSet(RemoveAt(s, i))
<1> DEFINE r == RemoveAt(s, i)
<1> HIDE DEF r
<1>0. r = RemoveAt(s, i)
  BY DEF r
<1>1. Len(s) \in Nat /\ Len(s) > 0 /\ i \in Nat /\ j \in Nat
  OBVIOUS
<1>2. /\ r \in Seq(Items) /\ Len(r) = Len(s) - 1
      /\ \A m \in 1..Len(s) - 1 : r[m] = IF m < i THEN s[m] ELSE s[m + 1]
  BY <1>0, RemoveAtIs
<1>3. DOMAIN r = 1..Len(s) - 1
  BY <1>1, <1>2
<1>4. CASE j < i
  <2>1. j \in 1..Len(s) - 1 /\ r[j] = s[j]
    BY <1>1, <1>2, <1>4
  <2> QED BY <1>0, <1>3, <2>1 DEF ToSet
<1>5. CASE j > i
  <2>1. j - 1 \in 1..Len(s) - 1 /\ ~(j - 1 < i) /\ (j - 1) + 1 = j
    BY <1>1, <1>5
  <2>2. r[j - 1] = s[j]
    BY <1>2, <2>1
  <2> QED BY <1>0, <1>3, <2>1, <2>2 DEF ToSet
<1> QED BY <1>1, <1>4, <1>5

LEMMA ReplacedSet ==
    ASSUME NEW s \in Seq(Items), NEW i \in 1..Len(s), NEW x
    PROVE  x \in ToSet(ReplaceAt(s, i, x)) /\ \A j \in 1..Len(s) : j # i => s[j] \in ToSet(ReplaceAt(s, i, x))
<1> DEFINE r == ReplaceAt(s, i, x)
<1>1. /\ DOMAIN r = 1..Len(s)
      /\ \A j \in 1..Len(s) : r[j] = IF j = i THEN x ELSE s[j]
  BY DEF ReplaceAt
<1> HIDE DEF r
<1> QED BY <1>1 DEF ToSet, r

\* In the heap n, v, c with the lists k the element i of p is alone, the others
\* are elements of p still, D is below the one and all of D is freed; S is what
\* was alone and is an element of p now.
TakenOut(p, i, D, S, n, v, c, A, k) ==
    /\ p \in Containers /\ i \in 1..Len(Kids[p]) /\ Kids[p][i] \in live
    /\ Tree(live, n, v, c, text, reference, A, k) /\ D = BelowIn(k, Kids[p][i])
    /\ \A j \in 1..Len(Kids[p]) : j # i => Kids[p][j] \in ToSet(k[p])
    /\ Off({p}, Kids, k) /\ Off({p}, child, c) /\ Stays(live, D, n, c, reference)
    /\ S \in SUBSET Items /\ Closed(S, next, child, reference)
    /\ Kids[p][i] \notin S /\ Apart \subseteq (live \ D) \cup S
    /\ Elsewhere(ToSet(Kids[p]), S, next, n)

\* Then p is not freed.
LEMMA ContainerStays ==
    ASSUME FInv, NEW p, NEW i, NEW D, NEW S, NEW n, NEW v, NEW c, NEW A, NEW k, TakenOut(p, i, D, S, n, v, c, A, k)
    PROVE  p \notin D /\ D = BelowIn(Kids, Kids[p][i])
<1> DEFINE y == Kids[p][i]
           E == ToSet(Kids[p])
<1>0. /\ p \in Containers /\ i \in 1..Len(Kids[p]) /\ y \in live
      /\ Tree(live, n, v, c, text, reference, A, k) /\ D = BelowIn(k, y)
      /\ \A j \in 1..Len(Kids[p]) : j # i => Kids[p][j] \in ToSet(k[p])
      /\ Off({p}, Kids, k) /\ Off({p}, child, c) /\ Stays(live, D, n, c, reference)
      /\ S \in SUBSET Items /\ Closed(S, next, child, reference)
      /\ y \notin S /\ Apart \subseteq (live \ D) \cup S /\ Elsewhere(E, S, next, n)
  BY DEF TakenOut
<1>1. /\ Tree(live, next, prev, child, text, reference, Apart, Kids) /\ Reached(live, next, child, reference, Apart)
      /\ p \in live /\ p \in Items /\ live \subseteq Items
  BY <1>0, KidsNow, HeapTypes DEF FInv, LInv, LossInv, Containers
<1>2. k \in [Items -> Seq(Items)] /\ Kids \in [Items -> Seq(Items)] /\ DOMAIN Kids[p] = 1..Len(Kids[p])
  BY <1>0, <1>1, TreeTypes
<1>3. y \in Items
  BY <1>0, <1>1
<1>4. y \in D /\ \A z \in D : ToSet(k[z]) \subseteq D
  BY <1>0, <1>2, <1>3, BelowClosed
<1>5. ASSUME p \in D PROVE E \subseteq D
  <2>1. ASSUME NEW j \in 1..Len(Kids[p]) PROVE Kids[p][j] \in D
    <3>1. CASE j = i
      BY <3>1, <1>4
    <3>2. CASE j # i
      BY <3>2, <1>0, <1>4, <1>5
    <3> QED BY <3>1, <3>2
  <2> QED BY <1>2, <2>1 DEF ToSet
<1> HIDE DEF y, E
<1>8. p \notin D
  <2>1. /\ Reached(live, next, child, reference, Apart) /\ live \subseteq Items /\ p \in live /\ y \in live /\ y \in D
        /\ S \in SUBSET Items /\ Closed(S, next, child, reference) /\ y \notin S /\ Apart \subseteq (live \ D) \cup S
        /\ p \in D => E \subseteq D
    BY <1>0, <1>1, <1>4, <1>5
  <2>2. Elsewhere(E, S, next, n) /\ Stays(live, D, n, c, reference) /\ Off({p}, child, c)
    BY <1>0
  <2> QED BY ONLY <2>1, <2>2, NotFreed
<1>9. p \notin BelowIn(k, y) /\ Off({p}, Kids, k) /\ D = BelowIn(k, y)
  BY <1>0, <1>8
<1>10. BelowIn(Kids, y) = BelowIn(k, y)
  BY ONLY <1>2, <1>3, <1>9, BelowSame
<1> QED BY <1>8, <1>9, <1>10 DEF y

LEMMA DeleteItemDrops ==
    ASSUME FInv, LInv', NEW p \in Containers, NEW y \in Elements(p), DeleteItemFrom(p, y)
    PROVE  FInv' /\ Forest!Next
<1> DEFINE n == NextWithout(y)
           v == PrevWithout(y)
           c == ChildWithout(p, y)
           k == KidsOf(n, c, reference)
           D == Owned(n, c, y)
<1>1. Free(D, n, v, c, key) /\ held' = held /\ leaked' = leaked
  BY DEF DeleteItemFrom
<1>2. Sound(live, n, v, c, text, reference, Apart \cup {y})
  BY ElementOf, Detached DEF FInv, LInv, Inv, HeapSound, NextWithout, PrevWithout, ChildWithout
<1>3. NoCircle(n) /\ TakesOut(p, y, next, prev, child, n, c) /\ \A z \in Items : z # p => c[z] = child[z]
  BY WithoutHeap
<1>4. D = Owned(n, c, y) /\ k = KidsOf(n, c, reference)
  OBVIOUS
<1> HIDE DEF n, v, c, k, D
<1>5. Tree(live, n, v, c, text, reference, Apart \cup {y}, k)
  BY <1>2, <1>3, <1>4, WalkShows
<1>6. /\ p \in live \ reference /\ p \in live /\ p \in Items /\ y \in live /\ y \in Items /\ y # NULL
      /\ Tree(live, next, prev, child, text, reference, Apart, Kids)
  BY ElementPlace
<1>7. PICK i \in 1..Len(Kids[p]) : Kids[p][i] = y
  BY ElementPlace
<1>8. /\ i \in 1..Len(Kids[p]) /\ TakesOut(p, Kids[p][i], next, prev, child, n, c)
      /\ Kids \in [Items -> Seq(Items)] /\ Kids[p] \in Seq(Items) /\ i \in DOMAIN Kids[p]
  BY <1>3, <1>6, <1>7, TreeTypes
<1>9. k = [Kids EXCEPT ![p] = RemoveAt(Kids[p], i)]
  BY <1>5, <1>6, <1>8, DetachedKids
<1>10. k[p] = RemoveAt(Kids[p], i) /\ \A q \in Items : q # p => k[q] = Kids[q]
  BY <1>6, <1>8, <1>9
<1>11. y \in Apart \cup {y}
  OBVIOUS
<1>12. D = BelowIn(k, y)
  BY <1>4, <1>5, <1>11, BelowIsOwned
<1>13. /\ FInv' /\ live' = live \ D /\ Apart' \subseteq live \ D
       /\ \A q \in Items \ D : Kids'[q] = k[q] /\ key'[q] = key[q]
       /\ Stays(live, D, n, c, reference)
  BY <1>1, <1>5, FreeKids
<1>14. \A j \in 1..Len(Kids[p]) : j # i => Kids[p][j] \in ToSet(k[p])
  BY <1>8, <1>10, RemovedSet
<1>15. Elsewhere(ToSet(Kids[p]), {}, next, n)
  <2>1. Placed(live, prev, child, Apart, Kids)
    BY <1>6, TreePlaced
  <2>2. \A j \in DOMAIN Kids[p] : Kids[p][j] \in ToSet(Kids[p])
    BY DEF ToSet
  <2>3. y \in ToSet(Kids[p])
    BY <1>7, <1>8, <2>2
  <2>4. prev[y] = NULL \/ prev[y] \in ToSet(Kids[p])
    <3>1. CASE i = 1
      BY <3>1, <1>6, <1>7, <1>8, <2>1 DEF Placed
    <3>2. CASE i # 1
      <4>1. i - 1 \in DOMAIN Kids[p] /\ prev[y] = Kids[p][i - 1]
        BY <3>2, <1>6, <1>7, <1>8, <2>1 DEF Placed
      <4> QED BY <4>1, <2>2
    <3> QED BY <3>1, <3>2
  <2> QED BY <1>3, <2>3, <2>4, NullAssumption DEF TakesOut, Elsewhere
<1>16. Closed({}, next, child, reference) /\ {} \in SUBSET Items /\ Kids[p][i] \notin {}
  BY DEF Closed
<1>17. Apart \subseteq (live \ D) \cup {} /\ Kids[p][i] \in live /\ D = BelowIn(k, Kids[p][i])
  BY <1>1, <1>6, <1>7, <1>12, <1>13 DEF Apart
<1>18. Off({p}, Kids, k) /\ Off({p}, child, c)
  BY <1>3, <1>10 DEF Off
<1>19. p \notin D /\ D = BelowIn(Kids, Kids[p][i])
  <2>1. TakenOut(p, i, D, {}, n, v, c, Apart \cup {y}, k)
    BY <1>5, <1>8, <1>13, <1>14, <1>15, <1>16, <1>17, <1>18 DEF TakenOut
  <2> QED BY <2>1, ContainerStays
<1>20. y \in D
  BY <1>6, <1>8, <1>7, <1>19, BelowClosed
<1>21. /\ Kids'[p] = RemoveAt(Kids[p], i) /\ key'[p] = key[p] /\ live' # live
       /\ \A q \in Items \ ({p} \cup D) : Kids'[q] = Kids[q] /\ key'[q] = key[q]
  BY <1>6, <1>10, <1>13, <1>19, <1>20
<1>22. Forest!DropElement(p, i)
  BY <1>1, <1>13, <1>19, <1>21, ForestOperators DEF Forest!DropElement, Forest!OthersKeep
<1> QED BY <1>6, <1>8, <1>13, <1>22 DEF Forest!Next

LEMMA ReplaceReplaces ==
    ASSUME FInv, LInv', NEW p \in Containers, NEW y \in Elements(p), NEW x \in held, NEW s,
           ReplaceItemViaPointer(p, y, x, s), leaked' = leaked, \A z \in Items \ {x} : s[z] = key[z]
    PROVE  FInv' /\ Forest!Next
<1> DEFINE n == NextWith(y, x)
           v == PrevWith(y, x)
           c == ChildWith(p, y, x)
           k == KidsOf(n, c, reference)
           D == Owned(n, c, y)
           A == (Apart \ {x}) \cup {y}
           S == Seen(x)
<1>1. Free(D, n, v, c, s) /\ held' = held \ {x} /\ Fits(p, x)
  BY DEF ReplaceItemViaPointer
<1>2. x \in Apart /\ Apart' = Apart \ {x} /\ x \in Items
  BY <1>1, HandOver, HeapTypes DEF FInv, LInv
<1>3. Sound(live, n, v, c, text, reference, A) /\ y \notin Apart /\ x # y
  BY <1>2, ElementOf, Replaced DEF FInv, LInv, Inv, HeapSound, NextWith, PrevWith, ChildWith
<1>4. D = Owned(n, c, y) /\ k = KidsOf(n, c, reference) /\ y \in A /\ Apart \subseteq A \cup {x}
  OBVIOUS
<1>5. /\ S \in SUBSET Items /\ x \in S /\ Closed(S, next, child, reference) /\ y \notin S /\ p \notin S
  BY <1>1, <1>2, SeenClosed DEF FInv, LInv, Closed, Fits
<1>6. /\ p \in live \ reference /\ p \in live /\ p \in Items /\ y \in live /\ y \in Items /\ y # NULL
      /\ Tree(live, next, prev, child, text, reference, Apart, Kids)
      /\ next \in [Items -> Pointers] /\ child \in [Items -> Pointers] /\ NoCircle(next)
  BY ElementPlace
<1>7. PutsFor(x, p, y, next, prev, child, n, c)
  BY <1>2, <1>3, <1>6 DEF PutsFor, NextWith, ChildWith
<1> HIDE DEF n, v, c, k, D, A, S
<1>8. NoCircle(n)
  <2>1. \A z \in Items : next[z] # x
    <3>1. \A z \in live : next[z] = x => prev[x] = z
      BY <1>2, HeapTypes DEF FInv, LInv, Inv, HeapSound, Sound, Neighbours
    <3>2. prev[x] = NULL /\ NULL \notin Items /\ live \subseteq Items /\ \A z \in Items \ live : next[z] = NULL
      BY <1>2, <1>6, TreeTypes
    <3> QED BY <1>2, <3>1, <3>2
  <2>2. ASSUME NEW z \in Items, z = prev[y] PROVE next[z] = y
    BY <1>6, <2>2, HeapTypes DEF FInv, LInv, Inv, HeapSound, Sound, Neighbours
  <2>3. \A z \in Items \ {x, y} : n[z] = next[z] \/ (next[z] = y /\ n[z] = x)
    BY <1>7, <2>2 DEF PutsFor
  <2>4. n[y] = NULL /\ n[x] = next[y]
    BY <1>3, <1>6, <1>7 DEF PutsFor
  <2> QED BY <1>2, <1>3, <1>6, <2>1, <2>3, <2>4, ReplaceCircle
<1>9. Tree(live, n, v, c, text, reference, A, k)
  BY <1>3, <1>4, <1>8, WalkShows
<1>10. PICK i \in 1..Len(Kids[p]) : Kids[p][i] = y
  BY ElementPlace
<1>11. /\ i \in 1..Len(Kids[p]) /\ PutsFor(x, p, Kids[p][i], next, prev, child, n, c)
       /\ Kids \in [Items -> Seq(Items)] /\ Kids[p] \in Seq(Items) /\ i \in DOMAIN Kids[p]
  BY <1>6, <1>7, <1>10, TreeTypes
<1>12. k = [Kids EXCEPT ![p] = ReplaceAt(Kids[p], i, x)]
  BY <1>2, <1>6, <1>9, <1>11, ReplacedKids
<1>13. k[p] = ReplaceAt(Kids[p], i, x) /\ \A q \in Items : q # p => k[q] = Kids[q]
  BY <1>6, <1>11, <1>12
<1>14. D = BelowIn(k, y)
  BY <1>4, <1>9, BelowIsOwned
<1>15. /\ FInv' /\ live' = live \ D /\ Apart' \subseteq live \ D
       /\ \A q \in Items \ D : Kids'[q] = k[q] /\ ToSet(k[q]) \cap D = {} /\ key'[q] = s[q]
       /\ Stays(live, D, n, c, reference)
  BY <1>1, <1>9, FreeKids
<1>16. x \in ToSet(k[p]) /\ \A j \in 1..Len(Kids[p]) : j # i => Kids[p][j] \in ToSet(k[p])
  BY <1>11, <1>13, ReplacedSet
<1>17. Elsewhere(ToSet(Kids[p]), S, next, n)
  <2>1. Placed(live, prev, child, Apart, Kids)
    BY <1>6, TreePlaced
  <2>2. \A j \in DOMAIN Kids[p] : Kids[p][j] \in ToSet(Kids[p])
    BY DEF ToSet
  <2>3. y \in ToSet(Kids[p])
    BY <1>10, <1>11, <2>2
  <2>4. prev[y] = NULL \/ prev[y] \in ToSet(Kids[p])
    <3>1. CASE i = 1
      BY <3>1, <1>6, <1>10, <1>11, <2>1 DEF Placed
    <3>2. CASE i # 1
      <4>1. i - 1 \in DOMAIN Kids[p] /\ prev[y] = Kids[p][i - 1]
        BY <3>2, <1>6, <1>10, <1>11, <2>1 DEF Placed
      <4> QED BY <4>1, <2>2
    <3> QED BY <3>1, <3>2
  <2> QED BY <1>5, <1>7, <2>3, <2>4, NullAssumption DEF PutsFor, Elsewhere
<1>18. Apart \subseteq (live \ D) \cup S /\ Kids[p][i] \in live /\ D = BelowIn(k, Kids[p][i]) /\ Kids[p][i] \notin S
  BY <1>2, <1>5, <1>6, <1>10, <1>14, <1>15
<1>19. Off({p}, Kids, k) /\ Off({p}, child, c)
  BY <1>7, <1>13 DEF PutsFor, Off
<1>20. p \notin D /\ D = BelowIn(Kids, Kids[p][i])
  <2>1. TakenOut(p, i, D, S, n, v, c, A, k)
    BY <1>5, <1>9, <1>11, <1>15, <1>16, <1>17, <1>18, <1>19 DEF TakenOut
  <2> QED BY <2>1, ContainerStays
<1>21. y \in D /\ x \notin D /\ p # x
  <2>1. y \in D
    BY <1>6, <1>11, <1>10, <1>20, BelowClosed
  <2>2. x \notin D
    BY <1>6, <1>15, <1>16, <1>20
  <2> QED BY <2>1, <2>2, <1>5
<1>22. /\ Kids'[p] = ReplaceAt(Kids[p], i, x) /\ key'[p] = key[p] /\ Kids'[x] = Kids[x] /\ live' # live
       /\ \A q \in Items \ ({p, x} \cup D) : Kids'[q] = Kids[q] /\ key'[q] = key[q]
  BY <1>2, <1>6, <1>13, <1>15, <1>20, <1>21
<1>23. Forest!Replace(p, i, x)
  BY <1>2, <1>15, <1>20, <1>22, ForestOperators DEF Forest!Replace, Forest!OthersKeep, Apart
<1> QED BY <1>6, <1>11, <1>15, <1>23 DEF Forest!Next

\* An item that nobody takes keeps its place among the roots.
LEMMA LoseKeeps ==
    ASSUME FInv, LInv', NEW x \in held, AddItemFails(x)
    PROVE  FInv' /\ UNCHANGED Forest!vars
<1>1. /\ next' = next /\ child' = child /\ reference' = reference /\ live' = live /\ key' = key
      /\ (held \cup leaked)' = held \cup leaked
  BY DEF AddItemFails
<1>2. Kids' = Kids /\ FInv'
  BY <1>1, KidsSame DEF FInv
<1> QED BY <1>1, <1>2 DEF Forest!vars

LEMMA MissingRenames ==
    ASSUME FInv, LInv', NEW x \in held, NEW p, NEW k, NEW sensitive, ReplaceMissingItem(p, k, x, sensitive)
    PROVE  FInv' /\ Forest!Next
<1>1. /\ next' = next /\ child' = child /\ reference' = reference /\ live' = live
      /\ (held \cup leaked)' = held \cup leaked
  BY DEF ReplaceMissingItem
<1>2. Kids' = Kids /\ FInv'
  BY <1>1, KidsSame DEF FInv
<1>3. PICK w : key' = [key EXCEPT ![x] = w]
  BY DEF ReplaceMissingItem
<1>4. \A z \in Items \ {x} : key'[z] = key[z]
  BY <1>3
<1>5. Forest!Rename(x)
  BY <1>1, <1>2, <1>4 DEF Forest!Rename, Forest!OthersKeep
<1> QED BY <1>2, <1>5 DEF Forest!Next

-----------------------------------------------------------------------------
LEMMA InitPromise ==
    ASSUME Init
    PROVE  FInv /\ Forest!Init
<1>1. LInv
  BY InitReaches
<1>2. next = [x \in Items |-> NULL] /\ child = [x \in Items |-> NULL] /\ reference = {} /\ NULL \notin Items
  BY NullAssumption DEF Init
<1>3. NoCircle(next)
  BY <1>2 DEF NoCircle
<1>4. FInv
  BY <1>1, <1>3 DEF FInv
<1>5. Tree(live, next, prev, child, text, reference, Apart, Kids)
  BY <1>4, KidsNow
<1>6. ASSUME NEW q \in Items PROVE Kids[q] = <<>>
  BY <1>2, <1>5, TreeTypes DEF List, IsList
<1>7. Kids = [x \in Items |-> <<>>]
  BY <1>6 DEF Kids
<1> QED BY <1>4, <1>7 DEF Init, Forest!Init

LEMMA NextPromise ==
    ASSUME FInv, [Next]_vars
    PROVE  FInv' /\ [Forest!Next]_(Forest!vars)
<1>0. LInv'
  BY NextReaches DEF FInv
<1>1. CASE UNCHANGED vars
  <2>1. /\ next' = next /\ child' = child /\ reference' = reference /\ live' = live /\ key' = key
        /\ (held \cup leaked)' = held \cup leaked
    BY <1>1 DEF vars
  <2>2. Kids' = Kids /\ FInv'
    BY <1>0, <2>1, KidsSame DEF FInv
  <2> QED BY <2>1, <2>2 DEF Forest!vars
<1>2. CASE CreateAny
  <2>1. MaxCount \in Nat /\ \A n \in 0..MaxCount : n \in Nat
    BY BoundsAssumption
  <2>2. CASE \E x \in Items : Create(x)
    BY <1>0, <2>2, CreateGrows
  <2>3. CASE \E x \in Items, c \in live : CreateReference(x, c)
    BY <1>0, <2>3, CreateGrows
  <2>4. CASE \E n \in 0..MaxCount, strings \in BOOLEAN : \E s \in FreshLists(n + 1) : CreateArrayOf(s, strings)
    BY <1>0, <2>1, <2>4, ArrayGrows
  <2> QED BY <1>2, <2>2, <2>3, <2>4 DEF CreateAny
<1>3. CASE AddAny
  <2>1. CASE \E p \in Containers, x \in held : AddItemToArray(p, x) \/ (\E k \in Keys : AddItemToObject(p, k, x))
    BY <1>0, <2>1, AddPlaces
  <2>2. CASE \E p \in Containers, x \in held : \E y \in Elements(p) : InsertItemInArray(p, y, x)
    BY <1>0, <2>2, InsertPlaces
  <2>3. CASE \E x \in held : AddItemFails(x)
    BY <1>0, <2>3, LoseKeeps
  <2>4. CASE \E p \in Containers, x \in Items, k \in Keys : AddNewToObject(p, k, x)
    BY <1>0, <2>4, AddNewPlaces
  <2>5. CASE \E p \in Containers, y \in live, x \in Items :
                AddItemReferenceToArray(p, y, x) \/ (\E k \in Keys : AddItemReferenceToObject(p, k, y, x))
    BY <1>0, <2>5, AddReferencePlaces
  <2>6. CASE \E y \in live, x \in Items : AddReferenceFails(y, x)
    BY <1>0, <2>6, CreateGrows
  <2> QED
    BY <1>3, <2>1, <2>2, <2>3, <2>4, <2>5, <2>6 DEF AddAny
<1>4. CASE RemoveAny
  <2>1. CASE \E p \in Containers : \E y \in Elements(p) : DetachItemViaPointer(p, y) \/ DeleteItemFrom(p, y)
    BY <1>0, <2>1, DetachTakes, DeleteItemDrops
  <2>2. CASE \E x \in held : Delete(x)
    BY <1>0, <2>2, DeleteDrops
  <2>3. CASE \E p \in Containers, x \in held : \E y \in Elements(p) : ReplaceItemInArray(p, y, x)
    <3>1. PICK p \in Containers, x \in held : \E y \in Elements(p) : ReplaceItemInArray(p, y, x)
      BY <2>3
    <3>2. PICK y \in Elements(p) : ReplaceItemInArray(p, y, x)
      BY <3>1
    <3>3. ReplaceItemViaPointer(p, y, x, key) /\ leaked' = leaked /\ \A z \in Items \ {x} : key[z] = key[z]
      BY <3>2 DEF ReplaceItemInArray
    <3> QED
      BY <1>0, <3>3, ReplaceReplaces
  <2>4. CASE \E p \in Containers, x \in held, k \in Keys, sensitive \in BOOLEAN :
                \E y \in Elements(p) : ReplaceItemInObject(p, k, y, x, sensitive)
    <3>0. PICK p \in Containers, x \in held, k \in Keys, sensitive \in BOOLEAN :
              \E y \in Elements(p) : ReplaceItemInObject(p, k, y, x, sensitive)
      BY <2>4
    <3>1. PICK y \in Elements(p) : ReplaceItemInObject(p, k, y, x, sensitive)
      BY <3>0
    <3>2. PICK name \in {k, NULL} : ReplaceItemViaPointer(p, y, x, [key EXCEPT ![x] = name])
      BY <3>1 DEF ReplaceItemInObject
    <3>3. leaked' = leaked
      BY <3>1 DEF ReplaceItemInObject
    <3>4. ASSUME NEW s, s = [key EXCEPT ![x] = name] PROVE \A z \in Items \ {x} : s[z] = key[z]
      BY <3>4
    <3> QED
      BY <1>0, <3>2, <3>3, <3>4, ReplaceReplaces
  <2>5. CASE \E p \in Containers, x \in held, k \in Keys, sensitive \in BOOLEAN : ReplaceMissingItem(p, k, x, sensitive)
    BY <1>0, <2>5, MissingRenames
  <2> QED
    BY <1>4, <2>1, <2>2, <2>3, <2>4, <2>5 DEF RemoveAny
<1>5. CASE CopyAny
  <2>1. PICK x \in live, recurse \in BOOLEAN :
            \E f \in [CopiedFrom(x, recurse) -> Items \ live] : Duplicate(x, CopiedFrom(x, recurse), f)
    BY <1>5 DEF CopyAny
  <2> QED
    BY <1>0, <2>1, CopyGrows
<1> QED
  BY <1>1, <1>2, <1>3, <1>4, <1>5 DEF Next

\* For any number of items, whatever the calls and whichever allocations fail,
\* every call of the tree functions changes the sequences of elements as
\* JsonForest says and no other: an item is added behind the others or where
\* it is inserted, leaves the others in order when it is detached, and is
\* deleted with all it owns and nothing else (cJSON.c:224-245, 1830-2257,
\* 2420-2641).
THEOREM ListsPromised == Spec => ListsAsPromised
<1>1. Init => FInv /\ Forest!Init
  BY InitPromise
<1>2. FInv /\ [Next]_vars => FInv' /\ [Forest!Next]_(Forest!vars)
  BY NextPromise
<1>3. Spec => Forest!Init /\ [][Forest!Next]_(Forest!vars)
  BY <1>1, <1>2, PTL DEF Spec
<1> QED BY <1>3 DEF ListsAsPromised, Forest!Spec
=============================================================================

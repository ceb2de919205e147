----------------------------- MODULE JsonForest -----------------------------
(***************************************************************************)
(* What the tree functions of src/utils/json/cJSON.h promise, without      *)
(* pointers: a set of nodes, each with the sequence of its elements, and   *)
(* the roots, which are elements of nothing.                               *)
(***************************************************************************)
EXTENDS Naturals, Sequences, FiniteSets, SequencesExt

CONSTANTS Items, Keys, NULL

VARIABLES nodes, kids, name, roots

vars == <<nodes, kids, name, roots>>

\* x and everything below it.
Below(x) ==
    {y \in Items : \A S \in SUBSET Items :
        (x \in S /\ \A z \in S : ToSet(kids[z]) \subseteq S) => y \in S}

Init ==
    /\ nodes = {} /\ roots = {}
    /\ kids = [x \in Items |-> <<>>]
    /\ name = [x \in Items |-> NULL]

\* The rest of the forest stays as it is.
OthersKeep(D) == \A x \in Items \ D : kids'[x] = kids[x] /\ name'[x] = name[x]

\* A new tree with root r.
Grow(r) ==
    LET new == nodes' \ nodes IN
    /\ r \in new /\ nodes \subseteq nodes' /\ roots' = roots \cup {r}
    /\ OthersKeep(new)
    /\ \A x \in new : ToSet(kids'[x]) \subseteq new \ {r}
    /\ \A x \in new \ {r} :
          Cardinality({e \in new \X (1..Cardinality(Items)) :
                          e[2] \in DOMAIN kids'[e[1]] /\ kids'[e[1]][e[2]] = x}) = 1

\* A root, or a new node, becomes an element of p.
Place(p, x) ==
    /\ roots' = roots \ {x} /\ nodes' = nodes \cup {x}
    /\ x \in roots \/ x \notin nodes
    /\ \E i \in 1..Len(kids[p]) + 1 : kids' = [kids EXCEPT ![p] = InsertAt(@, i, x)]
    /\ OthersKeep({p, x}) /\ name'[p] = name[p]

\* The element of p at place i becomes a root.
Take(p, i) ==
    /\ nodes' = nodes /\ roots' = roots \cup {kids[p][i]}
    /\ kids' = [kids EXCEPT ![p] = RemoveAt(@, i)]
    /\ UNCHANGED name

\* The tree of a root is gone.
Drop(x) ==
    /\ x \in roots /\ roots' = roots \ {x}
    /\ nodes' = nodes \ Below(x)
    /\ OthersKeep(Below(x))

\* The element of p at place i is gone with everything below it.
DropElement(p, i) ==
    /\ nodes' # nodes /\ roots' = roots
    /\ nodes' = nodes \ Below(kids[p][i])
    /\ kids'[p] = RemoveAt(kids[p], i) /\ name'[p] = name[p]
    /\ OthersKeep({p} \cup Below(kids[p][i]))

\* So it is, and a root has its place.
Replace(p, i, x) ==
    /\ nodes' # nodes /\ roots' = roots \ {x}
    /\ nodes' = nodes \ Below(kids[p][i])
    /\ kids'[p] = ReplaceAt(kids[p], i, x) /\ name'[p] = name[p] /\ kids'[x] = kids[x]
    /\ OthersKeep({p, x} \cup Below(kids[p][i]))

\* A root has another name.
Rename(x) ==
    /\ nodes' = nodes /\ roots' = roots /\ kids' = kids
    /\ OthersKeep({x})

Next ==
    \/ \E x \in Items : Grow(x) \/ Drop(x)
    \/ \E x \in roots : Rename(x)
    \/ \E p \in nodes, x \in Items : Place(p, x)
    \/ \E p \in nodes : \E i \in DOMAIN kids[p] :
        \/ Take(p, i) \/ DropElement(p, i)
        \/ \E x \in roots : Replace(p, i, x)

Spec == Init /\ [][Next]_vars

=============================================================================

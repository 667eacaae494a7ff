----------------------------- MODULE HeaderNode ------------------------------
(***************************************************************************)
(* Class HeaderNode (Eth/HeaderNode.hpp): the tree of the blocks that may   *)
(* still be confirmed, as operators on a tree value.                        *)
(*                                                                          *)
(* A tree is a function from the allocated nodes, numbered in the order of  *)
(* their allocation, to records                                             *)
(*   header     m_header                                                    *)
(*   parent     m_parent, or NoNode                                         *)
(*   numOfDesc  the m_numOfDesc kept for the node by its parent             *)
(* The m_children vector of a node are the nodes whose parent it is; they   *)
(* were appended in the order of their allocation.  A pointer to a node     *)
(* outside the domain of the tree dangles.                                  *)
(***************************************************************************)
EXTENDS Integers, FiniteSets

CONSTANT NoNode

Children(tree, p) == {n \in DOMAIN tree : tree[n].parent = p}

ParentOf(tree, n) == IF n = NoNode THEN NoNode ELSE tree[n].parent

\* n, its parent, the parent of that one and so on.
AncestorsOrSelf(tree, n) ==
    LET up[k \in 0 .. Cardinality(DOMAIN tree)] ==
            IF k = 0 THEN n ELSE ParentOf(tree, up[k - 1])
    IN  {up[k] : k \in DOMAIN up} \ {NoNode}

\* n and all its descendants, counted afresh.
Subtree(tree, n) == {m \in DOMAIN tree : n \in AncestorsOrSelf(tree, m)}

Leaf(header, parent) == [header |-> header, parent |-> parent, numOfDesc |-> 0]

\* Mutant: only the parent is told of the new node.
WithDescCountedOnce(tree, p) ==
    [n \in DOMAIN tree |->
        IF n = p /\ tree[n].parent # NoNode
        THEN [tree[n] EXCEPT !.numOfDesc = @ + 1]
        ELSE tree[n]]

\* AddDescCount climbs from the parent of the new node to the root and
\* increments, at each step, the count kept for the node it came from.
WithDescCounted(tree, p) ==
    LET counted == {a \in AncestorsOrSelf(tree, p) : tree[a].parent # NoNode}
    IN  [n \in DOMAIN tree |->
            IF n \in counted
            THEN [tree[n] EXCEPT !.numOfDesc = @ + 1]
            ELSE tree[n]]

AddChild(tree, p, node, header) ==
    LET counted == WithDescCounted(tree, p)
    IN  [n \in DOMAIN tree \cup {node} |->
            IF n = node THEN Leaf(header, p) ELSE counted[n]]

\* Mutant: one descendant fewer is enough.
ChildHasNDescTooFew(tree, p, numOfDesc) ==
    LET enough == {c \in Children(tree, p) : tree[c].numOfDesc + 1 >= numOfDesc}
    IN  IF enough = {}
        THEN NoNode
        ELSE CHOOSE c \in enough : \A d \in enough : c <= d

\* Mutant: more than numOfDesc descendants are asked for.
ChildHasNDescTooMany(tree, p, numOfDesc) ==
    LET enough == {c \in Children(tree, p) : tree[c].numOfDesc > numOfDesc}
    IN  IF enough = {}
        THEN NoNode
        ELSE CHOOSE c \in enough : \A d \in enough : c <= d

\* The first child with at least numOfDesc descendants, or NoNode.
ChildHasNDesc(tree, p, numOfDesc) ==
    LET enough == {c \in Children(tree, p) : tree[c].numOfDesc >= numOfDesc}
    IN  IF enough = {}
        THEN NoNode
        ELSE CHOOSE c \in enough : \A d \in enough : c <= d

\* Mutant: the released child still points to its parent.
ReleaseChildWithParent(tree, child) ==
    [n \in Subtree(tree, child) |-> tree[n]]

\* The child is released from its parent, and the parent is destroyed with
\* all the nodes that remain under it.
ReleaseChild(tree, child) ==
    [n \in Subtree(tree, child) |->
        IF n = child THEN [tree[n] EXCEPT !.parent = NoNode] ELSE tree[n]]
=============================================================================

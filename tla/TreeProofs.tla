------------------------------ MODULE TreeProofs -------------------------------
(***************************************************************************)
(* Theorems about the tree of EclipseMonitor: it is a tree of the chain     *)
(* under the last header confirmed, its counts are exact, each update       *)
(* confirms the one child it can, and the child has the support required.   *)
(*                                                                          *)
(* Every one rests on the shape of the tree, ShapeInv: one top, the root,   *)
(* and exact counts.  A header adds one to the count of at most one child   *)
(* of the root, so that at most one header too many is ever counted; when   *)
(* the child is confirmed, its own children have fewer descendants than it. *)
(*                                                                          *)
(* Before that come lemmas about the operators of HeaderNode: what climbing *)
(* the parents of a node to the root finds, and what AddChild and           *)
(* ReleaseChild make of it.  The induction is over the length of the climb  *)
(* or over the number of the node: the least counterexample (LeastNatural)  *)
(* is refuted.                                                              *)
(***************************************************************************)
EXTENDS EclipseMonitorProofs, FiniteSetTheorems

\* Nodes are allocated after their parents.
IsTree(t) ==
    /\ IsFiniteSet(DOMAIN t)
    /\ DOMAIN t \subseteq Nat
    /\ \A n \in DOMAIN t : \/ t[n].parent = NoNode
                           \/ t[n].parent \in DOMAIN t /\ t[n].parent < n

\* The first m parents met on the way up from n.
IsClimb(up, t, n, m) ==
    up = [k \in 0 .. m |-> IF k = 0 THEN n ELSE ParentOf(t, up[k - 1])]

LEMMA NoNodeIsNoNumber == NoNode \notin Nat
  BY MonitorAssumption

-----------------------------------------------------------------------------
(* Climbing.                                                                *)

\* A climb of any length exists.
LEMMA ClimbExists ==
    ASSUME NEW t, NEW n, NEW m \in Nat
    PROVE  \E up : IsClimb(up, t, n, m)
<1> DEFINE Bad == {i \in Nat : ~ \E up : IsClimb(up, t, n, i)}
<1> SUFFICES ASSUME Bad # {} PROVE FALSE
  OBVIOUS
<1>1. PICK i \in Bad : \A j \in Bad : i <= j
  <2>1. Bad \in SUBSET Nat
    OBVIOUS
  <2> HIDE DEF Bad
  <2> QED
    BY <2>1, LeastNatural
<1>2. i # 0
  <2>1. IsClimb([k \in 0 .. 0 |-> n], t, n, 0)
    BY DEF IsClimb
  <2> QED
    BY <2>1
<1>3. i \in Nat /\ i - 1 \in Nat /\ i - 1 \notin Bad
  BY <1>1, <1>2
<1>4. PICK up : IsClimb(up, t, n, i - 1)
  BY <1>3
<1> DEFINE longer == [k \in 0 .. i |-> IF k = i THEN ParentOf(t, up[i - 1]) ELSE up[k]]
<1>5. \A k \in 0 .. i : longer[k] = IF k = 0 THEN n ELSE ParentOf(t, longer[k - 1])
  <2> SUFFICES ASSUME NEW k \in 0 .. i
               PROVE  longer[k] = IF k = 0 THEN n ELSE ParentOf(t, longer[k - 1])
    OBVIOUS
  <2>1. CASE k = i
    BY <1>2, <1>3, <2>1
  <2>2. CASE k # i
    <3>1. k \in 0 .. i - 1 /\ (k # 0 => k - 1 \in 0 .. i - 1)
      BY <1>3, <2>2
    <3>2. up[k] = IF k = 0 THEN n ELSE ParentOf(t, up[k - 1])
      BY <1>4, <3>1 DEF IsClimb
    <3>3. longer[k] = up[k] /\ (k # 0 => longer[k - 1] = up[k - 1])
      BY <1>3, <3>1
    <3> QED
      BY <3>2, <3>3
  <2> QED
    BY <2>1, <2>2
<1>6. IsClimb(longer, t, n, i)
  BY <1>5 DEF IsClimb
<1> QED
  BY <1>1, <1>6

\* AncestorsOrSelf is what such a climb meets.
LEMMA AncestorsAreClimbed ==
    ASSUME NEW t, NEW n, Cardinality(DOMAIN t) \in Nat
    PROVE  \E up : /\ IsClimb(up, t, n, Cardinality(DOMAIN t))
                   /\ AncestorsOrSelf(t, n)
                        = {up[k] : k \in 0 .. Cardinality(DOMAIN t)} \ {NoNode}
<1> DEFINE m == Cardinality(DOMAIN t)
           up == CHOOSE f : f = [k \in 0 .. m |->
                                    IF k = 0 THEN n ELSE ParentOf(t, f[k - 1])]
<1>1. up = [k \in 0 .. m |-> IF k = 0 THEN n ELSE ParentOf(t, up[k - 1])]
  <2>1. \E f : f = [k \in 0 .. m |-> IF k = 0 THEN n ELSE ParentOf(t, f[k - 1])]
    <3>1. PICK f : IsClimb(f, t, n, m)
      BY ClimbExists
    <3> QED
      BY <3>1 DEF IsClimb
  <2> QED
    BY <2>1
<1>2. DOMAIN up = 0 .. m
  BY <1>1
<1>3. AncestorsOrSelf(t, n) = {up[k] : k \in DOMAIN up} \ {NoNode}
  BY DEF AncestorsOrSelf
<1> HIDE DEF up
<1>4. IsClimb(up, t, n, m)
  BY <1>1 DEF IsClimb
<1>5. AncestorsOrSelf(t, n) = {up[k] : k \in 0 .. m} \ {NoNode}
  BY <1>2, <1>3
<1> QED
  BY <1>4, <1>5

LEMMA ClimbStarts ==
    ASSUME NEW t, NEW n, NEW m \in Nat, NEW up, IsClimb(up, t, n, m)
    PROVE  up[0] = n
  BY DEF IsClimb

LEMMA ClimbAt ==
    ASSUME NEW t, NEW n, NEW m \in Nat, NEW up, IsClimb(up, t, n, m)
    PROVE  /\ up[0] = n
           /\ \A k \in 0 .. m : k # 0 => up[k] = ParentOf(t, up[k - 1])
  BY DEF IsClimb

\* The climb from the parent is the rest of the climb.
LEMMA ClimbsAgree ==
    ASSUME NEW t, NEW n, NEW m \in Nat, NEW f, IsClimb(f, t, n, m),
           NEW i \in Nat, NEW g, IsClimb(g, t, ParentOf(t, n), i)
    PROVE  \A k \in 0 .. i : k + 1 <= m => f[k + 1] = g[k]
<1> DEFINE Bad == {k \in 0 .. i : k + 1 <= m /\ f[k + 1] # g[k]}
<1> SUFFICES ASSUME Bad # {} PROVE FALSE
  OBVIOUS
<1>1. PICK k \in Bad : \A j \in Bad : k <= j
  <2>1. Bad \in SUBSET Nat
    OBVIOUS
  <2> HIDE DEF Bad
  <2> QED
    BY <2>1, LeastNatural
<1>2. k \in 0 .. i /\ k \in Nat /\ k + 1 \in 0 .. m /\ f[k + 1] = ParentOf(t, f[k])
  <2>1. k \in 0 .. i /\ k \in Nat /\ k + 1 \in 0 .. m /\ k + 1 # 0 /\ (k + 1) - 1 = k
    BY <1>1
  <2>2. \A j \in 0 .. m : j # 0 => f[j] = ParentOf(t, f[j - 1])
    BY ClimbAt
  <2>3. f[k + 1] = ParentOf(t, f[(k + 1) - 1])
    BY <2>1, <2>2, Zenon
  <2> QED
    BY <2>1, <2>3
<1>3. CASE k = 0
  <2>1. f[0] = n
    BY ClimbAt
  <2>2. g[0] = ParentOf(t, n)
    BY ClimbAt
  <2> QED
    BY <1>1, <1>2, <1>3, <2>1, <2>2
<1>4. CASE k # 0
  <2>1. k - 1 \in 0 .. i /\ (k - 1) + 1 = k /\ k <= m /\ k - 1 \notin Bad
    BY <1>1, <1>2, <1>4
  <2>2. f[k] = g[k - 1]
    BY <2>1
  <2>3. g[k] = ParentOf(t, g[k - 1])
    BY <1>2, <1>4, ClimbAt
  <2> QED
    BY <1>1, <1>2, <2>2, <2>3
<1> QED
  BY <1>3, <1>4

\* A climb meets smaller and smaller nodes of the tree, then no more.
LEMMA ClimbDescends ==
    ASSUME NEW t, IsTree(t), NEW n \in DOMAIN t,
           NEW m \in Nat, NEW up, IsClimb(up, t, n, m)
    PROVE  \A k \in 0 .. m :
            /\ up[k] \in DOMAIN t \cup {NoNode}
            /\ up[k] # NoNode =>
                \A j \in 0 .. k - 1 : up[j] \in DOMAIN t /\ up[k] < up[j]
<1> DEFINE Good(k) == /\ up[k] \in DOMAIN t \cup {NoNode}
                      /\ up[k] # NoNode =>
                            \A j \in 0 .. k - 1 : up[j] \in DOMAIN t /\ up[k] < up[j]
           Bad == {k \in 0 .. m : ~Good(k)}
<1> SUFFICES ASSUME Bad # {} PROVE FALSE
  OBVIOUS
<1>1. PICK k \in Bad : \A j \in Bad : k <= j
  <2>1. Bad \in SUBSET Nat
    OBVIOUS
  <2> HIDE DEF Bad
  <2> QED
    BY <2>1, LeastNatural
<1>2. k # 0
  <2>1. Good(0)
    BY ClimbAt
  <2> QED
    BY <1>1, <2>1
<1>3. k \in 0 .. m /\ k - 1 \in 0 .. m /\ Good(k - 1) /\ ~Good(k)
  BY <1>1, <1>2
<1>4. up[k] = ParentOf(t, up[k - 1])
  BY <1>2, <1>3, ClimbAt
<1>5. CASE up[k - 1] = NoNode
  BY <1>3, <1>4, <1>5 DEF ParentOf
<1>6. CASE up[k - 1] # NoNode
  <2>1. up[k - 1] \in DOMAIN t /\ up[k] = t[up[k - 1]].parent
    BY <1>3, <1>4, <1>6 DEF ParentOf
  <2>2. \/ up[k] = NoNode
        \/ up[k] \in DOMAIN t /\ up[k] < up[k - 1]
    BY <2>1 DEF IsTree
  <2>3. CASE up[k] \in DOMAIN t /\ up[k] < up[k - 1]
    <3>1. ASSUME NEW j \in 0 .. k - 1
          PROVE  up[j] \in DOMAIN t /\ up[k] < up[j]
      <4>1. CASE j = k - 1
        BY <2>1, <2>3, <4>1
      <4>2. CASE j # k - 1
        <5>1. j \in 0 .. (k - 1) - 1
          BY <1>3, <4>2
        <5>2. up[j] \in DOMAIN t /\ up[k - 1] < up[j]
          BY <1>3, <1>6, <5>1
        <5>3. up[j] \in Int /\ up[k] \in Int /\ up[k - 1] \in Int
          BY <2>1, <2>3, <5>2 DEF IsTree
        <5> QED
          BY <2>3, <5>2, <5>3
      <4> QED
        BY <4>1, <4>2
    <3> QED
      BY <1>3, <2>3, <3>1
  <2> QED
    BY <1>3, <2>2, <2>3
<1> QED
  BY <1>5, <1>6

\* It has left the tree after as many steps as there are nodes.
LEMMA ClimbEnds ==
    ASSUME NEW t, IsTree(t), NEW n \in DOMAIN t,
           NEW up, IsClimb(up, t, n, Cardinality(DOMAIN t))
    PROVE  up[Cardinality(DOMAIN t)] = NoNode
<1> DEFINE m == Cardinality(DOMAIN t)
<1> SUFFICES ASSUME up[m] # NoNode PROVE FALSE
  OBVIOUS
<1>1. m \in Nat
  BY FS_CardinalityType DEF IsTree
<1> HIDE DEF m
<1>2. IsClimb(up, t, n, m)
  BY DEF m
<1>3. up[m] \in DOMAIN t
  BY <1>1, <1>2, ClimbDescends
<1>4. \A j \in 0 .. m - 1 : up[j] \in DOMAIN t
  BY <1>1, <1>2, ClimbDescends
<1>5. \A k \in 0 .. m : up[k] \in DOMAIN t
  BY <1>1, <1>3, <1>4
<1>6. \A k \in 0 .. m : \A j \in 0 .. k - 1 : up[k] < up[j]
  BY <1>1, <1>2, <1>5, ClimbDescends, NoNodeIsNoNumber DEF IsTree
<1>7. \A j, k \in 0 .. m : up[j] = up[k] => j = k
  <2> SUFFICES ASSUME NEW j \in 0 .. m, NEW k \in 0 .. m, up[j] = up[k], j # k
               PROVE  FALSE
    OBVIOUS
  <2>1. j \in 0 .. k - 1 \/ k \in 0 .. j - 1
    BY <1>1
  <2>2. up[k] \in Int
    BY <1>5 DEF IsTree
  <2> QED
    BY <1>6, <2>1, <2>2
<1>8. up \in Injection(0 .. m, DOMAIN t)
  <2>1. up \in [0 .. m -> DOMAIN t]
    BY <1>2, <1>5 DEF IsClimb
  <2> QED
    BY <1>7, <2>1 DEF Injection, IsInjective
<1>9. Cardinality(0 .. m) <= m
  BY <1>8, FS_Injection DEF IsTree, m
<1>10. Cardinality(0 .. m) = m + 1
  BY <1>1, FS_Interval
<1> QED
  BY <1>1, <1>9, <1>10

-----------------------------------------------------------------------------
(* Ancestors.                                                               *)

LEMMA TreeIsFinite ==
    ASSUME NEW t, IsTree(t)
    PROVE  Cardinality(DOMAIN t) \in Nat
  BY FS_CardinalityType DEF IsTree

\* A node is among its ancestors, which are nodes not larger than it.
LEMMA SelfIsAncestor ==
    ASSUME NEW t, IsTree(t), NEW n \in DOMAIN t
    PROVE  n \in AncestorsOrSelf(t, n)
<1>1. PICK up : /\ IsClimb(up, t, n, Cardinality(DOMAIN t))
                /\ AncestorsOrSelf(t, n)
                        = {up[k] : k \in 0 .. Cardinality(DOMAIN t)} \ {NoNode}
  BY TreeIsFinite, AncestorsAreClimbed
<1>2. up[0] = n
  BY <1>1, TreeIsFinite, ClimbAt
<1>3. n # NoNode
  BY NoNodeIsNoNumber DEF IsTree
<1>4. 0 \in 0 .. Cardinality(DOMAIN t)
  BY TreeIsFinite
<1> QED
  BY <1>1, <1>2, <1>3, <1>4

LEMMA AncestorsAreNodes ==
    ASSUME NEW t, IsTree(t), NEW n \in DOMAIN t, NEW a \in AncestorsOrSelf(t, n)
    PROVE  a \in DOMAIN t /\ a <= n
<1> DEFINE m == Cardinality(DOMAIN t)
<1>1. PICK up : /\ IsClimb(up, t, n, m)
                /\ AncestorsOrSelf(t, n) = {up[k] : k \in 0 .. m} \ {NoNode}
  BY TreeIsFinite, AncestorsAreClimbed
<1>2. m \in Nat
  BY TreeIsFinite
<1> HIDE DEF m
<1>3. PICK k \in 0 .. m : a = up[k]
  BY <1>1
<1>4. a \in DOMAIN t /\ \A j \in 0 .. k - 1 : a < up[j]
  BY <1>1, <1>2, <1>3, ClimbDescends
<1>5. up[0] = n
  BY <1>1, <1>2, ClimbAt
<1>6. n \in Int /\ a \in Int
  BY <1>4 DEF IsTree
<1>7. CASE k = 0
  BY <1>3, <1>4, <1>5, <1>6, <1>7
<1>8. CASE k # 0
  <2>1. 0 \in 0 .. k - 1
    BY <1>2, <1>8
  <2> QED
    BY <1>4, <1>5, <1>6, <2>1
<1> QED
  BY <1>7, <1>8

\* The ancestors of a node are the node and those of its parent.
LEMMA AncestorsOfNode ==
    ASSUME NEW t, IsTree(t), NEW n \in DOMAIN t
    PROVE  AncestorsOrSelf(t, n) =
             {n} \cup (IF t[n].parent = NoNode THEN {}
                       ELSE AncestorsOrSelf(t, t[n].parent))
<1> DEFINE m == Cardinality(DOMAIN t)
           p == ParentOf(t, n)
<1>1. m \in Nat
  BY TreeIsFinite
<1>2. n # NoNode /\ p = t[n].parent /\ p \in DOMAIN t \cup {NoNode}
  BY NoNodeIsNoNumber DEF IsTree, ParentOf
<1>3. PICK f : /\ IsClimb(f, t, n, m)
               /\ AncestorsOrSelf(t, n) = {f[k] : k \in 0 .. m} \ {NoNode}
  BY <1>1, AncestorsAreClimbed
<1>4. PICK g : /\ IsClimb(g, t, p, m)
               /\ AncestorsOrSelf(t, p) = {g[k] : k \in 0 .. m} \ {NoNode}
  BY <1>1, AncestorsAreClimbed
<1>5. p # NoNode => g[m] = NoNode
  BY <1>2, <1>4, ClimbEnds
<1> HIDE DEF m, p
<1>6. \A k \in 0 .. m : k + 1 <= m => f[k + 1] = g[k]
  BY <1>1, <1>3, <1>4, ClimbsAgree DEF p
<1>7. f[0] = n /\ g[0] = p
  <2>1. f[0] = n
    <3>1. IsClimb(f, t, n, m)
      BY <1>3
    <3> QED
      BY <1>1, <3>1, ClimbStarts
  <2>2. g[0] = p
    <3>1. IsClimb(g, t, p, m)
      BY <1>4
    <3> QED
      BY <1>1, <3>1, ClimbStarts
  <2> QED
    BY <2>1, <2>2
<1>8. ASSUME NEW a \in AncestorsOrSelf(t, n), a # n
      PROVE  p # NoNode /\ a \in AncestorsOrSelf(t, p)
  <2>1. PICK k \in 0 .. m : a = f[k] /\ a # NoNode
    BY <1>3
  <2>2. k - 1 \in 0 .. m /\ (k - 1) + 1 = k /\ (k - 1) + 1 <= m
    BY <1>1, <1>7, <1>8, <2>1
  <2>3. a = g[k - 1]
    BY <1>6, <2>1, <2>2
  <2>4. a \in AncestorsOrSelf(t, p)
    BY <1>4, <2>1, <2>2, <2>3
  <2>5. ASSUME p = NoNode PROVE FALSE
    <3>1. n \in DOMAIN t /\ \A j \in 0 .. k - 1 : a < f[j]
      BY <1>1, <1>3, <2>1, ClimbDescends
    <3>2. k = 1
      <4> SUFFICES ASSUME k # 1 PROVE FALSE
        OBVIOUS
      <4>1. 1 \in 0 .. k - 1 /\ 0 \in 0 .. m /\ 0 + 1 <= m
        BY <1>1, <2>2
      <4>2. f[1] = NoNode
        BY <1>6, <1>7, <2>5, <4>1
      <4>3. f[1] \in DOMAIN t
        BY <1>1, <1>3, <2>1, <4>1, ClimbDescends
      <4> QED
        BY <4>2, <4>3, NoNodeIsNoNumber DEF IsTree
    <3> QED
      BY <1>7, <2>1, <2>3, <2>5, <3>2
  <2> QED
    BY <2>4, <2>5
<1>9. ASSUME p # NoNode, NEW a \in AncestorsOrSelf(t, p)
      PROVE  a \in AncestorsOrSelf(t, n)
  <2>1. PICK k \in 0 .. m : a = g[k] /\ a # NoNode
    BY <1>4
  <2>2. k # m
    BY <1>5, <1>9, <2>1
  <2>3. k + 1 \in 0 .. m /\ k + 1 <= m
    BY <1>1, <2>2
  <2>4. a = f[k + 1]
    BY <1>6, <2>1, <2>3
  <2> QED
    BY <1>3, <2>1, <2>3, <2>4
<1>10. n \in AncestorsOrSelf(t, n)
  BY SelfIsAncestor
<1>11. CASE p = NoNode
  BY <1>2, <1>8, <1>10, <1>11
<1>12. CASE p # NoNode
  BY <1>2, <1>8, <1>9, <1>10, <1>12
<1> QED
  BY <1>11, <1>12

\* The ancestors of an ancestor are ancestors.
LEMMA AncestorsAreTransitive ==
    ASSUME NEW t, IsTree(t)
    PROVE  \A d \in DOMAIN t : \A a \in AncestorsOrSelf(t, d) :
                AncestorsOrSelf(t, a) \subseteq AncestorsOrSelf(t, d)
<1> DEFINE Good(d) == \A a \in AncestorsOrSelf(t, d) :
                            AncestorsOrSelf(t, a) \subseteq AncestorsOrSelf(t, d)
           Bad == {d \in DOMAIN t : ~Good(d)}
<1> SUFFICES ASSUME Bad # {} PROVE FALSE
  OBVIOUS
<1>1. PICK d \in Bad : \A j \in Bad : d <= j
  <2>1. Bad \in SUBSET Nat
    BY DEF IsTree
  <2> HIDE DEF Bad
  <2> QED
    BY <2>1, LeastNatural
<1>2. d \in DOMAIN t /\ ~Good(d) /\ d \in Nat
  BY <1>1 DEF IsTree
<1>3. CASE t[d].parent = NoNode
  <2>1. AncestorsOrSelf(t, d) = {d}
    BY <1>2, <1>3, AncestorsOfNode
  <2> QED
    BY <1>2, <2>1
<1>4. CASE t[d].parent # NoNode
  <2> DEFINE p == t[d].parent
  <2>1. p \in DOMAIN t /\ p < d /\ p \in Nat
    BY <1>2, <1>4 DEF IsTree
  <2>2. Good(p)
    BY <1>1, <1>2, <2>1
  <2>3. AncestorsOrSelf(t, d) = {d} \cup AncestorsOrSelf(t, p)
    BY <1>2, <1>4, AncestorsOfNode
  <2> HIDE DEF p
  <2>4. Good(d)
    BY <2>2, <2>3
  <2> QED
    BY <1>2, <2>4
<1> QED
  BY <1>3, <1>4

\* The nodes of a tree keep their ancestors in a tree that extends it.
LEMMA AncestorsAreKept ==
    ASSUME NEW t, IsTree(t), NEW u, IsTree(u), DOMAIN t \subseteq DOMAIN u,
           \A n \in DOMAIN t : u[n].parent = t[n].parent
    PROVE  \A n \in DOMAIN t : AncestorsOrSelf(u, n) = AncestorsOrSelf(t, n)
<1> DEFINE Bad == {n \in DOMAIN t : AncestorsOrSelf(u, n) # AncestorsOrSelf(t, n)}
<1> SUFFICES ASSUME Bad # {} PROVE FALSE
  OBVIOUS
<1>1. PICK n \in Bad : \A j \in Bad : n <= j
  <2>1. Bad \in SUBSET Nat
    BY DEF IsTree
  <2> HIDE DEF Bad
  <2> QED
    BY <2>1, LeastNatural
<1>2. n \in DOMAIN t /\ n \in DOMAIN u /\ n \in Nat
  BY <1>1 DEF IsTree
<1>3. u[n].parent = t[n].parent
  BY <1>2
<1>4. t[n].parent # NoNode =>
        AncestorsOrSelf(u, t[n].parent) = AncestorsOrSelf(t, t[n].parent)
  <2> SUFFICES ASSUME t[n].parent # NoNode
               PROVE  t[n].parent \in DOMAIN t /\ t[n].parent \notin Bad
    OBVIOUS
  <2>1. t[n].parent \in DOMAIN t /\ t[n].parent < n /\ t[n].parent \in Nat
    BY <1>2 DEF IsTree
  <2> QED
    BY <1>1, <1>2, <2>1
<1>5. AncestorsOrSelf(t, n) =
        {n} \cup (IF t[n].parent = NoNode THEN {} ELSE AncestorsOrSelf(t, t[n].parent))
  BY <1>2, AncestorsOfNode
<1>6. AncestorsOrSelf(u, n) =
        {n} \cup (IF u[n].parent = NoNode THEN {} ELSE AncestorsOrSelf(u, u[n].parent))
  BY <1>2, AncestorsOfNode
<1>7. AncestorsOrSelf(u, n) = AncestorsOrSelf(t, n)
  BY <1>3, <1>4, <1>5, <1>6
<1> QED
  BY <1>1, <1>7

-----------------------------------------------------------------------------
(* Adding a child.                                                          *)

\* The fields of the nodes.
HasNodes(t) ==
    \A n \in DOMAIN t : t[n] \in [header : Header, parent : Nat \cup {NoNode},
                                  numOfDesc : Nat]

\* u is t with a new leaf, counted for every ancestor but the root.
IsWithChild(u, t, p, node, header) ==
    /\ DOMAIN u = DOMAIN t \cup {node}
    /\ u[node] = Leaf(header, p)
    /\ \A n \in DOMAIN t :
        /\ u[n].header = t[n].header
        /\ u[n].parent = t[n].parent
        /\ u[n].numOfDesc =
                IF n \in AncestorsOrSelf(t, p) /\ t[n].parent # NoNode
                THEN t[n].numOfDesc + 1
                ELSE t[n].numOfDesc

LEMMA AddChildNodes ==
    ASSUME NEW t, HasNodes(t), NEW p, NEW node, node \notin DOMAIN t, NEW header,
           NEW u, u = AddChild(t, p, node, header)
    PROVE  IsWithChild(u, t, p, node, header)
<1> DEFINE counted == WithDescCounted(t, p)
<1>1. \A n \in DOMAIN t :
        counted[n] = IF n \in AncestorsOrSelf(t, p) /\ t[n].parent # NoNode
                     THEN [t[n] EXCEPT !.numOfDesc = @ + 1]
                     ELSE t[n]
  BY DEF WithDescCounted
<1>2. u = [n \in DOMAIN t \cup {node} |->
            IF n = node THEN Leaf(header, p) ELSE counted[n]]
  BY DEF AddChild
<1> HIDE DEF counted
<1>3. ASSUME NEW n \in DOMAIN t
      PROVE  /\ u[n].header = t[n].header
             /\ u[n].parent = t[n].parent
             /\ u[n].numOfDesc =
                        IF n \in AncestorsOrSelf(t, p) /\ t[n].parent # NoNode
                        THEN t[n].numOfDesc + 1
                        ELSE t[n].numOfDesc
  <2>1. u[n] = counted[n]
    BY <1>2
  <2>2. t[n] \in [header : Header, parent : Nat \cup {NoNode}, numOfDesc : Nat]
    BY DEF HasNodes
  <2> QED
    BY <1>1, <2>1, <2>2
<1> QED
  BY <1>2, <1>3 DEF IsWithChild

LEMMA AddChildIsTree ==
    ASSUME NEW t, IsTree(t), HasNodes(t), NEW p \in DOMAIN t,
           NEW node \in Nat, \A n \in DOMAIN t : n < node, NEW header \in Header,
           NEW u, u = AddChild(t, p, node, header)
    PROVE  IsTree(u) /\ HasNodes(u)
<1>1. node \notin DOMAIN t
  BY DEF IsTree
<1>2. /\ DOMAIN u = DOMAIN t \cup {node}
      /\ u[node] = Leaf(header, p)
      /\ \A n \in DOMAIN t : u[n].parent = t[n].parent
  <2>1. IsWithChild(u, t, p, node, header)
    BY <1>1, AddChildNodes
  <2> QED
    BY <2>1 DEF IsWithChild
<1>3. IsTree(u)
  <2>1. IsFiniteSet(DOMAIN u)
    BY <1>2, FS_AddElement DEF IsTree
  <2>2. u[node].parent = p
    BY <1>2 DEF Leaf
  <2> QED
    BY <1>2, <2>1, <2>2 DEF IsTree
<1>4. HasNodes(u)
  <2>1. u[node] \in [header : Header, parent : Nat \cup {NoNode}, numOfDesc : Nat]
    BY <1>2 DEF Leaf, IsTree
  <2>2. ASSUME NEW n \in DOMAIN t
        PROVE  u[n] \in [header : Header, parent : Nat \cup {NoNode}, numOfDesc : Nat]
    BY <1>1 DEF HasNodes, AddChild, WithDescCounted
  <2> QED
    BY <1>2, <2>1, <2>2 DEF HasNodes
<1> QED
  BY <1>3, <1>4

\* A new child joins the subtrees of its parent and of the ancestors of it.
LEMMA AddChildSubtrees ==
    ASSUME NEW t, IsTree(t), HasNodes(t), NEW p \in DOMAIN t,
           NEW node \in Nat, \A n \in DOMAIN t : n < node, NEW header \in Header,
           NEW u, u = AddChild(t, p, node, header)
    PROVE  /\ Subtree(u, node) = {node}
           /\ \A a \in DOMAIN t :
                Subtree(u, a) = Subtree(t, a) \cup
                    (IF a \in AncestorsOrSelf(t, p) THEN {node} ELSE {})
<1>1. node \notin DOMAIN t
  BY DEF IsTree
<1>2. /\ DOMAIN u = DOMAIN t \cup {node}
      /\ u[node] = Leaf(header, p)
      /\ \A n \in DOMAIN t : u[n].parent = t[n].parent
  <2>1. IsWithChild(u, t, p, node, header)
    BY <1>1, AddChildNodes
  <2> QED
    BY <2>1 DEF IsWithChild
<1>3. IsTree(u)
  BY AddChildIsTree
<1>4. \A n \in DOMAIN t : AncestorsOrSelf(u, n) = AncestorsOrSelf(t, n)
  BY <1>2, <1>3, AncestorsAreKept
<1>5. AncestorsOrSelf(u, node) = {node} \cup AncestorsOrSelf(t, p)
  <2>1. u[node].parent = p /\ p # NoNode
    BY <1>2, NoNodeIsNoNumber DEF Leaf, IsTree
  <2>2. AncestorsOrSelf(u, node) = {node} \cup AncestorsOrSelf(u, p)
    BY <1>2, <1>3, <2>1, AncestorsOfNode
  <2> QED
    BY <1>4, <2>2
<1>6. \A n \in DOMAIN t : node \notin AncestorsOrSelf(t, n)
  BY <1>1, AncestorsAreNodes
<1>7. node \in AncestorsOrSelf(u, node)
  BY <1>5
<1>8. Subtree(u, node) = {node}
  BY <1>2, <1>4, <1>6, <1>7 DEF Subtree
<1>9. ASSUME NEW a \in DOMAIN t
      PROVE  Subtree(u, a) = Subtree(t, a) \cup
                (IF a \in AncestorsOrSelf(t, p) THEN {node} ELSE {})
  <2>1. a # node
    BY <1>1
  <2>2. \A d : d \in Subtree(u, a) <=>
                    \/ d \in DOMAIN t /\ a \in AncestorsOrSelf(t, d)
                    \/ d = node /\ a \in AncestorsOrSelf(t, p)
    BY <1>1, <1>2, <1>4, <1>5, <2>1 DEF Subtree
  <2> QED
    BY <2>2 DEF Subtree
<1> QED
  BY <1>8, <1>9

\* The counts kept for the nodes are those of their subtrees.
CountsAreExact(t) ==
    \A n \in DOMAIN t :
        t[n].parent # NoNode => t[n].numOfDesc = Cardinality(Subtree(t, n)) - 1

\* AddDescCount keeps the counts exact.
LEMMA AddChildCounts ==
    ASSUME NEW t, IsTree(t), HasNodes(t), CountsAreExact(t), NEW p \in DOMAIN t,
           NEW node \in Nat, \A n \in DOMAIN t : n < node, NEW header \in Header,
           NEW u, u = AddChild(t, p, node, header)
    PROVE  CountsAreExact(u)
<1>1. node \notin DOMAIN t
  BY DEF IsTree
<1>2. IsWithChild(u, t, p, node, header)
  BY <1>1, AddChildNodes
<1>3. u[node].numOfDesc = Cardinality(Subtree(u, node)) - 1
  <2>1. Subtree(u, node) = {node}
    BY AddChildSubtrees
  <2>2. u[node].numOfDesc = 0
    BY <1>2 DEF IsWithChild, Leaf
  <2> QED
    BY <2>1, <2>2, FS_Singleton
<1>4. ASSUME NEW n \in DOMAIN t, t[n].parent # NoNode
      PROVE  u[n].numOfDesc = Cardinality(Subtree(u, n)) - 1
  <2>1. /\ IsFiniteSet(Subtree(t, n)) /\ Cardinality(Subtree(t, n)) \in Nat
        /\ node \notin Subtree(t, n)
    <3>1. Subtree(t, n) \in SUBSET DOMAIN t
      BY DEF Subtree
    <3> QED
      BY <1>1, <3>1, FS_Subset, FS_CardinalityType DEF IsTree
  <2>2. t[n].numOfDesc = Cardinality(Subtree(t, n)) - 1
    BY <1>4 DEF CountsAreExact
  <2>3. \A a \in DOMAIN t :
            Subtree(u, a) = Subtree(t, a) \cup
                (IF a \in AncestorsOrSelf(t, p) THEN {node} ELSE {})
    BY AddChildSubtrees
  <2>4. CASE n \in AncestorsOrSelf(t, p)
    <3>1. Subtree(u, n) = Subtree(t, n) \cup {node}
      BY <2>3, <2>4
    <3>2. Cardinality(Subtree(u, n)) = Cardinality(Subtree(t, n)) + 1
      BY <2>1, <3>1, FS_AddElement
    <3>3. u[n].numOfDesc = t[n].numOfDesc + 1
      BY <1>2, <1>4, <2>4 DEF IsWithChild
    <3> QED
      BY <2>1, <2>2, <3>2, <3>3
  <2>5. CASE n \notin AncestorsOrSelf(t, p)
    <3>1. Subtree(u, n) = Subtree(t, n)
      BY <2>3, <2>5
    <3>2. u[n].numOfDesc = t[n].numOfDesc
      BY <1>2, <1>4, <2>5 DEF IsWithChild
    <3> QED
      BY <2>2, <3>1, <3>2
  <2> QED
    BY <2>4, <2>5
<1> QED
  BY <1>2, <1>3, <1>4 DEF CountsAreExact, IsWithChild

-----------------------------------------------------------------------------
(* Releasing a child.                                                       *)

LEMMA SubtreesAreNodes ==
    ASSUME NEW t, IsTree(t), NEW n
    PROVE  /\ Subtree(t, n) \subseteq DOMAIN t
           /\ IsFiniteSet(Subtree(t, n)) /\ Cardinality(Subtree(t, n)) \in Nat
<1>1. Subtree(t, n) \in SUBSET DOMAIN t
  BY DEF Subtree
<1> QED
  BY <1>1, FS_Subset, FS_CardinalityType DEF IsTree

\* Below the top of a subtree, parents are in the subtree too.
LEMMA SubtreeIsClosed ==
    ASSUME NEW t, IsTree(t), NEW c \in DOMAIN t, NEW n \in Subtree(t, c), n # c
    PROVE  t[n].parent # NoNode /\ t[n].parent \in Subtree(t, c)
<1>1. n \in DOMAIN t /\ c \in AncestorsOrSelf(t, n)
  BY DEF Subtree
<1>2. AncestorsOrSelf(t, n) =
        {n} \cup (IF t[n].parent = NoNode THEN {} ELSE AncestorsOrSelf(t, t[n].parent))
  BY <1>1, AncestorsOfNode
<1>3. t[n].parent # NoNode /\ c \in AncestorsOrSelf(t, t[n].parent)
  BY <1>1, <1>2
<1>4. t[n].parent \in DOMAIN t
  BY <1>1, <1>3 DEF IsTree
<1> QED
  BY <1>3, <1>4 DEF Subtree

\* u is the subtree of t under c.
IsReleased(u, t, c) ==
    /\ DOMAIN u = Subtree(t, c)
    /\ c \in DOMAIN u
    /\ u[c].parent = NoNode
    /\ \A n \in DOMAIN u :
        /\ u[n].header = t[n].header /\ u[n].numOfDesc = t[n].numOfDesc
        /\ n # c => u[n].parent = t[n].parent /\ u[n].parent \in DOMAIN u

LEMMA ReleaseChildNodes ==
    ASSUME NEW t, IsTree(t), HasNodes(t), NEW c \in DOMAIN t,
           NEW u, u = ReleaseChild(t, c)
    PROVE  IsReleased(u, t, c)
<1>1. u = [n \in Subtree(t, c) |->
                IF n = c THEN [t[n] EXCEPT !.parent = NoNode] ELSE t[n]]
  BY DEF ReleaseChild
<1>2. c \in Subtree(t, c)
  BY SelfIsAncestor DEF Subtree
<1>3. t[c] \in [header : Header, parent : Nat \cup {NoNode}, numOfDesc : Nat]
  BY DEF HasNodes
<1>4. /\ u[c].parent = NoNode
      /\ u[c].header = t[c].header /\ u[c].numOfDesc = t[c].numOfDesc
  BY <1>1, <1>2, <1>3
<1>5. \A n \in DOMAIN u : n # c => u[n] = t[n] /\ t[n].parent \in DOMAIN u
  BY <1>1, SubtreeIsClosed
<1> QED
  BY <1>1, <1>2, <1>4, <1>5 DEF IsReleased

LEMMA ReleaseChildIsTree ==
    ASSUME NEW t, IsTree(t), HasNodes(t), NEW c \in DOMAIN t,
           NEW u, u = ReleaseChild(t, c)
    PROVE  IsTree(u) /\ HasNodes(u)
<1>1. IsReleased(u, t, c)
  BY ReleaseChildNodes
<1>2. DOMAIN u \subseteq DOMAIN t /\ IsFiniteSet(DOMAIN u)
  BY <1>1, SubtreesAreNodes DEF IsReleased
<1>3. \A n \in DOMAIN u : \/ u[n].parent = NoNode
                          \/ u[n].parent \in DOMAIN u /\ u[n].parent < n
  <2> SUFFICES ASSUME NEW n \in DOMAIN u, u[n].parent # NoNode
               PROVE  u[n].parent \in DOMAIN u /\ u[n].parent < n
    OBVIOUS
  <2>1. u[n].parent = t[n].parent /\ u[n].parent \in DOMAIN u
    BY <1>1 DEF IsReleased
  <2> QED
    BY <1>2, <2>1 DEF IsTree
<1>4. HasNodes(u)
  BY <1>2 DEF HasNodes, ReleaseChild
<1> QED
  BY <1>2, <1>3, <1>4 DEF IsTree

\* In the tree released, each node has the ancestors that it had below c.
LEMMA ReleaseChildAncestors ==
    ASSUME NEW t, IsTree(t), HasNodes(t), NEW c \in DOMAIN t,
           NEW u, u = ReleaseChild(t, c)
    PROVE  \A n \in DOMAIN u :
            AncestorsOrSelf(u, n) = AncestorsOrSelf(t, n) \cap DOMAIN u
<1> DEFINE Bad == {n \in DOMAIN u :
                    AncestorsOrSelf(u, n) # AncestorsOrSelf(t, n) \cap DOMAIN u}
<1> SUFFICES ASSUME Bad # {} PROVE FALSE
  OBVIOUS
<1>1. IsReleased(u, t, c) /\ IsTree(u)
  BY ReleaseChildNodes, ReleaseChildIsTree
<1>2. DOMAIN u \subseteq DOMAIN t
  BY <1>1, SubtreesAreNodes DEF IsReleased
<1>3. PICK n \in Bad : \A j \in Bad : n <= j
  <2>1. Bad \in SUBSET Nat
    BY <1>2 DEF IsTree
  <2> HIDE DEF Bad
  <2> QED
    BY <2>1, LeastNatural
<1>4. n \in DOMAIN u /\ n \in DOMAIN t /\ n \in Nat
  BY <1>2, <1>3 DEF IsTree
<1>5. AncestorsOrSelf(u, n) =
        {n} \cup (IF u[n].parent = NoNode THEN {} ELSE AncestorsOrSelf(u, u[n].parent))
  BY <1>1, <1>4, AncestorsOfNode
<1>6. CASE n = c
  <2>1. AncestorsOrSelf(u, n) = {c}
    BY <1>1, <1>5, <1>6 DEF IsReleased
  <2>2. ASSUME NEW a \in AncestorsOrSelf(t, c) \cap DOMAIN u
        PROVE  a = c
    <3>1. c \in AncestorsOrSelf(t, a) /\ a \in DOMAIN t
      BY <1>1, <2>2 DEF IsReleased, Subtree
    <3>2. a <= c /\ c <= a
      BY <2>2, <3>1, AncestorsAreNodes
    <3> QED
      BY <3>1, <3>2 DEF IsTree
  <2>3. c \in AncestorsOrSelf(t, c)
    BY SelfIsAncestor
  <2> QED
    BY <1>3, <1>4, <1>6, <2>1, <2>2, <2>3
<1>7. CASE n # c
  <2> DEFINE p == t[n].parent
  <2>1. u[n].parent = p /\ p \in DOMAIN u
    BY <1>1, <1>4, <1>7 DEF IsReleased
  <2>2. p \in DOMAIN t /\ p # NoNode /\ p < n /\ p \in Nat
    BY <1>2, <1>4, <2>1, NoNodeIsNoNumber DEF IsTree
  <2>3. AncestorsOrSelf(u, p) = AncestorsOrSelf(t, p) \cap DOMAIN u
    BY <1>3, <1>4, <2>1, <2>2
  <2>4. AncestorsOrSelf(t, n) = {n} \cup AncestorsOrSelf(t, p)
    BY <1>4, <2>2, AncestorsOfNode
  <2> HIDE DEF p
  <2>5. AncestorsOrSelf(u, n) = {n} \cup AncestorsOrSelf(u, p)
    BY <1>5, <2>1, <2>2
  <2> QED
    BY <1>3, <1>4, <2>3, <2>4, <2>5
<1> QED
  BY <1>6, <1>7

\* Releasing a child leaves the subtrees as they are, and the counts exact.
LEMMA ReleaseChildSubtrees ==
    ASSUME NEW t, IsTree(t), HasNodes(t), NEW c \in DOMAIN t,
           NEW u, u = ReleaseChild(t, c)
    PROVE  \A a \in DOMAIN u : Subtree(u, a) = Subtree(t, a)
<1>1. IsReleased(u, t, c)
  BY ReleaseChildNodes
<1>2. DOMAIN u \subseteq DOMAIN t
  BY <1>1, SubtreesAreNodes DEF IsReleased
<1> SUFFICES ASSUME NEW a \in DOMAIN u PROVE Subtree(u, a) = Subtree(t, a)
  OBVIOUS
<1>3. Subtree(u, a) = {d \in DOMAIN u : a \in AncestorsOrSelf(t, d)}
  BY ReleaseChildAncestors DEF Subtree
<1>4. ASSUME NEW d \in DOMAIN t, a \in AncestorsOrSelf(t, d)
      PROVE  d \in DOMAIN u
  <2>1. c \in AncestorsOrSelf(t, a)
    BY <1>1 DEF IsReleased, Subtree
  <2>2. c \in AncestorsOrSelf(t, d)
    BY <1>4, <2>1, AncestorsAreTransitive
  <2> QED
    BY <1>1, <2>2 DEF IsReleased, Subtree
<1> QED
  BY <1>2, <1>3, <1>4 DEF Subtree

LEMMA ReleaseChildCounts ==
    ASSUME NEW t, IsTree(t), HasNodes(t), CountsAreExact(t), NEW c \in DOMAIN t,
           NEW u, u = ReleaseChild(t, c)
    PROVE  CountsAreExact(u)
<1>1. IsReleased(u, t, c)
  BY ReleaseChildNodes
<1>2. DOMAIN u \subseteq DOMAIN t
  BY <1>1, SubtreesAreNodes DEF IsReleased
<1>3. ASSUME NEW n \in DOMAIN u, u[n].parent # NoNode
      PROVE  u[n].numOfDesc = Cardinality(Subtree(u, n)) - 1
  <2>1. n # c /\ u[n].parent = t[n].parent /\ u[n].numOfDesc = t[n].numOfDesc
    BY <1>1, <1>3 DEF IsReleased
  <2>2. t[n].numOfDesc = Cardinality(Subtree(t, n)) - 1
    BY <1>2, <1>3, <2>1 DEF CountsAreExact
  <2>3. Subtree(u, n) = Subtree(t, n)
    BY ReleaseChildSubtrees
  <2> QED
    BY <2>1, <2>2, <2>3
<1> QED
  BY <1>3 DEF CountsAreExact

\* The subtree of a child is smaller.
LEMMA SubtreeOfChild ==
    ASSUME NEW t, IsTree(t), NEW n \in DOMAIN t, t[n].parent # NoNode
    PROVE  Cardinality(Subtree(t, n)) < Cardinality(Subtree(t, t[n].parent))
<1> DEFINE p == t[n].parent
<1>1. p \in DOMAIN t /\ p < n /\ p \in Nat /\ n \in Nat
  BY DEF IsTree
<1>2. p \in AncestorsOrSelf(t, n)
  BY <1>1, AncestorsOfNode, SelfIsAncestor
<1>3. Subtree(t, n) \subseteq Subtree(t, p)
  <2> SUFFICES ASSUME NEW d \in Subtree(t, n) PROVE d \in Subtree(t, p)
    OBVIOUS
  <2>1. d \in DOMAIN t /\ n \in AncestorsOrSelf(t, d)
    BY DEF Subtree
  <2>2. AncestorsOrSelf(t, n) \subseteq AncestorsOrSelf(t, d)
    BY <2>1, AncestorsAreTransitive
  <2> HIDE DEF p
  <2> QED
    BY <1>2, <2>1, <2>2 DEF Subtree
<1>4. p \in Subtree(t, p) /\ p \notin Subtree(t, n)
  <2>1. p \in Subtree(t, p)
    BY <1>1, SelfIsAncestor DEF Subtree
  <2>2. n \notin AncestorsOrSelf(t, p)
    BY <1>1, AncestorsAreNodes
  <2> QED
    BY <2>1, <2>2 DEF Subtree
<1> HIDE DEF p
<1>5. /\ IsFiniteSet(Subtree(t, p)) /\ Cardinality(Subtree(t, p)) \in Nat
      /\ Cardinality(Subtree(t, n)) \in Nat
  BY SubtreesAreNodes
<1>6. /\ Cardinality(Subtree(t, n)) <= Cardinality(Subtree(t, p))
      /\ Cardinality(Subtree(t, p)) # Cardinality(Subtree(t, n))
  BY <1>3, <1>4, <1>5, FS_Subset
<1> QED
  BY <1>5, <1>6 DEF p

\* Counting the pairs of a descendant and an ancestor counts the subtrees.
LEMMA DescentIsSubtrees ==
    ASSUME NEW t, IsTree(t), NEW n \in DOMAIN t, NEW descent,
           descent = UNION {{d} \X AncestorsOrSelf(t, d) : d \in DOMAIN t}
    PROVE  Cardinality({d \in descent : d[2] = n}) = Cardinality(Subtree(t, n))
<1> DEFINE pairs == {d \in descent : d[2] = n}
           f == [d \in Subtree(t, n) |-> <<d, n>>]
<1>1. \A d : d \in Subtree(t, n) => <<d, n>> \in pairs
  BY DEF Subtree
<1>2. ASSUME NEW x \in pairs
      PROVE  \E d \in Subtree(t, n) : x = <<d, n>>
  <2>1. PICK d \in DOMAIN t : x \in {d} \X AncestorsOrSelf(t, d)
    OBVIOUS
  <2>2. x = <<d, n>> /\ n \in AncestorsOrSelf(t, d)
    BY <2>1
  <2> QED
    BY <2>2 DEF Subtree
<1> HIDE DEF pairs
<1>3. f \in Bijection(Subtree(t, n), pairs)
  <2>1. f \in [Subtree(t, n) -> pairs]
    BY <1>1
  <2>2. \A d, e \in Subtree(t, n) : f[d] = f[e] => d = e
    OBVIOUS
  <2>3. \A x \in pairs : \E d \in Subtree(t, n) : f[d] = x
    BY <1>2
  <2> QED
    BY <2>1, <2>2, <2>3 DEF Bijection, Injection, Surjection, IsInjective
<1>4. Cardinality(pairs) = Cardinality(Subtree(t, n))
  BY <1>3, SubtreesAreNodes, FS_Bijection DEF ExistsBijection
<1> QED
  BY <1>4 DEF pairs

-----------------------------------------------------------------------------
(***************************************************************************)
(* The look-up maps: a confirmed header is in neither, so that no update    *)
(* can add a child to it any more.                                          *)
(*                                                                          *)
(* Erasing the entry of a header removes every pointer to its node because  *)
(* an entry is always under the hash of the header of the node it points    *)
(* to; a pointer that dangles does not count, since a node's number, unlike *)
(* its address, is not used again.                                          *)
(***************************************************************************)

\* The entries of a look-up map: under the hash of their node, and none of the
\* root, unless EndBootstrapI made it.
EntriesAreRight(map) ==
    \A hash \in DOMAIN map :
        /\ map[hash] \in 1 .. nextNode - 1
        /\ map[hash] \in DOMAIN tree => tree[map[hash]].header.hash = hash
        /\ root # 1 => map[hash] # root

LookUpInv ==
    /\ DOMAIN tree \subseteq 1 .. nextNode - 1
    /\ root \in 1 .. nextNode - 1 \cup {NoNode}
    /\ ~HasLastNode => nextNode = 1
    /\ EntriesAreRight(m_offlineNodes)
    /\ EntriesAreRight(m_activeNodes)

LEMMA AddChildKeepsLookUp ==
    ASSUME LookUpInv, ValidInv, NEW header \in Header, NEW seesSync \in BOOLEAN,
           UpdateOnRuntimeAddChild(header, seesSync)
    PROVE  LookUpInv'
<1> DEFINE p == LookUp(header)
           counted == WithDescCounted(tree, p)
<1>1. /\ p \in DOMAIN tree
      /\ tree' = AddChild(tree, p, nextNode, header)
      /\ nextNode' = nextNode + 1
      /\ UNCHANGED <<root, m_lastNode>>
      /\ m_activeNodes' \in {m_activeNodes, Insert(m_activeNodes, header.hash, nextNode)}
      /\ m_offlineNodes' \in {m_offlineNodes, Insert(m_offlineNodes, header.hash, nextNode)}
  BY DEF UpdateOnRuntimeAddChild, UpdateOnRuntimeUnchanged, chkptVars
<1>2. nextNode \in Nat \ {0} /\ DOMAIN tree \subseteq Nat
  BY DEF ValidInv, NodesAreNumbered
<1>3. \A n \in DOMAIN tree : counted[n].header = tree[n].header
  BY DEF WithDescCounted, ValidInv, KeptWasValidated
<1> HIDE DEF p, counted
<1>4. /\ DOMAIN tree' = DOMAIN tree \cup {nextNode}
      /\ \A n \in DOMAIN tree' : tree'[n] = IF n = nextNode THEN Leaf(header, p)
                                                            ELSE counted[n]
  BY <1>1 DEF AddChild, counted
<1>5. /\ nextNode \notin DOMAIN tree
      /\ tree'[nextNode].header = header
      /\ \A n \in DOMAIN tree : tree'[n].header = tree[n].header
  BY <1>2, <1>3, <1>4 DEF LookUpInv, Leaf
<1>6. root # nextNode
  BY <1>2, MonitorAssumption DEF LookUpInv
<1>7. ASSUME NEW map, EntriesAreRight(map),
             NEW new \in {map, Insert(map, header.hash, nextNode)}, NEW hash \in DOMAIN new
      PROVE  /\ new[hash] \in 1 .. nextNode' - 1
             /\ new[hash] \in DOMAIN tree' => tree'[new[hash]].header.hash = hash
             /\ root' # 1 => new[hash] # root'
  <2>1. CASE hash \in DOMAIN map /\ new[hash] = map[hash]
    <3>1. /\ map[hash] \in 1 .. nextNode - 1
          /\ map[hash] \in DOMAIN tree => tree[map[hash]].header.hash = hash
          /\ root # 1 => map[hash] # root
      BY <1>7, <2>1 DEF EntriesAreRight
    <3>2. map[hash] # nextNode
      BY <1>2, <3>1
    <3> QED
      BY <1>1, <1>2, <1>4, <1>5, <2>1, <3>1, <3>2
  <2>2. CASE hash = header.hash /\ new[hash] = nextNode
    BY <1>1, <1>2, <1>5, <1>6, <2>2
  <2>3. CASE new = map
    BY <2>1, <2>3
  <2>4. CASE new = Insert(map, header.hash, nextNode) /\ header.hash \in DOMAIN map
    <3>1. new = map
      BY <2>4 DEF Insert
    <3> QED
      BY <2>1, <3>1
  <2>5. CASE new = Insert(map, header.hash, nextNode) /\ header.hash \notin DOMAIN map
    <3>1. new = [k \in DOMAIN map \cup {header.hash} |->
                    IF k = header.hash THEN nextNode ELSE map[k]]
      BY <2>5 DEF Insert, Assign
    <3>2. \/ hash \in DOMAIN map /\ new[hash] = map[hash]
          \/ hash = header.hash /\ new[hash] = nextNode
      BY <3>1
    <3> QED
      BY <2>1, <2>2, <3>2
  <2> QED
    BY <2>3, <2>4, <2>5
<1>8. EntriesAreRight(m_offlineNodes)' /\ EntriesAreRight(m_activeNodes)'
  <2>1. EntriesAreRight(m_offlineNodes) /\ EntriesAreRight(m_activeNodes)
    BY DEF LookUpInv
  <2>2. EntriesAreRight(m_offlineNodes)'
    BY <1>1, <1>7, <2>1 DEF EntriesAreRight
  <2>3. EntriesAreRight(m_activeNodes)'
    BY <1>1, <1>7, <2>1 DEF EntriesAreRight
  <2> QED
    BY <2>2, <2>3
<1>9. p \in DOMAIN tree /\ DOMAIN tree # {}
  BY <1>1
<1>10. HasLastNode' = HasLastNode
  BY <1>1 DEF HasLastNode
<1>11. HasLastNode
  BY <1>2, <1>9 DEF LookUpInv
<1> QED
  BY <1>1, <1>2, <1>4, <1>8, <1>10, <1>11 DEF LookUpInv

LEMMA EndBootstrapIKeepsLookUp ==
    ASSUME LookUpInv, ValidInv, validated \subseteq Header, EndBootstrapI
    PROVE  LookUpInv' /\ nextNode = 1
<1>1. /\ ~HasLastNode /\ m_currWindow # << >>
      /\ m_lastNode' = m_currWindow[Len(m_currWindow)]
      /\ tree' = [n \in DOMAIN tree \cup {nextNode} |->
                      IF n = nextNode THEN Leaf(m_lastNode', NoNode) ELSE tree[n]]
      /\ root' = nextNode /\ nextNode' = nextNode + 1
      /\ m_offlineNodes' = Assign(m_offlineNodes, m_lastNode'.hash, nextNode)
      /\ m_activeNodes' = m_activeNodes
  BY DEF EndBootstrapI, EndBootstrapPhase
<1>2. m_lastNode' \in Header
  <2>1. m_currWindow \in Seq(validated)
    BY DEF ValidInv, KeptWasValidated
  <2>2. Len(m_currWindow) \in Nat \ {0}
    BY <1>1, <2>1, EmptySeq
  <2> QED
    BY <1>1, <2>1, <2>2, ElementOfSeq
<1>3. HasLastNode'
  BY <1>2, NoNodeAssumption DEF HasLastNode
<1>4. nextNode = 1 /\ nextNode' = 2 /\ root' = 1
  BY <1>1 DEF LookUpInv
<1>5. 1 .. nextNode - 1 = {}
  BY <1>4
<1>6. DOMAIN tree = {} /\ DOMAIN tree' = {1}
  BY <1>1, <1>4, <1>5 DEF LookUpInv
<1>7. tree'[1].header = m_lastNode'
  BY <1>1, <1>4, <1>6 DEF Leaf
<1>8. DOMAIN m_offlineNodes = {} /\ DOMAIN m_activeNodes = {}
  BY <1>5 DEF LookUpInv, EntriesAreRight
<1>9. EntriesAreRight(m_offlineNodes)'
  <2>1. \A hash \in DOMAIN m_offlineNodes' :
            hash = m_lastNode'.hash /\ m_offlineNodes'[hash] = 1
    BY <1>1, <1>4, <1>8 DEF Assign
  <2>2. 1 \in 1 .. nextNode' - 1
    BY <1>4
  <2> QED
    BY <1>4, <1>7, <2>1, <2>2 DEF EntriesAreRight
<1>10. EntriesAreRight(m_activeNodes)'
  BY <1>1, <1>8 DEF EntriesAreRight
<1> QED
  BY <1>3, <1>4, <1>6, <1>9, <1>10 DEF LookUpInv

LEMMA ConfirmKeepsLookUp ==
    ASSUME LookUpInv, ValidInv, validated \subseteq Header, ConfirmChild
    PROVE  LookUpInv'
<1>1. PICK child : child = ChildHasNDesc(tree, root, ChkptSize)
  OBVIOUS
<1>2. /\ child # NoNode
      /\ tree' = ReleaseChild(tree, child)
      /\ root' = child /\ nextNode' = nextNode
      /\ m_lastNode' = tree[child].header
      /\ m_offlineNodes' = Erase(m_offlineNodes, NoLongerActive(child))
      /\ m_activeNodes' = Erase(m_activeNodes, NoLongerActive(child))
  BY <1>1 DEF ConfirmChild, AddNodeKeeps, AddNodeCompletes
<1>3. child \in DOMAIN tree
  BY <1>1, <1>2, ConfirmableIsChild DEF ValidInv, NodesAreNumbered, Children
<1>4. /\ DOMAIN tree' \subseteq DOMAIN tree
      /\ \A n \in DOMAIN tree' : tree'[n].header = tree[n].header
  BY <1>2 DEF ReleaseChild, Subtree, ValidInv, KeptWasValidated
<1>5. HasLastNode'
  BY <1>2, <1>3, NoNodeAssumption DEF HasLastNode, ValidInv, KeptWasValidated
<1>6. ASSUME NEW map, EntriesAreRight(map),
             NEW new, new = Erase(map, NoLongerActive(child)), NEW hash \in DOMAIN new
      PROVE  /\ new[hash] \in 1 .. nextNode' - 1
             /\ new[hash] \in DOMAIN tree' => tree'[new[hash]].header.hash = hash
             /\ new[hash] # root'
  <2>1. /\ hash \in DOMAIN map /\ new[hash] = map[hash]
        /\ hash # tree[child].header.hash
    BY <1>6 DEF Erase, NoLongerActive
  <2>2. /\ map[hash] \in 1 .. nextNode - 1
        /\ map[hash] \in DOMAIN tree => tree[map[hash]].header.hash = hash
    BY <1>6, <2>1 DEF EntriesAreRight
  <2>3. map[hash] # child
    BY <1>3, <2>1, <2>2
  <2> QED
    BY <1>2, <1>4, <2>1, <2>2, <2>3
<1>7. EntriesAreRight(m_offlineNodes)' /\ EntriesAreRight(m_activeNodes)'
  BY <1>2, <1>6 DEF EntriesAreRight, LookUpInv
<1> QED
  BY <1>2, <1>3, <1>4, <1>5, <1>7 DEF LookUpInv
\* Steps that change none of it, but for what is erased from m_activeNodes.
LEMMA OthersKeepLookUp ==
    ASSUME LookUpInv, HasLastNode' = HasLastNode,
           UNCHANGED <<tree, root, nextNode, m_offlineNodes>>,
           \/ UNCHANGED m_activeNodes
           \/ \E expired : m_activeNodes' = Erase(m_activeNodes, expired)
    PROVE  LookUpInv'
<1>1. EntriesAreRight(m_offlineNodes)' /\ EntriesAreRight(m_activeNodes)'
  BY DEF LookUpInv, EntriesAreRight, Erase
<1> QED
  BY <1>1 DEF LookUpInv

LEMMA StepsKeepLookUp ==
    ASSUME LookUpInv, ValidInv, validated \subseteq Header, [Next]_vars
    PROVE  LookUpInv'
<1> USE DEF chkptVars, treeVars, mapVars, histVars
<1>1. ASSUME NEW header \in Header, Update(header) PROVE LookUpInv'
  <2>1. CASE UpdateOnBootstrapI(header)
    <3>1. /\ m_lastNode' = m_lastNode
          /\ UNCHANGED <<tree, root, nextNode, m_offlineNodes, m_activeNodes>>
      BY <2>1 DEF UpdateOnBootstrapI, BootstrapIUnchanged, AddHeaderKeeps,
                  AddHeaderCompletes
    <3> QED
      BY <3>1, OthersKeepLookUp DEF HasLastNode
  <2>2. CASE \E seesSync \in BOOLEAN : UpdateOnRuntimeAddChild(header, seesSync)
    BY <2>2, AddChildKeepsLookUp
  <2>3. CASE \/ UpdateOnBootstrapIThrows(header) \/ UpdateOnRuntimeRejects(header)
             \/ UpdateOnRuntimeDangles(header)
    BY <2>3, OthersKeepLookUp
    DEF UpdateOnBootstrapIThrows, NoCheckpoint, BootstrapIUnchanged,
        UpdateOnRuntimeRejects, UpdateOnRuntimeDangles,
        UpdateOnRuntimeUnchanged, Undefined, HasLastNode
  <2> QED
    BY <1>1, <2>1, <2>2, <2>3 DEF Update
<1>2. CASE PhaseChangeCheck \/ UserEndsBootstrapI
  <2>1. CASE EndBootstrapI
    BY <2>1, EndBootstrapIKeepsLookUp
  <2>2. CASE RefreshSyncMsg \/ SamePhase
    BY <2>2, OthersKeepLookUp DEF RefreshSyncMsg, SamePhase, HasLastNode
  <2> QED
    BY <1>2, <2>1, <2>2 DEF PhaseChangeCheck, PhaseChangeThrows, UserEndsBootstrapI
<1>3. CASE RuntimeMaintenance
  <2>1. CASE ConfirmChild
    BY <2>1, ConfirmKeepsLookUp
  <2>2. CASE \/ MaintenanceThrows \/ NothingToConfirm \/ ExpireDangles
             \/ ExpireActiveNodes \/ ExpireFails
    BY <2>2, OthersKeepLookUp
    DEF MaintenanceThrows, NothingToConfirm, ExpireDangles, ExpireActiveNodes,
        ExpireFails, SamePhase, Undefined, HasLastNode
  <2> QED
    BY <1>3, <2>1, <2>2 DEF RuntimeMaintenance
<1>4. CASE UserRefreshesPlan \/ UserRefreshesSync \/ UserEndsSync \/ SyncMessage
  BY <1>4, OthersKeepLookUp
  DEF UserRefreshesPlan, RefreshBootstrapPlan, UserRefreshesSync,
      RefreshSyncMsg, UserEndsSync, SyncMessage, HasLastNode
<1>5. CASE UNCHANGED vars
  BY <1>5, OthersKeepLookUp DEF vars, HasLastNode
<1> QED
  BY <1>1, <1>2, <1>3, <1>4, <1>5 DEF Next

\* Nodes are made by AddChild, under the node of an entry, or by EndBootstrapI.
LEMMA NewNodesAreAllowed ==
    ASSUME LookUpInv, ValidInv, validated \subseteq Header, [Next]_vars,
           NEW n \in DOMAIN tree' \ DOMAIN tree, n > 1, tree'[n].parent = root
    PROVE  root = 1
<1> USE DEF chkptVars, treeVars, mapVars, histVars
<1>1. CASE \E header \in Header, seesSync \in BOOLEAN :
                UpdateOnRuntimeAddChild(header, seesSync)
  <2>1. PICK header \in Header, seesSync \in BOOLEAN :
                UpdateOnRuntimeAddChild(header, seesSync)
    BY <1>1
  <2>2. /\ LookUp(header) \in DOMAIN tree
        /\ tree' = AddChild(tree, LookUp(header), nextNode, header)
    BY <2>1 DEF UpdateOnRuntimeAddChild
  <2>3. n = nextNode /\ tree'[n].parent = LookUp(header)
    BY <2>2 DEF AddChild, Leaf
  <2>4. LookUp(header) # NoNode
    BY <2>2, MonitorAssumption DEF ValidInv, NodesAreNumbered
  <2>5. \/ /\ header.parent \in DOMAIN m_offlineNodes
           /\ m_offlineNodes[header.parent] = root
        \/ /\ header.parent \in DOMAIN m_activeNodes
           /\ m_activeNodes[header.parent] = root
    BY <2>3, <2>4 DEF LookUp
  <2> QED
    BY <2>5 DEF LookUpInv, EntriesAreRight
<1>2. CASE EndBootstrapI
  <2>1. nextNode = 1
    BY <1>2, EndBootstrapIKeepsLookUp
  <2>2. DOMAIN tree' = DOMAIN tree \cup {nextNode}
    BY <1>2 DEF EndBootstrapI
  <2> QED
    BY <2>1, <2>2
<1>3. CASE ConfirmChild
  BY <1>3 DEF ConfirmChild, ReleaseChild, Subtree
<1>4. CASE UNCHANGED tree
  BY <1>4
<1>5. \/ \E header \in Header, seesSync \in BOOLEAN :
            UpdateOnRuntimeAddChild(header, seesSync)
      \/ EndBootstrapI \/ ConfirmChild \/ UNCHANGED tree
  <2>1. ASSUME NEW header \in Header, Update(header),
               \A seesSync \in BOOLEAN : ~UpdateOnRuntimeAddChild(header, seesSync)
        PROVE  UNCHANGED tree
    BY <2>1
    DEF Update, UpdateOnBootstrapI, UpdateOnBootstrapIThrows,
        BootstrapIUnchanged, UpdateOnRuntimeRejects, UpdateOnRuntimeDangles,
        Undefined
  <2>2. ASSUME PhaseChangeCheck \/ UserEndsBootstrapI, ~EndBootstrapI
        PROVE  UNCHANGED tree
    BY <2>2
    DEF PhaseChangeCheck, PhaseChangeThrows, UserEndsBootstrapI, RefreshSyncMsg,
        SamePhase
  <2>3. ASSUME RuntimeMaintenance, ~ConfirmChild
        PROVE  UNCHANGED tree
    BY <2>3
    DEF RuntimeMaintenance, MaintenanceThrows, NothingToConfirm, ExpireDangles,
        ExpireActiveNodes, ExpireFails, SamePhase, Undefined
  <2>4. ASSUME \/ UserRefreshesPlan \/ UserRefreshesSync \/ UserEndsSync
               \/ SyncMessage \/ UNCHANGED vars
        PROVE  UNCHANGED tree
    BY <2>4
    DEF UserRefreshesPlan, RefreshBootstrapPlan, UserRefreshesSync,
        RefreshSyncMsg, UserEndsSync, SyncMessage, vars
  <2> QED
    BY <2>1, <2>2, <2>3, <2>4 DEF Next
<1> QED
  BY <1>1, <1>2, <1>3, <1>4, <1>5

LEMMA LookUpInit == ASSUME Init PROVE LookUpInv
<1>1. /\ DOMAIN tree = {} /\ root = NoNode /\ nextNode = 1
      /\ DOMAIN m_offlineNodes = {} /\ DOMAIN m_activeNodes = {}
  BY DEF Init
<1> QED
  BY <1>1 DEF LookUpInv, EntriesAreRight

\* The entries of the look-up maps are right in every state.
LEMMA LookUpInvariance == Spec => []LookUpInv
<1> DEFINE Inv == LookUpInv /\ ValidInv /\ validated \subseteq Header
<1>1. Init => LookUpInv
  BY LookUpInit
<1>2. Inv /\ [Next]_vars => LookUpInv'
  BY StepsKeepLookUp
<1>3. Spec => []ValidInv /\ [](validated \subseteq Header)
  BY ValidInvariance, ValidatedAreHeaders, PTL
<1> QED
  BY <1>1, <1>2, <1>3, PTL DEF Spec

\* RuntimeMaintenance and UpdateOnRuntime: erasing the entries of the header
\* that is confirmed and of the one before it is enough, in every later state,
\* to keep each update from extending a confirmed block by another child,
\* although entries of destroyed nodes are left in the maps.
THEOREM ConfirmedStaysChildless == Spec => ConfirmedGetsNoChild
<1> DEFINE Allowed == \A n \in DOMAIN tree' \ DOMAIN tree :
                        n > 1 /\ tree'[n].parent = root => root = 1
           Inv == LookUpInv /\ ValidInv /\ validated \subseteq Header
<1>1. Inv /\ [Next]_vars => [Allowed]_vars
  BY NewNodesAreAllowed
<1>2. Spec => []Inv
  BY LookUpInvariance, ValidInvariance, ValidatedAreHeaders, PTL
<1>3. Spec => [][Allowed]_vars
  BY <1>1, <1>2, PTL DEF Spec
<1> QED
  BY <1>3 DEF ConfirmedGetsNoChild

-----------------------------------------------------------------------------
(* The shape of the tree.                                                   *)

\* The root is the one node without parent, and that of the last header
\* confirmed; before EndBootstrapI there is neither.
RootIsOnlyTop ==
    /\ root = NoNode => DOMAIN tree = {}
    /\ root # NoNode => root \in DOMAIN tree /\ tree[root].header = m_lastNode
    /\ \A n \in DOMAIN tree : tree[n].parent = NoNode => n = root
    /\ root # NoNode => tree[root].parent = NoNode
    /\ root = NoNode <=> m_lastNode = NoNode
    /\ m_phase = "BootstrapI" => root = NoNode

\* A node passed CommonValidate against its parent.
NodesAreValid ==
    \A n \in DOMAIN tree :
        tree[n].parent # NoNode =>
            CommonValidate(tree[tree[n].parent].header, tree[n].header)

\* Not more than one header too many: RuntimeMaintenance has confirmed a child
\* before the next header is added, if there was one to confirm.
ConfirmedInTime ==
    \A n \in Children(tree, root) :
        /\ tree[n].numOfDesc <= ChkptSize
        /\ pc \in {"idle", "expire"} => tree[n].numOfDesc < ChkptSize

ShapeInv ==
    /\ IsTree(tree) /\ HasNodes(tree)
    /\ RootIsOnlyTop
    /\ NodesAreValid
    /\ CountsAreExact(tree)
    /\ ConfirmedInTime

USE ChkptSizeAssumption, NoNodeIsNoNumber

-----------------------------------------------------------------------------
(* The child to confirm.                                                    *)

LEMMA NothingIsConfirmable ==
    ASSUME DOMAIN tree \subseteq Nat, NEW p, NEW k
    PROVE  ChildHasNDesc(tree, p, k) = NoNode
                <=> \A c \in Children(tree, p) : ~(tree[c].numOfDesc >= k)
<1>1. CASE ChildHasNDesc(tree, p, k) = NoNode
  <2>1. {c \in Children(tree, p) : tree[c].numOfDesc >= k} = {}
    <3> DEFINE enough == {c \in Children(tree, p) : tree[c].numOfDesc >= k}
    <3> SUFFICES ASSUME enough # {} PROVE FALSE
      OBVIOUS
    <3>1. enough \in SUBSET Nat
      BY DEF Children
    <3>2. ChildHasNDesc(tree, p, k) = CHOOSE c \in enough : \A d \in enough : c <= d
      BY DEF ChildHasNDesc
    <3> HIDE DEF enough
    <3>3. ChildHasNDesc(tree, p, k) \in Nat
      BY <3>1, <3>2, LeastNatural
    <3> QED
      BY <1>1, <3>3
  <2> QED
    BY <1>1, <2>1
<1>2. CASE ChildHasNDesc(tree, p, k) # NoNode
  <2>1. {c \in Children(tree, p) : tree[c].numOfDesc >= k} # {}
    BY <1>2 DEF ChildHasNDesc
  <2> QED
    BY <1>2, <2>1
<1> QED
  BY <1>1, <1>2

LEMMA ConfirmableHasNDesc ==
    ASSUME DOMAIN tree \subseteq Nat, NEW p, NEW k,
           ChildHasNDesc(tree, p, k) # NoNode
    PROVE  tree[ChildHasNDesc(tree, p, k)].numOfDesc >= k
<1> DEFINE enough == {c \in Children(tree, p) : tree[c].numOfDesc >= k}
<1>1. enough # {}
  BY DEF ChildHasNDesc
<1>2. enough \in SUBSET Nat
  BY DEF Children
<1>3. \E c \in enough : \A d \in enough : c <= d
  BY <1>1, <1>2, LeastNatural
<1>4. ChildHasNDesc(tree, p, k) = CHOOSE c \in enough : \A d \in enough : c <= d
  BY <1>1 DEF ChildHasNDesc
<1>5. ChildHasNDesc(tree, p, k) \in enough
  <2> HIDE DEF enough
  <2> QED
    BY <1>3, <1>4
<1> QED
  BY <1>5

\* The child confirmed: a child of the root with ChkptSize descendants.
LEMMA ConfirmedChild ==
    ASSUME ShapeInv, NEW child, child = ChildHasNDesc(tree, root, ChkptSize),
           root # NoNode, child # NoNode
    PROVE  /\ child \in DOMAIN tree
           /\ tree[child].parent = root
           /\ tree[child].numOfDesc = ChkptSize
           /\ tree[child].header \in Header
<1>1. DOMAIN tree \subseteq Nat
  BY DEF ShapeInv, IsTree
<1>2. child \in Children(tree, root)
  BY <1>1, ConfirmableIsChild
<1>3. child \in DOMAIN tree /\ tree[child].parent = root
  BY <1>2 DEF Children
<1>4. tree[child].numOfDesc >= ChkptSize
  BY <1>1, ConfirmableHasNDesc
<1>5. tree[child].numOfDesc <= ChkptSize
  BY <1>2 DEF ShapeInv, ConfirmedInTime
<1>6. tree[child].numOfDesc \in Nat /\ tree[child].header \in Header
  BY <1>3 DEF ShapeInv, HasNodes
<1> QED
  BY <1>3, <1>4, <1>5, <1>6

-----------------------------------------------------------------------------
(* The shape of the tree.                                                   *)

LEMMA AddChildKeepsShape ==
    ASSUME ShapeInv, nextNode \in Nat, \A n \in DOMAIN tree : n < nextNode,
           NEW header \in Header, NEW seesSync \in BOOLEAN,
           UpdateOnRuntimeAddChild(header, seesSync)
    PROVE  ShapeInv'
<1> DEFINE p == LookUp(header)
<1>1. /\ p \in DOMAIN tree
      /\ CommonValidate(tree[p].header, header)
      /\ tree' = AddChild(tree, p, nextNode, header)
      /\ pc = "idle" /\ pc' = "phaseChange"
      /\ UNCHANGED <<root, m_lastNode, m_phase>>
  BY DEF UpdateOnRuntimeAddChild, UpdateOnRuntimeUnchanged, chkptVars, Ready
<1> HIDE DEF p
<1>2. IsTree(tree) /\ HasNodes(tree) /\ CountsAreExact(tree)
  BY DEF ShapeInv
<1>3. IsTree(tree') /\ HasNodes(tree')
  BY <1>1, <1>2, AddChildIsTree
<1>4. CountsAreExact(tree')
  BY <1>1, <1>2, AddChildCounts
<1>5. nextNode \notin DOMAIN tree
  BY <1>2 DEF IsTree
<1>6. IsWithChild(tree', tree, p, nextNode, header)
  BY <1>1, <1>2, <1>5, AddChildNodes
<1>7. /\ DOMAIN tree' = DOMAIN tree \cup {nextNode}
      /\ tree'[nextNode] = Leaf(header, p)
      /\ \A n \in DOMAIN tree :
            tree'[n].header = tree[n].header /\ tree'[n].parent = tree[n].parent
  BY <1>6 DEF IsWithChild
<1>8. /\ tree'[nextNode].parent = p /\ tree'[nextNode].header = header
      /\ tree'[nextNode].numOfDesc = 0
  BY <1>7 DEF Leaf
<1>9. p # NoNode
  BY <1>1, <1>2 DEF IsTree
<1>10. RootIsOnlyTop'
  BY <1>1, <1>7, <1>8, <1>9 DEF ShapeInv, RootIsOnlyTop
<1>11. NodesAreValid'
  <2>1. ASSUME NEW n \in DOMAIN tree, tree[n].parent # NoNode
        PROVE  CommonValidate(tree'[tree'[n].parent].header, tree'[n].header)
    <3>1. tree[n].parent \in DOMAIN tree
      BY <1>2, <2>1 DEF IsTree
    <3>2. CommonValidate(tree[tree[n].parent].header, tree[n].header)
      BY <2>1 DEF ShapeInv, NodesAreValid
    <3> QED
      BY <1>7, <3>1, <3>2
  <2>2. CommonValidate(tree'[tree'[nextNode].parent].header, tree'[nextNode].header)
    BY <1>1, <1>7, <1>8
  <2> QED
    BY <1>7, <2>1, <2>2 DEF NodesAreValid
<1>12. ConfirmedInTime'
  <2>1. ASSUME NEW n \in Children(tree', root)
        PROVE  tree'[n].numOfDesc <= ChkptSize
    <3>1. CASE n = nextNode
      BY <1>8, <3>1
    <3>2. CASE n # nextNode
      <4>1. n \in DOMAIN tree /\ n \in Children(tree, root)
        BY <1>7, <2>1, <3>2 DEF Children
      <4>2. tree[n].numOfDesc < ChkptSize /\ tree[n].numOfDesc \in Nat
        BY <1>1, <1>2, <4>1 DEF ShapeInv, ConfirmedInTime, HasNodes
      <4>3. tree'[n].numOfDesc \in {tree[n].numOfDesc, tree[n].numOfDesc + 1}
        BY <1>6, <4>1 DEF IsWithChild
      <4> QED
        BY <4>2, <4>3
    <3> QED
      BY <3>1, <3>2
  <2> QED
    BY <1>1, <2>1 DEF ConfirmedInTime
<1> QED
  BY <1>3, <1>4, <1>10, <1>11, <1>12 DEF ShapeInv

LEMMA EndBootstrapIKeepsShape ==
    ASSUME ShapeInv, nextNode \in Nat, m_currWindow \in Seq(Header), EndBootstrapI
    PROVE  ShapeInv'
<1>1. /\ ~HasLastNode /\ m_currWindow # << >>
      /\ m_lastNode' = m_currWindow[Len(m_currWindow)]
      /\ tree' = [n \in DOMAIN tree \cup {nextNode} |->
                      IF n = nextNode THEN Leaf(m_lastNode', NoNode) ELSE tree[n]]
      /\ root' = nextNode
      /\ m_phase' = "BootstrapII"
  BY DEF EndBootstrapI, EndBootstrapPhase
<1>2. m_lastNode' \in Header
  <2>1. Len(m_currWindow) \in Nat \ {0}
    BY <1>1, EmptySeq
  <2> QED
    BY <1>1, <2>1, ElementOfSeq
<1>3. DOMAIN tree = {}
  BY <1>1 DEF ShapeInv, RootIsOnlyTop, HasLastNode
<1>4. /\ DOMAIN tree' = {nextNode}
      /\ tree'[nextNode] = Leaf(m_lastNode', NoNode)
  BY <1>1, <1>3
<1>5. /\ tree'[nextNode].parent = NoNode /\ tree'[nextNode].header = m_lastNode'
      /\ tree'[nextNode] \in [header : Header, parent : Nat \cup {NoNode},
                              numOfDesc : Nat]
  BY <1>2, <1>4 DEF Leaf
<1>6. IsTree(tree') /\ HasNodes(tree')
  <2>1. IsFiniteSet(DOMAIN tree')
    <3>1. IsFiniteSet({nextNode})
      BY FS_Singleton
    <3> QED
      BY <1>4, <3>1
  <2>2. IsTree(tree')
    BY <1>4, <1>5, <2>1 DEF IsTree
  <2>3. HasNodes(tree')
    BY <1>4, <1>5 DEF HasNodes
  <2> QED
    BY <2>2, <2>3
<1>7. RootIsOnlyTop'
  BY <1>1, <1>2, <1>4, <1>5, NoNodeAssumption DEF RootIsOnlyTop
<1>8. NodesAreValid' /\ CountsAreExact(tree')
  BY <1>4, <1>5 DEF NodesAreValid, CountsAreExact
<1>9. ConfirmedInTime'
  BY <1>1, <1>4, <1>5 DEF ConfirmedInTime, Children
<1> QED
  BY <1>6, <1>7, <1>8, <1>9 DEF ShapeInv

LEMMA ConfirmKeepsShape ==
    ASSUME ShapeInv, ConfirmChild
    PROVE  ShapeInv'
<1> DEFINE child == ChildHasNDesc(tree, root, ChkptSize)
<1>1. /\ root # NoNode /\ child # NoNode
      /\ tree' = ReleaseChild(tree, child)
      /\ root' = child
      /\ m_lastNode' = tree[child].header
      /\ UNCHANGED m_phase
  BY DEF ConfirmChild, AddNodeKeeps, AddNodeCompletes
<1> HIDE DEF child
<1>2. /\ child \in DOMAIN tree /\ tree[child].parent = root
      /\ tree[child].numOfDesc = ChkptSize /\ tree[child].header \in Header
  BY <1>1, ConfirmedChild DEF child
<1>3. IsTree(tree) /\ HasNodes(tree) /\ CountsAreExact(tree)
  BY DEF ShapeInv
<1>4. IsTree(tree') /\ HasNodes(tree') /\ CountsAreExact(tree')
  BY <1>1, <1>2, <1>3, ReleaseChildIsTree, ReleaseChildCounts
<1>5. IsReleased(tree', tree, child)
  BY <1>1, <1>2, <1>3, ReleaseChildNodes
<1>6. DOMAIN tree' \subseteq DOMAIN tree
  BY <1>3, <1>5, SubtreesAreNodes DEF IsReleased
<1>7. RootIsOnlyTop'
  <2>1. root' # NoNode /\ m_lastNode' # NoNode
    BY <1>1, <1>2, NoNodeAssumption
  <2>2. root' \in DOMAIN tree' /\ tree'[root'].parent = NoNode
    BY <1>1, <1>5 DEF IsReleased
  <2>3. tree'[root'].header = m_lastNode'
    BY <1>1, <1>5 DEF IsReleased
  <2>4. \A n \in DOMAIN tree' : tree'[n].parent = NoNode => n = root'
    BY <1>1, <1>4, <1>5 DEF IsReleased, IsTree
  <2>5. m_phase' # "BootstrapI"
    BY <1>1 DEF ShapeInv, RootIsOnlyTop
  <2> QED
    BY <2>1, <2>2, <2>3, <2>4, <2>5 DEF RootIsOnlyTop
<1>8. NodesAreValid'
  <2> SUFFICES ASSUME NEW n \in DOMAIN tree', tree'[n].parent # NoNode
               PROVE  CommonValidate(tree'[tree'[n].parent].header, tree'[n].header)
    BY DEF NodesAreValid
  <2>1. /\ tree'[n].parent = tree[n].parent /\ tree[n].parent \in DOMAIN tree'
        /\ tree'[n].header = tree[n].header
    BY <1>5 DEF IsReleased
  <2>2. tree'[tree[n].parent].header = tree[tree[n].parent].header
    BY <1>5, <2>1 DEF IsReleased
  <2>3. CommonValidate(tree[tree[n].parent].header, tree[n].header)
    BY <1>6, <2>1 DEF ShapeInv, NodesAreValid
  <2> QED
    BY <2>1, <2>2, <2>3
<1>9. ConfirmedInTime'
  <2> SUFFICES ASSUME NEW n \in Children(tree', root')
               PROVE  tree'[n].numOfDesc < ChkptSize /\ tree'[n].numOfDesc \in Nat
    BY DEF ConfirmedInTime
  <2>1. n \in DOMAIN tree' /\ tree'[n].parent = child
    BY <1>1 DEF Children
  <2>2. n \in DOMAIN tree /\ child # NoNode
    BY <1>1, <1>6, <2>1
  <2>3. tree[n].parent = child /\ tree'[n].numOfDesc = tree[n].numOfDesc
    BY <1>5, <2>1, <2>2 DEF IsReleased
  <2>4. Cardinality(Subtree(tree, n)) < Cardinality(Subtree(tree, child))
    BY <1>3, <2>2, <2>3, SubtreeOfChild
  <2>5. /\ tree[n].numOfDesc = Cardinality(Subtree(tree, n)) - 1
        /\ tree[child].numOfDesc = Cardinality(Subtree(tree, child)) - 1
    BY <1>1, <1>2, <1>3, <2>2, <2>3 DEF CountsAreExact
  <2>6. /\ Cardinality(Subtree(tree, n)) \in Nat
        /\ Cardinality(Subtree(tree, child)) \in Nat
    BY <1>3, SubtreesAreNodes
  <2>7. tree[n].numOfDesc \in Nat
    BY <1>3, <2>2 DEF HasNodes
  <2> QED
    BY <1>2, <2>3, <2>4, <2>5, <2>6, <2>7
<1> QED
  BY <1>4, <1>7, <1>8, <1>9 DEF ShapeInv

\* Steps that leave the tree alone, and do not end an update with a child left
\* to confirm.
LEMMA OthersKeepShape ==
    ASSUME ShapeInv, UNCHANGED <<tree, root, m_lastNode>>,
           m_phase' = "BootstrapI" => m_phase = "BootstrapI",
           \/ pc' \notin {"idle", "expire"}
           \/ pc \in {"idle", "expire"}
           \/ root = NoNode
           \/ ChildHasNDesc(tree, root, ChkptSize) = NoNode
    PROVE  ShapeInv'
<1>1. RootIsOnlyTop' /\ NodesAreValid'
  BY DEF ShapeInv, RootIsOnlyTop, NodesAreValid
<1>2. IsTree(tree') /\ HasNodes(tree') /\ CountsAreExact(tree')
  BY DEF ShapeInv
<1>3. ConfirmedInTime'
  <2>1. ASSUME NEW n \in Children(tree, root)
        PROVE  /\ tree[n].numOfDesc <= ChkptSize
               /\ pc' \in {"idle", "expire"} => tree[n].numOfDesc < ChkptSize
    <3>1. n \in DOMAIN tree /\ root # NoNode
      BY DEF Children, ShapeInv, RootIsOnlyTop
    <3>2. tree[n].numOfDesc \in Nat
      BY <3>1 DEF ShapeInv, HasNodes
    <3>3. /\ tree[n].numOfDesc <= ChkptSize
          /\ pc \in {"idle", "expire"} => tree[n].numOfDesc < ChkptSize
      BY DEF ShapeInv, ConfirmedInTime
    <3>4. CASE ChildHasNDesc(tree, root, ChkptSize) = NoNode
      <4>1. ~(tree[n].numOfDesc >= ChkptSize)
        BY <3>4, NothingIsConfirmable DEF ShapeInv, IsTree
      <4> QED
        BY <3>2, <3>3, <4>1
    <3> QED
      BY <3>1, <3>3, <3>4
  <2> QED
    BY <2>1 DEF ConfirmedInTime
<1> QED
  BY <1>1, <1>2, <1>3 DEF ShapeInv

LEMMA StepsKeepShape ==
    ASSUME ShapeInv, nextNode \in Nat, \A n \in DOMAIN tree : n < nextNode,
           m_currWindow \in Seq(Header), [Next]_vars
    PROVE  ShapeInv'
<1> USE DEF chkptVars, treeVars, mapVars, histVars
<1>1. ASSUME NEW header \in Header, Update(header) PROVE ShapeInv'
  <2>1. CASE UpdateOnBootstrapI(header)
    <3>1. pc = "idle" /\ UNCHANGED <<tree, root, m_lastNode, m_phase>>
      BY <2>1 DEF UpdateOnBootstrapI, BootstrapIUnchanged, AddHeaderKeeps,
                  AddHeaderCompletes, Ready
    <3> QED
      BY <3>1, OthersKeepShape
  <2>2. CASE \E seesSync \in BOOLEAN : UpdateOnRuntimeAddChild(header, seesSync)
    BY <2>2, AddChildKeepsShape
  <2>3. CASE \/ UpdateOnBootstrapIThrows(header) \/ UpdateOnRuntimeRejects(header)
             \/ UpdateOnRuntimeDangles(header)
    <3>1. pc = "idle" /\ UNCHANGED <<tree, root, m_lastNode, m_phase>>
      BY <2>3
      DEF UpdateOnBootstrapIThrows, NoCheckpoint, BootstrapIUnchanged,
          UpdateOnRuntimeRejects, UpdateOnRuntimeDangles,
          UpdateOnRuntimeUnchanged, Undefined, Ready
    <3> QED
      BY <3>1, OthersKeepShape
  <2> QED
    BY <1>1, <2>1, <2>2, <2>3 DEF Update
<1>2. CASE PhaseChangeCheck
  <2>1. CASE EndBootstrapI
    BY <2>1, EndBootstrapIKeepsShape
  <2>2. CASE AtBootstrapIEnd /\ PhaseChangeThrows
    <3>1. root = NoNode /\ UNCHANGED <<tree, root, m_lastNode, m_phase>>
      BY <2>2 DEF AtBootstrapIEnd, PhaseChangeThrows, SamePhase, ShapeInv, RootIsOnlyTop
    <3> QED
      BY <3>1, OthersKeepShape
  <2>3. CASE RefreshSyncMsg /\ pc' = "confirm"
    <3>1. m_phase' = "Sync" /\ UNCHANGED <<tree, root, m_lastNode>>
      BY <2>3 DEF RefreshSyncMsg
    <3> QED
      BY <2>3, <3>1, OthersKeepShape
  <2>4. CASE SamePhase /\ pc' = IF RuntimePhase THEN "confirm" ELSE "idle"
    <3>1. /\ UNCHANGED <<tree, root, m_lastNode, m_phase>>
          /\ pc' = "confirm" \/ root = NoNode
      BY <2>4 DEF SamePhase, RuntimePhase, ShapeInv, RootIsOnlyTop
    <3> QED
      BY <3>1, OthersKeepShape
  <2> QED
    BY <1>2, <2>1, <2>2, <2>3, <2>4 DEF PhaseChangeCheck
<1>3. CASE RuntimeMaintenance
  <2>1. CASE ConfirmChild
    BY <2>1, ConfirmKeepsShape
  <2>2. CASE MaintenanceThrows \/ NothingToConfirm
    <3>1. /\ UNCHANGED <<tree, root, m_lastNode, m_phase>>
          /\ root = NoNode \/ ChildHasNDesc(tree, root, ChkptSize) = NoNode
      BY <2>2 DEF MaintenanceThrows, NothingToConfirm, SamePhase
    <3> QED
      BY <3>1, OthersKeepShape
  <2>3. CASE ExpireDangles \/ ExpireActiveNodes \/ ExpireFails
    <3>1. pc = "expire" /\ UNCHANGED <<tree, root, m_lastNode, m_phase>>
      BY <2>3 DEF ExpireDangles, ExpireActiveNodes, ExpireFails, Undefined
    <3> QED
      BY <3>1, OthersKeepShape
  <2> QED
    BY <1>3, <2>1, <2>2, <2>3 DEF RuntimeMaintenance
<1>4. CASE UserEndsBootstrapI
  BY <1>4, EndBootstrapIKeepsShape DEF UserEndsBootstrapI
<1>5. CASE UserRefreshesPlan \/ UserRefreshesSync \/ UserEndsSync \/ SyncMessage
  <2>1. /\ pc' = pc /\ UNCHANGED <<tree, root, m_lastNode>>
        /\ m_phase' = "BootstrapI" => m_phase = "BootstrapI"
    BY <1>5
    DEF UserRefreshesPlan, RefreshBootstrapPlan, UserRefreshesSync,
        RefreshSyncMsg, UserEndsSync, SyncMessage
  <2> QED
    BY <2>1, OthersKeepShape
<1>6. CASE UNCHANGED vars
  <2>1. UNCHANGED <<pc, tree, root, m_lastNode, m_phase>>
    BY <1>6 DEF vars
  <2> QED
    BY <2>1, OthersKeepShape
<1> QED
  BY <1>1, <1>2, <1>3, <1>4, <1>5, <1>6 DEF Next

LEMMA ShapeInvariance == Spec => []ShapeInv
<1>1. Init => ShapeInv
  <2> SUFFICES ASSUME Init PROVE ShapeInv
    OBVIOUS
  <2>1. /\ DOMAIN tree = {} /\ root = NoNode /\ m_lastNode = NoNode
    BY DEF Init, CheckpointInit
  <2>2. IsTree(tree)
    BY <2>1, FS_EmptySet DEF IsTree
  <2> QED
    BY <2>1, <2>2
    DEF ShapeInv, HasNodes, RootIsOnlyTop, NodesAreValid, CountsAreExact,
        ConfirmedInTime, Children
<1> DEFINE Numbered == LookUpInv /\ ValidInv /\ validated \subseteq Header
<1>2. ShapeInv /\ Numbered /\ [Next]_vars => ShapeInv'
  <2> SUFFICES ASSUME ShapeInv, Numbered, [Next]_vars PROVE ShapeInv'
    OBVIOUS
  <2>1. m_currWindow \in Seq(Header) /\ nextNode \in Nat \ {0}
    BY KeptAreHeaders DEF WindowTypes
  <2>2. \A n \in DOMAIN tree : n < nextNode
    BY <2>1 DEF LookUpInv
  <2> QED
    BY <2>1, <2>2, StepsKeepShape
<1>3. Spec => []Numbered
  BY LookUpInvariance, ValidInvariance, ValidatedAreHeaders, PTL
<1> QED
  BY <1>1, <1>2, <1>3, PTL DEF Spec

-----------------------------------------------------------------------------
(* The theorems.                                                            *)

\* HeaderNode::AddDescCount and ReleaseChild: the number of descendants kept
\* for each child is that of the nodes below it, in trees of any shape and
\* size, although it is only ever incremented, and parents are destroyed.
THEOREM CountsStayExact == Spec => []DescCountsExact
<1>1. ShapeInv => DescCountsExact
  <2> SUFFICES ASSUME ShapeInv PROVE DescCountsExact
    OBVIOUS
  <2> DEFINE descent == UNION {{n} \X AncestorsOrSelf(tree, n) : n \in DOMAIN tree}
  <2>1. ASSUME NEW n \in DOMAIN tree, tree[n].parent # NoNode
        PROVE  tree[n].numOfDesc = Cardinality({d \in descent : d[2] = n}) - 1
    <3>1. IsTree(tree) /\ CountsAreExact(tree)
      BY DEF ShapeInv
    <3>2. descent = UNION {{d} \X AncestorsOrSelf(tree, d) : d \in DOMAIN tree}
      OBVIOUS
    <3>3. Cardinality({d \in descent : d[2] = n}) = Cardinality(Subtree(tree, n))
      <4> HIDE DEF descent
      <4> QED
        BY <3>1, <3>2, DescentIsSubtrees
    <3> QED
      BY <2>1, <3>1, <3>3 DEF CountsAreExact
  <2> QED
    BY <2>1 DEF DescCountsExact
<1> QED
  BY <1>1, ShapeInvariance, PTL

\* RuntimeMaintenance: one confirmation in each update keeps up with any
\* headers, in whichever phase, although callbacks throw in the middle.
THEOREM UpdatesConfirmInTime == Spec => []NothingConfirmableLeft
<1>1. ShapeInv => NothingConfirmableLeft
  <2> SUFFICES ASSUME ShapeInv, pc = "idle", root # NoNode
               PROVE  ChildHasNDesc(tree, root, ChkptSize) = NoNode
    BY DEF NothingConfirmableLeft
  <2>1. \A n \in Children(tree, root) : ~(tree[n].numOfDesc >= ChkptSize)
    <3> SUFFICES ASSUME NEW n \in Children(tree, root)
                 PROVE  ~(tree[n].numOfDesc >= ChkptSize)
      OBVIOUS
    <3>1. tree[n].numOfDesc < ChkptSize
      BY DEF ShapeInv, ConfirmedInTime
    <3>2. tree[n].numOfDesc \in Nat
      BY DEF ShapeInv, HasNodes, Children
    <3> QED
      BY <3>1, <3>2
  <2> QED
    BY <2>1, NothingIsConfirmable DEF ShapeInv, IsTree
<1> QED
  BY <1>1, ShapeInvariance, PTL

\* UpdateOnRuntime and ReleaseChild: nothing but the descendants of the last
\* confirmed header is kept, each linked to its parent by hash and number.
THEOREM TreeIsOfTheChain ==
    ASSUME NumbersDoNotWrap
    PROVE  Spec => []TreeFollowsChain
<1>1. ShapeInv => TreeFollowsChain
  <2> SUFFICES ASSUME ShapeInv, NEW n \in DOMAIN tree
               PROVE  IF tree[n].parent = NoNode
                      THEN n = root /\ tree[n].header = m_lastNode
                      ELSE LET parent == tree[tree[n].parent].header
                               header == tree[n].header
                           IN  /\ header.parent = parent.hash
                               /\ header.number = parent.number + 1
    BY DEF TreeFollowsChain
  <2>1. CASE tree[n].parent = NoNode
    <3>1. n = root
      BY <2>1 DEF ShapeInv, RootIsOnlyTop
    <3>2. n # NoNode
      BY DEF ShapeInv, IsTree
    <3> QED
      BY <2>1, <3>1, <3>2 DEF ShapeInv, RootIsOnlyTop
  <2>2. CASE tree[n].parent # NoNode
    <3> DEFINE parent == tree[tree[n].parent].header
               header == tree[n].header
    <3>1. tree[n].parent \in DOMAIN tree
      BY <2>2 DEF ShapeInv, IsTree
    <3>2. parent \in Header
      BY <3>1 DEF ShapeInv, HasNodes
    <3>3. CommonValidate(parent, header)
      BY <2>2 DEF ShapeInv, NodesAreValid
    <3> HIDE DEF parent, header
    <3>4. parent.number \in Nat /\ parent.number < Modulus - 1
      BY <3>2, HeaderAssumption DEF NumbersDoNotWrap
    <3>5. (parent.number + 1) % Modulus = parent.number + 1
      BY <3>4, MonitorAssumption
    <3>6. header.parent = parent.hash /\ header.number = parent.number + 1
      BY <3>3, <3>5 DEF CommonValidate
    <3> QED
      BY <2>2, <3>6 DEF parent, header
  <2> QED
    BY <2>1, <2>2
<1> QED
  BY <1>1, ShapeInvariance, PTL

\* The steps that change the root of a tree.
LEMMA RootIsChangedByConfirming ==
    ASSUME ShapeInv, [Next]_vars, root # NoNode, root' # root
    PROVE  ConfirmChild
<1> USE DEF chkptVars, treeVars, mapVars, histVars
<1>1. ~EndBootstrapI
  BY DEF EndBootstrapI, EndBootstrapPhase, HasLastNode, ShapeInv, RootIsOnlyTop
<1>2. ASSUME NEW header \in Header, Update(header) PROVE UNCHANGED root
  BY <1>2
  DEF Update, UpdateOnBootstrapI, UpdateOnBootstrapIThrows, BootstrapIUnchanged,
      UpdateOnRuntimeRejects, UpdateOnRuntimeAddChild, UpdateOnRuntimeUnchanged,
      UpdateOnRuntimeDangles, Undefined
<1>3. ASSUME PhaseChangeCheck \/ UserEndsBootstrapI PROVE UNCHANGED root
  BY <1>1, <1>3
  DEF PhaseChangeCheck, PhaseChangeThrows, UserEndsBootstrapI, RefreshSyncMsg,
      SamePhase
<1>4. ASSUME RuntimeMaintenance, ~ConfirmChild PROVE UNCHANGED root
  BY <1>4
  DEF RuntimeMaintenance, MaintenanceThrows, NothingToConfirm, ExpireDangles,
      ExpireActiveNodes, ExpireFails, SamePhase, Undefined
<1>5. ASSUME \/ UserRefreshesPlan \/ UserRefreshesSync \/ UserEndsSync
             \/ SyncMessage \/ UNCHANGED vars
      PROVE  UNCHANGED root
  BY <1>5
  DEF UserRefreshesPlan, RefreshBootstrapPlan, UserRefreshesSync,
      RefreshSyncMsg, UserEndsSync, SyncMessage, vars
<1> QED
  BY <1>2, <1>3, <1>4, <1>5 DEF Next

\* RuntimeMaintenance: whatever forks the tree has, the header confirmed is a
\* child of the one confirmed before, and more than ChkptSize headers, itself
\* included, support it.
THEOREM OnlySupportedIsConfirmed == Spec => ConfirmsSupportedChild
<1> DEFINE Supported ==
            root # NoNode /\ root' # root =>
                /\ root' \in DOMAIN tree
                /\ tree[root'].parent = root
                /\ m_lastNode'.parent = m_lastNode.hash
                /\ Cardinality(Subtree(tree, root')) > ChkptSize
<1>1. ShapeInv /\ [Next]_vars => [Supported]_vars
  <2> SUFFICES ASSUME ShapeInv, [Next]_vars, root # NoNode, root' # root
               PROVE  /\ root' \in DOMAIN tree
                      /\ tree[root'].parent = root
                      /\ m_lastNode'.parent = m_lastNode.hash
                      /\ Cardinality(Subtree(tree, root')) > ChkptSize
    OBVIOUS
  <2> DEFINE child == ChildHasNDesc(tree, root, ChkptSize)
  <2>1. /\ child # NoNode /\ root' = child
        /\ m_lastNode' = tree[child].header
    BY RootIsChangedByConfirming DEF ConfirmChild, AddNodeKeeps, AddNodeCompletes
  <2> HIDE DEF child
  <2>2. /\ child \in DOMAIN tree /\ tree[child].parent = root
        /\ tree[child].numOfDesc = ChkptSize
    BY <2>1, ConfirmedChild DEF child
  <2>3. tree[child].header.parent = tree[root].header.hash
    BY <2>2 DEF ShapeInv, NodesAreValid, CommonValidate
  <2>4. tree[root].header = m_lastNode
    BY DEF ShapeInv, RootIsOnlyTop
  <2>5. tree[child].numOfDesc = Cardinality(Subtree(tree, child)) - 1
    BY <2>2 DEF ShapeInv, CountsAreExact
  <2>6. Cardinality(Subtree(tree, child)) \in Nat
    BY SubtreesAreNodes DEF ShapeInv
  <2>7. Cardinality(Subtree(tree, child)) > ChkptSize
    BY <2>2, <2>5, <2>6
  <2> QED
    BY <2>1, <2>2, <2>3, <2>4, <2>7
<1>2. Spec => [][Supported]_vars
  BY <1>1, ShapeInvariance, PTL DEF Spec
<1> QED
  BY <1>2 DEF ConfirmsSupportedChild

-----------------------------------------------------------------------------
(* Types.                                                                   *)

SecStates == [genesisHash : Hashes \cup {NoHash},
              checkpointHash : Hashes \cup {NoHash},
              checkpointNum : BlockNums, checkpointIter : Nat]

Steps == {"idle", "phaseChange", "confirm", "expire"}

\* The types that no invariant above has established.
OtherTypes ==
    /\ m_phase \in Phases
    /\ m_bootstrapIEndBlkNum \in BlockNums
    /\ m_isLastNodeCandidate \in BOOLEAN
    /\ nextNode \in 1 .. MaxNodes + 1
    /\ DOMAIN m_offlineNodes \subseteq Hashes
    /\ DOMAIN m_activeNodes \subseteq Hashes
    /\ synced \in BOOLEAN
    /\ secState \in SecStates
    /\ pc \in Steps
    /\ currBlkNum \in BlockNums
    /\ undefined \in {"none", "useAfterFree", "eraseInLoop"}
    /\ interrupted \in BOOLEAN

LEMMA HashesAndNumbers ==
    ASSUME NEW header \in Header
    PROVE  header.hash \in Hashes /\ header.number \in BlockNums
  BY HeaderAssumption, MonitorAssumption DEF Hashes, BlockNums

LEMMA PlannedEndIsNumber ==
    ASSUME NEW latest \in BlockNums, NEW start \in BlockNums
    PROVE  CalcBootstrapIEndBlkNum(latest, start) \in BlockNums
<1> DEFINE n == (latest - start + 1) % Modulus
           q == n \div ChkptSize
           counted == IF q > 2 THEN q - 2 ELSE 0
<1>1. n \in Nat
  BY MonitorAssumption DEF BlockNums
<1>2. q \in Int
  BY <1>1
<1>3. counted \in Int
  BY <1>2
<1>4. CalcBootstrapIEndBlkNum(latest, start) = (start + counted * ChkptSize - 1) % Modulus
  BY DEF CalcBootstrapIEndBlkNum
<1> HIDE DEF counted
<1>5. start + counted * ChkptSize - 1 \in Int
  BY <1>3 DEF BlockNums
<1>6. \A i \in Int : i % Modulus \in 0 .. Modulus - 1
  BY MonitorAssumption
<1> QED
  BY <1>4, <1>5, <1>6 DEF BlockNums

LEMMA MapTypes ==
    ASSUME NEW map, DOMAIN map \subseteq Hashes, NEW hash \in Hashes, NEW node,
           NEW erased
    PROVE  /\ DOMAIN Assign(map, hash, node) \subseteq Hashes
           /\ DOMAIN Insert(map, hash, node) \subseteq Hashes
           /\ DOMAIN Erase(map, erased) \subseteq Hashes
  BY DEF Assign, Insert, Erase

\* What follows a completed window, or a header that completes none.
LEMMA CheckpointTypes ==
    ASSUME OtherTypes, GetLastHeader' \in Header,
           NEW sec \in SecStates, NEW next \in Steps,
           OnCheckpointComplete(sec, next)
    PROVE  secState' \in SecStates /\ pc' \in Steps /\ interrupted' \in BOOLEAN
<1> DEFINE last == GetLastHeader'
<1>1. secState' = [sec EXCEPT !.checkpointHash = last.hash,
                              !.checkpointNum = last.number,
                              !.checkpointIter = @ + 1]
  BY DEF OnCheckpointComplete
<1>2. last.hash \in Hashes /\ last.number \in BlockNums
  BY HashesAndNumbers
<1> HIDE DEF last
<1>3. secState' \in SecStates
  <2>1. secState' = [genesisHash |-> sec.genesisHash, checkpointHash |-> last.hash,
                     checkpointNum |-> last.number,
                     checkpointIter |-> sec.checkpointIter + 1]
    BY <1>1 DEF SecStates
  <2>2. sec.genesisHash \in Hashes \cup {NoHash} /\ sec.checkpointIter + 1 \in Nat
    BY DEF SecStates
  <2> QED
    BY <1>2, <2>1, <2>2 DEF SecStates
<1>4. pc' \in Steps /\ interrupted' \in BOOLEAN
  BY DEF OnCheckpointComplete, OtherTypes, Steps
<1> QED
  BY <1>3, <1>4

LEMMA NoCheckpointTypes ==
    ASSUME OtherTypes, NEW sec \in SecStates, NEW next \in Steps,
           NoCheckpoint(sec, next)
    PROVE  secState' \in SecStates /\ pc' \in Steps /\ interrupted' \in BOOLEAN
  BY DEF NoCheckpoint, OtherTypes

LEMMA BootstrapIKeepsTypes ==
    ASSUME OtherTypes, WindowTypes, NEW header \in Header,
           UpdateOnBootstrapI(header) \/ UpdateOnBootstrapIThrows(header)
    PROVE  OtherTypes'
<1> DEFINE sec == SecStateWith(header)
<1>1. /\ sec \in SecStates /\ "phaseChange" \in Steps /\ "idle" \in Steps
      /\ header.number \in BlockNums /\ 0 \in BlockNums
  BY HashesAndNumbers, MonitorAssumption
  DEF SecStateWith, SecStates, OtherTypes, Steps, BlockNums
<1> HIDE DEF sec
<1>2. /\ UNCHANGED <<m_phase, m_bootstrapIEndBlkNum, m_isLastNodeCandidate,
                     nextNode, m_offlineNodes, m_activeNodes, synced, undefined>>
      /\ currBlkNum' \in {header.number, 0, currBlkNum}
  BY DEF UpdateOnBootstrapI, UpdateOnBootstrapIThrows, BootstrapIUnchanged,
         chkptVars, planVars, treeVars, mapVars, AddHeaderKeeps, AddHeaderCompletes
<1>3. currBlkNum' \in BlockNums
  BY <1>1, <1>2 DEF OtherTypes
<1>4. secState' \in SecStates /\ pc' \in Steps /\ interrupted' \in BOOLEAN
  <2>1. CASE NoCheckpoint(sec, "idle") \/ NoCheckpoint(sec, "phaseChange")
    BY <1>1, <2>1, NoCheckpointTypes
  <2>2. CASE AddHeaderCompletes(header) /\ OnCheckpointComplete(sec, "phaseChange")
    <3>1. /\ ~HasLastNode' /\ m_candidate' = << >>
          /\ m_currWindow' = Append(m_candidate, header)
      BY <2>2 DEF AddHeaderCompletes, HasLastNode
    <3>2. GetLastHeader' = m_currWindow'[Len(m_currWindow')]
      BY <3>1 DEF GetLastHeader
    <3>3. m_currWindow'[Len(m_currWindow')] = header
      BY <3>1, AppendProperties DEF WindowTypes
    <3>4. GetLastHeader' \in Header
      BY <3>2, <3>3
    <3> QED
      BY <1>1, <2>2, <3>4, CheckpointTypes
  <2> QED
    BY <2>1, <2>2 DEF UpdateOnBootstrapI, UpdateOnBootstrapIThrows, sec
<1> QED
  BY <1>2, <1>3, <1>4 DEF OtherTypes

LEMMA AddChildKeepsTypes ==
    ASSUME OtherTypes, NEW header \in Header, NEW seesSync \in BOOLEAN,
           UpdateOnRuntimeAddChild(header, seesSync)
    PROVE  OtherTypes'
<1>1. /\ UNCHANGED <<m_phase, m_bootstrapIEndBlkNum, m_isLastNodeCandidate,
                     secState, undefined, interrupted>>
      /\ pc' = "phaseChange" /\ currBlkNum' = header.number
      /\ nextNode' = nextNode + 1 /\ nextNode <= MaxNodes
      /\ synced' = (synced \/ seesSync)
      /\ m_activeNodes' \in {m_activeNodes, Insert(m_activeNodes, header.hash, nextNode)}
      /\ m_offlineNodes' \in {m_offlineNodes, Insert(m_offlineNodes, header.hash, nextNode)}
  BY DEF UpdateOnRuntimeAddChild, UpdateOnRuntimeUnchanged, chkptVars, planVars
<1>2. header.hash \in Hashes /\ header.number \in BlockNums
  BY HashesAndNumbers
<1>3. DOMAIN m_activeNodes' \subseteq Hashes /\ DOMAIN m_offlineNodes' \subseteq Hashes
  BY <1>1, <1>2, MapTypes DEF OtherTypes
<1>4. nextNode' \in 1 .. MaxNodes + 1
  BY <1>1, MonitorAssumption DEF OtherTypes
<1>5. synced' \in BOOLEAN
  BY <1>1
<1> QED
  BY <1>1, <1>2, <1>3, <1>4, <1>5 DEF OtherTypes, Steps

LEMMA EndBootstrapIKeepsTypes ==
    ASSUME OtherTypes, m_currWindow \in Seq(Header), nextNode = 1, EndBootstrapI,
           pc' \in Steps, currBlkNum' \in BlockNums
    PROVE  OtherTypes'
<1>1. /\ m_phase' = "BootstrapII" /\ nextNode' = 2
      /\ m_isLastNodeCandidate' = FALSE
      /\ m_offlineNodes' = Assign(m_offlineNodes, m_lastNode'.hash, nextNode)
      /\ UNCHANGED <<m_bootstrapIEndBlkNum, m_activeNodes, synced, secState,
                     undefined, interrupted>>
  BY DEF EndBootstrapI, EndBootstrapPhase, planVars, histVars
<1>2. m_lastNode' \in Header
  <2>1. m_currWindow # << >> /\ m_lastNode' = m_currWindow[Len(m_currWindow)]
    BY DEF EndBootstrapI, EndBootstrapPhase
  <2>2. Len(m_currWindow) \in Nat \ {0}
    BY <2>1, EmptySeq
  <2> QED
    BY <2>1, <2>2, ElementOfSeq
<1>3. DOMAIN m_offlineNodes' \subseteq Hashes
  BY <1>1, <1>2, HashesAndNumbers, MapTypes DEF OtherTypes
<1>4. nextNode' \in 1 .. MaxNodes + 1
  BY <1>1, MonitorAssumption
<1> QED
  BY <1>1, <1>3, <1>4 DEF OtherTypes, Phases

LEMMA ConfirmKeepsTypes ==
    ASSUME OtherTypes, ShapeInv, ConfirmChild
    PROVE  OtherTypes'
<1> DEFINE child == ChildHasNDesc(tree, root, ChkptSize)
           header == tree[child].header
<1>1. /\ root # NoNode /\ child # NoNode
      /\ m_offlineNodes' = Erase(m_offlineNodes, NoLongerActive(child))
      /\ m_activeNodes' = Erase(m_activeNodes, NoLongerActive(child))
      /\ \/ AddNodeKeeps(header) /\ NoCheckpoint(secState, "expire")
         \/ AddNodeCompletes(header) /\ OnCheckpointComplete(secState, "expire")
      /\ UNCHANGED <<m_phase, m_bootstrapIEndBlkNum, nextNode, synced, currBlkNum,
                     undefined>>
  BY DEF ConfirmChild, planVars
<1>2. header \in Header
  BY <1>1, ConfirmedChild
<1> HIDE DEF child, header
<1>3. secState \in SecStates /\ "expire" \in Steps
  BY DEF OtherTypes, Steps
<1>4. GetLastHeader' \in Header /\ m_isLastNodeCandidate' \in BOOLEAN
  <2>1. m_lastNode' = header /\ m_isLastNodeCandidate' \in BOOLEAN
    BY <1>1 DEF AddNodeKeeps, AddNodeCompletes
  <2>2. GetLastHeader' = header
    BY <1>2, <2>1, NoNodeAssumption DEF GetLastHeader, HasLastNode
  <2> QED
    BY <1>2, <2>1, <2>2
<1>5. secState' \in SecStates /\ pc' \in Steps /\ interrupted' \in BOOLEAN
  BY <1>1, <1>3, <1>4, CheckpointTypes, NoCheckpointTypes
<1>6. DOMAIN m_offlineNodes' \subseteq Hashes /\ DOMAIN m_activeNodes' \subseteq Hashes
  BY <1>1 DEF Erase, OtherTypes
<1> QED
  BY <1>1, <1>4, <1>5, <1>6 DEF OtherTypes

LEMMA StepsKeepTypes ==
    ASSUME OtherTypes, ShapeInv, PlanInv, WindowTypes, LookUpInv, ValidInv,
           validated \subseteq Header, [Next]_vars
    PROVE  OtherTypes'
<1> USE DEF chkptVars, planVars, treeVars, mapVars, histVars
<1>1. ASSUME NEW header \in Header, Update(header) PROVE OtherTypes'
  <2>1. CASE UpdateOnBootstrapI(header) \/ UpdateOnBootstrapIThrows(header)
    BY <2>1, BootstrapIKeepsTypes
  <2>2. CASE \E seesSync \in BOOLEAN : UpdateOnRuntimeAddChild(header, seesSync)
    BY <2>2, AddChildKeepsTypes
  <2>3. CASE UpdateOnRuntimeRejects(header)
    BY <2>3, HashesAndNumbers
    DEF UpdateOnRuntimeRejects, UpdateOnRuntimeUnchanged, OtherTypes, Steps
  <2>4. CASE UpdateOnRuntimeDangles(header)
    BY <2>4 DEF UpdateOnRuntimeDangles, Undefined, OtherTypes, Steps
  <2> QED
    BY <1>1, <2>1, <2>2, <2>3, <2>4 DEF Update
<1>2. CASE PhaseChangeCheck
  <2>1. currBlkNum' \in BlockNums
    BY <1>2, MonitorAssumption DEF PhaseChangeCheck, BlockNums
  <2>2. CASE EndBootstrapI /\ pc' = "confirm"
    <3>1. nextNode = 1
      BY <2>2, EndBootstrapIKeepsLookUp
    <3> QED
      BY <2>1, <2>2, <3>1, EndBootstrapIKeepsTypes DEF WindowTypes, Steps
  <2>3. CASE RefreshSyncMsg /\ pc' = "confirm"
    BY <2>1, <2>3 DEF RefreshSyncMsg, OtherTypes, Phases, Steps
  <2>4. CASE SamePhase /\ pc' \in {"idle", "confirm"}
    BY <2>1, <2>4 DEF SamePhase, OtherTypes, Steps
  <2> QED
    BY <1>2, <2>2, <2>3, <2>4 DEF PhaseChangeCheck, PhaseChangeThrows
<1>3. CASE RuntimeMaintenance
  <2>1. CASE ConfirmChild
    BY <2>1, ConfirmKeepsTypes
  <2>2. CASE MaintenanceThrows \/ NothingToConfirm
    BY <2>2 DEF MaintenanceThrows, NothingToConfirm, SamePhase, OtherTypes, Steps
  <2>3. CASE ExpireDangles \/ ExpireFails
    BY <2>3 DEF ExpireDangles, ExpireFails, Undefined, OtherTypes, Steps
  <2>4. CASE ExpireActiveNodes
    BY <2>4 DEF ExpireActiveNodes, Erase, OtherTypes, Steps
  <2> QED
    BY <1>3, <2>1, <2>2, <2>3, <2>4 DEF RuntimeMaintenance
<1>4. CASE UserEndsBootstrapI
  <2>1. EndBootstrapI /\ UNCHANGED <<pc, currBlkNum>>
    BY <1>4 DEF UserEndsBootstrapI
  <2>2. nextNode = 1
    BY <2>1, EndBootstrapIKeepsLookUp
  <2> QED
    BY <2>1, <2>2, EndBootstrapIKeepsTypes DEF WindowTypes, OtherTypes
<1>5. CASE UserRefreshesPlan
  <2>1. PICK latest \in LatestNums, start \in StartNums \cup {m_startBlockNum} :
                RefreshBootstrapPlan(latest, start)
    BY <1>5 DEF UserRefreshesPlan
  <2>2. latest \in BlockNums /\ start \in BlockNums
    BY MonitorAssumption DEF PlanInv, BlockNums
  <2>3. m_bootstrapIEndBlkNum' \in BlockNums
    BY <2>1, <2>2, PlannedEndIsNumber DEF RefreshBootstrapPlan, OtherTypes
  <2> QED
    BY <2>1, <2>3 DEF RefreshBootstrapPlan, OtherTypes
<1>6. CASE UserRefreshesSync \/ UserEndsSync \/ SyncMessage
  BY <1>6 DEF UserRefreshesSync, RefreshSyncMsg, UserEndsSync, SyncMessage,
              OtherTypes, Phases
<1>7. CASE UNCHANGED vars
  BY <1>7 DEF vars, OtherTypes
<1> QED
  BY <1>1, <1>2, <1>3, <1>4, <1>5, <1>6, <1>7 DEF Next

\* Every variable keeps its type: in particular no node of the tree points to
\* a parent that was destroyed, and block numbers stay in 64 bits.
THEOREM TypeCorrect == Spec => []TypeOK
<1> DEFINE Kept == /\ ShapeInv /\ PlanInv /\ LookUpInv /\ ValidInv
                   /\ validated \subseteq Header
<1>1. Init => OtherTypes
  <2> SUFFICES ASSUME Init PROVE OtherTypes
    OBVIOUS
  <2>1. 0 \in BlockNums /\ Modulus - 1 \in BlockNums
    BY MonitorAssumption DEF BlockNums
  <2>2. secState \in SecStates
    BY <2>1 DEF Init, SecStates
  <2>3. nextNode \in 1 .. MaxNodes + 1
    BY MonitorAssumption DEF Init
  <2>4. DOMAIN m_offlineNodes = {} /\ DOMAIN m_activeNodes = {}
    BY DEF Init
  <2> QED
    BY <2>1, <2>2, <2>3, <2>4 DEF Init, CheckpointInit, OtherTypes, Phases, Steps
<1>2. OtherTypes /\ Kept /\ [Next]_vars => OtherTypes'
  BY KeptAreHeaders, StepsKeepTypes
<1>3. Spec => []Kept
  BY ShapeInvariance, PlanInvariance, LookUpInvariance, ValidInvariance,
     ValidatedAreHeaders, PTL
<1>4. OtherTypes /\ Kept => TypeOK
  <2> SUFFICES ASSUME OtherTypes, Kept PROVE TypeOK
    OBVIOUS
  <2>1. WindowTypes /\ reported \in Seq(Header)
    BY KeptAreHeaders
  <2>2. CheckpointTypeOK
    BY <2>1 DEF WindowTypes, CheckpointTypeOK, OtherTypes
  <2>3. \A n \in DOMAIN tree : /\ tree[n].header \in Header
                               /\ tree[n].parent \in DOMAIN tree \cup {NoNode}
                               /\ tree[n].numOfDesc \in Nat
    BY DEF ShapeInv, IsTree, HasNodes
  <2>4. root \in DOMAIN tree \cup {NoNode}
    BY DEF ShapeInv, RootIsOnlyTop
  <2>5. \A map \in {m_offlineNodes, m_activeNodes} :
            /\ DOMAIN map \subseteq Hashes
            /\ \A hash \in DOMAIN map : map[hash] \in 1 .. nextNode - 1
    BY DEF OtherTypes, LookUpInv, EntriesAreRight
  <2>6. DOMAIN tree \subseteq 1 .. nextNode - 1
    BY DEF LookUpInv
  <2>7. m_startBlockNum \in BlockNums /\ m_planedSyncBlkNum \in BlockNums
    BY DEF PlanInv
  <2> QED
    BY <2>1, <2>2, <2>3, <2>4, <2>5, <2>6, <2>7 DEF TypeOK, OtherTypes, SecStates, Steps
<1> QED
  BY <1>1, <1>2, <1>3, <1>4, PTL DEF Spec
===============================================================================

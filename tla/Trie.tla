-------------------------------- MODULE Trie ---------------------------------
(***************************************************************************)
(* Class PatriciaTrie and its nodes (Eth/Trie/): the tree whose root hash   *)
(* commits to the receipts of a block.  ReceiptsMgr builds it from the      *)
(* receipts the host delivers and compares the hash to that of the header.  *)
(*                                                                          *)
(* A node is a record, the null pointer is NoNode.  A hash is the value it  *)
(* is a hash of, so that the rule that nodes of less than 32 bytes are      *)
(* embedded and the others hashed makes no difference: both name the node.  *)
(***************************************************************************)
EXTENDS TrieKeys, SequencesExt

CONSTANTS
    Value,      \* the values
    NoNode,     \* nullptr
    NoValue     \* the empty value

VARIABLES
    m_root,
    undefined   \* has Put read a path past its end

vars == <<m_root, undefined>>

-----------------------------------------------------------------------------
(* Paths.                                                                   *)

\* Mutant: every path is marked as that of a leaf.
ToPrefixedAsLeaf(nibbles, isLeafNode) ==
    (IF Len(nibbles) % 2 = 1 THEN <<3>> ELSE <<2, 0>>) \o nibbles

ToPrefixed(nibbles, isLeafNode) ==
    LET mark == IF isLeafNode THEN 2 ELSE 0
    IN  (IF Len(nibbles) % 2 = 1 THEN <<1 + mark>> ELSE <<mark, 0>>) \o nibbles

ToBytes(nibbles) ==
    [ j \in 1 .. (Len(nibbles) + 1) \div 2 |->
        16 * nibbles[2 * j - 1] + nibbles[2 * j] ]

From(path, first) == SubSeq(path, first, Len(path))

-----------------------------------------------------------------------------
(* Nodes.                                                                   *)

LeafNode(path, value) == [type |-> "Leaf", path |-> path, value |-> value]

ExtensionNode(path, next) == [type |-> "Extension", path |-> path, next |-> next]

\* branches maps the nibbles that have a child to the child.
BranchNode(value, branches) ==
    [type |-> "Branch", value |-> value, branches |-> branches]

\* Mutant: an extension is made for an empty path, too.
ExtendAlways(path, node) == ExtensionNode(path, node)

\* No extension is made for an empty path.
Extend(path, node) == IF path = <<>> THEN node ELSE ExtensionNode(path, node)

GetBranch(branch, nibble) ==
    IF nibble \in DOMAIN branch.branches THEN branch.branches[nibble] ELSE NoNode

\* Mutant: the nibble of the branch stays in the path below it.
BelowTooLong(path, matched) == From(path, matched + 1)

\* What is left of a path below a branch that has matched nibbles above it and
\* takes one for itself.
Below(path, matched) == From(path, matched + 2)

-----------------------------------------------------------------------------
(* Put, by the type of the node that it reaches.                            *)

RECURSIVE PutKey(_, _, _)

\* Mutant: the value of the leaf is lost when its path ends at the branch.
PutKeyLeafNodeDropsOld(leaf, nibbles, value) ==
    LET matched  == PrefixMatchedLen(nibbles, leaf.path)
        isNewEnd == matched = Len(nibbles)
        isOldEnd == matched = Len(leaf.path)
        oldArm   == leaf.path[matched + 1] :> LeafNode(Below(leaf.path, matched), leaf.value)
        newArm   == nibbles[matched + 1] :> LeafNode(Below(nibbles, matched), value)
    IN  IF isNewEnd /\ isOldEnd
        THEN LeafNode(leaf.path, value)
        ELSE Extend(SubSeq(leaf.path, 1, matched),
                CASE isNewEnd -> BranchNode(value, oldArm)
                  [] isOldEnd -> BranchNode(NoValue, newArm)
                  [] OTHER -> BranchNode(NoValue, newArm @@ oldArm))

PutKeyLeafNode(leaf, nibbles, value) ==
    LET matched  == PrefixMatchedLen(nibbles, leaf.path)
        isNewEnd == matched = Len(nibbles)
        isOldEnd == matched = Len(leaf.path)
        oldArm   == leaf.path[matched + 1] :> LeafNode(Below(leaf.path, matched), leaf.value)
        newArm   == nibbles[matched + 1] :> LeafNode(Below(nibbles, matched), value)
    IN  IF isNewEnd /\ isOldEnd
        THEN LeafNode(leaf.path, value)
        ELSE Extend(SubSeq(leaf.path, 1, matched),
                CASE isNewEnd -> BranchNode(value, oldArm)
                  [] isOldEnd -> BranchNode(leaf.value, newArm)
                  [] OTHER -> BranchNode(NoValue, newArm @@ oldArm))

PutKeyBranchNode(branch, nibbles, value) ==
    IF nibbles = <<>>
    THEN [branch EXCEPT !.value = value]
    ELSE [branch EXCEPT !.branches =
            (nibbles[1] :> PutKey(GetBranch(branch, nibbles[1]), Tail(nibbles), value)) @@ @]

PutKeyExtensionNode(extension, nibbles, value) ==
    LET path    == extension.path
        matched == PrefixMatchedLen(nibbles, path)
        oldArm  == path[matched + 1] :> Extend(Below(path, matched), extension.next)
        newArm  == nibbles[matched + 1] :> LeafNode(Below(nibbles, matched), value)
    IN  IF matched < Len(path)
        THEN Extend(SubSeq(path, 1, matched), BranchNode(NoValue, newArm @@ oldArm))
        ELSE ExtensionNode(path,
                PutKey(extension.next, From(nibbles, matched + 1), value))

PutKey(node, nibbles, value) ==
    CASE node = NoNode -> LeafNode(nibbles, value)
      [] OTHER ->
        CASE node.type = "Leaf" -> PutKeyLeafNode(node, nibbles, value)
          [] node.type = "Branch" -> PutKeyBranchNode(node, nibbles, value)
          [] node.type = "Extension" -> PutKeyExtensionNode(node, nibbles, value)

\* PutKeyExtensionNode takes nibbles[matched] without asking whether the key
\* ends inside the path of the extension.
RECURSIVE ReadsPastEnd(_, _)
ReadsPastEnd(node, nibbles) ==
    CASE node = NoNode -> FALSE
      [] OTHER ->
        CASE node.type = "Leaf" -> FALSE
          [] node.type = "Branch" ->
                /\ nibbles # <<>>
                /\ ReadsPastEnd(GetBranch(node, nibbles[1]), Tail(nibbles))
          [] node.type = "Extension" ->
                LET matched == PrefixMatchedLen(nibbles, node.path)
                IN  IF matched < Len(node.path)
                    THEN matched = Len(nibbles)
                    ELSE ReadsPastEnd(node.next, From(nibbles, matched + 1))

-----------------------------------------------------------------------------
(* What the root hash is a hash of.                                         *)

PathBytes(path, isLeafNode) == ToBytes(ToPrefixed(path, isLeafNode))

\* The raw of the empty node is the empty value.
RECURSIVE Raw(_)
Raw(node) ==
    CASE node = NoNode -> NoValue
      [] OTHER ->
        CASE node.type = "Leaf" -> << PathBytes(node.path, TRUE), node.value >>
          [] node.type = "Extension" ->
                << PathBytes(node.path, FALSE), Raw(node.next) >>
          [] node.type = "Branch" ->
                [ j \in 1 .. 16 |-> Raw(GetBranch(node, j - 1)) ] \o << node.value >>

-----------------------------------------------------------------------------

Init == m_root = NoNode /\ undefined = FALSE

Put(key, value) ==
    /\ ~undefined
    /\ ~ReadsPastEnd(m_root, FromBytes(key))
    /\ m_root' = PutKey(m_root, FromBytes(key), value)
    /\ UNCHANGED undefined

\* Nothing is known of the program afterwards.
PutReadsPastEnd(key) ==
    /\ ~undefined
    /\ ReadsPastEnd(m_root, FromBytes(key))
    /\ undefined' = TRUE
    /\ UNCHANGED m_root

Reset ==
    /\ ~undefined
    /\ m_root' = NoNode
    /\ UNCHANGED undefined

Next ==
    \/ \E key \in Key, value \in Value : Put(key, value)
    \/ \E key \in Key : PutReadsPastEnd(key)
    \/ Reset

Spec == Init /\ [][Next]_vars

-----------------------------------------------------------------------------
(* Properties.                                                              *)

\* A trie as another client reads it from its nodes: the first nibble of a
\* path tells the type of the node and whether the path has an odd length.
RECURSIVE ReadBack(_)
ReadBack(raw) ==
    LET marked == FromBytes(raw[1])
        path   == From(marked, IF marked[1] % 2 = 1 THEN 2 ELSE 3)
    IN  CASE raw = NoValue -> NoNode
          [] OTHER ->
            CASE Len(raw) = 17 ->
                    BranchNode(raw[17],
                        [n \in {j \in 0 .. 15 : raw[j + 1] # NoValue} |->
                            ReadBack(raw[n + 1])])
              [] Len(raw) = 2 /\ marked[1] >= 2 -> LeafNode(path, raw[2])
              [] Len(raw) = 2 /\ marked[1] < 2 ->
                    ExtensionNode(path, ReadBack(raw[2]))

\* Tries with the same hash are the same: a receipt that the host changes,
\* adds, moves or leaves out changes what is hashed.
HashDeterminesTrie == ReadBack(Raw(m_root)) = m_root
=============================================================================

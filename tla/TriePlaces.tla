----------------------------- MODULE TriePlaces ------------------------------
(***************************************************************************)
(* The trie of pointers with the places of its nodes: how Trie implements   *)
(* PlacedTrie.  The history variable nodes follows the pointers, and the    *)
(* pointers are as free as in Trie.                                         *)
(***************************************************************************)
EXTENDS PlacedTrie

CONSTANT NoNode     \* nullptr

VARIABLE m_root

Tree == INSTANCE Trie

\* The nodes below a pointer, which lies at a place.
RECURSIVE Placed(_, _)
Placed(node, at) ==
    CASE node = NoNode -> {}
      [] OTHER ->
        CASE node.type = "Leaf" -> {LeafNode(at, at \o node.path, node.value)}
          [] node.type = "Extension" ->
                {ExtensionNode(at, at \o node.path)}
                    \cup Placed(node.next, at \o node.path)
          [] node.type = "Branch" ->
                {BranchNode(at, node.value)} \cup
                UNION {Placed(node.branches[n], Append(at, n)) :
                            n \in DOMAIN node.branches}

TreeInit == Tree!Init /\ nodes = Placed(m_root, <<>>)

TreeNext == Tree!Next /\ nodes' = Placed(m_root', <<>>)

TreeSpec == TreeInit /\ [][TreeNext]_<<m_root, nodes, undefined>>

-----------------------------------------------------------------------------
(* Properties; those of PlacedTrie are about these nodes, too.              *)

\* Put replaces the pointers along the way to the key and nowhere else, and
\* what hangs from the others is where it was: of the placed nodes it changes
\* one, as PlacedTrie says.
PlacedSpec == Spec

HashDeterminesTrie == Tree!HashDeterminesTrie
=============================================================================

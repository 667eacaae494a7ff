----------------------------- MODULE PlacedTrie ------------------------------
(***************************************************************************)
(* Class PatriciaTrie (Eth/Trie/Trie.hpp) as a set of nodes instead of a    *)
(* tree of pointers.  A node is known by its place, the nibbles on the way  *)
(* from the root to it; what its own path adds to that is where it leads:   *)
(* a leaf to its key, an extension to the place of its branch, a branch no  *)
(* further.  Trie.tla has the pointers; TriePlaces.tla relates the two.      *)
(***************************************************************************)
EXTENDS TrieKeys, SequencesExt

CONSTANTS
    Receipt,    \* the numbers of some receipts
    Value,      \* the values
    NoValue     \* the empty value

ASSUME ReceiptAssumption == \A i \in Receipt : i \in Nat /\ i < 256 * 256

ASSUME ValueAssumption == NoValue \notin Value

VARIABLES
    nodes,
    undefined   \* has Put read a path past its end

vars == <<nodes, undefined>>

Paths == {FromBytes(key) : key \in Key}

-----------------------------------------------------------------------------
(* Nodes.                                                                   *)

LeafNode(at, to, value) ==
    [type |-> "Leaf", at |-> at, to |-> to, value |-> value]

ExtensionNode(at, to) ==
    [type |-> "Extension", at |-> at, to |-> to, value |-> NoValue]

BranchNode(at, value) ==
    [type |-> "Branch", at |-> at, to |-> at, value |-> value]

\* No extension is made for an empty path.
Extend(at, to) == IF at = to THEN {} ELSE {ExtensionNode(at, to)}

\* The nibbles that two paths share.
Common(p, q) == SubSeq(p, 1, PrefixMatchedLen(p, q))

\* The place below the branch at b on the way to p.
Toward(b, p) == SubSeq(p, 1, Len(b) + 1)

-----------------------------------------------------------------------------
(* Put goes from node to node as long as the key leads on, and changes the  *)
(* last one.                                                                *)

OnTheWay(path) == {x \in nodes : IsPrefix(x.at, path)}

IsReached(x, path) ==
    /\ x \in OnTheWay(path)
    /\ \A y \in OnTheWay(path) : Len(y.at) <= Len(x.at)

\* Only one of the two paths can end at the branch.
PutKeyLeafNode(leaf, path, value) ==
    LET fork == Common(path, leaf.to)
    IN  IF path = leaf.to
        THEN {LeafNode(leaf.at, path, value)}
        ELSE UNION {
            Extend(leaf.at, fork),
            {BranchNode(fork, CASE fork = path -> value
                                [] fork = leaf.to -> leaf.value
                                [] OTHER -> NoValue)},
            IF fork = leaf.to THEN {}
                ELSE {LeafNode(Toward(fork, leaf.to), leaf.to, leaf.value)},
            IF fork = path THEN {}
                ELSE {LeafNode(Toward(fork, path), path, value)}}

\* The branch has no child on the way to the key: it was the last node.
PutKeyBranchNode(branch, path, value) ==
    IF path = branch.at
    THEN {BranchNode(path, value)}
    ELSE {branch, LeafNode(Toward(branch.at, path), path, value)}

\* The key leaves the extension before its branch: it was the last node.
PutKeyExtensionNode(extension, path, value) ==
    LET fork == Common(path, extension.to)
    IN  UNION {
            Extend(extension.at, fork),
            {BranchNode(fork, NoValue)},
            Extend(Toward(fork, extension.to), extension.to),
            {LeafNode(Toward(fork, path), path, value)}}

\* PutKeyExtensionNode takes a nibble of the key after those that matched
\* without asking whether there is one.
PastEnd(x, path) == x.type = "Extension" /\ IsPrefix(path, x.to)

ReadsPastEnd(path) == \E x \in nodes : IsReached(x, path) /\ PastEnd(x, path)

Replace(x, new) == nodes' = (nodes \ {x}) \cup new

PutKey(path, value) ==
    \/ /\ nodes = {}
       /\ nodes' = {LeafNode(<<>>, path, value)}
    \/ \E x \in nodes :
        /\ IsReached(x, path)
        /\ ~PastEnd(x, path)
        /\ \/ x.type = "Leaf" /\ Replace(x, PutKeyLeafNode(x, path, value))
           \/ x.type = "Branch" /\ Replace(x, PutKeyBranchNode(x, path, value))
           \/ x.type = "Extension" /\ Replace(x, PutKeyExtensionNode(x, path, value))

-----------------------------------------------------------------------------

Init == nodes = {} /\ undefined = FALSE

Put(key, value) ==
    /\ ~undefined
    /\ PutKey(FromBytes(key), value)
    /\ UNCHANGED undefined

\* Nothing is known of the program afterwards.
PutReadsPastEnd(key) ==
    /\ ~undefined
    /\ ReadsPastEnd(FromBytes(key))
    /\ undefined' = TRUE
    /\ UNCHANGED nodes

Reset ==
    /\ ~undefined
    /\ nodes' = {}
    /\ UNCHANGED undefined

Next ==
    \/ \E key \in Key, value \in Value : Put(key, value)
    \/ \E key \in Key : PutReadsPastEnd(key)
    \/ Reset

Spec == Init /\ [][Next]_vars

-----------------------------------------------------------------------------
(* Properties.                                                              *)

\* The value that the trie holds for a path: that of the last node on the way,
\* if it leads there and no further.
Lookup(path) ==
    LET found == {x \in nodes : x.to = path /\ IsReached(x, path)}
    IN  IF found = {} THEN NoValue ELSE (CHOOSE x \in found : TRUE).value

\* The partial function that the trie stands for.
RootContents ==
    [k \in {p \in Paths : Lookup(p) # NoValue} |-> Lookup(k)]

\* The trie is a map from keys to values: every key holds the value put last,
\* whatever was put before, and putting one key changes no other.
Map == INSTANCE KeyValueMap WITH
            Key <- Paths, map <- RootContents
MapSpec == Map!Spec

\* The shape that Ethereum prescribes for the trie of given contents.  Where
\* two keys part there is a branch; a node lies at the root, at a branch and
\* at every place below one; it leads to the next branch or key that all keys
\* from its place on have in common.
Forks(keys) == UNION {{Common(j, k) : k \in keys \ {j}} : j \in keys}

Places(keys) ==
    {<<>>} \cup UNION {{Toward(b, k) : k \in {i \in keys : IsStrictPrefix(b, i)}} :
                            b \in Forks(keys)}

Spans(keys) ==
    {span \in (Places(keys) \cup Forks(keys)) \X (keys \cup Forks(keys)) :
        /\ IsPrefix(span[1], span[2])
        /\ \A k \in keys : IsPrefix(span[1], k) => IsPrefix(span[2], k)}

CanonicalNode(contents, at, to) ==
    LET keys == DOMAIN contents
    IN  CASE to \notin Forks(keys) -> LeafNode(at, to, contents[to])
          [] to \in Forks(keys) /\ at # to -> ExtensionNode(at, to)
          [] to \in Forks(keys) /\ at = to ->
                BranchNode(to, IF to \in keys THEN contents[to] ELSE NoValue)

Canonical(contents) ==
    {CanonicalNode(contents, span[1], span[2]) : span \in Spans(DOMAIN contents)}

\* Whatever the order in which receipts are put, the trie is the one that the
\* makers of the block computed the root of, with nothing else in it.
RootIsCanonical == nodes = Canonical(RootContents)

\* As long as only receipts are put, the next one does not read its path past
\* the end: no RLP encoding is the beginning of another.
ReceiptPaths == {FromBytes(KeyRlp(i)) : i \in Receipt}

ReceiptsAreDefined ==
    DOMAIN RootContents \subseteq ReceiptPaths
        => \A path \in ReceiptPaths : ~ReadsPastEnd(path)
=============================================================================

----------------------------- MODULE KeyValueMap -----------------------------
(***************************************************************************)
(* What a trie is to its user: a function from keys to the values put last. *)
(***************************************************************************)
CONSTANTS Key, Value

VARIABLE map    \* a partial function from keys to values

Init == map = [k \in {} |-> {}]

Put(key, value) ==
    map' = [k \in DOMAIN map \cup {key} |-> IF k = key THEN value ELSE map[k]]

Reset == map' = [k \in {} |-> {}]

Next == Reset \/ \E key \in Key, value \in Value : Put(key, value)

Spec == Init /\ [][Next]_map
=============================================================================

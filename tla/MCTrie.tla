------------------------------- MODULE MCTrie --------------------------------
(***************************************************************************)
(* Keys for TriePlaces: those of a few receipts, and some that are the      *)
(* beginning of others.                                                     *)
(***************************************************************************)
EXTENDS TriePlaces

Keys == {KeyRlp(i) : i \in {1, 256, 257, 272, 512}} \cup { <<>>, <<130>> }

\* On both sides of the numbers where the length of the key changes.
Receipts == {0, 1, 127, 128, 255, 256, 257, 272, 512, 4096}
=============================================================================

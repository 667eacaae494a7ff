------------------------------ MODULE TrieKeys -------------------------------
(***************************************************************************)
(* The keys of a trie: those of receipts (Eth/ReceiptsMgr.hpp), and keys as *)
(* the sequences of nibbles that a trie works with (Eth/Trie/Nibbles.hpp).  *)
(***************************************************************************)
EXTENDS Integers, Sequences

CONSTANT Key    \* the keys of Put: sequences of bytes

\* PrefixMatchedLen counts nibbles in a uint8_t; the keys of receipts and
\* transactions have at most nine bytes.
ASSUME KeyAssumption == \A key \in Key : key \in Seq(0 .. 255) /\ Len(key) < 128

\* Mutant: the number itself, without its length.
KeyRlpWithoutLength(i) ==
    CASE i = 0 -> <<>>
      [] i \in 1 .. 255 -> <<i>>
      [] OTHER -> << i \div 256, i % 256 >>

\* The key of receipt i: the encoding, by the SimpleRlp library, of the
\* big-endian bytes of i without leading zeros (for i < 65536).
KeyRlp(i) ==
    CASE i = 0 -> <<128>>
      [] i \in 1 .. 127 -> <<i>>
      [] i \in 128 .. 255 -> <<129, i>>
      [] OTHER -> << 130, i \div 256, i % 256 >>

FromBytes(bytes) ==
    [ j \in 1 .. 2 * Len(bytes) |->
        IF j % 2 = 1 THEN bytes[(j + 1) \div 2] \div 16 ELSE bytes[j \div 2] % 16 ]

PrefixMatchedLen(nibbles1, nibbles2) ==
    CHOOSE n \in 0 .. Len(nibbles1) :
        /\ n <= Len(nibbles2)
        /\ \A i \in 1 .. n : nibbles1[i] = nibbles2[i]
        /\ n < Len(nibbles1) /\ n < Len(nibbles2) =>
                nibbles1[n + 1] # nibbles2[n + 1]
=============================================================================

-------------------------- MODULE EventSearchProofs --------------------------
(***************************************************************************)
(* Theorems about EventSearch: for any finite set of listeners, any         *)
(* receipts, blocks of any length, and whatever the host answers.           *)
(*                                                                          *)
(* Three things are needed: the bloom filter has no false negatives, which  *)
(* is arithmetic on its 2048 bits; the search compares topics like          *)
(* IsPrefix does; and the plan of calls always holds what is missing from   *)
(* the calls made.                                                          *)
(***************************************************************************)
EXTENDS EventSearch, SequenceTheorems, FiniteSetTheorems,
        WellFoundedInduction, TLAPS

\* Induction up to n, on the set of the numbers for which something holds.
LEMMA InductionUpTo ==
    ASSUME NEW n \in Nat, NEW S,
           0 \in S, \A k \in 1 .. n : k - 1 \in S => k \in S
    PROVE  \A k \in 0 .. n : k \in S
<1> DEFINE missing == {k \in 0 .. n : k \notin S}
<1> SUFFICES ASSUME missing # {}
             PROVE  FALSE
  OBVIOUS
<1>1. PICK m \in missing : \A k \in missing : ~(<<k, m>> \in OpToRel(<, Nat))
  <2>1. missing \subseteq Nat
    OBVIOUS
  <2> HIDE DEF missing
  <2> QED
    BY <2>1, NatLessThanWellFounded, WFMin
<1>2. m \in 1 .. n /\ m \notin S
  OBVIOUS
<1>3. m - 1 \in 0 .. n /\ m - 1 \in Nat /\ m - 1 < m
  BY <1>2
<1>4. <<m - 1, m>> \in OpToRel(<, Nat)
  BY <1>2, <1>3 DEF OpToRel
<1>5. m - 1 \notin missing
  BY <1>1, <1>4
<1> QED
  BY <1>2, <1>3, <1>5

-----------------------------------------------------------------------------
(* The recursive functions of the model have the values they should have.   *)

IsKept(kept, positions, fitting, m) ==
    kept = [n \in 0 .. m |->
                IF n = 0 THEN <<>>
                ELSE IF positions[n] \in fitting
                     THEN Append(kept[n - 1], positions[n])
                     ELSE kept[n - 1]]

LEMMA KeptExists ==
    ASSUME NEW positions, NEW fitting, NEW m \in Nat
    PROVE  \E kept : IsKept(kept, positions, fitting, m)
<1> DEFINE S == {n \in 0 .. m : \E kept : IsKept(kept, positions, fitting, n)}
<1>1. 0 \in S
  <2>1. IsKept([n \in 0 .. 0 |-> <<>>], positions, fitting, 0)
    BY DEF IsKept
  <2> QED
    BY <2>1
<1>2. ASSUME NEW k \in 1 .. m, k - 1 \in S
      PROVE  k \in S
  <2>1. PICK kept : IsKept(kept, positions, fitting, k - 1)
    BY <1>2
  <2> DEFINE next == IF positions[k] \in fitting
                     THEN Append(kept[k - 1], positions[k])
                     ELSE kept[k - 1]
             longer == [n \in 0 .. k |-> IF n = k THEN next ELSE kept[n]]
  <2>2. \A n \in 0 .. k :
            longer[n] = IF n = 0 THEN <<>>
                        ELSE IF positions[n] \in fitting
                             THEN Append(longer[n - 1], positions[n])
                             ELSE longer[n - 1]
    <3> TAKE n \in 0 .. k
    <3>1. CASE n = k
      <4>1. n # 0 /\ longer[n - 1] = kept[k - 1]
        BY <3>1
      <4>2. longer[n] = next
        BY <3>1
      <4> QED
        BY <3>1, <4>1, <4>2
    <3>2. CASE n # k
      <4>1. n \in 0 .. k - 1 /\ (n # 0 => n - 1 \in 0 .. k - 1)
        BY <3>2
      <4>2. kept[n] = IF n = 0 THEN <<>>
                      ELSE IF positions[n] \in fitting
                           THEN Append(kept[n - 1], positions[n])
                           ELSE kept[n - 1]
        BY <2>1, <4>1 DEF IsKept
      <4>3. longer[n] = kept[n] /\ (n # 0 => longer[n - 1] = kept[n - 1])
        BY <4>1
      <4> HIDE DEF longer
      <4> QED
        BY <4>2, <4>3
    <3> QED
      BY <3>1, <3>2
  <2>3. IsKept(longer, positions, fitting, k)
    <3>1. longer = [n \in 0 .. k |-> longer[n]]
      OBVIOUS
    <3> HIDE DEF longer
    <3> QED
      BY <2>2, <3>1 DEF IsKept
  <2> QED
    BY <2>3
<1> HIDE DEF S
<1>3. \A k \in 0 .. m : k \in S
  BY <1>1, <1>2, InductionUpTo
<1>4. m \in S
  BY <1>3
<1> QED
  BY <1>4 DEF S

\* What is kept is in the sequence and fits.
LEMMA KeptFits ==
    ASSUME NEW T, NEW positions \in Seq(T), NEW fitting
    PROVE  Kept(positions, fitting) \in Seq({p \in Range(positions) : p \in fitting})
<1> DEFINE m == Len(positions)
           R == {p \in Range(positions) : p \in fitting}
           kept == CHOOSE f : f = [n \in 0 .. m |->
                        IF n = 0 THEN <<>>
                        ELSE IF positions[n] \in fitting
                             THEN Append(f[n - 1], positions[n])
                             ELSE f[n - 1]]
<1>1. Kept(positions, fitting) = kept[m]
  BY DEF Kept
<1>2. IsKept(kept, positions, fitting, m)
  <2>1. m \in Nat
    BY LenProperties
  <2>2. \E f : IsKept(f, positions, fitting, m)
    BY <2>1, KeptExists
  <2> QED
    BY <2>2 DEF IsKept
<1>3. m \in Nat /\ \A n \in 1 .. m : positions[n] \in Range(positions)
  BY LenProperties DEF Range
<1> HIDE DEF kept, m
<1>8. \A n \in 0 .. m : kept[n] = IF n = 0 THEN <<>>
                                ELSE IF positions[n] \in fitting
                                     THEN Append(kept[n - 1], positions[n])
                                     ELSE kept[n - 1]
  BY <1>2 DEF IsKept
<1>9. \A p : p \in R <=> p \in Range(positions) /\ p \in fitting
  OBVIOUS
<1> HIDE DEF R
<1> DEFINE S == {n \in 0 .. m : kept[n] \in Seq(R)}
<1>4. 0 \in S
  <2>1. kept[0] = <<>>
    BY <1>3, <1>8
  <2>2. <<>> \in Seq(R)
    BY EmptySeq
  <2>3. kept[0] \in Seq(R)
    BY <2>1, <2>2
  <2> QED
    BY <1>3, <2>3
<1>10. \A n \in 1 .. m : n \in 0 .. m
  BY <1>3
<1>5. ASSUME NEW k \in 1 .. m, k - 1 \in S
      PROVE  k \in S
  <2>1. kept[k - 1] \in Seq(R)
    BY <1>5
  <2>2. kept[k] = IF positions[k] \in fitting
                  THEN Append(kept[k - 1], positions[k])
                  ELSE kept[k - 1]
    <3>1. k \in 0 .. m /\ k # 0
      BY <1>3
    <3> QED
      BY <1>8, <3>1
  <2>3. CASE positions[k] \in fitting
    <3>1. positions[k] \in R
      BY <1>3, <1>9, <2>3
    <3>2. Append(kept[k - 1], positions[k]) \in Seq(R)
      BY <2>1, <3>1, AppendProperties
    <3>3. kept[k] \in Seq(R)
      BY <2>2, <2>3, <3>2
    <3> QED
      BY <3>3, <1>10
  <2>4. CASE positions[k] \notin fitting
    BY <2>1, <2>2, <2>4, <1>3
  <2> QED
    BY <2>3, <2>4
<1> HIDE DEF S
<1>6. \A k \in 0 .. m : k \in S
  BY <1>3, <1>4, <1>5, InductionUpTo
<1>7. m \in S
  BY <1>3, <1>6
<1> QED
  BY <1>1, <1>7 DEF S, R

IsFlat(flat, seqs, m) ==
    flat = [i \in 1 .. m |-> IF i = 1 THEN seqs[i] ELSE flat[i - 1] \o seqs[i]]

LEMMA FlatExists ==
    ASSUME NEW seqs, NEW m \in Nat
    PROVE  \E flat : IsFlat(flat, seqs, m)
<1> DEFINE S == {n \in 0 .. m : \E flat : IsFlat(flat, seqs, n)}
<1>1. 0 \in S
  <2>1. IsFlat([i \in 1 .. 0 |-> <<>>], seqs, 0)
    BY DEF IsFlat
  <2> QED
    BY <2>1
<1>2. ASSUME NEW k \in 1 .. m, k - 1 \in S
      PROVE  k \in S
  <2>1. PICK flat : IsFlat(flat, seqs, k - 1)
    BY <1>2
  <2> DEFINE next == IF k = 1 THEN seqs[k] ELSE flat[k - 1] \o seqs[k]
             longer == [i \in 1 .. k |-> IF i = k THEN next ELSE flat[i]]
  <2>2. \A i \in 1 .. k :
            longer[i] = IF i = 1 THEN seqs[i] ELSE longer[i - 1] \o seqs[i]
    <3> TAKE i \in 1 .. k
    <3>1. CASE i = k
      <4>1. i # 1 => longer[i - 1] = flat[k - 1]
        BY <3>1
      <4>2. longer[i] = next
        BY <3>1
      <4> QED
        BY <3>1, <4>1, <4>2
    <3>2. CASE i # k
      <4>1. i \in 1 .. k - 1 /\ (i # 1 => i - 1 \in 1 .. k - 1)
        BY <3>2
      <4>2. flat[i] = IF i = 1 THEN seqs[i] ELSE flat[i - 1] \o seqs[i]
        BY <2>1, <4>1 DEF IsFlat
      <4>3. longer[i] = flat[i] /\ (i # 1 => longer[i - 1] = flat[i - 1])
        BY <4>1
      <4> HIDE DEF longer
      <4> QED
        BY <4>2, <4>3
    <3> QED
      BY <3>1, <3>2
  <2>3. IsFlat(longer, seqs, k)
    <3>1. longer = [i \in 1 .. k |-> longer[i]]
      OBVIOUS
    <3> HIDE DEF longer
    <3> QED
      BY <2>2, <3>1 DEF IsFlat
  <2> QED
    BY <2>3
<1> HIDE DEF S
<1>3. \A k \in 0 .. m : k \in S
  BY <1>1, <1>2, InductionUpTo
<1>4. m \in S
  BY <1>3
<1> QED
  BY <1>4 DEF S

\* A sequence of sequences of something is flattened to one of them.
LEMMA FlattenSeqType ==
    ASSUME NEW T, NEW seqs \in Seq(Seq(T))
    PROVE  FlattenSeq(seqs) \in Seq(T)
<1> DEFINE m == Len(seqs)
           flat == CHOOSE f : f = [i \in 1 .. m |->
                        IF i = 1 THEN seqs[i] ELSE f[i - 1] \o seqs[i]]
<1>1. FlattenSeq(seqs) = IF m = 0 THEN seqs ELSE flat[m]
  BY DEF FlattenSeq
<1>2. IsFlat(flat, seqs, m)
  <2>1. m \in Nat
    BY LenProperties
  <2>2. \E f : IsFlat(f, seqs, m)
    BY <2>1, FlatExists
  <2> QED
    BY <2>2 DEF IsFlat
<1>3. m \in Nat /\ \A i \in 1 .. m : seqs[i] \in Seq(T)
  BY LenProperties, ElementOfSeq
<1>4. CASE m = 0
  <2>1. seqs = <<>>
    BY <1>4, EmptySeq
  <2> QED
    BY <1>1, <1>4, <2>1, EmptySeq
<1>5. CASE m # 0
  <2> HIDE DEF flat, m
  <2>1. \A i \in 1 .. m :
            flat[i] = IF i = 1 THEN seqs[i] ELSE flat[i - 1] \o seqs[i]
    BY <1>2 DEF IsFlat
  <2> DEFINE S == {i \in 0 .. m : i # 0 => flat[i] \in Seq(T)}
  <2>2. 0 \in S
    BY <1>3
  <2>3. ASSUME NEW k \in 1 .. m, k - 1 \in S
        PROVE  k \in S
    <3>1. seqs[k] \in Seq(T) /\ k \in 0 .. m
      BY <1>3
    <3>2. CASE k = 1
      <4>1. flat[k] = seqs[k]
        BY <2>1, <3>2
      <4> QED
        BY <3>1, <4>1
    <3>3. CASE k # 1
      <4>1. flat[k] = flat[k - 1] \o seqs[k]
        BY <2>1, <3>3
      <4>2. flat[k - 1] \in Seq(T)
        BY <2>3, <3>3
      <4>3. flat[k] \in Seq(T)
        BY <3>1, <4>1, <4>2, ConcatProperties
      <4> QED
        BY <3>1, <4>3
    <3> QED
      BY <3>2, <3>3
  <2> HIDE DEF S
  <2>4. \A k \in 0 .. m : k \in S
    BY <1>3, <2>2, <2>3, InductionUpTo
  <2>5. m \in S
    BY <1>3, <2>4
  <2>6. flat[m] \in Seq(T)
    BY <1>5, <2>5 DEF S
  <2> QED
    BY <1>1, <1>5, <2>6
<1> QED
  BY <1>4, <1>5

-----------------------------------------------------------------------------
(* The places of the logs of a block.                                       *)

Log == [contractAddr : DOMAIN Hash, topics : Seq(DOMAIN Hash)]

Place(block) ==
    {p \in Nat \X Nat : /\ p[1] \in 1 .. Len(block)
                        /\ p[2] \in 1 .. Len(block[p[1]].logs)}

LEMMA PositionsArePlaces ==
    ASSUME NEW block \in Seq(Receipt)
    PROVE  Positions(block) \in Seq(Place(block))
<1> DEFINE n == Len(block)
           rows == [i \in 1 .. n |-> [j \in 1 .. Len(block[i].logs) |-> <<i, j>>]]
<1>1. n \in Nat /\ \A i \in 1 .. n : block[i].logs \in Seq(Log)
  BY LenProperties, ElementOfSeq, ReceiptAssumption DEF Log
<1>2. ASSUME NEW i \in 1 .. n
      PROVE  rows[i] \in Seq(Place(block))
  <2> DEFINE m == Len(block[i].logs)
  <2>1. m \in Nat
    BY <1>1, LenProperties
  <2>2. \A j \in 1 .. m : <<i, j>> \in Place(block)
    BY <1>1, <2>1 DEF Place
  <2>3. rows[i] = [j \in 1 .. m |-> <<i, j>>]
    OBVIOUS
  <2> HIDE DEF m, rows
  <2>4. [j \in 1 .. m |-> <<i, j>>] \in Seq(Place(block))
    BY <2>1, <2>2, IsASeq
  <2> QED
    BY <2>3, <2>4
<1>3. rows \in Seq(Seq(Place(block)))
  <2>1. rows \in [1 .. n -> Seq(Place(block))]
    BY <1>2
  <2> HIDE DEF rows
  <2> QED
    BY <1>1, <2>1
<1>4. Positions(block) = FlattenSeq(rows)
  BY DEF Positions
<1> HIDE DEF rows
<1> QED
  BY <1>3, <1>4, FlattenSeqType

LEMMA LogsAreLogs ==
    ASSUME NEW block \in Seq(Receipt), NEW p \in Place(block)
    PROVE  LogAt(block, p) \in Log
<1>1. p[1] \in 1 .. Len(block) /\ p[2] \in 1 .. Len(block[p[1]].logs)
  BY DEF Place
<1>2. block[p[1]] \in Receipt
  BY <1>1, ElementOfSeq
<1>3. block[p[1]].logs \in Seq(Log)
  BY <1>2, ReceiptAssumption DEF Log
<1> QED
  BY <1>1, <1>3, ElementOfSeq DEF LogAt

-----------------------------------------------------------------------------
(* The search finds what is expected, and the bloom filter lets it through. *)

LEMMA PrefixIsPointwise ==
    ASSUME NEW T, NEW s \in Seq(T), NEW t \in Seq(T)
    PROVE  IsPrefix(s, t)
            <=> \A n \in DOMAIN s : n \in DOMAIN t /\ s[n] = t[n]
<1> DEFINE k == Len(s)
<1>1. /\ k \in Nat /\ Len(t) \in Nat
      /\ DOMAIN s = 1 .. k /\ DOMAIN t = 1 .. Len(t)
  BY LenProperties
<1>2. SubSeq(s, 1, k) = s
  BY SubSeqFull
<1>3. IsPrefix(s, t) <=> k <= Len(t) /\ SubSeq(t, 1, k) = s
  BY <1>2 DEF IsPrefix
<1>4. k <= Len(t) <=> \A n \in 1 .. k : n \in 1 .. Len(t)
  <2>1. CASE k = 0
    BY <1>1, <2>1
  <2>2. CASE k # 0
    <3>1. k \in 1 .. k
      BY <1>1, <2>2
    <3> QED
      BY <1>1, <3>1
  <2> QED
    BY <2>1, <2>2
<1>5. ASSUME k <= Len(t)
      PROVE  SubSeq(t, 1, k) = s <=> \A n \in 1 .. k : s[n] = t[n]
  <2>1. \A n \in 1 .. k : t[n] \in T
    BY <1>1, <1>5, ElementOfSeq
  <2>2. /\ SubSeq(t, 1, k) \in Seq(T)
        /\ Len(SubSeq(t, 1, k)) = k
        /\ \A n \in 1 .. k : SubSeq(t, 1, k)[n] = t[n]
    <3>1. /\ SubSeq(t, 1, k) \in Seq(T)
          /\ Len(SubSeq(t, 1, k)) = IF 1 <= k THEN k - 1 + 1 ELSE 0
          /\ \A n \in 1 .. k - 1 + 1 : SubSeq(t, 1, k)[n] = t[1 + n - 1]
      BY <1>1, <2>1, SubSeqProperties
    <3> QED
      BY <1>1, <3>1
  <2>3. ASSUME \A n \in 1 .. k : s[n] = t[n]
        PROVE  SubSeq(t, 1, k) = s
    BY <2>2, <2>3, SeqEqual
  <2> QED
    BY <2>2, <2>3
<1> QED
  BY <1>1, <1>3, <1>4, <1>5

LEMMA SearchFindsExpected ==
    ASSUME NEW block \in Seq(Receipt), NEW l \in Listener
    PROVE  SearchEvents(block, l) =
                Kept(Positions(block), {p \in Range(Positions(block)) :
                    /\ LogAt(block, p).contractAddr = l.contractAddr
                    /\ IsPrefix(l.topics, LogAt(block, p).topics)})
<1>1. l.topics \in Seq(DOMAIN Hash)
  BY ListenerAssumption
<1>2. ASSUME NEW p \in Range(Positions(block))
      PROVE  IsEventEmitted(LogAt(block, p), l)
                <=> /\ LogAt(block, p).contractAddr = l.contractAddr
                    /\ IsPrefix(l.topics, LogAt(block, p).topics)
  <2>1. p \in Place(block)
    BY PositionsArePlaces, RangeOfSeq
  <2>2. LogAt(block, p).topics \in Seq(DOMAIN Hash)
    BY <2>1, LogsAreLogs DEF Log
  <2> QED
    BY <1>1, <2>2, PrefixIsPointwise DEF IsEventEmitted
<1>3. {p \in Range(Positions(block)) : IsEventEmitted(LogAt(block, p), l)} =
      {p \in Range(Positions(block)) :
            /\ LogAt(block, p).contractAddr = l.contractAddr
            /\ IsPrefix(l.topics, LogAt(block, p).topics)}
  BY <1>2
<1> QED
  BY <1>3 DEF SearchEvents

\* The bit that an item sets is the bit that CheckBloomBits reads.
IsSameBit(a, c) ==
    /\ ByteIndex(256 * a + c) \in 0 .. 255
    /\ c % 8 \in 0 .. 7
    /\ 8 * (255 - ByteIndex(256 * a + c)) + (c % 8) = (256 * a + c) % 2048

LEMMA SameBit ==
    ASSUME NEW a \in 0 .. 255, NEW c \in 0 .. 255
    PROVE  IsSameBit(a, c)
<1> DEFINE number == (256 * a + c) % 2048
<1>1. number \in 0 .. 2047
  OBVIOUS
<1>2. number % 8 = c % 8
  OBVIOUS
<1>3. number = 8 * (number \div 8) + (number % 8)
  BY <1>1
<1>4. number \div 8 \in 0 .. 255
  BY <1>1
<1>5. ByteIndex(256 * a + c) = 255 - number \div 8
  BY <1>4 DEF ByteIndex, bloomBitSize, bloomByteSize
<1> HIDE DEF number
<1>6. c % 8 \in 0 .. 7
  OBVIOUS
<1> QED
  BY <1>1, <1>2, <1>3, <1>4, <1>5, <1>6 DEF number, IsSameBit

\* EventManager.hpp:116: "By the nature of bloom filter, there is no false
\* negative".
LEMMA NoFalseNegatives ==
    ASSUME NEW block \in Seq(Receipt), NEW p \in Range(Positions(block)),
           NEW l \in Listener, IsEventEmitted(LogAt(block, p), l)
    PROVE  AreHashesInBloom(BloomOf(block), Hashes(l))
<1> DEFINE items == UNION {Items(LogAt(block, q)) : q \in Range(Positions(block))}
           bits == UNION {BitNumbers(item) : item \in items}
<1>1. /\ l.topics \in Seq(DOMAIN Hash) /\ l.contractAddr \in DOMAIN Hash
  BY ListenerAssumption
<1>2. LogAt(block, p).contractAddr = l.contractAddr
      /\ \A n \in DOMAIN l.topics : n \in DOMAIN LogAt(block, p).topics
                                    /\ l.topics[n] = LogAt(block, p).topics[n]
  BY DEF IsEventEmitted
<1>3. Items(l) \subseteq Items(LogAt(block, p))
  BY <1>2 DEF Items, Range
<1>4. Items(l) \subseteq items
  BY <1>3
<1>5. Items(l) \subseteq DOMAIN Hash
  BY <1>1, RangeOfSeq DEF Items
<1>6. BloomOf(block) = [i \in 0 .. 255 |-> {b \in 0 .. 7 : 8 * (255 - i) + b \in bits}]
  BY DEF BloomOf, bloomByteSize
<1> HIDE DEF items, bits
<1>7. ASSUME NEW item \in Items(l), NEW n \in {1, 3, 5}
      PROVE  Hash[item][n + 1] % 8 \in
                BloomOf(block)[ByteIndex(256 * Hash[item][n] + Hash[item][n + 1])]
  <2> DEFINE a == Hash[item][n]
             c == Hash[item][n + 1]
  <2>1. a \in 0 .. 255 /\ c \in 0 .. 255
    <3>1. Hash[item] \in [1 .. 6 -> 0 .. 255]
      BY <1>5, HashAssumption
    <3>2. n \in 1 .. 6 /\ n + 1 \in 1 .. 6
      OBVIOUS
    <3> QED
      BY <3>1, <3>2
  <2>2. (256 * a + c) % 2048 \in BitNumbers(item)
    BY DEF BitNumbers, bloomBitSize, bloomByteSize
  <2>3. BitNumbers(item) \subseteq bits
    BY <1>4 DEF bits
  <2> HIDE DEF a, c
  <2> DEFINE x == ByteIndex(256 * a + c)
             y == c % 8
  <2>4. x \in 0 .. 255 /\ y \in 0 .. 7 /\ 8 * (255 - x) + y \in bits
    <3>1. IsSameBit(a, c)
      BY <2>1, SameBit
    <3>2. (256 * a + c) % 2048 \in bits
      BY <2>2, <2>3
    <3> QED
      BY <3>1, <3>2 DEF IsSameBit
  <2> HIDE DEF x, y
  <2>5. y \in BloomOf(block)[x]
    <3>1. BloomOf(block)[x] = {b \in 0 .. 7 : 8 * (255 - x) + b \in bits}
      BY <1>6, <2>4
    <3> QED
      BY <2>4, <3>1
  <2> QED
    BY <2>5 DEF a, c, x, y
<1>8. \A item \in Items(l) : CheckBloomBits(BloomOf(block), Hash[item])
  BY <1>7 DEF CheckBloomBits
<1> QED
  BY <1>8 DEF AreHashesInBloom, Hashes

-----------------------------------------------------------------------------
(* The inductive invariant.                                                 *)

SearchTypeOK ==
    /\ eventDescMap \subseteq Listener /\ IsFiniteSet(eventDescMap)
    /\ registered \subseteq Listener
    /\ receipts \in Seq(Receipt)
    /\ calls \in [Listener -> Seq(Place(receipts))]

\* Each listener with calls to be made has one plan, which is not empty.
IsPlan(plans) ==
    /\ plans \in Seq(Listener \X Seq(Place(receipts)))
    /\ \A m, n \in 1 .. Len(plans) : plans[m][1] = plans[n][1] => m = n
    /\ \A n \in 1 .. Len(plans) : plans[n][2] # <<>>

\* The plan of a listener is what is missing from its calls.
Completes(plans, l) ==
    /\ \A n \in 1 .. Len(plans) : plans[n][1] = l =>
        plans[n][2] = SubSeq(Expected(l), Len(calls[l]) + 1, Len(Expected(l)))
    /\ (\A n \in 1 .. Len(plans) : plans[n][1] # l)
        => Len(calls[l]) = Len(Expected(l))

\* The calls made are the first ones of those expected.
CallsBegin(l) ==
    /\ Len(calls[l]) <= Len(Expected(l))
    /\ calls[l] = SubSeq(Expected(l), 1, Len(calls[l]))

CallsInv ==
    /\ \A l \in Listener : CallsBegin(l)
    /\ outcome = "returned" =>
        \A l \in Listener : Len(calls[l]) = Len(Expected(l))
    /\ outcome = "calling" =>
        /\ callbackPlans # <<>>
        /\ IsPlan(callbackPlans)
        /\ \A l \in Listener : Completes(callbackPlans, l)

IInv == SearchTypeOK /\ CallsInv

LEMMA BlockIsSeq ==
    ASSUME NEW block \in Block
    PROVE  block \in Seq(Receipt)
<1>1. PICK m \in 0 .. MaxReceipts : block \in [1 .. m -> Receipt]
  BY DEF Block, BoundedSeq, SeqOf
<1>2. m \in Nat
  BY <1>1, MaxReceiptsAssumption
<1> QED
  BY <1>1, <1>2

LEMMA SearchType ==
    ASSUME NEW block \in Seq(Receipt), NEW l
    PROVE  /\ SearchEvents(block, l) \in Seq(Place(block))
           /\ SearchEvents(block, l) # <<>> =>
                \E p \in Range(Positions(block)) : IsEventEmitted(LogAt(block, p), l)
<1> DEFINE fitting == {p \in Range(Positions(block)) : IsEventEmitted(LogAt(block, p), l)}
           R == {p \in Range(Positions(block)) : p \in fitting}
<1>1. Positions(block) \in Seq(Place(block))
  BY PositionsArePlaces
<1>2. SearchEvents(block, l) = Kept(Positions(block), fitting)
  BY DEF SearchEvents
<1>3. R \subseteq Place(block)
  BY <1>1, RangeOfSeq
<1> HIDE DEF fitting
<1>4. SearchEvents(block, l) \in Seq(R)
  BY <1>1, <1>2, KeptFits
<1>5. SearchEvents(block, l) \in Seq(Place(block))
  BY <1>3, <1>4, SeqMonotonic
<1>6. ASSUME SearchEvents(block, l) # <<>>
      PROVE  \E p \in Range(Positions(block)) : IsEventEmitted(LogAt(block, p), l)
  <2>1. 1 \in 1 .. Len(SearchEvents(block, l))
    BY <1>4, <1>6, EmptySeq
  <2>2. SearchEvents(block, l)[1] \in R
    BY <1>4, <2>1, ElementOfSeq
  <2> QED
    BY <2>2 DEF fitting
<1> QED
  BY <1>5, <1>6

ReceiptsOK == receipts \in Seq(Receipt)

\* What is expected, as the search finds it.
ExpectedIsFound ==
    \A l \in Listener :
        /\ Expected(l) \in Seq(Place(receipts))
        /\ Len(Expected(l)) \in Nat
        /\ l \in registered => Expected(l) = SearchEvents(receipts, l)
        /\ l \notin registered => Expected(l) = <<>>

LEMMA ExpectedType == ReceiptsOK => ExpectedIsFound
<1> SUFFICES ASSUME receipts \in Seq(Receipt), NEW l \in Listener
             PROVE  /\ Expected(l) \in Seq(Place(receipts))
                    /\ Len(Expected(l)) \in Nat
                    /\ l \in registered => Expected(l) = SearchEvents(receipts, l)
                    /\ l \notin registered => Expected(l) = <<>>
  BY DEF ReceiptsOK, ExpectedIsFound
<1>1. l \in registered => Expected(l) = SearchEvents(receipts, l)
  BY SearchFindsExpected DEF Expected
<1>2. l \notin registered => Expected(l) = <<>>
  BY DEF Expected
<1>3. SearchEvents(receipts, l) \in Seq(Place(receipts))
  BY SearchType
<1>4. Expected(l) \in Seq(Place(receipts))
  BY <1>1, <1>2, <1>3, EmptySeq
<1> QED
  BY <1>1, <1>2, <1>4, LenProperties

\* Before the first call.
NothingCalled ==
    /\ calls \in [Listener -> Seq(Place(receipts))]
    /\ \A l \in Listener : calls[l] = <<>> /\ Len(calls[l]) = 0 /\ CallsBegin(l)

LEMMA NoCallsBegin == ReceiptsOK /\ calls = NoCalls => NothingCalled
<1> SUFFICES ASSUME ReceiptsOK, calls = NoCalls
             PROVE  NothingCalled
  OBVIOUS
<1>1. \A l \in Listener : calls[l] = <<>>
  BY DEF NoCalls
<1>2. <<>> \in Seq(Place(receipts)) /\ Len(<<>>) = 0
  BY EmptySeq
<1>3. calls \in [Listener -> Seq(Place(receipts))]
  BY <1>1, <1>2 DEF NoCalls
<1>4. ASSUME NEW l \in Listener
      PROVE  Len(calls[l]) = 0 /\ CallsBegin(l)
  <2>1. Len(Expected(l)) \in Nat
    BY ExpectedType DEF ExpectedIsFound
  <2>2. SubSeq(Expected(l), 1, 0) = <<>>
    BY SubSeqEmpty
  <2>3. calls[l] = <<>> /\ Len(calls[l]) = 0
    BY <1>1, <1>2
  <2>4. 0 <= Len(Expected(l))
    BY <2>1
  <2> QED
    BY <2>2, <2>3, <2>4 DEF CallsBegin
<1> QED
  BY <1>1, <1>3, <1>4 DEF NothingCalled

LEMMA InitInv ==
    ASSUME Init
    PROVE  IInv
<1>1. ReceiptsOK /\ calls = NoCalls
  BY EmptySeq DEF Init, ReceiptsOK
<1>2. NothingCalled
  BY <1>1, NoCallsBegin
<1> QED
  BY <1>1, <1>2, FS_EmptySet
  DEF Init, IInv, SearchTypeOK, CallsInv, ReceiptsOK, NothingCalled

\* A search that makes no call plan: it ends with nothing called.
LEMMA SearchBegins ==
    ASSUME IInv, NEW block \in Block, Search(block)
    PROVE  /\ receipts' = block /\ block \in Seq(Receipt)
           /\ registered' = eventDescMap /\ eventDescMap' = eventDescMap
           /\ SearchTypeOK'
           /\ NothingCalled'
           /\ ExpectedIsFound'
<1>1. /\ receipts' = block
      /\ registered' = eventDescMap
      /\ calls' = NoCalls
      /\ eventDescMap' = eventDescMap
  BY DEF Search
<1>2. block \in Seq(Receipt)
  BY BlockIsSeq
<1>3. ReceiptsOK'
  BY <1>1, <1>2 DEF ReceiptsOK
<1>4. (calls = NoCalls)'
  BY <1>1 DEF NoCalls
<1>5. NothingCalled'
  BY <1>3, <1>4, NoCallsBegin, PTL
<1>6. ExpectedIsFound'
  BY <1>3, ExpectedType, PTL
<1>7. SearchTypeOK'
  BY <1>1, <1>3, <1>5 DEF IInv, SearchTypeOK, ReceiptsOK, NothingCalled
<1> QED
  BY <1>1, <1>2, <1>5, <1>6, <1>7

\* Whoever is not found by its hashes expects nothing.
LEMMA OnlyBloomedExpect ==
    ASSUME IInv, NEW block \in Block, Search(block),
           NEW l \in Listener
    PROVE  /\ l \in BloomEventDesc(block) =>
                Expected(l)' = SearchEvents(block, l)
           /\ l \notin BloomEventDesc(block) => Expected(l)' = <<>>
<1>1. /\ receipts' = block /\ block \in Seq(Receipt)
      /\ registered' = eventDescMap
      /\ ExpectedIsFound'
  BY SearchBegins
<1>2. l \in eventDescMap => Expected(l)' = SearchEvents(block, l)
  BY <1>1 DEF ExpectedIsFound
<1>3. l \notin eventDescMap => Expected(l)' = <<>>
  BY <1>1 DEF ExpectedIsFound
<1>4. ASSUME l \in eventDescMap, l \notin BloomEventDesc(block)
      PROVE  SearchEvents(block, l) = <<>>
  <2>1. ~ AreHashesInBloom(BloomOf(block), Hashes(l))
    BY <1>4 DEF BloomEventDesc
  <2>2. ~ \E p \in Range(Positions(block)) : IsEventEmitted(LogAt(block, p), l)
    BY <1>1, <2>1, NoFalseNegatives
  <2> QED
    BY <1>1, <2>2, SearchType
<1> QED
  BY <1>2, <1>3, <1>4 DEF BloomEventDesc

LEMMA NoPlanInv ==
    ASSUME IInv, NEW block \in Block, NEW answer,
           \/ CheckFindsNoBloom(block)
           \/ CheckCannotParse(block, answer)
           \/ CheckFindsMismatch(block, answer)
    PROVE  IInv'
<1>1. Search(block)
  BY DEF CheckFindsNoBloom, CheckCannotParse, CheckFindsMismatch
<1>2. /\ SearchTypeOK'
      /\ NothingCalled'
  BY <1>1, SearchBegins
<1>3. outcome' = "returned" => BloomEventDesc(block) = {}
  BY DEF CheckFindsNoBloom, CheckCannotParse, CheckFindsMismatch
<1>4. outcome' # "calling"
  BY DEF CheckFindsNoBloom, CheckCannotParse, CheckFindsMismatch
<1>5. ASSUME outcome' = "returned", NEW l \in Listener
      PROVE  Len(calls'[l]) = Len(Expected(l)')
  <2>1. Expected(l)' = <<>>
    BY <1>1, <1>3, <1>5, OnlyBloomedExpect
  <2>2. calls'[l] = <<>>
    BY <1>2 DEF NothingCalled
  <2> QED
    BY <2>1, <2>2
<1>6. CallsInv'
  BY <1>2, <1>4, <1>5 DEF CallsInv, NothingCalled
<1> QED
  BY <1>2, <1>6 DEF IInv

\* The order of the listeners names each of them once.
LEMMA OrderIsComplete ==
    ASSUME NEW S, IsFiniteSet(S), NEW order \in SetToSeqs(S)
    PROVE  /\ Cardinality(S) \in Nat
           /\ order \in [1 .. Cardinality(S) -> S]
           /\ \A m, n \in 1 .. Cardinality(S) : order[m] = order[n] => m = n
           /\ \A x \in S : \E n \in 1 .. Cardinality(S) : order[n] = x
<1> DEFINE D == 1 .. Cardinality(S)
<1>1. order \in [D -> S] /\ \A m, n \in D : m # n => order[m] # order[n]
  BY DEF SetToSeqs
<1>2. Cardinality(S) \in Nat
  BY FS_CardinalityType
<1>3. IsFiniteSet(D) /\ Cardinality(D) = Cardinality(S)
  BY <1>2, FS_Interval
<1>4. order \in Injection(D, S)
  BY <1>1 DEF Injection, IsInjective
<1>5. order \in Surjection(D, S)
  BY <1>3, <1>4, FS_Injection
<1>6. \A x \in S : \E n \in D : order[n] = x
  BY <1>5 DEF Surjection
<1> QED
  BY <1>1, <1>2, <1>6

LEMMA PlansCallsInv ==
    ASSUME IInv, NEW block \in Block, NEW answer, CheckPlansCalls(block, answer)
    PROVE  IInv'
<1> DEFINE bloomed == BloomEventDesc(block)
           found == {l \in bloomed : SearchEvents(block, l) # <<>>}
           m == Cardinality(found)
<1>1. /\ Search(block)
      /\ answer = block
      /\ callbackPlans' \in GenCallbackPlan(block, bloomed)
      /\ outcome' = IF callbackPlans' = <<>> THEN "returned" ELSE "calling"
  BY DEF CheckPlansCalls, RootMatches
<1>2. /\ receipts' = block /\ block \in Seq(Receipt)
      /\ SearchTypeOK'
      /\ NothingCalled'
      /\ ExpectedIsFound'
  BY <1>1, SearchBegins
<1>3. bloomed \subseteq eventDescMap
  BY DEF BloomEventDesc
<1>4. found \subseteq Listener /\ IsFiniteSet(found)
  BY <1>3, FS_Subset DEF IInv, SearchTypeOK
<1>5. PICK order \in SetToSeqs(found) :
            callbackPlans' = [n \in DOMAIN order |->
                                <<order[n], SearchEvents(block, order[n])>>]
  BY <1>1 DEF GenCallbackPlan
<1>6. ASSUME NEW l \in Listener
      PROVE  Expected(l)' = IF l \in found THEN SearchEvents(block, l) ELSE <<>>
  BY <1>1, OnlyBloomedExpect
<1> HIDE DEF found
<1>7. /\ m \in Nat
      /\ order \in [1 .. m -> found]
      /\ \A i, n \in 1 .. m : order[i] = order[n] => i = n
      /\ \A x \in found : \E n \in 1 .. m : order[n] = x
  BY <1>4, OrderIsComplete
<1> HIDE DEF m, bloomed
<1>8. \A n \in 1 .. m : order[n] \in Listener /\ order[n] \in found
  BY <1>4, <1>7
<1>9. /\ callbackPlans' \in Seq(Listener \X Seq(Place(block)))
      /\ Len(callbackPlans') = m
      /\ \A n \in 1 .. m : /\ callbackPlans'[n][1] = order[n]
                           /\ callbackPlans'[n][2] = SearchEvents(block, order[n])
  <2>1. callbackPlans' = [n \in 1 .. m |-> <<order[n], SearchEvents(block, order[n])>>]
    BY <1>5, <1>7
  <2>2. \A n \in 1 .. m : <<order[n], SearchEvents(block, order[n])>>
                            \in Listener \X Seq(Place(block))
    BY <1>2, <1>8, SearchType
  <2>3. callbackPlans' \in [1 .. m -> Listener \X Seq(Place(block))]
    BY <2>1, <2>2
  <2>4. callbackPlans' \in Seq(Listener \X Seq(Place(block)))
    BY <1>7, <2>3
  <2>5. Len(callbackPlans') = m
    BY <1>7, <2>3
  <2> QED
    BY <2>1, <2>4, <2>5
<1>10. \A n \in 1 .. m : SearchEvents(block, order[n]) # <<>>
  BY <1>8 DEF found
<1>11. IsPlan(callbackPlans)'
  BY <1>2, <1>7, <1>9, <1>10 DEF IsPlan
<1>12. ASSUME NEW l \in Listener
       PROVE  Completes(callbackPlans, l)'
  <2>1. Len(calls'[l]) = 0
    BY <1>2 DEF NothingCalled
  <2>2. Expected(l)' \in Seq(Place(block))
    BY <1>2 DEF ExpectedIsFound
  <2>3. SubSeq(Expected(l)', 0 + 1, Len(Expected(l)')) = Expected(l)'
    BY <2>2, SubSeqFull
  <2>4. \A n \in 1 .. m : order[n] = l =>
            SearchEvents(block, order[n]) = Expected(l)'
    BY <1>6, <1>8
  <2>5. (\A n \in 1 .. m : order[n] # l) => Len(Expected(l)') = 0
    <3>1. (\A n \in 1 .. m : order[n] # l) => Expected(l)' = <<>>
      BY <1>6, <1>7
    <3> QED
      BY <3>1, EmptySeq
  <2> QED
    BY <1>9, <2>1, <2>3, <2>4, <2>5 DEF Completes
<1>13. callbackPlans' = <<>> =>
            \A l \in Listener : Len(calls'[l]) = Len(Expected(l)')
  <2> SUFFICES ASSUME callbackPlans' = <<>>, NEW l \in Listener
               PROVE  Len(calls'[l]) = Len(Expected(l)')
    OBVIOUS
  <2>1. Len(callbackPlans') = 0
    BY EmptySeq
  <2>2. \A n \in 1 .. Len(callbackPlans') : callbackPlans'[n][1] # l
    BY <2>1
  <2> QED
    BY <1>12, <2>2 DEF Completes
<1>14. CallsInv'
  BY <1>1, <1>2, <1>11, <1>12, <1>13 DEF CallsInv, NothingCalled
<1> QED
  BY <1>2, <1>14 DEF IInv

\* One more call takes the first log that is missing.
LEMMA CalledMovesOn ==
    ASSUME IInv, Called
    PROVE  LET l == callbackPlans[1][1]
               k == Len(calls[l])
               E == Expected(l)
           IN  /\ l \in Listener /\ 1 \in 1 .. Len(callbackPlans)
               /\ k \in Nat /\ k + 1 <= Len(E)
               /\ calls' = [calls EXCEPT ![l] = SubSeq(E, 1, k + 1)]
               /\ SubSeq(E, 1, k + 1) \in Seq(Place(receipts))
               /\ Len(SubSeq(E, 1, k + 1)) = k + 1
               /\ Tail(callbackPlans[1][2]) = SubSeq(E, k + 2, Len(E))
               /\ SubSeq(E, k + 2, Len(E)) \in Seq(Place(receipts))
               /\ SubSeq(E, k + 2, Len(E)) = <<>> <=> k + 1 = Len(E)
<1> DEFINE l == callbackPlans[1][1]
           k == Len(calls[l])
           E == Expected(l)
           P == Place(receipts)
<1>1. /\ callbackPlans # <<>> /\ IsPlan(callbackPlans)
      /\ \A x \in Listener : Completes(callbackPlans, x)
      /\ \A x \in Listener : CallsBegin(x)
  BY DEF IInv, CallsInv, Called
<1>2. callbackPlans \in Seq(Listener \X Seq(P))
  BY <1>1 DEF IsPlan
<1>3. 1 \in 1 .. Len(callbackPlans)
  BY <1>1, <1>2, EmptySeq
<1>4. callbackPlans[1] \in Listener \X Seq(P)
  BY <1>2, <1>3, ElementOfSeq
<1>5. l \in Listener /\ callbackPlans[1][2] \in Seq(P) /\ callbackPlans[1][2] # <<>>
  BY <1>1, <1>3, <1>4 DEF IsPlan
<1>6. /\ E \in Seq(P) /\ Len(E) \in Nat
      /\ calls[l] \in Seq(P) /\ k \in Nat
  <2>1. ExpectedIsFound
    BY ExpectedType DEF IInv, SearchTypeOK, ReceiptsOK
  <2>2. calls[l] \in Seq(P)
    BY <1>5 DEF IInv, SearchTypeOK
  <2> QED
    BY <1>5, <2>1, <2>2, LenProperties DEF ExpectedIsFound
<1>7. /\ k <= Len(E)
      /\ calls[l] = SubSeq(E, 1, k)
      /\ callbackPlans[1][2] = SubSeq(E, k + 1, Len(E))
  <2>1. CallsBegin(l) /\ Completes(callbackPlans, l)
    BY <1>1, <1>5
  <2>2. callbackPlans[1][2] = SubSeq(E, k + 1, Len(E))
    BY <1>3, <2>1 DEF Completes
  <2> QED
    BY <2>1, <2>2 DEF CallsBegin
<1>8. calls \in [Listener -> Seq(P)]
  BY DEF IInv, SearchTypeOK
<1>9. calls' = [calls EXCEPT ![l] = Append(calls[l], callbackPlans[1][2][1])]
  BY DEF Called
<1> HIDE DEF l, k, E, P
<1>10. k + 1 <= Len(E)
  <2>1. SUFFICES ASSUME k = Len(E)
                 PROVE  FALSE
    BY <1>6, <1>7
  <2>2. SubSeq(E, k + 1, Len(E)) = <<>>
    BY <1>6, <2>1, SubSeqEmpty
  <2> QED
    BY <1>5, <1>7, <2>2
<1>11. k + 1 \in 1 .. Len(E) /\ Len(E) \in k + 1 .. Len(E) /\ 1 \in 1 .. Len(E)
       /\ k + 1 \in 1 .. k + 1
  BY <1>6, <1>10
<1>12. /\ Head(SubSeq(E, k + 1, Len(E))) = E[k + 1]
       /\ Tail(SubSeq(E, k + 1, Len(E))) = SubSeq(E, k + 1 + 1, Len(E))
  BY <1>6, <1>11, HeadTailOfSubSeq
<1>13. callbackPlans[1][2][1] = E[k + 1]
  BY <1>5, <1>7, <1>12
<1>14. E[k + 1] \in P
  BY <1>6, <1>11, ElementOfSeq
<1>15. SubSeq(E, 1, k + 1) = Append(SubSeq(E, 1, k), E[k + 1])
  <2>1. SubSeq(E, 1, k + 1) = SubSeq(E, 1, k + 1 - 1) \o <<E[k + 1]>>
    BY <1>6, <1>11, SubSeqRecursiveSecond
  <2>2. k + 1 - 1 = k
    BY <1>6
  <2>3. SubSeq(E, 1, k) \in Seq(P)
    BY <1>6, <1>7
  <2>4. Append(SubSeq(E, 1, k), E[k + 1]) = SubSeq(E, 1, k) \o <<E[k + 1]>>
    BY <1>14, <2>3, AppendIsConcat
  <2> QED
    BY <2>1, <2>2, <2>4
<1>16. calls' = [calls EXCEPT ![l] = SubSeq(E, 1, k + 1)]
  BY <1>7, <1>9, <1>13, <1>15
<1>17. /\ SubSeq(E, 1, k + 1) \in Seq(P)
       /\ Len(SubSeq(E, 1, k + 1)) = k + 1
  <2>1. SubSeq(E, 1, k) \in Seq(P) /\ Len(SubSeq(E, 1, k)) = k
    <3>1. k = Len(calls[l])
      BY DEF k
    <3> QED
      BY <1>6, <1>7, <3>1
  <2> QED
    BY <1>14, <1>15, <2>1, AppendProperties
<1>18. k + 1 + 1 = k + 2
  BY <1>6
<1>19. Tail(callbackPlans[1][2]) = SubSeq(E, k + 2, Len(E))
  BY <1>7, <1>12, <1>18
<1>20. /\ SubSeq(E, k + 2, Len(E)) \in Seq(P)
       /\ SubSeq(E, k + 2, Len(E)) = <<>> <=> k + 1 = Len(E)
  <2>1. k + 2 \in Int /\ Len(E) \in Int /\ \A i \in k + 2 .. Len(E) : E[i] \in P
    BY <1>6, ElementOfSeq
  <2>2. /\ SubSeq(E, k + 2, Len(E)) \in Seq(P)
        /\ Len(SubSeq(E, k + 2, Len(E))) =
                IF k + 2 <= Len(E) THEN Len(E) - (k + 2) + 1 ELSE 0
    BY <2>1, SubSeqProperties
  <2>3. Len(SubSeq(E, k + 2, Len(E))) = 0 <=> k + 1 = Len(E)
    BY <1>6, <1>10, <2>2
  <2>4. SubSeq(E, k + 2, Len(E)) = <<>> <=> Len(SubSeq(E, k + 2, Len(E))) = 0
    BY <2>2, EmptySeq
  <2> QED
    BY <2>2, <2>3, <2>4
<1> QED
  BY <1>3, <1>5, <1>6, <1>10, <1>16, <1>17, <1>19, <1>20 DEF l, k, E, P

\* What stays true whether the callback returns or throws.
LEMMA CalledInv ==
    ASSUME IInv, Called
    PROVE  /\ SearchTypeOK'
           /\ \A x \in Listener : CallsBegin(x)'
           /\ UNCHANGED receipts
           /\ \A x : Expected(x)' = Expected(x)
<1> DEFINE l == callbackPlans[1][1]
           k == Len(calls[l])
           E == Expected(l)
           P == Place(receipts)
           longer == SubSeq(E, 1, k + 1)
<1>1. /\ l \in Listener
      /\ k \in Nat /\ k + 1 <= Len(E)
      /\ calls' = [calls EXCEPT ![l] = longer]
      /\ longer \in Seq(P)
      /\ Len(longer) = k + 1
  BY CalledMovesOn
<1>2. UNCHANGED <<eventDescMap, receipts, registered>>
  BY DEF Called
<1>3. \A x : Expected(x)' = Expected(x)
  BY <1>2 DEF Expected
<1>4. calls \in [Listener -> Seq(P)]
  BY DEF IInv, SearchTypeOK
<1> HIDE DEF l, k, longer, P
<1>5. calls' \in [Listener -> Seq(P)]
  BY <1>1, <1>4
<1>6. SearchTypeOK'
  BY <1>2, <1>5 DEF IInv, SearchTypeOK, P
<1>7. ASSUME NEW x \in Listener
      PROVE  CallsBegin(x)'
  <2>1. CASE x = l
    <3>1. calls'[x] = longer
      BY <1>1, <1>4, <2>1
    <3>2. Len(calls'[x]) = k + 1
      BY <1>1, <3>1
    <3>3. Expected(x)' = E
      BY <1>3, <2>1
    <3> QED
      BY <1>1, <3>1, <3>2, <3>3 DEF CallsBegin, longer
  <2>2. CASE x # l
    <3>1. calls'[x] = calls[x]
      BY <1>1, <1>4, <2>2
    <3>2. CallsBegin(x)
      BY DEF IInv, CallsInv
    <3> QED
      BY <1>3, <3>1, <3>2 DEF CallsBegin
  <2> QED
    BY <2>1, <2>2
<1> QED
  BY <1>2, <1>3, <1>6, <1>7

LEMMA CallThrowsInv ==
    ASSUME IInv, CallThrows
    PROVE  IInv'
<1>1. Called /\ outcome' = "thrown"
  BY DEF CallThrows
<1>2. SearchTypeOK' /\ \A x \in Listener : CallsBegin(x)'
  BY <1>1, CalledInv
<1> QED
  BY <1>1, <1>2 DEF IInv, CallsInv

\* The plans left are complete again.
LEMMA NextCallsComplete ==
    ASSUME IInv, Called, callbackPlans' = NextCalls
    PROVE  /\ IsPlan(callbackPlans)'
           /\ \A x \in Listener : Completes(callbackPlans, x)'
<1>0. PICK l \in Listener : l = callbackPlans[1][1]
  BY CalledMovesOn
<1> DEFINE k == Len(calls[l])
           E == Expected(l)
           P == Place(receipts)
           rest == SubSeq(E, k + 2, Len(E))
           n == Len(callbackPlans)
<1>1. /\ 1 \in 1 .. n
      /\ k \in Nat /\ k + 1 <= Len(E)
      /\ calls' = [calls EXCEPT ![l] = SubSeq(E, 1, k + 1)]
      /\ Len(SubSeq(E, 1, k + 1)) = k + 1
      /\ Tail(callbackPlans[1][2]) = rest
      /\ rest \in Seq(P)
      /\ rest = <<>> <=> k + 1 = Len(E)
  BY <1>0, CalledMovesOn
<1>2. /\ IsPlan(callbackPlans)
      /\ \A x \in Listener : Completes(callbackPlans, x)
      /\ callbackPlans # <<>>
  BY DEF IInv, CallsInv, Called
<1>3. /\ callbackPlans \in Seq(Listener \X Seq(P)) /\ n \in Nat
      /\ \A i, j \in 1 .. n : callbackPlans[i][1] = callbackPlans[j][1] => i = j
      /\ \A i \in 1 .. n : callbackPlans[i][2] # <<>>
  BY <1>2, LenProperties DEF IsPlan
<1>4. /\ callbackPlans' = IF rest = <<>> THEN Tail(callbackPlans)
                          ELSE [callbackPlans EXCEPT ![1] = <<l, rest>>]
  BY <1>0, <1>1 DEF NextCalls
<1>5. UNCHANGED receipts /\ \A x : Expected(x)' = Expected(x)
  BY CalledInv
<1>6. calls \in [Listener -> Seq(P)]
  BY DEF IInv, SearchTypeOK
<1>7. Len(calls'[l]) = k + 1 /\ \A x \in Listener : x # l => calls'[x] = calls[x]
  BY <1>1, <1>6
<1>8. \A x \in Listener : x # l =>
        /\ \A i \in 1 .. n : callbackPlans[i][1] = x =>
            callbackPlans[i][2] = SubSeq(Expected(x)', Len(calls'[x]) + 1, Len(Expected(x)'))
        /\ (\A i \in 1 .. n : callbackPlans[i][1] # x)
            => Len(calls'[x]) = Len(Expected(x)')
  BY <1>2, <1>5, <1>7 DEF Completes
<1>9. Place(receipts)' = P
  BY <1>5 DEF Place
<1>10. Expected(l)' = E
  BY <1>5
<1>11. k + 1 + 1 = k + 2
  BY <1>1
<1> HIDE DEF k, E, P, rest, n
<1>12. CASE rest = <<>>
  <2>1. callbackPlans' = Tail(callbackPlans)
    BY <1>4, <1>12
  <2>2. /\ callbackPlans' \in Seq(Listener \X Seq(P))
        /\ Len(callbackPlans') = n - 1
        /\ \A i \in 1 .. n - 1 : callbackPlans'[i] = callbackPlans[i + 1]
    BY <1>2, <1>3, <2>1, HeadTailProperties DEF n
  <2>3. \A i \in 1 .. n - 1 : i + 1 \in 1 .. n /\ i + 1 # 1
    BY <1>3
  <2>4. \A i \in 1 .. n : i = 1 \/ (i - 1 \in 1 .. n - 1 /\ i = (i - 1) + 1)
    BY <1>3
  <2>5. IsPlan(callbackPlans)'
    <3>1. \A i, j \in 1 .. n - 1 : callbackPlans'[i][1] = callbackPlans'[j][1] => i = j
      <4> SUFFICES ASSUME NEW i \in 1 .. n - 1, NEW j \in 1 .. n - 1,
                          callbackPlans[i + 1][1] = callbackPlans[j + 1][1]
                   PROVE  i = j
        BY <2>2
      <4>1. i + 1 = j + 1
        BY <1>3, <2>3
      <4> QED
        BY <1>3, <4>1
    <3>2. \A i \in 1 .. n - 1 : callbackPlans'[i][2] # <<>>
      BY <1>3, <2>2, <2>3
    <3> QED
      BY <1>9, <2>2, <3>1, <3>2 DEF IsPlan
  <2>6. \A i \in 1 .. n - 1 : callbackPlans'[i][1] # l
    BY <1>0, <1>1, <1>3, <2>2, <2>3
  <2>7. Completes(callbackPlans, l)'
    <3>1. Len(calls'[l]) = Len(Expected(l)')
      BY <1>1, <1>7, <1>10, <1>12
    <3>2. \A i \in 1 .. Len(callbackPlans') : callbackPlans'[i][1] # l
      BY <2>2, <2>6
    <3> QED
      BY <3>1, <3>2 DEF Completes
  <2>8. ASSUME NEW x \in Listener, x # l
        PROVE  Completes(callbackPlans, x)'
    <3>1. ASSUME NEW i \in 1 .. n - 1, callbackPlans'[i][1] = x
          PROVE  callbackPlans'[i][2] =
                    SubSeq(Expected(x)', Len(calls'[x]) + 1, Len(Expected(x)'))
      <4>1. i + 1 \in 1 .. n /\ callbackPlans[i + 1] = callbackPlans'[i]
        BY <2>2, <2>3
      <4> QED
        BY <1>8, <2>8, <3>1, <4>1
    <3>2. ASSUME \A i \in 1 .. n - 1 : callbackPlans'[i][1] # x
          PROVE  Len(calls'[x]) = Len(Expected(x)')
      <4>1. ASSUME NEW i \in 1 .. n
            PROVE  callbackPlans[i][1] # x
        <5>1. CASE i = 1
          BY <1>0, <2>8, <5>1
        <5>2. CASE i # 1
          <6>1. i - 1 \in 1 .. n - 1 /\ (i - 1) + 1 = i
            BY <2>4, <5>2
          <6>2. callbackPlans'[i - 1] = callbackPlans[i]
            BY <2>2, <6>1
          <6> QED
            BY <3>2, <6>1, <6>2
        <5> QED
          BY <5>1, <5>2
      <4> QED
        BY <1>8, <2>8, <4>1
    <3> QED
      BY <2>2, <3>1, <3>2 DEF Completes
  <2> QED
    BY <2>5, <2>7, <2>8
<1>13. CASE rest # <<>>
  <2>1. callbackPlans' = [callbackPlans EXCEPT ![1] = <<l, rest>>]
    BY <1>4, <1>13
  <2>2. /\ callbackPlans' \in Seq(Listener \X Seq(P))
        /\ Len(callbackPlans') = n
        /\ \A i \in 1 .. n : callbackPlans'[i] =
                IF i = 1 THEN <<l, rest>> ELSE callbackPlans[i]
    <3>1. <<l, rest>> \in Listener \X Seq(P)
      BY <1>1
    <3> QED
      BY <1>1, <1>3, <2>1, <3>1, ExceptSeq DEF n
  <2>3. \A i \in 1 .. n : /\ callbackPlans'[i][1] = callbackPlans[i][1]
                          /\ i = 1 => callbackPlans'[i][2] = rest
                          /\ i # 1 => callbackPlans'[i][2] = callbackPlans[i][2]
    BY <1>0, <2>2
  <2>4. \A i \in 1 .. n : callbackPlans[i][1] = l => i = 1
    BY <1>0, <1>1, <1>3
  <2>5. IsPlan(callbackPlans)'
    <3>1. \A i \in 1 .. n : callbackPlans'[i][2] # <<>>
      BY <1>3, <1>13, <2>3
    <3> QED
      BY <1>3, <1>9, <2>2, <2>3, <3>1 DEF IsPlan
  <2>6. Completes(callbackPlans, l)'
    <3>1. rest = SubSeq(Expected(l)', Len(calls'[l]) + 1, Len(Expected(l)'))
      <4>1. rest = SubSeq(E, k + 2, Len(E))
        BY DEF rest
      <4> QED
        BY <1>7, <1>10, <1>11, <4>1
    <3>2. callbackPlans'[1][1] = l
      BY <1>0, <1>1, <2>3
    <3> QED
      BY <1>1, <2>2, <2>3, <2>4, <3>1, <3>2 DEF Completes
  <2>7. ASSUME NEW x \in Listener, x # l
        PROVE  Completes(callbackPlans, x)'
    <3>1. \A i \in 1 .. n : callbackPlans'[i][1] = x =>
            callbackPlans'[i][2] = callbackPlans[i][2] /\ callbackPlans[i][1] = x
      BY <1>0, <2>3, <2>7
    <3>2. (\A i \in 1 .. n : callbackPlans'[i][1] # x)
            => \A i \in 1 .. n : callbackPlans[i][1] # x
      BY <2>3
    <3> QED
      BY <1>8, <2>2, <2>7, <3>1, <3>2 DEF Completes
  <2> QED
    BY <2>5, <2>6, <2>7
<1> QED
  BY <1>12, <1>13

LEMMA CallReturnsInv ==
    ASSUME IInv, CallReturns
    PROVE  IInv'
<1>1. /\ Called
      /\ callbackPlans' = NextCalls
      /\ outcome' = IF callbackPlans' = <<>> THEN "returned" ELSE "calling"
  BY DEF CallReturns
<1>2. SearchTypeOK' /\ \A x \in Listener : CallsBegin(x)'
  BY <1>1, CalledInv
<1>3. /\ IsPlan(callbackPlans)'
      /\ \A x \in Listener : Completes(callbackPlans, x)'
  BY <1>1, NextCallsComplete
<1>4. callbackPlans' = <<>> =>
            \A x \in Listener : Len(calls'[x]) = Len(Expected(x)')
  <2> SUFFICES ASSUME callbackPlans' = <<>>, NEW x \in Listener
               PROVE  Len(calls'[x]) = Len(Expected(x)')
    OBVIOUS
  <2>1. Len(callbackPlans') = 0
    BY EmptySeq
  <2>2. \A i \in 1 .. Len(callbackPlans') : callbackPlans'[i][1] # x
    BY <2>1
  <2> QED
    BY <1>3, <2>2 DEF Completes
<1>5. CallsInv'
  BY <1>1, <1>2, <1>3, <1>4 DEF CallsInv
<1> QED
  BY <1>2, <1>5 DEF IInv

\* The calls depend on no other variables than these.
LEMMA CallsUnchanged ==
    ASSUME CallsInv, UNCHANGED <<receipts, callbackPlans, outcome, registered, calls>>
    PROVE  CallsInv'
<1>1. Place(receipts)' = Place(receipts)
  BY DEF Place
<1>2. \A l : Expected(l)' = Expected(l)
  BY DEF Expected
<1>3. ASSUME NEW l \in Listener
      PROVE  CallsBegin(l)' <=> CallsBegin(l)
  BY <1>2 DEF CallsBegin
<1>4. ASSUME NEW l \in Listener
      PROVE  Completes(callbackPlans, l)' <=> Completes(callbackPlans, l)
  BY <1>2 DEF Completes
<1>5. IsPlan(callbackPlans)' <=> IsPlan(callbackPlans)
  BY <1>1 DEF IsPlan
<1> QED
  BY <1>2, <1>3, <1>4, <1>5 DEF CallsInv

\* Listeners that come and go do not disturb the calls under way.
LEMMA ListenersChangeInv ==
    ASSUME IInv, NEW l \in Listener, Listen(l) \/ Cancel(l)
    PROVE  IInv'
<1>1. UNCHANGED <<receipts, callbackPlans, outcome, registered, calls>>
  BY DEF Listen, Cancel
<1>2. eventDescMap \subseteq Listener /\ IsFiniteSet(eventDescMap)
  BY DEF IInv, SearchTypeOK
<1>3. eventDescMap' \subseteq Listener /\ IsFiniteSet(eventDescMap')
  <2>1. CASE Listen(l)
    <3>1. eventDescMap' = eventDescMap \cup {l}
      BY <2>1 DEF Listen
    <3> QED
      BY <1>2, <3>1, FS_AddElement
  <2>2. CASE Cancel(l)
    <3>1. eventDescMap' = eventDescMap \ {l}
      BY <2>2 DEF Cancel
    <3> QED
      BY <1>2, <3>1, FS_RemoveElement
  <2> QED
    BY <2>1, <2>2
<1>4. SearchTypeOK'
  BY <1>1, <1>3 DEF IInv, SearchTypeOK, Place
<1>5. CallsInv'
  BY <1>1, CallsUnchanged DEF IInv
<1> QED
  BY <1>4, <1>5 DEF IInv

LEMMA NextInv ==
    ASSUME IInv, [Next]_vars
    PROVE  IInv'
<1>1. ASSUME NEW l \in Listener, Listen(l) \/ Cancel(l)
      PROVE  IInv'
  BY <1>1, ListenersChangeInv
<1>2. ASSUME NEW block \in Block, CheckFindsNoBloom(block)
      PROVE  IInv'
  BY <1>2, NoPlanInv
<1>3. ASSUME NEW block \in Block, NEW answer,
             \/ CheckCannotParse(block, answer)
             \/ CheckFindsMismatch(block, answer)
      PROVE  IInv'
  BY <1>3, NoPlanInv
<1>4. ASSUME NEW block \in Block, NEW answer, CheckPlansCalls(block, answer)
      PROVE  IInv'
  BY <1>4, PlansCallsInv
<1>5. CASE CallReturns \/ CallThrows
  BY <1>5, CallReturnsInv, CallThrowsInv
<1>6. CASE UNCHANGED vars
  <2>1. SearchTypeOK'
    BY <1>6 DEF vars, IInv, SearchTypeOK, Place
  <2>2. CallsInv'
    BY <1>6, CallsUnchanged DEF vars, IInv
  <2> QED
    BY <2>1, <2>2 DEF IInv
<1> QED
  BY <1>1, <1>2, <1>3, <1>4, <1>5, <1>6 DEF Next

LEMMA Invariance == Spec => []IInv
<1>1. Init => IInv
  BY InitInv
<1>2. IInv /\ [Next]_vars => IInv'
  BY NextInv
<1> QED
  BY <1>1, <1>2, PTL DEF Spec

-----------------------------------------------------------------------------

\* EventManager::CheckEvents: whatever the host delivers, whenever listeners
\* come and go and wherever a callback throws, a listener has been called with
\* the first of the logs of the block that it asked for, in their order.
THEOREM OnlyEventsOfTheBlock == Spec => []CalledWithLogsOfBlock
<1>1. IInv => CalledWithLogsOfBlock
  <2> SUFFICES ASSUME IInv, NEW l \in Listener
               PROVE  IsPrefix(calls[l], Expected(l))
    BY DEF CalledWithLogsOfBlock
  <2>1. CallsBegin(l)
    BY DEF IInv, CallsInv
  <2>2. calls[l] \in Seq(Place(receipts))
    BY DEF IInv, SearchTypeOK
  <2>3. SubSeq(calls[l], 1, Len(calls[l])) = calls[l]
    BY <2>2, SubSeqFull
  <2> QED
    BY <2>1, <2>3 DEF CallsBegin, IsPrefix
<1> QED
  BY <1>1, Invariance, PTL

\* EventManager.hpp:132, "to ensure if the event is not found in the receipt,
\* it is really not there": when CheckEvents returns, everyone who was
\* listening has been called with all events of the block it asked for.
THEOREM NoEventIsMissed == Spec => []NothingIsMissed
<1>1. IInv => NothingIsMissed
  <2> SUFFICES ASSUME IInv, outcome = "returned", NEW l \in Listener
               PROVE  calls[l] = Expected(l)
    BY DEF NothingIsMissed
  <2>1. CallsBegin(l) /\ Len(calls[l]) = Len(Expected(l))
    BY DEF IInv, CallsInv
  <2>2. Expected(l) \in Seq(Place(receipts))
    BY ExpectedType DEF IInv, SearchTypeOK, ReceiptsOK, ExpectedIsFound
  <2>3. SubSeq(Expected(l), 1, Len(Expected(l))) = Expected(l)
    BY <2>2, SubSeqFull
  <2> QED
    BY <2>1, <2>3 DEF CallsBegin
<1> QED
  BY <1>1, Invariance, PTL
=============================================================================

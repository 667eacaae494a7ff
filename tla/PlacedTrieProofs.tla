-------------------------- MODULE PlacedTrieProofs ---------------------------
(***************************************************************************)
(* Theorems about PlacedTrie: for any keys, any values and any order of the *)
(* calls of Put, the trie is the one that Ethereum prescribes for its       *)
(* contents, and it is a map; and the keys of receipts are safe.            *)
(*                                                                          *)
(* Everything rests on the order of paths, "is a beginning of".  Of two     *)
(* beginnings of one path one is a beginning of the other (Comparable), and *)
(* two paths have a longest common one (CommonIsLongest).                   *)
(***************************************************************************)
EXTENDS PlacedTrie, SequenceTheorems, WellFoundedInduction, TLAPS

Path == Seq(Nat)

-----------------------------------------------------------------------------
(* The order of paths.                                                      *)

LEMMA PrefixByNibble ==
    ASSUME NEW p \in Path, NEW q \in Path
    PROVE  IsPrefix(p, q) <=> /\ Len(p) <= Len(q)
                              /\ \A i \in 1 .. Len(p) : p[i] = q[i]
<1>1. Len(p) \in Nat /\ Len(q) \in Nat
  BY DEF Path
<1>2. CASE Len(p) <= Len(q)
  <2>1. SubSeq(p, 1, Len(p)) = p
    BY DEF Path
  <2>2. SubSeq(q, 1, Len(p)) = [i \in 1 .. Len(p) |-> q[i]]
    BY <1>1, <1>2 DEF Path
  <2>3. p = [i \in 1 .. Len(p) |-> p[i]]
    BY DEF Path
  <2> QED
    BY <1>2, <2>1, <2>2, <2>3 DEF IsPrefix
<1>3. CASE ~(Len(p) <= Len(q))
  BY <1>3 DEF IsPrefix
<1> QED
  BY <1>2, <1>3

LEMMA PrefixReflexive == \A p \in Path : IsPrefix(p, p)
  BY PrefixByNibble DEF Path

LEMMA PrefixTransitive ==
    \A p, q, r \in Path : IsPrefix(p, q) /\ IsPrefix(q, r) => IsPrefix(p, r)
<1> SUFFICES ASSUME NEW p \in Path, NEW q \in Path, NEW r \in Path,
                    IsPrefix(p, q), IsPrefix(q, r)
             PROVE  IsPrefix(p, r)
  OBVIOUS
<1>1. Len(p) \in Nat /\ Len(q) \in Nat /\ Len(r) \in Nat
  BY DEF Path
<1>2. Len(p) <= Len(q) /\ \A i \in 1 .. Len(p) : p[i] = q[i]
  BY PrefixByNibble
<1>3. Len(q) <= Len(r) /\ \A i \in 1 .. Len(q) : q[i] = r[i]
  BY PrefixByNibble
<1>4. Len(p) <= Len(r) /\ \A i \in 1 .. Len(p) : p[i] = r[i]
  BY <1>1, <1>2, <1>3
<1> QED
  BY <1>4, PrefixByNibble

LEMMA PrefixIsShorter ==
    \A p, q \in Path :
        IsPrefix(p, q) => /\ Len(p) <= Len(q)
                          /\ p # q => Len(p) < Len(q)
<1> SUFFICES ASSUME NEW p \in Path, NEW q \in Path, IsPrefix(p, q)
             PROVE  Len(p) <= Len(q) /\ (p # q => Len(p) < Len(q))
  OBVIOUS
<1>1. Len(p) \in Nat /\ Len(q) \in Nat
  BY DEF Path
<1>2. Len(p) <= Len(q) /\ \A i \in 1 .. Len(p) : p[i] = q[i]
  BY PrefixByNibble
<1>3. ASSUME Len(p) = Len(q) PROVE p = q
  BY <1>2, <1>3, SeqEqual DEF Path
<1> QED
  BY <1>1, <1>2, <1>3

LEMMA PrefixAntisymmetric ==
    \A p, q \in Path : IsPrefix(p, q) /\ IsPrefix(q, p) => p = q
<1> SUFFICES ASSUME NEW p \in Path, NEW q \in Path,
                    IsPrefix(p, q), IsPrefix(q, p), p # q
             PROVE  FALSE
  OBVIOUS
<1>1. Len(p) \in Nat /\ Len(q) \in Nat
  BY DEF Path
<1> QED
  BY <1>1, PrefixIsShorter

\* Of two beginnings of one path the shorter one is a beginning of the other.
LEMMA Comparable ==
    \A p, q, r \in Path :
        IsPrefix(p, r) /\ IsPrefix(q, r) /\ Len(p) <= Len(q) => IsPrefix(p, q)
<1> SUFFICES ASSUME NEW p \in Path, NEW q \in Path, NEW r \in Path,
                    IsPrefix(p, r), IsPrefix(q, r), Len(p) <= Len(q)
             PROVE  IsPrefix(p, q)
  OBVIOUS
<1>1. Len(p) \in Nat /\ Len(q) \in Nat /\ Len(r) \in Nat
  BY DEF Path
<1>2. \A i \in 1 .. Len(p) : p[i] = r[i]
  BY PrefixByNibble
<1>3. \A i \in 1 .. Len(q) : q[i] = r[i]
  BY PrefixByNibble
<1>4. \A i \in 1 .. Len(p) : p[i] = q[i]
  BY <1>1, <1>2, <1>3
<1> QED
  BY <1>4, PrefixByNibble

LEMMA EmptyIsPrefix ==
    <<>> \in Path /\ \A p \in Path : IsPrefix(<<>>, p)
<1>1. <<>> \in Path /\ Len(<<>>) = 0
  BY DEF Path
<1>2. ASSUME NEW p \in Path PROVE IsPrefix(<<>>, p)
  <2>1. Len(p) \in Nat
    BY DEF Path
  <2> QED
    BY <1>1, <2>1, PrefixByNibble
<1> QED
  BY <1>1, <1>2

\* Cutting a path gives its beginning of that length.
LEMMA Cutting ==
    ASSUME NEW p \in Path, NEW n \in 0 .. Len(p)
    PROVE  /\ SubSeq(p, 1, n) \in Path
           /\ Len(SubSeq(p, 1, n)) = n
           /\ IsPrefix(SubSeq(p, 1, n), p)
           /\ \A i \in 1 .. n : SubSeq(p, 1, n)[i] = p[i]
<1>1. Len(p) \in Nat
  BY DEF Path
<1>2. SubSeq(p, 1, n) \in Path /\ Len(SubSeq(p, 1, n)) = n
      /\ \A i \in 1 .. n : SubSeq(p, 1, n)[i] = p[i]
  BY <1>1 DEF Path
<1> DEFINE c == SubSeq(p, 1, n)
<1>3. IsPrefix(c, p)
  <2>1. c \in Path /\ Len(c) <= Len(p) /\ \A i \in 1 .. Len(c) : c[i] = p[i]
    BY <1>1, <1>2
  <2> HIDE DEF c
  <2> QED
    BY <2>1, PrefixByNibble
<1> QED
  BY <1>2, <1>3

LEMMA LeastNatural ==
    ASSUME NEW S \in SUBSET Nat, S # {}
    PROVE  \E n \in S : \A m \in S : n <= m
<1>1. \E n \in S : \A m \in S : ~(<<m, n>> \in OpToRel(<, Nat))
  BY NatLessThanWellFounded, WFMin
<1>2. \A n, m \in Nat : <<m, n>> \in OpToRel(<, Nat) <=> m < n
  BY DEF OpToRel
<1>3. \A m \in S : m \in Nat
  OBVIOUS
<1>4. \E n \in S : \A m \in S : ~(m < n)
  BY <1>1, <1>2, <1>3, Zenon
<1> QED
  BY <1>3, <1>4

LEMMA MatchedLen ==
    ASSUME NEW p \in Path, NEW q \in Path
    PROVE  LET n == PrefixMatchedLen(p, q)
           IN  /\ n \in 0 .. Len(p) /\ n <= Len(q)
               /\ \A i \in 1 .. n : p[i] = q[i]
               /\ n < Len(p) /\ n < Len(q) => p[n + 1] # q[n + 1]
<1>1. Len(p) \in Nat /\ Len(q) \in Nat
  BY DEF Path
<1> DEFINE Parting == {n \in 0 .. Len(p) :
                        n < Len(p) /\ n < Len(q) => p[n + 1] # q[n + 1]}
<1>2. PICK n \in Parting : \A m \in Parting : n <= m
  <2>1. Parting \in SUBSET Nat /\ Len(p) \in Parting
    BY <1>1
  <2> HIDE DEF Parting
  <2> QED
    BY <2>1, LeastNatural
<1>3. \A i \in 1 .. n : i - 1 < Len(p) /\ i - 1 < Len(q) /\ p[i] = q[i]
  <2> TAKE i \in 1 .. n
  <2>1. i - 1 \in 0 .. Len(p) /\ i - 1 \notin Parting /\ (i - 1) + 1 = i
    BY <1>1, <1>2
  <2> QED
    BY <2>1
<1>4. n \in 0 .. Len(p) /\ n <= Len(q)
  <2>1. CASE n = 0
    BY <1>1, <2>1
  <2>2. CASE n # 0
    BY <1>1, <1>3, <2>2
  <2> QED
    BY <2>1, <2>2
<1>5. n < Len(p) /\ n < Len(q) => p[n + 1] # q[n + 1]
  OBVIOUS
<1> HIDE DEF Parting
<1> QED
  BY <1>3, <1>4, <1>5 DEF PrefixMatchedLen

LEMMA CommonIsLongest ==
    \A p, q \in Path :
        /\ Common(p, q) \in Path
        /\ IsPrefix(Common(p, q), p) /\ IsPrefix(Common(p, q), q)
        /\ \A r \in Path :
                IsPrefix(r, p) /\ IsPrefix(r, q) => IsPrefix(r, Common(p, q))
<1> SUFFICES ASSUME NEW p \in Path, NEW q \in Path
             PROVE  /\ Common(p, q) \in Path
                    /\ IsPrefix(Common(p, q), p) /\ IsPrefix(Common(p, q), q)
                    /\ \A r \in Path : IsPrefix(r, p) /\ IsPrefix(r, q)
                            => IsPrefix(r, Common(p, q))
  OBVIOUS
<1> DEFINE n == PrefixMatchedLen(p, q)
           c == Common(p, q)
<1>1. Len(p) \in Nat /\ Len(q) \in Nat
  BY DEF Path
<1>2. /\ n \in 0 .. Len(p) /\ n <= Len(q)
      /\ \A i \in 1 .. n : p[i] = q[i]
      /\ n < Len(p) /\ n < Len(q) => p[n + 1] # q[n + 1]
  BY MatchedLen
<1>3. /\ c \in Path /\ Len(c) = n /\ IsPrefix(c, p)
      /\ \A i \in 1 .. n : c[i] = p[i]
  <2> HIDE DEF n
  <2>1. c = SubSeq(p, 1, n)
    BY DEF Common, n
  <2> QED
    BY <1>2, <2>1, Cutting
<1> HIDE DEF n, c
<1>4. IsPrefix(c, q)
  BY <1>1, <1>2, <1>3, PrefixByNibble
<1>5. ASSUME NEW r \in Path, IsPrefix(r, p), IsPrefix(r, q)
      PROVE  IsPrefix(r, c)
  <2>1. Len(r) \in Nat /\ Len(r) <= Len(p) /\ Len(r) <= Len(q)
        /\ \A i \in 1 .. Len(r) : r[i] = p[i] /\ r[i] = q[i]
    BY <1>5, PrefixByNibble DEF Path
  <2>2. Len(r) <= n
    <3> SUFFICES ASSUME ~(Len(r) <= n) PROVE FALSE
      OBVIOUS
    <3>1. n + 1 \in 1 .. Len(r) /\ n < Len(p) /\ n < Len(q)
      BY <1>1, <1>2, <2>1
    <3> QED
      BY <1>2, <2>1, <3>1
  <2>3. \A i \in 1 .. Len(r) : r[i] = c[i]
    BY <1>2, <1>3, <2>1, <2>2
  <2> QED
    BY <1>3, <2>2, <2>3, PrefixByNibble
<1> QED
  BY <1>3, <1>4, <1>5 DEF c

LEMMA CommonOfPrefix ==
    \A p, q \in Path : IsPrefix(p, q) => Common(p, q) = p /\ Common(q, p) = p
  BY CommonIsLongest, PrefixReflexive, PrefixAntisymmetric

LEMMA CommonCommutes == \A p, q \in Path : Common(p, q) = Common(q, p)
  BY CommonIsLongest, PrefixAntisymmetric

\* The step from a branch towards a path is the first beginning of that path
\* which is longer.
LEMMA TowardIsNext ==
    \A b, p \in Path :
        IsPrefix(b, p) /\ b # p =>
            /\ Toward(b, p) \in Path
            /\ IsPrefix(b, Toward(b, p)) /\ b # Toward(b, p)
            /\ IsPrefix(Toward(b, p), p)
            /\ \A r \in Path : /\ IsPrefix(r, Toward(b, p)) /\ r # Toward(b, p)
                               => IsPrefix(r, b)
            /\ \A r \in Path : IsPrefix(b, r) /\ b # r /\ IsPrefix(r, p)
                               => IsPrefix(Toward(b, p), r)
<1> SUFFICES ASSUME NEW b \in Path, NEW p \in Path, IsPrefix(b, p), b # p
             PROVE  /\ Toward(b, p) \in Path
                    /\ IsPrefix(b, Toward(b, p)) /\ b # Toward(b, p)
                    /\ IsPrefix(Toward(b, p), p)
                    /\ \A r \in Path :
                        IsPrefix(r, Toward(b, p)) /\ r # Toward(b, p) => IsPrefix(r, b)
                    /\ \A r \in Path : IsPrefix(b, r) /\ b # r /\ IsPrefix(r, p)
                                       => IsPrefix(Toward(b, p), r)
  OBVIOUS
<1> DEFINE t == Toward(b, p)
<1>1. Len(b) \in Nat /\ Len(p) \in Nat /\ Len(b) < Len(p)
  BY PrefixIsShorter DEF Path
<1>2. t \in Path /\ Len(t) = Len(b) + 1 /\ IsPrefix(t, p)
  BY <1>1, Cutting DEF Toward
<1> HIDE DEF t
<1>3. IsPrefix(b, t) /\ b # t
  BY <1>1, <1>2, Comparable
<1>4. ASSUME NEW r \in Path, IsPrefix(r, t), r # t
      PROVE  IsPrefix(r, b)
  <2>1. Len(r) \in Nat /\ Len(r) <= Len(b)
    BY <1>1, <1>2, <1>4, PrefixIsShorter DEF Path
  <2> QED
    BY <1>3, <1>4, <1>2, <2>1, Comparable
<1>5. ASSUME NEW r \in Path, IsPrefix(b, r), b # r, IsPrefix(r, p)
      PROVE  IsPrefix(t, r)
  <2>1. Len(r) \in Nat /\ Len(t) <= Len(r)
    BY <1>1, <1>2, <1>5, PrefixIsShorter DEF Path
  <2> QED
    BY <1>5, <1>2, <2>1, Comparable
<1> QED
  BY <1>2, <1>3, <1>4, <1>5 DEF t

-----------------------------------------------------------------------------
(* The prescribed shape: where nodes lie, and where they lead.              *)

Positions(keys) == Places(keys) \cup Forks(keys)

Ends(keys) == keys \cup Forks(keys)

\* All keys from at on go on to to.
Leads(keys, at, to) ==
    /\ IsPrefix(at, to)
    /\ \A k \in keys : IsPrefix(at, k) => IsPrefix(to, k)

LEMMA SpanOf ==
    ASSUME NEW keys, NEW at, NEW to
    PROVE  <<at, to>> \in Spans(keys)
            <=> at \in Positions(keys) /\ to \in Ends(keys) /\ Leads(keys, at, to)
  BY DEF Spans, Positions, Ends, Leads

LEMMA SpanIsPair ==
    ASSUME NEW keys, NEW span \in Spans(keys)
    PROVE  span = <<span[1], span[2]>>
  BY DEF Spans

LEMMA ForkOfTwo ==
    ASSUME NEW keys \in SUBSET Path, NEW j \in keys, NEW k \in keys, j # k
    PROVE  Common(j, k) \in Forks(keys)
  BY DEF Forks

\* A fork is where two keys part.
LEMMA ForkParts ==
    ASSUME NEW keys \in SUBSET Path, NEW b \in Forks(keys)
    PROVE  /\ b \in Path
           /\ \E j, k \in keys :
                /\ j # k /\ b = Common(j, k)
                /\ IsPrefix(b, j) /\ IsPrefix(b, k)
                /\ \A r \in Path : IsPrefix(r, j) /\ IsPrefix(r, k) => IsPrefix(r, b)
<1>1. PICK j \in keys, k \in keys : j # k /\ b = Common(j, k)
  BY DEF Forks
<1>2. j \in Path /\ k \in Path
  OBVIOUS
<1> QED
  BY <1>1, <1>2, CommonIsLongest

LEMMA PlaceOf ==
    ASSUME NEW keys, NEW p
    PROVE  p \in Places(keys) <=>
                \/ p = <<>>
                \/ \E b \in Forks(keys), k \in keys :
                        IsPrefix(b, k) /\ b # k /\ p = Toward(b, k)
  BY DEF Places, IsStrictPrefix

LEMMA PositionTypes ==
    ASSUME NEW keys \in SUBSET Path
    PROVE  /\ Positions(keys) \subseteq Path
           /\ Ends(keys) \subseteq Path
           /\ \A e \in Ends(keys) : \E k \in keys : IsPrefix(e, k)
           /\ keys # {} => \A p \in Positions(keys) : \E k \in keys : IsPrefix(p, k)
<1>1. \A b \in Forks(keys) : b \in Path /\ \E k \in keys : IsPrefix(b, k)
  BY ForkParts
<1>2. ASSUME NEW p \in Places(keys)
      PROVE  p \in Path /\ (keys # {} => \E k \in keys : IsPrefix(p, k))
  <2>1. CASE p = <<>>
    BY <2>1, EmptyIsPrefix
  <2>2. CASE \E b \in Forks(keys), k \in keys :
                IsPrefix(b, k) /\ b # k /\ p = Toward(b, k)
    BY <1>1, <2>2, TowardIsNext
  <2> QED
    BY <2>1, <2>2, PlaceOf
<1>3. \A k \in keys : IsPrefix(k, k)
  BY PrefixReflexive
<1> QED
  BY <1>1, <1>2, <1>3 DEF Positions, Ends

\* From a place there is one end to lead to.
LEMMA EndIsUnique ==
    ASSUME NEW keys \in SUBSET Path, NEW at \in Path,
           NEW e \in Ends(keys), NEW f \in Ends(keys),
           Leads(keys, at, e), Leads(keys, at, f)
    PROVE  e = f
<1>1. ASSUME NEW x \in Ends(keys), NEW y \in Ends(keys),
             Leads(keys, at, x), Leads(keys, at, y)
      PROVE  IsPrefix(x, y)
  <2>1. x \in Path /\ y \in Path
    BY PositionTypes
  <2>2. CASE y \in keys
    BY <1>1, <2>2 DEF Leads
  <2>3. CASE y \in Forks(keys)
    <3>1. PICK j \in keys, k \in keys :
            /\ IsPrefix(y, j) /\ IsPrefix(y, k)
            /\ \A r \in Path : IsPrefix(r, j) /\ IsPrefix(r, k) => IsPrefix(r, y)
      BY <2>3, ForkParts
    <3>2. IsPrefix(at, j) /\ IsPrefix(at, k)
      BY <1>1, <2>1, <3>1, PrefixTransitive DEF Leads
    <3> QED
      BY <1>1, <2>1, <3>1, <3>2 DEF Leads
  <2> QED
    BY <2>2, <2>3 DEF Ends
<1>2. e \in Path /\ f \in Path
  BY PositionTypes
<1> QED
  BY <1>1, <1>2, PrefixAntisymmetric

\* No node reaches beyond a place below it: the branch is in between.
LEMMA EndsBeforePlace ==
    ASSUME NEW keys \in SUBSET Path, NEW r \in Places(keys), NEW at \in Path,
           NEW e \in Path, Leads(keys, at, e), IsPrefix(at, r), at # r
    PROVE  IsPrefix(e, r) /\ e # r
<1>1. r # <<>>
  BY EmptyIsPrefix, PrefixAntisymmetric
<1>2. PICK b \in Forks(keys), k \in keys : IsPrefix(b, k) /\ b # k /\ r = Toward(b, k)
  BY <1>1, PlaceOf
<1>3. b \in Path /\ k \in Path
  BY ForkParts
<1>4. /\ r \in Path /\ IsPrefix(b, r) /\ b # r
      /\ IsPrefix(at, b)
  BY <1>2, <1>3, TowardIsNext
<1>5. PICK i \in keys, j \in keys :
            /\ IsPrefix(b, i) /\ IsPrefix(b, j)
            /\ \A x \in Path : IsPrefix(x, i) /\ IsPrefix(x, j) => IsPrefix(x, b)
  BY ForkParts
<1>6. IsPrefix(at, i) /\ IsPrefix(at, j)
  BY <1>3, <1>4, <1>5, PrefixTransitive
<1>7. IsPrefix(e, b)
  BY <1>5, <1>6 DEF Leads
<1> QED
  BY <1>3, <1>4, <1>7, PrefixTransitive, PrefixAntisymmetric

\* From every place with a key below it there is an end to lead to: that key, or
\* the first place where two of the keys below it part.
LEMMA EndExists ==
    ASSUME NEW keys \in SUBSET Path, NEW at \in Path,
           NEW key \in keys, IsPrefix(at, key)
    PROVE  \E e \in Ends(keys) : Leads(keys, at, e)
<1> DEFINE below == {k \in keys : IsPrefix(at, k)}
<1>1. CASE below = {key}
  BY <1>1, PrefixReflexive DEF Leads, Ends
<1>2. CASE below # {key}
  <2> DEFINE Lens == {Len(Common(jk[1], jk[2])) :
                        jk \in {x \in below \X below : x[1] # x[2]}}
  <2>1. \A j, k \in below : j # k => Len(Common(j, k)) \in Lens
    <3> TAKE j, k \in below
    <3> HAVE j # k
    <3>1. <<j, k>> \in {x \in below \X below : x[1] # x[2]}
      OBVIOUS
    <3> QED
      BY <3>1
  <2>2. \A n \in Lens : \E j, k \in below : j # k /\ n = Len(Common(j, k))
    OBVIOUS
  <2>3. PICK n \in Lens : \A m \in Lens : n <= m
    <3>1. \A j, k \in Path : Len(Common(j, k)) \in Nat
      BY CommonIsLongest DEF Path
    <3>2. Lens \in SUBSET Nat
      BY <2>2, <3>1
    <3>3. PICK other \in below : other # key
      BY <1>2
    <3>4. Lens # {}
      BY <2>1, <3>3
    <3> HIDE DEF Lens
    <3> QED
      BY <3>2, <3>4, LeastNatural
  <2>4. PICK j \in below, k \in below : j # k /\ n = Len(Common(j, k))
    BY <2>2
  <2> DEFINE e == Common(j, k)
  <2> HIDE DEF Lens
  <2>5. j \in Path /\ k \in Path /\ j \in keys /\ k \in keys
    OBVIOUS
  <2>6. /\ e \in Path /\ e \in Forks(keys)
        /\ IsPrefix(e, j) /\ IsPrefix(at, e)
    BY <2>4, <2>5, CommonIsLongest, ForkOfTwo
  <2>7. ASSUME NEW i \in below
        PROVE  IsPrefix(e, i)
    <3>1. CASE i = j
      BY <2>6, <3>1
    <3>2. CASE i # j
      <4>1. i \in Path /\ n <= Len(Common(j, i))
        BY <2>1, <2>3, <3>2
      <4>2. /\ Common(j, i) \in Path
            /\ IsPrefix(Common(j, i), j) /\ IsPrefix(Common(j, i), i)
        BY <2>5, <4>1, CommonIsLongest
      <4>3. IsPrefix(e, Common(j, i))
        BY <2>4, <2>5, <2>6, <4>1, <4>2, Comparable
      <4> QED
        BY <2>6, <4>1, <4>2, <4>3, PrefixTransitive
    <3> QED
      BY <3>1, <3>2
  <2> HIDE DEF e
  <2> QED
    BY <2>6, <2>7 DEF Leads, Ends
<1> QED
  BY <1>1, <1>2

\* Pairs that are spans, one from each place, are all of them.
LEMMA SpansAre ==
    ASSUME NEW keys \in SUBSET Path, NEW L,
           \A s \in L : s = <<s[1], s[2]>> /\ s \in Spans(keys),
           \A at \in Positions(keys) : \E e : <<at, e>> \in L
    PROVE  Spans(keys) = L
<1>1. ASSUME NEW s \in Spans(keys) PROVE s \in L
  <2>1. /\ s = <<s[1], s[2]>>
        /\ s[1] \in Positions(keys) /\ s[2] \in Ends(keys) /\ Leads(keys, s[1], s[2])
    BY SpanIsPair, SpanOf
  <2>2. PICK e : <<s[1], e>> \in L
    BY <2>1
  <2>3. e \in Ends(keys) /\ Leads(keys, s[1], e)
    BY <2>2, SpanOf
  <2>4. e = s[2]
    BY <2>1, <2>3, EndIsUnique, PositionTypes
  <2> QED
    BY <2>1, <2>2, <2>4
<1> QED
  BY <1>1

-----------------------------------------------------------------------------
(* A path in the trie of some keys: where it parts from them, and the last  *)
(* node on its way.                                                         *)

\* The longest beginning that the path q shares with a key.
IsTurn(keys, q, c) ==
    /\ c \in Path /\ IsPrefix(c, q)
    /\ \E k \in keys : IsPrefix(c, k)
    /\ \A k \in keys, r \in Path : IsPrefix(r, q) /\ IsPrefix(r, k) => IsPrefix(r, c)

LEMMA TurnExists ==
    ASSUME NEW keys \in SUBSET Path, keys # {}, NEW q \in Path
    PROVE  \E c : IsTurn(keys, q, c)
<1>1. \A k \in keys : /\ Common(q, k) \in Path
                      /\ IsPrefix(Common(q, k), q) /\ IsPrefix(Common(q, k), k)
  BY CommonIsLongest
<1>2. \A r \in Path : IsPrefix(r, q) => Len(r) \in Nat /\ Len(q) - Len(r) \in Nat
  BY PrefixIsShorter DEF Path
<1> DEFINE Rests == {Len(q) - Len(Common(q, k)) : k \in keys}
<1>3. PICK n \in Rests : \A m \in Rests : n <= m
  <2>1. Rests \in SUBSET Nat /\ Rests # {}
    BY <1>1, <1>2
  <2> HIDE DEF Rests
  <2> QED
    BY <2>1, LeastNatural
<1>4. PICK key \in keys : n = Len(q) - Len(Common(q, key))
  OBVIOUS
<1> DEFINE c == Common(q, key)
<1>5. ASSUME NEW k \in keys
      PROVE  IsPrefix(Common(q, k), c)
  <2>1. n <= Len(q) - Len(Common(q, k))
    BY <1>3
  <2>2. /\ Len(c) \in Nat /\ Len(Common(q, k)) \in Nat /\ Len(q) \in Nat
        /\ Len(Common(q, k)) <= Len(c)
    BY <1>1, <1>2, <1>4, <2>1 DEF Path
  <2> QED
    BY <1>1, <2>2, Comparable
<1>6. ASSUME NEW k \in keys, NEW r \in Path, IsPrefix(r, q), IsPrefix(r, k)
      PROVE  IsPrefix(r, c)
  <2>1. k \in Path
    OBVIOUS
  <2>2. IsPrefix(r, Common(q, k))
    BY <1>6, <2>1, CommonIsLongest
  <2> QED
    BY <1>1, <1>5, <1>6, <2>2, PrefixTransitive
<1> QED
  BY <1>1, <1>6 DEF IsTurn

\* A new key makes a fork where it turns off, and no other.
LEMMA NewForks ==
    ASSUME NEW keys \in SUBSET Path, NEW q \in Path, q \notin keys,
           NEW c, IsTurn(keys, q, c)
    PROVE  Forks(keys \cup {q}) = Forks(keys) \cup {c}
<1>1. PICK near \in keys : IsPrefix(c, near)
  BY DEF IsTurn
<1>2. c \in Path /\ IsPrefix(c, q) /\ near \in Path
  BY DEF IsTurn
<1>3. \A k \in keys, r \in Path : IsPrefix(r, q) /\ IsPrefix(r, k) => IsPrefix(r, c)
  BY DEF IsTurn
<1>4. Common(q, near) = c
  BY <1>1, <1>2, <1>3, CommonIsLongest, PrefixAntisymmetric
<1>5. ASSUME NEW k \in keys
      PROVE  Common(q, k) \in Forks(keys) \cup {c}
  <2> DEFINE b == Common(q, k)
             d == Common(near, k)
  <2>1. k \in Path
    OBVIOUS
  <2>2. /\ b \in Path /\ IsPrefix(b, q) /\ IsPrefix(b, k)
        /\ \A r \in Path : IsPrefix(r, q) /\ IsPrefix(r, k) => IsPrefix(r, b)
    BY <2>1, CommonIsLongest
  <2>3. IsPrefix(b, c)
    BY <1>3, <2>2
  <2>4. /\ d \in Path /\ IsPrefix(d, near) /\ IsPrefix(d, k)
        /\ \A r \in Path : IsPrefix(r, near) /\ IsPrefix(r, k) => IsPrefix(r, d)
    BY <1>2, <2>1, CommonIsLongest
  <2> HIDE DEF b, d
  <2>5. CASE IsPrefix(c, k)
    BY <1>2, <2>2, <2>3, <2>5, PrefixAntisymmetric DEF b
  <2>6. CASE ~IsPrefix(c, k)
    <3>1. near # k /\ d \in Forks(keys)
      BY <1>1, <2>6, ForkOfTwo DEF d
    <3>2. IsPrefix(b, d)
      BY <1>1, <1>2, <2>2, <2>3, <2>4, PrefixTransitive
    <3>3. IsPrefix(d, c)
      <4>1. ~IsPrefix(c, d)
        BY <1>2, <2>1, <2>4, <2>6, PrefixTransitive
      <4>2. Len(c) \in Nat /\ Len(d) \in Nat
        BY <1>2, <2>4 DEF Path
      <4> QED
        BY <1>1, <1>2, <2>4, <4>1, <4>2, Comparable
    <3>4. IsPrefix(d, b)
      BY <1>2, <2>2, <2>4, <3>3, PrefixTransitive
    <3>5. b = d
      BY <2>2, <2>4, <3>2, <3>4, PrefixAntisymmetric
    <3> QED
      BY <3>1, <3>5 DEF b
  <2> QED
    BY <2>5, <2>6
<1>6. ASSUME NEW b \in Forks(keys \cup {q})
      PROVE  b \in Forks(keys) \cup {c}
  <2>1. PICK j \in keys \cup {q}, k \in keys \cup {q} : j # k /\ b = Common(j, k)
    BY DEF Forks
  <2>2. CASE j = q
    BY <1>5, <2>1, <2>2
  <2>3. CASE k = q
    <3>1. b = Common(q, j)
      BY <2>1, <2>3, CommonCommutes
    <3> QED
      BY <1>5, <2>1, <2>3, <3>1
  <2>4. CASE j \in keys /\ k \in keys
    BY <2>1, <2>4, ForkOfTwo
  <2> QED
    BY <2>2, <2>3, <2>4
<1>7. Forks(keys) \subseteq Forks(keys \cup {q})
  BY DEF Forks
<1>8. c \in Forks(keys \cup {q})
  <2>1. q # near /\ q \in keys \cup {q} /\ near \in keys \cup {q}
        /\ keys \cup {q} \in SUBSET Path
    OBVIOUS
  <2> QED
    BY <1>4, <2>1, ForkOfTwo
<1> QED
  BY <1>6, <1>7, <1>8

\* And there are new places only at that fork.
LEMMA NewPlaces ==
    ASSUME NEW keys \in SUBSET Path, NEW q \in Path, q \notin keys,
           NEW c, IsTurn(keys, q, c), NEW p
    PROVE  p \in Places(keys \cup {q}) <=>
                \/ p \in Places(keys)
                \/ \E k \in keys \cup {q} :
                        IsPrefix(c, k) /\ c # k /\ p = Toward(c, k)
<1>1. Forks(keys \cup {q}) = Forks(keys) \cup {c}
  BY NewForks
<1>2. c \in Path /\ IsPrefix(c, q)
  BY DEF IsTurn
<1>3. ASSUME NEW b \in Forks(keys), IsPrefix(b, q), b # q, b # c
      PROVE  \E k \in keys : IsPrefix(b, k) /\ b # k /\ Toward(b, q) = Toward(b, k)
  <2>1. PICK near \in keys : IsPrefix(c, near)
    BY DEF IsTurn
  <2>2. b \in Path /\ near \in Path
    BY ForkParts
  <2>3. IsPrefix(b, c)
    BY <1>3, ForkParts DEF IsTurn
  <2>4. IsPrefix(b, near) /\ b # near
    BY <1>2, <1>3, <2>1, <2>2, <2>3, PrefixTransitive, PrefixAntisymmetric
  <2> DEFINE t == Toward(b, q)
             u == Toward(b, near)
  <2>5. /\ t \in Path /\ IsPrefix(b, t) /\ b # t /\ IsPrefix(t, c)
        /\ \A r \in Path : IsPrefix(b, r) /\ b # r /\ IsPrefix(r, q) => IsPrefix(t, r)
    BY <1>2, <1>3, <2>2, <2>3, TowardIsNext
  <2>6. /\ u \in Path /\ IsPrefix(b, u) /\ b # u /\ IsPrefix(u, c)
        /\ \A r \in Path : IsPrefix(b, r) /\ b # r /\ IsPrefix(r, near) => IsPrefix(u, r)
    BY <1>2, <1>3, <2>1, <2>2, <2>3, <2>4, TowardIsNext
  <2> HIDE DEF t, u
  <2>7. IsPrefix(t, near) /\ IsPrefix(u, q)
    BY <1>2, <2>1, <2>2, <2>5, <2>6, PrefixTransitive
  <2>8. t = u
    BY <2>5, <2>6, <2>7, PrefixAntisymmetric
  <2> QED
    BY <2>4, <2>8 DEF t, u
<1> DEFINE more == keys \cup {q}
<1> HIDE DEF more
<1>4. p \in Places(more) <=> \/ p = <<>>
                            \/ \E b \in Forks(more), k \in more :
                                    IsPrefix(b, k) /\ b # k /\ p = Toward(b, k)
  BY PlaceOf
<1>5. p \in Places(keys) <=> \/ p = <<>>
                            \/ \E b \in Forks(keys), k \in keys :
                                    IsPrefix(b, k) /\ b # k /\ p = Toward(b, k)
  BY PlaceOf
<1>6. ASSUME p \in Places(keys \cup {q})
      PROVE  \/ p \in Places(keys)
             \/ \E k \in keys \cup {q} : IsPrefix(c, k) /\ c # k /\ p = Toward(c, k)
  <2>1. CASE p = <<>>
    BY <2>1, PlaceOf
  <2>2. CASE \E b \in Forks(keys \cup {q}), k \in keys \cup {q} :
                IsPrefix(b, k) /\ b # k /\ p = Toward(b, k)
    <3>1. PICK b \in Forks(keys) \cup {c}, k \in keys \cup {q} :
                IsPrefix(b, k) /\ b # k /\ p = Toward(b, k)
      BY <1>1, <2>2
    <3>2. CASE b = c
      BY <3>1, <3>2
    <3>3. CASE b # c /\ k \in keys
      BY <3>1, <3>3, PlaceOf
    <3>4. CASE b # c /\ k = q
      BY <1>3, <3>1, <3>4, PlaceOf
    <3> QED
      BY <3>2, <3>3, <3>4
  <2> QED
    BY <1>6, <1>4, <2>1, <2>2 DEF more
<1>7. ASSUME p \in Places(keys)
      PROVE  p \in Places(keys \cup {q})
  BY <1>1, <1>7, <1>4, <1>5 DEF more
<1>8. ASSUME NEW k \in keys \cup {q}, IsPrefix(c, k), c # k, p = Toward(c, k)
      PROVE  p \in Places(keys \cup {q})
  BY <1>1, <1>8, <1>4 DEF more
<1> QED
  BY <1>6, <1>7, <1>8

\* The last node on the way of q lies at at and leads to to.
IsLastSpan(keys, q, at, to) ==
    /\ <<at, to>> \in Spans(keys)
    /\ IsPrefix(at, q)
    /\ \A r \in Positions(keys) : IsPrefix(r, q) => IsPrefix(r, at)

LEMMA LastSpanExists ==
    ASSUME NEW keys \in SUBSET Path, keys # {}, NEW q \in Path
    PROVE  \E at, to : IsLastSpan(keys, q, at, to)
<1> DEFINE Rests == {Len(q) - Len(r) : r \in {p \in Positions(keys) : IsPrefix(p, q)}}
<1>1. \A r \in Positions(keys) : r \in Path
  BY PositionTypes
<1>2. \A r \in Path : IsPrefix(r, q) => Len(r) \in Nat /\ Len(q) - Len(r) \in Nat
  BY PrefixIsShorter DEF Path
<1>3. <<>> \in Positions(keys) /\ IsPrefix(<<>>, q)
  BY PlaceOf, EmptyIsPrefix DEF Positions
<1>4. PICK n \in Rests : \A m \in Rests : n <= m
  <2>1. Rests \in SUBSET Nat /\ Rests # {}
    BY <1>1, <1>2, <1>3
  <2> HIDE DEF Rests
  <2> QED
    BY <2>1, LeastNatural
<1>5. PICK at \in Positions(keys) : IsPrefix(at, q) /\ n = Len(q) - Len(at)
  OBVIOUS
<1>6. ASSUME NEW r \in Positions(keys), IsPrefix(r, q)
      PROVE  IsPrefix(r, at)
  <2>1. n <= Len(q) - Len(r)
    BY <1>4, <1>6
  <2>2. Len(q) \in Nat /\ Len(r) \in Nat /\ Len(at) \in Nat /\ Len(r) <= Len(at)
    BY <1>1, <1>5, <2>1 DEF Path
  <2> QED
    BY <1>1, <1>5, <1>6, <2>2, Comparable
<1>7. PICK e \in Ends(keys) : Leads(keys, at, e)
  BY PositionTypes, EndExists
<1> QED
  BY <1>5, <1>6, <1>7, SpanOf DEF IsLastSpan

\* If the path parts from the keys where two of them part, the last node is the
\* branch there.
LEMMA LastAtFork ==
    ASSUME NEW keys \in SUBSET Path, keys # {}, NEW q \in Path,
           NEW c, IsTurn(keys, q, c), c \in Forks(keys),
           NEW at, NEW to, IsLastSpan(keys, q, at, to)
    PROVE  at = c /\ to = c
<1>1. at \in Positions(keys) /\ to \in Ends(keys) /\ Leads(keys, at, to) /\ IsPrefix(at, q)
  BY SpanOf DEF IsLastSpan
<1>2. at \in Path /\ \E k \in keys : IsPrefix(at, k)
  BY <1>1, PositionTypes
<1>3. c \in Path /\ IsPrefix(c, q) /\ IsPrefix(at, c)
  BY <1>1, <1>2 DEF IsTurn
<1>4. IsPrefix(c, at)
  BY <1>3 DEF IsLastSpan, Positions
<1>5. at = c
  BY <1>2, <1>3, <1>4, PrefixAntisymmetric
<1>6. c \in Ends(keys) /\ Leads(keys, c, c)
  BY <1>3, PrefixReflexive DEF Ends, Leads
<1> QED
  BY <1>1, <1>3, <1>5, <1>6, EndIsUnique

\* If not, the path parts from the keys behind the last node, on the way from
\* its place to where it leads.
LEMMA LastBeforeTurn ==
    ASSUME NEW keys \in SUBSET Path, keys # {}, NEW q \in Path,
           NEW c, IsTurn(keys, q, c), c \notin Forks(keys),
           NEW at, NEW to, IsLastSpan(keys, q, at, to)
    PROVE  /\ at \in Path /\ at \in Places(keys)
           /\ to \in Path /\ to \in Ends(keys) /\ Leads(keys, at, to)
           /\ IsPrefix(at, c) /\ IsPrefix(c, to)
           /\ Common(q, to) = c
           /\ \A p, e : <<p, e>> \in Spans(keys) /\ IsPrefix(p, q) /\ p # at
                    => IsPrefix(p, at) /\ IsPrefix(e, at) /\ e # at
<1>1. at \in Positions(keys) /\ to \in Ends(keys) /\ Leads(keys, at, to) /\ IsPrefix(at, q)
  BY SpanOf DEF IsLastSpan
<1>2. at \in Path /\ to \in Path /\ (\E k \in keys : IsPrefix(at, k))
                                 /\ (\E k \in keys : IsPrefix(to, k))
  BY <1>1, PositionTypes
<1>3. c \in Path /\ IsPrefix(c, q) /\ IsPrefix(at, c)
  BY <1>1, <1>2 DEF IsTurn
<1>4. PICK near \in keys : IsPrefix(c, near)
  BY DEF IsTurn
<1>5. near \in Path /\ IsPrefix(at, near) /\ IsPrefix(to, near)
  BY <1>1, <1>2, <1>3, <1>4, PrefixTransitive DEF Leads
<1>6. ASSUME ~IsPrefix(c, to)
      PROVE  FALSE
  <2>1. IsPrefix(to, c) /\ to # c
    <3>1. Len(c) \in Nat /\ Len(to) \in Nat
      BY <1>2, <1>3 DEF Path
    <3> QED
      BY <1>2, <1>3, <1>4, <1>5, <1>6, <3>1, Comparable, PrefixReflexive
  <2>2. to \in Forks(keys)
    <3>1. CASE to \in keys
      <4>1. to # near
        BY <1>4, <1>6
      <4>2. Common(to, near) = to
        BY <1>2, <1>5, CommonOfPrefix
      <4> QED
        BY <3>1, <4>1, <4>2, ForkOfTwo
    <3> QED
      BY <1>1, <3>1 DEF Ends
  <2>3. IsPrefix(to, q)
    BY <1>2, <1>3, <2>1, PrefixTransitive
  <2>4. to = at
    BY <1>1, <1>2, <2>2, <2>3, PrefixAntisymmetric DEF IsLastSpan, Positions, Leads
  <2>5. to # near
    BY <1>4, <1>6
  <2> DEFINE t == Toward(to, near)
  <2>6. t \in Positions(keys)
    BY <1>5, <2>2, <2>5, PlaceOf DEF Positions
  <2>7. t \in Path /\ IsPrefix(to, t) /\ to # t /\ IsPrefix(t, c)
    BY <1>2, <1>3, <1>4, <1>5, <2>1, <2>5, TowardIsNext
  <2> HIDE DEF t
  <2>8. IsPrefix(t, q)
    BY <1>3, <2>7, PrefixTransitive
  <2>9. IsPrefix(t, to)
    BY <2>4, <2>6, <2>8 DEF IsLastSpan
  <2> QED
    BY <1>2, <2>7, <2>9, PrefixAntisymmetric
<1>7. at \in Places(keys)
  <2> SUFFICES ASSUME at \in Forks(keys) PROVE FALSE
    BY <1>1 DEF Positions
  <2>1. at \in Ends(keys) /\ Leads(keys, at, at)
    BY <1>2, PrefixReflexive DEF Ends, Leads
  <2>2. to = at
    BY <1>1, <1>2, <2>1, EndIsUnique
  <2> QED
    BY <1>2, <1>3, <1>6, <2>2, PrefixAntisymmetric
<1>8. Common(q, to) = c
  <2>1. /\ Common(q, to) \in Path
        /\ IsPrefix(Common(q, to), q) /\ IsPrefix(Common(q, to), to)
        /\ IsPrefix(c, Common(q, to))
    BY <1>2, <1>3, <1>6, CommonIsLongest
  <2>2. IsPrefix(Common(q, to), c)
    BY <1>2, <2>1, PrefixTransitive DEF IsTurn
  <2> QED
    BY <1>3, <2>1, <2>2, PrefixAntisymmetric
<1>9. ASSUME NEW p, NEW e, <<p, e>> \in Spans(keys), IsPrefix(p, q), p # at
      PROVE  IsPrefix(p, at) /\ IsPrefix(e, at) /\ e # at
  <2>1. p \in Positions(keys) /\ e \in Ends(keys) /\ Leads(keys, p, e)
    BY <1>9, SpanOf
  <2>2. p \in Path /\ e \in Path
    BY <2>1, PositionTypes
  <2>3. IsPrefix(p, at)
    BY <1>9, <2>1 DEF IsLastSpan
  <2> QED
    BY <1>7, <1>9, <2>1, <2>2, <2>3, EndsBeforePlace
<1> QED
  BY <1>1, <1>2, <1>3, <1>6, <1>7, <1>8, <1>9

-----------------------------------------------------------------------------
(* What a new key makes of the spans.                                       *)

LEMMA OldSpanStays ==
    ASSUME NEW keys \in SUBSET Path, NEW q \in Path, q \notin keys,
           NEW c, IsTurn(keys, q, c),
           NEW at, NEW to, <<at, to>> \in Spans(keys),
           IsPrefix(at, q) => IsPrefix(to, q)
    PROVE  <<at, to>> \in Spans(keys \cup {q})
<1>1. at \in Positions(keys) /\ to \in Ends(keys) /\ Leads(keys, at, to)
  BY SpanOf
<1>2. at \in Positions(keys \cup {q}) /\ to \in Ends(keys \cup {q})
  BY <1>1, NewForks, NewPlaces DEF Positions, Ends
<1>3. Leads(keys \cup {q}, at, to)
  BY <1>1 DEF Leads
<1> QED
  BY <1>2, <1>3, SpanOf

\* No span that begins on the way of a path goes past a fork on that way.
LEMMA SpansEndAtForks ==
    ASSUME NEW keys \in SUBSET Path, keys # {}, NEW q \in Path,
           NEW c, IsTurn(keys, q, c), c \in Forks(keys),
           NEW at, NEW to, <<at, to>> \in Spans(keys), IsPrefix(at, q)
    PROVE  IsPrefix(at, c) /\ IsPrefix(to, c) /\ IsPrefix(to, q)
<1>1. at \in Positions(keys) /\ to \in Ends(keys) /\ Leads(keys, at, to)
  BY SpanOf
<1>2. at \in Path /\ to \in Path /\ \E k \in keys : IsPrefix(at, k)
  BY <1>1, PositionTypes
<1>3. c \in Path /\ IsPrefix(c, q) /\ IsPrefix(at, c)
  BY <1>1, <1>2 DEF IsTurn
<1>4. PICK j \in keys, k \in keys :
            /\ IsPrefix(c, j) /\ IsPrefix(c, k)
            /\ \A r \in Path : IsPrefix(r, j) /\ IsPrefix(r, k) => IsPrefix(r, c)
  BY ForkParts
<1>5. IsPrefix(at, j) /\ IsPrefix(at, k)
  BY <1>2, <1>3, <1>4, PrefixTransitive
<1>6. IsPrefix(to, c)
  BY <1>1, <1>2, <1>4, <1>5 DEF Leads
<1> QED
  BY <1>2, <1>3, <1>6, PrefixTransitive

\* A key that ends at a fork: nothing moves.
LEMMA SpansKept ==
    ASSUME NEW keys \in SUBSET Path, keys # {}, NEW q \in Path, q \notin keys,
           q \in Forks(keys), IsTurn(keys, q, q)
    PROVE  Spans(keys \cup {q}) = Spans(keys)
<1> DEFINE more == keys \cup {q}
<1>1. more \in SUBSET Path
  OBVIOUS
<1>2. \A s \in Spans(keys) : s = <<s[1], s[2]>> /\ s \in Spans(more)
  BY SpanIsPair, SpansEndAtForks, OldSpanStays
<1>3. \A at \in Positions(more) : at \in Positions(keys)
  <2>1. \A k \in more : ~(IsPrefix(q, k) /\ q # k /\ Toward(q, k) \notin Places(keys))
    BY PlaceOf
  <2> QED
    BY <2>1, NewForks, NewPlaces DEF Positions
<1>4. \A at \in Positions(keys) : \E e : <<at, e>> \in Spans(keys)
  BY PositionTypes, EndExists, SpanOf
<1> HIDE DEF more
<1> QED
  BY <1>1, <1>2, <1>3, <1>4, SpansAre DEF more

\* A key that turns off at a fork: one new leaf below it.
LEMMA SpansGrow ==
    ASSUME NEW keys \in SUBSET Path, keys # {}, NEW q \in Path, q \notin keys,
           NEW c, IsTurn(keys, q, c), c \in Forks(keys), q # c
    PROVE  Spans(keys \cup {q}) = Spans(keys) \cup {<<Toward(c, q), q>>}
<1> DEFINE more == keys \cup {q}
           t == Toward(c, q)
           L == Spans(keys) \cup {<<t, q>>}
<1>1. more \in SUBSET Path
  OBVIOUS
<1>2. c \in Path /\ IsPrefix(c, q) /\ c # q
  BY DEF IsTurn
<1>3. /\ t \in Path /\ IsPrefix(c, t) /\ c # t /\ IsPrefix(t, q)
  BY <1>2, TowardIsNext
<1>4. <<t, q>> \in Spans(more)
  <2>1. t \in Positions(more)
    BY <1>2, NewPlaces DEF Positions
  <2>2. q \in Ends(more)
    BY DEF Ends
  <2>3. ASSUME NEW k \in keys, IsPrefix(t, k)
        PROVE  FALSE
    <3>1. IsPrefix(t, c)
      BY <1>3, <2>3 DEF IsTurn
    <3> QED
      BY <1>2, <1>3, <3>1, PrefixAntisymmetric
  <2>4. Leads(more, t, q)
    BY <1>3, <2>3, PrefixReflexive DEF Leads
  <2> QED
    BY <2>1, <2>2, <2>4, SpanOf
<1>5. \A s \in L : s = <<s[1], s[2]>> /\ s \in Spans(more)
  <2>1. \A s \in Spans(keys) : s = <<s[1], s[2]>> /\ s \in Spans(more)
    BY SpanIsPair, SpansEndAtForks, OldSpanStays
  <2> QED
    BY <1>4, <2>1
<1>6. \A at \in Positions(more) : \E e : <<at, e>> \in L
  <2>1. \A at \in Positions(keys) : \E e : <<at, e>> \in Spans(keys)
    BY PositionTypes, EndExists, SpanOf
  <2>2. ASSUME NEW at \in Positions(more)
        PROVE  at \in Positions(keys) \/ at = t
    <3>1. \A k \in keys : IsPrefix(c, k) /\ c # k => Toward(c, k) \in Places(keys)
      BY PlaceOf
    <3> QED
      BY <2>2, <3>1, NewForks, NewPlaces DEF Positions
  <2> QED
    BY <2>1, <2>2
<1> HIDE DEF more, L
<1>7. Spans(more) = L
  BY <1>1, <1>5, <1>6, SpansAre
<1> QED
  BY <1>7 DEF more, L

\* A key that turns off on the way of a node: the node now leads to a branch
\* there, from which two others lead on.
LEMMA SpansSplit ==
    ASSUME NEW keys \in SUBSET Path, keys # {}, NEW q \in Path, q \notin keys,
           NEW c, IsTurn(keys, q, c), c \notin Forks(keys),
           NEW at, NEW to, IsLastSpan(keys, q, at, to)
    PROVE  Spans(keys \cup {q}) =
                (Spans(keys) \ {<<at, to>>}) \cup {<<at, c>>, <<c, c>>}
                    \cup {<<Toward(c, k), k>> : k \in {to, q} \ {c}}
<1> DEFINE more == keys \cup {q}
           old == Spans(keys) \ {<<at, to>>}
           arms == {<<Toward(c, k), k>> : k \in {to, q} \ {c}}
           L == old \cup {<<at, c>>, <<c, c>>} \cup arms
<1>1. more \in SUBSET Path
  OBVIOUS
<1>2. c \in Path /\ IsPrefix(c, q)
  BY DEF IsTurn
<1>3. /\ at \in Path /\ at \in Places(keys)
      /\ to \in Path /\ to \in Ends(keys) /\ Leads(keys, at, to)
      /\ IsPrefix(at, c) /\ IsPrefix(c, to)
      /\ Common(q, to) = c
      /\ \A p, e : <<p, e>> \in Spans(keys) /\ IsPrefix(p, q) /\ p # at
               => IsPrefix(p, at) /\ IsPrefix(e, at) /\ e # at
  BY LastBeforeTurn
<1>4. Forks(more) = Forks(keys) \cup {c}
  BY NewForks
<1>5. \A k \in keys : IsPrefix(c, k) => IsPrefix(to, k)
  BY <1>2, <1>3, PrefixTransitive DEF Leads
<1>6. ASSUME NEW s \in old
      PROVE  s = <<s[1], s[2]>> /\ s \in Spans(more)
  <2>1. s = <<s[1], s[2]>> /\ s \in Spans(keys) /\ s # <<at, to>>
    BY SpanIsPair
  <2>2. s[1] \in Positions(keys) /\ s[2] \in Ends(keys) /\ Leads(keys, s[1], s[2])
    BY <2>1, SpanOf
  <2>3. s[2] \in Path
    BY <2>2, PositionTypes
  <2>4. s[1] # at
    BY <1>3, <2>1, <2>2, EndIsUnique
  <2>5. IsPrefix(at, q)
    BY DEF IsLastSpan
  <2>6. IsPrefix(s[1], q) => IsPrefix(s[2], q)
    BY <1>3, <2>1, <2>3, <2>4, <2>5, PrefixTransitive
  <2> QED
    BY <2>1, <2>6, OldSpanStays
<1>7. <<at, c>> \in Spans(more)
  <2>1. at \in Positions(more) /\ c \in Ends(more)
    BY <1>3, <1>4, NewPlaces DEF Positions, Ends
  <2>2. \A k \in more : IsPrefix(at, k) => IsPrefix(c, k)
    BY <1>2, <1>3, PrefixTransitive DEF Leads
  <2> QED
    BY <1>3, <2>1, <2>2, SpanOf DEF Leads
<1>8. <<c, c>> \in Spans(more)
  BY <1>2, <1>4, SpanOf, PrefixReflexive DEF Leads, Positions, Ends
<1>9. ASSUME NEW k \in {to, q} \ {c}
      PROVE  <<Toward(c, k), k>> \in Spans(more)
  <2> DEFINE t == Toward(c, k)
  <2>1. k \in Path /\ IsPrefix(c, k) /\ c # k
    BY <1>2, <1>3
  <2>2. t \in Path /\ IsPrefix(c, t) /\ c # t /\ IsPrefix(t, k)
    BY <1>2, <2>1, TowardIsNext
  <2>3. t \in Positions(more)
    <3>1. CASE k = q
      BY <2>1, <3>1, NewPlaces DEF Positions
    <3>2. CASE k = to
      <4>1. PICK key \in keys : IsPrefix(to, key)
        BY <1>3, PositionTypes
      <4>2. key \in Path /\ IsPrefix(c, key) /\ c # key
        BY <1>2, <2>1, <3>2, <4>1, PrefixTransitive, PrefixAntisymmetric
      <4>3. Toward(c, key) = t
        <5> DEFINE u == Toward(c, key)
        <5>1. /\ u \in Path /\ IsPrefix(c, u) /\ c # u /\ IsPrefix(u, key)
              /\ \A r \in Path : IsPrefix(c, r) /\ c # r /\ IsPrefix(r, key)
                                    => IsPrefix(u, r)
          BY <1>2, <4>2, TowardIsNext
        <5>2. \A r \in Path : IsPrefix(c, r) /\ c # r /\ IsPrefix(r, k)
                                    => IsPrefix(t, r)
          BY <1>2, <2>1, TowardIsNext
        <5> HIDE DEF t, u
        <5>3. IsPrefix(t, key) /\ IsPrefix(u, k)
          BY <2>1, <2>2, <3>2, <4>1, <4>2, <5>1, PrefixTransitive
        <5>4. t = u
          BY <2>2, <5>1, <5>2, <5>3, PrefixAntisymmetric
        <5> QED
          BY <5>4 DEF u
      <4> QED
        BY <4>2, <4>3, NewPlaces DEF Positions
    <3> QED
      BY <3>1, <3>2
  <2>4. k \in Ends(more)
    BY <1>3, <1>4 DEF Ends
  <2> HIDE DEF t
  <2>5. ASSUME NEW i \in keys, IsPrefix(t, i)
        PROVE  IsPrefix(k, i)
    <3>1. CASE k = to
      BY <1>2, <1>5, <2>2, <2>5, <3>1, PrefixTransitive
    <3>2. CASE k = q
      <4>1. IsPrefix(t, c)
        BY <2>2, <2>5, <3>2 DEF IsTurn
      <4> QED
        BY <1>2, <2>2, <4>1, PrefixAntisymmetric
    <3> QED
      BY <3>1, <3>2
  <2>6. ASSUME IsPrefix(t, q)
        PROVE  IsPrefix(k, q)
    <3>1. CASE k = to
      <4>1. IsPrefix(t, c)
        BY <1>3, <2>2, <2>6, <3>1, CommonIsLongest
      <4> QED
        BY <1>2, <2>2, <4>1, PrefixAntisymmetric
    <3>2. CASE k = q
      BY <3>2, PrefixReflexive
    <3> QED
      BY <3>1, <3>2
  <2>7. Leads(more, t, k)
    BY <2>2, <2>5, <2>6 DEF Leads
  <2> QED
    BY <2>3, <2>4, <2>7, SpanOf DEF t
<1>10. \A s \in L : s = <<s[1], s[2]>> /\ s \in Spans(more)
  <2>1. \A s \in {<<at, c>>, <<c, c>>} : s = <<s[1], s[2]>> /\ s \in Spans(more)
    BY <1>7, <1>8
  <2>2. \A s \in arms : s = <<s[1], s[2]>> /\ s \in Spans(more)
    BY <1>9
  <2> HIDE DEF more, old, arms
  <2> QED
    BY <1>6, <2>1, <2>2
<1>11. ASSUME NEW p \in Positions(more)
       PROVE  \E e : <<p, e>> \in L
  <2>1. CASE p \in Positions(keys)
    <3>1. PICK e : <<p, e>> \in Spans(keys)
      BY <2>1, PositionTypes, EndExists, SpanOf
    <3>2. CASE p = at
      BY <3>2
    <3>3. CASE p # at
      BY <3>1, <3>3
    <3> QED
      BY <3>2, <3>3
  <2>2. CASE p = c
    BY <2>2
  <2>3. ASSUME NEW k \in more, IsPrefix(c, k), c # k, p = Toward(c, k)
        PROVE  \E e : <<p, e>> \in L
    <3>1. CASE k = q
      <4>1. <<p, q>> \in arms
        BY <2>3, <3>1
      <4> QED
        BY <4>1
    <3>2. CASE k \in keys
      <4>1. IsPrefix(to, k) /\ k \in Path
        BY <1>5, <2>3, <3>2
      <4>2. CASE to = c
        \* c is a key, and k another one below it
        <5>1. c \in keys /\ Common(c, k) = c
          BY <1>2, <1>3, <2>3, <4>1, <4>2, CommonOfPrefix DEF Ends
        <5> QED
          BY <2>3, <3>2, <5>1, ForkOfTwo
      <4>3. CASE to # c
        <5> DEFINE t == Toward(c, to)
                   u == Toward(c, k)
        <5>1. /\ t \in Path /\ IsPrefix(c, t) /\ c # t /\ IsPrefix(t, to)
              /\ \A r \in Path : IsPrefix(c, r) /\ c # r /\ IsPrefix(r, to)
                                    => IsPrefix(t, r)
          BY <1>2, <1>3, <4>3, TowardIsNext
        <5>2. /\ u \in Path /\ IsPrefix(c, u) /\ c # u
              /\ \A r \in Path : IsPrefix(c, r) /\ c # r /\ IsPrefix(r, k)
                                    => IsPrefix(u, r)
          BY <1>2, <2>3, <4>1, TowardIsNext
        <5> HIDE DEF t, u
        <5>3. IsPrefix(t, k)
          BY <1>3, <4>1, <5>1, PrefixTransitive
        <5>4. IsPrefix(u, t)
          BY <5>1, <5>2, <5>3
        <5>5. IsPrefix(u, to)
          BY <1>3, <5>1, <5>2, <5>4, PrefixTransitive
        <5>6. t = u
          BY <5>1, <5>2, <5>4, <5>5, PrefixAntisymmetric
        <5>7. <<p, to>> \in arms
          BY <2>3, <4>3, <5>6 DEF t, u
        <5> QED
          BY <5>7
      <4> QED
        BY <4>2, <4>3
    <3> QED
      BY <3>1, <3>2
  <2>4. \/ p \in Positions(keys) \/ p = c
        \/ \E k \in more : IsPrefix(c, k) /\ c # k /\ p = Toward(c, k)
    <3>1. p \in Places(more) \/ p \in Forks(more)
      BY DEF Positions
    <3>2. p \in Places(more) =>
            \/ p \in Places(keys)
            \/ \E k \in more : IsPrefix(c, k) /\ c # k /\ p = Toward(c, k)
      BY NewPlaces
    <3> QED
      BY <1>4, <3>1, <3>2 DEF Positions
  <2> QED
    BY <2>1, <2>2, <2>3, <2>4
<1> HIDE DEF more, L
<1>12. Spans(more) = L
  BY <1>1, <1>10, <1>11, SpansAre
<1> QED
  BY <1>12 DEF more, L
-----------------------------------------------------------------------------
(* The nodes of the prescribed trie.                                        *)

LEMMA CanonicalParts ==
    ASSUME NEW contents, NEW at, NEW to
    PROVE  LET x == CanonicalNode(contents, at, to)
               keys == DOMAIN contents
           IN  /\ x.at = at /\ x.to = to
               /\ to \notin Forks(keys) =>
                    x = LeafNode(at, to, contents[to]) /\ x.type = "Leaf"
               /\ to \in Forks(keys) /\ at # to =>
                    x = ExtensionNode(at, to) /\ x.type = "Extension"
               /\ to \in Forks(keys) /\ at = to =>
                    /\ x = BranchNode(to, IF to \in keys THEN contents[to] ELSE NoValue)
                    /\ x.type = "Branch"
<1>1. CASE to \notin Forks(DOMAIN contents)
  BY <1>1 DEF CanonicalNode, LeafNode
<1>2. CASE to \in Forks(DOMAIN contents) /\ at # to
  BY <1>2 DEF CanonicalNode, ExtensionNode
<1>3. CASE to \in Forks(DOMAIN contents) /\ at = to
  BY <1>3 DEF CanonicalNode, BranchNode
<1> QED
  BY <1>1, <1>2, <1>3

LEMMA NodeOfSpan ==
    ASSUME NEW contents, NEW x \in Canonical(contents)
    PROVE  /\ <<x.at, x.to>> \in Spans(DOMAIN contents)
           /\ x = CanonicalNode(contents, x.at, x.to)
<1>1. PICK span \in Spans(DOMAIN contents) :
            x = CanonicalNode(contents, span[1], span[2])
  BY DEF Canonical
<1>2. span = <<span[1], span[2]>>
  BY SpanIsPair
<1>3. x.at = span[1] /\ x.to = span[2]
  BY <1>1, CanonicalParts
<1> QED
  BY <1>1, <1>2, <1>3

LEMMA NoKeysNoNodes ==
    ASSUME NEW contents, DOMAIN contents = {}
    PROVE  Canonical(contents) = {}
<1>1. Ends(DOMAIN contents) = {}
  BY DEF Ends, Forks
<1> QED
  BY <1>1, NodeOfSpan, SpanOf

\* Put and Lookup end at the node of the last span.
LEMMA Reached ==
    ASSUME NEW contents, DOMAIN contents \in SUBSET Path, DOMAIN contents # {},
           nodes = Canonical(contents), NEW q \in Path,
           NEW at, NEW to, IsLastSpan(DOMAIN contents, q, at, to)
    PROVE  /\ CanonicalNode(contents, at, to) \in nodes
           /\ \A x \in nodes :
                IsReached(x, q) <=> x = CanonicalNode(contents, at, to)
<1> DEFINE keys == DOMAIN contents
           last == CanonicalNode(contents, at, to)
<1>1. /\ <<at, to>> \in Spans(keys) /\ IsPrefix(at, q)
      /\ \A r \in Positions(keys) : IsPrefix(r, q) => IsPrefix(r, at)
  BY DEF IsLastSpan
<1>2. at \in Positions(keys) /\ at \in Path /\ to \in Ends(keys) /\ Leads(keys, at, to)
  BY <1>1, SpanOf, PositionTypes
<1>3. last \in nodes /\ last.at = at /\ last.to = to
  <2>1. <<at, to>>[1] = at /\ <<at, to>>[2] = to
    OBVIOUS
  <2> QED
    BY <1>1, <2>1, CanonicalParts DEF Canonical
<1>4. ASSUME NEW x \in nodes
      PROVE  /\ x.at \in Path /\ x.at \in Positions(keys)
             /\ x.to \in Ends(keys) /\ Leads(keys, x.at, x.to)
             /\ x = CanonicalNode(contents, x.at, x.to)
  <2>1. <<x.at, x.to>> \in Spans(keys) /\ x = CanonicalNode(contents, x.at, x.to)
    BY NodeOfSpan
  <2>2. x.at \in Positions(keys) /\ x.to \in Ends(keys) /\ Leads(keys, x.at, x.to)
    BY <2>1, SpanOf
  <2> QED
    BY <2>1, <2>2, PositionTypes
<1> HIDE DEF keys, last
<1>5. IsReached(last, q)
  <2>1. \A y \in OnTheWay(q) : Len(y.at) <= Len(at)
    BY <1>1, <1>2, <1>4, PrefixIsShorter DEF OnTheWay
  <2> QED
    BY <1>1, <1>3, <2>1 DEF IsReached, OnTheWay
<1>6. ASSUME NEW x \in nodes, IsReached(x, q)
      PROVE  x = last
  <2>1. IsPrefix(x.at, q) /\ Len(at) <= Len(x.at)
    BY <1>1, <1>3, <1>6 DEF IsReached, OnTheWay
  <2>2. IsPrefix(x.at, at)
    BY <1>1, <1>4, <2>1
  <2>3. Len(at) \in Nat /\ Len(x.at) \in Nat
    BY <1>2, <1>4 DEF Path
  <2>4. x.at = at
    BY <1>2, <1>4, <2>1, <2>2, <2>3, PrefixIsShorter
  <2>5. keys \in SUBSET Path
    BY DEF keys
  <2>6. x.to = to
    BY <1>2, <1>4, <2>4, <2>5, EndIsUnique
  <2> QED
    BY <1>4, <2>4, <2>6 DEF last
<1> QED
  BY <1>3, <1>5, <1>6 DEF last

-----------------------------------------------------------------------------
(* What the prescribed trie holds.                                          *)

Contents == UNION {[keys -> Value] : keys \in SUBSET Paths}

LEMMA FromBytesIsPath ==
    ASSUME NEW bytes \in Seq(0 .. 255)
    PROVE  /\ FromBytes(bytes) \in Path
           /\ Len(FromBytes(bytes)) = 2 * Len(bytes)
<1> DEFINE n == 2 * Len(bytes)
           p == FromBytes(bytes)
<1>1. Len(bytes) \in Nat
  OBVIOUS
<1>2. ASSUME NEW i \in 1 .. Len(bytes)
      PROVE  bytes[i] \div 16 \in Nat /\ bytes[i] % 16 \in Nat
  <2>1. bytes[i] \in 0 .. 255
    BY ElementOfSeq
  <2>2. \A byte \in 0 .. 255 : byte \div 16 \in Nat /\ byte % 16 \in Nat
    OBVIOUS
  <2> QED
    BY <2>1, <2>2, Zenon
<1>3. ASSUME NEW j \in 1 .. n
      PROVE  p[j] \in Nat
  <2>1. CASE j % 2 = 1
    <3>1. (j + 1) \div 2 \in 1 .. Len(bytes)
      BY <1>1, <2>1
    <3>2. bytes[(j + 1) \div 2] \div 16 \in Nat
      BY <1>2, <3>1
    <3> QED
      BY <2>1, <3>2 DEF FromBytes
  <2>2. CASE j % 2 # 1
    <3>1. j \div 2 \in 1 .. Len(bytes)
      BY <1>1, <2>2
    <3>2. bytes[j \div 2] % 16 \in Nat
      BY <1>2, <3>1
    <3> QED
      BY <2>2, <3>2 DEF FromBytes
  <2> QED
    BY <2>1, <2>2
<1>4. p = [j \in 1 .. n |-> p[j]] /\ n \in Nat
  BY <1>1 DEF FromBytes
<1> HIDE DEF n, p
<1>5. p \in [1 .. n -> Nat]
  BY <1>3, <1>4
<1>6. p \in Path /\ Len(p) = n
  BY <1>4, <1>5 DEF Path
<1> QED
  BY <1>6 DEF p, n

LEMMA PathsAreNibbles == Paths \subseteq Path
  BY KeyAssumption, FromBytesIsPath DEF Paths

LEMMA ContentsTypes ==
    ASSUME NEW contents \in Contents
    PROVE  /\ DOMAIN contents \in SUBSET Path /\ DOMAIN contents \subseteq Paths
           /\ contents = [k \in DOMAIN contents |-> contents[k]]
           /\ \A k \in DOMAIN contents : contents[k] \in Value /\ contents[k] # NoValue
<1>1. PICK keys \in SUBSET Paths : contents \in [keys -> Value]
  BY DEF Contents
<1> QED
  BY <1>1, PathsAreNibbles, ValueAssumption

LEMMA LookupInCanonical ==
    ASSUME NEW contents \in Contents, nodes = Canonical(contents), NEW p \in Path
    PROVE  Lookup(p) = IF p \in DOMAIN contents THEN contents[p] ELSE NoValue
<1> DEFINE keys == DOMAIN contents
           found == {x \in nodes : x.to = p /\ IsReached(x, p)}
<1>1. keys \in SUBSET Path
  BY ContentsTypes
<1>2. CASE keys = {}
  <2>1. found = {}
    BY <1>2, NoKeysNoNodes
  <2> QED
    BY <1>2, <2>1 DEF Lookup
<1>3. CASE keys # {}
  <2>1. PICK c : IsTurn(keys, p, c)
    BY <1>1, <1>3, TurnExists
  <2>2. PICK at, to : IsLastSpan(keys, p, at, to)
    BY <1>1, <1>3, LastSpanExists
  <2> DEFINE last == CanonicalNode(contents, at, to)
  <2>3. last.at = at /\ last.to = to
    BY CanonicalParts
  <2>4. last \in nodes /\ \A x \in nodes : IsReached(x, p) <=> x = last
    BY <1>1, <1>3, <2>2, Reached
  <2>5. CASE to # p
    <3>1. found = {}
      BY <2>3, <2>4, <2>5
    <3>2. p \notin keys
      <4> SUFFICES ASSUME p \in keys PROVE FALSE
        OBVIOUS
      <4>1. c = p
        BY <2>1, PrefixReflexive, PrefixAntisymmetric DEF IsTurn
      <4>2. CASE c \in Forks(keys)
        BY <1>1, <1>3, <2>1, <2>2, <2>5, <4>1, <4>2, LastAtFork
      <4>3. CASE c \notin Forks(keys)
        <5>1. to \in Path /\ Leads(keys, at, to) /\ IsPrefix(c, to)
          BY <1>1, <1>3, <2>1, <2>2, <4>3, LastBeforeTurn
        <5>2. IsPrefix(to, p)
          BY <2>2, <5>1 DEF IsLastSpan, Leads
        <5> QED
          BY <2>5, <4>1, <5>1, <5>2, PrefixAntisymmetric
      <4> QED
        BY <4>2, <4>3
    <3> QED
      BY <3>1, <3>2 DEF Lookup
  <2>6. CASE to = p
    <3>1. found = {last}
      BY <2>3, <2>4, <2>6
    <3>2. Lookup(p) = last.value
      BY <3>1 DEF Lookup
    <3>3. to \in Ends(keys) /\ at \in Path
      BY <1>1, <2>2, SpanOf, PositionTypes DEF IsLastSpan
    <3>4. CASE to \notin Forks(keys)
      <4>1. last.value = contents[p] /\ p \in keys
        BY <2>6, <3>3, <3>4, CanonicalParts DEF Ends, LeafNode
      <4> QED
        BY <3>2, <4>1
    <3>5. CASE to \in Forks(keys) /\ at = to
      <4>1. last.value = IF p \in keys THEN contents[p] ELSE NoValue
        BY <2>6, <3>5, CanonicalParts DEF BranchNode
      <4> QED
        BY <3>2, <4>1
    <3>6. CASE to \in Forks(keys) /\ at # to
      <4>1. last.value = NoValue
        BY <3>6, CanonicalParts DEF ExtensionNode
      <4>2. p \notin keys
        <5> SUFFICES ASSUME p \in keys PROVE FALSE
          OBVIOUS
        <5>1. c = p
          BY <2>1, PrefixReflexive, PrefixAntisymmetric DEF IsTurn
        <5> QED
          BY <1>1, <1>3, <2>1, <2>2, <2>6, <3>6, <5>1, LastAtFork
      <4> QED
        BY <3>2, <4>1, <4>2
    <3> QED
      BY <3>4, <3>5, <3>6
  <2> QED
    BY <2>5, <2>6
<1> QED
  BY <1>2, <1>3

HoldsItsContents ==
    \A contents \in Contents : nodes = Canonical(contents) => RootContents = contents

LEMMA ContentsOfCanonical == HoldsItsContents
<1> SUFFICES ASSUME NEW contents \in Contents, nodes = Canonical(contents)
             PROVE  RootContents = contents
  BY DEF HoldsItsContents
<1>1. /\ DOMAIN contents \subseteq Paths
      /\ contents = [k \in DOMAIN contents |-> contents[k]]
      /\ \A k \in DOMAIN contents : contents[k] # NoValue
  BY ContentsTypes
<1>2. \A p \in Paths :
        Lookup(p) = IF p \in DOMAIN contents THEN contents[p] ELSE NoValue
  BY LookupInCanonical, PathsAreNibbles
<1>3. {p \in Paths : Lookup(p) # NoValue} = DOMAIN contents
  BY <1>1, <1>2
<1>4. RootContents = [k \in DOMAIN contents |-> contents[k]]
  BY <1>1, <1>2, <1>3 DEF RootContents
<1> QED
  BY <1>1, <1>4
-----------------------------------------------------------------------------
(* Putting one key turns the prescribed trie into the prescribed one.       *)

Updated(contents, path, value) ==
    [k \in DOMAIN contents \cup {path} |-> IF k = path THEN value ELSE contents[k]]

LEMMA UpdatedIsContents ==
    ASSUME NEW contents \in Contents, NEW q \in Paths, NEW value \in Value
    PROVE  Updated(contents, q, value) \in Contents
<1>1. PICK keys \in SUBSET Paths : contents \in [keys -> Value]
  BY DEF Contents
<1>2. Updated(contents, q, value) \in [keys \cup {q} -> Value]
  BY <1>1 DEF Updated
<1>3. keys \cup {q} \in SUBSET Paths
  OBVIOUS
<1> QED
  BY <1>2, <1>3 DEF Contents

\* A path that is the beginning of a key does not part from the keys.
LEMMA TurnOfBeginning ==
    ASSUME NEW keys \in SUBSET Path, NEW q \in Path, NEW c, IsTurn(keys, q, c),
           NEW k \in keys, IsPrefix(q, k)
    PROVE  c = q
  BY PrefixReflexive, PrefixAntisymmetric DEF IsTurn

\* Nodes other than the last one are in place already.
LEMMA OthersKeep ==
    ASSUME NEW contents \in Contents, DOMAIN contents # {},
           NEW q \in Path, NEW value,
           NEW c, IsTurn(DOMAIN contents, q, c),
           NEW at, NEW to, IsLastSpan(DOMAIN contents, q, at, to),
           NEW p, NEW e, <<p, e>> \in Spans(DOMAIN contents), <<p, e>> # <<at, to>>
    PROVE  CanonicalNode(Updated(contents, q, value), p, e) = CanonicalNode(contents, p, e)
<1> DEFINE keys == DOMAIN contents
           updated == Updated(contents, q, value)
<1>1. keys \in SUBSET Path /\ q \in Path
  BY ContentsTypes
<1>2. /\ p \in Positions(keys) /\ e \in Ends(keys) /\ Leads(keys, p, e)
      /\ p \in Path /\ e \in Path /\ \E k \in keys : IsPrefix(e, k)
  BY <1>1, SpanOf, PositionTypes
<1>3. /\ at \in Positions(keys) /\ to \in Ends(keys) /\ Leads(keys, at, to)
      /\ at \in Path
  BY <1>1, SpanOf, PositionTypes DEF IsLastSpan
<1>4. p # at
  BY <1>1, <1>2, <1>3, EndIsUnique
<1>5. e = q => c = q
  BY <1>1, <1>2, TurnOfBeginning
<1>6. /\ DOMAIN updated = keys \cup {q}
      /\ \A k \in keys : k # q => updated[k] = contents[k]
  BY DEF Updated
<1>7. Forks(DOMAIN updated) = Forks(keys) \/ Forks(DOMAIN updated) = Forks(keys) \cup {c}
  <2>1. CASE q \in keys
    BY <1>6, <2>1
  <2>2. CASE q \notin keys
    BY <1>1, <1>6, <2>2, NewForks
  <2> QED
    BY <2>1, <2>2
<1>8. /\ e \in Forks(DOMAIN updated) <=> e \in Forks(keys)
      /\ e # q \/ (e \in Forks(keys) /\ p # e)
  <2>1. CASE c \in Forks(keys)
    BY <1>1, <1>4, <1>5, <1>7, <2>1, LastAtFork
  <2>2. CASE c \notin Forks(keys)
    <3>1. /\ IsPrefix(at, c)
          /\ IsPrefix(p, q) => IsPrefix(e, at) /\ e # at
      BY <1>1, <1>4, <2>2, LastBeforeTurn
    <3>2. e # c
      BY <1>2, <1>3, <3>1, PrefixTransitive, PrefixAntisymmetric DEF Leads, IsTurn
    <3> QED
      BY <1>5, <1>7, <3>2
  <2> QED
    BY <2>1, <2>2
<1> HIDE DEF keys, updated
<1>9. e \in keys => e \in DOMAIN updated
  BY <1>6
<1>10. e \in DOMAIN updated /\ e # q => e \in keys
  BY <1>6
<1> QED
  BY <1>2, <1>6, <1>8, <1>9, <1>10 DEF CanonicalNode, Ends, keys, updated

NodesOf(contents, spans) == {CanonicalNode(contents, s[1], s[2]) : s \in spans}

LEMMA NodesOfPairs ==
    ASSUME NEW contents, NEW at, NEW to
    PROVE  NodesOf(contents, {<<at, to>>}) = {CanonicalNode(contents, at, to)}
  BY DEF NodesOf

LEMMA NodesOfUnion ==
    ASSUME NEW contents, NEW S, NEW T
    PROVE  NodesOf(contents, S \cup T) = NodesOf(contents, S) \cup NodesOf(contents, T)
  BY DEF NodesOf

\* So the trie is rebuilt by replacing the last one.
LEMMA Rebuild ==
    ASSUME NEW contents \in Contents, DOMAIN contents # {},
           nodes = Canonical(contents), NEW q \in Path, NEW value,
           NEW c, IsTurn(DOMAIN contents, q, c),
           NEW at, NEW to, IsLastSpan(DOMAIN contents, q, at, to), NEW new,
           Spans(DOMAIN contents \cup {q}) =
                (Spans(DOMAIN contents) \ {<<at, to>>}) \cup new
    PROVE  LET updated == Updated(contents, q, value)
           IN  Canonical(updated) =
                    (nodes \ {CanonicalNode(contents, at, to)}) \cup NodesOf(updated, new)
<1> DEFINE updated == Updated(contents, q, value)
           last == CanonicalNode(contents, at, to)
           others == Spans(DOMAIN contents) \ {<<at, to>>}
           rest == {CanonicalNode(updated, s[1], s[2]) : s \in others}
           put == NodesOf(updated, new)
<1>1. DOMAIN updated = DOMAIN contents \cup {q}
  BY DEF Updated
<1>2. Canonical(updated) = rest \cup put
  <2>1. Canonical(updated) = NodesOf(updated, others \cup new)
    BY <1>1 DEF Canonical, NodesOf
  <2>2. rest = NodesOf(updated, others)
    BY DEF NodesOf
  <2> QED
    BY <2>1, <2>2, NodesOfUnion
<1>3. \A s \in others :
            /\ s = <<s[1], s[2]>>
            /\ CanonicalNode(updated, s[1], s[2]) = CanonicalNode(contents, s[1], s[2])
  <2> TAKE s \in others
  <2>1. s = <<s[1], s[2]>> /\ s \in Spans(DOMAIN contents) /\ s # <<at, to>>
    BY SpanIsPair
  <2>2. <<s[1], s[2]>> \in Spans(DOMAIN contents) /\ <<s[1], s[2]>> # <<at, to>>
    BY <2>1
  <2> HIDE DEF updated, others
  <2>3. CanonicalNode(updated, s[1], s[2]) = CanonicalNode(contents, s[1], s[2])
    BY <2>2, OthersKeep DEF updated
  <2> QED
    BY <2>1, <2>3
<1>4. ASSUME NEW x \in nodes, x # last
      PROVE  x \in rest
  <2>1. <<x.at, x.to>> \in Spans(DOMAIN contents) /\ x = CanonicalNode(contents, x.at, x.to)
    BY NodeOfSpan
  <2>2. <<x.at, x.to>> \in others
    BY <1>4, <2>1
  <2> DEFINE s == <<x.at, x.to>>
  <2>3. s \in others /\ s[1] = x.at /\ s[2] = x.to
    BY <2>2
  <2> HIDE DEF s, updated, others
  <2>4. x = CanonicalNode(updated, s[1], s[2])
    BY <1>3, <2>1, <2>3
  <2> QED
    BY <2>3, <2>4
<1>5. ASSUME NEW s \in others
      PROVE  CanonicalNode(contents, s[1], s[2]) \in nodes \ {last}
  <2>1. CanonicalNode(contents, s[1], s[2]) \in nodes
    BY DEF Canonical
  <2>2. CanonicalNode(contents, s[1], s[2]) # last
    BY <1>3, <1>5, CanonicalParts
  <2> QED
    BY <2>1, <2>2
<1>6. rest = nodes \ {last}
  BY <1>3, <1>4, <1>5
<1> QED
  BY <1>2, <1>6

\* The first key: a leaf at the root.
LEMMA FirstKey ==
    ASSUME NEW contents, DOMAIN contents = {}, NEW q \in Path, NEW value
    PROVE  Canonical(Updated(contents, q, value)) = {LeafNode(<<>>, q, value)}
<1> DEFINE updated == Updated(contents, q, value)
           L == {<< <<>>, q >>}
<1>1. DOMAIN updated = {q} /\ updated[q] = value
  BY DEF Updated
<1>2. Forks({q}) = {}
  BY DEF Forks
<1>3. Positions({q}) = {<<>>} /\ Ends({q}) = {q}
  BY <1>2, PlaceOf DEF Positions, Ends
<1>4. Leads({q}, <<>>, q)
  BY EmptyIsPrefix, PrefixReflexive DEF Leads
<1>5. Spans({q}) = L
  <2>1. {q} \in SUBSET Path
    OBVIOUS
  <2>2. << <<>>, q >> \in Spans({q})
    BY <1>3, <1>4, SpanOf
  <2>3. \A s \in L : s = <<s[1], s[2]>> /\ s \in Spans({q})
    BY <2>2
  <2>4. \A at \in Positions({q}) : \E e : <<at, e>> \in L
    BY <1>3
  <2> HIDE DEF L
  <2> QED
    BY <2>1, <2>3, <2>4, SpansAre
<1> HIDE DEF updated
<1>6. Canonical(updated) = {CanonicalNode(updated, <<>>, q)}
  <2>1. Canonical(updated) = {CanonicalNode(updated, s[1], s[2]) : s \in Spans({q})}
    BY <1>1 DEF Canonical
  <2> QED
    BY <1>5, <2>1
<1>7. CanonicalNode(updated, <<>>, q) = LeafNode(<<>>, q, value)
  <2>1. q \notin Forks(DOMAIN updated)
    BY <1>1, <1>2
  <2> QED
    BY <1>1, <2>1, CanonicalParts
<1> QED
  BY <1>6, <1>7 DEF updated
LEMMA PutAtBranch ==
    ASSUME NEW contents \in Contents, DOMAIN contents # {},
           nodes = Canonical(contents), NEW q \in Path, NEW value,
           NEW c, IsTurn(DOMAIN contents, q, c), c \in Forks(DOMAIN contents),
           NEW at, NEW to, IsLastSpan(DOMAIN contents, q, at, to)
    PROVE  LET last == CanonicalNode(contents, at, to)
           IN  /\ last.type = "Branch"
               /\ Canonical(Updated(contents, q, value)) =
                    (nodes \ {last}) \cup PutKeyBranchNode(last, q, value)
<1> DEFINE keys == DOMAIN contents
           updated == Updated(contents, q, value)
           last == CanonicalNode(contents, at, to)
           t == Toward(c, q)
<1>1. keys \in SUBSET Path
  BY ContentsTypes
<1>2. at = c /\ to = c /\ <<c, c>> \in Spans(keys)
  BY <1>1, LastAtFork DEF IsLastSpan
<1>3. /\ last = BranchNode(c, IF c \in keys THEN contents[c] ELSE NoValue)
      /\ last.type = "Branch" /\ last.at = c
  BY <1>2, CanonicalParts
<1>4. /\ DOMAIN updated = keys \cup {q} /\ updated[q] = value
      /\ \A k \in keys : k # q => updated[k] = contents[k]
  BY DEF Updated
<1>5. q \in keys \/ q \in Forks(keys) => c = q
  <2>1. q \in Ends(keys) => \E k \in keys : IsPrefix(q, k)
    BY <1>1, PositionTypes
  <2> QED
    BY <1>1, <2>1, TurnOfBeginning DEF Ends
<1>6. Forks(DOMAIN updated) = Forks(keys)
  <2>1. CASE q \in keys
    <3>1. keys \cup {q} = keys
      BY <2>1
    <3> QED
      BY <1>4, <3>1
  <2>2. CASE q \notin keys
    BY <1>1, <1>4, <2>2, NewForks
  <2> QED
    BY <2>1, <2>2
<1>7. CanonicalNode(updated, c, c) =
        BranchNode(c, IF c \in DOMAIN updated THEN updated[c] ELSE NoValue)
  BY <1>6, CanonicalParts
<1> HIDE DEF updated, last, keys
<1>8. CASE q = c
  <2>1. Spans(keys \cup {q}) = Spans(keys)
    <3>1. CASE q \in keys
      <4>1. keys \cup {q} = keys
        BY <3>1
      <4> QED
        BY <4>1
    <3>2. CASE q \notin keys
      BY <1>1, <1>8, <3>2, SpansKept DEF keys
    <3> QED
      BY <3>1, <3>2
  <2>2. Spans(keys \cup {q}) = (Spans(keys) \ {<<at, to>>}) \cup {<<c, c>>}
    BY <1>2, <2>1
  <2>3. Canonical(updated) = (nodes \ {last}) \cup NodesOf(updated, {<<c, c>>})
    BY <2>2, Rebuild DEF keys, updated, last
  <2>4. NodesOf(updated, {<<c, c>>}) = {CanonicalNode(updated, c, c)}
    BY NodesOfPairs
  <2>5. CanonicalNode(updated, c, c) = BranchNode(q, value)
    BY <1>4, <1>7, <1>8
  <2>6. PutKeyBranchNode(last, q, value) = {BranchNode(q, value)}
    BY <1>3, <1>8 DEF PutKeyBranchNode
  <2> QED
    BY <1>3, <2>3, <2>4, <2>5, <2>6 DEF updated, last
<1>9. CASE q # c
  <2>1. q \notin keys /\ q \notin Forks(keys)
    BY <1>5, <1>9
  <2>2. Spans(keys \cup {q}) = Spans(keys) \cup {<<t, q>>}
    BY <1>1, <1>9, <2>1, SpansGrow DEF keys
  <2>3. Spans(keys \cup {q}) = (Spans(keys) \ {<<at, to>>}) \cup {<<c, c>>, <<t, q>>}
    BY <1>2, <2>2
  <2>4. Canonical(updated) = (nodes \ {last}) \cup NodesOf(updated, {<<c, c>>, <<t, q>>})
    <3> HIDE DEF t
    <3> QED
      BY <2>3, Rebuild DEF keys, updated, last
  <2>5. NodesOf(updated, {<<c, c>>, <<t, q>>}) =
            {CanonicalNode(updated, c, c), CanonicalNode(updated, t, q)}
    <3> HIDE DEF t
    <3> QED
      BY DEF NodesOf
  <2>6. CanonicalNode(updated, c, c) = last
    BY <1>3, <1>4, <1>7, <1>9
  <2>7. CanonicalNode(updated, t, q) = LeafNode(t, q, value)
    BY <1>4, <1>6, <2>1, CanonicalParts
  <2>8. PutKeyBranchNode(last, q, value) = {last, LeafNode(t, q, value)}
    BY <1>3, <1>9 DEF PutKeyBranchNode
  <2> QED
    BY <1>3, <2>4, <2>5, <2>6, <2>7, <2>8 DEF updated, last
<1> QED
  BY <1>8, <1>9

\* What holds at the last node when the path parts from the keys behind it.
LEMMA BehindLast ==
    ASSUME NEW contents \in Contents, DOMAIN contents # {},
           NEW q \in Path, NEW c, IsTurn(DOMAIN contents, q, c),
           c \notin Forks(DOMAIN contents),
           NEW at, NEW to, IsLastSpan(DOMAIN contents, q, at, to)
    PROVE  LET keys == DOMAIN contents
           IN  /\ at \in Path /\ to \in Path /\ c \in Path
               /\ IsPrefix(at, c) /\ IsPrefix(c, to) /\ IsPrefix(c, q)
               /\ Common(q, to) = c
               /\ q \notin Forks(keys)
               /\ c \in keys => c = to
               /\ q \in keys => q = c
               /\ to \notin Forks(keys) => to \in keys
               /\ to \in Forks(keys) => at # to
<1> DEFINE keys == DOMAIN contents
<1>1. keys \in SUBSET Path
  BY ContentsTypes
<1>2. /\ at \in Path /\ to \in Path /\ to \in Ends(keys) /\ Leads(keys, at, to)
      /\ IsPrefix(at, c) /\ IsPrefix(c, to) /\ Common(q, to) = c
  BY <1>1, LastBeforeTurn
<1>3. c \in Path /\ IsPrefix(c, q)
  BY DEF IsTurn
<1>4. q \in Ends(keys) => q = c
  BY <1>1, PositionTypes, TurnOfBeginning
<1>5. c \in keys => c = to
  BY <1>2, <1>3, PrefixAntisymmetric DEF Leads
<1>6. to \in Forks(keys) => at # to
  BY <1>2, <1>3, PrefixAntisymmetric
<1> QED
  BY <1>2, <1>3, <1>4, <1>5, <1>6 DEF Ends

LEMMA PutAtOwnLeaf ==
    ASSUME NEW contents \in Contents, DOMAIN contents # {},
           nodes = Canonical(contents), NEW q \in DOMAIN contents, NEW value,
           NEW c, IsTurn(DOMAIN contents, q, c), c \notin Forks(DOMAIN contents),
           NEW at, NEW to, IsLastSpan(DOMAIN contents, q, at, to)
    PROVE  LET last == CanonicalNode(contents, at, to)
           IN  /\ last.type = "Leaf"
               /\ Canonical(Updated(contents, q, value)) =
                    (nodes \ {last}) \cup PutKeyLeafNode(last, q, value)
<1> DEFINE keys == DOMAIN contents
           updated == Updated(contents, q, value)
           last == CanonicalNode(contents, at, to)
<1>1. keys \in SUBSET Path /\ q \in Path /\ <<at, to>> \in Spans(keys)
  BY ContentsTypes DEF IsLastSpan
<1>2. c = q /\ to = q /\ q \notin Forks(keys)
  BY <1>1, BehindLast
<1>3. /\ DOMAIN updated = keys /\ keys \cup {q} = keys /\ updated[q] = value
  BY DEF Updated
<1>4. last = LeafNode(at, q, contents[q]) /\ last.type = "Leaf"
      /\ last.at = at /\ last.to = q
  BY <1>2, CanonicalParts
<1>5. CanonicalNode(updated, at, to) = LeafNode(at, q, value)
  BY <1>2, <1>3, CanonicalParts
<1> HIDE DEF updated, last, keys
<1>6. Spans(keys \cup {q}) = (Spans(keys) \ {<<at, to>>}) \cup {<<at, to>>}
  BY <1>1, <1>3
<1>7. Canonical(updated) = (nodes \ {last}) \cup NodesOf(updated, {<<at, to>>})
  BY <1>1, <1>6, Rebuild DEF keys, updated, last
<1>8. NodesOf(updated, {<<at, to>>}) = {CanonicalNode(updated, at, to)}
  BY NodesOfPairs
<1>9. PutKeyLeafNode(last, q, value) = {LeafNode(at, q, value)}
  BY <1>4 DEF PutKeyLeafNode
<1> QED
  BY <1>4, <1>5, <1>7, <1>8, <1>9 DEF updated, last

\* A new key that turns off behind the last node: what lies there then.
LEMMA AfterSplit ==
    ASSUME NEW contents \in Contents, DOMAIN contents # {},
           nodes = Canonical(contents), NEW q \in Path, q \notin DOMAIN contents,
           NEW value,
           NEW c, IsTurn(DOMAIN contents, q, c), c \notin Forks(DOMAIN contents),
           NEW at, NEW to, IsLastSpan(DOMAIN contents, q, at, to)
    PROVE  LET updated == Updated(contents, q, value)
           IN  Canonical(updated) =
                UNION {nodes \ {CanonicalNode(contents, at, to)},
                       Extend(at, c),
                       {BranchNode(c, IF c \in DOMAIN updated THEN updated[c] ELSE NoValue)},
                       IF c = to THEN {} ELSE {CanonicalNode(updated, Toward(c, to), to)},
                       IF c = q THEN {} ELSE {LeafNode(Toward(c, q), q, value)}}
<1> DEFINE keys == DOMAIN contents
           updated == Updated(contents, q, value)
           last == CanonicalNode(contents, at, to)
           stem == {<<at, c>>, <<c, c>>}
           old == IF c = to THEN {} ELSE {<<Toward(c, to), to>>}
           arm == IF c = q THEN {} ELSE {<<Toward(c, q), q>>}
           far == IF c = to THEN {} ELSE {CanonicalNode(updated, Toward(c, to), to)}
           near == IF c = q THEN {} ELSE {LeafNode(Toward(c, q), q, value)}
           branch == BranchNode(c, IF c \in DOMAIN updated THEN updated[c] ELSE NoValue)
<1>1. keys \in SUBSET Path
  BY ContentsTypes
<1>2. q \notin Forks(keys)
  BY BehindLast
<1>3. DOMAIN updated = keys \cup {q} /\ updated[q] = value
  BY DEF Updated
<1>4. Forks(DOMAIN updated) = Forks(keys) \cup {c}
  BY <1>1, <1>3, NewForks
<1>5. Spans(keys \cup {q}) =
        (Spans(keys) \ {<<at, to>>}) \cup (stem \cup old \cup arm)
  <2>1. Spans(keys \cup {q}) =
            (Spans(keys) \ {<<at, to>>}) \cup {<<at, c>>, <<c, c>>}
                \cup {<<Toward(c, k), k>> : k \in {to, q} \ {c}}
    BY <1>1, SpansSplit
  <2>2. {<<Toward(c, k), k>> : k \in {to, q} \ {c}} = old \cup arm
    OBVIOUS
  <2> HIDE DEF keys, old, arm
  <2> QED
    BY <2>1, <2>2
<1> HIDE DEF updated, last, keys
<1>6. Canonical(updated) =
        (nodes \ {last}) \cup NodesOf(updated, stem \cup old \cup arm)
  <2> HIDE DEF stem, old, arm
  <2> QED
    BY <1>5, Rebuild DEF keys, updated, last
<1>7. NodesOf(updated, stem) = Extend(at, c) \cup {branch}
  <2>1. NodesOf(updated, stem) =
            {CanonicalNode(updated, at, c), CanonicalNode(updated, c, c)}
    BY DEF NodesOf
  <2>2. CanonicalNode(updated, c, c) = branch
    BY <1>4, CanonicalParts
  <2>3. CASE at = c
    BY <2>1, <2>2, <2>3 DEF Extend
  <2>4. CASE at # c
    <3>1. CanonicalNode(updated, at, c) = ExtensionNode(at, c)
      BY <1>4, <2>4, CanonicalParts
    <3> QED
      BY <2>1, <2>2, <2>4, <3>1 DEF Extend
  <2> QED
    BY <2>3, <2>4
<1>8. NodesOf(updated, {}) = {}
  BY DEF NodesOf
<1>9. NodesOf(updated, old) = far
  BY <1>8, NodesOfPairs
<1>10. NodesOf(updated, arm) = near
  <2>1. CASE c = q
    BY <1>8, <2>1
  <2>2. CASE c # q
    <3>1. q \notin Forks(DOMAIN updated)
      BY <1>2, <1>4, <2>2
    <3>2. CanonicalNode(updated, Toward(c, q), q) = LeafNode(Toward(c, q), q, value)
      BY <1>3, <3>1, CanonicalParts
    <3> QED
      BY <2>2, <3>2, NodesOfPairs
  <2> QED
    BY <2>1, <2>2
<1>11. Canonical(updated) = UNION {nodes \ {last}, Extend(at, c), {branch}, far, near}
  <2> HIDE DEF branch, stem, old, arm, far, near
  <2>1. NodesOf(updated, stem \cup old \cup arm) =
            NodesOf(updated, stem)
                \cup NodesOf(updated, old) \cup NodesOf(updated, arm)
    BY DEF NodesOf
  <2> QED
    BY <1>6, <1>7, <1>9, <1>10, <2>1
<1> QED
  BY <1>11 DEF updated, last, branch
LEMMA PutAtLeaf ==
    ASSUME NEW contents \in Contents, DOMAIN contents # {},
           nodes = Canonical(contents), NEW q \in Path, q \notin DOMAIN contents,
           NEW value,
           NEW c, IsTurn(DOMAIN contents, q, c), c \notin Forks(DOMAIN contents),
           NEW at, NEW to, IsLastSpan(DOMAIN contents, q, at, to),
           to \notin Forks(DOMAIN contents)
    PROVE  LET last == CanonicalNode(contents, at, to)
           IN  /\ last.type = "Leaf"
               /\ Canonical(Updated(contents, q, value)) =
                    (nodes \ {last}) \cup PutKeyLeafNode(last, q, value)
<1> DEFINE keys == DOMAIN contents
           updated == Updated(contents, q, value)
           last == CanonicalNode(contents, at, to)
           kept == IF c = to THEN {} ELSE {LeafNode(Toward(c, to), to, contents[to])}
           arm == IF c = q THEN {} ELSE {LeafNode(Toward(c, q), q, value)}
           branch == BranchNode(c, IF c \in DOMAIN updated THEN updated[c] ELSE NoValue)
<1>1. keys \in SUBSET Path
  BY ContentsTypes
<1>2. /\ Common(q, to) = c /\ q \notin Forks(keys) /\ to \in keys
      /\ c \in keys => c = to
  BY BehindLast
<1>3. q # to
  BY <1>2
<1>4. /\ DOMAIN updated = keys \cup {q} /\ updated[q] = value
      /\ updated[to] = contents[to]
  BY <1>2, <1>3 DEF Updated
<1>5. /\ last = LeafNode(at, to, contents[to]) /\ last.type = "Leaf"
      /\ last.at = at /\ last.to = to /\ last.value = contents[to]
  BY CanonicalParts DEF LeafNode
<1>6. c # to => CanonicalNode(updated, Toward(c, to), to) =
                    LeafNode(Toward(c, to), to, contents[to])
  <2> SUFFICES ASSUME c # to
               PROVE  CanonicalNode(updated, Toward(c, to), to) =
                        LeafNode(Toward(c, to), to, contents[to])
    OBVIOUS
  <2>1. to \notin Forks(DOMAIN updated)
    BY <1>1, <1>4, NewForks
  <2> QED
    BY <1>4, <2>1, CanonicalParts
<1>7. branch = BranchNode(c, CASE c = q -> value
                               [] c = to -> last.value
                               [] OTHER -> NoValue)
  <2>1. CASE c = q
    BY <1>3, <1>4, <2>1
  <2>2. CASE c = to
    BY <1>2, <1>3, <1>4, <1>5, <2>2
  <2>3. CASE c # q /\ c # to
    BY <1>2, <1>4, <2>3
  <2> QED
    BY <2>1, <2>2, <2>3
<1>8. Canonical(updated) =
        UNION {nodes \ {last}, Extend(at, c), {branch},
               IF c = to THEN {} ELSE {CanonicalNode(updated, Toward(c, to), to)}, arm}
  BY AfterSplit
<1> HIDE DEF updated, last, branch, arm
<1>9. Canonical(updated) = UNION {nodes \ {last}, Extend(at, c), {branch}, kept, arm}
  BY <1>6, <1>8
<1>10. PutKeyLeafNode(last, q, value) = UNION {Extend(at, c), {branch}, kept, arm}
  BY <1>2, <1>3, <1>5, <1>7 DEF PutKeyLeafNode, arm
<1> HIDE DEF kept
<1>11. UNION {nodes \ {last}, Extend(at, c), {branch}, kept, arm} =
            (nodes \ {last}) \cup UNION {Extend(at, c), {branch}, kept, arm}
  OBVIOUS
<1> QED
  BY <1>5, <1>9, <1>10, <1>11 DEF updated, last

LEMMA PutAtExtension ==
    ASSUME NEW contents \in Contents, DOMAIN contents # {},
           nodes = Canonical(contents), NEW q \in Path, q \notin DOMAIN contents,
           NEW value,
           NEW c, IsTurn(DOMAIN contents, q, c), c \notin Forks(DOMAIN contents),
           NEW at, NEW to, IsLastSpan(DOMAIN contents, q, at, to),
           to \in Forks(DOMAIN contents)
    PROVE  LET last == CanonicalNode(contents, at, to)
           IN  /\ last.type = "Extension"
               /\ ~PastEnd(last, q) =>
                    Canonical(Updated(contents, q, value)) =
                        (nodes \ {last}) \cup PutKeyExtensionNode(last, q, value)
<1> DEFINE keys == DOMAIN contents
           updated == Updated(contents, q, value)
           last == CanonicalNode(contents, at, to)
           t == Toward(c, to)
           arm == {LeafNode(Toward(c, q), q, value)}
<1>1. keys \in SUBSET Path
  BY ContentsTypes
<1>2. /\ Common(q, to) = c /\ IsPrefix(c, to) /\ to \in Path /\ c \in Path
      /\ c \in keys => c = to
      /\ at # to /\ c # to
  BY BehindLast
<1>3. /\ DOMAIN updated = keys \cup {q}
      /\ \A k \in keys : k # q => updated[k] = contents[k]
  BY DEF Updated
<1>4. last = ExtensionNode(at, to) /\ last.type = "Extension"
      /\ last.at = at /\ last.to = to
  BY <1>2, CanonicalParts
<1>5. ASSUME ~PastEnd(last, q)
      PROVE  Canonical(updated) = (nodes \ {last}) \cup PutKeyExtensionNode(last, q, value)
  <2>1. c # q /\ q # to
    BY <1>2, <1>4, <1>5, PrefixReflexive DEF PastEnd
  <2>2. c \notin DOMAIN updated
    BY <1>2, <1>3, <2>1
  <2>3. Canonical(updated) =
            UNION {nodes \ {last}, Extend(at, c),
                   {BranchNode(c, IF c \in DOMAIN updated THEN updated[c] ELSE NoValue)},
                   IF c = to THEN {} ELSE {CanonicalNode(updated, t, to)},
                   IF c = q THEN {} ELSE arm}
    BY AfterSplit
  <2> HIDE DEF updated, last, arm
  <2>4. Canonical(updated) =
            UNION {nodes \ {last}, Extend(at, c), {BranchNode(c, NoValue)},
                   {CanonicalNode(updated, t, to)}, arm}
    BY <1>2, <2>1, <2>2, <2>3
  <2>5. PutKeyExtensionNode(last, q, value) =
            UNION {Extend(at, c), {BranchNode(c, NoValue)}, Extend(t, to), arm}
    BY <1>2, <1>4 DEF PutKeyExtensionNode, arm
  <2>6. to \in Forks(DOMAIN updated)
    BY <1>1, <1>3, NewForks
  <2>7. CASE t = to
    \* the branch that the extension led to stays
    <3>1. <<to, to>> \in Spans(keys)
      BY <1>1, <1>2, SpanOf, PrefixReflexive DEF Positions, Ends, Leads
    <3>2. CanonicalNode(contents, to, to) \in nodes
      <4>1. CanonicalNode(contents, to, to) \in NodesOf(contents, {<<to, to>>})
        BY NodesOfPairs
      <4>2. NodesOf(contents, {<<to, to>>}) \subseteq Canonical(contents)
        BY <3>1 DEF NodesOf, Canonical
      <4> QED
        BY <4>1, <4>2
    <3>3. CanonicalNode(updated, to, to) = CanonicalNode(contents, to, to)
      <4>1. <<to, to>> # <<at, to>>
        BY <1>2
      <4> QED
        BY <3>1, <4>1, OthersKeep DEF updated
    <3>4. CanonicalNode(contents, to, to) # last
      BY <1>2, <1>4, CanonicalParts
    <3>5. CanonicalNode(updated, t, to) \in nodes \ {last}
      BY <2>7, <3>2, <3>3, <3>4
    <3>6. Extend(t, to) = {}
      BY <2>7 DEF Extend
    <3> HIDE DEF t
    <3> QED
      BY <2>4, <2>5, <3>5, <3>6
  <2>8. CASE t # to
    <3>1. CanonicalNode(updated, t, to) = ExtensionNode(t, to)
      BY <2>6, <2>8, CanonicalParts
    <3>2. Extend(t, to) = {ExtensionNode(t, to)}
      BY <2>8 DEF Extend
    <3> HIDE DEF t
    <3> QED
      BY <2>4, <2>5, <3>1, <3>2
  <2> QED
    BY <2>7, <2>8
<1> QED
  BY <1>4, <1>5

LEMMA PutKeepsCanonical ==
    ASSUME NEW contents \in Contents, nodes = Canonical(contents),
           NEW q \in Path, NEW value, PutKey(q, value)
    PROVE  nodes' = Canonical(Updated(contents, q, value))
<1> DEFINE keys == DOMAIN contents
           goal == Canonical(Updated(contents, q, value))
<1>1. keys \in SUBSET Path
  BY ContentsTypes
<1>2. CASE keys = {}
  <2>1. nodes = {}
    BY <1>2, NoKeysNoNodes
  <2>2. nodes' = {LeafNode(<<>>, q, value)}
    BY <2>1 DEF PutKey
  <2> QED
    BY <1>2, <2>2, FirstKey
<1>3. CASE keys # {}
  <2>1. PICK c : IsTurn(keys, q, c)
    BY <1>1, <1>3, TurnExists
  <2>2. PICK at, to : IsLastSpan(keys, q, at, to)
    BY <1>1, <1>3, LastSpanExists
  <2> DEFINE last == CanonicalNode(contents, at, to)
  <2>3. last \in nodes /\ \A x \in nodes : IsReached(x, q) <=> x = last
    BY <1>1, <1>3, <2>2, Reached
  <2> HIDE DEF last
  <2>4. /\ ~PastEnd(last, q)
        /\ \/ last.type = "Leaf" /\ Replace(last, PutKeyLeafNode(last, q, value))
           \/ last.type = "Branch" /\ Replace(last, PutKeyBranchNode(last, q, value))
           \/ last.type = "Extension" /\ Replace(last, PutKeyExtensionNode(last, q, value))
    BY <2>3 DEF PutKey
  <2>5. CASE c \in Forks(keys)
    <3>1. /\ last.type = "Branch"
          /\ goal = (nodes \ {last}) \cup PutKeyBranchNode(last, q, value)
      BY <1>3, <2>1, <2>2, <2>5, PutAtBranch DEF last
    <3> QED
      BY <2>4, <3>1 DEF Replace
  <2>6. CASE c \notin Forks(keys) /\ q \in keys
    <3>1. /\ last.type = "Leaf"
          /\ goal = (nodes \ {last}) \cup PutKeyLeafNode(last, q, value)
      BY <1>3, <2>1, <2>2, <2>6, PutAtOwnLeaf DEF last
    <3> QED
      BY <2>4, <3>1 DEF Replace
  <2>7. CASE c \notin Forks(keys) /\ q \notin keys /\ to \notin Forks(keys)
    <3>1. /\ last.type = "Leaf"
          /\ goal = (nodes \ {last}) \cup PutKeyLeafNode(last, q, value)
      BY <1>3, <2>1, <2>2, <2>7, PutAtLeaf DEF last
    <3> QED
      BY <2>4, <3>1 DEF Replace
  <2>8. CASE c \notin Forks(keys) /\ q \notin keys /\ to \in Forks(keys)
    <3>1. /\ last.type = "Extension"
          /\ goal = (nodes \ {last}) \cup PutKeyExtensionNode(last, q, value)
      BY <1>3, <2>1, <2>2, <2>4, <2>8, PutAtExtension DEF last
    <3> QED
      BY <2>4, <3>1 DEF Replace
  <2> QED
    BY <2>5, <2>6, <2>7, <2>8
<1> QED
  BY <1>2, <1>3
-----------------------------------------------------------------------------
(* The theorems.                                                            *)

\* The inductive invariant: the trie is the prescribed one for some contents,
\* which are then its own.
IsCanonical == \E contents \in Contents : nodes = Canonical(contents)

LEMMA NoContents ==
    /\ [k \in {} |-> {}] \in Contents
    /\ Canonical([k \in {} |-> {}]) = {}
<1>1. [k \in {} |-> {}] \in [{} -> Value]
  OBVIOUS
<1>2. DOMAIN [k \in {} |-> {}] = {}
  OBVIOUS
<1> QED
  BY <1>1, <1>2, NoKeysNoNodes DEF Contents

LEMMA PutStep ==
    ASSUME IsCanonical, NEW key \in Key, NEW value \in Value, Put(key, value)
    PROVE  /\ IsCanonical'
           /\ RootContents' = Updated(RootContents, FromBytes(key), value)
<1> DEFINE q == FromBytes(key)
<1>1. PICK contents \in Contents : nodes = Canonical(contents)
  BY DEF IsCanonical
<1>2. q \in Paths /\ q \in Path
  BY PathsAreNibbles DEF Paths
<1>3. Updated(contents, q, value) \in Contents
  BY <1>2, UpdatedIsContents
<1> HIDE DEF q
<1>4. nodes' = Canonical(Updated(contents, q, value))
  BY <1>1, <1>2, PutKeepsCanonical DEF Put, q
<1>5. RootContents = contents
  BY <1>1, ContentsOfCanonical DEF HoldsItsContents
<1>6. HoldsItsContents'
  BY ContentsOfCanonical, PTL
<1> QED
  BY <1>3, <1>4, <1>5, <1>6 DEF IsCanonical, HoldsItsContents, q

LEMMA ResetStep ==
    ASSUME nodes' = {}
    PROVE  IsCanonical' /\ RootContents' = [k \in {} |-> {}]
<1>1. HoldsItsContents'
  BY ContentsOfCanonical, PTL
<1> QED
  BY <1>1, NoContents DEF IsCanonical, HoldsItsContents

LEMMA InitCanonical == Init => IsCanonical /\ RootContents = [k \in {} |-> {}]
  BY NoContents, ContentsOfCanonical DEF Init, IsCanonical, HoldsItsContents

LEMMA NextCanonical == IsCanonical /\ [Next]_vars => IsCanonical'
<1> SUFFICES ASSUME IsCanonical, [Next]_vars PROVE IsCanonical'
  OBVIOUS
<1>1. ASSUME NEW key \in Key, NEW value \in Value, Put(key, value)
      PROVE  IsCanonical'
  BY <1>1, PutStep
<1>2. ASSUME NEW key \in Key, PutReadsPastEnd(key)
      PROVE  IsCanonical'
  BY <1>2 DEF PutReadsPastEnd, IsCanonical
<1>3. CASE Reset
  BY <1>3, ResetStep DEF Reset
<1>4. CASE UNCHANGED vars
  BY <1>4 DEF vars, IsCanonical
<1> QED
  BY <1>1, <1>2, <1>3, <1>4 DEF Next

LEMMA AlwaysCanonical == Spec => []IsCanonical
  BY InitCanonical, NextCanonical, PTL DEF Spec

\* Whatever is put, in whatever order, the trie has exactly the nodes that
\* Ethereum prescribes for what it holds (Put and the PutKey functions).
THEOREM RootAlwaysCanonical == Spec => []RootIsCanonical
<1>1. IsCanonical => RootIsCanonical
  BY ContentsOfCanonical DEF IsCanonical, RootIsCanonical, HoldsItsContents
<1> QED
  BY <1>1, AlwaysCanonical, PTL

\* The trie is a map: Put changes the value of its key to the one given, that
\* of no other key, and Reset forgets all (Put, Reset).
THEOREM TrieIsMap == Spec => MapSpec
<1>1. Init => Map!Init
  BY InitCanonical DEF Map!Init
<1>2. IsCanonical /\ [Next]_vars => [Map!Next]_RootContents
  <2> SUFFICES ASSUME IsCanonical, [Next]_vars
               PROVE  [Map!Next]_RootContents
    OBVIOUS
  <2>1. ASSUME NEW key \in Key, NEW value \in Value, Put(key, value)
        PROVE  Map!Next
    <3>1. RootContents' = Updated(RootContents, FromBytes(key), value)
      BY <2>1, PutStep
    <3>2. FromBytes(key) \in Paths
      BY DEF Paths
    <3>3. Map!Put(FromBytes(key), value)
      BY <3>1 DEF Updated, Map!Put
    <3> QED
      BY <3>2, <3>3 DEF Map!Next
  <2>2. ASSUME nodes' = nodes
        PROVE  UNCHANGED RootContents
    BY <2>2 DEF RootContents, Lookup, IsReached, OnTheWay
  <2>3. ASSUME NEW key \in Key, PutReadsPastEnd(key)
        PROVE  UNCHANGED RootContents
    BY <2>2, <2>3 DEF PutReadsPastEnd
  <2>4. CASE Reset
    <3>1. Map!Reset
      BY <2>4, ResetStep DEF Reset, Map!Reset
    <3> QED
      BY <3>1 DEF Map!Next
  <2>5. CASE UNCHANGED vars
    BY <2>2, <2>5 DEF vars
  <2> QED
    BY <2>1, <2>3, <2>4, <2>5 DEF Next
<1> QED
  BY <1>1, <1>2, AlwaysCanonical, PTL DEF Spec, MapSpec, Map!Spec

-----------------------------------------------------------------------------
(* The keys of receipts.                                                    *)

\* The first byte of the key of a receipt tells its length.
LengthFrom(byte) == IF byte < 129 THEN 1 ELSE byte - 127

LEMMA KeyRlpBytes ==
    ASSUME NEW i \in Nat, i < 256 * 256
    PROVE  /\ KeyRlp(i) \in Seq(0 .. 255)
           /\ KeyRlp(i)[1] \in 0 .. 255
           /\ Len(KeyRlp(i)) = LengthFrom(KeyRlp(i)[1])
<1>1. CASE i = 0
  <2>1. KeyRlp(i) = <<128>>
    BY <1>1 DEF KeyRlp
  <2> QED
    BY <2>1 DEF LengthFrom
<1>2. CASE i \in 1 .. 127
  <2>1. KeyRlp(i) = <<i>>
    BY <1>2 DEF KeyRlp
  <2> QED
    BY <1>2, <2>1 DEF LengthFrom
<1>3. CASE i \in 128 .. 255
  <2>1. KeyRlp(i) = <<129, i>>
    BY <1>3 DEF KeyRlp
  <2> QED
    BY <1>3, <2>1 DEF LengthFrom
<1>4. CASE i > 255
  <2> DEFINE high == i \div 256
             low == i % 256
  <2>1. KeyRlp(i) = <<130, high, low>>
    BY <1>4 DEF KeyRlp
  <2>2. high \in 0 .. 255 /\ low \in 0 .. 255
    BY <1>4
  <2> HIDE DEF high, low
  <2> QED
    BY <2>1, <2>2 DEF LengthFrom
<1> QED
  BY <1>1, <1>2, <1>3, <1>4

\* No key of a receipt is the beginning of that of another.
LEMMA ReceiptsPrefixFree ==
    /\ ReceiptPaths \subseteq Path
    /\ \A p, q \in ReceiptPaths : IsPrefix(p, q) => p = q
<1>1. ASSUME NEW i \in Receipt
      PROVE  LET bytes == KeyRlp(i)
             IN  /\ FromBytes(bytes) \in Path
                 /\ Len(FromBytes(bytes)) = 2 * LengthFrom(bytes[1])
                 /\ bytes[1] \in 0 .. 255
                 /\ FromBytes(bytes)[1] = bytes[1] \div 16
                 /\ FromBytes(bytes)[2] = bytes[1] % 16
  <2> DEFINE bytes == KeyRlp(i)
  <2>1. i \in Nat /\ i < 256 * 256
    BY ReceiptAssumption
  <2>2. /\ bytes \in Seq(0 .. 255) /\ bytes[1] \in 0 .. 255
        /\ Len(bytes) = LengthFrom(bytes[1])
    BY <2>1, KeyRlpBytes
  <2> HIDE DEF bytes
  <2>3. FromBytes(bytes) \in Path /\ Len(FromBytes(bytes)) = 2 * Len(bytes)
    BY <2>2, FromBytesIsPath
  <2>4. 1 \in 1 .. 2 * Len(bytes) /\ 2 \in 1 .. 2 * Len(bytes)
    <3>1. \A byte \in 0 .. 255 : LengthFrom(byte) \in Nat /\ LengthFrom(byte) > 0
      BY DEF LengthFrom
    <3>2. Len(bytes) \in Nat /\ Len(bytes) > 0
      BY <2>2, <3>1, Zenon
    <3> QED
      BY <3>2
  <2>5. FromBytes(bytes)[1] = bytes[1] \div 16 /\ FromBytes(bytes)[2] = bytes[1] % 16
    BY <2>4 DEF FromBytes
  <2> QED
    BY <2>2, <2>3, <2>5 DEF bytes
<1>2. ASSUME NEW p \in ReceiptPaths, NEW q \in ReceiptPaths, IsPrefix(p, q)
      PROVE  p = q
  <2>1. PICK i \in Receipt : p = FromBytes(KeyRlp(i))
    BY DEF ReceiptPaths
  <2>2. PICK j \in Receipt : q = FromBytes(KeyRlp(j))
    BY DEF ReceiptPaths
  <2>3. PICK b \in 0 .. 255 : /\ p \in Path /\ Len(p) = 2 * LengthFrom(b)
                              /\ p[1] = b \div 16 /\ p[2] = b % 16
    BY <1>1, <2>1
  <2>4. PICK d \in 0 .. 255 : /\ q \in Path /\ Len(q) = 2 * LengthFrom(d)
                              /\ q[1] = d \div 16 /\ q[2] = d % 16
    BY <1>1, <2>2
  <2>5. p[1] = q[1] /\ p[2] = q[2]
    <3>1. 1 \in 1 .. Len(p) /\ 2 \in 1 .. Len(p)
      BY <2>3 DEF LengthFrom
    <3> QED
      BY <1>2, <2>3, <2>4, <3>1, PrefixByNibble
  <2>6. b = d
    <3>1. \A byte \in 0 .. 255 : byte = 16 * (byte \div 16) + (byte % 16)
      OBVIOUS
    <3> QED
      BY <2>3, <2>4, <2>5, <3>1
  <2>7. Len(p) = Len(q) /\ Len(p) \in Nat
    BY <2>3, <2>4, <2>6 DEF Path
  <2> QED
    BY <1>2, <2>3, <2>4, <2>7, PrefixIsShorter
<1> QED
  BY <1>1, <1>2 DEF ReceiptPaths

\* While only receipts are put, no Put reads past the end of its path: the
\* extension would have to lead to where two keys part that both begin with
\* the new one (PutKeyExtensionNode, ReceiptsMgr).
THEOREM ReceiptsAlwaysDefined == Spec => []ReceiptsAreDefined
<1>1. IsCanonical => ReceiptsAreDefined
  <2> SUFFICES ASSUME IsCanonical, DOMAIN RootContents \subseteq ReceiptPaths,
                      NEW path \in ReceiptPaths,
                      NEW x \in nodes, IsReached(x, path), PastEnd(x, path)
               PROVE  FALSE
    BY DEF ReceiptsAreDefined, ReadsPastEnd
  <2>1. PICK contents \in Contents : nodes = Canonical(contents)
    BY DEF IsCanonical
  <2> DEFINE keys == DOMAIN contents
  <2>2. keys \subseteq ReceiptPaths /\ keys \in SUBSET Path
    BY <2>1, ContentsOfCanonical, ContentsTypes DEF HoldsItsContents
  <2>3. x = CanonicalNode(contents, x.at, x.to)
    BY <2>1, NodeOfSpan
  <2>4. x.type = "Extension" /\ IsPrefix(path, x.to)
    BY DEF PastEnd
  <2>5. x.to \in Forks(keys)
    BY <2>3, <2>4, CanonicalParts
  <2>6. PICK j \in keys, k \in keys : j # k /\ IsPrefix(x.to, j) /\ IsPrefix(x.to, k)
    BY <2>2, <2>5, ForkParts
  <2>7. x.to \in Path /\ path \in Path
    BY <2>2, <2>5, ForkParts, ReceiptsPrefixFree
  <2>8. IsPrefix(path, j) /\ IsPrefix(path, k)
    BY <2>2, <2>4, <2>6, <2>7, PrefixTransitive
  <2> QED
    BY <2>2, <2>6, <2>8, ReceiptsPrefixFree
<1> QED
  BY <1>1, AlwaysCanonical, PTL
=============================================================================

-------------------------- MODULE HeaderChainProofs --------------------------
(***************************************************************************)
(* Theorems about HeaderChain: the unsigned difficulty arithmetic, for any  *)
(* fork numbers, bomb delays, modulus and timestamps: that it stays within  *)
(* bounds, computes the formula, and is not exceeded by the estimate.       *)
(***************************************************************************)
EXTENDS HeaderChain, WellFoundedInduction, TLAPS

\* The fields of the newest header are unsigned integers.
HeaderTyped ==
    header.number \in UInt /\ header.time \in UInt /\ header.diff \in UInt

USE ParamsAssumption, DAAAssumption DEF UInt

-----------------------------------------------------------------------------
(* The arithmetic.                                                          *)

\* Without overflow, modular arithmetic is arithmetic.
LEMMA NoOverflow ==
    ASSUME NEW d \in UInt
    PROVE  d % DiffModulus = d
  OBVIOUS

LEMMA Wrapped ==
    ASSUME NEW d \in Int
    PROVE  d % DiffModulus \in UInt
  OBVIOUS

\* What is below a sum that fits.
LEMMA SumFits ==
    ASSUME NEW most \in Nat, NEW bomb \in Nat, most + bomb < DiffModulus,
           NEW d \in Nat, d <= most
    PROVE  d + bomb \in UInt /\ d \in UInt
  OBVIOUS

LEMMA SumGrows ==
    ASSUME NEW a \in Nat, NEW b \in Nat, NEW c \in Nat, a <= b
    PROVE  a + c <= b + c
  OBVIOUS

\* A share of at most BoundDivisor units of a difficulty.
LEMMA Units ==
    ASSUME NEW d \in Nat, NEW k \in 0 .. BoundDivisor
    PROVE  /\ d \div BoundDivisor \in Nat
           /\ (d \div BoundDivisor) * k \in 0 .. d
  OBVIOUS

\* Fewer units are less.
LEMMA FewerUnits ==
    ASSUME NEW y \in Nat, NEW k \in Nat, NEW m \in Nat, k <= m
    PROVE  y * k <= m * y
  OBVIOUS

-----------------------------------------------------------------------------
(* The bomb: the loop of CalcBomb, and the powers of two without bounds.    *)

\* Induction over the numbers up to n, for a set of them.
LEMMA InductionUpTo ==
    ASSUME NEW n \in Nat, NEW S,
           0 \in S, \A k \in 1 .. n : k - 1 \in S => k \in S
    PROVE  \A k \in 0 .. n : k \in S
<1> DEFINE missing == {k \in 0 .. n : k \notin S}
<1> SUFFICES ASSUME missing # {}
             PROVE  FALSE
  OBVIOUS
<1>1. PICK m \in missing : \A k \in missing : ~(<<k, m>> \in OpToRel(<, Nat))
  <2>1. missing \subseteq Nat
    OBVIOUS
  <2> HIDE DEF missing
  <2> QED
    BY <2>1, NatLessThanWellFounded, WFMin
<1>2. m \in 1 .. n /\ m \notin S
  OBVIOUS
<1>3. m - 1 \in 0 .. n /\ m - 1 \in Nat /\ m - 1 < m
  BY <1>2
<1>4. <<m - 1, m>> \in OpToRel(<, Nat)
  BY <1>2, <1>3 DEF OpToRel
<1>5. m - 1 \notin missing
  BY <1>1, <1>4
<1> QED
  BY <1>2, <1>3, <1>5

\* The next value of y in the loop ("unsigned"), and without bounds.
Doubled(y, kind) == IF kind = "unsigned" THEN Times(y, 2) ELSE 2 * y

IsDoubling(y, n, kind) ==
    y = [i \in 0 .. n |-> IF i = 0 THEN 1 ELSE Doubled(y[i - 1], kind)]

LEMMA DoublingExists ==
    ASSUME NEW n \in Nat, NEW kind
    PROVE  \E y : IsDoubling(y, n, kind)
<1> DEFINE S == {k \in 0 .. n : \E y : IsDoubling(y, k, kind)}
<1>1. 0 \in S
  <2>1. IsDoubling([i \in 0 .. 0 |-> 1], 0, kind)
    BY DEF IsDoubling
  <2> QED
    BY <2>1
<1>2. ASSUME NEW k \in 1 .. n, k - 1 \in S
      PROVE  k \in S
  <2>1. PICK y : IsDoubling(y, k - 1, kind)
    BY <1>2
  <2> DEFINE longer == [i \in 0 .. k |-> IF i = k THEN Doubled(y[k - 1], kind) ELSE y[i]]
  <2>2. \A i \in 0 .. k :
            longer[i] = IF i = 0 THEN 1 ELSE Doubled(longer[i - 1], kind)
    <3> TAKE i \in 0 .. k
    <3>1. CASE i = k
      BY <3>1
    <3>2. CASE i # k
      <4>1. i \in 0 .. k - 1 /\ (i # 0 => i - 1 \in 0 .. k - 1)
        BY <3>2
      <4>2. y[i] = IF i = 0 THEN 1 ELSE Doubled(y[i - 1], kind)
        BY <2>1, <4>1 DEF IsDoubling
      <4>3. longer[i] = y[i] /\ (i # 0 => longer[i - 1] = y[i - 1])
        BY <4>1
      <4> HIDE DEF longer
      <4> QED
        BY <4>2, <4>3
    <3> QED
      BY <3>1, <3>2
  <2>3. IsDoubling(longer, k, kind)
    <3>1. longer = [i \in 0 .. k |-> longer[i]]
      OBVIOUS
    <3> HIDE DEF longer
    <3> QED
      BY <2>2, <3>1 DEF IsDoubling
  <2> QED
    BY <2>3
<1> HIDE DEF S
<1>3. n \in S
  BY <1>1, <1>2, InductionUpTo
<1> QED
  BY <1>3 DEF S

LEMMA DoublingSteps ==
    ASSUME NEW n \in Nat, NEW kind, NEW y, IsDoubling(y, n, kind)
    PROVE  /\ y[0] = 1
           /\ \A k \in 1 .. n : y[k] = Doubled(y[k - 1], kind)
  BY DEF IsDoubling

\* What the two recursive functions are.
LEMMA LoopIsDoubling ==
    ASSUME NEW n \in Nat \ {0}
    PROVE  \E y : IsDoubling(y, n, "unsigned") /\ CalcBomb(n + 2) = y[n]
<1> DEFINE y == CHOOSE f : f = [i \in 0 .. n |-> IF i = 0 THEN 1 ELSE Times(f[i - 1], 2)]
<1>1. \E f : f = [i \in 0 .. n |-> IF i = 0 THEN 1 ELSE Times(f[i - 1], 2)]
  <2>1. PICK f : IsDoubling(f, n, "unsigned")
    BY DoublingExists
  <2>2. f = [i \in 0 .. n |-> IF i = 0 THEN 1 ELSE Times(f[i - 1], 2)]
    BY <2>1 DEF IsDoubling, Doubled
  <2> QED
    BY <2>2
<1>2. y = [i \in 0 .. n |-> IF i = 0 THEN 1 ELSE Times(y[i - 1], 2)]
  BY <1>1
<1>3. n + 2 - 2 = n /\ ~(n + 2 <= 2)
  OBVIOUS
<1>4. CalcBomb(n + 2) = y[n]
  BY <1>3 DEF CalcBomb
<1> HIDE DEF y
<1>5. IsDoubling(y, n, "unsigned")
  BY <1>2 DEF IsDoubling, Doubled
<1> QED
  BY <1>4, <1>5

LEMMA PowerIsDoubling ==
    ASSUME NEW n \in Nat
    PROVE  \E y : IsDoubling(y, n, "unbounded") /\ PowerOfTwo(n) = y[n]
<1> DEFINE y == CHOOSE f : f = [i \in 0 .. n |-> IF i = 0 THEN 1 ELSE 2 * f[i - 1]]
<1>1. \E f : f = [i \in 0 .. n |-> IF i = 0 THEN 1 ELSE 2 * f[i - 1]]
  <2>1. PICK f : IsDoubling(f, n, "unbounded")
    BY DoublingExists
  <2>2. f = [i \in 0 .. n |-> IF i = 0 THEN 1 ELSE 2 * f[i - 1]]
    BY <2>1 DEF IsDoubling, Doubled
  <2> QED
    BY <2>2
<1>2. y = [i \in 0 .. n |-> IF i = 0 THEN 1 ELSE 2 * y[i - 1]]
  BY <1>1
<1>3. PowerOfTwo(n) = y[n]
  BY DEF PowerOfTwo
<1> HIDE DEF y
<1>4. IsDoubling(y, n, "unbounded")
  BY <1>2 DEF IsDoubling, Doubled
<1> QED
  BY <1>3, <1>4

\* Whether or not it overflows, the bomb is a natural number.
LEMMA BombIsNatural ==
    ASSUME NEW n \in Nat
    PROVE  Bomb(n) \in Nat
<1> DEFINE p == n \div ExpDiffPeriod
<1>1. p \in Nat
  OBVIOUS
<1> HIDE DEF p
<1>2. CASE p <= 2
  BY <1>1, <1>2 DEF Bomb, CalcBomb, p
<1>3. CASE p > 2
  <2>1. p - 2 \in Nat \ {0} /\ p - 2 + 2 = p
    BY <1>1, <1>3
  <2>2. PICK y : IsDoubling(y, p - 2, "unsigned") /\ CalcBomb(p) = y[p - 2]
    BY <2>1, LoopIsDoubling
  <2> DEFINE S == {i \in 0 .. p - 2 : y[i] \in Nat}
  <2>3. 0 \in S
    BY <2>1, <2>2, DoublingSteps
  <2>4. ASSUME NEW k \in 1 .. p - 2, k - 1 \in S
        PROVE  k \in S
    <3>1. y[k] = Times(y[k - 1], 2)
      BY <2>1, <2>2, DoublingSteps DEF Doubled
    <3>2. y[k - 1] \in Nat
      BY <2>4
    <3>3. y[k - 1] * 2 \in Int
      BY <3>2
    <3>4. y[k] \in Nat
      BY <3>1, <3>3, Wrapped DEF Times
    <3> QED
      BY <2>1, <3>4
  <2> HIDE DEF S
  <2>5. p - 2 \in S
    BY <2>1, <2>3, <2>4, InductionUpTo
  <2>6. Bomb(n) = CalcBomb(p)
    BY <1>1, <1>3 DEF Bomb, p
  <2> QED
    BY <2>2, <2>5, <2>6 DEF S
<1> QED
  BY <1>1, <1>2, <1>3

\* The bomb is a power of two, as long as that does not overflow.
LEMMA BombIsPower ==
    ASSUME NEW n \in Nat
    PROVE  /\ PowerOfTwo(n) \in Nat
           /\ PowerOfTwo(n) < DiffModulus => CalcBomb(n + 2) = PowerOfTwo(n)
<1>1. PICK power : IsDoubling(power, n, "unbounded") /\ PowerOfTwo(n) = power[n]
  BY PowerIsDoubling
<1>2. CASE n = 0
  <2>1. PowerOfTwo(n) = 1
    BY <1>1, <1>2, DoublingSteps
  <2>2. CalcBomb(n + 2) = 1
    BY <1>2 DEF CalcBomb
  <2> QED
    BY <2>1, <2>2
<1>3. CASE n # 0
  <2>1. PICK y : IsDoubling(y, n, "unsigned") /\ CalcBomb(n + 2) = y[n]
    BY <1>3, LoopIsDoubling
  <2> DEFINE S == {i \in 0 .. n : /\ power[i] \in Nat \ {0}
                                  /\ power[i] < DiffModulus => y[i] = power[i]}
  <2>2. 0 \in S
    BY <1>1, <2>1, DoublingSteps
  <2>3. ASSUME NEW k \in 1 .. n, k - 1 \in S
        PROVE  k \in S
    <3>1. /\ power[k] = 2 * power[k - 1]
          /\ y[k] = Times(y[k - 1], 2)
      BY <1>1, <2>1, DoublingSteps DEF Doubled
    <3>2. /\ power[k - 1] \in Nat \ {0}
          /\ power[k - 1] < DiffModulus => y[k - 1] = power[k - 1]
      BY <2>3
    <3>3. power[k] \in Nat \ {0} /\ power[k - 1] < power[k]
      BY <3>1, <3>2
    <3>4. ASSUME power[k] < DiffModulus
          PROVE  y[k] = power[k]
      <4>1. y[k - 1] = power[k - 1]
        BY <3>2, <3>3, <3>4
      <4>2. y[k - 1] * 2 = power[k] /\ power[k] \in UInt
        BY <3>1, <3>2, <3>3, <3>4, <4>1
      <4> QED
        BY <3>1, <4>2, NoOverflow DEF Times
    <3> QED
      BY <3>3, <3>4
  <2> HIDE DEF S
  <2>4. n \in S
    BY <2>2, <2>3, InductionUpTo
  <2> QED
    BY <1>1, <2>1, <2>4 DEF S
<1> QED
  BY <1>2, <1>3

-----------------------------------------------------------------------------
(* The calculator of a fork.                                                *)

\* A block belongs to a fork that the network has, or to Frontier.
LEMMA ForkIsConfigured ==
    ASSUME NEW n \in Nat
    PROVE  ForkOf(n) = "Frontier" \/ ForkOf(n) \in DOMAIN ForkNum
<1> DEFINE Begun == {i \in DOMAIN Forks : IsBlockOf(Forks[i], n)}
<1>1. CASE Begun = {}
  BY <1>1 DEF ForkOf
<1>2. CASE Begun # {}
  <2>1. Begun \subseteq 1 .. 7
    BY DEF Forks
  <2>2. \E i \in Begun : \A j \in Begun : i <= j
    <3>1. ASSUME \A i \in Begun : \E j \in Begun : j < i
          PROVE  FALSE
      <4>1. 1 \notin Begun
        BY <2>1, <3>1
      <4>2. 2 \notin Begun
        BY <2>1, <3>1, <4>1
      <4>3. 3 \notin Begun
        BY <2>1, <3>1, <4>1, <4>2
      <4>4. 4 \notin Begun
        BY <2>1, <3>1, <4>1, <4>2, <4>3
      <4>5. 5 \notin Begun
        BY <2>1, <3>1, <4>1, <4>2, <4>3, <4>4
      <4>6. 6 \notin Begun
        BY <2>1, <3>1, <4>1, <4>2, <4>3, <4>4, <4>5
      <4>7. 7 \notin Begun
        BY <2>1, <3>1, <4>1, <4>2, <4>3, <4>4, <4>5, <4>6
      <4> QED
        BY <1>2, <2>1, <4>1, <4>2, <4>3, <4>4, <4>5, <4>6, <4>7
    <3> QED
      BY <2>1, <3>1
  <2> DEFINE newest == CHOOSE i \in Begun : \A j \in Begun : i <= j
  <2>3. newest \in Begun
    BY <2>2
  <2>4. ForkOf(n) = Forks[newest]
    BY <1>2 DEF ForkOf
  <2> QED
    BY <2>3, <2>4 DEF IsBlockOf
<1> QED
  BY <1>1, <1>2

LEMMA CalculatorTyped ==
    ASSUME NEW n \in Nat, ForkOf(n) # "Frontier"
    PROVE  /\ CalculatorOf(n).deltaDivisor \in Nat \ {0}
           /\ CalculatorOf(n).hasMaxCheck = TRUE
           /\ CalculatorOf(n).bombDelay \in Nat
<1>1. CASE ForkOf(n) = "Homestead"
  BY <1>1 DEF CalculatorOf, HomesteadCalculator, Calculator
<1>2. CASE ForkOf(n) # "Homestead"
  <2>1. ForkOf(n) \in DOMAIN BombDelay
    BY <1>2, ForkIsConfigured
  <2>2. BombDelay[ForkOf(n)] \in Nat
    BY <2>1
  <2> QED
    BY <1>2, <2>2 DEF CalculatorOf, CalculatorSince, Calculator
<1> QED
  BY <1>1, <1>2

LEMMA FakeIsNatural ==
    ASSUME NEW calc, calc.bombDelay \in Nat, NEW parent, parent.number \in UInt
    PROVE  FakeBlockNumber(calc, parent) \in Nat
<1>1. CASE calc.bombDelay = 0
  BY <1>1, Wrapped DEF FakeBlockNumber, Plus
<1>2. CASE calc.bombDelay > 0
  BY <1>2 DEF FakeBlockNumber
<1> QED
  BY <1>1, <1>2

-----------------------------------------------------------------------------
(* The difficulty of a child.                                               *)

\* Raising or lowering the difficulty of the parent, then adding the bomb.
LEMMA DiffBounds ==
    ASSUME NEW parent, parent.diff \in UInt,
           NEW diff \in Nat,
           parent.diff - MaxReduction * (parent.diff \div BoundDivisor) <= diff,
           diff <= parent.diff + 2 * (parent.diff \div BoundDivisor),
           NEW bomb \in Nat, MostAfter(parent) + bomb < DiffModulus
    PROVE  /\ LeastAfter(parent) + bomb <= Plus(AtLeastMinDiff(diff), bomb)
           /\ Plus(AtLeastMinDiff(diff), bomb) <= MostAfter(parent) + bomb
<1> DEFINE y == parent.diff \div BoundDivisor
           least == parent.diff - MaxReduction * y
           most == parent.diff + 2 * y
<1>1. y \in Nat /\ MaxReduction * y \in Nat
  BY Units
<1>2. least \in Int /\ most \in Nat
  BY <1>1
<1>3. least <= diff /\ diff <= most
  OBVIOUS
<1>4. /\ LeastAfter(parent) = IF least < MinDiff THEN MinDiff ELSE least
      /\ MostAfter(parent) = IF most < MinDiff THEN MinDiff ELSE most
  BY DEF LeastAfter, MostAfter, Larger
<1> HIDE DEF y, least, most
<1>5. /\ AtLeastMinDiff(diff) \in Nat
      /\ LeastAfter(parent) <= AtLeastMinDiff(diff)
      /\ AtLeastMinDiff(diff) <= MostAfter(parent)
  BY <1>2, <1>3, <1>4 DEF AtLeastMinDiff
<1>6. LeastAfter(parent) \in Int /\ MostAfter(parent) \in Int
  BY <1>2, <1>4
<1>7. AtLeastMinDiff(diff) + bomb \in UInt
  BY <1>5, <1>6
<1>8. Plus(AtLeastMinDiff(diff), bomb) = AtLeastMinDiff(diff) + bomb
  BY <1>7, NoOverflow DEF Plus
<1> QED
  BY <1>5, <1>6, <1>8

LEMMA EthashBounds ==
    ASSUME NEW parent, parent.diff \in UInt, parent.time \in UInt,
           parent.number \in UInt,
           NEW time \in UInt,
           NEW calc, calc.deltaDivisor \in Nat \ {0}, calc.hasMaxCheck = TRUE,
           calc.bombDelay \in Nat,
           NEW bomb, bomb = Bomb(FakeBlockNumber(calc, parent)),
           MostAfter(parent) + bomb < DiffModulus
    PROVE  /\ LeastAfter(parent) + bomb <= EthashDifficulty(calc, parent, time)
           /\ EthashDifficulty(calc, parent, time) <= MostAfter(parent) + bomb
<1> DEFINE x    == Minus(time, parent.time) \div calc.deltaDivisor
           base == IF calc.considerUncle /\ parent.hasUncle THEN 2 ELSE 1
           y    == parent.diff \div BoundDivisor
           diff == IF x > base
                   THEN Reduced(calc, parent.diff, Times(y, Reduction(calc, x - base)))
                   ELSE Plus(parent.diff, Times(y, base - x))
<1>1. x \in Nat
  <2>1. Minus(time, parent.time) \in Nat
    <3>1. time - parent.time \in Int
      OBVIOUS
    <3> QED
      BY <3>1, Wrapped DEF Minus
  <2> QED
    BY <2>1
<1>2. base \in 1 .. 2
  OBVIOUS
<1>3. y \in Nat
  BY Units
<1>4. bomb \in Nat
  BY BombIsNatural, FakeIsNatural
<1>5. EthashDifficulty(calc, parent, time) = Plus(AtLeastMinDiff(diff), bomb)
  BY DEF EthashDifficulty
<1>6. parent.diff + 2 * y < DiffModulus
  BY <1>3, <1>4 DEF MostAfter, Larger
<1> HIDE DEF x, base
<1>7. /\ diff \in Nat
      /\ parent.diff - MaxReduction * y <= diff
      /\ diff <= parent.diff + 2 * y
  <2>1. CASE x > base
    <3> DEFINE k == Reduction(calc, x - base)
    <3>1. k \in 0 .. MaxReduction
      BY <1>1, <1>2, <2>1 DEF Reduction
    <3> HIDE DEF k
    <3>2. y * k \in 0 .. parent.diff /\ y * k <= MaxReduction * y
      <4>1. k \in 0 .. BoundDivisor /\ k \in Nat /\ k <= MaxReduction
        BY <3>1
      <4>2. y * k \in 0 .. parent.diff
        BY <4>1, Units
      <4>3. y * k <= MaxReduction * y
        BY <1>3, <4>1, FewerUnits
      <4> QED
        BY <4>2, <4>3
    <3>3. Times(y, k) = y * k
      BY <3>2, NoOverflow DEF Times
    <3>4. parent.diff - y * k \in UInt
      BY <3>2
    <3>5. diff = parent.diff - y * k
      BY <2>1, <3>3, <3>4, NoOverflow DEF Reduced, Minus, k
    <3> HIDE DEF y, diff
    <3> QED
      BY <1>3, <3>2, <3>5
  <2>2. CASE ~(x > base)
    <3> DEFINE k == base - x
    <3>1. k \in 0 .. 2
      BY <1>1, <1>2, <2>2
    <3> HIDE DEF k
    <3>2. y * k \in Nat /\ y * k <= 2 * y
      BY <1>3, <3>1, FewerUnits
    <3>3. Times(y, k) = y * k
      BY <1>3, <1>6, <3>2, NoOverflow DEF Times
    <3>4. parent.diff + y * k \in UInt
      BY <1>3, <1>6, <3>2
    <3>5. diff = parent.diff + y * k
      BY <2>2, <3>3, <3>4, NoOverflow DEF Plus, k
    <3>6. MaxReduction * y \in Nat
      BY <1>3
    <3> HIDE DEF y, diff
    <3> QED
      BY <1>3, <3>2, <3>5, <3>6
  <2> QED
    BY <2>1, <2>2
<1> HIDE DEF diff
<1> QED
  BY <1>4, <1>5, <1>7, DiffBounds

LEMMA FrontierBounds ==
    ASSUME NEW parent, parent.diff \in UInt, parent.time \in UInt,
           parent.number \in UInt,
           NEW time \in UInt,
           NEW bomb, bomb = Bomb(Plus(parent.number, 1)),
           MostAfter(parent) + bomb < DiffModulus
    PROVE  /\ LeastAfter(parent) + bomb <= FrontierDifficulty(parent, time)
           /\ FrontierDifficulty(parent, time) <= MostAfter(parent) + bomb
<1> DEFINE y    == parent.diff \div BoundDivisor
           diff == IF Minus(time, parent.time) < DurationLimit
                   THEN Plus(parent.diff, y)
                   ELSE Minus(parent.diff, y)
<1>1. y \in 0 .. parent.diff
  BY Units
<1>2. bomb \in Nat
  BY BombIsNatural, Wrapped DEF Plus
<1>3. FrontierDifficulty(parent, time) = Plus(AtLeastMinDiff(diff), bomb)
  BY DEF FrontierDifficulty
<1>4. parent.diff + 2 * y < DiffModulus
  BY <1>1, <1>2 DEF MostAfter, Larger
<1>5. Plus(parent.diff, y) = parent.diff + y
  <2>1. parent.diff + y \in UInt
    BY <1>1, <1>4
  <2> QED
    BY <2>1, NoOverflow DEF Plus
<1>6. Minus(parent.diff, y) = parent.diff - y
  BY <1>1, NoOverflow DEF Minus
<1>7. y <= MaxReduction * y
  BY <1>1, FewerUnits
<1>8. /\ diff \in Nat
      /\ parent.diff - MaxReduction * y <= diff
      /\ diff <= parent.diff + 2 * y
  <2> HIDE DEF y
  <2> QED
    BY <1>1, <1>5, <1>6, <1>7
<1> HIDE DEF diff
<1> QED
  BY <1>2, <1>3, <1>8, DiffBounds

-----------------------------------------------------------------------------
(* The chain.                                                               *)

LEMMA EthashTyped ==
    ASSUME NEW parent, parent.diff \in UInt, parent.time \in UInt,
           parent.number \in UInt,
           NEW time \in UInt,
           NEW calc, calc.deltaDivisor \in Nat \ {0}, calc.hasMaxCheck = TRUE,
           calc.bombDelay \in Nat
    PROVE  EthashDifficulty(calc, parent, time) \in UInt
<1> DEFINE x    == Minus(time, parent.time) \div calc.deltaDivisor
           base == IF calc.considerUncle /\ parent.hasUncle THEN 2 ELSE 1
           y    == parent.diff \div BoundDivisor
           less == Reduced(calc, parent.diff, Times(y, Reduction(calc, x - base)))
           more == Plus(parent.diff, Times(y, base - x))
           bomb == Bomb(FakeBlockNumber(calc, parent))
           diff == IF x > base THEN less ELSE more
<1>1. y \in Nat /\ base \in 1 .. 2
  BY Units
<1>2. x \in Int
  <2>1. time - parent.time \in Int
    OBVIOUS
  <2>2. Minus(time, parent.time) \in Nat
    BY <2>1, Wrapped DEF Minus
  <2> QED
    BY <2>2
<1> HIDE DEF x, base
<1>3. less \in Nat
  <2>1. Reduction(calc, x - base) \in Int
    BY <1>1, <1>2 DEF Reduction
  <2>2. Times(y, Reduction(calc, x - base)) \in UInt
    BY <1>1, <2>1, Wrapped DEF Times
  <2>3. Minus(parent.diff, Times(y, Reduction(calc, x - base))) \in UInt
    BY <2>2, Wrapped DEF Minus
  <2> QED
    BY <2>3 DEF Reduced
<1>4. more \in Nat
  <2>1. y * (base - x) \in Int
    BY <1>1, <1>2
  <2>2. Times(y, base - x) \in UInt
    BY <2>1, Wrapped DEF Times
  <2>3. parent.diff + Times(y, base - x) \in Int
    BY <2>2
  <2>4. Plus(parent.diff, Times(y, base - x)) \in UInt
    BY <2>3, Wrapped DEF Plus
  <2> QED
    BY <2>4
<1>5. EthashDifficulty(calc, parent, time) = Plus(AtLeastMinDiff(diff), bomb)
  BY DEF EthashDifficulty, x, base
<1>6. bomb \in Nat
  BY BombIsNatural, FakeIsNatural
<1> HIDE DEF less, more, bomb
<1>7. AtLeastMinDiff(diff) + bomb \in Int
  BY <1>3, <1>4, <1>6 DEF AtLeastMinDiff
<1> QED
  BY <1>5, <1>7, Wrapped DEF Plus

LEMMA FrontierTyped ==
    ASSUME NEW parent, parent.diff \in UInt, parent.time \in UInt,
           parent.number \in UInt,
           NEW time \in UInt
    PROVE  FrontierDifficulty(parent, time) \in UInt
<1> DEFINE adjust == parent.diff \div BoundDivisor
           diff == IF Minus(time, parent.time) < DurationLimit
                   THEN Plus(parent.diff, adjust)
                   ELSE Minus(parent.diff, adjust)
           bomb == Bomb(Plus(parent.number, 1))
<1>1. adjust \in Nat
  BY Units
<1>2. diff \in Nat
  <2>1. parent.diff + adjust \in Int /\ parent.diff - adjust \in Int
    BY <1>1
  <2>2. Plus(parent.diff, adjust) \in UInt /\ Minus(parent.diff, adjust) \in UInt
    BY <2>1, Wrapped DEF Plus, Minus
  <2> QED
    BY <2>2
<1>3. bomb \in Nat
  BY BombIsNatural, Wrapped DEF Plus
<1>4. FrontierDifficulty(parent, time) = Plus(AtLeastMinDiff(diff), bomb)
  BY DEF FrontierDifficulty
<1> HIDE DEF diff, bomb
<1>5. AtLeastMinDiff(diff) + bomb \in Int
  BY <1>2, <1>3 DEF AtLeastMinDiff
<1> QED
  BY <1>4, <1>5, Wrapped DEF Plus

\* The difficulty by the calculator of the fork.
LEMMA CalculatorIsOfFork ==
    ASSUME NEW parent, NEW n, NEW time
    PROVE  EthashDAA(parent, n, time) =
                IF ForkOf(n) = "Frontier"
                THEN FrontierDifficulty(parent, time)
                ELSE EthashDifficulty(CalculatorOf(n), parent, time)
  BY DEF EthashDAA, CalculatorOf

LEMMA RequiredTyped ==
    ASSUME HeaderTyped, NEW time \in UInt
    PROVE  RequiredDiff(header, time) \in UInt
<1> DEFINE n == header.number + 1
<1>1. 0 \in UInt /\ n \in Nat
  BY DEF HeaderTyped
<1> HIDE DEF n
<1>2. EthashDAA(header, n, time) \in UInt
  <2>1. CASE ForkOf(n) = "Frontier"
    BY <2>1, FrontierTyped, CalculatorIsOfFork DEF HeaderTyped
  <2>2. CASE ForkOf(n) # "Frontier"
    <3>1. /\ CalculatorOf(n).deltaDivisor \in Nat \ {0}
          /\ CalculatorOf(n).hasMaxCheck = TRUE
          /\ CalculatorOf(n).bombDelay \in Nat
      BY <1>1, <2>2, CalculatorTyped
    <3> QED
      BY <2>2, <3>1, EthashTyped, CalculatorIsOfFork DEF HeaderTyped
  <2> QED
    BY <2>1, <2>2
<1> QED
  BY <1>1, <1>2 DEF RequiredDiff, n

\* What a step does to the newest header.
LEMMA StepEffect ==
    ASSUME Next, header' # header
    PROVE  \E time \in Timestamps, hasUncle \in BOOLEAN :
                header' = Child(header, time, hasUncle)
  BY DEF Next, History, Receive, Tick

LEMMA HeaderIsTyped == Spec => []HeaderTyped
<1>1. Init => HeaderTyped
  BY HeaderChainAssumption DEF Init, HeaderTyped
<1>2. HeaderTyped /\ [Next]_vars => HeaderTyped'
  <2> SUFFICES ASSUME HeaderTyped, [Next]_vars PROVE HeaderTyped'
    OBVIOUS
  <2>1. CASE header' = header
    BY <2>1 DEF HeaderTyped
  <2>2. CASE header' # header
    <3>1. PICK time \in Timestamps, hasUncle \in BOOLEAN :
                header' = Child(header, time, hasUncle)
      BY <2>2, StepEffect DEF vars
    <3>2. time \in UInt
      BY HeaderChainAssumption
    <3>3. Plus(header.number, 1) \in UInt
      BY Wrapped DEF HeaderTyped, Plus
    <3>4. RequiredDiff(header, time) \in UInt
      BY <3>2, RequiredTyped
    <3>5. /\ header'.number = Plus(header.number, 1)
          /\ header'.time = time
          /\ header'.diff = RequiredDiff(header, time)
      BY <3>1 DEF Child
    <3> QED
      BY <3>2, <3>3, <3>4, <3>5 DEF HeaderTyped
  <2> QED
    BY <2>1, <2>2
<1> QED
  BY <1>1, <1>2, PTL DEF Spec

\* EthashDAACalculator and EthashDAACalculatorFrontier: with timestamps in any
\* order, the unsigned subtractions never make the required difficulty wrap
\* around, and it falls by MaxReduction units at most.
THEOREM DifficultyIsBounded == Spec => DifficultyFallsSlowly
<1> DEFINE Bounded ==
        LET bomb == BombAfter(header)
        IN  /\ header' # header
            /\ ~IsBlockOfParis(header.number + 1)
            /\ ChildFits(header)
            => /\ LeastAfter(header) + bomb <= header'.diff
               /\ header'.diff <= MostAfter(header) + bomb
<1>1. HeaderTyped /\ [Next]_vars => [Bounded]_vars
  <2> SUFFICES ASSUME HeaderTyped, Next, header' # header,
                      ~IsBlockOfParis(header.number + 1),
                      MostAfter(header) + BombAfter(header) < DiffModulus
               PROVE  /\ LeastAfter(header) + BombAfter(header) <= header'.diff
                      /\ header'.diff <= MostAfter(header) + BombAfter(header)
    BY DEF vars, ChildFits
  <2> DEFINE n == header.number + 1
  <2>1. PICK time \in Timestamps, hasUncle \in BOOLEAN :
            header' = Child(header, time, hasUncle)
    BY StepEffect
  <2>2. time \in UInt
    BY HeaderChainAssumption
  <2>3. header'.diff = EthashDAA(header, n, time)
    BY <2>1 DEF Child, RequiredDiff
  <2>4. /\ header.number \in UInt /\ header.time \in UInt /\ header.diff \in UInt
        /\ n \in Nat
    BY DEF HeaderTyped
  <2>5. CASE ForkOf(n) = "Frontier"
    <3>1. BombAfter(header) = Bomb(Plus(header.number, 1))
      BY <2>5 DEF BombAfter, UsesEthash
    <3>2. header'.diff = FrontierDifficulty(header, time)
      BY <2>3, <2>5, CalculatorIsOfFork
    <3> QED
      BY <2>2, <2>4, <3>1, <3>2, FrontierBounds
  <2>6. CASE ForkOf(n) # "Frontier"
    <3>1. BombAfter(header) = Bomb(FakeBlockNumber(CalculatorOf(n), header))
      BY <2>6 DEF BombAfter, UsesEthash
    <3>2. header'.diff = EthashDifficulty(CalculatorOf(n), header, time)
      BY <2>3, <2>6, CalculatorIsOfFork
    <3>3. /\ CalculatorOf(n).deltaDivisor \in Nat \ {0}
          /\ CalculatorOf(n).hasMaxCheck = TRUE
          /\ CalculatorOf(n).bombDelay \in Nat
      BY <2>4, <2>6, CalculatorTyped
    <3> QED
      BY <2>2, <2>4, <3>1, <3>2, <3>3, EthashBounds
  <2> QED
    BY <2>5, <2>6
<1> QED
  BY <1>1, HeaderIsTyped, PTL DEF Spec, DifficultyFallsSlowly

-----------------------------------------------------------------------------
(* The formula.                                                             *)

\* The bomb of the calculator is that of the formula, if it does not overflow.
LEMMA BombByFormula ==
    ASSUME NEW calc, calc.bombDelay \in Nat,
           NEW parent, parent.number \in UInt, parent.number + 1 < DiffModulus,
           NEW period,
           period = Larger(parent.number + 1 - calc.bombDelay, 0) \div ExpDiffPeriod,
           NEW bomb, bomb = IF period > 1 THEN PowerOfTwo(period - 2) ELSE 0
    PROVE  /\ bomb \in Nat
           /\ bomb < DiffModulus => Bomb(FakeBlockNumber(calc, parent)) = bomb
<1> DEFINE fake == FakeBlockNumber(calc, parent)
<1>1. fake = Larger(parent.number + 1 - calc.bombDelay, 0)
  <2>1. CASE calc.bombDelay = 0
    <3>1. parent.number + 1 \in UInt
      OBVIOUS
    <3>2. Plus(parent.number, 1) = parent.number + 1
      BY <3>1, NoOverflow DEF Plus
    <3>3. fake = parent.number + 1
      BY <2>1, <3>2 DEF FakeBlockNumber
    <3> QED
      BY <2>1, <3>3 DEF Larger
  <2>2. CASE calc.bombDelay > 0
    BY <2>2 DEF FakeBlockNumber, Larger
  <2> QED
    BY <2>1, <2>2
<1>2. fake \in Nat
  BY FakeIsNatural
<1> HIDE DEF fake
<1>3. period = fake \div ExpDiffPeriod /\ period \in Nat
  BY <1>1, <1>2
<1>4. Bomb(fake) = IF period > 1 THEN CalcBomb(period) ELSE 0
  BY <1>3 DEF Bomb
<1>5. CASE period > 1
  <2>1. period - 2 \in Nat /\ period - 2 + 2 = period
    BY <1>3, <1>5
  <2>2. /\ PowerOfTwo(period - 2) \in Nat
        /\ PowerOfTwo(period - 2) < DiffModulus
                => CalcBomb(period - 2 + 2) = PowerOfTwo(period - 2)
    BY <2>1, BombIsPower
  <2> QED
    BY <1>4, <1>5, <2>1, <2>2 DEF fake
<1>6. CASE ~(period > 1)
  BY <1>4, <1>6 DEF fake
<1> QED
  BY <1>5, <1>6

LEMMA NegativeUnits ==
    ASSUME NEW y \in Nat, NEW k \in Nat
    PROVE  y * (-k) = -(y * k)
  OBVIOUS

\* The calculator computes the formula.
LEMMA EthashByFormula ==
    ASSUME NEW parent, parent.diff \in UInt, parent.time \in UInt,
           parent.number \in UInt, parent.number + 1 < DiffModulus,
           NEW time \in UInt, parent.time <= time,
           NEW calc, calc.deltaDivisor \in Nat \ {0}, calc.hasMaxCheck = TRUE,
           calc.bombDelay \in Nat,
           Formula(calc, parent, time) < DiffModulus
    PROVE  EthashDifficulty(calc, parent, time) = Formula(calc, parent, time)
<1> DEFINE base   == IF calc.considerUncle /\ parent.hasUncle THEN 2 ELSE 1
           x      == Minus(time, parent.time) \div calc.deltaDivisor
           y      == parent.diff \div BoundDivisor
           units  == Larger(base - x, -MaxReduction)
           period == Larger(parent.number + 1 - calc.bombDelay, 0) \div ExpDiffPeriod
           bomb   == IF period > 1 THEN PowerOfTwo(period - 2) ELSE 0
           diff   == IF x > base
                     THEN Reduced(calc, parent.diff, Times(y, Reduction(calc, x - base)))
                     ELSE Plus(parent.diff, Times(y, base - x))
<1>1. Minus(time, parent.time) = time - parent.time /\ time - parent.time \in Nat
  <2>1. time - parent.time \in UInt
    OBVIOUS
  <2> QED
    BY <2>1, NoOverflow DEF Minus
<1>2. x \in Nat /\ base \in 1 .. 2
  BY <1>1
<1>3. Formula(calc, parent, time) = Larger(parent.diff + y * units, MinDiff) + bomb
  BY <1>1 DEF Formula
<1>4. EthashDifficulty(calc, parent, time)
          = Plus(AtLeastMinDiff(diff), Bomb(FakeBlockNumber(calc, parent)))
  BY DEF EthashDifficulty
<1>5. /\ bomb \in Nat
      /\ bomb < DiffModulus => Bomb(FakeBlockNumber(calc, parent)) = bomb
  <2> HIDE DEF bomb, period
  <2>1. period = Larger(parent.number + 1 - calc.bombDelay, 0) \div ExpDiffPeriod
    BY DEF period
  <2>2. bomb = IF period > 1 THEN PowerOfTwo(period - 2) ELSE 0
    BY DEF bomb
  <2> QED
    BY <2>1, <2>2, BombByFormula
<1>6. y \in Nat
  BY Units
<1>7. y * units \in Int
  <2>1. units \in Int
    BY <1>2 DEF Larger
  <2> HIDE DEF units, y
  <2> QED
    BY <1>6, <2>1
<1>8. parent.diff + y * units < DiffModulus =>
            parent.diff + y * units \in UInt /\ diff = parent.diff + y * units
  <2> SUFFICES ASSUME parent.diff + y * units < DiffModulus
               PROVE  parent.diff + y * units \in UInt /\ diff = parent.diff + y * units
    OBVIOUS
  <2>1. units = IF base - x < -MaxReduction THEN -MaxReduction ELSE base - x
    BY DEF Larger
  <2>2. CASE x > base
    <3> DEFINE k == Reduction(calc, x - base)
    <3>1. diff = Reduced(calc, parent.diff, Times(y, k))
      BY <2>2
    <3> HIDE DEF x, base, y, units, diff
    <3>2. k \in 0 .. MaxReduction /\ units = -k
      BY <1>2, <2>1, <2>2 DEF Reduction
    <3> HIDE DEF k
    <3>3. k \in Nat /\ k \in 0 .. BoundDivisor
      BY <3>2
    <3>4. y * k \in 0 .. parent.diff
      BY <3>3, Units DEF y
    <3>5. y * units = -(y * k)
      BY <1>6, <3>2, <3>3, NegativeUnits
    <3>6. Times(y, k) = y * k
      BY <3>4, NoOverflow DEF Times
    <3>7. parent.diff - y * k \in UInt
      BY <3>4
    <3>8. Reduced(calc, parent.diff, y * k) = parent.diff - y * k
      BY <3>7, NoOverflow DEF Reduced, Minus
    <3>9. parent.diff + y * units = parent.diff - y * k
      BY <3>4, <3>5
    <3> QED
      BY <3>1, <3>6, <3>7, <3>8, <3>9
  <2>3. CASE ~(x > base)
    <3> DEFINE k == base - x
    <3>1. diff = Plus(parent.diff, Times(y, k))
      BY <2>3
    <3> HIDE DEF x, base, y, units, diff
    <3>2. k \in 0 .. 2 /\ units = k
      BY <1>2, <2>1, <2>3
    <3> HIDE DEF k
    <3>3. y * k \in Nat /\ parent.diff + y * k < DiffModulus
      BY <1>6, <3>2
    <3>4. y * k \in UInt /\ parent.diff + y * k \in UInt
      BY <3>3
    <3>5. Times(y, k) = y * k /\ Plus(parent.diff, y * k) = parent.diff + y * k
      BY <3>4, NoOverflow DEF Times, Plus
    <3> QED
      BY <3>1, <3>2, <3>4, <3>5
  <2> QED
    BY <2>2, <2>3
<1> HIDE DEF x, base, y, units, period, bomb, diff
<1> DEFINE sum == parent.diff + y * units
<1>9. sum \in Int
  BY <1>7
<1>10. /\ Formula(calc, parent, time) = Larger(sum, MinDiff) + bomb
       /\ sum < DiffModulus => sum \in UInt /\ diff = sum
  BY <1>3, <1>8
<1> HIDE DEF sum
<1>11. sum < DiffModulus /\ bomb < DiffModulus /\ Larger(sum, MinDiff) \in Nat
  BY <1>5, <1>9, <1>10 DEF Larger
<1>12. diff = sum /\ Bomb(FakeBlockNumber(calc, parent)) = bomb
  BY <1>5, <1>10, <1>11
<1>13. AtLeastMinDiff(diff) = Larger(sum, MinDiff)
  BY <1>10, <1>11, <1>12 DEF AtLeastMinDiff, Larger
<1>14. Larger(sum, MinDiff) + bomb \in UInt
  BY <1>5, <1>10, <1>11
<1> QED
  BY <1>4, <1>10, <1>12, <1>13, <1>14, NoOverflow DEF Plus

\* The number of the next header does not wrap around.
NumberFits == header.number + 1 < DiffModulus

\* EthashDAACalculator: the unsigned arithmetic computes the formula that its
\* comments quote, for all forks, delays of the bomb and timestamps that do not
\* go back, as long as the result fits, and the number of the block.
THEOREM DifficultyIsByFormula == Spec /\ []NumberFits => DifficultyFollowsFormula
<1> DEFINE Followed ==
        LET required == Formula(CalculatorOf(header'.number), header, header'.time)
        IN  /\ header' # header
            /\ UsesEthash(header'.number)
            /\ header'.time >= header.time
            /\ required < DiffModulus
            => header'.diff = required
<1>1. HeaderTyped /\ NumberFits /\ [Next]_vars => [Followed]_vars
  <2> SUFFICES ASSUME HeaderTyped, NumberFits, Next, header' # header,
                      UsesEthash(header'.number),
                      header'.time >= header.time,
                      Formula(CalculatorOf(header'.number), header, header'.time)
                          < DiffModulus
               PROVE  header'.diff
                        = Formula(CalculatorOf(header'.number), header, header'.time)
    BY DEF vars
  <2> DEFINE n == header.number + 1
  <2>1. PICK time \in Timestamps, hasUncle \in BOOLEAN :
            header' = Child(header, time, hasUncle)
    BY StepEffect
  <2>2. time \in UInt
    BY HeaderChainAssumption
  <2>3. n \in Nat /\ Plus(header.number, 1) = n
    <3>1. n \in UInt
      BY DEF HeaderTyped, NumberFits
    <3> QED
      BY <3>1, NoOverflow DEF Plus
  <2>4. /\ header'.number = n
        /\ header'.time = time
        /\ header'.diff = RequiredDiff(header, time)
    BY <2>1, <2>3 DEF Child
  <2>5. ForkOf(n) # "Frontier" /\ ~IsBlockOfParis(n)
    BY <2>4 DEF UsesEthash
  <2>6. RequiredDiff(header, time) = EthashDifficulty(CalculatorOf(n), header, time)
    BY <2>5, CalculatorIsOfFork DEF RequiredDiff
  <2>7. /\ CalculatorOf(n).deltaDivisor \in Nat \ {0}
        /\ CalculatorOf(n).hasMaxCheck = TRUE
        /\ CalculatorOf(n).bombDelay \in Nat
    BY <2>3, <2>5, CalculatorTyped
  <2>8. header.time <= time /\ Formula(CalculatorOf(n), header, time) < DiffModulus
    BY <2>2, <2>4 DEF HeaderTyped
  <2>9. header.number + 1 < DiffModulus
    BY DEF NumberFits
  <2> HIDE DEF n
  <2>10. EthashDifficulty(CalculatorOf(n), header, time)
            = Formula(CalculatorOf(n), header, time)
    BY <2>2, <2>7, <2>8, <2>9, EthashByFormula DEF HeaderTyped
  <2> QED
    BY <2>4, <2>6, <2>10
<1> QED
  BY <1>1, HeaderIsTyped, PTL DEF Spec, DifficultyFollowsFormula

-----------------------------------------------------------------------------
(* The estimate.                                                            *)

\* Where the estimator may be asked, the rules of Gray Glacier apply.
LEMMA EstimatedFork ==
    ASSUME NEW n \in Nat, IsBlockOf("GrayGlacier", n)
    PROVE  /\ ForkOf(n) = "GrayGlacier"
           /\ CalculatorOf(n) = Calculator(TRUE, 9, TRUE, BombDelay["GrayGlacier"])
           /\ BombDelay["GrayGlacier"] \in Nat
<1> DEFINE Begun == {i \in DOMAIN Forks : IsBlockOf(Forks[i], n)}
<1>1. 1 \in Begun /\ Begun \subseteq 1 .. 7 /\ Forks[1] = "GrayGlacier"
  BY DEF Forks
<1>2. (CHOOSE i \in Begun : \A j \in Begun : i <= j) = 1
  <2>1. \A i \in Begun : (\A j \in Begun : i <= j) <=> i = 1
    BY <1>1
  <2> QED
    BY <1>1, <2>1
<1>3. ForkOf(n) = "GrayGlacier"
  BY <1>1, <1>2 DEF ForkOf
<1>4. "GrayGlacier" \in DOMAIN BombDelay
  BY DEF IsBlockOf
<1>5. BombDelay["GrayGlacier"] \in Nat
  BY <1>4
<1> QED
  BY <1>3, <1>5 DEF CalculatorOf, CalculatorSince

\* An uncapped reduction takes away at least as much as a capped one.
LEMMA UncappedIsLess ==
    ASSUME NEW parent, parent.diff \in UInt, parent.time \in UInt,
           parent.number \in UInt,
           NEW time \in UInt, time >= parent.time,
           NEW delay \in Nat,
           NEW bomb,
           bomb = Bomb(FakeBlockNumber(Calculator(TRUE, 9, TRUE, delay), parent)),
           MostAfter(parent) + bomb < DiffModulus,
           ReductionFits(parent, time)
    PROVE  EthashDifficulty(Calculator(TRUE, 9, FALSE, delay), parent, time)
              <= EthashDifficulty(Calculator(TRUE, 9, TRUE, delay), parent, time)
<1> DEFINE x    == Minus(time, parent.time) \div 9
           base == IF parent.hasUncle THEN 2 ELSE 1
           y    == parent.diff \div BoundDivisor
           capped == IF x - base > MaxReduction THEN MaxReduction ELSE x - base
           more == Plus(parent.diff, Times(y, base - x))
           less == Minus(parent.diff, Times(y, capped))
           lessEst == IF Times(y, x - base) > parent.diff
                      THEN MinDiff
                      ELSE Minus(parent.diff, Times(y, x - base))
           diff == IF x > base THEN less ELSE more
           diffEst == IF x > base THEN lessEst ELSE more
<1>1. /\ EthashDifficulty(Calculator(TRUE, 9, TRUE, delay), parent, time)
            = Plus(AtLeastMinDiff(diff), bomb)
      /\ EthashDifficulty(Calculator(TRUE, 9, FALSE, delay), parent, time)
            = Plus(AtLeastMinDiff(diffEst), bomb)
  BY DEF EthashDifficulty, Calculator, Reduced, Reduction, FakeBlockNumber
<1>2. x = (time - parent.time) \div 9 /\ x \in Nat
  <2>1. Minus(time, parent.time) = time - parent.time
    BY NoOverflow DEF Minus
  <2> QED
    BY <2>1
<1>3. y \in Nat /\ base \in 1 .. 2 /\ y * x < DiffModulus
  BY <1>2, Units DEF ReductionFits
<1>4. bomb \in Nat
  <2>1. Calculator(TRUE, 9, TRUE, delay).bombDelay \in Nat
    BY DEF Calculator
  <2> QED
    BY <2>1, BombIsNatural, FakeIsNatural
<1>5. MostAfter(parent) \in Nat /\ parent.diff <= MostAfter(parent)
      /\ parent.diff + 2 * y <= MostAfter(parent) /\ MinDiff <= MostAfter(parent)
  BY <1>3 DEF MostAfter, Larger
<1>0. parent.diff + 2 * y < DiffModulus
  <2>1. parent.diff + 2 * y \in Nat
    BY <1>3
  <2>2. parent.diff + 2 * y \in UInt
    BY <1>4, <1>5, <2>1, SumFits
  <2> QED
    BY <2>2
<1> HIDE DEF x, base
<1>6. /\ diff \in Nat /\ diffEst \in Nat
      /\ diff <= MostAfter(parent)
      /\ diffEst <= diff \/ diffEst = MinDiff
  <2>1. CASE x > base
    <3>1. capped \in 0 .. BoundDivisor /\ capped <= x - base /\ x - base \in Nat
      BY <1>2, <1>3, <2>1
    <3> HIDE DEF capped
    <3>2. y * capped \in 0 .. parent.diff
      BY <3>1, Units
    <3>3. y * capped <= y * (x - base) /\ y * (x - base) <= y * x
      BY <1>2, <1>3, <3>1
    <3>4. /\ y * (x - base) \in UInt
          /\ Times(y, capped) = y * capped
          /\ Times(y, x - base) = y * (x - base)
      BY <1>2, <1>3, <3>1, <3>2, <3>3, NoOverflow DEF Times
    <3>5. less = parent.diff - y * capped
      BY <3>2, <3>4, NoOverflow DEF Minus
    <3>6. y * (x - base) <= parent.diff =>
            Minus(parent.diff, Times(y, x - base)) = parent.diff - y * (x - base)
      BY <3>4, NoOverflow DEF Minus
    <3>7. lessEst = IF y * (x - base) > parent.diff
                    THEN MinDiff
                    ELSE parent.diff - y * (x - base)
      BY <3>4, <3>6
    <3>8. diff = less /\ diffEst = lessEst
      BY <2>1
    <3> HIDE DEF y, less, lessEst, diff, diffEst
    <3> QED
      BY <1>5, <3>2, <3>3, <3>4, <3>5, <3>7, <3>8
  <2>2. CASE ~(x > base)
    <3>1. base - x \in 0 .. 2
      BY <1>2, <1>3, <2>2
    <3>2. y * (base - x) \in Nat /\ y * (base - x) <= 2 * y
      BY <1>3, <3>1, FewerUnits
    <3> DEFINE up == y * (base - x)
    <3>3. up \in UInt /\ parent.diff + up \in UInt
      <4> HIDE DEF y, up
      <4>1. up \in Nat /\ up <= 2 * y /\ y \in Nat /\ parent.diff \in Nat
        BY <1>3, <3>2 DEF up
      <4> QED
        BY <1>0, <4>1
    <3>4. more = parent.diff + y * (base - x)
      BY <3>3, NoOverflow DEF Times, Plus
    <3>5. diff = more /\ diffEst = more
      BY <2>2
    <3> HIDE DEF y, more, diff, diffEst
    <3> QED
      BY <1>3, <1>5, <3>2, <3>4, <3>5
  <2> QED
    BY <2>1, <2>2
<1> HIDE DEF diff, diffEst
<1>7. /\ AtLeastMinDiff(diffEst) \in Nat /\ AtLeastMinDiff(diff) \in Nat
      /\ AtLeastMinDiff(diffEst) <= AtLeastMinDiff(diff)
      /\ AtLeastMinDiff(diff) <= MostAfter(parent)
  BY <1>5, <1>6 DEF AtLeastMinDiff
<1> DEFINE est  == AtLeastMinDiff(diffEst)
           real == AtLeastMinDiff(diff)
           most == MostAfter(parent)
<1>8. /\ est \in Nat /\ real \in Nat /\ most \in Nat
      /\ est <= real /\ real <= most /\ most + bomb < DiffModulus
  BY <1>5, <1>7
<1> HIDE DEF est, real, most
<1>9. est + bomb \in UInt /\ real + bomb \in UInt /\ est + bomb <= real + bomb
  <2>1. real + bomb \in UInt
    BY <1>4, <1>8, SumFits
  <2>2. est <= most
    BY <1>8
  <2>3. est + bomb \in UInt
    BY <1>4, <1>8, <2>2, SumFits
  <2>4. est + bomb <= real + bomb
    BY <1>4, <1>8, SumGrows
  <2> QED
    BY <2>1, <2>3, <2>4
<1>10. Plus(est, bomb) = est + bomb /\ Plus(real, bomb) = real + bomb
  BY <1>9, NoOverflow DEF Plus
<1> QED
  BY <1>1, <1>9, <1>10 DEF est, real

\* EthashDAACalculator::GetEip5133Estimated: without the cap, the estimate is
\* never above what the rules require, for any difficulty and any waiting time
\* for which nothing overflows.
THEOREM EstimateIsBounded == Spec => []EstimateIsNotTooHigh
<1>1. HeaderTyped => EstimateIsNotTooHigh
  <2> DEFINE n == header.number + 1
             delay == BombDelay["GrayGlacier"]
  <2> SUFFICES ASSUME HeaderTyped, Estimable, ChildFits(header),
                      NEW time \in Clock \cup Timestamps,
                      time >= header.time, ReductionFits(header, time)
               PROVE  EthashDAAEst(header, time) <= EthashDAA(header, n, time)
    BY DEF EstimateIsNotTooHigh
  <2>1. /\ header.number \in UInt /\ header.time \in UInt /\ header.diff \in UInt
        /\ n \in Nat
    BY DEF HeaderTyped
  <2>2. time \in UInt
    BY HeaderChainAssumption
  <2>3. IsBlockOf("GrayGlacier", n) /\ ~IsBlockOfParis(n)
    BY DEF Estimable, CanEstimate
  <2>4. /\ ForkOf(n) = "GrayGlacier"
        /\ CalculatorOf(n) = Calculator(TRUE, 9, TRUE, delay)
        /\ delay \in Nat
    BY <2>1, <2>3, EstimatedFork
  <2>5. BombAfter(header) =
            Bomb(FakeBlockNumber(Calculator(TRUE, 9, TRUE, delay), header))
    BY <2>3, <2>4 DEF BombAfter, UsesEthash
  <2>6. EthashDAA(header, n, time)
            = EthashDifficulty(Calculator(TRUE, 9, TRUE, delay), header, time)
    BY <2>4, CalculatorIsOfFork
  <2>7. EthashDAAEst(header, time)
            = EthashDifficulty(Calculator(TRUE, 9, FALSE, delay), header, time)
    BY DEF EthashDAAEst, GetEip5133Estimated
  <2>8. MostAfter(header) + BombAfter(header) < DiffModulus
    BY DEF ChildFits
  <2> HIDE DEF n, delay
  <2> QED
    BY <2>1, <2>2, <2>4, <2>5, <2>6, <2>7, <2>8, UncappedIsLess
<1> QED
  BY <1>1, HeaderIsTyped, PTL

-----------------------------------------------------------------------------
(***************************************************************************)
(* A node that RuntimeMaintenance erases is of no more use, and would be    *)
(* erased at any later moment too.  The difficulty of a child is written as *)
(* a number of units of that of the parent, which falls with time.          *)
(***************************************************************************)

\* What the finality of expiry needs of a run, where the estimator may be asked:
\* no product or sum of difficulties overflows, as long as the node may be
\* waited for.
EstimateFits ==
    Estimable =>
        /\ ChildFits(header)
        /\ header.time <= now /\ Minus(now, trustedTime) <= MaxWaitTime =>
                ReductionFits(header, now)

\* The node was received by the trusted clock.
ClockTyped ==
    /\ trustedTime \in UInt
    /\ now \in UInt
    /\ trustedTime <= now
    /\ m_minDiff \in UInt

-----------------------------------------------------------------------------
(* The difficulty as a number of units.                                     *)

Base(parent) == IF parent.hasUncle THEN 2 ELSE 1

\* Units added to the difficulty, or, if negative, taken away from it.
Steps(parent, x) ==
    IF x - Base(parent) > MaxReduction THEN -MaxReduction ELSE Base(parent) - x

Adjusted(parent, x) ==
    parent.diff + (parent.diff \div BoundDivisor) * Steps(parent, x)

Waited(parent, time) == (time - parent.time) \div 9

\* Without the cap, where the difficulty may fall below zero.
AdjustedUncapped(parent, x) ==
    parent.diff + (parent.diff \div BoundDivisor) * (Base(parent) - x)

\* The difficulty of a child with that timestamp.
Expected(parent, time, bomb) ==
    AtLeastMinDiff(Adjusted(parent, Waited(parent, time))) + bomb

\* What the estimator promises.
Estimated(parent, time, bomb) ==
    AtLeastMinDiff(AdjustedUncapped(parent, Waited(parent, time))) + bomb

LEMMA StepsRange ==
    ASSUME NEW parent, NEW x \in Nat
    PROVE  /\ Steps(parent, x) \in Int
           /\ -MaxReduction <= Steps(parent, x)
           /\ Steps(parent, x) <= 2
  BY DEF Steps, Base

\* More units are more.
LEMMA MoreUnits ==
    ASSUME NEW y \in Nat, NEW k \in Int, NEW m \in Int, k <= m
    PROVE  y * k \in Int /\ y * m \in Int /\ y * k <= y * m
  OBVIOUS

LEMMA AdjustedRange ==
    ASSUME NEW parent, parent.diff \in UInt, NEW x \in Nat
    PROVE  /\ Adjusted(parent, x) \in Nat
           /\ Adjusted(parent, x) <= parent.diff + 2 * (parent.diff \div BoundDivisor)
<1> DEFINE y == parent.diff \div BoundDivisor
           s == Steps(parent, x)
<1>1. y \in Nat /\ y * MaxReduction \in 0 .. parent.diff
  BY Units
<1>2. s \in Int /\ -MaxReduction <= s /\ s <= 2
  BY StepsRange
<1>3. Adjusted(parent, x) = parent.diff + y * s
  BY DEF Adjusted
<1> HIDE DEF y, s
<1>4. y * (-MaxReduction) <= y * s /\ y * s <= y * 2 /\ y * s \in Int
  BY <1>1, <1>2, MoreUnits
<1>5. y * (-MaxReduction) = -(y * MaxReduction) /\ y * 2 = 2 * y
  BY <1>1
<1>6. Adjusted(parent, x) \in Nat /\ Adjusted(parent, x) <= parent.diff + 2 * y
  BY <1>1, <1>3, <1>4, <1>5
<1> QED
  BY <1>6 DEF y

\* The longer the wait, the lower the difficulty.
LEMMA AdjustedFalls ==
    ASSUME NEW parent, parent.diff \in UInt,
           NEW x \in Nat, NEW later \in Nat, x <= later
    PROVE  Adjusted(parent, later) <= Adjusted(parent, x)
<1>1. Steps(parent, later) <= Steps(parent, x)
  BY DEF Steps, Base
<1>2. Steps(parent, later) \in Int /\ Steps(parent, x) \in Int
  BY StepsRange
<1>3. parent.diff \div BoundDivisor \in Nat
  BY Units
<1> DEFINE y == parent.diff \div BoundDivisor
<1>4. /\ y * Steps(parent, later) \in Int /\ y * Steps(parent, x) \in Int
      /\ y * Steps(parent, later) <= y * Steps(parent, x)
  BY <1>1, <1>2, <1>3, MoreUnits
<1> HIDE DEF y
<1> QED
  BY <1>4 DEF Adjusted, y

LEMMA WaitGrows ==
    ASSUME NEW parent, parent.time \in Nat,
           NEW time \in Nat, parent.time <= time,
           NEW later \in Nat, time <= later
    PROVE  /\ Waited(parent, time) \in Nat /\ Waited(parent, later) \in Nat
           /\ Waited(parent, time) <= Waited(parent, later)
  BY DEF Waited

\* The calculator of Gray Glacier, with or without the cap, where it does not
\* matter, computes that number of units in unsigned arithmetic.
LEMMA EthashInUnits ==
    ASSUME NEW parent, parent.diff \in UInt, parent.time \in UInt,
           parent.number \in UInt,
           NEW time \in UInt, parent.time <= time,
           NEW delay \in Nat, NEW calc,
           \/ calc = Calculator(TRUE, 9, TRUE, delay)
           \/ /\ calc = Calculator(TRUE, 9, FALSE, delay)
              /\ Waited(parent, time) - Base(parent) <= MaxReduction,
           NEW bomb, bomb = Bomb(FakeBlockNumber(calc, parent)), bomb \in Nat,
           MostAfter(parent) + bomb < DiffModulus
    PROVE  EthashDifficulty(calc, parent, time) = Expected(parent, time, bomb)
<1> DEFINE x    == Waited(parent, time)
           base == Base(parent)
           y    == parent.diff \div BoundDivisor
           units == Reduction(calc, x - base)
           less == Reduced(calc, parent.diff, Times(y, units))
           more == Plus(parent.diff, Times(y, base - x))
           diff == IF x > base THEN less ELSE more
<1>1. x \in Nat /\ Minus(time, parent.time) \div 9 = x
  <2>1. Minus(time, parent.time) = time - parent.time
    BY NoOverflow DEF Minus
  <2> QED
    BY <2>1, WaitGrows DEF Waited
<1>2. EthashDifficulty(calc, parent, time) = Plus(AtLeastMinDiff(diff), bomb)
  <2>1. calc.deltaDivisor = 9 /\ calc.considerUncle = TRUE
    BY DEF Calculator
  <2> QED
    BY <1>1, <2>1 DEF EthashDifficulty, Base
<1>3. y \in Nat /\ base \in 1 .. 2
  BY Units DEF Base
<1>4. /\ MostAfter(parent) \in Nat /\ parent.diff + 2 * y \in Nat
      /\ parent.diff + 2 * y <= MostAfter(parent)
      /\ MinDiff <= MostAfter(parent)
  BY <1>3 DEF MostAfter, Larger
<1>0. parent.diff + 2 * y < DiffModulus
  <2>1. parent.diff + 2 * y \in UInt
    BY <1>4, SumFits
  <2> QED
    BY <2>1
<1>5. diff = Adjusted(parent, x)
  <2>1. CASE x > base
    <3>1. /\ units = IF x - base > MaxReduction THEN MaxReduction ELSE x - base
          /\ units \in 0 .. BoundDivisor
      <4>1. calc.hasMaxCheck = TRUE \/ x - base <= MaxReduction
        BY DEF Calculator
      <4> HIDE DEF x, base
      <4> QED
        BY <1>1, <1>3, <2>1, <4>1 DEF Reduction
    <3> HIDE DEF units
    <3>2. Steps(parent, x) = -units
      <4> HIDE DEF x
      <4> QED
        BY <1>1, <1>3, <2>1, <3>1 DEF Steps
    <3> DEFINE down == y * units
    <3>3. down \in 0 .. parent.diff
      <4>1. parent.diff \in Nat
        OBVIOUS
      <4>2. units \in 0 .. BoundDivisor
        BY <3>1
      <4> QED
        BY <4>1, <4>2, Units
    <3>4. Times(y, units) = down
      BY <3>3, NoOverflow DEF Times
    <3>5. y * (-units) = -down
      BY <1>3, <3>1
    <3>6. less = Reduced(calc, parent.diff, down)
      BY <3>4
    <3>7. diff = less
      BY <2>1
    <3> HIDE DEF down, less, diff, y
    <3>8. less = parent.diff - down
      BY <3>3, <3>6, NoOverflow DEF Reduced, Minus
    <3> QED
      BY <3>2, <3>3, <3>5, <3>7, <3>8 DEF Adjusted, y
  <2>2. CASE ~(x > base)
    <3> DEFINE s == base - x
    <3>1. s \in 0 .. 2 /\ Steps(parent, x) = s
      BY <1>1, <1>3, <2>2 DEF Steps
    <3> HIDE DEF s
    <3>2. y * s \in Nat /\ y * s <= 2 * y
      BY <1>3, <3>1, FewerUnits
    <3> DEFINE up == y * s
    <3>3. up \in UInt /\ parent.diff + up \in UInt
      <4> HIDE DEF y, up
      <4>1. up \in Nat /\ up <= 2 * y /\ y \in Nat /\ parent.diff \in Nat
        BY <1>3, <3>2 DEF up
      <4> QED
        BY <1>0, <4>1
    <3>4. more = parent.diff + y * s
      BY <3>3, NoOverflow DEF Times, Plus, s
    <3>5. diff = more
      BY <2>2
    <3> HIDE DEF more, diff, y
    <3> QED
      BY <3>1, <3>4, <3>5 DEF Adjusted, y
  <2> QED
    BY <2>1, <2>2
<1>6. Adjusted(parent, x) \in Nat /\ Adjusted(parent, x) <= parent.diff + 2 * y
  BY <1>1, AdjustedRange
<1> HIDE DEF diff, y, x
<1>7. /\ AtLeastMinDiff(diff) \in Nat
      /\ AtLeastMinDiff(diff) <= MostAfter(parent)
  BY <1>4, <1>5, <1>6 DEF AtLeastMinDiff
<1>8. AtLeastMinDiff(diff) + bomb \in UInt
  BY <1>4, <1>7, SumFits
<1>9. Plus(AtLeastMinDiff(diff), bomb) = AtLeastMinDiff(diff) + bomb
  BY <1>8, NoOverflow DEF Plus
<1> QED
  BY <1>2, <1>5, <1>9 DEF Expected, x

LEMMA MinDiffKeepsOrder ==
    ASSUME NEW d \in Int, NEW e \in Int, d <= e, NEW bomb \in Nat
    PROVE  /\ AtLeastMinDiff(d) + bomb \in Nat /\ AtLeastMinDiff(e) + bomb \in Nat
           /\ AtLeastMinDiff(d) + bomb <= AtLeastMinDiff(e) + bomb
  BY DEF AtLeastMinDiff

\* The longer the wait, the lower the estimate.
LEMMA UncappedFalls ==
    ASSUME NEW parent, parent.diff \in UInt,
           NEW x \in Nat, NEW later \in Nat, x <= later
    PROVE  /\ AdjustedUncapped(parent, x) \in Int
           /\ AdjustedUncapped(parent, later) \in Int
           /\ AdjustedUncapped(parent, later) <= AdjustedUncapped(parent, x)
<1> DEFINE y == parent.diff \div BoundDivisor
           base == Base(parent)
<1>1. y \in Nat /\ base \in Nat
  BY Units DEF Base
<1> HIDE DEF y, base
<1>2. base - later \in Int /\ base - x \in Int /\ base - later <= base - x
  BY <1>1
<1>3. /\ y * (base - later) \in Int /\ y * (base - x) \in Int
      /\ y * (base - later) <= y * (base - x)
  BY <1>1, <1>2, MoreUnits
<1> QED
  BY <1>3 DEF AdjustedUncapped, y, base

\* The calculator without the cap, in unsigned arithmetic.
LEMMA UncappedInUnits ==
    ASSUME NEW parent, parent.diff \in UInt, parent.time \in UInt,
           parent.number \in UInt,
           NEW time \in UInt, parent.time <= time,
           NEW delay \in Nat, NEW calc, calc = Calculator(TRUE, 9, FALSE, delay),
           NEW bomb, bomb = Bomb(FakeBlockNumber(calc, parent)), bomb \in Nat,
           MostAfter(parent) + bomb < DiffModulus,
           ReductionFits(parent, time)
    PROVE  EthashDifficulty(calc, parent, time) = Estimated(parent, time, bomb)
<1> DEFINE x    == Waited(parent, time)
           base == Base(parent)
           y    == parent.diff \div BoundDivisor
<1>1. CASE x - base <= MaxReduction
  <2>1. EthashDifficulty(calc, parent, time) = Expected(parent, time, bomb)
    BY <1>1, EthashInUnits
  <2>2. x \in Nat /\ base \in Nat
    BY WaitGrows DEF Base
  <2>3. Steps(parent, x) = base - x
    <3> HIDE DEF x
    <3> QED
      BY <1>1, <2>2 DEF Steps
  <2>4. Adjusted(parent, x) = AdjustedUncapped(parent, x)
    BY <2>3 DEF Adjusted, AdjustedUncapped
  <2> QED
    BY <2>1, <2>4 DEF Expected, Estimated
<1>2. CASE x - base > MaxReduction
  <2>1. x \in Nat /\ Minus(time, parent.time) \div 9 = x
    <3>1. Minus(time, parent.time) = time - parent.time
      BY NoOverflow DEF Minus
    <3> QED
      BY <3>1, WaitGrows DEF Waited
  <2>2. y \in Nat /\ base \in 1 .. 2 /\ MaxReduction \in Nat
    BY Units DEF Base
  <2>3. y * x < DiffModulus
    BY DEF ReductionFits, Waited
  <2> DEFINE down == y * (x - base)
             less == IF down > parent.diff THEN MinDiff ELSE parent.diff - down
  <2>4. EthashDifficulty(calc, parent, time)
            = Plus(AtLeastMinDiff(Reduced(calc, parent.diff, Times(y, x - base))), bomb)
    <3>1. calc.deltaDivisor = 9 /\ calc.considerUncle = TRUE /\ ~calc.hasMaxCheck
      BY DEF Calculator
    <3>2. x > base
      <4> HIDE DEF x, base
      <4> QED
        BY <1>2, <2>1, <2>2
    <3> QED
      BY <2>1, <3>1, <3>2 DEF EthashDifficulty, Reduction, Base
  <2>5. down \in UInt
    <3> HIDE DEF x, base, y
    <3>1. x - base \in Nat /\ x - base <= x
      BY <1>2, <2>1, <2>2
    <3>2. y * (x - base) \in Nat /\ y * (x - base) <= x * y
      BY <2>1, <2>2, <3>1, FewerUnits
    <3>3. x * y = y * x
      BY <2>1, <2>2
    <3> DEFINE whole == y * x
    <3>4. whole \in Nat /\ whole < DiffModulus
      BY <2>1, <2>2, <2>3
    <3> HIDE DEF down, whole
    <3>5. down \in Nat /\ down <= whole
      BY <3>2, <3>3 DEF down, whole
    <3> QED
      BY <3>4, <3>5
  <2>6. Times(y, x - base) = down
    BY <2>5, NoOverflow DEF Times
  <2>7. y * (base - x) = -down
    <3> HIDE DEF x, base, y
    <3> QED
      BY <2>1, <2>2
  <2> HIDE DEF down, x, base, y
  <2>8. Reduced(calc, parent.diff, down) = less
    <3>1. ~calc.hasMaxCheck
      BY DEF Calculator
    <3>2. down <= parent.diff => Minus(parent.diff, down) = parent.diff - down
      BY <2>5, NoOverflow DEF Minus
    <3> QED
      BY <2>5, <3>1, <3>2 DEF Reduced
  <2>9. /\ AtLeastMinDiff(less) = AtLeastMinDiff(parent.diff - down)
        /\ AtLeastMinDiff(less) \in Nat
        /\ AtLeastMinDiff(less) <= MostAfter(parent)
        /\ MostAfter(parent) \in Nat
    BY <2>2, <2>5 DEF AtLeastMinDiff, MostAfter, Larger, y
  <2> HIDE DEF less
  <2>10. AtLeastMinDiff(less) + bomb \in UInt
    BY <2>9, SumFits
  <2>11. Plus(AtLeastMinDiff(less), bomb) = AtLeastMinDiff(less) + bomb
    BY <2>10, NoOverflow DEF Plus
  <2>12. AdjustedUncapped(parent, x) = parent.diff - down
    BY <2>5, <2>7 DEF AdjustedUncapped, y, base
  <2> QED
    BY <2>4, <2>6, <2>8, <2>9, <2>11, <2>12 DEF Estimated, x
<1> QED
  <2>1. x \in Nat /\ base \in Nat /\ MaxReduction \in Nat
    BY WaitGrows DEF Base
  <2>2. x - base <= MaxReduction \/ x - base > MaxReduction
    <3> HIDE DEF x, base
    <3> QED
      BY <2>1
  <2> QED
    BY <1>1, <1>2, <2>2

-----------------------------------------------------------------------------
(* The clock.                                                               *)

LEMMA ClockIsTyped == Spec => []ClockTyped
<1>1. Init => ClockTyped
  BY HeaderChainAssumption DEF Init, ClockTyped
<1>2. ClockTyped /\ [Next]_vars => ClockTyped'
  <2> SUFFICES ASSUME ClockTyped, [Next]_vars PROVE ClockTyped'
    OBVIOUS
  <2>1. CASE History
    BY <2>1 DEF History, ClockTyped
  <2>2. CASE Receive
    BY <2>2 DEF Receive, ClockTyped
  <2>3. CASE Tick
    BY <2>3, HeaderChainAssumption DEF Tick, ClockTyped
  <2>4. CASE UNCHANGED vars
    BY <2>4 DEF vars, ClockTyped
  <2> QED
    BY <2>1, <2>2, <2>3, <2>4 DEF Next
<1> QED
  BY <1>1, <1>2, PTL DEF Spec

LEMMA DifferenceGrows ==
    ASSUME NEW t \in Int, NEW time \in Int, NEW later \in Int, time <= later
    PROVE  time - t \in Int /\ later - t \in Int /\ time - t <= later - t
  OBVIOUS

\* What is over a limit or below a threshold stays so.
LEMMA StaysPast ==
    ASSUME NEW wait \in Int, NEW longer \in Int, wait <= longer, NEW limit \in Int,
           NEW d \in Int, NEW less \in Int, less <= d, NEW threshold \in Int,
           wait > limit \/ d < threshold
    PROVE  longer > limit \/ less < threshold
  OBVIOUS

\* The newest node can stay the same only if it is not replaced by a child.
LEMMA SameNode ==
    ASSUME HeaderTyped, ClockTyped, Estimable, [Next]_vars, header' = header
    PROVE  /\ trustedTime' = trustedTime /\ m_minDiff' = m_minDiff
           /\ now' \in UInt /\ now <= now'
<1>1. CASE History
  <2>1. trustedTime' = trustedTime /\ m_minDiff' = m_minDiff /\ now' = now
    BY <1>1 DEF History
  <2> QED
    BY <2>1 DEF ClockTyped
<1>2. CASE Receive
  <2> DEFINE n == header.number
  <2>1. n = Plus(n, 1) /\ n \in UInt
    BY <1>2 DEF Receive, Child, HeaderTyped
  <2>2. DiffModulus = 1
    BY <2>1 DEF Plus
  <2>3. trustedTime = 0 /\ now = 0
    BY <2>2 DEF ClockTyped
  <2> QED
    BY <1>2, <2>3 DEF Receive, ClockTyped
<1>3. CASE Tick
  BY <1>3, HeaderChainAssumption DEF Tick, ClockTyped
<1>4. CASE UNCHANGED vars
  BY <1>4 DEF vars, ClockTyped
<1> QED
  BY <1>1, <1>2, <1>3, <1>4 DEF Next

LEMMA WaitIsExact ==
    ASSUME NEW t \in UInt, NEW time \in UInt, t <= time
    PROVE  Minus(time, t) = time - t
  BY NoOverflow DEF Minus

-----------------------------------------------------------------------------
(* The estimate and the difficulty of a child, in units.                    *)

ExpectedAt(time) == Expected(header, time, BombAfter(header))

EstimateAt(time) == Estimated(header, time, BombAfter(header))

LEMMA EstimateInUnits ==
    ASSUME HeaderTyped, Estimable, ChildFits(header),
           NEW time \in UInt, header.time <= time
    PROVE  /\ BombAfter(header) \in Nat
           /\ EthashDAA(header, header.number + 1, time) = ExpectedAt(time)
           /\ Waited(header, time) - Base(header) <= MaxReduction =>
                    EthashDAAEst(header, time) = ExpectedAt(time)
           /\ ReductionFits(header, time) =>
                    EthashDAAEst(header, time) = EstimateAt(time)
<1> DEFINE n == header.number + 1
           delay == BombDelay["GrayGlacier"]
           bomb == BombAfter(header)
<1>1. /\ header.number \in UInt /\ header.time \in UInt /\ header.diff \in UInt
      /\ n \in Nat
  BY DEF HeaderTyped
<1>2. IsBlockOf("GrayGlacier", n) /\ ~IsBlockOfParis(n)
  BY DEF Estimable, CanEstimate
<1>3. /\ ForkOf(n) = "GrayGlacier"
      /\ CalculatorOf(n) = Calculator(TRUE, 9, TRUE, delay)
      /\ delay \in Nat
  BY <1>1, <1>2, EstimatedFork
<1> HIDE DEF delay
<1>4. \A hasMaxCheck \in BOOLEAN :
        bomb = Bomb(FakeBlockNumber(Calculator(TRUE, 9, hasMaxCheck, delay), header))
  BY <1>2, <1>3 DEF BombAfter, UsesEthash, FakeBlockNumber, Calculator
<1>5. bomb \in Nat
  <2>1. Calculator(TRUE, 9, TRUE, delay).bombDelay \in Nat
    BY <1>3 DEF Calculator
  <2> QED
    BY <1>1, <1>4, <2>1, BombIsNatural, FakeIsNatural
<1>6. EthashDAA(header, n, time)
        = EthashDifficulty(Calculator(TRUE, 9, TRUE, delay), header, time)
  BY <1>3, CalculatorIsOfFork
<1>7. EthashDAAEst(header, time)
        = EthashDifficulty(Calculator(TRUE, 9, FALSE, delay), header, time)
  BY DEF EthashDAAEst, GetEip5133Estimated, delay
<1>8. MostAfter(header) + bomb < DiffModulus
  BY DEF ChildFits
<1> HIDE DEF n, bomb
<1>9. EthashDAA(header, n, time)
        = Expected(header, time, bomb)
  <2>1. bomb = Bomb(FakeBlockNumber(Calculator(TRUE, 9, TRUE, delay), header))
    BY <1>4
  <2>2. EthashDifficulty(Calculator(TRUE, 9, TRUE, delay), header, time)
        = Expected(header, time, bomb)
    BY <1>1, <1>3, <1>5, <1>8, <2>1, EthashInUnits
  <2> QED
    BY <1>6, <2>2
<1>10. ASSUME Waited(header, time) - Base(header) <= MaxReduction
       PROVE  EthashDAAEst(header, time)
                = Expected(header, time, bomb)
  <2>1. bomb = Bomb(FakeBlockNumber(Calculator(TRUE, 9, FALSE, delay), header))
    BY <1>4
  <2>2. EthashDifficulty(Calculator(TRUE, 9, FALSE, delay), header, time)
        = Expected(header, time, bomb)
    BY <1>1, <1>3, <1>5, <1>8, <1>10, <2>1, EthashInUnits
  <2> QED
    BY <1>7, <2>2
<1>11. ASSUME ReductionFits(header, time)
       PROVE  EthashDAAEst(header, time)
                = Estimated(header, time, bomb)
  <2>1. bomb = Bomb(FakeBlockNumber(Calculator(TRUE, 9, FALSE, delay), header))
    BY <1>4
  <2>2. EthashDifficulty(Calculator(TRUE, 9, FALSE, delay), header, time)
        = Estimated(header, time, bomb)
    BY <1>1, <1>3, <1>5, <1>8, <1>11, <2>1, UncappedInUnits
  <2> QED
    BY <1>7, <2>2
<1> QED
  BY <1>5, <1>9, <1>10, <1>11 DEF ExpectedAt, EstimateAt, n, bomb

\* The difficulty of a child falls as its timestamp is later.
LEMMA ExpectedFalls ==
    ASSUME HeaderTyped, BombAfter(header) \in Nat,
           NEW time \in UInt, header.time <= time,
           NEW later \in UInt, time <= later
    PROVE  /\ ExpectedAt(time) \in Nat /\ ExpectedAt(later) \in Nat
           /\ ExpectedAt(later) <= ExpectedAt(time)
<1>1. header.diff \in UInt /\ header.time \in Nat
  BY DEF HeaderTyped
<1> DEFINE x == Waited(header, time)
           y == Waited(header, later)
<1>2. x \in Nat /\ y \in Nat /\ x <= y
  BY <1>1, WaitGrows
<1> HIDE DEF x, y
<1>3. /\ Adjusted(header, x) \in Nat /\ Adjusted(header, y) \in Nat
      /\ Adjusted(header, y) <= Adjusted(header, x)
  BY <1>1, <1>2, AdjustedRange, AdjustedFalls
<1> QED
  BY <1>3, MinDiffKeepsOrder DEF ExpectedAt, Expected, x, y

\* So does the estimate.
LEMMA EstimateFalls ==
    ASSUME HeaderTyped, BombAfter(header) \in Nat,
           NEW time \in UInt, header.time <= time,
           NEW later \in UInt, time <= later
    PROVE  /\ EstimateAt(time) \in Nat /\ EstimateAt(later) \in Nat
           /\ EstimateAt(later) <= EstimateAt(time)
<1>1. header.diff \in UInt /\ header.time \in Nat
  BY DEF HeaderTyped
<1> DEFINE x == Waited(header, time)
           y == Waited(header, later)
<1>2. x \in Nat /\ y \in Nat /\ x <= y
  BY <1>1, WaitGrows
<1> HIDE DEF x, y
<1>3. /\ AdjustedUncapped(header, x) \in Int /\ AdjustedUncapped(header, y) \in Int
      /\ AdjustedUncapped(header, y) <= AdjustedUncapped(header, x)
  BY <1>1, <1>2, UncappedFalls
<1> QED
  BY <1>3, MinDiffKeepsOrder DEF EstimateAt, Estimated, x, y

\* A node expires because it was waited for too long, or because its child is
\* not estimated to have the difficulty of the threshold.
LEMMA WhyExpired ==
    ASSUME HeaderTyped, ClockTyped, Estimable, EstimateFits, header.time <= now
    PROVE  Expired <=> \/ now - trustedTime > MaxWaitTime
                       \/ EstimateAt(now) < m_minDiff
<1>1. now \in UInt /\ trustedTime \in UInt /\ m_minDiff \in UInt
  BY DEF ClockTyped
<1>2. Minus(now, trustedTime) = now - trustedTime /\ now - trustedTime \in Nat
  BY <1>1, WaitIsExact DEF ClockTyped
<1>3. MaxWaitTime \in Nat
  BY DiffRulesAssumption
<1>4. Expired <=> ~ /\ now - trustedTime <= MaxWaitTime
                    /\ EthashDAAEst(header, now) >= m_minDiff
  BY <1>2 DEF Expired, CheckEstDifficulty, Estimable, CanEstimate
<1>5. CASE now - trustedTime > MaxWaitTime
  BY <1>2, <1>3, <1>4, <1>5
<1>6. CASE now - trustedTime <= MaxWaitTime
  <2>1. ReductionFits(header, now)
    BY <1>2, <1>6 DEF EstimateFits
  <2>2. EthashDAAEst(header, now) = EstimateAt(now) /\ BombAfter(header) \in Nat
    BY <1>1, <2>1, EstimateInUnits DEF EstimateFits
  <2>3. EstimateAt(now) \in Nat
    BY <1>1, <2>2, EstimateFalls
  <2> QED
    BY <1>1, <1>2, <1>3, <1>4, <1>6, <2>2, <2>3
<1> QED
  BY <1>2, <1>3, <1>5, <1>6

-----------------------------------------------------------------------------
(* Theorems.                                                                *)

\* RuntimeMaintenance: however seldom it is called, it erases the same nodes,
\* for all parameters, forks, thresholds and timestamps for which nothing
\* overflows.
THEOREM ExpiryIsFinal == Spec /\ []EstimateFits => ExpiredStaysExpired
<1>1. HeaderTyped /\ ClockTyped /\ ClockTyped' /\ EstimateFits /\ EstimateFits'
        /\ [Next]_vars
        => [header' = header /\ header.time <= now /\ Expired => Expired']_vars
  <2> SUFFICES ASSUME HeaderTyped, ClockTyped, ClockTyped', EstimateFits,
                      EstimateFits', [Next]_vars,
                      header' = header, header.time <= now, Expired
               PROVE  Expired'
    OBVIOUS
  <2>1. Estimable /\ Estimable' /\ HeaderTyped'
    BY DEF Expired, Estimable, HeaderTyped
  <2>2. /\ trustedTime' = trustedTime /\ m_minDiff' = m_minDiff
        /\ now' \in UInt /\ now <= now'
    BY <2>1, SameNode
  <2>3. /\ now \in UInt /\ trustedTime \in UInt /\ m_minDiff \in UInt
        /\ header.time \in UInt
    BY DEF ClockTyped, HeaderTyped
  <2>4. BombAfter(header) \in Nat
    BY <2>1, <2>3, EstimateInUnits DEF EstimateFits
  <2>5. /\ EstimateAt(now) \in Nat /\ EstimateAt(now') \in Nat
        /\ EstimateAt(now') <= EstimateAt(now)
    BY <2>2, <2>3, <2>4, EstimateFalls
  <2>6. EstimateAt(now)' = EstimateAt(now')
    BY DEF EstimateAt, BombAfter
  <2>7. now - trustedTime > MaxWaitTime \/ EstimateAt(now) < m_minDiff
    BY <2>1, WhyExpired
  <2>8. (now - trustedTime > MaxWaitTime \/ EstimateAt(now) < m_minDiff)'
    <3>1. /\ now \in Int /\ now' \in Int /\ trustedTime \in Int /\ now <= now'
          /\ m_minDiff \in Int
      BY <2>2, <2>3
    <3>2. now - trustedTime <= now' - trustedTime
      BY <3>1, DifferenceGrows
    <3>3. now - trustedTime \in Int /\ now' - trustedTime \in Int
      BY <3>1
    <3>4. MaxWaitTime \in Int
      BY DiffRulesAssumption
    <3> DEFINE d == EstimateAt(now)
               less == EstimateAt(now')
    <3>5. /\ d \in Int /\ less \in Int /\ less <= d
          /\ now - trustedTime > MaxWaitTime \/ d < m_minDiff
      BY <2>5, <2>7
    <3> HIDE DEF d, less
    <3>6. now' - trustedTime > MaxWaitTime \/ less < m_minDiff
      BY <3>1, <3>2, <3>3, <3>4, <3>5, StaysPast
    <3> QED
      BY <2>2, <2>6, <3>6 DEF less
  <2>9. (header.time <= now)'
    BY <2>2, <2>3
  <2>10. (HeaderTyped /\ ClockTyped /\ Estimable /\ EstimateFits /\ header.time <= now
            => (Expired <=> \/ now - trustedTime > MaxWaitTime
                            \/ EstimateAt(now) < m_minDiff))'
    BY WhyExpired, PTL
  <2> QED
    BY <2>1, <2>8, <2>9, <2>10
<1> QED
  BY <1>1, HeaderIsTyped, ClockIsTyped, PTL DEF Spec, ExpiredStaysExpired

\* RuntimeMaintenance and CheckEstDifficulty: an active node that is erased,
\* because it was waited for too long or because of an estimate that the cap
\* would not change, could not have had a child any more.  For all parameters,
\* forks, thresholds, clocks and timestamps.
THEOREM ExpiredIsUseless == Spec => []PastExpiredCannotBeExtended
<1>1. HeaderTyped /\ ClockTyped => PastExpiredCannotBeExtended
  <2> SUFFICES ASSUME HeaderTyped, ClockTyped, Expired, ChildFits(header),
                      CapNotReached \/ WaitedTooLong,
                      NEW time \in Clock \cup Timestamps,
                      time >= now, time > header.time
               PROVE  ~CheckDifficulty(m_minDiff, trustedTime,
                                       Child(header, time, FALSE), now)
    BY DEF PastExpiredCannotBeExtended, CannotBeExtended
  <2> DEFINE child == Child(header, time, FALSE)
  <2>1. Estimable /\ ~IsBlockOfParis(header.number + 1)
    BY DEF Expired, Estimable, CanEstimate
  <2>2. /\ now \in UInt /\ trustedTime \in UInt /\ m_minDiff \in UInt
        /\ header.time \in UInt /\ header.number \in UInt /\ trustedTime <= now
        /\ time \in UInt
    BY HeaderChainAssumption DEF ClockTyped, HeaderTyped
  <2>3. ~IsBlockOfParis(child.number)
    BY <2>1, <2>2, ParamsAssumption DEF Child, Plus, IsBlockOfParis
  <2>4. Minus(now, trustedTime) \in Nat /\ MaxWaitTime \in Nat
    BY <2>2, WaitIsExact, DiffRulesAssumption
  <2>5. CASE WaitedTooLong
    <3> HIDE DEF child
    <3>1. ~(Minus(now, trustedTime) <= MaxWaitTime)
      BY <2>4, <2>5 DEF WaitedTooLong
    <3>2. ~CheckDifficulty(m_minDiff, trustedTime, child, now)
      BY <2>3, <3>1 DEF CheckDifficulty
    <3> QED
      BY <3>2 DEF child
  <2>6. CASE CapNotReached /\ ~WaitedTooLong
    <3>1. /\ header.time <= now
          /\ Waited(header, now) - Base(header) <= MaxReduction
      BY <2>6 DEF CapNotReached, Waited, Base
    <3>2. EthashDAAEst(header, now) = ExpectedAt(now)
      BY <2>1, <2>2, <3>1, EstimateInUnits
    <3>3. child.diff = ExpectedAt(time) /\ BombAfter(header) \in Nat
      BY <2>1, <2>2, EstimateInUnits DEF Child, RequiredDiff
    <3>4. /\ ExpectedAt(now) \in Nat /\ ExpectedAt(time) \in Nat
          /\ ExpectedAt(time) <= ExpectedAt(now)
      BY <2>2, <3>1, <3>3, ExpectedFalls
    <3>5. ~(EthashDAAEst(header, now) >= m_minDiff)
      BY <2>4, <2>6 DEF Expired, CheckEstDifficulty, WaitedTooLong
    <3> HIDE DEF child
    <3>6. ~(child.diff >= m_minDiff)
      BY <2>2, <3>2, <3>3, <3>4, <3>5
    <3>7. ~CheckDifficulty(m_minDiff, trustedTime, child, now)
      BY <2>3, <3>6 DEF CheckDifficulty
    <3> QED
      BY <3>7 DEF child
  <2> QED
    BY <2>5, <2>6
<1> QED
  BY <1>1, HeaderIsTyped, ClockIsTyped, PTL
=============================================================================

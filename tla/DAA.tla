--------------------------------- MODULE DAA ---------------------------------
(***************************************************************************)
(* Eth/DAA.hpp: the difficulty that the Ethereum rules require of a block,  *)
(* as a function of its parent and its timestamp, in unsigned 64-bit        *)
(* arithmetic, and the estimate of it that tells whether a node expired.    *)
(*                                                                          *)
(* A header is a record with fields number, time, diff and hasUncle.        *)
(***************************************************************************)
EXTENDS Params

CONSTANTS
    MinDiff,        \* Params::GetMinimumDifficulty, 131072
    BoundDivisor,   \* 2^GetDifficultyBoundDivisorBitShift, 2048
    DurationLimit,  \* Params::GetDurationLimit, 13
    MaxReduction,   \* sk_diffBig99, 99
    ExpDiffPeriod,  \* sk_expDiffPeriod, 100000
    ForkNum,        \* the first block of each fork the network has
    BombDelay       \* the delay of the difficulty bomb in force since a fork

\* The forks that changed the rules, newest first.
Forks == << "GrayGlacier", "ArrowGlacier", "London", "MuirGlacier",
            "Constantinople", "Byzantium", "Homestead" >>

ASSUME DAAAssumption ==
    /\ MinDiff \in UInt
    /\ BoundDivisor \in Nat \ {0}
    /\ DurationLimit \in Nat
    /\ MaxReduction \in 1 .. BoundDivisor
    /\ ExpDiffPeriod \in Nat \ {0}
    /\ \A fork \in DOMAIN ForkNum : ForkNum[fork] \in UInt
    /\ \A fork \in DOMAIN BombDelay : BombDelay[fork] \in UInt \ {0}
    /\ DOMAIN ForkNum \subseteq DOMAIN BombDelay \cup {"Homestead"}

-----------------------------------------------------------------------------
(* The difficulty bomb.                                                     *)

\* The loop doubles 1 periodCount - 2 times.
CalcBomb(periodCount) ==
    LET y[i \in 0 .. periodCount - 2] == IF i = 0 THEN 1 ELSE Times(y[i - 1], 2)
    IN  IF periodCount <= 2 THEN 1 ELSE y[periodCount - 2]

Bomb(fakeBlockNumber) ==
    LET periodCount == fakeBlockNumber \div ExpDiffPeriod
    IN  IF periodCount > 1 THEN CalcBomb(periodCount) ELSE 0

AtLeastMinDiff(diff) == IF diff < MinDiff THEN MinDiff ELSE diff

-----------------------------------------------------------------------------
(* Class EthashDAACalculator.  Its instances differ in deltaDivisor, in     *)
(* whether they consider uncles and cap the reduction, and in the delay of  *)
(* the bomb, 0 for none.                                                    *)

Calculator(considerUncle, deltaDivisor, hasMaxCheck, bombDelay) ==
    [considerUncle |-> considerUncle, deltaDivisor |-> deltaDivisor,
     hasMaxCheck |-> hasMaxCheck, bombDelay |-> bombDelay]

HomesteadCalculator == Calculator(FALSE, 10, TRUE, 0)

CalculatorSince(fork) == Calculator(TRUE, 9, TRUE, BombDelay[fork])

GetEip5133Estimated == Calculator(TRUE, 9, FALSE, BombDelay["GrayGlacier"])

\* Mutant: the delay is subtracted from the number of the parent.
FakeBlockNumberOfParent(calc, parent) ==
    CASE calc.bombDelay = 0 -> Plus(parent.number, 1)
      [] calc.bombDelay > 0 /\ parent.number >= calc.bombDelay ->
            parent.number - calc.bombDelay
      [] OTHER -> 0

FakeBlockNumber(calc, parent) ==
    LET bombDelayFromParent == calc.bombDelay - 1
    IN  CASE calc.bombDelay = 0 -> Plus(parent.number, 1)
          [] calc.bombDelay > 0 /\ parent.number >= bombDelayFromParent ->
                parent.number - bombDelayFromParent
          [] OTHER -> 0

\* Mutant: the reduction is not capped.
ReductionUncapped(calc, x) == x

\* "max(..., -99)"
Reduction(calc, x) ==
    IF calc.hasMaxCheck /\ x > MaxReduction THEN MaxReduction ELSE x

\* Mutant: the estimate wraps around below zero.
ReducedWrapping(calc, parentDiff, change) == Minus(parentDiff, change)

Reduced(calc, parentDiff, change) ==
    IF ~calc.hasMaxCheck /\ change > parentDiff
    THEN MinDiff
    ELSE Minus(parentDiff, change)

\* A time before that of the parent wraps around to a very long delay.
EthashDifficulty(calc, parent, currTime) ==
    LET x    == Minus(currTime, parent.time) \div calc.deltaDivisor
        base == IF calc.considerUncle /\ parent.hasUncle THEN 2 ELSE 1
        y    == parent.diff \div BoundDivisor
        diff == IF x > base
                THEN Reduced(calc, parent.diff, Times(y, Reduction(calc, x - base)))
                ELSE Plus(parent.diff, Times(y, base - x))
    IN  Plus(AtLeastMinDiff(diff), Bomb(FakeBlockNumber(calc, parent)))

-----------------------------------------------------------------------------
(* Class EthashDAACalculatorFrontier.                                       *)

FrontierDifficulty(parent, currTime) ==
    LET adjust == parent.diff \div BoundDivisor
        diff   == IF Minus(currTime, parent.time) < DurationLimit
                  THEN Plus(parent.diff, adjust)
                  ELSE Minus(parent.diff, adjust)
    IN  Plus(AtLeastMinDiff(diff), Bomb(Plus(parent.number, 1)))

-----------------------------------------------------------------------------
(* Classes EthashDAAImpl and EthashDAAEstImpl: the choice by block number.  *)

IsBlockOf(fork, number) == fork \in DOMAIN ForkNum /\ number >= ForkNum[fork]

\* The newest fork that has begun.
ForkOf(number) ==
    LET Begun == {i \in DOMAIN Forks : IsBlockOf(Forks[i], number)}
    IN  IF Begun = {}
        THEN "Frontier"
        ELSE Forks[CHOOSE i \in Begun : \A j \in Begun : i <= j]

\* Throws since Paris.
EthashDAA(parent, number, currTime) ==
    LET fork == ForkOf(number)
    IN  CASE fork = "Frontier" -> FrontierDifficulty(parent, currTime)
          [] fork = "Homestead" ->
                EthashDifficulty(HomesteadCalculator, parent, currTime)
          [] OTHER ->
                EthashDifficulty(CalculatorSince(fork), parent, currTime)

\* "Estimating the difficulty value before EIP-5133 is not allowed": throws.
CanEstimate(number) == IsBlockOf("GrayGlacier", number) /\ ~IsBlockOfParis(number)

EthashDAAEst(parent, currTime) ==
    EthashDifficulty(GetEip5133Estimated, parent, currTime)
=============================================================================

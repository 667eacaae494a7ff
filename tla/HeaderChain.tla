---------------------------- MODULE HeaderChain -----------------------------
(***************************************************************************)
(* A chain of headers as the validator and the difficulty checker judge it  *)
(* (Eth/Validator.hpp, Eth/DAA.hpp, Eth/DiffChecker.hpp), against a clock   *)
(* that is not the clock of those who made the headers.                     *)
(*                                                                          *)
(* The state is the newest node of the chain: its header, and the trusted   *)
(* time at which it was received.  Receive is what UpdateOnRuntimeAddChild  *)
(* lets through; History what UpdateOnBootstrapI does, where the trusted    *)
(* time is 0 and the difficulty is not compared to a threshold.             *)
(***************************************************************************)
EXTENDS DAA, DiffRules

CONSTANTS
    FirstHeaders,   \* the headers the chain may begin with
    Timestamps,         \* the timestamps of headers
    MinDiffs,       \* the values of m_minDiff
    Clock,          \* the values of the trusted clock
    MaxAccepted     \* bound on the headers accepted, for TLC

ASSUME HeaderChainAssumption ==
    /\ MaxAccepted \in Nat
    /\ Clock \subseteq UInt
    /\ Timestamps \subseteq UInt
    /\ MinDiffs \subseteq UInt
    /\ \A h \in FirstHeaders : /\ h.number \in UInt /\ h.time \in UInt
                               /\ h.diff \in UInt /\ h.hasUncle \in BOOLEAN

VARIABLES
    header,         \* the newest header
    trustedTime,    \* when it was received
    m_minDiff,      \* the threshold of the checkpoint
    now,            \* the trusted clock
    accepted        \* history: number of headers accepted after the first

vars == <<header, trustedTime, m_minDiff, now, accepted>>

TypeOK ==
    /\ header \in [number : UInt, time : UInt, diff : UInt, hasUncle : BOOLEAN]
    /\ trustedTime \in UInt
    /\ m_minDiff \in UInt
    /\ now \in Clock
    /\ accepted \in 0 .. MaxAccepted

Init ==
    /\ header \in FirstHeaders
    /\ trustedTime = 0
    /\ m_minDiff \in MinDiffs
    /\ now \in Clock
    /\ accepted = 0

\* The difficulty that the validator requires; of headers with the number and
\* the parent hash right.  The timestamp is not compared to anything.
RequiredDiff(parent, time) ==
    IF IsBlockOfParis(parent.number + 1)
    THEN 0
    ELSE EthashDAA(parent, parent.number + 1, time)

Child(parent, time, hasUncle) ==
    [number |-> Plus(parent.number, 1), time |-> time,
     diff |-> RequiredDiff(parent, time), hasUncle |-> hasUncle]

History ==
    /\ accepted < MaxAccepted
    /\ accepted' = accepted + 1
    /\ trustedTime = 0
    /\ \E time \in Timestamps, hasUncle \in BOOLEAN :
        header' = Child(header, time, hasUncle)
    /\ UNCHANGED <<trustedTime, m_minDiff, now>>

Receive ==
    /\ accepted < MaxAccepted
    /\ accepted' = accepted + 1
    /\ \E time \in Timestamps, hasUncle \in BOOLEAN :
        LET child == Child(header, time, hasUncle)
        IN  /\ CheckDifficulty(m_minDiff, trustedTime, child, now)
            /\ header' = child
    /\ trustedTime' = now
    /\ UNCHANGED <<m_minDiff, now>>

Tick ==
    /\ \E time \in Clock : now < time /\ now' = time
    /\ UNCHANGED <<header, trustedTime, m_minDiff, accepted>>

Next == History \/ Receive \/ Tick

Spec == Init /\ [][Next]_vars
-----------------------------------------------------------------------------
(* Properties.                                                              *)

Larger(a, b) == IF a < b THEN b ELSE a

PowerOfTwo(n) ==
    LET power[i \in 0 .. n] == IF i = 0 THEN 1 ELSE 2 * power[i - 1]
    IN  power[n]

\* The comment in EthashDAACalculator: "diff = (parent_diff + (parent_diff /
\* 2048 * max((2 if len(parent.uncles) else 1) - ((timestamp -
\* parent.timestamp) // 9), -99))) + 2^(periodCount - 2)", with the bomb
\* counted in periods of the block number less the delay, in integers without
\* bounds.
Formula(calc, parent, time) ==
    LET base   == IF calc.considerUncle /\ parent.hasUncle THEN 2 ELSE 1
        steps  == base - (time - parent.time) \div calc.deltaDivisor
        capped == IF calc.hasMaxCheck THEN Larger(steps, -MaxReduction) ELSE steps
        period == (Larger(parent.number + 1 - calc.bombDelay, 0)) \div ExpDiffPeriod
    IN  Larger(parent.diff + (parent.diff \div BoundDivisor) * capped, MinDiff)
            + (IF period > 1 THEN PowerOfTwo(period - 2) ELSE 0)

UsesEthash(number) ==
    ~IsBlockOfParis(number) /\ ForkOf(number) # "Frontier"

CalculatorOf(number) ==
    IF ForkOf(number) = "Homestead"
    THEN HomesteadCalculator
    ELSE CalculatorSince(ForkOf(number))

\* The unsigned arithmetic of the calculator, which never sees a negative
\* number, computes the formula for every header accepted with a timestamp
\* that is not before that of its parent, as long as the result fits.
DifficultyFollowsFormula ==
    [][ LET required == Formula(CalculatorOf(header'.number), header, header'.time)
        IN  /\ header' # header
            /\ UsesEthash(header'.number)
            /\ header'.time >= header.time
            /\ required < DiffModulus
            => header'.diff = required ]_vars

\* The bomb in the difficulty of a child.
BombAfter(parent) ==
    LET number == parent.number + 1
    IN  IF UsesEthash(number)
        THEN Bomb(FakeBlockNumber(CalculatorOf(number), parent))
        ELSE Bomb(Plus(parent.number, 1))

\* The least and the most difficulty a child can have, apart from the bomb.
LeastAfter(parent) ==
    Larger(parent.diff - MaxReduction * (parent.diff \div BoundDivisor), MinDiff)

MostAfter(parent) ==
    Larger(parent.diff + 2 * (parent.diff \div BoundDivisor), MinDiff)

ChildFits(parent) == MostAfter(parent) + BombAfter(parent) < DiffModulus

\* Whatever the timestamps of a header and its parent, in whatever order: the
\* difficulty falls by no more than MaxReduction units in one block, and never
\* wraps around to a huge one.
DifficultyFallsSlowly ==
    [][ LET bomb == BombAfter(header)
        IN  /\ header' # header
            /\ ~IsBlockOfParis(header.number + 1)
            /\ ChildFits(header)
            => /\ LeastAfter(header) + bomb <= header'.diff
               /\ header'.diff <= MostAfter(header) + bomb ]_vars

Estimable == CanEstimate(header.number + 1)

\* The reduction that is not capped can be computed.  At a difficulty of 2^53
\* it overflows after a year without a block.
ReductionFits(parent, time) ==
    (parent.diff \div BoundDivisor) * ((time - parent.time) \div 9) < DiffModulus

\* GetEip5133Estimated has no cap on the reduction: whenever it is asked, it
\* never promises more difficulty than a child with that timestamp has.
EstimateIsNotTooHigh ==
    Estimable /\ ChildFits(header) =>
        \A time \in Clock \cup Timestamps :
            time >= header.time /\ ReductionFits(header, time) =>
                EthashDAAEst(header, time) <=
                    EthashDAA(header, header.number + 1, time)

\* The node is erased from the active nodes.
Expired ==
    /\ Estimable
    /\ ~CheckEstDifficulty(m_minDiff, header, trustedTime,
                           EthashDAAEst(header, now), now)

\* A node that has expired stays so: RuntimeMaintenance, which erases it when
\* it is called, gives the same answer as if it were called at every moment.
ExpiredStaysExpired ==
    [][ header' = header /\ header.time <= now /\ Expired => Expired' ]_vars

\* A child stamped with the present or a later time would be refused.
CannotBeExtended ==
    \A time \in Clock \cup Timestamps :
        time >= now /\ time > header.time =>
            ~CheckDifficulty(m_minDiff, trustedTime, Child(header, time, FALSE), now)

\* docs/flow_diagram.drawio:366: "A active block means based on difficulty
\* estimation, it can still have new child block without failing the difficulty
\* check", and "if a block cannot be extended, it will marked as inactive".
\* The difficulty checker erases no active node that can be extended.
ExpiredCannotBeExtended == trustedTime > 0 /\ Expired => CannotBeExtended

\* The estimate for a child made now is as low as with the cap on the reduction.
CapNotReached ==
    /\ header.time <= now
    /\ (now - header.time) \div 9 - (IF header.hasUncle THEN 2 ELSE 1) <= MaxReduction

WaitedTooLong == Minus(now, trustedTime) > MaxWaitTime

\* A node is erased because it was waited for too long since it was received,
\* or because of what its timestamp and difficulty make of a child.  The first
\* is always right.  The second is right as long as the timestamp is not ahead
\* of the trusted clock, where the estimator's currTime - parentTime wraps
\* around, and not so old that a child would profit from the cap, which the
\* estimator leaves out.  Difficulties must fit.
PastExpiredCannotBeExtended ==
    /\ Expired
    /\ ChildFits(header)
    /\ CapNotReached \/ WaitedTooLong
    => CannotBeExtended
=============================================================================

------------------------------ MODULE DiffRules ------------------------------
(***************************************************************************)
(* Eth/DiffChecker.hpp: the difficulty threshold computed from a median,    *)
(* and the checks of a header against a threshold and the trusted clock.    *)
(*                                                                          *)
(* GenericDiffCheckerImpl sends blocks from ParisNum on to the              *)
(* proof-of-stake checker, which agrees to everything, and earlier ones to  *)
(* the proof-of-work checker.                                               *)
(***************************************************************************)
EXTENDS Params

CONSTANTS
    MinDiffPercent,     \* MonitorConfig minDiffPercent
    MaxWaitTime         \* MonitorConfig maxWaitTime

ASSUME DiffRulesAssumption == MinDiffPercent \in Nat /\ MaxWaitTime \in Nat

\* diff_min = (diff_median >> 7) * m_minDiffPercent.
MinDiffOf(median) == Times(median \div 128, MinDiffPercent)

\* parentTime and time are the trusted times of a header and its parent.
CheckDifficulty(minDiff, parentTime, header, time) ==
    \/ IsBlockOfParis(header.number)
    \/ /\ time > parentTime
       /\ Minus(time, parentTime) <= MaxWaitTime
       /\ header.diff >= minDiff

\* Mutant: the comparison is the wrong way round.
CheckEstDifficultyLate(minDiff, parent, parentTime, estDiff, now) ==
    \/ IsBlockOfParis(parent.number + 1)
    \/ /\ Minus(now, parentTime) > MaxWaitTime
       /\ estDiff >= minDiff

\* estDiff is what the difficulty estimator answers for a child of parent
\* created now.
CheckEstDifficulty(minDiff, parent, parentTime, estDiff, now) ==
    \/ IsBlockOfParis(parent.number + 1)
    \/ /\ Minus(now, parentTime) <= MaxWaitTime
       /\ estDiff >= minDiff
=============================================================================

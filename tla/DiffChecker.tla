----------------------------- MODULE DiffChecker -----------------------------
(***************************************************************************)
(* Eth/DiffChecker.hpp: the difficulty threshold kept from checkpoint to    *)
(* checkpoint.  The proof-of-work checker owns m_minDiff.                   *)
(***************************************************************************)
EXTENDS CheckpointMgr, DiffRules

CONSTANT Uninit     \* an uninitialised member

ASSUME UninitAssumption == Uninit \notin Nat

VARIABLE m_minDiff      \* never assigned before the first checkpoint

DiffTypeOK == m_minDiff \in UInt \cup {Uninit}

DiffInit == m_minDiff = Uninit

\* Mutant: the two checkers are swapped.
OnChkptUpdSwapped ==
    m_minDiff' = IF IsBlockOfParis(GetCheckpointBlkNumRange[2])'
                 THEN MinDiffOf(GetDiffMedian')
                 ELSE m_minDiff

\* Runs inside the completion callback: it reads the windows as the
\* operation that completed the checkpoint leaves them.  The proof-of-stake
\* checker does nothing.
OnChkptUpd ==
    m_minDiff' = IF IsBlockOfParis(GetCheckpointBlkNumRange[2])'
                 THEN m_minDiff
                 ELSE MinDiffOf(GetDiffMedian')
=============================================================================

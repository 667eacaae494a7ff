---------------------------- MODULE CheckpointLog ----------------------------
(***************************************************************************)
(* The checkpoint manager driven the way EclipseMonitor drives it: headers  *)
(* of one chain, oldest first; AddHeader during Bootstrap I, then           *)
(* EndBootstrapPhase once, then AddNode.  Completing a window runs          *)
(* EclipseMonitor::OnCheckpointComplete, which updates the security state   *)
(* and the difficulty checker and reports every header of the window.       *)
(*                                                                          *)
(* The forks, the phases and failing callbacks are in EclipseMonitor.tla:   *)
(* here the callbacks return.                                               *)
(***************************************************************************)
EXTENDS DiffChecker

CONSTANT MaxFed     \* bound on the length of the chain, for TLC

ASSUME MaxFedAssumption == MaxFed \in Nat

VARIABLES
    checkpointHash,     \* security state: last header of the checkpoint
    checkpointNum,      \* security state: its number
    checkpointIter,     \* security state: number of checkpoints completed
    fed,                \* history: the headers handed over
    reported            \* history: the calls of onHeaderConfirmed

secVars == <<checkpointHash, checkpointNum, checkpointIter>>
vars == <<chkptVars, m_minDiff, secVars, fed, reported>>

LogTypeOK ==
    /\ CheckpointTypeOK
    /\ checkpointHash \in Header \cup {NoNode}
    /\ checkpointNum \in Nat
    /\ checkpointIter \in Nat
    /\ fed \in Seq(Header)
    /\ reported \in Seq(Header)

TypeOK == LogTypeOK /\ DiffTypeOK

Init ==
    /\ CheckpointInit
    /\ DiffInit
    /\ checkpointHash = NoNode
    /\ checkpointNum = 0
    /\ checkpointIter = 0
    /\ fed = <<>>
    /\ reported = <<>>

-----------------------------------------------------------------------------

\* The validator lets a header through only if its number follows that of
\* its parent; the first one is accepted with any number.
Follows(header) ==
    fed # <<>> => header.number = fed[Len(fed)].number + 1

Hand(header) ==
    /\ Len(fed) < MaxFed
    /\ Follows(header)
    /\ fed' = Append(fed, header)

OnCheckpointComplete ==
    /\ checkpointHash' = GetLastHeader'
    /\ checkpointNum' = GetLastHeader.number'
    /\ checkpointIter' = checkpointIter + 1
    /\ OnChkptUpd
    /\ reported' = reported \o IterateCurrWindow'

NoCheckpoint == UNCHANGED <<secVars, m_minDiff, reported>>

FillCandidate(header) ==
    Hand(header) /\ AddHeaderKeeps(header) /\ NoCheckpoint

FinishCandidate(header) ==
    Hand(header) /\ AddHeaderCompletes(header) /\ OnCheckpointComplete

LeaveBootstrap ==
    EndBootstrapPhase /\ NoCheckpoint /\ UNCHANGED fed

\* RuntimeMaintenance throws, in GetLastNodePtr, before there is a last node.
Advance(node) ==
    HasLastNode /\ Hand(node) /\ AddNodeKeeps(node) /\ NoCheckpoint

AdvanceAndFinish(node) ==
    HasLastNode /\ Hand(node) /\ AddNodeCompletes(node) /\ OnCheckpointComplete

Next ==
    \/ LeaveBootstrap
    \/ \E header \in Header :
        \/ FillCandidate(header)
        \/ FinishCandidate(header)
        \/ Advance(header)
        \/ AdvanceAndFinish(header)

Spec == Init /\ [][Next]_vars

-----------------------------------------------------------------------------
(* Properties.                                                              *)

\* The headers of the candidate window.
Pending ==
    IF m_isLastNodeCandidate THEN WithLastNode(m_candidate) ELSE m_candidate

LastOf(n) == SubSeq(reported, Len(reported) - n + 1, Len(reported))

\* The documentation of checkpointSize (MonitorReport.hpp): "The number of
\* blocks in each checkpoint window".  Every completed window, however it is
\* split between m_currWindow and m_lastNode, has reported that many headers.
CheckpointsHaveChkptSize == Len(reported) = checkpointIter * ChkptSize

\* IterateCurrWindow, which the median and the reports are computed from,
\* visits at every moment exactly the last window that was reported, whatever
\* was appended to the candidate window since.
CurrWindowIsLastCheckpoint ==
    checkpointIter > 0 => IterateCurrWindow = LastOf(ChkptSize)

\* GetCheckpointBlkNumRange, which selects the proof-of-work or the
\* proof-of-stake checker, agrees with the headers of the current checkpoint.
RangeIsThatOfCheckpoint ==
    checkpointIter > 0 =>
        LET window == IterateCurrWindow
        IN  GetCheckpointBlkNumRange =
                <<window[1].number, window[Len(window)].number>>

\* The security state names the newest header reported as confirmed.
SecStateIsLastReported ==
    checkpointIter > 0 =>
        /\ checkpointHash = reported[Len(reported)]
        /\ checkpointNum = checkpointHash.number

\* Nothing handed over is lost: a header is either reported or waiting in the
\* candidate window, in the order of the chain.
FedIsReportedOrCandidate == fed = reported \o Pending

\* The proof-of-work checker is never asked about a header while its
\* threshold is still the uninitialised member: by the time a header that
\* precedes Paris can be judged, a proof-of-work checkpoint has set it.
MinDiffSetBeforeUse ==
    HasLastNode /\ ~IsBlockOfParis(m_lastNode.number + 1)
        => m_minDiff # Uninit

\* The threshold is that of the last checkpoint that ends before Paris,
\* computed from all its headers and from no others.
MinDiffOfLastPoWCheckpoint ==
    LET Ends == {n \in 1 .. checkpointIter :
                    ~IsBlockOfParis(reported[n * ChkptSize].number)}
        last == CHOOSE n \in Ends : \A m \in Ends : m <= n
    IN  Ends # {} =>
            m_minDiff = MinDiffOf(MedianOf(
                SubSeq(reported, (last - 1) * ChkptSize + 1, last * ChkptSize)))

\* The checkpoint manager implements WindowLog.
Log == INSTANCE WindowLog
LogSpec == Log!Spec
=============================================================================

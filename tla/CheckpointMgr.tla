---------------------------- MODULE CheckpointMgr ----------------------------
(***************************************************************************)
(* Class CheckpointMgr (Eth/CheckpointMgr.hpp): the sliding window of the   *)
(* most recently confirmed headers.                                         *)
(*                                                                          *)
(* Headers enter one at a time, oldest first.  They gather in a candidate   *)
(* window; when it holds ChkptSize headers it becomes the current window,   *)
(* the "checkpoint", and the completion callback runs.  During Bootstrap I  *)
(* headers are stored as such (AddHeader); afterwards the newest header is  *)
(* kept as a tree node (m_lastNode), so that the forks growing from it can  *)
(* be followed (EndBootstrapPhase, AddNode).  The header of that node       *)
(* counts for the candidate window or for the current one, according to     *)
(* m_isLastNodeCandidate.                                                   *)
(*                                                                          *)
(* The module has no specification of its own: CheckpointLog and            *)
(* EclipseMonitor drive its operations.  Their guards are the conditions    *)
(* under which the code does not throw.                                     *)
(***************************************************************************)
EXTENDS Integers, Sequences, FiniteSets

CONSTANTS
    ChkptSize,      \* MonitorConfig checkpointSize
    Header,         \* the headers: records with fields number and diff
    NoNode          \* nullptr

ASSUME ChkptSizeAssumption == ChkptSize \in Nat \ {0}
ASSUME NoNodeAssumption == NoNode \notin Header
ASSUME HeaderAssumption == \A h \in Header : h.number \in Nat /\ h.diff \in Nat

VARIABLES
    m_currWindow,           \* headers of the current window, oldest first
    m_candidate,            \* headers of the window being filled
    m_lastNode,             \* header of the newest node, or NoNode
    m_isLastNodeCandidate   \* does m_lastNode belong to the candidate window

chkptVars == <<m_currWindow, m_candidate, m_lastNode, m_isLastNodeCandidate>>

CheckpointTypeOK ==
    /\ m_currWindow \in Seq(Header)
    /\ m_candidate \in Seq(Header)
    /\ m_lastNode \in Header \cup {NoNode}
    /\ m_isLastNodeCandidate \in BOOLEAN

\* The constructor leaves m_isLastNodeCandidate uninitialised.
CheckpointInit ==
    /\ m_currWindow = <<>>
    /\ m_candidate = <<>>
    /\ m_lastNode = NoNode
    /\ m_isLastNodeCandidate \in BOOLEAN

-----------------------------------------------------------------------------
(* Reading the state.                                                      *)

HasLastNode == m_lastNode # NoNode

\* Mutant: the last node is not counted.
GetNumOfCandidatesInVector == Len(m_candidate)

GetNumOfCandidates ==
    Len(m_candidate) + (IF HasLastNode /\ m_isLastNodeCandidate THEN 1 ELSE 0)

IsEmpty == ~HasLastNode /\ m_candidate = <<>> /\ m_currWindow = <<>>

\* A window followed by the header of the last node, if there is one.
WithLastNode(window) ==
    IF HasLastNode THEN Append(window, m_lastNode) ELSE window

\* The headers IterateCurrWindow visits, in order: the current checkpoint.
IterateCurrWindow ==
    IF m_isLastNodeCandidate THEN m_currWindow ELSE WithLastNode(m_currWindow)

\* Mutant: the current window is looked at first.
GetLastHeaderOfWindow ==
    CASE m_currWindow # <<>> -> m_currWindow[Len(m_currWindow)]
      [] m_currWindow = <<>> /\ HasLastNode -> m_lastNode
      [] OTHER -> m_candidate[Len(m_candidate)]

\* Throws when IsEmpty.
GetLastHeader ==
    CASE HasLastNode -> m_lastNode
      [] ~HasLastNode /\ m_candidate # <<>> -> m_candidate[Len(m_candidate)]
      [] OTHER -> m_currWindow[Len(m_currWindow)]

\* Mutant: one block too many.
GetCheckpointBlkNumRangeOffByOne ==
    LET begin == m_currWindow[1].number
    IN  <<begin, begin + ChkptSize>>

\* Throws when m_currWindow is empty.
GetCheckpointBlkNumRange ==
    LET begin == m_currWindow[1].number
    IN  <<begin, begin + ChkptSize - 1>>

\* The element at position size \div 2 (from 0) of the window's difficulties
\* in ascending order.
MedianOf(window) ==
    LET Below(d)  == Cardinality({i \in DOMAIN window : window[i].diff < d})
        UpTo(d)   == Cardinality({i \in DOMAIN window : window[i].diff <= d})
        mid       == Len(window) \div 2
    IN  CHOOSE d \in {window[i].diff : i \in DOMAIN window} :
            Below(d) <= mid /\ mid < UpTo(d)

\* Mutant: the header of the last node is left out.
GetDiffMedianOfVector == MedianOf(m_currWindow)

GetDiffMedian == MedianOf(IterateCurrWindow)

-----------------------------------------------------------------------------
(* The operations.  The *Completes ones run the completion callback, which  *)
(* the module that uses them conjoins.                                      *)

\* Mutant: one header too many is kept.
AddHeaderKeepsOneMore(header) ==
    /\ ~HasLastNode
    /\ Len(m_candidate) < ChkptSize
    /\ m_candidate' = Append(m_candidate, header)
    /\ UNCHANGED <<m_currWindow, m_lastNode, m_isLastNodeCandidate>>

AddHeaderKeeps(header) ==
    /\ ~HasLastNode
    /\ Len(m_candidate) + 1 < ChkptSize
    /\ m_candidate' = Append(m_candidate, header)
    /\ UNCHANGED <<m_currWindow, m_lastNode, m_isLastNodeCandidate>>

AddHeaderCompletes(header) ==
    /\ ~HasLastNode
    /\ Len(m_candidate) + 1 >= ChkptSize
    /\ m_currWindow' = Append(m_candidate, header)
    /\ m_candidate' = <<>>
    /\ UNCHANGED <<m_lastNode, m_isLastNodeCandidate>>

\* m_currWindow.back() is undefined on an empty vector: the guard on
\* m_currWindow is the obligation of the caller.
EndBootstrapPhase ==
    /\ ~HasLastNode
    /\ m_candidate = <<>>
    /\ m_currWindow # <<>>
    /\ m_lastNode' = m_currWindow[Len(m_currWindow)]
    /\ m_isLastNodeCandidate' = FALSE
    /\ m_currWindow' = SubSeq(m_currWindow, 1, Len(m_currWindow) - 1)
    /\ UNCHANGED m_candidate

\* Mutant: the last node is overwritten before its header is moved away.
AddNodeCompletesOverwriting(node) ==
    /\ GetNumOfCandidates + 1 >= ChkptSize
    /\ m_currWindow' = m_candidate
    /\ m_candidate' = <<>>
    /\ m_lastNode' = node
    /\ m_isLastNodeCandidate' = FALSE

AddNodeCompletes(node) ==
    /\ GetNumOfCandidates + 1 >= ChkptSize
    /\ m_currWindow' = WithLastNode(m_candidate)
    /\ m_candidate' = <<>>
    /\ m_lastNode' = node
    /\ m_isLastNodeCandidate' = FALSE

\* Mutant: the last node is always taken for a candidate.
AddNodeKeepsAsCandidate(node) ==
    /\ GetNumOfCandidates + 1 < ChkptSize
    /\ m_candidate' = WithLastNode(m_candidate)
    /\ m_lastNode' = node
    /\ m_isLastNodeCandidate' = TRUE
    /\ UNCHANGED m_currWindow

AddNodeKeeps(node) ==
    /\ GetNumOfCandidates + 1 < ChkptSize
    /\ IF m_isLastNodeCandidate
       THEN /\ m_candidate' = WithLastNode(m_candidate)
            /\ UNCHANGED m_currWindow
       ELSE /\ m_currWindow' = WithLastNode(m_currWindow)
            /\ UNCHANGED m_candidate
    /\ m_lastNode' = node
    /\ m_isLastNodeCandidate' = TRUE
=============================================================================

------------------------- MODULE CheckpointLogProofs -------------------------
(***************************************************************************)
(* Theorems about CheckpointLog, for every checkpoint size of at least two, *)
(* every set of headers and chains of any length.                           *)
(*                                                                          *)
(* The inductive invariant relates the three containers of the checkpoint   *)
(* manager to the history: the reported headers followed by the candidates  *)
(* are the chain that was fed, and the current window is the last           *)
(* ChkptSize headers reported.  On top of it, ThresholdInv: the threshold   *)
(* is that of the last window that ended before Paris.                      *)
(***************************************************************************)
EXTENDS CheckpointLog, SequenceTheorems, FiniteSetTheorems,
        WellFoundedInduction, TLAPS

\* The reported headers are the first ones of the chain ...
ReportedIsPrefix ==
    \A i \in 1 .. Len(reported) : reported[i] = fed[i]

\* ... and the candidates, fewer than a window, are the others.
PendingIsRest ==
    /\ Len(fed) = Len(reported) + Len(Pending)
    /\ Len(Pending) < ChkptSize
    /\ \A i \in 1 .. Len(Pending) : Pending[i] = fed[Len(reported) + i]

\* The current window is the end of what was reported, once there is one.
WindowIsLastReported ==
    IF checkpointIter = 0
    THEN reported = <<>> /\ m_currWindow = <<>> /\ ~HasLastNode
    ELSE /\ Len(reported) >= ChkptSize
         /\ Len(IterateCurrWindow) = ChkptSize
         /\ \A i \in 1 .. ChkptSize :
                IterateCurrWindow[i] = reported[Len(reported) - ChkptSize + i]

\* A last node that belongs to the current window precedes every candidate.
NoCandidateBeforeLastNode ==
    HasLastNode /\ ~m_isLastNodeCandidate => m_candidate = <<>>

\* Each header's number is determined by that of the first.
NumbersConsecutive ==
    \A i \in 1 .. Len(fed) : fed[i].number = fed[1].number + i - 1

IInv ==
    /\ LogTypeOK
    /\ ReportedIsPrefix
    /\ PendingIsRest
    /\ WindowIsLastReported
    /\ NoCandidateBeforeLastNode
    /\ NumbersConsecutive
    /\ CheckpointsHaveChkptSize
    /\ SecStateIsLastReported

USE DEF chkptVars, secVars

LEMMA InitInv ==
    ASSUME Init
    PROVE  IInv
  BY ChkptSizeAssumption
  DEF Init, CheckpointInit, IInv, LogTypeOK, CheckpointTypeOK,
      ReportedIsPrefix, PendingIsRest, WindowIsLastReported,
      NumbersConsecutive, CheckpointsHaveChkptSize, SecStateIsLastReported,
      HasLastNode, WithLastNode, Pending, NoCandidateBeforeLastNode

\* What the type invariant says of the derived sequences.
LEMMA DerivedTypes ==
    ASSUME IInv
    PROVE  /\ Pending \in Seq(Header)
           /\ IterateCurrWindow \in Seq(Header)
           /\ fed \in Seq(Header) /\ reported \in Seq(Header)
           /\ checkpointIter \in Nat
           /\ Len(fed) \in Nat /\ Len(reported) \in Nat /\ Len(Pending) \in Nat
  BY DEF IInv, LogTypeOK, CheckpointTypeOK, Pending, IterateCurrWindow,
         WithLastNode, HasLastNode

\* Appending to the chain keeps its numbers consecutive.
LEMMA FollowsNumbers ==
    ASSUME IInv, NEW h \in Header, Follows(h), fed' = Append(fed, h)
    PROVE  NumbersConsecutive'
<1>1. /\ fed' \in Seq(Header)
      /\ Len(fed') = Len(fed) + 1
      /\ fed'[Len(fed) + 1] = h
      /\ \A i \in 1 .. Len(fed) : fed'[i] = fed[i]
  BY DerivedTypes, AppendProperties
<1>2. CASE fed = <<>>
  <2>1. Len(fed') = 1 /\ fed'[1] = h
    BY <1>1, <1>2
  <2> QED
    BY <2>1, HeaderAssumption DEF NumbersConsecutive
<1>3. CASE fed # <<>>
  <2>1. Len(fed) \in Nat \ {0}
    BY <1>3, DerivedTypes
  <2>2. fed[Len(fed)].number = fed[1].number + Len(fed) - 1
    BY <2>1 DEF IInv, NumbersConsecutive
  <2>3. fed[1] \in Header
    BY <2>1, DerivedTypes, ElementOfSeq
  <2>4. h.number = fed[1].number + Len(fed)
    BY <1>3, <2>1, <2>2, <2>3, HeaderAssumption DEF Follows
  <2> QED
    BY <1>1, <2>1, <2>3, <2>4, HeaderAssumption DEF IInv, NumbersConsecutive
<1> QED
  BY <1>2, <1>3

-----------------------------------------------------------------------------

\* How the operations of the checkpoint manager change the sequences that
\* the invariant speaks of.
LEMMA FillCandidateEffect ==
    ASSUME IInv, NEW h \in Header, FillCandidate(h)
    PROVE  /\ Pending' = Append(Pending, h)
           /\ Len(Pending) + 1 < ChkptSize
           /\ NoCandidateBeforeLastNode'
           /\ CheckpointTypeOK'
           /\ m_currWindow' = m_currWindow
           /\ HasLastNode' = HasLastNode
           /\ IterateCurrWindow' = IterateCurrWindow
<1>1. /\ m_candidate' = Append(m_candidate, h)
      /\ UNCHANGED <<m_currWindow, m_lastNode, m_isLastNodeCandidate>>
      /\ m_lastNode = NoNode
      /\ Len(m_candidate) + 1 < ChkptSize
  BY DEF FillCandidate, AddHeaderKeeps, HasLastNode
<1>2. CheckpointTypeOK
  BY DEF IInv, LogTypeOK
<1>3. CheckpointTypeOK'
  BY <1>1, <1>2 DEF CheckpointTypeOK
<1> QED
  BY <1>1, <1>3 DEF Pending, WithLastNode, HasLastNode, IterateCurrWindow,
         NoCandidateBeforeLastNode

LEMMA AdvanceEffect ==
    ASSUME IInv, NEW h \in Header, Advance(h)
    PROVE  /\ Pending' = Append(Pending, h)
           /\ Len(Pending) + 1 < ChkptSize
           /\ NoCandidateBeforeLastNode'
           /\ CheckpointTypeOK'
           /\ HasLastNode /\ HasLastNode'
           /\ IterateCurrWindow' = IterateCurrWindow
<1>1. /\ m_lastNode # NoNode
      /\ m_lastNode' = h
      /\ m_isLastNodeCandidate' = TRUE
      /\ h # NoNode
  BY NoNodeAssumption DEF Advance, AddNodeKeeps, HasLastNode
<1>2. CheckpointTypeOK
  BY DEF IInv, LogTypeOK
<1>3. CASE m_isLastNodeCandidate = TRUE
  <2>1. /\ m_candidate' = Append(m_candidate, m_lastNode)
        /\ m_currWindow' = m_currWindow
        /\ Len(m_candidate) + 1 + 1 < ChkptSize
    BY <1>1, <1>3
    DEF Advance, AddNodeKeeps, WithLastNode, HasLastNode, GetNumOfCandidates
  <2>2. CheckpointTypeOK'
    BY <1>1, <1>2, <2>1 DEF CheckpointTypeOK
  <2>3. /\ Pending = Append(m_candidate, m_lastNode)
        /\ Pending' = Append(m_candidate', m_lastNode')
    BY <1>1, <1>3 DEF Pending, WithLastNode, HasLastNode
  <2>4. Len(Pending) = Len(m_candidate) + 1
    BY <1>1, <1>2, <2>3 DEF CheckpointTypeOK
  <2> QED
    BY <1>1, <1>2, <1>3, <2>1, <2>2, <2>3, <2>4, ChkptSizeAssumption
    DEF IterateCurrWindow, HasLastNode, CheckpointTypeOK,
        NoCandidateBeforeLastNode
<1>4. CASE m_isLastNodeCandidate = FALSE
  <2>1. /\ m_currWindow' = Append(m_currWindow, m_lastNode)
        /\ m_candidate' = m_candidate
        /\ Len(m_candidate) + 0 + 1 < ChkptSize
    BY <1>1, <1>4
    DEF Advance, AddNodeKeeps, WithLastNode, HasLastNode, GetNumOfCandidates
  <2>2. CheckpointTypeOK'
    BY <1>1, <1>2, <2>1 DEF CheckpointTypeOK
  <2>3. /\ Pending = m_candidate
        /\ Pending' = Append(m_candidate', m_lastNode')
        /\ IterateCurrWindow = Append(m_currWindow, m_lastNode)
        /\ IterateCurrWindow' = m_currWindow'
    BY <1>1, <1>4 DEF Pending, IterateCurrWindow, WithLastNode, HasLastNode
  <2> QED
    BY <1>1, <1>2, <2>1, <2>2, <2>3
    DEF HasLastNode, CheckpointTypeOK, NoCandidateBeforeLastNode
<1> QED
  BY <1>2, <1>3, <1>4 DEF CheckpointTypeOK

LEMMA FinishCandidateEffect ==
    ASSUME IInv, NEW h \in Header, FinishCandidate(h)
    PROVE  /\ IterateCurrWindow' = Append(Pending, h)
           /\ Pending' = <<>>
           /\ Len(Pending) + 1 >= ChkptSize
           /\ NoCandidateBeforeLastNode'
           /\ CheckpointTypeOK'
           /\ GetLastHeader' = h
<1>1. /\ m_currWindow' = Append(m_candidate, h)
      /\ m_candidate' = <<>>
      /\ UNCHANGED <<m_lastNode, m_isLastNodeCandidate>>
      /\ m_lastNode = NoNode
      /\ Len(m_candidate) + 1 >= ChkptSize
  BY DEF FinishCandidate, AddHeaderCompletes, HasLastNode
<1>2. CheckpointTypeOK
  BY DEF IInv, LogTypeOK
<1>3. CheckpointTypeOK'
  BY <1>1, <1>2 DEF CheckpointTypeOK
<1>4. Pending = m_candidate /\ Pending' = <<>>
      /\ IterateCurrWindow' = Append(m_candidate, h)
  BY <1>1 DEF Pending, WithLastNode, HasLastNode, IterateCurrWindow
<1>5. m_currWindow'[Len(m_currWindow')] = h
  BY <1>1, <1>2 DEF CheckpointTypeOK
<1> QED
  BY <1>1, <1>3, <1>4, <1>5
  DEF GetLastHeader, HasLastNode, NoCandidateBeforeLastNode

LEMMA AdvanceAndFinishEffect ==
    ASSUME ChkptSize >= 2, IInv, NEW h \in Header, AdvanceAndFinish(h)
    PROVE  /\ IterateCurrWindow' = Append(Pending, h)
           /\ Pending' = <<>>
           /\ Len(Pending) + 1 >= ChkptSize
           /\ NoCandidateBeforeLastNode'
           /\ CheckpointTypeOK'
           /\ GetLastHeader' = h
<1>1. /\ m_lastNode # NoNode
      /\ m_lastNode' = h
      /\ m_isLastNodeCandidate' = FALSE
      /\ m_candidate' = <<>>
      /\ m_currWindow' = Append(m_candidate, m_lastNode)
      /\ h # NoNode
  BY NoNodeAssumption
  DEF AdvanceAndFinish, AddNodeCompletes, HasLastNode, WithLastNode
<1>2. CheckpointTypeOK
  BY DEF IInv, LogTypeOK
<1>3. m_isLastNodeCandidate = TRUE
  <2>1. SUFFICES ASSUME m_isLastNodeCandidate = FALSE
                 PROVE  FALSE
    BY <1>2 DEF CheckpointTypeOK
  <2>2. m_candidate = <<>>
    BY <2>1, <1>1 DEF IInv, NoCandidateBeforeLastNode, HasLastNode
  <2>3. Len(m_candidate) + 0 + 1 >= ChkptSize
    BY <2>1 DEF AdvanceAndFinish, AddNodeCompletes, GetNumOfCandidates
  <2> QED
    BY <2>2, <2>3, ChkptSizeAssumption
<1>4. Len(m_candidate) + 1 + 1 >= ChkptSize
  BY <1>1, <1>3
  DEF AdvanceAndFinish, AddNodeCompletes, GetNumOfCandidates, HasLastNode
<1>5. /\ Pending = Append(m_candidate, m_lastNode)
      /\ Pending' = <<>>
      /\ IterateCurrWindow' = Append(m_currWindow', m_lastNode')
  BY <1>1, <1>3 DEF Pending, WithLastNode, HasLastNode, IterateCurrWindow
<1>6. Len(Pending) = Len(m_candidate) + 1
  BY <1>1, <1>2, <1>5 DEF CheckpointTypeOK
<1>7. CheckpointTypeOK'
  <2>1. m_candidate \in Seq(Header) /\ m_lastNode \in Header
    BY <1>1, <1>2 DEF CheckpointTypeOK
  <2>2. Append(m_candidate, m_lastNode) \in Seq(Header)
    BY <2>1, AppendProperties
  <2> QED
    BY <1>1, <2>2, EmptySeq DEF CheckpointTypeOK
<1> QED
  BY <1>1, <1>4, <1>5, <1>6, <1>7
  DEF GetLastHeader, HasLastNode, NoCandidateBeforeLastNode

-----------------------------------------------------------------------------

\* A header that is only queued: nothing is reported.
LEMMA KeepInv ==
    ASSUME IInv, NEW h \in Header, FillCandidate(h) \/ Advance(h)
    PROVE  IInv'
<1>1. /\ fed' = Append(fed, h)
      /\ Follows(h)
      /\ UNCHANGED <<reported, checkpointHash, checkpointNum, checkpointIter>>
  BY DEF FillCandidate, Advance, Hand, NoCheckpoint
<1>2. /\ Pending' = Append(Pending, h)
      /\ Len(Pending) + 1 < ChkptSize
      /\ NoCandidateBeforeLastNode'
      /\ CheckpointTypeOK'
      /\ IterateCurrWindow' = IterateCurrWindow
  BY FillCandidateEffect, AdvanceEffect
<1>3. /\ fed' \in Seq(Header)
      /\ Len(fed') = Len(fed) + 1
      /\ fed'[Len(fed) + 1] = h
      /\ \A i \in 1 .. Len(fed) : fed'[i] = fed[i]
  BY <1>1, DerivedTypes, AppendProperties
<1>4. /\ Len(Pending') = Len(Pending) + 1
      /\ Pending'[Len(Pending) + 1] = h
      /\ \A i \in 1 .. Len(Pending) : Pending'[i] = Pending[i]
  BY <1>2, DerivedTypes, AppendProperties
<1>5. LogTypeOK'
  BY <1>1, <1>2, <1>3 DEF IInv, LogTypeOK
<1>6. ReportedIsPrefix'
  BY <1>1, <1>3, DerivedTypes DEF IInv, ReportedIsPrefix, PendingIsRest
<1>7. PendingIsRest'
  <2>1. Len(fed) = Len(reported) + Len(Pending)
    BY DEF IInv, PendingIsRest
  <2>2. \A i \in 1 .. Len(Pending) : Pending'[i] = fed'[Len(reported) + i]
    BY <1>3, <1>4, <2>1, DerivedTypes DEF IInv, PendingIsRest
  <2>3. Pending'[Len(Pending) + 1] = fed'[Len(reported) + (Len(Pending) + 1)]
    BY <1>3, <1>4, <2>1, DerivedTypes
  <2> QED
    BY <1>1, <1>2, <1>3, <1>4, <2>1, <2>2, <2>3, DerivedTypes
    DEF PendingIsRest
<1>8. WindowIsLastReported'
  <2>1. CASE FillCandidate(h)
    BY <1>1, <1>2, <2>1, FillCandidateEffect DEF IInv, WindowIsLastReported
  <2>2. CASE Advance(h)
    BY <1>1, <1>2, <2>2, AdvanceEffect DEF IInv, WindowIsLastReported
  <2> QED
    BY <2>1, <2>2
<1>9. NumbersConsecutive'
  BY <1>1, FollowsNumbers
<1>10. CheckpointsHaveChkptSize' /\ SecStateIsLastReported'
  BY <1>1 DEF IInv, CheckpointsHaveChkptSize, SecStateIsLastReported
<1> QED
  BY <1>2, <1>5, <1>6, <1>7, <1>8, <1>9, <1>10 DEF IInv

\* A header that completes a window: everything fed is now reported.
LEMMA FinishReportsAll ==
    ASSUME ChkptSize >= 2, IInv, NEW h \in Header,
           FinishCandidate(h) \/ AdvanceAndFinish(h)
    PROVE  /\ fed' = Append(fed, h) /\ Follows(h)
           /\ reported' = fed'
           /\ Len(Pending) + 1 = ChkptSize
           /\ \A i \in 1 .. ChkptSize :
                Append(Pending, h)[i] = fed'[Len(reported) + i]
<1>1. fed' = Append(fed, h) /\ Follows(h)
  BY DEF FinishCandidate, AdvanceAndFinish, Hand
<1>2. IterateCurrWindow' = Append(Pending, h) /\ Len(Pending) + 1 >= ChkptSize
  BY FinishCandidateEffect, AdvanceAndFinishEffect
<1>3. Len(Pending) + 1 = ChkptSize
  BY <1>2, ChkptSizeAssumption, DerivedTypes DEF IInv, PendingIsRest
<1>4. reported' = reported \o Append(Pending, h)
  BY <1>2 DEF FinishCandidate, AdvanceAndFinish, OnCheckpointComplete
<1>5. /\ fed' \in Seq(Header)
      /\ Len(fed') = Len(fed) + 1
      /\ fed'[Len(fed) + 1] = h
      /\ \A i \in 1 .. Len(fed) : fed'[i] = fed[i]
  BY <1>1, DerivedTypes, AppendProperties
<1>6. /\ Append(Pending, h) \in Seq(Header)
      /\ Len(Append(Pending, h)) = ChkptSize
      /\ Append(Pending, h)[Len(Pending) + 1] = h
      /\ \A i \in 1 .. Len(Pending) : Append(Pending, h)[i] = Pending[i]
  BY <1>3, DerivedTypes, AppendProperties
<1>7. Len(fed) = Len(reported) + Len(Pending)
  BY DEF IInv, PendingIsRest
<1>8. \A i \in 1 .. ChkptSize :
        Append(Pending, h)[i] = fed'[Len(reported) + i]
  <2>1. \A i \in 1 .. Len(Pending) :
            Append(Pending, h)[i] = fed'[Len(reported) + i]
    BY <1>5, <1>6, <1>7, DerivedTypes DEF IInv, PendingIsRest
  <2>2. Append(Pending, h)[Len(Pending) + 1] =
            fed'[Len(reported) + (Len(Pending) + 1)]
    BY <1>5, <1>6, <1>7, DerivedTypes
  <2>3. \A i \in 1 .. ChkptSize :
            i \in 1 .. Len(Pending) \/ i = Len(Pending) + 1
    BY <1>3, DerivedTypes
  <2> QED
    BY <2>1, <2>2, <2>3
<1>9. /\ reported' \in Seq(Header)
      /\ Len(reported') = Len(reported) + ChkptSize
      /\ \A i \in 1 .. Len(reported) + ChkptSize :
            reported'[i] = IF i <= Len(reported)
                           THEN reported[i]
                           ELSE Append(Pending, h)[i - Len(reported)]
  BY <1>4, <1>6, DerivedTypes, ConcatProperties
<1>10. ASSUME NEW i \in 1 .. Len(reported')
       PROVE  reported'[i] = fed'[i]
  <2>1. CASE i <= Len(reported)
    <3>1. i \in 1 .. Len(reported) /\ i \in 1 .. Len(reported) + ChkptSize
      BY <2>1, <1>9, DerivedTypes, ChkptSizeAssumption
    <3>2. i \in 1 .. Len(fed)
      BY <3>1, <1>7, DerivedTypes
    <3>3. reported'[i] = reported[i]
      BY <2>1, <3>1, <1>9
    <3>4. reported[i] = fed[i]
      BY <3>1 DEF IInv, ReportedIsPrefix
    <3> QED
      BY <3>2, <3>3, <3>4, <1>5
  <2>2. CASE i > Len(reported)
    <3>1. i - Len(reported) \in 1 .. ChkptSize
      BY <2>2, <1>9, DerivedTypes, ChkptSizeAssumption
    <3>2. Len(reported) + (i - Len(reported)) = i
      BY DerivedTypes
    <3>3. reported'[i] = Append(Pending, h)[i - Len(reported)]
      <4>1. i \in 1 .. Len(reported) + ChkptSize /\ ~(i <= Len(reported))
        BY <2>2, <1>9, DerivedTypes, ChkptSizeAssumption
      <4> QED
        BY <4>1, <1>9
    <3>4. Append(Pending, h)[i - Len(reported)]
            = fed'[Len(reported) + (i - Len(reported))]
      BY <3>1, <1>8
    <3> QED
      BY <3>2, <3>3, <3>4
  <2> QED
    BY <2>1, <2>2, DerivedTypes
<1>11. Len(reported') = Len(fed')
  BY <1>3, <1>5, <1>7, <1>9, DerivedTypes
<1>12. reported' = fed'
  BY <1>5, <1>9, <1>10, <1>11, SeqEqual
<1> QED
  BY <1>1, <1>3, <1>8, <1>12

LEMMA FinishInv ==
    ASSUME ChkptSize >= 2, IInv, NEW h \in Header,
           FinishCandidate(h) \/ AdvanceAndFinish(h)
    PROVE  IInv'
<1>1. /\ fed' = Append(fed, h) /\ Follows(h)
      /\ reported' = fed'
      /\ Len(Pending) + 1 = ChkptSize
      /\ \A i \in 1 .. ChkptSize :
            Append(Pending, h)[i] = fed'[Len(reported) + i]
  BY FinishReportsAll
<1>2. /\ IterateCurrWindow' = Append(Pending, h)
      /\ Pending' = <<>>
      /\ NoCandidateBeforeLastNode'
      /\ CheckpointTypeOK'
      /\ GetLastHeader' = h
  BY FinishCandidateEffect, AdvanceAndFinishEffect
<1>3. /\ checkpointHash' = h
      /\ checkpointNum' = h.number
      /\ checkpointIter' = checkpointIter + 1
  BY <1>2 DEF FinishCandidate, AdvanceAndFinish, OnCheckpointComplete
<1>4. /\ fed' \in Seq(Header)
      /\ Len(fed') = Len(fed) + 1
      /\ fed'[Len(fed) + 1] = h
  BY <1>1, DerivedTypes, AppendProperties
<1>5. Len(fed) = Len(reported) + Len(Pending)
  BY DEF IInv, PendingIsRest
<1>6. LogTypeOK'
  BY <1>1, <1>2, <1>3, <1>4, HeaderAssumption DEF IInv, LogTypeOK
<1>7. ReportedIsPrefix' /\ PendingIsRest'
  BY <1>1, <1>2, <1>4, ChkptSizeAssumption
  DEF ReportedIsPrefix, PendingIsRest
<1>8. WindowIsLastReported'
  <2>1. checkpointIter' # 0
    BY <1>3, DerivedTypes
  <2>2. Len(reported') = Len(reported) + ChkptSize
    BY <1>1, <1>4, <1>5, DerivedTypes
  <2>3. Len(IterateCurrWindow') = ChkptSize
    BY <1>1, <1>2, DerivedTypes, AppendProperties
  <2>4. Len(reported') - ChkptSize = Len(reported)
    BY <2>2, DerivedTypes, ChkptSizeAssumption
  <2>5. Len(reported') >= ChkptSize
    BY <2>2, DerivedTypes, ChkptSizeAssumption
  <2> QED
    BY <1>1, <1>2, <2>1, <2>3, <2>4, <2>5 DEF WindowIsLastReported
<1>9. NumbersConsecutive'
  BY <1>1, FollowsNumbers
<1>10. CheckpointsHaveChkptSize'
  <2>1. Len(reported') = checkpointIter * ChkptSize + ChkptSize
    BY <1>1, <1>4, <1>5, DerivedTypes DEF IInv, CheckpointsHaveChkptSize
  <2>2. (checkpointIter + 1) * ChkptSize
            = checkpointIter * ChkptSize + ChkptSize
    BY DerivedTypes, ChkptSizeAssumption
  <2> QED
    BY <1>3, <2>1, <2>2 DEF CheckpointsHaveChkptSize
<1>11. SecStateIsLastReported'
  BY <1>1, <1>3, <1>4 DEF SecStateIsLastReported
<1> QED
  BY <1>2, <1>6, <1>7, <1>8, <1>9, <1>10, <1>11 DEF IInv

\* Turning the last header into a node moves it, and changes no window.
LEMMA LeaveBootstrapInv ==
    ASSUME IInv, LeaveBootstrap
    PROVE  IInv'
<1>1. UNCHANGED <<fed, reported, checkpointHash, checkpointNum, checkpointIter>>
  BY DEF LeaveBootstrap, NoCheckpoint
<1>2. /\ m_currWindow # <<>>
      /\ m_candidate = <<>>
      /\ m_lastNode = NoNode
  BY DEF LeaveBootstrap, EndBootstrapPhase, HasLastNode
<1>3. CheckpointTypeOK
  BY DEF IInv, LogTypeOK
<1> DEFINE n == Len(m_currWindow)
<1>4. n \in Nat \ {0} /\ m_currWindow \in Seq(Header)
  BY <1>2, <1>3, EmptySeq, LenProperties DEF CheckpointTypeOK
<1>5. /\ m_currWindow' = SubSeq(m_currWindow, 1, n - 1)
      /\ m_candidate' = <<>>
      /\ m_lastNode' = m_currWindow[n]
      /\ m_isLastNodeCandidate' = FALSE
  BY <1>2 DEF LeaveBootstrap, EndBootstrapPhase
<1>6. \A i \in 1 .. n : m_currWindow[i] \in Header
  BY <1>4, ElementOfSeq
<1> HIDE DEF n
<1>7. /\ m_currWindow' \in Seq(Header)
      /\ Len(m_currWindow') = n - 1
      /\ \A i \in 1 .. n - 1 : m_currWindow'[i] = m_currWindow[i]
  <2>1. \A i \in 1 .. n - 1 : m_currWindow[i] \in Header
    BY <1>4, <1>6
  <2>2. 1 \in Int /\ n - 1 \in Int /\ n - 1 - 1 + 1 = n - 1
    BY <1>4
  <2>3. Len(SubSeq(m_currWindow, 1, n - 1)) =
            IF 1 <= n - 1 THEN n - 1 - 1 + 1 ELSE 0
    BY <2>1, <2>2, SubSeqProperties
  <2>4. \A i \in 1 .. n - 1 - 1 + 1 :
            SubSeq(m_currWindow, 1, n - 1)[i] = m_currWindow[1 + i - 1]
    BY <2>1, <2>2, SubSeqProperties
  <2>5. SubSeq(m_currWindow, 1, n - 1) \in Seq(Header)
    BY <2>1, <2>2, SubSeqProperties
  <2> QED
    BY <1>4, <1>5, <2>2, <2>3, <2>4, <2>5
<1>8. m_lastNode' \in Header /\ m_lastNode' # NoNode
  BY <1>4, <1>5, <1>6, NoNodeAssumption
<1>9. /\ IterateCurrWindow = m_currWindow
      /\ IterateCurrWindow' = Append(m_currWindow', m_lastNode')
      /\ Pending = <<>> /\ Pending' = <<>>
      /\ NoCandidateBeforeLastNode'
  BY <1>2, <1>5, <1>8
  DEF IterateCurrWindow, Pending, WithLastNode, HasLastNode,
      NoCandidateBeforeLastNode
<1>10. /\ Len(IterateCurrWindow') = n
       /\ \A i \in 1 .. n : IterateCurrWindow'[i] = IterateCurrWindow[i]
  BY <1>4, <1>5, <1>7, <1>8, <1>9, AppendProperties
<1>11. LogTypeOK'
  BY <1>1, <1>5, <1>7, <1>8, EmptySeq DEF IInv, LogTypeOK, CheckpointTypeOK
<1>12. WindowIsLastReported'
  <2>1. checkpointIter # 0
    BY <1>2 DEF IInv, WindowIsLastReported
  <2>2. n = ChkptSize
    BY <2>1, <1>9 DEF IInv, WindowIsLastReported, n
  <2> QED
    BY <1>1, <1>10, <2>1, <2>2 DEF IInv, WindowIsLastReported
<1> QED
  BY <1>1, <1>9, <1>11, <1>12
  DEF IInv, ReportedIsPrefix, PendingIsRest, NumbersConsecutive,
      CheckpointsHaveChkptSize, SecStateIsLastReported

LEMMA NextInv ==
    ASSUME ChkptSize >= 2, IInv, [Next]_vars
    PROVE  IInv'
<1>1. CASE LeaveBootstrap
  BY <1>1, LeaveBootstrapInv
<1>2. ASSUME NEW h \in Header, FillCandidate(h) \/ Advance(h)
      PROVE  IInv'
  BY <1>2, KeepInv
<1>3. ASSUME NEW h \in Header, FinishCandidate(h) \/ AdvanceAndFinish(h)
      PROVE  IInv'
  BY <1>3, FinishInv
<1>4. CASE UNCHANGED vars
  BY <1>4
  DEF vars, IInv, LogTypeOK, CheckpointTypeOK, ReportedIsPrefix,
      PendingIsRest, Pending, WindowIsLastReported, IterateCurrWindow,
      WithLastNode, HasLastNode, NoCandidateBeforeLastNode,
      NumbersConsecutive, CheckpointsHaveChkptSize, SecStateIsLastReported
<1> QED
  BY <1>1, <1>2, <1>3, <1>4 DEF Next

-----------------------------------------------------------------------------

LEMMA Invariance ==
    ASSUME ChkptSize >= 2
    PROVE  Spec => []IInv
<1>1. Init => IInv
  BY InitInv
<1>2. IInv /\ [Next]_vars => IInv'
  BY NextInv
<1> QED
  BY <1>1, <1>2, PTL DEF Spec

\* What the invariant says of the last checkpoint: the range of its numbers ...
LEMMA RangeOfCheckpoint ==
    ASSUME ChkptSize >= 2
    PROVE  IInv => RangeIsThatOfCheckpoint
<1> SUFFICES ASSUME IInv, checkpointIter > 0
             PROVE  GetCheckpointBlkNumRange =
                      <<IterateCurrWindow[1].number,
                        IterateCurrWindow[Len(IterateCurrWindow)].number>>
  BY DEF RangeIsThatOfCheckpoint
<1> DEFINE base == Len(reported) - ChkptSize
<1>1. /\ Len(reported) >= ChkptSize
      /\ Len(IterateCurrWindow) = ChkptSize
      /\ \A i \in 1 .. ChkptSize :
             IterateCurrWindow[i] = reported[base + i]
  BY DerivedTypes DEF IInv, WindowIsLastReported
<1>2. base \in Nat /\ base + ChkptSize = Len(reported)
  BY <1>1, DerivedTypes, ChkptSizeAssumption
<1>3. Len(reported) <= Len(fed)
  BY DerivedTypes DEF IInv, PendingIsRest
<1> HIDE DEF base
<1>4. /\ IterateCurrWindow[1] = fed[base + 1]
      /\ IterateCurrWindow[ChkptSize] = fed[base + ChkptSize]
  <2>1. 1 \in 1 .. ChkptSize /\ ChkptSize \in 1 .. ChkptSize
    BY ChkptSizeAssumption
  <2>2. /\ IterateCurrWindow[1] = reported[base + 1]
        /\ IterateCurrWindow[ChkptSize] = reported[base + ChkptSize]
    BY <1>1, <2>1
  <2>3. base + 1 \in 1 .. Len(reported) /\ base + ChkptSize \in 1 .. Len(reported)
    BY <1>2, ChkptSizeAssumption
  <2>4. \A i \in 1 .. Len(reported) : reported[i] = fed[i]
    BY DEF IInv, ReportedIsPrefix
  <2> QED
    BY <2>2, <2>3, <2>4
<1>5. /\ fed[base + 1].number = fed[1].number + (base + 1) - 1
      /\ fed[base + ChkptSize].number = fed[1].number + (base + ChkptSize) - 1
  <2>1. base + 1 \in 1 .. Len(fed) /\ base + ChkptSize \in 1 .. Len(fed)
    <3>1. Len(fed) \in Nat /\ Len(reported) \in Nat
      BY DerivedTypes
    <3> QED
      BY <1>2, <1>3, <3>1, ChkptSizeAssumption
  <2>2. \A i \in 1 .. Len(fed) : fed[i].number = fed[1].number + i - 1
    BY DEF IInv, NumbersConsecutive
  <2> QED
    BY <2>1, <2>2
<1>6. fed[1].number \in Nat
  <2>1. 1 \in 1 .. Len(fed)
    BY <1>1, <1>3, DerivedTypes, ChkptSizeAssumption
  <2> QED
    BY <2>1, DerivedTypes, ElementOfSeq, HeaderAssumption
<1>7. m_currWindow[1] = IterateCurrWindow[1]
  <2>1. m_currWindow \in Seq(Header) /\ m_lastNode \in Header \cup {NoNode}
    BY DEF IInv, LogTypeOK, CheckpointTypeOK
  <2>2. CASE IterateCurrWindow = m_currWindow
    BY <2>2
  <2>3. CASE /\ IterateCurrWindow = Append(m_currWindow, m_lastNode)
             /\ m_lastNode # NoNode
    <3>1. Len(m_currWindow) + 1 = ChkptSize
      BY <2>1, <2>3, <1>1, AppendProperties
    <3>2. 1 \in 1 .. Len(m_currWindow)
      BY <2>1, <3>1, LenProperties, ChkptSizeAssumption
    <3> QED
      BY <2>1, <2>3, <3>2, AppendProperties
  <2> QED
    BY <2>2, <2>3 DEF IterateCurrWindow, WithLastNode, HasLastNode
<1> DEFINE begin == m_currWindow[1].number
<1>8. begin = fed[1].number + (base + 1) - 1
  BY <1>4, <1>5, <1>7
<1>9. IterateCurrWindow[Len(IterateCurrWindow)].number
          = fed[1].number + (base + ChkptSize) - 1
  BY <1>1, <1>4, <1>5
<1>10. begin = IterateCurrWindow[1].number
  BY <1>7
<1>11. GetCheckpointBlkNumRange = <<begin, begin + ChkptSize - 1>>
  BY DEF GetCheckpointBlkNumRange
<1> HIDE DEF begin
<1>12. begin + ChkptSize - 1 = fed[1].number + (base + ChkptSize) - 1
  <2> DEFINE first == fed[1].number
  <2>1. first \in Nat /\ base \in Nat /\ ChkptSize \in Nat
    BY <1>2, <1>6, ChkptSizeAssumption
  <2>2. begin = first + (base + 1) - 1
    BY <1>8
  <2> HIDE DEF first
  <2>3. begin + ChkptSize - 1 = first + (base + ChkptSize) - 1
    BY <2>1, <2>2
  <2> QED
    BY <2>3 DEF first
<1> QED
  BY <1>9, <1>10, <1>11, <1>12

\* ... and its headers.
LEMMA WindowOfCheckpoint ==
    ASSUME ChkptSize >= 2
    PROVE  IInv => CurrWindowIsLastCheckpoint
<1> SUFFICES ASSUME IInv, checkpointIter > 0
             PROVE  IterateCurrWindow = LastOf(ChkptSize)
  BY DEF CurrWindowIsLastCheckpoint
<1> DEFINE m == Len(reported) - ChkptSize + 1
           n == Len(reported)
<1>1. /\ n >= ChkptSize
      /\ Len(IterateCurrWindow) = ChkptSize
      /\ \A i \in 1 .. ChkptSize :
             IterateCurrWindow[i] = reported[n - ChkptSize + i]
  BY DerivedTypes DEF IInv, WindowIsLastReported
<1>2. /\ n \in Nat /\ m \in Nat /\ m >= 1 /\ m <= n
      /\ n - m + 1 = ChkptSize
      /\ \A i \in 1 .. ChkptSize : m + i - 1 = n - ChkptSize + i
  BY <1>1, DerivedTypes, ChkptSizeAssumption
<1>3. \A i \in m .. n : reported[i] \in Header
  BY <1>2, DerivedTypes, ElementOfSeq
<1>4. LastOf(ChkptSize) = SubSeq(reported, m, n)
  BY DEF LastOf
<1> HIDE DEF m, n
<1>5. /\ SubSeq(reported, m, n) \in Seq(Header)
      /\ Len(SubSeq(reported, m, n)) = n - m + 1
      /\ \A i \in 1 .. n - m + 1 :
            SubSeq(reported, m, n)[i] = reported[m + i - 1]
  BY <1>2, <1>3, SubSeqProperties
<1>6. \A i \in 1 .. ChkptSize :
          IterateCurrWindow[i] = SubSeq(reported, m, n)[i]
  BY <1>1, <1>2, <1>5
<1>7. IterateCurrWindow \in Seq(Header)
  BY DerivedTypes
<1>8. Len(IterateCurrWindow) = Len(SubSeq(reported, m, n))
  BY <1>1, <1>2, <1>5
<1>9. IterateCurrWindow = SubSeq(reported, m, n)
  BY <1>1, <1>5, <1>6, <1>7, <1>8, SeqEqual
<1> QED
  BY <1>4, <1>9

\* MonitorReport.hpp, checkpointSize: "The number of blocks in each
\* checkpoint window".  True of every checkpoint when the size is at least 2.
THEOREM CheckpointSizeIsWindowSize ==
    ASSUME ChkptSize >= 2
    PROVE  Spec => []CheckpointsHaveChkptSize
<1>1. IInv => CheckpointsHaveChkptSize
  BY DEF IInv
<1> QED
  BY <1>1, Invariance, PTL

\* The security state always names the newest confirmed header
\* (EclipseMonitor::OnCheckpointComplete, CheckpointMgr::GetLastHeader).
THEOREM SecStateCorrect ==
    ASSUME ChkptSize >= 2
    PROVE  Spec => []SecStateIsLastReported
<1>1. IInv => SecStateIsLastReported
  BY DEF IInv
<1> QED
  BY <1>1, Invariance, PTL

\* No header is lost, repeated or moved between the containers of the
\* checkpoint manager (AddHeader, EndBootstrapPhase, AddNode).
THEOREM NothingLost ==
    ASSUME ChkptSize >= 2
    PROVE  Spec => []FedIsReportedOrCandidate
<1>1. IInv => FedIsReportedOrCandidate
  <2> SUFFICES ASSUME IInv
               PROVE  fed = reported \o Pending
    BY DEF FedIsReportedOrCandidate
  <2>1. /\ reported \o Pending \in Seq(Header)
        /\ Len(reported \o Pending) = Len(reported) + Len(Pending)
        /\ \A i \in 1 .. Len(reported) + Len(Pending) :
              (reported \o Pending)[i] = IF i <= Len(reported)
                                         THEN reported[i]
                                         ELSE Pending[i - Len(reported)]
    BY DerivedTypes, ConcatProperties
  <2>2. Len(fed) = Len(reported) + Len(Pending)
    BY DEF IInv, PendingIsRest
  <2>3. ASSUME NEW i \in 1 .. Len(fed)
        PROVE  fed[i] = (reported \o Pending)[i]
    <3>1. CASE i <= Len(reported)
      BY <3>1, <2>1, <2>2, DerivedTypes DEF IInv, ReportedIsPrefix
    <3>2. CASE i > Len(reported)
      <4>1. i - Len(reported) \in 1 .. Len(Pending)
        BY <3>2, <2>2, DerivedTypes
      <4>2. Pending[i - Len(reported)]
              = fed[Len(reported) + (i - Len(reported))]
        BY <4>1 DEF IInv, PendingIsRest
      <4>3. Len(reported) + (i - Len(reported)) = i
        BY DerivedTypes
      <4>4. (reported \o Pending)[i] = Pending[i - Len(reported)]
        BY <3>2, <2>1, <2>2, DerivedTypes
      <4> QED
        BY <4>2, <4>3, <4>4
    <3> QED
      <4>1. i <= Len(reported) \/ i > Len(reported)
        BY DerivedTypes
      <4> QED
        BY <3>1, <3>2, <4>1
  <2> QED
    BY <2>1, <2>2, <2>3, DerivedTypes, SeqEqual
<1> QED
  BY <1>1, Invariance, PTL

\* GetCheckpointBlkNumRange, computed from the first header and the checkpoint
\* size alone, is the range of the headers really in the checkpoint.
THEOREM RangeCorrect ==
    ASSUME ChkptSize >= 2
    PROVE  Spec => []RangeIsThatOfCheckpoint
<1> QED
  BY RangeOfCheckpoint, Invariance, PTL

\* The current window, however its headers are split between m_currWindow and
\* m_lastNode, is the last window reported (CheckpointMgr::IterateCurrWindow).
THEOREM CurrWindowCorrect ==
    ASSUME ChkptSize >= 2
    PROVE  Spec => []CurrWindowIsLastCheckpoint
<1> QED
  BY WindowOfCheckpoint, Invariance, PTL

\* The checkpoint manager implements its abstract specification: whatever is
\* fed, onHeaderConfirmed sees each header once, in order, a whole window at a
\* time, at the moment the window fills.
THEOREM ImplementsWindowLog ==
    ASSUME ChkptSize >= 2
    PROVE  Spec => LogSpec
<1>1. Init => Log!Init
  BY DEF Init, Log!Init
<1>2. IInv /\ [Next]_vars => [Log!Next]_<<fed, reported>>
  <2> SUFFICES ASSUME IInv, [Next]_vars
               PROVE  [Log!Next]_<<fed, reported>>
    OBVIOUS
  <2>1. CASE LeaveBootstrap
    BY <2>1 DEF LeaveBootstrap, NoCheckpoint
  <2>2. ASSUME NEW h \in Header, FillCandidate(h) \/ Advance(h)
        PROVE  Log!Next
    <3>1. fed' = Append(fed, h) /\ reported' = reported
      BY <2>2 DEF FillCandidate, Advance, Hand, NoCheckpoint
    <3>2. Len(Pending) + 1 < ChkptSize
      BY <2>2, FillCandidateEffect, AdvanceEffect
    <3>3. Len(fed) + 1 # Len(reported) + ChkptSize
      BY <3>2, DerivedTypes, ChkptSizeAssumption DEF IInv, PendingIsRest
    <3> QED
      BY <3>1, <3>3 DEF Log!Next, Log!Feed
  <2>3. ASSUME NEW h \in Header, FinishCandidate(h) \/ AdvanceAndFinish(h)
        PROVE  Log!Next
    <3>1. /\ fed' = Append(fed, h)
          /\ reported' = fed'
          /\ Len(Pending) + 1 = ChkptSize
      BY <2>3, FinishReportsAll
    <3>2. Len(fed) + 1 = Len(reported) + ChkptSize
      <4>1. Len(fed) = Len(reported) + Len(Pending)
        BY DEF IInv, PendingIsRest
      <4>2. Len(reported) \in Nat /\ Len(Pending) \in Nat
        BY DerivedTypes
      <4> QED
        BY <3>1, <4>1, <4>2
    <3> QED
      BY <3>1, <3>2 DEF Log!Next, Log!Feed
  <2>4. CASE UNCHANGED vars
    BY <2>4 DEF vars
  <2> QED
    BY <2>1, <2>2, <2>3, <2>4 DEF Next
<1> QED
  BY <1>1, <1>2, Invariance, PTL DEF Spec, LogSpec, Log!Spec

-----------------------------------------------------------------------------
(* The difficulty threshold.                                                *)

\* A set of numbers that is not empty has a least element.
LEMMA LeastNatural ==
    ASSUME NEW S \in SUBSET Nat, S # {}
    PROVE  \E m \in S : \A k \in S : m <= k
<1>1. \E m \in S : \A k \in S : ~(<<k, m>> \in OpToRel(<, Nat))
  BY NatLessThanWellFounded, WFMin
<1>2. \A m, k \in Nat : <<k, m>> \in OpToRel(<, Nat) <=> k < m
  BY DEF OpToRel
<1>3. \A k \in S : k \in Nat
  OBVIOUS
<1>4. \E m \in S : \A k \in S : ~(k < m)
  BY <1>1, <1>2, <1>3, Zenon
<1> QED
  BY <1>3, <1>4

\* ... and a greatest one, when it is bounded.
LEMMA GreatestNatural ==
    ASSUME NEW b \in Nat, NEW S \in SUBSET (0 .. b), S # {}
    PROVE  \E m \in S : \A k \in S : k <= m
<1> DEFINE T == {b - k : k \in S}
<1>1. T \in SUBSET Nat /\ T # {}
  <2>1. \A k \in S : b - k \in Nat
    OBVIOUS
  <2> QED
    BY <2>1
<1>2. PICK t \in T : \A u \in T : t <= u
  BY <1>1, LeastNatural
<1>3. PICK m \in S : t = b - m
  OBVIOUS
<1>4. ASSUME NEW k \in S
      PROVE  k <= m
  <2>1. b - k \in T
    OBVIOUS
  <2>2. b - m <= b - k
    BY <1>2, <1>3, <2>1
  <2> QED
    BY <2>2
<1> QED
  BY <1>4

\* The difficulties of a window are bounded.
LEMMA DifficultiesBounded ==
    ASSUME NEW w \in Seq(Header)
    PROVE  \E b \in Nat : \A i \in 1 .. Len(w) : w[i].diff <= b
<1> DEFINE Bounded(k) == \E b \in Nat : \A i \in 1 .. k : w[i].diff <= b
           failing == {k \in 0 .. Len(w) : ~Bounded(k)}
<1>1. Len(w) \in Nat /\ \A i \in 1 .. Len(w) : w[i].diff \in Nat
  BY ElementOfSeq, LenProperties, HeaderAssumption
<1>2. Bounded(0)
  <2>1. 0 \in Nat /\ \A i \in 1 .. 0 : w[i].diff <= 0
    OBVIOUS
  <2> QED
    BY <2>1
<1>3. ASSUME NEW k \in 1 .. Len(w), Bounded(k - 1)
      PROVE  Bounded(k)
  <2>1. PICK b \in Nat : \A i \in 1 .. k - 1 : w[i].diff <= b
    BY <1>3
  <2>2. PICK c \in Nat : w[k].diff <= c /\ b <= c
    <3>1. w[k].diff \in Nat
      BY <1>1
    <3> QED
      BY <3>1
  <2>3. \A i \in 1 .. k : w[i].diff <= c
    <3> TAKE i \in 1 .. k
    <3>1. i \in 1 .. Len(w)
      BY <1>1
    <3>2. w[i].diff \in Nat
      BY <1>1, <3>1
    <3>3. CASE i = k
      BY <3>3, <2>2
    <3>4. CASE i # k
      <4>1. i \in 1 .. k - 1
        BY <3>4, <1>1
      <4>2. w[i].diff <= b
        BY <4>1, <2>1
      <4> QED
        BY <4>2, <3>2, <2>2
    <3> QED
      BY <3>3, <3>4
  <2> QED
    BY <2>3
<1> HIDE DEF Bounded
<1>4. SUFFICES ASSUME failing # {}
               PROVE  FALSE
  <2>1. Len(w) \in 0 .. Len(w)
    BY <1>1
  <2>2. Bounded(Len(w))
    BY <2>1, <1>4
  <2> QED
    BY <2>2 DEF Bounded
<1>5. PICK k \in failing : \A j \in failing : k <= j
  <2>1. failing \in SUBSET Nat
    BY <1>1
  <2> QED
    BY <2>1, <1>4, LeastNatural
<1>6. k \in 1 .. Len(w) /\ k - 1 \in 0 .. Len(w)
  BY <1>1, <1>2
<1>7. k - 1 \notin failing
  BY <1>5, <1>6
<1>8. Bounded(k)
  BY <1>3, <1>6, <1>7
<1> QED
  BY <1>8

\* MedianOf chooses a value that exists: the least difficulty that more than
\* half of the window does not exceed is one.
LEMMA MedianIsDifficulty ==
    ASSUME NEW w \in Seq(Header), w # <<>>
    PROVE  MedianOf(w) \in {w[i].diff : i \in DOMAIN w} /\ MedianOf(w) \in Nat
<1> DEFINE UnderSet(d) == {i \in DOMAIN w : w[i].diff < d}
           UpToSet(d) == {i \in DOMAIN w : w[i].diff <= d}
           Under(d) == Cardinality(UnderSet(d))
           UpTo(d) == Cardinality(UpToSet(d))
           mid == Len(w) \div 2
           D == {w[i].diff : i \in DOMAIN w}
           large == {d \in Nat : mid < UpTo(d)}
<1>1. /\ Len(w) \in Nat \ {0} /\ DOMAIN w = 1 .. Len(w)
      /\ \A i \in DOMAIN w : w[i].diff \in Nat
  BY ElementOfSeq, LenProperties, EmptySeq, HeaderAssumption
<1>2. mid \in Nat /\ mid < Len(w)
  BY <1>1
<1>3. IsFiniteSet(DOMAIN w) /\ Cardinality(DOMAIN w) = Len(w)
  BY <1>1, FS_Interval
<1>4. \A d : UpTo(d) \in Nat /\ Under(d) \in Nat
  BY <1>3, FS_Subset, FS_CardinalityType
<1>5. PICK b \in Nat : \A i \in 1 .. Len(w) : w[i].diff <= b
  BY DifficultiesBounded
<1>6. b \in large
  <2>1. UpToSet(b) = DOMAIN w
    BY <1>1, <1>5
  <2> QED
    BY <2>1, <1>2, <1>3
<1>7. PICK d \in large : \A e \in large : d <= e
  BY <1>6, LeastNatural
<1>8. d \in Nat /\ mid < UpTo(d)
  OBVIOUS
<1>9. Under(d) <= mid
  <2>1. CASE d = 0
    <3>1. UnderSet(d) = {}
      BY <1>1, <2>1
    <3>2. Under(d) = 0
      BY <3>1, FS_EmptySet
    <3> HIDE DEF Under, mid
    <3> QED
      BY <1>2, <3>2
  <2>2. CASE d # 0
    <3>1. d - 1 \in Nat /\ d - 1 \notin large
      BY <1>7, <1>8, <2>2
    <3>2. UnderSet(d) = UpToSet(d - 1)
      BY <1>1, <1>8
    <3>3. ~(mid < UpTo(d - 1))
      BY <3>1
    <3>4. UpTo(d - 1) \in Nat
      BY <1>4
    <3>5. Under(d) = UpTo(d - 1)
      BY <3>2
    <3> HIDE DEF UpTo, Under, mid
    <3> QED
      BY <3>3, <3>4, <3>5, <1>2
  <2> QED
    BY <2>1, <2>2
<1>10. d \in D
  <2>1. SUFFICES ASSUME d \notin D
                 PROVE  FALSE
    OBVIOUS
  <2>2. UpToSet(d) = UnderSet(d)
    BY <1>1, <1>8, <2>1
  <2>3. UpTo(d) = Under(d)
    BY <2>2
  <2>4. UpTo(d) \in Nat
    BY <1>4
  <2> HIDE DEF UpTo, Under, mid
  <2> QED
    BY <1>2, <1>8, <1>9, <2>3, <2>4
<1>11. MedianOf(w) = CHOOSE e \in D : Under(e) <= mid /\ mid < UpTo(e)
  BY DEF MedianOf
<1>12. D \subseteq Nat
  BY <1>1
<1> HIDE DEF D, Under, UpTo, mid, large
<1>13. MedianOf(w) \in D
  BY <1>8, <1>9, <1>10, <1>11
<1> QED
  BY <1>12, <1>13 DEF D

\* The threshold of a window is a number of 64 bits.
LEMMA MinDiffIsUInt ==
    ASSUME NEW median \in Nat
    PROVE  MinDiffOf(median) \in UInt /\ MinDiffOf(median) # Uninit
<1>1. median \div 128 \in Nat
  OBVIOUS
<1>2. (median \div 128) * MinDiffPercent \in Nat
  BY <1>1, DiffRulesAssumption
<1> QED
  BY <1>2, ParamsAssumption, UninitAssumption DEF MinDiffOf, Times, UInt

\* The windows reported, and those of them that end before Paris.
WindowAt(n) == SubSeq(reported, (n - 1) * ChkptSize + 1, n * ChkptSize)

EndBeforeParis ==
    {n \in 1 .. checkpointIter :
        ~IsBlockOfParis(reported[n * ChkptSize].number)}

\* The threshold is that of the last one.
ThresholdInv ==
    /\ DiffTypeOK
    /\ \A n \in EndBeforeParis :
        (\A m \in EndBeforeParis : m <= n)
            => m_minDiff = MinDiffOf(MedianOf(WindowAt(n)))

\* What completing a window does to the windows reported.
LEMMA FinishWindows ==
    ASSUME ChkptSize >= 2, IInv, NEW h \in Header,
           FinishCandidate(h) \/ AdvanceAndFinish(h)
    PROVE  /\ checkpointIter' = checkpointIter + 1
           /\ \A i \in 1 .. Len(reported) : reported'[i] = reported[i]
           /\ IterateCurrWindow' = WindowAt(checkpointIter)'
           /\ GetCheckpointBlkNumRange[2]'
                = reported'[(checkpointIter + 1) * ChkptSize].number
           /\ IterateCurrWindow' \in Seq(Header) /\ IterateCurrWindow' # <<>>
<1>1. IInv'
  BY FinishInv
<1>2. checkpointIter' = checkpointIter + 1 /\ checkpointIter' > 0
  BY DerivedTypes
  DEF FinishCandidate, AdvanceAndFinish, OnCheckpointComplete
<1>3. RangeIsThatOfCheckpoint'
  BY <1>1, RangeOfCheckpoint, PTL
<1>4. CurrWindowIsLastCheckpoint'
  BY <1>1, WindowOfCheckpoint, PTL
<1>5. /\ fed' = Append(fed, h)
      /\ reported' = fed'
      /\ IterateCurrWindow' = Append(Pending, h)
  BY FinishReportsAll, FinishCandidateEffect, AdvanceAndFinishEffect
<1>6. \A i \in 1 .. Len(reported) : reported'[i] = reported[i]
  <2>1. Len(reported) <= Len(fed)
    BY DerivedTypes DEF IInv, PendingIsRest
  <2>2. \A i \in 1 .. Len(fed) : fed'[i] = fed[i]
    BY <1>5, DerivedTypes, AppendProperties
  <2>3. \A i \in 1 .. Len(reported) : i \in 1 .. Len(fed) /\ reported[i] = fed[i]
    BY <2>1, DerivedTypes DEF IInv, ReportedIsPrefix
  <2> QED
    BY <1>5, <2>2, <2>3
<1>7. Len(reported') = (checkpointIter + 1) * ChkptSize
  BY <1>1, <1>2 DEF IInv, CheckpointsHaveChkptSize
<1>8. /\ Len(IterateCurrWindow') = ChkptSize
      /\ \A i \in 1 .. ChkptSize :
            IterateCurrWindow'[i] = reported'[Len(reported') - ChkptSize + i]
      /\ Len(reported') \in Nat
  <2>1. WindowIsLastReported' /\ checkpointIter' # 0
    BY <1>1, <1>2 DEF IInv
  <2>2. fed' \in Seq(Header)
    BY <1>5, DerivedTypes, AppendProperties
  <2> QED
    BY <1>5, <2>1, <2>2 DEF WindowIsLastReported
<1>9. IterateCurrWindow' = WindowAt(checkpointIter)'
  <2>1. IterateCurrWindow' = LastOf(ChkptSize)'
    BY <1>2, <1>4 DEF CurrWindowIsLastCheckpoint
  <2>2. /\ Len(reported') - ChkptSize + 1 = (checkpointIter' - 1) * ChkptSize + 1
        /\ Len(reported') = checkpointIter' * ChkptSize
    BY <1>2, <1>7, DerivedTypes, ChkptSizeAssumption
  <2> QED
    BY <2>1, <2>2 DEF LastOf, WindowAt
<1>10. GetCheckpointBlkNumRange[2]'
            = reported'[(checkpointIter + 1) * ChkptSize].number
  <2>1. GetCheckpointBlkNumRange[2]' = IterateCurrWindow'[ChkptSize].number
    BY <1>2, <1>3, <1>8 DEF RangeIsThatOfCheckpoint
  <2>2. IterateCurrWindow'[ChkptSize] = reported'[Len(reported')]
    BY <1>8, ChkptSizeAssumption
  <2> QED
    BY <2>1, <2>2, <1>7
<1>11. IterateCurrWindow' \in Seq(Header) /\ IterateCurrWindow' # <<>>
  <2>1. Pending \in Seq(Header)
    BY DerivedTypes
  <2>2. Append(Pending, h) \in Seq(Header) /\ Append(Pending, h) # <<>>
    BY <2>1, AppendProperties
  <2> QED
    BY <1>5, <2>2
<1> QED
  BY <1>2, <1>6, <1>9, <1>10, <1>11

\* The windows reported before stay where they are.
LEMMA WindowsStay ==
    ASSUME ChkptSize >= 2, IInv, NEW h \in Header,
           FinishCandidate(h) \/ AdvanceAndFinish(h),
           NEW n \in 1 .. checkpointIter
    PROVE  /\ reported'[n * ChkptSize] = reported[n * ChkptSize]
           /\ WindowAt(n)' = WindowAt(n)
<1>1. Len(reported) = checkpointIter * ChkptSize
  BY DEF IInv, CheckpointsHaveChkptSize
<1>2. \A i \in 1 .. Len(reported) : reported'[i] = reported[i]
  BY FinishWindows
<1>3. /\ (n - 1) * ChkptSize + 1 \in Nat \ {0}
      /\ n * ChkptSize \in 1 .. checkpointIter * ChkptSize
      /\ (n - 1) * ChkptSize + 1 <= n * ChkptSize
  <2>1. n * ChkptSize <= checkpointIter * ChkptSize
    <3>1. PICK k \in Nat : checkpointIter = n + k
      <4>1. checkpointIter - n \in Nat /\ checkpointIter = n + (checkpointIter - n)
        BY DerivedTypes
      <4> QED
        BY <4>1
    <3>2. (n + k) * ChkptSize = n * ChkptSize + k * ChkptSize
      BY ChkptSizeAssumption
    <3>3. k * ChkptSize \in Nat /\ n * ChkptSize \in Nat
      BY ChkptSizeAssumption
    <3> QED
      BY <3>1, <3>2, <3>3
  <2>2. n * ChkptSize \in Nat \ {0} /\ (n - 1) * ChkptSize \in Nat
    BY DerivedTypes, ChkptSizeAssumption
  <2>3. (n - 1) * ChkptSize = n * ChkptSize - ChkptSize
    BY DerivedTypes, ChkptSizeAssumption
  <2>4. checkpointIter * ChkptSize \in Nat
    BY DerivedTypes, ChkptSizeAssumption
  <2> QED
    BY <2>1, <2>2, <2>3, <2>4, ChkptSizeAssumption
<1> DEFINE first == (n - 1) * ChkptSize + 1
           last == n * ChkptSize
<1>4. /\ first \in Nat \ {0} /\ last \in 1 .. Len(reported)
      /\ first <= last
  BY <1>1, <1>3
<1>5. WindowAt(n) = SubSeq(reported, first, last)
      /\ WindowAt(n)' = SubSeq(reported', first, last)
  BY DEF WindowAt
<1> HIDE DEF first, last
<1>6. \A i \in first .. last : reported'[i] = reported[i]
  BY <1>2, <1>4, DerivedTypes
<1>7. /\ SubSeq(reported, first, last) \in Seq(Header)
      /\ Len(SubSeq(reported, first, last)) = last - first + 1
      /\ \A i \in 1 .. last - first + 1 :
            SubSeq(reported, first, last)[i] = reported[first + i - 1]
  <2>1. \A i \in first .. last : reported[i] \in Header
    BY <1>4, DerivedTypes, ElementOfSeq
  <2> QED
    BY <2>1, <1>4, DerivedTypes, SubSeqProperties
<1>8. /\ SubSeq(reported', first, last) \in Seq(Header)
      /\ Len(SubSeq(reported', first, last)) = last - first + 1
      /\ \A i \in 1 .. last - first + 1 :
            SubSeq(reported', first, last)[i] = reported'[first + i - 1]
  <2>1. \A i \in first .. last : reported'[i] \in Header
    BY <1>4, <1>6, DerivedTypes, ElementOfSeq
  <2> QED
    BY <2>1, <1>4, DerivedTypes, SubSeqProperties
<1>9. SubSeq(reported', first, last) = SubSeq(reported, first, last)
  <2>1. \A i \in 1 .. last - first + 1 : first + i - 1 \in first .. last
    BY <1>4, DerivedTypes
  <2>2. \A i \in 1 .. last - first + 1 :
            SubSeq(reported', first, last)[i] = SubSeq(reported, first, last)[i]
    BY <1>6, <1>7, <1>8, <2>1
  <2> QED
    BY <1>7, <1>8, <2>2, SeqEqual
<1> QED
  BY <1>2, <1>4, <1>5, <1>9 DEF last

LEMMA FinishThreshold ==
    ASSUME ChkptSize >= 2, IInv, ThresholdInv, NEW h \in Header,
           FinishCandidate(h) \/ AdvanceAndFinish(h)
    PROVE  ThresholdInv'
<1> DEFINE end == GetCheckpointBlkNumRange[2]'
<1>1. /\ checkpointIter' = checkpointIter + 1
      /\ checkpointIter \in Nat
      /\ IterateCurrWindow' = WindowAt(checkpointIter)'
      /\ end = reported'[checkpointIter' * ChkptSize].number
  BY FinishWindows, DerivedTypes
<1>2. /\ end >= ParisNum => m_minDiff' = m_minDiff
      /\ ~(end >= ParisNum) => m_minDiff' = MinDiffOf(MedianOf(IterateCurrWindow'))
  BY DEF FinishCandidate, AdvanceAndFinish, OnCheckpointComplete, OnChkptUpd,
         IsBlockOfParis, GetDiffMedian
<1>3. \A n \in 1 .. checkpointIter :
        /\ n \in EndBeforeParis' <=> n \in EndBeforeParis
        /\ WindowAt(n)' = WindowAt(n)
  <2> TAKE n \in 1 .. checkpointIter
  <2>1. n \in 1 .. checkpointIter'
    BY <1>1
  <2> QED
    BY <2>1, WindowsStay DEF EndBeforeParis
<1>4. EndBeforeParis \subseteq 1 .. checkpointIter
      /\ EndBeforeParis' \subseteq 1 .. checkpointIter + 1
  BY <1>1 DEF EndBeforeParis
<1>5. checkpointIter + 1 \in EndBeforeParis' <=> ~(end >= ParisNum)
  BY <1>1 DEF EndBeforeParis, IsBlockOfParis
<1>6. CASE end >= ParisNum
  <2>1. EndBeforeParis' = EndBeforeParis
    <3>1. checkpointIter + 1 \notin EndBeforeParis'
      BY <1>5, <1>6
    <3>2. EndBeforeParis' \subseteq 1 .. checkpointIter
      BY <1>1, <1>4, <3>1
    <3> QED
      BY <1>3, <1>4, <3>2
  <2>2. m_minDiff' = m_minDiff
    BY <1>2, <1>6
  <2>3. \A n \in EndBeforeParis' : WindowAt(n)' = WindowAt(n)
    BY <1>3, <1>4, <2>1
  <2> QED
    BY <2>1, <2>2, <2>3 DEF ThresholdInv, DiffTypeOK
<1>7. CASE ~(end >= ParisNum)
  <2>1. m_minDiff' = MinDiffOf(MedianOf(WindowAt(checkpointIter)'))
    BY <1>1, <1>2, <1>7
  <2>2. m_minDiff' \in UInt
    <3>1. MedianOf(IterateCurrWindow') \in Nat
      BY FinishWindows, MedianIsDifficulty
    <3> QED
      BY <3>1, <1>2, <1>7, MinDiffIsUInt
  <2>3. ASSUME NEW n \in EndBeforeParis', \A m \in EndBeforeParis' : m <= n
        PROVE  n = checkpointIter'
    BY <1>1, <1>4, <1>5, <1>7, <2>3
  <2> QED
    BY <2>1, <2>2, <2>3 DEF ThresholdInv, DiffTypeOK
<1> QED
  BY <1>6, <1>7

LEMMA ThresholdInvariance ==
    ASSUME ChkptSize >= 2
    PROVE  Spec => []ThresholdInv
<1>1. Init => ThresholdInv
  BY DEF Init, DiffInit, ThresholdInv, DiffTypeOK, EndBeforeParis
<1>2. IInv /\ ThresholdInv /\ [Next]_vars => ThresholdInv'
  <2> SUFFICES ASSUME IInv, ThresholdInv, [Next]_vars
               PROVE  ThresholdInv'
    OBVIOUS
  <2>1. ASSUME UNCHANGED <<m_minDiff, checkpointIter, reported>>
        PROVE  ThresholdInv'
    BY <2>1 DEF ThresholdInv, DiffTypeOK, EndBeforeParis, WindowAt
  <2>2. CASE LeaveBootstrap
    BY <2>1, <2>2 DEF LeaveBootstrap, NoCheckpoint
  <2>3. ASSUME NEW h \in Header, FillCandidate(h) \/ Advance(h)
        PROVE  ThresholdInv'
    BY <2>1, <2>3 DEF FillCandidate, Advance, NoCheckpoint
  <2>4. ASSUME NEW h \in Header, FinishCandidate(h) \/ AdvanceAndFinish(h)
        PROVE  ThresholdInv'
    BY <2>4, FinishThreshold
  <2>5. CASE UNCHANGED vars
    BY <2>1, <2>5 DEF vars
  <2> QED
    BY <2>2, <2>3, <2>4, <2>5 DEF Next
<1> QED
  BY <1>1, <1>2, Invariance, PTL DEF Spec

\* DiffChecker.hpp: the threshold the proof-of-work checker keeps is computed
\* from all headers of the last checkpoint that ends before Paris, and from
\* no others, whatever checkpoints complete after Paris.
THEOREM ThresholdCorrect ==
    ASSUME ChkptSize >= 2
    PROVE  Spec => []MinDiffOfLastPoWCheckpoint
<1>1. IInv /\ ThresholdInv => MinDiffOfLastPoWCheckpoint
  <2> SUFFICES ASSUME IInv, ThresholdInv, EndBeforeParis # {}
               PROVE  LET last == CHOOSE n \in EndBeforeParis :
                                    \A m \in EndBeforeParis : m <= n
                      IN  m_minDiff = MinDiffOf(MedianOf(WindowAt(last)))
    BY DEF MinDiffOfLastPoWCheckpoint, EndBeforeParis, WindowAt
  <2>1. EndBeforeParis \subseteq 0 .. checkpointIter /\ checkpointIter \in Nat
    BY DerivedTypes DEF EndBeforeParis
  <2>2. \E n \in EndBeforeParis : \A m \in EndBeforeParis : m <= n
    BY <2>1, GreatestNatural
  <2> DEFINE last == CHOOSE n \in EndBeforeParis :
                        \A m \in EndBeforeParis : m <= n
  <2>3. last \in EndBeforeParis /\ \A m \in EndBeforeParis : m <= last
    BY <2>2
  <2> HIDE DEF last
  <2>4. m_minDiff = MinDiffOf(MedianOf(WindowAt(last)))
    BY <2>3 DEF ThresholdInv
  <2> QED
    BY <2>4 DEF last
<1> QED
  BY <1>1, Invariance, ThresholdInvariance, PTL

\* The last node is the newest header reported or a later one.
LEMMA LastNodeIsRecent ==
    ASSUME ChkptSize >= 2, IInv, HasLastNode
    PROVE  /\ checkpointIter > 0
           /\ m_lastNode.number \in Nat
           /\ reported[checkpointIter * ChkptSize].number <= m_lastNode.number
<1> DEFINE n == Len(reported)
<1>1. /\ checkpointIter > 0
      /\ n >= ChkptSize
      /\ Len(IterateCurrWindow) = ChkptSize
      /\ IterateCurrWindow[ChkptSize] = reported[n]
      /\ checkpointIter * ChkptSize = n
  <2>1. checkpointIter # 0
    BY DEF IInv, WindowIsLastReported
  <2>2. \A i \in 1 .. ChkptSize :
            IterateCurrWindow[i] = reported[n - ChkptSize + i]
    BY <2>1 DEF IInv, WindowIsLastReported
  <2>3. n - ChkptSize + ChkptSize = n
    BY DerivedTypes, ChkptSizeAssumption
  <2>4. IterateCurrWindow[ChkptSize] = reported[n]
    BY <2>2, <2>3, ChkptSizeAssumption
  <2> QED
    BY <2>1, <2>4, DerivedTypes
    DEF IInv, WindowIsLastReported, CheckpointsHaveChkptSize
<1>2. n \in 1 .. Len(fed) /\ reported[n] = fed[n] /\ Len(fed) = n + Len(Pending)
  BY <1>1, DerivedTypes, ChkptSizeAssumption
  DEF IInv, PendingIsRest, ReportedIsPrefix
<1>3. \E k \in n .. Len(fed) : m_lastNode = fed[k]
  <2>1. m_currWindow \in Seq(Header) /\ m_candidate \in Seq(Header)
        /\ m_lastNode \in Header
    BY DEF IInv, LogTypeOK, CheckpointTypeOK, HasLastNode
  <2>2. CASE m_isLastNodeCandidate
    <3>1. Pending = Append(m_candidate, m_lastNode)
      BY <2>2 DEF Pending, WithLastNode
    <3>2. Len(Pending) = Len(m_candidate) + 1 /\ Pending[Len(Pending)] = m_lastNode
      BY <2>1, <3>1, AppendProperties
    <3>3. Len(Pending) \in 1 .. Len(Pending)
      BY <2>1, <3>2, LenProperties
    <3>4. m_lastNode = fed[n + Len(Pending)]
      BY <3>2, <3>3 DEF IInv, PendingIsRest
    <3> QED
      BY <1>2, <3>4, DerivedTypes
  <2>3. CASE ~m_isLastNodeCandidate
    <3>1. IterateCurrWindow = Append(m_currWindow, m_lastNode)
      BY <2>3 DEF IterateCurrWindow, WithLastNode
    <3>2. m_lastNode = IterateCurrWindow[ChkptSize]
      BY <1>1, <2>1, <3>1, AppendProperties
    <3> QED
      BY <1>1, <1>2, <3>2, DerivedTypes
  <2> QED
    BY <2>2, <2>3
<1>4. PICK k \in n .. Len(fed) : m_lastNode = fed[k]
  BY <1>3
<1>5. k \in 1 .. Len(fed)
  BY <1>2, DerivedTypes
<1>6. /\ fed[n].number = fed[1].number + n - 1
      /\ fed[k].number = fed[1].number + k - 1
  BY <1>2, <1>5 DEF IInv, NumbersConsecutive
<1>7. fed[1].number \in Nat /\ fed[k].number \in Nat
  <2>1. fed \in Seq(Header) /\ Len(fed) \in Nat
    BY DerivedTypes
  <2>2. 1 \in 1 .. Len(fed)
    BY <1>2, <2>1
  <2>3. fed[1] \in Header /\ fed[k] \in Header
    BY <1>5, <2>1, <2>2, ElementOfSeq
  <2> QED
    BY <2>3, HeaderAssumption
<1>8. n \in Nat /\ k \in Nat /\ n <= k
  BY <1>5, DerivedTypes
<1> HIDE DEF n
<1>9. fed[n].number <= fed[k].number
  BY <1>6, <1>7, <1>8
<1> QED
  BY <1>1, <1>2, <1>4, <1>7, <1>9

\* DiffChecker.hpp, DiffCheckerPoW: the threshold, a member without an
\* initialiser, is set before the first header can be judged by it.
THEOREM ThresholdSetBeforeUse ==
    ASSUME ChkptSize >= 2
    PROVE  Spec => []MinDiffSetBeforeUse
<1>1. IInv /\ ThresholdInv => MinDiffSetBeforeUse
  <2> SUFFICES ASSUME IInv, ThresholdInv, HasLastNode,
                      ~IsBlockOfParis(m_lastNode.number + 1)
               PROVE  m_minDiff # Uninit
    BY DEF MinDiffSetBeforeUse
  <2> DEFINE last == checkpointIter
  <2>1. /\ last \in Nat \ {0}
        /\ reported[last * ChkptSize].number <= m_lastNode.number
        /\ m_lastNode.number \in Nat
    BY LastNodeIsRecent, DerivedTypes
  <2>2. Len(reported) = last * ChkptSize /\ last * ChkptSize \in Nat \ {0}
    BY <2>1, ChkptSizeAssumption DEF IInv, CheckpointsHaveChkptSize
  <2>3. reported[last * ChkptSize].number \in Nat
    BY <2>2, DerivedTypes, ElementOfSeq, HeaderAssumption
  <2>4. last \in EndBeforeParis
    BY <2>1, <2>3, ParamsAssumption DEF EndBeforeParis, IsBlockOfParis
  <2>5. \A m \in EndBeforeParis : m <= last
    BY <2>1 DEF EndBeforeParis
  <2>6. m_minDiff = MinDiffOf(MedianOf(WindowAt(last)))
    BY <2>4, <2>5 DEF ThresholdInv
  <2>7. IterateCurrWindow = WindowAt(last) /\ IterateCurrWindow # <<>>
    <3>1. IterateCurrWindow = LastOf(ChkptSize)
      BY <2>1, WindowOfCheckpoint DEF CurrWindowIsLastCheckpoint
    <3>2. Len(reported) - ChkptSize + 1 = (last - 1) * ChkptSize + 1
      BY <2>1, <2>2, ChkptSizeAssumption
    <3>3. LastOf(ChkptSize) = WindowAt(last)
      BY <2>2, <3>2 DEF LastOf, WindowAt
    <3>4. Len(IterateCurrWindow) # 0
      BY <2>1, ChkptSizeAssumption DEF IInv, WindowIsLastReported
    <3> QED
      BY <3>1, <3>3, <3>4, EmptySeq
  <2>8. MedianOf(IterateCurrWindow) \in Nat
    BY <2>7, DerivedTypes, MedianIsDifficulty
  <2> QED
    BY <2>6, <2>7, <2>8, MinDiffIsUInt
<1> QED
  BY <1>1, Invariance, ThresholdInvariance, PTL

\* Type correctness of the checkpoint manager, the security state, the
\* difficulty threshold and the history.
THEOREM TypeCorrect ==
    ASSUME ChkptSize >= 2
    PROVE  Spec => []TypeOK
<1>1. IInv /\ ThresholdInv => TypeOK
  BY DEF IInv, ThresholdInv, TypeOK
<1> QED
  BY <1>1, Invariance, ThresholdInvariance, PTL

=============================================================================

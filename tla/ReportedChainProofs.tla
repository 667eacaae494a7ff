-------------------------- MODULE ReportedChainProofs --------------------------
(***************************************************************************)
(* Theorem about EclipseMonitor: the confirmed headers are one chain.       *)
(*                                                                          *)
(* The invariant has two halves.  TreeInv says of each node that its header *)
(* extends that of its parent, as long as the parent exists, and that of    *)
(* the last confirmed header if its parent is the root.  WindowInv says of  *)
(* the containers of CheckpointMgr that the checkpoint and the candidates   *)
(* are chains, the second where the first ends, and that what was reported  *)
(* ends where the checkpoint does, or earlier once a callback has thrown.   *)
(***************************************************************************)
EXTENDS EclipseMonitorProofs

\* The header extends the other one, and its number has not wrapped around.
Follows(parent, header) ==
    header.parent = parent.hash /\ parent.number < header.number

Newest(s) == s[Len(s)]

Chained(s) == \A i \in 1 .. Len(s) - 1 : s[i + 1].parent = s[i].hash

Rising(s) == \A i, j \in 1 .. Len(s) : i < j => s[i].number < s[j].number

Meets(s, t) == s # << >> /\ t # << >> => Follows(Newest(s), t[1])

\* The two windows, with the header of the last node in the one it counts for.
Checkpoint == IterateCurrWindow
Candidates == IF m_isLastNodeCandidate THEN WithLastNode(m_candidate) ELSE m_candidate

WindowsAreChained ==
    /\ Chained(Checkpoint) /\ Rising(Checkpoint)
    /\ Chained(Candidates) /\ Rising(Candidates)
    /\ Meets(Checkpoint, Candidates)
    /\ HasLastNode /\ ~m_isLastNodeCandidate => m_candidate = << >>

ReportedIsRising ==
    /\ Rising(reported)
    /\ reported # << >> =>
        /\ Checkpoint # << >>
        /\ Newest(reported).number <= Newest(Checkpoint).number

ReportedIsChained ==
    ~interrupted =>
        /\ Chained(reported)
        /\ reported # << >> => Newest(reported) = Newest(Checkpoint)

WindowInv == WindowsAreChained /\ ReportedIsRising /\ ReportedIsChained

TreeInv ==
    /\ \A n \in DOMAIN tree :
        /\ n \in 1 .. nextNode - 1
        /\ tree[n].parent \in 1 .. nextNode - 1 \cup {NoNode}
        /\ tree[n].parent \in DOMAIN tree =>
                Follows(tree[tree[n].parent].header, tree[n].header)
        /\ tree[n].parent = root => Follows(m_lastNode, tree[n].header)
    /\ root \in DOMAIN tree => tree[root].header = m_lastNode
    /\ root \in 1 .. nextNode - 1 \cup {NoNode}
    /\ root # NoNode => HasLastNode
    /\ ~HasLastNode => DOMAIN tree = {}

ChainInv == TreeInv /\ WindowInv
-----------------------------------------------------------------------------
(* Sequences of headers.                                                    *)

\* A chain stays one when a header that extends its newest is appended.
LEMMA AppendIsChain ==
    ASSUME NEW s \in Seq(Header), NEW h \in Header, Chained(s), Rising(s),
           s # << >> => Follows(Newest(s), h)
    PROVE  /\ Append(s, h) \in Seq(Header)
           /\ Append(s, h) # << >>
           /\ Newest(Append(s, h)) = h
           /\ Append(s, h)[1] = IF s = << >> THEN h ELSE s[1]
           /\ Chained(Append(s, h)) /\ Rising(Append(s, h))
<1> DEFINE t == Append(s, h)
<1>1. /\ t \in Seq(Header) /\ t # << >>
      /\ Len(t) = Len(s) + 1 /\ Len(s) \in Nat
      /\ \A i \in 1 .. Len(s) : t[i] = s[i]
      /\ t[Len(s) + 1] = h
  BY AppendProperties, LenProperties
<1>2. s # << >> <=> Len(s) > 0
  BY EmptySeq
<1>3. \A i \in 1 .. Len(s) : s[i] \in Header /\ s[i].number \in Nat
  BY ElementOfSeq, HeaderAssumption
<1>4. h.number \in Nat
  BY HeaderAssumption
<1> HIDE DEF t
<1>5. Newest(t) = h /\ t[1] = IF s = << >> THEN h ELSE s[1]
  BY <1>1, <1>2 DEF Newest
<1>6. Chained(t)
  <2> SUFFICES ASSUME NEW i \in 1 .. Len(t) - 1 PROVE t[i + 1].parent = t[i].hash
    BY DEF Chained
  <2>1. CASE i < Len(s)
    BY <1>1, <2>1 DEF Chained
  <2>2. CASE i = Len(s)
    BY <1>1, <1>2, <2>2 DEF Follows, Newest
  <2> QED
    BY <1>1, <2>1, <2>2
<1>7. Rising(t)
  <2> SUFFICES ASSUME NEW i \in 1 .. Len(t), NEW j \in 1 .. Len(t), i < j
               PROVE  t[i].number < t[j].number
    BY DEF Rising
  <2>1. CASE j <= Len(s)
    BY <1>1, <2>1 DEF Rising
  <2>2. CASE j = Len(s) + 1
    <3>1. i \in 1 .. Len(s) /\ Len(s) \in 1 .. Len(s) /\ s # << >>
      BY <1>1, <1>2, <2>2
    <3>2. s[i].number <= s[Len(s)].number
      BY <1>3, <3>1 DEF Rising
    <3>3. s[Len(s)].number < h.number
      BY <3>1 DEF Follows, Newest
    <3>4. s[i].number < h.number
      BY <1>3, <1>4, <3>1, <3>2, <3>3
    <3> QED
      BY <1>1, <2>2, <3>1, <3>4
  <2> QED
    BY <1>1, <2>1, <2>2
<1> QED
  BY <1>1, <1>5, <1>6, <1>7 DEF t

\* The headers reported at once begin a chain, too.
LEMMA PrefixIsChain ==
    ASSUME NEW s \in Seq(Header), NEW k \in 0 .. Len(s), Chained(s), Rising(s)
    PROVE  LET t == SubSeq(s, 1, k)
           IN  /\ t \in Seq(Header) /\ Rising(t)
               /\ t # << >> => /\ t[1] = s[1] /\ s # << >>
                               /\ Newest(t).number <= Newest(s).number
<1> DEFINE t == SubSeq(s, 1, k)
<1>1. \A i \in 1 .. Len(s) : s[i] \in Header /\ s[i].number \in Nat
  BY ElementOfSeq, HeaderAssumption
<1>2. Len(s) \in Nat /\ k \in Int /\ 1 \in Int
  BY LenProperties
<1>3. /\ t \in Seq(Header)
      /\ Len(t) = k
      /\ \A i \in 1 .. k : t[i] = s[i]
  <2>1. \A i \in 1 .. k : s[i] \in Header
    BY <1>1, <1>2
  <2>2. /\ t \in Seq(Header)
        /\ Len(t) = IF 1 <= k THEN k - 1 + 1 ELSE 0
        /\ \A i \in 1 .. k - 1 + 1 : t[i] = s[1 + i - 1]
    BY <1>2, <2>1, SubSeqProperties
  <2> HIDE DEF t
  <2> QED
    BY <1>2, <2>2
<1>4. t # << >> => Len(t) > 0
  BY <1>3, EmptySeq
<1>5. k > 0 => s # << >>
  BY <1>2, EmptySeq
<1> HIDE DEF t
<1>6. Rising(t)
  BY <1>2, <1>3 DEF Rising
<1>7. ASSUME t # << >> PROVE t[1] = s[1] /\ s # << >> /\ Newest(t).number <= Newest(s).number
  <2>1. k > 0 /\ k <= Len(s) /\ k \in 1 .. Len(s) /\ Len(s) \in 1 .. Len(s)
    BY <1>2, <1>3, <1>4, <1>7
  <2>2. s[k].number <= s[Len(s)].number
    BY <1>1, <2>1 DEF Rising
  <2> QED
    BY <1>3, <1>5, <2>1, <2>2 DEF Newest
<1> QED
  BY <1>3, <1>6, <1>7 DEF t

LEMMA RisesAcross ==
    ASSUME NEW a \in Nat, NEW b \in Nat, NEW c \in Nat, NEW d \in Nat,
           a <= b, b < c, c <= d
    PROVE  a < d
  OBVIOUS

\* What is reported after what was reported.
LEMMA ConcatIsRising ==
    ASSUME NEW r \in Seq(Header), NEW s \in Seq(Header), Rising(r), Rising(s),
           r # << >> /\ s # << >> => Newest(r).number < s[1].number
    PROVE  /\ r \o s \in Seq(Header) /\ Rising(r \o s)
           /\ r \o s # << >> => /\ s = << >> => r # << >> /\ Newest(r \o s) = Newest(r)
                                /\ s # << >> => Newest(r \o s) = Newest(s)
<1> DEFINE t == r \o s
<1>1. /\ t \in Seq(Header)
      /\ Len(t) = Len(r) + Len(s)
      /\ \A i \in 1 .. Len(r) + Len(s) : t[i] = IF i <= Len(r) THEN r[i] ELSE s[i - Len(r)]
  BY ConcatProperties
<1>2. Len(r) \in Nat /\ Len(s) \in Nat
  BY LenProperties
<1>3. (r # << >> <=> Len(r) > 0) /\ (s # << >> <=> Len(s) > 0) /\ (t # << >> => Len(t) > 0)
  BY <1>1, EmptySeq
<1>4. /\ \A i \in 1 .. Len(r) : r[i].number \in Nat
      /\ \A i \in 1 .. Len(s) : s[i].number \in Nat
  BY ElementOfSeq, HeaderAssumption
<1> HIDE DEF t
<1>5. Rising(t)
  <2> SUFFICES ASSUME NEW i \in 1 .. Len(t), NEW j \in 1 .. Len(t), i < j
               PROVE  t[i].number < t[j].number
    BY DEF Rising
  <2>1. CASE j <= Len(r)
    BY <1>1, <1>2, <2>1 DEF Rising
  <2>2. CASE i > Len(r)
    <3>1. i - Len(r) \in 1 .. Len(s) /\ j - Len(r) \in 1 .. Len(s) /\ i - Len(r) < j - Len(r)
      BY <1>1, <1>2, <2>2
    <3>2. s[i - Len(r)].number < s[j - Len(r)].number
      BY <3>1 DEF Rising
    <3>3. ~(i <= Len(r)) /\ ~(j <= Len(r))
      BY <1>2, <2>2
    <3> QED
      BY <1>1, <3>2, <3>3
  <2>3. CASE i <= Len(r) /\ j > Len(r)
    <3>1. /\ i \in 1 .. Len(r) /\ Len(r) \in 1 .. Len(r) /\ j - Len(r) \in 1 .. Len(s)
          /\ 1 \in 1 .. Len(s)
      BY <1>1, <1>2, <2>3
    <3>2. r[i].number <= r[Len(r)].number
      BY <1>4, <3>1 DEF Rising
    <3>3. s[1].number <= s[j - Len(r)].number
      BY <1>4, <3>1 DEF Rising
    <3>4. r[Len(r)].number < s[1].number
      BY <1>2, <1>3, <3>1 DEF Newest
    <3>5. /\ r[i].number \in Nat /\ r[Len(r)].number \in Nat
          /\ s[1].number \in Nat /\ s[j - Len(r)].number \in Nat
      BY <1>4, <3>1
    <3>6. r[i].number < s[j - Len(r)].number
      BY <3>2, <3>3, <3>4, <3>5, RisesAcross
    <3>7. ~(j <= Len(r)) /\ i \in 1 .. Len(r) + Len(s) /\ j \in 1 .. Len(r) + Len(s)
      BY <1>1, <1>2, <2>3
    <3> QED
      BY <1>1, <2>3, <3>6, <3>7
  <2> QED
    BY <1>1, <1>2, <2>1, <2>2, <2>3
<1>6. ASSUME t # << >>, s = << >> PROVE r # << >> /\ Newest(t) = Newest(r)
  BY <1>1, <1>2, <1>3, <1>6 DEF Newest
<1>7. ASSUME t # << >>, s # << >> PROVE Newest(t) = Newest(s)
  BY <1>1, <1>2, <1>3, <1>7 DEF Newest
<1> QED
  BY <1>1, <1>5, <1>6, <1>7 DEF t

LEMMA ConcatIsChained ==
    ASSUME NEW r \in Seq(Header), NEW s \in Seq(Header), Chained(r), Chained(s),
           r # << >> /\ s # << >> => s[1].parent = Newest(r).hash
    PROVE  Chained(r \o s)
<1> DEFINE t == r \o s
<1>1. /\ Len(t) = Len(r) + Len(s)
      /\ \A i \in 1 .. Len(r) + Len(s) : t[i] = IF i <= Len(r) THEN r[i] ELSE s[i - Len(r)]
  BY ConcatProperties
<1>2. Len(r) \in Nat /\ Len(s) \in Nat
  BY LenProperties
<1>3. (r # << >> <=> Len(r) > 0) /\ (s # << >> <=> Len(s) > 0)
  BY EmptySeq
<1> HIDE DEF t
<1>4. ASSUME NEW i \in 1 .. Len(t) - 1 PROVE t[i + 1].parent = t[i].hash
  <2>1. CASE i < Len(r)
    BY <1>1, <1>2, <2>1 DEF Chained
  <2>2. CASE i = Len(r)
    BY <1>1, <1>2, <1>3, <2>2 DEF Newest
  <2>3. CASE i > Len(r)
    <3>1. /\ i - Len(r) \in 1 .. Len(s) - 1 /\ i + 1 - Len(r) = (i - Len(r)) + 1
          /\ ~(i <= Len(r)) /\ ~(i + 1 <= Len(r))
          /\ i \in 1 .. Len(r) + Len(s) /\ i + 1 \in 1 .. Len(r) + Len(s)
      BY <1>1, <1>2, <2>3
    <3>2. t[i] = s[i - Len(r)]
      BY <1>1, <3>1
    <3>3. t[i + 1] = s[(i - Len(r)) + 1]
      <4>1. t[i + 1] = s[i + 1 - Len(r)]
        BY <1>1, <3>1
      <4> QED
        BY <3>1, <4>1
    <3> QED
      BY <3>1, <3>2, <3>3 DEF Chained
  <2> QED
    BY <1>1, <1>2, <2>1, <2>2, <2>3
<1> QED
  BY <1>4 DEF Chained, t

-----------------------------------------------------------------------------
(* The operations of CheckpointMgr, by what they do to the two windows.     *)

\* The last node counts for the current window only when there is no candidate.
CheckpointIsFull == HasLastNode /\ ~m_isLastNodeCandidate => m_candidate = << >>

\* The header extends the newest one of the two windows, if there is one.
FollowsWindows(header) ==
    /\ Candidates # << >> => Follows(Newest(Candidates), header)
    /\ Candidates = << >> /\ Checkpoint # << >> => Follows(Newest(Checkpoint), header)

LEMMA WindowsAreSeqs ==
    ASSUME WindowTypes
    PROVE  Checkpoint \in Seq(Header) /\ Candidates \in Seq(Header)
  BY AppendProperties
  DEF WindowTypes, Checkpoint, Candidates, IterateCurrWindow, WithLastNode, HasLastNode

LEMMA KeepsEffect ==
    ASSUME WindowTypes, CheckpointIsFull, NEW header \in Header,
           AddHeaderKeeps(header) \/ AddNodeKeeps(header)
    PROVE  /\ Checkpoint' = Checkpoint
           /\ Candidates' = Append(Candidates, header)
           /\ CheckpointIsFull'
<1> USE DEF Checkpoint, Candidates, IterateCurrWindow, WithLastNode, HasLastNode,
            CheckpointIsFull
<1>1. CASE AddHeaderKeeps(header)
  BY <1>1 DEF AddHeaderKeeps
<1>2. CASE AddNodeKeeps(header)
  BY <1>2, NoNodeAssumption DEF AddNodeKeeps
<1> QED
  BY <1>1, <1>2

LEMMA CompletesEffect ==
    ASSUME WindowTypes, CheckpointIsFull, ChkptSize >= 2, NEW header \in Header,
           AddHeaderCompletes(header) \/ AddNodeCompletes(header)
    PROVE  /\ Checkpoint' = Append(Candidates, header)
           /\ Candidates' = << >>
           /\ CheckpointIsFull'
<1> USE DEF Checkpoint, Candidates, IterateCurrWindow, WithLastNode, HasLastNode,
            CheckpointIsFull
<1>1. CASE AddHeaderCompletes(header)
  BY <1>1 DEF AddHeaderCompletes
<1>2. CASE AddNodeCompletes(header)
  <2>1. ~HasLastNode \/ m_isLastNodeCandidate
    <3> SUFFICES ASSUME HasLastNode, ~m_isLastNodeCandidate PROVE FALSE
      OBVIOUS
    <3>1. GetNumOfCandidates = 0
      BY DEF GetNumOfCandidates
    <3> QED
      BY <1>2, <3>1, ChkptSizeAssumption DEF AddNodeCompletes
  <2> QED
    BY <1>2, <2>1, NoNodeAssumption DEF AddNodeCompletes
<1> QED
  BY <1>1, <1>2

LEMMA EndBootstrapEffect ==
    ASSUME WindowTypes, CheckpointIsFull, EndBootstrapPhase
    PROVE  /\ Checkpoint' = Checkpoint
           /\ Candidates' = Candidates
           /\ CheckpointIsFull'
<1> DEFINE n == Len(m_currWindow)
           rest == SubSeq(m_currWindow, 1, n - 1)
<1>1. /\ ~HasLastNode /\ m_candidate = << >> /\ m_currWindow # << >>
      /\ m_lastNode' = m_currWindow[n] /\ m_currWindow' = rest
      /\ ~m_isLastNodeCandidate' /\ m_candidate' = << >>
  BY DEF EndBootstrapPhase
<1>2. m_currWindow \in Seq(Header) /\ n \in Nat \ {0}
  BY <1>1, EmptySeq DEF WindowTypes
<1>3. \A i \in 1 .. n : m_currWindow[i] \in Header
  BY <1>2, ElementOfSeq
<1>4. /\ rest \in Seq(Header)
      /\ Len(rest) = n - 1
      /\ \A i \in 1 .. n - 1 : rest[i] = m_currWindow[i]
  <2>1. n - 1 \in Int /\ 1 \in Int /\ \A i \in 1 .. n - 1 : m_currWindow[i] \in Header
    BY <1>2, <1>3
  <2>2. /\ rest \in Seq(Header)
        /\ Len(rest) = IF 1 <= n - 1 THEN n - 1 - 1 + 1 ELSE 0
        /\ \A i \in 1 .. n - 1 - 1 + 1 : rest[i] = m_currWindow[1 + i - 1]
    BY <2>1, SubSeqProperties
  <2> HIDE DEF rest, n
  <2> QED
    BY <1>2, <2>2
<1>5. Append(rest, m_currWindow[n]) = m_currWindow
  <2> HIDE DEF rest
  <2>1. m_currWindow[n] \in Header
    BY <1>2, <1>3
  <2>2. /\ Append(rest, m_currWindow[n]) \in Seq(Header)
        /\ Len(Append(rest, m_currWindow[n])) = n
        /\ \A i \in 1 .. n - 1 : Append(rest, m_currWindow[n])[i] = rest[i]
        /\ Append(rest, m_currWindow[n])[n - 1 + 1] = m_currWindow[n]
    BY <1>2, <1>4, <2>1, AppendProperties
  <2>3. \A i \in 1 .. n : Append(rest, m_currWindow[n])[i] = m_currWindow[i]
    BY <1>2, <1>4, <2>2
  <2> QED
    BY <1>2, <2>2, <2>3, SeqEqual
<1>6. HasLastNode'
  BY <1>1, <1>2, <1>3, NoNodeAssumption DEF HasLastNode
<1>7. Checkpoint' = Append(rest, m_currWindow[n])
  BY <1>1, <1>6 DEF Checkpoint, IterateCurrWindow, WithLastNode, HasLastNode
<1>8. Checkpoint = m_currWindow
  BY <1>1 DEF Checkpoint, IterateCurrWindow, WithLastNode, HasLastNode
<1>9. Candidates = << >> /\ Candidates' = << >>
  BY <1>1 DEF Candidates, WithLastNode, HasLastNode
<1> QED
  BY <1>1, <1>5, <1>7, <1>8, <1>9 DEF CheckpointIsFull

-----------------------------------------------------------------------------
(* The windows and the report, by what a step does to the two windows.      *)

\* A header that extends the newest one becomes a candidate.
LEMMA KeepsWindows ==
    ASSUME WindowInv, WindowTypes, reported \in Seq(Header),
           NEW header \in Header, FollowsWindows(header),
           AddHeaderKeeps(header) \/ AddNodeKeeps(header),
           UNCHANGED <<reported, interrupted>>
    PROVE  WindowInv'
<1>1. Checkpoint \in Seq(Header) /\ Candidates \in Seq(Header)
  BY WindowsAreSeqs
<1>2. /\ Checkpoint' = Checkpoint /\ Candidates' = Append(Candidates, header)
      /\ CheckpointIsFull'
  BY KeepsEffect DEF WindowInv, WindowsAreChained, CheckpointIsFull
<1>3. /\ Chained(Candidates') /\ Rising(Candidates') /\ Candidates' # << >>
      /\ Candidates'[1] = IF Candidates = << >> THEN header ELSE Candidates[1]
  BY <1>1, <1>2, AppendIsChain DEF WindowInv, WindowsAreChained, FollowsWindows
<1>4. Meets(Checkpoint', Candidates')
  BY <1>2, <1>3 DEF WindowInv, WindowsAreChained, FollowsWindows, Meets
<1>5. WindowsAreChained'
  BY <1>2, <1>3, <1>4 DEF WindowInv, WindowsAreChained, CheckpointIsFull
<1>6. ReportedIsRising' /\ ReportedIsChained'
  BY <1>2 DEF WindowInv, ReportedIsRising, ReportedIsChained
<1> QED
  BY <1>5, <1>6 DEF WindowInv

\* A header that extends the newest one completes the window, and all of it is
\* reported, or less if a callback throws.
LEMMA CompletesWindows ==
    ASSUME WindowInv, WindowTypes, reported \in Seq(Header), ChkptSize >= 2,
           NEW header \in Header, FollowsWindows(header),
           AddHeaderCompletes(header) \/ AddNodeCompletes(header),
           NEW sec, NEW next, OnCheckpointComplete(sec, next)
    PROVE  WindowInv'
<1> DEFINE new == Append(Candidates, header)
<1>1. Checkpoint \in Seq(Header) /\ Candidates \in Seq(Header)
  BY WindowsAreSeqs
<1>2. Checkpoint' = new /\ Candidates' = << >> /\ CheckpointIsFull'
  BY CompletesEffect DEF WindowInv, WindowsAreChained, CheckpointIsFull
<1>3. /\ new \in Seq(Header) /\ Chained(new) /\ Rising(new) /\ new # << >>
      /\ new[1] = IF Candidates = << >> THEN header ELSE Candidates[1]
  BY <1>1, AppendIsChain DEF WindowInv, WindowsAreChained, FollowsWindows
<1> HIDE DEF new
<1>4. Checkpoint # << >> => Follows(Newest(Checkpoint), new[1])
  BY <1>3 DEF WindowInv, WindowsAreChained, FollowsWindows, Meets
<1>5. WindowsAreChained'
  <2>1. Chained(<< >>) /\ Rising(<< >>)
    BY EmptySeq DEF Chained, Rising
  <2> QED
    BY <1>2, <1>3, <2>1 DEF WindowsAreChained, CheckpointIsFull, Meets
<1>6. /\ new[1].number \in Nat
      /\ Newest(new).number \in Nat
      /\ reported # << >> => /\ Newest(reported).number \in Nat
                             /\ Newest(Checkpoint).number \in Nat
  BY <1>1, <1>3, ElementOfSeq, EmptySeq, HeaderAssumption
  DEF Newest, WindowInv, ReportedIsRising
<1>7. reported # << >> => Newest(reported).number < new[1].number
  BY <1>4, <1>6 DEF WindowInv, ReportedIsRising, Follows
<1>8. Rising(reported)
  BY DEF WindowInv, ReportedIsRising
<1>9. IterateCurrWindow' = new
  BY <1>2 DEF Checkpoint
<1>10. CASE reported' = reported \o IterateCurrWindow' /\ UNCHANGED interrupted
  <2>1. /\ Rising(reported')
        /\ reported' # << >> => Newest(reported') = Newest(new)
    BY <1>3, <1>7, <1>8, <1>9, <1>10, ConcatIsRising
  <2>2. ReportedIsRising'
    BY <1>2, <1>3, <1>6, <2>1 DEF ReportedIsRising
  <2>3. ReportedIsChained'
    <3> SUFFICES ASSUME ~interrupted PROVE ReportedIsChained'
      BY <1>10 DEF ReportedIsChained
    <3>1. /\ Chained(reported)
          /\ reported # << >> => new[1].parent = Newest(reported).hash
      BY <1>4 DEF WindowInv, ReportedIsRising, ReportedIsChained, Follows
    <3>2. Chained(reported')
      BY <1>3, <1>9, <1>10, <3>1, ConcatIsChained
    <3> QED
      BY <1>2, <2>1, <3>2 DEF ReportedIsChained
  <2> QED
    BY <1>5, <2>2, <2>3 DEF WindowInv
<1>11. CASE /\ \E k \in 0 .. Len(new) - 1 : reported' = reported \o SubSeq(new, 1, k)
            /\ interrupted'
  <2>1. PICK k \in 0 .. Len(new) : reported' = reported \o SubSeq(new, 1, k)
    <3>1. Len(new) \in Nat
      BY <1>3, LenProperties
    <3>2. 0 .. Len(new) - 1 \subseteq 0 .. Len(new)
      BY <3>1
    <3> QED
      BY <1>11, <3>2
  <2> DEFINE part == SubSeq(new, 1, k)
  <2>2. /\ part \in Seq(Header) /\ Rising(part)
        /\ part # << >> => /\ part[1] = new[1]
                           /\ Newest(part).number <= Newest(new).number
    BY <1>3, <2>1, PrefixIsChain
  <2> HIDE DEF part
  <2>3. /\ Rising(reported')
        /\ reported' # << >> =>
            /\ part = << >> => reported # << >> /\ Newest(reported') = Newest(reported)
            /\ part # << >> => Newest(reported') = Newest(part)
    BY <1>7, <1>8, <2>1, <2>2, ConcatIsRising DEF part
  <2>4. new[1].number <= Newest(new).number
    <3>1. Len(new) \in Nat /\ Len(new) > 0
      BY <1>3, EmptySeq
    <3> QED
      BY <1>3, <1>6, <3>1 DEF Rising, Newest
  <2>5. ReportedIsRising'
    <3>1. Checkpoint' # << >> /\ Newest(Checkpoint)' = Newest(new)
      BY <1>2, <1>3 DEF Newest
    <3>2. ASSUME reported' # << >>
          PROVE  Newest(reported').number <= Newest(new).number
      <4>1. CASE part = << >>
        <5>1. reported # << >> /\ Newest(reported') = Newest(reported)
          BY <2>3, <3>2, <4>1
        <5>2. Newest(reported).number < new[1].number
          BY <1>7, <5>1
        <5> QED
          BY <1>6, <2>4, <5>1, <5>2
      <4>2. CASE part # << >>
        BY <2>2, <2>3, <3>2, <4>2
      <4> QED
        BY <4>1, <4>2
    <3> QED
      BY <2>3, <3>1, <3>2 DEF ReportedIsRising, Newest
  <2>6. ReportedIsChained'
    BY <1>11 DEF ReportedIsChained
  <2> QED
    BY <1>5, <2>5, <2>6 DEF WindowInv
<1> QED
  BY <1>9, <1>10, <1>11 DEF OnCheckpointComplete

\* A step that leaves the two windows and the report as they are.
LEMMA SameWindows ==
    ASSUME WindowInv, Checkpoint' = Checkpoint, Candidates' = Candidates,
           CheckpointIsFull', UNCHANGED <<reported, interrupted>>
    PROVE  WindowInv'
  BY DEF WindowInv, WindowsAreChained, ReportedIsRising, ReportedIsChained,
         CheckpointIsFull

-----------------------------------------------------------------------------
(* The tree.                                                                *)

LEMMA ValidIsFollowing ==
    ASSUME NumbersDoNotWrap, NEW parent \in Header, NEW header \in Header,
           CommonValidate(parent, header)
    PROVE  Follows(parent, header)
<1>1. parent.number \in Nat /\ parent.number + 1 < Modulus /\ Modulus \in Nat
  BY HeaderAssumption, MonitorAssumption DEF NumbersDoNotWrap
<1>2. (parent.number + 1) % Modulus = parent.number + 1
  BY <1>1
<1> QED
  BY <1>1, <1>2 DEF CommonValidate, Follows

LEMMA AddChildKeepsTree ==
    ASSUME TreeInv, NumbersDoNotWrap, nextNode \in Nat \ {0},
           NodeTypes,
           NEW header \in Header, NEW seesSync \in BOOLEAN,
           UpdateOnRuntimeAddChild(header, seesSync)
    PROVE  TreeInv'
<1> DEFINE p == LookUp(header)
           counted == WithDescCounted(tree, p)
<1>1. /\ p \in DOMAIN tree
      /\ CommonValidate(tree[p].header, header)
      /\ tree' = AddChild(tree, p, nextNode, header)
      /\ nextNode' = nextNode + 1
      /\ UNCHANGED <<root, m_lastNode>>
  BY DEF UpdateOnRuntimeAddChild, UpdateOnRuntimeUnchanged, chkptVars
<1>2. \A n \in DOMAIN tree : /\ counted[n].header = tree[n].header
                             /\ counted[n].parent = tree[n].parent
  BY DEF WithDescCounted, NodeTypes
<1>3. Leaf(header, p).header = header /\ Leaf(header, p).parent = p
  BY DEF Leaf
<1>4. Follows(tree[p].header, header)
  BY <1>1, ValidIsFollowing DEF NodeTypes
<1>5. /\ DOMAIN tree' = DOMAIN tree \cup {nextNode}
      /\ \A n \in DOMAIN tree' : tree'[n] = IF n = nextNode THEN Leaf(header, p)
                                                            ELSE counted[n]
  BY <1>1 DEF AddChild
<1>6. /\ nextNode \notin DOMAIN tree
      /\ \A n \in DOMAIN tree : n # nextNode /\ tree[n].parent # nextNode
  BY MonitorAssumption DEF TreeInv
<1> HIDE DEF p, counted
<1>7. /\ tree'[nextNode].header = header /\ tree'[nextNode].parent = p
      /\ \A n \in DOMAIN tree : /\ tree'[n].header = tree[n].header
                                /\ tree'[n].parent = tree[n].parent
  BY <1>2, <1>3, <1>5, <1>6
<1>8. ASSUME NEW n \in DOMAIN tree'
      PROVE  /\ n \in 1 .. nextNode' - 1
             /\ tree'[n].parent \in 1 .. nextNode' - 1 \cup {NoNode}
             /\ tree'[n].parent \in DOMAIN tree' =>
                    Follows(tree'[tree'[n].parent].header, tree'[n].header)
             /\ tree'[n].parent = root' => Follows(m_lastNode', tree'[n].header)
  <2>1. CASE n = nextNode
    <3>1. p \in 1 .. nextNode - 1
      BY <1>1 DEF TreeInv
    <3>2. p = root => tree[p].header = m_lastNode
      BY <1>1 DEF TreeInv
    <3> QED
      BY <1>1, <1>4, <1>7, <2>1, <3>1, <3>2
  <2>2. CASE n \in DOMAIN tree
    <3>1. /\ n \in 1 .. nextNode - 1
          /\ tree[n].parent \in 1 .. nextNode - 1 \cup {NoNode}
          /\ tree[n].parent \in DOMAIN tree =>
                Follows(tree[tree[n].parent].header, tree[n].header)
          /\ tree[n].parent = root => Follows(m_lastNode, tree[n].header)
      BY <2>2 DEF TreeInv
    <3>2. tree'[n].header = tree[n].header /\ tree'[n].parent = tree[n].parent
      BY <1>7, <2>2
    <3>3. tree[n].parent \in DOMAIN tree' => tree[n].parent \in DOMAIN tree
      BY <1>5, <1>6, <2>2
    <3> QED
      BY <1>1, <1>7, <3>1, <3>2, <3>3
  <2> QED
    BY <1>5, <2>1, <2>2
<1>9. root' \in DOMAIN tree' => tree'[root'].header = m_lastNode'
  BY <1>1, <1>5, <1>7, MonitorAssumption DEF TreeInv
<1>10. /\ root' \in 1 .. nextNode' - 1 \cup {NoNode}
       /\ root' # NoNode => HasLastNode'
       /\ ~HasLastNode' => DOMAIN tree' = {}
  BY <1>1 DEF TreeInv, HasLastNode
<1> QED
  BY <1>8, <1>9, <1>10 DEF TreeInv

LEMMA EndBootstrapIKeepsTree ==
    ASSUME TreeInv, WindowTypes, nextNode \in Nat \ {0}, EndBootstrapI
    PROVE  TreeInv'
<1>1. /\ ~HasLastNode /\ m_currWindow # << >>
      /\ m_lastNode' = m_currWindow[Len(m_currWindow)]
      /\ tree' = [n \in DOMAIN tree \cup {nextNode} |->
                      IF n = nextNode THEN Leaf(m_lastNode', NoNode) ELSE tree[n]]
      /\ root' = nextNode /\ nextNode' = nextNode + 1
  BY DEF EndBootstrapI, EndBootstrapPhase
<1>2. m_lastNode' \in Header
  <2>1. Len(m_currWindow) \in Nat \ {0}
    BY <1>1, EmptySeq DEF WindowTypes
  <2> QED
    BY <1>1, <2>1, ElementOfSeq DEF WindowTypes
<1>3. DOMAIN tree = {}
  BY <1>1 DEF TreeInv
<1>4. /\ DOMAIN tree' = {nextNode}
      /\ tree'[nextNode].header = m_lastNode' /\ tree'[nextNode].parent = NoNode
  BY <1>1, <1>3 DEF Leaf
<1>5. NoNode # nextNode /\ HasLastNode'
  BY <1>2, MonitorAssumption, NoNodeAssumption DEF HasLastNode
<1> QED
  BY <1>1, <1>4, <1>5 DEF TreeInv

\* The confirmed child extends the header confirmed last.
LEMMA ConfirmKeepsTree ==
    ASSUME TreeInv, nextNode \in Nat \ {0}, DOMAIN tree \subseteq Nat,
           NodeTypes,
           ConfirmChild,
           NEW child, child = ChildHasNDesc(tree, root, ChkptSize)
    PROVE  /\ TreeInv'
           /\ HasLastNode
           /\ tree[child].header \in Header
           /\ Follows(m_lastNode, tree[child].header)
<1> DEFINE header == tree[child].header
<1>1. /\ child # NoNode /\ root # NoNode
      /\ tree' = ReleaseChild(tree, child)
      /\ root' = child /\ nextNode' = nextNode
      /\ m_lastNode' = header
  BY DEF ConfirmChild, AddNodeKeeps, AddNodeCompletes
<1>2. child \in Children(tree, root)
  BY <1>1, ConfirmableIsChild
<1>3. child \in DOMAIN tree /\ tree[child].parent = root
  BY <1>2 DEF Children
<1>4. /\ HasLastNode
      /\ header \in Header
      /\ Follows(m_lastNode, header)
      /\ HasLastNode'
  BY <1>1, <1>3, NoNodeAssumption DEF TreeInv, HasLastNode, NodeTypes
<1>5. /\ DOMAIN tree' \subseteq DOMAIN tree
      /\ \A n \in DOMAIN tree' :
            tree'[n] = IF n = child THEN [tree[n] EXCEPT !.parent = NoNode] ELSE tree[n]
  BY <1>1 DEF ReleaseChild, Subtree
<1>6. \A n \in DOMAIN tree' :
        /\ tree'[n].header = tree[n].header
        /\ tree'[n].parent = IF n = child THEN NoNode ELSE tree[n].parent
  BY <1>5 DEF NodeTypes
<1>7. NoNode \notin DOMAIN tree /\ NoNode # child
  BY <1>3, MonitorAssumption
<1>8. ASSUME NEW n \in DOMAIN tree'
      PROVE  /\ n \in 1 .. nextNode' - 1
             /\ tree'[n].parent \in 1 .. nextNode' - 1 \cup {NoNode}
             /\ tree'[n].parent \in DOMAIN tree' =>
                    Follows(tree'[tree'[n].parent].header, tree'[n].header)
             /\ tree'[n].parent = root' => Follows(m_lastNode', tree'[n].header)
  <2>1. n \in DOMAIN tree
    BY <1>5
  <2>2. n \in 1 .. nextNode' - 1 /\ tree'[n].parent \in 1 .. nextNode' - 1 \cup {NoNode}
    BY <1>1, <1>6, <2>1 DEF TreeInv
  <2>3. CASE n = child
    BY <1>1, <1>5, <1>6, <1>7, <2>2, <2>3
  <2>4. CASE n # child
    <3>1. tree'[n].header = tree[n].header /\ tree'[n].parent = tree[n].parent
      BY <1>6, <2>4
    <3>2. tree[n].parent \in DOMAIN tree =>
                Follows(tree[tree[n].parent].header, tree[n].header)
      BY <2>1 DEF TreeInv
    <3> QED
      BY <1>1, <1>3, <1>5, <1>6, <2>2, <3>1, <3>2
  <2> QED
    BY <2>3, <2>4
<1>9. root' \in DOMAIN tree' => tree'[root'].header = m_lastNode'
  BY <1>1, <1>6
<1>10. root' \in 1 .. nextNode' - 1 \cup {NoNode}
  BY <1>1, <1>3 DEF TreeInv
<1>11. TreeInv'
  BY <1>4, <1>8, <1>9, <1>10 DEF TreeInv
<1> QED
  BY <1>4, <1>11

-----------------------------------------------------------------------------
(* The steps of the monitor.                                                *)

\* Steps that touch neither the tree, nor the windows, nor the report.
LEMMA OthersKeepChain ==
    ASSUME ChainInv, UNCHANGED <<chkptVars, treeVars, reported, interrupted>>
    PROVE  ChainInv'
<1>1. UNCHANGED <<m_currWindow, m_candidate, m_lastNode, m_isLastNodeCandidate,
                  tree, root, nextNode, reported, interrupted>>
  BY DEF chkptVars, treeVars
<1>2. /\ Checkpoint' = Checkpoint /\ Candidates' = Candidates
      /\ HasLastNode' = HasLastNode
  BY <1>1 DEF Checkpoint, Candidates, IterateCurrWindow, WithLastNode, HasLastNode
<1>3. WindowInv'
  BY <1>1, <1>2, SameWindows
  DEF ChainInv, CheckpointIsFull, WindowInv, WindowsAreChained
<1>4. TreeInv'
  BY <1>1, <1>2 DEF ChainInv, TreeInv
<1> QED
  BY <1>3, <1>4 DEF ChainInv

LEMMA BootstrapIKeepsChain ==
    ASSUME ChainInv, WindowTypes, reported \in Seq(Header), ChkptSize >= 2,
           NumbersDoNotWrap,
           NEW header \in Header, UpdateOnBootstrapI(header)
    PROVE  ChainInv'
<1>1. /\ ~HasLastNode
      /\ UNCHANGED <<tree, root, nextNode, m_lastNode>>
      /\ ~IsEmpty => CommonValidate(GetLastHeader, header)
  BY DEF UpdateOnBootstrapI, BootstrapIUnchanged, treeVars, ValidInBootstrapI,
         AddHeaderKeeps, AddHeaderCompletes
<1>2. Checkpoint = m_currWindow /\ Candidates = m_candidate
  BY <1>1 DEF Checkpoint, Candidates, IterateCurrWindow, WithLastNode
<1>3. FollowsWindows(header)
  <2>1. ASSUME m_candidate # << >> PROVE Follows(Newest(m_candidate), header)
    <3>1. ~IsEmpty /\ GetLastHeader = Newest(m_candidate)
      BY <1>1, <2>1 DEF IsEmpty, GetLastHeader, Newest
    <3>2. Newest(m_candidate) \in Header
      BY <2>1, EmptySeq, ElementOfSeq DEF WindowTypes, Newest
    <3> QED
      BY <1>1, <3>1, <3>2, ValidIsFollowing
  <2>2. ASSUME m_candidate = << >>, m_currWindow # << >>
        PROVE  Follows(Newest(m_currWindow), header)
    <3>1. ~IsEmpty /\ GetLastHeader = Newest(m_currWindow)
      BY <1>1, <2>2 DEF IsEmpty, GetLastHeader, Newest
    <3>2. Newest(m_currWindow) \in Header
      BY <2>2, EmptySeq, ElementOfSeq DEF WindowTypes, Newest
    <3> QED
      BY <1>1, <3>1, <3>2, ValidIsFollowing
  <2> QED
    BY <1>2, <2>1, <2>2 DEF FollowsWindows
<1>4. TreeInv'
  BY <1>1 DEF ChainInv, TreeInv, HasLastNode
<1>5. CASE AddHeaderKeeps(header) /\ NoCheckpoint(SecStateWith(header), "phaseChange")
  BY <1>3, <1>4, <1>5, KeepsWindows DEF ChainInv, NoCheckpoint
<1>6. CASE /\ AddHeaderCompletes(header)
           /\ OnCheckpointComplete(SecStateWith(header), "phaseChange")
  BY <1>3, <1>4, <1>6, CompletesWindows DEF ChainInv
<1> QED
  BY <1>5, <1>6 DEF UpdateOnBootstrapI

LEMMA ConfirmKeepsChain ==
    ASSUME ChainInv, WindowTypes, reported \in Seq(Header), ChkptSize >= 2,
           nextNode \in Nat \ {0}, DOMAIN tree \subseteq Nat,
           NodeTypes,
           ConfirmChild
    PROVE  ChainInv'
<1>1. PICK child : child = ChildHasNDesc(tree, root, ChkptSize)
  OBVIOUS
<1> DEFINE header == tree[child].header
<1>2. /\ TreeInv' /\ HasLastNode
      /\ header \in Header /\ Follows(m_lastNode, header)
  BY <1>1, ConfirmKeepsTree DEF ChainInv
<1> HIDE DEF header
<1>3. FollowsWindows(header)
  <2>1. ASSUME NEW s \in Seq(Header), m_lastNode \in Header
        PROVE  Newest(Append(s, m_lastNode)) = m_lastNode
    BY <2>1, AppendProperties, LenProperties DEF Newest
  <2>2. m_lastNode \in Header
    BY <1>2 DEF WindowTypes, HasLastNode
  <2>3. CASE m_isLastNodeCandidate
    <3>1. Candidates = Append(m_candidate, m_lastNode) /\ m_candidate \in Seq(Header)
      BY <1>2, <2>3 DEF Candidates, WithLastNode, WindowTypes
    <3>2. Candidates # << >> /\ Newest(Candidates) = m_lastNode
      BY <2>1, <2>2, <3>1, AppendProperties
    <3> QED
      BY <1>2, <3>2 DEF FollowsWindows
  <2>4. CASE ~m_isLastNodeCandidate
    <3>1. Candidates = << >>
      BY <1>2, <2>4 DEF Candidates, ChainInv, WindowInv, WindowsAreChained
    <3>2. Checkpoint = Append(m_currWindow, m_lastNode) /\ m_currWindow \in Seq(Header)
      BY <1>2, <2>4 DEF Checkpoint, IterateCurrWindow, WithLastNode, WindowTypes
    <3>3. Newest(Checkpoint) = m_lastNode
      BY <2>1, <2>2, <3>2
    <3> QED
      BY <1>2, <3>1, <3>3 DEF FollowsWindows
  <2> QED
    BY <2>3, <2>4
<1>4. CASE AddNodeKeeps(header) /\ NoCheckpoint(secState, "expire")
  BY <1>2, <1>3, <1>4, KeepsWindows DEF ChainInv, NoCheckpoint
<1>5. CASE AddNodeCompletes(header) /\ OnCheckpointComplete(secState, "expire")
  BY <1>2, <1>3, <1>5, CompletesWindows DEF ChainInv
<1> QED
  BY <1>1, <1>4, <1>5 DEF ConfirmChild, header

LEMMA EndBootstrapIKeepsChain ==
    ASSUME ChainInv, WindowTypes, nextNode \in Nat \ {0}, EndBootstrapI
    PROVE  ChainInv'
<1>1. TreeInv'
  BY EndBootstrapIKeepsTree DEF ChainInv
<1>2. /\ Checkpoint' = Checkpoint /\ Candidates' = Candidates
      /\ CheckpointIsFull'
  BY EndBootstrapEffect
  DEF EndBootstrapI, ChainInv, WindowInv, WindowsAreChained, CheckpointIsFull
<1>3. WindowInv'
  BY <1>2, SameWindows DEF EndBootstrapI, histVars, ChainInv
<1> QED
  BY <1>1, <1>3 DEF ChainInv

LEMMA AddChildKeepsChain ==
    ASSUME ChainInv, NumbersDoNotWrap, nextNode \in Nat \ {0},
           NodeTypes,
           NEW header \in Header, NEW seesSync \in BOOLEAN,
           UpdateOnRuntimeAddChild(header, seesSync)
    PROVE  ChainInv'
<1>1. TreeInv'
  BY AddChildKeepsTree DEF ChainInv
<1>2. UNCHANGED <<m_currWindow, m_candidate, m_lastNode, m_isLastNodeCandidate,
                  reported, interrupted>>
  BY DEF UpdateOnRuntimeAddChild, UpdateOnRuntimeUnchanged, chkptVars
<1>3. /\ Checkpoint' = Checkpoint /\ Candidates' = Candidates
      /\ HasLastNode' = HasLastNode
  BY <1>2 DEF Checkpoint, Candidates, IterateCurrWindow, WithLastNode, HasLastNode
<1>4. WindowInv'
  BY <1>2, <1>3, SameWindows
  DEF ChainInv, CheckpointIsFull, WindowInv, WindowsAreChained
<1> QED
  BY <1>1, <1>4 DEF ChainInv

LEMMA StepsKeepChain ==
    ASSUME ChkptSize >= 2, NumbersDoNotWrap, ChainInv, ValidInv,
           validated \subseteq Header, [Next]_vars
    PROVE  ChainInv'
<1>1. /\ WindowTypes /\ NodeTypes /\ reported \in Seq(Header)
      /\ nextNode \in Nat \ {0} /\ DOMAIN tree \subseteq Nat
  BY KeptAreHeaders
<1>2. ASSUME NEW header \in Header, Update(header) PROVE ChainInv'
  <2>1. CASE UpdateOnBootstrapI(header)
    BY <1>1, <2>1, BootstrapIKeepsChain
  <2>2. CASE \E seesSync \in BOOLEAN : UpdateOnRuntimeAddChild(header, seesSync)
    BY <1>1, <2>2, AddChildKeepsChain
  <2>3. CASE \/ UpdateOnBootstrapIThrows(header) \/ UpdateOnRuntimeRejects(header)
             \/ UpdateOnRuntimeDangles(header)
    BY <2>3, OthersKeepChain
    DEF UpdateOnBootstrapIThrows, NoCheckpoint, BootstrapIUnchanged,
        UpdateOnRuntimeRejects, UpdateOnRuntimeDangles,
        UpdateOnRuntimeUnchanged, Undefined, treeVars, histVars
  <2> QED
    BY <1>2, <2>1, <2>2, <2>3 DEF Update
<1>3. CASE PhaseChangeCheck
  <2>1. CASE EndBootstrapI
    BY <1>1, <2>1, EndBootstrapIKeepsChain
  <2>2. CASE RefreshSyncMsg \/ SamePhase
    BY <2>2, OthersKeepChain DEF RefreshSyncMsg, SamePhase, histVars
  <2> QED
    BY <1>3, <2>1, <2>2 DEF PhaseChangeCheck, PhaseChangeThrows
<1>4. CASE RuntimeMaintenance
  <2>1. CASE ConfirmChild
    BY <1>1, <2>1, ConfirmKeepsChain
  <2>2. CASE \/ MaintenanceThrows \/ NothingToConfirm \/ ExpireDangles
             \/ ExpireActiveNodes \/ ExpireFails
    BY <2>2, OthersKeepChain
    DEF MaintenanceThrows, NothingToConfirm, ExpireDangles, ExpireActiveNodes,
        ExpireFails, SamePhase, Undefined, histVars
  <2> QED
    BY <1>4, <2>1, <2>2 DEF RuntimeMaintenance
<1>5. CASE UserEndsBootstrapI
  BY <1>1, <1>5, EndBootstrapIKeepsChain DEF UserEndsBootstrapI
<1>6. CASE UserRefreshesPlan \/ UserRefreshesSync \/ UserEndsSync \/ SyncMessage
  BY <1>6, OthersKeepChain
  DEF UserRefreshesPlan, RefreshBootstrapPlan, UserRefreshesSync,
      RefreshSyncMsg, UserEndsSync, SyncMessage, histVars
<1>7. CASE UNCHANGED vars
  BY <1>7, OthersKeepChain DEF vars, histVars
<1> QED
  BY <1>2, <1>3, <1>4, <1>5, <1>6, <1>7 DEF Next

LEMMA ChainInit == ASSUME Init PROVE ChainInv
<1>1. /\ m_currWindow = << >> /\ m_candidate = << >> /\ ~HasLastNode
      /\ reported = << >> /\ DOMAIN tree = {} /\ root = NoNode
  BY DEF Init, CheckpointInit, HasLastNode
<1>2. Checkpoint = << >> /\ Candidates = << >>
  BY <1>1 DEF Checkpoint, Candidates, IterateCurrWindow, WithLastNode
<1>3. Chained(<< >>) /\ Rising(<< >>)
  BY EmptySeq DEF Chained, Rising
<1>4. WindowInv
  BY <1>1, <1>2, <1>3 DEF WindowInv, WindowsAreChained, Meets, ReportedIsRising,
                          ReportedIsChained
<1>5. TreeInv
  BY <1>1 DEF TreeInv
<1> QED
  BY <1>4, <1>5 DEF ChainInv

\* EclipseMonitor::Update and CheckpointMgr: whatever forks are delivered, in
\* whatever order and however often, the calls of onHeaderConfirmed follow one
\* chain of parent hashes, upwards and without a repetition; a callback that
\* throws may only leave a gap.  It takes checkpoints of at least two headers,
\* and numbers that do not wrap around.
THEOREM OneChainIsReported ==
    ASSUME ChkptSize >= 2, NumbersDoNotWrap
    PROVE  Spec => []ReportedIsChain
<1>1. Init => ChainInv
  BY ChainInit
<1>2. ChainInv /\ ValidInv /\ validated \subseteq Header /\ [Next]_vars => ChainInv'
  BY StepsKeepChain
<1>3. ChainInv /\ ValidInv /\ validated \subseteq Header => ReportedIsChain
  <2> SUFFICES ASSUME ChainInv, ValidInv, validated \subseteq Header
               PROVE  ReportedIsChain
    OBVIOUS
  <2>1. reported \in Seq(Header) /\ Len(reported) \in Nat
    BY KeptAreHeaders, LenProperties
  <2>2. Rising(reported) /\ (~interrupted => Chained(reported))
    BY DEF ChainInv, WindowInv, ReportedIsRising, ReportedIsChained
  <2> QED
    BY <2>1, <2>2 DEF ReportedIsChain, Rising, Chained
<1> QED
  BY <1>1, <1>2, <1>3, ValidInvariance, ValidatedAreHeaders, PTL DEF Spec

-----------------------------------------------------------------------------
(***************************************************************************)
(* A plan that is made for the chain that is fed ends Bootstrap I between   *)
(* two windows.                                                             *)
(*                                                                          *)
(* CalcBootstrapIEndBlkNum ends it a number of windows after the planned    *)
(* start, and the headers kept are numbered from FirstFed, which is also a  *)
(* number of windows away from it; the candidates, fewer than a window, are *)
(* what is left over.                                                       *)
(***************************************************************************)

\* In Bootstrap I the headers kept are numbered without a gap, the first
\* window is whole, and PhaseChangeCheck is called with the number of the last.
KeptAreNumbered ==
    /\ \A i \in 1 .. Len(m_currWindow) : m_currWindow[i].number = FirstFed + i - 1
    /\ \A i \in 1 .. Len(m_candidate) :
            m_candidate[i].number = FirstFed + Len(m_currWindow) + i - 1

BootInv ==
    m_phase = "BootstrapI" =>
        /\ ~HasLastNode
        /\ Len(m_currWindow) \in {0, ChkptSize}
        /\ Len(m_candidate) < ChkptSize
        /\ KeptAreNumbered
        /\ pc # "confirm"
        /\ pc = "phaseChange" =>
            /\ ~IsEmpty
            /\ currBlkNum = FirstFed + Len(m_currWindow) + Len(m_candidate) - 1

-----------------------------------------------------------------------------
(* Multiples of the size of a window.                                       *)

LEMMA IsMultiple ==
    ASSUME NEW d \in Int, d % ChkptSize = 0
    PROVE  \E q \in Int : d = ChkptSize * q
<1>1. ChkptSize \in Int /\ ChkptSize > 0
  BY ChkptSizeAssumption
<1> DEFINE q == d \div ChkptSize
<1>2. q \in Int /\ d = ChkptSize * q
  BY <1>1
<1> HIDE DEF q
<1> QED
  BY <1>2

LEMMA LessThanOnce ==
    ASSUME NEW d \in Nat, d < ChkptSize, NEW q \in Int, d = ChkptSize * q
    PROVE  d = 0
<1>1. q <= 0
  <2> SUFFICES ASSUME q >= 1 PROVE FALSE
    OBVIOUS
  <2>1. ChkptSize * q >= ChkptSize
    BY ChkptSizeAssumption
  <2> QED
    BY <2>1, ChkptSizeAssumption
<1>2. q >= 0
  <2> SUFFICES ASSUME q <= -1 PROVE FALSE
    OBVIOUS
  <2>1. ChkptSize * q <= -ChkptSize
    BY ChkptSizeAssumption
  <2> QED
    BY <2>1, ChkptSizeAssumption
<1> QED
  BY <1>1, <1>2, ChkptSizeAssumption

\* The planned end is the last block before a window, or none.
LEMMA EndOfWindows ==
    ASSUME NEW latest \in BlockNums, NEW start \in BlockNums, start <= latest + 1
    PROVE  \/ CalcBootstrapIEndBlkNum(latest, start) = Modulus - 1
           \/ \E k \in Nat :
                CalcBootstrapIEndBlkNum(latest, start) = start + k * ChkptSize - 1
<1> DEFINE n == (latest - start + 1) % Modulus
           q == n \div ChkptSize
           k == IF q > 2 THEN q - 2 ELSE 0
           end == start + k * ChkptSize - 1
<1>1. /\ Modulus \in Nat \ {0} /\ ChkptSize \in Nat \ {0}
      /\ latest \in 0 .. Modulus - 1 /\ start \in 0 .. Modulus - 1
  BY ChkptSizeAssumption, MonitorAssumption DEF BlockNums
<1>2. n \in Nat /\ n <= latest - start + 1
  <2>1. latest - start + 1 \in 0 .. Modulus
    BY <1>1
  <2>2. CASE latest - start + 1 < Modulus
    BY <1>1, <2>1, <2>2
  <2>3. CASE latest - start + 1 = Modulus
    BY <1>1, <2>3
  <2> QED
    BY <1>1, <2>1, <2>2, <2>3
<1> HIDE DEF n
<1>3. q \in Nat /\ q * ChkptSize <= n
  BY <1>1, <1>2
<1> HIDE DEF q
<1>4. k \in Nat /\ k <= q
  BY <1>3
<1>5. k * ChkptSize \in Nat /\ k * ChkptSize <= q * ChkptSize
  BY <1>1, <1>3, <1>4
<1>6. CalcBootstrapIEndBlkNum(latest, start) = end % Modulus
  BY DEF CalcBootstrapIEndBlkNum, n, q
<1> HIDE DEF k
<1>7. end \in -1 .. Modulus - 1
  BY <1>1, <1>2, <1>3, <1>5
<1>8. CASE end = -1
  BY <1>1, <1>6, <1>8
<1>9. CASE end \in 0 .. Modulus - 1
  BY <1>1, <1>4, <1>6, <1>9
<1> QED
  BY <1>7, <1>8, <1>9

LEMMA SuccessorNumber ==
    ASSUME NumbersDoNotWrap, NEW parent \in Header, NEW header,
           CommonValidate(parent, header)
    PROVE  header.number = parent.number + 1
<1>1. parent.number \in Nat /\ parent.number + 1 < Modulus /\ Modulus \in Nat
  BY HeaderAssumption, MonitorAssumption DEF NumbersDoNotWrap
<1>2. (parent.number + 1) % Modulus = parent.number + 1
  BY <1>1
<1> QED
  BY <1>2 DEF CommonValidate

-----------------------------------------------------------------------------
(* The steps.                                                               *)

LEMMA OthersKeepBoot ==
    ASSUME BootInv,
           \/ m_phase' # "BootstrapI"
           \/ /\ m_phase' = m_phase
              /\ UNCHANGED chkptVars
              /\ pc' = "confirm" => pc = "confirm"
              /\ pc' = "phaseChange" => pc = "phaseChange" /\ currBlkNum' = currBlkNum
    PROVE  BootInv'
  BY DEF BootInv, KeptAreNumbered, FirstFed, IsEmpty, HasLastNode, chkptVars

\* A header is added only with the number after the newest.
LEMMA BootstrapIKeepsBoot ==
    ASSUME BootInv, WindowTypes, NumbersDoNotWrap,
           NEW header \in Header, UpdateOnBootstrapI(header)
    PROVE  BootInv'
<1> DEFINE w == Len(m_currWindow)
           c == Len(m_candidate)
           first == IF IsEmpty THEN header.number ELSE FirstFed
<1>1. /\ m_phase = "BootstrapI" /\ m_phase' = "BootstrapI"
      /\ ~HasLastNode /\ m_lastNode' = m_lastNode
      /\ ~IsEmpty => CommonValidate(GetLastHeader, header)
      /\ pc' = "phaseChange" => currBlkNum' = header.number
      /\ pc' \in {"idle", "phaseChange"}
  BY DEF UpdateOnBootstrapI, BootstrapIUnchanged, ValidInBootstrapI,
         AddHeaderKeeps, AddHeaderCompletes, NoCheckpoint, OnCheckpointComplete
<1>2. /\ m_currWindow \in Seq(Header) /\ m_candidate \in Seq(Header)
      /\ w \in Nat /\ c \in Nat /\ w \in {0, ChkptSize} /\ c < ChkptSize
      /\ KeptAreNumbered
  BY <1>1, LenProperties DEF WindowTypes, BootInv
<1>3. first \in Nat /\ header.number = first + w + c
  <2>1. CASE IsEmpty
    BY <2>1, <1>2, HeaderAssumption DEF IsEmpty
  <2>2. CASE ~IsEmpty
    <3>1. GetLastHeader \in Header /\ FirstFed \in Nat
      BY <1>1, <1>2, <2>2, EmptySeq, ElementOfSeq, HeaderAssumption
      DEF GetLastHeader, IsEmpty, FirstFed
    <3>2. GetLastHeader.number = FirstFed + w + c - 1
      <4>1. CASE m_candidate # << >>
        BY <1>1, <1>2, <4>1, EmptySeq DEF GetLastHeader, KeptAreNumbered
      <4>2. CASE m_candidate = << >>
        <5>1. m_currWindow # << >> /\ c = 0
          BY <1>1, <2>2, <4>2, EmptySeq DEF IsEmpty
        <5>2. GetLastHeader = m_currWindow[w]
          BY <1>1, <4>2 DEF GetLastHeader
        <5>3. w \in 1 .. w
          BY <1>2, <5>1, EmptySeq
        <5>4. m_currWindow[w].number = FirstFed + w - 1
          BY <1>2, <5>3 DEF KeptAreNumbered
        <5> QED
          BY <1>2, <3>1, <5>1, <5>2, <5>4
      <4> QED
        BY <4>1, <4>2
    <3>3. header.number = GetLastHeader.number + 1
      BY <1>1, <2>2, <3>1, SuccessorNumber
    <3> QED
      BY <1>2, <2>2, <3>1, <3>2, <3>3
  <2> QED
    BY <2>1, <2>2
<1>4. /\ \A i \in 1 .. w : m_currWindow[i].number = first + i - 1
      /\ \A i \in 1 .. c : m_candidate[i].number = first + w + i - 1
  BY <1>2, EmptySeq DEF KeptAreNumbered, IsEmpty
<1> HIDE DEF first
<1> DEFINE added == Append(m_candidate, header)
<1>5. /\ added \in Seq(Header) /\ Len(added) = c + 1
      /\ \A i \in 1 .. c + 1 : added[i].number = first + w + i - 1
  <2>1. /\ added \in Seq(Header) /\ Len(added) = c + 1
        /\ \A i \in 1 .. c : added[i] = m_candidate[i]
        /\ added[c + 1] = header
    BY <1>2, AppendProperties
  <2> HIDE DEF added
  <2>2. ASSUME NEW i \in 1 .. c + 1 PROVE added[i].number = first + w + i - 1
    <3>1. CASE i \in 1 .. c
      BY <1>4, <2>1, <3>1
    <3>2. CASE i = c + 1
      BY <1>2, <1>3, <2>1, <3>2
    <3> QED
      BY <1>2, <3>1, <3>2
  <2> QED
    BY <2>1, <2>2
<1> HIDE DEF added
<1>6. CASE AddHeaderKeeps(header)
  <2>1. m_candidate' = added /\ m_currWindow' = m_currWindow /\ c + 1 < ChkptSize
    BY <1>6 DEF AddHeaderKeeps, added
  <2>2. ~IsEmpty'
    BY <1>2, <1>5, <2>1, EmptySeq DEF IsEmpty
  <2>3. FirstFed' = first
    <3>1. CASE m_currWindow # << >>
      <4>1. FirstFed' = m_currWindow[1].number
        BY <2>1, <3>1 DEF FirstFed
      <4>2. 1 \in 1 .. w
        BY <1>2, <3>1, EmptySeq
      <4>3. m_currWindow[1].number = first + 1 - 1
        BY <1>4, <4>2
      <4> QED
        BY <1>3, <4>1, <4>3
    <3>2. CASE m_currWindow = << >>
      BY <1>2, <1>3, <1>5, <2>1, <3>2, EmptySeq DEF FirstFed
    <3> QED
      BY <3>1, <3>2
  <2>4. KeptAreNumbered'
    BY <1>2, <1>4, <1>5, <2>1, <2>3 DEF KeptAreNumbered
  <2>5. pc' = "phaseChange" =>
            currBlkNum' = FirstFed' + Len(m_currWindow') + Len(m_candidate') - 1
    <3>1. Len(m_currWindow') = w /\ Len(m_candidate') = c + 1
      BY <1>5, <2>1
    <3>2. first + w + c = FirstFed' + w + (c + 1) - 1
      BY <1>2, <1>3, <2>3
    <3> QED
      BY <1>1, <1>3, <3>1, <3>2
  <2> QED
    BY <1>1, <1>2, <1>5, <2>1, <2>2, <2>4, <2>5 DEF BootInv, HasLastNode
<1>7. CASE AddHeaderCompletes(header)
  <2>1. m_currWindow' = added /\ m_candidate' = << >> /\ c + 1 >= ChkptSize
    BY <1>7 DEF AddHeaderCompletes, added
  <2>2. m_currWindow' # << >> /\ ~IsEmpty'
    BY <1>2, <1>5, <2>1, EmptySeq DEF IsEmpty
  <2>3. FirstFed' = first + w
    BY <1>2, <1>3, <1>5, <2>1, <2>2 DEF FirstFed
  <2>4. Len(m_currWindow') = ChkptSize /\ Len(m_candidate') = 0
    BY <1>2, <1>5, <2>1, EmptySeq, ChkptSizeAssumption
  <2>5. KeptAreNumbered'
    BY <1>2, <1>3, <1>5, <2>1, <2>3, <2>4 DEF KeptAreNumbered
  <2>6. pc' = "phaseChange" =>
            currBlkNum' = FirstFed' + Len(m_currWindow') + Len(m_candidate') - 1
    <3>1. first + w + c = FirstFed' + ChkptSize + 0 - 1
      BY <1>2, <1>3, <2>1, <2>3, ChkptSizeAssumption
    <3> QED
      BY <1>1, <1>3, <2>4, <3>1
  <2> QED
    BY <1>1, <2>2, <2>4, <2>5, <2>6, ChkptSizeAssumption DEF BootInv, HasLastNode
<1> QED
  BY <1>6, <1>7 DEF UpdateOnBootstrapI

LEMMA StepsKeepBoot ==
    ASSUME BootInv, WindowTypes, NumbersDoNotWrap, [Next]_vars
    PROVE  BootInv'
<1> USE DEF planVars, treeVars, mapVars, histVars
<1>1. ASSUME NEW header \in Header, Update(header) PROVE BootInv'
  <2>1. CASE UpdateOnBootstrapI(header)
    BY <2>1, BootstrapIKeepsBoot
  <2>2. CASE UpdateOnBootstrapIThrows(header)
    BY <2>2, OthersKeepBoot
    DEF UpdateOnBootstrapIThrows, NoCheckpoint, BootstrapIUnchanged
  <2>3. CASE \/ UpdateOnRuntimeRejects(header)
             \/ \E seesSync \in BOOLEAN : UpdateOnRuntimeAddChild(header, seesSync)
    BY <2>3, OthersKeepBoot
    DEF UpdateOnRuntimeRejects, UpdateOnRuntimeAddChild, UpdateOnRuntimeUnchanged,
        RuntimePhase
  <2>4. CASE UpdateOnRuntimeDangles(header)
    BY <2>4, OthersKeepBoot DEF UpdateOnRuntimeDangles, Undefined
  <2> QED
    BY <1>1, <2>1, <2>2, <2>3, <2>4 DEF Update
<1>2. CASE PhaseChangeCheck
  BY <1>2, OthersKeepBoot
  DEF PhaseChangeCheck, PhaseChangeThrows, EndBootstrapI, RefreshSyncMsg, SamePhase,
      RuntimePhase
<1>3. CASE RuntimeMaintenance
  <2>1. CASE ConfirmChild
    BY <2>1, OthersKeepBoot DEF ConfirmChild, BootInv
  <2>2. CASE \/ MaintenanceThrows \/ NothingToConfirm \/ ExpireDangles
             \/ ExpireActiveNodes \/ ExpireFails
    BY <2>2, OthersKeepBoot
    DEF MaintenanceThrows, NothingToConfirm, ExpireDangles, ExpireActiveNodes,
        ExpireFails, SamePhase, Undefined
  <2> QED
    BY <1>3, <2>1, <2>2 DEF RuntimeMaintenance
<1>4. CASE UserEndsBootstrapI \/ UserRefreshesSync \/ UserEndsSync
  BY <1>4, OthersKeepBoot
  DEF UserEndsBootstrapI, UserRefreshesSync, UserEndsSync, EndBootstrapI,
      RefreshSyncMsg
<1>5. CASE UserRefreshesPlan \/ SyncMessage \/ UNCHANGED vars
  BY <1>5, OthersKeepBoot
  DEF UserRefreshesPlan, RefreshBootstrapPlan, SyncMessage, vars
<1> QED
  BY <1>1, <1>2, <1>3, <1>4, <1>5 DEF Next

LEMMA BootInit == ASSUME Init PROVE BootInv
<1>1. /\ ~HasLastNode /\ Len(m_currWindow) = 0 /\ Len(m_candidate) = 0
      /\ pc = "idle"
  BY EmptySeq DEF Init, CheckpointInit, HasLastNode
<1> QED
  BY <1>1, ChkptSizeAssumption DEF BootInv, KeptAreNumbered

LEMMA PlansEndOnWindows ==
    ASSUME PlanInv, BootInv, WindowTypes, NumbersDoNotWrap
    PROVE  PlanEndsOnWindow
<1> DEFINE w == Len(m_currWindow)
           c == Len(m_candidate)
<1> SUFFICES ASSUME pc = "phaseChange", AtBootstrapIEnd, PlanIsForThisChain
             PROVE  m_candidate = << >> /\ m_currWindow # << >>
  BY DEF PlanEndsOnWindow
<1>1. /\ m_phase = "BootstrapI" /\ ~IsEmpty /\ ~HasLastNode
      /\ m_bootstrapIEndBlkNum = FirstFed + w + c - 1
      /\ w \in {0, ChkptSize} /\ c < ChkptSize
      /\ KeptAreNumbered
  BY DEF BootInv, AtBootstrapIEnd
<1>2. /\ w \in Nat /\ c \in Nat
      /\ m_currWindow \in Seq(Header) /\ m_candidate \in Seq(Header)
  BY LenProperties DEF WindowTypes
<1>3. FirstFed \in Nat /\ m_bootstrapIEndBlkNum < Modulus - 1
  <2>1. CASE m_candidate # << >>
    <3>1. m_candidate[c] \in Header /\ c \in 1 .. c
      BY <1>2, <2>1, EmptySeq, ElementOfSeq
    <3>2. m_candidate[c].number = FirstFed + w + c - 1
      BY <1>1, <3>1 DEF KeptAreNumbered
    <3>3. FirstFed \in Nat
      BY <1>2, <2>1, EmptySeq, ElementOfSeq, HeaderAssumption DEF FirstFed
    <3> QED
      BY <1>1, <3>1, <3>2, <3>3 DEF NumbersDoNotWrap
  <2>2. CASE m_candidate = << >>
    <3>1. m_currWindow # << >> /\ c = 0
      BY <1>1, <2>2, EmptySeq DEF IsEmpty
    <3>2. m_currWindow[w] \in Header /\ w \in 1 .. w
      BY <1>2, <3>1, EmptySeq, ElementOfSeq
    <3>3. m_currWindow[w].number = FirstFed + w - 1
      BY <1>1, <3>2 DEF KeptAreNumbered
    <3>4. FirstFed \in Nat
      BY <1>2, <3>1, EmptySeq, ElementOfSeq, HeaderAssumption DEF FirstFed
    <3> QED
      BY <1>1, <1>2, <3>1, <3>2, <3>3, <3>4 DEF NumbersDoNotWrap
  <2> QED
    BY <2>1, <2>2
<1>4. /\ m_startBlockNum \in BlockNums /\ m_startBlockNum \in Nat
      /\ m_startBlockNum <= m_planedSyncBlkNum + 1
      /\ (FirstFed - m_startBlockNum) % ChkptSize = 0
      /\ m_planedSyncBlkNum \in BlockNums
  BY DEF PlanInv, PlanIsForThisChain, BlockNums
<1>5. PICK k \in Nat : m_bootstrapIEndBlkNum = m_startBlockNum + k * ChkptSize - 1
  <2>1. m_bootstrapIEndBlkNum # Modulus - 1
    BY <1>1, <1>2, <1>3, MonitorAssumption
  <2>2. m_bootstrapIEndBlkNum =
            CalcBootstrapIEndBlkNum(m_planedSyncBlkNum, m_startBlockNum)
    BY <1>1, <2>1 DEF PlanInv
  <2> QED
    BY <1>4, <2>1, <2>2, EndOfWindows
<1>6. PICK q \in Int : FirstFed - m_startBlockNum = ChkptSize * q
  BY <1>3, <1>4, IsMultiple
<1> HIDE DEF w, c
<1>7. w + c = ChkptSize * (k - q)
  <2>1. w + c = k * ChkptSize - (FirstFed - m_startBlockNum)
    BY <1>1, <1>2, <1>3, <1>4, <1>5, ChkptSizeAssumption
  <2>2. k * ChkptSize - ChkptSize * q = ChkptSize * (k - q)
    BY <1>5, <1>6, ChkptSizeAssumption
  <2> QED
    BY <1>6, <2>1, <2>2
<1>8. c = 0
  <2>1. CASE w = 0
    <3>1. c = ChkptSize * (k - q) /\ k - q \in Int
      BY <1>2, <1>5, <1>6, <1>7, <2>1
    <3> QED
      BY <1>1, <1>2, <3>1, LessThanOnce
  <2>2. CASE w = ChkptSize
    <3>1. c = ChkptSize * (k - q - 1) /\ k - q - 1 \in Int
      BY <1>2, <1>5, <1>6, <1>7, <2>2, ChkptSizeAssumption
    <3> QED
      BY <1>1, <1>2, <3>1, LessThanOnce
  <2> QED
    BY <1>1, <2>1, <2>2
<1> QED
  BY <1>1, <1>2, <1>8, EmptySeq DEF c, IsEmpty

\* RefreshBootstrapPlan and PhaseChangeCheck: for every checkpoint size, start
\* and latest block, a plan that is meant for the chain that is fed is carried
\* out when the candidate window is empty, so that EndBootstrapI does not throw
\* for that.  The plan may be made at any time and again.
THEOREM BootstrapIEndsOnWindow ==
    ASSUME NumbersDoNotWrap
    PROVE  Spec => []PlanEndsOnWindow
<1>1. Init => BootInv
  BY BootInit
<1>2. BootInv /\ ValidInv /\ validated \subseteq Header /\ [Next]_vars => BootInv'
  BY KeptAreHeaders, StepsKeepBoot
<1>3. PlanInv /\ BootInv /\ ValidInv /\ validated \subseteq Header => PlanEndsOnWindow
  BY KeptAreHeaders, PlansEndOnWindows
<1> QED
  BY <1>1, <1>2, <1>3, PlanInvariance, ValidInvariance, ValidatedAreHeaders, PTL
  DEF Spec

================================================================================

------------------------ MODULE EclipseMonitorProofs -------------------------
(***************************************************************************)
(* Theorems about EclipseMonitor, for any chain of headers, checkpoint size *)
(* and modulus, any difficulty rule, any calls of the interface in any      *)
(* order, and callbacks that throw at any point.                            *)
(***************************************************************************)
EXTENDS EclipseMonitor, SequenceTheorems, WellFoundedInduction, TLAPS

\* In Bootstrap I, the end planned for it belongs to the latest plan, if any.
PlanInv ==
    /\ m_startBlockNum \in BlockNums
    /\ m_planedSyncBlkNum \in BlockNums
    /\ m_phase = "BootstrapI" =>
        \/ m_planedSyncBlkNum = Modulus - 1 /\ m_bootstrapIEndBlkNum = Modulus - 1
        \/ m_bootstrapIEndBlkNum =
                CalcBootstrapIEndBlkNum(m_planedSyncBlkNum, m_startBlockNum)

\* Wherever a header is kept, onHeaderValidated was called for it.
KeptWasValidated ==
    /\ m_currWindow \in Seq(validated)
    /\ m_candidate \in Seq(validated)
    /\ m_lastNode \in validated \cup {NoNode}
    /\ \A n \in DOMAIN tree : tree[n] \in [header : validated,
                                           parent : Nat \cup {NoNode},
                                           numOfDesc : Nat]

NodesAreNumbered ==
    /\ nextNode \in Nat \ {0}
    /\ DOMAIN tree \subseteq Nat

ValidInv ==
    /\ NodesAreNumbered
    /\ KeptWasValidated
    /\ reported \in Seq(validated)

USE ChkptSizeAssumption, MonitorAssumption

-----------------------------------------------------------------------------
(* Plans.                                                                   *)

\* The windows of a chain that has at least three of them.
LEMMA WholeWindows ==
    ASSUME NEW n \in Nat, n >= 3 * ChkptSize
    PROVE  /\ n \div ChkptSize \in Nat /\ n \div ChkptSize >= 3
           /\ n - (n \div ChkptSize) * ChkptSize \in 0 .. ChkptSize - 1
  OBVIOUS

\* CalcBootstrapIEndBlkNum stops two to three windows before the latest block.
LEMMA PlannedEnd ==
    ASSUME NEW latest \in BlockNums, NEW start \in BlockNums,
           latest # Modulus - 1,
           latest - start + 1 >= 3 * ChkptSize
    PROVE  latest - CalcBootstrapIEndBlkNum(latest, start)
                \in 2 * ChkptSize .. 3 * ChkptSize - 1
<1> DEFINE n == latest - start + 1
           q == n \div ChkptSize
           w == q * ChkptSize
           end == start + w - 2 * ChkptSize - 1
<1>1. n \in Nat /\ n >= 3 * ChkptSize
  BY DEF BlockNums
<1>2. q \in Nat /\ q >= 3 /\ n - w \in 0 .. ChkptSize - 1
  BY <1>1, WholeWindows
<1>3. n % Modulus = n
  BY DEF BlockNums
<1>4. (q - 2) * ChkptSize = w - 2 * ChkptSize
  BY <1>2
<1>5. w \in Nat
  BY <1>2
<1>6. CalcBootstrapIEndBlkNum(latest, start) = (start + (q - 2) * ChkptSize - 1) % Modulus
  BY <1>2, <1>3 DEF CalcBootstrapIEndBlkNum
<1> HIDE DEF q, w
<1>7. end \in 0 .. Modulus - 1
  BY <1>1, <1>2, <1>5 DEF BlockNums
<1>8. start + (q - 2) * ChkptSize - 1 = end
  BY <1>2, <1>4, <1>5 DEF BlockNums
<1>9. end % Modulus = end
  BY <1>7
<1>10. CalcBootstrapIEndBlkNum(latest, start) = end
  BY <1>6, <1>8, <1>9
<1> QED
  BY <1>1, <1>2, <1>5, <1>10 DEF BlockNums

\* Only RefreshBootstrapPlan touches the plan, and no step goes back to
\* Bootstrap I.
LEMMA PlanIsKept ==
    ASSUME Next
    PROVE  \/ UserRefreshesPlan
           \/ UNCHANGED planVars /\ (m_phase' = "BootstrapI" => m_phase = "BootstrapI")
<1> USE DEF planVars
<1>1. ASSUME NEW header \in Header, Update(header)
      PROVE  UNCHANGED planVars /\ UNCHANGED m_phase
  BY <1>1 DEF Update, UpdateOnBootstrapI, UpdateOnBootstrapIThrows,
              UpdateOnRuntimeRejects, UpdateOnRuntimeAddChild,
              UpdateOnRuntimeDangles, BootstrapIUnchanged,
              UpdateOnRuntimeUnchanged, Undefined
<1>2. CASE PhaseChangeCheck
  BY <1>2 DEF PhaseChangeCheck, EndBootstrapI, PhaseChangeThrows,
              RefreshSyncMsg, SamePhase
<1>3. CASE RuntimeMaintenance
  BY <1>3 DEF RuntimeMaintenance, MaintenanceThrows, NothingToConfirm,
              ConfirmChild, ExpireDangles, ExpireActiveNodes, ExpireFails,
              SamePhase, Undefined
<1>4. CASE UserEndsBootstrapI \/ UserRefreshesSync \/ UserEndsSync \/ SyncMessage
  BY <1>4 DEF UserEndsBootstrapI, UserRefreshesSync, UserEndsSync, SyncMessage,
              EndBootstrapI, RefreshSyncMsg
<1> QED
  BY <1>1, <1>2, <1>3, <1>4 DEF Next

LEMMA PlanInvariance == Spec => []PlanInv
<1>1. Init => PlanInv
  BY DEF Init, PlanInv, BlockNums
<1>2. PlanInv /\ [Next]_vars => PlanInv'
  <2> SUFFICES ASSUME PlanInv, [Next]_vars PROVE PlanInv'
    OBVIOUS
  <2>1. CASE UserRefreshesPlan
    <3>1. PICK latest \in LatestNums, start \in StartNums \cup {m_startBlockNum} :
                RefreshBootstrapPlan(latest, start)
      BY <2>1 DEF UserRefreshesPlan
    <3>2. latest \in BlockNums /\ start \in BlockNums
      BY DEF PlanInv, BlockNums
    <3> QED
      BY <3>1, <3>2 DEF RefreshBootstrapPlan, PlanInv
  <2>2. CASE UNCHANGED planVars /\ (m_phase' = "BootstrapI" => m_phase = "BootstrapI")
    BY <2>2 DEF PlanInv, planVars
  <2>3. CASE UNCHANGED vars
    BY <2>3 DEF PlanInv, vars, planVars
  <2> QED
    BY <2>1, <2>2, <2>3, PlanIsKept
<1> QED
  BY <1>1, <1>2, PTL DEF Spec

\* RefreshBootstrapPlan: the windows that Bootstrap II needs are left for it,
\* for any start and latest block, however often the plan is made again and
\* whatever is called in between.
THEOREM TwoWindowsAreLeft == Spec => []PlanLeavesTwoWindows
<1>1. PlanInv => PlanLeavesTwoWindows
  BY PlannedEnd DEF PlanInv, PlanLeavesTwoWindows
<1> QED
  BY <1>1, PlanInvariance, PTL

-----------------------------------------------------------------------------
(* Reported headers were validated.                                         *)

\* A non-empty set of natural numbers has a least element.
LEMMA LeastNatural ==
    ASSUME NEW S \in SUBSET Nat, S # {}
    PROVE  \E m \in S : \A k \in S : m <= k
<1>1. \E m \in S : \A k \in S : ~(<<k, m>> \in OpToRel(<, Nat))
  BY NatLessThanWellFounded, WFMin
<1>2. \A m, k \in Nat : <<k, m>> \in OpToRel(<, Nat) <=> k < m
  BY DEF OpToRel
<1>3. \A k \in S : k \in Nat
  OBVIOUS
<1>4. \E m \in S : \A k \in S : ~(k < m)
  BY <1>1, <1>2, <1>3, Zenon
<1> QED
  BY <1>3, <1>4

\* The child to confirm is a child.
LEMMA ConfirmableIsChild ==
    ASSUME DOMAIN tree \subseteq Nat,
           NEW p, NEW k, ChildHasNDesc(tree, p, k) # NoNode
    PROVE  ChildHasNDesc(tree, p, k) \in Children(tree, p)
<1> DEFINE enough == {c \in Children(tree, p) : tree[c].numOfDesc >= k}
<1>1. enough # {}
  BY DEF ChildHasNDesc
<1>2. enough \subseteq Children(tree, p) /\ enough \subseteq Nat
  BY DEF Children
<1>3. \E c \in enough : \A d \in enough : c <= d
  BY <1>1, <1>2, LeastNatural
<1>4. ChildHasNDesc(tree, p, k) = CHOOSE c \in enough : \A d \in enough : c <= d
  BY <1>1 DEF ChildHasNDesc
<1> HIDE DEF enough
<1> QED
  BY <1>2, <1>3, <1>4

\* More headers validated.
LEMMA MoreValidated ==
    ASSUME NEW S, NEW T, S \subseteq T
    PROVE  Seq(S) \subseteq Seq(T)
  OBVIOUS

\* What is reported of a window of validated headers.
LEMMA ReportedOfWindow ==
    ASSUME NEW V, reported \in Seq(V), IterateCurrWindow' \in Seq(V),
           NEW sec, NEW next, OnCheckpointComplete(sec, next)
    PROVE  reported' \in Seq(V)
<1> DEFINE window == IterateCurrWindow'
<1>1. CASE reported' = reported \o window
  BY <1>1, ConcatProperties
<1>2. CASE \E k \in 0 .. Len(window) - 1 : reported' = reported \o SubSeq(window, 1, k)
  <2>1. PICK k \in 0 .. Len(window) - 1 : reported' = reported \o SubSeq(window, 1, k)
    BY <1>2
  <2>2. SubSeq(window, 1, k) \in Seq(V)
    <3>1. k \in Int /\ \A i \in 1 .. k : i \in 1 .. Len(window)
      BY <2>1, LenProperties
    <3>2. \A i \in 1 .. k : window[i] \in V
      BY <3>1, ElementOfSeq
    <3> HIDE DEF window
    <3> QED
      BY <3>1, <3>2, SubSeqProperties
  <2> QED
    BY <2>1, <2>2, ConcatProperties
<1> QED
  BY <1>1, <1>2 DEF OnCheckpointComplete

LEMMA BootstrapIKeepsValid ==
    ASSUME ValidInv, NEW header \in Header,
           UpdateOnBootstrapI(header) \/ UpdateOnBootstrapIThrows(header)
    PROVE  ValidInv'
<1>1. CASE UpdateOnBootstrapIThrows(header)
  BY <1>1 DEF UpdateOnBootstrapIThrows, NoCheckpoint, BootstrapIUnchanged,
              chkptVars, treeVars, ValidInv, NodesAreNumbered, KeptWasValidated
<1>2. CASE UpdateOnBootstrapI(header)
  <2>1. /\ validated' = validated \cup {header}
        /\ UNCHANGED <<tree, root, nextNode>>
    BY <1>2 DEF UpdateOnBootstrapI, BootstrapIUnchanged, treeVars
  <2>2. /\ m_currWindow \in Seq(validated') /\ m_candidate \in Seq(validated')
        /\ reported \in Seq(validated') /\ header \in validated'
    BY <2>1, MoreValidated DEF ValidInv, KeptWasValidated
  <2>3. /\ Append(m_candidate, header) \in Seq(validated')
        /\ << >> \in Seq(validated')
    BY <2>2, AppendProperties
  <2>4. NodesAreNumbered'
    BY <2>1 DEF ValidInv, NodesAreNumbered
  <2>5. \A n \in DOMAIN tree' : tree'[n] \in [header : validated',
                                              parent : Nat \cup {NoNode},
                                              numOfDesc : Nat]
    BY <2>1 DEF ValidInv, KeptWasValidated
  <2>6. CASE AddHeaderKeeps(header) /\ NoCheckpoint(SecStateWith(header), "phaseChange")
    <3>1. KeptWasValidated'
      BY <2>1, <2>2, <2>3, <2>5, <2>6
      DEF AddHeaderKeeps, ValidInv, KeptWasValidated
    <3> QED
      BY <2>2, <2>4, <2>6, <3>1 DEF NoCheckpoint, ValidInv
  <2>7. CASE /\ AddHeaderCompletes(header)
             /\ OnCheckpointComplete(SecStateWith(header), "phaseChange")
    <3>1. /\ m_currWindow' = Append(m_candidate, header) /\ m_candidate' = << >>
          /\ m_lastNode' = NoNode
      BY <2>7 DEF AddHeaderCompletes, HasLastNode
    <3>2. IterateCurrWindow' \in Seq(validated')
      BY <2>3, <3>1 DEF IterateCurrWindow, WithLastNode, HasLastNode
    <3>3. reported' \in Seq(validated')
      BY <2>2, <2>7, <3>2, ReportedOfWindow
    <3>4. KeptWasValidated'
      BY <2>3, <2>5, <3>1 DEF KeptWasValidated
    <3> QED
      BY <2>4, <3>3, <3>4 DEF ValidInv
  <2> QED
    BY <1>2, <2>6, <2>7 DEF UpdateOnBootstrapI
<1> QED
  BY <1>1, <1>2

\* The containers of the checkpoint manager are not touched.
LEMMA AddChildKeepsValid ==
    ASSUME ValidInv, NEW header \in Header, NEW seesSync \in BOOLEAN,
           UpdateOnRuntimeAddChild(header, seesSync)
    PROVE  ValidInv'
<1> DEFINE p == LookUp(header)
           counted == WithDescCounted(tree, p)
           Node(V) == [header : V, parent : Nat \cup {NoNode}, numOfDesc : Nat]
<1>1. /\ p \in DOMAIN tree
      /\ validated' = validated \cup {header}
      /\ tree' = AddChild(tree, p, nextNode, header)
      /\ nextNode' = nextNode + 1
      /\ UNCHANGED <<chkptVars, reported>>
  BY DEF UpdateOnRuntimeAddChild, UpdateOnRuntimeUnchanged
<1>2. /\ m_currWindow \in Seq(validated') /\ m_candidate \in Seq(validated')
      /\ reported \in Seq(validated')
      /\ m_lastNode \in validated' \cup {NoNode}
  BY <1>1, MoreValidated DEF ValidInv, KeptWasValidated
<1>3. \A n \in DOMAIN tree : tree[n] \in Node(validated')
  BY <1>1 DEF ValidInv, KeptWasValidated
<1>4. \A n \in DOMAIN tree : counted[n] \in Node(validated')
  BY <1>3 DEF WithDescCounted
<1>5. Leaf(header, p) \in Node(validated')
  BY <1>1 DEF Leaf, ValidInv, NodesAreNumbered
<1> HIDE DEF p, counted
<1>6. /\ DOMAIN tree' = DOMAIN tree \cup {nextNode}
      /\ \A n \in DOMAIN tree' : tree'[n] = IF n = nextNode THEN Leaf(header, p)
                                                            ELSE counted[n]
  BY <1>1 DEF AddChild, counted
<1>7. \A n \in DOMAIN tree' : tree'[n] \in Node(validated')
  BY <1>4, <1>5, <1>6
<1>8. NodesAreNumbered'
  BY <1>1, <1>6 DEF ValidInv, NodesAreNumbered
<1>9. KeptWasValidated'
  BY <1>1, <1>2, <1>7 DEF KeptWasValidated, chkptVars
<1> QED
  BY <1>1, <1>2, <1>8, <1>9 DEF ValidInv

LEMMA EndBootstrapIKeepsValid ==
    ASSUME ValidInv, EndBootstrapI
    PROVE  ValidInv'
<1> DEFINE header == m_currWindow[Len(m_currWindow)]
           Node == [header : validated, parent : Nat \cup {NoNode}, numOfDesc : Nat]
<1>1. /\ m_currWindow # << >>
      /\ m_lastNode' = header
      /\ m_currWindow' = SubSeq(m_currWindow, 1, Len(m_currWindow) - 1)
      /\ UNCHANGED <<m_candidate, validated, reported>>
      /\ nextNode' = nextNode + 1
      /\ tree' = [n \in DOMAIN tree \cup {nextNode} |->
                      IF n = nextNode THEN Leaf(m_lastNode', NoNode) ELSE tree[n]]
  BY DEF EndBootstrapI, EndBootstrapPhase, histVars
<1>2. /\ m_currWindow \in Seq(validated)
      /\ Len(m_currWindow) \in Nat \ {0}
  BY <1>1 DEF ValidInv, KeptWasValidated
<1>3. header \in validated
  BY <1>2, ElementOfSeq
<1>4. m_currWindow' \in Seq(validated)
  <2>1. \A i \in 1 .. Len(m_currWindow) - 1 : m_currWindow[i] \in validated
    BY <1>2, ElementOfSeq
  <2>2. Len(m_currWindow) - 1 \in Int /\ 1 \in Int
    BY <1>2
  <2> QED
    BY <1>1, <2>1, <2>2, SubSeqProperties
<1>5. Leaf(header, NoNode) \in Node
  BY <1>3 DEF Leaf
<1> HIDE DEF header
<1>6. /\ DOMAIN tree' = DOMAIN tree \cup {nextNode}
      /\ \A n \in DOMAIN tree' : tree'[n] = IF n = nextNode THEN Leaf(header, NoNode)
                                                            ELSE tree[n]
  BY <1>1
<1>7. \A n \in DOMAIN tree' : tree'[n] \in Node
  BY <1>5, <1>6 DEF ValidInv, KeptWasValidated
<1>8. NodesAreNumbered'
  BY <1>1, <1>6 DEF ValidInv, NodesAreNumbered
<1>9. KeptWasValidated'
  BY <1>1, <1>3, <1>4, <1>7 DEF ValidInv, KeptWasValidated
<1> QED
  BY <1>1, <1>8, <1>9 DEF ValidInv

\* A header confirmed is one of the tree.
LEMMA ConfirmKeepsValid ==
    ASSUME ValidInv, ConfirmChild
    PROVE  ValidInv'
<1> DEFINE child == ChildHasNDesc(tree, root, ChkptSize)
           header == tree[child].header
           Node == [header : validated, parent : Nat \cup {NoNode}, numOfDesc : Nat]
<1>1. /\ child # NoNode
      /\ tree' = ReleaseChild(tree, child)
      /\ UNCHANGED <<nextNode, validated>>
      /\ \/ AddNodeKeeps(header) /\ NoCheckpoint(secState, "expire")
         \/ AddNodeCompletes(header) /\ OnCheckpointComplete(secState, "expire")
  BY DEF ConfirmChild
<1>2. child \in DOMAIN tree
  BY <1>1, ConfirmableIsChild DEF ValidInv, NodesAreNumbered, Children
<1>3. header \in validated
  BY <1>2 DEF ValidInv, KeptWasValidated
<1> HIDE DEF child, header
<1>4. /\ DOMAIN tree' \subseteq DOMAIN tree
      /\ \A n \in DOMAIN tree' : tree'[n] \in Node
  BY <1>1 DEF ReleaseChild, Subtree, ValidInv, KeptWasValidated
<1>5. NodesAreNumbered'
  BY <1>1, <1>4 DEF ValidInv, NodesAreNumbered
<1>6. /\ WithLastNode(m_candidate) \in Seq(validated)
      /\ WithLastNode(m_currWindow) \in Seq(validated)
      /\ << >> \in Seq(validated)
  BY AppendProperties DEF ValidInv, KeptWasValidated, WithLastNode, HasLastNode
<1>7. CASE AddNodeKeeps(header) /\ NoCheckpoint(secState, "expire")
  <2>1. KeptWasValidated'
    BY <1>1, <1>3, <1>4, <1>6, <1>7 DEF AddNodeKeeps, ValidInv, KeptWasValidated
  <2> QED
    BY <1>1, <1>5, <1>7, <2>1 DEF NoCheckpoint, ValidInv
<1>8. CASE AddNodeCompletes(header) /\ OnCheckpointComplete(secState, "expire")
  <2>1. /\ m_currWindow' = WithLastNode(m_candidate) /\ m_candidate' = << >>
        /\ m_lastNode' = header
    BY <1>8 DEF AddNodeCompletes
  <2>2. IterateCurrWindow' \in Seq(validated)
    <3>1. Append(m_currWindow', header) \in Seq(validated)
      BY <1>3, <1>6, <2>1, AppendProperties
    <3> QED
      BY <1>6, <2>1, <3>1 DEF IterateCurrWindow, WithLastNode, HasLastNode
  <2>3. reported' \in Seq(validated)
    BY <1>8, <2>2, ReportedOfWindow DEF ValidInv
  <2>4. KeptWasValidated'
    BY <1>1, <1>3, <1>4, <1>6, <2>1 DEF KeptWasValidated
  <2> QED
    BY <1>1, <1>5, <2>3, <2>4 DEF ValidInv
<1> QED
  BY <1>1, <1>7, <1>8

LEMMA ValidInvariance == Spec => []ValidInv
<1>1. Init => ValidInv
  BY DEF Init, CheckpointInit, ValidInv, NodesAreNumbered, KeptWasValidated
<1>2. ASSUME ValidInv, UNCHANGED <<chkptVars, treeVars, validated, reported>>
      PROVE  ValidInv'
  BY <1>2 DEF chkptVars, treeVars, ValidInv, NodesAreNumbered, KeptWasValidated
<1>3. ASSUME ValidInv, [Next]_vars
      PROVE  ValidInv'
  <2>1. ASSUME NEW header \in Header, Update(header) PROVE ValidInv'
    <3>1. CASE UpdateOnBootstrapI(header) \/ UpdateOnBootstrapIThrows(header)
      BY <1>3, <3>1, BootstrapIKeepsValid
    <3>2. CASE \E seesSync \in BOOLEAN : UpdateOnRuntimeAddChild(header, seesSync)
      BY <1>3, <3>2, AddChildKeepsValid
    <3>3. CASE UpdateOnRuntimeRejects(header) \/ UpdateOnRuntimeDangles(header)
      BY <1>2, <1>3, <3>3
      DEF UpdateOnRuntimeRejects, UpdateOnRuntimeDangles,
          UpdateOnRuntimeUnchanged, Undefined, treeVars, histVars
    <3> QED
      BY <2>1, <3>1, <3>2, <3>3 DEF Update
  <2>2. CASE PhaseChangeCheck
    <3>1. CASE EndBootstrapI
      BY <1>3, <3>1, EndBootstrapIKeepsValid
    <3>2. CASE RefreshSyncMsg \/ SamePhase
      BY <1>2, <1>3, <3>2 DEF RefreshSyncMsg, SamePhase, histVars
    <3> QED
      BY <2>2, <3>1, <3>2 DEF PhaseChangeCheck, PhaseChangeThrows
  <2>3. CASE RuntimeMaintenance
    <3>1. CASE ConfirmChild
      BY <1>3, <3>1, ConfirmKeepsValid
    <3>2. CASE \/ MaintenanceThrows \/ NothingToConfirm \/ ExpireDangles
               \/ ExpireActiveNodes \/ ExpireFails
      BY <1>2, <1>3, <3>2
      DEF MaintenanceThrows, NothingToConfirm, ExpireDangles, ExpireActiveNodes,
          ExpireFails, SamePhase, Undefined, histVars
    <3> QED
      BY <2>3, <3>1, <3>2 DEF RuntimeMaintenance
  <2>4. CASE UserEndsBootstrapI
    BY <1>3, <2>4, EndBootstrapIKeepsValid DEF UserEndsBootstrapI
  <2>5. CASE UserRefreshesPlan \/ UserRefreshesSync \/ UserEndsSync \/ SyncMessage
    BY <1>2, <1>3, <2>5
    DEF UserRefreshesPlan, RefreshBootstrapPlan, UserRefreshesSync,
        RefreshSyncMsg, UserEndsSync, SyncMessage, histVars
  <2>6. CASE UNCHANGED vars
    BY <1>2, <1>3, <2>6 DEF vars, histVars
  <2> QED
    BY <1>3, <2>1, <2>2, <2>3, <2>4, <2>5, <2>6 DEF Next
<1> QED
  BY <1>1, <1>3, PTL DEF Spec

\* Only headers are validated.
LEMMA ValidatedAreHeaders == Spec => [](validated \subseteq Header)
<1>1. Init => validated \subseteq Header
  BY DEF Init
<1>2. validated \subseteq Header /\ [Next]_vars => (validated \subseteq Header)'
  <2> SUFFICES ASSUME validated \subseteq Header, [Next]_vars
               PROVE  validated' \subseteq Header
    OBVIOUS
  <2>1. ASSUME NEW header \in Header, Update(header)
        PROVE  validated' \subseteq Header
    BY <2>1
    DEF Update, UpdateOnBootstrapI, UpdateOnBootstrapIThrows,
        UpdateOnRuntimeRejects, UpdateOnRuntimeAddChild, UpdateOnRuntimeDangles,
        Undefined, histVars
  <2>2. CASE PhaseChangeCheck \/ UserEndsBootstrapI \/ UserRefreshesSync
    BY <2>2 DEF PhaseChangeCheck, PhaseChangeThrows, EndBootstrapI, RefreshSyncMsg,
                SamePhase, UserEndsBootstrapI, UserRefreshesSync, histVars
  <2>3. CASE RuntimeMaintenance
    BY <2>3 DEF RuntimeMaintenance, MaintenanceThrows, NothingToConfirm,
                ConfirmChild, ExpireDangles, ExpireActiveNodes, ExpireFails,
                SamePhase, Undefined, histVars
  <2>4. CASE UserRefreshesPlan \/ UserEndsSync \/ SyncMessage
    BY <2>4 DEF UserRefreshesPlan, RefreshBootstrapPlan, UserEndsSync, SyncMessage,
                histVars
  <2>5. CASE UNCHANGED vars
    BY <2>5 DEF vars, histVars
  <2> QED
    BY <2>1, <2>2, <2>3, <2>4, <2>5 DEF Next
<1> QED
  BY <1>1, <1>2, PTL DEF Spec

\* EclipseMonitor::Update: no path from a header to onHeaderConfirmed goes
\* around onHeaderValidated, whatever fork it was on, however the phases change
\* and wherever a callback throws.
THEOREM OnlyValidatedIsReported == Spec => []ReportedWasValidated
<1>1. ValidInv => ReportedWasValidated
  BY ElementOfSeq DEF ValidInv, ReportedWasValidated
<1> QED
  BY <1>1, ValidInvariance, PTL

-----------------------------------------------------------------------------
(* What other theorems need.                                                *)

\* Numbers of headers do not reach the last one, after which they wrap around.
NumbersDoNotWrap == \A h \in Header : h.number < Modulus - 1

\* What is kept consists of headers.
WindowTypes ==
    /\ m_currWindow \in Seq(Header) /\ m_candidate \in Seq(Header)
    /\ m_lastNode \in Header \cup {NoNode}

NodeTypes ==
    \A n \in DOMAIN tree : tree[n] \in [header : Header, parent : Nat \cup {NoNode},
                                        numOfDesc : Nat]

\* The headers of the tree, the windows and the last node are headers.
LEMMA KeptAreHeaders ==
    ASSUME ValidInv, validated \subseteq Header
    PROVE  /\ WindowTypes
           /\ reported \in Seq(Header)
           /\ nextNode \in Nat \ {0} /\ DOMAIN tree \subseteq Nat
           /\ NodeTypes
  BY MoreValidated DEF NodeTypes, ValidInv, KeptWasValidated, NodesAreNumbered, WindowTypes

=============================================================================

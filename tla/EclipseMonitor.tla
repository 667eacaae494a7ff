--------------------------- MODULE EclipseMonitor ----------------------------
(***************************************************************************)
(* Classes EclipseMonitorBase and Eth::EclipseMonitor: the phases of the    *)
(* monitor and the life of a header, from Update to its confirmation.       *)
(*                                                                          *)
(* Update(header) runs in steps, one action per function that it calls:     *)
(*   UpdateOnBootstrapI or UpdateOnRuntime, then PhaseChangeCheck, then,    *)
(*   outside Bootstrap I, the two halves of RuntimeMaintenance.             *)
(* An exception skips the remaining steps and keeps what was done.          *)
(* Everything is called by one thread, except that the sync message may be  *)
(* noticed at any moment (SyncEvents.tla has the concurrency of it).        *)
(*                                                                          *)
(* The validator's difficulty formula, the difficulty checker and the user  *)
(* callbacks are injected interfaces: ExpectedDiff is a parameter, the      *)
(* difficulty checker may answer anything, a callback may throw.            *)
(***************************************************************************)
EXTENDS CheckpointMgr

INSTANCE HeaderNode

CONSTANTS
    NoHash,             \* an empty hash
    ExpectedDiff(_, _), \* difficulty required of a header with a given parent
    Modulus,            \* 2^64: block numbers are uint64_t
    LatestNums,         \* values passed to RefreshBootstrapPlan as the latest
    StartNums,          \* and as the start block number
    UserCalls,          \* the operations, other than Update, the user calls
    MaxNodes            \* bound on the nodes ever allocated, for TLC

ASSUME MonitorAssumption ==
    /\ Modulus \in Nat \ {0}
    /\ LatestNums \subseteq 0 .. Modulus - 1
    /\ StartNums \subseteq 0 .. Modulus - 1
    /\ UserCalls \subseteq
        {"RefreshBootstrapPlan", "EndBootstrapI", "RefreshSyncMsg", "EndSync"}
    /\ MaxNodes \in Nat \ {0}
    /\ NoNode \notin Nat
    /\ \A h \in Header : h.number < Modulus /\ h.hash # NoHash

VARIABLES
    m_phase,                \* BootstrapI, BootstrapII, Sync or Runtime
    m_startBlockNum,
    m_bootstrapIEndBlkNum,
    m_planedSyncBlkNum,
    tree,                   \* the nodes allocated and not destroyed
    root,                   \* the node CheckpointMgr::m_lastNode, or NoNode
    nextNode,               \* the next node to allocate
    m_offlineNodes,         \* look-up maps: from the hash of a header
    m_activeNodes,          \*   to a pointer to its node
    synced,                 \* is the last SyncState synced
    secState,               \* MonitorSecState
    pc,                     \* the next step of the Update under way, or "idle"
    currBlkNum,             \* the argument of PhaseChangeCheck, while it is needed
    undefined,              \* the undefined behaviour executed, or "none"
    validated,              \* history: headers given to onHeaderValidated
    reported,               \* history: headers given to onHeaderConfirmed
    interrupted             \* history: has onHeaderConfirmed thrown

planVars == <<m_startBlockNum, m_bootstrapIEndBlkNum, m_planedSyncBlkNum>>
treeVars == <<tree, root, nextNode>>
mapVars  == <<m_offlineNodes, m_activeNodes>>
histVars == <<validated, reported, interrupted>>
vars == <<m_phase, planVars, chkptVars, treeVars, mapVars, synced, secState,
          pc, currBlkNum, undefined, histVars>>

Phases == {"BootstrapI", "BootstrapII", "Sync", "Runtime"}
Hashes == {h.hash : h \in Header}
BlockNums == 0 .. Modulus - 1

TypeOK ==
    /\ m_phase \in Phases
    /\ m_startBlockNum \in BlockNums
    /\ m_bootstrapIEndBlkNum \in BlockNums
    /\ m_planedSyncBlkNum \in BlockNums
    /\ CheckpointTypeOK
    /\ DOMAIN tree \subseteq 1 .. nextNode - 1
    /\ \A n \in DOMAIN tree :
        /\ tree[n].header \in Header
        /\ tree[n].parent \in DOMAIN tree \cup {NoNode}
        /\ tree[n].numOfDesc \in Nat
    /\ root \in DOMAIN tree \cup {NoNode}
    /\ nextNode \in 1 .. MaxNodes + 1
    /\ \A map \in {m_offlineNodes, m_activeNodes} :
        /\ DOMAIN map \subseteq Hashes
        /\ \A hash \in DOMAIN map : map[hash] \in 1 .. nextNode - 1
    /\ synced \in BOOLEAN
    /\ secState \in [genesisHash : Hashes \cup {NoHash},
                     checkpointHash : Hashes \cup {NoHash},
                     checkpointNum : BlockNums, checkpointIter : Nat]
    /\ pc \in {"idle", "phaseChange", "confirm", "expire"}
    /\ currBlkNum \in BlockNums
    /\ undefined \in {"none", "useAfterFree", "eraseInLoop"}
    /\ validated \in SUBSET Header
    /\ reported \in Seq(Header)
    /\ interrupted \in BOOLEAN

Init ==
    /\ m_phase = "BootstrapI"
    /\ m_startBlockNum = 0
    /\ m_bootstrapIEndBlkNum = Modulus - 1
    /\ m_planedSyncBlkNum = Modulus - 1
    /\ CheckpointInit
    /\ tree = << >>
    /\ root = NoNode
    /\ nextNode = 1
    /\ m_offlineNodes = << >>
    /\ m_activeNodes = << >>
    /\ synced = FALSE
    /\ secState = [genesisHash |-> NoHash, checkpointHash |-> NoHash,
                   checkpointNum |-> 0, checkpointIter |-> 0]
    /\ pc = "idle"
    /\ currBlkNum = 0
    /\ undefined = "none"
    /\ validated = {}
    /\ reported = <<>>
    /\ interrupted = FALSE

-----------------------------------------------------------------------------
(* Helpers.                                                                 *)

\* unordered_map::operator[], assigned to.
Assign(map, hash, node) ==
    [k \in DOMAIN map \cup {hash} |-> IF k = hash THEN node ELSE map[k]]

\* unordered_map::insert, which keeps an entry that is already there.
Insert(map, hash, node) ==
    IF hash \in DOMAIN map THEN map ELSE Assign(map, hash, node)

Erase(map, hashes) == [k \in DOMAIN map \ hashes |-> map[k]]

\* Mutant: the parent hash is not compared.
CommonValidateAnyParent(parent, current) ==
    /\ current.number = (parent.number + 1) % Modulus
    /\ current.diff = ExpectedDiff(parent, current)

\* Mutant: the number is not compared.
CommonValidateAnyNumber(parent, current) ==
    /\ current.parent = parent.hash
    /\ current.diff = ExpectedDiff(parent, current)

CommonValidate(parent, current) ==
    /\ current.number = (parent.number + 1) % Modulus
    /\ current.parent = parent.hash
    /\ current.diff = ExpectedDiff(parent, current)

\* Mutant: the plan ends on the first block of the next window.
CalcBootstrapIEndBlkNumNextWindow(latestBlk, startBlk) ==
    LET numOfBlocks   == (latestBlk - startBlk + 1) % Modulus
        numOfInterval == numOfBlocks \div ChkptSize
        counted       == IF numOfInterval > 2 THEN numOfInterval - 2 ELSE 0
    IN  (startBlk + counted * ChkptSize) % Modulus

\* Mutant: the last block is not counted.
CalcBootstrapIEndBlkNumOneFewer(latestBlk, startBlk) ==
    LET numOfBlocks   == (latestBlk - startBlk) % Modulus
        numOfInterval == numOfBlocks \div ChkptSize
        counted       == IF numOfInterval > 2 THEN numOfInterval - 2 ELSE 0
    IN  (startBlk + counted * ChkptSize - 1) % Modulus

CalcBootstrapIEndBlkNum(latestBlk, startBlk) ==
    LET numOfBlocks   == (latestBlk - startBlk + 1) % Modulus
        numOfInterval == numOfBlocks \div ChkptSize
        counted       == IF numOfInterval > 2 THEN numOfInterval - 2 ELSE 0
    IN  (startBlk + counted * ChkptSize - 1) % Modulus

\* Undefined behaviour: nothing is known of the program afterwards.
Undefined(kind) ==
    /\ undefined' = kind
    /\ pc' = "idle"
    /\ UNCHANGED <<m_phase, planVars, chkptVars, treeVars, mapVars, synced,
                   secState, currBlkNum, histVars>>

Defined == undefined = "none"

-----------------------------------------------------------------------------
(* The completion callback of the checkpoint manager.                       *)

\* The calls of onHeaderConfirmed for the window just completed: all of them,
\* or some and an exception, after which Update is left.  sec is the security
\* state before the callback, next the step that follows it.
OnCheckpointComplete(sec, next) ==
    /\ secState' = [sec EXCEPT !.checkpointHash = GetLastHeader.hash',
                               !.checkpointNum = GetLastHeader.number',
                               !.checkpointIter = @ + 1]
    /\ \/ /\ reported' = reported \o IterateCurrWindow'
          /\ pc' = next
          /\ UNCHANGED interrupted
       \/ \E k \in 0 .. Len(IterateCurrWindow') - 1 :
            /\ reported' = reported \o SubSeq(IterateCurrWindow', 1, k)
            /\ interrupted' = TRUE
            /\ pc' = "idle"

NoCheckpoint(sec, next) ==
    /\ secState' = sec
    /\ pc' = next
    /\ UNCHANGED <<reported, interrupted>>

-----------------------------------------------------------------------------
(* Update, first step, in Bootstrap I.                                      *)

Ready == Defined /\ pc = "idle"

ValidInBootstrapI(header) ==
    ~IsEmpty => CommonValidate(GetLastHeader, header)

\* The first header is taken for the genesis block before its callback runs.
SecStateWith(header) ==
    IF IsEmpty THEN [secState EXCEPT !.genesisHash = header.hash] ELSE secState

BootstrapIUnchanged ==
    UNCHANGED <<m_phase, planVars, treeVars, mapVars, synced, undefined>>

\* Mutant: onHeaderValidated is called for validated headers only, and the
\* first one is not validated.
UpdateOnBootstrapISkipsFirst(header) ==
    /\ Ready /\ m_phase = "BootstrapI"
    /\ ValidInBootstrapI(header)
    /\ validated' = IF IsEmpty THEN validated ELSE validated \cup {header}
    /\ \/ /\ AddHeaderKeeps(header)
          /\ NoCheckpoint(SecStateWith(header), "phaseChange")
       \/ /\ AddHeaderCompletes(header)
          /\ OnCheckpointComplete(SecStateWith(header), "phaseChange")
    /\ currBlkNum' = IF pc' = "phaseChange" THEN header.number ELSE 0
    /\ BootstrapIUnchanged

UpdateOnBootstrapI(header) ==
    /\ Ready /\ m_phase = "BootstrapI"
    /\ ValidInBootstrapI(header)
    /\ validated' = validated \cup {header}
    /\ \/ /\ AddHeaderKeeps(header)
          /\ NoCheckpoint(SecStateWith(header), "phaseChange")
       \/ /\ AddHeaderCompletes(header)
          /\ OnCheckpointComplete(SecStateWith(header), "phaseChange")
    /\ currBlkNum' = IF pc' = "phaseChange" THEN header.number ELSE 0
    /\ BootstrapIUnchanged

\* onHeaderValidated throws.  (A header that fails validation throws too, and
\* changes nothing.)
UpdateOnBootstrapIThrows(header) ==
    /\ Ready /\ m_phase = "BootstrapI"
    /\ ValidInBootstrapI(header)
    /\ NoCheckpoint(SecStateWith(header), "idle")
    /\ BootstrapIUnchanged
    /\ UNCHANGED <<chkptVars, currBlkNum, validated>>

-----------------------------------------------------------------------------
(* Update, first step, in the other phases.                                 *)

RuntimePhase == m_phase # "BootstrapI"

\* The parent is looked up in the offline nodes first.
LookUp(header) ==
    CASE header.parent \in DOMAIN m_offlineNodes -> m_offlineNodes[header.parent]
      [] /\ header.parent \notin DOMAIN m_offlineNodes
         /\ header.parent \in DOMAIN m_activeNodes -> m_activeNodes[header.parent]
      [] OTHER -> NoNode

UpdateOnRuntimeUnchanged ==
    UNCHANGED <<m_phase, planVars, chkptVars, root, secState, undefined,
                reported, interrupted>>

\* The parent is unknown, the header is invalid, or its difficulty is refused:
\* an error is logged and the update goes on with the number of the block.
UpdateOnRuntimeRejects(header) ==
    /\ Ready /\ RuntimePhase
    /\ LookUp(header) \in DOMAIN tree \cup {NoNode}
    /\ currBlkNum' = header.number
    /\ pc' = "phaseChange"
    /\ UpdateOnRuntimeUnchanged
    /\ UNCHANGED <<tree, nextNode, mapVars, synced, validated>>

\* The header becomes a child of its parent.  Whether it is live was decided
\* before onHeaderValidated ran, which may have noticed the sync message.  If
\* that callback throws, nothing is changed.
UpdateOnRuntimeAddChild(header, seesSync) ==
    LET parentNode == LookUp(header)
        hash       == header.hash
    IN  /\ Ready /\ RuntimePhase
        /\ nextNode <= MaxNodes
        /\ parentNode \in DOMAIN tree
        /\ CommonValidate(tree[parentNode].header, header)
        /\ validated' = validated \cup {header}
        /\ synced' = (synced \/ seesSync)
        /\ tree' = AddChild(tree, parentNode, nextNode, header)
        /\ nextNode' = nextNode + 1
        /\ IF synced
           THEN /\ m_activeNodes' = Insert(m_activeNodes, hash, nextNode)
                /\ UNCHANGED m_offlineNodes
           ELSE /\ m_offlineNodes' = Insert(m_offlineNodes, hash, nextNode)
                /\ UNCHANGED m_activeNodes
        /\ currBlkNum' = header.number
        /\ pc' = "phaseChange"
        /\ UpdateOnRuntimeUnchanged

\* The look-up found a pointer to a node that was destroyed.
UpdateOnRuntimeDangles(header) ==
    /\ Ready /\ RuntimePhase
    /\ LookUp(header) \notin DOMAIN tree \cup {NoNode}
    /\ Undefined("useAfterFree")

-----------------------------------------------------------------------------
(* Update, second step: PhaseChangeCheck, and what it shares with the user. *)

\* EclipseMonitor::EndBootstrapI: the last header becomes the first node.
EndBootstrapI ==
    /\ EndBootstrapPhase
    /\ tree' = [n \in DOMAIN tree \cup {nextNode} |->
                    IF n = nextNode THEN Leaf(m_lastNode', NoNode) ELSE tree[n]]
    /\ root' = nextNode
    /\ nextNode' = nextNode + 1
    /\ m_offlineNodes' = Assign(m_offlineNodes, m_lastNode'.hash, nextNode)
    /\ m_phase' = "BootstrapII"
    /\ UNCHANGED <<planVars, m_activeNodes, synced, secState, undefined,
                   histVars>>

\* Leaves whatever phase it is called in.
RefreshSyncMsg ==
    /\ m_phase' = "Sync"
    /\ synced' = FALSE
    /\ UNCHANGED <<planVars, chkptVars, treeVars, mapVars, secState, undefined,
                   histVars>>

SamePhase ==
    UNCHANGED <<m_phase, planVars, chkptVars, treeVars, mapVars, synced,
                secState, undefined, histVars>>

AtBootstrapIEnd == m_phase = "BootstrapI" /\ currBlkNum = m_bootstrapIEndBlkNum
AtPlanedSync == m_phase = "BootstrapII" /\ currBlkNum = m_planedSyncBlkNum

\* EndBootstrapI throws: "There are still headers in candidate window".
PhaseChangeThrows == m_candidate # <<>> /\ SamePhase /\ pc' = "idle"

\* Mutant: no maintenance in the update that begins the sync phase.
PhaseChangeCheckReturns ==
    /\ pc = "phaseChange"
    /\ currBlkNum' = 0
    /\ \/ AtBootstrapIEnd /\ EndBootstrapI /\ pc' = "confirm"
       \/ AtBootstrapIEnd /\ PhaseChangeThrows
       \/ AtPlanedSync /\ RefreshSyncMsg /\ pc' = "idle"
       \/ /\ ~AtBootstrapIEnd /\ ~AtPlanedSync
          /\ SamePhase
          /\ pc' = IF RuntimePhase THEN "confirm" ELSE "idle"

PhaseChangeCheck ==
    /\ pc = "phaseChange"
    /\ currBlkNum' = 0
    /\ \/ AtBootstrapIEnd /\ EndBootstrapI /\ pc' = "confirm"
       \/ AtBootstrapIEnd /\ PhaseChangeThrows
       \/ AtPlanedSync /\ RefreshSyncMsg /\ pc' = "confirm"
       \/ /\ ~AtBootstrapIEnd /\ ~AtPlanedSync
          /\ SamePhase
          /\ pc' = IF RuntimePhase THEN "confirm" ELSE "idle"

-----------------------------------------------------------------------------
(* Update, last steps: RuntimeMaintenance.                                  *)

\* GetLastNodePtr throws: "No header has been added to this checkpoint".
MaintenanceThrows ==
    /\ pc = "confirm"
    /\ root = NoNode
    /\ SamePhase
    /\ pc' = "idle"
    /\ UNCHANGED currBlkNum

NothingToConfirm ==
    /\ pc = "confirm"
    /\ root # NoNode
    /\ ChildHasNDesc(tree, root, ChkptSize) = NoNode
    /\ SamePhase
    /\ pc' = "expire"
    /\ UNCHANGED currBlkNum

\* Mutant: only the old root is erased.
NoLongerActiveButChild(confirmedChild) == {tree[root].header.hash}

\* "both last node and confirmed child are not active anymore"
NoLongerActive(confirmedChild) ==
    {tree[root].header.hash, tree[confirmedChild].header.hash}

\* A child of the root with enough descendants becomes the new root.
ConfirmChild ==
    LET confirmedChild == ChildHasNDesc(tree, root, ChkptSize)
        header         == tree[confirmedChild].header
        erased         == NoLongerActive(confirmedChild)
    IN  /\ pc = "confirm"
        /\ root # NoNode
        /\ confirmedChild # NoNode
        /\ m_offlineNodes' = Erase(m_offlineNodes, erased)
        /\ m_activeNodes' = Erase(m_activeNodes, erased)
        /\ tree' = ReleaseChild(tree, confirmedChild)
        /\ root' = confirmedChild
        /\ \/ AddNodeKeeps(header) /\ NoCheckpoint(secState, "expire")
           \/ AddNodeCompletes(header) /\ OnCheckpointComplete(secState, "expire")
        /\ UNCHANGED <<m_phase, planVars, nextNode, synced, currBlkNum,
                       undefined, validated>>

\* Every active node is shown to the difficulty checker.
ActiveDangles ==
    \E hash \in DOMAIN m_activeNodes : m_activeNodes[hash] \notin DOMAIN tree

ExpireDangles ==
    /\ pc = "expire"
    /\ ActiveDangles
    /\ Undefined("useAfterFree")

\* Entries are erased from the map inside the loop that iterates over it:
\* the first erasure invalidates the iterator.  What a build does then is to
\* go on and erase some or all of the expired nodes, or to fail.  The checker
\* may also have thrown at any point.
ExpireActiveNodes ==
    /\ pc = "expire"
    /\ ~ActiveDangles
    /\ \E expired \in SUBSET DOMAIN m_activeNodes :
        m_activeNodes' = Erase(m_activeNodes, expired)
    /\ pc' = "idle"
    /\ UNCHANGED <<m_phase, planVars, chkptVars, treeVars, m_offlineNodes,
                   synced, secState, currBlkNum, undefined, histVars>>

ExpireFails ==
    /\ pc = "expire"
    /\ ~ActiveDangles
    /\ m_activeNodes # << >>
    /\ Undefined("eraseInLoop")

-----------------------------------------------------------------------------
(* The other operations of the interface.                                   *)

RefreshBootstrapPlan(latestBlkNum, startBlkNum) ==
    /\ Ready
    /\ m_startBlockNum' = startBlkNum
    /\ m_bootstrapIEndBlkNum' =
        IF m_phase = "BootstrapI"
        THEN CalcBootstrapIEndBlkNum(latestBlkNum, startBlkNum)
        ELSE m_bootstrapIEndBlkNum
    /\ m_planedSyncBlkNum' =
        IF m_phase \in {"BootstrapI", "BootstrapII"}
        THEN latestBlkNum
        ELSE m_planedSyncBlkNum
    /\ UNCHANGED <<m_phase, chkptVars, treeVars, mapVars, synced, secState, pc,
                   currBlkNum, undefined, histVars>>

\* The optional argument is absent, or given.
UserRefreshesPlan ==
    /\ "RefreshBootstrapPlan" \in UserCalls
    /\ \E latest \in LatestNums, start \in StartNums \cup {m_startBlockNum} :
            RefreshBootstrapPlan(latest, start)

\* On an empty monitor the call is undefined, and left to the caller to avoid.
UserEndsBootstrapI ==
    /\ "EndBootstrapI" \in UserCalls
    /\ Ready
    /\ EndBootstrapI
    /\ UNCHANGED <<pc, currBlkNum>>

UserRefreshesSync ==
    /\ "RefreshSyncMsg" \in UserCalls
    /\ Ready
    /\ RefreshSyncMsg
    /\ UNCHANGED <<pc, currBlkNum>>

UserEndsSync ==
    /\ "EndSync" \in UserCalls
    /\ Ready
    /\ m_phase' = "Runtime"
    /\ UNCHANGED <<planVars, chkptVars, treeVars, mapVars, synced, secState, pc,
                   currBlkNum, undefined, histVars>>

\* The event manager notices the sync message in time.  A header of Bootstrap
\* I has trusted time 0, before any sync message was generated.
SyncMessage ==
    /\ Defined /\ RuntimePhase
    /\ ~synced
    /\ synced' = TRUE
    /\ UNCHANGED <<m_phase, planVars, chkptVars, treeVars, mapVars, secState, pc,
                   currBlkNum, undefined, histVars>>

-----------------------------------------------------------------------------

Update(header) ==
    \/ UpdateOnBootstrapI(header)
    \/ UpdateOnBootstrapIThrows(header)
    \/ UpdateOnRuntimeRejects(header)
    \/ \E seesSync \in BOOLEAN : UpdateOnRuntimeAddChild(header, seesSync)
    \/ UpdateOnRuntimeDangles(header)

RuntimeMaintenance ==
    \/ MaintenanceThrows
    \/ NothingToConfirm
    \/ ConfirmChild
    \/ ExpireDangles
    \/ ExpireActiveNodes
    \/ ExpireFails

Next ==
    \/ \E header \in Header : Update(header)
    \/ PhaseChangeCheck
    \/ RuntimeMaintenance
    \/ UserRefreshesPlan
    \/ UserEndsBootstrapI
    \/ UserRefreshesSync
    \/ UserEndsSync
    \/ SyncMessage

Spec == Init /\ [][Next]_vars

-----------------------------------------------------------------------------
(* Properties.                                                              *)

\* HeaderNode.hpp, m_numOfDesc: "Number of descendants that *this* child has".
\* The counts that AddDescCount maintains along the path to the root are those
\* of the subtrees as they are, whatever was released and destroyed.
DescCountsExact ==
    LET descent == UNION {{n} \X AncestorsOrSelf(tree, n) : n \in DOMAIN tree}
    IN  \A n \in DOMAIN tree :
            tree[n].parent # NoNode =>
                tree[n].numOfDesc = Cardinality({d \in descent : d[2] = n}) - 1

\* No update leaves behind a child of the root that could be confirmed: one
\* confirmation per update is enough, whatever callbacks throw.
NothingConfirmableLeft ==
    pc = "idle" /\ root # NoNode => ChildHasNDesc(tree, root, ChkptSize) = NoNode

\* A confirmed header extends the header confirmed before it, and what decided
\* for it is more than ChkptSize validated headers growing from it.
ConfirmsSupportedChild ==
    [][ root # NoNode /\ root' # root =>
            /\ root' \in DOMAIN tree
            /\ tree[root'].parent = root
            /\ m_lastNode'.parent = m_lastNode.hash
            /\ Cardinality(Subtree(tree, root')) > ChkptSize
      ]_vars

\* onHeaderConfirmed sees the headers of one chain in the order of the chain,
\* each once; none is skipped unless the callback itself has thrown.
ReportedIsChain ==
    \A i \in 1 .. Len(reported) - 1 :
        /\ reported[i].number < reported[i + 1].number
        /\ ~interrupted => reported[i + 1].parent = reported[i].hash

\* onHeaderConfirmed is called for headers that onHeaderValidated was called
\* for, and the callbacks on the way are never bypassed.
ReportedWasValidated ==
    \A i \in 1 .. Len(reported) : reported[i] \in validated

\* The tree under the root is a tree of the block chain, and is about blocks
\* newer than the last confirmed one.
TreeFollowsChain ==
    \A n \in DOMAIN tree :
        IF tree[n].parent = NoNode
        THEN n = root /\ tree[n].header = m_lastNode
        ELSE LET parent == tree[tree[n].parent].header
                 header == tree[n].header
             IN  header.parent = parent.hash /\ header.number = parent.number + 1

\* Once a block has been confirmed over its forks, no update, however late or
\* repeated, gives it another child (its entries in the look-up maps are
\* erased): only the node made by EndBootstrapI, node 1, grows children while
\* it is the root.
ConfirmedGetsNoChild ==
    [][ \A n \in DOMAIN tree' \ DOMAIN tree :
            n > 1 /\ tree'[n].parent = root => root = 1 ]_vars

\* A plan made for the chain that is fed, up to a block not before its start,
\* ends Bootstrap I on the last header of a checkpoint window, whichever window
\* the chain begins with and however often the plan is made again: the monitor
\* is never stopped by "There are still headers in candidate window".  (A plan
\* for a start after the latest block wraps around and does stop it, unless
\* ChkptSize divides 2^64.)
FirstFed == (IF m_currWindow # <<>> THEN m_currWindow ELSE m_candidate)[1].number

PlanIsForThisChain ==
    /\ m_startBlockNum <= m_planedSyncBlkNum + 1
    /\ (FirstFed - m_startBlockNum) % ChkptSize = 0

PlanEndsOnWindow ==
    pc = "phaseChange" /\ AtBootstrapIEnd /\ PlanIsForThisChain
        => m_candidate = <<>> /\ m_currWindow # <<>>

\* The plan leaves between two and three checkpoint windows, from the end of
\* Bootstrap I to the latest block, to be followed in Bootstrap II, however
\* often it is refreshed and whichever operations come between.
PlanLeavesTwoWindows ==
    m_phase = "BootstrapI" /\ m_planedSyncBlkNum # Modulus - 1
        /\ m_planedSyncBlkNum - m_startBlockNum + 1 >= 3 * ChkptSize
        => m_planedSyncBlkNum - m_bootstrapIEndBlkNum
                \in 2 * ChkptSize .. 3 * ChkptSize - 1

\* The look-up maps point to nodes that exist, as they would if the map were
\* cleared when the checkpoint is updated (docs/flow_diagram.drawio).
NoUseAfterFree == undefined # "useAfterFree"
=============================================================================

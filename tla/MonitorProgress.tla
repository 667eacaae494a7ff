--------------------------- MODULE MonitorProgress ---------------------------
(***************************************************************************)
(* EclipseMonitor fed one chain in order, by a user who planned the         *)
(* bootstrap once, before the first header, for a chain that then grows to  *)
(* at least the block planned for.  The callbacks return, the difficulty    *)
(* checker accepts the blocks and no active node expires: the monitor then  *)
(* has to leave the bootstrap phases and to confirm.                        *)
(***************************************************************************)
EXTENDS EclipseMonitor

\* The newest header of the chain that the monitor holds.
Newest ==
    IF root = NoNode THEN GetLastHeader ELSE tree[nextNode - 1].header

Extends(header) ==
    IF IsEmpty THEN header.number = m_startBlockNum
               ELSE header.parent = Newest.hash

\* The calls made before the first header.
Plan(latest, start) ==
    /\ IsEmpty
    /\ m_planedSyncBlkNum = Modulus - 1
    /\ RefreshBootstrapPlan(latest, start)

Planned == m_planedSyncBlkNum # Modulus - 1

FeedNext ==
    /\ Planned
    /\ \E header \in Header :
        /\ Extends(header)
        /\ \/ UpdateOnBootstrapI(header)
           \/ UpdateOnRuntimeAddChild(header, FALSE)
    /\ UNCHANGED interrupted

Maintain ==
    \/ MaintenanceThrows
    \/ NothingToConfirm
    \/ ConfirmChild /\ UNCHANGED interrupted
    \/ ExpireActiveNodes /\ UNCHANGED m_activeNodes

Step == FeedNext \/ PhaseChangeCheck \/ Maintain

ChainNext ==
    \/ \E latest \in LatestNums, start \in StartNums : Plan(latest, start)
    \/ Step
    \/ SyncMessage

\* Update is called again and again as long as there are blocks, and a call
\* runs to its end; nothing is assumed of the sync message.
ChainSpec == Init /\ [][ChainNext]_vars /\ WF_vars(Step)

-----------------------------------------------------------------------------

LastNum == CHOOSE n \in {h.number : h \in Header} :
                \A h \in Header : h.number <= n

\* What PhaseChangeCheck is for: a plan made in time, for at least three
\* windows of a chain that reaches the planned block, is eventually carried
\* out, although both phase changes hang on the equality of a block number.
PlanIsCarriedOut ==
    \A latest \in LatestNums, start \in StartNums :
        latest <= LastNum /\ latest - start + 1 >= 3 * ChkptSize =>
            ( m_planedSyncBlkNum = latest /\ m_startBlockNum = start
                ~> m_phase = "Sync" )

\* What ReleaseChildHasNDesc and the checkpoint window are for: once the plan
\* is carried out, every window that ends ChkptSize blocks or more before the
\* end of the chain is reported, to its last header.
WindowEnd(number, start) ==
    number + ChkptSize - 1 - ((number - start) % ChkptSize)

DeepBlocksAreReported ==
    \A header \in Header :
        ( m_phase = "Sync" /\ header.number >= m_startBlockNum
            /\ WindowEnd(header.number, m_startBlockNum) + ChkptSize <= LastNum )
        ~> (\E i \in 1 .. Len(reported) : reported[i] = header)
=============================================================================

----------------------------- MODULE SyncEvents ------------------------------
(***************************************************************************)
(* Classes EventManager, SyncMsgMgr(Base) and SyncState: how the monitor    *)
(* learns that its sync message is on the block chain, by several threads.  *)
(*                                                                          *)
(* A checking thread calls EventManager::CheckEvents with a block: under    *)
(* the mutex of the listener map it finds the listeners whose event the     *)
(* block holds; after releasing it, it calls them one by one.  A refreshing *)
(* thread calls SyncMsgMgr::NewSyncState, under the mutex of the manager:   *)
(* it cancels the listener of the last sync state, builds a new state and   *)
(* listens for that one.  Listen and Cancel take the mutex of the map.      *)
(*                                                                          *)
(* A sync state is a number, and its nonce, by which an event names it, is  *)
(* the same number.  A listener is identified by the address of its         *)
(* EventDescription, which the allocator may give out again once it has     *)
(* been freed.  There is never more than one listener, so that a block is   *)
(* described by the one state whose event it holds, logged once or twice.   *)
(***************************************************************************)
EXTENDS Integers, FiniteSets

CONSTANTS
    Checker,        \* threads that call CheckEvents
    Refresher,      \* threads that call NewSyncState
    Address,        \* the addresses EventDescriptions are allocated at
    AddressReuse,   \* does the allocator give out a freed address again
    NoThread,       \* owner of a free mutex
    NoState,        \* no sync state
    MaxWaitTime,    \* MonitorConfig syncMaxWaitTime
    TimeModulus,    \* 2^64: TrustedTimestamp is uint64_t
    MaxState,       \* bound on the sync states generated, for TLC
    MaxTime,        \* bound on the clock, for TLC
    MaxCheck        \* bound on the calls of CheckEvents, for TLC

ASSUME SyncAssumption ==
    /\ NoThread \notin Checker \cup Refresher
    /\ AddressReuse \in BOOLEAN
    /\ MaxWaitTime \in Nat
    /\ MaxState \in Nat \ {0}
    /\ MaxTime \in Nat \ {0}
    /\ MaxCheck \in Nat
    /\ TimeModulus \in Nat
    /\ TimeModulus > MaxTime + MaxWaitTime
    /\ NoState \notin Nat

VARIABLES
    now,            \* the trusted clock
    genTime,        \* SyncState::m_genTime, of the states generated
    isSynced,       \* SyncState::m_isSynced
    lastSyncState,  \* SyncMsgMgrBase::m_lastSyncState
    callbackId,     \* SyncMsgMgr::m_syncEventCallbackId
    stateMutex,     \* owner of SyncMsgMgr::m_syncStateMutex
    eventDescMap,   \* EventManager: address of a listener -> its sync state
    mapMutex,       \* owner of EventManager::m_eventDescMapMutex
    pc,             \* next step of each thread
    header,         \* the block each checking thread works on
    plan,           \* and the calls it still has to make
    newState,       \* the state each refreshing thread has built
    used,           \* history: addresses ever allocated
    seen,           \* history: <<state, time>> of the events shown to listeners
    checks          \* history: number of calls of CheckEvents

vars == <<now, genTime, isSynced, lastSyncState, callbackId, stateMutex,
          eventDescMap, mapMutex, pc, header, plan, newState, used, seen, checks>>

checkerVars == <<header, plan, seen, checks>>
managerVars == <<genTime, lastSyncState, callbackId, stateMutex, newState>>

Thread == Checker \cup Refresher
States == DOMAIN genTime

\* A block: the state its events name, how many, and its trusted time.
Block == [state : 1 .. MaxState, events : 0 .. 2, time : 0 .. MaxTime]

\* A callback plan: the listener found, its state, and the calls left.
Plan == [id : Address, state : 1 .. MaxState, left : 0 .. 2]

NoBlock == [state |-> 1, events |-> 0, time |-> 0]
NoPlan == [id |-> CHOOSE a \in Address : TRUE, state |-> 1, left |-> 0]

TypeOK ==
    /\ now \in 1 .. MaxTime
    /\ States \subseteq 1 .. MaxState
    /\ genTime \in [States -> 1 .. MaxTime]
    /\ isSynced \in [States -> BOOLEAN]
    /\ lastSyncState \in States
    /\ callbackId \in Address
    /\ stateMutex \in Refresher \cup {NoThread}
    /\ DOMAIN eventDescMap \subseteq Address
    /\ eventDescMap \in [DOMAIN eventDescMap -> States]
    /\ mapMutex \in Checker \cup {NoThread}
    /\ pc \in [Thread -> {"idle", "check", "call", "cancel",
                          "cancelOld", "build", "listen", "publish"}]
    /\ header \in [Checker -> Block]
    /\ plan \in [Checker -> Plan]
    /\ newState \in [Refresher -> States \cup {NoState}]
    /\ used \subseteq Address
    /\ seen \subseteq States \X (0 .. MaxTime)
    /\ checks \in 0 .. MaxCheck

\* The constructor of SyncMsgMgr builds a first state and listens for it.
Init ==
    /\ now = 1
    /\ genTime = [s \in {1} |-> 1]
    /\ isSynced = [s \in {1} |-> FALSE]
    /\ lastSyncState = 1
    /\ callbackId \in Address
    /\ stateMutex = NoThread
    /\ eventDescMap = [a \in {callbackId} |-> 1]
    /\ mapMutex = NoThread
    /\ pc = [t \in Thread |-> "idle"]
    /\ header = [t \in Checker |-> NoBlock]
    /\ plan = [t \in Checker |-> NoPlan]
    /\ newState = [t \in Refresher |-> NoState]
    /\ used = {callbackId}
    /\ seen = {}
    /\ checks = 0

Goto(t, step) == pc' = [pc EXCEPT ![t] = step]

Tick ==
    /\ now < MaxTime
    /\ now' = now + 1
    /\ UNCHANGED <<managerVars, checkerVars, isSynced, eventDescMap, mapMutex,
                   pc, used>>

-----------------------------------------------------------------------------
(* The map of listeners.  Each operation is one critical section.           *)

MapIsFree == mapMutex = NoThread

Free(a) == a \notin DOMAIN eventDescMap /\ (AddressReuse \/ a \notin used)

Listen(a, state) ==
    /\ MapIsFree
    /\ Free(a)
    /\ eventDescMap' = [b \in DOMAIN eventDescMap \cup {a} |->
                            IF b = a THEN state ELSE eventDescMap[b]]
    /\ used' = used \cup {a}

Cancel(a) ==
    /\ MapIsFree
    /\ eventDescMap' = [b \in DOMAIN eventDescMap \ {a} |-> eventDescMap[b]]
    /\ UNCHANGED used

-----------------------------------------------------------------------------
(* CheckEvents.                                                             *)

\* A block holds events of states that existed when it was made.  The blocks
\* of Bootstrap I have trusted time 0.  Blocks without events are all alike.
PossibleBlock(block) ==
    /\ block.state \in States
    /\ block.events = 0 => block = NoBlock
    /\ block.time = 0 \/ block.time \in genTime[block.state] .. now

CheckBegins(t) ==
    /\ pc[t] = "idle"
    /\ checks < MaxCheck
    /\ MapIsFree
    /\ mapMutex' = t
    /\ \E block \in Block :
        PossibleBlock(block) /\ header' = [header EXCEPT ![t] = block]
    /\ checks' = checks + 1
    /\ Goto(t, "check")
    /\ UNCHANGED <<now, managerVars, isSynced, eventDescMap, plan, used, seen>>

\* Is the event of the listener at address a in the block?
Holds(block, a) == eventDescMap[a] = block.state /\ block.events > 0

Found(t) == {a \in DOMAIN eventDescMap : Holds(header[t], a)}

CheckUnchanged ==
    UNCHANGED <<now, managerVars, isSynced, eventDescMap, used, checks>>

\* Nothing is found in the bloom filter, which has no false negatives; or only
\* false positives, and then nothing in the receipts.  Or there is something
\* in the bloom filter, but the receipts are not to be had or their root does
\* not match: an exception.
CheckFindsNothing(t) ==
    /\ pc[t] = "check"
    /\ Found(t) = {}
    /\ mapMutex' = NoThread
    /\ header' = [header EXCEPT ![t] = NoBlock]
    /\ Goto(t, "idle")
    /\ CheckUnchanged /\ UNCHANGED <<plan, seen>>

\* Mutant: the exception leaves the mutex locked.
CheckThrowsLocked(t) ==
    /\ pc[t] = "check"
    /\ Found(t) # {}
    /\ header' = [header EXCEPT ![t] = NoBlock]
    /\ Goto(t, "idle")
    /\ CheckUnchanged /\ UNCHANGED <<mapMutex, plan, seen>>

CheckThrows(t) ==
    /\ pc[t] = "check"
    /\ Found(t) # {}
    /\ mapMutex' = NoThread
    /\ header' = [header EXCEPT ![t] = NoBlock]
    /\ Goto(t, "idle")
    /\ CheckUnchanged /\ UNCHANGED <<plan, seen>>

CheckPlansCalls(t) ==
    /\ pc[t] = "check"
    /\ mapMutex' = NoThread
    /\ \E a \in Found(t) :
        /\ plan' = [plan EXCEPT ![t] = [id |-> a, state |-> eventDescMap[a],
                                        left |-> header[t].events]]
        /\ seen' = seen \cup {<<eventDescMap[a], header[t].time>>}
    /\ Goto(t, "call")
    /\ CheckUnchanged /\ UNCHANGED header

\* Mutant: computed in signed integers.
InTimeSigned(recvTime, state) == recvTime - genTime[state] <= MaxWaitTime

\* Mutant: the last moment is too late.
InTimeStrictly(recvTime, state) ==
    (recvTime - genTime[state]) % TimeModulus < MaxWaitTime

\* SyncState::SetSynced, in unsigned arithmetic.
InTime(recvTime, state) ==
    (recvTime - genTime[state]) % TimeModulus <= MaxWaitTime

\* The callback made by RegisterSyncEvent_Locked: first half.
CallSetsSynced(t) ==
    LET state == plan[t].state
    IN  /\ pc[t] = "call"
        /\ isSynced' = [isSynced EXCEPT ![state] =
                            @ \/ InTime(header[t].time, state)]
        /\ Goto(t, "cancel")
        /\ UNCHANGED <<now, managerVars, checkerVars, eventDescMap, mapMutex,
                       used>>

\* Mutant: the listener registered last is cancelled.
CallCancelsLast(t) ==
    /\ pc[t] = "cancel"
    /\ Cancel(callbackId)
    /\ IF plan[t].left = 1
       THEN /\ plan' = [plan EXCEPT ![t] = NoPlan]
            /\ header' = [header EXCEPT ![t] = NoBlock]
            /\ Goto(t, "idle")
       ELSE /\ plan' = [plan EXCEPT ![t].left = @ - 1]
            /\ Goto(t, "call")
            /\ UNCHANGED header
    /\ UNCHANGED <<now, managerVars, isSynced, mapMutex, seen, checks>>

\* Second half: the listener is cancelled, whether the state is synced or not.
CallCancels(t) ==
    /\ pc[t] = "cancel"
    /\ Cancel(plan[t].id)
    /\ IF plan[t].left = 1
       THEN /\ plan' = [plan EXCEPT ![t] = NoPlan]
            /\ header' = [header EXCEPT ![t] = NoBlock]
            /\ Goto(t, "idle")
       ELSE /\ plan' = [plan EXCEPT ![t].left = @ - 1]
            /\ Goto(t, "call")
            /\ UNCHANGED header
    /\ UNCHANGED <<now, managerVars, isSynced, mapMutex, seen, checks>>

-----------------------------------------------------------------------------
(* NewSyncState.                                                            *)

RefreshLocks(t) ==
    /\ pc[t] = "idle"
    /\ Cardinality(States) < MaxState
    /\ stateMutex = NoThread
    /\ stateMutex' = t
    /\ Goto(t, "cancelOld")
    /\ UNCHANGED <<now, genTime, isSynced, lastSyncState, callbackId,
                   eventDescMap, mapMutex, newState, used, checkerVars>>

\* Mutant: the listener of the last state is forgotten.
RefreshCancelsNothing(t) ==
    /\ pc[t] = "cancelOld"
    /\ Goto(t, "build")
    /\ UNCHANGED <<now, managerVars, checkerVars, isSynced, eventDescMap,
                   mapMutex, used>>

RefreshCancels(t) ==
    /\ pc[t] = "cancelOld"
    /\ Cancel(callbackId)
    /\ Goto(t, "build")
    /\ UNCHANGED <<now, managerVars, checkerVars, isSynced, mapMutex>>

\* BuildSyncState: the time of its generation, and a new nonce.
RefreshBuilds(t) ==
    LET state == Cardinality(States) + 1
    IN  /\ pc[t] = "build"
        /\ genTime' = [s \in States \cup {state} |->
                            IF s = state THEN now ELSE genTime[s]]
        /\ isSynced' = [s \in States \cup {state} |->
                            IF s = state THEN FALSE ELSE isSynced[s]]
        /\ newState' = [newState EXCEPT ![t] = state]
        /\ Goto(t, "listen")
        /\ UNCHANGED <<now, lastSyncState, callbackId, stateMutex, eventDescMap,
                       mapMutex, used, checkerVars>>

RefreshListens(t) ==
    /\ pc[t] = "listen"
    /\ \E a \in Address :
        Listen(a, newState[t]) /\ callbackId' = a
    /\ Goto(t, "publish")
    /\ UNCHANGED <<now, genTime, isSynced, lastSyncState, stateMutex, mapMutex,
                   newState, checkerVars>>

RefreshPublishes(t) ==
    /\ pc[t] = "publish"
    /\ lastSyncState' = newState[t]
    /\ newState' = [newState EXCEPT ![t] = NoState]
    /\ stateMutex' = NoThread
    /\ Goto(t, "idle")
    /\ UNCHANGED <<now, genTime, isSynced, callbackId, eventDescMap, mapMutex,
                   used, checkerVars>>

-----------------------------------------------------------------------------

CheckEvents(t) ==
    \/ CheckFindsNothing(t)
    \/ CheckThrows(t)
    \/ CheckPlansCalls(t)
    \/ CallSetsSynced(t)
    \/ CallCancels(t)

NewSyncState(t) ==
    \/ RefreshCancels(t)
    \/ RefreshBuilds(t)
    \/ RefreshListens(t)
    \/ RefreshPublishes(t)

Next ==
    \/ Tick
    \/ \E t \in Checker : CheckBegins(t) \/ CheckEvents(t)
    \/ \E t \in Refresher : RefreshLocks(t) \/ NewSyncState(t)

\* A call that was begun goes on: the mutexes are fair to the threads, and the
\* getter of the receipts, which runs under one of them, returns.
Fairness ==
    /\ \A t \in Checker : SF_vars(CheckEvents(t))
    /\ \A t \in Refresher : SF_vars(NewSyncState(t))

Spec == Init /\ [][Next]_vars /\ Fairness

-----------------------------------------------------------------------------
(* Properties.                                                              *)

\* MonitorReport.hpp, syncMaxWaitTime: "If the sync message is detected after
\* this time, the sync process is unsuccessful".  A state is synced only by a
\* message of its own, in a block received within the time, and not before
\* the state was generated.
SyncedByTimelyMessage ==
    \A s \in States :
        isSynced[s] =>
            \E m \in seen : /\ m[1] = s
                            /\ m[2] >= genTime[s]
                            /\ m[2] <= genTime[s] + MaxWaitTime

\* At most one listener, and only for the newest state: the message of a
\* state that was replaced is not listened for.
ListensForNewestOnly ==
    /\ Cardinality(DOMAIN eventDescMap) <= 1
    /\ \A a \in DOMAIN eventDescMap :
        /\ a = callbackId
        /\ eventDescMap[a] = Cardinality(States) \/ stateMutex # NoThread

\* TestEthSyncMsgMgr.cpp: after NewSyncState "EXPECT_EQ(
\* eventMgr->GetNumOfListeners(), 1)".  While the last sync state waits for its
\* message, that is until a block with the message was shown to its listener,
\* it is listened for.
LastStateIsListenedFor ==
    stateMutex = NoThread /\ (\A m \in seen : m[1] # lastSyncState)
        => \E a \in DOMAIN eventDescMap : eventDescMap[a] = lastSyncState

\* A message found in time is not lost: the state it is for becomes synced.
FoundMessageSyncs ==
    \A s \in 1 .. MaxState :
        (\E m \in seen : m[1] = s /\ m[2] \in genTime[s] .. genTime[s] + MaxWaitTime)
            ~> (s \in States /\ isSynced[s])

\* No call is stuck: the two mutexes are never waited for in a circle, and an
\* exception releases them.
CallsReturn == \A t \in Thread : pc[t] # "idle" ~> pc[t] = "idle"
=============================================================================

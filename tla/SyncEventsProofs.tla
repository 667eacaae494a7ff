-------------------------- MODULE SyncEventsProofs ---------------------------
(***************************************************************************)
(* Theorems about SyncEvents, for any sets of threads, any addresses and    *)
(* any bounds.                                                              *)
(*                                                                          *)
(* The invariants are proved in layers, each with the help of those before: *)
(* who holds the mutex of the manager and which state is the newest; what   *)
(* the map of listeners holds; what the calls still to be made are about;   *)
(* and, if freed addresses are not given out again, that no such call is    *)
(* about to cancel the listener of a state that waits for its message.      *)
(***************************************************************************)
EXTENDS SyncEvents, FiniteSetTheorems, TLAPS

Newest == Cardinality(States)

Refreshing(t) == pc[t] \in {"cancelOld", "build", "listen", "publish"}
Calling(t) == pc[t] \in {"call", "cancel"}

\* The state that the listener registered last is for.
ListenedState ==
    IF stateMutex # NoThread /\ pc[stateMutex] = "publish"
    THEN newState[stateMutex]
    ELSE lastSyncState

\* States are numbered as they are built.
StatesAreNumbered == Newest \in Nat \ {0} /\ States = 1 .. Newest

\* The mutex of the manager is held by the thread that refreshes, if any.
OneRefreshes ==
    \A t \in Thread :
        /\ Refreshing(t) <=> stateMutex = t
        /\ pc[t] \in {"cancelOld", "build"} => Newest < MaxState
        /\ pc[t] \in {"listen", "publish"} => newState[t] = Newest

NewestIsPublished ==
    stateMutex = NoThread \/ pc[stateMutex] \in {"cancelOld", "build"}
        => lastSyncState = Newest

CallsAreLeft == \A t \in Checker : Calling(t) => plan[t].left \in 1 .. 2

ThreadInv ==
    /\ TypeOK
    /\ StatesAreNumbered
    /\ OneRefreshes
    /\ NewestIsPublished
    /\ CallsAreLeft

\* The map holds at most the listener registered last, for its state.
MapInv ==
    /\ DOMAIN eventDescMap \subseteq {callbackId}
    /\ \A t \in Thread : pc[t] \in {"build", "listen"} => DOMAIN eventDescMap = {}
    /\ \A a \in DOMAIN eventDescMap : eventDescMap[a] = ListenedState

\* A block in hand is not older than the state whose events it holds, and the
\* calls planned are for that state, whose event has been seen.
BlocksAreTimely ==
    \A t \in Checker :
        /\ header[t].state \in States
        /\ header[t].time = 0 \/ header[t].time >= genTime[header[t].state]
        /\ Calling(t) => /\ plan[t].state = header[t].state
                         /\ <<header[t].state, header[t].time>> \in seen

TimeInv == BlocksAreTimely /\ SyncedByTimelyMessage

\* A call that is about to cancel the listener registered last is about the
\* message of the state it is for.
NoForeignCancel ==
    /\ callbackId \in used
    /\ \A t \in Checker :
        Calling(t) => /\ plan[t].id \in used
                      /\ plan[t].id = callbackId => plan[t].state = ListenedState

WaitingIsListenedFor ==
    (\A m \in seen : m[1] # ListenedState)
        /\ (\A t \in Thread : pc[t] \notin {"build", "listen"})
        => callbackId \in DOMAIN eventDescMap

ListenInv == NoForeignCancel /\ WaitingIsListenedFor

USE SyncAssumption DEF Thread, Refreshing, Calling

-----------------------------------------------------------------------------

\* Building a state adds the next number.
LEMMA NumberedStates ==
    ASSUME NEW n \in Nat
    PROVE  Cardinality(1 .. n) = n
<1>1. 1 \in Int /\ n \in Int
  OBVIOUS
<1>2. Cardinality(1 .. n) = IF 1 > n THEN 0 ELSE n - 1 + 1
  BY <1>1, FS_Interval
<1> QED
  BY <1>2

LEMMA InitThread ==
    ASSUME Init
    PROVE  ThreadInv
<1>1. States = 1 .. 1
  BY DEF Init, States
<1>2. Newest = 1
  BY <1>1, NumberedStates DEF Newest
<1>3. NoBlock \in Block
  BY DEF NoBlock, Block
<1>4. NoPlan \in Plan
  BY DEF NoPlan, Plan, Init
<1>5. TypeOK
  BY <1>1, <1>3, <1>4 DEF Init, TypeOK
<1> QED
  BY <1>1, <1>2, <1>5
  DEF Init, ThreadInv, StatesAreNumbered, OneRefreshes, NewestIsPublished,
      CallsAreLeft

\* What the actions of a checking thread leave alone, with the states.
LEMMA CheckerTypes ==
    ASSUME ThreadInv, NEW t \in Checker, CheckBegins(t) \/ CheckEvents(t)
    PROVE  TypeOK' /\ CallsAreLeft'
<1> USE DEF ThreadInv, TypeOK, CallsAreLeft, Goto, CheckUnchanged, managerVars,
            checkerVars, States
<1>1. NoBlock \in Block /\ NoPlan \in Plan
  BY DEF NoBlock, NoPlan, Block, Plan
<1>2. CASE CheckBegins(t)
  BY <1>2 DEF CheckBegins
<1>3. CASE CheckFindsNothing(t)
  BY <1>1, <1>3 DEF CheckFindsNothing
<1>4. CASE CheckThrows(t)
  BY <1>1, <1>4 DEF CheckThrows
<1>5. CASE CheckPlansCalls(t)
  <2>1. PICK a \in Found(t) :
            /\ plan' = [plan EXCEPT ![t] = [id |-> a, state |-> eventDescMap[a],
                                            left |-> header[t].events]]
            /\ seen' = seen \cup {<<eventDescMap[a], header[t].time>>}
    BY <1>5 DEF CheckPlansCalls
  <2>2. /\ a \in Address
        /\ eventDescMap[a] \in 1 .. MaxState /\ eventDescMap[a] \in States
        /\ header[t].events \in 1 .. 2
        /\ header[t].time \in 0 .. MaxTime
    BY DEF Found, Holds, Block
  <2>3. [id |-> a, state |-> eventDescMap[a], left |-> header[t].events] \in Plan
    BY <2>2 DEF Plan
  <2> QED
    BY <1>5, <2>1, <2>2, <2>3 DEF CheckPlansCalls
<1>6. CASE CallSetsSynced(t)
  BY <1>6 DEF CallSetsSynced
<1>7. CASE CallCancels(t)
  <2>1. plan[t].left # 1 => [plan[t] EXCEPT !.left = @ - 1] \in Plan
    BY <1>7 DEF CallCancels, Plan
  <2>2. /\ DOMAIN eventDescMap' \subseteq Address
        /\ eventDescMap' \in [DOMAIN eventDescMap' -> States]
    BY <1>7 DEF CallCancels, Cancel
  <2>3. header' \in [Checker -> Block]
    BY <1>1, <1>7 DEF CallCancels
  <2>4. CASE plan[t].left = 1
    BY <1>1, <1>7, <2>2, <2>3, <2>4 DEF CallCancels, Cancel
  <2>5. CASE plan[t].left # 1
    <3>1. /\ plan' = [plan EXCEPT ![t] = [plan[t] EXCEPT !.left = @ - 1]]
          /\ pc' = [pc EXCEPT ![t] = "call"]
      BY <1>7, <2>5 DEF CallCancels
    <3>2. plan[t].left = 2
      BY <1>7, <2>5 DEF CallCancels
    <3>3. plan' \in [Checker -> Plan] /\ plan'[t].left = 1
      BY <2>1, <2>5, <3>1, <3>2 DEF Plan
    <3>4. CallsAreLeft'
      BY <3>1, <3>3 DEF Plan
    <3> QED
      BY <1>7, <2>2, <2>3, <3>1, <3>3, <3>4 DEF CallCancels, Cancel
  <2> QED
    BY <2>4, <2>5
<1> QED
  BY <1>2, <1>3, <1>4, <1>5, <1>6, <1>7 DEF CheckEvents

\* A checking thread is no refreshing thread while it checks.
LEMMA CheckerKeepsStates ==
    ASSUME ThreadInv, NEW t \in Checker, CheckBegins(t) \/ CheckEvents(t)
    PROVE  /\ UNCHANGED <<managerVars, States, Newest, ListenedState>>
           /\ ~Refreshing(t) /\ ~Refreshing(t)'
           /\ \A u \in Thread \ {t} : pc'[u] = pc[u]
<1>1. /\ UNCHANGED managerVars
      /\ ~Refreshing(t) /\ ~Refreshing(t)'
      /\ \A u \in Thread \ {t} : pc'[u] = pc[u]
  BY DEF ThreadInv, TypeOK, CheckBegins, CheckEvents, CheckFindsNothing,
         CheckThrows, CheckPlansCalls, CallSetsSynced, CallCancels, Goto,
         CheckUnchanged, managerVars
<1>2. stateMutex # NoThread => stateMutex \in Thread /\ Refreshing(stateMutex)
  BY DEF ThreadInv, OneRefreshes, TypeOK
<1> QED
  BY <1>1, <1>2 DEF States, Newest, ListenedState, managerVars

LEMMA CheckerKeepsThreads ==
    ASSUME ThreadInv, NEW t \in Checker, CheckBegins(t) \/ CheckEvents(t)
    PROVE  ThreadInv'
<1>1. TypeOK' /\ CallsAreLeft'
  BY CheckerTypes
<1>2. StatesAreNumbered'
  BY CheckerKeepsStates DEF ThreadInv, StatesAreNumbered
<1>3. OneRefreshes'
  BY CheckerKeepsStates DEF ThreadInv, OneRefreshes, managerVars
<1>4. NewestIsPublished'
  BY CheckerKeepsStates
  DEF ThreadInv, OneRefreshes, NewestIsPublished, managerVars, TypeOK
<1> QED
  BY <1>1, <1>2, <1>3, <1>4 DEF ThreadInv

\* The states after one more has been built.
LEMMA BuiltState ==
    ASSUME ThreadInv, NEW t \in Refresher, RefreshBuilds(t)
    PROVE  /\ Newest \in Nat \ {0} /\ States = 1 .. Newest
           /\ Newest < MaxState
           /\ States' = 1 .. Newest + 1 /\ Newest' = Newest + 1
           /\ genTime' = [s \in 1 .. Newest + 1 |->
                            IF s = Newest + 1 THEN now ELSE genTime[s]]
           /\ isSynced' = [s \in 1 .. Newest + 1 |->
                            IF s = Newest + 1 THEN FALSE ELSE isSynced[s]]
           /\ newState' = [newState EXCEPT ![t] = Newest + 1]
<1>1. Newest \in Nat \ {0} /\ States = 1 .. Newest
  BY DEF ThreadInv, StatesAreNumbered
<1>2. Newest < MaxState
  BY DEF ThreadInv, OneRefreshes, RefreshBuilds
<1>3. States \cup {Newest + 1} = 1 .. Newest + 1
  BY <1>1
<1>4. /\ genTime' = [s \in States \cup {Newest + 1} |->
                        IF s = Newest + 1 THEN now ELSE genTime[s]]
      /\ isSynced' = [s \in States \cup {Newest + 1} |->
                        IF s = Newest + 1 THEN FALSE ELSE isSynced[s]]
      /\ newState' = [newState EXCEPT ![t] = Newest + 1]
  BY Zenon DEF RefreshBuilds, Newest
<1>5. States' = 1 .. Newest + 1
  BY <1>3, <1>4 DEF States
<1>6. Newest' = Cardinality(1 .. Newest + 1)
  BY <1>5 DEF Newest
<1>7. Newest' = Newest + 1
  BY <1>1, <1>6, NumberedStates
<1> QED
  BY <1>1, <1>2, <1>3, <1>4, <1>5, <1>7

LEMMA BuildingKeepsThreads ==
    ASSUME ThreadInv, NEW t \in Refresher, RefreshBuilds(t)
    PROVE  ThreadInv'
<1>0. /\ Newest \in Nat \ {0} /\ States = 1 .. Newest
      /\ Newest < MaxState
      /\ States' = 1 .. Newest + 1 /\ Newest' = Newest + 1
      /\ genTime' = [s \in 1 .. Newest + 1 |->
                        IF s = Newest + 1 THEN now ELSE genTime[s]]
      /\ isSynced' = [s \in 1 .. Newest + 1 |->
                        IF s = Newest + 1 THEN FALSE ELSE isSynced[s]]
      /\ newState' = [newState EXCEPT ![t] = Newest + 1]
  BY BuiltState
<1>a. /\ genTime \in [States -> 1 .. MaxTime]
      /\ isSynced \in [States -> BOOLEAN]
      /\ now \in 1 .. MaxTime
      /\ pc \in [Thread -> {"idle", "check", "call", "cancel",
                             "cancelOld", "build", "listen", "publish"}]
      /\ newState \in [Refresher -> States \cup {NoState}]
  BY DEF ThreadInv, TypeOK
<1>b. pc' = [pc EXCEPT ![t] = "listen"] /\ t \in Thread
  BY DEF RefreshBuilds, Goto
<1>1. /\ genTime' \in [States' -> 1 .. MaxTime]
      /\ isSynced' \in [States' -> BOOLEAN]
  <2>1. \A s \in 1 .. Newest + 1 : s # Newest + 1 => s \in States
    BY <1>0
  <2>2. genTime' \in [States' -> 1 .. MaxTime]
    BY <1>0, <1>a, <2>1
  <2>3. isSynced' \in [States' -> BOOLEAN]
    BY <1>0, <1>a, <2>1, Zenon
  <2> QED
    BY <2>2, <2>3
<1>2. /\ States' \subseteq 1 .. MaxState
      /\ States \subseteq States'
      /\ Newest + 1 \in States'
  BY <1>0, MaxState \in Nat
<1>3. /\ newState' \in [Refresher -> States' \cup {NoState}]
      /\ pc' \in [Thread -> {"idle", "check", "call", "cancel",
                              "cancelOld", "build", "listen", "publish"}]
  BY <1>0, <1>2, <1>a, <1>b
<1>4. TypeOK'
  BY <1>1, <1>2, <1>3 DEF ThreadInv, TypeOK, RefreshBuilds, checkerVars
<1>5. CallsAreLeft'
  BY <1>a, <1>b DEF ThreadInv, CallsAreLeft, RefreshBuilds, checkerVars
<1>6. stateMutex' = t /\ stateMutex = t
  BY DEF ThreadInv, OneRefreshes, RefreshBuilds
<1>8. OneRefreshes'
  BY <1>0, <1>6, <1>a, <1>b DEF ThreadInv, OneRefreshes
<1>9. NewestIsPublished'
  BY <1>6, <1>a, <1>b DEF NewestIsPublished
<1> QED
  BY <1>4, <1>5, <1>8, <1>9, <1>0 DEF ThreadInv, StatesAreNumbered

\* The refreshing thread.
LEMMA RefresherKeepsThreads ==
    ASSUME ThreadInv, NEW t \in Refresher, RefreshLocks(t) \/ NewSyncState(t)
    PROVE  ThreadInv'
<1> USE DEF ThreadInv, TypeOK, Goto, managerVars, checkerVars
<1>1. CASE RefreshLocks(t)
  <2>1. UNCHANGED <<States, Newest>>
    BY <1>1 DEF RefreshLocks, States, Newest
  <2>2. TypeOK'
    BY <1>1, <2>1 DEF RefreshLocks
  <2>3. OneRefreshes' /\ NewestIsPublished' /\ CallsAreLeft'
    BY <1>1, <2>1
    DEF RefreshLocks, OneRefreshes, NewestIsPublished, CallsAreLeft, Newest
  <2> QED
    BY <2>1, <2>2, <2>3 DEF StatesAreNumbered
<1>2. CASE RefreshCancels(t)
  <2>1. UNCHANGED <<States, Newest>>
    BY <1>2 DEF RefreshCancels, States, Newest
  <2>2. TypeOK'
    BY <1>2, <2>1 DEF RefreshCancels, Cancel
  <2>3. OneRefreshes' /\ NewestIsPublished' /\ CallsAreLeft'
    BY <1>2, <2>1
    DEF RefreshCancels, OneRefreshes, NewestIsPublished, CallsAreLeft
  <2> QED
    BY <2>1, <2>2, <2>3 DEF StatesAreNumbered
<1>3. CASE RefreshBuilds(t)
  BY <1>3, BuildingKeepsThreads
<1>4. CASE RefreshListens(t)
  <2>1. UNCHANGED <<States, Newest>>
    BY <1>4 DEF RefreshListens, States, Newest
  <2>2. newState[t] \in States
    BY <1>4 DEF RefreshListens, OneRefreshes, StatesAreNumbered
  <2>3. TypeOK'
    BY <1>4, <2>1, <2>2 DEF RefreshListens, Listen
  <2>4. OneRefreshes' /\ NewestIsPublished' /\ CallsAreLeft'
    BY <1>4, <2>1
    DEF RefreshListens, OneRefreshes, NewestIsPublished, CallsAreLeft
  <2> QED
    BY <2>1, <2>3, <2>4 DEF StatesAreNumbered
<1>5. CASE RefreshPublishes(t)
  <2>1. UNCHANGED <<States, Newest>>
    BY <1>5 DEF RefreshPublishes, States, Newest
  <2>2. newState[t] = Newest /\ Newest \in States
    BY <1>5 DEF RefreshPublishes, OneRefreshes, StatesAreNumbered
  <2>3. TypeOK'
    BY <1>5, <2>1, <2>2 DEF RefreshPublishes
  <2>4. OneRefreshes' /\ NewestIsPublished' /\ CallsAreLeft'
    BY <1>5, <2>1, <2>2
    DEF RefreshPublishes, OneRefreshes, NewestIsPublished, CallsAreLeft
  <2> QED
    BY <2>1, <2>3, <2>4 DEF StatesAreNumbered
<1> QED
  BY <1>1, <1>2, <1>3, <1>4, <1>5 DEF NewSyncState

LEMMA TickKeepsThreads ==
    ASSUME ThreadInv, Tick \/ UNCHANGED vars
    PROVE  ThreadInv'
<1>1. UNCHANGED <<States, Newest>>
  BY DEF Tick, States, Newest, managerVars, vars
<1>2. TypeOK'
  BY <1>1 DEF ThreadInv, TypeOK, Tick, vars, managerVars, checkerVars
<1>3. StatesAreNumbered'
  BY <1>1 DEF ThreadInv, StatesAreNumbered
<1>4. OneRefreshes' /\ NewestIsPublished'
  BY <1>1
  DEF ThreadInv, OneRefreshes, NewestIsPublished, Tick, vars, managerVars
<1>5. CallsAreLeft'
  BY DEF ThreadInv, CallsAreLeft, Tick, vars, checkerVars
<1> QED
  BY <1>2, <1>3, <1>4, <1>5 DEF ThreadInv

THEOREM ThreadsAreTyped == Spec => []ThreadInv
<1>1. ThreadInv /\ [Next]_vars => ThreadInv'
  BY CheckerKeepsThreads, RefresherKeepsThreads, TickKeepsThreads DEF Next
<1> QED
  BY <1>1, InitThread, PTL DEF Spec

-----------------------------------------------------------------------------

\* A refreshing thread in the middle of its call is the only one.
LEMMA HolderIsAlone ==
    ASSUME ThreadInv, NEW t \in Refresher, Refreshing(t)
    PROVE  stateMutex = t /\ \A u \in Thread \ {t} : ~Refreshing(u)
  BY DEF ThreadInv, OneRefreshes

\* How the refreshing thread changes what the listener is for.
LEMMA RefresherEffect ==
    ASSUME ThreadInv, NEW t \in Refresher, RefreshLocks(t) \/ NewSyncState(t)
    PROVE  /\ \A u \in Thread \ {t} : pc'[u] = pc[u] /\ ~Refreshing(u)
           /\ pc[t] \in {"idle", "cancelOld", "build", "listen", "publish"}
           /\ ListenedState' = IF pc[t] = "listen" THEN newState[t]
                                                  ELSE ListenedState
           /\ pc[t] # "cancelOld" /\ pc[t] # "listen" => UNCHANGED eventDescMap
           /\ pc[t] # "listen" => UNCHANGED <<callbackId, used>>
<1> USE DEF Goto, managerVars, checkerVars
<1>a. /\ pc \in [Thread -> {"idle", "check", "call", "cancel",
                             "cancelOld", "build", "listen", "publish"}]
      /\ newState \in [Refresher -> States \cup {NoState}]
      /\ t \in Thread /\ t # NoThread
  BY DEF ThreadInv, TypeOK
<1>1. CASE RefreshLocks(t)
  <2>1. /\ pc[t] = "idle" /\ stateMutex = NoThread /\ stateMutex' = t
        /\ pc' = [pc EXCEPT ![t] = "cancelOld"]
        /\ UNCHANGED <<lastSyncState, eventDescMap, callbackId, used>>
    BY <1>1 DEF RefreshLocks
  <2>2. \A u \in Thread : ~Refreshing(u)
    BY <2>1 DEF ThreadInv, OneRefreshes
  <2> QED
    BY <1>a, <2>1, <2>2 DEF ListenedState
<1>2. ASSUME Refreshing(t) PROVE stateMutex = t /\ \A u \in Thread \ {t} : ~Refreshing(u)
  BY <1>2, HolderIsAlone
<1>3. CASE RefreshCancels(t)
  <2>1. /\ pc[t] = "cancelOld"
        /\ pc' = [pc EXCEPT ![t] = "build"]
        /\ UNCHANGED <<lastSyncState, stateMutex, newState, callbackId, used>>
    BY <1>3 DEF RefreshCancels, Cancel
  <2> QED
    BY <1>a, <1>2, <2>1 DEF ListenedState
<1>4. CASE RefreshBuilds(t)
  <2>1. /\ pc[t] = "build"
        /\ pc' = [pc EXCEPT ![t] = "listen"]
        /\ UNCHANGED <<lastSyncState, stateMutex, callbackId, eventDescMap, used>>
    BY <1>4 DEF RefreshBuilds
  <2> QED
    BY <1>a, <1>2, <2>1 DEF ListenedState
<1>5. CASE RefreshListens(t)
  <2>1. /\ pc[t] = "listen"
        /\ pc' = [pc EXCEPT ![t] = "publish"]
        /\ UNCHANGED <<lastSyncState, stateMutex, newState>>
    BY <1>5 DEF RefreshListens
  <2> QED
    BY <1>a, <1>2, <2>1 DEF ListenedState
<1>6. CASE RefreshPublishes(t)
  <2>1. /\ pc[t] = "publish"
        /\ pc' = [pc EXCEPT ![t] = "idle"]
        /\ lastSyncState' = newState[t] /\ stateMutex' = NoThread
        /\ UNCHANGED <<callbackId, eventDescMap, used>>
    BY <1>6 DEF RefreshPublishes
  <2> QED
    BY <1>a, <1>2, <2>1 DEF ListenedState
<1> QED
  BY <1>1, <1>3, <1>4, <1>5, <1>6 DEF NewSyncState

LEMMA CheckerKeepsMap ==
    ASSUME ThreadInv, MapInv, NEW t \in Checker, CheckBegins(t) \/ CheckEvents(t)
    PROVE  MapInv'
<1>1. /\ UNCHANGED <<callbackId, ListenedState>>
      /\ \A u \in Thread : pc'[u] \in {"build", "listen"} => pc[u] = pc'[u]
  BY CheckerKeepsStates DEF managerVars
<1>2. /\ DOMAIN eventDescMap' \subseteq DOMAIN eventDescMap
      /\ \A a \in DOMAIN eventDescMap' : eventDescMap'[a] = eventDescMap[a]
  <2>1. CASE CallCancels(t)
    <3>1. eventDescMap' = [b \in DOMAIN eventDescMap \ {plan[t].id} |-> eventDescMap[b]]
      BY <2>1 DEF CallCancels, Cancel
    <3> QED
      BY <3>1
  <2>2. CASE CheckBegins(t) \/ CheckFindsNothing(t) \/ CheckThrows(t)
             \/ CheckPlansCalls(t) \/ CallSetsSynced(t)
    <3>1. UNCHANGED eventDescMap
      BY <2>2 DEF CheckBegins, CheckFindsNothing, CheckThrows, CheckPlansCalls,
                  CallSetsSynced, CheckUnchanged
    <3> QED
      BY <3>1
  <2> QED
    BY <2>1, <2>2 DEF CheckEvents
<1> QED
  BY <1>1, <1>2 DEF MapInv

LEMMA RefresherKeepsMap ==
    ASSUME ThreadInv, MapInv, NEW t \in Refresher, RefreshLocks(t) \/ NewSyncState(t)
    PROVE  MapInv'
<1>1. CASE RefreshCancels(t)
  <2>1. DOMAIN eventDescMap' = {} /\ callbackId' = callbackId
    BY <1>1 DEF RefreshCancels, Cancel, MapInv, managerVars
  <2> QED
    BY <2>1 DEF MapInv
<1>2. CASE RefreshListens(t)
  <2>1. PICK a \in Address : Listen(a, newState[t]) /\ callbackId' = a
    BY <1>2 DEF RefreshListens
  <2>2. pc[t] = "listen" /\ pc' = [pc EXCEPT ![t] = "publish"] /\ t \in Thread
    BY <1>2 DEF RefreshListens, Goto
  <2>3. DOMAIN eventDescMap = {}
    BY <2>2 DEF MapInv
  <2>4. DOMAIN eventDescMap' = {a} /\ eventDescMap'[a] = newState[t]
    BY <2>1, <2>3 DEF Listen
  <2>5. ListenedState' = newState[t]
    BY <2>2, RefresherEffect
  <2>6. \A u \in Thread : pc'[u] \notin {"build", "listen"}
    BY <2>2, RefresherEffect DEF ThreadInv, TypeOK
  <2> QED
    BY <2>1, <2>4, <2>5, <2>6 DEF MapInv
<1>3. CASE RefreshLocks(t) \/ RefreshBuilds(t) \/ RefreshPublishes(t)
  <2>1. /\ pc[t] \in {"idle", "build", "publish"}
        /\ pc'[t] \in {"build", "listen"} => pc[t] = "build"
    BY <1>3
    DEF RefreshLocks, RefreshBuilds, RefreshPublishes, Goto, ThreadInv, TypeOK
  <2>2. UNCHANGED <<eventDescMap, callbackId, ListenedState>>
    BY <2>1, RefresherEffect
  <2>3. \A u \in Thread : pc'[u] \in {"build", "listen"} =>
            pc[u] \in {"build", "listen"}
    BY <2>1, RefresherEffect
  <2> QED
    BY <2>2, <2>3 DEF MapInv
<1> QED
  BY <1>1, <1>2, <1>3 DEF NewSyncState

LEMMA MapInvariance == Spec => []MapInv
<1>1. Init => MapInv
  BY DEF Init, MapInv, ListenedState
<1>2. ThreadInv /\ MapInv /\ (Tick \/ UNCHANGED vars) => MapInv'
  BY DEF Tick, vars, MapInv, ListenedState, managerVars
<1>3. ThreadInv /\ MapInv /\ [Next]_vars => MapInv'
  BY <1>2, CheckerKeepsMap, RefresherKeepsMap DEF Next
<1> QED
  BY <1>1, <1>3, ThreadsAreTyped, PTL DEF Spec

\* EventManager and SyncMsgMgr: never more than one listener, and it is for
\* the newest sync state, however checking and refreshing threads interleave.
THEOREM ListensForNewest == Spec => []ListensForNewestOnly
<1>1. ThreadInv /\ MapInv => ListensForNewestOnly
  <2> SUFFICES ASSUME ThreadInv, MapInv PROVE ListensForNewestOnly
    OBVIOUS
  <2>1. IsFiniteSet({callbackId}) /\ Cardinality({callbackId}) = 1
    BY FS_Singleton
  <2>2. Cardinality(DOMAIN eventDescMap) <= 1
    BY <2>1, FS_Subset DEF MapInv
  <2>3. \A a \in DOMAIN eventDescMap :
            a = callbackId /\ (eventDescMap[a] = Newest \/ stateMutex # NoThread)
    BY DEF MapInv, ListenedState, ThreadInv, NewestIsPublished
  <2> QED
    BY <2>2, <2>3 DEF ListensForNewestOnly, Newest
<1> QED
  BY <1>1, ThreadsAreTyped, MapInvariance, PTL

-----------------------------------------------------------------------------
(* Sync states are synced in time.                                          *)

\* uint64_t arithmetic on times: a difference below the modulus is itself, and
\* one below zero is too large to be within the time.
LEMMA TimeDifference ==
    ASSUME NEW g \in 1 .. MaxTime, NEW r \in 0 .. MaxTime,
           r = 0 \/ r >= g,
           (r - g) % TimeModulus <= MaxWaitTime
    PROVE  r >= g /\ r <= g + MaxWaitTime
<1>1. CASE r >= g
  <2>1. (r - g) % TimeModulus = r - g
    BY <1>1
  <2> QED
    BY <1>1, <2>1
<1>2. CASE r = 0
  <2>1. (0 - g) % TimeModulus = TimeModulus - g
    BY SMT
  <2> QED
    BY <1>2, <2>1
<1> QED
  BY <1>1, <1>2

LEMMA CheckerKeepsTime ==
    ASSUME ThreadInv, TimeInv, NEW t \in Checker, CheckBegins(t) \/ CheckEvents(t)
    PROVE  TimeInv'
<1> USE DEF Goto, CheckUnchanged
<1>0. UNCHANGED <<States, genTime>>
  BY CheckerKeepsStates DEF managerVars
<1>a. /\ UNCHANGED <<States, genTime>>
      /\ 1 \in States /\ States \subseteq 1 .. MaxState
      /\ genTime \in [States -> 1 .. MaxTime]
      /\ t \in Thread
  BY <1>0 DEF ThreadInv, StatesAreNumbered, TypeOK
<1>b. /\ header \in [Checker -> Block]
      /\ plan \in [Checker -> Plan]
      /\ isSynced \in [States -> BOOLEAN]
      /\ pc \in [Thread -> {"idle", "check", "call", "cancel",
                             "cancelOld", "build", "listen", "publish"}]
  BY DEF ThreadInv, TypeOK
<1>1. CASE CheckBegins(t)
  <2>1. PICK block \in Block :
            PossibleBlock(block) /\ header' = [header EXCEPT ![t] = block]
    BY <1>1 DEF CheckBegins
  <2>2. block.state \in States
        /\ (block.time = 0 \/ block.time >= genTime[block.state])
    BY <2>1 DEF PossibleBlock, Block
  <2>3. /\ pc' = [pc EXCEPT ![t] = "check"]
        /\ UNCHANGED <<plan, seen, isSynced>>
    BY <1>1 DEF CheckBegins
  <2> QED
    BY <1>a, <1>b, <2>1, <2>2, <2>3
    DEF TimeInv, BlocksAreTimely, SyncedByTimelyMessage
<1>2. CASE CheckFindsNothing(t) \/ CheckThrows(t)
  <2>1. /\ header' = [header EXCEPT ![t] = NoBlock]
        /\ pc' = [pc EXCEPT ![t] = "idle"]
        /\ UNCHANGED <<plan, seen, isSynced>>
    BY <1>2 DEF CheckFindsNothing, CheckThrows
  <2> QED
    BY <1>a, <1>b, <2>1
    DEF TimeInv, BlocksAreTimely, SyncedByTimelyMessage, NoBlock
<1>3. CASE CheckPlansCalls(t)
  <2>1. PICK a \in Found(t) :
            /\ plan' = [plan EXCEPT ![t] = [id |-> a, state |-> eventDescMap[a],
                                            left |-> header[t].events]]
            /\ seen' = seen \cup {<<eventDescMap[a], header[t].time>>}
    BY <1>3 DEF CheckPlansCalls
  <2>2. eventDescMap[a] = header[t].state
    BY DEF Found, Holds
  <2>3. pc' = [pc EXCEPT ![t] = "call"] /\ UNCHANGED <<header, isSynced>>
    BY <1>3 DEF CheckPlansCalls
  <2>4. BlocksAreTimely'
    BY <1>a, <1>b, <2>1, <2>2, <2>3 DEF TimeInv, BlocksAreTimely
  <2>5. SyncedByTimelyMessage'
    BY <1>a, <2>1, <2>3 DEF TimeInv, SyncedByTimelyMessage
  <2> QED
    BY <2>4, <2>5 DEF TimeInv
<1>4. CASE CallSetsSynced(t)
  <2> DEFINE state == plan[t].state
             time == header[t].time
  <2>1. /\ pc[t] = "call" /\ pc' = [pc EXCEPT ![t] = "cancel"]
        /\ UNCHANGED <<header, plan, seen>>
        /\ isSynced' = [isSynced EXCEPT ![state] = @ \/ InTime(time, state)]
    BY <1>4 DEF CallSetsSynced, checkerVars
  <2>2. /\ state = header[t].state /\ state \in States
        /\ <<state, time>> \in seen
        /\ time = 0 \/ time >= genTime[state]
        /\ time \in 0 .. MaxTime /\ genTime[state] \in 1 .. MaxTime
    BY <1>a, <1>b, <2>1 DEF TimeInv, BlocksAreTimely, Block
  <2>3. BlocksAreTimely'
    BY <1>a, <1>b, <2>1 DEF TimeInv, BlocksAreTimely
  <2>4. \A s \in States : isSynced'[s] =>
            isSynced[s] \/ (s = state /\ InTime(time, state))
    BY <1>b, <2>1, Zenon
  <2>5. InTime(time, state) =>
            time >= genTime[state] /\ time <= genTime[state] + MaxWaitTime
    BY <2>2, TimeDifference DEF InTime
  <2>6. SyncedByTimelyMessage'
    <3> SUFFICES ASSUME NEW s \in States, isSynced'[s]
                 PROVE  \E m \in seen : /\ m[1] = s
                                        /\ m[2] >= genTime[s]
                                        /\ m[2] <= genTime[s] + MaxWaitTime
      BY <1>a, <2>1 DEF SyncedByTimelyMessage
    <3>1. CASE isSynced[s]
      BY <3>1 DEF TimeInv, SyncedByTimelyMessage
    <3>2. CASE s = state /\ InTime(time, state)
      BY <2>2, <2>5, <3>2
    <3> QED
      BY <2>4, <3>1, <3>2
  <2> QED
    BY <2>3, <2>6 DEF TimeInv
<1>5. CASE CallCancels(t)
  <2>1. SyncedByTimelyMessage'
    BY <1>5, <1>a DEF CallCancels, TimeInv, SyncedByTimelyMessage
  <2>2. CASE plan[t].left = 1
    <3>1. /\ header' = [header EXCEPT ![t] = NoBlock]
          /\ plan' = [plan EXCEPT ![t] = NoPlan]
          /\ pc' = [pc EXCEPT ![t] = "idle"]
          /\ UNCHANGED seen
      BY <1>5, <2>2 DEF CallCancels
    <3>2. BlocksAreTimely'
      BY <1>a, <1>b, <3>1 DEF TimeInv, BlocksAreTimely, NoBlock
    <3> QED
      BY <2>1, <3>2 DEF TimeInv
  <2>3. CASE plan[t].left # 1
    <3>1. /\ plan' = [plan EXCEPT ![t] = [plan[t] EXCEPT !.left = @ - 1]]
          /\ pc[t] = "cancel" /\ pc' = [pc EXCEPT ![t] = "call"]
          /\ UNCHANGED <<header, seen>>
      BY <1>5, <2>3 DEF CallCancels
    <3>2. /\ \A u \in Checker : plan'[u].state = plan[u].state
          /\ \A u \in Checker : pc'[u] \in {"call", "cancel"} => Calling(u)
      BY <1>a, <1>b, <3>1 DEF Plan
    <3>3. BlocksAreTimely'
      BY <1>a, <3>1, <3>2 DEF TimeInv, BlocksAreTimely
    <3> QED
      BY <2>1, <3>3 DEF TimeInv
  <2> QED
    BY <2>2, <2>3
<1> QED
  BY <1>1, <1>2, <1>3, <1>4, <1>5 DEF CheckEvents

LEMMA RefresherKeepsTime ==
    ASSUME ThreadInv, TimeInv, NEW t \in Refresher, RefreshLocks(t) \/ NewSyncState(t)
    PROVE  TimeInv'
<1>1. /\ UNCHANGED <<header, plan, seen>>
      /\ \A u \in Checker : pc'[u] \in {"call", "cancel"} => Calling(u)
  BY DEF RefreshLocks, NewSyncState, RefreshCancels, RefreshBuilds,
         RefreshListens, RefreshPublishes, checkerVars, Goto, ThreadInv, TypeOK
<1>2. /\ States \subseteq States'
      /\ \A s \in States : genTime'[s] = genTime[s]
      /\ \A s \in States' : isSynced'[s] => s \in States /\ isSynced[s]
  <2>1. CASE RefreshBuilds(t)
    <3>1. /\ Newest \in Nat \ {0} /\ States = 1 .. Newest
          /\ States' = 1 .. Newest + 1
          /\ genTime' = [s \in 1 .. Newest + 1 |->
                            IF s = Newest + 1 THEN now ELSE genTime[s]]
          /\ isSynced' = [s \in 1 .. Newest + 1 |->
                            IF s = Newest + 1 THEN FALSE ELSE isSynced[s]]
      BY <2>1, BuiltState
    <3>2. /\ \A s \in States : s \in 1 .. Newest + 1 /\ s # Newest + 1
          /\ \A s \in States' : s = Newest + 1 \/ s \in States
      BY <3>1
    <3>3. \A s \in States : genTime'[s] = genTime[s]
      BY <3>1, <3>2
    <3>4. \A s \in States' : isSynced'[s] => s \in States /\ isSynced[s]
      BY <3>1, <3>2, Zenon
    <3> QED
      BY <3>1, <3>2, <3>3, <3>4
  <2>2. CASE RefreshLocks(t) \/ RefreshCancels(t) \/ RefreshListens(t)
             \/ RefreshPublishes(t)
    <3>1. UNCHANGED <<genTime, isSynced>>
      BY <2>2 DEF RefreshLocks, RefreshCancels, RefreshListens,
                  RefreshPublishes, managerVars
    <3> QED
      BY <3>1 DEF States
  <2> QED
    BY <2>1, <2>2 DEF NewSyncState
<1>3. BlocksAreTimely'
  BY <1>1, <1>2 DEF TimeInv, BlocksAreTimely
<1>4. SyncedByTimelyMessage'
  BY <1>1, <1>2 DEF TimeInv, SyncedByTimelyMessage
<1> QED
  BY <1>3, <1>4 DEF TimeInv

LEMMA TimeInvariance == Spec => []TimeInv
<1>1. Init => TimeInv
  BY DEF Init, TimeInv, BlocksAreTimely, SyncedByTimelyMessage, NoBlock, States
<1>2. TimeInv /\ (Tick \/ UNCHANGED vars) => TimeInv'
  BY DEF Tick, vars, managerVars, checkerVars, TimeInv, BlocksAreTimely,
         SyncedByTimelyMessage, States
<1>3. ThreadInv /\ TimeInv /\ [Next]_vars => TimeInv'
  BY <1>2, CheckerKeepsTime, RefresherKeepsTime DEF Next
<1> QED
  BY <1>1, <1>3, ThreadsAreTyped, PTL DEF Spec

\* SyncState::SetSynced: a state is synced only by its own message, in a block
\* of its time, although blocks of Bootstrap I have time 0 and the difference
\* of the times is taken in unsigned arithmetic.
THEOREM SyncsInTime == Spec => []SyncedByTimelyMessage
<1>1. TimeInv => SyncedByTimelyMessage
  BY DEF TimeInv
<1> QED
  BY <1>1, TimeInvariance, PTL

-----------------------------------------------------------------------------
(* The last state is listened for, if addresses are not given out again.    *)

LEMMA CheckerKeepsListening ==
    ASSUME ThreadInv, MapInv, TimeInv, ListenInv,
           NEW t \in Checker, CheckBegins(t) \/ CheckEvents(t)
    PROVE  ListenInv'
<1> USE DEF Goto, CheckUnchanged
<1>a. /\ pc \in [Thread -> {"idle", "check", "call", "cancel",
                             "cancelOld", "build", "listen", "publish"}]
      /\ plan \in [Checker -> Plan]
      /\ t \in Thread
  BY DEF ThreadInv, TypeOK
<1>b. /\ UNCHANGED <<callbackId, ListenedState>>
      /\ ~Refreshing(t)
      /\ \A u \in Thread \ {t} : pc'[u] = pc[u]
  BY CheckerKeepsStates DEF managerVars
<1>c. (\A u \in Thread : pc'[u] \notin {"build", "listen"}) =>
            \A u \in Thread : pc[u] \notin {"build", "listen"}
  BY <1>b
<1>1. CASE CheckBegins(t) \/ CheckFindsNothing(t) \/ CheckThrows(t)
             \/ CallSetsSynced(t)
  <2>1. /\ UNCHANGED <<plan, seen, used, eventDescMap>>
        /\ pc'[t] \in {"call", "cancel"} => Calling(t)
    BY <1>1, <1>a DEF CheckBegins, CheckFindsNothing, CheckThrows,
                      CallSetsSynced, checkerVars
  <2>2. NoForeignCancel'
    BY <1>b, <2>1 DEF ListenInv, NoForeignCancel
  <2>3. WaitingIsListenedFor'
    BY <1>b, <1>c, <2>1 DEF ListenInv, WaitingIsListenedFor
  <2> QED
    BY <2>2, <2>3 DEF ListenInv
<1>2. CASE CheckPlansCalls(t)
  <2>1. PICK a \in Found(t) :
            /\ plan' = [plan EXCEPT ![t] = [id |-> a, state |-> eventDescMap[a],
                                            left |-> header[t].events]]
            /\ seen' = seen \cup {<<eventDescMap[a], header[t].time>>}
    BY <1>2 DEF CheckPlansCalls
  <2>2. a = callbackId /\ eventDescMap[a] = ListenedState
    BY DEF Found, MapInv
  <2>3. UNCHANGED <<used, eventDescMap>> /\ seen \subseteq seen'
    BY <1>2, <2>1 DEF CheckPlansCalls
  <2>4. /\ plan'[t].id = callbackId /\ plan'[t].state = ListenedState
        /\ \A u \in Checker \ {t} : plan'[u] = plan[u]
    BY <1>a, <2>1, <2>2
  <2>5. NoForeignCancel'
    BY <1>b, <2>3, <2>4 DEF ListenInv, NoForeignCancel
  <2>6. WaitingIsListenedFor'
    BY <1>b, <1>c, <2>3 DEF ListenInv, WaitingIsListenedFor
  <2> QED
    BY <2>5, <2>6 DEF ListenInv
<1>3. CASE CallCancels(t)
  <2>1. /\ pc[t] = "cancel"
        /\ DOMAIN eventDescMap' = DOMAIN eventDescMap \ {plan[t].id}
        /\ UNCHANGED <<used, seen>>
    BY <1>3 DEF CallCancels, Cancel
  <2>2. WaitingIsListenedFor'
    <3>1. CASE plan[t].id = callbackId
      <4>1. plan[t].state = ListenedState
        BY <2>1, <3>1 DEF ListenInv, NoForeignCancel
      <4>2. \E m \in seen : m[1] = ListenedState
        BY <2>1, <4>1 DEF TimeInv, BlocksAreTimely
      <4> QED
        BY <1>b, <2>1, <4>2 DEF WaitingIsListenedFor
    <3>2. CASE plan[t].id # callbackId
      BY <1>b, <1>c, <2>1, <3>2 DEF ListenInv, WaitingIsListenedFor
    <3> QED
      BY <3>1, <3>2
  <2>3. CASE plan[t].left = 1
    <3>1. /\ plan' = [plan EXCEPT ![t] = NoPlan]
          /\ pc' = [pc EXCEPT ![t] = "idle"]
      BY <1>3, <2>3 DEF CallCancels
    <3>2. NoForeignCancel'
      BY <1>a, <1>b, <2>1, <3>1 DEF ListenInv, NoForeignCancel
    <3> QED
      BY <2>2, <3>2 DEF ListenInv
  <2>4. CASE plan[t].left # 1
    <3>1. /\ plan' = [plan EXCEPT ![t] = [plan[t] EXCEPT !.left = @ - 1]]
          /\ pc' = [pc EXCEPT ![t] = "call"]
      BY <1>3, <2>4 DEF CallCancels
    <3>2. \A u \in Checker :
            /\ plan'[u].state = plan[u].state /\ plan'[u].id = plan[u].id
            /\ pc'[u] \in {"call", "cancel"} => Calling(u)
      BY <1>a, <2>1, <3>1 DEF Plan
    <3>3. NoForeignCancel'
      BY <1>b, <2>1, <3>2 DEF ListenInv, NoForeignCancel
    <3> QED
      BY <2>2, <3>3 DEF ListenInv
  <2> QED
    BY <2>3, <2>4
<1> QED
  BY <1>1, <1>2, <1>3 DEF CheckEvents

LEMMA RefresherKeepsListening ==
    ASSUME ~AddressReuse, ThreadInv, MapInv, ListenInv,
           NEW t \in Refresher, RefreshLocks(t) \/ NewSyncState(t)
    PROVE  ListenInv'
<1>a. /\ UNCHANGED <<plan, seen>>
      /\ \A u \in Checker : pc'[u] \in {"call", "cancel"} => Calling(u)
  BY DEF RefreshLocks, NewSyncState, RefreshCancels, RefreshBuilds,
         RefreshListens, RefreshPublishes, checkerVars, Goto, ThreadInv, TypeOK
<1>b. /\ \A u \in Thread \ {t} : pc'[u] = pc[u] /\ ~Refreshing(u)
      /\ ListenedState' = IF pc[t] = "listen" THEN newState[t] ELSE ListenedState
      /\ pc[t] # "cancelOld" /\ pc[t] # "listen" => UNCHANGED eventDescMap
      /\ pc[t] # "listen" => UNCHANGED <<callbackId, used>>
  BY RefresherEffect
<1>1. CASE RefreshListens(t)
  <2>1. PICK a \in Address : Listen(a, newState[t]) /\ callbackId' = a
    BY <1>1 DEF RefreshListens
  <2>2. /\ a \notin used /\ a \in used' /\ used \subseteq used'
        /\ a \in DOMAIN eventDescMap'
    BY <2>1 DEF Listen, Free
  <2>3. NoForeignCancel'
    BY <1>a, <2>1, <2>2 DEF ListenInv, NoForeignCancel
  <2>4. WaitingIsListenedFor'
    BY <2>1, <2>2 DEF WaitingIsListenedFor
  <2> QED
    BY <2>3, <2>4 DEF ListenInv
<1>2. CASE pc[t] # "listen"
  <2>1. UNCHANGED <<callbackId, used, ListenedState>>
    BY <1>2, <1>b
  <2>2. NoForeignCancel'
    BY <1>a, <2>1 DEF ListenInv, NoForeignCancel
  <2>3. CASE pc[t] \in {"cancelOld", "build"}
    <3>1. pc'[t] \in {"build", "listen"} /\ t \in Thread
      BY <2>3 DEF RefreshLocks, NewSyncState, RefreshCancels, RefreshBuilds,
                  RefreshListens, RefreshPublishes, Goto, ThreadInv, TypeOK
    <3>2. WaitingIsListenedFor'
      BY <3>1 DEF WaitingIsListenedFor
    <3> QED
      BY <2>2, <3>2 DEF ListenInv
  <2>4. CASE pc[t] \notin {"cancelOld", "build"}
    <3>1. UNCHANGED eventDescMap
      BY <1>2, <1>b, <2>4
    <3>2. \A u \in Thread : pc[u] \notin {"build", "listen"}
      BY <1>2, <1>b, <2>4
    <3>3. WaitingIsListenedFor'
      BY <1>a, <2>1, <3>1, <3>2 DEF ListenInv, WaitingIsListenedFor
    <3> QED
      BY <2>2, <3>3 DEF ListenInv
  <2> QED
    BY <2>3, <2>4
<1>3. RefreshListens(t) \/ pc[t] # "listen"
  BY DEF RefreshLocks, NewSyncState, RefreshCancels, RefreshBuilds,
         RefreshPublishes
<1> QED
  BY <1>1, <1>2, <1>3

LEMMA ListenInvariance ==
    ASSUME ~AddressReuse
    PROVE  Spec => []ListenInv
<1>1. Init => ListenInv
  BY DEF Init, ListenInv, NoForeignCancel, WaitingIsListenedFor, ListenedState
<1>2. ListenInv /\ (Tick \/ UNCHANGED vars) => ListenInv'
  BY DEF Tick, vars, managerVars, checkerVars, ListenInv, NoForeignCancel,
         WaitingIsListenedFor, ListenedState
<1>3. ThreadInv /\ MapInv /\ TimeInv /\ ListenInv /\ [Next]_vars => ListenInv'
  BY <1>2, CheckerKeepsListening, RefresherKeepsListening DEF Next
<1> QED
  BY <1>1, <1>3, ThreadsAreTyped, MapInvariance, TimeInvariance, PTL DEF Spec

\* SyncMsgMgr::NewSyncState and the callback of the sync event: if the
\* allocator never gives an address out again, a checking thread cannot cancel
\* the listener of a state that still waits for its message.  The run
\* SyncEventsReuse shows that the assumption is needed.
THEOREM WaitingStateIsListenedFor ==
    ASSUME ~AddressReuse
    PROVE  Spec => []LastStateIsListenedFor
<1>1. ThreadInv /\ MapInv /\ ListenInv => LastStateIsListenedFor
  <2> SUFFICES ASSUME ThreadInv, MapInv, ListenInv,
                      stateMutex = NoThread,
                      \A m \in seen : m[1] # lastSyncState
               PROVE  \E a \in DOMAIN eventDescMap : eventDescMap[a] = lastSyncState
    BY DEF LastStateIsListenedFor
  <2>1. ListenedState = lastSyncState
    BY DEF ListenedState
  <2>2. \A u \in Thread : pc[u] \notin {"build", "listen"}
    BY DEF ThreadInv, OneRefreshes
  <2>3. callbackId \in DOMAIN eventDescMap
    BY <2>1, <2>2 DEF ListenInv, WaitingIsListenedFor
  <2> QED
    BY <2>1, <2>3 DEF MapInv
<1> QED
  BY <1>1, ThreadsAreTyped, MapInvariance, ListenInvariance, PTL

=============================================================================

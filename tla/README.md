# EclipseMonitor in TLA+

EclipseMonitor (lsd-ucsc/EclipseMonitor) is a header-only C++ library, meant to
run inside a trusted enclave.  It is fed the headers of an Ethereum chain by a
host that it does not trust, decides which of them are confirmed, and watches
that the chain does not suddenly become easier to forge, which is what an
eclipse attack looks like from the inside.  This directory models the monitor in
TLA+, checks it with TLC on small instances, and proves the central theorems
about the checkpoint window, plans, the confirmed chain, the sync messages, the
difficulty arithmetic, the search for events and the trie with TLAPS, for every
value of the parameters.

Paths below are relative to `src/include/EclipseMonitor/` unless they start
with `docs/` or `test/`.

## 1. Inventory

### 1.1 How the parts interact

A host thread calls `EclipseMonitor::Update(header)`.  The monitor looks the
parent up in its two maps, asks the **Validator** (which asks the **DAA** for
the required difficulty) and the **DiffChecker**, calls the user's
`onHeaderValidated`, and adds the header to the **CheckpointMgr** (Bootstrap I)
or to the tree of **HeaderNode**s (later phases).  It then changes the phase if
the planned block number has come, confirms a child of the root that has
`checkpointSize` descendants, and forgets active nodes that can no longer be
extended.  When a window completes, `CheckpointMgr` calls back into the monitor,
which updates the security state and the threshold of the DiffChecker and calls
the user's `onHeaderConfirmed` for each header of the window.

The user's `onHeaderValidated` hands the block to **EventManager::CheckEvents**,
usually from the same thread, but the classes have mutexes and may be used from
several.  It searches the block for the events listened for (**BloomFilter**
first, then the **receipts**) and calls the listeners.  **SyncMsgMgr** is such a
listener: its `SyncState` becomes synced when the nonce that the enclave
published comes back in a block, in time.  From then on new headers are live
and their nodes are kept in the map of active nodes.

### 1.2 Components

| component | state | operations | what makes it correct |
|---|---|---|---|
| CheckpointMgr (`Eth/CheckpointMgr.hpp`) | `m_currWindow`, `m_candidate`, `m_lastNode`, `m_isLastNodeCandidate` | AddHeader, EndBootstrapPhase, AddNode, GetLastHeader, GetCheckpointBlkNumRange, GetDiffMedian, IterateCurrWindow | no header lost, repeated or moved to another window; the current window is the last one completed, of the configured size |
| DiffChecker (`Eth/DiffChecker.hpp`) | `m_minDiff` | OnChkptUpd, CheckDifficulty, CheckEstDifficulty | the threshold is that of the last proof-of-work checkpoint and is never read before it is set; a node is given up only when it is useless |
| HeaderNode (`Eth/HeaderNode.hpp`) | a tree with a count per child | AddChild, AddDescCount, ChildHasNDesc, ReleaseChildHasNDesc | counts equal the sizes of the subtrees, through releases and destruction |
| EclipseMonitor and its base (`Eth/EclipseMonitor.hpp`, `EclipseMonitorBase.hpp`) | phase, plan, the two look-up maps, security state | Update, RefreshBootstrapPlan, EndBootstrapI, RefreshSyncMsg, EndSync | headers are confirmed in chain order, each once, after validation and with support; the plan is carried out; no pointer dangles |
| SyncMsgMgr, SyncState (`Eth/SyncMsgMgr.hpp`, `SyncMsgMgrBase.hpp`) | last state, its listener | NewSyncState, the callback, SetSynced | a state is synced by its own message, in time; the last state is the one listened for |
| EventManager (`Eth/EventManager.hpp`) | map of listeners | Listen, Cancel, CheckEvents | callbacks run outside the lock; a call ends; every event of a block reaches its listeners, and nothing else does |
| DAA (`Eth/DAA.hpp`) | none | calculators and estimator | unsigned arithmetic agrees with the formula of the Ethereum rules; the estimate errs on the safe side |
| Validator (`Eth/Validator.hpp`) | none | CommonValidate | number, parent and difficulty fit |
| Network configuration (`Eth/Params.hpp`, `Eth/DataTypes.hpp`) | none | IsBlockOf... | forks chosen by number |
| Receipts and bloom filter (`Eth/Receipt.hpp`, `Eth/ReceiptsMgr.hpp`, `Eth/BloomFilter.hpp`) | the receipts of one block | search for an event | the filter never hides an event; receipts other than those of the block are never searched |
| Trie (`Eth/Trie/`) | tree of nodes | Put, Reset, Hash | canonical form; what was put is there, in whatever order; the hash determines the contents |
| AbiParser (`Eth/AbiParser.hpp`) | the iterator of its user | ToPrimitive, for each type | a value is read as it was encoded; damaged data is refused or still the only encoding of what is read |
| Transactions, HeaderMgr, MonitorReport, Keccak256, support | parsed values | parsing, serialisation | not about behaviour |

### 1.3 What is hard here

The list with lines is `hazards` in `PROJECT.json`.  In short:

* **Shared header, three containers.**  The current window is spread over a
  vector and the root node; the header of the root moves into one of two vectors
  with the next node, and the completion callback reads all this in the middle
  of the change.
* **Phase changes by equality.**  Bootstrap I and II end when a block number
  *equals* a planned one, computed in unsigned arithmetic; miss it and the phase
  never ends, hit it inside a window and an exception follows.
* **Forks and repetitions.**  Headers arrive in any order across forks, twice,
  late; counts are kept incrementally along the path to the root.
* **Pointers.**  The look-up maps hold raw pointers into a tree of which all but
  one branch is destroyed at each confirmation.
* **Exceptions** from user callbacks and from the receipts getter leave an
  update or a critical section half done.
* **Threads.**  A block is searched under one mutex, called back without it,
  while another thread replaces the sync state under a second mutex.
* **Data from the host.**  Receipts are believed only through a root hash that
  the enclave computes itself, from a tree whose shape must not depend on
  anything but its contents, and only if a filter read bit by bit asks for them.
* **Offsets and lengths from a stranger.**  The data of an event says itself how
  long it is and where its parts lie; every sum of these may overflow or point
  outside.
* **Unsigned time and difficulty.**  Differences of timestamps wrap around, the
  estimate has no cap, the bomb delay is off by one by design.

## 2. Modules

| module | models | used by |
|---|---|---|
| `CheckpointMgr` | the class, as operators on its four members | CheckpointLog, EclipseMonitor |
| `Params` | unsigned arithmetic, the Paris block | DiffRules, DAA |
| `DiffRules` | the threshold formula and the two checks, stateless | DiffChecker, HeaderChain |
| `DiffChecker` | `m_minDiff` and its update at a checkpoint | CheckpointLog |
| `WindowLog` | *abstract*: a log reported a window at a time | CheckpointLog |
| `CheckpointLog` | manager, checker and completion callback, fed one chain | proofs, MC |
| `CheckpointLogProofs` | theorems about CheckpointLog | |
| `HeaderNode` | the tree, as operators on a tree value | EclipseMonitor |
| `EclipseMonitor` | `Update` step by step, all phases, forks, exceptions, user calls | MC, MonitorProgress |
| `MonitorProgress` | the same with one well-behaved chain, under fairness | MC |
| `SyncEvents` | EventManager, SyncMsgMgr and SyncState with threads | |
| `EventSearch` | `CheckEvents` down to filter, receipts and logs, for any listeners | MC |
| `KeyValueMap` | *abstract*: a function from keys to values put last | PlacedTrie |
| `TrieKeys` | the keys of receipts and their nibbles | PlacedTrie, Trie |
| `PlacedTrie` | PatriciaTrie as a set of nodes, each with its place | TriePlaces, proofs |
| `Trie` | PatriciaTrie as a tree of pointers, and what its root hash is a hash of | TriePlaces |
| `TriePlaces` | the pointers and the places of their nodes side by side | MC |
| `DAA` | the calculators and the estimator | HeaderChain |
| `HeaderChain` | a chain judged by validator and checker, with a clock | MC, proofs |
| `AbiParser` | the codecs and ToPrimitive, as operators on a block of bytes | AbiReader |
| `AbiReader` | a user reading parameters one by one from damaged data; the encoding | MC |
| `SyncEventsProofs`, `HeaderChainProofs`, `EclipseMonitorProofs`, `EventSearchProofs`, `PlacedTrieProofs` | theorems about the module of that name | |
| `ReportedChainProofs` | theorems about EclipseMonitor, on top of `EclipseMonitorProofs`: windows and plans | |
| `TreeProofs` | lemmas about HeaderNode and theorems about the tree and the look-up maps of EclipseMonitor, on top of `EclipseMonitorProofs` | |
| `MC*` | constant values for TLC | |

### 2.1 CheckpointMgr, DiffChecker, CheckpointLog

The members keep their names.  `m_lastNode` is the header of the node, because
the manager uses nothing else of it; in `EclipseMonitor` the node itself is
`root`.  Each operation of the code has two branches, and so it is two operators,
`AddHeaderKeeps`/`AddHeaderCompletes` and `AddNodeKeeps`/`AddNodeCompletes`; the
module that drives them conjoins what the completion callback does.  The callback
reads the state as the operation leaves it, hence the primes in
`OnCheckpointComplete`, `OnChkptUpd`.  The operations' guards are the conditions
under which the code does not throw; a throw changes nothing.

`m_minDiff` has no initialiser in the code: it starts as `Uninit`, and so does,
as an arbitrary Boolean, `m_isLastNodeCandidate`.

`CheckpointLog` feeds a chain, of any length, starting at any number: AddHeader
in Bootstrap I, EndBootstrapPhase once and where the code allows it, AddNode
then.  The history variables `fed` and `reported` are what went in and what the
user was told.  `WindowLog` states the promise with these two alone, and
`LogSpec` says that the manager implements it; the refinement mapping is the
identity on them.

### 2.2 EclipseMonitor

`Update` is cut where an exception can leave it: `UpdateOnBootstrapI` or
`UpdateOnRuntime*`, `PhaseChangeCheck`, the confirmation (`NothingToConfirm`,
`ConfirmChild`, `MaintenanceThrows`) and the expiry (`ExpireActiveNodes`).  `pc`
is the next step.  Everything a step changes in the code is in its action:
`ConfirmChild`, for instance, erases two hashes from both maps, releases the
child, destroys the rest of the tree, adds the node to the checkpoint manager
and, if that completes a window, runs the whole callback, which may throw after
any number of the reports.

* The tree is a function from nodes to records; the numbers stand for addresses
  and are never reused, so that a pointer that dangles can be told.
  Destroying the old root removes all nodes outside the confirmed subtree.
* The look-up maps map hashes to nodes and keep entries of destroyed nodes.
  Following one is undefined behaviour: the action `...Dangles` sets
  `undefined`, and nothing happens any more.
* Erasing from `m_activeNodes` inside the range-for over it is undefined too.
  What a build does then is to erase any subset or to fail (`ExpireFails`).
* The DiffChecker may answer anything (it has its own module), a callback may
  throw, the sync message may be noticed at any moment, and in particular
  between the reading of `isNewNodeLive` and its use (`seesSync`).
* Headers are a finite set with a main chain, a fork and a block that has
  the wrong number; the host gives any of them at any time, any number of times.

`MonitorProgress` keeps of the same actions those of a good run: one plan, made
before the first header, one chain in order, callbacks that return.

### 2.3 SyncEvents

One action per critical section, or per part of a call between two of them.
`CheckBegins` takes the mutex of the map; `CheckFindsNothing`, `CheckThrows`,
`CheckPlansCalls` release it; `CallSetsSynced`, `CallCancels` are the callback,
which runs without it.  `Refresh*` are the steps of `NewSyncState` under
`m_syncStateMutex`.  States are numbers, and so are their nonces: the code draws
a random nonce per state, and collisions are left out.  Listeners are identified
by the address of their description, as in the code; `AddressReuse` says whether
the allocator may hand out a freed address again.

### 2.4 DAA, HeaderChain

The calculators are the record of their template parameters and one operator,
`EthashDifficulty`, in arithmetic modulo `DiffModulus`.  A constant gives the
first block of each fork.  `HeaderChain` is the newest node of a chain that may
begin before any of the forks, accepted as history (trusted time 0) or live,
with timestamps in any order, and a trusted clock that is not that of the
miners.

### 2.5 EventSearch

A block is a sequence of receipts, a receipt its first byte and its logs, a log
its address and topics; lengths and data of logs are left out.  `Hash` gives the
six bytes of a Keccak hash that the filter uses.  The filter of the header is
built as the rules of Ethereum say (`BloomOf`: one big number, bit `n` set) and
read as the code does (`CheckBloomBits`: byte index from the end, bit in the byte).
The host answers with the receipts of the block or with any others; receipts are
byte strings that are not empty.  A getter that throws instead is in `SyncEvents`
(`CheckThrows`).  The critical section is one action per outcome,
the calls after it one action each, with `Listen` and `Cancel` between them and
callbacks that throw.  The order of the listeners is that of a hash map: any.

### 2.6 Trie

Three levels.  In `Trie` a node is a record, and a missing child a missing nibble in
the domain of `branches`.  `PutKeyLeafNode`, `PutKeyBranchNode` and
`PutKeyExtensionNode` are the functions of the same names, and `matched` is computed
as there.  A hash is the value it is a hash of; so embedding short nodes and hashing
long ones come to the same.  Where `PutKeyExtensionNode` would read past the end of
the key, `PutReadsPastEnd` sets `undefined`, and nothing happens any more.

`PlacedTrie` has the same functions without the recursion.  A node is its place `at`,
the nibbles from the root to it, and the place `to` that its own path leads to: the
key of a leaf, the branch of an extension.  `Put` changes the last node on the way
to its key and no other, which of a tree of pointers takes some thought: every
pointer on the way is replaced.  `TriePlaces` lets the history variable `nodes` be
the nodes of the pointers (`Placed`), and `PlacedSpec` says that they behave as in
`PlacedTrie`.  `KeyValueMap` states what a trie promises; the refinement mapping
looks each key up (`RootContents`), and `Canonical` says which nodes the contents
prescribe.

`KeyAssumption` bounds the length of keys, because `PrefixMatchedLen` counts nibbles
in a `uint8_t`; the keys of receipts and transactions have at most nine bytes.
`EventSearch` uses the outcome: it compares receipts where the code compares
roots (`RootMatches`), which `HashDeterminesTrie`, `MapSpec` and `RootIsCanonical`
justify.

### 2.7 AbiParser, AbiReader

A type is a record, a value a number, a Boolean or a sequence, and the iterator
the number of bytes read.  A codec returns the value and the new iterator, or
`Thrown`; the operators follow the templates, `HeadOnlyToPrimitive` and
`HeadTailToPrimitive` the two ways of cutting a tuple, `ListCodec` the length in
front of it.  Sizes are `% SizeModulus`, as `size_t` is.  A chunk has three bytes
of eight values, and a machine word two, so that a length or an offset that
overflows is among the data.  `AbiReader` holds the rules of Solidity's encoding
(`Encoding`), which are in no file of the repository; it encodes a set of
parameters, damages the result in one place (one byte, one chunk, cut or
lengthened) and reads them one after the other, as
`test/src/TestEthAbiParser.cpp` does.

## 3. Runs

| run | question | bounds, and why they are enough |
|---|---|---|
| `checkpoint_log` | does the manager lose, repeat or misplace a header; are range, median, threshold and security state those of the last window; does it implement WindowLog | windows of 3, so that the last node can be in the current window, in the candidate window and complete one; 7 headers, so that Bootstrap I ends after one or two windows and a window is completed after it; Paris falls before, in and after windows; three difficulties, one of which overflows the modulus |
| `monitor_forks` | are counts exact, is the reported sequence a validated chain, is a confirmed child supported, under forks, repetitions, throwing callbacks | windows of 2 (a child is confirmed with 2 descendants), a main chain of six, a fork of two, six nodes: the fork may be confirmed or discarded, and headers of either side come late or twice |
| `monitor_dangling` | *violation*: do the maps ever point to a destroyed node | as above |
| `monitor_plan` | does a plan end Bootstrap I on a window, and leave two to three windows for Bootstrap II | windows of 3 and 16 for 2^64, so that plans wrap around and the window does not divide the modulus; plans for the latest blocks 0, 5, 8 and 11 and for the starts 0, 1 and 10, one of them after the latest block, made at any time, and all operations of the user in any order |
| `monitor_progress` | is the plan carried out, and is every deep block reported | eleven blocks, plans for all latest blocks from 5 and starts 0 to 2: full and partial windows |
| `sync_events` | is a state synced only by its own message in time; is the newest state, and no other, listened for; is a message found in time never lost; do all calls return | two checking threads, one refreshing, two states, a block per thread at a time, times 0 to 3 with a wait of 1: too early, in time, too late; the safety properties are theorems for any bounds |
| `sync_events_reuse` | *violation*: does the newest state stay listened for when addresses are reused | two addresses |
| `header_chain` | does unsigned arithmetic give the formula; is difficulty bounded whatever the timestamps; is the estimate safe; is expiry final and justified | a period of 3 blocks for the bomb and 1/8 for 1/2048, so that each term matters; chains of up to three blocks around each fork; timestamps in every order, younger and older than the wait and than the cap on the reduction; difficulties at the minimum, in the middle, near the modulus |
| `header_chain_expiry` | *violation*: is a node erased only when it can no longer be extended | the same chains; two timestamps, no later than any time of the clock, so that headers come in time or late |
| `event_search` | does every listener get exactly the events of the block, in order, whatever the host delivers | three listeners, on two contracts, with none, one and two topics; hashes that overlap, so that the filter has false positives, and that touch its first and last bit; nine receipts, with zero to two logs, of three types; blocks of up to two receipts; four false answers |
| `trie` | does the recursion over pointers change the one node it should; does the trie implement a map, has it the canonical shape, does its hash determine it; is the path of a receipt ever read past its end | seven keys: an extension is split at its first, an inner and its last nibble, a leaf is split and replaced, a branch gets a value, a key ends inside an extension; two values each, every order; ten receipt numbers on both sides of 128 and 256, which change the length of the key; the shape, the map and the receipts are theorems for any keys |
| `abi_reader` | is what was encoded read back; is nothing read that is not there, or from an encoding that is not the only one | every kind of parser alone, before and inside others; byte strings that end in, at and after a chunk; lists of up to two; every byte and every chunk damaged, and every cut |

The scaled constants: `Modulus`, `TimeModulus` and `DiffModulus` stand for 2^64,
`BoundDivisor` = 8 for 2048, `MaxReduction` = 5 for 99, `ExpDiffPeriod` = 3 for
100000, `MinDiff` = 16 for 131072.  Bounds used only by TLC have names of their
own: `MaxReceipts`, `MaxFed`, `MaxNodes`, `MaxState`, `MaxTime`, `MaxCheck`, `MaxAccepted`.  Runs
with such bounds stop when these are used up, which is why they say
`CHECK_DEADLOCK FALSE`; `abi_reader` stops when all is read, or when a call has
thrown; the runs of `SyncEvents` stop, besides, whenever no thread
has anything to do.  That a call is not stuck is checked as `CallsReturn`.

The type invariant is a property of `monitor_forks`, where it says that a node's
parent exists, and a theorem too.  Those of `CheckpointLog` and of `SyncEvents` are
theorems (`TypeCorrect`, `ThreadsAreTyped`), and so is what the proofs use of those
of `HeaderChain` (`HeaderTyped`) and `EventSearch` (`SearchTypeOK`).

The wait (`MaxWaitTime`, 36 in `header_chain`) is counted from the moment a header
is received, the reduction of the difficulty from its timestamp.  The cap of
`MaxReduction` units makes a difference from 63 seconds after the timestamp on in
`header_chain`, 72 after an uncle, and from 15 minutes on in the main network.  The clock and the
timestamps of `header_chain` let a header be received in time and reach the limit of
the wait before that of the cap, and be received so late that it is the other way
round; the former is what the code counts on, the latter what
`header_chain_expiry` is about.

### 3.1 Fairness

* `MonitorProgress`: weak fairness of `Step`, the disjunction of feeding the next
  block and of the steps of an update.  A call that was begun runs to its end in
  one thread, and the user of the monitor keeps calling it as long as there are
  blocks.  Nothing is assumed of the sync message.  That callbacks return and
  that no active node expires are restrictions of the behaviours
  (`UNCHANGED interrupted`, `UNCHANGED m_activeNodes`), not fairness.
* `SyncEvents`: strong fairness of the steps of a call, per thread, but not of
  beginning one.  Strong, because a thread competes for a mutex that is taken and
  released by others: it is the assumption that `std::mutex` starves nobody.
  It includes that the getter of the receipts, which runs under the mutex,
  returns.  Whether a found block ends with an exception or with a callback is
  not subject to fairness.

### 3.2 What the violations show

Each is a place where the code disagrees with a sentence of the repository; the
sentence is quoted in `findings`.

1. `monitor_dangling`: discarded branches stay in the look-up maps.
2. `sync_events_reuse`: a late callback with a reused identifier cancels the
   listener of the newest state.
3. `header_chain_expiry`: a header received late, as in Bootstrap II or when the
   host catches up, keeps its old timestamp.  The estimate, which has no cap, falls
   below the threshold while the node may still be waited for, and the node is
   erased, although the validator asks a child for no less than the capped
   difficulty, which is above the threshold.

Four more were met and are listed as hazards, without a run of their own.  The
estimate for a node stamped ahead of the trusted clock wraps around, and
the node is given up though it can be extended: another way to violate
`ExpiredCannotBeExtended`.  A comment of the DAA (`Eth/DAA.hpp:241`) relies on a
comparison of timestamps that the validator does not make; `HeaderChain` takes them
in any order.  The plan for a start more than one block after the latest one wraps
around, and may end Bootstrap I inside a window, where `EndBootstrapI` throws.  With
`checkpointSize` 1, which no value of the configuration excludes, a window holds two
headers after Bootstrap I, and headers are reported twice.

A trie key that is the beginning of two others is read past its end, which the keys
of receipts never are.

The other properties are stated so that they hold in spite of these, with what they
exclude named in the property or in its comment.  `PastExpiredCannotBeExtended`, for
example, is about nodes that were waited for too long, whatever their timestamp, and
about nodes for which the cap makes no difference and whose timestamp is not ahead of
the clock (`CapNotReached`).

## 4. Proofs

The assumptions of all theorems are those that the modules name
(`ChkptSizeAssumption`, `NoNodeAssumption`, `HeaderAssumption`,
`MonitorAssumption`, `SyncAssumption`, `ParamsAssumption`, `DAAAssumption`,
`KeyAssumption`, `ReceiptAssumption`, `ValueAssumption`, and in `EventSearch` one
each for hashes, listeners, receipts and the bound on a block), which TLC evaluates,
and what the statement of a theorem adds to them.  Two are worth a word.  `SyncAssumption` says that the modulus of time is above
`MaxTime + MaxWaitTime`: with 64 bits and seconds, the sum of a time and the wait
does not wrap.  `MonitorAssumption` says that `NoNode` is not a natural number:
nodes are numbers, and a null pointer is the address of none of them.

Induction over data takes a theorem of the library whose parameter is an
operator, which the provers cannot instantiate.  Where the data are walked by a
recursive *function*, the proofs do without: the least number for which a fact
fails is refuted (`LeastNatural`, `InductionUpTo`: the induction is on a set of
numbers), and that the function exists is proved the same way, from one length to
the next (`ClimbExists`, `KeptExists`, `FlatExists`, `DoublingExists`).

### 4.1 The checkpoint window

`CheckpointLogProofs` proves, for every `ChkptSize` of at least 2, every set of
headers with natural numbers and difficulties, and chains of any length:

| theorem | says |
|---|---|
| `TypeCorrect` | `Spec => []TypeOK`, the threshold included |
| `CheckpointSizeIsWindowSize` | every window has reported `ChkptSize` headers |
| `CurrWindowCorrect` | `IterateCurrWindow` is the last window reported |
| `RangeCorrect` | the computed number range is that of the headers in the window |
| `SecStateCorrect` | the security state names the last header reported |
| `NothingLost` | what was fed is what was reported followed by what waits |
| `ThresholdCorrect` | `m_minDiff` is computed from the median difficulty of the last window that ended before Paris |
| `ThresholdSetBeforeUse` | it is never the uninitialised member when the checker may need it |
| `ImplementsWindowLog` | `Spec => LogSpec`: the refinement |

`ChkptSize >= 2` is in each theorem, because `CheckpointSizeIsWindowSize` is false
for 1: TLC finds `CheckpointsHaveChkptSize` violated with that size.

None of these is inductive.  The invariant `IInv` says where every header of the
history is: the reported ones are a prefix of the chain (`ReportedIsPrefix`); the
candidates, in the vector or in the last node, are exactly the rest, and fewer
than a window (`PendingIsRest`); the current window, with or without the last
node, is the last `ChkptSize` headers reported (`WindowIsLastReported`); a last
node that belongs to the current window excludes candidates
(`NoCandidateBeforeLastNode`), without which completing a window could put a
header of the old one into the new; numbers are consecutive
(`NumbersConsecutive`), which makes the computed range right.  There is one
effect lemma per operation of the manager (`FillCandidateEffect`,
`AdvanceEffect`, `FinishCandidateEffect`, `AdvanceAndFinishEffect`), and two
lemmas for the two things that can happen to the history, a header that waits
(`KeepInv`) and one that completes a window (`FinishInv`); `NextInv` combines
them, and the theorems follow from `Invariance`.

The threshold has an invariant of its own, `ThresholdInv`, on top of `IInv`:
`m_minDiff` is what the last window before Paris prescribes.  `MedianIsDifficulty`
says that the median of a sequence that is not empty is one of its difficulties: the
numbers below half of the sequence are bounded (`DifficultiesBounded`), so that
there is a last one.  What makes it inductive is that completing a window leaves
all windows before it as they are (`WindowsStay`), that the window that
`IterateCurrWindow` then visits is the last one reported (`FinishWindows`), with
the node that may stand for a part of it, and that its number range, from which
`OnCheckpointComplete` sees that it is before Paris, ends with its last header.
That the threshold is set before it is used takes that a header follows the
windows in the numbering: if its successor is before Paris, so is every window
completed (`LastNodeIsRecent`).

### 4.2 The monitor

All of it is about `EclipseMonitor` as it is, with forks, repeated headers,
callbacks that throw anywhere, undefined behaviour and every call of the user.

| theorem | module | says |
|---|---|---|
| `TwoWindowsAreLeft` | EclipseMonitorProofs | `Spec => []PlanLeavesTwoWindows` |
| `BootstrapIEndsOnWindow` | ReportedChainProofs | `Spec => []PlanEndsOnWindow`, if `NumbersDoNotWrap` |
| `OnlyValidatedIsReported` | EclipseMonitorProofs | `Spec => []ReportedWasValidated` |
| `OneChainIsReported` | ReportedChainProofs | `Spec => []ReportedIsChain`, if `ChkptSize >= 2` and `NumbersDoNotWrap` |
| `ConfirmedStaysChildless` | TreeProofs | `Spec => ConfirmedGetsNoChild` |
| `CountsStayExact` | TreeProofs | `Spec => []DescCountsExact` |
| `UpdatesConfirmInTime` | TreeProofs | `Spec => []NothingConfirmableLeft` |
| `TreeIsOfTheChain` | TreeProofs | `Spec => []TreeFollowsChain`, if `NumbersDoNotWrap` |
| `OnlySupportedIsConfirmed` | TreeProofs | `Spec => ConfirmsSupportedChild` |
| `TypeCorrect` | TreeProofs | `Spec => []TypeOK` |

`PlanInv` ties the end of Bootstrap I to the latest plan; the rest is the
arithmetic of `CalcBootstrapIEndBlkNum` (`PlannedEnd`).  For the end of a window
it takes `BootInv` too: what Bootstrap I has kept is numbered without a gap, its
first window is whole, the candidates are fewer than a window, and the number
that `PhaseChangeCheck` compares is that of the last of them.  If that number is
the planned one, it is a multiple of `ChkptSize` away from the start, and so
there is no candidate left over.

`ValidInv` says that
every header kept anywhere, in the vectors, in the last node, in the tree or in
the report, was validated; for the node to confirm it takes `ConfirmableIsChild`:
what `ReleaseChildHasNDesc` returns is a child of the root.

`ReportedIsChain` needs two halves.  `TreeInv`: each header in the tree extends
that of its parent, and those at the root extend the last confirmed one.
`WindowInv`: the checkpoint and the candidates, each with or without the header
of the last node, are chains, the second beginning where the first ends; the
report ends where the checkpoint does, or before it once a callback has thrown;
and a last node that belongs to the checkpoint excludes candidates, as in
`CheckpointLogProofs`.  The premises are needed: with windows of one a header is
reported twice, and a number may follow 2^64 - 1 as zero.

`LookUpInv` says that an entry of the look-up maps stands under the hash of its
node, and that none is that of the root, except when the root is the node that
`EndBootstrapI` made.  Confirming erases two hashes, and because entries are
under the right ones that removes every pointer to the new root, even if a header
was given twice.  It also takes that `EndBootstrapI` works at most once.

The last five rest on `ShapeInv`.  A node is numbered after its parent (`IsTree`),
so that the way up from it ends; the root is the only node without a parent, and
its header the last one confirmed (`RootIsOnlyTop`); a node passed
`CommonValidate` against its parent; the count of a node is the size of its
subtree less one (`CountsAreExact`); and a child of the root has at most
`ChkptSize` descendants, fewer while no update is between adding and confirming
(`ConfirmedInTime`).  Counts alone are not inductive: that `AddChild`, which counts
on the way to the root, counts each ancestor once takes that there are no cycles,
and that `ReleaseChild` leaves right counts takes that what it destroys is exactly
what is not below the child.  `ConfirmedInTime` is kept by confirming because the
children of the new root have fewer descendants than it has, and it had at most
`ChkptSize`.  `TreeProofs` begins with what this needs of `AncestorsOrSelf`: climbing
meets a node at most once and ends at a top (`ClimbDescends`, `ClimbEnds`), being an
ancestor is transitive, and what `AddChild` and `ReleaseChild` do to ancestors,
subtrees and counts (`AddChildSubtrees`, `AddChildCounts`, `ReleaseChildAncestors`,
`ReleaseChildCounts`).

### 4.3 Sync messages

`SyncEventsProofs`, for any number of threads, states and addresses:
`ThreadsAreTyped`, `ListensForNewest` (`ListensForNewestOnly`), `SyncsInTime`
(`SyncedByTimelyMessage`) and, if addresses are not reused,
`WaitingStateIsListenedFor` (`LastStateIsListenedFor`).  The invariant has four
layers, each proved with those before it: `ThreadInv`, the thread that holds
`m_syncStateMutex` is the one that refreshes, and which state is the newest at
each of its steps; `MapInv`, the map holds at most the listener registered last;
`TimeInv`, a block in hand is not older than the state whose event it holds, and
calls are planned for events that were seen; `ListenInv`, no planned call is
about to cancel the listener of another state than its own.  The last is where
reuse breaks it (`sync_events_reuse`).

### 4.4 Difficulty

`HeaderChainProofs`, for all parameters, forks and timestamps:
`DifficultyIsBounded` (`DifficultyFallsSlowly`), `EstimateIsBounded`
(`EstimateIsNotTooHigh`) and `DifficultyIsByFormula` (`DifficultyFollowsFormula`).  The invariant is only that the fields are unsigned
integers; the work is in the arithmetic: what each subtraction can be
(`DiffBounds`, `EthashBounds`, `FrontierBounds`) and that a reduction that is not
capped leaves no more than a capped one (`UncappedIsLess`).  Of the bomb nothing
is used there but that it is a natural number.  The formula needs its value: the
loop of `CalcBomb` computes a power of two as long as that fits (`BombIsPower`), and
no term of the calculator wraps around if the result does not (`EthashByFormula`).
The theorem is about behaviours in which the number of the next block fits
(`NumberFits`): the block after number 2^64 - 1 is numbered 0 and would be
judged by the rules of one fork and named by those of another.

Then `ExpiryIsFinal` (`ExpiredStaysExpired`) and `ExpiredIsUseless`
(`PastExpiredCannotBeExtended`).  The difficulty of a child is that of the parent
plus a number of units (`Adjusted`), which falls as time goes by
(`AdjustedFalls`); the capped and the uncapped calculator both compute it
(`EthashInUnits`), the latter as long as the cap is not reached.  So a node that is
erased by such an estimate has no child left, and one that was waited for too long
has none whatever its estimate: `ExpiredIsUseless` is a theorem of `Spec` without
further assumptions, the two cases being part of the property.

Beyond the cap the estimate is lower than what the validator requires, but goes on
falling (`UncappedInUnits`, `UncappedFalls`), so that expiry is final for any
timestamps.  `ExpiryIsFinal` is about behaviours in which `EstimateFits` always holds:
while the node may be waited for, the difficulty of a child and the reduction that
is not capped fit the modulus.  At a difficulty of 2^53 that is so for timestamps of
the last year.  `EstimateFits` holds in every state of `header_chain`.

### 4.5 The search for events

`EventSearchProofs`, for any listeners, any hashes, any receipts and any answer of
the host:

| theorem | says |
|---|---|
| `OnlyEventsOfTheBlock` | `Spec => []CalledWithLogsOfBlock` |
| `NoEventIsMissed` | `Spec => []NothingIsMissed` |

The invariant `IInv` says of each listener that the calls made are the first ones
of those expected (`CallsBegin`), and, while calls are made, that its plan is what is
missing (`Completes`) and that no listener has two plans (`IsPlan`): two would call
it twice with the same logs.  When plans are made there are two kinds of
listeners to account for.  What a listener in the plan gets is what is expected,
because the receipts that were delivered are those of the block (`SearchFindsExpected`).
One that is not in the plan expects nothing, because the filter has no false
negatives: `NoFalseNegatives` shows that each bit the rules of Ethereum set in the one
big number is the bit that `CheckBloomBits` reads in the byte counted from the end
(`SameBit`), so that a log that matches has all its bits in the filter.
`Kept`, the loop of `Receipt::SearchEvents`, is a recursive function, and the
positions of a block are flattened by `FlattenSeq`; what both return is proved by
induction on the length.

### 4.6 The trie

`PlacedTrieProofs`, for any keys, also those of which one is the beginning of
another, any values, and receipts with numbers of at most two bytes, for which
`KeyRlp` is written (`ReceiptAssumption`):

| theorem | says |
|---|---|
| `RootAlwaysCanonical` | `Spec => []RootIsCanonical`: the nodes are those that the contents prescribe, whatever the order |
| `TrieIsMap` | `Spec => MapSpec`: the refinement of `KeyValueMap` |
| `ReceiptsAlwaysDefined` | `Spec => []ReceiptsAreDefined`: while only receipts are put, no key is read past its end |

The inductive invariant, `IsCanonical`, says that the nodes are `Canonical(contents)`
for *some* contents.  That these are what looking every key up returns, which is
`RootIsCanonical`, follows from it (`ContentsOfCanonical`) but does not carry itself
through a step.  The work is in how a set of keys divides the way to a key:

* The paths from the root to a key are in order (`Comparable`), and what two keys
  have in common is the longest beginning of both (`CommonIsLongest`).
* Each place leads to exactly one end, the first branch or key that all keys from
  there on share (`EndExists`, `EndIsUnique`), so that a way has one last node and
  nodes are told apart by their places (`Reached`, `LookupInCanonical`).
* A new key leaves the way of the others at one point, its *turn*
  (`TurnExists`), and brings at most one branch and the places below it
  (`NewForks`, `NewPlaces`).  The last node on the way to the key is the one in
  which the turn lies (`LastAtFork`, `LastBeforeTurn`).
* Of the other nodes each keeps its place and its end (`SpansKept`); the last one
  is cut at the turn (`SpansSplit`) or keeps its place while a leaf is added
  (`SpansGrow`).  `OthersKeep` and `Rebuild` put these together.

`PutAtBranch`, `PutAtOwnLeaf`, `PutAtLeaf` and `PutAtExtension` are then the cases of
the code, and `PutKeepsCanonical` combines them.  For the receipts: the first byte of
an RLP key tells its length (`KeyRlpBytes`), so that no key is the beginning of
another (`ReceiptsPrefixFree`); the end of an extension is where two keys part, so
that a receipt that ended inside it would be the beginning of both.

That the recursion over pointers is what `PlacedTrie` says is checked by `trie`
(`PlacedSpec`), not proved; the theorems are about the places.

### 4.7 Only model-checked

* `PlacedSpec` and `HashDeterminesTrie`: a trie of pointers is recursive data, and
  the operators on it are RECURSIVE, which the provers do not accept in any module
  they reach.
* Everything about `AbiParser` and `AbiReader` (`EncodedIsReadBack`,
  `ReadOnlyAsEncoded`), for the same reason: types nest.
* Liveness under fairness, which is out of the prover's reach:
  `PlanIsCarriedOut`, `DeepBlocksAreReported`, `FoundMessageSyncs`, `CallsReturn`.

## 5. Not modelled

* Identifiers, serialisation and the report (`MonitorReport.hpp`,
  `EclipseMonitorBase`): typed dictionaries, without a decision in them.
* Parsing of headers (`HeaderMgr`) and the contents of log entries: the external
  RLP library does it, and the fields are taken as given.
* Transactions: `TransactionsMgr` builds a trie with the same keys and calls as
  `ReceiptsMgr`, and `Transaction` only selects fields; nothing else in the
  monitor uses either.
* Keccak, a copy of a third-party implementation: hashes are abstract values,
  equal only for equal data.
* Integer types of the ABI other than `uint8` and `uint64`, which differ in the
  width only.
* An empty receipt, whose first byte is read all the same.
* The exception "Event manager is not available" of `SyncMsgMgr`, which keeps a weak
  pointer to its event manager: the manager is taken to outlive it.
* Calculators of the test network: one returns the difficulty of the header
  itself, the other the constant 2.
* Logging, exception texts, null checks that no caller can fail.
* Concurrent use of `EclipseMonitor` itself: it has no mutex and is
  documented nowhere as thread safe.

## 6. Plan

Done, in this order: the checkpoint window with its refinement and proofs; the
monitor with forks, exceptions and liveness; sync events with threads; the
difficulty rules with clocks; the search for events down to logs and filter; the
trie; the ABI parser; the theorems about plans, the reported chain, the look-up
maps, sync events, difficulty and expiry; those about the tree, the threshold, the
formula of the difficulty and the events; the trie by places, with its theorems.

Left: what needs induction over nested data, that is `PlacedSpec` and
`HashDeterminesTrie` for any trie, and the reading of nested ABI types.

----------------------------- MODULE EventSearch -----------------------------
(***************************************************************************)
(* EventManager::CheckEvents for any number of listeners, with what it is   *)
(* built from: EventDescription, BloomFilter, ReceiptsMgr and Receipt.      *)
(*                                                                          *)
(* The header of the block is validated, the receipts come from a host that *)
(* is not trusted.  The bloom filter of the header says whether the         *)
(* receipts are needed at all, and the root hash in the header, whether     *)
(* they are those of the block.  A hash of receipts is the sequence of them *)
(* (module Trie shows that the trie's root determines its contents).        *)
(*                                                                          *)
(* A byte of the bloom filter is the set of its bits that are one.          *)
(* Module SyncEvents takes the critical section apart into steps; here it   *)
(* is one, and the callbacks are made one by one.  CheckEvents keeps        *)
(* nothing from one block to the next: a behaviour checks one block, with   *)
(* any listeners.                                                           *)
(***************************************************************************)
EXTENDS Integers, Sequences, SequencesExt

CONSTANTS
    Listener,       \* what is listened for: [contractAddr, topics]
    Receipt,        \* [firstByte, logs], a log being [contractAddr, topics]
    MaxReceipts,    \* bound on the receipts of a block, for TLC
    FalseReceipts,  \* what the host may deliver for any block
    Hash            \* Keccak256 of addresses and topics: their first six bytes

ASSUME MaxReceiptsAssumption == MaxReceipts \in Nat
ASSUME HashAssumption ==
    \A item \in DOMAIN Hash : Hash[item] \in [1 .. 6 -> 0 .. 255]
ASSUME ListenerAssumption ==
    Listener \subseteq [contractAddr : DOMAIN Hash, topics : Seq(DOMAIN Hash)]
ASSUME ReceiptAssumption ==
    \A receipt \in Receipt :
        receipt.logs \in
            Seq([contractAddr : DOMAIN Hash, topics : Seq(DOMAIN Hash)])

VARIABLES
    eventDescMap,   \* the listeners registered
    receipts,       \* the receipts of the block being checked
    callbackPlans,  \* calls still to be made: <<listener, positions of logs>>
    outcome,        \* of CheckEvents: "idle", "calling", "returned", "thrown",
                    \* "mismatch" (of the root) or "invalid" (no receipt)
    registered,     \* history: the listeners when the block was searched
    calls           \* history: for each listener, the logs it was called with

vars == <<eventDescMap, receipts, callbackPlans, outcome, registered, calls>>

Block == BoundedSeq(Receipt, MaxReceipts)

\* The places of the logs of a block, in the order of the block.
Positions(block) ==
    FlattenSeq([i \in 1 .. Len(block) |->
        [j \in 1 .. Len(block[i].logs) |-> <<i, j>>]])

LogAt(block, position) == block[position[1]].logs[position[2]]

NoCalls == [l \in Listener |-> <<>>]

Init ==
    /\ eventDescMap = {}
    /\ receipts = <<>>
    /\ callbackPlans = <<>>
    /\ outcome = "idle"
    /\ registered = {}
    /\ calls = NoCalls

-----------------------------------------------------------------------------
(* The bloom filter: three bits for each address and topic.                 *)

bloomByteSize == 256
bloomBitSize == 8 * bloomByteSize

\* What an item, an address or a topic, takes from each pair of bytes of its
\* hash: Ethereum reads the filter as one big-endian number.
BitNumbers(item) ==
    {(256 * Hash[item][n] + Hash[item][n + 1]) % bloomBitSize : n \in {1, 3, 5}}

Items(log) == {log.contractAddr} \cup Range(log.topics)

\* The filter that the makers of the block put into its header.
BloomOf(block) ==
    LET bits == UNION {BitNumbers(item) : item \in
                    UNION {Items(LogAt(block, p)) : p \in Range(Positions(block))}}
    IN  [i \in 0 .. bloomByteSize - 1 |->
            {b \in 0 .. 7 : 8 * (bloomByteSize - 1 - i) + b \in bits}]

\* Mutant: the bytes are counted from the left.
ByteIndexFromLeft(pair) == (pair % bloomBitSize) \div 8

ByteIndex(pair) == bloomByteSize - (pair % bloomBitSize) \div 8 - 1

CheckBloomBits(bloom, hash) ==
    \A n \in {1, 3, 5} :
        hash[n + 1] % 8 \in bloom[ByteIndex(256 * hash[n] + hash[n + 1])]

\* EventDescription::m_hashes.
Hashes(listener) == {Hash[item] : item \in Items(listener)}

AreHashesInBloom(bloom, hashes) == \A hash \in hashes : CheckBloomBits(bloom, hash)

-----------------------------------------------------------------------------
(* The receipts.                                                            *)

\* ParseReceipt takes the first byte off receipts of type 1 and 2, and hands
\* the others to the RLP parser as they are: those of before types are lists;
\* any other type byte is parsed as a string of one byte, which is no list.
IsParsed(receipt) == receipt.firstByte \in {1, 2} \cup 192 .. 255

IsEventEmitted(log, listener) ==
    /\ log.contractAddr = listener.contractAddr
    /\ \A n \in DOMAIN listener.topics :
        n \in DOMAIN log.topics /\ listener.topics[n] = log.topics[n]

\* Receipt::SearchEvents goes through the logs and keeps those that fit.
Kept(positions, fitting) ==
    LET kept[n \in 0 .. Len(positions)] ==
            IF n = 0 THEN <<>>
            ELSE IF positions[n] \in fitting
                 THEN Append(kept[n - 1], positions[n])
                 ELSE kept[n - 1]
    IN  kept[Len(positions)]

SearchEvents(block, listener) ==
    LET positions == Positions(block)
    IN  Kept(positions, {p \in Range(positions) :
                            IsEventEmitted(LogAt(block, p), listener)})

-----------------------------------------------------------------------------
(* Listen and Cancel, by another thread or by a callback.                   *)

Listen(l) ==
    /\ eventDescMap' = eventDescMap \cup {l}
    /\ eventDescMap' # eventDescMap
    /\ UNCHANGED <<receipts, callbackPlans, outcome, registered, calls>>

Cancel(l) ==
    /\ l \in eventDescMap
    /\ eventDescMap' = eventDescMap \ {l}
    /\ UNCHANGED <<receipts, callbackPlans, outcome, registered, calls>>

-----------------------------------------------------------------------------
(* CheckEvents: the critical section.                                       *)

BloomEventDesc(block) ==
    {l \in eventDescMap : AreHashesInBloom(BloomOf(block), Hashes(l))}

\* Every action of the section begins like this.
Search(block) ==
    /\ outcome = "idle"
    /\ receipts' = block
    /\ registered' = eventDescMap
    /\ calls' = NoCalls
    /\ UNCHANGED eventDescMap

\* The host is not asked.
CheckFindsNoBloom(block) ==
    /\ Search(block)
    /\ BloomEventDesc(block) = {}
    /\ callbackPlans' = <<>>
    /\ outcome' = "returned"

CheckCannotParse(block, answer) ==
    /\ Search(block)
    /\ BloomEventDesc(block) # {}
    /\ \E i \in DOMAIN answer : ~IsParsed(answer[i])
    /\ callbackPlans' = <<>>
    /\ outcome' = "invalid"

AllParsed(answer) == \A i \in DOMAIN answer : IsParsed(answer[i])

\* Mutant: any receipts will do.
RootMatchesAny(block, answer) == TRUE

RootMatches(block, answer) == answer = block

CheckFindsMismatch(block, answer) ==
    /\ Search(block)
    /\ BloomEventDesc(block) # {}
    /\ AllParsed(answer)
    /\ ~RootMatches(block, answer)
    /\ callbackPlans' = <<>>
    /\ outcome' = "mismatch"

\* The listeners come in the order of a hash map: in any order.
GenCallbackPlan(answer, listeners) ==
    LET found == {l \in listeners : SearchEvents(answer, l) # <<>>}
    IN  {[n \in DOMAIN order |-> <<order[n], SearchEvents(answer, order[n])>>] :
            order \in SetToSeqs(found)}

CheckPlansCalls(block, answer) ==
    /\ Search(block)
    /\ BloomEventDesc(block) # {}
    /\ AllParsed(answer)
    /\ RootMatches(block, answer)
    /\ callbackPlans' \in GenCallbackPlan(answer, BloomEventDesc(block))
    /\ outcome' = IF callbackPlans' = <<>> THEN "returned" ELSE "calling"

-----------------------------------------------------------------------------
(* CheckEvents: the calls, after the section.                               *)

\* The calls left once the first one has been made.
NextCalls ==
    LET listener == callbackPlans[1][1]
        logs     == Tail(callbackPlans[1][2])
    IN  IF logs = <<>>
        THEN Tail(callbackPlans)
        ELSE [callbackPlans EXCEPT ![1] = <<listener, logs>>]

Called ==
    /\ outcome = "calling"
    /\ LET listener == callbackPlans[1][1]
       IN  calls' = [calls EXCEPT ![listener] = Append(@, callbackPlans[1][2][1])]
    /\ UNCHANGED <<eventDescMap, receipts, registered>>

\* ConductCallbackPlan.
CallReturns ==
    /\ Called
    /\ callbackPlans' = NextCalls
    /\ outcome' = IF NextCalls = <<>> THEN "returned" ELSE "calling"

CallThrows ==
    /\ Called
    /\ callbackPlans' = <<>>
    /\ outcome' = "thrown"

-----------------------------------------------------------------------------

Next ==
    \/ \E l \in Listener : Listen(l) \/ Cancel(l)
    \/ \E block \in Block :
        \/ CheckFindsNoBloom(block)
        \/ \E answer \in FalseReceipts \cup {block} :
            \/ CheckCannotParse(block, answer)
            \/ CheckFindsMismatch(block, answer)
            \/ CheckPlansCalls(block, answer)
    \/ CallReturns
    \/ CallThrows

Spec == Init /\ [][Next]_vars

-----------------------------------------------------------------------------
(* Properties.                                                              *)

\* The events of a block that a listener asks for: logs of its contract whose
\* topics begin with those that it names.
Expected(l) ==
    IF l \in registered
    THEN Kept(Positions(receipts), {p \in Range(Positions(receipts)) :
            /\ LogAt(receipts, p).contractAddr = l.contractAddr
            /\ IsPrefix(l.topics, LogAt(receipts, p).topics)})
    ELSE <<>>

\* Whatever the host delivers, a listener is called only with logs of the
\* block, in their order, none of them twice or left out; a callback that
\* throws, or is cancelled meanwhile, changes nothing of that.
CalledWithLogsOfBlock == \A l \in Listener : IsPrefix(calls[l], Expected(l))

\* EventManager.hpp:116: "By the nature of bloom filter, there is no false
\* negative", and :132, "to ensure if the event is not found in the receipt,
\* it is really not there".  When CheckEvents returns, no event was missed by
\* anyone who was listening when the block was searched.
NothingIsMissed == outcome = "returned" => \A l \in Listener : calls[l] = Expected(l)
=============================================================================

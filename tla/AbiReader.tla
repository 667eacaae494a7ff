------------------------------ MODULE AbiReader ------------------------------
(***************************************************************************)
(* A user of AbiParser reads the parameters of an event, one by one, from   *)
(* data that somebody has encoded and that may then have been damaged.      *)
(*                                                                          *)
(* The encoding is that of the Solidity documentation ("Contract ABI        *)
(* Specification"), written here as a definition of what the parsers are    *)
(* for; the parsers are AbiParser.tla.                                      *)
(***************************************************************************)
EXTENDS AbiParser

CONSTANTS
    Params      \* [types, vals]: the parameters that are encoded

VARIABLES
    params,     \* the parameters that were encoded
    block,      \* the data to be read
    begin,      \* the iterator: where the last call of ToPrimitive stopped
    read,       \* the values read
    refused     \* has a call thrown

vars == <<params, block, begin, read, refused>>

Byte == 0 .. Base - 1

-----------------------------------------------------------------------------
(* The encoding.                                                            *)

Zeros(n) == [i \in 1 .. n |-> 0]

Word(n) == [i \in 1 .. ChunkSize |-> (n \div Base ^ (ChunkSize - i)) % Base]

Padded(bytes) == bytes \o Zeros((-Len(bytes)) % ChunkSize)

TotalLen(seqs) == FoldLeft(LAMBDA sum, s : sum + Len(s), 0, seqs)

RECURSIVE HeadLen(_)
HeadLen(type) ==
    IF type.kind = "array" /\ ~HasTail(type)
    THEN type.len * HeadLen(type.item)
    ELSE ChunkSize

RECURSIVE Encoding(_, _)

\* Heads, then tails in their order.
TupleEncoding(types, vals) ==
    LET enc     == [i \in DOMAIN vals |-> Encoding(types[i], vals[i])]
        tails   == [i \in DOMAIN vals |-> IF HasTail(types[i]) THEN enc[i] ELSE <<>>]
        headLen == FoldLeft(LAMBDA sum, type : sum + HeadLen(type), 0, types)
        heads   == [i \in DOMAIN vals |->
                        IF HasTail(types[i])
                        THEN Word(headLen + TotalLen(SubSeq(tails, 1, i - 1)))
                        ELSE enc[i]]
    IN  FlattenSeq(heads) \o FlattenSeq(tails)

ItemsEncoding(item, vals) == TupleEncoding([i \in DOMAIN vals |-> item], vals)

Encoding(type, val) ==
    CASE type.kind = "uint"   -> Word(val)
      [] type.kind = "bool"   -> Word(IF val THEN 1 ELSE 0)
      [] type.kind = "bytesM" -> Padded(val)
      [] type.kind = "bytes"  -> Word(Len(val)) \o Padded(val)
      [] type.kind = "array"  -> ItemsEncoding(type.item, val)
      [] type.kind = "list"   -> Word(Len(val)) \o ItemsEncoding(type.item, val)

Encoded(p) == TupleEncoding(p.types, p.vals)

-----------------------------------------------------------------------------
(* The data: as encoded, or with one damage.                                *)

Chunks(data) == 1 .. Len(data) \div ChunkSize

\* data with the chunk i replaced by the chunk j.
Replaced(data, i, j) ==
    [k \in DOMAIN data |->
        IF (k - 1) \div ChunkSize = i - 1 THEN data[k + (j - i) * ChunkSize]
                                          ELSE data[k]]

OneByteOff(data) ==
    {[data EXCEPT ![i] = byte] : i \in DOMAIN data, byte \in Byte}
Cut(data) == {SubSeq(data, 1, n) : n \in 0 .. Len(data) - 1}
Longer(data) == {data \o Zeros(n) : n \in 1 .. ChunkSize} \cup {data \o Word(1)}
OneChunkOff(data) == {Replaced(data, i, j) : i, j \in Chunks(data)}

Blocks(data) ==
    OneByteOff(data) \cup Cut(data) \cup Longer(data) \cup OneChunkOff(data)

Init ==
    /\ params \in Params
    /\ \E data \in {Encoded(params)} : block \in Blocks(data)
    /\ begin = 0
    /\ read = <<>>
    /\ refused = FALSE

Types == params.types

MoreToRead == ~refused /\ Len(read) < Len(Types)

ReadNext ==
    /\ MoreToRead
    /\ \E res \in {ToPrimitive(Types[Len(read) + 1], block, begin)} :
        IF res.ok
        THEN /\ read' = Append(read, res.val)
             /\ begin' = res.pos
             /\ UNCHANGED refused
        ELSE /\ refused' = TRUE
             /\ UNCHANGED <<begin, read>>
    /\ UNCHANGED <<params, block>>

Spec == Init /\ [][ReadNext]_vars

-----------------------------------------------------------------------------
(* Properties.                                                              *)

\* Where the encoding of the parameter i has to be, by the heads.
HeadBegin(i) ==
    FoldLeft(LAMBDA sum, type : sum + HeadLen(type), 0, SubSeq(Types, 1, i - 1))

\* What was encoded is read back, whatever follows it: each call returns the
\* next parameter and stops at the head of the one after it, as the iterator
\* that TestEthAbiParser.cpp compares at the end.
EncodedIsReadBack ==
    IsPrefix(Encoded(params), block) =>
        /\ ~refused
        /\ read = SubSeq(params.vals, 1, Len(read))
        /\ begin = HeadBegin(Len(read) + 1)

HasAt(pos, bytes) ==
    /\ HasBytes(block, pos, Len(bytes))
    /\ Copied(block, pos, Len(bytes)) = bytes

\* A value has one encoding: whatever the data, what is read as a value is,
\* byte by byte, the encoding of that value, in the place of the head or at
\* the offset given there.  Only that offset is free; in particular, data that
\* ends inside the encoding of a value, be it in its padding, is refused.
ReadOnlyAsEncoded ==
    \A i \in 1 .. Len(read) :
        LET bytes == Encoding(Types[i], read[i])
        IN  IF HasTail(Types[i])
            THEN \E offset \in 0 .. Len(block) :
                    HasAt(HeadBegin(i), Word(offset)) /\ HasAt(offset, bytes)
            ELSE HasAt(HeadBegin(i), bytes)
=============================================================================

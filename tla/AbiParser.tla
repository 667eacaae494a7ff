------------------------------ MODULE AbiParser ------------------------------
(***************************************************************************)
(* AbiParser.hpp: the parsers of the Ethereum contract ABI, in which the    *)
(* data of an event is written.                                             *)
(*                                                                          *)
(* The data is a sequence of bytes cut into chunks.  A static value lies in *)
(* its place (the head); a dynamic one has there the offset of its tail.    *)
(* An iterator is the number of bytes before it, and the end of the input   *)
(* is the length of the block.  A chunk has ChunkSize bytes instead of 32   *)
(* and a byte Base values instead of 256: small enough that lengths and     *)
(* offsets can be enumerated, including those that overflow a size_t.       *)
(***************************************************************************)
EXTENDS Integers, Sequences, SequencesExt

CONSTANTS
    ChunkSize,  \* AbiParserConst::sk_chunkSize
    Base,       \* values of a byte
    WordSize,   \* bytes of a uint64_t, which is also a size_t
    MaxAlloc    \* the longest vector that reserve() does not refuse

ASSUME AbiAssumption ==
    /\ WordSize \in Nat \ {0}
    /\ ChunkSize \in Nat /\ ChunkSize > WordSize
    /\ Base \in Nat /\ Base > 1
    /\ MaxAlloc \in 0 .. Base ^ WordSize - 1

SizeModulus == Base ^ WordSize

\* The types: the template arguments of AbiParser.
AbiUInt8 == [kind |-> "uint", size |-> 1]
AbiUInt64 == [kind |-> "uint", size |-> WordSize]
AbiBool == [kind |-> "bool"]
AbiBytesM(size) == [kind |-> "bytesM", size |-> size]
AbiBytes == [kind |-> "bytes"]
AbiArray(item, len) == [kind |-> "array", item |-> item, len |-> len]
AbiList(item) == [kind |-> "list", item |-> item]

\* sk_hasTail of the parser selected for a type.
RECURSIVE HasTail(_)
HasTail(type) ==
    \/ type.kind \in {"bytes", "list"}
    \/ type.kind = "array" /\ HasTail(type.item)

\* A parser returns a value, where it stopped and the chunks it took, or throws.
Parsed(val, pos, chunks) ==
    [ok |-> TRUE, val |-> val, pos |-> pos, chunks |-> chunks]

Thrown == [ok |-> FALSE, val |-> <<>>, pos |-> 0, chunks |-> 0]

-----------------------------------------------------------------------------
(* Utilities.  The loops throw at the end of the input.                     *)

HasBytes(block, pos, len) == pos + len <= Len(block)

\* AbiParserSkipPadding<true>
Skips(block, pos, len) ==
    /\ HasBytes(block, pos, len)
    /\ \A i \in pos + 1 .. pos + len : block[i] = 0

\* AbiParserCopyBytes
Copied(block, pos, len) == SubSeq(block, pos + 1, pos + len)

\* Mutant: a multiple of the chunk size gets a chunk of its own for the rest.
CeilingDivOneMore(a, b) == (a \div b) + 1

\* AbiCeilingDiv, on size_t
CeilingDiv(a, b) == ((a + b - 1) % SizeModulus) \div b

-----------------------------------------------------------------------------
(* The codecs of the types without items.                                   *)

\* Integers: zeros, then the bytes of the native type, most significant first.
IntegerCodec(size, block, pos) ==
    LET lead == ChunkSize - size
    IN  IF /\ Skips(block, pos, lead)
           /\ HasBytes(block, pos + lead, size)
        THEN Parsed(FoldLeft(LAMBDA val, byte : val * Base + byte, 0,
                             Copied(block, pos + lead, size)),
                    pos + ChunkSize, 1)
        ELSE Thrown

DynLenParser(block, pos) == IntegerCodec(WordSize, block, pos)

BoolCodec(block, pos) ==
    LET int == IntegerCodec(1, block, pos)
    IN  IF int.ok /\ int.val \in {0, 1}
        THEN Parsed(int.val = 1, int.pos, int.chunks)
        ELSE Thrown

StaticBytesCodec(size, block, pos) ==
    IF /\ HasBytes(block, pos, size)
       /\ Skips(block, pos + size, ChunkSize - size)
    THEN Parsed(Copied(block, pos, size), pos + ChunkSize, 1)
    ELSE Thrown

BytesCodec(block, pos) ==
    LET len         == DynLenParser(block, pos)
        numChunk    == CeilingDiv(len.val, ChunkSize)
        paddingSize == (numChunk * ChunkSize - len.val) % SizeModulus
    IN  IF /\ len.ok
           /\ len.val <= MaxAlloc
           /\ HasBytes(block, len.pos, len.val)
           /\ Skips(block, len.pos + len.val, paddingSize)
        THEN Parsed(Copied(block, len.pos, len.val),
                    len.pos + len.val + paddingSize, len.chunks + numChunk)
        ELSE Thrown

-----------------------------------------------------------------------------
(* The codecs of lists, and the choice of the codec.                        *)

RECURSIVE Codec(_, _, _)

\* HeadToPrimitive: the value, or, if the type has a tail, the offset.
HeadToPrimitive(type, block, pos) ==
    IF HasTail(type) THEN DynLenParser(block, pos) ELSE Codec(type, block, pos)

TailToPrimitive(type, block, pos) == Codec(type, block, pos)

\* One more item, after those parsed so far.
WithItem(parsed, item) ==
    IF item.ok
    THEN Parsed(Append(parsed.val, item.val), item.pos,
                parsed.chunks + item.chunks)
    ELSE Thrown

\* The heads of the items, one after another: of static items, the items.
Heads(item, size, block, pos) ==
    LET Next(parsed, i) ==
            IF parsed.ok
            THEN WithItem(parsed, HeadToPrimitive(item, block, parsed.pos))
            ELSE Thrown
    IN  IF size <= MaxAlloc
        THEN FoldLeft(Next, Parsed(<<>>, pos, 0), [i \in 1 .. size |-> i])
        ELSE Thrown

\* Mutant: the offsets are read and ignored.
TailsAnywhere(item, heads, block) ==
    LET Next(parsed, head) ==
            IF parsed.ok
            THEN WithItem(parsed, TailToPrimitive(item, block, parsed.pos))
            ELSE Thrown
    IN  FoldLeft(Next, [heads EXCEPT !.val = <<>>], heads.val)

\* The tails follow the heads without gaps: an offset, which counts from the
\* first head, has to say just that.
Tails(item, heads, block) ==
    LET Next(parsed, head) ==
            IF parsed.ok /\ head = (parsed.chunks * ChunkSize) % SizeModulus
            THEN WithItem(parsed, TailToPrimitive(item, block, parsed.pos))
            ELSE Thrown
    IN  FoldLeft(Next, [heads EXCEPT !.val = <<>>], heads.val)

ArrayCodec(item, size, block, pos) ==
    LET heads == Heads(item, size, block, pos)
    IN  IF heads.ok /\ HasTail(item) THEN Tails(item, heads, block) ELSE heads

\* T[]: the length, then as T[k].
ListCodec(item, block, pos) ==
    LET len  == DynLenParser(block, pos)
        data == ArrayCodec(item, len.val, block, len.pos)
    IN  IF len.ok /\ data.ok
        THEN [data EXCEPT !.chunks = @ + len.chunks]
        ELSE Thrown

Codec(type, block, pos) ==
    CASE type.kind = "uint"   -> IntegerCodec(type.size, block, pos)
      [] type.kind = "bool"   -> BoolCodec(block, pos)
      [] type.kind = "bytesM" -> StaticBytesCodec(type.size, block, pos)
      [] type.kind = "bytes"  -> BytesCodec(block, pos)
      [] type.kind = "array"  -> ArrayCodec(type.item, type.len, block, pos)
      [] type.kind = "list"   -> ListCodec(type.item, block, pos)

-----------------------------------------------------------------------------
(* ToPrimitive, which the user calls with the iterator where the last call  *)
(* stopped, the end, and the beginning of the block.                        *)

HeadOnlyToPrimitive(type, block, pos) == HeadToPrimitive(type, block, pos)

HeadTailToPrimitive(type, block, pos) ==
    LET head == HeadToPrimitive(type, block, pos)
        tail == TailToPrimitive(type, block, head.val)
    IN  IF head.ok /\ head.val <= Len(block) /\ tail.ok
        THEN [tail EXCEPT !.pos = head.pos]
        ELSE Thrown

ToPrimitive(type, block, pos) ==
    IF HasTail(type)
    THEN HeadTailToPrimitive(type, block, pos)
    ELSE HeadOnlyToPrimitive(type, block, pos)
=============================================================================

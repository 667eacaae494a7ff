----------------------------- MODULE MCAbiReader -----------------------------
(***************************************************************************)
(* Parameters for AbiReader: each kind of parser, alone and before others.  *)
(***************************************************************************)
EXTENDS AbiReader

\* Byte strings that end inside, at and after the end of a chunk.
Strings == {<<>>, <<4>>, <<1, 2, 3>>, <<0, 5, 0, 1>>}

ParamsOf(types, vals) == {[types |-> types, vals |-> v] : v \in vals}

UInts == 0 .. 1
Pairs(S) == {<<a, b>> : a \in S, b \in S}
UpToTwo(S) == {<<>>} \cup {<<a>> : a \in S} \cup Pairs(S)

MCParams ==
    UNION {
        ParamsOf(<<AbiUInt8, AbiBool>>, {<<n, b>> : n \in UInts, b \in BOOLEAN}),
        ParamsOf(<<AbiBytesM(2), AbiUInt64>>,
                 {<<s, n>> : s \in Pairs({0, 5}), n \in {0, 9, 63}}),
        ParamsOf(<<AbiBytes, AbiUInt64, AbiBytes>>,
                 {<<s, 3, t>> : s \in Strings, t \in Strings}),
        ParamsOf(<<AbiArray(AbiUInt8, 2), AbiBytes, AbiBool>>,
                 {<<p, s, TRUE>> : p \in Pairs(UInts), s \in {<<>>, <<4>>}}),
        ParamsOf(<<AbiList(AbiUInt8), AbiBytes>>,
                 {<<l, <<1, 2, 3>>>> : l \in UpToTwo(UInts)}),
        ParamsOf(<<AbiBool, AbiArray(AbiBytes, 2)>>,
                 {<<TRUE, p>> : p \in Pairs(Strings)}),
        ParamsOf(<<AbiList(AbiBytes)>>,
                 {<<l>> : l \in UpToTwo({<<>>, <<1, 2, 3>>})}),
        ParamsOf(<<AbiList(AbiArray(AbiBool, 2))>>,
                 {<<l>> : l \in {<<>>, << <<TRUE, FALSE>> >>,
                                 << <<FALSE, FALSE>>, <<TRUE, TRUE>> >>}}),
        ParamsOf(<<AbiList(AbiList(AbiUInt8)), AbiUInt8>>,
                 {<<l, 2>> : l \in UpToTwo({<<>>, <<1>>})})
    }
=============================================================================

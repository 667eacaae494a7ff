---------------------------- MODULE MCEventSearch ----------------------------
(***************************************************************************)
(* Two contracts and two topics whose bits overlap: whoever finds a1 and t1 *)
(* in a filter finds t2 there too.  The numbers of the bits include the     *)
(* first and the last one, and pairs of bytes that exceed the filter.       *)
(***************************************************************************)
EXTENDS EventSearch

HashBytes ==
    [ a1 |-> << 7, 255,  0,   0,  9,   8 >>,
      a2 |-> << 1,   2,  3,   4,  0,   7 >>,
      t1 |-> << 0,   9,  4, 128,  8, 129 >>,
      t2 |-> << 8,   0, 12, 128, 15, 255 >> ]

Log(addr, topics) == [contractAddr |-> addr, topics |-> topics]

Listeners == { Log("a1", <<>>), Log("a1", <<"t1", "t2">>), Log("a2", <<"t1">>) }

Plain(logs) == [firstByte |-> 249, logs |-> logs]
Typed(type, logs) == [firstByte |-> type, logs |-> logs]

Receipts ==
    { Plain(<<>>),
      Plain(<< Log("a1", <<"t1">>) >>),
      Plain(<< Log("a2", <<"t2">>) >>),
      Plain(<< Log("a2", <<"t2">>), Log("a1", <<>>) >>),
      Plain(<< Log("a1", <<"t1">>), Log("a1", <<"t1", "t2">>) >>),
      Typed(1, << Log("a1", <<"t2", "t1">>) >>),
      Typed(1, << Log("a1", <<"t1", "t2">>), Log("a1", <<"t2">>) >>),
      Typed(2, << Log("a2", <<"t1">>), Log("a1", <<>>) >>),
      Typed(2, << Log("a2", <<"t1", "t2">>) >>) }

\* Nothing, too little, receipts of another block, and one of an unknown type.
Others ==
    { <<>>,
      << Plain(<<>>) >>,
      << Plain(<< Log("a1", <<"t1">>) >>), Plain(<< Log("a2", <<"t2">>) >>) >>,
      << Typed(3, << Log("a1", <<"t1">>) >>) >> }
=============================================================================

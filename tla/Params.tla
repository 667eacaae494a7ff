------------------------------- MODULE Params --------------------------------
(***************************************************************************)
(* Eth/Params.hpp and Eth/DataTypes.hpp: the network configuration, and the *)
(* unsigned 64-bit integers that block numbers, times and difficulties are. *)
(***************************************************************************)
EXTENDS Integers

CONSTANTS
    ParisNum,       \* number of the first Paris (proof-of-stake) block
    DiffModulus     \* 2^64

ASSUME ParamsAssumption ==
    /\ ParisNum \in Nat
    /\ DiffModulus \in Nat \ {0}

UInt == 0 .. DiffModulus - 1

IsBlockOfParis(number) == number >= ParisNum

Plus(a, b) == (a + b) % DiffModulus

Minus(a, b) == (a - b) % DiffModulus

Times(a, b) == (a * b) % DiffModulus
=============================================================================

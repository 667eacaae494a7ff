-------------------------- MODULE MCEclipseMonitor ---------------------------
(***************************************************************************)
(* A small block chain for EclipseMonitor: a main chain, a fork of two      *)
(* blocks from its second block, and a block with a wrong number.           *)
(***************************************************************************)
EXTENDS EclipseMonitor

Block(hash, parent, number) ==
    [hash |-> hash, parent |-> parent, number |-> number, diff |-> 0]

MainChain ==
    { Block("b0", "none", 0), Block("b1", "b0", 1), Block("b2", "b1", 2),
      Block("b3", "b2", 3), Block("b4", "b3", 4), Block("b5", "b4", 5) }

Forks == { Block("f2", "b1", 2), Block("f3", "f2", 3) }

WrongNumber == { Block("w5", "b3", 5) }

MCHeader == MainChain \cup Forks \cup WrongNumber

\* After Paris the difficulty of every block is zero.
MCExpectedDiff(parent, current) == 0
=============================================================================

------------------------------ MODULE WindowLog ------------------------------
(***************************************************************************)
(* What the checkpoint manager promises the user of the monitor: the        *)
(* headers of the chain it is fed are reported as confirmed in the order    *)
(* of the chain, each of them once, and always a whole checkpoint window    *)
(* at a time, at the very moment the window is full.                        *)
(***************************************************************************)
EXTENDS Naturals, Sequences

CONSTANTS ChkptSize, Header

VARIABLES
    fed,        \* the chain of headers handed over so far
    reported    \* the headers reported through onHeaderConfirmed

TypeOK == fed \in Seq(Header) /\ reported \in Seq(Header)

Init == fed = <<>> /\ reported = <<>>

Feed(header) ==
    /\ fed' = Append(fed, header)
    /\ reported' = IF Len(fed) + 1 = Len(reported) + ChkptSize
                   THEN fed'
                   ELSE reported

Next == \E header \in Header : Feed(header)

Spec == Init /\ [][Next]_<<fed, reported>>
=============================================================================

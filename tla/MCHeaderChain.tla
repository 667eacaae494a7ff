---------------------------- MODULE MCHeaderChain ----------------------------
(***************************************************************************)
(* A short chain with every fork, and constants scaled down: a reduction of *)
(* at most 5 units of 1/8 (not 99 of 1/2048), a bomb period of 3 blocks.    *)
(***************************************************************************)
EXTENDS HeaderChain, TLC

MCForkNum ==
    "Homestead" :> 2 @@ "Byzantium" :> 8 @@ "Constantinople" :> 11
        @@ "MuirGlacier" :> 13 @@ "London" :> 15 @@ "ArrowGlacier" :> 18
        @@ "GrayGlacier" :> 20

MCBombDelay ==
    "Byzantium" :> 1 @@ "Constantinople" :> 3 @@ "MuirGlacier" :> 4
        @@ "London" :> 6 @@ "ArrowGlacier" :> 8 @@ "GrayGlacier" :> 10

\* The chain may begin just before any of the forks; early on, also with a
\* difficulty close to the modulus.
MCFirstHeaders ==
    [number : {0, 1, 6, 7, 9, 12, 14, 17, 19}, time : {20}, diff : {16, 47, 200},
     hasUncle : BOOLEAN]
    \cup [number : {0, 1}, time : {20}, diff : {3500}, hasUncle : {FALSE}]
=============================================================================

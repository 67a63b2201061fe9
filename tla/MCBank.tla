--------------------------------- MODULE MCBank --------------------------------
(***************************************************************************)
(* Two accounts, one of them empty, three threads, three requests; amounts  *)
(* of nothing, half a cent, two cents and NaN.                              *)
(***************************************************************************)
EXTENDS Bank, TLC

CONSTANTS savings, checking, t1, t2, t3

MCOpening == savings :> 2 @@ checking :> 0
Symmetry == Permutations(Threads)
================================================================================

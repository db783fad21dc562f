------------------------- MODULE MCMramPersistence -------------------------
(***************************************************************************)
(* Two entries of different sizes in a log of a few bytes: a long entry    *)
(* overwrites the remains of short ones and the other way round.           *)
(***************************************************************************)
EXTENDS MramPersistence, TLC

CONSTANTS e1, e2, e3

MCSize == (e1 :> 1) @@ (e2 :> 2) @@ (e3 :> 3)

=============================================================================

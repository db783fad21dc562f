------------------------------ MODULE MCBtree ------------------------------
(* The instances of Btree that TLC checks. *)
EXTENDS Btree

(* Index pages: so many that a run never has to collect garbage. *)
FewPages == 101..112
SomePages == 101..112
ManyPages == 101..130

=============================================================================

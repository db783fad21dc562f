---------------------------- MODULE MCSuperChain ----------------------------
(* The instances of SuperChain that TLC checks. *)
EXTENDS SuperChain

(* Two areas have changed places with the garbage buffer before. *)
Shifted == [a \in Area |-> IF a < 3 THEN a ELSE IF a = AreasNo - 1 THEN 3 ELSE a + 1]

=============================================================================

----------------------------- MODULE MCJournal -----------------------------
(* Two topics, the second listening to the first, as the garbage collection
   listens to the area management. *)
EXTENDS Journal

MCListens == {<<2, 1>>}

=============================================================================

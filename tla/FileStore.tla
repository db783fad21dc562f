----------------------------- MODULE FileStore -----------------------------
(***************************************************************************)
(* What the areas promise to the files kept in them.  A file page is absent *)
(* or holds what one call wrote.  Only the call that runs can change it,   *)
(* and only to its own content or to nothing: not a later call, not garbage *)
(* collection, and not a loss of power with the mount after it, whichever  *)
(* steps these take.                                                       *)
(***************************************************************************)
EXTENDS Naturals

CONSTANT FilePages

VARIABLES
    stored,     \* stored[f]: {} or {the number of the call that wrote f}
    calls       \* calls so far

FileInit ==
    /\ stored = [f \in FilePages |-> {}]
    /\ calls = 0

FileCall ==
    /\ calls' = calls + 1
    /\ UNCHANGED stored

FileWrite(f) ==
    /\ stored' = [stored EXCEPT ![f] = {calls}]
    /\ UNCHANGED calls

FileDelete(f) ==
    /\ stored' = [stored EXCEPT ![f] = {}]
    /\ UNCHANGED calls

FileNext == FileCall \/ \E f \in FilePages : FileWrite(f) \/ FileDelete(f)

FileSpec == FileInit /\ [][FileNext]_<<stored, calls>>

=============================================================================

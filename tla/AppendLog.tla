----------------------------- MODULE AppendLog -----------------------------
(***************************************************************************)
(* What the journal expects of the memory that holds its log: an           *)
(* append-only sequence of entries with one cursor shared by reading and   *)
(* appending (JournalPersistence, src/src/journalPersistence.hpp).         *)
(*                                                                         *)
(* An entry is in the log entirely or not at all, entries are read back in *)
(* the order they were appended, nothing but a clear takes an entry out,   *)
(* and an entry is only ever appended behind the last one.                 *)
(***************************************************************************)
EXTENDS Naturals, Sequences

CONSTANT Entry

VARIABLES
    log,    \* the entries a restart will find
    at      \* how many of them lie before the cursor

logVars == <<log, at>>

LogInit ==
    /\ log = <<>>
    /\ at = 0

(* The cursor goes back to the first entry: a rewind, or a restart. *)
LogRewind ==
    /\ at' = 0
    /\ UNCHANGED log

LogRead ==
    /\ at < Len(log)
    /\ at' = at + 1
    /\ UNCHANGED log

LogAppend(e) ==
    /\ at = Len(log)
    /\ log' = Append(log, e)
    /\ at' = at + 1

LogClear ==
    /\ log' = <<>>
    /\ at' = 0

LogNext ==
    \/ LogRewind
    \/ LogRead
    \/ \E e \in Entry : LogAppend(e)
    \/ LogClear

LogSpec == LogInit /\ [][LogNext]_logVars

=============================================================================

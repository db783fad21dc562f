----------------------------- MODULE InodeTable -----------------------------
(***************************************************************************)
(* What the tree promises to the rest of the file system: a table from the *)
(* numbers of inodes to inodes.  A call changes it at one moment, and a     *)
(* call that has returned is not undone by a loss of power; of a call that  *)
(* was running when power failed, all is there after the mount or nothing.  *)
(***************************************************************************)
EXTENDS Naturals, FiniteSetsExt

CONSTANTS
    Numbers,    \* the numbers an inode may have
    Inodes      \* what an inode may hold

VARIABLES
    table,      \* the inode every number has
    pending,    \* the call that runs
    answer      \* what the last call returned

vars == <<table, pending, answer>>

Operations == {"insert", "update", "remove", "get", "firstFree", "commit"}
\* 0 stands for no inode.
Contents == Inodes \cup {0}

Calls == [op : Operations, key : Numbers, val : Contents]
Idle == [op |-> "none", key |-> 0, val |-> 0]
NoAnswer == [result |-> "none", val |-> 0]

TypeOK ==
    /\ table \in [Numbers -> Contents]
    /\ pending \in Calls \cup {Idle}
    /\ answer \in [result : {"none", "ok", "exists", "notFound", "bug", "lowMem"}, val : Nat]

\* What call c makes of table t, and what it returns.
Changed(t, c) ==
    CASE c.op = "insert" /\ t[c.key] = 0 -> [t EXCEPT ![c.key] = c.val]
      [] c.op = "update" /\ t[c.key] # 0 -> [t EXCEPT ![c.key] = c.val]
      [] c.op = "remove" -> [t EXCEPT ![c.key] = 0]
      [] OTHER -> t

Result(t, c) ==
    CASE c.op = "insert" /\ t[c.key] # 0 -> "exists"
      [] c.op = "update" /\ t[c.key] = 0 -> "bug"
      [] c.op \in {"remove", "get"} /\ t[c.key] = 0 -> "notFound"
      [] OTHER -> "ok"

Value(t, c) ==
    CASE c.op = "get" -> t[c.key]
      [] c.op = "firstFree" -> Max({n \in Numbers : t[n] # 0}) + 1
      [] OTHER -> 0

Init ==
    /\ table \in [Numbers -> Contents]
    /\ pending = Idle
    /\ answer = NoAnswer

Call ==
    /\ pending = Idle
    /\ pending' \in Calls
    /\ UNCHANGED <<table, answer>>

Return ==
    /\ pending # Idle /\ pending' = Idle
    /\ table' = Changed(table, pending)
    /\ answer' = [result |-> Result(table, pending), val |-> Value(table, pending)]

\* The memory of the tree cannot hold all nodes a call has to change: an
\* insertion is refused, a removal is made all the same.
Refuse ==
    /\ pending.op \in {"insert", "remove"} /\ pending' = Idle
    /\ answer' = [result |-> "lowMem", val |-> 0]
    /\ table' = IF pending.op = "insert" THEN table ELSE Changed(table, pending)

\* The mount after a loss of power.
Mount ==
    /\ pending' = Idle /\ answer' = NoAnswer
    /\ table' \in {table, Changed(table, pending)}

Next == Call \/ Return \/ Refuse \/ Mount

Spec == Init /\ [][Next]_vars

=============================================================================

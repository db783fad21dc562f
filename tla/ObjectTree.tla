----------------------------- MODULE ObjectTree -----------------------------
(***************************************************************************)
(* What the device promises its users: a tree of directories and files.    *)
(* A call is done as a whole or refused, and a refused call changes         *)
(* nothing.  A loss of power does not undo a call that has returned; of the *)
(* call that was running, all is there after the mount or nothing.         *)
(***************************************************************************)
EXTENDS Naturals, Sequences, SequencesExt

CONSTANTS
    Numbers,    \* the numbers of objects; 0 is the root directory
    Names

VARIABLES
    objects,    \* the objects that can be reached from the root
    pending,    \* the call that runs, with the objects its path led to
    answer      \* whether the last call was done

vars == <<objects, pending, answer>>

Entry == [name : Names, no : Numbers]
Object(type, writable, full, entries) ==
    [type |-> type, writable |-> writable, full |-> full, entries |-> entries]

\* dir is the directory, no the object, as far as a call names one.
Call(op, type, name, dir, no) ==
    [op |-> op, type |-> type, name |-> name, dir |-> dir, no |-> no]
Idle == Call("none", "none", "none", 0, 0)

----------------------------------------------------------------------------

\* objs with object n, which directory dir lists as its last one.
With(objs, n, object, dir, name) ==
    [m \in DOMAIN objs \cup {n} |->
        IF m = n THEN object
        ELSE IF m = dir THEN [objs[m] EXCEPT !.entries = Append(@, [name |-> name, no |-> n])]
        ELSE objs[m]]

Created(objs, c) ==
    IF objs[c.dir].type # "dir" THEN {}
    ELSE {With(objs, n, Object(c.type, TRUE, FALSE, <<>>), c.dir, c.name) :
            n \in Numbers \ DOMAIN objs}

\* A directory goes only when it is empty, and nothing goes that is protected.
MayEmpty(objs, no) == objs[no].writable /\ objs[no].entries = <<>>

\* The directory no longer lists the object, and the object is gone.
Listed(objs, c) == {i \in DOMAIN objs[c.dir].entries : objs[c.dir].entries[i].no = c.no}

Removed(objs, c) ==
    IF c.no = 0 \/ ~MayEmpty(objs, c.no) THEN {}
    ELSE {[n \in DOMAIN objs \ {c.no} |->
             IF n = c.dir THEN [objs[n] EXCEPT !.entries = RemoveAt(@, i)] ELSE objs[n]] :
            i \in Listed(objs, c)}

\* What objs may become by call c; nothing if the call is to be refused.
Changed(objs, c) ==
    CASE c.op = "create" -> Created(objs, c)
      [] c.op = "remove" -> Removed(objs, c)
      [] c.op = "truncate" -> IF ~MayEmpty(objs, c.no) THEN {}
                              ELSE {[objs EXCEPT ![c.no].full = FALSE]}
      [] c.op = "write" -> IF ~objs[c.no].writable THEN {}
                           ELSE {[objs EXCEPT ![c.no].full = TRUE]}
      [] c.op = "chmod" -> {[objs EXCEPT ![c.no].writable = ~@]}

----------------------------------------------------------------------------

Init ==
    /\ objects = [n \in {0} |-> Object("dir", TRUE, FALSE, <<>>)]
    /\ pending = Idle /\ answer = "none"

Begin ==
    /\ pending = Idle
    /\ pending'.op # "none" /\ answer' = "none"
    /\ UNCHANGED objects

Return ==
    /\ pending # Idle /\ pending' = Idle
    /\ answer' = "ok" /\ objects' \in Changed(objects, pending)

Refuse ==
    /\ pending # Idle /\ pending' = Idle
    /\ answer' = "refused" /\ UNCHANGED objects

\* The mount after a loss of power.
Mount ==
    /\ pending' = Idle /\ answer' = "none"
    /\ \/ UNCHANGED objects
       \/ pending # Idle /\ objects' \in Changed(objects, pending)

Next == Begin \/ Return \/ Refuse \/ Mount

Spec == Init /\ [][Next]_vars

=============================================================================

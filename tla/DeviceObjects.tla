--------------------------- MODULE DeviceObjects ---------------------------
(***************************************************************************)
(* The calls of the device on directories and files (device.cpp).  A call   *)
(* changes the tree of inodes and the contents of a directory in several    *)
(* steps, each of which survives a loss of power by itself (InodeTable and  *)
(* FileStore are what the tree and the data promise).  The device notes in  *)
(* the log what it is about to do, and from these notes a mount completes   *)
(* or reverts the call that was interrupted.                                *)
(***************************************************************************)
EXTENDS Naturals, Sequences, FiniteSets, SequencesExt, FiniteSetsExt

CONSTANTS
    Numbers,        \* bound: the numbers of inodes, from 0, the root directory
    Names,          \* names of objects; with the empty name, if a run lets mkDir use it
    MaxPath,        \* bound: names in a path
    MaxOpen,        \* bound: how often an object may be open
    MaxLosses,      \* bound: losses of power
    MaxLog,         \* bound: notes in the log when a call begins
    Calls,          \* the calls a run makes
    Spared          \* what a run leaves out, of what is known to go wrong

ASSUME ObjectsAssumption ==
    /\ 0 \in Numbers /\ Numbers \subseteq Nat /\ IsFiniteSet(Numbers)
    /\ {MaxPath, MaxOpen, MaxLosses, MaxLog} \subseteq Nat
    /\ Spared \subseteq {"refused", "unlisted", "noSpace", "belowFile", "root"}

VARIABLES
    table,          \* the inodes in the tree, with what a directory lists
    log,            \* entries of the device since its last checkpoint
    refs,           \* references of open objects in the pool of inodes
    call,           \* the step the program is at
    pending,        \* the call as the caller sees it
    answer,         \* what the last call returned
    before,         \* for the properties: the objects before the call
    losses          \* counts losses of power

vars == <<table, log, refs, call, pending, answer, before, losses>>

----------------------------------------------------------------------------
(* Inodes and paths *)

None == [type |-> "none", writable |-> FALSE, full |-> FALSE, entries |-> <<>>]
NewInode(type) == [None EXCEPT !.type = type, !.writable = TRUE]

InUse == {n \in Numbers : table[n].type # "none"}

findFirstFreeNo == Max(InUse) + 1

Found(no) == [result |-> "ok", no |-> no]
Failed(result) == [result |-> result, no |-> 0]

\* An entry without a name is too short for those that look through a directory.
NoName == ""

\* The first entry of directory no with this name (getInodeNoInDir, and then
\* findOrLoadInode).
Lookup(no, name) ==
    LET entries == table[no].entries
        hits == {i \in DOMAIN entries : entries[i].name \in {name, NoName}}
        entry == entries[Min(hits)]
    IN  IF table[no].type # "dir" THEN Failed("invalidInput")
        ELSE IF hits = {} THEN Failed("notFound")
        ELSE IF entry.name = NoName THEN Failed("bug")
        ELSE IF entry.no \notin InUse THEN Failed("notFound")
        ELSE Found(entry.no)

Root == IF 0 \in InUse THEN Found(0) ELSE Failed("fail")

getInodeOfElem(path) ==
    LET Elem[i \in 0..Len(path)] ==
            IF i = 0 THEN Root
            ELSE IF Elem[i - 1].result = "ok" THEN Lookup(Elem[i - 1].no, path[i])
            ELSE Elem[i - 1]
    IN  Elem[Len(path)]

\* The parent of the root directory is the root directory.
getParentDir(path) ==
    getInodeOfElem(IF path = <<>> THEN path ELSE Front(path))

Paths == UNION {[1..k -> Names \ {NoName}] : k \in 0..MaxPath}

\* What a directory lists without the first entry of inode no.
Without(entries, no) ==
    LET listed == {i \in DOMAIN entries : entries[i].no = no}
    IN  IF listed = {} THEN entries ELSE RemoveAt(entries, Min(listed))

\* Whether the size of an inode is not 0.
HasData(inode) == inode.full \/ inode.entries # <<>>

----------------------------------------------------------------------------
(* Calls *)

NoCall == [at |-> "none", mount |-> FALSE, no |-> 0, dir |-> 0, name |-> "none",
           type |-> "none"]
At(step) == call.at = step
Goto(step) == call' = [call EXCEPT !.at = step]

Pending(op, type, name, dir, no) ==
    [op |-> op, type |-> type, name |-> name, dir |-> dir, no |-> no]
Idle == Pending("none", "none", "none", 0, 0)
AtRest == call = NoCall

\* The objects that can be reached from the root directory: those in every set
\* that holds the root and what its directories list.
Lists(n) == IF table[n].type = "dir" THEN {e.no : e \in ToSet(table[n].entries)} ELSE {}
Closed(ns) == 0 \in ns /\ \A n \in ns : Lists(n) \subseteq ns
Reachable == {n \in InUse : \A ns \in SUBSET Numbers : Closed(ns) => n \in ns}
Objects == [n \in Reachable |-> table[n]]

Start(op, step, type, name, dir, no) ==
    /\ Len(log) <= MaxLog
    /\ pending' = Pending(op, type, name, dir, no)
    /\ call' = [at |-> step, mount |-> FALSE, no |-> no, dir |-> dir, name |-> name,
                type |-> type]
    /\ before' = Objects
    /\ answer' = "none"
    /\ UNCHANGED <<table, log, refs, losses>>

\* A mount has no caller.
Return(result) ==
    /\ call' = NoCall
    /\ pending' = Idle
    /\ answer' = IF call.mount THEN "none" ELSE result
    /\ before' = <<>>

\* mkDir does not look for the name, and takes any inode for a directory.  The
\* path of the root leaves no name.
MkDir(path) ==
    LET name == IF path = <<>> THEN NoName ELSE Last(path)
    IN  /\ AtRest /\ "mkDir" \in Calls
        /\ name \in Names /\ getParentDir(path).result = "ok"
        /\ "belowFile" \in Spared => table[getParentDir(path).no].type = "dir"
        /\ findFirstFreeNo \in Numbers
        /\ Start("create", "mkObjInode", "dir", name, getParentDir(path).no, findFirstFreeNo)

\* createFile, as touch and open call it when they do not find the object.
CreateFile(path) ==
    /\ AtRest /\ "createFile" \in Calls
    /\ path # <<>> /\ getInodeOfElem(path).result = "notFound"
    /\ getParentDir(path).result = "ok"
    /\ findFirstFreeNo \in Numbers
    /\ Start("create", "mkObjInode", "file", Last(path), getParentDir(path).no, findFirstFreeNo)

\* Mutant: An object that is open can be removed.
Bad_IsOpen(no) == FALSE

IsOpen(no) == refs[no] > 0

RemoveObject(path) ==
    /\ AtRest /\ "remove" \in Calls
    /\ getInodeOfElem(path).result = "ok"
    /\ ~IsOpen(getInodeOfElem(path).no)
    /\ "root" \in Spared => path # <<>>
    /\ Start("remove", "removeObj", "none", "none", getParentDir(path).no, getInodeOfElem(path).no)

Truncate(path) ==
    /\ AtRest /\ "truncate" \in Calls
    /\ getInodeOfElem(path).result = "ok"
    /\ Start("truncate", "truncateObj", "none", "none", 0, getInodeOfElem(path).no)

Chmod(path) ==
    /\ AtRest /\ "chmod" \in Calls
    /\ getInodeOfElem(path).result = "ok"
    /\ Start("chmod", "updateInode", "none", "none", 0, getInodeOfElem(path).no)

Write(no) ==
    /\ AtRest /\ "write" \in Calls
    /\ refs[no] > 0 /\ table[no].type = "file"
    /\ Start("write", "writeFile", "none", "none", 0, no)

\* open and openDir, close and closeDir: a reference in the pool of inodes.
Open(path) ==
    /\ AtRest /\ "open" \in Calls
    /\ getInodeOfElem(path).result = "ok"
    /\ LET no == getInodeOfElem(path).no
       IN  /\ refs[no] < MaxOpen
           /\ refs' = [refs EXCEPT ![no] = @ + 1]
    /\ UNCHANGED <<table, log, call, pending, answer, before, losses>>

\* To close a file is to flush it, and so a checkpoint.
Close(no) ==
    /\ AtRest /\ refs[no] > 0
    /\ refs' = [refs EXCEPT ![no] = @ - 1]
    /\ log' = IF table[no].type = "file" THEN <<>> ELSE log
    /\ UNCHANGED <<table, call, pending, answer, before, losses>>

Flush(no) ==
    /\ AtRest /\ refs[no] > 0 /\ table[no].type = "file"
    /\ log' = <<>>
    /\ UNCHANGED <<table, refs, call, pending, answer, before, losses>>

----------------------------------------------------------------------------
(* createFile, mkDir, insertInodeInDir *)

InsertIntoDir(dir) == [op |-> "insertIntoDir", no |-> 0, dir |-> dir]
RemoveObj(no, dir) == [op |-> "removeObj", no |-> no, dir |-> dir]

\* Mutant: The number noted is the one after the number of the new inode.
Bad_MkObjInode(no) == [op |-> "mkObjInode", no |-> no + 1, dir |-> 0]

MkObjInode(no) == [op |-> "mkObjInode", no |-> no, dir |-> 0]

LogStep(step, entry, next) ==
    /\ At(step)
    /\ log' = Append(log, entry)
    /\ Goto(next)
    /\ UNCHANGED <<table, refs, pending, answer, before, losses>>

LogMkObjInode == LogStep("mkObjInode", MkObjInode(call.no), "insertInode")

InsertInode ==
    /\ At("insertInode")
    /\ table' = [table EXCEPT ![call.no] = NewInode(call.type)]
    /\ Goto("insertIntoDir")
    /\ UNCHANGED <<log, refs, pending, answer, before, losses>>

LogInsertIntoDir == LogStep("insertIntoDir", InsertIntoDir(call.dir), "writeDir")

InsertInodeInDir ==
    /\ At("writeDir")
    /\ \E written \in IF "noSpace" \in Spared THEN {TRUE} ELSE BOOLEAN :
         IF written
           THEN /\ table' = [table EXCEPT ![call.dir].entries =
                                Append(@, [name |-> call.name, no |-> call.no])]
                /\ Goto("checkpoint")
                /\ UNCHANGED <<pending, answer, before>>
           ELSE Return("refused") /\ UNCHANGED table
    /\ UNCHANGED <<log, refs, losses>>

\* The checkpoint with which a call ends.
Checkpoint ==
    /\ At("checkpoint")
    /\ log' = <<>>
    /\ Return("ok")
    /\ UNCHANGED <<table, refs, losses>>

----------------------------------------------------------------------------
(* truncate, write, chmod *)

\* Mutant: A directory that still lists objects is truncated.
Bad_MayTruncate(inode) == inode.writable

MayTruncate(inode) == inode.writable /\ ~(inode.type = "dir" /\ inode.entries # <<>>)

Emptied(inode) == [inode EXCEPT !.full = FALSE, !.entries = <<>>]

\* truncate to length 0, for the user.
TruncateObj ==
    /\ At("truncateObj")
    /\ IF MayTruncate(table[call.no])
         THEN /\ table' = [table EXCEPT ![call.no] = Emptied(@)]
              /\ Goto("checkpoint")
              /\ UNCHANGED <<pending, answer, before>>
         ELSE Return("refused") /\ UNCHANGED table
    /\ UNCHANGED <<log, refs, losses>>

WriteFile ==
    /\ At("writeFile")
    /\ IF table[call.no].writable
         THEN /\ table' = [table EXCEPT ![call.no].full = TRUE]
              /\ Goto("checkpoint")
              /\ UNCHANGED <<pending, answer, before>>
         ELSE Return("refused") /\ UNCHANGED table
    /\ UNCHANGED <<log, refs, losses>>

UpdateInode ==
    /\ At("updateInode")
    /\ table' = [table EXCEPT ![call.no].writable = ~@]
    /\ Return("ok")
    /\ UNCHANGED <<log, refs, losses>>

----------------------------------------------------------------------------
(* remove, removeInodeFromDir, and how a mount completes a removal *)

LogRemoveObj == LogStep("removeObj", RemoveObj(call.no, call.dir), "truncate")

\* A removal takes the entry away and then the inode, a mount does it the other
\* way round.
AfterTruncate == IF call.mount THEN "deleteInode" ELSE "unlist"
AfterUnlist == IF call.mount THEN "checkpoint" ELSE "deleteInode"

\* Mutant: A mount leaves the entry in the directory.
Bad_AfterDelete == "checkpoint"

AfterDelete == IF call.mount /\ Last(log).op = "removeObj" THEN "unlist" ELSE "checkpoint"

RemoveContents ==
    /\ At("truncate")
    /\ IF call.mount \/ MayTruncate(table[call.no])
         THEN /\ table' = [table EXCEPT ![call.no] = Emptied(@)]
              /\ Goto(AfterTruncate)
              /\ UNCHANGED <<pending, answer, before>>
         ELSE Return("refused") /\ UNCHANGED table
    /\ UNCHANGED <<log, refs, losses>>

\* The directory is written without the entry and then made shorter, which a
\* mount completes.  When it was the last one, there is no checkpoint.  A mount
\* takes a missing entry for done, but not a missing directory.
RemoveInodeFromDir ==
    /\ At("unlist")
    /\ LET rest == Without(table[call.dir].entries, call.no)
       IN  /\ table' = [table EXCEPT ![call.dir].entries = rest]
           /\ IF /\ rest = table[call.dir].entries
                 /\ ~call.mount \/ call.dir \notin InUse
                THEN Return("refused")
                ELSE /\ Goto(IF rest \notin {<<>>, table[call.dir].entries}
                               THEN "unlisted" ELSE AfterUnlist)
                     /\ UNCHANGED <<pending, answer, before>>
    /\ UNCHANGED <<log, refs, losses>>

\* The checkpoint of removeInodeFromDir.
CheckpointUnlisted ==
    /\ At("unlisted")
    /\ log' = <<>>
    /\ Goto(AfterUnlist)
    /\ UNCHANGED <<table, refs, pending, answer, before, losses>>

DeleteInode ==
    /\ At("deleteInode")
    /\ table' = [table EXCEPT ![call.no] = None]
    /\ Goto(AfterDelete)
    /\ UNCHANGED <<log, refs, pending, answer, before, losses>>

----------------------------------------------------------------------------
(* Loss of power and mount *)

\* What a run may spare: a loss of power while a removal is noted that is or will
\* be refused, and one between the two halves of a removal that is not noted any
\* more.
Refused ==
    /\ log # <<>> /\ Last(log).op = "removeObj" /\ ~call.mount
    /\ \/ pending.op # "remove" \/ At("removeObj") \/ call.no = 0
       \/ At("truncate") /\ ~MayTruncate(table[call.no])
Unlisted == At("deleteInode") /\ ~call.mount /\ log = <<>>

\* processEntry: what the last entry says, and the numbers the entries name.
TargetInode == log[Max({i \in DOMAIN log : log[i].op # "insertIntoDir"})].no
FolderInode == Last(log).dir

PowerLoss ==
    /\ losses < MaxLosses
    /\ ~("refused" \in Spared /\ Refused)
    /\ ~("unlisted" \in Spared /\ Unlisted)
    /\ losses' = losses + 1
    /\ refs' = [n \in Numbers |-> 0]
    /\ call' = [NoCall EXCEPT !.at = "endOfLog", !.mount = TRUE]
    /\ before' = IF AtRest THEN Objects ELSE before
    /\ answer' = "none"
    /\ UNCHANGED <<table, log, pending>>

\* An object that came into its directory stays, and so does one that was not
\* looked for to the end.  (That getNameOfInodeInDir copies the name over the
\* pointer it was given, which longer names overrun, is left out.)
Undo ==
    IF Last(log).op = "insertIntoDir"
         /\ \E e \in ToSet(table[FolderInode].entries) : e.no = TargetInode \/ e.name = NoName
      THEN "checkpoint" ELSE "deleteInode"

\* signalEndOfLog.  When the directory is missing it ends without a checkpoint.
SignalEndOfLog ==
    /\ At("endOfLog")
    /\ IF log = <<>> \/ (Last(log).op = "insertIntoDir" /\ FolderInode \notin InUse)
         THEN Return("none")
         ELSE /\ call' = [call EXCEPT !.no = TargetInode, !.dir = FolderInode, !.at =
                            IF Last(log).op # "removeObj" THEN Undo
                            ELSE IF TargetInode \notin InUse THEN "unlist"
                            ELSE IF HasData(table[TargetInode]) THEN "truncate"
                            ELSE "deleteInode"]
              /\ UNCHANGED <<pending, answer, before>>
    /\ UNCHANGED <<table, log, refs, losses>>

----------------------------------------------------------------------------

Init ==
    /\ table = [n \in Numbers |-> IF n = 0 THEN NewInode("dir") ELSE None]
    /\ log = <<>> /\ refs = [n \in Numbers |-> 0]
    /\ call = NoCall /\ pending = Idle /\ answer = "none"
    /\ before = <<>>
    /\ losses = 0

Begin(path) ==
    \/ MkDir(path) \/ CreateFile(path) \/ RemoveObject(path) \/ Truncate(path)
    \/ Chmod(path) \/ Open(path)

Create == LogMkObjInode \/ InsertInode \/ LogInsertIntoDir \/ InsertInodeInDir
RemoveStep == \/ LogRemoveObj \/ RemoveContents \/ RemoveInodeFromDir
              \/ CheckpointUnlisted \/ DeleteInode

\* What the program does by itself once a call or a mount has begun.
Step == \/ Create \/ TruncateObj \/ WriteFile \/ UpdateInode \/ RemoveStep
        \/ Checkpoint \/ SignalEndOfLog

Next ==
    \/ \E path \in Paths : Begin(path)
    \/ \E no \in Numbers : Write(no) \/ Close(no) \/ Flush(no)
    \/ Step
    \/ PowerLoss

Spec == Init /\ [][Next]_vars
LiveSpec == Spec /\ WF_vars(Step)

----------------------------------------------------------------------------
(* Properties *)

Node == [type : {"none", "dir", "file"}, writable : BOOLEAN, full : BOOLEAN,
         entries : Seq([name : Names, no : Numbers])]

Steps ==
    {"none", "endOfLog", "checkpoint",
     "mkObjInode", "insertInode", "insertIntoDir", "writeDir",
     "truncateObj", "writeFile", "updateInode",
     "removeObj", "truncate", "unlist", "unlisted", "deleteInode"}

TypeOK ==
    /\ table \in [Numbers -> Node]
    /\ log \in Seq([op : {"mkObjInode", "insertIntoDir", "removeObj"},
                    no : Numbers, dir : Numbers])
    /\ refs \in [Numbers -> 0..MaxOpen]
    /\ call \in [at : Steps, mount : BOOLEAN, no : Numbers, dir : Numbers,
                 name : Names \cup {"none"}, type : {"none", "dir", "file"}]
    /\ pending \in [op : {"none", "create", "remove", "truncate", "chmod", "write"},
                    type : {"none", "dir", "file"}, name : Names \cup {"none"},
                    dir : Numbers, no : Numbers]
    /\ answer \in {"none", "ok", "refused"}
    /\ losses \in 0..MaxLosses

\* EntriesExist: between calls a directory lists no inode that is not in the
\* tree (checkFolderSanity: "Folder contains a nonexistent Inode").
EntriesExist ==
    AtRest => \A d \in InUse : \A e \in ToSet(table[d].entries) : e.no \in InUse

\* NoOrphans: between calls every inode but the root is listed, once, or it would
\* use its pages for ever (insertInodeInDir, removeInodeFromDir, signalEndOfLog).
Listings(n) ==
    UNION {{<<d, i>> : i \in {k \in DOMAIN table[d].entries : table[d].entries[k].no = n}} :
              d \in {k \in Reachable : table[k].type = "dir"}}
NoOrphans ==
    AtRest => \A n \in InUse \ {0} : Cardinality(Listings(n)) = 1

\* OpenIsKept: the inode of an open object stays in the tree (the references that
\* remove looks at in the pool).
OpenIsKept == \A n \in Numbers : refs[n] > 0 => n \in InUse

\* The calls implement a tree of objects with calls that are done as a whole or
\* not at all, whenever power fails.
Tree == INSTANCE ObjectTree WITH objects <- IF AtRest THEN Objects ELSE before

ImplementsTree == Tree!Spec

\* RemovalEnds: a removal that has passed its checks is completed, if need be by
\* the mount after a loss of power (remove, signalEndOfLog): the object is gone
\* and no directory lists it.
RemovalEnds ==
    \A n \in Numbers \ {0} :
        (At("unlist") /\ call.no = n) ~> (AtRest /\ n \notin Reachable /\ Listings(n) = {})

=============================================================================

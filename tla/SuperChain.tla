----------------------------- MODULE SuperChain -----------------------------
(***************************************************************************)
(* The chain of the superblock (class Superblock, src/src/superblock.cpp): *)
(* an anchor that never leaves area 0 points to the area of a jump pad,     *)
(* that one points to the area of the superindex, and the superindex holds  *)
(* the area map and the address of the root node.  Each of the three is     *)
(* written page by page through its area; where the area is full it moves   *)
(* to another, and its predecessor in the chain gets a new entry.           *)
(*                                                                          *)
(* A call is a program in prog, one instruction per change that reaches     *)
(* flash or journal, and power may fail between any two.                    *)
(***************************************************************************)
EXTENDS AreaMap, FiniteSets, FiniteSetsExt, SequencesExt

CONSTANTS
    BlocksPerArea,  \* blocksPerArea
    PagesPerBlock,  \* pagesPerBlock
    SuperPages,     \* neededPages: the pages one superindex takes
    MinFree,        \* minFreeAreas
    Roots,          \* addresses of root nodes that are told apart
    Position,       \* where the areas lie; swaps are the subject of AreaMgmt
    MaxLog,         \* bound: entries in the journal when a call starts
    Spared          \* spans in which power does not fail, and reuse left out

ASSUME ChainAssumption ==
    /\ AreasNo > 4
    /\ BlocksPerArea \in Nat \ {0}
    /\ SuperPages \in 1 .. PagesPerBlock
    /\ PagesPerBlock \in Nat
    /\ MinFree \in Nat
    /\ Position \in [Area -> Pos]
    /\ \A a, b \in Area : Position[a] = Position[b] => a = b
    /\ \A a \in 0 .. 2 : Position[a] = a
    /\ Roots \in Nat \ {0}
    /\ Spared \subseteq {"overflow", "torn", "release", "previous"}

VARIABLES
    flash,      \* the pages of every physical area, for the superblock's areas
    map,        \* mMap, mActiveAreas, mUsedAreas
    log,        \* the journal
    root,       \* mRootnodeAddr
    rootDirty,  \* mRootnodeDirty
    sumDirty,   \* some cached summary is dirty and not from the superindex
    path,       \* pathToSuperIndexDirect
    serial,     \* superChainIndexes
    prog,       \* what is left of the running call
    phase,      \* "run", or why the file system stopped
    overflowing \* history: the running commit starts a new block

vars ==
    <<flash, map, log, root, rootDirty, sumDirty, path, serial, prog, phase, overflowing>>

(* Elements of the chain: the anchor, one jump pad (jumpPadNo = 1), the
   superindex. *)
Elem == 0 .. 2

Page == 0 .. BlocksPerArea * PagesPerBlock - 1

BlockOf(p) == p \div PagesPerBlock

Needed(i) == IF i = 2 THEN SuperPages ELSE 1

Empty == [kind |-> "empty"]

Programmed(f, pos, p) == f[pos][p] # Empty

NotFound == [kind |-> "notFound"]

---------------------------------------------------------------------------
(* Reading *)

(* The pages of a block a search reads: up to the first empty one. *)
Prefix(f, pos, b) ==
    {p \in Page : BlockOf(p) = b
        /\ \A q \in b * PagesPerBlock .. p : Programmed(f, pos, q)}

(* The first page with the highest serial number since the last one that is
   zero: zero says that the numbers started anew. *)
NewestInBlock(f, pos, b) ==
    LET pages == Prefix(f, pos, b)
        zeros == {p \in pages : f[pos][p].no = 0}
        since == {p \in pages : \A z \in zeros : p >= z}
        top == Max({f[pos][p].no : p \in since})
    IN  Min({p \in since : f[pos][p].no = top})

(* mutant: the search forgets that serial number 0 starts anew *)
Bad_NewestInArea(f, pos) ==
    LET blocks == {b \in 0 .. BlocksPerArea - 1 : \E p \in Prefix(f, pos, b) : f[pos][p].no > 0}
    IN  IF blocks = {} THEN NotFound
        ELSE [kind |-> "at", pos |-> pos, page |-> NewestInBlock(f, pos, Min(blocks))]

(* Its first block with an entry is taken for the area's newest. *)
NewestInArea(f, pos) ==
    LET blocks == {b \in 0 .. BlocksPerArea - 1 : Prefix(f, pos, b) # {}}
    IN  IF blocks = {} THEN NotFound
        ELSE [kind |-> "at", pos |-> pos, page |-> NewestInBlock(f, pos, Min(blocks))]

At(f, addr) == f[addr.pos][addr.page]

(* A superindex of several pages is whole if all its pages are programmed and
   carry its serial number. *)
Whole(f, addr) ==
    /\ At(f, addr).kind = "superindex"
    /\ \A k \in 1 .. SuperPages - 1 :
        /\ addr.page + k \in Page
        /\ Programmed(f, addr.pos, addr.page + k)
        /\ f[addr.pos][addr.page + k].no = At(f, addr).no

InUse(m) == {a \in Area : m.status[a] # "empty"}

(* Of the checks of a superindex the one that the map of this module can fail: it
   keeps no summaries of active areas and erases none of them, and the total of
   deletions is AreaMgmt's (MapPlausible). *)
isPlausible(m) == Cardinality(InUse(m)) = m.used

(* The newest entry of the area that the entry at addr points to. *)
Successor(f, addr) == IF addr = NotFound THEN NotFound ELSE NewestInArea(f, At(f, addr).next)

(* The addresses of anchor, jump pad and superindex, or NotFound where a mount
   fails. *)
ChainOf(f) ==
    LET IsPad(pad) == pad # NotFound /\ pad.pos # 0 /\ At(f, pad).kind = "pad"
        IsSuper(super) ==
            super # NotFound /\ super.pos # 0 /\ Whole(f, super) /\ isPlausible(At(f, super).map)
        Chain(anchor, pad, super) ==
            IF IsSuper(super) THEN [i \in Elem |-> IF i = 0 THEN anchor ELSE IF i = 1 THEN pad ELSE super]
            ELSE NotFound
        FromPad(anchor, pad) ==
            IF IsPad(pad) THEN Chain(anchor, pad, Successor(f, pad)) ELSE NotFound
        FromAnchor(anchor) == FromPad(anchor, Successor(f, anchor))
    IN  FromAnchor(NewestInArea(f, 0))

(* mutant: the new place of a moved element is not marked *)
Bad_AfterMove(m, addr, prev) ==
    IF prev = 0 THEN m ELSE [m EXCEPT !.status[prev] = "empty"]

(* What an element's entry that names a previous area says of the map: that
   area is free, and the one it lies on now is not. *)
AfterMove(m, addr, prev) ==
    IF prev = 0 THEN m
    ELSE LET now == CHOOSE a \in Area : m.pos[a] = addr.pos
         IN  [m EXCEPT !.status = [@ EXCEPT ![prev] = "empty", ![now] = "active"],
                       !.type[now] = "superblock"]

(* readSuperIndex, given a chain: the map of the superindex with the moves of
   superindex and jump pad applied, last element first. *)
MapOf(f, chain) ==
    LET index == At(f, chain[2])
    IN  AfterMove(AfterMove(index.map, chain[2], index.prev),
                  chain[1], At(f, chain[1]).prev)

(* preScan of Superblock: every entry of the log, whatever checkpoint follows. *)
Replayed(m, l) ==
    LET After[i \in 0 .. Len(l)] == IF i = 0 THEN m ELSE Applied(After[i - 1], l[i])
    IN  After[Len(l)]

(* Entries of other topics that matter here: a page status that makes a
   summary dirty, and the checkpoint that retires those. *)
Rootnode(r) == [op |-> "rootnode", root |-> r]
PageStatus == [op |-> "page"]
SumCheckpoint == [op |-> "checkpoint"]

RootEntries(l) == {i \in DOMAIN l : l[i].op = "rootnode"}

ReplayedRoot(r, l) == IF RootEntries(l) = {} THEN r ELSE l[Max(RootEntries(l))].root

(* registerRootnode during the replay: dirty as soon as one differs. *)
ReplayedDirty(r, l) == \E i \in RootEntries(l) : l[i].root # r

ReplayedSumDirty(l) ==
    \E i \in DOMAIN l : l[i] = PageStatus /\ \A j \in i .. Len(l) : l[j] # SumCheckpoint

---------------------------------------------------------------------------
(* Finding a place for a new entry *)

FreeRun(f, pos, p, n) ==
    /\ \A k \in 0 .. n - 1 : p + k \in Page
    /\ \A k \in 0 .. n - 1 : BlockOf(p + k) = BlockOf(p) /\ ~Programmed(f, pos, p + k)

FreeInBlock(f, pos, b, n) == {p \in Page : BlockOf(p) = b /\ FreeRun(f, pos, p, n)}

(* findFirstFreeEntryInArea.  Blocks are looked at in order.  The first that
   is full says that the next is the one to use; the first that has entries and
   room is the one; if there is neither, the area is empty. *)
FreeInArea(f, pos, n) ==
    LET blocks == 0 .. BlocksPerArea - 1
        full == {b \in blocks : FreeInBlock(f, pos, b, n) = {}}
        begun == {b \in blocks \ full : Min(FreeInBlock(f, pos, b, n)) # b * PagesPerBlock}
        first == IF full \cup begun = {} THEN 0 ELSE Min(full \cup begun)
        block == IF first \in full THEN first + 1 ELSE first
    IN  IF block = BlocksPerArea THEN {} ELSE FreeInBlock(f, pos, block, n)

(* findBestNextFreeArea *)
FreeAreas == {a \in Area \ {0} : map.status[a] = "empty"}

---------------------------------------------------------------------------
(* Instructions *)

Do(d) == [do |-> d]
Log(entries) == [do |-> "log", entries |-> entries]
Insert(i, no, next, used) == [do |-> "insert", elem |-> i, no |-> no, next |-> next, used |-> used]
Erase(pos, b) == [do |-> "erase", pos |-> pos, block |-> b]
Write(pos, p, entry) == [do |-> "write", pos |-> pos, page |-> p, entry |-> entry]
WriteIndex(pos, p, no, prev, used) ==
    [do |-> "writeIndex", pos |-> pos, page |-> p, no |-> no, prev |-> prev, used |-> used]

Kind(i) == IF i = 0 THEN "anchor" ELSE "pad"

Logical(pos) == CHOOSE a \in Area : map.pos[a] = pos

(* The serial number of an entry of element i: it starts anew in a new block. *)
SerialFor(i, pos, p, no) ==
    IF path[i].pos = pos /\ BlockOf(path[i].page) = BlockOf(p) THEN no ELSE 0

(* mutant: the block an element leaves is not erased *)
Bad_handleBlockOverflow(i, pos, p) == <<>>

(* handleBlockOverflow erases the block the element leaves, before anything is
   written to the new one. *)
handleBlockOverflow(i, pos, p) ==
    IF path[i].pos = pos /\ BlockOf(path[i].page) = BlockOf(p) THEN <<>>
    ELSE <<Erase(path[i].pos, BlockOf(path[i].page))>>

(* The pages of one entry. *)
WriteEntry(i, pos, p, no, prev, next, used) ==
    IF i < 2 THEN <<Write(pos, p, [kind |-> Kind(i), no |-> no, prev |-> prev, next |-> next])>>
    ELSE <<WriteIndex(pos, p, no, prev, used)>>
         \o [k \in 1 .. SuperPages - 1 |-> Write(pos, p + k, [kind |-> "rest", no |-> no])]

Place(i, pos, p, no, prev, next, used) ==
    handleBlockOverflow(i, pos, p)
        \o WriteEntry(i, pos, p, SerialFor(i, pos, p, no), prev, next, used)

(* What follows the entry of element i: nothing if it stayed in its area, the
   entry of its predecessor if it moved. *)
AfterEntry(i, moved, pos) ==
    IF i > 0 /\ moved THEN <<Insert(i - 1, serial[i - 1] + 1, pos, 0)>> ELSE <<>>

(* initAreaAs(a, superblock), and the active area of superblocks undone. *)
InitSuperArea(old, a) ==
    <<Log(<<Status(old, "empty")>>),
      Log(<<Type(a, "superblock"),
            UsedAreas(map.used + 1),
            ActiveArea("superblock", a)>>),
      Log(<<ActiveArea("superblock", 0)>>)>>

(* insertNewSuperIndex, insertNewJumpPadEntry and insertNewAnchorEntry: the
   three differ in where they go when their area is full. *)
InsertEntry(i, no, next, used) ==
    LET pos == path[i].pos
        old == Logical(pos)
        free == FreeInArea(flash, pos, Needed(i))
        a == Min(FreeAreas)
    IN  IF free # {}
        THEN Place(i, pos, Min(free), no, 0, next, used) \o AfterEntry(i, FALSE, pos)
        ELSE IF i = 0 \/ FreeAreas = {}
        THEN Place(i, pos, 0, no, 0, next, used) \o AfterEntry(i, FALSE, pos)
        ELSE InitSuperArea(old, a)
             \o Place(i, map.pos[a], 0, no, old, next, used)
             \o AfterEntry(i, TRUE, map.pos[a])

(* mutant: a commit is left out whenever the root node is the same *)
Bad_commitSuperIndex ==
    IF ~rootDirty THEN <<>>
    ELSE <<Insert(2, serial[2] + 1, 0, map.used), Do("committed")>>

(* commitSuperIndex; the number of used areas is taken before the superindex
   may move. *)
commitSuperIndex ==
    IF ~sumDirty /\ ~rootDirty THEN <<>>
    ELSE <<Insert(2, serial[2] + 1, 0, map.used), Do("committed")>>

---------------------------------------------------------------------------
(* Steps of the running call *)

Running(d) == phase = "run" /\ prog # <<>> /\ Head(prog).do = d

StepLog ==
    /\ Running("log")
    /\ LET new == Head(prog).entries
       IN  /\ log' = log \o new
           /\ map' = Replayed(map, new)
           /\ sumDirty' = (sumDirty \/ PageStatus \in Range(new))
    /\ prog' = Tail(prog)
    /\ UNCHANGED <<flash, root, rootDirty, path, serial, phase, overflowing>>

(* An entry of an element; its previous area must still be the superblock's. *)
StepInsert ==
    /\ Running("insert")
    /\ LET i == Head(prog)
           entry == InsertEntry(i.elem, i.no, i.next, i.used)
       IN  IF map.type[Logical(path[i.elem].pos)] = "superblock"
           THEN /\ prog' = entry \o Tail(prog)
                /\ overflowing' = (overflowing \/ \E e \in Range(entry) : e.do = "erase")
                /\ UNCHANGED phase
           ELSE prog' = <<>> /\ phase' = "bug" /\ UNCHANGED overflowing
    /\ UNCHANGED <<flash, map, log, root, rootDirty, sumDirty, path, serial>>

StepErase ==
    /\ Running("erase")
    /\ LET e == Head(prog)
       IN  flash' = [flash EXCEPT ![e.pos] =
                        [p \in Page |-> IF BlockOf(p) = e.block THEN Empty ELSE @[p]]]
    /\ prog' = Tail(prog)
    /\ UNCHANGED <<map, log, root, rootDirty, sumDirty, path, serial, phase, overflowing>>

StepWrite ==
    /\ Running("write")
    /\ LET w == Head(prog) IN flash' = [flash EXCEPT ![w.pos][w.page] = w.entry]
    /\ prog' = Tail(prog)
    /\ UNCHANGED <<map, log, root, rootDirty, sumDirty, path, serial, phase, overflowing>>

(* The superindex is checked and serialized, and its first page written. *)
StepWriteIndex ==
    /\ Running("writeIndex")
    /\ LET w == Head(prog)
           index == [map EXCEPT !.used = w.used]
       IN  IF isPlausible(index)
           THEN /\ flash' = [flash EXCEPT ![w.pos][w.page] =
                                [kind |-> "superindex", no |-> w.no, prev |-> w.prev,
                                 root |-> root, map |-> index]]
                /\ prog' = Tail(prog)
                /\ UNCHANGED phase
           ELSE prog' = <<>> /\ phase' = "bug" /\ UNCHANGED flash
    /\ UNCHANGED <<map, log, root, rootDirty, sumDirty, path, serial, overflowing>>

StepRoot ==
    /\ Running("rootnode")
    /\ root' = Head(prog).root
    /\ rootDirty' = TRUE
    /\ log' = Append(log, Rootnode(root'))
    /\ prog' = Tail(prog)
    /\ UNCHANGED <<flash, map, sumDirty, path, serial, phase, overflowing>>

StepCommitted ==
    /\ Running("committed")
    /\ rootDirty' = FALSE
    /\ prog' = Tail(prog)
    /\ UNCHANGED <<flash, map, log, root, sumDirty, path, serial, phase, overflowing>>

(* commitAreaSummaries reads the superindex again, whether or not one was
   written, and takes map, root node and number of used areas from it. *)
StepReread ==
    /\ Running("reread")
    /\ \E chain \in {ChainOf(flash)} :
           IF chain = NotFound
           THEN /\ phase' = "bug"
                /\ prog' = <<>>
                /\ UNCHANGED <<map, log, root, rootDirty, sumDirty, path, serial>>
           ELSE /\ map' = MapOf(flash, chain)
                /\ log' = Append(log, UsedAreas(map'.used))
                /\ root' = At(flash, chain[2]).root
                /\ rootDirty' = FALSE
                /\ sumDirty' = FALSE
                /\ path' = chain
                /\ serial' = [i \in Elem |-> At(flash, chain[i]).no]
                /\ prog' = Tail(prog)
                /\ UNCHANGED phase
    /\ overflowing' = FALSE
    /\ UNCHANGED flash

StepClear ==
    /\ Running("clear")
    /\ log' = <<>>
    /\ prog' = Tail(prog)
    /\ UNCHANGED <<flash, map, root, rootDirty, sumDirty, path, serial, phase, overflowing>>

---------------------------------------------------------------------------
(* Calls *)

Idle == phase = "run" /\ prog = <<>>

Start(p) ==
    /\ Idle /\ Len(log) <= MaxLog
    /\ prog' = p
    /\ UNCHANGED <<flash, map, log, root, rootDirty, sumDirty, path, serial, phase, overflowing>>

(* The tree is committed: its nodes are written, and the new root node is
   registered. *)
RegisterRoot ==
    Start(<<Log(<<PageStatus>>), [do |-> "rootnode", root |-> (root + 1) % Roots]>>)

Previous == At(flash, path[1]).prev

(* An empty area is taken for data and filled; what is in between is the
   subject of AreaMgmt. *)
Take(a) ==
    /\ Idle /\ map.status[a] = "empty" /\ map.used < AreasNo - MinFree
    /\ "previous" \in Spared => a # Previous
    /\ Start(<<Log(<<Type(a, "data"), UsedAreas(map.used + 1), Status(a, "closed"),
                     PageStatus>>)>>)

(* An area is deleted to make room for a page, which is written next. *)
Release(a) ==
    /\ map.type[a] = "data" /\ map.status[a] = "closed"
    /\ Start(<<Log(<<Status(a, "empty"), Type(a, "unset"), UsedAreas(map.used - 1)>>),
               Log(<<PageStatus>>)>>)

(* flushAllCaches, from the commit of the summaries on *)
Flush ==
    Start(commitSuperIndex \o <<Log(<<SumCheckpoint>>), Do("reread"), Do("clear")>>)

(* Spans in which power does not fail when they are spared: "overflow" from an
   entry that starts a new block to the superindex being read again, "torn"
   between the pages of one superindex, "release" between the deletion of an
   area and the page written then. *)
Interruptible ==
    /\ "overflow" \in Spared => ~overflowing
    /\ "torn" \in Spared =>
        ~ (Running("write") /\ Head(prog).entry.kind = "rest")
    /\ "release" \in Spared => prog # <<Log(<<PageStatus>>)>>

(* mutant: the replay stops at the superindex *)
Bad_MountFrom(f, l) ==
    LET chain == ChainOf(f)
    IN  IF chain = NotFound THEN NotFound
        ELSE [kind |-> "mounted", path |-> chain, map |-> MapOf(f, chain),
              root |-> At(f, chain[2]).root]

(* What a mount finds: the superindex, and the journal on top of it. *)
MountFrom(f, l) ==
    LET chain == ChainOf(f)
    IN  IF chain = NotFound THEN NotFound
        ELSE [kind |-> "mounted", path |-> chain, map |-> Replayed(MapOf(f, chain), l),
              root |-> ReplayedRoot(At(f, chain[2]).root, l)]

(* Power fails and the device is mounted again; a mount writes nothing here, so
   that losing power during it changes nothing. *)
PowerLoss ==
    /\ phase = "run" /\ Interruptible
    /\ \E m \in {MountFrom(flash, log)} :
           IF m = NotFound
           THEN phase' = "lost" /\ UNCHANGED <<map, root, rootDirty, sumDirty, path, serial>>
           ELSE /\ map' = m.map
                /\ root' = m.root
                /\ rootDirty' = ReplayedDirty(At(flash, m.path[2]).root, log)
                /\ sumDirty' = ReplayedSumDirty(log)
                /\ path' = m.path
                /\ serial' = [i \in Elem |-> At(flash, m.path[i]).no]
                /\ UNCHANGED phase
    /\ prog' = <<>>
    /\ overflowing' = FALSE
    /\ UNCHANGED <<flash, log>>

---------------------------------------------------------------------------

(* format: the chain in areas 0 to 2 (fillPathWithFirstSuperblockAreas), the
   garbage buffer in area 3; the areas behind the chain may have changed places
   since. *)
FormattedChain ==
    [type |-> [a \in Area |-> CASE a \in 0 .. 2 -> "superblock"
                                [] a = 3 -> "garbageBuffer"
                                [] OTHER -> "unset"],
     status |-> [a \in Area |-> IF a \in 0 .. 3 THEN "active" ELSE "empty"],
     pos |-> Position,
     erasecount |-> [a \in Area |-> 0],
     active |-> [t \in AreaType |-> IF t = "garbageBuffer" THEN 3 ELSE 0],
     used |-> 4,
     deletions |-> 0]

FirstEntry(i) ==
    IF i < 2 THEN [kind |-> Kind(i), no |-> 1, prev |-> 0, next |-> i + 1]
    ELSE [kind |-> "superindex", no |-> 1, prev |-> 0, root |-> 0, map |-> FormattedChain]

(* A device that was formatted and mounted. *)
Init ==
    /\ flash = [pos \in Pos |-> [p \in Page |->
                  IF pos > 2 THEN Empty
                  ELSE IF p = 0 THEN FirstEntry(pos)
                  ELSE IF pos = 2 /\ p < SuperPages THEN [kind |-> "rest", no |-> 1]
                  ELSE Empty]]
    /\ map = FormattedChain
    /\ log = <<>>
    /\ root = 0
    /\ rootDirty = FALSE
    /\ sumDirty = FALSE
    /\ path = [i \in Elem |-> [kind |-> "at", pos |-> i, page |-> 0]]
    /\ serial = [i \in Elem |-> 1]
    /\ prog = <<>>
    /\ phase = "run"
    /\ overflowing = FALSE

Step ==
    StepLog \/ StepInsert \/ StepErase \/ StepWrite \/ StepWriteIndex \/ StepRoot
        \/ StepCommitted \/ StepReread \/ StepClear

Next ==
    \/ Step
    \/ RegisterRoot
    \/ \E a \in Area : Take(a) \/ Release(a)
    \/ Flush
    \/ PowerLoss

Spec == Init /\ [][Next]_vars

---------------------------------------------------------------------------

DataAreas(m) == {a \in Area : m.type[a] = "data" /\ m.status[a] # "empty"}

TypeOK ==
    /\ map \in [type : [Area -> AreaType], status : [Area -> AreaStatus],
                pos : [Area -> Pos], erasecount : [Area -> {0}],
                active : [AreaType -> Area], used : 0 .. AreasNo + 2, deletions : {0}]
    /\ root \in 0 .. Roots - 1
    /\ {rootDirty, sumDirty, overflowing} \subseteq BOOLEAN
    /\ \A i \in Elem : path[i].pos \in Pos /\ path[i].page \in Page
    /\ serial \in [Elem -> 0 .. BlocksPerArea * PagesPerBlock]
    /\ phase \in {"run", "lost", "bug"}

(* Whenever power may fail, a mount finds anchor, jump pad and a whole and
   plausible superindex. *)
Mountable == phase # "lost"

(* The program never finds the chain in a state its own checks refuse: a
   superindex that is not plausible, an entry outside of the superblock's
   areas, a superindex just written that cannot be read again. *)
ChecksPass == phase # "bug"

(* A page is programmed only when it is erased, whatever cycle of blocks, areas
   and jump pads the chain is in. *)
WritesHitErasedPages ==
    /\ Running("write") => ~Programmed(flash, Head(prog).pos, Head(prog).page)
    /\ Running("writeIndex") => ~Programmed(flash, Head(prog).pos, Head(prog).page)

(* Between calls, the number of used areas is true, so that the next superindex
   is plausible. *)
UsedIsTrue == Idle => isPlausible(map)

(* A mount never fails, and between calls it would find the very map and root
   node that are in RAM: superindex and journal together forget nothing, and
   the moves of the chain are found again. *)
MountFindsAll ==
    /\ Mountable
    /\ Idle => LET m == MountFrom(flash, log)
               IN  m # NotFound /\ m.map = map /\ m.root = root /\ m.path = path

(* No area holds pages of files and of the chain at once. *)
ChainKeepsOut ==
    Idle => \A i \in Elem : map.type[Logical(path[i].pos)] = "superblock"
                            /\ map.status[Logical(path[i].pos)] = "active"

(* The journal is cleared only when the superindex alone says all that the
   journal added to it ("nothing is dirty"). *)
ClearedIsCovered ==
    Running("clear") => LET m == MountFrom(flash, <<>>) n == MountFrom(flash, log)
                        IN  m # NotFound /\ DataAreas(m.map) = DataAreas(n.map) /\ m.root = n.root

(* Reading the superindex again after a commit changes nothing for the files:
   the areas that hold data still do. *)
RereadKeepsData ==
    [][Running("reread") /\ phase' = "run" => DataAreas(map') = DataAreas(map) /\ root' = root]_vars

(* What the running call asks for. *)
Asked ==
    IF phase # "run" \/ prog = <<>> THEN [ask |-> "nothing"]
    ELSE IF Head(prog).do = "rootnode" THEN [ask |-> "root", root |-> Head(prog).root]
    ELSE IF Head(prog).do # "log" THEN [ask |-> "nothing"]
    ELSE LET first == Head(prog).entries[1] last == Last(Head(prog).entries)
         IN  IF first.op = "type" /\ first.type = "data" THEN [ask |-> "take", area |-> first.area]
             ELSE IF first.op = "status" /\ last.op = "usedAreas"
             THEN [ask |-> "release", area |-> first.area]
             ELSE [ask |-> "nothing"]

(* The areas with data and the root node change only as the rest of the file
   system asks; commits, losses of power and mounts do not show. *)
Register == INSTANCE RootRegister
    WITH Root <- 0 .. Roots - 1, Areas <- Area, root <- root, areas <- DataAreas(map),
         asked <- Asked

ImplementsRegister == Register!Spec

=============================================================================

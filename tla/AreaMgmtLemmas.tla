--------------------------- MODULE AreaMgmtLemmas ---------------------------
(***************************************************************************)
(* The inductive invariant of AreaMgmt (Inv); what single instructions do  *)
(* to it: the invariant's views of the journal, the replay, the area map,  *)
(* the page states and the flash; how a call finds room and moves pages.   *)
(***************************************************************************)
EXTENDS AreaMgmt, InductionLemmas, SequenceTheorems, TLAPS

(* A sequence, of anything. *)
IsProg(r) == \E S : r \in Seq(S)

(* What the theorems assume of the constants: erasing a block succeeds, and
   power stays on while the journal is cleared after a superindex, and while
   garbage collection erases the area whose pages it moved. *)
Careful == MaxBad = 0 /\ {"flush", "gcErase"} \subseteq Spared

-----------------------------------------------------------------------------
(* What a mount would gather from the journal.                             *)

lastOp == IF LastOperation = 0 THEN InvalidateOldPages ELSE log[LastOperation]

NoOp == lastOp.op = "invalidateOldPages"

ext == mLastExternOp

mv == MoveProgress

target == IF LastMove = 0 THEN 0 ELSE log[LastMove].area

replaced == LastReplace # 0

updated == \E i \in Unretired("dataIO", {"update"}) : i > LastReplace

invalidated == \E i \in Unretired("dataIO", {"invalidateOldPages"}) : i > LastReplace

neuPage == log[LastReplace].neu

oldPage == log[LastReplace].old

(* The entries that decide the status of page p of area a. *)
Live(a) ==
    {i \in Unretired("summaryCache", {"setStatus", "setStatusBlock"}) :
        log[i].area = a /\ i > firstUncommitted(a)}

Kept(a) == a \in DOMAIN index.sum /\ firstUncommitted(a) = 0

InLog(a) == Live(a) # {} \/ Kept(a)

Sets(a, p) ==
    {i \in Live(a) : log[i].op = "setStatus" => log[i].page = p}

Base(a) == IF map.pos[a] \in asWritten THEN "dirty" ELSE "free"

EntryStatus(e, p) == IF e.op = "setStatus" THEN e.entry ELSE e.summary[p]

LogStatus(a, p) ==
    LET i == LastIndex(Sets(a, p)) IN
    IF i # 0 THEN EntryStatus(log[i], p)
    ELSE IF Kept(a) THEN index.sum[a][p] ELSE Base(a)

(* What a mount finds of the pages of each area, the areas it finds entries of,
   and what the running system has of them. *)
logged == [a \in Area |-> [p \in Page |-> LogStatus(a, p)]]

inLog == {a \in Area : InLog(a)}

ram == [a \in Area |-> [p \in Page |-> PageStatus(a, p)]]

-----------------------------------------------------------------------------
(* The parts of the invariant.                                             *)

buffer == map.active["garbageBuffer"]

LogOK ==
    /\ \A i \in DOMAIN log :
        /\ log[i].op = "setStatus" =>
              log[i].area \in Area /\ log[i].page \in Page /\ log[i].entry \in SummaryEntry
        /\ log[i].op = "setStatusBlock" =>
              log[i].area \in Area /\ log[i].summary \in [Page -> SummaryEntry]
    /\ \A a \in DOMAIN index.sum : a \in Area /\ index.sum[a] \in [Page -> SummaryEntry]
    /\ index.map \in Map

Recovered ==
    /\ MapFromLog = map
    /\ AddrFromLog = addr

(* The map. *)
Doing1(op, a) == lastOp.op = op /\ lastOp.area = a

Deleting(a) == Doing1("deleteArea", a)

AreaOK(a) ==
    /\ map.type[a] \in {"unset", "data"}
    /\ map.type[a] = "data" /\ map.status[a] = "active" => map.active["data"] = a
    /\ map.type[a] = "unset" => map.status[a] = "empty"
    /\ (map.type[a] = "data" /\ map.status[a] = "empty") =>
            \/ Doing1("initAreaAs", a) /\ ext \in {"type", "usedAreas"}
            \/ Deleting(a) /\ ext = "status"

Adjust ==
    IF \/ lastOp.op = "initAreaAs" /\ ext = "usedAreas"
       \/ lastOp.op = "deleteArea" /\ ext \in {"status", "type"}
    THEN 1 ELSE 0

FixedAreas ==
    /\ map.type[0] = "superblock" /\ map.status[0] = "active" /\ map.pos[0] = 0
    /\ buffer # 0 /\ map.type[buffer] = "garbageBuffer" /\ map.status[buffer] = "active"
    /\ \A t \in AreaType \ {"data", "garbageBuffer"} : map.active[t] = 0

OtherAreas == \A a \in Area \ {0, buffer} : AreaOK(a)

Totals ==
    /\ map.used = Cardinality(NonEmpty(map)) + Adjust
    /\ map.deletions = TotalErases(map)

ActiveOK ==
    LET d == map.active["data"] IN d # 0 =>
        /\ map.type[d] = "data"
        /\ map.status[d] = "active" \/ (Doing1("closeArea", d) /\ ext = "status")

MapOK == map \in Map /\ FixedAreas /\ OtherAreas /\ PositionsDistinct /\ Totals /\ ActiveOK

(* The operation in progress. *)
InitOK ==
    lastOp.op = "initAreaAs" =>
        LET a == lastOp.area IN
        /\ lastOp.type = "data" /\ a # buffer
        /\ ext \in {"none", "type", "usedAreas", "activeArea"}
        /\ map.active["data"] = IF ext = "activeArea" THEN a ELSE 0
        /\ ext # "none" => map.type[a] = "data"
        /\ ext = "usedAreas" => map.status[a] = "empty"
        /\ ~replaced
        /\ mv = "ok" \/ (mv = "setNewSummary" /\ target = a)
        /\ mv = "ok" \/ map.status[a] # "empty"

CloseOK ==
    lastOp.op = "closeArea" =>
        LET a == lastOp.area IN
        /\ ext \in {"none", "status", "activeArea"}
        /\ a # buffer /\ map.type[a] = "data"
        /\ map.active["data"] = IF ext = "activeArea" THEN 0 ELSE a
        /\ map.status[a] = IF ext = "none" THEN "active" ELSE "closed"
        /\ mv = "ok"

DeleteOK ==
    lastOp.op = "deleteArea" =>
        LET a == lastOp.area IN
        /\ ext \in {"none", "increaseErasecount", "reset", "remove", "status", "type",
                    "usedAreas"}
        /\ a # buffer /\ map.active["data"] = 0
        /\ map.type[a] = IF ext \in {"type", "usedAreas"} THEN "unset" ELSE "data"
        /\ map.status[a] = IF ext \in {"status", "type", "usedAreas"} THEN "empty" ELSE "closed"
        /\ mv = "ok" /\ ~replaced

ContentsOK ==
    lastOp.op = "deleteAreaContents" =>
        /\ ext \in {"none", "increaseErasecount", "reset", "remove"}
        /\ lastOp.b = buffer
        /\ lastOp.area \in {buffer, target}
        /\ mv = "deletedOldArea"

OpOK ==
    /\ lastOp.op \in {"invalidateOldPages", "initAreaAs", "closeArea", "deleteArea",
                      "deleteAreaContents"}
    /\ NoOp => ext = "none"
    /\ ~NoOp => lastOp.area \in Area \ {0}
    /\ InitOK /\ CloseOK /\ DeleteOK /\ ContentsOK

(* Pages. *)
Lost(a) == mv = "deletedOldArea" /\ target = a

ErasedArea(a) == \A p \in Page : flash[map.pos[a]][p] = Erased

FreeOK(a) ==
    \A p \in Page : logged[a][p] = "free" => flash[map.pos[a]][p] = Erased

UsedOK(a) ==
    \A f \in FilePage : (addr[f] # NoAddr /\ addr[f][1] = a) => logged[a][addr[f][2]] = "used"

Unreferenced(ad) ==
    ad # NoAddr =>
        /\ ad \in Addr
        /\ map.type[ad[1]] = "data"
        /\ \A f \in FilePage : addr[f] # ad

FilesOK ==
    /\ addr \in [FilePage -> Addr \union {NoAddr}]
    /\ \A f \in FilePage : addr[f] # NoAddr =>
        /\ map.type[addr[f][1]] = "data"
        /\ ~Deleting(addr[f][1])
        /\ flash[map.pos[addr[f][1]]][addr[f][2]] # Erased
        /\ \A g \in FilePage : addr[g] = addr[f] => g = f

DataPages ==
    \A a \in Area : map.type[a] = "data" /\ ~Deleting(a) /\ ~Lost(a) => FreeOK(a) /\ UsedOK(a)

EmptyPages == \A a \in Area : map.type[a] = "unset" => ErasedArea(a) /\ a \notin inLog

LoggedPages == \A a \in Area : a \in inLog => map.type[a] = "data"

WrittenPages ==
    \A a \in Area : map.pos[a] \in asWritten =>
        /\ map.type[a] = "data"
        /\ Deleting(a) \/ \A p \in Page : logged[a][p] = "dirty"

DeletedPages ==
    \A a \in Area : Deleting(a) =>
        /\ ext # "none" => ErasedArea(a) /\ map.pos[a] \notin asWritten
        /\ ext \in {"remove", "status"} => a \notin inLog

BufferPages ==
    /\ (\/ mv \in {"ok", "setNewSummary"}
        \/ mv = "deletedOldArea" /\ (NoOp \/ ext # "none"))
       => ErasedArea(buffer)
    /\ map.pos[buffer] \notin asWritten

PagesOK ==
    DataPages /\ EmptyPages /\ LoggedPages /\ WrittenPages /\ DeletedPages /\ BufferPages

MoveOK ==
    mv # "ok" =>
        /\ ~replaced
        /\ target \in Area \ {0} /\ map.type[target] = "data"
        /\ mv # "setNewSummary" =>
            /\ map.status[target] = "closed" /\ map.pos[target] \notin asWritten
            /\ map.active["data"] = 0

TxOK ==
    replaced =>
        /\ lastOp.op \in {"invalidateOldPages", "closeArea"}
        /\ ~updated => Unreferenced(neuPage)
        /\ updated /\ ~invalidated => Unreferenced(oldPage)

Disk ==
    /\ LogOK /\ Recovered /\ MapOK /\ OpOK /\ FilesOK /\ PagesOK /\ MoveOK /\ TxOK

InFlash ==
    /\ flash \in [Pos -> [Page -> Erased .. MaxOps]]
    /\ asWritten \subseteq Pos
    /\ bad = {}
    /\ ops \in 0 .. MaxOps

SumOK ==
    /\ \A a \in cached : a \in Area /\ map.type[a] = "data" /\ sum[a] \in [Page -> SummaryEntry]
    /\ \A a \in Area : a \in inLog => a \in cached
    /\ \A a \in Area : ~Deleting(a) => ram[a] = logged[a]
    /\ \A a \in Area : Deleting(a) /\ ext \in {"remove", "status"} => a \notin cached

-----------------------------------------------------------------------------
(* The program.                                                            *)

Then(x, r) == <<x>> \o r

Quiet == NoOp /\ mv = "ok" /\ ~replaced

Room == map.active["data"] # 0 => \E p \in Page : logged[map.active["data"]][p] = "free"

NoActive == map.active["data"] = 0

Dead(a) == \A p \in Page : logged[a][p] # "used"

CleanOK(a, s) ==
    /\ s \in [Page -> {"free", "used"}]
    /\ \A p \in Page : s[p] = "free" => flash[map.pos[a]][p] = Erased
    /\ \A f \in FilePage : (addr[f] # NoAddr /\ addr[f][1] = a) => s[addr[f][2]] = "used"

HasFree(s) == \E p \in Page : s[p] = "free"

(* Programs, by what is left of them.  NoProg is the end. *)
NoProg == <<>>

PageFor(f) == Then(NewPageFor(f), NoProg)
GcEnd(f) == Then(Checkpoint("garbage"), PageFor(f))
InitFor(a, r) == Then(InitAreaAs(a, "data"), r)
AfterDel(f, a) == Then(AfterDelete(a, "data"), PageFor(f))
Move4(f, a, s) == Then(SetStatusBlock(a, s), InitFor(a, GcEnd(f)))
Move3(f, a, s) == Then(AfterMove, Move4(f, a, s))
Move2(f, a, b, s) == Then(DeleteAreaContents(a, b), Move3(f, a, s))
Move1(f, a, b, s) == Then(Swap(a, b), Move2(f, a, b, s))

MoveReady(a, s) ==
    /\ a \in Area /\ map.type[a] = "data" /\ map.status[a] = "closed"
    /\ NoActive
    /\ map.pos[a] \notin asWritten
    /\ s \in [Page -> {"free", "used"}] /\ HasFree(s)
    /\ \A p \in Page : logged[a][p] = "used" <=> s[p] = "used"

(* The copies of the used pages before page n, in the garbage buffer b. *)
CopiedUpto(a, b, s, n) ==
    \A p \in Page : flash[map.pos[b]][p] =
        IF p < n /\ s[p] = "used" THEN flash[map.pos[a]][p] ELSE Erased

FreePage(a) == \E p \in Page : logged[a][p] = "free"

(* Between calls, and looking for a page. *)
RunRoom ==
    \/ prog = NoProg /\ Quiet /\ Room
    \/ \E f \in FilePage :
       \/ prog = PageFor(f) /\ Quiet /\ Room
       \/ \E a \in Area \ {0} :
          \/ /\ prog = InitFor(a, PageFor(f))
             /\ Quiet /\ NoActive /\ map.type[a] = "unset"
          \/ /\ prog = Then(DeleteArea(a), AfterDel(f, a))
             /\ Quiet /\ NoActive /\ map.type[a] = "data" /\ Dead(a)
          \/ /\ prog = AfterDel(f, a)
             /\ Quiet /\ NoActive /\ map.type[a] = "unset"
          \/ /\ prog = InitFor(a, GcEnd(f))
             /\ NoOp /\ ~replaced /\ NoActive
             /\ \/ mv = "ok" /\ map.type[a] = "unset"
                \/ mv = "setNewSummary" /\ target = a /\ FreePage(a)
       \/ /\ prog = GcEnd(f)
          /\ NoOp /\ ~replaced /\ Room /\ mv \in {"ok", "setNewSummary"}

(* Moving the pages of an area. *)
Moving(a, s) == NoOp /\ mv = "moveValidData" /\ target = a /\ MoveReady(a, s)

Moved(a, s, m) == NoOp /\ mv = m /\ target = a /\ CleanOK(a, s) /\ HasFree(s)

RunMove ==
    \E f \in FilePage, a \in Area \ {0}, b \in Area, s \in [Page -> {"free", "used"}] :
       /\ b = buffer
       /\ \/ /\ prog = Then(MoveValidData(a), moveValidData(a, b, 0) \o Move1(f, a, b, s))
             /\ Quiet /\ MoveReady(a, s)
          \/ \E q \in Page :
             /\ prog = Then(CopyPage(a, b, q), Move1(f, a, b, s))
             /\ s[q] = "used" /\ CopiedUpto(a, b, s, q) /\ Moving(a, s)
          \/ /\ prog = Move1(f, a, b, s)
             /\ CopiedUpto(a, b, s, PagesPerArea) /\ Moving(a, s)
          \/ prog = Move2(f, a, b, s) /\ Moved(a, s, "swappedPosition")
          \/ prog = Move3(f, a, s) /\ Moved(a, s, "deletedOldArea")
          \/ prog = Move4(f, a, s) /\ Moved(a, s, "deletedOldArea")

(* In an operation. *)
EraseFrom(pos, k) == [j \in 1 .. BlocksPerArea - k |-> EraseBlock(pos, k + j - 1)]

BlocksErased(pos, k) ==
    /\ \A p \in Page : BlockOf(p) < k => flash[pos][p] = Erased
    /\ k = BlocksPerArea => pos \notin asWritten

(* What the operation in progress still has to do behind its change x. *)
Behind(x, ctx) == ResumeOperation(map, sum, lastOp, x) \o ctx

Erases == lastOp.op \in {"deleteArea", "deleteAreaContents"} /\ ext = "none"

ErasedPos == map.pos[IF lastOp.op = "deleteArea" THEN lastOp.area ELSE lastOp.b]

OpRuns(ctx) ==
    /\ ~NoOp
    /\ \/ ~Erases /\ prog = Behind(ext, ctx)
       \/ /\ Erases
          /\ \E k \in 0 .. BlocksPerArea :
                /\ prog = EraseFrom(ErasedPos, k)
                          \o Then(IncreaseErasecount(lastOp.area),
                                  Behind("increaseErasecount", ctx))
                /\ BlocksErased(ErasedPos, k)

(* Replacing a page. *)
CpData == Then(Checkpoint("dataIO"), NoProg)
RetireTail(old) ==
    IF old # NoAddr
    THEN Then(SetStatus(old, "dirty"), Then(InvalidateOldPages, CpData))
    ELSE CpData
Tx4(f, neu, old) == Then(UpdateInode(f, neu), RetireTail(old))
Tx3(f, neu, old) == Then(ManageActiveAreaFull("data"), Tx4(f, neu, old))
Tx2(f, neu, old) == Then(WritePage(neu), Tx3(f, neu, old))
Tx1(f, neu, old) == Then(SetStatus(neu, "used"), Tx2(f, neu, old))

InTx(f, neu, old) ==
    /\ replaced /\ ~updated /\ ~invalidated /\ neuPage = neu /\ oldPage = old /\ old = addr[f]
    /\ mv = "ok"

OwnPage(neu) ==
    /\ neu \in Addr /\ map.active["data"] = neu[1]
    /\ logged[neu[1]][neu[2]] = "used"

Written(neu) ==
    neu # NoAddr => /\ logged[neu[1]][neu[2]] = "used"
                    /\ flash[map.pos[neu[1]]][neu[2]] = ops

RunOp ==
    \E f \in FilePage :
        \/ \E a \in Area \ {0} :
            \/ /\ OpRuns(PageFor(f)) /\ lastOp.op = "initAreaAs" /\ mv = "ok"
               /\ lastOp.area = a /\ FreePage(a)
            \/ /\ OpRuns(GcEnd(f)) /\ lastOp.op = "initAreaAs"
               /\ lastOp.area = a /\ FreePage(a)
            \/ OpRuns(AfterDel(f, a)) /\ lastOp.op = "deleteArea" /\ lastOp.area = a
            \/ \E s \in [Page -> {"free", "used"}] :
               /\ OpRuns(Move3(f, a, s)) /\ lastOp.op = "deleteAreaContents"
               /\ lastOp.area = a /\ target = a /\ a # lastOp.b
               /\ CleanOK(a, s) /\ HasFree(s)
        \/ \E neu \in Addr, old \in Addr \union {NoAddr} :
            /\ InTx(f, neu, old)
            /\ OpRuns(Tx4(f, neu, old)) /\ lastOp.op = "closeArea" /\ Written(neu)

RunTx ==
    \/ \E f \in FilePage, neu \in Addr \union {NoAddr}, old \in Addr \union {NoAddr} :
        \/ /\ prog = Then(ReplacePage(NoAddr, old), Tx4(f, NoAddr, old))
           /\ Quiet /\ Room /\ old = addr[f]
        \/ /\ prog = Tx1(f, neu, old)
           /\ InTx(f, neu, old) /\ NoOp
           /\ neu \in Addr /\ map.active["data"] = neu[1]
           /\ logged[neu[1]][neu[2]] = "free"
        \/ /\ prog = Tx2(f, neu, old)
           /\ InTx(f, neu, old) /\ NoOp /\ OwnPage(neu)
           /\ flash[map.pos[neu[1]]][neu[2]] = Erased
        \/ /\ prog = Tx3(f, neu, old)
           /\ InTx(f, neu, old) /\ NoOp /\ OwnPage(neu) /\ Written(neu)
        \/ /\ prog = Then(CloseArea(neu[1]), Tx4(f, neu, old))
           /\ InTx(f, neu, old) /\ NoOp /\ OwnPage(neu) /\ Written(neu)
        \/ /\ prog = Tx4(f, neu, old)
           /\ InTx(f, neu, old) /\ NoOp /\ Room /\ Written(neu)
    \/ prog = CpData /\ NoOp /\ mv = "ok" /\ Room /\ replaced /\ updated

FullData == Then(ManageActiveAreaFull("data"), Then(ManageActiveAreaFull("index"), CpData))
FullIndex == Then(ManageActiveAreaFull("index"), CpData)

(* Getting rid of the old page, in a call and in a mount. *)
Behind1 == IF phase = "run" THEN CpData ELSE FullData

Invalidate == Then(InvalidateOldPages, Behind1)

RetireOld ==
    /\ NoOp /\ mv = "ok" /\ replaced
    /\ phase = "run" => updated /\ Room
    /\ phase \in {"run", "dataIO"}
    /\ \/ \E x \in Addr :
            /\ prog = Then(SetStatus(x, "dirty"), Invalidate) /\ Unreferenced(x)
            /\ phase = "run" => logged[x[1]][x[2]] # "free"
       \/ \E a \in Area :
            /\ map.type[a] = "data" /\ \A p \in Page : logged[a][p] = "dirty"
            /\ \/ prog = Then(WriteSummary(a), Invalidate)
               \/ prog = Then(Commit(a), Invalidate) /\ map.pos[a] \in asWritten
       \/ prog = Invalidate

Clear == Then(ClearJournal, NoProg)

CpSum == Then(Checkpoint("summaryCache"), Clear)

RunFlush == prog = Then(CommitSuperIndex, CpSum) /\ Quiet /\ Room

(* A mount. *)
FoundMove == found.state = mv /\ found.target = target /\ (mv # "ok" => found.type = "data")

FoundTx ==
    /\ found.tx = TxState
    /\ TxState # "ok" => found.neu = neuPage /\ found.old = oldPage

MountOps ==
    /\ phase = "areaMgmt"
    /\ FoundMove /\ FoundTx
    /\ \/ prog = NoProg /\ NoOp
       \/ OpRuns(NoProg)

CpGarbage == Then(Checkpoint("garbage"), NoProg)

ScanTail(t) == Then(Scan(t), CpGarbage)

MountGarbage ==
    /\ phase = "garbage"
    /\ FoundTx
    /\ \/ prog = NoProg /\ NoOp /\ mv = "ok"
       \/ \E t \in Area \ {0}, b \in Area : t = target /\ b = buffer /\
          \/ /\ prog = CpGarbage /\ NoOp /\ (mv = "deletedOldArea" => FreeOK(t) /\ UsedOK(t))
             /\ mv \in {"deletedOldArea", "setNewSummary"}
          \/ prog = Then(DeleteAreaContents(b, b), CpGarbage) /\ NoOp /\ mv = "moveValidData"
          \/ /\ OpRuns(CpGarbage) /\ lastOp.op = "deleteAreaContents" /\ lastOp.area = b
             /\ FreeOK(t) /\ UsedOK(t)
          \/ /\ found.type = "data"
             /\ \/ prog = Then(DeleteAreaContents(t, b), ScanTail(t))
                   /\ NoOp /\ mv = "swappedPosition"
                \/ OpRuns(ScanTail(t)) /\ lastOp.op = "deleteAreaContents" /\ lastOp.area = t
                \/ prog = ScanTail(t) /\ NoOp /\ mv = "deletedOldArea"
          \/ /\ NoOp /\ mv = "deletedOldArea"
             /\ \E s \in [Page -> {"free", "used"}] :
               /\ CleanOK(t, s)
               /\ \/ prog = Then(SetStatusBlock(t, s), CpGarbage)
                  \/ prog = Then(SetStatusBlock(t, s), InitFor(t, CpGarbage)) /\ NoActive
          \/ prog = InitFor(t, CpGarbage) /\ NoActive /\ NoOp /\ mv = "setNewSummary"
          \/ OpRuns(CpGarbage) /\ lastOp.op = "initAreaAs" /\ mv = "setNewSummary"

MountDataIO ==
    /\ phase = "dataIO"
    /\ mv = "ok"
    /\ replaced => invalidated
    /\ \/ NoOp /\ prog = FullData
       \/ \E a \in Area \ {0} :
            NoOp /\ prog = Then(CloseArea(a), FullIndex) /\ a = map.active["data"]
       \/ NoOp /\ prog = FullIndex /\ Room
       \/ NoOp /\ prog = CpData /\ Room
       \/ NoOp /\ prog = NoProg /\ Room /\ ~replaced
       \/ OpRuns(FullIndex) /\ lastOp.op = "closeArea"

Stage ==
    \/ /\ phase = "run"
       /\ prog # NoProg => ops # Erased
       /\ RunRoom \/ RunMove \/ RunOp \/ RunTx \/ RunFlush
    \/ MountOps \/ MountGarbage \/ MountDataIO
    \/ RetireOld /\ (phase = "run" => ops # Erased)

(* The pages as the state in RAM tells them, once the superindex is written. *)
PagesInRAM ==
    /\ \A a \in cached : a \in Area /\ map.type[a] = "data" /\ sum[a] \in [Page -> SummaryEntry]
    /\ \A a \in Area : map.type[a] = "data" =>
        /\ \A p \in Page : ram[a][p] = "free" => flash[map.pos[a]][p] = Erased
        /\ \A f \in FilePage :
                (addr[f] # NoAddr /\ addr[f][1] = a) => ram[a][addr[f][2]] = "used"
    /\ \A a \in Area : map.type[a] = "unset" => ErasedArea(a)
    /\ \A a \in Area : map.pos[a] \in asWritten =>
        map.type[a] = "data" /\ \A p \in Page : ram[a][p] = "dirty"
    /\ ErasedArea(buffer) /\ map.pos[buffer] \notin asWritten
    /\ map.active["data"] # 0 => \E p \in Page : ram[map.active["data"]][p] = "free"

Flushing ==
    /\ phase = "run"
    /\ prog \in {CpSum, Clear}
    /\ index.map = map /\ index.addr = addr
    /\ index.sum = [a \in {a \in cached : map.pos[a] \notin asWritten} |-> sum[a]]
    /\ Quiet /\ MapOK /\ FilesOK /\ PagesInRAM

Sound == Disk /\ SumOK

Core == InFlash /\ IsProg(log) /\ Sound

Inv == InFlash /\ IsProg(log) /\ (Flushing \/ (Sound /\ Stage))

-----------------------------------------------------------------------------
(* Programs as lists.                                                      *)

(* A program with a first instruction: its head and its tail. *)
LEMMA ThenFacts ==
    ASSUME NEW x, NEW r, IsProg(r)
    PROVE  /\ Then(x, r) # <<>> /\ Head(Then(x, r)) = x /\ Tail(Then(x, r)) = r
           /\ IsProg(Then(x, r))
           /\ Len(Then(x, r)) = Len(r) + 1
<1>1. PICK S : r \in Seq(S)
  BY DEF IsProg
<1> DEFINE T == S \union {x}
<1>2. r \in Seq(T) /\ <<x>> \in Seq(T)
  <2>1. r \in [1 .. Len(r) -> S] /\ Len(r) \in Nat
    BY <1>1
  <2>2. r \in [1 .. Len(r) -> T]
    BY <2>1
  <2>3. QED
    BY <2>1, <2>2, SeqDef
<1> HIDE DEF T
<1>3. <<x>> \o r \in Seq(T)
  BY <1>2
<1>4. Len(<<x>> \o r) = Len(r) + 1 /\ (<<x>> \o r)[1] = x
  BY <1>2
<1>5. Head(<<x>> \o r) = x /\ <<x>> \o r # <<>>
  BY <1>2, <1>3, <1>4
<1>6. Tail(<<x>> \o r) = r
  <2>1. Tail(<<x>> \o r) \in Seq(T) /\ Len(Tail(<<x>> \o r)) = Len(r)
    BY <1>2, <1>3, <1>4, <1>5
  <2>2. \A i \in 1 .. Len(r) : Tail(<<x>> \o r)[i] = r[i]
    BY <1>2, <1>3, <1>4, <1>5
  <2>3. QED
    BY <2>1, <2>2, <1>2, SeqEqual
<1>7. QED
  BY <1>3, <1>4, <1>5, <1>6 DEF IsProg, Then

(* The empty program, and programs one after the other. *)
LEMMA ProgFacts ==
    /\ IsProg(<<>>)
    /\ \A r : IsProg(r) => <<>> \o r = r /\ r \o <<>> = r
<1>1. <<>> \in Seq({})
  OBVIOUS
<1>2. ASSUME NEW r, IsProg(r) PROVE <<>> \o r = r /\ r \o <<>> = r
  <2>1. PICK S : r \in Seq(S)
    BY <1>2 DEF IsProg
  <2>2. QED
    BY <2>1, ConcatEmptySeq
<1>3. QED
  BY <1>1, <1>2 DEF IsProg

(* A program in front of which a statement was put goes on with it after an
   append. *)
LEMMA ThenConcat ==
    ASSUME NEW x, NEW r, NEW t, IsProg(r), IsProg(t)
    PROVE  Then(x, r) \o t = Then(x, r \o t) /\ IsProg(r \o t)
<1>1. PICK S : r \in Seq(S)
  BY DEF IsProg
<1>2. PICK U : t \in Seq(U)
  BY DEF IsProg
<1> DEFINE T == S \union U \union {x}
<1>3. r \in Seq(T) /\ t \in Seq(T) /\ <<x>> \in Seq(T)
  <2>1. r \in [1 .. Len(r) -> S] /\ Len(r) \in Nat
    BY <1>1
  <2>2. t \in [1 .. Len(t) -> U] /\ Len(t) \in Nat
    BY <1>2
  <2>3. r \in [1 .. Len(r) -> T] /\ t \in [1 .. Len(t) -> T]
    BY <2>1, <2>2
  <2>4. r \in Seq(T) /\ t \in Seq(T)
    BY <2>1, <2>2, <2>3, SeqDef
  <2>5. QED
    BY <2>4
<1> HIDE DEF T
<1>4. (<<x>> \o r) \o t = <<x>> \o (r \o t)
  BY <1>3, ConcatAssociative
<1>5. r \o t \in Seq(T)
  BY <1>3
<1>6. QED
  BY <1>4, <1>5 DEF Then, IsProg

(* Written out as a tuple. *)
LEMMA ThenTuples ==
    /\ \A x : <<x>> = Then(x, <<>>)
    /\ \A x, y : <<x, y>> = Then(x, <<y>>)
    /\ \A x, y, z : <<x, y, z>> = Then(x, <<y, z>>)
    /\ \A x, y, z, u : <<x, y, z, u>> = Then(x, <<y, z, u>>)
    /\ \A x, y, z, u, v : <<x, y, z, u, v>> = Then(x, <<y, z, u, v>>)
    /\ \A x, y, z, u, v, w : <<x, y, z, u, v, w>> = Then(x, <<y, z, u, v, w>>)
<1>1. ASSUME NEW x PROVE <<x>> = <<x>> \o <<>>
  BY SMTT(20)
<1>2. ASSUME NEW x, NEW y PROVE <<x, y>> = <<x>> \o <<y>>
  <2>1. <<x>> \in Seq({x, y}) /\ <<y>> \in Seq({x, y}) /\ <<x, y>> \in Seq({x, y})
    OBVIOUS
  <2>2. Len(<<x, y>>) = 2 /\ Len(<<x>> \o <<y>>) = 2 /\ <<x>> \o <<y>> \in Seq({x, y})
    BY <2>1
  <2>3. \A i \in 1 .. 2 : <<x, y>>[i] = (<<x>> \o <<y>>)[i]
    BY <2>1, ConcatProperties
  <2>4. QED
    BY <2>1, <2>2, <2>3, SeqEqual
<1>3. ASSUME NEW x, NEW y, NEW z PROVE <<x, y, z>> = <<x>> \o <<y, z>>
  BY SMTT(20)
<1>4. ASSUME NEW x, NEW y, NEW z, NEW u PROVE <<x, y, z, u>> = <<x>> \o <<y, z, u>>
  BY SMTT(20)
<1>5. ASSUME NEW x, NEW y, NEW z, NEW u, NEW v
      PROVE <<x, y, z, u, v>> = <<x>> \o <<y, z, u, v>>
  BY SMTT(20)
<1>6. ASSUME NEW x, NEW y, NEW z, NEW u, NEW v, NEW w
      PROVE <<x, y, z, u, v, w>> = <<x>> \o <<y, z, u, v, w>>
  BY SMTT(20)
<1>7. QED
  BY <1>1, <1>2, <1>3, <1>4, <1>5, <1>6, Zenon DEF Then

(* Tuples in front of a program. *)
LEMMA ThenOne ==
    ASSUME NEW x, NEW r, IsProg(r)
    PROVE  <<x>> \o r = Then(x, r)
BY DEF Then

(* A program of two statements in front of another runs them one by one. *)
LEMMA ThenTwo ==
    ASSUME NEW x, NEW y, NEW r, IsProg(r)
    PROVE  <<x, y>> \o r = Then(x, Then(y, r)) /\ IsProg(<<x, y>>)
<1> DEFINE q == <<y>>
<1>1. <<x, y>> = Then(x, q) /\ q = Then(y, <<>>)
  BY ThenTuples
<1>2. q \o r = Then(y, r)
  BY ThenOne
<1>3. IsProg(q)
  BY <1>1, ThenFacts, ProgFacts
<1> HIDE DEF q
<1>4. Then(x, q) \o r = Then(x, q \o r)
  BY <1>3, ThenConcat
<1>5. IsProg(Then(x, q))
  BY <1>3, ThenFacts
<1>6. QED
  BY <1>1, <1>2, <1>4, <1>5

(* The same for three statements. *)
LEMMA ThenThree ==
    ASSUME NEW x, NEW y, NEW z, NEW r, IsProg(r)
    PROVE  <<x, y, z>> \o r = Then(x, Then(y, Then(z, r))) /\ IsProg(<<x, y, z>>)
<1> DEFINE q == <<y, z>>
<1>1. <<x, y, z>> = Then(x, q)
  BY ThenTuples
<1>2. q \o r = Then(y, Then(z, r)) 
  BY ThenTwo
<1>q. IsProg(q)
  BY ThenTwo
<1> HIDE DEF q
<1>3. Then(x, q) \o r = Then(x, q \o r)
  BY <1>q, ThenConcat
<1>4. IsProg(Then(x, q))
  BY <1>q, ThenFacts
<1>5. QED
  BY <1>1, <1>2, <1>3, <1>4

(* The same for four statements. *)
LEMMA ThenFour ==
    ASSUME NEW x, NEW y, NEW z, NEW u, NEW r, IsProg(r)
    PROVE  /\ <<x, y, z, u>> \o r = Then(x, Then(y, Then(z, Then(u, r))))
           /\ IsProg(<<x, y, z, u>>)
<1> DEFINE q == <<y, z, u>>
<1>1. <<x, y, z, u>> = Then(x, q)
  BY ThenTuples
<1>2. q \o r = Then(y, Then(z, Then(u, r))) 
  BY ThenThree
<1>q. IsProg(q)
  BY ThenThree
<1> HIDE DEF q
<1>3. Then(x, q) \o r = Then(x, q \o r)
  BY <1>q, ThenConcat
<1>4. IsProg(Then(x, q))
  BY <1>q, ThenFacts
<1>5. QED
  BY <1>1, <1>2, <1>3, <1>4

(* The same for six statements. *)
LEMMA ThenSix ==
    ASSUME NEW x, NEW y, NEW z, NEW u, NEW v, NEW w, NEW r, IsProg(r)
    PROVE  /\ <<x, y, z, u, v, w>> \o r
                = Then(x, Then(y, Then(z, Then(u, Then(v, Then(w, r))))))
           /\ IsProg(<<x, y, z, u, v, w>>)
<1> DEFINE q == <<z, u, v, w>>
           q5 == <<y, z, u, v, w>>
<1>1. <<x, y, z, u, v, w>> = Then(x, q5) /\ q5 = Then(y, q)
  BY ThenTuples
<1>2. q \o r = Then(z, Then(u, Then(v, Then(w, r)))) 
  BY ThenFour
<1>q. IsProg(q)
  BY ThenFour
<1> HIDE DEF q, q5
<1>3. Then(y, q) \o r = Then(y, q \o r)
  BY <1>q, ThenConcat
<1>4. IsProg(q5)
  BY <1>1, <1>q, ThenFacts
<1>5. Then(x, q5) \o r = Then(x, q5 \o r)
  BY <1>4, ThenConcat
<1>7. IsProg(Then(x, q5))
  BY <1>4, ThenFacts
<1>6. QED
  BY <1>1, <1>2, <1>3, <1>5, <1>7

-----------------------------------------------------------------------------
(* One instruction at a time.                                              *)

(* Which instructions an action executes. *)
LEMMA Kinds ==
    /\ StepMap => Instruction.op \in MapOp
    /\ StepUsed => Instruction.op = "addUsed"
    /\ StepPageStatus => Instruction.op = "setStatus"
    /\ StepSummary => Instruction.op \in {"setStatusBlock", "remove", "reset", "commit"}
    /\ StepNote => Instruction.op \in NoteOp
    /\ StepUpdate => Instruction.op = "update"
    /\ StepOperation => Instruction.op \in AreaMgmtOp
    /\ StepErase => Instruction.op = "eraseBlock"
    /\ StepWritePage => Instruction.op = "writePage"
    /\ StepCopyPage => Instruction.op = "copyPage"
    /\ StepMarkBad => Instruction.op = "markBad"
    /\ StepWriteSummary => Instruction.op = "writeSummary"
    /\ StepNewPage => Instruction.op = "newPageFor"
    /\ StepManageFull => Instruction.op = "manageActiveAreaFull"
    /\ StepAfterDelete => Instruction.op = "afterDelete"
    /\ StepAfterMove => Instruction.op = "afterMove"
    /\ StepScan => Instruction.op = "scan"
    /\ StepCommitSuperIndex => Instruction.op = "commitSuperIndex"
    /\ StepClearJournal => Instruction.op = "clearJournal"
<1> USE DEF Doing
<1>1. StepMap => Instruction.op \in MapOp
  BY DEF StepMap
<1>2. StepUsed => Instruction.op = "addUsed"
  BY DEF StepUsed
<1>3. StepPageStatus => Instruction.op = "setStatus"
  BY DEF StepPageStatus
<1>4. StepSummary => Instruction.op \in {"setStatusBlock", "remove", "reset", "commit"}
  BY DEF StepSummary
<1>5. StepNote => Instruction.op \in NoteOp
  BY DEF StepNote
<1>6. StepUpdate => Instruction.op = "update"
  BY DEF StepUpdate
<1>7. StepOperation => Instruction.op \in AreaMgmtOp
  BY DEF StepOperation
<1>8. StepErase => Instruction.op = "eraseBlock"
  BY DEF StepErase
<1>9. StepWritePage => Instruction.op = "writePage"
  BY DEF StepWritePage
<1>10. StepCopyPage => Instruction.op = "copyPage"
  BY DEF StepCopyPage
<1>11. StepMarkBad => Instruction.op = "markBad"
  BY DEF StepMarkBad
<1>12. StepWriteSummary => Instruction.op = "writeSummary"
  BY DEF StepWriteSummary
<1>13. StepNewPage => Instruction.op = "newPageFor"
  BY DEF StepNewPage
<1>14. StepManageFull => Instruction.op = "manageActiveAreaFull"
  BY DEF StepManageFull
<1>15. StepAfterDelete => Instruction.op = "afterDelete"
  BY DEF StepAfterDelete
<1>16. StepAfterMove => Instruction.op = "afterMove"
  BY DEF StepAfterMove
<1>17. StepScan => Instruction.op = "scan"
  BY DEF StepScan
<1>18. StepCommitSuperIndex => Instruction.op = "commitSuperIndex"
  BY DEF StepCommitSuperIndex
<1>19. StepClearJournal => Instruction.op = "clearJournal"
  BY DEF StepClearJournal
<1>20. QED
  BY <1>1, <1>2, <1>3, <1>4, <1>5, <1>6, <1>7, <1>8, <1>9, <1>10, <1>11, <1>12, <1>13,
     <1>14, <1>15, <1>16, <1>17, <1>18, <1>19

(* While a call runs, nothing but its next instruction, or a loss of power,
   happens. *)
LEMMA NextInstruction ==
    ASSUME NEW x, NEW r, IsProg(r), prog = Then(x, r), Next
    PROVE  /\ prog # <<>> /\ Instruction = x /\ Tail(prog) = r
           /\ \/ PowerLoss
              \/ StepMap \/ StepUsed \/ StepPageStatus \/ StepSummary \/ StepNote
              \/ StepUpdate \/ StepOperation \/ StepErase \/ StepWritePage
              \/ StepCopyPage \/ StepMarkBad \/ StepWriteSummary \/ StepNewPage
              \/ StepManageFull \/ StepAfterDelete \/ StepAfterMove \/ StepScan
              \/ StepCommitSuperIndex \/ StepClearJournal
<1>1. prog # <<>> /\ Instruction = x /\ Tail(prog) = r
  BY ThenFacts DEF Instruction
<1>2. ~ (\E f \in FilePage : Write(f) \/ Delete(f)) /\ ~Flush
  BY <1>1 DEF Write, Delete, Flush, Ready, Idle
<1>3. ~SignalGarbage /\ ~SignalDataIO /\ ~Mounted
  BY <1>1 DEF SignalGarbage, SignalDataIO, Mounted
<1>4. QED
  BY <1>1, <1>2, <1>3 DEF Next, Step

(* A step that runs an area-map statement logs it and applies it to the
   map. *)
LEMMA ExecMap ==
    ASSUME NEW x, NEW r, IsProg(r), prog = Then(x, r), Next, ~PowerLoss, x.op \in MapOp
    PROVE  /\ log' = Append(log, x) /\ map' = Applied(map, x) /\ prog' = r
           /\ UNCHANGED <<flashVars, index, sum, addr, phase, found, bounds>>
<1>1. StepMap
  BY NextInstruction, Kinds DEF MapOp, NoteOp, AreaMgmtOp
<1>2. QED
  BY <1>1, NextInstruction DEF StepMap, Logged, Continue

(* A step that runs AddUsed logs and sets the new number of used areas. *)
LEMMA ExecUsed ==
    ASSUME NEW n, NEW r, IsProg(r), prog = Then(AddUsed(n), r), Next, ~PowerLoss
    PROVE  /\ log' = Append(log, UsedAreas(map.used + n))
           /\ map' = Applied(map, UsedAreas(map.used + n)) /\ prog' = r
           /\ UNCHANGED <<flashVars, index, sum, addr, phase, found, bounds>>
<1>1. AddUsed(n).op = "addUsed" /\ AddUsed(n).by = n
  BY DEF AddUsed
<1>2. StepUsed
  BY <1>1, NextInstruction, Kinds DEF MapOp, NoteOp, AreaMgmtOp
<1>3. QED
  BY <1>1, <1>2, NextInstruction DEF StepUsed, Continue

(* setPageStatus: the cached summary takes the entry; it is logged unless
   it says nothing new, and a summary that gets dirty as a whole is
   scheduled to be written. *)
LEMMA ExecPageStatus ==
    ASSUME NEW ad, NEW st, NEW r, IsProg(r), prog = Then(SetStatus(ad, st), r), Next, ~PowerLoss
    PROVE  LET e == SetStatus(ad, st) IN
           /\ sum' = SummaryApplied(map, sum, e)
           /\ IF PageStatus(e.area, e.page) = e.entry \/ map.type[e.area] = "unset"
              THEN prog' = r /\ UNCHANGED log
              ELSE /\ log' = Append(log, e)
                   /\ prog' = (IF SummaryApplied(map, sum, e)[e.area] = All("dirty")
                                  /\ map.pos[e.area] \notin asWritten
                               THEN <<WriteSummary(e.area)>> ELSE <<>>) \o r
           /\ UNCHANGED <<flashVars, index, map, addr, phase, found, bounds>>
<1>1. SetStatus(ad, st).op = "setStatus"
  BY DEF SetStatus
<1>2. StepPageStatus
  BY <1>1, NextInstruction, Kinds DEF MapOp, NoteOp, AreaMgmtOp
<1>3. QED
  BY <1>2, NextInstruction DEF StepPageStatus, Logged, Continue

(* The other summary statements are logged and applied to the cached
   summaries. *)
LEMMA ExecSummary ==
    ASSUME NEW x, NEW r, IsProg(r), prog = Then(x, r), Next, ~PowerLoss,
           x.op \in {"setStatusBlock", "remove", "reset", "commit"}
    PROVE  /\ log' = Append(log, x) /\ sum' = SummaryApplied(map, sum, x) /\ prog' = r
           /\ UNCHANGED <<flashVars, index, map, addr, phase, found, bounds>>
<1>1. StepSummary
  BY NextInstruction, Kinds DEF MapOp, NoteOp, AreaMgmtOp
<1>2. QED
  BY <1>1, NextInstruction DEF StepSummary, Logged, Continue

(* A checkpoint or a page-state note is logged and changes nothing else. *)
LEMMA ExecNote ==
    ASSUME NEW x, NEW r, IsProg(r), prog = Then(x, r), Next, ~PowerLoss, x.op \in NoteOp
    PROVE  /\ log' = Append(log, x) /\ prog' = r
           /\ UNCHANGED <<flashVars, index, ramVars, phase, found, bounds>>
<1>1. StepNote
  BY NextInstruction, Kinds DEF MapOp, NoteOp, AreaMgmtOp
<1>2. QED
  BY <1>1, NextInstruction DEF StepNote, Logged, Continue

(* updateInode logs the new address and sets it. *)
LEMMA ExecUpdate ==
    ASSUME NEW f, NEW ad, NEW r, IsProg(r), prog = Then(UpdateInode(f, ad), r), Next, ~PowerLoss
    PROVE  /\ log' = Append(log, UpdateInode(f, ad)) /\ prog' = r
           /\ addr' = [addr EXCEPT ![f] = ad]
           /\ UNCHANGED <<flashVars, index, map, sum, phase, found, bounds>>
<1>1. UpdateInode(f, ad).op = "update" /\ UpdateInode(f, ad).file = f /\ UpdateInode(f, ad).neu = ad
  BY DEF UpdateInode
<1>2. StepUpdate
  BY <1>1, NextInstruction, Kinds DEF MapOp, NoteOp, AreaMgmtOp
<1>3. QED
  BY <1>1, <1>2, NextInstruction DEF StepUpdate, Logged, Continue

(* An AreaMgmt operation logs itself and is replaced by its body. *)
LEMMA ExecOperation ==
    ASSUME NEW x, NEW r, IsProg(r), prog = Then(x, r), Next, ~PowerLoss, x.op \in AreaMgmtOp,
           map.type[x.area] # "retired"
    PROVE  /\ log' = Append(log, x)
           /\ \E body \in Body(x) : prog' = body \o r
           /\ UNCHANGED <<flashVars, index, ramVars, phase, found, bounds>>
<1>1. StepOperation
  BY NextInstruction, Kinds DEF MapOp, NoteOp, AreaMgmtOp
<1>2. Instruction = x /\ Tail(prog) = r
  BY NextInstruction
<1>3. QED
  BY <1>1, <1>2 DEF StepOperation, Logged, Continue

(* Without bad blocks an erase clears one block, and the last block of an
   area forgets its written summary. *)
LEMMA ExecErase ==
    ASSUME Careful, NEW pos, NEW blk, NEW r, IsProg(r), prog = Then(EraseBlock(pos, blk), r), Next,
           ~PowerLoss
    PROVE  /\ flash' = [flash EXCEPT ![pos] =
                           [p \in Page |-> IF BlockOf(p) = blk THEN Erased ELSE @[p]]]
           /\ asWritten' = IF blk = BlocksPerArea - 1 THEN asWritten \ {pos} ELSE asWritten
           /\ prog' = r
           /\ UNCHANGED <<bad, index, log, ramVars, phase, found, bounds>>
<1>1. /\ EraseBlock(pos, blk).op = "eraseBlock" /\ EraseBlock(pos, blk).pos = pos
      /\ EraseBlock(pos, blk).block = blk
  BY DEF EraseBlock
<1>2. StepErase
  BY <1>1, NextInstruction, Kinds DEF MapOp, NoteOp, AreaMgmtOp
<1>3. QED
  BY <1>1, <1>2, NextInstruction DEF StepErase, Continue, Careful

(* A data page is written at the position its area has now. *)
LEMMA ExecWritePage ==
    ASSUME NEW ad, NEW r, IsProg(r), prog = Then(WritePage(ad), r), Next, ~PowerLoss
    PROVE  /\ flash' = [flash EXCEPT ![map.pos[ad[1]]][ad[2]] = ops]
           /\ prog' = r
           /\ UNCHANGED <<asWritten, bad, index, log, ramVars, phase, found, bounds>>
<1>1. /\ WritePage(ad).op = "writePage" /\ WritePage(ad).area = ad[1]
      /\ WritePage(ad).page = ad[2]
  BY DEF WritePage
<1>2. StepWritePage
  BY <1>1, NextInstruction, Kinds DEF MapOp, NoteOp, AreaMgmtOp
<1>3. QED
  BY <1>1, <1>2, NextInstruction DEF StepWritePage, Continue

(* The flash after page p was copied from area a to area b. *)
PageCopied(a, b, p) ==
    [flash EXCEPT ![map.pos[b]][p] = flash[map.pos[a]][p]]

(* One page is copied between two areas, then the copy loop goes on with
   the next page. *)
LEMMA ExecCopyPage ==
    ASSUME NEW a, NEW b, NEW p, NEW r, IsProg(r), prog = Then(CopyPage(a, b, p), r), Next,
           ~PowerLoss
    PROVE  /\ flash' = PageCopied(a, b, p)
           /\ prog' = moveValidData(a, b, p + 1) \o r
           /\ UNCHANGED <<asWritten, bad, index, log, ramVars, phase, found, bounds>>
<1>1. /\ CopyPage(a, b, p).op = "copyPage" /\ CopyPage(a, b, p).area = a
      /\ CopyPage(a, b, p).b = b /\ CopyPage(a, b, p).page = p
  BY DEF CopyPage
<1>2. StepCopyPage
  BY <1>1, NextInstruction, Kinds DEF MapOp, NoteOp, AreaMgmtOp
<1>3. Instruction = CopyPage(a, b, p) /\ Tail(prog) = r
  BY NextInstruction
<1>4. QED
  BY <1>1, <1>2, <1>3 DEF StepCopyPage, PageCopied

(* A summary is written to its area and the commit entry comes next. *)
LEMMA ExecWriteSummary ==
    ASSUME NEW a, NEW r, IsProg(r), prog = Then(WriteSummary(a), r), Next, ~PowerLoss
    PROVE  /\ asWritten' = asWritten \union {map.pos[a]}
           /\ prog' = Then(Commit(a), r)
           /\ UNCHANGED <<flash, bad, index, log, ramVars, phase, found, bounds>>
<1>1. WriteSummary(a).op = "writeSummary" /\ WriteSummary(a).area = a
  BY DEF WriteSummary
<1>2. StepWriteSummary
  BY <1>1, NextInstruction, Kinds DEF MapOp, NoteOp, AreaMgmtOp
<1>3. QED
  BY <1>1, <1>2, NextInstruction DEF StepWriteSummary, Then

(* findWritableArea and findFirstFreePage: the transaction replaces the
   file's page by the lowest free one, or gives up without space. *)
LEMMA ExecNewPage ==
    ASSUME NEW f, NEW r, IsProg(r), prog = Then(NewPageFor(f), r), Next, ~PowerLoss
    PROVE  LET a == map.active["data"]
               neu == <<a, Min(FreePages(a))>>
           IN  /\ IF a = 0 \/ FreePages(a) = {}
                  THEN prog' = <<>> /\ UNCHANGED log
                  ELSE /\ log' = Append(log, ReplacePage(neu, addr[f]))
                       /\ prog' = <<SetStatus(neu, "used"), WritePage(neu),
                                    ManageActiveAreaFull("data"), UpdateInode(f, neu)>>
                                  \o Retire(addr[f])
               /\ UNCHANGED <<flashVars, index, ramVars, phase, found, bounds>>
<1>1. NewPageFor(f).op = "newPageFor" /\ NewPageFor(f).file = f
  BY DEF NewPageFor
<1>2. StepNewPage
  BY <1>1, NextInstruction, Kinds DEF MapOp, NoteOp, AreaMgmtOp
<1>3. QED
  BY <1>1, <1>2, NextInstruction DEF StepNewPage

(* manageActiveAreaFull closes the active area if no page of it is free. *)
LEMMA ExecManageFull ==
    ASSUME NEW t, NEW r, IsProg(r), prog = Then(ManageActiveAreaFull(t), r), Next, ~PowerLoss
    PROVE  LET a == map.active[t] IN
           /\ prog' = (IF a # 0 /\ FreePages(a) = {} THEN <<CloseArea(a)>> ELSE <<>>) \o r
           /\ sum' = IF a = 0 THEN sum ELSE WithSummary(sum, a, SummaryOf(map, sum, a))
           /\ UNCHANGED <<flashVars, index, log, map, addr, phase, found, bounds>>
<1>1. ManageActiveAreaFull(t).op = "manageActiveAreaFull" /\ ManageActiveAreaFull(t).type = t
  BY DEF ManageActiveAreaFull
<1>2. StepManageFull
  BY <1>1, NextInstruction, Kinds DEF MapOp, NoteOp, AreaMgmtOp
<1>3. QED
  BY <1>1, <1>2, NextInstruction DEF StepManageFull

(* After a deleted area the victim and the buffer swap places, and the
   victim is initialised. *)
LEMMA ExecAfterDelete ==
    ASSUME NEW a, NEW t, NEW r, IsProg(r), prog = Then(AfterDelete(a, t), r), Next, ~PowerLoss,
           map.type[a] # "retired"
    PROVE  /\ log' = Append(log, Swap(a, buffer))
           /\ map' = Applied(map, Swap(a, buffer))
           /\ prog' = Then(InitAreaAs(a, t), Then(Checkpoint("garbage"), r))
           /\ UNCHANGED <<flashVars, index, sum, addr, phase, found, bounds>>
<1>1. /\ AfterDelete(a, t).op = "afterDelete" /\ AfterDelete(a, t).area = a
      /\ AfterDelete(a, t).type = t
  BY DEF AfterDelete
<1>2. StepAfterDelete
  BY <1>1, NextInstruction, Kinds DEF MapOp, NoteOp, AreaMgmtOp
<1>i. Instruction = AfterDelete(a, t) /\ Tail(prog) = r
  BY NextInstruction
<1>3. prog' = <<InitAreaAs(a, t), Checkpoint("garbage")>> \o r
  BY <1>1, <1>2, <1>i DEF StepAfterDelete
<1>4. <<InitAreaAs(a, t), Checkpoint("garbage")>> \o r
        = Then(InitAreaAs(a, t), Then(Checkpoint("garbage"), r))
  BY ThenTwo
<1>5. QED
  BY <1>1, <1>2, <1>3, <1>4, NextInstruction DEF StepAfterDelete, buffer

(* After the erase of a moved area nothing is left to do while the buffer
   is in use. *)
LEMMA ExecAfterMove ==
    ASSUME NEW r, IsProg(r), prog = Then(AfterMove, r), Next, ~PowerLoss,
           map.type[buffer] # "retired"
    PROVE  /\ prog' = r
           /\ UNCHANGED <<flashVars, index, log, ramVars, phase, found, bounds>>
<1>1. AfterMove.op = "afterMove"
  BY DEF AfterMove
<1>2. StepAfterMove
  BY <1>1, NextInstruction, Kinds DEF MapOp, NoteOp, AreaMgmtOp
<1>3. QED
  BY <1>2, NextInstruction, ProgFacts DEF StepAfterMove, buffer

(* A scan after a mount logs the block of page states it found, and
   initialises the area of a transaction that has none. *)
LEMMA ExecScan ==
    ASSUME NEW a, NEW r, IsProg(r), prog = Then(Scan(a), r), Next, ~PowerLoss
    PROVE  /\ prog' = (IF Scanned(a) = All("free") THEN <<>>
                       ELSE <<SetStatusBlock(a, Scanned(a))>>
                            \o (IF found.type # "unset" /\ map.active[found.type] = 0
                                THEN <<InitAreaAs(a, found.type)>> ELSE <<>>))
                      \o r
           /\ UNCHANGED <<flashVars, index, log, ramVars, phase, found, bounds>>
<1>1. Scan(a).op = "scan" /\ Scan(a).area = a
  BY DEF Scan
<1>2. StepScan
  BY <1>1, NextInstruction, Kinds DEF MapOp, NoteOp, AreaMgmtOp
<1>3. Instruction = Scan(a) /\ Tail(prog) = r
  BY NextInstruction
<1>4. QED
  BY <1>1, <1>2, <1>3 DEF StepScan

(* The two steps of a flush: the superindex saves map, addresses and cached
   summaries, the journal is cleared. *)
LEMMA ExecFlush ==
    ASSUME NEW x, NEW r, IsProg(r), prog = Then(x, r), Next, ~PowerLoss
    PROVE  /\ x = CommitSuperIndex =>
                /\ index' = [map |-> map, addr |-> addr,
                             sum |-> [a \in {a \in cached : map.pos[a] \notin asWritten} |-> sum[a]]]
                /\ prog' = r
                /\ UNCHANGED <<flashVars, log, ramVars, phase, found, bounds>>
           /\ x = ClearJournal =>
                /\ log' = <<>> /\ prog' = r
                /\ UNCHANGED <<flashVars, index, ramVars, phase, found, bounds>>
<1>1. CommitSuperIndex.op = "commitSuperIndex" /\ ClearJournal.op = "clearJournal"
  BY DEF CommitSuperIndex, ClearJournal
<1>2. x = CommitSuperIndex => StepCommitSuperIndex
  BY <1>1, NextInstruction, Kinds DEF MapOp, NoteOp, AreaMgmtOp
<1>3. x = ClearJournal => StepClearJournal
  BY <1>1, NextInstruction, Kinds DEF MapOp, NoteOp, AreaMgmtOp
<1>4. QED
  BY <1>2, <1>3, NextInstruction DEF StepCommitSuperIndex, StepClearJournal, Continue

-----------------------------------------------------------------------------
(* The journal grows by one entry.                                         *)

Grows(e) == IsProg(log) /\ log' = Append(log, e)

(* What an appended entry leaves of the log: every earlier entry keeps its
   place. *)
LEMMA LogGrows ==
    ASSUME NEW e, Grows(e)
    PROVE  /\ Len(log) \in Nat /\ Len(log') = Len(log) + 1
           /\ DOMAIN log = 1 .. Len(log) /\ DOMAIN log' = 1 .. Len(log) + 1
           /\ \A i \in 1 .. Len(log) : log'[i] = log[i]
           /\ log'[Len(log) + 1] = e
           /\ IsProg(log')
<1>1. PICK S : log \in Seq(S)
  BY DEF IsProg, Grows
<1> DEFINE T == S \union {e}
<1>2. log \in Seq(T)
  <2>1. S \subseteq T
    OBVIOUS
  <2>2. QED
    BY <1>1, <2>1, SeqMonotonic
<1>3. e \in T
  OBVIOUS
<1> HIDE DEF T
<1>4. log' = Append(log, e)
  BY DEF Grows
<1>5. log' \in Seq(T) /\ Len(log) \in Nat
  BY <1>2, <1>3, <1>4
<1>6. QED
  BY <1>2, <1>3, <1>4, <1>5, AppendProperties DEF IsProg

(* The log is a sequence, so its indices are 1 to its length. *)
LEMMA LogIndices ==
    ASSUME IsProg(log)
    PROVE  Len(log) \in Nat /\ DOMAIN log = 1 .. Len(log)
BY DEF IsProg

(* The last index of a set. *)
LEMMA LastIndexIs ==
    ASSUME NEW n \in Nat, NEW S \in SUBSET (1 .. n)
    PROVE  /\ S = {} => LastIndex(S) = 0
           /\ S # {} => LastIndex(S) \in S /\ \A i \in S : i <= LastIndex(S)
           /\ LastIndex(S) \in 0 .. n
<1>1. IsFiniteSet(S)
  <2>1. IsFiniteSet(1 .. n)
    BY FS_Interval
  <2>2. S \subseteq 1 .. n
    OBVIOUS
  <2>3. QED
    BY <2>1, <2>2, FS_Subset
<1>2. CASE S # {}
  <2>1. S \in SUBSET Nat
    OBVIOUS
  <2>2. \E x \in S : \A y \in S : y <= x
    BY <1>1, <1>2, <2>1, LargestElement
  <2>3. \E x \in S : \A y \in S : x >= y
    BY <2>1, <2>2
  <2>4. Max(S) \in S /\ \A y \in S : Max(S) >= y
    BY <2>3 DEF Max
  <2>5. LastIndex(S) = Max(S)
    BY <1>2 DEF LastIndex
  <2>6. LastIndex(S) \in S /\ \A y \in S : LastIndex(S) >= y
    BY <2>4, <2>5
  <2>7. \A y \in S : y \in 1 .. n
    OBVIOUS
  <2> DEFINE m == LastIndex(S)
  <2>8. m \in S /\ \A y \in S : m >= y
    BY <2>6
  <2> HIDE DEF m
  <2>9. m \in 1 .. n /\ \A y \in S : y <= m
    BY <2>7, <2>8
  <2>10. m \in 0 .. n /\ m \in S /\ \A y \in S : y <= m
    BY <2>8, <2>9
  <2>11. QED
    BY <1>2, <2>10 DEF m
<1>3. CASE S = {}
  BY <1>3 DEF LastIndex
<1>4. QED
  BY <1>2, <1>3

(* A new last index. *)
LEMMA LastIndexGrows ==
    ASSUME NEW n \in Nat, NEW S \in SUBSET (1 .. n)
    PROVE  LastIndex(S \union {n + 1}) = n + 1
<1>1. S \union {n + 1} \in SUBSET (1 .. n + 1) /\ n + 1 \in Nat
  OBVIOUS
<1>2. LastIndex(S \union {n + 1}) \in S \union {n + 1}
      /\ n + 1 <= LastIndex(S \union {n + 1})
  BY <1>1, LastIndexIs
<1> DEFINE m == LastIndex(S \union {n + 1})
<1>3. m \in S \union {n + 1} /\ n + 1 <= m
  BY <1>2
<1> HIDE DEF m
<1>4. m \in 1 .. n + 1
  BY <1>3
<1>5. m = n + 1
  BY <1>3, <1>4
<1>6. QED
  BY <1>5 DEF m

(* The checkpoint of a topic. *)
LEMMA CheckpointGrows ==
    ASSUME NEW e, Grows(e), NEW t
    PROVE  /\ LastCheckpoint(t) \in 0 .. Len(log)
           /\ LastCheckpoint(t)' = IF e.op = "checkpoint" /\ e.topic = t
                                   THEN Len(log) + 1 ELSE LastCheckpoint(t)
<1> DEFINE S == {i \in DOMAIN log : log[i].op = "checkpoint" /\ log[i].topic = t}
           U == {i \in DOMAIN log' : log'[i].op = "checkpoint" /\ log'[i].topic = t}
           n == Len(log)
<1>1. n \in Nat /\ S \in SUBSET (1 .. n)
  BY LogGrows
<1>2. e.op = "checkpoint" /\ e.topic = t => U = S \union {n + 1}
  BY LogGrows
<1>3. ~(e.op = "checkpoint" /\ e.topic = t) => U = S
  BY LogGrows
<1>4. LastCheckpoint(t) = LastIndex(S) /\ LastCheckpoint(t)' = LastIndex(U)
  BY DEF LastCheckpoint, LastIndex
<1> HIDE DEF S, U, n
<1>5. LastIndex(S) \in 0 .. n /\ LastIndex(S \union {n + 1}) = n + 1
  BY <1>1, LastIndexIs, LastIndexGrows
<1>6. QED
  BY <1>2, <1>3, <1>4, <1>5 DEF n

(* The entries a topic is given. *)
LEMMA UnretiredGrows ==
    ASSUME NEW e, Grows(e), NEW t, NEW kinds, "checkpoint" \notin kinds
    PROVE  /\ Unretired(t, kinds) \in SUBSET (1 .. Len(log))
           /\ Unretired(t, kinds)' =
                IF e.op = "checkpoint" /\ e.topic = t THEN {}
                ELSE IF e.op \in kinds THEN Unretired(t, kinds) \union {Len(log) + 1}
                ELSE Unretired(t, kinds)
<1> DEFINE n == Len(log)
           c == LastCheckpoint(t)
           d == LastCheckpoint(t)'
<1>1. /\ n \in Nat /\ Len(log') = n + 1 /\ DOMAIN log = 1 .. n /\ DOMAIN log' = 1 .. n + 1
      /\ \A i \in 1 .. n : log'[i] = log[i]
      /\ log'[n + 1] = e
  BY LogGrows
<1>2. c \in 0 .. n /\ d = IF e.op = "checkpoint" /\ e.topic = t THEN n + 1 ELSE c
  BY CheckpointGrows
<1>3. Unretired(t, kinds) = {i \in DOMAIN log : i > c /\ log[i].op \in kinds}
  BY DEF Unretired
<1>4. Unretired(t, kinds)' = {i \in DOMAIN log' : i > d /\ log'[i].op \in kinds}
  BY DEF Unretired
<1> HIDE DEF n, c, d
<1>5. CASE e.op = "checkpoint" /\ e.topic = t
  BY <1>1, <1>2, <1>3, <1>4, <1>5
<1>6. CASE ~(e.op = "checkpoint" /\ e.topic = t) /\ e.op \in kinds
  <2>1. \A i \in 1 .. n + 1 : (i > d /\ log'[i].op \in kinds)
                <=> i \in {j \in DOMAIN log : j > c /\ log[j].op \in kinds} \union {n + 1}
    BY <1>1, <1>2, <1>6
  <2>2. QED
    BY <1>1, <1>3, <1>4, <1>6, <2>1 DEF n
<1>7. CASE ~(e.op = "checkpoint" /\ e.topic = t) /\ e.op \notin kinds
  BY <1>1, <1>2, <1>3, <1>4, <1>7
<1>8. QED
  BY <1>1, <1>3, <1>5, <1>6, <1>7 DEF n

(* The entries that a topic's replay still has to look at are entries of
   the log. *)
LEMMA UnretiredIn ==
    ASSUME IsProg(log), NEW t, NEW kinds
    PROVE  /\ Unretired(t, kinds) \in SUBSET (1 .. Len(log)) /\ Len(log) \in Nat
           /\ \A i \in Unretired(t, kinds) : log[i].op \in kinds
BY LogIndices DEF Unretired

(* No operation: none was logged since the checkpoint. *)
LEMMA NoOpIs ==
    ASSUME IsProg(log)
    PROVE  /\ NoOp <=> LastOperation = 0
           /\ LastOperation \in 0 .. Len(log)
           /\ ~NoOp => lastOp.op \in AreaMgmtOp
           /\ NoOp => lastOp = InvalidateOldPages /\ ext = "none"
<1> DEFINE own == Unretired("areaMgmt", AreaMgmtOp)
<1>1. own \in SUBSET (1 .. Len(log)) /\ Len(log) \in Nat
      /\ \A i \in own : log[i].op \in AreaMgmtOp
  BY UnretiredIn
<1>2. LastOperation = LastIndex(own)
  BY DEF LastOperation
<1>3. (own = {} => LastIndex(own) = 0) /\ (own # {} => LastIndex(own) \in own)
      /\ LastIndex(own) \in 0 .. Len(log)
  BY <1>1, LastIndexIs
<1>4. own = {} => ext = "none"
  <2>1. own = {} => {j \in Unretired("areaMgmt", ExternOp) : \E k \in own : k < j} = {}
    OBVIOUS
  <2>2. LastIndex({}) = 0
    BY DEF LastIndex
  <2>3. QED
    BY <2>1, <2>2 DEF ext, mLastExternOp
<1> HIDE DEF own
<1>5. InvalidateOldPages.op = "invalidateOldPages" /\ "invalidateOldPages" \notin AreaMgmtOp
  BY DEF InvalidateOldPages, AreaMgmtOp
<1>6. LastOperation # 0 => lastOp = log[LastOperation] /\ LastOperation \in own
  BY <1>2, <1>3 DEF lastOp
<1>7. LastOperation # 0 => lastOp.op \in AreaMgmtOp
  BY <1>1, <1>6
<1>8. LastOperation = 0 => lastOp = InvalidateOldPages /\ own = {}
  <2>1. own # {} => LastIndex(own) # 0
    BY <1>1, <1>3
  <2>2. QED
    BY <1>2, <2>1 DEF lastOp
<1>9. QED
  BY <1>2, <1>3, <1>4, <1>5, <1>7, <1>8 DEF NoOp

-----------------------------------------------------------------------------
(* What a mount would find after one more entry.                           *)

IsCheckpoint(e, t) == e.op = "checkpoint" /\ e.topic = t

(* AreaManagement: the operation in progress and its last change. *)
LEMMA OpView ==
    ASSUME NEW e, Grows(e)
    PROVE  /\ IsCheckpoint(e, "areaMgmt") => lastOp' = InvalidateOldPages /\ NoOp' /\ ext' = "none"
           /\ NoOp /\ e.op \in AreaMgmtOp => lastOp' = e /\ ext' = "none"
           /\ ~NoOp /\ e.op \in ExternOp => lastOp' = lastOp /\ ext' = e.op
           /\ e.op \notin AreaMgmtOp \union ExternOp /\ ~IsCheckpoint(e, "areaMgmt")
                => lastOp' = lastOp /\ ext' = ext /\ (NoOp' <=> NoOp)
<1> DEFINE n == Len(log)
           own == Unretired("areaMgmt", AreaMgmtOp)
           extern == Unretired("areaMgmt", ExternOp)
           own1 == Unretired("areaMgmt", AreaMgmtOp)'
           extern1 == Unretired("areaMgmt", ExternOp)'
           S == {j \in extern : \E k \in own : k < j}
           S1 == {j \in extern1 : \E k \in own1 : k < j}
<1>1. "checkpoint" \notin AreaMgmtOp /\ "checkpoint" \notin ExternOp
      /\ AreaMgmtOp \intersect ExternOp = {}
  BY DEF AreaMgmtOp, ExternOp
<1>2. /\ own \in SUBSET (1 .. n) /\ extern \in SUBSET (1 .. n)
      /\ own1 = IF IsCheckpoint(e, "areaMgmt") THEN {}
                ELSE IF e.op \in AreaMgmtOp THEN own \union {n + 1} ELSE own
      /\ extern1 = IF IsCheckpoint(e, "areaMgmt") THEN {}
                   ELSE IF e.op \in ExternOp THEN extern \union {n + 1} ELSE extern
  BY <1>1, UnretiredGrows DEF IsCheckpoint
<1>3. LastOperation = LastIndex(own) /\ LastOperation' = LastIndex(own1)
  BY DEF LastOperation, LastIndex
<1>4. /\ ext = IF LastIndex(S) = 0 THEN "none" ELSE log[LastIndex(S)].op
      /\ ext' = IF LastIndex(S1) = 0 THEN "none" ELSE log'[LastIndex(S1)].op
  BY DEF ext, mLastExternOp, LastIndex
<1>5. /\ n \in Nat /\ log'[n + 1] = e
      /\ \A i \in 1 .. n : log'[i] = log[i]
      /\ IsProg(log) /\ IsProg(log')
  BY LogGrows DEF Grows
<1>6. NoOp <=> LastOperation = 0
  BY <1>5, NoOpIs
<1>7. own # {} => LastIndex(own) # 0
  <2>1. own # {} => LastIndex(own) \in own
    BY <1>2, <1>5, LastIndexIs
  <2>2. QED
    BY <1>2, <2>1
<1>8. /\ lastOp = IF LastOperation = 0 THEN InvalidateOldPages ELSE log[LastOperation]
      /\ lastOp' = IF LastOperation' = 0 THEN InvalidateOldPages ELSE log'[LastOperation']
      /\ LastIndex({}) = 0
  BY DEF lastOp, InvalidateOldPages, LastIndex
<1>9. NoOp' <=> lastOp'.op = "invalidateOldPages"
  BY DEF NoOp
<1>10. S \in SUBSET (1 .. n)
  BY <1>2
<1>11. LastIndex(own) \in 0 .. n /\ LastIndex(S) \in 0 .. n
  BY <1>2, <1>5, <1>10, LastIndexIs
<1>12. InvalidateOldPages.op = "invalidateOldPages" /\ NoOp = (lastOp.op = "invalidateOldPages")
  BY DEF InvalidateOldPages, NoOp
<1> HIDE DEF n, own, extern, own1, extern1
<1>13. CASE IsCheckpoint(e, "areaMgmt")
  <2>1. own1 = {} /\ S1 = {}
    BY <1>2, <1>13
  <2>2. e.op \notin AreaMgmtOp \union ExternOp
    BY <1>1, <1>13 DEF IsCheckpoint
  <2>3. lastOp' = InvalidateOldPages /\ ext' = "none"
    BY <1>3, <1>4, <1>8, <2>1
  <2>4. QED
    BY <1>9, <1>12, <1>13, <2>2, <2>3
<1>14. CASE NoOp /\ e.op \in AreaMgmtOp
  <2>1. own = {} /\ own1 = {n + 1} /\ extern1 = extern
    <3>1. own = {}
      BY <1>3, <1>6, <1>7, <1>14
    <3>2. ~IsCheckpoint(e, "areaMgmt") /\ e.op \notin ExternOp
      BY <1>1, <1>14 DEF IsCheckpoint
    <3>3. QED
      BY <1>2, <1>14, <3>1, <3>2
  <2>a. \A j \in extern : j \in 1 .. n
    BY <1>2
  <2>b. \A j \in extern : ~ (n + 1 < j)
    BY <1>5, <2>a
  <2>2. S1 = {}
    BY <2>1, <2>b
  <2>3. LastIndex(own1) = n + 1
    <3>1. {} \in SUBSET (1 .. n) /\ {} \union {n + 1} = {n + 1}
      OBVIOUS
    <3>2. QED
      BY <1>5, <2>1, <3>1, LastIndexGrows
  <2>4. lastOp' = e /\ ext' = "none"
    BY <1>3, <1>4, <1>5, <1>8, <2>2, <2>3
  <2>5. ~IsCheckpoint(e, "areaMgmt") /\ e.op \notin ExternOp
    BY <1>1, <1>14 DEF IsCheckpoint
  <2>6. QED
    BY <1>14, <2>4, <2>5
<1>15. CASE ~NoOp /\ e.op \in ExternOp
  <2>1. own1 = own /\ extern1 = extern \union {n + 1} /\ own # {}
    <3>1. own # {}
      BY <1>3, <1>6, <1>8, <1>15
    <3>2. ~IsCheckpoint(e, "areaMgmt") /\ e.op \notin AreaMgmtOp
      BY <1>1, <1>15 DEF IsCheckpoint
    <3>3. QED
      BY <1>2, <1>15, <3>1, <3>2
  <2>a. \A j \in own : j \in 1 .. n
    BY <1>2
  <2>b. \E k \in own : k < n + 1
    BY <1>5, <2>1, <2>a
  <2>2. S1 = S \union {n + 1}
    BY <2>1, <2>b
  <2>3. LastIndex(S1) = n + 1
    BY <1>5, <1>10, <2>2, LastIndexGrows
  <2>4. ext' = e.op
    BY <1>4, <1>5, <2>3
  <2>5. lastOp' = lastOp
    BY <1>3, <1>5, <1>8, <1>11, <2>1
  <2>6. ~IsCheckpoint(e, "areaMgmt") /\ e.op \notin AreaMgmtOp
    BY <1>1, <1>15 DEF IsCheckpoint
  <2>7. QED
    BY <1>15, <2>4, <2>5, <2>6
<1>16. CASE e.op \notin AreaMgmtOp \union ExternOp /\ ~IsCheckpoint(e, "areaMgmt")
  <2>1. own1 = own /\ extern1 = extern
    BY <1>2, <1>16
  <2>2. S1 = S
    BY <2>1
  <2>3. lastOp' = lastOp
    BY <1>3, <1>5, <1>8, <1>11, <2>1
  <2>4. ext' = ext
    BY <1>4, <1>5, <1>11, <2>2
  <2>5. QED
    BY <1>9, <1>12, <1>16, <2>3, <2>4
<1>17. QED
  BY <1>13, <1>14, <1>15, <1>16

MoveOp == {"deleteArea", "deleteAreaContents", "swap", "setStatusBlock"}

(* GarbageCollection: the move in progress and how far it got. *)
LEMMA MoveView ==
    ASSUME NEW e, Grows(e)
    PROVE  /\ IsCheckpoint(e, "garbage") => mv' = "ok" /\ target' = 0
           /\ e.op = "moveValidData" => mv' = "moveValidData" /\ target' = e.area
           /\ mv # "ok" /\ e.op \in {"deleteArea", "deleteAreaContents"}
                => mv' = "deletedOldArea" /\ target' = target
           /\ mv # "ok" /\ e.op = "swap" => mv' = "swappedPosition" /\ target' = target
           /\ mv # "ok" /\ e.op = "setStatusBlock" => mv' = "setNewSummary" /\ target' = target
           /\ mv = "ok" /\ e.op \in MoveOp => mv' = "ok" /\ target' = target
           /\ e.op \notin MoveOp \union {"moveValidData"} /\ ~IsCheckpoint(e, "garbage")
                => mv' = mv /\ target' = target
<1> DEFINE n == Len(log)
           M == Unretired("garbage", {"moveValidData"})
           W == Unretired("garbage", MoveOp)
           M1 == Unretired("garbage", {"moveValidData"})'
           W1 == Unretired("garbage", MoveOp)'
           m == LastIndex(M)
           m1 == LastIndex(M1)
           S == {j \in W : j > m}
           S1 == {j \in W1 : j > m1}
           Kind(x) == CASE x = "swap" -> "swappedPosition"
                        [] x = "setStatusBlock" -> "setNewSummary"
                        [] OTHER -> "deletedOldArea"
<1>1. "checkpoint" \notin {"moveValidData"} /\ "checkpoint" \notin MoveOp
      /\ "moveValidData" \notin MoveOp
  BY DEF MoveOp
<1>2. /\ M \in SUBSET (1 .. n) /\ W \in SUBSET (1 .. n)
      /\ M1 = IF IsCheckpoint(e, "garbage") THEN {}
              ELSE IF e.op \in {"moveValidData"} THEN M \union {n + 1} ELSE M
      /\ W1 = IF IsCheckpoint(e, "garbage") THEN {}
              ELSE IF e.op \in MoveOp THEN W \union {n + 1} ELSE W
  BY <1>1, UnretiredGrows DEF IsCheckpoint
<1>3. LastMove = m /\ LastMove' = m1
  BY DEF LastMove, LastIndex
<1>4. /\ mv = IF m = 0 THEN "ok" ELSE IF LastIndex(S) = 0 THEN "moveValidData"
              ELSE Kind(log[LastIndex(S)].op)
      /\ mv' = IF m1 = 0 THEN "ok" ELSE IF LastIndex(S1) = 0 THEN "moveValidData"
               ELSE Kind(log'[LastIndex(S1)].op)
      /\ target = IF m = 0 THEN 0 ELSE log[m].area
      /\ target' = IF m1 = 0 THEN 0 ELSE log'[m1].area
      /\ LastIndex({}) = 0
  BY <1>3 DEF mv, MoveProgress, target, MoveOp, LastIndex
<1>5. /\ n \in Nat /\ log'[n + 1] = e
      /\ \A i \in 1 .. n : log'[i] = log[i]
  BY LogGrows DEF Grows
<1>6. S \in SUBSET (1 .. n)
  BY <1>2
<1> HIDE DEF M, W, M1, W1, n
<1>7. m \in 0 .. n /\ LastIndex(S) \in 0 .. n
  BY <1>2, <1>5, <1>6, LastIndexIs
<1>8. \A x : Kind(x) # "ok"
  OBVIOUS
<1>9. mv = "ok" <=> m = 0
  BY <1>4, <1>8
<1>10. S # {} => LastIndex(S) \in S
  BY <1>5, <1>6, LastIndexIs
<1> HIDE DEF S, S1, m, m1, Kind
<1>11. CASE IsCheckpoint(e, "garbage")
  <2>1. m1 = 0
    BY <1>2, <1>4, <1>11 DEF m1
  <2>2. e.op \notin MoveOp /\ e.op # "moveValidData"
    BY <1>1, <1>11 DEF IsCheckpoint
  <2>3. mv' = "ok" /\ target' = 0
    BY <1>4, <2>1
  <2>4. QED
    BY <1>11, <2>2, <2>3, Zenon DEF MoveOp
<1>12. CASE e.op = "moveValidData"
  <2>1. ~IsCheckpoint(e, "garbage") /\ e.op \notin MoveOp
    BY <1>1, <1>12 DEF IsCheckpoint
  <2>2. m1 = n + 1 /\ W1 = W
    BY <1>2, <1>5, <1>12, <2>1, LastIndexGrows DEF m1
  <2>a. \A j \in W : j \in 1 .. n
    BY <1>2
  <2>b. \A j \in W : ~ (j > n + 1)
    BY <1>5, <2>a
  <2>3. S1 = {}
    BY <2>2, <2>b DEF S1
  <2>4. mv' = "moveValidData" /\ target' = e.area
    BY <1>4, <1>5, <2>2, <2>3
  <2>5. QED
    BY <1>12, <2>1, <2>4 DEF MoveOp
<1>13. CASE e.op \in MoveOp
  <2>1. ~IsCheckpoint(e, "garbage") /\ e.op # "moveValidData"
    BY <1>1, <1>13 DEF IsCheckpoint
  <2>2. m1 = m /\ W1 = W \union {n + 1}
    BY <1>2, <1>13, <2>1 DEF m, m1
  <2>3. S1 = S \union {n + 1}
    BY <1>2, <1>5, <1>7, <2>2 DEF S, S1
  <2>4. LastIndex(S1) = n + 1
    BY <1>5, <1>6, <2>3, LastIndexGrows
  <2>5. target' = target
    BY <1>4, <1>5, <1>7, <2>2
  <2>6. mv' = IF m = 0 THEN "ok" ELSE Kind(e.op)
    BY <1>4, <1>5, <2>2, <2>4
  <2>7. QED
    BY <1>9, <1>13, <2>1, <2>5, <2>6 DEF MoveOp, Kind
<1>14. CASE e.op \notin MoveOp \union {"moveValidData"} /\ ~IsCheckpoint(e, "garbage")
  <2>1. m1 = m /\ W1 = W
    BY <1>2, <1>14 DEF m, m1
  <2>2. S1 = S
    BY <2>1 DEF S, S1
  <2>3. target' = target
    BY <1>4, <1>5, <1>7, <2>1
  <2>4. mv' = mv
    BY <1>4, <1>5, <1>7, <2>1, <2>2
  <2>5. QED
    BY <1>14, <2>3, <2>4 DEF MoveOp
<1>15. QED
  BY <1>11, <1>12, <1>13, <1>14

(* DataIO: the page that is being replaced. *)
LEMMA TxView ==
    ASSUME NEW e, Grows(e)
    PROVE  /\ IsCheckpoint(e, "dataIO") => ~replaced'
           /\ e.op = "replacePage" => /\ replaced' /\ ~updated' /\ ~invalidated'
                                      /\ neuPage' = e.neu /\ oldPage' = e.old
           /\ replaced /\ e.op = "update" => replaced' /\ updated' /\ (invalidated' <=> invalidated)
                                /\ neuPage' = neuPage /\ oldPage' = oldPage
           /\ replaced /\ e.op = "invalidateOldPages" =>
                                replaced' /\ (updated' <=> updated) /\ invalidated'
                                /\ neuPage' = neuPage /\ oldPage' = oldPage
           /\ ~replaced /\ e.op # "replacePage" => ~replaced'
           /\ (/\ e.op \notin {"replacePage", "update", "invalidateOldPages"}
               /\ ~IsCheckpoint(e, "dataIO"))
                => (replaced' <=> replaced) /\ (updated' <=> updated)
                   /\ (invalidated' <=> invalidated)
                   /\ (replaced => neuPage' = neuPage /\ oldPage' = oldPage)
<1> DEFINE n == Len(log)
           R == Unretired("dataIO", {"replacePage"})
           U == Unretired("dataIO", {"update"})
           V == Unretired("dataIO", {"invalidateOldPages"})
           R1 == Unretired("dataIO", {"replacePage"})'
           U1 == Unretired("dataIO", {"update"})'
           V1 == Unretired("dataIO", {"invalidateOldPages"})'
           r == LastIndex(R)
           r1 == LastIndex(R1)
<1>1. /\ R \in SUBSET (1 .. n) /\ U \in SUBSET (1 .. n) /\ V \in SUBSET (1 .. n)
      /\ R1 = IF IsCheckpoint(e, "dataIO") THEN {}
              ELSE IF e.op \in {"replacePage"} THEN R \union {n + 1} ELSE R
      /\ U1 = IF IsCheckpoint(e, "dataIO") THEN {}
              ELSE IF e.op \in {"update"} THEN U \union {n + 1} ELSE U
      /\ V1 = IF IsCheckpoint(e, "dataIO") THEN {}
              ELSE IF e.op \in {"invalidateOldPages"} THEN V \union {n + 1} ELSE V
  BY UnretiredGrows DEF IsCheckpoint
<1>2. LastReplace = r /\ LastReplace' = r1
  BY DEF LastReplace, LastIndex
<1>3. /\ replaced <=> r # 0
      /\ replaced' <=> r1 # 0
      /\ updated <=> \E i \in U : i > r
      /\ updated' <=> \E i \in U1 : i > r1
      /\ invalidated <=> \E i \in V : i > r
      /\ invalidated' <=> \E i \in V1 : i > r1
      /\ neuPage = log[r].neu /\ neuPage' = log'[r1].neu
      /\ oldPage = log[r].old /\ oldPage' = log'[r1].old
      /\ LastIndex({}) = 0
  BY <1>2 DEF replaced, updated, invalidated, neuPage, oldPage, LastIndex
<1>4. /\ n \in Nat /\ log'[n + 1] = e
      /\ \A i \in 1 .. n : log'[i] = log[i]
  BY LogGrows DEF Grows
<1> HIDE DEF R, U, V, R1, U1, V1, n
<1>5. r \in 0 .. n
  BY <1>1, <1>4, LastIndexIs
<1>6. CASE IsCheckpoint(e, "dataIO")
  <2>1. ~replaced'
    BY <1>1, <1>3, <1>6
  <2>2. e.op \notin {"replacePage", "update", "invalidateOldPages"}
    BY <1>6 DEF IsCheckpoint
  <2>3. QED
    BY <1>6, <2>1, <2>2
<1>7. CASE e.op = "replacePage"
  <2>1. ~IsCheckpoint(e, "dataIO")
    BY <1>7 DEF IsCheckpoint
  <2>2. r1 = n + 1 /\ U1 = U /\ V1 = V
    BY <1>1, <1>4, <1>7, <2>1, LastIndexGrows
  <2>3. replaced' /\ ~updated' /\ ~invalidated'
    BY <1>1, <1>3, <1>4, <2>2
  <2>4. neuPage' = e.neu /\ oldPage' = e.old
    BY <1>3, <1>4, <2>2
  <2>5. e.op # "update" /\ e.op # "invalidateOldPages"
    BY <1>7
  <2>6. QED
    BY <1>7, <2>1, <2>3, <2>4, <2>5
<1>8. CASE e.op \notin {"replacePage"} /\ ~IsCheckpoint(e, "dataIO")
  <2>1. r1 = r
    BY <1>1, <1>8
  <2>2. /\ U1 = IF e.op = "update" THEN U \union {n + 1} ELSE U
        /\ V1 = IF e.op = "invalidateOldPages" THEN V \union {n + 1} ELSE V
    BY <1>1, <1>8
  <2>3. (replaced' <=> replaced) /\ (replaced => neuPage' = neuPage /\ oldPage' = oldPage)
    BY <1>3, <1>4, <1>5, <2>1
  <2> HIDE DEF r, r1
  <2>4. /\ updated' <=> (updated \/ e.op = "update")
        /\ invalidated' <=> (invalidated \/ e.op = "invalidateOldPages")
    BY <1>1, <1>3, <1>4, <1>5, <2>1, <2>2
  <2>5. ~(e.op = "update" /\ e.op = "invalidateOldPages") /\ e.op # "replacePage"
    BY <1>8
  <2>6. (replaced /\ e.op = "update") =>
            /\ replaced' /\ updated' /\ (invalidated' <=> invalidated)
            /\ neuPage' = neuPage /\ oldPage' = oldPage
    BY <2>3, <2>4, <2>5
  <2>7. (replaced /\ e.op = "invalidateOldPages") =>
            /\ replaced' /\ (updated' <=> updated) /\ invalidated'
            /\ neuPage' = neuPage /\ oldPage' = oldPage
    BY <2>3, <2>4, <2>5
  <2>8. ~replaced => ~replaced'
    BY <2>3
  <2>9. (e.op # "update" /\ e.op # "invalidateOldPages") =>
            /\ (replaced' <=> replaced) /\ (updated' <=> updated)
            /\ (invalidated' <=> invalidated)
            /\ (replaced => neuPage' = neuPage /\ oldPage' = oldPage)
    BY <2>3, <2>4
  <2>10. QED
    BY <1>8, <2>5, <2>6, <2>7, <2>8, <2>9
<1>9. QED
  BY <1>6, <1>7, <1>8

-----------------------------------------------------------------------------
(* The page states a mount would find.                                     *)

PageOp == {"setStatus", "setStatusBlock"}

DropOp == {"commit", "remove"}

Drops(e, a) == e.op \in DropOp /\ e.area = a

Decides(e, a) == e.op \in PageOp /\ e.area = a

DecidesPage(e, a, p) == Decides(e, a) /\ (e.op = "setStatus" => e.page = p)

(* The entries that count for an area after one more. *)
LEMMA LiveGrows ==
    ASSUME NEW e, Grows(e), ~IsCheckpoint(e, "summaryCache"), index' = index, NEW a
    PROVE  /\ Live(a) \in SUBSET (1 .. Len(log))
           /\ \A i \in Live(a) : log[i].op \in PageOp /\ log[i].area = a
           /\ Live(a)' = IF Drops(e, a) THEN {}
                         ELSE IF Decides(e, a) THEN Live(a) \union {Len(log) + 1}
                         ELSE Live(a)
           /\ Kept(a)' <=> Kept(a) /\ ~Drops(e, a)
<1> DEFINE n == Len(log)
           D == {i \in DOMAIN log : log[i].op \in DropOp /\ log[i].area = a}
           D1 == {i \in DOMAIN log' : log'[i].op \in DropOp /\ log'[i].area = a}
           L == Unretired("summaryCache", PageOp)
           L1 == Unretired("summaryCache", PageOp)'
<1>1. /\ n \in Nat /\ Len(log') = n + 1 /\ DOMAIN log = 1 .. n /\ DOMAIN log' = 1 .. n + 1
      /\ \A i \in 1 .. n : log'[i] = log[i]
      /\ log'[n + 1] = e /\ IsProg(log)
  BY LogGrows DEF Grows
<1>2. L \in SUBSET (1 .. n) /\ L1 = IF e.op \in PageOp THEN L \union {n + 1} ELSE L
  <2>1. "checkpoint" \notin PageOp
    BY DEF PageOp
  <2>2. QED
    BY <2>1, UnretiredGrows DEF IsCheckpoint
<1>3. firstUncommitted(a) = LastIndex(D) /\ firstUncommitted(a)' = LastIndex(D1)
  BY DEF firstUncommitted, LastIndex, DropOp
<1>4. /\ Live(a) = {i \in L : log[i].area = a /\ i > LastIndex(D)}
      /\ Live(a)' = {i \in L1 : log'[i].area = a /\ i > LastIndex(D1)}
  BY <1>3 DEF Live, PageOp, LastIndex
<1>5. \A i \in L : log[i].op \in PageOp
  BY <1>1, UnretiredIn
<1>6. D \in SUBSET (1 .. n)
  BY <1>1
<1>7. LastIndex(D) \in 0 .. n
  BY <1>1, <1>6, LastIndexIs
<1>8. D1 = IF Drops(e, a) THEN D \union {n + 1} ELSE D
  BY <1>1 DEF Drops
<1>9. LastIndex(D1) = IF Drops(e, a) THEN n + 1 ELSE LastIndex(D)
  BY <1>1, <1>6, <1>8, LastIndexGrows
<1>10. /\ Kept(a) <=> (a \in DOMAIN index.sum /\ LastIndex(D) = 0)
       /\ Kept(a)' <=> (a \in DOMAIN index.sum /\ LastIndex(D1) = 0)
  BY <1>3 DEF Kept, LastIndex
<1> HIDE DEF n, D, D1, L, L1
<1>11. Kept(a)' <=> Kept(a) /\ ~Drops(e, a)
  BY <1>1, <1>9, <1>10
<1>12. Live(a) \in SUBSET (1 .. n) /\ \A i \in Live(a) : log[i].op \in PageOp /\ log[i].area = a
  BY <1>2, <1>4, <1>5
<1>13. \A i \in L : i \in 1 .. n
  BY <1>2
<1>14. CASE Drops(e, a)
  <2>1. L1 = L
    BY <1>2, <1>14 DEF Drops, DropOp, PageOp
  <2>2. \A i \in L : ~(i > n + 1)
    BY <1>1, <1>13
  <2>3. Live(a)' = {}
    BY <1>4, <1>9, <1>14, <2>1, <2>2
  <2>4. QED
    BY <1>11, <1>12, <1>14, <2>3 DEF n
<1>15. CASE ~Drops(e, a)
  <2>1. \A i \in L : log'[i] = log[i]
    BY <1>1, <1>13
  <2>2. n + 1 > LastIndex(D)
    BY <1>1, <1>7
  <2>3. CASE Decides(e, a)
    <3>1. L1 = L \union {n + 1}
      BY <1>2, <2>3 DEF Decides
    <3>2. Live(a)' = Live(a) \union {n + 1}
      BY <1>1, <1>4, <1>9, <1>15, <2>1, <2>2, <2>3, <3>1 DEF Decides
    <3>3. QED
      BY <1>11, <1>12, <1>15, <2>3, <3>2 DEF n
  <2>4. CASE ~Decides(e, a)
    <3>1. Live(a)' = Live(a)
      BY <1>1, <1>2, <1>4, <1>9, <1>15, <2>1, <2>4 DEF Decides
    <3>2. QED
      BY <1>11, <1>12, <1>15, <2>4, <3>1 DEF n
  <2>5. QED
    BY <2>3, <2>4
<1>16. QED
  BY <1>14, <1>15

(* The status of a page after one more entry. *)
LEMMA StatusGrows ==
    ASSUME NEW e, Grows(e), ~IsCheckpoint(e, "summaryCache"), index' = index, NEW a, NEW p
    PROVE  /\ Drops(e, a) => LogStatus(a, p)' = Base(a)'
           /\ DecidesPage(e, a, p) => LogStatus(a, p)' = EntryStatus(e, p)
           /\ ~Drops(e, a) /\ ~DecidesPage(e, a, p) =>
                \/ LogStatus(a, p)' = LogStatus(a, p)
                \/ LogStatus(a, p) = Base(a) /\ LogStatus(a, p)' = Base(a)'
<1> DEFINE n == Len(log)
           S == Sets(a, p)
           S1 == Sets(a, p)'
<1>1. /\ n \in Nat /\ log'[n + 1] = e
      /\ \A i \in 1 .. n : log'[i] = log[i]
  BY LogGrows
<1>2. /\ Live(a) \in SUBSET (1 .. n)
      /\ Live(a)' = IF Drops(e, a) THEN {}
                    ELSE IF Decides(e, a) THEN Live(a) \union {n + 1} ELSE Live(a)
      /\ Kept(a)' <=> Kept(a) /\ ~Drops(e, a)
  BY LiveGrows
<1>3. /\ S = {i \in Live(a) : log[i].op = "setStatus" => log[i].page = p}
      /\ S1 = {i \in Live(a)' : log'[i].op = "setStatus" => log'[i].page = p}
  BY DEF Sets
<1>4. /\ LogStatus(a, p) = IF LastIndex(S) # 0 THEN EntryStatus(log[LastIndex(S)], p)
                           ELSE IF Kept(a) THEN index.sum[a][p] ELSE Base(a)
      /\ LogStatus(a, p)' = IF LastIndex(S1) # 0 THEN EntryStatus(log'[LastIndex(S1)], p)
                            ELSE IF Kept(a)' THEN index.sum[a][p] ELSE Base(a)'
      /\ LastIndex({}) = 0
  BY DEF LogStatus, LastIndex, EntryStatus
<1> HIDE DEF n, S, S1
<1>5. S \in SUBSET (1 .. n)
  BY <1>2, <1>3
<1>6. LastIndex(S) \in 0 .. n
  BY <1>1, <1>5, LastIndexIs
<1>7. CASE Drops(e, a)
  <2>1. S1 = {}
    BY <1>2, <1>3, <1>7
  <2>2. ~DecidesPage(e, a, p)
    BY <1>7 DEF Drops, DropOp, DecidesPage, Decides, PageOp
  <2>3. LogStatus(a, p)' = Base(a)'
    BY <1>2, <1>4, <1>7, <2>1
  <2>4. QED
    BY <1>7, <2>2, <2>3
<1>8. CASE ~Drops(e, a)
  <2>0. \A i \in Live(a) : i \in 1 .. n
    BY <1>2
  <2>1. \A i \in Live(a) : log'[i] = log[i]
    BY <1>1, <2>0
  <2>2. CASE DecidesPage(e, a, p)
    <3>1. S1 = S \union {n + 1}
      BY <1>1, <1>2, <1>3, <1>8, <2>1, <2>2 DEF DecidesPage
    <3>2. LastIndex(S1) = n + 1
      BY <1>1, <1>5, <3>1, LastIndexGrows
    <3>3. LogStatus(a, p)' = EntryStatus(e, p)
      BY <1>1, <1>4, <3>2
    <3>4. QED
      BY <1>8, <2>2, <3>3
  <2>3. CASE ~DecidesPage(e, a, p)
    <3>1. S1 = S
      BY <1>1, <1>2, <1>3, <1>8, <2>1, <2>3 DEF DecidesPage
    <3>2. LastIndex(S) # 0 => log'[LastIndex(S)] = log[LastIndex(S)]
      BY <1>1, <1>6
    <3>3. \/ LogStatus(a, p)' = LogStatus(a, p)
          \/ LogStatus(a, p) = Base(a) /\ LogStatus(a, p)' = Base(a)'
      BY <1>2, <1>4, <1>8, <3>1, <3>2
    <3>4. QED
      BY <1>8, <2>3, <3>3
  <2>4. QED
    BY <2>2, <2>3
<1>9. QED
  BY <1>7, <1>8

(* Whether a mount finds an entry about an area. *)
LEMMA InLogGrows ==
    ASSUME NEW e, Grows(e), ~IsCheckpoint(e, "summaryCache"), index' = index, NEW a
    PROVE  InLog(a)' <=> (~Drops(e, a) /\ (InLog(a) \/ Decides(e, a)))
<1>1. /\ Live(a)' = IF Drops(e, a) THEN {}
                    ELSE IF Decides(e, a) THEN Live(a) \union {Len(log) + 1} ELSE Live(a)
      /\ Kept(a)' <=> Kept(a) /\ ~Drops(e, a)
  BY LiveGrows
<1>2. ~(Drops(e, a) /\ Decides(e, a))
  BY DEF Drops, DropOp, Decides, PageOp
<1>3. /\ InLog(a) <=> Live(a) # {} \/ Kept(a)
      /\ InLog(a)' <=> Live(a)' # {} \/ Kept(a)'
  BY DEF InLog
<1>4. QED
  BY <1>1, <1>2, <1>3

(* The journal as it was: only what a missing summary stands for may change. *)
LEMMA StatusStays ==
    ASSUME log' = log, index' = index, NEW a
    PROVE  /\ InLog(a)' <=> InLog(a)
           /\ \A p : \/ LogStatus(a, p)' = LogStatus(a, p)
                     \/ LogStatus(a, p) = Base(a) /\ LogStatus(a, p)' = Base(a)'
<1>1. Live(a)' = Live(a)
  BY DEF Live, Unretired, LastCheckpoint, LastIndex, firstUncommitted
<1>2. Kept(a)' <=> Kept(a)
  BY DEF Kept, firstUncommitted, LastIndex
<1>3. ASSUME NEW p
      PROVE  \/ LogStatus(a, p)' = LogStatus(a, p)
             \/ LogStatus(a, p) = Base(a) /\ LogStatus(a, p)' = Base(a)'
  <2>1. Sets(a, p)' = Sets(a, p)
    BY <1>1 DEF Sets
  <2>2. /\ LogStatus(a, p) = IF LastIndex(Sets(a, p)) # 0
                             THEN EntryStatus(log[LastIndex(Sets(a, p))], p)
                             ELSE IF Kept(a) THEN index.sum[a][p] ELSE Base(a)
        /\ LogStatus(a, p)' = IF LastIndex(Sets(a, p)') # 0
                              THEN EntryStatus(log[LastIndex(Sets(a, p)')], p)
                              ELSE IF Kept(a)' THEN index.sum[a][p] ELSE Base(a)'
    BY DEF LogStatus, LastIndex, EntryStatus
  <2>3. QED
    BY <1>2, <2>1, <2>2
<1>4. QED
  BY <1>1, <1>2, <1>3 DEF InLog

(* The journal as it was: every topic finds what it found before. *)
LEMMA ViewStays ==
    ASSUME log' = log
    PROVE  /\ lastOp' = lastOp /\ ext' = ext /\ (NoOp' <=> NoOp)
           /\ mv' = mv /\ target' = target
           /\ (replaced' <=> replaced) /\ (updated' <=> updated) /\ (invalidated' <=> invalidated)
           /\ neuPage' = neuPage /\ oldPage' = oldPage
           /\ TxState' = TxState
<1> USE DEF Unretired, LastCheckpoint, LastIndex
<1>1. lastOp' = lastOp /\ (NoOp' <=> NoOp)
  BY DEF lastOp, LastOperation, NoOp, InvalidateOldPages
<1>2. ext' = ext
  BY DEF ext, mLastExternOp
<1>3. mv' = mv /\ target' = target
  BY DEF mv, MoveProgress, LastMove, target
<1>4. /\ (replaced' <=> replaced) /\ (updated' <=> updated) /\ (invalidated' <=> invalidated)
      /\ neuPage' = neuPage /\ oldPage' = oldPage
  BY DEF replaced, updated, invalidated, LastReplace, neuPage, oldPage
<1>5. TxState' = TxState
  BY DEF TxState, LastReplace
<1>6. QED
  BY <1>1, <1>2, <1>3, <1>4, <1>5

-----------------------------------------------------------------------------
(* What a mount recovers of the map and of the tree.                       *)

MapAfter(m0, l) ==
    LET After[i \in 0 .. Len(l)] == IF i = 0 THEN m0 ELSE Applied(After[i - 1], l[i])
    IN  After[Len(l)]

AddrStep(ad, e) == IF e.op = "update" THEN [ad EXCEPT ![e.file] = e.neu] ELSE ad

AddrAfter(ad0, l) ==
    LET After[i \in 0 .. Len(l)] ==
            IF i = 0 THEN ad0
            ELSE IF l[i].op = "update" THEN [After[i - 1] EXCEPT ![l[i].file] = l[i].neu]
            ELSE After[i - 1]
    IN  After[Len(l)]

MapRec(f, m0, l, k) ==
    f = [i \in 0 .. k |-> IF i = 0 THEN m0 ELSE Applied(f[i - 1], l[i])]

(* The fold of a log over an area map exists. *)
LEMMA MapRecExists ==
    ASSUME NEW m0, NEW l, NEW n \in Nat
    PROVE  \E f : MapRec(f, m0, l, n)
<1> DEFINE P == {k \in 0 .. n : \E f : MapRec(f, m0, l, k)}
<1>1. 0 \in P
  <2>1. MapRec([i \in 0 .. 0 |-> m0], m0, l, 0)
    BY DEF MapRec
  <2>2. QED
    BY <2>1
<1>2. ASSUME NEW k \in 0 .. n - 1, k \in P
      PROVE  k + 1 \in P
  <2>1. PICK f : MapRec(f, m0, l, k)
    BY <1>2
  <2>2. /\ DOMAIN f = 0 .. k
        /\ \A i \in 0 .. k : f[i] = IF i = 0 THEN m0 ELSE Applied(f[i - 1], l[i])
    BY <2>1 DEF MapRec
  <2> DEFINE g == [i \in 0 .. k + 1 |-> IF i = k + 1 THEN Applied(f[k], l[k + 1]) ELSE f[i]]
  <2>3. \A i \in 0 .. k : g[i] = f[i]
    OBVIOUS
  <2>4. ASSUME NEW i \in 0 .. k + 1
        PROVE  g[i] = IF i = 0 THEN m0 ELSE Applied(g[i - 1], l[i])
    <3>1. CASE i = k + 1
      <4>1. g[i] = Applied(f[k], l[i]) /\ i - 1 = k /\ i # 0
        BY <3>1
      <4>2. g[k] = f[k]
        BY <2>3
      <4>3. QED
        BY <4>1, <4>2
    <3>2. CASE i # k + 1
      <4>1. i \in 0 .. k /\ g[i] = f[i]
        BY <3>2
      <4>2. i # 0 => i - 1 \in 0 .. k
        BY <4>1
      <4>3. i # 0 => g[i - 1] = f[i - 1]
        BY <2>3, <4>2
      <4>4. QED
        BY <2>2, <4>1, <4>3
    <3>3. QED
      BY <3>1, <3>2
  <2>5. g = [i \in 0 .. k + 1 |-> g[i]]
    OBVIOUS
  <2> HIDE DEF g
  <2>6. MapRec(g, m0, l, k + 1)
    BY <2>4, <2>5 DEF MapRec
  <2>7. k + 1 \in 0 .. n
    OBVIOUS
  <2>8. QED
    BY <2>6, <2>7
<1> HIDE DEF P
<1>3. 0 .. n \subseteq P
  BY <1>1, <1>2, IntervalInduction
<1>4. n \in P
  BY <1>3
<1>5. QED
  BY <1>4 DEF P

(* The map after an empty log, and after one more entry. *)
LEMMA MapAfterGrows ==
    ASSUME NEW m0, NEW l, IsProg(l), NEW e
    PROVE  MapAfter(m0, <<>>) = m0 /\ MapAfter(m0, Append(l, e)) = Applied(MapAfter(m0, l), e)
<1>1. ASSUME NEW s, Len(s) \in Nat
      PROVE  \E f : MapRec(f, m0, s, Len(s)) /\ MapAfter(m0, s) = f[Len(s)]
  <2> DEFINE f == CHOOSE f : MapRec(f, m0, s, Len(s))
  <2>1. MapRec(f, m0, s, Len(s))
    BY <1>1, MapRecExists
  <2>2. MapAfter(m0, s) = f[Len(s)]
    BY DEF MapAfter, MapRec
  <2>3. QED
    BY <2>1, <2>2
<1>2. MapAfter(m0, <<>>) = m0
  <2>1. Len(<<>>) = 0
    OBVIOUS
  <2>2. PICK f : MapRec(f, m0, <<>>, 0) /\ MapAfter(m0, <<>>) = f[0]
    BY <1>1, <2>1
  <2>3. QED
    BY <2>2 DEF MapRec
<1> DEFINE s == Append(l, e)
           n == Len(l)
<1>3. n \in Nat /\ Len(s) = n + 1 /\ s[n + 1] = e /\ \A i \in 1 .. n : s[i] = l[i]
  <2>1. PICK S : l \in Seq(S)
    BY DEF IsProg
  <2>2. l \in Seq(S \union {e}) /\ e \in S \union {e}
    BY <2>1, SeqMonotonic
  <2>3. QED
    BY <2>2, AppendProperties
<1> HIDE DEF s, n
<1>4. PICK f : MapRec(f, m0, l, n) /\ MapAfter(m0, l) = f[n]
  BY <1>1, <1>3 DEF n
<1>5. PICK g : MapRec(g, m0, s, n + 1) /\ MapAfter(m0, s) = g[n + 1]
  <2>1. Len(s) \in Nat
    BY <1>3
  <2>2. QED
    BY <1>1, <1>3, <2>1
<1>6. /\ f[0] = m0 /\ \A i \in 1 .. n : f[i] = Applied(f[i - 1], l[i])
      /\ g[0] = m0 /\ \A i \in 1 .. n + 1 : g[i] = Applied(g[i - 1], s[i])
  BY <1>3, <1>4, <1>5 DEF MapRec
<1>7. Agree(n, f, g)
  BY <1>3, <1>6 DEF Agree
<1>8. f[n] = g[n]
  BY <1>3, <1>7, RecursionAgrees
<1>9. g[n + 1] = Applied(g[n], e)
  BY <1>3, <1>6
<1>10. QED
  BY <1>2, <1>4, <1>5, <1>8, <1>9 DEF s

AddrRec(f, ad0, l, k) ==
    f = [i \in 0 .. k |-> IF i = 0 THEN ad0 ELSE AddrStep(f[i - 1], l[i])]

(* The fold of a log over the file addresses exists. *)
LEMMA AddrRecExists ==
    ASSUME NEW ad0, NEW l, NEW n \in Nat
    PROVE  \E f : AddrRec(f, ad0, l, n)
<1> DEFINE P == {k \in 0 .. n : \E f : AddrRec(f, ad0, l, k)}
<1>1. 0 \in P
  <2>1. AddrRec([i \in 0 .. 0 |-> ad0], ad0, l, 0)
    BY DEF AddrRec
  <2>2. QED
    BY <2>1
<1>2. ASSUME NEW k \in 0 .. n - 1, k \in P
      PROVE  k + 1 \in P
  <2>1. PICK f : AddrRec(f, ad0, l, k)
    BY <1>2
  <2>2. /\ DOMAIN f = 0 .. k
        /\ \A i \in 0 .. k : f[i] = IF i = 0 THEN ad0 ELSE AddrStep(f[i - 1], l[i])
    BY <2>1 DEF AddrRec
  <2> DEFINE g == [i \in 0 .. k + 1 |-> IF i = k + 1 THEN AddrStep(f[k], l[k + 1]) ELSE f[i]]
  <2>3. \A i \in 0 .. k : g[i] = f[i]
    OBVIOUS
  <2>4. ASSUME NEW i \in 0 .. k + 1
        PROVE  g[i] = IF i = 0 THEN ad0 ELSE AddrStep(g[i - 1], l[i])
    <3>1. CASE i = k + 1
      <4>1. g[i] = AddrStep(f[k], l[i]) /\ i - 1 = k /\ i # 0
        BY <3>1
      <4>2. g[k] = f[k]
        BY <2>3
      <4>3. QED
        BY <4>1, <4>2
    <3>2. CASE i # k + 1
      <4>1. i \in 0 .. k /\ g[i] = f[i]
        BY <3>2
      <4>2. i # 0 => i - 1 \in 0 .. k
        BY <4>1
      <4>3. i # 0 => g[i - 1] = f[i - 1]
        BY <2>3, <4>2
      <4>4. QED
        BY <2>2, <4>1, <4>3
    <3>3. QED
      BY <3>1, <3>2
  <2>5. g = [i \in 0 .. k + 1 |-> g[i]]
    OBVIOUS
  <2> HIDE DEF g
  <2>6. AddrRec(g, ad0, l, k + 1)
    BY <2>4, <2>5 DEF AddrRec
  <2>7. k + 1 \in 0 .. n
    OBVIOUS
  <2>8. QED
    BY <2>6, <2>7
<1> HIDE DEF P
<1>3. 0 .. n \subseteq P
  BY <1>1, <1>2, IntervalInduction
<1>4. n \in P
  BY <1>3
<1>5. QED
  BY <1>4 DEF P

(* The tree's addresses after an empty log, and after one more entry. *)
LEMMA AddrAfterGrows ==
    ASSUME NEW ad0, NEW l, IsProg(l), NEW e
    PROVE  AddrAfter(ad0, <<>>) = ad0 /\ AddrAfter(ad0, Append(l, e)) = AddrStep(AddrAfter(ad0, l), e)
<1>1. ASSUME NEW s, Len(s) \in Nat
      PROVE  \E f : AddrRec(f, ad0, s, Len(s)) /\ AddrAfter(ad0, s) = f[Len(s)]
  <2> DEFINE f == CHOOSE f : AddrRec(f, ad0, s, Len(s))
  <2>1. AddrRec(f, ad0, s, Len(s))
    BY <1>1, AddrRecExists
  <2>2. AddrAfter(ad0, s) = f[Len(s)]
    BY DEF AddrAfter, AddrRec, AddrStep
  <2>3. QED
    BY <2>1, <2>2
<1>2. AddrAfter(ad0, <<>>) = ad0
  <2>1. Len(<<>>) = 0
    OBVIOUS
  <2>2. PICK f : AddrRec(f, ad0, <<>>, 0) /\ AddrAfter(ad0, <<>>) = f[0]
    BY <1>1, <2>1
  <2>3. QED
    BY <2>2 DEF AddrRec
<1> DEFINE s == Append(l, e)
           n == Len(l)
<1>3. n \in Nat /\ Len(s) = n + 1 /\ s[n + 1] = e /\ \A i \in 1 .. n : s[i] = l[i]
  <2>1. PICK S : l \in Seq(S)
    BY DEF IsProg
  <2>2. l \in Seq(S \union {e}) /\ e \in S \union {e}
    BY <2>1, SeqMonotonic
  <2>3. QED
    BY <2>2, AppendProperties
<1> HIDE DEF s, n
<1>4. PICK f : AddrRec(f, ad0, l, n) /\ AddrAfter(ad0, l) = f[n]
  BY <1>1, <1>3 DEF n
<1>5. PICK g : AddrRec(g, ad0, s, n + 1) /\ AddrAfter(ad0, s) = g[n + 1]
  <2>1. Len(s) \in Nat
    BY <1>3
  <2>2. QED
    BY <1>1, <1>3, <2>1
<1>6. /\ f[0] = ad0 /\ \A i \in 1 .. n : f[i] = AddrStep(f[i - 1], l[i])
      /\ g[0] = ad0 /\ \A i \in 1 .. n + 1 : g[i] = AddrStep(g[i - 1], s[i])
  BY <1>3, <1>4, <1>5 DEF AddrRec
<1>7. Agree(n, f, g)
  BY <1>3, <1>6 DEF Agree
<1>8. f[n] = g[n]
  BY <1>3, <1>7, RecursionAgrees
<1>9. g[n + 1] = AddrStep(g[n], e)
  BY <1>3, <1>6
<1>10. QED
  BY <1>2, <1>4, <1>5, <1>8, <1>9 DEF s

(* A mount recovers what is in RAM as long as every change is logged. *)
LEMMA RecoveredGrows ==
    ASSUME NEW e, Grows(e), Recovered, index' = index,
           map' = Applied(map, e), addr' = AddrStep(addr, e)
    PROVE  Recovered'
<1>1. MapFromLog = MapAfter(index.map, log) /\ AddrFromLog = AddrAfter(index.addr, log)
  BY DEF MapFromLog, MapAfter, AddrFromLog, AddrAfter
<1>2. MapFromLog' = MapAfter(index'.map, log') /\ AddrFromLog' = AddrAfter(index'.addr, log')
  BY DEF MapFromLog, MapAfter, AddrFromLog, AddrAfter, Applied
<1>3. IsProg(log) /\ log' = Append(log, e)
  BY DEF Grows
<1>4. MapFromLog' = Applied(MapFromLog, e)
  BY <1>1, <1>2, <1>3, MapAfterGrows
<1>5. AddrFromLog' = AddrStep(AddrFromLog, e)
  BY <1>1, <1>2, <1>3, AddrAfterGrows
<1>6. QED
  BY <1>4, <1>5 DEF Recovered

(* The replay still yields the map and the addresses if none of its inputs
   changed. *)
LEMMA RecoveredStays ==
    ASSUME Recovered, index' = index, log' = log, map' = map, addr' = addr
    PROVE  Recovered'
BY DEF Recovered, MapFromLog, AddrFromLog, Applied

(* With an empty log the replay yields what the superindex saved. *)
LEMMA RecoveredCleared ==
    ASSUME log = <<>>, index.map = map, index.addr = addr
    PROVE  Recovered
<1>1. MapFromLog = MapAfter(index.map, <<>>) /\ AddrFromLog = AddrAfter(index.addr, <<>>)
  BY DEF MapFromLog, MapAfter, AddrFromLog, AddrAfter
<1>2. IsProg(<<>>)
  BY ProgFacts
<1>3. QED
  BY <1>1, <1>2, MapAfterGrows, AddrAfterGrows DEF Recovered

-----------------------------------------------------------------------------
(* What a mount recovers of the page states.                               *)

(* The status of page p of area a behind the first n entries. *)
StatusUpto(a, p, n) ==
    LET i == LastIndex({k \in Sets(a, p) : k <= n}) IN
    IF i # 0 THEN EntryStatus(log[i], p)
    ELSE IF Kept(a) THEN index.sum[a][p] ELSE Base(a)

SumStart == [a \in {a \in DOMAIN index.sum : firstUncommitted(a) = 0} |-> index.sum[a]]

SumLive == {i \in Unretired("summaryCache", SummaryOp) : i > firstUncommitted(log[i].area)}

SumRec(f, k) ==
    f = [i \in 0 .. k |->
            IF i = 0 THEN SumStart
            ELSE IF i \in SumLive THEN SummaryApplied(MapFromLog, f[i - 1], log[i])
            ELSE f[i - 1]]

(* The recursion that applies the entries of topic summaryCache is defined. *)
LEMMA SumRecExists ==
    ASSUME NEW n \in Nat
    PROVE  \E f : SumRec(f, n)
<1> DEFINE Nx(x, i) == IF i \in SumLive THEN SummaryApplied(MapFromLog, x, log[i]) ELSE x
           P == {k \in 0 .. n : \E f : SumRec(f, k)}
<1>0. \A f, k : SumRec(f, k) <=> f = [i \in 0 .. k |-> IF i = 0 THEN SumStart ELSE Nx(f[i - 1], i)]
  BY DEF SumRec
<1> HIDE DEF Nx
<1>1. 0 \in P
  <2> DEFINE g == [i \in 0 .. 0 |-> SumStart]
  <2>1. g = [i \in 0 .. 0 |-> IF i = 0 THEN SumStart ELSE Nx(g[i - 1], i)]
    OBVIOUS
  <2> HIDE DEF g
  <2>2. SumRec(g, 0)
    BY <1>0, <2>1
  <2>3. QED
    BY <2>2
<1>2. ASSUME NEW k \in 0 .. n - 1, k \in P
      PROVE  k + 1 \in P
  <2>1. PICK f : SumRec(f, k)
    BY <1>2
  <2>2. /\ DOMAIN f = 0 .. k
        /\ \A i \in 0 .. k : f[i] = IF i = 0 THEN SumStart ELSE Nx(f[i - 1], i)
    <3>1. f = [i \in 0 .. k |-> IF i = 0 THEN SumStart ELSE Nx(f[i - 1], i)]
      BY <1>0, <2>1
    <3>2. QED
      BY <3>1
  <2> DEFINE g == [i \in 0 .. k + 1 |-> IF i = k + 1 THEN Nx(f[k], k + 1) ELSE f[i]]
  <2>3. \A i \in 0 .. k : g[i] = f[i]
    OBVIOUS
  <2>4. ASSUME NEW i \in 0 .. k + 1
        PROVE  g[i] = IF i = 0 THEN SumStart ELSE Nx(g[i - 1], i)
    <3>1. CASE i = k + 1
      <4>1. g[i] = Nx(f[k], i) /\ i - 1 = k /\ i # 0
        BY <3>1
      <4>2. g[k] = f[k]
        BY <2>3
      <4>3. QED
        BY <4>1, <4>2
    <3>2. CASE i # k + 1
      <4>1. i \in 0 .. k /\ g[i] = f[i]
        BY <3>2
      <4>2. i # 0 => i - 1 \in 0 .. k
        BY <4>1
      <4>3. i # 0 => g[i - 1] = f[i - 1]
        BY <2>3, <4>2
      <4>4. QED
        BY <2>2, <4>1, <4>3
    <3>3. QED
      BY <3>1, <3>2
  <2>5. g = [i \in 0 .. k + 1 |-> g[i]]
    OBVIOUS
  <2> HIDE DEF g
  <2>6. g = [i \in 0 .. k + 1 |-> IF i = 0 THEN SumStart ELSE Nx(g[i - 1], i)]
    BY <2>4, <2>5
  <2>7. SumRec(g, k + 1)
    BY <1>0, <2>6
  <2>8. k + 1 \in 0 .. n
    OBVIOUS
  <2>9. QED
    BY <2>7, <2>8
<1> HIDE DEF P
<1>3. 0 .. n \subseteq P
  BY <1>1, <1>2, IntervalInduction
<1>4. n \in P
  BY <1>3
<1>5. QED
  BY <1>4 DEF P

(* One more entry behind the first n. *)
LEMMA UptoGrows ==
    ASSUME IsProg(log), NEW a, NEW p, NEW n \in 0 .. Len(log) - 1
    PROVE  /\ StatusUpto(a, p, 0) = IF Kept(a) THEN index.sum[a][p] ELSE Base(a)
           /\ StatusUpto(a, p, n + 1) = IF n + 1 \in Sets(a, p) THEN EntryStatus(log[n + 1], p)
                                        ELSE StatusUpto(a, p, n)
           /\ StatusUpto(a, p, Len(log)) = LogStatus(a, p)
<1> DEFINE S == Sets(a, p)
           N == Len(log)
           Upto(k) == {i \in S : i <= k}
<1>1. N \in Nat /\ S \in SUBSET (1 .. N)
  <2>1. Live(a) \in SUBSET (1 .. N) /\ N \in Nat
    BY UnretiredIn DEF Live
  <2>2. QED
    BY <2>1 DEF Sets
<1>2. \A k : StatusUpto(a, p, k) = IF LastIndex(Upto(k)) # 0 THEN EntryStatus(log[LastIndex(Upto(k))], p)
                                   ELSE IF Kept(a) THEN index.sum[a][p] ELSE Base(a)
  BY DEF StatusUpto
<1>3. LogStatus(a, p) = IF LastIndex(S) # 0 THEN EntryStatus(log[LastIndex(S)], p)
                        ELSE IF Kept(a) THEN index.sum[a][p] ELSE Base(a)
  BY DEF LogStatus
<1> HIDE DEF S, N
<1>4. n \in 0 .. N - 1
  BY DEF N
<1>5. \A i \in S : i \in Nat /\ 1 <= i /\ i <= N
  BY <1>1
<1>6. Upto(0) = {} /\ LastIndex({}) = 0
  <2>1. \A i \in S : ~ (i <= 0)
    BY <1>5
  <2>2. QED
    BY <2>1 DEF LastIndex
<1>7. Upto(N) = S
  <2>1. \A i \in S : i <= N
    BY <1>5
  <2>2. QED
    BY <2>1
<1>a. StatusUpto(a, p, 0) = IF Kept(a) THEN index.sum[a][p] ELSE Base(a)
  BY <1>2, <1>6
<1>b. StatusUpto(a, p, N) = LogStatus(a, p)
  BY <1>2, <1>3, <1>7
<1>8. CASE n + 1 \in S
  <2>0. n \in Nat /\ \A i \in S : i <= n + 1 <=> i <= n \/ i = n + 1
    BY <1>1, <1>4, <1>5
  <2>1. Upto(n + 1) = Upto(n) \union {n + 1}
    BY <1>8, <2>0
  <2>2. Upto(n) \in SUBSET (1 .. n)
    <3>1. \A i \in S : i <= n => i \in 1 .. n
      BY <2>0, <1>5
    <3>2. QED
      BY <3>1
  <2> HIDE DEF Upto
  <2>3. LastIndex(Upto(n + 1)) = n + 1
    BY <2>0, <2>1, <2>2, LastIndexGrows
  <2>4. n + 1 # 0
    BY <2>0
  <2>5. StatusUpto(a, p, n + 1) = EntryStatus(log[n + 1], p)
    BY <1>2, <2>3, <2>4
  <2>6. QED
    BY <1>a, <1>b, <1>8, <2>5 DEF S, N
<1>9. CASE n + 1 \notin S
  <2>0. \A i \in S : i <= n + 1 <=> i <= n
    <3>1. n \in Nat /\ \A i \in S : i # n + 1
      BY <1>1, <1>4, <1>9
    <3>2. QED
      BY <3>1, <1>5
  <2>1. Upto(n + 1) = Upto(n)
    BY <2>0
  <2> HIDE DEF Upto
  <2>2. StatusUpto(a, p, n + 1) = StatusUpto(a, p, n)
    BY <1>2, <2>1
  <2>3. QED
    BY <1>a, <1>b, <1>9, <2>2 DEF S, N
<1>10. QED
  BY <1>8, <1>9

(* Every area about which the journal says something has a type. *)
Typed == \A a : InLog(a) => a \in Area /\ map.type[a] # "unset"

(* What the summaries s are behind the first n entries. *)
SumUpto(s, n) ==
    /\ \A a : a \in DOMAIN s <=> (Kept(a) \/ \E i \in Live(a) : i <= n)
    /\ \A a \in DOMAIN s : s[a] \in [Page -> SummaryEntry]
    /\ \A a \in Area, p \in Page : SummaryOf(map, s, a)[p] = StatusUpto(a, p, n)

(* What is read of an area once another summary is cached. *)
LEMMA SummaryOfWith ==
    ASSUME NEW m, NEW s, NEW a, NEW new, NEW b
    PROVE  SummaryOf(m, WithSummary(s, a, new), b) = IF b = a THEN new ELSE SummaryOf(m, s, b)
BY DEF SummaryOf, WithSummary

(* Their summaries. *)
LEMMA WithValue ==
    ASSUME NEW s, NEW a, NEW new, NEW c \in DOMAIN s \union {a}
    PROVE  WithSummary(s, a, new)[c] = IF c = a THEN new ELSE s[c]
BY DEF WithSummary

(* What is read of an area is a summary. *)
LEMMA SummaryOfType ==
    ASSUME NEW m, NEW s, NEW a, a \in DOMAIN s => s[a] \in [Page -> SummaryEntry]
    PROVE  /\ SummaryOf(m, s, a) \in [Page -> SummaryEntry]
           /\ a \in DOMAIN s => SummaryOf(m, s, a) = s[a]
           /\ a \notin DOMAIN s => \A p \in Page :
                SummaryOf(m, s, a)[p] = IF m.pos[a] \in asWritten THEN "dirty" ELSE "free"
BY DEF SummaryOf, All, SummaryEntry

(* The entries the summary cache applies, and those that count for a page. *)
LEMMA LiveIn ==
    ASSUME IsProg(log), NEW i
    PROVE  /\ \A a : i \in Live(a) <=> i \in SumLive /\ log[i].op \in PageOp /\ log[i].area = a
           /\ i \in SumLive => log[i].op \in PageOp \union {"reset"} /\ i \in DOMAIN log
<1> DEFINE D(a) == {j \in DOMAIN log : log[j].op \in DropOp /\ log[j].area = a}
<1>1. PageOp \subseteq SummaryOp /\ SummaryOp = PageOp \union DropOp \union {"reset"}
  BY DEF PageOp, SummaryOp, DropOp
<1>2. \A a : firstUncommitted(a) = LastIndex(D(a))
  BY DEF firstUncommitted, DropOp
<1>3. \A a : i \in Live(a) <=> i \in SumLive /\ log[i].op \in PageOp /\ log[i].area = a
  BY <1>1 DEF Live, SumLive, Unretired, PageOp
<1>4. ASSUME i \in SumLive PROVE log[i].op \in PageOp \union {"reset"} /\ i \in DOMAIN log
  <2>1. i \in DOMAIN log /\ log[i].op \in SummaryOp /\ i > LastIndex(D(log[i].area))
    BY <1>2, <1>4 DEF SumLive, Unretired
  <2>2. log[i].op \notin DropOp
    <3>1. SUFFICES ASSUME log[i].op \in DropOp PROVE FALSE
      OBVIOUS
    <3>2. i \in D(log[i].area)
      BY <2>1, <3>1
    <3>3. D(log[i].area) \in SUBSET (1 .. Len(log)) /\ Len(log) \in Nat
      BY LogIndices
    <3> DEFINE S == D(log[i].area)
    <3> HIDE DEF D
    <3>4. i <= LastIndex(S)
      BY <3>2, <3>3, LastIndexIs
    <3>5. LastIndex(S) \in 0 .. Len(log) /\ i \in Nat
      <4>1. LastIndex(S) \in 0 .. Len(log)
        BY <3>3, LastIndexIs
      <4>2. i \in 1 .. Len(log)
        BY <2>1, LogIndices
      <4>3. QED
        BY <4>1, <4>2
    <3>6. QED
      BY <2>1, <3>3, <3>4, <3>5
  <2>3. QED
    BY <1>1, <2>1, <2>2
<1>5. QED
  BY <1>3, <1>4

(* One step of the recursion. *)
LEMMA SumUptoGrows ==
    ASSUME IsProg(log), LogOK, Typed, NEW s, NEW n \in 0 .. Len(log) - 1, SumUpto(s, n),
           NEW t, t = IF n + 1 \in SumLive THEN SummaryApplied(map, s, log[n + 1]) ELSE s
    PROVE  SumUpto(t, n + 1)
<1> DEFINE i == n + 1
           e == log[i]
<1>1. Len(log) \in Nat /\ i \in DOMAIN log
  BY LogIndices
<1>2. \A a : \A j \in Live(a) : j \in Nat
  BY UnretiredIn DEF Live
<1>3. \A a : (\E j \in Live(a) : j <= i) <=> (i \in Live(a) \/ \E j \in Live(a) : j <= n)
  BY <1>1, <1>2
<1>4. \A a, p : StatusUpto(a, p, i) = IF i \in Sets(a, p) THEN EntryStatus(e, p)
                                      ELSE StatusUpto(a, p, n)
  BY UptoGrows
<1>5. \A a, p : i \in Sets(a, p) <=> i \in Live(a) /\ (e.op = "setStatus" => e.page = p)
  BY DEF Sets
<1>6. \A a : i \in Live(a) <=> i \in SumLive /\ e.op \in PageOp /\ e.area = a
  BY LiveIn
<1>7. i \in SumLive => e.op \in PageOp \union {"reset"}
  BY LiveIn
<1>8. /\ e.op = "setStatus" =>
            e.area \in Area /\ e.page \in Page /\ e.entry \in SummaryEntry
      /\ e.op = "setStatusBlock" =>
            e.area \in Area /\ e.summary \in [Page -> SummaryEntry]
  BY <1>1 DEF LogOK
<1>9. i \in SumLive /\ e.op \in PageOp => map.type[e.area] # "unset"
  BY <1>6 DEF Typed, InLog
<1>10. /\ \A a : a \in DOMAIN s <=> (Kept(a) \/ \E j \in Live(a) : j <= n)
       /\ \A a \in DOMAIN s : s[a] \in [Page -> SummaryEntry]
       /\ \A a \in Area, p \in Page : SummaryOf(map, s, a)[p] = StatusUpto(a, p, n)
  BY DEF SumUpto
<1> HIDE DEF i, e
<1>11. t = IF i \in SumLive THEN SummaryApplied(map, s, e) ELSE s
  BY DEF i, e
<1>12. CASE i \in SumLive /\ e.op = "setStatus"
  <2> DEFINE new == [SummaryOf(map, s, e.area) EXCEPT ![e.page] = e.entry]
  <2>1. t = WithSummary(s, e.area, new)
    BY <1>9, <1>11, <1>12 DEF SummaryApplied, PageOp
  <2>2. SummaryOf(map, s, e.area) \in [Page -> SummaryEntry]
    BY <1>10, SummaryOfType
  <2>3. new \in [Page -> SummaryEntry]
        /\ \A p \in Page : new[p] = IF p = e.page THEN e.entry ELSE SummaryOf(map, s, e.area)[p]
    BY <1>8, <1>12, <2>2
  <2> HIDE DEF new
  <2>4. \A b : SummaryOf(map, t, b) = IF b = e.area THEN new ELSE SummaryOf(map, s, b)
    BY <2>1, SummaryOfWith
  <2>d. DOMAIN t = DOMAIN s \union {e.area}
    BY <2>1 DEF WithSummary
  <2>e. ASSUME NEW c \in DOMAIN t PROVE t[c] = IF c = e.area THEN new ELSE s[c]
    BY <2>1, <2>d, WithValue
  <2>5. DOMAIN t = DOMAIN s \union {e.area}
        /\ \A c \in DOMAIN t : t[c] = IF c = e.area THEN new ELSE s[c]
    BY <2>d, <2>e
  <2>6. \A a : i \in Live(a) <=> a = e.area
    BY <1>6, <1>12 DEF PageOp
  <2>7. \A a : a \in DOMAIN t <=> (Kept(a) \/ \E j \in Live(a) : j <= i)
    BY <1>3, <1>10, <2>5, <2>6
  <2>8. \A a \in DOMAIN t : t[a] \in [Page -> SummaryEntry]
    BY <1>10, <2>3, <2>5
  <2>9. \A p : EntryStatus(e, p) = e.entry
    BY <1>12 DEF EntryStatus
  <2>10. \A a \in Area, p \in Page : SummaryOf(map, t, a)[p] = StatusUpto(a, p, i)
    BY <1>4, <1>5, <1>8, <1>10, <1>12, <2>3, <2>4, <2>6, <2>9
  <2>11. QED
    BY <2>7, <2>8, <2>10 DEF SumUpto, i
<1>13. CASE i \in SumLive /\ e.op = "setStatusBlock"
  <2>1. t = WithSummary(s, e.area, e.summary)
    BY <1>11, <1>13 DEF SummaryApplied
  <2>4. \A b : SummaryOf(map, t, b) = IF b = e.area THEN e.summary ELSE SummaryOf(map, s, b)
    BY <2>1, SummaryOfWith
  <2>d. DOMAIN t = DOMAIN s \union {e.area}
    BY <2>1 DEF WithSummary
  <2>e. ASSUME NEW c \in DOMAIN t PROVE t[c] = IF c = e.area THEN e.summary ELSE s[c]
    BY <2>1, <2>d, WithValue
  <2>5. DOMAIN t = DOMAIN s \union {e.area}
        /\ \A c \in DOMAIN t : t[c] = IF c = e.area THEN e.summary ELSE s[c]
    BY <2>d, <2>e
  <2>6. \A a : i \in Live(a) <=> a = e.area
    BY <1>6, <1>13 DEF PageOp
  <2>7. \A a : a \in DOMAIN t <=> (Kept(a) \/ \E j \in Live(a) : j <= i)
    BY <1>3, <1>10, <2>5, <2>6
  <2>8. \A a \in DOMAIN t : t[a] \in [Page -> SummaryEntry]
    BY <1>8, <1>10, <1>13, <2>5
  <2>9. \A p : EntryStatus(e, p) = e.summary[p]
    BY <1>13 DEF EntryStatus
  <2>10. \A a \in Area, p \in Page : SummaryOf(map, t, a)[p] = StatusUpto(a, p, i)
    BY <1>4, <1>5, <1>10, <1>13, <2>4, <2>6, <2>9
  <2>11. QED
    BY <2>7, <2>8, <2>10 DEF SumUpto, i
<1>14. CASE ~(i \in SumLive /\ e.op \in PageOp)
  <2>1. t = s
    BY <1>7, <1>11, <1>14 DEF SummaryApplied, PageOp
  <2>2. \A a : i \notin Live(a)
    BY <1>6, <1>14
  <2>3. QED
    BY <1>3, <1>4, <1>5, <1>10, <2>1, <2>2 DEF SumUpto, i
<1>15. QED
  BY <1>12, <1>13, <1>14 DEF PageOp

(* A mount recovers the page states the journal tells. *)
LEMMA SumIs ==
    ASSUME IsProg(log), LogOK, Typed, MapFromLog = map
    PROVE  /\ \A a : a \in DOMAIN SumFromLog <=> InLog(a)
           /\ \A a \in DOMAIN SumFromLog : SumFromLog[a] \in [Page -> SummaryEntry]
           /\ \A a \in Area, p \in Page : SummaryOf(map, SumFromLog, a)[p] = LogStatus(a, p)
<1> DEFINE N == Len(log)
           f == CHOOSE f : SumRec(f, N)
           P == {n \in 0 .. N : SumUpto(f[n], n)}
<1>1. N \in Nat
  BY LogIndices
<1>2. SumRec(f, N)
  BY <1>1, SumRecExists
<1>3. SumFromLog = f[N]
  BY DEF SumFromLog, SumRec, SumStart, SumLive
<1> HIDE DEF f
<1>4. /\ f[0] = SumStart
      /\ \A n \in 0 .. N - 1 :
            f[n + 1] = IF n + 1 \in SumLive THEN SummaryApplied(map, f[n], log[n + 1]) ELSE f[n]
  <2>1. f = [i \in 0 .. N |->
            IF i = 0 THEN SumStart
            ELSE IF i \in SumLive THEN SummaryApplied(map, f[i - 1], log[i])
            ELSE f[i - 1]]
    BY <1>2 DEF SumRec
  <2>2. f[0] = SumStart
    BY <1>1, <2>1
  <2>3. ASSUME NEW n \in 0 .. N - 1
        PROVE f[n + 1] = IF n + 1 \in SumLive THEN SummaryApplied(map, f[n], log[n + 1]) ELSE f[n]
    <3>1. n + 1 \in 0 .. N /\ n + 1 # 0 /\ (n + 1) - 1 = n
      BY <1>1
    <3>2. QED
      BY <2>1, <3>1
  <2>4. QED
    BY <2>2, <2>3
<1>5. 0 \in P
  <2>1. \A a : \A j \in Live(a) : j \in Nat /\ j # 0
    BY UnretiredIn DEF Live
  <2>2. \A a : a \in DOMAIN SumStart <=> Kept(a)
    BY DEF SumStart, Kept
  <2>3. \A a \in DOMAIN SumStart : SumStart[a] = index.sum[a] /\ a \in DOMAIN index.sum
    BY DEF SumStart
  <2>4. \A a \in DOMAIN SumStart : SumStart[a] \in [Page -> SummaryEntry]
    BY <2>3 DEF LogOK
  <2>5. \A a, p : StatusUpto(a, p, 0) = IF Kept(a) THEN index.sum[a][p] ELSE Base(a)
    <3>1. \A a, p : {k \in Sets(a, p) : k <= 0} = {}
      <4>1. \A a, p : \A j \in Sets(a, p) : ~(j <= 0)
        BY <2>1 DEF Sets
      <4>2. QED
        BY <4>1
    <3>2. QED
      BY <3>1 DEF StatusUpto, LastIndex
  <2>6. \A a \in Area, p \in Page : SummaryOf(map, SumStart, a)[p] = StatusUpto(a, p, 0)
    BY <2>2, <2>3, <2>5 DEF SummaryOf, All, Base
  <2>7. \A a : (\E j \in Live(a) : j <= 0) <=> FALSE
    BY <2>1
  <2>8. SumUpto(SumStart, 0)
    BY <2>2, <2>4, <2>6, <2>7 DEF SumUpto
  <2>9. QED
    BY <1>1, <1>4, <2>8
<1>6. ASSUME NEW n \in 0 .. N - 1, n \in P PROVE n + 1 \in P
  <2>1. SumUpto(f[n], n)
    BY <1>6
  <2> DEFINE s == f[n]
             t == f[n + 1]
  <2>2. t = IF n + 1 \in SumLive THEN SummaryApplied(map, s, log[n + 1]) ELSE s
    BY <1>4
  <2> HIDE DEF s, t
  <2>3. SumUpto(s, n)
    BY <2>1 DEF s
  <2>4. SumUpto(t, n + 1)
    BY <2>2, <2>3, SumUptoGrows
  <2>5. QED
    BY <1>1, <2>4 DEF t
<1> HIDE DEF P
<1>7. 0 .. N \subseteq P
  BY <1>1, <1>5, <1>6, IntervalInduction
<1>8. SumUpto(f[N], N)
  BY <1>1, <1>7 DEF P
<1>9. \A a : (\E j \in Live(a) : j <= N) <=> Live(a) # {}
  <2>1. \A a : \A j \in Live(a) : j <= N
    BY UnretiredIn DEF Live
  <2>2. QED
    BY <2>1
<1>10. \A a, p : StatusUpto(a, p, N) = LogStatus(a, p)
  <2>1. \A a, p : {k \in Sets(a, p) : k <= N} = Sets(a, p)
    <3>1. \A a, p : \A j \in Sets(a, p) : j <= N
      BY UnretiredIn DEF Live, Sets
    <3>2. QED
      BY <3>1
  <2>2. QED
    BY <2>1 DEF StatusUpto, LogStatus
<1>11. QED
  BY <1>3, <1>8, <1>9, <1>10 DEF SumUpto, InLog
-----------------------------------------------------------------------------
(* What an operation still has to do.                                      *)

(* The constants. *)
LEMMA Constants ==
    /\ AreasNo \in Nat /\ AreasNo > 2 /\ Area = 0 .. AreasNo - 1 /\ Pos = Area
    /\ 0 \in Area /\ 1 \in Area /\ 2 \in Area
    /\ PagesPerArea \in Nat /\ PagesPerArea > 0 /\ 0 \in Page
    /\ BlocksPerArea \in Nat /\ BlocksPerArea > 0
    /\ MaxOps \in Nat
    /\ \A p \in Page : p \in Nat
BY AreasAssumption, AreaMgmtAssumption DEF Area, Pos, Page

(* A quotient by what is multiplied. *)
LEMMA DivSmall ==
    ASSUME NEW x \in Nat, NEW n \in Nat, n > 0, NEW b \in Nat, x < n * b
    PROVE  x \div n \in Nat /\ x \div n < b
<1>1. x \div n \in Nat
  OBVIOUS
<1>2. n * (x \div n) <= x
  OBVIOUS
<1>q. PICK q \in Nat : q = x \div n
  BY <1>1
<1>3. n * q < n * b
  BY <1>2, <1>q
<1>4. q < b
  <2>1. ASSUME q >= b PROVE FALSE
    <3>1. PICK d \in Nat : q = b + d
      <4>1. q - b \in Nat /\ q = b + (q - b)
        BY <2>1
      <4>2. QED
        BY <4>1
    <3>2. n * q = n * b + n * d
      BY <3>1
    <3>3. n * d \in Nat /\ n * b \in Nat
      OBVIOUS
    <3>4. QED
      BY <3>2, <3>3, <1>3
  <2>2. QED
    BY <2>1
<1>5. QED
  BY <1>1, <1>q, <1>4

(* Every page lies in a block of its area. *)
LEMMA Blocks == \A p \in Page : BlockOf(p) \in 0 .. BlocksPerArea - 1
<1>1. ASSUME NEW p \in Page
      PROVE  BlockOf(p) \in 0 .. BlocksPerArea - 1
  <2>1. p \in Nat /\ p < PagesPerArea /\ PagesPerArea \in Nat /\ PagesPerArea > 0
        /\ BlocksPerArea \in Nat /\ BlocksPerArea > 0
    BY Constants DEF Page
  <2>2. p * BlocksPerArea \in Nat /\ PagesPerArea * BlocksPerArea \in Nat
    BY <2>1
  <2>3. p * BlocksPerArea < PagesPerArea * BlocksPerArea
    <3>1. PICK d \in Nat : PagesPerArea = p + 1 + d
      <4>1. PagesPerArea - p - 1 \in Nat /\ PagesPerArea = p + 1 + (PagesPerArea - p - 1)
        BY <2>1
      <4>2. QED
        BY <4>1
    <3>2. PagesPerArea * BlocksPerArea = p * BlocksPerArea + BlocksPerArea + d * BlocksPerArea
      BY <3>1, <2>1
    <3>3. d * BlocksPerArea \in Nat
      BY <2>1
    <3>4. QED
      BY <3>2, <3>3, <2>1, <2>2
  <2> DEFINE x == p * BlocksPerArea
  <2>4. x \in Nat /\ x < PagesPerArea * BlocksPerArea /\ BlockOf(p) = x \div PagesPerArea
    BY <2>2, <2>3 DEF BlockOf
  <2> HIDE DEF x
  <2>5. BlockOf(p) \in Nat /\ BlockOf(p) < BlocksPerArea
    BY <2>4, <2>1, DivSmall
  <2>6. QED
    BY <2>5, <2>1
<1>2. QED
  BY <1>1

(* The last index of a set of one. *)
LEMMA LastOfOne ==
    ASSUME NEW k \in Nat, k # 0
    PROVE  LastIndex({k}) = k
<1>1. k - 1 \in Nat /\ {} \in SUBSET (1 .. k - 1) /\ (k - 1) + 1 = k /\ {} \union {k} = {k}
  OBVIOUS
<1>2. QED
  BY <1>1, LastIndexGrows

(* Programs behind one another. *)
LEMMA ConcatProgs ==
    ASSUME NEW r, NEW s, NEW t, IsProg(r), IsProg(s), IsProg(t)
    PROVE  IsProg(r \o s) /\ (r \o s) \o t = r \o (s \o t)
<1>1. PICK R : r \in Seq(R)
  BY DEF IsProg
<1>2. PICK S : s \in Seq(S)
  BY DEF IsProg
<1>3. PICK T : t \in Seq(T)
  BY DEF IsProg
<1> DEFINE U == R \union S \union T
<1>4. r \in Seq(U) /\ s \in Seq(U) /\ t \in Seq(U)
  <2>1. R \subseteq U /\ S \subseteq U /\ T \subseteq U
    OBVIOUS
  <2> HIDE DEF U
  <2>2. QED
    BY <1>1, <1>2, <1>3, <2>1, SeqMonotonic
<1> HIDE DEF U
<1>5. r \o s \in Seq(U) /\ (r \o s) \o t = r \o (s \o t)
  BY <1>4, ConcatAssociative
<1>6. QED
  BY <1>5 DEF IsProg

(* The same with a name of its own, so that the provers leave it as it is. *)
Cat(r, s) == r \o s

Nil == <<>>

(* The algebra of concatenated programs that the other proofs cite. *)
LEMMA CatFacts ==
    /\ \A r, s : IsProg(r) /\ IsProg(s) => IsProg(Cat(r, s))
    /\ \A r, s, t : IsProg(r) /\ IsProg(s) /\ IsProg(t) =>
            Cat(Cat(r, s), t) = Cat(r, Cat(s, t))
    /\ \A r : IsProg(r) => Cat(Nil, r) = r /\ Cat(r, Nil) = r
    /\ \A x, r : IsProg(r) => Cat(<<x>>, r) = Then(x, r) /\ IsProg(Then(x, r))
    /\ \A x, r, s : IsProg(r) /\ IsProg(s) => Cat(Then(x, r), s) = Then(x, Cat(r, s))
    /\ \A x : IsProg(<<x>>) /\ <<x>> = Then(x, Nil)
    /\ IsProg(Nil)
<1>1. \A r, s : IsProg(r) /\ IsProg(s) => IsProg(Cat(r, s))
  BY ConcatProgs, ProgFacts, Zenon DEF Cat
<1>2. ASSUME NEW r, NEW s, NEW t, IsProg(r), IsProg(s), IsProg(t)
      PROVE  Cat(Cat(r, s), t) = Cat(r, Cat(s, t))
  <2>1. (r \o s) \o t = r \o (s \o t)
    BY <1>2, ConcatProgs
  <2>2. QED
    BY <2>1, Zenon DEF Cat
<1>3. \A r : IsProg(r) => Cat(Nil, r) = r /\ Cat(r, Nil) = r
  BY ProgFacts, Zenon DEF Cat, Nil
<1>4. ASSUME NEW x, NEW r, IsProg(r) PROVE Cat(<<x>>, r) = Then(x, r) /\ IsProg(Then(x, r))
  <2>1. IsProg(Then(x, r))
    BY <1>4, ThenFacts
  <2>2. QED
    BY <2>1, Zenon DEF Cat, Then
<1>5. ASSUME NEW x, NEW r, NEW s, IsProg(r), IsProg(s) PROVE Cat(Then(x, r), s) = Then(x, Cat(r, s))
  <2>1. Then(x, r) \o s = Then(x, r \o s)
    BY <1>5, ThenConcat
  <2>2. QED
    BY <2>1, Zenon DEF Cat
<1>6. ASSUME NEW x PROVE IsProg(<<x>>) /\ <<x>> = Then(x, Nil)
  <2>1. <<x>> = Then(x, <<>>)
    BY ThenTuples
  <2>2. IsProg(Then(x, <<>>))
    BY ProgFacts, ThenFacts
  <2>3. QED
    BY <2>1, <2>2, Zenon DEF Nil
<1>7. IsProg(Nil)
  BY ProgFacts, Zenon DEF Nil
<1>8. QED
  BY <1>1, <1>2, <1>3, <1>4, <1>5, <1>6, <1>7

(* What ResumeOperation makes of an operation, its parts written one behind
   the other. *)
LastCheck(ctx) == Then(Checkpoint("areaMgmt"), ctx)

Left(m, s, e, done, k) ==
    LET order == ResumeOrder[e.op]
    IN  IF k \in done + 1 .. Len(order) THEN Resumed(m, s, e)[k] ELSE Nil

(* A resumed operation is its remaining steps in order, then the last check
   of the operation. *)
LEMMA ResumeParts ==
    ASSUME NEW m, NEW s, NEW e, NEW ctx, IsProg(ctx), e.op \in AreaMgmtOp, e.op # "retireArea",
           NEW x, NEW done,
           done = IF x = "none" THEN 0
                  ELSE LastIndex({k \in DOMAIN ResumeOrder[e.op] : ResumeOrder[e.op][k] = x}),
           x # "none" => done # 0,
           \A k : IsProg(Left(m, s, e, done, k))
    PROVE  /\ Cat(ResumeOperation(m, s, e, x), ctx) =
                Cat(Left(m, s, e, done, 1), Cat(Left(m, s, e, done, 2), Cat(Left(m, s, e, done, 3),
                Cat(Left(m, s, e, done, 4), Cat(Left(m, s, e, done, 5), Cat(Left(m, s, e, done, 6),
                LastCheck(ctx)))))))
           /\ IsProg(LastCheck(ctx)) /\ IsProg(ResumeOperation(m, s, e, x))
<1> DEFINE L(k) == Left(m, s, e, done, k)
           cp == <<Checkpoint("areaMgmt")>>
           p6 == Cat(L(6), Nil)
           p5 == Cat(L(5), p6)
           p4 == Cat(L(4), p5)
           p3 == Cat(L(3), p4)
           p2 == Cat(L(2), p3)
           p1 == Cat(L(1), p2)
<1>1. ResumeOperation(m, s, e, x) = Cat(p1, cp)
  BY DEF ResumeOperation, Left, Cat, Nil
<1>2. cp = Then(Checkpoint("areaMgmt"), Nil) /\ Cat(cp, ctx) = LastCheck(ctx) /\ IsProg(cp)
      /\ IsProg(LastCheck(ctx))
  BY CatFacts DEF LastCheck
<1>4. \A k : IsProg(L(k))
  OBVIOUS
<1> HIDE DEF L, cp, p1, p2, p3, p4, p5, p6
<1> DEFINE lc == Cat(cp, ctx)
           q6 == Cat(L(6), lc)
           q5 == Cat(L(5), q6)
           q4 == Cat(L(4), q5)
           q3 == Cat(L(3), q4)
           q2 == Cat(L(2), q3)
           q1 == Cat(L(1), q2)
<1>5. IsProg(lc) /\ \A r : IsProg(r) => Cat(Cat(r, cp), ctx) = Cat(r, lc)
  BY <1>2, CatFacts
<1> HIDE DEF lc, q1, q2, q3, q4, q5, q6
<1>6. IsProg(p6) /\ Cat(p6, lc) = q6 /\ IsProg(q6)
  BY <1>4, <1>5, CatFacts DEF p6, q6
<1>7. IsProg(p5) /\ Cat(p5, lc) = q5 /\ IsProg(q5)
  BY <1>4, <1>5, <1>6, CatFacts DEF p5, q5
<1>8. IsProg(p4) /\ Cat(p4, lc) = q4 /\ IsProg(q4)
  BY <1>4, <1>5, <1>7, CatFacts DEF p4, q4
<1>9. IsProg(p3) /\ Cat(p3, lc) = q3 /\ IsProg(q3)
  BY <1>4, <1>5, <1>8, CatFacts DEF p3, q3
<1>10. IsProg(p2) /\ Cat(p2, lc) = q2 /\ IsProg(q2)
  BY <1>4, <1>5, <1>9, CatFacts DEF p2, q2
<1>11. IsProg(p1) /\ Cat(p1, lc) = q1 /\ IsProg(q1)
  BY <1>4, <1>5, <1>10, CatFacts DEF p1, q1
<1>12. Cat(ResumeOperation(m, s, e, x), ctx) = q1 /\ IsProg(ResumeOperation(m, s, e, x))
  BY <1>1, <1>2, <1>5, <1>11, CatFacts
<1>13. QED
  BY <1>2, <1>12, ZenonT(40) DEF L, lc, q1, q2, q3, q4, q5, q6

(* One part and those that follow. *)
LEMMA CatParts ==
    ASSUME NEW e, IsProg(e), NEW p6, NEW p5, NEW p4, NEW p3, NEW p2, NEW p1,
           p6 = Nil, p5 = Nil, p4 = Nil
    PROVE  Cat(p1, Cat(p2, Cat(p3, Cat(p4, Cat(p5, Cat(p6, e)))))) = Cat(p1, Cat(p2, Cat(p3, e)))
BY CatFacts

(* What is left of initAreaAs after each of its entries. *)
LEMMA ResumeInit ==
    ASSUME NEW m, NEW s, NEW e, NEW ctx, IsProg(ctx), e.op = "initAreaAs"
    PROVE  LET a == e.area
               used(r) == IF m.status[a] = "empty" THEN Then(AddUsed(1), r) ELSE r
               act == Then(ActiveArea(e.type, a), LastCheck(ctx))
           IN  /\ Cat(ResumeOperation(m, s, e, "none"), ctx) = Then(Type(a, e.type), used(act))
               /\ Cat(ResumeOperation(m, s, e, "type"), ctx) = used(act)
               /\ Cat(ResumeOperation(m, s, e, "usedAreas"), ctx) = act
               /\ Cat(ResumeOperation(m, s, e, "activeArea"), ctx) = LastCheck(ctx)
               /\ IsProg(LastCheck(ctx)) /\ IsProg(act) /\ IsProg(used(act))
<1> DEFINE a == e.area
           order == ResumeOrder[e.op]
           done(x) == IF x = "none" THEN 0 ELSE LastIndex({k \in DOMAIN order : order[k] = x})
           L(x, k) == Left(m, s, e, done(x), k)
           Exts == {"none", "type", "usedAreas", "activeArea"}
           lc == LastCheck(ctx)
           T1 == Resumed(m, s, e)[1]
           T2 == Resumed(m, s, e)[2]
           T3 == Resumed(m, s, e)[3]
<1>0. e.op \in AreaMgmtOp /\ e.op # "retireArea"
  BY DEF AreaMgmtOp
<1>2. order = <<"type", "usedAreas", "activeArea">>
  BY DEF ResumeOrder
<1>3. /\ {k \in DOMAIN order : order[k] = "type"} = {1}
      /\ {k \in DOMAIN order : order[k] = "usedAreas"} = {2}
      /\ {k \in DOMAIN order : order[k] = "activeArea"} = {3}
      /\ Len(order) = 3 /\ order[1] = "type" /\ order[2] = "usedAreas" /\ order[3] = "activeArea"
  BY <1>2
<1>4. done("none") = 0 /\ done("type") = 1 /\ done("usedAreas") = 2 /\ done("activeArea") = 3
  BY <1>3, LastOfOne
<1> DEFINE emp == m.status[a] = "empty"
<1> DEFINE U1 == <<Type(a, e.type)>>
           U2 == IF emp THEN <<AddUsed(1)>> ELSE <<>>
           U3 == <<ActiveArea(e.type, a)>>
<1>5. Resumed(m, s, e) = <<U1, U2, U3>>
  BY DEF Resumed
<1> HIDE DEF U1, U2, U3
<1>5d. T1 = U1 /\ T2 = U2 /\ T3 = U3
  BY <1>5
<1>5a. T1 = <<Type(a, e.type)>>
  BY <1>5d DEF U1
<1>5b. T2 = IF emp THEN <<AddUsed(1)>> ELSE Nil
  BY <1>5d DEF U2, Nil
<1>5c. T3 = <<ActiveArea(e.type, a)>>
  BY <1>5d DEF U3
<1> HIDE DEF T1, T2, T3, done, order, emp
<1>5e. (T2 = <<AddUsed(1)>> /\ emp) \/ (T2 = Nil /\ ~emp)
  BY <1>5b
<1>6. IsProg(T1) /\ IsProg(T2) /\ IsProg(T3) /\ IsProg(Nil)
  BY <1>5a, <1>5e, <1>5c, CatFacts
<1>7. ASSUME NEW r, IsProg(r)
      PROVE  /\ Cat(Nil, r) = r
             /\ Cat(T1, r) = Then(Type(a, e.type), r)
             /\ Cat(T2, r) = IF emp THEN Then(AddUsed(1), r) ELSE r
             /\ Cat(T3, r) = Then(ActiveArea(e.type, a), r)
             /\ \A x : IsProg(Then(x, r))
  <2>1. Cat(Nil, r) = r
    BY <1>7, CatFacts
  <2>2. Cat(T1, r) = Then(Type(a, e.type), r)
    BY <1>5a, <1>7, CatFacts
  <2>3. Cat(T2, r) = IF emp THEN Then(AddUsed(1), r) ELSE r
    BY <1>5e, <1>7, <2>1, CatFacts
  <2>4. Cat(T3, r) = Then(ActiveArea(e.type, a), r)
    BY <1>5c, <1>7, CatFacts
  <2>5. \A x : IsProg(Then(x, r))
    BY <1>7, CatFacts
  <2>6. QED
    BY <2>1, <2>2, <2>3, <2>4, <2>5
<1>8. \A n : \A k : Left(m, s, e, n, k) = IF k \in n + 1 .. 3 THEN Resumed(m, s, e)[k] ELSE Nil
  BY <1>3 DEF Left, order
<1>9. /\ L("none", 1) = T1 /\ L("none", 2) = T2 /\ L("none", 3) = T3
      /\ L("type", 1) = Nil /\ L("type", 2) = T2 /\ L("type", 3) = T3
      /\ L("usedAreas", 1) = Nil /\ L("usedAreas", 2) = Nil /\ L("usedAreas", 3) = T3
      /\ L("activeArea", 1) = Nil /\ L("activeArea", 2) = Nil /\ L("activeArea", 3) = Nil
  BY <1>3, <1>4, <1>8 DEF T1, T2, T3
<1>10. \A x \in Exts : L(x, 4) = Nil /\ L(x, 5) = Nil /\ L(x, 6) = Nil
  BY <1>4, <1>8
<1>11. ASSUME NEW x \in Exts, NEW k PROVE IsProg(L(x, k))
  <2>1. k \in 1 .. 3 => Resumed(m, s, e)[k] \in {T1, T2, T3}
    BY <1>3 DEF T1, T2, T3
  <2>2. k \in done(x) + 1 .. 3 => k \in 1 .. 3
    BY <1>4
  <2>3. QED
    BY <1>6, <1>8, <2>1, <2>2
<1>12. ASSUME NEW x \in Exts
       PROVE  Cat(ResumeOperation(m, s, e, x), ctx) = Cat(L(x, 1), Cat(L(x, 2), Cat(L(x, 3), lc)))
  <2>1. x # "none" => done(x) # 0
    BY <1>4
  <2>2. /\ Cat(ResumeOperation(m, s, e, x), ctx) =
                Cat(L(x, 1), Cat(L(x, 2), Cat(L(x, 3), Cat(L(x, 4), Cat(L(x, 5), Cat(L(x, 6), lc))))))
        /\ IsProg(lc)
    <3> DEFINE d == done(x)
    <3>1. d = IF x = "none" THEN 0
              ELSE LastIndex({k \in DOMAIN ResumeOrder[e.op] : ResumeOrder[e.op][k] = x})
      BY DEF done, order
    <3>2. \A k : L(x, k) = Left(m, s, e, d, k)
      OBVIOUS
    <3>3. x # "none" => d # 0
      BY <2>1
    <3>4. \A k : IsProg(Left(m, s, e, d, k))
      BY <1>11, <3>2
    <3> HIDE DEF d, L
    <3>5. /\ Cat(ResumeOperation(m, s, e, x), ctx) =
                Cat(Left(m, s, e, d, 1), Cat(Left(m, s, e, d, 2), Cat(Left(m, s, e, d, 3),
                Cat(Left(m, s, e, d, 4), Cat(Left(m, s, e, d, 5), Cat(Left(m, s, e, d, 6),
                LastCheck(ctx)))))))
           /\ IsProg(LastCheck(ctx))
      BY <1>0, <3>1, <3>3, <3>4, ResumeParts
    <3>6. QED
      BY <3>2, <3>5
  <2> HIDE DEF L, lc
  <2>3. QED
    BY <1>10, <2>2, CatParts
<1>13. IsProg(lc)
  BY CatFacts DEF LastCheck
<1> HIDE DEF lc, L
<1> DEFINE act == Then(ActiveArea(e.type, a), lc)
           usd == IF emp THEN Then(AddUsed(1), act) ELSE act
<1>14a. IsProg(act) /\ Cat(T3, lc) = act
  BY <1>7, <1>13
<1> HIDE DEF act
<1>14. IsProg(act) /\ Cat(T3, lc) = act /\ Cat(Nil, act) = act
  BY <1>7, <1>14a
<1>15a. IsProg(usd) /\ Cat(T2, act) = usd
  BY <1>7, <1>14
<1> HIDE DEF usd
<1>15. IsProg(usd) /\ Cat(T2, act) = usd /\ Cat(Nil, usd) = usd
  BY <1>7, <1>15a
<1>16. /\ Cat(ResumeOperation(m, s, e, "none"), ctx) = Then(Type(a, e.type), usd)
       /\ Cat(ResumeOperation(m, s, e, "type"), ctx) = usd
       /\ Cat(ResumeOperation(m, s, e, "usedAreas"), ctx) = act
       /\ Cat(ResumeOperation(m, s, e, "activeArea"), ctx) = lc
  BY <1>7, <1>9, <1>12, <1>13, <1>14, <1>15
<1>17. QED
  BY <1>13, <1>14, <1>15, <1>16 DEF act, usd, lc, emp

(* What is left of closeArea after each of its entries. *)
LEMMA ResumeClose ==
    ASSUME NEW m, NEW s, NEW e, NEW ctx, IsProg(ctx), e.op = "closeArea"
    PROVE  LET a == e.area
               act == Then(ActiveArea(m.type[a], 0), LastCheck(ctx))
           IN  /\ Cat(ResumeOperation(m, s, e, "none"), ctx) = Then(Status(a, "closed"), act)
               /\ Cat(ResumeOperation(m, s, e, "status"), ctx) = act
               /\ Cat(ResumeOperation(m, s, e, "activeArea"), ctx) = LastCheck(ctx)
               /\ IsProg(LastCheck(ctx)) /\ IsProg(act)
<1> DEFINE a == e.area
           order == ResumeOrder[e.op]
           done(x) == IF x = "none" THEN 0 ELSE LastIndex({k \in DOMAIN order : order[k] = x})
           L(x, k) == Left(m, s, e, done(x), k)
           Exts == {"none", "status", "activeArea"}
           lc == LastCheck(ctx)
           T1 == Resumed(m, s, e)[1]
           T2 == Resumed(m, s, e)[2]
<1>0. e.op \in AreaMgmtOp /\ e.op # "retireArea"
  BY DEF AreaMgmtOp
<1>2. order = <<"status", "activeArea">>
  BY DEF ResumeOrder
<1>3. /\ {k \in DOMAIN order : order[k] = "status"} = {1}
      /\ {k \in DOMAIN order : order[k] = "activeArea"} = {2}
      /\ Len(order) = 2
  BY <1>2
<1>4. done("none") = 0 /\ done("status") = 1 /\ done("activeArea") = 2
  BY <1>3, LastOfOne
<1> DEFINE U1 == <<Status(a, "closed")>>
           U2 == <<ActiveArea(m.type[a], 0)>>
<1>5. Resumed(m, s, e) = <<U1, U2>>
  BY DEF Resumed
<1> HIDE DEF U1, U2
<1>6. T1 = U1 /\ T2 = U2
  BY <1>5
<1> HIDE DEF T1, T2, done, order
<1>7. IsProg(T1) /\ IsProg(T2) /\ IsProg(Nil)
  BY <1>6, CatFacts DEF U1, U2
<1>8. ASSUME NEW r, IsProg(r)
      PROVE  /\ Cat(Nil, r) = r
             /\ Cat(T1, r) = Then(Status(a, "closed"), r)
             /\ Cat(T2, r) = Then(ActiveArea(m.type[a], 0), r)
             /\ \A x : IsProg(Then(x, r))
  <2>1. Cat(Nil, r) = r
    BY <1>8, CatFacts
  <2>2. Cat(T1, r) = Then(Status(a, "closed"), r)
    BY <1>6, <1>8, CatFacts DEF U1
  <2>3. Cat(T2, r) = Then(ActiveArea(m.type[a], 0), r)
    BY <1>6, <1>8, CatFacts DEF U2
  <2>4. \A x : IsProg(Then(x, r))
    BY <1>8, CatFacts
  <2>5. QED
    BY <2>1, <2>2, <2>3, <2>4
<1>9. \A n : \A k : Left(m, s, e, n, k) = IF k \in n + 1 .. 2 THEN Resumed(m, s, e)[k] ELSE Nil
  BY <1>3 DEF Left, order
<1>10. /\ L("none", 1) = T1 /\ L("none", 2) = T2
       /\ L("status", 1) = Nil /\ L("status", 2) = T2
       /\ L("activeArea", 1) = Nil /\ L("activeArea", 2) = Nil
  BY <1>4, <1>9 DEF T1, T2
<1>11. \A x \in Exts : L(x, 3) = Nil /\ L(x, 4) = Nil /\ L(x, 5) = Nil /\ L(x, 6) = Nil
  BY <1>4, <1>9
<1>12. ASSUME NEW x \in Exts, NEW k PROVE IsProg(L(x, k))
  <2>1. k \in 1 .. 2 => Resumed(m, s, e)[k] \in {T1, T2}
    BY DEF T1, T2
  <2>2. k \in done(x) + 1 .. 2 => k \in 1 .. 2
    BY <1>4
  <2>3. QED
    BY <1>7, <1>9, <2>1, <2>2
<1>13. ASSUME NEW x \in Exts
       PROVE  Cat(ResumeOperation(m, s, e, x), ctx) = Cat(L(x, 1), Cat(L(x, 2), lc)) /\ IsProg(lc)
  <2> DEFINE d == done(x)
  <2>1. d = IF x = "none" THEN 0
            ELSE LastIndex({k \in DOMAIN ResumeOrder[e.op] : ResumeOrder[e.op][k] = x})
    BY DEF done, order
  <2>2. \A k : L(x, k) = Left(m, s, e, d, k)
    OBVIOUS
  <2>3. x # "none" => d # 0
    BY <1>4
  <2>4. \A k : IsProg(Left(m, s, e, d, k))
    BY <1>12, <2>2
  <2> HIDE DEF d, L
  <2>5. /\ Cat(ResumeOperation(m, s, e, x), ctx) =
              Cat(Left(m, s, e, d, 1), Cat(Left(m, s, e, d, 2), Cat(Left(m, s, e, d, 3),
              Cat(Left(m, s, e, d, 4), Cat(Left(m, s, e, d, 5), Cat(Left(m, s, e, d, 6),
              LastCheck(ctx)))))))
         /\ IsProg(LastCheck(ctx))
    BY <1>0, <2>1, <2>3, <2>4, ResumeParts
  <2>6. /\ Cat(ResumeOperation(m, s, e, x), ctx) =
              Cat(L(x, 1), Cat(L(x, 2), Cat(L(x, 3), Cat(L(x, 4), Cat(L(x, 5), Cat(L(x, 6), lc))))))
        /\ IsProg(lc)
    BY <2>2, <2>5
  <2> HIDE DEF lc
  <2>7. QED
    BY <1>8, <1>11, <2>6
<1> HIDE DEF lc, L
<1> DEFINE act == Then(ActiveArea(m.type[a], 0), lc)
<1>14. IsProg(lc) /\ IsProg(act) /\ Cat(T2, lc) = act
  BY <1>8, <1>13
<1> HIDE DEF act
<1>15. /\ Cat(ResumeOperation(m, s, e, "none"), ctx) = Then(Status(a, "closed"), act)
       /\ Cat(ResumeOperation(m, s, e, "status"), ctx) = act
       /\ Cat(ResumeOperation(m, s, e, "activeArea"), ctx) = lc
  BY <1>8, <1>10, <1>13, <1>14
<1>16. QED
  BY <1>14, <1>15 DEF act, lc

(* Erasing, block by block. *)
LEMMA EraseFacts ==
    ASSUME NEW pos, NEW r, IsProg(r)
    PROVE  /\ \A k \in 0 .. BlocksPerArea : IsProg(EraseFrom(pos, k))
           /\ \A k \in 0 .. BlocksPerArea - 1 :
                Cat(EraseFrom(pos, k), r) = Then(EraseBlock(pos, k), Cat(EraseFrom(pos, k + 1), r))
           /\ Cat(EraseFrom(pos, BlocksPerArea), r) = r
           /\ EraseFrom(pos, 0) = EraseArea(pos)
<1> DEFINE B == BlocksPerArea
           S == {EraseBlock(pos, j) : j \in Int}
           F(k) == EraseFrom(pos, k)
<1>1. B \in Nat /\ B > 0
  BY Constants
<1>0. \A j \in Int : EraseBlock(pos, j) \in S
  OBVIOUS
<1>00. \A k : F(k) = [j \in 1 .. B - k |-> EraseBlock(pos, k + j - 1)]
  BY DEF EraseFrom
<1> HIDE DEF S, F, B
<1>2. ASSUME NEW k \in 0 .. B
      PROVE  /\ F(k) \in Seq(S) /\ Len(F(k)) = B - k
             /\ \A j \in 1 .. B - k : F(k)[j] = EraseBlock(pos, k + j - 1)
  <2>2. B - k \in Nat
    BY <1>1
  <2>3. \A j \in 1 .. B - k : EraseBlock(pos, k + j - 1) \in S
    BY <1>0, <1>1
  <2>4. QED
    BY <1>00, <2>2, <2>3, SeqDef
<1>3. \A k \in 0 .. B : IsProg(F(k))
  BY <1>2 DEF IsProg
<1>4. ASSUME NEW k \in 0 .. B - 1
      PROVE  F(k) = Then(EraseBlock(pos, k), F(k + 1))
  <2> DEFINE x == EraseBlock(pos, k)
             s == F(k)
             t == F(k + 1)
  <2>k. k \in 0 .. B /\ k + 1 \in 0 .. B
    BY <1>1
  <2>1. s \in Seq(S) /\ Len(s) = B - k /\ \A j \in 1 .. B - k : s[j] = EraseBlock(pos, k + j - 1)
    BY <1>2, <2>k
  <2>2. /\ t \in Seq(S) /\ Len(t) = B - (k + 1)
        /\ \A j \in 1 .. B - (k + 1) : t[j] = EraseBlock(pos, (k + 1) + j - 1)
    BY <1>2, <2>k
  <2>3. x \in S
    BY <1>0
  <2>4. s[1] = x
    BY <1>1, <2>1
  <2>x. B - k \in Nat /\ B - k # 0 /\ B - (k + 1) = B - k - 1
    BY <1>1
  <2> HIDE DEF s, t, x
  <2>5. <<x>> \o t \in Seq(S) /\ Len(<<x>> \o t) = Len(s) /\ (<<x>> \o t)[1] = x
    BY <2>1, <2>2, <2>3, <2>x
  <2>6. ASSUME NEW j \in 1 .. B - k, j # 1 PROVE (<<x>> \o t)[j] = s[j]
    <3>1. j - 1 \in 1 .. B - (k + 1) /\ (k + 1) + (j - 1) - 1 = k + j - 1
      BY <1>1, <2>6
    <3>2. (<<x>> \o t)[j] = t[j - 1]
      BY <2>2, <2>3, <2>6, <3>1
    <3>3. QED
      BY <2>1, <2>2, <3>1, <3>2
  <2>7. \A j \in 1 .. Len(s) : (<<x>> \o t)[j] = s[j]
    BY <2>1, <2>4, <2>5, <2>6
  <2>8. <<x>> \o t = s
    BY <2>1, <2>5, <2>7, SeqEqual
  <2>9. QED
    BY <2>8 DEF Then, s, t, x
<1>5. ASSUME NEW k \in 0 .. B - 1
      PROVE Cat(F(k), r) = Then(EraseBlock(pos, k), Cat(F(k + 1), r))
  <2>1. IsProg(F(k + 1))
    BY <1>1, <1>3
  <2>2. QED
    BY <1>4, <2>1, CatFacts
<1>6. F(B) = Nil
  <2>1. B \in 0 .. B /\ B - B = 0
    BY <1>1
  <2>2. F(B) \in Seq(S) /\ Len(F(B)) = 0
    BY <1>2, <2>1
  <2>3. QED
    BY <2>2, EmptySeq DEF Nil
<1>7. F(0) = EraseArea(pos)
  <2>1. 1 .. B - 0 = 1 .. B /\ \A j \in 1 .. B : 0 + j - 1 = j - 1
    BY <1>1
  <2>2. QED
    BY <1>00, <2>1 DEF EraseArea, B
<1>8. QED
  BY <1>3, <1>5, <1>6, <1>7, CatFacts DEF F, B

(* What follows the erases of an operation and their count. *)
DeleteTail(e, ctx) ==
    IF e.op = "deleteArea"
    THEN Then(Status(e.area, "empty"),
              Then(Type(e.area, "unset"), Then(AddUsed(-1), LastCheck(ctx))))
    ELSE LastCheck(ctx)

(* The deletion of an area, and of its contents, behind each of its changes. *)
LEMMA ResumeErase ==
    ASSUME NEW m, NEW s, NEW e, NEW ctx, IsProg(ctx),
           e.op \in {"deleteArea", "deleteAreaContents"}
    PROVE  LET a == e.area
               R(x) == Cat(ResumeOperation(m, s, e, x), ctx)
               S == DeleteTail(e, ctx)
               removed == IF a \in DOMAIN s THEN Then(DeleteSummary(a), S) ELSE S
               dropped == IF a \in DOMAIN s THEN Then(ResetASWritten(a), Then(DeleteSummary(a), S))
                          ELSE S
           IN  /\ R("none") = Cat(EraseArea(m.pos[a]), Then(IncreaseErasecount(a), dropped))
               /\ R("increaseErasecount") = dropped
               /\ R("reset") = removed
               /\ R("remove") = S
               /\ e.op = "deleteArea" =>
                    /\ R("status") = Then(Type(a, "unset"), Then(AddUsed(-1), LastCheck(ctx)))
                    /\ R("type") = Then(AddUsed(-1), LastCheck(ctx))
                    /\ R("usedAreas") = LastCheck(ctx)
               /\ IsProg(S) /\ IsProg(removed) /\ IsProg(dropped)
<1> DEFINE a == e.area
           order == ResumeOrder[e.op]
           done(x) == IF x = "none" THEN 0 ELSE LastIndex({k \in DOMAIN order : order[k] = x})
           L(x, k) == Left(m, s, e, done(x), k)
           Del == e.op = "deleteArea"
           n == IF Del THEN 6 ELSE 3
           Exts == {"none", "increaseErasecount", "reset", "remove"}
                   \union (IF Del THEN {"status", "type", "usedAreas"} ELSE {})
           lc == LastCheck(ctx)
           in == a \in DOMAIN s
           E == EraseArea(m.pos[a])
           U1 == E \o <<IncreaseErasecount(a)>>
           U2 == IF a \in DOMAIN s THEN <<ResetASWritten(a)>> ELSE <<>>
           U3 == IF a \in DOMAIN s THEN <<DeleteSummary(a)>> ELSE <<>>
           U4 == <<Status(a, "empty")>>
           U5 == <<Type(a, "unset")>>
           U6 == <<AddUsed(-1)>>
<1>0. e.op \in AreaMgmtOp /\ e.op # "retireArea"
  BY DEF AreaMgmtOp
<1>2. order = IF Del THEN <<"increaseErasecount", "reset", "remove", "status", "type", "usedAreas">>
              ELSE <<"increaseErasecount", "reset", "remove">>
  BY DEF ResumeOrder
<1>3a. Del => /\ {k \in DOMAIN order : order[k] = "increaseErasecount"} = {1}
              /\ {k \in DOMAIN order : order[k] = "reset"} = {2}
              /\ {k \in DOMAIN order : order[k] = "remove"} = {3}
              /\ {k \in DOMAIN order : order[k] = "status"} = {4}
              /\ {k \in DOMAIN order : order[k] = "type"} = {5}
              /\ {k \in DOMAIN order : order[k] = "usedAreas"} = {6}
              /\ Len(order) = 6
  BY <1>2
<1>3b. ~Del => /\ {k \in DOMAIN order : order[k] = "increaseErasecount"} = {1}
               /\ {k \in DOMAIN order : order[k] = "reset"} = {2}
               /\ {k \in DOMAIN order : order[k] = "remove"} = {3}
               /\ Len(order) = 3
  BY <1>2
<1>4. /\ done("none") = 0 /\ done("increaseErasecount") = 1 /\ done("reset") = 2
      /\ done("remove") = 3
      /\ Del => done("status") = 4 /\ done("type") = 5 /\ done("usedAreas") = 6
  BY <1>3a, <1>3b, LastOfOne
<1>5. Resumed(m, s, e) = <<U1, U2, U3, U4, U5, U6>>
  BY DEF Resumed
<1>6. Len(order) = n
  BY <1>3a, <1>3b
<1> HIDE DEF U1, U2, U3, U4, U5, U6, E, order, done
<1>7. /\ Resumed(m, s, e)[1] = U1 /\ Resumed(m, s, e)[2] = U2 /\ Resumed(m, s, e)[3] = U3
      /\ Resumed(m, s, e)[4] = U4 /\ Resumed(m, s, e)[5] = U5 /\ Resumed(m, s, e)[6] = U6
  BY <1>5
<1>e. IsProg(E)
  <2>1. IsProg(Nil) /\ 0 \in 0 .. BlocksPerArea
    BY CatFacts, Constants
  <2>2. IsProg(EraseFrom(m.pos[a], 0)) /\ EraseFrom(m.pos[a], 0) = E
    BY <2>1, EraseFacts DEF E
  <2>3. QED
    BY <2>2
<1>8. U1 = Cat(E, <<IncreaseErasecount(a)>>)
  BY Zenon DEF U1, Cat
<1>9. /\ (in /\ U2 = <<ResetASWritten(a)>> /\ U3 = <<DeleteSummary(a)>>)
         \/ (~in /\ U2 = Nil /\ U3 = Nil)
      /\ U4 = <<Status(a, "empty")>> /\ U5 = <<Type(a, "unset")>> /\ U6 = <<AddUsed(-1)>>
  BY DEF U2, U3, U4, U5, U6, Nil
<1> HIDE DEF in, n, Del
<1>10. /\ IsProg(U1) /\ IsProg(U2) /\ IsProg(U3) /\ IsProg(U4) /\ IsProg(U5) /\ IsProg(U6)
       /\ IsProg(Nil)
  BY <1>e, <1>8, <1>9, CatFacts
<1>11. ASSUME NEW r, IsProg(r)
       PROVE  /\ Cat(Nil, r) = r
              /\ Cat(U1, r) = Cat(E, Then(IncreaseErasecount(a), r))
              /\ Cat(U2, r) = IF in THEN Then(ResetASWritten(a), r) ELSE r
              /\ Cat(U3, r) = IF in THEN Then(DeleteSummary(a), r) ELSE r
              /\ Cat(U4, r) = Then(Status(a, "empty"), r)
              /\ Cat(U5, r) = Then(Type(a, "unset"), r)
              /\ Cat(U6, r) = Then(AddUsed(-1), r)
              /\ \A x : IsProg(Then(x, r))
  <2>1. Cat(Nil, r) = r
    BY <1>11, CatFacts
  <2>2. Cat(U1, r) = Cat(E, Then(IncreaseErasecount(a), r))
    <3>1. IsProg(<<IncreaseErasecount(a)>>)
          /\ Cat(<<IncreaseErasecount(a)>>, r) = Then(IncreaseErasecount(a), r)
      BY <1>11, CatFacts
    <3>2. QED
      BY <1>e, <1>8, <1>11, <3>1, CatFacts
  <2>3. Cat(U2, r) = IF in THEN Then(ResetASWritten(a), r) ELSE r
    BY <1>9, <1>11, <2>1, CatFacts
  <2>4. Cat(U3, r) = IF in THEN Then(DeleteSummary(a), r) ELSE r
    BY <1>9, <1>11, <2>1, CatFacts
  <2>5. Cat(U4, r) = Then(Status(a, "empty"), r)
    BY <1>9, <1>11, CatFacts
  <2>6. Cat(U5, r) = Then(Type(a, "unset"), r)
    BY <1>9, <1>11, CatFacts
  <2>7. Cat(U6, r) = Then(AddUsed(-1), r)
    BY <1>9, <1>11, CatFacts
  <2>8. \A x : IsProg(Then(x, r))
    BY <1>11, CatFacts
  <2>9. QED
    BY <2>1, <2>2, <2>3, <2>4, <2>5, <2>6, <2>7, <2>8
<1>12. \A d : \A k : Left(m, s, e, d, k) = IF k \in d + 1 .. n THEN Resumed(m, s, e)[k] ELSE Nil
  BY <1>6 DEF Left, order
<1>13. n = IF Del THEN 6 ELSE 3
  BY DEF n
<1>14. ASSUME NEW x \in Exts, NEW k PROVE IsProg(L(x, k))
  <2>1. done(x) \in 0 .. 6
    BY <1>4
  <2>2. k \in done(x) + 1 .. n => k \in 1 .. 6
    BY <1>13, <2>1
  <2>3. k \in 1 .. 6 => Resumed(m, s, e)[k] \in {U1, U2, U3, U4, U5, U6}
    BY <1>7
  <2>4. QED
    BY <1>10, <1>12, <2>2, <2>3
<1>15. ASSUME NEW x \in Exts
       PROVE  /\ Cat(ResumeOperation(m, s, e, x), ctx) =
                    Cat(L(x, 1), Cat(L(x, 2), Cat(L(x, 3), Cat(L(x, 4), Cat(L(x, 5),
                    Cat(L(x, 6), lc))))))
              /\ IsProg(lc)
  <2> DEFINE d == done(x)
  <2>1. d = IF x = "none" THEN 0
            ELSE LastIndex({k \in DOMAIN ResumeOrder[e.op] : ResumeOrder[e.op][k] = x})
    BY DEF done, order
  <2>2. \A k : L(x, k) = Left(m, s, e, d, k)
    OBVIOUS
  <2>3. x # "none" => d # 0
    BY <1>4
  <2>4. \A k : IsProg(Left(m, s, e, d, k))
    BY <1>14, <2>2
  <2> HIDE DEF d, L
  <2>5. /\ Cat(ResumeOperation(m, s, e, x), ctx) =
              Cat(Left(m, s, e, d, 1), Cat(Left(m, s, e, d, 2), Cat(Left(m, s, e, d, 3),
              Cat(Left(m, s, e, d, 4), Cat(Left(m, s, e, d, 5), Cat(Left(m, s, e, d, 6),
              LastCheck(ctx)))))))
         /\ IsProg(LastCheck(ctx))
    BY <1>0, <2>1, <2>3, <2>4, ResumeParts
  <2>6. QED
    BY <2>2, <2>5
<1>16. /\ L("none", 1) = U1 /\ L("none", 2) = U2 /\ L("none", 3) = U3
       /\ L("increaseErasecount", 1) = Nil /\ L("increaseErasecount", 2) = U2
       /\ L("increaseErasecount", 3) = U3
       /\ L("reset", 1) = Nil /\ L("reset", 2) = Nil /\ L("reset", 3) = U3
       /\ L("remove", 1) = Nil /\ L("remove", 2) = Nil /\ L("remove", 3) = Nil
  BY <1>4, <1>7, <1>12, <1>13
<1>17. Del => \A x \in {"none", "increaseErasecount", "reset", "remove"} :
            L(x, 4) = U4 /\ L(x, 5) = U5 /\ L(x, 6) = U6
  BY <1>4, <1>7, <1>12, <1>13
<1>18. ~Del => \A x \in {"none", "increaseErasecount", "reset", "remove"} :
            L(x, 4) = Nil /\ L(x, 5) = Nil /\ L(x, 6) = Nil
  BY <1>4, <1>12, <1>13
<1>19. Del =>
         /\ L("status", 1) = Nil /\ L("status", 2) = Nil /\ L("status", 3) = Nil
         /\ L("status", 4) = Nil /\ L("status", 5) = U5 /\ L("status", 6) = U6
         /\ L("type", 1) = Nil /\ L("type", 2) = Nil /\ L("type", 3) = Nil
         /\ L("type", 4) = Nil /\ L("type", 5) = Nil /\ L("type", 6) = U6
         /\ L("usedAreas", 1) = Nil /\ L("usedAreas", 2) = Nil /\ L("usedAreas", 3) = Nil
         /\ L("usedAreas", 4) = Nil /\ L("usedAreas", 5) = Nil /\ L("usedAreas", 6) = Nil
  BY <1>4, <1>7, <1>12, <1>13
<1>20. IsProg(lc)
  BY <1>15
<1> HIDE DEF lc, L
<1> DEFINE r6 == Then(AddUsed(-1), lc)
           r5 == Then(Type(a, "unset"), r6)
           r4 == Then(Status(a, "empty"), r5)
           tail == IF Del THEN r4 ELSE lc
           rem == IF in THEN Then(DeleteSummary(a), tail) ELSE tail
           drp == IF in THEN Then(ResetASWritten(a), rem) ELSE rem
<1>21. IsProg(r6) /\ Cat(U6, lc) = r6
  BY <1>11, <1>20
<1> HIDE DEF r6
<1>22. IsProg(r5) /\ Cat(U5, r6) = r5 /\ Cat(Nil, r6) = r6
  BY <1>11, <1>21
<1> HIDE DEF r5
<1>23. IsProg(r4) /\ Cat(U4, r5) = r4 /\ Cat(Nil, r5) = r5
  BY <1>11, <1>22
<1> HIDE DEF r4
<1>24. Cat(Nil, lc) = lc /\ Cat(Nil, r4) = r4 /\ IsProg(tail)
  BY <1>11, <1>20, <1>23
<1>25. \A x \in {"none", "increaseErasecount", "reset", "remove"} :
            Cat(L(x, 4), Cat(L(x, 5), Cat(L(x, 6), lc))) = tail
  BY <1>17, <1>18, <1>21, <1>22, <1>23, <1>24
<1> HIDE DEF tail
<1>26. IsProg(rem) /\ Cat(U3, tail) = rem /\ Cat(Nil, tail) = tail
  BY <1>11, <1>24
<1> HIDE DEF rem
<1>27. IsProg(drp) /\ Cat(U2, rem) = drp /\ Cat(Nil, rem) = rem
  BY <1>11, <1>26
<1> HIDE DEF drp
<1>28. Cat(U1, drp) = Cat(E, Then(IncreaseErasecount(a), drp)) /\ Cat(Nil, drp) = drp
  BY <1>11, <1>27
<1> DEFINE R(x) == Cat(ResumeOperation(m, s, e, x), ctx)
<1>29. /\ R("none") = Cat(E, Then(IncreaseErasecount(a), drp))
       /\ R("increaseErasecount") = drp
       /\ R("reset") = rem
       /\ R("remove") = tail
  BY <1>15, <1>16, <1>25, <1>26, <1>27, <1>28
<1>30. Del => R("status") = r5 /\ R("type") = r6 /\ R("usedAreas") = lc
  BY <1>15, <1>19, <1>20, <1>21, <1>22, <1>23, <1>24
<1>31. tail = DeleteTail(e, ctx)
  BY DEF tail, r4, r5, r6, lc, Del, DeleteTail
<1> HIDE DEF R
<1>32. /\ rem = IF in THEN Then(DeleteSummary(a), tail) ELSE tail
       /\ drp = IF in THEN Then(ResetASWritten(a), Then(DeleteSummary(a), tail)) ELSE tail
  BY DEF rem, drp
<1>33. /\ r6 = Then(AddUsed(-1), LastCheck(ctx))
       /\ r5 = Then(Type(a, "unset"), Then(AddUsed(-1), LastCheck(ctx)))
       /\ lc = LastCheck(ctx)
  BY DEF r6, r5, lc
<1>34. QED
  BY <1>24, <1>26, <1>27, <1>29, <1>30, <1>31, <1>32, <1>33, Zenon DEF R, E, in, Del

-----------------------------------------------------------------------------
(* The page states a mount would find, of all areas.                       *)

LoggedIs ==
    /\ logged \in [Area -> [Page -> SummaryEntry]]
    /\ \A a : InLog(a) <=> a \in inLog
    /\ \A a \in Area, p \in Page : logged[a][p] = LogStatus(a, p)

(* They are summaries, of areas. *)
LEMMA LoggedType == IsProg(log) /\ LogOK => LoggedIs
<1> SUFFICES ASSUME IsProg(log), LogOK PROVE LoggedIs
  BY DEF LoggedIs
<1>1. ASSUME NEW a \in Area, NEW p \in Page PROVE LogStatus(a, p) \in SummaryEntry
  <2> DEFINE i == LastIndex(Sets(a, p))
  <2>1. /\ Unretired("summaryCache", {"setStatus", "setStatusBlock"}) \in SUBSET (1 .. Len(log))
        /\ Len(log) \in Nat
        /\ \A j \in Unretired("summaryCache", {"setStatus", "setStatusBlock"}) :
                log[j].op \in {"setStatus", "setStatusBlock"}
    BY UnretiredIn
  <2>2. Sets(a, p) \in SUBSET (1 .. Len(log))
    BY <2>1 DEF Sets, Live
  <2>3. i # 0 => i \in Sets(a, p)
    BY <2>1, <2>2, LastIndexIs
  <2>4. Base(a) \in SummaryEntry
    BY DEF Base, SummaryEntry
  <2>5. Kept(a) => index.sum[a][p] \in SummaryEntry
    BY DEF Kept, LogOK
  <2>6. \A j \in Sets(a, p) : j \in DOMAIN log /\ log[j].op \in {"setStatus", "setStatusBlock"}
    BY <2>1, <2>2, LogIndices DEF Sets, Live
  <2>7. \A j \in Sets(a, p) : EntryStatus(log[j], p) \in SummaryEntry
    BY <2>6 DEF LogOK, EntryStatus
  <2> HIDE DEF i
  <2>8. i # 0 => EntryStatus(log[i], p) \in SummaryEntry
    BY <2>3, <2>7
  <2>9. QED
    BY <2>4, <2>5, <2>8 DEF LogStatus, i
<1>2. ASSUME NEW a, InLog(a) PROVE a \in Area
  <2>1. CASE Kept(a)
    BY <2>1 DEF Kept, LogOK
  <2>2. CASE Live(a) # {}
    <3>1. PICK i \in Unretired("summaryCache", {"setStatus", "setStatusBlock"}) : log[i].area = a
      BY <2>2 DEF Live
    <3>2. i \in DOMAIN log /\ log[i].op \in {"setStatus", "setStatusBlock"}
      BY <3>1, UnretiredIn, LogIndices
    <3>3. QED
      BY <3>1, <3>2 DEF LogOK
  <2>3. QED
    BY <1>2, <2>1, <2>2 DEF InLog
<1>3. \A a : InLog(a) <=> a \in inLog
  BY <1>2 DEF inLog
<1>4. QED
  BY <1>1, <1>3 DEF logged, LoggedIs

(* What is logged of an area without an entry. *)
LEMMA NotInLog ==
    ASSUME IsProg(log), NEW a \in Area, a \notin inLog, NEW p \in Page
    PROVE  logged[a][p] = Base(a)
<1>1. ~InLog(a)
  BY DEF inLog
<1>2. Live(a) = {} /\ ~Kept(a)
  BY <1>1 DEF InLog
<1>3. Sets(a, p) = {}
  BY <1>2 DEF Sets
<1>4. LastIndex(Sets(a, p)) = 0
  BY <1>3 DEF LastIndex
<1>5. LogStatus(a, p) = Base(a)
  BY <1>2, <1>4 DEF LogStatus
<1>6. QED
  BY <1>5 DEF logged

(* An entry of the log is typed. *)
EntryOK(e) ==
    /\ e.op = "setStatus" => e.area \in Area /\ e.page \in Page /\ e.entry \in SummaryEntry
    /\ e.op = "setStatusBlock" => e.area \in Area /\ e.summary \in [Page -> SummaryEntry]

(* One more entry keeps the journal typed. *)
LEMMA LogOKGrows ==
    ASSUME NEW e, Grows(e), LogOK, EntryOK(e), index' = index
    PROVE  LogOK'
<1>1. /\ Len(log) \in Nat /\ DOMAIN log = 1 .. Len(log) /\ DOMAIN log' = 1 .. Len(log) + 1
      /\ \A i \in 1 .. Len(log) : log'[i] = log[i]
      /\ log'[Len(log) + 1] = e
  BY LogGrows
<1>2. \A i \in DOMAIN log' : i \in DOMAIN log \/ i = Len(log) + 1
  BY <1>1
<1>3. QED
  BY <1>1, <1>2 DEF LogOK, EntryOK

(* What an entry does to the page states a mount would find. *)
LEMMA LoggedGrows ==
    ASSUME NEW e, Grows(e), LogOK, EntryOK(e), ~IsCheckpoint(e, "summaryCache"), index' = index,
           \A a \in Area : Base(a)' = Base(a)
    PROVE  /\ e.op \notin PageOp \union DropOp => logged' = logged /\ inLog' = inLog
           /\ e.op = "setStatus" =>
                /\ logged' = [logged EXCEPT ![e.area] = [logged[e.area] EXCEPT ![e.page] = e.entry]]
                /\ inLog' = inLog \union {e.area}
           /\ e.op = "setStatusBlock" =>
                /\ logged' = [logged EXCEPT ![e.area] = e.summary]
                /\ inLog' = inLog \union {e.area}
           /\ (e.op \in DropOp /\ e.area \in Area) =>
                /\ logged' = [logged EXCEPT ![e.area] = [p \in Page |-> Base(e.area)]]
                /\ inLog' = inLog \ {e.area}
           /\ logged' \in [Area -> [Page -> SummaryEntry]]
<1>1. LogOK' /\ IsProg(log) /\ IsProg(log)'
  BY LogOKGrows, LogGrows DEF Grows
<1>2. /\ logged \in [Area -> [Page -> SummaryEntry]]
      /\ \A a : InLog(a) <=> a \in inLog
      /\ \A a \in Area, p \in Page : logged[a][p] = LogStatus(a, p)
  BY <1>1, LoggedType DEF LoggedIs
<1>3a. (IsProg(log) /\ LogOK => LoggedIs)'
  BY LoggedType, PTL
<1>3. /\ logged' \in [Area -> [Page -> SummaryEntry]]
      /\ \A a : InLog(a)' <=> a \in inLog'
      /\ \A a \in Area, p \in Page : logged'[a][p] = LogStatus(a, p)'
  BY <1>1, <1>3a DEF LoggedIs
<1>a. ASSUME NEW a \in Area
      PROVE  a \in inLog' <=> (~Drops(e, a) /\ (a \in inLog \/ Decides(e, a)))
  <2>1. InLog(a)' <=> (~Drops(e, a) /\ (InLog(a) \/ Decides(e, a)))
    BY InLogGrows
  <2>2. QED
    BY <1>2, <1>3, <2>1
<1>b. ASSUME NEW a \in Area, NEW p \in Page
      PROVE  logged'[a][p] = IF Drops(e, a) THEN Base(a)
                             ELSE IF DecidesPage(e, a, p) THEN EntryStatus(e, p)
                             ELSE logged[a][p]
  <2>1. /\ Drops(e, a) => LogStatus(a, p)' = Base(a)'
        /\ DecidesPage(e, a, p) => LogStatus(a, p)' = EntryStatus(e, p)
        /\ ~Drops(e, a) /\ ~DecidesPage(e, a, p) =>
                \/ LogStatus(a, p)' = LogStatus(a, p)
                \/ LogStatus(a, p) = Base(a) /\ LogStatus(a, p)' = Base(a)'
    BY StatusGrows
  <2>2. Base(a)' = Base(a)
    OBVIOUS
  <2>3. QED
    BY <1>2, <1>3, <2>1, <2>2
<1>4. inLog \subseteq Area /\ inLog' \subseteq Area
  BY DEF inLog
<1>5. CASE e.op \notin PageOp \union DropOp
  <2>1. \A a : ~Drops(e, a) /\ ~Decides(e, a) /\ \A p : ~DecidesPage(e, a, p)
    BY <1>5 DEF Drops, Decides, DecidesPage
  <2>2. logged' = logged
    BY <1>2, <1>3, <1>b, <2>1
  <2>3. inLog' = inLog
    BY <1>4, <1>a, <2>1
  <2>4. QED
    BY <1>3, <1>5, <2>2, <2>3 DEF PageOp, DropOp
<1>6. CASE e.op = "setStatus"
  <2>1. \A a : ~Drops(e, a) /\ (Decides(e, a) <=> a = e.area)
              /\ \A p : DecidesPage(e, a, p) <=> a = e.area /\ p = e.page
    BY <1>6 DEF Drops, Decides, DecidesPage, PageOp, DropOp
  <2>2. e.area \in Area /\ e.page \in Page /\ e.entry \in SummaryEntry
    BY <1>6 DEF EntryOK
  <2>3. \A p : EntryStatus(e, p) = e.entry
    BY <1>6 DEF EntryStatus
  <2>4. \A a \in Area, p \in Page : logged'[a][p]
            = [logged EXCEPT ![e.area] = [logged[e.area] EXCEPT ![e.page] = e.entry]][a][p]
    BY <1>2, <1>b, <2>1, <2>2, <2>3
  <2>5. logged' = [logged EXCEPT ![e.area] = [logged[e.area] EXCEPT ![e.page] = e.entry]]
    BY <1>2, <1>3, <2>2, <2>4
  <2>6. inLog' = inLog \union {e.area}
    BY <1>4, <1>a, <2>1, <2>2
  <2>7. QED
    BY <1>3, <1>6, <2>5, <2>6 DEF PageOp, DropOp
<1>7. CASE e.op = "setStatusBlock"
  <2>1. \A a : ~Drops(e, a) /\ (Decides(e, a) <=> a = e.area)
              /\ \A p : DecidesPage(e, a, p) <=> a = e.area
    BY <1>7 DEF Drops, Decides, DecidesPage, PageOp, DropOp
  <2>2. e.area \in Area /\ e.summary \in [Page -> SummaryEntry]
    BY <1>7 DEF EntryOK
  <2>3. \A p : EntryStatus(e, p) = e.summary[p]
    BY <1>7 DEF EntryStatus
  <2>4. \A a \in Area, p \in Page : logged'[a][p] = [logged EXCEPT ![e.area] = e.summary][a][p]
    BY <1>2, <1>b, <2>1, <2>2, <2>3
  <2>5. logged' = [logged EXCEPT ![e.area] = e.summary]
    BY <1>2, <1>3, <2>2, <2>4
  <2>6. inLog' = inLog \union {e.area}
    BY <1>4, <1>a, <2>1, <2>2
  <2>7. QED
    BY <1>3, <1>7, <2>5, <2>6 DEF PageOp, DropOp
<1>8. CASE e.op \in DropOp
  <2>1. \A a : (Drops(e, a) <=> a = e.area) /\ ~Decides(e, a)
              /\ \A p : ~DecidesPage(e, a, p)
    BY <1>8 DEF Drops, Decides, DecidesPage, PageOp, DropOp
  <2> DEFINE clear == [p \in Page |-> Base(e.area)]
  <2>2. e.area \in Area => \A a \in Area, p \in Page :
            logged'[a][p] = [logged EXCEPT ![e.area] = clear][a][p]
    BY <1>2, <1>b, <2>1
  <2>3. \A p \in Page : Base(e.area) \in SummaryEntry
    BY DEF Base, SummaryEntry
  <2>4. clear \in [Page -> SummaryEntry]
    BY <2>3
  <2> HIDE DEF clear
  <2>5. e.area \in Area => logged' = [logged EXCEPT ![e.area] = clear]
    BY <1>2, <1>3, <2>2, <2>4
  <2>6. inLog' = inLog \ {e.area}
    BY <1>4, <1>a, <2>1
  <2>7. e.op \notin PageOp
    BY <1>8 DEF PageOp, DropOp
  <2>8. e.area \in Area => logged' = [logged EXCEPT ![e.area] = [p \in Page |-> Base(e.area)]]
    BY <2>5 DEF clear
  <2>9. QED
    BY <1>3, <1>8, <2>6, <2>7, <2>8 DEF PageOp
<1>9. QED
  BY <1>5, <1>6, <1>7, <1>8 DEF PageOp, DropOp

(* The journal as it was: only what a missing summary stands for may change. *)
LEMMA LoggedStays ==
    ASSUME IsProg(log), LogOK, log' = log, index' = index
    PROVE  /\ LogOK'
           /\ inLog' = inLog
           /\ logged' \in [Area -> [Page -> SummaryEntry]]
           /\ \A a \in Area, p \in Page :
                \/ logged'[a][p] = logged[a][p]
                \/ logged[a][p] = Base(a) /\ logged'[a][p] = Base(a)'
           /\ \A a \in Area : Base(a)' = Base(a) => logged'[a] = logged[a]
           /\ (\A a \in Area : Base(a)' = Base(a)) => logged' = logged
<1>1. LogOK' /\ IsProg(log)'
  BY DEF LogOK
<1>2. /\ logged \in [Area -> [Page -> SummaryEntry]]
      /\ \A a : InLog(a) <=> a \in inLog
      /\ \A a \in Area, p \in Page : logged[a][p] = LogStatus(a, p)
  BY LoggedType DEF LoggedIs
<1>3a. (IsProg(log) /\ LogOK => LoggedIs)'
  BY LoggedType, PTL
<1>3. /\ logged' \in [Area -> [Page -> SummaryEntry]]
      /\ \A a : InLog(a)' <=> a \in inLog'
      /\ \A a \in Area, p \in Page : logged'[a][p] = LogStatus(a, p)'
  BY <1>1, <1>3a DEF LoggedIs
<1>4. ASSUME NEW a \in Area PROVE a \in inLog' <=> a \in inLog
  <2>1. InLog(a)' <=> InLog(a)
    BY StatusStays
  <2>2. QED
    BY <1>2, <1>3, <2>1
<1>5. inLog' = inLog
  <2>1. inLog \subseteq Area /\ inLog' \subseteq Area
    BY DEF inLog
  <2>2. QED
    BY <1>4, <2>1
<1>6. ASSUME NEW a \in Area, NEW p \in Page
      PROVE \/ logged'[a][p] = logged[a][p]
            \/ logged[a][p] = Base(a) /\ logged'[a][p] = Base(a)'
  <2>1. \/ LogStatus(a, p)' = LogStatus(a, p)
        \/ LogStatus(a, p) = Base(a) /\ LogStatus(a, p)' = Base(a)'
    BY StatusStays
  <2>2. QED
    BY <1>2, <1>3, <2>1
<1>7. ASSUME NEW a \in Area, Base(a)' = Base(a) PROVE logged'[a] = logged[a]
  <2>1. \A p \in Page : logged'[a][p] = logged[a][p]
    BY <1>6, <1>7
  <2>2. QED
    BY <1>2, <1>3, <2>1
<1>8. (\A a \in Area : Base(a)' = Base(a)) => logged' = logged
  <2>1. (\A a \in Area : Base(a)' = Base(a)) => \A a \in Area : logged'[a] = logged[a]
    BY <1>7
  <2>2. QED
    BY <1>2, <1>3, <2>1
<1>9. QED
  BY <1>1, <1>3, <1>5, <1>6, <1>7, <1>8

SumTyped == \A a \in cached : a \in Area /\ sum[a] \in [Page -> SummaryEntry]

RamIs ==
    /\ ram \in [Area -> [Page -> SummaryEntry]]
    /\ \A a \in Area : SummaryOf(map, sum, a) = ram[a]
    /\ \A a \in cached : sum[a] = ram[a]
    /\ \A a \in Area \ cached : ram[a] = [p \in Page |-> Base(a)]

(* The page states in RAM are summaries, those of the cache. *)
LEMMA RamType == SumTyped => RamIs
<1> SUFFICES ASSUME SumTyped PROVE RamIs
  BY DEF RamIs
<1>1. ASSUME NEW a \in Area
      PROVE  /\ SummaryOf(map, sum, a) \in [Page -> SummaryEntry]
             /\ a \in cached => SummaryOf(map, sum, a) = sum[a]
             /\ a \notin cached => SummaryOf(map, sum, a) = [p \in Page |-> Base(a)]
  BY DEF SumTyped, cached, SummaryOf, All, Base, SummaryEntry
<1>2. ASSUME NEW a \in Area PROVE ram[a] = SummaryOf(map, sum, a)
  <2>1. ram[a] = [p \in Page |-> SummaryOf(map, sum, a)[p]]
    BY DEF ram, PageStatus
  <2>2. QED
    BY <1>1, <2>1
<1>3. DOMAIN ram = Area /\ ram = [a \in Area |-> ram[a]]
  BY DEF ram
<1>4. QED
  BY <1>1, <1>2, <1>3 DEF SumTyped, RamIs

(* The cache as it was. *)
LEMMA RamStays ==
    ASSUME SumTyped, sum' = sum, \A a \in Area : Base(a)' = Base(a)
    PROVE  SumTyped' /\ ram' = ram /\ cached' = cached
<1>1. SumTyped' /\ cached' = cached
  BY DEF SumTyped, cached
<1>2. /\ ram \in [Area -> [Page -> SummaryEntry]]
      /\ \A a \in cached : sum[a] = ram[a]
      /\ \A a \in Area \ cached : ram[a] = [p \in Page |-> Base(a)]
  BY RamType DEF RamIs
<1>3a. (SumTyped => RamIs)'
  BY RamType, PTL
<1>3. /\ ram' \in [Area -> [Page -> SummaryEntry]]
      /\ \A a \in cached' : sum'[a] = ram'[a]
      /\ \A a \in Area \ cached' : ram'[a] = [p \in Page |-> Base(a)']
  BY <1>1, <1>3a DEF RamIs
<1>4. \A a \in Area : ram'[a] = ram[a]
  BY <1>1, <1>2, <1>3
<1>5. QED
  BY <1>1, <1>2, <1>3, <1>4

(* The summary of an area is put into the cache. *)
LEMMA RamWith ==
    ASSUME SumTyped, NEW a \in Area, NEW new \in [Page -> SummaryEntry],
           sum' = WithSummary(sum, a, new), \A b \in Area : Base(b)' = Base(b)
    PROVE  /\ SumTyped' /\ ram' = [ram EXCEPT ![a] = new] /\ cached' = cached \union {a}
<1>0. cached' = cached \union {a} /\ \A b \in cached' : sum'[b] = IF b = a THEN new ELSE sum[b]
  BY DEF cached, WithSummary
<1>1. SumTyped'
  BY <1>0 DEF SumTyped
<1>2. /\ ram \in [Area -> [Page -> SummaryEntry]]
      /\ \A b \in cached : sum[b] = ram[b]
      /\ \A b \in Area \ cached : ram[b] = [p \in Page |-> Base(b)]
  BY RamType DEF RamIs
<1>3a. (SumTyped => RamIs)'
  BY RamType, PTL
<1>3. /\ ram' \in [Area -> [Page -> SummaryEntry]]
      /\ \A b \in cached' : sum'[b] = ram'[b]
      /\ \A b \in Area \ cached' : ram'[b] = [p \in Page |-> Base(b)']
  BY <1>1, <1>3a DEF RamIs
<1>4. \A b \in Area : ram'[b] = IF b = a THEN new ELSE ram[b]
  BY <1>0, <1>2, <1>3
<1>5. QED
  BY <1>0, <1>1, <1>2, <1>3, <1>4

(* The summary of an area is taken out of the cache. *)
LEMMA RamWithout ==
    ASSUME SumTyped, NEW a \in Area,
           sum' = WithoutSummary(sum, a), \A b \in Area : Base(b)' = Base(b)
    PROVE  /\ SumTyped' /\ ram' = [ram EXCEPT ![a] = [p \in Page |-> Base(a)]]
           /\ cached' = cached \ {a}
<1>0. cached' = cached \ {a} /\ \A b \in cached' : sum'[b] = sum[b]
  BY DEF cached, WithoutSummary
<1>1. SumTyped'
  BY <1>0 DEF SumTyped
<1>2. /\ ram \in [Area -> [Page -> SummaryEntry]]
      /\ \A b \in cached : sum[b] = ram[b]
      /\ \A b \in Area \ cached : ram[b] = [p \in Page |-> Base(b)]
  BY RamType DEF RamIs
<1>3a. (SumTyped => RamIs)'
  BY RamType, PTL
<1>3. /\ ram' \in [Area -> [Page -> SummaryEntry]]
      /\ \A b \in cached' : sum'[b] = ram'[b]
      /\ \A b \in Area \ cached' : ram'[b] = [p \in Page |-> Base(b)']
  BY <1>1, <1>3a DEF RamIs
<1>4. \A b \in Area : ram'[b] = IF b = a THEN [p \in Page |-> Base(b)] ELSE ram[b]
  BY <1>0, <1>2, <1>3
<1>5. QED
  BY <1>0, <1>1, <1>2, <1>3, <1>4

-----------------------------------------------------------------------------
(* The area map, one entry after another.                                  *)

(* The fields of a map. *)
LEMMA MapFields ==
    ASSUME NEW m \in Map
    PROVE  /\ m.type \in [Area -> AreaType] /\ m.status \in [Area -> AreaStatus]
           /\ m.pos \in [Area -> Pos] /\ m.erasecount \in [Area -> Nat]
           /\ m.active \in [AreaType -> Area] /\ m.used \in Nat /\ m.deletions \in Nat
BY DEF Map

(* What each entry of the superblock does to a map. *)
LEMMA AppliedType ==
    ASSUME NEW m \in Map, NEW a \in Area, NEW t \in AreaType, NEW n, n = Applied(m, Type(a, t))
    PROVE  /\ n \in Map /\ n.type = [m.type EXCEPT ![a] = t] /\ n.status = m.status
           /\ n.pos = m.pos /\ n.erasecount = m.erasecount /\ n.active = m.active
           /\ n.used = m.used /\ n.deletions = m.deletions
<1>1. n = setType(m, a, t)
  BY DEF Applied, Type
<1>2. QED
  BY <1>1 DEF setType, Map

(* A status entry changes the status of one area and nothing else of the
   map. *)
LEMMA AppliedStatus ==
    ASSUME NEW m \in Map, NEW a \in Area, NEW s \in AreaStatus, NEW n,
           n = Applied(m, Status(a, s))
    PROVE  /\ n \in Map /\ n.type = m.type /\ n.status = [m.status EXCEPT ![a] = s]
           /\ n.pos = m.pos /\ n.erasecount = m.erasecount /\ n.active = m.active
           /\ n.used = m.used /\ n.deletions = m.deletions
<1>1. n = setStatus(m, a, s)
  BY DEF Applied, Status
<1>2. QED
  BY <1>1 DEF setStatus, Map

(* An erase entry counts one erase for the area and one deletion in all. *)
LEMMA AppliedErase ==
    ASSUME NEW m \in Map, NEW a \in Area, NEW n, n = Applied(m, IncreaseErasecount(a))
    PROVE  /\ n \in Map /\ n.type = m.type /\ n.status = m.status
           /\ n.pos = m.pos /\ n.erasecount = [m.erasecount EXCEPT ![a] = m.erasecount[a] + 1]
           /\ n.active = m.active /\ n.used = m.used /\ n.deletions = m.deletions + 1
<1>1. n = increaseErasecount(m, a)
  BY DEF Applied, IncreaseErasecount
<1> DEFINE ec == [m.erasecount EXCEPT ![a] = m.erasecount[a] + 1]
           de == m.deletions + 1
<1>2. ec \in [Area -> Nat] /\ de \in Nat
  BY MapFields, Constants
<1>3. n = [type |-> m.type, status |-> m.status, pos |-> m.pos, erasecount |-> ec,
           active |-> m.active, used |-> m.used, deletions |-> de]
  BY <1>1, MapFields DEF increaseErasecount, Map
<1> HIDE DEF ec, de
<1>4. n \in Map
  BY <1>2, <1>3, MapFields DEF Map
<1>5. QED
  BY <1>3, <1>4 DEF ec, de

(* A swap exchanges the positions and erase counts of two areas. *)
LEMMA AppliedSwap ==
    ASSUME NEW m \in Map, NEW a \in Area, NEW b \in Area, NEW n, n = Applied(m, Swap(a, b))
    PROVE  /\ n \in Map /\ n.type = m.type /\ n.status = m.status
           /\ n.pos = [m.pos EXCEPT ![a] = m.pos[b], ![b] = m.pos[a]]
           /\ n.erasecount = [m.erasecount EXCEPT ![a] = m.erasecount[b], ![b] = m.erasecount[a]]
           /\ n.active = m.active /\ n.used = m.used /\ n.deletions = m.deletions
<1>1. n = swapAreaPosition(m, a, b)
  BY DEF Applied, Swap
<1> DEFINE po == [m.pos EXCEPT ![a] = m.pos[b], ![b] = m.pos[a]]
           ec == [m.erasecount EXCEPT ![a] = m.erasecount[b], ![b] = m.erasecount[a]]
<1>2. po \in [Area -> Pos] /\ ec \in [Area -> Nat]
  BY MapFields, Constants
<1>3. n = [type |-> m.type, status |-> m.status, pos |-> po, erasecount |-> ec,
           active |-> m.active, used |-> m.used, deletions |-> m.deletions]
  BY <1>1, MapFields DEF swapAreaPosition, Map
<1> HIDE DEF po, ec
<1>4. n \in Map
  BY <1>2, <1>3, MapFields DEF Map
<1>5. QED
  BY <1>3, <1>4 DEF po, ec

(* An active-area entry makes the area active and the active one of its
   type. *)
LEMMA AppliedActive ==
    ASSUME NEW m \in Map, NEW t \in AreaType, NEW a \in Area, NEW n,
           n = Applied(m, ActiveArea(t, a))
    PROVE  /\ n \in Map /\ n.type = m.type /\ n.status = [m.status EXCEPT ![a] = "active"]
           /\ n.pos = m.pos /\ n.erasecount = m.erasecount
           /\ n.active = [m.active EXCEPT ![t] = a]
           /\ n.used = m.used /\ n.deletions = m.deletions
<1>1. n = setActiveArea(m, t, a)
  BY DEF Applied, ActiveArea
<1> DEFINE st == [m.status EXCEPT ![a] = "active"]
           ac == [m.active EXCEPT ![t] = a]
<1>2. st \in [Area -> AreaStatus] /\ ac \in [AreaType -> Area]
  BY MapFields, Constants DEF AreaStatus
<1>3. n = [type |-> m.type, status |-> st, pos |-> m.pos, erasecount |-> m.erasecount,
           active |-> ac, used |-> m.used, deletions |-> m.deletions]
  BY <1>1, MapFields DEF setActiveArea, Map
<1> HIDE DEF st, ac
<1>4. n \in Map
  BY <1>2, <1>3, MapFields DEF Map
<1>5. QED
  BY <1>3, <1>4 DEF st, ac

(* A used-areas entry sets the number of used areas only. *)
LEMMA AppliedUsed ==
    ASSUME NEW m \in Map, NEW u \in Nat, NEW n, n = Applied(m, UsedAreas(u))
    PROVE  /\ n \in Map /\ n.type = m.type /\ n.status = m.status
           /\ n.pos = m.pos /\ n.erasecount = m.erasecount /\ n.active = m.active
           /\ n.used = u /\ n.deletions = m.deletions
<1>1. n = setUsedAreas(m, u)
  BY DEF Applied, UsedAreas
<1>2. QED
  BY <1>1 DEF setUsedAreas, Map

(* Entries of other topics do nothing to the map. *)
LEMMA AppliedOther ==
    ASSUME NEW m, NEW e, e.op \notin MapOp
    PROVE  Applied(m, e) = m
BY DEF Applied, MapOp

(* The number of areas that are not empty. *)
LEMMA NonEmptyStatus ==
    ASSUME NEW m \in Map, NEW n \in Map, NEW a \in Area, NEW s \in AreaStatus,
           n.status = [m.status EXCEPT ![a] = s]
    PROVE  /\ Cardinality(NonEmpty(m)) \in Nat
           /\ m.status[a] = "empty" /\ s # "empty" =>
                Cardinality(NonEmpty(n)) = Cardinality(NonEmpty(m)) + 1
           /\ m.status[a] # "empty" /\ s = "empty" =>
                Cardinality(NonEmpty(n)) = Cardinality(NonEmpty(m)) - 1
           /\ m.status[a] # "empty" => Cardinality(NonEmpty(m)) > 0
           /\ (m.status[a] = "empty" <=> s = "empty") => NonEmpty(n) = NonEmpty(m)
<1>1. IsFiniteSet(NonEmpty(m))
  <2>1. IsFiniteSet(Area)
    BY Constants, FS_Interval
  <2>2. NonEmpty(m) \subseteq Area
    BY DEF NonEmpty
  <2>3. QED
    BY <2>1, <2>2, FS_Subset
<1>2. m.status \in [Area -> AreaStatus]
  BY DEF Map
<1>3. Cardinality(NonEmpty(m)) \in Nat
  BY <1>1, FS_CardinalityType
<1>4. a \in NonEmpty(m) <=> m.status[a] # "empty"
  BY DEF NonEmpty
<1>5. m.status[a] = "empty" /\ s # "empty" => NonEmpty(n) = NonEmpty(m) \union {a}
  BY <1>2 DEF NonEmpty
<1>6. m.status[a] # "empty" /\ s = "empty" => NonEmpty(n) = NonEmpty(m) \ {a}
  BY <1>2 DEF NonEmpty
<1>7. (m.status[a] = "empty" <=> s = "empty") => NonEmpty(n) = NonEmpty(m)
  BY <1>2 DEF NonEmpty
<1>8. m.status[a] # "empty" => Cardinality(NonEmpty(m)) > 0
  BY <1>1, <1>3, <1>4, FS_EmptySet
<1>9. m.status[a] = "empty" => Cardinality(NonEmpty(m) \union {a}) = Cardinality(NonEmpty(m)) + 1
  BY <1>1, <1>4, FS_AddElement
<1>10. m.status[a] # "empty" => Cardinality(NonEmpty(m) \ {a}) = Cardinality(NonEmpty(m)) - 1
  BY <1>1, <1>4, FS_RemoveElement
<1>11. QED
  BY <1>3, <1>5, <1>6, <1>7, <1>8, <1>9, <1>10

(* The same where the new status is known. *)
LEMMA NonEmptySize ==
    ASSUME NEW m \in Map
    PROVE  Cardinality(NonEmpty(m)) \in Nat
<1>1. m.status = [m.status EXCEPT ![0] = m.status[0]] /\ m.status[0] \in AreaStatus /\ 0 \in Area
  BY Constants, MapFields
<1>2. QED
  BY <1>1, NonEmptyStatus

(* An area that gets active counts as one more area in use if it was empty. *)
LEMMA BecomesActive ==
    ASSUME NEW m \in Map, NEW n \in Map, NEW a \in Area,
           n.status = [m.status EXCEPT ![a] = "active"]
    PROVE  /\ m.status[a] = "empty" => Cardinality(NonEmpty(n)) = Cardinality(NonEmpty(m)) + 1
           /\ m.status[a] # "empty" => NonEmpty(n) = NonEmpty(m)
<1> DEFINE s == "active"
<1>1. s \in AreaStatus /\ s # "empty" /\ n.status = [m.status EXCEPT ![a] = s]
  BY DEF AreaStatus
<1> HIDE DEF s
<1>2. QED
  BY <1>1, NonEmptyStatus

(* An area in use that gets closed stays in use. *)
LEMMA BecomesClosed ==
    ASSUME NEW m \in Map, NEW n \in Map, NEW a \in Area, m.status[a] # "empty",
           n.status = [m.status EXCEPT ![a] = "closed"]
    PROVE  NonEmpty(n) = NonEmpty(m)
<1> DEFINE s == "closed"
<1>1. s \in AreaStatus /\ s # "empty" /\ n.status = [m.status EXCEPT ![a] = s]
  BY DEF AreaStatus
<1> HIDE DEF s
<1>2. QED
  BY <1>1, NonEmptyStatus

(* An area in use that gets empty leaves one area less in use. *)
LEMMA BecomesEmpty ==
    ASSUME NEW m \in Map, NEW n \in Map, NEW a \in Area, m.status[a] # "empty",
           n.status = [m.status EXCEPT ![a] = "empty"]
    PROVE  /\ Cardinality(NonEmpty(n)) = Cardinality(NonEmpty(m)) - 1
           /\ Cardinality(NonEmpty(m)) > 0
<1> DEFINE s == "empty"
<1>1. s \in AreaStatus /\ s = "empty" /\ n.status = [m.status EXCEPT ![a] = s]
  BY DEF AreaStatus
<1> HIDE DEF s
<1>2. QED
  BY <1>1, NonEmptyStatus

(* The sum of the erase counts. *)
Erases0(f, ec) ==
    f = [a \in 0 .. AreasNo |-> IF a = 0 THEN 0 ELSE f[a - 1] + ec[a - 1]]

(* The running sum of erase counts, entry by entry. *)
LEMMA ErasesAt ==
    ASSUME NEW f, NEW ec, Erases0(f, ec)
    PROVE  f[0] = 0 /\ \A i \in 1 .. AreasNo : f[i] = f[i - 1] + ec[i - 1]
<1>1. AreasNo \in Nat /\ 0 \in 0 .. AreasNo
  BY Constants
<1>2. \A i \in 0 .. AreasNo : f[i] = IF i = 0 THEN 0 ELSE f[i - 1] + ec[i - 1]
  BY DEF Erases0
<1>3. ASSUME NEW i \in 1 .. AreasNo PROVE f[i] = f[i - 1] + ec[i - 1]
  <2>1. i \in 0 .. AreasNo /\ i # 0
    BY <1>1
  <2>2. QED
    BY <1>2, <2>1
<1>4. QED
  BY <1>1, <1>2, <1>3

(* The running sum of erase counts exists, and its last entry is the total. *)
LEMMA TotalExists ==
    ASSUME NEW m \in Map
    PROVE  \E f \in [0 .. AreasNo -> Nat] : Erases0(f, m.erasecount) /\ TotalErases(m) = f[AreasNo]
<1> DEFINE ec == m.erasecount
           step == [i \in 1 .. AreasNo |-> [v \in Nat |-> v + ec[i - 1]]]
<1>1. ec \in [Area -> Nat] /\ AreasNo \in Nat /\ Area = 0 .. AreasNo - 1
  BY Constants DEF Map
<1>2. \A i \in 1 .. AreasNo : i - 1 \in Area
  BY <1>1
<1>3. step \in [1 .. AreasNo -> [Nat -> Nat]]
  BY <1>1, <1>2
<1>4. Solutions(AreasNo, Nat, 0, step) # {}
  <2> HIDE DEF step
  <2>1. QED
    BY <1>1, <1>3, RecursionExists
<1>5. PICK f \in [0 .. AreasNo -> Nat] :
            f[0] = 0 /\ \A i \in 1 .. AreasNo : f[i] = step[i][f[i - 1]]
  BY <1>4 DEF Solutions
<1>6. ASSUME NEW i \in 0 .. AreasNo
      PROVE  f[i] = IF i = 0 THEN 0 ELSE f[i - 1] + ec[i - 1]
  <2>1. CASE i = 0
    BY <1>5, <2>1
  <2>2. CASE i # 0
    <3>1. i \in 1 .. AreasNo /\ i - 1 \in 0 .. AreasNo
      BY <1>1, <2>2
    <3>2. f[i - 1] \in Nat
      BY <1>5, <3>1
    <3>3. QED
      BY <1>5, <2>2, <3>1, <3>2
  <2>3. QED
    BY <2>1, <2>2
<1>7. Erases0(f, ec)
  BY <1>5, <1>6 DEF Erases0
<1> DEFINE g == CHOOSE g : Erases0(g, ec)
<1>8. Erases0(g, ec)
  BY <1>7
<1>9. TotalErases(m) = g[AreasNo]
  BY DEF TotalErases, Erases0
<1> HIDE DEF g, ec
<1>10. /\ g[0] = 0 /\ f[0] = 0
       /\ \A i \in 1 .. AreasNo : g[i] = g[i - 1] + ec[i - 1] /\ f[i] = f[i - 1] + ec[i - 1]
  BY <1>1, <1>7, <1>8, ErasesAt
<1>11. Agree(AreasNo, f, g)
  BY <1>10 DEF Agree
<1>12. f[AreasNo] = g[AreasNo]
  BY <1>1, <1>11, RecursionAgrees
<1>13. QED
  BY <1>7, <1>9, <1>12 DEF ec

SameBut(m, n, a, b) == \A c \in Area \ {a, b} : n.erasecount[c] = m.erasecount[c]

Balance(m, n, a, b) ==
    /\ TotalErases(m) \in Nat /\ TotalErases(n) \in Nat
    /\ TotalErases(n) + m.erasecount[a] + m.erasecount[b]
            = TotalErases(m) + n.erasecount[a] + n.erasecount[b]

(* Equal sums that grow by the same. *)
LEMMA SumsGrow ==
    ASSUME NEW g \in Nat, NEW f \in Nat, NEW p \in Nat, NEW q \in Nat, NEW u \in Nat,
           NEW v \in Nat, NEW x \in Nat, NEW y \in Nat, g + p + q = f + u + v
    PROVE  /\ (g + y) + (p + x) + q = (f + x) + (u + y) + v
           /\ (g + y) + p + (q + x) = (f + x) + u + (v + y)
OBVIOUS

(* Two maps whose erase counts differ in two areas only. *)
LEMMA TotalChanges ==
    ASSUME NEW m \in Map, NEW n \in Map, NEW a \in Area, NEW b \in Area, a # b,
           SameBut(m, n, a, b)
    PROVE  Balance(m, n, a, b)
<1> DEFINE ec == m.erasecount
           ed == n.erasecount
<1>1. ec \in [Area -> Nat] /\ ed \in [Area -> Nat] /\ AreasNo \in Nat /\ Area = 0 .. AreasNo - 1
  BY Constants DEF Map
<1>2. PICK f \in [0 .. AreasNo -> Nat] : Erases0(f, ec) /\ TotalErases(m) = f[AreasNo]
  BY TotalExists
<1>3. PICK g \in [0 .. AreasNo -> Nat] : Erases0(g, ed) /\ TotalErases(n) = g[AreasNo]
  BY TotalExists
<1>c. \A c \in Area \ {a, b} : ed[c] = ec[c]
  BY DEF SameBut
<1> HIDE DEF ec, ed
<1>4. /\ g[0] = 0 /\ f[0] = 0
      /\ \A i \in 1 .. AreasNo : g[i] = g[i - 1] + ed[i - 1] /\ f[i] = f[i - 1] + ec[i - 1]
  BY <1>1, <1>2, <1>3, ErasesAt
<1> DEFINE Part(e, x, k) == IF x < k THEN e[x] ELSE 0
           Old(k) == g[k] + Part(ec, a, k) + Part(ec, b, k)
           New(k) == f[k] + Part(ed, a, k) + Part(ed, b, k)
           P == {k \in 0 .. AreasNo : Old(k) = New(k)}
<1>5. a \in Nat /\ b \in Nat /\ a < AreasNo /\ b < AreasNo
      /\ ec[a] \in Nat /\ ec[b] \in Nat /\ ed[a] \in Nat /\ ed[b] \in Nat
  BY <1>1
<1>6. 0 \in P
  BY <1>1, <1>4, <1>5
<1>7. ASSUME NEW k \in 0 .. AreasNo - 1, k \in P PROVE k + 1 \in P
  <2>1. k \in Area /\ k + 1 \in 1 .. AreasNo /\ k \in 0 .. AreasNo /\ (k + 1) - 1 = k
    BY <1>1
  <2>2. g[k + 1] = g[k] + ed[k] /\ f[k + 1] = f[k] + ec[k]
    BY <1>4, <2>1
  <2>3. g[k] \in Nat /\ f[k] \in Nat /\ ec[k] \in Nat /\ ed[k] \in Nat
    BY <1>1, <1>2, <1>3, <2>1
  <2>4. Old(k) = New(k)
    BY <1>7
  <2> DEFINE p == Part(ec, a, k)
             q == Part(ec, b, k)
             u == Part(ed, a, k)
             v == Part(ed, b, k)
  <2>5. /\ p \in Nat /\ q \in Nat /\ u \in Nat /\ v \in Nat
        /\ g[k] + p + q = f[k] + u + v
    BY <1>5, <2>4
  <2>6. /\ Part(ec, a, k + 1) = IF k = a THEN p + ec[k] ELSE p
        /\ Part(ed, a, k + 1) = IF k = a THEN u + ed[k] ELSE u
        /\ Part(ec, b, k + 1) = IF k = b THEN q + ec[k] ELSE q
        /\ Part(ed, b, k + 1) = IF k = b THEN v + ed[k] ELSE v
    BY <1>5, <2>1, <2>3
  <2> HIDE DEF p, q, u, v
  <2>7. k # a /\ k # b => ed[k] = ec[k]
    BY <1>c, <2>1
  <2> DEFINE p1 == Part(ec, a, k + 1)
             q1 == Part(ec, b, k + 1)
             u1 == Part(ed, a, k + 1)
             v1 == Part(ed, b, k + 1)
  <2>8. Old(k + 1) = g[k + 1] + p1 + q1 /\ New(k + 1) = f[k + 1] + u1 + v1
    OBVIOUS
  <2> HIDE DEF Old, New, Part, p1, q1, u1, v1
  <2>9. /\ p1 = IF k = a THEN p + ec[k] ELSE p
        /\ u1 = IF k = a THEN u + ed[k] ELSE u
        /\ q1 = IF k = b THEN q + ec[k] ELSE q
        /\ v1 = IF k = b THEN v + ed[k] ELSE v
    BY <2>6 DEF p1, q1, u1, v1
  <2> DEFINE G == g[k]
             F == f[k]
             x == ec[k]
             y == ed[k]
             G1 == g[k + 1]
             F1 == f[k + 1]
  <2>a. G1 = G + y /\ F1 = F + x /\ G \in Nat /\ F \in Nat /\ x \in Nat /\ y \in Nat
    BY <2>2, <2>3
  <2>b. G + p + q = F + u + v /\ p \in Nat /\ q \in Nat /\ u \in Nat /\ v \in Nat
    BY <2>5
  <2>c. /\ p1 = IF k = a THEN p + x ELSE p
        /\ u1 = IF k = a THEN u + y ELSE u
        /\ q1 = IF k = b THEN q + x ELSE q
        /\ v1 = IF k = b THEN v + y ELSE v
        /\ k # a /\ k # b => x = y
    BY <2>7, <2>9
  <2> HIDE DEF G, F, x, y, G1, F1
  <2>d. /\ (G + y) + (p + x) + q = (F + x) + (u + y) + v
        /\ (G + y) + p + (q + x) = (F + x) + u + (v + y)
    BY <2>a, <2>b, SumsGrow
  <2>e. G1 + p1 + q1 = F1 + u1 + v1
    <3>1. CASE k = a
      <4>1. p1 = p + x /\ u1 = u + y /\ q1 = q /\ v1 = v
        BY <2>c, <3>1
      <4>2. QED
        BY <2>a, <2>d, <4>1
    <3>2. CASE k = b
      <4>1. p1 = p /\ u1 = u /\ q1 = q + x /\ v1 = v + y
        BY <2>c, <3>2
      <4>2. QED
        BY <2>a, <2>d, <4>1
    <3>3. CASE k # a /\ k # b
      <4>1. p1 = p /\ u1 = u /\ q1 = q /\ v1 = v /\ x = y
        BY <2>c, <3>3
      <4>2. QED
        BY <2>a, <2>b, <4>1
    <3>4. QED
      BY <3>1, <3>2, <3>3
  <2>10. g[k + 1] + p1 + q1 = f[k + 1] + u1 + v1
    BY <2>e DEF G1, F1
  <2>11. Old(k + 1) = New(k + 1) /\ k + 1 \in 0 .. AreasNo
    BY <1>1, <2>1, <2>8, <2>10
  <2>12. QED
    BY <2>11
<1> HIDE DEF P
<1>8. 0 .. AreasNo \subseteq P
  BY <1>1, <1>6, <1>7, IntervalInduction
<1>9. AreasNo \in P
  BY <1>1, <1>8
<1>10. g[AreasNo] + ec[a] + ec[b] = f[AreasNo] + ed[a] + ed[b]
  BY <1>1, <1>5, <1>9 DEF P
<1>11. QED
  BY <1>1, <1>2, <1>3, <1>10 DEF ec, ed, Balance

(* The total after one more erase, after a swap, and as it was. *)
LEMMA TotalOne ==
    ASSUME NEW m \in Map, NEW n \in Map, NEW a \in Area,
           n.erasecount = [m.erasecount EXCEPT ![a] = m.erasecount[a] + 1]
    PROVE  TotalErases(n) = TotalErases(m) + 1 /\ TotalErases(m) \in Nat
<1>1. PICK b \in Area : b # a
  BY Constants
<1>2. m.erasecount \in [Area -> Nat]
  BY DEF Map
<1>3. /\ \A c \in Area \ {a, b} : n.erasecount[c] = m.erasecount[c]
      /\ n.erasecount[a] = m.erasecount[a] + 1 /\ n.erasecount[b] = m.erasecount[b]
      /\ m.erasecount[a] \in Nat /\ m.erasecount[b] \in Nat
  BY <1>1, <1>2
<1>4. /\ TotalErases(m) \in Nat /\ TotalErases(n) \in Nat
      /\ TotalErases(n) + m.erasecount[a] + m.erasecount[b]
            = TotalErases(m) + n.erasecount[a] + n.erasecount[b]
  <2>1. SameBut(m, n, a, b)
    BY <1>3 DEF SameBut
  <2>2. Balance(m, n, a, b)
    BY <1>1, <2>1, TotalChanges
  <2>3. QED
    BY <2>2 DEF Balance
<1>5. QED
  BY <1>3, <1>4

(* Swapping two areas keeps the total of erases: only the order of the sum
   changes. *)
LEMMA TotalSwap ==
    ASSUME NEW m \in Map, NEW n \in Map, NEW a \in Area, NEW b \in Area, a # b,
           n.erasecount = [m.erasecount EXCEPT ![a] = m.erasecount[b], ![b] = m.erasecount[a]]
    PROVE  TotalErases(n) = TotalErases(m)
<1>1. m.erasecount \in [Area -> Nat]
  BY DEF Map
<1>2. /\ \A c \in Area \ {a, b} : n.erasecount[c] = m.erasecount[c]
      /\ n.erasecount[a] = m.erasecount[b] /\ n.erasecount[b] = m.erasecount[a]
      /\ m.erasecount[a] \in Nat /\ m.erasecount[b] \in Nat
  BY <1>1
<1>3. /\ TotalErases(m) \in Nat /\ TotalErases(n) \in Nat
      /\ TotalErases(n) + m.erasecount[a] + m.erasecount[b]
            = TotalErases(m) + n.erasecount[a] + n.erasecount[b]
  <2>1. SameBut(m, n, a, b)
    BY <1>2 DEF SameBut
  <2>2. Balance(m, n, a, b)
    BY <2>1, TotalChanges
  <2>3. QED
    BY <2>2 DEF Balance
<1>4. QED
  BY <1>2, <1>3

(* The total of erases depends on the erase counts only. *)
LEMMA TotalStays ==
    ASSUME NEW m, NEW n, n.erasecount = m.erasecount
    PROVE  TotalErases(n) = TotalErases(m)
BY DEF TotalErases

-----------------------------------------------------------------------------
(* What a step leaves alone.                                               *)

SameMove == mv' = mv /\ target' = target

SameTx ==
    /\ replaced' <=> replaced
    /\ updated' <=> updated
    /\ invalidated' <=> invalidated
    /\ replaced => neuPage' = neuPage /\ oldPage' = oldPage

SameStatus == logged' = logged /\ inLog' = inLog /\ ram' = ram /\ cached' = cached

SameRest == UNCHANGED <<phase, found, ops>>

(* An entry of the superblock that belongs to an operation. *)
MapEntry(e) ==
    /\ Grows(e) /\ e.op \in MapOp
    /\ map' = Applied(map, e)
    /\ UNCHANGED <<flashVars, index, sum, addr, phase, found, bounds>>

(* The parts of Core that the step lemmas use, and the types they give. *)
LEMMA CoreParts ==
    ASSUME Core
    PROVE  /\ InFlash /\ IsProg(log) /\ LogOK /\ Recovered /\ MapOK /\ OpOK /\ FilesOK
           /\ PagesOK /\ MoveOK /\ TxOK /\ SumOK /\ SumTyped /\ map \in Map
           /\ logged \in [Area -> [Page -> SummaryEntry]]
           /\ ram \in [Area -> [Page -> SummaryEntry]]
           /\ \A a \in Area : SummaryOf(map, sum, a) = ram[a]
           /\ inLog \subseteq Area
           /\ map.type \in [Area -> AreaType] /\ map.status \in [Area -> AreaStatus]
           /\ map.pos \in [Area -> Pos] /\ map.erasecount \in [Area -> Nat]
           /\ map.active \in [AreaType -> Area] /\ map.used \in Nat /\ map.deletions \in Nat
           /\ FixedAreas /\ OtherAreas /\ PositionsDistinct /\ Totals /\ ActiveOK
           /\ InitOK /\ CloseOK /\ DeleteOK /\ ContentsOK
           /\ lastOp.op \in {"invalidateOldPages", "initAreaAs", "closeArea", "deleteArea",
                              "deleteAreaContents"}
           /\ NoOp => ext = "none"
           /\ ~NoOp => lastOp.area \in Area \ {0}
           /\ DataPages /\ EmptyPages /\ LoggedPages /\ WrittenPages /\ DeletedPages
           /\ BufferPages
           /\ buffer \in Area \ {0}
<1>1. /\ InFlash /\ IsProg(log) /\ LogOK /\ Recovered /\ MapOK /\ OpOK /\ FilesOK
      /\ PagesOK /\ MoveOK /\ TxOK /\ SumOK
  BY DEF Core, Sound, Disk
<1>2. SumTyped /\ map \in Map
  BY <1>1 DEF SumOK, SumTyped, MapOK
<1>3. LoggedIs /\ RamIs
  BY <1>1, <1>2, LoggedType, RamType
<1>4. inLog \subseteq Area
  BY DEF inLog
<1>5. /\ map.type \in [Area -> AreaType] /\ map.status \in [Area -> AreaStatus]
      /\ map.pos \in [Area -> Pos] /\ map.erasecount \in [Area -> Nat]
      /\ map.active \in [AreaType -> Area] /\ map.used \in Nat /\ map.deletions \in Nat
  BY <1>2, MapFields
<1>6. FixedAreas /\ OtherAreas /\ PositionsDistinct /\ Totals /\ ActiveOK
  BY <1>1 DEF MapOK
<1>7. /\ InitOK /\ CloseOK /\ DeleteOK /\ ContentsOK
      /\ lastOp.op \in {"invalidateOldPages", "initAreaAs", "closeArea", "deleteArea",
                         "deleteAreaContents"}
      /\ NoOp => ext = "none"
      /\ ~NoOp => lastOp.area \in Area \ {0}
  BY <1>1 DEF OpOK
<1>8. /\ DataPages /\ EmptyPages /\ LoggedPages /\ WrittenPages /\ DeletedPages
      /\ BufferPages
  BY <1>1 DEF PagesOK
<1>9. buffer \in Area \ {0}
  BY <1>5, <1>6 DEF buffer, FixedAreas, AreaType
<1>10. QED
  BY <1>1, <1>2, <1>3, <1>4, <1>5, <1>6, <1>7, <1>8, <1>9 DEF LoggedIs, RamIs

(* The parts make the whole. *)
LEMMA CoreWhole ==
    ASSUME InFlash', IsProg(log'), LogOK', Recovered', (map \in Map)', FixedAreas', OtherAreas',
           PositionsDistinct', Totals', ActiveOK', OpOK', FilesOK', PagesOK', MoveOK', TxOK', SumOK'
    PROVE  Core'
BY DEF Core, Sound, Disk, MapOK

(* An area-map entry other than a swap leaves the views of move,
   transaction and page states alone. *)
LEMMA MapEntryViews ==
    ASSUME NEW e, MapEntry(e), Core, e.op # "swap", map'.pos = map.pos
    PROVE  /\ SameMove /\ SameTx /\ SameStatus /\ SameRest
           /\ IsProg(log') /\ LogOK' /\ Recovered' /\ InFlash' /\ SumTyped'
           /\ ~NoOp => lastOp' = lastOp /\ ext' = e.op
<1>1. Grows(e) /\ e.op \in MapOp /\ map' = Applied(map, e)
      /\ UNCHANGED <<flash, asWritten, bad, index, sum, addr, phase, found, ops>>
  BY DEF MapEntry, flashVars, bounds
<1>2. /\ ~IsCheckpoint(e, "areaMgmt") /\ ~IsCheckpoint(e, "garbage")
      /\ ~IsCheckpoint(e, "dataIO") /\ ~IsCheckpoint(e, "summaryCache")
      /\ e.op \in ExternOp /\ e.op \notin MoveOp \union {"moveValidData"}
      /\ e.op \notin PageOp \union DropOp /\ EntryOK(e) /\ e.op # "update"
      /\ e.op \notin {"replacePage", "update", "invalidateOldPages"}
  BY <1>1 DEF MapOp, IsCheckpoint, ExternOp, MoveOp, PageOp, DropOp, EntryOK
<1>3. SameMove
  BY <1>1, <1>2, MoveView DEF SameMove
<1>4. SameTx
  BY <1>1, <1>2, TxView DEF SameTx
<1>5. ~NoOp => lastOp' = lastOp /\ ext' = e.op
  BY <1>1, <1>2, OpView
<1>6. \A a \in Area : Base(a)' = Base(a)
  BY <1>1 DEF Base
<1>7. logged' = logged /\ inLog' = inLog /\ LogOK' /\ IsProg(log')
  BY <1>1, <1>2, <1>6, CoreParts, LoggedGrows, LogOKGrows, LogGrows
<1>8. SumTyped' /\ ram' = ram /\ cached' = cached
  BY <1>1, <1>6, CoreParts, RamStays
<1>9. Recovered'
  BY <1>1, <1>2, CoreParts, RecoveredGrows DEF AddrStep
<1>10. InFlash'
  BY <1>1, CoreParts DEF InFlash
<1>11. QED
  BY <1>1, <1>3, <1>4, <1>5, <1>7, <1>8, <1>9, <1>10 DEF SameStatus, SameRest

(* The parts of the invariant that a step leaves alone. *)
LEMMA FilesStay ==
    ASSUME FilesOK, addr' = addr, flash' = flash, map'.pos = map.pos,
           \A f \in FilePage : addr[f] # NoAddr =>
                map'.type[addr[f][1]] = "data" /\ ~Deleting(addr[f][1])'
    PROVE  FilesOK'
BY DEF FilesOK

(* The transaction's facts survive a step that keeps its entries and the
   addresses. *)
LEMMA TxStays ==
    ASSUME TxOK, SameTx, addr' = addr, ~replaced \/ lastOp'.op \in {"invalidateOldPages", "closeArea"},
           \A a \in Area : map.type[a] = "data" => map'.type[a] = "data" \/ ~replaced
    PROVE  TxOK'
BY DEF TxOK, SameTx, Unreferenced, Addr

(* The facts of a move survive a step that keeps its entries and the areas
   it works on. *)
LEMMA MoveStays ==
    ASSUME MoveOK, SameMove, SameTx, mv # "ok" =>
             /\ map'.type[target] = map.type[target]
             /\ mv # "setNewSummary" =>
                  /\ map'.status[target] = map.status[target]
                  /\ map'.pos = map.pos /\ asWritten' = asWritten
                  /\ map'.active["data"] = map.active["data"]
    PROVE  MoveOK'
BY DEF MoveOK, SameMove, SameTx

(* The page states as they were, in the journal and in RAM. *)
LEMMA SumStays ==
    ASSUME SumOK, SameStatus, SumTyped', sum' = sum,
           \A a \in cached : map'.type[a] = "data",
           \A a \in Area : Deleting(a) => Deleting(a)',
           \A a \in Area : (Deleting(a) /\ ext \in {"remove", "status"})' => a \notin cached
    PROVE  SumOK'
<1>1. \A a \in cached : sum[a] \in [Page -> SummaryEntry] /\ a \in Area
  BY DEF SumOK
<1>2. \A a \in cached' : (a \in Area /\ map.type[a] = "data" /\ sum[a] \in [Page -> SummaryEntry])'
  BY <1>1 DEF SameStatus
<1>3. \A a \in Area : (a \in inLog => a \in cached)' /\ (~Deleting(a) => ram[a] = logged[a])'
  BY DEF SumOK, SameStatus
<1>4. \A a \in Area : (Deleting(a) /\ ext \in {"remove", "status"})' => a \notin cached'
  BY DEF SameStatus
<1>5. QED
  BY <1>2, <1>3, <1>4 DEF SumOK

(* The entries of the superblock, one kind after the other. *)
MapEntryEffect ==
    /\ SameMove /\ SameTx /\ SameStatus /\ SameRest
    /\ IsProg(log') /\ LogOK' /\ Recovered' /\ InFlash' /\ SumTyped'
    /\ UNCHANGED <<flash, asWritten, bad, index, sum, addr>>

(* The map and the views after a type entry. *)
LEMMA TypeEntry ==
    ASSUME Core, NEW a \in Area, NEW t \in AreaType, MapEntry(Type(a, t))
    PROVE  /\ MapEntryEffect
           /\ ~NoOp => lastOp' = lastOp /\ ext' = "type"
           /\ map' \in Map /\ map'.type = [map.type EXCEPT ![a] = t] /\ map'.status = map.status
           /\ map'.pos = map.pos /\ map'.erasecount = map.erasecount /\ map'.active = map.active
           /\ map'.used = map.used /\ map'.deletions = map.deletions
<1>1. map' = Applied(map, Type(a, t)) /\ map \in Map
  BY CoreParts DEF MapEntry
<1>2. /\ map' \in Map /\ map'.type = [map.type EXCEPT ![a] = t] /\ map'.status = map.status
      /\ map'.pos = map.pos /\ map'.erasecount = map.erasecount /\ map'.active = map.active
      /\ map'.used = map.used /\ map'.deletions = map.deletions
  BY <1>1, AppliedType
<1>3. Type(a, t).op = "type"
  BY DEF Type
<1>4. QED
  BY <1>2, <1>3, MapEntryViews DEF MapEntryEffect, MapEntry, flashVars

(* The map and the views after a status entry. *)
LEMMA StatusEntry ==
    ASSUME Core, NEW a \in Area, NEW s \in AreaStatus, MapEntry(Status(a, s))
    PROVE  /\ MapEntryEffect
           /\ ~NoOp => lastOp' = lastOp /\ ext' = "status"
           /\ map' \in Map /\ map'.type = map.type /\ map'.status = [map.status EXCEPT ![a] = s]
           /\ map'.pos = map.pos /\ map'.erasecount = map.erasecount /\ map'.active = map.active
           /\ map'.used = map.used /\ map'.deletions = map.deletions
<1>1. map' = Applied(map, Status(a, s)) /\ map \in Map
  BY CoreParts DEF MapEntry
<1>2. /\ map' \in Map /\ map'.type = map.type /\ map'.status = [map.status EXCEPT ![a] = s]
      /\ map'.pos = map.pos /\ map'.erasecount = map.erasecount /\ map'.active = map.active
      /\ map'.used = map.used /\ map'.deletions = map.deletions
  BY <1>1, AppliedStatus
<1>3. Status(a, s).op = "status"
  BY DEF Status
<1>4. QED
  BY <1>2, <1>3, MapEntryViews DEF MapEntryEffect, MapEntry, flashVars

(* The map and the views after an erase-count entry. *)
LEMMA EraseEntry ==
    ASSUME Core, NEW a \in Area, MapEntry(IncreaseErasecount(a))
    PROVE  /\ MapEntryEffect
           /\ ~NoOp => lastOp' = lastOp /\ ext' = "increaseErasecount"
           /\ map' \in Map /\ map'.type = map.type /\ map'.status = map.status
           /\ map'.pos = map.pos
           /\ map'.erasecount = [map.erasecount EXCEPT ![a] = map.erasecount[a] + 1]
           /\ map'.active = map.active
           /\ map'.used = map.used /\ map'.deletions = map.deletions + 1
<1>1. map' = Applied(map, IncreaseErasecount(a)) /\ map \in Map
  BY CoreParts DEF MapEntry
<1>2. /\ map' \in Map /\ map'.type = map.type /\ map'.status = map.status
      /\ map'.pos = map.pos
      /\ map'.erasecount = [map.erasecount EXCEPT ![a] = map.erasecount[a] + 1]
      /\ map'.active = map.active
      /\ map'.used = map.used /\ map'.deletions = map.deletions + 1
  BY <1>1, AppliedErase
<1>3. IncreaseErasecount(a).op = "increaseErasecount"
  BY DEF IncreaseErasecount
<1>4. QED
  BY <1>2, <1>3, MapEntryViews DEF MapEntryEffect, MapEntry, flashVars

(* The map and the views after an active-area entry. *)
LEMMA ActiveEntry ==
    ASSUME Core, NEW a \in Area, NEW t \in AreaType, MapEntry(ActiveArea(t, a))
    PROVE  /\ MapEntryEffect
           /\ ~NoOp => lastOp' = lastOp /\ ext' = "activeArea"
           /\ map' \in Map /\ map'.type = map.type
           /\ map'.status = [map.status EXCEPT ![a] = "active"]
           /\ map'.pos = map.pos /\ map'.erasecount = map.erasecount
           /\ map'.active = [map.active EXCEPT ![t] = a]
           /\ map'.used = map.used /\ map'.deletions = map.deletions
<1>1. map' = Applied(map, ActiveArea(t, a)) /\ map \in Map
  BY CoreParts DEF MapEntry
<1>2. /\ map' \in Map /\ map'.type = map.type
      /\ map'.status = [map.status EXCEPT ![a] = "active"]
      /\ map'.pos = map.pos /\ map'.erasecount = map.erasecount
      /\ map'.active = [map.active EXCEPT ![t] = a]
      /\ map'.used = map.used /\ map'.deletions = map.deletions
  BY <1>1, AppliedActive
<1>3. ActiveArea(t, a).op = "activeArea"
  BY DEF ActiveArea
<1>4. QED
  BY <1>2, <1>3, MapEntryViews DEF MapEntryEffect, MapEntry, flashVars

(* The map and the views after a used-areas entry. *)
LEMMA UsedEntry ==
    ASSUME Core, NEW u \in Nat, MapEntry(UsedAreas(u))
    PROVE  /\ MapEntryEffect
           /\ ~NoOp => lastOp' = lastOp /\ ext' = "usedAreas"
           /\ map' \in Map /\ map'.type = map.type /\ map'.status = map.status
           /\ map'.pos = map.pos /\ map'.erasecount = map.erasecount /\ map'.active = map.active
           /\ map'.used = u /\ map'.deletions = map.deletions
<1>1. map' = Applied(map, UsedAreas(u)) /\ map \in Map
  BY CoreParts DEF MapEntry
<1>2. /\ map' \in Map /\ map'.type = map.type /\ map'.status = map.status
      /\ map'.pos = map.pos /\ map'.erasecount = map.erasecount /\ map'.active = map.active
      /\ map'.used = u /\ map'.deletions = map.deletions
  BY <1>1, AppliedUsed
<1>3. UsedAreas(u).op = "usedAreas"
  BY DEF UsedAreas
<1>4. QED
  BY <1>2, <1>3, MapEntryViews DEF MapEntryEffect, MapEntry, flashVars

(* The pages of an area and what is known of them, as they were. *)
LEMMA PagesStay ==
    ASSUME NEW b \in Area, logged'[b] = logged[b], flash'[map'.pos[b]] = flash[map.pos[b]],
           addr' = addr
    PROVE  /\ FreeOK(b)' <=> FreeOK(b)
           /\ UsedOK(b)' <=> UsedOK(b)
           /\ ErasedArea(b)' <=> ErasedArea(b)
BY DEF FreeOK, UsedOK, ErasedArea

(* An entry that changes nothing but the journal. *)
NoteEntry(e) ==
    /\ Grows(e) /\ e.op \in NoteOp \union AreaMgmtOp /\ ~IsCheckpoint(e, "summaryCache")
    /\ UNCHANGED <<flashVars, index, ramVars, phase, found, bounds>>

NoteEffect ==
    /\ SameStatus /\ SameRest
    /\ IsProg(log') /\ LogOK' /\ Recovered' /\ InFlash' /\ SumTyped'
    /\ UNCHANGED <<flash, asWritten, bad, index, map, sum, addr>>

(* What an entry that is only noted changes: one view of the log. *)
LEMMA NoteEntryViews ==
    ASSUME NEW e, NoteEntry(e), Core
    PROVE  NoteEffect
<1>1. Grows(e) /\ e.op \in NoteOp \union AreaMgmtOp
      /\ UNCHANGED <<flash, asWritten, bad, index, map, sum, addr, phase, found, ops>>
  BY DEF NoteEntry, flashVars, ramVars, bounds
<1>2. /\ ~IsCheckpoint(e, "summaryCache")
      /\ e.op \notin PageOp \union DropOp /\ EntryOK(e) /\ e.op # "update"
      /\ e.op \notin MapOp
  BY <1>1 DEF MapOp, NoteEntry, NoteOp, AreaMgmtOp, PageOp, DropOp, EntryOK
<1>6. \A a \in Area : Base(a)' = Base(a)
  BY <1>1 DEF Base
<1>7. logged' = logged /\ inLog' = inLog /\ LogOK' /\ IsProg(log')
  BY <1>1, <1>2, <1>6, CoreParts, LoggedGrows, LogOKGrows, LogGrows
<1>8. SumTyped' /\ ram' = ram /\ cached' = cached
  BY <1>1, <1>6, CoreParts, RamStays
<1>9. Recovered'
  <2>1. Applied(map, e) = map
    BY <1>2, AppliedOther
  <2>2. QED
    BY <1>1, <1>2, <2>1, CoreParts, RecoveredGrows DEF AddrStep
<1>10. InFlash'
  BY <1>1, CoreParts DEF InFlash
<1>11. QED
  BY <1>1, <1>7, <1>8, <1>9, <1>10 DEF SameStatus, SameRest, NoteEffect

(* While an area is initialised or closed the pages and their states stay. *)
LEMMA PagesSame ==
    ASSUME Core, SameStatus, SameMove, flash' = flash, asWritten' = asWritten, addr' = addr,
           map'.pos = map.pos, map'.type = map.type, buffer' = buffer, lastOp' = lastOp,
           lastOp.op \in {"initAreaAs", "closeArea"}, mv # "deletedOldArea"
    PROVE  PagesOK'
<1>1. DataPages' /\ EmptyPages' /\ LoggedPages'
  BY CoreParts DEF DataPages, EmptyPages, LoggedPages, FreeOK, UsedOK, ErasedArea, SameStatus,
                   SameMove, Lost, Deleting, Doing1
<1>2. WrittenPages'
  BY CoreParts DEF WrittenPages, SameStatus, Deleting, Doing1
<1>3. DeletedPages'
  BY DEF Deleting, Doing1, DeletedPages
<1>4. BufferPages'
  BY CoreParts DEF BufferPages, SameMove, ErasedArea
<1>5. QED
  BY <1>1, <1>2, <1>3, <1>4 DEF PagesOK

(* The map and the operation in progress, as they were. *)
LEMMA MapSame ==
    ASSUME Core, map' = map, lastOp' = lastOp, ext' = ext, SameMove, SameTx
    PROVE  /\ (map \in Map)' /\ FixedAreas' /\ OtherAreas' /\ PositionsDistinct' /\ Totals'
           /\ ActiveOK' /\ OpOK'
<1>1. (map \in Map)' /\ FixedAreas' /\ OtherAreas' /\ PositionsDistinct' /\ ActiveOK'
  BY CoreParts DEF FixedAreas, OtherAreas, AreaOK, PositionsDistinct, ActiveOK, Doing1, Deleting,
                   buffer
<1>2. Totals'
  BY CoreParts DEF Totals, Adjust
<1>3. OpOK'
  BY CoreParts DEF OpOK, NoOp, InitOK, CloseOK, DeleteOK, ContentsOK, buffer, SameMove, SameTx
<1>4. QED
  BY <1>1, <1>2, <1>3

(* What is read in RAM of an area while the cache stays. *)
LEMMA RamStaysAt ==
    ASSUME SumTyped, sum' = sum, map' = map
    PROVE  /\ SumTyped' /\ cached' = cached /\ ram' \in [Area -> [Page -> SummaryEntry]]
           /\ \A a \in Area : Base(a)' = Base(a) => ram'[a] = ram[a]
<1>1. SumTyped' /\ cached' = cached
  BY DEF SumTyped, cached
<1>2. RamIs
  BY RamType
<1>3. (SumTyped => RamIs)'
  BY RamType, PTL
<1>4. RamIs'
  BY <1>1, <1>3
<1>5. ASSUME NEW a \in Area, Base(a)' = Base(a)
      PROVE  ram'[a] = ram[a]
  <2>1. CASE a \in cached
    BY <2>1, <1>1, <1>2, <1>4 DEF RamIs
  <2>2. CASE a \notin cached
    <3>1. ram[a] = [p \in Page |-> Base(a)]
      BY <2>2, <1>2 DEF RamIs
    <3>2. ram'[a] = [p \in Page |-> Base(a)']
      BY <2>2, <1>1, <1>4 DEF RamIs
    <3>3. QED
      BY <3>1, <3>2, <1>5
  <2>3. QED
    BY <2>1, <2>2
<1>6. QED
  BY <1>1, <1>4, <1>5 DEF RamIs

(* What follows of the map for the parts of the invariant that only know it. *)
LEMMA MapParts ==
    ASSUME Core, SameMove, SameTx, lastOp' = lastOp, ext' # "none" \/ ext' = ext,
           map' \in Map, map'.type = map.type, map'.status = map.status, map'.pos = map.pos,
           map'.active = map.active
    PROVE  /\ FixedAreas' /\ PositionsDistinct' /\ NonEmpty(map') = NonEmpty(map)
           /\ buffer' = buffer
BY CoreParts DEF FixedAreas, PositionsDistinct, NonEmpty, buffer
-----------------------------------------------------------------------------
(* initAreaAs.                                                             *)

(* The area gets its type. *)
LEMMA InitType ==
    ASSUME Core, NEW a, a = lastOp.area, lastOp.op = "initAreaAs", ext = "none",
           MapEntry(Type(a, "data"))
    PROVE  /\ Core' /\ MapEntryEffect /\ lastOp' = lastOp /\ ext' = "type"
           /\ map'.pos = map.pos /\ map'.active = map.active /\ map'.status = map.status
<1>n. ~NoOp
  BY DEF NoOp
<1>a. a \in Area \ {0, buffer} /\ a \in Area /\ map.active["data"] = 0 /\ ~replaced
      /\ (mv = "ok" \/ (mv = "setNewSummary" /\ target = a))
  BY <1>n, CoreParts DEF InitOK
<1>m. /\ MapEntryEffect /\ lastOp' = lastOp /\ ext' = "type"
      /\ map' \in Map /\ map'.type = [map.type EXCEPT ![a] = "data"] /\ map'.status = map.status
      /\ map'.pos = map.pos /\ map'.erasecount = map.erasecount /\ map'.active = map.active
      /\ map'.used = map.used /\ map'.deletions = map.deletions
  BY <1>a, <1>n, TypeEntry DEF AreaType
<1>u. /\ SameMove /\ SameTx /\ SameStatus /\ SameRest
      /\ IsProg(log') /\ LogOK' /\ Recovered' /\ InFlash' /\ SumTyped'
      /\ flash' = flash /\ asWritten' = asWritten /\ sum' = sum /\ addr' = addr
  BY <1>m DEF MapEntryEffect
<1>1. FixedAreas'
  BY <1>m, <1>a, CoreParts, Constants DEF FixedAreas, buffer
<1>2. OtherAreas'
  BY <1>m, <1>a, CoreParts, Constants DEF OtherAreas, AreaOK, buffer, Doing1, Deleting
<1>3. PositionsDistinct'
  BY <1>m, CoreParts DEF PositionsDistinct
<1>4. Totals'
  <2>1. NonEmpty(map') = NonEmpty(map)
    BY <1>m DEF NonEmpty
  <2>2. TotalErases(map') = TotalErases(map)
    BY <1>m, TotalStays
  <2>3. Adjust' = Adjust
    BY <1>m DEF Adjust
  <2>4. QED
    BY <1>m, <2>1, <2>2, <2>3, CoreParts DEF Totals
<1>5. ActiveOK'
  BY <1>a, <1>m DEF ActiveOK
<1>6. OpOK'
  BY <1>a, <1>m, <1>u, CoreParts
     DEF OpOK, NoOp, InitOK, CloseOK, DeleteOK, ContentsOK, buffer, SameMove, SameTx
<1>7. FilesOK'
  BY <1>m, <1>u, <1>a, CoreParts DEF FilesOK, Deleting, Doing1, Addr
<1>8. PagesOK'
  <2>1. DataPages'
    <3>1. ASSUME NEW b \in Area, FreeOK(b), UsedOK(b)
          PROVE  (FreeOK(b) /\ UsedOK(b))'
      BY <3>1, <1>m, <1>u DEF FreeOK, UsedOK, SameStatus
    <3>2. ASSUME map.type[a] = "unset"
          PROVE  (FreeOK(a) /\ UsedOK(a))'
      <4>1. \A p \in Page : flash[map.pos[a]][p] = Erased
        BY <3>2, <1>a, CoreParts DEF EmptyPages, ErasedArea
      <4>2. \A f \in FilePage : ~(addr[f] # NoAddr /\ addr[f][1] = a)
        BY <3>2, <1>a, CoreParts DEF FilesOK
      <4>3. QED
        BY <4>1, <4>2, <1>m, <1>u DEF FreeOK, UsedOK, SameStatus
    <3>3. ASSUME map.type[a] = "data"
          PROVE  FreeOK(a) /\ UsedOK(a)
      BY <3>3, <1>a, CoreParts DEF DataPages, Deleting, Doing1, Lost
    <3>4. map.type[a] \in {"unset", "data"}
      BY <1>a, CoreParts DEF OtherAreas, AreaOK
    <3>5. (FreeOK(a) /\ UsedOK(a))'
      BY <3>1, <3>2, <3>3, <3>4, <1>a
    <3>6. \A b \in Area \ {a} :
            (map.type[b] = "data" /\ ~Deleting(b) /\ ~Lost(b))' => FreeOK(b) /\ UsedOK(b)
      BY <1>m, <1>u, <1>a, CoreParts DEF DataPages, Deleting, Doing1, Lost, SameMove
    <3>7. QED
      BY <3>1, <3>5, <3>6 DEF DataPages
  <2>2. EmptyPages'
    BY <1>m, <1>u, <1>a, CoreParts DEF EmptyPages, SameStatus, ErasedArea
  <2>3. LoggedPages'
    BY <1>m, <1>u, <1>a, CoreParts DEF LoggedPages, SameStatus
  <2>4. WrittenPages'
    BY <1>m, <1>u, <1>a, CoreParts DEF WrittenPages, SameStatus, Deleting, Doing1
  <2>5. DeletedPages'
    BY <1>m DEF DeletedPages, Deleting, Doing1
  <2>6. BufferPages'
    BY <1>m, <1>u, <1>n, <1>a, CoreParts DEF BufferPages, SameMove, ErasedArea, buffer, NoOp
  <2>7. QED
    BY <2>1, <2>2, <2>3, <2>4, <2>5, <2>6 DEF PagesOK
<1>9. MoveOK'
  BY <1>m, <1>u, <1>a, CoreParts, MoveStays DEF MoveOK
<1>10. TxOK'
  BY <1>u, <1>a DEF TxOK, SameTx
<1>11. SumOK'
  BY <1>m, <1>u, <1>a, CoreParts, SumStays DEF SumOK, Deleting, Doing1
<1>12. QED
  BY <1>1, <1>2, <1>3, <1>4, <1>5, <1>6, <1>7, <1>8, <1>9, <1>10, <1>11, <1>m, <1>u, CoreWhole

(* The area counts as used. *)
LEMMA InitUsed ==
    ASSUME Core, NEW a, a = lastOp.area, lastOp.op = "initAreaAs", ext = "type",
           map.status[a] = "empty", MapEntry(UsedAreas(map.used + 1))
    PROVE  /\ Core' /\ MapEntryEffect /\ lastOp' = lastOp /\ ext' = "usedAreas"
           /\ map'.pos = map.pos /\ map'.active = map.active /\ map'.status = map.status
<1>n. ~NoOp
  BY DEF NoOp
<1>a. a \in Area \ {0, buffer} /\ a \in Area /\ map.active["data"] = 0 /\ ~replaced
      /\ mv = "ok" /\ map.type[a] = "data"
  BY <1>n, CoreParts DEF InitOK
<1>m. /\ MapEntryEffect /\ lastOp' = lastOp /\ ext' = "usedAreas"
      /\ map' \in Map /\ map'.type = map.type /\ map'.status = map.status
      /\ map'.pos = map.pos /\ map'.erasecount = map.erasecount /\ map'.active = map.active
      /\ map'.used = map.used + 1 /\ map'.deletions = map.deletions
  <2>1. map.used + 1 \in Nat
    BY CoreParts
  <2>2. QED
    BY <1>n, <2>1, UsedEntry
<1>u. /\ SameMove /\ SameTx /\ SameStatus /\ SameRest
      /\ IsProg(log') /\ LogOK' /\ Recovered' /\ InFlash' /\ SumTyped'
      /\ flash' = flash /\ asWritten' = asWritten /\ sum' = sum /\ addr' = addr
  BY <1>m DEF MapEntryEffect
<1>1. FixedAreas'
  BY <1>m, CoreParts DEF FixedAreas, buffer
<1>2. OtherAreas'
  BY <1>m, CoreParts DEF OtherAreas, AreaOK, buffer, Doing1, Deleting
<1>3. PositionsDistinct'
  BY <1>m, CoreParts DEF PositionsDistinct
<1>4. Totals'
  <2>1. NonEmpty(map') = NonEmpty(map)
    BY <1>m DEF NonEmpty
  <2>2. TotalErases(map') = TotalErases(map)
    BY <1>m, TotalStays
  <2>3. Adjust' = 1 /\ Adjust = 0
    BY <1>m DEF Adjust
  <2>4. Cardinality(NonEmpty(map)) \in Nat
    BY CoreParts, NonEmptySize
  <2>5. QED
    BY <1>m, <2>1, <2>2, <2>3, <2>4, CoreParts DEF Totals
<1>5. ActiveOK'
  BY <1>a, <1>m DEF ActiveOK
<1>6. OpOK'
  BY <1>a, <1>m, <1>u, CoreParts
     DEF OpOK, NoOp, InitOK, CloseOK, DeleteOK, ContentsOK, buffer, SameMove, SameTx
<1>7. FilesOK'
  BY <1>m, <1>u, CoreParts DEF FilesOK, Deleting, Doing1, Addr
<1>8. PagesOK'
  <2>1. buffer' = buffer /\ mv # "deletedOldArea"
    BY <1>m, <1>a DEF buffer
  <2>2. QED
    BY <1>m, <1>u, <2>1, PagesSame
<1>9. MoveOK'
  BY <1>m, <1>u, CoreParts, MoveStays
<1>10. TxOK'
  BY <1>u, <1>a DEF TxOK, SameTx
<1>11. SumOK'
  BY <1>m, <1>u, CoreParts, SumStays DEF SumOK, Deleting, Doing1
<1>12. QED
  BY <1>1, <1>2, <1>3, <1>4, <1>5, <1>6, <1>7, <1>8, <1>9, <1>10, <1>11, <1>m, <1>u, CoreWhole

(* The area becomes the active one. *)
LEMMA InitActive ==
    ASSUME Core, NEW a, a = lastOp.area, lastOp.op = "initAreaAs",
           \/ ext = "usedAreas"
           \/ ext = "type" /\ map.status[a] # "empty",
           MapEntry(ActiveArea("data", a))
    PROVE  /\ Core' /\ MapEntryEffect /\ lastOp' = lastOp /\ ext' = "activeArea"
           /\ map'.pos = map.pos /\ buffer' = buffer /\ map'.active["data"] = a
<1>n. ~NoOp
  BY DEF NoOp
<1>a. a \in Area \ {0, buffer} /\ a \in Area /\ map.active["data"] = 0 /\ ~replaced
      /\ (mv = "ok" \/ (mv = "setNewSummary" /\ target = a /\ map.status[a] # "empty"))
      /\ map.type[a] = "data"
  BY <1>n, CoreParts DEF InitOK
<1>m. /\ MapEntryEffect /\ lastOp' = lastOp /\ ext' = "activeArea"
      /\ map' \in Map /\ map'.type = map.type
      /\ map'.status = [map.status EXCEPT ![a] = "active"]
      /\ map'.pos = map.pos /\ map'.erasecount = map.erasecount
      /\ map'.active = [map.active EXCEPT !["data"] = a]
      /\ map'.used = map.used /\ map'.deletions = map.deletions
  BY <1>a, <1>n, ActiveEntry DEF AreaType
<1>b. map'.active["data"] = a /\ \A t \in AreaType \ {"data"} : map'.active[t] = map.active[t]
  BY <1>m, CoreParts DEF AreaType
<1>c. buffer' = buffer
  BY <1>b DEF buffer, AreaType
<1>u. /\ SameMove /\ SameTx /\ SameStatus /\ SameRest
      /\ IsProg(log') /\ LogOK' /\ Recovered' /\ InFlash' /\ SumTyped'
      /\ flash' = flash /\ asWritten' = asWritten /\ sum' = sum /\ addr' = addr
  BY <1>m DEF MapEntryEffect
<1>1. FixedAreas'
  BY <1>m, <1>a, <1>b, <1>c, CoreParts, Constants DEF FixedAreas
<1>2. OtherAreas'
  BY <1>m, <1>a, <1>b, <1>c, CoreParts DEF OtherAreas, AreaOK, Doing1, Deleting
<1>3. PositionsDistinct'
  BY <1>m, CoreParts DEF PositionsDistinct
<1>4. Totals'
  <2>2. TotalErases(map') = TotalErases(map)
    BY <1>m, TotalStays
  <2>3. Adjust' = 0 /\ Adjust = IF ext = "usedAreas" THEN 1 ELSE 0
    BY <1>m DEF Adjust
  <2>4. /\ Cardinality(NonEmpty(map)) \in Nat
        /\ map.status[a] = "empty" => Cardinality(NonEmpty(map')) = Cardinality(NonEmpty(map)) + 1
        /\ map.status[a] # "empty" => NonEmpty(map') = NonEmpty(map)
    <3>1. map \in Map /\ map' \in Map /\ a \in Area /\ map'.status = [map.status EXCEPT ![a] = "active"]
      BY <1>a, <1>m, CoreParts
    <3>2. Cardinality(NonEmpty(map)) \in Nat
      BY <3>1, NonEmptySize
    <3>3. QED
      BY <3>1, <3>2, BecomesActive
  <2>5. ext = "usedAreas" => map.status[a] = "empty"
    BY CoreParts DEF InitOK
  <2>6. QED
    BY <1>m, <2>2, <2>3, <2>4, <2>5, CoreParts DEF Totals
<1>5. ActiveOK'
  BY <1>a, <1>b, <1>m, CoreParts DEF ActiveOK
<1>6. OpOK'
  BY <1>a, <1>b, <1>c, <1>m, <1>u, CoreParts
     DEF OpOK, NoOp, InitOK, CloseOK, DeleteOK, ContentsOK, SameMove, SameTx
<1>7. FilesOK'
  BY <1>m, <1>u, CoreParts DEF FilesOK, Deleting, Doing1, Addr
<1>8. PagesOK'
  <2>1. mv # "deletedOldArea"
    BY <1>a
  <2>2. QED
    BY <1>m, <1>u, <1>c, <2>1, PagesSame
<1>9. MoveOK'
  BY <1>m, <1>u, <1>a, CoreParts, MoveStays
<1>10. TxOK'
  BY <1>u, <1>a DEF TxOK, SameTx
<1>11. SumOK'
  BY <1>m, <1>u, CoreParts, SumStays DEF SumOK, Deleting, Doing1
<1>12. QED
  BY <1>1, <1>2, <1>3, <1>4, <1>5, <1>6, <1>7, <1>8, <1>9, <1>10, <1>11, <1>m, <1>u, <1>b, <1>c,
     CoreWhole
-----------------------------------------------------------------------------
(* closeArea, and the checkpoint that ends every operation.                *)

(* The active area is closed. *)
LEMMA CloseStatus ==
    ASSUME Core, NEW a, a = lastOp.area, lastOp.op = "closeArea", ext = "none",
           MapEntry(Status(a, "closed"))
    PROVE  /\ Core' /\ MapEntryEffect /\ lastOp' = lastOp /\ ext' = "status"
           /\ map'.pos = map.pos /\ map'.active = map.active /\ map'.type = map.type
<1>n. ~NoOp
  BY DEF NoOp
<1>a. a \in Area \ {0, buffer} /\ a \in Area /\ map.active["data"] = a /\ mv = "ok"
      /\ map.type[a] = "data" /\ map.status[a] = "active"
  BY <1>n, CoreParts DEF CloseOK
<1>m. /\ MapEntryEffect /\ lastOp' = lastOp /\ ext' = "status"
      /\ map' \in Map /\ map'.type = map.type
      /\ map'.status = [map.status EXCEPT ![a] = "closed"]
      /\ map'.pos = map.pos /\ map'.erasecount = map.erasecount /\ map'.active = map.active
      /\ map'.used = map.used /\ map'.deletions = map.deletions
  BY <1>n, <1>a, StatusEntry DEF AreaStatus
<1>u. /\ SameMove /\ SameTx /\ SameStatus /\ SameRest
      /\ IsProg(log') /\ LogOK' /\ Recovered' /\ InFlash' /\ SumTyped'
      /\ flash' = flash /\ asWritten' = asWritten /\ sum' = sum /\ addr' = addr
  BY <1>m DEF MapEntryEffect
<1>1. FixedAreas'
  BY <1>m, <1>a, CoreParts, Constants DEF FixedAreas, buffer
<1>2. OtherAreas'
  BY <1>m, <1>a, CoreParts DEF OtherAreas, AreaOK, buffer, Doing1, Deleting
<1>3. PositionsDistinct'
  BY <1>m, CoreParts DEF PositionsDistinct
<1>4. Totals'
  <2>1. NonEmpty(map') = NonEmpty(map)
    BY <1>m, <1>a, CoreParts, BecomesClosed
  <2>2. TotalErases(map') = TotalErases(map)
    BY <1>m, TotalStays
  <2>3. Adjust' = Adjust
    BY <1>m DEF Adjust
  <2>5. QED
    BY <1>m, <2>1, <2>2, <2>3, CoreParts DEF Totals
<1>5. ActiveOK'
  BY <1>a, <1>m DEF ActiveOK, Doing1
<1>6. OpOK'
  BY <1>a, <1>m, <1>u, CoreParts
     DEF OpOK, NoOp, InitOK, CloseOK, DeleteOK, ContentsOK, buffer, SameMove, SameTx
<1>7. FilesOK'
  BY <1>m, <1>u, CoreParts DEF FilesOK, Deleting, Doing1, Addr
<1>8. PagesOK'
  <2>1. buffer' = buffer /\ mv # "deletedOldArea"
    BY <1>m, <1>a DEF buffer
  <2>2. QED
    BY <1>m, <1>u, <2>1, PagesSame
<1>9. MoveOK'
  BY <1>m, <1>u, <1>a, CoreParts, MoveStays
<1>10. TxOK'
  BY <1>u, <1>m, CoreParts, TxStays
<1>11. SumOK'
  BY <1>m, <1>u, CoreParts, SumStays DEF SumOK, Deleting, Doing1
<1>12. QED
  BY <1>1, <1>2, <1>3, <1>4, <1>5, <1>6, <1>7, <1>8, <1>9, <1>10, <1>11, <1>m, <1>u, CoreWhole

(* And no area is active any more. *)
LEMMA CloseActive ==
    ASSUME Core, NEW a, a = lastOp.area, lastOp.op = "closeArea", ext = "status",
           MapEntry(ActiveArea("data", 0))
    PROVE  /\ Core' /\ MapEntryEffect /\ lastOp' = lastOp /\ ext' = "activeArea"
           /\ map'.pos = map.pos /\ buffer' = buffer /\ map'.active["data"] = 0
           /\ map'.type = map.type
<1>n. ~NoOp
  BY DEF NoOp
<1>a. a \in Area \ {0, buffer} /\ a \in Area /\ map.active["data"] = a /\ mv = "ok"
      /\ map.type[a] = "data" /\ map.status[a] = "closed" /\ 0 \in Area
      /\ map.status[0] = "active"
  BY <1>n, CoreParts, Constants DEF CloseOK, FixedAreas
<1>m. /\ MapEntryEffect /\ lastOp' = lastOp /\ ext' = "activeArea"
      /\ map' \in Map /\ map'.type = map.type
      /\ map'.status = [map.status EXCEPT ![0] = "active"]
      /\ map'.pos = map.pos /\ map'.erasecount = map.erasecount
      /\ map'.active = [map.active EXCEPT !["data"] = 0]
      /\ map'.used = map.used /\ map'.deletions = map.deletions
  BY <1>a, <1>n, ActiveEntry DEF AreaType
<1>s. map'.status = map.status
  BY <1>m, <1>a, CoreParts
<1>b. map'.active["data"] = 0 /\ \A t \in AreaType \ {"data"} : map'.active[t] = map.active[t]
  BY <1>m, CoreParts DEF AreaType
<1>c. buffer' = buffer
  BY <1>b DEF buffer, AreaType
<1>u. /\ SameMove /\ SameTx /\ SameStatus /\ SameRest
      /\ IsProg(log') /\ LogOK' /\ Recovered' /\ InFlash' /\ SumTyped'
      /\ flash' = flash /\ asWritten' = asWritten /\ sum' = sum /\ addr' = addr
  BY <1>m DEF MapEntryEffect
<1>1. FixedAreas'
  BY <1>m, <1>s, <1>b, <1>c, CoreParts DEF FixedAreas
<1>2. OtherAreas'
  BY <1>m, <1>s, <1>a, <1>b, <1>c, CoreParts DEF OtherAreas, AreaOK, Doing1, Deleting
<1>3. PositionsDistinct'
  BY <1>m, CoreParts DEF PositionsDistinct
<1>4. Totals'
  <2>1. NonEmpty(map') = NonEmpty(map)
    BY <1>s DEF NonEmpty
  <2>2. TotalErases(map') = TotalErases(map)
    BY <1>m, TotalStays
  <2>3. Adjust' = Adjust
    BY <1>m DEF Adjust
  <2>5. QED
    BY <1>m, <2>1, <2>2, <2>3, CoreParts DEF Totals
<1>5. ActiveOK'
  BY <1>b DEF ActiveOK
<1>6. OpOK'
  BY <1>a, <1>b, <1>c, <1>m, <1>s, <1>u, CoreParts
     DEF OpOK, NoOp, InitOK, CloseOK, DeleteOK, ContentsOK, SameMove, SameTx
<1>7. FilesOK'
  BY <1>m, <1>u, CoreParts DEF FilesOK, Deleting, Doing1, Addr
<1>8. PagesOK'
  BY <1>m, <1>u, <1>a, <1>c, PagesSame
<1>9. MoveOK'
  BY <1>m, <1>u, <1>a, CoreParts, MoveStays
<1>10. TxOK'
  BY <1>u, <1>m, CoreParts, TxStays
<1>11. SumOK'
  BY <1>m, <1>u, CoreParts, SumStays DEF SumOK, Deleting, Doing1
<1>12. QED
  BY <1>1, <1>2, <1>3, <1>4, <1>5, <1>6, <1>7, <1>8, <1>9, <1>10, <1>11, <1>m, <1>u, <1>b, <1>c,
     CoreWhole

(* All changes of the operation in progress were made. *)
OpDone ==
    \/ lastOp.op \in {"initAreaAs", "closeArea"} /\ ext = "activeArea"
    \/ lastOp.op = "deleteArea" /\ ext = "usedAreas"
    \/ lastOp.op = "deleteAreaContents" /\ ext # "none"

(* The checkpoint of AreaManagement. *)
LEMMA OpCheckpoint ==
    ASSUME Core, OpDone, NoteEntry(Checkpoint("areaMgmt"))
    PROVE  Core' /\ NoteEffect /\ NoOp' /\ SameMove /\ SameTx
<1>n. ~NoOp
  BY DEF NoOp, OpDone
<1> DEFINE e == Checkpoint("areaMgmt")
<1>e. /\ IsCheckpoint(e, "areaMgmt") /\ ~IsCheckpoint(e, "garbage") /\ ~IsCheckpoint(e, "dataIO")
      /\ e.op = "checkpoint" /\ Grows(e)
  BY DEF IsCheckpoint, Checkpoint, NoteEntry
<1> HIDE DEF e
<1>v. /\ lastOp' = InvalidateOldPages /\ NoOp' /\ ext' = "none"
      /\ SameMove /\ SameTx
  BY <1>e, OpView, MoveView, TxView DEF SameMove, SameTx, MoveOp
<1>i. lastOp'.op = "invalidateOldPages"
  BY <1>v DEF InvalidateOldPages
<1>m. NoteEffect
  BY NoteEntryViews
<1>u. /\ SameStatus /\ SameRest
      /\ IsProg(log') /\ LogOK' /\ Recovered' /\ InFlash' /\ SumTyped'
      /\ flash' = flash /\ asWritten' = asWritten /\ sum' = sum /\ addr' = addr /\ map' = map
  BY <1>m DEF NoteEffect
<1>1. (map \in Map)' /\ FixedAreas'
  BY <1>u, CoreParts DEF FixedAreas, buffer
<1>2. OtherAreas'
  BY <1>u, <1>i, CoreParts DEF OtherAreas, AreaOK, buffer, Doing1, Deleting, OpDone
<1>3. PositionsDistinct'
  BY <1>u, CoreParts DEF PositionsDistinct
<1>4. Totals'
  BY <1>u, <1>i, CoreParts DEF Totals, Adjust, OpDone
<1>5. ActiveOK'
  BY <1>u, <1>i, CoreParts DEF ActiveOK, Doing1, OpDone
<1>6. OpOK'
  BY <1>i, <1>v, CoreParts
     DEF OpOK, NoOp, InitOK, CloseOK, DeleteOK, ContentsOK
<1>7. FilesOK'
  BY <1>u, <1>i, CoreParts DEF FilesOK, Deleting, Doing1, Addr
<1>8. PagesOK'
  <2>1. \A b \in Area : Deleting(b) => map.type[b] = "data" \/ ext = "usedAreas"
    BY CoreParts DEF Deleting, Doing1, DeleteOK, OpDone
  <2>2. \A b \in Area : Deleting(b) => map.type[b] # "data"
    BY CoreParts DEF Deleting, Doing1, DeleteOK, OpDone
  <2>3. (mv = "deletedOldArea" => NoOp \/ ext # "none")
    BY DEF OpDone
  <2>4. DataPages' /\ EmptyPages' /\ LoggedPages'
    <3>1. DataPages'
      BY <1>u, <1>v, <1>i, <2>2, CoreParts
         DEF DataPages, FreeOK, UsedOK, SameStatus, SameMove, Lost
    <3>2. EmptyPages'
      BY <1>u, <1>v, <1>i, CoreParts DEF EmptyPages, ErasedArea, SameStatus
    <3>3. LoggedPages'
      BY <1>u, <1>v, <1>i, CoreParts DEF LoggedPages, SameStatus, Deleting, Doing1
    <3>4. QED
      BY <3>1, <3>2, <3>3
  <2>5. WrittenPages' /\ DeletedPages'
    <3>1. \A b \in Area : map.pos[b] \in asWritten => \A p \in Page : logged[b][p] = "dirty"
      BY <2>2, CoreParts DEF WrittenPages
    <3>2. WrittenPages'
      BY <3>1, <1>u, CoreParts DEF WrittenPages, SameStatus
    <3>3. DeletedPages'
      BY <1>i DEF DeletedPages, Deleting, Doing1
    <3>4. QED
      BY <3>2, <3>3
  <2>6. BufferPages'
    BY <1>u, <1>v, <2>3, CoreParts DEF BufferPages, SameMove, buffer, ErasedArea
  <2>7. QED
    BY <2>4, <2>5, <2>6 DEF PagesOK
<1>9. MoveOK'
  BY <1>v, <1>u, CoreParts, MoveStays
<1>10. TxOK'
  BY <1>v, <1>u, <1>i, CoreParts, TxStays
<1>11. SumOK'
  <2>1. \A b \in Area : Deleting(b) => map.type[b] = "unset"
    BY CoreParts DEF Deleting, Doing1, DeleteOK, OpDone
  <2>2. ASSUME NEW b \in Area, Deleting(b)
        PROVE  ram[b] = logged[b]
    <3>1. b \notin inLog /\ b \notin cached
      BY <2>1, <2>2, CoreParts DEF EmptyPages, SumOK
    <3>2. ram[b] = [p \in Page |-> Base(b)]
      BY <3>1, <2>2, CoreParts, RamType DEF RamIs
    <3>3. \A p \in Page : logged[b][p] = Base(b)
      BY <3>1, <2>2, CoreParts, NotInLog
    <3>4. QED
      BY <3>2, <3>3, <2>2, CoreParts
  <2>3. \A b \in Area : ram[b] = logged[b]
    BY <2>2, CoreParts DEF SumOK
  <2>4. \A b \in Area : ~Deleting(b)'
    BY <1>i DEF Deleting, Doing1
  <2>5. QED
    BY <2>3, <2>4, <1>u, CoreParts DEF SumOK, SameStatus
<1>12. QED
  BY <1>1, <1>2, <1>3, <1>4, <1>5, <1>6, <1>7, <1>8, <1>9, <1>10, <1>11, <1>m, <1>v, <1>u, CoreWhole
-----------------------------------------------------------------------------
(* Erasing an area.                                                        *)

(* The area that is being erased. *)
Victim == IF lastOp.op = "deleteArea" THEN lastOp.area ELSE buffer

(* The area that is being deleted: no file has a page on it, and its
   position is its own. *)
LEMMA VictimIs ==
    ASSUME Core, lastOp.op \in {"deleteArea", "deleteAreaContents"}
    PROVE  /\ Victim \in Area \ {0} /\ ErasedPos = map.pos[Victim] /\ ErasedPos \in Pos
           /\ \A b \in Area : b # Victim => map.pos[b] # ErasedPos
           /\ \A f \in FilePage : addr[f] # NoAddr => addr[f][1] \in Area /\ addr[f][1] # Victim
           /\ lastOp.op = "deleteAreaContents" => ErasedPos \notin asWritten
<1>1. lastOp.op = "deleteAreaContents" => lastOp.b = buffer /\ Victim = buffer
  BY CoreParts DEF ContentsOK, Victim
<1>2. lastOp.op = "deleteArea" => lastOp.area \in Area \ {0} /\ Victim = lastOp.area
  BY CoreParts DEF NoOp, Victim
<1>3. Victim \in Area \ {0} /\ ErasedPos = map.pos[Victim] /\ ErasedPos \in Pos
  BY <1>1, <1>2, CoreParts DEF ErasedPos
<1>4. \A b \in Area : b # Victim => map.pos[b] # ErasedPos
  BY <1>3, CoreParts DEF PositionsDistinct
<1>5. \A f \in FilePage : addr[f] # NoAddr => addr[f][1] \in Area /\ addr[f][1] # Victim
  <2>1. ASSUME NEW f \in FilePage, addr[f] # NoAddr
        PROVE  addr[f][1] \in Area /\ addr[f][1] # Victim
    <3>1. addr[f] \in Addr /\ map.type[addr[f][1]] = "data" /\ ~Deleting(addr[f][1])
      BY <2>1, CoreParts DEF FilesOK
    <3>2. addr[f][1] \in Area
      BY <3>1 DEF Addr
    <3>3. addr[f][1] # buffer
      BY <3>1, CoreParts DEF FixedAreas
    <3>4. lastOp.op = "deleteArea" => addr[f][1] # lastOp.area
      BY <3>1 DEF Deleting, Doing1
    <3>5. QED
      BY <3>2, <3>3, <3>4, <1>1, <1>2
  <2>2. QED
    BY <2>1
<1>6. lastOp.op = "deleteAreaContents" => ErasedPos \notin asWritten
  BY <1>1, <1>3, CoreParts DEF BufferPages
<1>7. QED
  BY <1>3, <1>4, <1>5, <1>6

(* One of its blocks is erased. *)
LEMMA EraseStep ==
    ASSUME Core, Erases, NEW pos, pos = ErasedPos, NEW z, z = Victim,
           NEW k \in 0 .. BlocksPerArea - 1, BlocksErased(pos, k),
           flash' = [flash EXCEPT ![pos] =
                        [p \in Page |-> IF BlockOf(p) = k THEN Erased ELSE @[p]]],
           asWritten' = IF k = BlocksPerArea - 1 THEN asWritten \ {pos} ELSE asWritten,
           UNCHANGED <<bad, index, log, ramVars, phase, found, bounds>>
    PROVE  /\ Core' /\ lastOp' = lastOp /\ ext' = ext /\ SameMove /\ SameTx /\ SameRest
           /\ UNCHANGED <<map, addr, sum>>
           /\ BlocksErased(pos, k + 1)'
           /\ \A b \in Area \ {z} : logged'[b] = logged[b]
           /\ \A q \in Pos \ {pos} : flash'[q] = flash[q]
<1>o. lastOp.op \in {"deleteArea", "deleteAreaContents"} /\ ext = "none" /\ ~NoOp
  BY DEF Erases, NoOp
<1>z. /\ z \in Area \ {0} /\ pos = map.pos[z] /\ pos \in Pos
      /\ \A b \in Area : b # z => map.pos[b] # pos
      /\ \A f \in FilePage : addr[f] # NoAddr => addr[f][1] \in Area /\ addr[f][1] # z
      /\ lastOp.op = "deleteAreaContents" => pos \notin asWritten /\ z = buffer
      /\ lastOp.op = "deleteArea" => z = lastOp.area
  BY <1>o, VictimIs DEF Victim
<1>u. /\ map' = map /\ sum' = sum /\ addr' = addr /\ log' = log /\ index' = index /\ bad' = bad
      /\ phase' = phase /\ found' = found /\ ops' = ops
  BY DEF ramVars, bounds
<1>v. lastOp' = lastOp /\ ext' = ext /\ SameMove /\ SameTx
  BY <1>u, ViewStays DEF SameMove, SameTx
<1>f. /\ flash \in [Pos -> [Page -> Erased .. MaxOps]]
      /\ asWritten \subseteq Pos
  BY CoreParts DEF InFlash
<1>g. /\ \A q \in Pos \ {pos} : flash'[q] = flash[q]
      /\ flash'[pos] = [p \in Page |-> IF BlockOf(p) = k THEN Erased ELSE flash[pos][p]]
  BY <1>f, <1>z
<1>b. /\ \A b \in Area \ {z} : Base(b)' = Base(b)
      /\ lastOp.op = "deleteAreaContents" => \A b \in Area : Base(b)' = Base(b)
      /\ asWritten' \subseteq asWritten
  BY <1>u, <1>z DEF Base
<1>l. /\ LogOK' /\ inLog' = inLog /\ logged' \in [Area -> [Page -> SummaryEntry]]
      /\ \A a \in Area : Base(a)' = Base(a) => logged'[a] = logged[a]
  BY <1>u, CoreParts, LoggedStays
<1>r. /\ SumTyped' /\ cached' = cached
      /\ \A a \in Area : Base(a)' = Base(a) => ram'[a] = ram[a]
  BY <1>u, CoreParts, RamStaysAt
<1>1. InFlash'
  <2>1. flash'[pos] \in [Page -> Erased .. MaxOps]
    BY <1>g, <1>f, <1>z, Constants DEF Erased
  <2>2. flash' \in [Pos -> [Page -> Erased .. MaxOps]]
    BY <1>f, <1>g, <2>1
  <2>3. QED
    BY <2>2, <1>f, <1>b, <1>u, CoreParts DEF InFlash
<1>2. IsProg(log') /\ Recovered'
  BY <1>u, CoreParts, RecoveredStays
<1>3. /\ (map \in Map)' /\ FixedAreas' /\ OtherAreas' /\ PositionsDistinct' /\ Totals'
      /\ ActiveOK' /\ OpOK'
  BY <1>u, <1>v, MapSame
<1>4. FilesOK'
  <2>1. \A f \in FilePage : addr[f] # NoAddr => map.pos[addr[f][1]] \in Pos \ {pos}
    BY <1>z, CoreParts
  <2>2. QED
    BY <2>1, <1>g, <1>u, <1>v, CoreParts DEF FilesOK, Deleting, Doing1
<1>e. \A b \in Area : ErasedArea(b) => ErasedArea(b)'
  <2>1. ASSUME NEW b \in Area, ErasedArea(b), NEW p \in Page
        PROVE  flash'[map.pos[b]][p] = Erased
    <3>1. CASE b = z
      BY <2>1, <3>1, <1>g, <1>z DEF ErasedArea
    <3>2. CASE b # z
      BY <2>1, <3>2, <1>g, <1>z, CoreParts DEF ErasedArea
    <3>3. QED
      BY <3>1, <3>2
  <2>2. QED
    BY <2>1, <1>u DEF ErasedArea
<1>5. PagesOK'
  <2>1. DataPages'
    <3>1. ASSUME NEW b \in Area, map.type[b] = "data", ~Deleting(b), ~Lost(b)
          PROVE  FreeOK(b)' /\ UsedOK(b)'
      <4>1. FreeOK(b) /\ UsedOK(b)
        BY <3>1, CoreParts DEF DataPages
      <4>2. b # z
        BY <3>1, <1>z, <1>o, CoreParts DEF Deleting, Doing1, FixedAreas
      <4>3. logged'[b] = logged[b] /\ flash'[map'.pos[b]] = flash[map.pos[b]]
        BY <4>2, <1>b, <1>l, <1>g, <1>u, <1>z, CoreParts
      <4>4. QED
        BY <4>1, <4>3, <1>u, PagesStay
    <3>2. QED
      BY <3>1, <1>u, <1>v DEF DataPages, Deleting, Doing1, Lost, SameMove
  <2>2. EmptyPages' /\ LoggedPages'
    BY <1>e, <1>u, <1>l, CoreParts DEF EmptyPages, LoggedPages
  <2>3. WrittenPages'
    <3>1. ASSUME NEW b \in Area, map.pos[b] \in asWritten'
          PROVE  map.type[b] = "data" /\ (Deleting(b) \/ \A p \in Page : logged'[b][p] = "dirty")
      <4>1. map.type[b] = "data" /\ (Deleting(b) \/ \A p \in Page : logged[b][p] = "dirty")
        BY <3>1, <1>b, CoreParts DEF WrittenPages
      <4>2. Deleting(b) \/ Base(b)' = Base(b)
        BY <1>b, <1>z, <1>o DEF Deleting, Doing1
      <4>3. QED
        BY <4>1, <4>2, <1>l
    <3>2. QED
      BY <3>1, <1>u, <1>v DEF WrittenPages, Deleting, Doing1
  <2>4. DeletedPages'
    BY <1>o, <1>v DEF DeletedPages
  <2>5. BufferPages'
    BY <1>e, <1>b, <1>u, <1>v, CoreParts DEF BufferPages, SameMove, NoOp, buffer
  <2>6. QED
    BY <2>1, <2>2, <2>3, <2>4, <2>5 DEF PagesOK
<1>6. MoveOK'
  BY <1>v, <1>u, <1>b, <1>o, CoreParts DEF MoveOK, SameMove, SameTx
<1>7. TxOK'
  BY <1>v, <1>u, CoreParts, TxStays DEF TxOK
<1>8. SumOK'
  <2>1. \A a \in Area : ~Deleting(a) => Base(a)' = Base(a)
    BY <1>b, <1>z, <1>o DEF Deleting, Doing1
  <2>2. \A a \in Area : ~Deleting(a) => ram'[a] = logged'[a]
    BY <2>1, <1>l, <1>r, CoreParts DEF SumOK
  <2>3. QED
    BY <2>2, <1>r, <1>l, <1>u, <1>v, <1>o, CoreParts DEF SumOK, Deleting, Doing1
<1>9. Core'
  BY <1>1, <1>2, <1>3, <1>4, <1>5, <1>6, <1>7, <1>8, <1>l, CoreWhole
<1>10. BlocksErased(pos, k + 1)'
  <2>1. \A p \in Page : BlockOf(p) < k + 1 => flash'[pos][p] = Erased
    BY <1>g, Blocks DEF BlocksErased
  <2>2. k + 1 = BlocksPerArea => pos \notin asWritten'
    BY Constants
  <2>3. QED
    BY <2>1, <2>2 DEF BlocksErased
<1>11. QED
  BY <1>9, <1>10, <1>v, <1>u, <1>g, <1>b, <1>l DEF SameRest

(* The erase is counted. *)
LEMMA CountStep ==
    ASSUME Core, Erases, NEW a, a = lastOp.area, BlocksErased(ErasedPos, BlocksPerArea),
           MapEntry(IncreaseErasecount(a))
    PROVE  /\ Core' /\ MapEntryEffect /\ lastOp' = lastOp /\ ext' = "increaseErasecount"
           /\ map'.pos = map.pos /\ map'.active = map.active /\ map'.type = map.type
           /\ map'.status = map.status
<1>o. lastOp.op \in {"deleteArea", "deleteAreaContents"} /\ ext = "none" /\ ~NoOp
  BY DEF Erases, NoOp
<1>z. /\ Victim \in Area \ {0} /\ ErasedPos = map.pos[Victim] /\ ErasedPos \in Pos
      /\ lastOp.op = "deleteAreaContents" => Victim = buffer
      /\ lastOp.op = "deleteArea" => Victim = a
      /\ a \in Area \ {0}
  BY <1>o, VictimIs, CoreParts DEF Victim
<1>e. ErasedArea(Victim) /\ map.pos[Victim] \notin asWritten
  BY <1>z, Blocks, Constants DEF BlocksErased, ErasedArea
<1>m. /\ MapEntryEffect /\ lastOp' = lastOp /\ ext' = "increaseErasecount"
      /\ map' \in Map /\ map'.type = map.type /\ map'.status = map.status
      /\ map'.pos = map.pos
      /\ map'.erasecount = [map.erasecount EXCEPT ![a] = map.erasecount[a] + 1]
      /\ map'.active = map.active
      /\ map'.used = map.used /\ map'.deletions = map.deletions + 1
  BY <1>o, <1>z, EraseEntry
<1>u. /\ SameMove /\ SameTx /\ SameStatus /\ SameRest
      /\ IsProg(log') /\ LogOK' /\ Recovered' /\ InFlash' /\ SumTyped'
      /\ flash' = flash /\ asWritten' = asWritten /\ sum' = sum /\ addr' = addr
  BY <1>m DEF MapEntryEffect
<1>1. FixedAreas' /\ PositionsDistinct' /\ NonEmpty(map') = NonEmpty(map) /\ buffer' = buffer
  BY <1>m, <1>u, MapParts
<1>2. OtherAreas'
  BY <1>m, <1>o, <1>1, CoreParts DEF OtherAreas, AreaOK, Doing1, Deleting
<1>4. Totals'
  <2>2. TotalErases(map') = TotalErases(map) + 1
    BY <1>m, <1>z, CoreParts, TotalOne
  <2>3. Adjust' = Adjust
    BY <1>m, <1>o DEF Adjust
  <2>5. QED
    BY <1>m, <1>1, <2>2, <2>3, CoreParts DEF Totals
<1>5. ActiveOK'
  BY <1>o, <1>m, CoreParts DEF ActiveOK, Doing1
<1>6. OpOK'
  BY <1>o, <1>m, <1>1, <1>u, CoreParts
     DEF OpOK, NoOp, InitOK, CloseOK, DeleteOK, ContentsOK, SameMove, SameTx
<1>7. FilesOK'
  BY <1>m, <1>u, CoreParts DEF FilesOK, Deleting, Doing1, Addr
<1>8. PagesOK'
  <2>1. DataPages' /\ EmptyPages' /\ LoggedPages'
    BY <1>m, <1>u, CoreParts DEF DataPages, EmptyPages, LoggedPages, FreeOK, UsedOK, ErasedArea,
                   SameStatus, SameMove, Lost, Deleting, Doing1
  <2>2. WrittenPages'
    BY <1>m, <1>u, CoreParts DEF WrittenPages, SameStatus, Deleting, Doing1
  <2>3. DeletedPages'
    BY <1>m, <1>u, <1>e, <1>z DEF DeletedPages, Deleting, Doing1, ErasedArea
  <2>4. BufferPages'
    BY <1>m, <1>u, <1>e, <1>z, <1>o, <1>1, CoreParts
       DEF BufferPages, SameMove, ErasedArea, DeleteOK, NoOp
  <2>5. QED
    BY <2>1, <2>2, <2>3, <2>4 DEF PagesOK
<1>9. MoveOK'
  BY <1>m, <1>u, CoreParts, MoveStays
<1>10. TxOK'
  BY <1>u, <1>m, CoreParts, TxStays DEF TxOK
<1>11. SumOK'
  BY <1>m, <1>u, CoreParts, SumStays DEF SumOK, Deleting, Doing1
<1>12. QED
  BY <1>1, <1>2, <1>4, <1>5, <1>6, <1>7, <1>8, <1>9, <1>10, <1>11, <1>m, <1>u, CoreWhole

(* An entry of the summary cache. *)
SumEntry(e) ==
    /\ Grows(e) /\ e.op \in SummaryOp
    /\ sum' = SummaryApplied(map, sum, e)
    /\ UNCHANGED <<flashVars, index, map, addr, phase, found, bounds>>

SumEntryEffect ==
    /\ SameRest /\ IsProg(log') /\ Recovered' /\ InFlash'
    /\ UNCHANGED <<flash, asWritten, bad, index, map, addr>>
    /\ \A a \in Area : Base(a)' = Base(a)

(* The views after an entry about page states. *)
LEMMA SumEntryViews ==
    ASSUME NEW e, SumEntry(e), Core
    PROVE  /\ SumEntryEffect /\ SameTx
           /\ e.op # "setStatusBlock" => SameMove
           /\ e.op \in {"reset", "remove"} /\ ~NoOp => lastOp' = lastOp /\ ext' = e.op
           /\ e.op \notin {"reset", "remove"} => lastOp' = lastOp /\ ext' = ext
           /\ EntryOK(e) => LogOK'
<1>1. Grows(e) /\ e.op \in SummaryOp /\ index' = index /\ map' = map /\ addr' = addr
      /\ UNCHANGED <<flash, asWritten, bad, index, map, addr, phase, found, ops>>
  BY DEF SumEntry, flashVars, bounds
<1>2. /\ ~IsCheckpoint(e, "areaMgmt") /\ ~IsCheckpoint(e, "garbage")
      /\ ~IsCheckpoint(e, "dataIO") /\ ~IsCheckpoint(e, "summaryCache")
      /\ e.op \notin MapOp /\ e.op # "update" /\ e.op \notin AreaMgmtOp
      /\ e.op \notin {"replacePage", "update", "invalidateOldPages"}
      /\ e.op \notin {"reset", "remove"} => e.op \notin ExternOp
      /\ e.op \in {"reset", "remove"} => e.op \in ExternOp
      /\ e.op # "setStatusBlock" => e.op \notin MoveOp \union {"moveValidData"}
  BY <1>1 DEF SummaryOp, MapOp, IsCheckpoint, ExternOp, MoveOp, AreaMgmtOp
<1>3. e.op # "setStatusBlock" => SameMove
  BY <1>1, <1>2, MoveView DEF SameMove
<1>4. SameTx
  BY <1>1, <1>2, TxView DEF SameTx
<1>5. /\ e.op \in {"reset", "remove"} /\ ~NoOp => lastOp' = lastOp /\ ext' = e.op
      /\ e.op \notin {"reset", "remove"} => lastOp' = lastOp /\ ext' = ext
  BY <1>1, <1>2, OpView
<1>6. \A a \in Area : Base(a)' = Base(a)
  BY <1>1 DEF Base
<1>7. IsProg(log') /\ (EntryOK(e) => LogOK')
  BY <1>1, <1>2, CoreParts, LogOKGrows, LogGrows
<1>9. Recovered'
  <2>1. Applied(map, e) = map
    BY <1>2, AppliedOther
  <2>2. QED
    BY <1>1, <1>2, <2>1, CoreParts, RecoveredGrows DEF AddrStep
<1>10. InFlash'
  BY <1>1, CoreParts DEF InFlash
<1>11. QED
  BY <1>1, <1>3, <1>4, <1>5, <1>6, <1>7, <1>9, <1>10 DEF SameRest, SumEntryEffect

(* The summary page counts as not written. *)
LEMMA ResetStep ==
    ASSUME Core, lastOp.op \in {"deleteArea", "deleteAreaContents"}, ext = "increaseErasecount",
           NEW a, a = lastOp.area, SumEntry(ResetASWritten(a))
    PROVE  /\ Core' /\ SumEntryEffect /\ SameMove /\ SameTx /\ SameStatus
           /\ lastOp' = lastOp /\ ext' = "reset" /\ sum' = sum
<1>n. ~NoOp
  BY DEF NoOp
<1>s. ResetASWritten(a).op = "reset" /\ EntryOK(ResetASWritten(a))
  BY DEF ResetASWritten, EntryOK
<1>e. /\ SumEntryEffect /\ SameTx /\ SameMove /\ lastOp' = lastOp /\ ext' = "reset" /\ LogOK'
  BY <1>s, <1>n, SumEntryViews
<1>u. /\ SameRest /\ IsProg(log') /\ Recovered' /\ InFlash'
      /\ flash' = flash /\ asWritten' = asWritten /\ map' = map /\ addr' = addr /\ index' = index
      /\ \A b \in Area : Base(b)' = Base(b)
  BY <1>e DEF SumEntryEffect
<1>m. sum' = sum
  BY <1>s DEF SumEntry, SummaryApplied
<1>l. SameStatus /\ SumTyped'
  <2>1. logged' = logged /\ inLog' = inLog
    BY <1>s, <1>u, CoreParts, LoggedGrows DEF SumEntry, PageOp, DropOp, IsCheckpoint
  <2>2. SumTyped' /\ ram' = ram /\ cached' = cached
    BY <1>m, <1>u, CoreParts, RamStays
  <2>3. QED
    BY <2>1, <2>2 DEF SameStatus
<1>1. FixedAreas' /\ PositionsDistinct' /\ NonEmpty(map') = NonEmpty(map) /\ buffer' = buffer
      /\ map' \in Map
  BY <1>e, <1>u, CoreParts, MapParts
<1>2. OtherAreas'
  BY <1>u, <1>e, <1>1, CoreParts DEF OtherAreas, AreaOK, Doing1, Deleting
<1>4. Totals'
  BY <1>u, <1>e, CoreParts DEF Totals, Adjust
<1>5. ActiveOK'
  BY <1>e, <1>u, CoreParts DEF ActiveOK, Doing1
<1>6. OpOK'
  BY <1>n, <1>e, <1>1, <1>u, CoreParts
     DEF OpOK, NoOp, InitOK, CloseOK, DeleteOK, ContentsOK, SameMove, SameTx
<1>7. FilesOK'
  BY <1>e, <1>u, CoreParts DEF FilesOK, Deleting, Doing1, Addr
<1>8. PagesOK'
  <2>1. DataPages' /\ EmptyPages' /\ LoggedPages'
    BY <1>e, <1>u, <1>l, CoreParts DEF DataPages, EmptyPages, LoggedPages, FreeOK, UsedOK,
                   ErasedArea, SameStatus, SameMove, Lost, Deleting, Doing1
  <2>2. WrittenPages'
    BY <1>e, <1>u, <1>l, CoreParts DEF WrittenPages, SameStatus, Deleting, Doing1
  <2>3. DeletedPages'
    BY <1>e, <1>u, CoreParts DEF DeletedPages, Deleting, Doing1, ErasedArea
  <2>4. BufferPages'
    BY <1>e, <1>u, <1>1, CoreParts DEF BufferPages, SameMove, ErasedArea
  <2>5. QED
    BY <2>1, <2>2, <2>3, <2>4 DEF PagesOK
<1>9. MoveOK'
  BY <1>e, <1>u, CoreParts, MoveStays
<1>10. TxOK'
  BY <1>u, <1>e, CoreParts, TxStays DEF TxOK
<1>11. SumOK'
  BY <1>m, <1>u, <1>e, <1>l, CoreParts, SumStays DEF SumOK, Deleting, Doing1
<1>12. QED
  BY <1>1, <1>2, <1>4, <1>5, <1>6, <1>7, <1>8, <1>9, <1>10, <1>11, <1>e, <1>m, <1>l, <1>u, CoreWhole

(* The summary is dropped. *)
LEMMA RemoveStep ==
    ASSUME Core, lastOp.op \in {"deleteArea", "deleteAreaContents"}, ext = "reset",
           NEW a, a = lastOp.area, SumEntry(DeleteSummary(a))
    PROVE  /\ Core' /\ SumEntryEffect /\ SameMove /\ SameTx
           /\ lastOp' = lastOp /\ ext' = "remove"
           /\ cached' = cached \ {a}
           /\ \A b \in Area \ {a} : logged'[b] = logged[b]
           /\ \A p \in Page : logged'[a][p] = "free"
<1>n. ~NoOp
  BY DEF NoOp
<1>a. a \in Area \ {0} /\ a \in Area
  BY <1>n, CoreParts
<1>s. /\ DeleteSummary(a).op = "remove" /\ DeleteSummary(a).area = a
      /\ EntryOK(DeleteSummary(a))
  BY DEF DeleteSummary, EntryOK
<1>e. /\ SumEntryEffect /\ SameTx /\ SameMove /\ lastOp' = lastOp /\ ext' = "remove" /\ LogOK'
  BY <1>s, <1>n, SumEntryViews
<1>u. /\ SameRest /\ IsProg(log') /\ Recovered' /\ InFlash'
      /\ flash' = flash /\ asWritten' = asWritten /\ map' = map /\ addr' = addr /\ index' = index
      /\ \A b \in Area : Base(b)' = Base(b)
  BY <1>e DEF SumEntryEffect
<1>m. sum' = WithoutSummary(sum, a)
  BY <1>s DEF SumEntry, SummaryApplied
<1>w. map.pos[a] \notin asWritten
  BY <1>n, <1>a, CoreParts
     DEF DeletedPages, Deleting, Doing1, ContentsOK, MoveOK, BufferPages
<1>b. Base(a) = "free"
  BY <1>w DEF Base
<1> DEFINE none == [p \in Page |-> Base(a)]
<1>p. \A p \in Page : none[p] = "free"
  BY <1>b
<1>l. /\ logged' = [logged EXCEPT ![a] = none]
      /\ inLog' = inLog \ {a}
  <2> DEFINE e == DeleteSummary(a)
  <2>1. /\ e.op \in DropOp /\ ~IsCheckpoint(e, "summaryCache") /\ Grows(e) /\ EntryOK(e)
        /\ e.area = a /\ e.area \in Area
    BY <1>s, <1>a DEF DropOp, IsCheckpoint, SumEntry
  <2> HIDE DEF e
  <2>2. /\ logged' = [logged EXCEPT ![e.area] = [p \in Page |-> Base(e.area)]]
        /\ inLog' = inLog \ {e.area}
    BY <2>1, <1>u, CoreParts, LoggedGrows
  <2>3. QED
    BY <2>1, <2>2
<1>r. SumTyped' /\ ram' = [ram EXCEPT ![a] = none] /\ cached' = cached \ {a}
  BY <1>m, <1>u, <1>a, CoreParts, RamWithout
<1> HIDE DEF none
<1>1. FixedAreas' /\ PositionsDistinct' /\ NonEmpty(map') = NonEmpty(map) /\ buffer' = buffer
      /\ map' \in Map
  BY <1>e, <1>u, CoreParts, MapParts
<1>2. OtherAreas'
  BY <1>u, <1>e, <1>1, CoreParts DEF OtherAreas, AreaOK, Doing1, Deleting
<1>4. Totals'
  BY <1>u, <1>e, CoreParts DEF Totals, Adjust
<1>5. ActiveOK'
  BY <1>e, <1>u, CoreParts DEF ActiveOK, Doing1
<1>6. OpOK'
  BY <1>n, <1>e, <1>1, <1>u, CoreParts
     DEF OpOK, NoOp, InitOK, CloseOK, DeleteOK, ContentsOK, SameMove, SameTx
<1>7. FilesOK'
  BY <1>e, <1>u, CoreParts DEF FilesOK, Deleting, Doing1, Addr
<1>v. \A b \in Area \ {a} : logged'[b] = logged[b] /\ ram'[b] = ram[b]
  BY <1>l, <1>r, CoreParts
<1>8. PagesOK'
  <2>1. DataPages'
    <3>1. ASSUME NEW b \in Area, map.type[b] = "data", ~Deleting(b), ~Lost(b)
          PROVE  FreeOK(b)' /\ UsedOK(b)'
      <4>1. FreeOK(b) /\ UsedOK(b)
        BY <3>1, CoreParts DEF DataPages
      <4>2. b # a
        BY <3>1, CoreParts DEF Deleting, Doing1, FixedAreas, ContentsOK, Lost
      <4>3. logged'[b] = logged[b] /\ flash'[map'.pos[b]] = flash[map.pos[b]]
        BY <4>2, <1>v, <1>u, CoreParts
      <4>4. QED
        BY <4>1, <4>3, <1>u, PagesStay
    <3>2. QED
      BY <3>1, <1>u, <1>e DEF DataPages, Deleting, Doing1, Lost, SameMove
  <2>2. EmptyPages' /\ LoggedPages'
    BY <1>u, <1>l, CoreParts DEF EmptyPages, LoggedPages, ErasedArea
  <2>3. WrittenPages'
    BY <1>e, <1>u, <1>v, <1>w, CoreParts DEF WrittenPages, Deleting, Doing1
  <2>4. DeletedPages'
    BY <1>e, <1>u, <1>n, <1>l, CoreParts DEF DeletedPages, Deleting, Doing1, ErasedArea
  <2>5. BufferPages'
    BY <1>e, <1>u, <1>1, CoreParts DEF BufferPages, SameMove, ErasedArea
  <2>6. QED
    BY <2>1, <2>2, <2>3, <2>4, <2>5 DEF PagesOK
<1>9. MoveOK'
  BY <1>e, <1>u, CoreParts, MoveStays
<1>10. TxOK'
  BY <1>u, <1>e, CoreParts, TxStays DEF TxOK
<1>11. SumOK'
  <2>1. \A b \in cached' : (b \in Area /\ map.type[b] = "data" /\ sum[b] \in [Page -> SummaryEntry])'
    BY <1>r, <1>u, CoreParts DEF SumOK, SumTyped
  <2>2. \A b \in Area : (b \in inLog => b \in cached)'
    BY <1>r, <1>l, CoreParts DEF SumOK
  <2>3. \A b \in Area : (~Deleting(b) => ram[b] = logged[b])'
    BY <1>r, <1>l, <1>v, <1>e, <1>a, CoreParts DEF SumOK, Deleting, Doing1
  <2>4. \A b \in Area : (Deleting(b) /\ ext \in {"remove", "status"})' => b \notin cached'
    BY <1>e, <1>r DEF Deleting, Doing1
  <2>5. QED
    BY <2>1, <2>2, <2>3, <2>4 DEF SumOK
<1>12. \A p \in Page : logged'[a][p] = "free"
  BY <1>l, <1>p, <1>a, CoreParts
<1>13. QED
  BY <1>1, <1>2, <1>4, <1>5, <1>6, <1>7, <1>8, <1>9, <1>10, <1>11, <1>12, <1>e, <1>m, <1>u, <1>v,
     <1>r, CoreWhole

(* The area is empty. *)
LEMMA DeleteStatus ==
    ASSUME Core, NEW a, a = lastOp.area, lastOp.op = "deleteArea",
           ext \in {"increaseErasecount", "reset", "remove"}, a \notin cached,
           MapEntry(Status(a, "empty"))
    PROVE  /\ Core' /\ MapEntryEffect /\ lastOp' = lastOp /\ ext' = "status"
           /\ map'.pos = map.pos /\ map'.active = map.active /\ map'.type = map.type
<1>n. ~NoOp
  BY DEF NoOp
<1>a. a \in Area \ {0, buffer} /\ a \in Area /\ map.active["data"] = 0 /\ mv = "ok"
      /\ map.type[a] = "data" /\ map.status[a] = "closed" /\ ~replaced
  BY <1>n, CoreParts DEF DeleteOK
<1>m. /\ MapEntryEffect /\ lastOp' = lastOp /\ ext' = "status"
      /\ map' \in Map /\ map'.type = map.type
      /\ map'.status = [map.status EXCEPT ![a] = "empty"]
      /\ map'.pos = map.pos /\ map'.erasecount = map.erasecount /\ map'.active = map.active
      /\ map'.used = map.used /\ map'.deletions = map.deletions
  BY <1>n, <1>a, StatusEntry DEF AreaStatus
<1>u. /\ SameMove /\ SameTx /\ SameStatus /\ SameRest
      /\ IsProg(log') /\ LogOK' /\ Recovered' /\ InFlash' /\ SumTyped'
      /\ flash' = flash /\ asWritten' = asWritten /\ sum' = sum /\ addr' = addr
  BY <1>m DEF MapEntryEffect
<1>b. buffer' = buffer
  BY <1>m DEF buffer
<1>1. FixedAreas'
  BY <1>m, <1>a, <1>b, CoreParts, Constants DEF FixedAreas
<1>2. OtherAreas'
  BY <1>m, <1>a, <1>b, CoreParts DEF OtherAreas, AreaOK, Doing1, Deleting
<1>3. PositionsDistinct'
  BY <1>m, CoreParts DEF PositionsDistinct
<1>4. Totals'
  <2>1. /\ Cardinality(NonEmpty(map')) = Cardinality(NonEmpty(map)) - 1
        /\ Cardinality(NonEmpty(map)) \in Nat
    BY <1>m, <1>a, CoreParts, BecomesEmpty, NonEmptySize
  <2>2. TotalErases(map') = TotalErases(map)
    BY <1>m, TotalStays
  <2>3. Adjust' = 1 /\ Adjust = 0
    BY <1>m DEF Adjust
  <2>5. QED
    BY <1>m, <2>1, <2>2, <2>3, CoreParts DEF Totals
<1>5. ActiveOK'
  BY <1>a, <1>m DEF ActiveOK
<1>6. OpOK'
  BY <1>a, <1>b, <1>m, <1>u, CoreParts
     DEF OpOK, NoOp, InitOK, CloseOK, DeleteOK, ContentsOK, SameMove, SameTx
<1>7. FilesOK'
  BY <1>m, <1>u, CoreParts DEF FilesOK, Deleting, Doing1, Addr
<1>8. PagesOK'
  <2>1. DataPages' /\ EmptyPages' /\ LoggedPages'
    BY <1>m, <1>u, CoreParts DEF DataPages, EmptyPages, LoggedPages, FreeOK, UsedOK, ErasedArea,
                   SameStatus, SameMove, Lost, Deleting, Doing1
  <2>2. WrittenPages'
    BY <1>m, <1>u, CoreParts DEF WrittenPages, SameStatus, Deleting, Doing1
  <2>3. DeletedPages'
    <3>1. a \notin inLog
      BY <1>a, CoreParts DEF SumOK
    <3>2. ErasedArea(a) /\ map.pos[a] \notin asWritten
      BY <1>a, CoreParts DEF DeletedPages, Deleting, Doing1
    <3>3. QED
      BY <3>1, <3>2, <1>m, <1>u DEF DeletedPages, Deleting, Doing1, ErasedArea, SameStatus
  <2>4. BufferPages'
    BY <1>m, <1>u, <1>a, <1>b, CoreParts DEF BufferPages, SameMove, ErasedArea
  <2>5. QED
    BY <2>1, <2>2, <2>3, <2>4 DEF PagesOK
<1>9. MoveOK'
  BY <1>m, <1>u, <1>a, CoreParts, MoveStays
<1>10. TxOK'
  BY <1>u, <1>a DEF TxOK, SameTx
<1>11. SumOK'
  BY <1>m, <1>u, CoreParts, SumStays DEF SumOK, Deleting, Doing1
<1>12. QED
  BY <1>1, <1>2, <1>3, <1>4, <1>5, <1>6, <1>7, <1>8, <1>9, <1>10, <1>11, <1>m, <1>u, CoreWhole

(* The area has no type any more. *)
LEMMA DeleteType ==
    ASSUME Core, NEW a, a = lastOp.area, lastOp.op = "deleteArea", ext = "status",
           MapEntry(Type(a, "unset"))
    PROVE  /\ Core' /\ MapEntryEffect /\ lastOp' = lastOp /\ ext' = "type"
           /\ map'.pos = map.pos /\ map'.active = map.active /\ map'.used = map.used
<1>n. ~NoOp
  BY DEF NoOp
<1>a. a \in Area \ {0, buffer} /\ a \in Area /\ map.active["data"] = 0 /\ mv = "ok"
      /\ map.type[a] = "data" /\ map.status[a] = "empty" /\ ~replaced
  BY <1>n, CoreParts DEF DeleteOK
<1>m. /\ MapEntryEffect /\ lastOp' = lastOp /\ ext' = "type"
      /\ map' \in Map /\ map'.type = [map.type EXCEPT ![a] = "unset"] /\ map'.status = map.status
      /\ map'.pos = map.pos /\ map'.erasecount = map.erasecount /\ map'.active = map.active
      /\ map'.used = map.used /\ map'.deletions = map.deletions
  BY <1>n, <1>a, TypeEntry DEF AreaType
<1>u. /\ SameMove /\ SameTx /\ SameStatus /\ SameRest
      /\ IsProg(log') /\ LogOK' /\ Recovered' /\ InFlash' /\ SumTyped'
      /\ flash' = flash /\ asWritten' = asWritten /\ sum' = sum /\ addr' = addr
  BY <1>m DEF MapEntryEffect
<1>b. buffer' = buffer
  BY <1>m DEF buffer
<1>d. /\ ErasedArea(a) /\ map.pos[a] \notin asWritten /\ a \notin inLog /\ a \notin cached
  BY <1>a, CoreParts DEF DeletedPages, SumOK, Deleting, Doing1
<1>1. FixedAreas'
  <2>1. FixedAreas /\ map.type \in [Area -> AreaType] /\ 0 \in Area /\ buffer \in Area
    BY CoreParts, Constants DEF buffer, AreaType
  <2>2. map'.type[0] = map.type[0] /\ map'.type[buffer] = map.type[buffer]
    BY <1>a, <1>m, <2>1
  <2>3. QED
    BY <1>m, <1>b, <2>1, <2>2 DEF FixedAreas
<1>2. OtherAreas'
  BY <1>m, <1>a, <1>b, CoreParts DEF OtherAreas, AreaOK, Doing1, Deleting
<1>3. PositionsDistinct'
  BY <1>m, CoreParts DEF PositionsDistinct
<1>4. Totals'
  <2>1. NonEmpty(map') = NonEmpty(map)
    BY <1>m DEF NonEmpty
  <2>2. TotalErases(map') = TotalErases(map)
    BY <1>m, TotalStays
  <2>3. Adjust' = 1 /\ Adjust = 1
    BY <1>m DEF Adjust
  <2>5. QED
    BY <1>m, <2>1, <2>2, <2>3, CoreParts DEF Totals
<1>5. ActiveOK'
  BY <1>a, <1>m DEF ActiveOK
<1>6. OpOK'
  BY <1>a, <1>b, <1>m, <1>u, CoreParts
     DEF OpOK, NoOp, InitOK, CloseOK, DeleteOK, ContentsOK, SameMove, SameTx
<1>7. FilesOK'
  BY <1>m, <1>u, <1>a, CoreParts DEF FilesOK, Deleting, Doing1, Addr
<1>8. PagesOK'
  <2>1. DataPages'
    BY <1>m, <1>u, <1>a, CoreParts DEF DataPages, FreeOK, UsedOK,
                   SameStatus, SameMove, Lost, Deleting, Doing1
  <2>2. EmptyPages' /\ LoggedPages'
    BY <1>m, <1>u, <1>a, <1>d, CoreParts DEF EmptyPages, LoggedPages, ErasedArea, SameStatus
  <2>3. WrittenPages'
    BY <1>m, <1>u, <1>a, <1>d, CoreParts DEF WrittenPages, SameStatus, Deleting, Doing1
  <2>4. DeletedPages'
    BY <1>d, <1>m, <1>u DEF DeletedPages, Deleting, Doing1, ErasedArea, SameStatus
  <2>5. BufferPages'
    BY <1>m, <1>u, <1>a, <1>b, CoreParts DEF BufferPages, SameMove, ErasedArea
  <2>6. QED
    BY <2>1, <2>2, <2>3, <2>4, <2>5 DEF PagesOK
<1>9. MoveOK'
  BY <1>m, <1>u, <1>a DEF MoveOK, SameMove
<1>10. TxOK'
  BY <1>u, <1>a DEF TxOK, SameTx
<1>11. SumOK'
  BY <1>m, <1>u, <1>d, <1>a, CoreParts, SumStays DEF SumOK, Deleting, Doing1
<1>12. QED
  BY <1>1, <1>2, <1>3, <1>4, <1>5, <1>6, <1>7, <1>8, <1>9, <1>10, <1>11, <1>m, <1>u, CoreWhole

(* And does not count as used. *)
LEMMA DeleteUsed ==
    ASSUME Core, NEW a, a = lastOp.area, lastOp.op = "deleteArea", ext = "type",
           MapEntry(UsedAreas(map.used + (-1)))
    PROVE  /\ Core' /\ MapEntryEffect /\ lastOp' = lastOp /\ ext' = "usedAreas"
           /\ map'.pos = map.pos /\ map'.active = map.active /\ map'.type = map.type
<1>n. ~NoOp
  BY DEF NoOp
<1>a. a \in Area \ {0, buffer} /\ a \in Area /\ map.active["data"] = 0 /\ mv = "ok"
      /\ map.type[a] = "unset" /\ map.status[a] = "empty" /\ ~replaced
  BY <1>n, CoreParts DEF DeleteOK
<1>c. /\ Adjust = 1 /\ Cardinality(NonEmpty(map)) \in Nat
      /\ map.used = Cardinality(NonEmpty(map)) + 1
  BY CoreParts, NonEmptySize DEF Totals, Adjust
<1>d. map.used + (-1) \in Nat /\ map.used + (-1) = Cardinality(NonEmpty(map))
  BY <1>c
<1>m. /\ MapEntryEffect /\ lastOp' = lastOp /\ ext' = "usedAreas"
      /\ map' \in Map /\ map'.type = map.type /\ map'.status = map.status
      /\ map'.pos = map.pos /\ map'.erasecount = map.erasecount /\ map'.active = map.active
      /\ map'.used = map.used + (-1) /\ map'.deletions = map.deletions
  BY <1>n, <1>d, UsedEntry
<1>u. /\ SameMove /\ SameTx /\ SameStatus /\ SameRest
      /\ IsProg(log') /\ LogOK' /\ Recovered' /\ InFlash' /\ SumTyped'
      /\ flash' = flash /\ asWritten' = asWritten /\ sum' = sum /\ addr' = addr
  BY <1>m DEF MapEntryEffect
<1>1. FixedAreas' /\ PositionsDistinct' /\ NonEmpty(map') = NonEmpty(map) /\ buffer' = buffer
  BY <1>m, <1>u, MapParts
<1>2. OtherAreas'
  BY <1>m, <1>a, <1>1, CoreParts DEF OtherAreas, AreaOK, Doing1, Deleting
<1>4. Totals'
  <2>2. TotalErases(map') = TotalErases(map)
    BY <1>m, TotalStays
  <2>3. Adjust' = 0
    BY <1>m DEF Adjust
  <2>5. QED
    BY <1>m, <1>1, <1>c, <1>d, <2>2, <2>3, CoreParts DEF Totals
<1>5. ActiveOK'
  BY <1>a, <1>m DEF ActiveOK
<1>6. OpOK'
  BY <1>a, <1>1, <1>m, <1>u, CoreParts
     DEF OpOK, NoOp, InitOK, CloseOK, DeleteOK, ContentsOK, SameMove, SameTx
<1>7. FilesOK'
  BY <1>m, <1>u, CoreParts DEF FilesOK, Deleting, Doing1, Addr
<1>8. PagesOK'
  <2>1. DataPages' /\ EmptyPages' /\ LoggedPages'
    BY <1>m, <1>u, CoreParts DEF DataPages, EmptyPages, LoggedPages, FreeOK, UsedOK, ErasedArea,
                   SameStatus, SameMove, Lost, Deleting, Doing1
  <2>2. WrittenPages'
    BY <1>m, <1>u, CoreParts DEF WrittenPages, SameStatus, Deleting, Doing1
  <2>4. DeletedPages'
    BY <1>m, <1>u, CoreParts DEF DeletedPages, Deleting, Doing1, ErasedArea
  <2>5. BufferPages'
    BY <1>m, <1>u, <1>a, <1>1, CoreParts DEF BufferPages, SameMove, ErasedArea
  <2>6. QED
    BY <2>1, <2>2, <2>4, <2>5 DEF PagesOK
<1>9. MoveOK'
  BY <1>m, <1>u, <1>a DEF MoveOK, SameMove
<1>10. TxOK'
  BY <1>u, <1>a DEF TxOK, SameTx
<1>11. SumOK'
  BY <1>m, <1>u, CoreParts, SumStays DEF SumOK, Deleting, Doing1
<1>12. QED
  BY <1>1, <1>2, <1>4, <1>5, <1>6, <1>7, <1>8, <1>9, <1>10, <1>11, <1>m, <1>u, CoreWhole
-----------------------------------------------------------------------------
(* An operation of AreaManagement, one instruction after the other.        *)

(* What its steps leave alone. *)
OpFrame ==
    /\ SameMove /\ SameTx /\ SameRest
    /\ addr' = addr /\ map'.pos = map.pos /\ buffer' = buffer /\ stored' = stored

OpPages ==
    /\ \A b \in Area : (b # lastOp.area \/ lastOp.op \in {"initAreaAs", "closeArea"})
            => logged'[b] = logged[b]
    /\ \A q \in Pos : (q # ErasedPos \/ lastOp.op \in {"initAreaAs", "closeArea"})
            => flash'[q] = flash[q]

(* It goes on, or is done. *)
OpGoes(ctx) == lastOp' = lastOp /\ OpRuns(ctx)'

OpEnds(ctx) == NoOp' /\ prog' = ctx /\ OpDone /\ map' = map /\ logged' = logged /\ flash' = flash

(* A program is a Cat. *)
LEMMA BehindIs ==
    ASSUME NEW x, NEW ctx
    PROVE  /\ Behind(x, ctx) = Cat(ResumeOperation(map, sum, lastOp, x), ctx)
           /\ Behind(x, ctx)' = Cat(ResumeOperation(map', sum', lastOp', x), ctx)
BY DEF Behind, Cat

(* What has to follow the newest entry of an operation, before and after a
   step. *)
LEMMA BehindExt ==
    ASSUME NEW ctx
    PROVE  /\ Behind(ext, ctx) = Cat(ResumeOperation(map, sum, lastOp, ext), ctx)
           /\ Behind(ext, ctx)' = Cat(ResumeOperation(map', sum', lastOp', ext'), ctx)
BY DEF Behind, Cat

(* The superblock's entries are of this form. *)
LEMMA ExecMapEntry ==
    ASSUME NEW x, NEW r, IsProg(r), prog = Then(x, r), Next, ~PowerLoss, x.op \in MapOp,
           IsProg(log)
    PROVE  MapEntry(x) /\ prog' = r
<1>1. /\ log' = Append(log, x) /\ map' = Applied(map, x) /\ prog' = r
      /\ UNCHANGED <<flashVars, index, sum, addr, phase, found, bounds>>
  BY ExecMap
<1>2. QED
  BY <1>1 DEF MapEntry, Grows

(* AddUsed appends a used-areas entry to the map's part of the log. *)
LEMMA ExecUsedEntry ==
    ASSUME NEW n, NEW r, IsProg(r), prog = Then(AddUsed(n), r), Next, ~PowerLoss, IsProg(log)
    PROVE  MapEntry(UsedAreas(map.used + n)) /\ prog' = r
<1>1. /\ log' = Append(log, UsedAreas(map.used + n))
      /\ map' = Applied(map, UsedAreas(map.used + n)) /\ prog' = r
      /\ UNCHANGED <<flashVars, index, sum, addr, phase, found, bounds>>
  BY ExecUsed
<1>2. UsedAreas(map.used + n).op \in MapOp
  BY DEF UsedAreas, MapOp
<1>3. QED
  BY <1>1, <1>2 DEF MapEntry, Grows

(* A noted statement appends an entry that is only noted. *)
LEMMA ExecNoteEntry ==
    ASSUME NEW x, NEW r, IsProg(r), prog = Then(x, r), Next, ~PowerLoss, x.op \in NoteOp,
           IsProg(log), ~IsCheckpoint(x, "summaryCache")
    PROVE  NoteEntry(x) /\ prog' = r
<1>1. /\ log' = Append(log, x) /\ prog' = r
      /\ UNCHANGED <<flashVars, index, ramVars, phase, found, bounds>>
  BY ExecNote
<1>2. QED
  BY <1>1 DEF NoteEntry, Grows

(* A page-state statement appends an entry about page states. *)
LEMMA ExecSumEntry ==
    ASSUME NEW x, NEW r, IsProg(r), prog = Then(x, r), Next, ~PowerLoss, IsProg(log),
           x.op \in {"setStatusBlock", "remove", "reset", "commit"}
    PROVE  SumEntry(x) /\ prog' = r
<1>1. /\ log' = Append(log, x) /\ sum' = SummaryApplied(map, sum, x) /\ prog' = r
      /\ UNCHANGED <<flashVars, index, map, addr, phase, found, bounds>>
  BY ExecSummary
<1>2. QED
  BY <1>1 DEF SumEntry, Grows, SummaryOp

(* What the entries leave alone. *)
LEMMA EffectFrame ==
    /\ MapEntryEffect /\ map'.pos = map.pos /\ buffer' = buffer => OpFrame /\ OpPages
    /\ NoteEffect /\ SameMove /\ SameTx => OpFrame /\ OpPages /\ map' = map
<1>1. ASSUME addr' = addr, flash' = flash, map'.pos = map.pos
      PROVE  stored' = stored
  BY <1>1 DEF stored
<1>2. ASSUME map' = map
      PROVE  buffer' = buffer
  BY <1>2 DEF buffer
<1>3. QED
  BY <1>1, <1>2 DEF MapEntryEffect, NoteEffect, OpFrame, OpPages, SameStatus

(* The checkpoint that ends it. *)
LEMMA OpStepLast ==
    ASSUME Core, NEW ctx, IsProg(ctx), prog = LastCheck(ctx), OpDone, Next, ~PowerLoss
    PROVE  Core' /\ OpFrame /\ OpPages /\ OpEnds(ctx)
<1>1. /\ Checkpoint("areaMgmt").op \in NoteOp
      /\ ~IsCheckpoint(Checkpoint("areaMgmt"), "summaryCache")
  BY DEF Checkpoint, NoteOp, IsCheckpoint
<1>2. NoteEntry(Checkpoint("areaMgmt")) /\ prog' = ctx
  BY <1>1, CoreParts, ExecNoteEntry DEF LastCheck
<1>3. Core' /\ NoteEffect /\ NoOp' /\ SameMove /\ SameTx
  BY <1>2, OpCheckpoint
<1>4. QED
  BY <1>2, <1>3, EffectFrame DEF OpEnds, NoteEffect, SameStatus

(* initAreaAs goes on. *)
LEMMA OpStepInit ==
    ASSUME Core, NEW ctx, IsProg(ctx), OpRuns(ctx), lastOp.op = "initAreaAs", Next, ~PowerLoss
    PROVE  Core' /\ OpFrame /\ OpPages /\ (OpGoes(ctx) \/ OpEnds(ctx))
<1> DEFINE a == lastOp.area
           used(r) == IF map.status[a] = "empty" THEN Then(AddUsed(1), r) ELSE r
           act == Then(ActiveArea("data", a), LastCheck(ctx))
<1>n. ~NoOp /\ ~Erases
  BY DEF NoOp, Erases
<1>o. /\ prog = Cat(ResumeOperation(map, sum, lastOp, ext), ctx)
      /\ ext \in {"none", "type", "usedAreas", "activeArea"} /\ lastOp.type = "data"
      /\ ext = "usedAreas" => map.status[a] = "empty"
  BY <1>n, CoreParts, BehindExt DEF OpRuns, InitOK
<1>r. /\ Cat(ResumeOperation(map, sum, lastOp, "none"), ctx) = Then(Type(a, "data"), used(act))
      /\ Cat(ResumeOperation(map, sum, lastOp, "type"), ctx) = used(act)
      /\ Cat(ResumeOperation(map, sum, lastOp, "usedAreas"), ctx) = act
      /\ Cat(ResumeOperation(map, sum, lastOp, "activeArea"), ctx) = LastCheck(ctx)
      /\ IsProg(LastCheck(ctx)) /\ IsProg(act) /\ IsProg(used(act))
  BY <1>o, ResumeInit
<1>s. ASSUME lastOp' = lastOp
      PROVE  /\ Cat(ResumeOperation(map', sum', lastOp', "type"), ctx)
                    = IF map'.status[a] = "empty" THEN Then(AddUsed(1), act) ELSE act
             /\ Cat(ResumeOperation(map', sum', lastOp', "usedAreas"), ctx) = act
             /\ Cat(ResumeOperation(map', sum', lastOp', "activeArea"), ctx) = LastCheck(ctx)
  BY <1>o, <1>s, ResumeInit
<1>g. ASSUME lastOp' = lastOp, ext' # "none",
             prog' = Cat(ResumeOperation(map', sum', lastOp', ext'), ctx)
      PROVE  OpGoes(ctx)
  <2>1. (~NoOp /\ ~Erases)'
    BY <1>g DEF NoOp, Erases
  <2>2. prog' = Behind(ext, ctx)'
    BY <1>g, BehindExt
  <2>3. QED
    BY <1>g, <2>1, <2>2 DEF OpGoes, OpRuns
<1>a. ASSUME prog = act, ext = "usedAreas" \/ (ext = "type" /\ map.status[a] # "empty")
      PROVE  Core' /\ OpFrame /\ OpPages /\ (OpGoes(ctx) \/ OpEnds(ctx))
  <2>1. ActiveArea("data", a).op \in MapOp
    BY DEF ActiveArea, MapOp
  <2>2. MapEntry(ActiveArea("data", a)) /\ prog' = LastCheck(ctx)
    BY <1>a, <1>r, <2>1, CoreParts, ExecMapEntry
  <2>3. /\ Core' /\ MapEntryEffect /\ lastOp' = lastOp /\ ext' = "activeArea"
        /\ map'.pos = map.pos /\ buffer' = buffer
    BY <1>a, <2>2, InitActive
  <2>4. OpGoes(ctx)
    BY <1>g, <1>s, <2>2, <2>3
  <2>5. QED
    BY <2>3, <2>4, EffectFrame
<1>1. CASE ext = "none"
  <2>1. Type(a, "data").op \in MapOp
    BY DEF Type, MapOp
  <2>2. MapEntry(Type(a, "data")) /\ prog' = used(act)
    <3> HIDE DEF used, act
    <3>1. QED
      BY <1>1, <1>o, <1>r, <2>1, CoreParts, ExecMapEntry
  <2>3. /\ Core' /\ MapEntryEffect /\ lastOp' = lastOp /\ ext' = "type"
        /\ map'.pos = map.pos /\ map'.active = map.active /\ map'.status = map.status
    BY <1>1, <2>2, InitType
  <2>4. OpGoes(ctx)
    BY <1>g, <1>s, <2>2, <2>3
  <2>5. buffer' = buffer
    BY <2>3 DEF buffer
  <2>6. QED
    BY <2>3, <2>4, <2>5, EffectFrame
<1>2. CASE ext = "type"
  <2>1. CASE map.status[a] = "empty"
    <3>1. prog = Then(AddUsed(1), act)
      BY <1>2, <2>1, <1>o, <1>r
    <3>2. MapEntry(UsedAreas(map.used + 1)) /\ prog' = act
      <4> HIDE DEF act
      <4>1. QED
        BY <3>1, <1>r, CoreParts, ExecUsedEntry
    <3>3. /\ Core' /\ MapEntryEffect /\ lastOp' = lastOp /\ ext' = "usedAreas"
          /\ map'.pos = map.pos /\ map'.active = map.active
      BY <1>2, <2>1, <3>2, InitUsed
    <3>4. OpGoes(ctx)
      BY <1>g, <1>s, <3>2, <3>3
    <3>5. buffer' = buffer
      BY <3>3 DEF buffer
    <3>6. QED
      BY <3>3, <3>4, <3>5, EffectFrame
  <2>2. CASE map.status[a] # "empty"
    BY <1>2, <2>2, <1>o, <1>r, <1>a
  <2>3. QED
    BY <2>1, <2>2
<1>3. CASE ext = "usedAreas"
  BY <1>3, <1>o, <1>r, <1>a
<1>4. CASE ext = "activeArea"
  BY <1>4, <1>o, <1>r, OpStepLast DEF OpDone
<1>5. QED
  BY <1>1, <1>2, <1>3, <1>4, <1>o

(* closeArea goes on. *)
LEMMA OpStepClose ==
    ASSUME Core, NEW ctx, IsProg(ctx), OpRuns(ctx), lastOp.op = "closeArea", Next, ~PowerLoss
    PROVE  Core' /\ OpFrame /\ OpPages /\ (OpGoes(ctx) \/ OpEnds(ctx))
<1> DEFINE a == lastOp.area
           act == Then(ActiveArea("data", 0), LastCheck(ctx))
<1>n. ~NoOp /\ ~Erases
  BY DEF NoOp, Erases
<1>o. /\ prog = Cat(ResumeOperation(map, sum, lastOp, ext), ctx)
      /\ ext \in {"none", "status", "activeArea"} /\ map.type[a] = "data"
  BY <1>n, CoreParts, BehindExt DEF OpRuns, CloseOK
<1>r. /\ Cat(ResumeOperation(map, sum, lastOp, "none"), ctx) = Then(Status(a, "closed"), act)
      /\ Cat(ResumeOperation(map, sum, lastOp, "status"), ctx) = act
      /\ Cat(ResumeOperation(map, sum, lastOp, "activeArea"), ctx) = LastCheck(ctx)
      /\ IsProg(LastCheck(ctx)) /\ IsProg(act)
  BY <1>o, ResumeClose
<1>s. ASSUME lastOp' = lastOp, map'.type = map.type
      PROVE  /\ Cat(ResumeOperation(map', sum', lastOp', "status"), ctx) = act
             /\ Cat(ResumeOperation(map', sum', lastOp', "activeArea"), ctx) = LastCheck(ctx)
  BY <1>o, <1>s, ResumeClose
<1>g. ASSUME lastOp' = lastOp, ext' # "none",
             prog' = Cat(ResumeOperation(map', sum', lastOp', ext'), ctx)
      PROVE  OpGoes(ctx)
  <2>1. (~NoOp /\ ~Erases)'
    BY <1>g DEF NoOp, Erases
  <2>2. prog' = Behind(ext, ctx)'
    BY <1>g, BehindExt
  <2>3. QED
    BY <1>g, <2>1, <2>2 DEF OpGoes, OpRuns
<1>1. CASE ext = "none"
  <2>1. Status(a, "closed").op \in MapOp
    BY DEF Status, MapOp
  <2>2. MapEntry(Status(a, "closed")) /\ prog' = act
    <3> HIDE DEF act
    <3>1. QED
      BY <1>1, <1>o, <1>r, <2>1, CoreParts, ExecMapEntry
  <2>3. /\ Core' /\ MapEntryEffect /\ lastOp' = lastOp /\ ext' = "status"
        /\ map'.pos = map.pos /\ map'.active = map.active /\ map'.type = map.type
    BY <1>1, <2>2, CloseStatus
  <2>4. OpGoes(ctx)
    BY <1>g, <1>s, <2>2, <2>3
  <2>5. buffer' = buffer
    BY <2>3 DEF buffer
  <2>6. QED
    BY <2>3, <2>4, <2>5, EffectFrame
<1>2. CASE ext = "status"
  <2>1. ActiveArea("data", 0).op \in MapOp
    BY DEF ActiveArea, MapOp
  <2>2. MapEntry(ActiveArea("data", 0)) /\ prog' = LastCheck(ctx)
    BY <1>2, <1>o, <1>r, <2>1, CoreParts, ExecMapEntry
  <2>3. /\ Core' /\ MapEntryEffect /\ lastOp' = lastOp /\ ext' = "activeArea"
        /\ map'.pos = map.pos /\ buffer' = buffer /\ map'.type = map.type
    BY <1>2, <2>2, CloseActive
  <2>4. OpGoes(ctx)
    BY <1>g, <1>s, <2>2, <2>3
  <2>5. QED
    BY <2>3, <2>4, EffectFrame
<1>3. CASE ext = "activeArea"
  BY <1>3, <1>o, <1>r, OpStepLast DEF OpDone
<1>4. QED
  BY <1>1, <1>2, <1>3, <1>o

(* A deletion erases a block, or counts the erase. *)
LEMMA OpStepErases ==
    ASSUME Careful, Core, NEW ctx, IsProg(ctx), OpRuns(ctx), Erases, Next, ~PowerLoss
    PROVE  Core' /\ OpFrame /\ OpPages /\ OpGoes(ctx)
<1>o. lastOp.op \in {"deleteArea", "deleteAreaContents"} /\ ext = "none" /\ ~NoOp
  BY DEF Erases, NoOp
<1>p. PICK pos : pos = ErasedPos
  OBVIOUS
<1>a. PICK a : a = lastOp.area
  OBVIOUS
<1>z. PICK z : z = Victim
  OBVIOUS
<1>v. /\ z \in Area \ {0} /\ pos = map.pos[z] /\ pos \in Pos
      /\ \A b \in Area : b # z => map.pos[b] # pos
      /\ \A f \in FilePage : addr[f] # NoAddr => addr[f][1] \in Area /\ addr[f][1] # z
  BY <1>o, <1>p, <1>z, VictimIs
<1> DEFINE rest == Then(IncreaseErasecount(a), Behind("increaseErasecount", ctx))
<1>k. PICK k \in 0 .. BlocksPerArea : prog = Cat(EraseFrom(pos, k), rest) /\ BlocksErased(pos, k)
  BY <1>p, <1>a DEF OpRuns, Cat
<1>b. IsProg(Behind("increaseErasecount", ctx)) /\ IsProg(rest)
  <2>1. IsProg(Behind("increaseErasecount", ctx))
    BY <1>o, BehindIs, ResumeErase
  <2>2. QED
    BY <2>1, ThenFacts
<1> HIDE DEF rest
<1>1. CASE k \in 0 .. BlocksPerArea - 1
  <2>1. prog = Then(EraseBlock(pos, k), Cat(EraseFrom(pos, k + 1), rest))
        /\ IsProg(Cat(EraseFrom(pos, k + 1), rest))
    <3>1. k + 1 \in 0 .. BlocksPerArea
      BY <1>1, Constants
    <3>2. IsProg(EraseFrom(pos, k + 1))
      BY <3>1, <1>b, EraseFacts
    <3>3. QED
      BY <3>2, <1>1, <1>k, <1>b, EraseFacts, CatFacts
  <2>2. /\ flash' = [flash EXCEPT ![pos] =
                        [p \in Page |-> IF BlockOf(p) = k THEN Erased ELSE @[p]]]
        /\ asWritten' = IF k = BlocksPerArea - 1 THEN asWritten \ {pos} ELSE asWritten
        /\ prog' = Cat(EraseFrom(pos, k + 1), rest)
        /\ UNCHANGED <<bad, index, log, ramVars, phase, found, bounds>>
    BY <2>1, ExecErase, ZenonT(30)
  <2>3. /\ Core' /\ lastOp' = lastOp /\ ext' = ext /\ SameMove /\ SameTx /\ SameRest
        /\ UNCHANGED <<map, addr, sum>>
        /\ BlocksErased(pos, k + 1)'
        /\ \A b \in Area \ {z} : logged'[b] = logged[b]
        /\ \A q \in Pos \ {pos} : flash'[q] = flash[q]
    BY <1>1, <1>k, <1>p, <1>z, <2>2, EraseStep
  <2>4. buffer' = buffer /\ ErasedPos' = pos
    BY <2>3, <1>p DEF buffer, ErasedPos
  <2>5. stored' = stored
    BY <2>3, <1>v, CoreParts DEF stored
  <2>6. OpGoes(ctx)
    <3>1. (~NoOp /\ Erases)'
      BY <1>o, <2>3 DEF NoOp, Erases
    <3>2. rest = Then(IncreaseErasecount(lastOp'.area), Behind("increaseErasecount", ctx)')
      BY <2>3, <1>a, BehindIs DEF rest
    <3>3. k + 1 \in 0 .. BlocksPerArea
      BY <1>1, Constants
    <3>4. prog' = EraseFrom(ErasedPos', k + 1)
                    \o Then(IncreaseErasecount(lastOp'.area), Behind("increaseErasecount", ctx)')
      BY <2>2, <2>4, <3>2 DEF Cat
    <3>5. BlocksErased(ErasedPos, k + 1)'
      BY <2>3, <2>4 DEF BlocksErased
    <3>6. QED
      BY <3>1, <3>3, <3>4, <3>5, <2>3 DEF OpGoes, OpRuns
  <2>7. /\ \A b \in Area : (b # lastOp.area \/ lastOp.op \in {"initAreaAs", "closeArea"})
              => logged'[b] = logged[b]
    <3>1. CASE lastOp.op = "deleteArea"
      BY <3>1, <1>z, <2>3 DEF Victim
    <3>2. CASE lastOp.op = "deleteAreaContents"
      <4>1. pos \notin asWritten
        BY <3>2, <1>p, VictimIs
      <4>2. asWritten' = asWritten
        BY <4>1, <2>2
      <4>3. \A b \in Area : Base(b)' = Base(b)
        BY <4>2, <2>3 DEF Base
      <4>4. logged' = logged
        BY <4>3, <2>2, CoreParts, LoggedStays
      <4>5. QED
        BY <4>4
    <3>3. QED
      BY <3>1, <3>2, <1>o
  <2>8. OpFrame
    BY <2>3, <2>4, <2>5 DEF OpFrame
  <2>9. OpPages
    <3>1. \A q \in Pos : q # ErasedPos => flash'[q] = flash[q]
      BY <2>3, <1>p
    <3>2. lastOp.op \notin {"initAreaAs", "closeArea"}
      BY <1>o
    <3>3. QED
      BY <3>1, <3>2, <2>7 DEF OpPages
  <2>10. QED
    BY <2>3, <2>6, <2>8, <2>9
<1>2. CASE k = BlocksPerArea
  <2>1. prog = rest
    BY <1>2, <1>k, <1>b, EraseFacts
  <2>2. IncreaseErasecount(a).op \in MapOp
    BY DEF IncreaseErasecount, MapOp
  <2>3. MapEntry(IncreaseErasecount(a)) /\ prog' = Behind("increaseErasecount", ctx)
    BY <2>1, <2>2, <1>b, CoreParts, ExecMapEntry DEF rest
  <2>4. /\ Core' /\ MapEntryEffect /\ lastOp' = lastOp /\ ext' = "increaseErasecount"
        /\ map'.pos = map.pos /\ map'.active = map.active /\ map'.type = map.type
        /\ map'.status = map.status
    BY <2>3, <1>2, <1>k, <1>p, <1>a, CountStep
  <2>5. sum' = sum
    BY <2>4 DEF MapEntryEffect
  <2>6. Behind(ext, ctx)' = Behind("increaseErasecount", ctx)
    <3>1. Cat(ResumeOperation(map', sum', lastOp', "increaseErasecount"), ctx)
            = Cat(ResumeOperation(map, sum, lastOp, "increaseErasecount"), ctx)
      BY <2>4, <2>5, <1>o, ResumeErase
    <3>2. QED
      BY <3>1, <2>4, BehindIs, BehindExt
  <2>7. (~NoOp /\ ~Erases)'
    BY <1>o, <2>4 DEF NoOp, Erases
  <2>8. OpGoes(ctx)
    BY <2>3, <2>4, <2>6, <2>7 DEF OpGoes, OpRuns
  <2>9. buffer' = buffer
    BY <2>4 DEF buffer
  <2>10. QED
    BY <2>4, <2>8, <2>9, EffectFrame
<1>3. QED
  BY <1>1, <1>2, Constants

(* A deletion drops the summary, and then gives the area back. *)
LEMMA OpStepDrops ==
    ASSUME Core, NEW ctx, IsProg(ctx), OpRuns(ctx), ~Erases,
           lastOp.op \in {"deleteArea", "deleteAreaContents"}, Next, ~PowerLoss
    PROVE  Core' /\ OpFrame /\ OpPages /\ (OpGoes(ctx) \/ OpEnds(ctx))
<1> DEFINE a == lastOp.area
           S == DeleteTail(lastOp, ctx)
           removed == IF a \in cached THEN Then(DeleteSummary(a), S) ELSE S
           dropped == IF a \in cached THEN Then(ResetASWritten(a), Then(DeleteSummary(a), S))
                      ELSE S
           typing == Then(Type(a, "unset"), Then(AddUsed(-1), LastCheck(ctx)))
           using == Then(AddUsed(-1), LastCheck(ctx))
<1>n. ~NoOp
  BY DEF NoOp
<1>o. /\ prog = Cat(ResumeOperation(map, sum, lastOp, ext), ctx)
      /\ lastOp.op = "deleteArea" =>
            ext \in {"increaseErasecount", "reset", "remove", "status", "type", "usedAreas"}
      /\ lastOp.op = "deleteAreaContents" => ext \in {"increaseErasecount", "reset", "remove"}
  BY <1>n, CoreParts, BehindExt DEF OpRuns, DeleteOK, ContentsOK, Erases
<1>l. IsProg(LastCheck(ctx)) /\ IsProg(using) /\ IsProg(typing)
  BY ThenFacts DEF LastCheck
<1>r. /\ Cat(ResumeOperation(map, sum, lastOp, "increaseErasecount"), ctx) = dropped
      /\ Cat(ResumeOperation(map, sum, lastOp, "reset"), ctx) = removed
      /\ Cat(ResumeOperation(map, sum, lastOp, "remove"), ctx) = S
      /\ lastOp.op = "deleteArea" =>
            /\ Cat(ResumeOperation(map, sum, lastOp, "status"), ctx) = typing
            /\ Cat(ResumeOperation(map, sum, lastOp, "type"), ctx) = using
            /\ Cat(ResumeOperation(map, sum, lastOp, "usedAreas"), ctx) = LastCheck(ctx)
      /\ IsProg(S) /\ IsProg(removed) /\ IsProg(dropped)
  <2>1. cached = DOMAIN sum
    BY DEF cached
  <2>2. QED
    BY <2>1, ResumeErase
<1>s. ASSUME lastOp' = lastOp
      PROVE  /\ Cat(ResumeOperation(map', sum', lastOp', "reset"), ctx)
                    = IF a \in cached' THEN Then(DeleteSummary(a), S) ELSE S
             /\ Cat(ResumeOperation(map', sum', lastOp', "remove"), ctx) = S
             /\ lastOp.op = "deleteArea" =>
                /\ Cat(ResumeOperation(map', sum', lastOp', "status"), ctx) = typing
                /\ Cat(ResumeOperation(map', sum', lastOp', "type"), ctx) = using
                /\ Cat(ResumeOperation(map', sum', lastOp', "usedAreas"), ctx) = LastCheck(ctx)
  <2>1. cached' = DOMAIN sum'
    BY DEF cached
  <2>2. QED
    BY <2>1, <1>s, ResumeErase
<1>g. ASSUME lastOp' = lastOp, ext' # "none",
             prog' = Cat(ResumeOperation(map', sum', lastOp', ext'), ctx)
      PROVE  OpGoes(ctx)
  <2>1. (~NoOp /\ ~Erases)'
    BY <1>g, <1>n DEF NoOp, Erases
  <2>2. prog' = Behind(ext, ctx)'
    BY <1>g, BehindExt
  <2>3. QED
    BY <1>g, <2>1, <2>2 DEF OpGoes, OpRuns
<1>t. S = IF lastOp.op = "deleteArea" THEN Then(Status(a, "empty"), typing) ELSE LastCheck(ctx)
  BY DEF DeleteTail
<1>a. a \in Area \ {0}
  BY <1>n, CoreParts
<1> HIDE DEF S, typing, using
<1>e. ASSUME prog = S, ext \in {"increaseErasecount", "reset", "remove"}, a \notin cached
      PROVE  Core' /\ OpFrame /\ OpPages /\ (OpGoes(ctx) \/ OpEnds(ctx))
  <2>1. CASE lastOp.op = "deleteArea"
    <3>1. Status(a, "empty").op \in MapOp
      BY DEF Status, MapOp
    <3>2. MapEntry(Status(a, "empty")) /\ prog' = typing
      BY <1>e, <1>t, <1>l, <2>1, <3>1, CoreParts, ExecMapEntry
    <3>3. /\ Core' /\ MapEntryEffect /\ lastOp' = lastOp /\ ext' = "status"
          /\ map'.pos = map.pos /\ map'.active = map.active
      BY <1>e, <2>1, <3>2, DeleteStatus
    <3>4. OpGoes(ctx)
      BY <1>g, <1>s, <2>1, <3>2, <3>3
    <3>5. buffer' = buffer
      BY <3>3 DEF buffer
    <3>6. QED
      BY <3>3, <3>4, <3>5, EffectFrame
  <2>2. CASE lastOp.op = "deleteAreaContents"
    BY <1>e, <1>t, <2>2, OpStepLast DEF OpDone
  <2>3. QED
    BY <2>1, <2>2
<1>w. SumEntryEffect => addr' = addr /\ flash' = flash /\ map' = map /\ SameRest
  BY DEF SumEntryEffect
<1>f. ASSUME SumEntryEffect, SameMove, SameTx
      PROVE  OpFrame
  BY <1>f, <1>w DEF OpFrame, buffer, stored
<1>1. CASE ext = "increaseErasecount"
  <2>1. CASE a \in cached
    <3>1. prog = Then(ResetASWritten(a), Then(DeleteSummary(a), S))
          /\ IsProg(Then(DeleteSummary(a), S))
      BY <1>1, <2>1, <1>o, <1>r, ThenFacts
    <3>2. ResetASWritten(a).op = "reset"
      BY DEF ResetASWritten
    <3>3. SumEntry(ResetASWritten(a)) /\ prog' = Then(DeleteSummary(a), S)
      BY <3>1, <3>2, CoreParts, ExecSumEntry
    <3>4. /\ Core' /\ SumEntryEffect /\ SameMove /\ SameTx /\ SameStatus
          /\ lastOp' = lastOp /\ ext' = "reset" /\ sum' = sum
      BY <1>1, <3>3, ResetStep
    <3>5. OpGoes(ctx)
      BY <1>g, <1>s, <2>1, <3>3, <3>4 DEF SameStatus
    <3>6. OpPages
      BY <3>4, <1>w DEF OpPages, SameStatus
    <3>7. QED
      BY <3>4, <3>5, <3>6, <1>f
  <2>2. CASE a \notin cached
    BY <1>1, <2>2, <1>e, <1>o, <1>r
  <2>3. QED
    BY <2>1, <2>2
<1>2. CASE ext = "reset"
  <2>1. CASE a \in cached
    <3>1. prog = Then(DeleteSummary(a), S)
      BY <1>2, <2>1, <1>o, <1>r
    <3>2. DeleteSummary(a).op = "remove"
      BY DEF DeleteSummary
    <3>3. SumEntry(DeleteSummary(a)) /\ prog' = S
      BY <3>1, <3>2, <1>r, CoreParts, ExecSumEntry
    <3>4. /\ Core' /\ SumEntryEffect /\ SameMove /\ SameTx
          /\ lastOp' = lastOp /\ ext' = "remove"
          /\ \A b \in Area \ {a} : logged'[b] = logged[b]
      BY <1>2, <3>3, RemoveStep
    <3>5. OpGoes(ctx)
      BY <1>g, <1>s, <3>3, <3>4
    <3>6. OpPages
      <4>1. lastOp.op \notin {"initAreaAs", "closeArea"}
        OBVIOUS
      <4>2. QED
        BY <4>1, <3>4, <1>w DEF OpPages
    <3>7. QED
      BY <3>4, <3>5, <3>6, <1>f
  <2>2. CASE a \notin cached
    BY <1>2, <2>2, <1>e, <1>o, <1>r
  <2>3. QED
    BY <2>1, <2>2
<1>3. CASE ext = "remove"
  <2>1. CASE lastOp.op = "deleteArea"
    <3>1. a \notin cached
      BY <1>3, <1>a, <2>1, CoreParts DEF SumOK, Deleting, Doing1
    <3>2. QED
      BY <3>1, <1>3, <1>e, <1>o, <1>r
  <2>2. CASE lastOp.op = "deleteAreaContents"
    BY <1>3, <1>o, <1>r, <1>t, <2>2, OpStepLast DEF OpDone
  <2>3. QED
    BY <2>1, <2>2
<1>4. CASE ext = "status" /\ lastOp.op = "deleteArea"
  <2>1. prog = Then(Type(a, "unset"), using)
    BY <1>4, <1>o, <1>r DEF typing, using
  <2>2. Type(a, "unset").op \in MapOp
    BY DEF Type, MapOp
  <2>3. MapEntry(Type(a, "unset")) /\ prog' = using
    BY <2>1, <2>2, <1>l, CoreParts, ExecMapEntry
  <2>4. /\ Core' /\ MapEntryEffect /\ lastOp' = lastOp /\ ext' = "type"
        /\ map'.pos = map.pos /\ map'.active = map.active
    BY <1>4, <2>3, DeleteType
  <2>5. OpGoes(ctx)
    BY <1>g, <1>s, <1>4, <2>3, <2>4
  <2>6. buffer' = buffer
    BY <2>4 DEF buffer
  <2>7. QED
    BY <2>4, <2>5, <2>6, EffectFrame
<1>5. CASE ext = "type" /\ lastOp.op = "deleteArea"
  <2>1. prog = Then(AddUsed(-1), LastCheck(ctx))
    BY <1>5, <1>o, <1>r DEF using
  <2>3. MapEntry(UsedAreas(map.used + (-1))) /\ prog' = LastCheck(ctx)
    BY <2>1, <1>l, CoreParts, ExecUsedEntry
  <2>4. /\ Core' /\ MapEntryEffect /\ lastOp' = lastOp /\ ext' = "usedAreas"
        /\ map'.pos = map.pos /\ map'.active = map.active
    BY <1>5, <2>3, DeleteUsed
  <2>5. OpGoes(ctx)
    BY <1>g, <1>s, <1>5, <2>3, <2>4
  <2>6. buffer' = buffer
    BY <2>4 DEF buffer
  <2>7. QED
    BY <2>4, <2>5, <2>6, EffectFrame
<1>6. CASE ext = "usedAreas" /\ lastOp.op = "deleteArea"
  BY <1>6, <1>o, <1>r, OpStepLast DEF OpDone
<1>7. QED
  BY <1>1, <1>2, <1>3, <1>4, <1>5, <1>6, <1>o

(* Any operation. *)
LEMMA OpStep ==
    ASSUME Careful, Core, NEW ctx, IsProg(ctx), OpRuns(ctx), Next, ~PowerLoss
    PROVE  Core' /\ OpFrame /\ OpPages /\ (OpGoes(ctx) \/ OpEnds(ctx))
<1>1. lastOp.op \in {"initAreaAs", "closeArea", "deleteArea", "deleteAreaContents"}
  BY CoreParts DEF OpRuns, NoOp
<1>2. QED
  BY <1>1, OpStepInit, OpStepClose, OpStepErases, OpStepDrops
-----------------------------------------------------------------------------
(* An operation starts: its entry is logged.                               *)

OpEntry(e) == NoteEntry(e) /\ e.op \in AreaMgmtOp /\ NoOp

OpStarts(e) ==
    /\ NoteEffect /\ SameTx /\ lastOp' = e /\ ext' = "none" /\ ~NoOp' /\ target' = target

(* The views after an AreaMgmt operation logs itself: it is the last
   operation and none of its steps is logged. *)
LEMMA OpEntryViews ==
    ASSUME NEW e, OpEntry(e), Core
    PROVE  /\ OpStarts(e)
           /\ e.op \in {"initAreaAs", "closeArea"} => mv' = mv
           /\ e.op \in {"deleteArea", "deleteAreaContents"} =>
                mv' = IF mv = "ok" THEN "ok" ELSE "deletedOldArea"
<1>1. Grows(e) /\ e.op \in AreaMgmtOp /\ NoOp /\ NoteEntry(e)
  BY DEF OpEntry, NoteEntry
<1>2. /\ ~IsCheckpoint(e, "areaMgmt") /\ ~IsCheckpoint(e, "garbage")
      /\ ~IsCheckpoint(e, "dataIO") /\ e.op # "moveValidData"
      /\ e.op \notin {"replacePage", "update", "invalidateOldPages"}
      /\ e.op \in MoveOp <=> e.op \in {"deleteArea", "deleteAreaContents"}
      /\ e.op # "invalidateOldPages"
  BY <1>1 DEF AreaMgmtOp, IsCheckpoint, MoveOp
<1>3. lastOp' = e /\ ext' = "none"
  BY <1>1, OpView
<1>4. ~NoOp'
  BY <1>2, <1>3 DEF NoOp
<1>5. SameTx
  BY <1>1, <1>2, TxView DEF SameTx
<1>6. e.op \notin MoveOp => mv' = mv /\ target' = target
  BY <1>1, <1>2, MoveView
<1>7. e.op \in MoveOp => target' = target /\ mv' = IF mv = "ok" THEN "ok" ELSE "deletedOldArea"
  BY <1>1, <1>2, MoveView
<1>8. NoteEffect
  BY <1>1, NoteEntryViews
<1>9. QED
  BY <1>2, <1>3, <1>4, <1>5, <1>6, <1>7, <1>8 DEF OpStarts

(* Between operations. *)
LEMMA IdleParts ==
    ASSUME Core, NoOp
    PROVE  /\ lastOp = InvalidateOldPages /\ ext = "none" /\ lastOp.op = "invalidateOldPages"
           /\ Adjust = 0 /\ \A a \in Area : ~Deleting(a)
           /\ \A op \in AreaMgmtOp, a \in Area : ~Doing1(op, a)
           /\ \A a \in Area : map.type[a] = "data" => a \notin {0, buffer} /\ map.status[a] # "empty"
           /\ \A a \in Area : map.type[a] = "data" =>
                (map.status[a] = "active" <=> map.active["data"] = a)
<1>1. lastOp = InvalidateOldPages /\ ext = "none"
  BY CoreParts, NoOpIs
<1>2. lastOp.op = "invalidateOldPages"
  BY <1>1 DEF InvalidateOldPages
<1>3. Adjust = 0 /\ \A a \in Area : ~Deleting(a)
  BY <1>2 DEF Adjust, Deleting, Doing1
<1>4. \A op \in AreaMgmtOp, a \in Area : ~Doing1(op, a)
  BY <1>2 DEF AreaMgmtOp, Doing1
<1>5. \A a \in Area : map.type[a] = "data" => a \notin {0, buffer}
  BY CoreParts DEF FixedAreas
<1>6. \A a \in Area : map.type[a] = "data" => map.status[a] # "empty"
  BY <1>2, <1>5, CoreParts DEF OtherAreas, AreaOK, Doing1, Deleting
<1>7. \A a \in Area : map.type[a] = "data" =>
                (map.status[a] = "active" <=> map.active["data"] = a)
  BY <1>2, <1>5, CoreParts DEF OtherAreas, AreaOK, ActiveOK, Doing1
<1>8. QED
  BY <1>1, <1>2, <1>3, <1>4, <1>5, <1>6, <1>7

(* The parts that do not depend on which operation starts. *)
LEMMA StartParts ==
    ASSUME NEW e, OpEntry(e), Core
    PROVE  /\ InFlash' /\ IsProg(log') /\ LogOK' /\ Recovered' /\ (map \in Map)' /\ FixedAreas'
           /\ OtherAreas' /\ PositionsDistinct' /\ Totals' /\ ActiveOK'
           /\ EmptyPages' /\ LoggedPages' /\ WrittenPages' /\ DeletedPages' /\ SumOK'
<1>1. OpStarts(e) /\ NoOp /\ NoteEffect
  BY OpEntryViews DEF OpEntry, OpStarts
<1>u. /\ SameStatus /\ lastOp' = e /\ ext' = "none"
      /\ IsProg(log') /\ LogOK' /\ Recovered' /\ InFlash' /\ SumTyped'
      /\ flash' = flash /\ asWritten' = asWritten /\ sum' = sum /\ addr' = addr /\ map' = map
  BY <1>1 DEF NoteEffect, OpStarts
<1>b. buffer' = buffer
  BY <1>u DEF buffer
<1>2. (map \in Map)' /\ FixedAreas' /\ PositionsDistinct'
  BY <1>u, <1>b, CoreParts DEF FixedAreas, PositionsDistinct
<1>3. OtherAreas'
  BY <1>u, <1>b, <1>1, IdleParts, CoreParts DEF OtherAreas, AreaOK, Doing1, Deleting
<1>4. Totals'
  <2>1. Adjust' = 0 /\ Adjust = 0
    BY <1>u, <1>1, IdleParts DEF Adjust
  <2>2. QED
    BY <2>1, <1>u, CoreParts DEF Totals
<1>5. ActiveOK'
  BY <1>u, <1>1, IdleParts, CoreParts DEF ActiveOK, Doing1
<1>6. EmptyPages' /\ LoggedPages'
  BY <1>u, CoreParts DEF EmptyPages, LoggedPages, SameStatus, ErasedArea
<1>7. WrittenPages'
  BY <1>u, <1>1, IdleParts, CoreParts DEF WrittenPages, SameStatus
<1>8. DeletedPages'
  BY <1>u DEF DeletedPages
<1>9. SumOK'
  <2>1. \A a \in Area : ~Deleting(a)
    BY <1>1, IdleParts
  <2>2. \A a \in Area : (~Deleting(a) => ram[a] = logged[a])'
    BY <2>1, <1>u, CoreParts DEF SumOK, SameStatus
  <2>3. QED
    BY <2>2, <1>u, CoreParts DEF SumOK, SameStatus
<1>10. QED
  BY <1>2, <1>3, <1>4, <1>5, <1>6, <1>7, <1>8, <1>9, <1>u

(* initAreaAs may start on an unset area, or on the target of a finished
   move. *)
LEMMA InitStart ==
    ASSUME Core, NEW a \in Area \ {0}, OpEntry(InitAreaAs(a, "data")), NoActive, ~replaced,
           \/ mv = "ok" /\ map.type[a] = "unset"
           \/ mv = "setNewSummary" /\ target = a
    PROVE  Core' /\ OpStarts(InitAreaAs(a, "data")) /\ mv' = mv
<1> DEFINE e == InitAreaAs(a, "data")
<1>e. e.op = "initAreaAs" /\ e.area = a /\ e.type = "data"
  BY DEF InitAreaAs
<1> HIDE DEF e
<1>1. OpStarts(e) /\ mv' = mv /\ NoOp /\ NoteEffect
  BY <1>e, OpEntryViews DEF OpEntry, OpStarts, e
<1>u. /\ SameStatus /\ SameTx /\ lastOp' = e /\ ext' = "none" /\ target' = target /\ ~NoOp'
      /\ flash' = flash /\ asWritten' = asWritten /\ sum' = sum /\ addr' = addr /\ map' = map
  BY <1>1 DEF NoteEffect, OpStarts
<1>b. buffer' = buffer
  BY <1>u DEF buffer
<1>a. a # buffer /\ (mv # "ok" => map.type[a] = "data" /\ map.status[a] # "empty")
      /\ map.active["data"] = 0
  BY <1>1, CoreParts, IdleParts DEF FixedAreas, MoveOK, NoActive
<1>2. OpOK'
  BY <1>e, <1>1, <1>u, <1>b, <1>a DEF OpOK, InitOK, CloseOK, DeleteOK, ContentsOK, SameTx
<1>3. FilesOK'
  BY <1>e, <1>u, CoreParts DEF FilesOK, Deleting, Doing1
<1>4. DataPages'
  BY <1>u, <1>1, IdleParts, CoreParts DEF DataPages, FreeOK, UsedOK, SameStatus, Lost
<1>5. BufferPages'
  BY <1>u, <1>b, <1>1, CoreParts DEF BufferPages, ErasedArea
<1>6. MoveOK'
  BY <1>u, <1>1, CoreParts, MoveStays DEF SameMove
<1>7. TxOK'
  BY <1>u DEF TxOK, SameTx
<1>8. Core'
  BY <1>2, <1>3, <1>4, <1>5, <1>6, <1>7, StartParts, CoreWhole DEF PagesOK, e
<1>9. QED
  BY <1>8, <1>1 DEF e

(* closeArea may start on the active data area. *)
LEMMA CloseStart ==
    ASSUME Core, NEW a \in Area \ {0}, OpEntry(CloseArea(a)), mv = "ok",
           map.active["data"] = a
    PROVE  Core' /\ OpStarts(CloseArea(a)) /\ mv' = mv
<1> DEFINE e == CloseArea(a)
<1>e. e.op = "closeArea" /\ e.area = a
  BY DEF CloseArea
<1> HIDE DEF e
<1>1. OpStarts(e) /\ mv' = mv /\ NoOp /\ NoteEffect
  BY <1>e, OpEntryViews DEF OpEntry, OpStarts, e
<1>u. /\ SameStatus /\ SameTx /\ lastOp' = e /\ ext' = "none" /\ target' = target /\ ~NoOp'
      /\ flash' = flash /\ asWritten' = asWritten /\ sum' = sum /\ addr' = addr /\ map' = map
  BY <1>1 DEF NoteEffect, OpStarts
<1>b. buffer' = buffer
  BY <1>u DEF buffer
<1>a. a # buffer /\ map.type[a] = "data" /\ map.status[a] = "active"
  BY <1>1, CoreParts, IdleParts DEF FixedAreas, ActiveOK
<1>2. OpOK'
  BY <1>e, <1>1, <1>u, <1>b, <1>a DEF OpOK, InitOK, CloseOK, DeleteOK, ContentsOK
<1>3. FilesOK'
  BY <1>e, <1>u, CoreParts DEF FilesOK, Deleting, Doing1
<1>4. DataPages'
  BY <1>u, <1>1, IdleParts, CoreParts DEF DataPages, FreeOK, UsedOK, SameStatus, Lost
<1>5. BufferPages'
  BY <1>u, <1>b, <1>1, CoreParts DEF BufferPages, ErasedArea
<1>6. MoveOK'
  BY <1>u, <1>1, CoreParts, MoveStays DEF SameMove
<1>7. TxOK'
  BY <1>u, <1>e, CoreParts, TxStays
<1>8. Core'
  BY <1>2, <1>3, <1>4, <1>5, <1>6, <1>7, StartParts, CoreWhole DEF PagesOK, e
<1>9. QED
  BY <1>8, <1>1 DEF e

(* deleteArea may start on a data area no file has a page on. *)
LEMMA DeleteStart ==
    ASSUME Core, NEW a \in Area \ {0}, OpEntry(DeleteArea(a)), Quiet, NoActive,
           map.type[a] = "data", Dead(a)
    PROVE  Core' /\ OpStarts(DeleteArea(a)) /\ mv' = "ok"
<1> DEFINE e == DeleteArea(a)
<1>e. e.op = "deleteArea" /\ e.area = a
  BY DEF DeleteArea
<1> HIDE DEF e
<1>1. OpStarts(e) /\ mv' = "ok" /\ mv = "ok" /\ NoOp /\ NoteEffect /\ ~replaced
  BY <1>e, OpEntryViews DEF OpEntry, OpStarts, e, Quiet
<1>u. /\ SameStatus /\ SameTx /\ lastOp' = e /\ ext' = "none" /\ target' = target /\ ~NoOp'
      /\ flash' = flash /\ asWritten' = asWritten /\ sum' = sum /\ addr' = addr /\ map' = map
  BY <1>1 DEF NoteEffect, OpStarts
<1>b. buffer' = buffer
  BY <1>u DEF buffer
<1>a. a # buffer /\ map.status[a] = "closed" /\ map.active["data"] = 0
  <2>1. map.status[a] \in AreaStatus
    BY CoreParts
  <2>2. QED
    BY <2>1, <1>1, CoreParts, IdleParts DEF AreaStatus, NoActive
<1>2. OpOK'
  BY <1>e, <1>1, <1>u, <1>b, <1>a DEF OpOK, InitOK, CloseOK, DeleteOK, ContentsOK, SameTx
<1>d. \A f \in FilePage : addr[f] # NoAddr => addr[f][1] # a
  <2>1. ASSUME NEW f \in FilePage, addr[f] # NoAddr, addr[f][1] = a
        PROVE  FALSE
    <3>1. UsedOK(a)
      BY <1>1, IdleParts, CoreParts DEF DataPages, Lost
    <3>2. logged[a][addr[f][2]] = "used"
      BY <2>1, <3>1 DEF UsedOK
    <3>3. addr[f] \in Addr
      BY <2>1, CoreParts DEF FilesOK
    <3>4. addr[f][2] \in Page
      BY <3>3 DEF Addr
    <3>5. QED
      BY <3>2, <3>4 DEF Dead
  <2>2. QED
    BY <2>1
<1>3. FilesOK'
  BY <1>d, <1>e, <1>u, CoreParts DEF FilesOK, Deleting, Doing1
<1>4. DataPages'
  BY <1>u, <1>1, IdleParts, CoreParts DEF DataPages, FreeOK, UsedOK, SameStatus, Lost
<1>5. BufferPages'
  BY <1>u, <1>b, <1>1, CoreParts DEF BufferPages, ErasedArea
<1>6. MoveOK'
  BY <1>1 DEF MoveOK
<1>7. TxOK'
  BY <1>u, <1>1 DEF TxOK, SameTx
<1>8. Core'
  BY <1>2, <1>3, <1>4, <1>5, <1>6, <1>7, StartParts, CoreWhole DEF PagesOK, e
<1>9. QED
  BY <1>8, <1>1 DEF e

(* deleteAreaContents may start on the area a move has emptied. *)
LEMMA ContentsStart ==
    ASSUME Core, NEW x \in Area \ {0}, NEW b, b = buffer, OpEntry(DeleteAreaContents(x, b)),
           mv # "ok", mv # "setNewSummary", x \in {buffer, target}
    PROVE  Core' /\ OpStarts(DeleteAreaContents(x, b)) /\ mv' = "deletedOldArea"
<1> DEFINE e == DeleteAreaContents(x, b)
<1>e. e.op = "deleteAreaContents" /\ e.area = x /\ e.b = b
  BY DEF DeleteAreaContents
<1> HIDE DEF e
<1>1. OpStarts(e) /\ mv' = "deletedOldArea" /\ NoOp /\ NoteEffect
  BY <1>e, OpEntryViews DEF OpEntry, OpStarts, e
<1>u. /\ SameStatus /\ SameTx /\ lastOp' = e /\ ext' = "none" /\ target' = target /\ ~NoOp'
      /\ flash' = flash /\ asWritten' = asWritten /\ sum' = sum /\ addr' = addr /\ map' = map
  BY <1>1 DEF NoteEffect, OpStarts
<1>b. buffer' = buffer
  BY <1>u DEF buffer
<1>m. ~replaced /\ target \in Area \ {0} /\ map.type[target] = "data"
      /\ map.status[target] = "closed" /\ map.pos[target] \notin asWritten
      /\ map.active["data"] = 0
  BY CoreParts DEF MoveOK
<1>2. OpOK'
  BY <1>e, <1>1, <1>u, <1>b DEF OpOK, InitOK, CloseOK, DeleteOK, ContentsOK
<1>3. FilesOK'
  BY <1>e, <1>u, CoreParts DEF FilesOK, Deleting, Doing1
<1>4. DataPages'
  <2>1. \A c \in Area : (map.type[c] = "data" /\ ~Lost(c))' => FreeOK(c) /\ UsedOK(c)
    BY <1>u, <1>1, IdleParts, CoreParts DEF DataPages, Lost
  <2>2. QED
    BY <2>1, <1>u DEF DataPages, FreeOK, UsedOK, SameStatus, Lost
<1>5. BufferPages'
  BY <1>u, <1>b, <1>1, CoreParts DEF BufferPages
<1>6. MoveOK'
  BY <1>u, <1>1, <1>m DEF MoveOK, SameTx
<1>7. TxOK'
  BY <1>u, <1>m DEF TxOK, SameTx
<1>8. Core'
  BY <1>2, <1>3, <1>4, <1>5, <1>6, <1>7, StartParts, CoreWhole DEF PagesOK, e
<1>9. QED
  BY <1>8, <1>1 DEF e
-----------------------------------------------------------------------------
(* What an operation does once it is announced.                            *)

(* Its entry is logged, and its instructions follow. *)
LEMMA ExecOpEntry ==
    ASSUME Core, NoOp, NEW x, NEW r, IsProg(r), prog = Then(x, r), Next, ~PowerLoss,
           x.op \in AreaMgmtOp, x.area \in Area \ {0}
    PROVE  OpEntry(x) /\ \E body \in Body(x) : prog' = Cat(body, r)
<1>1. map.type[x.area] # "retired"
  BY CoreParts DEF FixedAreas, OtherAreas, AreaOK
<1>2. /\ log' = Append(log, x) /\ \E body \in Body(x) : prog' = body \o r
      /\ UNCHANGED <<flashVars, index, ramVars, phase, found, bounds>>
  BY <1>1, ExecOperation
<1>3. ~IsCheckpoint(x, "summaryCache")
  BY DEF IsCheckpoint, AreaMgmtOp
<1>4. QED
  BY <1>2, <1>3, CoreParts DEF OpEntry, NoteEntry, Grows, Cat

(* The body of initAreaAs is what a mount would make of its entry. *)
LEMMA InitBody ==
    ASSUME NEW a, NEW t, NEW body \in Body(InitAreaAs(a, t)), NEW ctx, IsProg(ctx)
    PROVE  Cat(body, ctx) = Cat(ResumeOperation(map, sum, InitAreaAs(a, t), "none"), ctx)
<1> DEFINE e == InitAreaAs(a, t)
           u == IF map.status[a] = "empty" THEN <<AddUsed(1)>> ELSE Nil
           T == <<Type(a, t)>>
           A == <<ActiveArea(t, a)>>
           C == <<Checkpoint("areaMgmt")>>
           z == <<ActiveArea(t, a), Checkpoint("areaMgmt")>>
<1>1. e.op = "initAreaAs" /\ e.area = a /\ e.type = t
  BY DEF InitAreaAs
<1>2. body = initAreaAs(a, t)
  BY <1>1 DEF Body
<1>3. initAreaAs(a, t) = Cat(Cat(T, u), z)
  BY DEF initAreaAs, Cat, Nil
<1>4. IsProg(T) /\ IsProg(u) /\ IsProg(z) /\ Cat(z, ctx) = Then(ActiveArea(t, a), LastCheck(ctx))
  <2>1. IsProg(T) /\ IsProg(<<AddUsed(1)>>) /\ IsProg(Nil)
    BY CatFacts
  <2>2. IsProg(z) /\ Cat(z, ctx) = Then(ActiveArea(t, a), LastCheck(ctx))
    BY ThenTwo DEF Cat, LastCheck
  <2>3. QED
    BY <2>1, <2>2
<1>5. Cat(Cat(Cat(T, u), z), ctx) = Cat(T, Cat(u, Cat(z, ctx)))
  <2> HIDE DEF T, u, z
  <2>1. Cat(Cat(Cat(T, u), z), ctx) = Cat(Cat(T, u), Cat(z, ctx))
    BY <1>4, CatFacts
  <2>2. IsProg(Cat(z, ctx))
    BY <1>4, CatFacts
  <2>3. QED
    BY <2>1, <2>2, <1>4, CatFacts
<1>6. Cat(u, Cat(z, ctx)) = IF map.status[a] = "empty"
                            THEN Then(AddUsed(1), Cat(z, ctx)) ELSE Cat(z, ctx)
  <2>1. IsProg(Cat(z, ctx))
    BY <1>4, CatFacts
  <2> DEFINE y == Cat(z, ctx)
  <2> HIDE DEF y
  <2>2. Cat(u, y) = IF map.status[a] = "empty" THEN Then(AddUsed(1), y) ELSE y
    BY <2>1, CatFacts DEF y
  <2>3. QED
    BY <2>2 DEF y
<1>7. Cat(T, Cat(u, Cat(z, ctx))) = Then(Type(a, t), Cat(u, Cat(z, ctx)))
  <2> DEFINE y == Cat(u, Cat(z, ctx))
  <2>1. IsProg(y)
    <3> HIDE DEF u, z
    <3>1. QED
      BY <1>4, CatFacts
  <2> HIDE DEF y
  <2>2. Cat(T, y) = Then(Type(a, t), y)
    BY <2>1, CatFacts
  <2>3. QED
    BY <2>2 DEF y
<1>8. Cat(ResumeOperation(map, sum, e, "none"), ctx)
        = Then(Type(a, t), IF map.status[a] = "empty"
                           THEN Then(AddUsed(1), Then(ActiveArea(t, a), LastCheck(ctx)))
                           ELSE Then(ActiveArea(t, a), LastCheck(ctx)))
  <2> HIDE DEF e
  <2>1. QED
    BY <1>1, ResumeInit
<1> HIDE DEF T, u, z
<1>9. QED
  BY <1>2, <1>3, <1>4, <1>5, <1>6, <1>7, <1>8

(* The body of closeArea. *)
LEMMA CloseBody ==
    ASSUME NEW a, NEW body \in Body(CloseArea(a)), NEW ctx, IsProg(ctx)
    PROVE  Cat(body, ctx) = Cat(ResumeOperation(map, sum, CloseArea(a), "none"), ctx)
<1> DEFINE e == CloseArea(a)
<1>1. e.op = "closeArea" /\ e.area = a
  BY DEF CloseArea
<1>2. body = closeArea(a)
  BY <1>1 DEF Body
<1>3. Cat(closeArea(a), ctx)
        = Then(Status(a, "closed"), Then(ActiveArea(map.type[a], 0), LastCheck(ctx)))
  BY ThenThree DEF closeArea, Cat, LastCheck
<1>4. Cat(ResumeOperation(map, sum, e, "none"), ctx)
        = Then(Status(a, "closed"), Then(ActiveArea(map.type[a], 0), LastCheck(ctx)))
  <2> HIDE DEF e
  <2>1. QED
    BY <1>1, ResumeClose
<1>5. QED
  BY <1>2, <1>3, <1>4

(* No erase fails, as long as none may. *)
LEMMA ErasingIs ==
    ASSUME Careful, InFlash, NEW b
    PROVE  Erasing(b) = {EraseArea(map.pos[b])} /\ Succeeded(EraseArea(map.pos[b]))
<1>1. bad = {} /\ MaxBad = 0
  BY DEF InFlash, Careful
<1>2. Cardinality(bad \union {map.pos[b]}) = 1
  <2>1. bad \union {map.pos[b]} = {map.pos[b]}
    BY <1>1
  <2>2. QED
    BY <2>1, FS_Singleton
<1>3. Erasing(b) = {EraseArea(map.pos[b])}
  BY <1>1, <1>2 DEF Erasing
<1>4. Succeeded(EraseArea(map.pos[b]))
  <2> DEFINE B == BlocksPerArea
             q == map.pos[b]
             s == EraseArea(q)
             S == {EraseBlock(q, j) : j \in Int}
  <2>1. B \in Nat /\ B > 0
    BY Constants
  <2>2. s = [k \in 1 .. B |-> EraseBlock(q, k - 1)]
    BY DEF EraseArea
  <2>3. \A j \in Int : EraseBlock(q, j) \in S
    OBVIOUS
  <2> HIDE DEF S, B, s, q
  <2>4. s \in Seq(S) /\ Len(s) = B /\ s[B] = EraseBlock(q, B - 1)
    BY <2>1, <2>2, <2>3, SeqDef
  <2>5. Last(s).op = "eraseBlock"
    BY <2>4 DEF Last, EraseBlock
  <2>6. QED
    BY <2>5 DEF Succeeded, s, q
<1>5. QED
  BY <1>3, <1>4

(* The body of a deletion: every block of the position, then the rest. *)
Deletes(e, pos, ctx) ==
    Cat(EraseArea(pos), Then(IncreaseErasecount(e.area),
                             Cat(ResumeOperation(map, sum, e, "increaseErasecount"), ctx)))

(* What drops a summary, in front of a program. *)
LEMMA DropFacts ==
    ASSUME NEW a, NEW r, IsProg(r)
    PROVE  /\ IsProg(DropSummary(a))
           /\ Cat(DropSummary(a), r) = IF a \in cached
                                       THEN Then(ResetASWritten(a), Then(DeleteSummary(a), r))
                                       ELSE r
<1>1. CASE a \in cached
  BY <1>1, ThenTwo DEF DropSummary, Cat
<1>2. CASE a \notin cached
  <2>1. DropSummary(a) = Nil
    BY <1>2 DEF DropSummary, Nil
  <2>2. QED
    BY <2>1, <1>2, CatFacts
<1>3. QED
  BY <1>1, <1>2

(* Erasing, counting and dropping, in front of the rest. *)
LEMMA DeleteParts ==
    ASSUME NEW pos, NEW a, NEW x, NEW ctx, IsProg(x), IsProg(ctx), NEW S, Cat(x, ctx) = S
    PROVE  Cat(Cat(Cat(Cat(EraseArea(pos), <<IncreaseErasecount(a)>>), DropSummary(a)), x), ctx)
            = Cat(EraseArea(pos),
                  Then(IncreaseErasecount(a),
                       IF a \in cached
                       THEN Then(ResetASWritten(a), Then(DeleteSummary(a), S)) ELSE S))
<1> DEFINE E == EraseArea(pos)
           I == <<IncreaseErasecount(a)>>
           D == DropSummary(a)
           y == Cat(D, S)
<1>0. 0 \in 0 .. BlocksPerArea
  BY Constants
<1>1. IsProg(E) /\ IsProg(I) /\ IsProg(D)
  <2>1. IsProg(EraseFrom(pos, 0)) /\ EraseFrom(pos, 0) = EraseArea(pos)
    BY <1>0, EraseFacts
  <2>2. IsProg(D)
    BY DropFacts
  <2>3. IsProg(I)
    BY CatFacts
  <2>4. QED
    BY <2>1, <2>2, <2>3
<1>2. y = IF a \in cached
          THEN Then(ResetASWritten(a), Then(DeleteSummary(a), S)) ELSE S
  <2>1. IsProg(S)
    BY CatFacts
  <2>2. QED
    BY <2>1, DropFacts
<1>i. \A r : IsProg(r) => Cat(I, r) = Then(IncreaseErasecount(a), r)
  BY CatFacts
<1> HIDE DEF E, I, D
<1>3. Cat(Cat(Cat(Cat(E, I), D), x), ctx) = Cat(E, Cat(I, y))
  <2>1. IsProg(Cat(E, I)) /\ IsProg(Cat(Cat(E, I), D)) /\ IsProg(S) /\ IsProg(y)
    BY <1>1, CatFacts
  <2>2. Cat(Cat(Cat(Cat(E, I), D), x), ctx) = Cat(Cat(Cat(E, I), D), S)
    BY <2>1, CatFacts
  <2>3. Cat(Cat(Cat(E, I), D), S) = Cat(Cat(E, I), y)
    BY <2>1, <1>1, CatFacts
  <2>4. Cat(Cat(E, I), y) = Cat(E, Cat(I, y))
    BY <2>1, <1>1, CatFacts
  <2>5. QED
    BY <2>2, <2>3, <2>4
<1>4. Cat(I, y) = Then(IncreaseErasecount(a), y)
  <2>1. IsProg(y)
    BY <1>1, CatFacts
  <2> HIDE DEF y
  <2>2. QED
    BY <2>1, <1>i
<1>5. QED
  BY <1>2, <1>3, <1>4 DEF E, I, D

(* Without bad blocks the body of deleteArea is an erase of each block and
   the entries after it. *)
LEMMA DeleteBody ==
    ASSUME Careful, InFlash, NEW a, NEW body \in Body(DeleteArea(a)), NEW ctx, IsProg(ctx)
    PROVE  Cat(body, ctx) = Deletes(DeleteArea(a), map.pos[a], ctx)
<1> DEFINE e == DeleteArea(a)
           E == EraseArea(map.pos[a])
           x == <<Status(a, "empty"), Type(a, "unset"), AddUsed(-1), Checkpoint("areaMgmt")>>
<1>1. e.op = "deleteArea" /\ e.area = a
  BY DEF DeleteArea
<1>2. body \in deleteArea(a)
  BY <1>1 DEF Body
<1>3. body = Cat(Cat(Cat(E, <<IncreaseErasecount(a)>>), DropSummary(a)), x)
  <2>1. Erasing(a) = {E} /\ Succeeded(E)
    BY ErasingIs
  <2>2. QED
    BY <1>2, <2>1 DEF deleteArea, Cat
<1>4. IsProg(x) /\ Cat(x, ctx) = DeleteTail(e, ctx)
  <2>1. IsProg(x) /\ Cat(x, ctx) = Then(Status(a, "empty"), Then(Type(a, "unset"),
                                        Then(AddUsed(-1), Then(Checkpoint("areaMgmt"), ctx))))
    BY ThenFour DEF Cat
  <2> HIDE DEF e
  <2>2. QED
    BY <2>1, <1>1 DEF DeleteTail, LastCheck
<1>5. Cat(ResumeOperation(map, sum, e, "increaseErasecount"), ctx)
        = LET S == DeleteTail(e, ctx) IN
          IF a \in cached THEN Then(ResetASWritten(a), Then(DeleteSummary(a), S)) ELSE S
  <2> HIDE DEF e
  <2>1. QED
    BY <1>1, ResumeErase DEF cached
<1> HIDE DEF x, e
<1>6. QED
  BY <1>1, <1>3, <1>4, <1>5, DeleteParts DEF Deletes, e

(* The same for deleteAreaContents. *)
LEMMA ContentsBody ==
    ASSUME Careful, InFlash, NEW a, NEW b, NEW body \in Body(DeleteAreaContents(a, b)),
           NEW ctx, IsProg(ctx)
    PROVE  Cat(body, ctx) = Deletes(DeleteAreaContents(a, b), map.pos[b], ctx)
<1> DEFINE e == DeleteAreaContents(a, b)
           E == EraseArea(map.pos[b])
           x == <<Checkpoint("areaMgmt")>>
<1>1. e.op = "deleteAreaContents" /\ e.area = a /\ e.b = b
  BY DEF DeleteAreaContents
<1>2. body \in deleteAreaContents(a, b)
  BY <1>1 DEF Body
<1>3. body = Cat(Cat(Cat(E, <<IncreaseErasecount(a)>>), DropSummary(a)), x)
  <2>1. Erasing(b) = {E}
    BY ErasingIs
  <2>2. QED
    BY <1>2, <2>1 DEF deleteAreaContents, Cat
<1>4. IsProg(x) /\ Cat(x, ctx) = DeleteTail(e, ctx)
  <2>1. IsProg(x) /\ Cat(x, ctx) = Then(Checkpoint("areaMgmt"), ctx)
    BY CatFacts
  <2> HIDE DEF e
  <2>2. QED
    BY <2>1, <1>1 DEF DeleteTail, LastCheck
<1>5. Cat(ResumeOperation(map, sum, e, "increaseErasecount"), ctx)
        = LET S == DeleteTail(e, ctx) IN
          IF a \in cached THEN Then(ResetASWritten(a), Then(DeleteSummary(a), S)) ELSE S
  <2> HIDE DEF e
  <2>1. QED
    BY <1>1, ResumeErase DEF cached
<1> HIDE DEF x, e
<1>6. QED
  BY <1>1, <1>3, <1>4, <1>5, DeleteParts DEF Deletes, e
-----------------------------------------------------------------------------
(* An operation starts, and from then on it is in progress.                *)

(* An operation without erases, just started, has its whole program ahead. *)
LEMMA StartRuns ==
    ASSUME NEW x, OpStarts(x), NEW ctx, x.op \in {"initAreaAs", "closeArea"},
           prog' = Cat(ResumeOperation(map, sum, x, "none"), ctx)
    PROVE  OpRuns(ctx)'
<1>1. /\ lastOp' = x /\ ext' = "none" /\ ~NoOp' /\ map' = map /\ sum' = sum
  BY DEF OpStarts, NoteEffect
<1>2. ~Erases'
  BY <1>1 DEF Erases
<1>3. Behind(ext, ctx)' = Cat(ResumeOperation(map', sum', lastOp', ext'), ctx)
  BY BehindExt
<1>4. prog' = Behind(ext, ctx)'
  BY <1>1, <1>3, SMTT(30)
<1>5. QED
  BY <1>1, <1>2, <1>4 DEF OpRuns

(* An operation with erases, just started, has the erases and its whole
   program ahead. *)
LEMMA StartErases ==
    ASSUME NEW x, OpStarts(x), NEW ctx, x.op \in {"deleteArea", "deleteAreaContents"}, NEW pos,
           pos = map.pos[IF x.op = "deleteArea" THEN x.area ELSE x.b], IsProg(ctx),
           prog' = Deletes(x, pos, ctx)
    PROVE  OpRuns(ctx)'
<1>1. /\ lastOp' = x /\ ext' = "none" /\ ~NoOp' /\ map' = map /\ sum' = sum
  BY DEF OpStarts, NoteEffect
<1>2. Erases' /\ ErasedPos' = pos
  BY <1>1 DEF Erases, ErasedPos
<1>3. Behind("increaseErasecount", ctx)'
        = Cat(ResumeOperation(map', sum', lastOp', "increaseErasecount"), ctx)
  BY BehindIs
<1>4. EraseFrom(pos, 0) = EraseArea(pos)
  BY EraseFacts
<1>5. prog' = Cat(EraseFrom(pos, 0), Then(IncreaseErasecount(x.area),
                                         Behind("increaseErasecount", ctx)'))
  BY <1>1, <1>3, <1>4 DEF Deletes
<1>6. prog' = (EraseFrom(ErasedPos, 0) \o Then(IncreaseErasecount(lastOp.area),
                                         Behind("increaseErasecount", ctx)))'
  BY <1>1, <1>2, <1>5 DEF Cat
<1>7. BlocksErased(ErasedPos, 0)'
  <2>1. 0 # BlocksPerArea /\ \A p \in Page : ~(BlockOf(p) < 0)
    BY Constants, Blocks
  <2>2. QED
    BY <2>1 DEF BlocksErased
<1>8. 0 \in 0 .. BlocksPerArea
  BY Constants
<1>9. QED
  BY <1>1, <1>2, <1>6, <1>7, <1>8, SMTT(30) DEF OpRuns

(* Areas are announced by their entry. *)
LEMMA OpNames ==
    /\ \A a, t : InitAreaAs(a, t).op = "initAreaAs" /\ InitAreaAs(a, t).area = a
                    /\ InitAreaAs(a, t).type = t
    /\ \A a : CloseArea(a).op = "closeArea" /\ CloseArea(a).area = a
    /\ \A a : DeleteArea(a).op = "deleteArea" /\ DeleteArea(a).area = a
    /\ \A a, b : /\ DeleteAreaContents(a, b).op = "deleteAreaContents"
                 /\ DeleteAreaContents(a, b).area = a /\ DeleteAreaContents(a, b).b = b
    /\ {"initAreaAs", "closeArea", "deleteArea", "deleteAreaContents"} \subseteq AreaMgmtOp
BY DEF InitAreaAs, CloseArea, DeleteArea, DeleteAreaContents, AreaMgmtOp

(* The step that starts initAreaAs keeps Core and leaves its program ahead. *)
LEMMA InitRuns ==
    ASSUME Core, NEW a \in Area \ {0}, NEW ctx, IsProg(ctx), prog = Then(InitAreaAs(a, "data"), ctx),
           Next, ~PowerLoss, NoOp, NoActive, ~replaced,
           \/ mv = "ok" /\ map.type[a] = "unset"
           \/ mv = "setNewSummary" /\ target = a
    PROVE  Core' /\ OpStarts(InitAreaAs(a, "data")) /\ mv' = mv /\ OpRuns(ctx)'
<1> DEFINE x == InitAreaAs(a, "data")
<1>1. x.op = "initAreaAs" /\ x.op \in AreaMgmtOp /\ x.area = a
  BY OpNames
<1> HIDE DEF x
<1>2. OpEntry(x) /\ \E body \in Body(x) : prog' = Cat(body, ctx)
  BY <1>1, ExecOpEntry DEF x
<1>3. Core' /\ OpStarts(x) /\ mv' = mv
  BY <1>2, InitStart DEF x
<1>4. prog' = Cat(ResumeOperation(map, sum, x, "none"), ctx)
  BY <1>2, InitBody DEF x
<1>5. OpRuns(ctx)'
  BY <1>1, <1>3, <1>4, StartRuns
<1>6. QED
  BY <1>3, <1>5 DEF x

(* The step that starts closeArea keeps Core and leaves its program ahead. *)
LEMMA CloseRuns ==
    ASSUME Core, NEW a \in Area \ {0}, NEW ctx, IsProg(ctx), prog = Then(CloseArea(a), ctx),
           Next, ~PowerLoss, NoOp, mv = "ok", map.active["data"] = a
    PROVE  Core' /\ OpStarts(CloseArea(a)) /\ mv' = mv /\ OpRuns(ctx)'
<1> DEFINE x == CloseArea(a)
<1>1. x.op = "closeArea" /\ x.op \in AreaMgmtOp /\ x.area = a
  BY OpNames
<1> HIDE DEF x
<1>2. OpEntry(x) /\ \E body \in Body(x) : prog' = Cat(body, ctx)
  BY <1>1, ExecOpEntry DEF x
<1>3. Core' /\ OpStarts(x) /\ mv' = mv
  BY <1>2, CloseStart DEF x
<1>4. prog' = Cat(ResumeOperation(map, sum, x, "none"), ctx)
  BY <1>2, CloseBody DEF x
<1>5. OpRuns(ctx)'
  BY <1>1, <1>3, <1>4, StartRuns
<1>6. QED
  BY <1>3, <1>5 DEF x

(* The step that starts deleteArea keeps Core and leaves its program ahead. *)
LEMMA DeleteRuns ==
    ASSUME Careful, Core, NEW a \in Area \ {0}, NEW ctx, IsProg(ctx),
           prog = Then(DeleteArea(a), ctx), Next, ~PowerLoss,
           Quiet, NoActive, map.type[a] = "data", Dead(a)
    PROVE  Core' /\ OpStarts(DeleteArea(a)) /\ mv' = "ok" /\ OpRuns(ctx)'
<1> DEFINE x == DeleteArea(a)
<1>1. x.op = "deleteArea" /\ x.op \in AreaMgmtOp /\ x.area = a
  BY OpNames
<1>0. NoOp /\ InFlash
  BY CoreParts DEF Quiet
<1> HIDE DEF x
<1>2. OpEntry(x) /\ \E body \in Body(x) : prog' = Cat(body, ctx)
  BY <1>0, <1>1, ExecOpEntry DEF x
<1>3. Core' /\ OpStarts(x) /\ mv' = "ok"
  BY <1>2, DeleteStart DEF x
<1>4. prog' = Deletes(x, map.pos[a], ctx)
  BY <1>0, <1>2, DeleteBody DEF x
<1>5. OpRuns(ctx)'
  BY <1>1, <1>3, <1>4, StartErases
<1>6. QED
  BY <1>3, <1>5 DEF x

(* The step that starts deleteAreaContents keeps Core and leaves its
   program ahead. *)
LEMMA ContentsRuns ==
    ASSUME Careful, Core, NEW c \in Area \ {0}, NEW b, b = buffer, NEW ctx, IsProg(ctx),
           prog = Then(DeleteAreaContents(c, b), ctx), Next, ~PowerLoss,
           NoOp, mv # "ok", mv # "setNewSummary", c \in {buffer, target}
    PROVE  Core' /\ OpStarts(DeleteAreaContents(c, b)) /\ mv' = "deletedOldArea" /\ OpRuns(ctx)'
<1> DEFINE x == DeleteAreaContents(c, b)
<1>1. x.op = "deleteAreaContents" /\ x.op \in AreaMgmtOp /\ x.area = c /\ x.b = b
  BY OpNames
<1>0. InFlash
  BY CoreParts
<1> HIDE DEF x
<1>2. OpEntry(x) /\ \E body \in Body(x) : prog' = Cat(body, ctx)
  BY <1>1, ExecOpEntry DEF x
<1>3. Core' /\ OpStarts(x) /\ mv' = "deletedOldArea"
  BY <1>2, ContentsStart DEF x
<1>4. prog' = Deletes(x, map.pos[b], ctx)
  BY <1>0, <1>2, ContentsBody DEF x
<1>5. OpRuns(ctx)'
  BY <1>1, <1>3, <1>4, StartErases
<1>6. QED
  BY <1>3, <1>5 DEF x

(* What its start leaves alone. *)
LEMMA StartFrame ==
    ASSUME NEW x, OpStarts(x)
    PROVE  /\ SameTx /\ SameRest /\ SameStatus /\ target' = target
           /\ addr' = addr /\ map' = map /\ buffer' = buffer /\ flash' = flash
           /\ asWritten' = asWritten /\ stored' = stored
           /\ lastOp' = x
BY DEF OpStarts, NoteEffect, buffer, stored
-----------------------------------------------------------------------------
(* Steps that change the program only.                                     *)

SameState ==
    /\ SameMove /\ SameTx /\ SameStatus
    /\ UNCHANGED <<flash, asWritten, map, sum, addr>>
    /\ lastOp' = lastOp /\ ext' = ext /\ (NoOp' <=> NoOp) /\ buffer' = buffer /\ stored' = stored
    /\ TxState' = TxState

(* A step that changes only the program and the counter of operations keeps
   Core and every view. *)
LEMMA StateSame ==
    ASSUME Core, UNCHANGED <<flashVars, index, log, ramVars>>, ops' \in 0 .. MaxOps
    PROVE  Core' /\ SameState
<1>1. UNCHANGED <<flash, asWritten, bad, index, log, map, sum, addr>>
  BY DEF flashVars, ramVars
<1>2. /\ lastOp' = lastOp /\ ext' = ext /\ (NoOp' <=> NoOp)
      /\ mv' = mv /\ target' = target
      /\ (replaced' <=> replaced) /\ (updated' <=> updated) /\ (invalidated' <=> invalidated)
      /\ neuPage' = neuPage /\ oldPage' = oldPage
      /\ TxState' = TxState
  BY <1>1, ViewStays
<1>3. SameMove /\ SameTx
  BY <1>2 DEF SameMove, SameTx
<1>4. \A a \in Area : Base(a)' = Base(a)
  BY <1>1 DEF Base
<1>5. LogOK' /\ inLog' = inLog /\ logged' = logged
  BY <1>1, <1>4, CoreParts, LoggedStays
<1>6. SumTyped' /\ ram' = ram /\ cached' = cached
  BY <1>1, <1>4, CoreParts, RamStays
<1>7. SameStatus
  BY <1>5, <1>6 DEF SameStatus
<1>8. /\ (map \in Map)' /\ FixedAreas' /\ OtherAreas' /\ PositionsDistinct' /\ Totals'
      /\ ActiveOK' /\ OpOK'
  BY <1>1, <1>2, <1>3, MapSame
<1>9. buffer' = buffer /\ stored' = stored
  BY <1>1 DEF buffer, stored
<1>10. Recovered'
  BY <1>1, CoreParts, RecoveredStays
<1>11. InFlash' /\ IsProg(log')
  BY <1>1, CoreParts DEF InFlash, IsProg
<1>12. FilesOK'
  BY <1>1, <1>2, CoreParts DEF FilesOK, Deleting, Doing1
<1>13. DataPages' /\ EmptyPages' /\ LoggedPages' /\ WrittenPages'
  BY <1>1, <1>2, <1>5, <1>6, CoreParts DEF DataPages, EmptyPages, LoggedPages, WrittenPages,
     FreeOK, UsedOK, ErasedArea, Lost, Deleting, Doing1
<1>14. DeletedPages' /\ BufferPages'
  BY <1>1, <1>2, <1>5, <1>9, CoreParts DEF DeletedPages, BufferPages,
     ErasedArea, Deleting, Doing1
<1>15. MoveOK'
  BY <1>1, <1>3, CoreParts, MoveStays
<1>16. TxOK'
  BY <1>1, <1>2, CoreParts DEF TxOK, Unreferenced
<1>17. SumOK'
  BY <1>1, <1>2, <1>6, <1>7, CoreParts, SumStays DEF SumOK, Deleting, Doing1
<1>18. Core'
  BY <1>5, <1>8, <1>10, <1>11, <1>12, <1>13, <1>14, <1>15, <1>16, <1>17, CoreWhole DEF PagesOK
<1>19. QED
  BY <1>1, <1>2, <1>3, <1>7, <1>9, <1>18 DEF SameState

(* Entries that are noted only: the parts that stay as long as no operation is
   in progress. *)
LEMMA NoteParts ==
    ASSUME NEW e, NoteEntry(e), Core, NoOp, e.op \in NoteOp, ~IsCheckpoint(e, "areaMgmt")
    PROVE  /\ NoteEffect /\ lastOp' = lastOp /\ ext' = ext /\ NoOp' /\ buffer' = buffer
           /\ stored' = stored
           /\ InFlash' /\ IsProg(log') /\ LogOK' /\ Recovered' /\ (map \in Map)' /\ FixedAreas'
           /\ OtherAreas' /\ PositionsDistinct' /\ Totals' /\ ActiveOK' /\ OpOK' /\ FilesOK'
           /\ EmptyPages' /\ LoggedPages' /\ WrittenPages' /\ DeletedPages' /\ SumOK'
<1>1. NoteEffect /\ Grows(e)
  BY NoteEntryViews DEF NoteEntry
<1>u. /\ SameStatus /\ IsProg(log') /\ LogOK' /\ Recovered' /\ InFlash' /\ SumTyped'
      /\ flash' = flash /\ asWritten' = asWritten /\ sum' = sum /\ addr' = addr /\ map' = map
  BY <1>1 DEF NoteEffect
<1>2. e.op \notin AreaMgmtOp \union ExternOp
  BY DEF NoteOp, AreaMgmtOp, ExternOp
<1>3. lastOp' = lastOp /\ ext' = ext /\ NoOp'
  BY <1>1, <1>2, OpView
<1>b. buffer' = buffer /\ stored' = stored
  BY <1>u DEF buffer, stored
<1>n. /\ lastOp.op = "invalidateOldPages" /\ \A a \in Area : ~Deleting(a)
      /\ \A a \in Area : ~Deleting(a)'
  <2>1. lastOp.op = "invalidateOldPages"
    BY IdleParts
  <2>2. QED
    BY <2>1, <1>3 DEF Deleting, Doing1
<1>4. (map \in Map)' /\ FixedAreas' /\ PositionsDistinct'
  BY <1>u, <1>b, CoreParts DEF FixedAreas, PositionsDistinct
<1>5. OtherAreas' /\ ActiveOK'
  BY <1>u, <1>b, <1>3, CoreParts DEF OtherAreas, AreaOK, ActiveOK, Doing1, Deleting
<1>6. Totals'
  BY <1>u, <1>3, CoreParts DEF Totals, Adjust
<1>7. OpOK'
  BY <1>3, <1>n, CoreParts DEF OpOK, InitOK, CloseOK, DeleteOK, ContentsOK
<1>8. FilesOK'
  BY <1>u, <1>n, CoreParts DEF FilesOK, Addr
<1>9. EmptyPages' /\ LoggedPages' /\ WrittenPages' /\ DeletedPages'
  BY <1>u, <1>n, CoreParts DEF EmptyPages, LoggedPages, WrittenPages, DeletedPages,
     SameStatus, ErasedArea
<1>10. SumOK'
  BY <1>u, <1>n, CoreParts, SumStays DEF SumOK
<1>11. QED
  BY <1>1, <1>u, <1>3, <1>b, <1>4, <1>5, <1>6, <1>7, <1>8, <1>9, <1>10

(* The checkpoint of garbage collection. *)
LEMMA GarbageCheckpoint ==
    ASSUME Core, NoOp, NoteEntry(Checkpoint("garbage")), mv # "swappedPosition",
           mv # "moveValidData", mv = "deletedOldArea" => FreeOK(target) /\ UsedOK(target)
    PROVE  /\ Core' /\ NoteEffect /\ NoOp' /\ SameTx /\ mv' = "ok" /\ buffer' = buffer
           /\ stored' = stored
<1> DEFINE e == Checkpoint("garbage")
<1>e. /\ e.op = "checkpoint" /\ e.op \in NoteOp /\ IsCheckpoint(e, "garbage")
      /\ ~IsCheckpoint(e, "areaMgmt") /\ ~IsCheckpoint(e, "dataIO")
  BY DEF Checkpoint, NoteOp, IsCheckpoint
<1> HIDE DEF e
<1>1. /\ NoteEffect /\ lastOp' = lastOp /\ ext' = ext /\ NoOp' /\ buffer' = buffer
      /\ stored' = stored
      /\ InFlash' /\ IsProg(log') /\ LogOK' /\ Recovered' /\ (map \in Map)' /\ FixedAreas'
      /\ OtherAreas' /\ PositionsDistinct' /\ Totals' /\ ActiveOK' /\ OpOK' /\ FilesOK'
      /\ EmptyPages' /\ LoggedPages' /\ WrittenPages' /\ DeletedPages' /\ SumOK'
  BY <1>e, NoteParts DEF e
<1>2. Grows(e)
  BY DEF NoteEntry, e
<1>3. mv' = "ok"
  BY <1>e, <1>2, MoveView
<1>4. SameTx
  BY <1>e, <1>2, TxView DEF SameTx
<1>u. /\ SameStatus
      /\ flash' = flash /\ asWritten' = asWritten /\ sum' = sum /\ addr' = addr /\ map' = map
  BY <1>1 DEF NoteEffect
<1>m. mv \in {"ok", "deletedOldArea", "setNewSummary"}
  BY DEF MoveProgress, mv
<1>5. DataPages'
  <2>1. \A a \in Area : map.type[a] = "data" => FreeOK(a) /\ UsedOK(a)
    BY IdleParts, CoreParts DEF DataPages, Lost
  <2>2. QED
    BY <2>1, <1>u DEF DataPages, FreeOK, UsedOK, SameStatus
<1>6. BufferPages'
  BY <1>1, <1>u, <1>m, CoreParts DEF BufferPages, ErasedArea
<1>7. MoveOK'
  BY <1>3 DEF MoveOK
<1>8. TxOK'
  <2>1. lastOp'.op = "invalidateOldPages"
    BY <1>1, IdleParts
  <2>2. QED
    BY <2>1, <1>u, <1>4, CoreParts, TxStays
<1>9. Core'
  BY <1>1, <1>5, <1>6, <1>7, <1>8, CoreWhole DEF PagesOK
<1>10. QED
  BY <1>1, <1>3, <1>4, <1>9

(* The checkpoint of DataIO. *)
LEMMA DataIOCheckpoint ==
    ASSUME Core, NoOp, NoteEntry(Checkpoint("dataIO"))
    PROVE  /\ Core' /\ NoteEffect /\ NoOp' /\ SameMove /\ ~replaced' /\ buffer' = buffer
           /\ stored' = stored
<1> DEFINE e == Checkpoint("dataIO")
<1>e. /\ e.op = "checkpoint" /\ e.op \in NoteOp /\ IsCheckpoint(e, "dataIO")
      /\ ~IsCheckpoint(e, "areaMgmt") /\ ~IsCheckpoint(e, "garbage")
      /\ e.op \notin MoveOp \union {"moveValidData"}
  BY DEF Checkpoint, NoteOp, IsCheckpoint, MoveOp
<1> HIDE DEF e
<1>1. /\ NoteEffect /\ lastOp' = lastOp /\ ext' = ext /\ NoOp' /\ buffer' = buffer
      /\ stored' = stored
      /\ InFlash' /\ IsProg(log') /\ LogOK' /\ Recovered' /\ (map \in Map)' /\ FixedAreas'
      /\ OtherAreas' /\ PositionsDistinct' /\ Totals' /\ ActiveOK' /\ OpOK' /\ FilesOK'
      /\ EmptyPages' /\ LoggedPages' /\ WrittenPages' /\ DeletedPages' /\ SumOK'
  BY <1>e, NoteParts DEF e
<1>2. Grows(e)
  BY DEF NoteEntry, e
<1>3. SameMove
  BY <1>e, <1>2, MoveView DEF SameMove
<1>4. ~replaced'
  BY <1>e, <1>2, TxView
<1>u. /\ SameStatus
      /\ flash' = flash /\ asWritten' = asWritten /\ sum' = sum /\ addr' = addr /\ map' = map
  BY <1>1 DEF NoteEffect
<1>5. DataPages'
  BY <1>1, <1>u, <1>3, CoreParts DEF DataPages, FreeOK, UsedOK, SameStatus, Lost, Deleting, Doing1,
        SameMove
<1>6. BufferPages'
  BY <1>1, <1>u, <1>3, CoreParts DEF BufferPages, ErasedArea, SameMove
<1>7. MoveOK'
  BY <1>3, <1>4, <1>u, CoreParts DEF MoveOK, SameMove
<1>8. TxOK'
  BY <1>4 DEF TxOK
<1>9. Core'
  BY <1>1, <1>5, <1>6, <1>7, <1>8, CoreWhole DEF PagesOK
<1>10. QED
  BY <1>1, <1>3, <1>4, <1>9

(* Old pages are invalidated. *)
LEMMA InvalidateStep ==
    ASSUME Core, NoOp, NoteEntry(InvalidateOldPages)
    PROVE  /\ Core' /\ NoteEffect /\ NoOp' /\ SameMove /\ buffer' = buffer /\ stored' = stored
           /\ (replaced' <=> replaced) /\ (replaced => invalidated' /\ (updated' <=> updated))
<1> DEFINE e == InvalidateOldPages
<1>e. /\ e.op = "invalidateOldPages" /\ e.op \in NoteOp
      /\ \A t : ~IsCheckpoint(e, t)
      /\ e.op \notin MoveOp \union {"moveValidData"}
  BY DEF InvalidateOldPages, NoteOp, IsCheckpoint, MoveOp
<1> HIDE DEF e
<1>1. /\ NoteEffect /\ lastOp' = lastOp /\ ext' = ext /\ NoOp' /\ buffer' = buffer
      /\ stored' = stored
      /\ InFlash' /\ IsProg(log') /\ LogOK' /\ Recovered' /\ (map \in Map)' /\ FixedAreas'
      /\ OtherAreas' /\ PositionsDistinct' /\ Totals' /\ ActiveOK' /\ OpOK' /\ FilesOK'
      /\ EmptyPages' /\ LoggedPages' /\ WrittenPages' /\ DeletedPages' /\ SumOK'
  BY <1>e, NoteParts DEF e
<1>2. Grows(e)
  BY DEF NoteEntry, e
<1>3. SameMove
  BY <1>e, <1>2, MoveView DEF SameMove
<1>4. /\ (replaced' <=> replaced)
      /\ replaced => invalidated' /\ (updated' <=> updated) /\ neuPage' = neuPage /\ oldPage' = oldPage
  BY <1>e, <1>2, TxView
<1>u. /\ SameStatus
      /\ flash' = flash /\ asWritten' = asWritten /\ sum' = sum /\ addr' = addr /\ map' = map
  BY <1>1 DEF NoteEffect
<1>5. DataPages'
  BY <1>1, <1>u, <1>3, CoreParts DEF DataPages, FreeOK, UsedOK, SameStatus, Lost, Deleting, Doing1,
        SameMove
<1>6. BufferPages'
  BY <1>1, <1>u, <1>3, CoreParts DEF BufferPages, ErasedArea, SameMove
<1>7. MoveOK'
  BY <1>3, <1>4, <1>u, CoreParts DEF MoveOK, SameMove
<1>8. TxOK'
  BY <1>1, <1>4, <1>u, CoreParts DEF TxOK, Unreferenced
<1>9. Core'
  BY <1>1, <1>5, <1>6, <1>7, <1>8, CoreWhole DEF PagesOK
<1>10. QED
  BY <1>1, <1>3, <1>4, <1>9

(* A page is to be replaced. *)
LEMMA ReplaceStep ==
    ASSUME Core, NEW neu, NEW old, NoteEntry(ReplacePage(neu, old)), Quiet, Unreferenced(neu)
    PROVE  /\ Core' /\ NoteEffect /\ NoOp' /\ SameMove /\ buffer' = buffer /\ stored' = stored
           /\ replaced' /\ ~updated' /\ ~invalidated' /\ neuPage' = neu /\ oldPage' = old
<1> DEFINE e == ReplacePage(neu, old)
<1>e. /\ e.op = "replacePage" /\ e.op \in NoteOp /\ e.neu = neu /\ e.old = old
      /\ \A t : ~IsCheckpoint(e, t)
      /\ e.op \notin MoveOp \union {"moveValidData"}
  BY DEF ReplacePage, NoteOp, IsCheckpoint, MoveOp
<1>q. NoOp /\ mv = "ok"
  BY DEF Quiet
<1> HIDE DEF e
<1>1. /\ NoteEffect /\ lastOp' = lastOp /\ ext' = ext /\ NoOp' /\ buffer' = buffer
      /\ stored' = stored
      /\ InFlash' /\ IsProg(log') /\ LogOK' /\ Recovered' /\ (map \in Map)' /\ FixedAreas'
      /\ OtherAreas' /\ PositionsDistinct' /\ Totals' /\ ActiveOK' /\ OpOK' /\ FilesOK'
      /\ EmptyPages' /\ LoggedPages' /\ WrittenPages' /\ DeletedPages' /\ SumOK'
  BY <1>e, <1>q, NoteParts DEF e
<1>2. Grows(e)
  BY DEF NoteEntry, e
<1>3. SameMove
  BY <1>e, <1>2, MoveView DEF SameMove
<1>4. replaced' /\ ~updated' /\ ~invalidated' /\ neuPage' = neu /\ oldPage' = old
  BY <1>e, <1>2, TxView
<1>u. /\ SameStatus
      /\ flash' = flash /\ asWritten' = asWritten /\ sum' = sum /\ addr' = addr /\ map' = map
  BY <1>1 DEF NoteEffect
<1>5. DataPages'
  BY <1>1, <1>u, <1>3, CoreParts DEF DataPages, FreeOK, UsedOK, SameStatus, Lost, Deleting, Doing1,
        SameMove
<1>6. BufferPages'
  <2>1. ErasedArea(buffer) /\ map.pos[buffer] \notin asWritten
    BY <1>q, CoreParts DEF BufferPages
  <2>2. QED
    BY <2>1, <1>1, <1>u DEF BufferPages, ErasedArea
<1>7. MoveOK'
  BY <1>3, <1>q DEF MoveOK, SameMove
<1>8. TxOK'
  BY <1>1, <1>4, <1>u, <1>q, IdleParts DEF TxOK, Unreferenced
<1>9. Core'
  BY <1>1, <1>5, <1>6, <1>7, <1>8, CoreWhole DEF PagesOK
<1>10. QED
  BY <1>1, <1>3, <1>4, <1>9

(* An area starts to move. *)
LEMMA MoveStart ==
    ASSUME Core, NEW a \in Area \ {0}, NEW s, NoteEntry(MoveValidData(a)), Quiet, MoveReady(a, s)
    PROVE  /\ Core' /\ NoteEffect /\ NoOp' /\ SameTx /\ buffer' = buffer /\ stored' = stored
           /\ mv' = "moveValidData" /\ target' = a
<1> DEFINE e == MoveValidData(a)
<1>e. /\ e.op = "moveValidData" /\ e.op \in NoteOp /\ e.area = a
      /\ \A t : ~IsCheckpoint(e, t)
  BY DEF MoveValidData, NoteOp, IsCheckpoint
<1>q. NoOp /\ mv = "ok" /\ ~replaced
  BY DEF Quiet
<1>r. /\ map.type[a] = "data" /\ map.status[a] = "closed" /\ map.active["data"] = 0
      /\ map.pos[a] \notin asWritten
  BY DEF MoveReady, NoActive
<1> HIDE DEF e
<1>1. /\ NoteEffect /\ lastOp' = lastOp /\ ext' = ext /\ NoOp' /\ buffer' = buffer
      /\ stored' = stored
      /\ InFlash' /\ IsProg(log') /\ LogOK' /\ Recovered' /\ (map \in Map)' /\ FixedAreas'
      /\ OtherAreas' /\ PositionsDistinct' /\ Totals' /\ ActiveOK' /\ OpOK' /\ FilesOK'
      /\ EmptyPages' /\ LoggedPages' /\ WrittenPages' /\ DeletedPages' /\ SumOK'
  BY <1>e, <1>q, NoteParts DEF e
<1>2. Grows(e)
  BY DEF NoteEntry, e
<1>3. mv' = "moveValidData" /\ target' = a
  BY <1>e, <1>2, MoveView
<1>4. SameTx
  BY <1>e, <1>2, TxView DEF SameTx
<1>u. /\ SameStatus
      /\ flash' = flash /\ asWritten' = asWritten /\ sum' = sum /\ addr' = addr /\ map' = map
  BY <1>1 DEF NoteEffect
<1>5. DataPages'
  BY <1>1, <1>q, <1>u, <1>3, CoreParts DEF DataPages, FreeOK, UsedOK, SameStatus, Lost, Deleting, Doing1
<1>6. BufferPages'
  BY <1>1, <1>u, <1>3, CoreParts DEF BufferPages
<1>7. MoveOK'
  BY <1>3, <1>4, <1>q, <1>r, <1>u DEF MoveOK, SameTx
<1>8. TxOK'
  BY <1>4, <1>q DEF TxOK, SameTx
<1>9. Core'
  BY <1>1, <1>5, <1>6, <1>7, <1>8, CoreWhole DEF PagesOK
<1>10. QED
  BY <1>1, <1>3, <1>4, <1>9
-----------------------------------------------------------------------------
(* Steps that change the flash only.                                       *)

FlashStep ==
    /\ UNCHANGED <<bad, index, log, map, sum, addr, phase, found, ops>>
    /\ flash' \in [Pos -> [Page -> Erased .. MaxOps]] /\ asWritten' \subseteq Pos

(* A step that changes the flash and the program only keeps every view but
   the page contents. *)
LEMMA FlashViews ==
    ASSUME Core, FlashStep, NoOp
    PROVE  /\ SameMove /\ SameTx /\ SameRest /\ buffer' = buffer
           /\ lastOp' = lastOp /\ ext' = ext /\ NoOp' /\ TxState' = TxState
           /\ \A a \in Area : ~Deleting(a) /\ ~Deleting(a)'
           /\ InFlash' /\ IsProg(log') /\ LogOK' /\ Recovered' /\ (map \in Map)' /\ FixedAreas'
           /\ OtherAreas' /\ PositionsDistinct' /\ Totals' /\ ActiveOK' /\ OpOK'
           /\ SumTyped' /\ inLog' = inLog /\ cached' = cached
           /\ \A a \in Area : Base(a)' = Base(a) => logged'[a] = logged[a] /\ ram'[a] = ram[a]
           /\ (asWritten' = asWritten => SameStatus)
           /\ logged' \in [Area -> [Page -> SummaryEntry]]
           /\ ram' \in [Area -> [Page -> SummaryEntry]]
<1>1. UNCHANGED <<bad, index, log, map, sum, addr, phase, found, ops>>
  BY DEF FlashStep
<1>2. /\ lastOp' = lastOp /\ ext' = ext /\ (NoOp' <=> NoOp)
      /\ mv' = mv /\ target' = target
      /\ (replaced' <=> replaced) /\ (updated' <=> updated) /\ (invalidated' <=> invalidated)
      /\ neuPage' = neuPage /\ oldPage' = oldPage
      /\ TxState' = TxState
  BY <1>1, ViewStays
<1>3. SameMove /\ SameTx /\ SameRest
  BY <1>1, <1>2 DEF SameMove, SameTx, SameRest
<1>4. \A a \in Area : ~Deleting(a) /\ ~Deleting(a)'
  BY <1>2, IdleParts DEF Deleting, Doing1
<1>5. /\ LogOK' /\ inLog' = inLog /\ logged' \in [Area -> [Page -> SummaryEntry]]
      /\ \A a \in Area : Base(a)' = Base(a) => logged'[a] = logged[a]
      /\ (\A a \in Area : Base(a)' = Base(a)) => logged' = logged
  BY <1>1, CoreParts, LoggedStays
<1>6. /\ SumTyped' /\ cached' = cached /\ ram' \in [Area -> [Page -> SummaryEntry]]
      /\ \A a \in Area : Base(a)' = Base(a) => ram'[a] = ram[a]
  BY <1>1, CoreParts, RamStaysAt
<1>7. asWritten' = asWritten => SameStatus
  <2>1. ASSUME asWritten' = asWritten
        PROVE  SameStatus
    <3>1. \A a \in Area : Base(a)' = Base(a)
      BY <2>1, <1>1 DEF Base
    <3>2. ram' = ram
      BY <3>1, <1>1, CoreParts, RamStays
    <3>3. QED
      BY <3>1, <3>2, <1>5, <1>6 DEF SameStatus
  <2>2. QED
    BY <2>1
<1>8. /\ (map \in Map)' /\ FixedAreas' /\ OtherAreas' /\ PositionsDistinct' /\ Totals'
      /\ ActiveOK' /\ OpOK'
  BY <1>1, <1>2, <1>3, MapSame
<1>9. InFlash' /\ IsProg(log') /\ Recovered'
  BY <1>1, CoreParts, RecoveredStays DEF InFlash, IsProg, FlashStep
<1>10. buffer' = buffer
  BY <1>1 DEF buffer
<1>11. QED
  BY <1>1, <1>2, <1>3, <1>4, <1>5, <1>6, <1>7, <1>8, <1>9, <1>10

(* Different areas lie on different positions. *)
LEMMA Elsewhere ==
    ASSUME Core, NEW a \in Area, NEW b \in Area, a # b
    PROVE  map.pos[a] # map.pos[b] /\ map.pos[a] \in Pos /\ map.pos[b] \in Pos
BY CoreParts DEF PositionsDistinct

(* A page is copied into the garbage buffer. *)
LEMMA CopyStep ==
    ASSUME Core, FlashStep, NoOp, mv = "moveValidData", asWritten' = asWritten,
           \A p \in Pos : p # map.pos[buffer] => flash'[p] = flash[p]
    PROVE  Core' /\ SameStatus /\ SameMove /\ SameTx /\ NoOp' /\ SameRest /\ stored' = stored
           /\ buffer' = buffer
<1>1. /\ SameMove /\ SameTx /\ SameRest /\ buffer' = buffer /\ lastOp' = lastOp /\ ext' = ext
      /\ NoOp' /\ \A a \in Area : ~Deleting(a) /\ ~Deleting(a)'
      /\ InFlash' /\ IsProg(log') /\ LogOK' /\ Recovered' /\ (map \in Map)' /\ FixedAreas'
      /\ OtherAreas' /\ PositionsDistinct' /\ Totals' /\ ActiveOK' /\ OpOK'
      /\ SumTyped' /\ SameStatus
  BY FlashViews
<1>2. map' = map /\ addr' = addr /\ sum' = sum
  BY DEF FlashStep
<1>3. \A a \in Area : a # buffer => flash'[map.pos[a]] = flash[map.pos[a]]
  BY CoreParts, Elsewhere
<1>4. \A a \in Area : map.type[a] \in {"data", "unset"} => a # buffer
  BY CoreParts DEF FixedAreas
<1>5. \A f \in FilePage : addr[f] # NoAddr =>
        /\ addr[f][1] \in Area /\ addr[f][1] # buffer
        /\ flash'[map.pos[addr[f][1]]] = flash[map.pos[addr[f][1]]]
  BY <1>3, <1>4, CoreParts DEF FilesOK, Addr
<1>6. FilesOK'
  BY <1>1, <1>2, <1>5, CoreParts DEF FilesOK, Addr
<1>7. stored' = stored
  BY <1>2, <1>5 DEF stored
<1>8. DataPages'
  <2>1. \A a \in Area : map.type[a] = "data" => (FreeOK(a)' <=> FreeOK(a)) /\ (UsedOK(a)' <=> UsedOK(a))
    BY <1>1, <1>2, <1>3, <1>4, PagesStay DEF SameStatus
  <2>2. QED
    BY <2>1, <1>1, <1>2, CoreParts DEF DataPages, Lost, SameMove
<1>9. EmptyPages' /\ LoggedPages'
  <2>1. LoggedPages'
    BY <1>1, <1>2, CoreParts DEF LoggedPages, SameStatus
  <2>2. ASSUME NEW a \in Area, map.type[a] = "unset"
        PROVE  ErasedArea(a)' /\ (a \notin inLog)'
    <3>1. ErasedArea(a) /\ a \notin inLog
      BY <2>2, CoreParts DEF EmptyPages
    <3>2. flash'[map'.pos[a]] = flash[map.pos[a]]
      BY <2>2, <1>2, <1>3, <1>4
    <3>3. QED
      BY <3>1, <3>2, <1>1 DEF ErasedArea, SameStatus
  <2>3. QED
    BY <2>1, <2>2, <1>2 DEF EmptyPages
<1>10. WrittenPages' /\ DeletedPages' /\ BufferPages'
  BY <1>1, <1>2, CoreParts DEF WrittenPages, DeletedPages, BufferPages, SameStatus, SameMove
<1>11. MoveOK'
  BY <1>1, <1>2, CoreParts, MoveStays
<1>12. TxOK'
  BY <1>1, <1>2, CoreParts DEF TxOK, SameTx, Unreferenced
<1>13. SumOK'
  BY <1>1, <1>2, CoreParts, SumStays DEF SumOK
<1>14. QED
  BY <1>1, <1>6, <1>7, <1>8, <1>9, <1>10, <1>11, <1>12, <1>13, CoreWhole DEF PagesOK

(* A page that counts as used, but no file has it yet, is written. *)
LEMMA WriteStep ==
    ASSUME Core, FlashStep, NoOp, mv = "ok", asWritten' = asWritten, NEW neu \in Addr,
           map.type[neu[1]] = "data", logged[neu[1]][neu[2]] = "used", Unreferenced(neu),
           \A p \in Pos : p # map.pos[neu[1]] => flash'[p] = flash[p],
           \A q \in Page : q # neu[2] => flash'[map.pos[neu[1]]][q] = flash[map.pos[neu[1]]][q]
    PROVE  Core' /\ SameStatus /\ SameMove /\ SameTx /\ NoOp' /\ SameRest /\ stored' = stored
           /\ buffer' = buffer
<1> DEFINE n == neu[1]
           m == neu[2]
<1>0. n \in Area \ {0} /\ m \in Page /\ neu = <<n, m>> /\ neu # NoAddr
  BY DEF Addr, NoAddr
<1>1. /\ SameMove /\ SameTx /\ SameRest /\ buffer' = buffer /\ lastOp' = lastOp /\ ext' = ext
      /\ NoOp' /\ \A a \in Area : ~Deleting(a) /\ ~Deleting(a)'
      /\ InFlash' /\ IsProg(log') /\ LogOK' /\ Recovered' /\ (map \in Map)' /\ FixedAreas'
      /\ OtherAreas' /\ PositionsDistinct' /\ Totals' /\ ActiveOK' /\ OpOK'
      /\ SumTyped' /\ SameStatus
  BY FlashViews
<1>2. map' = map /\ addr' = addr /\ sum' = sum
  BY DEF FlashStep
<1>3. \A a \in Area : a # n => flash'[map.pos[a]] = flash[map.pos[a]]
  BY <1>0, CoreParts, Elsewhere
<1>4. buffer # n
  BY CoreParts DEF FixedAreas
<1>5. \A f \in FilePage : addr[f] # NoAddr =>
        /\ addr[f][1] \in Area /\ addr[f][2] \in Page
        /\ flash'[map.pos[addr[f][1]]][addr[f][2]] = flash[map.pos[addr[f][1]]][addr[f][2]]
  <2>1. ASSUME NEW f \in FilePage, addr[f] # NoAddr
        PROVE  /\ addr[f][1] \in Area /\ addr[f][2] \in Page
               /\ flash'[map.pos[addr[f][1]]][addr[f][2]] = flash[map.pos[addr[f][1]]][addr[f][2]]
    <3>1. addr[f] \in Addr
      BY <2>1, CoreParts DEF FilesOK
    <3>2. addr[f] # neu
      BY <1>0 DEF Unreferenced
    <3>3. addr[f] = <<addr[f][1], addr[f][2]>> /\ addr[f][1] \in Area /\ addr[f][2] \in Page
      BY <3>1 DEF Addr
    <3>4. addr[f][1] # n \/ addr[f][2] # m
      BY <3>2, <3>3, <1>0
    <3>5. QED
      BY <3>3, <3>4, <1>3
  <2>2. QED
    BY <2>1
<1>6. FilesOK'
  BY <1>1, <1>2, <1>5, CoreParts DEF FilesOK
<1>7. stored' = stored
  BY <1>2, <1>5 DEF stored
<1>8. DataPages'
  <2>1. \A a \in Area : a # n => (FreeOK(a)' <=> FreeOK(a)) /\ (UsedOK(a)' <=> UsedOK(a))
    BY <1>1, <1>2, <1>3, PagesStay DEF SameStatus
  <2>2. FreeOK(n) => FreeOK(n)'
    BY <1>1, <1>2 DEF FreeOK, SameStatus
  <2>3. UsedOK(n) => UsedOK(n)'
    BY <1>1, <1>2 DEF UsedOK, SameStatus
  <2>4. QED
    BY <2>1, <2>2, <2>3, <1>0, <1>1, <1>2, CoreParts DEF DataPages, Lost, SameMove
<1>9. EmptyPages' /\ LoggedPages'
  <2>1. LoggedPages'
    BY <1>1, <1>2, CoreParts DEF LoggedPages, SameStatus
  <2>2. ASSUME NEW a \in Area, map.type[a] = "unset"
        PROVE  ErasedArea(a)' /\ (a \notin inLog)'
    <3>1. a # n
      BY <2>2
    <3>2. QED
      <4>1. ErasedArea(a) /\ a \notin inLog
        BY <2>2, CoreParts DEF EmptyPages
      <4>2. flash'[map'.pos[a]] = flash[map.pos[a]]
        BY <2>2, <3>1, <1>2, <1>3
      <4>3. QED
        BY <4>1, <4>2, <1>1 DEF ErasedArea, SameStatus
  <2>3. QED
    BY <2>1, <2>2, <1>2 DEF EmptyPages
<1>10. WrittenPages' /\ DeletedPages'
  BY <1>1, <1>2, CoreParts DEF WrittenPages, DeletedPages, SameStatus
<1>b. BufferPages'
  BY <1>1, <1>2, <1>3, <1>4, CoreParts DEF BufferPages, SameMove, ErasedArea
<1>11. MoveOK'
  BY <1>1, <1>2, CoreParts, MoveStays
<1>12. TxOK'
  BY <1>1, <1>2, CoreParts DEF TxOK, SameTx, Unreferenced
<1>13. SumOK'
  BY <1>1, <1>2, CoreParts, SumStays DEF SumOK
<1>14. QED
  BY <1>1, <1>6, <1>7, <1>8, <1>9, <1>10, <1>b, <1>11, <1>12, <1>13, CoreWhole DEF PagesOK

(* The summary page of an area with dirty pages only is written. *)
LEMMA SummaryPageStep ==
    ASSUME Core, FlashStep, NoOp, mv = "ok", flash' = flash, NEW a \in Area, map.type[a] = "data",
           \A p \in Page : logged[a][p] = "dirty", asWritten' = asWritten \union {map.pos[a]}
    PROVE  Core' /\ SameStatus /\ SameMove /\ SameTx /\ NoOp' /\ SameRest /\ stored' = stored
           /\ buffer' = buffer
<1>1. /\ SameMove /\ SameTx /\ SameRest /\ buffer' = buffer /\ lastOp' = lastOp /\ ext' = ext
      /\ NoOp' /\ \A b \in Area : ~Deleting(b) /\ ~Deleting(b)'
      /\ InFlash' /\ IsProg(log') /\ LogOK' /\ Recovered' /\ (map \in Map)' /\ FixedAreas'
      /\ OtherAreas' /\ PositionsDistinct' /\ Totals' /\ ActiveOK' /\ OpOK'
      /\ SumTyped' /\ inLog' = inLog /\ cached' = cached
      /\ \A b \in Area : Base(b)' = Base(b) => logged'[b] = logged[b] /\ ram'[b] = ram[b]
      /\ logged' \in [Area -> [Page -> SummaryEntry]]
      /\ ram' \in [Area -> [Page -> SummaryEntry]]
  BY FlashViews
<1>2. map' = map /\ addr' = addr /\ sum' = sum /\ log' = log /\ index' = index
  BY DEF FlashStep
<1>3. \A b \in Area : b # a => Base(b)' = Base(b)
  <2>1. \A b \in Area : b # a => map.pos[b] # map.pos[a]
    BY Elsewhere
  <2>2. QED
    BY <2>1, <1>2 DEF Base
<1>4. Base(a)' = "dirty"
  BY <1>2 DEF Base
<1>l. logged'[a] = logged[a]
  <2>1. \A p \in Page : logged'[a][p] = logged[a][p]
    BY <1>2, <1>4, CoreParts, LoggedStays
  <2>2. QED
    BY <2>1, <1>1, CoreParts
<1>r. ram'[a] = ram[a]
  <2>1. ram[a] = logged[a]
    BY <1>1, CoreParts DEF SumOK
  <2>2. CASE a \in cached
    <3>1. ram[a] = sum[a]
      BY <2>2, CoreParts, RamType DEF RamIs
    <3>2. (SumTyped => RamIs)'
      BY RamType, PTL
    <3>3. ram'[a] = sum'[a]
      BY <3>2, <2>2, <1>1 DEF RamIs
    <3>4. QED
      BY <3>1, <3>3, <1>2
  <2>3. CASE a \notin cached
    <3>1. ram[a] = [p \in Page |-> Base(a)]
      BY <2>3, CoreParts, RamType DEF RamIs
    <3>2. 0 \in Page
      BY Constants
    <3>3. Base(a) = "dirty"
      BY <3>1, <3>2, <2>1
    <3>4. QED
      BY <3>3, <1>1, <1>4
  <2>4. QED
    BY <2>2, <2>3
<1>s. SameStatus
  BY <1>1, <1>3, <1>l, <1>r, CoreParts DEF SameStatus
<1>6. FilesOK'
  BY <1>1, <1>2, CoreParts DEF FilesOK, Addr
<1>7. stored' = stored
  BY <1>2 DEF stored
<1>8. DataPages' /\ EmptyPages' /\ LoggedPages'
  BY <1>1, <1>2, <1>s, CoreParts DEF DataPages, EmptyPages, LoggedPages, FreeOK, UsedOK, ErasedArea,
     SameStatus, Lost, SameMove
<1>9. WrittenPages'
  <2>1. \A b \in Area : map.pos[b] = map.pos[a] => b = a
    BY Elsewhere
  <2>2. QED
    BY <2>1, <1>1, <1>2, <1>s, CoreParts DEF WrittenPages, SameStatus
<1>10. DeletedPages'
  BY <1>1 DEF DeletedPages
<1>11. BufferPages'
  <2>1. buffer # a /\ buffer \in Area
    BY CoreParts DEF FixedAreas
  <2>2. map.pos[buffer] # map.pos[a]
    BY <2>1, Elsewhere
  <2>3. QED
    BY <2>2, <1>1, <1>2, CoreParts DEF BufferPages, ErasedArea, SameMove
<1>12. MoveOK'
  BY <1>1 DEF MoveOK, SameMove
<1>13. TxOK'
  BY <1>1, <1>2, CoreParts DEF TxOK, SameTx, Unreferenced
<1>14. SumOK'
  BY <1>1, <1>2, <1>s, CoreParts, SumStays DEF SumOK
<1>15. QED
  BY <1>1, <1>s, <1>6, <1>7, <1>8, <1>9, <1>10, <1>11, <1>12, <1>13, <1>14, CoreWhole DEF PagesOK
-----------------------------------------------------------------------------
(* Page states that are logged, and the cache, between operations.         *)

(* A page-state entry outside an operation keeps every part of Core that is
   not about page states. *)
LEMMA SumParts ==
    ASSUME Core, NoOp, NEW e, SumEntry(e), EntryOK(e), e.op \in {"setStatus", "setStatusBlock", "commit"}
    PROVE  /\ SameTx /\ SameRest /\ lastOp' = lastOp /\ ext' = ext /\ NoOp' /\ buffer' = buffer
           /\ stored' = stored /\ flash' = flash /\ asWritten' = asWritten /\ map' = map
           /\ addr' = addr /\ index' = index
           /\ \A a \in Area : Base(a)' = Base(a)
           /\ \A a \in Area : ~Deleting(a) /\ ~Deleting(a)'
           /\ InFlash' /\ IsProg(log') /\ LogOK' /\ Recovered' /\ (map \in Map)' /\ FixedAreas'
           /\ OtherAreas' /\ PositionsDistinct' /\ Totals' /\ ActiveOK' /\ OpOK' /\ FilesOK'
           /\ DeletedPages' /\ TxOK'
           /\ e.op # "setStatusBlock" => SameMove
<1>1. /\ SumEntryEffect /\ SameTx /\ lastOp' = lastOp /\ ext' = ext /\ LogOK'
      /\ e.op # "setStatusBlock" => SameMove
  BY SumEntryViews
<1>u. /\ SameRest /\ IsProg(log') /\ Recovered' /\ InFlash'
      /\ flash' = flash /\ asWritten' = asWritten /\ map' = map /\ addr' = addr /\ index' = index
      /\ \A a \in Area : Base(a)' = Base(a)
  BY <1>1 DEF SumEntryEffect
<1>b. buffer' = buffer /\ stored' = stored
  BY <1>u DEF buffer, stored
<1>n. /\ lastOp.op = "invalidateOldPages" /\ NoOp' /\ \A a \in Area : ~Deleting(a)
      /\ \A a \in Area : ~Deleting(a)'
  <2>1. lastOp.op = "invalidateOldPages"
    BY IdleParts
  <2>2. QED
    BY <2>1, <1>1 DEF Deleting, Doing1, NoOp
<1>4. (map \in Map)' /\ FixedAreas' /\ PositionsDistinct'
  BY <1>u, <1>b, CoreParts DEF FixedAreas, PositionsDistinct
<1>5. OtherAreas' /\ ActiveOK'
  BY <1>u, <1>b, <1>1, CoreParts DEF OtherAreas, AreaOK, ActiveOK, Doing1, Deleting
<1>6. Totals'
  BY <1>u, <1>1, CoreParts DEF Totals, Adjust
<1>7. OpOK'
  BY <1>1, <1>n, CoreParts DEF OpOK, InitOK, CloseOK, DeleteOK, ContentsOK
<1>8. FilesOK'
  BY <1>u, <1>n, CoreParts DEF FilesOK, Addr
<1>9. DeletedPages'
  BY <1>n DEF DeletedPages
<1>10. TxOK'
  BY <1>1, <1>n, <1>u, CoreParts, TxStays
<1>11. QED
  BY <1>1, <1>u, <1>b, <1>n, <1>4, <1>5, <1>6, <1>7, <1>8, <1>9, <1>10

(* A page state is logged: a free page is used, or one no file has is dirty. *)
LEMMA StatusStep ==
    ASSUME Core, NoOp, mv = "ok", NEW ad \in Addr, NEW st \in {"used", "dirty"},
           SumEntry(SetStatus(ad, st)), map.type[ad[1]] = "data",
           st = "used" => logged[ad[1]][ad[2]] = "free",
           st = "dirty" => Unreferenced(ad)
    PROVE  /\ Core' /\ SameMove /\ SameTx /\ NoOp' /\ SameRest /\ stored' = stored
           /\ buffer' = buffer /\ map' = map /\ addr' = addr /\ flash' = flash
           /\ asWritten' = asWritten
           /\ logged' = [logged EXCEPT ![ad[1]] = [logged[ad[1]] EXCEPT ![ad[2]] = st]]
<1> DEFINE e == SetStatus(ad, st)
           a == ad[1]
           p == ad[2]
           new == [logged[a] EXCEPT ![p] = st]
<1>a. a \in Area /\ a # 0 /\ p \in Page /\ ad = <<a, p>> /\ ad # NoAddr
  BY DEF Addr, NoAddr
<1>e. /\ e.op = "setStatus" /\ e.area = a /\ e.page = p /\ e.entry = st
      /\ ~IsCheckpoint(e, "summaryCache")
  BY DEF SetStatus, IsCheckpoint
<1>f. SumEntry(e) /\ EntryOK(e)
  BY <1>e, <1>a DEF EntryOK, SummaryEntry
<1>g. Grows(e) /\ sum' = SummaryApplied(map, sum, e)
  BY <1>f DEF SumEntry
<1> HIDE DEF e
<1>1. /\ SameTx /\ SameRest /\ lastOp' = lastOp /\ ext' = ext /\ NoOp' /\ buffer' = buffer
      /\ stored' = stored /\ flash' = flash /\ asWritten' = asWritten /\ map' = map
      /\ addr' = addr /\ index' = index
      /\ \A b \in Area : Base(b)' = Base(b)
      /\ \A b \in Area : ~Deleting(b) /\ ~Deleting(b)'
      /\ InFlash' /\ IsProg(log') /\ LogOK' /\ Recovered' /\ (map \in Map)' /\ FixedAreas'
      /\ OtherAreas' /\ PositionsDistinct' /\ Totals' /\ ActiveOK' /\ OpOK' /\ FilesOK'
      /\ DeletedPages' /\ TxOK' /\ SameMove
  BY <1>e, <1>f, SumParts
<1>l. logged' = [logged EXCEPT ![a] = new] /\ inLog' = inLog \union {a}
  <2>1. /\ logged' = [logged EXCEPT ![e.area] = [logged[e.area] EXCEPT ![e.page] = e.entry]]
        /\ inLog' = inLog \union {e.area}
    BY <1>1, <1>e, <1>f, <1>g, CoreParts, LoggedGrows
  <2>2. QED
    BY <2>1, <1>e
<1>t. new \in [Page -> SummaryEntry] /\ logged[a] \in [Page -> SummaryEntry] /\ new[p] = st
      /\ \A q \in Page : q # p => new[q] = logged[a][q]
  BY <1>a, CoreParts DEF SummaryEntry
<1>r. ram[a] = logged[a] /\ SummaryOf(map, sum, a) = ram[a]
  BY <1>a, <1>1, CoreParts DEF SumOK
<1>s. sum' = WithSummary(sum, a, new)
  <2>1. SummaryApplied(map, sum, e) = WithSummary(sum, a, [SummaryOf(map, sum, a) EXCEPT ![p] = st])
    BY <1>e DEF SummaryApplied
  <2>2. QED
    BY <2>1, <1>g, <1>r
<1> HIDE DEF new
<1>2. SumTyped' /\ ram' = [ram EXCEPT ![a] = new] /\ cached' = cached \union {a}
  BY <1>s, <1>t, <1>a, <1>1, CoreParts, RamWith
<1>3. \A b \in Area : b # a => logged'[b] = logged[b]
  BY <1>l, CoreParts
<1>4. logged'[a] = new
  BY <1>l, <1>a, CoreParts
<1>5. DataPages'
  <2>1. ASSUME NEW b \in Area, b # a
        PROVE  (FreeOK(b)' <=> FreeOK(b)) /\ (UsedOK(b)' <=> UsedOK(b))
    BY <2>1, <1>3, <1>1, PagesStay
  <2>2. FreeOK(a) /\ UsedOK(a)
    BY <1>a, <1>1, CoreParts DEF DataPages, Lost
  <2>3. FreeOK(a)'
    BY <2>2, <1>1, <1>4, <1>t DEF FreeOK
  <2>4. UsedOK(a)'
    <3>1. ASSUME NEW f \in FilePage, addr[f] # NoAddr, addr[f][1] = a
          PROVE  new[addr[f][2]] = "used"
      <4>1. addr[f] \in Addr /\ logged[a][addr[f][2]] = "used"
        BY <3>1, <2>2, CoreParts DEF FilesOK, UsedOK
      <4>2. addr[f] = <<a, addr[f][2]>> /\ addr[f][2] \in Page
        BY <4>1, <3>1 DEF Addr
      <4>3. st = "dirty" => addr[f][2] # p
        BY <4>2, <1>a DEF Unreferenced
      <4>4. QED
        BY <4>1, <4>2, <4>3, <1>t
    <3>2. QED
      BY <3>1, <1>1, <1>4 DEF UsedOK
  <2>5. QED
    BY <2>1, <2>3, <2>4, <1>1, CoreParts DEF DataPages, Lost, SameMove
<1>6. EmptyPages' /\ LoggedPages'
  BY <1>1, <1>l, CoreParts DEF EmptyPages, LoggedPages, ErasedArea
<1>7. WrittenPages'
  <2>1. ASSUME NEW b \in Area, map.pos[b] \in asWritten
        PROVE  map.type[b] = "data" /\ \A q \in Page : logged'[b][q] = "dirty"
    <3>1. map.type[b] = "data" /\ \A q \in Page : logged[b][q] = "dirty"
      BY <2>1, <1>1, CoreParts DEF WrittenPages
    <3>2. CASE b = a
      <4>1. logged[a][p] = "dirty"
        BY <3>1, <3>2, <1>a
      <4>2. st = "dirty"
        BY <4>1
      <4>3. QED
        BY <3>1, <3>2, <4>2, <1>4, <1>t
    <3>3. CASE b # a
      BY <3>1, <3>3, <1>3
    <3>4. QED
      BY <3>2, <3>3
  <2>2. QED
    BY <2>1, <1>1 DEF WrittenPages
<1>8. BufferPages'
  BY <1>1, CoreParts DEF BufferPages, SameMove, ErasedArea
<1>9. MoveOK'
  BY <1>1, CoreParts, MoveStays
<1>10. SumOK'
  <2>1. \A b \in Area : ram'[b] = logged'[b]
    BY <1>1, <1>2, <1>l, CoreParts DEF SumOK
  <2>2. \A b \in cached' : (b \in Area /\ map.type[b] = "data" /\ sum[b] \in [Page -> SummaryEntry])'
    BY <1>1, <1>2, <1>a, CoreParts DEF SumOK, SumTyped
  <2>3. \A b \in Area : (b \in inLog => b \in cached)'
    BY <1>2, <1>l, CoreParts DEF SumOK
  <2>4. QED
    BY <2>1, <2>2, <2>3, <1>1 DEF SumOK
<1>11. Core'
  BY <1>1, <1>5, <1>6, <1>7, <1>8, <1>9, <1>10, CoreWhole DEF PagesOK
<1>12. QED
  BY <1>1, <1>11, <1>l DEF new

(* The summary of a moved area is logged. *)
LEMMA BlockStep ==
    ASSUME Core, NoOp, mv = "deletedOldArea", NEW a, a = target, NEW s, CleanOK(a, s),
           SumEntry(SetStatusBlock(a, s))
    PROVE  /\ Core' /\ mv' = "setNewSummary" /\ target' = target /\ SameTx /\ NoOp' /\ SameRest
           /\ stored' = stored
           /\ buffer' = buffer /\ map' = map /\ addr' = addr /\ flash' = flash
           /\ asWritten' = asWritten
           /\ logged'[a] = s /\ map.status[a] = "closed" /\ NoActive /\ ~replaced
           /\ \A b \in Area : b # a => logged'[b] = logged[b]
<1> DEFINE e == SetStatusBlock(a, s)
<1>a. /\ a \in Area /\ a # 0 /\ map.type[a] = "data" /\ map.pos[a] \notin asWritten
      /\ map.status[a] = "closed" /\ map.active["data"] = 0 /\ ~replaced
  BY CoreParts DEF MoveOK
<1>t. s \in [Page -> SummaryEntry]
  BY DEF CleanOK, SummaryEntry
<1>e. /\ e.op = "setStatusBlock" /\ e.area = a /\ e.summary = s
      /\ ~IsCheckpoint(e, "summaryCache") /\ ~IsCheckpoint(e, "garbage")
  BY DEF SetStatusBlock, IsCheckpoint
<1>f. SumEntry(e) /\ EntryOK(e)
  BY <1>e, <1>a, <1>t DEF EntryOK
<1>g. Grows(e) /\ sum' = SummaryApplied(map, sum, e)
  BY <1>f DEF SumEntry
<1> HIDE DEF e
<1>1. /\ SameTx /\ SameRest /\ lastOp' = lastOp /\ ext' = ext /\ NoOp' /\ buffer' = buffer
      /\ stored' = stored /\ flash' = flash /\ asWritten' = asWritten /\ map' = map
      /\ addr' = addr /\ index' = index
      /\ \A b \in Area : Base(b)' = Base(b)
      /\ \A b \in Area : ~Deleting(b) /\ ~Deleting(b)'
      /\ InFlash' /\ IsProg(log') /\ LogOK' /\ Recovered' /\ (map \in Map)' /\ FixedAreas'
      /\ OtherAreas' /\ PositionsDistinct' /\ Totals' /\ ActiveOK' /\ OpOK' /\ FilesOK'
      /\ DeletedPages' /\ TxOK'
  BY <1>e, <1>f, SumParts
<1>v. mv' = "setNewSummary" /\ target' = target
  BY <1>e, <1>g, MoveView
<1>l. logged' = [logged EXCEPT ![a] = s] /\ inLog' = inLog \union {a}
  BY <1>1, <1>e, <1>f, <1>g, CoreParts, LoggedGrows
<1>s. sum' = WithSummary(sum, a, s)
  BY <1>e, <1>g DEF SummaryApplied
<1>2. SumTyped' /\ ram' = [ram EXCEPT ![a] = s] /\ cached' = cached \union {a}
  BY <1>s, <1>t, <1>a, <1>1, CoreParts, RamWith
<1>3. \A b \in Area : b # a => logged'[b] = logged[b]
  BY <1>l, CoreParts
<1>4. logged'[a] = s
  BY <1>l, <1>a, CoreParts
<1>5. DataPages'
  <2>1. ASSUME NEW b \in Area, b # a
        PROVE  (FreeOK(b)' <=> FreeOK(b)) /\ (UsedOK(b)' <=> UsedOK(b))
    BY <2>1, <1>3, <1>1, PagesStay
  <2>3. FreeOK(a)'
    BY <1>1, <1>4 DEF FreeOK, CleanOK
  <2>4. UsedOK(a)'
    BY <1>1, <1>4 DEF UsedOK, CleanOK
  <2>5. QED
    BY <2>1, <2>3, <2>4, <1>1, CoreParts DEF DataPages, Lost
<1>6. EmptyPages' /\ LoggedPages'
  BY <1>1, <1>a, <1>l, CoreParts DEF EmptyPages, LoggedPages, ErasedArea
<1>7. WrittenPages'
  <2>1. ASSUME NEW b \in Area, map.pos[b] \in asWritten
        PROVE  map.type[b] = "data" /\ \A q \in Page : logged'[b][q] = "dirty"
    <3>1. b # a
      BY <2>1, <1>a
    <3>2. map.type[b] = "data" /\ \A q \in Page : logged[b][q] = "dirty"
      BY <2>1, <1>1, CoreParts DEF WrittenPages
    <3>3. QED
      BY <3>1, <3>2, <1>3
  <2>2. QED
    BY <2>1, <1>1 DEF WrittenPages
<1>8. BufferPages'
  BY <1>1, CoreParts DEF BufferPages, ErasedArea
<1>9. MoveOK'
  BY <1>1, <1>a, <1>v DEF MoveOK, SameTx
<1>10. SumOK'
  <2>1. \A b \in Area : ram'[b] = logged'[b]
    BY <1>1, <1>2, <1>l, CoreParts DEF SumOK
  <2>2. \A b \in cached' : (b \in Area /\ map.type[b] = "data" /\ sum[b] \in [Page -> SummaryEntry])'
    BY <1>1, <1>2, <1>a, CoreParts DEF SumOK, SumTyped
  <2>3. \A b \in Area : (b \in inLog => b \in cached)'
    BY <1>2, <1>l, CoreParts DEF SumOK
  <2>4. QED
    BY <2>1, <2>2, <2>3, <1>1 DEF SumOK
<1>11. Core'
  BY <1>1, <1>5, <1>6, <1>7, <1>8, <1>9, <1>10, CoreWhole DEF PagesOK
<1>12. QED
  BY <1>1, <1>3, <1>4, <1>11, <1>v, <1>a DEF NoActive

(* The summary page is known: what the journal says of its area counts no
   more. *)
LEMMA CommitStep ==
    ASSUME Core, NoOp, mv = "ok", NEW a \in Area, map.type[a] = "data", map.pos[a] \in asWritten,
           \A p \in Page : logged[a][p] = "dirty", SumEntry(Commit(a))
    PROVE  /\ Core' /\ SameMove /\ SameTx /\ NoOp' /\ SameRest /\ stored' = stored
           /\ buffer' = buffer /\ map' = map /\ addr' = addr /\ flash' = flash
           /\ asWritten' = asWritten /\ logged' = logged
<1> DEFINE e == Commit(a)
<1>e. /\ e.op = "commit" /\ e.area = a /\ ~IsCheckpoint(e, "summaryCache") /\ e.op \in DropOp
  BY DEF Commit, IsCheckpoint, DropOp
<1>f. SumEntry(e) /\ EntryOK(e)
  BY <1>e DEF EntryOK
<1>g. Grows(e) /\ sum' = SummaryApplied(map, sum, e)
  BY <1>f DEF SumEntry
<1> HIDE DEF e
<1>1. /\ SameTx /\ SameRest /\ lastOp' = lastOp /\ ext' = ext /\ NoOp' /\ buffer' = buffer
      /\ stored' = stored /\ flash' = flash /\ asWritten' = asWritten /\ map' = map
      /\ addr' = addr /\ index' = index
      /\ \A b \in Area : Base(b)' = Base(b)
      /\ \A b \in Area : ~Deleting(b) /\ ~Deleting(b)'
      /\ InFlash' /\ IsProg(log') /\ LogOK' /\ Recovered' /\ (map \in Map)' /\ FixedAreas'
      /\ OtherAreas' /\ PositionsDistinct' /\ Totals' /\ ActiveOK' /\ OpOK' /\ FilesOK'
      /\ DeletedPages' /\ TxOK' /\ SameMove
  BY <1>e, <1>f, SumParts
<1>l. logged' = [logged EXCEPT ![a] = [p \in Page |-> Base(a)]] /\ inLog' = inLog \ {a}
  <2>1. /\ logged' = [logged EXCEPT ![e.area] = [p \in Page |-> Base(e.area)]]
        /\ inLog' = inLog \ {e.area}
    <3>1. EntryOK(e) /\ Grows(e) /\ LogOK /\ index' = index /\ e.op \in DropOp /\ e.area \in Area
          /\ ~IsCheckpoint(e, "summaryCache") /\ \A b \in Area : Base(b)' = Base(b)
      BY <1>1, <1>e, <1>f, <1>g, CoreParts
    <3>2. QED
      BY <3>1, LoggedGrows
  <2>2. QED
    BY <2>1, <1>e
<1>b. Base(a) = "dirty"
  BY DEF Base
<1>2. logged' = logged
  <2>1. logged[a] = [p \in Page |-> "dirty"]
    BY CoreParts
  <2>2. QED
    BY <2>1, <1>b, <1>l, CoreParts
<1>3. sum' = sum
  BY <1>e, <1>g DEF SummaryApplied
<1>4. SumTyped' /\ ram' = ram /\ cached' = cached
  BY <1>1, <1>3, CoreParts, RamStays
<1>5. DataPages'
  BY <1>1, <1>2, CoreParts DEF DataPages, FreeOK, UsedOK, Lost, SameMove
<1>6. EmptyPages' /\ LoggedPages'
  BY <1>1, <1>l, CoreParts DEF EmptyPages, LoggedPages, ErasedArea
<1>7. WrittenPages'
  BY <1>1, <1>2, CoreParts DEF WrittenPages
<1>8. BufferPages'
  BY <1>1, CoreParts DEF BufferPages, SameMove, ErasedArea
<1>9. MoveOK'
  BY <1>1, CoreParts, MoveStays
<1>10. SumOK'
  BY <1>1, <1>2, <1>3, <1>4, <1>l, CoreParts DEF SumOK
<1>11. Core'
  BY <1>1, <1>5, <1>6, <1>7, <1>8, <1>9, <1>10, CoreWhole DEF PagesOK
<1>12. QED
  BY <1>1, <1>2, <1>11

(* Looking at the pages of an area brings it into the cache. *)
LEMMA CacheStep ==
    ASSUME Core, NoOp, NEW a \in Area, map.type[a] = "data", NEW new, new = ram[a],
           sum' = WithSummary(sum, a, new),
           UNCHANGED <<flash, asWritten, bad, index, log, map, addr, phase, found, ops>>
    PROVE  /\ Core' /\ SameMove /\ SameTx /\ NoOp' /\ SameRest /\ stored' = stored
           /\ buffer' = buffer /\ logged' = logged /\ TxState' = TxState
<1>2. /\ lastOp' = lastOp /\ ext' = ext /\ (NoOp' <=> NoOp)
      /\ mv' = mv /\ target' = target
      /\ (replaced' <=> replaced) /\ (updated' <=> updated) /\ (invalidated' <=> invalidated)
      /\ neuPage' = neuPage /\ oldPage' = oldPage
      /\ TxState' = TxState
  BY ViewStays
<1>3. SameMove /\ SameTx /\ SameRest
  BY <1>2 DEF SameMove, SameTx, SameRest
<1>n. \A b \in Area : ~Deleting(b) /\ ~Deleting(b)'
  BY <1>2, IdleParts DEF Deleting, Doing1
<1>4. \A b \in Area : Base(b)' = Base(b)
  BY DEF Base
<1>5. LogOK' /\ inLog' = inLog /\ logged' = logged
  BY <1>4, CoreParts, LoggedStays
<1>6. SumTyped' /\ ram' = ram /\ cached' = cached \union {a}
  <2>1. new \in [Page -> SummaryEntry]
    BY CoreParts
  <2>2. SumTyped' /\ ram' = [ram EXCEPT ![a] = new] /\ cached' = cached \union {a}
    BY <2>1, <1>4, CoreParts, RamWith
  <2>3. QED
    BY <2>2, CoreParts
<1>8. /\ (map \in Map)' /\ FixedAreas' /\ OtherAreas' /\ PositionsDistinct' /\ Totals'
      /\ ActiveOK' /\ OpOK'
  BY <1>2, <1>3, MapSame
<1>9. buffer' = buffer /\ stored' = stored
  BY DEF buffer, stored
<1>10. Recovered' /\ InFlash' /\ IsProg(log')
  BY CoreParts, RecoveredStays DEF InFlash, IsProg
<1>12. FilesOK'
  BY <1>n, CoreParts DEF FilesOK, Addr
<1>13. DataPages' /\ EmptyPages' /\ LoggedPages' /\ WrittenPages'
  BY <1>2, <1>n, <1>5, CoreParts DEF DataPages, EmptyPages, LoggedPages, WrittenPages,
     FreeOK, UsedOK, ErasedArea, Lost
<1>14. DeletedPages' /\ BufferPages'
  BY <1>2, <1>n, <1>9, CoreParts DEF DeletedPages, BufferPages, ErasedArea
<1>15. MoveOK'
  BY <1>3, CoreParts, MoveStays
<1>16. TxOK'
  BY <1>2, CoreParts DEF TxOK, Unreferenced
<1>17. SumOK'
  <2>1. \A b \in cached' : (b \in Area /\ map.type[b] = "data" /\ sum[b] \in [Page -> SummaryEntry])'
    BY <1>6, CoreParts DEF SumOK, SumTyped
  <2>2. \A b \in Area : (b \in inLog => b \in cached)' /\ (ram[b] = logged[b])'
    BY <1>5, <1>6, <1>n, CoreParts DEF SumOK
  <2>3. QED
    BY <2>1, <2>2, <1>n DEF SumOK
<1>18. QED
  BY <1>2, <1>3, <1>5, <1>8, <1>9, <1>10, <1>12, <1>13, <1>14, <1>15, <1>16, <1>17, CoreWhole DEF PagesOK
-----------------------------------------------------------------------------
(* A file page is in the tree.                                             *)

(* updateInode inside a transaction keeps Core and changes what one file
   holds. *)
LEMMA UpdateStep ==
    ASSUME Core, NoOp, mv = "ok", replaced, ~updated, NEW f \in FilePage, NEW neu, neuPage = neu,
           oldPage = addr[f], IsProg(log),
           log' = Append(log, UpdateInode(f, neu)), addr' = [addr EXCEPT ![f] = neu],
           UNCHANGED <<flashVars, index, map, sum, phase, found, bounds>>,
           neu \in Addr \union {NoAddr},
           neu # NoAddr => /\ logged[neu[1]][neu[2]] = "used"
                           /\ flash[map.pos[neu[1]]][neu[2]] # Erased
    PROVE  /\ Core' /\ SameMove /\ NoOp' /\ SameRest /\ SameStatus
           /\ buffer' = buffer /\ map' = map /\ flash' = flash /\ asWritten' = asWritten
           /\ replaced' /\ updated' /\ (invalidated' <=> invalidated)
           /\ neuPage' = neuPage /\ oldPage' = oldPage
           /\ stored' = [stored EXCEPT ![f] = IF neu = NoAddr THEN {}
                                              ELSE {flash[map.pos[neu[1]]][neu[2]]}]
           /\ Unreferenced(oldPage)'
<1> DEFINE e == UpdateInode(f, neu)
           old == addr[f]
<1>e. /\ e.op = "update" /\ e.file = f /\ e.neu = neu /\ \A t : ~IsCheckpoint(e, t)
      /\ e.op \notin AreaMgmtOp \union ExternOp \union MoveOp \union {"moveValidData"}
      /\ e.op \notin PageOp \union DropOp /\ EntryOK(e) /\ e.op \notin MapOp
  BY DEF UpdateInode, IsCheckpoint, AreaMgmtOp, ExternOp, MoveOp, PageOp, DropOp, EntryOK, MapOp
<1>g. Grows(e)
  BY DEF Grows
<1> HIDE DEF e
<1>u. UNCHANGED <<flash, asWritten, bad, index, map, sum, phase, found, ops>>
  BY DEF flashVars, bounds
<1>1. lastOp' = lastOp /\ ext' = ext /\ NoOp'
  BY <1>e, <1>g, OpView
<1>2. SameMove
  BY <1>e, <1>g, MoveView DEF SameMove
<1>3. /\ replaced' /\ updated' /\ (invalidated' <=> invalidated)
      /\ neuPage' = neuPage /\ oldPage' = oldPage
  BY <1>e, <1>g, TxView
<1>n. \A a \in Area : ~Deleting(a) /\ ~Deleting(a)'
  BY <1>1, IdleParts DEF Deleting, Doing1
<1>4. \A a \in Area : Base(a)' = Base(a)
  BY <1>u DEF Base
<1>5. /\ logged' = logged /\ inLog' = inLog /\ LogOK' /\ IsProg(log')
  BY <1>e, <1>g, <1>u, <1>4, CoreParts, LoggedGrows, LogOKGrows, LogGrows
<1>6. SumTyped' /\ ram' = ram /\ cached' = cached
  BY <1>u, <1>4, CoreParts, RamStays
<1>s. SameStatus
  BY <1>5, <1>6 DEF SameStatus
<1>7. Recovered'
  <2>1. Applied(map, e) = map
    BY <1>e, AppliedOther
  <2>2. addr' = AddrStep(addr, e)
    BY <1>e DEF AddrStep
  <2>3. QED
    BY <2>1, <2>2, <1>u, <1>g, CoreParts, RecoveredGrows
<1>8. InFlash'
  BY <1>u, CoreParts DEF InFlash
<1>9. buffer' = buffer
  BY <1>u DEF buffer
<1>10. (map \in Map)' /\ FixedAreas' /\ PositionsDistinct' /\ OtherAreas' /\ ActiveOK' /\ Totals'
  BY <1>1, <1>u, <1>9, CoreParts DEF FixedAreas, PositionsDistinct, OtherAreas, AreaOK, ActiveOK,
     Totals, Adjust, Doing1, Deleting
<1>11. OpOK'
  <2>1. lastOp.op = "invalidateOldPages"
    BY IdleParts
  <2>2. QED
    BY <2>1, <1>1, CoreParts DEF OpOK, InitOK, CloseOK, DeleteOK, ContentsOK
<1>12. Unreferenced(neu)
  BY CoreParts DEF TxOK
<1>a. addr' \in [FilePage -> Addr \union {NoAddr}] /\ addr'[f] = neu
      /\ \A g \in FilePage : g # f => addr'[g] = addr[g]
  BY CoreParts DEF FilesOK
<1>13. FilesOK'
  <2>1. ASSUME NEW g \in FilePage, addr'[g] # NoAddr
        PROVE  /\ map.type[addr'[g][1]] = "data"
               /\ addr'[g] \in Addr
               /\ flash[map.pos[addr'[g][1]]][addr'[g][2]] # Erased
               /\ \A h \in FilePage : addr'[h] = addr'[g] => h = g
    <3>1. CASE g = f
      BY <2>1, <3>1, <1>12, <1>a DEF Unreferenced
    <3>2. CASE g # f
      <4>1. addr'[g] = addr[g] /\ addr[g] # NoAddr
        BY <2>1, <3>2, <1>a
      <4>2. /\ map.type[addr[g][1]] = "data" /\ addr[g] \in Addr
            /\ flash[map.pos[addr[g][1]]][addr[g][2]] # Erased
            /\ \A h \in FilePage : addr[h] = addr[g] => h = g
        BY <4>1, CoreParts DEF FilesOK
      <4>3. neu # addr[g]
        BY <4>1, <1>12 DEF Unreferenced
      <4>4. QED
        BY <4>1, <4>2, <4>3, <1>a
    <3>3. QED
      BY <3>1, <3>2
  <2>2. lastOp'.op = "invalidateOldPages"
    BY <1>1, IdleParts
  <2>3. QED
    BY <2>1, <2>2, <1>a, <1>u DEF FilesOK, Deleting, Doing1
<1>14. DataPages'
  <2>1. ASSUME NEW a \in Area, FreeOK(a), UsedOK(a)
        PROVE  FreeOK(a)' /\ UsedOK(a)'
    <3>1. FreeOK(a)'
      BY <2>1, <1>5, <1>u DEF FreeOK
    <3>2. ASSUME NEW g \in FilePage, addr'[g] # NoAddr, addr'[g][1] = a
          PROVE  logged[a][addr'[g][2]] = "used"
      BY <2>1, <3>2, <1>a DEF UsedOK
    <3>3. QED
      BY <3>1, <3>2, <1>5 DEF UsedOK
  <2>2. QED
    BY <2>1, <1>n, <1>u, <1>2, CoreParts DEF DataPages, Lost, SameMove
<1>15. EmptyPages' /\ LoggedPages' /\ WrittenPages'
  BY <1>u, <1>5, <1>n, CoreParts DEF EmptyPages, LoggedPages, WrittenPages, ErasedArea
<1>16. DeletedPages' /\ BufferPages'
  BY <1>1, <1>2, <1>u, <1>n, <1>9, CoreParts DEF DeletedPages, BufferPages, ErasedArea, SameMove
<1>17. MoveOK'
  BY <1>2 DEF MoveOK, SameMove
<1>18. Unreferenced(oldPage)'
  <2>1. ASSUME old # NoAddr
        PROVE  /\ old \in Addr /\ map.type[old[1]] = "data"
               /\ \A g \in FilePage : addr'[g] # old
    <3>1. /\ old \in Addr /\ map.type[old[1]] = "data"
          /\ \A g \in FilePage : addr[g] = old => g = f
      BY <2>1, CoreParts DEF FilesOK
    <3>2. neu # old
      BY <2>1, <1>12 DEF Unreferenced
    <3>3. QED
      BY <3>1, <3>2, <1>a
  <2>2. QED
    BY <2>1, <1>3, <1>u DEF Unreferenced
<1>19. TxOK'
  <2>1. lastOp'.op = "invalidateOldPages"
    BY <1>1, IdleParts
  <2>2. QED
    BY <2>1, <1>3, <1>18 DEF TxOK
<1>20. SumOK'
  BY <1>s, <1>6, <1>n, <1>u, CoreParts, SumStays DEF SumOK
<1>21. Core'
  BY <1>5, <1>7, <1>8, <1>10, <1>11, <1>13, <1>14, <1>15, <1>16, <1>17, <1>19, <1>20, CoreWhole DEF PagesOK
<1>22. stored' = [stored EXCEPT ![f] = IF neu = NoAddr THEN {}
                                       ELSE {flash[map.pos[neu[1]]][neu[2]]}]
  BY <1>a, <1>u DEF stored
<1>23. SameRest
  BY <1>u DEF SameRest
<1>24. QED
  BY <1>1, <1>2, <1>3, <1>s, <1>9, <1>u, <1>18, <1>21, <1>22, <1>23

-----------------------------------------------------------------------------
(* An area trades places with the garbage buffer.                          *)

(* A swap with the buffer keeps Core, and the two areas exchange their
   positions. *)
LEMMA SwapEntry ==
    ASSUME Core, NoOp, NEW a \in Area \ {0}, NEW b, b = buffer, a # b, MapEntry(Swap(a, b)),
           map.pos[a] \notin asWritten
    PROVE  /\ SameTx /\ SameRest /\ SameStatus /\ SumTyped' /\ lastOp' = lastOp /\ ext' = ext /\ NoOp'
           /\ buffer' = b /\ flash' = flash /\ asWritten' = asWritten /\ addr' = addr /\ sum' = sum
           /\ \A c \in Area : ~Deleting(c) /\ ~Deleting(c)'
           /\ InFlash' /\ IsProg(log') /\ LogOK' /\ Recovered' /\ (map \in Map)' /\ FixedAreas'
           /\ OtherAreas' /\ PositionsDistinct' /\ Totals' /\ ActiveOK' /\ OpOK'
           /\ map'.type = map.type /\ map'.status = map.status /\ map'.active = map.active
           /\ map'.pos[a] = map.pos[b] /\ map'.pos[b] = map.pos[a]
           /\ \A c \in Area : c \notin {a, b} => map'.pos[c] = map.pos[c]
           /\ target' = target /\ mv' = IF mv = "ok" THEN "ok" ELSE "swappedPosition"
           /\ \A c \in Area : map'.pos[c] \in asWritten => c \notin {a, b}
<1> DEFINE e == Swap(a, b)
<1>e. /\ e.op = "swap" /\ \A t : ~IsCheckpoint(e, t)
      /\ e.op \notin AreaMgmtOp \union ExternOp
      /\ e.op \notin PageOp \union DropOp /\ EntryOK(e) /\ e.op # "update"
      /\ e.op \notin {"replacePage", "update", "invalidateOldPages"} /\ e.op \in MoveOp
  BY DEF Swap, IsCheckpoint, AreaMgmtOp, ExternOp, MoveOp, PageOp, DropOp, EntryOK
<1>g. Grows(e) /\ map' = Applied(map, e)
      /\ UNCHANGED <<flash, asWritten, bad, index, sum, addr, phase, found, ops>>
  BY DEF MapEntry, flashVars, bounds
<1>b. b \in Area /\ b # 0 /\ a \in Area /\ map.pos[b] \notin asWritten /\ buffer = b
  BY CoreParts DEF BufferPages
<1>m. /\ map' \in Map /\ map'.type = map.type /\ map'.status = map.status
      /\ map'.pos = [map.pos EXCEPT ![a] = map.pos[b], ![b] = map.pos[a]]
      /\ map'.erasecount = [map.erasecount EXCEPT ![a] = map.erasecount[b], ![b] = map.erasecount[a]]
      /\ map'.active = map.active /\ map'.used = map.used /\ map'.deletions = map.deletions
  <2>1. map' = Applied(map, Swap(a, b))
    BY <1>g DEF e
  <2>2. map \in Map
    BY CoreParts
  <2>3. QED
    BY <2>1, <2>2, <1>b, AppliedSwap
<1> HIDE DEF e
<1>1. lastOp' = lastOp /\ ext' = ext /\ NoOp'
  BY <1>e, <1>g, OpView
<1>2. target' = target /\ mv' = IF mv = "ok" THEN "ok" ELSE "swappedPosition"
  BY <1>e, <1>g, MoveView
<1>3. SameTx
  BY <1>e, <1>g, TxView DEF SameTx
<1>n. \A c \in Area : ~Deleting(c) /\ ~Deleting(c)'
  BY <1>1, IdleParts DEF Deleting, Doing1
<1>p. /\ map'.pos[a] = map.pos[b] /\ map'.pos[b] = map.pos[a]
      /\ \A c \in Area : c \notin {a, b} => map'.pos[c] = map.pos[c]
  BY <1>m, <1>b, CoreParts
<1>4. \A c \in Area : Base(c)' = Base(c)
  BY <1>p, <1>b, <1>g DEF Base
<1>5. /\ logged' = logged /\ inLog' = inLog /\ LogOK' /\ IsProg(log')
  BY <1>e, <1>g, <1>4, CoreParts, LoggedGrows, LogOKGrows, LogGrows
<1>6. SumTyped' /\ ram' = ram /\ cached' = cached
  BY <1>g, <1>4, CoreParts, RamStays
<1>7. Recovered'
  BY <1>e, <1>g, CoreParts, RecoveredGrows DEF AddrStep
<1>8. InFlash' /\ SameRest
  BY <1>g, CoreParts DEF InFlash, SameRest
<1>9. buffer' = b
  BY <1>m, <1>b DEF buffer
<1>10. FixedAreas'
  <2>1. map'.pos[0] = 0
    BY <1>p, <1>b, CoreParts, Constants DEF FixedAreas
  <2>2. QED
    BY <2>1, <1>m, <1>9, <1>b, CoreParts DEF FixedAreas
<1>11. PositionsDistinct'
  <2>1. ASSUME NEW c \in Area, NEW d \in Area, c # d
        PROVE  map'.pos[c] # map'.pos[d]
    <3>1. \A x, y \in Area : x # y => map.pos[x] # map.pos[y]
      BY CoreParts DEF PositionsDistinct
    <3>2. CASE c = a
      BY <3>1, <3>2, <2>1, <1>p, <1>b
    <3>3. CASE c = b
      BY <3>1, <3>3, <2>1, <1>p, <1>b
    <3>4. CASE c \notin {a, b}
      BY <3>1, <3>4, <2>1, <1>p, <1>b
    <3>5. QED
      BY <3>2, <3>3, <3>4
  <2>2. QED
    BY <2>1 DEF PositionsDistinct
<1>12. OtherAreas' /\ ActiveOK'
  BY <1>1, <1>m, <1>9, <1>b, CoreParts DEF OtherAreas, AreaOK, ActiveOK, Doing1, Deleting
<1>13. Totals'
  <2>1. TotalErases(map') = TotalErases(map)
    BY <1>m, <1>b, CoreParts, TotalSwap
  <2>2. NonEmpty(map') = NonEmpty(map)
    BY <1>m DEF NonEmpty
  <2>3. QED
    BY <2>1, <2>2, <1>1, <1>m, CoreParts DEF Totals, Adjust
<1>14. OpOK'
  <2>1. lastOp.op = "invalidateOldPages"
    BY IdleParts
  <2>2. QED
    BY <2>1, <1>1, CoreParts DEF OpOK, InitOK, CloseOK, DeleteOK, ContentsOK
<1>15. \A c \in Area : map'.pos[c] \in asWritten => c \notin {a, b}
  BY <1>p, <1>b
<1>16. QED
  BY <1>1, <1>2, <1>3, <1>n, <1>p, <1>5, <1>6, <1>7, <1>8, <1>9, <1>10, <1>11, <1>12, <1>13, <1>14,
     <1>15, <1>m, <1>g DEF SameStatus

(* With its copies, when all pages with data are there. *)
LEMMA SwapMove ==
    ASSUME Core, NoOp, mv = "moveValidData", NEW a \in Area \ {0}, target = a, NEW b, b = buffer,
           MapEntry(Swap(a, b)), NEW s, MoveReady(a, s),
           \A p \in Page : flash[map.pos[b]][p] =
                    IF s[p] = "used" THEN flash[map.pos[a]][p] ELSE Erased
    PROVE  /\ Core' /\ SameTx /\ NoOp' /\ SameRest /\ stored' = stored /\ buffer' = b
           /\ mv' = "swappedPosition" /\ target' = a /\ CleanOK(a, s)' /\ HasFree(s)
<1>0. /\ a # b /\ map.pos[a] \notin asWritten /\ map.type[a] = "data" /\ map.status[a] = "closed"
      /\ map.active["data"] = 0 /\ map.pos[b] \notin asWritten /\ b \in Area /\ ~replaced
  BY CoreParts DEF FixedAreas, MoveReady, NoActive, BufferPages, MoveOK
<1>1. /\ SameTx /\ SameRest /\ SameStatus /\ SumTyped' /\ lastOp' = lastOp /\ ext' = ext /\ NoOp'
      /\ buffer' = b /\ flash' = flash /\ asWritten' = asWritten /\ addr' = addr /\ sum' = sum
      /\ \A c \in Area : ~Deleting(c) /\ ~Deleting(c)'
      /\ InFlash' /\ IsProg(log') /\ LogOK' /\ Recovered' /\ (map \in Map)' /\ FixedAreas'
      /\ OtherAreas' /\ PositionsDistinct' /\ Totals' /\ ActiveOK' /\ OpOK'
      /\ map'.type = map.type /\ map'.status = map.status /\ map'.active = map.active
      /\ map'.pos[a] = map.pos[b] /\ map'.pos[b] = map.pos[a]
      /\ \A c \in Area : c \notin {a, b} => map'.pos[c] = map.pos[c]
      /\ target' = target /\ mv' = "swappedPosition"
      /\ \A c \in Area : map'.pos[c] \in asWritten => c \notin {a, b}
  BY <1>0, SwapEntry
<1>2. \A c \in Area : map.type[c] \in {"data", "unset"} => c # b
  BY CoreParts DEF FixedAreas
<1>3. FreeOK(a) /\ UsedOK(a)
  BY <1>0, <1>1, CoreParts DEF DataPages, Lost
<1>4. \A p \in Page : logged[a][p] = "used" => flash[map'.pos[a]][p] = flash[map.pos[a]][p]
  BY <1>1 DEF MoveReady
<1>5. \A p \in Page : s[p] = "free" => flash[map'.pos[a]][p] = Erased
  BY <1>1 DEF MoveReady
<1>6. \A f \in FilePage : addr[f] # NoAddr =>
        /\ addr[f] \in Addr
        /\ flash[map'.pos[addr[f][1]]][addr[f][2]] = flash[map.pos[addr[f][1]]][addr[f][2]]
        /\ map.type[addr[f][1]] = "data"
  <2>1. ASSUME NEW f \in FilePage, addr[f] # NoAddr
        PROVE  /\ addr[f] \in Addr
               /\ flash[map'.pos[addr[f][1]]][addr[f][2]] = flash[map.pos[addr[f][1]]][addr[f][2]]
               /\ map.type[addr[f][1]] = "data"
    <3>1. addr[f] \in Addr /\ map.type[addr[f][1]] = "data"
      BY <2>1, CoreParts DEF FilesOK
    <3>2. addr[f][1] \in Area /\ addr[f][2] \in Page /\ addr[f][1] # b
      BY <3>1, <1>2 DEF Addr
    <3>3. CASE addr[f][1] = a
      <4>1. logged[a][addr[f][2]] = "used"
        BY <2>1, <3>3, <1>3 DEF UsedOK
      <4>2. QED
        BY <3>1, <3>2, <3>3, <4>1, <1>4
    <3>4. CASE addr[f][1] # a
      BY <3>1, <3>2, <3>4, <1>1
    <3>5. QED
      BY <3>3, <3>4
  <2>2. QED
    BY <2>1
<1>7. stored' = stored
  BY <1>1, <1>6 DEF stored
<1>8. FilesOK'
  <2>1. ASSUME NEW f \in FilePage, addr[f] # NoAddr
        PROVE  /\ map'.type[addr[f][1]] = "data" /\ ~Deleting(addr[f][1])'
               /\ flash'[map'.pos[addr[f][1]]][addr[f][2]] # Erased
               /\ \A g \in FilePage : addr[g] = addr[f] => g = f
    <3>1. /\ map.type[addr[f][1]] = "data" /\ flash[map.pos[addr[f][1]]][addr[f][2]] # Erased
          /\ \A g \in FilePage : addr[g] = addr[f] => g = f
      BY <2>1, CoreParts DEF FilesOK
    <3>2. addr[f] \in Addr
          /\ flash[map'.pos[addr[f][1]]][addr[f][2]] = flash[map.pos[addr[f][1]]][addr[f][2]]
      BY <2>1, <1>6
    <3>3. addr[f][1] \in Area
      BY <3>2 DEF Addr
    <3>4. QED
      BY <1>1, <3>1, <3>2, <3>3
  <2>2. addr \in [FilePage -> Addr \union {NoAddr}]
    BY CoreParts DEF FilesOK
  <2>3. QED
    BY <1>1, <2>1, <2>2 DEF FilesOK
<1>9. DataPages'
  <2>1. ASSUME NEW c \in Area, map.type[c] = "data", c # a
        PROVE  FreeOK(c)' /\ UsedOK(c)'
    <3>1. FreeOK(c) /\ UsedOK(c)
      BY <2>1, <1>1, CoreParts DEF DataPages, Lost
    <3>2. map'.pos[c] = map.pos[c]
      BY <2>1, <1>1, <1>2
    <3>3. QED
      BY <3>1, <3>2, <1>1, PagesStay DEF SameStatus
  <2>2. FreeOK(a)'
    <3>1. \A p \in Page : logged[a][p] = "free" => s[p] = "free"
      BY DEF MoveReady
    <3>2. QED
      BY <3>1, <1>1, <1>5 DEF FreeOK, SameStatus
  <2>3. UsedOK(a)'
    BY <1>1, <1>3 DEF UsedOK, SameStatus
  <2>4. QED
    BY <2>1, <2>2, <2>3, <1>1 DEF DataPages
<1>10. EmptyPages' /\ LoggedPages'
  <2>1. LoggedPages'
    BY <1>1, CoreParts DEF LoggedPages, SameStatus
  <2>2. ASSUME NEW c \in Area, map.type[c] = "unset"
        PROVE  ErasedArea(c)' /\ (c \notin inLog)'
    <3>1. c \notin {a, b}
      BY <2>2, <1>0, <1>2
    <3>2. QED
      BY <3>1, <2>2, <1>1, CoreParts DEF EmptyPages, ErasedArea, SameStatus
  <2>3. QED
    BY <2>1, <2>2, <1>1 DEF EmptyPages
<1>11. WrittenPages'
  <2>1. ASSUME NEW c \in Area, map'.pos[c] \in asWritten
        PROVE  map.type[c] = "data" /\ \A q \in Page : logged[c][q] = "dirty"
    <3>1. c \notin {a, b} /\ map.pos[c] \in asWritten
      BY <2>1, <1>1
    <3>2. QED
      BY <3>1, <1>1, CoreParts DEF WrittenPages
  <2>2. QED
    BY <2>1, <1>1 DEF WrittenPages, SameStatus
<1>12. DeletedPages'
  BY <1>1 DEF DeletedPages
<1>13. BufferPages'
  BY <1>0, <1>1 DEF BufferPages
<1>14. MoveOK'
  BY <1>0, <1>1 DEF MoveOK, SameTx
<1>15. TxOK'
  BY <1>0, <1>1 DEF TxOK, SameTx
<1>16. SumOK'
  BY <1>1, CoreParts, SumStays DEF SumOK
<1>17. Core'
  BY <1>1, <1>8, <1>9, <1>10, <1>11, <1>12, <1>13, <1>14, <1>15, <1>16, CoreWhole DEF PagesOK
<1>18. CleanOK(a, s)'
  <2>1. \A f \in FilePage : (addr[f] # NoAddr /\ addr[f][1] = a) => s[addr[f][2]] = "used"
    BY <1>3, <1>6 DEF UsedOK, MoveReady, Addr
  <2>2. s \in [Page -> {"free", "used"}]
    BY DEF MoveReady
  <2>3. QED
    BY <2>1, <2>2, <1>1, <1>5 DEF CleanOK
<1>19. QED
  BY <1>1, <1>7, <1>17, <1>18 DEF MoveReady

(* After its deletion. *)
LEMMA SwapDeleted ==
    ASSUME Core, NoOp, mv = "ok", NEW a \in Area \ {0}, NEW b, b = buffer,
           MapEntry(Swap(a, b)), map.type[a] = "unset"
    PROVE  /\ Core' /\ SameTx /\ NoOp' /\ SameRest /\ stored' = stored /\ buffer' = b
           /\ mv' = "ok" /\ map'.type = map.type /\ map'.active = map.active
<1>0. /\ a # b /\ map.pos[a] \notin asWritten /\ map.pos[b] \notin asWritten /\ b \in Area
      /\ ErasedArea(a) /\ ErasedArea(b)
  BY CoreParts DEF FixedAreas, WrittenPages, BufferPages, EmptyPages
<1>1. /\ SameTx /\ SameRest /\ SameStatus /\ SumTyped' /\ lastOp' = lastOp /\ ext' = ext /\ NoOp'
      /\ buffer' = b /\ flash' = flash /\ asWritten' = asWritten /\ addr' = addr /\ sum' = sum
      /\ \A c \in Area : ~Deleting(c) /\ ~Deleting(c)'
      /\ InFlash' /\ IsProg(log') /\ LogOK' /\ Recovered' /\ (map \in Map)' /\ FixedAreas'
      /\ OtherAreas' /\ PositionsDistinct' /\ Totals' /\ ActiveOK' /\ OpOK'
      /\ map'.type = map.type /\ map'.status = map.status /\ map'.active = map.active
      /\ map'.pos[a] = map.pos[b] /\ map'.pos[b] = map.pos[a]
      /\ \A c \in Area : c \notin {a, b} => map'.pos[c] = map.pos[c]
      /\ target' = target /\ mv' = "ok"
      /\ \A c \in Area : map'.pos[c] \in asWritten => c \notin {a, b}
  BY <1>0, SwapEntry
<1>2. \A c \in Area : map.type[c] = "data" => c \notin {a, b}
  BY CoreParts DEF FixedAreas
<1>3. \A c \in Area : map.type[c] = "data" => map'.pos[c] = map.pos[c]
  BY <1>1, <1>2
<1>6. \A f \in FilePage : addr[f] # NoAddr =>
        /\ addr[f] \in Addr
        /\ map'.pos[addr[f][1]] = map.pos[addr[f][1]]
        /\ map.type[addr[f][1]] = "data"
  BY <1>3, CoreParts DEF FilesOK, Addr
<1>7. stored' = stored
  BY <1>1, <1>6 DEF stored
<1>8. FilesOK'
  <2>1. ASSUME NEW f \in FilePage, addr[f] # NoAddr
        PROVE  /\ map'.type[addr[f][1]] = "data" /\ ~Deleting(addr[f][1])'
               /\ flash'[map'.pos[addr[f][1]]][addr[f][2]] # Erased
               /\ \A g \in FilePage : addr[g] = addr[f] => g = f
    <3>1. /\ map.type[addr[f][1]] = "data" /\ flash[map.pos[addr[f][1]]][addr[f][2]] # Erased
          /\ \A g \in FilePage : addr[g] = addr[f] => g = f
      BY <2>1, CoreParts DEF FilesOK
    <3>2. addr[f] \in Addr
          /\ flash[map'.pos[addr[f][1]]][addr[f][2]] = flash[map.pos[addr[f][1]]][addr[f][2]]
      BY <2>1, <1>6
    <3>3. addr[f][1] \in Area
      BY <3>2 DEF Addr
    <3>4. QED
      BY <1>1, <3>1, <3>2, <3>3
  <2>2. addr \in [FilePage -> Addr \union {NoAddr}]
    BY CoreParts DEF FilesOK
  <2>3. QED
    BY <1>1, <2>1, <2>2 DEF FilesOK
<1>9. DataPages'
  <2>1. ASSUME NEW c \in Area, map.type[c] = "data"
        PROVE  FreeOK(c)' /\ UsedOK(c)'
    <3>1. FreeOK(c) /\ UsedOK(c)
      BY <2>1, <1>1, CoreParts DEF DataPages, Lost
    <3>2. QED
      BY <2>1, <3>1, <1>3, <1>1, PagesStay DEF SameStatus
  <2>4. QED
    BY <2>1, <1>1 DEF DataPages
<1>10. EmptyPages' /\ LoggedPages'
  <2>1. LoggedPages'
    BY <1>1, CoreParts DEF LoggedPages, SameStatus
  <2>2. ASSUME NEW c \in Area, map.type[c] = "unset"
        PROVE  ErasedArea(c)' /\ (c \notin inLog)'
    <3>1. CASE c = a
      BY <3>1, <2>2, <1>0, <1>1, CoreParts DEF EmptyPages, ErasedArea, SameStatus
    <3>2. CASE c # a
      <4>1. c \notin {a, b}
        BY <2>2, <3>2, CoreParts DEF FixedAreas
      <4>2. QED
        BY <4>1, <2>2, <1>1, CoreParts DEF EmptyPages, ErasedArea, SameStatus
    <3>3. QED
      BY <3>1, <3>2
  <2>3. QED
    BY <2>1, <2>2, <1>1 DEF EmptyPages
<1>11. WrittenPages'
  <2>1. ASSUME NEW c \in Area, map'.pos[c] \in asWritten
        PROVE  map.type[c] = "data" /\ \A q \in Page : logged[c][q] = "dirty"
    <3>1. c \notin {a, b} /\ map.pos[c] \in asWritten
      BY <2>1, <1>1
    <3>2. QED
      BY <3>1, <1>1, CoreParts DEF WrittenPages
  <2>2. QED
    BY <2>1, <1>1 DEF WrittenPages, SameStatus
<1>12. DeletedPages'
  BY <1>1 DEF DeletedPages
<1>13. BufferPages'
  BY <1>0, <1>1 DEF BufferPages, ErasedArea
<1>14. MoveOK'
  BY <1>1 DEF MoveOK
<1>15. TxOK'
  <2>1. lastOp'.op = "invalidateOldPages"
    BY <1>1, IdleParts
  <2>2. QED
    BY <2>1, <1>1, CoreParts, TxStays
<1>16. SumOK'
  BY <1>1, CoreParts, SumStays DEF SumOK
<1>17. Core'
  BY <1>1, <1>8, <1>9, <1>10, <1>11, <1>12, <1>13, <1>14, <1>15, <1>16, CoreWhole DEF PagesOK
<1>19. QED
  BY <1>1, <1>7, <1>17
-----------------------------------------------------------------------------
(* Stages: every program goes on as the invariant says.                    *)

(* All programs are programs. *)
LEMMA Progs ==
    /\ IsProg(NoProg) /\ IsProg(CpData) /\ IsProg(FullIndex) /\ IsProg(FullData)
    /\ IsProg(CpGarbage) /\ IsProg(Clear) /\ IsProg(CpSum) /\ IsProg(Behind1)
    /\ IsProg(Invalidate)
    /\ \A t : IsProg(ScanTail(t))
    /\ \A f : IsProg(PageFor(f)) /\ IsProg(GcEnd(f))
    /\ \A a, r : IsProg(r) => IsProg(InitFor(a, r))
    /\ \A f, a : IsProg(AfterDel(f, a))
    /\ \A f, a, s : IsProg(Move4(f, a, s)) /\ IsProg(Move3(f, a, s))
    /\ \A f, a, b, s : IsProg(Move2(f, a, b, s)) /\ IsProg(Move1(f, a, b, s))
    /\ \A old : IsProg(RetireTail(old))
    /\ \A f, neu, old : /\ IsProg(Tx4(f, neu, old)) /\ IsProg(Tx3(f, neu, old))
                        /\ IsProg(Tx2(f, neu, old)) /\ IsProg(Tx1(f, neu, old))
<1>1. \A x, r : IsProg(r) => IsProg(Then(x, r))
  BY CatFacts
<1>2. IsProg(NoProg)
  BY ProgFacts DEF NoProg
<1>3. IsProg(CpData) /\ IsProg(CpGarbage) /\ IsProg(Clear) /\ \A f : IsProg(PageFor(f))
  BY <1>1, <1>2 DEF CpData, CpGarbage, Clear, PageFor
<1>4. /\ IsProg(CpSum) /\ \A f : IsProg(GcEnd(f)) /\ \A t : IsProg(ScanTail(t))
      /\ IsProg(FullIndex) /\ \A f, a : IsProg(AfterDel(f, a))
      /\ \A a, r : IsProg(r) => IsProg(InitFor(a, r))
  BY <1>1, <1>3 DEF CpSum, GcEnd, ScanTail, FullIndex, AfterDel, InitFor
<1>5. IsProg(FullData)
  BY <1>1, <1>4 DEF FullData, FullIndex
<1>6. IsProg(Behind1)
  BY <1>3, <1>5 DEF Behind1
<1>7. IsProg(Invalidate)
  BY <1>1, <1>6 DEF Invalidate
<1>8. \A f, a, s : IsProg(Move4(f, a, s))
  BY <1>1, <1>4 DEF Move4
<1>9. \A f, a, s : IsProg(Move3(f, a, s))
  BY <1>1, <1>8 DEF Move3
<1>10. \A f, a, b, s : IsProg(Move2(f, a, b, s))
  BY <1>1, <1>9 DEF Move2
<1>11. \A f, a, b, s : IsProg(Move1(f, a, b, s))
  BY <1>1, <1>10 DEF Move1
<1>12. \A old : IsProg(RetireTail(old))
  BY <1>1, <1>3 DEF RetireTail
<1>13. \A f, neu, old : IsProg(Tx4(f, neu, old))
  BY <1>1, <1>12 DEF Tx4
<1>14. \A f, neu, old : IsProg(Tx3(f, neu, old))
  BY <1>1, <1>13 DEF Tx3
<1>15. \A f, neu, old : IsProg(Tx2(f, neu, old))
  BY <1>1, <1>14 DEF Tx2
<1>16. \A f, neu, old : IsProg(Tx1(f, neu, old))
  BY <1>1, <1>15 DEF Tx1
<1>17. QED
  BY <1>2, <1>3, <1>4, <1>5, <1>6, <1>7, <1>8, <1>9, <1>10, <1>11, <1>12, <1>13, <1>14, <1>15, <1>16

(* The entries that are only noted. *)
LEMMA NoteOps ==
    /\ \A t : Checkpoint(t).op \in NoteOp
    /\ \A t, u : t # u => ~IsCheckpoint(Checkpoint(t), u)
    /\ \A t : ~IsCheckpoint(InvalidateOldPages, t) /\ InvalidateOldPages.op \in NoteOp
    /\ \A a, t : ~IsCheckpoint(MoveValidData(a), t) /\ MoveValidData(a).op \in NoteOp
    /\ \A x, y, t : ~IsCheckpoint(ReplacePage(x, y), t) /\ ReplacePage(x, y).op \in NoteOp
  BY DEF Checkpoint, InvalidateOldPages, MoveValidData, ReplacePage, IsCheckpoint, NoteOp

(* A step that leaves page states and the active area alone keeps room. *)
LEMMA RoomStays ==
    ASSUME SameStatus, map' = map
    PROVE  /\ Room' <=> Room
           /\ NoActive' <=> NoActive
           /\ \A a : (FreePage(a)' <=> FreePage(a)) /\ (Dead(a)' <=> Dead(a))
  BY DEF SameStatus, Room, NoActive, FreePage, Dead

(* What an entry that is only noted leaves alone. *)
LEMMA NoteFrame ==
    ASSUME NoteEffect
    PROVE  /\ SameStatus /\ SameRest /\ map' = map /\ flash' = flash /\ asWritten' = asWritten
           /\ addr' = addr /\ phase' = phase /\ ops' = ops /\ found' = found
           /\ logged' = logged
  BY DEF NoteEffect, SameRest, SameStatus

(* What a mount found stays true. *)
LEMMA TxStateStays ==
    ASSUME SameTx, TxState \in {"ok", "recover", "invalid"}
    PROVE  TxState' = TxState
  BY DEF SameTx, TxState, replaced, updated, invalidated

(* The least element of a set of naturals. *)
LEMMA MinOfNat ==
    ASSUME NEW S \in SUBSET Nat, S # {}
    PROVE  Min(S) \in S /\ \A y \in S : Min(S) <= y
  BY LeastElement DEF Min

(* The program of a running call. *)
LEMMA IntoRun ==
    ASSUME phase' = "run", ops' # Erased,
           RunRoom' \/ RunMove' \/ RunOp' \/ RunTx' \/ RunFlush'
    PROVE  Stage'
  BY DEF Stage

(* Without an instruction no instruction is executed. *)
LEMMA NoStep ==
    ASSUME prog = <<>>
    PROVE  Step => \/ phase = "areaMgmt" /\ SignalGarbage
                   \/ phase = "garbage" /\ SignalDataIO
                   \/ phase = "dataIO" /\ Mounted
<1>1. \A kinds : ~Doing(kinds)
  BY DEF Doing
<1>2. ~StepMap /\ ~StepUsed /\ ~StepPageStatus /\ ~StepSummary /\ ~StepNote
  BY <1>1 DEF StepMap, StepUsed, StepPageStatus, StepSummary, StepNote
<1>3. ~StepUpdate /\ ~StepOperation /\ ~StepErase /\ ~StepWritePage /\ ~StepCopyPage
  BY <1>1 DEF StepUpdate, StepOperation, StepErase, StepWritePage, StepCopyPage
<1>4. ~StepMarkBad /\ ~StepWriteSummary /\ ~StepNewPage /\ ~StepManageFull /\ ~StepAfterDelete
  BY <1>1 DEF StepMarkBad, StepWriteSummary, StepNewPage, StepManageFull, StepAfterDelete
<1>5. ~StepAfterMove /\ ~StepScan /\ ~StepCommitSuperIndex /\ ~StepClearJournal
  BY <1>1 DEF StepAfterMove, StepScan, StepCommitSuperIndex, StepClearJournal
<1>6. /\ SignalGarbage => phase = "areaMgmt"
      /\ SignalDataIO => phase = "garbage"
      /\ Mounted => phase = "dataIO"
  BY DEF SignalGarbage, SignalDataIO, Mounted
<1>7. ASSUME Step
      PROVE  SignalGarbage \/ SignalDataIO \/ Mounted
  <2>1. Step
    BY <1>7
  <2>2. QED
    BY <2>1, <1>2, <1>3, <1>4, <1>5 DEF Step
<1>8. QED
  BY <1>6, <1>7
-----------------------------------------------------------------------------
(* Between calls, and looking for a page.                                  *)

(* What gets rid of the old page. *)
LEMMA RetireIs ==
    ASSUME NEW old
    PROVE  Retire(old) = RetireTail(old)
<1>1. Retire(old) = Cat((IF old # NoAddr THEN <<SetStatus(old, "dirty"), InvalidateOldPages>>
                               ELSE Nil), <<Checkpoint("dataIO")>>)
  BY DEF Retire, Cat, Nil
<1>2. <<Checkpoint("dataIO")>> = CpData
  BY ThenTuples DEF CpData, NoProg
<1>3. CASE old = NoAddr
  BY <1>1, <1>2, <1>3, CatFacts, Progs DEF RetireTail
<1>4. CASE old # NoAddr
  <2>1. Retire(old) = <<SetStatus(old, "dirty"), InvalidateOldPages>> \o CpData
    BY <1>1, <1>2, <1>4 DEF Cat
  <2>p. IsProg(CpData)
    BY Progs
  <2> DEFINE x == SetStatus(old, "dirty")
  <2> HIDE DEF x
  <2>q. <<x, InvalidateOldPages>> \o CpData = Then(x, Then(InvalidateOldPages, CpData))
    BY <2>p, ThenTwo
  <2>2. Retire(old) = Then(SetStatus(old, "dirty"), Then(InvalidateOldPages, CpData))
    BY <2>1, <2>q DEF x
  <2>3. QED
    BY <2>2, <1>4 DEF RetireTail
<1>5. QED
  BY <1>3, <1>4

(* The next page of a file: none is left, or a free one is announced. *)
LEMMA PageAnnounced ==
    ASSUME Core, Quiet, NEW f \in FilePage, NEW old, old = addr[f],
           prog = PageFor(f), Next, ~PowerLoss
    PROVE  \/ prog' = NoProg /\ UNCHANGED <<flashVars, index, log, ramVars, phase, found, ops>>
           \/ \E ad \in Addr :
                /\ Core' /\ NoteEffect /\ NoOp' /\ SameMove /\ buffer' = buffer /\ stored' = stored
                /\ replaced' /\ ~updated' /\ ~invalidated' /\ neuPage' = ad /\ oldPage' = old
                /\ prog' = Tx1(f, ad, old)
                /\ map.active["data"] = ad[1] /\ logged[ad[1]][ad[2]] = "free"
<1> DEFINE a == map.active["data"]
           neu == <<a, Min(FreePages(a))>>
<1>0. NoOp /\ mv = "ok" /\ ~replaced /\ map \in Map /\ \A b \in Area : ~Deleting(b)
  BY CoreParts, IdleParts DEF Quiet
<1>1. /\ IF a = 0 \/ FreePages(a) = {}
         THEN prog' = <<>> /\ UNCHANGED log
         ELSE /\ log' = Append(log, ReplacePage(neu, old))
              /\ prog' = <<SetStatus(neu, "used"), WritePage(neu),
                           ManageActiveAreaFull("data"), UpdateInode(f, neu)>>
                         \o Retire(old)
      /\ UNCHANGED <<flashVars, index, ramVars, phase, found, bounds>>
  BY ExecNewPage, Progs DEF PageFor
<1>2. CASE a = 0 \/ FreePages(a) = {}
  BY <1>1, <1>2 DEF NoProg, bounds
<1>3. CASE ~(a = 0 \/ FreePages(a) = {})
  <2>1. a \in Area /\ a # 0 /\ map.type[a] = "data" /\ ram[a] = logged[a]
    BY <1>0, <1>3, CoreParts DEF ActiveOK, SumOK, AreaType, Map
  <2>2. FreePages(a) = {p \in Page : logged[a][p] = "free"}
    BY <2>1, CoreParts DEF FreePages, Pages
  <2> DEFINE p == Min(FreePages(a))
  <2>3. p \in FreePages(a)
    <3>1. FreePages(a) \subseteq Nat /\ FreePages(a) # {}
      BY <1>3, <2>2, Constants
    <3> HIDE DEF a
    <3>2. QED
      BY <3>1, MinOfNat
  <2>4. p \in Page /\ logged[a][p] = "free"
    BY <2>2, <2>3
  <2>n. \A x \in Area \ {0}, y \in Page : <<x, y>> \in Addr /\ <<x, y>>[1] = x /\ <<x, y>>[2] = y
    BY DEF Addr
  <2>m. a \in Area \ {0} /\ p \in Page
    BY <2>1, <2>4
  <2>k. neu = <<a, p>>
    OBVIOUS
  <2> HIDE DEF neu, p, a
  <2>o. neu \in Addr /\ neu[1] = a /\ neu[2] = p
    BY <2>n, <2>m, <2>k
  <2>5. PICK ad \in Addr : ad = neu /\ ad[1] = a /\ ad[2] = p
    BY <2>o
  <2> USE DEF a
  <2>r. /\ log' = Append(log, ReplacePage(ad, old))
        /\ prog' = <<SetStatus(ad, "used"), WritePage(ad),
                     ManageActiveAreaFull("data"), UpdateInode(f, ad)>> \o Retire(old)
    BY <1>1, <1>3, <2>5 DEF neu
  <2>6. FreeOK(a) /\ UsedOK(a)
    BY <1>0, <2>1, CoreParts DEF DataPages, Lost
  <2>7. Unreferenced(ad)
    BY <2>1, <2>4, <2>5, <2>6 DEF Unreferenced, UsedOK
  <2>8. NoteEntry(ReplacePage(ad, old))
    BY <1>1, <2>r, NoteOps, CoreParts DEF NoteEntry, Grows
  <2>9. /\ Core' /\ NoteEffect /\ NoOp' /\ SameMove /\ buffer' = buffer /\ stored' = stored
        /\ replaced' /\ ~updated' /\ ~invalidated' /\ neuPage' = ad /\ oldPage' = old
    BY <2>7, <2>8, ReplaceStep
  <2>10. prog' = Tx1(f, ad, old)
    <3>1. prog' = <<SetStatus(ad, "used"), WritePage(ad),
                           ManageActiveAreaFull("data"), UpdateInode(f, ad)>>
                         \o Retire(old)
      BY <2>r
    <3>2. Retire(old) = RetireTail(old)
      BY RetireIs
    <3>3. prog' = Then(SetStatus(ad, "used"), Then(WritePage(ad),
                    Then(ManageActiveAreaFull("data"), Then(UpdateInode(f, ad), RetireTail(old)))))
      <4>1. IsProg(RetireTail(old))
        BY Progs
      <4> DEFINE x == SetStatus(ad, "used")
                 y == WritePage(ad)
                 z == ManageActiveAreaFull("data")
                 u == UpdateInode(f, ad)
      <4>2. prog' = <<x, y, z, u>> \o RetireTail(old)
        BY <3>1, <3>2
      <4> HIDE DEF x, y, z, u
      <4>3. prog' = Then(x, Then(y, Then(z, Then(u, RetireTail(old)))))
        BY <4>1, <4>2, ThenFour
      <4>4. QED
        BY <4>3 DEF x, y, z, u
    <3>4. QED
      BY <3>3 DEF Tx1, Tx2, Tx3, Tx4
  <2>11. map.active["data"] = ad[1] /\ logged[ad[1]][ad[2]] = "free"
    BY <2>4, <2>5
  <2>12. QED
    BY <2>9, <2>10, <2>11
<1>4. QED
  BY <1>2, <1>3

(* A page is logged as the next one of a file. *)
LEMMA NextPage ==
    ASSUME Core, Quiet, Room, NEW f \in FilePage, NEW old, old = addr[f],
           prog = PageFor(f), Next, ~PowerLoss
    PROVE  /\ Core' /\ stored' = stored /\ phase' = phase /\ ops' = ops
           /\ phase = "run" => RunRoom' \/ RunTx'
<1>1. CASE prog' = NoProg /\ UNCHANGED <<flashVars, index, log, ramVars, phase, found, ops>>
  <2>1. ops' \in 0 .. MaxOps
    BY <1>1, CoreParts DEF InFlash
  <2>2. Core' /\ SameState
    BY <1>1, <2>1, StateSame
  <2>3. Quiet' /\ Room'
    BY <2>2, RoomStays DEF SameState, SameMove, SameTx, Quiet
  <2>4. RunRoom'
    BY <1>1, <2>3 DEF RunRoom
  <2>5. QED
    BY <1>1, <2>2, <2>4 DEF SameState
<1>2. ASSUME NEW ad \in Addr,
             Core' /\ NoteEffect /\ NoOp' /\ SameMove /\ buffer' = buffer /\ stored' = stored,
             replaced' /\ ~updated' /\ ~invalidated' /\ neuPage' = ad /\ oldPage' = old,
             prog' = Tx1(f, ad, old),
             map.active["data"] = ad[1] /\ logged[ad[1]][ad[2]] = "free"
      PROVE  /\ Core' /\ stored' = stored /\ phase' = phase /\ ops' = ops
             /\ phase = "run" => RunRoom' \/ RunTx'
  <2>1. InTx(f, ad, old)'
    BY <1>2, NoteFrame DEF InTx, SameMove, Quiet
  <2>2. ad \in Addr /\ map'.active["data"] = ad[1] /\ logged'[ad[1]][ad[2]] = "free"
    BY <1>2, NoteFrame
  <2>3. old \in Addr \union {NoAddr}
    BY CoreParts DEF FilesOK
  <2>4. RunTx'
    BY <1>2, <2>1, <2>2, <2>3 DEF RunTx
  <2>5. QED
    BY <1>2, <2>4, NoteFrame
<1>3. QED
  BY <1>1, <1>2, PageAnnounced

(* An area without a type has no page states. *)
LEMMA UnsetFree ==
    ASSUME Core, NEW a \in Area, map.type[a] = "unset"
    PROVE  \A p \in Page : logged[a][p] = "free"
<1>1. a \notin inLog /\ map.pos[a] \notin asWritten
  BY CoreParts DEF EmptyPages, WrittenPages
<1>2. QED
  BY <1>1, CoreParts, NotInLog DEF Base

(* The pages of an initialised area. *)
LEMMA FreeStays ==
    ASSUME NEW a \in Area, FreePage(a), SameStatus
    PROVE  FreePage(a)'
  BY DEF FreePage, SameStatus

(* The area that was freed becomes the active one. *)
LEMMA RoomInit ==
    ASSUME Core, ops # Erased, phase = "run", NEW f \in FilePage, NEW a \in Area \ {0}, Next, ~PowerLoss,
           \/ prog = InitFor(a, PageFor(f)) /\ Quiet /\ NoActive /\ map.type[a] = "unset"
           \/ /\ prog = InitFor(a, GcEnd(f)) /\ NoOp /\ ~replaced /\ NoActive
              /\ \/ mv = "ok" /\ map.type[a] = "unset"
                 \/ mv = "setNewSummary" /\ target = a /\ FreePage(a)
    PROVE  Core' /\ Stage' /\ stored' = stored /\ ops' = ops
<1>1. FreePage(a)
  BY UnsetFree, Constants DEF FreePage
<1>2. PICK ctx \in {PageFor(f), GcEnd(f)} :
        /\ prog = InitFor(a, ctx) /\ NoOp /\ ~replaced /\ NoActive
        /\ ctx = PageFor(f) => mv = "ok"
        /\ \/ mv = "ok" /\ map.type[a] = "unset"
           \/ mv = "setNewSummary" /\ target = a
        /\ ctx = PageFor(f) \/ ctx = GcEnd(f)
  <2>1. CASE prog = InitFor(a, PageFor(f)) /\ Quiet /\ NoActive /\ map.type[a] = "unset"
    BY <2>1 DEF Quiet
  <2>2. CASE /\ prog = InitFor(a, GcEnd(f)) /\ NoOp /\ ~replaced /\ NoActive
             /\ \/ mv = "ok" /\ map.type[a] = "unset"
                \/ mv = "setNewSummary" /\ target = a /\ FreePage(a)
    <3>1. GcEnd(f) # PageFor(f)
      BY Progs, ThenFacts DEF GcEnd, PageFor, Checkpoint, NewPageFor
    <3>2. QED
      BY <2>2, <3>1
  <2>3. QED
    BY <2>1, <2>2
<1>3. IsProg(ctx)
  BY <1>2, Progs
<1>4. /\ Core' /\ OpStarts(InitAreaAs(a, "data")) /\ mv' = mv /\ OpRuns(ctx)'
  BY <1>2, <1>3, InitRuns DEF InitFor
<1>5. lastOp'.op = "initAreaAs" /\ lastOp'.area = a /\ SameStatus /\ stored' = stored
      /\ phase' = phase /\ ops' = ops
  BY <1>4, StartFrame, OpNames DEF SameRest
<1>6. FreePage(a)'
  BY <1>1, <1>5, FreeStays
<1>7. RunOp'
  BY <1>2, <1>4, <1>5, <1>6 DEF RunOp
<1>8. QED
  BY <1>4, <1>5, <1>7, IntoRun

(* A garbage area is deleted, trades places with the garbage buffer, and
   collectGarbage ends. *)
LEMMA RoomStep ==
    ASSUME Careful, Core, ops # Erased, phase = "run", prog # NoProg, RunRoom, Next, ~PowerLoss
    PROVE  Core' /\ Stage' /\ stored' = stored /\ ops' = ops
<1>1. PICK f \in FilePage :
       \/ prog = PageFor(f) /\ Quiet /\ Room
       \/ \E a \in Area \ {0} :
          \/ /\ prog = InitFor(a, PageFor(f))
             /\ Quiet /\ NoActive /\ map.type[a] = "unset"
          \/ /\ prog = Then(DeleteArea(a), AfterDel(f, a))
             /\ Quiet /\ NoActive /\ map.type[a] = "data" /\ Dead(a)
          \/ /\ prog = AfterDel(f, a)
             /\ Quiet /\ NoActive /\ map.type[a] = "unset"
          \/ /\ prog = InitFor(a, GcEnd(f))
             /\ NoOp /\ ~replaced /\ NoActive
             /\ \/ mv = "ok" /\ map.type[a] = "unset"
                \/ mv = "setNewSummary" /\ target = a /\ FreePage(a)
       \/ /\ prog = GcEnd(f)
          /\ NoOp /\ ~replaced /\ Room /\ mv \in {"ok", "setNewSummary"}
  BY DEF RunRoom
<1>2. CASE prog = PageFor(f) /\ Quiet /\ Room
  BY <1>2, NextPage, IntoRun
<1>3. ASSUME NEW a \in Area \ {0}, prog = Then(DeleteArea(a), AfterDel(f, a)),
             Quiet, NoActive, map.type[a] = "data", Dead(a)
      PROVE  Core' /\ Stage' /\ stored' = stored /\ ops' = ops
  <2>1. Core' /\ OpStarts(DeleteArea(a)) /\ mv' = "ok" /\ OpRuns(AfterDel(f, a))'
    BY <1>3, DeleteRuns, Progs
  <2>2. lastOp'.op = "deleteArea" /\ lastOp'.area = a /\ stored' = stored
        /\ phase' = phase /\ ops' = ops
    BY <2>1, StartFrame, OpNames DEF SameRest
  <2>3. RunOp'
    BY <2>1, <2>2 DEF RunOp
  <2>4. QED
    BY <2>1, <2>2, <2>3, IntoRun
<1>4. ASSUME NEW a \in Area \ {0}, prog = AfterDel(f, a), Quiet, NoActive, map.type[a] = "unset"
      PROVE  Core' /\ Stage' /\ stored' = stored /\ ops' = ops
  <2>1. PICK b : b = buffer
    OBVIOUS
  <2>2. /\ log' = Append(log, Swap(a, b)) /\ map' = Applied(map, Swap(a, b))
        /\ prog' = Then(InitAreaAs(a, "data"), Then(Checkpoint("garbage"), PageFor(f)))
        /\ UNCHANGED <<flashVars, index, sum, addr, phase, found, bounds>>
    BY <1>4, <2>1, ExecAfterDelete, Progs DEF AfterDel
  <2>3. MapEntry(Swap(a, b))
    BY <2>2, CoreParts DEF MapEntry, Grows, Swap, MapOp
  <2>4. /\ Core' /\ SameTx /\ NoOp' /\ SameRest /\ stored' = stored
        /\ mv' = "ok" /\ map'.type = map.type /\ map'.active = map.active
    BY <1>4, <2>1, <2>3, SwapDeleted DEF Quiet
  <2>5. prog' = InitFor(a, GcEnd(f)) /\ ~replaced' /\ NoActive' /\ map'.type[a] = "unset"
    BY <1>4, <2>2, <2>4 DEF InitFor, GcEnd, SameTx, NoActive, Quiet
  <2>6. RunRoom'
    BY <2>4, <2>5 DEF RunRoom
  <2>7. QED
    BY <2>4, <2>6, IntoRun DEF SameRest
<1>5. CASE prog = GcEnd(f) /\ NoOp /\ ~replaced /\ Room /\ mv \in {"ok", "setNewSummary"}
  <2>1. NoteEntry(Checkpoint("garbage")) /\ prog' = PageFor(f)
    BY <1>5, ExecNoteEntry, Progs, NoteOps, CoreParts DEF GcEnd
  <2>2. /\ Core' /\ NoteEffect /\ NoOp' /\ SameTx /\ mv' = "ok" /\ buffer' = buffer
        /\ stored' = stored
    BY <1>5, <2>1, GarbageCheckpoint
  <2>3. Room' /\ Quiet' /\ phase' = phase /\ ops' = ops
    BY <1>5, <2>2, NoteFrame, RoomStays DEF Quiet, SameTx
  <2>4. RunRoom'
    BY <2>1, <2>3 DEF RunRoom
  <2>5. QED
    BY <2>2, <2>3, <2>4, IntoRun
<1>6. QED
  BY <1>1, <1>2, <1>3, <1>4, <1>5, RoomInit
-----------------------------------------------------------------------------
(* A call starts.                                                          *)

(* Moving the valid data of an area, as a list of instructions. *)
LEMMA MovingIs ==
    ASSUME NEW a, NEW b, b = buffer, NEW f, NEW s, s = Cleaned(SummaryOf(map, sum, a)),
           NEW c, c = moveValidData(a, b, 0), IsProg(c)
    PROVE  Cat(MovingGarbage(a, "data"), PageFor(f))
            = Then(MoveValidData(a), c \o Move1(f, a, b, s))
<1> DEFINE x == Swap(a, b)
           y == DeleteAreaContents(a, b)
           z == AfterMove
           u == SetStatusBlock(a, s)
           v == InitAreaAs(a, "data")
           w == Checkpoint("garbage")
           m == MoveValidData(a)
           six == <<x, y, z, u, v, w>>
<1>1. MovingGarbage(a, "data") = Cat(Cat(<<m>>, c), six)
  BY DEF MovingGarbage, Cat, buffer
<1>p. IsProg(PageFor(f)) /\ IsProg(<<m>>)
  BY Progs, CatFacts
<1>2. IsProg(six) /\ Cat(six, PageFor(f)) = Move1(f, a, b, s)
  <2> HIDE DEF x, y, z, u, v, w
  <2>1. IsProg(six)
    BY <1>p, ThenSix
  <2>2. six \o PageFor(f) = Then(x, Then(y, Then(z, Then(u, Then(v, Then(w, PageFor(f)))))))
    BY <1>p, ThenSix
  <2>3. Then(x, Then(y, Then(z, Then(u, Then(v, Then(w, PageFor(f))))))) = Move1(f, a, b, s)
    BY DEF x, y, z, u, v, w, Move1, Move2, Move3, Move4, InitFor, GcEnd
  <2>4. QED
    BY <2>1, <2>2, <2>3 DEF Cat
<1> HIDE DEF six
<1> DEFINE P == PageFor(f)
           M == Move1(f, a, b, s)
           one == <<m>>
<1>3. Cat(one, Cat(c, M)) = Then(m, Cat(c, M))
  <2>1. IsProg(Cat(c, M))
    BY Progs, CatFacts
  <2> HIDE DEF m, M
  <2>2. QED
    BY <2>1, CatFacts
<1>4. Cat(Cat(Cat(one, c), six), P) = Cat(one, Cat(c, M))
  <2>1. IsProg(one) /\ IsProg(P)
    BY <1>p
  <2>2. M = Cat(six, P)
    BY <1>2
  <2> HIDE DEF one, P, M
  <2>3. /\ Cat(Cat(Cat(one, c), six), P) = Cat(Cat(one, c), Cat(six, P))
        /\ Cat(Cat(one, c), Cat(six, P)) = Cat(one, Cat(c, Cat(six, P)))
    BY <2>1, <1>2, CatFacts
  <2>4. QED
    BY <2>2, <2>3
<1>5. Cat(MovingGarbage(a, "data"), P) = Then(m, Cat(c, M))
  BY <1>1, <1>3, <1>4
<1>6. QED
  BY <1>5 DEF Cat

(* The copies of the used pages from page n on. *)
LEMMA CopiesFrom ==
    ASSUME NEW a, NEW b, NEW n \in Nat, SummaryOf(map, sum, a) \in [Page -> SummaryEntry]
    PROVE  \/ /\ moveValidData(a, b, n) = Nil
              /\ \A p \in Page : SummaryOf(map, sum, a)[p] = "used" => p < n
           \/ \E q \in Page :
              /\ moveValidData(a, b, n) = <<CopyPage(a, b, q)>>
              /\ SummaryOf(map, sum, a)[q] = "used" /\ n <= q
              /\ \A p \in Page : (SummaryOf(map, sum, a)[p] = "used" /\ p < q) => p < n
<1> DEFINE rest == {q \in Pages(SummaryOf(map, sum, a), "used") : q >= n}
<1>1. moveValidData(a, b, n) = IF rest = {} THEN <<>> ELSE <<CopyPage(a, b, Min(rest))>>
  BY DEF moveValidData
<1>2. rest = {p \in Page : SummaryOf(map, sum, a)[p] = "used" /\ p >= n}
  BY DEF Pages
<1>3. CASE rest = {}
  <2>1. \A p \in Page : SummaryOf(map, sum, a)[p] = "used" => p < n
    BY <1>2, <1>3, Constants
  <2>2. moveValidData(a, b, n) = Nil
    BY <1>1, <1>3 DEF Nil
  <2>3. QED
    BY <2>1, <2>2
<1>4. CASE rest # {}
  <2>1. rest \in SUBSET Nat
    BY <1>2, Constants
  <2> DEFINE q == Min(rest)
  <2>2. q \in rest /\ \A y \in rest : q <= y
    <3> HIDE DEF rest
    <3>1. QED
      BY <1>4, <2>1, MinOfNat
  <2>3. moveValidData(a, b, n) = <<CopyPage(a, b, q)>>
    BY <1>1, <1>4
  <2> HIDE DEF q
  <2>4. q \in Page /\ SummaryOf(map, sum, a)[q] = "used" /\ n <= q
    BY <1>2, <2>2, Constants
  <2>5. \A p \in Page : (SummaryOf(map, sum, a)[p] = "used" /\ p < q) => p < n
    <3> HIDE DEF rest
    <3>1. ASSUME NEW p \in Page, SummaryOf(map, sum, a)[p] = "used", p < q, p >= n
          PROVE  FALSE
      <4>1. p \in rest
        BY <3>1, <1>2
      <4>2. QED
        BY <4>1, <3>1, <2>2, <2>4, Constants
    <3>2. QED
      BY <3>1, Constants
  <2>6. QED
    BY <2>3, <2>4, <2>5
<1>5. QED
  BY <1>3, <1>4
(* What Start leaves alone. *)
LEMMA StartCall ==
    ASSUME Core, Ready, Quiet, Room, NEW p, Start(p)
    PROVE  /\ Core' /\ SameState /\ Quiet' /\ Room' /\ prog' = p /\ phase' = "run" /\ ops' = ops + 1
           /\ ops' # Erased /\ stored' = stored
<1>1. /\ UNCHANGED <<flashVars, index, log, ramVars>> /\ prog' = p /\ phase' = phase
      /\ ops' = ops + 1 /\ phase = "run" /\ ops < MaxOps
  BY DEF Start, Ready, Idle
<1>2. ops \in 0 .. MaxOps /\ MaxOps \in Nat
  BY CoreParts, Constants DEF InFlash
<1>3. ops' \in 0 .. MaxOps /\ ops' # Erased
  BY <1>1, <1>2 DEF Erased
<1>4. Core' /\ SameState
  BY <1>1, <1>3, StateSame
<1>5. Quiet' /\ Room'
  BY <1>4, RoomStays DEF SameState, SameMove, SameTx, Quiet
<1>6. QED
  BY <1>1, <1>3, <1>4, <1>5 DEF SameState

(* An area that may be collected. *)
LEMMA Garbage ==
    ASSUME Core, Quiet, NEW a \in findNextBestArea("data")
    PROVE  /\ a \in Area \ {0} /\ map.type[a] = "data" /\ map.status[a] # "active"
           /\ \E p \in Page : SummaryOf(map, sum, a)[p] = "dirty"
<1>1. ASSUME NEW b \in Collectable
      PROVE  b \in Area \ {0} /\ map.type[b] = "data" /\ map.status[b] # "active"
  <2>1. b \in Area /\ map.status[b] # "active" /\ map.type[b] \in {"data", "index"}
    BY <1>1 DEF Collectable
  <2>2. b \notin {0, buffer}
    BY <2>1, CoreParts DEF FixedAreas
  <2>3. map.type[b] \in {"unset", "data"}
    BY <2>1, <2>2, CoreParts DEF OtherAreas, AreaOK
  <2>4. QED
    BY <2>1, <2>2, <2>3
<1>2. ASSUME NEW b \in Collectable, Dirt(b) # 0
      PROVE  \E p \in Page : SummaryOf(map, sum, b)[p] = "dirty"
  <2>1. Pages(SummaryOf(map, sum, b), "dirty") # {}
    BY <1>2, FS_EmptySet DEF Dirt
  <2>2. QED
    BY <2>1 DEF Pages
<1> DEFINE ready == {b \in Collectable :
                    /\ Dirt(b) = PagesPerArea
                    /\ \/ map.deletions < AreasNo
                       \/ map.erasecount[b] < map.deletions \div AreasNo}
           typed == {b \in Collectable : map.type[b] = "data" /\ Dirt(b) > 0}
<1>3. a \in IF ready # {} THEN {Min(ready)}
            ELSE {b \in typed : \A c \in typed : Dirt(c) <= Dirt(b)}
  BY DEF findNextBestArea
<1>4. CASE ready # {}
  <2>1. ready \in SUBSET Nat
    BY Constants DEF Collectable
  <2>2. Min(ready) \in ready
    <3> HIDE DEF ready
    <3>1. QED
      BY <1>4, <2>1, MinOfNat
  <2>3. a \in Collectable /\ Dirt(a) = PagesPerArea
    BY <1>3, <1>4, <2>2
  <2>4. Dirt(a) # 0
    BY <2>3, Constants
  <2>5. QED
    BY <2>3, <2>4, <1>1, <1>2
<1>5. CASE ready = {}
  <2>1. a \in Collectable /\ Dirt(a) > 0
    BY <1>3, <1>5
  <2>2. Dirt(a) # 0
    BY <2>1
  <2>3. QED
    BY <2>1, <2>2, <1>1, <1>2
<1>6. QED
  BY <1>4, <1>5

(* The area that is moved is ready for it. *)
LEMMA ReadyToMove ==
    ASSUME Core, Quiet, NoActive, NEW a \in findNextBestArea("data"),
           Pages(SummaryOf(map, sum, a), "used") # {}
    PROVE  MoveReady(a, Cleaned(SummaryOf(map, sum, a)))
<1> DEFINE s == Cleaned(SummaryOf(map, sum, a))
<1>1. /\ a \in Area \ {0} /\ map.type[a] = "data" /\ map.status[a] # "active"
      /\ \E p \in Page : SummaryOf(map, sum, a)[p] = "dirty"
  BY Garbage
<1>2. NoOp /\ mv = "ok" /\ ~Deleting(a) /\ map.status[a] # "empty"
  BY <1>1, IdleParts DEF Quiet
<1>3. SummaryOf(map, sum, a) = ram[a] /\ ram[a] = logged[a] /\ logged[a] \in [Page -> SummaryEntry]
  BY <1>1, <1>2, CoreParts DEF SumOK
<1>4. map.status[a] = "closed"
  BY <1>1, <1>2, CoreParts DEF AreaStatus
<1>5. map.pos[a] \notin asWritten
  <2>1. PICK p \in Page : logged[a][p] = "used"
    BY <1>3 DEF Pages
  <2>2. QED
    BY <2>1, <1>1, <1>2, CoreParts DEF WrittenPages
<1>6. s \in [Page -> {"free", "used"}] /\ \A p \in Page : logged[a][p] = "used" <=> s[p] = "used"
  BY <1>3 DEF Cleaned
<1>7. HasFree(s)
  BY <1>1, <1>3 DEF HasFree, Cleaned
<1>8. QED
  BY <1>1, <1>4, <1>5, <1>6, <1>7 DEF MoveReady
(* Room for a page: an area that is active, that is empty, or that garbage
   collection frees. *)
LEMMA RoomFor ==
    ASSUME Core, Quiet, NEW r \in findWritableArea("data")
    PROVE  \/ r = Nil
           \/ \E a \in Area \ {0} : r = <<InitAreaAs(a, "data")>> /\ NoActive /\ map.type[a] = "unset"
           \/ \E a \in Area \ {0} :
                /\ r = <<DeleteArea(a), AfterDelete(a, "data")>> /\ NoActive
                /\ map.type[a] = "data" /\ Dead(a)
           \/ \E a \in Area \ {0} :
                /\ r = MovingGarbage(a, "data") /\ NoActive
                /\ MoveReady(a, Cleaned(SummaryOf(map, sum, a)))
<1> DEFINE fresh == {a \in Allocatable : ~Worn(a)}
           T == IF fresh # {} THEN fresh ELSE Allocatable
           best == Min(T)
<1>1. r \in IF map.active["data"] # 0 THEN {<<>>}
            ELSE IF map.used < AreasNo - MinFreeAreas /\ Allocatable # {}
                 THEN {<<InitAreaAs(best, "data")>>}
                 ELSE collectGarbage("data")
  BY DEF findWritableArea
<1>2. CASE map.active["data"] # 0
  BY <1>1, <1>2 DEF Nil
<1>3. CASE map.active["data"] = 0 /\ map.used < AreasNo - MinFreeAreas /\ Allocatable # {}
  <2>1. r = <<InitAreaAs(best, "data")>>
    BY <1>1, <1>3
  <2>2. best \in T /\ T \subseteq Allocatable
    <3>1. T \in SUBSET Nat /\ T # {} /\ T \subseteq Allocatable
      BY <1>3, Constants DEF Allocatable
    <3> HIDE DEF T
    <3>2. QED
      BY <3>1, MinOfNat
  <2> HIDE DEF best, T
  <2>3. best \in Area /\ map.status[best] = "empty"
    BY <2>2 DEF Allocatable
  <2>4. best \notin {0, buffer}
    BY <2>3, CoreParts DEF FixedAreas
  <2>5. map.type[best] = "unset"
    BY <2>3, <2>4, CoreParts, IdleParts DEF OtherAreas, AreaOK, Quiet
  <2>6. QED
    BY <2>1, <2>3, <2>4, <2>5, <1>3 DEF NoActive
<1>4. CASE map.active["data"] = 0 /\ ~(map.used < AreasNo - MinFreeAreas /\ Allocatable # {})
  <2>1. r \in collectGarbage("data") /\ NoActive
    BY <1>1, <1>4 DEF NoActive
  <2>2. CASE findNextBestArea("data") = {}
    BY <2>1, <2>2 DEF collectGarbage, Nil
  <2>3. CASE findNextBestArea("data") # {}
    <3>1. PICK a \in findNextBestArea("data") :
            r = IF Pages(SummaryOf(map, sum, a), "used") = {}
                THEN <<DeleteArea(a), AfterDelete(a, "data")>>
                ELSE IF buffer = 0 THEN <<>> ELSE MovingGarbage(a, "data")
      BY <2>1, <2>3 DEF collectGarbage, buffer
    <3>2. a \in Area \ {0} /\ map.type[a] = "data" /\ buffer # 0
      BY Garbage, CoreParts DEF FixedAreas
    <3>3. CASE Pages(SummaryOf(map, sum, a), "used") = {}
      <4>1. ram[a] = logged[a] /\ SummaryOf(map, sum, a) = ram[a]
        BY <3>2, CoreParts, IdleParts DEF SumOK, Quiet
      <4>2. Dead(a)
        BY <3>3, <4>1 DEF Dead, Pages
      <4>3. QED
        BY <2>1, <3>1, <3>2, <3>3, <4>2
    <3>4. CASE Pages(SummaryOf(map, sum, a), "used") # {}
      BY <2>1, <3>1, <3>2, <3>4, ReadyToMove
    <3>5. QED
      BY <3>3, <3>4
  <2>4. QED
    BY <2>2, <2>3
<1>5. QED
  BY <1>2, <1>3, <1>4

(* A page is written. *)
LEMMA CallWrite ==
    ASSUME Core, Quiet, Room, NEW f \in FilePage, Write(f)
    PROVE  Core' /\ Stage' /\ stored' = stored /\ ops' = ops + 1
<1>1. PICK r \in findWritableArea("data") : Ready /\ Start(r \o <<NewPageFor(f)>>)
  BY DEF Write
<1>2. <<NewPageFor(f)>> = PageFor(f)
  BY ThenTuples DEF PageFor, NoProg
<1>3. /\ Core' /\ SameState /\ Quiet' /\ Room' /\ prog' = Cat(r, PageFor(f)) /\ phase' = "run"
      /\ ops' = ops + 1 /\ ops' # Erased /\ stored' = stored
  BY <1>1, <1>2, StartCall DEF Cat
<1>4. map' = map /\ SameStatus
  BY <1>3 DEF SameState
<1>5. (NoActive' <=> NoActive) /\ \A a : Dead(a)' <=> Dead(a)
  BY <1>4, RoomStays
<1>p. IsProg(PageFor(f))
  BY Progs
<1>6. CASE r = Nil
  <2>1. prog' = PageFor(f)
    BY <1>3, <1>6, <1>p, CatFacts
  <2>2. RunRoom'
    BY <1>3, <2>1 DEF RunRoom
  <2>3. QED
    BY <1>3, <2>2, IntoRun
<1>7. ASSUME NEW a \in Area \ {0}, r = <<InitAreaAs(a, "data")>>, NoActive, map.type[a] = "unset"
      PROVE  Core' /\ Stage' /\ stored' = stored /\ ops' = ops + 1
  <2>1. prog' = InitFor(a, PageFor(f))
    BY <1>3, <1>7, <1>p, ThenOne DEF InitFor, Cat
  <2>2. NoActive' /\ map'.type[a] = "unset"
    BY <1>4, <1>5, <1>7
  <2>3. RunRoom'
    BY <1>3, <2>1, <2>2 DEF RunRoom
  <2>4. QED
    BY <1>3, <2>3, IntoRun
<1>8. ASSUME NEW a \in Area \ {0}, r = <<DeleteArea(a), AfterDelete(a, "data")>>, NoActive,
             map.type[a] = "data", Dead(a)
      PROVE  Core' /\ Stage' /\ stored' = stored /\ ops' = ops + 1
  <2> DEFINE x == DeleteArea(a)
             y == AfterDelete(a, "data")
  <2>1. prog' = Then(x, Then(y, PageFor(f)))
    <3>1. prog' = <<x, y>> \o PageFor(f)
      BY <1>3, <1>8 DEF Cat
    <3> HIDE DEF x, y
    <3>2. QED
      BY <3>1, <1>p, ThenTwo
  <2>2. prog' = Then(DeleteArea(a), AfterDel(f, a))
    BY <2>1 DEF AfterDel
  <2>3. NoActive' /\ map'.type[a] = "data" /\ Dead(a)'
    BY <1>4, <1>5, <1>8
  <2>4. RunRoom'
    BY <1>3, <2>2, <2>3 DEF RunRoom
  <2>5. QED
    BY <1>3, <2>4, IntoRun
<1>9. ASSUME NEW a \in Area \ {0}, r = MovingGarbage(a, "data"), NoActive,
             MoveReady(a, Cleaned(SummaryOf(map, sum, a)))
      PROVE  Core' /\ Stage' /\ stored' = stored /\ ops' = ops + 1
  <2>1. PICK b, s : b = buffer /\ s = Cleaned(SummaryOf(map, sum, a))
    OBVIOUS
  <2>2. s \in [Page -> {"free", "used"}] /\ MoveReady(a, s) /\ b \in Area
    BY <1>9, <2>1, CoreParts DEF MoveReady
  <2>3. IsProg(moveValidData(a, b, 0))
    <3>1. SummaryOf(map, sum, a) \in [Page -> SummaryEntry]
      BY CoreParts
    <3>2. QED
      BY <3>1, CopiesFrom, CatFacts
  <2>4. prog' = Then(MoveValidData(a), moveValidData(a, b, 0) \o Move1(f, a, b, s))
    BY <1>3, <1>9, <2>1, <2>3, MovingIs
  <2>5. moveValidData(a, b, 0)' = moveValidData(a, b, 0)
    BY <1>3 DEF SameState, moveValidData, SummaryOf
  <2>6. MoveReady(a, s)'
    BY <2>2, <1>3, <1>4, <1>5 DEF MoveReady, SameState, SameStatus
  <2>7. (prog = Then(MoveValidData(a), moveValidData(a, b, 0) \o Move1(f, a, b, s)))'
    BY <2>4, <2>5
  <2>8. b = buffer'
    BY <2>1, <1>3 DEF SameState
  <2>9. RunMove'
    BY <1>3, <2>2, <2>6, <2>7, <2>8 DEF RunMove
  <2>10. QED
    BY <1>3, <2>9, IntoRun
<1>10. QED
  BY <1>6, <1>7, <1>8, <1>9, RoomFor

(* A page is cut off a file. *)
LEMMA CallDelete ==
    ASSUME Core, Quiet, Room, NEW f \in FilePage, Delete(f)
    PROVE  Core' /\ Stage' /\ stored' = stored /\ ops' = ops + 1
<1>1. PICK old \in Addr : old = addr[f] /\ old # NoAddr
  BY CoreParts DEF FilesOK, Delete
<1> DEFINE x == ReplacePage(NoAddr, old)
           y == UpdateInode(f, NoAddr)
<1>2. Ready /\ Start(<<x, y>> \o Retire(old))
  BY <1>1 DEF Delete
<1>3. Retire(old) = RetireTail(old)
  BY RetireIs
<1>4. /\ Core' /\ SameState /\ Quiet' /\ Room' /\ prog' = <<x, y>> \o RetireTail(old)
      /\ phase' = "run" /\ ops' = ops + 1 /\ ops' # Erased /\ stored' = stored
  BY <1>2, <1>3, StartCall
<1>5. prog' = Then(x, Then(y, RetireTail(old)))
  <2>1. IsProg(RetireTail(old))
    BY Progs
  <2>2. prog' = <<x, y>> \o RetireTail(old)
    BY <1>4
  <2> HIDE DEF x, y
  <2>3. QED
    BY <2>1, <2>2, ThenTwo
<1>6. prog' = Then(ReplacePage(NoAddr, old), Tx4(f, NoAddr, old))
  BY <1>5 DEF Tx4
<1>7. old = addr'[f]
  BY <1>1, <1>4 DEF SameState
<1>8. RunTx'
  BY <1>1, <1>4, <1>6, <1>7 DEF RunTx
<1>9. QED
  BY <1>4, <1>8, IntoRun

(* The caches are flushed. *)
LEMMA CallFlush ==
    ASSUME Core, Quiet, Room, Flush
    PROVE  Core' /\ Stage' /\ stored' = stored /\ ops' = ops + 1
<1>1. Ready /\ Start(<<CommitSuperIndex, Checkpoint("summaryCache"), ClearJournal>>)
  BY DEF Flush
<1>2. <<CommitSuperIndex, Checkpoint("summaryCache"), ClearJournal>> = Then(CommitSuperIndex, CpSum)
  BY ThenTuples DEF CpSum, Clear, NoProg
<1>3. /\ Core' /\ Quiet' /\ Room' /\ prog' = Then(CommitSuperIndex, CpSum)
      /\ phase' = "run" /\ ops' = ops + 1 /\ ops' # Erased /\ stored' = stored
  BY <1>1, <1>2, StartCall
<1>4. RunFlush'
  BY <1>3 DEF RunFlush
<1>5. QED
  BY <1>3, <1>4, IntoRun

(* Between calls. *)
LEMMA IdleStep ==
    ASSUME Core, phase = "run", prog = NoProg, Quiet, Room, Next, ~PowerLoss
    PROVE  Core' /\ Stage' /\ stored' = stored /\ ops' = ops + 1
<1>1. prog = <<>>
  BY DEF NoProg
<1>2. ~Step
  BY <1>1, NoStep
<1>3. (\E f \in FilePage : Write(f) \/ Delete(f)) \/ Flush
  BY <1>2 DEF Next
<1>4. QED
  BY <1>3, CallWrite, CallDelete, CallFlush
-----------------------------------------------------------------------------
(* The pages of an area are moved.                                         *)

(* The next copy, or the swap when there is none. *)
LEMMA NextCopy ==
    ASSUME Core, NoOp, NEW f \in FilePage, NEW a \in Area \ {0}, NEW b \in Area,
           NEW s \in [Page -> {"free", "used"}], NEW n \in Nat,
           prog' = moveValidData(a, b, n) \o Move1(f, a, b, s),
           Moving(a, s)', buffer' = b, \A p \in Page : logged[a][p] = "used" <=> s[p] = "used",
           \A p \in Page : flash'[map'.pos[b]][p] =
                IF p < n /\ s[p] = "used" THEN flash'[map'.pos[a]][p] ELSE Erased,
           phase' = "run", ops' # Erased
    PROVE  Stage'
<1>1. /\ SummaryOf(map, sum, a) \in [Page -> SummaryEntry]
      /\ \A p \in Page : SummaryOf(map, sum, a)[p] = "used" <=> s[p] = "used"
  <2>1. a \in Area /\ ~Deleting(a)
    BY IdleParts
  <2>2. ram[a] = logged[a] /\ SummaryOf(map, sum, a) = ram[a] /\ ram[a] \in [Page -> SummaryEntry]
    BY <2>1, CoreParts DEF SumOK
  <2>3. QED
    BY <2>2
<1>p. IsProg(Move1(f, a, b, s))
  BY Progs
<1>n. \A p \in Page : p \in Nat /\ p < PagesPerArea
  BY Constants DEF Page
<1>2. CASE /\ moveValidData(a, b, n) = Nil
           /\ \A p \in Page : SummaryOf(map, sum, a)[p] = "used" => p < n
  <2>1. prog' = Move1(f, a, b, s)
    BY <1>2, <1>p, CatFacts DEF Cat
  <2>2. CopiedUpto(a, b, s, PagesPerArea)'
    BY <1>1, <1>2, <1>n DEF CopiedUpto
  <2>3. RunMove'
    BY <2>1, <2>2 DEF RunMove
  <2>4. QED
    BY <2>3, IntoRun
<1>3. ASSUME NEW q \in Page, moveValidData(a, b, n) = <<CopyPage(a, b, q)>>,
             SummaryOf(map, sum, a)[q] = "used", n <= q,
             \A p \in Page : (SummaryOf(map, sum, a)[p] = "used" /\ p < q) => p < n
      PROVE  Stage'
  <2>1. prog' = Then(CopyPage(a, b, q), Move1(f, a, b, s))
    BY <1>3, <1>p, ThenOne
  <2>2. CopiedUpto(a, b, s, q)'
    <3>1. \A p \in Page : p < n /\ s[p] = "used" <=> p < q /\ s[p] = "used"
      BY <1>1, <1>3, <1>n
    <3>2. QED
      BY <3>1 DEF CopiedUpto
  <2>3. s[q] = "used"
    BY <1>1, <1>3
  <2>4. RunMove'
    BY <2>1, <2>2, <2>3 DEF RunMove
  <2>5. QED
    BY <2>4, IntoRun
<1>4. QED
  BY <1>1, <1>2, <1>3, CopiesFrom

(* A move is announced. *)
LEMMA MoveAnnounced ==
    ASSUME Core, NEW f \in FilePage, NEW a \in Area \ {0}, NEW b \in Area, b = buffer,
           NEW s \in [Page -> {"free", "used"}], Quiet, MoveReady(a, s),
           prog = Then(MoveValidData(a), moveValidData(a, b, 0) \o Move1(f, a, b, s)),
           Next, ~PowerLoss, phase = "run", ops # Erased
    PROVE  Core' /\ Stage' /\ stored' = stored /\ ops' = ops
<1>1. NoOp /\ mv = "ok"
  BY DEF Quiet
<1>2. SummaryOf(map, sum, a) \in [Page -> SummaryEntry]
  BY CoreParts
<1>3. IsProg(moveValidData(a, b, 0) \o Move1(f, a, b, s))
  <2>1. IsProg(moveValidData(a, b, 0))
    BY <1>2, CopiesFrom, CatFacts
  <2>2. IsProg(Move1(f, a, b, s))
    BY Progs
  <2>3. QED
    BY <2>1, <2>2, CatFacts DEF Cat
<1>4. NoteEntry(MoveValidData(a)) /\ prog' = moveValidData(a, b, 0) \o Move1(f, a, b, s)
  BY <1>3, ExecNoteEntry, NoteOps, CoreParts
<1>5. /\ Core' /\ NoteEffect /\ NoOp' /\ SameTx /\ buffer' = buffer /\ stored' = stored
      /\ mv' = "moveValidData" /\ target' = a
  BY <1>4, MoveStart
<1>6. /\ SameStatus /\ SameRest /\ map' = map /\ flash' = flash /\ asWritten' = asWritten
      /\ logged' = logged /\ phase' = phase /\ ops' = ops
  BY <1>5, NoteFrame
<1>7. MoveReady(a, s)'
  BY <1>6, RoomStays DEF MoveReady
<1>8. \A p \in Page : flash[map.pos[b]][p] = Erased
  BY <1>1, CoreParts DEF BufferPages, ErasedArea
<1>9. \A p \in Page : flash'[map'.pos[b]][p] =
            IF p < 0 /\ s[p] = "used" THEN flash'[map'.pos[a]][p] ELSE Erased
  BY <1>6, <1>8, Constants DEF Page
<1>10. Moving(a, s)'
  BY <1>5, <1>7 DEF Moving
<1>11. \A p \in Page : logged[a][p] = "used" <=> s[p] = "used"
  BY DEF MoveReady
<1>12. Stage'
  BY <1>1, <1>4, <1>5, <1>6, <1>9, <1>10, <1>11, NextCopy
<1>13. QED
  BY <1>5, <1>6, <1>12

(* A page is copied. *)
LEMMA MoveCopies ==
    ASSUME Core, NEW f \in FilePage, NEW a \in Area \ {0}, NEW b \in Area, b = buffer,
           NEW s \in [Page -> {"free", "used"}], NEW q \in Page, s[q] = "used",
           CopiedUpto(a, b, s, q), Moving(a, s),
           prog = Then(CopyPage(a, b, q), Move1(f, a, b, s)),
           Next, ~PowerLoss, phase = "run", ops # Erased
    PROVE  Core' /\ Stage' /\ stored' = stored /\ ops' = ops
<1>1. NoOp /\ mv = "moveValidData" /\ target = a /\ MoveReady(a, s)
  BY DEF Moving
<1>2. a # b /\ map.pos[a] # map.pos[b] /\ map.pos[a] \in Pos /\ map.pos[b] \in Pos
  BY <1>1, Elsewhere, CoreParts DEF MoveReady, FixedAreas
<1>3. /\ flash' = [flash EXCEPT ![map.pos[b]][q] = flash[map.pos[a]][q]]
      /\ prog' = moveValidData(a, b, q + 1) \o Move1(f, a, b, s)
      /\ UNCHANGED <<asWritten, bad, index, log, ramVars, phase, found, bounds>>
  <2>1. PICK r : r = Move1(f, a, b, s) /\ IsProg(r)
    BY Progs
  <2>2. prog = Then(CopyPage(a, b, q), r) /\ IsProg(r) /\ Next /\ ~PowerLoss
    BY <2>1
  <2>3. /\ flash' = PageCopied(a, b, q)
        /\ prog' = moveValidData(a, b, q + 1) \o r
        /\ UNCHANGED <<asWritten, bad, index, log, ramVars, phase, found, bounds>>
    BY <2>2, ExecCopyPage
  <2>4. QED
    BY <2>1, <2>3 DEF PageCopied
<1>4. flash \in [Pos -> [Page -> Erased .. MaxOps]] /\ asWritten \subseteq Pos
  BY CoreParts DEF InFlash
<1>5. FlashStep /\ asWritten' = asWritten /\ map' = map
  BY <1>2, <1>3, <1>4 DEF FlashStep, ramVars, bounds
<1>6. /\ \A p \in Pos : p # map.pos[b] => flash'[p] = flash[p]
      /\ flash'[map.pos[b]] = [flash[map.pos[b]] EXCEPT ![q] = flash[map.pos[a]][q]]
  BY <1>2, <1>3, <1>4
<1>7. Core' /\ SameStatus /\ SameMove /\ SameTx /\ NoOp' /\ SameRest /\ stored' = stored
      /\ buffer' = buffer
  BY <1>1, <1>5, <1>6, CopyStep
<1>8. MoveReady(a, s)'
  BY <1>1, <1>5, <1>7, RoomStays DEF MoveReady, SameStatus
<1>9. Moving(a, s)'
  BY <1>1, <1>7, <1>8 DEF Moving, SameMove
<1>10. \A p \in Page : flash'[map'.pos[b]][p] =
            IF p < q + 1 /\ s[p] = "used" THEN flash'[map'.pos[a]][p] ELSE Erased
  <2> SUFFICES ASSUME NEW p \in Page
               PROVE  flash'[map.pos[b]][p] =
                        IF p < q + 1 /\ s[p] = "used" THEN flash'[map.pos[a]][p] ELSE Erased
    BY <1>5
  <2>1. flash'[map.pos[a]] = flash[map.pos[a]]
    BY <1>2, <1>6
  <2>2. p \in Nat /\ q \in Nat
    BY Constants DEF Page
  <2>3. CASE p = q
    BY <1>2, <1>4, <1>6, <2>1, <2>2, <2>3
  <2>4. CASE p # q
    <3>1. flash'[map.pos[b]][p] = flash[map.pos[b]][p]
      BY <1>2, <1>4, <1>6, <2>4
    <3>2. p < q + 1 <=> p < q
      BY <2>2, <2>4
    <3>3. QED
      BY <2>1, <3>1, <3>2 DEF CopiedUpto
  <2>5. QED
    BY <2>3, <2>4
<1>11. \A p \in Page : logged[a][p] = "used" <=> s[p] = "used"
  BY <1>1 DEF MoveReady
<1>12. q + 1 \in Nat
  BY Constants DEF Page
<1>x. PICK n : n = q + 1
  OBVIOUS
<1>y. /\ n \in Nat /\ prog' = moveValidData(a, b, n) \o Move1(f, a, b, s)
      /\ \A p \in Page : flash'[map'.pos[b]][p] =
            IF p < n /\ s[p] = "used" THEN flash'[map'.pos[a]][p] ELSE Erased
      /\ Moving(a, s)' /\ buffer' = b /\ phase' = "run" /\ ops' # Erased
  BY <1>1, <1>3, <1>7, <1>9, <1>10, <1>12, <1>x DEF SameRest
<1>13. Stage'
  BY <1>1, <1>11, <1>y, NextCopy, SMTT(30)
<1>14. QED
  BY <1>7, <1>13 DEF SameRest

(* The swap, and the erase of the old pages under their new number. *)
LEMMA MoveSwaps ==
    ASSUME Careful, Core, NEW f \in FilePage, NEW a \in Area \ {0}, NEW b \in Area, b = buffer,
           NEW s \in [Page -> {"free", "used"}],
           \/ prog = Move1(f, a, b, s) /\ CopiedUpto(a, b, s, PagesPerArea) /\ Moving(a, s)
           \/ prog = Move2(f, a, b, s) /\ Moved(a, s, "swappedPosition"),
           Next, ~PowerLoss, phase = "run", ops # Erased
    PROVE  Core' /\ Stage' /\ stored' = stored /\ ops' = ops
<1>1. CASE prog = Move1(f, a, b, s) /\ CopiedUpto(a, b, s, PagesPerArea) /\ Moving(a, s)
  <2>1. NoOp /\ mv = "moveValidData" /\ target = a /\ MoveReady(a, s)
    BY <1>1 DEF Moving
  <2>2. MapEntry(Swap(a, b)) /\ prog' = Move2(f, a, b, s)
    <3>1. Swap(a, b).op \in MapOp
      BY DEF Swap, MapOp
    <3>2. QED
      BY <1>1, <3>1, ExecMapEntry, Progs, CoreParts DEF Move1
  <2>3. \A p \in Page : flash[map.pos[b]][p] =
                IF s[p] = "used" THEN flash[map.pos[a]][p] ELSE Erased
    <3>1. \A p \in Page : p < PagesPerArea
      BY Constants DEF Page
    <3>2. QED
      BY <1>1, <3>1 DEF CopiedUpto
  <2>4. /\ Core' /\ SameTx /\ NoOp' /\ SameRest /\ stored' = stored /\ buffer' = b
        /\ mv' = "swappedPosition" /\ target' = a /\ CleanOK(a, s)' /\ HasFree(s)
    BY <2>1, <2>2, <2>3, SwapMove
  <2>5. Moved(a, s, "swappedPosition")'
    BY <2>4 DEF Moved
  <2>6. RunMove'
    BY <2>2, <2>4, <2>5 DEF RunMove
  <2>7. QED
    BY <2>4, <2>6, IntoRun DEF SameRest
<1>2. CASE prog = Move2(f, a, b, s) /\ Moved(a, s, "swappedPosition")
  <2>1. NoOp /\ mv = "swappedPosition" /\ target = a /\ CleanOK(a, s) /\ HasFree(s)
    BY <1>2 DEF Moved
  <2>2. a # b
    BY <2>1, CoreParts DEF MoveOK, FixedAreas
  <2>3. /\ Core' /\ OpStarts(DeleteAreaContents(a, b)) /\ mv' = "deletedOldArea"
        /\ OpRuns(Move3(f, a, s))'
    BY <1>2, <2>1, ContentsRuns, Progs DEF Move2
  <2>4. /\ target' = target /\ addr' = addr /\ map' = map /\ flash' = flash /\ stored' = stored
        /\ lastOp' = DeleteAreaContents(a, b) /\ phase' = phase /\ ops' = ops
    BY <2>3, StartFrame DEF SameRest
  <2>5. CleanOK(a, s)'
    BY <2>1, <2>4 DEF CleanOK
  <2>6. lastOp'.op = "deleteAreaContents" /\ lastOp'.area = a /\ a # lastOp'.b
    BY <2>2, <2>4, OpNames
  <2>7. RunOp'
    BY <2>1, <2>3, <2>4, <2>5, <2>6 DEF RunOp
  <2>8. QED
    BY <2>3, <2>4, <2>7, IntoRun
<1>3. QED
  BY <1>1, <1>2

(* The area that moved gets its summary. *)
LEMMA MoveEnds ==
    ASSUME Core, NEW f \in FilePage, NEW a \in Area \ {0}, NEW b \in Area, b = buffer,
           NEW s \in [Page -> {"free", "used"}],
           prog = Move3(f, a, s) \/ prog = Move4(f, a, s), Moved(a, s, "deletedOldArea"),
           Next, ~PowerLoss, phase = "run", ops # Erased
    PROVE  Core' /\ Stage' /\ stored' = stored /\ ops' = ops
<1>1. NoOp /\ mv = "deletedOldArea" /\ target = a /\ CleanOK(a, s) /\ HasFree(s)
  BY DEF Moved
<1>2. CASE prog = Move3(f, a, s)
  <2>1. map.type[buffer] # "retired"
    BY CoreParts DEF FixedAreas
  <2>2. /\ prog' = Move4(f, a, s)
        /\ UNCHANGED <<flashVars, index, log, ramVars, phase, found, bounds>>
    BY <1>2, <2>1, ExecAfterMove, Progs DEF Move3
  <2>3. UNCHANGED <<flashVars, index, log, ramVars>> /\ phase' = phase /\ ops' = ops
    BY <2>2 DEF bounds
  <2>4. Core' /\ SameState
    BY <2>3, CoreParts, StateSame DEF InFlash
  <2>5. CleanOK(a, s)'
    BY <1>1, <2>4 DEF CleanOK, SameState
  <2>6. Moved(a, s, "deletedOldArea")'
    BY <1>1, <2>4, <2>5 DEF Moved, SameState, SameMove
  <2>7. RunMove'
    BY <2>2, <2>4, <2>6 DEF RunMove, SameState
  <2>8. QED
    BY <2>3, <2>4, <2>7, IntoRun DEF SameState
<1>3. CASE prog = Move4(f, a, s)
  <2>1. SumEntry(SetStatusBlock(a, s)) /\ prog' = InitFor(a, GcEnd(f))
    <3>1. SetStatusBlock(a, s).op \in {"setStatusBlock", "remove", "reset", "commit"}
      BY DEF SetStatusBlock
    <3>2. QED
      BY <1>3, <3>1, ExecSumEntry, Progs, CoreParts DEF Move4
  <2>2. /\ Core' /\ mv' = "setNewSummary" /\ target' = target /\ SameTx /\ NoOp' /\ SameRest
        /\ stored' = stored /\ map' = map /\ logged'[a] = s /\ NoActive /\ ~replaced
    BY <1>1, <2>1, BlockStep
  <2>3. FreePage(a)' /\ NoActive' /\ ~replaced'
    BY <1>1, <2>2 DEF FreePage, HasFree, NoActive, SameTx
  <2>4. RunRoom'
    BY <1>1, <2>1, <2>2, <2>3 DEF RunRoom
  <2>5. QED
    BY <2>2, <2>4, IntoRun DEF SameRest
<1>4. QED
  BY <1>2, <1>3

(* A move goes on. *)
LEMMA MoveStep ==
    ASSUME Careful, Core, ops # Erased, phase = "run", RunMove, Next, ~PowerLoss
    PROVE  Core' /\ Stage' /\ stored' = stored /\ ops' = ops
<1>1. PICK f \in FilePage, a \in Area \ {0}, b \in Area, s \in [Page -> {"free", "used"}] :
       /\ b = buffer
       /\ \/ /\ prog = Then(MoveValidData(a), moveValidData(a, b, 0) \o Move1(f, a, b, s))
             /\ Quiet /\ MoveReady(a, s)
          \/ \E q \in Page :
             /\ prog = Then(CopyPage(a, b, q), Move1(f, a, b, s))
             /\ s[q] = "used" /\ CopiedUpto(a, b, s, q) /\ Moving(a, s)
          \/ /\ prog = Move1(f, a, b, s)
             /\ CopiedUpto(a, b, s, PagesPerArea) /\ Moving(a, s)
          \/ prog = Move2(f, a, b, s) /\ Moved(a, s, "swappedPosition")
          \/ prog = Move3(f, a, s) /\ Moved(a, s, "deletedOldArea")
          \/ prog = Move4(f, a, s) /\ Moved(a, s, "deletedOldArea")
  BY DEF RunMove
<1>2. QED
  BY <1>1, MoveAnnounced, MoveCopies, MoveSwaps, MoveEnds

=============================================================================

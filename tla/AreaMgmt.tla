------------------------------ MODULE AreaMgmt ------------------------------
(***************************************************************************)
(* Areas, their pages, and what a loss of power leaves of them: area       *)
(* management (src/src/area.cpp), garbage collection                       *)
(* (src/src/garbage_collection.cpp), the page states of the summary cache   *)
(* (src/src/summaryCache.cpp) and the replacing of pages by DataIO         *)
(* (src/src/dataIO.cpp, src/src/journalPageStatemachine_impl.hpp), on top of *)
(* the area map of the superblock and recovered from the journal.          *)
(*                                                                         *)
(* The file system runs one call at a time.  A call is a program of        *)
(* instructions, kept in prog; each instruction is one change that reaches *)
(* the flash or the journal, and power may fail between any two.  An       *)
(* instruction that is a journal entry is logged and has its effect on the *)
(* state in RAM; an entry that announces an operation, such as InitAreaAs, *)
(* is logged and replaced by the instructions of the operation.            *)
(*                                                                         *)
(* A mount reads the last superindex, applies the journal, and then lets   *)
(* area management, garbage collection and DataIO, in this order, finish   *)
(* what was interrupted: these are programs like any other, and power may  *)
(* fail in them again.                                                     *)
(***************************************************************************)
EXTENDS AreaMap, Sequences, FiniteSets, SequencesExt

CONSTANTS
    MinFreeAreas,   \* minFreeAreas: areas only garbage collection may use up
    PagesPerArea,   \* dataPagesPerArea
    BlocksPerArea,  \* blocksPerArea
    NoOfFilePages,  \* pages that files have content for
    MaxOps,         \* bound: calls of the file system's user
    MaxCrashes,     \* bound: losses of power
    MaxBad,         \* bound: areas in which erasing a block fails
    Spared          \* spans in which power does not fail, see PowerLoss

ASSUME AreaMgmtAssumption ==
    /\ AreasNo > 2
    /\ MinFreeAreas \in Nat
    /\ {PagesPerArea, BlocksPerArea, NoOfFilePages} \subseteq Nat \ {0}
    /\ BlocksPerArea <= PagesPerArea
    /\ {MaxOps, MaxCrashes, MaxBad} \subseteq Nat
    /\ Spared \subseteq {"flush", "gcErase", "recovery"}

Page == 0 .. PagesPerArea - 1

FilePage == 1 .. NoOfFilePages

Erased == 0     \* content of a page that was not written since its erase

(* The block of an area that holds page p. *)
BlockOf(p) == (p * BlocksPerArea) \div PagesPerArea

(* Addr: a logical area and a page in it; NoAddr is address 0. *)
Addr == (Area \ {0}) \X Page

NoAddr == <<0, 0>>

VARIABLES
    flash,      \* flash[pos][page]: the call that wrote it, or Erased
    asWritten,  \* positions whose summary page says that all pages are dirty
    bad,        \* positions with a block that cannot be erased
    index,      \* the last superindex: map, two summaries, the tree's addresses
    log,        \* the journal
    map,        \* Superblock: the area map in RAM
    sum,        \* SummaryCache: cached areas, with the status of their pages
    addr,       \* tree and PageAddressCache: where a file page is
    prog,       \* what the running call still has to do
    phase,      \* "run", or the topic whose signalEndOfLog runs
    found,      \* what the topics gathered from the journal at the mount
    ops, crashes

flashVars == <<flash, asWritten, bad>>
ramVars == <<map, sum, addr>>
bounds == <<ops, crashes>>
vars == <<flashVars, index, log, ramVars, prog, phase, found, bounds>>

Idle == phase = "run" /\ prog = <<>>

-----------------------------------------------------------------------------
(* Summaries of areas.                                                     *)

SummaryEntry == {"free", "used", "dirty"}

All(s) == [p \in Page |-> s]

cached == DOMAIN sum

(* getSummaryStatus: from the cache, else what the area's summary page says;
   without one the area is taken for empty. *)
SummaryOf(m, s, a) ==
    IF a \in DOMAIN s THEN s[a]
    ELSE IF m.pos[a] \in asWritten THEN All("dirty") ELSE All("free")

PageStatus(a, p) == SummaryOf(map, sum, a)[p]

WithSummary(s, a, new) ==
    [b \in DOMAIN s \union {a} |-> IF b = a THEN new ELSE s[b]]

WithoutSummary(s, a) == [b \in DOMAIN s \ {a} |-> s[b]]

(* Entries of topic summaryCache. *)
SetStatus(ad, st) ==
    [op |-> "setStatus", area |-> ad[1], page |-> ad[2], entry |-> st]
SetStatusBlock(a, new) == [op |-> "setStatusBlock", area |-> a, summary |-> new]
DeleteSummary(a) == [op |-> "remove", area |-> a]
ResetASWritten(a) == [op |-> "reset", area |-> a]
Commit(a) == [op |-> "commit", area |-> a]

SummaryOp == {"setStatus", "setStatusBlock", "remove", "reset", "commit"}

(* What entry e does to the summaries s in RAM under the map m.  Pages of an
   area without a type are refused. *)
SummaryApplied(m, s, e) ==
    CASE e.op = "setStatus" ->
            LET new == [SummaryOf(m, s, e.area) EXCEPT ![e.page] = e.entry]
            IN  IF m.type[e.area] = "unset"
                THEN WithSummary(s, e.area, SummaryOf(m, s, e.area))
                ELSE WithSummary(s, e.area, new)
      [] e.op = "setStatusBlock" -> WithSummary(s, e.area, e.summary)
      [] e.op = "remove" -> WithoutSummary(s, e.area)
      [] OTHER -> s

(* resetASWritten and deleteSummary; both do nothing for an uncached area. *)
DropSummary(a) == IF a \in cached THEN <<ResetASWritten(a), DeleteSummary(a)>> ELSE <<>>

-----------------------------------------------------------------------------
(* Entries that announce an operation, and those of other topics.          *)

InitAreaAs(a, t) == [op |-> "initAreaAs", area |-> a, type |-> t]
CloseArea(a) == [op |-> "closeArea", area |-> a]
RetireArea(a) == [op |-> "retireArea", area |-> a]
DeleteArea(a) == [op |-> "deleteArea", area |-> a]
DeleteAreaContents(a, b) == [op |-> "deleteAreaContents", area |-> a, b |-> b]
MoveValidData(a) == [op |-> "moveValidData", area |-> a]
ReplacePage(neu, old) == [op |-> "replacePage", neu |-> neu, old |-> old]
UpdateInode(f, ad) == [op |-> "update", file |-> f, neu |-> ad]
InvalidateOldPages == [op |-> "invalidateOldPages"]
Checkpoint(t) == [op |-> "checkpoint", topic |-> t]

AreaMgmtOp == {"initAreaAs", "closeArea", "retireArea", "deleteArea",
               "deleteAreaContents"}

(* Entries without an effect of their own on the state in RAM. *)
NoteOp == {"moveValidData", "replacePage", "invalidateOldPages", "checkpoint"}

(* Instructions that are not journal entries. *)
AddUsed(n) == [op |-> "addUsed", by |-> n]
EraseBlock(pos, blk) == [op |-> "eraseBlock", pos |-> pos, block |-> blk]
WritePage(ad) == [op |-> "writePage", area |-> ad[1], page |-> ad[2]]
CopyPage(a, b, p) == [op |-> "copyPage", area |-> a, b |-> b, page |-> p]
MarkBad(pos) == [op |-> "markBad", pos |-> pos]
WriteSummary(a) == [op |-> "writeSummary", area |-> a]
NewPageFor(f) == [op |-> "newPageFor", file |-> f]
ManageActiveAreaFull(t) == [op |-> "manageActiveAreaFull", type |-> t]
AfterDelete(a, t) == [op |-> "afterDelete", area |-> a, type |-> t]
AfterMove == [op |-> "afterMove"]
Scan(a) == [op |-> "scan", area |-> a]
CommitSuperIndex == [op |-> "commitSuperIndex"]
ClearJournal == [op |-> "clearJournal"]

EraseArea(pos) == [k \in 1 .. BlocksPerArea |-> EraseBlock(pos, k - 1)]

-----------------------------------------------------------------------------
(* The operations of AreaManagement: what follows their journal entry.     *)

initAreaAs(a, t) ==
    <<Type(a, t)>>
    \o (IF map.status[a] = "empty" THEN <<AddUsed(1)>> ELSE <<>>)
    \o <<ActiveArea(t, a), Checkpoint("areaMgmt")>>

closeArea(a) ==
    <<Status(a, "closed"), ActiveArea(map.type[a], 0), Checkpoint("areaMgmt")>>

(* mutant: a retired area is counted as newly used, whatever it was *)
Bad_retireArea(a) ==
    <<Status(a, "closed"), AddUsed(1), Type(a, "retired"), MarkBad(map.pos[a]),
      Checkpoint("areaMgmt")>>

retireArea(a) ==
    <<Status(a, "closed")>>
    \o (IF map.type[a] = "unset" THEN <<AddUsed(1)>> ELSE <<>>)
    \o <<Type(a, "retired"), MarkBad(map.pos[a]), Checkpoint("areaMgmt")>>

(* Erasing what lies on the position of area b; a block may turn out bad,
   then b is retired. *)
Erasing(b) ==
    {EraseArea(map.pos[b])}
    \union (IF Cardinality(bad \union {map.pos[b]}) <= MaxBad
            THEN {SubSeq(EraseArea(map.pos[b]), 1, k) \o <<RetireArea(b)>> :
                    k \in 0 .. BlocksPerArea - 1}
            ELSE {})

Succeeded(erasing) == erasing = <<>> \/ Last(erasing).op # "retireArea"

deleteAreaContents(a, b) ==
    {erasing \o <<IncreaseErasecount(a)>> \o DropSummary(a)
             \o <<Checkpoint("areaMgmt")>> : erasing \in Erasing(b)}

(* A deletion that failed returns early, without a checkpoint. *)
deleteArea(a) ==
    {erasing \o <<IncreaseErasecount(a)>> \o DropSummary(a)
             \o (IF Succeeded(erasing)
                 THEN <<Status(a, "empty"), Type(a, "unset"), AddUsed(-1),
                        Checkpoint("areaMgmt")>>
                 ELSE <<>>) : erasing \in Erasing(a)}

(* The ways operation e can go on. *)
Body(e) ==
    CASE e.op = "initAreaAs" -> {initAreaAs(e.area, e.type)}
      [] e.op = "closeArea" -> {closeArea(e.area)}
      [] e.op = "retireArea" -> {retireArea(e.area)}
      [] e.op = "deleteArea" -> deleteArea(e.area)
      [] e.op = "deleteAreaContents" -> deleteAreaContents(e.area, e.b)

-----------------------------------------------------------------------------
(* Garbage collection.                                                     *)

Pages(s, st) == {p \in Page : s[p] = st}

Dirt(a) == Cardinality(Pages(SummaryOf(map, sum, a), "dirty"))

Collectable ==
    {a \in Area : map.status[a] # "active" /\ map.type[a] \in {"data", "index"}}

(* findNextBestArea: the first area with dirty pages only that was not erased
   too often, else one with the most dirty pages among those of the type.
   Ties are broken by wear; here any of them may be taken. *)
findNextBestArea(t) ==
    LET ready == {a \in Collectable :
                    /\ Dirt(a) = PagesPerArea
                    /\ \/ map.deletions < AreasNo
                       \/ map.erasecount[a] < map.deletions \div AreasNo}
        typed == {a \in Collectable : map.type[a] = t /\ Dirt(a) > 0}
    IN  IF ready # {}
        THEN {Min(ready)}
        ELSE {a \in typed : \A b \in typed : Dirt(b) <= Dirt(a)}

(* mutant: a moved area is taken for empty *)
Bad_Cleaned(s) == All("free")

(* The summary of a moved area: dirty pages were not copied. *)
Cleaned(s) == [p \in Page |-> IF s[p] = "used" THEN "used" ELSE "free"]

(* The loop of moveValidDataToNewArea from page p on: the next used page. *)
moveValidData(a, b, p) ==
    LET rest == {q \in Pages(SummaryOf(map, sum, a), "used") : q >= p}
    IN  IF rest = {} THEN <<>> ELSE <<CopyPage(a, b, Min(rest))>>

(* mutant: positions trade places before the pages are copied *)
Bad_MovingGarbage(a, t) ==
    LET buffer == map.active["garbageBuffer"] IN
    <<MoveValidData(a), Swap(a, buffer)>>
    \o moveValidData(a, buffer, 0)
    \o <<DeleteAreaContents(a, buffer), AfterMove,
         SetStatusBlock(a, Cleaned(SummaryOf(map, sum, a))),
         InitAreaAs(a, t), Checkpoint("garbage")>>

(* Area a, with valid data, moves into the garbage buffer, trades places with
   it, and what is now the garbage buffer is erased. *)
MovingGarbage(a, t) ==
    LET buffer == map.active["garbageBuffer"] IN
    <<MoveValidData(a)>>
    \o moveValidData(a, buffer, 0)
    \o <<Swap(a, buffer), DeleteAreaContents(a, buffer), AfterMove,
         SetStatusBlock(a, Cleaned(SummaryOf(map, sum, a))),
         InitAreaAs(a, t), Checkpoint("garbage")>>

(* collectGarbage; the empty program returns without space. *)
collectGarbage(t) ==
    LET best == findNextBestArea(t)
        valid(a) == Pages(SummaryOf(map, sum, a), "used") # {}
    IN  IF best = {} THEN {<<>>}
        ELSE {IF ~valid(a) THEN <<DeleteArea(a), AfterDelete(a, t)>>
              ELSE IF map.active["garbageBuffer"] = 0 THEN <<>>
              ELSE MovingGarbage(a, t) : a \in best}

(* Empty areas findWritableArea may take; position 6 is skipped, because its
   number is compared with AreaType::retired. *)
RetiredNumber == 6

Allocatable ==
    {a \in Area : map.status[a] = "empty" /\ map.pos[a] # RetiredNumber}

Worn(a) ==
    /\ map.deletions >= AreasNo * 2
    /\ map.erasecount[a] > (map.deletions \div AreasNo) \div 2

(* findWritableArea: the active area, else the first empty one that is not
   worn, else the first empty one, because the erase count of the second best
   is never noted; else what garbage collection frees. *)
findWritableArea(t) ==
    LET fresh == {a \in Allocatable : ~Worn(a)}
        best == Min(IF fresh # {} THEN fresh ELSE Allocatable)
    IN  IF map.active[t] # 0 THEN {<<>>}
        ELSE IF map.used < AreasNo - MinFreeAreas /\ Allocatable # {}
             THEN {<<InitAreaAs(best, t)>>}
             ELSE collectGarbage(t)

FreePages(a) == Pages(SummaryOf(map, sum, a), "free")

-----------------------------------------------------------------------------
(* Calls.                                                                  *)

Ready == Idle /\ ops < MaxOps

Start(p) ==
    /\ prog' = p
    /\ ops' = ops + 1
    /\ UNCHANGED <<flashVars, index, log, ramVars, phase, found, crashes>>

(* Write one page of a file: find an area, then a page in it. *)
Write(f) ==
    /\ Ready
    /\ \E room \in findWritableArea("data") : Start(room \o <<NewPageFor(f)>>)

(* mutant: also the page a file did not have gets dirty *)
Bad_RetireUnchecked(old) ==
    <<SetStatus(old, "dirty"), InvalidateOldPages, Checkpoint("dataIO")>>

(* invalidateOldPages, and the checkpoint that ends a write or deletion. *)
Retire(old) ==
    (IF old # NoAddr THEN <<SetStatus(old, "dirty"), InvalidateOldPages>> ELSE <<>>)
    \o <<Checkpoint("dataIO")>>

(* Cut a page off a file. *)
Delete(f) ==
    /\ Ready
    /\ addr[f] # NoAddr
    /\ Start(<<ReplacePage(NoAddr, addr[f]), UpdateInode(f, NoAddr)>>
             \o Retire(addr[f]))

(* Flush the caches: everything goes into a superindex, then the journal is
   cleared.  The superindex holds two summaries. *)
Flush ==
    /\ Ready
    /\ Cardinality(cached) <= 2
    /\ Start(<<CommitSuperIndex, Checkpoint("summaryCache"), ClearJournal>>)

-----------------------------------------------------------------------------
(* The next instruction.                                                   *)

Instruction == Head(prog)

Doing(kinds) == prog # <<>> /\ Instruction.op \in kinds

Logged == log' = Append(log, Instruction)

Continue == prog' = Tail(prog)

(* An entry of topic superblock. *)
StepMap ==
    /\ Doing(MapOp)
    /\ Logged
    /\ map' = Applied(map, Instruction)
    /\ Continue
    /\ UNCHANGED <<flashVars, index, sum, addr, phase, found, bounds>>

(* increaseUsedAreas and decreaseUsedAreas log the new number. *)
StepUsed ==
    /\ Doing({"addUsed"})
    /\ LET e == UsedAreas(map.used + Instruction.by) IN
       /\ log' = Append(log, e)
       /\ map' = Applied(map, e)
    /\ Continue
    /\ UNCHANGED <<flashVars, index, sum, addr, phase, found, bounds>>

(* setPageStatus does nothing if the page has the status already.  When the
   last page of an area gets dirty the summary page is written. *)
StepPageStatus ==
    /\ Doing({"setStatus"})
    /\ LET e == Instruction
           new == SummaryApplied(map, sum, e)
       IN  /\ sum' = new
           /\ IF \/ PageStatus(e.area, e.page) = e.entry
                 \/ map.type[e.area] = "unset"
              THEN Continue /\ UNCHANGED log
              ELSE /\ Logged
                   /\ prog' = (IF new[e.area] = All("dirty")
                                  /\ map.pos[e.area] \notin asWritten
                               THEN <<WriteSummary(e.area)>> ELSE <<>>)
                              \o Tail(prog)
    /\ UNCHANGED <<flashVars, index, map, addr, phase, found, bounds>>

StepSummary ==
    /\ Doing({"setStatusBlock", "remove", "reset", "commit"})
    /\ Logged
    /\ sum' = SummaryApplied(map, sum, Instruction)
    /\ Continue
    /\ UNCHANGED <<flashVars, index, map, addr, phase, found, bounds>>

StepNote ==
    /\ Doing(NoteOp)
    /\ Logged
    /\ Continue
    /\ UNCHANGED <<flashVars, index, ramVars, phase, found, bounds>>

(* updateExistingInode: the tree knows the new address. *)
StepUpdate ==
    /\ Doing({"update"})
    /\ Logged
    /\ addr' = [addr EXCEPT ![Instruction.file] = Instruction.neu]
    /\ Continue
    /\ UNCHANGED <<flashVars, index, map, sum, phase, found, bounds>>

(* An operation of AreaManagement is logged and then carried out.  The
   contents of a retired area are not deleted. *)
StepOperation ==
    /\ Doing(AreaMgmtOp)
    /\ IF /\ Instruction.op \in {"deleteArea", "deleteAreaContents"}
          /\ map.type[Instruction.area] = "retired"
       THEN Continue /\ UNCHANGED log
       ELSE /\ Logged
            /\ \E body \in Body(Instruction) : prog' = body \o Tail(prog)
    /\ UNCHANGED <<flashVars, index, ramVars, phase, found, bounds>>

(* eraseBlock; the summary page lies in the last block.  If blocks may turn out
   bad, an operation that a mount resumes does not notice that an erase failed. *)
StepErase ==
    /\ Doing({"eraseBlock"})
    /\ \/ /\ flash' = [flash EXCEPT ![Instruction.pos] =
                    [p \in Page |-> IF BlockOf(p) = Instruction.block THEN Erased ELSE @[p]]]
          /\ asWritten' = IF Instruction.block = BlocksPerArea - 1
                          THEN asWritten \ {Instruction.pos} ELSE asWritten
       \/ phase = "areaMgmt" /\ MaxBad > 0 /\ UNCHANGED <<flash, asWritten>>
    /\ Continue
    /\ UNCHANGED <<bad, index, log, ramVars, phase, found, bounds>>

StepWritePage ==
    /\ Doing({"writePage"})
    /\ flash' = [flash EXCEPT ![map.pos[Instruction.area]][Instruction.page] = ops]
    /\ Continue
    /\ UNCHANGED <<asWritten, bad, index, log, ramVars, phase, found, bounds>>

StepCopyPage ==
    /\ Doing({"copyPage"})
    /\ flash' = [flash EXCEPT ![map.pos[Instruction.b]][Instruction.page] =
                    flash[map.pos[Instruction.area]][Instruction.page]]
    /\ prog' = moveValidData(Instruction.area, Instruction.b, Instruction.page + 1)
               \o Tail(prog)
    /\ UNCHANGED <<asWritten, bad, index, log, ramVars, phase, found, bounds>>

StepMarkBad ==
    /\ Doing({"markBad"})
    /\ bad' = bad \union {Instruction.pos}
    /\ Continue
    /\ UNCHANGED <<flash, asWritten, index, log, ramVars, phase, found, bounds>>

(* writeAreasummary: the page is written, then the commit is logged. *)
StepWriteSummary ==
    /\ Doing({"writeSummary"})
    /\ asWritten' = asWritten \union {map.pos[Instruction.area]}
    /\ prog' = <<Commit(Instruction.area)>> \o Tail(prog)
    /\ UNCHANGED <<flash, bad, index, log, ramVars, phase, found, bounds>>

(* The first free page of the active area takes the new content; without one
   the write fails. *)
StepNewPage ==
    /\ Doing({"newPageFor"})
    /\ LET f == Instruction.file
           a == map.active["data"]
       IN  IF a = 0 \/ FreePages(a) = {}
           THEN prog' = <<>> /\ UNCHANGED log
           ELSE LET neu == <<a, Min(FreePages(a))>>
                IN  /\ log' = Append(log, ReplacePage(neu, addr[f]))
                    /\ prog' = <<SetStatus(neu, "used"), WritePage(neu),
                                 ManageActiveAreaFull("data"), UpdateInode(f, neu)>>
                               \o Retire(addr[f])
    /\ UNCHANGED <<flashVars, index, ramVars, phase, found, bounds>>

(* manageActiveAreaFull closes the active area when no page is free; looking
   at its pages brings the area into the cache. *)
StepManageFull ==
    /\ Doing({"manageActiveAreaFull"})
    /\ LET a == map.active[Instruction.type] IN
       /\ prog' = (IF a # 0 /\ FreePages(a) = {} THEN <<CloseArea(a)>> ELSE <<>>)
                  \o Tail(prog)
       /\ sum' = IF a = 0 THEN sum ELSE WithSummary(sum, a, SummaryOf(map, sum, a))
    /\ UNCHANGED <<flashVars, index, log, map, addr, phase, found, bounds>>

(* collectGarbage after deleteArea: if the area had to be retired the next
   one is tried, else it trades places with the garbage buffer. *)
StepAfterDelete ==
    /\ Doing({"afterDelete"})
    /\ LET a == Instruction.area
           e == Swap(a, map.active["garbageBuffer"])
       IN  IF map.type[a] = "retired"
           THEN /\ \E again \in collectGarbage(Instruction.type) : prog' = again \o Tail(prog)
                /\ UNCHANGED <<log, map>>
           ELSE /\ log' = Append(log, e)
                /\ map' = Applied(map, e)
                /\ prog' = <<InitAreaAs(a, Instruction.type), Checkpoint("garbage")>> \o Tail(prog)
    /\ UNCHANGED <<flashVars, index, sum, addr, phase, found, bounds>>

(* collectGarbage after deleteAreaContents: a garbage buffer that had to be
   retired is given up. *)
StepAfterMove ==
    /\ Doing({"afterMove"})
    /\ prog' = (IF map.type[map.active["garbageBuffer"]] = "retired"
                THEN <<ActiveArea("garbageBuffer", 0)>> ELSE <<>>) \o Tail(prog)
    /\ UNCHANGED <<flashVars, index, log, ramVars, phase, found, bounds>>

StepCommitSuperIndex ==
    /\ Doing({"commitSuperIndex"})
    /\ index' = [map |-> map, addr |-> addr,
                 sum |-> [a \in {a \in cached : map.pos[a] \notin asWritten} |-> sum[a]]]
    /\ Continue
    /\ UNCHANGED <<flashVars, log, ramVars, phase, found, bounds>>

StepClearJournal ==
    /\ Doing({"clearJournal"})
    /\ log' = <<>>
    /\ Continue
    /\ UNCHANGED <<flashVars, index, ramVars, phase, found, bounds>>

-----------------------------------------------------------------------------
(* Loss of power, and the mount after it.                                  *)

NothingFound == [state |-> "ok", target |-> 0, type |-> "unset",
                 last |-> InvalidateOldPages, extern |-> "none",
                 tx |-> "ok", neu |-> NoAddr, old |-> NoAddr]

LastIndex(S) == IF S = {} THEN 0 ELSE Max(S)

LastCheckpoint(t) ==
    LastIndex({i \in DOMAIN log : log[i].op = "checkpoint" /\ log[i].topic = t})

(* Indices of the entries a topic is given, those behind its checkpoint. *)
Unretired(t, kinds) ==
    LET last == LastCheckpoint(t)
    IN  {i \in DOMAIN log : i > last /\ log[i].op \in kinds}

(* Superblock: its pre-scan applies every entry. *)
MapFromLog ==
    LET After[i \in 0 .. Len(log)] ==
            IF i = 0 THEN index.map ELSE Applied(After[i - 1], log[i])
    IN  After[Len(log)]

(* SummaryCache: entries up to the last commit or removal of their area count
   no more, and that area's summary in the superindex neither. *)
firstUncommitted(a) ==
    LastIndex({i \in DOMAIN log : log[i].op \in {"commit", "remove"} /\ log[i].area = a})

SumFromLog ==
    LET start == [a \in {a \in DOMAIN index.sum : firstUncommitted(a) = 0} |-> index.sum[a]]
        live == {i \in Unretired("summaryCache", SummaryOp) : i > firstUncommitted(log[i].area)}
        After[i \in 0 .. Len(log)] ==
            IF i = 0 THEN start
            ELSE IF i \in live THEN SummaryApplied(MapFromLog, After[i - 1], log[i])
            ELSE After[i - 1]
    IN  After[Len(log)]

AddrFromLog ==
    LET After[i \in 0 .. Len(log)] ==
            IF i = 0 THEN index.addr
            ELSE IF log[i].op = "update" THEN [After[i - 1] EXCEPT ![log[i].file] = log[i].neu]
            ELSE After[i - 1]
    IN  After[Len(log)]

(* AreaManagement: the last operation, and the last change by another topic
   since the first operation it was given. *)
ExternOp == {"type", "status", "activeArea", "usedAreas", "increaseErasecount",
             "reset", "remove"}

LastOperation == LastIndex(Unretired("areaMgmt", AreaMgmtOp))

mLastExternOp ==
    LET own == Unretired("areaMgmt", AreaMgmtOp)
        i == LastIndex({j \in Unretired("areaMgmt", ExternOp) : \E k \in own : k < j})
    IN  IF i = 0 THEN "none" ELSE log[i].op

(* GarbageCollection: the last move, and how far it got. *)
LastMove == LastIndex(Unretired("garbage", {"moveValidData"}))

MoveProgress ==
    LET move == LastMove
        i == LastIndex({j \in Unretired("garbage", {"deleteArea", "deleteAreaContents",
                                                    "swap", "setStatusBlock"}) : j > move})
    IN  IF LastMove = 0 THEN "ok"
        ELSE IF i = 0 THEN "moveValidData"
        ELSE CASE log[i].op = "swap" -> "swappedPosition"
               [] log[i].op = "setStatusBlock" -> "setNewSummary"
               [] OTHER -> "deletedOldArea"

(* DataIO: a page replaced but not yet in the tree is reverted, also when it
   was reverted before; one in the tree still has to get rid of the old page. *)
LastReplace == LastIndex(Unretired("dataIO", {"replacePage"}))

TxState ==
    LET replaced == LastReplace
        since(op) == \E i \in Unretired("dataIO", {op}) : i > replaced
    IN  IF replaced = 0 \/ (since("update") /\ since("invalidateOldPages")) THEN "ok"
        ELSE IF since("update") THEN "recover" ELSE "invalid"

FromLog ==
    LET move == LastMove
        operation == LastOperation
        tx == TxState
    IN  [state |-> MoveProgress,
         target |-> IF move = 0 THEN 0 ELSE log[move].area,
         type |-> IF move = 0 THEN "unset" ELSE MapFromLog.type[log[move].area],
         last |-> IF operation = 0 THEN InvalidateOldPages ELSE log[operation],
         extern |-> mLastExternOp,
         tx |-> tx,
         neu |-> IF tx = "ok" THEN NoAddr ELSE log[LastReplace].neu,
         old |-> IF tx = "ok" THEN NoAddr ELSE log[LastReplace].old]

(* The spans the runs can spare: a superindex is written and the journal not
   yet cleared; the area garbage collection moved is about to be erased under
   its new number; a mount finishes what was interrupted. *)
InFlush == prog # <<>> /\ Last(prog).op = "clearJournal" /\ Instruction.op # "commitSuperIndex"

InGcErase ==
    LET i == LastOperation IN
    /\ i # 0
    /\ log[i].op = "deleteAreaContents"
    /\ log[i].area # log[i].b
    /\ mLastExternOp = "none"

InRecovery == phase # "run"

(* AreaManagement::signalEndOfLog resumes the last operation behind the last
   change that is in the log. *)
ResumeOrder ==
    [initAreaAs |-> <<"type", "usedAreas", "activeArea">>,
     closeArea |-> <<"status", "activeArea">>,
     retireArea |-> <<"status", "usedAreas", "type">>,
     deleteArea |-> <<"increaseErasecount", "reset", "remove", "status", "type", "usedAreas">>,
     deleteAreaContents |-> <<"increaseErasecount", "reset", "remove">>]

(* How the changes of operation e are made, in the same order. *)
Resumed(m, s0, e) ==
    LET a == e.area
        ifCached(x) == IF a \in DOMAIN s0 THEN <<x>> ELSE <<>>
    IN  CASE e.op = "initAreaAs" ->
                <<<<Type(a, e.type)>>,
                  IF m.status[a] = "empty" THEN <<AddUsed(1)>> ELSE <<>>,
                  <<ActiveArea(e.type, a)>>>>
          [] e.op = "closeArea" -> <<<<Status(a, "closed")>>, <<ActiveArea(m.type[a], 0)>>>>
          [] e.op = "retireArea" ->
                <<<<Status(a, "closed")>>,
                  IF m.type[a] = "unset" THEN <<AddUsed(1)>> ELSE <<>>,
                  <<Type(a, "retired")>>>>
          [] e.op \in {"deleteArea", "deleteAreaContents"} ->
                <<EraseArea(m.pos[a]) \o <<IncreaseErasecount(a)>>,
                  ifCached(ResetASWritten(a)), ifCached(DeleteSummary(a)),
                  <<Status(a, "empty")>>, <<Type(a, "unset")>>, <<AddUsed(-1)>>>>

(* What is left of the changes, six at most.  A bad-block marker is set in any
   case once a retirement is resumed. *)
ResumeOperation(m, s0, e, extern) ==
    IF e.op \notin AreaMgmtOp THEN <<>>
    ELSE LET order == ResumeOrder[e.op]
             done == IF extern = "none" THEN 0
                     ELSE LastIndex({k \in DOMAIN order : order[k] = extern})
             Left(k) == IF k \in done + 1 .. Len(order) THEN Resumed(m, s0, e)[k]
                        ELSE <<>>
             marker == IF e.op = "retireArea" THEN <<MarkBad(m.pos[e.area])>> ELSE <<>>
         IN  (IF extern # "none" /\ done = 0 THEN <<>>
              ELSE Left(1) \o (Left(2) \o (Left(3) \o (Left(4) \o (Left(5) \o
                   (Left(6) \o marker))))))
             \o <<Checkpoint("areaMgmt")>>

(* Power fails, and the next mount reads the superindex, applies the journal
   and lets the topics gather what they need.  None of this is written
   anywhere, so that losing power again before the first signalEndOfLog
   changes nothing, and both make one step. *)
PowerLoss ==
    /\ crashes < MaxCrashes
    /\ ~("flush" \in Spared /\ InFlush)
    /\ ~("gcErase" \in Spared /\ InGcErase)
    /\ ~("recovery" \in Spared /\ InRecovery)
    /\ map' = MapFromLog
    /\ sum' = SumFromLog
    /\ addr' = AddrFromLog
    /\ found' = FromLog
    /\ phase' = "areaMgmt"
    /\ prog' = ResumeOperation(map', sum', found'.last, found'.extern)
    /\ crashes' = crashes + 1
    /\ UNCHANGED <<flashVars, index, log, ops>>

(* mutants: an interrupted move leaves its copies in the garbage buffer; a move
   that traded places does not erase the old pages *)
Bad_ResumeGarbageCopies ==
    IF found.state = "moveValidData" THEN <<Checkpoint("garbage")>>
    ELSE <<Scan(found.target), Checkpoint("garbage")>>

Bad_ResumeGarbageSwapped ==
    IF found.state = "moveValidData"
    THEN <<DeleteAreaContents(map.active["garbageBuffer"], map.active["garbageBuffer"])>>
    ELSE IF found.state = "ok" THEN <<>> ELSE <<Scan(found.target), Checkpoint("garbage")>>

(* GarbageCollection::signalEndOfLog. *)
ResumeGarbage ==
    LET buffer == map.active["garbageBuffer"]
        old == IF buffer = 0 THEN found.target ELSE buffer
    IN  CASE found.state = "ok" -> <<>>
          [] found.state = "moveValidData" ->
                <<DeleteAreaContents(buffer, buffer), Checkpoint("garbage")>>
          [] found.state = "swappedPosition" ->
                <<DeleteAreaContents(found.target, old), Scan(found.target),
                  Checkpoint("garbage")>>
          [] found.state = "deletedOldArea" ->
                <<Scan(found.target), Checkpoint("garbage")>>
          [] found.state = "setNewSummary" -> <<Checkpoint("garbage")>>

SignalGarbage ==
    /\ phase = "areaMgmt"
    /\ prog = <<>>
    /\ phase' = "garbage"
    /\ prog' = ResumeGarbage
    /\ UNCHANGED <<flashVars, index, log, ramVars, found, bounds>>

(* scanAreaForSummaryStatus: a page with data counts as used.  An area with
   data gets that summary, and becomes active if its type has no active one. *)
Scanned(a) ==
    [p \in Page |-> IF flash[map.pos[a]][p] = Erased THEN "free" ELSE "used"]

StepScan ==
    /\ Doing({"scan"})
    /\ LET a == Instruction.area IN
       prog' = (IF Scanned(a) = All("free") THEN <<>>
                ELSE <<SetStatusBlock(a, Scanned(a))>>
                     \o (IF found.type # "unset" /\ map.active[found.type] = 0
                         THEN <<InitAreaAs(a, found.type)>> ELSE <<>>))
               \o Tail(prog)
    /\ UNCHANGED <<flashVars, index, log, ramVars, phase, found, bounds>>

(* mutants: the old page is forgotten; full areas are not closed *)
Bad_ResumeDataIOLeaks ==
    <<ManageActiveAreaFull("data"), ManageActiveAreaFull("index"), Checkpoint("dataIO")>>

Bad_ResumeDataIOFull ==
    (CASE found.tx = "invalid" /\ found.neu # NoAddr -> <<SetStatus(found.neu, "dirty")>>
       [] found.tx = "recover" /\ found.old # NoAddr -> <<SetStatus(found.old, "dirty")>>
       [] OTHER -> <<>>)
    \o <<InvalidateOldPages, Checkpoint("dataIO")>>

(* DataIO::signalEndOfLog: its page states first, then full areas.  The size that
   it may then give the inode in the tree touches neither pages nor areas. *)
ResumeDataIO ==
    (CASE found.tx = "ok" -> <<>>
       [] found.tx = "invalid" ->
            (IF found.neu # NoAddr THEN <<SetStatus(found.neu, "dirty")>> ELSE <<>>)
            \o <<InvalidateOldPages>>
       [] found.tx = "recover" ->
            (IF found.old # NoAddr THEN <<SetStatus(found.old, "dirty")>> ELSE <<>>)
            \o <<InvalidateOldPages>>)
    \o <<ManageActiveAreaFull("data"), ManageActiveAreaFull("index"),
         Checkpoint("dataIO")>>

SignalDataIO ==
    /\ phase = "garbage"
    /\ prog = <<>>
    /\ phase' = "dataIO"
    /\ prog' = ResumeDataIO
    /\ UNCHANGED <<flashVars, index, log, ramVars, found, bounds>>

Mounted ==
    /\ phase = "dataIO"
    /\ prog = <<>>
    /\ phase' = "run"
    /\ found' = NothingFound
    /\ UNCHANGED <<flashVars, index, log, ramVars, prog, bounds>>

-----------------------------------------------------------------------------
(* The state format leaves, with empty files. *)
Init ==
    /\ flash = [pos \in Pos |-> All(Erased)]
    /\ asWritten = {}
    /\ bad = {}
    /\ map = FormattedMap
    /\ sum = <<>>
    /\ addr = [f \in FilePage |-> NoAddr]
    /\ index = [map |-> map, sum |-> sum, addr |-> addr]
    /\ log = <<>>
    /\ prog = <<>>
    /\ phase = "run"
    /\ found = NothingFound
    /\ ops = 0
    /\ crashes = 0

Step ==
    \/ StepMap \/ StepUsed \/ StepPageStatus \/ StepSummary \/ StepNote
    \/ StepUpdate \/ StepOperation \/ StepErase \/ StepWritePage
    \/ StepCopyPage \/ StepMarkBad \/ StepWriteSummary \/ StepNewPage
    \/ StepManageFull \/ StepAfterDelete \/ StepAfterMove \/ StepScan
    \/ StepCommitSuperIndex \/ StepClearJournal
    \/ SignalGarbage \/ SignalDataIO \/ Mounted

Next ==
    \/ \E f \in FilePage : Write(f) \/ Delete(f)
    \/ Flush
    \/ Step
    \/ PowerLoss

Spec == Init /\ [][Next]_vars

-----------------------------------------------------------------------------
(* Properties.                                                             *)

(* Types of the area map, the page states, the flash and the mount's phase,
   also while garbage collection and a mount change them. *)
TypeOK ==
    /\ map \in Map
    /\ index.map \in Map
    /\ addr \in [FilePage -> Addr \union {NoAddr}]
    /\ cached \subseteq Area \ {0}
    /\ \A a \in cached : sum[a] \in [Page -> SummaryEntry]
    /\ flash \in [Pos -> [Page -> Erased .. MaxOps]]
    /\ asWritten \subseteq Pos
    /\ bad \subseteq Pos
    /\ phase \in {"areaMgmt", "garbage", "dataIO", "run"}

(* No two areas ever lie on the same position, whatever swaps garbage
   collection makes and a mount repeats. *)
PositionsDistinct ==
    \A a, b \in Area : a # b => map.pos[a] # map.pos[b]

(* A page of flash is programmed only while it is erased, by a call, by garbage
   collection and by a mount. *)
WritesHitErasedPages ==
    prog # <<>> =>
        /\ Instruction.op = "writePage" =>
              flash[map.pos[Instruction.area]][Instruction.page] = Erased
        /\ Instruction.op = "copyPage" =>
              flash[map.pos[Instruction.b]][Instruction.page] = Erased

(* Between calls the page a file refers to has content and counts as used,
   which is what saves it from garbage collection; and no other file refers to
   it.  This is what a mount has to restore after a loss of power. *)
FilesIntact ==
    Idle => \A f \in FilePage : addr[f] # NoAddr =>
        /\ flash[map.pos[addr[f][1]]][addr[f][2]] # Erased
        /\ PageStatus(addr[f][1], addr[f][2]) = "used"
        /\ \A g \in FilePage : addr[g] = addr[f] => g = f

(* The areas keep the promise of FileStore, through every step of every call,
   of garbage collection and of a mount. *)
stored ==
    [f \in FilePage |->
        IF addr[f] = NoAddr THEN {} ELSE {flash[map.pos[addr[f][1]]][addr[f][2]]}]

Files == INSTANCE FileStore WITH FilePages <- FilePage, calls <- ops

KeepsFiles == Files!FileSpec

(* Between calls pages that count as used belong to a file, or they would never
   be freed: PageStateMachine and garbage collection lose none. *)
NoPageLeaks ==
    Idle => \A ad \in Addr :
        PageStatus(ad[1], ad[2]) = "used" => \E f \in FilePage : addr[f] = ad

(* Between calls pages that count as free are erased: findFirstFreePage hands
   them out to be written. *)
FreePagesErased ==
    Idle => \A ad \in Addr :
        (map.type[ad[1]] \in {"data", "index"} /\ PageStatus(ad[1], ad[2]) = "free")
            => flash[map.pos[ad[1]]][ad[2]] = Erased

(* Between calls the active garbage buffer is empty: the next collectGarbage
   copies into it. *)
GarbageBufferErased ==
    (Idle /\ map.active["garbageBuffer"] # 0) =>
        /\ flash[map.pos[map.active["garbageBuffer"]]] = All(Erased)
        /\ map.pos[map.active["garbageBuffer"]] \notin asWritten

(* The areas and erases whose totals the superindex holds as well. *)
NonEmpty(m) == {a \in Area : m.status[a] # "empty"}

TotalErases(m) ==
    LET Below[a \in 0 .. AreasNo] == IF a = 0 THEN 0 ELSE Below[a - 1] + m.erasecount[a - 1]
    IN  Below[AreasNo]

Plausible(m) ==
    /\ m.used = Cardinality(NonEmpty(m))
    /\ m.deletions = TotalErases(m)

(* Between calls the number of used areas and the number of erases are those of
   the map: SuperIndex::isPlausible refuses a superindex in which they differ,
   and the file system could not be mounted again. *)
MapPlausible == Idle => Plausible(map)

(* Between calls the active area of a type has that type and a free page, as
   writePageData expects of what findWritableArea returns. *)
ActiveAreaUsable ==
    Idle => \A t \in {"data", "index"} : map.active[t] # 0 =>
        /\ map.type[map.active[t]] = t
        /\ map.status[map.active[t]] = "active"
        /\ FreePages(map.active[t]) # {}

(* Area 0, where a mount looks for the superblock's anchor, never moves. *)
SuperblockStays == map.pos[0] = 0

=============================================================================

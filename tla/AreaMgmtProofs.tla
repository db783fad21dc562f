--------------------------- MODULE AreaMgmtProofs ---------------------------
(***************************************************************************)
(* Theorems about AreaMgmt: operations, transactions, flushes, mounts and  *)
(* losses of power keep the invariant of AreaMgmtLemmas; what follows from *)
(* that; and that no page leaks.                                           *)
(***************************************************************************)
EXTENDS AreaMgmtLemmas

-----------------------------------------------------------------------------
(* An operation in a call goes on, and what is behind it follows.          *)

(* The area that becomes the active one. *)
LEMMA OpsInit ==
    ASSUME Careful, Core, NEW f \in FilePage, NEW a \in Area \ {0}, lastOp.op = "initAreaAs",
           lastOp.area = a, FreePage(a),
           (OpRuns(PageFor(f)) /\ mv = "ok") \/ OpRuns(GcEnd(f)),
           Next, ~PowerLoss, phase = "run", ops # Erased
    PROVE  Core' /\ Stage' /\ stored' = stored /\ ops' = ops
<1>1. PICK ctx : /\ IsProg(ctx) /\ OpRuns(ctx)
                 /\ (ctx = PageFor(f) /\ mv = "ok") \/ ctx = GcEnd(f)
  BY Progs
<1>2. Core' /\ OpFrame /\ OpPages /\ (OpGoes(ctx) \/ OpEnds(ctx))
  BY <1>1, OpStep
<1>3. FreePage(a)' /\ mv' = mv /\ phase' = phase /\ ops' = ops /\ stored' = stored
      /\ replaced' = replaced
  <2>1. logged'[a] = logged[a]
    BY <1>2 DEF OpPages
  <2>2. QED
    BY <1>2, <2>1 DEF OpFrame, FreePage, SameMove, SameRest, SameTx, replaced
<1>4. CASE OpGoes(ctx)
  <2>1. lastOp' = lastOp /\ OpRuns(ctx)'
    BY <1>4 DEF OpGoes
  <2>2. RunOp'
    BY <1>1, <1>3, <2>1 DEF RunOp
  <2>3. QED
    BY <1>2, <1>3, <2>2, IntoRun
<1>5. CASE OpEnds(ctx)
  <2>1. NoOp' /\ prog' = ctx /\ map' = map /\ ext = "activeArea"
    BY <1>5 DEF OpEnds, OpDone
  <2>2. ~replaced /\ map.active["data"] = a /\ mv \in {"ok", "setNewSummary"}
    BY <2>1, CoreParts DEF InitOK
  <2>3. Room' /\ ~replaced'
    BY <1>3, <2>1, <2>2 DEF Room, FreePage
  <2>4. RunRoom'
    BY <1>1, <1>3, <2>1, <2>2, <2>3 DEF RunRoom, Quiet
  <2>5. QED
    BY <1>2, <1>3, <2>4, IntoRun
<1>6. QED
  BY <1>2, <1>4, <1>5

(* The area that is deleted. *)
LEMMA OpsDelete ==
    ASSUME Careful, Core, NEW f \in FilePage, NEW a \in Area \ {0}, lastOp.op = "deleteArea",
           lastOp.area = a, OpRuns(AfterDel(f, a)),
           Next, ~PowerLoss, phase = "run", ops # Erased
    PROVE  Core' /\ Stage' /\ stored' = stored /\ ops' = ops
<1>1. PICK ctx : IsProg(ctx) /\ OpRuns(ctx) /\ ctx = AfterDel(f, a)
  BY Progs
<1>2. Core' /\ OpFrame /\ OpPages /\ (OpGoes(ctx) \/ OpEnds(ctx))
  BY <1>1, OpStep
<1>3. mv' = mv /\ phase' = phase /\ ops' = ops /\ stored' = stored /\ replaced' = replaced
  BY <1>2 DEF OpFrame, SameMove, SameRest, SameTx, replaced
<1>4. CASE OpGoes(ctx)
  <2>1. lastOp' = lastOp /\ OpRuns(ctx)'
    BY <1>4 DEF OpGoes
  <2>2. RunOp'
    BY <1>1, <1>3, <2>1 DEF RunOp
  <2>3. QED
    BY <1>2, <1>3, <2>2, IntoRun
<1>5. CASE OpEnds(ctx)
  <2>1. NoOp' /\ prog' = ctx /\ map' = map /\ ext = "usedAreas"
    BY <1>5 DEF OpEnds, OpDone
  <2>2. ~replaced /\ map.active["data"] = 0 /\ mv = "ok" /\ map.type[a] = "unset"
    BY <2>1, CoreParts DEF DeleteOK
  <2>3. RunRoom'
    BY <1>1, <1>3, <2>1, <2>2 DEF RunRoom, Quiet, NoActive
  <2>4. QED
    BY <1>2, <1>3, <2>3, IntoRun
<1>6. QED
  BY <1>2, <1>4, <1>5

(* The old pages of an area that moved. *)
LEMMA OpsContents ==
    ASSUME Careful, Core, NEW f \in FilePage, NEW a \in Area \ {0},
           lastOp.op = "deleteAreaContents",
           NEW s \in [Page -> {"free", "used"}],
           lastOp.area = a, target = a, a # lastOp.b, CleanOK(a, s), HasFree(s),
           OpRuns(Move3(f, a, s)),
           Next, ~PowerLoss, phase = "run", ops # Erased
    PROVE  Core' /\ Stage' /\ stored' = stored /\ ops' = ops
<1>1. PICK ctx : IsProg(ctx) /\ OpRuns(ctx) /\ ctx = Move3(f, a, s)
  BY Progs
<1>2. Core' /\ OpFrame /\ OpPages /\ (OpGoes(ctx) \/ OpEnds(ctx))
  BY <1>1, OpStep
<1>3. /\ mv' = mv /\ target' = target /\ phase' = phase /\ ops' = ops /\ stored' = stored
      /\ map'.pos = map.pos /\ addr' = addr
  BY <1>2 DEF OpFrame, SameMove, SameRest
<1>4. CleanOK(a, s)'
  <2>1. lastOp.b = buffer /\ buffer \in Area
    BY CoreParts DEF ContentsOK
  <2>2. map.pos[a] # map.pos[lastOp.b] /\ map.pos[a] \in Pos
    BY <2>1, Elsewhere
  <2>3. ErasedPos = map.pos[lastOp.b]
    BY DEF ErasedPos
  <2>4. flash'[map.pos[a]] = flash[map.pos[a]]
    BY <1>2, <2>2, <2>3 DEF OpPages
  <2>5. QED
    BY <1>3, <2>4 DEF CleanOK
<1>5. CASE OpGoes(ctx)
  <2>1. lastOp' = lastOp /\ OpRuns(ctx)'
    BY <1>5 DEF OpGoes
  <2>2. RunOp'
    BY <1>1, <1>3, <1>4, <2>1 DEF RunOp
  <2>3. QED
    BY <1>2, <1>3, <2>2, IntoRun
<1>6. CASE OpEnds(ctx)
  <2>1. NoOp' /\ prog' = ctx /\ mv = "deletedOldArea"
    BY <1>6, CoreParts DEF OpEnds, ContentsOK
  <2>2. Moved(a, s, "deletedOldArea")'
    BY <1>3, <1>4, <2>1 DEF Moved
  <2>3. \E b \in Area : b = buffer'
    BY <1>2, CoreParts DEF OpFrame
  <2>4. RunMove'
    BY <1>1, <2>1, <2>2, <2>3 DEF RunMove
  <2>5. QED
    BY <1>2, <1>3, <2>4, IntoRun
<1>7. QED
  BY <1>2, <1>5, <1>6

(* The full area is closed before the tree learns of the new page. *)
LEMMA OpsClose ==
    ASSUME Careful, Core, NEW f \in FilePage, NEW neu \in Addr, NEW old \in Addr \union {NoAddr},
           lastOp.op = "closeArea", InTx(f, neu, old), OpRuns(Tx4(f, neu, old)), Written(neu),
           Next, ~PowerLoss, phase = "run", ops # Erased
    PROVE  Core' /\ Stage' /\ stored' = stored /\ ops' = ops
<1>1. PICK ctx : IsProg(ctx) /\ OpRuns(ctx) /\ ctx = Tx4(f, neu, old)
  BY Progs
<1>2. Core' /\ OpFrame /\ OpPages /\ (OpGoes(ctx) \/ OpEnds(ctx))
  BY <1>1, OpStep
<1>3. /\ SameMove /\ SameTx /\ phase' = phase /\ ops' = ops /\ stored' = stored
      /\ map'.pos = map.pos /\ addr' = addr
  BY <1>2 DEF OpFrame, SameRest
<1>4. InTx(f, neu, old)'
  BY <1>3 DEF InTx, SameMove, SameTx
<1>5. Written(neu)'
  <2>1. neu[1] \in Area /\ map.pos[neu[1]] \in Pos
    BY CoreParts DEF Addr
  <2>2. logged'[neu[1]] = logged[neu[1]] /\ flash'[map.pos[neu[1]]] = flash[map.pos[neu[1]]]
    BY <1>2, <2>1 DEF OpPages
  <2>3. QED
    BY <1>3, <2>2 DEF Written
<1>6. CASE OpGoes(ctx)
  <2>1. lastOp' = lastOp /\ OpRuns(ctx)'
    BY <1>6 DEF OpGoes
  <2>2. RunOp'
    BY <1>1, <1>4, <1>5, <2>1 DEF RunOp
  <2>3. QED
    BY <1>2, <1>3, <2>2, IntoRun
<1>7. CASE OpEnds(ctx)
  <2>1. NoOp' /\ prog' = ctx /\ map' = map /\ ext = "activeArea"
    BY <1>7 DEF OpEnds, OpDone
  <2>2. Room'
    BY <2>1, CoreParts DEF CloseOK, Room
  <2>3. RunTx'
    BY <1>1, <1>4, <1>5, <2>1, <2>2 DEF RunTx
  <2>4. QED
    BY <1>2, <1>3, <2>3, IntoRun
<1>8. QED
  BY <1>2, <1>6, <1>7

(* Any of them. *)
LEMMA OpsStep ==
    ASSUME Careful, Core, ops # Erased, phase = "run", RunOp, Next, ~PowerLoss
    PROVE  Core' /\ Stage' /\ stored' = stored /\ ops' = ops
<1>1. PICK f \in FilePage :
        \/ \E a \in Area \ {0} :
            \/ /\ OpRuns(PageFor(f)) /\ lastOp.op = "initAreaAs" /\ mv = "ok"
               /\ lastOp.area = a /\ FreePage(a)
            \/ /\ OpRuns(GcEnd(f)) /\ lastOp.op = "initAreaAs"
               /\ lastOp.area = a /\ FreePage(a)
            \/ OpRuns(AfterDel(f, a)) /\ lastOp.op = "deleteArea" /\ lastOp.area = a
            \/ \E s \in [Page -> {"free", "used"}] :
               /\ OpRuns(Move3(f, a, s)) /\ lastOp.op = "deleteAreaContents"
               /\ lastOp.area = a /\ target = a /\ a # lastOp.b
               /\ CleanOK(a, s) /\ HasFree(s)
        \/ \E neu \in Addr, old \in Addr \union {NoAddr} :
            /\ InTx(f, neu, old)
            /\ OpRuns(Tx4(f, neu, old)) /\ lastOp.op = "closeArea" /\ Written(neu)
  BY DEF RunOp
<1>2. QED
  BY <1>1, OpsInit, OpsDelete, OpsContents, OpsClose

-----------------------------------------------------------------------------
(* A page is replaced.                                                     *)

(* The transaction as it was. *)
LEMMA TxGoesOn ==
    ASSUME NEW f, NEW neu, NEW old, InTx(f, neu, old), SameMove, SameTx, addr' = addr
    PROVE  InTx(f, neu, old)'
  BY DEF InTx, SameMove, SameTx

(* The page of a file is to go: what the step does. *)
LEMMA TxDeleteDoes ==
    ASSUME Core, NEW f \in FilePage, NEW old \in Addr \union {NoAddr}, old = addr[f], Quiet, Room,
           prog = Then(ReplacePage(NoAddr, old), Tx4(f, NoAddr, old)),
           Next, ~PowerLoss
    PROVE  /\ Core' /\ NoteEffect /\ NoOp' /\ SameMove /\ buffer' = buffer /\ stored' = stored
           /\ replaced' /\ ~updated' /\ ~invalidated' /\ neuPage' = NoAddr /\ oldPage' = old
           /\ prog' = Tx4(f, NoAddr, old)
<1>1. NoteEntry(ReplacePage(NoAddr, old)) /\ prog' = Tx4(f, NoAddr, old)
  <2>1. PICK r : r = Tx4(f, NoAddr, old) /\ IsProg(r)
    BY Progs
  <2>2. PICK x : x = ReplacePage(NoAddr, old) /\ x.op \in NoteOp /\ ~IsCheckpoint(x, "summaryCache")
    BY NoteOps
  <2>3. prog = Then(x, r)
    BY <2>1, <2>2
  <2>4. QED
    BY <2>1, <2>2, <2>3, ExecNoteEntry, CoreParts
<1>2. Unreferenced(NoAddr)
  BY DEF Unreferenced
<1>3. /\ Core' /\ NoteEffect /\ NoOp' /\ SameMove /\ buffer' = buffer /\ stored' = stored
      /\ replaced' /\ ~updated' /\ ~invalidated' /\ neuPage' = NoAddr /\ oldPage' = old
  BY <1>1, <1>2, ReplaceStep
<1>4. QED
  BY <1>1, <1>3

(* And the stage it makes. *)
LEMMA TxDelete ==
    ASSUME Core, NEW f \in FilePage, NEW old \in Addr \union {NoAddr}, old = addr[f], Quiet, Room,
           prog = Then(ReplacePage(NoAddr, old), Tx4(f, NoAddr, old)),
           Next, ~PowerLoss, phase = "run", ops # Erased
    PROVE  Core' /\ Stage' /\ stored' = stored /\ ops' = ops
<1>3. /\ Core' /\ NoteEffect /\ NoOp' /\ SameMove /\ buffer' = buffer /\ stored' = stored
      /\ replaced' /\ ~updated' /\ ~invalidated' /\ neuPage' = NoAddr /\ oldPage' = old
      /\ prog' = Tx4(f, NoAddr, old)
  BY TxDeleteDoes
<1>4. SameStatus /\ map' = map /\ addr' = addr /\ phase' = phase /\ ops' = ops
  BY <1>3, NoteFrame
<1>5. Room' /\ mv' = "ok"
  BY <1>3, <1>4, RoomStays DEF Quiet, SameMove
<1>6. InTx(f, NoAddr, old)' /\ Written(NoAddr)'
  BY <1>3, <1>4, <1>5 DEF InTx, Written
<1>7. RunTx'
  BY <1>3, <1>5, <1>6 DEF RunTx
<1>8. QED
  BY <1>3, <1>4, <1>7, IntoRun

(* A free page counts as used: what the step does. *)
LEMMA TxUsesDoes ==
    ASSUME Core, NEW f \in FilePage, NEW neu \in Addr, NEW old \in Addr \union {NoAddr},
           prog = Tx1(f, neu, old), InTx(f, neu, old), NoOp,
           map.active["data"] = neu[1], logged[neu[1]][neu[2]] = "free",
           Next, ~PowerLoss
    PROVE  /\ Core' /\ SameMove /\ SameTx /\ NoOp' /\ SameRest /\ stored' = stored
           /\ buffer' = buffer /\ map' = map /\ addr' = addr /\ flash' = flash
           /\ logged' = [logged EXCEPT ![neu[1]] = [logged[neu[1]] EXCEPT ![neu[2]] = "used"]]
           /\ prog' = Tx2(f, neu, old)
<1>1. PICK a, p : a = neu[1] /\ p = neu[2] /\ a \in Area \ {0} /\ p \in Page
  BY DEF Addr
<1>2. /\ map.type[a] = "data" /\ ~Deleting(a) /\ mv = "ok"
      /\ logged[a] \in [Page -> SummaryEntry] /\ SummaryOf(map, sum, a) = logged[a]
  BY <1>1, CoreParts, IdleParts DEF ActiveOK, SumOK, InTx
<1>3. PICK e : e = SetStatus(neu, "used")
  OBVIOUS
<1>4. e.area = a /\ e.page = p /\ e.entry = "used" /\ e.op = "setStatus"
  BY <1>1, <1>3 DEF SetStatus
<1>5. PageStatus(a, p) = "free"
  BY <1>1, <1>2 DEF PageStatus
<1>6. SummaryApplied(map, sum, e)[a] # All("dirty")
  <2>1. SummaryApplied(map, sum, e) = WithSummary(sum, a, [logged[a] EXCEPT ![p] = "used"])
    BY <1>2, <1>4 DEF SummaryApplied
  <2>2. SummaryApplied(map, sum, e)[a] = [logged[a] EXCEPT ![p] = "used"]
    BY <2>1 DEF WithSummary
  <2>3. SummaryApplied(map, sum, e)[a][p] = "used" /\ All("dirty")[p] = "dirty"
    BY <1>1, <1>2, <2>2 DEF All
  <2>4. QED
    BY <2>3
<1>7. /\ log' = Append(log, e) /\ sum' = SummaryApplied(map, sum, e)
      /\ prog' = Tx2(f, neu, old)
      /\ UNCHANGED <<flashVars, index, map, addr, phase, found, bounds>>
  <2>1. PICK r : r = Tx2(f, neu, old) /\ IsProg(r)
    BY Progs
  <2>2. prog = Then(SetStatus(neu, "used"), r)
    BY <2>1 DEF Tx1
  <2>3. /\ sum' = SummaryApplied(map, sum, e)
        /\ IF PageStatus(e.area, e.page) = e.entry \/ map.type[e.area] = "unset"
              THEN prog' = r /\ UNCHANGED log
              ELSE /\ log' = Append(log, e)
                   /\ prog' = (IF SummaryApplied(map, sum, e)[e.area] = All("dirty")
                                  /\ map.pos[e.area] \notin asWritten
                               THEN <<WriteSummary(e.area)>> ELSE <<>>) \o r
        /\ UNCHANGED <<flashVars, index, map, addr, phase, found, bounds>>
    BY <1>3, <2>1, <2>2, ExecPageStatus
  <2>4. log' = Append(log, e) /\ prog' = <<>> \o r
    BY <2>3, <1>2, <1>4, <1>5, <1>6
  <2>5. QED
    BY <2>1, <2>3, <2>4, ProgFacts
<1>8. SumEntry(SetStatus(neu, "used"))
  BY <1>3, <1>4, <1>7, CoreParts DEF SumEntry, Grows, SummaryOp
<1>9. /\ Core' /\ SameMove /\ SameTx /\ NoOp' /\ SameRest /\ stored' = stored
      /\ buffer' = buffer /\ map' = map /\ addr' = addr /\ flash' = flash
      /\ logged' = [logged EXCEPT ![neu[1]] = [logged[neu[1]] EXCEPT ![neu[2]] = "used"]]
  <2>1. map.type[neu[1]] = "data" /\ mv = "ok"
    BY <1>1, <1>2
  <2>2. QED
    BY <1>8, <2>1, StatusStep
<1>10. QED
  BY <1>7, <1>9

(* And the stage it makes. *)
LEMMA TxUses ==
    ASSUME Core, NEW f \in FilePage, NEW neu \in Addr, NEW old \in Addr \union {NoAddr},
           prog = Tx1(f, neu, old), InTx(f, neu, old), NoOp,
           map.active["data"] = neu[1], logged[neu[1]][neu[2]] = "free",
           Next, ~PowerLoss, phase = "run", ops # Erased
    PROVE  Core' /\ Stage' /\ stored' = stored /\ ops' = ops
<1>1. PICK a, p : a = neu[1] /\ p = neu[2] /\ a \in Area \ {0} /\ p \in Page
  BY DEF Addr
<1>2. /\ map.type[a] = "data" /\ ~Deleting(a) /\ mv = "ok"
      /\ logged[a] \in [Page -> SummaryEntry]
  BY <1>1, CoreParts, IdleParts DEF ActiveOK, InTx
<1>9. /\ Core' /\ SameMove /\ SameTx /\ NoOp' /\ SameRest /\ stored' = stored
      /\ buffer' = buffer /\ map' = map /\ addr' = addr /\ flash' = flash
      /\ logged' = [logged EXCEPT ![neu[1]] = [logged[neu[1]] EXCEPT ![neu[2]] = "used"]]
      /\ prog' = Tx2(f, neu, old)
  BY TxUsesDoes
<1>10. InTx(f, neu, old)'
  BY <1>9, TxGoesOn
<1>11. flash[map.pos[a]][p] = Erased
  BY <1>1, <1>2, CoreParts DEF DataPages, Lost, FreeOK
<1>12. OwnPage(neu)' /\ flash'[map'.pos[neu[1]]][neu[2]] = Erased
  <2>1. logged'[a][p] = "used"
    BY <1>1, <1>2, <1>9, CoreParts
  <2>2. QED
    BY <1>1, <1>9, <1>11, <2>1 DEF OwnPage
<1>13. RunTx'
  BY <1>9, <1>10, <1>12 DEF RunTx
<1>14. QED
  BY <1>9, <1>13, IntoRun DEF SameRest

(* And is written: what the step does. *)
LEMMA TxWritesDoes ==
    ASSUME Core, NEW f \in FilePage, NEW neu \in Addr, NEW old \in Addr \union {NoAddr},
           prog = Tx2(f, neu, old), InTx(f, neu, old), NoOp, OwnPage(neu),
           flash[map.pos[neu[1]]][neu[2]] = Erased,
           Next, ~PowerLoss
    PROVE  /\ Core' /\ SameStatus /\ SameMove /\ SameTx /\ NoOp' /\ SameRest /\ stored' = stored
           /\ buffer' = buffer /\ map' = map /\ addr' = addr
           /\ flash'[map.pos[neu[1]]][neu[2]] = ops
           /\ prog' = Tx3(f, neu, old)
<1>1. PICK a, p : a = neu[1] /\ p = neu[2] /\ a \in Area \ {0} /\ p \in Page
  BY DEF Addr
<1>2. map.type[a] = "data" /\ mv = "ok" /\ Unreferenced(neu) /\ map.pos[a] \in Pos
  BY <1>1, CoreParts DEF ActiveOK, OwnPage, InTx, TxOK
<1>3. /\ flash' = [flash EXCEPT ![map.pos[a]][p] = ops] /\ prog' = Tx3(f, neu, old)
      /\ UNCHANGED <<asWritten, bad, index, log, ramVars, phase, found, bounds>>
  <2>1. PICK r : r = Tx3(f, neu, old) /\ IsProg(r)
    BY Progs
  <2>2. prog = Then(WritePage(neu), r)
    BY <2>1 DEF Tx2
  <2>3. QED
    BY <1>1, <2>1, <2>2, ExecWritePage
<1>4. flash \in [Pos -> [Page -> Erased .. MaxOps]] /\ asWritten \subseteq Pos /\ ops \in Erased .. MaxOps
  BY CoreParts DEF InFlash, Erased
<1>5. /\ \A q \in Pos : q # map.pos[a] => flash'[q] = flash[q]
      /\ flash'[map.pos[a]] = [flash[map.pos[a]] EXCEPT ![p] = ops]
      /\ flash' \in [Pos -> [Page -> Erased .. MaxOps]]
  BY <1>1, <1>2, <1>3, <1>4
<1>6. FlashStep /\ asWritten' = asWritten /\ map' = map /\ addr' = addr
  BY <1>3, <1>4, <1>5 DEF FlashStep, ramVars, bounds
<1>7. \A q \in Page : q # p => flash'[map.pos[a]][q] = flash[map.pos[a]][q]
  BY <1>2, <1>4, <1>5
<1>8. Core' /\ SameStatus /\ SameMove /\ SameTx /\ NoOp' /\ SameRest /\ stored' = stored
      /\ buffer' = buffer
  <2>1. /\ map.type[neu[1]] = "data" /\ logged[neu[1]][neu[2]] = "used"
        /\ \A q \in Pos : q # map.pos[neu[1]] => flash'[q] = flash[q]
        /\ \A q \in Page : q # neu[2] => flash'[map.pos[neu[1]]][q] = flash[map.pos[neu[1]]][q]
    BY <1>1, <1>2, <1>5, <1>7 DEF OwnPage
  <2>2. QED
    BY <1>2, <1>6, <2>1, WriteStep
<1>9. flash'[map.pos[a]][p] = ops
  BY <1>1, <1>2, <1>4, <1>5
<1>10. QED
  BY <1>1, <1>3, <1>6, <1>8, <1>9

(* And the stage it makes. *)
LEMMA TxWrites ==
    ASSUME Core, NEW f \in FilePage, NEW neu \in Addr, NEW old \in Addr \union {NoAddr},
           prog = Tx2(f, neu, old), InTx(f, neu, old), NoOp, OwnPage(neu),
           flash[map.pos[neu[1]]][neu[2]] = Erased,
           Next, ~PowerLoss, phase = "run", ops # Erased
    PROVE  Core' /\ Stage' /\ stored' = stored /\ ops' = ops
<1>8. /\ Core' /\ SameStatus /\ SameMove /\ SameTx /\ NoOp' /\ SameRest /\ stored' = stored
      /\ buffer' = buffer /\ map' = map /\ addr' = addr
      /\ flash'[map.pos[neu[1]]][neu[2]] = ops
      /\ prog' = Tx3(f, neu, old)
  BY TxWritesDoes
<1>9. InTx(f, neu, old)'
  BY <1>8, TxGoesOn
<1>10. OwnPage(neu)' /\ Written(neu)'
  BY <1>8 DEF OwnPage, Written, SameStatus, SameRest
<1>11. RunTx'
  BY <1>8, <1>9, <1>10 DEF RunTx
<1>12. QED
  BY <1>8, <1>11, IntoRun DEF SameRest

(* A full area is to be closed: what the step does. *)
LEMMA TxFullDoes ==
    ASSUME Core, NEW f \in FilePage, NEW neu \in Addr, NEW old \in Addr \union {NoAddr},
           prog = Tx3(f, neu, old), InTx(f, neu, old), NoOp, OwnPage(neu), Written(neu),
           Next, ~PowerLoss
    PROVE  /\ Core' /\ SameMove /\ SameTx /\ NoOp' /\ SameRest /\ stored' = stored
           /\ buffer' = buffer /\ logged' = logged
           /\ map' = map /\ addr' = addr /\ flash' = flash
           /\ prog' = (IF FreePages(neu[1]) = {} THEN <<CloseArea(neu[1])>> ELSE <<>>)
                      \o Tx4(f, neu, old)
<1>1. PICK a : a = neu[1] /\ a \in Area \ {0} /\ map.active["data"] = a
  BY DEF Addr, OwnPage
<1>2. /\ map.type[a] = "data" /\ SummaryOf(map, sum, a) = ram[a] /\ ram[a] = logged[a]
  BY <1>1, CoreParts, IdleParts DEF ActiveOK, SumOK
<1>p. PICK r : r = Tx4(f, neu, old) /\ IsProg(r)
  BY Progs
<1>3. /\ prog' = (IF FreePages(a) = {} THEN <<CloseArea(a)>> ELSE <<>>) \o r
      /\ sum' = WithSummary(sum, a, SummaryOf(map, sum, a))
      /\ UNCHANGED <<flashVars, index, log, map, addr, phase, found, bounds>>
  <2>1. prog = Then(ManageActiveAreaFull("data"), r)
    BY <1>p DEF Tx3
  <2>2. QED
    BY <1>1, <1>p, <2>1, ExecManageFull
<1>4. /\ Core' /\ SameMove /\ SameTx /\ NoOp' /\ SameRest /\ stored' = stored
      /\ buffer' = buffer /\ logged' = logged
  BY <1>1, <1>2, <1>3, CacheStep DEF flashVars, bounds
<1>5. map' = map /\ addr' = addr /\ flash' = flash /\ phase' = phase /\ ops' = ops
  BY <1>3 DEF flashVars, bounds
<1>6. QED
  BY <1>1, <1>p, <1>3, <1>4, <1>5

(* And the stage it makes. *)
LEMMA TxFull ==
    ASSUME Core, NEW f \in FilePage, NEW neu \in Addr, NEW old \in Addr \union {NoAddr},
           prog = Tx3(f, neu, old), InTx(f, neu, old), NoOp, OwnPage(neu), Written(neu),
           Next, ~PowerLoss, phase = "run", ops # Erased
    PROVE  Core' /\ Stage' /\ stored' = stored /\ ops' = ops
<1>1. PICK a : a = neu[1] /\ a \in Area \ {0} /\ map.active["data"] = a
  BY DEF Addr, OwnPage
<1>2. /\ map.type[a] = "data" /\ SummaryOf(map, sum, a) = ram[a] /\ ram[a] = logged[a]
  BY <1>1, CoreParts, IdleParts DEF ActiveOK, SumOK
<1>p. PICK r : r = Tx4(f, neu, old) /\ IsProg(r)
  BY Progs
<1>4. /\ Core' /\ SameMove /\ SameTx /\ NoOp' /\ SameRest /\ stored' = stored
      /\ buffer' = buffer /\ logged' = logged
      /\ map' = map /\ addr' = addr /\ flash' = flash
      /\ prog' = (IF FreePages(a) = {} THEN <<CloseArea(a)>> ELSE <<>>) \o r
  BY <1>1, <1>p, TxFullDoes
<1>3. prog' = (IF FreePages(a) = {} THEN <<CloseArea(a)>> ELSE <<>>) \o r
  BY <1>4
<1>5. map' = map /\ addr' = addr /\ flash' = flash /\ phase' = phase /\ ops' = ops
  BY <1>4 DEF SameRest
<1>6. InTx(f, neu, old)' /\ OwnPage(neu)' /\ Written(neu)'
  BY <1>4, <1>5, TxGoesOn DEF OwnPage, Written
<1>7. CASE FreePages(a) = {}
  <2>1. prog' = Then(CloseArea(a), r)
    BY <1>3, <1>7, <1>p, ThenOne
  <2>2. RunTx'
    BY <1>1, <1>p, <1>4, <1>6, <2>1 DEF RunTx
  <2>3. QED
    BY <1>4, <1>5, <2>2, IntoRun
<1>8. CASE FreePages(a) # {}
  <2>1. prog' = r
    BY <1>3, <1>8, <1>p, ProgFacts
  <2>2. Room'
    BY <1>1, <1>2, <1>4, <1>5, <1>8 DEF Room, FreePages, Pages
  <2>3. RunTx'
    BY <1>p, <1>4, <1>6, <2>1, <2>2 DEF RunTx
  <2>4. QED
    BY <1>4, <1>5, <2>3, IntoRun
<1>9. QED
  BY <1>7, <1>8

(* It is. *)
LEMMA TxCloses ==
    ASSUME Core, NEW f \in FilePage, NEW neu \in Addr, NEW old \in Addr \union {NoAddr},
           prog = Then(CloseArea(neu[1]), Tx4(f, neu, old)), InTx(f, neu, old), NoOp,
           OwnPage(neu), Written(neu),
           Next, ~PowerLoss, phase = "run", ops # Erased
    PROVE  Core' /\ Stage' /\ stored' = stored /\ ops' = ops
<1>1. PICK a : a = neu[1] /\ a \in Area \ {0} /\ map.active["data"] = a /\ mv = "ok"
  BY DEF Addr, OwnPage, InTx
<1>p. PICK r : r = Tx4(f, neu, old) /\ IsProg(r)
  BY Progs
<1>2. Core' /\ OpStarts(CloseArea(a)) /\ mv' = mv /\ OpRuns(r)'
  BY <1>1, <1>p, CloseRuns
<1>3. /\ SameTx /\ SameStatus /\ target' = target /\ addr' = addr /\ map' = map /\ flash' = flash
      /\ phase' = phase /\ ops' = ops /\ stored' = stored /\ lastOp' = CloseArea(a)
  BY <1>2, StartFrame DEF SameRest
<1>4. InTx(f, neu, old)' /\ Written(neu)'
  BY <1>2, <1>3, TxGoesOn DEF SameMove, Written, SameStatus
<1>5. lastOp'.op = "closeArea"
  BY <1>3, OpNames
<1>6. RunOp'
  BY <1>p, <1>2, <1>4, <1>5 DEF RunOp
<1>7. QED
  BY <1>2, <1>3, <1>6, IntoRun

(* The tree learns of the new page: what the step does. *)
LEMMA TxUpdatesDoes ==
    ASSUME Core, NEW f \in FilePage, NEW neu \in Addr \union {NoAddr},
           NEW old \in Addr \union {NoAddr},
           prog = Tx4(f, neu, old), InTx(f, neu, old), NoOp, Room, Written(neu),
           Next, ~PowerLoss, ops # Erased
    PROVE  /\ Core' /\ SameMove /\ NoOp' /\ SameRest /\ SameStatus /\ map' = map
           /\ replaced' /\ updated' /\ (invalidated' <=> invalidated) /\ oldPage' = oldPage
           /\ stored' = [stored EXCEPT ![f] = IF neu = NoAddr THEN {}
                                              ELSE {flash[map.pos[neu[1]]][neu[2]]}]
           /\ Unreferenced(oldPage)'
           /\ addr' = [addr EXCEPT ![f] = neu] /\ prog' = RetireTail(old)
<1>p. PICK r : r = RetireTail(old) /\ IsProg(r)
  BY Progs
<1>1. /\ log' = Append(log, UpdateInode(f, neu)) /\ prog' = r
      /\ addr' = [addr EXCEPT ![f] = neu]
      /\ UNCHANGED <<flashVars, index, map, sum, phase, found, bounds>>
  <2>1. prog = Then(UpdateInode(f, neu), r)
    BY <1>p DEF Tx4
  <2>2. QED
    BY <1>p, <2>1, ExecUpdate
<1>2. /\ mv = "ok" /\ replaced /\ ~updated /\ neuPage = neu /\ oldPage = old /\ old = addr[f]
  BY DEF InTx
<1>3. neu # NoAddr => /\ logged[neu[1]][neu[2]] = "used"
                      /\ flash[map.pos[neu[1]]][neu[2]] = ops
                      /\ flash[map.pos[neu[1]]][neu[2]] # Erased
  BY DEF Written
<1>4. /\ Core' /\ SameMove /\ NoOp' /\ SameRest /\ SameStatus /\ map' = map
      /\ replaced' /\ updated' /\ (invalidated' <=> invalidated) /\ oldPage' = oldPage
      /\ stored' = [stored EXCEPT ![f] = IF neu = NoAddr THEN {}
                                         ELSE {flash[map.pos[neu[1]]][neu[2]]}]
      /\ Unreferenced(oldPage)'
  BY <1>1, <1>2, <1>3, CoreParts, UpdateStep
<1>5. QED
  BY <1>p, <1>1, <1>4

(* And the stage it makes. *)
LEMMA TxUpdates ==
    ASSUME Core, NEW f \in FilePage, NEW neu \in Addr \union {NoAddr},
           NEW old \in Addr \union {NoAddr},
           prog = Tx4(f, neu, old), InTx(f, neu, old), NoOp, Room, Written(neu),
           Next, ~PowerLoss, phase = "run", ops # Erased
    PROVE  /\ Core' /\ Stage' /\ ops' = ops
           /\ stored' = [stored EXCEPT ![f] = IF neu = NoAddr THEN {} ELSE {ops}]
<1>p. PICK r : r = RetireTail(old) /\ IsProg(r)
  BY Progs
<1>2. /\ mv = "ok" /\ replaced /\ ~updated /\ neuPage = neu /\ oldPage = old /\ old = addr[f]
  BY DEF InTx
<1>3. neu # NoAddr => flash[map.pos[neu[1]]][neu[2]] = ops
  BY DEF Written
<1>4. /\ Core' /\ SameMove /\ NoOp' /\ SameRest /\ SameStatus /\ map' = map
      /\ replaced' /\ updated' /\ (invalidated' <=> invalidated) /\ oldPage' = oldPage
      /\ stored' = [stored EXCEPT ![f] = IF neu = NoAddr THEN {}
                                         ELSE {flash[map.pos[neu[1]]][neu[2]]}]
      /\ Unreferenced(oldPage)'
      /\ addr' = [addr EXCEPT ![f] = neu] /\ prog' = r
  BY <1>p, TxUpdatesDoes
<1>1. prog' = r
  BY <1>4
<1>5. stored' = [stored EXCEPT ![f] = IF neu = NoAddr THEN {} ELSE {ops}]
  BY <1>3, <1>4
<1>6. Room' /\ mv' = "ok" /\ phase' = "run" /\ ops' = ops
  BY <1>2, <1>4, RoomStays DEF SameMove, SameRest
<1>7. CASE old = NoAddr
  <2>1. prog' = CpData
    BY <1>1, <1>7, <1>p DEF RetireTail
  <2>2. RunTx'
    BY <1>4, <1>6, <2>1 DEF RunTx
  <2>3. QED
    BY <1>4, <1>5, <1>6, <2>2, IntoRun
<1>8. CASE old # NoAddr
  <2>1. prog' = Then(SetStatus(old, "dirty"), Then(InvalidateOldPages, CpData))
    BY <1>1, <1>8, <1>p DEF RetireTail
  <2>2. Invalidate' = Then(InvalidateOldPages, CpData)
    BY <1>6 DEF Invalidate, Behind1, CpData, NoProg
  <2>3. old \in Addr /\ old[1] \in Area /\ old[2] \in Page
    BY <1>8 DEF Addr
  <2>4. logged[old[1]][old[2]] = "used"
    BY <1>2, <1>8, <2>3, CoreParts, IdleParts DEF FilesOK, DataPages, Lost, UsedOK
  <2>5. Unreferenced(old)'
    BY <1>2, <1>4
  <2>6. RetireOld'
    BY <1>4, <1>6, <2>1, <2>2, <2>3, <2>4, <2>5 DEF RetireOld, SameStatus
  <2>7. Stage'
    BY <1>6, <2>6 DEF Stage
  <2>8. QED
    BY <1>4, <1>5, <1>6, <2>7
<1>9. QED
  BY <1>7, <1>8

(* The end of a call. *)
LEMMA TxEnds ==
    ASSUME Core, prog = CpData, NoOp, mv = "ok", Room,
           Next, ~PowerLoss, phase = "run", ops # Erased
    PROVE  Core' /\ Stage' /\ stored' = stored /\ ops' = ops
<1>1. NoteEntry(Checkpoint("dataIO")) /\ prog' = NoProg
  BY ExecNoteEntry, Progs, NoteOps, CoreParts DEF CpData
<1>2. /\ Core' /\ NoteEffect /\ NoOp' /\ SameMove /\ ~replaced' /\ stored' = stored
  BY <1>1, DataIOCheckpoint
<1>3. Room' /\ Quiet' /\ phase' = phase /\ ops' = ops
  BY <1>2, NoteFrame, RoomStays DEF Quiet, SameMove
<1>4. RunRoom'
  BY <1>1, <1>3 DEF RunRoom
<1>5. QED
  BY <1>2, <1>3, <1>4, IntoRun

(* Only the update changes what the files hold. *)
UpdatesOf(f, c) == stored' = [stored EXCEPT ![f] = c]

(* Every step of a transaction that replaces a page keeps the invariant and
   changes at most one file. *)
LEMMA TxStep ==
    ASSUME Core, ops # Erased, phase = "run", RunTx, Next, ~PowerLoss
    PROVE  /\ Core' /\ Stage' /\ ops' = ops
           /\ \/ stored' = stored
              \/ \E f \in FilePage : UpdatesOf(f, {}) \/ UpdatesOf(f, {ops})
<1>1. CASE prog = CpData /\ NoOp /\ mv = "ok" /\ Room /\ replaced /\ updated
  BY <1>1, TxEnds
<1>2. CASE \E f \in FilePage, neu \in Addr \union {NoAddr}, old \in Addr \union {NoAddr} :
        \/ /\ prog = Then(ReplacePage(NoAddr, old), Tx4(f, NoAddr, old))
           /\ Quiet /\ Room /\ old = addr[f]
        \/ /\ prog = Tx1(f, neu, old)
           /\ InTx(f, neu, old) /\ NoOp
           /\ neu \in Addr /\ map.active["data"] = neu[1]
           /\ logged[neu[1]][neu[2]] = "free"
        \/ /\ prog = Tx2(f, neu, old)
           /\ InTx(f, neu, old) /\ NoOp /\ OwnPage(neu)
           /\ flash[map.pos[neu[1]]][neu[2]] = Erased
        \/ /\ prog = Tx3(f, neu, old)
           /\ InTx(f, neu, old) /\ NoOp /\ OwnPage(neu) /\ Written(neu)
        \/ /\ prog = Then(CloseArea(neu[1]), Tx4(f, neu, old))
           /\ InTx(f, neu, old) /\ NoOp /\ OwnPage(neu) /\ Written(neu)
        \/ /\ prog = Tx4(f, neu, old)
           /\ InTx(f, neu, old) /\ NoOp /\ Room /\ Written(neu)
  <2>1. PICK f \in FilePage, neu \in Addr \union {NoAddr}, old \in Addr \union {NoAddr} :
        \/ /\ prog = Then(ReplacePage(NoAddr, old), Tx4(f, NoAddr, old))
           /\ Quiet /\ Room /\ old = addr[f]
        \/ /\ prog = Tx1(f, neu, old)
           /\ InTx(f, neu, old) /\ NoOp
           /\ neu \in Addr /\ map.active["data"] = neu[1]
           /\ logged[neu[1]][neu[2]] = "free"
        \/ /\ prog = Tx2(f, neu, old)
           /\ InTx(f, neu, old) /\ NoOp /\ OwnPage(neu)
           /\ flash[map.pos[neu[1]]][neu[2]] = Erased
        \/ /\ prog = Tx3(f, neu, old)
           /\ InTx(f, neu, old) /\ NoOp /\ OwnPage(neu) /\ Written(neu)
        \/ /\ prog = Then(CloseArea(neu[1]), Tx4(f, neu, old))
           /\ InTx(f, neu, old) /\ NoOp /\ OwnPage(neu) /\ Written(neu)
        \/ /\ prog = Tx4(f, neu, old)
           /\ InTx(f, neu, old) /\ NoOp /\ Room /\ Written(neu)
    BY <1>2
  <2>2. OwnPage(neu) => neu \in Addr
    BY DEF OwnPage
  <2>3. CASE prog = Tx4(f, neu, old) /\ InTx(f, neu, old) /\ NoOp /\ Room /\ Written(neu)
    <3>1. /\ Core' /\ Stage' /\ ops' = ops
          /\ stored' = [stored EXCEPT ![f] = IF neu = NoAddr THEN {} ELSE {ops}]
      BY <2>3, TxUpdates
    <3>2. QED
      BY <3>1 DEF UpdatesOf
  <2>4. QED
    BY <2>1, <2>2, <2>3, TxDelete, TxUses, TxWrites, TxFull, TxCloses
<1>3. QED
  BY <1>1, <1>2 DEF RunTx

-----------------------------------------------------------------------------
(* Getting rid of the old page, in a call and in a mount.                  *)

(* The parts that stay until the old pages are invalidated. *)
Retiring ==
    /\ NoOp /\ mv = "ok" /\ replaced
    /\ phase = "run" => updated /\ Room
    /\ phase \in {"run", "dataIO"}

(* The end of a transaction stays what it is through a step that changes no
   entry of it. *)
LEMMA RetiringStays ==
    ASSUME Retiring, NoOp', SameMove, SameTx, phase' = phase, phase = "run" => Room'
    PROVE  Retiring'
  BY DEF Retiring, SameMove, SameTx

(* What is left to do, and the stage it makes. *)
RetireNext ==
    \/ \E x \in Addr :
            /\ prog = Then(SetStatus(x, "dirty"), Invalidate) /\ Unreferenced(x)
            /\ phase = "run" => logged[x[1]][x[2]] # "free"
    \/ \E a \in Area :
            /\ map.type[a] = "data" /\ \A p \in Page : logged[a][p] = "dirty"
            /\ \/ prog = Then(WriteSummary(a), Invalidate)
               \/ prog = Then(Commit(a), Invalidate) /\ map.pos[a] \in asWritten
    \/ prog = Invalidate

(* The end of a transaction is the entries it has and the program that is
   left. *)
LEMMA RetireParts == RetireOld <=> Retiring /\ RetireNext
  BY DEF RetireOld, Retiring, RetireNext

(* A step that reaches the end of a transaction is in a stage of the
   invariant. *)
LEMMA IntoRetire ==
    ASSUME Retiring', RetireNext', phase = "run" => ops # Erased, phase' = phase, ops' = ops
    PROVE  Stage'
<1>1. (Retiring /\ RetireNext => RetireOld)'
  BY RetireParts, PTL
<1>2. QED
  BY <1>1 DEF Stage

(* The program behind it stays. *)
LEMMA InvalidateStays ==
    ASSUME phase' = phase
    PROVE  Invalidate' = Invalidate
  BY DEF Invalidate, Behind1, CpData, FullData, NoProg

(* The old page gets dirty: what the step does. *)
LEMMA RetireStatusDoes ==
    ASSUME Core, Retiring, NEW x \in Addr,
           prog = Then(SetStatus(x, "dirty"), Invalidate), Unreferenced(x),
           Next, ~PowerLoss
    PROVE  /\ Core' /\ SameMove /\ SameTx /\ NoOp' /\ SameRest /\ stored' = stored
           /\ map' = map /\ addr' = addr
           /\ logged' = [logged EXCEPT ![x[1]] = [logged[x[1]] EXCEPT ![x[2]] = "dirty"]]
           /\ \/ prog' = Invalidate
              \/ /\ prog' = Then(WriteSummary(x[1]), Invalidate)
                 /\ \A q \in Page : logged'[x[1]][q] = "dirty"
<1>1. PICK a, p : a = x[1] /\ p = x[2] /\ a \in Area \ {0} /\ p \in Page
  BY DEF Addr
<1>2. NoOp /\ mv = "ok" /\ x # NoAddr
  BY DEF Retiring, Addr, NoAddr
<1>3. /\ map.type[a] = "data" /\ SummaryOf(map, sum, a) = logged[a] /\ ram[a] = logged[a]
      /\ logged[a] \in [Page -> SummaryEntry]
  BY <1>1, <1>2, CoreParts, IdleParts DEF Unreferenced, SumOK
<1>p. PICK r : r = Invalidate /\ IsProg(r)
  BY Progs
<1>4. PICK e : e = SetStatus(x, "dirty")
  OBVIOUS
<1>5. e.area = a /\ e.page = p /\ e.entry = "dirty" /\ e.op = "setStatus"
  BY <1>1, <1>4 DEF SetStatus
<1>6. PICK new : new = [logged[a] EXCEPT ![p] = "dirty"]
  OBVIOUS
<1>7. SummaryApplied(map, sum, e) = WithSummary(sum, a, new) /\ SummaryApplied(map, sum, e)[a] = new
  <2>1. SummaryApplied(map, sum, e) = WithSummary(sum, a, new)
    BY <1>3, <1>5, <1>6 DEF SummaryApplied
  <2>2. QED
    BY <2>1 DEF WithSummary
<1>8. /\ sum' = WithSummary(sum, a, new)
      /\ IF logged[a][p] = "dirty"
         THEN prog' = r /\ log' = log
         ELSE /\ log' = Append(log, e)
              /\ prog' = (IF new = All("dirty") /\ map.pos[a] \notin asWritten
                          THEN <<WriteSummary(a)>> ELSE <<>>) \o r
      /\ UNCHANGED <<flashVars, index, map, addr, phase, found, bounds>>
  <2>1. prog = Then(SetStatus(x, "dirty"), r)
    BY <1>p
  <2>2. /\ sum' = SummaryApplied(map, sum, e)
        /\ IF PageStatus(e.area, e.page) = e.entry \/ map.type[e.area] = "unset"
              THEN prog' = r /\ UNCHANGED log
              ELSE /\ log' = Append(log, e)
                   /\ prog' = (IF SummaryApplied(map, sum, e)[e.area] = All("dirty")
                                  /\ map.pos[e.area] \notin asWritten
                               THEN <<WriteSummary(e.area)>> ELSE <<>>) \o r
        /\ UNCHANGED <<flashVars, index, map, addr, phase, found, bounds>>
    BY <1>4, <1>p, <2>1, ExecPageStatus
  <2>3. PageStatus(a, p) = logged[a][p] /\ map.type[a] # "unset"
    BY <1>3 DEF PageStatus
  <2>4. QED
    BY <2>2, <2>3, <1>5, <1>7
<1>9. CASE logged[a][p] = "dirty"
  <2>1. new = ram[a]
    BY <1>3, <1>6, <1>9
  <2>2. prog' = r /\ log' = log
    BY <1>8, <1>9
  <2>3. /\ Core' /\ SameMove /\ SameTx /\ NoOp' /\ SameRest /\ stored' = stored
        /\ logged' = logged
    BY <1>1, <1>2, <1>3, <1>8, <2>1, <2>2, CacheStep DEF flashVars, bounds
  <2>4. logged = [logged EXCEPT ![a] = [logged[a] EXCEPT ![p] = "dirty"]]
    <3>1. logged[a] = [logged[a] EXCEPT ![p] = "dirty"]
      BY <1>1, <1>3, <1>9
    <3>2. logged \in [Area -> [Page -> SummaryEntry]]
      BY CoreParts
    <3>3. QED
      BY <3>1, <3>2
  <2>5. QED
    BY <1>1, <1>8, <1>p, <2>2, <2>3, <2>4
<1>10. CASE logged[a][p] # "dirty"
  <2>1. log' = Append(log, e) /\ prog' = (IF new = All("dirty") /\ map.pos[a] \notin asWritten
                                          THEN <<WriteSummary(a)>> ELSE <<>>) \o r
    BY <1>8, <1>10
  <2>2. SumEntry(SetStatus(x, "dirty"))
    BY <1>4, <1>5, <1>7, <1>8, <2>1, CoreParts DEF SumEntry, Grows, SummaryOp
  <2>3. /\ Core' /\ SameMove /\ SameTx /\ NoOp' /\ SameRest /\ stored' = stored
        /\ logged' = [logged EXCEPT ![x[1]] = [logged[x[1]] EXCEPT ![x[2]] = "dirty"]]
    <3>1. map.type[x[1]] = "data"
      BY <1>1, <1>3
    <3>2. QED
      BY <1>2, <2>2, <3>1, StatusStep
  <2>4. \/ prog' = r
        \/ prog' = Then(WriteSummary(a), r) /\ \A q \in Page : logged'[a][q] = "dirty"
    <3>1. CASE new = All("dirty") /\ map.pos[a] \notin asWritten
      <4>1. prog' = Then(WriteSummary(a), r)
        BY <1>p, <2>1, <3>1, ThenOne
      <4>2. \A q \in Page : logged'[a][q] = "dirty"
        BY <1>1, <1>6, <2>3, <3>1, CoreParts DEF All
      <4>3. QED
        BY <4>1, <4>2
    <3>2. CASE ~(new = All("dirty") /\ map.pos[a] \notin asWritten)
      BY <1>p, <2>1, <3>2, ProgFacts
    <3>3. QED
      BY <3>1, <3>2
  <2>5. QED
    BY <1>1, <1>8, <1>p, <2>3, <2>4
<1>11. QED
  BY <1>9, <1>10

(* And the stage it makes. *)
LEMMA RetireStatus ==
    ASSUME Core, Retiring, phase = "run" => ops # Erased, NEW x \in Addr,
           prog = Then(SetStatus(x, "dirty"), Invalidate), Unreferenced(x),
           phase = "run" => logged[x[1]][x[2]] # "free",
           Next, ~PowerLoss
    PROVE  Core' /\ Stage' /\ stored' = stored /\ ops' = ops
<1>1. PICK a, p : a = x[1] /\ p = x[2] /\ a \in Area \ {0} /\ p \in Page
  BY DEF Addr
<1>2. map.type[a] = "data" /\ logged \in [Area -> [Page -> SummaryEntry]] /\ x # NoAddr
  BY <1>1, CoreParts DEF Unreferenced, Addr, NoAddr
<1>3. /\ Core' /\ SameMove /\ SameTx /\ NoOp' /\ SameRest /\ stored' = stored
      /\ map' = map /\ addr' = addr
      /\ logged' = [logged EXCEPT ![a] = [logged[a] EXCEPT ![p] = "dirty"]]
      /\ \/ prog' = Invalidate
         \/ /\ prog' = Then(WriteSummary(a), Invalidate)
            /\ \A q \in Page : logged'[a][q] = "dirty"
  BY <1>1, RetireStatusDoes
<1>4. phase' = phase /\ ops' = ops
  BY <1>3 DEF SameRest
<1>5. phase = "run" => Room'
  <2>1. SUFFICES ASSUME phase = "run", map.active["data"] # 0
                 PROVE  \E q \in Page : logged'[map.active["data"]][q] = "free"
    BY <1>3 DEF Room
  <2>2. PICK q \in Page : logged[map.active["data"]][q] = "free"
    BY <2>1 DEF Retiring, Room
  <2>3. map.active["data"] \in Area
    BY CoreParts, Constants DEF AreaType
  <2>4. logged'[map.active["data"]][q] = "free"
    <3>1. CASE map.active["data"] = a
      <4>1. q # p
        BY <1>1, <2>1, <2>2, <3>1
      <4>2. QED
        BY <1>1, <1>2, <1>3, <2>2, <2>3, <3>1, <4>1
    <3>2. CASE map.active["data"] # a
      BY <1>1, <1>2, <1>3, <2>2, <2>3, <3>2
    <3>3. QED
      BY <3>1, <3>2
  <2>5. QED
    BY <2>4
<1>6. Retiring'
  BY <1>3, <1>4, <1>5, RetiringStays
<1>7. Invalidate' = Invalidate
  BY <1>4, InvalidateStays
<1>8. RetireNext'
  <2>1. CASE prog' = Invalidate
    BY <1>7, <2>1 DEF RetireNext
  <2>2. CASE prog' = Then(WriteSummary(a), Invalidate) /\ \A q \in Page : logged'[a][q] = "dirty"
    BY <1>1, <1>2, <1>3, <1>7, <2>2 DEF RetireNext
  <2>3. QED
    BY <1>3, <2>1, <2>2
<1>9. QED
  BY <1>3, <1>4, <1>6, <1>8, IntoRetire

(* With the last page the summary page is written, and that is logged. *)
LEMMA RetireSummary ==
    ASSUME Core, Retiring, phase = "run" => ops # Erased, NEW a \in Area,
           map.type[a] = "data", \A p \in Page : logged[a][p] = "dirty",
           \/ prog = Then(WriteSummary(a), Invalidate)
           \/ prog = Then(Commit(a), Invalidate) /\ map.pos[a] \in asWritten,
           Next, ~PowerLoss
    PROVE  Core' /\ Stage' /\ stored' = stored /\ ops' = ops
<1>1. NoOp /\ mv = "ok"
  BY DEF Retiring
<1>p. PICK r : r = Invalidate /\ IsProg(r)
  BY Progs
<1>2. CASE prog = Then(WriteSummary(a), Invalidate)
  <2>1. /\ asWritten' = asWritten \union {map.pos[a]} /\ prog' = Then(Commit(a), r)
        /\ UNCHANGED <<flash, bad, index, log, ramVars, phase, found, bounds>>
    BY <1>2, <1>p, ExecWriteSummary
  <2>2. map.pos[a] \in Pos
    BY CoreParts
  <2>3. FlashStep /\ flash' = flash
    BY <2>1, <2>2, CoreParts DEF FlashStep, InFlash, ramVars, bounds
  <2>4. Core' /\ SameStatus /\ SameMove /\ SameTx /\ NoOp' /\ SameRest /\ stored' = stored
    BY <1>1, <2>1, <2>3, SummaryPageStep
  <2>5. map' = map /\ phase' = phase /\ ops' = ops
    BY <2>1 DEF ramVars, bounds
  <2>6. Retiring'
    BY <2>4, <2>5, RoomStays, RetiringStays DEF Retiring
  <2>7. Invalidate' = r
    BY <1>p, <2>5, InvalidateStays
  <2>8. map'.pos[a] \in asWritten' /\ map'.type[a] = "data" /\ \A p \in Page : logged'[a][p] = "dirty"
    BY <2>1, <2>4, <2>5 DEF SameStatus
  <2>9. RetireNext'
    BY <2>1, <2>7, <2>8 DEF RetireNext
  <2>10. QED
    BY <2>4, <2>5, <2>6, <2>9, IntoRetire
<1>3. CASE prog = Then(Commit(a), Invalidate) /\ map.pos[a] \in asWritten
  <2>1. SumEntry(Commit(a)) /\ prog' = r
    <3>1. PICK x : x = Commit(a) /\ x.op \in {"setStatusBlock", "remove", "reset", "commit"}
      BY DEF Commit
    <3>2. prog = Then(x, r)
      BY <1>3, <1>p, <3>1
    <3>3. QED
      BY <1>p, <3>1, <3>2, ExecSumEntry, CoreParts
  <2>2. /\ Core' /\ SameMove /\ SameTx /\ NoOp' /\ SameRest /\ stored' = stored
        /\ map' = map /\ logged' = logged
    BY <1>1, <1>3, <2>1, CommitStep
  <2>3. phase' = phase /\ ops' = ops
    BY <2>2 DEF SameRest
  <2>4. phase = "run" => Room'
    BY <2>2 DEF Room, Retiring
  <2>5. Retiring'
    BY <2>2, <2>3, <2>4, RetiringStays
  <2>6. Invalidate' = r
    BY <1>p, <2>3, InvalidateStays
  <2>7. RetireNext'
    BY <2>1, <2>6 DEF RetireNext
  <2>8. QED
    BY <2>2, <2>3, <2>5, <2>7, IntoRetire
<1>4. QED
  BY <1>2, <1>3

(* The old pages are invalidated. *)
LEMMA RetireInvalidates ==
    ASSUME Core, Retiring, phase = "run" => ops # Erased, prog = Invalidate,
           Next, ~PowerLoss
    PROVE  Core' /\ Stage' /\ stored' = stored /\ ops' = ops
<1>1. NoOp /\ mv = "ok" /\ replaced /\ phase \in {"run", "dataIO"}
  BY DEF Retiring
<1>p. PICK r : r = Behind1 /\ IsProg(r)
  BY Progs
<1>2. NoteEntry(InvalidateOldPages) /\ prog' = r
  <2>1. prog = Then(InvalidateOldPages, r)
    BY <1>p DEF Invalidate
  <2>2. QED
    BY <1>p, <2>1, ExecNoteEntry, NoteOps, CoreParts
<1>3. /\ Core' /\ NoteEffect /\ NoOp' /\ SameMove /\ buffer' = buffer /\ stored' = stored
      /\ (replaced' <=> replaced) /\ (replaced => invalidated' /\ (updated' <=> updated))
  BY <1>1, <1>2, InvalidateStep
<1>4. SameStatus /\ map' = map /\ phase' = phase /\ ops' = ops
  BY <1>3, NoteFrame
<1>5. CASE phase = "run"
  <2>1. updated /\ Room
    BY <1>5 DEF Retiring
  <2>2. prog' = CpData
    BY <1>2, <1>5, <1>p DEF Behind1
  <2>3. Room' /\ mv' = "ok" /\ replaced' /\ updated'
    BY <1>1, <1>3, <1>4, <2>1, RoomStays DEF SameMove
  <2>4. RunTx'
    BY <1>3, <2>2, <2>3 DEF RunTx
  <2>5. QED
    BY <1>3, <1>4, <1>5, <2>4, IntoRun
<1>6. CASE phase = "dataIO"
  <2>1. prog' = FullData
    BY <1>2, <1>6, <1>p DEF Behind1
  <2>2. phase' = "dataIO" /\ mv' = "ok" /\ replaced' /\ invalidated'
    BY <1>1, <1>3, <1>4, <1>6 DEF SameMove
  <2>3. MountDataIO'
    BY <1>3, <2>1, <2>2 DEF MountDataIO, FullData
  <2>4. QED
    BY <1>3, <1>4, <2>3 DEF Stage
<1>7. QED
  BY <1>1, <1>5, <1>6

(* All steps of it. *)
LEMMA RetireStep ==
    ASSUME Core, RetireOld, phase = "run" => ops # Erased, Next, ~PowerLoss
    PROVE  Core' /\ Stage' /\ stored' = stored /\ ops' = ops
<1>1. Retiring /\ RetireNext
  BY RetireParts
<1>2. QED
  BY <1>1, RetireStatus, RetireSummary, RetireInvalidates DEF RetireNext

-----------------------------------------------------------------------------
(* The journal is empty: all is in the superindex.                         *)

(* The superindex holds what is in RAM, and that agrees with the flash. *)
Saved ==
    /\ index.map = map /\ index.addr = addr
    /\ index.sum = [a \in {a \in cached : map.pos[a] \notin asWritten} |-> sum[a]]
    /\ MapOK /\ FilesOK /\ PagesInRAM

(* What an empty journal tells. *)
LEMMA EmptyLog ==
    ASSUME log = <<>>
    PROVE  /\ IsProg(log) /\ NoOp /\ ext = "none" /\ mv = "ok" /\ target = 0 /\ ~replaced
           /\ \A a : Live(a) = {} /\ firstUncommitted(a) = 0 /\ (InLog(a) <=> a \in DOMAIN index.sum)
           /\ \A a, p : LogStatus(a, p) = IF a \in DOMAIN index.sum THEN index.sum[a][p] ELSE Base(a)
<1>1. DOMAIN log = {}
  OBVIOUS
<1>2. IsProg(log)
  BY ProgFacts
<1>3. \A t, kinds : Unretired(t, kinds) = {}
  BY <1>1 DEF Unretired
<1>4. LastIndex({}) = 0
  BY DEF LastIndex
<1>5. LastOperation = 0 /\ LastMove = 0 /\ LastReplace = 0
  BY <1>3, <1>4 DEF LastOperation, LastMove, LastReplace
<1>6. NoOp /\ ext = "none"
  BY <1>2, <1>5, NoOpIs
<1>7. mv = "ok" /\ target = 0 /\ ~replaced
  BY <1>5 DEF mv, MoveProgress, target, replaced
<1>8. \A a : Live(a) = {}
  BY <1>3 DEF Live
<1>9. \A a : firstUncommitted(a) = 0
  <2> TAKE a
  <2>1. {i \in DOMAIN log : log[i].op \in {"commit", "remove"} /\ log[i].area = a} = {}
    BY <1>1
  <2>2. QED
    BY <2>1, <1>4 DEF firstUncommitted
<1>10. \A a : InLog(a) <=> a \in DOMAIN index.sum
  BY <1>8, <1>9 DEF InLog, Kept
<1>11. \A a, p : LogStatus(a, p) = IF a \in DOMAIN index.sum THEN index.sum[a][p] ELSE Base(a)
  <2> TAKE a, p
  <2>1. Sets(a, p) = {}
    BY <1>8 DEF Sets
  <2>2. QED
    BY <2>1, <1>4, <1>9 DEF LogStatus, Kept
<1>12. QED
  BY <1>2, <1>6, <1>7, <1>8, <1>9, <1>10, <1>11

(* A mount finds then what was saved. *)
LEMMA FreshCore ==
    ASSUME InFlash, log = <<>>, Saved
    PROVE  Core /\ Quiet /\ Room
<1>1. /\ IsProg(log) /\ NoOp /\ ext = "none" /\ mv = "ok" /\ target = 0 /\ ~replaced
      /\ \A a : InLog(a) <=> a \in DOMAIN index.sum
      /\ \A a, p : LogStatus(a, p) = IF a \in DOMAIN index.sum THEN index.sum[a][p] ELSE Base(a)
  BY EmptyLog
<1>2. /\ map \in Map /\ FixedAreas /\ OtherAreas /\ PositionsDistinct /\ Totals /\ ActiveOK
      /\ FilesOK /\ PagesInRAM
  BY DEF Saved, MapOK
<1>3. /\ DOMAIN index.sum = {a \in cached : map.pos[a] \notin asWritten}
      /\ \A a \in DOMAIN index.sum : index.sum[a] = sum[a]
  BY DEF Saved
<1>4. SumTyped /\ \A a \in cached : map.type[a] = "data"
  BY <1>2 DEF PagesInRAM, SumTyped
<1>5. RamIs
  BY <1>4, RamType
<1>6. \A a \in Area : \A p \in Page : ram[a][p] = LogStatus(a, p)
  <2> SUFFICES ASSUME NEW a \in Area, NEW p \in Page
               PROVE  ram[a][p] = LogStatus(a, p)
    OBVIOUS
  <2>1. CASE a \in DOMAIN index.sum
    BY <1>1, <1>3, <1>5, <2>1 DEF RamIs
  <2>2. CASE a \notin DOMAIN index.sum /\ a \in cached
    <3>1. map.pos[a] \in asWritten
      BY <1>3, <2>2
    <3>2. ram[a][p] = "dirty"
      BY <1>2, <3>1 DEF PagesInRAM
    <3>3. QED
      BY <1>1, <2>2, <3>1, <3>2 DEF Base
  <2>3. CASE a \notin DOMAIN index.sum /\ a \notin cached
    BY <1>1, <1>5, <2>3 DEF RamIs
  <2>4. QED
    BY <2>1, <2>2, <2>3
<1>7. ram = logged
  <2>1. \A a \in Area : ram[a] = [p \in Page |-> ram[a][p]]
    BY <1>5 DEF RamIs
  <2>2. \A a \in Area : ram[a] = [p \in Page |-> LogStatus(a, p)]
    BY <1>6, <2>1
  <2>3. ram = [a \in Area |-> ram[a]]
    BY <1>5 DEF RamIs
  <2>4. QED
    BY <2>2, <2>3 DEF logged
<1>8. inLog \subseteq cached /\ \A a \in inLog : map.pos[a] \notin asWritten
  BY <1>1, <1>3 DEF inLog
<1>9. LogOK
  BY <1>2, <1>3, <1>4 DEF LogOK, Saved, SumTyped
<1>10. Recovered
  BY RecoveredCleared DEF Saved
<1>11. OpOK
  BY <1>1 DEF OpOK, InitOK, CloseOK, DeleteOK, ContentsOK, NoOp
<1>d. \A a : ~Deleting(a) /\ ~Lost(a)
  BY <1>1 DEF Deleting, Doing1, NoOp, Lost
<1>12. DataPages
  BY <1>2, <1>7 DEF DataPages, PagesInRAM, FreeOK, UsedOK
<1>13. EmptyPages /\ LoggedPages
  BY <1>2, <1>4, <1>8 DEF EmptyPages, PagesInRAM, LoggedPages
<1>14. WrittenPages /\ DeletedPages /\ BufferPages
  BY <1>2, <1>7, <1>d DEF WrittenPages, PagesInRAM, DeletedPages, BufferPages
<1>15. MoveOK /\ TxOK
  BY <1>1 DEF MoveOK, TxOK
<1>16. SumOK
  BY <1>4, <1>7, <1>8, <1>d DEF SumOK, SumTyped
<1>17. Core
  BY <1>1, <1>2, <1>9, <1>10, <1>11, <1>12, <1>13, <1>14, <1>15, <1>16
     DEF Core, Sound, Disk, MapOK, PagesOK
<1>18. Quiet
  BY <1>1 DEF Quiet
<1>19. Room
  BY <1>2, <1>7 DEF Room, PagesInRAM
<1>20. QED
  BY <1>17, <1>18, <1>19

-----------------------------------------------------------------------------
(* The caches are flushed.                                                 *)

(* The steps of a flush in which the saved state already is the current
   one. *)
LEMMA FlushingIs == Flushing <=> phase = "run" /\ prog \in {CpSum, Clear} /\ Quiet /\ Saved
  BY DEF Flushing, Saved

(* What was saved stays, between operations. *)
LEMMA SavedStays ==
    ASSUME Saved, NoOp, NoOp', UNCHANGED <<index, map, addr, sum, flash, asWritten>>
    PROVE  Saved'
<1>1. cached' = cached /\ ram' = ram
  <2>1. SumTyped
    BY DEF Saved, PagesInRAM, SumTyped
  <2>2. \A a \in Area : Base(a)' = Base(a)
    BY DEF Base
  <2>3. QED
    BY <2>1, <2>2, RamStays
<1>2. /\ \A op \in AreaMgmtOp : \A a : ~Doing1(op, a) /\ ~Doing1(op, a)'
      /\ lastOp.op \notin {"initAreaAs", "deleteArea"} /\ lastOp'.op \notin {"initAreaAs", "deleteArea"}
  BY DEF Doing1, NoOp, AreaMgmtOp
<1>3. Adjust = 0 /\ Adjust' = 0
  BY <1>2 DEF Adjust
<1>4. MapOK'
  <2>1. map' \in Map /\ FixedAreas' /\ PositionsDistinct'
    BY DEF Saved, MapOK, FixedAreas, buffer, PositionsDistinct
  <2>2. Totals'
    BY <1>3 DEF Saved, MapOK, Totals
  <2>3. OtherAreas'
    BY <1>2 DEF Saved, MapOK, OtherAreas, AreaOK, buffer, Deleting, AreaMgmtOp
  <2>4. ActiveOK'
    BY <1>2 DEF Saved, MapOK, ActiveOK, AreaMgmtOp
  <2>5. QED
    BY <2>1, <2>2, <2>3, <2>4 DEF MapOK
<1>5. FilesOK'
  BY <1>2 DEF Saved, FilesOK, Deleting, AreaMgmtOp
<1>6. PagesInRAM'
  BY <1>1 DEF Saved, PagesInRAM, ErasedArea, buffer
<1>7. QED
  BY <1>1, <1>4, <1>5, <1>6 DEF Saved

(* The superindex is written. *)
LEMMA FlushStep ==
    ASSUME Core, RunFlush, phase = "run", Next, ~PowerLoss
    PROVE  InFlash' /\ IsProg(log') /\ Flushing' /\ stored' = stored /\ ops' = ops
<1>1. prog = Then(CommitSuperIndex, CpSum) /\ Quiet /\ Room
  BY DEF RunFlush
<1>2. /\ index' = [map |-> map, addr |-> addr,
                   sum |-> [a \in {a \in cached : map.pos[a] \notin asWritten} |-> sum[a]]]
      /\ prog' = CpSum
      /\ UNCHANGED <<flashVars, log, ramVars, phase, found, bounds>>
  BY <1>1, ExecFlush, Progs
<1>3. UNCHANGED <<flash, asWritten, bad, log, map, sum, addr>> /\ phase' = phase /\ ops' = ops
  BY <1>2 DEF flashVars, ramVars, bounds
<1>4. InFlash' /\ IsProg(log')
  BY <1>3, CoreParts DEF InFlash, IsProg
<1>5. NoOp /\ mv = "ok" /\ ~replaced
  BY <1>1 DEF Quiet
<1>6. NoOp' /\ Quiet'
  BY <1>3, <1>5, ViewStays DEF Quiet
<1>7. MapOK' /\ FilesOK' /\ PagesInRAM'
  <2>1. MapOK'
    <3>1. \A op \in AreaMgmtOp : \A a : ~Doing1(op, a) /\ ~Doing1(op, a)'
      BY <1>5, <1>6 DEF Doing1, NoOp, AreaMgmtOp
    <3>2. Adjust = 0 /\ Adjust' = 0
      BY <1>5, <1>6 DEF Adjust, NoOp
    <3>3. map' \in Map /\ FixedAreas' /\ PositionsDistinct'
      BY <1>3, CoreParts DEF FixedAreas, buffer, PositionsDistinct
    <3>4. Totals'
      BY <1>3, <3>2, CoreParts DEF Totals
    <3>5. OtherAreas'
      BY <1>3, <3>1, CoreParts DEF OtherAreas, AreaOK, buffer, Deleting, AreaMgmtOp
    <3>6. ActiveOK'
      BY <1>3, <3>1, CoreParts DEF ActiveOK, AreaMgmtOp
    <3>7. QED
      BY <3>3, <3>4, <3>5, <3>6 DEF MapOK
  <2>2. FilesOK'
    BY <1>3, <1>6, CoreParts DEF FilesOK, Deleting, Doing1, NoOp
  <2>3. PagesInRAM
    <3>1. \A a \in Area : ~Deleting(a) /\ ~Lost(a) /\ ram[a] = logged[a]
      BY <1>5, CoreParts, IdleParts DEF Lost, SumOK
    <3>2. /\ \A a \in cached : a \in Area /\ map.type[a] = "data" /\ sum[a] \in [Page -> SummaryEntry]
      BY CoreParts DEF SumOK
    <3>3. \A a \in Area : map.type[a] = "data" =>
            /\ \A p \in Page : ram[a][p] = "free" => flash[map.pos[a]][p] = Erased
            /\ \A f \in FilePage :
                    (addr[f] # NoAddr /\ addr[f][1] = a) => ram[a][addr[f][2]] = "used"
      BY <3>1, CoreParts DEF DataPages, FreeOK, UsedOK
    <3>4. \A a \in Area : map.type[a] = "unset" => ErasedArea(a)
      BY CoreParts DEF EmptyPages
    <3>5. \A a \in Area : map.pos[a] \in asWritten =>
            map.type[a] = "data" /\ \A p \in Page : ram[a][p] = "dirty"
      BY <3>1, CoreParts DEF WrittenPages
    <3>6. ErasedArea(buffer) /\ map.pos[buffer] \notin asWritten
      BY <1>5, CoreParts DEF BufferPages
    <3>7. map.active["data"] # 0 => \E p \in Page : ram[map.active["data"]][p] = "free"
      <4>1. map.active["data"] \in Area
        BY CoreParts DEF AreaType
      <4>2. QED
        BY <1>1, <3>1, <4>1 DEF Room
    <3>8. QED
      BY <3>2, <3>3, <3>4, <3>5, <3>6, <3>7 DEF PagesInRAM
  <2>4. PagesInRAM'
    <3>1. cached' = cached /\ ram' = ram
      <4>1. \A a \in Area : Base(a)' = Base(a)
        BY <1>3 DEF Base
      <4>2. QED
        BY <1>3, <4>1, CoreParts, RamStays
    <3>2. QED
      BY <1>3, <2>3, <3>1 DEF PagesInRAM, ErasedArea, buffer
  <2>5. QED
    BY <2>1, <2>2, <2>4
<1>8. Flushing'
  <2>1. index'.map = map' /\ index'.addr = addr'
    BY <1>2, <1>3
  <2>2. index'.sum = [a \in {a \in cached' : map'.pos[a] \notin asWritten'} |-> sum'[a]]
    <3> DEFINE Kept0(c, m, w, s) == [a \in {a \in c : m.pos[a] \notin w} |-> s[a]]
    <3>0. cached' = cached
      BY <1>3 DEF cached
    <3>1. index'.sum = Kept0(cached, map, asWritten, sum) /\ cached' = cached
      <4>1. index'.sum = Kept0(cached, map, asWritten, sum)
        BY <1>2
      <4>2. QED
        BY <3>0, <4>1
    <3> HIDE DEF Kept0
    <3>2. index'.sum = Kept0(cached', map', asWritten', sum')
      BY <1>3, <3>1
    <3>3. QED
      BY <3>2 DEF Kept0
  <2>3. QED
    BY <1>2, <1>3, <1>6, <1>7, <2>1, <2>2 DEF Flushing
<1>9. stored' = stored
  BY <1>3 DEF stored
<1>10. QED
  BY <1>3, <1>4, <1>8, <1>9

(* The journal's checkpoint, and the journal is cleared. *)
LEMMA FlushingStep ==
    ASSUME InFlash, IsProg(log), Flushing, Next, ~PowerLoss
    PROVE  /\ InFlash' /\ IsProg(log') /\ (Flushing' \/ (Sound' /\ Stage'))
           /\ stored' = stored /\ ops' = ops
<1>1. phase = "run" /\ Quiet /\ Saved /\ NoOp /\ mv = "ok" /\ ~replaced
  BY FlushingIs DEF Quiet
<1>2. CASE prog = CpSum
  <2>1. /\ log' = Append(log, Checkpoint("summaryCache")) /\ prog' = Clear
        /\ UNCHANGED <<flashVars, index, ramVars, phase, found, bounds>>
    BY <1>2, ExecNote, Progs, NoteOps DEF CpSum
  <2>2. /\ UNCHANGED <<flash, asWritten, bad, index, map, sum, addr>>
        /\ phase' = phase /\ ops' = ops
    BY <2>1 DEF flashVars, ramVars, bounds
  <2>3. PICK e : e = Checkpoint("summaryCache")
    OBVIOUS
  <2>4. Grows(e) /\ e.op = "checkpoint" /\ e.topic = "summaryCache"
    BY <2>1, <2>3 DEF Grows, Checkpoint
  <2>5. /\ ~IsCheckpoint(e, "areaMgmt") /\ ~IsCheckpoint(e, "garbage") /\ ~IsCheckpoint(e, "dataIO")
        /\ e.op \notin AreaMgmtOp \union ExternOp \union MoveOp
        /\ e.op \notin {"moveValidData", "replacePage", "update", "invalidateOldPages"}
    BY <2>4 DEF IsCheckpoint, AreaMgmtOp, ExternOp, MoveOp
  <2>6. NoOp' /\ mv' = "ok" /\ ~replaced'
    BY <1>1, <2>4, <2>5, OpView, MoveView, TxView
  <2>7. Saved'
    BY <1>1, <2>2, <2>6, SavedStays
  <2>8. Quiet'
    BY <2>6 DEF Quiet
  <2>9. InFlash' /\ IsProg(log')
    BY <2>2, <2>4, LogGrows DEF InFlash
  <2>10. Flushing'
    <3>1. Clear' = Clear
      BY DEF Clear, NoProg
    <3>2. (phase = "run" /\ prog \in {CpSum, Clear} /\ Quiet /\ Saved)'
      BY <1>1, <2>1, <2>2, <2>7, <2>8, <3>1
    <3>3. (phase = "run" /\ prog \in {CpSum, Clear} /\ Quiet /\ Saved => Flushing)'
      BY FlushingIs, PTL
    <3>4. QED
      BY <3>2, <3>3
  <2>11. stored' = stored
    BY <2>2 DEF stored
  <2>12. QED
    BY <2>2, <2>9, <2>10, <2>11
<1>3. CASE prog = Clear
  <2>1. log' = <<>> /\ prog' = NoProg /\ UNCHANGED <<flashVars, index, ramVars, phase, found, bounds>>
    BY <1>3, ExecFlush, Progs DEF Clear
  <2>2. /\ UNCHANGED <<flash, asWritten, bad, index, map, sum, addr>>
        /\ phase' = phase /\ ops' = ops
    BY <2>1 DEF flashVars, ramVars, bounds
  <2>3. InFlash'
    BY <2>2 DEF InFlash
  <2>4. NoOp'
    <3>1. (log = <<>> => NoOp)'
      BY EmptyLog, PTL
    <3>2. QED
      BY <2>1, <3>1
  <2>5. Saved'
    BY <1>1, <2>2, <2>4, SavedStays
  <2>6. (InFlash /\ log = <<>> /\ Saved => Core /\ Quiet /\ Room)'
    BY FreshCore, PTL
  <2>7. Core' /\ Quiet' /\ Room'
    BY <2>1, <2>3, <2>5, <2>6
  <2>8. RunRoom'
    BY <2>1, <2>7 DEF RunRoom
  <2>9. Stage'
    BY <1>1, <2>1, <2>2, <2>8 DEF Stage, NoProg
  <2>10. stored' = stored
    BY <2>2 DEF stored
  <2>11. QED
    BY <2>2, <2>7, <2>9, <2>10 DEF Core
<1>4. QED
  BY <1>2, <1>3, FlushingIs

-----------------------------------------------------------------------------
(* A mount: AreaManagement finishes its operation.                         *)

(* Without an instruction a mount goes on with the next topic. *)
LEMMA NextTopic ==
    ASSUME prog = NoProg, phase # "run", Next, ~PowerLoss
    PROVE  \/ phase = "areaMgmt" /\ SignalGarbage
           \/ phase = "garbage" /\ SignalDataIO
           \/ phase = "dataIO" /\ Mounted
<1>1. prog = <<>>
  BY DEF NoProg
<1>2. \A f : ~Write(f) /\ ~Delete(f)
  BY DEF Write, Delete, Ready, Idle
<1>3. ~Flush
  BY DEF Flush, Ready, Idle
<1>4. Step
  BY <1>2, <1>3 DEF Next
<1>5. QED
  BY <1>1, <1>4, NoStep

(* What DataIO found stays true. *)
LEMMA FoundTxStays ==
    ASSUME FoundTx, SameTx, found' = found
    PROVE  FoundTx'
<1>1. TxState \in {"ok", "recover", "invalid"}
  BY DEF TxState
<1>2. TxState' = TxState
  BY <1>1, TxStateStays
<1>3. TxState # "ok" => replaced
  BY DEF TxState, replaced
<1>4. QED
  BY <1>2, <1>3 DEF FoundTx, SameTx

(* How far a move may have got. *)
LEMMA MoveStates ==
    mv \in {"ok", "moveValidData", "swappedPosition", "deletedOldArea", "setNewSummary"}
  BY DEF mv, MoveProgress

(* An operation goes on. *)
LEMMA MountOperation ==
    ASSUME Careful, Core, phase = "areaMgmt", FoundMove, FoundTx, OpRuns(NoProg), Next, ~PowerLoss
    PROVE  Core' /\ Stage' /\ stored' = stored /\ ops' = ops
<1>1. Core' /\ OpFrame /\ OpPages /\ (OpGoes(NoProg) \/ OpEnds(NoProg))
  BY Progs, OpStep
<1>2. SameMove /\ SameTx /\ phase' = phase /\ found' = found /\ ops' = ops /\ stored' = stored
  BY <1>1 DEF OpFrame, SameRest
<1>3. FoundMove' /\ FoundTx'
  BY <1>2, FoundTxStays DEF FoundMove, SameMove
<1>4. (prog' = NoProg /\ NoOp') \/ OpRuns(NoProg)'
  BY <1>1 DEF OpGoes, OpEnds
<1>5. MountOps'
  BY <1>2, <1>3, <1>4 DEF MountOps, NoProg
<1>6. QED
  BY <1>1, <1>2, <1>5 DEF Stage

(* Garbage collection takes over. *)
LEMMA MountSignals ==
    ASSUME Core, phase = "areaMgmt", FoundMove, FoundTx, prog = NoProg, NoOp, Next, ~PowerLoss
    PROVE  Core' /\ Stage' /\ stored' = stored /\ ops' = ops
<1>1. SignalGarbage
  BY NextTopic
<1>2. /\ phase' = "garbage" /\ prog' = ResumeGarbage
      /\ UNCHANGED <<flashVars, index, log, ramVars>> /\ found' = found /\ ops' = ops
  BY <1>1 DEF SignalGarbage, bounds
<1>3. Core' /\ SameState
  BY <1>2, CoreParts, StateSame DEF InFlash
<1>4. NoOp' /\ mv' = mv /\ target' = target /\ buffer' = buffer /\ stored' = stored
  BY <1>3 DEF SameState, SameMove
<1>5. FoundTx'
  BY <1>2, <1>3, FoundTxStays DEF SameState
<1>6. PICK t, b : t = target /\ b = buffer
  OBVIOUS
<1>7. t = target' /\ b = buffer' /\ b \in Area \ {0} /\ found.target = t /\ found.state = mv
  BY <1>4, <1>6, CoreParts DEF FoundMove
<1>8. mv # "ok" => t \in Area \ {0} /\ found'.type = "data"
  BY <1>2, <1>6, CoreParts DEF MoveOK, FoundMove
<1>9. ResumeGarbage =
        CASE mv = "ok" -> <<>>
          [] mv = "moveValidData" -> <<DeleteAreaContents(b, b), Checkpoint("garbage")>>
          [] mv = "swappedPosition" ->
                <<DeleteAreaContents(t, b), Scan(t), Checkpoint("garbage")>>
          [] mv = "deletedOldArea" -> <<Scan(t), Checkpoint("garbage")>>
          [] mv = "setNewSummary" -> <<Checkpoint("garbage")>>
  BY <1>6, <1>7 DEF ResumeGarbage, buffer
<1>10. CASE mv = "ok"
  <2>1. prog' = NoProg
    BY <1>2, <1>9, <1>10 DEF NoProg
  <2>2. MountGarbage'
    BY <1>2, <1>4, <1>5, <1>10, <2>1 DEF MountGarbage, NoProg
  <2>3. QED
    BY <1>2, <1>3, <1>4, <2>2 DEF Stage
<1>11. CASE mv = "moveValidData"
  <2>1. prog' = Then(DeleteAreaContents(b, b), CpGarbage)
    BY <1>2, <1>9, <1>11, ThenTuples DEF CpGarbage, NoProg
  <2>2. MountGarbage'
    BY <1>2, <1>4, <1>5, <1>7, <1>8, <1>11, <2>1 DEF MountGarbage
  <2>3. QED
    BY <1>2, <1>3, <1>4, <2>2 DEF Stage
<1>12. CASE mv = "swappedPosition"
  <2>1. prog' = Then(DeleteAreaContents(t, b), ScanTail(t))
    BY <1>2, <1>9, <1>12, ThenTuples DEF CpGarbage, NoProg, ScanTail
  <2>2. MountGarbage'
    BY <1>2, <1>4, <1>5, <1>7, <1>8, <1>12, <2>1 DEF MountGarbage
  <2>3. QED
    BY <1>2, <1>3, <1>4, <2>2 DEF Stage
<1>13. CASE mv = "deletedOldArea"
  <2>1. prog' = ScanTail(t)
    BY <1>2, <1>9, <1>13, ThenTuples DEF CpGarbage, NoProg, ScanTail
  <2>2. MountGarbage'
    BY <1>2, <1>4, <1>5, <1>7, <1>8, <1>13, <2>1 DEF MountGarbage
  <2>3. QED
    BY <1>2, <1>3, <1>4, <2>2 DEF Stage
<1>14. CASE mv = "setNewSummary"
  <2>1. prog' = CpGarbage
    BY <1>2, <1>9, <1>14, ThenTuples DEF CpGarbage, NoProg
  <2>2. MountGarbage'
    BY <1>2, <1>4, <1>5, <1>7, <1>8, <1>14, <2>1 DEF MountGarbage
  <2>3. QED
    BY <1>2, <1>3, <1>4, <2>2 DEF Stage
<1>15. QED
  BY <1>10, <1>11, <1>12, <1>13, <1>14, MoveStates

(* AreaManagement at a mount. *)
LEMMA MountOpsStep ==
    ASSUME Careful, Core, MountOps, Next, ~PowerLoss
    PROVE  Core' /\ Stage' /\ stored' = stored /\ ops' = ops
<1>1. phase = "areaMgmt" /\ FoundMove /\ FoundTx /\ ((prog = NoProg /\ NoOp) \/ OpRuns(NoProg))
  BY DEF MountOps
<1>2. QED
  BY <1>1, MountOperation, MountSignals

-----------------------------------------------------------------------------
(* A mount: garbage collection finishes its move.                          *)

(* What the steps of its operations leave alone. *)
LEMMA GarbageFrame ==
    ASSUME Core, FoundTx, phase = "garbage", SameTx, SameRest, stored' = stored
    PROVE  FoundTx' /\ phase' = "garbage" /\ found' = found /\ ops' = ops
BY FoundTxStays DEF SameRest

(* The move is over. *)
LEMMA GarbageEnds ==
    ASSUME Core, phase = "garbage", FoundTx, prog = CpGarbage, NoOp,
           mv \in {"deletedOldArea", "setNewSummary"},
           mv = "deletedOldArea" => FreeOK(target) /\ UsedOK(target), Next, ~PowerLoss
    PROVE  Core' /\ Stage' /\ stored' = stored /\ ops' = ops
<1>1. NoteEntry(Checkpoint("garbage")) /\ prog' = NoProg
  <2>1. prog = Then(Checkpoint("garbage"), NoProg)
    BY DEF CpGarbage
  <2>2. QED
    BY <2>1, ExecNoteEntry, Progs, NoteOps, CoreParts
<1>2. /\ Core' /\ NoteEffect /\ NoOp' /\ SameTx /\ mv' = "ok" /\ buffer' = buffer
      /\ stored' = stored
  BY <1>1, GarbageCheckpoint
<1>3. FoundTx' /\ phase' = "garbage" /\ ops' = ops
  BY <1>2, NoteFrame, GarbageFrame
<1>4. MountGarbage'
  BY <1>1, <1>2, <1>3 DEF MountGarbage, NoProg
<1>5. QED
  BY <1>2, <1>3, <1>4 DEF Stage

(* The contents of the garbage buffer are deleted. *)
LEMMA GarbageBuffer ==
    ASSUME Careful, Core, phase = "garbage", FoundTx, NEW t \in Area \ {0}, NEW b \in Area,
           t = target, b = buffer,
           prog = Then(DeleteAreaContents(b, b), CpGarbage), NoOp, mv = "moveValidData",
           Next, ~PowerLoss
    PROVE  Core' /\ Stage' /\ stored' = stored /\ ops' = ops
<1>1. b \in Area \ {0} /\ t # b
  BY CoreParts DEF MoveOK, FixedAreas
<1>2. /\ Core' /\ OpStarts(DeleteAreaContents(b, b)) /\ mv' = "deletedOldArea"
      /\ OpRuns(CpGarbage)'
  BY <1>1, ContentsRuns, Progs
<1>3. /\ SameTx /\ SameRest /\ SameStatus /\ target' = target /\ addr' = addr /\ map' = map
      /\ buffer' = buffer /\ flash' = flash /\ stored' = stored
      /\ lastOp' = DeleteAreaContents(b, b)
  BY <1>2, StartFrame
<1>4. FoundTx' /\ phase' = "garbage" /\ ops' = ops
  BY <1>3, GarbageFrame
<1>5. FreeOK(t) /\ UsedOK(t)
  <2>1. map.type[t] = "data" /\ ~Deleting(t) /\ ~Lost(t)
    BY CoreParts, IdleParts DEF MoveOK, Lost
  <2>2. QED
    BY <2>1, CoreParts DEF DataPages
<1>6. FreeOK(t)' /\ UsedOK(t)'
  BY <1>3, <1>5, PagesStay DEF SameStatus
<1>7. lastOp'.op = "deleteAreaContents" /\ lastOp'.area = b
  BY <1>3, OpNames
<1>8. MountGarbage'
  BY <1>2, <1>3, <1>4, <1>6, <1>7 DEF MountGarbage
<1>9. QED
  BY <1>2, <1>3, <1>4, <1>8 DEF Stage

(* Erasing an area other than t leaves what is known of t. *)
LEMMA OpLeaves ==
    ASSUME Core, OpFrame, OpPages, lastOp.op = "deleteAreaContents", NEW t \in Area,
           t # buffer, t # lastOp.area, FreeOK(t), UsedOK(t)
    PROVE  FreeOK(t)' /\ UsedOK(t)'
<1>1. lastOp.b = buffer /\ buffer \in Area /\ ErasedPos = map.pos[buffer]
  BY CoreParts DEF ContentsOK, ErasedPos
<1>2. map.pos[t] # ErasedPos /\ map.pos[t] \in Pos
  BY <1>1, Elsewhere
<1>3. logged'[t] = logged[t] /\ flash'[map.pos[t]] = flash[map.pos[t]]
  BY <1>2 DEF OpPages
<1>4. map'.pos = map.pos /\ addr' = addr
  BY DEF OpFrame
<1>5. QED
  BY <1>3, <1>4, PagesStay

(* That goes on. *)
LEMMA GarbageErases ==
    ASSUME Careful, Core, phase = "garbage", FoundTx, NEW t \in Area \ {0}, NEW b \in Area,
           t = target, b = buffer,
           OpRuns(CpGarbage), lastOp.op = "deleteAreaContents", lastOp.area = b,
           FreeOK(t), UsedOK(t), Next, ~PowerLoss
    PROVE  Core' /\ Stage' /\ stored' = stored /\ ops' = ops
<1>1. Core' /\ OpFrame /\ OpPages /\ (OpGoes(CpGarbage) \/ OpEnds(CpGarbage))
  BY Progs, OpStep
<1>2. /\ SameMove /\ SameTx /\ SameRest /\ stored' = stored /\ buffer' = buffer
      /\ mv' = mv /\ target' = target
  BY <1>1 DEF OpFrame, SameMove
<1>3. FoundTx' /\ phase' = "garbage" /\ ops' = ops
  BY <1>2, GarbageFrame
<1>4. mv = "deletedOldArea" /\ t # b
  BY CoreParts DEF ContentsOK, MoveOK, FixedAreas
<1>5. FreeOK(t)' /\ UsedOK(t)'
  BY <1>1, <1>4, OpLeaves
<1>6. CASE OpGoes(CpGarbage)
  <2>1. lastOp' = lastOp /\ OpRuns(CpGarbage)'
    BY <1>6 DEF OpGoes
  <2>2. MountGarbage'
    BY <1>2, <1>3, <1>5, <2>1 DEF MountGarbage
  <2>3. QED
    BY <1>1, <1>2, <1>3, <2>2 DEF Stage
<1>7. CASE OpEnds(CpGarbage)
  <2>1. NoOp' /\ prog' = CpGarbage
    BY <1>7 DEF OpEnds
  <2>2. CpGarbage' = CpGarbage
    BY DEF CpGarbage, NoProg
  <2>3. MountGarbage'
    BY <1>2, <1>3, <1>4, <1>5, <2>1, <2>2 DEF MountGarbage
  <2>4. QED
    BY <1>1, <1>2, <1>3, <2>3 DEF Stage
<1>8. QED
  BY <1>1, <1>6, <1>7

(* The old pages, which now lie in the garbage buffer, are deleted. *)
LEMMA GarbageOld ==
    ASSUME Careful, Core, phase = "garbage", FoundTx, NEW t \in Area \ {0}, NEW b \in Area,
           t = target, b = buffer, found.type = "data",
           prog = Then(DeleteAreaContents(t, b), ScanTail(t)), NoOp, mv = "swappedPosition",
           Next, ~PowerLoss
    PROVE  Core' /\ Stage' /\ stored' = stored /\ ops' = ops
<1>p. PICK r : r = ScanTail(t) /\ IsProg(r)
  BY Progs
<1>1. /\ Core' /\ OpStarts(DeleteAreaContents(t, b)) /\ mv' = "deletedOldArea"
      /\ OpRuns(r)'
  BY <1>p, ContentsRuns
<1>2. /\ SameTx /\ SameRest /\ target' = target /\ buffer' = buffer /\ stored' = stored
      /\ lastOp' = DeleteAreaContents(t, b)
  BY <1>1, StartFrame
<1>3. FoundTx' /\ phase' = "garbage" /\ ops' = ops /\ found' = found
  BY <1>2, GarbageFrame
<1>4. lastOp'.op = "deleteAreaContents" /\ lastOp'.area = t
  BY <1>2, OpNames
<1>5. MountGarbage'
  BY <1>p, <1>1, <1>2, <1>3, <1>4 DEF MountGarbage
<1>6. QED
  BY <1>1, <1>2, <1>3, <1>5 DEF Stage

(* That goes on. *)
LEMMA GarbageOldErases ==
    ASSUME Careful, Core, phase = "garbage", FoundTx, NEW t \in Area \ {0}, NEW b \in Area,
           t = target, b = buffer, found.type = "data",
           OpRuns(ScanTail(t)), lastOp.op = "deleteAreaContents", lastOp.area = t,
           Next, ~PowerLoss
    PROVE  Core' /\ Stage' /\ stored' = stored /\ ops' = ops
<1>p. PICK r : r = ScanTail(t) /\ IsProg(r) /\ OpRuns(r)
  BY Progs
<1>1. Core' /\ OpFrame /\ OpPages /\ (OpGoes(r) \/ OpEnds(r))
  BY <1>p, OpStep
<1>2. /\ SameMove /\ SameTx /\ SameRest /\ stored' = stored /\ buffer' = buffer
      /\ mv' = mv /\ target' = target
  BY <1>1 DEF OpFrame, SameMove
<1>3. FoundTx' /\ phase' = "garbage" /\ ops' = ops /\ found' = found
  BY <1>2, GarbageFrame
<1>4. mv = "deletedOldArea"
  BY CoreParts DEF ContentsOK
<1>5. CASE OpGoes(r)
  <2>1. lastOp' = lastOp /\ OpRuns(r)'
    BY <1>5 DEF OpGoes
  <2>2. MountGarbage'
    BY <1>p, <1>2, <1>3, <2>1 DEF MountGarbage
  <2>3. QED
    BY <1>1, <1>2, <1>3, <2>2 DEF Stage
<1>6. CASE OpEnds(r)
  <2>1. NoOp' /\ prog' = r
    BY <1>6 DEF OpEnds
  <2>2. MountGarbage'
    BY <1>p, <1>2, <1>3, <1>4, <2>1 DEF MountGarbage
  <2>3. QED
    BY <1>1, <1>2, <1>3, <2>2 DEF Stage
<1>7. QED
  BY <1>1, <1>5, <1>6

(* The pages of the area that moved, as the scan finds them. *)
LEMMA ScannedClean ==
    ASSUME Core, NEW t \in Area, NEW s, s = Scanned(t)
    PROVE  s \in [Page -> {"free", "used"}] /\ CleanOK(t, s)
<1>1. \A f \in FilePage : (addr[f] # NoAddr /\ addr[f][1] = t) =>
            addr[f][2] \in Page /\ flash[map.pos[t]][addr[f][2]] # Erased
  BY CoreParts DEF FilesOK, Addr
<1>2. s \in [Page -> {"free", "used"}]
  BY DEF Scanned
<1>3. \A p \in Page : s[p] = IF flash[map.pos[t]][p] = Erased THEN "free" ELSE "used"
  BY DEF Scanned
<1>4. QED
  BY <1>1, <1>2, <1>3 DEF CleanOK

(* An area without data is as its moving left it. *)
LEMMA AllFree ==
    ASSUME Core, NEW t \in Area, Scanned(t) = All("free")
    PROVE  FreeOK(t) /\ UsedOK(t)
<1>1. \A p \in Page : flash[map.pos[t]][p] = Erased
  <2>1. TAKE p \in Page
  <2>2. Scanned(t)[p] = "free"
    BY DEF All
  <2>3. QED
    BY <2>2 DEF Scanned
<1>2. \A f \in FilePage : ~(addr[f] # NoAddr /\ addr[f][1] = t)
  <2>1. \A f \in FilePage : addr[f] # NoAddr =>
            addr[f][2] \in Page /\ flash[map.pos[addr[f][1]]][addr[f][2]] # Erased
    BY CoreParts DEF FilesOK, Addr
  <2>2. QED
    BY <1>1, <2>1
<1>3. QED
  BY <1>1, <1>2 DEF FreeOK, UsedOK

(* What a scan makes of an area: its summary is set if it has pages, and it may
   get active. *)
LEMMA ScanDoes ==
    ASSUME Core, NEW t \in Area, NEW r, IsProg(r), NEW s, s = Scanned(t), found.type = "data",
           prog = Then(Scan(t), r), Next, ~PowerLoss
    PROVE  /\ UNCHANGED <<flashVars, index, log, ramVars>>
           /\ phase' = phase /\ found' = found /\ ops' = ops
           /\ \/ s = All("free") /\ prog' = r
              \/ NoActive /\ prog' = Then(SetStatusBlock(t, s), InitFor(t, r))
              \/ prog' = Then(SetStatusBlock(t, s), r)
<1>1. /\ prog' = (IF s = All("free") THEN <<>>
                  ELSE <<SetStatusBlock(t, s)>>
                       \o (IF map.active["data"] = 0 THEN <<InitAreaAs(t, "data")>> ELSE <<>>))
                 \o r
      /\ UNCHANGED <<flashVars, index, log, ramVars, phase, found, bounds>>
  BY ExecScan
<1>2. UNCHANGED <<flashVars, index, log, ramVars>> /\ phase' = phase /\ found' = found /\ ops' = ops
  BY <1>1 DEF bounds
<1>3. CASE s = All("free")
  <2>1. prog' = r
    BY <1>1, <1>3, ProgFacts
  <2>2. QED
    BY <1>2, <1>3, <2>1
<1>4. CASE s # All("free") /\ map.active["data"] = 0
  <2>1. PICK x, y : x = SetStatusBlock(t, s) /\ y = InitAreaAs(t, "data")
    OBVIOUS
  <2>2. IsProg(<<y>>)
    BY CatFacts
  <2>3. <<x>> \o <<y>> = Then(x, <<y>>)
    BY <2>2, ThenOne
  <2>4. <<x>> \o <<y>> = <<x, y>>
    BY <2>3, ThenTuples
  <2>5. <<x, y>> \o r = Then(x, Then(y, r))
    BY ThenTwo
  <2>6. prog' = (<<x>> \o <<y>>) \o r
    BY <1>1, <1>4, <2>1
  <2>7. prog' = Then(SetStatusBlock(t, s), InitFor(t, r))
    BY <2>1, <2>4, <2>5, <2>6 DEF InitFor
  <2>8. QED
    BY <1>2, <1>4, <2>7 DEF NoActive
<1>5. CASE s # All("free") /\ map.active["data"] # 0
  <2>1. <<SetStatusBlock(t, s)>> \o <<>> = <<SetStatusBlock(t, s)>>
    OBVIOUS
  <2>2. prog' = Then(SetStatusBlock(t, s), r)
    BY <1>1, <1>5, <2>1, ThenOne
  <2>3. QED
    BY <1>2, <2>2
<1>6. QED
  BY <1>3, <1>4, <1>5

(* The area that moved is scanned. *)
LEMMA GarbageScans ==
    ASSUME Core, phase = "garbage", FoundTx, NEW t \in Area \ {0}, NEW b \in Area,
           t = target, b = buffer, found.type = "data",
           prog = ScanTail(t), NoOp, mv = "deletedOldArea", Next, ~PowerLoss
    PROVE  Core' /\ Stage' /\ stored' = stored /\ ops' = ops
<1>p. PICK r, s : r = CpGarbage /\ IsProg(r) /\ s = Scanned(t)
  BY Progs
<1>1. /\ UNCHANGED <<flashVars, index, log, ramVars>>
      /\ phase' = phase /\ found' = found /\ ops' = ops
      /\ \/ s = All("free") /\ prog' = r
         \/ NoActive /\ prog' = Then(SetStatusBlock(t, s), InitFor(t, r))
         \/ prog' = Then(SetStatusBlock(t, s), r)
  BY <1>p, ScanDoes DEF ScanTail
<1>3. Core' /\ SameState
  BY <1>1, CoreParts, StateSame DEF InFlash
<1>4. /\ NoOp' /\ mv' = mv /\ target' = target /\ buffer' = buffer /\ stored' = stored
      /\ SameTx /\ SameStatus /\ map' = map /\ addr' = addr /\ flash' = flash
  BY <1>3 DEF SameState, SameMove
<1>5. FoundTx' /\ phase' = "garbage"
  BY <1>1, <1>4, FoundTxStays
<1>6. s \in [Page -> {"free", "used"}] /\ CleanOK(t, s)
  BY <1>p, ScannedClean
<1>7. CleanOK(t, s)'
  BY <1>4, <1>6 DEF CleanOK
<1>8. CASE s = All("free") /\ prog' = r
  <2>1. FreeOK(t) /\ UsedOK(t)
    BY <1>p, <1>8, AllFree
  <2>2. FreeOK(t)' /\ UsedOK(t)'
    BY <1>4, <2>1, PagesStay DEF SameStatus
  <2>3. MountGarbage'
    BY <1>p, <1>4, <1>5, <1>8, <2>2 DEF MountGarbage
  <2>4. QED
    BY <1>1, <1>3, <1>4, <2>3 DEF Stage
<1>9. CASE \/ NoActive /\ prog' = Then(SetStatusBlock(t, s), InitFor(t, r))
           \/ prog' = Then(SetStatusBlock(t, s), r)
  <2>1. NoActive' <=> NoActive
    BY <1>4 DEF NoActive
  <2>2. MountGarbage'
    BY <1>p, <1>4, <1>5, <1>6, <1>7, <1>9, <2>1 DEF MountGarbage
  <2>3. QED
    BY <1>1, <1>3, <1>4, <2>2 DEF Stage
<1>10. QED
  BY <1>1, <1>8, <1>9

(* What the scan found is logged. *)
LEMMA GarbageSummary ==
    ASSUME Core, phase = "garbage", FoundTx, NEW t \in Area \ {0}, NEW b \in Area,
           t = target, b = buffer, NoOp, mv = "deletedOldArea",
           NEW s \in [Page -> {"free", "used"}], CleanOK(t, s),
           \/ prog = Then(SetStatusBlock(t, s), CpGarbage)
           \/ prog = Then(SetStatusBlock(t, s), InitFor(t, CpGarbage)) /\ NoActive,
           Next, ~PowerLoss
    PROVE  Core' /\ Stage' /\ stored' = stored /\ ops' = ops
<1>1. PICK r : /\ prog = Then(SetStatusBlock(t, s), r) /\ IsProg(r)
               /\ r = CpGarbage \/ (r = InitFor(t, CpGarbage) /\ NoActive)
  BY Progs
<1>2. SumEntry(SetStatusBlock(t, s)) /\ prog' = r
  <2>1. SetStatusBlock(t, s).op \in {"setStatusBlock", "remove", "reset", "commit"}
    BY DEF SetStatusBlock
  <2>2. QED
    BY <1>1, <2>1, ExecSumEntry, CoreParts
<1>3. /\ Core' /\ mv' = "setNewSummary" /\ target' = target /\ SameTx /\ NoOp' /\ SameRest
      /\ stored' = stored /\ buffer' = buffer /\ map' = map
  BY <1>2, BlockStep
<1>4. FoundTx' /\ phase' = "garbage" /\ ops' = ops
  BY <1>3, GarbageFrame
<1>5. NoActive' <=> NoActive
  BY <1>3 DEF NoActive
<1>6. MountGarbage'
  BY <1>1, <1>2, <1>3, <1>4, <1>5 DEF MountGarbage
<1>7. QED
  BY <1>3, <1>4, <1>6 DEF Stage

(* The area that moved becomes the active one. *)
LEMMA GarbageInit ==
    ASSUME Core, phase = "garbage", FoundTx, NEW t \in Area \ {0}, NEW b \in Area,
           t = target, b = buffer, prog = InitFor(t, CpGarbage), NoActive, NoOp,
           mv = "setNewSummary", Next, ~PowerLoss
    PROVE  Core' /\ Stage' /\ stored' = stored /\ ops' = ops
<1>1. ~replaced
  BY CoreParts DEF MoveOK
<1>2. Core' /\ OpStarts(InitAreaAs(t, "data")) /\ mv' = mv /\ OpRuns(CpGarbage)'
  BY <1>1, InitRuns, Progs DEF InitFor
<1>3. /\ SameTx /\ SameRest /\ target' = target /\ buffer' = buffer /\ stored' = stored
      /\ lastOp' = InitAreaAs(t, "data")
  BY <1>2, StartFrame
<1>4. FoundTx' /\ phase' = "garbage" /\ ops' = ops
  BY <1>3, GarbageFrame
<1>5. lastOp'.op = "initAreaAs"
  BY <1>3, OpNames
<1>6. MountGarbage'
  BY <1>2, <1>3, <1>4, <1>5 DEF MountGarbage
<1>7. QED
  BY <1>2, <1>3, <1>4, <1>6 DEF Stage

(* That goes on. *)
LEMMA GarbageInitGoes ==
    ASSUME Careful, Core, phase = "garbage", FoundTx, NEW t \in Area \ {0}, NEW b \in Area,
           t = target, b = buffer, OpRuns(CpGarbage), lastOp.op = "initAreaAs",
           mv = "setNewSummary", Next, ~PowerLoss
    PROVE  Core' /\ Stage' /\ stored' = stored /\ ops' = ops
<1>1. Core' /\ OpFrame /\ OpPages /\ (OpGoes(CpGarbage) \/ OpEnds(CpGarbage))
  BY Progs, OpStep
<1>2. /\ SameMove /\ SameTx /\ SameRest /\ stored' = stored /\ buffer' = buffer
      /\ mv' = mv /\ target' = target
  BY <1>1 DEF OpFrame, SameMove
<1>3. FoundTx' /\ phase' = "garbage" /\ ops' = ops
  BY <1>2, GarbageFrame
<1>4. CASE OpGoes(CpGarbage)
  <2>1. lastOp' = lastOp /\ OpRuns(CpGarbage)'
    BY <1>4 DEF OpGoes
  <2>2. MountGarbage'
    BY <1>2, <1>3, <2>1 DEF MountGarbage
  <2>3. QED
    BY <1>1, <1>2, <1>3, <2>2 DEF Stage
<1>5. CASE OpEnds(CpGarbage)
  <2>1. NoOp' /\ prog' = CpGarbage
    BY <1>5 DEF OpEnds
  <2>2. CpGarbage' = CpGarbage
    BY DEF CpGarbage, NoProg
  <2>3. MountGarbage'
    BY <1>2, <1>3, <2>1, <2>2 DEF MountGarbage
  <2>4. QED
    BY <1>1, <1>2, <1>3, <2>3 DEF Stage
<1>6. QED
  BY <1>1, <1>4, <1>5

(* Garbage collection at a mount. *)
LEMMA MountGarbageStep ==
    ASSUME Careful, Core, MountGarbage, Next, ~PowerLoss
    PROVE  (Core' /\ Stage' /\ stored' = stored /\ ops' = ops)
           \/ (prog = NoProg /\ NoOp /\ mv = "ok" /\ phase = "garbage" /\ FoundTx)
<1>1. phase = "garbage" /\ FoundTx
  BY DEF MountGarbage
<1>2. CASE prog = NoProg /\ NoOp /\ mv = "ok"
  BY <1>1, <1>2
<1>3. ASSUME NEW t \in Area \ {0}, NEW b \in Area, t = target, b = buffer,
             prog = CpGarbage, NoOp, mv = "deletedOldArea" => FreeOK(t) /\ UsedOK(t),
             mv \in {"deletedOldArea", "setNewSummary"}
      PROVE  Core' /\ Stage' /\ stored' = stored /\ ops' = ops
  BY <1>1, <1>3, GarbageEnds
<1>4. ASSUME NEW t \in Area \ {0}, NEW b \in Area, t = target, b = buffer,
             OpRuns(CpGarbage),
             \/ lastOp.op = "deleteAreaContents" /\ lastOp.area = b /\ FreeOK(t) /\ UsedOK(t)
             \/ lastOp.op = "initAreaAs" /\ mv = "setNewSummary"
      PROVE  Core' /\ Stage' /\ stored' = stored /\ ops' = ops
  BY <1>1, <1>4, GarbageErases, GarbageInitGoes
<1>5. ASSUME NEW t \in Area \ {0}, NEW b \in Area, t = target, b = buffer,
             NoOp, prog = Then(DeleteAreaContents(b, b), CpGarbage), mv = "moveValidData"
      PROVE  Core' /\ Stage' /\ stored' = stored /\ ops' = ops
  BY <1>1, <1>5, GarbageBuffer
<1>6. ASSUME NEW t \in Area \ {0}, NEW b \in Area, t = target, b = buffer,
             found.type = "data",
             \/ /\ prog = Then(DeleteAreaContents(t, b), ScanTail(t))
                /\ NoOp /\ mv = "swappedPosition"
             \/ OpRuns(ScanTail(t)) /\ lastOp.op = "deleteAreaContents" /\ lastOp.area = t
             \/ prog = ScanTail(t) /\ NoOp /\ mv = "deletedOldArea"
      PROVE  Core' /\ Stage' /\ stored' = stored /\ ops' = ops
  BY <1>1, <1>6, GarbageOld, GarbageOldErases, GarbageScans
<1>7. ASSUME NEW t \in Area \ {0}, NEW b \in Area, t = target, b = buffer,
             NoOp, mv = "deletedOldArea", NEW s \in [Page -> {"free", "used"}], CleanOK(t, s),
             \/ prog = Then(SetStatusBlock(t, s), CpGarbage)
             \/ prog = Then(SetStatusBlock(t, s), InitFor(t, CpGarbage)) /\ NoActive
      PROVE  Core' /\ Stage' /\ stored' = stored /\ ops' = ops
  BY <1>1, <1>7, GarbageSummary
<1>8. ASSUME NEW t \in Area \ {0}, NEW b \in Area, t = target, b = buffer,
             prog = InitFor(t, CpGarbage), NoActive, NoOp, mv = "setNewSummary"
      PROVE  Core' /\ Stage' /\ stored' = stored /\ ops' = ops
  BY <1>1, <1>8, GarbageInit
<1>9. QED
  BY <1>2, <1>3, <1>4, <1>5, <1>6, <1>7, <1>8 DEF MountGarbage

-----------------------------------------------------------------------------
(* A mount: DataIO finishes its transaction, and closes full areas.        *)

(* What DataIO found, and what there is to invalidate. *)
LEMMA TxCases ==
    ASSUME Core
    PROVE  \/ TxState = "ok" /\ (replaced => invalidated)
           \/ TxState = "invalid" /\ replaced /\ Unreferenced(neuPage)
           \/ TxState = "recover" /\ replaced /\ Unreferenced(oldPage)
<1>1. \/ TxState = "ok" /\ (~replaced \/ (updated /\ invalidated))
      \/ TxState = "recover" /\ replaced /\ updated /\ ~invalidated
      \/ TxState = "invalid" /\ replaced /\ ~updated
  BY DEF TxState, replaced, updated, invalidated
<1>2. replaced /\ ~updated => Unreferenced(neuPage)
  BY CoreParts DEF TxOK
<1>3. replaced /\ updated /\ ~invalidated => Unreferenced(oldPage)
  BY CoreParts DEF TxOK
<1>4. QED
  BY <1>1, <1>2, <1>3

(* What signalEndOfLog makes of a page x that is to be invalidated. *)
LEMMA InvalidateIs ==
    ASSUME NEW x
    PROVE  ((IF x # NoAddr THEN <<SetStatus(x, "dirty")>> ELSE <<>>) \o <<InvalidateOldPages>>)
            \o <<ManageActiveAreaFull("data"), ManageActiveAreaFull("index"), Checkpoint("dataIO")>>
           = IF x # NoAddr THEN Then(SetStatus(x, "dirty"), Then(InvalidateOldPages, FullData))
             ELSE Then(InvalidateOldPages, FullData)
<1>1. <<ManageActiveAreaFull("data"), ManageActiveAreaFull("index"), Checkpoint("dataIO")>>
            = FullData
  BY ThenTuples DEF FullData, CpData, NoProg
<1>2. PICK i, r : i = InvalidateOldPages /\ r = FullData /\ IsProg(r)
  BY Progs
<1>3. IsProg(<<i>>) /\ <<i>> \o r = Then(i, r) /\ <<>> \o <<i>> = <<i>>
  <2>1. IsProg(<<i>>)
    BY CatFacts
  <2>2. <<i>> \o r = Then(i, r)
    BY <1>2, ThenOne
  <2>3. <<>> \o <<i>> = <<i>>
    BY <2>1, CatFacts DEF Cat, Nil
  <2>4. QED
    BY <2>1, <2>2, <2>3
<1>4. CASE x # NoAddr
  <2>1. PICK y : y = SetStatus(x, "dirty")
    OBVIOUS
  <2>2. <<y>> \o <<i>> = <<y, i>>
    <3>1. <<y>> \o <<i>> = Then(y, <<i>>)
      BY <1>3, ThenOne
    <3>2. QED
      BY <3>1, ThenTuples
  <2>3. <<y, i>> \o r = Then(y, Then(i, r))
    BY <1>2, ThenTwo
  <2>4. QED
    BY <1>1, <1>2, <1>4, <2>1, <2>2, <2>3
<1>5. QED
  BY <1>1, <1>2, <1>3, <1>4

(* DataIO takes over. *)
LEMMA DataIOSignals ==
    ASSUME Core, prog = NoProg, NoOp, mv = "ok", phase = "garbage", FoundTx, Next, ~PowerLoss
    PROVE  Core' /\ Stage' /\ stored' = stored /\ ops' = ops
<1>1. SignalDataIO
  BY NextTopic
<1>2. /\ phase' = "dataIO" /\ prog' = ResumeDataIO
      /\ UNCHANGED <<flashVars, index, log, ramVars>> /\ found' = found /\ ops' = ops
  BY <1>1 DEF SignalDataIO, bounds
<1>3. Core' /\ SameState
  BY <1>2, CoreParts, StateSame DEF InFlash
<1>4. /\ NoOp' /\ mv' = "ok" /\ SameTx /\ stored' = stored /\ map' = map /\ addr' = addr
  BY <1>3 DEF SameState, SameMove
<1>5. FullData' = FullData
  BY DEF FullData, CpData, NoProg
<1>6. Invalidate' = Then(InvalidateOldPages, FullData)
  BY <1>2, <1>5 DEF Invalidate, Behind1
<1>7. \A x : Unreferenced(x)' <=> Unreferenced(x)
  BY <1>4 DEF Unreferenced
<1>8. CASE found.tx = "ok"
  <2>1. prog' = FullData
    <3>1. prog' = <<>> \o <<ManageActiveAreaFull("data"), ManageActiveAreaFull("index"),
                            Checkpoint("dataIO")>>
      BY <1>2, <1>8 DEF ResumeDataIO
    <3>2. <<ManageActiveAreaFull("data"), ManageActiveAreaFull("index"), Checkpoint("dataIO")>>
            = FullData
      BY ThenTuples DEF FullData, CpData, NoProg
    <3>3. QED
      BY <3>1, <3>2, ProgFacts, Progs
  <2>2. replaced' => invalidated'
    BY <1>4, <1>8, TxCases DEF FoundTx, SameTx
  <2>3. MountDataIO'
    BY <1>2, <1>4, <1>5, <2>1, <2>2 DEF MountDataIO
  <2>4. QED
    BY <1>2, <1>3, <1>4, <2>3 DEF Stage
<1>9. ASSUME NEW x, Unreferenced(x), replaced,
             prog' = ((IF x # NoAddr THEN <<SetStatus(x, "dirty")>> ELSE <<>>)
                      \o <<InvalidateOldPages>>)
                     \o <<ManageActiveAreaFull("data"), ManageActiveAreaFull("index"),
                          Checkpoint("dataIO")>>
      PROVE  Core' /\ Stage' /\ stored' = stored /\ ops' = ops
  <2>1. prog' = IF x # NoAddr THEN Then(SetStatus(x, "dirty"), Invalidate') ELSE Invalidate'
    BY <1>6, <1>9, InvalidateIs
  <2>2. Retiring'
    BY <1>2, <1>4, <1>9 DEF Retiring, SameTx
  <2>3. RetireNext'
    <3>1. CASE x # NoAddr
      <4>1. x \in Addr
        BY <1>9, <3>1 DEF Unreferenced
      <4>2. QED
        BY <1>2, <1>7, <1>9, <2>1, <3>1, <4>1 DEF RetireNext
    <3>2. CASE x = NoAddr
      BY <2>1, <3>2 DEF RetireNext
    <3>3. QED
      BY <3>1, <3>2
  <2>4. (Retiring /\ RetireNext => RetireOld)'
    BY RetireParts, PTL
  <2>5. Stage'
    BY <1>2, <2>2, <2>3, <2>4 DEF Stage
  <2>6. QED
    BY <1>2, <1>3, <1>4, <2>5
<1>10. CASE found.tx = "invalid"
  <2>1. TxState = "invalid" /\ found.neu = neuPage
    BY <1>10 DEF FoundTx
  <2>2. replaced /\ Unreferenced(neuPage)
    BY <2>1, TxCases
  <2>3. prog' = ((IF found.neu # NoAddr THEN <<SetStatus(found.neu, "dirty")>> ELSE <<>>)
                      \o <<InvalidateOldPages>>)
                     \o <<ManageActiveAreaFull("data"), ManageActiveAreaFull("index"),
                          Checkpoint("dataIO")>>
    BY <1>2, <1>10 DEF ResumeDataIO
  <2>4. QED
    BY <1>9, <2>1, <2>2, <2>3
<1>11. CASE found.tx = "recover"
  <2>1. TxState = "recover" /\ found.old = oldPage
    BY <1>11 DEF FoundTx
  <2>2. replaced /\ Unreferenced(oldPage)
    BY <2>1, TxCases
  <2>3. prog' = ((IF found.old # NoAddr THEN <<SetStatus(found.old, "dirty")>> ELSE <<>>)
                      \o <<InvalidateOldPages>>)
                     \o <<ManageActiveAreaFull("data"), ManageActiveAreaFull("index"),
                          Checkpoint("dataIO")>>
    BY <1>2, <1>11 DEF ResumeDataIO
  <2>4. QED
    BY <1>9, <2>1, <2>2, <2>3
<1>12. QED
  BY <1>8, <1>10, <1>11, TxCases DEF FoundTx

(* The active area, if it is full, is to be closed. *)
LEMMA DataFull ==
    ASSUME Core, phase = "dataIO", mv = "ok", replaced => invalidated, NoOp, prog = FullData,
           Next, ~PowerLoss
    PROVE  Core' /\ Stage' /\ stored' = stored /\ ops' = ops
<1>p. PICK r : r = FullIndex /\ IsProg(r)
  BY Progs
<1>1. PICK a : a = map.active["data"] /\ a \in Area
  BY CoreParts DEF AreaType
<1>2. /\ prog' = (IF a # 0 /\ FreePages(a) = {} THEN <<CloseArea(a)>> ELSE <<>>) \o r
      /\ sum' = IF a = 0 THEN sum ELSE WithSummary(sum, a, SummaryOf(map, sum, a))
      /\ UNCHANGED <<flashVars, index, log, map, addr, phase, found, bounds>>
  <2>1. prog = Then(ManageActiveAreaFull("data"), r)
    BY <1>p DEF FullData, FullIndex
  <2>2. QED
    BY <1>1, <1>p, <2>1, ExecManageFull
<1>3. map' = map /\ addr' = addr /\ phase' = phase /\ ops' = ops
  BY <1>2 DEF flashVars, bounds
<1>4. FullIndex' = FullIndex
  BY DEF FullIndex, CpData, NoProg
<1>5. CASE a = 0
  <2>1. UNCHANGED <<flashVars, index, log, ramVars>>
    BY <1>2, <1>5 DEF ramVars
  <2>2. Core' /\ SameState
    BY <1>3, <2>1, CoreParts, StateSame DEF InFlash
  <2>3. NoOp' /\ mv' = "ok" /\ (replaced' => invalidated') /\ stored' = stored
    BY <2>2 DEF SameState, SameMove, SameTx
  <2>4. Room'
    BY <1>1, <1>3, <1>5 DEF Room
  <2>5. prog' = r
    BY <1>p, <1>2, <1>5, ProgFacts
  <2>6. MountDataIO'
    BY <1>p, <1>3, <1>4, <2>3, <2>4, <2>5 DEF MountDataIO
  <2>7. QED
    BY <1>3, <2>2, <2>3, <2>6 DEF Stage
<1>6. CASE a # 0
  <2>1. map.type[a] = "data" /\ SummaryOf(map, sum, a) = ram[a] /\ ram[a] = logged[a]
    BY <1>1, <1>6, CoreParts, IdleParts DEF ActiveOK, SumOK
  <2>2. /\ Core' /\ SameMove /\ SameTx /\ NoOp' /\ SameRest /\ stored' = stored
        /\ buffer' = buffer /\ logged' = logged
    BY <1>1, <1>2, <1>6, <2>1, CacheStep DEF flashVars, bounds
  <2>3. mv' = "ok" /\ (replaced' => invalidated')
    BY <2>2 DEF SameMove, SameTx
  <2>4. CASE FreePages(a) = {}
    <3>1. prog' = Then(CloseArea(a), r)
      BY <1>p, <1>2, <1>6, <2>4, ThenOne
    <3>2. a \in Area \ {0} /\ a = map'.active["data"]
      BY <1>1, <1>3, <1>6
    <3>3. MountDataIO'
      BY <1>p, <1>3, <1>4, <2>2, <2>3, <3>1, <3>2 DEF MountDataIO
    <3>4. QED
      BY <1>3, <2>2, <3>3 DEF Stage
  <2>5. CASE FreePages(a) # {}
    <3>1. prog' = r
      BY <1>p, <1>2, <2>5, ProgFacts
    <3>2. Room'
      BY <1>1, <1>3, <2>1, <2>2, <2>5 DEF Room, FreePages, Pages
    <3>3. MountDataIO'
      BY <1>p, <1>3, <1>4, <2>2, <2>3, <3>1, <3>2 DEF MountDataIO
    <3>4. QED
      BY <1>3, <2>2, <3>3 DEF Stage
  <2>6. QED
    BY <2>4, <2>5
<1>7. QED
  BY <1>5, <1>6

(* It is closed. *)
LEMMA DataCloses ==
    ASSUME Careful, Core, phase = "dataIO", mv = "ok", replaced => invalidated,
           NEW ctx, IsProg(ctx),
           ctx = FullIndex, Next, ~PowerLoss,
           \/ \E a \in Area \ {0} :
                NoOp /\ prog = Then(CloseArea(a), ctx) /\ a = map.active["data"]
           \/ OpRuns(ctx) /\ lastOp.op = "closeArea"
    PROVE  Core' /\ Stage' /\ stored' = stored /\ ops' = ops
<1>1. FullIndex' = FullIndex
  BY DEF FullIndex, CpData, NoProg
<1>2. ASSUME NEW a \in Area \ {0}, NoOp, prog = Then(CloseArea(a), ctx),
             a = map.active["data"]
      PROVE  Core' /\ Stage' /\ stored' = stored /\ ops' = ops
  <2>1. Core' /\ OpStarts(CloseArea(a)) /\ mv' = mv /\ OpRuns(ctx)'
    BY <1>2, CloseRuns
  <2>2. SameTx /\ phase' = phase /\ ops' = ops /\ stored' = stored /\ lastOp' = CloseArea(a)
    BY <2>1, StartFrame DEF SameRest
  <2>3. lastOp'.op = "closeArea" /\ (replaced' => invalidated')
    BY <2>2, OpNames DEF SameTx
  <2>4. OpRuns(FullIndex)'
    BY <1>1, <2>1
  <2>5. MountDataIO'
    BY <2>1, <2>2, <2>3, <2>4 DEF MountDataIO
  <2>6. QED
    BY <2>1, <2>2, <2>5 DEF Stage
<1>3. ASSUME OpRuns(ctx), lastOp.op = "closeArea"
      PROVE  Core' /\ Stage' /\ stored' = stored /\ ops' = ops
  <2>1. Core' /\ OpFrame /\ OpPages /\ (OpGoes(ctx) \/ OpEnds(ctx))
    BY <1>3, OpStep
  <2>2. /\ mv' = "ok" /\ (replaced' => invalidated') /\ phase' = phase /\ ops' = ops
        /\ stored' = stored
    BY <2>1 DEF OpFrame, SameMove, SameTx, SameRest
  <2>3. CASE OpGoes(ctx)
    <3>1. lastOp' = lastOp /\ OpRuns(ctx)'
      BY <2>3 DEF OpGoes
    <3>2. OpRuns(FullIndex)'
      BY <1>1, <3>1
    <3>3. MountDataIO'
      BY <1>3, <2>2, <3>1, <3>2 DEF MountDataIO
    <3>4. QED
      BY <2>1, <2>2, <3>3 DEF Stage
  <2>4. CASE OpEnds(ctx)
    <3>1. NoOp' /\ prog' = ctx /\ map' = map /\ ext = "activeArea"
      BY <1>3, <2>4 DEF OpEnds, OpDone
    <3>2. map.active["data"] = 0
      BY <1>3, <3>1, CoreParts DEF CloseOK
    <3>3. Room'
      BY <3>1, <3>2 DEF Room
    <3>4. MountDataIO'
      BY <1>1, <2>2, <3>1, <3>3 DEF MountDataIO
    <3>5. QED
      BY <2>1, <2>2, <3>4 DEF Stage
  <2>5. QED
    BY <2>1, <2>3, <2>4
<1>4. QED
  BY <1>2, <1>3

(* No area is active for the index. *)
LEMMA IndexFull ==
    ASSUME Core, phase = "dataIO", mv = "ok", replaced => invalidated, NoOp, Room,
           prog = FullIndex, Next, ~PowerLoss
    PROVE  Core' /\ Stage' /\ stored' = stored /\ ops' = ops
<1>p. PICK r : r = CpData /\ IsProg(r)
  BY Progs
<1>1. map.active["index"] = 0
  BY CoreParts DEF FixedAreas, AreaType
<1>2. /\ prog' = <<>> \o r /\ sum' = sum
      /\ UNCHANGED <<flashVars, index, log, map, addr, phase, found, bounds>>
  <2>1. prog = Then(ManageActiveAreaFull("index"), r)
    BY <1>p DEF FullIndex
  <2>2. QED
    BY <1>1, <1>p, <2>1, ExecManageFull
<1>3. UNCHANGED <<flashVars, index, log, ramVars>> /\ phase' = phase /\ ops' = ops
  BY <1>2 DEF ramVars, bounds
<1>4. Core' /\ SameState
  BY <1>3, CoreParts, StateSame DEF InFlash
<1>5. NoOp' /\ mv' = "ok" /\ (replaced' => invalidated') /\ stored' = stored /\ Room'
  BY <1>4, RoomStays DEF SameState, SameMove, SameTx
<1>6. prog' = CpData
  BY <1>p, <1>2, ProgFacts
<1>7. MountDataIO'
  BY <1>3, <1>5, <1>6 DEF MountDataIO, CpData, NoProg
<1>8. QED
  BY <1>3, <1>4, <1>5, <1>7 DEF Stage

(* DataIO is done, and the mount. *)
LEMMA DataEnds ==
    ASSUME Core, phase = "dataIO", mv = "ok", NoOp, Room,
           prog = CpData \/ (prog = NoProg /\ ~replaced), Next, ~PowerLoss
    PROVE  Core' /\ Stage' /\ stored' = stored /\ ops' = ops
<1>1. CASE prog = CpData
  <2>1. NoteEntry(Checkpoint("dataIO")) /\ prog' = NoProg
    BY <1>1, ExecNoteEntry, Progs, NoteOps, CoreParts DEF CpData
  <2>2. /\ Core' /\ NoteEffect /\ NoOp' /\ SameMove /\ ~replaced' /\ stored' = stored
    BY <2>1, DataIOCheckpoint
  <2>3. Room' /\ mv' = "ok" /\ phase' = phase /\ ops' = ops
    BY <2>2, NoteFrame, RoomStays DEF SameMove
  <2>4. MountDataIO'
    BY <2>1, <2>2, <2>3 DEF MountDataIO, NoProg
  <2>5. QED
    BY <2>2, <2>3, <2>4 DEF Stage
<1>2. CASE prog = NoProg /\ ~replaced
  <2>1. Mounted
    BY <1>2, NextTopic
  <2>2. /\ UNCHANGED <<flashVars, index, log, ramVars>> /\ phase' = "run" /\ prog' = prog
        /\ ops' = ops
    BY <2>1 DEF Mounted, bounds
  <2>3. Core' /\ SameState
    BY <2>2, CoreParts, StateSame DEF InFlash
  <2>4. Quiet' /\ Room' /\ stored' = stored
    BY <1>2, <2>3, RoomStays DEF SameState, SameMove, SameTx, Quiet
  <2>5. prog' = NoProg'
    BY <1>2, <2>2 DEF NoProg
  <2>6. RunRoom'
    BY <2>4, <2>5 DEF RunRoom
  <2>7. Stage'
    BY <2>2, <2>5, <2>6 DEF Stage
  <2>8. QED
    BY <2>2, <2>3, <2>4, <2>7
<1>3. QED
  BY <1>1, <1>2

(* DataIO at a mount. *)
LEMMA MountDataIOStep ==
    ASSUME Careful, Core, MountDataIO, Next, ~PowerLoss
    PROVE  Core' /\ Stage' /\ stored' = stored /\ ops' = ops
<1>1. phase = "dataIO" /\ mv = "ok" /\ (replaced => invalidated)
  BY DEF MountDataIO
<1>p. PICK r : r = FullIndex /\ IsProg(r)
  BY Progs
<1>2. \/ NoOp /\ prog = FullData
      \/ \E a \in Area \ {0} : NoOp /\ prog = Then(CloseArea(a), r) /\ a = map.active["data"]
      \/ NoOp /\ prog = FullIndex /\ Room
      \/ NoOp /\ prog = CpData /\ Room
      \/ NoOp /\ prog = NoProg /\ Room /\ ~replaced
      \/ OpRuns(r) /\ lastOp.op = "closeArea"
  BY <1>p DEF MountDataIO
<1>3. QED
  BY <1>p, <1>1, <1>2, DataFull, DataCloses, IndexFull, DataEnds

-----------------------------------------------------------------------------
(* Power fails, and a mount begins.                                        *)

(* Every change of an operation is a list of instructions. *)
LEMMA ResumedProgs ==
    ASSUME NEW m, NEW s, NEW e,
           e.op \in {"initAreaAs", "closeArea", "deleteArea", "deleteAreaContents"}
    PROVE  /\ Len(ResumeOrder[e.op]) \in 0 .. 6
           /\ \A k \in 1 .. Len(ResumeOrder[e.op]) : IsProg(Resumed(m, s, e)[k])
<1>p. \A x : IsProg(<<x>>)
  BY CatFacts
<1>n. IsProg(<<>>)
  BY ProgFacts
<1>1. CASE e.op = "initAreaAs"
  <2> DEFINE U1 == <<Type(e.area, e.type)>>
             U2 == IF m.status[e.area] = "empty" THEN <<AddUsed(1)>> ELSE <<>>
             U3 == <<ActiveArea(e.type, e.area)>>
  <2>1. Resumed(m, s, e) = <<U1, U2, U3>>
    BY <1>1 DEF Resumed
  <2>2. IsProg(U1) /\ IsProg(U2) /\ IsProg(U3)
    BY <1>p, <1>n
  <2>3. Len(ResumeOrder[e.op]) = 3
    BY <1>1 DEF ResumeOrder
  <2> HIDE DEF U1, U2, U3
  <2>4. \A k \in 1 .. 3 : Resumed(m, s, e)[k] \in {U1, U2, U3}
    BY <2>1
  <2>5. QED
    BY <2>2, <2>3, <2>4
<1>2. CASE e.op = "closeArea"
  <2> DEFINE U1 == <<Status(e.area, "closed")>>
             U2 == <<ActiveArea(m.type[e.area], 0)>>
  <2>1. Resumed(m, s, e) = <<U1, U2>>
    BY <1>2 DEF Resumed
  <2>2. IsProg(U1) /\ IsProg(U2)
    BY <1>p
  <2>3. Len(ResumeOrder[e.op]) = 2
    BY <1>2 DEF ResumeOrder
  <2> HIDE DEF U1, U2
  <2>4. \A k \in 1 .. 2 : Resumed(m, s, e)[k] \in {U1, U2}
    BY <2>1
  <2>5. QED
    BY <2>2, <2>3, <2>4
<1>3. CASE e.op \in {"deleteArea", "deleteAreaContents"}
  <2> DEFINE U1 == EraseArea(m.pos[e.area]) \o <<IncreaseErasecount(e.area)>>
             U2 == IF e.area \in DOMAIN s THEN <<ResetASWritten(e.area)>> ELSE <<>>
             U3 == IF e.area \in DOMAIN s THEN <<DeleteSummary(e.area)>> ELSE <<>>
             U4 == <<Status(e.area, "empty")>>
             U5 == <<Type(e.area, "unset")>>
             U6 == <<AddUsed(-1)>>
  <2>1. Resumed(m, s, e) = <<U1, U2, U3, U4, U5, U6>>
    BY <1>3 DEF Resumed
  <2>2. IsProg(U2) /\ IsProg(U3) /\ IsProg(U4) /\ IsProg(U5) /\ IsProg(U6)
    BY <1>p, <1>n
  <2>3. IsProg(U1)
    <3>1. PICK x, y : x = EraseArea(m.pos[e.area]) /\ y = <<IncreaseErasecount(e.area)>>
      OBVIOUS
    <3>2. IsProg(x) /\ IsProg(y)
      <4>1. 0 \in 0 .. BlocksPerArea
        BY Constants
      <4>2. IsProg(EraseFrom(m.pos[e.area], 0)) /\ EraseFrom(m.pos[e.area], 0) = x
        BY <1>n, <3>1, <4>1, EraseFacts
      <4>3. QED
        BY <1>p, <3>1, <4>2
    <3>3. IsProg(x \o y)
      BY <3>2, ThenConcat
    <3>4. QED
      BY <3>1, <3>3
  <2>4. Len(ResumeOrder[e.op]) \in {3, 6}
    BY <1>3 DEF ResumeOrder
  <2> HIDE DEF U1, U2, U3, U4, U5, U6
  <2>5. \A k \in 1 .. 6 : Resumed(m, s, e)[k] \in {U1, U2, U3, U4, U5, U6}
    BY <2>1
  <2>6. \A k \in 1 .. 6 : IsProg(Resumed(m, s, e)[k])
    BY <2>2, <2>3, <2>5
  <2>7. PICK n : n = Len(ResumeOrder[e.op])
    OBVIOUS
  <2>8. CASE n = 3
    <3>1. \A k \in 1 .. 3 : k \in 1 .. 6
      OBVIOUS
    <3>2. QED
      BY <2>6, <2>7, <2>8, <3>1
  <2>9. CASE n = 6
    BY <2>6, <2>7, <2>9
  <2>10. n = 3 \/ n = 6
    BY <2>4, <2>7
  <2>11. QED
    BY <2>8, <2>9, <2>10
<1>4. QED
  BY <1>1, <1>2, <1>3

(* And so is what is left of it. *)
LEMMA ResumeProg ==
    ASSUME NEW m, NEW s, NEW e, NEW x,
           e.op \in {"initAreaAs", "closeArea", "deleteArea", "deleteAreaContents"}
    PROVE  IsProg(ResumeOperation(m, s, e, x))
<1> DEFINE order == ResumeOrder[e.op]
           done == IF x = "none" THEN 0 ELSE LastIndex({k \in DOMAIN order : order[k] = x})
           L(k) == Left(m, s, e, done, k)
           cp == <<Checkpoint("areaMgmt")>>
           p6 == Cat(L(6), Nil)
           p5 == Cat(L(5), p6)
           p4 == Cat(L(4), p5)
           p3 == Cat(L(3), p4)
           p2 == Cat(L(2), p3)
           p1 == Cat(L(1), p2)
<1>0. e.op \in AreaMgmtOp /\ e.op # "retireArea"
  BY DEF AreaMgmtOp
<1>1. ResumeOperation(m, s, e, x) = IF x # "none" /\ done = 0 THEN Cat(Nil, cp) ELSE Cat(p1, cp)
  BY <1>0 DEF ResumeOperation, Left, Cat, Nil
<1>2. Len(order) \in 0 .. 6 /\ done \in Nat
  <2>1. Len(order) \in 0 .. 6 /\ DOMAIN order = 1 .. Len(order)
    BY DEF ResumeOrder
  <2>2. {k \in DOMAIN order : order[k] = x} \in SUBSET (1 .. Len(order)) /\ Len(order) \in Nat
    BY <2>1
  <2>3. LastIndex({k \in DOMAIN order : order[k] = x}) \in 0 .. Len(order)
    BY <2>2, LastIndexIs
  <2>4. QED
    BY <2>1, <2>3
<1>3. \A k : IsProg(L(k))
  <2>1. TAKE k
  <2>2. CASE k \in done + 1 .. Len(order)
    <3>1. k \in 1 .. Len(order)
      BY <1>2, <2>2
    <3>2. L(k) = Resumed(m, s, e)[k]
      BY <2>2 DEF Left
    <3>3. QED
      BY <3>1, <3>2, ResumedProgs
  <2>3. CASE k \notin done + 1 .. Len(order)
    <3>1. L(k) = Nil
      BY <2>3 DEF Left
    <3>2. QED
      BY <3>1, CatFacts
  <2>4. QED
    BY <2>2, <2>3
<1>4. IsProg(cp) /\ IsProg(Nil)
  BY CatFacts
<1> HIDE DEF L, cp, p1, p2, p3, p4, p5, p6, done
<1>5. IsProg(p6)
  BY <1>3, <1>4, CatFacts DEF p6
<1>6. IsProg(p5)
  BY <1>3, <1>5, CatFacts DEF p5
<1>7. IsProg(p4)
  BY <1>3, <1>6, CatFacts DEF p4
<1>8. IsProg(p3)
  BY <1>3, <1>7, CatFacts DEF p3
<1>9. IsProg(p2)
  BY <1>3, <1>8, CatFacts DEF p2
<1>10. IsProg(p1)
  BY <1>3, <1>9, CatFacts DEF p1
<1>11. IsProg(Cat(Nil, cp)) /\ IsProg(Cat(p1, cp))
  BY <1>4, <1>10, CatFacts
<1>12. QED
  BY <1>1, <1>11

(* The state a mount begins with: RAM as it was, and the page states the
   journal tells. *)
Remounted ==
    /\ UNCHANGED <<flash, asWritten, bad, index, log, map, addr, ops>>
    /\ sum' = SumFromLog /\ found' = FromLog /\ phase' = "areaMgmt"
    /\ prog' = ResumeOperation(map, sum', lastOp, ext)

(* A power loss leads to a mount, and never in the middle of an erase that
   is spared. *)
LEMMA PowerIs ==
    ASSUME Core, PowerLoss
    PROVE  Remounted /\ ("gcErase" \in Spared => ~InGcErase)
<1>1. MapFromLog = map /\ AddrFromLog = addr
  BY CoreParts DEF Recovered
<1>2. /\ map' = MapFromLog /\ sum' = SumFromLog /\ addr' = AddrFromLog /\ found' = FromLog
      /\ phase' = "areaMgmt" /\ prog' = ResumeOperation(map', sum', found'.last, found'.extern)
      /\ UNCHANGED <<flashVars, index, log, ops>>
      /\ ("gcErase" \in Spared => ~InGcErase)
  BY DEF PowerLoss
<1>3. FromLog.last = lastOp /\ FromLog.extern = ext
  BY DEF FromLog, lastOp, ext
<1>4. prog' = ResumeOperation(map, sum', lastOp, ext)
  BY <1>1, <1>2, <1>3
<1>5. QED
  BY <1>1, <1>2, <1>4 DEF Remounted, flashVars

(* What the summary cache holds then. *)
LEMMA SumRemounted ==
    ASSUME Core, Remounted
    PROVE  /\ logged' = logged /\ inLog' = inLog /\ ram' = logged
           /\ \A a : a \in cached' <=> a \in inLog
           /\ \A a \in cached' : sum'[a] \in [Page -> SummaryEntry]
<1>1. UNCHANGED <<flash, asWritten, bad, index, log, map, addr>> /\ sum' = SumFromLog
  BY DEF Remounted
<1>2. \A a \in Area : Base(a)' = Base(a)
  BY <1>1 DEF Base
<1>3. inLog' = inLog /\ logged' = logged
  BY <1>1, <1>2, CoreParts, LoggedStays
<1>4. LoggedIs
  BY CoreParts, LoggedType
<1>5. Typed
  <2>1. \A a \in Area : a \in inLog => map.type[a] # "unset"
    BY CoreParts DEF LoggedPages
  <2>2. QED
    BY <1>4, <2>1, CoreParts DEF Typed, LoggedIs
<1>6. MapFromLog = map
  BY CoreParts DEF Recovered
<1>7. /\ \A a : a \in DOMAIN SumFromLog <=> InLog(a)
      /\ \A a \in DOMAIN SumFromLog : SumFromLog[a] \in [Page -> SummaryEntry]
      /\ \A a \in Area, p \in Page : SummaryOf(map, SumFromLog, a)[p] = LogStatus(a, p)
  BY <1>5, <1>6, CoreParts, SumIs
<1>8. cached' = DOMAIN SumFromLog
  BY <1>1 DEF cached
<1>9. ram' = logged
  <2>1. ram' = [a \in Area |-> [p \in Page |-> SummaryOf(map, SumFromLog, a)[p]]]
    BY <1>1 DEF ram, PageStatus, SummaryOf
  <2>2. logged = [a \in Area |-> [p \in Page |-> LogStatus(a, p)]]
    BY DEF logged
  <2>3. QED
    BY <1>7, <2>1, <2>2
<1>10. QED
  BY <1>1, <1>3, <1>4, <1>7, <1>8, <1>9 DEF LoggedIs

(* A mount begins with everything as it was before power failed. *)
LEMMA CoreRemounted ==
    ASSUME Core, Remounted
    PROVE  /\ Core' /\ SameMove /\ SameTx /\ TxState' = TxState /\ stored' = stored
           /\ lastOp' = lastOp /\ ext' = ext /\ (NoOp' <=> NoOp) /\ ops' = ops
<1>1. UNCHANGED <<flash, asWritten, bad, index, log, map, addr, ops>>
  BY DEF Remounted
<1>2. /\ lastOp' = lastOp /\ ext' = ext /\ (NoOp' <=> NoOp)
      /\ mv' = mv /\ target' = target
      /\ (replaced' <=> replaced) /\ (updated' <=> updated) /\ (invalidated' <=> invalidated)
      /\ neuPage' = neuPage /\ oldPage' = oldPage
      /\ TxState' = TxState
  BY <1>1, ViewStays
<1>3. SameMove /\ SameTx
  BY <1>2 DEF SameMove, SameTx
<1>4. \A a \in Area : Base(a)' = Base(a)
  BY <1>1 DEF Base
<1>5. LogOK'
  BY <1>1, <1>4, CoreParts, LoggedStays
<1>6. /\ logged' = logged /\ inLog' = inLog /\ ram' = logged
      /\ \A a : a \in cached' <=> a \in inLog
      /\ \A a \in cached' : sum'[a] \in [Page -> SummaryEntry]
  BY SumRemounted
<1>8. /\ (map \in Map)' /\ FixedAreas' /\ OtherAreas' /\ PositionsDistinct' /\ Totals'
      /\ ActiveOK' /\ OpOK'
  BY <1>1, <1>2, <1>3, MapSame
<1>9. buffer' = buffer /\ stored' = stored
  BY <1>1 DEF buffer, stored
<1>10. Recovered'
  BY <1>1, CoreParts, RecoveredStays
<1>11. InFlash' /\ IsProg(log')
  BY <1>1, CoreParts DEF InFlash, IsProg
<1>12. FilesOK'
  BY <1>1, <1>2, CoreParts DEF FilesOK, Deleting, Doing1
<1>13. DataPages' /\ EmptyPages' /\ LoggedPages' /\ WrittenPages'
  BY <1>1, <1>2, <1>6, CoreParts DEF DataPages, EmptyPages, LoggedPages, WrittenPages,
     FreeOK, UsedOK, ErasedArea, Lost, Deleting, Doing1
<1>14. DeletedPages' /\ BufferPages'
  BY <1>1, <1>2, <1>6, <1>9, CoreParts DEF DeletedPages, BufferPages,
     ErasedArea, Deleting, Doing1
<1>15. MoveOK'
  BY <1>1, <1>3, CoreParts, MoveStays
<1>16. TxOK'
  BY <1>1, <1>2, CoreParts DEF TxOK, Unreferenced
<1>17. SumOK'
  <2>1. \A a \in Area : Deleting(a)' <=> Deleting(a)
    BY <1>2 DEF Deleting, Doing1
  <2>2. \A a \in inLog : a \in Area /\ map.type[a] = "data"
    BY CoreParts DEF LoggedPages
  <2>3. \A a \in Area : Deleting(a) /\ ext \in {"remove", "status"} => a \notin inLog
    BY CoreParts DEF DeletedPages
  <2>4. QED
    BY <1>1, <1>2, <1>6, <2>1, <2>2, <2>3 DEF SumOK
<1>18. Core'
  BY <1>5, <1>8, <1>10, <1>11, <1>12, <1>13, <1>14, <1>15, <1>16, <1>17, CoreWhole DEF PagesOK
<1>19. QED
  BY <1>1, <1>2, <1>3, <1>9, <1>18

(* The operation in progress is what AreaManagement resumes. *)
LEMMA OpRemounted ==
    ASSUME Core, Remounted, ~InGcErase, ~NoOp
    PROVE  OpRuns(NoProg)'
<1>1. /\ lastOp' = lastOp /\ ext' = ext /\ (NoOp' <=> NoOp)
  BY CoreRemounted
<1>2. map' = map /\ prog' = ResumeOperation(map, sum', lastOp, ext)
  BY DEF Remounted
<1>3. lastOp.op \in {"initAreaAs", "closeArea", "deleteArea", "deleteAreaContents"}
  BY CoreParts DEF NoOp
<1>4. \A x : Cat(ResumeOperation(map, sum', lastOp, x), Nil) = ResumeOperation(map, sum', lastOp, x)
  BY <1>3, ResumeProg, CatFacts
<1>5. \A x : Behind(x, NoProg)' = ResumeOperation(map, sum', lastOp, x)
  BY <1>1, <1>2, <1>4 DEF Behind, NoProg, Nil, Cat
<1>6. CASE ~Erases
  <2>1. ~Erases'
    BY <1>1, <1>6 DEF Erases
  <2>2. Behind(ext, NoProg)' = ResumeOperation(map, sum', lastOp, ext)
    BY <1>1, <1>2, <1>4, BehindExt DEF NoProg, Nil
  <2>3. (prog = Behind(ext, NoProg))'
    BY <1>2, <2>2
  <2>4. QED
    BY <1>1, <2>1, <2>3 DEF OpRuns
<1>7. CASE Erases
  <2>1. Erases' /\ ErasedPos' = ErasedPos /\ ext = "none"
    BY <1>1, <1>2, <1>7 DEF Erases, ErasedPos
  <2>2. ErasedPos = map.pos[lastOp.area]
    <3>1. CASE lastOp.op = "deleteArea"
      BY <3>1 DEF ErasedPos
    <3>2. CASE lastOp.op = "deleteAreaContents"
      <4>1. LastOperation # 0 /\ lastOp = log[LastOperation]
        BY <3>2 DEF lastOp, InvalidateOldPages
      <4>2. lastOp.area = lastOp.b
        BY <2>1, <3>2, <4>1 DEF InGcErase, ext
      <4>3. QED
        BY <3>2, <4>2 DEF ErasedPos
    <3>3. QED
      BY <1>7, <3>1, <3>2 DEF Erases
  <2>3. PICK e, r : /\ e = lastOp
                    /\ r = Cat(ResumeOperation(map, sum', lastOp, "increaseErasecount"), Nil)
    OBVIOUS
  <2>4. Cat(ResumeOperation(map, sum', e, "none"), Nil)
            = Cat(EraseArea(map.pos[e.area]), Then(IncreaseErasecount(e.area), r))
    BY <1>7, <2>3, ResumeErase, CatFacts DEF Erases
  <2>5. prog' = Cat(EraseFrom(ErasedPos, 0), Then(IncreaseErasecount(e.area), r))
    <3>1. EraseFrom(ErasedPos, 0) = EraseArea(ErasedPos)
      BY EraseFacts, ProgFacts
    <3>2. QED
      BY <1>2, <1>4, <2>1, <2>2, <2>3, <2>4, <3>1
  <2>6. Behind("increaseErasecount", NoProg)' = r
    BY <1>4, <1>5, <2>3
  <2>7. prog' = (EraseFrom(ErasedPos, 0) \o Then(IncreaseErasecount(lastOp.area),
                                         Behind("increaseErasecount", NoProg)))'
    BY <1>1, <2>1, <2>3, <2>5, <2>6 DEF Cat
  <2>8. BlocksErased(ErasedPos, 0)'
    <3>1. 0 # BlocksPerArea /\ \A p \in Page : ~(BlockOf(p) < 0)
      BY Constants, Blocks
    <3>2. QED
      BY <3>1 DEF BlocksErased
  <2>9. 0 \in 0 .. BlocksPerArea
    BY Constants
  <2>10. QED
    BY <1>1, <2>1, <2>7, <2>8, <2>9 DEF OpRuns
<1>8. QED
  BY <1>6, <1>7

(* Power fails. *)
LEMMA PowerStep ==
    ASSUME Careful, Core, PowerLoss
    PROVE  Core' /\ Stage' /\ stored' = stored /\ ops' = ops
<1>1. Remounted /\ ~InGcErase
  BY PowerIs DEF Careful
<1>2. /\ Core' /\ SameMove /\ SameTx /\ TxState' = TxState /\ stored' = stored
      /\ lastOp' = lastOp /\ ext' = ext /\ (NoOp' <=> NoOp) /\ ops' = ops
  BY <1>1, CoreRemounted
<1>3. phase' = "areaMgmt" /\ found' = FromLog /\ prog' = ResumeOperation(map, sum', lastOp, ext)
  BY <1>1 DEF Remounted
<1>4. FoundMove'
  <2>1. FromLog.state = mv /\ FromLog.target = target
    BY DEF FromLog, mv, target
  <2>2. mv # "ok" => FromLog.type = "data"
    <3>1. mv # "ok" => LastMove # 0
      BY DEF mv, MoveProgress
    <3>2. LastMove # 0 => FromLog.type = MapFromLog.type[target]
      BY DEF FromLog, target
    <3>3. QED
      BY <3>1, <3>2, CoreParts DEF MoveOK, Recovered
  <2>3. QED
    BY <1>2, <1>3, <2>1, <2>2 DEF FoundMove, SameMove
<1>5. FoundTx'
  <2>1. FromLog.tx = TxState
    BY DEF FromLog
  <2>2. TxState # "ok" => FromLog.neu = neuPage /\ FromLog.old = oldPage
    BY DEF FromLog, neuPage, oldPage
  <2>3. TxState # "ok" => replaced
    BY DEF TxState, replaced
  <2>4. QED
    BY <1>2, <1>3, <2>1, <2>2, <2>3 DEF FoundTx, SameTx
<1>6. CASE NoOp
  <2>1. lastOp.op \notin AreaMgmtOp
    BY <1>6, CoreParts, IdleParts DEF AreaMgmtOp
  <2>2. prog' = NoProg
    BY <1>3, <2>1 DEF ResumeOperation, NoProg
  <2>3. MountOps'
    BY <1>2, <1>3, <1>4, <1>5, <1>6, <2>2 DEF MountOps, NoProg
  <2>4. QED
    BY <1>2, <2>3 DEF Stage
<1>7. CASE ~NoOp
  <2>1. OpRuns(NoProg)'
    BY <1>1, <1>7, OpRemounted
  <2>2. MountOps'
    BY <1>3, <1>4, <1>5, <2>1 DEF MountOps
  <2>3. QED
    BY <1>2, <2>2 DEF Stage
<1>8. QED
  BY <1>6, <1>7

-----------------------------------------------------------------------------
(* The state after formatting.                                             *)

(* Nothing was erased in a formatted map. *)
LEMMA NoErases ==
    ASSUME FormattedMap \in Map, \A a \in Area : FormattedMap.erasecount[a] = 0
    PROVE  TotalErases(FormattedMap) = 0
<1>1. PICK f \in [0 .. AreasNo -> Nat] :
            Erases0(f, FormattedMap.erasecount) /\ TotalErases(FormattedMap) = f[AreasNo]
  BY TotalExists
<1>2. f[0] = 0 /\ \A i \in 1 .. AreasNo : f[i] = f[i - 1] + FormattedMap.erasecount[i - 1]
  BY <1>1, ErasesAt
<1> DEFINE P == {n \in Nat : f[n] = 0}
<1>3. 0 \in P
  BY <1>2
<1>4. ASSUME NEW n \in 0 .. AreasNo - 1, n \in P PROVE n + 1 \in P
  <2>1. n \in Area /\ n + 1 \in 1 .. AreasNo /\ (n + 1) - 1 = n /\ n + 1 \in Nat
    BY Constants
  <2>2. f[n + 1] = f[n] + 0
    BY <1>2, <2>1
  <2>3. QED
    BY <1>4, <2>1, <2>2
<1> HIDE DEF P
<1>5. 0 .. AreasNo \subseteq P
  BY <1>3, <1>4, Constants, IntervalInduction
<1>6. AreasNo \in 0 .. AreasNo
  BY Constants
<1>7. QED
  BY <1>1, <1>5, <1>6 DEF P

(* The area map that a format writes. *)
LEMMA FormattedIs ==
    /\ FormattedMap \in Map
    /\ \A a \in Area :
        /\ FormattedMap.type[a] = IF a = 0 THEN "superblock"
                                  ELSE IF a = 1 THEN "garbageBuffer" ELSE "unset"
        /\ FormattedMap.status[a] = IF a \in {0, 1} THEN "active" ELSE "empty"
        /\ FormattedMap.pos[a] = a
        /\ FormattedMap.erasecount[a] = 0
    /\ \A t \in AreaType : FormattedMap.active[t] = IF t = "garbageBuffer" THEN 1 ELSE 0
    /\ FormattedMap.used = 2
    /\ FormattedMap.deletions = 0
    /\ {0, 1} \subseteq Area
<1>1. AreasNo \in Nat /\ {0, 1} \subseteq Area /\ Pos = Area
  BY Constants, AreaMgmtAssumption DEF Area, Pos
<1> DEFINE ty(a) == CASE a = 0 -> "superblock" [] a = 1 -> "garbageBuffer" [] OTHER -> "unset"
<1>2. \A a : ty(a) = IF a = 0 THEN "superblock"
                                  ELSE IF a = 1 THEN "garbageBuffer" ELSE "unset"
  OBVIOUS
<1>3. FormattedMap =
       [type |-> [a \in Area |-> ty(a)],
        status |-> [a \in Area |-> IF a \in {0, 1} THEN "active" ELSE "empty"],
        pos |-> [a \in Area |-> a],
        erasecount |-> [a \in Area |-> 0],
        active |-> [t \in AreaType |-> IF t = "garbageBuffer" THEN 1 ELSE 0],
        used |-> 2,
        deletions |-> 0]
  BY DEF FormattedMap
<1> HIDE DEF ty
<1>4. \A a : ty(a) \in AreaType
  BY <1>2 DEF AreaType
<1>5. [a \in Area |-> ty(a)] \in [Area -> AreaType]
  BY <1>4
<1>6. [a \in Area |-> IF a \in {0, 1} THEN "active" ELSE "empty"] \in [Area -> AreaStatus]
  BY DEF AreaStatus
<1>7. [a \in Area |-> a] \in [Area -> Pos] /\ [a \in Area |-> 0] \in [Area -> Nat]
  BY <1>1
<1>8. [t \in AreaType |-> IF t = "garbageBuffer" THEN 1 ELSE 0] \in [AreaType -> Area]
  BY <1>1
<1>9. FormattedMap \in Map
  BY <1>3, <1>5, <1>6, <1>7, <1>8 DEF Map
<1>10. QED
  BY <1>1, <1>2, <1>3, <1>9

(* The map of a formatted flash. *)
LEMMA FormattedOK ==
    ASSUME map = FormattedMap, log = <<>>
    PROVE  MapOK /\ map.active["data"] = 0 /\ buffer = 1
           /\ \A a \in Area : map.pos[a] = a /\ map.type[a] # "data"
<1>1. NoOp /\ ext = "none" /\ mv = "ok" /\ target = 0
  BY EmptyLog
<1>2. lastOp.op = "invalidateOldPages"
  BY <1>1 DEF NoOp
<1>3. \A a : ~Deleting(a) /\ ~Doing1("initAreaAs", a) /\ ~Doing1("closeArea", a)
  BY <1>2 DEF Deleting, Doing1
<1>4. map.active["data"] = 0 /\ buffer = 1
      /\ \A t \in AreaType \ {"data", "garbageBuffer"} : map.active[t] = 0
  BY FormattedIs DEF buffer, AreaType
<1>5. FixedAreas
  BY <1>4, FormattedIs DEF FixedAreas
<1>6. OtherAreas
  <2>1. \A a \in Area \ {0, 1} : map.type[a] = "unset" /\ map.status[a] = "empty"
    BY FormattedIs
  <2>2. QED
    BY <1>4, <2>1 DEF OtherAreas, AreaOK
<1>7. PositionsDistinct
  BY FormattedIs DEF PositionsDistinct
<1>8. NonEmpty(map) = {0, 1}
  BY FormattedIs DEF NonEmpty
<1>9. Cardinality({0, 1}) = 2
  <2>1. IsFiniteSet({}) /\ IsFiniteSet({0}) /\ Cardinality({}) = 0 /\ Cardinality({0}) = 1
    BY FS_EmptySet, FS_Singleton
  <2>2. PICK S : S = {0}
    OBVIOUS
  <2>3. IsFiniteSet(S) /\ Cardinality(S) = 1 /\ 1 \notin S
    BY <2>1, <2>2
  <2>4. Cardinality(S \union {1}) = 1 + 1
    BY <2>3, FS_AddElement
  <2>5. S \union {1} = {0, 1}
    BY <2>2
  <2>6. QED
    <3>1. Cardinality(S \union {1}) = 2
      BY <2>4
    <3>2. QED
      BY <2>5, <3>1, Zenon
<1>10. Adjust = 0
  BY <1>2 DEF Adjust
<1>11. TotalErases(map) = 0
  BY FormattedIs, NoErases
<1>12. Totals
  BY <1>8, <1>9, <1>10, <1>11, FormattedIs DEF Totals
<1>13. ActiveOK
  BY <1>4 DEF ActiveOK
<1>14. map \in Map
  BY FormattedIs
<1>15. MapOK
  BY <1>5, <1>6, <1>7, <1>12, <1>13, <1>14 DEF MapOK
<1>16. \A a \in Area : map.pos[a] = a /\ map.type[a] # "data"
  BY FormattedIs
<1>17. QED
  BY <1>4, <1>15, <1>16

(* A formatted device has saved its state. *)
LEMMA InitSaved ==
    ASSUME Init
    PROVE  InFlash /\ Saved
<1>1. /\ flash = [pos \in Pos |-> All(Erased)] /\ asWritten = {} /\ bad = {}
      /\ map = FormattedMap /\ sum = <<>> /\ addr = [f \in FilePage |-> NoAddr]
      /\ index = [map |-> map, sum |-> sum, addr |-> addr] /\ log = <<>> /\ ops = 0
  BY DEF Init
<1>2. MapOK /\ map.active["data"] = 0 /\ buffer = 1
      /\ \A a \in Area : map.pos[a] = a /\ map.type[a] # "data"
  BY <1>1, FormattedOK
<1>3. InFlash
  <2>1. All(Erased) \in [Page -> Erased .. MaxOps]
    BY Constants DEF All, Erased
  <2>2. 0 \in 0 .. MaxOps
    BY Constants
  <2>3. QED
    BY <1>1, <2>1, <2>2 DEF InFlash
<1>4. cached = {}
  BY <1>1 DEF cached
<1>5. index.map = map /\ index.addr = addr /\ index.sum = sum
  BY <1>1
<1>6. index.sum = [a \in {a \in cached : map.pos[a] \notin asWritten} |-> sum[a]]
  <2>1. {a \in cached : map.pos[a] \notin asWritten} = {}
    BY <1>4
  <2>2. sum = [a \in {} |-> sum[a]]
    BY <1>1
  <2>3. QED
    BY <1>5, <2>1, <2>2
<1>7. FilesOK
  BY <1>1 DEF FilesOK
<1>8. \A a \in Area : ErasedArea(a)
  <2>1. \A a \in Area : map.pos[a] \in Pos
    BY <1>2, Constants
  <2>2. QED
    BY <1>1, <2>1 DEF ErasedArea, All
<1>9. PagesInRAM
  <2>1. buffer \in Area
    BY <1>2, Constants
  <2>2. QED
    BY <1>1, <1>2, <1>4, <1>8, <2>1 DEF PagesInRAM
<1>10. QED
  BY <1>2, <1>3, <1>5, <1>6, <1>7, <1>9 DEF Saved

(* The invariant holds after formatting. *)
LEMMA InitInv ==
    ASSUME Init
    PROVE  Inv
<1>1. InFlash /\ Saved
  BY InitSaved
<1>2. log = <<>> /\ prog = <<>> /\ phase = "run"
  BY DEF Init
<1>3. Core /\ Quiet /\ Room
  BY <1>1, <1>2, FreshCore
<1>4. RunRoom
  BY <1>2, <1>3 DEF RunRoom, NoProg
<1>5. Stage
  BY <1>2, <1>4 DEF Stage, NoProg
<1>6. QED
  BY <1>3, <1>5, CoreParts DEF Inv, Core
-----------------------------------------------------------------------------
(* The instruction that is next.                                           *)

(* The program p goes on, and does not write a page next. *)
NoWrite(p) ==
    \E x, r : IsProg(r) /\ p = Then(x, r) /\ x.op \notin {"writePage", "copyPage"}

(* Instructions that write no page. *)
LEMMA NoWriteOps ==
    LET W == {"writePage", "copyPage"} IN
    /\ \A a, t : Type(a, t).op \notin W /\ Status(a, t).op \notin W /\ ActiveArea(a, t).op \notin W
    /\ \A a : IncreaseErasecount(a).op \notin W /\ AddUsed(a).op \notin W
    /\ \A a : DeleteSummary(a).op \notin W /\ ResetASWritten(a).op \notin W
    /\ \A a, b : EraseBlock(a, b).op \notin W /\ Swap(a, b).op \notin W
    /\ \A t : Checkpoint(t).op \notin W
    /\ \A a, b : SetStatus(a, b).op \notin W /\ SetStatusBlock(a, b).op \notin W
    /\ \A a : Commit(a).op \notin W /\ WriteSummary(a).op \notin W
    /\ \A a, t : InitAreaAs(a, t).op \notin W /\ AfterDelete(a, t).op \notin W
    /\ \A a : CloseArea(a).op \notin W /\ DeleteArea(a).op \notin W /\ Scan(a).op \notin W
    /\ \A a, b : DeleteAreaContents(a, b).op \notin W /\ ReplacePage(a, b).op \notin W
    /\ \A a, b : UpdateInode(a, b).op \notin W
    /\ \A a : MoveValidData(a).op \notin W /\ NewPageFor(a).op \notin W
    /\ \A t : ManageActiveAreaFull(t).op \notin W
    /\ InvalidateOldPages.op \notin W /\ AfterMove.op \notin W /\ CommitSuperIndex.op \notin W
    /\ ClearJournal.op \notin W
  BY DEF Type, Status, ActiveArea, IncreaseErasecount, AddUsed, DeleteSummary, ResetASWritten,
         EraseBlock, Swap, Checkpoint, SetStatus, SetStatusBlock, Commit, WriteSummary, InitAreaAs,
         AfterDelete, CloseArea, DeleteArea, Scan, DeleteAreaContents, ReplacePage, UpdateInode,
         MoveValidData, NewPageFor, ManageActiveAreaFull, InvalidateOldPages, AfterMove,
         CommitSuperIndex, ClearJournal

(* What an operation of AreaManagement consists of, and the program p that goes
   on with one of that. *)
OpChange(x) ==
    \/ x.op \in {"type", "status", "activeArea", "increaseErasecount", "remove", "reset"}
    \/ \E n : x = AddUsed(n)
    \/ \E pos, k : x = EraseBlock(pos, k)
    \/ x = Checkpoint("areaMgmt")

OpHead(p) == \E x, r : IsProg(r) /\ p = Then(x, r) /\ OpChange(x)

(* The instructions of operations are of this kind, and write no page. *)
LEMMA OpChanges ==
    /\ \A a, t : OpChange(Type(a, t)) /\ OpChange(Status(a, t)) /\ OpChange(ActiveArea(a, t))
    /\ \A a : OpChange(IncreaseErasecount(a)) /\ OpChange(AddUsed(a))
    /\ \A a : OpChange(DeleteSummary(a)) /\ OpChange(ResetASWritten(a))
    /\ \A a, b : OpChange(EraseBlock(a, b))
    /\ OpChange(Checkpoint("areaMgmt"))
    /\ \A x : OpChange(x) => x.op \notin {"writePage", "copyPage"}
<1>1. \A x : OpChange(x) => x.op \notin {"writePage", "copyPage"}
  BY NoWriteOps DEF OpChange
<1>2. QED
  BY <1>1 DEF OpChange, Type, Status, ActiveArea, IncreaseErasecount, DeleteSummary, ResetASWritten

(* initAreaAs and closeArea change the map only. *)
LEMMA OpHeadInit ==
    ASSUME Core, NEW ctx, IsProg(ctx), OpRuns(ctx), lastOp.op \in {"initAreaAs", "closeArea"}
    PROVE  OpHead(prog)
<1> DEFINE a == lastOp.area
           act == Then(ActiveArea("data", a), LastCheck(ctx))
           cls == Then(ActiveArea("data", 0), LastCheck(ctx))
<1>n. ~NoOp /\ ~Erases
  BY DEF NoOp, Erases
<1>o. prog = Cat(ResumeOperation(map, sum, lastOp, ext), ctx)
  BY <1>n, BehindExt DEF OpRuns
<1>1. CASE lastOp.op = "initAreaAs"
  <2> DEFINE used(r) == IF map.status[a] = "empty" THEN Then(AddUsed(1), r) ELSE r
  <2>1. ext \in {"none", "type", "usedAreas", "activeArea"} /\ lastOp.type = "data"
    BY <1>1, CoreParts DEF InitOK
  <2>2. /\ Cat(ResumeOperation(map, sum, lastOp, "none"), ctx) = Then(Type(a, "data"), used(act))
        /\ Cat(ResumeOperation(map, sum, lastOp, "type"), ctx) = used(act)
        /\ Cat(ResumeOperation(map, sum, lastOp, "usedAreas"), ctx) = act
        /\ Cat(ResumeOperation(map, sum, lastOp, "activeArea"), ctx) = LastCheck(ctx)
        /\ IsProg(LastCheck(ctx)) /\ IsProg(act) /\ IsProg(used(act))
    BY <1>1, <2>1, ResumeInit
  <2>3. OpHead(LastCheck(ctx))
    BY OpChanges DEF OpHead, LastCheck
  <2>4. OpHead(act)
    BY <2>2, OpChanges DEF OpHead
  <2>5. OpHead(used(act))
    BY <2>2, <2>4, OpChanges DEF OpHead
  <2>6. OpHead(Then(Type(a, "data"), used(act)))
    <3> HIDE DEF used, act
    <3>1. QED
      BY <2>2, OpChanges DEF OpHead
  <2>7. QED
    BY <1>o, <2>1, <2>2, <2>3, <2>4, <2>5, <2>6
<1>2. CASE lastOp.op = "closeArea"
  <2>1. ext \in {"none", "status", "activeArea"} /\ map.type[a] = "data"
    BY <1>2, CoreParts DEF CloseOK
  <2>2. /\ Cat(ResumeOperation(map, sum, lastOp, "none"), ctx) = Then(Status(a, "closed"), cls)
        /\ Cat(ResumeOperation(map, sum, lastOp, "status"), ctx) = cls
        /\ Cat(ResumeOperation(map, sum, lastOp, "activeArea"), ctx) = LastCheck(ctx)
        /\ IsProg(LastCheck(ctx)) /\ IsProg(cls)
    BY <1>2, <2>1, ResumeClose
  <2>3. OpHead(LastCheck(ctx))
    BY OpChanges DEF OpHead, LastCheck
  <2>4. OpHead(cls)
    BY <2>2, OpChanges DEF OpHead
  <2>5. OpHead(Then(Status(a, "closed"), cls))
    <3> HIDE DEF cls
    <3>1. QED
      BY <2>2, OpChanges DEF OpHead
  <2>6. QED
    BY <1>o, <2>1, <2>2, <2>3, <2>4, <2>5
<1>3. QED
  BY <1>1, <1>2

(* A deletion erases, drops the summary and changes the map. *)
LEMMA OpHeadDelete ==
    ASSUME Core, NEW ctx, IsProg(ctx), OpRuns(ctx),
           lastOp.op \in {"deleteArea", "deleteAreaContents"}
    PROVE  OpHead(prog)
<1>n. ~NoOp
  BY DEF NoOp
<1>1. CASE Erases
  <2>1. PICK pos, a : pos = ErasedPos /\ a = lastOp.area
    OBVIOUS
  <2> DEFINE rest == Then(IncreaseErasecount(a), Behind("increaseErasecount", ctx))
  <2>2. PICK k \in 0 .. BlocksPerArea : prog = Cat(EraseFrom(pos, k), rest)
    BY <1>1, <2>1 DEF OpRuns, Cat
  <2>3. IsProg(Behind("increaseErasecount", ctx))
    BY BehindIs, ResumeErase
  <2>4. IsProg(rest)
    BY <2>3, ThenFacts
  <2>5. OpHead(rest)
    BY <2>3, OpChanges DEF OpHead
  <2> HIDE DEF rest
  <2>6. CASE k \in 0 .. BlocksPerArea - 1
    <3>1. prog = Then(EraseBlock(pos, k), Cat(EraseFrom(pos, k + 1), rest))
          /\ IsProg(Cat(EraseFrom(pos, k + 1), rest))
      <4>1. k + 1 \in 0 .. BlocksPerArea
        BY <2>6, Constants
      <4>2. IsProg(EraseFrom(pos, k + 1))
        BY <2>4, <4>1, EraseFacts
      <4>3. QED
        BY <4>2, <2>2, <2>4, <2>6, EraseFacts, CatFacts
    <3>2. QED
      BY <3>1, OpChanges DEF OpHead
  <2>7. CASE k = BlocksPerArea
    BY <2>2, <2>4, <2>5, <2>7, EraseFacts
  <2>8. QED
    BY <2>6, <2>7, Constants
<1>2. CASE ~Erases
  <2> DEFINE a == lastOp.area
             S == DeleteTail(lastOp, ctx)
             removed == IF a \in cached THEN Then(DeleteSummary(a), S) ELSE S
             dropped == IF a \in cached THEN Then(ResetASWritten(a), Then(DeleteSummary(a), S))
                        ELSE S
             typing == Then(Type(a, "unset"), Then(AddUsed(-1), LastCheck(ctx)))
             using == Then(AddUsed(-1), LastCheck(ctx))
  <2>1. /\ prog = Cat(ResumeOperation(map, sum, lastOp, ext), ctx)
        /\ lastOp.op = "deleteArea" =>
              ext \in {"increaseErasecount", "reset", "remove", "status", "type", "usedAreas"}
        /\ lastOp.op = "deleteAreaContents" => ext \in {"increaseErasecount", "reset", "remove"}
    BY <1>2, <1>n, CoreParts, BehindExt DEF OpRuns, DeleteOK, ContentsOK, Erases
  <2>2. IsProg(LastCheck(ctx)) /\ IsProg(using) /\ IsProg(typing)
    BY ThenFacts DEF LastCheck
  <2>3. /\ Cat(ResumeOperation(map, sum, lastOp, "increaseErasecount"), ctx) = dropped
        /\ Cat(ResumeOperation(map, sum, lastOp, "reset"), ctx) = removed
        /\ Cat(ResumeOperation(map, sum, lastOp, "remove"), ctx) = S
        /\ lastOp.op = "deleteArea" =>
              /\ Cat(ResumeOperation(map, sum, lastOp, "status"), ctx) = typing
              /\ Cat(ResumeOperation(map, sum, lastOp, "type"), ctx) = using
              /\ Cat(ResumeOperation(map, sum, lastOp, "usedAreas"), ctx) = LastCheck(ctx)
        /\ IsProg(S) /\ IsProg(removed) /\ IsProg(dropped)
    <3>1. cached = DOMAIN sum
      BY DEF cached
    <3>2. QED
      BY <3>1, ResumeErase
  <2>4. OpHead(LastCheck(ctx))
    BY OpChanges DEF OpHead, LastCheck
  <2>5. OpHead(using)
    BY <2>2, OpChanges DEF OpHead
  <2>6. OpHead(typing)
    BY <2>2, OpChanges DEF OpHead
  <2>7. OpHead(Then(Status(a, "empty"), typing))
    <3> HIDE DEF typing
    <3>1. QED
      BY <2>2, OpChanges DEF OpHead
  <2>8. OpHead(S)
    BY <2>4, <2>7 DEF DeleteTail
  <2> HIDE DEF S
  <2>9. IsProg(Then(DeleteSummary(a), S))
    BY <2>3, ThenFacts
  <2>10. OpHead(removed)
    BY <2>3, <2>8, OpChanges DEF OpHead
  <2>11. OpHead(dropped)
    BY <2>8, <2>9, OpChanges DEF OpHead
  <2> HIDE DEF removed, dropped, typing, using
  <2>12. QED
    BY <2>1, <2>3, <2>4, <2>5, <2>6, <2>8, <2>10, <2>11
<1>3. QED
  BY <1>1, <1>2

(* Any operation goes on with one of its changes. *)
LEMMA OpGoesOnWith ==
    ASSUME Core, NEW ctx, IsProg(ctx), OpRuns(ctx)
    PROVE  OpHead(prog)
<1>1. lastOp.op \in {"initAreaAs", "closeArea", "deleteArea", "deleteAreaContents"}
  BY CoreParts DEF OpRuns, OpOK, NoOp
<1>2. QED
  BY <1>1, OpHeadInit, OpHeadDelete

(* So that it writes no page. *)
LEMMA OpNoWrite ==
    ASSUME Core, NEW ctx, IsProg(ctx), OpRuns(ctx)
    PROVE  NoWrite(prog)
BY OpGoesOnWith, OpChanges DEF OpHead, NoWrite

(* The program p goes on, and writes, if any, an erased page next. *)
Goes(p) ==
    \E x, r :
        /\ IsProg(r) /\ p = Then(x, r)
        /\ x.op = "writePage" => flash[map.pos[x.area]][x.page] = Erased
        /\ x.op = "copyPage" => flash[map.pos[x.b]][x.page] = Erased

(* What a program that may go on promises of its first statement: pages are
   only written where erased. *)
LEMMA GoesOn ==
    /\ \A p : NoWrite(p) => Goes(p)
    /\ \A p : Goes(p) => p # NoProg
    /\ \A p : Goes(p) =>
        /\ Head(p).op = "writePage" => flash[map.pos[Head(p).area]][Head(p).page] = Erased
        /\ Head(p).op = "copyPage" => flash[map.pos[Head(p).b]][Head(p).page] = Erased
<1>1. \A p : NoWrite(p) => Goes(p)
  <2>1. SUFFICES ASSUME NEW p, NoWrite(p) PROVE Goes(p)
    OBVIOUS
  <2>2. PICK x, r : IsProg(r) /\ p = Then(x, r) /\ x.op # "writePage" /\ x.op # "copyPage"
    BY <2>1 DEF NoWrite
  <2>3. QED
    BY <2>2 DEF Goes
<1>2. ASSUME NEW p, Goes(p)
      PROVE  /\ p # NoProg
             /\ Head(p).op = "writePage" => flash[map.pos[Head(p).area]][Head(p).page] = Erased
             /\ Head(p).op = "copyPage" => flash[map.pos[Head(p).b]][Head(p).page] = Erased
  <2>1. PICK x, r :
            /\ IsProg(r) /\ p = Then(x, r)
            /\ x.op = "writePage" => flash[map.pos[x.area]][x.page] = Erased
            /\ x.op = "copyPage" => flash[map.pos[x.b]][x.page] = Erased
    BY <1>2 DEF Goes
  <2>2. p # NoProg /\ Head(p) = x
    BY <2>1, ThenFacts DEF NoProg
  <2>3. QED
    BY <2>1, <2>2
<1>3. QED
  BY <1>1, <1>2

(* Looking for a page. *)
LEMMA RoomGoes ==
    ASSUME RunRoom
    PROVE  (prog = NoProg /\ Quiet /\ Room) \/ Goes(prog)
<1>1. CASE prog = NoProg /\ Quiet /\ Room
  BY <1>1
<1>2. ASSUME NEW f \in FilePage, prog = PageFor(f) \/ prog = GcEnd(f)
      PROVE  NoWrite(prog)
  <2>1. IsProg(NoProg) /\ IsProg(PageFor(f))
    BY Progs
  <2>2. NoWrite(PageFor(f))
    BY <2>1, NoWriteOps DEF NoWrite, PageFor
  <2>3. NoWrite(GcEnd(f))
    BY <2>1, NoWriteOps DEF NoWrite, GcEnd
  <2>4. QED
    BY <1>2, <2>2, <2>3
<1>3. ASSUME NEW f \in FilePage, NEW a,
             \/ prog = InitFor(a, PageFor(f)) \/ prog = InitFor(a, GcEnd(f))
             \/ prog = Then(DeleteArea(a), AfterDel(f, a)) \/ prog = AfterDel(f, a)
      PROVE  NoWrite(prog)
  <2>1. IsProg(PageFor(f)) /\ IsProg(GcEnd(f)) /\ IsProg(AfterDel(f, a))
    BY Progs
  <2>2. NoWrite(InitFor(a, PageFor(f))) /\ NoWrite(InitFor(a, GcEnd(f)))
    BY <2>1, NoWriteOps DEF NoWrite, InitFor
  <2>3. NoWrite(AfterDel(f, a))
    BY <2>1, NoWriteOps DEF NoWrite, AfterDel
  <2>4. NoWrite(Then(DeleteArea(a), AfterDel(f, a)))
    BY <2>1, NoWriteOps DEF NoWrite
  <2>5. QED
    BY <1>3, <2>2, <2>3, <2>4
<1>4. QED
  BY <1>1, <1>2, <1>3, GoesOn DEF RunRoom

(* Moving pages. *)
LEMMA MoveGoes ==
    ASSUME RunMove
    PROVE  Goes(prog)
<1>1. PICK f \in FilePage, a \in Area \ {0}, b \in Area, s \in [Page -> {"free", "used"}] :
       \/ prog = Then(MoveValidData(a), moveValidData(a, b, 0) \o Move1(f, a, b, s))
       \/ \E q \in Page :
             /\ prog = Then(CopyPage(a, b, q), Move1(f, a, b, s))
             /\ s[q] = "used" /\ CopiedUpto(a, b, s, q)
       \/ prog = Move1(f, a, b, s)
       \/ prog = Move2(f, a, b, s)
       \/ prog = Move3(f, a, s)
       \/ prog = Move4(f, a, s)
  BY DEF RunMove
<1>p. /\ IsProg(Move1(f, a, b, s)) /\ IsProg(Move2(f, a, b, s)) /\ IsProg(Move3(f, a, s))
      /\ IsProg(Move4(f, a, s)) /\ IsProg(InitFor(a, GcEnd(f)))
  BY Progs
<1>2. CASE prog = Then(MoveValidData(a), moveValidData(a, b, 0) \o Move1(f, a, b, s))
  <2>1. IsProg(moveValidData(a, b, 0))
    BY CatFacts DEF moveValidData, Nil
  <2>2. IsProg(moveValidData(a, b, 0) \o Move1(f, a, b, s))
    BY <1>p, <2>1, ThenConcat
  <2>3. NoWrite(prog)
    BY <1>2, <2>2, NoWriteOps DEF NoWrite
  <2>4. QED
    BY <2>3, GoesOn
<1>3. CASE \E q \in Page :
             /\ prog = Then(CopyPage(a, b, q), Move1(f, a, b, s))
             /\ s[q] = "used" /\ CopiedUpto(a, b, s, q)
  <2>1. PICK q \in Page :
             /\ prog = Then(CopyPage(a, b, q), Move1(f, a, b, s))
             /\ s[q] = "used" /\ CopiedUpto(a, b, s, q)
    BY <1>3
  <2>2. flash[map.pos[b]][q] = Erased
    <3>1. q \in Nat
      BY Constants
    <3>2. ~(q < q)
      BY <3>1
    <3>3. QED
      BY <2>1, <3>2 DEF CopiedUpto
  <2>3. CopyPage(a, b, q).op = "copyPage" /\ CopyPage(a, b, q).b = b /\ CopyPage(a, b, q).page = q
    BY DEF CopyPage
  <2>4. QED
    BY <1>p, <2>1, <2>2, <2>3 DEF Goes
<1>4. CASE \/ prog = Move1(f, a, b, s) \/ prog = Move2(f, a, b, s) \/ prog = Move3(f, a, s)
           \/ prog = Move4(f, a, s)
  <2>1. NoWrite(Move1(f, a, b, s))
    BY <1>p, NoWriteOps DEF NoWrite, Move1
  <2>2. NoWrite(Move2(f, a, b, s))
    BY <1>p, NoWriteOps DEF NoWrite, Move2
  <2>3. NoWrite(Move3(f, a, s))
    BY <1>p, NoWriteOps DEF NoWrite, Move3
  <2>4. NoWrite(Move4(f, a, s))
    BY <1>p, NoWriteOps DEF NoWrite, Move4
  <2>5. QED
    BY <1>4, <2>1, <2>2, <2>3, <2>4, GoesOn
<1>5. QED
  BY <1>1, <1>2, <1>3, <1>4

(* In an operation. *)
LEMMA OpGoesOn ==
    ASSUME Core, RunOp
    PROVE  Goes(prog)
<1>1. PICK ctx : IsProg(ctx) /\ OpRuns(ctx)
  BY Progs DEF RunOp
<1>2. QED
  BY <1>1, OpNoWrite, GoesOn

(* Replacing a page. *)
LEMMA TxGoes ==
    ASSUME RunTx
    PROVE  Goes(prog)
<1>1. CASE prog = CpData
  <2>1. NoWrite(CpData)
    BY Progs, NoWriteOps DEF NoWrite, CpData
  <2>2. QED
    BY <1>1, <2>1, GoesOn
<1>2. ASSUME NEW f, NEW neu, NEW old,
             \/ prog = Then(ReplacePage(NoAddr, old), Tx4(f, NoAddr, old))
             \/ prog = Tx1(f, neu, old)
             \/ prog = Tx2(f, neu, old) /\ flash[map.pos[neu[1]]][neu[2]] = Erased
             \/ prog = Tx3(f, neu, old)
             \/ prog = Then(CloseArea(neu[1]), Tx4(f, neu, old))
             \/ prog = Tx4(f, neu, old)
      PROVE  Goes(prog)
  <2>1. /\ IsProg(Tx4(f, NoAddr, old)) /\ IsProg(Tx4(f, neu, old)) /\ IsProg(Tx3(f, neu, old))
        /\ IsProg(Tx2(f, neu, old)) /\ IsProg(RetireTail(old))
    BY Progs
  <2>2. NoWrite(Then(ReplacePage(NoAddr, old), Tx4(f, NoAddr, old)))
    BY <2>1, NoWriteOps DEF NoWrite
  <2>3. NoWrite(Tx1(f, neu, old))
    BY <2>1, NoWriteOps DEF NoWrite, Tx1
  <2>4. NoWrite(Tx3(f, neu, old))
    BY <2>1, NoWriteOps DEF NoWrite, Tx3
  <2>5. NoWrite(Then(CloseArea(neu[1]), Tx4(f, neu, old)))
    BY <2>1, NoWriteOps DEF NoWrite
  <2>6. NoWrite(Tx4(f, neu, old))
    BY <2>1, NoWriteOps DEF NoWrite, Tx4
  <2>7. CASE prog = Tx2(f, neu, old) /\ flash[map.pos[neu[1]]][neu[2]] = Erased
    <3>1. /\ WritePage(neu).op = "writePage" /\ WritePage(neu).area = neu[1]
          /\ WritePage(neu).page = neu[2]
      BY DEF WritePage
    <3>2. prog = Then(WritePage(neu), Tx3(f, neu, old))
      BY <2>7 DEF Tx2
    <3>3. QED
      BY <2>1, <2>7, <3>1, <3>2 DEF Goes
  <2>8. QED
    BY <1>2, <2>2, <2>3, <2>4, <2>5, <2>6, <2>7, GoesOn
<1>3. QED
  BY <1>1, <1>2 DEF RunTx

(* Getting rid of the old page. *)
LEMMA RetireGoes ==
    ASSUME RetireOld
    PROVE  Goes(prog)
<1>1. \/ \E x : prog = Then(SetStatus(x, "dirty"), Invalidate)
      \/ \E a : prog = Then(WriteSummary(a), Invalidate) \/ prog = Then(Commit(a), Invalidate)
      \/ prog = Invalidate
  BY DEF RetireOld
<1>2. IsProg(Invalidate) /\ IsProg(Behind1)
  BY Progs
<1>3. \A x : NoWrite(Then(SetStatus(x, "dirty"), Invalidate))
  BY <1>2, NoWriteOps DEF NoWrite
<1>4. \A a : NoWrite(Then(WriteSummary(a), Invalidate)) /\ NoWrite(Then(Commit(a), Invalidate))
  BY <1>2, NoWriteOps DEF NoWrite
<1>5. NoWrite(Invalidate)
  BY <1>2, NoWriteOps DEF NoWrite, Invalidate
<1>6. QED
  BY <1>1, <1>3, <1>4, <1>5, GoesOn

(* Flushing. *)
LEMMA FlushGoes ==
    ASSUME RunFlush \/ prog \in {CpSum, Clear}
    PROVE  Goes(prog)
<1>1. IsProg(CpSum) /\ IsProg(Clear) /\ IsProg(NoProg)
  BY Progs
<1>2. NoWrite(Then(CommitSuperIndex, CpSum))
  BY <1>1, NoWriteOps DEF NoWrite
<1>3. NoWrite(CpSum)
  BY <1>1, NoWriteOps DEF NoWrite, CpSum
<1>4. NoWrite(Clear)
  BY <1>1, NoWriteOps DEF NoWrite, Clear
<1>5. QED
  BY <1>2, <1>3, <1>4, GoesOn DEF RunFlush

(* A mount. *)
LEMMA MountGoes ==
    ASSUME Core, MountOps \/ MountGarbage \/ MountDataIO
    PROVE  prog = NoProg \/ Goes(prog)
<1>o. ASSUME NEW ctx, IsProg(ctx), OpRuns(ctx)
      PROVE  Goes(prog)
  BY <1>o, OpNoWrite, GoesOn
<1>p. /\ IsProg(NoProg) /\ IsProg(CpGarbage) /\ IsProg(FullData) /\ IsProg(FullIndex)
      /\ IsProg(CpData) /\ \A t : IsProg(ScanTail(t))
      /\ \A t : IsProg(InitFor(t, CpGarbage))
  BY Progs
<1>1. CASE MountOps
  BY <1>1, <1>o, <1>p DEF MountOps
<1>2. CASE MountGarbage
  <2>1. NoWrite(CpGarbage)
    BY <1>p, NoWriteOps DEF NoWrite, CpGarbage
  <2>2. \A t : NoWrite(ScanTail(t))
    BY <1>p, NoWriteOps DEF NoWrite, ScanTail
  <2>3. \A t : NoWrite(InitFor(t, CpGarbage))
    BY <1>p, NoWriteOps DEF NoWrite, InitFor
  <2>4. \A b, c, t : /\ NoWrite(Then(DeleteAreaContents(b, c), CpGarbage))
                     /\ NoWrite(Then(DeleteAreaContents(b, c), ScanTail(t)))
    BY <1>p, NoWriteOps DEF NoWrite
  <2>5. \A t, s : /\ NoWrite(Then(SetStatusBlock(t, s), CpGarbage))
                  /\ NoWrite(Then(SetStatusBlock(t, s), InitFor(t, CpGarbage)))
    BY <1>p, NoWriteOps DEF NoWrite
  <2>6. \/ prog = NoProg \/ prog = CpGarbage \/ OpRuns(CpGarbage)
        \/ \E t : prog = ScanTail(t) \/ OpRuns(ScanTail(t)) \/ prog = InitFor(t, CpGarbage)
        \/ \E b, c, t : \/ prog = Then(DeleteAreaContents(b, c), CpGarbage)
                        \/ prog = Then(DeleteAreaContents(b, c), ScanTail(t))
        \/ \E t, s : \/ prog = Then(SetStatusBlock(t, s), CpGarbage)
                     \/ prog = Then(SetStatusBlock(t, s), InitFor(t, CpGarbage))
    BY <1>2 DEF MountGarbage
  <2>7. OpRuns(CpGarbage) \/ (\E t : OpRuns(ScanTail(t))) => Goes(prog)
    BY <1>o, <1>p
  <2>8. QED
    BY <2>1, <2>2, <2>3, <2>4, <2>5, <2>6, <2>7, GoesOn
<1>3. CASE MountDataIO
  <2>1. NoWrite(FullData)
    BY <1>p, NoWriteOps DEF NoWrite, FullData, FullIndex
  <2>2. NoWrite(FullIndex)
    BY <1>p, NoWriteOps DEF NoWrite, FullIndex
  <2>3. NoWrite(CpData)
    BY <1>p, NoWriteOps DEF NoWrite, CpData
  <2>4. \A a : NoWrite(Then(CloseArea(a), FullIndex))
    BY <1>p, NoWriteOps DEF NoWrite
  <2>5. \/ prog \in {NoProg, FullData, FullIndex, CpData} \/ OpRuns(FullIndex)
        \/ \E a : prog = Then(CloseArea(a), FullIndex)
    BY <1>3 DEF MountDataIO
  <2>6. QED
    BY <1>o, <1>p, <2>1, <2>2, <2>3, <2>4, <2>5, GoesOn
<1>4. QED
  BY <1>1, <1>2, <1>3

(* Between calls, and at the end of a topic, there is no program; any other
   goes on. *)
LEMMA InvGoes ==
    ASSUME Inv
    PROVE  \/ Goes(prog)
           \/ prog = NoProg /\ Core /\ phase = "run" /\ Quiet /\ Room
           \/ prog = NoProg /\ Core /\ phase # "run" /\ (MountOps \/ MountGarbage \/ MountDataIO)
<1>1. CASE Flushing
  BY <1>1, FlushingIs, FlushGoes
<1>2. CASE Sound /\ Stage
  <2>1. Core
    BY <1>2 DEF Inv, Core
  <2>2. CASE phase = "run" /\ (RunRoom \/ RunMove \/ RunOp \/ RunTx \/ RunFlush)
    BY <2>1, <2>2, RoomGoes, MoveGoes, OpGoesOn, TxGoes, FlushGoes
  <2>3. CASE RetireOld
    BY <2>3, RetireGoes
  <2>4. CASE MountOps \/ MountGarbage \/ MountDataIO
    <3>1. phase # "run"
      BY <2>4 DEF MountOps, MountGarbage, MountDataIO
    <3>2. QED
      BY <2>1, <2>4, <3>1, MountGoes
  <2>5. QED
    BY <1>2, <2>2, <2>3, <2>4 DEF Stage
<1>3. QED
  BY <1>1, <1>2 DEF Inv

-----------------------------------------------------------------------------
(* Every step keeps the invariant.                                         *)

(* What the files hold changes by an update of the running call only. *)
FileEffect ==
    \/ stored' = stored /\ ops' \in {ops, ops + 1}
    \/ ops' = ops /\ \E f \in FilePage : UpdatesOf(f, {}) \/ UpdatesOf(f, {ops})

(* How a step that kept Core or is inside a flush reaches the invariant. *)
LEMMA InvIs ==
    /\ Core /\ Stage => Inv
    /\ InFlash /\ IsProg(log) /\ (Flushing \/ (Sound /\ Stage)) => Inv
  BY DEF Inv, Core

(* Steps of a call. *)
LEMMA RunStep ==
    ASSUME Careful, Core, phase = "run", prog # NoProg => ops # Erased,
           RunRoom \/ RunMove \/ RunOp \/ RunTx \/ RunFlush, Next, ~PowerLoss
    PROVE  (Inv)' /\ FileEffect
<1>i. (Core /\ Stage)' => Inv'
  BY InvIs, PTL
<1>j. (InFlash /\ IsProg(log) /\ (Flushing \/ (Sound /\ Stage)))' => Inv'
  BY InvIs, PTL
<1>1. CASE RunRoom
  <2>1. CASE prog = NoProg
    <3>1. ~Goes(prog)
      BY <2>1, GoesOn
    <3>2. Quiet /\ Room
      BY <1>1, <3>1, RoomGoes
    <3>3. Core' /\ Stage' /\ stored' = stored /\ ops' = ops + 1
      BY <2>1, <3>2, IdleStep
    <3>4. QED
      BY <1>i, <3>3 DEF FileEffect
  <2>2. CASE prog # NoProg
    <3>1. Core' /\ Stage' /\ stored' = stored /\ ops' = ops
      BY <1>1, <2>2, RoomStep
    <3>2. QED
      BY <1>i, <3>1 DEF FileEffect
  <2>3. QED
    BY <2>1, <2>2
<1>2. CASE RunMove
  <2>1. ops # Erased
    BY <1>2, MoveGoes, GoesOn
  <2>2. Core' /\ Stage' /\ stored' = stored /\ ops' = ops
    BY <1>2, <2>1, MoveStep
  <2>3. QED
    BY <1>i, <2>2 DEF FileEffect
<1>3. CASE RunOp
  <2>1. ops # Erased
    BY <1>3, OpGoesOn, GoesOn
  <2>2. Core' /\ Stage' /\ stored' = stored /\ ops' = ops
    BY <1>3, <2>1, OpsStep
  <2>3. QED
    BY <1>i, <2>2 DEF FileEffect
<1>4. CASE RunTx
  <2>1. ops # Erased
    BY <1>4, TxGoes, GoesOn
  <2>2. /\ Core' /\ Stage' /\ ops' = ops
        /\ \/ stored' = stored
           \/ \E f \in FilePage : UpdatesOf(f, {}) \/ UpdatesOf(f, {ops})
    BY <1>4, <2>1, TxStep
  <2>3. FileEffect
    BY <2>2 DEF FileEffect
  <2>4. QED
    BY <1>i, <2>2, <2>3
<1>5. CASE RunFlush
  <2>1. InFlash' /\ IsProg(log') /\ Flushing' /\ stored' = stored /\ ops' = ops
    BY <1>5, FlushStep
  <2>2. QED
    BY <1>j, <2>1 DEF FileEffect
<1>6. QED
  BY <1>1, <1>2, <1>3, <1>4, <1>5

(* Steps of a mount. *)
LEMMA MountStep ==
    ASSUME Careful, Core, MountOps \/ MountGarbage \/ MountDataIO, Next, ~PowerLoss
    PROVE  (Inv)' /\ FileEffect
<1>i. (Core /\ Stage)' => Inv'
  BY InvIs, PTL
<1>1. SUFFICES Core' /\ Stage' /\ stored' = stored /\ ops' = ops
  BY <1>i DEF FileEffect
<1>2. CASE MountOps
  BY <1>2, MountOpsStep
<1>3. CASE MountGarbage
  BY <1>3, MountGarbageStep, DataIOSignals
<1>4. CASE MountDataIO
  BY <1>4, MountDataIOStep
<1>5. QED
  BY <1>2, <1>3, <1>4

(* Power does not fail while the journal is cleared. *)
LEMMA NoPowerInFlush ==
    ASSUME Careful, Flushing
    PROVE  ~PowerLoss
<1>1. prog \in {CpSum, Clear}
  BY FlushingIs
<1>2. ClearJournal.op = "clearJournal" /\ Checkpoint("summaryCache").op = "checkpoint"
  BY DEF ClearJournal, Checkpoint
<1>3. CpSum = <<Checkpoint("summaryCache"), ClearJournal>> /\ Clear = <<ClearJournal>>
  BY ThenTuples DEF CpSum, Clear, NoProg
<1>4. CASE prog = CpSum
  <2>1. PICK x, y : x = Checkpoint("summaryCache") /\ y = ClearJournal
    OBVIOUS
  <2>2. prog = <<x, y>>
    BY <1>3, <1>4, <2>1
  <2>3. prog # <<>> /\ Last(prog) = y /\ Head(prog) = x
    BY <2>2 DEF Last
  <2>4. InFlush
    BY <1>2, <2>1, <2>3 DEF InFlush, Instruction
  <2>5. QED
    BY <2>4 DEF PowerLoss, Careful
<1>5. CASE prog = Clear
  <2>1. PICK y : y = ClearJournal
    OBVIOUS
  <2>2. prog = <<y>>
    BY <1>3, <1>5, <2>1
  <2>3. prog # <<>> /\ Last(prog) = y /\ Head(prog) = y
    BY <2>2 DEF Last
  <2>4. InFlush
    BY <1>2, <2>1, <2>3 DEF InFlush, Instruction
  <2>5. QED
    BY <2>4 DEF PowerLoss, Careful
<1>6. QED
  BY <1>1, <1>4, <1>5

(* Every step of the system. *)
LEMMA InvNext ==
    ASSUME Careful, Inv, Next
    PROVE  (Inv)' /\ FileEffect
<1>i. (Core /\ Stage)' => Inv'
  BY InvIs, PTL
<1>j. (InFlash /\ IsProg(log) /\ (Flushing \/ (Sound /\ Stage)))' => Inv'
  BY InvIs, PTL
<1>1. CASE Flushing
  <2>1. InFlash /\ IsProg(log) /\ ~PowerLoss
    BY <1>1, NoPowerInFlush DEF Inv
  <2>2. /\ InFlash' /\ IsProg(log') /\ (Flushing' \/ (Sound' /\ Stage'))
        /\ stored' = stored /\ ops' = ops
    BY <1>1, <2>1, FlushingStep
  <2>3. QED
    BY <1>j, <2>2 DEF FileEffect
<1>2. CASE Sound /\ Stage
  <2>1. Core
    BY <1>2 DEF Inv, Core
  <2>2. CASE PowerLoss
    <3>1. Core' /\ Stage' /\ stored' = stored /\ ops' = ops
      BY <2>1, <2>2, PowerStep
    <3>2. QED
      BY <1>i, <3>1 DEF FileEffect
  <2>3. CASE ~PowerLoss
    <3>1. CASE /\ phase = "run" /\ (prog # NoProg => ops # Erased)
               /\ RunRoom \/ RunMove \/ RunOp \/ RunTx \/ RunFlush
      BY <2>1, <2>3, <3>1, RunStep
    <3>2. CASE MountOps \/ MountGarbage \/ MountDataIO
      BY <2>1, <2>3, <3>2, MountStep
    <3>3. CASE RetireOld /\ (phase = "run" => ops # Erased)
      <4>1. Core' /\ Stage' /\ stored' = stored /\ ops' = ops
        BY <2>1, <2>3, <3>3, RetireStep
      <4>2. QED
        BY <1>i, <4>1 DEF FileEffect
    <3>4. QED
      BY <1>2, <3>1, <3>2, <3>3 DEF Stage
  <2>4. QED
    BY <2>2, <2>3
<1>3. QED
  BY <1>1, <1>2 DEF Inv

-----------------------------------------------------------------------------
(* A step that changes nothing keeps it, too.                              *)

Same == SameState /\ UNCHANGED <<prog, phase, found, ops>>

(* A stuttering step keeps Core and every view. *)
LEMMA SameIs ==
    ASSUME Core, UNCHANGED vars
    PROVE  Core' /\ Same
<1>1. UNCHANGED <<flashVars, index, log, ramVars>> /\ UNCHANGED <<prog, phase, found, ops>>
  BY DEF vars, bounds
<1>2. ops' \in 0 .. MaxOps
  BY <1>1, CoreParts DEF InFlash
<1>3. QED
  BY <1>1, <1>2, StateSame DEF Same

(* What the stages say of areas and pages. *)
LEMMA SameFacts ==
    ASSUME Same
    PROVE  /\ (Quiet' <=> Quiet) /\ (Room' <=> Room) /\ (NoActive' <=> NoActive)
           /\ (NoOp' <=> NoOp) /\ mv' = mv /\ target' = target /\ buffer' = buffer
           /\ (replaced' <=> replaced) /\ (updated' <=> updated) /\ (invalidated' <=> invalidated)
           /\ replaced => neuPage' = neuPage /\ oldPage' = oldPage
           /\ TxState' = TxState /\ lastOp' = lastOp /\ ext' = ext
           /\ UNCHANGED <<prog, phase, found, ops, flash, asWritten, map, sum, addr>>
           /\ logged' = logged
           /\ \A a : (FreePage(a)' <=> FreePage(a)) /\ (Dead(a)' <=> Dead(a))
  BY RoomStays DEF Same, SameState, SameMove, SameTx, SameStatus, Quiet

(* The facts about page states are the same after a step that changes
   nothing. *)
LEMMA SamePages ==
    ASSUME Same
    PROVE  /\ \A a, s : (CleanOK(a, s)' <=> CleanOK(a, s)) /\ (MoveReady(a, s)' <=> MoveReady(a, s))
           /\ \A a, b, s, n : CopiedUpto(a, b, s, n)' <=> CopiedUpto(a, b, s, n)
           /\ \A x : Unreferenced(x)' <=> Unreferenced(x)
           /\ \A x : (OwnPage(x)' <=> OwnPage(x)) /\ (Written(x)' <=> Written(x))
           /\ \A a : (FreeOK(a)' <=> FreeOK(a)) /\ (UsedOK(a)' <=> UsedOK(a))
<1>1. UNCHANGED <<ops, flash, asWritten, map, addr>> /\ logged' = logged
      /\ (NoActive' <=> NoActive)
  BY SameFacts
<1>2. \A a, s : CleanOK(a, s)' <=> CleanOK(a, s)
  BY <1>1 DEF CleanOK
<1>3. \A a, s : MoveReady(a, s)' <=> MoveReady(a, s)
  BY <1>1 DEF MoveReady
<1>4. \A a, b, s, n : CopiedUpto(a, b, s, n)' <=> CopiedUpto(a, b, s, n)
  BY <1>1 DEF CopiedUpto
<1>5. \A x : Unreferenced(x)' <=> Unreferenced(x)
  BY <1>1 DEF Unreferenced
<1>6. \A x : (OwnPage(x)' <=> OwnPage(x)) /\ (Written(x)' <=> Written(x))
  BY <1>1 DEF OwnPage, Written
<1>7. \A a : (FreeOK(a)' <=> FreeOK(a)) /\ (UsedOK(a)' <=> UsedOK(a))
  BY <1>1 DEF FreeOK, UsedOK
<1>8. QED
  BY <1>2, <1>3, <1>4, <1>5, <1>6, <1>7

(* And of operations. *)
LEMMA SameOp ==
    ASSUME Same, NEW ctx, OpRuns(ctx)
    PROVE  OpRuns(ctx)'
<1>1. /\ UNCHANGED <<prog, flash, asWritten, map, sum>> /\ (NoOp' <=> NoOp)
      /\ lastOp' = lastOp /\ ext' = ext
  BY SameFacts
<1>2. (Erases' <=> Erases) /\ ErasedPos' = ErasedPos
  BY <1>1 DEF Erases, ErasedPos
<1>3. Behind(ext, ctx)' = Behind(ext, ctx)
  BY <1>1, BehindExt
<1>4. Behind("increaseErasecount", ctx)' = Behind("increaseErasecount", ctx)
  BY <1>1, BehindIs
<1>5. \A k : BlocksErased(ErasedPos, k)' <=> BlocksErased(ErasedPos, k)
  BY <1>1, <1>2 DEF BlocksErased
<1>6. QED
  BY <1>1, <1>2, <1>3, <1>4, <1>5 DEF OpRuns

(* The stage that makes room survives a stuttering step. *)
LEMMA SameRoom ==
    ASSUME Same, RunRoom
    PROVE  RunRoom'
<1>1. UNCHANGED <<prog, map>> /\ (Quiet' <=> Quiet) /\ (Room' <=> Room)
      /\ (NoActive' <=> NoActive) /\ (NoOp' <=> NoOp) /\ (replaced' <=> replaced)
      /\ mv' = mv /\ target' = target
      /\ \A a : (FreePage(a)' <=> FreePage(a)) /\ (Dead(a)' <=> Dead(a))
  BY SameFacts
<1>2. QED
  BY <1>1 DEF RunRoom

(* The stage that moves pages survives a stuttering step. *)
LEMMA SameMoving ==
    ASSUME Same, RunMove
    PROVE  RunMove'
<1>1. /\ UNCHANGED <<prog, map, sum>> /\ (Quiet' <=> Quiet) /\ (NoOp' <=> NoOp)
      /\ mv' = mv /\ target' = target /\ buffer' = buffer
  BY SameFacts
<1>2. \A a, s : (CleanOK(a, s)' <=> CleanOK(a, s)) /\ (MoveReady(a, s)' <=> MoveReady(a, s))
  BY SamePages
<1>3. \A a, b, s, n : CopiedUpto(a, b, s, n)' <=> CopiedUpto(a, b, s, n)
  BY SamePages
<1>4. \A a, s : Moving(a, s)' <=> Moving(a, s)
  BY <1>1, <1>2 DEF Moving
<1>5. \A a, s, m : Moved(a, s, m)' <=> Moved(a, s, m)
  BY <1>1, <1>2 DEF Moved, HasFree
<1>6. \A a, b, n : moveValidData(a, b, n)' = moveValidData(a, b, n)
  <2>1. \A a : SummaryOf(map, sum, a)' = SummaryOf(map, sum, a)
    BY SameFacts DEF SummaryOf
  <2>2. \A a : Pages(SummaryOf(map, sum, a), "used")' = Pages(SummaryOf(map, sum, a), "used")
    BY <2>1 DEF Pages
  <2>3. ASSUME NEW a, NEW b, NEW n
        PROVE  moveValidData(a, b, n)' = moveValidData(a, b, n)
    <3>1. PICK U : U = Pages(SummaryOf(map, sum, a), "used")
      OBVIOUS
    <3> DEFINE copy == LET rest == {q \in U : q >= n}
                       IN  IF rest = {} THEN <<>> ELSE <<CopyPage(a, b, Min(rest))>>
    <3>2. moveValidData(a, b, n) = copy
      BY <3>1 DEF moveValidData
    <3>3. Pages(SummaryOf(map, sum, a), "used")' = U
      BY <2>2, <3>1
    <3>4. moveValidData(a, b, n)' = copy
      BY <3>3 DEF moveValidData
    <3>5. QED
      BY <3>2, <3>4
  <2>4. QED
    BY <2>3
<1>7. QED
  BY <1>1, <1>2, <1>3, <1>4, <1>5, <1>6 DEF RunMove

(* The entries of a transaction survive a stuttering step. *)
LEMMA SameTxn ==
    ASSUME Same, NEW f, NEW neu, NEW old, InTx(f, neu, old)
    PROVE  InTx(f, neu, old)'
  BY SameFacts DEF InTx

(* The stage inside an AreaMgmt operation survives a stuttering step. *)
LEMMA SameOps ==
    ASSUME Same, RunOp
    PROVE  RunOp'
<1>1. /\ mv' = mv /\ target' = target /\ lastOp' = lastOp
      /\ \A a : FreePage(a)' <=> FreePage(a)
  BY SameFacts
<1>2. /\ \A a, s : CleanOK(a, s)' <=> CleanOK(a, s)
      /\ \A x : Written(x)' <=> Written(x)
  BY SamePages
<1>3. \A ctx : OpRuns(ctx) => OpRuns(ctx)'
  BY SameOp
<1>4. \A f, neu, old : InTx(f, neu, old) => InTx(f, neu, old)'
  BY SameTxn
<1>5. QED
  BY <1>1, <1>2, <1>3, <1>4 DEF RunOp, HasFree

(* The stage inside a transaction survives a stuttering step. *)
LEMMA SameReplace ==
    ASSUME Same, RunTx
    PROVE  RunTx'
<1>1. /\ UNCHANGED <<prog, flash, map, addr>> /\ logged' = logged
      /\ (Quiet' <=> Quiet) /\ (Room' <=> Room) /\ (NoOp' <=> NoOp) /\ mv' = mv
      /\ (replaced' <=> replaced) /\ (updated' <=> updated)
  BY SameFacts
<1>2. \A x : (OwnPage(x)' <=> OwnPage(x)) /\ (Written(x)' <=> Written(x))
  BY SamePages
<1>3. \A f, neu, old : InTx(f, neu, old) => InTx(f, neu, old)'
  BY SameTxn
<1>4. QED
  BY <1>1, <1>2, <1>3 DEF RunTx

(* The stage at the end of a transaction survives a stuttering step. *)
LEMMA SameRetire ==
    ASSUME Same, RetireOld
    PROVE  RetireOld'
<1>1. /\ UNCHANGED <<prog, phase, asWritten, map>> /\ logged' = logged
      /\ (Room' <=> Room) /\ (NoOp' <=> NoOp) /\ mv' = mv
      /\ (replaced' <=> replaced) /\ (updated' <=> updated)
  BY SameFacts
<1>2. \A x : Unreferenced(x)' <=> Unreferenced(x)
  BY SamePages
<1>3. Invalidate' = Invalidate
  BY <1>1, InvalidateStays
<1>4. QED
  BY <1>1, <1>2, <1>3 DEF RetireOld

(* The stages of a mount survive a stuttering step. *)
LEMMA SameMount ==
    ASSUME Same, MountOps \/ MountGarbage \/ MountDataIO
    PROVE  (MountOps \/ MountGarbage \/ MountDataIO)'
<1>1. /\ UNCHANGED <<prog, phase, found, map>>
      /\ (Room' <=> Room) /\ (NoOp' <=> NoOp) /\ mv' = mv /\ target' = target
      /\ (NoActive' <=> NoActive) /\ buffer' = buffer /\ lastOp' = lastOp
      /\ TxState' = TxState /\ (replaced' <=> replaced) /\ (invalidated' <=> invalidated)
      /\ \A a : FreePage(a)' <=> FreePage(a)
  BY SameFacts
<1>2. /\ \A a, s : CleanOK(a, s)' <=> CleanOK(a, s)
      /\ \A a : (FreeOK(a)' <=> FreeOK(a)) /\ (UsedOK(a)' <=> UsedOK(a))
  BY SamePages
<1>3. \A ctx : OpRuns(ctx) => OpRuns(ctx)'
  BY SameOp
<1>4. FoundTx => FoundTx'
  <2>1. TxState # "ok" => replaced
    BY DEF TxState, replaced
  <2>2. QED
    BY <1>1, <2>1, SameFacts DEF FoundTx
<1>5. FoundMove => FoundMove'
  BY <1>1 DEF FoundMove
<1>6. /\ FullIndex' = FullIndex /\ FullData' = FullData /\ CpGarbage' = CpGarbage
      /\ CpData' = CpData /\ NoProg' = NoProg
  BY DEF FullIndex, FullData, CpGarbage, CpData, NoProg
<1>7. MountOps => MountOps'
  BY <1>1, <1>3, <1>4, <1>5, <1>6 DEF MountOps
<1>8. MountGarbage => MountGarbage'
  BY <1>1, <1>2, <1>3, <1>4, <1>6 DEF MountGarbage
<1>9. MountDataIO => MountDataIO'
  BY <1>1, <1>3, <1>6 DEF MountDataIO
<1>10. QED
  BY <1>7, <1>8, <1>9

(* A step that changes nothing keeps the invariant. *)
LEMMA InvStutter ==
    ASSUME Inv, UNCHANGED vars
    PROVE  (Inv)' /\ stored' = stored /\ ops' = ops
<1>i. (Core /\ Stage)' => Inv'
  BY InvIs, PTL
<1>j. (InFlash /\ IsProg(log) /\ (Flushing \/ (Sound /\ Stage)))' => Inv'
  BY InvIs, PTL
<1>u. UNCHANGED <<flash, asWritten, bad, index, log, map, sum, addr, prog, phase, ops>>
  BY DEF vars, flashVars, ramVars, bounds
<1>1. CASE Flushing
  <2>1. InFlash /\ IsProg(log) /\ phase = "run" /\ prog \in {CpSum, Clear} /\ Quiet /\ Saved
    BY <1>1, FlushingIs DEF Inv
  <2>2. /\ (NoOp' <=> NoOp) /\ mv' = mv /\ (replaced' <=> replaced)
    BY <1>u, ViewStays
  <2>3. Saved' /\ Quiet'
    BY <1>u, <2>1, <2>2, SavedStays DEF Quiet
  <2>4. InFlash' /\ IsProg(log')
    BY <1>u, <2>1 DEF InFlash, IsProg
  <2>5. Flushing'
    <3>1. phase' = "run" /\ prog' \in {CpSum, Clear}
      BY <1>u, <2>1
    <3>2. QED
      BY <2>3, <3>1, FlushingIs DEF Flushing, Saved, CpSum, Clear, NoProg
  <2>6. stored' = stored
    BY <1>u DEF stored
  <2>7. QED
    BY <1>j, <1>u, <2>4, <2>5, <2>6
<1>2. CASE Sound /\ Stage
  <2>1. Core' /\ Same
    BY <1>2, SameIs DEF Inv, Core
  <2>2. UNCHANGED <<prog, phase, ops>> /\ stored' = stored /\ (Quiet' <=> Quiet) /\ (Room' <=> Room)
    BY <2>1, SameFacts DEF Same, SameState
  <2>3. CASE MountOps \/ MountGarbage \/ MountDataIO
    BY <1>i, <2>1, <2>2, <2>3, SameMount DEF Stage
  <2>4. CASE RetireOld /\ (phase = "run" => ops # Erased)
    BY <1>i, <2>1, <2>2, <2>4, SameRetire DEF Stage
  <2>5. CASE /\ phase = "run" /\ (prog # NoProg => ops # Erased)
             /\ RunRoom \/ RunMove \/ RunOp \/ RunTx \/ RunFlush
    <3>1. RunRoom' \/ RunMove' \/ RunOp' \/ RunTx' \/ RunFlush'
      <4>1. RunFlush => RunFlush'
        BY <2>2 DEF RunFlush, CpSum, Clear, NoProg
      <4>2. QED
        BY <2>1, <2>5, <4>1, SameRoom, SameMoving, SameOps, SameReplace
    <3>2. Stage'
      BY <2>2, <2>5, <3>1 DEF Stage, NoProg
    <3>3. QED
      BY <1>i, <2>1, <2>2, <3>2
  <2>6. QED
    BY <1>2, <2>3, <2>4, <2>5 DEF Stage
<1>3. QED
  BY <1>1, <1>2 DEF Inv

-----------------------------------------------------------------------------
(* What the invariant says between calls, and always.                      *)

(* When no call runs, Core holds and no operation, move or transaction is
   open. *)
LEMMA IdleFacts ==
    ASSUME Inv, Idle
    PROVE  Core /\ Quiet /\ Room
<1>1. prog = NoProg /\ phase = "run"
  BY DEF Idle, NoProg
<1>2. ~Goes(prog)
  BY <1>1, GoesOn
<1>3. QED
  BY <1>1, <1>2, InvGoes

(* The facts that hold in every stage, a flush included. *)
LEMMA AlwaysFacts ==
    ASSUME Inv
    PROVE  /\ InFlash /\ MapOK /\ FilesOK /\ index.map \in Map
           /\ \A a \in cached : a \in Area /\ map.type[a] = "data" /\ sum[a] \in [Page -> SummaryEntry]
           /\ phase \in {"areaMgmt", "garbage", "dataIO", "run"}
<1>1. CASE Flushing
  BY <1>1 DEF Inv, Flushing, PagesInRAM, MapOK
<1>2. CASE Sound /\ Stage
  <2>1. Core
    BY <1>2 DEF Inv, Core
  <2>2. phase \in {"areaMgmt", "garbage", "dataIO", "run"}
    BY <1>2 DEF Stage, MountOps, MountGarbage, MountDataIO, RetireOld
  <2>3. QED
    BY <2>1, <2>2, CoreParts DEF LogOK, SumOK
<1>3. QED
  BY <1>1, <1>2 DEF Inv

(* Pages between calls: what counts as free is erased, and what a file refers
   to counts as used. *)
LEMMA IdlePages ==
    ASSUME Inv, Idle
    PROVE  /\ \A a \in Area : map.type[a] = "data" => FreeOK(a) /\ UsedOK(a)
           /\ \A a \in Area, p \in Page : PageStatus(a, p) = logged[a][p]
           /\ \A a \in Area : ~Deleting(a)
<1>1. Core /\ NoOp /\ mv = "ok"
  BY IdleFacts DEF Quiet
<1>2. \A a \in Area : ~Deleting(a)
  BY <1>1, IdleParts
<1>3. \A a \in Area : ~Lost(a)
  BY <1>1 DEF Lost
<1>4. \A a \in Area : map.type[a] = "data" => FreeOK(a) /\ UsedOK(a)
  BY <1>1, <1>2, <1>3, CoreParts DEF DataPages
<1>5. \A a \in Area : ram[a] = logged[a] /\ SummaryOf(map, sum, a) = ram[a]
  BY <1>1, <1>2, CoreParts DEF SumOK
<1>6. QED
  BY <1>2, <1>4, <1>5 DEF PageStatus

-----------------------------------------------------------------------------
(* The theorems.                                                           *)

(* The invariant holds at all times, for any number of areas, pages, files,
   calls and losses of power. *)
THEOREM AreaMgmtInvariant == Careful /\ Spec => []Inv
<1>1. Careful => Careful'
  BY DEF Careful
<1>2. Init => Inv
  BY InitInv
<1>3. Careful /\ Inv /\ [Next]_vars => Inv'
  BY InvNext, InvStutter
<1>4. QED
  BY <1>1, <1>2, <1>3, PTL DEF Spec

(* Map, page states, flash and journal keep their types. *)
THEOREM AreaMgmtTypes == Careful /\ Spec => []TypeOK
<1>1. Inv => TypeOK
  <2>1. SUFFICES ASSUME Inv PROVE TypeOK
    OBVIOUS
  <2>2. /\ InFlash /\ map \in Map /\ FixedAreas /\ FilesOK /\ index.map \in Map
        /\ \A a \in cached : a \in Area /\ map.type[a] = "data" /\ sum[a] \in [Page -> SummaryEntry]
        /\ phase \in {"areaMgmt", "garbage", "dataIO", "run"}
    BY <2>1, AlwaysFacts DEF MapOK
  <2>3. cached \subseteq Area \ {0}
    BY <2>2 DEF FixedAreas
  <2>4. QED
    BY <2>2, <2>3 DEF TypeOK, InFlash, FilesOK
<1>2. QED
  BY <1>1, AreaMgmtInvariant, PTL

(* No two areas ever lie on the same position. *)
THEOREM AreaPositionsDistinct == Careful /\ Spec => []PositionsDistinct
<1>1. Inv => PositionsDistinct
  BY AlwaysFacts DEF MapOK
<1>2. QED
  BY <1>1, AreaMgmtInvariant, PTL

(* The area a mount looks for the superblock's anchor in never moves. *)
THEOREM AreaSuperblockStays == Careful /\ Spec => []SuperblockStays
<1>1. Inv => SuperblockStays
  BY AlwaysFacts DEF MapOK, FixedAreas, SuperblockStays
<1>2. QED
  BY <1>1, AreaMgmtInvariant, PTL

(* A page of flash is programmed only while it is erased: by calls, by garbage
   collection and by mounts. *)
THEOREM AreaWritesErased == Careful /\ Spec => []WritesHitErasedPages
<1>1. Inv => WritesHitErasedPages
  <2>1. SUFFICES ASSUME Inv, prog # NoProg PROVE WritesHitErasedPages
    BY DEF WritesHitErasedPages, NoProg
  <2>2. Goes(prog)
    BY <2>1, InvGoes
  <2>3. QED
    BY <2>2, GoesOn DEF WritesHitErasedPages, Instruction
<1>2. QED
  BY <1>1, AreaMgmtInvariant, PTL

(* Between calls the page a file refers to has content, counts as used, and is
   the file's alone, whatever garbage collection moved and however often power
   failed. *)
THEOREM AreaFilesIntact == Careful /\ Spec => []FilesIntact
<1>1. Inv => FilesIntact
  <2>1. SUFFICES ASSUME Inv, Idle, NEW f \in FilePage, addr[f] # NoAddr
                 PROVE  /\ flash[map.pos[addr[f][1]]][addr[f][2]] # Erased
                        /\ PageStatus(addr[f][1], addr[f][2]) = "used"
                        /\ \A g \in FilePage : addr[g] = addr[f] => g = f
    BY DEF FilesIntact
  <2>2. FilesOK
    BY <2>1, AlwaysFacts
  <2>3. addr[f] \in Addr /\ map.type[addr[f][1]] = "data"
        /\ flash[map.pos[addr[f][1]]][addr[f][2]] # Erased
        /\ \A g \in FilePage : addr[g] = addr[f] => g = f
    BY <2>1, <2>2 DEF FilesOK
  <2>4. addr[f][1] \in Area /\ addr[f][2] \in Page
    BY <2>3 DEF Addr
  <2>5. logged[addr[f][1]][addr[f][2]] = "used"
    BY <2>1, <2>3, <2>4, IdlePages DEF UsedOK
  <2>6. QED
    BY <2>1, <2>3, <2>4, <2>5, IdlePages
<1>2. QED
  BY <1>1, AreaMgmtInvariant, PTL

(* Between calls every page that findFirstFreePage may hand out is erased. *)
THEOREM AreaFreePagesErased == Careful /\ Spec => []FreePagesErased
<1>1. Inv => FreePagesErased
  <2>1. SUFFICES ASSUME Inv, Idle, NEW ad \in Addr, map.type[ad[1]] \in {"data", "index"},
                        PageStatus(ad[1], ad[2]) = "free"
                 PROVE  flash[map.pos[ad[1]]][ad[2]] = Erased
    BY DEF FreePagesErased
  <2>2. ad[1] \in Area /\ ad[1] # 0 /\ ad[2] \in Page
    BY DEF Addr
  <2>3. FixedAreas /\ OtherAreas
    BY <2>1, AlwaysFacts DEF MapOK
  <2>4. map.type[ad[1]] = "data"
    BY <2>1, <2>2, <2>3 DEF FixedAreas, OtherAreas, AreaOK
  <2>5. QED
    BY <2>1, <2>2, <2>4, IdlePages DEF FreeOK
<1>2. QED
  BY <1>1, AreaMgmtInvariant, PTL

(* Between calls the garbage buffer is erased, so that the next move can copy
   into it. *)
THEOREM AreaGarbageBufferErased == Careful /\ Spec => []GarbageBufferErased
<1>1. Inv => GarbageBufferErased
  <2>1. SUFFICES ASSUME Inv, Idle PROVE GarbageBufferErased
    BY DEF GarbageBufferErased
  <2>2. Core /\ mv = "ok"
    BY <2>1, IdleFacts DEF Quiet
  <2>3. ErasedArea(buffer) /\ map.pos[buffer] \notin asWritten
    BY <2>2, CoreParts DEF BufferPages
  <2>4. flash[map.pos[buffer]] \in [Page -> Erased .. MaxOps]
    BY <2>2, CoreParts DEF InFlash
  <2>5. flash[map.pos[buffer]] = All(Erased)
    BY <2>3, <2>4 DEF ErasedArea, All
  <2>6. QED
    BY <2>3, <2>5 DEF GarbageBufferErased, buffer
<1>2. QED
  BY <1>1, AreaMgmtInvariant, PTL

(* Between calls the active area of a type has that type and a free page. *)
THEOREM AreaActiveUsable == Careful /\ Spec => []ActiveAreaUsable
<1>1. Inv => ActiveAreaUsable
  <2>1. SUFFICES ASSUME Inv, Idle, NEW t \in {"data", "index"}, map.active[t] # 0
                 PROVE  /\ map.type[map.active[t]] = t
                        /\ map.status[map.active[t]] = "active"
                        /\ FreePages(map.active[t]) # {}
    BY DEF ActiveAreaUsable
  <2>2. Core /\ NoOp /\ Room
    BY <2>1, IdleFacts DEF Quiet
  <2>3. t = "data"
    <3>1. t \in AreaType \ {"garbageBuffer"}
      BY DEF AreaType
    <3>2. QED
      BY <2>1, <2>2, <3>1, CoreParts DEF FixedAreas
  <2> DEFINE d == map.active["data"]
  <2>4. d \in Area /\ d # 0
    <3>1. "data" \in AreaType
      BY DEF AreaType
    <3>2. QED
      BY <2>1, <2>2, <2>3, <3>1, CoreParts
  <2>5. map.type[d] = "data" /\ map.status[d] = "active"
    <3>1. ~Doing1("closeArea", d)
      BY <2>2, <2>4, IdleParts DEF AreaMgmtOp
    <3>2. QED
      BY <2>2, <2>4, <3>1, CoreParts DEF ActiveOK
  <2>6. PICK p \in Page : logged[d][p] = "free"
    BY <2>2, <2>4 DEF Room
  <2>7. SummaryOf(map, sum, d)[p] = "free"
    BY <2>1, <2>4, <2>6, IdlePages DEF PageStatus
  <2>8. p \in FreePages(d)
    BY <2>7 DEF FreePages, Pages
  <2>9. QED
    BY <2>3, <2>5, <2>8
<1>2. QED
  BY <1>1, AreaMgmtInvariant, PTL

(* Between calls the totals of the map are those of its areas, so that the next
   superindex is accepted at a mount. *)
THEOREM AreaMapPlausible == Careful /\ Spec => []MapPlausible
<1>1. Inv => MapPlausible
  <2>1. SUFFICES ASSUME Inv, Idle PROVE Plausible(map)
    BY DEF MapPlausible
  <2>2. Core /\ NoOp
    BY <2>1, IdleFacts DEF Quiet
  <2>3. /\ Adjust = 0 /\ map.used = Cardinality(NonEmpty(map)) + Adjust
        /\ map.deletions = TotalErases(map) /\ map.used \in Nat
    BY <2>2, IdleParts, CoreParts DEF Totals
  <2>4. IsFiniteSet(NonEmpty(map))
    <3>1. IsFiniteSet(0 .. AreasNo - 1)
      BY Constants, FS_Interval
    <3>2. NonEmpty(map) \subseteq 0 .. AreasNo - 1
      BY Constants DEF NonEmpty
    <3>3. QED
      BY <3>1, <3>2, FS_Subset
  <2>5. Cardinality(NonEmpty(map)) \in Nat
    BY <2>4, FS_CardinalityType
  <2>6. map.used = Cardinality(NonEmpty(map))
    BY <2>3, <2>5
  <2>7. QED
    BY <2>3, <2>6 DEF Plausible
<1>2. QED
  BY <1>1, AreaMgmtInvariant, PTL

(* Areas, garbage collection and mounts implement FileStore: what a file page
   holds is changed by the call that writes or deletes it and by nothing else. *)
THEOREM AreasKeepFiles == Careful /\ Spec => KeepsFiles
<1>1. Careful => Careful'
  BY DEF Careful
<1>2. Init => Files!FileInit
  <2>1. SUFFICES ASSUME Init PROVE Files!FileInit
    OBVIOUS
  <2>2. addr = [f \in FilePage |-> NoAddr] /\ ops = 0
    BY <2>1 DEF Init
  <2>3. stored = [f \in FilePage |-> {}]
    BY <2>2 DEF stored
  <2>4. QED
    BY <2>2, <2>3 DEF Files!FileInit
<1>3. Careful /\ Inv /\ [Next]_vars => [Files!FileNext]_<<stored, ops>>
  <2>1. SUFFICES ASSUME Careful, Inv, [Next]_vars PROVE [Files!FileNext]_<<stored, ops>>
    OBVIOUS
  <2>2. FileEffect
    <3>1. CASE Next
      BY <2>1, <3>1, InvNext
    <3>2. CASE UNCHANGED vars
      BY <2>1, <3>2, InvStutter DEF FileEffect
    <3>3. QED
      BY <2>1, <3>1, <3>2
  <2>3. CASE stored' = stored /\ ops' = ops
    BY <2>3
  <2>4. CASE stored' = stored /\ ops' = ops + 1
    BY <2>4 DEF Files!FileNext, Files!FileCall
  <2>5. CASE ops' = ops /\ \E f \in FilePage : UpdatesOf(f, {}) \/ UpdatesOf(f, {ops})
    BY <2>5 DEF UpdatesOf, Files!FileNext, Files!FileWrite, Files!FileDelete
  <2>6. QED
    BY <2>2, <2>3, <2>4, <2>5 DEF FileEffect
<1>4. QED
  BY <1>1, <1>2, <1>3, AreaMgmtInvariant, PTL DEF Spec, KeepsFiles, Files!FileSpec
-----------------------------------------------------------------------------
(* No page leaks: what the invariant does not say of the pages in use.      *)

(* The status of pages: what RAM has of them, and what the journal has while
   an operation drops a summary. *)
known == IF NoOp THEN ram ELSE logged

Owned(a, p) == \E f \in FilePage : addr[f] = <<a, p>>

(* A page is being replaced; the page that has to get dirty in the end, if
   power failed now. *)
Open == replaced /\ ~invalidated

Pending == IF updated THEN oldPage ELSE neuPage

UsedOwned ==
    \A a \in Area, p \in Page : known[a][p] = "used" =>
        Owned(a, p) \/ (Open /\ Pending = <<a, p>>)

(* Getting rid of that page: x makes it dirty, or closes the replacement, and
   then it is dirty already. *)
Closes(x) ==
    x.op \in {"invalidateOldPages", "writeSummary", "commit"} \/ IsCheckpoint(x, "dataIO")

Dirties(x) == x.op = "setStatus" /\ x.entry = "dirty"

Retires(x) ==
    /\ Closes(x) => \A a \in Area, p \in Page : Pending = <<a, p>> => known[a][p] # "used"
    /\ Dirties(x) => Pending = <<x.area, x.page>>

RetiresPending ==
    (Open /\ phase \in {"run", "dataIO"} /\ prog # <<>>) => Retires(Head(prog))

(* A mount erases what an interrupted move copied. *)
Reverting == phase = "garbage" /\ found.state = "moveValidData"

(* Summaries that are to be set name pages of files as used; copies that are
   erased again are not scanned. *)
EntryOwned(x) ==
    /\ x.op = "setStatusBlock" => \A p \in Page : x.summary[p] = "used" => Owned(x.area, p)
    /\ x.op = "scan" => ~Reverting

AllOwned(s) == \A i \in DOMAIN s : EntryOwned(s[i])

(* Pages copied by a move that goes on are those of files. *)
CopiesOwned ==
    (mv \in {"swappedPosition", "deletedOldArea"} /\ ~Reverting) =>
        \A p \in Page : flash[map.pos[target]][p] # Erased => Owned(target, p)

RevertsKnown == phase = "garbage" /\ mv = "moveValidData" => Reverting

NoLeaks == UsedOwned /\ RetiresPending /\ AllOwned(prog) /\ CopiesOwned /\ RevertsKnown

-----------------------------------------------------------------------------
(* What the parts of NoLeaks depend on.                                    *)

(* The two views of the pages agree but for an area that is deleted. *)
LEMMA KnownIs == Core => known = logged
<1> SUFFICES ASSUME Core PROVE known = logged
  OBVIOUS
<1>1. CASE NoOp
  <2>1. \A a \in Area : ram[a] = logged[a]
    BY <1>1, IdleParts, CoreParts DEF SumOK
  <2>2. ram = logged
    BY <2>1, CoreParts
  <2>3. QED
    BY <1>1, <2>2 DEF known
<1>2. CASE ~NoOp
  BY <1>2 DEF known
<1>3. QED
  BY <1>1, <1>2

(* The page of address 0 is not in use. *)
LEMMA NoAddrUnused ==
    ASSUME Core
    PROVE  /\ logged[0][0] # "used" /\ NoAddr = <<0, 0>>
           /\ \A a \in Area, p \in Page : logged[a][p] = "used" => map.type[a] = "data"
<1>1. \A a \in Area, p \in Page : logged[a][p] = "used" => map.type[a] = "data"
  <2>1. SUFFICES ASSUME NEW a \in Area, NEW p \in Page, a \notin inLog PROVE logged[a][p] # "used"
    BY CoreParts DEF LoggedPages
  <2>2. logged[a][p] = Base(a)
    BY <2>1, CoreParts, NotInLog
  <2>3. QED
    BY <2>2 DEF Base
<1>2. map.type[0] # "data" /\ 0 \in Area /\ 0 \in Page
  BY CoreParts, Constants DEF FixedAreas
<1>3. QED
  BY <1>1, <1>2 DEF NoAddr

(* A replacement stays as open as it was, of the same page. *)
LEMMA OpenStays ==
    ASSUME SameTx
    PROVE  (Open' <=> Open) /\ (Open => Pending' = Pending)
BY DEF SameTx, Open, Pending

(* Pages in use stay those of files if no page gets used, and no file or
   replacement changes. *)
LEMMA UsedStays ==
    ASSUME Core, Core', UsedOwned, addr' = addr, SameTx,
           \A a \in Area, p \in Page : logged'[a][p] = "used" => logged[a][p] = "used"
    PROVE  UsedOwned'
<1>1. SUFFICES ASSUME NEW a \in Area, NEW p \in Page, known'[a][p] = "used"
               PROVE  Owned(a, p)' \/ (Open' /\ Pending' = <<a, p>>)
  BY DEF UsedOwned
<1>k. Core' => (known = logged)'
  BY KnownIs, PTL
<1>2. known' = logged'
  BY <1>k
<1>3. known[a][p] = "used"
  BY <1>1, <1>2, KnownIs
<1>4. Owned(a, p) \/ (Open /\ Pending = <<a, p>>)
  BY <1>3 DEF UsedOwned
<1>5. Owned(a, p)' <=> Owned(a, p)
  BY DEF Owned
<1>6. QED
  BY <1>4, <1>5, OpenStays

(* The entries of a program. *)
LEMMA OwnedThen ==
    ASSUME NEW x, NEW r, IsProg(r)
    PROVE  AllOwned(Then(x, r)) <=> EntryOwned(x) /\ AllOwned(r)
<1>1. PICK S : r \in Seq(S)
  BY DEF IsProg
<1> DEFINE t == Then(x, r)
<1>2. /\ Len(r) \in Nat /\ DOMAIN r = 1 .. Len(r) /\ DOMAIN t = 1 .. Len(r) + 1
      /\ t[1] = x /\ \A i \in 1 .. Len(r) : t[i + 1] = r[i]
  <2>1. r \in Seq(S \union {x}) /\ <<x>> \in Seq(S \union {x})
    BY <1>1
  <2>2. Len(<<x>>) = 1 /\ <<x>>[1] = x
    OBVIOUS
  <2>3. QED
    BY <2>1, <2>2 DEF Then
<1> HIDE DEF t
<1>3. ASSUME AllOwned(t) PROVE EntryOwned(x) /\ AllOwned(r)
  <2>1. EntryOwned(t[1])
    BY <1>2, <1>3 DEF AllOwned
  <2>2. ASSUME NEW i \in DOMAIN r PROVE EntryOwned(r[i])
    <3>1. i + 1 \in DOMAIN t /\ t[i + 1] = r[i]
      BY <1>2
    <3>2. EntryOwned(t[i + 1])
      BY <1>3, <3>1 DEF AllOwned
    <3>3. QED
      BY <3>1, <3>2
  <2>3. QED
    BY <1>2, <2>1, <2>2 DEF AllOwned
<1>4. ASSUME EntryOwned(x), AllOwned(r) PROVE AllOwned(t)
  <2>1. SUFFICES ASSUME NEW i \in DOMAIN t PROVE EntryOwned(t[i])
    BY DEF AllOwned
  <2>2. CASE i = 1
    BY <1>2, <1>4, <2>2
  <2>3. CASE i # 1
    <3>1. PICK j \in DOMAIN r : t[i] = r[j]
      <4>1. i - 1 \in DOMAIN r /\ i = (i - 1) + 1
        BY <1>2, <2>1, <2>3
      <4>2. QED
        BY <1>2, <4>1
    <3>2. QED
      BY <1>4, <3>1 DEF AllOwned
  <2>4. QED
    BY <2>2, <2>3
<1>5. QED
  BY <1>3, <1>4 DEF t

(* What the entries say depends on the files and the mount only. *)
LEMMA OwnedStays ==
    ASSUME addr' = addr, phase' = phase, found' = found, NEW r
    PROVE  (\A x : EntryOwned(x)' <=> EntryOwned(x)) /\ (AllOwned(r)' <=> AllOwned(r))
<1>1. \A a, p : Owned(a, p)' <=> Owned(a, p)
  BY DEF Owned
<1>2. Reverting' <=> Reverting
  BY DEF Reverting
<1>3. \A x : EntryOwned(x)' <=> EntryOwned(x)
  BY <1>1, <1>2 DEF EntryOwned
<1>4. QED
  BY <1>3 DEF AllOwned

(* The program of the next state is what is left of this one. *)
LEMMA OwnedTail ==
    ASSUME NEW x, NEW r, IsProg(r), prog = Then(x, r), AllOwned(prog), prog' = r,
           addr' = addr, phase' = phase, found' = found
    PROVE  AllOwned(prog)'
<1>1. AllOwned(r)
  BY OwnedThen
<1>2. AllOwned(r)'
  BY <1>1, OwnedStays
<1>3. QED
  BY <1>2 DEF AllOwned

(* A move goes on as before. *)
LEMMA CopiesStay ==
    ASSUME CopiesOwned, RevertsKnown, addr' = addr, phase' = phase, found' = found, SameMove,
           \A p \in Page : flash'[map'.pos[target]][p] # Erased => flash[map.pos[target]][p] # Erased
    PROVE  CopiesOwned' /\ RevertsKnown'
<1>1. Reverting' <=> Reverting
  BY DEF Reverting
<1>2. \A a, p : Owned(a, p)' <=> Owned(a, p)
  BY DEF Owned
<1>3. QED
  BY <1>1, <1>2 DEF CopiesOwned, RevertsKnown, SameMove

(* No move goes on. *)
LEMMA NoCopies ==
    ASSUME mv' \in {"ok", "setNewSummary"} \/ (mv' = "moveValidData" /\ phase' = "run")
    PROVE  CopiesOwned' /\ RevertsKnown'
BY DEF CopiesOwned, RevertsKnown

-----------------------------------------------------------------------------
(* Steps while no page has to get dirty.                                   *)

(* The page being replaced does not have to get dirty yet. *)
Calm == (Open /\ phase \in {"run", "dataIO"}) => (phase = "run" /\ ~updated)

Plain(x) == ~Closes(x) /\ ~Dirties(x)

(* Instructions that do not retire a page. *)
LEMMA PlainOps ==
    /\ \A ad : Plain(SetStatus(ad, "used")) /\ Plain(WritePage(ad))
    /\ \A t : Plain(ManageActiveAreaFull(t))
    /\ \A a : Plain(CloseArea(a))
    /\ \A f, ad : Plain(UpdateInode(f, ad))
    /\ \A x : OpChange(x) => Plain(x)
<1>1. \A x : OpChange(x) => Plain(x)
  BY DEF OpChange, Plain, Closes, Dirties, IsCheckpoint, AddUsed, EraseBlock, Checkpoint
<1>2. QED
  BY <1>1 DEF Plain, Closes, Dirties, IsCheckpoint, SetStatus, WritePage, ManageActiveAreaFull,
              CloseArea, UpdateInode

(* Nothing is replaced while an area is initialised, erased or moved. *)
LEMMA ReplacesAlone ==
    ASSUME Core
    PROVE  /\ lastOp.op \in {"initAreaAs", "deleteArea", "deleteAreaContents"} => ~replaced
           /\ mv # "ok" => ~replaced
<1>1. mv # "ok" => ~replaced
  BY CoreParts DEF MoveOK
<1>2. lastOp.op = "deleteAreaContents" => mv # "ok"
  BY CoreParts DEF ContentsOK
<1>3. QED
  BY <1>1, <1>2, CoreParts DEF InitOK, DeleteOK

(* Before the tree knows the new page the call does not retire one. *)
LEMMA CalmHead ==
    ASSUME Inv, Open, phase = "run", ~updated, prog # <<>>
    PROVE  Plain(Head(prog))
<1>1. replaced
  BY DEF Open
<1>2. ~Flushing
  BY <1>1 DEF Flushing, Quiet
<1>3. Sound /\ Stage /\ Core
  BY <1>2 DEF Inv, Core
<1>4. ~RetireOld /\ ~MountOps /\ ~MountGarbage /\ ~MountDataIO
  BY DEF RetireOld, MountOps, MountGarbage, MountDataIO
<1>5. ~RunFlush /\ ~RunRoom
  BY <1>1 DEF RunFlush, RunRoom, Quiet
<1>6. ~RunMove
  <2>1. SUFFICES ASSUME RunMove PROVE FALSE
    OBVIOUS
  <2>2. Quiet \/ mv # "ok"
    BY <2>1 DEF RunMove, Moving, Moved
  <2>3. QED
    BY <1>1, <1>3, <2>2, ReplacesAlone DEF Quiet
<1>7. CASE RunOp
  <2>1. PICK ctx : IsProg(ctx) /\ OpRuns(ctx)
    BY <1>7, Progs DEF RunOp
  <2>2. PICK x, r : IsProg(r) /\ prog = Then(x, r) /\ OpChange(x)
    BY <1>3, <2>1, OpGoesOnWith DEF OpHead
  <2>3. QED
    BY <2>2, PlainOps, ThenFacts
<1>8. CASE RunTx
  <2>1. PICK f, neu, old :
            \/ prog = Tx1(f, neu, old)
            \/ prog = Tx2(f, neu, old)
            \/ prog = Tx3(f, neu, old)
            \/ prog = Then(CloseArea(neu[1]), Tx4(f, neu, old))
            \/ prog = Tx4(f, neu, old)
    BY <1>1, <1>8 DEF RunTx, Quiet
  <2>2. /\ IsProg(Tx4(f, neu, old)) /\ IsProg(Tx3(f, neu, old)) /\ IsProg(Tx2(f, neu, old))
        /\ IsProg(RetireTail(old))
    BY Progs
  <2>3. PICK x, r : IsProg(r) /\ prog = Then(x, r) /\ Plain(x)
    BY <2>1, <2>2, PlainOps DEF Tx1, Tx2, Tx3, Tx4
  <2>4. QED
    BY <2>3, ThenFacts
<1>9. QED
  BY <1>3, <1>4, <1>5, <1>6, <1>7, <1>8 DEF Stage

(* So that there is nothing to say of the next instruction. *)
LEMMA CalmRetires == Inv /\ Calm => RetiresPending
<1>1. SUFFICES ASSUME Inv, Calm, Open, phase \in {"run", "dataIO"}, prog # <<>>
               PROVE  Retires(Head(prog))
  BY DEF RetiresPending
<1>2. Plain(Head(prog))
  BY <1>1, CalmHead DEF Calm
<1>3. QED
  BY <1>2 DEF Plain, Retires

(* And the next state is calm as well. *)
LEMMA CalmStays ==
    ASSUME Calm, SameTx, phase' = phase
    PROVE  Calm'
BY OpenStays DEF Calm, SameTx, Open

(* A state that is calm, in which only what NoLeaks says of entries and copies
   has to be shown. *)
LEMMA CalmStep ==
    ASSUME Core, Core', Inv', NoLeaks, Calm, SameTx, addr' = addr, phase' = phase,
           \A a \in Area, p \in Page : logged'[a][p] = "used" => logged[a][p] = "used",
           AllOwned(prog)', CopiesOwned', RevertsKnown'
    PROVE  NoLeaks'
<1>1. UsedOwned'
  BY UsedStays DEF NoLeaks
<1>2. (Inv /\ Calm)' => RetiresPending'
  BY CalmRetires, PTL
<1>3. RetiresPending'
  BY <1>2, CalmStays
<1>4. QED
  BY <1>1, <1>3 DEF NoLeaks

-----------------------------------------------------------------------------
(* Operations of AreaManagement.                                           *)

(* No page gets used by an entry that is no page's status. *)
LEMMA StatusShrinks ==
    ASSUME Core, Core', index' = index, log' = log \/ \E e : Grows(e) /\ e.op \notin PageOp
                                                      /\ ~IsCheckpoint(e, "summaryCache")
    PROVE  \A a \in Area, p \in Page : logged'[a][p] = "used" => logged[a][p] = "used"
<1>1. LoggedIs /\ IsProg(log)
  BY LoggedType, CoreParts
<1>2. LoggedIs'
  <2>1. (IsProg(log) /\ LogOK => LoggedIs)'
    BY LoggedType, PTL
  <2>2. IsProg(log') /\ LogOK'
    BY DEF Core, Sound, Disk
  <2>3. QED
    BY <2>1, <2>2
<1>3. SUFFICES ASSUME NEW a \in Area, NEW p \in Page, LogStatus(a, p)' = "used"
               PROVE  LogStatus(a, p) = "used"
  BY <1>1, <1>2 DEF LoggedIs
<1>4. Base(a)' # "used"
  BY DEF Base
<1>5. CASE log' = log
  BY <1>3, <1>4, <1>5, StatusStays
<1>6. ASSUME NEW e, Grows(e), e.op \notin PageOp, ~IsCheckpoint(e, "summaryCache")
      PROVE  LogStatus(a, p) = "used"
  <2>1. ~DecidesPage(e, a, p)
    BY <1>6 DEF DecidesPage, Decides
  <2>2. QED
    BY <1>3, <1>4, <1>6, <2>1, StatusGrows
<1>7. QED
  BY <1>5, <1>6

(* A change of an operation uses no page, and writes none. *)
LEMMA ChangeShrinks ==
    ASSUME Careful, Core, Core', NEW x, NEW r, IsProg(r), prog = Then(x, r), OpChange(x),
           Next, ~PowerLoss
    PROVE  /\ prog' = r
           /\ \A a \in Area, p \in Page : logged'[a][p] = "used" => logged[a][p] = "used"
           /\ \A q \in Pos, p \in Page : flash'[q][p] # Erased => flash[q][p] # Erased
<1>1. IsProg(log) /\ flash \in [Pos -> [Page -> Erased .. MaxOps]]
  BY CoreParts DEF InFlash
<1>2. CASE x.op \in {"type", "status", "activeArea", "increaseErasecount"}
  <2>1. MapEntry(x) /\ prog' = r
    BY <1>1, <1>2, ExecMapEntry DEF MapOp
  <2>2. Grows(x) /\ x.op \notin PageOp /\ ~IsCheckpoint(x, "summaryCache")
        /\ index' = index /\ flash' = flash
    BY <1>2, <2>1 DEF MapEntry, PageOp, IsCheckpoint, flashVars
  <2>3. QED
    BY <2>1, <2>2, StatusShrinks
<1>3. ASSUME NEW n, x = AddUsed(n)
      PROVE  /\ prog' = r
             /\ \A a \in Area, p \in Page : logged'[a][p] = "used" => logged[a][p] = "used"
             /\ \A q \in Pos, p \in Page : flash'[q][p] # Erased => flash[q][p] # Erased
  <2>1. MapEntry(UsedAreas(map.used + n)) /\ prog' = r
    BY <1>1, <1>3, ExecUsedEntry
  <2>2. PICK e : e = UsedAreas(map.used + n)
    OBVIOUS
  <2>3. Grows(e) /\ e.op \notin PageOp /\ ~IsCheckpoint(e, "summaryCache")
        /\ index' = index /\ flash' = flash
    BY <2>1, <2>2 DEF MapEntry, PageOp, IsCheckpoint, flashVars, UsedAreas
  <2>4. QED
    BY <2>1, <2>3, StatusShrinks
<1>4. ASSUME NEW pos, NEW k, x = EraseBlock(pos, k)
      PROVE  /\ prog' = r
             /\ \A a \in Area, p \in Page : logged'[a][p] = "used" => logged[a][p] = "used"
             /\ \A q \in Pos, p \in Page : flash'[q][p] # Erased => flash[q][p] # Erased
  <2>1. /\ flash' = [flash EXCEPT ![pos] =
                        [p \in Page |-> IF BlockOf(p) = k THEN Erased ELSE @[p]]]
        /\ prog' = r /\ log' = log /\ index' = index
    BY <1>4, ExecErase
  <2>2. \A q \in Pos, p \in Page : flash'[q][p] # Erased => flash[q][p] # Erased
    BY <1>1, <2>1
  <2>3. QED
    BY <2>1, <2>2, StatusShrinks
<1>5. CASE x.op \in {"remove", "reset"}
  <2>1. SumEntry(x) /\ prog' = r
    BY <1>1, <1>5, ExecSumEntry
  <2>2. Grows(x) /\ x.op \notin PageOp /\ ~IsCheckpoint(x, "summaryCache")
        /\ index' = index /\ flash' = flash
    BY <1>5, <2>1 DEF SumEntry, PageOp, IsCheckpoint, flashVars
  <2>3. QED
    BY <2>1, <2>2, StatusShrinks
<1>6. CASE x = Checkpoint("areaMgmt")
  <2>1. x.op \in NoteOp /\ x.op \notin PageOp /\ ~IsCheckpoint(x, "summaryCache")
    BY <1>6 DEF Checkpoint, NoteOp, PageOp, IsCheckpoint
  <2>2. NoteEntry(x) /\ prog' = r
    BY <1>1, <2>1, ExecNoteEntry
  <2>3. Grows(x) /\ index' = index /\ flash' = flash
    BY <2>2 DEF NoteEntry, flashVars
  <2>4. QED
    BY <2>1, <2>2, <2>3, StatusShrinks
<1>7. QED
  BY <1>2, <1>3, <1>4, <1>5, <1>6 DEF OpChange

(* An operation in progress leaks no page. *)
LEMMA OpLeaksNone ==
    ASSUME Careful, Core, Inv', NoLeaks, Calm, NEW ctx, IsProg(ctx), OpRuns(ctx), Next, ~PowerLoss
    PROVE  NoLeaks'
<1>1. Core' /\ OpFrame
  BY OpStep
<1>2. PICK x, r : IsProg(r) /\ prog = Then(x, r) /\ OpChange(x)
  BY OpGoesOnWith DEF OpHead
<1>3. /\ prog' = r
      /\ \A a \in Area, p \in Page : logged'[a][p] = "used" => logged[a][p] = "used"
      /\ \A q \in Pos, p \in Page : flash'[q][p] # Erased => flash[q][p] # Erased
  BY <1>1, <1>2, ChangeShrinks
<1>4. /\ SameTx /\ SameMove /\ addr' = addr /\ phase' = phase /\ found' = found
      /\ map'.pos = map.pos
  BY <1>1 DEF OpFrame, SameRest
<1>5. AllOwned(prog)'
  BY <1>2, <1>3, <1>4, OwnedTail DEF NoLeaks
<1>6. CopiesOwned' /\ RevertsKnown'
  <2>1. CASE mv = "ok"
    BY <1>4, <2>1, NoCopies DEF SameMove
  <2>2. CASE mv # "ok"
    <3>1. map.pos[target] \in Pos
      BY <2>2, CoreParts DEF MoveOK
    <3>2. QED
      BY <1>3, <1>4, <3>1, CopiesStay DEF NoLeaks
  <2>3. QED
    BY <2>1, <2>2
<1>7. QED
  BY <1>1, <1>3, <1>4, <1>5, <1>6, CalmStep

-----------------------------------------------------------------------------
(* Operations that are started, or resumed by a mount.                     *)

(* The changes of an operation set no summary and scan no area. *)
LEMMA OwnedChange ==
    ASSUME NEW x, OpChange(x), NEW r, IsProg(r), AllOwned(r)
    PROVE  AllOwned(Then(x, r)) /\ IsProg(Then(x, r))
<1>1. EntryOwned(x)
  BY DEF OpChange, EntryOwned, AddUsed, EraseBlock, Checkpoint
<1>2. QED
  BY <1>1, OwnedThen, ThenFacts

(* Neither do the erases of an area. *)
LEMMA OwnedErases ==
    ASSUME NEW pos, NEW k \in 0 .. BlocksPerArea, NEW r, IsProg(r), AllOwned(r)
    PROVE  AllOwned(Cat(EraseFrom(pos, k), r))
<1> DEFINE e == EraseFrom(pos, k)
           n == BlocksPerArea - k
<1>1. n \in Nat /\ e = [j \in 1 .. n |-> EraseBlock(pos, k + j - 1)]
  BY Constants DEF EraseFrom
<1>2. PICK S : r \in Seq(S)
  BY DEF IsProg
<1>3. PICK T : \A j \in 1 .. n : EraseBlock(pos, k + j - 1) \in T
  <2>1. \A j \in 1 .. n : EraseBlock(pos, k + j - 1) \in {EraseBlock(pos, k + i - 1) : i \in 1 .. n}
    OBVIOUS
  <2>2. QED
    BY <2>1
<1> HIDE DEF n
<1>4. e \in Seq(T) /\ Len(e) = n
  BY <1>1, <1>3
<1> HIDE DEF e
<1>5. SUFFICES ASSUME NEW i \in DOMAIN (e \o r) PROVE EntryOwned((e \o r)[i])
  BY DEF AllOwned, Cat, e
<1>6. e \in Seq(S \union T) /\ r \in Seq(S \union T) /\ Len(r) \in Nat
  BY <1>2, <1>4
<1>7. i \in 1 .. n + Len(r)
  BY <1>1, <1>4, <1>5, <1>6
<1>8. CASE i <= n
  <2>1. (e \o r)[i] = EraseBlock(pos, k + i - 1)
    BY <1>1, <1>4, <1>6, <1>7, <1>8
  <2>2. QED
    BY <2>1 DEF EntryOwned, EraseBlock
<1>9. CASE i > n
  <2>1. (e \o r)[i] = r[i - n] /\ i - n \in DOMAIN r
    BY <1>1, <1>4, <1>6, <1>7, <1>9
  <2>2. QED
    BY <2>1 DEF AllOwned
<1>10. QED
  BY <1>1, <1>7, <1>8, <1>9

(* Initialising and closing an area: the changes, then what follows. *)
LEMMA OwnedInit ==
    ASSUME Core, NEW ctx, IsProg(ctx), AllOwned(ctx), OpRuns(ctx),
           lastOp.op \in {"initAreaAs", "closeArea"}
    PROVE  AllOwned(prog)
<1> DEFINE a == lastOp.area
           act == Then(ActiveArea("data", a), LastCheck(ctx))
           cls == Then(ActiveArea("data", 0), LastCheck(ctx))
           used(r) == IF map.status[a] = "empty" THEN Then(AddUsed(1), r) ELSE r
<1>n. ~NoOp /\ ~Erases
  BY DEF NoOp, Erases
<1>o. prog = Cat(ResumeOperation(map, sum, lastOp, ext), ctx)
  BY <1>n, BehindExt DEF OpRuns
<1>l. AllOwned(LastCheck(ctx)) /\ IsProg(LastCheck(ctx))
  BY OwnedChange, OpChanges DEF LastCheck
<1>1. CASE lastOp.op = "initAreaAs"
  <2>1. ext \in {"none", "type", "usedAreas", "activeArea"} /\ lastOp.type = "data"
    BY <1>1, CoreParts DEF InitOK
  <2>2. /\ Cat(ResumeOperation(map, sum, lastOp, "none"), ctx) = Then(Type(a, "data"), used(act))
        /\ Cat(ResumeOperation(map, sum, lastOp, "type"), ctx) = used(act)
        /\ Cat(ResumeOperation(map, sum, lastOp, "usedAreas"), ctx) = act
        /\ Cat(ResumeOperation(map, sum, lastOp, "activeArea"), ctx) = LastCheck(ctx)
    BY <1>1, <2>1, ResumeInit
  <2>3. AllOwned(act) /\ IsProg(act)
    BY <1>l, OwnedChange, OpChanges
  <2> HIDE DEF act
  <2>4. AllOwned(used(act)) /\ IsProg(used(act))
    BY <2>3, OwnedChange, OpChanges
  <2> HIDE DEF used
  <2>5. AllOwned(Then(Type(a, "data"), used(act)))
    BY <2>4, OwnedChange, OpChanges
  <2>6. QED
    BY <1>o, <1>l, <2>1, <2>2, <2>3, <2>4, <2>5
<1>2. CASE lastOp.op = "closeArea"
  <2>1. ext \in {"none", "status", "activeArea"} /\ map.type[a] = "data"
    BY <1>2, CoreParts DEF CloseOK
  <2>2. /\ Cat(ResumeOperation(map, sum, lastOp, "none"), ctx) = Then(Status(a, "closed"), cls)
        /\ Cat(ResumeOperation(map, sum, lastOp, "status"), ctx) = cls
        /\ Cat(ResumeOperation(map, sum, lastOp, "activeArea"), ctx) = LastCheck(ctx)
    BY <1>2, <2>1, ResumeClose
  <2>3. AllOwned(cls) /\ IsProg(cls)
    BY <1>l, OwnedChange, OpChanges
  <2> HIDE DEF cls
  <2>4. AllOwned(Then(Status(a, "closed"), cls))
    BY <2>3, OwnedChange, OpChanges
  <2>5. QED
    BY <1>o, <1>l, <2>1, <2>2, <2>3, <2>4
<1>3. QED
  BY <1>1, <1>2

(* What a deletion does behind its erases. *)
LEMMA OwnedDrop ==
    ASSUME NEW e, e.op \in {"deleteArea", "deleteAreaContents"}, NEW x,
           NEW ctx, IsProg(ctx), AllOwned(ctx),
           x \in {"increaseErasecount", "reset", "remove"}
           \/ (e.op = "deleteArea" /\ x \in {"status", "type", "usedAreas"})
    PROVE  AllOwned(Cat(ResumeOperation(map, sum, e, x), ctx))
           /\ IsProg(Cat(ResumeOperation(map, sum, e, x), ctx))
<1> DEFINE a == e.area
           S == DeleteTail(e, ctx)
           removed == IF a \in DOMAIN sum THEN Then(DeleteSummary(a), S) ELSE S
           dropped == IF a \in DOMAIN sum THEN Then(ResetASWritten(a), Then(DeleteSummary(a), S))
                      ELSE S
           typing == Then(Type(a, "unset"), Then(AddUsed(-1), LastCheck(ctx)))
           using == Then(AddUsed(-1), LastCheck(ctx))
<1>1. /\ Cat(ResumeOperation(map, sum, e, "increaseErasecount"), ctx) = dropped
      /\ Cat(ResumeOperation(map, sum, e, "reset"), ctx) = removed
      /\ Cat(ResumeOperation(map, sum, e, "remove"), ctx) = S
      /\ e.op = "deleteArea" =>
            /\ Cat(ResumeOperation(map, sum, e, "status"), ctx) = typing
            /\ Cat(ResumeOperation(map, sum, e, "type"), ctx) = using
            /\ Cat(ResumeOperation(map, sum, e, "usedAreas"), ctx) = LastCheck(ctx)
  BY ResumeErase
<1>2. AllOwned(LastCheck(ctx)) /\ IsProg(LastCheck(ctx))
  BY OwnedChange, OpChanges DEF LastCheck
<1>3. AllOwned(using) /\ IsProg(using)
  BY <1>2, OwnedChange, OpChanges
<1>4. AllOwned(typing) /\ IsProg(typing)
  BY <1>3, OwnedChange, OpChanges
<1> HIDE DEF typing, using
<1>5. AllOwned(S) /\ IsProg(S)
  <2>1. AllOwned(Then(Status(a, "empty"), typing)) /\ IsProg(Then(Status(a, "empty"), typing))
    BY <1>4, OwnedChange, OpChanges
  <2>2. QED
    BY <1>2, <2>1 DEF DeleteTail, typing
<1> HIDE DEF S
<1>6. AllOwned(Then(DeleteSummary(a), S)) /\ IsProg(Then(DeleteSummary(a), S))
  BY <1>5, OwnedChange, OpChanges
<1>7. /\ AllOwned(Then(ResetASWritten(a), Then(DeleteSummary(a), S)))
      /\ IsProg(Then(ResetASWritten(a), Then(DeleteSummary(a), S)))
  BY <1>6, OwnedChange, OpChanges
<1>8. AllOwned(removed) /\ AllOwned(dropped) /\ IsProg(removed) /\ IsProg(dropped)
  BY <1>5, <1>6, <1>7
<1> HIDE DEF removed, dropped
<1>9. QED
  BY <1>1, <1>2, <1>3, <1>4, <1>5, <1>8

(* A deletion: its erases, and that. *)
LEMMA OwnedDelete ==
    ASSUME Core, NEW ctx, IsProg(ctx), AllOwned(ctx), OpRuns(ctx),
           lastOp.op \in {"deleteArea", "deleteAreaContents"}
    PROVE  AllOwned(prog)
<1>n. ~NoOp
  BY DEF NoOp
<1>1. CASE Erases
  <2>1. PICK pos, a : pos = ErasedPos /\ a = lastOp.area
    OBVIOUS
  <2>2. PICK rest : rest = Then(IncreaseErasecount(a), Behind("increaseErasecount", ctx))
    OBVIOUS
  <2>3. PICK k \in 0 .. BlocksPerArea : prog = Cat(EraseFrom(pos, k), rest)
    BY <1>1, <2>1, <2>2 DEF OpRuns, Cat
  <2>4. /\ AllOwned(Behind("increaseErasecount", ctx))
        /\ IsProg(Behind("increaseErasecount", ctx))
    BY BehindIs, OwnedDrop
  <2>5. AllOwned(rest) /\ IsProg(rest)
    BY <2>2, <2>4, OwnedChange, OpChanges
  <2>6. QED
    BY <2>3, <2>5, OwnedErases
<1>2. CASE ~Erases
  <2>1. /\ prog = Cat(ResumeOperation(map, sum, lastOp, ext), ctx)
        /\ lastOp.op = "deleteArea" =>
              ext \in {"increaseErasecount", "reset", "remove", "status", "type", "usedAreas"}
        /\ lastOp.op = "deleteAreaContents" => ext \in {"increaseErasecount", "reset", "remove"}
    BY <1>2, <1>n, CoreParts, BehindExt DEF OpRuns, DeleteOK, ContentsOK, Erases
  <2>2. QED
    BY <2>1, OwnedDrop
<1>3. QED
  BY <1>1, <1>2

(* An operation sets no summary and scans no area; what follows it may. *)
LEMMA OwnedRuns ==
    \A ctx : IsProg(ctx) => (Core /\ OpRuns(ctx) /\ AllOwned(ctx) => AllOwned(prog))
<1>1. SUFFICES ASSUME NEW ctx, IsProg(ctx), Core, OpRuns(ctx), AllOwned(ctx)
               PROVE  AllOwned(prog)
  OBVIOUS
<1>2. lastOp.op \in {"initAreaAs", "closeArea", "deleteArea", "deleteAreaContents"}
  BY <1>1, CoreParts DEF OpRuns, OpOK, NoOp
<1>3. QED
  BY <1>1, <1>2, OwnedInit, OwnedDelete

(* A calm step to a program that has been looked at. *)
LEMMA CalmGoes ==
    ASSUME Core, Core', Inv', NoLeaks, Calm, SameTx, NEW r, prog' = r, AllOwned(r),
           addr' = addr, phase' = phase, found' = found,
           \A a \in Area, p \in Page : logged'[a][p] = "used" => logged[a][p] = "used",
           CopiesOwned', RevertsKnown'
    PROVE  NoLeaks'
<1>1. AllOwned(r)'
  BY OwnedStays
<1>2. AllOwned(prog)'
  BY <1>1 DEF AllOwned
<1>3. QED
  BY <1>2, CalmStep

(* An operation that is announced leaks no page. *)
LEMMA StartLeaksNone ==
    ASSUME Core, Core', Inv', NoLeaks, Calm, NEW x, OpStarts(x), NEW y, NEW r, IsProg(r),
           prog = Then(y, r), OpRuns(r)', CopiesOwned', RevertsKnown'
    PROVE  NoLeaks'
<1>1. SameTx /\ SameStatus /\ addr' = addr /\ phase' = phase /\ found' = found
  BY StartFrame DEF SameRest
<1>2. AllOwned(r)
  BY OwnedThen DEF NoLeaks
<1>3. AllOwned(r)'
  BY <1>1, <1>2, OwnedStays
<1>4. (\A ctx : IsProg(ctx) => (Core /\ OpRuns(ctx) /\ AllOwned(ctx) => AllOwned(prog)))'
  BY OwnedRuns, PTL
<1>5. AllOwned(prog)'
  BY <1>3, <1>4
<1>6. QED
  BY <1>1, <1>5, CalmStep DEF SameStatus

(* The copies of a move while its operation starts. *)
LEMMA StartCopies ==
    ASSUME NoLeaks, NEW x, OpStarts(x),
           mv = "swappedPosition" \/ (mv = "moveValidData" /\ phase = "garbage"),
           mv' = "deletedOldArea"
    PROVE  CopiesOwned' /\ RevertsKnown'
<1>1. addr' = addr /\ phase' = phase /\ found' = found /\ flash' = flash /\ map' = map
      /\ target' = target
  BY StartFrame DEF SameRest
<1>2. Reverting' <=> Reverting
  BY <1>1 DEF Reverting
<1>3. \A a, p : Owned(a, p)' <=> Owned(a, p)
  BY <1>1 DEF Owned
<1>4. RevertsKnown'
  BY DEF RevertsKnown
<1>5. CASE mv = "swappedPosition"
  BY <1>1, <1>2, <1>3, <1>4, <1>5 DEF NoLeaks, CopiesOwned
<1>6. CASE mv = "moveValidData" /\ phase = "garbage"
  BY <1>2, <1>4, <1>6 DEF NoLeaks, RevertsKnown, CopiesOwned
<1>7. QED
  BY <1>5, <1>6

(* Instructions that set no summary and scan no area. *)
LEMMA PlainEntries ==
    /\ \A t : EntryOwned(Checkpoint(t)) /\ EntryOwned(ManageActiveAreaFull(t))
    /\ \A f : EntryOwned(NewPageFor(f))
    /\ \A a, t : EntryOwned(InitAreaAs(a, t)) /\ EntryOwned(AfterDelete(a, t))
    /\ \A a : EntryOwned(DeleteArea(a)) /\ EntryOwned(CloseArea(a))
    /\ \A a : EntryOwned(MoveValidData(a)) /\ EntryOwned(WriteSummary(a)) /\ EntryOwned(Commit(a))
    /\ \A a, b : EntryOwned(DeleteAreaContents(a, b)) /\ EntryOwned(Swap(a, b))
    /\ \A a, b, p : EntryOwned(CopyPage(a, b, p))
    /\ \A x, y : EntryOwned(ReplacePage(x, y)) /\ EntryOwned(SetStatus(x, y))
    /\ \A x : EntryOwned(WritePage(x))
    /\ \A f, x : EntryOwned(UpdateInode(f, x))
    /\ EntryOwned(InvalidateOldPages) /\ EntryOwned(AfterMove)
    /\ EntryOwned(CommitSuperIndex) /\ EntryOwned(ClearJournal)
BY DEF EntryOwned, Checkpoint, ManageActiveAreaFull, NewPageFor, InitAreaAs, AfterDelete,
       DeleteArea, CloseArea, MoveValidData, WriteSummary, Commit, DeleteAreaContents, Swap,
       CopyPage, ReplacePage, SetStatus, WritePage, UpdateInode, InvalidateOldPages, AfterMove,
       CommitSuperIndex, ClearJournal

(* A summary that names pages of files only. *)
BlockOwned(a, s) == \A p \in Page : s[p] = "used" => Owned(a, p)

(* An entry that sets such a summary is an owned one. *)
LEMMA BlockEntry ==
    ASSUME NEW a, NEW s
    PROVE  EntryOwned(SetStatusBlock(a, s)) <=> BlockOwned(a, s)
BY DEF EntryOwned, SetStatusBlock, BlockOwned

(* The programs of calls. *)
LEMMA OwnedProgs ==
    /\ AllOwned(NoProg) /\ AllOwned(CpData) /\ AllOwned(FullIndex) /\ AllOwned(FullData)
    /\ AllOwned(CpGarbage) /\ AllOwned(Clear) /\ AllOwned(CpSum) /\ AllOwned(Invalidate)
    /\ \A f : AllOwned(PageFor(f)) /\ AllOwned(GcEnd(f))
    /\ \A a, r : IsProg(r) /\ AllOwned(r) => AllOwned(InitFor(a, r))
    /\ \A f, a : AllOwned(AfterDel(f, a))
    /\ \A old : AllOwned(RetireTail(old))
    /\ \A f, neu, old : AllOwned(Tx4(f, neu, old)) /\ AllOwned(Tx3(f, neu, old))
                        /\ AllOwned(Tx2(f, neu, old)) /\ AllOwned(Tx1(f, neu, old))
<1>1. AllOwned(NoProg)
  BY DEF AllOwned, NoProg
<1>2. AllOwned(CpData) /\ AllOwned(CpGarbage) /\ AllOwned(Clear)
  BY <1>1, OwnedThen, PlainEntries, Progs DEF CpData, CpGarbage, Clear
<1>3. AllOwned(CpSum) /\ AllOwned(FullIndex)
  BY <1>2, OwnedThen, PlainEntries, Progs DEF CpSum, FullIndex
<1>4. AllOwned(FullData)
  <2>1. FullData = Then(ManageActiveAreaFull("data"), FullIndex)
    BY DEF FullData, FullIndex
  <2>2. QED
    BY <1>3, <2>1, OwnedThen, PlainEntries, Progs
<1>5. AllOwned(Invalidate)
  <2>1. AllOwned(Behind1)
    BY <1>2, <1>4 DEF Behind1
  <2>2. QED
    BY <2>1, OwnedThen, PlainEntries, Progs DEF Invalidate
<1>6. ASSUME NEW f PROVE AllOwned(PageFor(f)) /\ AllOwned(GcEnd(f))
  <2>1. AllOwned(PageFor(f))
    BY <1>1, OwnedThen, PlainEntries, Progs DEF PageFor
  <2>2. QED
    BY <2>1, OwnedThen, PlainEntries, Progs DEF GcEnd
<1>7. \A a, r : IsProg(r) /\ AllOwned(r) => AllOwned(InitFor(a, r))
  BY OwnedThen, PlainEntries DEF InitFor
<1>8. \A f, a : AllOwned(AfterDel(f, a))
  BY <1>6, OwnedThen, PlainEntries, Progs DEF AfterDel
<1>9. ASSUME NEW old PROVE AllOwned(RetireTail(old))
  <2>1. AllOwned(Then(InvalidateOldPages, CpData)) /\ IsProg(Then(InvalidateOldPages, CpData))
    BY <1>2, OwnedThen, PlainEntries, Progs, ThenFacts
  <2>2. AllOwned(Then(SetStatus(old, "dirty"), Then(InvalidateOldPages, CpData)))
    BY <2>1, OwnedThen, PlainEntries
  <2>3. QED
    BY <1>2, <2>2 DEF RetireTail
<1>10. ASSUME NEW f, NEW neu, NEW old
       PROVE  /\ AllOwned(Tx4(f, neu, old)) /\ AllOwned(Tx3(f, neu, old))
              /\ AllOwned(Tx2(f, neu, old)) /\ AllOwned(Tx1(f, neu, old))
  <2>1. AllOwned(Tx4(f, neu, old))
    BY <1>9, OwnedThen, PlainEntries, Progs DEF Tx4
  <2>2. AllOwned(Tx3(f, neu, old))
    BY <2>1, OwnedThen, PlainEntries, Progs DEF Tx3
  <2>3. AllOwned(Tx2(f, neu, old))
    BY <2>2, OwnedThen, PlainEntries, Progs DEF Tx2
  <2>4. QED
    BY <2>1, <2>2, <2>3, OwnedThen, PlainEntries, Progs DEF Tx1
<1>11. QED
  BY <1>1, <1>2, <1>3, <1>4, <1>5, <1>6, <1>7, <1>8, <1>9, <1>10

(* The program of a move sets the summary of the area that moves. *)
LEMMA OwnedMove ==
    ASSUME NEW f, NEW a, NEW b, NEW s, BlockOwned(a, s)
    PROVE  /\ AllOwned(Move4(f, a, s)) /\ AllOwned(Move3(f, a, s))
           /\ AllOwned(Move2(f, a, b, s)) /\ AllOwned(Move1(f, a, b, s))
<1>1. AllOwned(Move4(f, a, s))
  <2>1. AllOwned(InitFor(a, GcEnd(f))) /\ IsProg(InitFor(a, GcEnd(f)))
    BY OwnedProgs, Progs
  <2>2. QED
    BY <2>1, OwnedThen, BlockEntry DEF Move4
<1>2. AllOwned(Move3(f, a, s))
  BY <1>1, OwnedThen, PlainEntries, Progs DEF Move3
<1>3. AllOwned(Move2(f, a, b, s))
  BY <1>2, OwnedThen, PlainEntries, Progs DEF Move2
<1>4. QED
  BY <1>1, <1>2, <1>3, OwnedThen, PlainEntries, Progs DEF Move1

(* A move's program says what summary it sets. *)
LEMMA MoveBlock ==
    ASSUME NEW f, NEW a, NEW b, NEW s,
           \/ AllOwned(Move4(f, a, s)) \/ AllOwned(Move3(f, a, s))
           \/ AllOwned(Move2(f, a, b, s)) \/ AllOwned(Move1(f, a, b, s))
    PROVE  BlockOwned(a, s)
<1>1. AllOwned(Move1(f, a, b, s)) => AllOwned(Move2(f, a, b, s))
  BY OwnedThen, Progs DEF Move1
<1>2. AllOwned(Move2(f, a, b, s)) => AllOwned(Move3(f, a, s))
  BY OwnedThen, Progs DEF Move2
<1>3. AllOwned(Move3(f, a, s)) => AllOwned(Move4(f, a, s))
  BY OwnedThen, Progs DEF Move3
<1>4. AllOwned(Move4(f, a, s)) => BlockOwned(a, s)
  BY OwnedThen, BlockEntry, Progs DEF Move4
<1>5. QED
  BY <1>1, <1>2, <1>3, <1>4
(* While no page is replaced, a step that leaves the pages alone leaks none. *)
LEMMA QuietGoes ==
    ASSUME Core, Core', Inv', NoLeaks, ~replaced, SameTx, NEW r, prog' = r, AllOwned(r),
           addr' = addr, phase' = phase, found' = found, logged' = logged,
           CopiesOwned', RevertsKnown'
    PROVE  NoLeaks'
<1>1. Calm
  BY DEF Calm, Open
<1>2. \A a \in Area, p \in Page : logged'[a][p] = "used" => logged[a][p] = "used"
  OBVIOUS
<1>3. QED
  BY <1>1, <1>2, CalmGoes

(* A summary that names used pages only names those of files. *)
LEMMA UsedBlock ==
    ASSUME Core, NoLeaks, ~Open, NEW a \in Area, NEW s,
           \A p \in Page : s[p] = "used" => logged[a][p] = "used"
    PROVE  BlockOwned(a, s)
BY KnownIs DEF NoLeaks, UsedOwned, BlockOwned

(* Copying the pages of an area names no page as used. *)
LEMMA OwnedCopies ==
    ASSUME Core, NEW a \in Area, NEW b, NEW n \in Nat, NEW r, IsProg(r), AllOwned(r)
    PROVE  AllOwned(moveValidData(a, b, n) \o r)
<1>1. SummaryOf(map, sum, a) \in [Page -> SummaryEntry]
  BY CoreParts
<1>2. CASE moveValidData(a, b, n) = Nil
  BY <1>2, ProgFacts DEF Nil
<1>3. ASSUME NEW q \in Page, moveValidData(a, b, n) = <<CopyPage(a, b, q)>>
      PROVE  AllOwned(moveValidData(a, b, n) \o r)
  <2>1. moveValidData(a, b, n) \o r = Then(CopyPage(a, b, q), r)
    BY <1>3, ThenOne
  <2>2. QED
    BY <2>1, PlainEntries, OwnedThen
<1>4. QED
  BY <1>1, <1>2, <1>3, CopiesFrom

(* A program that moves an area. *)
LEMMA OwnedMoving ==
    ASSUME Core, NEW f, NEW a \in Area, NEW b, NEW s, BlockOwned(a, s)
    PROVE  AllOwned(Then(MoveValidData(a), moveValidData(a, b, 0) \o Move1(f, a, b, s)))
<1>1. IsProg(Move1(f, a, b, s)) /\ AllOwned(Move1(f, a, b, s))
  BY Progs, OwnedMove
<1>2. AllOwned(moveValidData(a, b, 0) \o Move1(f, a, b, s))
  BY <1>1, OwnedCopies
<1>3. IsProg(moveValidData(a, b, 0))
  <2>1. SummaryOf(map, sum, a) \in [Page -> SummaryEntry]
    BY CoreParts
  <2>2. QED
    BY <2>1, CopiesFrom, CatFacts
<1>4. IsProg(moveValidData(a, b, 0) \o Move1(f, a, b, s))
  BY <1>1, <1>3, CatFacts DEF Cat
<1>5. QED
  BY <1>2, <1>4, OwnedThen, PlainEntries

(* A call whose program has been looked at starts. *)
LEMMA StartGoes ==
    ASSUME Core, Core', Inv', NoLeaks, Ready, Quiet, Room, NEW p, Start(p), AllOwned(p)
    PROVE  NoLeaks'
<1>1. SameState /\ prog' = p /\ phase' = "run" /\ phase = "run" /\ found' = found /\ Quiet'
  BY StartCall DEF Start, Ready, Idle
<1>2. CopiesOwned' /\ RevertsKnown'
  BY <1>1, NoCopies DEF Quiet
<1>3. SameTx /\ ~replaced /\ addr' = addr /\ logged' = logged /\ phase' = phase
  BY <1>1 DEF SameState, SameStatus, Quiet
<1>4. QED
  BY <1>1, <1>2, <1>3, QuietGoes

(* A page is written. *)
LEMMA WriteLeaksNone ==
    ASSUME Core, Core', Inv', NoLeaks, Quiet, Room, NEW f \in FilePage, Write(f)
    PROVE  NoLeaks'
<1>1. PICK r \in findWritableArea("data") : Ready /\ Start(r \o <<NewPageFor(f)>>)
  BY DEF Write
<1>2. <<NewPageFor(f)>> = PageFor(f)
  BY ThenTuples DEF PageFor, NoProg
<1>3. PICK p : p = Cat(r, PageFor(f))
  OBVIOUS
<1>4. Start(p)
  BY <1>1, <1>2, <1>3 DEF Cat
<1>5. IsProg(PageFor(f)) /\ AllOwned(PageFor(f))
  BY Progs, OwnedProgs
<1>6. ASSUME r = Nil PROVE AllOwned(p)
  <2>1. p = PageFor(f)
    BY <1>3, <1>5, <1>6, CatFacts
  <2>2. QED
    BY <1>5, <2>1
<1>7. ASSUME NEW a, r = <<InitAreaAs(a, "data")>>
      PROVE  AllOwned(p)
  <2>1. p = InitFor(a, PageFor(f))
    BY <1>3, <1>5, <1>7, ThenOne DEF InitFor, Cat
  <2>2. QED
    BY <2>1, <1>5, OwnedProgs
<1>8. ASSUME NEW a, r = <<DeleteArea(a), AfterDelete(a, "data")>>
      PROVE  AllOwned(p)
  <2> DEFINE x == DeleteArea(a)
             y == AfterDelete(a, "data")
  <2>1. p = Then(x, Then(y, PageFor(f)))
    <3>1. p = <<x, y>> \o PageFor(f)
      BY <1>3, <1>8 DEF Cat
    <3> HIDE DEF x, y
    <3>2. QED
      BY <3>1, <1>5, ThenTwo
  <2>2. p = Then(DeleteArea(a), AfterDel(f, a))
    BY <2>1 DEF AfterDel
  <2>3. IsProg(AfterDel(f, a)) /\ AllOwned(AfterDel(f, a)) /\ EntryOwned(DeleteArea(a))
    BY Progs, OwnedProgs, PlainEntries
  <2>4. QED
    BY <2>2, <2>3, OwnedThen
<1>9. ASSUME NEW a \in Area \ {0}, r = MovingGarbage(a, "data"),
             MoveReady(a, Cleaned(SummaryOf(map, sum, a)))
      PROVE  AllOwned(p)
  <2>1. PICK b, s : b = buffer /\ s = Cleaned(SummaryOf(map, sum, a))
    OBVIOUS
  <2>2. IsProg(moveValidData(a, b, 0))
    <3>1. SummaryOf(map, sum, a) \in [Page -> SummaryEntry]
      BY CoreParts
    <3>2. QED
      BY <3>1, CopiesFrom, CatFacts
  <2>3. p = Then(MoveValidData(a), moveValidData(a, b, 0) \o Move1(f, a, b, s))
    BY <1>3, <1>9, <2>1, <2>2, MovingIs
  <2>4. BlockOwned(a, s)
    BY <1>9, <2>1, UsedBlock DEF MoveReady, Quiet, Open
  <2>5. QED
    BY <2>3, <2>4, OwnedMoving
<1>10. AllOwned(p)
  BY <1>6, <1>7, <1>8, <1>9, RoomFor
<1>11. QED
  BY <1>1, <1>4, <1>10, StartGoes

(* A page is cut off a file. *)
LEMMA DeleteLeaksNone ==
    ASSUME Core, Core', Inv', NoLeaks, Quiet, Room, NEW f \in FilePage, Delete(f)
    PROVE  NoLeaks'
<1>1. PICK old \in Addr : old = addr[f] /\ old # NoAddr
  BY CoreParts DEF FilesOK, Delete
<1> DEFINE x == ReplacePage(NoAddr, old)
           y == UpdateInode(f, NoAddr)
<1>2. PICK p : p = <<x, y>> \o RetireTail(old)
  OBVIOUS
<1>3. Ready /\ Start(p)
  BY <1>1, <1>2, RetireIs DEF Delete
<1>4. IsProg(RetireTail(old))
  BY Progs
<1>5. p = Then(x, Then(y, RetireTail(old)))
  <2> HIDE DEF x, y
  <2>1. QED
    BY <1>2, <1>4, ThenTwo
<1>6. p = Then(x, Tx4(f, NoAddr, old))
  BY <1>5 DEF Tx4
<1>7. IsProg(Tx4(f, NoAddr, old)) /\ AllOwned(Tx4(f, NoAddr, old)) /\ EntryOwned(x)
  BY Progs, OwnedProgs, PlainEntries
<1>8. AllOwned(p)
  BY <1>6, <1>7, OwnedThen
<1>9. QED
  BY <1>3, <1>8, StartGoes

(* The caches are flushed. *)
LEMMA FlushLeaksNone ==
    ASSUME Core, Core', Inv', NoLeaks, Quiet, Room, Flush
    PROVE  NoLeaks'
<1>1. PICK p : p = <<CommitSuperIndex, Checkpoint("summaryCache"), ClearJournal>>
  OBVIOUS
<1>2. Ready /\ Start(p)
  BY <1>1 DEF Flush
<1>3. p = Then(CommitSuperIndex, CpSum)
  BY <1>1, ThenTuples DEF CpSum, Clear, NoProg
<1>4. IsProg(CpSum) /\ AllOwned(CpSum) /\ EntryOwned(CommitSuperIndex)
  BY Progs, OwnedProgs, PlainEntries
<1>5. AllOwned(p)
  BY <1>3, <1>4, OwnedThen
<1>6. QED
  BY <1>2, <1>5, StartGoes

(* A call starts. *)
LEMMA IdleLeaksNone ==
    ASSUME Core, Core', Inv', NoLeaks, phase = "run", prog = NoProg, Quiet, Room, Next, ~PowerLoss
    PROVE  NoLeaks'
<1>1. prog = <<>>
  BY DEF NoProg
<1>2. ~Step
  BY <1>1, NoStep
<1>3. (\E f \in FilePage : Write(f) \/ Delete(f)) \/ Flush
  BY <1>2 DEF Next
<1>4. QED
  BY <1>3, WriteLeaksNone, DeleteLeaksNone, FlushLeaksNone

(* The replacing of a page is announced. *)
LEMMA ReplaceLeaksNone ==
    ASSUME Core, Core', Inv', NoLeaks, Quiet, phase = "run", NoteEffect, SameMove,
           replaced', ~updated', NEW r, prog' = r, AllOwned(r)
    PROVE  NoLeaks'
<1>1. logged' = logged /\ addr' = addr /\ phase' = phase /\ found' = found
  BY NoteFrame
<1>2. UsedOwned'
  <2>1. SUFFICES ASSUME NEW a \in Area, NEW p \in Page, known'[a][p] = "used"
                 PROVE  Owned(a, p)'
    BY DEF UsedOwned
  <2>2. Core' => (known = logged)'
    BY KnownIs, PTL
  <2>3. known[a][p] = "used"
    BY <1>1, <2>1, <2>2, KnownIs
  <2>4. Owned(a, p)
    BY <2>3 DEF NoLeaks, UsedOwned, Quiet, Open
  <2>5. QED
    BY <1>1, <2>4 DEF Owned
<1>3. RetiresPending'
  <2>1. Calm'
    BY <1>1 DEF Calm
  <2>2. (Inv /\ Calm)' => RetiresPending'
    BY CalmRetires, PTL
  <2>3. QED
    BY <2>1, <2>2
<1>4. AllOwned(prog)'
  <2>1. AllOwned(r)'
    BY <1>1, OwnedStays
  <2>2. QED
    BY <2>1 DEF AllOwned
<1>5. CopiesOwned' /\ RevertsKnown'
  <2>1. mv' = "ok"
    BY DEF SameMove, Quiet
  <2>2. QED
    BY <2>1, NoCopies
<1>6. QED
  BY <1>2, <1>3, <1>4, <1>5 DEF NoLeaks

(* The next page of a file. *)
LEMMA PageLeaksNone ==
    ASSUME Core, Core', Inv', NoLeaks, Quiet, phase = "run", NEW f \in FilePage,
           prog = PageFor(f), Next, ~PowerLoss
    PROVE  NoLeaks'
<1>1. PICK old : old = addr[f]
  OBVIOUS
<1>2. CASE prog' = NoProg /\ UNCHANGED <<flashVars, index, log, ramVars, phase, found, ops>>
  <2>1. ops' \in 0 .. MaxOps
    BY <1>2, CoreParts DEF InFlash
  <2>2. SameState
    BY <1>2, <2>1, StateSame
  <2>3. SameTx /\ logged' = logged /\ addr' = addr /\ mv' = "ok" /\ ~replaced
    BY <2>2 DEF SameState, SameStatus, SameMove, Quiet
  <2>4. AllOwned(NoProg) /\ CopiesOwned' /\ RevertsKnown'
    BY <2>3, OwnedProgs, NoCopies
  <2>5. QED
    BY <1>2, <2>3, <2>4, QuietGoes
<1>3. ASSUME NEW ad \in Addr, NoteEffect, SameMove, replaced', ~updated', prog' = Tx1(f, ad, old)
      PROVE  NoLeaks'
  <2>1. AllOwned(Tx1(f, ad, old))
    BY OwnedProgs
  <2>2. QED
    BY <1>3, <2>1, ReplaceLeaksNone
<1>4. QED
  BY <1>1, <1>2, <1>3, PageAnnounced

(* Looking for room for a page. *)
LEMMA RoomLeaksNone ==
    ASSUME Careful, Core, Core', Inv', NoLeaks, phase = "run", prog # NoProg, RunRoom,
           Next, ~PowerLoss
    PROVE  NoLeaks'
<1>1. PICK f \in FilePage :
       \/ prog = PageFor(f) /\ Quiet /\ Room
       \/ \E a \in Area \ {0} :
          \/ /\ prog = InitFor(a, PageFor(f))
             /\ Quiet /\ NoActive /\ map.type[a] = "unset"
          \/ /\ prog = Then(DeleteArea(a), AfterDel(f, a))
             /\ Quiet /\ NoActive /\ map.type[a] = "data" /\ Dead(a)
          \/ /\ prog = AfterDel(f, a)
             /\ Quiet /\ NoActive /\ map.type[a] = "unset"
          \/ /\ prog = InitFor(a, GcEnd(f))
             /\ NoOp /\ ~replaced /\ NoActive
             /\ \/ mv = "ok" /\ map.type[a] = "unset"
                \/ mv = "setNewSummary" /\ target = a /\ FreePage(a)
       \/ /\ prog = GcEnd(f)
          /\ NoOp /\ ~replaced /\ Room /\ mv \in {"ok", "setNewSummary"}
  BY DEF RunRoom
<1>2. ~replaced /\ Calm
  BY <1>1 DEF Calm, Open, Quiet
<1>3. CASE prog = PageFor(f) /\ Quiet
  BY <1>3, PageLeaksNone
<1>4. ASSUME NEW a \in Area \ {0}, NEW ctx, IsProg(ctx), prog = InitFor(a, ctx),
             NoOp, NoActive,
             \/ mv = "ok" /\ map.type[a] = "unset"
             \/ mv = "setNewSummary" /\ target = a
      PROVE  NoLeaks'
  <2>1. prog = Then(InitAreaAs(a, "data"), ctx)
    BY <1>4 DEF InitFor
  <2>2. OpStarts(InitAreaAs(a, "data")) /\ mv' = mv /\ OpRuns(ctx)'
    BY <1>2, <1>4, <2>1, InitRuns
  <2>3. CopiesOwned' /\ RevertsKnown'
    BY <1>4, <2>2, NoCopies
  <2>4. QED
    BY <1>2, <1>4, <2>1, <2>2, <2>3, StartLeaksNone
<1>5. ASSUME NEW a \in Area \ {0}, prog = Then(DeleteArea(a), AfterDel(f, a)),
             Quiet, NoActive, map.type[a] = "data", Dead(a)
      PROVE  NoLeaks'
  <2>1. OpStarts(DeleteArea(a)) /\ mv' = "ok" /\ OpRuns(AfterDel(f, a))' /\ IsProg(AfterDel(f, a))
    BY <1>5, DeleteRuns, Progs
  <2>2. CopiesOwned' /\ RevertsKnown'
    BY <2>1, NoCopies
  <2>3. QED
    BY <1>2, <1>5, <2>1, <2>2, StartLeaksNone
<1>6. ASSUME NEW a \in Area \ {0}, prog = AfterDel(f, a), Quiet, NoActive, map.type[a] = "unset"
      PROVE  NoLeaks'
  <2>1. PICK b : b = buffer
    OBVIOUS
  <2>2. /\ log' = Append(log, Swap(a, b)) /\ map' = Applied(map, Swap(a, b))
        /\ prog' = Then(InitAreaAs(a, "data"), Then(Checkpoint("garbage"), PageFor(f)))
        /\ UNCHANGED <<flashVars, index, sum, addr, phase, found, bounds>>
    BY <1>6, <2>1, ExecAfterDelete, Progs DEF AfterDel
  <2>3. MapEntry(Swap(a, b))
    BY <2>2, CoreParts DEF MapEntry, Grows, Swap, MapOp
  <2>4. SameTx /\ mv' = "ok"
    BY <1>6, <2>1, <2>3, SwapDeleted DEF Quiet
  <2>5. logged' = logged
    <3>1. a # b /\ map.pos[a] \notin asWritten
      BY <1>6, <2>1, CoreParts DEF FixedAreas, WrittenPages
    <3>2. QED
      BY <1>6, <2>1, <2>3, <3>1, SwapEntry DEF SameStatus, Quiet
  <2>6. prog' = InitFor(a, GcEnd(f)) /\ addr' = addr /\ phase' = phase /\ found' = found
    BY <2>2 DEF InitFor, GcEnd
  <2>7. AllOwned(InitFor(a, GcEnd(f)))
    BY Progs, OwnedProgs
  <2>8. CopiesOwned' /\ RevertsKnown'
    BY <2>4, NoCopies
  <2>9. QED
    BY <1>2, <2>4, <2>5, <2>6, <2>7, <2>8, QuietGoes
<1>7. CASE prog = GcEnd(f) /\ NoOp /\ mv \in {"ok", "setNewSummary"}
  <2>1. NoteEntry(Checkpoint("garbage")) /\ prog' = PageFor(f)
    BY <1>7, ExecNoteEntry, Progs, NoteOps, CoreParts DEF GcEnd
  <2>2. NoteEffect /\ SameTx /\ mv' = "ok"
    BY <1>7, <2>1, GarbageCheckpoint
  <2>3. logged' = logged /\ addr' = addr /\ phase' = phase /\ found' = found
    BY <2>2, NoteFrame
  <2>4. AllOwned(PageFor(f)) /\ CopiesOwned' /\ RevertsKnown'
    BY <2>2, OwnedProgs, NoCopies
  <2>5. QED
    BY <1>2, <2>1, <2>2, <2>3, <2>4, QuietGoes
<1>8. IsProg(PageFor(f)) /\ IsProg(GcEnd(f))
  BY Progs
<1>9. QED
  BY <1>1, <1>3, <1>4, <1>5, <1>6, <1>7, <1>8 DEF Quiet

(* The area that moved gets the summary of its pages. *)
LEMMA BlockLeaksNone ==
    ASSUME Core, Core', Inv', NoLeaks, NoOp, mv = "deletedOldArea", NEW a, a = target, NEW s,
           CleanOK(a, s), SumEntry(SetStatusBlock(a, s)), NEW r, IsProg(r),
           prog = Then(SetStatusBlock(a, s), r), prog' = r
    PROVE  NoLeaks'
<1>1. /\ mv' = "setNewSummary" /\ SameTx /\ SameRest /\ addr' = addr /\ ~replaced
      /\ logged'[a] = s /\ \A b \in Area : b # a => logged'[b] = logged[b]
  BY BlockStep
<1>2. Calm /\ Calm' /\ ~Open
  BY <1>1, CalmStays DEF Calm, Open, SameRest
<1>3. BlockOwned(a, s) /\ AllOwned(r)
  BY OwnedThen, BlockEntry DEF NoLeaks
<1>4. UsedOwned'
  <2>1. SUFFICES ASSUME NEW b \in Area, NEW p \in Page, known'[b][p] = "used"
                 PROVE  Owned(b, p)'
    BY DEF UsedOwned
  <2>2. Core' => (known = logged)'
    BY KnownIs, PTL
  <2>3. logged'[b][p] = "used"
    BY <2>1, <2>2
  <2>4. CASE b = a
    BY <1>1, <1>3, <2>3, <2>4 DEF BlockOwned, Owned
  <2>5. CASE b # a
    <3>1. known[b][p] = "used"
      BY <1>1, <2>3, <2>5, KnownIs
    <3>2. Owned(b, p)
      BY <1>2, <3>1 DEF NoLeaks, UsedOwned
    <3>3. QED
      BY <1>1, <3>2 DEF Owned
  <2>6. QED
    BY <2>4, <2>5
<1>5. RetiresPending'
  <2>1. (Inv /\ Calm)' => RetiresPending'
    BY CalmRetires, PTL
  <2>2. QED
    BY <1>2, <2>1
<1>6. AllOwned(prog)'
  <2>1. AllOwned(r)'
    BY <1>1, <1>3, OwnedStays DEF SameRest
  <2>2. QED
    BY <2>1 DEF AllOwned
<1>7. CopiesOwned' /\ RevertsKnown'
  BY <1>1, NoCopies
<1>8. QED
  BY <1>4, <1>5, <1>6, <1>7 DEF NoLeaks

(* A move is announced, and pages are copied. *)
LEMMA CopiesLeakNone ==
    ASSUME Core, Core', Inv', NoLeaks, NEW f \in FilePage, NEW a \in Area \ {0}, NEW b \in Area,
           b = buffer, NEW s \in [Page -> {"free", "used"}],
           \/ /\ prog = Then(MoveValidData(a), moveValidData(a, b, 0) \o Move1(f, a, b, s))
              /\ Quiet /\ MoveReady(a, s)
           \/ \E q \in Page :
              /\ prog = Then(CopyPage(a, b, q), Move1(f, a, b, s))
              /\ s[q] = "used" /\ CopiedUpto(a, b, s, q) /\ Moving(a, s),
           Next, ~PowerLoss, phase = "run"
    PROVE  NoLeaks'
<1>1. CASE /\ prog = Then(MoveValidData(a), moveValidData(a, b, 0) \o Move1(f, a, b, s))
           /\ Quiet /\ MoveReady(a, s)
  <2>1. PICK r : r = moveValidData(a, b, 0) \o Move1(f, a, b, s)
    OBVIOUS
  <2>2. IsProg(r)
    <3>1. SummaryOf(map, sum, a) \in [Page -> SummaryEntry]
      BY CoreParts
    <3>2. IsProg(moveValidData(a, b, 0))
      BY <3>1, CopiesFrom, CatFacts
    <3>3. IsProg(Move1(f, a, b, s))
      BY Progs
    <3>4. QED
      BY <2>1, <3>2, <3>3, CatFacts DEF Cat
  <2>3. NoteEntry(MoveValidData(a)) /\ prog' = r
    BY <1>1, <2>1, <2>2, ExecNoteEntry, NoteOps, CoreParts
  <2>4. NoteEffect /\ SameTx /\ mv' = "moveValidData"
    BY <1>1, <2>3, MoveStart
  <2>5. logged' = logged /\ addr' = addr /\ phase' = phase /\ found' = found /\ ~replaced
    BY <1>1, <2>4, NoteFrame DEF Quiet
  <2>6. AllOwned(r)
    BY <1>1, <2>1, <2>2, OwnedThen DEF NoLeaks
  <2>7. CopiesOwned' /\ RevertsKnown'
    BY <2>4, <2>5, NoCopies
  <2>8. QED
    BY <2>3, <2>4, <2>5, <2>6, <2>7, QuietGoes
<1>2. ASSUME NEW q \in Page, prog = Then(CopyPage(a, b, q), Move1(f, a, b, s)), Moving(a, s)
      PROVE  NoLeaks'
  <2>1. NoOp /\ mv = "moveValidData" /\ target = a /\ MoveReady(a, s) /\ ~replaced
    BY <1>2, ReplacesAlone DEF Moving
  <2>2. a # b /\ map.pos[a] # map.pos[b] /\ map.pos[a] \in Pos /\ map.pos[b] \in Pos
    BY <2>1, Elsewhere, CoreParts DEF MoveReady, FixedAreas
  <2>3. PICK m : m = Move1(f, a, b, s) /\ IsProg(m)
    BY Progs
  <2>n. PICK n \in Nat : n = q + 1
    BY Constants DEF Page
  <2>4. /\ flash' = PageCopied(a, b, q) /\ prog' = moveValidData(a, b, n) \o m
        /\ UNCHANGED <<asWritten, bad, index, log, ramVars, phase, found, bounds>>
    BY <1>2, <2>3, <2>n, ExecCopyPage
  <2>5. PICK r : r = moveValidData(a, b, n) \o m
    OBVIOUS
  <2>6. flash \in [Pos -> [Page -> Erased .. MaxOps]] /\ asWritten \subseteq Pos
    BY CoreParts DEF InFlash
  <2>7. /\ FlashStep /\ asWritten' = asWritten
        /\ \A p \in Pos : p # map.pos[b] => flash'[p] = flash[p]
    BY <2>2, <2>4, <2>6 DEF FlashStep, ramVars, bounds, PageCopied
  <2>8. SameStatus /\ SameMove /\ SameTx
    BY <2>1, <2>7, CopyStep
  <2>9. AllOwned(m)
    BY <1>2, <2>3, OwnedThen DEF NoLeaks
  <2>10. AllOwned(r)
    BY <2>3, <2>5, <2>9, OwnedCopies
  <2>11. mv' = "moveValidData" /\ phase' = "run" /\ addr' = addr /\ found' = found
         /\ logged' = logged /\ prog' = r
    BY <2>1, <2>4, <2>5, <2>8 DEF SameMove, SameStatus, ramVars
  <2>12. CopiesOwned' /\ RevertsKnown'
    BY <2>11, NoCopies
  <2>13. QED
    BY <2>1, <2>8, <2>10, <2>11, <2>12, QuietGoes
<1>3. QED
  BY <1>1, <1>2

(* The area trades places with the garbage buffer that has its pages. *)
LEMMA SwapLeaksNone ==
    ASSUME Core, Core', Inv', NoLeaks, NEW f \in FilePage, NEW a \in Area \ {0}, NEW b \in Area,
           b = buffer, NEW s \in [Page -> {"free", "used"}],
           prog = Move1(f, a, b, s), CopiedUpto(a, b, s, PagesPerArea), Moving(a, s),
           Next, ~PowerLoss, phase = "run"
    PROVE  NoLeaks'
<1>1. NoOp /\ mv = "moveValidData" /\ target = a /\ MoveReady(a, s) /\ ~replaced
  BY ReplacesAlone DEF Moving
<1>2. MapEntry(Swap(a, b)) /\ prog' = Move2(f, a, b, s)
  <2>1. Swap(a, b).op \in MapOp
    BY DEF Swap, MapOp
  <2>2. QED
    BY <2>1, ExecMapEntry, Progs, CoreParts DEF Move1
<1>3. a # b /\ map.pos[a] \notin asWritten
  BY <1>1, CoreParts DEF MoveReady, FixedAreas
<1>4. /\ SameTx /\ SameRest /\ SameStatus /\ flash' = flash /\ addr' = addr
      /\ map'.pos[a] = map.pos[b] /\ target' = a /\ mv' = "swappedPosition"
  BY <1>1, <1>2, <1>3, SwapEntry
<1>5. BlockOwned(a, s) /\ AllOwned(Move2(f, a, b, s))
  BY MoveBlock, OwnedMove DEF NoLeaks
<1>6. CopiesOwned' /\ RevertsKnown'
  <2>1. ASSUME NEW p \in Page, flash'[map'.pos[target']][p] # Erased PROVE Owned(a, p)
    <3>1. flash[map.pos[b]][p] # Erased
      BY <1>4, <2>1
    <3>2. s[p] = "used"
      BY <3>1 DEF CopiedUpto
    <3>3. QED
      BY <1>5, <3>2 DEF BlockOwned
  <2>2. \A p \in Page : Owned(a, p)' <=> Owned(a, p)
    BY <1>4 DEF Owned
  <2>3. QED
    BY <1>4, <2>1, <2>2 DEF CopiesOwned, RevertsKnown, SameRest
<1>7. QED
  BY <1>1, <1>2, <1>4, <1>5, <1>6, QuietGoes DEF SameRest, SameStatus

(* A move goes on. *)
LEMMA MoveLeaksNone ==
    ASSUME Careful, Core, Core', Inv', NoLeaks, phase = "run", RunMove, Next, ~PowerLoss
    PROVE  NoLeaks'
<1>1. PICK f \in FilePage, a \in Area \ {0}, b \in Area, s \in [Page -> {"free", "used"}] :
       /\ b = buffer
       /\ \/ /\ prog = Then(MoveValidData(a), moveValidData(a, b, 0) \o Move1(f, a, b, s))
             /\ Quiet /\ MoveReady(a, s)
          \/ \E q \in Page :
             /\ prog = Then(CopyPage(a, b, q), Move1(f, a, b, s))
             /\ s[q] = "used" /\ CopiedUpto(a, b, s, q) /\ Moving(a, s)
          \/ /\ prog = Move1(f, a, b, s)
             /\ CopiedUpto(a, b, s, PagesPerArea) /\ Moving(a, s)
          \/ prog = Move2(f, a, b, s) /\ Moved(a, s, "swappedPosition")
          \/ prog = Move3(f, a, s) /\ Moved(a, s, "deletedOldArea")
          \/ prog = Move4(f, a, s) /\ Moved(a, s, "deletedOldArea")
  BY DEF RunMove
<1>2. CASE prog = Move2(f, a, b, s) /\ Moved(a, s, "swappedPosition")
  <2>1. NoOp /\ mv = "swappedPosition" /\ target = a
    BY <1>2 DEF Moved
  <2>2. prog = Then(DeleteAreaContents(a, b), Move3(f, a, s)) /\ IsProg(Move3(f, a, s))
    BY <1>2, Progs DEF Move2
  <2>3. OpStarts(DeleteAreaContents(a, b)) /\ mv' = "deletedOldArea" /\ OpRuns(Move3(f, a, s))'
    BY <1>1, <2>1, <2>2, ContentsRuns
  <2>4. CopiesOwned' /\ RevertsKnown'
    BY <2>1, <2>3, StartCopies
  <2>5. Calm
    BY <2>1, ReplacesAlone DEF Calm, Open
  <2>6. QED
    BY <2>2, <2>3, <2>4, <2>5, StartLeaksNone
<1>3. CASE prog = Move3(f, a, s) /\ Moved(a, s, "deletedOldArea")
  <2>1. NoOp /\ mv = "deletedOldArea" /\ target = a
    BY <1>3 DEF Moved
  <2>2. map.type[buffer] # "retired"
    BY CoreParts DEF FixedAreas
  <2>3. prog = Then(AfterMove, Move4(f, a, s)) /\ IsProg(Move4(f, a, s))
    BY <1>3, Progs DEF Move3
  <2>4. /\ prog' = Move4(f, a, s)
        /\ UNCHANGED <<flashVars, index, log, ramVars, phase, found, bounds>>
    BY <2>2, <2>3, ExecAfterMove
  <2>5. UNCHANGED <<flashVars, index, log, ramVars>> /\ phase' = phase /\ ops' = ops
        /\ found' = found
    BY <2>4 DEF bounds
  <2>6. SameState
    BY <2>5, CoreParts, StateSame DEF InFlash
  <2>7. SameMove /\ SameTx /\ logged' = logged /\ addr' = addr /\ flash' = flash /\ map' = map
    BY <2>6 DEF SameState, SameStatus
  <2>8. CopiesOwned' /\ RevertsKnown'
    BY <2>5, <2>7, CopiesStay DEF NoLeaks, SameMove
  <2>9. AllOwned(Move4(f, a, s)) /\ ~replaced
    BY <2>1, <2>3, OwnedThen, ReplacesAlone DEF NoLeaks
  <2>10. QED
    BY <2>4, <2>5, <2>7, <2>8, <2>9, QuietGoes
<1>4. CASE prog = Move4(f, a, s) /\ Moved(a, s, "deletedOldArea")
  <2>1. NoOp /\ mv = "deletedOldArea" /\ target = a /\ CleanOK(a, s)
    BY <1>4 DEF Moved
  <2>2. prog = Then(SetStatusBlock(a, s), InitFor(a, GcEnd(f))) /\ IsProg(InitFor(a, GcEnd(f)))
    BY <1>4, Progs DEF Move4
  <2>3. SumEntry(SetStatusBlock(a, s)) /\ prog' = InitFor(a, GcEnd(f))
    <3>1. SetStatusBlock(a, s).op \in {"setStatusBlock", "remove", "reset", "commit"}
      BY DEF SetStatusBlock
    <3>2. QED
      BY <2>2, <3>1, ExecSumEntry, CoreParts
  <2>4. QED
    BY <2>1, <2>2, <2>3, BlockLeaksNone
<1>5. QED
  BY <1>1, <1>2, <1>3, <1>4, CopiesLeakNone, SwapLeaksNone


-----------------------------------------------------------------------------
(* Operations in a call, and the replacing of a page.                      *)

(* Operations run while nothing is replaced, or before the tree knows the new
   page. *)
LEMMA OpsLeakNone ==
    ASSUME Careful, Core, Core', Inv', NoLeaks, phase = "run", RunOp, Next, ~PowerLoss
    PROVE  NoLeaks'
<1>1. PICK f \in FilePage :
        \/ \E a \in Area \ {0} :
            \/ /\ OpRuns(PageFor(f)) /\ lastOp.op = "initAreaAs" /\ mv = "ok"
               /\ lastOp.area = a /\ FreePage(a)
            \/ /\ OpRuns(GcEnd(f)) /\ lastOp.op = "initAreaAs"
               /\ lastOp.area = a /\ FreePage(a)
            \/ OpRuns(AfterDel(f, a)) /\ lastOp.op = "deleteArea" /\ lastOp.area = a
            \/ \E s \in [Page -> {"free", "used"}] :
               /\ OpRuns(Move3(f, a, s)) /\ lastOp.op = "deleteAreaContents"
               /\ lastOp.area = a /\ target = a /\ a # lastOp.b
               /\ CleanOK(a, s) /\ HasFree(s)
        \/ \E neu \in Addr, old \in Addr \union {NoAddr} :
            /\ InTx(f, neu, old)
            /\ OpRuns(Tx4(f, neu, old)) /\ lastOp.op = "closeArea" /\ Written(neu)
  BY DEF RunOp
<1>2. Calm
  BY <1>1, ReplacesAlone DEF Calm, Open, InTx
<1>3. PICK ctx : IsProg(ctx) /\ OpRuns(ctx)
  BY <1>1, Progs
<1>4. QED
  BY <1>2, <1>3, OpLeaksNone

(* The page of a file is to go. *)
LEMMA GoneLeaksNone ==
    ASSUME Core, Inv', NoLeaks, NEW f \in FilePage, NEW old \in Addr \union {NoAddr},
           old = addr[f], Quiet, Room, prog = Then(ReplacePage(NoAddr, old), Tx4(f, NoAddr, old)),
           phase = "run", Next, ~PowerLoss
    PROVE  NoLeaks'
<1>1. /\ Core' /\ NoteEffect /\ SameMove /\ replaced' /\ ~updated'
      /\ prog' = Tx4(f, NoAddr, old)
  BY TxDeleteDoes
<1>2. AllOwned(Tx4(f, NoAddr, old))
  BY OwnedProgs
<1>3. QED
  BY <1>1, <1>2, ReplaceLeaksNone

(* The new page counts as used, and it is the one that a power loss would
   give up. *)
LEMMA NewLeaksNone ==
    ASSUME Core, Inv', NoLeaks, NEW f \in FilePage, NEW neu \in Addr,
           NEW old \in Addr \union {NoAddr},
           prog = Tx1(f, neu, old), InTx(f, neu, old), NoOp,
           map.active["data"] = neu[1], logged[neu[1]][neu[2]] = "free",
           phase = "run", Next, ~PowerLoss
    PROVE  NoLeaks'
<1>1. /\ Core' /\ SameMove /\ SameTx /\ SameRest /\ addr' = addr
      /\ logged' = [logged EXCEPT ![neu[1]] = [logged[neu[1]] EXCEPT ![neu[2]] = "used"]]
      /\ prog' = Tx2(f, neu, old)
  BY TxUsesDoes
<1>2. /\ Open /\ Pending = neu /\ Calm /\ mv = "ok"
      /\ neu = <<neu[1], neu[2]>> /\ neu[1] \in Area /\ neu[2] \in Page
      /\ phase' = phase /\ found' = found
  BY <1>1 DEF InTx, Open, Pending, Calm, Addr, SameRest
<1>3. Open' /\ Pending' = neu
  BY <1>1, <1>2, OpenStays
<1>4. UsedOwned'
  <2>1. SUFFICES ASSUME NEW a \in Area, NEW p \in Page, known'[a][p] = "used",
                        <<a, p>> # neu
                 PROVE  Owned(a, p)'
    BY <1>3 DEF UsedOwned
  <2>2. Core' => (known = logged)'
    BY KnownIs, PTL
  <2>3. logged'[a][p] = logged[a][p]
    <3>1. logged \in [Area -> [Page -> SummaryEntry]]
      BY CoreParts
    <3>2. CASE a = neu[1]
      <4>1. p # neu[2]
        BY <1>2, <2>1, <3>2
      <4>2. QED
        BY <1>1, <3>1, <3>2, <4>1
    <3>3. CASE a # neu[1]
      BY <1>1, <3>1, <3>3
    <3>4. QED
      BY <3>2, <3>3
  <2>4. known[a][p] = "used"
    BY <1>1, <2>1, <2>2, <2>3, KnownIs
  <2>5. Owned(a, p)
    BY <1>2, <2>1, <2>4 DEF NoLeaks, UsedOwned
  <2>6. QED
    BY <1>1, <2>5 DEF Owned
<1>5. RetiresPending'
  <2>1. Calm'
    BY <1>1, <1>2, CalmStays
  <2>2. (Inv /\ Calm)' => RetiresPending'
    BY CalmRetires, PTL
  <2>3. QED
    BY <2>1, <2>2
<1>6. AllOwned(prog)'
  <2>1. AllOwned(Tx2(f, neu, old))
    BY OwnedProgs
  <2>2. PICK r : r = Tx2(f, neu, old) /\ AllOwned(r) /\ prog' = r
    BY <1>1, <2>1
  <2>3. AllOwned(r)'
    BY <1>1, <1>2, <2>2, OwnedStays
  <2>4. QED
    BY <2>2, <2>3 DEF AllOwned
<1>7. CopiesOwned' /\ RevertsKnown'
  BY <1>1, <1>2, NoCopies DEF SameMove
<1>8. QED
  BY <1>4, <1>5, <1>6, <1>7 DEF NoLeaks

(* It is written, and a full area closed. *)
LEMMA WrittenLeaksNone ==
    ASSUME Core, Inv', NoLeaks, NEW f \in FilePage, NEW neu \in Addr,
           NEW old \in Addr \union {NoAddr}, InTx(f, neu, old), NoOp, OwnPage(neu),
           \/ prog = Tx2(f, neu, old) /\ flash[map.pos[neu[1]]][neu[2]] = Erased
           \/ prog = Tx3(f, neu, old) /\ Written(neu)
           \/ prog = Then(CloseArea(neu[1]), Tx4(f, neu, old)),
           phase = "run", Next, ~PowerLoss
    PROVE  NoLeaks'
<1>1. Calm /\ mv = "ok"
  BY DEF Calm, InTx
<1>2. IsProg(Tx4(f, neu, old)) /\ AllOwned(Tx4(f, neu, old)) /\ AllOwned(Tx3(f, neu, old))
  BY Progs, OwnedProgs
<1>g. ASSUME Core', SameMove, SameTx, SameRest, addr' = addr, logged' = logged,
             NEW r, prog' = r, AllOwned(r)
      PROVE  NoLeaks'
  <2>1. phase' = phase /\ found' = found
    BY <1>g DEF SameRest
  <2>2. CopiesOwned' /\ RevertsKnown'
    BY <1>1, <1>g, NoCopies DEF SameMove
  <2>3. QED
    BY <1>1, <1>g, <2>1, <2>2, CalmGoes
<1>3. CASE prog = Tx2(f, neu, old) /\ flash[map.pos[neu[1]]][neu[2]] = Erased
  <2>1. /\ Core' /\ SameStatus /\ SameMove /\ SameTx /\ SameRest /\ addr' = addr
        /\ prog' = Tx3(f, neu, old)
    BY <1>3, TxWritesDoes
  <2>2. logged' = logged
    BY <2>1 DEF SameStatus
  <2>3. QED
    BY <1>2, <1>g, <2>1, <2>2
<1>4. CASE prog = Tx3(f, neu, old) /\ Written(neu)
  <2>1. /\ Core' /\ SameMove /\ SameTx /\ SameRest /\ logged' = logged /\ addr' = addr
        /\ prog' = (IF FreePages(neu[1]) = {} THEN <<CloseArea(neu[1])>> ELSE <<>>)
                   \o Tx4(f, neu, old)
    BY <1>4, TxFullDoes
  <2>2. PICK r : r = Tx4(f, neu, old) /\ IsProg(r) /\ AllOwned(r)
    BY <1>2
  <2>3. <<CloseArea(neu[1])>> \o r = Then(CloseArea(neu[1]), r) /\ <<>> \o r = r
    BY <2>2, ThenOne, ProgFacts
  <2>4. AllOwned(Then(CloseArea(neu[1]), r))
    BY <2>2, OwnedThen, PlainEntries
  <2>5. prog' = Then(CloseArea(neu[1]), r) \/ prog' = r
    BY <2>1, <2>2, <2>3
  <2>6. QED
    BY <1>g, <2>1, <2>2, <2>4, <2>5
<1>5. CASE prog = Then(CloseArea(neu[1]), Tx4(f, neu, old))
  <2>1. PICK a : a = neu[1] /\ a \in Area \ {0} /\ map.active["data"] = a
    BY DEF Addr, OwnPage
  <2>2. Core' /\ OpStarts(CloseArea(a)) /\ mv' = mv /\ OpRuns(Tx4(f, neu, old))'
    BY <1>1, <1>2, <1>5, <2>1, CloseRuns
  <2>3. CopiesOwned' /\ RevertsKnown'
    BY <1>1, <2>2, NoCopies
  <2>4. QED
    BY <1>1, <1>2, <1>5, <2>1, <2>2, <2>3, StartLeaksNone
<1>6. QED
  BY <1>3, <1>4, <1>5

-----------------------------------------------------------------------------
(* The old page is given up.                                               *)

(* The end of a transaction. *)
LEMMA OwnedTails == \A o : Core => AllOwned(RetireTail(o))
BY OwnedProgs

(* The tree learns of the new page: the old one is the page that has to get
   dirty. *)
LEMMA UpdateLeaksNone ==
    ASSUME Core, Inv', NoLeaks, NEW f \in FilePage, NEW neu \in Addr \union {NoAddr},
           NEW old \in Addr \union {NoAddr},
           prog = Tx4(f, neu, old), InTx(f, neu, old), NoOp, Room, Written(neu),
           phase = "run", ops # Erased, Next, ~PowerLoss
    PROVE  NoLeaks'
<1>1. /\ Core' /\ SameMove /\ SameRest /\ SameStatus
      /\ replaced' /\ updated' /\ (invalidated' <=> invalidated) /\ oldPage' = oldPage
      /\ addr' = [addr EXCEPT ![f] = neu] /\ prog' = RetireTail(old)
  BY TxUpdatesDoes
<1>2. /\ mv = "ok" /\ ~invalidated /\ old = addr[f] /\ oldPage = old /\ Open /\ Pending = neu
      /\ addr \in [FilePage -> Addr \union {NoAddr}]
  BY CoreParts DEF InTx, Open, Pending, FilesOK
<1>3. Open' /\ Pending' = old
  BY <1>1, <1>2 DEF Open, Pending
<1>4. UsedOwned'
  <2>1. SUFFICES ASSUME NEW a \in Area, NEW p \in Page, known'[a][p] = "used", <<a, p>> # old
                 PROVE  Owned(a, p)'
    BY <1>3 DEF UsedOwned
  <2>2. Core' => (known = logged)'
    BY KnownIs, PTL
  <2>3. known[a][p] = "used"
    BY <1>1, <2>1, <2>2, KnownIs DEF SameStatus
  <2>4. Owned(a, p) \/ neu = <<a, p>>
    BY <1>2, <2>3 DEF NoLeaks, UsedOwned
  <2>5. CASE neu = <<a, p>>
    BY <1>1, <1>2, <2>5 DEF Owned
  <2>6. CASE Owned(a, p)
    <3>1. PICK g \in FilePage : addr[g] = <<a, p>>
      BY <2>6 DEF Owned
    <3>2. g # f
      BY <1>2, <2>1, <3>1
    <3>3. addr'[g] = <<a, p>>
      BY <1>1, <1>2, <3>1, <3>2
    <3>4. QED
      BY <3>3 DEF Owned
  <2>7. QED
    BY <2>4, <2>5, <2>6
<1>5. RetiresPending'
  <2>1. CASE old = NoAddr
    <3>1. prog' = Then(Checkpoint("dataIO"), NoProg)
      BY <1>1, <2>1 DEF RetireTail, CpData
    <3>2. PICK x : x = Checkpoint("dataIO")
      OBVIOUS
    <3>3. Head(prog') = x /\ x.op = "checkpoint"
      BY <3>1, <3>2, Progs, ThenFacts DEF Checkpoint
    <3>4. Core' => (known = logged /\ logged[0][0] # "used" /\ NoAddr = <<0, 0>>)'
      BY KnownIs, NoAddrUnused, PTL
    <3>5. \A a \in Area, p \in Page : Pending' = <<a, p>> => known'[a][p] # "used"
      <4>1. SUFFICES ASSUME NEW a \in Area, NEW p \in Page, <<0, 0>> = <<a, p>>
                     PROVE  known'[a][p] # "used"
        BY <1>3, <2>1 DEF NoAddr
      <4>2. a = 0 /\ p = 0
        BY <4>1
      <4>3. QED
        BY <1>1, <3>4, <4>2
    <3>6. QED
      BY <3>3, <3>5 DEF RetiresPending, Retires, Dirties
  <2>2. CASE old # NoAddr
    <3>1. PICK x : x = SetStatus(old, "dirty")
      OBVIOUS
    <3>2. prog' = Then(x, Then(InvalidateOldPages, CpData))
      BY <1>1, <2>2, <3>1 DEF RetireTail
    <3>3. IsProg(Then(InvalidateOldPages, CpData))
      BY Progs, ThenFacts
    <3>4. Head(prog') = x
      BY <3>2, <3>3, ThenFacts
    <3>5. x.op = "setStatus" /\ x.area = old[1] /\ x.page = old[2]
      BY <3>1 DEF SetStatus
    <3>6. old = <<old[1], old[2]>>
      BY <2>2 DEF Addr
    <3>7. ~Closes(x)
      BY <3>5 DEF Closes, IsCheckpoint
    <3>8. Pending' = <<x.area, x.page>>
      BY <1>3, <3>5, <3>6
    <3>9. QED
      BY <3>4, <3>7, <3>8 DEF RetiresPending, Retires
  <2>3. QED
    BY <2>1, <2>2
<1>6. AllOwned(prog)'
  <2>1. (\A o : Core => AllOwned(RetireTail(o)))'
    BY OwnedTails, PTL
  <2>2. RetireTail(old)' = RetireTail(old)
    BY DEF RetireTail, CpData, NoProg
  <2>3. PICK r : r = RetireTail(old) /\ prog' = r
    BY <1>1
  <2>4. AllOwned(r)'
    BY <1>1, <2>1, <2>2, <2>3
  <2>5. QED
    BY <2>3, <2>4 DEF AllOwned
<1>7. CopiesOwned' /\ RevertsKnown'
  BY <1>1, <1>2, NoCopies DEF SameMove
<1>8. QED
  BY <1>4, <1>5, <1>6, <1>7 DEF NoLeaks

(* The replacement is over, and its page is dirty by then. *)
LEMMA OverLeaksNone ==
    ASSUME Core, Core', NoLeaks, NoteEffect, SameMove, mv = "ok", ~Open',
           Open => phase \in {"run", "dataIO"} /\ prog # <<>> /\ Closes(Head(prog)),
           NEW r, prog' = r, AllOwned(r)
    PROVE  NoLeaks'
<1>1. logged' = logged /\ addr' = addr /\ phase' = phase /\ found' = found
  BY NoteFrame
<1>2. UsedOwned'
  <2>1. SUFFICES ASSUME NEW a \in Area, NEW p \in Page, known'[a][p] = "used"
                 PROVE  Owned(a, p)'
    BY DEF UsedOwned
  <2>2. Core' => (known = logged)'
    BY KnownIs, PTL
  <2>3. known[a][p] = "used"
    BY <1>1, <2>1, <2>2, KnownIs
  <2>4. ~(Open /\ Pending = <<a, p>>)
    BY <2>3 DEF NoLeaks, RetiresPending, Retires
  <2>5. Owned(a, p)
    BY <2>3, <2>4 DEF NoLeaks, UsedOwned
  <2>6. QED
    BY <1>1, <2>5 DEF Owned
<1>3. RetiresPending'
  BY DEF RetiresPending
<1>4. AllOwned(prog)'
  <2>1. AllOwned(r)'
    BY <1>1, OwnedStays
  <2>2. QED
    BY <2>1 DEF AllOwned
<1>5. CopiesOwned' /\ RevertsKnown'
  BY NoCopies DEF SameMove
<1>6. QED
  BY <1>2, <1>3, <1>4, <1>5 DEF NoLeaks

(* On the way there: the page is dirty, and the program closes it. *)
LEMMA ClosingLeaksNone ==
    ASSUME Core, Core', NoLeaks, SameTx, SameMove, SameRest, mv = "ok", addr' = addr,
           \A a \in Area, p \in Page : logged'[a][p] = "used" => logged[a][p] = "used",
           \A a \in Area, p \in Page : (Open /\ Pending = <<a, p>>) => logged'[a][p] # "used",
           NEW x, NEW r, IsProg(r), prog' = Then(x, r), ~Dirties(x), AllOwned(Then(x, r))
    PROVE  NoLeaks'
<1>1. phase' = phase /\ found' = found
  BY DEF SameRest
<1>2. UsedOwned'
  BY UsedStays DEF NoLeaks
<1>3. RetiresPending'
  <2>1. Head(prog') = x
    BY ThenFacts
  <2>2. Core' => (known = logged)'
    BY KnownIs, PTL
  <2>3. \A a \in Area, p \in Page : (Open' /\ Pending' = <<a, p>>) => known'[a][p] # "used"
    BY <2>2, OpenStays
  <2>4. QED
    BY <2>1, <2>3 DEF RetiresPending, Retires
<1>4. AllOwned(prog)'
  <2>1. PICK t : t = Then(x, r)
    OBVIOUS
  <2>2. AllOwned(t)'
    BY <1>1, <2>1, OwnedStays
  <2>3. QED
    BY <2>1, <2>2 DEF AllOwned
<1>5. CopiesOwned' /\ RevertsKnown'
  BY NoCopies DEF SameMove
<1>6. QED
  BY <1>2, <1>3, <1>4, <1>5 DEF NoLeaks

(* Instructions that close a replacement. *)
LEMMA ClosingOps ==
    /\ \A a : Closes(WriteSummary(a)) /\ ~Dirties(WriteSummary(a))
    /\ \A a : Closes(Commit(a)) /\ ~Dirties(Commit(a))
    /\ Closes(InvalidateOldPages) /\ ~Dirties(InvalidateOldPages)
    /\ Closes(Checkpoint("dataIO")) /\ ~Dirties(Checkpoint("dataIO"))
BY DEF Closes, Dirties, IsCheckpoint, WriteSummary, Commit, InvalidateOldPages, Checkpoint

(* The page gets dirty, an area that has no other page left gets its summary
   page, and the replacement is over. *)
LEMMA RetireLeaksNone ==
    ASSUME Core, Core', Inv', NoLeaks, RetireOld, Next, ~PowerLoss
    PROVE  NoLeaks'
<1>1. Retiring /\ RetireNext
  BY RetireParts
<1>2. NoOp /\ mv = "ok" /\ replaced /\ phase \in {"run", "dataIO"}
  BY <1>1 DEF Retiring
<1>p. PICK r : r = Invalidate /\ IsProg(r) /\ AllOwned(r)
  BY Progs, OwnedProgs
<1>q. PICK b : b = Behind1 /\ IsProg(b) /\ AllOwned(b) /\ r = Then(InvalidateOldPages, b)
  <2>1. IsProg(Behind1) /\ AllOwned(Behind1)
    BY Progs, OwnedProgs DEF Behind1
  <2>2. QED
    BY <1>p, <2>1 DEF Invalidate
<1>3. ASSUME NEW x \in Addr, prog = Then(SetStatus(x, "dirty"), r), Unreferenced(x)
      PROVE  NoLeaks'
  <2>1. /\ SameMove /\ SameTx /\ SameRest /\ addr' = addr
        /\ logged' = [logged EXCEPT ![x[1]] = [logged[x[1]] EXCEPT ![x[2]] = "dirty"]]
        /\ prog' = r \/ prog' = Then(WriteSummary(x[1]), r)
    BY <1>1, <1>3, <1>p, RetireStatusDoes
  <2>2. logged \in [Area -> [Page -> SummaryEntry]] /\ x[1] \in Area /\ x[2] \in Page
        /\ x = <<x[1], x[2]>>
    BY CoreParts DEF Addr
  <2>3. \A a \in Area, p \in Page : logged'[a][p] = "used" => logged[a][p] = "used"
    BY <2>1, <2>2
  <2>4. Open => Pending = x
    <3>1. PICK e : e = SetStatus(x, "dirty")
      OBVIOUS
    <3>2. Head(prog) = e /\ prog # <<>> /\ e.op = "setStatus" /\ e.entry = "dirty"
          /\ e.area = x[1] /\ e.page = x[2]
      BY <1>3, <1>p, <3>1, ThenFacts DEF SetStatus
    <3>3. QED
      BY <1>2, <2>2, <3>2 DEF NoLeaks, RetiresPending, Retires, Dirties
  <2>5. ASSUME NEW a \in Area, NEW p \in Page, Open, Pending = <<a, p>>
        PROVE  logged'[a][p] # "used"
    <3>1. a = x[1] /\ p = x[2]
      BY <2>2, <2>4, <2>5
    <3>2. QED
      BY <2>1, <2>2, <3>1
  <2>6. AllOwned(Then(WriteSummary(x[1]), r))
    BY <1>p, OwnedThen, PlainEntries
  <2>7. QED
    BY <1>2, <1>p, <1>q, <2>1, <2>3, <2>5, <2>6, ClosingLeaksNone, ClosingOps
<1>4. ASSUME NEW a \in Area, map.type[a] = "data", \A p \in Page : logged[a][p] = "dirty",
             \/ prog = Then(WriteSummary(a), r)
             \/ prog = Then(Commit(a), r) /\ map.pos[a] \in asWritten
      PROVE  NoLeaks'
  <2>1. ASSUME NEW c \in Area, NEW p \in Page, Open, Pending = <<c, p>>
        PROVE  logged[c][p] # "used"
    <3>1. PICK x : prog = Then(x, r) /\ Closes(x)
      BY <1>4, ClosingOps
    <3>2. Head(prog) = x /\ prog # <<>>
      BY <1>p, <3>1, ThenFacts
    <3>3. QED
      BY <1>2, <2>1, <3>1, <3>2, KnownIs DEF NoLeaks, RetiresPending, Retires
  <2>2. CASE prog = Then(WriteSummary(a), r)
    <3>1. /\ asWritten' = asWritten \union {map.pos[a]} /\ prog' = Then(Commit(a), r)
          /\ UNCHANGED <<flash, bad, index, log, ramVars, phase, found, bounds>>
      BY <1>p, <2>2, ExecWriteSummary
    <3>2. map.pos[a] \in Pos
      BY CoreParts
    <3>3. FlashStep /\ flash' = flash
      BY <3>1, <3>2, CoreParts DEF FlashStep, InFlash, ramVars, bounds
    <3>4. SameStatus /\ SameMove /\ SameTx /\ SameRest
      BY <1>2, <1>4, <3>1, <3>3, SummaryPageStep
    <3>5. addr' = addr /\ logged' = logged
      BY <3>1, <3>4 DEF ramVars, SameStatus
    <3>6. AllOwned(Then(Commit(a), r))
      BY <1>p, OwnedThen, PlainEntries
    <3>7. QED
      BY <1>2, <1>p, <2>1, <3>1, <3>4, <3>5, <3>6, ClosingLeaksNone, ClosingOps
  <2>3. CASE prog = Then(Commit(a), r) /\ map.pos[a] \in asWritten
    <3>1. SumEntry(Commit(a)) /\ prog' = r
      <4>0. Commit(a).op = "commit"
        BY DEF Commit
      <4>1. PICK x : x = Commit(a) /\ x.op \in {"setStatusBlock", "remove", "reset", "commit"}
        BY <4>0
      <4>2. prog = Then(x, r)
        BY <2>3, <4>1
      <4>3. QED
        BY <1>p, <4>1, <4>2, ExecSumEntry, CoreParts
    <3>2. SameMove /\ SameTx /\ SameRest /\ logged' = logged
      BY <1>2, <1>4, <2>3, <3>1, CommitStep
    <3>3. addr' = addr
      BY <3>1 DEF SumEntry
    <3>4. QED
      BY <1>2, <1>p, <1>q, <2>1, <3>1, <3>2, <3>3, ClosingLeaksNone, ClosingOps
  <2>4. QED
    BY <1>4, <2>2, <2>3
<1>5. CASE prog = r
  <2>1. NoteEntry(InvalidateOldPages) /\ prog' = b
    BY <1>5, <1>q, ExecNoteEntry, NoteOps, CoreParts
  <2>2. NoteEffect /\ SameMove /\ invalidated'
    BY <1>2, <2>1, InvalidateStep
  <2>3. ~Open'
    BY <2>2 DEF Open
  <2>4. Head(prog) = InvalidateOldPages /\ prog # <<>>
    BY <1>5, <1>q, ThenFacts
  <2>5. QED
    BY <1>2, <1>q, <2>1, <2>2, <2>3, <2>4, OverLeaksNone, ClosingOps
<1>6. QED
  BY <1>1, <1>3, <1>4, <1>5, <1>p DEF RetireNext

(* The end of a call. *)
LEMMA EndLeaksNone ==
    ASSUME Core, Core', Inv', NoLeaks, prog = CpData, NoOp, mv = "ok",
           Open => phase \in {"run", "dataIO"}, Next, ~PowerLoss
    PROVE  NoLeaks'
<1>1. NoteEntry(Checkpoint("dataIO")) /\ prog' = NoProg
  BY ExecNoteEntry, Progs, NoteOps, CoreParts DEF CpData
<1>2. NoteEffect /\ SameMove /\ ~replaced'
  BY <1>1, DataIOCheckpoint
<1>3. ~Open'
  BY <1>2 DEF Open
<1>4. Head(prog) = Checkpoint("dataIO") /\ prog # <<>>
  BY Progs, ThenFacts DEF CpData
<1>5. QED
  BY <1>1, <1>2, <1>3, <1>4, OverLeaksNone, OwnedProgs, ClosingOps

(* Every step of a transaction up to there. *)
LEMMA TxLeaksNone ==
    ASSUME Core, Core', Inv', NoLeaks, ops # Erased, phase = "run", RunTx, Next, ~PowerLoss
    PROVE  NoLeaks'
<1>1. CASE prog = CpData /\ NoOp /\ mv = "ok"
  BY <1>1, EndLeaksNone
<1>2. ASSUME NEW f \in FilePage, NEW neu \in Addr \union {NoAddr},
             NEW old \in Addr \union {NoAddr},
             \/ /\ prog = Then(ReplacePage(NoAddr, old), Tx4(f, NoAddr, old))
                /\ Quiet /\ Room /\ old = addr[f]
             \/ /\ prog = Tx1(f, neu, old)
                /\ InTx(f, neu, old) /\ NoOp
                /\ neu \in Addr /\ map.active["data"] = neu[1]
                /\ logged[neu[1]][neu[2]] = "free"
             \/ /\ prog = Tx2(f, neu, old)
                /\ InTx(f, neu, old) /\ NoOp /\ OwnPage(neu)
                /\ flash[map.pos[neu[1]]][neu[2]] = Erased
             \/ /\ prog = Tx3(f, neu, old)
                /\ InTx(f, neu, old) /\ NoOp /\ OwnPage(neu) /\ Written(neu)
             \/ /\ prog = Then(CloseArea(neu[1]), Tx4(f, neu, old))
                /\ InTx(f, neu, old) /\ NoOp /\ OwnPage(neu) /\ Written(neu)
             \/ /\ prog = Tx4(f, neu, old)
                /\ InTx(f, neu, old) /\ NoOp /\ Room /\ Written(neu)
      PROVE  NoLeaks'
  <2>1. OwnPage(neu) => neu \in Addr
    BY DEF OwnPage
  <2>2. QED
    BY <1>2, <2>1, GoneLeaksNone, NewLeaksNone, WrittenLeaksNone, UpdateLeaksNone
<1>3. QED
  BY <1>1, <1>2 DEF RunTx

-----------------------------------------------------------------------------
(* The caches are flushed.                                                 *)

(* Between operations the pages are those of RAM, and nothing else is open. *)
LEMMA QuietLeaks ==
    ASSUME NoLeaks, Quiet, Quiet', ram' = ram, addr' = addr, phase' = phase, found' = found,
           NEW r, prog' = r, AllOwned(r)
    PROVE  NoLeaks'
<1>1. known' = known
  BY DEF Quiet, known
<1>2. ~Open /\ ~Open'
  BY DEF Quiet, Open
<1>3. UsedOwned'
  BY <1>1, <1>2 DEF NoLeaks, UsedOwned, Owned
<1>4. RetiresPending'
  BY <1>2 DEF RetiresPending
<1>5. AllOwned(prog)'
  <2>1. AllOwned(r)'
    BY OwnedStays
  <2>2. QED
    BY <2>1 DEF AllOwned
<1>6. CopiesOwned' /\ RevertsKnown'
  BY NoCopies DEF Quiet
<1>7. QED
  BY <1>3, <1>4, <1>5, <1>6 DEF NoLeaks

(* The superindex is written. *)
LEMMA FlushNone ==
    ASSUME Core, NoLeaks, RunFlush, Next, ~PowerLoss
    PROVE  NoLeaks'
<1>1. prog = Then(CommitSuperIndex, CpSum) /\ Quiet
  BY DEF RunFlush
<1>2. /\ prog' = CpSum
      /\ UNCHANGED <<flashVars, log, ramVars, phase, found, bounds>>
  BY <1>1, ExecFlush, Progs
<1>3. UNCHANGED <<asWritten, log, map, sum, addr>> /\ phase' = phase /\ found' = found
  BY <1>2 DEF flashVars, ramVars
<1>4. Quiet'
  BY <1>1, <1>3, ViewStays DEF Quiet
<1>5. ram' = ram
  <2>1. \A a \in Area : Base(a)' = Base(a)
    BY <1>3 DEF Base
  <2>2. QED
    BY <1>3, <2>1, CoreParts, RamStays
<1>6. PICK r : r = CpSum /\ AllOwned(r)
  BY OwnedProgs
<1>7. QED
  BY <1>1, <1>2, <1>3, <1>4, <1>5, <1>6, QuietLeaks

(* The journal's checkpoint, and the journal is cleared. *)
LEMMA FlushingNone ==
    ASSUME InFlash, IsProg(log), Flushing, NoLeaks, Next, ~PowerLoss
    PROVE  NoLeaks'
<1>1. phase = "run" /\ Quiet /\ Saved /\ NoOp /\ mv = "ok" /\ ~replaced
  BY FlushingIs DEF Quiet
<1>2. ASSUME UNCHANGED <<flashVars, index, ramVars, phase, found, bounds>>, Quiet',
             NEW r, prog' = r, AllOwned(r)
      PROVE  NoLeaks'
  <2>1. UNCHANGED <<asWritten, map, sum, addr>> /\ phase' = phase /\ found' = found
    BY <1>2 DEF flashVars, ramVars
  <2>2. ram' = ram
    <3>1. SumTyped
      BY <1>1 DEF Saved, PagesInRAM, SumTyped
    <3>2. \A a \in Area : Base(a)' = Base(a)
      BY <2>1 DEF Base
    <3>3. QED
      BY <2>1, <3>1, <3>2, RamStays
  <2>3. QED
    BY <1>1, <1>2, <2>1, <2>2, QuietLeaks
<1>3. CASE prog = CpSum
  <2>1. /\ log' = Append(log, Checkpoint("summaryCache")) /\ prog' = Clear
        /\ UNCHANGED <<flashVars, index, ramVars, phase, found, bounds>>
    BY <1>3, ExecNote, Progs, NoteOps DEF CpSum
  <2>2. PICK e : e = Checkpoint("summaryCache")
    OBVIOUS
  <2>3. index' = index
    BY <2>1
  <2>4. Grows(e) /\ e.op = "checkpoint" /\ e.topic = "summaryCache"
    BY <2>1, <2>2 DEF Grows, Checkpoint
  <2>5. /\ ~IsCheckpoint(e, "areaMgmt") /\ ~IsCheckpoint(e, "garbage") /\ ~IsCheckpoint(e, "dataIO")
        /\ e.op \notin AreaMgmtOp \union ExternOp \union MoveOp
        /\ e.op \notin {"moveValidData", "replacePage", "update", "invalidateOldPages"}
    BY <2>4 DEF IsCheckpoint, AreaMgmtOp, ExternOp, MoveOp
  <2>6. Quiet'
    BY <1>1, <2>4, <2>5, OpView, MoveView, TxView DEF Quiet
  <2>7. PICK r : r = Clear /\ AllOwned(r)
    BY OwnedProgs
  <2>8. QED
    BY <1>2, <2>1, <2>6, <2>7
<1>4. CASE prog = Clear
  <2>1. log' = <<>> /\ prog' = NoProg /\ UNCHANGED <<flashVars, index, ramVars, phase, found, bounds>>
    BY <1>4, ExecFlush, Progs DEF Clear
  <2>2. Quiet'
    <3>1. (log = <<>> => NoOp /\ mv = "ok" /\ ~replaced)'
      BY EmptyLog, PTL
    <3>2. QED
      BY <2>1, <3>1 DEF Quiet
  <2>3. PICK r : r = NoProg /\ AllOwned(r)
    BY OwnedProgs
  <2>4. QED
    BY <1>2, <2>1, <2>2, <2>3
<1>5. QED
  BY <1>3, <1>4, FlushingIs

-----------------------------------------------------------------------------
(* A mount.                                                                *)

(* The programs with which garbage collection goes on. *)
GarbageOwned ==
    \A c, d, e :
        /\ AllOwned(NoProg) /\ AllOwned(CpGarbage) /\ AllOwned(FullData)
        /\ AllOwned(Then(DeleteAreaContents(c, d), CpGarbage))
        /\ ~Reverting => /\ AllOwned(ScanTail(e))
                         /\ AllOwned(Then(DeleteAreaContents(c, d), ScanTail(e)))

(* None of them writes a page of no file. *)
LEMMA GarbageProgs == Core => GarbageOwned
<1>0. SUFFICES GarbageOwned
  OBVIOUS
<1> USE DEF GarbageOwned
<1>1. TAKE c, d, e
<1>2. AllOwned(Then(DeleteAreaContents(c, d), CpGarbage))
  BY OwnedThen, OwnedProgs, PlainEntries, Progs
<1>3. ASSUME ~Reverting
      PROVE  AllOwned(ScanTail(e)) /\ AllOwned(Then(DeleteAreaContents(c, d), ScanTail(e)))
  <2>1. EntryOwned(Scan(e))
    BY <1>3 DEF EntryOwned, Scan
  <2>2. AllOwned(ScanTail(e))
    BY <2>1, OwnedThen, OwnedProgs, Progs DEF ScanTail
  <2>3. QED
    BY <2>2, OwnedThen, PlainEntries, Progs
<1>4. QED
  BY <1>2, <1>3, OwnedProgs

(* Garbage collection takes over. *)
LEMMA SignalsLeakNone ==
    ASSUME Core, Core', NoLeaks, phase = "areaMgmt", FoundMove, prog = NoProg, NoOp,
           Next, ~PowerLoss
    PROVE  NoLeaks'
<1>1. SignalGarbage
  BY NextTopic
<1>2. /\ phase' = "garbage" /\ prog' = ResumeGarbage
      /\ UNCHANGED <<flashVars, index, log, ramVars>> /\ found' = found /\ ops' = ops
  BY <1>1 DEF SignalGarbage, bounds
<1>3. SameState
  BY <1>2, CoreParts, StateSame DEF InFlash
<1>4. SameTx /\ mv' = mv /\ target' = target /\ logged' = logged /\ UNCHANGED <<addr, flash, map>>
  BY <1>3 DEF SameState, SameMove, SameStatus
<1>5. Reverting' <=> mv = "moveValidData"
  BY <1>2 DEF Reverting, FoundMove
<1>6. UsedOwned'
  BY <1>4, UsedStays DEF NoLeaks
<1>7. RetiresPending'
  BY <1>2 DEF RetiresPending
<1>8. CopiesOwned' /\ RevertsKnown'
  <2>1. RevertsKnown'
    BY <1>4, <1>5 DEF RevertsKnown
  <2>2. ~Reverting
    BY DEF Reverting
  <2>3. \A a, p : Owned(a, p)' <=> Owned(a, p)
    BY <1>4 DEF Owned
  <2>4. QED
    BY <1>4, <2>1, <2>2, <2>3 DEF NoLeaks, CopiesOwned
<1>9. AllOwned(prog)'
  <2>1. PICK t, b : t = target /\ b = buffer
    OBVIOUS
  <2>2. b \in Area \ {0} /\ found.target = t /\ found.state = mv
    BY <2>1, CoreParts DEF FoundMove
  <2>3. ResumeGarbage =
          CASE mv = "ok" -> <<>>
            [] mv = "moveValidData" -> <<DeleteAreaContents(b, b), Checkpoint("garbage")>>
            [] mv = "swappedPosition" ->
                  <<DeleteAreaContents(t, b), Scan(t), Checkpoint("garbage")>>
            [] mv = "deletedOldArea" -> <<Scan(t), Checkpoint("garbage")>>
            [] mv = "setNewSummary" -> <<Checkpoint("garbage")>>
    BY <2>1, <2>2 DEF ResumeGarbage, buffer
  <2>4. \/ prog' \in {NoProg, CpGarbage, Then(DeleteAreaContents(b, b), CpGarbage)}
        \/ /\ mv # "moveValidData"
           /\ prog' \in {ScanTail(t), Then(DeleteAreaContents(t, b), ScanTail(t))}
    <3>1. /\ <<DeleteAreaContents(b, b), Checkpoint("garbage")>>
                = Then(DeleteAreaContents(b, b), CpGarbage)
          /\ <<DeleteAreaContents(t, b), Scan(t), Checkpoint("garbage")>>
                = Then(DeleteAreaContents(t, b), ScanTail(t))
          /\ <<Scan(t), Checkpoint("garbage")>> = ScanTail(t)
          /\ <<Checkpoint("garbage")>> = CpGarbage
      BY ThenTuples DEF CpGarbage, NoProg, ScanTail
    <3>2. QED
      BY <1>2, <2>3, <3>1, MoveStates DEF NoProg
  <2>5. Core' => GarbageOwned'
    BY GarbageProgs, PTL
  <2>6. QED
    BY <1>5, <2>4, <2>5 DEF GarbageOwned, AllOwned, NoProg, CpGarbage, ScanTail
<1>10. QED
  BY <1>6, <1>7, <1>8, <1>9 DEF NoLeaks

(* AreaManagement at a mount. *)
LEMMA OpsMountNone ==
    ASSUME Careful, Core, Core', Inv', NoLeaks, MountOps, Next, ~PowerLoss
    PROVE  NoLeaks'
<1>1. phase = "areaMgmt" /\ FoundMove /\ ((prog = NoProg /\ NoOp) \/ OpRuns(NoProg))
  BY DEF MountOps
<1>2. Calm
  BY <1>1 DEF Calm
<1>3. QED
  BY <1>1, <1>2, SignalsLeakNone, OpLeaksNone, Progs

(* The move is over. *)
LEMMA MovedLeaksNone ==
    ASSUME Core, Core', Inv', NoLeaks, phase = "garbage", prog = CpGarbage, NoOp,
           mv \in {"deletedOldArea", "setNewSummary"},
           mv = "deletedOldArea" => FreeOK(target) /\ UsedOK(target), Next, ~PowerLoss
    PROVE  NoLeaks'
<1>1. PICK r : r = NoProg /\ AllOwned(r)
  BY OwnedProgs
<1>2. NoteEntry(Checkpoint("garbage")) /\ prog' = r
  BY <1>1, ExecNoteEntry, Progs, NoteOps, CoreParts DEF CpGarbage
<1>3. NoteEffect /\ SameTx /\ mv' = "ok"
  BY <1>2, GarbageCheckpoint
<1>4. logged' = logged /\ addr' = addr /\ phase' = phase /\ found' = found
  BY <1>3, NoteFrame DEF SameRest
<1>5. CopiesOwned' /\ RevertsKnown'
  BY <1>3, NoCopies
<1>6. Calm
  BY DEF Calm
<1>7. QED
  BY <1>1, <1>2, <1>3, <1>4, <1>5, <1>6, CalmGoes

(* The contents of an area are deleted. *)
LEMMA ErasesLeakNone ==
    ASSUME Careful, Core, Core', Inv', NoLeaks, phase = "garbage",
           NEW c \in Area \ {0}, NEW b, b = buffer, c \in {buffer, target},
           NEW r, IsProg(r), prog = Then(DeleteAreaContents(c, b), r), NoOp,
           mv \in {"moveValidData", "swappedPosition"}, Next, ~PowerLoss
    PROVE  NoLeaks'
<1>1. OpStarts(DeleteAreaContents(c, b)) /\ mv' = "deletedOldArea" /\ OpRuns(r)'
  BY ContentsRuns
<1>2. CopiesOwned' /\ RevertsKnown'
  BY <1>1, StartCopies
<1>3. Calm
  BY DEF Calm
<1>4. QED
  BY <1>1, <1>2, <1>3, StartLeaksNone

(* The area that moved is scanned: the pages with data are those the move copied,
   and they belong to files. *)
LEMMA ScanLeaksNone ==
    ASSUME Core, Core', Inv', NoLeaks, phase = "garbage", NEW t \in Area \ {0}, t = target,
           found.type = "data", prog = ScanTail(t), NoOp, mv = "deletedOldArea",
           Next, ~PowerLoss
    PROVE  NoLeaks'
<1>p. PICK r, s : r = CpGarbage /\ IsProg(r) /\ AllOwned(r) /\ s = Scanned(t)
  BY Progs, OwnedProgs
<1>1. /\ UNCHANGED <<flashVars, index, log, ramVars>>
      /\ phase' = phase /\ found' = found /\ ops' = ops
      /\ \/ s = All("free") /\ prog' = r
         \/ NoActive /\ prog' = Then(SetStatusBlock(t, s), InitFor(t, r))
         \/ prog' = Then(SetStatusBlock(t, s), r)
  BY <1>p, ScanDoes DEF ScanTail
<1>2. SameState
  BY <1>1, CoreParts, StateSame DEF InFlash
<1>3. SameMove /\ SameTx /\ logged' = logged /\ addr' = addr /\ flash' = flash /\ map' = map
  BY <1>2 DEF SameState, SameStatus
<1>4. CopiesOwned' /\ RevertsKnown'
  BY <1>1, <1>3, CopiesStay DEF NoLeaks, SameMove
<1>5. ~Reverting
  <2>1. prog = Then(Scan(t), r)
    BY <1>p DEF ScanTail
  <2>2. EntryOwned(Scan(t))
    BY <1>p, <2>1, OwnedThen DEF NoLeaks
  <2>3. QED
    BY <2>2 DEF EntryOwned, Scan
<1>6. BlockOwned(t, s)
  <2>1. SUFFICES ASSUME NEW p \in Page, s[p] = "used" PROVE Owned(t, p)
    BY DEF BlockOwned
  <2>2. flash[map.pos[t]][p] # Erased
    BY <1>p, <2>1 DEF Scanned
  <2>3. QED
    BY <1>5, <2>2 DEF NoLeaks, CopiesOwned
<1>7. /\ AllOwned(Then(SetStatusBlock(t, s), InitFor(t, r)))
      /\ AllOwned(Then(SetStatusBlock(t, s), r))
  <2>1. AllOwned(InitFor(t, r)) /\ IsProg(InitFor(t, r))
    BY <1>p, OwnedProgs, Progs
  <2>2. QED
    BY <1>p, <1>6, <2>1, OwnedThen, BlockEntry
<1>8. PICK q : prog' = q /\ AllOwned(q)
  BY <1>p, <1>1, <1>7
<1>9. Calm
  BY DEF Calm
<1>10. QED
  BY <1>1, <1>3, <1>4, <1>8, <1>9, CalmGoes

(* What the scan found is logged, and the area that moved becomes the active
   one. *)
LEMMA FoundLeaksNone ==
    ASSUME Core, Core', Inv', NoLeaks, phase = "garbage", NEW t \in Area \ {0}, t = target, NoOp,
           \/ /\ mv = "deletedOldArea"
              /\ \E s \in [Page -> {"free", "used"}] :
                   /\ CleanOK(t, s)
                   /\ \/ prog = Then(SetStatusBlock(t, s), CpGarbage)
                      \/ prog = Then(SetStatusBlock(t, s), InitFor(t, CpGarbage))
           \/ prog = InitFor(t, CpGarbage) /\ NoActive /\ mv = "setNewSummary",
           Next, ~PowerLoss
    PROVE  NoLeaks'
<1>1. ASSUME mv = "deletedOldArea", NEW s \in [Page -> {"free", "used"}], CleanOK(t, s),
             \/ prog = Then(SetStatusBlock(t, s), CpGarbage)
             \/ prog = Then(SetStatusBlock(t, s), InitFor(t, CpGarbage))
      PROVE  NoLeaks'
  <2>1. PICK r : prog = Then(SetStatusBlock(t, s), r) /\ IsProg(r)
    BY <1>1, Progs
  <2>2. SumEntry(SetStatusBlock(t, s)) /\ prog' = r
    <3>1. SetStatusBlock(t, s).op \in {"setStatusBlock", "remove", "reset", "commit"}
      BY DEF SetStatusBlock
    <3>2. QED
      BY <2>1, <3>1, ExecSumEntry, CoreParts
  <2>3. QED
    BY <1>1, <2>1, <2>2, BlockLeaksNone
<1>2. CASE prog = InitFor(t, CpGarbage) /\ NoActive /\ mv = "setNewSummary"
  <2>1. ~replaced
    BY <1>2, CoreParts DEF MoveOK
  <2>2. PICK r : r = CpGarbage /\ IsProg(r) /\ prog = Then(InitAreaAs(t, "data"), r)
    BY <1>2, Progs DEF InitFor
  <2>3. OpStarts(InitAreaAs(t, "data")) /\ mv' = mv /\ OpRuns(r)'
    BY <1>2, <2>1, <2>2, InitRuns
  <2>4. CopiesOwned' /\ RevertsKnown'
    BY <1>2, <2>3, NoCopies
  <2>5. Calm
    BY DEF Calm
  <2>6. QED
    BY <2>2, <2>3, <2>4, <2>5, StartLeaksNone
<1>3. QED
  BY <1>1, <1>2

(* Garbage collection at a mount. *)
LEMMA GarbageLeaksNone ==
    ASSUME Careful, Core, Core', Inv', NoLeaks, MountGarbage, Next, ~PowerLoss
    PROVE  NoLeaks' \/ (prog = NoProg /\ NoOp /\ mv = "ok" /\ phase = "garbage" /\ FoundTx)
<1>1. phase = "garbage" /\ FoundTx
  BY DEF MountGarbage
<1>2. Calm
  BY <1>1 DEF Calm
<1>p. /\ IsProg(CpGarbage) /\ \A t : IsProg(ScanTail(t))
  BY Progs
<1>3. ASSUME NEW ctx, IsProg(ctx), OpRuns(ctx)
      PROVE  NoLeaks'
  BY <1>2, <1>3, OpLeaksNone
<1>4. ASSUME NEW t \in Area \ {0}, NEW b \in Area, t = target, b = buffer, NoOp,
             \/ prog = Then(DeleteAreaContents(b, b), CpGarbage) /\ mv = "moveValidData"
             \/ prog = Then(DeleteAreaContents(t, b), ScanTail(t)) /\ mv = "swappedPosition"
      PROVE  NoLeaks'
  <2>1. b # 0
    BY <1>4, CoreParts
  <2>2. PICK c, r : /\ prog = Then(DeleteAreaContents(c, b), r) /\ IsProg(r)
                    /\ c \in {buffer, target} /\ c \in Area \ {0}
    BY <1>p, <1>4, <2>1
  <2>3. QED
    BY <1>1, <1>4, <2>2, ErasesLeakNone
<1>5. ASSUME NEW t \in Area \ {0}, t = target, NoOp,
             \/ /\ prog = CpGarbage /\ (mv = "deletedOldArea" => FreeOK(t) /\ UsedOK(t))
                /\ mv \in {"deletedOldArea", "setNewSummary"}
             \/ found.type = "data" /\ prog = ScanTail(t) /\ mv = "deletedOldArea"
             \/ /\ mv = "deletedOldArea"
                /\ \E s \in [Page -> {"free", "used"}] :
                     /\ CleanOK(t, s)
                     /\ \/ prog = Then(SetStatusBlock(t, s), CpGarbage)
                        \/ prog = Then(SetStatusBlock(t, s), InitFor(t, CpGarbage))
             \/ prog = InitFor(t, CpGarbage) /\ NoActive /\ mv = "setNewSummary"
      PROVE  NoLeaks'
  <2>1. CASE /\ prog = CpGarbage /\ (mv = "deletedOldArea" => FreeOK(t) /\ UsedOK(t))
             /\ mv \in {"deletedOldArea", "setNewSummary"}
    BY <1>1, <1>5, <2>1, MovedLeaksNone
  <2>2. CASE found.type = "data" /\ prog = ScanTail(t) /\ mv = "deletedOldArea"
    BY <1>1, <1>5, <2>2, ScanLeaksNone
  <2>3. QED
    BY <1>1, <1>5, <2>1, <2>2, FoundLeaksNone
<1>6. QED
  BY <1>1, <1>p, <1>3, <1>4, <1>5 DEF MountGarbage

(* The programs with which DataIO goes on. *)
TxOwned ==
    \A x : /\ AllOwned(FullData) /\ AllOwned(Then(InvalidateOldPages, FullData))
           /\ AllOwned(Then(SetStatus(x, "dirty"), Then(InvalidateOldPages, FullData)))

(* None of them writes a page of no file. *)
LEMMA TxProgs == Core => TxOwned
<1>1. AllOwned(Then(InvalidateOldPages, FullData)) /\ IsProg(Then(InvalidateOldPages, FullData))
  BY OwnedThen, OwnedProgs, PlainEntries, Progs, ThenFacts
<1>2. QED
  BY <1>1, OwnedThen, OwnedProgs, PlainEntries DEF TxOwned

(* DataIO takes over; the page that is left over is the one it finds. *)
LEMMA TakesLeakNone ==
    ASSUME Core, Core', NoLeaks, prog = NoProg, NoOp, mv = "ok", phase = "garbage", FoundTx,
           Next, ~PowerLoss
    PROVE  NoLeaks'
<1>1. SignalDataIO
  BY NextTopic
<1>2. /\ phase' = "dataIO" /\ prog' = ResumeDataIO
      /\ UNCHANGED <<flashVars, index, log, ramVars>> /\ found' = found /\ ops' = ops
  BY <1>1 DEF SignalDataIO, bounds
<1>3. SameState
  BY <1>2, CoreParts, StateSame DEF InFlash
<1>4. mv' = "ok" /\ SameTx /\ addr' = addr /\ logged' = logged
  BY <1>3 DEF SameState, SameMove, SameStatus
<1>5. UsedOwned'
  BY <1>4, UsedStays DEF NoLeaks
<1>6. CopiesOwned' /\ RevertsKnown'
  BY <1>4, NoCopies
<1>7. (Open' <=> Open) /\ (Open => Pending' = Pending)
  BY <1>4, OpenStays
<1>8. Core' => TxOwned'
  BY TxProgs, PTL
<1>9. FullData' = FullData
  BY DEF FullData, CpData, NoProg
<1>10. IsProg(FullData) /\ IsProg(Then(InvalidateOldPages, FullData))
  BY Progs, ThenFacts
<1>11. CASE found.tx = "ok"
  <2>1. prog' = FullData
    <3>1. prog' = <<>> \o <<ManageActiveAreaFull("data"), ManageActiveAreaFull("index"),
                            Checkpoint("dataIO")>>
      BY <1>2, <1>11 DEF ResumeDataIO
    <3>2. <<ManageActiveAreaFull("data"), ManageActiveAreaFull("index"), Checkpoint("dataIO")>>
            = FullData
      BY ThenTuples DEF FullData, CpData, NoProg
    <3>3. QED
      BY <3>1, <3>2, ProgFacts, Progs
  <2>2. ~Open'
    BY <1>7, <1>11, TxCases DEF FoundTx, Open
  <2>3. RetiresPending'
    BY <2>2 DEF RetiresPending
  <2>4. AllOwned(prog)'
    BY <1>8, <1>9, <2>1 DEF TxOwned, AllOwned
  <2>5. QED
    BY <1>5, <1>6, <2>3, <2>4 DEF NoLeaks
<1>12. ASSUME NEW x, Unreferenced(x), Open => Pending = x,
              prog' = ((IF x # NoAddr THEN <<SetStatus(x, "dirty")>> ELSE <<>>)
                       \o <<InvalidateOldPages>>)
                      \o <<ManageActiveAreaFull("data"), ManageActiveAreaFull("index"),
                           Checkpoint("dataIO")>>
       PROVE  NoLeaks'
  <2>1. prog' = IF x # NoAddr THEN Then(SetStatus(x, "dirty"), Then(InvalidateOldPages, FullData))
                ELSE Then(InvalidateOldPages, FullData)
    BY <1>12, InvalidateIs
  <2>2. AllOwned(prog)'
    BY <1>8, <1>9, <2>1 DEF TxOwned, AllOwned
  <2>3. CASE x # NoAddr
    <3>1. Head(prog') = SetStatus(x, "dirty")
      BY <1>10, <2>1, <2>3, ThenFacts
    <3>2. x \in Addr /\ x = <<x[1], x[2]>>
      BY <1>12, <2>3 DEF Unreferenced, Addr
    <3>3. ~Closes(SetStatus(x, "dirty"))
      BY DEF Closes, IsCheckpoint, SetStatus
    <3>4. Open' => Pending' = <<SetStatus(x, "dirty").area, SetStatus(x, "dirty").page>>
      BY <1>7, <1>12, <3>2 DEF SetStatus
    <3>5. RetiresPending'
      BY <3>1, <3>3, <3>4 DEF RetiresPending, Retires, Closes
    <3>6. QED
      BY <1>5, <1>6, <2>2, <3>5 DEF NoLeaks
  <2>4. CASE x = NoAddr
    <3>1. Head(prog') = InvalidateOldPages
      BY <1>10, <2>1, <2>4, ThenFacts
    <3>2. Core' => (known = logged /\ logged[0][0] # "used" /\ NoAddr = <<0, 0>>)'
      BY KnownIs, NoAddrUnused, PTL
    <3>3. ~Dirties(InvalidateOldPages)
      BY DEF Dirties, InvalidateOldPages
    <3>4. Open' => \A a \in Area, p \in Page : Pending' = <<a, p>> => known'[a][p] # "used"
      BY <1>7, <1>12, <2>4, <3>2 DEF NoAddr
    <3>5. RetiresPending'
      BY <3>1, <3>3, <3>4 DEF RetiresPending, Retires, Dirties
    <3>6. QED
      BY <1>5, <1>6, <2>2, <3>5 DEF NoLeaks
  <2>5. QED
    BY <2>3, <2>4
<1>13. CASE found.tx = "invalid"
  <2>1. TxState = "invalid" /\ found.neu = neuPage
    BY <1>13 DEF FoundTx
  <2>2. Unreferenced(neuPage) /\ ~updated
    BY <2>1, TxCases DEF TxState, updated
  <2>3. prog' = ((IF found.neu # NoAddr THEN <<SetStatus(found.neu, "dirty")>> ELSE <<>>)
                      \o <<InvalidateOldPages>>)
                     \o <<ManageActiveAreaFull("data"), ManageActiveAreaFull("index"),
                          Checkpoint("dataIO")>>
    BY <1>2, <1>13 DEF ResumeDataIO
  <2>4. QED
    BY <1>12, <2>1, <2>2, <2>3 DEF Pending
<1>14. CASE found.tx = "recover"
  <2>1. TxState = "recover" /\ found.old = oldPage
    BY <1>14 DEF FoundTx
  <2>2. Unreferenced(oldPage) /\ updated
    BY <2>1, TxCases DEF TxState, updated
  <2>3. prog' = ((IF found.old # NoAddr THEN <<SetStatus(found.old, "dirty")>> ELSE <<>>)
                      \o <<InvalidateOldPages>>)
                     \o <<ManageActiveAreaFull("data"), ManageActiveAreaFull("index"),
                          Checkpoint("dataIO")>>
    BY <1>2, <1>14 DEF ResumeDataIO
  <2>4. QED
    BY <1>12, <2>1, <2>2, <2>3 DEF Pending
<1>15. QED
  BY <1>11, <1>13, <1>14, TxCases DEF FoundTx

(* Full areas are closed, and the mount is over. *)
LEMMA FullLeaksNone ==
    ASSUME Core, Core', Inv', NoLeaks, phase = "dataIO", mv = "ok", ~Open, NoOp,
           prog = FullData \/ prog = FullIndex, Next, ~PowerLoss
    PROVE  NoLeaks'
<1>1. PICK t, r : /\ prog = Then(ManageActiveAreaFull(t), r) /\ IsProg(r) /\ AllOwned(r)
                  /\ t \in {"data", "index"}
  <2>1. FullData = Then(ManageActiveAreaFull("data"), FullIndex)
    BY DEF FullData, FullIndex
  <2>2. QED
    BY <2>1, Progs, OwnedProgs DEF FullIndex
<1>2. PICK a : a = map.active[t] /\ a \in Area /\ (a # 0 => t = "data")
  BY <1>1, CoreParts DEF FixedAreas, AreaType
<1>3. /\ prog' = (IF a # 0 /\ FreePages(a) = {} THEN <<CloseArea(a)>> ELSE <<>>) \o r
      /\ sum' = IF a = 0 THEN sum ELSE WithSummary(sum, a, SummaryOf(map, sum, a))
      /\ UNCHANGED <<flashVars, index, log, map, addr, phase, found, bounds>>
  BY <1>1, <1>2, ExecManageFull
<1>4. addr' = addr /\ phase' = phase /\ found' = found /\ ops' = ops
  BY <1>3 DEF bounds
<1>5. SameMove /\ SameTx /\ logged' = logged
  <2>1. CASE a = 0
    <3>1. UNCHANGED <<flashVars, index, log, ramVars>>
      BY <1>3, <2>1 DEF ramVars
    <3>2. SameState
      BY <1>4, <3>1, CoreParts, StateSame DEF InFlash
    <3>3. QED
      BY <3>2 DEF SameState, SameStatus
  <2>2. CASE a # 0
    <3>1. map.type[a] = "data" /\ SummaryOf(map, sum, a) = ram[a]
      BY <1>2, <2>2, CoreParts DEF ActiveOK
    <3>2. QED
      BY <1>2, <1>3, <2>2, <3>1, CacheStep DEF flashVars, bounds
  <2>3. QED
    BY <2>1, <2>2
<1>6. PICK q : prog' = q /\ AllOwned(q)
  <2>1. CASE a # 0 /\ FreePages(a) = {}
    <3>1. prog' = Then(CloseArea(a), r)
      BY <1>1, <1>3, <2>1, ThenOne
    <3>2. AllOwned(Then(CloseArea(a), r))
      BY <1>1, OwnedThen, PlainEntries
    <3>3. QED
      BY <3>1, <3>2
  <2>2. CASE ~(a # 0 /\ FreePages(a) = {})
    <3>1. prog' = r
      BY <1>1, <1>3, <2>2, ProgFacts
    <3>2. QED
      BY <1>1, <3>1
  <2>3. QED
    BY <2>1, <2>2
<1>7. CopiesOwned' /\ RevertsKnown'
  BY <1>5, NoCopies DEF SameMove
<1>8. Calm
  BY DEF Calm
<1>9. QED
  BY <1>4, <1>5, <1>6, <1>7, <1>8, CalmGoes

(* DataIO at a mount. *)
LEMMA DataLeaksNone ==
    ASSUME Careful, Core, Core', Inv', NoLeaks, MountDataIO, Next, ~PowerLoss
    PROVE  NoLeaks'
<1>1. phase = "dataIO" /\ mv = "ok" /\ ~Open /\ Calm
  BY DEF MountDataIO, Calm, Open
<1>2. CASE NoOp /\ (prog = FullData \/ prog = FullIndex)
  BY <1>1, <1>2, FullLeaksNone
<1>3. ASSUME NEW a \in Area \ {0}, NoOp, prog = Then(CloseArea(a), FullIndex),
             a = map.active["data"]
      PROVE  NoLeaks'
  <2>1. PICK r : r = FullIndex /\ IsProg(r) /\ prog = Then(CloseArea(a), r)
    BY <1>3, Progs
  <2>2. OpStarts(CloseArea(a)) /\ mv' = mv /\ OpRuns(r)'
    BY <1>1, <1>3, <2>1, CloseRuns
  <2>3. CopiesOwned' /\ RevertsKnown'
    BY <1>1, <2>2, NoCopies
  <2>4. QED
    BY <1>1, <2>1, <2>2, <2>3, StartLeaksNone
<1>4. CASE NoOp /\ prog = CpData
  BY <1>1, <1>4, EndLeaksNone
<1>5. CASE OpRuns(FullIndex)
  BY <1>1, <1>5, Progs, OpLeaksNone
<1>6. CASE NoOp /\ prog = NoProg /\ ~replaced
  <2>1. Mounted
    BY <1>1, <1>6, NextTopic
  <2>2. /\ UNCHANGED <<flashVars, index, log, ramVars>> /\ phase' = "run" /\ prog' = prog
        /\ ops' = ops
    BY <2>1 DEF Mounted, bounds
  <2>3. SameState
    BY <2>2, CoreParts, StateSame DEF InFlash
  <2>4. mv' = "ok" /\ SameTx /\ addr' = addr /\ logged' = logged
    BY <1>1, <2>3 DEF SameState, SameMove, SameStatus
  <2>5. UsedOwned'
    BY <2>4, UsedStays DEF NoLeaks
  <2>6. RetiresPending' /\ AllOwned(prog)'
    BY <1>6, <2>2 DEF RetiresPending, AllOwned, NoProg
  <2>7. CopiesOwned' /\ RevertsKnown'
    BY <2>4, NoCopies
  <2>8. QED
    BY <2>5, <2>6, <2>7 DEF NoLeaks
<1>7. QED
  BY <1>2, <1>3, <1>4, <1>5, <1>6 DEF MountDataIO

-----------------------------------------------------------------------------
(* Power fails.                                                            *)

(* What was in use still is, and belongs to the same files; an operation is
   resumed, which sets no summary. *)
LEMMA PowerLeaksNone ==
    ASSUME Careful, "recovery" \in Spared, Core, NoLeaks, PowerLoss
    PROVE  NoLeaks'
<1>1. Remounted /\ ~InGcErase
  BY PowerIs DEF Careful
<1>2. phase = "run"
  BY DEF PowerLoss, InRecovery
<1>3. Core' /\ SameMove /\ SameTx /\ (NoOp' <=> NoOp)
  BY <1>1, CoreRemounted
<1>4. UNCHANGED <<flash, map, addr>> /\ phase' = "areaMgmt" /\ logged' = logged
      /\ prog' = ResumeOperation(map, sum', lastOp, ext)
  BY <1>1, SumRemounted DEF Remounted
<1>5. UsedOwned'
  BY <1>3, <1>4, UsedStays DEF NoLeaks
<1>6. RetiresPending' /\ RevertsKnown'
  BY <1>4 DEF RetiresPending, RevertsKnown
<1>7. CopiesOwned'
  <2>1. \A a, p : Owned(a, p)' <=> Owned(a, p)
    BY <1>4 DEF Owned
  <2>2. ~Reverting
    BY <1>2 DEF Reverting
  <2>3. QED
    BY <1>3, <1>4, <2>1, <2>2 DEF NoLeaks, CopiesOwned, SameMove
<1>8. AllOwned(prog)'
  <2>1. PICK r : r = NoProg /\ IsProg(r)
    BY Progs
  <2>2. AllOwned(r)'
    BY <2>1 DEF AllOwned, NoProg
  <2>3. CASE NoOp
    <3>1. lastOp.op \notin AreaMgmtOp
      BY <2>3, CoreParts, IdleParts DEF AreaMgmtOp
    <3>2. prog' = r
      BY <1>4, <2>1, <3>1 DEF ResumeOperation, NoProg
    <3>3. QED
      BY <2>2, <3>2 DEF AllOwned
  <2>4. CASE ~NoOp
    <3>1. OpRuns(r)'
      BY <1>1, <2>1, <2>4, OpRemounted
    <3>2. (\A ctx : IsProg(ctx) => (Core /\ OpRuns(ctx) /\ AllOwned(ctx) => AllOwned(prog)))'
      BY OwnedRuns, PTL
    <3>3. QED
      BY <1>3, <2>1, <2>2, <3>1, <3>2
  <2>5. QED
    BY <2>3, <2>4
<1>9. QED
  BY <1>5, <1>6, <1>7, <1>8 DEF NoLeaks

-----------------------------------------------------------------------------
(* Every step.                                                             *)

(* A step that changes nothing. *)
LEMMA StutterLeaksNone ==
    ASSUME Inv, NoLeaks, UNCHANGED vars
    PROVE  NoLeaks'
<1>1. UNCHANGED <<flash, asWritten, bad, index, log, map, sum, addr, prog, phase, found, ops>>
  BY DEF vars, flashVars, ramVars, bounds
<1>2. /\ (NoOp' <=> NoOp) /\ mv' = mv /\ target' = target
      /\ (Open' <=> Open) /\ (Open => Pending' = Pending)
  BY <1>1, ViewStays DEF Open, Pending
<1>3. \A a \in Area : Base(a)' = Base(a)
  BY <1>1 DEF Base
<1>4. known' = known
  <2>1. ram' = ram /\ logged' = logged
    BY <1>1, <1>3 DEF ram, logged, PageStatus, SummaryOf, LogStatus, Sets, Live, Kept,
       firstUncommitted, Unretired, LastCheckpoint, EntryStatus
  <2>2. QED
    BY <1>2, <2>1 DEF known
<1>5. \A a, p : Owned(a, p)' <=> Owned(a, p)
  BY <1>1 DEF Owned
<1>6. Reverting' <=> Reverting
  BY <1>1 DEF Reverting
<1>7. UsedOwned'
  BY <1>2, <1>4, <1>5 DEF NoLeaks, UsedOwned
<1>8. RetiresPending'
  BY <1>1, <1>2, <1>4 DEF NoLeaks, RetiresPending, Retires, Closes, Dirties
<1>9. AllOwned(prog)'
  BY <1>1, <1>5, <1>6 DEF NoLeaks, AllOwned, EntryOwned
<1>10. CopiesOwned' /\ RevertsKnown'
  BY <1>1, <1>2, <1>5, <1>6 DEF NoLeaks, CopiesOwned, RevertsKnown
<1>11. QED
  BY <1>7, <1>8, <1>9, <1>10 DEF NoLeaks

(* Nothing leaks when a device was formatted. *)
LEMMA InitLeaksNone ==
    ASSUME Init
    PROVE  NoLeaks
<1>1. log = <<>> /\ prog = <<>> /\ phase = "run"
  BY DEF Init
<1>2. NoOp /\ mv = "ok" /\ ~replaced
  BY <1>1, EmptyLog
<1>3. UsedOwned
  <2>1. SUFFICES ASSUME NEW a \in Area, NEW p \in Page PROVE ram[a][p] # "used"
    BY <1>2 DEF UsedOwned, known
  <2>2. sum = <<>> /\ asWritten = {}
    BY DEF Init
  <2>3. DOMAIN sum = {} /\ SummaryOf(map, sum, a)[p] = "free"
    BY <2>2 DEF SummaryOf, All
  <2>4. ram[a][p] = "free"
    BY <2>3 DEF ram, PageStatus
  <2>5. QED
    BY <2>4
<1>4. QED
  BY <1>1, <1>2, <1>3 DEF NoLeaks, RetiresPending, AllOwned, CopiesOwned, RevertsKnown

(* Every step of the system. *)
LEMMA LeaksNext ==
    ASSUME Careful, "recovery" \in Spared, Inv, NoLeaks, Next
    PROVE  NoLeaks'
<1>i. Inv'
  BY InvNext
<1>1. CASE Flushing
  <2>1. InFlash /\ IsProg(log) /\ ~PowerLoss
    BY <1>1, NoPowerInFlush DEF Inv
  <2>2. QED
    BY <1>1, <2>1, FlushingNone
<1>2. CASE Sound /\ Stage
  <2>1. Core
    BY <1>2 DEF Inv, Core
  <2>2. CASE PowerLoss
    BY <2>1, <2>2, PowerLeaksNone
  <2>3. CASE ~PowerLoss
    <3>1. CASE phase = "run" /\ (prog # NoProg => ops # Erased) /\ RunRoom
      <4>1. CASE prog = NoProg
        <5>1. ~Goes(prog)
          BY <4>1, GoesOn
        <5>2. Quiet /\ Room
          BY <2>1, <3>1, <5>1, RoomGoes
        <5>3. Core'
          BY <2>1, <2>3, <3>1, <4>1, <5>2, IdleStep
        <5>4. QED
          BY <1>i, <2>1, <2>3, <3>1, <4>1, <5>2, <5>3, IdleLeaksNone
      <4>2. CASE prog # NoProg
        <5>1. ops # Erased
          BY <3>1, <4>2
        <5>2. Core'
          BY <2>1, <2>3, <3>1, <4>2, <5>1, RoomStep
        <5>3. QED
          BY <1>i, <2>1, <2>3, <3>1, <4>2, <5>2, RoomLeaksNone
      <4>3. QED
        BY <4>1, <4>2
    <3>2. CASE phase = "run" /\ (prog # NoProg => ops # Erased) /\ RunMove
      <4>1. ops # Erased
        BY <2>1, <3>2, MoveGoes, GoesOn
      <4>2. Core'
        BY <2>1, <2>3, <3>2, <4>1, MoveStep
      <4>3. QED
        BY <1>i, <2>1, <2>3, <3>2, <4>2, MoveLeaksNone
    <3>3. CASE phase = "run" /\ (prog # NoProg => ops # Erased) /\ RunOp
      <4>1. ops # Erased
        BY <2>1, <3>3, OpGoesOn, GoesOn
      <4>2. Core'
        BY <2>1, <2>3, <3>3, <4>1, OpsStep
      <4>3. QED
        BY <1>i, <2>1, <2>3, <3>3, <4>2, OpsLeakNone
    <3>4. CASE phase = "run" /\ (prog # NoProg => ops # Erased) /\ RunTx
      <4>1. ops # Erased
        BY <2>1, <3>4, TxGoes, GoesOn
      <4>2. Core'
        BY <2>1, <2>3, <3>4, <4>1, TxStep
      <4>3. QED
        BY <1>i, <2>1, <2>3, <3>4, <4>1, <4>2, TxLeaksNone
    <3>5. CASE RunFlush
      BY <2>1, <2>3, <3>5, FlushNone
    <3>6. CASE MountOps
      <4>1. Core'
        BY <2>1, <2>3, <3>6, MountOpsStep
      <4>2. QED
        BY <1>i, <2>1, <2>3, <3>6, <4>1, OpsMountNone
    <3>7. CASE MountGarbage
      <4>1. Core'
        BY <2>1, <2>3, <3>7, MountGarbageStep, DataIOSignals
      <4>2. QED
        BY <1>i, <2>1, <2>3, <3>7, <4>1, GarbageLeaksNone, TakesLeakNone
    <3>8. CASE MountDataIO
      <4>1. Core'
        BY <2>1, <2>3, <3>8, MountDataIOStep
      <4>2. QED
        BY <1>i, <2>1, <2>3, <3>8, <4>1, DataLeaksNone
    <3>9. CASE RetireOld /\ (phase = "run" => ops # Erased)
      <4>1. Core'
        BY <2>1, <2>3, <3>9, RetireStep
      <4>2. QED
        BY <1>i, <2>1, <2>3, <3>9, <4>1, RetireLeaksNone
    <3>10. QED
      BY <1>2, <3>1, <3>2, <3>3, <3>4, <3>5, <3>6, <3>7, <3>8, <3>9 DEF Stage
  <2>4. QED
    BY <2>2, <2>3
<1>3. QED
  BY <1>1, <1>2 DEF Inv

(* Between calls every page that counts as used is the page of a file: the
   transactions of page states, the moves of garbage collection and their
   resumption by a mount leave none behind, if power does not fail in a mount
   again. *)
THEOREM AreaNoPageLeaks == Careful /\ "recovery" \in Spared /\ Spec => []NoPageLeaks
<1>1. Careful /\ "recovery" \in Spared => (Careful /\ "recovery" \in Spared)'
  BY DEF Careful
<1>2. Init => NoLeaks
  BY InitLeaksNone
<1>3. Careful /\ "recovery" \in Spared /\ Inv /\ NoLeaks /\ [Next]_vars => NoLeaks'
  BY LeaksNext, StutterLeaksNone
<1>4. Inv /\ NoLeaks => NoPageLeaks
  <2>1. SUFFICES ASSUME Inv, NoLeaks, Idle, NEW ad \in Addr, PageStatus(ad[1], ad[2]) = "used"
                 PROVE  \E f \in FilePage : addr[f] = ad
    BY DEF NoPageLeaks
  <2>2. ad[1] \in Area /\ ad[2] \in Page /\ ad = <<ad[1], ad[2]>>
    BY DEF Addr
  <2>3. Core /\ ~replaced
    BY <2>1, IdleFacts DEF Quiet
  <2>4. known[ad[1]][ad[2]] = "used"
    BY <2>1, <2>2, <2>3, IdlePages, KnownIs
  <2>5. Owned(ad[1], ad[2])
    BY <2>1, <2>2, <2>3, <2>4 DEF NoLeaks, UsedOwned, Open
  <2>6. QED
    BY <2>2, <2>5 DEF Owned
<1>5. QED
  BY <1>1, <1>2, <1>3, <1>4, AreaMgmtInvariant, PTL DEF Spec
=============================================================================

------------------------------ MODULE AreaMap ------------------------------
(***************************************************************************)
(* The area map of the superblock (class Superblock, src/src/superblock.cpp *)
(* and struct Area): for every logical area its type, its status, the      *)
(* physical position it lies on and how often it was erased; the active    *)
(* area of every type; and two totals.  Every setter logs an entry and then *)
(* changes the map, and the pre-scan of a mount calls the same setter for   *)
(* every entry it finds, so one operator per entry serves both.            *)
(***************************************************************************)
EXTENDS Naturals

CONSTANT AreasNo    \* areasNo

ASSUME AreasAssumption == AreasNo \in Nat \ {0}

Area == 0 .. AreasNo - 1

(* Physical positions of areas have the same numbers. *)
Pos == Area

AreaType == {"unset", "superblock", "index", "data", "garbageBuffer", "retired"}

AreaStatus == {"closed", "active", "empty"}

Map == [type : [Area -> AreaType],
        status : [Area -> AreaStatus],
        pos : [Area -> Pos],
        erasecount : [Area -> Nat],
        active : [AreaType -> Area],    \* 0 if no area of the type is active
        used : Nat,
        deletions : Nat]

(* The map format leaves: the superblock in area 0, one garbage buffer, the
   other areas empty, every area on the position of its own number. *)
FormattedMap ==
    [type |-> [a \in Area |-> CASE a = 0 -> "superblock"
                                [] a = 1 -> "garbageBuffer"
                                [] OTHER -> "unset"],
     status |-> [a \in Area |-> IF a \in {0, 1} THEN "active" ELSE "empty"],
     pos |-> [a \in Area |-> a],
     erasecount |-> [a \in Area |-> 0],
     active |-> [t \in AreaType |-> IF t = "garbageBuffer" THEN 1 ELSE 0],
     used |-> 2,
     deletions |-> 0]

(* The entries of topic superblock. *)
Type(a, t) == [op |-> "type", area |-> a, type |-> t]
Status(a, s) == [op |-> "status", area |-> a, status |-> s]
IncreaseErasecount(a) == [op |-> "increaseErasecount", area |-> a]
Swap(a, b) == [op |-> "swap", area |-> a, b |-> b]
ActiveArea(t, a) == [op |-> "activeArea", area |-> a, type |-> t]
UsedAreas(n) == [op |-> "usedAreas", used |-> n]

MapOp == {"type", "status", "increaseErasecount", "swap", "activeArea", "usedAreas"}

setType(m, a, t) == [m EXCEPT !.type[a] = t]

setStatus(m, a, s) == [m EXCEPT !.status[a] = s]

increaseErasecount(m, a) ==
    [m EXCEPT !.erasecount[a] = @ + 1, !.deletions = @ + 1]

(* Positions change hands, and the erase counts that belong to them. *)
swapAreaPosition(m, a, b) ==
    [m EXCEPT !.pos = [@ EXCEPT ![a] = m.pos[b], ![b] = m.pos[a]],
              !.erasecount = [@ EXCEPT ![a] = m.erasecount[b],
                                       ![b] = m.erasecount[a]]]

(* Also with a = 0, which says that no area is active. *)
setActiveArea(m, t, a) ==
    [m EXCEPT !.status[a] = "active", !.active[t] = a]

setUsedAreas(m, n) == [m EXCEPT !.used = n]

(* What entry e does to the map; entries of other topics do nothing. *)
Applied(m, e) ==
    CASE e.op = "type" -> setType(m, e.area, e.type)
      [] e.op = "status" -> setStatus(m, e.area, e.status)
      [] e.op = "increaseErasecount" -> increaseErasecount(m, e.area)
      [] e.op = "swap" -> swapAreaPosition(m, e.area, e.b)
      [] e.op = "activeArea" -> setActiveArea(m, e.type, e.area)
      [] e.op = "usedAreas" -> setUsedAreas(m, e.used)
      [] OTHER -> m

=============================================================================

-------------------------- MODULE SuperChainProofs --------------------------
(***************************************************************************)
(* Proofs about SuperChain, for any number of areas, blocks, pages and root *)
(* nodes, and any positions of the areas.                                   *)
(*                                                                          *)
(* The invariant IInv says at which stage of which call the program is, and *)
(* what flash, map and log are there: between calls, superindex and log say *)
(* together what the memory says (Sound); while entries are written, those  *)
(* behind the one in hand lie in their new places and those before it in    *)
(* the old ones (Pending); afterwards the new chain says all (Done).  That  *)
(* the log never says too much is Settled: replaying it changes nothing.    *)
(***************************************************************************)
EXTENDS SuperChain, InductionLemmas, SequenceTheorems, TLAPS

(* What the proofs ask of the device and of the runs: the entries of the chain
   are single pages, an area has a second block to go on in, and power does not
   fail, nor is an area reused, where the code is known not to recover. *)
Careful ==
    /\ SuperPages = 1
    /\ BlocksPerArea > 1
    /\ {"overflow", "release", "previous"} \subseteq Spared

-----------------------------------------------------------------------------
(* Types *)

Spot == [kind : {"at"}, pos : Pos, page : Page]

Spots == Spot \cup {NotFound}

Maps == [type : [Area -> AreaType], status : [Area -> AreaStatus],
         pos : {Position}, erasecount : [Area -> {0}],
         active : [AreaType -> Area], used : Nat, deletions : {0}]

LogEntry ==
    [op : {"type", "activeArea"}, area : Area, type : AreaType]
    \cup [op : {"status"}, area : Area, status : AreaStatus]
    \cup [op : {"usedAreas"}, used : Nat]
    \cup [op : {"rootnode"}, root : 0 .. Roots - 1]
    \cup [op : {"page", "checkpoint"}]

-----------------------------------------------------------------------------
(* What lies on flash *)

Blank(f, pos) == \A p \in Page : f[pos][p] = Empty

\* The pages of an area up to the newest entry at page t, in one block.
Written(t) == {p \in Page : BlockOf(p) = BlockOf(t) /\ p <= t}

\* The entries of an area: one block of them, numbered upwards.
Filled(f, pos, t) ==
    /\ \A p \in Page : f[pos][p] # Empty <=> p \in Written(t)
    /\ \A p \in Written(t) : f[pos][p].no \in 0 .. p + 1
    /\ \A p, q \in Written(t) : p < q => f[pos][p].no < f[pos][q].no

\* An entry of element i.
IsEntry(i, e) ==
    IF i = 2 THEN e.kind = "superindex" /\ e.prev \in Area /\ e.root \in 0 .. Roots - 1 /\ e.map \in Maps
    ELSE e.kind = Kind(i) /\ e.prev \in Area /\ e.next \in Pos

\* The newest entries of the elements lie at s; one that is NotFound is erased.
Lies(f, s) ==
    /\ \A i \in Elem : s[i] # NotFound =>
            Filled(f, s[i].pos, s[i].page) /\ IsEntry(i, At(f, s[i]))
    /\ \A i, j \in Elem : i # j /\ s[i] # NotFound /\ s[j] # NotFound => s[i].pos # s[j].pos
    /\ \A pos \in Pos :
            (\A i \in Elem : s[i] = NotFound \/ s[i].pos # pos) => Blank(f, pos)

\* Entry i points to the area of element i + 1.
Points(f, s, i, pos) == At(f, s[i]).next = pos

First(p) == \A q \in Page : BlockOf(q) = BlockOf(p) => p <= q

AreaOn(pos) == CHOOSE a \in Area : Position[a] = pos

-----------------------------------------------------------------------------
(* What the map says of the chain *)

\* The areas of the chain belong to it.
Homes(m, s) ==
    \A i \in Elem : m.type[AreaOn(s[i].pos)] = "superblock" /\ m.status[AreaOn(s[i].pos)] = "active"

\* The area an entry came from is free, if it names one.
Left(m, prev) == prev = 0 \/ m.status[prev] = "empty"

Index(f, s) == At(f, s[2])

Count(m) == Cardinality(InUse(m))

Chained(f, s, m) ==
    /\ s \in [Elem -> Spot] /\ Lies(f, s)
    /\ s[0].pos = 0 /\ Points(f, s, 0, s[1].pos) /\ Points(f, s, 1, s[2].pos)
    /\ Homes(m, s) /\ m.active["superblock"] = 0 /\ m.status[0] = "active"
    /\ isPlausible(Index(f, s).map)
    /\ Left(m, At(f, s[1]).prev)

\* What is left of a call that released an area.
Noting == <<Log(<<PageStatus>>)>>

Serials == \A i \in Elem : serial[i] = At(flash, path[i]).no

\* Nothing of what happened since the superindex is missing in the log.
Sound ==
    /\ Chained(flash, path, map) /\ Serials /\ isPlausible(map)
    /\ Replayed(MapOf(flash, path), log) = map
    /\ ReplayedRoot(Index(flash, path).root, log) = root
    /\ prog # Noting /\ ~ ReplayedSumDirty(log) => MapOf(flash, path) = map
    /\ ~ rootDirty => Index(flash, path).root = root

-----------------------------------------------------------------------------
(* Programs *)

Clearing == <<Do("clear")>>
Rereading == Cons(Do("reread"), Clearing)
Retiring == Cons(Log(<<SumCheckpoint>>), Rereading)
Committing == Cons(Do("committed"), Retiring)

\* The instruction that writes an entry of element i.
Entry(i, pos, p, no, prev, next, used) ==
    IF i = 2 THEN WriteIndex(pos, p, no, prev, used)
    ELSE Write(pos, p, [kind |-> Kind(i), no |-> no, prev |-> prev, next |-> next])

Used(i, u) == IF i = 2 THEN u ELSE 0

Inserting(i, u, next) == Cons(Insert(i, serial[i] + 1, next, Used(i, u)), Committing)

Appending(i, u, next) ==
    Cons(Entry(i, path[i].pos, path[i].page + 1, serial[i] + 1, 0, next, Used(i, u)), Committing)

Restarting(i, p, u, next) ==
    Cons(Entry(i, path[i].pos, p, 0, 0, next, Used(i, u)), Committing)

Erasing(i, p) == Cons(Erase(path[i].pos, BlockOf(path[i].page)), p)

Settling(i, a, u, next) ==
    Cons(Entry(i, Position[a], 0, 0, AreaOn(path[i].pos), next, Used(i, u)),
         Cons(Insert(i - 1, serial[i - 1] + 1, Position[a], 0), Committing))

Leaving(old) == Log(<<Status(old, "empty")>>)
Entering(m, a) == Log(<<Type(a, "superblock"), UsedAreas(m.used + 1), ActiveArea("superblock", a)>>)
Ignoring == Log(<<ActiveArea("superblock", 0)>>)

-----------------------------------------------------------------------------
(* A commit that starts new blocks *)

\* Element i is about to be written; those behind it are, for a map m with u
\* areas in use, and those before it are to follow.
Pending(i, s, m, u, next) ==
    /\ s \in [Elem -> Spots] /\ Lies(flash, s)
    /\ path \in [Elem -> Spot] /\ path[0].pos = 0
    /\ s[i] \in {path[i], NotFound}
    /\ \A j \in Elem : j < i => s[j] = path[j]
    /\ \A j \in Elem : j <= i /\ s[j] # NotFound => serial[j] = At(flash, path[j]).no
    /\ \A j \in Elem : j > i => s[j] \in Spot
    /\ \A j \in Elem : j # i => s[j].pos # path[i].pos
    /\ Homes(m, [s EXCEPT ![i] = path[i]])
    /\ \A j \in Elem : j + 1 <= i => Points(flash, s, j, path[j + 1].pos)
    /\ i < 2 => next = s[i + 1].pos
    /\ i = 0 => Points(flash, s, 1, s[2].pos)
    /\ m \in Maps /\ m.active["superblock"] = 0 /\ m.status[0] = "active"
    /\ Count(m) = u /\ m.used \in 0 .. u + 2 - i
    /\ i = 2 => m.used = u /\ Left(m, At(flash, s[1]).prev)
    /\ i < 2 => /\ Index(flash, s).root = root
                /\ Index(flash, s).map.used = u /\ isPlausible(Index(flash, s).map)
    /\ i = 1 => /\ Index(flash, s).map = [m EXCEPT !.used = u]
                /\ Left(m, Index(flash, s).prev)
    /\ i = 0 => /\ MapOf(flash, s) = [m EXCEPT !.used = u]
                /\ Left(m, At(flash, s[1]).prev)

\* Element i stays in its area.
Stays(i, s, u, next) ==
    /\ Pending(i, s, map, u, next)
    /\ \/ s[i] = path[i] /\ prog = Inserting(i, u, next)
       \/ /\ s[i] = path[i] /\ prog = Appending(i, u, next)
          /\ path[i].page + 1 \in Page /\ BlockOf(path[i].page + 1) = BlockOf(path[i].page)
       \/ \E p \in Page :
             /\ First(p)
             /\ \/ /\ s[i] = path[i] /\ BlockOf(p) # BlockOf(path[i].page)
                   /\ prog = Erasing(i, Restarting(i, p, u, next))
                \/ s[i] = NotFound /\ prog = Restarting(i, p, u, next)

\* The maps while an element moves from area old to area a.
Without(m, old) == [m EXCEPT !.status[old] = "empty"]
Entered(m, old, a) == Replayed(Without(m, old), Entering(m, a).entries)
Moved(m, old, a) == setActiveArea(Entered(m, old, a), "superblock", 0)

\* Element i moves to area a; m is the map before.
Moves(i, s, m, u, next, a) ==
    LET old == AreaOn(path[i].pos)
        settling == Settling(i, a, u, next)
        ignoring == Cons(Ignoring, Erasing(i, settling))
        entering == Cons(Entering(m, a), ignoring)
    IN  /\ Pending(i, s, m, u, next)
        /\ i > 0 /\ a # 0 /\ m.status[a] = "empty"
        /\ \/ s[i] = path[i] /\ map = m /\ prog = Cons(Leaving(old), entering)
           \/ s[i] = path[i] /\ map = Without(m, old) /\ prog = entering
           \/ s[i] = path[i] /\ map = Entered(m, old, a) /\ prog = ignoring
           \/ s[i] = path[i] /\ map = Moved(m, old, a) /\ prog = Erasing(i, settling)
           \/ s[i] = NotFound /\ map = Moved(m, old, a) /\ prog = settling

-----------------------------------------------------------------------------
(* The invariant *)

Types ==
    /\ flash = [pos \in Pos |-> [p \in Page |-> flash[pos][p]]]
    /\ map \in Maps /\ log \in Seq(LogEntry) /\ root \in 0 .. Roots - 1
    /\ rootDirty \in BOOLEAN /\ sumDirty \in BOOLEAN /\ overflowing \in BOOLEAN
    /\ path \in [Elem -> Spot] /\ serial \in [Elem -> Nat]
    /\ phase = "run"

\* Replaying the log once more changes nothing.
Settled ==
    /\ Replayed(map, log) = map
    /\ ReplayedRoot(root, log) = root
    /\ ~ sumDirty => ~ ReplayedSumDirty(log)

\* The calls that only log, and the begin of a commit.
Registering ==
    \E r \in 0 .. Roots - 1 :
        \/ prog = Cons(Log(<<PageStatus>>), <<[do |-> "rootnode", root |-> r]>>)
        \/ prog = <<[do |-> "rootnode", root |-> r]>>

TakeEntries(m, a) == <<Type(a, "data"), UsedAreas(m.used + 1), Status(a, "closed"), PageStatus>>
Taking ==
    \E a \in Area : map.status[a] = "empty" /\ a # Previous /\ prog = <<Log(TakeEntries(map, a))>>

ReleaseEntries(m, a) == <<Status(a, "empty"), Type(a, "unset"), UsedAreas(m.used - 1)>>
Releasing ==
    \E a \in Area : /\ map.status[a] = "closed" /\ map.type[a] = "data"
                    /\ prog = Cons(Log(ReleaseEntries(map, a)), Noting)

Beginning ==
    \/ prog = Inserting(2, map.used, 0)
    \/ /\ prog = Appending(2, map.used, 0)
       /\ path[2].page + 1 \in Page /\ BlockOf(path[2].page + 1) = BlockOf(path[2].page)

InCall ==
    /\ Sound /\ overflowing = FALSE
    /\ prog = <<>> \/ Registering \/ Taking \/ Releasing \/ prog = Noting \/ Beginning

InCommit ==
    /\ overflowing = TRUE
    /\ \E i \in Elem, s \in [Elem -> Spots], u \in 0 .. AreasNo, next \in Pos :
          \/ Stays(i, s, u, next)
          \/ \E m \in Maps, a \in Area : Moves(i, s, m, u, next, a)

\* All entries are written.
Done(s) ==
    /\ Chained(flash, s, map)
    /\ Index(flash, s).root = root
    /\ MapOf(flash, s) = [map EXCEPT !.used = Index(flash, s).map.used]
    /\ Count(map) = Index(flash, s).map.used
    /\ overflowing = FALSE => map.used = Index(flash, s).map.used

Committed ==
    /\ \/ prog \in {Committing, Retiring}
       \/ prog = Rereading /\ ~ ReplayedSumDirty(log)
    /\ \E s \in [Elem -> Spot] : Done(s)

Reread ==
    /\ prog = Clearing /\ overflowing = FALSE
    /\ Sound /\ MapOf(flash, path) = map /\ Index(flash, path).root = root

IInv == Types /\ Settled /\ (InCall \/ InCommit \/ Committed \/ Reread)

-----------------------------------------------------------------------------
(* Pages and blocks *)

(* Division with remainder. *)
LEMMA Division ==
    ASSUME NEW p \in Nat, NEW n \in Nat \ {0}
    PROVE  /\ p \div n \in Nat
           /\ n * (p \div n) <= p
           /\ p < n * (p \div n) + n
<1>1. p = n * (p \div n) + (p % n) /\ p % n \in 0 .. n - 1 /\ p \div n \in Nat
  OBVIOUS
<1>2. n * (p \div n) \in Nat
  BY <1>1
<1>3. QED
  BY <1>1, <1>2

(* Multiples of n lie n apart. *)
LEMMA Multiples ==
    ASSUME NEW a \in Nat, NEW b \in Nat, NEW n \in Nat, a < b
    PROVE  n * a + n <= n * b
<1>1. PICK d \in Nat : b = a + 1 + d
  <2>1. b = a + 1 + (b - a - 1) /\ b - a - 1 \in Nat
    OBVIOUS
  <2>2. QED
    BY <2>1
<1>2. n * b = n * a + n + n * d /\ n * d \in Nat
  BY <1>1
<1>3. QED
  BY <1>2

(* A quotient is known by the multiples it lies between. *)
LEMMA Quotient ==
    ASSUME NEW p \in Nat, NEW n \in Nat \ {0}, NEW b \in Nat, n * b <= p, p < n * b + n
    PROVE  p \div n = b
<1> DEFINE q == p \div n
<1>1. q \in Nat /\ n * q <= p /\ p < n * q + n
  BY Division
<1> HIDE DEF q
<1>2. n * b \in Nat /\ n * q \in Nat
  BY <1>1
<1>3. ~ (b < q) /\ ~ (q < b)
  BY <1>1, <1>2, Multiples
<1>4. QED
  BY <1>1, <1>3 DEF q

Blocks == 0 .. BlocksPerArea - 1

(* The blocks of an area lie one behind the other. *)
LEMMA BlocksInOrder ==
    /\ \A p, q \in Nat : p <= q => BlockOf(p) <= BlockOf(q)
    /\ \A p \in Nat : BlockOf(p) \in Nat
    /\ \A p \in Page : BlockOf(p) \in Blocks
    /\ \A b \in Blocks : b * PagesPerBlock \in Page /\ BlockOf(b * PagesPerBlock) = b
    /\ \A p \in Page : BlockOf(p) * PagesPerBlock <= p
    /\ 0 \in Page /\ BlockOf(0) = 0 /\ Page \subseteq Nat
<1> DEFINE n == PagesPerBlock
<1>1. n \in Nat \ {0} /\ BlocksPerArea \in Nat \ {0}
  BY ChainAssumption
<1>2. \A p \in Nat : BlockOf(p) \in Nat /\ n * BlockOf(p) <= p /\ p < n * BlockOf(p) + n
  BY <1>1, Division DEF BlockOf
<1>3. \A p \in Nat : n * BlockOf(p) \in Nat
  BY <1>1, <1>2
<1>4. ASSUME NEW p \in Nat, NEW q \in Nat, p <= q
      PROVE  BlockOf(p) <= BlockOf(q)
  <2>1. SUFFICES ASSUME BlockOf(q) < BlockOf(p) PROVE FALSE
    BY <1>2
  <2>2. n * BlockOf(q) + n <= n * BlockOf(p)
    BY <2>1, <1>1, <1>2, Multiples
  <2>3. QED
    BY <2>2, <1>1, <1>2, <1>3, <1>4
<1>5. n * BlocksPerArea \in Nat /\ Page = 0 .. n * BlocksPerArea - 1
  BY <1>1 DEF Page
<1>6. ASSUME NEW p \in Page
      PROVE  BlockOf(p) \in Blocks /\ BlockOf(p) * n <= p
  <2>1. p \in Nat /\ p < n * BlocksPerArea
    BY <1>5
  <2>2. BlockOf(p) < BlocksPerArea
    <3> DEFINE b == BlockOf(p)
    <3>1. b \in Nat /\ n * b <= p /\ n * b \in Nat
      BY <2>1, <1>2, <1>3
    <3> HIDE DEF b
    <3>2. CASE BlocksPerArea < b
      <4>1. n * BlocksPerArea + n <= n * b
        BY <3>1, <3>2, <1>1, Multiples
      <4>2. QED
        BY <4>1, <3>1, <2>1, <1>1, <1>5
    <3>3. CASE BlocksPerArea = b
      BY <3>1, <3>3, <2>1, <1>5
    <3>4. QED
      BY <3>1, <3>2, <3>3, <1>1 DEF b
  <2>3. BlockOf(p) * n = n * BlockOf(p)
    BY <1>1, <1>2, <2>1
  <2>4. QED
    BY <2>1, <2>2, <2>3, <1>1, <1>2 DEF Blocks
<1>7. ASSUME NEW b \in Blocks
      PROVE  b * n \in Page /\ BlockOf(b * n) = b
  <2>1. b \in Nat /\ b < BlocksPerArea /\ b * n = n * b /\ n * b \in Nat
    BY <1>1 DEF Blocks
  <2>2. n * b + n <= n * BlocksPerArea
    BY <2>1, <1>1, Multiples
  <2>3. n * b \in Page
    BY <2>1, <2>2, <1>1, <1>5
  <2>4. BlockOf(n * b) = b
    BY <2>1, <1>1, Quotient DEF BlockOf
  <2>5. QED
    BY <2>1, <2>3, <2>4
<1>8. 0 \in Page /\ BlockOf(0) = 0
  <2>1. 0 \in Blocks /\ 0 * n = 0
    BY <1>1 DEF Blocks
  <2>2. QED
    BY <2>1, <1>7
<1>9. Page \subseteq Nat
  BY <1>5
<1>10. QED
  BY <1>2, <1>4, <1>6, <1>7, <1>8, <1>9

(* Behind a page lies the next of its block, or the first of the next block, or
   the area ends. *)
LEMMA NextPage ==
    ASSUME NEW p \in Page
    PROVE  /\ p + 1 \in Page /\ BlockOf(p + 1) # BlockOf(p) =>
                BlockOf(p + 1) = BlockOf(p) + 1 /\ p + 1 = (BlockOf(p) + 1) * PagesPerBlock
           /\ p + 1 \notin Page => BlockOf(p) = BlocksPerArea - 1
<1> DEFINE n == PagesPerBlock
           b == BlockOf(p)
<1>1. n \in Nat \ {0} /\ BlocksPerArea \in Nat \ {0}
  BY ChainAssumption
<1>2. p \in Nat /\ b \in Nat /\ b \in Blocks
  BY BlocksInOrder
<1>3. n * b <= p /\ p < n * b + n
  BY <1>1, <1>2, Division DEF BlockOf
<1>4. n * b \in Nat /\ n * (b + 1) = n * b + n /\ n * (b + 1) = (b + 1) * n
  BY <1>1, <1>2
<1> HIDE DEF b
<1>5. CASE p + 1 < n * b + n
  <2>1. BlockOf(p + 1) = b
    BY <1>1, <1>2, <1>3, <1>4, <1>5, Quotient DEF BlockOf
  <2>2. n * b + n <= n * BlocksPerArea
    BY <1>1, <1>2, Multiples DEF Blocks
  <2>3. p + 1 \in Page
    <3>1. n * BlocksPerArea \in Nat /\ n * BlocksPerArea = BlocksPerArea * n
      BY <1>1
    <3>2. QED
      BY <1>1, <1>2, <1>4, <1>5, <2>2, <3>1 DEF Page
  <2>4. QED
    BY <2>1, <2>3 DEF b
<1>6. CASE p + 1 = n * b + n
  <2>1. BlockOf(p + 1) = b + 1
    BY <1>1, <1>2, <1>4, <1>6, Quotient DEF BlockOf
  <2>2. p + 1 = (b + 1) * n
    BY <1>4, <1>6
  <2>3. ASSUME b # BlocksPerArea - 1 PROVE p + 1 \in Page
    <3>1. b + 1 \in Blocks
      BY <2>3, <1>1, <1>2 DEF Blocks
    <3>2. QED
      BY <3>1, <2>2, BlocksInOrder
  <2>4. QED
    BY <2>1, <2>2, <2>3 DEF b
<1>7. QED
  BY <1>1, <1>2, <1>3, <1>4, <1>5, <1>6

(* The pages below a page are pages. *)
LEMMA PagesBelow ==
    ASSUME NEW p \in Page, NEW q \in Nat, q <= p
    PROVE  q \in Page
<1>1. BlocksPerArea * PagesPerBlock \in Nat
  BY ChainAssumption
<1>2. QED
  BY <1>1 DEF Page

(* The library's Min and Max are what they should be. *)
LEMMA MinIs ==
    ASSUME NEW S \in SUBSET Nat, NEW x \in S, \A y \in S : x <= y
    PROVE  Min(S) = x
<1>1. \E z \in S : \A y \in S : z <= y
  OBVIOUS
<1> DEFINE m == Min(S)
<1>2. m \in S /\ \A y \in S : m <= y
  BY <1>1 DEF Min
<1> HIDE DEF m
<1>3. m \in Nat /\ x \in Nat /\ m <= x /\ x <= m
  BY <1>2
<1>4. m = x
  BY <1>3
<1>5. QED
  BY <1>4 DEF m

(* The same for the greatest element. *)
LEMMA MaxIs ==
    ASSUME NEW S \in SUBSET Nat, NEW x \in S, \A y \in S : y <= x
    PROVE  Max(S) = x
<1>1. \E z \in S : \A y \in S : z >= y
  OBVIOUS
<1> DEFINE m == Max(S)
<1>2. m \in S /\ \A y \in S : m >= y
  BY <1>1 DEF Max
<1> HIDE DEF m
<1>3. m \in Nat /\ x \in Nat /\ m <= x /\ x <= m
  BY <1>2
<1>4. m = x
  BY <1>3
<1>5. QED
  BY <1>4 DEF m

-----------------------------------------------------------------------------
(* Reading an area *)

SpotAt(pos, p) == [kind |-> "at", pos |-> pos, page |-> p]

(* A search reads the pages of the block with the entries, and no other. *)
LEMMA PrefixOf ==
    ASSUME NEW f, NEW pos \in Pos, NEW t \in Page, Filled(f, pos, t), NEW b \in Blocks
    PROVE  Prefix(f, pos, b) = IF b = BlockOf(t) THEN Written(t) ELSE {}
<1>1. \A p \in Page : Programmed(f, pos, p) <=> p \in Written(t)
  BY DEF Filled, Programmed
<1>2. \A p \in Page : p \in Nat /\ BlockOf(p) \in Nat /\ BlockOf(p) * PagesPerBlock \in Nat
                      /\ BlockOf(p) * PagesPerBlock <= p
  <2>1. PagesPerBlock \in Nat
    BY ChainAssumption
  <2>2. QED
    BY <2>1, BlocksInOrder
<1>3. ASSUME NEW p \in Prefix(f, pos, b)
      PROVE  p \in Written(t) /\ b = BlockOf(t)
  <2>1. p \in Page /\ BlockOf(p) = b /\ Programmed(f, pos, p)
    BY <1>2 DEF Prefix
  <2>2. p \in Written(t)
    BY <1>1, <2>1
  <2>3. QED
    BY <2>1, <2>2 DEF Written
<1>4. ASSUME NEW p \in Written(t), b = BlockOf(t)
      PROVE  p \in Prefix(f, pos, b)
  <2>1. p \in Page /\ BlockOf(p) = b /\ p <= t
    BY <1>4 DEF Written
  <2>2. ASSUME NEW q \in b * PagesPerBlock .. p
        PROVE  Programmed(f, pos, q)
    <3>1. q \in Nat /\ q <= p /\ b * PagesPerBlock <= q /\ b * PagesPerBlock \in Page
          /\ BlockOf(b * PagesPerBlock) = b /\ b * PagesPerBlock \in Nat
      BY <1>2, <2>1, BlocksInOrder
    <3>2. q \in Page
      BY <3>1, <2>1, PagesBelow
    <3>3. b <= BlockOf(q) /\ BlockOf(q) <= b
      BY <3>1, <2>1, <1>2, BlocksInOrder
    <3>4. BlockOf(q) = b
      BY <3>2, <3>3, <2>1, <1>2
    <3>5. q <= t
      BY <3>1, <2>1, <1>2
    <3>6. q \in Written(t)
      BY <3>2, <3>4, <3>5, <1>4 DEF Written
    <3>7. QED
      BY <3>2, <3>6, <1>1
  <2>3. QED
    BY <2>1, <2>2 DEF Prefix
<1>5. QED
  BY <1>3, <1>4

(* The search of an area finds its newest entry. *)
LEMMA Newest ==
    ASSUME NEW f, NEW pos \in Pos, NEW t \in Page, Filled(f, pos, t)
    PROVE  NewestInArea(f, pos) = SpotAt(pos, t)
<1> DEFINE b == BlockOf(t)
           W == Written(t)
           no(p) == f[pos][p].no
<1>1. b \in Blocks /\ b \in Nat /\ t \in Nat /\ Page \subseteq Nat /\ Blocks \subseteq Nat
  BY BlocksInOrder DEF Blocks
<1>2. t \in W /\ W \subseteq Page /\ \A p \in W : p <= t
  BY <1>1 DEF Written
<1>3. \A p \in W : no(p) \in Nat
  <2>1. \A p \in W : no(p) \in 0 .. p + 1
    BY DEF Filled
  <2>2. QED
    BY <2>1, <1>1, <1>2
<1>4. \A p, q \in W : p < q => no(p) < no(q)
  BY DEF Filled
<1>5. \A c \in Blocks : Prefix(f, pos, c) = IF c = b THEN W ELSE {}
  BY PrefixOf
<1> HIDE DEF b, W, no
<1>6. NewestInBlock(f, pos, b) = t
  <2> DEFINE zeros == {p \in W : no(p) = 0}
             since == {p \in W : \A z \in zeros : p >= z}
             nos == {no(p) : p \in since}
             top == Max(nos)
             best == {p \in since : no(p) = top}
  <2>1. t \in since /\ since \subseteq W
    BY <1>1, <1>2
  <2>2. \A p \in since : no(p) <= no(t)
    <3>1. TAKE p \in since
    <3>2. p \in W /\ p <= t /\ p \in Nat
      BY <2>1, <1>1, <1>2
    <3>3. CASE p = t
      BY <3>2, <3>3, <1>3
    <3>4. CASE p < t
      BY <3>2, <3>4, <1>2, <1>3, <1>4
    <3>5. QED
      BY <3>2, <3>3, <3>4, <1>1
  <2>3. top = no(t)
    <3>1. nos \in SUBSET Nat /\ no(t) \in nos /\ \A y \in nos : y <= no(t)
      BY <2>1, <2>2, <1>3
    <3> HIDE DEF nos
    <3>2. QED
      BY <3>1, MaxIs
  <2> HIDE DEF top
  <2>4. \A p \in best : p = t
    <3>1. TAKE p \in best
    <3>2. p \in W /\ p <= t /\ p \in Nat /\ no(p) = no(t)
      BY <2>1, <2>3, <1>1, <1>2
    <3>3. ~ (p < t)
      BY <3>2, <1>2, <1>3, <1>4
    <3>4. QED
      BY <3>2, <3>3, <1>1
  <2>5. t \in best /\ best \in SUBSET Nat
    BY <2>1, <2>3, <1>1, <1>2
  <2>6. Min(best) = t
    <3>1. \A y \in best : t <= y
      BY <2>4, <1>1
    <3> HIDE DEF best
    <3>2. QED
      BY <2>5, <3>1, MinIs
  <2>7. NewestInBlock(f, pos, b) = Min(best)
    <3>1. Prefix(f, pos, b) = W
      BY <1>1, <1>5
    <3>2. QED
      BY <3>1 DEF NewestInBlock, top, no
  <2>8. QED
    BY <2>6, <2>7
<1>7. {c \in Blocks : Prefix(f, pos, c) # {}} = {b}
  BY <1>1, <1>2, <1>5
<1>8. Min({b}) = b
  BY <1>1, MinIs
<1>9. QED
  BY <1>6, <1>7, <1>8 DEF NewestInArea, Blocks, SpotAt

(* Room for one page is an erased page. *)
LEMMA RoomForOne ==
    ASSUME NEW f, NEW pos \in Pos, NEW b \in Blocks
    PROVE  FreeInBlock(f, pos, b, 1) = {p \in Page : BlockOf(p) = b /\ ~ Programmed(f, pos, p)}
<1>1. 0 .. 1 - 1 = {0} /\ \A p \in Page : p + 0 = p
  BY BlocksInOrder
<1>2. ASSUME NEW p \in Page
      PROVE  FreeRun(f, pos, p, 1) <=> ~ Programmed(f, pos, p)
  BY <1>1 DEF FreeRun
<1>3. QED
  BY <1>2 DEF FreeInBlock

(* Where the search for room in an area ends: behind the newest entry, in the
   next block if that one is full, or nowhere. *)
LEMMA Room ==
    ASSUME NEW f, NEW pos \in Pos, NEW t \in Page, Filled(f, pos, t)
    PROVE  /\ FreeInArea(f, pos, 1) # {} =>
                /\ t + 1 \in Page /\ Min(FreeInArea(f, pos, 1)) = t + 1
                /\ BlockOf(t + 1) # BlockOf(t) => First(t + 1)
           /\ FreeInArea(f, pos, 1) = {} => BlockOf(t) = BlocksPerArea - 1
<1> DEFINE free(c) == FreeInBlock(f, pos, c, 1)
           b == BlockOf(t)
           full == {c \in Blocks : free(c) = {}}
           begun == {c \in Blocks \ full : Min(free(c)) # c * PagesPerBlock}
           first == IF full \cup begun = {} THEN 0 ELSE Min(full \cup begun)
           block == IF first \in full THEN first + 1 ELSE first
<1>1. /\ b \in Blocks /\ b \in Nat /\ t \in Nat /\ Page \subseteq Nat /\ Blocks \subseteq Nat
      /\ \A p \in Page : BlockOf(p) \in Nat
      /\ \A c \in Blocks : c * PagesPerBlock \in Page /\ BlockOf(c * PagesPerBlock) = c
      /\ b * PagesPerBlock <= t
      /\ BlocksPerArea \in Nat
  BY BlocksInOrder, ChainAssumption DEF Blocks
<1>2. \A c \in Blocks : free(c) = {p \in Page : BlockOf(p) = c /\ ~ Programmed(f, pos, p)}
  BY RoomForOne
<1>3. \A p \in Page : ~ Programmed(f, pos, p) <=> ~ (BlockOf(p) = b /\ p <= t)
  BY DEF Filled, Programmed, Written
<1>4. \A c \in Blocks : c # b => free(c) = {p \in Page : BlockOf(p) = c}
  BY <1>2, <1>3
<1>5. free(b) = {p \in Page : BlockOf(p) = b /\ ~ (p <= t)}
  BY <1>1, <1>2, <1>3
<1> HIDE DEF free
<1>6. ASSUME NEW c \in Blocks
      PROVE  /\ c * PagesPerBlock \in {p \in Page : BlockOf(p) = c}
             /\ \A p \in {q \in Page : BlockOf(q) = c} : c * PagesPerBlock <= p
  <2>1. c * PagesPerBlock \in Page /\ BlockOf(c * PagesPerBlock) = c
    BY <1>1
  <2>2. \A p \in Page : BlockOf(p) * PagesPerBlock <= p
    BY BlocksInOrder
  <2>3. QED
    BY <2>1, <2>2
<1>7. \A c \in Blocks : c # b => c \notin full /\ c \notin begun
  <2>1. TAKE c \in Blocks
  <2>2. HAVE c # b
  <2> DEFINE x == c * PagesPerBlock
             S == {p \in Page : BlockOf(p) = c}
  <2>3. free(c) = S /\ x \in S /\ \A p \in S : x <= p
    BY <2>2, <1>4, <1>6
  <2>4. S \in SUBSET Nat
    BY <1>1
  <2> HIDE DEF x, S
  <2>5. Min(S) = x
    BY <2>3, <2>4, MinIs
  <2>6. free(c) # {} /\ Min(free(c)) = x
    BY <2>3, <2>5
  <2>7. QED
    BY <2>6 DEF x
<1>8. t + 1 \in Page /\ BlockOf(t + 1) = b => free(b) # {} /\ Min(free(b)) = t + 1
  <2>1. HAVE t + 1 \in Page /\ BlockOf(t + 1) = b
  <2> DEFINE S == {p \in Page : BlockOf(p) = b /\ ~ (p <= t)}
  <2>2. t + 1 \in S /\ S \in SUBSET Nat /\ \A p \in S : t + 1 <= p
    <3>1. \A p \in Nat : ~ (p <= t) => t + 1 <= p
      BY <1>1
    <3>2. ~ (t + 1 <= t)
      BY <1>1
    <3>3. QED
      BY <2>1, <3>1, <3>2, <1>1
  <2> HIDE DEF S
  <2>3. Min(S) = t + 1
    BY <2>2, MinIs
  <2>4. free(b) = S
    BY <1>5 DEF S
  <2>5. QED
    BY <2>2, <2>3, <2>4
<1>9. free(b) # {} => t + 1 \in Page /\ BlockOf(t + 1) = b
  <2>1. HAVE free(b) # {}
  <2>2. PICK p \in Page : BlockOf(p) = b /\ ~ (p <= t)
    BY <2>1, <1>5
  <2>3. p \in Nat /\ t + 1 \in Nat /\ t + 1 <= p /\ t <= t + 1
    BY <2>2, <1>1
  <2>4. t + 1 \in Page
    BY <2>3, PagesBelow
  <2>5. b <= BlockOf(t + 1) /\ BlockOf(t + 1) <= b
    BY <2>2, <2>3, <1>1, BlocksInOrder
  <2>6. QED
    BY <2>4, <2>5, <1>1
<1>10. b \in full \/ b \in begun
  <2>1. CASE free(b) = {}
    BY <2>1, <1>1
  <2>2. CASE free(b) # {}
    <3>1. Min(free(b)) = t + 1
      BY <2>2, <1>8, <1>9
    <3>2. b * PagesPerBlock \in Nat
      BY <1>1
    <3>3. t + 1 # b * PagesPerBlock
      BY <3>2, <1>1
    <3>4. QED
      BY <2>2, <3>1, <3>3, <1>1
  <2>3. QED
    BY <2>1, <2>2
<1>11. full \cup begun = {b}
  BY <1>7, <1>10
<1>12. FreeInArea(f, pos, 1) = IF block = BlocksPerArea THEN {} ELSE free(block)
  BY DEF FreeInArea, Blocks, free
<1>13. first = b
  <2>1. Min({b}) = b
    BY <1>1, MinIs
  <2> HIDE DEF full, begun
  <2>2. QED
    BY <2>1, <1>11
<1> HIDE DEF first, begun
<1>14. CASE free(b) # {}
  <2>1. block = b /\ b # BlocksPerArea
    <3>1. b \notin full
      BY <1>14
    <3> HIDE DEF full
    <3>2. b < BlocksPerArea
      BY <1>1 DEF Blocks
    <3>3. b # BlocksPerArea
      BY <3>2, <1>1
    <3>4. block = b
      BY <3>1, <1>13
    <3> HIDE DEF block
    <3>5. QED
      BY <3>3, <3>4
  <2> HIDE DEF block
  <2>2. FreeInArea(f, pos, 1) = free(b)
    BY <2>1, <1>12
  <2>3. QED
    BY <2>2, <1>8, <1>9, <1>14
<1>15. CASE free(b) = {}
  <2>1. block = b + 1
    <3>1. b \in full
      BY <1>15, <1>1
    <3> HIDE DEF full
    <3>2. QED
      BY <3>1, <1>13
  <2> HIDE DEF block
  <2>2. ~ (t + 1 \in Page /\ BlockOf(t + 1) = b)
    BY <1>8, <1>15
  <2>3. CASE b = BlocksPerArea - 1
    <3>1. FreeInArea(f, pos, 1) = {}
      BY <2>1, <2>3, <1>1, <1>12
    <3>2. QED
      BY <3>1, <2>3
  <2>4. CASE b # BlocksPerArea - 1
    <3> DEFINE c == b + 1
               x == c * PagesPerBlock
               S == {p \in Page : BlockOf(p) = c}
    <3>1. c \in Blocks /\ c # b /\ c # BlocksPerArea
      BY <2>4, <1>1 DEF Blocks
    <3>2. t + 1 \in Page /\ BlockOf(t + 1) = c /\ t + 1 = x
      BY <2>2, <2>4, NextPage
    <3>3. x \in S /\ \A p \in S : x <= p
      BY <3>1, <1>6
    <3>4. S \in SUBSET Nat
      BY <1>1
    <3>5. FreeInArea(f, pos, 1) = S
      BY <2>1, <3>1, <1>12, <1>4
    <3>6. First(t + 1)
      BY <3>2, <3>3 DEF First
    <3> HIDE DEF x, S, c
    <3>7. Min(S) = x
      BY <3>3, <3>4, MinIs
    <3>8. QED
      BY <3>2, <3>3, <3>5, <3>6, <3>7
  <2>5. QED
    BY <2>3, <2>4
<1>16. QED
  BY <1>14, <1>15

-----------------------------------------------------------------------------
(* Changing an area *)

Flash(f) == f = [pos \in Pos |-> [p \in Page |-> f[pos][p]]]

Wiped(f, pos, b) == [f EXCEPT ![pos] = [p \in Page |-> IF BlockOf(p) = b THEN Empty ELSE @[p]]]

Put(f, pos, p, e) == [f EXCEPT ![pos][p] = e]

(* A place is not the place of something that is not there. *)
LEMMA SpotIs ==
    ASSUME NEW x \in Spots
    PROVE  x # NotFound <=> x \in Spot
<1>1. NotFound \notin Spot
  BY DEF NotFound, Spot
<1>2. QED
  BY <1>1 DEF Spots

\* Only the area at pos changes, and holds the entries of element i afterwards.
Changes(f, g, s, i, pos, new) ==
    /\ s[i] # NotFound => s[i].pos = pos
    /\ new # NotFound => new.pos = pos
    /\ \A j \in Elem : j # i /\ s[j] # NotFound => s[j].pos # pos
    /\ \A q \in Pos : q # pos => g[q] = f[q]
    /\ new = NotFound => Blank(g, pos)
    /\ new # NotFound => Filled(g, pos, new.page) /\ IsEntry(i, At(g, new))

Keeps(f, g, s, i) == \A j \in Elem : j # i /\ s[j] # NotFound => At(g, s[j]) = At(f, s[j])

(* Then the chain lies there as before but for element i. *)
LEMMA OneMoves ==
    ASSUME NEW f, NEW g, NEW s \in [Elem -> Spots], NEW i \in Elem, NEW pos \in Pos, NEW new \in Spots,
           Lies(f, s), Changes(f, g, s, i, pos, new)
    PROVE  /\ [s EXCEPT ![i] = new] \in [Elem -> Spots]
           /\ Lies(g, [s EXCEPT ![i] = new])
           /\ Keeps(f, g, s, i)
<1> USE DEF Changes, Keeps
<1> DEFINE r == [s EXCEPT ![i] = new]
<1>1. r \in [Elem -> Spots] /\ r[i] = new /\ \A j \in Elem : j # i => r[j] = s[j]
  OBVIOUS
<1> HIDE DEF r
<1>2. \A j \in Elem : s[j] # NotFound => s[j].pos \in Pos
  BY SpotIs DEF Spot
<1>3. ASSUME NEW j \in Elem, j # i, s[j] # NotFound
      PROVE  /\ At(g, s[j]) = At(f, s[j])
             /\ Filled(g, s[j].pos, s[j].page) /\ IsEntry(j, At(g, s[j]))
  <2>1. g[s[j].pos] = f[s[j].pos]
    BY <1>2, <1>3
  <2>2. At(g, s[j]) = At(f, s[j])
    BY <2>1 DEF At
  <2>3. Filled(f, s[j].pos, s[j].page) /\ IsEntry(j, At(f, s[j]))
    BY <1>3 DEF Lies
  <2>4. Filled(g, s[j].pos, s[j].page)
    BY <2>1, <2>3 DEF Filled
  <2>5. QED
    BY <2>2, <2>3, <2>4
<1>4. \A j \in Elem : r[j] # NotFound => Filled(g, r[j].pos, r[j].page) /\ IsEntry(j, At(g, r[j]))
  <2>1. TAKE j \in Elem
  <2>2. HAVE r[j] # NotFound
  <2>3. CASE j = i
    BY <2>2, <2>3, <1>1
  <2>4. CASE j # i
    BY <2>2, <2>4, <1>1, <1>3
  <2>5. QED
    BY <2>3, <2>4
<1>5. \A j, k \in Elem : j # k /\ r[j] # NotFound /\ r[k] # NotFound => r[j].pos # r[k].pos
  <2>1. \A j, k \in Elem : j # k /\ s[j] # NotFound /\ s[k] # NotFound => s[j].pos # s[k].pos
    BY DEF Lies
  <2>2. QED
    BY <2>1, <1>1
<1>6. ASSUME NEW q \in Pos, \A j \in Elem : r[j] = NotFound \/ r[j].pos # q
      PROVE  Blank(g, q)
  <2>1. CASE q = pos
    BY <2>1, <1>6, <1>1
  <2>2. CASE q # pos
    <3>1. \A j \in Elem : s[j] = NotFound \/ s[j].pos # q
      BY <2>2, <1>6, <1>1
    <3>2. Blank(f, q)
      BY <3>1 DEF Lies
    <3>3. QED
      BY <3>2, <2>2 DEF Blank
  <2>3. QED
    BY <2>1, <2>2
<1>7. Lies(g, r)
  BY <1>4, <1>5, <1>6 DEF Lies
<1>8. QED
  BY <1>1, <1>3, <1>7 DEF r

(* The block of the entries of an element is erased. *)
LEMMA EraseLies ==
    ASSUME NEW f, NEW s \in [Elem -> Spots], NEW i \in Elem,
           Flash(f), Lies(f, s), s[i] # NotFound
    PROVE  LET g == Wiped(f, s[i].pos, BlockOf(s[i].page))
               r == [s EXCEPT ![i] = NotFound]
           IN  /\ Flash(g) /\ r \in [Elem -> Spots] /\ Lies(g, r)
               /\ Keeps(f, g, s, i)
<1> DEFINE pos == s[i].pos
           t == s[i].page
           g == Wiped(f, pos, BlockOf(t))
<1>1. pos \in Pos /\ t \in Page
  BY SpotIs DEF Spot
<1>2. \A j \in Elem : j # i /\ s[j] # NotFound => s[j].pos # pos
  BY DEF Lies
<1>3. Filled(f, pos, t)
  BY DEF Lies
<1> HIDE DEF pos, t
<1>4. DOMAIN f = Pos /\ \A q \in Pos : DOMAIN f[q] = Page
  BY DEF Flash
<1>5. /\ \A q \in Pos : q # pos => g[q] = f[q]
      /\ \A p \in Page : g[pos][p] = IF BlockOf(p) = BlockOf(t) THEN Empty ELSE f[pos][p]
  BY <1>1, <1>4 DEF Wiped
<1>6. Flash(g)
  BY <1>1, <1>4 DEF Wiped, Flash
<1> HIDE DEF g
<1>7. Blank(g, pos)
  <2>1. ASSUME NEW p \in Page, BlockOf(p) # BlockOf(t) PROVE f[pos][p] = Empty
    BY <2>1, <1>3 DEF Filled, Written
  <2>2. QED
    BY <2>1, <1>5 DEF Blank
<1>8. NotFound \in Spots
  BY DEF Spots
<1>9. s[i] # NotFound => s[i].pos = pos
  BY DEF pos
<1>10. Changes(f, g, s, i, pos, NotFound)
  BY <1>2, <1>5, <1>7, <1>9 DEF Changes
<1>11. QED
  BY <1>1, <1>6, <1>8, <1>10, OneMoves DEF g, pos, t

\* Entry e may be the first of element i in the area at pos.
Starts(s, i, pos, p, e) ==
    /\ pos \in Pos /\ p \in Page /\ First(p) /\ IsEntry(i, e) /\ e.no = 0 /\ e # Empty
    /\ s[i] = NotFound /\ \A j \in Elem : j # i /\ s[j] # NotFound => s[j].pos # pos

\* Element i has its newest entry e at r[i] on g, the others have theirs as before.
Landed(f, g, s, r, i, e) ==
    /\ Flash(g) /\ r \in [Elem -> Spots] /\ Lies(g, r) /\ At(g, r[i]) = e
    /\ Keeps(f, g, s, i)

(* The first entry of an element in an erased area. *)
LEMMA StartLies ==
    ASSUME NEW f, NEW s \in [Elem -> Spots], NEW i \in Elem, NEW pos, NEW p, NEW e,
           Flash(f), Lies(f, s), Starts(s, i, pos, p, e)
    PROVE  /\ f[pos][p] = Empty
           /\ Landed(f, Put(f, pos, p, e), s, [s EXCEPT ![i] = SpotAt(pos, p)], i, e)
<1> DEFINE g == Put(f, pos, p, e)
           new == SpotAt(pos, p)
<1>0. /\ pos \in Pos /\ p \in Page /\ First(p) /\ IsEntry(i, e) /\ e.no = 0 /\ e # Empty
      /\ s[i] = NotFound /\ \A j \in Elem : j # i /\ s[j] # NotFound => s[j].pos # pos
  BY DEF Starts
<1>1. DOMAIN f = Pos /\ \A q \in Pos : DOMAIN f[q] = Page
  BY DEF Flash
<1>2. /\ \A q \in Pos : q # pos => g[q] = f[q]
      /\ \A q \in Page : g[pos][q] = IF q = p THEN e ELSE f[pos][q]
  BY <1>0, <1>1 DEF Put
<1>3. Flash(g)
  BY <1>0, <1>1 DEF Put, Flash
<1>4. Blank(f, pos)
  <2>1. \A j \in Elem : s[j] = NotFound \/ s[j].pos # pos
    BY <1>0
  <2>2. QED
    BY <1>0, <2>1 DEF Lies
<1>5. new \in Spot /\ new \in Spots /\ new.pos = pos /\ new.page = p /\ new # NotFound
  BY <1>0 DEF SpotAt, Spot, Spots, NotFound
<1> HIDE DEF g, new
<1>6. At(g, new) = e
  BY <1>0, <1>2, <1>5 DEF At
<1>7. Written(p) = {p}
  <2>1. \A q \in Page : BlockOf(q) = BlockOf(p) /\ q <= p => q = p
    <3>1. Page \subseteq Nat
      BY BlocksInOrder
    <3>2. QED
      BY <1>0, <3>1 DEF First
  <2>2. p <= p
    BY <1>0, BlocksInOrder
  <2>3. QED
    BY <1>0, <2>1, <2>2 DEF Written
<1>8. Filled(g, pos, p)
  <2>1. \A q \in Page : g[pos][q] # Empty <=> q \in Written(p)
    BY <1>0, <1>2, <1>4, <1>7 DEF Blank
  <2>2. p \in Nat /\ 0 \in 0 .. p + 1
    BY <1>0, BlocksInOrder
  <2>3. \A q \in Written(p) : g[pos][q].no \in 0 .. q + 1
    BY <1>0, <1>2, <1>7, <2>2
  <2>4. \A q, q2 \in Written(p) : ~ (q < q2)
    BY <1>7, <2>2
  <2>5. QED
    BY <2>1, <2>3, <2>4 DEF Filled
<1>9. [s EXCEPT ![i] = new][i] = new
  BY <1>0
<1>10. f[pos][p] = Empty
  BY <1>0, <1>4 DEF Blank
<1>11. Changes(f, g, s, i, pos, new)
  BY <1>0, <1>2, <1>5, <1>6, <1>8 DEF Changes
<1>12. QED
  BY <1>0, <1>3, <1>5, <1>6, <1>9, <1>10, <1>11, OneMoves DEF g, new, Landed

(* Another entry of an element in its block. *)
LEMMA AppendLies ==
    ASSUME NEW f, NEW s \in [Elem -> Spots], NEW i \in Elem, NEW e,
           Flash(f), Lies(f, s), s[i] # NotFound,
           s[i].page + 1 \in Page, BlockOf(s[i].page + 1) = BlockOf(s[i].page),
           IsEntry(i, e), e.no = At(f, s[i]).no + 1, e # Empty
    PROVE  LET pos == s[i].pos
               p == s[i].page + 1
               g == Put(f, pos, p, e)
               r == [s EXCEPT ![i] = SpotAt(pos, p)]
           IN  /\ f[pos][p] = Empty
               /\ Flash(g) /\ r \in [Elem -> Spots] /\ Lies(g, r) /\ At(g, r[i]) = e
               /\ Keeps(f, g, s, i)
<1> DEFINE pos == s[i].pos
           t == s[i].page
           p == t + 1
           g == Put(f, pos, p, e)
           new == SpotAt(pos, p)
<1>1. pos \in Pos /\ t \in Page /\ p \in Page /\ t \in Nat /\ p = t + 1
  BY SpotIs, BlocksInOrder DEF Spot
<1>2. \A j \in Elem : j # i /\ s[j] # NotFound => s[j].pos # pos
  BY DEF Lies
<1>3. Filled(f, pos, t) /\ At(f, s[i]) = f[pos][t]
  BY DEF Lies, At
<1>4. BlockOf(p) = BlockOf(t)
  OBVIOUS
<1>5. e.no = f[pos][t].no + 1 /\ (s[i] # NotFound => s[i].pos = pos)
  BY <1>3
<1> HIDE DEF pos, t, p
<1>6. DOMAIN f = Pos /\ \A q \in Pos : DOMAIN f[q] = Page
  BY DEF Flash
<1>7. /\ \A q \in Pos : q # pos => g[q] = f[q]
      /\ \A q \in Page : g[pos][q] = IF q = p THEN e ELSE f[pos][q]
  BY <1>1, <1>6 DEF Put
<1>8. Flash(g)
  BY <1>1, <1>6 DEF Put, Flash
<1>9. new \in Spot /\ new \in Spots /\ new.pos = pos /\ new.page = p /\ new # NotFound
  BY <1>1 DEF SpotAt, Spot, Spots, NotFound
<1> HIDE DEF g, new
<1>10. At(g, new) = e
  BY <1>1, <1>7, <1>9 DEF At
<1> DEFINE W == Written(t)
           no(q) == f[pos][q].no
<1>11. \A q \in Page : q \in Nat
  BY BlocksInOrder
<1>12. t \in W /\ W \subseteq Page /\ p \notin W /\ (\A q \in W : q <= t)
  BY <1>1, <1>11 DEF Written
<1>13. Written(p) = W \cup {p}
  <2>1. \A q \in Page : q <= p <=> q <= t \/ q = p
    BY <1>1, <1>11
  <2>2. QED
    BY <2>1, <1>1, <1>4 DEF Written
<1>14. (\A q \in W : no(q) \in 0 .. q + 1) /\ (\A q, q2 \in W : q < q2 => no(q) < no(q2))
       /\ (\A q \in Page : f[pos][q] # Empty <=> q \in W)
  BY <1>3 DEF Filled
<1>15. \A q \in W : g[pos][q].no = no(q)
  BY <1>7, <1>12
<1>16. g[pos][p].no = no(t) + 1
  BY <1>1, <1>5, <1>7
<1> HIDE DEF W, no
<1>17. no(t) \in 0 .. t + 1 /\ no(t) \in Nat
  BY <1>1, <1>12, <1>14
<1>18. Filled(g, pos, p)
  <2>1. \A q \in Page : g[pos][q] # Empty <=> q \in Written(p)
    BY <1>7, <1>13, <1>14
  <2>2. \A q \in Written(p) : g[pos][q].no \in 0 .. q + 1
    <3>1. g[pos][p].no \in 0 .. p + 1
      BY <1>1, <1>16, <1>17
    <3>2. QED
      BY <3>1, <1>13, <1>14, <1>15
  <2>3. \A q, q2 \in Written(p) : q < q2 => g[pos][q].no < g[pos][q2].no
    <3>1. ASSUME NEW q \in W PROVE no(q) < no(t) + 1
      <4>1. q \in Nat /\ q <= t /\ no(q) \in Nat
        BY <1>11, <1>12, <1>14
      <4>2. CASE q = t
        BY <4>1, <4>2
      <4>3. CASE q < t
        BY <4>1, <4>3, <1>12, <1>14, <1>17
      <4>4. QED
        BY <4>1, <4>2, <4>3, <1>1
    <3>2. \A q \in W : ~ (p < q)
      BY <1>1, <1>11, <1>12
    <3>3. ~ (p < p)
      BY <1>1
    <3>4. \A q \in Written(p) : q \in W \/ q = p
      BY <1>13
    <3>5. TAKE q, q2 \in Written(p)
    <3>6. HAVE q < q2
    <3>7. CASE q2 = p
      <4>1. q \in W
        BY <3>3, <3>4, <3>6, <3>7
      <4>2. QED
        BY <4>1, <3>1, <3>7, <1>15, <1>16
    <3>8. CASE q2 # p
      <4>1. q2 \in W /\ q \in W
        BY <3>2, <3>4, <3>6, <3>8
      <4>2. QED
        BY <4>1, <3>6, <1>14, <1>15
    <3>9. QED
      BY <3>7, <3>8
  <2>4. QED
    BY <2>1, <2>2, <2>3 DEF Filled
<1>19. [s EXCEPT ![i] = new][i] = new
  OBVIOUS
<1>20. f[pos][p] = Empty
  BY <1>1, <1>12, <1>14
<1>21. /\ [s EXCEPT ![i] = new] \in [Elem -> Spots] /\ Lies(g, [s EXCEPT ![i] = new])
       /\ Keeps(f, g, s, i)
  <2>1. Changes(f, g, s, i, pos, new)
    BY <1>2, <1>5, <1>7, <1>9, <1>10, <1>18 DEF Changes
  <2>2. QED
    BY <1>1, <1>9, <2>1, OneMoves
<1>22. QED
  BY <1>8, <1>10, <1>19, <1>20, <1>21 DEF g, new, p, pos, t

-----------------------------------------------------------------------------
(* Areas and maps *)

(* Every position is the position of one area. *)
LEMMA Positions ==
    /\ \A pos \in Pos : AreaOn(pos) \in Area /\ Position[AreaOn(pos)] = pos
    /\ \A a \in Area : Position[a] \in Pos /\ AreaOn(Position[a]) = a
    /\ 0 \in Area /\ 0 \in Pos /\ AreaOn(0) = 0
<1>1. AreasNo \in Nat /\ AreasNo > 4
  BY AreasAssumption, ChainAssumption
<1>2. IsFiniteSet(Area) /\ Pos = Area
  BY <1>1, FS_Interval DEF Area, Pos
<1>3. /\ Position \in [Area -> Pos] /\ Position[0] = 0
      /\ \A a, b \in Area : Position[a] = Position[b] => a = b
  BY ChainAssumption
<1>4. Position \in Injection(Area, Pos)
  BY <1>3 DEF Injection, IsInjective
<1>5. Position \in Surjection(Area, Pos)
  BY <1>2, <1>4, FS_Injection
<1>6. \A pos \in Pos : \E a \in Area : Position[a] = pos
  BY <1>5 DEF Surjection
<1>7. \A pos \in Pos : AreaOn(pos) \in Area /\ Position[AreaOn(pos)] = pos
  BY <1>6 DEF AreaOn
<1>8. 0 \in Area
  BY <1>1 DEF Area
<1>9. QED
  BY <1>2, <1>3, <1>7, <1>8

(* Two maps are equal if their changing fields are. *)
LEMMA MapsEqual ==
    ASSUME NEW m \in Maps, NEW n \in Maps,
           \A a \in Area : m.type[a] = n.type[a] /\ m.status[a] = n.status[a],
           \A t \in AreaType : m.active[t] = n.active[t],
           m.used = n.used
    PROVE  m = n
<1>1. m.type = n.type /\ m.status = n.status
  BY DEF Maps
<1>2. m.active = n.active
  BY DEF Maps
<1>3. m.erasecount = n.erasecount
  BY DEF Maps
<1>4. m.pos = n.pos /\ m.deletions = n.deletions
  BY DEF Maps
<1>5. QED
  BY <1>1, <1>2, <1>3, <1>4 DEF Maps

(* The areas in use are counted. *)
LEMMA Counting ==
    ASSUME NEW m \in Maps
    PROVE  IsFiniteSet(InUse(m)) /\ Count(m) \in 0 .. AreasNo
<1>1. IsFiniteSet(Area) /\ Cardinality(Area) = AreasNo /\ AreasNo \in Nat
  <2>1. AreasNo \in Nat /\ AreasNo > 4
    BY AreasAssumption, ChainAssumption
  <2>2. QED
    BY <2>1, FS_Interval DEF Area
<1>2. InUse(m) \in SUBSET Area
  BY DEF InUse
<1>3. IsFiniteSet(InUse(m)) /\ Cardinality(InUse(m)) <= Cardinality(Area)
  BY <1>1, <1>2, FS_Subset
<1>4. Cardinality(InUse(m)) \in Nat
  BY <1>3, FS_CardinalityType
<1>5. QED
  BY <1>1, <1>3, <1>4 DEF Count

(* An area that is taken counts. *)
LEMMA CountTaken ==
    ASSUME NEW m \in Maps, NEW n, NEW a \in Area, NEW x, m.status[a] = "empty", x # "empty",
           n.status = [m.status EXCEPT ![a] = x]
    PROVE  Count(n) = Count(m) + 1
<1>1. InUse(n) = InUse(m) \cup {a} /\ a \notin InUse(m)
  BY DEF InUse, Maps
<1>2. IsFiniteSet(InUse(m))
  BY Counting
<1>3. QED
  BY <1>1, <1>2, FS_AddElement DEF Count

(* An area that is given back counts no longer. *)
LEMMA CountReleased ==
    ASSUME NEW m \in Maps, NEW n, NEW a \in Area, m.status[a] # "empty",
           n.status = [m.status EXCEPT ![a] = "empty"]
    PROVE  Count(n) = Count(m) - 1 /\ Count(m) > 0
<1>1. InUse(n) = InUse(m) \ {a} /\ a \in InUse(m)
  BY DEF InUse, Maps
<1>2. IsFiniteSet(InUse(m))
  BY Counting
<1>3. Count(n) = Count(m) - 1
  BY <1>1, <1>2, FS_RemoveElement DEF Count
<1>4. Count(m) # 0 /\ Count(m) \in Nat
  <2>1. Cardinality(InUse(m)) # 0
    BY <1>1, <1>2, FS_EmptySet
  <2>2. QED
    BY <2>1, Counting DEF Count
<1>5. QED
  BY <1>3, <1>4

(* The count depends on the states of the areas only. *)
LEMMA CountSame ==
    ASSUME NEW m, NEW n, m.status = n.status
    PROVE  Count(m) = Count(n)
BY DEF Count, InUse

MovedTo(m, old, a) ==
    [m EXCEPT !.status = [@ EXCEPT ![old] = "empty", ![a] = "active"], !.type[a] = "superblock"]

(* What the entry of a moved element says of the map. *)
LEMMA Moving ==
    ASSUME NEW m \in Maps, NEW addr \in Spot, NEW prev \in Area
    PROVE  AfterMove(m, addr, prev) = IF prev = 0 THEN m ELSE MovedTo(m, prev, AreaOn(addr.pos))
<1>1. m.pos = Position
  BY DEF Maps
<1>2. AreaOn(addr.pos) = CHOOSE a \in Area : m.pos[a] = addr.pos
  BY <1>1 DEF AreaOn
<1>3. QED
  BY <1>2 DEF AfterMove, MovedTo

(* It says nothing new if the area it left is free and the one it is in is
   known to be the superblock's. *)
LEMMA MovedBefore ==
    ASSUME NEW m \in Maps, NEW addr \in Spot, NEW prev \in Area, Left(m, prev),
           m.type[AreaOn(addr.pos)] = "superblock", m.status[AreaOn(addr.pos)] = "active"
    PROVE  AfterMove(m, addr, prev) = m
<1> DEFINE now == AreaOn(addr.pos)
           n == MovedTo(m, prev, now)
<1>1. now \in Area
  <2>1. addr.pos \in Pos
    BY DEF Spot
  <2>2. QED
    BY <2>1, Positions
<1>2. m.type[now] = "superblock" /\ m.status[now] = "active"
  OBVIOUS
<1> HIDE DEF now
<1>3. CASE prev = 0
  BY <1>3, Moving
<1>4. CASE prev # 0
  <2>1. m.status[prev] = "empty"
    BY <1>4 DEF Left
  <2>2. m.status \in [Area -> AreaStatus] /\ m.type \in [Area -> AreaType]
    BY DEF Maps
  <2>3. [m.status EXCEPT ![prev] = "empty", ![now] = "active"] = m.status
    BY <2>1, <2>2, <1>1, <1>2
  <2>4. [m.type EXCEPT ![now] = "superblock"] = m.type
    BY <2>2, <1>1, <1>2
  <2>5. n = [m EXCEPT !.status = m.status, !.type = m.type]
    BY <2>3, <2>4 DEF MovedTo
  <2>6. n = m
    BY <2>5 DEF Maps
  <2>7. QED
    BY <2>6, <1>4, Moving DEF now
<1>5. QED
  BY <1>3, <1>4

(* A move keeps the map a map, and the number of used areas. *)
LEMMA MovedMap ==
    ASSUME NEW m \in Maps, NEW addr \in Spot, NEW prev \in Area
    PROVE  AfterMove(m, addr, prev) \in Maps /\ AfterMove(m, addr, prev).used = m.used
<1> DEFINE now == AreaOn(addr.pos)
           n == MovedTo(m, prev, now)
<1>1. now \in Area
  <2>1. addr.pos \in Pos
    BY DEF Spot
  <2>2. QED
    BY <2>1, Positions
<1>2. {"active", "empty"} \subseteq AreaStatus /\ "superblock" \in AreaType
  BY DEF AreaStatus, AreaType
<1> HIDE DEF now
<1>3. n \in Maps /\ n.used = m.used
  BY <1>1, <1>2 DEF MovedTo, Maps
<1>4. QED
  BY <1>3, Moving DEF now

-----------------------------------------------------------------------------
(* Replaying the log *)

(* What an entry does to a map, field by field. *)
LEMMA AppliedIs ==
    ASSUME NEW m \in Maps, NEW e \in LogEntry
    PROVE  /\ Applied(m, e) \in Maps
           /\ \A a \in Area : Applied(m, e).type[a] =
                 IF e.op = "type" /\ e.area = a THEN e.type ELSE m.type[a]
           /\ \A a \in Area : Applied(m, e).status[a] =
                 IF e.op = "status" /\ e.area = a THEN e.status
                 ELSE IF e.op = "activeArea" /\ e.area = a THEN "active" ELSE m.status[a]
           /\ \A t \in AreaType : Applied(m, e).active[t] =
                 IF e.op = "activeArea" /\ e.type = t THEN e.area ELSE m.active[t]
           /\ Applied(m, e).used = IF e.op = "usedAreas" THEN e.used ELSE m.used
<1> DEFINE n == Applied(m, e)
<1>1. CASE e.op = "type"
  <2>1. n = [m EXCEPT !.type[e.area] = e.type] /\ e.area \in Area /\ e.type \in AreaType
    BY <1>1 DEF Applied, setType, LogEntry
  <2> HIDE DEF n
  <2>2. QED
    BY <2>1, <1>1 DEF Maps, n
<1>2. CASE e.op = "status"
  <2>1. n = [m EXCEPT !.status[e.area] = e.status] /\ e.area \in Area /\ e.status \in AreaStatus
    BY <1>2 DEF Applied, setStatus, LogEntry
  <2> HIDE DEF n
  <2>2. QED
    BY <2>1, <1>2 DEF Maps, n
<1>3. CASE e.op = "activeArea"
  <2>1. /\ n = [m EXCEPT !.status[e.area] = "active", !.active[e.type] = e.area]
        /\ e.area \in Area /\ e.type \in AreaType /\ "active" \in AreaStatus
    BY <1>3 DEF Applied, setActiveArea, LogEntry, AreaStatus
  <2>2. /\ m.status \in [Area -> AreaStatus] /\ m.active \in [AreaType -> Area]
        /\ m.type \in [Area -> AreaType] /\ m.used \in Nat
    BY DEF Maps
  <2> DEFINE status == [m.status EXCEPT ![e.area] = "active"]
             active == [m.active EXCEPT ![e.type] = e.area]
  <2>3. status \in [Area -> AreaStatus] /\ active \in [AreaType -> Area]
    BY <2>1, <2>2
  <2>4. \A a \in Area : status[a] = IF e.area = a THEN "active" ELSE m.status[a]
    BY <2>1, <2>2
  <2>5. \A t \in AreaType : active[t] = IF e.type = t THEN e.area ELSE m.active[t]
    BY <2>1, <2>2
  <2>6. n = [m EXCEPT !.status = status, !.active = active]
    BY <2>1
  <2> HIDE DEF n, status, active
  <2>7. n.status = status /\ n.active = active /\ n.type = m.type /\ n.used = m.used
    BY <2>6 DEF Maps
  <2>8. n \in Maps
    BY <2>3, <2>6 DEF Maps
  <2>9. QED
    BY <2>4, <2>5, <2>7, <2>8, <1>3 DEF n
<1>4. CASE e.op = "usedAreas"
  <2>1. n = [m EXCEPT !.used = e.used] /\ e.used \in Nat
    BY <1>4 DEF Applied, setUsedAreas, LogEntry
  <2> HIDE DEF n
  <2>2. QED
    BY <2>1, <1>4 DEF Maps, n
<1>5. CASE e.op \in {"rootnode", "page", "checkpoint"}
  <2>1. n = m
    BY <1>5 DEF Applied
  <2> HIDE DEF n
  <2>2. QED
    BY <2>1, <1>5 DEF n
<1>6. e.op \in {"type", "activeArea", "status", "usedAreas", "rootnode", "page", "checkpoint"}
  BY DEF LogEntry
<1>7. QED
  BY <1>1, <1>2, <1>3, <1>4, <1>5, <1>6

\* g is the replay of l on m.
Replay(g, m, l) ==
    /\ g \in [0 .. Len(l) -> Maps] /\ g[0] = m
    /\ \A i \in 1 .. Len(l) : g[i] = Applied(g[i - 1], l[i])

(* The replay has an outcome, entry by entry. *)
LEMMA ReplayExists ==
    ASSUME NEW m \in Maps, NEW l \in Seq(LogEntry)
    PROVE  \E g : Replay(g, m, l) /\ Replayed(m, l) = g[Len(l)]
<1> DEFINE n == Len(l)
           next(i, x) == Applied(x, l[i])
           step == [i \in 1 .. n |-> [x \in Maps |-> next(i, x)]]
           Solves(f) == f = [i \in 0 .. n |-> IF i = 0 THEN m ELSE Applied(f[i - 1], l[i])]
           After == CHOOSE f : Solves(f)
<1>1. n \in Nat /\ \A i \in 1 .. n : l[i] \in LogEntry
  OBVIOUS
<1>2. \A i \in 1 .. n : \A x \in Maps : next(i, x) \in Maps
  BY <1>1, AppliedIs
<1> HIDE DEF next, n
<1>3. step \in [1 .. n -> [Maps -> Maps]]
  BY <1>2
<1>4. ASSUME NEW i \in 1 .. n, NEW x \in Maps
      PROVE  step[i][x] = next(i, x)
  OBVIOUS
<1> HIDE DEF step
<1>5. PICK f \in [0 .. n -> Maps] : f[0] = m /\ \A i \in 1 .. n : f[i] = step[i][f[i - 1]]
  <2>1. Solutions(n, Maps, m, step) # {}
    BY <1>1, <1>3, RecursionExists
  <2>2. QED
    BY <2>1 DEF Solutions
<1>6. \A i \in 1 .. n : f[i] = Applied(f[i - 1], l[i])
  <2>1. ASSUME NEW i \in 1 .. n
        PROVE  f[i] = next(i, f[i - 1])
    <3>1. f[i - 1] \in Maps
      BY <1>1
    <3>2. QED
      BY <3>1, <1>4, <1>5
  <2>2. QED
    BY <2>1 DEF next
<1>7. Solves(f)
  <2>1. f = [i \in 0 .. n |-> f[i]]
    OBVIOUS
  <2>2. \A i \in 0 .. n : f[i] = IF i = 0 THEN m ELSE Applied(f[i - 1], l[i])
    <3>1. TAKE i \in 0 .. n
    <3>2. i = 0 \/ i \in 1 .. n
      BY <1>1
    <3>3. QED
      BY <3>2, <1>5, <1>6, <1>1
  <2>3. QED
    BY <2>1, <2>2
<1>8. Solves(After)
  BY <1>7
<1>9. Replayed(m, l) = After[n]
  BY DEF Replayed, n
<1> HIDE DEF After
<1>10. \A i \in 0 .. n : After[i] = IF i = 0 THEN m ELSE Applied(After[i - 1], l[i])
  BY <1>8
<1>11. After[0] = m /\ \A i \in 1 .. n : After[i] = Applied(After[i - 1], l[i])
  <2>1. 0 \in 0 .. n /\ \A i \in 1 .. n : i \in 0 .. n /\ i # 0
    BY <1>1
  <2>2. QED
    BY <2>1, <1>10
<1>12. \A i \in 0 .. n : After[i] = f[i]
  <2>1. After[0] = f[0]
    BY <1>5, <1>11
  <2>2. ASSUME NEW i \in 1 .. n, After[i - 1] = f[i - 1]
        PROVE  After[i] = f[i]
    BY <2>2, <1>6, <1>11
  <2>3. Agree(n, After, f)
    BY <2>1, <2>2 DEF Agree
  <2>4. QED
    BY <2>3, <1>1, RecursionAgrees
<1>13. Replay(f, m, l) /\ Replayed(m, l) = f[n]
  <2>1. n \in 0 .. n
    BY <1>1
  <2>2. QED
    BY <2>1, <1>5, <1>6, <1>9, <1>12 DEF Replay, n
<1>14. QED
  BY <1>13 DEF n

(* There is one. *)
LEMMA ReplayIs ==
    ASSUME NEW m \in Maps, NEW l \in Seq(LogEntry), NEW g, Replay(g, m, l)
    PROVE  Replayed(m, l) = g[Len(l)] /\ Replayed(m, l) \in Maps
<1>1. PICK f : Replay(f, m, l) /\ Replayed(m, l) = f[Len(l)]
  BY ReplayExists
<1>2. Len(l) \in Nat
  OBVIOUS
<1>3. \A i \in 0 .. Len(l) : f[i] = g[i]
  <2>1. f[0] = g[0]
    BY <1>1 DEF Replay
  <2>2. ASSUME NEW i \in 1 .. Len(l), f[i - 1] = g[i - 1]
        PROVE  f[i] = g[i]
    BY <2>2, <1>1 DEF Replay
  <2>3. Agree(Len(l), f, g)
    BY <2>1, <2>2 DEF Agree
  <2>4. QED
    BY <2>3, <1>2, RecursionAgrees
<1>4. Len(l) \in 0 .. Len(l)
  BY <1>2
<1>5. QED
  BY <1>1, <1>3, <1>4 DEF Replay

(* A replay gives a map. *)
LEMMA ReplayType ==
    ASSUME NEW m \in Maps, NEW l \in Seq(LogEntry)
    PROVE  Replayed(m, l) \in Maps
BY ReplayExists, ReplayIs

(* Short logs. *)
LEMMA ReplayShort ==
    ASSUME NEW m \in Maps
    PROVE  /\ Replayed(m, <<>>) = m
           /\ \A e \in LogEntry : Replayed(m, <<e>>) = Applied(m, e)
<1>1. Replayed(m, <<>>) = m
  <2> DEFINE g == [i \in 0 .. 0 |-> m]
  <2>1. Replay(g, m, <<>>)
    BY DEF Replay
  <2>2. <<>> \in Seq(LogEntry) /\ g[Len(<<>>)] = m
    OBVIOUS
  <2> HIDE DEF g
  <2>3. QED
    BY <2>1, <2>2, ReplayIs
<1>2. ASSUME NEW e \in LogEntry
      PROVE  Replayed(m, <<e>>) = Applied(m, e)
  <2> DEFINE x == Applied(m, e)
             g == [i \in 0 .. 1 |-> IF i = 0 THEN m ELSE x]
  <2>1. x \in Maps
    BY AppliedIs
  <2>2. <<e>> \in Seq(LogEntry) /\ Len(<<e>>) = 1 /\ <<e>>[1] = e
    OBVIOUS
  <2>3. g \in [0 .. 1 -> Maps] /\ g[0] = m /\ g[1] = x
    BY <2>1
  <2> HIDE DEF g
  <2>4. \A i \in 1 .. 1 : g[i] = Applied(g[i - 1], <<e>>[i])
    BY <2>3, <2>2
  <2>5. Replay(g, m, <<e>>)
    BY <2>2, <2>3, <2>4 DEF Replay
  <2>6. QED
    BY <2>2, <2>3, <2>5, ReplayIs
<1>3. QED
  BY <1>1, <1>2

(* A log is replayed in parts. *)
LEMMA ReplayParts ==
    ASSUME NEW m \in Maps, NEW l \in Seq(LogEntry), NEW n \in Seq(LogEntry)
    PROVE  Replayed(m, l \o n) = Replayed(Replayed(m, l), n)
<1> DEFINE b == Len(l)
           c == Len(n)
           x == Replayed(m, l)
<1>1. /\ b \in Nat /\ c \in Nat /\ l \o n \in Seq(LogEntry) /\ Len(l \o n) = b + c
      /\ \A i \in 1 .. b : (l \o n)[i] = l[i]
      /\ \A i \in 1 .. c : (l \o n)[b + i] = n[i]
  OBVIOUS
<1>2. x \in Maps
  BY ReplayType
<1>3. PICK f : Replay(f, m, l) /\ x = f[b]
  BY ReplayExists
<1>4. PICK g : Replay(g, x, n) /\ Replayed(x, n) = g[c]
  BY <1>2, ReplayExists
<1> HIDE DEF b, c, x
<1>5. f \in [0 .. b -> Maps] /\ f[0] = m /\ f[b] = x /\ \A i \in 1 .. b : f[i] = Applied(f[i - 1], l[i])
  BY <1>3 DEF Replay, b
<1>6. g \in [0 .. c -> Maps] /\ g[0] = x /\ \A i \in 1 .. c : g[i] = Applied(g[i - 1], n[i])
  BY <1>4 DEF Replay, c
<1> DEFINE h == [i \in 0 .. b + c |-> IF i <= b THEN f[i] ELSE g[i - b]]
<1>7. h \in [0 .. b + c -> Maps]
  <2>1. ASSUME NEW i \in 0 .. b + c PROVE h[i] \in Maps
    <3>1. CASE i <= b
      <4>1. i \in 0 .. b
        BY <3>1, <1>1
      <4>2. QED
        BY <4>1, <3>1, <1>5
    <3>2. CASE ~ (i <= b)
      <4>1. i - b \in 0 .. c
        BY <3>2, <1>1
      <4>2. QED
        BY <4>1, <3>2, <1>6
    <3>3. QED
      BY <3>1, <3>2
  <2>2. QED
    BY <2>1
<1>8. \A i \in 0 .. b : h[i] = f[i]
  <2>1. \A i \in 0 .. b : i \in 0 .. b + c /\ i <= b
    BY <1>1
  <2>2. QED
    BY <2>1
<1>9. \A i \in 0 .. c : h[b + i] = g[i]
  <2>1. TAKE i \in 0 .. c
  <2>2. b + i \in 0 .. b + c /\ (b + i) - b = i
    BY <1>1
  <2>3. CASE i = 0
    BY <2>3, <1>8, <1>5, <1>6, <1>1
  <2>4. CASE i # 0
    <3>1. ~ (b + i <= b)
      BY <2>4, <1>1
    <3>2. QED
      BY <2>2, <3>1
  <2>5. QED
    BY <2>3, <2>4
<1> HIDE DEF h
<1>10. h[0] = m /\ h[b + c] = g[c]
  BY <1>1, <1>5, <1>8, <1>9
<1>11. ASSUME NEW i \in 1 .. b + c
       PROVE  h[i] = Applied(h[i - 1], (l \o n)[i])
  <2>1. CASE i <= b
    <3>1. i \in 1 .. b /\ i \in 0 .. b /\ i - 1 \in 0 .. b
      BY <2>1, <1>1
    <3>2. QED
      BY <3>1, <1>1, <1>5, <1>8
  <2>2. CASE ~ (i <= b)
    <3>1. PICK j \in 1 .. c : i = b + j
      <4>1. i - b \in 1 .. c /\ i = b + (i - b)
        BY <2>2, <1>1
      <4>2. QED
        BY <4>1
    <3>2. j \in 0 .. c /\ j - 1 \in 0 .. c /\ i - 1 = b + (j - 1)
      BY <3>1, <1>1
    <3>3. QED
      BY <3>1, <3>2, <1>1, <1>6, <1>9
  <2>3. QED
    BY <2>1, <2>2
<1>12. Replay(h, m, l \o n)
  BY <1>1, <1>7, <1>10, <1>11 DEF Replay
<1>13. Replayed(m, l \o n) = h[b + c]
  <2>1. Replayed(m, l \o n) = h[Len(l \o n)]
    BY <1>1, <1>12, ReplayIs
  <2>2. QED
    BY <2>1, <1>1
<1>14. QED
  BY <1>4, <1>10, <1>13 DEF c, x

\* A log either leaves a field alone or gives it a value, whatever map it is
\* replayed on: x and y come from m and n by the same log.
Drift(m, n, x, y) ==
    /\ \A a \in Area : \/ x.type[a] = m.type[a] /\ y.type[a] = n.type[a]
                       \/ x.type[a] = y.type[a]
    /\ \A a \in Area : \/ x.status[a] = m.status[a] /\ y.status[a] = n.status[a]
                       \/ x.status[a] = y.status[a]
    /\ \A t \in AreaType : \/ x.active[t] = m.active[t] /\ y.active[t] = n.active[t]
                           \/ x.active[t] = y.active[t]
    /\ \/ x.used = m.used /\ y.used = n.used
       \/ x.used = y.used

(* Field by field, two maps on which a log is replayed either stay as far apart
   as they were, or agree. *)
LEMMA ReplayDrift ==
    ASSUME NEW m \in Maps, NEW n \in Maps, NEW l \in Seq(LogEntry)
    PROVE  Drift(m, n, Replayed(m, l), Replayed(n, l))
<1>1. PICK f : Replay(f, m, l) /\ Replayed(m, l) = f[Len(l)]
  BY ReplayExists
<1>2. PICK g : Replay(g, n, l) /\ Replayed(n, l) = g[Len(l)]
  BY ReplayExists
<1> DEFINE P == {i \in 0 .. Len(l) : Drift(m, n, f[i], g[i])}
<1>3. Len(l) \in Nat /\ \A i \in 1 .. Len(l) : l[i] \in LogEntry
  OBVIOUS
<1>4. 0 \in P
  <2>1. Drift(m, n, m, n)
    BY DEF Drift
  <2>2. f[0] = m /\ g[0] = n /\ 0 \in 0 .. Len(l)
    BY <1>1, <1>2, <1>3 DEF Replay
  <2>3. QED
    BY <2>1, <2>2
<1>5. ASSUME NEW i \in 0 .. Len(l) - 1, i \in P
      PROVE  i + 1 \in P
  <2> DEFINE x == f[i]
             y == g[i]
             e == l[i + 1]
  <2>1. i + 1 \in 1 .. Len(l) /\ i + 1 \in 0 .. Len(l) /\ i \in 0 .. Len(l) /\ (i + 1) - 1 = i
    BY <1>3
  <2>2. e \in LogEntry
    BY <2>1, <1>3
  <2>3. x \in Maps /\ y \in Maps
    BY <2>1, <1>1, <1>2 DEF Replay
  <2>4. f[i + 1] = Applied(x, e) /\ g[i + 1] = Applied(y, e)
    BY <2>1, <1>1, <1>2 DEF Replay
  <2>5. Drift(m, n, x, y)
    BY <1>5
  <2> HIDE DEF x, y, e
  <2>6. Drift(m, n, Applied(x, e), Applied(y, e))
    <3> DEFINE u == Applied(x, e)
               v == Applied(y, e)
    <3>1. /\ \A a \in Area : u.type[a] = IF e.op = "type" /\ e.area = a THEN e.type ELSE x.type[a]
          /\ \A a \in Area : v.type[a] = IF e.op = "type" /\ e.area = a THEN e.type ELSE y.type[a]
      BY <2>2, <2>3, AppliedIs
    <3>2. /\ \A a \in Area : u.status[a] =
                IF e.op = "status" /\ e.area = a THEN e.status
                ELSE IF e.op = "activeArea" /\ e.area = a THEN "active" ELSE x.status[a]
          /\ \A a \in Area : v.status[a] =
                IF e.op = "status" /\ e.area = a THEN e.status
                ELSE IF e.op = "activeArea" /\ e.area = a THEN "active" ELSE y.status[a]
      BY <2>2, <2>3, AppliedIs
    <3>3. /\ \A t \in AreaType : u.active[t] =
                IF e.op = "activeArea" /\ e.type = t THEN e.area ELSE x.active[t]
          /\ \A t \in AreaType : v.active[t] =
                IF e.op = "activeArea" /\ e.type = t THEN e.area ELSE y.active[t]
      BY <2>2, <2>3, AppliedIs
    <3>4. /\ u.used = IF e.op = "usedAreas" THEN e.used ELSE x.used
          /\ v.used = IF e.op = "usedAreas" THEN e.used ELSE y.used
      BY <2>2, <2>3, AppliedIs
    <3> HIDE DEF u, v
    <3>5. \A a \in Area : \/ u.type[a] = m.type[a] /\ v.type[a] = n.type[a]
                          \/ u.type[a] = v.type[a]
      BY <3>1, <2>5 DEF Drift
    <3>6. \A a \in Area : \/ u.status[a] = m.status[a] /\ v.status[a] = n.status[a]
                          \/ u.status[a] = v.status[a]
      BY <3>2, <2>5 DEF Drift
    <3>7. \A t \in AreaType : \/ u.active[t] = m.active[t] /\ v.active[t] = n.active[t]
                              \/ u.active[t] = v.active[t]
      BY <3>3, <2>5 DEF Drift
    <3>8. \/ u.used = m.used /\ v.used = n.used
          \/ u.used = v.used
      BY <3>4, <2>5 DEF Drift
    <3>9. Drift(m, n, u, v)
      BY <3>5, <3>6, <3>7, <3>8 DEF Drift
    <3>10. QED
      BY <3>9 DEF u, v
  <2>7. QED
    BY <2>1, <2>4, <2>6
<1> HIDE DEF P
<1>6. 0 .. Len(l) \subseteq P
  BY <1>3, <1>4, <1>5, IntervalInduction
<1>7. Len(l) \in P
  BY <1>3, <1>6
<1>8. QED
  BY <1>1, <1>2, <1>7 DEF P

(* If a log says what the map says, then so it does with more entries, for the
   map they lead to. *)
LEMMA ReplaySettles ==
    ASSUME NEW m \in Maps, NEW l \in Seq(LogEntry), NEW n \in Seq(LogEntry), Replayed(m, l) = m
    PROVE  Replayed(Replayed(m, n), l \o n) = Replayed(m, n)
<1> DEFINE k == Replayed(m, n)
           x == Replayed(k, l)
           y == Replayed(x, n)
<1>1. k \in Maps
  BY ReplayType
<1>2. x \in Maps
  BY <1>1, ReplayType
<1>3. y \in Maps
  BY <1>2, ReplayType
<1>4. Replayed(k, l \o n) = y
  BY <1>1, ReplayParts
<1>5. Drift(m, k, m, x)
  BY <1>1, ReplayDrift
<1>6. Drift(m, x, k, y)
  BY <1>2, ReplayDrift
<1> HIDE DEF k, x, y
<1>7. \A a \in Area : y.type[a] = k.type[a] /\ y.status[a] = k.status[a]
  BY <1>5, <1>6 DEF Drift
<1>8. \A t \in AreaType : y.active[t] = k.active[t]
  BY <1>5, <1>6 DEF Drift
<1>9. y.used = k.used
  BY <1>5, <1>6 DEF Drift
<1>10. y = k
  BY <1>1, <1>3, <1>7, <1>8, <1>9, MapsEqual
<1>11. QED
  BY <1>4, <1>10 DEF k

(* Entries joined to a log. *)
LEMMA Joined ==
    ASSUME NEW l \in Seq(LogEntry), NEW n \in Seq(LogEntry)
    PROVE  /\ l \o n \in Seq(LogEntry) /\ Len(l \o n) = Len(l) + Len(n)
           /\ DOMAIN l = 1 .. Len(l) /\ DOMAIN n = 1 .. Len(n)
           /\ DOMAIN (l \o n) = 1 .. Len(l) + Len(n)
           /\ Len(l) \in Nat /\ Len(n) \in Nat
           /\ \A i \in 1 .. Len(l) : (l \o n)[i] = l[i]
           /\ \A i \in 1 .. Len(n) : (l \o n)[Len(l) + i] = n[i]
           /\ \A i \in 1 .. Len(l) + Len(n) : i \in 1 .. Len(l) \/ \E j \in 1 .. Len(n) : i = Len(l) + j
<1>1. Len(l) \in Nat /\ Len(n) \in Nat
  OBVIOUS
<1>2. ASSUME NEW i \in 1 .. Len(l) + Len(n), i \notin 1 .. Len(l)
      PROVE  \E j \in 1 .. Len(n) : i = Len(l) + j
  <2>1. i - Len(l) \in 1 .. Len(n) /\ i = Len(l) + (i - Len(l))
    BY <1>1, <1>2
  <2>2. QED
    BY <2>1
<1>3. QED
  BY <1>1, <1>2

(* The last root node registered is the one that counts. *)
LEMMA RootIs ==
    ASSUME NEW l \in Seq(LogEntry), NEW i \in RootEntries(l), \A j \in RootEntries(l) : j <= i, NEW r
    PROVE  ReplayedRoot(r, l) = l[i].root
<1>1. RootEntries(l) \in SUBSET Nat
  BY DEF RootEntries
<1>2. Max(RootEntries(l)) = i
  BY <1>1, MaxIs
<1>3. QED
  BY <1>2 DEF ReplayedRoot

(* There is a last entry that registers a root node, if there is any. *)
LEMMA RootLast ==
    ASSUME NEW l \in Seq(LogEntry), RootEntries(l) # {}
    PROVE  \E i \in RootEntries(l) : \A j \in RootEntries(l) : j <= i
<1>1. RootEntries(l) \in SUBSET Nat /\ \A i \in RootEntries(l) : i <= Len(l)
  BY DEF RootEntries
<1>2. Len(l) \in Nat
  OBVIOUS
<1>3. IsFiniteSet(RootEntries(l))
  BY <1>1, <1>2, FS_BoundedSetOfNaturals
<1>4. QED
  BY <1>1, <1>3, LargestElement

(* Other entries do not change the root node that is found. *)
LEMMA RootKept ==
    ASSUME NEW l \in Seq(LogEntry), NEW n \in Seq(LogEntry), \A i \in 1 .. Len(n) : n[i].op # "rootnode",
           NEW r
    PROVE  ReplayedRoot(r, l \o n) = ReplayedRoot(r, l)
<1>1. RootEntries(l \o n) = RootEntries(l)
  <2>1. ASSUME NEW i \in RootEntries(l) PROVE i \in RootEntries(l \o n)
    <3>1. i \in 1 .. Len(l) /\ l[i].op = "rootnode"
      BY Joined DEF RootEntries
    <3>2. i \in 1 .. Len(l) + Len(n)
      BY <3>1, Joined
    <3>3. QED
      BY <3>1, <3>2, Joined DEF RootEntries
  <2>2. ASSUME NEW i \in RootEntries(l \o n) PROVE i \in RootEntries(l)
    <3>1. i \in 1 .. Len(l) + Len(n) /\ (l \o n)[i].op = "rootnode"
      BY Joined DEF RootEntries
    <3>2. i \in 1 .. Len(l)
      BY <3>1, Joined
    <3>3. QED
      BY <3>1, <3>2, Joined DEF RootEntries
  <2>3. QED
    BY <2>1, <2>2
<1>2. CASE RootEntries(l) = {}
  BY <1>1, <1>2 DEF ReplayedRoot
<1>3. CASE RootEntries(l) # {}
  <2>1. PICK i \in RootEntries(l) : \A j \in RootEntries(l) : j <= i
    BY <1>3, RootLast
  <2>2. ReplayedRoot(r, l) = l[i].root
    BY <2>1, RootIs
  <2> DEFINE k == l \o n
  <2>3. ReplayedRoot(r, k) = k[i].root
    <3>1. k \in Seq(LogEntry) /\ i \in RootEntries(k) /\ \A j \in RootEntries(k) : j <= i
      BY <2>1, <1>1, Joined
    <3> HIDE DEF k
    <3>2. QED
      BY <3>1, RootIs
  <2>4. (l \o n)[i] = l[i]
    BY Joined DEF RootEntries
  <2>5. QED
    BY <2>2, <2>3, <2>4
<1>4. QED
  BY <1>2, <1>3

(* A root node that was just registered is found. *)
LEMMA RootAppended ==
    ASSUME NEW l \in Seq(LogEntry), NEW x \in 0 .. Roots - 1, NEW r
    PROVE  /\ Append(l, Rootnode(x)) \in Seq(LogEntry)
           /\ Append(l, Rootnode(x)) = l \o <<Rootnode(x)>>
           /\ ReplayedRoot(r, Append(l, Rootnode(x))) = x
<1> DEFINE e == Rootnode(x)
           k == Append(l, e)
           i == Len(l) + 1
<1>1. e \in LogEntry /\ e.op = "rootnode" /\ e.root = x
  BY DEF Rootnode, LogEntry
<1> HIDE DEF e
<1>2. k \in Seq(LogEntry) /\ k = l \o <<e>>
  BY <1>1
<1>3. Len(l) \in Nat /\ DOMAIN k = 1 .. i /\ k[i] = e /\ i \in 1 .. i
  BY <1>1
<1> HIDE DEF k
<1>4. i \in RootEntries(k) /\ \A j \in RootEntries(k) : j <= i
  BY <1>1, <1>3 DEF RootEntries
<1>5. ReplayedRoot(r, k) = x
  BY <1>1, <1>2, <1>3, <1>4, RootIs
<1>6. QED
  BY <1>2, <1>5 DEF k, e

(* If no registered root node differs from r, then r is found. *)
LEMMA RootSame ==
    ASSUME NEW l \in Seq(LogEntry), NEW r, ~ ReplayedDirty(r, l)
    PROVE  ReplayedRoot(r, l) = r
<1>1. CASE RootEntries(l) = {}
  BY <1>1 DEF ReplayedRoot
<1>2. CASE RootEntries(l) # {}
  <2>1. PICK i \in RootEntries(l) : \A j \in RootEntries(l) : j <= i
    BY <1>2, RootLast
  <2>2. QED
    BY <2>1, RootIs DEF ReplayedDirty
<1>3. QED
  BY <1>1, <1>2

(* A changed page makes its summary dirty until the summaries are committed. *)
LEMMA DirtyLogged ==
    ASSUME NEW l \in Seq(LogEntry), NEW n \in Seq(LogEntry), n # <<>>, n[Len(n)] = PageStatus
    PROVE  ReplayedSumDirty(l \o n)
<1> DEFINE k == l \o n
           i == Len(l) + Len(n)
<1>1. Len(n) \in 1 .. Len(n) /\ i \in DOMAIN k /\ k[i] = PageStatus /\ Len(k) = i /\ i \in Nat
  <2>1. Len(n) \in Nat /\ Len(n) # 0
    OBVIOUS
  <2>2. QED
    BY <2>1, Joined
<1>2. \A j \in i .. Len(k) : j = i
  BY <1>1
<1>3. PageStatus # SumCheckpoint
  BY DEF PageStatus, SumCheckpoint
<1>4. QED
  BY <1>1, <1>2, <1>3 DEF ReplayedSumDirty

(* A log that leaves no summary dirty goes on doing so until a page changes. *)
LEMMA DirtyKept ==
    ASSUME NEW l \in Seq(LogEntry), NEW n \in Seq(LogEntry), ~ ReplayedSumDirty(l),
           \A i \in 1 .. Len(n) : n[i] # PageStatus
    PROVE  ~ ReplayedSumDirty(l \o n)
<1> SUFFICES ASSUME NEW i \in DOMAIN (l \o n), (l \o n)[i] = PageStatus,
                    \A j \in i .. Len(l \o n) : (l \o n)[j] # SumCheckpoint
             PROVE  FALSE
  BY DEF ReplayedSumDirty
<1>1. i \in 1 .. Len(l)
  BY Joined
<1>2. l[i] = PageStatus
  BY <1>1, Joined
<1>3. ASSUME NEW j \in i .. Len(l) PROVE l[j] # SumCheckpoint
  <2>1. j \in 1 .. Len(l) /\ j \in i .. Len(l \o n)
    BY <1>1, Joined
  <2>2. QED
    BY <2>1, Joined
<1>4. i \in DOMAIN l
  BY <1>1
<1>5. QED
  BY <1>2, <1>3, <1>4 DEF ReplayedSumDirty

(* The checkpoint of the summaries leaves none of them dirty. *)
LEMMA DirtyRetired ==
    ASSUME NEW l \in Seq(LogEntry)
    PROVE  ~ ReplayedSumDirty(l \o <<SumCheckpoint>>)
<1> DEFINE k == l \o <<SumCheckpoint>>
           b == Len(l) + 1
<1>1. SumCheckpoint \in LogEntry
  BY DEF SumCheckpoint, LogEntry
<1>2. Len(k) = b /\ k[b] = SumCheckpoint /\ DOMAIN k = 1 .. b /\ b \in Nat
  BY <1>1
<1> HIDE DEF k, b
<1>3. \A i \in DOMAIN k : b \in i .. Len(k)
  BY <1>2
<1>4. ~ ReplayedSumDirty(k)
  BY <1>2, <1>3 DEF ReplayedSumDirty
<1>5. QED
  BY <1>4 DEF k

-----------------------------------------------------------------------------
(* Finding the chain *)

(* A mount finds the chain. *)
LEMMA ChainFound ==
    ASSUME Careful, NEW f, NEW s, NEW m, Chained(f, s, m)
    PROVE  ChainOf(f) = s /\ ChainOf(f) # NotFound
<1>1. s \in [Elem -> Spot] /\ Lies(f, s) /\ 0 \in Elem /\ 1 \in Elem /\ 2 \in Elem
  BY DEF Chained, Elem
<1>2. ASSUME NEW i \in Elem
      PROVE  /\ s[i] # NotFound /\ s[i] = SpotAt(s[i].pos, s[i].page)
             /\ NewestInArea(f, s[i].pos) = s[i] /\ IsEntry(i, At(f, s[i]))
  <2>1. s[i] \in Spot
    BY <1>1
  <2>2. s[i] # NotFound /\ s[i].pos \in Pos /\ s[i].page \in Page
    BY <2>1 DEF NotFound, Spot
  <2>3. s[i] = SpotAt(s[i].pos, s[i].page)
    BY <2>1 DEF Spot, SpotAt
  <2>4. Filled(f, s[i].pos, s[i].page) /\ IsEntry(i, At(f, s[i]))
    BY <1>1, <2>2 DEF Lies
  <2>5. NewestInArea(f, s[i].pos) = SpotAt(s[i].pos, s[i].page)
    BY <2>2, <2>4, Newest
  <2>6. QED
    BY <2>2, <2>3, <2>4, <2>5
<1>3. /\ s[0].pos = 0 /\ At(f, s[0]).next = s[1].pos /\ At(f, s[1]).next = s[2].pos
      /\ isPlausible(At(f, s[2]).map)
  BY DEF Chained, Points, Index
<1>4. NewestInArea(f, 0) = s[0] /\ Successor(f, s[0]) = s[1] /\ Successor(f, s[1]) = s[2]
  BY <1>1, <1>2, <1>3 DEF Successor
<1>5. s[1].pos # 0 /\ s[2].pos # 0
  <2>1. \A i, j \in Elem : i # j /\ s[i] # NotFound /\ s[j] # NotFound => s[i].pos # s[j].pos
    BY <1>1 DEF Lies
  <2>2. QED
    BY <1>1, <1>2, <1>3, <2>1
<1>6. At(f, s[1]).kind = "pad" /\ At(f, s[2]).kind = "superindex"
  BY <1>1, <1>2 DEF IsEntry, Kind
<1>7. Whole(f, s[2])
  <2>1. 1 .. SuperPages - 1 = {}
    BY DEF Careful
  <2>2. QED
    BY <2>1, <1>6 DEF Whole
<1>8. s = [i \in Elem |-> IF i = 0 THEN s[0] ELSE IF i = 1 THEN s[1] ELSE s[2]]
  <2>1. \A i \in Elem : i = 0 \/ i = 1 \/ i = 2
    BY DEF Elem
  <2>2. QED
    BY <1>1, <2>1
<1>9. ChainOf(f) = s
  BY <1>1, <1>2, <1>3, <1>4, <1>5, <1>6, <1>7, <1>8 DEF ChainOf
<1>10. s # NotFound
  <2>1. DOMAIN s = Elem /\ DOMAIN NotFound = {"kind"} /\ 0 # 1
    BY <1>1 DEF NotFound
  <2>2. 0 \in Elem /\ 1 \in Elem
    BY <1>1
  <2>3. QED
    BY <2>1, <2>2
<1>11. QED
  BY <1>9, <1>10

(* What the superindex and the moves say is a map with its number of used areas. *)
LEMMA MapOfType ==
    ASSUME NEW f, NEW s, NEW m, Chained(f, s, m)
    PROVE  /\ MapOf(f, s) \in Maps /\ MapOf(f, s).used = Index(f, s).map.used
           /\ Index(f, s).root \in 0 .. Roots - 1
           /\ \A i \in Elem : At(f, s[i]).no \in Nat
<1>1. s \in [Elem -> Spot] /\ Lies(f, s) /\ 1 \in Elem /\ 2 \in Elem
  BY DEF Chained, Elem
<1>2. ASSUME NEW i \in Elem
      PROVE  s[i] \in Spot /\ IsEntry(i, At(f, s[i])) /\ Filled(f, s[i].pos, s[i].page)
  <2>1. s[i] \in Spot /\ s[i] # NotFound
    BY <1>1 DEF NotFound, Spot
  <2>2. QED
    BY <1>1, <2>1 DEF Lies
<1> DEFINE x == At(f, s[2])
           n == AfterMove(x.map, s[2], x.prev)
<1>3. x.map \in Maps /\ x.prev \in Area /\ x.root \in 0 .. Roots - 1 /\ At(f, s[1]).prev \in Area
  BY <1>1, <1>2 DEF IsEntry
<1>4. n \in Maps /\ n.used = x.map.used
  BY <1>1, <1>2, <1>3, MovedMap
<1>5. MapOf(f, s) = AfterMove(n, s[1], At(f, s[1]).prev)
  BY DEF MapOf
<1> HIDE DEF n, x
<1>6. MapOf(f, s) \in Maps /\ MapOf(f, s).used = x.map.used
  BY <1>1, <1>2, <1>3, <1>4, <1>5, MovedMap
<1>7. ASSUME NEW i \in Elem PROVE At(f, s[i]).no \in Nat
  <2> DEFINE t == s[i].page
  <2>1. t \in Page /\ Filled(f, s[i].pos, t) /\ At(f, s[i]) = f[s[i].pos][t]
    BY <1>2 DEF Spot, At
  <2> HIDE DEF t
  <2>2. t \in Nat
    BY <2>1, BlocksInOrder
  <2>3. t \in Written(t)
    BY <2>1, <2>2 DEF Written
  <2>4. At(f, s[i]).no \in 0 .. t + 1
    BY <2>1, <2>3 DEF Filled
  <2>5. QED
    BY <2>2, <2>4
<1>8. QED
  BY <1>3, <1>6, <1>7 DEF x, Index

-----------------------------------------------------------------------------
(* Programs *)

IsProgram(p) == p \in Seq(Range(p))

(* Instructions in front of a program. *)
LEMMA Programs ==
    ASSUME NEW e, NEW p, IsProgram(p)
    PROVE  /\ IsProgram(Cons(e, p)) /\ Cons(e, p) # <<>>
           /\ Head(Cons(e, p)) = e /\ Tail(Cons(e, p)) = p
           /\ <<>> \o p = p /\ p \o <<>> = p /\ <<e>> \o p = Cons(e, p)
           /\ Range(Cons(e, p)) = {e} \cup Range(p)
<1> DEFINE S == {e} \cup Range(p)
           q == Cons(e, p)
<1>1. p \in Seq(S)
  BY DEF IsProgram
<1>2. e \in S
  OBVIOUS
<1>3. q \in Seq(S) /\ q # <<>> /\ Head(q) = e /\ Tail(q) = p
  BY <1>1, <1>2 DEF Cons
<1>4. <<>> \o p = p /\ p \o <<>> = p
  BY <1>1
<1>5. Range(q) = S
  <2>1. Len(p) \in Nat /\ DOMAIN q = 1 .. Len(p) + 1 /\ q[1] = e /\ DOMAIN p = 1 .. Len(p)
        /\ \A i \in 1 .. Len(p) : q[i + 1] = p[i]
    BY <1>1, <1>2 DEF Cons
  <2>2. \A x \in S : \E i \in DOMAIN q : q[i] = x
    <3>1. 1 \in DOMAIN q
      BY <2>1
    <3>2. \A i \in 1 .. Len(p) : i + 1 \in DOMAIN q
      BY <2>1
    <3>3. \A x \in Range(p) : \E i \in 1 .. Len(p) : p[i] = x
      BY <2>1 DEF Range
    <3>4. ASSUME NEW x \in Range(p)
          PROVE  \E i \in DOMAIN q : q[i] = x
      <4>1. PICK i \in 1 .. Len(p) : p[i] = x
        BY <3>3
      <4>2. q[i + 1] = x /\ i + 1 \in DOMAIN q
        BY <4>1, <3>2, <2>1
      <4>3. QED
        BY <4>2
    <3>5. QED
      BY <3>1, <3>4, <2>1
  <2>3. \A i \in DOMAIN q : q[i] \in S
    BY <1>3
  <2>4. QED
    BY <2>2, <2>3 DEF Range
<1>6. IsProgram(q)
  BY <1>3, <1>5 DEF IsProgram
<1>7. QED
  BY <1>3, <1>4, <1>5, <1>6 DEF Cons

(* Short programs, one instruction after the other. *)
LEMMA ShortPrograms ==
    /\ IsProgram(<<>>) /\ Range(<<>>) = {}
    /\ \A a : <<a>> = Cons(a, <<>>)
    /\ \A a, b : <<a, b>> = Cons(a, <<b>>)
    /\ \A a, b, c : <<a, b, c>> = Cons(a, <<b, c>>)
<1>1. IsProgram(<<>>) /\ Range(<<>>) = {}
  BY DEF IsProgram, Range
<1>2. ASSUME NEW a PROVE <<a>> = Cons(a, <<>>)
  BY DEF Cons
<1>3. ASSUME NEW a, NEW b PROVE <<a, b>> = Cons(a, <<b>>)
  <2>1. <<a>> \in Seq({a, b}) /\ <<b>> \in Seq({a, b}) /\ <<a, b>> \in Seq({a, b})
    OBVIOUS
  <2> DEFINE w == <<a>> \o <<b>>
  <2>2. <<a>> \o <<b>> = <<a, b>>
    <3>1. w \in Seq({a, b}) /\ Len(w) = 2 /\ w[1] = a /\ w[2] = b
      BY <2>1
    <3>2. \A i \in 1 .. 2 : i = 1 \/ i = 2
      OBVIOUS
    <3> HIDE DEF w
    <3>3. w = <<a, b>>
      BY <2>1, <3>1, <3>2, SeqEqual
    <3>4. QED
      BY <3>3 DEF w
  <2>3. QED
    BY <2>2 DEF Cons
<1>4. ASSUME NEW a, NEW b, NEW c PROVE <<a, b, c>> = Cons(a, <<b, c>>)
  BY DEF Cons
<1>5. QED
  BY <1>1, <1>2, <1>3, <1>4

(* Programs are joined from the front. *)
LEMMA JoinedPrograms ==
    ASSUME NEW p, NEW q, NEW e, IsProgram(p), IsProgram(q)
    PROVE  /\ IsProgram(p \o q)
           /\ Cons(e, p) \o q = Cons(e, p \o q)
<1> DEFINE S == {e} \cup Range(p) \cup Range(q)
<1>1. p \in Seq(S) /\ q \in Seq(S) /\ e \in S
  BY DEF IsProgram
<1> HIDE DEF S
<1>2. Cons(e, p) \o q = Cons(e, p \o q)
  BY <1>1, ConcatAssociative DEF Cons
<1>3. IsProgram(p \o q)
  <2> DEFINE r == p \o q
  <2>1. r \in Seq(S)
    BY <1>1
  <2> HIDE DEF r
  <2>2. \A i \in 1 .. Len(r) : r[i] \in Range(r)
    BY <2>1 DEF Range
  <2>3. r \in [1 .. Len(r) -> Range(r)] /\ Len(r) \in Nat
    BY <2>1, <2>2
  <2>4. r \in Seq(Range(r))
    BY <2>3, SeqDef
  <2>5. QED
    BY <2>4 DEF IsProgram, r
<1>4. QED
  BY <1>2, <1>3

(* The programs of the calls. *)
LEMMA NamedPrograms ==
    /\ IsProgram(Clearing) /\ IsProgram(Rereading) /\ IsProgram(Retiring) /\ IsProgram(Committing)
    /\ \A i, u, next : IsProgram(Inserting(i, u, next)) /\ IsProgram(Appending(i, u, next))
    /\ \A i, p, u, next : IsProgram(Restarting(i, p, u, next))
    /\ \A i, a, u, next : IsProgram(Settling(i, a, u, next))
    /\ \A i, p : IsProgram(p) => IsProgram(Erasing(i, p))
    /\ \A e : IsProgram(<<e>>)
    /\ Clearing # <<>> /\ Rereading # <<>> /\ Retiring # <<>> /\ Committing # <<>>
<1>1. IsProgram(<<>>) /\ \A a : <<a>> = Cons(a, <<>>)
  BY ShortPrograms
<1>2. \A e : IsProgram(<<e>>) /\ <<e>> # <<>>
  BY <1>1, Programs
<1>3. IsProgram(Clearing) /\ Clearing # <<>>
  BY <1>2 DEF Clearing
<1>4. IsProgram(Rereading) /\ Rereading # <<>>
  BY <1>3, Programs DEF Rereading
<1>5. IsProgram(Retiring) /\ Retiring # <<>>
  BY <1>4, Programs DEF Retiring
<1>6. IsProgram(Committing) /\ Committing # <<>>
  BY <1>5, Programs DEF Committing
<1>7. ASSUME NEW e, NEW p, IsProgram(p) PROVE IsProgram(Cons(e, p))
  BY <1>7, Programs
<1>8. \A i, u, next : IsProgram(Inserting(i, u, next)) /\ IsProgram(Appending(i, u, next))
  BY <1>6, <1>7 DEF Inserting, Appending
<1>9. \A i, p, u, next : IsProgram(Restarting(i, p, u, next))
  BY <1>6, <1>7 DEF Restarting
<1>10. \A i, a, u, next : IsProgram(Settling(i, a, u, next))
  BY <1>6, <1>7 DEF Settling
<1>11. \A i, p : IsProgram(p) => IsProgram(Erasing(i, p))
  BY <1>7 DEF Erasing
<1>12. QED
  BY <1>2, <1>3, <1>4, <1>5, <1>6, <1>8, <1>9, <1>10, <1>11

(* A flush commits the superindex or goes on with the summaries. *)
LEMMA FlushProgram ==
    commitSuperIndex \o <<Log(<<SumCheckpoint>>), Do("reread"), Do("clear")>> =
        IF ~ sumDirty /\ ~ rootDirty THEN Retiring ELSE Inserting(2, map.used, 0)
<1> DEFINE p == <<Log(<<SumCheckpoint>>), Do("reread"), Do("clear")>>
           insert == Insert(2, serial[2] + 1, 0, map.used)
<1>1. p = Retiring
  BY ShortPrograms DEF Retiring, Rereading, Clearing
<1>2. IsProgram(Retiring) /\ IsProgram(<<>>) /\ IsProgram(<<Do("committed")>>)
  BY NamedPrograms, ShortPrograms
<1>3. <<>> \o Retiring = Retiring
  BY <1>2, Programs
<1>4. <<insert, Do("committed")>> \o Retiring = Cons(insert, Committing)
  <2>1. <<insert, Do("committed")>> = Cons(insert, Cons(Do("committed"), <<>>))
    BY ShortPrograms
  <2>2. Cons(insert, <<Do("committed")>>) \o Retiring = Cons(insert, <<Do("committed")>> \o Retiring)
    BY <1>2, JoinedPrograms
  <2>3. <<Do("committed")>> \o Retiring = Cons(Do("committed"), Retiring)
    BY <1>2, Programs
  <2>4. <<Do("committed")>> = Cons(Do("committed"), <<>>)
    BY ShortPrograms
  <2>5. QED
    BY <2>1, <2>2, <2>3, <2>4 DEF Committing
<1>5. Inserting(2, map.used, 0) = Cons(insert, Committing)
  BY DEF Inserting, Used
<1> HIDE DEF p, insert
<1>6. CASE ~ sumDirty /\ ~ rootDirty
  <2>1. commitSuperIndex = <<>>
    BY <1>6 DEF commitSuperIndex
  <2>2. QED
    BY <2>1, <1>1, <1>3, <1>6 DEF p
<1>7. CASE ~ (~ sumDirty /\ ~ rootDirty)
  <2>1. commitSuperIndex = <<insert, Do("committed")>>
    BY <1>7 DEF commitSuperIndex, insert
  <2>2. QED
    BY <2>1, <1>1, <1>4, <1>5, <1>7 DEF p
<1>8. QED
  BY <1>6, <1>7

(* The entry of an element is one instruction, and an erase before it if it is
   the first of a block. *)
LEMMA PlaceProgram ==
    ASSUME Careful, NEW i \in Elem, NEW pos, NEW p, NEW no, NEW prev, NEW next, NEW used
    PROVE  Place(i, pos, p, no, prev, next, used) =
             IF path[i].pos = pos /\ BlockOf(path[i].page) = BlockOf(p)
             THEN <<Entry(i, pos, p, no, prev, next, used)>>
             ELSE <<Erase(path[i].pos, BlockOf(path[i].page)), Entry(i, pos, p, 0, prev, next, used)>>
<1>1. ASSUME NEW n
      PROVE  WriteEntry(i, pos, p, n, prev, next, used) = <<Entry(i, pos, p, n, prev, next, used)>>
  <2> DEFINE rest == [k \in 1 .. SuperPages - 1 |-> Write(pos, p + k, [kind |-> "rest", no |-> n])]
             e == WriteIndex(pos, p, n, prev, used)
  <2>1. rest = <<>>
    <3>1. 1 .. SuperPages - 1 = {}
      BY DEF Careful
    <3>2. rest \in [1 .. 0 -> {}]
      <4>1. 1 .. 0 = {}
        OBVIOUS
      <4>2. QED
        BY <3>1, <4>1
    <3> HIDE DEF rest
    <3>3. rest \in Seq({})
      <4>1. 0 \in Nat
        OBVIOUS
      <4>2. QED
        BY <3>2, <4>1, SeqDef
    <3>4. DOMAIN rest = {}
      BY <3>2
    <3>5. Len(rest) = 0
      BY <3>3, <3>4
    <3>6. QED
      BY <3>3, <3>5, EmptySeq
  <2>2. <<e>> \o <<>> = <<e>>
    BY NamedPrograms, Programs
  <2>3. CASE i = 2
    <3>1. ~ (i < 2)
      BY <2>3
    <3>2. WriteEntry(i, pos, p, n, prev, next, used) = <<e>> \o rest
      BY <3>1 DEF WriteEntry
    <3> HIDE DEF rest
    <3>3. WriteEntry(i, pos, p, n, prev, next, used) = <<e>>
      BY <3>2, <2>1, <2>2
    <3>4. QED
      BY <3>3, <2>3 DEF Entry
  <2>4. CASE i < 2
    <3>1. i # 2
      BY <2>4
    <3>2. QED
      BY <3>1, <2>4 DEF WriteEntry, Entry
  <2>5. QED
    BY <2>3, <2>4 DEF Elem
<1> DEFINE stays == path[i].pos = pos /\ BlockOf(path[i].page) = BlockOf(p)
           erase == Erase(path[i].pos, BlockOf(path[i].page))
<1>2. CASE stays
  <2> DEFINE e == Entry(i, pos, p, no, prev, next, used)
  <2>1. Place(i, pos, p, no, prev, next, used) = <<>> \o <<e>>
    BY <1>1, <1>2 DEF Place, handleBlockOverflow, SerialFor
  <2>2. <<>> \o <<e>> = <<e>>
    BY NamedPrograms, Programs
  <2>3. QED
    BY <2>1, <2>2, <1>2
<1>3. CASE ~ stays
  <2> DEFINE e == Entry(i, pos, p, 0, prev, next, used)
  <2>1. Place(i, pos, p, no, prev, next, used) = <<erase>> \o <<e>>
    BY <1>1, <1>3 DEF Place, handleBlockOverflow, SerialFor
  <2>2. <<erase>> \o <<e>> = Cons(erase, <<e>>)
    BY NamedPrograms, Programs
  <2>3. <<erase, e>> = Cons(erase, <<e>>)
    BY ShortPrograms
  <2>4. QED
    BY <2>1, <2>2, <2>3, <1>3
<1>4. QED
  BY <1>2, <1>3

(* Where the entry of an element goes: behind the newest one, to another block
   of its area, or to another area. *)
LEMMA InsertProgram ==
    ASSUME Careful, NEW i \in Elem, NEW u, NEW next,
           map \in Maps, path \in [Elem -> Spot], Filled(flash, path[i].pos, path[i].page),
           map.status[AreaOn(path[i].pos)] = "active", map.status[0] = "active"
    PROVE  LET old == AreaOn(path[i].pos)
               entry == InsertEntry(i, serial[i] + 1, next, Used(i, u))
               program == entry \o Committing
               erases == \E e \in Range(entry) : e.do = "erase"
           IN  \/ /\ program = Appending(i, u, next) /\ ~ erases
                  /\ path[i].page + 1 \in Page /\ BlockOf(path[i].page + 1) = BlockOf(path[i].page)
               \/ /\ erases
                  /\ \E p \in Page : /\ First(p) /\ BlockOf(p) # BlockOf(path[i].page)
                                     /\ program = Erasing(i, Restarting(i, p, u, next))
               \/ /\ erases /\ i > 0
                  /\ \E a \in Area :
                        /\ a # 0 /\ map.status[a] = "empty"
                        /\ program = Cons(Leaving(old), Cons(Entering(map, a),
                                       Cons(Ignoring, Erasing(i, Settling(i, a, u, next)))))
<1> DEFINE pos == path[i].pos
           t == path[i].page
           old == AreaOn(pos)
           no == serial[i] + 1
           used == Used(i, u)
           entry == InsertEntry(i, no, next, used)
           free == FreeInArea(flash, pos, Needed(i))
           a == Min(FreeAreas)
           erase == Erase(pos, BlockOf(t))
           program == entry \o Committing
           erases == \E e \in Range(entry) : e.do = "erase"
<1>1. pos \in Pos /\ t \in Page
  BY DEF Spot
<1>2. Needed(i) = 1
  BY DEF Needed, Careful
<1>3. Logical(pos) = old /\ \A b \in Area : map.pos[b] = Position[b]
  BY DEF Logical, AreaOn, Maps
<1>4. IsProgram(Committing)
  BY NamedPrograms
<1>5. \A e : /\ <<e>> \o Committing = Cons(e, Committing)
             /\ <<e>> \o <<>> = <<e>> /\ IsProgram(<<e>>) /\ Range(<<e>>) = {e}
  <2>1. TAKE e
  <2>2. IsProgram(<<e>>) /\ IsProgram(<<>>) /\ <<e>> = Cons(e, <<>>) /\ Range(<<>>) = {}
    BY NamedPrograms, ShortPrograms
  <2>3. <<e>> \o Committing = Cons(e, Committing)
    BY <1>4, Programs
  <2>4. <<e>> \o <<>> = <<e>>
    BY <2>2, Programs
  <2>5. Range(Cons(e, <<>>)) = {e} \cup Range(<<>>)
    BY <2>2, Programs
  <2>6. QED
    BY <2>2, <2>3, <2>4, <2>5
<1>6. \A d, e : /\ <<d, e>> \o Committing = Cons(d, Cons(e, Committing))
                /\ <<d, e>> \o <<>> = <<d, e>> /\ IsProgram(<<d, e>>) /\ Range(<<d, e>>) = {d, e}
  <2>1. TAKE d, e
  <2>2. <<d, e>> = Cons(d, <<e>>) /\ IsProgram(<<e>>) /\ Range(<<e>>) = {e} /\ IsProgram(<<>>)
    BY <1>5, ShortPrograms
  <2>3. IsProgram(<<d, e>>) /\ Range(<<d, e>>) = {d, e} /\ <<d, e>> \o <<>> = <<d, e>>
    <3>1. IsProgram(Cons(d, <<e>>)) /\ Range(Cons(d, <<e>>)) = {d} \cup Range(<<e>>)
      BY <2>2, Programs
    <3>2. IsProgram(<<d, e>>) /\ Range(<<d, e>>) = {d, e}
      BY <2>2, <3>1
    <3>3. QED
      BY <3>2, Programs
  <2>4. Cons(d, <<e>>) \o Committing = Cons(d, <<e>> \o Committing)
    BY <2>2, <1>4, JoinedPrograms
  <2>5. QED
    BY <2>2, <2>3, <2>4, <1>5
<1>7. /\ erase.do = "erase"
      /\ \A q, n, prev, x, v : Entry(i, pos, q, n, prev, x, v).do # "erase"
      /\ \A q, n, prev, x, v, y : Entry(i, y, q, n, prev, x, v).do # "erase"
  BY DEF Erase, Entry, WriteIndex, Write
<1>8. AfterEntry(i, FALSE, pos) = <<>>
  BY DEF AfterEntry
<1> HIDE DEF pos, t, free, a, erase, no, used
<1>9. ASSUME NEW p \in Page, entry = Place(i, pos, p, no, 0, next, used) \o <<>>,
             BlockOf(p) = BlockOf(t)
      PROVE  program = Cons(Entry(i, pos, p, no, 0, next, used), Committing) /\ ~ erases
  <2> DEFINE e == Entry(i, pos, p, no, 0, next, used)
  <2>1. Place(i, pos, p, no, 0, next, used) = <<e>>
    BY <1>9, PlaceProgram DEF pos, t
  <2> HIDE DEF e
  <2>2. entry = <<e>>
    BY <2>1, <1>5, <1>9
  <2> HIDE DEF entry
  <2>3. program = Cons(e, Committing)
    BY <2>2, <1>5
  <2>4. Range(entry) = {e}
    BY <2>2, <1>5
  <2>5. e.do # "erase"
    BY <1>7 DEF e
  <2>6. QED
    BY <2>3, <2>4, <2>5 DEF e
<1>10. ASSUME NEW p \in Page, entry = Place(i, pos, p, no, 0, next, used) \o <<>>,
             BlockOf(p) # BlockOf(t)
      PROVE  program = Erasing(i, Restarting(i, p, u, next)) /\ erases
  <2> DEFINE e == Entry(i, pos, p, 0, 0, next, used)
  <2>1. Place(i, pos, p, no, 0, next, used) = <<erase, e>>
    BY <1>10, PlaceProgram DEF pos, t, erase
  <2> HIDE DEF e
  <2>2. entry = <<erase, e>>
    BY <2>1, <1>6, <1>10
  <2> HIDE DEF entry
  <2>3. program = Cons(erase, Cons(e, Committing))
    BY <2>2, <1>6
  <2>4. erase \in Range(entry)
    BY <2>2, <1>6
  <2>5. erases
    BY <2>4, <1>7
  <2>6. Erasing(i, Restarting(i, p, u, next)) = Cons(erase, Cons(e, Committing))
    BY DEF Erasing, Restarting, erase, e, pos, t, used
  <2>7. QED
    BY <2>3, <2>5, <2>6
<1>11. CASE free # {}
  <2> DEFINE p == Min(free)
  <2>1. p = t + 1 /\ p \in Page /\ (BlockOf(p) # BlockOf(t) => First(p))
    BY <1>1, <1>2, <1>11, Room DEF free, pos, t
  <2>2. entry = Place(i, pos, p, no, 0, next, used) \o <<>>
    BY <1>8, <1>11 DEF InsertEntry, free, pos
  <2> HIDE DEF p, entry
  <2>3. CASE BlockOf(p) = BlockOf(t)
    <3>1. program = Cons(Entry(i, pos, p, no, 0, next, used), Committing) /\ ~ erases
      BY <2>1, <2>2, <2>3, <1>9 DEF entry
    <3>2. Appending(i, u, next) = Cons(Entry(i, pos, p, no, 0, next, used), Committing)
      BY <2>1 DEF Appending, pos, t, no, used
    <3> HIDE DEF program, erases
    <3>3. t + 1 \in Page /\ BlockOf(t + 1) = BlockOf(t)
      BY <2>1, <2>3
    <3>4. program = Appending(i, u, next) /\ ~ erases
      BY <3>1, <3>2
    <3>5. QED
      BY <3>3, <3>4 DEF entry, program, erases, no, used, t
  <2>4. CASE BlockOf(p) # BlockOf(t)
    <3>1. program = Erasing(i, Restarting(i, p, u, next)) /\ erases
      BY <2>1, <2>2, <2>4, <1>10 DEF entry
    <3> HIDE DEF program, erases
    <3>2. \E q \in Page : First(q) /\ BlockOf(q) # BlockOf(t) /\ program = Erasing(i, Restarting(i, q, u, next))
      BY <2>1, <2>4, <3>1
    <3>3. QED
      BY <3>1, <3>2 DEF entry, program, erases, no, used, t
  <2>5. QED
    BY <2>3, <2>4
<1>12. free = {} => BlockOf(t) = BlocksPerArea - 1
  BY <1>1, <1>2, Room DEF free, pos, t
<1>13. CASE free = {} /\ (i = 0 \/ FreeAreas = {})
  <2>1. entry = Place(i, pos, 0, no, 0, next, used) \o <<>>
    BY <1>8, <1>13 DEF InsertEntry, free, pos
  <2>2. 0 \in Page /\ BlockOf(0) = 0 /\ Page \subseteq Nat /\ BlocksPerArea \in Nat
    BY BlocksInOrder, ChainAssumption
  <2>3. BlockOf(0) # BlockOf(t)
    BY <2>2, <1>12, <1>13 DEF Careful
  <2>4. First(0)
    BY <2>2 DEF First
  <2>5. program = Erasing(i, Restarting(i, 0, u, next)) /\ erases
    BY <2>1, <2>2, <2>3, <1>10
  <2> HIDE DEF program, erases
  <2>6. \E q \in Page : First(q) /\ BlockOf(q) # BlockOf(t) /\ program = Erasing(i, Restarting(i, q, u, next))
    BY <2>2, <2>3, <2>4, <2>5
  <2>7. QED
    BY <2>5, <2>6 DEF entry, program, erases, no, used, t
<1>14. CASE free = {} /\ ~ (i = 0 \/ FreeAreas = {})
  <2>1. a \in FreeAreas
    <3>1. FreeAreas \in SUBSET Nat
      <4>1. AreasNo \in Nat
        BY AreasAssumption
      <4>2. QED
        BY <4>1 DEF FreeAreas, Area
    <3>2. \E x \in FreeAreas : \A y \in FreeAreas : x <= y
      BY <3>1, <1>14, LeastElement
    <3>3. QED
      BY <3>2 DEF a, Min
  <2>2. a \in Area /\ a # 0 /\ map.status[a] = "empty" /\ map.pos[a] = Position[a]
    BY <2>1, <1>3 DEF FreeAreas
  <2>3. Position[a] # pos
    <3>1. AreaOn(Position[a]) = a
      BY <2>2, Positions
    <3>2. QED
      BY <3>1, <2>2 DEF pos
  <2>4. i > 0
    BY <1>14 DEF Elem
  <2> DEFINE after == Insert(i - 1, serial[i - 1] + 1, Position[a], 0)
             e == Entry(i, Position[a], 0, 0, old, next, used)
             place == Place(i, Position[a], 0, no, old, next, used)
             l1 == Leaving(old)
             l2 == Entering(map, a)
             l3 == Ignoring
  <2>5. AfterEntry(i, TRUE, Position[a]) = <<after>>
    BY <2>4 DEF AfterEntry
  <2>6. InitSuperArea(old, a) = <<l1, l2, l3>>
    BY DEF InitSuperArea, Leaving, Entering, Ignoring
  <2>7. entry = <<l1, l2, l3>> \o place \o <<after>>
    BY <2>2, <2>5, <2>6, <1>3, <1>14 DEF InsertEntry, free, pos, a
  <2>8. place = <<erase, e>>
    BY <2>3, PlaceProgram DEF pos, t, erase
  <2> HIDE DEF entry, after, e, place, l1, l2, l3
  <2> DEFINE p1 == <<erase, e>> \o <<after>>
             p4 == Cons(l1, Cons(l2, Cons(l3, p1)))
  <2>9. IsProgram(<<>>) /\ IsProgram(<<after>>) /\ IsProgram(<<e>>) /\ IsProgram(<<erase, e>>)
    BY <1>5, <1>6, ShortPrograms
  <2>10. p1 = Cons(erase, Cons(e, <<after>>)) /\ IsProgram(p1)
    <3>1. <<erase, e>> = Cons(erase, <<e>>)
      BY ShortPrograms
    <3>2. Cons(erase, <<e>>) \o <<after>> = Cons(erase, <<e>> \o <<after>>)
      BY <2>9, JoinedPrograms
    <3>3. <<e>> \o <<after>> = Cons(e, <<after>>)
      BY <2>9, Programs
    <3>4. IsProgram(<<erase, e>> \o <<after>>)
      BY <2>9, JoinedPrograms
    <3>5. QED
      BY <3>1, <3>2, <3>3, <3>4
  <2>11. entry = p4
    <3>1. <<l1, l2, l3>> = Cons(l1, Cons(l2, Cons(l3, <<>>)))
      BY ShortPrograms
    <3> DEFINE q3 == Cons(l3, <<>>)
               q2 == Cons(l2, q3)
    <3>2. IsProgram(q3) /\ IsProgram(q2)
      BY <2>9, Programs
    <3>3. q3 \o <<erase, e>> = Cons(l3, <<erase, e>>) /\ IsProgram(q3 \o <<erase, e>>)
      <4>1. Cons(l3, <<>>) \o <<erase, e>> = Cons(l3, <<>> \o <<erase, e>>)
        BY <2>9, JoinedPrograms
      <4>2. <<>> \o <<erase, e>> = <<erase, e>>
        BY <2>9, Programs
      <4>3. QED
        BY <4>1, <4>2, <3>2, <2>9, JoinedPrograms
    <3> HIDE DEF q3
    <3>4. q2 \o <<erase, e>> = Cons(l2, q3 \o <<erase, e>>)
      BY <3>2, <2>9, JoinedPrograms
    <3> HIDE DEF q2
    <3>5. Cons(l1, q2) \o <<erase, e>> = Cons(l1, q2 \o <<erase, e>>)
      BY <3>2, <2>9, JoinedPrograms
    <3> DEFINE r3 == Cons(l3, <<erase, e>>)
               r2 == Cons(l2, r3)
    <3>6. <<l1, l2, l3>> \o <<erase, e>> = Cons(l1, r2)
      BY <3>1, <3>3, <3>4, <3>5 DEF q2, q3
    <3>7. IsProgram(r3) /\ IsProgram(r2)
      BY <2>9, Programs
    <3> HIDE DEF r2
    <3>8. Cons(l1, r2) \o <<after>> = Cons(l1, r2 \o <<after>>)
      BY <3>7, <2>9, JoinedPrograms
    <3>9. r2 \o <<after>> = Cons(l2, r3 \o <<after>>)
      BY <3>7, <2>9, JoinedPrograms DEF r2
    <3>10. r3 \o <<after>> = Cons(l3, p1)
      BY <2>9, JoinedPrograms
    <3> HIDE DEF r3
    <3>11. QED
      BY <3>6, <3>8, <3>9, <3>10, <2>7, <2>8
  <2>12. p1 \o Committing = Cons(erase, Cons(e, Cons(after, Committing)))
    <3> DEFINE q == Cons(e, <<after>>)
    <3>1. IsProgram(q)
      BY <2>9, Programs
    <3>2. Cons(erase, q) \o Committing = Cons(erase, q \o Committing)
      BY <3>1, <1>4, JoinedPrograms
    <3>3. q \o Committing = Cons(e, <<after>> \o Committing)
      BY <2>9, <1>4, JoinedPrograms
    <3> HIDE DEF q
    <3>4. QED
      BY <3>2, <3>3, <2>10, <1>5 DEF q
  <2>13. p4 \o Committing = Cons(l1, Cons(l2, Cons(l3, p1 \o Committing)))
    <3> HIDE DEF p1
    <3> DEFINE r3 == Cons(l3, p1)
               r2 == Cons(l2, r3)
    <3>1. IsProgram(r3) /\ IsProgram(r2)
      BY <2>10, Programs
    <3>2. r3 \o Committing = Cons(l3, p1 \o Committing)
      BY <2>10, <1>4, JoinedPrograms
    <3> HIDE DEF r3
    <3>3. r2 \o Committing = Cons(l2, r3 \o Committing)
      BY <3>1, <1>4, JoinedPrograms
    <3> HIDE DEF r2
    <3>4. Cons(l1, r2) \o Committing = Cons(l1, r2 \o Committing)
      BY <3>1, <1>4, JoinedPrograms
    <3>5. QED
      BY <3>2, <3>3, <3>4 DEF r2, r3
  <2> HIDE DEF p1
  <2>14. erases
    <3>1. erase \in Range(p1)
      <4>1. IsProgram(Cons(e, <<after>>))
        BY <2>9, Programs
      <4>2. Range(Cons(erase, Cons(e, <<after>>))) = {erase} \cup Range(Cons(e, <<after>>))
        BY <4>1, Programs
      <4>3. QED
        BY <4>2, <2>10
    <3>2. IsProgram(Cons(l3, p1)) /\ Range(Cons(l3, p1)) = {l3} \cup Range(p1)
      BY <2>10, Programs
    <3> DEFINE r3 == Cons(l3, p1)
               r2 == Cons(l2, r3)
    <3> HIDE DEF r3
    <3>3. IsProgram(r2) /\ Range(r2) = {l2} \cup Range(r3)
      BY <3>2, Programs DEF r3
    <3> HIDE DEF r2
    <3>4. Range(Cons(l1, r2)) = {l1} \cup Range(r2)
      BY <3>3, Programs
    <3>5. erase \in Range(p4)
      BY <3>1, <3>2, <3>3, <3>4 DEF r2, r3
    <3> HIDE DEF p4
    <3>6. QED
      BY <3>5, <2>11, <1>7
  <2>15. Erasing(i, Settling(i, a, u, next)) = Cons(erase, Cons(e, Cons(after, Committing)))
    BY DEF Erasing, Settling, erase, e, after, pos, t, used
  <2>16. program = Cons(l1, Cons(l2, Cons(l3, Erasing(i, Settling(i, a, u, next)))))
    BY <2>11, <2>12, <2>13, <2>15
  <2> HIDE DEF program, erases, p4
  <2>17. \E x \in Area : /\ x # 0 /\ map.status[x] = "empty"
                         /\ program = Cons(l1, Cons(Entering(map, x),
                                        Cons(l3, Erasing(i, Settling(i, x, u, next)))))
    BY <2>2, <2>16 DEF l2
  <2>18. QED
    BY <2>4, <2>14, <2>17 DEF entry, program, erases, no, used, l1, l3, pos
<1>15. QED
  BY <1>11, <1>13, <1>14

(* What an instruction in front of a program does, and what is left then. *)
LEMMA Heads ==
    /\ Head(Clearing) = Do("clear") /\ Tail(Clearing) = <<>>
    /\ Head(Rereading) = Do("reread") /\ Tail(Rereading) = Clearing
    /\ Head(Retiring) = Log(<<SumCheckpoint>>) /\ Tail(Retiring) = Rereading
    /\ Head(Committing) = Do("committed") /\ Tail(Committing) = Retiring
    /\ \A i, u, next :
          /\ Head(Inserting(i, u, next)) = Insert(i, serial[i] + 1, next, Used(i, u))
          /\ Tail(Inserting(i, u, next)) = Committing /\ Inserting(i, u, next) # <<>>
    /\ \A i, u, next :
          /\ Head(Appending(i, u, next)) =
                Entry(i, path[i].pos, path[i].page + 1, serial[i] + 1, 0, next, Used(i, u))
          /\ Tail(Appending(i, u, next)) = Committing /\ Appending(i, u, next) # <<>>
    /\ \A i, p, u, next :
          /\ Head(Restarting(i, p, u, next)) = Entry(i, path[i].pos, p, 0, 0, next, Used(i, u))
          /\ Tail(Restarting(i, p, u, next)) = Committing /\ Restarting(i, p, u, next) # <<>>
    /\ \A i, p : IsProgram(p) =>
          /\ Head(Erasing(i, p)) = Erase(path[i].pos, BlockOf(path[i].page))
          /\ Tail(Erasing(i, p)) = p /\ Erasing(i, p) # <<>>
    /\ \A i, a, u, next :
          /\ Head(Settling(i, a, u, next)) =
                Entry(i, Position[a], 0, 0, AreaOn(path[i].pos), next, Used(i, u))
          /\ Tail(Settling(i, a, u, next)) =
                Cons(Insert(i - 1, serial[i - 1] + 1, Position[a], 0), Committing)
          /\ Settling(i, a, u, next) # <<>>
    /\ \A e : Head(<<e>>) = e /\ Tail(<<e>>) = <<>> /\ <<e>> # <<>>
<1>1. \A e, p : IsProgram(p) => Head(Cons(e, p)) = e /\ Tail(Cons(e, p)) = p /\ Cons(e, p) # <<>>
  BY Programs
<1>2. \A e : Head(<<e>>) = e /\ Tail(<<e>>) = <<>> /\ <<e>> # <<>>
  BY <1>1, ShortPrograms
<1>3. /\ Head(Clearing) = Do("clear") /\ Tail(Clearing) = <<>>
      /\ Head(Rereading) = Do("reread") /\ Tail(Rereading) = Clearing
  BY <1>1, <1>2, NamedPrograms DEF Clearing, Rereading
<1>4. /\ Head(Retiring) = Log(<<SumCheckpoint>>) /\ Tail(Retiring) = Rereading
      /\ Head(Committing) = Do("committed") /\ Tail(Committing) = Retiring
  BY <1>1, NamedPrograms DEF Retiring, Committing
<1>5. \A i, u, next :
          /\ Head(Inserting(i, u, next)) = Insert(i, serial[i] + 1, next, Used(i, u))
          /\ Tail(Inserting(i, u, next)) = Committing /\ Inserting(i, u, next) # <<>>
  BY <1>1, NamedPrograms DEF Inserting
<1>6. \A i, u, next :
          /\ Head(Appending(i, u, next)) =
                Entry(i, path[i].pos, path[i].page + 1, serial[i] + 1, 0, next, Used(i, u))
          /\ Tail(Appending(i, u, next)) = Committing /\ Appending(i, u, next) # <<>>
  BY <1>1, NamedPrograms DEF Appending
<1>7. \A i, p, u, next :
          /\ Head(Restarting(i, p, u, next)) = Entry(i, path[i].pos, p, 0, 0, next, Used(i, u))
          /\ Tail(Restarting(i, p, u, next)) = Committing /\ Restarting(i, p, u, next) # <<>>
  BY <1>1, NamedPrograms DEF Restarting
<1>8. \A i, p : IsProgram(p) =>
          /\ Head(Erasing(i, p)) = Erase(path[i].pos, BlockOf(path[i].page))
          /\ Tail(Erasing(i, p)) = p /\ Erasing(i, p) # <<>>
  BY <1>1 DEF Erasing
<1>9. ASSUME NEW i, NEW a, NEW u, NEW next
      PROVE  /\ Head(Settling(i, a, u, next)) =
                   Entry(i, Position[a], 0, 0, AreaOn(path[i].pos), next, Used(i, u))
             /\ Tail(Settling(i, a, u, next)) =
                   Cons(Insert(i - 1, serial[i - 1] + 1, Position[a], 0), Committing)
             /\ Settling(i, a, u, next) # <<>>
  <2> DEFINE after == Insert(i - 1, serial[i - 1] + 1, Position[a], 0)
  <2>1. IsProgram(Cons(after, Committing))
    BY NamedPrograms, Programs
  <2>2. QED
    BY <2>1, <1>1 DEF Settling
<1>10. QED
  BY <1>2, <1>3, <1>4, <1>5, <1>6, <1>7, <1>8, <1>9

-----------------------------------------------------------------------------
(* Appending to the log *)

\* Entries that are logged with the changes they describe.
IsMapLog(n) == n \in Seq(LogEntry) /\ \A i \in 1 .. Len(n) : n[i].op # "rootnode"

(* Whatever is logged, the log goes on saying what the map says. *)
LEMMA Logging ==
    ASSUME Types, Settled, StepLog, IsMapLog(Head(prog).entries)
    PROVE  LET n == Head(prog).entries
           IN  /\ Types' /\ Settled'
               /\ map' = Replayed(map, n) /\ log' = log \o n /\ prog' = Tail(prog)
               /\ UNCHANGED <<flash, root, rootDirty, path, serial, phase, overflowing>>
<1> DEFINE n == Head(prog).entries
<1>1. n \in Seq(LogEntry) /\ \A i \in 1 .. Len(n) : n[i].op # "rootnode"
  BY DEF IsMapLog
<1>2. /\ map' = Replayed(map, n) /\ log' = log \o n /\ prog' = Tail(prog)
      /\ sumDirty' = (sumDirty \/ PageStatus \in Range(n))
      /\ UNCHANGED <<flash, root, rootDirty, path, serial, phase, overflowing>>
  BY DEF StepLog
<1> HIDE DEF n
<1>3. map \in Maps /\ log \in Seq(LogEntry) /\ sumDirty \in BOOLEAN
  BY DEF Types
<1>4. map' \in Maps
  BY <1>1, <1>2, <1>3, ReplayType
<1>5. log' \in Seq(LogEntry)
  BY <1>1, <1>2, <1>3
<1>6. sumDirty' \in BOOLEAN
  BY <1>2
<1>7. Types'
  BY <1>2, <1>4, <1>5, <1>6 DEF Types
<1>8. Replayed(map', log') = map'
  BY <1>1, <1>2, <1>3, ReplaySettles DEF Settled
<1>9. ReplayedRoot(root', log') = root'
  BY <1>1, <1>2, <1>3, RootKept DEF Settled
<1>10. ~ sumDirty' => ~ ReplayedSumDirty(log')
  <2>1. HAVE ~ sumDirty'
  <2>2. ~ sumDirty /\ PageStatus \notin Range(n)
    BY <2>1, <1>2
  <2>3. \A i \in 1 .. Len(n) : n[i] # PageStatus
    BY <2>2, <1>1 DEF Range
  <2>4. ~ ReplayedSumDirty(log)
    BY <2>2 DEF Settled
  <2>5. QED
    BY <2>3, <2>4, <1>1, <1>2, <1>3, DirtyKept
<1>11. Settled'
  BY <1>8, <1>9, <1>10 DEF Settled
<1>12. QED
  BY <1>2, <1>7, <1>11 DEF n

(* What is known of the chain and the log is kept if the map still agrees. *)
LEMMA SoundKept ==
    ASSUME Types, Settled, StepLog, IsMapLog(Head(prog).entries), Sound,
           Chained(flash, path, map'), Count(map') = map'.used,
           prog' # Noting => ReplayedSumDirty(log')
    PROVE  Sound'
<1> DEFINE n == Head(prog).entries
<1>1. n \in Seq(LogEntry) /\ \A i \in 1 .. Len(n) : n[i].op # "rootnode"
  BY DEF IsMapLog
<1>2. /\ map' = Replayed(map, n) /\ log' = log \o n
      /\ UNCHANGED <<flash, root, rootDirty, path, serial>>
  BY Logging
<1> HIDE DEF n
<1>3. map \in Maps /\ log \in Seq(LogEntry)
  BY DEF Types
<1>4. MapOf(flash, path) \in Maps
  BY MapOfType DEF Sound
<1>5. Replayed(MapOf(flash, path), log') = map'
  <2>1. Replayed(MapOf(flash, path), log) = map
    BY DEF Sound
  <2>2. QED
    BY <2>1, <1>1, <1>2, <1>3, <1>4, ReplayParts
<1>6. ReplayedRoot(Index(flash, path).root, log') = root
  <2>1. ReplayedRoot(Index(flash, path).root, log) = root
    BY DEF Sound
  <2>2. QED
    BY <2>1, <1>1, <1>2, <1>3, RootKept
<1>7. Chained(flash, path, map)' /\ MapOf(flash, path)' = MapOf(flash, path)
      /\ Index(flash, path)' = Index(flash, path)
  BY <1>2
<1>8. Serials' /\ isPlausible(map)'
  BY <1>2 DEF Sound, Serials, isPlausible, Count
<1>9. QED
  BY <1>2, <1>5, <1>6, <1>7, <1>8 DEF Sound, Noting

(* Three entries. *)
LEMMA ReplayThree ==
    ASSUME NEW m \in Maps, NEW a \in LogEntry, NEW b \in LogEntry, NEW c \in LogEntry
    PROVE  Replayed(m, <<a, b, c>>) = Applied(Applied(Applied(m, a), b), c)
<1> DEFINE x == Applied(m, a)
           y == Applied(x, b)
           z == Applied(y, c)
<1>1. x \in Maps
  BY AppliedIs
<1>2. y \in Maps
  BY <1>1, AppliedIs
<1>3. z \in Maps
  BY <1>2, AppliedIs
<1> HIDE DEF x, y, z
<1>4. Replayed(m, <<a, b, c>>) = z
  <2> DEFINE l == <<a, b, c>>
             g == [i \in 0 .. 3 |-> IF i = 0 THEN m ELSE IF i = 1 THEN x ELSE IF i = 2 THEN y ELSE z]
  <2>1. l \in Seq(LogEntry) /\ Len(l) = 3 /\ l[1] = a /\ l[2] = b /\ l[3] = c
    OBVIOUS
  <2>2. g \in [0 .. 3 -> Maps] /\ g[0] = m /\ g[1] = x /\ g[2] = y /\ g[3] = z
    BY <1>1, <1>2, <1>3
  <2> HIDE DEF l, g
  <2>3. \A i \in 1 .. 3 : g[i] = Applied(g[i - 1], l[i])
    <3>1. \A i \in 1 .. 3 : i = 1 \/ i = 2 \/ i = 3
      OBVIOUS
    <3>2. g[1] = Applied(g[0], l[1]) /\ g[2] = Applied(g[1], l[2]) /\ g[3] = Applied(g[2], l[3])
      BY <2>1, <2>2 DEF x, y, z
    <3>3. 1 - 1 = 0 /\ 2 - 1 = 1 /\ 3 - 1 = 2
      OBVIOUS
    <3>4. QED
      BY <3>1, <3>2, <3>3
  <2>4. Replay(g, m, l)
    BY <2>1, <2>2, <2>3 DEF Replay
  <2>5. Replayed(m, l) = g[Len(l)]
    BY <2>1, <2>4, ReplayIs
  <2>6. QED
    BY <2>1, <2>2, <2>5 DEF l
<1>5. QED
  BY <1>4 DEF x, y, z

(* Four entries. *)
LEMMA ReplayFour ==
    ASSUME NEW m \in Maps, NEW a \in LogEntry, NEW b \in LogEntry, NEW c \in LogEntry, NEW d \in LogEntry
    PROVE  Replayed(m, <<a, b, c, d>>) = Applied(Applied(Applied(Applied(m, a), b), c), d)
<1> DEFINE z == Applied(Applied(Applied(m, a), b), c)
           l == <<a, b, c>>
           n == <<d>>
<1>1. Applied(m, a) \in Maps
  BY AppliedIs
<1>2. Applied(Applied(m, a), b) \in Maps
  BY <1>1, AppliedIs
<1>3. z \in Maps
  BY <1>2, AppliedIs
<1>4. Replayed(m, l) = z
  BY ReplayThree
<1>5. Replayed(z, n) = Applied(z, d)
  BY <1>3, ReplayShort
<1>6. l \in Seq(LogEntry) /\ n \in Seq(LogEntry)
  OBVIOUS
<1>7. <<a, b, c, d>> = l \o n
  <2> DEFINE w == l \o n
  <2>1. <<a, b, c, d>> \in Seq(LogEntry)
    OBVIOUS
  <2>2. w \in Seq(LogEntry) /\ Len(w) = 4 /\ w[1] = a /\ w[2] = b /\ w[3] = c /\ w[4] = d
    BY <1>6
  <2>3. \A i \in 1 .. 4 : i = 1 \/ i = 2 \/ i = 3 \/ i = 4
    OBVIOUS
  <2> HIDE DEF w
  <2>4. w = <<a, b, c, d>>
    BY <2>1, <2>2, <2>3, SeqEqual
  <2>5. QED
    BY <2>4 DEF w
<1> HIDE DEF l, n, z
<1>8. Replayed(m, l \o n) = Replayed(Replayed(m, l), n)
  BY <1>6, ReplayParts
<1>9. QED
  BY <1>4, <1>5, <1>7, <1>8 DEF z

(* What an entry that sets a type does to a map. *)
LEMMA LoggedType ==
    ASSUME NEW m \in Maps, NEW a \in Area, NEW t \in AreaType
    PROVE  LET n == Applied(m, Type(a, t))
           IN  /\ n \in Maps /\ n.type = [m.type EXCEPT ![a] = t]
               /\ n.status = m.status /\ n.active = m.active /\ n.used = m.used
<1>1. Applied(m, Type(a, t)) = [m EXCEPT !.type = [m.type EXCEPT ![a] = t]]
  BY DEF Applied, Type, setType, Maps
<1>2. [m.type EXCEPT ![a] = t] \in [Area -> AreaType]
  BY DEF Maps
<1>3. QED
  BY <1>1, <1>2 DEF Maps

(* The same for a status. *)
LEMMA LoggedStatus ==
    ASSUME NEW m \in Maps, NEW a \in Area, NEW x \in AreaStatus
    PROVE  LET n == Applied(m, Status(a, x))
           IN  /\ n \in Maps /\ n.status = [m.status EXCEPT ![a] = x]
               /\ n.type = m.type /\ n.active = m.active /\ n.used = m.used
<1>1. Applied(m, Status(a, x)) = [m EXCEPT !.status = [m.status EXCEPT ![a] = x]]
  BY DEF Applied, Status, setStatus, Maps
<1>2. [m.status EXCEPT ![a] = x] \in [Area -> AreaStatus]
  BY DEF Maps
<1>3. QED
  BY <1>1, <1>2 DEF Maps

(* The same for the number of used areas. *)
LEMMA LoggedUsed ==
    ASSUME NEW m \in Maps, NEW u \in Nat
    PROVE  LET n == Applied(m, UsedAreas(u))
           IN  /\ n \in Maps /\ n.used = u /\ n = [m EXCEPT !.used = u]
               /\ n.type = m.type /\ n.active = m.active /\ n.status = m.status
<1>1. Applied(m, UsedAreas(u)) = [m EXCEPT !.used = u]
  BY DEF Applied, UsedAreas, setUsedAreas
<1>2. QED
  BY <1>1 DEF Maps

(* The same for an active area. *)
LEMMA LoggedActive ==
    ASSUME NEW m \in Maps, NEW a \in Area, NEW t \in AreaType
    PROVE  LET n == Applied(m, ActiveArea(t, a))
           IN  /\ n \in Maps /\ n.status = [m.status EXCEPT ![a] = "active"]
               /\ n.active = [m.active EXCEPT ![t] = a]
               /\ n.type = m.type /\ n.used = m.used
<1> DEFINE status == [m.status EXCEPT ![a] = "active"]
           active == [m.active EXCEPT ![t] = a]
<1>1. Applied(m, ActiveArea(t, a)) = [m EXCEPT !.status = status, !.active = active]
  BY DEF Applied, ActiveArea, setActiveArea
<1>2. status \in [Area -> AreaStatus] /\ active \in [AreaType -> Area]
  BY DEF Maps, AreaStatus
<1> HIDE DEF status, active
<1>3. QED
  BY <1>1, <1>2 DEF Maps, status, active

(* Entries whose areas, types and numbers are some. *)
LEMMA Entries ==
    /\ \A a \in Area : \A t \in AreaType : Type(a, t) \in LogEntry /\ ActiveArea(t, a) \in LogEntry
    /\ \A a \in Area : \A x \in AreaStatus : Status(a, x) \in LogEntry
    /\ \A n \in Nat : UsedAreas(n) \in LogEntry
    /\ PageStatus \in LogEntry /\ SumCheckpoint \in LogEntry
    /\ {"data", "unset", "superblock"} \subseteq AreaType /\ {"closed", "empty", "active"} = AreaStatus
BY DEF Type, ActiveArea, Status, UsedAreas, PageStatus, SumCheckpoint, LogEntry, AreaType, AreaStatus

(* The areas of the chain are not concerned by changes to an area that is not
   active. *)
LEMMA ChainKept ==
    ASSUME NEW f, NEW s, NEW m \in Maps, NEW n \in Maps, NEW a \in Area,
           Chained(f, s, m), m.status[a] # "active",
           \A b \in Area : b # a => n.type[b] = m.type[b] /\ n.status[b] = m.status[b],
           n.active = m.active,
           a # At(f, s[1]).prev \/ n.status[a] = "empty"
    PROVE  Chained(f, s, n)
<1>1. s \in [Elem -> Spot] /\ 0 \in Elem /\ 1 \in Elem /\ 2 \in Elem
  BY DEF Chained, Elem
<1>2. \A i \in Elem : AreaOn(s[i].pos) \in Area
  BY <1>1, Positions DEF Spot
<1>3. Homes(n, s)
  BY <1>1, <1>2 DEF Chained, Homes
<1>4. n.active["superblock"] = 0 /\ n.status[0] = "active"
  BY Positions DEF Chained
<1>5. Left(n, At(f, s[1]).prev)
  <2>1. At(f, s[1]).prev \in Area
    <3>1. s[1] \in Spot /\ s[1] # NotFound
      BY <1>1 DEF NotFound, Spot
    <3>2. IsEntry(1, At(f, s[1]))
      BY <3>1, <1>1 DEF Chained, Lies
    <3>3. QED
      BY <3>2 DEF IsEntry
  <2>2. QED
    BY <2>1 DEF Chained, Left
<1>6. QED
  BY <1>3, <1>4, <1>5 DEF Chained

(* A status of a page is logged, and nothing changes. *)
LEMMA PageLogged ==
    ASSUME Types, Settled, StepLog, Sound, Head(prog) = Log(<<PageStatus>>)
    PROVE  /\ Sound' /\ Types' /\ Settled' /\ prog' = Tail(prog) /\ overflowing' = overflowing
           /\ map' = map
<1> DEFINE n == <<PageStatus>>
<1>1. Head(prog).entries = n /\ n \in Seq(LogEntry) /\ Len(n) = 1 /\ n[1] = PageStatus /\ n # <<>>
  BY Entries DEF Log
<1>2. IsMapLog(n)
  BY <1>1 DEF IsMapLog, PageStatus
<1>3. map \in Maps /\ log \in Seq(LogEntry)
  BY DEF Types
<1>4. Replayed(map, n) = map
  <2>1. Replayed(map, n) = Applied(map, PageStatus)
    BY <1>3, ReplayShort, Entries
  <2>2. QED
    BY <2>1 DEF Applied, PageStatus
<1> HIDE DEF n
<1>5. /\ Types' /\ Settled' /\ map' = map /\ log' = log \o n /\ prog' = Tail(prog)
      /\ overflowing' = overflowing
  BY <1>1, <1>2, <1>4, Logging
<1>6. ReplayedSumDirty(log')
  BY <1>1, <1>3, <1>5, DirtyLogged
<1>7. Chained(flash, path, map') /\ Count(map') = map'.used
  BY <1>5 DEF Sound, isPlausible, Count
<1>8. Sound'
  BY <1>1, <1>2, <1>6, <1>7, SoundKept
<1>9. QED
  BY <1>5, <1>8

\* Type and status of one area are set.
Sets(m, n, a, t, x) ==
    \A b \in Area : /\ n.type[b] = IF b = a THEN t ELSE m.type[b]
                    /\ n.status[b] = IF b = a THEN x ELSE m.status[b]

(* An area is taken. *)
LEMMA AreaTaken ==
    ASSUME Types, Settled, StepLog, Sound, NEW a \in Area, map.status[a] = "empty", a # Previous,
           Head(prog) = Log(TakeEntries(map, a))
    PROVE  /\ Sound' /\ Types' /\ Settled' /\ prog' = Tail(prog) /\ overflowing' = overflowing
           /\ Sets(map, map', a, "data", "closed")
<1> DEFINE n == TakeEntries(map, a)
           e1 == Type(a, "data")
           e2 == UsedAreas(map.used + 1)
           e3 == Status(a, "closed")
           k == Replayed(map, n)
<1>1. map \in Maps /\ map.used \in Nat /\ log \in Seq(LogEntry)
  BY DEF Types, Maps
<1>2. e1 \in LogEntry /\ e2 \in LogEntry /\ e3 \in LogEntry /\ PageStatus \in LogEntry
  BY <1>1, Entries
<1>3. n = <<e1, e2, e3, PageStatus>>
  BY DEF TakeEntries
<1>4. /\ e1.op = "type" /\ e1.area = a /\ e1.type = "data"
      /\ e2.op = "usedAreas" /\ e2.used = map.used + 1
      /\ e3.op = "status" /\ e3.area = a /\ e3.status = "closed"
      /\ PageStatus.op = "page"
  BY DEF Type, UsedAreas, Status, PageStatus
<1> HIDE DEF e1, e2, e3
<1>5. n \in Seq(LogEntry) /\ Len(n) = 4 /\ n # <<>> /\ n[4] = PageStatus
      /\ n[1] = e1 /\ n[2] = e2 /\ n[3] = e3
  BY <1>2, <1>3
<1>6. IsMapLog(n)
  <2>1. \A i \in 1 .. 4 : i = 1 \/ i = 2 \/ i = 3 \/ i = 4
    OBVIOUS
  <2>2. QED
    BY <2>1, <1>4, <1>5 DEF IsMapLog
<1>7. Head(prog).entries = n
  BY DEF Log
<1> HIDE DEF n
<1>8. k = Applied(Applied(Applied(Applied(map, e1), e2), e3), PageStatus)
  <2>1. Replayed(map, <<e1, e2, e3, PageStatus>>) =
            Applied(Applied(Applied(Applied(map, e1), e2), e3), PageStatus)
    BY <1>1, <1>2, ReplayFour
  <2>2. QED
    BY <2>1, <1>3
<1>9. /\ k \in Maps
      /\ \A b \in Area : /\ k.type[b] = IF b = a THEN "data" ELSE map.type[b]
                         /\ k.status[b] = IF b = a THEN "closed" ELSE map.status[b]
      /\ \A t \in AreaType : k.active[t] = map.active[t]
      /\ k.used = map.used + 1
  <2> DEFINE m1 == Applied(map, e1)
             m2 == Applied(m1, e2)
             m3 == Applied(m2, e3)
             m4 == Applied(m3, PageStatus)
  <2>0. {"data", "closed"} \subseteq AreaType \cup AreaStatus /\ "data" \in AreaType
        /\ "closed" \in AreaStatus /\ map.used + 1 \in Nat
    BY <1>1, Entries
  <2>1. /\ m1 \in Maps /\ m1.type = [map.type EXCEPT ![a] = "data"]
        /\ m1.status = map.status /\ m1.active = map.active
    BY <2>0, <1>1, LoggedType DEF e1
  <2> HIDE DEF m1
  <2>2. /\ m2 \in Maps /\ m2.used = map.used + 1
        /\ m2.type = m1.type /\ m2.status = m1.status /\ m2.active = m1.active
    BY <2>0, <2>1, LoggedUsed DEF e2
  <2> HIDE DEF m2
  <2>3. /\ m3 \in Maps /\ m3.used = m2.used /\ m3.status = [m2.status EXCEPT ![a] = "closed"]
        /\ m3.type = m2.type /\ m3.active = m2.active
    BY <2>0, <2>2, LoggedStatus DEF e3
  <2> HIDE DEF m3
  <2>4. m4 = m3
    BY <1>4 DEF Applied
  <2>5. k = m3
    BY <2>4, <1>8 DEF m3, m2, m1
  <2>6. map.type \in [Area -> AreaType] /\ map.status \in [Area -> AreaStatus]
    BY <1>1 DEF Maps
  <2>7. QED
    BY <2>1, <2>2, <2>3, <2>5, <2>6
<1> HIDE DEF k
<1>10. /\ Types' /\ Settled' /\ map' = k /\ log' = log \o n /\ prog' = Tail(prog)
       /\ overflowing' = overflowing
  BY <1>6, <1>7, Logging DEF k
<1>11. ReplayedSumDirty(log')
  BY <1>1, <1>5, <1>10, DirtyLogged
<1>12. Chained(flash, path, k)
  <2>1. Chained(flash, path, map)
    BY DEF Sound
  <2>2. k.active = map.active
    BY <1>1, <1>9 DEF Maps
  <2>3. a # At(flash, path[1]).prev
    BY DEF Previous
  <2>4. map.status[a] # "active"
    OBVIOUS
  <2>5. QED
    BY <2>1, <2>2, <2>3, <2>4, <1>1, <1>9, ChainKept
<1>13. Count(k) = k.used
  <2>1. k.status = [map.status EXCEPT ![a] = "closed"]
    BY <1>1, <1>9 DEF Maps
  <2>2. Count(k) = Count(map) + 1
    BY <2>1, <1>1, CountTaken
  <2>3. Count(map) = map.used
    BY DEF Sound, isPlausible, Count
  <2>4. QED
    BY <2>2, <2>3, <1>9
<1>14. Sound'
  BY <1>6, <1>7, <1>10, <1>11, <1>12, <1>13, SoundKept
<1>15. QED
  BY <1>9, <1>10, <1>14 DEF Sets

(* An area is released. *)
LEMMA AreaReleased ==
    ASSUME Types, Settled, StepLog, Sound, NEW a \in Area, map.status[a] = "closed",
           prog = Cons(Log(ReleaseEntries(map, a)), Noting)
    PROVE  /\ Sound' /\ Types' /\ Settled' /\ prog' = Noting /\ overflowing' = overflowing
           /\ Sets(map, map', a, "unset", "empty")
<1> DEFINE n == ReleaseEntries(map, a)
           e1 == Status(a, "empty")
           e2 == Type(a, "unset")
           e3 == UsedAreas(map.used - 1)
           k == Replayed(map, n)
<1>1. map \in Maps /\ map.used \in Nat /\ log \in Seq(LogEntry)
  BY DEF Types, Maps
<1>2. Count(map) = map.used /\ map.used > 0
  <2>1. Count(map) = map.used
    BY DEF Sound, isPlausible, Count
  <2>2. [map.status EXCEPT ![a] = "empty"] = [map EXCEPT !.status = [@ EXCEPT ![a] = "empty"]].status
    BY <1>1 DEF Maps
  <2>3. Count(map) > 0
    BY <1>1, <2>2, CountReleased
  <2>4. QED
    BY <2>1, <2>3
<1>3. e1 \in LogEntry /\ e2 \in LogEntry /\ e3 \in LogEntry
  <2>1. map.used - 1 \in Nat
    BY <1>1, <1>2
  <2>2. QED
    BY <2>1, Entries
<1>4. n = <<e1, e2, e3>>
  BY DEF ReleaseEntries
<1>5. /\ e1.op = "status" /\ e1.area = a /\ e1.status = "empty"
      /\ e2.op = "type" /\ e2.area = a /\ e2.type = "unset"
      /\ e3.op = "usedAreas" /\ e3.used = map.used - 1
  BY DEF Type, UsedAreas, Status
<1> HIDE DEF e1, e2, e3
<1>6. n \in Seq(LogEntry) /\ Len(n) = 3 /\ n[1] = e1 /\ n[2] = e2 /\ n[3] = e3
  BY <1>3, <1>4
<1>7. IsMapLog(n)
  <2>1. \A i \in 1 .. 3 : i = 1 \/ i = 2 \/ i = 3
    OBVIOUS
  <2>2. QED
    BY <2>1, <1>5, <1>6 DEF IsMapLog
<1>8. Head(prog).entries = n /\ Tail(prog) = Noting
  <2>1. Head(prog) = Log(n) /\ Tail(prog) = Noting
    BY Programs, NamedPrograms DEF Noting
  <2>2. QED
    BY <2>1 DEF Log
<1> HIDE DEF n
<1>9. k = Applied(Applied(Applied(map, e1), e2), e3)
  BY <1>1, <1>3, <1>4, ReplayThree
<1>10. /\ k \in Maps
       /\ \A b \in Area : /\ k.type[b] = IF b = a THEN "unset" ELSE map.type[b]
                          /\ k.status[b] = IF b = a THEN "empty" ELSE map.status[b]
       /\ \A t \in AreaType : k.active[t] = map.active[t]
       /\ k.used = map.used - 1
  <2> DEFINE m1 == Applied(map, e1)
             m2 == Applied(m1, e2)
             m3 == Applied(m2, e3)
  <2>0. "unset" \in AreaType /\ "empty" \in AreaStatus /\ map.used - 1 \in Nat
    BY <1>1, <1>2, Entries
  <2>1. /\ m1 \in Maps /\ m1.status = [map.status EXCEPT ![a] = "empty"]
        /\ m1.type = map.type /\ m1.active = map.active
    BY <2>0, <1>1, LoggedStatus DEF e1
  <2> HIDE DEF m1
  <2>2. /\ m2 \in Maps /\ m2.type = [m1.type EXCEPT ![a] = "unset"]
        /\ m2.status = m1.status /\ m2.active = m1.active
    BY <2>0, <2>1, LoggedType DEF e2
  <2> HIDE DEF m2
  <2>3. /\ m3 \in Maps /\ m3.used = map.used - 1
        /\ m3.type = m2.type /\ m3.status = m2.status /\ m3.active = m2.active
    BY <2>0, <2>2, LoggedUsed DEF e3
  <2>4. k = m3
    BY <1>9 DEF m2, m1
  <2> HIDE DEF m3
  <2>5. map.type \in [Area -> AreaType] /\ map.status \in [Area -> AreaStatus]
    BY <1>1 DEF Maps
  <2>6. QED
    BY <2>1, <2>2, <2>3, <2>4, <2>5
<1> HIDE DEF k
<1>11. /\ Types' /\ Settled' /\ map' = k /\ prog' = Noting /\ overflowing' = overflowing
  BY <1>7, <1>8, Logging DEF k
<1>12. Chained(flash, path, k)
  <2>1. Chained(flash, path, map)
    BY DEF Sound
  <2>2. k.active = map.active
    BY <1>1, <1>10 DEF Maps
  <2>3. k.status[a] = "empty" /\ map.status[a] # "active"
    BY <1>10
  <2>4. QED
    BY <2>1, <2>2, <2>3, <1>1, <1>10, ChainKept
<1>13. Count(k) = k.used
  <2>1. k.status = [map.status EXCEPT ![a] = "empty"]
    BY <1>1, <1>10 DEF Maps
  <2>2. Count(k) = Count(map) - 1
    BY <2>1, <1>1, CountReleased
  <2>3. QED
    BY <2>2, <1>2, <1>10
<1>14. Sound'
  BY <1>7, <1>8, <1>11, <1>12, <1>13, SoundKept
<1>15. QED
  BY <1>10, <1>11, <1>14 DEF Sets

-----------------------------------------------------------------------------
(* Moving an element *)

\* What a map says after a move.
IsMoved(m, n, old, a) ==
    /\ n \in Maps /\ n.used = m.used + 1
    /\ \A b \in Area : n.type[b] = IF b = a THEN "superblock" ELSE m.type[b]
    /\ \A b \in Area : n.status[b] =
          IF b \in {0, a} THEN "active" ELSE IF b = old THEN "empty" ELSE m.status[b]
    /\ \A t \in AreaType : n.active[t] = IF t = "superblock" THEN 0 ELSE m.active[t]

(* The entries that are logged for a move lead to the map after it. *)
LEMMA MoveMaps ==
    ASSUME NEW m \in Maps, NEW old \in Area, NEW a \in Area
    PROVE  /\ Without(m, old) \in Maps /\ Without(m, old) = Replayed(m, Leaving(old).entries)
           /\ Entered(m, old, a) \in Maps
           /\ Moved(m, old, a) = Replayed(Entered(m, old, a), Ignoring.entries)
           /\ IsMapLog(Leaving(old).entries) /\ IsMapLog(Entering(m, a).entries)
           /\ IsMapLog(Ignoring.entries)
           /\ IsMoved(m, Moved(m, old, a), old, a)
           /\ \A b \in Area :
                /\ Entered(m, old, a).type[b] = IF b = a THEN "superblock" ELSE m.type[b]
                /\ Entered(m, old, a).status[b] =
                      IF b = a THEN "active" ELSE IF b = old THEN "empty" ELSE m.status[b]
<1> DEFINE w == Without(m, old)
           e0 == Status(old, "empty")
           e1 == Type(a, "superblock")
           e2 == UsedAreas(m.used + 1)
           e3 == ActiveArea("superblock", a)
           e4 == ActiveArea("superblock", 0)
           m1 == Applied(w, e1)
           m2 == Applied(m1, e2)
           m3 == Applied(m2, e3)
           m4 == Applied(m3, e4)
<1>1. /\ m.used + 1 \in Nat /\ "superblock" \in AreaType
      /\ "empty" \in AreaStatus /\ "active" \in AreaStatus /\ 0 \in Area
      /\ m.type \in [Area -> AreaType] /\ m.status \in [Area -> AreaStatus]
      /\ m.active \in [AreaType -> Area]
  BY Entries, Positions DEF Maps
<1>2. e0 \in LogEntry /\ e1 \in LogEntry /\ e2 \in LogEntry /\ e3 \in LogEntry /\ e4 \in LogEntry
  BY <1>1, Entries
<1>3. /\ Leaving(old).entries = <<e0>> /\ Entering(m, a).entries = <<e1, e2, e3>>
      /\ Ignoring.entries = <<e4>>
  BY DEF Leaving, Entering, Ignoring, Log
<1>4. /\ e0.op # "rootnode" /\ e1.op # "rootnode" /\ e2.op # "rootnode" /\ e3.op # "rootnode"
      /\ e4.op # "rootnode"
  BY DEF Status, Type, UsedAreas, ActiveArea
<1>5. w = Applied(m, e0)
  BY DEF Without, Applied, Status, setStatus
<1> HIDE DEF w
<1>6. /\ w \in Maps /\ w.status = [m.status EXCEPT ![old] = "empty"]
      /\ w.type = m.type /\ w.active = m.active /\ w.used = m.used
  <2> DEFINE x == "empty"
             n == Applied(m, Status(old, x))
  <2>1. x \in AreaStatus
    BY <1>1
  <2> HIDE DEF x
  <2>2. /\ n \in Maps /\ n.status = [m.status EXCEPT ![old] = x]
        /\ n.type = m.type /\ n.active = m.active /\ n.used = m.used
    BY <2>1, LoggedStatus
  <2>3. w = n
    BY <1>5 DEF x
  <2> HIDE DEF n
  <2>4. QED
    BY <2>2, <2>3 DEF x
<1>7. m1 \in Maps /\ m1.type = [w.type EXCEPT ![a] = "superblock"] /\ m1.status = w.status
      /\ m1.active = w.active /\ m1.used = w.used
  BY <1>1, <1>6, LoggedType
<1> HIDE DEF m1
<1>8. m2 \in Maps /\ m2.used = m.used + 1 /\ m2.type = m1.type /\ m2.status = m1.status
      /\ m2.active = m1.active
  BY <1>1, <1>7, LoggedUsed
<1> HIDE DEF m2
<1>9. m3 \in Maps /\ m3.status = [m2.status EXCEPT ![a] = "active"]
      /\ m3.active = [m2.active EXCEPT !["superblock"] = a] /\ m3.type = m2.type
      /\ m3.used = m2.used
  <2> DEFINE t == "superblock"
             n == Applied(m2, ActiveArea(t, a))
  <2>1. t \in AreaType
    BY <1>1
  <2> HIDE DEF t
  <2>2. /\ n \in Maps /\ n.status = [m2.status EXCEPT ![a] = "active"]
        /\ n.active = [m2.active EXCEPT ![t] = a] /\ n.type = m2.type /\ n.used = m2.used
    BY <1>8, <2>1, LoggedActive
  <2>3. QED
    BY <2>2 DEF t
<1> HIDE DEF m3
<1>10. m4 \in Maps /\ m4.status = [m3.status EXCEPT ![0] = "active"]
      /\ m4.active = [m3.active EXCEPT !["superblock"] = 0] /\ m4.type = m3.type
      /\ m4.used = m3.used
  <2> DEFINE t == "superblock"
             z == 0
             n == Applied(m3, ActiveArea(t, z))
  <2>1. t \in AreaType /\ z \in Area /\ m3 \in Maps
    BY <1>1, <1>9
  <2> HIDE DEF t, z
  <2>2. /\ n \in Maps /\ n.status = [m3.status EXCEPT ![z] = "active"]
        /\ n.active = [m3.active EXCEPT ![t] = z] /\ n.type = m3.type /\ n.used = m3.used
    BY <2>1, LoggedActive
  <2>3. QED
    BY <2>2 DEF t, z
<1>11. w = Replayed(m, <<e0>>)
  BY <1>2, <1>5, ReplayShort
<1>12. Entered(m, old, a) = m3
  <2>1. Replayed(w, <<e1, e2, e3>>) = Applied(Applied(Applied(w, e1), e2), e3)
    BY <1>2, <1>6, ReplayThree
  <2>2. QED
    BY <2>1, <1>3 DEF Entered, m1, m2, m3, w
<1>13. Moved(m, old, a) = m4
  BY <1>12 DEF Moved, Applied, ActiveArea
<1>14. Moved(m, old, a) = Replayed(Entered(m, old, a), <<e4>>)
  <2>1. Replayed(m3, <<e4>>) = Applied(m3, e4)
    BY <1>2, <1>9, ReplayShort
  <2>2. QED
    BY <2>1, <1>12, <1>13
<1> HIDE DEF m4, e0, e1, e2, e3, e4
<1>15. IsMapLog(<<e0>>) /\ IsMapLog(<<e4>>)
  BY <1>2, <1>4 DEF IsMapLog
<1>16. IsMapLog(<<e1, e2, e3>>)
  <2> DEFINE n == <<e1, e2, e3>>
  <2>1. n \in Seq(LogEntry) /\ Len(n) = 3 /\ n[1] = e1 /\ n[2] = e2 /\ n[3] = e3
    BY <1>2
  <2>2. \A i \in 1 .. 3 : i = 1 \/ i = 2 \/ i = 3
    OBVIOUS
  <2> HIDE DEF n
  <2>3. IsMapLog(n)
    BY <2>1, <2>2, <1>4 DEF IsMapLog
  <2>4. QED
    BY <2>3 DEF n
<1>17. IsMoved(m, m4, old, a)
  <2>1. m4.used = m.used + 1
    BY <1>8, <1>9, <1>10
  <2>2. \A b \in Area : m4.type[b] = IF b = a THEN "superblock" ELSE m.type[b]
    BY <1>1, <1>6, <1>7, <1>8, <1>9, <1>10
  <2>3. \A b \in Area : m4.status[b] =
          IF b \in {0, a} THEN "active" ELSE IF b = old THEN "empty" ELSE m.status[b]
    <3>1. m2.status = w.status /\ w.status \in [Area -> AreaStatus]
      BY <1>1, <1>6, <1>7, <1>8
    <3>2. m3.status \in [Area -> AreaStatus]
      BY <3>1, <1>1, <1>9
    <3>3. QED
      BY <3>1, <3>2, <1>1, <1>6, <1>9, <1>10
  <2>4. \A t \in AreaType : m4.active[t] = IF t = "superblock" THEN 0 ELSE m.active[t]
    <3>1. m2.active = m.active
      BY <1>6, <1>7, <1>8
    <3>2. m3.active \in [AreaType -> Area]
      BY <3>1, <1>1, <1>9
    <3>3. QED
      BY <3>1, <3>2, <1>1, <1>9, <1>10
  <2>5. QED
    BY <2>1, <2>2, <2>3, <2>4, <1>10 DEF IsMoved
<1>18. \A b \in Area :
          /\ m3.type[b] = IF b = a THEN "superblock" ELSE m.type[b]
          /\ m3.status[b] = IF b = a THEN "active" ELSE IF b = old THEN "empty" ELSE m.status[b]
  <2>1. m3.type = [m.type EXCEPT ![a] = "superblock"]
    BY <1>6, <1>7, <1>8, <1>9
  <2>2. m3.status = [[m.status EXCEPT ![old] = "empty"] EXCEPT ![a] = "active"]
    BY <1>6, <1>7, <1>8, <1>9
  <2>3. [m.status EXCEPT ![old] = "empty"] \in [Area -> AreaStatus]
    BY <1>1
  <2>4. QED
    BY <2>1, <2>2, <2>3, <1>1
<1>19. QED
  BY <1>3, <1>6, <1>9, <1>11, <1>12, <1>13, <1>14, <1>15, <1>16, <1>17, <1>18 DEF w

(* A move does not change how many areas are in use. *)
LEMMA MoveCounts ==
    ASSUME NEW m \in Maps, NEW n, NEW old \in Area, NEW a \in Area, IsMoved(m, n, old, a),
           m.status[old] = "active", m.status[a] = "empty", m.status[0] = "active", old # 0
    PROVE  Count(n) = Count(m)
<1> DEFINE left == [m.status EXCEPT ![old] = "empty"]
           w == [m EXCEPT !.status = left]
<1>1. left \in [Area -> AreaStatus] /\ m.status \in [Area -> AreaStatus]
  BY DEF Maps, AreaStatus
<1>2. w \in Maps /\ w.status = left
  <2> HIDE DEF left
  <2>1. QED
    BY <1>1 DEF Maps
<1>3. Count(w) = Count(m) - 1
  BY <1>2, CountReleased
<1>4. w.status[a] = "empty" /\ a # old
  BY <1>1, <1>2
<1>5. n.status = [left EXCEPT ![a] = "active"]
  <2>1. n.status \in [Area -> AreaStatus]
    BY DEF IsMoved, Maps
  <2>2. \A b \in Area : n.status[b] = IF b = a THEN "active" ELSE left[b]
    BY <1>1 DEF IsMoved
  <2> HIDE DEF left
  <2>3. QED
    BY <2>1, <2>2, <1>1
<1> HIDE DEF w, left
<1>6. n.status = [w.status EXCEPT ![a] = "active"]
  BY <1>2, <1>5
<1>7. Count(n) = Count(w) + 1
  BY <1>2, <1>4, <1>6, CountTaken
<1>8. Count(m) \in Nat
  BY Counting
<1>9. QED
  BY <1>3, <1>7, <1>8

-----------------------------------------------------------------------------
(* Writing entries *)

(* The block an element leaves is erased before its entry is written. *)
LEMMA Erased ==
    ASSUME Types, StepErase, NEW i \in Elem, NEW s \in [Elem -> Spots], NEW m, NEW u, NEW next,
           Pending(i, s, m, u, next), s[i] = path[i],
           Head(prog) = Erase(path[i].pos, BlockOf(path[i].page))
    PROVE  /\ Pending(i, [s EXCEPT ![i] = NotFound], m, u, next)'
           /\ Types' /\ prog' = Tail(prog)
           /\ UNCHANGED <<map, log, root, rootDirty, sumDirty, path, serial, overflowing>>
<1> DEFINE r == [s EXCEPT ![i] = NotFound]
<1>1. /\ prog' = Tail(prog)
      /\ UNCHANGED <<map, log, root, rootDirty, sumDirty, path, serial, phase, overflowing>>
      /\ flash' = Wiped(flash, path[i].pos, BlockOf(path[i].page))
  <2> DEFINE e == Head(prog)
  <2>1. e.pos = path[i].pos /\ e.block = BlockOf(path[i].page)
    BY DEF Erase
  <2>2. /\ prog' = Tail(prog)
        /\ UNCHANGED <<map, log, root, rootDirty, sumDirty, path, serial, phase, overflowing>>
        /\ flash' = Wiped(flash, e.pos, e.block)
    BY DEF StepErase, Wiped
  <2> HIDE DEF e
  <2>3. QED
    BY <2>1, <2>2
<1>2. /\ 0 \in Elem /\ 1 \in Elem /\ 2 \in Elem /\ path \in [Elem -> Spot]
      /\ \A j \in Elem : j = 0 \/ j = 1 \/ j = 2
  BY DEF Elem, Types
<1>3. \A j \in Elem : path[j] # NotFound
  BY <1>2, SpotIs DEF Spots
<1>4. Lies(flash, s) /\ Flash(flash) /\ s[i] # NotFound
  BY <1>3 DEF Pending, Types, Flash
<1>5. Flash(flash') /\ r \in [Elem -> Spots] /\ Lies(flash', r) /\ Keeps(flash, flash', s, i)
  BY <1>1, <1>4, EraseLies
<1>6. r[i] = NotFound /\ \A j \in Elem : j # i => r[j] = s[j]
  OBVIOUS
<1>7. [r EXCEPT ![i] = path[i]] = [s EXCEPT ![i] = path[i]]
  OBVIOUS
<1> HIDE DEF r
<1>8. \A j \in Elem : j # i => r[j] \in Spot /\ At(flash', r[j]) = At(flash, s[j])
  <2>1. TAKE j \in Elem
  <2>2. HAVE j # i
  <2>3. j < i \/ j > i
    BY <2>2, <1>2
  <2>4. s[j] \in Spot
    BY <2>3, <1>2 DEF Pending
  <2>5. s[j] # NotFound
    BY <2>4, SpotIs DEF Spots
  <2>6. QED
    BY <2>2, <2>4, <2>5, <1>5, <1>6 DEF Keeps
<1>9. Types'
  BY <1>1, <1>5 DEF Types, Flash
<1>10. /\ (r \in [Elem -> Spots] /\ Lies(flash, r) /\ path \in [Elem -> Spot] /\ path[0].pos = 0)'
       /\ (r[i] \in {path[i], NotFound})'
  BY <1>1, <1>2, <1>5, <1>6 DEF Pending
<1>11. (\A j \in Elem : j < i => r[j] = path[j])'
  BY <1>1, <1>6, <1>2 DEF Pending
<1>12. (\A j \in Elem : j <= i /\ r[j] # NotFound => serial[j] = At(flash, path[j]).no)'
  <2>1. SUFFICES ASSUME NEW j \in Elem, j <= i, r[j] # NotFound
                 PROVE  serial[j] = At(flash', path[j]).no
    BY <1>1
  <2>2. j # i /\ j < i
    BY <2>1, <1>6, <1>2
  <2>3. s[j] = path[j] /\ r[j] = path[j] /\ s[j] # NotFound
    BY <2>1, <2>2, <1>6 DEF Pending
  <2>4. serial[j] = At(flash, path[j]).no
    BY <2>1, <2>3 DEF Pending
  <2>5. QED
    BY <2>2, <2>3, <2>4, <1>8
<1>13. /\ (\A j \in Elem : j > i => r[j] \in Spot)'
       /\ (\A j \in Elem : j # i => r[j].pos # path[i].pos)'
  BY <1>1, <1>2, <1>6 DEF Pending
<1>14. (Homes(m, [r EXCEPT ![i] = path[i]]))'
  BY <1>1, <1>7 DEF Pending, Homes
<1>15. (\A j \in Elem : j + 1 <= i => Points(flash, r, j, path[j + 1].pos))'
  <2>1. SUFFICES ASSUME NEW j \in Elem, j + 1 <= i
                 PROVE  At(flash', r[j]).next = path[j + 1].pos
    BY <1>1 DEF Points
  <2>2. j # i
    BY <2>1, <1>2
  <2>3. At(flash, s[j]).next = path[j + 1].pos
    BY <2>1 DEF Pending, Points
  <2>4. QED
    BY <2>2, <2>3, <1>8
<1>16. (i < 2 => next = r[i + 1].pos)'
  <2>1. HAVE i < 2
  <2>2. i + 1 \in Elem /\ i + 1 # i
    BY <2>1, <1>2
  <2>3. QED
    BY <2>1, <2>2, <1>6 DEF Pending
<1>17. (i = 0 => Points(flash, r, 1, r[2].pos))'
  BY <1>1, <1>2, <1>6, <1>8 DEF Pending, Points
<1>18. (/\ m \in Maps /\ m.active["superblock"] = 0 /\ m.status[0] = "active"
        /\ Count(m) = u /\ m.used \in 0 .. u + 2 - i)'
  BY DEF Pending, Count, InUse
<1>19. (i = 2 => m.used = u /\ Left(m, At(flash, r[1]).prev))'
  BY <1>2, <1>6, <1>8 DEF Pending, Left
<1>20. (i < 2 => /\ Index(flash, r).root = root
                 /\ Index(flash, r).map.used = u /\ isPlausible(Index(flash, r).map))'
  <2>1. SUFFICES ASSUME i < 2
                 PROVE  /\ At(flash', r[2]).root = root /\ At(flash', r[2]).map.used = u
                        /\ isPlausible(At(flash', r[2]).map)
    BY <1>1 DEF Index, isPlausible, InUse
  <2>2. At(flash', r[2]) = At(flash, s[2])
    BY <2>1, <1>2, <1>8
  <2>3. QED
    BY <2>1, <2>2 DEF Pending, Index
<1>21. (i = 1 => /\ Index(flash, r).map = [m EXCEPT !.used = u]
                 /\ Left(m, Index(flash, r).prev))'
  BY <1>1, <1>2, <1>6, <1>8 DEF Pending, Index, Left
<1>22. (i = 0 => /\ MapOf(flash, r) = [m EXCEPT !.used = u]
                 /\ Left(m, At(flash, r[1]).prev))'
  <2>1. i = 0 => MapOf(flash', r) = MapOf(flash, s)
    BY <1>2, <1>6, <1>8 DEF MapOf
  <2>2. QED
    BY <2>1, <1>2, <1>6, <1>8 DEF Pending, Left
<1>23. Pending(i, r, m, u, next)'
  BY <1>10, <1>11, <1>12, <1>13, <1>14, <1>15, <1>16, <1>17, <1>18, <1>19, <1>20, <1>21, <1>22
     DEF Pending
<1>24. QED
  BY <1>1, <1>9, <1>23 DEF r

\* An entry of element i is being written.
Writes(i, pos, p, no, prev, next, u) ==
    /\ pos \in Pos /\ p \in Page /\ prev \in Area /\ next \in Pos /\ u \in Nat
    /\ i = 2 => Count(map) = u
    /\ Head(prog) = Entry(i, pos, p, no, prev, next, Used(i, u))
    /\ StepWrite \/ StepWriteIndex

\* It is e.
Puts(e, i, pos, p, no, prev, next, u) ==
    /\ IsEntry(i, e) /\ e.no = no /\ e.prev = prev /\ e # Empty
    /\ flash' = Put(flash, pos, p, e)
    /\ i = 2 => e.root = root /\ e.map = [map EXCEPT !.used = u]
    /\ i # 2 => e.next = next

\* Nothing else changes.
OnlyPuts(pos, p) ==
    /\ Head(prog).pos = pos /\ Head(prog).page = p
    /\ prog' = Tail(prog) /\ phase' = phase
    /\ UNCHANGED <<map, log, root, rootDirty, sumDirty, path, serial, overflowing>>

(* The first page of an entry is programmed: what lies there afterwards, and
   what stays. *)
LEMMA Wrote ==
    ASSUME Types, NEW i \in Elem, NEW pos, NEW p, NEW no, NEW prev, NEW next, NEW u,
           Writes(i, pos, p, no, prev, next, u)
    PROVE  (\E e : Puts(e, i, pos, p, no, prev, next, u)) /\ OnlyPuts(pos, p)
<1> DEFINE w == Head(prog)
<1>0. /\ pos \in Pos /\ p \in Page /\ prev \in Area /\ next \in Pos /\ u \in Nat
      /\ i = 2 => Count(map) = u
      /\ w = Entry(i, pos, p, no, prev, next, Used(i, u))
      /\ StepWrite \/ StepWriteIndex
  BY DEF Writes
<1>1. CASE i = 2
  <2> DEFINE k == [map EXCEPT !.used = u]
             e == [kind |-> "superindex", no |-> no, prev |-> prev, root |-> root, map |-> k]
  <2>1. w = WriteIndex(pos, p, no, prev, u) /\ w.do = "writeIndex"
    BY <1>0, <1>1 DEF Entry, Used, WriteIndex
  <2>2. StepWriteIndex
    BY <1>0, <2>1 DEF StepWrite, Running
  <2>3. w.pos = pos /\ w.page = p /\ w.no = no /\ w.prev = prev /\ w.used = u
    BY <2>1 DEF WriteIndex
  <2>4. k \in Maps /\ isPlausible(k)
    BY <1>0, <1>1 DEF Types, Maps, isPlausible, Count, InUse
  <2>5. /\ flash' = Put(flash, pos, p, e) /\ prog' = Tail(prog) /\ phase' = phase
        /\ UNCHANGED <<map, log, root, rootDirty, sumDirty, path, serial, overflowing>>
    <3>1. UNCHANGED <<map, log, root, rootDirty, sumDirty, path, serial, overflowing>>
      BY <2>2 DEF StepWriteIndex
    <3> DEFINE index == [map EXCEPT !.used = w.used]
    <3>2. index = k
      BY <2>3
    <3>3. isPlausible(index)
      BY <3>2, <2>4
    <3>4. /\ flash' = [flash EXCEPT ![w.pos][w.page] =
                [kind |-> "superindex", no |-> w.no, prev |-> w.prev, root |-> root, map |-> index]]
          /\ prog' = Tail(prog) /\ phase' = phase
      BY <2>2, <3>3 DEF StepWriteIndex
    <3>5. QED
      BY <3>1, <3>2, <3>4, <2>3 DEF Put
  <2>6. IsEntry(i, e)
    BY <1>0, <1>1, <2>4 DEF IsEntry, Types
  <2>7. e # Empty
    <3>1. DOMAIN e # DOMAIN Empty
      BY DEF Empty
    <3>2. QED
      BY <3>1
  <2>8. e.no = no /\ e.prev = prev /\ e.root = root /\ e.map = k
    OBVIOUS
  <2> HIDE DEF e
  <2>9. QED
    BY <1>1, <2>3, <2>5, <2>6, <2>7, <2>8 DEF Puts, OnlyPuts
<1>2. CASE i # 2
  <2> DEFINE e == [kind |-> Kind(i), no |-> no, prev |-> prev, next |-> next]
  <2>1. w = Write(pos, p, e) /\ w.do = "write"
    BY <1>0, <1>2 DEF Entry, Write
  <2>2. StepWrite
    BY <1>0, <2>1 DEF StepWriteIndex, Running
  <2>3. w.pos = pos /\ w.page = p /\ w.entry = e
    BY <2>1 DEF Write
  <2>4. /\ flash' = Put(flash, pos, p, e) /\ prog' = Tail(prog) /\ phase' = phase
        /\ UNCHANGED <<map, log, root, rootDirty, sumDirty, path, serial, overflowing>>
    <3>1. /\ flash' = [flash EXCEPT ![w.pos][w.page] = w.entry] /\ prog' = Tail(prog)
          /\ UNCHANGED <<map, log, root, rootDirty, sumDirty, path, serial, phase, overflowing>>
      BY <2>2 DEF StepWrite
    <3>2. QED
      BY <3>1, <2>3 DEF Put
  <2>5. IsEntry(i, e)
    BY <1>0, <1>2 DEF IsEntry
  <2>6. e # Empty
    <3>1. DOMAIN e # DOMAIN Empty
      BY DEF Empty
    <3>2. QED
      BY <3>1
  <2>7. e.no = no /\ e.prev = prev /\ e.next = next
    OBVIOUS
  <2> HIDE DEF e
  <2>8. QED
    BY <1>2, <2>3, <2>4, <2>5, <2>6, <2>7 DEF Puts, OnlyPuts
<1>3. QED
  BY <1>1, <1>2

(* The map a mount reads is the one in the superindex if the entries of jump pad
   and superindex name no move it does not know. *)
LEMMA MapThere ==
    ASSUME NEW f, NEW s, NEW k \in Maps, s[1] \in Spot, s[2] \in Spot, Index(f, s).map = k,
           Index(f, s).prev \in Area, At(f, s[1]).prev \in Area,
           Left(k, Index(f, s).prev), Left(k, At(f, s[1]).prev),
           \A i \in {1, 2} : k.type[AreaOn(s[i].pos)] = "superblock"
                             /\ k.status[AreaOn(s[i].pos)] = "active"
    PROVE  MapOf(f, s) = k
<1>1. AfterMove(k, s[2], Index(f, s).prev) = k
  BY MovedBefore
<1>2. AfterMove(k, s[1], At(f, s[1]).prev) = k
  BY MovedBefore
<1>3. QED
  BY <1>1, <1>2 DEF MapOf, Index

(* A commit that has room goes on from the entries of the last one. *)
LEMMA CommitBegins ==
    ASSUME Types, Sound
    PROVE  Pending(2, path, map, map.used, 0) /\ map.used \in 0 .. AreasNo
<1>1. /\ 0 \in Elem /\ 1 \in Elem /\ 2 \in Elem /\ \A j \in Elem : j = 0 \/ j = 1 \/ j = 2
  BY DEF Elem
<1>2. path \in [Elem -> Spot] /\ map \in Maps
  BY DEF Types
<1>3. \A j \in Elem : path[j] \in Spots /\ path[j] # NotFound
  BY <1>2, SpotIs DEF Spots
<1>4. path \in [Elem -> Spots]
  BY <1>2 DEF Spots
<1>5. Chained(flash, path, map) /\ Lies(flash, path) /\ Serials
  BY DEF Sound, Chained
<1>6. Count(map) = map.used /\ map.used \in 0 .. AreasNo
  BY <1>2, Counting DEF Sound, isPlausible, Count
<1>7. map.used \in 0 .. map.used + 2 - 2
  BY <1>6, AreasAssumption
<1>8. \A j \in Elem : j # 2 => path[j].pos # path[2].pos
  BY <1>1, <1>3, <1>5 DEF Lies
<1>9. [path EXCEPT ![2] = path[2]] = path
  BY <1>2
<1>10. \A j \in Elem : j + 1 <= 2 => Points(flash, path, j, path[j + 1].pos)
  BY <1>1, <1>5 DEF Chained
<1>11. ~ (\E j \in Elem : j > 2) /\ ~ 2 < 2 /\ 2 # 0 /\ 2 # 1
  BY <1>1
<1>12. Homes(map, [path EXCEPT ![2] = path[2]]) /\ Left(map, At(flash, path[1]).prev)
  BY <1>5, <1>9 DEF Chained
<1>13. /\ path[0].pos = 0 /\ map.active["superblock"] = 0 /\ map.status[0] = "active"
  BY <1>5 DEF Chained
<1>14. \A j \in Elem : serial[j] = At(flash, path[j]).no
  BY <1>5 DEF Serials
<1>15. Pending(2, path, map, map.used, 0)
  BY <1>2, <1>4, <1>5, <1>6, <1>7, <1>8, <1>10, <1>11, <1>12, <1>13, <1>14 DEF Pending
<1>16. QED
  BY <1>6, <1>15

\* What a written entry leaves: the entries of element i lie at r[i] now.
Lands(s, r, i, prev, next, u) ==
    /\ r \in [Elem -> Spots] /\ r[i] \in Spot /\ Lies(flash', r)
    /\ \A j \in Elem : j # i =>
          r[j] = s[j] /\ (s[j] # NotFound => At(flash', r[j]) = At(flash, s[j]))
    /\ IsEntry(i, At(flash', r[i])) /\ At(flash', r[i]).prev = prev
    /\ i = 2 => At(flash', r[i]).root = root /\ At(flash', r[i]).map = [map EXCEPT !.used = u]
    /\ i # 2 => At(flash', r[i]).next = next

(* An entry is programmed behind the newest one of its block, or as the first of
   an empty area. *)
LEMMA Placed ==
    ASSUME Types, NEW i \in Elem, NEW s \in [Elem -> Spots], Lies(flash, s),
           NEW pos, NEW p, NEW no, NEW prev, NEW next, NEW u, Writes(i, pos, p, no, prev, next, u),
           \/ /\ s[i] # NotFound /\ pos = s[i].pos /\ p = s[i].page + 1
              /\ BlockOf(p) = BlockOf(s[i].page) /\ no = At(flash, s[i]).no + 1
           \/ /\ s[i] = NotFound /\ \A j \in Elem : j # i /\ s[j] # NotFound => s[j].pos # pos
              /\ First(p) /\ no = 0
    PROVE  /\ Lands(s, [s EXCEPT ![i] = SpotAt(pos, p)], i, prev, next, u)
           /\ Types' /\ OnlyPuts(pos, p)
<1> DEFINE r == [s EXCEPT ![i] = SpotAt(pos, p)]
<1>0. PICK e : Puts(e, i, pos, p, no, prev, next, u)
  BY Wrote
<1>1. /\ IsEntry(i, e) /\ e.no = no /\ e.prev = prev /\ e # Empty
      /\ flash' = Put(flash, pos, p, e)
      /\ i = 2 => e.root = root /\ e.map = [map EXCEPT !.used = u]
      /\ i # 2 => e.next = next
      /\ pos \in Pos /\ p \in Page
  BY <1>0 DEF Puts, Writes
<1>2. OnlyPuts(pos, p)
  BY Wrote
<1>3. Flash(flash)
  BY DEF Types, Flash
<1>4. /\ flash[pos][p] = Empty /\ Flash(flash') /\ r \in [Elem -> Spots] /\ Lies(flash', r)
      /\ At(flash', r[i]) = e /\ Keeps(flash, flash', s, i)
  <2>1. CASE s[i] = NotFound
    <3>1. /\ \A j \in Elem : j # i /\ s[j] # NotFound => s[j].pos # pos
          /\ First(p) /\ e.no = 0 /\ IsEntry(i, e) /\ e # Empty /\ pos \in Pos /\ p \in Page
          /\ flash' = Put(flash, pos, p, e)
      BY <2>1, <1>1
    <3> DEFINE g == Put(flash, pos, p, e)
    <3>2. /\ flash[pos][p] = Empty /\ Flash(g) /\ r \in [Elem -> Spots] /\ Lies(g, r)
          /\ At(g, r[i]) = e /\ Keeps(flash, g, s, i)
      <4>1. Starts(s, i, pos, p, e)
        BY <2>1, <3>1 DEF Starts
      <4>2. flash[pos][p] = Empty /\ Landed(flash, g, s, r, i, e)
        BY <4>1, <1>3, StartLies
      <4>3. QED
        BY <4>2 DEF Landed
    <3>3. QED
      BY <3>1, <3>2
  <2>2. CASE s[i] # NotFound
    <3>1. /\ pos = s[i].pos /\ p = s[i].page + 1 /\ BlockOf(p) = BlockOf(s[i].page)
          /\ e.no = At(flash, s[i]).no + 1 /\ s[i].page + 1 \in Page
          /\ BlockOf(s[i].page + 1) = BlockOf(s[i].page)
      BY <2>2, <1>1
    <3>2. flash' = Put(flash, s[i].pos, s[i].page + 1, e) /\ r = [s EXCEPT ![i] = SpotAt(s[i].pos, s[i].page + 1)]
      BY <3>1, <1>1
    <3>3. IsEntry(i, e) /\ e # Empty
      BY <1>1
    <3> HIDE DEF r
    <3> DEFINE q == s[i].page + 1
               x == s[i].pos
               g == Put(flash, x, q, e)
               v == [s EXCEPT ![i] = SpotAt(x, q)]
    <3>4. /\ flash[x][q] = Empty
          /\ Flash(g) /\ v \in [Elem -> Spots] /\ Lies(g, v) /\ At(g, v[i]) = e
          /\ Keeps(flash, g, s, i)
      BY <2>2, <3>1, <3>3, <1>3, AppendLies
    <3> HIDE DEF q, x, g, v
    <3>5. flash' = g /\ r = v /\ pos = x /\ p = q
      BY <3>1, <3>2 DEF q, x, g, v
    <3>6. QED
      BY <3>4, <3>5
  <2>3. QED
    BY <2>1, <2>2
<1>6. Types'
  BY <1>2, <1>4 DEF Types, Flash, OnlyPuts
<1>7. r[i] = SpotAt(pos, p) /\ r[i] \in Spot /\ \A j \in Elem : j # i => r[j] = s[j]
  BY <1>1 DEF SpotAt, Spot
<1> HIDE DEF r
<1>8. \A j \in Elem : j # i /\ s[j] # NotFound => At(flash', r[j]) = At(flash, s[j])
  BY <1>4, <1>7 DEF Keeps
<1>9. Lands(s, r, i, prev, next, u)
  BY <1>1, <1>4, <1>7, <1>8 DEF Lands
<1>10. QED
  BY <1>2, <1>6, <1>9 DEF r

(* What a commit writes last is a whole chain that says what the map says. *)
Ends(s, u) ==
    /\ s \in [Elem -> Spot] /\ Chained(flash, s, map)
    /\ Index(flash, s).root = root /\ Index(flash, s).map.used = u
    /\ MapOf(flash, s) = [map EXCEPT !.used = u]

(* The entry of an element that stays in its area completes the chain. *)
LEMMA StayLands ==
    ASSUME Types, NEW i \in Elem, NEW s \in [Elem -> Spots], NEW r, NEW u, NEW next,
           Pending(i, s, map, u, next), Lands(s, r, i, 0, next, u), r[i].pos = path[i].pos,
           UNCHANGED <<map, root, path>>
    PROVE  Ends(r, u)'
<1> DEFINE g == flash'
           k == [map EXCEPT !.used = u]
<1>1. /\ 0 \in Elem /\ 1 \in Elem /\ 2 \in Elem /\ \A j \in Elem : j = 0 \/ j = 1 \/ j = 2
  BY DEF Elem
<1>2. map \in Maps /\ u \in Nat /\ path \in [Elem -> Spot]
  BY Counting DEF Pending
<1>3. k \in Maps
  BY <1>2 DEF Maps
<1>4. \A j \in Elem : j # i => s[j] \in Spot /\ s[j] # NotFound
  <2>1. TAKE j \in Elem
  <2>2. HAVE j # i
  <2>3. j < i \/ j > i
    BY <2>2, <1>1
  <2>4. s[j] \in Spot
    BY <2>3, <1>2 DEF Pending
  <2>5. QED
    BY <2>4, SpotIs DEF Spots
<1>5. \A j \in Elem : j # i => r[j] = s[j] /\ At(g, r[j]) = At(flash, s[j])
  BY <1>4 DEF Lands
<1>6. r \in [Elem -> Spot]
  BY <1>4, <1>5 DEF Lands
<1>7. Lies(g, r)
  BY DEF Lands
<1>8. \A j \in Elem : r[j].pos = [s EXCEPT ![i] = path[i]][j].pos
  BY <1>5
<1>9. Homes(map, r)
  BY <1>8 DEF Pending, Homes
<1>10. r[0].pos = 0
  BY <1>1, <1>5 DEF Pending
<1>11. Points(g, r, 0, r[1].pos)
  <2>1. CASE i = 0
    <3>1. At(g, r[0]).next = next /\ next = s[1].pos /\ r[1] = s[1]
      BY <2>1, <1>1, <1>5 DEF Lands, Pending
    <3>2. QED
      BY <3>1 DEF Points
  <2>2. CASE i # 0
    <3>1. At(flash, s[0]).next = path[1].pos /\ At(g, r[0]) = At(flash, s[0])
      BY <2>2, <1>1, <1>5 DEF Pending, Points
    <3>2. r[1].pos = path[1].pos
      BY <2>2, <1>1, <1>5 DEF Pending
    <3>3. QED
      BY <3>1, <3>2 DEF Points
  <2>3. QED
    BY <2>1, <2>2
<1>12. Points(g, r, 1, r[2].pos)
  <2>1. CASE i = 0
    BY <2>1, <1>1, <1>5 DEF Pending, Points
  <2>2. CASE i = 1
    <3>1. At(g, r[1]).next = next /\ next = s[2].pos /\ r[2] = s[2]
      BY <2>2, <1>1, <1>5 DEF Lands, Pending
    <3>2. QED
      BY <3>1 DEF Points
  <2>3. CASE i = 2
    <3>1. At(flash, s[1]).next = path[2].pos /\ At(g, r[1]) = At(flash, s[1])
      BY <2>3, <1>1, <1>5 DEF Pending, Points
    <3>2. QED
      BY <2>3, <3>1 DEF Points
  <2>4. QED
    BY <1>1, <2>1, <2>2, <2>3
<1>13. /\ Index(g, r).root = root /\ Index(g, r).map.used = u
       /\ isPlausible(Index(g, r).map)
  <2>1. CASE i = 2
    <3>1. At(g, r[2]).root = root /\ At(g, r[2]).map = k
      BY <2>1 DEF Lands
    <3>2. k.used = u /\ Count(map) = u /\ k.status = map.status
      BY <1>2 DEF Pending, Maps
    <3>3. isPlausible(k)
      BY <3>2, CountSame DEF isPlausible, Count
    <3>4. QED
      BY <3>1, <3>2, <3>3 DEF Index
  <2>2. CASE i # 2
    <3>1. At(g, r[2]) = At(flash, s[2]) /\ i < 2
      BY <2>2, <1>1, <1>5
    <3>2. QED
      BY <3>1 DEF Pending, Index
  <2>3. QED
    BY <2>1, <2>2
<1>14. Left(map, At(g, r[1]).prev)
  <2>1. CASE i = 1
    BY <2>1 DEF Lands, Left
  <2>2. CASE i # 1
    <3>1. At(g, r[1]) = At(flash, s[1]) /\ (i = 0 \/ i = 2)
      BY <2>2, <1>1, <1>5
    <3>2. QED
      BY <3>1 DEF Pending
  <2>3. QED
    BY <2>1, <2>2
<1>15. \A j \in Elem : IsEntry(j, At(g, r[j]))
  <2>1. TAKE j \in Elem
  <2>2. r[j] # NotFound
    BY <1>6, SpotIs DEF Spots
  <2>3. QED
    BY <2>2, <1>7 DEF Lies
<1>16. MapOf(g, r) = k
  <2>1. CASE i = 0
    <3>1. MapOf(g, r) = MapOf(flash, s)
      BY <2>1, <1>1, <1>5 DEF MapOf
    <3>2. QED
      BY <2>1, <3>1 DEF Pending
  <2>2. CASE i # 0
    <3>1. Index(g, r).map = k /\ Left(map, Index(g, r).prev)
      <4>1. CASE i = 2
        BY <4>1 DEF Lands, Index, Left
      <4>2. CASE i = 1
        BY <4>2, <1>1, <1>5 DEF Pending, Index
      <4>3. QED
        BY <4>1, <4>2, <2>2, <1>1
    <3>2. Left(k, Index(g, r).prev) /\ Left(k, At(g, r[1]).prev)
      BY <3>1, <1>14, <1>2 DEF Left, Maps
    <3>3. At(g, r[1]).prev \in Area /\ Index(g, r).prev \in Area
      BY <1>15, <1>1 DEF IsEntry, Index
    <3>4. \A j \in {1, 2} : k.type[AreaOn(r[j].pos)] = "superblock"
                             /\ k.status[AreaOn(r[j].pos)] = "active"
      BY <1>9, <1>1, <1>2 DEF Homes, Maps
    <3>5. r[1] \in Spot /\ r[2] \in Spot
      BY <1>6, <1>1
    <3> HIDE DEF k, g
    <3>6. QED
      BY <3>1, <3>2, <3>3, <3>4, <3>5, <1>3, MapThere
  <2>3. QED
    BY <2>1, <2>2
<1>17. map.active["superblock"] = 0 /\ map.status[0] = "active"
  BY DEF Pending
<1>18. Chained(g, r, map)
  BY <1>6, <1>7, <1>9, <1>10, <1>11, <1>12, <1>13, <1>14, <1>17 DEF Chained
<1>19. QED
  BY <1>6, <1>13, <1>16, <1>18 DEF Ends, Chained, Index, MapOf, Lies, isPlausible, InUse

(* After a move, the map that a mount reads is again the one in RAM. *)
LEMMA MapMoved ==
    ASSUME NEW m \in Maps, NEW n \in Maps, NEW u \in Nat, NEW old \in Area, NEW a \in Area,
           IsMoved(m, n, old, a), old # 0, m.status[0] = "active", m.active["superblock"] = 0,
           NEW addr \in Spot, AreaOn(addr.pos) = a
    PROVE  AfterMove([m EXCEPT !.used = u], addr, old) = [n EXCEPT !.used = u]
<1> DEFINE k == [m EXCEPT !.used = u]
           l == [n EXCEPT !.used = u]
           x == MovedTo(k, old, a)
<1>1. k \in Maps /\ l \in Maps
  BY DEF Maps
<1>2. AfterMove(k, addr, old) = x /\ x \in Maps /\ x.used = u
  <2>1. k.used = u
    BY DEF Maps
  <2> HIDE DEF k, x
  <2>2. AfterMove(k, addr, old) = MovedTo(k, old, a)
    BY <1>1, Moving
  <2>3. AfterMove(k, addr, old) \in Maps /\ AfterMove(k, addr, old).used = k.used
    BY <1>1, MovedMap
  <2>4. QED
    BY <2>1, <2>2, <2>3 DEF x
<1>3. m.type \in [Area -> AreaType] /\ m.status \in [Area -> AreaStatus]
  BY DEF Maps
<1>4. \A b \in Area : x.type[b] = IF b = a THEN "superblock" ELSE m.type[b]
  BY <1>3 DEF MovedTo, Maps
<1>5. \A b \in Area : x.status[b] = IF b = a THEN "active" ELSE IF b = old THEN "empty" ELSE m.status[b]
  BY <1>3 DEF MovedTo, Maps
<1>6. x.active = m.active
  BY DEF MovedTo, Maps
<1>7. l.type = n.type /\ l.status = n.status /\ l.active = n.active /\ l.used = u
  BY DEF Maps
<1> HIDE DEF x, k, l
<1>8. \A b \in Area : x.type[b] = l.type[b] /\ x.status[b] = l.status[b]
  BY <1>4, <1>5, <1>7 DEF IsMoved
<1>9. \A t \in AreaType : x.active[t] = l.active[t]
  BY <1>6, <1>7 DEF IsMoved
<1>10. x = l
  BY <1>1, <1>2, <1>7, <1>8, <1>9, MapsEqual
<1>11. QED
  BY <1>2, <1>10 DEF k, l

(* The entry of an element that moves is followed by one of its predecessor. *)
LEMMA MoveLands ==
    ASSUME Types, NEW i \in Elem, i > 0, NEW s \in [Elem -> Spots], NEW r, NEW m \in Maps, NEW u, NEW next,
           NEW a \in Area, a # 0, m.status[a] = "empty",
           Pending(i, s, m, u, next), s[i] = NotFound,
           IsMoved(m, map, AreaOn(path[i].pos), a),
           Lands(s, r, i, AreaOn(path[i].pos), next, u), r[i].pos = Position[a],
           UNCHANGED <<map, root, path, serial>>
    PROVE  Pending(i - 1, r, map, u, Position[a])'
<1> DEFINE g == flash'
           k == i - 1
           old == AreaOn(path[i].pos)
<1>1. /\ 0 \in Elem /\ 1 \in Elem /\ 2 \in Elem /\ \A j \in Elem : j = 0 \/ j = 1 \/ j = 2
      /\ k \in Elem /\ k # i /\ i \in Nat /\ k < i /\ k + 1 = i
  BY DEF Elem
<1>2. m \in Maps /\ u \in Nat /\ path \in [Elem -> Spot] /\ map \in Maps
  BY Counting DEF Pending, Types
<1>3. \A j \in Elem : j # i => s[j] \in Spot /\ s[j] # NotFound
  <2>1. TAKE j \in Elem
  <2>2. HAVE j # i
  <2>3. j < i \/ j > i
    BY <2>2, <1>1
  <2>4. s[j] \in Spot
    BY <2>3, <1>2 DEF Pending
  <2>5. QED
    BY <2>4, SpotIs DEF Spots
<1>4. \A j \in Elem : j # i => r[j] = s[j] /\ At(g, r[j]) = At(flash, s[j])
  BY <1>3 DEF Lands
<1>5. r \in [Elem -> Spots] /\ Lies(g, r) /\ r \in [Elem -> Spot]
  BY <1>3, <1>4 DEF Lands
<1>6. \A j \in Elem : r[j] # NotFound
  BY <1>5, SpotIs DEF Spots
<1>7. \A j \in Elem : j < i => s[j] = path[j] /\ r[j] = path[j]
  BY <1>1, <1>4 DEF Pending
<1>8. r[k] = path[k] /\ s[k] = path[k]
  BY <1>1, <1>7
<1>9. /\ old \in Area /\ Position[old] = path[i].pos /\ AreaOn(Position[a]) = a
      /\ Position[a] \in Pos
  BY <1>2, Positions DEF Spot
<1>10. old # 0
  <2>1. s[0].pos = 0 /\ s[0].pos # path[i].pos
    BY <1>1, <1>7 DEF Pending
  <2>2. AreaOn(0) = 0 /\ AreaOn(path[i].pos) = old /\ Position[0] = 0
    BY ChainAssumption, Positions
  <2>3. QED
    BY <2>1, <2>2, <1>9
<1>11. Homes(m, [s EXCEPT ![i] = path[i]])
  BY DEF Pending
<1>12. m.status[old] = "active" /\ a # old
  <2>1. [s EXCEPT ![i] = path[i]][i] = path[i]
    OBVIOUS
  <2>2. QED
    BY <2>1, <1>11 DEF Homes
<1>13. \A j \in Elem : j # i => /\ AreaOn(s[j].pos) \in Area
                                /\ AreaOn(s[j].pos) # a /\ AreaOn(s[j].pos) # old
                                /\ m.type[AreaOn(s[j].pos)] = "superblock"
                                /\ m.status[AreaOn(s[j].pos)] = "active"
  <2>1. TAKE j \in Elem
  <2>2. HAVE j # i
  <2>3. [s EXCEPT ![i] = path[i]][j] = s[j]
    BY <2>2
  <2>4. m.type[AreaOn(s[j].pos)] = "superblock" /\ m.status[AreaOn(s[j].pos)] = "active"
    BY <2>3, <1>11 DEF Homes
  <2>5. s[j].pos \in Pos /\ s[j].pos # path[i].pos
    BY <2>2, <1>3 DEF Spot, Pending
  <2>6. AreaOn(s[j].pos) \in Area /\ AreaOn(s[j].pos) # old
    BY <2>5, <1>9, Positions
  <2>7. QED
    BY <2>4, <2>6
<1>14. Homes(map, r)
  <2>1. SUFFICES ASSUME NEW j \in Elem
                 PROVE  /\ map.type[AreaOn(r[j].pos)] = "superblock"
                        /\ map.status[AreaOn(r[j].pos)] = "active"
    BY DEF Homes
  <2>2. CASE j = i
    BY <2>2, <1>9 DEF IsMoved
  <2>3. CASE j # i
    <3>1. r[j] = s[j]
      BY <2>3, <1>4
    <3>2. QED
      BY <2>3, <3>1, <1>13 DEF IsMoved
  <2>4. QED
    BY <2>2, <2>3
<1>15. [r EXCEPT ![k] = path[k]] = r
  BY <1>1, <1>5, <1>8
<1>16. /\ map.active["superblock"] = 0 /\ map.status[0] = "active"
       /\ m.active["superblock"] = 0 /\ m.status[0] = "active"
  BY Positions DEF IsMoved, Pending, AreaType
<1>17. Count(map) = u
  <2>1. Count(map) = Count(m)
    BY <1>2, <1>9, <1>10, <1>12, <1>16, MoveCounts
  <2>2. QED
    BY <2>1 DEF Pending
<1>18. map.used \in 0 .. u + 2 - k
  <2>1. m.used \in 0 .. u + 2 - i /\ map.used = m.used + 1
    BY DEF Pending, IsMoved
  <2>2. QED
    BY <2>1, <1>1, <1>2
<1>19. map.status[old] = "empty"
  BY <1>9, <1>10, <1>12 DEF IsMoved
<1>20. \A j \in Elem : j <= k => serial[j] = At(g, path[j]).no
  <2>1. TAKE j \in Elem
  <2>2. HAVE j <= k
  <2>3. j < i /\ j <= i /\ j # i
    BY <2>2, <1>1
  <2>4. s[j] = path[j] /\ r[j] = path[j] /\ s[j] # NotFound
    BY <2>3, <1>3, <1>7
  <2>5. serial[j] = At(flash, path[j]).no
    BY <2>3, <2>4 DEF Pending
  <2>6. QED
    BY <2>3, <2>4, <2>5, <1>4
<1>21. \A j \in Elem : j # k => r[j].pos # path[k].pos
  BY <1>1, <1>5, <1>6, <1>8 DEF Lies
<1>22. \A j \in Elem : j + 1 <= k => Points(g, r, j, path[j + 1].pos)
  <2>1. TAKE j \in Elem
  <2>2. HAVE j + 1 <= k
  <2>3. j + 1 <= i /\ j # i
    BY <2>2, <1>1
  <2>4. At(flash, s[j]).next = path[j + 1].pos /\ At(g, r[j]) = At(flash, s[j])
    BY <2>3, <1>4 DEF Pending, Points
  <2>5. QED
    BY <2>4 DEF Points
<1>23. Position[a] = r[k + 1].pos
  BY <1>1
<1>24. k = 0 => Points(g, r, 1, r[2].pos)
  <2>1. HAVE k = 0
  <2>2. i = 1
    BY <2>1, <1>1
  <2>3. At(g, r[1]).next = next /\ next = s[2].pos /\ r[2] = s[2]
    BY <2>2, <1>1, <1>4 DEF Lands, Pending
  <2>4. QED
    BY <2>3 DEF Points
<1>25. At(g, r[i]).prev = old
  BY DEF Lands
<1>26. i = 2 => Index(g, r).root = root /\ Index(g, r).map = [map EXCEPT !.used = u]
  BY DEF Lands, Index
<1>27. i = 1 => Index(g, r) = Index(flash, s) /\ r[2] = s[2] /\ r[2] \in Spot
  BY <1>1, <1>3, <1>4 DEF Index
<1>28. /\ Index(g, r).root = root /\ Index(g, r).map.used = u
       /\ isPlausible(Index(g, r).map)
  <2>1. CASE i = 2
    <3> DEFINE n == [map EXCEPT !.used = u]
    <3>1. n.used = u /\ n.status = map.status
      BY <1>2 DEF Maps
    <3>2. isPlausible(n)
      BY <3>1, <1>17, CountSame DEF isPlausible, Count
    <3>3. QED
      BY <2>1, <3>1, <3>2, <1>26
  <2>2. CASE i = 1
    BY <2>2, <1>27 DEF Pending
  <2>3. QED
    BY <2>1, <2>2, <1>1
<1>29. k = 1 => Index(g, r).map = [map EXCEPT !.used = u] /\ Left(map, Index(g, r).prev)
  <2>1. HAVE k = 1
  <2>2. i = 2
    BY <2>1, <1>1
  <2>3. Index(g, r).prev = old
    BY <2>2, <1>25 DEF Index
  <2>4. QED
    BY <2>2, <2>3, <1>19, <1>26 DEF Left
<1>30. k = 0 => MapOf(g, r) = [map EXCEPT !.used = u] /\ Left(map, At(g, r[1]).prev)
  <2>1. HAVE k = 0
  <2>2. i = 1
    BY <2>1, <1>1
  <2> DEFINE l == [m EXCEPT !.used = u]
  <2>3. Index(g, r).map = l /\ Left(m, Index(g, r).prev)
    BY <2>2, <1>27 DEF Pending
  <2>4. l \in Maps /\ Left(l, Index(g, r).prev)
    BY <2>3, <1>2 DEF Left, Maps
  <2>5. Index(g, r).prev \in Area
    <3>1. IsEntry(2, At(g, r[2]))
      BY <1>1, <1>5, <1>6 DEF Lies
    <3>2. QED
      BY <3>1 DEF IsEntry, Index
  <2>6. l.type[AreaOn(r[2].pos)] = "superblock" /\ l.status[AreaOn(r[2].pos)] = "active"
    BY <2>2, <1>1, <1>13, <1>27 DEF Maps
  <2>7. r[1] \in Spot /\ r[2] \in Spot /\ AreaOn(r[1].pos) = a
    BY <2>2, <1>1, <1>5, <1>9
  <2>8. AfterMove(l, r[1], old) = [map EXCEPT !.used = u]
    BY <2>7, <1>2, <1>9, <1>10, <1>16, MapMoved
  <2> HIDE DEF l
  <2>9. AfterMove(l, r[2], Index(g, r).prev) = l
    BY <2>4, <2>5, <2>6, <2>7, MovedBefore
  <2>10. MapOf(g, r) = [map EXCEPT !.used = u]
    BY <2>2, <2>3, <2>8, <2>9, <1>25 DEF MapOf, Index
  <2>11. Left(map, At(g, r[1]).prev)
    BY <2>2, <1>19, <1>25 DEF Left
  <2>12. QED
    BY <2>10, <2>11
<1>31. path[0].pos = 0
  BY DEF Pending
<1>32. k # 2 /\ r[k] # NotFound /\ k < 2
  BY <1>1, <1>6
<1>33. \A j \in Elem : j < k => r[j] = path[j]
  BY <1>1, <1>7
<1>34. \A j \in Elem : r[j] \in Spot
  BY <1>5
<1> HIDE DEF k, g
<1>35. Pending(k, r, map, u, Position[a])'
  <2>1. (\A j \in Elem : j <= k /\ r[j] # NotFound => serial[j] = At(flash, path[j]).no)'
    BY <1>20 DEF g
  <2>2. (/\ r \in [Elem -> Spots] /\ Lies(flash, r)
         /\ path \in [Elem -> Spot] /\ path[0].pos = 0
         /\ r[k] \in {path[k], NotFound}
         /\ \A j \in Elem : j < k => r[j] = path[j])'
    BY <1>2, <1>5, <1>8, <1>31, <1>33 DEF g
  <2>3. (/\ \A j \in Elem : j > k => r[j] \in Spot
         /\ \A j \in Elem : j # k => r[j].pos # path[k].pos
         /\ Homes(map, [r EXCEPT ![k] = path[k]]))'
    BY <1>14, <1>15, <1>21, <1>34 DEF Homes
  <2>4. (/\ \A j \in Elem : j + 1 <= k => Points(flash, r, j, path[j + 1].pos)
         /\ k < 2 => Position[a] = r[k + 1].pos
         /\ k = 0 => Points(flash, r, 1, r[2].pos))'
    BY <1>22, <1>23, <1>24 DEF g, Points
  <2>5. (/\ map \in Maps /\ map.active["superblock"] = 0 /\ map.status[0] = "active"
         /\ Count(map) = u /\ map.used \in 0 .. u + 2 - k)'
    BY <1>2, <1>16, <1>17, <1>18 DEF Count, InUse
  <2>6. (k = 2 => map.used = u /\ Left(map, At(flash, r[1]).prev))'
    BY <1>32
  <2>7. (k < 2 => /\ Index(flash, r).root = root
                  /\ Index(flash, r).map.used = u /\ isPlausible(Index(flash, r).map))'
    BY <1>28 DEF g, Index, isPlausible, InUse
  <2>8. (k = 1 => /\ Index(flash, r).map = [map EXCEPT !.used = u]
                  /\ Left(map, Index(flash, r).prev))'
    BY <1>29 DEF g, Index, Left
  <2>9. (k = 0 => /\ MapOf(flash, r) = [map EXCEPT !.used = u]
                  /\ Left(map, At(flash, r[1]).prev))'
    BY <1>30 DEF g, MapOf, Left
  <2>10. QED
    BY <2>1, <2>2, <2>3, <2>4, <2>5, <2>6, <2>7, <2>8, <2>9 DEF Pending
<1>36. QED
  BY <1>35 DEF k

-----------------------------------------------------------------------------
(* Steps *)

(* Nothing but a checkpoint makes a summary clean again. *)
LEMMA DirtyStays ==
    ASSUME NEW l \in Seq(LogEntry), NEW n \in Seq(LogEntry), ReplayedSumDirty(l),
           \A i \in 1 .. Len(n) : n[i] # SumCheckpoint
    PROVE  ReplayedSumDirty(l \o n)
<1> DEFINE k == l \o n
<1>1. PICK i \in DOMAIN l : l[i] = PageStatus /\ \A j \in i .. Len(l) : l[j] # SumCheckpoint
  BY DEF ReplayedSumDirty
<1>2. /\ DOMAIN l = 1 .. Len(l) /\ DOMAIN k = 1 .. Len(l) + Len(n) /\ Len(k) = Len(l) + Len(n)
      /\ Len(l) \in Nat /\ Len(n) \in Nat
      /\ \A j \in 1 .. Len(l) : k[j] = l[j]
      /\ \A j \in 1 .. Len(n) : k[Len(l) + j] = n[j]
      /\ \A j \in 1 .. Len(l) + Len(n) : j \in 1 .. Len(l) \/ \E x \in 1 .. Len(n) : j = Len(l) + x
  BY Joined
<1> HIDE DEF k
<1>3. i \in 1 .. Len(l) /\ i \in DOMAIN k /\ k[i] = PageStatus
  BY <1>1, <1>2
<1>4. ASSUME NEW j \in i .. Len(k) PROVE k[j] # SumCheckpoint
  <2>1. j \in 1 .. Len(l) + Len(n)
    BY <1>2, <1>3
  <2>2. CASE j \in 1 .. Len(l)
    BY <2>2, <1>1, <1>2, <1>3
  <2>3. CASE \E x \in 1 .. Len(n) : j = Len(l) + x
    BY <2>3, <1>2
  <2>4. QED
    BY <2>1, <2>2, <2>3, <1>2
<1>5. ReplayedSumDirty(k)
  BY <1>3, <1>4 DEF ReplayedSumDirty
<1>6. QED
  BY <1>5 DEF k

(* What is pending is known from flash, chain and root node alone. *)
LEMMA PendingSame ==
    ASSUME NEW i, NEW s, NEW m, NEW u, NEW next, Pending(i, s, m, u, next),
           UNCHANGED <<flash, root, path, serial>>
    PROVE  Pending(i, s, m, u, next)'
BY DEF Pending, Homes, Points, Left, Index, Count, InUse, isPlausible

(* What is sound stays so if nothing it speaks of changes. *)
LEMMA SoundSame ==
    ASSUME Sound, prog # Noting, UNCHANGED <<flash, map, log, root, rootDirty, path, serial>>
    PROVE  Sound'
<1>1. ~ ReplayedSumDirty(log) => MapOf(flash, path) = map
  BY DEF Sound
<1>2. /\ Chained(flash, path, map)' /\ Serials' /\ isPlausible(map)'
      /\ (Replayed(MapOf(flash, path), log) = map)'
      /\ (ReplayedRoot(Index(flash, path).root, log) = root)'
      /\ (~ rootDirty => Index(flash, path).root = root)'
      /\ (~ ReplayedSumDirty(log) => MapOf(flash, path) = map)'
  BY <1>1 DEF Sound, Serials, isPlausible, InUse, Index
<1>3. QED
  BY <1>2 DEF Sound

\* Steps that concern neither map nor log.
Quiet == UNCHANGED <<map, log, root, sumDirty>>

(* Such steps settle nothing anew. *)
LEMMA SettledSame ==
    ASSUME Settled, Quiet
    PROVE  Settled'
BY DEF Settled, Quiet, ReplayedRoot, ReplayedSumDirty, RootEntries

(* What the instructions at the head of a program do. *)
LEMMA HeadKinds ==
    /\ \A d : Do(d).do = d
    /\ \A l : Log(l).do = "log" /\ Log(l).entries = l
    /\ \A i, no, next, u : Insert(i, no, next, u).do = "insert"
    /\ \A pos, b : Erase(pos, b).do = "erase"
    /\ \A i, pos, p, no, prev, next, u : Entry(i, pos, p, no, prev, next, u).do \in {"write", "writeIndex"}
BY DEF Do, Log, Insert, Erase, Entry, Write, WriteIndex

(* The instruction a call is at, stage by stage. *)
LEMMA Stages ==
    ASSUME Types
    PROVE  /\ Registering => prog # <<>> /\ (Head(prog) = Log(<<PageStatus>>) \/ Head(prog).do = "rootnode")
           /\ Taking => prog # <<>> /\ Head(prog).do = "log"
           /\ Releasing => prog # <<>> /\ Head(prog).do = "log"
           /\ prog = Noting => prog # <<>> /\ Head(prog) = Log(<<PageStatus>>)
           /\ Beginning => prog # <<>> /\ Head(prog).do \in {"insert", "write", "writeIndex"}
           /\ prog = Committing => prog # <<>> /\ Head(prog).do = "committed"
           /\ prog = Retiring => prog # <<>> /\ Head(prog) = Log(<<SumCheckpoint>>)
           /\ prog = Rereading => prog # <<>> /\ Head(prog).do = "reread"
           /\ prog = Clearing => prog # <<>> /\ Head(prog).do = "clear"
           /\ \A i, s, u, next : Stays(i, s, u, next) =>
                 prog # <<>> /\ Head(prog).do \in {"insert", "erase", "write", "writeIndex"}
           /\ \A i, s, m, u, next, a : Moves(i, s, m, u, next, a) =>
                 prog # <<>> /\ Head(prog).do \in {"log", "erase", "write", "writeIndex"}
<1>1. Registering => prog # <<>> /\ (Head(prog) = Log(<<PageStatus>>) \/ Head(prog).do = "rootnode")
  <2>1. SUFFICES ASSUME NEW r \in 0 .. Roots - 1,
                        \/ prog = Cons(Log(<<PageStatus>>), <<[do |-> "rootnode", root |-> r]>>)
                        \/ prog = <<[do |-> "rootnode", root |-> r]>>
                 PROVE  prog # <<>> /\ (Head(prog) = Log(<<PageStatus>>) \/ Head(prog).do = "rootnode")
    BY DEF Registering
  <2> DEFINE e == [do |-> "rootnode", root |-> r]
  <2>2. e.do = "rootnode"
    OBVIOUS
  <2> HIDE DEF e
  <2>3. IsProgram(<<e>>) /\ Head(<<e>>) = e /\ <<e>> # <<>>
    BY NamedPrograms, Heads
  <2>4. Head(Cons(Log(<<PageStatus>>), <<e>>)) = Log(<<PageStatus>>) /\ Cons(Log(<<PageStatus>>), <<e>>) # <<>>
    BY <2>3, Programs
  <2>5. QED
    BY <2>1, <2>2, <2>3, <2>4 DEF e
<1>2. Taking => prog # <<>> /\ Head(prog).do = "log"
  <2>1. SUFFICES ASSUME NEW l, prog = <<Log(l)>> PROVE prog # <<>> /\ Head(prog).do = "log"
    BY DEF Taking
  <2>2. QED
    BY <2>1, Heads, HeadKinds
<1>3. Releasing => prog # <<>> /\ Head(prog).do = "log"
  <2>1. SUFFICES ASSUME NEW l, prog = Cons(Log(l), Noting) PROVE prog # <<>> /\ Head(prog).do = "log"
    BY DEF Releasing
  <2> DEFINE e == Log(l)
  <2>2. IsProgram(Noting) /\ e.do = "log"
    BY NamedPrograms, HeadKinds DEF Noting
  <2> HIDE DEF e
  <2>3. Head(Cons(e, Noting)) = e /\ Cons(e, Noting) # <<>>
    BY <2>2, Programs
  <2>4. QED
    BY <2>1, <2>2, <2>3 DEF e
<1>4. prog = Noting => prog # <<>> /\ Head(prog) = Log(<<PageStatus>>)
  BY Heads DEF Noting
<1>5. Beginning => prog # <<>> /\ Head(prog).do \in {"insert", "write", "writeIndex"}
  BY Heads, HeadKinds DEF Beginning
<1>6. /\ prog = Committing => prog # <<>> /\ Head(prog).do = "committed"
      /\ prog = Retiring => prog # <<>> /\ Head(prog) = Log(<<SumCheckpoint>>)
      /\ prog = Rereading => prog # <<>> /\ Head(prog).do = "reread"
      /\ prog = Clearing => prog # <<>> /\ Head(prog).do = "clear"
  BY Heads, HeadKinds, NamedPrograms
<1>7. ASSUME NEW i, NEW s, NEW u, NEW next, Stays(i, s, u, next)
      PROVE  prog # <<>> /\ Head(prog).do \in {"insert", "erase", "write", "writeIndex"}
  <2>1. CASE prog = Inserting(i, u, next)
    BY <2>1, Heads, HeadKinds
  <2>2. CASE prog = Appending(i, u, next)
    BY <2>2, Heads, HeadKinds
  <2>3. ASSUME NEW p, prog = Erasing(i, Restarting(i, p, u, next))
        PROVE  prog # <<>> /\ Head(prog).do \in {"insert", "erase", "write", "writeIndex"}
    BY <2>3, NamedPrograms, Heads, HeadKinds
  <2>4. ASSUME NEW p, prog = Restarting(i, p, u, next)
        PROVE  prog # <<>> /\ Head(prog).do \in {"insert", "erase", "write", "writeIndex"}
    BY <2>4, Heads, HeadKinds
  <2>5. QED
    BY <1>7, <2>1, <2>2, <2>3, <2>4 DEF Stays
<1>8. ASSUME NEW i, NEW s, NEW m, NEW u, NEW next, NEW a, Moves(i, s, m, u, next, a)
      PROVE  prog # <<>> /\ Head(prog).do \in {"log", "erase", "write", "writeIndex"}
  <2> DEFINE settling == Settling(i, a, u, next)
             erasing == Erasing(i, settling)
             ignoring == Cons(Ignoring, erasing)
             entering == Cons(Entering(m, a), ignoring)
             leaving == Cons(Leaving(AreaOn(path[i].pos)), entering)
  <2>1. prog \in {settling, erasing, ignoring, entering, leaving}
    BY <1>8 DEF Moves
  <2>2. IsProgram(settling) /\ IsProgram(erasing)
    BY NamedPrograms
  <2>3. settling # <<>> /\ Head(settling).do \in {"write", "writeIndex"}
    BY Heads, HeadKinds
  <2>4. erasing # <<>> /\ Head(erasing).do = "erase"
    BY <2>2, Heads, HeadKinds
  <2> HIDE DEF settling, erasing
  <2>5. IsProgram(ignoring) /\ ignoring # <<>> /\ Head(ignoring) = Ignoring
    BY <2>2, Programs
  <2> HIDE DEF ignoring
  <2>6. IsProgram(entering) /\ entering # <<>> /\ Head(entering) = Entering(m, a)
    BY <2>5, Programs
  <2> HIDE DEF entering
  <2>7. leaving # <<>> /\ Head(leaving) = Leaving(AreaOn(path[i].pos))
    BY <2>6, Programs
  <2> HIDE DEF leaving
  <2>8. QED
    BY <2>1, <2>3, <2>4, <2>5, <2>6, <2>7, HeadKinds DEF Ignoring, Entering, Leaving
<1>9. QED
  BY <1>1, <1>2, <1>3, <1>4, <1>5, <1>6, <1>7, <1>8

(* Programs are the same as long as the chain in RAM is. *)
LEMMA ProgramsSame ==
    ASSUME UNCHANGED <<path, serial>>, NEW i, NEW u, NEW next, NEW a, NEW p
    PROVE  /\ Inserting(i, u, next)' = Inserting(i, u, next)
           /\ Appending(i, u, next)' = Appending(i, u, next)
           /\ Restarting(i, p, u, next)' = Restarting(i, p, u, next)
           /\ Settling(i, a, u, next)' = Settling(i, a, u, next)
           /\ Erasing(i, Restarting(i, p, u, next))' = Erasing(i, Restarting(i, p, u, next))
           /\ Erasing(i, Settling(i, a, u, next))' = Erasing(i, Settling(i, a, u, next))
BY DEF Inserting, Appending, Restarting, Settling, Erasing, Insert, Entry, Erase, WriteIndex, Write

\* The stages of a move.
MoveStages(m, i, u, next, a) ==
    LET old == AreaOn(path[i].pos)
        settling == Settling(i, a, u, next)
        ignoring == Cons(Ignoring, Erasing(i, settling))
        entering == Cons(Entering(m, a), ignoring)
    IN  [leaving |-> Cons(Leaving(old), entering), entering |-> entering,
         ignoring |-> ignoring, erasing |-> Erasing(i, settling), settling |-> settling]

(* The stages stay the same, too. *)
LEMMA StagesSame ==
    ASSUME UNCHANGED <<path, serial>>, NEW i, NEW m, NEW u, NEW next, NEW a
    PROVE  MoveStages(m, i, u, next, a)' = MoveStages(m, i, u, next, a)
BY DEF MoveStages, Settling, Erasing, Insert, Entry, Erase, WriteIndex, Write

(* The program of a move ends stage by stage. *)
LEMMA StageTails ==
    ASSUME NEW i, NEW m, NEW u, NEW next, NEW a
    PROVE  LET g == MoveStages(m, i, u, next, a)
           IN  /\ Head(g.leaving) = Leaving(AreaOn(path[i].pos)) /\ Tail(g.leaving) = g.entering
               /\ Head(g.entering) = Entering(m, a) /\ Tail(g.entering) = g.ignoring
               /\ Head(g.ignoring) = Ignoring /\ Tail(g.ignoring) = g.erasing
               /\ Head(g.erasing) = Erase(path[i].pos, BlockOf(path[i].page))
               /\ Tail(g.erasing) = g.settling
               /\ g.settling = Settling(i, a, u, next)
<1> DEFINE settling == Settling(i, a, u, next)
           erasing == Erasing(i, settling)
           ignoring == Cons(Ignoring, erasing)
           entering == Cons(Entering(m, a), ignoring)
           leaving == Cons(Leaving(AreaOn(path[i].pos)), entering)
           g == MoveStages(m, i, u, next, a)
<1>1. /\ g.leaving = leaving /\ g.entering = entering /\ g.ignoring = ignoring
      /\ g.erasing = erasing /\ g.settling = settling
  BY DEF MoveStages
<1>2. IsProgram(settling) /\ IsProgram(erasing)
  BY NamedPrograms
<1>3. Head(erasing) = Erase(path[i].pos, BlockOf(path[i].page)) /\ Tail(erasing) = settling
  BY <1>2, Heads
<1> HIDE DEF settling, erasing
<1>4. IsProgram(ignoring) /\ Head(ignoring) = Ignoring /\ Tail(ignoring) = erasing
  BY <1>2, Programs
<1> HIDE DEF ignoring
<1>5. IsProgram(entering) /\ Head(entering) = Entering(m, a) /\ Tail(entering) = ignoring
  BY <1>4, Programs
<1> HIDE DEF entering
<1>6. Head(leaving) = Leaving(AreaOn(path[i].pos)) /\ Tail(leaving) = entering
  BY <1>5, Programs
<1> HIDE DEF leaving, g
<1>7. QED
  BY <1>1, <1>3, <1>4, <1>5, <1>6 DEF g, settling

\* An element is moving, in terms of the stages.
MovesAt(i, s, m, u, next, a, mp, pr) ==
    LET g == MoveStages(m, i, u, next, a)
        old == AreaOn(path[i].pos)
    IN  \/ s[i] = path[i] /\ mp = m /\ pr = g.leaving
        \/ s[i] = path[i] /\ mp = Without(m, old) /\ pr = g.entering
        \/ s[i] = path[i] /\ mp = Entered(m, old, a) /\ pr = g.ignoring
        \/ s[i] = path[i] /\ mp = Moved(m, old, a) /\ pr = g.erasing
        \/ s[i] = NotFound /\ mp = Moved(m, old, a) /\ pr = g.settling

(* That is all a move is. *)
LEMMA MovesIs ==
    ASSUME NEW i, NEW s, NEW m, NEW u, NEW next, NEW a
    PROVE  Moves(i, s, m, u, next, a) <=>
             /\ Pending(i, s, m, u, next) /\ i > 0 /\ a # 0 /\ m.status[a] = "empty"
             /\ MovesAt(i, s, m, u, next, a, map, prog)
BY DEF Moves, MovesAt, MoveStages

(* A move goes on to its next stage. *)
LEMMA MovesOn ==
    ASSUME NEW i, NEW s, NEW m, NEW u, NEW next, NEW a, UNCHANGED <<path, serial>>,
           Pending(i, s, m, u, next)', i > 0, a # 0, m.status[a] = "empty",
           MovesAt(i, s, m, u, next, a, map', prog')
    PROVE  Moves(i, s, m, u, next, a)'
<1> DEFINE g == MoveStages(m, i, u, next, a)
<1>1. MoveStages(m, i, u, next, a)' = g
  BY StagesSame
<1>2. (MovesAt(i, s, m, u, next, a, map, prog))'
  BY <1>1 DEF MovesAt
<1>3. (/\ Pending(i, s, m, u, next) /\ i > 0 /\ a # 0 /\ m.status[a] = "empty"
       /\ MovesAt(i, s, m, u, next, a, map, prog))'
  BY <1>2
<1>4. QED
  BY <1>3, MovesIs, PTL

(* No move concerns the areas that hold data. *)
LEMMA MoveData ==
    ASSUME NEW m \in Maps, NEW a \in Area, NEW old \in Area,
           m.type[old] = "superblock", m.status[0] = "active", m.status[a] = "empty"
    PROVE  /\ DataAreas(Without(m, old)) = DataAreas(m)
           /\ DataAreas(Entered(m, old, a)) = DataAreas(m)
           /\ DataAreas(Moved(m, old, a)) = DataAreas(m)
<1>1. /\ \A b \in Area : /\ Without(m, old).type[b] = m.type[b]
                         /\ Without(m, old).status[b] = IF b = old THEN "empty" ELSE m.status[b]
  BY DEF Without, Maps
<1>2. /\ IsMoved(m, Moved(m, old, a), old, a)
      /\ \A b \in Area :
           /\ Entered(m, old, a).type[b] = IF b = a THEN "superblock" ELSE m.type[b]
           /\ Entered(m, old, a).status[b] =
                 IF b = a THEN "active" ELSE IF b = old THEN "empty" ELSE m.status[b]
  BY MoveMaps
<1>3. \A b \in Area : b \in DataAreas(Without(m, old)) <=> b \in DataAreas(m)
  BY <1>1 DEF DataAreas
<1>4. \A b \in Area : b \in DataAreas(Entered(m, old, a)) <=> b \in DataAreas(m)
  BY <1>2 DEF DataAreas
<1>5. \A b \in Area : b \in DataAreas(Moved(m, old, a)) <=> b \in DataAreas(m)
  BY <1>2 DEF DataAreas, IsMoved
<1>6. QED
  BY <1>3, <1>4, <1>5 DEF DataAreas

(* The last stages of a move log nothing. *)
LEMMA Unlogged ==
    ASSUME NEW i, NEW m, NEW u, NEW next, NEW a
    PROVE  LET g == MoveStages(m, i, u, next, a)
           IN  Head(g.erasing).do # "log" /\ Head(g.settling).do # "log"
<1> DEFINE g == MoveStages(m, i, u, next, a)
<1>1. Head(g.erasing) = Erase(path[i].pos, BlockOf(path[i].page)) /\ g.settling = Settling(i, a, u, next)
  BY StageTails
<1> HIDE DEF g
<1>2. Head(g.erasing).do = "erase"
  BY <1>1, HeadKinds
<1>3. Head(g.settling).do \in {"write", "writeIndex"}
  <2>1. Head(g.settling) = Entry(i, Position[a], 0, 0, AreaOn(path[i].pos), next, Used(i, u))
    BY <1>1, Heads
  <2>2. QED
    BY <2>1, HeadKinds
<1>4. QED
  BY <1>2, <1>3 DEF g

(* What a move logs. *)
LEMMA MoveHeads ==
    ASSUME NEW i, NEW s, NEW m, NEW u, NEW next, NEW a, Moves(i, s, m, u, next, a),
           Head(prog).do = "log"
    PROVE  \/ Head(prog) = Leaving(AreaOn(path[i].pos)) \/ Head(prog) = Entering(m, a)
           \/ Head(prog) = Ignoring
<1> DEFINE g == MoveStages(m, i, u, next, a)
<1>1. prog # g.erasing /\ prog # g.settling
  BY Unlogged
<1>2. prog \in {g.leaving, g.entering, g.ignoring}
  BY <1>1, MovesIs DEF MovesAt
<1>3. /\ Head(g.leaving) = Leaving(AreaOn(path[i].pos)) /\ Head(g.entering) = Entering(m, a)
      /\ Head(g.ignoring) = Ignoring
  BY StageTails
<1> HIDE DEF g
<1>4. QED
  BY <1>2, <1>3

(* An area is entered as the superblock's, step by step. *)
LEMMA MoveLogged ==
    ASSUME Types, Settled, StepLog, NEW i \in Elem, NEW s \in [Elem -> Spots], NEW m \in Maps,
           NEW u, NEW next, NEW a \in Area, Moves(i, s, m, u, next, a)
    PROVE  /\ Moves(i, s, m, u, next, a)'
           /\ Types' /\ Settled' /\ overflowing' = overflowing
           /\ DataAreas(map') = DataAreas(map)
<1> DEFINE g == MoveStages(m, i, u, next, a)
           old == AreaOn(path[i].pos)
<1>1. /\ Pending(i, s, m, u, next) /\ i > 0 /\ a # 0 /\ m.status[a] = "empty"
      /\ MovesAt(i, s, m, u, next, a, map, prog)
  BY MovesIs
<1>2. old \in Area
  BY Positions DEF Types, Spot
<1>3. /\ Head(g.leaving) = Leaving(old) /\ Tail(g.leaving) = g.entering
      /\ Head(g.entering) = Entering(m, a) /\ Tail(g.entering) = g.ignoring
      /\ Head(g.ignoring) = Ignoring /\ Tail(g.ignoring) = g.erasing
      /\ Head(g.erasing) = Erase(path[i].pos, BlockOf(path[i].page))
      /\ g.settling = Settling(i, a, u, next)
  BY StageTails
<1>4. Head(prog).do = "log"
  BY DEF StepLog, Running
<1>5. prog # g.erasing /\ prog # g.settling
  BY <1>4, Unlogged
<1>6. /\ Without(m, old) \in Maps /\ Without(m, old) = Replayed(m, Leaving(old).entries)
      /\ Moved(m, old, a) = Replayed(Entered(m, old, a), Ignoring.entries)
      /\ Entered(m, old, a) = Replayed(Without(m, old), Entering(m, a).entries)
      /\ IsMapLog(Leaving(old).entries) /\ IsMapLog(Entering(m, a).entries)
      /\ IsMapLog(Ignoring.entries)
  BY <1>2, MoveMaps DEF Entered
<1> HIDE DEF g, old
<1>7. /\ s[i] = path[i]
      /\ \/ map = m /\ prog = g.leaving
         \/ map = Without(m, old) /\ prog = g.entering
         \/ map = Entered(m, old, a) /\ prog = g.ignoring
  BY <1>1, <1>5 DEF MovesAt, g, old
<1>8. IsMapLog(Head(prog).entries)
  BY <1>3, <1>6, <1>7
<1>9. /\ Types' /\ Settled' /\ overflowing' = overflowing
      /\ map' = Replayed(map, Head(prog).entries) /\ prog' = Tail(prog)
      /\ UNCHANGED <<flash, root, path, serial>>
  BY <1>8, Logging
<1>10. \/ map' = Without(m, old) /\ prog' = g.entering
       \/ map' = Entered(m, old, a) /\ prog' = g.ignoring
       \/ map' = Moved(m, old, a) /\ prog' = g.erasing
  BY <1>3, <1>6, <1>7, <1>9
<1>11. MovesAt(i, s, m, u, next, a, map', prog')
  BY <1>7, <1>10 DEF MovesAt, g, old
<1>12. Pending(i, s, m, u, next)'
  BY <1>1, <1>9, PendingSame
<1>13. Moves(i, s, m, u, next, a)'
  BY <1>1, <1>9, <1>11, <1>12, MovesOn
<1>14. DataAreas(map') = DataAreas(map)
  <2>1. /\ DataAreas(Without(m, old)) = DataAreas(m)
        /\ DataAreas(Entered(m, old, a)) = DataAreas(m)
        /\ DataAreas(Moved(m, old, a)) = DataAreas(m)
    <3>1. m.type[old] = "superblock" /\ m.status[0] = "active"
      BY <1>1 DEF Pending, Homes, old
    <3>2. QED
      BY <3>1, <1>1, <1>2, MoveData
  <2>2. DataAreas(map) = DataAreas(m)
    BY <2>1, <1>7
  <2>3. DataAreas(map') = DataAreas(m)
    BY <2>1, <1>10
  <2>4. QED
    BY <2>2, <2>3
<1>15. QED
  BY <1>9, <1>13, <1>14

(* The checkpoint of the summaries is logged. *)
LEMMA RetiredLogged ==
    ASSUME Types, Settled, StepLog, Head(prog) = Log(<<SumCheckpoint>>)
    PROVE  /\ Types' /\ Settled' /\ map' = map /\ prog' = Tail(prog) /\ ~ ReplayedSumDirty(log')
           /\ UNCHANGED <<flash, root, overflowing>>
<1> DEFINE n == <<SumCheckpoint>>
<1>1. Head(prog).entries = n /\ n \in Seq(LogEntry) /\ Len(n) = 1 /\ n[1] = SumCheckpoint
  BY Entries DEF Log
<1>2. IsMapLog(n)
  BY <1>1 DEF IsMapLog, SumCheckpoint
<1>3. map \in Maps /\ log \in Seq(LogEntry)
  BY DEF Types
<1>4. Replayed(map, n) = map
  <2>1. Replayed(map, n) = Applied(map, SumCheckpoint)
    BY <1>3, ReplayShort, Entries
  <2>2. QED
    BY <2>1 DEF Applied, SumCheckpoint
<1>5. ~ ReplayedSumDirty(log \o n)
  BY <1>3, DirtyRetired
<1> HIDE DEF n
<1>6. QED
  BY <1>1, <1>2, <1>4, <1>5, Logging

(* What is done stays so if map, root node and flash do. *)
LEMMA DoneSame ==
    ASSUME NEW s, Done(s), UNCHANGED <<flash, map, root, overflowing>>
    PROVE  Done(s)'
BY DEF Done, Index, Count, InUse

(* Logging, in whatever call. *)
LEMMA LogKept ==
    ASSUME IInv, StepLog
    PROVE  IInv'
<1>1. Types /\ Settled /\ prog # <<>> /\ Head(prog).do = "log"
  BY DEF IInv, StepLog, Running
<1>2. CASE InCall
  <2>1. Sound /\ overflowing = FALSE
    BY <1>2 DEF InCall
  <2>2. CASE Head(prog) = Log(<<PageStatus>>) /\ (Registering \/ prog = Noting)
    <3>1. Sound' /\ Types' /\ Settled' /\ prog' = Tail(prog) /\ overflowing' = overflowing
      BY <1>1, <2>1, <2>2, PageLogged
    <3>2. Registering' \/ prog' = <<>>
      <4>1. CASE prog = Noting
        BY <4>1, <3>1, Heads DEF Noting
      <4>2. ASSUME NEW r \in 0 .. Roots - 1,
                   prog = Cons(Log(<<PageStatus>>), <<[do |-> "rootnode", root |-> r]>>)
            PROVE  Registering'
        <5> DEFINE e == [do |-> "rootnode", root |-> r]
        <5>1. Tail(Cons(Log(<<PageStatus>>), <<e>>)) = <<e>>
          BY NamedPrograms, Programs
        <5>2. prog' = <<e>>
          BY <5>1, <4>2, <3>1
        <5>3. QED
          BY <5>2 DEF Registering
      <4>3. ASSUME NEW r \in 0 .. Roots - 1, prog = <<[do |-> "rootnode", root |-> r]>>
            PROVE  FALSE
        <5> DEFINE e == [do |-> "rootnode", root |-> r]
        <5>1. e.do = "rootnode"
          OBVIOUS
        <5> HIDE DEF e
        <5>2. Head(<<e>>) = e
          BY Heads
        <5>3. QED
          BY <5>1, <5>2, <4>3, <1>1 DEF e
      <4>4. QED
        BY <2>2, <4>1, <4>2, <4>3 DEF Registering
    <3>3. QED
      BY <3>1, <3>2, <2>1 DEF IInv, InCall
  <2>3. CASE Taking
    <3>1. PICK a \in Area : map.status[a] = "empty" /\ a # Previous /\ prog = <<Log(TakeEntries(map, a))>>
      BY <2>3 DEF Taking
    <3>2. Head(prog) = Log(TakeEntries(map, a)) /\ Tail(prog) = <<>>
      BY <3>1, Heads
    <3>3. Sound' /\ Types' /\ Settled' /\ prog' = Tail(prog) /\ overflowing' = overflowing
      BY <1>1, <2>1, <3>1, <3>2, AreaTaken
    <3>4. QED
      BY <3>2, <3>3, <2>1 DEF IInv, InCall
  <2>4. CASE Releasing
    <3>1. PICK a \in Area : /\ map.status[a] = "closed" /\ map.type[a] = "data"
                            /\ prog = Cons(Log(ReleaseEntries(map, a)), Noting)
      BY <2>4 DEF Releasing
    <3>2. Sound' /\ Types' /\ Settled' /\ prog' = Noting /\ overflowing' = overflowing
      BY <1>1, <2>1, <3>1, AreaReleased
    <3>3. QED
      BY <3>2, <2>1 DEF IInv, InCall
  <2>5. CASE Beginning
    BY <2>5, <1>1, Stages
  <2>6. Registering => Head(prog) = Log(<<PageStatus>>)
    BY <1>1, Stages
  <2>7. QED
    BY <1>1, <1>2, <2>2, <2>3, <2>4, <2>5, <2>6, Stages DEF InCall
<1>3. CASE InCommit
  <2>1. PICK i \in Elem, s \in [Elem -> Spots], u \in 0 .. AreasNo, next \in Pos :
            \/ Stays(i, s, u, next)
            \/ \E m \in Maps, a \in Area : Moves(i, s, m, u, next, a)
    BY <1>3 DEF InCommit
  <2>2. ~ Stays(i, s, u, next)
    BY <1>1, Stages
  <2>3. PICK m \in Maps, a \in Area : Moves(i, s, m, u, next, a)
    BY <2>1, <2>2
  <2>4. Moves(i, s, m, u, next, a)' /\ Types' /\ Settled' /\ overflowing' = overflowing
    BY <1>1, <2>3, MoveLogged
  <2>5. InCommit'
    BY <1>3, <2>4 DEF InCommit
  <2>6. QED
    BY <2>4, <2>5 DEF IInv
<1>4. CASE Committed
  <2>1. prog = Retiring /\ Head(prog) = Log(<<SumCheckpoint>>)
    BY <1>1, <1>4, Stages DEF Committed
  <2>2. PICK s \in [Elem -> Spot] : Done(s)
    BY <1>4 DEF Committed
  <2>3. /\ Types' /\ Settled' /\ map' = map /\ prog' = Tail(prog) /\ ~ ReplayedSumDirty(log')
        /\ UNCHANGED <<flash, root, overflowing>>
    BY <1>1, <2>1, RetiredLogged
  <2>4. prog' = Rereading
    BY <2>1, <2>3, Heads
  <2>5. Done(s)'
    BY <2>2, <2>3, DoneSame
  <2>6. (ReplayedSumDirty(log))' = ReplayedSumDirty(log')
    OBVIOUS
  <2>7. Committed'
    BY <2>3, <2>4, <2>5, <2>6 DEF Committed
  <2>8. QED
    BY <2>3, <2>7 DEF IInv
<1>5. CASE Reread
  BY <1>1, <1>5, Stages DEF Reread
<1>6. QED
  BY <1>2, <1>3, <1>4, <1>5 DEF IInv

(* Where a root node is registered, that is all there is left to do. *)
LEMMA RootStage ==
    ASSUME IInv, prog # <<>>, Head(prog).do = "rootnode"
    PROVE  /\ InCall /\ Registering
           /\ \E r \in 0 .. Roots - 1 : Head(prog) = [do |-> "rootnode", root |-> r] /\ Tail(prog) = <<>>
<1>1. Types /\ prog # <<>> /\ Head(prog).do = "rootnode"
  BY DEF IInv
<1>2. InCall /\ Registering
  <2>1. Log(<<PageStatus>>).do = "log" /\ Log(<<SumCheckpoint>>).do = "log"
    BY HeadKinds
  <2>2. ~ Taking /\ ~ Releasing /\ prog # Noting /\ ~ Beginning /\ ~ Committed /\ ~ Reread
    BY <1>1, <2>1, Stages DEF Committed, Reread
  <2>3. ~ InCommit
    <3>1. \A i, s, u, next : ~ Stays(i, s, u, next)
      BY <1>1, Stages
    <3>2. \A i, s, m, u, next, a : ~ Moves(i, s, m, u, next, a)
      BY <1>1, Stages
    <3>3. QED
      BY <3>1, <3>2 DEF InCommit
  <2>4. QED
    BY <1>1, <2>2, <2>3 DEF IInv, InCall
<1>3. PICK r \in 0 .. Roots - 1 : prog = <<[do |-> "rootnode", root |-> r]>>
  <2>1. PICK r \in 0 .. Roots - 1 :
            \/ prog = Cons(Log(<<PageStatus>>), <<[do |-> "rootnode", root |-> r]>>)
            \/ prog = <<[do |-> "rootnode", root |-> r]>>
    BY <1>2 DEF Registering
  <2> DEFINE e == [do |-> "rootnode", root |-> r]
  <2>2. Head(Cons(Log(<<PageStatus>>), <<e>>)) = Log(<<PageStatus>>)
    BY NamedPrograms, Programs
  <2>3. prog # Cons(Log(<<PageStatus>>), <<e>>)
    BY <2>2, <1>1, HeadKinds
  <2>4. QED
    BY <2>1, <2>3
<1>4. Head(prog) = [do |-> "rootnode", root |-> r] /\ Tail(prog) = <<>>
  BY <1>3, Heads
<1>5. QED
  BY <1>2, <1>4

(* A root node is registered. *)
LEMMA RootStepKept ==
    ASSUME IInv, StepRoot
    PROVE  IInv'
<1>1. Types /\ Settled /\ prog # <<>> /\ Head(prog).do = "rootnode"
  BY DEF IInv, StepRoot, Running
<1>2. InCall /\ Registering
  BY <1>1, RootStage
<1>3. PICK r \in 0 .. Roots - 1 : Head(prog) = [do |-> "rootnode", root |-> r] /\ Tail(prog) = <<>>
  BY <1>1, RootStage
<1>4. Head(prog).root = r /\ Tail(prog) = <<>>
  BY <1>3
<1>5. /\ root' = r /\ rootDirty' = TRUE /\ log' = Append(log, Rootnode(r)) /\ prog' = <<>>
      /\ UNCHANGED <<flash, map, sumDirty, path, serial, phase, overflowing>>
  BY <1>4 DEF StepRoot
<1> DEFINE n == <<Rootnode(r)>>
           x == MapOf(flash, path)
<1>6. /\ map \in Maps /\ log \in Seq(LogEntry) /\ x \in Maps /\ Sound /\ overflowing = FALSE
      /\ Rootnode(r) \in LogEntry
  <2>1. Sound /\ overflowing = FALSE
    BY <1>2 DEF InCall
  <2>2. x \in Maps
    BY <2>1, MapOfType DEF Sound
  <2>3. QED
    BY <1>1, <2>1, <2>2 DEF Types, Rootnode, LogEntry
<1>7. /\ log' = log \o n /\ log' \in Seq(LogEntry)
      /\ \A y : ReplayedRoot(y, log') = r
  BY <1>5, <1>6, RootAppended
<1>8. n \in Seq(LogEntry) /\ Len(n) = 1 /\ n[1] # PageStatus /\ n[1] # SumCheckpoint
  <2>1. n[1].op = "rootnode"
    BY DEF Rootnode
  <2>2. QED
    BY <2>1, <1>6 DEF PageStatus, SumCheckpoint
<1>9. Replayed(map, n) = map
  <2>1. Replayed(map, n) = Applied(map, Rootnode(r))
    BY <1>6, ReplayShort
  <2>2. QED
    BY <2>1 DEF Applied, Rootnode
<1> HIDE DEF n, x
<1>10. Replayed(map, log') = map /\ Replayed(x, log') = map
  <2>1. Replayed(map, log) = map /\ Replayed(x, log) = map
    BY <1>1, <1>6 DEF Settled, Sound, x
  <2>2. Replayed(map, log \o n) = Replayed(Replayed(map, log), n)
    BY <1>6, <1>8, ReplayParts
  <2>3. Replayed(x, log \o n) = Replayed(Replayed(x, log), n)
    BY <1>6, <1>8, ReplayParts
  <2>4. QED
    BY <2>1, <2>2, <2>3, <1>7, <1>9
<1>11. ~ ReplayedSumDirty(log) => ~ ReplayedSumDirty(log')
  BY <1>6, <1>7, <1>8, DirtyKept
<1>12. ~ ReplayedSumDirty(log') => ~ ReplayedSumDirty(log)
  BY <1>6, <1>7, <1>8, DirtyStays
<1>13. Types'
  BY <1>1, <1>5, <1>7 DEF Types
<1>14. Settled'
  BY <1>1, <1>5, <1>7, <1>10, <1>11 DEF Settled
<1>15. ~ ReplayedSumDirty(log') => x = map
  <2>1. prog # Noting
    <3>1. Log(<<PageStatus>>).do = "log"
      BY HeadKinds
    <3>2. QED
      BY <1>1, <3>1, Stages
  <2>2. QED
    BY <2>1, <1>6, <1>12 DEF Sound, x
<1>16. Sound'
  <2>1. /\ Chained(flash, path, map)' /\ Serials' /\ isPlausible(map)'
    BY <1>5, <1>6 DEF Sound, Serials, isPlausible, InUse
  <2>2. (/\ Replayed(MapOf(flash, path), log) = map
         /\ ReplayedRoot(Index(flash, path).root, log) = root
         /\ ~ ReplayedSumDirty(log) => MapOf(flash, path) = map)'
    BY <1>5, <1>7, <1>10, <1>15 DEF x
  <2>3. QED
    BY <2>1, <2>2, <1>5 DEF Sound
<1>17. InCall'
  BY <1>5, <1>6, <1>16 DEF InCall
<1>18. QED
  BY <1>13, <1>14, <1>17 DEF IInv

(* The commit is noted. *)
LEMMA CommittedStepKept ==
    ASSUME IInv, StepCommitted
    PROVE  IInv'
<1>1. Types /\ Settled /\ prog # <<>> /\ Head(prog).do = "committed"
  BY DEF IInv, StepCommitted, Running
<1>2. Log(<<PageStatus>>).do = "log" /\ Log(<<SumCheckpoint>>).do = "log"
  BY HeadKinds
<1>3. ~ InCall /\ ~ Reread
  BY <1>1, <1>2, Stages DEF InCall, Reread
<1>4. ~ InCommit
  <2>1. \A i, s, u, next : ~ Stays(i, s, u, next)
    BY <1>1, Stages
  <2>2. \A i, s, m, u, next, a : ~ Moves(i, s, m, u, next, a)
    BY <1>1, Stages
  <2>3. QED
    BY <2>1, <2>2 DEF InCommit
<1>5. Committed
  BY <1>3, <1>4 DEF IInv
<1>6. prog = Committing
  BY <1>1, <1>2, <1>5, Stages DEF Committed
<1>7. /\ rootDirty' = FALSE /\ prog' = Retiring
      /\ UNCHANGED <<flash, map, log, root, sumDirty, path, serial, phase, overflowing>>
  BY <1>6, Heads DEF StepCommitted
<1>8. Types'
  BY <1>1, <1>7 DEF Types
<1>9. Settled'
  BY <1>1, <1>7, SettledSame DEF Quiet
<1>10. PICK s \in [Elem -> Spot] : Done(s)
  BY <1>5 DEF Committed
<1>11. Done(s)'
  BY <1>7, <1>10, DoneSame
<1>12. Committed'
  BY <1>7, <1>11 DEF Committed
<1>13. QED
  BY <1>8, <1>9, <1>12 DEF IInv

(* An empty log says nothing. *)
LEMMA NothingLogged ==
    ASSUME NEW m \in Maps, NEW r
    PROVE  <<>> \in Seq(LogEntry) /\ Replayed(m, <<>>) = m /\ ReplayedRoot(r, <<>>) = r
           /\ ~ ReplayedSumDirty(<<>>)
BY ReplayShort DEF ReplayedRoot, RootEntries, ReplayedSumDirty

(* A log that is cleared says nothing new. *)
LEMMA ClearStage ==
    ASSUME IInv, prog # <<>>, Head(prog).do = "clear"
    PROVE  Reread
<1>1. Types
  BY DEF IInv
<1>2. Log(<<PageStatus>>).do = "log" /\ Log(<<SumCheckpoint>>).do = "log"
  BY HeadKinds
<1>3. ~ InCall /\ ~ Committed
  BY <1>1, <1>2, Stages DEF InCall, Committed
<1>4. ~ InCommit
  <2>1. \A i, s, u, next : ~ Stays(i, s, u, next)
    BY <1>1, Stages
  <2>2. \A i, s, m, u, next, a : ~ Moves(i, s, m, u, next, a)
    BY <1>1, Stages
  <2>3. QED
    BY <2>1, <2>2 DEF InCommit
<1>5. QED
  BY <1>3, <1>4 DEF IInv

(* The journal is cleared. *)
LEMMA ClearKept ==
    ASSUME IInv, StepClear
    PROVE  IInv'
<1>1. Types /\ Settled /\ prog # <<>> /\ Head(prog).do = "clear"
  BY DEF IInv, StepClear, Running
<1>2. Reread
  BY <1>1, ClearStage
<1>5. /\ prog = Clearing /\ overflowing = FALSE
      /\ Sound /\ MapOf(flash, path) = map /\ Index(flash, path).root = root
  BY <1>2 DEF Reread
<1>6. /\ log' = <<>> /\ prog' = <<>>
      /\ UNCHANGED <<flash, map, root, rootDirty, sumDirty, path, serial, phase, overflowing>>
  BY <1>5, Heads DEF StepClear
<1>7. map \in Maps
  BY <1>1 DEF Types
<1>8. /\ log' \in Seq(LogEntry) /\ Replayed(map, log') = map /\ ReplayedRoot(root, log') = root
      /\ ~ ReplayedSumDirty(log')
  BY <1>6, <1>7, NothingLogged
<1>9. Types'
  BY <1>1, <1>6, <1>8 DEF Types
<1>10. Settled'
  BY <1>6, <1>8 DEF Settled
<1>11. Sound'
  <2>1. Chained(flash, path, map)' /\ Serials' /\ isPlausible(map)'
    BY <1>5, <1>6 DEF Sound, Serials, isPlausible, InUse
  <2>2. (/\ Replayed(MapOf(flash, path), log) = map
         /\ ReplayedRoot(Index(flash, path).root, log) = root
         /\ ~ ReplayedSumDirty(log) => MapOf(flash, path) = map
         /\ ~ rootDirty => Index(flash, path).root = root)'
    BY <1>5, <1>6, <1>8
  <2>3. QED
    BY <2>1, <2>2 DEF Sound
<1>12. InCall'
  BY <1>5, <1>6, <1>11 DEF InCall
<1>13. QED
  BY <1>9, <1>10, <1>12 DEF IInv

\* What is left of the program of an element that stays.
StaysAt(i, s, u, next, pr) ==
    \/ s[i] = path[i] /\ pr = Inserting(i, u, next)
    \/ /\ s[i] = path[i] /\ pr = Appending(i, u, next)
       /\ path[i].page + 1 \in Page /\ BlockOf(path[i].page + 1) = BlockOf(path[i].page)
    \/ \E p \in Page :
          /\ First(p)
          /\ \/ /\ s[i] = path[i] /\ BlockOf(p) # BlockOf(path[i].page)
                /\ pr = Erasing(i, Restarting(i, p, u, next))
             \/ s[i] = NotFound /\ pr = Restarting(i, p, u, next)

(* That is all a stay is. *)
LEMMA StaysIs ==
    ASSUME NEW i, NEW s, NEW u, NEW next
    PROVE  Stays(i, s, u, next) <=> Pending(i, s, map, u, next) /\ StaysAt(i, s, u, next, prog)
BY DEF Stays, StaysAt

(* A stay goes on. *)
LEMMA StaysOn ==
    ASSUME NEW i, NEW s, NEW u, NEW next, UNCHANGED <<path, serial>>,
           Pending(i, s, map, u, next)', StaysAt(i, s, u, next, prog')
    PROVE  Stays(i, s, u, next)'
<1>1. /\ Inserting(i, u, next)' = Inserting(i, u, next)
      /\ Appending(i, u, next)' = Appending(i, u, next)
      /\ \A p : Restarting(i, p, u, next)' = Restarting(i, p, u, next)
      /\ \A p : Erasing(i, Restarting(i, p, u, next))' = Erasing(i, Restarting(i, p, u, next))
  BY ProgramsSame
<1>2. (StaysAt(i, s, u, next, prog))'
  BY <1>1 DEF StaysAt
<1>3. (Pending(i, s, map, u, next) /\ StaysAt(i, s, u, next, prog))'
  BY <1>2
<1>4. QED
  BY <1>3, StaysIs, PTL

(* What is pending for a map is pending for the map that is the same afterwards. *)
LEMMA PendingMap ==
    ASSUME NEW i, NEW s, NEW m, NEW u, NEW next, Pending(i, s, m, u, next)', m = map'
    PROVE  Pending(i, s, map, u, next)'
BY DEF Pending

(* An entry is expanded into its instructions: it fits, it starts a new block, or
   it starts a new area. *)
LEMMA Inserted ==
    ASSUME Careful, Types, Settled, StepInsert, NEW i \in Elem, NEW s \in [Elem -> Spots], NEW u, NEW next,
           Pending(i, s, map, u, next), s[i] = path[i], prog = Inserting(i, u, next)
    PROVE  /\ Types' /\ Settled'
           /\ UNCHANGED <<flash, map, log, root, rootDirty, sumDirty, path, serial>>
           /\ \/ /\ overflowing' = overflowing
                 /\ StaysAt(i, s, u, next, prog') /\ prog' = Appending(i, u, next)
              \/ /\ overflowing' = TRUE
                 /\ StaysAt(i, s, u, next, prog')
              \/ /\ overflowing' = TRUE /\ i > 0
                 /\ \E a \in Area : /\ a # 0 /\ map.status[a] = "empty"
                                    /\ MovesAt(i, s, map, u, next, a, map, prog')
<1> DEFINE old == AreaOn(path[i].pos)
           entry == InsertEntry(i, serial[i] + 1, next, Used(i, u))
           program == entry \o Committing
           erases == \E e \in Range(entry) : e.do = "erase"
           w == Head(prog)
<1>1. map \in Maps /\ path \in [Elem -> Spot] /\ overflowing \in BOOLEAN
  BY DEF Types
<1>2. s[i] # NotFound
  BY <1>1, SpotIs DEF Spots
<1>3. Filled(flash, path[i].pos, path[i].page)
  BY <1>2 DEF Pending, Lies
<1>4. /\ map.type[old] = "superblock" /\ map.status[old] = "active" /\ map.status[0] = "active"
  <2>1. [s EXCEPT ![i] = path[i]][i] = path[i]
    OBVIOUS
  <2>2. QED
    BY <2>1 DEF Pending, Homes
<1>5. w = Insert(i, serial[i] + 1, next, Used(i, u)) /\ Tail(prog) = Committing
  BY Heads
<1>6. w.elem = i /\ w.no = serial[i] + 1 /\ w.next = next /\ w.used = Used(i, u)
  BY <1>5 DEF Insert
<1>7. Logical(path[i].pos) = old
  BY <1>1 DEF Logical, AreaOn, Maps
<1>8. /\ prog' = program /\ overflowing' = (overflowing \/ erases) /\ phase' = phase
      /\ UNCHANGED <<flash, map, log, root, rootDirty, sumDirty, path, serial>>
  <2> HIDE DEF w
  <2> DEFINE x == InsertEntry(w.elem, w.no, w.next, w.used)
  <2>1. x = entry
    BY <1>6
  <2>2. map.type[Logical(path[w.elem].pos)] = "superblock"
    BY <1>4, <1>6, <1>7
  <2>3. /\ prog' = x \o Tail(prog)
        /\ overflowing' = (overflowing \/ \E e \in Range(x) : e.do = "erase")
        /\ UNCHANGED <<phase, flash, map, log, root, rootDirty, sumDirty, path, serial>>
    BY <2>2 DEF StepInsert, w
  <2> HIDE DEF x
  <2>4. QED
    BY <2>1, <2>3, <1>5
<1>9. \/ /\ program = Appending(i, u, next) /\ ~ erases
         /\ path[i].page + 1 \in Page /\ BlockOf(path[i].page + 1) = BlockOf(path[i].page)
      \/ /\ erases
         /\ \E p \in Page : /\ First(p) /\ BlockOf(p) # BlockOf(path[i].page)
                            /\ program = Erasing(i, Restarting(i, p, u, next))
      \/ /\ erases /\ i > 0
         /\ \E a \in Area :
               /\ a # 0 /\ map.status[a] = "empty"
               /\ program = Cons(Leaving(old), Cons(Entering(map, a),
                              Cons(Ignoring, Erasing(i, Settling(i, a, u, next)))))
  BY <1>1, <1>3, <1>4, InsertProgram
<1> HIDE DEF program, erases, entry, old
<1>10. Types' /\ Settled'
  <2>1. overflowing' \in BOOLEAN
    BY <1>1, <1>8 DEF erases
  <2>2. Types'
    BY <1>8, <2>1 DEF Types
  <2>3. QED
    BY <2>2, <1>8, SettledSame DEF Quiet
<1>11. CASE program = Appending(i, u, next) /\ ~ erases
            /\ path[i].page + 1 \in Page /\ BlockOf(path[i].page + 1) = BlockOf(path[i].page)
  <2>1. overflowing' = overflowing /\ prog' = Appending(i, u, next)
    BY <1>1, <1>8, <1>11
  <2>2. StaysAt(i, s, u, next, prog')
    BY <2>1, <1>11 DEF StaysAt
  <2>3. QED
    BY <2>1, <2>2, <1>8, <1>10
<1>12. ASSUME erases, NEW p \in Page, First(p), BlockOf(p) # BlockOf(path[i].page),
              program = Erasing(i, Restarting(i, p, u, next))
       PROVE  overflowing' = TRUE /\ StaysAt(i, s, u, next, prog')
  BY <1>8, <1>12 DEF StaysAt
<1>13. ASSUME erases, NEW a \in Area, a # 0, map.status[a] = "empty",
              program = Cons(Leaving(old), Cons(Entering(map, a),
                             Cons(Ignoring, Erasing(i, Settling(i, a, u, next)))))
       PROVE  overflowing' = TRUE /\ MovesAt(i, s, map, u, next, a, map, prog')
  <2>1. prog' = MoveStages(map, i, u, next, a).leaving
    BY <1>8, <1>13 DEF MoveStages, old
  <2>2. QED
    BY <2>1, <1>8, <1>13 DEF MovesAt
<1>14. QED
  BY <1>8, <1>9, <1>10, <1>11, <1>12, <1>13

(* Expanding an entry keeps the invariant. *)
LEMMA InsertKept ==
    ASSUME Careful, IInv, StepInsert
    PROVE  IInv'
<1>1. Types /\ Settled /\ prog # <<>> /\ Head(prog).do = "insert"
  BY DEF IInv, StepInsert, Running
<1>2. Log(<<PageStatus>>).do = "log" /\ Log(<<SumCheckpoint>>).do = "log"
  BY HeadKinds
<1>3. ~ Committed /\ ~ Reread
  BY <1>1, <1>2, Stages DEF Committed, Reread
<1>4. PICK m \in Maps : m = map
  BY <1>1 DEF Types
<1>5. ASSUME NEW i \in Elem, NEW s \in [Elem -> Spots], NEW u \in 0 .. AreasNo, NEW next \in Pos,
             Pending(i, s, map, u, next), s[i] = path[i], prog = Inserting(i, u, next),
             overflowing' = TRUE
      PROVE  IInv'
  <2>1. /\ Types' /\ Settled'
        /\ UNCHANGED <<flash, map, log, root, rootDirty, sumDirty, path, serial>>
        /\ \/ StaysAt(i, s, u, next, prog')
           \/ /\ i > 0
              /\ \E a \in Area : /\ a # 0 /\ map.status[a] = "empty"
                                 /\ MovesAt(i, s, map, u, next, a, map, prog')
    BY <1>1, <1>5, Inserted
  <2>2. Pending(i, s, m, u, next)'
    BY <1>4, <1>5, <2>1, PendingSame
  <2>3. CASE StaysAt(i, s, u, next, prog')
    <3>1. Pending(i, s, map, u, next)'
      BY <1>4, <2>1, <2>2, PendingMap
    <3>2. Stays(i, s, u, next)'
      BY <2>1, <2>3, <3>1, StaysOn
    <3>3. InCommit'
      BY <1>5, <3>2 DEF InCommit
    <3>4. QED
      BY <2>1, <3>3 DEF IInv
  <2>4. ASSUME i > 0, NEW a \in Area, a # 0, map.status[a] = "empty",
               MovesAt(i, s, map, u, next, a, map, prog')
        PROVE  IInv'
    <3>1. MovesAt(i, s, m, u, next, a, map', prog') /\ m.status[a] = "empty"
      BY <1>4, <2>1, <2>4
    <3>2. Moves(i, s, m, u, next, a)'
      BY <2>1, <2>2, <2>4, <3>1, MovesOn
    <3>3. InCommit'
      BY <1>5, <3>2 DEF InCommit
    <3>4. QED
      BY <2>1, <3>3 DEF IInv
  <2>5. QED
    BY <2>1, <2>3, <2>4
<1>6. CASE InCall
  <2>1. ~ Registering /\ ~ Taking /\ ~ Releasing /\ prog # Noting
    BY <1>1, <1>2, Stages
  <2>2. Beginning /\ Sound /\ overflowing = FALSE
    BY <1>1, <1>6, <2>1 DEF InCall
  <2>3. prog = Inserting(2, map.used, 0)
    <3>1. Head(Appending(2, map.used, 0)).do \in {"write", "writeIndex"}
      BY Heads, HeadKinds
    <3>2. QED
      BY <2>2, <3>1, <1>1 DEF Beginning
  <2>4. Pending(2, path, map, map.used, 0) /\ map.used \in 0 .. AreasNo
    BY <1>1, <2>2, CommitBegins
  <2>5. 2 \in Elem /\ path \in [Elem -> Spots] /\ 0 \in Pos
    BY <1>1, Positions DEF Types, Elem, Spots
  <2>6. PICK u \in 0 .. AreasNo : u = map.used
    BY <2>4
  <2>7. PICK s \in [Elem -> Spots] : s = path
    BY <2>5
  <2>8. /\ Types' /\ Settled'
        /\ UNCHANGED <<flash, map, log, root, rootDirty, sumDirty, path, serial>>
        /\ \/ /\ overflowing' = overflowing
              /\ StaysAt(2, s, u, 0, prog') /\ prog' = Appending(2, u, 0)
           \/ overflowing' = TRUE
    BY <1>1, <2>3, <2>4, <2>5, <2>6, <2>7, Inserted
  <2>9. CASE overflowing' = TRUE
    BY <1>5, <2>3, <2>4, <2>5, <2>6, <2>7, <2>9
  <2>10. CASE overflowing' = overflowing /\ StaysAt(2, s, u, 0, prog') /\ prog' = Appending(2, u, 0)
    <3>1. Head(prog').do \in {"write", "writeIndex"}
      BY <2>10, Heads, HeadKinds
    <3>2. path[2].page + 1 \in Page /\ BlockOf(path[2].page + 1) = BlockOf(path[2].page)
      <4>1. prog' # Inserting(2, u, 0)
        <5>1. Head(Inserting(2, u, 0)).do = "insert"
          BY Heads, HeadKinds
        <5>2. QED
          BY <3>1, <5>1
      <4>2. \A p : prog' # Erasing(2, Restarting(2, p, u, 0))
        <5>1. \A p : Head(Erasing(2, Restarting(2, p, u, 0))).do = "erase"
          BY NamedPrograms, Heads, HeadKinds
        <5>2. QED
          BY <3>1, <5>1
      <4>3. s[2] # NotFound
        BY <1>1, <2>5, <2>7, SpotIs DEF Types
      <4>4. QED
        BY <2>10, <4>1, <4>2, <4>3 DEF StaysAt
    <3>3. Appending(2, u, 0)' = Appending(2, u, 0)
      BY <2>8, ProgramsSame
    <3>4. Beginning'
      <4>1. prog' = Appending(2, u, 0)' /\ u = map'.used
        BY <2>6, <2>8, <2>10, <3>3
      <4>2. (prog = Appending(2, map.used, 0))'
        BY <4>1 DEF Appending, Used, Entry
      <4>3. QED
        BY <2>8, <3>2, <4>2 DEF Beginning
    <3>5. Sound'
      BY <2>1, <2>2, <2>8, SoundSame
    <3>6. InCall'
      BY <2>2, <2>10, <3>4, <3>5 DEF InCall
    <3>7. QED
      BY <2>8, <3>6 DEF IInv
  <2>11. QED
    BY <2>8, <2>9, <2>10
<1>7. CASE InCommit
  <2>1. PICK i \in Elem, s \in [Elem -> Spots], u \in 0 .. AreasNo, next \in Pos :
            \/ Stays(i, s, u, next)
            \/ \E x \in Maps, a \in Area : Moves(i, s, x, u, next, a)
    BY <1>7 DEF InCommit
  <2>2. Stays(i, s, u, next)
    BY <2>1, <1>1, Stages
  <2>3. Pending(i, s, map, u, next) /\ StaysAt(i, s, u, next, prog)
    BY <2>2, StaysIs
  <2>4. s[i] = path[i] /\ prog = Inserting(i, u, next)
    <3>1. Head(Appending(i, u, next)).do \in {"write", "writeIndex"}
      BY Heads, HeadKinds
    <3>2. \A p : Head(Restarting(i, p, u, next)).do \in {"write", "writeIndex"}
      BY Heads, HeadKinds
    <3>3. \A p : Head(Erasing(i, Restarting(i, p, u, next))).do = "erase"
      BY NamedPrograms, Heads, HeadKinds
    <3>4. QED
      BY <1>1, <2>3, <3>1, <3>2, <3>3 DEF StaysAt
  <2>5. overflowing' = TRUE
    <3>1. overflowing = TRUE
      BY <1>7 DEF InCommit
    <3>2. \/ overflowing' = overflowing
          \/ overflowing' = TRUE
      BY <1>1, <2>3, <2>4, Inserted
    <3>3. QED
      BY <3>1, <3>2
  <2>6. QED
    BY <1>5, <2>3, <2>4, <2>5
<1>8. QED
  BY <1>3, <1>6, <1>7 DEF IInv

(* A block is erased in a commit that starts new ones. *)
LEMMA EraseKept ==
    ASSUME IInv, StepErase
    PROVE  IInv'
<1>1. Types /\ Settled /\ prog # <<>> /\ Head(prog).do = "erase"
  BY DEF IInv, StepErase, Running
<1>2. Log(<<PageStatus>>).do = "log" /\ Log(<<SumCheckpoint>>).do = "log"
  BY HeadKinds
<1>3. ~ Committed /\ ~ Reread /\ ~ InCall
  BY <1>1, <1>2, Stages DEF Committed, Reread, InCall
<1>4. InCommit
  BY <1>3 DEF IInv
<1>5. PICK i \in Elem, s \in [Elem -> Spots], u \in 0 .. AreasNo, next \in Pos :
          \/ Stays(i, s, u, next)
          \/ \E x \in Maps, a \in Area : Moves(i, s, x, u, next, a)
  BY <1>4 DEF InCommit
<1> DEFINE r == [s EXCEPT ![i] = NotFound]
<1>6. r \in [Elem -> Spots] /\ r[i] = NotFound
  BY DEF Spots
<1>7. PICK k \in Maps : k = map
  BY <1>1 DEF Types
<1>8. UNCHANGED <<map, log, root, rootDirty, sumDirty, path, serial, overflowing>> /\ prog' = Tail(prog)
  BY DEF StepErase
<1>9. Settled'
  BY <1>1, <1>8, SettledSame DEF Quiet
<1>10. CASE Stays(i, s, u, next)
  <2>1. Pending(i, s, map, u, next) /\ StaysAt(i, s, u, next, prog)
    BY <1>10, StaysIs
  <2>2. PICK p \in Page : First(p) /\ s[i] = path[i] /\ prog = Erasing(i, Restarting(i, p, u, next))
    <3>1. Head(Appending(i, u, next)).do \in {"write", "writeIndex"}
      BY Heads, HeadKinds
    <3>2. \A p : Head(Restarting(i, p, u, next)).do \in {"write", "writeIndex"}
      BY Heads, HeadKinds
    <3>3. Head(Inserting(i, u, next)).do = "insert"
      BY Heads, HeadKinds
    <3>4. QED
      BY <1>1, <2>1, <3>1, <3>2, <3>3 DEF StaysAt
  <2>3. Head(prog) = Erase(path[i].pos, BlockOf(path[i].page)) /\ Tail(prog) = Restarting(i, p, u, next)
    BY <2>2, NamedPrograms, Heads
  <2>4. Pending(i, s, k, u, next)
    BY <1>7, <2>1
  <2>5. Pending(i, r, k, u, next)' /\ Types'
    BY <1>1, <2>2, <2>3, <2>4, Erased
  <2> HIDE DEF r
  <2>6. Pending(i, r, map, u, next)'
    BY <1>7, <1>8, <2>5, PendingMap
  <2>7. StaysAt(i, r, u, next, prog')
    BY <1>6, <1>8, <2>2, <2>3 DEF StaysAt
  <2>8. Stays(i, r, u, next)'
    BY <1>8, <2>6, <2>7, StaysOn
  <2>9. InCommit'
    BY <1>4, <1>6, <1>8, <2>8 DEF InCommit
  <2>10. QED
    BY <1>9, <2>5, <2>9 DEF IInv
<1>11. ASSUME NEW m \in Maps, NEW a \in Area, Moves(i, s, m, u, next, a)
       PROVE  IInv'
  <2> DEFINE g == MoveStages(m, i, u, next, a)
             old == AreaOn(path[i].pos)
  <2>1. /\ Pending(i, s, m, u, next) /\ i > 0 /\ a # 0 /\ m.status[a] = "empty"
        /\ MovesAt(i, s, m, u, next, a, map, prog)
    BY <1>11, MovesIs
  <2>2. /\ Head(g.leaving) = Leaving(old) /\ Head(g.entering) = Entering(m, a)
        /\ Head(g.ignoring) = Ignoring
        /\ Head(g.erasing) = Erase(path[i].pos, BlockOf(path[i].page))
        /\ Tail(g.erasing) = g.settling /\ g.settling = Settling(i, a, u, next)
    BY StageTails
  <2>3. s[i] = path[i] /\ map = Moved(m, old, a) /\ prog = g.erasing
    <3>1. Head(g.settling).do \in {"write", "writeIndex"}
      <4>1. Head(g.settling) = Entry(i, Position[a], 0, 0, old, next, Used(i, u))
        BY <2>2, Heads
      <4>2. QED
        BY <4>1, HeadKinds
    <3>2. /\ Head(g.leaving).do = "log" /\ Head(g.entering).do = "log" /\ Head(g.ignoring).do = "log"
      BY <2>2, HeadKinds DEF Leaving, Entering, Ignoring
    <3> HIDE DEF g, old
    <3>3. QED
      BY <1>1, <2>1, <3>1, <3>2 DEF MovesAt, g, old
  <2>4. Pending(i, r, m, u, next)' /\ Types'
    BY <1>1, <2>1, <2>2, <2>3, Erased
  <2>5. MovesAt(i, r, m, u, next, a, map', prog')
    BY <1>6, <1>8, <2>2, <2>3 DEF MovesAt
  <2> HIDE DEF r
  <2>6. Moves(i, r, m, u, next, a)'
    BY <1>8, <2>1, <2>4, <2>5, MovesOn
  <2>7. InCommit'
    BY <1>4, <1>6, <1>8, <2>6 DEF InCommit
  <2>8. QED
    BY <1>9, <2>4, <2>7 DEF IInv
<1>12. QED
  BY <1>5, <1>10, <1>11

\* The entry that is written next has an erased page to go to.
PageErased == ~ Programmed(flash, Head(prog).pos, Head(prog).page)

\* An entry of element i is to be written next, behind the newest one of its
\* block or as the first of an empty area.
ToWrite(i, s, pos, p, no, prev, next, u) ==
    /\ pos \in Pos /\ p \in Page /\ prev \in Area /\ next \in Pos /\ u \in Nat
    /\ i = 2 => Count(map) = u
    /\ Head(prog) = Entry(i, pos, p, no, prev, next, Used(i, u))
    /\ \/ /\ s[i] # NotFound /\ pos = s[i].pos /\ p = s[i].page + 1
          /\ BlockOf(p) = BlockOf(s[i].page) /\ no = At(flash, s[i]).no + 1
       \/ /\ s[i] = NotFound /\ \A j \in Elem : j # i /\ s[j] # NotFound => s[j].pos # pos
          /\ First(p) /\ no = 0

(* Both places are erased. *)
LEMMA ToErased ==
    ASSUME Types, NEW i \in Elem, NEW s \in [Elem -> Spots], Lies(flash, s),
           NEW pos, NEW p, NEW no, NEW prev, NEW next, NEW u,
           ToWrite(i, s, pos, p, no, prev, next, u)
    PROVE  PageErased
<1>1. Head(prog).pos = pos /\ Head(prog).page = p
  BY DEF ToWrite, Entry, WriteIndex, Write
<1>2. pos \in Pos /\ p \in Page
  BY DEF ToWrite
<1>3. CASE /\ s[i] # NotFound /\ pos = s[i].pos /\ p = s[i].page + 1
  <2>1. s[i] \in Spot /\ s[i].page \in Page /\ s[i].page \in Nat /\ Filled(flash, s[i].pos, s[i].page)
    BY <1>3, SpotIs, BlocksInOrder DEF Lies, Spot
  <2>2. p \notin Written(s[i].page)
    BY <1>3, <2>1 DEF Written
  <2>3. flash[pos][p] = Empty
    BY <1>2, <1>3, <2>1, <2>2 DEF Filled
  <2>4. QED
    BY <1>1, <2>3 DEF PageErased, Programmed
<1>4. CASE /\ s[i] = NotFound /\ \A j \in Elem : j # i /\ s[j] # NotFound => s[j].pos # pos
  <2>1. \A j \in Elem : s[j] = NotFound \/ s[j].pos # pos
    BY <1>4
  <2>2. Blank(flash, pos)
    BY <1>2, <2>1 DEF Lies
  <2>3. QED
    BY <1>1, <1>2, <2>2 DEF PageErased, Programmed, Blank
<1>5. QED
  BY <1>3, <1>4 DEF ToWrite

(* The entry of an element that stays. *)
LEMMA StayWrites ==
    ASSUME Types, NEW i \in Elem, NEW s \in [Elem -> Spots], NEW u \in Nat, NEW next \in Pos,
           Pending(i, s, map, u, next), StaysAt(i, s, u, next, prog),
           Head(prog).do \in {"write", "writeIndex"}
    PROVE  /\ \E p, no : ToWrite(i, s, path[i].pos, p, no, 0, next, u)
           /\ Tail(prog) = Committing
<1>1. path \in [Elem -> Spot] /\ map \in Maps
  BY DEF Types
<1>2. path[i] \in Spot /\ path[i] # NotFound /\ path[i].pos \in Pos
  BY <1>1, SpotIs DEF Spots, Spot
<1>3. Lies(flash, s) /\ \A j \in Elem : j # i => s[j].pos # path[i].pos
  BY DEF Pending
<1>4. i = 2 => Count(map) = u
  BY DEF Pending
<1>5. \E p, no :
          /\ p \in Page
          /\ prog = Cons(Entry(i, path[i].pos, p, no, 0, next, Used(i, u)), Committing)
          /\ \/ /\ s[i] # NotFound /\ path[i].pos = s[i].pos /\ p = s[i].page + 1
                /\ BlockOf(p) = BlockOf(s[i].page) /\ no = At(flash, s[i]).no + 1
             \/ /\ s[i] = NotFound
                /\ \A j \in Elem : j # i /\ s[j] # NotFound => s[j].pos # path[i].pos
                /\ First(p) /\ no = 0
  <2>1. CASE prog = Inserting(i, u, next)
    <3>1. Head(prog).do = "insert"
      BY <2>1, Heads, HeadKinds
    <3>2. QED
      BY <3>1
  <2>2. CASE /\ s[i] = path[i] /\ prog = Appending(i, u, next)
             /\ path[i].page + 1 \in Page /\ BlockOf(path[i].page + 1) = BlockOf(path[i].page)
    <3>1. serial[i] = At(flash, path[i]).no
      BY <2>2, <1>2 DEF Pending, Elem
    <3>2. prog = Cons(Entry(i, path[i].pos, path[i].page + 1, serial[i] + 1, 0, next, Used(i, u)), Committing)
      BY <2>2 DEF Appending
    <3>3. QED
      BY <2>2, <3>1, <3>2, <1>2
  <2>3. ASSUME NEW p \in Page, prog = Erasing(i, Restarting(i, p, u, next))
        PROVE  FALSE
    <3>1. Head(prog).do = "erase"
      BY <2>3, NamedPrograms, Heads, HeadKinds
    <3>2. QED
      BY <3>1
  <2>4. ASSUME NEW p \in Page, First(p), s[i] = NotFound, prog = Restarting(i, p, u, next)
        PROVE  prog = Cons(Entry(i, path[i].pos, p, 0, 0, next, Used(i, u)), Committing)
    BY <2>4 DEF Restarting
  <2>5. QED
    BY <2>1, <2>2, <2>3, <2>4, <1>3 DEF StaysAt
<1>6. PICK p, no :
          /\ p \in Page
          /\ prog = Cons(Entry(i, path[i].pos, p, no, 0, next, Used(i, u)), Committing)
          /\ \/ /\ s[i] # NotFound /\ path[i].pos = s[i].pos /\ p = s[i].page + 1
                /\ BlockOf(p) = BlockOf(s[i].page) /\ no = At(flash, s[i]).no + 1
             \/ /\ s[i] = NotFound
                /\ \A j \in Elem : j # i /\ s[j] # NotFound => s[j].pos # path[i].pos
                /\ First(p) /\ no = 0
  BY <1>5
<1> DEFINE pos == path[i].pos
<1>7. Head(prog) = Entry(i, pos, p, no, 0, next, Used(i, u)) /\ Tail(prog) = Committing
  BY <1>6, NamedPrograms, Programs
<1>8. ToWrite(i, s, pos, p, no, 0, next, u)
  BY <1>2, <1>4, <1>6, <1>7, Positions DEF ToWrite
<1>9. QED
  BY <1>7, <1>8

(* The entry of an element that moves. *)
LEMMA MoveWrites ==
    ASSUME Types, NEW i \in Elem, NEW s \in [Elem -> Spots], NEW u \in 0 .. AreasNo, NEW next \in Pos,
           NEW m \in Maps, NEW a \in Area, Moves(i, s, m, u, next, a),
           Head(prog).do \in {"write", "writeIndex"}
    PROVE  /\ ToWrite(i, s, Position[a], 0, 0, AreaOn(path[i].pos), next, u)
           /\ s[i] = NotFound /\ IsMoved(m, map, AreaOn(path[i].pos), a)
           /\ Tail(prog) = Cons(Insert(i - 1, serial[i - 1] + 1, Position[a], 0), Committing)
<1> DEFINE g == MoveStages(m, i, u, next, a)
           old == AreaOn(path[i].pos)
<1>1. /\ Pending(i, s, m, u, next) /\ i > 0 /\ a # 0 /\ m.status[a] = "empty"
      /\ MovesAt(i, s, m, u, next, a, map, prog)
  BY MovesIs
<1>2. s[i] = NotFound /\ map = Moved(m, old, a) /\ prog = Settling(i, a, u, next)
  <2>1. /\ Head(g.leaving) = Leaving(old) /\ Head(g.entering) = Entering(m, a)
        /\ Head(g.ignoring) = Ignoring
        /\ Head(g.erasing) = Erase(path[i].pos, BlockOf(path[i].page))
        /\ g.settling = Settling(i, a, u, next)
    BY StageTails
  <2>2. /\ Head(g.leaving).do = "log" /\ Head(g.entering).do = "log" /\ Head(g.ignoring).do = "log"
        /\ Head(g.erasing).do = "erase"
    BY <2>1, HeadKinds DEF Leaving, Entering, Ignoring
  <2> HIDE DEF g, old
  <2>3. QED
    BY <1>1, <2>1, <2>2 DEF MovesAt, g, old
<1>3. /\ Head(prog) = Entry(i, Position[a], 0, 0, old, next, Used(i, u))
      /\ Tail(prog) = Cons(Insert(i - 1, serial[i - 1] + 1, Position[a], 0), Committing)
  BY <1>2, Heads
<1>4. old \in Area /\ Position[a] \in Pos /\ AreaOn(Position[a]) = a /\ 0 \in Page
  BY Positions, BlocksInOrder DEF Types, Spot
<1>5. IsMoved(m, map, old, a)
  BY <1>2, <1>4, MoveMaps
<1>6. m.status[old] = "active" /\ old # 0 /\ a # old /\ m.status[0] = "active"
  <2>1. [s EXCEPT ![i] = path[i]][i] = path[i]
    OBVIOUS
  <2>2. m.status[old] = "active" /\ m.status[0] = "active"
    BY <1>1, <2>1 DEF Pending, Homes
  <2>3. 0 \in Elem /\ s[0] = path[0] /\ path[0].pos = 0 /\ i # 0 /\ s[0].pos # path[i].pos
    BY <1>1 DEF Pending, Elem
  <2>4. Position[old] = path[i].pos /\ Position[0] = 0
    BY Positions, ChainAssumption DEF Types, Spot
  <2>5. QED
    BY <1>1, <2>2, <2>3, <2>4
<1>7. Count(m) = u /\ Count(map) = u
  <2>1. Count(map) = Count(m)
    BY <1>1, <1>4, <1>5, <1>6, MoveCounts
  <2>2. QED
    BY <1>1, <2>1 DEF Pending
<1>8. \A j \in Elem : j # i /\ s[j] # NotFound => s[j].pos # Position[a]
  <2>1. SUFFICES ASSUME NEW j \in Elem, j # i PROVE s[j].pos # Position[a]
    OBVIOUS
  <2>2. [s EXCEPT ![i] = path[i]][j] = s[j]
    BY <2>1
  <2>3. m.status[AreaOn(s[j].pos)] = "active"
    BY <1>1, <2>2 DEF Pending, Homes
  <2>4. QED
    BY <2>3, <1>1, <1>4
<1>9. First(0)
  BY BlocksInOrder DEF First
<1>10. ToWrite(i, s, Position[a], 0, 0, old, next, u)
  BY <1>2, <1>3, <1>4, <1>7, <1>8, <1>9 DEF ToWrite
<1>11. QED
  BY <1>2, <1>3, <1>5, <1>10

(* The entry of an element that stays is written. *)
LEMMA StayWritten ==
    ASSUME Types, Settled, StepWrite \/ StepWriteIndex, NEW i \in Elem, NEW s \in [Elem -> Spots],
           NEW u \in Nat, NEW next \in Pos, Pending(i, s, map, u, next), StaysAt(i, s, u, next, prog),
           overflowing = FALSE => map.used = u
    PROVE  Types' /\ Settled' /\ Committed'
<1>1. Head(prog).do \in {"write", "writeIndex"}
  BY DEF StepWrite, StepWriteIndex, Running
<1>2. Lies(flash, s)
  BY DEF Pending
<1>3. Tail(prog) = Committing /\ \E p, no : ToWrite(i, s, path[i].pos, p, no, 0, next, u)
  BY <1>1, StayWrites
<1>4. PICK p, no : ToWrite(i, s, path[i].pos, p, no, 0, next, u)
  BY <1>3
<1>5. PICK pos \in Pos : pos = path[i].pos
  BY <1>4 DEF ToWrite
<1>6. ToWrite(i, s, pos, p, no, 0, next, u)
  BY <1>4, <1>5
<1>7. Writes(i, pos, p, no, 0, next, u)
  BY <1>6 DEF ToWrite, Writes
<1> DEFINE r == [s EXCEPT ![i] = SpotAt(pos, p)]
<1>8. Lands(s, r, i, 0, next, u) /\ Types' /\ OnlyPuts(pos, p)
  BY <1>2, <1>6, <1>7, Placed DEF ToWrite
<1>9. r[i].pos = path[i].pos
  BY <1>5 DEF SpotAt
<1> HIDE DEF r
<1>10. /\ prog' = Committing
       /\ UNCHANGED <<map, log, root, rootDirty, sumDirty, path, serial, overflowing>>
  BY <1>3, <1>8 DEF OnlyPuts
<1>11. Ends(r, u)'
  BY <1>8, <1>9, <1>10, StayLands
<1>12. (Count(map) = u)'
  BY <1>10 DEF Pending, Count, InUse
<1>13. (overflowing = FALSE => map.used = u)'
  BY <1>10
<1>14. Done(r)' /\ (r \in [Elem -> Spot])'
  BY <1>11, <1>12, <1>13 DEF Ends, Done
<1>15. Committed'
  BY <1>10, <1>14 DEF Committed
<1>16. Settled'
  BY <1>10, SettledSame DEF Quiet
<1>17. QED
  BY <1>8, <1>15, <1>16

(* The entry of an element that moves is written. *)
LEMMA MoveWritten ==
    ASSUME Types, Settled, StepWrite \/ StepWriteIndex, NEW i \in Elem, NEW s \in [Elem -> Spots],
           NEW u \in 0 .. AreasNo, NEW next \in Pos, NEW m \in Maps, NEW a \in Area,
           Moves(i, s, m, u, next, a), overflowing = TRUE
    PROVE  Types' /\ Settled' /\ InCommit'
<1> DEFINE old == AreaOn(path[i].pos)
<1>1. Head(prog).do \in {"write", "writeIndex"}
  BY DEF StepWrite, StepWriteIndex, Running
<1>2. Pending(i, s, m, u, next) /\ i > 0 /\ a # 0 /\ m.status[a] = "empty"
  BY MovesIs
<1>3. /\ ToWrite(i, s, Position[a], 0, 0, old, next, u)
      /\ s[i] = NotFound /\ IsMoved(m, map, old, a)
      /\ Tail(prog) = Cons(Insert(i - 1, serial[i - 1] + 1, Position[a], 0), Committing)
  BY <1>1, MoveWrites
<1>4. PICK prev \in Area : prev = old
  BY <1>3 DEF ToWrite
<1>5. PICK pos \in Pos : pos = Position[a]
  BY <1>3 DEF ToWrite
<1>6. ToWrite(i, s, pos, 0, 0, prev, next, u)
  BY <1>3, <1>4, <1>5
<1>7. Writes(i, pos, 0, 0, prev, next, u)
  BY <1>6 DEF ToWrite, Writes
<1> DEFINE r == [s EXCEPT ![i] = SpotAt(pos, 0)]
<1>8. Lands(s, r, i, prev, next, u) /\ Types' /\ OnlyPuts(pos, 0)
  <2>1. Lies(flash, s)
    BY <1>2 DEF Pending
  <2>2. QED
    BY <2>1, <1>6, <1>7, Placed DEF ToWrite
<1>9. r[i].pos = Position[a]
  BY <1>5 DEF SpotAt
<1> HIDE DEF r
<1>10. /\ prog' = Cons(Insert(i - 1, serial[i - 1] + 1, Position[a], 0), Committing)
       /\ UNCHANGED <<map, log, root, rootDirty, sumDirty, path, serial, overflowing>>
  BY <1>3, <1>8 DEF OnlyPuts
<1>11. Pending(i - 1, r, map, u, Position[a])'
  BY <1>2, <1>3, <1>4, <1>8, <1>9, <1>10, MoveLands
<1>12. i - 1 \in Elem /\ i - 1 # 2
  BY <1>2 DEF Elem
<1>13. r \in [Elem -> Spots] /\ r[i - 1] = path[i - 1]
  BY <1>2, <1>8, <1>12 DEF Lands, Pending, Elem
<1>14. prog' = Inserting(i - 1, u, pos)
  BY <1>5, <1>10, <1>12 DEF Inserting, Used
<1>15. StaysAt(i - 1, r, u, pos, prog')
  BY <1>13, <1>14 DEF StaysAt
<1>16. Stays(i - 1, r, u, pos)'
  BY <1>5, <1>10, <1>11, <1>15, StaysOn
<1>17. InCommit'
  BY <1>10, <1>12, <1>13, <1>16 DEF InCommit
<1>18. Settled'
  BY <1>10, SettledSame DEF Quiet
<1>19. QED
  BY <1>8, <1>17, <1>18

\* The two ways to write an entry: of an element that stays, or of one that moves.
Staying(i, s, u, next) ==
    /\ Pending(i, s, map, u, next) /\ StaysAt(i, s, u, next, prog)
    /\ overflowing = FALSE => map.used = u

MovingOut(i, s, u, next) ==
    /\ overflowing = TRUE
    /\ \E m \in Maps, a \in Area : Moves(i, s, m, u, next, a)

(* There are no others. *)
LEMMA Writing ==
    ASSUME IInv, prog # <<>>, Head(prog).do \in {"write", "writeIndex"}
    PROVE  \E i \in Elem, s \in [Elem -> Spots], u \in 0 .. AreasNo, next \in Pos :
               Staying(i, s, u, next) \/ MovingOut(i, s, u, next)
<1>1. Types
  BY DEF IInv
<1>2. Log(<<PageStatus>>).do = "log" /\ Log(<<SumCheckpoint>>).do = "log"
  BY HeadKinds
<1>3. ~ Committed /\ ~ Reread
  BY <1>1, <1>2, Stages DEF Committed, Reread
<1>4. CASE InCall
  <2>1. ~ Registering /\ ~ Taking /\ ~ Releasing /\ prog # Noting
    BY <1>1, <1>2, Stages
  <2>2. Beginning /\ Sound
    BY <1>4, <2>1 DEF InCall
  <2>3. /\ prog = Appending(2, map.used, 0)
        /\ path[2].page + 1 \in Page /\ BlockOf(path[2].page + 1) = BlockOf(path[2].page)
    <3>1. Head(Inserting(2, map.used, 0)).do = "insert"
      BY Heads, HeadKinds
    <3>2. QED
      BY <2>2, <3>1 DEF Beginning
  <2>4. Pending(2, path, map, map.used, 0) /\ map.used \in 0 .. AreasNo
    BY <1>1, <2>2, CommitBegins
  <2>5. PICK u \in 0 .. AreasNo : u = map.used
    BY <2>4
  <2>6. path \in [Elem -> Spots] /\ 2 \in Elem /\ 0 \in Pos
    BY <1>1, Positions DEF Types, Elem, Spots
  <2>7. PICK s \in [Elem -> Spots] : s = path
    BY <2>6
  <2>8. StaysAt(2, s, u, 0, prog) /\ Pending(2, s, map, u, 0)
    BY <2>3, <2>4, <2>5, <2>7 DEF StaysAt
  <2>9. Staying(2, s, u, 0)
    BY <2>5, <2>8 DEF Staying
  <2>10. QED
    BY <2>6, <2>9
<1>5. CASE InCommit
  <2>1. PICK i \in Elem, s \in [Elem -> Spots], u \in 0 .. AreasNo, next \in Pos :
            \/ Stays(i, s, u, next)
            \/ \E x \in Maps, a \in Area : Moves(i, s, x, u, next, a)
    BY <1>5 DEF InCommit
  <2>2. overflowing = TRUE
    BY <1>5 DEF InCommit
  <2>3. CASE Stays(i, s, u, next)
    <3>1. Pending(i, s, map, u, next) /\ StaysAt(i, s, u, next, prog)
      BY <2>3, StaysIs
    <3>2. Staying(i, s, u, next)
      BY <2>2, <3>1 DEF Staying
    <3>3. QED
      BY <3>2
  <2>4. CASE \E x \in Maps, a \in Area : Moves(i, s, x, u, next, a)
    <3>1. MovingOut(i, s, u, next)
      BY <2>2, <2>4 DEF MovingOut
    <3>2. QED
      BY <3>1
  <2>5. QED
    BY <2>1, <2>3, <2>4
<1>6. QED
  BY <1>3, <1>4, <1>5 DEF IInv

(* Writing an entry keeps the invariant. *)
LEMMA WriteKept ==
    ASSUME IInv, StepWrite \/ StepWriteIndex
    PROVE  IInv'
<1>1. Types /\ Settled /\ prog # <<>> /\ Head(prog).do \in {"write", "writeIndex"}
  BY DEF IInv, StepWrite, StepWriteIndex, Running
<1>2. PICK i \in Elem, s \in [Elem -> Spots], u \in 0 .. AreasNo, next \in Pos :
          Staying(i, s, u, next) \/ MovingOut(i, s, u, next)
  BY <1>1, Writing
<1>3. CASE Staying(i, s, u, next)
  <2>1. u \in Nat
    OBVIOUS
  <2>2. Types' /\ Settled' /\ Committed'
    BY <1>1, <1>3, <2>1, StayWritten DEF Staying
  <2>3. QED
    BY <2>2 DEF IInv
<1>4. CASE MovingOut(i, s, u, next)
  <2>1. PICK m \in Maps, a \in Area : Moves(i, s, m, u, next, a)
    BY <1>4 DEF MovingOut
  <2>2. Types' /\ Settled' /\ InCommit'
    BY <1>1, <1>4, <2>1, MoveWritten DEF MovingOut
  <2>3. QED
    BY <2>2 DEF IInv
<1>5. QED
  BY <1>2, <1>3, <1>4

(* Every page that is written is erased. *)
LEMMA WrittenErased ==
    ASSUME IInv, prog # <<>>, Head(prog).do \in {"write", "writeIndex"}
    PROVE  PageErased
<1>1. Types
  BY DEF IInv
<1>2. PICK i \in Elem, s \in [Elem -> Spots], u \in 0 .. AreasNo, next \in Pos :
          Staying(i, s, u, next) \/ MovingOut(i, s, u, next)
  BY Writing
<1>3. CASE Staying(i, s, u, next)
  <2>1. u \in Nat
    OBVIOUS
  <2>2. Pending(i, s, map, u, next) /\ StaysAt(i, s, u, next, prog) /\ Lies(flash, s)
    BY <1>3 DEF Staying, Pending
  <2>3. PICK p, no : ToWrite(i, s, path[i].pos, p, no, 0, next, u)
    BY <1>1, <2>1, <2>2, StayWrites
  <2>4. PICK pos : pos = path[i].pos
    OBVIOUS
  <2>5. ToWrite(i, s, pos, p, no, 0, next, u)
    BY <2>3, <2>4
  <2>6. QED
    BY <1>1, <2>2, <2>5, ToErased
<1>4. CASE MovingOut(i, s, u, next)
  <2>1. PICK m \in Maps, a \in Area : Moves(i, s, m, u, next, a)
    BY <1>4 DEF MovingOut
  <2>2. Pending(i, s, m, u, next) /\ Lies(flash, s)
    BY <2>1, MovesIs DEF Pending
  <2>3. PICK old : old = AreaOn(path[i].pos)
    OBVIOUS
  <2>4. ToWrite(i, s, Position[a], 0, 0, old, next, u)
    BY <1>1, <2>1, <2>3, MoveWrites
  <2>5. QED
    BY <1>1, <2>2, <2>4, ToErased
<1>5. QED
  BY <1>2, <1>3, <1>4

(* The superindex is read again: the number of used areas is what it says. *)
LEMMA RereadKept ==
    ASSUME Careful, IInv, StepReread
    PROVE  /\ IInv' /\ root' = root /\ map'.type = map.type /\ map'.status = map.status
           /\ phase' = "run" /\ Sound'
<1>1. Types /\ Settled /\ prog # <<>> /\ Head(prog).do = "reread"
  BY DEF IInv, StepReread, Running
<1>2. Log(<<PageStatus>>).do = "log" /\ Log(<<SumCheckpoint>>).do = "log"
  BY HeadKinds
<1>3. ~ InCall /\ ~ Reread
  BY <1>1, <1>2, Stages DEF InCall, Reread
<1>4. ~ InCommit
  <2>1. \A i, s, u, next : ~ Stays(i, s, u, next)
    BY <1>1, Stages
  <2>2. \A i, s, m, u, next, a : ~ Moves(i, s, m, u, next, a)
    BY <1>1, Stages
  <2>3. QED
    BY <2>1, <2>2 DEF InCommit
<1>5. Committed
  BY <1>3, <1>4 DEF IInv
<1>6. prog = Rereading /\ ~ ReplayedSumDirty(log)
  BY <1>1, <1>2, <1>5, Stages DEF Committed
<1>7. PICK s \in [Elem -> Spot] : Done(s)
  BY <1>5 DEF Committed
<1>8. Chained(flash, s, map) /\ Index(flash, s).root = root
  BY <1>7 DEF Done
<1>9. ChainOf(flash) = s /\ s # NotFound
  BY <1>8, ChainFound
<1> DEFINE u == Index(flash, s).map.used
           k == [map EXCEPT !.used = u]
<1>10. /\ map' = MapOf(flash, s) /\ log' = Append(log, UsedAreas(map'.used))
       /\ root' = root /\ rootDirty' = FALSE /\ sumDirty' = FALSE /\ path' = s
       /\ serial' = [i \in Elem |-> At(flash, s[i]).no]
       /\ prog' = Tail(prog) /\ phase' = phase /\ overflowing' = FALSE /\ flash' = flash
  <2>1. PICK chain \in {ChainOf(flash)} :
           IF chain = NotFound
           THEN /\ phase' = "bug"
                /\ prog' = <<>>
                /\ UNCHANGED <<map, log, root, rootDirty, sumDirty, path, serial>>
           ELSE /\ map' = MapOf(flash, chain)
                /\ log' = Append(log, UsedAreas(map'.used))
                /\ root' = At(flash, chain[2]).root
                /\ rootDirty' = FALSE
                /\ sumDirty' = FALSE
                /\ path' = chain
                /\ serial' = [i \in Elem |-> At(flash, chain[i]).no]
                /\ prog' = Tail(prog)
                /\ UNCHANGED phase
    BY DEF StepReread
  <2>2. chain = s
    BY <2>1, <1>9
  <2>3. overflowing' = FALSE /\ flash' = flash
    BY DEF StepReread
  <2>4. QED
    BY <2>1, <2>2, <2>3, <1>8, <1>9 DEF Index
<1>11. MapOf(flash, s) = k /\ Count(map) = u /\ u \in Nat
  <2>1. MapOf(flash, s) \in Maps /\ MapOf(flash, s).used = u
    BY <1>8, MapOfType
  <2>2. u \in Nat
    BY <2>1 DEF Maps
  <2>3. QED
    BY <1>7, <2>2 DEF Done
<1>12. map \in Maps /\ log \in Seq(LogEntry)
  BY <1>1 DEF Types
<1>13. /\ k = Applied(map, UsedAreas(u)) /\ k \in Maps /\ k.used = u
       /\ k.type = map.type /\ k.active = map.active /\ k.status = map.status
  BY <1>11, <1>12, LoggedUsed
<1> HIDE DEF u, k
<1> DEFINE n == <<UsedAreas(u)>>
<1>14. n \in Seq(LogEntry) /\ Len(n) = 1 /\ n[1] # PageStatus /\ n[1].op # "rootnode"
  <2>1. UsedAreas(u) \in LogEntry /\ UsedAreas(u) # PageStatus /\ UsedAreas(u).op # "rootnode"
    BY <1>11, Entries DEF UsedAreas, PageStatus
  <2>2. QED
    BY <2>1
<1>15. k = Replayed(map, n)
  BY <1>11, <1>12, <1>13, ReplayShort, Entries
<1>16. map' = k /\ log' = log \o n /\ log' \in Seq(LogEntry)
  <2>1. map' = k /\ map'.used = u
    BY <1>10, <1>11, <1>13
  <2>2. UsedAreas(u) \in LogEntry
    BY <1>11, Entries
  <2>3. Append(log, UsedAreas(u)) = log \o n
    BY <1>12, <2>2
  <2>4. QED
    BY <2>1, <2>3, <1>10, <1>12, <1>14
<1> HIDE DEF n
<1>17. Replayed(k, log') = k
  <2>1. Replayed(map, log) = map
    BY <1>1 DEF Settled
  <2>2. QED
    BY <2>1, <1>12, <1>14, <1>15, <1>16, ReplaySettles
<1>18. ReplayedRoot(root, log') = root
  <2>1. ReplayedRoot(root, log) = root
    BY <1>1 DEF Settled
  <2>2. QED
    BY <2>1, <1>12, <1>14, <1>16, RootKept
<1>19. ~ ReplayedSumDirty(log')
  BY <1>6, <1>12, <1>14, <1>16, DirtyKept
<1>20. Settled'
  BY <1>10, <1>16, <1>17, <1>18, <1>19 DEF Settled
<1>21. serial' \in [Elem -> Nat] /\ \A i \in Elem : serial'[i] = At(flash, s[i]).no
  BY <1>8, <1>10, MapOfType
<1>22. Types'
  BY <1>1, <1>10, <1>13, <1>16, <1>21 DEF Types
<1>23. Chained(flash, s, k)
  BY <1>8, <1>13 DEF Chained, Homes, Left
<1>24. isPlausible(k)
  <2>1. Count(k) = Count(map)
    BY <1>13, CountSame
  <2>2. QED
    BY <2>1, <1>11, <1>13 DEF isPlausible, Count
<1>25. Sound'
  <2>1. /\ Chained(flash, path, map)' /\ Serials' /\ isPlausible(map)'
    BY <1>10, <1>16, <1>21, <1>23, <1>24 DEF Serials, isPlausible, InUse
  <2>2. (/\ Replayed(MapOf(flash, path), log) = map
         /\ ReplayedRoot(Index(flash, path).root, log) = root
         /\ MapOf(flash, path) = map
         /\ Index(flash, path).root = root)'
    BY <1>8, <1>10, <1>11, <1>16, <1>17, <1>18
  <2>3. QED
    BY <2>1, <2>2 DEF Sound
<1>26. prog' = Clearing
  BY <1>6, <1>10, Heads
<1>27. Reread'
  <2>1. (MapOf(flash, path) = map /\ Index(flash, path).root = root)'
    BY <1>8, <1>10, <1>11, <1>16
  <2>2. QED
    BY <2>1, <1>10, <1>25, <1>26 DEF Reread
<1>28. IInv'
  BY <1>20, <1>22, <1>27 DEF IInv
<1>29. phase' = "run"
  BY <1>1, <1>10 DEF Types
<1>30. QED
  BY <1>10, <1>13, <1>16, <1>25, <1>28, <1>29

-----------------------------------------------------------------------------
(* Calls *)

(* Between calls the superindex and the log say what the memory says. *)
LEMMA IdleSound ==
    ASSUME IInv, prog = <<>>
    PROVE  Types /\ Settled /\ Sound /\ overflowing = FALSE
<1>1. Types /\ Settled
  BY DEF IInv
<1>2. ~ InCommit
  <2>1. \A i, s, u, next : ~ Stays(i, s, u, next)
    BY <1>1, Stages
  <2>2. \A i, s, m, u, next, a : ~ Moves(i, s, m, u, next, a)
    BY <1>1, Stages
  <2>3. QED
    BY <2>1, <2>2 DEF InCommit
<1>3. ~ Committed /\ ~ Reread
  BY <1>1, Stages DEF Committed, Reread
<1>4. QED
  BY <1>1, <1>2, <1>3 DEF IInv, InCall

(* A call that starts changes nothing but what is to be done. *)
LEMMA Started ==
    ASSUME IInv, NEW p, Start(p)
    PROVE  /\ Types' /\ Settled' /\ Sound' /\ prog' = p /\ overflowing' = FALSE
           /\ UNCHANGED <<flash, map, log, root, rootDirty, sumDirty, path, serial>>
<1>1. prog = <<>> /\ prog' = p
      /\ UNCHANGED <<flash, map, log, root, rootDirty, sumDirty, path, serial, phase, overflowing>>
  BY DEF Start, Idle
<1>2. Types /\ Settled /\ Sound /\ overflowing = FALSE
  BY <1>1, IdleSound
<1>3. prog # Noting
  BY <1>1, <1>2, Stages
<1>4. Types'
  BY <1>1, <1>2 DEF Types
<1>5. Settled'
  BY <1>1, <1>2, SettledSame DEF Quiet
<1>6. Sound'
  BY <1>1, <1>2, <1>3, SoundSame
<1>7. QED
  BY <1>1, <1>2, <1>4, <1>5, <1>6

(* A new root node is registered. *)
LEMMA RegisterRootKept ==
    ASSUME IInv, RegisterRoot
    PROVE  IInv'
<1> DEFINE r == (root + 1) % Roots
<1>1. r \in 0 .. Roots - 1
  <2>1. Roots \in Nat \ {0} /\ root \in Nat
    BY ChainAssumption DEF IInv, Types
  <2>2. QED
    BY <2>1
<1> DEFINE p == <<Log(<<PageStatus>>), [do |-> "rootnode", root |-> r]>>
<1>2. Start(p)
  BY DEF RegisterRoot
<1>3. p = Cons(Log(<<PageStatus>>), <<[do |-> "rootnode", root |-> r]>>)
  BY ShortPrograms
<1> HIDE DEF r, p
<1>4. /\ Types' /\ Settled' /\ Sound' /\ prog' = p /\ overflowing' = FALSE
  BY <1>2, Started
<1>5. Registering'
  <2>1. prog' = Cons(Log(<<PageStatus>>), <<[do |-> "rootnode", root |-> r]>>)
    BY <1>3, <1>4
  <2>2. QED
    BY <2>1, <1>1 DEF Registering
<1>6. QED
  BY <1>4, <1>5 DEF IInv, InCall

(* An area is taken. *)
LEMMA TakeKept ==
    ASSUME Careful, IInv, NEW a \in Area, Take(a)
    PROVE  IInv'
<1> DEFINE p == <<Log(TakeEntries(map, a))>>
<1>1. Start(p) /\ map.status[a] = "empty" /\ a # Previous
  BY DEF Take, TakeEntries, Careful
<1> HIDE DEF p
<1>2. /\ Types' /\ Settled' /\ Sound' /\ prog' = p /\ overflowing' = FALSE
      /\ UNCHANGED <<flash, map, log, root, rootDirty, sumDirty, path, serial>>
  BY <1>1, Started
<1>3. Taking'
  <2>1. map'.status[a] = "empty" /\ a # Previous'
    BY <1>1, <1>2 DEF Previous
  <2>2. prog' = <<Log(TakeEntries(map, a))>>
    BY <1>2 DEF p
  <2>3. prog' = <<Log(TakeEntries(map', a))>>
    BY <2>2, <1>2
  <2>4. QED
    BY <2>1, <2>3 DEF Taking
<1>4. QED
  BY <1>2, <1>3 DEF IInv, InCall

(* An area is released. *)
LEMMA ReleaseKept ==
    ASSUME IInv, NEW a \in Area, Release(a)
    PROVE  IInv'
<1> DEFINE p == <<Log(ReleaseEntries(map, a)), Log(<<PageStatus>>)>>
<1>1. Start(p) /\ map.status[a] = "closed" /\ map.type[a] = "data"
  BY DEF Release, ReleaseEntries
<1>2. p = Cons(Log(ReleaseEntries(map, a)), Noting)
  BY ShortPrograms DEF Noting
<1> HIDE DEF p
<1>3. /\ Types' /\ Settled' /\ Sound' /\ prog' = p /\ overflowing' = FALSE
      /\ UNCHANGED <<flash, map, log, root, rootDirty, sumDirty, path, serial>>
  BY <1>1, Started
<1>4. Releasing'
  <2>1. prog' = Cons(Log(ReleaseEntries(map', a)), Noting)
    BY <1>2, <1>3
  <2>2. map'.status[a] = "closed" /\ map'.type[a] = "data"
    BY <1>1, <1>3
  <2>3. QED
    BY <2>1, <2>2 DEF Releasing
<1>5. QED
  BY <1>3, <1>4 DEF IInv, InCall

(* A commit starts, or is left out where nothing is dirty. *)
LEMMA FlushKept ==
    ASSUME IInv, Flush
    PROVE  IInv'
<1> DEFINE p == commitSuperIndex \o <<Log(<<SumCheckpoint>>), Do("reread"), Do("clear")>>
<1>1. Start(p)
  BY DEF Flush
<1>2. p = IF ~ sumDirty /\ ~ rootDirty THEN Retiring ELSE Inserting(2, map.used, 0)
  BY FlushProgram
<1> HIDE DEF p
<1>3. /\ Types' /\ Settled' /\ Sound' /\ prog' = p /\ overflowing' = FALSE
      /\ UNCHANGED <<flash, map, log, root, rootDirty, sumDirty, path, serial>>
  BY <1>1, Started
<1>4. prog = <<>>
  BY <1>1 DEF Start, Idle
<1>5. Types /\ Settled /\ Sound
  BY <1>4, IdleSound
<1>6. CASE ~ sumDirty /\ ~ rootDirty
  <2>1. prog # Noting
    BY <1>4, <1>5, Stages
  <2>2. ~ ReplayedSumDirty(log)
    BY <1>5, <1>6 DEF Settled
  <2>3. MapOf(flash, path) = map /\ Index(flash, path).root = root
    <3>1. MapOf(flash, path) = map
      BY <2>1, <2>2, <1>5 DEF Sound
    <3>2. QED
      BY <3>1, <1>5, <1>6 DEF Sound
  <2>4. Chained(flash, path, map) /\ isPlausible(map) /\ path \in [Elem -> Spot]
    BY <1>5 DEF Sound, Types
  <2>5. map.used = Index(flash, path).map.used
    BY <2>3, <2>4, MapOfType
  <2>6. map = [map EXCEPT !.used = map.used]
    BY <1>5 DEF Types, Maps
  <2>7. Done(path)
    BY <2>3, <2>4, <2>5, <2>6 DEF Done, isPlausible, Count
  <2>8. PICK s \in [Elem -> Spot] : s = path
    BY <2>4
  <2>9. Done(s)'
    <3>1. Done(s)
      BY <2>7, <2>8
    <3>2. overflowing' = overflowing
      BY <1>3, <1>4, IdleSound
    <3>3. QED
      BY <3>1, <3>2, <1>3, DoneSame
  <2>10. prog' = Retiring
    BY <1>2, <1>3, <1>6
  <2>11. Retiring' = Retiring
    BY DEF Retiring
  <2>12. QED
    BY <2>9, <2>10, <2>11, <1>3 DEF IInv, Committed
<1>7. CASE ~ (~ sumDirty /\ ~ rootDirty)
  <2>1. prog' = Inserting(2, map.used, 0)
    BY <1>2, <1>3, <1>7
  <2>2. prog' = Inserting(2, map.used, 0)'
    BY <2>1, <1>3 DEF Inserting
  <2>3. QED
    BY <2>2, <1>3 DEF IInv, InCall, Beginning
<1>8. QED
  BY <1>6, <1>7

-----------------------------------------------------------------------------
(* Losses of power *)

\* What a mount makes of superindex and log: what was in memory.
Remount(s) ==
    /\ map' = map /\ root' = root /\ path' = s
    /\ rootDirty' = ReplayedDirty(Index(flash, s).root, log)
    /\ sumDirty' = ReplayedSumDirty(log)
    /\ serial' = [i \in Elem |-> At(flash, s[i]).no]
    /\ prog' = <<>> /\ overflowing' = FALSE /\ UNCHANGED <<flash, log, phase>>

(* A mount finds what the chain and the log say. *)
LEMMA MountIs ==
    ASSUME Careful, NEW f, NEW s, NEW m, Chained(f, s, m), NEW l
    PROVE  MountFrom(f, l) = [kind |-> "mounted", path |-> s, map |-> Replayed(MapOf(f, s), l),
                              root |-> ReplayedRoot(Index(f, s).root, l)]
<1>1. ChainOf(f) = s /\ ChainOf(f) # NotFound
  BY ChainFound
<1>2. QED
  BY <1>1 DEF MountFrom, Index

(* What a mount finds is not nothing. *)
LEMMA Found ==
    ASSUME NEW s, NEW m, NEW r
    PROVE  [kind |-> "mounted", path |-> s, map |-> m, root |-> r] # NotFound
<1> DEFINE x == [kind |-> "mounted", path |-> s, map |-> m, root |-> r]
<1>1. x.kind # NotFound.kind
  BY DEF NotFound
<1>2. QED
  BY <1>1

(* A loss of power, where the chain is whole and the log says the rest. *)
LEMMA Remounted ==
    ASSUME Careful, PowerLoss, NEW s, Chained(flash, s, map),
           Replayed(MapOf(flash, s), log) = map, ReplayedRoot(Index(flash, s).root, log) = root
    PROVE  Remount(s)
<1> DEFINE n == [kind |-> "mounted", path |-> s, map |-> map, root |-> root]
<1>1. MountFrom(flash, log) = n /\ n # NotFound
  BY MountIs, Found
<1>2. n.path = s /\ n.map = map /\ n.root = root
  OBVIOUS
<1> HIDE DEF n
<1>3. PICK m \in {MountFrom(flash, log)} :
           IF m = NotFound
           THEN phase' = "lost" /\ UNCHANGED <<map, root, rootDirty, sumDirty, path, serial>>
           ELSE /\ map' = m.map
                /\ root' = m.root
                /\ rootDirty' = ReplayedDirty(At(flash, m.path[2]).root, log)
                /\ sumDirty' = ReplayedSumDirty(log)
                /\ path' = m.path
                /\ serial' = [i \in Elem |-> At(flash, m.path[i]).no]
                /\ UNCHANGED phase
  BY DEF PowerLoss
<1>4. m = n
  BY <1>1, <1>3
<1>5. prog' = <<>> /\ overflowing' = FALSE /\ UNCHANGED <<flash, log>>
  BY DEF PowerLoss
<1>6. QED
  BY <1>1, <1>2, <1>3, <1>4, <1>5 DEF Remount, Index

(* After that everything is as between two calls. *)
LEMMA RemountKept ==
    ASSUME Types, Settled, NEW s \in [Elem -> Spot], Remount(s),
           Chained(flash, s, map), isPlausible(map),
           Replayed(MapOf(flash, s), log) = map, ReplayedRoot(Index(flash, s).root, log) = root,
           ~ ReplayedSumDirty(log) => MapOf(flash, s) = map
    PROVE  IInv'
<1>1. ReplayedDirty(Index(flash, s).root, log) \in BOOLEAN /\ ReplayedSumDirty(log) \in BOOLEAN
  BY DEF ReplayedDirty, ReplayedSumDirty
<1>2. serial' \in [Elem -> Nat] /\ \A i \in Elem : serial'[i] = At(flash, s[i]).no
  BY MapOfType DEF Remount
<1>3. Types'
  BY <1>1, <1>2 DEF Types, Remount
<1>4. Settled'
  BY DEF Settled, Remount
<1>5. log \in Seq(LogEntry)
  BY DEF Types
<1>6. ~ rootDirty' => Index(flash, s).root = root
  <2>1. ~ ReplayedDirty(Index(flash, s).root, log) => ReplayedRoot(Index(flash, s).root, log) = Index(flash, s).root
    BY <1>5, RootSame
  <2>2. QED
    BY <2>1 DEF Remount
<1>7. Sound'
  <2>1. /\ Chained(flash, path, map)' /\ Serials' /\ isPlausible(map)'
    BY <1>2 DEF Remount, Serials, isPlausible, InUse
  <2>2. (/\ Replayed(MapOf(flash, path), log) = map
         /\ ReplayedRoot(Index(flash, path).root, log) = root
         /\ ~ ReplayedSumDirty(log) => MapOf(flash, path) = map
         /\ ~ rootDirty => Index(flash, path).root = root)'
    BY <1>6 DEF Remount
  <2>3. QED
    BY <2>1, <2>2 DEF Sound
<1>8. prog' = <<>> /\ overflowing' = FALSE
  BY DEF Remount
<1>9. QED
  BY <1>3, <1>4, <1>7, <1>8 DEF IInv, InCall

(* Power may fail at any moment but the spared ones. *)
LEMMA PowerLossKept ==
    ASSUME Careful, IInv, PowerLoss
    PROVE  IInv' /\ map' = map /\ root' = root /\ phase' = "run"
<1>1. Types /\ Settled /\ log \in Seq(LogEntry) /\ map \in Maps /\ phase = "run"
  BY DEF IInv, Types
<1>2. ~ overflowing /\ prog # Noting
  BY DEF PowerLoss, Interruptible, Careful, Noting
<1>3. ~ InCommit
  BY <1>2 DEF InCommit
<1>4. Sound \/ Committed
  BY <1>3 DEF IInv, InCall, Reread
<1>5. CASE Sound
  <2>1. /\ Chained(flash, path, map) /\ isPlausible(map) /\ path \in [Elem -> Spot]
        /\ Replayed(MapOf(flash, path), log) = map
        /\ ReplayedRoot(Index(flash, path).root, log) = root
        /\ ~ ReplayedSumDirty(log) => MapOf(flash, path) = map
    BY <1>1, <1>2, <1>5 DEF Sound, Types
  <2>2. PICK s \in [Elem -> Spot] : s = path
    BY <2>1
  <2>3. Remount(s)
    BY <2>1, <2>2, Remounted
  <2>4. IInv'
    BY <2>1, <2>2, <2>3, <1>1, RemountKept
  <2>5. QED
    BY <2>3, <2>4, <1>1 DEF Remount
<1>6. CASE Committed
  <2>1. PICK s \in [Elem -> Spot] : Done(s)
    BY <1>6 DEF Committed
  <2>2. /\ Chained(flash, s, map) /\ Index(flash, s).root = root
        /\ MapOf(flash, s) = [map EXCEPT !.used = map.used] /\ Count(map) = map.used
    BY <2>1, <1>1, <1>2 DEF Done, Types
  <2>3. MapOf(flash, s) = map
    BY <2>2, <1>1 DEF Maps
  <2>4. isPlausible(map)
    BY <2>2 DEF isPlausible, Count
  <2>5. Replayed(map, log) = map /\ ReplayedRoot(root, log) = root
    BY <1>1 DEF Settled
  <2>6. Remount(s)
    BY <2>2, <2>3, <2>5, Remounted
  <2>7. IInv'
    BY <2>2, <2>3, <2>4, <2>5, <2>6, <1>1, RemountKept
  <2>8. QED
    BY <2>6, <2>7, <1>1 DEF Remount
<1>7. QED
  BY <1>4, <1>5, <1>6

-----------------------------------------------------------------------------
(* The initial state *)

(* A formatted map is a map, and its four areas are counted. *)
LEMMA FormattedMaps ==
    /\ FormattedChain \in Maps /\ isPlausible(FormattedChain) /\ FormattedChain.used = 4
    /\ FormattedChain.active["superblock"] = 0
    /\ \A i \in Elem : i \in Area /\ FormattedChain.type[i] = "superblock"
                       /\ FormattedChain.status[i] = "active"
<1> DEFINE m == FormattedChain
<1>1. AreasNo \in Nat /\ AreasNo > 4 /\ Area = 0 .. AreasNo - 1
  BY AreasAssumption, ChainAssumption DEF Area
<1>2. 0 .. 2 \subseteq Area /\ 0 .. 3 \subseteq Area /\ 3 \in Area /\ 0 \in Area
  BY <1>1
<1>3. /\ m.type = [a \in Area |-> CASE a \in 0 .. 2 -> "superblock"
                                    [] a = 3 -> "garbageBuffer"
                                    [] OTHER -> "unset"]
      /\ m.status = [a \in Area |-> IF a \in 0 .. 3 THEN "active" ELSE "empty"]
      /\ m.active = [t \in AreaType |-> IF t = "garbageBuffer" THEN 3 ELSE 0]
      /\ m.pos = Position /\ m.erasecount = [a \in Area |-> 0]
      /\ m.used = 4 /\ m.deletions = 0
      /\ DOMAIN m = {"type", "status", "pos", "erasecount", "active", "used", "deletions"}
  BY DEF FormattedChain
<1>4. m.type \in [Area -> AreaType]
  <2> SUFFICES ASSUME NEW a \in Area
               PROVE  (CASE a \in 0 .. 2 -> "superblock" [] a = 3 -> "garbageBuffer"
                         [] OTHER -> "unset") \in AreaType
    BY <1>3
  <2>1. a \in 0 .. 2 \/ a = 3 \/ (a \notin 0 .. 2 /\ a # 3)
    OBVIOUS
  <2>2. a \in 0 .. 2 => a # 3
    OBVIOUS
  <2>3. QED
    BY <2>1, <2>2 DEF AreaType
<1>5. m.status \in [Area -> AreaStatus]
  BY <1>3 DEF AreaStatus
<1>6. m.active \in [AreaType -> Area]
  BY <1>2, <1>3
<1>7. m.erasecount \in [Area -> {0}] /\ m.used \in Nat /\ m.deletions \in {0} /\ m.pos \in {Position}
  BY <1>3
<1>8. m = [type |-> m.type, status |-> m.status, pos |-> m.pos, erasecount |-> m.erasecount,
           active |-> m.active, used |-> m.used, deletions |-> m.deletions]
  BY DEF FormattedChain
<1>9. InUse(m) = 0 .. 3
  BY <1>2, <1>3 DEF InUse
<1>10. Cardinality(0 .. 3) = 4
  <2>1. Cardinality(0 .. 3) = IF 0 > 3 THEN 0 ELSE 3 - 0 + 1
    BY FS_Interval, 0 \in Int, 3 \in Int
  <2>2. QED
    BY <2>1
<1>11. m.active["superblock"] = 0
  BY <1>3 DEF AreaType
<1>12. \A i \in Elem : i \in Area /\ m.type[i] = "superblock" /\ m.status[i] = "active"
  BY <1>2, <1>3 DEF Elem
<1> HIDE DEF m
<1>13. m \in Maps
  BY <1>4, <1>5, <1>6, <1>7, <1>8 DEF Maps
<1>14. isPlausible(m)
  BY <1>3, <1>9, <1>10 DEF isPlausible
<1>15. QED
  BY <1>3, <1>11, <1>12, <1>13, <1>14 DEF m

(* The flash of a formatted device: three first entries, and nothing else. *)
LEMMA FormattedFlash ==
    ASSUME SuperPages = 1, Init
    PROVE  /\ flash = [pos \in Pos |-> [p \in Page |-> flash[pos][p]]]
           /\ 0 \in Page /\ Elem \subseteq Pos
           /\ \A i \in Elem : flash[i][0] = FirstEntry(i)
           /\ \A pos \in Pos : \A p \in Page : pos \notin Elem \/ p # 0 => flash[pos][p] = Empty
<1>1. flash = [pos \in Pos |-> [p \in Page |->
                  IF pos > 2 THEN Empty
                  ELSE IF p = 0 THEN FirstEntry(pos)
                  ELSE IF pos = 2 /\ p < SuperPages THEN [kind |-> "rest", no |-> 1]
                  ELSE Empty]]
  BY DEF Init
<1>2. flash = [pos \in Pos |-> [p \in Page |-> flash[pos][p]]]
  BY <1>1
<1>3. Elem \subseteq Pos
  BY FormattedMaps DEF Pos
<1>4. 0 \in Page /\ \A p \in Page : p \in Nat
  <2>1. BlocksPerArea \in Nat /\ BlocksPerArea > 0 /\ PagesPerBlock \in Nat /\ PagesPerBlock > 0
    BY ChainAssumption
  <2>2. BlocksPerArea * PagesPerBlock \in Nat /\ BlocksPerArea * PagesPerBlock > 0
    BY <2>1, SMTT(30)
  <2>3. QED
    BY <2>2 DEF Page
<1>5. \A pos \in Pos : pos \in Nat /\ (pos \in Elem <=> ~ (pos > 2))
  BY AreasAssumption DEF Pos, Area, Elem
<1>6. \A i \in Elem : flash[i][0] = FirstEntry(i)
  BY <1>1, <1>3, <1>4, <1>5
<1>7. ASSUME NEW pos \in Pos, NEW p \in Page, pos \notin Elem \/ p # 0
      PROVE  flash[pos][p] = Empty
  <2>1. flash[pos][p] = IF pos > 2 THEN Empty
                        ELSE IF p = 0 THEN FirstEntry(pos)
                        ELSE IF pos = 2 /\ p < SuperPages THEN [kind |-> "rest", no |-> 1]
                        ELSE Empty
    BY <1>1
  <2>2. CASE pos \notin Elem
    BY <2>1, <2>2, <1>5
  <2>3. CASE p # 0
    <3>1. ~ (p < SuperPages)
      BY <2>3, <1>4
    <3>2. QED
      BY <2>1, <2>3, <3>1
  <2>4. QED
    BY <1>7, <2>2, <2>3
<1>8. QED
  BY <1>2, <1>3, <1>4, <1>6, <1>7

(* The first entries are entries of their elements. *)
LEMMA FirstEntries ==
    \A i \in Elem : /\ FirstEntry(i) # Empty /\ FirstEntry(i).no = 1 /\ IsEntry(i, FirstEntry(i))
                    /\ FirstEntry(i).prev = 0
                    /\ i < 2 => FirstEntry(i).next = i + 1
                    /\ i = 2 => FirstEntry(i).map = FormattedChain /\ FirstEntry(i).root = 0
<1> TAKE i \in Elem
<1>1. 0 \in Area /\ 0 \in 0 .. Roots - 1 /\ 1 \in Pos /\ 2 \in Pos
  BY AreasAssumption, ChainAssumption DEF Area, Pos
<1>2. CASE i = 2
  <2>1. FirstEntry(i) = [kind |-> "superindex", no |-> 1, prev |-> 0, root |-> 0, map |-> FormattedChain]
    BY <1>2 DEF FirstEntry
  <2>2. FirstEntry(i).kind = "superindex"
    BY <2>1
  <2>3. FirstEntry(i) # Empty
    BY <2>2 DEF Empty
  <2>4. FirstEntry(i).no = 1 /\ FirstEntry(i).prev = 0 /\ FirstEntry(i).root = 0
        /\ FirstEntry(i).map = FormattedChain
    BY <2>1
  <2>5. IsEntry(i, FirstEntry(i))
    BY <1>1, <1>2, <2>2, <2>4, FormattedMaps DEF IsEntry
  <2>6. QED
    BY <1>2, <2>3, <2>4, <2>5
<1>3. CASE i \in {0, 1}
  <2>1. i < 2 /\ i # 2 /\ i + 1 \in Pos
    BY <1>1, <1>3
  <2>2. FirstEntry(i) = [kind |-> Kind(i), no |-> 1, prev |-> 0, next |-> i + 1]
    BY <2>1 DEF FirstEntry
  <2>3. Kind(i) \in {"anchor", "pad"}
    BY DEF Kind
  <2>4. FirstEntry(i).kind = Kind(i) /\ FirstEntry(i).no = 1 /\ FirstEntry(i).prev = 0
        /\ FirstEntry(i).next = i + 1
    BY <2>2
  <2>5. FirstEntry(i) # Empty
    BY <2>3, <2>4 DEF Empty
  <2>6. IsEntry(i, FirstEntry(i))
    BY <1>1, <2>1, <2>4 DEF IsEntry
  <2>7. QED
    BY <2>1, <2>4, <2>5, <2>6
<1>4. QED
  BY <1>2, <1>3 DEF Elem

(* The chain of a formatted device. *)
LEMMA InitChained ==
    ASSUME SuperPages = 1, Init
    PROVE  Chained(flash, path, map) /\ MapOf(flash, path) = map /\ path \in [Elem -> Spot]
           /\ Index(flash, path).root = 0 /\ \A i \in Elem : At(flash, path[i]).no = 1
<1>1. /\ 0 \in Page /\ Elem \subseteq Pos
      /\ \A i \in Elem : flash[i][0] = FirstEntry(i)
      /\ \A pos \in Pos : \A p \in Page : pos \notin Elem \/ p # 0 => flash[pos][p] = Empty
  BY FormattedFlash
<1>2. map = FormattedChain /\ path = [i \in Elem |-> [kind |-> "at", pos |-> i, page |-> 0]]
  BY DEF Init
<1>3. \A i \in Elem : path[i].pos = i /\ path[i].page = 0 /\ path[i].kind = "at" /\ path[i] \in Spot
  BY <1>1, <1>2 DEF Spot
<1>4. path \in [Elem -> Spot]
  BY <1>2, <1>3
<1>5. \A i \in Elem : At(flash, path[i]) = FirstEntry(i)
  BY <1>1, <1>3 DEF At
<1>6. Written(0) = {0}
  <2>1. \A p \in Page : p \in Nat
    <3>1. BlocksPerArea * PagesPerBlock \in Nat
      BY ChainAssumption
    <3>2. QED
      BY <3>1 DEF Page
  <2>2. \A p \in Page : p <= 0 => p = 0
    BY <2>1
  <2>3. QED
    BY <1>1, <2>2 DEF Written
<1>7. \A i \in Elem : Filled(flash, i, 0)
  <2> TAKE i \in Elem
  <2>1. flash[i][0] # Empty /\ flash[i][0].no = 1
    BY <1>1, FirstEntries
  <2>2. \A p \in Page : flash[i][p] # Empty <=> p \in Written(0)
    BY <1>1, <1>6, <2>1
  <2>3. \A p \in Written(0) : flash[i][p].no \in 0 .. p + 1
    BY <1>6, <2>1
  <2>4. \A p, q \in Written(0) : ~ (p < q)
    BY <1>6
  <2>5. QED
    BY <2>2, <2>3, <2>4 DEF Filled
<1>8. Lies(flash, path)
  <2>1. \A i \in Elem : Filled(flash, path[i].pos, path[i].page) /\ IsEntry(i, At(flash, path[i]))
    BY <1>3, <1>5, <1>7, FirstEntries
  <2>2. \A i, j \in Elem : i # j => path[i].pos # path[j].pos
    BY <1>3
  <2>3. \A pos \in Pos : (\A i \in Elem : path[i] = NotFound \/ path[i].pos # pos) => Blank(flash, pos)
    <3> SUFFICES ASSUME NEW pos \in Pos, \A i \in Elem : path[i] = NotFound \/ path[i].pos # pos
                 PROVE  Blank(flash, pos)
      OBVIOUS
    <3>1. NotFound.kind # "at"
      BY DEF NotFound
    <3>2. pos \notin Elem
      BY <1>3, <3>1
    <3>3. QED
      BY <1>1, <3>2 DEF Blank
  <2>4. QED
    BY <2>1, <2>2, <2>3 DEF Lies
<1>9. path[0].pos = 0 /\ Points(flash, path, 0, path[1].pos) /\ Points(flash, path, 1, path[2].pos)
  <2>1. 0 \in Elem /\ 1 \in Elem /\ 2 \in Elem /\ 0 < 2 /\ 1 < 2
    BY DEF Elem
  <2>2. At(flash, path[0]).next = 1 /\ At(flash, path[1]).next = 2
    BY <1>5, <2>1, FirstEntries
  <2>3. QED
    BY <1>3, <2>1, <2>2 DEF Points
<1>10. \A i \in Elem : AreaOn(i) = i
  <2> TAKE i \in Elem
  <2>1. i \in Area /\ Position[i] = i
    BY ChainAssumption, FormattedMaps DEF Elem
  <2>2. \A a \in Area : Position[a] = i => a = i
    BY <2>1, ChainAssumption
  <2>3. QED
    BY <2>1, <2>2 DEF AreaOn
<1>11. Homes(map, path)
  BY <1>2, <1>3, <1>10, FormattedMaps DEF Homes
<1>12. 1 \in Elem /\ 2 \in Elem /\ 0 \in Elem
  BY DEF Elem
<1>13. /\ Index(flash, path).map = map /\ Index(flash, path).root = 0
       /\ Index(flash, path).prev = 0 /\ At(flash, path[1]).prev = 0
  BY <1>2, <1>5, <1>12, FirstEntries DEF Index
<1>14. Chained(flash, path, map)
  BY <1>2, <1>4, <1>8, <1>9, <1>11, <1>12, <1>13, FormattedMaps DEF Chained, Left
<1>15. MapOf(flash, path) = map
  BY <1>13 DEF MapOf, AfterMove, Index
<1>16. QED
  BY <1>4, <1>5, <1>13, <1>14, <1>15, FirstEntries

(* The invariant holds at the beginning. *)
LEMMA Initially ==
    ASSUME Careful, Init
    PROVE  IInv
<1>1. /\ map = FormattedChain /\ log = <<>> /\ root = 0 /\ rootDirty = FALSE /\ sumDirty = FALSE
      /\ serial = [i \in Elem |-> 1] /\ prog = <<>> /\ phase = "run" /\ overflowing = FALSE
  BY DEF Init
<1>2. map \in Maps /\ isPlausible(map)
  BY <1>1, FormattedMaps
<1>3. /\ Chained(flash, path, map) /\ MapOf(flash, path) = map /\ path \in [Elem -> Spot]
      /\ Index(flash, path).root = 0 /\ \A i \in Elem : At(flash, path[i]).no = 1
  BY InitChained DEF Careful
<1>4. /\ <<>> \in Seq(LogEntry) /\ Replayed(map, <<>>) = map /\ ReplayedRoot(root, <<>>) = root
      /\ ~ ReplayedSumDirty(<<>>)
  BY <1>2, NothingLogged
<1>5. flash = [pos \in Pos |-> [p \in Page |-> flash[pos][p]]]
  BY FormattedFlash DEF Careful
<1>6. 0 \in 0 .. Roots - 1
  BY ChainAssumption
<1>7. Types
  BY <1>1, <1>2, <1>3, <1>4, <1>5, <1>6 DEF Types
<1>8. Settled
  BY <1>1, <1>4 DEF Settled
<1>9. Serials
  BY <1>1, <1>3 DEF Serials
<1>10. Sound
  BY <1>1, <1>2, <1>3, <1>4, <1>9 DEF Sound
<1>11. QED
  BY <1>1, <1>7, <1>8, <1>10 DEF IInv, InCall

-----------------------------------------------------------------------------
(* Every step *)

(* A step of a running call keeps the invariant. *)
LEMMA StepKept ==
    ASSUME Careful, IInv, Step
    PROVE  IInv'
<1>1. CASE StepLog
  BY <1>1, LogKept
<1>2. CASE StepInsert
  BY <1>2, InsertKept
<1>3. CASE StepErase
  BY <1>3, EraseKept
<1>4. CASE StepWrite
  BY <1>4, WriteKept
<1>5. CASE StepWriteIndex
  BY <1>5, WriteKept
<1>6. CASE StepRoot
  BY <1>6, RootStepKept
<1>7. CASE StepCommitted
  BY <1>7, CommittedStepKept
<1>8. CASE StepReread
  BY <1>8, RereadKept
<1>9. CASE StepClear
  BY <1>9, ClearKept
<1>10. QED
  BY <1>1, <1>2, <1>3, <1>4, <1>5, <1>6, <1>7, <1>8, <1>9 DEF Step

(* Nothing changes where nothing happens. *)
LEMMA StutterKept ==
    ASSUME IInv, UNCHANGED vars
    PROVE  IInv'
<1>1. UNCHANGED <<flash, map, log, root, rootDirty, sumDirty, path, serial, prog, phase, overflowing>>
  BY DEF vars
<1>2. Types' /\ Settled'
  BY <1>1, SettledSame DEF IInv, Types, Quiet
<1>3. Sound => Sound'
  BY <1>1 DEF Sound, Serials, isPlausible, InUse
<1>4. InCall => InCall'
  BY <1>1, <1>3 DEF InCall, Registering, Taking, Releasing, Beginning, Previous, Inserting, Appending
<1>5. InCommit => InCommit'
  <2> SUFFICES ASSUME InCommit
               PROVE  InCommit'
    OBVIOUS
  <2>1. PICK i \in Elem, s \in [Elem -> Spots], u \in 0 .. AreasNo, next \in Pos :
            \/ Stays(i, s, u, next)
            \/ \E m \in Maps, a \in Area : Moves(i, s, m, u, next, a)
    BY DEF InCommit
  <2>2. Stays(i, s, u, next) => Stays(i, s, u, next)'
    BY <1>1, PendingSame DEF Stays, Inserting, Appending, Erasing, Restarting
  <2>3. \A m \in Maps, a \in Area : Moves(i, s, m, u, next, a) => Moves(i, s, m, u, next, a)'
    BY <1>1, PendingSame DEF Moves, Settling, Erasing
  <2>4. overflowing' = TRUE
    BY <1>1 DEF InCommit
  <2>5. QED
    BY <2>1, <2>2, <2>3, <2>4 DEF InCommit
<1>6. Committed => Committed'
  BY <1>1, DoneSame DEF Committed
<1>7. Reread => Reread'
  BY <1>1, <1>3 DEF Reread
<1>8. QED
  BY <1>2, <1>4, <1>5, <1>6, <1>7 DEF IInv

(* Every step of the superblock keeps the invariant. *)
LEMMA NextKept ==
    ASSUME Careful, IInv, [Next]_vars
    PROVE  IInv'
<1>1. CASE Step
  BY <1>1, StepKept
<1>2. CASE RegisterRoot
  BY <1>2, RegisterRootKept
<1>3. CASE \E a \in Area : Take(a) \/ Release(a)
  BY <1>3, TakeKept, ReleaseKept
<1>4. CASE Flush
  BY <1>4, FlushKept
<1>5. CASE PowerLoss
  BY <1>5, PowerLossKept
<1>6. CASE UNCHANGED vars
  BY <1>6, StutterKept
<1>7. QED
  BY <1>1, <1>2, <1>3, <1>4, <1>5, <1>6 DEF Next

(* With pages, blocks and losses of power as Careful says, the program is
   always in one of the stages of its calls, with flash, map and log as they
   should be there. *)
THEOREM ChainInvariant ==
    ASSUME Careful
    PROVE  Spec => []IInv
<1>1. Init => IInv
  BY Initially
<1>2. IInv /\ [Next]_vars => IInv'
  BY NextKept
<1>3. QED
  BY <1>1, <1>2, PTL DEF Spec

-----------------------------------------------------------------------------
(* What the rest of the file system sees *)

Nothing == [ask |-> "nothing"]

(* What a call asks for is told by its next instruction. *)
LEMMA AskedFor ==
    ASSUME phase = "run"
    PROVE  /\ prog = <<>> => Asked = Nothing
           /\ prog # <<>> /\ Head(prog).do \notin {"rootnode", "log"} => Asked = Nothing
           /\ prog # <<>> /\ Head(prog) \in {Log(<<PageStatus>>), Log(<<SumCheckpoint>>), Ignoring} =>
                 Asked = Nothing
           /\ \A a, m : prog # <<>> /\ Head(prog) \in {Leaving(a), Entering(m, a)} => Asked = Nothing
           /\ \A a, m : prog # <<>> /\ Head(prog) = Log(TakeEntries(m, a)) =>
                 Asked = [ask |-> "take", area |-> a]
           /\ \A a, m : prog # <<>> /\ Head(prog) = Log(ReleaseEntries(m, a)) =>
                 Asked = [ask |-> "release", area |-> a]
           /\ \A r : prog # <<>> /\ Head(prog) = [do |-> "rootnode", root |-> r] =>
                 Asked = [ask |-> "root", root |-> r]
<1> DEFINE Says(l) ==
              LET first == l[1] last == Last(l)
              IN  IF first.op = "type" /\ first.type = "data" THEN [ask |-> "take", area |-> first.area]
                  ELSE IF first.op = "status" /\ last.op = "usedAreas"
                  THEN [ask |-> "release", area |-> first.area]
                  ELSE [ask |-> "nothing"]
<1>1. /\ prog = <<>> => Asked = Nothing
      /\ prog # <<>> /\ Head(prog).do \notin {"rootnode", "log"} => Asked = Nothing
      /\ \A r : prog # <<>> /\ Head(prog) = [do |-> "rootnode", root |-> r] =>
            Asked = [ask |-> "root", root |-> r]
  BY DEF Asked, Nothing
<1>2. \A l : prog # <<>> /\ Head(prog) = Log(l) => Asked = Says(l)
  BY DEF Asked, Log
<1>3. \A e : <<e>>[1] = e /\ Last(<<e>>) = e
  BY DEF Last
<1>4. \A e : (e.op = "type" => e.type # "data") /\ e.op # "status" => Says(<<e>>) = Nothing
  BY <1>3 DEF Nothing
<1>5. \A a : Says(<<Status(a, "empty")>>) = Nothing
  <2> TAKE a
  <2> DEFINE e == Status(a, "empty")
  <2>1. e.op = "status"
    BY DEF Status
  <2> HIDE DEF e
  <2>2. Says(<<e>>) = Nothing
    BY <2>1, <1>3 DEF Nothing
  <2>3. QED
    BY <2>2 DEF e
<1>6. /\ Says(<<PageStatus>>) = Nothing /\ Says(<<SumCheckpoint>>) = Nothing
      /\ Says(<<ActiveArea("superblock", 0)>>) = Nothing
  BY <1>4 DEF PageStatus, SumCheckpoint, ActiveArea
<1>7. \A a, n : Says(<<Type(a, "superblock"), UsedAreas(n), ActiveArea("superblock", a)>>) = Nothing
  <2> TAKE a, n
  <2> DEFINE l == <<Type(a, "superblock"), UsedAreas(n), ActiveArea("superblock", a)>>
  <2>1. l[1].op = "type" /\ l[1].type = "superblock"
    BY DEF Type
  <2> HIDE DEF l
  <2>2. Says(l) = Nothing
    BY <2>1 DEF Nothing
  <2>3. QED
    BY <2>2 DEF l
<1>8. \A a, n : Says(<<Type(a, "data"), UsedAreas(n), Status(a, "closed"), PageStatus>>) =
                  [ask |-> "take", area |-> a]
  <2> TAKE a, n
  <2> DEFINE l == <<Type(a, "data"), UsedAreas(n), Status(a, "closed"), PageStatus>>
  <2>1. l[1].op = "type" /\ l[1].type = "data" /\ l[1].area = a
    BY DEF Type
  <2> HIDE DEF l
  <2>2. Says(l) = [ask |-> "take", area |-> a]
    BY <2>1
  <2>3. QED
    BY <2>2 DEF l
<1>9. \A a, n : Says(<<Status(a, "empty"), Type(a, "unset"), UsedAreas(n)>>) =
                  [ask |-> "release", area |-> a]
  <2> TAKE a, n
  <2> DEFINE l == <<Status(a, "empty"), Type(a, "unset"), UsedAreas(n)>>
  <2>1. l[1].op = "status" /\ l[1].area = a
    BY DEF Status
  <2>2. Last(l).op = "usedAreas"
    BY DEF Last, UsedAreas
  <2> HIDE DEF l
  <2>3. Says(l) = [ask |-> "release", area |-> a]
    BY <2>1, <2>2
  <2>4. QED
    BY <2>3 DEF l
<1> HIDE DEF Says
<1>10. prog # <<>> /\ Head(prog) \in {Log(<<PageStatus>>), Log(<<SumCheckpoint>>), Ignoring} =>
          Asked = Nothing
  BY <1>2, <1>6 DEF Ignoring
<1>11. \A a, m : prog # <<>> /\ Head(prog) \in {Leaving(a), Entering(m, a)} => Asked = Nothing
  BY <1>2, <1>5, <1>7 DEF Leaving, Entering
<1>12. \A a, m : prog # <<>> /\ Head(prog) = Log(TakeEntries(m, a)) =>
          Asked = [ask |-> "take", area |-> a]
  BY <1>2, <1>8 DEF TakeEntries
<1>13. \A a, m : prog # <<>> /\ Head(prog) = Log(ReleaseEntries(m, a)) =>
          Asked = [ask |-> "release", area |-> a]
  BY <1>2, <1>9 DEF ReleaseEntries
<1>14. QED
  BY <1>1, <1>10, <1>11, <1>12, <1>13

(* What is left of a release asks for nothing more. *)
LEMMA NotingAsks ==
    phase = "run" /\ prog = Noting => Asked = Nothing
BY AskedFor, Heads DEF Noting

(* What is logged, stage by stage. *)
LEMMA LogStages ==
    ASSUME IInv, prog # <<>>, Head(prog).do = "log"
    PROVE  \/ Sound /\ Head(prog) = Log(<<PageStatus>>) /\ (Registering \/ prog = Noting)
           \/ Sound /\ Taking
           \/ Sound /\ Releasing
           \/ Head(prog) = Log(<<SumCheckpoint>>)
           \/ \E i \in Elem, s \in [Elem -> Spots], u \in 0 .. AreasNo, next \in Pos,
                 m \in Maps, a \in Area : Moves(i, s, m, u, next, a)
<1>1. Types
  BY DEF IInv
<1>2. CASE InCall
  <2>1. ~ Beginning
    BY <1>1, Stages
  <2>2. Registering \/ prog = Noting => Head(prog) = Log(<<PageStatus>>)
    BY <1>1, Stages
  <2>3. QED
    BY <1>2, <2>1, <2>2 DEF InCall
<1>3. CASE InCommit
  <2>1. \A i, s, u, next : ~ Stays(i, s, u, next)
    BY <1>1, Stages
  <2>2. QED
    BY <1>3, <2>1 DEF InCommit
<1>4. CASE Committed
  BY <1>1, <1>4, Stages DEF Committed
<1>5. CASE Reread
  BY <1>1, <1>5, Stages DEF Reread
<1>6. QED
  BY <1>2, <1>3, <1>4, <1>5 DEF IInv

(* Only the stages that register, take or release ask for something. *)
LEMMA Asking ==
    ASSUME IInv
    PROVE  /\ Asked \in Register!Request \cup {Nothing}
           /\ Asked # Nothing => prog # <<>> /\ Head(prog).do \in {"rootnode", "log"}
<1>1. Types /\ phase = "run"
  BY DEF IInv, Types
<1>2. CASE prog = <<>> \/ (prog # <<>> /\ Head(prog).do \notin {"rootnode", "log"})
  BY <1>1, <1>2, AskedFor
<1>3. CASE prog # <<>> /\ Head(prog).do = "rootnode"
  <2>1. PICK r \in 0 .. Roots - 1 : Head(prog) = [do |-> "rootnode", root |-> r]
    BY <1>3, RootStage
  <2>2. Asked = [ask |-> "root", root |-> r]
    BY <1>1, <1>3, <2>1, AskedFor
  <2>3. QED
    BY <1>3, <2>2 DEF Register!Request
<1>4. CASE prog # <<>> /\ Head(prog).do = "log"
  <2>1. CASE Head(prog) \in {Log(<<PageStatus>>), Log(<<SumCheckpoint>>)}
    BY <1>1, <1>4, <2>1, AskedFor
  <2>2. CASE Taking
    <3>1. PICK a \in Area : prog = <<Log(TakeEntries(map, a))>>
      BY <2>2 DEF Taking
    <3>2. Head(prog) = Log(TakeEntries(map, a))
      BY <3>1, Heads
    <3>3. Asked = [ask |-> "take", area |-> a]
      BY <1>1, <1>4, <3>2, AskedFor
    <3>4. QED
      BY <1>4, <3>3 DEF Register!Request
  <2>3. CASE Releasing
    <3>1. PICK a \in Area : prog = Cons(Log(ReleaseEntries(map, a)), Noting)
      BY <2>3 DEF Releasing
    <3>2. Head(prog) = Log(ReleaseEntries(map, a))
      <4> DEFINE e == Log(ReleaseEntries(map, a))
      <4>1. IsProgram(Noting)
        BY NamedPrograms DEF Noting
      <4> HIDE DEF e
      <4>2. Head(Cons(e, Noting)) = e
        BY <4>1, Programs
      <4>3. QED
        BY <4>2, <3>1 DEF e
    <3>3. Asked = [ask |-> "release", area |-> a]
      BY <1>1, <1>4, <3>2, AskedFor
    <3>4. QED
      BY <1>4, <3>3 DEF Register!Request
  <2>4. CASE \E i \in Elem, s \in [Elem -> Spots], u \in 0 .. AreasNo, next \in Pos,
                m \in Maps, a \in Area : Moves(i, s, m, u, next, a)
    <3>1. PICK i \in Elem, s \in [Elem -> Spots], u \in 0 .. AreasNo, next \in Pos,
               m \in Maps, a \in Area : Moves(i, s, m, u, next, a)
      BY <2>4
    <3>2. \/ Head(prog) = Leaving(AreaOn(path[i].pos)) \/ Head(prog) = Entering(m, a)
          \/ Head(prog) = Ignoring
      BY <1>4, <3>1, MoveHeads
    <3>3. QED
      BY <1>1, <1>4, <3>2, AskedFor
  <2>5. QED
    BY <1>4, <2>1, <2>2, <2>3, <2>4, LogStages
<1>5. QED
  BY <1>2, <1>3, <1>4

(* Steps that leave data areas and root node alone: the file system sees
   nothing, or a request. *)
LEMMA Unseen ==
    ASSUME IInv, IInv', Asked = Nothing \/ prog' = <<>>,
           DataAreas(map') = DataAreas(map), root' = root
    PROVE  Register!Next
<1>1. phase' = "run"
  BY DEF IInv, Types
<1>2. Asked' \in Register!Request \cup {Nothing}
  <2>1. Asked \in Register!Request \cup {Nothing}
    BY Asking
  <2>2. IInv' => (Asked \in Register!Request \cup {Nothing})'
    BY Asking, PTL
  <2>3. Register!Request' = Register!Request
    BY DEF Register!Request
  <2>4. QED
    BY <2>2, <2>3
<1>3. prog' = <<>> => Asked' = Nothing
  <2>1. (phase = "run" /\ prog = <<>> => Asked = Nothing)'
    BY AskedFor, PTL
  <2>2. QED
    BY <2>1, <1>1
<1>4. CASE Asked' = Nothing
  BY <1>4 DEF Register!Next, Register!Lose, Register!Nothing, Nothing
<1>5. CASE Asked' \in Register!Request
  <2>1. Asked' # Nothing
    BY <1>5 DEF Register!Request, Nothing
  <2>2. Asked = Nothing
    BY <2>1, <1>3
  <2>3. QED
    BY <2>2, <1>5 DEF Register!Next, Register!Ask, Register!Nothing, Nothing
<1>6. QED
  BY <1>2, <1>4, <1>5

(* What is logged is what was asked for, or nothing the file system sees. *)
LEMMA LogSeen ==
    ASSUME IInv, StepLog
    PROVE  Register!Next
<1>1. Types /\ Settled /\ prog # <<>> /\ Head(prog).do = "log" /\ phase = "run" /\ root' = root
  BY DEF IInv, Types, StepLog, Running
<1>2. IInv' /\ phase' = "run"
  <2>1. IInv'
    BY LogKept
  <2>2. QED
    BY <2>1 DEF IInv, Types
<1>3. CASE Sound /\ Head(prog) = Log(<<PageStatus>>)
  <2>1. map' = map
    BY <1>1, <1>3, PageLogged
  <2>2. Asked = Nothing
    BY <1>1, <1>3, AskedFor
  <2>3. QED
    BY <2>1, <2>2, <1>1, <1>2, Unseen
<1>4. CASE Sound /\ Taking
  <2>1. PICK a \in Area : map.status[a] = "empty" /\ a # Previous /\ prog = <<Log(TakeEntries(map, a))>>
    BY <1>4 DEF Taking
  <2>2. Head(prog) = Log(TakeEntries(map, a)) /\ Tail(prog) = <<>>
    BY <2>1, Heads
  <2>3. prog' = <<>> /\ Sets(map, map', a, "data", "closed")
    BY <1>1, <1>4, <2>1, <2>2, AreaTaken
  <2>4. Asked = [ask |-> "take", area |-> a]
    BY <1>1, <2>2, AskedFor
  <2>5. Asked' = Nothing
    <3>1. (phase = "run" /\ prog = <<>> => Asked = Nothing)'
      BY AskedFor, PTL
    <3>2. QED
      BY <3>1, <2>3, <1>2
  <2>6. a \notin DataAreas(map)
    BY <2>1 DEF DataAreas
  <2>7. DataAreas(map') = DataAreas(map) \cup {a}
    <3>1. \A b \in Area : b \in DataAreas(map') <=> b \in DataAreas(map) \/ b = a
      BY <2>3 DEF Sets, DataAreas
    <3>2. QED
      BY <3>1 DEF DataAreas
  <2>8. QED
    BY <2>4, <2>5, <2>6, <2>7, <1>1 DEF Register!Next, Register!Take, Register!Nothing, Nothing
<1>5. CASE Sound /\ Releasing
  <2>1. PICK a \in Area : /\ map.status[a] = "closed" /\ map.type[a] = "data"
                          /\ prog = Cons(Log(ReleaseEntries(map, a)), Noting)
    BY <1>5 DEF Releasing
  <2>2. Head(prog) = Log(ReleaseEntries(map, a))
    <3> DEFINE e == Log(ReleaseEntries(map, a))
    <3>1. IsProgram(Noting)
      BY NamedPrograms DEF Noting
    <3> HIDE DEF e
    <3>2. Head(Cons(e, Noting)) = e
      BY <3>1, Programs
    <3>3. QED
      BY <3>2, <2>1 DEF e
  <2>3. prog' = Noting /\ Sets(map, map', a, "unset", "empty")
    BY <1>1, <1>5, <2>1, AreaReleased
  <2>4. Asked = [ask |-> "release", area |-> a]
    BY <1>1, <2>2, AskedFor
  <2>5. Asked' = Nothing
    <3>1. (phase = "run" /\ prog = Noting => Asked = Nothing)'
      BY NotingAsks, PTL
    <3>2. QED
      BY <3>1, <2>3, <1>2
  <2>6. a \in DataAreas(map)
    BY <2>1 DEF DataAreas
  <2>7. DataAreas(map') = DataAreas(map) \ {a}
    <3>1. \A b \in Area : b \in DataAreas(map') <=> b \in DataAreas(map) /\ b # a
      BY <2>3 DEF Sets, DataAreas
    <3>2. QED
      BY <3>1 DEF DataAreas
  <2>8. QED
    BY <2>4, <2>5, <2>6, <2>7, <1>1 DEF Register!Next, Register!Release, Register!Nothing, Nothing
<1>6. CASE Head(prog) = Log(<<SumCheckpoint>>)
  <2>1. map' = map
    BY <1>1, <1>6, RetiredLogged
  <2>2. Asked = Nothing
    BY <1>1, <1>6, AskedFor
  <2>3. QED
    BY <2>1, <2>2, <1>1, <1>2, Unseen
<1>7. CASE \E i \in Elem, s \in [Elem -> Spots], u \in 0 .. AreasNo, next \in Pos,
              m \in Maps, a \in Area : Moves(i, s, m, u, next, a)
  <2>1. PICK i \in Elem, s \in [Elem -> Spots], u \in 0 .. AreasNo, next \in Pos,
             m \in Maps, a \in Area : Moves(i, s, m, u, next, a)
    BY <1>7
  <2>2. DataAreas(map') = DataAreas(map)
    BY <1>1, <2>1, MoveLogged
  <2>3. \/ Head(prog) = Leaving(AreaOn(path[i].pos)) \/ Head(prog) = Entering(m, a)
        \/ Head(prog) = Ignoring
    BY <1>1, <2>1, MoveHeads
  <2>4. Asked = Nothing
    BY <1>1, <2>3, AskedFor
  <2>5. QED
    BY <2>2, <2>4, <1>1, <1>2, Unseen
<1>8. QED
  BY <1>1, <1>3, <1>4, <1>5, <1>6, <1>7, LogStages

(* The root node is set as was asked. *)
LEMMA RootSeen ==
    ASSUME IInv, StepRoot
    PROVE  Register!Next
<1>1. prog # <<>> /\ Head(prog).do = "rootnode" /\ phase = "run" /\ phase' = "run"
      /\ root' = Head(prog).root /\ map' = map /\ prog' = Tail(prog)
  BY DEF IInv, Types, StepRoot, Running
<1>2. PICK r \in 0 .. Roots - 1 : Head(prog) = [do |-> "rootnode", root |-> r] /\ Tail(prog) = <<>>
  BY <1>1, RootStage
<1>3. Asked = [ask |-> "root", root |-> r]
  BY <1>1, <1>2, AskedFor
<1>4. Asked' = Nothing
  <2>1. (phase = "run" /\ prog = <<>> => Asked = Nothing)'
    BY AskedFor, PTL
  <2>2. QED
    BY <2>1, <1>1, <1>2
<1>5. root' = r
  BY <1>1, <1>2
<1>6. QED
  BY <1>1, <1>3, <1>4, <1>5 DEF Register!Next, Register!Register, Register!Nothing, Nothing

(* Every step is one of the register, or not seen at all. *)
LEMMA Seen ==
    ASSUME Careful, IInv, [Next]_vars
    PROVE  [Register!Next]_(Register!vars)
<1>1. IInv'
  BY NextKept
<1>2. CASE StepLog
  BY <1>2, LogSeen
<1>3. CASE StepRoot
  BY <1>3, RootSeen
<1>4. CASE StepInsert \/ StepErase \/ StepWrite \/ StepWriteIndex \/ StepCommitted \/ StepClear
  <2>1. map' = map /\ root' = root /\ Head(prog).do \notin {"rootnode", "log"}
    BY <1>4 DEF StepInsert, StepErase, StepWrite, StepWriteIndex, StepCommitted, StepClear, Running
  <2>2. Asked = Nothing
    BY <2>1, Asking
  <2>3. QED
    BY <2>1, <2>2, <1>1, Unseen
<1>5. CASE StepReread
  <2>1. root' = root /\ map'.type = map.type /\ map'.status = map.status
    BY <1>5, RereadKept
  <2>2. DataAreas(map') = DataAreas(map)
    BY <2>1 DEF DataAreas
  <2>3. Head(prog).do = "reread"
    BY <1>5 DEF StepReread, Running
  <2>4. Asked = Nothing
    BY <2>3, Asking
  <2>5. QED
    BY <2>1, <2>2, <2>4, <1>1, Unseen
<1>6. CASE RegisterRoot \/ (\E a \in Area : Take(a) \/ Release(a)) \/ Flush
  <2>1. prog = <<>> /\ map' = map /\ root' = root
    BY <1>6 DEF RegisterRoot, Take, Release, Flush, Start, Idle
  <2>2. Asked = Nothing
    BY <2>1, Asking
  <2>3. QED
    BY <2>1, <2>2, <1>1, Unseen
<1>7. CASE PowerLoss
  <2>1. map' = map /\ root' = root
    BY <1>7, PowerLossKept
  <2>2. prog' = <<>>
    BY <1>7 DEF PowerLoss
  <2>3. QED
    BY <2>1, <2>2, <1>1, Unseen
<1>8. CASE UNCHANGED vars
  BY <1>8 DEF vars, Register!vars, Asked, DataAreas
<1>9. QED
  BY <1>2, <1>3, <1>4, <1>5, <1>6, <1>7, <1>8 DEF Next, Step

(* The superblock keeps what its users ask of it: root node and data areas
   change as they were asked to, and neither commits nor moves of the chain nor
   losses of power show. *)
THEOREM ChainImplementsRegister ==
    ASSUME Careful
    PROVE  Spec => ImplementsRegister
<1>1. Init => Register!Init
  <2> SUFFICES ASSUME Init
               PROVE  Register!Init
    OBVIOUS
  <2>1. IInv /\ prog = <<>> /\ root = 0
    BY Initially DEF Init
  <2>2. Asked = Nothing
    BY <2>1, Asking
  <2>3. root \in 0 .. Roots - 1 /\ DataAreas(map) \subseteq Area
    BY <2>1 DEF IInv, Types, DataAreas
  <2>4. QED
    BY <2>2, <2>3 DEF Register!Init, Register!Nothing, Nothing
<1>2. IInv /\ [Next]_vars => [Register!Next]_(Register!vars)
  BY Seen
<1>3. QED
  BY <1>1, <1>2, ChainInvariant, PTL DEF Spec, ImplementsRegister, Register!Spec

-----------------------------------------------------------------------------
(* What the superblock promises, for every number of areas, blocks, pages and
   root nodes *)

(* The checks of the superblock never find a superindex that is not plausible,
   an entry outside of the superblock's areas, or none where one was written. *)
THEOREM ChecksAlwaysPass ==
    ASSUME Careful
    PROVE  Spec => []ChecksPass
<1>1. IInv => ChecksPass
  BY DEF IInv, Types, ChecksPass
<1>2. QED
  BY <1>1, ChainInvariant, PTL

(* Every page of anchor, jump pad and superindex is erased when it is written. *)
THEOREM ErasedBeforeWritten ==
    ASSUME Careful
    PROVE  Spec => []WritesHitErasedPages
<1>1. IInv => WritesHitErasedPages
  BY WrittenErased DEF WritesHitErasedPages, PageErased, Running
<1>2. QED
  BY <1>1, ChainInvariant, PTL

(* A mount never fails, and between calls it finds what is in memory. *)
THEOREM MountLosesNothing ==
    ASSUME Careful
    PROVE  Spec => []MountFindsAll
<1>1. IInv => MountFindsAll
  <2> SUFFICES ASSUME IInv
               PROVE  MountFindsAll
    OBVIOUS
  <2>1. Mountable
    BY DEF IInv, Types, Mountable
  <2>2. ASSUME Idle
        PROVE  LET m == MountFrom(flash, log)
               IN  m # NotFound /\ m.map = map /\ m.root = root /\ m.path = path
    <3> DEFINE n == [kind |-> "mounted", path |-> path, map |-> map, root |-> root]
    <3>1. /\ Chained(flash, path, map) /\ Replayed(MapOf(flash, path), log) = map
          /\ ReplayedRoot(Index(flash, path).root, log) = root
      BY <2>2, IdleSound DEF Idle, Sound
    <3>2. MountFrom(flash, log) = n
      BY <3>1, MountIs
    <3>3. n # NotFound
      BY Found
    <3>4. n.map = map /\ n.root = root /\ n.path = path
      OBVIOUS
    <3> HIDE DEF n
    <3>5. QED
      BY <3>2, <3>3, <3>4
  <2>3. QED
    BY <2>1, <2>2 DEF MountFindsAll
<1>2. QED
  BY <1>1, ChainInvariant, PTL

(* Between calls, the areas of the chain belong to the superblock. *)
THEOREM ChainIsKeptOut ==
    ASSUME Careful
    PROVE  Spec => []ChainKeepsOut
<1>1. IInv => ChainKeepsOut
  <2> SUFFICES ASSUME IInv, Idle, NEW i \in Elem
               PROVE  /\ map.type[Logical(path[i].pos)] = "superblock"
                      /\ map.status[Logical(path[i].pos)] = "active"
    BY DEF ChainKeepsOut
  <2>1. map \in Maps /\ Homes(map, path)
    BY IdleSound DEF Idle, Types, Sound, Chained
  <2>2. Logical(path[i].pos) = AreaOn(path[i].pos)
    BY <2>1 DEF Logical, AreaOn, Maps
  <2>3. QED
    BY <2>1, <2>2 DEF Homes
<1>2. QED
  BY <1>1, ChainInvariant, PTL

(* A log that is about to be cleared says nothing that the superindex does not. *)
THEOREM LogClearedWhenCovered ==
    ASSUME Careful
    PROVE  Spec => []ClearedIsCovered
<1>1. IInv => ClearedIsCovered
  <2> SUFFICES ASSUME IInv, Running("clear")
               PROVE  LET m == MountFrom(flash, <<>>) n == MountFrom(flash, log)
                      IN  m # NotFound /\ DataAreas(m.map) = DataAreas(n.map) /\ m.root = n.root
    BY DEF ClearedIsCovered
  <2>1. Reread
    BY ClearStage DEF Running
  <2>2. /\ Chained(flash, path, map) /\ map \in Maps
        /\ MapOf(flash, path) = map /\ Replayed(map, log) = map
        /\ Index(flash, path).root = root /\ ReplayedRoot(root, log) = root
    BY <2>1 DEF Reread, Sound, IInv, Types
  <2>3. Replayed(map, <<>>) = map /\ ReplayedRoot(root, <<>>) = root
    BY <2>2, NothingLogged
  <2> DEFINE n == [kind |-> "mounted", path |-> path, map |-> map, root |-> root]
  <2>4. MountFrom(flash, log) = n /\ MountFrom(flash, <<>>) = n
    BY <2>2, <2>3, MountIs
  <2>5. n # NotFound
    BY Found
  <2> HIDE DEF n
  <2>6. QED
    BY <2>4, <2>5
<1>2. QED
  BY <1>1, ChainInvariant, PTL

(* Between calls the number of used areas is the number of areas in use. *)
THEOREM UsedAlwaysTrue ==
    ASSUME Careful
    PROVE  Spec => []UsedIsTrue
<1>1. IInv => UsedIsTrue
  BY IdleSound DEF UsedIsTrue, Idle, Sound
<1>2. QED
  BY <1>1, ChainInvariant, PTL

(* Reading the superindex again after a commit leaves data areas and root node
   as they were. *)
THEOREM RereadAlwaysKeepsData ==
    ASSUME Careful
    PROVE  Spec => RereadKeepsData
<1>1. IInv /\ [Next]_vars =>
        [Running("reread") /\ phase' = "run" => DataAreas(map') = DataAreas(map) /\ root' = root]_vars
  <2> SUFFICES ASSUME IInv, Next, Running("reread")
               PROVE  DataAreas(map') = DataAreas(map) /\ root' = root
    OBVIOUS
  <2>1. prog # <<>> /\ Head(prog).do = "reread"
    BY DEF Running
  <2>2. CASE Step
    <3>1. StepReread
      BY <2>1, <2>2 DEF Step, StepLog, StepInsert, StepErase, StepWrite, StepWriteIndex, StepRoot,
                        StepCommitted, StepClear, Running
    <3>2. root' = root /\ map'.type = map.type /\ map'.status = map.status
      BY <3>1, RereadKept
    <3>3. QED
      BY <3>2 DEF DataAreas
  <2>3. CASE PowerLoss
    BY <2>3, PowerLossKept
  <2>4. ~ RegisterRoot /\ ~ (\E a \in Area : Take(a) \/ Release(a)) /\ ~ Flush
    BY <2>1 DEF RegisterRoot, Take, Release, Flush, Start, Idle
  <2>5. QED
    BY <2>2, <2>3, <2>4 DEF Next
<1>2. QED
  BY <1>1, ChainInvariant, PTL DEF Spec, RereadKeepsData

-----------------------------------------------------------------------------
(* Serial numbers and the number of used areas are bounded *)

Bounds ==
    /\ map.used <= AreasNo + 2
    /\ \A i \in Elem : serial[i] <= BlocksPerArea * PagesPerBlock

(* Where the log and the superindex say all, both numbers are what the areas
   in use and the pages of an area allow. *)
LEMMA SoundBounds ==
    ASSUME Types, Sound
    PROVE  Bounds
<1>1. map \in Maps /\ path \in [Elem -> Spot] /\ AreasNo \in Nat /\ BlocksPerArea * PagesPerBlock \in Nat
  BY AreasAssumption, ChainAssumption DEF Types
<1>2. map.used <= AreasNo + 2
  <2>1. Count(map) \in 0 .. AreasNo
    BY <1>1, Counting
  <2>2. map.used \in 0 .. AreasNo
    BY <2>1 DEF Sound, isPlausible, Count
  <2>3. QED
    BY <2>2, <1>1
<1>3. ASSUME NEW i \in Elem
      PROVE  serial[i] <= BlocksPerArea * PagesPerBlock
  <2>1. path[i] \in Spot /\ path[i] # NotFound
    BY <1>1 DEF Spot, NotFound
  <2>2. Filled(flash, path[i].pos, path[i].page) /\ path[i].page \in Page
    BY <2>1 DEF Sound, Chained, Lies, Spot
  <2>3. PICK p \in Page : p = path[i].page
    BY <2>2
  <2>4. p \in Nat /\ p + 1 <= BlocksPerArea * PagesPerBlock
    BY <1>1 DEF Page
  <2>5. p \in Written(p)
    BY <2>4 DEF Written
  <2>6. flash[path[i].pos][p].no \in 0 .. p + 1
    BY <2>2, <2>3, <2>5 DEF Filled
  <2>7. serial[i] = flash[path[i].pos][p].no
    BY <2>3 DEF Sound, Serials, At
  <2>8. QED
    BY <1>1, <2>4, <2>6, <2>7
<1>4. QED
  BY <1>2, <1>3 DEF Bounds

(* While an element moves, at most one area more is counted than before. *)
LEMMA MoveBounds ==
    ASSUME NEW i \in Elem, NEW s \in [Elem -> Spots], NEW m \in Maps, NEW u \in 0 .. AreasNo,
           NEW next, NEW a \in Area
    PROVE  Types /\ Moves(i, s, m, u, next, a) => map.used <= AreasNo + 2
<1> SUFFICES ASSUME Types, Moves(i, s, m, u, next, a)
             PROVE  map.used <= AreasNo + 2
  OBVIOUS
<1>1. i \in {1, 2} /\ AreasNo \in Nat /\ Pending(i, s, m, u, next)
  BY AreasAssumption, MovesIs DEF Elem
<1>2. m.used \in Nat /\ m.used <= u + 1
  BY <1>1 DEF Pending, Maps
<1>3. PICK old \in Area : old = AreaOn(path[i].pos)
  BY Positions DEF Types, Spot
<1>4. map \in {m, Without(m, old), Entered(m, old, a), Moved(m, old, a)}
  BY <1>3, MovesIs DEF MovesAt
<1>5. Without(m, old).used = m.used
  BY DEF Without, Maps
<1>6. Moved(m, old, a).used = m.used + 1 /\ Entered(m, old, a) \in Maps
  BY MoveMaps DEF IsMoved
<1>7. Entered(m, old, a).used = m.used + 1
  BY <1>6 DEF Moved, setActiveArea, Maps
<1>8. QED
  BY <1>1, <1>2, <1>4, <1>5, <1>6, <1>7

(* No step leads out of the bounds. *)
LEMMA BoundsKept ==
    ASSUME Careful, IInv, Bounds, [Next]_vars
    PROVE  Bounds'
<1>1. IInv' /\ Types /\ Types' /\ Settled
  BY NextKept DEF IInv
<1>2. Types' /\ Sound' => Bounds'
  BY SoundBounds, PTL
<1>3. CASE StepReread
  BY <1>1, <1>2, <1>3, RereadKept
<1>4. CASE PowerLoss
  <2>1. prog' = <<>>
    BY <1>4 DEF PowerLoss
  <2>2. (IInv /\ prog = <<>> => Types /\ Settled /\ Sound /\ overflowing = FALSE)'
    BY IdleSound, PTL
  <2>3. QED
    BY <1>1, <1>2, <2>1, <2>2
<1>5. ASSUME map'.used = map.used, serial' = serial
      PROVE  Bounds'
  BY <1>5 DEF Bounds
<1>6. CASE StepLog
  <2>1. serial' = serial /\ prog # <<>> /\ Head(prog).do = "log"
    BY <1>6 DEF StepLog, Running
  <2>2. CASE Sound /\ Head(prog) = Log(<<PageStatus>>)
    BY <1>1, <1>2, <1>6, <2>2, PageLogged
  <2>3. CASE Sound /\ Taking
    <3>1. PICK a \in Area : map.status[a] = "empty" /\ a # Previous /\ prog = <<Log(TakeEntries(map, a))>>
      BY <2>3 DEF Taking
    <3>2. Head(prog) = Log(TakeEntries(map, a))
      BY <3>1, Heads
    <3>3. QED
      BY <1>1, <1>2, <1>6, <2>3, <3>1, <3>2, AreaTaken
  <2>4. CASE Sound /\ Releasing
    BY <1>1, <1>2, <1>6, <2>4, AreaReleased DEF Releasing
  <2>5. CASE Head(prog) = Log(<<SumCheckpoint>>)
    <3>1. map' = map
      BY <1>1, <1>6, <2>5, RetiredLogged
    <3>2. QED
      BY <3>1, <2>1, <1>5
  <2>6. ASSUME NEW i \in Elem, NEW s \in [Elem -> Spots], NEW u \in 0 .. AreasNo, NEW next \in Pos,
               NEW m \in Maps, NEW a \in Area, Moves(i, s, m, u, next, a)
        PROVE  Bounds'
    <3>1. Moves(i, s, m, u, next, a)'
      BY <1>1, <1>6, <2>6, MoveLogged
    <3>2. (Types /\ Moves(i, s, m, u, next, a) => map.used <= AreasNo + 2)'
      BY MoveBounds, PTL
    <3>3. map'.used <= AreasNo + 2
      BY <1>1, <3>1, <3>2
    <3>4. QED
      BY <3>3, <2>1 DEF Bounds
  <2>7. QED
    BY <1>1, <2>1, <2>2, <2>3, <2>4, <2>5, <2>6, LogStages
<1>7. CASE StepInsert \/ StepErase \/ StepWrite \/ StepWriteIndex \/ StepRoot \/ StepCommitted \/ StepClear
  BY <1>5, <1>7 DEF StepInsert, StepErase, StepWrite, StepWriteIndex, StepRoot, StepCommitted, StepClear
<1>8. CASE RegisterRoot \/ (\E a \in Area : Take(a) \/ Release(a)) \/ Flush
  BY <1>5, <1>8 DEF RegisterRoot, Take, Release, Flush, Start
<1>9. CASE UNCHANGED vars
  BY <1>5, <1>9 DEF vars
<1>10. QED
  BY <1>3, <1>4, <1>6, <1>7, <1>8, <1>9 DEF Next, Step

(* All variables have their types; serial numbers never exceed the number of
   pages of an area, and no more than two areas are ever counted too much. *)
THEOREM TypeCorrect ==
    ASSUME Careful
    PROVE  Spec => []TypeOK
<1>1. Init => Bounds
  <2> SUFFICES ASSUME Init
               PROVE  Bounds
    OBVIOUS
  <2>1. IInv /\ prog = <<>>
    BY Initially DEF Init
  <2>2. QED
    BY <2>1, IdleSound, SoundBounds
<1>2. IInv /\ Bounds /\ [Next]_vars => Bounds'
  BY BoundsKept
<1>3. IInv /\ Bounds => TypeOK
  <2> SUFFICES ASSUME IInv, Bounds
               PROVE  TypeOK
    OBVIOUS
  <2>1. Types /\ AreasNo \in Nat /\ BlocksPerArea * PagesPerBlock \in Nat
    BY AreasAssumption, ChainAssumption DEF IInv
  <2>2. map \in [type : [Area -> AreaType], status : [Area -> AreaStatus],
                 pos : [Area -> Pos], erasecount : [Area -> {0}],
                 active : [AreaType -> Area], used : 0 .. AreasNo + 2, deletions : {0}]
    <3>1. map \in Maps /\ map.used \in 0 .. AreasNo + 2
      BY <2>1 DEF Types, Bounds, Maps
    <3>2. Position \in [Area -> Pos]
      BY ChainAssumption
    <3>3. QED
      BY <3>1, <3>2 DEF Maps
  <2>3. \A i \in Elem : path[i].pos \in Pos /\ path[i].page \in Page
    BY <2>1 DEF Types, Spot
  <2>4. serial \in [Elem -> 0 .. BlocksPerArea * PagesPerBlock]
    BY <2>1 DEF Types, Bounds
  <2>5. QED
    BY <2>1, <2>2, <2>3, <2>4 DEF TypeOK, Types
<1>4. QED
  BY <1>1, <1>2, <1>3, ChainInvariant, PTL DEF Spec

=============================================================================

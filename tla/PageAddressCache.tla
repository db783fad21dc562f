-------------------------- MODULE PageAddressCache --------------------------
(***************************************************************************)
(* The cache of page addresses of one file (pageAddressCache.cpp).  The     *)
(* first addresses of a file are in its inode, the others in lists, which   *)
(* form three trees of one, two and three levels under the inode.  The     *)
(* cache holds one list per level of each tree; a list is written to a     *)
(* fresh index page when it is evicted or committed, and the page it had    *)
(* before is invalidated later, by the page state machine.                  *)
(*                                                                         *)
(* A call of the cache is one action.  A commit and the end of a write     *)
(* take several steps (todo); power may fail before each of them.  A mount  *)
(* replays the log in one step.                                            *)
(***************************************************************************)
EXTENDS Naturals, Sequences, SequencesExt, FiniteSetsExt

CONSTANTS
    Inodes,         \* numbers of the files, from one
    Slots,          \* how many inodes the pool holds
    directAddrCount,
    addrsPerPage,
    Pages,          \* the pages of a file that are written and read
    Data,           \* addresses of data pages
    IndexPages,     \* addresses of index pages
    maxPages,       \* length of the list of the page state machine
    MinFree,        \* bound: free index pages a call starts with
    MaxSets,        \* bound: changes of addresses
    MaxWrite,       \* bound: pages of one write
    MaxLosses,      \* bound: losses of power
    Allowed         \* which of the known wrong turns a run may take

ASSUME CacheAssumption ==
    /\ directAddrCount \in Nat /\ addrsPerPage \in Nat \ {0}
    /\ Pages \subseteq Nat /\ 0 \notin Inodes
    /\ 0 \notin Data \cup IndexPages /\ Data \cap IndexPages = {}

VARIABLES
    slots,          \* the inodes in memory; slot 0 is mJournalInodeCopy, the
                    \* one behind the pool DataIO's journalLastModifiedInode
    target,         \* the slot mInodePtr points to, {} for nullptr
    isInodeDirty,
    elems,          \* the cached lists: singl, doubl and tripl
    replaced,       \* newPageList and oldPageList of the state machine
    tree,           \* the inodes as the tree has them
    base,           \* and as it has them on flash, or before its log
    pages,          \* the index pages
    log,            \* the journal from the last checkpoint of this topic
    write,          \* DataIO's list: the pages set by the call that runs
    heard,          \* DataIO has an update of the tree behind the first of them
    todo,           \* steps the call that runs still has to take
    bugs,           \* assertions of the code that failed
    wanted,         \* for the properties: the addresses that were set
    kept,           \* for the properties: what a loss of power must leave
    sets, losses    \* counters that bound the model

vars == <<slots, target, isInodeDirty, elems, replaced, tree, base, pages,
          log, write, heard, todo, bugs, wanted, kept, sets, losses>>

----------------------------------------------------------------------------
(* Inodes, lists and paths *)

Lost == 99999       \* what a read of an erased page gives

Addr == {0, Lost} \cup Data \cup IndexPages
Positions == 0..(addrsPerPage - 1)
Empty == [k \in Positions |-> 0]
Trees == 0..2
Levels == {e \in Trees \X Trees : e[2] <= e[1]}

NoElem == [cache |-> Empty, pos |-> 0, dirty |-> FALSE, active |-> FALSE]
NoInode == [direct |-> [k \in 0..(directAddrCount - 1) |-> 0],
            indir |-> [t \in Trees |-> 0]]
FreeSlot == [no |-> 0, inode |-> NoInode]

\* How many pages lie under an entry that has n lists below it.
Span == [n \in 0..3 |-> CASE n = 0 -> 1
                          [] n = 1 -> addrsPerPage
                          [] n = 2 -> addrsPerPage * addrsPerPage
                          [] n = 3 -> addrsPerPage * addrsPerPage * addrsPerPage]

\* The first page each tree of lists is responsible for.
First == [t \in 0..3 |-> CASE t = 0 -> directAddrCount
                           [] t = 1 -> directAddrCount + Span[1]
                           [] t = 2 -> directAddrCount + Span[1] + Span[2]
                           [] t = 3 -> directAddrCount + Span[1] + Span[2] + Span[3]]
Indirect == directAddrCount..(First[3] - 1)

TreeOf == [p \in Indirect |-> CHOOSE t \in Trees : First[t] <= p /\ p < First[t + 1]]

\* path of loadPath: the position of page p in the list of every level.
Path == [p \in Indirect |-> [l \in 0..TreeOf[p] |->
    ((p - First[TreeOf[p]]) \div Span[TreeOf[p] - l]) % addrsPerPage]]

\* The operations change a record of all the state they touch.
State == [slots |-> slots, target |-> target, isInodeDirty |-> isInodeDirty,
          elems |-> elems, replaced |-> replaced, tree |-> tree, base |-> base,
          pages |-> pages, log |-> log, write |-> write, heard |-> heard,
          bugs |-> bugs,
          phase |-> "ok", replay |-> FALSE, foreign |-> FALSE]

Target(s) == CHOOSE k \in s.target : TRUE
Inode(s) == s.slots[Target(s)].inode

addEvent(s, e) == IF s.replay THEN s ELSE [s EXCEPT !.log = Append(@, e)]

----------------------------------------------------------------------------
(* Index pages *)

setPageStatus(s, a, status) ==
    IF a = 0
      THEN [s EXCEPT !.bugs = @ \cup {"superblock"}]
      ELSE [s EXCEPT !.pages[a].status = status]

readAddrList(s, from) == IF from = 0 THEN Empty ELSE s.pages[from].list

\* Mutant: The former page of a list is not noted.
Bad_writeAddrList(s, to, from, list) ==
    LET listed == [s EXCEPT !.replaced = Append(@, [new |-> to, old |-> 0]),
                            !.pages[to] = [status |-> "used", list |-> list]]
    IN  addEvent(listed, [op |-> "replace", new |-> to, old |-> 0])

\* A fresh page for list, and its former page on the list of replaced ones.
writeAddrList(s, to, from, list) ==
    LET listed == [s EXCEPT !.replaced = Append(@, [new |-> to, old |-> from]),
                            !.pages[to] = [status |-> "used", list |-> list]]
    IN  addEvent(listed, [op |-> "replace", new |-> to, old |-> from])

FreePages(s) == {a \in IndexPages : s.pages[a].status = "free"}
NextPage(s) == Min(FreePages(s))

loadCacheElem(s, from, e, flipped) ==
    [s EXCEPT !.elems[e].cache = readAddrList(s, from),
              !.elems[e].dirty = flipped, !.elems[e].active = TRUE]

----------------------------------------------------------------------------
(* Lists below a list: commitElem; lists below the inode: commitPath *)

Parent(e) == <<e[1], e[2] - 1>>

\* Where the address of list e is kept, and s with another address there.
Source(s, e) ==
    IF e[2] = 0 THEN Inode(s).indir[e[1]]
                ELSE s.elems[Parent(e)].cache[s.elems[e].pos]

\* Mutant: The list above does not learn that one of its lists moved.
Bad_WithSource(s, e, a) ==
    IF e[2] = 0
      THEN [s EXCEPT !.slots[Target(s)].inode.indir[e[1]] = a]
      ELSE [s EXCEPT !.elems[Parent(e)].cache[s.elems[e].pos] = a]

WithSource(s, e, a) ==
    IF e[2] = 0
      THEN [s EXCEPT !.slots[Target(s)].inode.indir[e[1]] = a]
      ELSE [s EXCEPT !.elems[Parent(e)].cache[s.elems[e].pos] = a,
                     !.elems[Parent(e)].dirty = TRUE]

commitElem(s, e) ==
    LET elem == s.elems[e]
        from == Source(s, e)
        clean(u) == [u EXCEPT !.elems[e].dirty = FALSE]
        deleted == setPageStatus(s, from, "dirty")
        to == NextPage(s)
    IN  CASE ~elem.dirty -> s
          [] elem.dirty /\ ~elem.active /\ e[2] > 0 ->
               [s EXCEPT !.bugs = @ \cup {"inactive"}]
          [] elem.dirty /\ elem.cache = Empty /\ (elem.active \/ e[2] = 0) ->
               IF from = 0 THEN deleted
               ELSE IF e[2] = 0 THEN clean(WithSource(deleted, e, 0))
               ELSE [clean(WithSource(deleted, e, 0))
                       EXCEPT !.elems[e].active = FALSE]
          [] OTHER ->
               clean(WithSource(writeAddrList(s, to, from, elem.cache), e, to))

\* commitPath of every tree, each from its lowest level up.
CommitOrder == <<<<0, 0>>, <<1, 1>>, <<1, 0>>, <<2, 2>>, <<2, 1>>, <<2, 0>>>>

commitPaths(s) == FoldLeft(commitElem, s, CommitOrder)

\* Mutant: The new pages are invalidated instead of the old ones.
Bad_invalidateNewPages(s) ==
    LET new == {s.replaced[k].new : k \in DOMAIN s.replaced}
    IN  [s EXCEPT !.pages = [a \in IndexPages |->
                    IF a \in new THEN [s.pages[a] EXCEPT !.status = "dirty"]
                                 ELSE s.pages[a]],
                  !.replaced = <<>>, !.phase = "ok"]

invalidateOldPages(s) ==
    LET old == {s.replaced[k].old : k \in DOMAIN s.replaced} \ {0}
        dirty == [s EXCEPT !.pages = [a \in IndexPages |->
                    IF a \in old THEN [s.pages[a] EXCEPT !.status = "dirty"]
                                 ELSE s.pages[a]]]
        event == [op |-> "invalidate"]
    IN  [(IF old = {} THEN s ELSE addEvent(dirty, event))
           EXCEPT !.replaced = <<>>, !.phase = "ok"]

updateExistingInode(s) ==
    LET t == Target(s)
        no == s.slots[t].no
    IN  [addEvent(s, [op |-> "tree", no |-> no, inode |-> s.slots[t].inode,
                      flushed |-> FALSE])
           EXCEPT !.tree[no] = s.slots[t].inode]

\* The log before a checkpoint only matters to the tree, which has its own.
Checkpoint(s) ==
    LET clean == [s EXCEPT !.isInodeDirty = FALSE]
    IN  IF s.replay THEN clean ELSE [clean EXCEPT !.log = <<>>, !.base = s.tree]

isDirty(s) == \E e \in Levels : s.elems[e].dirty

CommitTail(s) == Checkpoint(invalidateOldPages(updateExistingInode(s)))

commit(s) ==
    IF ~s.isInodeDirty THEN s
    ELSE LET written == commitPaths(s)
         IN  IF isDirty(written) THEN written ELSE CommitTail(written)

----------------------------------------------------------------------------
(* Reading and setting an address *)

Inactive(s) == [s EXCEPT !.elems = [e \in Levels |->
                           [s.elems[e] EXCEPT !.active = FALSE]]]

\* The inode is in memory at slot k.
setTargetInode(s, k) ==
    IF s.target = {k} THEN s
    ELSE [Inactive(IF isDirty(s) THEN commit(s) ELSE s) EXCEPT !.target = {k}]

\* One level of loadPath: evict the list that is there, load the other one.
loadLevel(s, e, path, flipped) ==
    LET at == path[e[2] - 1]
        evicted == IF s.elems[e].active /\ s.elems[e].pos # at
                     THEN commitElem(s, e) ELSE s
        from == evicted.elems[Parent(e)].cache[at]
    IN  IF evicted.elems[e].active /\ evicted.elems[e].pos = at
          THEN evicted
          ELSE [loadCacheElem(evicted, from, e, flipped) EXCEPT !.elems[e].pos = at]

loadPath(s, p, flipped) ==
    LET t == TreeOf[p]
        top == IF s.elems[<<t, 0>>].active THEN s
               ELSE loadCacheElem(s, Inode(s).indir[t], <<t, 0>>, flipped)
        next(u, l) == loadLevel(u, <<t, l>>, Path[p], flipped)
    IN  FoldLeft(next, top, [l \in 1..t |-> l])

getPage(s, p) ==
    IF p < directAddrCount THEN Inode(s).direct[p]
    ELSE LET t == TreeOf[p]
         IN  loadPath(s, p, FALSE).elems[<<t, t>>].cache[Path[p][t]]

\* The lists a read of page p leaves in the cache.
Loaded(s, p) == IF p < directAddrCount THEN s ELSE loadPath(s, p, FALSE)

SetAddress(s, p, a) ==
    addEvent(s, [op |-> "set", no |-> s.slots[Target(s)].no, page |-> p, addr |-> a])

\* The list of replaced pages might not hold those of another commit.
Crowded(s, p) == p >= directAddrCount /\ maxPages - Len(s.replaced) < 6

setPage(s, p, a) ==
    IF p < directAddrCount
      THEN IF Inode(s).direct[p] = a THEN s
           ELSE [SetAddress(s, p, a)
                   EXCEPT !.slots[Target(s)].inode.direct[p] = a, !.isInodeDirty = TRUE]
      ELSE LET t == TreeOf[p]
               room == IF Crowded(s, p) THEN commit(s) ELSE s
               path == loadPath(room, p, FALSE)
           IN  IF path.elems[<<t, t>>].cache[Path[p][t]] = a THEN path
               ELSE [SetAddress(path, p, a)
                       EXCEPT !.elems[<<t, t>>].cache[Path[p][t]] = a,
                              !.elems[<<t, t>>].dirty = TRUE, !.isInodeDirty = TRUE]

----------------------------------------------------------------------------
(* What a read of any file returns *)

\* The file is read through the cache if it is the target, else from the
\* inode in memory, else from the inode in the tree.
Reader(s, i) ==
    LET open == {k \in 1..Slots : s.slots[k].no = i}
        fresh == Inactive([s EXCEPT !.slots[0] = [no |-> i, inode |-> s.tree[i]]])
    IN  IF s.target # {} /\ s.target = open THEN s
        ELSE IF open # {} THEN [Inactive(s) EXCEPT !.target = open]
        ELSE [fresh EXCEPT !.target = {0}]

addr ==
    [i \in Inodes |-> [p \in Pages |-> getPage(Reader(State, i), p)]]

\* The index pages one leads to from an inode.
Below(as) == UNION {Range(pages[a].list) : a \in as} \cap IndexPages
Reachable(inode) ==
    LET top == {inode.indir[t] : t \in Trees} \cap IndexPages
    IN  top \cup Below(top) \cup Below(Below(top))

InTree == UNION {Reachable(tree[i]) : i \in Inodes}

----------------------------------------------------------------------------
(* Replay of the log *)

setJournallingInode(s, no) ==
    setTargetInode([s EXCEPT !.slots[0] = [no |-> no, inode |-> s.tree[no]]], 0)

\* The page state machine on an entry of the log or a success.
statemachine(s, e) ==
    CASE e.op = "replace" /\ s.phase # "recover" ->
           [s EXCEPT !.replaced = Append(@, [new |-> e.new, old |-> e.old]),
                     !.phase = "invalid"]
      [] e.op = "success" /\ s.phase = "invalid" -> [s EXCEPT !.phase = "recover"]
      [] e.op = "invalidate" /\ s.phase = "recover" ->
           [s EXCEPT !.replaced = <<>>, !.phase = "ok"]
      [] OTHER -> s

\* An entry of the tree: the tree replays it unless it has it on flash, and
\* the first one behind a replaced page tells that the commit succeeded.
processTreeEntry(s, e) ==
    LET known == IF e.flushed THEN s ELSE [s EXCEPT !.tree[e.no] = e.inode]
    IN  IF s.phase = "invalid" /\ ~s.foreign /\ s.target # {}
          THEN statemachine([known EXCEPT !.foreign = TRUE], [op |-> "success"])
          ELSE known

processEntry(s, e) ==
    CASE e.op = "set" ->
           LET named == IF s.target # {} /\ s.slots[0].no = e.no THEN s
                        ELSE setJournallingInode(s, e.no)
           IN  setPage(named, e.page, e.addr)
      [] e.op = "tree" -> processTreeEntry(s, e)
      [] OTHER -> statemachine(s, e)

\* Mutant: A write that was interrupted is kept as far as it came.
Bad_RevertWrite(s) == s

\* DataIO takes back the pages of a write that was not completed.
RevertWrite(s) ==
    LET back(u, w) == setPage(u, w.page, w.old)
    IN  commit(FoldLeft(back, setJournallingInode(s, s.write[1].no), s.write))

\* DataIO goes through the pages of a deletion again, with the inode as the
\* tree has it before the cache commits the one it replayed.
ResumeDeletion(s, gone) ==
    LET no == s.write[1].no
        found == [s EXCEPT !.slots[Slots + 1] = [no |-> no, inode |-> s.tree[no]]]
        delete(u, p) == IF getPage(u, p) = 0 THEN Loaded(u, p)
                                             ELSE setPage(Loaded(u, p), p, 0)
        deleted == FoldLeft(delete, setTargetInode(found, Slots + 1),
                            Reverse(SetToSortSeq(gone, <)))
    IN  invalidateOldPages(updateExistingInode(deleted))

\* What DataIO does about a call that was interrupted.  A write of which it
\* heard an update of the tree it leaves as far as it came.
SettleWrite(s, gone) ==
    LET settled == CASE s.write = <<>> -> s
                     [] s.write # <<>> /\ ~s.heard -> RevertWrite(s)
                     [] s.heard /\ gone = {} -> s
                     [] s.heard /\ gone # {} -> ResumeDeletion(s, gone)
    IN  [settled EXCEPT !.write = <<>>, !.heard = FALSE]

\* The new pages of a commit that did not succeed are of no use, nor are the
\* old ones of a commit that did.
SettlePages(s) ==
    LET useless == {IF s.phase = "invalid" THEN s.replaced[k].new
                    ELSE s.replaced[k].old : k \in DOMAIN s.replaced} \ {0}
        settled == [s EXCEPT !.pages = [a \in IndexPages |->
                      IF a \in useless THEN [s.pages[a] EXCEPT !.status = "dirty"]
                                       ELSE s.pages[a]]]
    IN  [(IF s.phase = "ok" THEN s ELSE addEvent(settled, [op |-> "invalidate"]))
           EXCEPT !.replaced = <<>>, !.phase = "ok"]

signalEndOfLog(s) ==
    LET settled == SettlePages(s)
    IN  IF s.target = {} THEN settled ELSE [commit(settled) EXCEPT !.target = {}]

Mounted(gone) ==
    LET found == [State EXCEPT !.slots = [k \in 0..(Slots + 1) |-> FreeSlot],
                    !.target = {}, !.isInodeDirty = FALSE,
                    !.elems = [e \in Levels |-> NoElem], !.replaced = <<>>,
                    !.tree = base, !.replay = TRUE]
        replayed == FoldLeft(processEntry, found, log)
    IN  signalEndOfLog(SettleWrite([replayed EXCEPT !.replay = FALSE], gone))

----------------------------------------------------------------------------
(* The calls *)

Become(s) ==
    /\ slots' = s.slots /\ target' = s.target /\ isInodeDirty' = s.isInodeDirty
    /\ elems' = s.elems /\ replaced' = s.replaced /\ tree' = s.tree
    /\ base' = s.base /\ pages' = s.pages /\ log' = s.log /\ write' = s.write
    /\ heard' = s.heard
    /\ bugs' = s.bugs /\ s.bugs \subseteq Allowed

Idle == todo = <<>> /\ bugs = {}
AtRest == Idle /\ write = <<>>

\* Bound: index pages are not to run out within a call.
Roomy == Cardinality(FreePages(State)) >= MinFree

Init ==
    /\ slots = [k \in 0..(Slots + 1) |-> FreeSlot]
    /\ target = {} /\ isInodeDirty = FALSE
    /\ elems = [e \in Levels |-> NoElem]
    /\ replaced = <<>> /\ log = <<>> /\ write = <<>> /\ heard = FALSE
    /\ todo = <<>> /\ bugs = {}
    /\ tree = [i \in Inodes |-> NoInode] /\ base = tree
    /\ pages = [a \in IndexPages |-> [status |-> "free", list |-> Empty]]
    /\ wanted = [i \in Inodes |-> [p \in Pages |-> 0]] /\ kept = wanted
    /\ sets = 0 /\ losses = 0

\* An inode gets the first free slot.
Open(i) ==
    /\ AtRest /\ \A k \in 1..Slots : slots[k].no # i
    /\ \E k \in 1..Slots :
         /\ slots[k].no = 0 /\ \A j \in 1..(k - 1) : slots[j].no # 0
         /\ slots' = [slots EXCEPT ![k] = [no |-> i, inode |-> tree[i]]]
    /\ UNCHANGED <<target, isInodeDirty, elems, replaced, tree, base, pages,
                   log, write, heard, todo, bugs, wanted, kept, sets, losses>>

\* The last reference to an inode goes away.  If the cache still points to
\* its slot, it takes the next inode there for the same one.
Close(k) ==
    /\ AtRest /\ slots[k].no # 0
    /\ target = {k} => ~isInodeDirty /\ "slot" \in Allowed
    /\ slots' = [slots EXCEPT ![k] = FreeSlot]
    /\ UNCHANGED <<target, isInodeDirty, elems, replaced, tree, base, pages,
                   log, write, heard, todo, bugs, wanted, kept, sets, losses>>

CommitSteps ==
    IF isInodeDirty
      THEN [l \in 1..Len(CommitOrder) |-> [do |-> "elem", arg |-> CommitOrder[l]]]
           \o <<[do |-> "update"], [do |-> "invalidate"], [do |-> "checkpoint"]>>
      ELSE <<>>

\* setTargetInode of another file.
Switch(k) ==
    /\ AtRest /\ slots[k].no # 0 /\ target # {k} /\ Roomy
    /\ todo' = (IF isDirty(State) THEN CommitSteps ELSE <<>>)
               \o <<[do |-> "target", arg |-> k]>>
    /\ UNCHANGED <<slots, target, isInodeDirty, elems, replaced, tree, base,
                   pages, log, write, heard, bugs, wanted, kept, sets, losses>>

\* A flush of the file, or of everything.
Commit ==
    /\ AtRest /\ isInodeDirty /\ Roomy
    /\ todo' = CommitSteps
    /\ UNCHANGED <<slots, target, isInodeDirty, elems, replaced, tree, base,
                   pages, log, write, heard, bugs, wanted, kept, sets, losses>>

Targeted == \E k \in 1..Slots : slots[k].no # 0 /\ target = {k}

Get(p) ==
    /\ AtRest /\ Roomy /\ Targeted
    /\ p >= directAddrCount
    /\ \E flipped \in {FALSE} \cup {f \in {TRUE} : "flip" \in Allowed} :
         Become(loadPath(State, p, flipped))
    /\ UNCHANGED <<todo, wanted, kept, sets, losses>>

\* One page of a write, which goes upwards, or of a deletion, which comes from
\* the end of the file: DataIO notes the address it had, and sets the new one,
\* maybe after a commit.
Set(p, a) ==
    /\ Idle /\ Roomy /\ Targeted
    /\ sets < MaxSets /\ Len(write) < MaxWrite
    /\ \A k \in DOMAIN write : (write[k].new = 0) = (a = 0)
    /\ IF a = 0 THEN \A q \in Pages : q > p => getPage(State, q) = 0
                ELSE \A k \in DOMAIN write : write[k].page < p
    /\ LET old == getPage(State, p)
           no == slots[Target(State)].no
           path == Loaded(State, p)
           note == [no |-> no, page |-> p, new |-> a, old |-> old]
       IN  /\ a # old /\ Become([path EXCEPT !.write = Append(@, note)])
           /\ todo' = (IF Crowded(path, p) THEN CommitSteps ELSE <<>>)
                      \o <<[do |-> "set", page |-> p, addr |-> a]>>
    /\ sets' = sets + 1
    /\ UNCHANGED <<wanted, kept, losses>>

\* writeInodeData and deleteInodeData update the inode, then invalidate.
EndWrite ==
    /\ Idle /\ write # <<>>
    /\ todo' = <<[do |-> "update"], [do |-> "invalidate"]>>
    /\ UNCHANGED <<slots, target, isInodeDirty, elems, replaced, tree, base,
                   pages, log, write, heard, bugs, wanted, kept, sets, losses>>

StepSet ==
    /\ Head(todo).do = "set"
    /\ Become(setPage(State, Head(todo).page, Head(todo).addr))
    /\ wanted' = [wanted EXCEPT ![slots[Target(State)].no][Head(todo).page] =
                                  Head(todo).addr]
    /\ kept' = IF heard THEN wanted' ELSE kept

StepElem ==
    /\ Head(todo).do = "elem"
    /\ Become(commitElem(State, Head(todo).arg))
    /\ UNCHANGED <<wanted, kept>>

\* DataIO takes this for the success of the call that runs, also if it is the
\* commit of a setPage in the middle of it.
StepUpdate ==
    /\ Head(todo).do = "update"
    /\ LET no == slots[Target(State)].no
           last == "set" \notin {todo[k].do : k \in DOMAIN todo}
           updated == updateExistingInode(State)
       IN  /\ kept' = [kept EXCEPT ![no] = wanted[no]]
           /\ Become(IF last
                       THEN [updated EXCEPT !.write = <<>>, !.heard = FALSE]
                       ELSE [updated EXCEPT !.heard = TRUE])
    /\ UNCHANGED wanted

StepInvalidate ==
    /\ Head(todo).do = "invalidate"
    /\ Become(invalidateOldPages(State))
    /\ UNCHANGED <<wanted, kept>>

StepCheckpoint ==
    /\ Head(todo).do = "checkpoint"
    /\ Become(Checkpoint(State))
    /\ UNCHANGED <<wanted, kept>>

StepTarget ==
    /\ Head(todo).do = "target"
    /\ Become([Inactive(State) EXCEPT !.target = {Head(todo).arg}])
    /\ UNCHANGED <<wanted, kept>>

Step ==
    /\ todo # <<>> /\ bugs = {}
    /\ StepSet \/ StepElem \/ StepUpdate \/ StepInvalidate \/ StepCheckpoint
         \/ StepTarget
    /\ todo' = Tail(todo)
    /\ UNCHANGED <<sets, losses>>

\* The tree writes what it caches and sets its checkpoint.
TreeCommit ==
    /\ bugs = {} /\ base # tree
    /\ base' = tree
    /\ log' = [k \in DOMAIN log |-> IF log[k].op = "tree"
                 THEN [log[k] EXCEPT !.flushed = TRUE] ELSE log[k]]
    /\ UNCHANGED <<slots, target, isInodeDirty, elems, replaced, tree, pages,
                   write, heard, todo, bugs, wanted, kept, sets, losses>>

\* Garbage collection erases what is dirty, lists the tree still refers to
\* included if the run allows it.
Collect ==
    /\ Idle
    /\ LET erased == {a \in IndexPages : pages[a].status = "dirty"}
                     \ (IF "erase" \in Allowed THEN {} ELSE InTree)
       IN  /\ erased # {}
           /\ pages' = [a \in IndexPages |-> IF a \in erased
                          THEN [status |-> "free", list |-> [k \in Positions |-> Lost]]
                          ELSE pages[a]]
    /\ UNCHANGED <<slots, target, isInodeDirty, elems, replaced, tree, base,
                   log, write, heard, todo, bugs, wanted, kept, sets, losses>>

\* What a mount has to go through of a deletion it hears was interrupted: the
\* pages behind the one where the file is to end.
Resumable ==
    IF heard /\ write[1].new = 0
      THEN {{q \in Pages : q >= p} : p \in {p \in Pages : p <= Last(write).page}}
      ELSE {{}}

PowerLoss ==
    /\ bugs = {} /\ losses < MaxLosses /\ Roomy
    /\ \E gone \in Resumable :
         /\ Become(Mounted(gone))
         /\ wanted' = IF gone = {} THEN kept ELSE
              [kept EXCEPT ![write[1].no] = [p \in Pages |-> IF p \in gone THEN 0 ELSE @[p]]]
    /\ kept' = wanted'
    /\ todo' = <<>> /\ losses' = losses + 1
    /\ UNCHANGED sets

Next ==
    \/ \E i \in Inodes : Open(i)
    \/ \E k \in 1..Slots : Close(k) \/ Switch(k)
    \/ \E p \in Pages : Get(p) \/ \E a \in Data \cup {0} : Set(p, a)
    \/ Collect \/ Commit \/ EndWrite \/ Step \/ TreeCommit \/ PowerLoss

Spec == Init /\ [][Next]_vars

----------------------------------------------------------------------------
(* Properties *)

\* Types; and the list of replaced pages fits its array, and is empty when
\* there is nothing to commit.
TypeOK ==
    /\ target \in SUBSET (0..Slots) /\ Cardinality(target) <= 1
    /\ isInodeDirty \in BOOLEAN
    /\ \A e \in Levels :
         /\ elems[e].cache \in [Positions -> Addr] /\ elems[e].pos \in Positions
         /\ elems[e].dirty \in BOOLEAN /\ elems[e].active \in BOOLEAN
    /\ Len(replaced) <= maxPages /\ (Idle /\ ~isInodeDirty => replaced = <<>>)
    /\ \A a \in IndexPages : pages[a].status \in {"free", "used", "dirty"}
    /\ bugs \subseteq {"superblock", "inactive"}

\* Reads return what was set last, through every eviction, switch, commit and
\* collection.  A loss of power undoes the call it interrupts and no other; but
\* behind a commit in its middle a write stays as far as it came, and a deletion
\* is completed.
ReadsBack == addr = wanted

\* When nothing is left to commit, the tree alone leads to every address.
CommittedIsOnFlash ==
    AtRest /\ ~isInodeDirty =>
        \A i \in Inodes, p \in Pages :
            addr[i][p] = getPage(Reader([State EXCEPT !.target = {},
                           !.slots = [k \in DOMAIN slots |-> FreeSlot]], i), p)

\* Power was not lost, or the run takes what a replay does to index pages.
Unharmed == losses = 0 \/ "replay" \in Allowed

(* ... and every page of addresses it leads to is kept by the collection, until
   a replay. *)
CommittedIsUsed ==
    AtRest /\ ~isInodeDirty /\ Unharmed => \A a \in InTree : pages[a].status = "used"

\* ... and no other index page is taken.
NoIndexPageLeaks ==
    AtRest /\ ~isInodeDirty /\ Unharmed =>
        \A a \in IndexPages : pages[a].status = "used" => a \in InTree

\* The assertions of the code about what it commits hold.
NoBug == bugs = {}

=============================================================================================================================================

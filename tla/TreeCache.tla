------------------------------ MODULE TreeCache ------------------------------
(***************************************************************************)
(* The cache of tree nodes (treeCache.cpp): slots that hold nodes of the    *)
(* tree with links to parents and children, the locks that keep a path in   *)
(* the cache, the eviction of clean nodes, and the commit that writes every *)
(* dirty node to a fresh page, children first, and then makes the new root  *)
(* known.  Pages are invalidated by the page state machine once the root is *)
(* known; its entries and those of the tree are in the log.                 *)
(*                                                                         *)
(* A commit and the freeing of nodes take several steps, listed in work.    *)
(***************************************************************************)
EXTENDS Naturals, Sequences, SequencesExt, FiniteSetsExt

CONSTANTS
    treeNodeCacheSize,
    Addrs,          \* addresses of index pages
    Levels,         \* bound: levels of the tree
    WithLog         \* whether the log is kept: only where power may fail

ASSUME TreeCacheAssumption ==
    /\ treeNodeCacheSize \in Nat /\ treeNodeCacheSize >= 2
    /\ Addrs \subseteq Nat \ {0} /\ Levels \in Nat \ {0}

VARIABLES
    cache,          \* mCache and mCacheUsage: a slot in use has a parent
    root,           \* mCacheRoot
    replaced,       \* newPageList and oldPageList of the state machine
    phase,          \* its journalState
    used,           \* the index pages the summaries call used
    page,           \* what the index pages hold
    rootAddr,       \* the address of the root in the superblock
    log,            \* the journal from the last checkpoint of the tree
    mode,           \* replay of the log, recommit after it, or up
    work,           \* what is left of a commit or of freeing nodes
    bugs            \* assertions of the code that failed

flash == <<used, page, rootAddr>>
statemachine == <<replaced, phase>>

----------------------------------------------------------------------------
(* Nodes *)

Slots == 1..treeNodeCacheSize
SlotSeq == [s \in Slots |-> s]
Upwards == [k \in 1..Levels |-> k]

\* A node; stale is what the unused places for keys of a leaf still hold.
NoNode == [leaf |-> FALSE, keys |-> <<>>, stale |-> <<>>, inodes |-> <<>>,
           addrs |-> <<>>, kids |-> <<>>, self |-> 0, parent |-> 0,
           dirty |-> FALSE, locked |-> FALSE, inherited |-> FALSE]

\* The part of a node that is in its page.
Raw(n) == [n EXCEPT !.kids = [k \in DOMAIN n.addrs |-> 0], !.parent = 0,
                    !.dirty = FALSE, !.locked = FALSE, !.inherited = FALSE]

InUse(c) == {s \in Slots : c[s].parent # 0}
FreeSlots(c) == Slots \ InUse(c)
Kids(c, s) == Range(c[s].kids) \ {0}

\* The nodes above s, nearest first; the root is its own parent.
PathUp(c, s) ==
    FoldLeft(LAMBDA path, k : Append(path, c[Last(path)].parent), <<c[s].parent>>, Upwards)

----------------------------------------------------------------------------
(* Locks *)

lockTreeCacheNode(c, s) ==
    LET up == Range(PathUp(c, s))
    IN  [x \in Slots |-> [c[x] EXCEPT !.locked = @ \/ x = s,
                                      !.inherited = @ \/ x \in up]]

hasLockedChilds(c, s) == \E k \in Kids(c, s) : c[k].inherited \/ c[k].locked

\* Mutant: The lock stays on the path.
Bad_unlockTreeCacheNode(c, s) == [c EXCEPT ![s].locked = FALSE]

unlockTreeCacheNode(c, s) ==
    LET above(acc, x) ==
            IF acc.done \/ hasLockedChilds(acc.c, x) THEN [acc EXCEPT !.done = TRUE]
            ELSE [c |-> [acc.c EXCEPT ![x].inherited = FALSE],
                  done |-> acc.c[x].locked \/ acc.c[x].parent = x]
    IN  FoldLeft(above, [c |-> [c EXCEPT ![s].locked = FALSE], done |-> FALSE],
                 PathUp(c, s)).c

----------------------------------------------------------------------------
(* Eviction of clean nodes *)

deleteFromParent(c, s) ==
    LET p == c[s].parent
    IN  IF p = s \/ p \notin InUse(c) THEN c
        ELSE [c EXCEPT ![p].kids = [k \in DOMAIN @ |-> IF @[k] = s THEN 0 ELSE @[k]]]

Evictable(n) == n.parent # 0 /\ ~n.dirty /\ ~n.locked /\ ~n.inherited

Freed(acc, s) ==
    [c |-> [deleteFromParent(acc.c, s) EXCEPT ![s] = NoNode],
     need |-> IF acc.need = 0 THEN 0 ELSE acc.need - 1]

cleanFreeLeafNodes(acc) ==
    LET free(a, s) == IF a.need > 0 /\ Evictable(a.c[s]) /\ a.c[s].leaf
                        THEN Freed(a, s) ELSE a
    IN  FoldLeft(free, acc, SlotSeq)

deletePathToRoot(acc, s) ==
    LET free(a, x) == IF Evictable(a.c[x]) /\ Kids(a.c, x) = {} THEN Freed(a, x) ELSE a
    IN  FoldLeft(free, acc, <<s>> \o PathUp(acc.c, s))

cleanFreeNodes(acc) ==
    LET free(a, s) == IF a.need > 0 /\ Evictable(a.c[s]) /\ Kids(a.c, s) = {}
                        THEN deletePathToRoot(a, s) ELSE a
    IN  FoldLeft(free, acc, SlotSeq)

\* A node above a dirty one is dirty.
resolveDirtyPaths(c) ==
    LET once(d, k) == [s \in Slots |->
            [d[s] EXCEPT !.dirty = @ \/ \E x \in Kids(d, s) : d[x].dirty]]
    IN  FoldLeft(once, c, Upwards)

----------------------------------------------------------------------------
(* The log and the list of replaced pages *)

Entry == [op |-> "none", key |-> 0, val |-> 0, new |-> 0, old |-> 0]
Replace(new, old) == [Entry EXCEPT !.op = "replace", !.new = new, !.old = old]
OfTree(op, key, val) == [Entry EXCEPT !.op = op, !.key = key, !.val = val]
Rootnode == [Entry EXCEPT !.op = "rootnode"]
InvalidateOldPages == [Entry EXCEPT !.op = "invalidate"]

Logged(l, e) == IF WithLog /\ mode # "replay" THEN Append(l, e) ELSE l

Full(list) == Len(list) = treeNodeCacheSize
Old(list) == {list[k].old : k \in DOMAIN list} \ {0}
New(list) == {list[k].new : k \in DOMAIN list} \ {0}

----------------------------------------------------------------------------
(* Work: a commit, or freeing nodes by evicting and, if need be, committing *)

NoWork == [todo |-> <<>>, need |-> 0]
Committing == [todo |-> <<"commit">>, need |-> 0]
Freeing(n) == [todo |-> <<"clean", "commit", "clean", "giveUp">>, need |-> n]

Idling == work.todo = <<>>
Doing(step) == ~Idling /\ Head(work.todo) = step
Then(todo) == [work EXCEPT !.todo = todo \o Tail(@)]
Failed == IF work.need = 0 THEN NoWork ELSE [work EXCEPT !.todo = <<"giveUp">>]

Clean ==
    /\ Doing("clean")
    /\ LET leaves == cleanFreeLeafNodes([c |-> resolveDirtyPaths(cache), need |-> work.need])
           nodes == cleanFreeNodes(leaves)
       IN  /\ cache' = nodes.c
           /\ work' = IF nodes.need = 0 THEN NoWork
                      ELSE [todo |-> Tail(work.todo), need |-> nodes.need]
    /\ UNCHANGED <<root, statemachine, flash, log, mode, bugs>>

\* A commit may never happen during replay.
Commit ==
    /\ Doing("commit")
    /\ IF mode = "replay"
         THEN work' = Failed /\ UNCHANGED cache
         ELSE /\ cache' = resolveDirtyPaths(cache)
              /\ work' = Then((IF cache'[root].dirty THEN <<"write">> ELSE <<>>)
                              \o <<"invalidate", "checkpoint">>)
    /\ UNCHANGED <<root, statemachine, flash, log, mode, bugs>>

\* commitNodesRecursively: the first dirty node none of whose children is.
NextDirty(c) ==
    LET below(s, k) == LET dirty == SelectSeq(c[s].kids, LAMBDA x : x # 0 /\ c[x].dirty)
                       IN  IF dirty = <<>> THEN s ELSE Head(dirty)
    IN  FoldLeft(below, root, Upwards)

\* Mutant: The parent keeps the address of the page before.
Bad_updateFlashAddressInParent(c, s) == [c EXCEPT ![c[s].parent].dirty = TRUE]

updateFlashAddressInParent(c, s) ==
    LET p == c[s].parent
    IN  IF p = s THEN c
        ELSE [c EXCEPT ![p].dirty = TRUE,
                       ![p].addrs = [k \in DOMAIN @ |->
                                        IF c[p].kids[k] = s THEN c[s].self ELSE @[k]]]

\* Mutant: A node that was written is still dirty.
Bad_Written(s, new) == [cache EXCEPT ![s].self = new]

Written(s, new) == [cache EXCEPT ![s].self = new, ![s].dirty = FALSE]

\* writeTreeNode; a page that cannot be noted is written all the same.  A former
\* page that is dirty is a bug, but not to a repeated commit; one that is free,
\* because it was erased since, is one in any case.
WriteNode ==
    /\ Doing("write")
    /\ \E free \in BOOLEAN :
         LET s == NextDirty(cache)
             old == cache[s].self
             new == Min(Addrs \ used)
             written == Written(s, new)
         IN  IF old # 0 /\ old \notin used /\ (free \/ mode # "recommit")
               THEN /\ work' = Failed /\ bugs' = bugs \cup {"former page"}
                    /\ UNCHANGED <<cache, page, used, replaced, log>>
               ELSE /\ cache' = updateFlashAddressInParent(written, s)
                    /\ page' = [page EXCEPT ![new] = Raw(written[s])]
                    /\ IF Full(replaced)
                         THEN UNCHANGED <<used, replaced, log>>
                         ELSE /\ used' = used \cup {new}
                              /\ replaced' = Append(replaced, [new |-> new, old |-> old])
                              /\ log' = Logged(log, Replace(new, old))
                    /\ work' = IF s = root THEN Then(<<"register">>) ELSE work
                    /\ UNCHANGED bugs
    /\ UNCHANGED <<root, phase, rootAddr, mode>>

RegisterRootnode ==
    /\ Doing("register")
    /\ rootAddr' = cache[root].self
    /\ log' = Logged(log, Rootnode)
    /\ work' = Then(<<>>)
    /\ UNCHANGED <<cache, root, statemachine, used, page, mode, bugs>>

\* Mutant: The pages of removed nodes are forgotten.
Bad_Invalidated(list) ==
    used \ {list[k].old : k \in {j \in DOMAIN list : list[j].new # 0}}

Invalidated(list) == used \ Old(list)

\* An index page that goes out of use may be erased at any moment.
Erased == [a \in Addrs |-> IF a \in used \ used' THEN NoNode ELSE page[a]]

\* The end of commitCache, unless a dirty node was not reached.
Invalidate ==
    /\ Doing("invalidate")
    /\ IF \E s \in InUse(cache) : cache[s].dirty
         THEN /\ work' = Failed /\ bugs' = bugs \cup {"uncommitted"}
              /\ UNCHANGED <<used, page, replaced, phase, log>>
         ELSE /\ used' = Invalidated(replaced) /\ page' = Erased
              /\ log' = IF Old(replaced) = {} THEN log ELSE Logged(log, InvalidateOldPages)
              /\ replaced' = <<>> /\ phase' = "ok"
              /\ work' = Then(<<>>)
              /\ UNCHANGED bugs
    /\ UNCHANGED <<cache, root, rootAddr, mode>>

\* The entries before the checkpoint are not replayed any more.
Checkpoint ==
    /\ Doing("checkpoint")
    /\ log' = <<>>
    /\ work' = Then(<<>>)
    /\ UNCHANGED <<cache, root, statemachine, flash, mode, bugs>>

Work == Clean \/ Commit \/ WriteNode \/ RegisterRootnode \/ Invalidate \/ Checkpoint

----------------------------------------------------------------------------
(* Nodes that come into the cache and leave it *)

\* A node with address a at slot s.
Loaded(a, parent) == [page[a] EXCEPT !.parent = parent]

\* getTreeNodeAtIndexFrom, when the child is not cached and a slot is free.
WithChild(c, p, i) ==
    LET s == Min(FreeSlots(c))
        free == unlockTreeCacheNode(lockTreeCacheNode(c, p), p)
    IN  [free EXCEPT ![s] = Loaded(c[p].addrs[i], p), ![p].kids[i] = s]

\* removeNode; the page goes when the tree is committed without it.
removeNode(c, s) == [c EXCEPT ![s] = NoNode]
Noted(list, self) ==
    IF self = 0 \/ Full(list) THEN list ELSE Append(list, [new |-> 0, old |-> self])
DeleteEvents(l, list, self) ==
    IF self = 0 \/ Full(list) THEN l ELSE Logged(l, Replace(0, self))

----------------------------------------------------------------------------
(* The page state machine during replay *)

Processed(e) ==
    CASE e.op = "replace" /\ phase # "recover" ->
           /\ phase' = "invalid"
           /\ IF Full(replaced)
                THEN bugs' = bugs \cup {"overflow"} /\ UNCHANGED replaced
                ELSE /\ replaced' = Append(replaced, [new |-> e.new, old |-> e.old])
                     /\ UNCHANGED bugs
      [] e.op = "rootnode" /\ phase = "invalid" ->
           phase' = "recover" /\ UNCHANGED <<replaced, bugs>>
      [] e.op = "invalidate" /\ phase = "recover" ->
           phase' = "ok" /\ replaced' = <<>> /\ UNCHANGED bugs
      [] OTHER -> UNCHANGED <<statemachine, bugs>>

=============================================================================

-------------------------------- MODULE Btree --------------------------------
(***************************************************************************)
(* The tree of inodes (btree.cpp) on top of its cache.  A call is a chain   *)
(* of functions, each one a step that works on nodes in the cache; a step   *)
(* that needs a node which is not cached, with no slot free, first waits    *)
(* for nodes to be evicted or committed.  Power may fail before any step;   *)
(* the mount then replays the log with the same functions.                  *)
(***************************************************************************)
EXTENDS TreeCache

CONSTANTS
    Keys,           \* numbers of inodes, from 0, the root directory
    Vals,           \* what an inode may hold; 0 stands for no inode
    leafOrder, branchOrder,
    Narrow,         \* values of a uint16_t, the type of keys that separate nodes
    Ops,            \* the calls a run makes
    Again,          \* bound: numbers inserted even if they are not the first free one
    Touched,        \* bound: numbers that are removed, read or changed
    MinFree,        \* bound: pages that are not used when a call starts
    MaxLog,         \* bound: entries of the log when a call starts
    MaxLosses       \* bound: losses of power

ASSUME BtreeAssumption ==
    /\ 0 \in Keys /\ Keys \subseteq Nat /\ 0 \notin Vals
    /\ leafOrder \in Nat /\ leafOrder >= 2
    /\ branchOrder \in Nat /\ branchOrder >= 3
    /\ Narrow \in Nat \ {0} /\ Again \subseteq Keys /\ Touched \subseteq Keys

VARIABLES
    call,           \* the function that runs, and for which call of the tree
    pending,        \* the call as the caller sees it
    answer,         \* what the last call returned
    before,         \* for the properties: the inodes before the call
    replay,         \* entries of the log that are still to be replayed
    losses          \* counts losses of power

outside == <<pending, answer, before, replay, losses>>
vars == <<cache, root, replaced, phase, used, page, rootAddr, log, mode, work,
          bugs, call, pending, answer, before, replay, losses>>

----------------------------------------------------------------------------
(* Searching *)

\* Keys that separate nodes pass through variables of type uint16_t.
Truncated(key) == key % Narrow

\* The first key that is above this one, or the place behind the last.
FirstAbove(keys, key) ==
    LET above == {k \in DOMAIN keys : key < keys[k]}
    IN  IF above = {} THEN Len(keys) + 1 ELSE Min(above)

FirstNotBelow(keys, key) ==
    LET above == {k \in DOMAIN keys : key <= keys[k]}
    IN  IF above = {} THEN Len(keys) + 1 ELSE Min(above)

\* Mutant: A key that separates two nodes is looked for in the left one.
Bad_ChildIndex(n, key) == FirstNotBelow(n.keys, key)

ChildIndex(n, key) == FirstAbove(n.keys, key)

\* What a search that starts at the root comes to, in the cache or on flash.
RootNode == IF root \in InUse(cache) THEN cache[root] ELSE page[rootAddr]
ChildOf(n, i) == CASE n.kids[i] # 0 -> cache[n.kids[i]]
                   [] n.kids[i] = 0 /\ n.addrs[i] # 0 -> page[n.addrs[i]]
                   [] OTHER -> NoNode
\* The leaf, alone in a set, that a search for a key comes to.
LeafFor(key) ==
    FoldLeft(LAMBDA ns, l : {IF n.kids = <<>> THEN n ELSE ChildOf(n, ChildIndex(n, key)) :
                                n \in ns},
             {RootNode}, Upwards)

InLeaf(n, key) ==
    IF ~Contains(n.keys, key) THEN 0
    ELSE n.inodes[Min({k \in DOMAIN n.keys : n.keys[k] = key})]

inodes == [key \in Keys |-> Max({InLeaf(n, key) : n \in LeafFor(key)})]

----------------------------------------------------------------------------
(* Insertion into nodes of a cache *)

cut(length) == (length + 1) \div 2

IsFull(n) == Len(n.keys) = IF n.leaf THEN leafOrder ELSE branchOrder - 1

Zeros(n) == [k \in 1..n |-> 0]

calculateMaxNeededNewNodesForInsertion(c, s) ==
    LET above(acc, x) ==
            IF acc.done \/ ~IsFull(c[x]) THEN [acc EXCEPT !.done = TRUE]
            ELSE IF c[x].parent = x THEN [need |-> acc.need + 2, done |-> TRUE]
            ELSE [acc EXCEPT !.need = @ + 1]
    IN  FoldLeft(above, [need |-> 0, done |-> FALSE], <<s>> \o PathUp(c, s)).need

\* A leaf with one inode more than before, maybe more than it may have.
WithInode(n, key, val) ==
    LET i == FirstNotBelow(n.keys, key)
    IN  [n EXCEPT !.keys = InsertAt(@, i, key), !.inodes = InsertAt(@, i, val),
                  !.dirty = TRUE]

insertIntoLeaf(c, s, key, val) ==
    [c EXCEPT ![s] = [WithInode(@, key, val) EXCEPT !.stale = Tail(@)]]

LeafPart(n, from, to) ==
    [n EXCEPT !.keys = SubSeq(@, from, to), !.inodes = SubSeq(@, from, to),
              !.stale = Zeros(leafOrder - (to - from + 1))]

insertIntoLeafAfterSplitting(c, s, new, key, val) ==
    LET both == WithInode(c[s], key, val)
        split == cut(leafOrder)
    IN  [c EXCEPT ![s] = LeafPart(both, 1, split),
                  ![new] = [LeafPart(both, split + 1, leafOrder + 1)
                              EXCEPT !.self = 0, !.locked = FALSE, !.inherited = FALSE]]

\* How many children of parent p stand before node left.
getLeftIndex(c, p, left) ==
    LET at == {k \in DOMAIN c[p].keys :
                 \/ c[p].addrs[k] # 0 /\ c[p].addrs[k] = c[left].self
                 \/ c[p].kids[k] = left}
    IN  IF at = {} THEN Len(c[p].keys) ELSE Min(at) - 1

\* A branch with one child more than before, right of the child at index.
WithBranch(c, p, index, key, right) ==
    [c[p] EXCEPT !.keys = InsertAt(@, index + 1, key),
                 !.kids = InsertAt(@, index + 2, right),
                 !.addrs = InsertAt(@, index + 2, c[right].self),
                 !.dirty = TRUE]

insertIntoNode(c, p, index, key, right) ==
    [c EXCEPT ![p] = WithBranch(c, p, index, key, right),
              ![right].parent = p, ![right].dirty = TRUE]

Adopted(c, p) ==
    [s \in Slots |-> IF s \in Kids(c, p) THEN [c[s] EXCEPT !.parent = p] ELSE c[s]]

insertIntoNodeAfterSplitting(c, p, new, index, key, right) ==
    LET both == WithBranch(c, p, index, key, right)
        split == cut(branchOrder)
    IN  Adopted([c EXCEPT
          ![p] = [both EXCEPT !.keys = SubSeq(@, 1, split - 1),
                              !.kids = SubSeq(@, 1, split), !.addrs = SubSeq(@, 1, split)],
          ![new] = [NoNode EXCEPT
                      !.keys = SubSeq(both.keys, split + 1, branchOrder),
                      !.kids = SubSeq(both.kids, split + 1, branchOrder + 1),
                      !.addrs = SubSeq(both.addrs, split + 1, branchOrder + 1),
                      !.parent = c[p].parent, !.dirty = TRUE]], new)

insertIntoNewRoot(c, new, left, key, right) ==
    [c EXCEPT ![new] = [NoNode EXCEPT !.keys = <<key>>, !.kids = <<left, right>>,
                                      !.addrs = <<c[left].self, c[right].self>>,
                                      !.parent = new, !.dirty = TRUE],
              ![left].parent = new, ![right].parent = new]

----------------------------------------------------------------------------
(* Deletion from nodes of a cache *)

\* The bug check of removeEntryFromNode: the key should stand further left.
Misplaced(n, key) ==
    LET at == {k \in DOMAIN n.keys : n.keys[k] = key}
        last == IF at = {} THEN Len(n.keys) ELSE Min(at) - 1
    IN  last > 0 /\ key < n.keys[last]

\* The key goes, in a branch with the child right of it.
removeEntryFromNode(c, s, key) ==
    LET n == c[s]
        at == {k \in DOMAIN n.keys : n.keys[k] = key}
        i == IF at = {} THEN Len(n.keys) ELSE Min(at)
        less == [n EXCEPT !.keys = RemoveAt(@, i), !.dirty = TRUE]
    IN  [c EXCEPT ![s] =
          IF n.leaf THEN [less EXCEPT !.inodes = RemoveAt(@, i),
                                      !.stale = Zeros(leafOrder - Len(less.keys))]
          ELSE [less EXCEPT !.kids = RemoveAt(@, i + 1), !.addrs = RemoveAt(@, i + 1)]]

\* How many children stand before s, less one.
getNeighborIndex(c, s) ==
    LET kids == c[c[s].parent].kids
    IN  Min({k \in DOMAIN kids : kids[k] = s}) - 2

minKeys(n) == IF n.leaf THEN cut(leafOrder) ELSE cut(branchOrder) - 1

\* Mutant: The key between two branches is dropped when they become one.
Bad_coalesceNodes(c, to, from, key) ==
    LET a == c[to]
        b == c[from]
    IN  IF b.leaf
          THEN [c EXCEPT ![to] = [a EXCEPT
                  !.keys = @ \o b.keys, !.inodes = @ \o b.inodes,
                  !.stale = SubSeq(@, Len(b.keys) + 1, Len(@)), !.dirty = TRUE]]
          ELSE Adopted([c EXCEPT ![to] = [a EXCEPT
                  !.keys = @ \o b.keys \o <<key>>, !.kids = @ \o b.kids,
                  !.addrs = @ \o b.addrs, !.dirty = TRUE]], to)

\* What node from holds is appended to the node left of it.
coalesceNodes(c, to, from, key) ==
    LET a == c[to]
        b == c[from]
    IN  IF b.leaf
          THEN [c EXCEPT ![to] = [a EXCEPT
                  !.keys = @ \o b.keys, !.inodes = @ \o b.inodes,
                  !.stale = SubSeq(@, Len(b.keys) + 1, Len(@)), !.dirty = TRUE]]
          ELSE Adopted([c EXCEPT ![to] = [a EXCEPT
                  !.keys = @ \o <<key>> \o b.keys, !.kids = @ \o b.kids,
                  !.addrs = @ \o b.addrs, !.dirty = TRUE]], to)

\* The last entry of the left neighbour comes to the front of node s.
TakeFromLeft(c, s, left, index, key) ==
    LET n == c[s]
        m == c[left]
        p == n.parent
        leaf == [c EXCEPT
            ![s] = [n EXCEPT !.keys = <<Last(m.keys)>> \o @, !.dirty = TRUE,
                             !.inodes = <<Last(m.inodes)>> \o @, !.stale = Tail(@)],
            ![left] = [m EXCEPT !.keys = Front(@), !.inodes = Front(@), !.dirty = TRUE,
                                !.stale = <<Last(m.keys)>> \o @]]
        branch == Adopted([c EXCEPT
            ![s] = [n EXCEPT !.keys = <<key>> \o @, !.kids = <<Last(m.kids)>> \o @,
                             !.addrs = <<Last(m.addrs)>> \o @, !.dirty = TRUE],
            ![left] = [m EXCEPT !.keys = Front(@), !.kids = Front(@),
                                !.addrs = Front(@), !.dirty = TRUE]], s)
    IN  [(IF n.leaf THEN leaf ELSE branch)
           EXCEPT ![p].keys[index] = Last(m.keys), ![p].dirty = TRUE]

\* The first entry of the right neighbour comes to the end of node s.
TakeFromRight(c, s, right, key) ==
    LET n == c[s]
        m == c[right]
        p == n.parent
        leaf == [c EXCEPT
            ![s] = [n EXCEPT !.keys = Append(@, Head(m.keys)), !.dirty = TRUE,
                             !.inodes = Append(@, Head(m.inodes)), !.stale = Tail(@)],
            ![right] = [m EXCEPT !.keys = Tail(@), !.inodes = Tail(@), !.dirty = TRUE,
                                 !.stale = <<Last(m.keys)>> \o @]]
        branch == Adopted([c EXCEPT
            ![s] = [n EXCEPT !.keys = Append(@, key), !.kids = Append(@, Head(m.kids)),
                             !.addrs = Append(@, Head(m.addrs)), !.dirty = TRUE],
            ![right] = [m EXCEPT !.keys = Tail(@), !.kids = Tail(@),
                                 !.addrs = Tail(@), !.dirty = TRUE]], s)
    IN  [(IF n.leaf THEN leaf ELSE branch)
           EXCEPT ![p].keys[1] = IF n.leaf THEN m.keys[2] ELSE Head(m.keys),
                  ![p].dirty = TRUE]

----------------------------------------------------------------------------
(* Calls *)

NoCall == [op |-> "none", key |-> 0, val |-> 0, fn |-> "none", node |-> 0,
           other |-> 0, sep |-> 0, depth |-> 0]
Pending(op, key, val) == [op |-> op, key |-> key, val |-> val]
Idle == Pending("none", 0, 0)
NoAnswer == [result |-> "none", val |-> 0]
Called(op, key, val) == [NoCall EXCEPT !.op = op, !.key = key, !.val = val, !.fn = "root"]

InCall(fn) == call.fn = fn /\ Idling
AtRest == mode = "up" /\ pending = Idle

\* A call of the log has no caller.
Return(result, val) ==
    /\ call' = NoCall
    /\ IF mode = "up"
         THEN pending' = Idle /\ answer' = [result |-> result, val |-> val]
         ELSE UNCHANGED <<pending, answer>>
    /\ UNCHANGED <<before, replay, losses>>

FirstFree == Max({key \in Keys : inodes[key] # 0}) + 1

\* The Device takes the number of a new inode from findFirstFreeNo.
MayCall(op, key, val) ==
    CASE op = "insert" -> /\ val # 0 /\ key # 0
                          /\ key \in Again \cup {FirstFree}
      [] op = "update" -> val # 0 /\ key \in Touched
      [] op = "remove" -> val = 0 /\ key \in Touched \ {0}
      [] op = "get" -> val = 0 /\ key \in Touched
      [] OTHER -> val = 0 /\ key = 0

Begin(op, key, val) ==
    /\ AtRest /\ Idling
    /\ MayCall(op, key, val)
    /\ Cardinality(Addrs \ used) >= MinFree
    /\ Len(log) <= MaxLog \/ op = "commit"
    /\ pending' = Pending(op, key, val)
    /\ before' = inodes
    /\ call' = IF op = "commit" THEN [Called(op, key, val) EXCEPT !.fn = "commit"]
               ELSE Called(op, key, val)
    /\ work' = IF op = "commit" THEN Committing ELSE work
    /\ UNCHANGED <<cache, root, statemachine, flash, log, mode, bugs, answer,
                   replay, losses>>

EndCommit ==
    /\ InCall("commit")
    /\ Return("ok", 0)
    /\ UNCHANGED <<cache, root, statemachine, flash, log, mode, work, bugs>>

\* getRootNodeFromCache
GetRoot ==
    /\ InCall("root")
    /\ IF root \in InUse(cache)
         THEN UNCHANGED <<cache, root>>
         ELSE LET s == Min(FreeSlots(cache))
              IN  cache' = [cache EXCEPT ![s] = Loaded(rootAddr, s)] /\ root' = s
    /\ call' = [call EXCEPT !.fn = "find", !.node = root']
    /\ UNCHANGED <<statemachine, flash, log, mode, work, bugs, outside>>

\* getTreeNodeAtIndexFrom as part of function fn: the child is in the cache,
\* or there is a slot for it, or one has to be freed.
GetChild(c, p, i, found(_)) ==
    /\ \/ /\ c[p].kids[i] # 0
          /\ cache' = c /\ found(c[p].kids[i])
          /\ UNCHANGED work
       \/ /\ c[p].kids[i] = 0 /\ FreeSlots(c) # {}
          /\ cache' = WithChild(c, p, i) /\ found(Min(FreeSlots(c)))
          /\ UNCHANGED work
       \/ /\ c[p].kids[i] = 0 /\ FreeSlots(c) = {}
          /\ cache' = lockTreeCacheNode(c, p)
          /\ work' = Freeing(1)
          /\ UNCHANGED call
    /\ UNCHANGED <<root, statemachine, flash, log, mode, bugs, outside>>

\* findLeaf gives up below this depth, which no tree reaches (PathsFit).
MaxDepth == treeNodeCacheSize - 1

\* findLeaf; findFirstFreeNo goes to the last child.
Descend ==
    /\ InCall("find") /\ ~cache[call.node].leaf
    /\ call.depth + 1 < MaxDepth
    /\ LET n == cache[call.node]
           i == IF call.op = "firstFree" THEN Len(n.kids) ELSE ChildIndex(n, call.key)
       IN  GetChild(cache, call.node, i,
                    LAMBDA s : call' = [call EXCEPT !.node = s, !.depth = @ + 1])

AtLeaf(op) == InCall("find") /\ cache[call.node].leaf /\ call.op = op
Leaf == cache[call.node]

FindFirstFreeNo ==
    /\ AtLeaf("firstFree")
    /\ Return("ok", IF Leaf.keys = <<>> THEN 0 ELSE Last(Leaf.keys) + 1)
    /\ UNCHANGED <<cache, root, statemachine, flash, log, mode, work, bugs>>

Get ==
    /\ AtLeaf("get")
    /\ IF Contains(Leaf.keys, call.key) THEN Return("ok", InLeaf(Leaf, call.key))
       ELSE Return("notFound", 0)
    /\ UNCHANGED <<cache, root, statemachine, flash, log, mode, work, bugs>>

UpdateEvent == Logged(log, OfTree("update", call.key, call.val))

Update ==
    /\ AtLeaf("update")
    /\ IF ~Contains(Leaf.keys, call.key)
         THEN Return("bug", 0) /\ UNCHANGED <<cache, log>>
       ELSE IF InLeaf(Leaf, call.key) = call.val
         THEN Return("ok", 0) /\ UNCHANGED <<cache, log>>
       ELSE LET i == Min({k \in DOMAIN Leaf.keys : Leaf.keys[k] = call.key})
            IN  /\ log' = UpdateEvent
                /\ cache' = [cache EXCEPT ![call.node].inodes[i] = call.val,
                                          ![call.node].dirty = TRUE]
                /\ Return("ok", 0)
    /\ UNCHANGED <<root, statemachine, flash, mode, work, bugs>>

----------------------------------------------------------------------------
(* Insertion *)

\* The check of insertInode also looks at the places no key is in.
InsertExists ==
    /\ AtLeaf("insert")
    /\ Leaf.keys # <<>> /\ Contains(Leaf.keys \o Leaf.stale, call.key)
    /\ Return("exists", 0)
    /\ UNCHANGED <<cache, root, statemachine, flash, log, mode, work, bugs>>

InsertLocks ==
    /\ AtLeaf("insert")
    /\ ~(Leaf.keys # <<>> /\ Contains(Leaf.keys \o Leaf.stale, call.key))
    /\ cache' = lockTreeCacheNode(cache, call.node)
    /\ call' = [call EXCEPT !.fn = "reserve"]
    /\ UNCHANGED <<root, statemachine, flash, log, mode, work, bugs, outside>>

\* Mutant: Only the new leaf is reserved, not the nodes above it.
Bad_Missing ==
    LET need == Min({1, calculateMaxNeededNewNodesForInsertion(cache, call.node)})
        free == Cardinality(FreeSlots(cache))
    IN  IF free >= need THEN 0 ELSE need - free

\* How many nodes the insertion needs and does not have.
Missing ==
    LET need == calculateMaxNeededNewNodesForInsertion(cache, call.node)
        free == Cardinality(FreeSlots(cache))
    IN  IF free >= need THEN 0 ELSE need - free

ReserveNodes ==
    /\ InCall("reserve")
    /\ IF Missing = 0
         THEN /\ cache' = unlockTreeCacheNode(cache, call.node)
              /\ call' = [call EXCEPT !.fn = "insert"]
              /\ UNCHANGED work
         ELSE work' = Freeing(Missing) /\ UNCHANGED <<cache, call>>
    /\ UNCHANGED <<root, statemachine, flash, log, mode, bugs, outside>>

\* Mutant: The event of an insertion is written only when the leaf has room.
Bad_InsertEvent ==
    IF IsFull(Leaf) THEN log ELSE Logged(log, OfTree("insert", call.key, call.val))

InsertEvent == Logged(log, OfTree("insert", call.key, call.val))

InsertIntoLeaf ==
    /\ InCall("insert") /\ ~IsFull(Leaf)
    /\ log' = InsertEvent
    /\ cache' = insertIntoLeaf(cache, call.node, call.key, call.val)
    /\ Return("ok", 0)
    /\ UNCHANGED <<root, statemachine, flash, mode, work, bugs>>

InsertIntoLeafAfterSplitting ==
    /\ InCall("insert") /\ IsFull(Leaf)
    /\ FreeSlots(cache) # {}
    /\ LET new == Min(FreeSlots(cache))
       IN  /\ cache' = insertIntoLeafAfterSplitting(cache, call.node, new,
                                                     call.key, call.val)
           /\ call' = [call EXCEPT !.fn = "parent", !.other = new,
                                   !.sep = Truncated(Head(cache'[new].keys))]
    /\ log' = InsertEvent
    /\ UNCHANGED <<root, statemachine, flash, mode, work, bugs, outside>>

\* insertIntoParent of nodes left and right.
Left == call.node
Parent == cache[Left].parent

InsertIntoNewRoot ==
    /\ InCall("parent") /\ Parent = Left
    /\ FreeSlots(cache) # {}
    /\ root' = Min(FreeSlots(cache))
    /\ cache' = insertIntoNewRoot(cache, root', Left, call.sep, call.other)
    /\ Return("ok", 0)
    /\ UNCHANGED <<statemachine, flash, log, mode, work, bugs>>

InsertIntoNode ==
    /\ InCall("parent") /\ Parent # Left /\ ~IsFull(cache[Parent])
    /\ cache' = insertIntoNode(cache, Parent, getLeftIndex(cache, Parent, Left),
                               call.sep, call.other)
    /\ Return("ok", 0)
    /\ UNCHANGED <<root, statemachine, flash, log, mode, work, bugs>>

InsertIntoNodeAfterSplitting ==
    /\ InCall("parent") /\ Parent # Left /\ IsFull(cache[Parent])
    /\ FreeSlots(cache) # {}
    /\ LET new == Min(FreeSlots(cache))
           index == getLeftIndex(cache, Parent, Left)
           both == WithBranch(cache, Parent, index, call.sep, call.other)
       IN  /\ cache' = insertIntoNodeAfterSplitting(cache, Parent, new, index,
                                                     call.sep, call.other)
           /\ call' = [call EXCEPT !.node = Parent, !.other = new,
                                   !.sep = Truncated(both.keys[cut(branchOrder)])]
    /\ UNCHANGED <<root, statemachine, flash, log, mode, work, bugs, outside>>

----------------------------------------------------------------------------
(* Deletion *)

RemoveFinds ==
    /\ AtLeaf("remove")
    /\ IF Contains(Leaf.keys, call.key)
         THEN /\ call' = [call EXCEPT !.fn = "delete", !.sep = call.key]
              /\ UNCHANGED outside
         ELSE Return("notFound", 0)
    /\ UNCHANGED <<cache, root, statemachine, flash, log, mode, work, bugs>>

\* Mutant: The only child of an empty root keeps the root as its parent.
Bad_adjustRoot(c, s) ==
    IF c[s].keys # <<>> THEN c ELSE removeNode(c, s)

\* An empty root gives way to its only child.
adjustRoot(c, s) ==
    IF c[s].keys # <<>> THEN c
    ELSE IF c[s].leaf THEN removeNode(c, s)
    ELSE removeNode([c EXCEPT ![c[s].kids[1]].parent = c[s].kids[1]], s)

\* deleteEntry, as far as the node and its size are concerned.  The page of a
\* root that goes needs room in the list of replaced ones.
DeleteEntry ==
    /\ InCall("delete")
    /\ LET s == call.node
           c == removeEntryFromNode(cache, s, call.sep)
           n == c[s]
           gone == n.parent = s /\ n.keys = <<>>
           next == IF gone /\ n.self # 0 /\ Full(replaced) THEN "failed"
                   ELSE IF n.parent = s \/ Len(n.keys) >= minKeys(n) THEN "removed"
                   ELSE "neighbor"
       IN  IF Misplaced(cache[s], call.sep)
             THEN /\ bugs' = bugs \cup {"misplaced"}
                  /\ call' = [call EXCEPT !.fn = "failed"]
                  /\ UNCHANGED <<cache, root, replaced, log>>
             ELSE /\ cache' = IF n.parent = s THEN adjustRoot(c, s) ELSE c
                  /\ root' = IF gone /\ ~n.leaf THEN n.kids[1] ELSE root
                  /\ replaced' = IF gone THEN Noted(replaced, n.self) ELSE replaced
                  /\ log' = IF gone THEN DeleteEvents(log, replaced, n.self) ELSE log
                  /\ call' = [call EXCEPT !.fn = next]
                  /\ UNCHANGED bugs
    /\ UNCHANGED <<phase, flash, mode, work, outside>>

\* The neighbour is left of the node, or right of it if it is the first one.
FindNeighbor ==
    /\ InCall("neighbor")
    /\ LET s == call.node
           p == cache[s].parent
           index == getNeighborIndex(cache, s)
       IN  GetChild(lockTreeCacheNode(cache, s), p, IF index = -1 THEN 2 ELSE index + 1,
                    LAMBDA n : call' = [call EXCEPT !.fn = "merge", !.other = n])

Unlocked == unlockTreeCacheNode(cache, call.node)

FitTogether(n, m) ==
    Len(n.keys) + Len(m.keys) <= IF m.leaf THEN leafOrder ELSE branchOrder - 2

\* The key of the parent that separates the node from its neighbour.
PrimeIndex == IF getNeighborIndex(cache, call.node) = -1 THEN 1
              ELSE getNeighborIndex(cache, call.node) + 1
Prime == Truncated(cache[cache[call.node].parent].keys[PrimeIndex])

From == IF getNeighborIndex(cache, call.node) = -1 THEN call.other ELSE call.node

CoalesceNodes ==
    /\ InCall("merge") /\ FitTogether(cache[call.node], cache[call.other])
    /\ LET to == IF From = call.node THEN call.other ELSE call.node
           n == cache[From]
           failed == n.self # 0 /\ Full(replaced)
       IN  /\ cache' = removeNode(coalesceNodes(Unlocked, to, From, Prime), From)
           /\ replaced' = Noted(replaced, n.self)
           /\ log' = DeleteEvents(log, replaced, n.self)
           /\ call' = IF failed THEN [call EXCEPT !.fn = "failed"]
                      ELSE [call EXCEPT !.fn = "delete", !.node = n.parent,
                                        !.other = 0, !.sep = Prime]
    /\ UNCHANGED <<root, phase, flash, mode, work, bugs, outside>>

RedistributeNodes ==
    /\ InCall("merge") /\ ~FitTogether(cache[call.node], cache[call.other])
    /\ cache' = IF getNeighborIndex(cache, call.node) = -1
                  THEN TakeFromRight(Unlocked, call.node, call.other, Prime)
                  ELSE TakeFromLeft(Unlocked, call.node, call.other, PrimeIndex, Prime)
    /\ call' = [call EXCEPT !.fn = "removed"]
    /\ UNCHANGED <<root, statemachine, flash, log, mode, work, bugs, outside>>

\* commitIfNodesWereRemoved
CommitIfNodesWereRemoved ==
    /\ call.fn \in {"removed", "failed"} /\ Idling
    /\ work' = IF replaced = <<>> THEN NoWork ELSE Committing
    /\ call' = [call EXCEPT !.fn = IF @ = "removed" THEN "log" ELSE "logFailed"]
    /\ UNCHANGED <<cache, root, statemachine, flash, log, mode, bugs, outside>>

\* The event of a removal comes last.
LogRemoval ==
    /\ call.fn \in {"log", "logFailed"} /\ Idling
    /\ log' = Logged(log, OfTree("remove", call.key, 0))
    /\ Return(IF call.fn = "log" THEN "ok" ELSE "lowMem", 0)
    /\ UNCHANGED <<cache, root, statemachine, flash, mode, work, bugs>>

\* No node could be freed.  An insertion leaves its leaf locked.
GiveUp ==
    /\ Doing("giveUp")
    /\ work' = NoWork
    /\ CASE call.fn = "find" ->
              cache' = unlockTreeCacheNode(cache, call.node) /\ Return("lowMem", 0)
         [] call.fn = "neighbor" ->
              /\ cache' = unlockTreeCacheNode(
                            unlockTreeCacheNode(cache, cache[call.node].parent), call.node)
              /\ call' = [call EXCEPT !.fn = "failed"]
              /\ UNCHANGED outside
         [] OTHER -> Return("lowMem", 0) /\ UNCHANGED cache
    /\ UNCHANGED <<root, statemachine, flash, log, mode, bugs>>

----------------------------------------------------------------------------
(* Loss of power and mount *)

IsOfTree(e) == e.op \in {"insert", "update", "remove"}

\* Entries of the tree before the last root are skipped: they are committed.
Replayed(l) ==
    LET success == {k \in DOMAIN l : l[k].op = "rootnode"}
        kept(k) == ~IsOfTree(l[k]) \/ \A r \in success : r < k
    IN  FoldLeftDomain(LAMBDA r, k : IF kept(k) THEN Append(r, l[k]) ELSE r, <<>>, l)

PowerLoss ==
    /\ losses < MaxLosses
    /\ losses' = losses + 1
    /\ cache' = [s \in Slots |-> NoNode] /\ root' = 1
    /\ replaced' = <<>> /\ phase' = "ok"
    /\ work' = NoWork /\ call' = NoCall
    /\ mode' = "replay" /\ replay' = Replayed(log)
    /\ before' = IF AtRest THEN inodes ELSE before
    /\ UNCHANGED <<flash, log, bugs, pending, answer>>

Replaying == mode = "replay" /\ call = NoCall /\ Idling

\* processEntry; what the call of an entry returns is not used.
ReplayEntry ==
    /\ Replaying /\ replay # <<>>
    /\ LET e == Head(replay)
       IN  IF IsOfTree(e)
             THEN call' = Called(e.op, e.key, e.val) /\ UNCHANGED <<statemachine, bugs>>
             ELSE Processed(e) /\ UNCHANGED call
    /\ replay' = Tail(replay)
    /\ UNCHANGED <<cache, root, flash, log, mode, work, pending, answer, before, losses>>

Mounted == mode' = "up" /\ pending' = Idle /\ answer' = NoAnswer

\* signalEndOfLog, when the last commit had come to its root, or there was none.
EndOfLogRecover ==
    /\ Replaying /\ replay = <<>> /\ phase # "invalid"
    /\ used' = IF phase = "recover" THEN Invalidated(replaced) ELSE used
    /\ page' = Erased
    /\ log' = IF WithLog /\ phase = "recover" THEN Append(log, InvalidateOldPages) ELSE log
    /\ replaced' = <<>> /\ phase' = "ok"
    /\ Mounted
    /\ UNCHANGED <<cache, root, rootAddr, work, bugs, call, before, replay, losses>>

Reverted(list) == used \ New(list)

\* When it had not: its pages are given up, and every node is committed.
EndOfLogRevert ==
    /\ Replaying /\ replay = <<>> /\ phase = "invalid"
    /\ used' = Reverted(replaced)
    /\ page' = Erased
    /\ log' = IF WithLog THEN Append(log, InvalidateOldPages) ELSE log
    /\ replaced' = <<>> /\ phase' = "ok"
    /\ cache' = [s \in Slots |-> IF s \in InUse(cache)
                                   THEN [cache[s] EXCEPT !.dirty = TRUE] ELSE cache[s]]
    /\ mode' = "recommit" /\ work' = Committing
    /\ UNCHANGED <<root, rootAddr, bugs, call, pending, answer, before, replay, losses>>

EndRecommit ==
    /\ mode = "recommit" /\ Idling
    /\ Mounted
    /\ UNCHANGED <<cache, root, statemachine, flash, log, work, bugs, call, before,
                   replay, losses>>

----------------------------------------------------------------------------

\* A device that was just formatted and mounted.
Init ==
    /\ cache = [s \in Slots |-> NoNode] /\ root = 1
    /\ replaced = <<>> /\ phase = "ok"
    /\ rootAddr = Min(Addrs) /\ used = {Min(Addrs)}
    /\ \E val \in Vals :
         page = [a \in Addrs |->
                   IF a # Min(Addrs) THEN NoNode
                   ELSE [NoNode EXCEPT !.leaf = TRUE, !.keys = <<0>>, !.inodes = <<val>>,
                                       !.stale = Zeros(leafOrder - 1), !.self = a]]
    /\ log = <<>> /\ mode = "up" /\ work = NoWork /\ bugs = {}
    /\ call = NoCall /\ pending = Idle /\ answer = NoAnswer
    /\ before = inodes
    /\ replay = <<>> /\ losses = 0

WorkStep == Work /\ UNCHANGED <<call, outside>>

Search == GetRoot \/ Descend \/ FindFirstFreeNo \/ Get \/ Update

Insert == \/ InsertExists \/ InsertLocks \/ ReserveNodes \/ InsertIntoLeaf
          \/ InsertIntoLeafAfterSplitting \/ InsertIntoNewRoot \/ InsertIntoNode
          \/ InsertIntoNodeAfterSplitting

Delete == \/ RemoveFinds \/ DeleteEntry \/ FindNeighbor \/ CoalesceNodes
          \/ RedistributeNodes \/ CommitIfNodesWereRemoved \/ LogRemoval

Recover == ReplayEntry \/ EndOfLogRecover \/ EndOfLogRevert \/ EndRecommit

\* What the program does by itself once a call or a mount has begun.
Step == WorkStep \/ Search \/ Insert \/ Delete \/ EndCommit \/ GiveUp \/ Recover

Next ==
    \/ \E op \in Ops, key \in Keys, val \in Vals \cup {0} : Begin(op, key, val)
    \/ Step
    \/ PowerLoss

Spec == Init /\ [][Next]_vars
LiveSpec == Spec /\ WF_vars(Step)

----------------------------------------------------------------------------
(* Properties *)

Entries == [op : {"insert", "update", "remove", "replace", "rootnode", "invalidate"},
            key : Keys, val : Vals \cup {0}, new : Addrs \cup {0}, old : Addrs \cup {0}]

\* TypeOK: the links of nodes are slots, the addresses are index pages, a leaf
\* and a branch never hold more than their order, and the log has its entries.
TypeOK ==
    /\ DOMAIN cache = Slots /\ root \in Slots
    /\ \A s \in Slots : /\ cache[s].parent \in Slots \cup {0}
                        /\ Kids(cache, s) \subseteq Slots
                        /\ Range(cache[s].addrs) \subseteq Addrs \cup {0}
                        /\ Range(cache[s].keys) \subseteq Keys
                        /\ Len(cache[s].keys) + Len(cache[s].stale)
                             <= Max({leafOrder, branchOrder - 1})
    /\ used \subseteq Addrs /\ rootAddr \in Addrs
    /\ Range(log) \subseteq Entries
    /\ Len(replaced) <= treeNodeCacheSize
    /\ phase \in {"ok", "invalid", "recover"}
    /\ mode \in {"up", "replay", "recommit"}

\* ImplementsTable: with every search, split, merge, eviction, commit and
\* replay, the tree is a table that changes with the calls and not otherwise;
\* a loss of power undoes no call that has returned (insertInode, getInode,
\* updateExistingInode, deleteInode, Btree::processEntry).
Table == INSTANCE InodeTable WITH
            Numbers <- Keys,
            Inodes <- Vals,
            table <- IF AtRest THEN inodes ELSE before

ImplementsTable == Table!Spec

\* The nodes one level below nodes ns, as records.
Below(ns) == UNION {{ChildOf(n, k) : k \in DOMAIN n.kids} : n \in ns}
Level == FoldLeft(LAMBDA ls, k : Append(ls, Below(Last(ls))), <<{RootNode}>>, Upwards)

\* WellFormed: between calls every leaf has the same distance from the root,
\* and every node but the root holds at least the minimum of keys
\* (insertIntoNodeAfterSplitting, coalesceNodes, redistributeNodes).
WellFormed ==
    AtRest => LET level == Level
              IN  \A k \in DOMAIN level : \A n \in level[k] :
                    /\ k > 1 => Len(n.keys) >= minKeys(n)
                    /\ \A m \in level[k] : n.leaf = m.leaf

Sorted(keys) == \A k \in 1..(Len(keys) - 1) : keys[k] < keys[k + 1]

\* isSubTreeValid for one node: links agree, keys are in order and in the
\* bounds the parent states, and only a dirty node may be without a page.
NodeValid(s) ==
    LET n == cache[s]
        p == cache[n.parent]
        at == {k \in DOMAIN p.kids : p.kids[k] = s}
    IN  /\ n.self # 0 \/ n.dirty
        /\ Sorted(n.keys)
        /\ n.parent # s =>
             /\ Cardinality(at) = 1
             /\ \A k \in at, key \in Range(n.keys) :
                  /\ k > 1 => p.keys[k - 1] <= key
                  /\ k <= Len(p.keys) => key < p.keys[k]
        /\ n.parent = s => s = root

\* CacheValid: isTreeCacheValid holds wherever the code checks it: when a
\* node is looked up or freed, and between calls.
CacheValid ==
    call.fn \in {"none", "root", "find", "reserve", "neighbor"} =>
        \A s \in InUse(cache) : NodeValid(s)

Reachable ==
    FoldLeft(LAMBDA as, k : as \cup UNION {Range(page[a].addrs) : a \in as \cap Addrs},
             {rootAddr}, Upwards)

\* CommittedIsUsed: the pages of the tree on flash, to which a mount would go
\* back at any moment, are in use and are the ones the tree takes them for
\* (writeTreeNode, invalidateOldPages, signalEndOfLog; readTreeNode checks it).
CommittedIsUsed ==
    \A a \in Reachable : a \in used /\ page[a].self = a

\* NoTreePageLeaks: between calls no index page is in use that the tree on
\* flash does not need (removeNode, replacePage, invalidateOldPages).
NoTreePageLeaks == AtRest /\ losses = 0 => used \subseteq Reachable

\* ReservedIsEnough: once the event of an insertion is written, there is a slot
\* for every node it has to create, so that no commit can come in between
\* (reserveNodes, calculateMaxNeededNewNodesForInsertion).
ReservedIsEnough ==
    /\ call.fn = "insert" => Missing = 0
    /\ call.fn = "parent" =>
         Cardinality(FreeSlots(cache)) >=
            IF Parent = Left THEN 1
            ELSE calculateMaxNeededNewNodesForInsertion(cache, Parent)

\* PathsFit: no tree can grow so deep that findLeaf gives up, because the
\* insertion that would make it so does not get its nodes (findLeaf, reserveNodes).
PathsFit ==
    InCall("find") /\ ~cache[call.node].leaf => call.depth + 1 < MaxDepth

\* LocksReleased: between calls no node is locked (lockTreeCacheNode).
LocksReleased ==
    AtRest => \A s \in Slots : ~cache[s].locked /\ ~cache[s].inherited

\* NoBug: no commit meets a page that is not in use any more or leaves a dirty
\* node behind, and no replay notes more pages than there is room for.
NoBug == bugs = {}

\* CallsEnd: a call, with all splits and merges up to the root, comes to an
\* end, and so does the mount after a loss of power.
CallsEnd == pending # Idle ~> pending = Idle

=============================================================================

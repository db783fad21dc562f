# A verification project for PAFFS

PAFFS ("protective array flash file system") is a file system for raw NAND flash
on small, radiation-prone computers.  It runs inside one program, one call at a
time; what makes it hard is not concurrency but **loss of power**: every call is
a sequence of changes to RAM, to flash and to a small non-volatile MRAM that
holds a journal, and after a loss of power between any two of them the next
mount has to bring the file system back.  Flash adds its own rules: a page can
be programmed once per erase, erasing works on whole blocks, and a block can go
bad.

This directory holds TLA+ models of that program, the TLC configurations that
check them and proofs that TLAPS checks.  All source paths are below
`src/src/`.

## 1. Inventory

### 1.1 Components

| Component | State it keeps | Operations | What makes it correct |
|---|---|---|---|
| `MramPersistence` (`journalPersistences.cpp`) | bytes and high water mark in MRAM, cursor in RAM | `rewind`, `readNextElem`, `appendEntry`, `clear` | is an append-only log that survives a loss of power at any point |
| `Journal` (`journal.cpp`) | one bit per topic, `disabled`; the log | `addEvent`, `clear`, `enable`, `processBuffer` | gives every topic exactly its entries behind its last checkpoint |
| `Superblock`, map (`superblock.cpp`) | `mMap`, `mActiveAreas`, `mUsedAreas`, `mOverallDeletions` | setters, `swapAreaPosition`, `preScan` | positions stay a permutation; the totals fit the map |
| `Superblock`, chain | anchor, jump pads and superindex on flash | `commitSuperIndex`, `readSuperIndex`, block overflow | the newest complete superindex is found |
| `AreaManagement` (`area.cpp`) | last operation at a mount | `findWritableArea`, `initAreaAs`, `closeArea`, `retireArea`, `deleteArea`, `deleteAreaContents`, `manageActiveAreaFull`, recovery | an interrupted operation is completed where it was interrupted |
| `GarbageCollection` (`garbage_collection.cpp`) | progress of a move at a mount | `findNextBestArea`, `collectGarbage`, recovery | moves lose no page; the garbage buffer is empty when needed |
| `SummaryCache` (`summaryCache.cpp`) | cached page states of some areas, summary pages on flash | `setPageStatus`, `getPageStatus`, `setSummaryStatus`, commit, eviction, recovery | page states are true of the flash and of the files |
| `PageStateMachine` (`journalPageStatemachine_impl.hpp`) | replaced pages of the running transaction | `replacePage`, `invalidateOldPages`, recovery | of an old and a new page exactly one survives |
| `DataIO` (`dataIO.cpp`) | none of its own | write, read, delete pages of an inode, recovery | files keep what was written |
| `Btree`, `TreeCache` (`btree.cpp`, `treeCache.cpp`) | cached nodes of the index | insert, update, delete, commit, eviction, recovery | inodes are found; nodes reserved are enough |
| `PageAddressCache` (`pageAddressCache.cpp`) | addresses of one inode's pages | `getPage`, `setPage`, `commit`, recovery | addresses belong to the right inode |
| `Device` (`device.cpp`) | open objects, inode pool, mount state | format, mount, flush, unmount, objects and directories, recovery | tree and directories agree |
| `InodePool`, `SmartInodePtr` (`pools.hpp`) | reference counts | get, add, remove references | freed exactly when unreferenced |
| `BitList`, `TwoBitList` (`bitlist.hpp`) | bits | set, reset, find | correct at all sizes |
| Drivers, ECC, `paffs.cpp`, `ext/` | hardware, third-party code | | not modelled |

### 1.2 How they interact

* Everything runs in the caller's thread.  Components call each other directly;
  a write goes `Device` -> `DataIO` -> `AreaManagement` (-> `GarbageCollection`)
  -> `SummaryCache`, `Superblock`, driver, and then `PageAddressCache`, `Btree`.
* Every change made only in RAM, and every change to flash, is announced by an
  entry in the journal.  A component that can recover is a *topic*; it writes
  checkpoints that retire its entries.
* `Device::mnt` reads the superindex and the two summaries in it, then
  `Journal::processBuffer` reads the log twice.  The first pass (`preScan`)
  finds the last checkpoint of every topic and rebuilds the area map; the second
  gives each topic its live entries, and topics listen to each other
  (`isInterestedIn`): area management to the superblock and the summary cache,
  garbage collection to area management, superblock and summary cache, DataIO to
  the tree.  Then each topic's `signalEndOfLog` finishes or reverts what was
  interrupted, writing to flash and journal again.
* `Device::flushAllCaches` writes everything to flash, with the superindex last,
  and clears the journal.

### 1.3 What is hard

Loss of power between any two changes, also during a mount and several times;
blocks that go bad in the middle of an operation; totals and cached page states
kept beside the data they describe; a log that is both read and appended during
recovery; limits of the log, the caches and the pools.  `PROJECT.json` lists
each of these places under `hazards` with its line and the properties that
watch it, or why none does yet.

## 2. Modules

| Module | Models | Uses |
|---|---|---|
| `AppendLog` | abstract: what the journal asks of the memory its log is in | |
| `MramPersistence` | `journalPersistences.cpp`: the log in MRAM | refines `AppendLog` |
| `MramPersistenceProofs` | theorems about `MramPersistence` | |
| `Journal` | `journal.cpp`: adding events, checkpoints, replay | refines `AppendLog` |
| `JournalProofs` | theorems about `Journal` | |
| `AreaMap` | `superblock.cpp`: the area map, its setters and their replay | |
| `FileStore` | abstract: what areas promise to the files kept in them | |
| `AreaMgmt` | `area.cpp`, `garbage_collection.cpp`, page states of `summaryCache.cpp`, one-page writes and deletions of `dataIO.cpp`, `journalPageStatemachine_impl.hpp`, mount and flush of `device.cpp` | `AreaMap`, refines `FileStore` |
| `AreaMgmtLemmas`, `AreaMgmtProofs` | theorems about `AreaMgmt`: its invariant, what single instructions do to it, room and moves; operations, mounts and losses of power, the refinement, leaks | |
| `RootRegister` | abstract: what the superblock promises about the root node and the areas with data | |
| `SuperChain` | `superblock.cpp`: anchor, jump pads, superindex, their moves; what `device.cpp` does around a flush | `AreaMap`, refines `RootRegister` |
| `SuperChainProofs` | theorems about `SuperChain` and its refinement | |
| `PageAddressCache` | `pageAddressCache.cpp`, with its page state machine and what `device.cpp` and `dataIO.cpp` do to it | |
| `InodeTable` | abstract: the tree as a table of inodes | |
| `TreeCache` | `treeCache.cpp`: slots, locks, eviction, commit, with its page state machine | |
| `Btree` | `btree.cpp`: search, insertion, removal, replay | `TreeCache`, refines `InodeTable` |
| `ObjectTree` | abstract: the device as a tree of directories and files | |
| `DeviceObjects` | `device.cpp`: calls on objects and directories, and their recovery | refines `ObjectTree` |
| `DeviceObjectsProofs`, `ObjectTreeProofs` | theorems about `DeviceObjects`: types and open objects; the tree and its refinement | |
| `InductionLemmas` | least and largest elements, induction and recursion over an interval, for the proofs | |
| `MC...` | the instances TLC checks | |

Each module replaces the ones below it by what they promise: `AreaMgmt` takes
the chain of the superblock for one register and the tree for a table of
addresses, `SuperChain` takes the other areas for taken or released,
`PageAddressCache` and `Btree` take index pages for used, dirty or free, and
`DeviceObjects` takes the tree for `InodeTable` and the data of a file for
`FileStore`.  The promises are the abstract modules, which the detailed ones
are shown to implement.

### 2.1 MramPersistence

`mram` holds pairs of an entry and the number of a byte of it, so that torn and
overwritten entries are visible; `hwm` is the high water mark, `curr` the
cursor.  `appendEntry` is two actions, one per write to MRAM; `TornWrite` stops
within the first.  The mark is four bytes, and the model takes its write for
atomic.  The caller is `Journal`: it appends only after it has read to the mark
(`pc`), which `Journal` itself guarantees (`KeepsLogContract`).  `seek` is used
by nobody but the flash variant and is left out.

### 2.2 Journal

`log` and `at` are the persistence, abstractly; `uncheckpointedChanges`,
`disabled` and `firstUncheckpointedEntry` are those of the code.  An entry
carries only what the dispatcher looks at: its kind and its topic.
`Mount`, `PreScanEntry`, `EndPreScan`, `ApplyEntry`, `EndApply` and
`SignalEndOfLog` are `enable` and `processBuffer`, one loop iteration per step.
`scanned`, `own` and `heard` record what was given to whom.  A topic's
`isInterestedIn` may also look at the entry's contents, so whether it hears one
is left open within the relation `Listens`.  What topics log in
`signalEndOfLog` are `addEvent` steps of phase "signal".  `disable` is only
called before anything is mounted.

### 2.3 AreaMap and AreaMgmt

`AreaMap` has one operator per setter; since the pre-scan of a mount calls the
same setters, `Applied` is both the effect of an entry when it is logged and
its effect when it is replayed.

In `AreaMgmt` a call is a *program*: a sequence of instructions in `prog`, one
per change that reaches the flash or the journal.  `PowerLoss` is possible
between any two.  An instruction that is a journal entry is appended to `log`
and takes effect; an entry that announces an operation (`InitAreaAs`,
`DeleteArea`, ...) is replaced by the operation's own instructions, computed
from the state at that moment as the code does.  Reads are not instructions.

| Code | Model |
|---|---|
| `findWritableArea`, `findNextBestArea`, `collectGarbage` | operators of the same names that give the programs that may follow |
| `initAreaAs`, `closeArea`, `retireArea`, `deleteArea`, `deleteAreaContents` | operators of the same names, one instruction per change |
| `moveValidDataToNewArea` | `moveValidData`, the loop over the used pages: one `CopyPage` at a time, which looks for the next |
| `setPageStatus`, `writeAreasummary` | `StepPageStatus`, `StepWriteSummary` |
| `writePageData` for one page | `Write`, `StepNewPage`, `StepManageFull`, `StepUpdate`, `Retire` |
| `deleteInodeData` for one page | `Delete` |
| `flushAllCaches` | `Flush`, `StepCommitSuperIndex`, `StepClearJournal` |
| `loadAreaSummaries`, `processBuffer`, every `preScan` and `processEntry` | `PowerLoss`: `MapFromLog`, `SumFromLog`, `AddrFromLog`, `FromLog` compute from superindex and journal what the topics hold afterwards.  Nothing is written meanwhile, so losing power during it changes nothing |
| the topics' `signalEndOfLog` | programs again: `ResumeOperation`, `ResumeGarbage`, `ResumeDataIO`, in the code's order, and power may fail in them |

`flash[pos][page]` holds the number of the call that wrote the page, which tells
all contents apart.  `addr` is the durable address of a file page.

What is simplified, and why that is sound for the properties checked:

* One area (0) holds the superblock, and a superindex is written in one step.
  Its chain of jump pads is the subject of `SuperChain`.  It is always
  written, while the code leaves it out when nothing is dirty.
* The tree's part in a write is one entry that makes the new address durable;
  the tree's own pages are not written, so no index area is allocated.
* The summary cache is unbounded; `Flush` happens only when at most two areas
  are cached, which is what the superindex holds.  That a summary page was
  written is read off the flash instead of cached in a flag.
* Capacity and low-space warnings of the journal are in `MramPersistence` and
  `Journal`, not here.
* Ties in `findNextBestArea` are broken arbitrarily; the code breaks them by
  wear.  More behaviours are allowed than the code has.
* Pages are written and copied completely or not at all; a page that is torn is
  found by the ECC, which is not modelled.
* The size of an inode, which `DataIO` may correct in the tree at the end of its
  recovery, is left out: it touches neither pages nor areas.
* Whether a block can be erased is decided when erasing its area starts.  The
  operation that a mount resumes does not look whether erasing succeeded, so
  there the erase may also fail unnoticed (where `MaxBad` allows bad blocks).

### 2.4 SuperChain and RootRegister

`flash[pos][page]` holds the entries of the superblock's areas: `anchor`, jump
pad and superindex each carry a serial number and, but for the superindex, the
position of their successor.  `map`, `root`, `path` and `serial` are what is in
RAM, `log` the journal.  As in `AreaMgmt` a call is a program in `prog`.

| Code | Model |
|---|---|
| `getAddrOfMostRecentEntryInBlock`, `...OfArea`, `getPathToMostRecentSuperIndex` | `NewestInBlock`, `NewestInArea`, `ChainOf` |
| `readSuperPageIndex`, `isPlausible`, reading the moved superindex | `MapOf`, `isPlausible`, `AfterMove` |
| `insertNewAnchorEntry`, `insertNewJumpPadEntry`, `insertNewSuperIndex` | `InsertEntry`, `Place`, `WriteEntry`, `AfterEntry` |
| `handleBlockOverflow`, `findFirstFreeEntryInArea`, `findBestNextFreeArea` | `handleBlockOverflow`, `FreeInArea`, `FreeAreas` |
| `commitSuperIndex`, `registerRootnode`, `Device::flushAllCaches` | `commitSuperIndex`, `RegisterRoot`, `Flush` |
| `preScan`, `processEntry`, `readSuperIndex` of a mount | `MountFrom`, `Replayed` |

Simplifications:

* There is one jump pad (`jumpPadNo`), as the code is configured.
* Taking and releasing an area is one step, and areas do not change their
  position; both are the subject of `AreaMgmt`.  Events of `initAreaAs` and
  checkpoints of other topics are left out.
* A mount writes nothing before the chain is found, so it is one step.
* Of the checks of `SuperIndex::isPlausible`, the model has the total of used
  areas.  It keeps no summaries of active areas and erases none of them; the
  total of deletions is checked in `AreaMgmt` (`MapPlausible`).
* Three spans are spared where the code does not recover (`Spared`), each shown
  by a configuration of its own: `overflow` from an entry that starts a new block
  to the superindex being read again, `torn` between the pages of one
  superindex, `release` between the deletion of an area and the page written
  then.  `previous` leaves out reusing the area the last jump pad names as its
  previous place.

### 2.5 PageAddressCache

`slots` are the inodes in the pool, `target` the one the cache works for,
`elems` the cached lists, one per level of each of the three trees; `tree` and
`base` are the inodes as the tree has them in RAM and on flash; `pages` are
index pages and `log` the journal.  `wanted` is what calls asked for, and is
what `ReadsBack` compares with.

| Code | Model |
|---|---|
| `getPage`, `setPage`, `loadPath`, `loadCacheElem`, `readAddrList` | operators of the same names |
| `commitPath`, `commitElem`, `writeCacheElem`, `writeAddrList`, `updateExistingInode` | `commitElem`, `writeAddrList`, `CommitTail`, `commit`; `StepElem` and the other steps of `todo` |
| `setTargetInode`, `setJournallingInode` | the same names; `Switch` |
| `processEntry`, `signalEndOfLog` | `processEntry`, `SettleWrite`, `RevertWrite`, `ResumeDeletion`, `SettlePages`, `signalEndOfLog`; `Mounted` applies them to the log |
| users of the cache: `DataIO`, `InodePool`, garbage collection, a commit of the tree | `Set`, `Get`, `EndWrite`, `Open`, `Close`, `Collect`, `TreeCommit` |

Simplifications:

* A call is one step; a commit, also the one within a call of `setPage`, and the
  end of a write take several, with `PowerLoss` before each.
* The replay of a mount is one step, and `DataIO`'s list of the pages of the
  interrupted write is part of it.  `setPage` may commit in the middle of a write,
  and `DataIO` hears the update of the tree that this logs (`heard`) as the end
  of the write.  A mount therefore reverts a write only if nothing was heard;
  otherwise it keeps a write as far as it came and goes on with a deletion
  (`SettleWrite`, `ResumeDeletion`).  Where a deletion was to end is chosen at the
  loss of power (`Resumable`), since the model has no sizes of inodes; neither
  does it have the correction of the size that `DataIO` makes then.
* Data pages are addresses without a state.  So the model does not show that in
  the case above the mount marks the *old* data page of the page being set as dirty
  (journalPageStatemachine_impl.hpp:254), although its address is not replaced
  yet, nor that data pages replaced later stay used.
* A directory is shortened by a write and a truncation in one transaction of
  `DataIO`; here they are two calls.
* An index page is taken from the lowest free one on; a call starts only with
  `MinFree` of them, so that there is always room (no space left is the subject of
  the plan).  Collection erases all dirty pages at once.
* Turns that lead to the disagreements shown below are taken only where
  `Allowed` says so: collecting pages the tree on flash still refers to
  (`erase`), freeing the slot that is the target (`slot`), correctable bit
  errors (`flip`), asserting on a list (`superblock`, `inactive`), and pages
  used after a replay (`replay`).  The pages of `pac` lie under the second tree,
  whose lists have two levels; `pac_deep` shows why not under the third.

### 2.6 InodeTable, TreeCache and Btree

`cache` holds the slots with their links, locks and dirty marks; `page`, `used`
and `rootAddr` are on flash; `replaced` and `phase` are the page state machine
of the tree; `work` lists what is left of a commit or of freeing nodes; `call`
is the function that runs.

| Code | Model |
|---|---|
| `findLeaf`, `get`, `update`, `findFirstFreeNo` | `Descend`, `Get`, `Update`, `FindFirstFreeNo` |
| `insert`, `insertIntoLeaf`, `...AfterSplitting`, `insertIntoParent`, `insertIntoNode`, `insertIntoNewRoot` | actions of the same names, one per function |
| `deleteEntry`, `adjustRoot`, `getNeighborIndex`, `coalesceNodes`, `redistributeNodes` | `DeleteEntry`, `adjustRoot`, `FindNeighbor`, `CoalesceNodes`, `RedistributeNodes` |
| `reserveNodes`, `tryGetNewCacheNode`, `calculateMaxNeededNewNodesForInsertion` | `ReserveNodes`, `Missing`, `Clean`, `Commit` |
| `lockTreeCacheNode`, `cleanFreeNodes`, `deletePathToRoot`, `resolveDirtyPaths` | operators of the same names |
| `commitCache`, `commitNodesRecursively`, `updateFlashAddressInParent` | `NextDirty`, `WriteNode`, `RegisterRootnode`, `Invalidate`, `Checkpoint` |
| `processEntry`, `signalEndOfLog` of tree and cache | `ReplayEntry`, `Processed`, `EndOfLogRecover`, `EndOfLogRevert`, `EndRecommit` |

Simplifications:

* A page is used or not, and that is durable at once; so is the root's address
  with its log entry.  Writing a node, noting the replaced page and changing the
  parent's address is one step.
* The journal is kept only where power may fail (`WithLog`), and loses what
  precedes a checkpoint.
* Keys separating nodes pass through variables of 16 bits; `Narrow` scales
  that.  Its real value makes no difference at these bounds.
* The bug check of `removeEntryFromNode` on a cut key (`Misplaced`) fails only
  where keys are cut, and a page that is freed twice only where a commit is
  repeated; both are kept, and `NoBug` says that they do not occur.
* Inode 0 is not removed.  Inserted numbers are the first free one, as in
  `Device::createInode`, but for those in `Again`.
* Printing, `findBranch`, and read and bit errors are left out.

### 2.7 ObjectTree and DeviceObjects

`table` is the tree of inodes with what every directory lists, `refs` the
references of the pool, `log` the device's own entries, `call` the step the
program is at.  `ObjectTree` has no steps: a call is done, or refused.

| Code | Model |
|---|---|
| `getInodeOfElem`, `getParentDir`, `findFirstFreeNo` | operators of the same names over paths of names |
| `mkDir`, `createFile`, `mkObjInode`, `insertInodeInDir` | `MkDir`, `CreateFile`, `LogMkObjInode`, `InsertInode`, `LogInsertIntoDir`, `InsertInodeInDir`, `Checkpoint` |
| `remove`, `removeInodeFromDir` | `RemoveObject`, `LogRemoveObj`, `RemoveContents`, `RemoveInodeFromDir`, `CheckpointUnlisted`, `DeleteInode` |
| `open`, `close`, `flush`, `write`, `truncate`, `chmod` | `Open`, `Close`, `Flush`, `Write`, `WriteFile`, `Truncate`, `TruncateObj`, `Chmod`, `UpdateInode` |
| `processEntry`, `signalEndOfLog` | `PowerLoss`, `TargetInode`, `FolderInode`, `Undo`, `SignalEndOfLog` |

Simplifications:

* One change of the tree or of a directory's contents is one step, because
  `Btree`, `AreaMgmt` and the mount of `DataIO` make it so; a directory is
  shortened by a write and a truncation, which `DataIO` completes together.
* A file is empty or has data, and a reference count is bounded by `MaxOpen`.
* Reading, seeking, listing, times and touching a file that exists change
  nothing here; files are opened for reading.
* The capacity of the journal is not here; `MaxLog` bounds the notes a call
  starts with.
* `Spared` leaves out `refused` and `unlisted` (power lost after a removal was
  refused, or between unlisting and deleting, where the mount goes wrong),
  `noSpace` (a directory that cannot be written), `belowFile` (objects made
  below a file, which `mkDir` does not check) and `root` (removing the root).
  The runs and the proofs do not leave out `root`: after it every path ends in
  the failure to load the root inode (`Root`).
* `mkDir` of the path of the root is not refused, and makes an entry with an
  empty name, at which every later search in the directory ends as a bug
  (device.cpp:629).  A run takes this call when the empty name `NoName` is among
  its `Names`; the listed runs and the proofs leave it out.  With `Names = {"a", ""}`
  in `MCDeviceObjects.cfg`, `NoOrphans` fails: the mount that looks for the entry
  of an interrupted creation gets no answer, and keeps the inode.
* `getNameOfInodeInDir` copies the name it found over the pointer it was given
  instead of to where that points (device.cpp:757).  Its caller only looks at the
  result; what an overrun of a longer name does to the stack is not modelled.
* `removeInodeFromDir` takes out the first entry of the inode; that there is only
  one is proved, not assumed.

## 3. Runs

`expect: pass`:

| Run | Question | Bounds and why they are enough |
|---|---|---|
| `mram` | Does MRAM behave as an append-only log whenever power fails? | Eight bytes, entries of 1, 2 and 3 bytes: short entries over the remains of long ones and the reverse, a full log, a log whose last entry ends before the largest would fit |
| `journal` | Does replay give every topic what it must, whenever power fails? | Two topics, one listening; four entries: two changes and two checkpoints in any order, and appends during recovery |
| `areas` | Do files, page states and the area map survive calls, garbage collection and two losses of power? | Four areas (superblock, garbage buffer, two of data) of two pages, one file page, six calls: an area is filled, garbage is collected with and without valid data, and a mount is interrupted at each of its steps |
| `bad_blocks` | Does a block that goes bad do no harm, and is every page freed at last? | Areas of two blocks, one may be bad: of the victim or of the garbage buffer; two file pages, so that areas hold pages of both |
| `chain` | Does the superblock forget nothing while its chain moves? | Two blocks of two pages: each element fills blocks and areas, at different times; five areas, so that a free one may be missing |
| `pac` | Are addresses of files found again through eviction, commit, switching and loss of power? | Two files; lists of two addresses; pages 4 and 5 are neighbours under different lists of the second tree, whose lists have two levels, so that each evicts the other's; room for six replaced pages, so that a write commits in its middle whenever one was replaced before; four changes, writes and deletions of up to two pages, one loss of power |
| `btree` | Is the tree a balanced table, also in the middle of a loss of power? | Six keys in nodes of two and three: three levels, with splits and merges up to the root; five cache nodes, so that nodes are evicted and committed within a call; one loss of power at every step |
| `btree_calls` | Do all operations do what they promise when the cache is too small? | Eight keys in wider nodes, so that nodes borrow from each other, and four cache nodes, so that some insertions get no room |
| `objects` | Are calls on objects whole, and do removals end? | Two objects besides the root, beside or below each other; two losses of power, so that the mount itself is interrupted |

In these runs power does not fail within the spans named by `Spared`, and turns
not in `Allowed` are not taken.  These are exactly the cases for which the
configurations below show that the code does not recover; outside them
everything holds.  Each is as narrow as the disagreement allows.

The models are bounded and may stop when a bound is used up, so all runs but
`mram` and `journal` do not check for deadlock.

`expect: violation`, each one disagreement of the code with its documentation
(`findings` in `PROJECT.json` quotes both):

| Run | What TLC finds |
|---|---|
| `flush` | Power fails between writing the superindex and clearing the journal.  The mount applies the journal to a map that already contains it; a swap is undone, and addresses point to other pages |
| `pac_deep` | Two pages under different lists of the second of three levels have the same position in the third; the cached list of one is taken for the other's |
| `objects_refused` | The removal of a protected file is refused after it has been noted in the journal; power fails, and the mount removes the file |

Further configurations in this directory run the same modules, and are worth
running by hand.  All but the last end with the violation they are for:

| Configuration | What TLC finds |
|---|---|
| `MCAreaMgmtGcErase` | Power fails while garbage collection erases the old position of a moved area.  Recovery erases the *new* position of it, with the data |
| `MCAreaMgmtLostBuffer` | Without a garbage buffer, collecting an area that has no valid data swaps it with area 0: the superblock's area moves |
| `MCAreaMgmtRecovery` | Power fails while a mount reverts an interrupted move.  The next mount takes the mount's own entry for the move's progress, and dirty pages become used ones nobody refers to |
| `MCSuperChainOverflow` | Power fails after the block with the newest entry is erased and before the entry that replaces it is written: no chain is found |
| `MCSuperChainPages` | A superindex of two pages in a new block has serial number 0 on both; the search takes each 0 for a new beginning, ends at the second page, and the chain just written is not found |
| `MCSuperChainPrevious` | The newest jump pad names the area it came from, and reading the chain again frees that area although it has been given to files since |
| `MCSuperChainSkip` | Power fails after an area is released and before a page is written: nothing is dirty after the mount, so the next flush writes no superindex and clears the journal that says so |
| `MCPacSlot` | The inode that is the target is freed, and its slot used for another: addresses go to the other file |
| `MCPacFlip` | A correctable bit error marks a list dirty and not its parents: the commit asserts |
| `MCPacEmpty` | A list that was emptied is taken for one in the superblock: an assertion fails |
| `MCPacErase` | Collection erases lists that the tree on flash still refers to; after a loss of power they are gone |
| `MCPacTwice` | Two losses of power: a mount that finds nothing to commit sets no checkpoint, so the second replay gets the changes of two inodes; the copy of the inode changes under the cache, which keeps the lists of the first |
| `MCBtreeOverflow` | Two losses of power: the second replay notes more replaced pages than there is room for |
| `MCBtreeTwice` | Two losses of power: the pages the first mount wrote are freed by the second although the root refers to them |
| `MCBtreeNarrow` | With more inodes than 16 bits can count, keys between nodes are truncated and inodes are not found |
| `MCDeviceObjectsUnlisted` | Power fails after an object is unlisted and the journal says so: it is never deleted |
| `MCDeviceObjectsNoSpace` | A directory cannot be written: the new inode stays, and no directory lists it |
| `MCBtreeLive` | passes: calls end, with a cache of three nodes and a loss of power |

The properties:

* `ImplementsAppendLog`, `KeepsLogContract`: MRAM implements what the journal
  needs, and the journal uses it only so.
* `ReadsWholeEntries`, `AppendsAtMark`: decoding never goes astray, never leaves
  the MRAM, and appends leave no gap.
* `SuppressionIsSafe`: a suppressed checkpoint would have been redundant.
* `ReplayIsExact`, `PreScanIsComplete`: what topics are given.
* `MountCompletes`: a mount ends, unless power fails.
* `KeepsFiles`: no step of any call, collection or mount changes what a file
  page holds, except to what the running call writes or to nothing.  A file that
  already lost its page for good is not protected by it; that is `FilesIntact`.
* `FilesIntact`, `NoPageLeaks`: page states are true of the files and of the
  flash, in both directions.
* `WritesHitErasedPages` (of `AreaMgmt` and of `SuperChain`): no page is
  programmed twice.
* `GarbageBufferErased`, `ActiveAreaUsable`, `MapPlausible`: what the next call,
  the next mount and the superblock rely on.
* `ImplementsRegister`: root node and areas with data change only as asked,
  whatever the chain does, and no commit, loss of power or mount shows.
  `MountFindsAll` is the stronger form at rest: a mount would find the very map
  and path that are in RAM.  `ClearedIsCovered`: the journal is cleared only
  when the superindex alone says the same.  `ChecksPass`, `ChainKeepsOut`: the
  chain never meets its own error checks, and keeps to its areas.
* `ReadsBack`: addresses are what was set last; a loss of power undoes the write
  it interrupts and no other, but behind a commit in its middle keeps a write as
  far as it came, and completes a deletion.  `CommittedIsOnFlash`: when
  nothing is dirty, flash alone says so.  `CommittedIsUsed`, `NoIndexPageLeaks`:
  exactly the index pages needed are used.
* `ImplementsTable`: the tree is a table in which calls take effect at one
  moment and, once returned, for good.  `WellFormed`, `CacheValid`: it is
  balanced and its keys and links agree.  `ReservedIsEnough`: nodes
  reserved are enough, so no commit happens inside an insertion's event.
  `CommittedIsUsed`, `NoTreePageLeaks`: exactly the pages needed are used.
  `LocksReleased`, `NoBug`: no lock is left, no assertion fails.
* `ImplementsTree`: calls on objects are done as a whole or not at all.
  `NoOrphans`: every inode is listed exactly once.  `OpenIsKept`: nothing open
  is deleted.  `RemovalEnds`: a removal past its checks is completed.

Some of them hold under a condition that is part of the property or of the run.
A refused insertion (`lowMem`) can leave a leaf locked and a refused removal an
under-filled leaf, so `LocksReleased` and `WellFormed` are checked where the
cache suffices.  A mount of `PageAddressCache` or of `Btree` may leave index
pages used that nobody refers to, so `NoIndexPageLeaks`, `NoTreePageLeaks` and
`PageAddressCache`'s `CommittedIsUsed` speak of the time before a loss of power.

Every property of a run has a mutant, an operator named `Bad_...` beside the
definition it would replace, that changes the code as a plausible slip would and
that violates the property.

### Fairness

PAFFS runs in the caller's thread, so a call or a mount that has begun takes its
next step unless power fails.  Three properties need just that:
`MountCompletes` assumes `WF_vars(MountStep)`, `RemovalEnds` assumes
`WF_vars(Step)` of `DeviceObjects`, and `CallsEnd` (in `MCBtreeLive`)
`WF_vars(Step)` of `Btree`.  Nothing is assumed about callers, about power or
about topics appending entries; losses of power are bounded, and appending ends
because the log is finite.


## 4. Proofs

`JournalProofs` proves, for any number of topics, any relation of listening and
any capacity of the log (assumption `JournalAssumption` only):

* `TypeCorrect`, `SuppressionCorrect`, `ReplayCorrect`, `PreScanCorrect`:
  `TypeOK`, `SuppressionIsSafe`, `ReplayIsExact` and `PreScanIsComplete` hold in
  every reachable state of `Spec`;
* `JournalImplementsLog` (`KeepsLogContract`): `Spec` implements `AppendLog`.

They rest on the inductive invariant `IInv`.  `ReplayIsExact` is a statement
about one moment only, the end of the second pass, and says nothing about how
it came about.  `IInv` therefore describes every prefix: in the pre-scan
`firstUncheckpointedEntry[t]` is the last checkpoint of `t` among the first `at`
entries, afterwards among all; in the second pass `own[t]` is the set of changes
of `t` among the first `at` entries that lie behind it; while the log is read it
is disabled, and otherwise the cursor stands at its end; and a bit that is not
set comes with a checkpoint that no change follows.  One lemma per part shows
that every action preserves it, and the refinement follows from the position of
the cursor.  `PreScanIsComplete` again speaks of one moment; `ScanInv` says the
same of every prefix the first pass has read, and is inductive on top of `IInv`.

`MramPersistenceProofs` proves, for any entries, sizes and MRAM that satisfy
`SizeAssumption`, that `TypeOK`, `ReadsWholeEntries` and `AppendsAtMark` hold in
every reachable state of `MramPersistence` (`TypeCorrect`, `ReadsCorrect`,
`AppendsCorrect`).  None of the three is inductive: nothing in them says what
lies behind the entry just read.  Its `IInv` says that *some* set of offsets
exists that are the boundaries of entries: at each of them but the mark lies a
whole entry that ends at another one, and a reader stands on one of them.
Since the set need not be computed from the bytes, no induction over them is
needed: a read moves from one boundary to the next, `WriteMark` adds the new
mark to the set, `Clear` leaves only the header, and a write, torn or not, lies
behind all of them.

`ImplementsLog` is the refinement of `AppendLog`.  What the MRAM holds is decoded
by a recursive function over the offsets (`Decoded`), and tlapm cannot use
the library's theorems on recursion, which take an operator as a parameter.
`InductionLemmas` therefore proves from the least element of a set of numbers
what is needed: a step function has exactly one solution over an interval
(`RecursionExists`, `RecursionUnique`), and two that agree on a prefix agree
there (`RecursionAgrees`).  With that, a write behind the mark changes nothing
that is decoded before it, and `WriteMark` decodes exactly one entry more.

`DeviceObjectsProofs` proves `TypeCorrect` and `OpenKept` (`OpenIsKept`) for any
numbers of inodes, names, references and losses of power, and whatever `Spared`
leaves out: nothing that is known to go wrong deletes an open inode.

`ObjectTreeProofs` proves `TreeHasNoOrphans` (`NoOrphans`), `TreeEntriesExist` and
`DeviceImplementsTree` (`ImplementsTree`).  `NoOrphans` is not inductive: in the
middle of a call it is false, and a mount can repair that only because of what
the call noted.  `TreeInv` says of every step of every call and mount what table
and notes are there: between calls the table is a tree, and within one it is
the tree from before (`Was`, the objects the abstract specification still shows)
or one of the few stages of the call (`Made`, `Cleared`, `Unlinked`, `Done`),
with the notes that let a mount complete or revert it.  That a table is a tree
says that every inode is listed once and that every set that holds the root and
what its members list holds all inodes (`Connected`); reachability told by closed
sets needs no induction over the depth of a path.  The refinement then follows,
since `before` changes only where a call returns or a mount ends.

`SuperChainProofs` proves, for any number of areas, blocks, pages and root nodes,
any positions of the areas and any bound of the log, that each property of
the run `chain` holds: `ChecksAlwaysPass`, `ErasedBeforeWritten`,
`MountLosesNothing`, `ChainIsKeptOut`, `LogClearedWhenCovered` and the refinement
`ChainImplementsRegister`; moreover `TypeCorrect`, `UsedAlwaysTrue` and
`RereadAlwaysKeepsData`, which the run does not list.  They rest on `IInv`
(`ChainInvariant`), which has one part per stage of a call:

* `InCall`, while only the journal grows: superindex and journal together say
  what map and root node in RAM are (`Sound`), and every element of the chain is
  the newest of its area and names its successor (`Chained`).
* `InCommit`, while entries are written, from the superindex up: with element `i`
  in hand, those behind it lie in their new places, those before it where
  `path` says (`Pending`).  Element `i` goes on in its area (`Stays`), perhaps in a
  block that is erased first, or leaves it for another (`Moves`).
* `Committed`: the new chain says alone what the map says (`Done`), and the
  journal is about to be retired and the superindex read again.
* `Reread`: only clearing the journal is left.

Throughout, replaying the journal on the map in RAM changes nothing (`Settled`),
which is why an old journal does no harm beside a new superindex.  It is proved
from one fact about a replay (`ReplayDrift`): field by field of the map, a log
either fixes the value or leaves alone what was there, so replaying it twice is
replaying it once.  The search for the newest entry takes serial numbers as they
are; the pages of an area are written one after the other and their numbers
grow (`Filled`), so it finds the last entry written.  The refinement maps a journal entry to the step of
`RootRegister` that was asked for, and every step of a commit to a stutter,
since data areas and root node of superindex and journal stay the same.
`TypeCorrect` bounds what grows: a serial number by the pages of an area, and
the total of used areas, which counts an area twice while an element moves, by
two more than there are.

`AreaMgmtLemmas` and `AreaMgmtProofs` prove, for any number of areas, pages,
blocks, file pages, calls and losses of power, and any reserve of free areas,
every property of the run `areas`, and those of `bad_blocks` where no block goes
bad: `AreaMgmtTypes`, `AreaWritesErased`, `AreaFilesIntact`,
`AreaGarbageBufferErased`, `AreaActiveUsable`, `AreaMapPlausible`,
`AreaNoPageLeaks` and the refinement of `FileStore`, `AreasKeepFiles`; moreover `AreaPositionsDistinct`, `AreaFreePagesErased` and
`AreaSuperblockStays`.  Most of these speak of the time between calls, and are
true then only because a mount repairs what a call left, and because losing
power again in the repair does no harm.  They rest on `Inv`
(`AreaMgmtInvariant`): either a flush has written the superindex and is about to
clear the journal (`Flushing`), or `Sound` and `Stage` hold.

* `Sound` is about what is stored, at every moment.  Replaying the journal on
  the superindex gives the map and the addresses that are in RAM (`Recovered`).
  The page states a mount would find are defined beside those in RAM: `logged`
  takes the last live entry for a page, `ram` what the cache has, and the two are
  equal but for an area that is being deleted (`SumOK`).  `MapOK` says what holds
  of positions, types, active areas and totals, the totals up to the entry by
  which a running operation may be ahead or behind (`Adjust`).  `PagesOK` relates
  page states and flash: free pages are erased, pages of files are used, empty
  areas and the garbage buffer are erased, areas whose summary was written are
  dirty.
* What an interrupted operation, move or transaction left is read from the
  journal as a mount would read it: `lastOp` and `ext` for `AreaManagement`, `mv` and
  `target` for `GarbageCollection`, `replaced`, `updated` and `invalidated` for
  `DataIO`.  `OpOK`, `MoveOK` and `TxOK` say for each of their values what is
  already done.
* `Stage` says that the program that runs fits to that: for an operation it is
  what `ResumeOperation` would do now (`Behind`), with the blocks erased so far;
  for a move, the pages copied so far; for a transaction, whether its new page
  is written.  A mount goes through the same stages, which is why losing power in
  it is one case and not many.

The proof has one lemma per kind of journal entry on each view of the journal, one
per instruction and stage, and one for a loss of power (`PowerIs`): a mount
finds the map, page states and addresses there were, and its program is the rest of
the operation.  A step changes what a file page holds only where `StepUpdate`
gives it a new address, which is the refinement.

`AreaNoPageLeaks` needs more than `Inv`, which says what is true of the pages of
files, and little of other pages that count as used.  `NoLeaks` is the rest:

* `UsedOwned`: a page that counts as used is the page of a file, or the one that
  an open replacement would have to get rid of if power failed now (`Pending`): the
  new page until the address is updated, the old one from then on.
* `RetiresPending`: the program gets rid of that very page, and closes the
  replacement only when the page counts as used no more.
* `AllOwned`: summaries that are still to be set, in the whole program, name
  pages of files only, and no area is scanned that a mount will erase again.
* `CopiesOwned`: a move that goes on has copied pages of files only, so that the
  scan by which a mount makes up the summary of the new position counts no other
  page as used.
* `RevertsKnown`: a mount that finds a move in its first stage reverts it.

The last is what a second loss of power breaks: the mount that reverts writes
entries of its own, and the next takes them for the progress of the move.  So
`"recovery" \in Spared` is a hypothesis of this theorem, and of no other.

Working the proof out showed a flaw of the model, which is corrected:
`ResumeOperation` had overlapping cases, so that the formula allowed more than
the code does, where TLC took the first case only.

The invariants `TreeInv` and the `IInv` of `SuperChainProofs` were checked with TLC,
on small instances, before they were proved.  So was `Inv`, on three: that of
the run `areas`; one with two blocks in an area and two file pages; one with five
areas of three pages.  The parts of `NoLeaks` were checked on two, with two
blocks in an area, and one file page or two.

Three hypotheses are named `Careful`, in `AreaMgmtLemmas`, `ObjectTreeProofs` and
`SuperChainProofs`.  Each is met by the instance of the run, and each of its
parts is needed:

| Hypothesis | Why |
|---|---|
| areas: `flush` and `gcErase` in `Spared` | the run `flush`, `MCAreaMgmtGcErase` |
| areas: `recovery` in `Spared`, for `AreaNoPageLeaks` only, and beside `Careful` | `MCAreaMgmtRecovery` |
| areas: `MaxBad = 0` | `MCAreaMgmtLostBuffer`: after the garbage buffer is lost, a collection moves the superblock's area |
| tree: `refused`, `unlisted` and `noSpace` in `Spared` | the run `objects_refused`, `MCDeviceObjectsUnlisted`, `MCDeviceObjectsNoSpace` |
| tree: no empty name in `Names` | with one, `NoOrphans` fails (section 2.7) |
| tree: `belowFile` in `Spared` | `mkDir` below a file writes entries to a file, which the device does not check |
| chain: `overflow`, `release` and `previous` in `Spared` | `MCSuperChainOverflow`, `MCSuperChainSkip`, `MCSuperChainPrevious` |
| chain: `SuperPages = 1` | `MCSuperChainPages`; in the instance of the run with two pages `ChecksPass` fails |
| chain: `BlocksPerArea > 1` | with one block an element that fills its area finds no other block, and `WritesHitErasedPages` fails in the instance of the run |

Only model-checked: the invariants of `PageAddressCache`, and those of `Btree` with
`TreeCache` and its refinement; all properties of `AreaMgmt` where a block
goes bad; `MountCompletes` and `RemovalEnds`, since liveness under fairness is
out of the prover's reach.

## 5. Plan

What is done: `AppendLog`, `MramPersistence`, `Journal` with their proofs;
`AreaMap`, `FileStore`, `AreaMgmt`, `RootRegister`, `SuperChain`, `ObjectTree`,
`DeviceObjects` with theirs; `PageAddressCache`; `InodeTable`, `TreeCache`, `Btree`.
What is left, in the order of importance:

1. Proofs: `PageAddressCache`, one conjunct per property; `CacheValid` and
   `LocksReleased` of `Btree`.
2. `SummaryCache`: the bounded cache, eviction, the flags of an element,
   recovery of more than two areas.
3. `DataIO` with several pages, partial failure and no space left.
4. Low space in the journal leading to flushes in the middle of calls.
5. `InodePool`, `BitList`: reference counts of eight bits; boundaries.
6. A run of `AreaMgmt` with enough areas to reach position 6 and the
   wear-levelling branches, and an index client.

### Not modelled

`FlashPersistence` (no device creates one), drivers and ECC (hardware),
`paffs.cpp` (passes calls on), `ext/`, `it/` and `test/`.

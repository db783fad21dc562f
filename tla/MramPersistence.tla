-------------------------- MODULE MramPersistence --------------------------
(***************************************************************************)
(* The journal's log in non-volatile RAM (class MramPersistence,           *)
(* src/src/journalPersistences.cpp).                                       *)
(*                                                                         *)
(* The first HeaderSize bytes hold the high water mark, the offset behind  *)
(* the last valid entry; the entries lie behind them without gaps.         *)
(* appendEntry writes the entry's bytes first and the mark second, so a    *)
(* loss of power between (or during) the two writes must leave the log as  *)
(* it was.  Reading and appending share the volatile offset curr.          *)
(*                                                                         *)
(* The caller is Journal: it rewinds, reads up to the mark, and only then  *)
(* appends (Journal::processBuffer keeps `disabled` set while it reads).   *)
(***************************************************************************)
EXTENDS Naturals, Sequences

CONSTANTS
    Entry,          \* the journal entries
    Size,           \* Size[e] is what getSizeFromJE returns for e
    HeaderSize,     \* sizeof(PageAbs), the bytes of the high water mark
    MaxSize,        \* sizeof(journalEntry::Max), which covers every entry
    MramSize        \* bytes of MRAM

ASSUME SizeAssumption ==
    /\ HeaderSize \in Nat \ {0}
    /\ MaxSize \in Nat \ {0}
    /\ MramSize \in Nat
    /\ HeaderSize + MaxSize <= MramSize
    /\ Size \in [Entry -> 1 .. MaxSize]

VARIABLES
    mram,   \* the bytes behind the header: <<e, k>> is byte k of entry e
    hwm,    \* the high water mark in MRAM, NoMark on a blank device
    curr,   \* MramPersistence::curr
    pc      \* where the caller is: "off", "scan", "ready", or "mark" between
            \* the two writes of appendEntry

vars == <<mram, hwm, curr, pc>>

NoMark == 2 * MramSize      \* stands for UINT32_MAX

Offset == HeaderSize .. MramSize - 1

Blank == <<>>

Byte == (Entry \X (0 .. MaxSize - 1)) \union {Blank}

(* The entry whose bytes start at offset o, completely. *)
IsEntryAt(e, o) ==
    /\ o + Size[e] <= MramSize
    /\ \A k \in 0 .. Size[e] - 1 : mram[o + k] = <<e, k>>

(* Types of the MRAM's bytes, the high water mark and the offset; also that the
   mark never points outside the MRAM. *)
TypeOK ==
    /\ mram \in [Offset -> Byte]
    /\ hwm \in (HeaderSize .. MramSize) \union {NoMark}
    /\ curr \in {0} \union (HeaderSize .. MramSize)
    /\ pc \in {"off", "scan", "ready", "mark"}

Init ==
    /\ mram = [o \in Offset |-> Blank]
    /\ hwm = NoMark
    /\ curr = 0
    /\ pc = "off"

-----------------------------------------------------------------------------

(* rewind() *)
Rewind ==
    /\ pc # "mark"
    /\ curr' = HeaderSize
    /\ pc' = "scan"
    /\ UNCHANGED <<mram, hwm>>

(* mutant: a blank MRAM is taken for one with a log *)
Bad_AtMark == curr >= hwm

AtMark == hwm = NoMark \/ curr >= hwm

(* readNextElem() at or behind the mark: Result::notFound *)
ReadNotFound ==
    /\ pc = "scan"
    /\ AtMark
    /\ pc' = "ready"
    /\ UNCHANGED <<mram, hwm, curr>>

(* readNextElem() before the mark: the entry's own bytes tell its size *)
ReadNextElem ==
    /\ pc = "scan"
    /\ ~AtMark
    /\ \E e \in Entry :
          /\ mram[curr] = <<e, 0>>
          /\ curr' = curr + Size[e]
    /\ UNCHANGED <<mram, hwm, pc>>

(* the bytes from curr on, n of them overwritten with those of e *)
Written(e, n) ==
    [o \in Offset |-> IF o \in curr .. curr + n - 1 THEN <<e, o - curr>> ELSE mram[o]]

(* mutant: only the entry itself has to fit, not the largest one *)
Bad_HasSpace == curr < MramSize

(* appendEntry refuses (Result::noSpace) unless the largest entry would fit *)
HasSpace == curr + MaxSize <= MramSize

(* appendEntry(e), first write: the entry's bytes *)
WriteEntry(e) ==
    /\ pc = "ready"
    /\ HasSpace
    /\ mram' = Written(e, Size[e])
    /\ curr' = curr + Size[e]
    /\ pc' = "mark"
    /\ UNCHANGED hwm

(* appendEntry(e), second write: the mark *)
WriteMark ==
    /\ pc = "mark"
    /\ hwm' = curr
    /\ pc' = "ready"
    /\ UNCHANGED <<mram, curr>>

(* mutant: clear() rewinds but leaves the mark *)
Bad_Clear ==
    /\ pc = "ready"
    /\ curr' = HeaderSize
    /\ UNCHANGED <<mram, hwm, pc>>

(* clear(): the entries stay in MRAM, only the mark goes back *)
Clear ==
    /\ pc = "ready"
    /\ curr' = HeaderSize
    /\ hwm' = HeaderSize
    /\ UNCHANGED <<mram, pc>>

(* Power is lost; the constructor of the next run sets curr to 0. *)
PowerLoss ==
    /\ pc # "off"
    /\ curr' = 0
    /\ pc' = "off"
    /\ UNCHANGED <<mram, hwm>>

(* Power is lost while the bytes of e are being written. *)
TornWrite(e, n) ==
    /\ pc = "ready"
    /\ HasSpace
    /\ mram' = Written(e, n)
    /\ curr' = 0
    /\ pc' = "off"
    /\ UNCHANGED hwm

Next ==
    \/ Rewind
    \/ ReadNotFound
    \/ ReadNextElem
    \/ \E e \in Entry : WriteEntry(e)
    \/ WriteMark
    \/ Clear
    \/ PowerLoss
    \/ \E e \in Entry : \E n \in 1 .. Size[e] - 1 : TornWrite(e, n)

Spec == Init /\ [][Next]_vars

-----------------------------------------------------------------------------

(***************************************************************************)
(* The abstract log: the entries that start before the mark, in the order  *)
(* in which they lie in the MRAM, and how many of them start before curr.  *)
(***************************************************************************)
IsEntryStart(o) == o \in Offset /\ mram[o] # Blank /\ mram[o][2] = 0

Mark == IF hwm = NoMark THEN HeaderSize ELSE hwm

Decoded[limit \in 0 .. MramSize] ==
    IF limit = 0 THEN <<>>
    ELSE IF IsEntryStart(limit - 1) THEN Append(Decoded[limit - 1], mram[limit - 1][1])
    ELSE Decoded[limit - 1]

Before == IF curr < Mark THEN curr ELSE Mark

Abstract == INSTANCE AppendLog WITH
    log <- Decoded[Mark],
    at  <- Len(Decoded[Before])

(* The MRAM is the append-only log the journal needs: an append takes
   effect at once, when the mark is written, and a loss of power at any
   point of appendEntry leaves all entries or all entries and the new one. *)
ImplementsAppendLog == Abstract!LogSpec

(* Every read before the mark finds a whole entry, ends at or before the
   mark, and the sizeof(Max) bytes that readNextElem copies lie inside the
   MRAM although the entry itself may be shorter. *)
ReadsWholeEntries ==
    (pc = "scan" /\ ~AtMark) =>
        /\ curr + MaxSize <= MramSize
        /\ \E e \in Entry : IsEntryAt(e, curr) /\ curr + Size[e] <= hwm

(* Between two entries the writer stands exactly at the mark, so that the
   next append neither leaves a gap nor overwrites an entry that counts. *)
AppendsAtMark ==
    pc = "ready" => curr = Mark

=============================================================================

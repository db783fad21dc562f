----------------------- MODULE MramPersistenceProofs -----------------------
(***************************************************************************)
(* Proofs about MramPersistence, for any entries, sizes and MRAM.          *)
(*                                                                         *)
(* What the invariants need is that the entries up to the mark lie without *)
(* gaps, and that the cursor meets a boundary between two of them.  Which  *)
(* boundaries there are is left open: IInv says that a set of them exists. *)
(***************************************************************************)
EXTENDS MramPersistence, InductionLemmas, SequenceTheorems, TLAPS

(* The offsets of S are the boundaries between the entries that count: at
   each of them but the mark lies a whole entry, which ends at another, and
   the largest entry would fit there, too. *)
Boundaries(S) ==
    /\ S \subseteq HeaderSize .. Mark
    /\ HeaderSize \in S
    /\ Mark \in S
    /\ \A o \in S \ {Mark} :
          /\ o + MaxSize <= MramSize
          /\ \E e \in Entry : IsEntryAt(e, o) /\ o + Size[e] \in S

(* A reader stands on a boundary, a writer at the mark; between the two
   writes of appendEntry a whole entry lies between mark and cursor. *)
CursorOn(S) ==
    /\ pc = "scan" => curr \in S
    /\ pc = "ready" => curr = Mark
    /\ pc = "mark" =>
          /\ Mark + MaxSize <= MramSize
          /\ \E e \in Entry : IsEntryAt(e, Mark) /\ curr = Mark + Size[e]

IInv == TypeOK /\ \E S \in SUBSET Nat : Boundaries(S) /\ CursorOn(S)

-----------------------------------------------------------------------------

(* The sizes are what the assumption says; the mark of a log that is not blank
   is not the blank one. *)
LEMMA Sizes ==
    /\ HeaderSize \in Nat /\ HeaderSize >= 1
    /\ MaxSize \in Nat /\ MaxSize >= 1
    /\ MramSize \in Nat /\ HeaderSize + MaxSize <= MramSize
    /\ NoMark \in Nat /\ NoMark > MramSize
    /\ \A e \in Entry : Size[e] \in Nat /\ 1 <= Size[e] /\ Size[e] <= MaxSize
  BY SizeAssumption DEF NoMark

(* The mark points behind the header and not beyond the memory. *)
LEMMA MarkRange ==
    ASSUME TypeOK
    PROVE  Mark \in HeaderSize .. MramSize
  BY Sizes DEF TypeOK, Mark

(* Writing at the mark disturbs no entry that counts (appendEntry, torn or
   not, before the mark is written). *)
LEMMA WriteKeepsEntries ==
    ASSUME TypeOK, NEW S \in SUBSET Nat, Boundaries(S), curr = Mark,
           NEW e \in Entry, NEW n \in 1 .. Size[e], HasSpace,
           mram' = Written(e, n), hwm' = hwm
    PROVE  /\ mram' \in [Offset -> Byte]
           /\ Boundaries(S)'
<1>1. /\ Mark \in HeaderSize .. MramSize
      /\ Mark' = Mark
  BY MarkRange DEF Mark
<1>2. mram' \in [Offset -> Byte]
  <2>1. ASSUME NEW o \in Offset
        PROVE  mram'[o] \in Byte
    <3>1. CASE o \in curr .. curr + n - 1
      <4>1. o - curr \in 0 .. MaxSize - 1
        BY <3>1, <1>1, Sizes DEF Offset
      <4>2. mram'[o] = <<e, o - curr>>
        BY <3>1 DEF Written
      <4>3. QED
        BY <4>1, <4>2 DEF Byte
    <3>2. CASE o \notin curr .. curr + n - 1
      BY <3>2 DEF Written, TypeOK
    <3>3. QED
      BY <3>1, <3>2
  <2>2. QED
    BY <2>1 DEF Written
<1>3. ASSUME NEW o \in S \ {Mark}
      PROVE  /\ o + MaxSize <= MramSize
             /\ \E f \in Entry : IsEntryAt(f, o)' /\ o + Size[f] \in S
  <2>1. PICK f \in Entry : IsEntryAt(f, o) /\ o + Size[f] \in S
    BY <1>3 DEF Boundaries
  <2>2. /\ o \in HeaderSize .. Mark
        /\ o + Size[f] \in HeaderSize .. Mark
    BY <1>3, <2>1 DEF Boundaries
  <2>3. ASSUME NEW k \in 0 .. Size[f] - 1
        PROVE  mram'[o + k] = <<f, k>>
    <3>1. /\ o + k \in Offset
          /\ o + k < curr
      BY <2>2, <1>1, Sizes DEF Offset
    <3>2. mram'[o + k] = mram[o + k]
      BY <3>1, <1>1, Sizes DEF Written
    <3>3. QED
      BY <3>2, <2>1 DEF IsEntryAt
  <2>4. o + Size[f] <= MramSize
    BY <2>1 DEF IsEntryAt
  <2>5. IsEntryAt(f, o)'
    BY <2>3, <2>4 DEF IsEntryAt
  <2>6. QED
    BY <2>1, <2>5, <1>3 DEF Boundaries
<1>4. QED
  BY <1>1, <1>2, <1>3 DEF Boundaries

(* If neither MRAM nor mark change, neither do the boundaries. *)
LEMMA SameEntries ==
    ASSUME NEW S, Boundaries(S), mram' = mram, hwm' = hwm
    PROVE  Boundaries(S)' /\ Mark' = Mark
  BY DEF Boundaries, Mark, IsEntryAt

-----------------------------------------------------------------------------

(* An empty log satisfies the invariant. *)
LEMMA InitHolds == Init => IInv
<1> SUFFICES ASSUME Init PROVE IInv
  OBVIOUS
<1>1. TypeOK
  BY Sizes DEF Init, TypeOK, Byte
<1>2. Mark = HeaderSize
  BY DEF Init, Mark
<1>3. Boundaries({HeaderSize}) /\ CursorOn({HeaderSize})
  BY <1>2, Sizes DEF Boundaries, CursorOn, Init
<1>4. {HeaderSize} \in SUBSET Nat
  BY Sizes
<1>5. QED
  BY <1>1, <1>3, <1>4 DEF IInv

(* Every step keeps the invariant. *)
LEMMA NextHolds == IInv /\ [Next]_vars => IInv'
<1> SUFFICES ASSUME IInv, [Next]_vars PROVE IInv'
  OBVIOUS
<1>0. TypeOK
  BY DEF IInv
<1>s. PICK S \in SUBSET Nat : Boundaries(S) /\ CursorOn(S)
  BY DEF IInv
<1>m. Mark \in HeaderSize .. MramSize
  BY <1>0, MarkRange
<1>1. CASE Rewind
  <2>1. Boundaries(S)' /\ CursorOn(S)'
    BY <1>1, <1>s, SameEntries DEF Rewind, CursorOn, Boundaries
  <2>2. TypeOK'
    BY <1>1, <1>0, Sizes DEF Rewind, TypeOK
  <2>3. QED
    BY <2>1, <2>2 DEF IInv
<1>2. CASE ReadNotFound
  <2>1. curr = Mark
    BY <1>2, <1>s, <1>0, Sizes DEF ReadNotFound, AtMark, CursorOn, Boundaries, Mark, TypeOK
  <2>2. Boundaries(S)' /\ CursorOn(S)'
    BY <1>2, <2>1, <1>s, SameEntries DEF ReadNotFound, CursorOn
  <2>3. TypeOK'
    BY <1>2, <1>0 DEF ReadNotFound, TypeOK
  <2>4. QED
    BY <2>2, <2>3 DEF IInv
<1>3. CASE ReadNextElem
  <2>1. PICK e \in Entry : mram[curr] = <<e, 0>> /\ curr' = curr + Size[e]
    BY <1>3 DEF ReadNextElem
  <2>2. curr \in S \ {Mark}
    BY <1>3, <1>s, <1>0, Sizes DEF ReadNextElem, AtMark, CursorOn, Mark, TypeOK
  <2>3. PICK f \in Entry : IsEntryAt(f, curr) /\ curr + Size[f] \in S
    BY <2>2, <1>s DEF Boundaries
  <2>4. mram[curr + 0] = <<f, 0>>
    BY <2>3, Sizes DEF IsEntryAt
  <2>5. curr + 0 = curr
    BY <2>2
  <2>6. e = f
    BY <2>1, <2>4, <2>5
  <2>7. curr' \in S
    BY <2>1, <2>3, <2>6
  <2>8. Boundaries(S)' /\ CursorOn(S)'
    BY <1>3, <2>7, <1>s, SameEntries DEF ReadNextElem, CursorOn
  <2>9. curr' \in HeaderSize .. MramSize
    BY <2>7, <1>s, <1>m, Sizes DEF Boundaries
  <2>10. TypeOK'
    BY <1>3, <2>9, <1>0 DEF ReadNextElem, TypeOK
  <2>11. QED
    BY <2>8, <2>10 DEF IInv
<1>4. ASSUME NEW e \in Entry, WriteEntry(e)
      PROVE  IInv'
  <2>1. curr = Mark /\ curr + MaxSize <= MramSize
    BY <1>4, <1>s DEF WriteEntry, CursorOn, HasSpace
  <2>2. Size[e] \in 1 .. Size[e]
    BY Sizes
  <2>3. mram' \in [Offset -> Byte] /\ Boundaries(S)'
    BY <1>0, <1>s, <1>4, <2>1, <2>2, WriteKeepsEntries DEF WriteEntry
  <2>4. Mark' = Mark
    BY <1>4 DEF WriteEntry, Mark
  <2>5. curr' = Mark + Size[e] /\ curr' \in HeaderSize .. MramSize
    BY <1>4, <2>1, <1>m, Sizes DEF WriteEntry
  <2>6. TypeOK'
    BY <1>4, <1>0, <2>3, <2>5 DEF WriteEntry, TypeOK
  <2>7. IsEntryAt(e, Mark)'
    <3>1. ASSUME NEW k \in 0 .. Size[e] - 1
          PROVE  mram'[Mark + k] = <<e, k>>
      <4>1. Mark + k \in Offset /\ Mark + k \in curr .. curr + Size[e] - 1
        BY <2>1, <1>m, Sizes DEF Offset
      <4>2. mram'[Mark + k] = <<e, (Mark + k) - curr>>
        BY <4>1, <1>4 DEF WriteEntry, Written
      <4>3. (Mark + k) - curr = k
        BY <2>1, <1>m
      <4>4. QED
        BY <4>2, <4>3
    <3>2. Mark + Size[e] <= MramSize
      BY <2>5
    <3>3. QED
      BY <3>1, <3>2, <2>4 DEF IsEntryAt
  <2>8. CursorOn(S)'
    BY <1>4, <2>1, <2>4, <2>5, <2>7 DEF WriteEntry, CursorOn
  <2>9. QED
    BY <2>3, <2>6, <2>8 DEF IInv
<1>5. CASE WriteMark
  <2>1. PICK e \in Entry : IsEntryAt(e, Mark) /\ curr = Mark + Size[e]
    BY <1>5, <1>s DEF WriteMark, CursorOn
  <2>2. Mark + MaxSize <= MramSize
    BY <1>5, <1>s DEF WriteMark, CursorOn
  <2>3. curr \in HeaderSize .. MramSize /\ Mark < curr
    BY <2>1, <2>2, <1>m, Sizes
  <2>4. Mark' = curr
    BY <1>5, <2>3, Sizes DEF WriteMark, Mark
  <2>5. \A f \in Entry, o \in Nat : IsEntryAt(f, o)' <=> IsEntryAt(f, o)
    BY <1>5 DEF WriteMark, IsEntryAt
  <2>6. PICK T \in SUBSET Nat : T = S \union {curr}
    <3>1. curr \in Nat
      BY <2>3, Sizes
    <3>2. S \union {curr} \in SUBSET Nat
      BY <3>1
    <3>3. QED
      BY <3>2, Zenon
  <2>7. Boundaries(T)'
    <3>1. T \subseteq HeaderSize .. curr
      BY <2>3, <2>6, <1>s, <1>m, Sizes DEF Boundaries
    <3>2. HeaderSize \in T /\ curr \in T
      BY <1>s, <2>6 DEF Boundaries
    <3>3. ASSUME NEW o \in T \ {curr}
          PROVE  /\ o + MaxSize <= MramSize
                 /\ \E f \in Entry : IsEntryAt(f, o)' /\ o + Size[f] \in T
      <4>1. CASE o = Mark
        BY <4>1, <2>1, <2>2, <2>5, <2>6, <1>m, Sizes
      <4>2. CASE o # Mark
        BY <4>2, <3>3, <1>s, <2>5, <2>6 DEF Boundaries
      <4>3. QED
        BY <4>1, <4>2
    <3>4. QED
      BY <3>1, <3>2, <3>3, <2>4 DEF Boundaries
  <2>8. CursorOn(T)'
    BY <1>5, <2>4 DEF WriteMark, CursorOn
  <2>9. TypeOK'
    BY <1>5, <1>0, <2>3 DEF WriteMark, TypeOK
  <2>10. QED
    BY <2>7, <2>8, <2>9 DEF IInv
<1>6. CASE Clear
  <2>1. Mark' = HeaderSize
    BY <1>6, Sizes DEF Clear, Mark
  <2>2. Boundaries({HeaderSize})' /\ CursorOn({HeaderSize})'
    BY <1>6, <2>1, Sizes DEF Clear, Boundaries, CursorOn
  <2>3. TypeOK'
    BY <1>6, <1>0, Sizes DEF Clear, TypeOK
  <2>4. {HeaderSize} \in SUBSET Nat
    BY Sizes
  <2>5. QED
    BY <2>2, <2>3, <2>4 DEF IInv
<1>7. CASE PowerLoss
  <2>1. Boundaries(S)' /\ CursorOn(S)'
    BY <1>7, <1>s, SameEntries DEF PowerLoss, CursorOn
  <2>2. TypeOK'
    BY <1>7, <1>0 DEF PowerLoss, TypeOK
  <2>3. QED
    BY <2>1, <2>2 DEF IInv
<1>8. ASSUME NEW e \in Entry, NEW n \in 1 .. Size[e] - 1, TornWrite(e, n)
      PROVE  IInv'
  <2>1. curr = Mark
    BY <1>8, <1>s DEF TornWrite, CursorOn
  <2>2. n \in 1 .. Size[e]
    BY Sizes
  <2>3. mram' \in [Offset -> Byte] /\ Boundaries(S)'
    BY <1>0, <1>s, <1>8, <2>1, <2>2, WriteKeepsEntries DEF TornWrite
  <2>4. TypeOK' /\ CursorOn(S)'
    BY <1>8, <1>0, <2>3 DEF TornWrite, TypeOK, CursorOn
  <2>5. QED
    BY <2>3, <2>4 DEF IInv
<1>9. CASE UNCHANGED vars
  <2>1. Boundaries(S)' /\ CursorOn(S)'
    BY <1>9, <1>s, SameEntries DEF vars, CursorOn, IsEntryAt
  <2>2. TypeOK'
    BY <1>9, <1>0 DEF vars, TypeOK
  <2>3. QED
    BY <2>1, <2>2 DEF IInv
<1>10. QED
  BY <1>1, <1>2, <1>3, <1>4, <1>5, <1>6, <1>7, <1>8, <1>9 DEF Next

-----------------------------------------------------------------------------

(* The strengthened invariant holds in every reachable state. *)
THEOREM Invariant == Spec => []IInv
  BY InitHolds, NextHolds, PTL DEF Spec

(* MRAM, mark and cursor keep their types; neither ever leaves the MRAM. *)
THEOREM TypeCorrect == Spec => []TypeOK
  BY Invariant, PTL DEF IInv

(* readNextElem finds whole entries only and never reads beyond the MRAM,
   whatever losses of power left there. *)
THEOREM ReadsCorrect == Spec => []ReadsWholeEntries
<1>1. IInv => ReadsWholeEntries
  <2> SUFFICES ASSUME IInv, pc = "scan", ~AtMark
               PROVE  /\ curr + MaxSize <= MramSize
                      /\ \E e \in Entry : IsEntryAt(e, curr) /\ curr + Size[e] <= hwm
    BY DEF ReadsWholeEntries
  <2>1. PICK S \in SUBSET Nat : Boundaries(S) /\ CursorOn(S)
    BY DEF IInv
  <2>2. /\ hwm \in HeaderSize .. MramSize
        /\ Mark = hwm
        /\ curr \in S \ {Mark}
    BY <2>1, Sizes DEF IInv, TypeOK, AtMark, Mark, CursorOn
  <2>3. PICK e \in Entry : IsEntryAt(e, curr) /\ curr + Size[e] \in S
    BY <2>1, <2>2 DEF Boundaries
  <2>4. curr + Size[e] <= hwm
    <3>1. curr + Size[e] \in HeaderSize .. hwm
      BY <2>1, <2>2, <2>3 DEF Boundaries
    <3>2. QED
      BY <3>1, <2>2, Sizes
  <2>5. QED
    BY <2>1, <2>2, <2>3, <2>4 DEF Boundaries
<1>2. QED
  BY <1>1, Invariant, PTL

(* appendEntry starts exactly at the mark: no gap, nothing overwritten. *)
THEOREM AppendsCorrect == Spec => []AppendsAtMark
<1>1. IInv => AppendsAtMark
  BY DEF IInv, CursorOn, AppendsAtMark
<1>2. QED
  BY <1>1, Invariant, PTL

-----------------------------------------------------------------------------

(* An entry starts where the byte says so. *)
LEMMA EntryByte ==
    ASSUME TypeOK, NEW o, IsEntryStart(o)
    PROVE  mram[o][1] \in Entry
  BY DEF TypeOK, IsEntryStart, Byte, Blank

(* Decoded is the function its definition describes. *)
DecodedEquations ==
    /\ Decoded \in [0 .. MramSize -> Seq(Entry)]
    /\ Decoded[0] = <<>>
    /\ \A o \in 1 .. MramSize :
          Decoded[o] = IF IsEntryStart(o - 1) THEN Append(Decoded[o - 1], mram[o - 1][1])
                       ELSE Decoded[o - 1]

(* The entries a scan decodes satisfy the equations of their definition. *)
LEMMA DecodedDefined == TypeOK => DecodedEquations
<1> SUFFICES ASSUME TypeOK PROVE DecodedEquations
  OBVIOUS
<1> DEFINE V == Seq(Entry)
           next(o, l) == IF IsEntryStart(o - 1) THEN Append(l, mram[o - 1][1]) ELSE l
           step == [o \in 1 .. MramSize |-> [l \in V |-> next(o, l)]]
           Solves(f) == f = [o \in 0 .. MramSize |->
                                IF o = 0 THEN <<>>
                                ELSE IF IsEntryStart(o - 1)
                                     THEN Append(f[o - 1], mram[o - 1][1])
                                     ELSE f[o - 1]]
<1>1. MramSize \in Nat
  BY Sizes
<1>2. ASSUME NEW o \in 1 .. MramSize, NEW l \in V
      PROVE  next(o, l) \in V
  <2>1. CASE IsEntryStart(o - 1)
    BY <2>1, EntryByte, AppendProperties
  <2>2. CASE ~ IsEntryStart(o - 1)
    BY <2>2
  <2>3. QED
    BY <2>1, <2>2
<1> HIDE DEF next
<1>3. step \in [1 .. MramSize -> [V -> V]]
  BY <1>2
<1>4. <<>> \in V
  OBVIOUS
<1>5. ASSUME NEW o \in 1 .. MramSize, NEW l \in V
      PROVE  step[o][l] = next(o, l)
  OBVIOUS
<1> HIDE DEF step, V
<1>6. PICK f \in [0 .. MramSize -> V] :
          f[0] = <<>> /\ \A o \in 1 .. MramSize : f[o] = step[o][f[o - 1]]
  <2>1. Solutions(MramSize, V, <<>>, step) # {}
    BY <1>1, <1>3, <1>4, RecursionExists
  <2>2. QED
    BY <2>1 DEF Solutions
<1>7. \A o \in 1 .. MramSize :
          f[o] = IF IsEntryStart(o - 1) THEN Append(f[o - 1], mram[o - 1][1]) ELSE f[o - 1]
  <2>1. ASSUME NEW o \in 1 .. MramSize
        PROVE  f[o] = next(o, f[o - 1])
    <3>1. f[o - 1] \in V
      BY <1>1
    <3>2. QED
      BY <3>1, <1>5, <1>6
  <2>2. QED
    BY <2>1 DEF next
<1>8. Solves(f)
  <2>1. f = [o \in 0 .. MramSize |-> f[o]]
    OBVIOUS
  <2>2. ASSUME NEW o \in 0 .. MramSize
        PROVE  f[o] = IF o = 0 THEN <<>>
                      ELSE IF IsEntryStart(o - 1) THEN Append(f[o - 1], mram[o - 1][1])
                      ELSE f[o - 1]
    <3>1. o = 0 \/ o \in 1 .. MramSize
      BY <1>1
    <3>2. QED
      BY <3>1, <1>6, <1>7
  <2>3. QED
    BY <2>1, <2>2
<1>9. Decoded = CHOOSE g : Solves(g)
  BY DEF Decoded
<1> HIDE DEF Solves
<1>10. Solves(Decoded)
  BY <1>8, <1>9
<1>11. /\ Decoded = [o \in 0 .. MramSize |-> Decoded[o]]
       /\ \A o \in 0 .. MramSize :
             Decoded[o] = IF o = 0 THEN <<>>
                          ELSE IF IsEntryStart(o - 1)
                               THEN Append(Decoded[o - 1], mram[o - 1][1])
                               ELSE Decoded[o - 1]
  BY <1>10 DEF Solves
<1>12. /\ Decoded[0] = <<>>
       /\ \A o \in 1 .. MramSize :
             Decoded[o] = IF IsEntryStart(o - 1) THEN Append(Decoded[o - 1], mram[o - 1][1])
                          ELSE Decoded[o - 1]
  <2>1. 0 \in 0 .. MramSize /\ \A o \in 1 .. MramSize : o \in 0 .. MramSize /\ o # 0
    BY <1>1
  <2>2. QED
    BY <2>1, <1>11
<1>13. \A o \in 0 .. MramSize : Decoded[o] = f[o]
  <2>1. Decoded[0] = f[0]
    BY <1>6, <1>12
  <2>2. ASSUME NEW i \in 1 .. MramSize, Decoded[i - 1] = f[i - 1]
        PROVE  Decoded[i] = f[i]
    BY <2>2, <1>7, <1>12
  <2>3. Agree(MramSize, Decoded, f)
    BY <2>1, <2>2 DEF Agree
  <2>4. QED
    BY <2>3, <1>1, RecursionAgrees
<1>14. Decoded \in [0 .. MramSize -> V]
  BY <1>11, <1>13
<1>15. QED
  BY <1>12, <1>14 DEF V, DecodedEquations

(* No entry starts in the header. *)
LEMMA DecodedHeader ==
    TypeOK => \A o \in 0 .. HeaderSize : Decoded[o] = <<>>
<1> SUFFICES ASSUME TypeOK PROVE \A o \in 0 .. HeaderSize : Decoded[o] = <<>>
  OBVIOUS
<1> DEFINE P == {o \in 0 .. HeaderSize : Decoded[o] = <<>>}
<1>1. 0 \in P
  BY DecodedDefined, Sizes DEF DecodedEquations
<1>2. ASSUME NEW o \in 0 .. HeaderSize - 1, o \in P
      PROVE  o + 1 \in P
  <2>1. o + 1 \in 1 .. MramSize /\ (o + 1) - 1 = o /\ o + 1 \in 0 .. HeaderSize
    BY Sizes
  <2>2. ~ IsEntryStart(o)
    BY Sizes DEF IsEntryStart, Offset
  <2>3. Decoded[o + 1] = Decoded[o]
    BY <2>1, <2>2, DecodedDefined DEF DecodedEquations
  <2>4. QED
    BY <1>2, <2>1, <2>3
<1> HIDE DEF P
<1>3. 0 .. HeaderSize \subseteq P
  BY <1>1, <1>2, Sizes, IntervalInduction
<1>4. QED
  BY <1>3 DEF P

(* A whole entry adds itself to what was decoded before it: none of its other
   bytes looks like the start of an entry. *)
LEMMA DecodedEntry ==
    TypeOK => \A e \in Entry, o \in Offset :
                 IsEntryAt(e, o) => Decoded[o + Size[e]] = Append(Decoded[o], e)
<1> SUFFICES ASSUME TypeOK, NEW e \in Entry, NEW o \in Offset, IsEntryAt(e, o)
             PROVE  Decoded[o + Size[e]] = Append(Decoded[o], e)
  OBVIOUS
<1> DEFINE n == Size[e] - 1
           P == {k \in 0 .. n : Decoded[o + k + 1] = Append(Decoded[o], e)}
<1>1. /\ Size[e] \in Nat /\ n \in Nat
      /\ o \in Nat /\ o + Size[e] <= MramSize /\ MramSize \in Nat
      /\ \A k \in 0 .. n : mram[o + k] = <<e, k>> /\ o + k \in Offset
  BY Sizes DEF IsEntryAt, Offset
<1>2. 0 \in P
  <2>1. mram[o] = <<e, 0>> /\ o \in Offset
    <3>1. 0 \in 0 .. n /\ o + 0 = o
      BY <1>1
    <3>2. QED
      BY <1>1, <3>1
  <2>2. IsEntryStart(o) /\ mram[o][1] = e
    BY <2>1 DEF IsEntryStart, Blank
  <2>3. o + 1 \in 1 .. MramSize /\ (o + 1) - 1 = o /\ o + 0 + 1 = o + 1
    BY <1>1
  <2>4. Decoded[o + 1] = Append(Decoded[o], e)
    BY <2>2, <2>3, DecodedDefined DEF DecodedEquations
  <2>5. QED
    BY <2>3, <2>4, <1>1
<1>3. ASSUME NEW k \in 0 .. n - 1, k \in P
      PROVE  k + 1 \in P
  <2>1. k + 1 \in 0 .. n /\ k + 1 # 0 /\ o + (k + 1) = o + k + 1
    BY <1>1
  <2>2. mram[o + k + 1] = <<e, k + 1>>
    BY <2>1, <1>1
  <2>3. ~ IsEntryStart(o + k + 1)
    BY <2>1, <2>2 DEF IsEntryStart
  <2>4. /\ o + k + 2 \in 1 .. MramSize /\ (o + k + 2) - 1 = o + k + 1
        /\ o + (k + 1) + 1 = o + k + 2
    BY <1>1
  <2>5. Decoded[o + k + 2] = Decoded[o + k + 1]
    BY <2>3, <2>4, DecodedDefined DEF DecodedEquations
  <2>6. QED
    BY <1>3, <2>1, <2>4, <2>5
<1> HIDE DEF P
<1>4. 0 .. n \subseteq P
  BY <1>1, <1>2, <1>3, IntervalInduction
<1>5. n \in P
  BY <1>1, <1>4
<1>6. o + n + 1 = o + Size[e]
  BY <1>1
<1>7. QED
  BY <1>5, <1>6 DEF P

(* The further one reads, the more entries there are. *)
LEMMA DecodedGrows ==
    TypeOK => \A o \in 0 .. MramSize : \A p \in o .. MramSize :
                 Len(Decoded[o]) <= Len(Decoded[p])
<1> SUFFICES ASSUME TypeOK, NEW o \in 0 .. MramSize, NEW p \in o .. MramSize
             PROVE  Len(Decoded[o]) <= Len(Decoded[p])
  OBVIOUS
<1> DEFINE n == MramSize - o
           P == {k \in 0 .. n : Len(Decoded[o]) <= Len(Decoded[o + k])}
<1>1. n \in Nat /\ MramSize \in Nat /\ o \in Nat
  BY Sizes
<1>2. \A q \in 0 .. MramSize : Decoded[q] \in Seq(Entry) /\ Len(Decoded[q]) \in Nat
  BY DecodedDefined, LenProperties DEF DecodedEquations
<1>3. 0 \in P
  <2>1. o + 0 = o /\ Len(Decoded[o]) \in Nat
    BY <1>1, <1>2
  <2>2. QED
    BY <2>1, <1>1
<1>4. ASSUME NEW k \in 0 .. n - 1, k \in P
      PROVE  k + 1 \in P
  <2>1. /\ o + k \in 0 .. MramSize
        /\ o + (k + 1) \in 1 .. MramSize /\ (o + (k + 1)) - 1 = o + k
        /\ k + 1 \in 0 .. n
    BY <1>1
  <2>2. Len(Decoded[o + k]) <= Len(Decoded[o + (k + 1)])
    <3>1. CASE IsEntryStart(o + k)
      <4>1. Decoded[o + (k + 1)] = Append(Decoded[o + k], mram[o + k][1])
        BY <2>1, <3>1, DecodedDefined DEF DecodedEquations
      <4>2. Len(Decoded[o + (k + 1)]) = Len(Decoded[o + k]) + 1
        BY <4>1, <1>2, <2>1, <3>1, EntryByte, AppendProperties
      <4>3. QED
        BY <4>2, <1>2, <2>1
    <3>2. CASE ~ IsEntryStart(o + k)
      <4>1. Decoded[o + (k + 1)] = Decoded[o + k]
        BY <2>1, <3>2, DecodedDefined DEF DecodedEquations
      <4>2. QED
        BY <4>1, <1>2, <2>1
    <3>3. QED
      BY <3>1, <3>2
  <2>3. /\ Len(Decoded[o]) \in Nat /\ Len(Decoded[o + k]) \in Nat
        /\ Len(Decoded[o + (k + 1)]) \in Nat
    BY <1>2, <2>1
  <2>4. Len(Decoded[o]) <= Len(Decoded[o + k])
    BY <1>4
  <2>5. Len(Decoded[o]) <= Len(Decoded[o + (k + 1)])
    BY <2>2, <2>3, <2>4
  <2>6. QED
    BY <2>1, <2>5
<1> HIDE DEF P
<1>5. 0 .. n \subseteq P
  BY <1>1, <1>3, <1>4, IntervalInduction
<1>6. p - o \in 0 .. n /\ o + (p - o) = p
  BY <1>1
<1>7. QED
  BY <1>5, <1>6 DEF P

(* What lies below an offset alone decides what is decoded up to it. *)
LEMMA DecodedKept ==
    ASSUME TypeOK, TypeOK', NEW limit \in 0 .. MramSize,
           \A o \in Offset : o < limit => mram'[o] = mram[o]
    PROVE  \A o \in 0 .. limit : Decoded'[o] = Decoded[o]
<1>1. /\ Decoded'[0] = <<>>
      /\ \A o \in 1 .. MramSize :
            Decoded'[o] = IF IsEntryStart(o - 1)' THEN Append(Decoded'[o - 1], mram'[o - 1][1])
                          ELSE Decoded'[o - 1]
  <2>1. DecodedEquations'
    BY DecodedDefined, PTL
  <2>2. QED
    BY <2>1 DEF DecodedEquations
<1>2. limit \in Nat /\ MramSize \in Nat
  BY Sizes
<1>3. ASSUME NEW o \in 1 .. limit, Decoded'[o - 1] = Decoded[o - 1]
      PROVE  Decoded'[o] = Decoded[o]
  <2>1. o \in 1 .. MramSize /\ o - 1 < limit
    BY <1>2
  <2>2. IsEntryStart(o - 1)' <=> IsEntryStart(o - 1)
    BY <2>1 DEF IsEntryStart
  <2>3. IsEntryStart(o - 1) => mram'[o - 1] = mram[o - 1]
    BY <2>1 DEF IsEntryStart
  <2>4. Decoded[o] = IF IsEntryStart(o - 1) THEN Append(Decoded[o - 1], mram[o - 1][1])
                     ELSE Decoded[o - 1]
    BY <2>1, DecodedDefined DEF DecodedEquations
  <2>5. QED
    BY <1>1, <1>3, <2>1, <2>2, <2>3, <2>4
<1>4. Decoded'[0] = Decoded[0]
  BY <1>1, DecodedDefined DEF DecodedEquations
<1>5. Agree(limit, Decoded', Decoded)
  BY <1>3, <1>4 DEF Agree
<1>6. QED
  BY <1>2, <1>5, RecursionAgrees

-----------------------------------------------------------------------------

(* Every step is one of the abstract log's, or none: an append takes effect
   with its mark, a torn one never. *)
LEMMA LogStep == IInv /\ IInv' /\ [Next]_vars => [Abstract!LogNext]_(Abstract!logVars)
<1> SUFFICES ASSUME IInv, IInv', [Next]_vars
             PROVE  [Abstract!LogNext]_(Abstract!logVars)
  OBVIOUS
<1> USE DEF Abstract!LogNext, Abstract!logVars, Abstract!LogRewind, Abstract!LogRead,
            Abstract!LogAppend, Abstract!LogClear
<1>0. TypeOK /\ TypeOK'
  BY DEF IInv
<1>s. PICK S \in SUBSET Nat : Boundaries(S) /\ CursorOn(S)
  BY DEF IInv
<1>m. /\ Mark \in HeaderSize .. MramSize /\ MramSize \in Nat
      /\ HeaderSize \in Nat /\ HeaderSize >= 1
  BY <1>0, MarkRange, Sizes
<1>e. mram' = mram => \A o \in 0 .. MramSize : Decoded'[o] = Decoded[o]
  <2>1. MramSize \in 0 .. MramSize
    BY <1>m
  <2>2. QED
    BY <1>0, <2>1, DecodedKept
<1>h. \A o \in 0 .. HeaderSize : Decoded[o] = <<>> /\ Decoded'[o] = <<>>
  <2>1. (\A o \in 0 .. HeaderSize : Decoded[o] = <<>>)'
    BY <1>0, DecodedHeader, PTL
  <2>2. QED
    BY <1>0, <2>1, DecodedHeader
<1>l. \A o \in 0 .. MramSize : Decoded[o] \in Seq(Entry) /\ Len(Decoded[o]) \in Nat
  BY <1>0, DecodedDefined, LenProperties DEF DecodedEquations
<1>1. CASE Rewind
  <2>1. Mark' = Mark /\ Before' = HeaderSize
    BY <1>1, <1>m DEF Rewind, Mark, Before
  <2>2. Decoded'[Mark] = Decoded[Mark] /\ Decoded'[HeaderSize] = <<>>
    BY <1>1, <1>e, <1>h, <1>m DEF Rewind
  <2>3. QED
    BY <2>1, <2>2
<1>2. CASE ReadNotFound
  <2>1. Mark' = Mark /\ Before' = Before
    BY <1>2 DEF ReadNotFound, Mark, Before
  <2>2. Before \in 0 .. MramSize
    BY <1>0, <1>m DEF TypeOK, Before
  <2>3. Decoded'[Mark] = Decoded[Mark] /\ Decoded'[Before] = Decoded[Before]
    BY <1>2, <2>2, <1>e, <1>m DEF ReadNotFound
  <2>4. QED
    BY <2>1, <2>3
<1>3. CASE ReadNextElem
  <2>1. PICK e \in Entry : mram[curr] = <<e, 0>> /\ curr' = curr + Size[e]
    BY <1>3 DEF ReadNextElem
  <2>2. curr \in S \ {Mark} /\ curr < Mark
    BY <1>3, <1>s, <1>0, Sizes DEF ReadNextElem, AtMark, CursorOn, Mark, TypeOK
  <2>3. PICK f \in Entry : IsEntryAt(f, curr) /\ curr + Size[f] \in S
    BY <2>2, <1>s DEF Boundaries
  <2>4. e = f
    <3>1. mram[curr + 0] = <<f, 0>> /\ curr + 0 = curr
      BY <2>2, <2>3, Sizes DEF IsEntryAt
    <3>2. QED
      BY <2>1, <3>1
  <2>5. /\ curr \in HeaderSize .. Mark /\ curr + Size[e] \in HeaderSize .. Mark
        /\ curr \in Offset
    <3>1. curr \in HeaderSize .. Mark /\ curr + Size[e] \in HeaderSize .. Mark
      BY <1>s, <2>2, <2>3, <2>4 DEF Boundaries
    <3>2. QED
      BY <3>1, <1>m, <2>2 DEF Offset
  <2>6. Decoded[curr + Size[e]] = Append(Decoded[curr], e)
    BY <1>0, <2>3, <2>4, <2>5, DecodedEntry
  <2>7. Mark' = Mark /\ Before = curr /\ Before' = curr + Size[e]
    <3>1. Mark' = Mark /\ Before = curr
      BY <1>3, <2>2 DEF ReadNextElem, Mark, Before
    <3>2. curr' = Mark => Before' = Mark
      BY <3>1 DEF Before
    <3>3. curr' < Mark => Before' = curr'
      BY <3>1 DEF Before
    <3>4. curr' < Mark \/ curr' = Mark
      BY <2>1, <2>5, <1>m
    <3>5. QED
      BY <2>1, <3>1, <3>2, <3>3, <3>4
  <2>8. Len(Decoded[curr + Size[e]]) = Len(Decoded[curr]) + 1
    <3>1. Decoded[curr] \in Seq(Entry)
      BY <1>l, <1>m, <2>5
    <3>2. QED
      BY <2>6, <3>1, AppendProperties
  <2>9. Len(Decoded[curr + Size[e]]) <= Len(Decoded[Mark])
    <3>1. curr + Size[e] \in 0 .. MramSize /\ Mark \in curr + Size[e] .. MramSize
      BY <1>m, <2>5
    <3>2. QED
      BY <1>0, <3>1, DecodedGrows
  <2>10. /\ Decoded'[Mark] = Decoded[Mark]
         /\ Decoded'[curr + Size[e]] = Decoded[curr + Size[e]]
    <3>1. mram' = mram /\ Mark \in 0 .. MramSize /\ curr + Size[e] \in 0 .. MramSize
      BY <1>3, <1>m, <2>5 DEF ReadNextElem
    <3>2. QED
      BY <3>1, <1>e
  <2>11. Len(Decoded[Before]) < Len(Decoded[Mark])
    <3>1. /\ Len(Decoded[curr]) \in Nat /\ Len(Decoded[curr + Size[e]]) \in Nat
          /\ Len(Decoded[Mark]) \in Nat
      BY <1>l, <1>m, <2>5
    <3>2. QED
      BY <2>7, <2>8, <2>9, <3>1
  <2>12. QED
    BY <2>7, <2>8, <2>10, <2>11
<1>4. ASSUME NEW e \in Entry, WriteEntry(e)
      PROVE  UNCHANGED Abstract!logVars
  <2>1. curr = Mark
    BY <1>4, <1>s DEF WriteEntry, CursorOn
  <2>2. Mark' = Mark /\ Before = Mark /\ Before' = Mark
    <3>1. Mark' = Mark /\ curr' = Mark + Size[e] /\ ~ (curr' < Mark)
      BY <1>4, <2>1, <1>m, Sizes DEF WriteEntry, Mark
    <3>2. QED
      BY <2>1, <3>1, <1>m DEF Before
  <2>3. \A o \in Offset : o < Mark => mram'[o] = mram[o]
    BY <1>4, <2>1, <1>m DEF WriteEntry, Written, Offset
  <2>4. Mark \in 0 .. MramSize /\ Mark \in 0 .. Mark
    BY <1>m
  <2>5. Decoded'[Mark] = Decoded[Mark]
    BY <1>0, <2>3, <2>4, DecodedKept
  <2>6. QED
    BY <2>2, <2>5
<1>5. CASE WriteMark
  <2>1. PICK e \in Entry : IsEntryAt(e, Mark) /\ curr = Mark + Size[e]
    BY <1>5, <1>s DEF WriteMark, CursorOn
  <2>2. Mark + MaxSize <= MramSize
    BY <1>5, <1>s DEF WriteMark, CursorOn
  <2>3. curr \in HeaderSize .. MramSize /\ Mark < curr /\ Mark \in Offset
    BY <2>1, <2>2, <1>m, Sizes DEF Offset
  <2>4. Before = Mark /\ Mark' = curr /\ Before' = curr
    <3>1. Before = Mark
      BY <2>3, <1>m DEF Before
    <3>2. Mark' = curr /\ curr' = curr
      BY <1>5, <2>3, Sizes DEF WriteMark, Mark
    <3>3. Before' = curr
      BY <3>2 DEF Before
    <3>4. QED
      BY <3>1, <3>2, <3>3
  <2>5. Decoded[curr] = Append(Decoded[Mark], e)
    BY <1>0, <2>1, <2>3, DecodedEntry
  <2>6. Decoded'[curr] = Decoded[curr]
    BY <1>5, <1>e, <1>m, <2>3 DEF WriteMark
  <2>7. Len(Decoded[curr]) = Len(Decoded[Mark]) + 1
    <3>1. Decoded[Mark] \in Seq(Entry)
      BY <1>l, <1>m
    <3>2. QED
      BY <2>5, <3>1, AppendProperties
  <2>8. QED
    BY <2>4, <2>5, <2>6, <2>7
<1>6. CASE Clear
  <2>1. Mark' = HeaderSize /\ Before' = HeaderSize
    BY <1>6, Sizes DEF Clear, Mark, Before
  <2>2. Decoded'[HeaderSize] = <<>>
    BY <1>h, <1>m
  <2>3. QED
    BY <2>1, <2>2
<1>7. CASE PowerLoss
  <2>1. Mark' = Mark /\ Before' = 0
    BY <1>7, <1>m DEF PowerLoss, Mark, Before
  <2>2. Decoded'[Mark] = Decoded[Mark] /\ Decoded'[0] = <<>>
    BY <1>7, <1>e, <1>h, <1>m DEF PowerLoss
  <2>3. QED
    BY <2>1, <2>2
<1>8. ASSUME NEW e \in Entry, NEW n \in 1 .. Size[e] - 1, TornWrite(e, n)
      PROVE  Abstract!LogRewind
  <2>1. curr = Mark
    BY <1>8, <1>s DEF TornWrite, CursorOn
  <2>2. Mark' = Mark /\ Before' = 0
    BY <1>8, <1>m DEF TornWrite, Mark, Before
  <2>3. \A o \in Offset : o < Mark => mram'[o] = mram[o]
    BY <1>8, <2>1, <1>m DEF TornWrite, Written, Offset
  <2>4. Mark \in 0 .. MramSize /\ Mark \in 0 .. Mark
    BY <1>m
  <2>5. Decoded'[Mark] = Decoded[Mark]
    BY <1>0, <2>3, <2>4, DecodedKept
  <2>6. Decoded'[0] = <<>>
    BY <1>h, <1>m
  <2>7. QED
    BY <2>2, <2>5, <2>6
<1>9. CASE UNCHANGED vars
  <2>1. Mark' = Mark /\ Before' = Before
    BY <1>9 DEF vars, Mark, Before
  <2>2. Before \in 0 .. MramSize
    BY <1>0, <1>m DEF TypeOK, Before
  <2>3. Decoded'[Mark] = Decoded[Mark] /\ Decoded'[Before] = Decoded[Before]
    BY <1>9, <2>2, <1>e, <1>m DEF vars
  <2>4. QED
    BY <2>1, <2>3
<1>10. QED
  BY <1>1, <1>2, <1>3, <1>4, <1>5, <1>6, <1>7, <1>8, <1>9 DEF Next

(* MRAM and mark implement the append-only log the journal is written
   against, whatever entry sizes, and wherever the power is lost. *)
THEOREM ImplementsLog == Spec => ImplementsAppendLog
<1>1. Init => Abstract!LogInit
  <2> SUFFICES ASSUME Init PROVE Abstract!LogInit
    OBVIOUS
  <2>1. TypeOK
    BY InitHolds DEF IInv
  <2>2. Mark = HeaderSize /\ Before = 0
    BY Sizes DEF Init, Mark, Before
  <2>3. Decoded[HeaderSize] = <<>> /\ Decoded[0] = <<>>
    BY <2>1, DecodedHeader, Sizes
  <2>4. QED
    BY <2>2, <2>3 DEF Abstract!LogInit
<1>2. QED
  BY <1>1, LogStep, Invariant, PTL
     DEF Spec, ImplementsAppendLog, Abstract!LogSpec, Abstract!logVars

=============================================================================

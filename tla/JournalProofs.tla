--------------------------- MODULE JournalProofs ---------------------------
(***************************************************************************)
(* Proofs about the journal for any number of topics, any relation of      *)
(* interest, any capacity of the log and any sequence of power failures.   *)
(*                                                                         *)
(* The argument: while the log is read it does not change (Reading), so    *)
(* what the pre-scan has found is a fact about the prefix it has read      *)
(* (FirstInv), and what the second pass has handed out is determined by    *)
(* that fact (GotInv).  The bits are all set until the reading is over,    *)
(* and then follow the tail of the log (BitInv).                           *)
(***************************************************************************)
EXTENDS Journal, SequenceTheorems, TLAPS

(* The journal is disabled exactly while the log is read, and the cursor is
   at the end whenever it is not. *)
Reading ==
    /\ disabled <=> phase \in {"prescan", "apply"}
    /\ phase \in {"signal", "run"} => at = Len(log)

(* Before anything may be appended, every topic counts as changed. *)
BitInv ==
    /\ phase \notin {"signal", "run"} => uncheckpointedChanges = Topic
    /\ SuppressionIsSafe

(* k is the last checkpoint of t among the first n entries, 0 if none is. *)
IsLastCheckpoint(k, t, n) ==
    /\ k \in 0 .. n
    /\ k # 0 => IsCheckpoint(log[k], t)
    /\ \A c \in k + 1 .. n : ~IsCheckpoint(log[c], t)

FirstInv ==
    /\ phase = "prescan" =>
          \A t \in Topic : IsLastCheckpoint(firstUncheckpointedEntry[t], t, at)
    /\ phase = "apply" =>
          \A t \in Topic : IsLastCheckpoint(firstUncheckpointedEntry[t], t, Len(log))

GotInv ==
    /\ phase \in {"off", "prescan"} => own = NoEntries /\ heard = NoEntries
    /\ phase = "apply" =>
          \A t \in Topic :
              /\ own[t] = {i \in 1 .. at : IsChange(log[i], t) /\ Unretired(i, t)}
              /\ heard[t] \subseteq {i \in 1 .. at : Unretired(i, t)}

IInv ==
    /\ TypeOK
    /\ Reading
    /\ BitInv
    /\ FirstInv
    /\ GotInv

-----------------------------------------------------------------------------

(* An append made with the cursor at the end extends the log by one entry. *)
LEMMA AppendExtends ==
    ASSUME TypeOK, at = Len(log), NEW e \in Entry, AppendEntry(e)
    PROVE  /\ log' = Append(log, e)
           /\ log' \in Seq(Entry)
           /\ Len(log') = Len(log) + 1
           /\ at' = Len(log')
           /\ \A i \in 1 .. Len(log) : log'[i] = log[i]
           /\ log'[Len(log) + 1] = e
<1>1. SubSeq(log, 1, Len(log)) = log
  BY SubSeqFull DEF TypeOK
<1>2. log' = Append(log, e)
  BY <1>1 DEF AppendEntry
<1>3. QED
  BY <1>2, AppendProperties DEF TypeOK, AppendEntry

(* addEvent, whatever it does to the bits, is such an append. *)
LEMMA EventExtends ==
    ASSUME IInv, NEW e \in Entry, addEvent(e)
    PROVE  /\ phase \in {"signal", "run"}
           /\ log' \in Seq(Entry)
           /\ Len(log') = Len(log) + 1
           /\ at' = Len(log')
           /\ \A i \in 1 .. Len(log) : log'[i] = log[i]
           /\ log'[Len(log) + 1] = e
<1>1. phase \in {"signal", "run"} /\ at = Len(log)
  BY DEF IInv, TypeOK, Reading, addEvent
<1>2. AppendEntry(e)
  BY DEF addEvent, AddChange, AddCheckpoint
<1>3. QED
  BY <1>1, <1>2, AppendExtends DEF IInv

LEMMA GiveType ==
    ASSUME NEW got \in [Topic -> SUBSET Nat], NEW S, NEW i \in Nat
    PROVE  Give(got, S, i) \in [Topic -> SUBSET Nat]
<1>1. \A t \in Topic : got[t] \in SUBSET Nat /\ got[t] \union {i} \in SUBSET Nat
  OBVIOUS
<1>2. QED
  BY <1>1 DEF Give

LEMMA NoEntriesType == NoEntries \in [Topic -> SUBSET Nat]
  BY DEF NoEntries

LEMMA FirstTopic == 1 \in Topic /\ NoOfTopics \in Topic
  BY JournalAssumption DEF Topic

LEMMA EmptyLog == <<>> \in Seq(Entry) /\ 0 \in 0 .. Len(<<>>)
  OBVIOUS

LEMMA NoneRetired == [t \in Topic |-> 0] \in [Topic -> Nat]
  OBVIOUS

(* Type correctness: every variable keeps the type its name in the code
   promises, in particular the cursor never leaves the log. *)
LEMMA TypeStep == IInv /\ [Next]_vars => TypeOK'
<1> SUFFICES ASSUME IInv, [Next]_vars PROVE TypeOK'
  OBVIOUS
<1> USE DEF IInv, TypeOK
<1>1. ASSUME NEW e \in Entry, addEvent(e) PROVE TypeOK'
  <2>1. uncheckpointedChanges' \subseteq Topic
    BY <1>1 DEF addEvent, AddChange, AddCheckpoint, Entry
  <2>2. QED
    BY <1>1, <2>1, EventExtends DEF addEvent, replayVars
<1>2. CASE clear
  <2>1. log' \in Seq(Entry) /\ at' \in 0 .. Len(log')
    BY <1>2, EmptyLog DEF clear
  <2>2. QED
    BY <1>2, <2>1 DEF clear, replayVars
<1>3. CASE Mount
  BY <1>3 DEF Mount
<1>4. CASE PreScanEntry
  <2>1. log[at + 1] \in Entry /\ at + 1 \in Nat
    BY <1>4, ElementOfSeq DEF PreScanEntry
  <2>2. firstUncheckpointedEntry' \in [Topic -> Nat]
    BY <1>4, <2>1 DEF PreScanEntry, Entry
  <2>3. scanned' \in [Topic -> SUBSET Nat]
    <3>1. \/ scanned' = scanned
          \/ \E S \in SUBSET Topic : scanned' = Give(scanned, S, at + 1)
      BY <1>4, <2>1 DEF PreScanEntry, Listeners, Entry
    <3>2. QED
      BY <2>1, <3>1, GiveType
  <2>4. QED
    BY <1>4, <2>2, <2>3 DEF PreScanEntry
<1>5. CASE EndPreScan
  BY <1>5 DEF EndPreScan, replayVars
<1>6. CASE ApplyEntry
  <2>1. log[at + 1] \in Entry /\ at + 1 \in Nat
    BY <1>6, ElementOfSeq DEF ApplyEntry
  <2>2. own' \in [Topic -> SUBSET Nat] /\ heard' \in [Topic -> SUBSET Nat]
    <3>1. /\ own' = own \/ \E S : own' = Give(own, S, at + 1)
          /\ heard' = heard \/ \E S : heard' = Give(heard, S, at + 1)
      BY <1>6 DEF ApplyEntry
    <3>2. QED
      BY <2>1, <3>1, GiveType
  <2>3. QED
    BY <1>6, <2>2 DEF ApplyEntry
<1>7. CASE EndApply
  BY <1>7, FirstTopic DEF EndApply
<1>8. CASE SignalEndOfLog
  <2>1. turn' \in Topic
    BY <1>8, JournalAssumption, FirstTopic DEF SignalEndOfLog, Topic
  <2>2. QED
    BY <1>8, <2>1, NoEntriesType DEF SignalEndOfLog
<1>9. CASE PowerLoss
  <2>1. at' \in 0 .. Len(log')
    BY <1>9 DEF PowerLoss
  <2>2. firstUncheckpointedEntry' \in [Topic -> Nat]
    BY <1>9, NoneRetired DEF PowerLoss
  <2>3. QED
    BY <1>9, <2>1, <2>2, FirstTopic, NoEntriesType DEF PowerLoss
<1>10. CASE UNCHANGED vars
  BY <1>10 DEF vars
<1>11. QED
  BY <1>1, <1>2, <1>3, <1>4, <1>5, <1>6, <1>7, <1>8, <1>9, <1>10 DEF Next

LEMMA ReadingStep == IInv /\ [Next]_vars => Reading'
<1> SUFFICES ASSUME IInv, [Next]_vars PROVE Reading'
  OBVIOUS
<1> USE DEF IInv, TypeOK, Reading
<1>1. ASSUME NEW e \in Entry, addEvent(e) PROVE Reading'
  BY <1>1, EventExtends DEF addEvent
<1>2. CASE clear
  <2>1. log' = <<>> /\ at' = Len(log')
    BY <1>2, EmptyLog DEF clear
  <2>2. QED
    BY <1>2, <2>1 DEF clear
<1>3. CASE Mount
  <2>1. CASE log = <<>>
    <3>1. at' = Len(log') /\ phase' = "run" /\ ~disabled'
      BY <1>3, <2>1, EmptyLog DEF Mount
    <3>2. QED
      BY <3>1
  <2>2. CASE log # <<>>
    <3>1. phase' = "prescan" /\ disabled'
      BY <1>3, <2>2 DEF Mount
    <3>2. QED
      BY <3>1
  <2>3. QED
    BY <2>1, <2>2
<1>4. CASE PreScanEntry \/ ApplyEntry
  BY <1>4 DEF PreScanEntry, ApplyEntry
<1>5. CASE EndPreScan \/ PowerLoss
  BY <1>5 DEF EndPreScan, PowerLoss
<1>6. CASE EndApply \/ SignalEndOfLog
  BY <1>6 DEF EndApply, SignalEndOfLog
<1>7. CASE UNCHANGED vars
  BY <1>7 DEF vars
<1>8. QED
  BY <1>1, <1>2, <1>3, <1>4, <1>5, <1>6, <1>7 DEF Next

(* The only steps that touch the bits or the log once topics may write. *)
LEMMA BitStep == IInv /\ [Next]_vars => BitInv'
<1> SUFFICES ASSUME IInv, [Next]_vars PROVE BitInv'
  OBVIOUS
<1> USE DEF IInv
<1>1. ASSUME NEW e \in Entry, addEvent(e) PROVE BitInv'
  <2>1. phase' \in {"signal", "run"}
    BY <1>1, EventExtends DEF addEvent
  <2> SUFFICES ASSUME NEW t \in Topic \ uncheckpointedChanges'
               PROVE  \E c \in 1 .. Len(log') :
                          /\ IsCheckpoint(log'[c], t)
                          /\ \A i \in c + 1 .. Len(log') : ~IsChange(log'[i], t)
    BY <2>1 DEF BitInv, SuppressionIsSafe
  <2>2. Len(log) \in Nat
    BY DEF TypeOK
  <2>3. CASE AddChange(e)
    <3>1. t # e.t /\ t \notin uncheckpointedChanges
      BY <2>3 DEF AddChange
    <3>2. PICK c \in 1 .. Len(log) :
              /\ IsCheckpoint(log[c], t)
              /\ \A i \in c + 1 .. Len(log) : ~IsChange(log[i], t)
      BY <1>1, <3>1, EventExtends DEF BitInv, SuppressionIsSafe
    <3>3. \A i \in c + 1 .. Len(log') : ~IsChange(log'[i], t)
      BY <1>1, <2>2, <3>1, <3>2, EventExtends DEF IsChange
    <3>4. QED
      BY <1>1, <2>2, <3>2, <3>3, EventExtends
  <2>4. CASE AddCheckpoint(e)
    <3>1. CASE t = e.t
      <4>1. IsCheckpoint(log'[Len(log) + 1], t)
        BY <1>1, <2>4, <3>1, EventExtends DEF AddCheckpoint, IsCheckpoint
      <4>2. QED
        BY <1>1, <2>2, <4>1, EventExtends
    <3>2. CASE t # e.t
      <4>1. PICK c \in 1 .. Len(log) :
                /\ IsCheckpoint(log[c], t)
                /\ \A i \in c + 1 .. Len(log) : ~IsChange(log[i], t)
        BY <1>1, <2>4, <3>2, EventExtends DEF AddCheckpoint, BitInv, SuppressionIsSafe
      <4>2. \A i \in c + 1 .. Len(log') : ~IsChange(log'[i], t)
        BY <1>1, <2>2, <3>2, <4>1, EventExtends DEF IsChange
      <4>3. QED
        BY <1>1, <2>2, <4>1, <4>2, EventExtends
    <3>3. QED
      BY <3>1, <3>2
  <2>5. QED
    BY <1>1, <2>3, <2>4 DEF addEvent
<1>2. CASE clear \/ Mount \/ PowerLoss
  BY <1>2 DEF clear, Mount, PowerLoss, BitInv, SuppressionIsSafe
<1>3. CASE PreScanEntry \/ EndPreScan \/ ApplyEntry
  BY <1>3 DEF PreScanEntry, EndPreScan, ApplyEntry, BitInv, SuppressionIsSafe
<1>4. CASE EndApply
  BY <1>4 DEF EndApply, BitInv, SuppressionIsSafe
<1>5. CASE SignalEndOfLog
  BY <1>5 DEF SignalEndOfLog, BitInv, SuppressionIsSafe
<1>6. CASE UNCHANGED vars
  BY <1>6 DEF vars, BitInv, SuppressionIsSafe
<1>7. QED
  BY <1>1, <1>2, <1>3, <1>4, <1>5, <1>6 DEF Next

(* The pre-scan's findings stay true of the part it has read. *)
LEMMA FirstStep == IInv /\ [Next]_vars => FirstInv'
<1> SUFFICES ASSUME IInv, [Next]_vars PROVE FirstInv'
  OBVIOUS
<1> USE DEF IInv
<1>1. ASSUME NEW e \in Entry, addEvent(e) PROVE FirstInv'
  BY <1>1, EventExtends DEF addEvent, FirstInv
<1>2. CASE clear \/ SignalEndOfLog \/ PowerLoss \/ EndApply
  BY <1>2 DEF clear, SignalEndOfLog, PowerLoss, EndApply, FirstInv
<1>3. CASE Mount
  BY <1>3 DEF Mount, FirstInv, IsLastCheckpoint
<1>4. CASE PreScanEntry
  <2>1. log[at + 1] \in Entry /\ at \in Nat
    BY <1>4, ElementOfSeq DEF PreScanEntry, TypeOK
  <2>2. phase' = "prescan" /\ at' = at + 1 /\ log' = log
    BY <1>4 DEF PreScanEntry
  <2> SUFFICES ASSUME NEW t \in Topic
               PROVE  IsLastCheckpoint(firstUncheckpointedEntry[t], t, at)'
    BY <2>2 DEF FirstInv
  <2>3. IsLastCheckpoint(firstUncheckpointedEntry[t], t, at)
    BY <1>4 DEF PreScanEntry, FirstInv
  <2>4. CASE IsCheckpoint(log[at + 1], t)
    <3>1. firstUncheckpointedEntry'[t] = at + 1
      BY <1>4, <2>4 DEF PreScanEntry, IsCheckpoint, TypeOK
    <3>2. QED
      BY <2>1, <2>2, <2>4, <3>1 DEF IsLastCheckpoint
  <2>5. CASE ~IsCheckpoint(log[at + 1], t)
    <3>1. firstUncheckpointedEntry'[t] = firstUncheckpointedEntry[t]
      BY <1>4, <2>5 DEF PreScanEntry, IsCheckpoint, TypeOK
    <3>2. QED
      BY <2>1, <2>2, <2>3, <2>5, <3>1 DEF IsLastCheckpoint
  <2>6. QED
    BY <2>4, <2>5
<1>5. CASE EndPreScan
  BY <1>5 DEF EndPreScan, replayVars, FirstInv, IsLastCheckpoint
<1>6. CASE ApplyEntry
  BY <1>6 DEF ApplyEntry, FirstInv, IsLastCheckpoint
<1>7. CASE UNCHANGED vars
  BY <1>7 DEF vars, FirstInv, IsLastCheckpoint
<1>8. QED
  BY <1>1, <1>2, <1>3, <1>4, <1>5, <1>6, <1>7 DEF Next

(* The second pass hands out what the first one's findings say. *)
LEMMA GotStep == IInv /\ [Next]_vars => GotInv'
<1> SUFFICES ASSUME IInv, [Next]_vars PROVE GotInv'
  OBVIOUS
<1> USE DEF IInv
<1>1. ASSUME NEW e \in Entry, addEvent(e) PROVE GotInv'
  BY <1>1, EventExtends DEF addEvent, GotInv
<1>2. CASE clear \/ SignalEndOfLog \/ PowerLoss \/ EndApply
  BY <1>2 DEF clear, SignalEndOfLog, PowerLoss, EndApply, GotInv
<1>3. CASE Mount \/ PreScanEntry
  BY <1>3 DEF Mount, PreScanEntry, GotInv
<1>4. CASE EndPreScan
  <2>1. phase' = "apply" /\ at' = 0 /\ own' = NoEntries /\ heard' = NoEntries
    BY <1>4 DEF EndPreScan, replayVars, GotInv
  <2>2. QED
    BY <2>1 DEF GotInv, NoEntries
<1>5. CASE ApplyEntry
  <2>1. log[at + 1] \in Entry /\ at \in Nat
    BY <1>5, ElementOfSeq DEF ApplyEntry, TypeOK
  <2>2. /\ phase = "apply" /\ phase' = "apply" /\ at' = at + 1 /\ log' = log
        /\ firstUncheckpointedEntry' = firstUncheckpointedEntry
    BY <1>5 DEF ApplyEntry
  <2> SUFFICES ASSUME NEW t \in Topic
               PROVE  /\ own'[t] = {i \in 1 .. at + 1 : IsChange(log[i], t) /\ Unretired(i, t)}
                      /\ heard'[t] \subseteq {i \in 1 .. at + 1 : Unretired(i, t)}
    BY <2>2 DEF GotInv, Unretired
  <2>3. /\ own[t] = {i \in 1 .. at : IsChange(log[i], t) /\ Unretired(i, t)}
        /\ heard[t] \subseteq {i \in 1 .. at : Unretired(i, t)}
    BY <2>2 DEF GotInv
  <2>4. own'[t] = IF IsChange(log[at + 1], t) /\ Unretired(at + 1, t)
                  THEN own[t] \union {at + 1} ELSE own[t]
    BY <1>5, <2>1 DEF ApplyEntry, Give, IsChange, TypeOK
  <2>5. \/ heard'[t] = heard[t]
        \/ heard'[t] = heard[t] \union {at + 1} /\ Unretired(at + 1, t)
    BY <1>5, <2>1 DEF ApplyEntry, Give, TypeOK
  <2>6. 1 .. at + 1 = (1 .. at) \union {at + 1}
    BY <2>1
  <2>7. QED
    BY <2>3, <2>4, <2>5, <2>6
<1>6. CASE UNCHANGED vars
  BY <1>6 DEF vars, GotInv, Unretired
<1>7. QED
  BY <1>1, <1>2, <1>3, <1>4, <1>5, <1>6 DEF Next

-----------------------------------------------------------------------------

(* The strengthened invariant holds in every reachable state. *)
THEOREM Invariant == Spec => []IInv
<1>1. Init => IInv
  <2>1. Init => TypeOK
    <3>1. Init => log \in Seq(Entry) /\ at \in 0 .. Len(log)
      BY EmptyLog DEF Init
    <3>2. Init => firstUncheckpointedEntry \in [Topic -> Nat]
      BY NoneRetired DEF Init
    <3>3. QED
      BY <3>1, <3>2, FirstTopic, NoEntriesType DEF Init, TypeOK
  <2>2. Init => Reading /\ BitInv /\ FirstInv /\ GotInv
    BY DEF Init, Reading, BitInv, SuppressionIsSafe, FirstInv, GotInv
  <2>3. QED
    BY <2>1, <2>2 DEF IInv
<1>2. IInv /\ [Next]_vars => IInv'
  BY TypeStep, ReadingStep, BitStep, FirstStep, GotStep DEF IInv
<1>3. QED
  BY <1>1, <1>2, PTL DEF Spec

(* Journal keeps its types (TypeOK). *)
THEOREM TypeCorrect == Spec => []TypeOK
  BY Invariant, PTL DEF IInv

(* A checkpoint that addEvent leaves out would have changed nothing: the
   topic already has one behind all its changes. *)
THEOREM SuppressionCorrect == Spec => []SuppressionIsSafe
<1>1. IInv => SuppressionIsSafe
  BY DEF IInv, BitInv
<1>2. QED
  BY <1>1, Invariant, PTL

(* processBuffer gives every topic exactly its changes behind its last
   checkpoint, after any number of interrupted mounts. *)
THEOREM ReplayCorrect == Spec => []ReplayIsExact
<1>1. IInv => ReplayIsExact
  <2> SUFFICES ASSUME IInv, phase = "apply", at = Len(log), NEW t \in Topic
               PROVE  /\ own[t] = Uncheckpointed(t)
                      /\ \A i \in heard[t] :
                            \A c \in i + 1 .. Len(log) : ~IsCheckpoint(log[c], t)
    BY DEF ReplayIsExact
  <2> DEFINE k == firstUncheckpointedEntry[t]
  <2>1. k \in 0 .. Len(log) /\ Len(log) \in Nat
    BY DEF IInv, FirstInv, IsLastCheckpoint, TypeOK
  <2>2. /\ k # 0 => IsCheckpoint(log[k], t)
        /\ \A c \in k + 1 .. Len(log) : ~IsCheckpoint(log[c], t)
    BY DEF IInv, FirstInv, IsLastCheckpoint
  <2>3. /\ own[t] = {i \in 1 .. Len(log) : IsChange(log[i], t) /\ i > k}
        /\ heard[t] \subseteq {i \in 1 .. Len(log) : i > k}
    BY DEF IInv, GotInv, Unretired
  <2>4. ASSUME NEW i \in 1 .. Len(log), i > k
        PROVE  \A c \in i + 1 .. Len(log) : ~IsCheckpoint(log[c], t)
    BY <2>1, <2>2, <2>4
  <2>5. ASSUME NEW i \in 1 .. Len(log), IsChange(log[i], t),
               \A c \in i + 1 .. Len(log) : ~IsCheckpoint(log[c], t)
        PROVE  i > k
    BY <2>1, <2>2, <2>5 DEF IsChange, IsCheckpoint
  <2>6. own[t] = Uncheckpointed(t)
    BY <2>3, <2>4, <2>5 DEF Uncheckpointed
  <2>7. QED
    BY <2>3, <2>4, <2>6
<1>2. QED
  BY <1>1, Invariant, PTL

(* While the pre-scan runs, every topic has been shown its operations among
   the entries read so far. *)
ScanInv ==
    phase = "prescan" =>
        \A t \in Topic : \A i \in 1 .. at :
            (log[i].kind = "op" /\ log[i].t = t) => i \in scanned[t]

(* Only the pre-scan and the mount before it can disturb this. *)
LEMMA ScanStep == IInv /\ ScanInv /\ [Next]_vars => ScanInv'
<1> SUFFICES ASSUME IInv, ScanInv, [Next]_vars PROVE ScanInv'
  OBVIOUS
<1>1. ASSUME NEW e \in Entry, addEvent(e) PROVE ScanInv'
  BY <1>1, EventExtends DEF addEvent, ScanInv
<1>2. CASE Mount
  BY <1>2 DEF Mount, ScanInv
<1>3. CASE PreScanEntry
  <2>1. log[at + 1] \in Entry /\ at \in Nat
    BY <1>3, ElementOfSeq DEF PreScanEntry, IInv, TypeOK
  <2>2. phase = "prescan" /\ at' = at + 1 /\ log' = log
    BY <1>3 DEF PreScanEntry
  <2> SUFFICES ASSUME NEW t \in Topic, NEW i \in 1 .. at + 1,
                      log[i].kind = "op", log[i].t = t
               PROVE  i \in scanned'[t]
    BY <2>2 DEF ScanInv
  <2>3. CASE i \in 1 .. at
    <3>1. i \in scanned[t]
      BY <2>2, <2>3 DEF ScanInv
    <3>2. scanned' = scanned \/ \E S : scanned' = Give(scanned, S, at + 1)
      BY <1>3 DEF PreScanEntry
    <3>3. QED
      BY <3>1, <3>2 DEF Give
  <2>4. CASE i = at + 1
    <3>1. \E S : scanned' = Give(scanned, S \union {t}, at + 1)
      BY <1>3, <2>4 DEF PreScanEntry
    <3>2. QED
      BY <2>4, <3>1 DEF Give
  <2>5. QED
    BY <2>1, <2>3, <2>4
<1>4. CASE clear \/ EndPreScan \/ ApplyEntry
  BY <1>4 DEF clear, EndPreScan, ApplyEntry, ScanInv
<1>5. CASE EndApply \/ SignalEndOfLog \/ PowerLoss
  BY <1>5 DEF EndApply, SignalEndOfLog, PowerLoss, ScanInv
<1>6. CASE UNCHANGED vars
  BY <1>6 DEF vars, ScanInv
<1>7. QED
  BY <1>1, <1>2, <1>3, <1>4, <1>5, <1>6 DEF Next

(* processBuffer's first pass shows every topic all its operations in the log,
   retired or not, after any number of interrupted mounts. *)
THEOREM PreScanCorrect == Spec => []PreScanIsComplete
<1>1. Init => ScanInv
  BY DEF Init, ScanInv
<1>2. ScanInv => PreScanIsComplete
  BY DEF ScanInv, PreScanIsComplete
<1>3. QED
  BY <1>1, <1>2, ScanStep, Invariant, PTL DEF Spec

-----------------------------------------------------------------------------

(* Every step of the journal is a step of the append-only log, or none. *)
LEMMA LogStep == IInv /\ [Next]_vars => [Log!LogNext]_<<log, at>>
<1> SUFFICES ASSUME IInv, [Next]_vars PROVE [Log!LogNext]_<<log, at>>
  OBVIOUS
<1> USE DEF Log!LogNext
<1>1. ASSUME NEW e \in Entry, addEvent(e) PROVE Log!LogAppend(e)
  <2>1. at = Len(log)
    BY <1>1, EventExtends DEF IInv, Reading
  <2>2. AppendEntry(e)
    BY <1>1 DEF addEvent, AddChange, AddCheckpoint
  <2>3. log' = Append(log, e)
    BY <2>1, <2>2, AppendExtends DEF IInv
  <2>4. QED
    BY <2>1, <2>2, <2>3 DEF AppendEntry, Log!LogAppend
<1>2. CASE clear
  BY <1>2 DEF clear, Log!LogClear
<1>3. CASE Mount \/ EndPreScan \/ PowerLoss
  BY <1>3 DEF Mount, EndPreScan, PowerLoss, Log!LogRewind
<1>4. CASE PreScanEntry \/ ApplyEntry
  BY <1>4 DEF PreScanEntry, ApplyEntry, Log!LogRead
<1>5. CASE EndApply \/ SignalEndOfLog
  BY <1>5 DEF EndApply, SignalEndOfLog
<1>6. CASE UNCHANGED vars
  BY <1>6 DEF vars
<1>7. QED
  BY <1>1, <1>2, <1>3, <1>4, <1>5, <1>6 DEF Next

(* The journal implements the append-only log: it never appends before the
   end, which would cut off entries a later mount still needs. *)
THEOREM JournalImplementsLog == Spec => KeepsLogContract
<1>1. Init => Log!LogInit
  BY DEF Init, Log!LogInit
<1>2. QED
  BY <1>1, LogStep, Invariant, PTL DEF Spec, KeepsLogContract, Log!LogSpec, Log!logVars

=============================================================================

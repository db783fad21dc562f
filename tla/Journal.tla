------------------------------ MODULE Journal ------------------------------
(***************************************************************************)
(* The journal's dispatcher (class Journal, src/src/journal.cpp): how      *)
(* changes get into the log, how a checkpoint retires the entries of a     *)
(* topic, and how a mount after a loss of power hands the entries that are *)
(* not retired to their topics.                                            *)
(*                                                                         *)
(* A topic is a component that recovers itself from its entries.  During a *)
(* mount the log is read twice.  The pre-scan finds the last checkpoint of *)
(* every topic; the second pass gives each topic its own entries behind    *)
(* that checkpoint, and also the entries of other topics it is interested  *)
(* in.  Then every topic may finish what was interrupted, which appends to *)
(* the same log.  Power may fail at every step, also during a mount.       *)
(***************************************************************************)
EXTENDS Naturals, Sequences

CONSTANTS
    NoOfTopics,     \* topics are 1 .. NoOfTopics, in the order of Topic
    Listens,        \* <<u, t>>: isInterestedIn of u can be true of t's entries
    LogCapacity     \* entries that fit into the log

Topic == 1 .. NoOfTopics

ASSUME JournalAssumption ==
    /\ NoOfTopics \in Nat \ {0}
    /\ LogCapacity \in Nat
    /\ Listens \subseteq Topic \X Topic

(* An entry is an operation of topic t, a page state transition whose      *)
(* target is t, or a checkpoint of t.                                      *)
Kind == {"op", "pagestate", "checkpoint"}

Entry == [kind : Kind, t : Topic]

VARIABLES
    log,        \* the entries in the persistence
    at,         \* entries before the cursor of the persistence
    disabled,   \* Journal::disabled
    uncheckpointedChanges,  \* the topics whose bit is set
    phase,      \* "off", "prescan", "apply", "signal" or "run"
    turn,       \* the topic whose signalEndOfLog runs
    firstUncheckpointedEntry,   \* entries up to this one are retired
    scanned,    \* scanned[t]: the entries preScan gave to t
    own,        \* own[t]: t's entries that processEntry gave to it
    heard       \* heard[t]: entries of other topics given to t

vars == <<log, at, disabled, uncheckpointedChanges, phase, turn,
          firstUncheckpointedEntry, scanned, own, heard>>

replayVars == <<turn, firstUncheckpointedEntry, scanned, own, heard>>

NoEntries == [t \in Topic |-> {}]

IsCheckpoint(e, t) == e.kind = "checkpoint" /\ e.t = t

IsChange(e, t) == e.kind # "checkpoint" /\ e.t = t

(* Types of the log, its cursor and what a mount keeps per topic. *)
TypeOK ==
    /\ log \in Seq(Entry)
    /\ at \in 0 .. Len(log)
    /\ disabled \in BOOLEAN
    /\ uncheckpointedChanges \subseteq Topic
    /\ phase \in {"off", "prescan", "apply", "signal", "run"}
    /\ turn \in Topic
    /\ firstUncheckpointedEntry \in [Topic -> Nat]
    /\ scanned \in [Topic -> SUBSET Nat]
    /\ own \in [Topic -> SUBSET Nat]
    /\ heard \in [Topic -> SUBSET Nat]

Init ==
    /\ log = <<>>
    /\ at = 0
    /\ disabled = FALSE
    /\ uncheckpointedChanges = Topic
    /\ phase = "off"
    /\ turn = 1
    /\ firstUncheckpointedEntry = [t \in Topic |-> 0]
    /\ scanned = NoEntries
    /\ own = NoEntries
    /\ heard = NoEntries

-----------------------------------------------------------------------------
(* Normal operation.                                                       *)

(* appendEntry writes at the cursor; what lay behind it no longer counts.  *)
AppendEntry(e) ==
    /\ at < LogCapacity
    /\ log' = Append(SubSeq(log, 1, at), e)
    /\ at' = at + 1

(* addEvent of a change: sets the bit of its target. *)
AddChange(e) ==
    /\ e.kind # "checkpoint"
    /\ AppendEntry(e)
    /\ uncheckpointedChanges' = uncheckpointedChanges \union {e.t}

(* addEvent of a checkpoint: appended only if its topic changed something
   since the last one, so that checkpoints do not pile up. *)
AddCheckpoint(e) ==
    /\ e.kind = "checkpoint"
    /\ e.t \in uncheckpointedChanges
    /\ AppendEntry(e)
    /\ uncheckpointedChanges' = uncheckpointedChanges \ {e.t}

(* mutant: changes of page states do not count as changes of their target *)
Bad_addEvent(e) ==
    /\ phase # "off"
    /\ ~disabled
    /\ IF e.kind = "pagestate"
       THEN AppendEntry(e) /\ UNCHANGED uncheckpointedChanges
       ELSE AddChange(e) \/ AddCheckpoint(e)
    /\ UNCHANGED <<disabled, phase, replayVars>>

(* mutant: events are logged while the log is being read *)
Bad_addEventInReplay(e) ==
    /\ phase # "off"
    /\ AddChange(e) \/ AddCheckpoint(e)
    /\ UNCHANGED <<disabled, phase, replayVars>>

(* addEvent(e), where it changes anything: not while disabled, not for a
   checkpoint without changes, and not when the log is full. *)
addEvent(e) ==
    /\ phase # "off"
    /\ ~disabled
    /\ AddChange(e) \/ AddCheckpoint(e)
    /\ UNCHANGED <<disabled, phase, replayVars>>

(* clear(): everything is in flash, the log starts anew. *)
clear ==
    /\ phase = "run"
    /\ log' = <<>>
    /\ at' = 0
    /\ disabled' = FALSE
    /\ uncheckpointedChanges' = Topic
    /\ UNCHANGED <<phase, replayVars>>

-----------------------------------------------------------------------------
(* Mount: enable(), then processBuffer().                                  *)

(* enable() and the start of processBuffer(): with entries in the log the
   journal is disabled again until all of them are read. *)
Mount ==
    /\ phase = "off"
    /\ at' = 0
    /\ uncheckpointedChanges' = Topic
    /\ disabled' = (log # <<>>)
    /\ phase' = IF log = <<>> THEN "run" ELSE "prescan"
    /\ firstUncheckpointedEntry' = [t \in Topic |-> 0]
    /\ UNCHANGED <<log, turn, scanned, own, heard>>

(* the topics other than t that may answer isInterestedIn with true *)
Listeners(e) ==
    IF e.kind = "op" THEN {u \in Topic \ {e.t} : <<u, e.t>> \in Listens} ELSE {}

(* got, with entry i added for every topic of S *)
Give(got, S, i) == [t \in Topic |-> IF t \in S THEN got[t] \union {i} ELSE got[t]]

(* mutant: the pre-scan remembers the first checkpoint, not the last *)
Bad_PreScanEntry ==
    /\ phase = "prescan"
    /\ at < Len(log)
    /\ at' = at + 1
    /\ LET e == log[at + 1] IN
       \/ /\ e.kind = "checkpoint"
          /\ firstUncheckpointedEntry' =
                [firstUncheckpointedEntry EXCEPT ![e.t] = IF @ = 0 THEN at + 1 ELSE @]
          /\ UNCHANGED scanned
       \/ /\ e.kind = "pagestate"
          /\ UNCHANGED <<firstUncheckpointedEntry, scanned>>
       \/ /\ e.kind = "op"
          /\ \E S \in SUBSET Listeners(e) : scanned' = Give(scanned, S \union {e.t}, at + 1)
          /\ UNCHANGED firstUncheckpointedEntry
    /\ UNCHANGED <<log, disabled, uncheckpointedChanges, phase, turn, own, heard>>

(* mutant: a topic that has a checkpoint is not shown its later operations *)
Bad_PreScanSkips ==
    /\ phase = "prescan"
    /\ at < Len(log)
    /\ at' = at + 1
    /\ LET e == log[at + 1] IN
       \/ /\ e.kind = "checkpoint"
          /\ firstUncheckpointedEntry' = [firstUncheckpointedEntry EXCEPT ![e.t] = at + 1]
          /\ UNCHANGED scanned
       \/ /\ e.kind = "pagestate"
          /\ UNCHANGED <<firstUncheckpointedEntry, scanned>>
       \/ /\ e.kind = "op"
          /\ scanned' = Give(scanned, {t \in {e.t} : firstUncheckpointedEntry[t] = 0}, at + 1)
          /\ UNCHANGED firstUncheckpointedEntry
    /\ UNCHANGED <<log, disabled, uncheckpointedChanges, phase, turn, own, heard>>

(* One entry of the pre-scan.  Page states are skipped; an operation goes to
   its topic and to those interested, whether or not it is retired. *)
PreScanEntry ==
    /\ phase = "prescan"
    /\ at < Len(log)
    /\ at' = at + 1
    /\ LET e == log[at + 1] IN
       \/ /\ e.kind = "checkpoint"
          /\ firstUncheckpointedEntry' = [firstUncheckpointedEntry EXCEPT ![e.t] = at + 1]
          /\ UNCHANGED scanned
       \/ /\ e.kind = "pagestate"
          /\ UNCHANGED <<firstUncheckpointedEntry, scanned>>
       \/ /\ e.kind = "op"
          /\ \E S \in SUBSET Listeners(e) : scanned' = Give(scanned, S \union {e.t}, at + 1)
          /\ UNCHANGED firstUncheckpointedEntry
    /\ UNCHANGED <<log, disabled, uncheckpointedChanges, phase, turn, own, heard>>

(* mutant: the log is rewound for another pre-scan *)
Bad_EndPreScan ==
    /\ phase = "prescan"
    /\ at = Len(log)
    /\ at' = 0
    /\ UNCHANGED <<log, disabled, uncheckpointedChanges, phase, replayVars>>

EndPreScan ==
    /\ phase = "prescan"
    /\ at = Len(log)
    /\ at' = 0
    /\ phase' = "apply"
    /\ UNCHANGED <<log, disabled, uncheckpointedChanges, replayVars>>

(* entry i is behind the last checkpoint of t *)
Unretired(i, t) == i > firstUncheckpointedEntry[t]

(* One entry of applyJournalEntries(). *)
ApplyEntry ==
    /\ phase = "apply"
    /\ at < Len(log)
    /\ at' = at + 1
    /\ LET e == log[at + 1]
           i == at + 1
       IN  \/ /\ e.kind = "checkpoint"
              /\ UNCHANGED <<own, heard>>
           \/ /\ e.kind # "checkpoint"
              /\ own' = Give(own, {t \in {e.t} : Unretired(i, t)}, i)
              /\ \E S \in SUBSET Listeners(e) :
                    heard' = Give(heard, {u \in S : Unretired(i, u)}, i)
    /\ UNCHANGED <<log, disabled, uncheckpointedChanges, phase, turn,
                   firstUncheckpointedEntry, scanned>>

(* The log is read; from here on topics may write and log again. *)
EndApply ==
    /\ phase = "apply"
    /\ at = Len(log)
    /\ disabled' = FALSE
    /\ phase' = "signal"
    /\ turn' = 1
    /\ UNCHANGED <<log, at, uncheckpointedChanges, firstUncheckpointedEntry,
                   scanned, own, heard>>

(* Topic `turn` returns from signalEndOfLog.  What it appended before are
   addEvent steps. *)
SignalEndOfLog ==
    /\ phase = "signal"
    /\ IF turn = NoOfTopics
       THEN /\ phase' = "run"
            /\ turn' = 1
            /\ scanned' = NoEntries
            /\ own' = NoEntries
            /\ heard' = NoEntries
       ELSE /\ turn' = turn + 1
            /\ UNCHANGED <<phase, scanned, own, heard>>
    /\ UNCHANGED <<log, at, disabled, uncheckpointedChanges, firstUncheckpointedEntry>>

(* Power fails: only the log is left. *)
PowerLoss ==
    /\ phase # "off"
    /\ phase' = "off"
    /\ at' = 0
    /\ disabled' = FALSE
    /\ uncheckpointedChanges' = Topic
    /\ turn' = 1
    /\ firstUncheckpointedEntry' = [t \in Topic |-> 0]
    /\ scanned' = NoEntries
    /\ own' = NoEntries
    /\ heard' = NoEntries
    /\ UNCHANGED log

MountStep == PreScanEntry \/ EndPreScan \/ ApplyEntry \/ EndApply \/ SignalEndOfLog

Next ==
    \/ \E e \in Entry : addEvent(e)
    \/ clear
    \/ Mount
    \/ PreScanEntry
    \/ EndPreScan
    \/ ApplyEntry
    \/ EndApply
    \/ SignalEndOfLog
    \/ PowerLoss

Spec == Init /\ [][Next]_vars

(* Mounting is one call of the program: once started it runs on, unless
   power fails. *)
FairSpec == Spec /\ WF_vars(MountStep)

-----------------------------------------------------------------------------
(* Properties.                                                             *)

(* Leaving out a checkpoint loses nothing: a topic whose bit is not set has
   a checkpoint in the log and no change behind the last one. *)
SuppressionIsSafe ==
    (phase \in {"signal", "run"}) =>
        \A t \in Topic \ uncheckpointedChanges :
            \E c \in 1 .. Len(log) :
                /\ IsCheckpoint(log[c], t)
                /\ \A i \in c + 1 .. Len(log) : ~IsChange(log[i], t)

(* the changes of t that no later checkpoint retires *)
Uncheckpointed(t) ==
    {i \in 1 .. Len(log) :
        /\ IsChange(log[i], t)
        /\ \A c \in i + 1 .. Len(log) : ~IsCheckpoint(log[c], t)}

(* When the second pass ends, every topic has been given exactly its changes
   behind its last checkpoint: none is lost and none that a checkpoint
   retired comes back, however often power failed before, and nothing it
   merely listens to is older than its checkpoint either. *)
ReplayIsExact ==
    (phase = "apply" /\ at = Len(log)) =>
        \A t \in Topic :
            /\ own[t] = Uncheckpointed(t)
            /\ \A i \in heard[t] : \A c \in i + 1 .. Len(log) : ~IsCheckpoint(log[c], t)

(* When the pre-scan ends, every topic has been shown each of its operations
   in the log, retired or not. *)
PreScanIsComplete ==
    (phase = "prescan" /\ at = Len(log)) =>
        \A t \in Topic : \A i \in 1 .. Len(log) :
            (log[i].kind = "op" /\ log[i].t = t) => i \in scanned[t]

Log == INSTANCE AppendLog

(* The journal keeps the contract of its persistence: it appends only behind
   the last entry, so an interrupted mount leaves the log complete for the
   next one. *)
KeepsLogContract == Log!LogSpec

(* A started mount (processBuffer) comes to an end, unless power fails. *)
MountCompletes == phase = "prescan" ~> phase \in {"run", "off"}

=============================================================================

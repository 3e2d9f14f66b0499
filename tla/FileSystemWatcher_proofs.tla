---------------------- MODULE FileSystemWatcher_proofs ----------------------
(***************************************************************************)
(* Proofs about FileSystemWatcher, for every number of watchers, file      *)
(* names, changes and faults and every size of the monitor's buffer.       *)
(***************************************************************************)
EXTENDS FileSystemWatcher, SequenceTheorems, FiniteSetTheorems, WellFoundedInduction, TLAPS

(***************************************************************************)
(* The types.                                                              *)
(***************************************************************************)
Places == {"open", "register", "check", "heartbeat", "sleep", "close", "ended"}
Completion == [w : Watchers, success : BOOLEAN]
CallbackState == [w : Watchers, next : 1 .. Capacity + 1, oldFileName : Extracted \cup {NoName}]

\* The thread, the watcher objects and the completions.
ThreadTypes ==
  /\ pc \in Places /\ at \in Watchers /\ StopBit \in {0, 1} /\ box \in BOOLEAN
  /\ callback = Idle \/ callback \in CallbackState
  /\ good \in [Watchers -> BOOLEAN] /\ handlers \in [Watchers -> BOOLEAN]
  /\ pending \in [Watchers -> BOOLEAN] /\ overflowed \in [Watchers -> BOOLEAN]
  /\ apcs \in Seq(Completion)
  /\ faults \in 0 .. MaxFaults

\* The records on their way.
BufferTypes ==
  /\ Buffer \in [Watchers -> Seq(Record)] /\ recorded \in [Watchers -> Seq(Record)]
  /\ \A w \in Watchers : Len(Buffer[w]) <= Capacity /\ Len(recorded[w]) <= Capacity

\* The files and what happened to them.
VolumeTypes ==
  /\ history \in [Watchers -> Seq(Change)]
  /\ \A w \in Watchers : Len(history[w]) <= MaxChanges
  /\ present \in [Watchers -> SUBSET Names] /\ renaming \in [Watchers -> BOOLEAN]
  /\ lost \in [Watchers -> SUBSET (1 .. MaxChanges)]
  /\ overflows \in [Watchers -> Nat]
  /\ \A w \in Watchers : renaming[w] =>
        /\ Len(history[w]) > 0
        /\ history[w][Len(history[w])].op = "RENAMED"
        /\ history[w][Len(history[w])].to \in Names

Types == ThreadTypes /\ BufferTypes /\ VolumeTypes /\ FILE_LOG \in Seq(Row)

LEMMA TypesImplyTypeOK == Types => TypeOK
BY DEF Types, ThreadTypes, BufferTypes, VolumeTypes, TypeOK, Places, Completion, CallbackState

\* The numbers of watchers.
LEMMA WatcherNumbers ==
  /\ NWatchers \in Nat \ {0} /\ Capacity \in Nat \ {0} /\ MaxChanges \in Nat /\ MaxFaults \in Nat
  /\ 1 \in Watchers /\ NWatchers \in Watchers
  /\ \A w \in Watchers : w \in Nat /\ w > 0 /\ w <= NWatchers
  /\ \A w \in Watchers : w < NWatchers => w + 1 \in Watchers
  /\ \A w \in Watchers : w > 1 => w - 1 \in Watchers
  /\ 0 \notin Watchers
BY ConstantsAssumption DEF ConstantsAssumption, Watchers

\* What a longer sequence holds.
LEMMA AppendFacts ==
  ASSUME NEW S, NEW s \in Seq(S), NEW e \in S
  PROVE  /\ Append(s, e) \in Seq(S)
         /\ Len(s) \in Nat /\ Len(Append(s, e)) = Len(s) + 1
         /\ \A i \in 1 .. Len(s) : Append(s, e)[i] = s[i]
         /\ Append(s, e)[Len(s) + 1] = e
         /\ \A i \in 1 .. Len(Append(s, e)) : i \in 1 .. Len(s) \/ i = Len(s) + 1
         /\ Append(s, e) # <<>>
BY AppendProperties, LenProperties, EmptySeq

\* The elements of a sequence are of its type.
LEMMA Elements ==
  ASSUME NEW S, NEW s \in Seq(S)
  PROVE  Len(s) \in Nat /\ \A i \in 1 .. Len(s) : s[i] \in S
BY ElementOfSeq, LenProperties

\* A callback that runs is one of a watcher.
LEMMA RunningCallback ==
  ThreadTypes /\ callback # Idle =>
    /\ callback \in CallbackState
    /\ callback.w \in Watchers /\ callback.next \in Nat /\ callback.next > 0
    /\ callback.next <= Capacity + 1
    /\ callback.oldFileName \in Extracted \cup {NoName}
BY WatcherNumbers DEF ThreadTypes, CallbackState

LEMMA IdleCallback == Idle.w = 0 /\ Idle.w \notin Watchers
BY WatcherNumbers DEF Idle

(***************************************************************************)
(* What the four changes that users make have in common: change c happens  *)
(* on volume w and is notified as record r, of a rename the first half.    *)
(***************************************************************************)
Happening(w, c, r) ==
  /\ Observed(w) /\ ~renaming[w] /\ Len(history[w]) < MaxChanges
  /\ history' = [history EXCEPT ![w] = Append(@, c)]
  /\ r.change = Len(history[w]) + 1 /\ r.name = c.name
  /\ r.action = IF c.op = "RENAMED" THEN "RENAMED_OLD_NAME" ELSE c.op
  /\ c.op = "RENAMED" => c.to \in Names
  /\ renaming' = IF c.op = "RENAMED" THEN [renaming EXCEPT ![w] = TRUE] ELSE renaming
  /\ present' \in [Watchers -> SUBSET Names]
  /\ \A v \in Watchers : v # w => present'[v] = present[v]
  /\ \A n \in present[w] \ present'[w] : c.op \in {"REMOVED", "RENAMED"} /\ c.name = n
  /\ c.op \in {"ADDED", "MODIFIED"} => c.name \in present'[w]
  /\ c.op = "RENAMED" => c.to \in present'[w]
  /\ Notify(w, r)
  /\ UNCHANGED <<thread, objects, pending, apcs, FILE_LOG, overflows, faults>>

LEMMA UsersChange ==
  ASSUME Types, NEW w \in Watchers, NEW name \in Names,
         \/ CreateAFile(w, name) \/ ChangeAFile(w, name) \/ DeleteAFile(w, name)
         \/ \E to \in Names : RenameAFile(w, name, to)
  PROVE  \E c \in Change, r \in Record : Happening(w, c, r)
<1>1. /\ Len(history[w]) \in Nat /\ MaxChanges \in Nat
      /\ present \in [Watchers -> SUBSET Names] /\ renaming \in [Watchers -> BOOLEAN]
  BY Elements, WatcherNumbers DEF Types, VolumeTypes
<1>2. Len(history[w]) < MaxChanges => Len(history[w]) + 1 \in 1 .. MaxChanges
  BY <1>1
<1>3. CASE CreateAFile(w, name)
  <2> DEFINE c == [op |-> "ADDED", name |-> name, to |-> NoName]
  <2> DEFINE r == [change |-> Len(history[w]) + 1, action |-> "ADDED", name |-> name]
  <2>1. c \in Change /\ r \in Record
    BY <1>2, <1>3 DEF CreateAFile, Happens, Change, Record, Actions
  <2>2. Happening(w, c, r)
    BY <1>1, <1>3 DEF CreateAFile, Happens, Happening
  <2> QED
    BY <2>1, <2>2
<1>4. CASE ChangeAFile(w, name)
  <2> DEFINE c == [op |-> "MODIFIED", name |-> name, to |-> NoName]
  <2> DEFINE r == [change |-> Len(history[w]) + 1, action |-> "MODIFIED", name |-> name]
  <2>1. c \in Change /\ r \in Record
    BY <1>2, <1>4 DEF ChangeAFile, Happens, Change, Record, Actions
  <2>2. Happening(w, c, r)
    BY <1>1, <1>4 DEF ChangeAFile, Happens, Happening
  <2> QED
    BY <2>1, <2>2
<1>5. CASE DeleteAFile(w, name)
  <2> DEFINE c == [op |-> "REMOVED", name |-> name, to |-> NoName]
  <2> DEFINE r == [change |-> Len(history[w]) + 1, action |-> "REMOVED", name |-> name]
  <2>1. c \in Change /\ r \in Record
    BY <1>2, <1>5 DEF DeleteAFile, Happens, Change, Record, Actions
  <2>2. Happening(w, c, r)
    BY <1>1, <1>5 DEF DeleteAFile, Happens, Happening
  <2> QED
    BY <2>1, <2>2
<1>6. ASSUME NEW to \in Names, RenameAFile(w, name, to)
      PROVE  \E c \in Change, r \in Record : Happening(w, c, r)
  <2> DEFINE c == [op |-> "RENAMED", name |-> name, to |-> to]
  <2> DEFINE r == [change |-> Len(history[w]) + 1, action |-> "RENAMED_OLD_NAME", name |-> name]
  <2>1. c \in Change /\ r \in Record
    BY <1>2, <1>6 DEF RenameAFile, Happens, Change, Record, Actions
  <2>2. Happening(w, c, r)
    BY <1>1, <1>6 DEF RenameAFile, Happens, Happening
  <2> QED
    BY <2>1, <2>2
<1> QED
  BY <1>3, <1>4, <1>5, <1>6

(***************************************************************************)
(* What the notification of a record does: all that was recorded is        *)
(* forgotten, or the record is the last one.                               *)
(***************************************************************************)
Forgotten(w, r) ==
  /\ recorded'[w] = <<>> /\ overflowed'[w]
  /\ \A i \in 1 .. Len(recorded[w]) : recorded[w][i].change \in lost'[w]
  /\ r.change \in lost'[w]

Kept(w, r) ==
  /\ recorded'[w] = Append(recorded[w], r)
  /\ Len(recorded[w]) < Capacity

LEMMA NotifyEffect ==
  ASSUME Types, NEW w \in Watchers, NEW r \in Record, Notify(w, r)
  PROVE  /\ recorded' \in [Watchers -> Seq(Record)]
         /\ \A v \in Watchers : Len(recorded'[v]) <= Capacity
         /\ \A v \in Watchers : v # w => recorded'[v] = recorded[v]
         /\ overflowed' \in [Watchers -> BOOLEAN]
         /\ lost' \in [Watchers -> SUBSET (1 .. MaxChanges)]
         /\ \A v \in Watchers : lost[v] \subseteq lost'[v]
         /\ Forgotten(w, r) \/ Kept(w, r)
<1>1. /\ recorded \in [Watchers -> Seq(Record)] /\ overflowed \in [Watchers -> BOOLEAN]
      /\ lost \in [Watchers -> SUBSET (1 .. MaxChanges)]
      /\ \A v \in Watchers : Len(recorded[v]) <= Capacity
      /\ Capacity \in Nat \ {0}
  BY WatcherNumbers DEF Types, ThreadTypes, BufferTypes, VolumeTypes
<1>2. r.change \in 1 .. MaxChanges
  BY DEF Record
<1>3. Len(recorded[w]) \in Nat /\ \A i \in 1 .. Len(recorded[w]) : recorded[w][i].change \in 1 .. MaxChanges
  <2>1. recorded[w] \in Seq(Record)
    BY <1>1
  <2>2. Len(recorded[w]) \in Nat /\ \A i \in 1 .. Len(recorded[w]) : recorded[w][i] \in Record
    BY <2>1, Elements
  <2> QED
    BY <2>2 DEF Record
<1>4. CASE overflowed[w] \/ Len(recorded[w]) >= Capacity
  <2>1. /\ recorded' = [recorded EXCEPT ![w] = <<>>]
        /\ overflowed' = [overflowed EXCEPT ![w] = TRUE]
        /\ lost' = [lost EXCEPT ![w] = @ \cup ChangesOf(recorded[w]) \cup {r.change}]
    BY <1>4 DEF Notify
  <2>2. ChangesOf(recorded[w]) \subseteq 1 .. MaxChanges
    BY <1>3 DEF ChangesOf
  <2>3. lost' \in [Watchers -> SUBSET (1 .. MaxChanges)]
    BY <1>1, <1>2, <2>1, <2>2
  <2>4. lost'[w] = lost[w] \cup ChangesOf(recorded[w]) \cup {r.change}
    BY <1>1, <2>1
  <2>5. \A i \in 1 .. Len(recorded[w]) : recorded[w][i].change \in lost'[w]
    BY <2>4 DEF ChangesOf
  <2>6. <<>> \in Seq(Record) /\ Len(<<>>) = 0
    BY EmptySeq
  <2>7. \A v \in Watchers : lost[v] \subseteq lost'[v]
    BY <1>1, <2>1
  <2>8. /\ recorded' \in [Watchers -> Seq(Record)]
        /\ \A v \in Watchers : Len(recorded'[v]) <= Capacity
        /\ \A v \in Watchers : v # w => recorded'[v] = recorded[v]
        /\ recorded'[w] = <<>>
    BY <1>1, <2>1, <2>6
  <2> QED
    BY <1>1, <2>1, <2>3, <2>4, <2>5, <2>7, <2>8 DEF Forgotten
<1>5. CASE ~(overflowed[w] \/ Len(recorded[w]) >= Capacity)
  <2>1. recorded' = [recorded EXCEPT ![w] = Append(@, r)] /\ UNCHANGED <<overflowed, lost>>
    BY <1>5 DEF Notify
  <2>2. /\ Append(recorded[w], r) \in Seq(Record)
        /\ Len(Append(recorded[w], r)) = Len(recorded[w]) + 1
    BY <1>1, AppendFacts
  <2>3. Len(recorded[w]) < Capacity
    BY <1>1, <1>3, <1>5
  <2> QED
    BY <1>1, <1>3, <2>1, <2>2, <2>3 DEF Kept
<1> QED
  BY <1>4, <1>5

(***************************************************************************)
(* The steps, by what they have in common.                                 *)
(***************************************************************************)
\* The loop of Run and the stop touch nothing that has to do with changes.
LoopStep ==
  /\ UNCHANGED <<callback, box, objects, kernel, world, ghosts>>
  /\ pc' \in Places /\ at' \in Watchers /\ StopBit' \in {0, 1}
  /\ \/ pc \in {"check", "heartbeat"} /\ pc' \in {"check", "heartbeat", "sleep", "close"}
     \/ pc = "sleep" /\ callback = Idle /\ pc' \in {"check", "heartbeat"}
     \/ UNCHANGED <<pc, at>>

LEMMA LoopSteps ==
  ASSUME Types, CheckStopBit \/ Heartbeat \/ SleepExReturns \/ RequestStop \/ Ended \/ UNCHANGED vars
  PROVE  LoopStep
<1> USE DEF Goto, NextHeartbeat, Places, LoopStep
<1>1. pc \in Places /\ at \in Watchers /\ StopBit \in {0, 1}
  BY DEF Types, ThreadTypes
<1>2. CASE CheckStopBit
  BY <1>1, <1>2, WatcherNumbers DEF CheckStopBit
<1>3. CASE Heartbeat
  BY <1>1, <1>3, WatcherNumbers DEF Heartbeat
<1>4. CASE SleepExReturns
  BY <1>1, <1>4, WatcherNumbers DEF SleepExReturns, Alertable
<1>5. CASE RequestStop
  BY <1>1, <1>5 DEF RequestStop
<1>6. CASE Ended \/ UNCHANGED vars
  BY <1>1, <1>6 DEF Ended, vars, thread
<1> QED
  BY <1>2, <1>3, <1>4, <1>5, <1>6

LEMMA Steps ==
  ASSUME Types, [Next]_vars
  PROVE  \/ \E w \in Watchers :
              \/ \E c \in Change, r \in Record : Happening(w, c, r)
              \/ ReportNewName(w) \/ CompleteWithRecords(w)
              \/ CompleteOverflow(w) \/ CompleteWithError(w)
         \/ DeliverApc \/ RememberOldName \/ HandleEvent \/ HandleEventFails
         \/ DismissBox \/ Repost \/ Open \/ SetEventHandlers \/ Close \/ LoopStep
<1>1. CASE Run
  BY <1>1, LoopSteps DEF Run
<1>2. CASE Callback
  BY <1>2 DEF Callback
<1>3. CASE DismissBox \/ RequestStop \/ Ended \/ UNCHANGED vars
  BY <1>3, LoopSteps
<1>4. ASSUME NEW w \in Watchers, Kernel(w) \/ CompleteWithError(w)
      PROVE  CompleteWithRecords(w) \/ CompleteOverflow(w) \/ CompleteWithError(w)
  BY <1>4 DEF Kernel
<1>5. ASSUME NEW w \in Watchers, Users(w)
      PROVE  ReportNewName(w) \/ \E c \in Change, r \in Record : Happening(w, c, r)
  BY <1>5, UsersChange DEF Users
<1> QED
  BY <1>1, <1>2, <1>3, <1>4, <1>5 DEF Next

(***************************************************************************)
(* Type correctness.                                                       *)
(***************************************************************************)
LEMMA InitTypes == Init => Types
<1> SUFFICES ASSUME Init PROVE Types
  OBVIOUS
<1>1. \A S : <<>> \in Seq(S) /\ Len(<<>>) = 0
  BY EmptySeq
<1>2. ThreadTypes
  <2>1. apcs \in Seq(Completion)
    BY <1>1 DEF Init
  <2>2. faults \in 0 .. MaxFaults
    BY WatcherNumbers DEF Init
  <2> QED
    BY <2>1, <2>2, WatcherNumbers DEF Init, ThreadTypes, Places
<1>3. BufferTypes
  BY <1>1, WatcherNumbers DEF Init, BufferTypes
<1>4. VolumeTypes
  BY <1>1, WatcherNumbers DEF Init, VolumeTypes
<1>5. FILE_LOG \in Seq(Row)
  BY <1>1 DEF Init
<1> QED
  BY <1>2, <1>3, <1>4, <1>5 DEF Types

\* A completion joins the queue.
LEMMA CompleteTypes ==
  ASSUME Types, NEW w \in Watchers, NEW success \in BOOLEAN, Complete(w, success)
  PROVE  /\ pending' \in [Watchers -> BOOLEAN]
         /\ apcs' \in Seq(Completion)
BY AppendFacts DEF Types, ThreadTypes, Complete, Completion

\* The record that the callback is at.
LEMMA AtRecord ==
  ASSUME Types, Walking
  PROVE  /\ callback # Idle /\ callback \in CallbackState /\ callback.w \in Watchers
         /\ Buffer[callback.w] \in Seq(Record)
         /\ Len(Buffer[callback.w]) \in Nat /\ Len(Buffer[callback.w]) <= Capacity
         /\ callback.next \in 1 .. Len(Buffer[callback.w])
         /\ TheRecord \in Record
         /\ callback.next + 1 \in 1 .. Capacity + 1
         /\ callback.oldFileName \in Extracted \cup {NoName}
<1>1. /\ callback # Idle /\ callback \in CallbackState /\ callback.w \in Watchers
      /\ callback.next \in Nat /\ callback.next > 0
      /\ callback.oldFileName \in Extracted \cup {NoName}
  BY RunningCallback DEF Types, Walking
<1>2. Buffer[callback.w] \in Seq(Record) /\ Len(Buffer[callback.w]) <= Capacity
  BY <1>1 DEF Types, BufferTypes
<1>3. Len(Buffer[callback.w]) \in Nat
  BY <1>2, Elements
<1>4. callback.next \in 1 .. Len(Buffer[callback.w])
  BY <1>1, <1>3 DEF Walking
<1>5. TheRecord \in Record
  BY <1>2, <1>4, Elements DEF TheRecord
<1>6. callback.next + 1 \in 1 .. Capacity + 1
  BY <1>2, <1>3, <1>4, WatcherNumbers
<1> QED
  BY <1>1, <1>2, <1>3, <1>4, <1>5, <1>6

LEMMA ExtractedNames ==
  /\ \A name \in Names : ExtractFileName(name) \in Extracted
  /\ Mangled \notin Names
BY ConstantsAssumption DEF ConstantsAssumption, ExtractFileName, Extracted

\* Every row that a handler writes is of its type.
LEMMA RowType ==
  ASSUME NEW w \in Watchers, NEW r \in Record, NEW old \in Extracted \cup {NoName},
         r.action # "RENAMED_OLD_NAME"
  PROVE  RowOf(w, r, old) \in Row
<1>1. r.change \in 1 .. MaxChanges /\ r.name \in Names /\ r.action \in Actions
  BY DEF Record
<1>2. EventType(r.action) \in {"CREATED", "CHANGED", "DELETED", "RENAME"}
  <2>1. r.action \in {"ADDED", "REMOVED", "MODIFIED", "RENAMED_NEW_NAME"}
    BY <1>1 DEF Actions
  <2> QED
    BY <2>1 DEF EventType
<1>3. Attributes(r.action, GetFullPath(w, r.name)) \in {"actual", "all_YES", "blank"}
  BY DEF Attributes, ShowAttributes
<1>4. GetFullPath(w, r.name) = [volume |-> w, file |-> ExtractFileName(r.name)]
  BY DEF GetFullPath, Combine
<1>5. ExtractFileName(r.name) \in Extracted
  BY <1>1, ExtractedNames
<1>6. Combine(w, old) \in [volume : Watchers, file : Extracted \cup {NoName}]
  BY DEF Combine
<1> QED
  BY <1>1, <1>2, <1>3, <1>4, <1>5, <1>6 DEF RowOf, Row

\* What a handler of an event does to the callback.
LEMMA EventTypes ==
  ASSUME Types, AnEvent
  PROVE  /\ callback' = [callback EXCEPT !.next = @ + 1]
         /\ callback' \in CallbackState
         /\ callback'.w = callback.w /\ callback'.next = callback.next + 1
         /\ callback'.oldFileName = callback.oldFileName
<1>1. Walking /\ callback' = [callback EXCEPT !.next = @ + 1]
  BY DEF AnEvent
<1> QED
  BY <1>1, AtRecord DEF CallbackState

LEMMA ThreadFrame ==
  ASSUME ThreadTypes, UNCHANGED <<thread, good, handlers, pending, overflowed, apcs, faults>>
  PROVE  ThreadTypes'
BY DEF ThreadTypes, thread

LEMMA BufferFrame ==
  ASSUME BufferTypes, UNCHANGED <<Buffer, recorded>>
  PROVE  BufferTypes'
BY DEF BufferTypes

LEMMA VolumeFrame ==
  ASSUME VolumeTypes, UNCHANGED <<history, present, renaming, lost, overflows>>
  PROVE  VolumeTypes'
BY DEF VolumeTypes

\* A change happens.
LEMMA HappeningTypes ==
  ASSUME Types, NEW w \in Watchers, NEW c \in Change, NEW r \in Record, Happening(w, c, r)
  PROVE  Types'
<1> USE DEF Happening
<1>1. /\ recorded' \in [Watchers -> Seq(Record)] /\ overflowed' \in [Watchers -> BOOLEAN]
      /\ \A v \in Watchers : Len(recorded'[v]) <= Capacity
      /\ lost' \in [Watchers -> SUBSET (1 .. MaxChanges)]
  BY NotifyEffect
<1>2. /\ history[w] \in Seq(Change) /\ Len(history[w]) \in Nat /\ MaxChanges \in Nat
      /\ history \in [Watchers -> Seq(Change)] /\ Len(history[w]) < MaxChanges
  BY Elements, WatcherNumbers DEF Types, VolumeTypes
<1>3. /\ Append(history[w], c) \in Seq(Change)
      /\ Len(Append(history[w], c)) = Len(history[w]) + 1
      /\ Append(history[w], c)[Len(history[w]) + 1] = c
  BY <1>2, AppendFacts
<1>4. /\ history' \in [Watchers -> Seq(Change)]
      /\ history'[w] = Append(history[w], c)
      /\ \A v \in Watchers : v # w => history'[v] = history[v]
  BY <1>2, <1>3
<1>5. /\ renaming' \in [Watchers -> BOOLEAN]
      /\ \A v \in Watchers : v # w => renaming'[v] = renaming[v]
      /\ renaming'[w] => c.op = "RENAMED"
  BY DEF Types, VolumeTypes
<1>6. ThreadTypes'
  BY <1>1 DEF Types, ThreadTypes, thread, objects
<1>7. BufferTypes'
  BY <1>1 DEF Types, BufferTypes, objects
<1>8. VolumeTypes'
  <2>1. \A v \in Watchers : Len(history'[v]) <= MaxChanges
    BY <1>2, <1>3, <1>4 DEF Types, VolumeTypes
  <2>2. ASSUME NEW v \in Watchers, renaming'[v]
        PROVE  /\ Len(history'[v]) > 0 /\ history'[v][Len(history'[v])].op = "RENAMED"
               /\ history'[v][Len(history'[v])].to \in Names
    <3>1. CASE v = w
      BY <1>2, <1>3, <1>4, <1>5, <2>2, <3>1
    <3>2. CASE v # w
      BY <1>4, <1>5, <2>2, <3>2 DEF Types, VolumeTypes
    <3> QED
      BY <3>1, <3>2
  <2> QED
    BY <1>1, <1>4, <1>5, <2>1, <2>2 DEF Types, VolumeTypes
<1>9. FILE_LOG' \in Seq(Row)
  BY DEF Types
<1> QED
  BY <1>6, <1>7, <1>8, <1>9 DEF Types

\* The second half of a rename.
SecondHalf(w) ==
  [change |-> Len(history[w]), action |-> "RENAMED_NEW_NAME",
   name |-> history[w][Len(history[w])].to]

LEMMA ReportEffect ==
  ASSUME Types, NEW w \in Watchers, ReportNewName(w)
  PROVE  /\ SecondHalf(w) \in Record
         /\ Notify(w, SecondHalf(w))
         /\ renaming[w]
         /\ renaming' \in [Watchers -> BOOLEAN] /\ ~renaming'[w]
         /\ \A v \in Watchers : v # w => renaming'[v] = renaming[v]
         /\ UNCHANGED <<thread, objects, pending, apcs, present, FILE_LOG, history,
                        overflows, faults>>
<1>1. /\ renaming[w] /\ Len(history[w]) \in Nat /\ Len(history[w]) > 0
      /\ Len(history[w]) <= MaxChanges /\ MaxChanges \in Nat
      /\ history[w][Len(history[w])].to \in Names
  BY Elements, WatcherNumbers DEF Types, VolumeTypes, ReportNewName
<1>2. SecondHalf(w) \in Record
  BY <1>1 DEF SecondHalf, Record, Actions
<1>3. Notify(w, SecondHalf(w))
  BY DEF ReportNewName, SecondHalf
<1> QED
  BY <1>1, <1>2, <1>3 DEF ReportNewName, Types, VolumeTypes

LEMMA NextTypes == Types /\ [Next]_vars => Types'
<1> SUFFICES ASSUME Types, [Next]_vars PROVE Types'
  OBVIOUS
<1> USE DEF objects, kernel, world, ghosts
<1>0. ThreadTypes /\ BufferTypes /\ VolumeTypes /\ FILE_LOG \in Seq(Row)
  BY DEF Types
<1>1. ASSUME NEW w \in Watchers, NEW c \in Change, NEW r \in Record, Happening(w, c, r)
      PROVE  Types'
  BY <1>1, HappeningTypes
<1>2. ASSUME NEW w \in Watchers, ReportNewName(w) PROVE Types'
  <2>1. /\ recorded' \in [Watchers -> Seq(Record)] /\ overflowed' \in [Watchers -> BOOLEAN]
        /\ \A v \in Watchers : Len(recorded'[v]) <= Capacity
        /\ lost' \in [Watchers -> SUBSET (1 .. MaxChanges)]
    BY <1>2, ReportEffect, NotifyEffect
  <2>2. /\ renaming' \in [Watchers -> BOOLEAN]
        /\ \A v \in Watchers : renaming'[v] => renaming[v]
        /\ UNCHANGED <<thread, objects, pending, apcs, present, FILE_LOG, history,
                        overflows, faults>>
    BY <1>2, ReportEffect
  <2>3. ThreadTypes'
    BY <1>0, <2>1, <2>2 DEF ThreadTypes, thread
  <2>4. BufferTypes'
    BY <1>0, <2>1, <2>2 DEF BufferTypes
  <2>5. VolumeTypes'
    BY <1>0, <2>1, <2>2 DEF VolumeTypes
  <2> QED
    BY <1>0, <2>2, <2>3, <2>4, <2>5 DEF Types
<1>3. ASSUME NEW w \in Watchers,
             CompleteWithRecords(w) \/ CompleteOverflow(w) \/ CompleteWithError(w)
      PROVE  Types'
  <2>1. \E success \in BOOLEAN : Complete(w, success)
    BY <1>3 DEF CompleteWithRecords, CompleteOverflow, CompleteWithError
  <2>2. pending' \in [Watchers -> BOOLEAN] /\ apcs' \in Seq(Completion)
    BY <2>1, CompleteTypes
  <2>3. UNCHANGED <<thread, good, handlers, world, history, lost>>
    BY <2>1 DEF Complete
  <2>4. faults' \in 0 .. MaxFaults /\ overflowed' \in [Watchers -> BOOLEAN]
        /\ overflows' \in [Watchers -> Nat]
    <3>1. CASE CompleteWithRecords(w)
      BY <1>0, <3>1 DEF CompleteWithRecords, ThreadTypes, VolumeTypes
    <3>2. CASE CompleteOverflow(w)
      BY <1>0, <3>2 DEF CompleteOverflow, ThreadTypes, VolumeTypes
    <3>3. CASE CompleteWithError(w)
      BY <1>0, <3>3, WatcherNumbers DEF CompleteWithError, ThreadTypes, VolumeTypes
    <3> QED
      BY <1>3, <3>1, <3>2, <3>3
  <2>5. ThreadTypes'
    BY <1>0, <2>2, <2>3, <2>4 DEF ThreadTypes, thread
  <2>6. BufferTypes'
    <3>1. CASE CompleteWithRecords(w)
      <4>1. <<>> \in Seq(Record) /\ Len(<<>>) = 0
        BY EmptySeq
      <4> QED
        BY <1>0, <3>1, <4>1, WatcherNumbers DEF CompleteWithRecords, BufferTypes
    <3>2. CASE UNCHANGED <<Buffer, recorded>>
      BY <1>0, <3>2, BufferFrame
    <3> QED
      BY <1>3, <3>1, <3>2 DEF CompleteOverflow, CompleteWithError
  <2>7. VolumeTypes'
    BY <1>0, <2>3, <2>4 DEF VolumeTypes
  <2> QED
    BY <1>0, <2>3, <2>5, <2>6, <2>7 DEF Types
<1>4. CASE DeliverApc
  <2>1. /\ apcs # <<>> /\ apcs \in Seq(Completion)
        /\ Head(apcs) \in Completion /\ Tail(apcs) \in Seq(Completion)
    BY <1>0, <1>4, HeadTailProperties DEF DeliverApc, ThreadTypes
  <2>2. Len(Buffer[Head(apcs).w]) + 1 \in 1 .. Capacity + 1 /\ 1 \in 1 .. Capacity + 1
    <3>1. Buffer[Head(apcs).w] \in Seq(Record) /\ Len(Buffer[Head(apcs).w]) <= Capacity
      BY <1>0, <2>1 DEF BufferTypes, Completion
    <3>2. Len(Buffer[Head(apcs).w]) \in Nat
      BY <3>1, Elements
    <3> QED
      BY <3>1, <3>2, WatcherNumbers
  <2>3. callback' \in CallbackState
    BY <1>4, <2>1, <2>2 DEF DeliverApc, CallbackState, Completion
  <2>4. ThreadTypes'
    BY <1>0, <1>4, <2>1, <2>3 DEF DeliverApc, ThreadTypes
  <2> QED
    BY <1>0, <1>4, <2>4, BufferFrame, VolumeFrame DEF DeliverApc, Types
<1>5. CASE RememberOldName
  <2>1. ExtractFileName(TheRecord.name) \in Extracted
    BY <1>5, AtRecord, ExtractedNames DEF RememberOldName, Record
  <2>2. callback' \in CallbackState
    BY <1>5, <2>1, AtRecord DEF RememberOldName, CallbackState
  <2>3. ThreadTypes'
    BY <1>0, <1>5, <2>2 DEF RememberOldName, ThreadTypes
  <2> QED
    BY <1>0, <1>5, <2>3, BufferFrame, VolumeFrame DEF RememberOldName, Types
<1>6. CASE HandleEvent
  <2>1. AnEvent /\ callback' \in CallbackState
    BY <1>6, EventTypes DEF HandleEvent
  <2>2. FILE_LOG' \in Seq(Row)
    <3>1. RowOf(callback.w, TheRecord, callback.oldFileName) \in Row
      BY <2>1, AtRecord, RowType DEF AnEvent
    <3> QED
      BY <1>0, <1>6, <3>1, AppendFacts DEF HandleEvent
  <2>3. ThreadTypes'
    BY <1>0, <1>6, <2>1 DEF HandleEvent, AnEvent, ThreadTypes
  <2> QED
    BY <1>0, <1>6, <2>2, <2>3, BufferFrame, VolumeFrame DEF HandleEvent, AnEvent, Types
<1>7. CASE HandleEventFails
  <2>1. AnEvent /\ callback' \in CallbackState
    BY <1>7, EventTypes DEF HandleEventFails
  <2>2. faults' \in 0 .. MaxFaults
    BY <1>0, <1>7, WatcherNumbers DEF HandleEventFails, ThreadTypes
  <2>3. lost' \in [Watchers -> SUBSET (1 .. MaxChanges)]
    <3>1. TheRecord.change \in 1 .. MaxChanges
      BY <2>1, AtRecord DEF AnEvent, Record
    <3> QED
      BY <1>0, <1>7, <3>1 DEF HandleEventFails, VolumeTypes
  <2>4. ThreadTypes'
    BY <1>0, <1>7, <2>1, <2>2 DEF HandleEventFails, AnEvent, ThreadTypes
  <2>5. VolumeTypes'
    BY <1>0, <1>7, <2>3 DEF HandleEventFails, AnEvent, VolumeTypes
  <2> QED
    BY <1>0, <1>7, <2>4, <2>5, BufferFrame DEF HandleEventFails, AnEvent, Types
<1>8. CASE DismissBox
  <2>1. ThreadTypes'
    BY <1>0, <1>8 DEF DismissBox, ThreadTypes
  <2> QED
    BY <1>0, <1>8, <2>1, BufferFrame, VolumeFrame DEF DismissBox, Types
<1>9. CASE Repost
  <2>1. pending' \in [Watchers -> BOOLEAN] /\ faults' \in 0 .. MaxFaults
    <3>1. callback.w \in Watchers
      BY <1>0, <1>9, RunningCallback DEF Repost
    <3>2. /\ pending' = [pending EXCEPT ![callback.w] = good[callback.w]] \/ pending' = pending
          /\ faults' = faults \/ (faults < MaxFaults /\ faults' = faults + 1)
      BY <1>9 DEF Repost, PostChangeNotificationRequest
    <3>3. good[callback.w] \in BOOLEAN /\ pending \in [Watchers -> BOOLEAN]
      BY <1>0, <3>1 DEF ThreadTypes
    <3>4. pending' \in [Watchers -> BOOLEAN]
      BY <3>2, <3>3
    <3>5. faults' \in 0 .. MaxFaults
      BY <1>0, <3>2, WatcherNumbers DEF ThreadTypes
    <3> QED
      BY <3>4, <3>5
  <2>2. ThreadTypes'
    BY <1>0, <1>9, <2>1 DEF Repost, ThreadTypes
  <2> QED
    BY <1>0, <1>9, <2>2, BufferFrame, VolumeFrame DEF Repost, Types
<1>10. CASE Open
  <2>1. ThreadTypes'
    BY <1>0, <1>10 DEF Open, Goto, ThreadTypes, Places
  <2> QED
    BY <1>0, <1>10, <2>1, BufferFrame, VolumeFrame DEF Open, Types
<1>11. CASE SetEventHandlers
  <2>1. ThreadTypes'
    BY <1>0, <1>11, WatcherNumbers DEF SetEventHandlers, Goto, ThreadTypes, Places
  <2> QED
    BY <1>0, <1>11, <2>1, BufferFrame, VolumeFrame DEF SetEventHandlers, Types
<1>12. CASE Close
  <2>1. apcs' \in Seq(Completion)
    <3>1. [w |-> at, success |-> FALSE] \in Completion
      BY <1>0 DEF ThreadTypes, Completion
    <3> QED
      BY <1>0, <1>12, <3>1, AppendFacts DEF Close, ThreadTypes
  <2>2. pc' \in Places /\ at' \in Watchers
    BY <1>0, <1>12, WatcherNumbers DEF Close, Goto, ThreadTypes, Places
  <2>3. ThreadTypes'
    BY <1>0, <1>12, <2>1, <2>2 DEF Close, ThreadTypes
  <2>4. BufferTypes'
    <3>1. <<>> \in Seq(Record) /\ Len(<<>>) = 0
      BY EmptySeq
    <3>2. /\ Buffer' = [Buffer EXCEPT ![at] = <<>>] /\ recorded' = [recorded EXCEPT ![at] = <<>>]
          /\ at \in Watchers
      BY <1>0, <1>12 DEF Close, ThreadTypes
    <3>3. Buffer' \in [Watchers -> Seq(Record)] /\ recorded' \in [Watchers -> Seq(Record)]
      BY <1>0, <3>1, <3>2 DEF BufferTypes
    <3>4. \A w \in Watchers : Len(Buffer'[w]) <= Capacity /\ Len(recorded'[w]) <= Capacity
      BY <1>0, <3>1, <3>2, WatcherNumbers DEF BufferTypes
    <3> QED
      BY <3>3, <3>4 DEF BufferTypes
  <2> QED
    BY <1>0, <1>12, <2>3, <2>4, VolumeFrame DEF Close, Types
<1>13. CASE LoopStep
  <2>1. ThreadTypes'
    BY <1>0, <1>13 DEF LoopStep, ThreadTypes
  <2> QED
    BY <1>0, <1>13, <2>1, BufferFrame, VolumeFrame DEF LoopStep, Types
<1> QED
  BY <1>1, <1>2, <1>3, <1>4, <1>5, <1>6, <1>7, <1>8, <1>9, <1>10, <1>11, <1>12, <1>13, Steps

LEMMA AlwaysTypes == Spec => []Types
<1>1. Init => Types
  BY InitTypes
<1>2. Types /\ [Next]_vars => Types'
  BY NextTypes
<1> QED
  BY <1>1, <1>2, PTL DEF Spec

\* The state has its type, and the buffers stay within their size, for any number of
\* watchers, changes and faults.
THEOREM TypeCorrect == Spec => []TypeOK
<1>1. Types => TypeOK
  BY TypesImplyTypeOK
<1> QED
  BY <1>1, AlwaysTypes, PTL

(***************************************************************************)
(* Where Run is, and what that says of the watchers: a callback runs only  *)
(* in the loop, and until Close every watcher that is asked for changes,   *)
(* or has a completion, is open.                                           *)
(***************************************************************************)
Control ==
  /\ callback # Idle => pc = "sleep" /\ good[callback.w]
  /\ \A w \in Watchers : pending[w] => good[w]
  /\ pc \notin {"close", "ended"} => \A i \in 1 .. Len(apcs) : good[apcs[i].w]
  /\ pc = "open" => \A w \in Watchers : w >= at => ~good[w]
  /\ pc = "register" => \A w \in Watchers : w > at => ~good[w]
  /\ pc \in {"open", "register"} => \A w \in Watchers : w < at => handlers[w]
  /\ pc \in {"check", "heartbeat", "sleep"} => \A w \in Watchers : handlers[w]

\* The queue when a completion joins it, and when its first is delivered.
LEMMA QueueGrows ==
  ASSUME Types, NEW apc \in Completion, apcs' = Append(apcs, apc)
  PROVE  /\ Len(apcs) \in Nat /\ Len(apcs') = Len(apcs) + 1
         /\ \A i \in 1 .. Len(apcs) : i \in 1 .. Len(apcs') /\ apcs'[i] = apcs[i]
         /\ Len(apcs') \in 1 .. Len(apcs') /\ apcs'[Len(apcs')] = apc
         /\ \A i \in 1 .. Len(apcs') : i \in 1 .. Len(apcs) \/ i = Len(apcs')
<1>1. apcs \in Seq(Completion)
  BY DEF Types, ThreadTypes
<1> QED
  BY <1>1, AppendFacts

LEMMA QueueShrinks ==
  ASSUME Types, DeliverApc
  PROVE  /\ Len(apcs) \in Nat /\ Len(apcs) > 0 /\ Len(apcs') = Len(apcs) - 1
         /\ 1 \in 1 .. Len(apcs) /\ Head(apcs) = apcs[1] /\ apcs[1] \in Completion
         /\ \A i \in 1 .. Len(apcs') : i + 1 \in 1 .. Len(apcs) /\ apcs'[i] = apcs[i + 1]
         /\ \A i \in 1 .. Len(apcs) :
              i = 1 \/ (i - 1 \in 1 .. Len(apcs') /\ apcs'[i - 1] = apcs[i])
<1>1. apcs \in Seq(Completion) /\ apcs # <<>> /\ apcs' = Tail(apcs)
  BY DEF Types, ThreadTypes, DeliverApc
<1>2. /\ Len(apcs) \in Nat /\ Len(apcs) > 0
      /\ Head(apcs) = apcs[1] /\ Len(apcs') = Len(apcs) - 1
      /\ \A i \in 1 .. Len(apcs') : apcs'[i] = apcs[i + 1]
  BY <1>1, HeadTailProperties, LenProperties, EmptySeq
<1>3. ASSUME NEW i \in 1 .. Len(apcs), i # 1
      PROVE  i - 1 \in 1 .. Len(apcs') /\ apcs'[i - 1] = apcs[i]
  <2>1. i - 1 \in 1 .. Len(apcs') /\ (i - 1) + 1 = i
    BY <1>2, <1>3
  <2> QED
    BY <1>2, <2>1
<1>4. 1 \in 1 .. Len(apcs)
  BY <1>2
<1>5. apcs[1] \in Completion
  BY <1>1, <1>4, Elements
<1> QED
  BY <1>2, <1>3, <1>4, <1>5

\* The elements of the queue belong to watchers.
LEMMA QueueOfWatchers ==
  Types => Len(apcs) \in Nat /\ \A i \in 1 .. Len(apcs) : apcs[i].w \in Watchers
<1> SUFFICES ASSUME Types PROVE Len(apcs) \in Nat /\ \A i \in 1 .. Len(apcs) : apcs[i] \in Completion
  BY DEF Completion
<1> QED
  BY Elements DEF Types, ThreadTypes

LEMMA InitControl == Init => Control
BY IdleCallback, WatcherNumbers DEF Init, Control

LEMMA NextControl == Types /\ Control /\ [Next]_vars => Control'
<1> SUFFICES ASSUME Types, Control, [Next]_vars PROVE Control'
  OBVIOUS
<1> USE DEF objects, kernel, world, ghosts
<1>0. /\ ThreadTypes /\ pc \in Places /\ at \in Watchers
      /\ good \in [Watchers -> BOOLEAN] /\ handlers \in [Watchers -> BOOLEAN]
      /\ pending \in [Watchers -> BOOLEAN]
      /\ Len(apcs) \in Nat /\ \A i \in 1 .. Len(apcs) : apcs[i].w \in Watchers
  BY QueueOfWatchers DEF Types, ThreadTypes
<1>1. ASSUME NEW w \in Watchers, NEW c \in Change, NEW r \in Record, Happening(w, c, r)
      PROVE  Control'
  BY <1>1 DEF Happening, Control, thread
<1>2. ASSUME NEW w \in Watchers, ReportNewName(w) PROVE Control'
  BY <1>2 DEF ReportNewName, Control, thread
<1>3. ASSUME NEW w \in Watchers,
             CompleteWithRecords(w) \/ CompleteOverflow(w) \/ CompleteWithError(w)
      PROVE  Control'
  <2>1. PICK success \in BOOLEAN : Complete(w, success)
    BY <1>3 DEF CompleteWithRecords, CompleteOverflow, CompleteWithError
  <2>2. /\ [w |-> w, success |-> success] \in Completion
        /\ apcs' = Append(apcs, [w |-> w, success |-> success])
    BY <2>1 DEF Complete, Completion
  <2>3. /\ \A i \in 1 .. Len(apcs) : apcs'[i] = apcs[i]
        /\ apcs'[Len(apcs')].w = w
        /\ \A i \in 1 .. Len(apcs') : i \in 1 .. Len(apcs) \/ i = Len(apcs')
    BY <2>2, QueueGrows
  <2>4. /\ pending[w] /\ \A v \in Watchers : pending'[v] => pending[v]
        /\ UNCHANGED <<thread, good, handlers>>
    BY <1>0, <2>1 DEF Complete
  <2>5. pc \notin {"close", "ended"} => \A i \in 1 .. Len(apcs') : good[apcs'[i].w]
    BY <2>3, <2>4 DEF Control
  <2> QED
    BY <2>4, <2>5 DEF Control, thread
<1>4. CASE DeliverApc
  <2>1. /\ pc = "sleep" /\ callback'.w = apcs[1].w
        /\ \A i \in 1 .. Len(apcs') : i + 1 \in 1 .. Len(apcs) /\ apcs'[i] = apcs[i + 1]
        /\ 1 \in 1 .. Len(apcs)
    BY <1>4, QueueShrinks DEF DeliverApc, Alertable
  <2>2. good[callback'.w] /\ \A i \in 1 .. Len(apcs') : good[apcs'[i].w]
    BY <2>1 DEF Control
  <2> QED
    BY <1>4, <2>1, <2>2 DEF DeliverApc, Control
<1>5. CASE RememberOldName \/ HandleEvent \/ HandleEventFails
  <2>1. Walking /\ callback'.w = callback.w
        /\ UNCHANGED <<pc, at, good, handlers, pending, apcs>>
    <3>1. CASE RememberOldName
      BY <3>1, AtRecord DEF RememberOldName, CallbackState
    <3>2. CASE HandleEvent \/ HandleEventFails
      BY <3>2, EventTypes DEF HandleEvent, HandleEventFails, AnEvent
    <3> QED
      BY <1>5, <3>1, <3>2
  <2> QED
    BY <2>1 DEF Walking, Control
<1>6. CASE DismissBox
  BY <1>6 DEF DismissBox, Control
<1>7. CASE Repost
  <2>1. callback.w \in Watchers /\ good[callback.w]
    BY <1>0, <1>7, RunningCallback DEF Repost, Control
  <2>2. \A w \in Watchers : pending'[w] => pending[w] \/ w = callback.w
    BY <1>0, <1>7 DEF Repost, PostChangeNotificationRequest
  <2> QED
    BY <1>7, <2>1, <2>2 DEF Repost, Control
<1>8. CASE Open
  <2>1. callback = Idle
    BY <1>8 DEF Open, Control
  <2>2. /\ \A w \in Watchers : w # at => good'[w] = good[w] /\ pending'[w] = pending[w]
        /\ pending'[at] => good'[at]
        /\ \A w \in Watchers : good[w] => good'[w]
    BY <1>0, <1>8 DEF Open, Control
  <2>3. \A i \in 1 .. Len(apcs) : good'[apcs[i].w]
    BY <1>0, <1>8, <2>2 DEF Open, Control
  <2> QED
    BY <1>0, <1>8, <2>1, <2>2, <2>3, WatcherNumbers DEF Open, Goto, Control
<1>9. CASE SetEventHandlers
  <2>1. callback = Idle
    BY <1>9 DEF SetEventHandlers, Control
  <2>2. \A w \in Watchers : handlers'[w] <=> handlers[w] \/ w = at
    BY <1>0, <1>9 DEF SetEventHandlers
  <2>3. CASE at < NWatchers
    BY <1>0, <1>9, <2>1, <2>2, <2>3, WatcherNumbers DEF SetEventHandlers, Goto, Control
  <2>4. CASE ~(at < NWatchers)
    BY <1>0, <1>9, <2>1, <2>2, <2>4, WatcherNumbers DEF SetEventHandlers, Goto, Control
  <2> QED
    BY <2>3, <2>4
<1>10. CASE Close
  <2>1. callback = Idle /\ pc' \in {"close", "ended"}
    BY <1>10 DEF Close, Goto, Control
  <2>2. \A w \in Watchers : pending'[w] => good'[w]
    BY <1>0, <1>10 DEF Close, Control
  <2> QED
    BY <1>10, <2>1, <2>2 DEF Close, Control
<1>11. CASE LoopStep
  BY <1>11 DEF LoopStep, Control
<1> QED
  BY <1>1, <1>2, <1>3, <1>4, <1>5, <1>6, <1>7, <1>8, <1>9, <1>10, <1>11, Steps

LEMMA AlwaysControl == Spec => [](Types /\ Control)
<1>1. Init => Types /\ Control
  BY InitTypes, InitControl
<1>2. (Types /\ Control) /\ [Next]_vars => (Types /\ Control)'
  BY NextTypes, NextControl
<1> QED
  BY <1>1, <1>2, PTL DEF Spec

\* A callback never runs after its watcher was closed and its monitor freed, for any
\* number of watchers, changes and faults.
THEOREM NoCallbackAfterFreeCorrect == Spec => []NoCallbackAfterFree
<1>1. Control => NoCallbackAfterFree
  BY DEF Control, NoCallbackAfterFree
<1> QED
  BY <1>1, AlwaysControl, PTL

(***************************************************************************)
(* Who owns the buffer of a watcher: the kernel while a request is         *)
(* outstanding, a completion in the queue, or the running callback; never  *)
(* two of them, and without a fault one.                                   *)
(***************************************************************************)
Queued(w) == \E i \in 1 .. Len(apcs) : apcs[i].w = w

Exclusive ==
  /\ \A i, j \in 1 .. Len(apcs) : apcs[i].w = apcs[j].w => i = j
  /\ \A i \in 1 .. Len(apcs) : ~pending[apcs[i].w] /\ callback.w # apcs[i].w
  /\ callback # Idle => ~pending[callback.w]

Hearing ==
  \A w \in Watchers : good[w] /\ faults = 0 => pending[w] \/ callback.w = w \/ Queued(w)

LEMMA InitOwners == Init => Exclusive /\ Hearing
BY DEF Init, Exclusive, Hearing

\* Steps that move no buffer from one owner to another.
LEMMA OwnersFrame ==
  ASSUME Exclusive, Hearing, UNCHANGED <<pending, apcs, good>>, callback'.w = callback.w,
         callback' = Idle <=> callback = Idle, faults' = 0 => faults = 0
  PROVE  Exclusive' /\ Hearing'
BY DEF Exclusive, Hearing, Queued

LEMMA NextOwners ==
  Types /\ Control /\ Exclusive /\ Hearing /\ [Next]_vars => Exclusive' /\ Hearing'
<1> SUFFICES ASSUME Types, Control, Exclusive, Hearing, [Next]_vars PROVE Exclusive' /\ Hearing'
  OBVIOUS
<1> USE DEF objects, kernel, world, ghosts
<1>0. /\ ThreadTypes /\ at \in Watchers /\ faults \in Nat
      /\ good \in [Watchers -> BOOLEAN] /\ pending \in [Watchers -> BOOLEAN]
      /\ Len(apcs) \in Nat /\ \A i \in 1 .. Len(apcs) : apcs[i].w \in Watchers
  BY QueueOfWatchers, WatcherNumbers DEF Types, ThreadTypes
<1>1. ASSUME NEW w \in Watchers, NEW c \in Change, NEW r \in Record, Happening(w, c, r)
      PROVE  Exclusive' /\ Hearing'
  BY <1>1, OwnersFrame DEF Happening, thread
<1>2. ASSUME NEW w \in Watchers, ReportNewName(w) PROVE Exclusive' /\ Hearing'
  BY <1>2, OwnersFrame DEF ReportNewName, thread
<1>3. ASSUME NEW w \in Watchers,
             CompleteWithRecords(w) \/ CompleteOverflow(w) \/ CompleteWithError(w)
      PROVE  Exclusive' /\ Hearing'
  <2>1. PICK success \in BOOLEAN : Complete(w, success)
    BY <1>3 DEF CompleteWithRecords, CompleteOverflow, CompleteWithError
  <2>2. /\ [w |-> w, success |-> success] \in Completion
        /\ apcs' = Append(apcs, [w |-> w, success |-> success])
    BY <2>1 DEF Complete, Completion
  <2>3. /\ Len(apcs') = Len(apcs) + 1
        /\ \A i \in 1 .. Len(apcs) : i \in 1 .. Len(apcs') /\ apcs'[i] = apcs[i]
        /\ Len(apcs') \in 1 .. Len(apcs') /\ apcs'[Len(apcs')].w = w
        /\ \A i \in 1 .. Len(apcs') : i \in 1 .. Len(apcs) \/ i = Len(apcs')
    BY <2>2, QueueGrows
  <2>4. /\ pending[w] /\ ~pending'[w]
        /\ \A v \in Watchers : v # w => pending'[v] = pending[v]
        /\ UNCHANGED <<thread, good>>
    BY <1>0, <2>1 DEF Complete
  <2>5. \A i \in 1 .. Len(apcs) : apcs[i].w # w
    BY <2>4 DEF Exclusive
  <2>6. callback # Idle => callback.w # w
    BY <2>4 DEF Exclusive
  <2>7. callback.w # w
    BY <2>6, IdleCallback
  <2>8. \A i \in 1 .. Len(apcs') : ~pending'[apcs'[i].w] /\ callback'.w # apcs'[i].w
    BY <1>0, <2>3, <2>4, <2>7 DEF Exclusive, thread
  <2>9. callback' # Idle => ~pending'[callback'.w]
    BY <1>0, <2>4, <2>6, RunningCallback DEF Exclusive, thread
  <2>10. \A i, j \in 1 .. Len(apcs') : apcs'[i].w = apcs'[j].w => i = j
    BY <2>3, <2>5 DEF Exclusive
  <2>11. Hearing'
    <3>1. faults' = 0 => faults = 0
      <4>1. faults' = faults \/ faults' = faults + 1
        BY <1>3 DEF CompleteWithRecords, CompleteOverflow, CompleteWithError
      <4> QED
        BY <1>0, <4>1
    <3>2. \A v \in Watchers : Queued(v) => Queued(v)'
      BY <2>3 DEF Queued
    <3>3. Queued(w)'
      BY <2>3 DEF Queued
    <3> QED
      BY <2>4, <3>1, <3>2, <3>3 DEF Hearing, thread
  <2> QED
    BY <2>8, <2>9, <2>10, <2>11 DEF Exclusive
<1>4. CASE DeliverApc
  <2>1. /\ callback = Idle /\ callback'.w = apcs[1].w /\ UNCHANGED <<pending, good, faults>>
        /\ Len(apcs') = Len(apcs) - 1
        /\ \A i \in 1 .. Len(apcs') : i + 1 \in 1 .. Len(apcs) /\ apcs'[i] = apcs[i + 1]
        /\ 1 \in 1 .. Len(apcs) /\ apcs[1].w \in Watchers
        /\ \A i \in 1 .. Len(apcs) :
             i = 1 \/ (i - 1 \in 1 .. Len(apcs') /\ apcs'[i - 1] = apcs[i])
    BY <1>0, <1>4, QueueShrinks DEF DeliverApc, Alertable
  <2>2. \A i, j \in 1 .. Len(apcs') : apcs'[i].w = apcs'[j].w => i = j
    <3> SUFFICES ASSUME NEW i \in 1 .. Len(apcs'), NEW j \in 1 .. Len(apcs'),
                        apcs'[i].w = apcs'[j].w
                 PROVE  i = j
      OBVIOUS
    <3>1. i + 1 = j + 1
      BY <2>1 DEF Exclusive
    <3> QED
      BY <3>1
  <2>3. \A i \in 1 .. Len(apcs') : ~pending[apcs'[i].w] /\ apcs[1].w # apcs'[i].w
    <3> SUFFICES ASSUME NEW i \in 1 .. Len(apcs')
                 PROVE  ~pending[apcs'[i].w] /\ apcs[1].w # apcs'[i].w
      OBVIOUS
    <3>1. i + 1 \in 1 .. Len(apcs) /\ i + 1 # 1 /\ apcs'[i] = apcs[i + 1]
      BY <1>0, <2>1
    <3> QED
      BY <2>1, <3>1 DEF Exclusive
  <2>4. ~pending[apcs[1].w]
    BY <2>1 DEF Exclusive
  <2>5. Hearing'
    <3> SUFFICES ASSUME NEW v \in Watchers, good[v], faults = 0
                 PROVE  pending[v] \/ callback'.w = v \/ Queued(v)'
      BY <2>1 DEF Hearing
    <3>1. pending[v] \/ Queued(v)
      BY <2>1, IdleCallback DEF Hearing
    <3>2. ASSUME Queued(v) PROVE callback'.w = v \/ Queued(v)'
      BY <2>1, <3>2 DEF Queued
    <3> QED
      BY <3>1, <3>2
  <2> QED
    BY <2>1, <2>2, <2>3, <2>4, <2>5 DEF Exclusive
<1>5. CASE RememberOldName \/ HandleEvent \/ HandleEventFails
  <2>1. /\ callback'.w = callback.w /\ callback # Idle /\ callback' \in CallbackState
        /\ UNCHANGED <<good, pending, apcs>>
        /\ faults' = 0 => faults = 0
    <3>1. CASE RememberOldName
      <4>1. ExtractFileName(TheRecord.name) \in Extracted
        BY <3>1, AtRecord, ExtractedNames DEF RememberOldName, Record
      <4> QED
        BY <3>1, <4>1, AtRecord DEF RememberOldName, CallbackState
    <3>2. CASE HandleEvent
      BY <3>2, EventTypes, AtRecord DEF HandleEvent, AnEvent
    <3>3. CASE HandleEventFails
      BY <1>0, <3>3, EventTypes, AtRecord DEF HandleEventFails, AnEvent
    <3> QED
      BY <1>5, <3>1, <3>2, <3>3
  <2>2. callback' # Idle
    BY <2>1, IdleCallback DEF CallbackState
  <2> QED
    BY <2>1, <2>2, OwnersFrame
<1>6. CASE DismissBox
  BY <1>6, OwnersFrame DEF DismissBox
<1>7. CASE Repost
  <2>1. callback.w \in Watchers /\ good[callback.w] /\ callback'.w \notin Watchers /\ callback' = Idle
    BY <1>0, <1>7, RunningCallback, IdleCallback DEF Repost, Control
  <2>2. /\ \A w \in Watchers : pending'[w] => pending[w] \/ w = callback.w
        /\ \A w \in Watchers : pending[w] => pending'[w]
        /\ pending'[callback.w] \/ faults' # 0
        /\ faults' = 0 => faults = 0
        /\ UNCHANGED <<good, apcs>>
    BY <1>0, <1>7, <2>1 DEF Repost, PostChangeNotificationRequest
  <2>3. Exclusive'
    BY <1>0, <2>1, <2>2 DEF Exclusive
  <2>4. Hearing'
    BY <2>1, <2>2 DEF Hearing, Queued
  <2> QED
    BY <2>3, <2>4
<1>8. CASE Open
  <2>1. callback = Idle
    BY <1>8 DEF Open, Control
  <2>2. /\ \A w \in Watchers : w # at => good'[w] = good[w] /\ pending'[w] = pending[w]
        /\ good'[at] => pending'[at]
        /\ ~good[at]
        /\ UNCHANGED <<callback, apcs, faults>>
    BY <1>0, <1>8 DEF Open, Control
  <2>3. \A i \in 1 .. Len(apcs) : apcs[i].w # at
    BY <1>8, <2>2 DEF Open, Control
  <2>4. Exclusive'
    BY <1>0, <2>1, <2>2, <2>3 DEF Exclusive
  <2>5. Hearing'
    BY <2>2 DEF Hearing, Queued
  <2> QED
    BY <2>4, <2>5
<1>9. CASE SetEventHandlers
  BY <1>9, OwnersFrame DEF SetEventHandlers
<1>10. CASE Close
  <2>1. callback = Idle /\ callback' = Idle /\ faults' = faults
    BY <1>10 DEF Close, Control
  <2>2. /\ good' = [good EXCEPT ![at] = FALSE] /\ pending' = [pending EXCEPT ![at] = FALSE]
        /\ ~pending'[at] /\ ~good'[at]
        /\ \A w \in Watchers : w # at => good'[w] = good[w] /\ pending'[w] = pending[w]
    BY <1>0, <1>10 DEF Close
  <2>3. CASE ~pending[at]
    <3>1. UNCHANGED apcs
      BY <1>10, <2>3 DEF Close
    <3>2. Exclusive'
      BY <1>0, <2>1, <2>2, <3>1 DEF Exclusive
    <3>3. Hearing'
      BY <2>1, <2>2, <3>1 DEF Hearing, Queued
    <3> QED
      BY <3>2, <3>3
  <2>4. CASE pending[at]
    <3>1. /\ [w |-> at, success |-> FALSE] \in Completion
          /\ apcs' = Append(apcs, [w |-> at, success |-> FALSE])
      BY <1>0, <1>10, <2>4 DEF Close, Completion
    <3>2. /\ Len(apcs') = Len(apcs) + 1
          /\ \A i \in 1 .. Len(apcs) : i \in 1 .. Len(apcs') /\ apcs'[i] = apcs[i]
          /\ apcs'[Len(apcs')].w = at
          /\ \A i \in 1 .. Len(apcs') : i \in 1 .. Len(apcs) \/ i = Len(apcs')
      BY <3>1, QueueGrows
    <3>3. \A i \in 1 .. Len(apcs) : apcs[i].w # at
      BY <2>4 DEF Exclusive
    <3>4. \A i, j \in 1 .. Len(apcs') : apcs'[i].w = apcs'[j].w => i = j
      BY <3>2, <3>3 DEF Exclusive
    <3>5. \A i \in 1 .. Len(apcs') : ~pending'[apcs'[i].w] /\ callback'.w # apcs'[i].w
      BY <1>0, <2>1, <2>2, <3>2, IdleCallback DEF Exclusive
    <3>6. \A v \in Watchers : Queued(v) => Queued(v)'
      BY <3>2 DEF Queued
    <3>7. Hearing'
      BY <2>1, <2>2, <3>6 DEF Hearing
    <3> QED
      BY <2>1, <3>4, <3>5, <3>7 DEF Exclusive
  <2> QED
    BY <2>3, <2>4
<1>11. CASE LoopStep
  BY <1>11, OwnersFrame DEF LoopStep
<1> QED
  BY <1>1, <1>2, <1>3, <1>4, <1>5, <1>6, <1>7, <1>8, <1>9, <1>10, <1>11, Steps

LEMMA AlwaysOwners == Spec => [](Types /\ Control /\ Exclusive /\ Hearing)
<1>1. Init => Types /\ Control /\ Exclusive /\ Hearing
  BY InitTypes, InitControl, InitOwners
<1>2. (Types /\ Control /\ Exclusive /\ Hearing) /\ [Next]_vars
        => (Types /\ Control /\ Exclusive /\ Hearing)'
  BY NextTypes, NextControl, NextOwners
<1> QED
  BY <1>1, <1>2, PTL DEF Spec

\* Counting the owners.
LEMMA CountOwners ==
  ASSUME Types, Exclusive, Hearing, NEW w \in Watchers
  PROVE  Owners(w) <= 1 /\ (Deaf(w) => faults > 0)
<1> DEFINE queued == {i \in 1 .. Len(apcs) : apcs[i].w = w}
<1>1. CASE Queued(w)
  <2>1. PICK i \in 1 .. Len(apcs) : apcs[i].w = w
    BY <1>1 DEF Queued
  <2>2. queued = {i}
    BY <2>1 DEF Exclusive
  <2>3. Cardinality(queued) = 1
    BY <2>2, FS_Singleton
  <2>4. callback.w # w /\ ~pending[w]
    BY <2>1 DEF Exclusive
  <2>5. Owners(w) = 1
    BY <2>3, <2>4 DEF Owners
  <2> QED
    BY <2>5 DEF Deaf
<1>2. CASE ~Queued(w)
  <2>1. queued = {}
    BY <1>2 DEF Queued
  <2>2. Cardinality(queued) = 0
    BY <2>1, FS_EmptySet
  <2>3. ~(callback.w = w /\ pending[w])
    BY IdleCallback DEF Exclusive
  <2>4. Owners(w) = (IF callback.w = w THEN 1 ELSE 0) + (IF pending[w] THEN 1 ELSE 0)
    BY <2>2 DEF Owners
  <2>5. faults \in Nat
    BY WatcherNumbers DEF Types, ThreadTypes
  <2>6. Owners(w) = 0 => ~pending[w] /\ callback.w # w
    BY <2>4
  <2>7. Deaf(w) => faults > 0
    BY <1>2, <2>5, <2>6 DEF Deaf, Hearing
  <2> QED
    BY <2>3, <2>4, <2>7
<1> QED
  BY <1>1, <1>2

\* A buffer has one owner at a time, and an open watcher goes deaf only after a fault,
\* for any number of watchers, changes and faults.
THEOREM OneOwnerCorrect == Spec => []OneOwnerOfBuffer
<1>1. Types /\ Control /\ Exclusive /\ Hearing => OneOwnerOfBuffer
  BY CountOwners DEF OneOwnerOfBuffer
<1> QED
  BY <1>1, AlwaysOwners, PTL

(***************************************************************************)
(* What the records say.  A record tells of a change that happened; the    *)
(* second half of a rename follows its first half or begins a buffer.      *)
(***************************************************************************)
Tells(r, h) ==
  /\ r.change <= Len(h)
  /\ LET c == h[r.change]
     IN  \/ c.op # "RENAMED" /\ r.action = c.op /\ r.name = c.name
         \/ c.op = "RENAMED" /\ r.action = "RENAMED_OLD_NAME" /\ r.name = c.name
         \/ c.op = "RENAMED" /\ r.action = "RENAMED_NEW_NAME" /\ r.name = c.to

AllTell(s, h) == \A i \in 1 .. Len(s) : Tells(s[i], h)

Halves(s) ==
  \A i \in 1 .. Len(s) : s[i].action = "RENAMED_NEW_NAME" =>
    i = 1 \/ (s[i - 1].action = "RENAMED_OLD_NAME" /\ s[i - 1].change = s[i].change)

RecordsTell ==
  \A w \in Watchers :
    /\ AllTell(recorded[w], history[w]) /\ AllTell(Buffer[w], history[w])
    /\ Halves(recorded[w]) /\ Halves(Buffer[w])
    /\ renaming[w] /\ recorded[w] # <<>> =>
         /\ recorded[w][Len(recorded[w])].action = "RENAMED_OLD_NAME"
         /\ recorded[w][Len(recorded[w])].change = Len(history[w])

\* History is only appended to.
HistoryGrows ==
  \A w \in Watchers :
    /\ Len(history[w]) \in Nat /\ Len(history'[w]) \in Nat
    /\ Len(history[w]) <= Len(history'[w])
    /\ \A i \in 1 .. Len(history[w]) : history'[w][i] = history[w][i]

LEMMA NextHistory == Types /\ [Next]_vars => HistoryGrows
<1> SUFFICES ASSUME Types, [Next]_vars PROVE HistoryGrows
  OBVIOUS
<1>1. \A w \in Watchers : history[w] \in Seq(Change) /\ Len(history[w]) \in Nat
  BY Elements DEF Types, VolumeTypes
<1>2. CASE UNCHANGED history
  BY <1>1, <1>2 DEF HistoryGrows
<1>3. ASSUME NEW w \in Watchers, NEW c \in Change, NEW r \in Record, Happening(w, c, r)
      PROVE  HistoryGrows
  <2>1. /\ history'[w] = Append(history[w], c)
        /\ \A v \in Watchers : v # w => history'[v] = history[v]
    BY <1>3 DEF Happening, Types, VolumeTypes
  <2>2. /\ Len(history'[w]) = Len(history[w]) + 1
        /\ \A i \in 1 .. Len(history[w]) : history'[w][i] = history[w][i]
    BY <1>1, <2>1, AppendFacts
  <2> QED
    BY <1>1, <2>1, <2>2 DEF HistoryGrows
<1>4. \/ UNCHANGED history
      \/ \E w \in Watchers : \E c \in Change, r \in Record : Happening(w, c, r)
  BY Steps DEF ReportNewName, CompleteWithRecords, CompleteOverflow, CompleteWithError, Complete,
               DeliverApc, RememberOldName, HandleEvent, HandleEventFails, AnEvent,
               DismissBox, Repost, Open, SetEventHandlers, Close, LoopStep, ghosts
<1> QED
  BY <1>2, <1>3, <1>4

\* What was told stays told.
LEMMA TellsLater ==
  ASSUME NEW h, NEW g, NEW s \in Seq(Record), AllTell(s, h),
         Len(h) \in Nat, Len(g) \in Nat, Len(h) <= Len(g),
         \A i \in 1 .. Len(h) : g[i] = h[i]
  PROVE  AllTell(s, g)
<1> SUFFICES ASSUME NEW i \in 1 .. Len(s) PROVE Tells(s[i], g)
  BY DEF AllTell
<1>1. s[i] \in Record
  BY Elements
<1>2. Tells(s[i], h) /\ s[i].change \in Nat /\ s[i].change > 0
  BY <1>1, WatcherNumbers DEF AllTell, Record
<1>3. s[i].change \in 1 .. Len(h) /\ s[i].change <= Len(g)
  BY <1>2 DEF Tells
<1>4. g[s[i].change] = h[s[i].change]
  BY <1>3
<1> QED
  BY <1>2, <1>3, <1>4 DEF Tells

LEMMA EmptyTells == \A h : AllTell(<<>>, h) /\ Halves(<<>>)
BY DEF AllTell, Halves

\* A record joins those that tell.
LEMMA AppendTells ==
  ASSUME NEW h, NEW s \in Seq(Record), NEW r \in Record, AllTell(s, h), Tells(r, h)
  PROVE  AllTell(Append(s, r), h)
BY AppendFacts DEF AllTell

LEMMA AppendHalves ==
  ASSUME NEW s \in Seq(Record), NEW r \in Record, Halves(s),
         r.action = "RENAMED_NEW_NAME" =>
           s = <<>> \/ (s[Len(s)].action = "RENAMED_OLD_NAME" /\ s[Len(s)].change = r.change)
  PROVE  Halves(Append(s, r))
<1> DEFINE t == Append(s, r)
<1>1. /\ Len(s) \in Nat /\ Len(t) = Len(s) + 1 /\ t[Len(s) + 1] = r
      /\ \A i \in 1 .. Len(s) : t[i] = s[i]
      /\ \A i \in 1 .. Len(t) : i \in 1 .. Len(s) \/ i = Len(s) + 1
  BY AppendFacts
<1>2. s = <<>> => Len(s) = 0
  OBVIOUS
<1> SUFFICES ASSUME NEW i \in 1 .. Len(t), t[i].action = "RENAMED_NEW_NAME"
             PROVE  i = 1 \/ (t[i - 1].action = "RENAMED_OLD_NAME" /\ t[i - 1].change = t[i].change)
  BY DEF Halves
<1>3. CASE i \in 1 .. Len(s)
  <2>1. i = 1 \/ i - 1 \in 1 .. Len(s)
    BY <1>1, <1>3
  <2> QED
    BY <1>1, <1>3, <2>1 DEF Halves
<1>4. CASE i = Len(s) + 1
  <2>1. i = 1 \/ (i - 1 = Len(s) /\ Len(s) \in 1 .. Len(s))
    BY <1>1, <1>4
  <2> QED
    BY <1>1, <1>2, <1>4, <2>1
<1> QED
  BY <1>1, <1>3, <1>4

\* What the first and the second half of a rename say when they are notified, and every
\* other record.
LEMMA NewRecordTells ==
  ASSUME Types, NEW w \in Watchers
  PROVE  /\ \A c \in Change, r \in Record : Happening(w, c, r) =>
              /\ Tells(r, history'[w]) /\ r.action # "RENAMED_NEW_NAME"
              /\ r.change = Len(history'[w])
              /\ renaming'[w] => r.action = "RENAMED_OLD_NAME"
         /\ ReportNewName(w) => Tells(SecondHalf(w), history[w])
<1>1. history[w] \in Seq(Change) /\ Len(history[w]) \in Nat
  BY Elements DEF Types, VolumeTypes
<1>2. ASSUME NEW c \in Change, NEW r \in Record, Happening(w, c, r)
      PROVE  /\ Tells(r, history'[w]) /\ r.action # "RENAMED_NEW_NAME"
             /\ r.change = Len(history'[w])
             /\ renaming'[w] => r.action = "RENAMED_OLD_NAME"
  <2>1. history'[w] = Append(history[w], c)
    BY <1>2 DEF Happening, Types, VolumeTypes
  <2>2. Len(history'[w]) = Len(history[w]) + 1 /\ history'[w][Len(history[w]) + 1] = c
    BY <1>1, <2>1, AppendFacts
  <2>3. c.op \in {"ADDED", "REMOVED", "MODIFIED", "RENAMED"}
    BY DEF Change
  <2>4. /\ r.change = Len(history[w]) + 1 /\ r.name = c.name
        /\ r.action = IF c.op = "RENAMED" THEN "RENAMED_OLD_NAME" ELSE c.op
    BY <1>2 DEF Happening
  <2>5. Tells(r, history'[w])
    BY <1>1, <2>2, <2>3, <2>4 DEF Tells
  <2>6. r.action # "RENAMED_NEW_NAME"
    BY <2>3, <2>4
  <2>7. renaming'[w] => c.op = "RENAMED"
    BY <1>2 DEF Happening, Types, VolumeTypes
  <2> QED
    BY <2>2, <2>4, <2>5, <2>6, <2>7
<1>3. ASSUME ReportNewName(w) PROVE Tells(SecondHalf(w), history[w])
  <2>1. renaming[w] /\ history[w][Len(history[w])].op = "RENAMED"
    BY <1>3, ReportEffect DEF Types, VolumeTypes
  <2> QED
    BY <1>1, <2>1 DEF SecondHalf, Tells
<1> QED
  BY <1>2, <1>3

LEMMA InitRecords == Init => RecordsTell
<1> SUFFICES ASSUME Init, NEW w \in Watchers
             PROVE  recorded[w] = <<>> /\ Buffer[w] = <<>> /\ ~renaming[w]
  BY EmptyTells DEF RecordsTell
<1> QED
  BY DEF Init

\* The records of one volume.
RecordsOf(w) ==
  /\ AllTell(recorded[w], history[w]) /\ AllTell(Buffer[w], history[w])
  /\ Halves(recorded[w]) /\ Halves(Buffer[w])
  /\ renaming[w] /\ recorded[w] # <<>> =>
       /\ recorded[w][Len(recorded[w])].action = "RENAMED_OLD_NAME"
       /\ recorded[w][Len(recorded[w])].change = Len(history[w])

LEMMA RecordsFrame ==
  ASSUME RecordsTell, UNCHANGED <<recorded, Buffer, history, renaming>>
  PROVE  RecordsTell'
BY DEF RecordsTell

LEMMA NextRecords == Types /\ RecordsTell /\ [Next]_vars => RecordsTell'
<1> SUFFICES ASSUME Types, RecordsTell, [Next]_vars PROVE RecordsTell'
  OBVIOUS
<1> USE DEF objects, kernel, world, ghosts
<1>0. /\ HistoryGrows
      /\ recorded \in [Watchers -> Seq(Record)] /\ Buffer \in [Watchers -> Seq(Record)]
      /\ \A w \in Watchers : recorded[w] \in Seq(Record) /\ Buffer[w] \in Seq(Record)
      /\ \A w \in Watchers : Len(recorded[w]) \in Nat
      /\ \A w \in Watchers : RecordsOf(w)
  BY NextHistory, Elements DEF Types, BufferTypes, RecordsTell, RecordsOf
<1>1. ASSUME NEW w \in Watchers, NEW c \in Change, NEW r \in Record, Happening(w, c, r)
      PROVE  RecordsTell'
  <2>1. /\ \A v \in Watchers : v # w => recorded'[v] = recorded[v]
        /\ Forgotten(w, r) \/ Kept(w, r)
    BY <1>1, NotifyEffect DEF Happening
  <2>2. UNCHANGED Buffer /\ \A v \in Watchers : v # w => renaming'[v] = renaming[v] /\ history'[v] = history[v]
    BY <1>1 DEF Happening, Types, VolumeTypes
  <2>3. /\ Tells(r, history'[w]) /\ r.action # "RENAMED_NEW_NAME" /\ r.change = Len(history'[w])
        /\ renaming'[w] => r.action = "RENAMED_OLD_NAME"
    BY <1>1, NewRecordTells
  <2>4. AllTell(recorded[w], history'[w]) /\ AllTell(Buffer[w], history'[w])
    BY <1>0, TellsLater DEF HistoryGrows, RecordsOf
  <2>5. CASE Forgotten(w, r)
    <3>1. recorded'[w] = <<>>
      BY <2>5 DEF Forgotten
    <3> QED
      BY <1>0, <2>1, <2>2, <2>4, <3>1, EmptyTells DEF RecordsTell, RecordsOf
  <2>6. CASE Kept(w, r)
    <3>1. recorded'[w] = Append(recorded[w], r)
      BY <2>6 DEF Kept
    <3>2. AllTell(recorded'[w], history'[w])
      BY <1>0, <2>3, <2>4, <3>1, AppendTells
    <3>3. Halves(recorded'[w])
      BY <1>0, <2>3, <3>1, AppendHalves DEF RecordsOf
    <3>4. recorded'[w][Len(recorded'[w])] = r
      BY <1>0, <3>1, AppendFacts
    <3> QED
      BY <1>0, <2>1, <2>2, <2>3, <2>4, <3>2, <3>3, <3>4 DEF RecordsTell, RecordsOf
  <2> QED
    BY <2>1, <2>5, <2>6
<1>2. ASSUME NEW w \in Watchers, ReportNewName(w) PROVE RecordsTell'
  <2> DEFINE r == SecondHalf(w)
  <2>1. /\ r \in Record /\ r.change = Len(history[w])
        /\ renaming[w] /\ ~renaming'[w]
        /\ \A v \in Watchers : v # w => renaming'[v] = renaming[v]
        /\ UNCHANGED <<Buffer, history>>
    BY <1>2, ReportEffect DEF SecondHalf
  <2>2. /\ \A v \in Watchers : v # w => recorded'[v] = recorded[v]
        /\ Forgotten(w, r) \/ Kept(w, r)
    BY <1>2, ReportEffect, NotifyEffect
  <2>3. Tells(r, history[w])
    BY <1>2, NewRecordTells
  <2>4. CASE Forgotten(w, r)
    <3>1. recorded'[w] = <<>>
      BY <2>4 DEF Forgotten
    <3> QED
      BY <1>0, <2>1, <2>2, <3>1, EmptyTells DEF RecordsTell, RecordsOf
  <2>5. CASE Kept(w, r)
    <3>1. recorded'[w] = Append(recorded[w], r)
      BY <2>5 DEF Kept
    <3>2. AllTell(recorded'[w], history[w])
      BY <1>0, <2>1, <2>3, <3>1, AppendTells DEF RecordsOf
    <3>3. Halves(recorded'[w])
      BY <1>0, <2>1, <3>1, AppendHalves DEF RecordsOf
    <3> QED
      BY <1>0, <2>1, <2>2, <3>2, <3>3 DEF RecordsTell, RecordsOf
  <2> QED
    BY <2>2, <2>4, <2>5
<1>3. ASSUME NEW w \in Watchers, CompleteWithRecords(w) PROVE RecordsTell'
  <2>1. /\ Buffer' = [Buffer EXCEPT ![w] = recorded[w]]
        /\ recorded' = [recorded EXCEPT ![w] = <<>>]
        /\ UNCHANGED <<history, renaming>>
    BY <1>3 DEF CompleteWithRecords, Complete
  <2>2. \A v \in Watchers :
          /\ Buffer'[v] \in {recorded[v], Buffer[v]}
          /\ recorded'[v] \in {recorded[v], <<>>}
    BY <1>0, <2>1
  <2> QED
    BY <1>0, <2>1, <2>2, EmptyTells DEF RecordsTell, RecordsOf
<1>4. CASE Close
  <2>1. /\ Buffer' = [Buffer EXCEPT ![at] = <<>>]
        /\ recorded' = [recorded EXCEPT ![at] = <<>>]
        /\ UNCHANGED <<history, renaming>>
    BY <1>4 DEF Close
  <2>2. \A v \in Watchers :
          /\ Buffer'[v] \in {<<>>, Buffer[v]}
          /\ recorded'[v] \in {recorded[v], <<>>}
    BY <1>0, <2>1
  <2> QED
    BY <1>0, <2>1, <2>2, EmptyTells DEF RecordsTell, RecordsOf
<1>5. ASSUME NEW w \in Watchers, CompleteOverflow(w) \/ CompleteWithError(w) PROVE RecordsTell'
  BY <1>5, RecordsFrame DEF CompleteOverflow, CompleteWithError, Complete
<1>6. CASE DeliverApc \/ RememberOldName \/ DismissBox \/ Repost
  BY <1>6, RecordsFrame DEF DeliverApc, RememberOldName, DismissBox, Repost
<1>7. CASE HandleEvent \/ HandleEventFails
  BY <1>7, RecordsFrame DEF HandleEvent, HandleEventFails, AnEvent
<1>8. CASE Open \/ SetEventHandlers \/ LoopStep
  BY <1>8, RecordsFrame DEF Open, SetEventHandlers, LoopStep
<1> QED
  BY <1>1, <1>2, <1>3, <1>4, <1>5, <1>6, <1>7, <1>8, Steps

(***************************************************************************)
(* The old name that the callback remembers is that of the record before   *)
(* the one it is at, if that is the first half of a rename.                *)
(***************************************************************************)
OldNameKept ==
  callback # Idle /\ callback.next <= Len(Buffer[callback.w]) =>
    /\ callback.next = 1 => callback.oldFileName = NoName
    /\ callback.next > 1 /\ Buffer[callback.w][callback.next - 1].action = "RENAMED_OLD_NAME" =>
         callback.oldFileName = ExtractFileName(Buffer[callback.w][callback.next - 1].name)

LEMMA NextOldName ==
  Types /\ Control /\ Exclusive /\ OldNameKept /\ [Next]_vars => OldNameKept'
<1> SUFFICES ASSUME Types, Control, Exclusive, OldNameKept, [Next]_vars PROVE OldNameKept'
  OBVIOUS
<1> USE DEF objects, kernel, world, ghosts
<1>1. CASE UNCHANGED callback /\ (callback # Idle => Buffer'[callback.w] = Buffer[callback.w])
  BY <1>1 DEF OldNameKept
<1>2. ASSUME NEW w \in Watchers, CompleteWithRecords(w) PROVE OldNameKept'
  <2>1. /\ Buffer' = [Buffer EXCEPT ![w] = recorded[w]] /\ UNCHANGED callback /\ pending[w]
    BY <1>2 DEF CompleteWithRecords, Complete, thread
  <2>2. callback # Idle => callback.w # w
    BY <2>1 DEF Exclusive
  <2>3. callback # Idle => Buffer'[callback.w] = Buffer[callback.w]
    BY <2>1, <2>2, RunningCallback DEF Types, BufferTypes
  <2> QED
    BY <1>1, <2>1, <2>3
<1>3. CASE DeliverApc
  <2>1. /\ Head(apcs).w \in Watchers /\ UNCHANGED Buffer
    BY <1>3, QueueShrinks DEF DeliverApc, Completion
  <2>2. Len(Buffer[Head(apcs).w]) \in Nat
    BY <2>1, Elements DEF Types, BufferTypes
  <2>3. /\ callback'.w = Head(apcs).w /\ callback'.oldFileName = NoName
        /\ callback'.next = 1 \/ callback'.next = Len(Buffer[Head(apcs).w]) + 1
    BY <1>3 DEF DeliverApc
  <2> QED
    BY <2>1, <2>2, <2>3 DEF OldNameKept
<1>4. CASE RememberOldName
  <2>1. /\ callback'.w = callback.w /\ callback'.next = callback.next + 1
        /\ callback'.oldFileName = ExtractFileName(TheRecord.name)
        /\ UNCHANGED Buffer /\ callback.next \in Nat /\ callback.next > 0
    BY <1>4, AtRecord, RunningCallback DEF RememberOldName, CallbackState, Types
  <2>2. callback'.next # 1 /\ callback'.next - 1 = callback.next
    BY <2>1
  <2> QED
    BY <2>1, <2>2 DEF OldNameKept, TheRecord
<1>5. CASE HandleEvent \/ HandleEventFails
  <2>1. AnEvent
    BY <1>5 DEF HandleEvent, HandleEventFails
  <2>2. /\ callback'.w = callback.w /\ callback'.next = callback.next + 1
        /\ TheRecord.action # "RENAMED_OLD_NAME"
        /\ UNCHANGED Buffer /\ callback.next \in Nat /\ callback.next > 0
    BY <2>1, EventTypes, AtRecord, RunningCallback DEF AnEvent, Types
  <2>3. callback'.next # 1 /\ callback'.next - 1 = callback.next
    BY <2>2
  <2> QED
    BY <2>2, <2>3 DEF OldNameKept, TheRecord
<1>6. CASE Repost
  BY <1>6 DEF Repost, OldNameKept
<1>7. CASE Close
  <2>1. callback = Idle /\ UNCHANGED callback
    BY <1>7 DEF Close, Control
  <2> QED
    BY <2>1 DEF OldNameKept
<1>8. ASSUME NEW w \in Watchers, CompleteOverflow(w) \/ CompleteWithError(w) PROVE OldNameKept'
  BY <1>1, <1>8 DEF CompleteOverflow, CompleteWithError, Complete, thread
<1>9. ASSUME NEW w \in Watchers,
             ReportNewName(w) \/ \E c \in Change, r \in Record : Happening(w, c, r)
      PROVE  OldNameKept'
  BY <1>1, <1>9 DEF ReportNewName, Happening, thread
<1>10. CASE DismissBox \/ Open \/ SetEventHandlers \/ LoopStep
  BY <1>1, <1>10 DEF DismissBox, Open, SetEventHandlers, LoopStep
<1> QED
  BY <1>2, <1>3, <1>4, <1>5, <1>6, <1>7, <1>8, <1>9, <1>10, Steps

(***************************************************************************)
(* The rows.                                                               *)
(***************************************************************************)
\* A row tells what happened, in a history h of its volume.
RowTells(row, h) ==
  /\ row.change <= Len(h)
  /\ LET change == h[row.change]
         old == GetFullPath(Volume(row), change.name)
     IN  /\ <<change.op, row.EVENT_TYPE>> \in
              {<<"ADDED", "CREATED">>, <<"REMOVED", "DELETED">>,
               <<"MODIFIED", "CHANGED">>, <<"RENAMED", "RENAME">>}
         /\ IF change.op = "RENAMED"
            THEN /\ row.NEW_FILE_NAME = ExtractFileName(change.to)
                 /\ row.OLD_FILE_PATH \in {old, Combine(Volume(row), NoName)}
            ELSE /\ row.NEW_FILE_PATH = old
                 /\ row.OLD_FILE_PATH = NoPath

RowsTell == \A i \in 1 .. Len(FILE_LOG) : RowTells(FILE_LOG[i], history[Volume(FILE_LOG[i])])

LEMMA RowsOfVolumes ==
  ASSUME Types, NEW i \in 1 .. Len(FILE_LOG)
  PROVE  /\ FILE_LOG[i] \in Row /\ Volume(FILE_LOG[i]) \in Watchers
         /\ FILE_LOG[i].change \in Nat /\ FILE_LOG[i].change > 0
<1>1. FILE_LOG[i] \in Row
  BY Elements DEF Types
<1> QED
  BY <1>1, WatcherNumbers DEF Row, Volume

\* A row that a handler writes for a record that tells.
LEMMA HandledRow ==
  ASSUME NEW w \in Watchers, NEW r \in Record, NEW h \in Seq(Change), NEW old,
         Tells(r, h), r.action # "RENAMED_OLD_NAME",
         r.action = "RENAMED_NEW_NAME" => old \in {NoName, ExtractFileName(h[r.change].name)}
  PROVE  /\ Volume(RowOf(w, r, old)) = w
         /\ RowOf(w, r, old).change = r.change
         /\ RowTells(RowOf(w, r, old), h)
<1> DEFINE row == RowOf(w, r, old)
           c == h[r.change]
<1>1. /\ row.change = r.change /\ Volume(row) = w
      /\ row.NEW_FILE_PATH = GetFullPath(w, r.name)
      /\ row.NEW_FILE_NAME = ExtractFileName(r.name)
      /\ row.EVENT_TYPE = EventType(r.action)
      /\ row.OLD_FILE_PATH = IF r.action = "RENAMED_NEW_NAME" THEN Combine(w, old) ELSE NoPath
  BY DEF RowOf, Volume, GetFullPath, Combine
<1>2. c \in Change
  <2>1. r.change \in 1 .. Len(h)
    BY Elements, WatcherNumbers DEF Tells, Record
  <2> QED
    BY <2>1, Elements
<1>3. c.op \in {"ADDED", "REMOVED", "MODIFIED", "RENAMED"}
  BY <1>2 DEF Change
<1>4. CASE c.op = "RENAMED"
  <2>1. r.action = "RENAMED_NEW_NAME" /\ r.name = c.to
    BY <1>4 DEF Tells
  <2>2. EventType(r.action) = "RENAME"
    BY <2>1 DEF EventType
  <2>3. Combine(w, old) \in {GetFullPath(w, c.name), Combine(w, NoName)}
    BY <2>1 DEF GetFullPath, Combine
  <2> QED
    BY <1>1, <1>4, <2>1, <2>2, <2>3 DEF RowTells, Tells
<1>5. CASE c.op # "RENAMED"
  <2>1. r.action = c.op /\ r.name = c.name
    BY <1>5 DEF Tells
  <2>2. <<c.op, EventType(r.action)>> \in
          {<<"ADDED", "CREATED">>, <<"REMOVED", "DELETED">>, <<"MODIFIED", "CHANGED">>}
    BY <1>3, <1>5, <2>1 DEF EventType
  <2>3. r.action # "RENAMED_NEW_NAME"
    BY <1>3, <2>1
  <2> QED
    BY <1>1, <1>5, <2>1, <2>2, <2>3 DEF RowTells, Tells
<1> QED
  BY <1>1, <1>4, <1>5

\* What the callback passes as old path with the second half of a rename.
LEMMA OldNameOfRename ==
  ASSUME Types, RecordsTell, OldNameKept, Walking, TheRecord.action = "RENAMED_NEW_NAME"
  PROVE  callback.oldFileName =
           IF callback.next = 1 THEN NoName
           ELSE ExtractFileName(history[callback.w][TheRecord.change].name)
<1> DEFINE w == callback.w
           i == callback.next
<1>1. /\ w \in Watchers /\ i \in 1 .. Len(Buffer[w]) /\ Len(Buffer[w]) \in Nat
      /\ callback # Idle /\ Buffer[w] \in Seq(Record)
  BY AtRecord
<1>2. AllTell(Buffer[w], history[w]) /\ Halves(Buffer[w])
  BY <1>1 DEF RecordsTell
<1>3. CASE i = 1
  <2>1. callback.next <= Len(Buffer[callback.w])
    BY <1>1
  <2> QED
    BY <1>1, <1>3, <2>1 DEF OldNameKept
<1>4. CASE i # 1
  <2>1. i - 1 \in 1 .. Len(Buffer[w]) /\ i > 1 /\ i <= Len(Buffer[w])
    BY <1>1, <1>4
  <2>2. /\ Buffer[w][i - 1].action = "RENAMED_OLD_NAME"
        /\ Buffer[w][i - 1].change = TheRecord.change
    BY <1>1, <1>2, <1>4 DEF Halves, TheRecord
  <2>3. callback.oldFileName = ExtractFileName(Buffer[w][i - 1].name)
    BY <1>1, <2>1, <2>2 DEF OldNameKept
  <2>4. Tells(Buffer[w][i - 1], history[w])
    BY <1>2, <2>1 DEF AllTell
  <2>5. history[w][TheRecord.change].op \in {"ADDED", "REMOVED", "MODIFIED", "RENAMED"}
    <3>1. TheRecord \in Record /\ Tells(TheRecord, history[w])
      BY <1>1, <1>2, AtRecord DEF AllTell, TheRecord
    <3>2. history[w] \in Seq(Change) /\ Len(history[w]) \in Nat
      BY <1>1, Elements DEF Types, VolumeTypes
    <3>3. TheRecord.change \in 1 .. Len(history[w])
      BY <3>1, <3>2, WatcherNumbers DEF Tells, Record
    <3>4. history[w][TheRecord.change] \in Change
      BY <3>2, <3>3, Elements
    <3> QED
      BY <3>4 DEF Change
  <2>6. Buffer[w][i - 1].name = history[w][TheRecord.change].name
    BY <2>2, <2>4, <2>5 DEF Tells
  <2> QED
    BY <1>4, <2>3, <2>6
<1> QED
  BY <1>3, <1>4

\* The row of the record that the callback is at.
LEMMA TheRow ==
  ASSUME Types, RecordsTell, OldNameKept, AnEvent
  PROVE  LET row == RowOf(callback.w, TheRecord, callback.oldFileName)
         IN  /\ row \in Row /\ Volume(row) = callback.w /\ callback.w \in Watchers
             /\ row.change = TheRecord.change
             /\ RowTells(row, history[callback.w])
<1>1. Walking /\ TheRecord.action # "RENAMED_OLD_NAME"
  BY DEF AnEvent
<1>2. /\ callback.w \in Watchers /\ TheRecord \in Record
      /\ callback.next \in 1 .. Len(Buffer[callback.w])
      /\ callback.oldFileName \in Extracted \cup {NoName}
  BY <1>1, AtRecord
<1>3. Tells(TheRecord, history[callback.w]) /\ history[callback.w] \in Seq(Change)
  BY <1>2 DEF RecordsTell, AllTell, TheRecord, Types, VolumeTypes
<1>4. RowOf(callback.w, TheRecord, callback.oldFileName) \in Row
  BY <1>1, <1>2, RowType
<1> QED
  BY <1>1, <1>2, <1>3, <1>4, OldNameOfRename, HandledRow

\* Only HandleEvent writes a row.
LEMMA RowsWritten ==
  ASSUME Types, [Next]_vars
  PROVE  \/ UNCHANGED FILE_LOG
         \/ /\ HandleEvent /\ handlers[callback.w]
            /\ FILE_LOG' = Append(FILE_LOG, RowOf(callback.w, TheRecord, callback.oldFileName))
<1> USE DEF world
<1>1. CASE HandleEvent
  BY <1>1 DEF HandleEvent
<1>2. CASE HandleEventFails
  BY <1>2 DEF HandleEventFails
<1>3. ASSUME NEW w \in Watchers,
             CompleteWithRecords(w) \/ CompleteOverflow(w) \/ CompleteWithError(w)
      PROVE  UNCHANGED FILE_LOG
  BY <1>3 DEF CompleteWithRecords, CompleteOverflow, CompleteWithError, Complete
<1>4. ASSUME NEW w \in Watchers,
             ReportNewName(w) \/ \E c \in Change, r \in Record : Happening(w, c, r)
      PROVE  UNCHANGED FILE_LOG
  BY <1>4 DEF ReportNewName, Happening
<1>5. CASE DeliverApc \/ RememberOldName \/ DismissBox \/ Repost
  BY <1>5 DEF DeliverApc, RememberOldName, DismissBox, Repost
<1>6. CASE Open \/ SetEventHandlers \/ Close \/ LoopStep
  BY <1>6 DEF Open, SetEventHandlers, Close, LoopStep
<1> QED
  BY <1>1, <1>2, <1>3, <1>4, <1>5, <1>6, Steps

\* A row stays true while history grows.
LEMMA RowTellsLater ==
  ASSUME Types, HistoryGrows, RowsTell, NEW i \in 1 .. Len(FILE_LOG)
  PROVE  RowTells(FILE_LOG[i], history'[Volume(FILE_LOG[i])])
<1> DEFINE row == FILE_LOG[i]
           w == Volume(row)
<1>1. RowTells(row, history[w])
  BY DEF RowsTell
<1>2. w \in Watchers /\ row.change \in Nat /\ row.change > 0
  BY RowsOfVolumes
<1>3. /\ Len(history[w]) \in Nat /\ Len(history'[w]) \in Nat
      /\ Len(history[w]) <= Len(history'[w])
      /\ \A k \in 1 .. Len(history[w]) : history'[w][k] = history[w][k]
  BY <1>2 DEF HistoryGrows
<1>4. row.change \in 1 .. Len(history[w])
  BY <1>1, <1>2, <1>3 DEF RowTells
<1>5. row.change <= Len(history'[w]) /\ history'[w][row.change] = history[w][row.change]
  BY <1>2, <1>3, <1>4
<1> QED
  BY <1>1, <1>5 DEF RowTells

LEMMA NextRows ==
  Types /\ RecordsTell /\ OldNameKept /\ RowsTell /\ [Next]_vars => RowsTell'
<1> SUFFICES ASSUME Types, RecordsTell, OldNameKept, RowsTell, [Next]_vars PROVE RowsTell'
  OBVIOUS
<1>1. HistoryGrows
  BY NextHistory
<1>2. CASE UNCHANGED FILE_LOG
  BY <1>1, <1>2, RowTellsLater DEF RowsTell, Volume
<1>3. CASE HandleEvent /\ FILE_LOG' = Append(FILE_LOG, RowOf(callback.w, TheRecord, callback.oldFileName))
  <2> DEFINE row == RowOf(callback.w, TheRecord, callback.oldFileName)
  <2>1. AnEvent /\ UNCHANGED history
    BY <1>3 DEF HandleEvent, AnEvent
  <2>2. row \in Row /\ RowTells(row, history[Volume(row)])
    BY <2>1, TheRow
  <2>3. /\ \A i \in 1 .. Len(FILE_LOG') : i \in 1 .. Len(FILE_LOG) \/ i = Len(FILE_LOG) + 1
        /\ \A i \in 1 .. Len(FILE_LOG) : FILE_LOG'[i] = FILE_LOG[i]
        /\ FILE_LOG'[Len(FILE_LOG) + 1] = row
    <3>1. FILE_LOG \in Seq(Row)
      BY DEF Types
    <3> QED
      BY <1>3, <2>2, <3>1, AppendFacts
  <2> QED
    BY <2>1, <2>2, <2>3 DEF RowsTell
<1> QED
  BY <1>2, <1>3, RowsWritten

(***************************************************************************)
(* The inductive invariant up to here.                                     *)
(***************************************************************************)
WatcherInv ==
  Types /\ Control /\ Exclusive /\ Hearing /\ RecordsTell /\ OldNameKept /\ RowsTell

LEMMA AlwaysWatcherInv == Spec => []WatcherInv
<1>1. Init => WatcherInv
  <2>1. Init => OldNameKept /\ RowsTell
    BY DEF Init, OldNameKept, RowsTell
  <2> QED
    BY <2>1, InitTypes, InitControl, InitOwners, InitRecords DEF WatcherInv
<1>2. WatcherInv /\ [Next]_vars => WatcherInv'
  BY NextTypes, NextControl, NextOwners, NextRecords, NextOldName, NextRows DEF WatcherInv
<1> QED
  BY <1>1, <1>2, PTL DEF Spec

\* Every row tells a change that happened, for any number of watchers, names, changes
\* and faults and for every size of the buffer.
THEOREM RowsCorrect == Spec => []RowsTellWhatHappened
<1>1. WatcherInv => RowsTellWhatHappened
  BY DEF WatcherInv, RowsTell, RowTells, RowsTellWhatHappened, Rows
<1> QED
  BY <1>1, AlwaysWatcherInv, PTL

(***************************************************************************)
(* When the old name of a rename is in its row.                            *)
(***************************************************************************)
OldPathOf(row) ==
  IF callback.next = 1 THEN Combine(callback.w, NoName)
  ELSE GetFullPath(callback.w, history[callback.w][row.change].name)

\* Rows are only added, at the end; the row of a rename lacks the old name if its second
\* half is the first record of a buffer, and has the right one otherwise.
RenameRowStep ==
  \/ UNCHANGED FILE_LOG
  \/ \E row \in Row :
       /\ FILE_LOG' = Append(FILE_LOG, row)
       /\ row.EVENT_TYPE = "RENAME" => row.OLD_FILE_PATH = OldPathOf(row)

\* The old name is a local variable of the callback: what decides is whether the
\* kernel handed over the two halves of the rename in one buffer, whatever happens
\* to the buffer, the file and the other volumes in between.
THEOREM RenameRows == Spec => [][RenameRowStep]_vars
<1>1. ASSUME WatcherInv, [Next]_vars PROVE RenameRowStep
  <2> DEFINE row == RowOf(callback.w, TheRecord, callback.oldFileName)
  <2>1. Types /\ RecordsTell /\ OldNameKept
    BY <1>1 DEF WatcherInv
  <2>2. CASE UNCHANGED FILE_LOG
    BY <2>2 DEF RenameRowStep
  <2>3. CASE HandleEvent /\ FILE_LOG' = Append(FILE_LOG, row)
    <3>1. AnEvent /\ Walking
      BY <2>3 DEF HandleEvent, AnEvent
    <3>2. row \in Row /\ row.change = TheRecord.change
      BY <2>1, <3>1, TheRow
    <3>3. ASSUME row.EVENT_TYPE = "RENAME" PROVE row.OLD_FILE_PATH = OldPathOf(row)
      <4>1. TheRecord.action \in {"ADDED", "REMOVED", "MODIFIED", "RENAMED_NEW_NAME"}
        BY <2>1, <3>1, AtRecord DEF AnEvent, Record, Actions
      <4>2. TheRecord.action = "RENAMED_NEW_NAME"
        BY <3>3, <4>1 DEF RowOf, EventType
      <4>3. row.OLD_FILE_PATH = Combine(callback.w, callback.oldFileName)
        BY <4>2 DEF RowOf
      <4> QED
        BY <2>1, <3>1, <3>2, <4>2, <4>3, OldNameOfRename DEF OldPathOf, GetFullPath
    <3> HIDE DEF row
    <3> QED
      BY <2>3, <3>2, <3>3 DEF RenameRowStep
  <2> QED
    BY <1>1, <2>1, <2>2, <2>3, RowsWritten
<1> QED
  BY <1>1, AlwaysWatcherInv, PTL DEF Spec

(***************************************************************************)
(* Nothing vanishes.  The first half of a rename may be dropped, since the *)
(* row is written for the second: what carries a change is a record that   *)
(* is not such a half, or a rename not yet reported in full.               *)
(***************************************************************************)
Carries(s, from, c) ==
  \E k \in from .. Len(s) : s[k].change = c /\ s[k].action # "RENAMED_OLD_NAME"

Succeeded(w) == \E i \in 1 .. Len(apcs) : apcs[i].w = w /\ apcs[i].success

OnItsWay(w, c) ==
  \/ Carries(recorded[w], 1, c)
  \/ Succeeded(w) /\ Carries(Buffer[w], 1, c)
  \/ callback.w = w /\ Carries(Buffer[w], callback.next, c)
  \/ renaming[w] /\ c = Len(history[w])

HasRow(w, c) ==
  \E i \in 1 .. Len(FILE_LOG) : Volume(FILE_LOG[i]) = w /\ FILE_LOG[i].change = c

Accounted(w, c) == HasRow(w, c) \/ c \in lost[w] \/ OnItsWay(w, c)

AllAccounted ==
  pc \notin {"close", "ended"} =>
    \A w \in Watchers : \A c \in 1 .. Len(history[w]) : Accounted(w, c)

LEMMA AccountedSuffices == WatcherInv /\ AllAccounted => NothingVanishes
<1> SUFFICES ASSUME WatcherInv, AllAccounted, pc \notin {"close", "ended"},
                    NEW w \in Watchers, NEW c \in 1 .. Len(history[w])
             PROVE  \/ \E row \in Rows : Volume(row) = w /\ row.change = c
                    \/ c \in lost[w] \cup InFlight(w)
  BY DEF NothingVanishes
<1>1. Accounted(w, c)
  BY DEF AllAccounted
<1>2. CASE HasRow(w, c)
  BY <1>2 DEF HasRow, Rows
<1>3. CASE Carries(recorded[w], 1, c)
  BY <1>3 DEF Carries, InFlight, ChangesOf
<1>4. CASE Succeeded(w) /\ Carries(Buffer[w], 1, c)
  <2>1. c \in ChangesOf(Buffer[w])
    BY <1>4 DEF Carries, ChangesOf
  <2>2. [w |-> w, success |-> TRUE] \in {apcs[i] : i \in 1 .. Len(apcs)}
    <3>1. PICK i \in 1 .. Len(apcs) : apcs[i].w = w /\ apcs[i].success
      BY <1>4 DEF Succeeded
    <3>2. apcs[i] \in Completion
      BY Elements DEF WatcherInv, Types, ThreadTypes
    <3>3. apcs[i] = [w |-> w, success |-> TRUE]
      BY <3>1, <3>2 DEF Completion
    <3> QED
      BY <3>3
  <2> QED
    BY <2>1, <2>2 DEF InFlight
<1>5. CASE callback.w = w /\ Carries(Buffer[w], callback.next, c)
  BY <1>5 DEF Carries, InFlight
<1>6. CASE renaming[w] /\ c = Len(history[w])
  BY <1>6 DEF InFlight
<1> QED
  BY <1>1, <1>2, <1>3, <1>4, <1>5, <1>6 DEF Accounted, OnItsWay

\* A row stays.
LEMMA RowStays ==
  ASSUME Types, RecordsTell, OldNameKept, [Next]_vars, NEW w \in Watchers, NEW c, HasRow(w, c)
  PROVE  HasRow(w, c)'
<1>1. PICK i \in 1 .. Len(FILE_LOG) : Volume(FILE_LOG[i]) = w /\ FILE_LOG[i].change = c
  BY DEF HasRow
<1>2. i \in 1 .. Len(FILE_LOG') /\ FILE_LOG'[i] = FILE_LOG[i]
  <2>1. CASE UNCHANGED FILE_LOG
    BY <2>1
  <2>2. CASE /\ HandleEvent
             /\ FILE_LOG' = Append(FILE_LOG, RowOf(callback.w, TheRecord, callback.oldFileName))
    <3>1. RowOf(callback.w, TheRecord, callback.oldFileName) \in Row
      BY <2>2, TheRow DEF HandleEvent
    <3> QED
      BY <2>2, <3>1, AppendFacts DEF Types
  <2> QED
    BY <2>1, <2>2, RowsWritten
<1> QED
  BY <1>1, <1>2 DEF HasRow, Volume

\* What was lost stays lost.
LEMMA LostStays ==
  ASSUME Types, [Next]_vars, NEW w \in Watchers
  PROVE  lost[w] \subseteq lost'[w]
<1> USE DEF ghosts
<1>1. ASSUME NEW v \in Watchers, NEW c \in Change, NEW r \in Record, Happening(v, c, r)
      PROVE  lost[w] \subseteq lost'[w]
  BY <1>1, NotifyEffect DEF Happening
<1>2. ASSUME NEW v \in Watchers, ReportNewName(v) PROVE lost[w] \subseteq lost'[w]
  BY <1>2, ReportEffect, NotifyEffect
<1>3. CASE HandleEventFails
  BY <1>3 DEF HandleEventFails, Types, VolumeTypes
<1>4. ASSUME NEW v \in Watchers,
             CompleteWithRecords(v) \/ CompleteOverflow(v) \/ CompleteWithError(v)
      PROVE  UNCHANGED lost
  BY <1>4 DEF CompleteWithRecords, CompleteOverflow, CompleteWithError, Complete
<1>5. CASE DeliverApc \/ RememberOldName \/ HandleEvent \/ DismissBox \/ Repost
  BY <1>5 DEF DeliverApc, RememberOldName, HandleEvent, DismissBox, Repost
<1>6. CASE Open \/ SetEventHandlers \/ Close \/ LoopStep
  BY <1>6 DEF Open, SetEventHandlers, Close, LoopStep
<1> QED
  BY <1>1, <1>2, <1>3, <1>4, <1>5, <1>6, Steps

\* What a sequence of records carries when a record is appended or passed.
LEMMA CarriesMore ==
  ASSUME NEW s \in Seq(Record), NEW r \in Record, NEW c
  PROVE  /\ Carries(s, 1, c) => Carries(Append(s, r), 1, c)
         /\ r.action # "RENAMED_OLD_NAME" => Carries(Append(s, r), 1, r.change)
<1>1. /\ Len(s) \in Nat /\ Len(Append(s, r)) = Len(s) + 1
      /\ \A i \in 1 .. Len(s) : Append(s, r)[i] = s[i]
      /\ Append(s, r)[Len(s) + 1] = r
  BY AppendFacts
<1>2. \A i \in 1 .. Len(s) : i \in 1 .. Len(Append(s, r))
  BY <1>1
<1>3. Len(s) + 1 \in 1 .. Len(Append(s, r))
  BY <1>1
<1> QED
  BY <1>1, <1>2, <1>3 DEF Carries

LEMMA CarriesOn ==
  ASSUME NEW s \in Seq(Record), NEW n \in Nat, NEW c, Carries(s, n, c)
  PROVE  Carries(s, n + 1, c) \/ (s[n].change = c /\ s[n].action # "RENAMED_OLD_NAME")
<1>1. PICK k \in n .. Len(s) : s[k].change = c /\ s[k].action # "RENAMED_OLD_NAME"
  BY DEF Carries
<1>2. Len(s) \in Nat
  BY Elements
<1>3. k = n \/ k \in n + 1 .. Len(s)
  BY <1>1, <1>2
<1> QED
  BY <1>1, <1>3 DEF Carries

\* What was forgotten by the kernel is lost.
LEMMA CarriedIsLost ==
  ASSUME NEW w \in Watchers, NEW r, NEW c, Forgotten(w, r), Carries(recorded[w], 1, c)
  PROVE  c \in lost'[w]
BY DEF Forgotten, Carries

\* Steps of the kernel and of the users.
LEMMA NotifyAccounted ==
  ASSUME Types, [Next]_vars, NEW w \in Watchers, NEW v \in Watchers, NEW r \in Record,
         Notify(v, r), UNCHANGED <<Buffer, apcs, callback, history>>, v # w => renaming'[w] = renaming[w],
         NEW c, OnItsWay(w, c)
  PROVE  \/ c \in lost'[w]
         \/ OnItsWay(w, c)'
         \/ v = w /\ renaming[w] /\ c = Len(history[w])
<1>1. /\ \A u \in Watchers : u # v => recorded'[u] = recorded[u]
      /\ Forgotten(v, r) \/ Kept(v, r)
  BY NotifyEffect
<1>2. recorded[w] \in Seq(Record)
  BY DEF Types, BufferTypes
<1>3. CASE v # w
  BY <1>1, <1>3 DEF OnItsWay, Carries, Succeeded
<1>4. CASE v = w /\ Forgotten(w, r)
  <2>1. CASE Carries(recorded[w], 1, c)
    BY <1>4, <2>1, CarriedIsLost
  <2>2. CASE ~Carries(recorded[w], 1, c)
    BY <1>4, <2>2 DEF OnItsWay, Carries, Succeeded
  <2> QED
    BY <2>1, <2>2
<1>5. CASE v = w /\ Kept(w, r)
  <2>1. Carries(recorded[w], 1, c) => Carries(recorded'[w], 1, c)
    BY <1>2, <1>5, CarriesMore DEF Kept
  <2>2. CASE Carries(recorded[w], 1, c)
    BY <2>1, <2>2 DEF OnItsWay, Carries
  <2>3. CASE ~Carries(recorded[w], 1, c)
    BY <1>5, <2>3 DEF OnItsWay, Carries, Succeeded
  <2> QED
    BY <2>2, <2>3
<1> QED
  BY <1>1, <1>3, <1>4, <1>5

\* A step keeps the account of a change if it keeps it on its way, writes its row or
\* loses it.
LEMMA StillAccounted ==
  ASSUME Types, RecordsTell, OldNameKept, [Next]_vars, NEW w \in Watchers, NEW c,
         Accounted(w, c),
         OnItsWay(w, c) => OnItsWay(w, c)' \/ HasRow(w, c)' \/ c \in lost'[w]
  PROVE  Accounted(w, c)'
<1>1. HasRow(w, c) => HasRow(w, c)'
  BY RowStays
<1>2. c \in lost[w] => c \in lost'[w]
  BY LostStays
<1> QED
  BY <1>1, <1>2 DEF Accounted

LEMMA HappeningAccounted ==
  ASSUME Types, RecordsTell, OldNameKept, [Next]_vars,
         NEW v \in Watchers, NEW h \in Change, NEW r \in Record, Happening(v, h, r),
         NEW w \in Watchers, NEW c \in 1 .. Len(history'[w]),
         c \in 1 .. Len(history[w]) => Accounted(w, c)
  PROVE  Accounted(w, c)'
<1>1. /\ Notify(v, r) /\ UNCHANGED <<Buffer, apcs, callback>>
      /\ ~renaming[v]
      /\ \A u \in Watchers : u # v => renaming'[u] = renaming[u] /\ history'[u] = history[u]
      /\ renaming'[v] <=> h.op = "RENAMED"
      /\ r.action = IF h.op = "RENAMED" THEN "RENAMED_OLD_NAME" ELSE h.op
      /\ h.op \in {"ADDED", "REMOVED", "MODIFIED", "RENAMED"}
      /\ recorded[v] \in Seq(Record)
  BY DEF Happening, thread, objects, Types, BufferTypes, VolumeTypes, Change
<1>2. /\ \A u \in Watchers : u # v => recorded'[u] = recorded[u]
      /\ Forgotten(v, r) \/ Kept(v, r)
  BY <1>1, NotifyEffect
<1>3. r.change = Len(history[v]) + 1 /\ Len(history'[v]) = Len(history[v]) + 1 /\ Len(history[v]) \in Nat
  <2>1. history[v] \in Seq(Change) /\ history'[v] = Append(history[v], h)
    BY DEF Happening, Types, VolumeTypes
  <2> QED
    BY <2>1, AppendFacts DEF Happening
<1>4. CASE c \in 1 .. Len(history[w])
  <2>1. CASE Carries(recorded[w], 1, c)
    <3>1. CASE w = v /\ Forgotten(v, r)
      BY <1>4, <2>1, <3>1, CarriedIsLost, StillAccounted
    <3>2. CASE w = v /\ Kept(v, r)
      <4>1. Carries(recorded'[w], 1, c)
        BY <1>1, <2>1, <3>2, CarriesMore DEF Kept
      <4> QED
        BY <1>4, <4>1, StillAccounted DEF OnItsWay, Carries
    <3>3. CASE w # v
      <4>1. Carries(recorded'[w], 1, c)
        BY <1>2, <2>1, <3>3
      <4> QED
        BY <1>4, <4>1, StillAccounted DEF OnItsWay, Carries
    <3> QED
      BY <1>2, <3>1, <3>2, <3>3
  <2>2. CASE ~Carries(recorded[w], 1, c)
    <3>1. OnItsWay(w, c) => OnItsWay(w, c)'
      BY <1>1, <2>2 DEF OnItsWay, Carries, Succeeded
    <3> QED
      BY <1>4, <3>1, StillAccounted
  <2> QED
    BY <2>1, <2>2
<1>5. CASE c \notin 1 .. Len(history[w])
  <2>1. w = v /\ c = r.change /\ c = Len(history'[w])
    BY <1>1, <1>3, <1>5
  <2>2. CASE Forgotten(v, r)
    BY <2>1, <2>2 DEF Forgotten, Accounted
  <2>3. CASE Kept(v, r) /\ h.op = "RENAMED"
    BY <1>1, <2>1, <2>3 DEF Accounted, OnItsWay
  <2>4. CASE Kept(v, r) /\ h.op # "RENAMED"
    <3>1. r.action # "RENAMED_OLD_NAME"
      BY <1>1, <2>4
    <3>2. Carries(recorded'[w], 1, c)
      BY <1>1, <2>1, <2>4, <3>1, CarriesMore DEF Kept
    <3> QED
      BY <3>2 DEF Accounted, OnItsWay, Carries
  <2> QED
    BY <1>2, <2>2, <2>3, <2>4
<1> QED
  BY <1>4, <1>5

LEMMA ReportAccounted ==
  ASSUME Types, RecordsTell, OldNameKept, [Next]_vars, NEW v \in Watchers, ReportNewName(v),
         NEW w \in Watchers, NEW c, Accounted(w, c)
  PROVE  Accounted(w, c)'
<1> DEFINE r == SecondHalf(v)
<1>1. /\ r \in Record /\ Notify(v, r) /\ r.change = Len(history[v])
      /\ r.action # "RENAMED_OLD_NAME"
      /\ UNCHANGED <<Buffer, apcs, callback, history>>
      /\ v # w => renaming'[w] = renaming[w]
      /\ recorded[v] \in Seq(Record)
  BY ReportEffect DEF SecondHalf, thread, objects, Types, BufferTypes
<1>2. OnItsWay(w, c) =>
        c \in lost'[w] \/ OnItsWay(w, c)' \/ (v = w /\ c = r.change)
  BY <1>1, NotifyAccounted
<1>3. CASE v = w /\ c = r.change
  <2>1. CASE Forgotten(v, r)
    BY <1>3, <2>1 DEF Forgotten, Accounted
  <2>2. CASE Kept(v, r)
    <3>1. Carries(recorded'[w], 1, c)
      BY <1>1, <1>3, <2>2, CarriesMore DEF Kept
    <3> QED
      BY <3>1 DEF Accounted, OnItsWay, Carries
  <2> QED
    BY <1>1, <2>1, <2>2, NotifyEffect
<1>4. CASE ~(v = w /\ c = r.change)
  BY <1>2, <1>4, StillAccounted
<1> QED
  BY <1>3, <1>4

\* A request is completed: what was recorded is in the buffer, or nothing moves.
LEMMA CompleteAccounted ==
  ASSUME Types, RecordsTell, OldNameKept, Exclusive, [Next]_vars, NEW v \in Watchers,
         CompleteWithRecords(v) \/ CompleteOverflow(v) \/ CompleteWithError(v),
         NEW w \in Watchers, NEW c, Accounted(w, c)
  PROVE  Accounted(w, c)'
<1>1. PICK success \in BOOLEAN : Complete(v, success)
  BY DEF CompleteWithRecords, CompleteOverflow, CompleteWithError
<1>2. /\ [w |-> v, success |-> success] \in Completion
      /\ apcs' = Append(apcs, [w |-> v, success |-> success])
      /\ pending[v] /\ UNCHANGED <<callback, renaming, history>>
  BY <1>1 DEF Complete, Completion, thread, world
<1>3. /\ \A i \in 1 .. Len(apcs) : i \in 1 .. Len(apcs') /\ apcs'[i] = apcs[i]
      /\ Len(apcs') \in 1 .. Len(apcs') /\ apcs'[Len(apcs')] = [w |-> v, success |-> success]
  BY <1>2, QueueGrows
<1>4. Succeeded(w) => Succeeded(w)'
  BY <1>3 DEF Succeeded
<1>5. CASE CompleteWithRecords(v)
  <2>1. /\ Complete(v, TRUE) /\ Buffer' = [Buffer EXCEPT ![v] = recorded[v]]
        /\ recorded' = [recorded EXCEPT ![v] = <<>>]
        /\ Buffer \in [Watchers -> Seq(Record)] /\ recorded \in [Watchers -> Seq(Record)]
    BY <1>5 DEF CompleteWithRecords, Types, BufferTypes
  <2>2. CASE w = v
    <3>1. Succeeded(w)'
      <4>1. [w |-> v, success |-> TRUE] \in Completion
        BY DEF Completion
      <4>2. apcs' = Append(apcs, [w |-> v, success |-> TRUE])
        BY <2>1 DEF Complete
      <4>3. Len(apcs') \in 1 .. Len(apcs') /\ apcs'[Len(apcs')] = [w |-> v, success |-> TRUE]
        BY <4>1, <4>2, QueueGrows
      <4> QED
        BY <2>2, <4>3 DEF Succeeded
    <3>2. ~Succeeded(w) /\ callback.w # w
      BY <1>2, <2>2, IdleCallback DEF Succeeded, Exclusive
    <3>3. Buffer'[w] = recorded[w]
      BY <2>1, <2>2
    <3>4. OnItsWay(w, c) => OnItsWay(w, c)'
      BY <1>2, <3>1, <3>2, <3>3 DEF OnItsWay, Carries
    <3> QED
      BY <3>4, StillAccounted
  <2>3. CASE w # v
    <3>1. Buffer'[w] = Buffer[w] /\ recorded'[w] = recorded[w]
      BY <2>1, <2>3
    <3>2. OnItsWay(w, c) => OnItsWay(w, c)'
      BY <1>2, <1>4, <3>1 DEF OnItsWay, Carries
    <3> QED
      BY <3>2, StillAccounted
  <2> QED
    BY <2>2, <2>3
<1>6. CASE CompleteOverflow(v) \/ CompleteWithError(v)
  <2>1. UNCHANGED <<Buffer, recorded>>
    BY <1>6 DEF CompleteOverflow, CompleteWithError
  <2>2. OnItsWay(w, c) => OnItsWay(w, c)'
    BY <1>2, <1>4, <2>1 DEF OnItsWay, Carries
  <2> QED
    BY <2>2, StillAccounted
<1> QED
  BY <1>5, <1>6

\* A completion is delivered: what its buffer carries is before the callback.
LEMMA DeliverAccounted ==
  ASSUME Types, RecordsTell, OldNameKept, Exclusive, [Next]_vars, DeliverApc,
         NEW w \in Watchers, NEW c, Accounted(w, c)
  PROVE  Accounted(w, c)'
<1>1. /\ callback = Idle /\ callback.w # w
      /\ UNCHANGED <<Buffer, recorded, renaming, history>>
  BY IdleCallback DEF DeliverApc, Alertable, objects, world, ghosts
<1>2. /\ 1 \in 1 .. Len(apcs) /\ Head(apcs) = apcs[1]
      /\ \A i \in 1 .. Len(apcs) :
           i = 1 \/ (i - 1 \in 1 .. Len(apcs') /\ apcs'[i - 1] = apcs[i])
  BY QueueShrinks
<1>3. /\ callback'.w = apcs[1].w
      /\ apcs[1].success => callback'.next = 1
  BY <1>2 DEF DeliverApc
<1>4. CASE Succeeded(w) /\ apcs[1].w = w
  <2>1. apcs[1].success
    BY <1>2, <1>4 DEF Succeeded, Exclusive
  <2>2. callback'.w = w /\ callback'.next = 1
    BY <1>3, <1>4, <2>1
  <2>3. OnItsWay(w, c) => OnItsWay(w, c)'
    BY <1>1, <2>2 DEF OnItsWay, Carries
  <2> QED
    BY <2>3, StillAccounted
<1>5. CASE Succeeded(w) /\ apcs[1].w # w
  <2>1. PICK i \in 1 .. Len(apcs) : apcs[i].w = w /\ apcs[i].success
    BY <1>5 DEF Succeeded
  <2>2. i - 1 \in 1 .. Len(apcs') /\ apcs'[i - 1] = apcs[i]
    BY <1>2, <1>5, <2>1
  <2>3. Succeeded(w)'
    BY <2>1, <2>2 DEF Succeeded
  <2>4. OnItsWay(w, c) => OnItsWay(w, c)'
    BY <1>1, <2>3 DEF OnItsWay, Carries
  <2> QED
    BY <2>4, StillAccounted
<1>6. CASE ~Succeeded(w)
  <2>1. OnItsWay(w, c) => OnItsWay(w, c)'
    BY <1>1, <1>6 DEF OnItsWay, Carries
  <2> QED
    BY <2>1, StillAccounted
<1> QED
  BY <1>4, <1>5, <1>6

\* The callback passes a record: the first half of a rename, or one whose row is
\* written or lost.
LEMMA PassedAccounted ==
  ASSUME Types, RecordsTell, OldNameKept, [Next]_vars, Walking,
         UNCHANGED <<Buffer, recorded, apcs, renaming, history>>,
         callback'.w = callback.w, callback'.next = callback.next + 1,
         NEW w \in Watchers, NEW c, Accounted(w, c),
         \/ TheRecord.action = "RENAMED_OLD_NAME"
         \/ \E i \in 1 .. Len(FILE_LOG') :
              Volume(FILE_LOG'[i]) = callback.w /\ FILE_LOG'[i].change = TheRecord.change
         \/ TheRecord.change \in lost'[callback.w]
  PROVE  Accounted(w, c)'
<1>1. CASE callback.w = w /\ Carries(Buffer[w], callback.next, c)
  <2>1. Buffer[w] \in Seq(Record) /\ callback.next \in Nat
    BY <1>1, AtRecord
  <2>2. \/ Carries(Buffer[w], callback.next + 1, c)
        \/ TheRecord.change = c /\ TheRecord.action # "RENAMED_OLD_NAME"
    BY <1>1, <2>1, CarriesOn DEF TheRecord
  <2>3. CASE Carries(Buffer[w], callback.next + 1, c)
    <3>1. OnItsWay(w, c)'
      BY <1>1, <2>3 DEF OnItsWay, Carries
    <3> QED
      BY <3>1 DEF Accounted
  <2>4. CASE TheRecord.change = c /\ TheRecord.action # "RENAMED_OLD_NAME"
    <3>1. HasRow(w, c)' \/ c \in lost'[w]
      BY <1>1, <2>4 DEF HasRow, Volume
    <3> QED
      BY <3>1 DEF Accounted
  <2> QED
    BY <2>2, <2>3, <2>4
<1>2. CASE ~(callback.w = w /\ Carries(Buffer[w], callback.next, c))
  <2>1. OnItsWay(w, c) => OnItsWay(w, c)'
    BY <1>2 DEF OnItsWay, Carries, Succeeded
  <2> QED
    BY <2>1, StillAccounted
<1> QED
  BY <1>1, <1>2

LEMMA NextAccounted == WatcherInv /\ AllAccounted /\ [Next]_vars => AllAccounted'
<1> SUFFICES ASSUME WatcherInv, AllAccounted, [Next]_vars, pc' \notin {"close", "ended"},
                    NEW w \in Watchers, NEW c \in 1 .. Len(history'[w])
             PROVE  Accounted(w, c)'
  BY DEF AllAccounted
<1> USE DEF objects, kernel, world, ghosts
<1>0. Types /\ Control /\ Exclusive /\ RecordsTell /\ OldNameKept
  BY DEF WatcherInv
<1>1. CASE Close
  BY <1>1 DEF Close, Goto
<1>2. CASE ~Close
  <2>1. pc \notin {"close", "ended"}
    <3>1. CASE Open \/ SetEventHandlers
      BY <3>1 DEF Open, SetEventHandlers
    <3>2. CASE LoopStep
      BY <3>2 DEF LoopStep
    <3>3. CASE UNCHANGED pc
      BY <3>3
    <3>4. ASSUME NEW v \in Watchers,
                 \/ \E h \in Change, r \in Record : Happening(v, h, r)
                 \/ ReportNewName(v) \/ CompleteWithRecords(v)
                 \/ CompleteOverflow(v) \/ CompleteWithError(v)
          PROVE  UNCHANGED pc
      BY <3>4 DEF Happening, ReportNewName, CompleteWithRecords, CompleteOverflow,
                  CompleteWithError, Complete, thread
    <3>5. CASE DeliverApc \/ RememberOldName \/ HandleEvent \/ HandleEventFails \/ DismissBox \/ Repost
      BY <3>5 DEF DeliverApc, RememberOldName, HandleEvent, HandleEventFails, AnEvent,
                  DismissBox, Repost
    <3> QED
      BY <1>0, <1>2, <3>1, <3>2, <3>3, <3>4, <3>5, Steps
  <2>2. c \in 1 .. Len(history[w]) => Accounted(w, c)
    BY <2>1 DEF AllAccounted
  <2>3. ASSUME NEW v \in Watchers, NEW h \in Change, NEW r \in Record, Happening(v, h, r)
        PROVE  Accounted(w, c)'
    BY <1>0, <2>2, <2>3, HappeningAccounted
  <2>4. ASSUME UNCHANGED history PROVE Accounted(w, c)
    BY <2>2, <2>4
  <2>5. ASSUME NEW v \in Watchers, ReportNewName(v) PROVE Accounted(w, c)'
    <3>1. Accounted(w, c)
      BY <2>4, <2>5 DEF ReportNewName
    <3> QED
      BY <1>0, <2>5, <3>1, ReportAccounted
  <2>6. ASSUME NEW v \in Watchers,
               CompleteWithRecords(v) \/ CompleteOverflow(v) \/ CompleteWithError(v)
        PROVE  Accounted(w, c)'
    <3>1. Accounted(w, c)
      BY <2>4, <2>6 DEF CompleteWithRecords, CompleteOverflow, CompleteWithError, Complete
    <3> QED
      BY <1>0, <2>6, <3>1, CompleteAccounted
  <2>7. CASE DeliverApc
    BY <1>0, <2>4, <2>7, DeliverAccounted DEF DeliverApc
  <2>8. CASE RememberOldName
    <3>1. callback'.w = callback.w /\ callback'.next = callback.next + 1
      BY <1>0, <2>8, AtRecord DEF RememberOldName, CallbackState
    <3>2. Accounted(w, c)
      BY <2>4, <2>8 DEF RememberOldName
    <3> QED
      BY <1>0, <2>8, <3>1, <3>2, PassedAccounted DEF RememberOldName
  <2>9. CASE HandleEvent
    <3> DEFINE row == RowOf(callback.w, TheRecord, callback.oldFileName)
    <3>1. AnEvent /\ Walking
      BY <2>9 DEF HandleEvent, AnEvent
    <3>2. callback'.w = callback.w /\ callback'.next = callback.next + 1
      BY <1>0, <3>1, EventTypes
    <3>3. callback.w \in Watchers /\ pc = "sleep" /\ handlers[callback.w]
      BY <1>0, <3>1, AtRecord DEF Control
    <3>4. FILE_LOG' = Append(FILE_LOG, row) /\ FILE_LOG \in Seq(Row)
      BY <1>0, <2>9, <3>3 DEF HandleEvent, Types
    <3>5. row \in Row /\ Volume(row) = callback.w /\ row.change = TheRecord.change
      BY <1>0, <3>1, TheRow
    <3>6. Len(FILE_LOG) + 1 \in 1 .. Len(FILE_LOG') /\ FILE_LOG'[Len(FILE_LOG) + 1] = row
      BY <3>4, <3>5, AppendFacts
    <3>7. \E i \in 1 .. Len(FILE_LOG') :
            Volume(FILE_LOG'[i]) = callback.w /\ FILE_LOG'[i].change = TheRecord.change
      BY <3>5, <3>6
    <3>8. Accounted(w, c)
      BY <2>4, <3>1 DEF AnEvent
    <3> QED
      BY <1>0, <3>1, <3>2, <3>7, <3>8, PassedAccounted DEF AnEvent
  <2>10. CASE HandleEventFails
    <3>1. AnEvent /\ Walking
      BY <2>10 DEF HandleEventFails, AnEvent
    <3>2. callback'.w = callback.w /\ callback'.next = callback.next + 1
      BY <1>0, <3>1, EventTypes
    <3>3. TheRecord.change \in lost'[callback.w]
      BY <1>0, <2>10, <3>1, AtRecord DEF HandleEventFails, Types, VolumeTypes
    <3>4. Accounted(w, c)
      BY <2>4, <3>1 DEF AnEvent
    <3> QED
      BY <1>0, <3>1, <3>2, <3>3, <3>4, PassedAccounted DEF AnEvent
  <2>11. CASE Repost
    <3>1. Accounted(w, c) /\ UNCHANGED <<Buffer, recorded, apcs, renaming, history>>
      BY <2>4, <2>11 DEF Repost
    <3>2. ~(callback.w = w /\ Carries(Buffer[w], callback.next, c))
      <4>1. callback # Idle /\ callback.next > Len(Buffer[callback.w])
        BY <2>11 DEF Repost
      <4>2. callback.next \in Nat /\ callback.w \in Watchers
        BY <1>0, <4>1, RunningCallback DEF Types
      <4>3. Len(Buffer[callback.w]) \in Nat
        BY <1>0, <4>2, Elements DEF Types, BufferTypes
      <4> QED
        BY <4>1, <4>2, <4>3 DEF Carries
    <3>3. OnItsWay(w, c) => OnItsWay(w, c)'
      BY <3>1, <3>2 DEF OnItsWay, Carries, Succeeded
    <3> QED
      BY <1>0, <3>1, <3>3, StillAccounted
  <2>12. CASE DismissBox \/ Open \/ SetEventHandlers \/ LoopStep
    <3>1. UNCHANGED <<callback, Buffer, recorded, apcs, renaming, history>>
      BY <2>12 DEF DismissBox, Open, SetEventHandlers, LoopStep
    <3>2. OnItsWay(w, c) => OnItsWay(w, c)'
      BY <3>1 DEF OnItsWay, Carries, Succeeded
    <3> QED
      BY <1>0, <2>4, <3>1, <3>2, StillAccounted
  <2> QED
    BY <1>0, <1>2, <2>3, <2>5, <2>6, <2>7, <2>8, <2>9, <2>10, <2>11, <2>12, Steps
<1> QED
  BY <1>1, <1>2

LEMMA AlwaysAccounted == Spec => [](WatcherInv /\ AllAccounted)
<1>1. Init => AllAccounted
  BY DEF Init, AllAccounted
<1>2. AllAccounted /\ [Next]_vars /\ WatcherInv => AllAccounted'
  BY NextAccounted
<1> QED
  BY <1>1, <1>2, AlwaysWatcherInv, PTL DEF Spec

\* Until the thread stops no change of an open volume vanishes without a reason, for any
\* number of watchers, changes and faults and for every size of the buffer.
THEOREM NothingVanishesCorrect == Spec => []NothingVanishes
<1>1. WatcherInv /\ AllAccounted => NothingVanishes
  BY AccountedSuffices
<1> QED
  BY <1>1, AlwaysAccounted, PTL

(***************************************************************************)
(* The attributes.  A file that a change left behind under some name is    *)
(* still there, or a later change took it away; so a handler that does not *)
(* find it any more writes a row for a file that is gone.                  *)
(***************************************************************************)
Gone(h, c, name) ==
  \E later \in c + 1 .. Len(h) :
    h[later].op \in {"REMOVED", "RENAMED"} /\ h[later].name = name

LeftBehind(change) == IF change.op = "RENAMED" THEN change.to ELSE change.name

FilesRemain ==
  \A w \in Watchers : \A c \in 1 .. Len(history[w]) :
    history[w][c].op # "REMOVED" =>
      \/ LeftBehind(history[w][c]) \in present[w]
      \/ Gone(history[w], c, LeftBehind(history[w][c]))

GoneRow(row, h) ==
  row.attributes = "all_YES" =>
    row.NEW_FILE_NAME = Mangled \/ Gone(h, row.change, row.NEW_FILE_NAME)

GoneRows == \A i \in 1 .. Len(FILE_LOG) : GoneRow(FILE_LOG[i], history[Volume(FILE_LOG[i])])

LEMMA GoneLater ==
  ASSUME NEW h, NEW g, NEW c, NEW name, Len(h) \in Nat, Len(g) \in Nat, Len(h) <= Len(g),
         c \in Nat, \A i \in 1 .. Len(h) : g[i] = h[i], Gone(h, c, name)
  PROVE  Gone(g, c, name)
BY DEF Gone

LEMMA NextFiles == Types /\ FilesRemain /\ [Next]_vars => FilesRemain'
<1> SUFFICES ASSUME Types, FilesRemain, [Next]_vars PROVE FilesRemain'
  OBVIOUS
<1> USE DEF world, ghosts
<1>1. ASSUME NEW w \in Watchers, NEW c \in Change, NEW r \in Record, Happening(w, c, r)
      PROVE  FilesRemain'
  <2>1. /\ history[w] \in Seq(Change) /\ history'[w] = Append(history[w], c)
        /\ \A v \in Watchers : v # w => history'[v] = history[v] /\ present'[v] = present[v]
        /\ \A n \in present[w] \ present'[w] : c.op \in {"REMOVED", "RENAMED"} /\ c.name = n
        /\ c.op \in {"ADDED", "MODIFIED"} => c.name \in present'[w]
        /\ c.op = "RENAMED" => c.to \in present'[w]
        /\ c.op \in {"ADDED", "REMOVED", "MODIFIED", "RENAMED"}
    BY <1>1 DEF Happening, Types, VolumeTypes, Change
  <2>2. /\ Len(history[w]) \in Nat /\ Len(history'[w]) = Len(history[w]) + 1
        /\ \A i \in 1 .. Len(history[w]) : history'[w][i] = history[w][i]
        /\ history'[w][Len(history[w]) + 1] = c
        /\ \A i \in 1 .. Len(history'[w]) : i \in 1 .. Len(history[w]) \/ i = Len(history[w]) + 1
    BY <2>1, AppendFacts
  <2> SUFFICES ASSUME NEW k \in 1 .. Len(history'[w]), history'[w][k].op # "REMOVED"
               PROVE  \/ LeftBehind(history'[w][k]) \in present'[w]
                      \/ Gone(history'[w], k, LeftBehind(history'[w][k]))
    BY <2>1 DEF FilesRemain
  <2>3. CASE k = Len(history[w]) + 1
    BY <2>1, <2>2, <2>3 DEF LeftBehind
  <2>4. CASE k \in 1 .. Len(history[w])
    <3> DEFINE n == LeftBehind(history[w][k])
    <3>1. history'[w][k] = history[w][k]
      BY <2>2, <2>4
    <3>2. n \in present[w] \/ Gone(history[w], k, n)
      BY <2>4, <3>1 DEF FilesRemain
    <3>3. CASE Gone(history[w], k, n)
      <4>1. Gone(history'[w], k, n)
        BY <2>2, <2>4, <3>3, GoneLater
      <4> QED
        BY <3>1, <4>1
    <3>4. CASE n \in present[w] /\ n \notin present'[w]
      <4>1. Len(history[w]) + 1 \in k + 1 .. Len(history'[w])
        BY <2>2, <2>4
      <4>2. Gone(history'[w], k, n)
        BY <2>1, <2>2, <3>4, <4>1 DEF Gone
      <4> QED
        BY <3>1, <4>2
    <3> QED
      BY <3>1, <3>2, <3>3, <3>4
  <2> QED
    BY <2>2, <2>3, <2>4
<1>2. CASE UNCHANGED <<present, history>>
  BY <1>2 DEF FilesRemain
<1>3. ASSUME NEW w \in Watchers,
             \/ ReportNewName(w) \/ CompleteWithRecords(w)
             \/ CompleteOverflow(w) \/ CompleteWithError(w)
      PROVE  UNCHANGED <<present, history>>
  BY <1>3 DEF ReportNewName, CompleteWithRecords, CompleteOverflow, CompleteWithError, Complete
<1>4. CASE DeliverApc \/ RememberOldName \/ HandleEvent \/ HandleEventFails \/ DismissBox \/ Repost
  BY <1>2, <1>4 DEF DeliverApc, RememberOldName, HandleEvent, HandleEventFails, AnEvent,
                    DismissBox, Repost
<1>5. CASE Open \/ SetEventHandlers \/ Close \/ LoopStep
  BY <1>2, <1>5 DEF Open, SetEventHandlers, Close, LoopStep
<1> QED
  BY <1>1, <1>2, <1>3, <1>4, <1>5, Steps

\* The row of the record that the callback is at.
LEMMA TheRowGone ==
  ASSUME Types, RecordsTell, FilesRemain, AnEvent
  PROVE  GoneRow(RowOf(callback.w, TheRecord, callback.oldFileName), history[callback.w])
<1> DEFINE w == callback.w
           r == TheRecord
           row == RowOf(w, r, callback.oldFileName)
           c == history[w][r.change]
<1>1. Walking /\ r.action # "RENAMED_OLD_NAME"
  BY DEF AnEvent
<1>2. w \in Watchers /\ r \in Record /\ Tells(r, history[w]) /\ history[w] \in Seq(Change)
  BY <1>1, AtRecord DEF RecordsTell, AllTell, TheRecord, Types, VolumeTypes
<1>3. r.change \in 1 .. Len(history[w])
  BY <1>2, Elements, WatcherNumbers DEF Tells, Record
<1>4. c \in Change
  BY <1>2, <1>3, Elements
<1>5. /\ row.change = r.change /\ row.NEW_FILE_NAME = ExtractFileName(r.name)
      /\ row.attributes = Attributes(r.action, GetFullPath(w, r.name))
  BY DEF RowOf, GetFullPath, Combine
<1> SUFFICES ASSUME row.attributes = "all_YES", ExtractFileName(r.name) # Mangled
             PROVE  Gone(history[w], r.change, r.name) /\ ExtractFileName(r.name) = r.name
  BY <1>5 DEF GoneRow
<1>6. ExtractFileName(r.name) = r.name
  BY DEF ExtractFileName
<1>7. r.action # "REMOVED" /\ r.name \notin present[w]
  BY <1>5, <1>6 DEF Attributes, ShowAttributes, GetFullPath, Combine
<1>8. c.op # "REMOVED" /\ LeftBehind(c) = r.name
  BY <1>1, <1>2, <1>4, <1>7 DEF Tells, LeftBehind, Change
<1>9. Gone(history[w], r.change, r.name)
  BY <1>2, <1>3, <1>7, <1>8 DEF FilesRemain
<1> QED
  BY <1>6, <1>9

LEMMA NextGoneRows ==
  WatcherInv /\ FilesRemain /\ GoneRows /\ [Next]_vars => GoneRows'
<1> SUFFICES ASSUME WatcherInv, FilesRemain, GoneRows, [Next]_vars PROVE GoneRows'
  OBVIOUS
<1>0. Types /\ RecordsTell /\ OldNameKept /\ RowsTell
  BY DEF WatcherInv
<1>1. HistoryGrows
  BY <1>0, NextHistory
<1>2. ASSUME NEW i \in 1 .. Len(FILE_LOG)
      PROVE  GoneRow(FILE_LOG[i], history'[Volume(FILE_LOG[i])])
  <2> DEFINE row == FILE_LOG[i]
             w == Volume(row)
  <2>1. GoneRow(row, history[w]) /\ w \in Watchers /\ row.change \in Nat
    BY <1>0, <1>2, RowsOfVolumes DEF GoneRows
  <2>2. /\ Len(history[w]) \in Nat /\ Len(history'[w]) \in Nat
        /\ Len(history[w]) <= Len(history'[w])
        /\ \A k \in 1 .. Len(history[w]) : history'[w][k] = history[w][k]
    BY <1>1, <2>1 DEF HistoryGrows
  <2>3. Gone(history[w], row.change, row.NEW_FILE_NAME)
          => Gone(history'[w], row.change, row.NEW_FILE_NAME)
    BY <2>1, <2>2, GoneLater
  <2> QED
    BY <2>1, <2>3 DEF GoneRow
<1>3. CASE UNCHANGED FILE_LOG
  BY <1>2, <1>3 DEF GoneRows, Volume
<1>4. CASE HandleEvent /\ FILE_LOG' = Append(FILE_LOG, RowOf(callback.w, TheRecord, callback.oldFileName))
  <2> DEFINE row == RowOf(callback.w, TheRecord, callback.oldFileName)
  <2>1. AnEvent /\ UNCHANGED history
    BY <1>4 DEF HandleEvent, AnEvent
  <2>2. row \in Row /\ Volume(row) = callback.w /\ GoneRow(row, history[Volume(row)])
    BY <1>0, <2>1, TheRow, TheRowGone
  <2>3. /\ \A i \in 1 .. Len(FILE_LOG') : i \in 1 .. Len(FILE_LOG) \/ i = Len(FILE_LOG) + 1
        /\ \A i \in 1 .. Len(FILE_LOG) : FILE_LOG'[i] = FILE_LOG[i]
        /\ FILE_LOG'[Len(FILE_LOG) + 1] = row
    <3>1. FILE_LOG \in Seq(Row)
      BY <1>0 DEF Types
    <3> QED
      BY <1>4, <2>2, <3>1, AppendFacts
  <2>4. UNCHANGED history
    BY <2>1
  <2> QED
    BY <2>2, <2>3, <2>4 DEF GoneRows
<1> QED
  BY <1>0, <1>3, <1>4, RowsWritten

\* A row with all flags set is one of a file that is gone or whose name did not survive
\* the conversion, for any number of watchers, names, changes and faults.
THEOREM AllYesCorrect == Spec => []AllYesMeansGone
<1>1. Init => FilesRemain /\ GoneRows
  BY DEF Init, FilesRemain, GoneRows
<1>2. WatcherInv /\ FilesRemain /\ GoneRows /\ [Next]_vars => (FilesRemain /\ GoneRows)'
  BY NextFiles, NextGoneRows DEF WatcherInv
<1>3. WatcherInv /\ GoneRows => AllYesMeansGone
  <2> SUFFICES ASSUME WatcherInv, GoneRows, NEW i \in 1 .. Len(FILE_LOG),
                      FILE_LOG[i].attributes = "all_YES"
               PROVE  LET row == FILE_LOG[i]
                      IN  \/ row.NEW_FILE_NAME = Mangled
                          \/ \E later \in row.change + 1 .. Len(history[Volume(row)]) :
                               LET change == history[Volume(row)][later]
                               IN  /\ change.op \in {"REMOVED", "RENAMED"}
                                   /\ change.name = row.NEW_FILE_NAME
    BY DEF AllYesMeansGone, Rows
  <2> QED
    BY DEF GoneRows, GoneRow, Gone
<1> QED
  BY <1>1, <1>2, <1>3, AlwaysWatcherInv, PTL DEF Spec

(***************************************************************************)
(* Induction over the natural numbers, for sets of them.                   *)
(***************************************************************************)
LEMMA Smallest ==
  ASSUME NEW T, T \subseteq Nat, T # {}
  PROVE  \E n \in T : \A m \in T : n <= m
<1> DEFINE R == OpToRel(<, Nat)
<1>1. IsWellFoundedOn(R, Nat)
  BY NatLessThanWellFounded
<1>2. \A m, n \in Nat : m < n => <<m, n>> \in R
  BY DEF OpToRel
<1> HIDE DEF R
<1>3. PICK n \in T : \A m \in T : ~(<<m, n>> \in R)
  BY <1>1, WFMin
<1>4. ASSUME NEW m \in T PROVE n <= m
  <2>1. m \in Nat /\ n \in Nat /\ ~(<<m, n>> \in R)
    BY <1>3
  <2>2. ~(m < n)
    BY <1>2, <2>1
  <2> QED
    BY <2>1, <2>2
<1> QED
  BY <1>4

LEMMA AllNumbers ==
  ASSUME NEW S, 0 \in S, \A n \in Nat : n \in S => n + 1 \in S
  PROVE  \A n \in Nat : n \in S
<1> DEFINE T == Nat \ S
<1> SUFFICES ASSUME T # {} PROVE FALSE
  OBVIOUS
<1>1. PICK n \in T : \A m \in T : n <= m
  BY Smallest
<1>2. n # 0 /\ n - 1 \in Nat /\ n = (n - 1) + 1
  OBVIOUS
<1>3. n - 1 \in S
  BY <1>1, <1>2
<1> QED
  BY <1>2, <1>3

(***************************************************************************)
(* The recursion that computes a trail: f[i] is the trail of the first i   *)
(* rows.                                                                   *)
(***************************************************************************)
Step(rows, w, trail, i) ==
  IF Volume(rows[i]) = w THEN Append(trail, rows[i].change) ELSE trail

TrailsOf(f, rows, w, n) ==
  f = [i \in 0 .. n |-> IF i = 0 THEN <<>> ELSE Step(rows, w, f[i - 1], i)]

LEMMA LoggedIsChosen ==
  \A rows, w : LoggedChanges(rows, w) =
                 (CHOOSE f : TrailsOf(f, rows, w, Len(rows)))[Len(rows)]
BY DEF LoggedChanges, TrailsOf, Step

LEMMA TrailsValues ==
  ASSUME NEW f, NEW rows, NEW w, NEW n \in Nat, TrailsOf(f, rows, w, n)
  PROVE  /\ DOMAIN f = 0 .. n /\ f = [i \in 0 .. n |-> f[i]]
         /\ f[0] = <<>>
         /\ \A i \in 1 .. n : f[i] = Step(rows, w, f[i - 1], i)
<1>1. f = [i \in 0 .. n |-> IF i = 0 THEN <<>> ELSE Step(rows, w, f[i - 1], i)]
  BY DEF TrailsOf
<1> HIDE DEF Step
<1>2. DOMAIN f = 0 .. n /\ f = [i \in 0 .. n |-> f[i]] /\ 0 \in 0 .. n
  BY <1>1
<1>3. f[0] = <<>>
  BY <1>1, <1>2
<1>4. ASSUME NEW i \in 1 .. n PROVE f[i] = Step(rows, w, f[i - 1], i)
  <2>1. i \in 0 .. n /\ i # 0
    OBVIOUS
  <2> QED
    BY <1>1, <2>1
<1> QED
  BY <1>2, <1>3, <1>4

\* There is such a function.
LEMMA TrailsExtend ==
  ASSUME NEW f, NEW rows, NEW w, NEW n \in Nat, TrailsOf(f, rows, w, n)
  PROVE  TrailsOf([i \in 0 .. n + 1 |-> IF i = n + 1 THEN Step(rows, w, f[n], n + 1) ELSE f[i]],
                  rows, w, n + 1)
<1> DEFINE g == [i \in 0 .. n + 1 |-> IF i = n + 1 THEN Step(rows, w, f[n], n + 1) ELSE f[i]]
           h == [i \in 0 .. n + 1 |-> IF i = 0 THEN <<>> ELSE Step(rows, w, g[i - 1], i)]
<1>1. /\ f[0] = <<>> /\ \A i \in 1 .. n : f[i] = Step(rows, w, f[i - 1], i)
  BY TrailsValues
<1>2. ASSUME NEW i \in 0 .. n + 1 PROVE g[i] = h[i]
  <2>1. CASE i = 0
    BY <1>1, <2>1
  <2>2. CASE i \in 1 .. n
    <3>1. i # 0 /\ i # n + 1 /\ i - 1 \in 0 .. n + 1 /\ i - 1 # n + 1
      BY <2>2
    <3> QED
      BY <1>1, <2>2, <3>1
  <2>3. CASE i = n + 1
    <3>1. i # 0 /\ i - 1 = n /\ n \in 0 .. n + 1 /\ n # n + 1
      BY <2>3
    <3> QED
      BY <2>3, <3>1
  <2> QED
    BY <2>1, <2>2, <2>3
<1>3. g = h
  BY <1>2
<1> QED
  BY <1>3 DEF TrailsOf

LEMMA TrailsExist ==
  ASSUME NEW rows, NEW w, NEW n \in Nat
  PROVE  \E f : TrailsOf(f, rows, w, n)
<1> DEFINE S == {m \in Nat : \E f : TrailsOf(f, rows, w, m)}
<1>1. 0 \in S
  <2>1. TrailsOf([i \in 0 .. 0 |-> <<>>], rows, w, 0)
    BY DEF TrailsOf
  <2> QED
    BY <2>1
<1>2. ASSUME NEW m \in Nat, m \in S PROVE m + 1 \in S
  <2>1. PICK f : TrailsOf(f, rows, w, m)
    BY <1>2
  <2>2. \E g : TrailsOf(g, rows, w, m + 1)
    BY <2>1, TrailsExtend, Zenon
  <2> QED
    BY <2>2
<1>3. n \in S
  BY <1>1, <1>2, AllNumbers
<1> QED
  BY <1>3

\* And two of them agree, on all that they have in common.
LEMMA TrailsAgree ==
  ASSUME NEW f, NEW g, NEW rows, NEW more, NEW w, NEW n \in Nat, NEW m \in Nat, n <= m,
         TrailsOf(f, rows, w, n), TrailsOf(g, more, w, m),
         \A i \in 1 .. n : more[i] = rows[i]
  PROVE  \A i \in 0 .. n : f[i] = g[i]
<1> DEFINE S == {i \in Nat : i <= n => f[i] = g[i]}
<1>1. /\ f[0] = <<>> /\ \A i \in 1 .. n : f[i] = Step(rows, w, f[i - 1], i)
      /\ g[0] = <<>> /\ \A i \in 1 .. m : g[i] = Step(more, w, g[i - 1], i)
  BY TrailsValues
<1>2. 0 \in S
  BY <1>1
<1>3. ASSUME NEW i \in Nat, i \in S PROVE i + 1 \in S
  <2>1. CASE i + 1 <= n
    <3>1. i + 1 \in 1 .. n /\ i + 1 \in 1 .. m /\ (i + 1) - 1 = i /\ f[i] = g[i]
      BY <1>3, <2>1
    <3>2. f[i + 1] = Step(rows, w, f[i], i + 1) /\ g[i + 1] = Step(more, w, g[i], i + 1)
      BY <1>1, <3>1
    <3>3. more[i + 1] = rows[i + 1]
      BY <3>1
    <3> QED
      BY <3>1, <3>2, <3>3 DEF Step
  <2> QED
    BY <2>1
<1>4. \A i \in Nat : i \in S
  BY <1>2, <1>3, AllNumbers
<1> QED
  BY <1>4

(***************************************************************************)
(* So a row adds its change to the trail of its volume, and the trail of   *)
(* no other.                                                               *)
(***************************************************************************)
LEMMA NoRowsLogged == \A w : LoggedChanges(<<>>, w) = <<>>
<1> SUFFICES ASSUME NEW w PROVE LoggedChanges(<<>>, w) = <<>>
  OBVIOUS
<1> DEFINE f == CHOOSE g : TrailsOf(g, <<>>, w, 0)
<1>1. Len(<<>>) = 0
  OBVIOUS
<1>2. TrailsOf(f, <<>>, w, 0)
  BY TrailsExist
<1>3. f[0] = <<>>
  BY <1>2, TrailsValues
<1> QED
  BY <1>1, <1>3, LoggedIsChosen

LEMMA RowLogged ==
  ASSUME NEW R, NEW rows \in Seq(R), NEW row \in R, NEW w
  PROVE  LoggedChanges(Append(rows, row), w) =
           IF Volume(row) = w THEN Append(LoggedChanges(rows, w), row.change)
                              ELSE LoggedChanges(rows, w)
<1> DEFINE more == Append(rows, row)
           n == Len(rows)
           f == CHOOSE h : TrailsOf(h, rows, w, Len(rows))
           g == CHOOSE h : TrailsOf(h, more, w, Len(more))
<1>1. /\ n \in Nat /\ Len(more) = n + 1 /\ more[n + 1] = row
      /\ \A i \in 1 .. n : more[i] = rows[i]
  BY AppendProperties, LenProperties
<1>2. TrailsOf(f, rows, w, n) /\ TrailsOf(g, more, w, n + 1)
  <2>1. n + 1 \in Nat
    BY <1>1
  <2>2. (\E h : TrailsOf(h, rows, w, n)) /\ \E h : TrailsOf(h, more, w, n + 1)
    BY <1>1, <2>1, TrailsExist
  <2> QED
    BY <1>1, <2>2
<1> HIDE DEF more, f, g
<1>3. f[n] = g[n]
  <2>1. n + 1 \in Nat /\ n <= n + 1 /\ n \in 0 .. n
    BY <1>1
  <2>2. \A i \in 0 .. n : f[i] = g[i]
    BY <1>1, <1>2, <2>1, TrailsAgree
  <2> QED
    BY <2>1, <2>2
<1>4. g[n + 1] = Step(more, w, g[n], n + 1)
  <2>1. n + 1 \in 1 .. n + 1 /\ (n + 1) - 1 = n /\ n + 1 \in Nat
    BY <1>1
  <2>2. \A i \in 1 .. n + 1 : g[i] = Step(more, w, g[i - 1], i)
    BY <1>2, <2>1, TrailsValues
  <2> QED
    BY <2>1, <2>2
<1>5. LoggedChanges(rows, w) = f[n] /\ LoggedChanges(more, w) = g[n + 1]
  BY <1>1, LoggedIsChosen DEF f, g
<1> QED
  BY <1>1, <1>3, <1>4, <1>5 DEF Step, more

(***************************************************************************)
(* AuditTrail, with what is proved about it.                               *)
(***************************************************************************)
TrailFacts == INSTANCE AuditTrail_proofs WITH
  Volumes <- Watchers,
  happened <- [w \in Watchers |-> Len(history[w])],
  logged <- [w \in Watchers |-> LoggedChanges(FILE_LOG, w)],
  broken <- [w \in Watchers |-> lost[w] # {}]

LEMMA SameCardinality == \A S : Trail!Cardinality(S) = TrailFacts!Cardinality(S)
BY Zenon DEF Trail!Cardinality, TrailFacts!Cardinality

LEMMA SameStepsBack == \A t : Trail!StepsBack(t) = TrailFacts!StepsBack(t)
BY SameCardinality, Zenon DEF Trail!StepsBack, TrailFacts!StepsBack

LEMMA SameRowsOf == \A t, c : Trail!RowsOf(t, c) = TrailFacts!RowsOf(t, c)
BY SameCardinality, Zenon DEF Trail!RowsOf, TrailFacts!RowsOf

LEMMA TrailStepsNumber ==
  ASSUME NEW t \in Seq(Nat \ {0})
  PROVE  Trail!StepsBack(t) \in Nat
<1>1. t \in TrailFacts!Trails
  BY DEF TrailFacts!Trails
<1> QED
  BY <1>1, SameStepsBack, TrailFacts!BacksFinite

\* A row is a step back if its change is not a later one than that of the row before.
LEMMA TrailStepsBack ==
  ASSUME NEW t \in Seq(Nat \ {0}), NEW c \in Nat \ {0}
  PROVE  Trail!StepsBack(Append(t, c)) =
           Trail!StepsBack(t) + (IF t # <<>> /\ c <= t[Len(t)] THEN 1 ELSE 0)
<1>1. t \in TrailFacts!Trails
  BY DEF TrailFacts!Trails
<1>2. TrailFacts!StepsBack(Append(t, c)) =
        TrailFacts!StepsBack(t) + (IF t # <<>> /\ c <= t[Len(t)] THEN 1 ELSE 0)
  BY <1>1, TrailFacts!StepBack
<1> QED
  BY <1>2, SameStepsBack

(***************************************************************************)
(* The trail of each volume.                                               *)
(***************************************************************************)
Logged(w) == LoggedChanges(FILE_LOG, w)

\* The records that a handler writes a row for.
Event(r) == r.action # "RENAMED_OLD_NAME"

\* The events of a buffer tell of ever later changes.
Rising(s) ==
  \A i, j \in 1 .. Len(s) : i < j /\ Event(s[i]) /\ Event(s[j]) => s[i].change < s[j].change

\* The rows tell of changes that happened.
Past(w) == \A k \in 1 .. Len(Logged(w)) : Logged(w)[k] <= Len(history[w])

\* Nothing tells of change n or of a later one, except the first half of a rename.
Below(w, n) ==
  /\ \A k \in 1 .. Len(Logged(w)) : Logged(w)[k] < n
  /\ \A k \in 1 .. Len(Buffer[w]) : Event(Buffer[w][k]) => Buffer[w][k].change < n
  /\ \A k \in 1 .. Len(recorded[w]) : Event(recorded[w][k]) => recorded[w][k].change < n

\* While a rename is half reported, nothing tells of it.
HalfTold(w) == renaming[w] => Below(w, Len(history[w]))

\* What is recorded came after all that has a row or was handed over in the buffer.
RowsFirst(w) ==
  \A i \in 1 .. Len(Logged(w)) : \A k \in 1 .. Len(recorded[w]) :
    Event(recorded[w][k]) => Logged(w)[i] < recorded[w][k].change

BufferFirst(w) ==
  \A i \in 1 .. Len(Buffer[w]) : \A k \in 1 .. Len(recorded[w]) :
    Event(Buffer[w][i]) /\ Event(recorded[w][k]) => Buffer[w][i].change < recorded[w][k].change

\* The trail is that of the rows.
LoggedRows(w) ==
  /\ Logged(w) \in Seq(Nat \ {0})
  /\ \A i \in 1 .. Len(FILE_LOG) : Volume(FILE_LOG[i]) = w =>
       \E k \in 1 .. Len(Logged(w)) : Logged(w)[k] = FILE_LOG[i].change

\* An overflow loses something.
OverflowLoses(w) == lost[w] = {} => overflows[w] = 0 /\ ~overflowed[w]

\* What is still to be walked is ahead of the last row, or one more step back can be
\* paid for: the buffer is read again after an overflow.
Ahead(w, from) ==
  Logged(w) # <<>> =>
    \A k \in from .. Len(Buffer[w]) :
      Event(Buffer[w][k]) => Logged(w)[Len(Logged(w))] < Buffer[w][k].change

Paid(w) == Trail!StepsBack(Logged(w)) <= overflows[w]
Affordable(w) == Trail!StepsBack(Logged(w)) < overflows[w]

ToWalk(w) ==
  /\ Succeeded(w) => Ahead(w, 1) \/ Affordable(w)
  /\ callback.w = w => Ahead(w, callback.next) \/ Affordable(w)

Exact(w) == lost[w] = {} => \A k \in 1 .. Len(Logged(w)) : Logged(w)[k] = k

\* All of it, for one volume.
Standing(w) ==
  /\ Rising(Buffer[w]) /\ Rising(recorded[w])
  /\ Past(w) /\ HalfTold(w) /\ RowsFirst(w) /\ BufferFirst(w)
  /\ LoggedRows(w) /\ OverflowLoses(w) /\ Paid(w) /\ Exact(w)

TrailInv == \A w \in Watchers : Standing(w) /\ ToWalk(w)

LEMMA InitTrail == Init => TrailInv
<1> SUFFICES ASSUME Init, NEW w \in Watchers PROVE Standing(w) /\ ToWalk(w)
  BY DEF TrailInv
<1>1. /\ FILE_LOG = <<>> /\ Buffer[w] = <<>> /\ recorded[w] = <<>> /\ apcs = <<>>
      /\ callback = Idle /\ ~renaming[w] /\ overflows[w] = 0 /\ ~overflowed[w]
  BY DEF Init
<1>2. Len(<<>>) = 0 /\ <<>> \in Seq(Nat \ {0})
  BY EmptySeq
<1>3. Logged(w) = <<>>
  BY <1>1, NoRowsLogged DEF Logged
<1>4. Paid(w)
  <2>1. Trail!StepsBack(<<>>) = 0
    BY SameStepsBack, TrailFacts!EmptyCounts
  <2> QED
    BY <1>1, <1>3, <2>1 DEF Paid
<1>5. Standing(w)
  BY <1>1, <1>2, <1>3, <1>4 DEF Standing, Rising, Past, HalfTold, RowsFirst, BufferFirst,
                                LoggedRows, OverflowLoses, Exact
<1>6. ToWalk(w)
  BY <1>1, <1>2, IdleCallback DEF ToWalk, Succeeded
<1> QED
  BY <1>5, <1>6

(***************************************************************************)
(* Steps that write no row and leave alone what is known of a volume.      *)
(***************************************************************************)
LEMMA StandingFrame ==
  ASSUME NEW w \in Watchers, Standing(w), UNCHANGED FILE_LOG,
         Buffer'[w] = Buffer[w], recorded'[w] = recorded[w], history'[w] = history[w],
         renaming'[w] = renaming[w], overflows'[w] = overflows[w],
         overflowed'[w] => overflowed[w], lost[w] \subseteq lost'[w]
  PROVE  Standing(w)'
<1>1. Logged(w)' = Logged(w)
  BY DEF Logged
<1>2. lost'[w] = {} => lost[w] = {}
  OBVIOUS
<1>3. Rising(Buffer[w])' /\ Rising(recorded[w])' /\ BufferFirst(w)'
  BY DEF Standing, Rising, BufferFirst
<1>4. Past(w)' /\ HalfTold(w)' /\ RowsFirst(w)'
  BY <1>1 DEF Standing, Past, HalfTold, Below, RowsFirst
<1>5. LoggedRows(w)' /\ Paid(w)'
  BY <1>1 DEF Standing, LoggedRows, Paid, Volume
<1>6. OverflowLoses(w)' /\ Exact(w)'
  BY <1>1, <1>2 DEF Standing, OverflowLoses, Exact
<1> QED
  BY <1>3, <1>4, <1>5, <1>6 DEF Standing

LEMMA ToWalkFrame ==
  ASSUME NEW w \in Watchers, ToWalk(w), UNCHANGED FILE_LOG, Buffer'[w] = Buffer[w],
         overflows'[w] = overflows[w], Succeeded(w)' => Succeeded(w),
         callback'.w = w => callback.w = w /\ callback'.next = callback.next
  PROVE  ToWalk(w)'
<1>1. Logged(w)' = Logged(w)
  BY DEF Logged
<1> QED
  BY <1>1 DEF ToWalk, Ahead, Affordable

(***************************************************************************)
(* A record is notified: those that are kept rise.                         *)
(***************************************************************************)
\* The facts about the types of one volume that the steps below need.
LEMMA VolumeFacts ==
  ASSUME Types, NEW w \in Watchers
  PROVE  /\ recorded[w] \in Seq(Record) /\ Len(recorded[w]) \in Nat
         /\ Buffer[w] \in Seq(Record) /\ Len(Buffer[w]) \in Nat
         /\ history[w] \in Seq(Change) /\ Len(history[w]) \in Nat
         /\ overflows[w] \in Nat /\ lost[w] \subseteq Nat
         /\ \A i \in 1 .. Len(recorded[w]) :
              recorded[w][i].change \in Nat /\ recorded[w][i].change > 0
         /\ \A i \in 1 .. Len(Buffer[w]) :
              Buffer[w][i].change \in Nat /\ Buffer[w][i].change > 0
<1>1. recorded[w] \in Seq(Record) /\ Buffer[w] \in Seq(Record) /\ history[w] \in Seq(Change)
  BY DEF Types, BufferTypes, VolumeTypes
<1>2. /\ Len(recorded[w]) \in Nat /\ Len(Buffer[w]) \in Nat /\ Len(history[w]) \in Nat
      /\ \A i \in 1 .. Len(recorded[w]) : recorded[w][i] \in Record
      /\ \A i \in 1 .. Len(Buffer[w]) : Buffer[w][i] \in Record
  BY <1>1, Elements
<1>3. \A r \in Record : r.change \in Nat /\ r.change > 0
  BY WatcherNumbers DEF Record
<1>4. overflows[w] \in Nat /\ lost[w] \subseteq Nat
  BY WatcherNumbers DEF Types, VolumeTypes
<1> QED
  BY <1>1, <1>2, <1>3, <1>4

\* Whatever tells of a change tells of one that happened.
LEMMA AllBelow ==
  ASSUME Types, RecordsTell, NEW w \in Watchers, Standing(w)
  PROVE  Below(w, Len(history[w]) + 1)
<1>1. Len(history[w]) \in Nat /\ Logged(w) \in Seq(Nat \ {0})
  BY VolumeFacts DEF Standing, LoggedRows
<1>2. \A k \in 1 .. Len(Logged(w)) : Logged(w)[k] \in Nat /\ Logged(w)[k] <= Len(history[w])
  BY <1>1, Elements DEF Standing, Past
<1>3. /\ \A k \in 1 .. Len(Buffer[w]) :
           Buffer[w][k].change \in Nat /\ Buffer[w][k].change <= Len(history[w])
      /\ \A k \in 1 .. Len(recorded[w]) :
           recorded[w][k].change \in Nat /\ recorded[w][k].change <= Len(history[w])
  BY VolumeFacts DEF RecordsTell, AllTell, Tells
<1>4. \A n \in Nat : n <= Len(history[w]) => n < Len(history[w]) + 1
  BY <1>1
<1> QED
  BY <1>2, <1>3, <1>4 DEF Below

\* What the notification of record r loses.
LEMMA NotifyLoses ==
  ASSUME Types, NEW w \in Watchers, NEW r \in Record, Notify(w, r)
  PROVE  /\ \A v \in Watchers : v # w => lost'[v] = lost[v] /\ overflowed'[v] = overflowed[v]
         /\ lost[w] \subseteq lost'[w]
         /\ lost'[w] = {} => Kept(w, r) /\ overflowed'[w] = overflowed[w]
<1>1. overflowed \in [Watchers -> BOOLEAN] /\ lost \in [Watchers -> SUBSET (1 .. MaxChanges)]
  BY DEF Types, ThreadTypes, VolumeTypes
<1>2. lost[w] \subseteq lost'[w] /\ (Forgotten(w, r) \/ Kept(w, r))
  BY NotifyEffect
<1>3. CASE overflowed[w] \/ Len(recorded[w]) >= Capacity
  BY <1>1, <1>2, <1>3 DEF Notify
<1>4. CASE ~(overflowed[w] \/ Len(recorded[w]) >= Capacity)
  <2>1. UNCHANGED <<overflowed, lost>>
    BY <1>4 DEF Notify
  <2>2. lost'[w] = {} => ~Forgotten(w, r)
    BY DEF Forgotten
  <2> QED
    BY <1>2, <2>1, <2>2
<1> QED
  BY <1>3, <1>4

\* The records of a volume rise with a record that tells of a new change.
LEMMA RisingMore ==
  ASSUME NEW s \in Seq(Record), NEW r \in Record, Rising(s),
         Event(r) => \A k \in 1 .. Len(s) : Event(s[k]) => s[k].change < r.change
  PROVE  Rising(Append(s, r))
<1>1. /\ Len(s) \in Nat /\ Len(Append(s, r)) = Len(s) + 1
      /\ \A i \in 1 .. Len(s) : Append(s, r)[i] = s[i]
      /\ Append(s, r)[Len(s) + 1] = r
      /\ \A i \in 1 .. Len(Append(s, r)) : i \in 1 .. Len(s) \/ i = Len(s) + 1
  BY AppendFacts
<1> DEFINE t == Append(s, r)
<1> HIDE DEF t
<1> SUFFICES ASSUME NEW i \in 1 .. Len(t), NEW j \in 1 .. Len(t), i < j, Event(t[i]), Event(t[j])
             PROVE  t[i].change < t[j].change
  BY DEF Rising, t
<1>2. i \in 1 .. Len(s) /\ t[i] = s[i]
  BY <1>1 DEF t
<1>3. CASE j \in 1 .. Len(s)
  BY <1>1, <1>2, <1>3 DEF Rising, t
<1>4. CASE j = Len(s) + 1
  BY <1>1, <1>2, <1>4 DEF t
<1> QED
  BY <1>1, <1>3, <1>4 DEF t

LEMMA NotifyStanding ==
  ASSUME Types, NEW w \in Watchers, Standing(w), NEW r \in Record, Notify(w, r),
         UNCHANGED <<Buffer, FILE_LOG, overflows>>,
         Event(r) => Below(w, r.change),
         Len(history[w]) <= Len(history'[w]), Len(history'[w]) \in Nat,
         HalfTold(w)'
  PROVE  Standing(w)'
<1>1. /\ recorded'[w] = <<>> \/ recorded'[w] = Append(recorded[w], r)
      /\ lost[w] \subseteq lost'[w]
      /\ lost'[w] = {} => overflowed'[w] = overflowed[w]
  BY NotifyEffect, NotifyLoses DEF Forgotten, Kept
<1>2. Logged(w)' = Logged(w) /\ Logged(w) \in Seq(Nat \ {0})
  BY DEF Logged, Standing, LoggedRows
<1>3. /\ \A k \in 1 .. Len(Logged(w)) : Logged(w)[k] \in Nat
      /\ recorded[w] \in Seq(Record) /\ Len(history[w]) \in Nat
  BY <1>2, Elements, VolumeFacts
<1>4. Past(w)'
  BY <1>2, <1>3 DEF Standing, Past
<1>5. LoggedRows(w)' /\ Paid(w)' /\ OverflowLoses(w)' /\ Exact(w)'
  <2>1. lost'[w] = {} => lost[w] = {}
    BY <1>1
  <2> QED
    BY <1>1, <1>2, <2>1 DEF Standing, LoggedRows, Paid, OverflowLoses, Exact, Volume
<1>6. Rising(Buffer[w])'
  BY DEF Standing, Rising
<1>7. Rising(recorded'[w]) /\ RowsFirst(w)' /\ BufferFirst(w)'
  <2>1. CASE recorded'[w] = <<>>
    <3>1. Len(recorded'[w]) = 0
      BY <2>1
    <3> QED
      BY <3>1 DEF Rising, RowsFirst, BufferFirst
  <2>2. CASE recorded'[w] = Append(recorded[w], r)
    <3>1. Rising(recorded'[w])
      BY <1>3, <2>2, RisingMore DEF Standing, Below
    <3>2. /\ Len(recorded[w]) \in Nat
          /\ \A i \in 1 .. Len(recorded[w]) : recorded'[w][i] = recorded[w][i]
          /\ recorded'[w][Len(recorded[w]) + 1] = r
          /\ \A i \in 1 .. Len(recorded'[w]) : i \in 1 .. Len(recorded[w]) \/ i = Len(recorded[w]) + 1
      BY <1>3, <2>2, AppendFacts
    <3>3. RowsFirst(w)'
      BY <1>2, <3>2 DEF Standing, RowsFirst, Below
    <3>4. BufferFirst(w)'
      BY <3>2 DEF Standing, BufferFirst, Below
    <3> QED
      BY <3>1, <3>3, <3>4
  <2> QED
    BY <1>1, <2>1, <2>2
<1> QED
  BY <1>4, <1>5, <1>6, <1>7 DEF Standing

\* A change happens.
LEMMA HappeningTrail ==
  ASSUME Types, RecordsTell, NEW v \in Watchers, NEW c \in Change, NEW r \in Record,
         Happening(v, c, r), NEW w \in Watchers, Standing(w), ToWalk(w)
  PROVE  Standing(w)' /\ ToWalk(w)'
<1>1. /\ Notify(v, r) /\ UNCHANGED <<thread, objects, pending, apcs, FILE_LOG, overflows>>
      /\ \A u \in Watchers : u # v => renaming'[u] = renaming[u] /\ history'[u] = history[u]
      /\ history'[v] = Append(history[v], c)
      /\ r.change = Len(history[v]) + 1
  BY DEF Happening, Types, VolumeTypes
<1>2. ToWalk(w)'
  BY <1>1, ToWalkFrame DEF Succeeded, thread, objects
<1>3. CASE w # v
  <2>1. recorded'[w] = recorded[w] /\ lost'[w] = lost[w] /\ overflowed'[w] = overflowed[w]
    BY <1>1, <1>3, NotifyEffect, NotifyLoses
  <2> QED
    BY <1>1, <1>2, <1>3, <2>1, StandingFrame DEF objects
<1>4. CASE w = v
  <2>1. Len(history'[w]) = Len(history[w]) + 1 /\ Len(history[w]) \in Nat
    <3>1. history[w] \in Seq(Change)
      BY VolumeFacts
    <3> QED
      BY <1>1, <1>4, <3>1, AppendFacts
  <2>2. Below(w, r.change)
    BY <1>1, <1>4, AllBelow
  <2>3. HalfTold(w)'
    <3>1. SUFFICES ASSUME renaming'[w] PROVE Below(w, Len(history[w]))'
      BY DEF HalfTold
    <3>2. c.op = "RENAMED" /\ ~Event(r)
      BY <1>4, <3>1 DEF Happening, Types, VolumeTypes, Event
    <3>3. Logged(w)' = Logged(w) /\ UNCHANGED Buffer /\ Len(history'[w]) = r.change
      BY <1>1, <1>4, <2>1 DEF Logged, objects
    <3>4. \A k \in 1 .. Len(recorded'[w]) : Event(recorded'[w][k]) => recorded'[w][k].change < r.change
      <4>1. CASE recorded'[w] = <<>>
        <5>1. Len(recorded'[w]) = 0
          BY <4>1
        <5> QED
          BY <5>1
      <4>2. CASE recorded'[w] = Append(recorded[w], r)
        <5>1. recorded[w] \in Seq(Record)
          BY VolumeFacts
        <5>2. /\ \A i \in 1 .. Len(recorded[w]) : recorded'[w][i] = recorded[w][i]
              /\ recorded'[w][Len(recorded[w]) + 1] = r
              /\ \A i \in 1 .. Len(recorded'[w]) : i \in 1 .. Len(recorded[w]) \/ i = Len(recorded[w]) + 1
          BY <4>2, <5>1, AppendFacts
        <5> QED
          BY <2>2, <3>2, <5>2 DEF Below
      <4>3. Forgotten(w, r) \/ Kept(w, r)
        BY <1>1, <1>4, NotifyEffect
      <4> QED
        BY <4>1, <4>2, <4>3 DEF Forgotten, Kept
    <3> QED
      BY <2>2, <3>3, <3>4 DEF Below
  <2>4. UNCHANGED <<Buffer, FILE_LOG, overflows>> /\ Notify(w, r)
    BY <1>1, <1>4 DEF objects
  <2>5. Len(history[w]) <= Len(history'[w]) /\ Len(history'[w]) \in Nat
    BY <2>1
  <2> QED
    BY <1>2, <2>2, <2>3, <2>4, <2>5, NotifyStanding
<1> QED
  BY <1>3, <1>4

\* The second half of a rename.
LEMMA ReportTrail ==
  ASSUME Types, NEW v \in Watchers, ReportNewName(v),
         NEW w \in Watchers, Standing(w), ToWalk(w)
  PROVE  Standing(w)' /\ ToWalk(w)'
<1>1. /\ SecondHalf(v) \in Record /\ Notify(v, SecondHalf(v)) /\ renaming[v] /\ ~renaming'[v]
      /\ \A u \in Watchers : u # v => renaming'[u] = renaming[u]
      /\ UNCHANGED <<thread, objects, pending, apcs, FILE_LOG, history, overflows>>
  BY ReportEffect
<1>2. ToWalk(w)'
  BY <1>1, ToWalkFrame DEF Succeeded, thread, objects
<1>3. CASE w # v
  <2>1. recorded'[w] = recorded[w] /\ lost'[w] = lost[w] /\ overflowed'[w] = overflowed[w]
    BY <1>1, <1>3, NotifyEffect, NotifyLoses
  <2> QED
    BY <1>1, <1>2, <1>3, <2>1, StandingFrame DEF objects
<1>4. CASE w = v
  <2>1. SecondHalf(w).change = Len(history[w]) /\ Len(history[w]) \in Nat
    BY VolumeFacts DEF SecondHalf
  <2>2. Below(w, SecondHalf(w).change) /\ HalfTold(w)'
    BY <1>1, <1>4, <2>1 DEF Standing, HalfTold
  <2>3. /\ UNCHANGED <<Buffer, FILE_LOG, overflows>> /\ Notify(w, SecondHalf(w))
        /\ SecondHalf(w) \in Record /\ Len(history[w]) <= Len(history'[w]) /\ Len(history'[w]) \in Nat
    BY <1>1, <1>4, <2>1 DEF objects
  <2> QED
    BY <1>2, <2>2, <2>3, NotifyStanding
<1> QED
  BY <1>3, <1>4

(***************************************************************************)
(* Completions.                                                            *)
(***************************************************************************)
\* The completion that joins the queue is the only one of its volume.
LEMMA CompletionJoins ==
  ASSUME Types, Exclusive, NEW v \in Watchers, NEW success \in BOOLEAN, Complete(v, success)
  PROVE  /\ UNCHANGED <<thread, good, handlers, world, history, lost>>
         /\ callback.w # v /\ ~Succeeded(v)
         /\ \A w \in Watchers : w # v \/ ~success => (Succeeded(w)' <=> Succeeded(w))
<1>1. /\ [w |-> v, success |-> success] \in Completion
      /\ apcs' = Append(apcs, [w |-> v, success |-> success])
      /\ UNCHANGED <<thread, good, handlers, world, history, lost>> /\ pending[v]
  BY DEF Complete, Completion
<1>2. /\ \A i \in 1 .. Len(apcs) : i \in 1 .. Len(apcs') /\ apcs'[i] = apcs[i]
      /\ apcs'[Len(apcs')] = [w |-> v, success |-> success]
      /\ \A i \in 1 .. Len(apcs') : i \in 1 .. Len(apcs) \/ i = Len(apcs')
  BY <1>1, QueueGrows
<1>3. callback.w # v
  BY <1>1, IdleCallback DEF Exclusive
<1>4. ~Succeeded(v)
  BY <1>1 DEF Exclusive, Succeeded
<1>5. ASSUME NEW w \in Watchers, w # v \/ ~success PROVE Succeeded(w)' <=> Succeeded(w)
  BY <1>2, <1>5 DEF Succeeded
<1> QED
  BY <1>1, <1>3, <1>4, <1>5

LEMMA CompleteTrail ==
  ASSUME Types, Exclusive, NEW v \in Watchers,
         CompleteWithRecords(v) \/ CompleteOverflow(v) \/ CompleteWithError(v),
         NEW w \in Watchers, Standing(w), ToWalk(w)
  PROVE  Standing(w)' /\ ToWalk(w)'
<1> USE DEF world
<1>1. PICK success \in BOOLEAN : /\ Complete(v, success)
                                 /\ CompleteWithRecords(v) \/ CompleteOverflow(v) \/ ~success
  BY DEF CompleteWithRecords, CompleteOverflow, CompleteWithError
<1>2. /\ UNCHANGED <<thread, good, handlers, world, history, lost>>
      /\ callback.w # v /\ ~Succeeded(v)
      /\ \A u \in Watchers : u # v \/ ~success => (Succeeded(u)' <=> Succeeded(u))
  BY <1>1, CompletionJoins
<1>3. Logged(w)' = Logged(w)
  BY <1>2 DEF Logged
<1>4. CASE w # v
  <2>1. /\ Buffer'[w] = Buffer[w] /\ recorded'[w] = recorded[w]
        /\ overflowed'[w] = overflowed[w] /\ overflows'[w] = overflows[w]
    BY <1>4 DEF CompleteWithRecords, CompleteOverflow, CompleteWithError,
                Types, ThreadTypes, BufferTypes, VolumeTypes
  <2> QED
    BY <1>2, <1>4, <2>1, StandingFrame, ToWalkFrame DEF thread
<1>5. CASE w = v /\ CompleteWithRecords(v)
  <2>1. /\ Buffer'[w] = recorded[w] /\ recorded'[w] = <<>> /\ Len(recorded'[w]) = 0
        /\ UNCHANGED <<overflowed, overflows>>
    BY <1>5 DEF CompleteWithRecords, Types, BufferTypes
  <2>2. Rising(Buffer[w])' /\ Rising(recorded[w])' /\ RowsFirst(w)' /\ BufferFirst(w)'
    BY <2>1 DEF Standing, Rising, RowsFirst, BufferFirst
  <2>3. Past(w)' /\ HalfTold(w)'
    BY <1>2, <1>3, <2>1 DEF Standing, Past, HalfTold, Below
  <2>4. LoggedRows(w)' /\ OverflowLoses(w)' /\ Paid(w)' /\ Exact(w)'
    BY <1>2, <1>3, <2>1 DEF Standing, LoggedRows, OverflowLoses, Paid, Exact, Volume
  <2>5. ToWalk(w)'
    <3>1. Ahead(w, 1)'
      <4>1. Logged(w) \in Seq(Nat \ {0})
        BY DEF Standing, LoggedRows
      <4>2. Logged(w) # <<>> => Len(Logged(w)) \in 1 .. Len(Logged(w))
        BY <4>1, LenProperties, EmptySeq
      <4> QED
        BY <1>3, <2>1, <4>2 DEF Standing, RowsFirst, Ahead
    <3>2. callback'.w # w
      BY <1>2, <1>5 DEF thread
    <3> QED
      BY <3>1, <3>2 DEF ToWalk
  <2> QED
    BY <2>2, <2>3, <2>4, <2>5 DEF Standing
<1>6. CASE w = v /\ CompleteOverflow(v)
  <2>1. /\ UNCHANGED <<Buffer, recorded>> /\ overflowed[w] /\ ~overflowed'[w]
        /\ overflows'[w] = overflows[w] + 1 /\ overflows[w] \in Nat
    BY <1>6 DEF CompleteOverflow, Types, ThreadTypes, VolumeTypes
  <2>2. lost'[w] # {}
    BY <1>2, <2>1 DEF Standing, OverflowLoses
  <2>3. Rising(Buffer[w])' /\ Rising(recorded[w])' /\ RowsFirst(w)' /\ BufferFirst(w)'
    BY <1>3, <2>1 DEF Standing, Rising, RowsFirst, BufferFirst
  <2>4. Past(w)' /\ HalfTold(w)'
    BY <1>2, <1>3, <2>1 DEF Standing, Past, HalfTold, Below
  <2>5. Trail!StepsBack(Logged(w)) \in Nat /\ Trail!StepsBack(Logged(w)) <= overflows[w]
    BY TrailStepsNumber DEF Standing, LoggedRows, Paid
  <2>6. Paid(w)' /\ Affordable(w)'
    BY <1>3, <2>1, <2>5 DEF Paid, Affordable
  <2>7. LoggedRows(w)' /\ OverflowLoses(w)' /\ Exact(w)'
    BY <1>2, <1>3, <2>2 DEF Standing, LoggedRows, OverflowLoses, Exact, Volume
  <2>8. ToWalk(w)'
    BY <2>6 DEF ToWalk
  <2> QED
    BY <2>3, <2>4, <2>6, <2>7, <2>8 DEF Standing
<1>7. CASE CompleteWithError(v) /\ ~success
  BY <1>2, <1>7, StandingFrame, ToWalkFrame DEF CompleteWithError, thread
<1> QED
  BY <1>1, <1>4, <1>5, <1>6, <1>7

LEMMA DeliverTrail ==
  ASSUME Types, DeliverApc, NEW w \in Watchers, Standing(w), ToWalk(w)
  PROVE  Standing(w)' /\ ToWalk(w)'
<1>1. UNCHANGED <<Buffer, recorded, overflowed, FILE_LOG, history, renaming, overflows, lost>>
  BY DEF DeliverApc, objects, world, ghosts
<1>2. Standing(w)'
  BY <1>1, StandingFrame
<1>3. /\ 1 \in 1 .. Len(apcs) /\ Head(apcs) = apcs[1] /\ apcs[1] \in Completion
      /\ \A i \in 1 .. Len(apcs') : i + 1 \in 1 .. Len(apcs) /\ apcs'[i] = apcs[i + 1]
  BY QueueShrinks
<1>4. Succeeded(w)' => Succeeded(w)
  BY <1>3 DEF Succeeded
<1>5. /\ callback'.w = apcs[1].w
      /\ callback'.next = IF apcs[1].success THEN 1 ELSE Len(Buffer[apcs[1].w]) + 1
  BY <1>3 DEF DeliverApc
<1>6. Logged(w)' = Logged(w) /\ Len(Buffer[w]) \in Nat
  BY <1>1, VolumeFacts DEF Logged
<1>7. ASSUME callback'.w = w PROVE Ahead(w, callback.next)' \/ Affordable(w)'
  <2>1. CASE apcs[1].success
    <3>1. Succeeded(w) /\ callback'.next = 1
      BY <1>3, <1>5, <1>7, <2>1 DEF Succeeded
    <3> QED
      BY <1>1, <1>6, <3>1 DEF ToWalk, Ahead, Affordable
  <2>2. CASE ~apcs[1].success
    <3>1. \A k \in callback'.next .. Len(Buffer'[w]) : FALSE
      BY <1>1, <1>5, <1>6, <1>7, <2>2
    <3> QED
      BY <3>1 DEF Ahead
  <2> QED
    BY <2>1, <2>2
<1>8. ASSUME Succeeded(w)' PROVE Ahead(w, 1)' \/ Affordable(w)'
  BY <1>1, <1>4, <1>6, <1>8 DEF ToWalk, Ahead, Affordable
<1> QED
  BY <1>2, <1>7, <1>8 DEF ToWalk

(***************************************************************************)
(* The callback.                                                           *)
(***************************************************************************)
\* It goes on to the next record.
LEMMA WalkOn ==
  ASSUME Types, Exclusive, callback # Idle, callback.next \in Nat,
         callback'.w = callback.w, callback'.next = callback.next + 1,
         UNCHANGED <<Buffer, apcs, FILE_LOG, overflows>>,
         NEW w \in Watchers, ToWalk(w)
  PROVE  ToWalk(w)'
<1>1. Logged(w)' = Logged(w) /\ (Succeeded(w)' <=> Succeeded(w)) /\ Len(Buffer[w]) \in Nat
  BY VolumeFacts DEF Logged, Succeeded
<1>2. ASSUME callback.w = w PROVE Ahead(w, callback.next)' \/ Affordable(w)'
  <2>1. \A k \in callback'.next .. Len(Buffer[w]) : k \in callback.next .. Len(Buffer[w])
    BY <1>1
  <2> QED
    BY <1>1, <1>2, <2>1 DEF ToWalk, Ahead, Affordable
<1>3. Succeeded(w) => Ahead(w, 1)' \/ Affordable(w)'
  BY <1>1 DEF ToWalk, Ahead, Affordable
<1> QED
  BY <1>1, <1>2, <1>3 DEF ToWalk

LEMMA RememberTrail ==
  ASSUME Types, Exclusive, RememberOldName, NEW w \in Watchers, Standing(w), ToWalk(w)
  PROVE  Standing(w)' /\ ToWalk(w)'
<1> USE DEF objects, kernel, world, ghosts
<1>1. /\ callback # Idle /\ callback.next \in Nat
      /\ callback'.w = callback.w /\ callback'.next = callback.next + 1
  BY AtRecord DEF RememberOldName, CallbackState
<1> QED
  BY <1>1, WalkOn, StandingFrame DEF RememberOldName

LEMMA FailedTrail ==
  ASSUME Types, Exclusive, [Next]_vars, HandleEventFails, NEW w \in Watchers, Standing(w), ToWalk(w)
  PROVE  Standing(w)' /\ ToWalk(w)'
<1> USE DEF objects, kernel
<1>1. AnEvent /\ Walking
  BY DEF HandleEventFails, AnEvent
<1>2. /\ callback # Idle /\ callback.next \in Nat
      /\ callback'.w = callback.w /\ callback'.next = callback.next + 1
  BY <1>1, AtRecord, EventTypes
<1>3. lost[w] \subseteq lost'[w]
  BY LostStays
<1>4. UNCHANGED <<Buffer, recorded, overflowed, apcs, FILE_LOG, history, renaming, overflows>>
  BY <1>1 DEF HandleEventFails, AnEvent
<1> QED
  BY <1>2, <1>3, <1>4, WalkOn, StandingFrame

\* What is known of the record of an event when its row is written.
LEMMA EventFacts ==
  ASSUME Types, Control, Exclusive, RecordsTell, AnEvent
  PROVE  LET w == callback.w
             c == TheRecord.change
         IN  /\ w \in Watchers /\ callback.next \in 1 .. Len(Buffer[w])
             /\ c \in Nat \ {0} /\ c <= Len(history[w]) /\ Len(history[w]) \in Nat
             /\ TheRecord = Buffer[w][callback.next] /\ Event(TheRecord)
             /\ pc = "sleep" /\ handlers[w] /\ ~Succeeded(w)
<1>1. Walking /\ Event(TheRecord)
  BY DEF AnEvent, Event
<1>2. /\ callback # Idle /\ callback.w \in Watchers /\ TheRecord \in Record
      /\ callback.next \in 1 .. Len(Buffer[callback.w])
      /\ TheRecord = Buffer[callback.w][callback.next]
  BY <1>1, AtRecord DEF TheRecord
<1>3. TheRecord.change \in Nat \ {0} /\ Len(history[callback.w]) \in Nat
  BY <1>2, VolumeFacts, WatcherNumbers DEF Record
<1>4. TheRecord.change <= Len(history[callback.w])
  BY <1>2 DEF RecordsTell, AllTell, Tells
<1>5. pc = "sleep" /\ handlers[callback.w]
  BY <1>2 DEF Control
<1>6. ~Succeeded(callback.w)
  BY DEF Exclusive, Succeeded
<1> QED
  BY <1>1, <1>2, <1>3, <1>4, <1>5, <1>6

\* While nothing is lost it is the change after that of the last row: an earlier one has
\* its row, and if the next one were not this it would have vanished.
LEMMA NextInLine ==
  ASSUME Types, Control, Exclusive, RecordsTell, AllAccounted, AnEvent,
         Standing(callback.w), ToWalk(callback.w), lost[callback.w] = {}
  PROVE  TheRecord.change = Len(Logged(callback.w)) + 1
<1> DEFINE w == callback.w
           c == TheRecord.change
           t == Logged(w)
           n == Len(t)
<1>1. /\ w \in Watchers /\ callback.next \in 1 .. Len(Buffer[w])
      /\ c \in Nat \ {0} /\ c <= Len(history[w]) /\ Len(history[w]) \in Nat
      /\ TheRecord = Buffer[w][callback.next] /\ Event(TheRecord)
      /\ pc = "sleep" /\ ~Succeeded(w)
  BY EventFacts
<1>2. t \in Seq(Nat \ {0}) /\ n \in Nat /\ \A k \in 1 .. n : t[k] = k
  BY LenProperties DEF Standing, LoggedRows, Exact
<1>3. Len(Buffer[w]) \in Nat /\ \A k \in 1 .. Len(Buffer[w]) : Buffer[w][k].change \in Nat
  BY <1>1, VolumeFacts
<1>4. ~Affordable(w)
  <2>1. Trail!StepsBack(t) \in Nat /\ overflows[w] = 0
    BY <1>2, TrailStepsNumber DEF Standing, OverflowLoses
  <2> QED
    BY <2>1 DEF Affordable
<1>5. c >= n + 1
  <2>1. Ahead(w, callback.next)
    BY <1>4 DEF ToWalk
  <2>2. CASE n = 0
    BY <1>1, <2>2
  <2>3. CASE n # 0
    <3>1. t # <<>> /\ n \in 1 .. n
      BY <1>2, <2>3, EmptySeq
    <3>2. t[n] = n /\ callback.next \in callback.next .. Len(Buffer[w])
      BY <1>1, <1>2, <1>3, <3>1
    <3>3. t[n] < c
      BY <1>1, <2>1, <3>1, <3>2 DEF Ahead
    <3> QED
      BY <1>1, <1>2, <3>2, <3>3
  <2> QED
    BY <2>2, <2>3
<1>6. Accounted(w, n + 1)
  <2>1. n + 1 \in 1 .. Len(history[w])
    BY <1>1, <1>2, <1>5
  <2> QED
    BY <1>1, <2>1 DEF AllAccounted
<1>7. ~HasRow(w, n + 1)
  <2>1. \A k \in 1 .. n : t[k] # n + 1
    BY <1>2
  <2> QED
    BY <2>1 DEF HasRow, Standing, LoggedRows
<1>8. OnItsWay(w, n + 1)
  BY <1>6, <1>7 DEF Accounted
<1>9. ~Carries(recorded[w], 1, n + 1)
  <2>1. \A k \in 1 .. Len(recorded[w]) : Event(recorded[w][k]) => c < recorded[w][k].change
    BY <1>1 DEF Standing, BufferFirst
  <2>2. ~(c < n + 1)
    BY <1>1, <1>2, <1>5
  <2> QED
    BY <2>1, <2>2 DEF Carries, Event
<1>10. ~(renaming[w] /\ n + 1 = Len(history[w]))
  <2>1. renaming[w] => c < Len(history[w])
    BY <1>1 DEF Standing, HalfTold, Below
  <2> QED
    BY <1>1, <1>2, <1>5, <2>1
<1>11. Carries(Buffer[w], callback.next, n + 1)
  BY <1>1, <1>8, <1>9, <1>10 DEF OnItsWay
<1>12. PICK k \in callback.next .. Len(Buffer[w]) : Buffer[w][k].change = n + 1 /\ Event(Buffer[w][k])
  BY <1>11 DEF Carries, Event
<1>13. c <= n + 1
  <2>1. k \in 1 .. Len(Buffer[w])
    BY <1>1, <1>3
  <2>2. CASE k = callback.next
    BY <1>1, <1>2, <1>12, <2>2
  <2>3. CASE k # callback.next
    <3>1. callback.next < k
      BY <1>1, <1>3, <2>3
    <3>2. c < Buffer[w][k].change
      BY <1>1, <1>12, <2>1, <3>1 DEF Standing, Rising
    <3> QED
      BY <1>1, <1>2, <1>12, <3>2
  <2> QED
    BY <2>2, <2>3
<1> QED
  BY <1>1, <1>2, <1>5, <1>13

\* A row is written: the trail of its volume grows by the change of its record.
LEMMA HandledLogs ==
  ASSUME Types, Control, Exclusive, RecordsTell, OldNameKept, HandleEvent
  PROVE  /\ AnEvent
         /\ UNCHANGED <<Buffer, recorded, overflowed, apcs, history, renaming, overflows, lost>>
         /\ callback # Idle /\ callback.next \in Nat
         /\ callback'.w = callback.w /\ callback'.next = callback.next + 1
         /\ \A w \in Watchers :
              Logged(w)' = IF w = callback.w THEN Append(Logged(w), TheRecord.change) ELSE Logged(w)
         /\ \A i \in 1 .. Len(FILE_LOG') :
              \/ i \in 1 .. Len(FILE_LOG) /\ FILE_LOG'[i] = FILE_LOG[i]
              \/ Volume(FILE_LOG'[i]) = callback.w /\ FILE_LOG'[i].change = TheRecord.change
<1> USE DEF objects, kernel
<1> DEFINE row == RowOf(callback.w, TheRecord, callback.oldFileName)
<1>1. AnEvent /\ Walking
  BY DEF HandleEvent, AnEvent
<1>2. UNCHANGED <<Buffer, recorded, overflowed, apcs, history, renaming, overflows, lost>>
  BY <1>1 DEF HandleEvent, AnEvent
<1>3. /\ callback # Idle /\ callback.next \in Nat
      /\ callback'.w = callback.w /\ callback'.next = callback.next + 1
  BY <1>1, AtRecord, EventTypes
<1>4. row \in Row /\ Volume(row) = callback.w /\ row.change = TheRecord.change
  BY <1>1, TheRow
<1>5. FILE_LOG' = Append(FILE_LOG, row) /\ FILE_LOG \in Seq(Row)
  BY <1>1, EventFacts DEF HandleEvent, Types
<1> HIDE DEF row
<1>6. \A w : LoggedChanges(FILE_LOG', w) =
               IF Volume(row) = w THEN Append(LoggedChanges(FILE_LOG, w), row.change)
                                  ELSE LoggedChanges(FILE_LOG, w)
  BY <1>4, <1>5, RowLogged
<1>7. \A w \in Watchers :
        Logged(w)' = IF w = callback.w THEN Append(Logged(w), TheRecord.change) ELSE Logged(w)
  BY <1>4, <1>6 DEF Logged
<1>8. /\ \A i \in 1 .. Len(FILE_LOG) : FILE_LOG'[i] = FILE_LOG[i]
      /\ FILE_LOG'[Len(FILE_LOG) + 1] = row
      /\ \A i \in 1 .. Len(FILE_LOG') : i \in 1 .. Len(FILE_LOG) \/ i = Len(FILE_LOG) + 1
  BY <1>4, <1>5, AppendFacts
<1> QED
  BY <1>1, <1>2, <1>3, <1>4, <1>7, <1>8

LEMMA HandledTrail ==
  ASSUME Types, Control, Exclusive, RecordsTell, OldNameKept, AllAccounted, HandleEvent,
         NEW w \in Watchers, Standing(w), ToWalk(w)
  PROVE  Standing(w)' /\ ToWalk(w)'
<1>1. /\ AnEvent
      /\ UNCHANGED <<Buffer, recorded, overflowed, apcs, history, renaming, overflows, lost>>
      /\ callback'.w = callback.w /\ callback'.next = callback.next + 1
      /\ \A i \in 1 .. Len(FILE_LOG') :
           \/ i \in 1 .. Len(FILE_LOG) /\ FILE_LOG'[i] = FILE_LOG[i]
           \/ Volume(FILE_LOG'[i]) = callback.w /\ FILE_LOG'[i].change = TheRecord.change
  BY HandledLogs
<1>2. CASE w # callback.w
  <2>1. Logged(w)' = Logged(w) /\ callback'.w # w /\ (Succeeded(w)' <=> Succeeded(w))
    BY <1>1, <1>2, HandledLogs DEF Succeeded
  <2>2. LoggedRows(w)'
    BY <1>1, <1>2, <2>1 DEF Standing, LoggedRows
  <2>3. Rising(Buffer[w])' /\ Rising(recorded[w])' /\ RowsFirst(w)' /\ BufferFirst(w)'
    BY <1>1, <2>1 DEF Standing, Rising, RowsFirst, BufferFirst
  <2>4. Past(w)' /\ HalfTold(w)' /\ OverflowLoses(w)' /\ Paid(w)' /\ Exact(w)'
    BY <1>1, <2>1 DEF Standing, Past, HalfTold, Below, OverflowLoses, Paid, Exact
  <2>5. ToWalk(w)'
    BY <1>1, <2>1 DEF ToWalk, Ahead, Affordable
  <2> QED
    BY <2>2, <2>3, <2>4, <2>5 DEF Standing
<1>3. CASE w = callback.w
  <2> DEFINE c == TheRecord.change
             t == Logged(w)
             s == Append(t, c)
  <2>1. /\ callback.next \in 1 .. Len(Buffer[w])
        /\ c \in Nat \ {0} /\ c <= Len(history[w]) /\ Len(history[w]) \in Nat
        /\ TheRecord = Buffer[w][callback.next] /\ Event(TheRecord)
        /\ ~Succeeded(w)
    BY <1>1, <1>3, EventFacts
  <2>2. Logged(w)' = s
    BY <1>3, HandledLogs
  <2>3. /\ t \in Seq(Nat \ {0}) /\ s \in Seq(Nat \ {0}) /\ Len(t) \in Nat /\ Len(s) = Len(t) + 1
        /\ \A k \in 1 .. Len(t) : s[k] = t[k]
        /\ s[Len(t) + 1] = c
        /\ \A k \in 1 .. Len(s) : k \in 1 .. Len(t) \/ k = Len(t) + 1
    <3>1. t \in Seq(Nat \ {0})
      BY DEF Standing, LoggedRows
    <3> QED
      BY <2>1, <3>1, AppendFacts
  <2>4. /\ Len(Buffer[w]) \in Nat
        /\ \A k \in 1 .. Len(Buffer[w]) : Buffer[w][k].change \in Nat
    BY VolumeFacts
  <2> HIDE DEF c, t, s
  <2>5. Rising(Buffer[w])' /\ Rising(recorded[w])' /\ BufferFirst(w)' /\ OverflowLoses(w)'
    BY <1>1 DEF Standing, Rising, BufferFirst, OverflowLoses
  <2>6. Past(w)'
    BY <1>1, <2>1, <2>2, <2>3 DEF Standing, Past, t
  <2>7. RowsFirst(w)'
    <3>1. \A k \in 1 .. Len(recorded[w]) : Event(recorded[w][k]) => c < recorded[w][k].change
      BY <2>1 DEF Standing, BufferFirst, c
    <3> QED
      BY <1>1, <2>2, <2>3, <3>1 DEF Standing, RowsFirst, t
  <2>8. HalfTold(w)'
    <3>1. renaming[w] => c < Len(history[w])
      BY <2>1 DEF Standing, HalfTold, Below, c
    <3> QED
      BY <1>1, <2>2, <2>3, <3>1 DEF Standing, HalfTold, Below, t
  <2>9. LoggedRows(w)'
    <3>1. ASSUME NEW i \in 1 .. Len(FILE_LOG'), Volume(FILE_LOG'[i]) = w
          PROVE  \E k \in 1 .. Len(s) : s[k] = FILE_LOG'[i].change
      <4>1. CASE i \in 1 .. Len(FILE_LOG) /\ FILE_LOG'[i] = FILE_LOG[i]
        <5>1. PICK k \in 1 .. Len(t) : t[k] = FILE_LOG[i].change
          BY <3>1, <4>1 DEF Standing, LoggedRows, t
        <5>2. k \in 1 .. Len(s)
          BY <2>3
        <5> QED
          BY <2>3, <4>1, <5>1, <5>2
      <4>2. CASE FILE_LOG'[i].change = c
        <5>1. Len(t) + 1 \in 1 .. Len(s)
          BY <2>3
        <5> QED
          BY <2>3, <4>2, <5>1
      <4> QED
        BY <1>1, <4>1, <4>2 DEF c
    <3> QED
      BY <2>2, <2>3, <3>1 DEF LoggedRows, Volume
  <2>10. Paid(w)'
    <3>1. /\ Trail!StepsBack(t) \in Nat /\ Trail!StepsBack(t) <= overflows[w] /\ overflows[w] \in Nat
          /\ Trail!StepsBack(s) =
               Trail!StepsBack(t) + (IF t # <<>> /\ c <= t[Len(t)] THEN 1 ELSE 0)
      BY <2>1, <2>3, TrailStepsNumber, TrailStepsBack, VolumeFacts DEF Standing, Paid, t, s, c
    <3>2. CASE Ahead(w, callback.next)
      <4>1. t # <<>> => t[Len(t)] < c
        BY <2>1, <2>4, <3>2 DEF Ahead, t, c
      <4>2. t # <<>> => t[Len(t)] \in Nat
        <5>1. t # <<>> => Len(t) \in 1 .. Len(t)
          BY <2>3, LenProperties, EmptySeq
        <5> QED
          BY <2>3, <5>1, Elements
      <4>3. ~(t # <<>> /\ c <= t[Len(t)])
        BY <2>1, <4>1, <4>2 DEF c
      <4>4. Trail!StepsBack(s) <= overflows[w]
        BY <3>1, <4>3
      <4> QED
        BY <1>1, <2>2, <4>4 DEF Paid
    <3>3. CASE Affordable(w)
      <4>1. Trail!StepsBack(s) <= overflows[w]
        BY <3>1, <3>3 DEF Affordable, t
      <4> QED
        BY <1>1, <2>2, <4>1 DEF Paid
    <3> QED
      BY <1>3, <3>2, <3>3 DEF ToWalk
  <2>11. Exact(w)'
    <3>1. lost[w] = {} => c = Len(t) + 1
      BY <1>1, <1>3, NextInLine DEF c, t
    <3> QED
      BY <1>1, <2>2, <2>3, <3>1 DEF Standing, Exact, t
  <2>12. ToWalk(w)'
    <3>1. ~Succeeded(w)'
      BY <1>1, <2>1 DEF Succeeded
    <3>2. ASSUME NEW k \in callback'.next .. Len(Buffer[w]), Event(Buffer[w][k])
          PROVE  c < Buffer[w][k].change
      <4>1. k \in 1 .. Len(Buffer[w]) /\ callback.next < k
        BY <1>1, <2>1, <2>4
      <4> QED
        BY <2>1, <3>2, <4>1 DEF Standing, Rising, c
    <3>3. Ahead(w, callback.next)'
      BY <1>1, <2>2, <2>3, <3>2 DEF Ahead
    <3> QED
      BY <3>1, <3>3 DEF ToWalk
  <2> QED
    BY <2>5, <2>6, <2>7, <2>8, <2>9, <2>10, <2>11, <2>12 DEF Standing
<1> QED
  BY <1>2, <1>3

(***************************************************************************)
(* The other steps of the thread.                                          *)
(***************************************************************************)
LEMMA CloseTrail ==
  ASSUME Types, Control, Close, NEW w \in Watchers, Standing(w), ToWalk(w)
  PROVE  Standing(w)' /\ ToWalk(w)'
<1> USE DEF world, ghosts
<1>1. /\ at \in Watchers /\ callback = Idle /\ UNCHANGED <<callback, FILE_LOG, history, renaming, overflows, lost>>
      /\ \A v \in Watchers : v # at =>
           Buffer'[v] = Buffer[v] /\ recorded'[v] = recorded[v] /\ overflowed'[v] = overflowed[v]
      /\ Buffer'[at] = <<>> /\ recorded'[at] = <<>> /\ ~overflowed'[at]
  BY DEF Close, Control, Types, ThreadTypes, BufferTypes
<1>2. Succeeded(w)' => Succeeded(w)
  <2>1. CASE UNCHANGED apcs
    BY <2>1 DEF Succeeded
  <2>2. CASE apcs' = Append(apcs, [w |-> at, success |-> FALSE])
    <3>1. [w |-> at, success |-> FALSE] \in Completion
      BY <1>1 DEF Completion
    <3> QED
      BY <2>2, <3>1, QueueGrows DEF Succeeded
  <2> QED
    BY <2>1, <2>2 DEF Close
<1>3. callback'.w # w
  BY <1>1, IdleCallback
<1>4. Logged(w)' = Logged(w)
  BY <1>1 DEF Logged
<1>5. CASE w # at
  BY <1>1, <1>2, <1>3, <1>5, StandingFrame, ToWalkFrame
<1>6. CASE w = at
  <2>1. Len(Buffer'[w]) = 0 /\ Len(recorded'[w]) = 0
    BY <1>1, <1>6
  <2>2. Rising(Buffer'[w]) /\ Rising(recorded'[w]) /\ RowsFirst(w)' /\ BufferFirst(w)'
    BY <2>1 DEF Rising, RowsFirst, BufferFirst
  <2>3. Past(w)' /\ HalfTold(w)'
    BY <1>1, <1>4, <2>1 DEF Standing, Past, HalfTold, Below
  <2>4. LoggedRows(w)' /\ OverflowLoses(w)' /\ Paid(w)' /\ Exact(w)'
    BY <1>1, <1>4, <1>6 DEF Standing, LoggedRows, OverflowLoses, Paid, Exact, Volume
  <2>5. ToWalk(w)'
    BY <1>3, <2>1 DEF ToWalk, Ahead
  <2> QED
    BY <2>2, <2>3, <2>4, <2>5 DEF Standing
<1> QED
  BY <1>5, <1>6

LEMMA OtherTrail ==
  ASSUME Types, DismissBox \/ Repost \/ Open \/ SetEventHandlers \/ LoopStep,
         NEW w \in Watchers, Standing(w), ToWalk(w)
  PROVE  Standing(w)' /\ ToWalk(w)'
<1> USE DEF objects, kernel, world, ghosts
<1>1. UNCHANGED <<Buffer, recorded, overflowed, apcs, FILE_LOG, history, renaming, overflows, lost>>
  BY DEF DismissBox, Repost, Open, SetEventHandlers, LoopStep
<1>2. UNCHANGED callback \/ callback' = Idle
  BY DEF DismissBox, Repost, Open, SetEventHandlers, LoopStep
<1>3. callback'.w = w => callback.w = w /\ callback'.next = callback.next
  BY <1>2, IdleCallback
<1> QED
  BY <1>1, <1>3, StandingFrame, ToWalkFrame DEF Succeeded

LEMMA NextTrail ==
  WatcherInv /\ AllAccounted /\ TrailInv /\ [Next]_vars => TrailInv'
<1> SUFFICES ASSUME WatcherInv, AllAccounted, TrailInv, [Next]_vars, NEW w \in Watchers
             PROVE  Standing(w)' /\ ToWalk(w)'
  BY DEF TrailInv
<1>1. /\ Types /\ Control /\ Exclusive /\ RecordsTell /\ OldNameKept
      /\ Standing(w) /\ ToWalk(w)
  BY DEF WatcherInv, TrailInv
<1>2. ASSUME NEW v \in Watchers, NEW c \in Change, NEW r \in Record, Happening(v, c, r)
      PROVE  Standing(w)' /\ ToWalk(w)'
  BY <1>1, <1>2, HappeningTrail
<1>3. ASSUME NEW v \in Watchers, ReportNewName(v) PROVE Standing(w)' /\ ToWalk(w)'
  BY <1>1, <1>3, ReportTrail
<1>4. ASSUME NEW v \in Watchers,
             CompleteWithRecords(v) \/ CompleteOverflow(v) \/ CompleteWithError(v)
      PROVE  Standing(w)' /\ ToWalk(w)'
  BY <1>1, <1>4, CompleteTrail
<1>5. CASE DeliverApc
  BY <1>1, <1>5, DeliverTrail
<1>6. CASE RememberOldName
  BY <1>1, <1>6, RememberTrail
<1>7. CASE HandleEvent
  BY <1>1, <1>7, HandledTrail
<1>8. CASE HandleEventFails
  BY <1>1, <1>8, FailedTrail
<1>9. CASE Close
  BY <1>1, <1>9, CloseTrail
<1>10. CASE DismissBox \/ Repost \/ Open \/ SetEventHandlers \/ LoopStep
  BY <1>1, <1>10, OtherTrail
<1> QED
  BY <1>1, <1>2, <1>3, <1>4, <1>5, <1>6, <1>7, <1>8, <1>9, <1>10, Steps

LEMMA AlwaysTrail == Spec => [](WatcherInv /\ AllAccounted /\ TrailInv)
<1>1. Init => TrailInv
  BY InitTrail
<1>2. WatcherInv /\ AllAccounted /\ TrailInv /\ [Next]_vars => TrailInv'
  BY NextTrail
<1> QED
  BY <1>1, <1>2, AlwaysAccounted, PTL DEF Spec

(***************************************************************************)
(* The refinement.                                                         *)
(***************************************************************************)
Happened == [w \in Watchers |-> Len(history[w])]
AllTrails == [w \in Watchers |-> LoggedChanges(FILE_LOG, w)]
Broken == [w \in Watchers |-> lost[w] # {}]

LEMMA TrailInit == Init => Trail!Init
<1> SUFFICES ASSUME Init PROVE Trail!Init
  OBVIOUS
<1>1. \A w \in Watchers : Len(history[w]) = 0 /\ lost[w] = {} /\ LoggedChanges(FILE_LOG, w) = <<>>
  BY NoRowsLogged DEF Init
<1>2. overflows = [w \in Watchers |-> 0]
  BY DEF Init
<1> QED
  BY <1>1, <1>2 DEF Trail!Init

\* Only a change of volume v may be lost.
LEMMA TrailLoses ==
  ASSUME NEW v \in Watchers, lost[v] \subseteq lost'[v],
         \A u \in Watchers : u # v => lost'[u] = lost[u]
  PROVE  Trail!Lose(v)
<1> DEFINE loss == lost'[v] # {}
<1>1. ASSUME NEW u \in Watchers
      PROVE  (lost'[u] # {}) = IF u = v THEN (lost[u] # {}) \/ loss ELSE lost[u] # {}
  <2>1. CASE u = v
    BY <2>1
  <2>2. CASE u # v
    BY <2>2
  <2> QED
    BY <2>1, <2>2
<1>2. Broken' = [Broken EXCEPT ![v] = @ \/ loss]
  BY <1>1 DEF Broken
<1>3. loss \in BOOLEAN
  OBVIOUS
<1> QED
  BY <1>2, <1>3 DEF Trail!Lose, Broken

LEMMA TrailFrame ==
  /\ UNCHANGED FILE_LOG => AllTrails' = AllTrails
  /\ UNCHANGED history => Happened' = Happened
  /\ UNCHANGED lost => Broken' = Broken
BY DEF AllTrails, Happened, Broken

LEMMA TrailHappens ==
  ASSUME Types, NEW v \in Watchers, NEW c \in Change, NEW r \in Record, Happening(v, c, r)
  PROVE  Trail!Happen(v)
<1>1. /\ Notify(v, r) /\ UNCHANGED <<FILE_LOG, overflows>>
      /\ history' = [history EXCEPT ![v] = Append(history[v], c)]
      /\ history \in [Watchers -> Seq(Change)]
  BY DEF Happening, Types, VolumeTypes
<1>2. Len(Append(history[v], c)) = Len(history[v]) + 1
  BY <1>1, AppendFacts
<1>3. Happened' = [Happened EXCEPT ![v] = @ + 1]
  <2>1. \A u \in Watchers : Len(history'[u]) = IF u = v THEN Len(history[u]) + 1 ELSE Len(history[u])
    BY <1>1, <1>2
  <2> QED
    BY <2>1 DEF Happened
<1>4. Trail!Lose(v)
  BY <1>1, NotifyLoses, TrailLoses
<1>5. AllTrails' = AllTrails
  BY <1>1, TrailFrame
<1> QED
  BY <1>1, <1>3, <1>4, <1>5 DEF Trail!Happen, Happened, AllTrails

LEMMA TrailForgets ==
  ASSUME NEW v \in Watchers, lost[v] \subseteq lost'[v],
         \A u \in Watchers : u # v => lost'[u] = lost[u],
         UNCHANGED <<history, FILE_LOG, overflows>>
  PROVE  Trail!Forget(v)
<1>1. AllTrails' = AllTrails /\ Happened' = Happened
  BY TrailFrame
<1> QED
  BY <1>1, TrailLoses DEF Trail!Forget, AllTrails, Happened

LEMMA TrailOverflows ==
  ASSUME TrailInv, NEW v \in Watchers, CompleteOverflow(v)
  PROVE  Trail!Overflow(v)
<1> USE DEF world
<1>1. /\ UNCHANGED <<history, FILE_LOG, lost>> /\ overflowed[v]
      /\ overflows' = [overflows EXCEPT ![v] = @ + 1]
  BY DEF CompleteOverflow, Complete
<1>2. lost[v] # {}
  BY <1>1 DEF TrailInv, Standing, OverflowLoses
<1>3. AllTrails' = AllTrails /\ Happened' = Happened /\ Broken' = Broken /\ Broken[v]
  BY <1>1, <1>2, TrailFrame DEF Broken
<1> QED
  BY <1>1, <1>3 DEF Trail!Overflow, AllTrails, Happened, Broken

LEMMA TrailLogs ==
  ASSUME WatcherInv, AllAccounted, TrailInv, TrailInv', HandleEvent
  PROVE  \E v \in Watchers : \E c \in 1 .. Happened[v] : Trail!Log(v, c)
<1>1. Types /\ Control /\ Exclusive /\ RecordsTell /\ OldNameKept
  BY DEF WatcherInv
<1>2. AnEvent /\ UNCHANGED <<history, overflows, lost>>
  BY <1>1, HandledLogs
<1>3. PICK v \in Watchers, c \in 1 .. Len(history[callback.w]) :
        v = callback.w /\ c = TheRecord.change
  BY <1>1, <1>2, EventFacts
<1>4. \A w \in Watchers : Logged(w)' = IF w = v THEN Append(Logged(w), c) ELSE Logged(w)
  BY <1>1, <1>3, HandledLogs
<1>5. AllTrails' = [AllTrails EXCEPT ![v] = Append(@, c)]
  BY <1>4 DEF AllTrails, Logged
<1>6. Happened' = Happened /\ Broken' = Broken /\ UNCHANGED overflows
  BY <1>2, TrailFrame
<1>7. Broken[v] => Trail!StepsBack(AllTrails'[v]) <= overflows[v]
  <2>1. Paid(v)' /\ UNCHANGED overflows
    BY <1>2 DEF TrailInv, Standing
  <2>2. AllTrails'[v] = Logged(v)'
    BY DEF AllTrails, Logged
  <2> QED
    BY <2>1, <2>2 DEF Paid
<1>8. ~Broken[v] => c = Len(AllTrails[v]) + 1
  <2>1. lost[v] = {} => c = Len(Logged(v)) + 1
    BY <1>1, <1>2, <1>3, NextInLine DEF TrailInv
  <2> QED
    BY <2>1 DEF Broken, AllTrails, Logged
<1>9. Trail!Log(v, c)
  BY <1>5, <1>6, <1>7, <1>8 DEF Trail!Log, AllTrails, Happened, Broken
<1>10. c \in 1 .. Happened[v]
  BY <1>3 DEF Happened
<1> QED
  BY <1>9, <1>10

LEMMA TrailStutters ==
  ASSUME UNCHANGED <<history, FILE_LOG, lost, overflows>>
  PROVE  UNCHANGED Trail!vars
<1>1. AllTrails' = AllTrails /\ Happened' = Happened /\ Broken' = Broken
  BY TrailFrame
<1> QED
  BY <1>1 DEF Trail!vars, AllTrails, Happened, Broken

LEMMA TrailNext ==
  WatcherInv /\ AllAccounted /\ TrailInv /\ TrailInv' /\ [Next]_vars => [Trail!Next]_(Trail!vars)
<1> SUFFICES ASSUME WatcherInv, AllAccounted, TrailInv, TrailInv', [Next]_vars
             PROVE  Trail!Next \/ UNCHANGED Trail!vars
  OBVIOUS
<1> USE DEF world, ghosts
<1>0. Types
  BY DEF WatcherInv
<1>1. ASSUME NEW v \in Watchers,
             Trail!Happen(v) \/ Trail!Forget(v) \/ Trail!Overflow(v)
               \/ \E c \in 1 .. Happened[v] : Trail!Log(v, c)
      PROVE  Trail!Next
  BY <1>1 DEF Trail!Next, Happened
<1>2. ASSUME NEW v \in Watchers, NEW c \in Change, NEW r \in Record, Happening(v, c, r)
      PROVE  Trail!Next
  BY <1>0, <1>1, <1>2, TrailHappens
<1>3. ASSUME NEW v \in Watchers, ReportNewName(v) PROVE Trail!Next
  <2>1. /\ lost[v] \subseteq lost'[v] /\ \A u \in Watchers : u # v => lost'[u] = lost[u]
        /\ UNCHANGED <<history, FILE_LOG, overflows>>
    BY <1>0, <1>3, ReportEffect, NotifyLoses
  <2> QED
    BY <1>1, <2>1, TrailForgets
<1>4. ASSUME NEW v \in Watchers, CompleteOverflow(v) PROVE Trail!Next
  BY <1>1, <1>4, TrailOverflows
<1>5. ASSUME NEW v \in Watchers, CompleteWithRecords(v) \/ CompleteWithError(v)
      PROVE  UNCHANGED Trail!vars
  BY <1>5, TrailStutters DEF CompleteWithRecords, CompleteWithError, Complete
<1>6. CASE HandleEvent
  BY <1>1, <1>6, TrailLogs
<1>7. CASE HandleEventFails
  <2>1. Walking /\ callback.w \in Watchers
    BY <1>0, <1>7, AtRecord DEF HandleEventFails, AnEvent
  <2>2. /\ lost[callback.w] \subseteq lost'[callback.w]
        /\ \A u \in Watchers : u # callback.w => lost'[u] = lost[u]
        /\ UNCHANGED <<history, FILE_LOG, overflows>>
    BY <1>0, <1>7, <2>1 DEF HandleEventFails, AnEvent, Types, VolumeTypes
  <2> QED
    BY <1>1, <2>1, <2>2, TrailForgets
<1>8. CASE DeliverApc \/ RememberOldName \/ DismissBox \/ Repost
             \/ Open \/ SetEventHandlers \/ Close \/ LoopStep
  BY <1>8, TrailStutters DEF DeliverApc, RememberOldName, DismissBox, Repost, Open,
                             SetEventHandlers, Close, LoopStep
<1> QED
  BY <1>0, <1>2, <1>3, <1>4, <1>5, <1>6, <1>7, <1>8, Steps

\* The watcher keeps the audit trail that AuditTrail describes, for any number of watchers,
\* changes and faults and for every size of the buffer: while nothing is lost the rows of
\* a volume are its history, and each step back is paid for by an overflow.
THEOREM AuditTrailImplemented == Spec => ImplementsAuditTrail
<1>1. Init => Trail!Init
  BY TrailInit
<1>2. WatcherInv /\ AllAccounted /\ TrailInv /\ TrailInv' /\ [Next]_vars =>
        [Trail!Next]_(Trail!vars)
  BY TrailNext
<1> QED
  BY <1>1, <1>2, AlwaysTrail, PTL DEF Spec, ImplementsAuditTrail, Trail!Spec

\* So the table is what AuditTrail promises its reader: no row is made up, nothing is
\* skipped while nothing is lost, and a row is out of order, or a change has a second
\* row, only after an overflow.
THEOREM FaithfulTrail == Spec => []Trail!Faithful
<1>1. Trail!Spec => TrailFacts!Spec
  <2>1. Trail!Init => TrailFacts!Init
    BY DEF Trail!Init, TrailFacts!Init
  <2>2. [Trail!Next]_(Trail!vars) => [TrailFacts!Next]_(TrailFacts!vars)
    BY SameStepsBack
       DEF Trail!Next, Trail!vars, Trail!Happen, Trail!Forget, Trail!Overflow, Trail!Log,
           Trail!Lose, TrailFacts!Next, TrailFacts!vars, TrailFacts!Happen,
           TrailFacts!Forget, TrailFacts!Overflow, TrailFacts!Log, TrailFacts!Lose
  <2> QED
    BY <2>1, <2>2, PTL DEF Trail!Spec, TrailFacts!Spec
<1>2. TrailFacts!Faithful => Trail!Faithful
  BY SameRowsOf, Zenon
     DEF Trail!Faithful, Trail!OnlyHappened, Trail!ExactWhileWhole, Trail!InOrder,
         Trail!FewRowsPerChange, TrailFacts!Faithful, TrailFacts!OnlyHappened,
         TrailFacts!ExactWhileWhole, TrailFacts!InOrder, TrailFacts!FewRowsPerChange
<1> QED
  BY <1>1, <1>2, AuditTrailImplemented, TrailFacts!FaithfulCorrect, PTL DEF ImplementsAuditTrail
=============================================================================

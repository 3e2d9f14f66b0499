------------------------- MODULE FileSystemWatcher -------------------------
(***************************************************************************)
(* The thread that CFileSystemWatcher::Run executes: it opens a watcher    *)
(* for D:\ and one for C:\, sleeps alertably in their Heartbeats, and is   *)
(* called back by the kernel when a volume changed.  The callback walks    *)
(* the buffer of FILE_NOTIFY_INFORMATION records, writes one row of the    *)
(* FILE_LOG table per event and asks for more.                             *)
(*                                                                         *)
(* The kernel's half of ReadDirectoryChangesW is external: between two     *)
(* requests it records up to Capacity records; one more and it forgets     *)
(* all of them and completes the next request with zero bytes.             *)
(*                                                                         *)
(* Restarting the thread and the user's name are the subject of the module *)
(* WatcherThreads, callbacks inside callbacks and the end of the loop that *)
(* of Heartbeats.                                                          *)
(***************************************************************************)
EXTENDS Integers, Sequences, FiniteSets

CONSTANTS NWatchers,   \* watchers of Run: 1 is FileSystem (D:\), 2 is FileSystem2 (C:\)
          Names,       \* file names
          NoName,      \* the empty string
          Foreign,     \* the names that the ANSI code page cannot express
          Mangled,     \* what ExtractFileName makes of those
          Capacity,    \* records that fit into MONITOR::Buffer
          MaxChanges,  \* bound: changes per volume
          MaxFaults    \* bound: failing reads, posts and inserts

ASSUME ConstantsAssumption ==
  /\ NWatchers \in Nat \ {0}
  /\ Capacity \in Nat \ {0}
  /\ MaxChanges \in Nat
  /\ MaxFaults \in Nat
  /\ NoName \notin Names
  /\ Foreign \subseteq Names /\ Mangled \notin Names \cup {NoName}

Watchers == 1 .. NWatchers

VARIABLES
  \* the worker thread
  pc,          \* where Run is
  at,          \* the watcher it is working on
  StopBit,
  callback,    \* the running FileSystemWatcherCallback, or Idle
  box,         \* the thread shows FileLog's AfxMessageBox
  \* the watcher objects
  good,        \* good[w]: handle and monitor exist (IsGood)
  handlers,    \* handlers[w]: the event handlers are registered
  Buffer,      \* Buffer[w]: what the monitor's buffer holds
  \* the kernel
  pending,     \* pending[w]: a ReadDirectoryChangesW request is outstanding
  recorded,    \* recorded[w]: records waiting for a request
  overflowed,  \* overflowed[w]: records were thrown away since the last one
  apcs,        \* completions queued to the thread
  \* the world
  present,     \* present[w]: the files that exist
  renaming,    \* renaming[w]: a rename is half reported
  FILE_LOG,    \* the rows of the table
  \* history
  history,     \* history[w]: what happened on the volume
  lost,        \* lost[w]: changes thrown away, for a reason named below
  overflows,   \* overflows[w]: completions that reported an overflow
  faults       \* faults so far

thread == <<pc, at, StopBit, callback, box>>
objects == <<good, handlers, Buffer>>
kernel == <<pending, recorded, overflowed, apcs>>
world == <<present, renaming, FILE_LOG>>
ghosts == <<history, lost, overflows, faults>>
vars == <<thread, objects, kernel, world, ghosts>>

Idle == [w |-> 0, next |-> 1, oldFileName |-> NoName]

Actions == {"ADDED", "REMOVED", "MODIFIED", "RENAMED_OLD_NAME", "RENAMED_NEW_NAME"}
Record == [change : 1 .. MaxChanges, action : Actions, name : Names]
Change == [op : {"ADDED", "REMOVED", "MODIFIED", "RENAMED"},
           name : Names, to : Names \cup {NoName}]

\* ExtractFileName converts a name to the ANSI code page: a character that is
\* not in it becomes a question mark.
ExtractFileName(name) == IF name \in Foreign THEN Mangled ELSE name

\* Combine(m_Path, name); the path without a file name is the volume's root.
Combine(w, name) == [volume |-> w, file |-> name]
NoPath == [volume |-> 0, file |-> NoName]          \* the empty string

\* A CFileSystemEvent keeps the directory and the name; its getters combine them.
GetFullPath(w, name) == Combine(w, ExtractFileName(name))

Extracted == (Names \ Foreign) \cup {Mangled}
Row == [change : 1 .. MaxChanges,
        EVENT_TYPE : {"CREATED", "CHANGED", "DELETED", "RENAME"},
        OLD_FILE_PATH : [volume : Watchers, file : Extracted \cup {NoName}] \cup {NoPath},
        OLD_FILE_NAME : Extracted \cup {NoName},
        NEW_FILE_PATH : [volume : Watchers, file : Extracted],
        NEW_FILE_NAME : Extracted,
        attributes : {"actual", "all_YES", "blank"}]

Init ==
  /\ pc = "open" /\ at = 1 /\ StopBit = 1
  /\ callback = Idle /\ box = FALSE
  /\ good = [w \in Watchers |-> FALSE]
  /\ handlers = [w \in Watchers |-> FALSE]
  /\ Buffer = [w \in Watchers |-> <<>>]
  /\ pending = [w \in Watchers |-> FALSE]
  /\ recorded = [w \in Watchers |-> <<>>]
  /\ overflowed = [w \in Watchers |-> FALSE]
  /\ apcs = <<>>
  /\ present \in [Watchers -> SUBSET Names]
  /\ renaming = [w \in Watchers |-> FALSE]
  /\ FILE_LOG = <<>>
  /\ history = [w \in Watchers |-> <<>>]
  /\ lost = [w \in Watchers |-> {}]
  /\ overflows = [w \in Watchers |-> 0]
  /\ faults = 0

-----------------------------------------------------------------------------
(***************************************************************************)
(* The kernel and the users of the machine.                                *)
(***************************************************************************)
ChangesOf(records) == {records[i].change : i \in 1 .. Len(records)}

\* The notification package records one more record of volume w.
Notify(w, record) ==
  IF overflowed[w] \/ Len(recorded[w]) >= Capacity
  THEN /\ recorded' = [recorded EXCEPT ![w] = <<>>]
       /\ overflowed' = [overflowed EXCEPT ![w] = TRUE]
       /\ lost' = [lost EXCEPT ![w] = @ \cup ChangesOf(recorded[w]) \cup {record.change}]
  ELSE /\ recorded' = [recorded EXCEPT ![w] = Append(@, record)]
       /\ UNCHANGED <<overflowed, lost>>

\* A volume is observed from the first request of its Open to its Close.  An
\* outstanding request is completed before its records could overflow.
Observed(w) ==
  /\ good[w]
  /\ pending[w] => Len(recorded[w]) < Capacity

Happens(w, op, name, to, action) ==
  /\ Observed(w) /\ ~renaming[w] /\ Len(history[w]) < MaxChanges
  /\ history' = [history EXCEPT ![w] = Append(@, [op |-> op, name |-> name, to |-> to])]
  /\ Notify(w, [change |-> Len(history[w]) + 1, action |-> action, name |-> name])
  /\ UNCHANGED <<thread, objects, pending, apcs, FILE_LOG, overflows, faults>>

CreateAFile(w, name) ==
  /\ name \notin present[w]
  /\ present' = [present EXCEPT ![w] = @ \cup {name}]
  /\ Happens(w, "ADDED", name, NoName, "ADDED")
  /\ UNCHANGED renaming

ChangeAFile(w, name) ==
  /\ name \in present[w]
  /\ Happens(w, "MODIFIED", name, NoName, "MODIFIED")
  /\ UNCHANGED <<present, renaming>>

DeleteAFile(w, name) ==
  /\ name \in present[w]
  /\ present' = [present EXCEPT ![w] = @ \ {name}]
  /\ Happens(w, "REMOVED", name, NoName, "REMOVED")
  /\ UNCHANGED renaming

\* A rename is reported as two records, which need not share a buffer.
RenameAFile(w, name, to) ==
  /\ name \in present[w] /\ to \notin present[w]
  /\ present' = [present EXCEPT ![w] = (@ \ {name}) \cup {to}]
  /\ renaming' = [renaming EXCEPT ![w] = TRUE]
  /\ Happens(w, "RENAMED", name, to, "RENAMED_OLD_NAME")

ReportNewName(w) ==
  /\ renaming[w] /\ Observed(w)
  /\ renaming' = [renaming EXCEPT ![w] = FALSE]
  /\ LET change == Len(history[w])
     IN  Notify(w, [change |-> change, action |-> "RENAMED_NEW_NAME",
                    name |-> history[w][change].to])
  /\ UNCHANGED <<thread, objects, pending, apcs, present, FILE_LOG, history,
                 overflows, faults>>

Complete(w, success) ==
  /\ pending[w]
  /\ pending' = [pending EXCEPT ![w] = FALSE]
  /\ apcs' = Append(apcs, [w |-> w, success |-> success])
  /\ UNCHANGED <<thread, good, handlers, world, history, lost>>

CompleteWithRecords(w) ==
  /\ recorded[w] # <<>>
  /\ Complete(w, TRUE)
  /\ Buffer' = [Buffer EXCEPT ![w] = recorded[w]]
  /\ recorded' = [recorded EXCEPT ![w] = <<>>]
  /\ UNCHANGED <<overflowed, overflows, faults>>

\* Zero bytes are transferred and the buffer keeps what it held.  Windows
\* reports the overflow as a success or as ERROR_NOTIFY_ENUM_DIR.
CompleteOverflow(w) ==
  /\ overflowed[w]
  /\ \E success \in BOOLEAN : Complete(w, success)
  /\ overflowed' = [overflowed EXCEPT ![w] = FALSE]
  /\ overflows' = [overflows EXCEPT ![w] = @ + 1]
  /\ UNCHANGED <<Buffer, recorded, faults>>

CompleteWithError(w) ==
  /\ faults < MaxFaults
  /\ faults' = faults + 1
  /\ Complete(w, FALSE)
  /\ UNCHANGED <<Buffer, recorded, overflowed, overflows>>

-----------------------------------------------------------------------------
(***************************************************************************)
(* FileSystemWatcherCallback and the event handlers.                       *)
(***************************************************************************)

\* Mutation: the destructors sleep alertably.
AlertableInClose == pc \in {"sleep", "close"} /\ callback = Idle /\ ~box

\* Here the callbacks of a SleepEx run one after the other.  The socket calls of
\* FileLog are alertable waits, too, so that a callback of the other volume may run
\* inside an insert: that nesting, which never joins two callbacks of one
\* volume, is in Heartbeats.
Alertable == pc = "sleep" /\ callback = Idle /\ ~box

\* Mutation: the error code of a completion is not looked at.
DeliverApcIgnoresError ==
  /\ Alertable /\ apcs # <<>>
  /\ callback' = [w |-> Head(apcs).w, next |-> 1, oldFileName |-> NoName]
  /\ apcs' = Tail(apcs)
  /\ UNCHANGED <<pc, at, StopBit, box, objects, pending, recorded, overflowed,
                 world, ghosts>>

\* Mutation: the next request is posted before the buffer is walked.
DeliverApcReposts ==
  /\ Alertable /\ apcs # <<>>
  /\ LET apc == Head(apcs)
     IN  /\ callback' = [w |-> apc.w,
                         next |-> IF apc.success THEN 1 ELSE Len(Buffer[apc.w]) + 1,
                         oldFileName |-> NoName]
         /\ pending' = [pending EXCEPT ![apc.w] = TRUE]
  /\ apcs' = Tail(apcs)
  /\ UNCHANGED <<pc, at, StopBit, box, objects, recorded, overflowed, world, ghosts>>

\* The walk of the buffer is skipped for a completion that failed.
DeliverApc ==
  /\ Alertable /\ apcs # <<>>
  /\ LET apc == Head(apcs)
     IN  callback' = [w |-> apc.w,
                      next |-> IF apc.success THEN 1 ELSE Len(Buffer[apc.w]) + 1,
                      oldFileName |-> NoName]
  /\ apcs' = Tail(apcs)
  /\ UNCHANGED <<pc, at, StopBit, box, objects, pending, recorded, overflowed,
                 world, ghosts>>

\* ShowAttributes(GetFileAttributes(path)): all seventeen flags of
\* INVALID_FILE_ATTRIBUTES, the answer for a file that is gone and for a name
\* with a question mark, are set.
ShowAttributes(path) ==
  IF path.file \in present[path.volume] THEN "actual" ELSE "all_YES"

\* Mutation: OnFileDelete asks for the attributes as the other handlers do.
AttributesOfRemoved(action, path) == ShowAttributes(path)

Attributes(action, path) == IF action = "REMOVED" THEN "blank" ELSE ShowAttributes(path)

EventType(action) ==
  CASE action = "ADDED"            -> "CREATED"
    [] action = "REMOVED"          -> "DELETED"
    [] action = "MODIFIED"         -> "CHANGED"
    [] action = "RENAMED_NEW_NAME" -> "RENAME"

\* Mutation: every handler passes the old name that the callback remembers.
RowOfWithOldName(w, record, oldFileName) ==
  LET path == GetFullPath(w, record.name)
  IN  [change |-> record.change, EVENT_TYPE |-> EventType(record.action),
       OLD_FILE_PATH |-> Combine(w, oldFileName), OLD_FILE_NAME |-> NoName,
       NEW_FILE_PATH |-> path, NEW_FILE_NAME |-> path.file,
       attributes |-> Attributes(record.action, path)]

\* What the handler of an event passes to FileLog, and what FileLog inserts:
\* it computes the file name of Old_file_path, but Old_file_name stays empty.
RowOf(w, record, oldFileName) ==
  LET path == GetFullPath(w, record.name)
  IN  [change |-> record.change, EVENT_TYPE |-> EventType(record.action),
       OLD_FILE_PATH |-> IF record.action = "RENAMED_NEW_NAME"
                         THEN Combine(w, oldFileName) ELSE NoPath,
       OLD_FILE_NAME |-> NoName,
       NEW_FILE_PATH |-> path, NEW_FILE_NAME |-> path.file,
       attributes |-> Attributes(record.action, path)]

Walking == callback # Idle /\ ~box /\ callback.next <= Len(Buffer[callback.w])
TheRecord == Buffer[callback.w][callback.next]

\* The old name of a rename is kept in a local variable of the callback.
RememberOldName ==
  /\ Walking /\ TheRecord.action = "RENAMED_OLD_NAME"
  /\ callback' = [callback EXCEPT !.next = @ + 1,
                                    !.oldFileName = ExtractFileName(TheRecord.name)]
  /\ UNCHANGED <<pc, at, StopBit, box, objects, kernel, world, ghosts>>

AnEvent ==
  /\ Walking /\ TheRecord.action # "RENAMED_OLD_NAME"
  /\ callback' = [callback EXCEPT !.next = @ + 1]
  /\ UNCHANGED <<pc, at, StopBit, objects, kernel, present, renaming, history, overflows>>

\* OnCreate, OnChange, OnDelete, OnRename: without a handler nothing happens.
HandleEvent ==
  /\ AnEvent
  /\ FILE_LOG' = IF handlers[callback.w]
                 THEN Append(FILE_LOG, RowOf(callback.w, TheRecord, callback.oldFileName))
                 ELSE FILE_LOG
  /\ UNCHANGED <<box, lost, faults>>

\* FileLog catches a SQLException, shows a message box and drops the row.
HandleEventFails ==
  /\ AnEvent /\ handlers[callback.w]
  /\ faults < MaxFaults
  /\ faults' = faults + 1
  /\ lost' = [lost EXCEPT ![callback.w] = @ \cup {TheRecord.change}]
  /\ box' = TRUE
  /\ UNCHANGED FILE_LOG

DismissBox ==
  /\ box /\ box' = FALSE
  /\ UNCHANGED <<pc, at, StopBit, callback, objects, kernel, world, ghosts>>

\* It may fail, and does nothing for a watcher that is not good.
PostChangeNotificationRequest(w) ==
  \/ /\ pending' = [pending EXCEPT ![w] = good[w]]
     /\ UNCHANGED faults
  \/ /\ faults < MaxFaults /\ faults' = faults + 1
     /\ UNCHANGED pending

\* Mutation: the loop ends at the record whose NextEntryOffset is 0.
RepostBeforeLast ==
  /\ callback # Idle /\ ~box /\ callback.next >= Len(Buffer[callback.w])
  /\ callback' = Idle
  /\ PostChangeNotificationRequest(callback.w)
  /\ UNCHANGED <<pc, at, StopBit, box, objects, recorded, overflowed, apcs, world,
                 history, lost, overflows>>

\* Mutation: the callback does not ask for more.
RepostForgotten ==
  /\ callback # Idle /\ ~box /\ callback.next > Len(Buffer[callback.w])
  /\ callback' = Idle
  /\ UNCHANGED <<pc, at, StopBit, box, objects, kernel, world, ghosts>>

\* The callback ends with the next request, whose failure is not noticed.
Repost ==
  /\ callback # Idle /\ ~box /\ callback.next > Len(Buffer[callback.w])
  /\ callback' = Idle
  /\ PostChangeNotificationRequest(callback.w)
  /\ UNCHANGED <<pc, at, StopBit, box, objects, recorded, overflowed, apcs, world,
                 history, lost, overflows>>

-----------------------------------------------------------------------------
(***************************************************************************)
(* Run.                                                                    *)
(***************************************************************************)
Goto(label, w) == pc' = label /\ at' = w

\* Open(directory): no such directory, or no handle, monitor or request,
\* leaves the watcher closed; Run ignores the result.
Open ==
  /\ pc = "open"
  /\ Goto("register", at)
  /\ \/ /\ good' = [good EXCEPT ![at] = TRUE]
        /\ pending' = [pending EXCEPT ![at] = TRUE]
     \/ UNCHANGED <<good, pending>>
  /\ UNCHANGED <<StopBit, callback, box, handlers, Buffer, recorded, overflowed,
                 apcs, world, ghosts>>

\* SetUid and the four calls of SetEventHandler.
SetEventHandlers ==
  /\ pc = "register"
  /\ handlers' = [handlers EXCEPT ![at] = TRUE]
  /\ IF at < NWatchers THEN Goto("open", at + 1) ELSE Goto("check", 1)
  /\ UNCHANGED <<StopBit, callback, box, good, Buffer, kernel, world, ghosts>>

CheckStopBit ==
  /\ pc = "check"
  /\ IF StopBit = 0 THEN Goto("close", NWatchers) ELSE Goto("heartbeat", 1)
  /\ UNCHANGED <<StopBit, callback, box, objects, kernel, world, ghosts>>

\* Mutation: one watcher too many.
NextHeartbeatTooFar ==
  IF at <= NWatchers THEN Goto("heartbeat", at + 1) ELSE Goto("check", 1)

NextHeartbeat == IF at < NWatchers THEN Goto("heartbeat", at + 1) ELSE Goto("check", 1)

\* A watcher that is not good skips the sleep.
Heartbeat ==
  /\ pc = "heartbeat"
  /\ IF good[at] THEN Goto("sleep", at) ELSE NextHeartbeat
  /\ UNCHANGED <<StopBit, callback, box, objects, kernel, world, ghosts>>

\* SleepEx returns on its time-out or when its APCs have run, those that were
\* queued meanwhile included.  That it returns at all is owed to MaxChanges here;
\* Heartbeats has changes without end.
SleepExReturns ==
  /\ Alertable /\ apcs = <<>>
  /\ NextHeartbeat
  /\ UNCHANGED <<StopBit, callback, box, objects, kernel, world, ghosts>>

\* The destructors run in the reverse order.  Closing the handle aborts the
\* outstanding request: its completion is queued, the monitor is freed.
Close ==
  /\ pc = "close"
  /\ IF at > 1 THEN Goto("close", at - 1) ELSE Goto("ended", 1)
  /\ good' = [good EXCEPT ![at] = FALSE]
  /\ pending' = [pending EXCEPT ![at] = FALSE]
  /\ apcs' = IF pending[at] THEN Append(apcs, [w |-> at, success |-> FALSE]) ELSE apcs
  /\ Buffer' = [Buffer EXCEPT ![at] = <<>>]
  /\ recorded' = [recorded EXCEPT ![at] = <<>>]
  /\ overflowed' = [overflowed EXCEPT ![at] = FALSE]
  /\ UNCHANGED <<StopBit, callback, box, handlers, world, ghosts>>

\* OnLOGOUT in the dialog's thread: m_FSW.StopBit = 0.
RequestStop ==
  /\ StopBit = 1 /\ StopBit' = 0
  /\ UNCHANGED <<pc, at, callback, box, objects, kernel, world, ghosts>>

-----------------------------------------------------------------------------
Kernel(w) == CompleteWithRecords(w) \/ CompleteOverflow(w)

Users(w) ==
  \/ \E name \in Names : \/ CreateAFile(w, name)
                         \/ ChangeAFile(w, name)
                         \/ DeleteAFile(w, name)
                         \/ \E to \in Names : RenameAFile(w, name, to)
  \/ ReportNewName(w)

Callback ==
  DeliverApc \/ RememberOldName \/ HandleEvent \/ HandleEventFails \/ Repost

Run ==
  Open \/ SetEventHandlers \/ CheckStopBit \/ Heartbeat \/ SleepExReturns \/ Close

\* The process lives on after the thread has ended.
Ended == pc = "ended" /\ UNCHANGED vars

Next ==
  \/ Run \/ Callback \/ DismissBox \/ RequestStop \/ Ended
  \/ \E w \in Watchers : Kernel(w) \/ CompleteWithError(w) \/ Users(w)

Spec == Init /\ [][Next]_vars

(***************************************************************************)
(* The scheduler runs the thread, the kernel completes requests and        *)
(* finishes reporting a rename.  Nobody has to dismiss a message box, to   *)
(* change a file or to log out.                                            *)
(***************************************************************************)
Fairness ==
  /\ WF_vars(Run \/ Callback)
  /\ \A w \in Watchers : WF_vars(Kernel(w)) /\ WF_vars(ReportNewName(w))

FairSpec == Spec /\ Fairness

-----------------------------------------------------------------------------
(***************************************************************************)
(* Properties.                                                             *)
(***************************************************************************)

\* The type of the state, with the kernel's buffer kept within its size.
TypeOK ==
  /\ pc \in {"open", "register", "check", "heartbeat", "sleep", "close", "ended"}
  /\ at \in Watchers /\ StopBit \in {0, 1} /\ box \in BOOLEAN
  /\ callback = Idle \/ callback \in [w : Watchers, next : 1 .. Capacity + 1,
                                      oldFileName : Extracted \cup {NoName}]
  /\ good \in [Watchers -> BOOLEAN] /\ handlers \in [Watchers -> BOOLEAN]
  /\ pending \in [Watchers -> BOOLEAN] /\ overflowed \in [Watchers -> BOOLEAN]
  /\ \A w \in Watchers :
        /\ Buffer[w] \in Seq(Record) /\ Len(Buffer[w]) <= Capacity
        /\ recorded[w] \in Seq(Record) /\ Len(recorded[w]) <= Capacity
        /\ history[w] \in Seq(Change)
  /\ apcs \in Seq([w : Watchers, success : BOOLEAN])
  /\ present \in [Watchers -> SUBSET Names] /\ renaming \in [Watchers -> BOOLEAN]
  /\ FILE_LOG \in Seq(Row)
  /\ lost \in [Watchers -> SUBSET (1 .. MaxChanges)]
  /\ overflows \in [Watchers -> Nat] /\ faults \in 0 .. MaxFaults

Rows == {FILE_LOG[i] : i \in 1 .. Len(FILE_LOG)}

Volume(row) == row.NEW_FILE_PATH.volume

\* Every row tells a change that happened, also when a stale buffer is read
\* again after an overflow; the old path of a rename is that rename's or, when
\* its two records came in different buffers, the root of the volume.
RowsTellWhatHappened ==
  \A row \in Rows :
    /\ row.change <= Len(history[Volume(row)])
    /\ LET change == history[Volume(row)][row.change]
           old == GetFullPath(Volume(row), change.name)
       IN  /\ <<change.op, row.EVENT_TYPE>> \in
                {<<"ADDED", "CREATED">>, <<"REMOVED", "DELETED">>,
                 <<"MODIFIED", "CHANGED">>, <<"RENAMED", "RENAME">>}
           /\ IF change.op = "RENAMED"
              THEN /\ row.NEW_FILE_NAME = ExtractFileName(change.to)
                   /\ row.OLD_FILE_PATH \in {old, Combine(Volume(row), NoName)}
              ELSE /\ row.NEW_FILE_PATH = old
                   /\ row.OLD_FILE_PATH = NoPath

\* The changes of volume w that are on their way: recorded, in a buffer whose
\* completion is queued or being walked, or a rename still to be reported.
InFlight(w) ==
  ChangesOf(recorded[w])
    \cup (IF [w |-> w, success |-> TRUE] \in {apcs[i] : i \in 1 .. Len(apcs)}
          THEN ChangesOf(Buffer[w]) ELSE {})
    \cup (IF callback.w = w
          THEN {Buffer[w][i].change : i \in callback.next .. Len(Buffer[w])} ELSE {})
    \cup (IF renaming[w] THEN {Len(history[w])} ELSE {})

\* Until the thread stops, a change of an open volume is in the table, on its
\* way, or was lost to an overflow or to a failed insert: no interleaving of
\* completions, callbacks and requests drops one.
NothingVanishes ==
  pc \notin {"close", "ended"} =>
    \A w \in Watchers : \A change \in 1 .. Len(history[w]) :
      \/ \E row \in Rows : Volume(row) = w /\ row.change = change
      \/ change \in lost[w] \cup InFlight(w)

\* The attributes are read when the event is handled, not when it happened: a
\* row with all flags set means that a later change took the file away, or that
\* its name did not survive the conversion.
AllYesMeansGone ==
  \A row \in Rows : row.attributes = "all_YES" =>
    \/ row.NEW_FILE_NAME = Mangled
    \/ \E later \in row.change + 1 .. Len(history[Volume(row)]) :
         LET change == history[Volume(row)][later]
         IN  change.op \in {"REMOVED", "RENAMED"} /\ change.name = row.NEW_FILE_NAME

\* The kernel never owns a buffer that a queued or running callback reads, and
\* no watcher has two completions in the queue.  Somebody owns the buffer of an open
\* watcher: only a request for more that failed leaves it deaf.
Owners(w) ==
  Cardinality({i \in 1 .. Len(apcs) : apcs[i].w = w})
    + (IF callback.w = w THEN 1 ELSE 0) + (IF pending[w] THEN 1 ELSE 0)

Deaf(w) == good[w] /\ Owners(w) = 0

OneOwnerOfBuffer ==
  \A w \in Watchers : Owners(w) <= 1 /\ (Deaf(w) => faults > 0)

\* The completions that Close aborts never run: they would use a freed monitor.
NoCallbackAfterFree == callback # Idle => good[callback.w]

\* The changes that the rows tell of volume w, oldest row first.
LoggedChanges(rows, w) ==
  LET trail[i \in 0 .. Len(rows)] ==
        IF i = 0 THEN <<>>
        ELSE IF Volume(rows[i]) = w THEN Append(trail[i - 1], rows[i].change)
        ELSE trail[i - 1]
  IN  trail[Len(rows)]

\* The trail of each volume is a faithful history as long as nothing is lost, and
\* goes back only after an overflow.
Trail == INSTANCE AuditTrail WITH
  Volumes <- Watchers,
  happened <- [w \in Watchers |-> Len(history[w])],
  logged <- [w \in Watchers |-> LoggedChanges(FILE_LOG, w)],
  broken <- [w \in Watchers |-> lost[w] # {}]

ImplementsAuditTrail == Trail!Spec

\* Every change gets its row, unless it is lost to an overflow or a failed insert, a fault
\* left the watcher deaf, a message box waits or the user logs out.
EveryChangeIsLogged ==
  \A w \in Watchers : \A change \in 1 .. MaxChanges :
    Len(history[w]) >= change ~>
      \/ \E row \in Rows : Volume(row) = w /\ row.change = change
      \/ change \in lost[w] \/ (Deaf(w) /\ faults > 0) \/ box \/ StopBit = 0

\* The sample rows of FAdbDump.sql (line 60) carry a renamed file's old name in
\* OLD_FILE_NAME next to its old path.
RenameKeepsOldName ==
  \A row \in Rows : row.OLD_FILE_NAME = row.OLD_FILE_PATH.file
=============================================================================

----------------------------- MODULE Heartbeats -----------------------------
(***************************************************************************)
(* The control of one watcher thread, with changes that need not end: when *)
(* SleepEx returns, so that Run looks at StopBit, and when a callback of   *)
(* one volume runs inside that of another.  What the records say is the    *)
(* subject of FileSystemWatcher; here a completion is a number of records. *)
(*                                                                         *)
(* A completion runs only while the thread waits alertably: in SleepEx,    *)
(* and in the blocking socket calls that the MySQL client makes for        *)
(* FileLog (external).  A message box is no alertable wait.                *)
(***************************************************************************)
EXTENDS Integers, Sequences, FiniteSets

CONSTANTS NWatchers,  \* watchers of Run: D:\ and C:\
          Capacity    \* records that fit into MONITOR::Buffer

ASSUME ConstantsAssumption == NWatchers \in Nat \ {0} /\ Capacity \in Nat \ {0}

Watchers == 1 .. NWatchers

VARIABLES
  pc, at,    \* where Run is, and the watcher it is working on
  StopBit,
  walks,     \* the callbacks under way, the innermost last
  box,       \* the innermost one shows FileLog's AfxMessageBox
  good,      \* good[w]: handle and monitor exist (IsGood)
  pending,   \* pending[w]: a ReadDirectoryChangesW request is outstanding
  dirty,     \* dirty[w]: the kernel has something to report of the volume
  apcs,      \* completions queued to the thread
  database   \* the volumes with the files of the database

vars == <<pc, at, StopBit, walks, box, good, pending, dirty, apcs, database>>

Init ==
  /\ pc = "open" /\ at = 1 /\ StopBit = 1
  /\ walks = <<>> /\ box = FALSE
  /\ good = [w \in Watchers |-> FALSE]
  /\ pending = [w \in Watchers |-> FALSE]
  /\ dirty = [w \in Watchers |-> FALSE]
  /\ apcs = <<>>
  /\ database \in SUBSET Watchers

-----------------------------------------------------------------------------
(***************************************************************************)
(* The volumes and the kernel.                                             *)
(***************************************************************************)
Change(w) ==
  /\ good[w]
  /\ dirty' = [dirty EXCEPT ![w] = TRUE]
  /\ UNCHANGED <<pc, at, StopBit, walks, box, good, pending, apcs, database>>

\* The completion of w is queued, with the number of records to walk.
Queue(w, records) ==
  /\ pending[w]
  /\ pending' = [pending EXCEPT ![w] = FALSE]
  /\ apcs' = Append(apcs, [w |-> w, left |-> records])
  /\ UNCHANGED <<pc, at, StopBit, walks, box, good, database>>

\* No record is walked when the kernel reports its overflow as an error.
Complete(w) ==
  /\ dirty[w] /\ dirty' = [dirty EXCEPT ![w] = FALSE]
  /\ \E records \in 0 .. Capacity : Queue(w, records)

CompleteWithError(w) == Queue(w, 0) /\ UNCHANGED dirty

-----------------------------------------------------------------------------
(***************************************************************************)
(* FileSystemWatcherCallback.                                              *)
(***************************************************************************)
Innermost == walks[Len(walks)]
Outer == SubSeq(walks, 1, Len(walks) - 1)

\* The innermost callback goes on as walk.
GoOn(walk) ==
  /\ walks' = Append(Outer, walk)
  /\ UNCHANGED <<pc, at, StopBit, good, pending, apcs, database>>

Alertable ==
  /\ ~box
  /\ IF walks = <<>> THEN pc = "sleep" ELSE Innermost.inserting

Enter(apc) == [w |-> apc.w, left |-> apc.left, inserting |-> FALSE]

\* Mutation: the next request is posted before the buffer is walked.
DeliverApcReposts ==
  /\ Alertable /\ apcs # <<>>
  /\ walks' = Append(walks, Enter(Head(apcs)))
  /\ apcs' = Tail(apcs)
  /\ pending' = [pending EXCEPT ![Head(apcs).w] = TRUE]
  /\ UNCHANGED <<pc, at, StopBit, box, good, dirty, database>>

DeliverApc ==
  /\ Alertable /\ apcs # <<>>
  /\ walks' = Append(walks, Enter(Head(apcs)))
  /\ apcs' = Tail(apcs)
  /\ UNCHANGED <<pc, at, StopBit, box, good, pending, dirty, database>>

AtRecord == walks # <<>> /\ ~box /\ ~Innermost.inserting /\ Innermost.left > 0

\* The first half of a rename has no handler.
RememberOldName ==
  /\ AtRecord
  /\ GoOn([Innermost EXCEPT !.left = @ - 1])
  /\ UNCHANGED <<box, dirty>>

\* The handler calls FileLog, which waits for the server.
FileLog ==
  /\ AtRecord
  /\ GoOn([Innermost EXCEPT !.inserting = TRUE])
  /\ UNCHANGED <<box, dirty>>

Answered == walks # <<>> /\ ~box /\ Innermost.inserting

\* The new row is a change of the volume that the database is on.
FileLogReturns ==
  /\ Answered
  /\ GoOn([Innermost EXCEPT !.left = @ - 1, !.inserting = FALSE])
  /\ dirty' = [w \in Watchers |-> dirty[w] \/ (good[w] /\ w \in database)]
  /\ UNCHANGED box

\* The catch clause of FileLog shows a message box and drops the row.
FileLogFails ==
  /\ Answered
  /\ GoOn([Innermost EXCEPT !.left = @ - 1, !.inserting = FALSE])
  /\ box' = TRUE
  /\ UNCHANGED dirty

DismissBox ==
  /\ box /\ box' = FALSE
  /\ UNCHANGED <<pc, at, StopBit, walks, good, pending, dirty, apcs, database>>

\* The callback ends with the next request, whose failure is not noticed.
Repost ==
  /\ walks # <<>> /\ ~box /\ ~Innermost.inserting /\ Innermost.left = 0
  /\ walks' = Outer
  /\ \/ pending' = [pending EXCEPT ![Innermost.w] = good[Innermost.w]]
     \/ UNCHANGED pending
  /\ UNCHANGED <<pc, at, StopBit, box, good, dirty, apcs, database>>

-----------------------------------------------------------------------------
(***************************************************************************)
(* Run.                                                                    *)
(***************************************************************************)
Goto(label, w) == pc' = label /\ at' = w

\* Opening a watcher may fail, and Run ignores it.
Open ==
  /\ pc = "open"
  /\ IF at < NWatchers THEN Goto("open", at + 1) ELSE Goto("check", 1)
  /\ \/ /\ good' = [good EXCEPT ![at] = TRUE]
        /\ pending' = [pending EXCEPT ![at] = TRUE]
     \/ UNCHANGED <<good, pending>>
  /\ UNCHANGED <<StopBit, walks, box, dirty, apcs, database>>

\* Mutation: StopBit, which is not volatile, is read once before the loop.
CheckStopBitHoisted ==
  /\ pc = "check"
  /\ Goto("heartbeat", 1)
  /\ UNCHANGED <<StopBit, walks, box, good, pending, dirty, apcs, database>>

CheckStopBit ==
  /\ pc = "check"
  /\ IF StopBit = 0 THEN Goto("close", NWatchers) ELSE Goto("heartbeat", 1)
  /\ UNCHANGED <<StopBit, walks, box, good, pending, dirty, apcs, database>>

NextHeartbeat == IF at < NWatchers THEN Goto("heartbeat", at + 1) ELSE Goto("check", 1)

\* A watcher that is not good skips the sleep.
Heartbeat ==
  /\ pc = "heartbeat"
  /\ IF good[at] THEN Goto("sleep", at) ELSE NextHeartbeat
  /\ UNCHANGED <<StopBit, walks, box, good, pending, dirty, apcs, database>>

\* SleepEx returns on its time-out or after its completions have run, and runs
\* first what was queued meanwhile: each callback's request may already have
\* queued the next completion.
SleepExReturns ==
  /\ pc = "sleep" /\ walks = <<>> /\ ~box /\ apcs = <<>>
  /\ NextHeartbeat
  /\ UNCHANGED <<StopBit, walks, box, good, pending, dirty, apcs, database>>

\* The destructors; the completion of an aborted request is queued and never runs.
Close ==
  /\ pc = "close"
  /\ IF at > 1 THEN Goto("close", at - 1) ELSE Goto("ended", 1)
  /\ good' = [good EXCEPT ![at] = FALSE]
  /\ pending' = [pending EXCEPT ![at] = FALSE]
  /\ dirty' = [dirty EXCEPT ![at] = FALSE]
  /\ apcs' = IF pending[at] THEN Append(apcs, [w |-> at, left |-> 0]) ELSE apcs
  /\ UNCHANGED <<StopBit, walks, box, database>>

\* OnLOGOUT in the dialog's thread: m_FSW.StopBit = 0.
RequestStop ==
  /\ StopBit = 1 /\ StopBit' = 0
  /\ UNCHANGED <<pc, at, walks, box, good, pending, dirty, apcs, database>>

-----------------------------------------------------------------------------
Callback ==
  DeliverApc \/ RememberOldName \/ FileLog \/ FileLogReturns \/ FileLogFails \/ Repost

Run == Open \/ CheckStopBit \/ Heartbeat \/ SleepExReturns \/ Close

\* The process lives on after the thread has ended.
Ended == pc = "ended" /\ UNCHANGED vars

Next ==
  \/ Run \/ Callback \/ DismissBox \/ RequestStop \/ Ended
  \/ \E w \in Watchers : Change(w) \/ Complete(w) \/ CompleteWithError(w)

\* The scheduler runs the thread and the server answers or is given up.
\* Nobody has to dismiss a message box, to stop changing files or to log out.
Spec == Init /\ [][Next]_vars
FairSpec == Spec /\ WF_vars(Run \/ Callback)

-----------------------------------------------------------------------------
(***************************************************************************)
(* Properties.                                                             *)
(***************************************************************************)

\* Callbacks nest, but never on one volume: every watcher has at most one of a
\* callback, a queued completion and a request, so its buffer is never walked by
\* two callbacks or written while one walks it; and only those of open watchers run.
WalksAreSeparate ==
  \A w \in Watchers :
    /\ Cardinality({i \in 1 .. Len(walks) : walks[i].w = w})
         + Cardinality({i \in 1 .. Len(apcs) : apcs[i].w = w})
         + (IF pending[w] THEN 1 ELSE 0) <= 1
    /\ (\E i \in 1 .. Len(walks) : walks[i].w = w) => good[w]

\* After StopBit = 0 the thread ends or waits in a message box, unless it is kept
\* busy for ever: by files that go on changing, by failing requests, or by its
\* own rows when the database is on a watched volume.
Disturbed ==
  \/ \E w \in Watchers : Change(w) \/ CompleteWithError(w)
  \/ FileLogReturns /\ \E w \in database : good[w]

StopEndsTheThread ==
  []<><<Disturbed>>_vars \/ (StopBit = 0 ~> (pc = "ended" \/ box))
=============================================================================

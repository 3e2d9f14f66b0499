----------------------------- MODULE UserNotice -----------------------------
(***************************************************************************)
(* The notice poller m_Un: a thread that asks the server every 100 ms      *)
(* whether its user has an unread notice, and shows a tooltip at the tray  *)
(* icon when there is one.                                                 *)
(*                                                                         *)
(* The query goes through the member m_Db, whose pointers con and res all  *)
(* threads of m_Un share.  GetNotice returns from inside its loop when it  *)
(* finds a row, and from its catch clause when a call fails; on both ways  *)
(* the connection stays open.  The server accepts MaxConnections of them.  *)
(***************************************************************************)
EXTENDS Naturals, FiniteSets

CONSTANTS Users,
          NoUser,          \* the empty string
          Torn,            \* a string copied while it was being assigned
          MaxStarts,       \* bound: threads created
          MaxConnections,  \* connections that the server accepts
          MaxFaults        \* bound: calls of the MySQL client that fail

ASSUME ConstantsAssumption ==
  /\ MaxStarts \in Nat /\ MaxConnections \in Nat /\ MaxFaults \in Nat
  /\ NoUser \notin Users /\ Torn \notin Users /\ Torn # NoUser

Threads == 1 .. MaxStarts
Connections == 1 .. MaxConnections
NULL == 0
Names == Users \cup {NoUser, Torn}
Locations == {"none", "created", "check", "nap", "connect", "query", "fetch", "delete",
              "box", "tooltip", "rest", "leave", "ended"}

VARIABLES
  \* CFAManagementDlg
  ui,          \* what its thread does in OnBnClickedButton5, or "idle"
  uid,
  exited,      \* the process has ended
  \* m_Un
  m_UID,
  StopBit,
  unmanned,    \* m_ThreadHandle is 0: the last StartThread created no thread
  con,         \* m_Db.con: a connection, or NULL
  res,         \* m_Db.res: the connection whose result it holds, or NULL
  \* the threads
  started,     \* threads created so far
  pc,          \* pc[t]: where thread t is
  asked,       \* asked[t]: the Uid of its GetNotice
  \* the heap and the server
  open,        \* connections that have not been deleted
  results,     \* results that have not been deleted
  rows,        \* rows[c]: the result of connection c has a row
  unread,      \* unread[u]: user u has an unread notice
  \* history
  startUid,    \* startUid[t]: m_UID when t was created
  returned,    \* connections given up by a return
  dangling,    \* a deleted object was used
  shown,       \* <<user whose notice it was, user t was started for>>
  afterStop,   \* tooltips since StopBit became 0
  overlapped,  \* a start came while a thread was alive
  faults       \* faults so far

dialog == <<ui, uid, exited>>
object == <<m_UID, StopBit, unmanned>>
m_Db == <<con, res>>
threads == <<started, pc, asked>>
heap == <<open, results, rows>>
history == <<startUid, returned, dangling, shown, afterStop, overlapped, faults>>
vars == <<dialog, object, m_Db, threads, heap, unread, history>>

Alive(t) == pc[t] \notin {"none", "ended"}

Init ==
  /\ ui = "idle" /\ uid = NoUser /\ exited = FALSE
  /\ m_UID = NoUser /\ StopBit \in {0, 1} /\ unmanned = FALSE
  /\ con = NULL /\ res = NULL
  /\ started = 0
  /\ pc = [t \in Threads |-> "none"]
  /\ asked = [t \in Threads |-> NoUser]
  /\ open = {} /\ results = {}
  /\ rows = [c \in Connections |-> FALSE]
  /\ unread = [u \in Users |-> FALSE]
  /\ startUid = [t \in Threads |-> NoUser]
  /\ returned = {} /\ dangling = FALSE /\ shown = {}
  /\ afterStop = 0 /\ overlapped = FALSE /\ faults = 0

-----------------------------------------------------------------------------
(***************************************************************************)
(* The dialog's thread: a login sets uid, button 5 starts the poller with  *)
(* SetInit and StartThread, button 6 and a logout stop it.                 *)
(***************************************************************************)
OnBnClickedOk(name) ==
  /\ ui = "idle" /\ ~exited
  /\ uid' = name
  /\ UNCHANGED <<ui, exited, object, m_Db, threads, heap, unread, history>>

OnBnClickedButton5 ==
  /\ ui = "idle" /\ ~exited /\ started < MaxStarts
  /\ ui' = "assign_m_UID"
  /\ m_UID' = Torn
  /\ overlapped' = (overlapped \/ \E t \in Threads : Alive(t))
  /\ UNCHANGED <<uid, exited, StopBit, unmanned, m_Db, threads, heap, unread, startUid,
                 returned, dangling, shown, afterStop, faults>>

AssignUid ==
  /\ ui = "assign_m_UID" /\ ~exited
  /\ ui' = "assign_StopBit"
  /\ m_UID' = uid
  /\ UNCHANGED <<uid, exited, StopBit, unmanned, m_Db, threads, heap, unread, history>>

AssignStopBit ==
  /\ ui = "assign_StopBit" /\ ~exited
  /\ ui' = "create_thread"
  /\ StopBit' = 1
  /\ afterStop' = 0
  /\ UNCHANGED <<uid, exited, m_UID, unmanned, m_Db, threads, heap, unread, startUid,
                 returned, dangling, shown, overlapped, faults>>

CreateThread ==
  /\ ui = "create_thread" /\ ~exited
  /\ ui' = "idle"
  /\ started' = started + 1
  /\ pc' = [pc EXCEPT ![started + 1] = "created"]
  /\ startUid' = [startUid EXCEPT ![started + 1] = m_UID]
  /\ unmanned' = FALSE
  /\ UNCHANGED <<uid, exited, m_UID, StopBit, m_Db, asked, heap, unread, returned,
                 dangling, shown, afterStop, overlapped, faults>>

\* _beginthreadex returns 0, and nobody looks at m_ThreadHandle.
CreateThreadFails ==
  /\ ui = "create_thread" /\ ~exited
  /\ ui' = "idle"
  /\ unmanned' = TRUE
  /\ UNCHANGED <<uid, exited, m_UID, StopBit, m_Db, threads, heap, unread, history>>

OnBnClickedButton6 ==
  /\ ui = "idle" /\ ~exited
  /\ StopBit' = 0
  /\ UNCHANGED <<dialog, m_UID, unmanned, m_Db, threads, heap, unread, history>>

-----------------------------------------------------------------------------
(***************************************************************************)
(* Run, with the calls of GetNotice(0, m_UID, FALSE).                      *)
(***************************************************************************)
Step(t, from, to) ==
  ~exited /\ pc[t] = from /\ pc' = [pc EXCEPT ![t] = to]

\* What every step of a thread leaves alone.
Frame == UNCHANGED <<ui, uid, object, started, unread, startUid, overlapped>>

Update(t) ==
  /\ Step(t, "created", "check") /\ Frame
  /\ UNCHANGED <<exited, m_Db, asked, heap, returned, dangling, shown, afterStop, faults>>

\* Mutation: StopBit, which is not volatile, is read once before the loop.
CheckStopBitHoisted(t) ==
  /\ Step(t, "check", "nap") /\ Frame
  /\ UNCHANGED <<exited, m_Db, asked, heap, returned, dangling, shown, afterStop, faults>>

CheckStopBit(t) ==
  /\ Step(t, "check", IF StopBit = 0 THEN "leave" ELSE "nap") /\ Frame
  /\ UNCHANGED <<exited, m_Db, asked, heap, returned, dangling, shown, afterStop, faults>>

\* Mutation: the query asks for the user of the dialog.
CallGetNoticeOfDialog(t) ==
  /\ Step(t, "nap", "connect") /\ Frame
  /\ asked' = [asked EXCEPT ![t] = uid]
  /\ UNCHANGED <<exited, m_Db, heap, returned, dangling, shown, afterStop, faults>>

\* After the sleep the parameter is copied from m_UID.
CallGetNotice(t) ==
  /\ Step(t, "nap", "connect") /\ Frame
  /\ asked' = [asked EXCEPT ![t] = m_UID]
  /\ UNCHANGED <<exited, m_Db, heap, returned, dangling, shown, afterStop, faults>>

Connect(t) ==
  /\ Step(t, "connect", "query") /\ Frame
  /\ \E c \in Connections \ open :
       /\ con' = c
       /\ open' = open \cup {c}
  /\ UNCHANGED <<exited, res, asked, results, rows, returned, dangling, shown,
                 afterStop, faults>>

Fault == faults < MaxFaults /\ faults' = faults + 1

\* Mutation: a refused connection ends the poller.
ConnectFailsBreaks(t) ==
  /\ Step(t, "connect", "leave") /\ Frame
  /\ IF Connections = open THEN UNCHANGED faults ELSE Fault
  /\ UNCHANGED <<exited, m_Db, asked, heap, returned, dangling, shown, afterStop>>

\* A server without a free connection refuses, too; con keeps its value.
ConnectFails(t) ==
  /\ Step(t, "connect", "box") /\ Frame
  /\ IF Connections = open THEN UNCHANGED faults ELSE Fault
  /\ UNCHANGED <<exited, m_Db, asked, heap, returned, dangling, shown, afterStop>>

ExecuteQuery(t) ==
  /\ Step(t, "query", "fetch") /\ Frame
  /\ con \in open
  /\ res' = con
  /\ results' = results \cup {con}
  /\ rows' = [rows EXCEPT ![con] = asked[t] \in Users /\ unread[asked[t]]]
  /\ UNCHANGED <<exited, con, asked, open, returned, dangling, shown, afterStop, faults>>

\* The catch clause shows a message box and deletes nothing.
ExecuteQueryFails(t) ==
  /\ Step(t, "query", "box") /\ Frame
  /\ con \in open /\ Fault
  /\ returned' = returned \cup {con}
  /\ UNCHANGED <<exited, m_Db, asked, heap, dangling, shown, afterStop>>

\* Mutation: without a list control GetNotice always returns false.
FetchRowAsNothing(t) ==
  /\ Step(t, "fetch", "delete") /\ Frame
  /\ res \in results /\ rows[res]
  /\ UNCHANGED <<exited, m_Db, asked, heap, returned, dangling, shown, afterStop, faults>>

\* A row: return true.
FetchRow(t) ==
  /\ Step(t, "fetch", "tooltip") /\ Frame
  /\ res \in results /\ rows[res]
  /\ returned' = returned \cup {res}
  /\ UNCHANGED <<exited, m_Db, asked, heap, dangling, shown, afterStop, faults>>

FetchNothing(t) ==
  /\ Step(t, "fetch", "delete") /\ Frame
  /\ res \in results /\ ~rows[res]
  /\ UNCHANGED <<exited, m_Db, asked, heap, returned, dangling, shown, afterStop, faults>>

\* Mutation: delete con is forgotten.
DeleteWithoutCon(t) ==
  /\ Step(t, "delete", "check") /\ Frame
  /\ res \in results /\ con \in open
  /\ results' = results \ {res}
  /\ UNCHANGED <<exited, m_Db, asked, open, rows, returned, dangling, shown, afterStop,
                 faults>>

\* delete res, ..., delete con: the pointers keep their values.
Delete(t) ==
  /\ Step(t, "delete", "check") /\ Frame
  /\ res \in results /\ con \in open
  /\ results' = results \ {res}
  /\ open' = open \ {con}
  /\ UNCHANGED <<exited, m_Db, asked, rows, returned, dangling, shown, afterStop, faults>>

\* The use of an object that another thread has deleted is undefined: the
\* process may crash, or the thread may come away with it.
UseAfterDelete(t) ==
  /\ \/ Step(t, "query", "check") /\ con \notin open
     \/ Step(t, "fetch", "check") /\ res \notin results
     \/ Step(t, "delete", "check") /\ (res \notin results \/ con \notin open)
  /\ Frame
  /\ dangling' = TRUE
  /\ exited' \in BOOLEAN
  /\ UNCHANGED <<m_Db, asked, heap, returned, shown, afterStop, faults>>

\* GetNotice shows its message box in the thread of the caller.
DismissBox(t) ==
  /\ Step(t, "box", "check") /\ Frame
  /\ UNCHANGED <<exited, m_Db, asked, heap, returned, dangling, shown, afterStop, faults>>

TrayIconTooltip(t) ==
  /\ Step(t, "tooltip", "rest") /\ Frame
  /\ shown' = shown \cup {<<asked[t], startUid[t]>>}
  /\ afterStop' = IF StopBit = 0 THEN afterStop + 1 ELSE afterStop
  /\ UNCHANGED <<exited, m_Db, asked, heap, returned, dangling, faults>>

Rest(t) ==
  /\ Step(t, "rest", "check") /\ Frame
  /\ UNCHANGED <<exited, m_Db, asked, heap, returned, dangling, shown, afterStop, faults>>

EndRun(t) ==
  /\ Step(t, "leave", "ended") /\ Frame
  /\ UNCHANGED <<exited, m_Db, asked, heap, returned, dangling, shown, afterStop, faults>>

-----------------------------------------------------------------------------
\* An administrator sends a notice, or a user reads the last one.
Notices(u) ==
  /\ ~exited
  /\ unread' = [unread EXCEPT ![u] = ~@]
  /\ UNCHANGED <<dialog, object, m_Db, threads, heap, history>>

Dialog ==
  \/ \E name \in Users : OnBnClickedOk(name)
  \/ OnBnClickedButton5 \/ AssignUid \/ AssignStopBit \/ CreateThread
  \/ CreateThreadFails \/ OnBnClickedButton6

Thread(t) ==
  \/ Update(t) \/ CheckStopBit(t) \/ CallGetNotice(t)
  \/ Connect(t) \/ ConnectFails(t) \/ ExecuteQuery(t) \/ ExecuteQueryFails(t)
  \/ FetchRow(t) \/ FetchNothing(t) \/ Delete(t) \/ UseAfterDelete(t)
  \/ TrayIconTooltip(t) \/ Rest(t) \/ EndRun(t)

Next ==
  \/ Dialog
  \/ \E t \in Threads : Thread(t) \/ DismissBox(t)
  \/ \E u \in Users : Notices(u)

Spec == Init /\ [][Next]_vars

\* The scheduler runs the threads; nobody has to dismiss a message box.
FairSpec ==
  /\ Spec
  /\ WF_vars(AssignUid \/ AssignStopBit \/ CreateThread \/ CreateThreadFails)
  /\ \A t \in Threads : WF_vars(Thread(t))

-----------------------------------------------------------------------------
(***************************************************************************)
(* Properties.                                                             *)
(***************************************************************************)

\* The type of the state; threads are numbered in the order of their creation.
TypeOK ==
  /\ ui \in {"idle", "assign_m_UID", "assign_StopBit", "create_thread"}
  /\ uid \in Users \cup {NoUser} /\ exited \in BOOLEAN
  /\ m_UID \in Names /\ StopBit \in {0, 1} /\ unmanned \in BOOLEAN
  /\ con \in Connections \cup {NULL} /\ res \in Connections \cup {NULL}
  /\ started \in 0 .. MaxStarts
  /\ ui # "idle" => started < MaxStarts
  /\ pc \in [Threads -> Locations]
  /\ \A t \in Threads : pc[t] = "none" <=> t > started
  /\ asked \in [Threads -> Names]
  /\ open \subseteq Connections /\ results \subseteq open
  /\ rows \in [Connections -> BOOLEAN] /\ unread \in [Users -> BOOLEAN]
  /\ startUid \in [Threads -> Names]
  /\ returned \subseteq Connections /\ dangling \in BOOLEAN
  /\ shown \subseteq Names \X Names /\ afterStop \in Nat
  /\ overlapped \in BOOLEAN /\ faults \in 0 .. MaxFaults

\* Without overlapping threads no deleted connection or result is used, and the
\* only connections left open are the one in use and those given up by a return.
ConnectionsAccountedFor ==
  ~overlapped =>
    /\ ~dangling
    /\ returned \subseteq open
    /\ \A c \in open \ returned :
         c = con /\ \E t \in Threads : pc[t] \in {"query", "fetch", "delete"}

\* Without overlapping threads a tooltip announces a notice of the user for whom
\* the poller was started, and at most one more appears after a stop.
TooltipsForTheUser ==
  ~overlapped =>
    /\ \A pair \in shown : pair[1] = pair[2] /\ pair[1] # Torn
    /\ afterStop <= 1

\* An unread notice is announced, unless it is read, the poller is stopped or it
\* waits in a message box.
Polling(t, u) == Alive(t) /\ m_UID = u /\ StopBit = 1 /\ ui = "idle"

UnreadIsAnnounced ==
  \A t \in Threads : \A u \in Users :
    (Polling(t, u) /\ unread[u]) ~>
      (pc[t] \in {"tooltip", "box"} \/ ~unread[u] \/ ~Polling(t, u) \/ exited)

\* A stop ends all threads, unless one waits in a message box.
StopEndsThreads ==
  StopBit = 0 ~>
    (StopBit = 1 \/ exited \/ \A t \in Threads : Alive(t) => pc[t] = "box")

\* m_Un is a worker with a stop flag.
WorkerState(t) ==
  CASE pc[t] = "none" -> "none"
    [] pc[t] = "leave" -> "leaving"
    [] pc[t] = "ended" -> "ended"
    [] OTHER -> "running"

Worker == INSTANCE StopFlagWorker WITH
  flag <- StopBit,
  armed <- ui = "create_thread",
  spawned <- started,
  state <- [t \in Threads |-> WorkerState(t)]

ImplementsStopFlagWorker == Worker!Spec
=============================================================================

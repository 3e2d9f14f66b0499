--------------------------- MODULE WatcherThreads ---------------------------
(***************************************************************************)
(* The file watcher object m_FSW between the dialog, which starts and      *)
(* stops it, and the threads that Run executes.  Every start creates a     *)
(* thread that copies m_WatcherUid twice, once for the watcher of D:\ and  *)
(* once for that of C:\, and then logs the changes of the volumes under    *)
(* the copies until it reads StopBit = 0.                                  *)
(*                                                                         *)
(* m_WatcherUid is a std::string that the dialog's thread assigns while a  *)
(* watcher thread may copy it: a copy taken in the middle is Torn.         *)
(***************************************************************************)
EXTENDS Naturals

CONSTANTS Users,       \* what can be typed into the login dialog
          NoUser,      \* the empty string
          Torn,        \* a string copied while it was being assigned
          MaxStarts    \* bound: threads created

ASSUME ConstantsAssumption ==
  /\ MaxStarts \in Nat
  /\ NoUser \notin Users /\ Torn \notin Users /\ Torn # NoUser

Threads == 1 .. MaxStarts
Volumes == {1, 2}               \* D:\ and C:\
Names == Users \cup {NoUser, Torn}
Lives == {"LIFE_DEF", "LIFE_LIVE", "LIFE_TERMINATE"}

\* Where a thread and the dialog's thread can be.
Locations == {"none", "created", "open_D", "open_C", "check", "heartbeat", "close", "ended"}
DialogSteps == {"idle", "assign_m_WatcherUid", "assign_StopBit", "create_thread"}

VARIABLES
  \* CFAManagementDlg
  ui,           \* what its thread is doing in StartThread, or "idle"
  uid,
  m_Loginbit,
  exited,       \* exit(1) has been called
  \* m_FSW
  m_WatcherUid,
  StopBit,
  m_cLife,
  \* the threads
  started,      \* threads created so far
  pc,           \* pc[t]: where thread t is
  copy,         \* copy[t][v]: m_WatcherUid of the watcher of volume v
  \* history
  startUids,    \* startUids[t]: the argument of the StartThread that created t, and
                \* those of the calls since that created no thread
  unmanned,     \* m_ThreadHandle is 0: the last StartThread created no thread
  overlapped,   \* a StartThread came while a thread was alive
  devUsed,      \* the hidden button 3 or 4 of the dialog was used
  lastRow       \* <<user of the last row, user logged in when it was written>>

dialog == <<ui, uid, m_Loginbit, exited>>
object == <<m_WatcherUid, StopBit, m_cLife>>
threads == <<started, pc, copy>>
history == <<startUids, unmanned, overlapped, devUsed, lastRow>>
vars == <<dialog, object, threads, history>>

Alive(t) == pc[t] \notin {"none", "ended"}

(* No constructor initialises StopBit or m_cLife. *)
Init ==
  /\ ui = "idle" /\ uid = NoUser /\ m_Loginbit = FALSE /\ exited = FALSE
  /\ m_WatcherUid = NoUser /\ StopBit \in {0, 1}
  /\ m_cLife \in Lives
  /\ started = 0
  /\ pc = [t \in Threads |-> "none"]
  /\ copy = [t \in Threads |-> [v \in Volumes |-> NoUser]]
  /\ startUids = [t \in Threads |-> {}]
  /\ unmanned = FALSE /\ overlapped = FALSE /\ devUsed = FALSE
  /\ lastRow = <<NoUser, NoUser>>

-----------------------------------------------------------------------------
(***************************************************************************)
(* The dialog's thread.  StartThread assigns m_WatcherUid, then StopBit,   *)
(* then calls _beginthreadex; the threads run in between.                  *)
(***************************************************************************)
BeginStartThread ==
  /\ ui = "idle" /\ ~exited /\ started < MaxStarts
  /\ ui' = "assign_m_WatcherUid"
  /\ m_WatcherUid' = Torn
  /\ overlapped' = (overlapped \/ \E t \in Threads : Alive(t))
  /\ UNCHANGED <<exited, StopBit, m_cLife, threads, startUids, unmanned, lastRow>>

\* The login itself is switched off: every user name and password are accepted.
OnBnClickedOk(name) ==
  /\ BeginStartThread
  /\ uid' = name
  /\ m_Loginbit' = TRUE
  /\ UNCHANGED devUsed

OnBnClickedButton3 ==
  /\ BeginStartThread
  /\ devUsed' = TRUE
  /\ UNCHANGED <<uid, m_Loginbit>>

AssignUid ==
  /\ ui = "assign_m_WatcherUid" /\ ui' = "assign_StopBit"
  /\ m_WatcherUid' = uid
  /\ UNCHANGED <<uid, m_Loginbit, exited, StopBit, m_cLife, threads, history>>

\* Mutation: StartThread does not raise StopBit.
AssignStopBitForgotten ==
  /\ ui = "assign_StopBit" /\ ui' = "create_thread"
  /\ UNCHANGED <<uid, m_Loginbit, exited, object, threads, history>>

AssignStopBit ==
  /\ ui = "assign_StopBit" /\ ui' = "create_thread"
  /\ StopBit' = 1
  /\ UNCHANGED <<uid, m_Loginbit, exited, m_WatcherUid, m_cLife, threads, history>>

CreateThread ==
  /\ ui = "create_thread" /\ ui' = "idle"
  /\ started' = started + 1
  /\ pc' = [pc EXCEPT ![started + 1] = "created"]
  /\ startUids' = [startUids EXCEPT ![started + 1] = {m_WatcherUid}]
  /\ unmanned' = FALSE
  /\ UNCHANGED <<uid, m_Loginbit, exited, object, copy, overlapped, devUsed, lastRow>>

\* _beginthreadex returns 0, and nobody looks at m_ThreadHandle: the login stands,
\* and threads of earlier starts go on with the new name and a raised StopBit.
CreateThreadFails ==
  /\ ui = "create_thread" /\ ui' = "idle"
  /\ startUids' = [t \in Threads |->
                     startUids[t] \cup IF t = started THEN {m_WatcherUid} ELSE {}]
  /\ unmanned' = TRUE
  /\ UNCHANGED <<uid, m_Loginbit, exited, object, threads, overlapped, devUsed, lastRow>>

OnLOGOUT ==
  /\ m_Loginbit' = FALSE
  /\ StopBit' = 0
  /\ UNCHANGED <<ui, uid, m_WatcherUid, m_cLife, threads, history>>

\* The menu offers a logout to who is logged in.
Logout == ui = "idle" /\ ~exited /\ m_Loginbit /\ OnLOGOUT /\ UNCHANGED exited

\* OnDestroy logs out and calls exit(1) without waiting for any thread.
OnDestroy == ui = "idle" /\ ~exited /\ OnLOGOUT /\ exited' = TRUE

OnBnClickedButton4 ==
  /\ ui = "idle" /\ ~exited
  /\ StopBit' = 0
  /\ devUsed' = TRUE
  /\ UNCHANGED <<dialog, m_WatcherUid, m_cLife, threads, startUids, unmanned, overlapped,
                 lastRow>>

-----------------------------------------------------------------------------
(***************************************************************************)
(* The watcher threads.                                                    *)
(***************************************************************************)
Step(t, from, to) ==
  /\ ~exited
  /\ pc[t] = from /\ pc' = [pc EXCEPT ![t] = to]
  /\ UNCHANGED <<dialog, m_WatcherUid, StopBit, started, startUids, unmanned, overlapped,
                 devUsed>>

Update(t) ==
  /\ Step(t, "created", "open_D")
  /\ m_cLife' = "LIFE_LIVE"
  /\ UNCHANGED <<copy, lastRow>>

\* Open the watcher of a volume, then copy m_WatcherUid into it.
SetUid(t, v) ==
  /\ copy' = [copy EXCEPT ![t][v] = m_WatcherUid]
  /\ UNCHANGED <<m_cLife, lastRow>>

SetUidD(t) == Step(t, "open_D", "open_C") /\ SetUid(t, 1)
\* Mutation: the watcher of C:\ is not told the user.
SetUidCForgotten(t) ==
  Step(t, "open_C", "check") /\ UNCHANGED <<m_cLife, copy, lastRow>>

SetUidC(t) == Step(t, "open_C", "check") /\ SetUid(t, 2)

\* Mutation: StopBit, which is not volatile, is read once before the loop.
StayInLoopHoisted(t) ==
  Step(t, "check", "heartbeat") /\ UNCHANGED <<m_cLife, copy, lastRow>>

StayInLoop(t) ==
  /\ StopBit = 1 /\ Step(t, "check", "heartbeat")
  /\ UNCHANGED <<m_cLife, copy, lastRow>>

\* Mutation: Run leaves its loop of its own accord.
BreakLoopAnyway(t) ==
  Step(t, "check", "close") /\ UNCHANGED <<m_cLife, copy, lastRow>>

BreakLoop(t) ==
  /\ StopBit = 0 /\ Step(t, "check", "close")
  /\ UNCHANGED <<m_cLife, copy, lastRow>>

\* One row of FILE_LOG, written by a callback during the Heartbeats.
LogRow(t, v) ==
  /\ Step(t, "heartbeat", "heartbeat")
  /\ lastRow' = <<copy[t][v], IF m_Loginbit THEN uid ELSE NoUser>>
  /\ UNCHANGED <<m_cLife, copy>>

HeartbeatsReturn(t) ==
  /\ Step(t, "heartbeat", "check") /\ UNCHANGED <<m_cLife, copy, lastRow>>

\* The destructors of both watchers; m_cLife is left as it is.
EndRun(t) ==
  /\ Step(t, "close", "ended") /\ UNCHANGED <<m_cLife, copy, lastRow>>

\* What a thread does outside its heartbeats, where nothing can keep it.
Code(t) ==
  \/ Update(t) \/ SetUidD(t) \/ SetUidC(t) \/ StayInLoop(t) \/ BreakLoop(t) \/ EndRun(t)

Thread(t) == Code(t) \/ HeartbeatsReturn(t)

Dialog ==
  \/ \E name \in Users : OnBnClickedOk(name)
  \/ OnBnClickedButton3 \/ AssignUid \/ AssignStopBit \/ CreateThread \/ CreateThreadFails
  \/ Logout \/ OnDestroy \/ OnBnClickedButton4

Next ==
  \/ Dialog
  \/ \E t \in Threads : Thread(t) \/ \E v \in Volumes : LogRow(t, v)

Spec == Init /\ [][Next]_vars

(***************************************************************************)
(* The scheduler runs every thread, and the handler of a button to its     *)
(* end.  Heartbeats need not return: a message box, or changes without end *)
(* as Heartbeats has them, may keep a thread there for ever.               *)
(***************************************************************************)
FairSpec ==
  /\ Spec
  /\ WF_vars(AssignUid \/ AssignStopBit \/ CreateThread \/ CreateThreadFails)
  /\ \A t \in Threads : WF_vars(Code(t))

-----------------------------------------------------------------------------
(***************************************************************************)
(* Properties.                                                             *)
(***************************************************************************)

\* The type of the state; threads are numbered in the order of their creation.
TypeOK ==
  /\ ui \in DialogSteps
  /\ uid \in Users \cup {NoUser} /\ m_Loginbit \in BOOLEAN /\ exited \in BOOLEAN
  /\ m_WatcherUid \in Names /\ StopBit \in {0, 1}
  /\ m_cLife \in Lives
  /\ started \in 0 .. MaxStarts
  /\ ui # "idle" => started < MaxStarts
  /\ pc \in [Threads -> Locations]
  /\ \A t \in Threads : pc[t] = "none" <=> t > started
  /\ copy \in [Threads -> [Volumes -> Names]]
  /\ startUids \in [Threads -> SUBSET (Users \cup {NoUser})]
  /\ unmanned \in BOOLEAN /\ overlapped \in BOOLEAN /\ devUsed \in BOOLEAN
  /\ lastRow \in Names \X Names

\* While somebody is logged in, the thread of the latest login watches: a stop
\* meant for an earlier thread never reaches it, whatever the order of logins,
\* logouts and of the old threads' reads of StopBit; only a login that got no thread
\* goes unwatched.  While nobody is logged in, every thread there is has been told
\* to stop.  The hidden buttons 3 and 4 start and stop without a login.
LoggedInMeansWatched ==
  (ui = "idle" /\ ~devUsed) =>
    IF m_Loginbit
    THEN /\ StopBit = 1
         /\ \/ unmanned
            \/ /\ started > 0
               /\ pc[started] \in {"created", "open_D", "open_C", "check", "heartbeat"}
    ELSE started > 0 => StopBit = 0

\* If every start waits until the previous thread has ended, no row carries one
\* user's name while another user is logged in, and none carries a torn name.
RowsBelongToTheUser ==
  ~overlapped => lastRow[1] # Torn /\ lastRow[2] \in {lastRow[1], NoUser}

\* Even when starts overlap, a thread never logs under the name of a user from
\* before its own start: its copies come from its own or a later StartThread,
\* or were torn by a later one.
Copied(t, v) ==
  pc[t] \in {"check", "heartbeat", "close", "ended"} \/ (v = 1 /\ pc[t] = "open_C")

NoNameFromThePast ==
  \A t \in Threads : \A v \in Volumes : Copied(t, v) =>
    \/ \E s \in t .. started : copy[t][v] \in startUids[s]
    \/ overlapped /\ copy[t][v] = Torn
    \/ overlapped /\ ui # "idle" /\ copy[t][v] = uid

\* Who has logged out is no longer watched: every thread ends, also those of earlier
\* logins, unless its heartbeats never return, or there is a new login or, with the
\* hidden buttons, a new start.
LogoutEndsThreads ==
  \A t \in Threads :
    \/ <>[](pc[t] = "heartbeat")
    \/ (~m_Loginbit /\ (devUsed => StopBit = 0)) ~>
         (m_Loginbit \/ (devUsed /\ StopBit = 1) \/ exited \/ ~Alive(t))

\* m_FSW is a worker with a stop flag: every start, stop and thread of it does
\* what StopFlagWorker says, and nothing else touches its flag.
WorkerState(t) ==
  CASE pc[t] = "none" -> "none"
    [] pc[t] = "close" -> "leaving"
    [] pc[t] = "ended" -> "ended"
    [] OTHER -> "running"

Worker == INSTANCE StopFlagWorker WITH
  flag <- StopBit,
  armed <- ui = "create_thread",
  spawned <- started,
  state <- [t \in Threads |-> WorkerState(t)]

ImplementsStopFlagWorker == Worker!Spec

(***************************************************************************)
(* The inductive invariant behind the three safety properties.             *)
(***************************************************************************)
InLoop(t) == pc[t] \in {"created", "open_D", "open_C", "check", "heartbeat"}

\* m_WatcherUid is torn only during its assignment.
UidAssigned ==
  /\ ui = "assign_m_WatcherUid" => m_WatcherUid = Torn
  /\ ui # "assign_m_WatcherUid" => m_WatcherUid = uid
  /\ (ui = "idle" /\ started > 0) => uid \in startUids[started]

\* A login raises StopBit, and only a logout takes it down.
LoginRaises ==
  ~devUsed =>
    /\ ui # "idle" => m_Loginbit
    /\ ui = "create_thread" => StopBit = 1
    /\ (m_Loginbit /\ ui = "idle") => StopBit = 1 /\ (unmanned \/ started > 0)
    /\ (~m_Loginbit /\ started > 0) => StopBit = 0

\* The newest thread has not seen a stop while there is none, if the last start
\* created it.
NewestInLoop ==
  (StopBit = 1 /\ ui # "create_thread" /\ ~unmanned /\ started > 0) => InLoop(started)

\* A thread that is alive without an overlap is the newest one, no start is
\* under way, and its copies are what m_WatcherUid holds.
AloneAndCurrent ==
  ~overlapped => \A t \in Threads : Alive(t) =>
    /\ ui = "idle" /\ t = started
    /\ \A v \in Volumes : Copied(t, v) => copy[t][v] = m_WatcherUid

IndInv ==
  /\ TypeOK /\ UidAssigned /\ LoginRaises /\ NewestInLoop /\ AloneAndCurrent
  /\ RowsBelongToTheUser /\ NoNameFromThePast

\* FileSystemWatcher.h, line 89: m_cLife is the state of the thread, one of
\* LIFE_DEF, LIFE_LIVE and LIFE_TERMINATE.
LifeIsStateOfThread ==
  (started > 0 /\ \A t \in Threads : ~Alive(t)) => m_cLife # "LIFE_LIVE"
=============================================================================

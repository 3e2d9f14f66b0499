-------------------------- MODULE UserNotice_proofs --------------------------
(***************************************************************************)
(* Proofs about UserNotice, for any users and any number of starts,        *)
(* connections and faults.                                                 *)
(***************************************************************************)
EXTENDS UserNotice, TLAPS

(***************************************************************************)
(* The types.                                                              *)
(***************************************************************************)

\* What the dialog and the threads do, without the connections.
Control ==
  /\ ui \in {"idle", "assign_m_UID", "assign_StopBit", "create_thread"}
  /\ uid \in Users \cup {NoUser} /\ exited \in BOOLEAN
  /\ m_UID \in Names /\ StopBit \in {0, 1} /\ unmanned \in BOOLEAN
  /\ started \in 0 .. MaxStarts
  /\ ui # "idle" => started < MaxStarts
  /\ pc \in [Threads -> Locations]
  /\ \A t \in Threads : pc[t] = "none" <=> t > started
  /\ asked \in [Threads -> Names] /\ startUid \in [Threads -> Names]
  /\ shown \subseteq Names \X Names /\ afterStop \in Nat
  /\ overlapped \in BOOLEAN /\ faults \in 0 .. MaxFaults

\* The connections.  A result of the current connection is the current result, so that
\* Delete, which deletes one of each, leaves no result without its connection.
Heap ==
  /\ con \in Connections \cup {NULL} /\ res \in Connections \cup {NULL}
  /\ open \subseteq Connections /\ results \subseteq open
  /\ con \in results => res = con
  /\ rows \in [Connections -> BOOLEAN] /\ unread \in [Users -> BOOLEAN]
  /\ returned \subseteq Connections /\ dangling \in BOOLEAN

LEMMA TypeParts == Control /\ Heap => TypeOK
BY DEF Control, Heap, TypeOK

LEMMA LocationNames ==
  {"created", "check", "nap", "connect", "query", "fetch", "delete", "box", "tooltip", "rest",
   "leave", "ended"} = Locations \ {"none"}
BY DEF Locations

\* A start under way has a number for its thread.
LEMMA RoomToStart ==
  Control /\ ui # "idle" =>
    started \in Nat /\ started + 1 \in Threads /\ started + 1 \in 0 .. MaxStarts
BY ConstantsAssumption DEF ConstantsAssumption, Control, Threads

LEMMA ThreadNumbers == \A t \in Threads : t \in Nat /\ t > 0
BY ConstantsAssumption DEF ConstantsAssumption, Threads

\* A step moves its own thread and no other.
LEMMA StepMoves ==
  ASSUME Control, NEW t \in Threads, NEW from, NEW to \in Locations \ {"none"},
         from # "none", Step(t, from, to)
  PROVE  /\ pc' \in [Threads -> Locations]
         /\ \A s \in Threads : pc'[s] = "none" <=> s > started
         /\ pc[t] = from /\ pc'[t] = to
         /\ \A s \in Threads : s # t => pc'[s] = pc[s]
BY DEF Control, Step

\* The steps of a thread: from where to where.
LEMMA ThreadMoves ==
  ASSUME Control, NEW t \in Threads, Thread(t) \/ DismissBox(t)
  PROVE  /\ Frame
         /\ pc' \in [Threads -> Locations]
         /\ \A s \in Threads : pc'[s] = "none" <=> s > started
         /\ \A s \in Threads : s # t => pc'[s] = pc[s]
         /\ Alive(t)
         /\ \/ pc[t] = "check" /\ pc'[t] = "leave" /\ StopBit = 0
            \/ pc[t] = "check" /\ pc'[t] = "nap" /\ StopBit = 1
            \/ pc[t] = "leave" /\ pc'[t] = "ended"
            \/ /\ pc[t] \notin {"none", "check", "leave", "ended"}
               /\ pc'[t] \notin {"none", "nap", "leave", "ended"}
<1> USE DEF Alive
<1>1. CASE Update(t)
  BY <1>1, StepMoves, LocationNames DEF Update
<1>2. CASE CheckStopBit(t)
  <2>1. CASE StopBit = 0
    <3>1. Step(t, "check", "leave")
      BY <1>2, <2>1 DEF CheckStopBit
    <3> QED
      BY <1>2, <2>1, <3>1, StepMoves, LocationNames DEF CheckStopBit
  <2>2. CASE StopBit = 1
    <3>1. Step(t, "check", "nap")
      BY <1>2, <2>2 DEF CheckStopBit
    <3> QED
      BY <1>2, <2>2, <3>1, StepMoves, LocationNames DEF CheckStopBit
  <2> QED
    BY <2>1, <2>2 DEF Control
<1>3. CASE CallGetNotice(t)
  BY <1>3, StepMoves, LocationNames DEF CallGetNotice
<1>4. CASE Connect(t)
  BY <1>4, StepMoves, LocationNames DEF Connect
<1>5. CASE ConnectFails(t)
  BY <1>5, StepMoves, LocationNames DEF ConnectFails
<1>6. CASE ExecuteQuery(t)
  BY <1>6, StepMoves, LocationNames DEF ExecuteQuery
<1>7. CASE ExecuteQueryFails(t)
  BY <1>7, StepMoves, LocationNames DEF ExecuteQueryFails
<1>8. CASE FetchRow(t)
  BY <1>8, StepMoves, LocationNames DEF FetchRow
<1>9. CASE FetchNothing(t)
  BY <1>9, StepMoves, LocationNames DEF FetchNothing
<1>10. CASE Delete(t)
  BY <1>10, StepMoves, LocationNames DEF Delete
<1>11. CASE UseAfterDelete(t)
  <2>1. PICK from \in {"query", "fetch", "delete"} : Step(t, from, "check")
    BY <1>11 DEF UseAfterDelete
  <2> QED
    BY <1>11, <2>1, StepMoves, LocationNames DEF UseAfterDelete
<1>12. CASE TrayIconTooltip(t)
  BY <1>12, StepMoves, LocationNames DEF TrayIconTooltip
<1>13. CASE Rest(t)
  BY <1>13, StepMoves, LocationNames DEF Rest
<1>14. CASE EndRun(t)
  BY <1>14, StepMoves, LocationNames DEF EndRun
<1>15. CASE DismissBox(t)
  BY <1>15, StepMoves, LocationNames DEF DismissBox
<1> QED
  BY <1>1, <1>2, <1>3, <1>4, <1>5, <1>6, <1>7, <1>8, <1>9, <1>10, <1>11, <1>12, <1>13, <1>14,
     <1>15 DEF Thread

LEMMA InitControl == Init => Control
<1> SUFFICES ASSUME Init PROVE Control
  OBVIOUS
<1>1. /\ ui = "idle" /\ uid = NoUser /\ exited = FALSE /\ m_UID = NoUser /\ StopBit \in {0, 1}
      /\ unmanned = FALSE /\ shown = {} /\ overlapped = FALSE
  BY DEF Init
<1>2. started \in 0 .. MaxStarts /\ afterStop \in Nat /\ faults \in 0 .. MaxFaults
  BY ConstantsAssumption DEF Init, ConstantsAssumption
<1>3. NoUser \in Names
  BY DEF Names
<1>4. asked \in [Threads -> Names] /\ startUid \in [Threads -> Names]
  BY <1>3 DEF Init
<1>5. pc \in [Threads -> Locations] /\ \A t \in Threads : pc[t] = "none" /\ t > started
  BY ThreadNumbers DEF Init, Locations
<1> QED
  BY <1>1, <1>2, <1>3, <1>4, <1>5 DEF Control

\* What every action does to the control.
LEMMA NextControl == Control /\ [Next]_vars => Control'
<1> SUFFICES ASSUME Control, [Next]_vars PROVE Control'
  OBVIOUS
<1>1. ASSUME NEW name \in Users, OnBnClickedOk(name) PROVE Control'
  BY <1>1 DEF OnBnClickedOk, Control, object, threads, history
<1>2. CASE OnBnClickedButton5
  <2>1. started < MaxStarts
    BY <1>2 DEF OnBnClickedButton5
  <2> QED
    BY <1>2, <2>1 DEF OnBnClickedButton5, Control, threads, Names
<1>3. CASE AssignUid
  BY <1>3 DEF AssignUid, Control, threads, history, Names
<1>4. CASE AssignStopBit
  BY <1>4 DEF AssignStopBit, Control, threads
<1>5. CASE CreateThread
  <2>1. started + 1 \in Threads /\ started + 1 \in 0 .. MaxStarts /\ started \in Nat
    BY <1>5, RoomToStart DEF CreateThread
  <2>2. /\ pc' \in [Threads -> Locations]
        /\ pc'[started + 1] = "created"
        /\ \A t \in Threads : t # started + 1 => pc'[t] = pc[t]
    BY <1>5, <2>1 DEF CreateThread, Control, Locations
  <2>3. \A t \in Threads : pc'[t] = "none" <=> t > started'
    BY <1>5, <2>1, <2>2, ThreadNumbers DEF CreateThread, Control
  <2>4. startUid' \in [Threads -> Names]
    BY <1>5 DEF CreateThread, Control
  <2> QED
    BY <1>5, <2>1, <2>2, <2>3, <2>4 DEF CreateThread, Control, object
<1>6. CASE OnBnClickedButton6
  BY <1>6 DEF OnBnClickedButton6, Control, dialog, threads, history
<1>7. ASSUME NEW t \in Threads, Thread(t) \/ DismissBox(t) PROVE Control'
  <2>1. /\ Frame /\ pc' \in [Threads -> Locations]
        /\ \A s \in Threads : pc'[s] = "none" <=> s > started
    BY <1>7, ThreadMoves
  <2>2. exited' \in BOOLEAN
    BY <1>7 DEF Thread, Update, CheckStopBit, CallGetNotice, Connect, ConnectFails, ExecuteQuery,
                ExecuteQueryFails, FetchRow, FetchNothing, Delete, UseAfterDelete, TrayIconTooltip,
                Rest, EndRun, DismissBox, Control
  <2>3. asked' \in [Threads -> Names]
    BY <1>7 DEF Thread, Update, CheckStopBit, CallGetNotice, Connect, ConnectFails, ExecuteQuery,
                ExecuteQueryFails, FetchRow, FetchNothing, Delete, UseAfterDelete, TrayIconTooltip,
                Rest, EndRun, DismissBox, Control
  <2>4. shown' \subseteq Names \X Names /\ afterStop' \in Nat
    BY <1>7 DEF Thread, Update, CheckStopBit, CallGetNotice, Connect, ConnectFails, ExecuteQuery,
                ExecuteQueryFails, FetchRow, FetchNothing, Delete, UseAfterDelete, TrayIconTooltip,
                Rest, EndRun, DismissBox, Control
  <2>5. faults' \in 0 .. MaxFaults
    BY <1>7, ConstantsAssumption
       DEF Thread, Update, CheckStopBit, CallGetNotice, Connect, ConnectFails, ExecuteQuery,
           ExecuteQueryFails, FetchRow, FetchNothing, Delete, UseAfterDelete, TrayIconTooltip,
           Rest, EndRun, DismissBox, Control, Fault, ConstantsAssumption
  <2> QED
    BY <2>1, <2>2, <2>3, <2>4, <2>5 DEF Control, Frame, object
<1>8. ASSUME NEW u \in Users, Notices(u) PROVE Control'
  BY <1>8 DEF Notices, Control, dialog, object, threads, history
<1>9. CASE UNCHANGED vars
  BY <1>9 DEF vars, Control, dialog, object, threads, history
<1>10. CASE CreateThreadFails
  BY <1>10 DEF CreateThreadFails, Control, threads, history
<1> QED
  BY <1>1, <1>2, <1>3, <1>4, <1>5, <1>6, <1>7, <1>8, <1>9, <1>10 DEF Next, Dialog

\* The steps of a thread that leave m_Db and the connections alone.
QuietStep(t) ==
  \/ Update(t) \/ CheckStopBit(t) \/ CallGetNotice(t) \/ ConnectFails(t)
  \/ FetchNothing(t) \/ TrayIconTooltip(t) \/ Rest(t) \/ EndRun(t) \/ DismissBox(t)

LEMMA QuietFrame ==
  ASSUME NEW t \in Threads, QuietStep(t)
  PROVE  UNCHANGED <<con, res, open, results, rows, unread, returned, dangling, exited>>
BY DEF QuietStep, Update, CheckStopBit, CallGetNotice, ConnectFails, FetchNothing, TrayIconTooltip,
       Rest, EndRun, DismissBox, Frame, m_Db, heap

\* The steps of the dialog, and of the users.
DialogStep == Dialog \/ \E u \in Users : Notices(u)

LEMMA DialogFrame ==
  ASSUME DialogStep
  PROVE  UNCHANGED <<con, res, open, results, rows, returned, dangling, exited>>
BY DEF DialogStep, Dialog, OnBnClickedOk, OnBnClickedButton5, AssignUid, AssignStopBit,
       CreateThread, CreateThreadFails, OnBnClickedButton6, Notices, dialog, m_Db, heap, history

\* The steps, sorted by what they do to the connections.
LEMMA StepsSorted ==
  [Next]_vars =>
    \/ DialogStep \/ UNCHANGED vars
    \/ \E t \in Threads :
         \/ QuietStep(t) \/ Connect(t) \/ ExecuteQuery(t) \/ ExecuteQueryFails(t)
         \/ FetchRow(t) \/ Delete(t) \/ UseAfterDelete(t)
BY DEF Next, DialogStep, QuietStep, Thread

LEMMA InitHeap == Init => Heap
BY DEF Init, Heap

LEMMA NextHeap == Heap /\ [Next]_vars => Heap'
<1> SUFFICES ASSUME Heap, [Next]_vars PROVE Heap'
  OBVIOUS
<1> USE DEF Heap
<1>1. CASE DialogStep
  <2>1. unread' \in [Users -> BOOLEAN]
    BY <1>1 DEF DialogStep, Dialog, OnBnClickedOk, OnBnClickedButton5, AssignUid, AssignStopBit,
                CreateThread, CreateThreadFails, OnBnClickedButton6, Notices
  <2> QED
    BY <1>1, <2>1, DialogFrame
<1>2. ASSUME NEW t \in Threads, QuietStep(t) PROVE Heap'
  BY <1>2, QuietFrame
<1>3. ASSUME NEW t \in Threads, Connect(t) PROVE Heap'
  BY <1>3 DEF Connect, Frame, Connections, NULL
<1>4. ASSUME NEW t \in Threads, ExecuteQuery(t) PROVE Heap'
  <2>1. (asked[t] \in Users /\ unread[asked[t]]) \in BOOLEAN
    OBVIOUS
  <2>2. rows' \in [Connections -> BOOLEAN]
    BY <1>4, <2>1 DEF ExecuteQuery
  <2> QED
    BY <1>4, <2>2 DEF ExecuteQuery, Frame
<1>5. ASSUME NEW t \in Threads, ExecuteQueryFails(t) PROVE Heap'
  BY <1>5 DEF ExecuteQueryFails, Frame, m_Db, heap
<1>6. ASSUME NEW t \in Threads, FetchRow(t) PROVE Heap'
  BY <1>6 DEF FetchRow, Frame, m_Db, heap
<1>7. ASSUME NEW t \in Threads, Delete(t) PROVE Heap'
  BY <1>7 DEF Delete, Frame, m_Db
<1>8. ASSUME NEW t \in Threads, UseAfterDelete(t) PROVE Heap'
  BY <1>8 DEF UseAfterDelete, Frame, m_Db, heap
<1>9. CASE UNCHANGED vars
  BY <1>9 DEF vars, m_Db, heap, history
<1> QED
  BY <1>1, <1>2, <1>3, <1>4, <1>5, <1>6, <1>7, <1>8, <1>9, StepsSorted

(***************************************************************************)
(* One thread, its user and its stop.                                      *)
(***************************************************************************)

\* m_UID is torn only during its assignment.
UidAssigned == ui # "assign_m_UID" => m_UID # Torn

Querying == {"connect", "query", "fetch", "delete", "tooltip"}

\* A thread that is alive without an overlap is the newest one, no start is under way,
\* and it asks for the user it was started for.
AloneAndCurrent ==
  ~overlapped => \A t \in Threads : Alive(t) =>
    /\ ui = "idle" /\ t = started /\ startUid[t] = m_UID
    /\ pc[t] \in Querying => asked[t] = startUid[t]

\* What is shown after a stop is shown by a thread that read StopBit before.
StopSeen ==
  ~overlapped =>
    /\ afterStop <= 1
    /\ StopBit = 1 => afterStop = 0
    /\ \A t \in Threads : pc[t] \in Querying \cup {"nap"} => afterStop = 0

LEMMA NextUid == Control /\ UidAssigned /\ [Next]_vars => UidAssigned'
<1> SUFFICES ASSUME Control, UidAssigned, [Next]_vars PROVE UidAssigned'
  OBVIOUS
<1> USE DEF UidAssigned
<1>1. CASE Dialog
  BY <1>1, ConstantsAssumption
     DEF Dialog, OnBnClickedOk, OnBnClickedButton5, AssignUid, AssignStopBit, CreateThread,
         CreateThreadFails, OnBnClickedButton6, dialog, object, Control, ConstantsAssumption
<1>2. ASSUME NEW t \in Threads, Thread(t) \/ DismissBox(t) PROVE UidAssigned'
  BY <1>2, ThreadMoves DEF Frame, object
<1>3. ASSUME NEW u \in Users, Notices(u) PROVE UidAssigned'
  BY <1>3 DEF Notices, dialog, object
<1>4. CASE UNCHANGED vars
  BY <1>4 DEF vars, dialog, object
<1> QED
  BY <1>1, <1>2, <1>3, <1>4 DEF Next

LEMMA NextAlone ==
  Control /\ AloneAndCurrent /\ [Next]_vars => AloneAndCurrent'
<1> SUFFICES ASSUME Control, AloneAndCurrent, [Next]_vars PROVE AloneAndCurrent'
  OBVIOUS
<1> USE DEF AloneAndCurrent, Alive
<1>1. CASE \E name \in Users : OnBnClickedOk(name)
  BY <1>1 DEF OnBnClickedOk, object, threads, history
<1>2. CASE OnBnClickedButton5
  BY <1>2 DEF OnBnClickedButton5, threads, Control
<1>3. CASE AssignUid
  BY <1>3 DEF AssignUid, threads, history
<1>4. CASE AssignStopBit
  BY <1>4 DEF AssignStopBit, threads
<1>5. CASE CreateThread
  <2>1. started + 1 \in Threads /\ started \in Nat
    BY <1>5, RoomToStart DEF CreateThread
  <2>2. /\ pc'[started + 1] = "created"
        /\ \A t \in Threads : t # started + 1 => pc'[t] = pc[t]
        /\ startUid'[started + 1] = m_UID
    BY <1>5, <2>1 DEF CreateThread, Control
  <2>3. ~overlapped => \A t \in Threads : ~Alive(t)
    BY <1>5 DEF CreateThread
  <2> QED
    BY <1>5, <2>2, <2>3 DEF CreateThread, object, Querying
<1>6. CASE OnBnClickedButton6
  BY <1>6 DEF OnBnClickedButton6, dialog, threads, history
<1>7. ASSUME NEW t \in Threads, Thread(t) \/ DismissBox(t) PROVE AloneAndCurrent'
  <2>1. /\ UNCHANGED <<ui, m_UID, started, startUid, overlapped>>
        /\ \A s \in Threads : s # t => pc'[s] = pc[s]
        /\ Alive(t)
    BY <1>7, ThreadMoves DEF Frame, object
  <2> SUFFICES ASSUME ~overlapped
               PROVE  \A s \in Threads : Alive(s)' =>
                        /\ ui = "idle" /\ s = started /\ startUid[s] = m_UID
                        /\ pc'[s] \in Querying => asked'[s] = startUid[s]
    BY <2>1
  <2>2. /\ \A s \in Threads : s # t => ~Alive(s)'
        /\ ui = "idle" /\ t = started /\ startUid[t] = m_UID
    BY <2>1
  <2>3. pc'[t] \in Querying => asked'[t] = startUid[t]
    <3>1. CASE Update(t) \/ CheckStopBit(t) \/ ConnectFails(t) \/ ExecuteQueryFails(t)
            \/ TrayIconTooltip(t) \/ Rest(t) \/ EndRun(t) \/ DismissBox(t) \/ UseAfterDelete(t)
            \/ Delete(t)
      <4>1. pc'[t] \notin Querying
        BY <3>1 DEF Update, CheckStopBit, ConnectFails, ExecuteQueryFails, TrayIconTooltip, Rest,
                    EndRun, DismissBox, UseAfterDelete, Delete, Step, Control, Querying
      <4> QED
        BY <4>1
    <3>2. CASE CallGetNotice(t)
      BY <3>2, <2>2 DEF CallGetNotice, Control
    <3>3. CASE Connect(t) \/ ExecuteQuery(t) \/ FetchRow(t) \/ FetchNothing(t)
      <4>1. pc[t] \in Querying /\ asked' = asked
        BY <3>3 DEF Connect, ExecuteQuery, FetchRow, FetchNothing, Step, Querying
      <4> QED
        BY <4>1, <2>1
    <3> QED
      BY <1>7, <3>1, <3>2, <3>3 DEF Thread
  <2> QED
    BY <2>2, <2>3
<1>8. ASSUME NEW u \in Users, Notices(u) PROVE AloneAndCurrent'
  BY <1>8 DEF Notices, dialog, object, threads, history
<1>9. CASE UNCHANGED vars
  BY <1>9 DEF vars, dialog, object, threads, history
<1>10. CASE CreateThreadFails
  BY <1>10 DEF CreateThreadFails, threads, history
<1> QED
  BY <1>1, <1>2, <1>3, <1>4, <1>5, <1>6, <1>7, <1>8, <1>9, <1>10 DEF Next, Dialog

LEMMA NextStop ==
  Control /\ AloneAndCurrent /\ StopSeen /\ [Next]_vars => StopSeen'
<1> SUFFICES ASSUME Control, AloneAndCurrent, StopSeen, [Next]_vars PROVE StopSeen'
  OBVIOUS
<1> USE DEF StopSeen
<1>1. CASE \E name \in Users : OnBnClickedOk(name)
  BY <1>1 DEF OnBnClickedOk, object, threads, history
<1>2. CASE OnBnClickedButton5
  BY <1>2 DEF OnBnClickedButton5, threads, Control
<1>3. CASE AssignUid
  BY <1>3 DEF AssignUid, threads, history
<1>4. CASE AssignStopBit
  BY <1>4 DEF AssignStopBit, threads
<1>5. CASE CreateThread
  <2>1. started + 1 \in Threads
    BY <1>5, RoomToStart DEF CreateThread
  <2>2. /\ pc'[started + 1] = "created"
        /\ \A t \in Threads : t # started + 1 => pc'[t] = pc[t]
    BY <1>5, <2>1 DEF CreateThread, Control
  <2> QED
    BY <1>5, <2>2 DEF CreateThread, object, Querying
<1>6. CASE OnBnClickedButton6
  BY <1>6 DEF OnBnClickedButton6, dialog, threads, history
<1>7. ASSUME NEW t \in Threads, Thread(t) \/ DismissBox(t) PROVE StopSeen'
  <2>1. /\ UNCHANGED <<StopBit, overlapped>>
        /\ \A s \in Threads : s # t => pc'[s] = pc[s]
        /\ Alive(t)
    BY <1>7, ThreadMoves DEF Frame, object
  <2> SUFFICES ASSUME ~overlapped
               PROVE  /\ afterStop' <= 1
                      /\ StopBit = 1 => afterStop' = 0
                      /\ \A s \in Threads : pc'[s] \in Querying \cup {"nap"} => afterStop' = 0
    BY <2>1
  <2>2. \A s \in Threads : s # t => pc'[s] \in {"none", "ended"}
    BY <2>1 DEF AloneAndCurrent, Alive
  <2>3. CASE TrayIconTooltip(t)
    <3>1. pc[t] = "tooltip" /\ pc'[t] = "rest"
      BY <2>3 DEF TrayIconTooltip, Step, Control
    <3>2. afterStop = 0
      BY <3>1 DEF Querying
    <3> QED
      BY <2>2, <2>3, <3>1, <3>2 DEF TrayIconTooltip, Querying
  <2>4. CASE ~TrayIconTooltip(t)
    <3>1. afterStop' = afterStop
      BY <1>7, <2>4
         DEF Thread, Update, CheckStopBit, CallGetNotice, Connect, ConnectFails, ExecuteQuery,
             ExecuteQueryFails, FetchRow, FetchNothing, Delete, UseAfterDelete, Rest, EndRun,
             DismissBox
    <3>2. pc'[t] \in Querying \cup {"nap"} =>
            pc[t] \in Querying \cup {"nap"} \/ (pc[t] = "check" /\ StopBit = 1)
      BY <1>7, <2>4
         DEF Thread, Update, CheckStopBit, CallGetNotice, Connect, ConnectFails, ExecuteQuery,
             ExecuteQueryFails, FetchRow, FetchNothing, Delete, UseAfterDelete, Rest, EndRun,
             DismissBox, Step, Control, Querying
    <3> QED
      BY <2>2, <3>1, <3>2 DEF Querying
  <2> QED
    BY <2>3, <2>4
<1>8. ASSUME NEW u \in Users, Notices(u) PROVE StopSeen'
  BY <1>8 DEF Notices, object, threads, history
<1>9. CASE UNCHANGED vars
  BY <1>9 DEF vars, object, threads, history
<1>10. CASE CreateThreadFails
  BY <1>10 DEF CreateThreadFails, threads, history
<1> QED
  BY <1>1, <1>2, <1>3, <1>4, <1>5, <1>6, <1>7, <1>8, <1>9, <1>10 DEF Next, Dialog

(***************************************************************************)
(* The connections of one thread, and what it shows.                       *)
(***************************************************************************)
OwnConnection ==
  ~overlapped =>
    \A t \in Threads :
      /\ pc[t] \in {"query", "fetch", "delete"} => con \in open \ returned
      /\ pc[t] \in {"fetch", "delete"} => res = con /\ con \in results

ConnInv == OwnConnection /\ ConnectionsAccountedFor

\* Steps that leave the connections alone, and their thread on the same side of them.
LEMMA ConnFrame ==
  ASSUME ConnInv, UNCHANGED <<con, res, open, results, returned, dangling>>,
         overlapped' = FALSE => ~overlapped,
         \A t \in Threads :
           /\ pc'[t] = "query" => pc[t] = "query"
           /\ pc'[t] \in {"fetch", "delete"} <=> pc[t] \in {"fetch", "delete"}
           /\ pc[t] = "query" => pc'[t] = "query"
  PROVE  ConnInv'
BY DEF ConnInv, OwnConnection, ConnectionsAccountedFor

LEMMA NextConn ==
  Control /\ Heap /\ AloneAndCurrent /\ ConnInv /\ [Next]_vars => ConnInv'
<1> SUFFICES ASSUME Control, Heap, AloneAndCurrent, ConnInv, [Next]_vars PROVE ConnInv'
  OBVIOUS
<1>1. CASE DialogStep
  <2>1. overlapped' = FALSE => ~overlapped
    BY <1>1 DEF DialogStep, Dialog, OnBnClickedOk, OnBnClickedButton5, AssignUid, AssignStopBit,
                CreateThread, CreateThreadFails, OnBnClickedButton6, Notices, history
  <2>2. CASE CreateThread
    <3>1. started + 1 \in Threads /\ started + 1 > started
      BY <2>2, RoomToStart DEF CreateThread
    <3>2. /\ pc'[started + 1] = "created" /\ pc[started + 1] = "none"
          /\ \A t \in Threads : t # started + 1 => pc'[t] = pc[t]
      BY <2>2, <3>1 DEF CreateThread, Control
    <3> QED
      BY <1>1, <2>1, <3>2, DialogFrame, ConnFrame
  <2>3. CASE ~CreateThread
    <3>1. pc' = pc
      BY <1>1, <2>3 DEF DialogStep, Dialog, OnBnClickedOk, OnBnClickedButton5, AssignUid,
                        AssignStopBit, CreateThreadFails, OnBnClickedButton6, Notices, threads
    <3> QED
      BY <1>1, <2>1, <3>1, DialogFrame, ConnFrame
  <2> QED
    BY <2>2, <2>3
<1>2. ASSUME NEW t \in Threads, QuietStep(t) PROVE ConnInv'
  <2>1. overlapped' = overlapped /\ \A s \in Threads : s # t => pc'[s] = pc[s]
    BY <1>2, ThreadMoves DEF QuietStep, Thread, Frame
  <2>2. /\ pc'[t] # "query" /\ pc[t] # "query"
        /\ pc'[t] \in {"fetch", "delete"} <=> pc[t] \in {"fetch", "delete"}
    BY <1>2 DEF QuietStep, Update, CheckStopBit, CallGetNotice, ConnectFails, FetchNothing,
                TrayIconTooltip, Rest, EndRun, DismissBox, Step, Control
  <2> QED
    BY <1>2, <2>1, <2>2, QuietFrame, ConnFrame
<1>3. ASSUME NEW t \in Threads,
             Connect(t) \/ ExecuteQuery(t) \/ ExecuteQueryFails(t) \/ FetchRow(t) \/ Delete(t)
               \/ UseAfterDelete(t)
      PROVE  ConnInv'
  <2>1. /\ overlapped' = overlapped /\ \A s \in Threads : s # t => pc'[s] = pc[s]
        /\ Alive(t)
    BY <1>3, ThreadMoves DEF Thread, Frame
  <2> SUFFICES ASSUME ~overlapped PROVE ConnInv'
    BY <2>1 DEF ConnInv, OwnConnection, ConnectionsAccountedFor
  <2>2. \A s \in Threads : s # t => pc[s] \in {"none", "ended"} /\ pc'[s] \in {"none", "ended"}
    BY <2>1 DEF AloneAndCurrent, Alive
  <2> USE DEF ConnInv, OwnConnection, ConnectionsAccountedFor
  <2>3. CASE Connect(t)
    <3>1. pc[t] = "connect" /\ pc'[t] = "query"
      BY <2>3 DEF Connect, Step, Control
    <3>2. open \subseteq returned
      BY <2>2, <3>1
    <3> QED
      BY <2>1, <2>2, <2>3, <3>1, <3>2 DEF Connect
  <2>4. CASE ExecuteQuery(t)
    <3>1. pc[t] = "query" /\ pc'[t] = "fetch"
      BY <2>4 DEF ExecuteQuery, Step, Control
    <3> QED
      BY <2>1, <2>2, <2>4, <3>1 DEF ExecuteQuery
  <2>5. CASE ExecuteQueryFails(t)
    <3>1. pc[t] = "query" /\ pc'[t] = "box"
      BY <2>5 DEF ExecuteQueryFails, Step, Control
    <3> QED
      BY <2>1, <2>2, <2>5, <3>1 DEF ExecuteQueryFails, m_Db, heap
  <2>6. CASE FetchRow(t)
    <3>1. pc[t] = "fetch" /\ pc'[t] = "tooltip"
      BY <2>6 DEF FetchRow, Step, Control
    <3> QED
      BY <2>1, <2>2, <2>6, <3>1 DEF FetchRow, m_Db, heap
  <2>7. CASE Delete(t)
    <3>1. pc[t] = "delete" /\ pc'[t] = "check"
      BY <2>7 DEF Delete, Step, Control
    <3> QED
      BY <2>1, <2>2, <2>7, <3>1 DEF Delete, m_Db
  <2>8. CASE UseAfterDelete(t)
    <3>1. \/ pc[t] = "query" /\ con \notin open
          \/ pc[t] = "fetch" /\ res \notin results
          \/ pc[t] = "delete" /\ (res \notin results \/ con \notin open)
      BY <2>8 DEF UseAfterDelete, Step
    <3>2. FALSE
      BY <3>1
    <3> QED
      BY <3>2
  <2> QED
    BY <1>3, <2>3, <2>4, <2>5, <2>6, <2>7, <2>8
<1>4. CASE UNCHANGED vars
  BY <1>4, ConnFrame DEF vars, m_Db, threads, heap, history
<1> QED
  BY <1>1, <1>2, <1>3, <1>4, StepsSorted

ShownToUser ==
  ~overlapped => \A pair \in shown : pair[1] = pair[2] /\ pair[1] # Torn

LEMMA NextShown ==
  Control /\ UidAssigned /\ AloneAndCurrent /\ ShownToUser /\ [Next]_vars => ShownToUser'
<1> SUFFICES ASSUME Control, UidAssigned, AloneAndCurrent, ShownToUser, [Next]_vars
             PROVE  ShownToUser'
  OBVIOUS
<1>1. CASE DialogStep
  BY <1>1 DEF DialogStep, Dialog, OnBnClickedOk, OnBnClickedButton5, AssignUid, AssignStopBit,
              CreateThread, CreateThreadFails, OnBnClickedButton6, Notices, history, ShownToUser
<1>2. ASSUME NEW t \in Threads, TrayIconTooltip(t) PROVE ShownToUser'
  <2> SUFFICES ASSUME ~overlapped PROVE ShownToUser'
    BY <1>2 DEF ShownToUser, TrayIconTooltip, Frame
  <2>1. pc[t] = "tooltip"
    BY <1>2 DEF TrayIconTooltip, Step
  <2>2. asked[t] = startUid[t] /\ startUid[t] = m_UID /\ m_UID # Torn
    BY <2>1 DEF AloneAndCurrent, Alive, Querying, UidAssigned
  <2> QED
    BY <1>2, <2>2 DEF ShownToUser, TrayIconTooltip, Frame
<1>3. ASSUME NEW t \in Threads, Thread(t) \/ DismissBox(t), ~TrayIconTooltip(t)
      PROVE  ShownToUser'
  BY <1>3 DEF Thread, Update, CheckStopBit, CallGetNotice, Connect, ConnectFails, ExecuteQuery,
              ExecuteQueryFails, FetchRow, FetchNothing, Delete, UseAfterDelete, Rest, EndRun,
              DismissBox, Frame, ShownToUser
<1>4. CASE UNCHANGED vars
  BY <1>4 DEF vars, history, ShownToUser
<1> QED
  BY <1>1, <1>2, <1>3, <1>4 DEF Next, DialogStep

IndInv ==
  /\ Control /\ Heap /\ UidAssigned /\ AloneAndCurrent /\ StopSeen /\ ConnInv /\ ShownToUser

\* The inductive invariant of the poller.
THEOREM Inductive == Spec => []IndInv
<1>1. Init => IndInv
  <2> SUFFICES ASSUME Init PROVE IndInv
    OBVIOUS
  <2>1. \A t \in Threads : pc[t] = "none"
    BY DEF Init
  <2>2. UidAssigned
    BY ConstantsAssumption DEF Init, UidAssigned, ConstantsAssumption
  <2>3. AloneAndCurrent
    BY <2>1 DEF AloneAndCurrent, Alive
  <2>4. StopSeen
    BY <2>1 DEF Init, StopSeen, Querying
  <2>5. ConnInv
    BY <2>1 DEF Init, ConnInv, OwnConnection, ConnectionsAccountedFor
  <2>6. ShownToUser
    BY DEF Init, ShownToUser
  <2> QED
    BY <2>2, <2>3, <2>4, <2>5, <2>6, InitControl, InitHeap DEF IndInv
<1>2. IndInv /\ [Next]_vars => IndInv'
  BY NextControl, NextHeap, NextUid, NextAlone, NextStop, NextConn, NextShown DEF IndInv
<1> QED
  BY <1>1, <1>2, PTL DEF Spec

\* The state keeps its type, also when threads overlap on the connections of m_Db.
THEOREM TypeCorrect == Spec => []TypeOK
<1>1. IndInv => TypeOK
  BY TypeParts DEF IndInv
<1> QED
  BY <1>1, Inductive, PTL

\* Unless starts overlap no deleted connection or result is used, and the connections
\* that stay open are those that GetNotice returned without deleting.
THEOREM ConnectionsCorrect == Spec => []ConnectionsAccountedFor
<1>1. IndInv => ConnectionsAccountedFor
  BY DEF IndInv, ConnInv
<1> QED
  BY <1>1, Inductive, PTL

\* Unless starts overlap a tooltip is for the user of the poller, and a stop lets at
\* most one more appear.
THEOREM TooltipsCorrect == Spec => []TooltipsForTheUser
<1>1. IndInv => TooltipsForTheUser
  BY DEF IndInv, ShownToUser, StopSeen, TooltipsForTheUser
<1> QED
  BY <1>1, Inductive, PTL

(***************************************************************************)
(* The poller implements the worker with a stop flag.                      *)
(***************************************************************************)
LEMMA WorkerAlive ==
  ASSUME NEW t \in Threads
  PROVE  Worker!Alive(t) <=> Alive(t)
BY DEF Worker!Alive, Alive, WorkerState

\* The state of a thread that does not move does not change.
LEMMA WorkerFrame ==
  pc' = pc => [t \in Threads |-> WorkerState(t)]' = [t \in Threads |-> WorkerState(t)]
BY DEF WorkerState

\* A thread's step moves the state of that thread only.
LEMMA WorkerMoves ==
  ASSUME NEW t \in Threads, \A s \in Threads : s # t => pc'[s] = pc[s]
  PROVE  [s \in Threads |-> WorkerState(s)]' =
           [[s \in Threads |-> WorkerState(s)] EXCEPT ![t] = WorkerState(t)']
<1>1. \A s \in Threads : s # t => WorkerState(s)' = WorkerState(s)
  BY DEF WorkerState
<1> QED
  BY <1>1

LEMMA InitWorker == Init => Worker!Init
<1> SUFFICES ASSUME Init PROVE Worker!Init
  OBVIOUS
<1>1. \A t \in Threads : WorkerState(t) = "none"
  BY DEF Init, WorkerState
<1>2. /\ StopBit \in {0, 1} /\ started = 0 /\ overlapped = FALSE
      /\ ui = "idle" /\ unmanned = FALSE
  BY DEF Init
<1>3. (ui = "create_thread") = FALSE
  BY <1>2
<1> QED
  BY <1>1, <1>2, <1>3 DEF Worker!Init, Worker!Threads, Threads

\* Every step of the poller is a step of the worker, or none.  A start that finds a
\* thread alive is the worker's Overlap; raising StopBit is its Raise.
LEMMA NextWorker ==
  Control /\ AloneAndCurrent /\ [Next]_vars => [Worker!Next]_(Worker!vars)
<1> SUFFICES ASSUME Control, AloneAndCurrent, [Next]_vars
             PROVE  Worker!Next \/ UNCHANGED Worker!vars
  OBVIOUS
<1> DEFINE State == [t \in Threads |-> WorkerState(t)]
<1>0. (\E t \in Worker!Threads : Worker!Alive(t)) <=> \E t \in Threads : Alive(t)
  BY WorkerAlive DEF Worker!Threads, Threads
<1>1. CASE OnBnClickedButton5
  <2>1. State' = State /\ UNCHANGED <<started, StopBit, unmanned>>
    BY <1>1, WorkerFrame DEF OnBnClickedButton5, threads
  <2>2. (ui = "create_thread") = FALSE /\ (ui' = "create_thread") = FALSE
    BY <1>1 DEF OnBnClickedButton5
  <2>3. CASE \E t \in Threads : Alive(t)
    <3>1. overlapped' = TRUE
      BY <1>1, <2>3 DEF OnBnClickedButton5
    <3>2. Worker!Overlap
      BY <1>0, <2>1, <2>2, <2>3, <3>1 DEF Worker!Overlap
    <3> QED
      BY <3>2 DEF Worker!Next
  <2>4. CASE ~ \E t \in Threads : Alive(t)
    <3>1. overlapped' = overlapped
      BY <1>1, <2>4 DEF OnBnClickedButton5, Control
    <3> QED
      BY <2>1, <2>2, <3>1 DEF Worker!vars
  <2> QED
    BY <2>3, <2>4
<1>2. CASE AssignUid \/ \E name \in Users : OnBnClickedOk(name)
  <2>1. (ui = "create_thread") = FALSE /\ (ui' = "create_thread") = FALSE
    BY <1>2 DEF AssignUid, OnBnClickedOk
  <2>2. State' = State
    BY <1>2, WorkerFrame DEF AssignUid, OnBnClickedOk, threads
  <2> QED
    BY <1>2, <2>1, <2>2 DEF AssignUid, OnBnClickedOk, object, threads, history, Worker!vars
<1>3. CASE AssignStopBit
  <2>1. (ui = "create_thread") = FALSE /\ (ui' = "create_thread") = TRUE
    BY <1>3 DEF AssignStopBit
  <2>2. State' = State
    BY <1>3, WorkerFrame DEF AssignStopBit, threads
  <2>3. started < MaxStarts
    BY <1>3 DEF AssignStopBit, Control
  <2>4. (\E t \in Threads : Alive(t)) => overlapped
    BY <1>3 DEF AssignStopBit, AloneAndCurrent
  <2>5. overlapped' = (overlapped \/ \E t \in Worker!Threads : Worker!Alive(t))
    BY <1>0, <1>3, <2>4 DEF AssignStopBit, Control
  <2>6. StopBit' = 1 /\ UNCHANGED <<started, unmanned>>
    BY <1>3 DEF AssignStopBit, threads
  <2>7. Worker!Raise
    BY <2>1, <2>2, <2>3, <2>5, <2>6 DEF Worker!Raise
  <2> QED
    BY <2>7 DEF Worker!Next
<1>4. CASE CreateThread
  <2>1. started + 1 \in Threads
    BY <1>4, RoomToStart DEF CreateThread
  <2>2. pc'[started + 1] = "created" /\ \A t \in Threads : t # started + 1 => pc'[t] = pc[t]
    BY <1>4, <2>1 DEF CreateThread, Control
  <2>3. \A t \in Threads :
          /\ t # started + 1 => WorkerState(t)' = WorkerState(t)
          /\ t = started + 1 => WorkerState(t)' = "running"
    BY <2>2 DEF WorkerState
  <2>4. State' = [State EXCEPT ![started + 1] = "running"]
    BY <2>1, <2>3
  <2>5. (ui = "create_thread") = TRUE /\ (ui' = "create_thread") = FALSE
    BY <1>4 DEF CreateThread
  <2>6. Worker!Spawn
    BY <1>4, <2>4, <2>5 DEF CreateThread, object, Worker!Spawn
  <2> QED
    BY <2>6 DEF Worker!Next
<1>5. CASE OnBnClickedButton6
  <2>1. State' = State
    BY <1>5, WorkerFrame DEF OnBnClickedButton6, threads
  <2>2. (ui = "create_thread") = FALSE /\ (ui' = "create_thread") = FALSE
    BY <1>5 DEF OnBnClickedButton6, dialog
  <2>3. Worker!Lower
    BY <1>5, <2>1, <2>2 DEF OnBnClickedButton6, threads, history, Worker!Lower
  <2> QED
    BY <2>3 DEF Worker!Next
<1>6. ASSUME NEW t \in Threads, Thread(t) \/ DismissBox(t)
      PROVE  Worker!Next \/ UNCHANGED Worker!vars
  <2>1. /\ UNCHANGED <<ui, StopBit, unmanned, started, overlapped>>
        /\ \A s \in Threads : s # t => pc'[s] = pc[s]
    BY <1>6, ThreadMoves DEF Frame, object
  <2>2. \/ WorkerState(t)' = WorkerState(t)
        \/ pc[t] = "check" /\ pc'[t] = "leave" /\ StopBit = 0
        \/ pc[t] = "leave" /\ pc'[t] = "ended"
    BY <1>6, ThreadMoves DEF WorkerState, Alive
  <2>3. State' = [State EXCEPT ![t] = WorkerState(t)']
    BY <2>1, WorkerMoves
  <2>4. t \in Worker!Threads
    BY DEF Worker!Threads, Threads
  <2>5. CASE WorkerState(t)' = WorkerState(t)
    <3>1. State' = State
      BY <2>3, <2>5
    <3> QED
      BY <2>1, <3>1 DEF Worker!vars
  <2>6. CASE pc[t] = "check" /\ pc'[t] = "leave" /\ StopBit = 0
    <3>1. WorkerState(t) = "running" /\ WorkerState(t)' = "leaving"
      BY <2>6 DEF WorkerState
    <3>2. Worker!Leave(t)
      BY <2>1, <2>3, <2>6, <3>1 DEF Worker!Leave
    <3> QED
      BY <2>4, <3>2 DEF Worker!Next
  <2>7. CASE pc[t] = "leave" /\ pc'[t] = "ended"
    <3>1. WorkerState(t) = "leaving" /\ WorkerState(t)' = "ended"
      BY <2>7 DEF WorkerState
    <3>2. Worker!Finish(t)
      BY <2>1, <2>3, <3>1 DEF Worker!Finish
    <3> QED
      BY <2>4, <3>2 DEF Worker!Next
  <2> QED
    BY <2>2, <2>5, <2>6, <2>7
<1>7. ASSUME NEW u \in Users, Notices(u) PROVE UNCHANGED Worker!vars
  <2>1. State' = State
    BY <1>7, WorkerFrame DEF Notices, threads
  <2> QED
    BY <1>7, <2>1 DEF Notices, dialog, object, threads, history, Worker!vars
<1>8. CASE UNCHANGED vars
  <2>1. State' = State
    BY <1>8, WorkerFrame DEF vars, threads
  <2> QED
    BY <1>8, <2>1 DEF vars, dialog, object, threads, history, Worker!vars
<1>9. CASE CreateThreadFails
  <2>1. State' = State
    BY <1>9, WorkerFrame DEF CreateThreadFails, threads
  <2>2. (ui = "create_thread") = TRUE /\ (ui' = "create_thread") = FALSE
    BY <1>9 DEF CreateThreadFails
  <2>3. Worker!SpawnFails
    BY <1>9, <2>1, <2>2 DEF CreateThreadFails, threads, history, Worker!SpawnFails
  <2> QED
    BY <2>3 DEF Worker!Next
<1> QED
  BY <1>1, <1>2, <1>3, <1>4, <1>5, <1>6, <1>7, <1>8, <1>9 DEF Next, Dialog

\* What StopFlagWorker promises holds of m_Un.
THEOREM Refinement == Spec => ImplementsStopFlagWorker
<1>1. IndInv => Control /\ AloneAndCurrent
  BY DEF IndInv
<1> QED
  BY <1>1, InitWorker, NextWorker, Inductive, PTL
     DEF Spec, ImplementsStopFlagWorker, Worker!Spec

(***************************************************************************)
(* What is proved of StopFlagWorker, said of m_Un.                         *)
(***************************************************************************)
WorkerFacts == INSTANCE StopFlagWorker_proofs WITH
  flag <- StopBit,
  armed <- ui = "create_thread",
  spawned <- started,
  state <- [t \in Threads |-> WorkerState(t)]

\* The abstract worker of the model and the one of the proofs are the same.
LEMMA SameWorker == Worker!Spec => WorkerFacts!Spec
<1>1. Worker!Init => WorkerFacts!Init
  BY DEF Worker!Init, Worker!Threads, WorkerFacts!Init, WorkerFacts!Threads
<1>2. [Worker!Next]_(Worker!vars) => [WorkerFacts!Next]_(WorkerFacts!vars)
  BY DEF Worker!Next, Worker!vars, Worker!Threads, Worker!Alive, Worker!Overlap, Worker!Raise,
         Worker!Spawn, Worker!SpawnFails, Worker!Lower, Worker!Leave, Worker!Finish,
         WorkerFacts!Next, WorkerFacts!vars, WorkerFacts!Threads, WorkerFacts!Alive,
         WorkerFacts!Overlap, WorkerFacts!Raise, WorkerFacts!Spawn, WorkerFacts!SpawnFails,
         WorkerFacts!Lower, WorkerFacts!Leave, WorkerFacts!Finish
<1> QED
  BY <1>1, <1>2, PTL DEF Worker!Spec, WorkerFacts!Spec

\* A start of m_Un is never lost to an earlier stop, and its threads share the
\* object only after a start over a live thread.
THEOREM WorkerPromises == Spec => [](Worker!NewestRuns /\ Worker!OneThread)
<1>1. WorkerFacts!MaxStartsAssumption
  BY ConstantsAssumption DEF ConstantsAssumption, WorkerFacts!MaxStartsAssumption
<1>2. WorkerFacts!NewestRuns => Worker!NewestRuns
  BY DEF Worker!NewestRuns, WorkerFacts!NewestRuns
<1>3. WorkerFacts!OneThread => Worker!OneThread
  BY DEF Worker!OneThread, Worker!Threads, Worker!Alive,
         WorkerFacts!OneThread, WorkerFacts!Threads, WorkerFacts!Alive
<1> QED
  BY <1>1, <1>2, <1>3, Refinement, SameWorker, WorkerFacts!NewestRunsCorrect,
     WorkerFacts!OneThreadCorrect, PTL DEF ImplementsStopFlagWorker
=============================================================================

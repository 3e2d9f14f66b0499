----------------------- MODULE WatcherThreads_proofs -----------------------
(***************************************************************************)
(* The safety properties of WatcherThreads, for every set of users, every  *)
(* number of starts, with and without the hidden buttons.                  *)
(***************************************************************************)
EXTENDS WatcherThreads, TLAPS

\* The locations by name: the provers cope with functions into Locations
\* better when the set is not expanded.
LEMMA LocationNames ==
  /\ "none" \in Locations /\ "created" \in Locations /\ "open_D" \in Locations
  /\ "open_C" \in Locations /\ "check" \in Locations /\ "heartbeat" \in Locations
  /\ "close" \in Locations /\ "ended" \in Locations
BY DEF Locations

\* The state starts in its type.
LEMMA InitType == Init => TypeOK
<1> USE ConstantsAssumption DEF ConstantsAssumption, Threads, Volumes, Names
<1> SUFFICES ASSUME Init PROVE TypeOK
  OBVIOUS
<1>1. ui \in DialogSteps /\ uid \in Users \cup {NoUser}
  BY DEF Init, DialogSteps
<1>2. /\ m_Loginbit \in BOOLEAN /\ exited \in BOOLEAN /\ unmanned \in BOOLEAN
      /\ overlapped \in BOOLEAN /\ devUsed \in BOOLEAN
  BY DEF Init
<1>3. m_WatcherUid \in Names /\ StopBit \in {0, 1} /\ m_cLife \in Lives
  BY DEF Init
<1>4. started \in 0 .. MaxStarts /\ (ui # "idle" => started < MaxStarts)
  BY DEF Init
<1>5. pc \in [Threads -> Locations]
  BY LocationNames DEF Init
<1>6. \A t \in Threads : pc[t] = "none" <=> t > started
  BY DEF Init
<1>7. copy \in [Threads -> [Volumes -> Names]]
  BY DEF Init
<1>8. startUids \in [Threads -> SUBSET (Users \cup {NoUser})]
  BY DEF Init
<1>9. lastRow \in Names \X Names
  BY DEF Init
<1> QED
  BY <1>1, <1>2, <1>3, <1>4, <1>5, <1>6, <1>7, <1>8, <1>9 DEF TypeOK

\* Threads are numbers.
LEMMA ThreadNumbers == \A t \in Threads : t \in Nat
BY ConstantsAssumption DEF ConstantsAssumption, Threads

\* A start under way still has a number left for its thread.
LEMMA RoomToStart ==
  TypeOK /\ ui # "idle" =>
    started \in Nat /\ started + 1 \in Threads /\ started + 1 \in 0 .. MaxStarts
BY ConstantsAssumption DEF ConstantsAssumption, TypeOK, Threads

\* A step of a thread moves one program counter along its loop, and leaves the
\* dialog, m_FSW and the numbering of the threads alone.
LEMMA StepType ==
  ASSUME TypeOK, NEW t \in Threads, NEW from, NEW to \in Locations,
         from # "none", to # "none", Step(t, from, to)
  PROVE  /\ pc' \in [Threads -> Locations]
         /\ \A s \in Threads : pc'[s] = "none" <=> s > started'
         /\ UNCHANGED <<dialog, m_WatcherUid, StopBit, started, startUids, unmanned, overlapped,
                        devUsed>>
BY DEF Step, TypeOK

\* The actions of a thread as steps along its loop.
LEMMA ThreadSteps ==
  ASSUME NEW t \in Threads,
         \/ Thread(t)
         \/ \E v \in Volumes : LogRow(t, v)
  PROVE  \E from \in Locations, to \in Locations :
           from # "none" /\ to # "none" /\ Step(t, from, to)
BY LocationNames
   DEF Thread, Code, Update, SetUidD, SetUidC, StayInLoop, BreakLoop, HeartbeatsReturn,
       EndRun, LogRow

\* The newest thread has a number.
LEMMA NewestNumber ==
  TypeOK => started \in Nat /\ (started > 0 => started \in Threads)
BY ConstantsAssumption DEF ConstantsAssumption, TypeOK, Threads

\* A step moves its own thread and no other.
LEMMA StepMoves ==
  ASSUME TypeOK, NEW t \in Threads, NEW from, NEW to, Step(t, from, to)
  PROVE  /\ pc[t] = from /\ pc'[t] = to
         /\ \A s \in Threads : s # t => pc'[s] = pc[s]
BY DEF Step, TypeOK

\* The steps of a thread, and what each does to its copies.
LEMMA ThreadMoves ==
  ASSUME TypeOK, NEW t \in Threads, Thread(t) \/ \E v \in Volumes : LogRow(t, v)
  PROVE  \/ pc[t] = "created" /\ pc'[t] = "open_D" /\ copy' = copy
         \/ pc[t] = "open_D" /\ pc'[t] = "open_C" /\ SetUid(t, 1)
         \/ pc[t] = "open_C" /\ pc'[t] = "check" /\ SetUid(t, 2)
         \/ pc[t] = "check" /\ pc'[t] = "heartbeat" /\ copy' = copy
         \/ pc[t] = "check" /\ pc'[t] = "close" /\ copy' = copy /\ StopBit = 0
         \/ pc[t] = "heartbeat" /\ pc'[t] \in {"heartbeat", "check"} /\ copy' = copy
         \/ pc[t] = "close" /\ pc'[t] = "ended" /\ copy' = copy
<1>1. CASE Update(t)
  BY <1>1, StepMoves DEF Update
<1>2. CASE SetUidD(t)
  BY <1>2, StepMoves DEF SetUidD
<1>3. CASE SetUidC(t)
  BY <1>3, StepMoves DEF SetUidC
<1>4. CASE StayInLoop(t)
  BY <1>4, StepMoves DEF StayInLoop
<1>5. CASE BreakLoop(t)
  BY <1>5, StepMoves DEF BreakLoop
<1>6. CASE HeartbeatsReturn(t)
  BY <1>6, StepMoves DEF HeartbeatsReturn
<1>7. CASE EndRun(t)
  BY <1>7, StepMoves DEF EndRun
<1>8. ASSUME NEW v \in Volumes, LogRow(t, v)
      PROVE  pc[t] = "heartbeat" /\ pc'[t] \in {"heartbeat", "check"} /\ copy' = copy
  BY <1>8, StepMoves DEF LogRow
<1> QED
  BY <1>1, <1>2, <1>3, <1>4, <1>5, <1>6, <1>7, <1>8 DEF Thread, Code

\* All of a thread's steps leave the dialog's variables, m_FSW and the other
\* threads alone.
LEMMA ThreadFrame ==
  ASSUME TypeOK, NEW t \in Threads, Thread(t) \/ \E v \in Volumes : LogRow(t, v)
  PROVE  /\ UNCHANGED <<ui, uid, m_Loginbit, exited, m_WatcherUid, StopBit, started,
                        startUids, unmanned, overlapped, devUsed>>
         /\ \A s \in Threads : s # t => pc'[s] = pc[s]
BY ThreadSteps, StepType, StepMoves DEF dialog

\* The assignment of m_WatcherUid, in the dialog's thread alone.
LEMMA NextUid == TypeOK /\ UidAssigned /\ [Next]_vars => UidAssigned'
<1> SUFFICES ASSUME TypeOK, UidAssigned, [Next]_vars PROVE UidAssigned'
  OBVIOUS
<1> USE DEF UidAssigned
<1>1. ASSUME NEW name \in Users, OnBnClickedOk(name) PROVE UidAssigned'
  BY <1>1 DEF OnBnClickedOk, BeginStartThread
<1>2. CASE OnBnClickedButton3
  BY <1>2 DEF OnBnClickedButton3, BeginStartThread
<1>3. CASE AssignUid
  BY <1>3 DEF AssignUid
<1>4. CASE AssignStopBit
  BY <1>4 DEF AssignStopBit, history, threads
<1>5. CASE CreateThread
  BY <1>5, RoomToStart DEF CreateThread, object, TypeOK
<1>6. CASE Logout \/ OnDestroy
  BY <1>6 DEF Logout, OnDestroy, OnLOGOUT, threads, history
<1>7. CASE OnBnClickedButton4
  BY <1>7 DEF OnBnClickedButton4, dialog, threads, history
<1>8. ASSUME NEW t \in Threads, Thread(t) \/ \E v \in Volumes : LogRow(t, v)
      PROVE  UidAssigned'
  BY <1>8, ThreadSteps, StepType DEF dialog
<1>9. CASE UNCHANGED vars
  BY <1>9 DEF vars, dialog, object, threads, history
<1>10. CASE CreateThreadFails
  BY <1>10, NewestNumber DEF CreateThreadFails, object, threads
<1> QED
  BY <1>1, <1>2, <1>3, <1>4, <1>5, <1>6, <1>7, <1>8, <1>9, <1>10 DEF Next, Dialog

\* Every action keeps the types.
LEMMA NextType == TypeOK /\ UidAssigned /\ [Next]_vars => TypeOK'
<1> SUFFICES ASSUME TypeOK, UidAssigned, [Next]_vars PROVE TypeOK'
  OBVIOUS
<1> USE DEF TypeOK
<1>1. CASE (\E name \in Users : OnBnClickedOk(name)) \/ OnBnClickedButton3
  <2>1. BeginStartThread /\ uid' \in Users \cup {NoUser} /\ m_Loginbit' \in BOOLEAN
    BY <1>1 DEF OnBnClickedOk, OnBnClickedButton3
  <2>2. ui' \in DialogSteps /\ m_WatcherUid' \in Names /\ started < MaxStarts
    BY <2>1 DEF BeginStartThread, DialogSteps, Names
  <2>3. overlapped' \in BOOLEAN /\ devUsed' \in BOOLEAN
    BY <1>1 DEF OnBnClickedOk, OnBnClickedButton3, BeginStartThread
  <2> QED
    BY <2>1, <2>2, <2>3 DEF BeginStartThread, threads
<1>2. CASE AssignUid
  BY <1>2 DEF AssignUid, DialogSteps, Names, threads, history
<1>3. CASE AssignStopBit
  BY <1>3 DEF AssignStopBit, DialogSteps, threads, history
<1>4. CASE CreateThread
  <2>1. started \in Nat /\ started + 1 \in Threads /\ started + 1 \in 0 .. MaxStarts
    BY <1>4, RoomToStart DEF CreateThread
  <2>2. pc' \in [Threads -> Locations]
    BY <1>4, <2>1, LocationNames DEF CreateThread
  <2>3. \A t \in Threads : pc'[t] = "none" <=> t > started'
    <3> SUFFICES ASSUME NEW t \in Threads PROVE pc'[t] = "none" <=> t > started'
      OBVIOUS
    <3>1. started' = started + 1 /\ t \in Nat
      BY <1>4, ThreadNumbers DEF CreateThread
    <3>2. CASE t = started + 1
      <4>1. pc'[t] = "created"
        BY <1>4, <2>1, <3>2 DEF CreateThread
      <4> QED
        BY <2>1, <3>1, <3>2, <4>1
    <3>3. CASE t # started + 1
      <4>1. pc'[t] = pc[t]
        BY <1>4, <2>1, <3>3 DEF CreateThread
      <4> QED
        BY <2>1, <3>1, <3>3, <4>1
    <3> QED
      BY <3>2, <3>3
  <2>4. startUids' \in [Threads -> SUBSET (Users \cup {NoUser})]
    <3>1. m_WatcherUid \in Users \cup {NoUser}
      BY <1>4 DEF CreateThread, UidAssigned
    <3>2. {m_WatcherUid} \in SUBSET (Users \cup {NoUser})
      BY <3>1
    <3> QED
      BY <1>4, <2>1, <3>2 DEF CreateThread
  <2>5. started' \in 0 .. MaxStarts
    BY <1>4, <2>1 DEF CreateThread
  <2>6. ui' = "idle" /\ "idle" \in DialogSteps
    BY <1>4 DEF CreateThread, DialogSteps
  <2>7. /\ uid' \in Users \cup {NoUser} /\ m_Loginbit' \in BOOLEAN /\ exited' \in BOOLEAN
        /\ m_WatcherUid' \in Names /\ StopBit' \in {0, 1} /\ m_cLife' \in Lives
    BY <1>4 DEF CreateThread, object
  <2>8. /\ copy' \in [Threads -> [Volumes -> Names]]
        /\ unmanned' \in BOOLEAN /\ overlapped' \in BOOLEAN /\ devUsed' \in BOOLEAN
        /\ lastRow' \in Names \X Names
    BY <1>4 DEF CreateThread
  <2> QED
    BY <2>2, <2>3, <2>4, <2>5, <2>6, <2>7, <2>8
<1>5. CASE Logout \/ OnDestroy
  BY <1>5 DEF Logout, OnDestroy, OnLOGOUT, threads, history
<1>6. CASE OnBnClickedButton4
  BY <1>6 DEF OnBnClickedButton4, dialog, threads, history
<1>7. ASSUME NEW t \in Threads, Thread(t) \/ \E v \in Volumes : LogRow(t, v)
      PROVE  TypeOK'
  <2>1. /\ pc' \in [Threads -> Locations]
        /\ \A s \in Threads : pc'[s] = "none" <=> s > started'
        /\ UNCHANGED <<dialog, m_WatcherUid, StopBit, started, startUids, unmanned, overlapped,
                        devUsed>>
    BY <1>7, ThreadSteps, StepType
  <2>2. m_cLife' \in Lives
    BY <1>7 DEF Thread, Code, Update, SetUidD, SetUidC, SetUid, StayInLoop, BreakLoop,
                HeartbeatsReturn, EndRun, LogRow, Lives
  <2>3. copy' \in [Threads -> [Volumes -> Names]]
    <3>1. copy' = copy \/ SetUid(t, 1) \/ SetUid(t, 2)
      BY <1>7 DEF Thread, Code, Update, SetUidD, SetUidC, StayInLoop, BreakLoop,
                  HeartbeatsReturn, EndRun, LogRow
    <3> QED
      BY <3>1 DEF SetUid, Volumes
  <2>4. lastRow' \in Names \X Names
    <3>1. lastRow' = lastRow \/ \E v \in Volumes : LogRow(t, v)
      BY <1>7 DEF Thread, Code, Update, SetUidD, SetUidC, SetUid, StayInLoop, BreakLoop,
                  HeartbeatsReturn, EndRun
    <3>2. ASSUME NEW v \in Volumes, LogRow(t, v) PROVE lastRow' \in Names \X Names
      <4>1. <<copy[t][v], IF m_Loginbit THEN uid ELSE NoUser>> \in Names \X Names
        BY DEF Names
      <4> QED
        BY <3>2, <4>1 DEF LogRow
    <3> QED
      BY <3>1, <3>2
  <2> QED
    BY <2>1, <2>2, <2>3, <2>4 DEF dialog
<1>8. CASE UNCHANGED vars
  BY <1>8 DEF vars, dialog, object, threads, history
<1>9. CASE CreateThreadFails
  <2>1. m_WatcherUid \in Users \cup {NoUser}
    BY <1>9 DEF CreateThreadFails, UidAssigned
  <2>2. startUids' \in [Threads -> SUBSET (Users \cup {NoUser})]
    BY <1>9, <2>1 DEF CreateThreadFails
  <2> QED
    BY <1>9, <2>2 DEF CreateThreadFails, DialogSteps, object, threads
<1> QED
  BY <1>1, <1>2, <1>3, <1>4, <1>5, <1>6, <1>7, <1>8, <1>9 DEF Next, Dialog

\* A login raises StopBit before its thread exists, and keeps it up.
LEMMA NextLogin == TypeOK /\ LoginRaises /\ [Next]_vars => LoginRaises'
<1> SUFFICES ASSUME TypeOK, LoginRaises, [Next]_vars PROVE LoginRaises'
  OBVIOUS
<1> USE DEF LoginRaises
<1>1. ASSUME NEW name \in Users, OnBnClickedOk(name) PROVE LoginRaises'
  BY <1>1 DEF OnBnClickedOk, BeginStartThread
<1>2. CASE OnBnClickedButton3
  BY <1>2 DEF OnBnClickedButton3
<1>3. CASE AssignUid
  BY <1>3 DEF AssignUid, threads, history
<1>4. CASE AssignStopBit
  BY <1>4 DEF AssignStopBit, threads, history
<1>5. CASE CreateThread
  <2>0. started \in Nat /\ started' = started + 1
    BY <1>5, RoomToStart DEF CreateThread
  <2>1. started' > 0
    BY <2>0
  <2>2. ui' = "idle" /\ (~devUsed' => StopBit' = 1 /\ m_Loginbit')
    BY <1>5 DEF CreateThread, object
  <2> QED
    BY <2>1, <2>2
<1>6. CASE Logout \/ OnDestroy
  BY <1>6 DEF Logout, OnDestroy, OnLOGOUT, threads, history
<1>7. CASE OnBnClickedButton4
  BY <1>7 DEF OnBnClickedButton4
<1>8. ASSUME NEW t \in Threads, Thread(t) \/ \E v \in Volumes : LogRow(t, v)
      PROVE  LoginRaises'
  BY <1>8, ThreadSteps, StepType DEF dialog
<1>9. CASE UNCHANGED vars
  BY <1>9 DEF vars, dialog, object, threads, history
<1>10. CASE CreateThreadFails
  BY <1>10 DEF CreateThreadFails, object, threads
<1> QED
  BY <1>1, <1>2, <1>3, <1>4, <1>5, <1>6, <1>7, <1>8, <1>9, <1>10 DEF Next, Dialog

\* The newest thread stays in its loop while StopBit is up.
LEMMA NextNewest == TypeOK /\ NewestInLoop /\ [Next]_vars => NewestInLoop'
<1> SUFFICES ASSUME TypeOK, NewestInLoop, [Next]_vars PROVE NewestInLoop'
  OBVIOUS
<1> USE DEF NewestInLoop, InLoop
<1>1. CASE (\E name \in Users : OnBnClickedOk(name)) \/ OnBnClickedButton3
  BY <1>1 DEF OnBnClickedOk, OnBnClickedButton3, BeginStartThread, threads
<1>2. CASE AssignUid
  BY <1>2 DEF AssignUid, threads, history
<1>3. CASE AssignStopBit
  BY <1>3 DEF AssignStopBit
<1>4. CASE CreateThread
  <2>1. pc'[started'] = "created"
    BY <1>4, RoomToStart DEF CreateThread, TypeOK
  <2> QED
    BY <2>1
<1>5. CASE Logout \/ OnDestroy
  <2>1. StopBit' = 0
    BY <1>5 DEF Logout, OnDestroy, OnLOGOUT
  <2> QED
    BY <2>1
<1>6. CASE OnBnClickedButton4
  <2>1. StopBit' = 0
    BY <1>6 DEF OnBnClickedButton4
  <2> QED
    BY <2>1
<1>7. ASSUME NEW t \in Threads, Thread(t) \/ \E v \in Volumes : LogRow(t, v)
      PROVE  NewestInLoop'
  <2>1. StopBit = 1 => ~(StopBit = 0)
    OBVIOUS
  <2>2. ASSUME InLoop(t), StopBit = 1 PROVE InLoop(t)'
    <3>1. \/ pc[t] = "close"
          \/ pc'[t] \in {"open_D", "open_C", "check", "heartbeat"}
      BY <1>7, <2>1, <2>2, ThreadMoves
    <3> QED
      BY <2>2, <3>1
  <2> QED
    BY <1>7, <2>2, ThreadFrame, NewestNumber
<1>8. CASE UNCHANGED vars
  BY <1>8 DEF vars, dialog, object, threads, history
<1>9. CASE CreateThreadFails
  BY <1>9 DEF CreateThreadFails
<1> QED
  BY <1>1, <1>2, <1>3, <1>4, <1>5, <1>6, <1>7, <1>8, <1>9 DEF Next, Dialog

\* A copy is either older than a thread's step, or the step takes it from
\* m_WatcherUid.
LEMMA CopyMoves ==
  ASSUME TypeOK, NEW t \in Threads, Thread(t) \/ \E v \in Volumes : LogRow(t, v),
         NEW s \in Threads, NEW w \in Volumes, Copied(s, w)'
  PROVE  \/ Copied(s, w) /\ copy'[s][w] = copy[s][w]
         \/ s = t /\ Alive(t) /\ copy'[s][w] = m_WatcherUid
<1>1. CASE s # t
  <2>1. pc'[s] = pc[s]
    BY <1>1, ThreadFrame
  <2>2. copy'[s] = copy[s]
    BY <1>1, ThreadMoves DEF SetUid, TypeOK
  <2> QED
    BY <2>1, <2>2 DEF Copied
<1>2. CASE s = t /\ pc[t] = "open_D"
  BY <1>2, ThreadMoves DEF Copied, Alive, SetUid, TypeOK, Volumes
<1>3. CASE s = t /\ pc[t] = "open_C"
  <2>1. SetUid(t, 2) /\ pc'[t] = "check"
    BY <1>3, ThreadMoves
  <2>2. CASE w = 1
    BY <1>3, <2>1, <2>2 DEF Copied, SetUid, TypeOK, Volumes
  <2>3. CASE w = 2
    BY <1>3, <2>1, <2>3 DEF Alive, SetUid, TypeOK, Volumes
  <2> QED
    BY <2>2, <2>3 DEF Volumes
<1>4. CASE s = t /\ pc[t] # "open_D" /\ pc[t] # "open_C"
  BY <1>4, ThreadMoves DEF Copied
<1> QED
  BY <1>1, <1>2, <1>3, <1>4

\* Without an overlap the thread that is alive is the newest.
LEMMA NextAlone ==
  TypeOK /\ AloneAndCurrent /\ [Next]_vars => AloneAndCurrent'
<1> SUFFICES ASSUME TypeOK, AloneAndCurrent, [Next]_vars, ~overlapped',
                    NEW s \in Threads, Alive(s)'
             PROVE  /\ ui' = "idle" /\ s = started'
                    /\ \A v \in Volumes : Copied(s, v)' => copy'[s][v] = m_WatcherUid'
  BY DEF AloneAndCurrent
<1> USE DEF AloneAndCurrent
<1>1. CASE (\E name \in Users : OnBnClickedOk(name)) \/ OnBnClickedButton3
  BY <1>1 DEF OnBnClickedOk, OnBnClickedButton3, BeginStartThread, threads, Alive
<1>2. CASE AssignUid
  BY <1>2 DEF AssignUid, threads, history, Alive
<1>3. CASE AssignStopBit
  BY <1>3 DEF AssignStopBit, threads, history, Alive
<1>4. CASE CreateThread
  <2>1. ~Alive(s)
    BY <1>4 DEF CreateThread
  <2>2. s = started + 1
    BY <1>4, <2>1, RoomToStart DEF CreateThread, Alive, TypeOK
  <2>3. pc'[s] = "created"
    BY <1>4, <2>2, RoomToStart DEF CreateThread, TypeOK
  <2> QED
    BY <1>4, <2>2, <2>3 DEF CreateThread, Copied
<1>5. CASE Logout \/ OnDestroy
  BY <1>5 DEF Logout, OnDestroy, OnLOGOUT, threads, history, Alive, Copied
<1>6. CASE OnBnClickedButton4
  BY <1>6 DEF OnBnClickedButton4, dialog, threads, history, Alive, Copied
<1>7. ASSUME NEW t \in Threads, Thread(t) \/ \E v \in Volumes : LogRow(t, v)
      PROVE  /\ ui' = "idle" /\ s = started'
             /\ \A v \in Volumes : Copied(s, v)' => copy'[s][v] = m_WatcherUid'
  <2>1. Alive(s)
    <3>1. CASE s = t
      BY <1>7, <3>1, ThreadMoves DEF Alive
    <3>2. CASE s # t
      BY <1>7, <3>2, ThreadFrame DEF Alive
    <3> QED
      BY <3>1, <3>2
  <2>2. ~overlapped
    BY <1>7, ThreadFrame
  <2>3. ui = "idle" /\ s = started
    BY <2>1, <2>2
  <2>4. ASSUME NEW v \in Volumes, Copied(s, v)' PROVE copy'[s][v] = m_WatcherUid'
    <3>1. \/ Copied(s, v) /\ copy'[s][v] = copy[s][v]
          \/ copy'[s][v] = m_WatcherUid
      BY <1>7, <2>4, CopyMoves
    <3>2. copy'[s][v] = m_WatcherUid
      BY <2>1, <2>2, <3>1
    <3> QED
      BY <1>7, <3>2, ThreadFrame
  <2> QED
    BY <1>7, <2>3, <2>4, ThreadFrame
<1>8. CASE UNCHANGED vars
  BY <1>8 DEF vars, dialog, object, threads, history, Alive, Copied
<1>9. CASE CreateThreadFails
  BY <1>9 DEF CreateThreadFails, threads, Alive
<1> QED
  BY <1>1, <1>2, <1>3, <1>4, <1>5, <1>6, <1>7, <1>8, <1>9 DEF Next, Dialog

\* A row is written by the one thread that is alive, under its own name.
LEMMA NextRows ==
  TypeOK /\ UidAssigned /\ AloneAndCurrent /\ RowsBelongToTheUser /\ [Next]_vars
    => RowsBelongToTheUser'
<1> SUFFICES ASSUME TypeOK, UidAssigned, AloneAndCurrent, RowsBelongToTheUser,
                    [Next]_vars, ~overlapped'
             PROVE  lastRow'[1] # Torn /\ lastRow'[2] \in {lastRow'[1], NoUser}
  BY DEF RowsBelongToTheUser
<1>1. CASE lastRow' = lastRow
  <2>1. ~overlapped
    <3>1. CASE (\E name \in Users : OnBnClickedOk(name)) \/ OnBnClickedButton3
      BY <3>1 DEF OnBnClickedOk, OnBnClickedButton3, BeginStartThread
    <3>2. CASE AssignUid \/ AssignStopBit \/ CreateThread \/ CreateThreadFails
      BY <3>2 DEF AssignUid, AssignStopBit, CreateThread, CreateThreadFails, history
    <3>3. CASE Logout \/ OnDestroy \/ OnBnClickedButton4
      BY <3>3 DEF Logout, OnDestroy, OnLOGOUT, OnBnClickedButton4, history
    <3>4. ASSUME NEW t \in Threads, Thread(t) \/ \E v \in Volumes : LogRow(t, v)
          PROVE  ~overlapped
      BY <3>4, ThreadFrame
    <3>5. CASE UNCHANGED vars
      BY <3>5 DEF vars, history
    <3> QED
      BY <3>1, <3>2, <3>3, <3>4, <3>5 DEF Next, Dialog
  <2> QED
    BY <1>1, <2>1 DEF RowsBelongToTheUser
<1>2. CASE lastRow' # lastRow
  <2>1. PICK t \in Threads, v \in Volumes : LogRow(t, v)
    BY <1>2 DEF Next, Dialog, OnBnClickedOk, OnBnClickedButton3, BeginStartThread, AssignUid,
                AssignStopBit, CreateThread, CreateThreadFails, Logout, OnDestroy, OnLOGOUT,
                OnBnClickedButton4, Thread, Code, Update, SetUidD, SetUidC, SetUid,
                StayInLoop, BreakLoop, HeartbeatsReturn, EndRun, vars, history
  <2>2. /\ lastRow' = <<copy[t][v], IF m_Loginbit THEN uid ELSE NoUser>>
        /\ pc[t] = "heartbeat" /\ overlapped' = overlapped
    BY <2>1 DEF LogRow, Step
  <2>3. copy[t][v] = m_WatcherUid /\ ui = "idle"
    BY <2>2 DEF AloneAndCurrent, Alive, Copied
  <2>4. m_WatcherUid = uid
    BY <2>3 DEF UidAssigned
  <2>5. uid # Torn
    BY ConstantsAssumption DEF ConstantsAssumption, TypeOK
  <2> QED
    BY <2>2, <2>3, <2>4, <2>5
<1> QED
  BY <1>1, <1>2

\* A copy that a thread takes from m_WatcherUid is a name of its own start or
\* of a later one.
LEMMA NewCopy ==
  ASSUME TypeOK, UidAssigned, AloneAndCurrent, NEW t \in Threads, Alive(t)
  PROVE  \/ \E s \in t .. started : m_WatcherUid \in startUids[s]
         \/ overlapped /\ m_WatcherUid = Torn
         \/ overlapped /\ ui # "idle" /\ m_WatcherUid = uid
<1>1. CASE ui # "idle"
  <2>1. overlapped
    BY <1>1 DEF AloneAndCurrent
  <2> QED
    BY <1>1, <2>1 DEF UidAssigned
<1>2. CASE ui = "idle"
  <2>1. t \in Nat /\ started \in Nat /\ ~(t > started)
    BY ThreadNumbers, NewestNumber DEF TypeOK, Alive
  <2>2. t > 0
    BY DEF Threads
  <2>3. started > 0 /\ started \in t .. started
    BY <2>1, <2>2
  <2>4. m_WatcherUid = uid
    BY <1>2 DEF UidAssigned
  <2>5. uid \in startUids[started]
    BY <1>2, <2>3 DEF UidAssigned
  <2> QED
    BY <2>3, <2>4, <2>5
<1> QED
  BY <1>1, <1>2

\* No step puts the name of an earlier user into a copy.
LEMMA NextNames ==
  TypeOK /\ UidAssigned /\ AloneAndCurrent /\ NoNameFromThePast /\ [Next]_vars
    => NoNameFromThePast'
<1> SUFFICES ASSUME TypeOK, UidAssigned, AloneAndCurrent, NoNameFromThePast,
                    [Next]_vars, NEW s \in Threads, NEW w \in Volumes, Copied(s, w)'
             PROVE  \/ \E r \in s .. started' : copy'[s][w] \in startUids'[r]
                    \/ overlapped' /\ copy'[s][w] = Torn
                    \/ overlapped' /\ ui' # "idle" /\ copy'[s][w] = uid'
  BY DEF NoNameFromThePast
<1> DEFINE Goal == \/ \E r \in s .. started' : copy'[s][w] \in startUids'[r]
                   \/ overlapped' /\ copy'[s][w] = Torn
                   \/ overlapped' /\ ui' # "idle" /\ copy'[s][w] = uid'
<1>1. CASE (\E name \in Users : OnBnClickedOk(name)) \/ OnBnClickedButton3
  BY <1>1 DEF OnBnClickedOk, OnBnClickedButton3, BeginStartThread, threads, Copied,
              NoNameFromThePast
<1>2. CASE AssignUid
  BY <1>2 DEF AssignUid, threads, history, Copied, NoNameFromThePast
<1>3. CASE AssignStopBit
  BY <1>3 DEF AssignStopBit, threads, history, Copied, NoNameFromThePast
<1>4. CASE CreateThread
  <2>1. started \in Nat /\ started + 1 \in Threads /\ started' = started + 1
    BY <1>4, RoomToStart DEF CreateThread
  <2>2. s # started + 1
    BY <1>4, <2>1 DEF CreateThread, Copied, TypeOK
  <2>3. pc'[s] = pc[s] /\ copy'[s] = copy[s] /\ overlapped' = overlapped
    BY <1>4, <2>1, <2>2 DEF CreateThread, TypeOK
  <2>4. Copied(s, w)
    BY <2>3 DEF Copied
  <2>5. s \in Nat /\ ~(s > started)
    BY <2>4, ThreadNumbers DEF Copied, TypeOK
  <2>6. uid \in startUids'[started + 1]
    BY <1>4, <2>1 DEF CreateThread, UidAssigned, TypeOK
  <2>7. \A r \in s .. started : startUids'[r] = startUids[r] /\ r \in s .. started'
    <3> SUFFICES ASSUME NEW r \in s .. started
                 PROVE  startUids'[r] = startUids[r] /\ r \in s .. started'
      OBVIOUS
    <3>1. r # started + 1 /\ r \in s .. started'
      BY <2>1, <2>5
    <3> QED
      BY <1>4, <3>1, <2>1 DEF CreateThread, TypeOK
  <2>8. started' \in s .. started'
    BY <2>1, <2>5
  <2>9. CASE \E r \in s .. started : copy[s][w] \in startUids[r]
    BY <2>3, <2>7, <2>9
  <2>10. CASE overlapped /\ copy[s][w] = Torn
    BY <2>3, <2>10
  <2>11. CASE copy[s][w] = uid
    BY <2>1, <2>3, <2>6, <2>8, <2>11
  <2> QED
    BY <2>4, <2>9, <2>10, <2>11 DEF NoNameFromThePast
<1>5. CASE Logout \/ OnDestroy
  BY <1>5 DEF Logout, OnDestroy, OnLOGOUT, threads, history, Copied, NoNameFromThePast
<1>6. CASE OnBnClickedButton4
  BY <1>6 DEF OnBnClickedButton4, dialog, threads, history, Copied, NoNameFromThePast
<1>7. ASSUME NEW t \in Threads, Thread(t) \/ \E v \in Volumes : LogRow(t, v)
      PROVE  Goal
  <2>1. UNCHANGED <<ui, uid, started, startUids, overlapped>>
    BY <1>7, ThreadFrame
  <2>2. CASE Copied(s, w) /\ copy'[s][w] = copy[s][w]
    BY <2>1, <2>2 DEF NoNameFromThePast
  <2>3. CASE s = t /\ Alive(t) /\ copy'[s][w] = m_WatcherUid
    BY <2>1, <2>3, NewCopy
  <2> QED
    BY <1>7, <2>2, <2>3, CopyMoves
<1>8. CASE UNCHANGED vars
  BY <1>8 DEF vars, dialog, object, threads, history, Copied, NoNameFromThePast
<1>9. CASE CreateThreadFails
  <2>1. UNCHANGED <<started, pc, copy, overlapped>> /\ m_WatcherUid = uid
    BY <1>9 DEF CreateThreadFails, threads, UidAssigned
  <2>2. Copied(s, w)
    BY <2>1 DEF Copied
  <2>3. s \in Nat /\ started \in Nat /\ started \in Threads /\ started \in s .. started
    BY <2>2, ThreadNumbers, NewestNumber DEF Copied, TypeOK, Threads
  <2>4. \A r \in Threads : startUids[r] \subseteq startUids'[r]
    BY <1>9 DEF CreateThreadFails
  <2>5. uid \in startUids'[started]
    BY <1>9, <2>1, <2>3 DEF CreateThreadFails
  <2>6. CASE \E r \in s .. started : copy[s][w] \in startUids[r]
    <3>1. PICK r \in s .. started : copy[s][w] \in startUids[r]
      BY <2>6
    <3>2. r \in Threads
      BY <2>3, ConstantsAssumption DEF ConstantsAssumption, Threads
    <3> QED
      BY <2>1, <2>4, <3>1, <3>2
  <2>7. CASE overlapped /\ copy[s][w] = Torn
    BY <2>1, <2>7
  <2>8. CASE copy[s][w] = uid
    BY <2>1, <2>3, <2>5, <2>8
  <2> QED
    BY <2>2, <2>6, <2>7, <2>8 DEF NoNameFromThePast
<1> QED
  BY <1>1, <1>2, <1>3, <1>4, <1>5, <1>6, <1>7, <1>8, <1>9 DEF Next, Dialog

\* The invariant holds initially.
LEMMA InitInv == Init => IndInv
<1> SUFFICES ASSUME Init PROVE IndInv
  OBVIOUS
<1>1. TypeOK
  BY InitType
<1>2. UidAssigned /\ LoginRaises
  BY DEF Init, UidAssigned, LoginRaises
<1>3. NewestInLoop
  BY DEF Init, NewestInLoop
<1>4. \A t \in Threads : ~Alive(t) /\ pc[t] = "none"
  BY DEF Init, Alive
<1>5. AloneAndCurrent
  BY <1>4 DEF AloneAndCurrent
<1>6. RowsBelongToTheUser
  BY ConstantsAssumption DEF Init, RowsBelongToTheUser, ConstantsAssumption
<1>7. NoNameFromThePast
  BY <1>4 DEF NoNameFromThePast, Copied
<1> QED
  BY <1>1, <1>2, <1>3, <1>5, <1>6, <1>7 DEF IndInv

\* The conjuncts of IndInv together are inductive: whatever the interleaving of
\* the dialog's thread with the watcher threads that are alive.
THEOREM Inductive == Spec => []IndInv
<1>1. IndInv /\ [Next]_vars => IndInv'
  BY NextType, NextUid, NextLogin, NextNewest, NextAlone, NextRows, NextNames DEF IndInv
<1> QED
  BY InitInv, <1>1, PTL DEF Spec

\* Every variable keeps its type, and threads their numbers.
THEOREM TypeCorrect == Spec => []TypeOK
<1>1. IndInv => TypeOK
  BY DEF IndInv
<1> QED
  BY <1>1, Inductive, PTL

\* Who is logged in is watched, by the thread of the latest login: no stop meant
\* for an earlier thread reaches it.
THEOREM LoggedInCorrect == Spec => []LoggedInMeansWatched
<1>1. IndInv => LoggedInMeansWatched
  BY DEF IndInv, LoginRaises, NewestInLoop, InLoop, LoggedInMeansWatched
<1> QED
  BY <1>1, Inductive, PTL

\* Without overlapping starts no row of FILE_LOG carries the wrong user's name.
THEOREM RowsCorrect == Spec => []RowsBelongToTheUser
<1>1. IndInv => RowsBelongToTheUser
  BY DEF IndInv
<1> QED
  BY <1>1, Inductive, PTL

\* With them, none carries the name of a user from before the thread's start.
THEOREM NamesCorrect == Spec => []NoNameFromThePast
<1>1. IndInv => NoNameFromThePast
  BY DEF IndInv
<1> QED
  BY <1>1, Inductive, PTL

-----------------------------------------------------------------------------
(***************************************************************************)
(* m_FSW implements StopFlagWorker.                                        *)
(***************************************************************************)

\* The worker's threads are alive when those of the watcher are.
LEMMA WorkerAlive ==
  ASSUME NEW t \in Threads
  PROVE  Worker!Alive(t) <=> Alive(t)
BY DEF Worker!Alive, Alive, WorkerState

\* The state of a thread that does not move does not change.
LEMMA WorkerFrame ==
  pc' = pc => [t \in Threads |-> WorkerState(t)]' = [t \in Threads |-> WorkerState(t)]
BY DEF WorkerState

\* A thread's step moves the state of that thread only.
LEMMA WorkerStateStep ==
  ASSUME TypeOK, NEW t \in Threads, NEW from, NEW to, Step(t, from, to)
  PROVE  [s \in Threads |-> WorkerState(s)]' =
           [[s \in Threads |-> WorkerState(s)] EXCEPT ![t] = WorkerState(t)']
<1>1. \A s \in Threads : s # t => pc'[s] = pc[s]
  BY StepMoves
<1>2. \A s \in Threads : s # t => WorkerState(s)' = WorkerState(s)
  BY <1>1 DEF WorkerState
<1> QED
  BY <1>2

\* The states start as the worker's.
LEMMA InitWorker == Init => Worker!Init
<1> SUFFICES ASSUME Init PROVE Worker!Init
  OBVIOUS
<1>1. \A t \in Threads : WorkerState(t) = "none"
  BY DEF Init, WorkerState
<1>2. /\ StopBit \in {0, 1} /\ started = 0 /\ ui = "idle"
      /\ unmanned = FALSE /\ overlapped = FALSE
  BY DEF Init
<1>3. (ui = "create_thread") = FALSE
  BY <1>2
<1> QED
  BY <1>1, <1>2, <1>3 DEF Worker!Init, Worker!Threads, Threads

\* Every step of the watcher is a step of the worker, or none.
LEMMA NextWorker ==
  TypeOK /\ AloneAndCurrent /\ [Next]_vars => [Worker!Next]_(Worker!vars)
<1> SUFFICES ASSUME TypeOK, AloneAndCurrent, [Next]_vars
             PROVE  Worker!Next \/ UNCHANGED Worker!vars
  OBVIOUS
<1> DEFINE State == [t \in Threads |-> WorkerState(t)]
<1>1. CASE (\E name \in Users : OnBnClickedOk(name)) \/ OnBnClickedButton3
  <2>1. BeginStartThread
    BY <1>1 DEF OnBnClickedOk, OnBnClickedButton3
  <2>2. pc' = pc /\ StopBit' = StopBit /\ started' = started /\ unmanned' = unmanned
    BY <2>1 DEF BeginStartThread, threads
  <2>3. State' = State
    BY <2>2, WorkerFrame
  <2>4. (ui = "create_thread") = FALSE /\ (ui' = "create_thread") = FALSE
    BY <2>1 DEF BeginStartThread
  <2>5. CASE \E t \in Threads : Alive(t)
    <3>1. \E t \in Worker!Threads : Worker!Alive(t)
      BY <2>5, WorkerAlive DEF Worker!Threads, Threads
    <3>2. overlapped' = TRUE
      BY <2>1, <2>5 DEF BeginStartThread
    <3>3. Worker!Overlap
      BY <2>2, <2>3, <2>4, <3>1, <3>2 DEF Worker!Overlap
    <3> QED
      BY <3>3 DEF Worker!Next
  <2>6. CASE ~ \E t \in Threads : Alive(t)
    <3>1. overlapped' = overlapped
      BY <2>1, <2>6 DEF BeginStartThread, TypeOK
    <3> QED
      BY <2>2, <2>3, <2>4, <3>1 DEF Worker!vars
  <2> QED
    BY <2>5, <2>6
<1>2. CASE AssignUid
  <2>1. (ui = "create_thread") = FALSE /\ (ui' = "create_thread") = FALSE
    BY <1>2 DEF AssignUid
  <2>2. State' = State
    BY <1>2, WorkerFrame DEF AssignUid, threads
  <2> QED
    BY <1>2, <2>1, <2>2 DEF AssignUid, threads, history, Worker!vars
<1>3. CASE AssignStopBit
  <2>1. (ui = "create_thread") = FALSE /\ (ui' = "create_thread") = TRUE
    BY <1>3 DEF AssignStopBit
  <2>2. State' = State
    BY <1>3, WorkerFrame DEF AssignStopBit, threads
  <2>3. started < MaxStarts
    BY <1>3 DEF AssignStopBit, TypeOK
  <2>4. (\E t \in Threads : Alive(t)) => overlapped
    BY <1>3 DEF AssignStopBit, AloneAndCurrent
  <2>5. (\E t \in Worker!Threads : Worker!Alive(t)) => overlapped
    BY <2>4, WorkerAlive DEF Worker!Threads, Threads
  <2>6. overlapped' = (overlapped \/ \E t \in Worker!Threads : Worker!Alive(t))
    BY <1>3, <2>5 DEF AssignStopBit, history, TypeOK
  <2>7. StopBit' = 1 /\ started' = started /\ unmanned' = unmanned
    BY <1>3 DEF AssignStopBit, threads, history
  <2>8. Worker!Raise
    BY <2>1, <2>2, <2>3, <2>6, <2>7 DEF Worker!Raise
  <2> QED
    BY <2>8 DEF Worker!Next
<1>4. CASE CreateThread
  <2>1. started + 1 \in Threads
    BY <1>4, RoomToStart DEF CreateThread
  <2>2. \A t \in Threads : t # started + 1 => WorkerState(t)' = WorkerState(t)
    BY <1>4, <2>1 DEF CreateThread, TypeOK, WorkerState
  <2>3. pc'[started + 1] = "created"
    BY <1>4, <2>1 DEF CreateThread, TypeOK
  <2>4. \A t \in Threads : t = started + 1 => WorkerState(t)' = "running"
    BY <2>3 DEF WorkerState
  <2>5. State' = [State EXCEPT ![started + 1] = "running"]
    BY <2>1, <2>2, <2>4
  <2>6. (ui = "create_thread") = TRUE /\ (ui' = "create_thread") = FALSE
    BY <1>4 DEF CreateThread
  <2>7. Worker!Spawn
    BY <1>4, <2>5, <2>6 DEF CreateThread, object, Worker!Spawn
  <2> QED
    BY <2>7 DEF Worker!Next
<1>5. CASE Logout \/ OnDestroy \/ OnBnClickedButton4
  <2>1. ui = "idle" /\ ui' = ui /\ StopBit' = 0
    BY <1>5 DEF Logout, OnDestroy, OnLOGOUT, OnBnClickedButton4, dialog
  <2>2. UNCHANGED <<pc, started, unmanned, overlapped>>
    BY <1>5 DEF Logout, OnDestroy, OnLOGOUT, OnBnClickedButton4, threads, history
  <2>3. State' = State
    BY <2>2, WorkerFrame
  <2>4. Worker!Lower
    BY <2>1, <2>2, <2>3 DEF Worker!Lower
  <2> QED
    BY <2>4 DEF Worker!Next
<1>6. ASSUME NEW t \in Threads, Thread(t) \/ \E v \in Volumes : LogRow(t, v)
      PROVE  Worker!Next \/ UNCHANGED Worker!vars
  <2>1. UNCHANGED <<ui, StopBit, started, unmanned, overlapped>>
    BY <1>6, ThreadFrame
  <2>2. PICK from, to : Step(t, from, to)
    BY <1>6, ThreadSteps
  <2>3. State' = [State EXCEPT ![t] = WorkerState(t)']
    BY <2>2, WorkerStateStep
  <2>4. t \in Worker!Threads
    BY DEF Worker!Threads, Threads
  <2>5. CASE WorkerState(t)' = WorkerState(t)
    <3>1. State' = State
      BY <2>3, <2>5
    <3> QED
      BY <2>1, <3>1 DEF Worker!vars
  <2>6. CASE pc[t] = "check" /\ pc'[t] = "close" /\ StopBit = 0
    <3>1. WorkerState(t) = "running" /\ WorkerState(t)' = "leaving"
      BY <2>6 DEF WorkerState
    <3>2. Worker!Leave(t)
      BY <2>1, <2>3, <2>6, <3>1 DEF Worker!Leave
    <3> QED
      BY <2>4, <3>2 DEF Worker!Next
  <2>7. CASE pc[t] = "close" /\ pc'[t] = "ended"
    <3>1. WorkerState(t) = "leaving" /\ WorkerState(t)' = "ended"
      BY <2>7 DEF WorkerState
    <3>2. Worker!Finish(t)
      BY <2>1, <2>3, <3>1 DEF Worker!Finish
    <3> QED
      BY <2>4, <3>2 DEF Worker!Next
  <2> QED
    BY <1>6, <2>5, <2>6, <2>7, ThreadMoves DEF WorkerState
<1>7. CASE UNCHANGED vars
  <2>1. State' = State
    BY <1>7, WorkerFrame DEF vars, threads
  <2> QED
    BY <1>7, <2>1 DEF vars, dialog, object, threads, history, Worker!vars
<1>8. CASE CreateThreadFails
  <2>1. (ui = "create_thread") = TRUE /\ (ui' = "create_thread") = FALSE
    BY <1>8 DEF CreateThreadFails
  <2>2. State' = State
    BY <1>8, WorkerFrame DEF CreateThreadFails, threads
  <2>3. Worker!SpawnFails
    BY <1>8, <2>1, <2>2 DEF CreateThreadFails, object, threads, Worker!SpawnFails
  <2> QED
    BY <2>3 DEF Worker!Next
<1> QED
  BY <1>1, <1>2, <1>3, <1>4, <1>5, <1>6, <1>7, <1>8 DEF Next, Dialog

\* Every behaviour of the watcher is one of a worker with a stop flag, so that
\* what StopFlagWorker promises holds of m_FSW, whatever its callers do.
THEOREM Refinement == Spec => ImplementsStopFlagWorker
<1>1. IndInv => TypeOK /\ AloneAndCurrent
  BY DEF IndInv
<1> QED
  BY <1>1, InitWorker, NextWorker, Inductive, PTL
     DEF Spec, ImplementsStopFlagWorker, Worker!Spec

(***************************************************************************)
(* What is proved of StopFlagWorker, said of m_FSW.                        *)
(***************************************************************************)
WorkerFacts == INSTANCE StopFlagWorker_proofs WITH
  flag <- StopBit,
  armed <- ui = "create_thread",
  spawned <- started,
  state <- [t \in Threads |-> WorkerState(t)]

\* The abstract worker of the model and the one of the proofs are the same.
LEMMA SameWorker == Worker!Spec => WorkerFacts!Spec
<1>1. Worker!Init => WorkerFacts!Init
  BY DEF Worker!Init, Worker!Threads, WorkerFacts!Init, WorkerFacts!Threads
<1>2. [Worker!Next]_(Worker!vars) => [WorkerFacts!Next]_(WorkerFacts!vars)
  BY DEF Worker!Next, Worker!vars, Worker!Threads, Worker!Alive, Worker!Overlap, Worker!Raise,
         Worker!Spawn, Worker!SpawnFails, Worker!Lower, Worker!Leave, Worker!Finish,
         WorkerFacts!Next, WorkerFacts!vars, WorkerFacts!Threads, WorkerFacts!Alive,
         WorkerFacts!Overlap, WorkerFacts!Raise, WorkerFacts!Spawn, WorkerFacts!SpawnFails,
         WorkerFacts!Lower, WorkerFacts!Leave, WorkerFacts!Finish
<1> QED
  BY <1>1, <1>2, PTL DEF Worker!Spec, WorkerFacts!Spec

\* A start of m_FSW is never lost to an earlier stop, and its threads share the
\* object only after a start over a live thread.
THEOREM WorkerPromises == Spec => [](Worker!NewestRuns /\ Worker!OneThread)
<1>1. WorkerFacts!MaxStartsAssumption
  BY ConstantsAssumption DEF ConstantsAssumption, WorkerFacts!MaxStartsAssumption
<1>2. WorkerFacts!NewestRuns => Worker!NewestRuns
  BY DEF Worker!NewestRuns, WorkerFacts!NewestRuns
<1>3. WorkerFacts!OneThread => Worker!OneThread
  BY DEF Worker!OneThread, Worker!Threads, Worker!Alive,
         WorkerFacts!OneThread, WorkerFacts!Threads, WorkerFacts!Alive
<1> QED
  BY <1>1, <1>2, <1>3, Refinement, SameWorker, WorkerFacts!NewestRunsCorrect,
     WorkerFacts!OneThreadCorrect, PTL DEF ImplementsStopFlagWorker
=============================================================================

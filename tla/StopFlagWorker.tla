--------------------------- MODULE StopFlagWorker ---------------------------
(***************************************************************************)
(* The pattern by which the dialog runs each of its three workers (m_FSW,  *)
(* m_PF and m_Un): a start raises the worker object's stop flag and then   *)
(* creates a thread, a stop lowers the flag, and a thread leaves its loop  *)
(* when it happens to read 0.  Nobody joins a thread and a start does not  *)
(* look for one that is still alive.                                       *)
(*                                                                         *)
(* The flag belongs to the object, not to a thread: a start that comes     *)
(* before the old thread has read 0 takes the stop back.                   *)
(***************************************************************************)
EXTENDS Naturals

CONSTANT MaxStarts   \* bound: threads created

ASSUME MaxStartsAssumption == MaxStarts \in Nat

Threads == 1 .. MaxStarts   \* in the order of their creation
States == {"none", "running", "leaving", "ended"}

VARIABLES flag,       \* the stop flag: 1 run, 0 stop
          armed,      \* the flag is raised and the thread not yet created
          spawned,    \* threads created so far
          state,      \* the state of each thread
          unmanned,   \* history: the last start created no thread
          overlapped  \* history: a start came while a thread was alive

vars == <<flag, armed, spawned, state, unmanned, overlapped>>

Alive(t) == state[t] \in {"running", "leaving"}

(* The flag is a member that no constructor initialises. *)
Init ==
  /\ flag \in {0, 1}
  /\ armed = FALSE
  /\ spawned = 0
  /\ state = [t \in Threads |-> "none"]
  /\ unmanned = FALSE /\ overlapped = FALSE

\* A start is called over a live thread, before it touches the flag.
Overlap ==
  /\ \E t \in Threads : Alive(t)
  /\ overlapped' = TRUE
  /\ UNCHANGED <<flag, armed, spawned, state, unmanned>>

Raise ==
  /\ ~armed /\ spawned < MaxStarts
  /\ flag' = 1
  /\ armed' = TRUE
  /\ overlapped' = (overlapped \/ \E t \in Threads : Alive(t))
  /\ UNCHANGED <<spawned, state, unmanned>>

Spawn ==
  /\ armed
  /\ armed' = FALSE
  /\ spawned' = spawned + 1
  /\ state' = [state EXCEPT ![spawned + 1] = "running"]
  /\ unmanned' = FALSE
  /\ UNCHANGED <<flag, overlapped>>

\* _beginthreadex returns 0, which no start looks at: the flag stays up.
SpawnFails ==
  /\ armed
  /\ armed' = FALSE
  /\ unmanned' = TRUE
  /\ UNCHANGED <<flag, spawned, state, overlapped>>

Lower ==
  /\ ~armed
  /\ flag' = 0
  /\ UNCHANGED <<armed, spawned, state, unmanned, overlapped>>

\* Mutation: a thread gives up without having been stopped.
LeaveAnyway(t) ==
  /\ state[t] = "running"
  /\ state' = [state EXCEPT ![t] = "leaving"]
  /\ UNCHANGED <<flag, armed, spawned, unmanned, overlapped>>

\* Mutation: only the newest thread sees the flag.
LeaveNewestOnly(t) ==
  /\ state[t] = "running" /\ flag = 0 /\ t = spawned
  /\ state' = [state EXCEPT ![t] = "leaving"]
  /\ UNCHANGED <<flag, armed, spawned, unmanned, overlapped>>

\* The thread reads 0 and breaks out of its loop.
Leave(t) ==
  /\ state[t] = "running" /\ flag = 0
  /\ state' = [state EXCEPT ![t] = "leaving"]
  /\ UNCHANGED <<flag, armed, spawned, unmanned, overlapped>>

Finish(t) ==
  /\ state[t] = "leaving"
  /\ state' = [state EXCEPT ![t] = "ended"]
  /\ UNCHANGED <<flag, armed, spawned, unmanned, overlapped>>

Next ==
  \/ Overlap \/ Raise \/ Spawn \/ SpawnFails \/ Lower
  \/ \E t \in Threads : Leave(t) \/ Finish(t)

Spec == Init /\ [][Next]_vars

\* A thread reads the flag again and again, if its work does not keep it: what can
\* keep each of the workers is said in their own modules.
FairSpec == Spec /\ \A t \in Threads : WF_vars(Leave(t) \/ Finish(t))

-----------------------------------------------------------------------------
\* The type of the state; threads are created in the order of their numbers.
TypeOK ==
  /\ flag \in {0, 1} /\ armed \in BOOLEAN
  /\ unmanned \in BOOLEAN /\ overlapped \in BOOLEAN
  /\ spawned \in 0 .. MaxStarts
  /\ armed => spawned < MaxStarts
  /\ state \in [Threads -> States]
  /\ \A t \in Threads : state[t] = "none" <=> t > spawned

\* A start is never lost to an earlier stop: while the flag is up, the newest
\* thread is in its loop, whatever became of the threads before it.  Only a start
\* that got no thread may leave the flag up over threads that have been stopped.
NewestRuns ==
  (flag = 1 /\ ~armed /\ ~unmanned /\ spawned > 0) => state[spawned] = "running"

\* As long as every start waits for the thread before it, no two threads share
\* the worker object, and none is alive when a start is under way.
OneThread ==
  ~overlapped =>
    \A t \in Threads : Alive(t) => t = spawned /\ ~armed

\* A stop that is not taken back ends every thread, also those that lived
\* through earlier stops.
StopEndsAll ==
  flag = 0 ~> (flag = 1 \/ \A t \in Threads : ~Alive(t))
=============================================================================

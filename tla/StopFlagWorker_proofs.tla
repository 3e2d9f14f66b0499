----------------------- MODULE StopFlagWorker_proofs -----------------------
(***************************************************************************)
(* The safety properties of StopFlagWorker, for every number of starts.    *)
(***************************************************************************)
EXTENDS StopFlagWorker, TLAPS

\* The states by name: the provers cope with functions into States better when
\* the set is not expanded.
LEMMA StateNames ==
  "none" \in States /\ "running" \in States /\ "leaving" \in States /\ "ended" \in States
BY DEF States

\* Flag, numbering of the threads and their states keep their types.
THEOREM TypeCorrect == Spec => []TypeOK
<1> USE MaxStartsAssumption DEF Threads, TypeOK
<1>1. Init => TypeOK
  <2> SUFFICES ASSUME Init PROVE TypeOK
    OBVIOUS
  <2>1. flag \in {0, 1} /\ armed \in BOOLEAN /\ unmanned \in BOOLEAN /\ overlapped \in BOOLEAN
    BY DEF Init
  <2>2. spawned \in 0 .. MaxStarts /\ (armed => spawned < MaxStarts)
    BY DEF Init
  <2>3. state \in [Threads -> States]
    BY StateNames DEF Init
  <2>4. \A t \in Threads : state[t] = "none" <=> t > spawned
    BY DEF Init
  <2> QED
    BY <2>1, <2>2, <2>3, <2>4
<1>2. TypeOK /\ [Next]_vars => TypeOK'
  <2> SUFFICES ASSUME TypeOK, [Next]_vars PROVE TypeOK'
    OBVIOUS
  <2>1. CASE Overlap
    BY <2>1 DEF Overlap
  <2>2. CASE Raise
    BY <2>2 DEF Raise
  <2>3. CASE Spawn
    <3>1. spawned + 1 \in Threads
      BY <2>3 DEF Spawn
    <3>2. \A t \in Threads : state'[t] = "none" <=> t > spawned'
      BY <2>3, <3>1 DEF Spawn
    <3>3. state' \in [Threads -> States]
      BY <2>3, <3>1, StateNames DEF Spawn
    <3>4. spawned' \in 0 .. MaxStarts /\ (armed' => spawned' < MaxStarts)
      BY <2>3, <3>1 DEF Spawn
    <3>5. /\ flag' \in {0, 1} /\ armed' \in BOOLEAN
          /\ unmanned' \in BOOLEAN /\ overlapped' \in BOOLEAN
      BY <2>3 DEF Spawn
    <3> QED
      BY <3>2, <3>3, <3>4, <3>5
  <2>4. CASE Lower
    BY <2>4 DEF Lower
  <2>5. ASSUME NEW t \in Threads, Leave(t) PROVE TypeOK'
    BY <2>5, StateNames DEF Leave
  <2>6. ASSUME NEW t \in Threads, Finish(t) PROVE TypeOK'
    BY <2>6, StateNames DEF Finish
  <2>7. CASE UNCHANGED vars
    BY <2>7 DEF vars
  <2>8. CASE SpawnFails
    BY <2>8 DEF SpawnFails
  <2> QED
    BY <2>1, <2>2, <2>3, <2>4, <2>5, <2>6, <2>7, <2>8 DEF Next
<1> QED
  BY <1>1, <1>2, PTL DEF Spec

\* While the flag is up, the newest thread is in its loop, if the last start created
\* it.  The flag is raised before the thread exists, and nothing lowers it between
\* the two steps.
THEOREM NewestRunsCorrect == Spec => []NewestRuns
<1> USE MaxStartsAssumption DEF Threads
<1>1. Init => NewestRuns
  BY DEF Init, NewestRuns
<1>2. TypeOK /\ NewestRuns /\ [Next]_vars => NewestRuns'
  <2> SUFFICES ASSUME TypeOK, NewestRuns, [Next]_vars PROVE NewestRuns'
    OBVIOUS
  <2> USE DEF TypeOK, NewestRuns
  <2>1. CASE Overlap
    BY <2>1 DEF Overlap
  <2>2. CASE Raise
    BY <2>2 DEF Raise
  <2>3. CASE Spawn
    BY <2>3 DEF Spawn
  <2>4. CASE Lower
    BY <2>4 DEF Lower
  <2>5. ASSUME NEW t \in Threads, Leave(t) PROVE NewestRuns'
    BY <2>5 DEF Leave
  <2>6. ASSUME NEW t \in Threads, Finish(t) PROVE NewestRuns'
    BY <2>6 DEF Finish
  <2>7. CASE UNCHANGED vars
    BY <2>7 DEF vars
  <2>8. CASE SpawnFails
    BY <2>8 DEF SpawnFails
  <2> QED
    BY <2>1, <2>2, <2>3, <2>4, <2>5, <2>6, <2>7, <2>8 DEF Next
<1> QED
  BY <1>1, <1>2, TypeCorrect, PTL DEF Spec

\* Threads share the worker object only after a start over a live thread.
THEOREM OneThreadCorrect == Spec => []OneThread
<1> USE MaxStartsAssumption DEF Threads, Alive
<1>1. Init => OneThread
  BY DEF Init, OneThread
<1>2. TypeOK /\ OneThread /\ [Next]_vars => OneThread'
  <2> SUFFICES ASSUME TypeOK, OneThread, [Next]_vars PROVE OneThread'
    OBVIOUS
  <2> USE DEF TypeOK, OneThread
  <2>1. CASE Overlap
    BY <2>1 DEF Overlap
  <2>2. CASE Raise
    BY <2>2 DEF Raise
  <2>3. CASE Spawn
    BY <2>3 DEF Spawn
  <2>4. CASE Lower
    BY <2>4 DEF Lower
  <2>5. ASSUME NEW t \in Threads, Leave(t) PROVE OneThread'
    BY <2>5 DEF Leave
  <2>6. ASSUME NEW t \in Threads, Finish(t) PROVE OneThread'
    BY <2>6 DEF Finish
  <2>7. CASE UNCHANGED vars
    BY <2>7 DEF vars
  <2>8. CASE SpawnFails
    BY <2>8 DEF SpawnFails
  <2> QED
    BY <2>1, <2>2, <2>3, <2>4, <2>5, <2>6, <2>7, <2>8 DEF Next
<1> QED
  BY <1>1, <1>2, TypeCorrect, PTL DEF Spec
=============================================================================

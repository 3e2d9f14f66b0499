----------------------------- MODULE AuditTrail -----------------------------
(***************************************************************************)
(* What a file watcher promises about the FILE_LOG table, one trail per    *)
(* watched volume: which changes happened, and the order in which their    *)
(* rows appear.  The module FileSystemWatcher is shown to implement it.    *)
(*                                                                         *)
(* The change notification API hands the watcher a buffer of bounded size. *)
(* While the buffer suffices and inserts succeed, the trail is exactly the *)
(* history.  When it overflows, changes are missing, and a stretch of the  *)
(* trail may be written a second time: at most one step back per overflow. *)
(***************************************************************************)
EXTENDS Naturals, Sequences, FiniteSets

CONSTANT Volumes    \* the watched volumes

VARIABLES happened,   \* happened[v]: how many changes volume v has seen
          logged,     \* logged[v]: the changes of v's rows, oldest row first
          broken,     \* broken[v]: a change of v was lost
          overflows   \* overflows[v]: how often v's notifications overflowed

vars == <<happened, logged, broken, overflows>>

(***************************************************************************)
(* How often a trail steps back to a change it is already past.            *)
(***************************************************************************)
StepsBack(trail) ==
  Cardinality({i \in 1 .. Len(trail) - 1 : trail[i + 1] <= trail[i]})

Init ==
  /\ happened = [v \in Volumes |-> 0]
  /\ logged = [v \in Volumes |-> <<>>]
  /\ broken = [v \in Volumes |-> FALSE]
  /\ overflows = [v \in Volumes |-> 0]

Lose(v) ==
  \E loss \in BOOLEAN : broken' = [broken EXCEPT ![v] = @ \/ loss]

\* A change happens; the kernel may have to forget it, and others with it.
Happen(v) ==
  /\ happened' = [happened EXCEPT ![v] = @ + 1]
  /\ Lose(v)
  /\ UNCHANGED <<logged, overflows>>

Forget(v) ==
  /\ Lose(v)
  /\ UNCHANGED <<happened, logged, overflows>>

Overflow(v) ==
  /\ broken[v]
  /\ overflows' = [overflows EXCEPT ![v] = @ + 1]
  /\ UNCHANGED <<happened, logged, broken>>

(***************************************************************************)
(* A row is written for a change that happened.  Nothing is skipped or     *)
(* repeated when nothing is lost; otherwise steps back are paid for by     *)
(* overflows.                                                              *)
(***************************************************************************)
Log(v, change) ==
  /\ logged' = [logged EXCEPT ![v] = Append(@, change)]
  /\ IF broken[v] THEN StepsBack(logged'[v]) <= overflows[v]
                  ELSE change = Len(logged[v]) + 1
  /\ UNCHANGED <<happened, broken, overflows>>

Next ==
  \E v \in Volumes :
     \/ Happen(v)
     \/ Forget(v)
     \/ Overflow(v)
     \/ \E change \in 1 .. happened[v] : Log(v, change)

Spec == Init /\ [][Next]_vars

-----------------------------------------------------------------------------
(***************************************************************************)
(* What follows for a reader of the table.                                 *)
(***************************************************************************)

\* A row tells of a change that happened.
OnlyHappened(v) == \A k \in 1 .. Len(logged[v]) : logged[v][k] \in 1 .. happened[v]

\* While nothing is lost, the rows are the first changes, all of them, in order.
ExactWhileWhole(v) == ~broken[v] => \A k \in 1 .. Len(logged[v]) : logged[v][k] = k

\* Without an overflow, rows may be missing but are never out of order or repeated.
InOrder(v) ==
  overflows[v] = 0 => \A i, j \in 1 .. Len(logged[v]) : i < j => logged[v][i] < logged[v][j]

\* An overflow can repeat a row once: a change has at most one row more than
\* there were overflows.
RowsOf(trail, change) == Cardinality({k \in 1 .. Len(trail) : trail[k] = change})

FewRowsPerChange(v) ==
  \A change \in 1 .. happened[v] : RowsOf(logged[v], change) <= overflows[v] + 1

Faithful ==
  \A v \in Volumes :
    OnlyHappened(v) /\ ExactWhileWhole(v) /\ InOrder(v) /\ FewRowsPerChange(v)
=============================================================================

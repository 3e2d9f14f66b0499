---------------------------- MODULE DatabaseCalls ----------------------------
(***************************************************************************)
(* What the methods of CDBConnector do to the MySQL server they call: a    *)
(* call takes at most one connection and either gives it back or abandons  *)
(* it.  An abandoned connection is never closed again, and no call closes  *)
(* a connection that is not its own.  The module DBConnector is shown to   *)
(* implement it.                                                           *)
(***************************************************************************)
CONSTANT Connections   \* the connections that the server has to offer

VARIABLES current,     \* the connection of the call under way, if it has one
          abandoned    \* connections that stay open although their call is over

vars == <<current, abandoned>>

Init == current = {} /\ abandoned = {}

Take(c) ==
  /\ current = {} /\ c \notin abandoned
  /\ current' = {c}
  /\ UNCHANGED abandoned

GiveBack ==
  /\ current' = {}
  /\ UNCHANGED abandoned

Abandon ==
  /\ current' = {}
  /\ abandoned' = abandoned \cup current

Next == GiveBack \/ Abandon \/ \E c \in Connections : Take(c)

Spec == Init /\ [][Next]_vars
=============================================================================

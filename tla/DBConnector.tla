----------------------------- MODULE DBConnector -----------------------------
(***************************************************************************)
(* A CDBConnector object and the server it calls.  Its methods keep what   *)
(* they create in the members con, stmt, pstmt and res and delete it at    *)
(* the end; the members keep their values.  A return from inside a result  *)
(* loop and an exception go past the deletes.                              *)
(*                                                                         *)
(* The catch clause shows a message box, which dispatches messages: while  *)
(* it waits, the tray menu or the notice dialog calls the same object      *)
(* again.  UserNotice has two threads in one object; here there is one.    *)
(***************************************************************************)
EXTENDS Naturals, Sequences

CONSTANTS MaxConnections,  \* connections that the server accepts
          MaxRows,         \* bound: rows of a result
          MaxNested        \* bound: calls that wait in their message boxes

ASSUME ConstantsAssumption ==
  MaxConnections \in Nat /\ MaxRows \in Nat /\ MaxNested \in Nat

Connections == 1 .. MaxConnections
NULL == 0

(***************************************************************************)
(* The methods: whether they insert, whether they run a query, the values  *)
(* with which a row makes them return (none: they go on to the next row),  *)
(* those with which they return after the last row, and the values after   *)
(* the deletes and after the catch clause.                                 *)
(***************************************************************************)
dbConnector == [insert |-> TRUE, query |-> TRUE, onRow |-> {}, afterRows |-> {},
                atEnd |-> TRUE, onException |-> TRUE]
login       == [insert |-> FALSE, query |-> TRUE, onRow |-> {TRUE}, afterRows |-> {FALSE},
                atEnd |-> FALSE, onException |-> FALSE]
FileLog     == [insert |-> TRUE, query |-> FALSE, onRow |-> {}, afterRows |-> {},
                atEnd |-> FALSE, onException |-> FALSE]
\* With and without a list control to fill.
GetNotice(list) ==
  [insert |-> FALSE, query |-> TRUE, onRow |-> IF list THEN {} ELSE {TRUE},
   afterRows |-> {}, atEnd |-> list, onException |-> FALSE]

\* Mutation: the catch clause does not return.
ReadNoticeFallsThrough ==
  [insert |-> TRUE, query |-> FALSE, onRow |-> {}, afterRows |-> {},
   atEnd |-> TRUE, onException |-> TRUE]

ReadNotice  == [insert |-> TRUE, query |-> FALSE, onRow |-> {}, afterRows |-> {},
                atEnd |-> TRUE, onException |-> FALSE]
GetFlag     == [insert |-> FALSE, query |-> TRUE, onRow |-> {TRUE, FALSE}, afterRows |-> {},
                atEnd |-> FALSE, onException |-> FALSE]

Methods == {dbConnector, login, FileLog, GetNotice(FALSE), GetNotice(TRUE),
            ReadNotice, GetFlag}

VARIABLES
  \* the object
  con, stmt, pstmt, res,  \* each the connection whose object it points to, or NULL
  \* the call under way
  pc,            \* the MySQL client's method it calls next
  method,
  rows,          \* rows left in its result
  did,           \* its insert was carried out, or it has seen a row
  waiting,       \* the methods that wait in a message box, innermost first
  returned,      \* the last return
  \* the heap: objects that have not been deleted, each named by its connection
  connections, statements, prepared, results,
  \* history
  left           \* connections that a call went past without deleting them

members == <<con, stmt, pstmt, res>>
call == <<pc, method, rows, did, waiting, returned>>
heap == <<connections, statements, prepared, results>>
vars == <<members, call, heap, left>>

Init ==
  /\ con = NULL /\ stmt = NULL /\ pstmt = NULL /\ res = NULL
  /\ pc = "idle" /\ method = dbConnector /\ rows = 0 /\ did = FALSE
  /\ waiting = <<>>
  /\ returned = [method |-> dbConnector, value |-> FALSE, did |-> FALSE]
  /\ connections = {} /\ statements = {} /\ prepared = {} /\ results = {}
  /\ left = {}

-----------------------------------------------------------------------------
Call(m) ==
  /\ \/ pc = "idle" /\ UNCHANGED waiting
     \/ pc = "box" /\ Len(waiting) < MaxNested /\ waiting' = <<method>> \o waiting
  /\ pc' = "connect"
  /\ method' = m
  /\ did' = FALSE
  /\ UNCHANGED <<members, rows, returned, heap, left>>

\* A call is over; the one around it, if any, is still in its message box.
Return(value, carriedOut) ==
  /\ returned' = [method |-> method, value |-> value, did |-> carriedOut]
  /\ IF waiting = <<>>
     THEN pc' = "idle" /\ UNCHANGED <<method, waiting>>
     ELSE pc' = "box" /\ method' = Head(waiting) /\ waiting' = Tail(waiting)

\* Mutation: an object that has a connection uses it again.
ConnectOnce(c) ==
  /\ pc = "connect" /\ c \notin connections
  /\ IF con = NULL
     THEN con' = c /\ connections' = connections \cup {c}
     ELSE UNCHANGED <<con, connections>>
  /\ pc' = "createStatement"
  /\ UNCHANGED <<stmt, pstmt, res, method, rows, did, waiting, returned,
                 statements, prepared, results, left>>

Connect(c) ==
  /\ pc = "connect" /\ c \notin connections
  /\ con' = c
  /\ connections' = connections \cup {c}
  /\ pc' = "createStatement"
  /\ UNCHANGED <<stmt, pstmt, res, method, rows, did, waiting, returned,
                 statements, prepared, results, left>>

CreateStatement ==
  /\ pc = "createStatement"
  /\ stmt' = con
  /\ statements' = statements \cup {con}
  /\ pc' = "prepareStatement"
  /\ UNCHANGED <<con, pstmt, res, method, rows, did, waiting, returned,
                 connections, prepared, results, left>>

PrepareStatement ==
  /\ pc = "prepareStatement"
  /\ pstmt' = con
  /\ prepared' = prepared \cup {con}
  /\ pc' = IF method.insert THEN "executeUpdate" ELSE "executeQuery"
  /\ UNCHANGED <<con, stmt, res, method, rows, did, waiting, returned,
                 connections, statements, results, left>>

ExecuteUpdate ==
  /\ pc = "executeUpdate"
  /\ did' = TRUE
  /\ pc' = IF method.query THEN "executeQuery" ELSE "delete"
  /\ UNCHANGED <<members, method, rows, waiting, returned, heap, left>>

ExecuteQuery ==
  /\ pc = "executeQuery"
  /\ res' = con
  /\ results' = results \cup {con}
  /\ rows' \in 0 .. MaxRows
  /\ pc' = "next"
  /\ UNCHANGED <<con, stmt, pstmt, method, did, waiting, returned,
                 connections, statements, prepared, left>>

NextRow ==
  /\ pc = "next" /\ rows > 0 /\ method.onRow = {}
  /\ rows' = rows - 1
  /\ did' = TRUE
  /\ UNCHANGED <<members, pc, method, waiting, returned, heap, left>>

ReturnRow(value) ==
  /\ pc = "next" /\ rows > 0 /\ value \in method.onRow
  /\ left' = left \cup {con}
  /\ Return(value, TRUE)
  /\ UNCHANGED <<members, rows, did, heap>>

\* login returns before its deletes, which are dead code.
ReturnWithoutRow(value) ==
  /\ pc = "next" /\ rows = 0 /\ value \in method.afterRows
  /\ left' = left \cup {con}
  /\ Return(value, did)
  /\ UNCHANGED <<members, rows, did, heap>>

AtDeletes == pc = "delete" \/ (pc = "next" /\ rows = 0 /\ method.afterRows = {})

\* Mutation: delete con is forgotten.
DeleteWithoutCon ==
  /\ AtDeletes
  /\ results' = IF method.query THEN results \ {res} ELSE results
  /\ prepared' = prepared \ {pstmt}
  /\ statements' = statements \ {stmt}
  /\ Return(method.atEnd, did)
  /\ UNCHANGED <<members, rows, did, connections, left>>

Delete ==
  /\ AtDeletes
  /\ results' = IF method.query THEN results \ {res} ELSE results
  /\ prepared' = prepared \ {pstmt}
  /\ statements' = statements \ {stmt}
  /\ connections' = connections \ {con}
  /\ Return(method.atEnd, did)
  /\ UNCHANGED <<members, rows, did, left>>

\* Mutation: the catch clause deletes con.
ThrowDeletesCon ==
  /\ pc \notin {"idle", "box"}
  /\ pc' = "box"
  /\ connections' = connections \ {con}
  /\ UNCHANGED <<members, method, rows, did, waiting, returned, statements, prepared,
                 results, left>>

\* Any call of the client may throw, connect also because the server is full.  An
\* insert that throws may have been carried out.
Throw ==
  /\ pc \notin {"idle", "box"}
  /\ pc' = "box"
  /\ left' = IF pc = "connect" THEN left ELSE left \cup {con}
  /\ IF pc = "executeUpdate" THEN did' \in BOOLEAN ELSE UNCHANGED did
  /\ UNCHANGED <<members, method, rows, waiting, returned, heap>>

DismissBox ==
  /\ pc = "box"
  /\ Return(method.onException, FALSE)
  /\ UNCHANGED <<members, rows, did, heap, left>>

Next ==
  \/ \E m \in Methods : Call(m)
  \/ \E c \in Connections : Connect(c)
  \/ CreateStatement \/ PrepareStatement \/ ExecuteUpdate \/ ExecuteQuery \/ NextRow
  \/ \E value \in BOOLEAN : ReturnRow(value) \/ ReturnWithoutRow(value)
  \/ Delete \/ Throw \/ DismissBox

Spec == Init /\ [][Next]_vars

-----------------------------------------------------------------------------
(***************************************************************************)
(* Properties.                                                             *)
(***************************************************************************)
Places == {"idle", "connect", "createStatement", "prepareStatement", "executeUpdate",
           "executeQuery", "next", "delete", "box"}

\* The type of the state.
TypeOK ==
  /\ con \in Connections \cup {NULL} /\ stmt \in Connections \cup {NULL}
  /\ pstmt \in Connections \cup {NULL} /\ res \in Connections \cup {NULL}
  /\ pc \in Places /\ method \in Methods /\ rows \in 0 .. MaxRows /\ did \in BOOLEAN
  /\ waiting \in Seq(Methods)
  /\ returned \in [method : Methods, value : BOOLEAN, did : BOOLEAN]
  /\ connections \subseteq Connections /\ statements \subseteq Connections
  /\ prepared \subseteq Connections /\ results \subseteq Connections
  /\ left \subseteq Connections

\* The objects that the call under way uses or deletes exist and are its own: no
\* pointer that an earlier call left behind, and none that a call made from a message
\* box has changed, is ever followed.
Connected == pc \notin {"idle", "box", "connect"}
Prepared == Connected /\ pc \notin {"createStatement", "prepareStatement"}

UsesOwnObjects ==
  /\ Connected => con \in connections \ left
  /\ Connected /\ pc # "createStatement" => stmt = con /\ con \in statements
  /\ Prepared => pstmt = con /\ con \in prepared
  /\ pc = "next" => res = con /\ con \in results
  /\ pc \in {"executeQuery", "next"} => method.query
  /\ pc = "delete" => ~method.query

\* A connection is open because a call is using it, or because a call went past its
\* deletes; so calls that run to their end leave nothing behind.
LeftOpen == connections = left \cup (IF Connected THEN {con} ELSE {})

\* Statements and results never outlive their connection.
NoOrphans ==
  statements \subseteq connections /\ prepared \subseteq connections /\ results \subseteq connections

\* Every object of the client that exists is one of the call under way or of a call
\* that went past its deletes with it.
ObjectsAccountedFor == LeftOpen /\ NoOrphans

\* TRUE from a method whose callers could look at its value means that the insert was
\* carried out or that there was a row.
Telling == {login, GetNotice(FALSE), ReadNotice, GetFlag}

TrueMeansDone ==
  returned.value /\ returned.method \in Telling => returned.did

\* Each call gives its connection back or abandons it for good.
Calls == INSTANCE DatabaseCalls WITH
  current <- IF Connected THEN {con} ELSE {},
  abandoned <- connections \ (IF Connected THEN {con} ELSE {})

ImplementsDatabaseCalls == Calls!Spec
=============================================================================

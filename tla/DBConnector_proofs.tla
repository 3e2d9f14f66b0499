------------------------- MODULE DBConnector_proofs -------------------------
(***************************************************************************)
(* Proofs about DBConnector, for every number of connections, of rows and  *)
(* of calls that wait in message boxes.                                    *)
(***************************************************************************)
EXTENDS DBConnector, SequenceTheorems, TLAPS

(***************************************************************************)
(* The inductive invariant.  To the properties of the runs it adds that a  *)
(* call has no result before it reads one, which is what makes the delete  *)
(* of its connection leave no result behind, and that a call without a     *)
(* query has carried out its insert when it reaches the deletes.           *)
(***************************************************************************)
NoResultYet == Connected /\ pc # "next" => con \notin results

InsertDone == pc = "delete" => did

IndInv == TypeOK /\ UsesOwnObjects /\ LeftOpen /\ NoOrphans /\ NoResultYet /\ InsertDone

\* What the table of methods says; every proof about a method uses no more.
LEMMA MethodTable ==
  ASSUME NEW m \in Methods
  PROVE  /\ m.insert \in BOOLEAN /\ m.query \in BOOLEAN
         /\ m.onRow \subseteq BOOLEAN /\ m.afterRows \subseteq BOOLEAN
         /\ m.atEnd \in BOOLEAN /\ m.onException \in BOOLEAN
         /\ m.insert \/ m.query
<1>1. CASE m = dbConnector
  BY <1>1 DEF dbConnector
<1>2. CASE m = login
  BY <1>2 DEF login
<1>3. CASE m = FileLog
  BY <1>3 DEF FileLog
<1>4. CASE m = GetNotice(FALSE)
  BY <1>4 DEF GetNotice
<1>5. CASE m = GetNotice(TRUE)
  BY <1>5 DEF GetNotice
<1>6. CASE m = ReadNotice
  BY <1>6 DEF ReadNotice
<1>7. CASE m = GetFlag
  BY <1>7 DEF GetFlag
<1> QED
  BY <1>1, <1>2, <1>3, <1>4, <1>5, <1>6, <1>7 DEF Methods

LEMMA TellingMethods ==
  ASSUME NEW m \in Telling
  PROVE  /\ m.onException = FALSE
         /\ m.atEnd => ~m.query
         /\ m.afterRows \subseteq {FALSE}
<1>1. CASE m = login
  BY <1>1 DEF login
<1>2. CASE m = GetNotice(FALSE)
  BY <1>2 DEF GetNotice
<1>3. CASE m = ReadNotice
  BY <1>3 DEF ReadNotice
<1>4. CASE m = GetFlag
  BY <1>4 DEF GetFlag
<1> QED
  BY <1>1, <1>2, <1>3, <1>4 DEF Telling

\* Return keeps the types, and leaves no call connected.
LEMMA ReturnType ==
  ASSUME TypeOK, NEW value \in BOOLEAN, NEW carriedOut \in BOOLEAN,
         Return(value, carriedOut)
  PROVE  /\ pc' \in {"idle", "box"} /\ method' \in Methods
         /\ waiting' \in Seq(Methods)
         /\ returned' \in [method : Methods, value : BOOLEAN, did : BOOLEAN]
  BY DEF TypeOK, Return, Places

\* The inductive invariant holds, for any number of connections, rows and nested calls.
THEOREM Inductive == Spec => []IndInv
<1> USE ConstantsAssumption DEF Connections, NULL
<1>1. Init => IndInv
  <2> SUFFICES ASSUME Init PROVE IndInv
    OBVIOUS
  <2>1. dbConnector \in Methods
    BY DEF Methods
  <2>2. TypeOK
    <3>1. <<>> \in Seq(Methods)
      BY EmptySeq
    <3>2. returned \in [method : Methods, value : BOOLEAN, did : BOOLEAN]
      BY <2>1 DEF Init
    <3>3. waiting \in Seq(Methods) /\ method \in Methods
      BY <2>1, <3>1 DEF Init
    <3>4. /\ con \in Connections \cup {NULL} /\ stmt \in Connections \cup {NULL}
          /\ pstmt \in Connections \cup {NULL} /\ res \in Connections \cup {NULL}
          /\ rows \in 0 .. MaxRows
      BY DEF Init
    <3>5. pc \in Places /\ did \in BOOLEAN
      BY DEF Init, Places
    <3>6. /\ connections \subseteq Connections /\ statements \subseteq Connections
          /\ prepared \subseteq Connections /\ results \subseteq Connections
          /\ left \subseteq Connections
      BY DEF Init
    <3> QED
      BY <3>2, <3>3, <3>4, <3>5, <3>6 DEF TypeOK
  <2>3. UsesOwnObjects /\ LeftOpen /\ NoOrphans /\ NoResultYet /\ InsertDone
    BY DEF Init, UsesOwnObjects, LeftOpen, NoOrphans, NoResultYet, InsertDone, Connected, Prepared
  <2> QED
    BY <2>2, <2>3 DEF IndInv
<1>2. IndInv /\ [Next]_vars => IndInv'
  <2> SUFFICES ASSUME IndInv, [Next]_vars PROVE IndInv'
    OBVIOUS
  <2> USE DEF UsesOwnObjects, LeftOpen, NoOrphans, NoResultYet, InsertDone, Connected, Prepared
  <2>1. TypeOK /\ UsesOwnObjects /\ LeftOpen /\ NoOrphans /\ NoResultYet /\ InsertDone
    BY DEF IndInv
  <2>2. method \in Methods
    BY <2>1 DEF TypeOK
  <2>3. ASSUME NEW m \in Methods, Call(m) PROVE IndInv'
    <3>1. waiting' \in Seq(Methods)
      <4>1. waiting \in Seq(Methods) /\ <<method>> \in Seq(Methods)
        BY <2>1, <2>2 DEF TypeOK
      <4>2. <<method>> \o waiting \in Seq(Methods)
        BY <4>1, ConcatProperties
      <4> QED
        BY <2>3, <4>1, <4>2 DEF Call
    <3>2. TypeOK'
      BY <2>1, <2>3, <3>1 DEF Call, TypeOK, Places, members, heap
    <3>3. (UsesOwnObjects /\ LeftOpen /\ NoOrphans /\ NoResultYet /\ InsertDone)'
      BY <2>1, <2>3 DEF Call, members, heap
    <3> QED
      BY <3>2, <3>3 DEF IndInv
  <2>4. ASSUME NEW c \in Connections, Connect(c) PROVE IndInv'
    <3>1. TypeOK'
      BY <2>1, <2>4 DEF Connect, TypeOK, Places
    <3>2. (UsesOwnObjects /\ LeftOpen /\ NoOrphans /\ NoResultYet /\ InsertDone)'
      BY <2>1, <2>4 DEF Connect
    <3> QED
      BY <3>1, <3>2 DEF IndInv
  <2>5. CASE CreateStatement
    <3>1. TypeOK'
      BY <2>1, <2>5 DEF CreateStatement, TypeOK, Places
    <3>2. (UsesOwnObjects /\ LeftOpen /\ NoOrphans /\ NoResultYet /\ InsertDone)'
      BY <2>1, <2>5 DEF CreateStatement
    <3> QED
      BY <3>1, <3>2 DEF IndInv
  <2>6. CASE PrepareStatement
    <3>1. TypeOK'
      BY <2>1, <2>6 DEF PrepareStatement, TypeOK, Places
    <3>2. (UsesOwnObjects /\ LeftOpen /\ NoOrphans /\ NoResultYet /\ InsertDone)'
      BY <2>1, <2>2, <2>6, MethodTable DEF PrepareStatement
    <3> QED
      BY <3>1, <3>2 DEF IndInv
  <2>7. CASE ExecuteUpdate
    <3>1. TypeOK'
      BY <2>1, <2>7 DEF ExecuteUpdate, TypeOK, Places, members, heap
    <3>2. method.query \in BOOLEAN
      BY <2>2, MethodTable
    <3>3. UNCHANGED <<con, stmt, pstmt, res, method, connections, statements, prepared, results, left>>
      BY <2>7 DEF ExecuteUpdate, members, heap
    <3>4. pc' = IF method.query THEN "executeQuery" ELSE "delete"
      BY <2>7 DEF ExecuteUpdate
    <3>5. pc = "executeUpdate" /\ did'
      BY <2>7 DEF ExecuteUpdate
    <3>6. (UsesOwnObjects /\ LeftOpen /\ NoOrphans /\ NoResultYet)'
      BY <2>1, <3>2, <3>3, <3>4, <3>5
    <3> QED
      BY <3>1, <3>5, <3>6 DEF IndInv
  <2>8. CASE ExecuteQuery
    <3>1. TypeOK'
      BY <2>1, <2>8 DEF ExecuteQuery, TypeOK, Places
    <3>2. (UsesOwnObjects /\ LeftOpen /\ NoOrphans /\ NoResultYet /\ InsertDone)'
      BY <2>1, <2>8 DEF ExecuteQuery
    <3> QED
      BY <3>1, <3>2 DEF IndInv
  <2>9. CASE NextRow
    <3>1. TypeOK'
      BY <2>1, <2>9 DEF NextRow, TypeOK, members, heap
    <3>2. (UsesOwnObjects /\ LeftOpen /\ NoOrphans /\ NoResultYet /\ InsertDone)'
      BY <2>1, <2>9 DEF NextRow, members, heap
    <3> QED
      BY <3>1, <3>2 DEF IndInv
  <2>10. ASSUME NEW value \in BOOLEAN, ReturnRow(value) PROVE IndInv'
    <3>1. TypeOK'
      BY <2>1, <2>10, ReturnType DEF ReturnRow, TypeOK, Places, members, heap
    <3>2. (UsesOwnObjects /\ LeftOpen /\ NoOrphans /\ NoResultYet /\ InsertDone)'
      BY <2>1, <2>10, ReturnType DEF ReturnRow, members, heap
    <3> QED
      BY <3>1, <3>2 DEF IndInv
  <2>11. ASSUME NEW value \in BOOLEAN, ReturnWithoutRow(value) PROVE IndInv'
    <3>1. did \in BOOLEAN
      BY <2>1 DEF TypeOK
    <3>2. TypeOK'
      BY <2>1, <2>11, <3>1, ReturnType DEF ReturnWithoutRow, TypeOK, Places, members, heap
    <3>3. (UsesOwnObjects /\ LeftOpen /\ NoOrphans /\ NoResultYet /\ InsertDone)'
      BY <2>1, <2>11, <3>1, ReturnType DEF ReturnWithoutRow, members, heap
    <3> QED
      BY <3>2, <3>3 DEF IndInv
  <2>12. CASE Delete
    <3>1. did \in BOOLEAN /\ method.atEnd \in BOOLEAN
      BY <2>1, <2>2, MethodTable DEF TypeOK
    <3>2. Return(method.atEnd, did)
      BY <2>12 DEF Delete
    <3>3. /\ pc' \in {"idle", "box"} /\ method' \in Methods /\ waiting' \in Seq(Methods)
          /\ returned' \in [method : Methods, value : BOOLEAN, did : BOOLEAN]
      BY <2>1, <3>1, <3>2, ReturnType
    <3>4. TypeOK'
      BY <2>1, <2>12, <3>3 DEF Delete, TypeOK, Places, members
    <3>5. /\ stmt = con /\ pstmt = con /\ con \in connections \ left
          /\ con \notin results'
      BY <2>1, <2>12 DEF Delete, AtDeletes
    <3>6. (UsesOwnObjects /\ LeftOpen /\ NoOrphans /\ NoResultYet /\ InsertDone)'
      BY <2>1, <2>12, <3>3, <3>5 DEF Delete, AtDeletes
    <3> QED
      BY <3>4, <3>6 DEF IndInv
  <2>13. CASE Throw
    <3>1. TypeOK'
      BY <2>1, <2>13 DEF Throw, TypeOK, Places, members, heap
    <3>2. (UsesOwnObjects /\ LeftOpen /\ NoOrphans /\ NoResultYet /\ InsertDone)'
      BY <2>1, <2>13 DEF Throw, members, heap
    <3> QED
      BY <3>1, <3>2 DEF IndInv
  <2>14. CASE DismissBox
    <3>1. method.onException \in BOOLEAN
      BY <2>2, MethodTable
    <3>2. TypeOK'
      BY <2>1, <2>14, <3>1, ReturnType DEF DismissBox, TypeOK, Places, members, heap
    <3>3. (UsesOwnObjects /\ LeftOpen /\ NoOrphans /\ NoResultYet /\ InsertDone)'
      BY <2>1, <2>14, <3>1, ReturnType DEF DismissBox, members, heap
    <3> QED
      BY <3>2, <3>3 DEF IndInv
  <2>15. CASE UNCHANGED vars
    BY <2>1, <2>15 DEF IndInv, TypeOK, vars, members, call, heap
  <2> QED
    BY <2>3, <2>4, <2>5, <2>6, <2>7, <2>8, <2>9, <2>10, <2>11, <2>12, <2>13, <2>14, <2>15
       DEF Next
<1> QED
  BY <1>1, <1>2, PTL DEF Spec

\* The members, the heap and the call under way keep their types.
THEOREM TypeCorrect == Spec => []TypeOK
  BY Inductive, PTL DEF IndInv

\* No call follows a pointer to an object that is deleted or not its own, however
\* often calls are made while others wait in their message boxes.
THEOREM OwnObjectsCorrect == Spec => []UsesOwnObjects
  BY Inductive, PTL DEF IndInv

\* What is open is in use or was gone past by a return or an exception, and no
\* statement and no result outlives its connection.
THEOREM ObjectsCorrect == Spec => []ObjectsAccountedFor
  BY Inductive, PTL DEF IndInv, ObjectsAccountedFor

\* TRUE from ReadNotice, GetFlag, login or GetNotice without a list is never a lie.
THEOREM TrueMeansDoneCorrect == Spec => []TrueMeansDone
<1>1. Init => TrueMeansDone
  BY DEF Init, TrueMeansDone
<1>2. IndInv /\ TrueMeansDone /\ [Next]_vars => TrueMeansDone'
  <2> SUFFICES ASSUME IndInv, TrueMeansDone, [Next]_vars PROVE TrueMeansDone'
    OBVIOUS
  <2>1. CASE UNCHANGED returned
    BY <2>1 DEF TrueMeansDone
  <2>2. ASSUME NEW value, NEW carriedOut, Return(value, carriedOut),
               value /\ method \in Telling => carriedOut
        PROVE  TrueMeansDone'
    BY <2>2 DEF Return, TrueMeansDone
  <2>3. ASSUME NEW value \in BOOLEAN, ReturnRow(value) PROVE TrueMeansDone'
    BY <2>2, <2>3 DEF ReturnRow
  <2>4. ASSUME NEW value \in BOOLEAN, ReturnWithoutRow(value) PROVE TrueMeansDone'
    <3>1. method \in Telling => value = FALSE
      BY <2>4, TellingMethods DEF ReturnWithoutRow
    <3> QED
      BY <2>2, <2>4, <3>1 DEF ReturnWithoutRow
  <2>5. CASE Delete
    <3>1. ASSUME method \in Telling, method.atEnd PROVE did
      <4>1. ~method.query
        BY <3>1, TellingMethods
      <4> QED
        BY <2>5, <4>1 DEF Delete, AtDeletes, IndInv, UsesOwnObjects, InsertDone
    <3> QED
      BY <2>2, <2>5, <3>1 DEF Delete
  <2>6. CASE DismissBox
    <3>1. method \in Telling => ~method.onException
      BY TellingMethods
    <3> QED
      BY <2>2, <2>6, <3>1 DEF DismissBox
  <2>7. UNCHANGED returned \/ Delete \/ DismissBox
          \/ \E value \in BOOLEAN : ReturnRow(value) \/ ReturnWithoutRow(value)
    BY DEF Next, vars, call, Call, Connect, CreateStatement, PrepareStatement,
           ExecuteUpdate, ExecuteQuery, NextRow, Throw
  <2> QED
    BY <2>1, <2>3, <2>4, <2>5, <2>6, <2>7
<1> QED
  BY <1>1, <1>2, Inductive, PTL DEF Spec

-----------------------------------------------------------------------------
(***************************************************************************)
(* DBConnector implements DatabaseCalls: connecting takes a connection,    *)
(* the deletes give it back, and a return from a loop or an exception      *)
(* abandons it.  An exception of connect itself changes nothing.           *)
(***************************************************************************)
LEMMA ReturnDisconnects ==
  ASSUME NEW value, NEW carriedOut, Return(value, carriedOut)
  PROVE  ~Connected'
  BY DEF Return, Connected

LEMMA Abandoned ==
  ASSUME UsesOwnObjects, LeftOpen
  PROVE  connections \ (IF Connected THEN {con} ELSE {}) = left
  BY DEF UsesOwnObjects, LeftOpen

THEOREM Refinement == Spec => ImplementsDatabaseCalls
<1> DEFINE Current == IF Connected THEN {con} ELSE {}
<1>1. Init => Calls!Init
  BY DEF Init, Calls!Init, Connected
<1>2. IndInv /\ IndInv' /\ [Next]_vars => [Calls!Next]_Calls!vars
  <2> SUFFICES ASSUME IndInv, IndInv', [Next]_vars PROVE [Calls!Next]_Calls!vars
    OBVIOUS
  <2>1. UsesOwnObjects /\ LeftOpen /\ connections \ Current = left
    BY Abandoned DEF IndInv
  <2>2. (connections \ Current)' = left'
    BY DEF IndInv, UsesOwnObjects, LeftOpen
  <2> USE <2>1, <2>2 DEF Calls!Next, Calls!vars
  <2>3. ASSUME NEW m \in Methods, Call(m) PROVE UNCHANGED <<Current, left>>
    BY <2>3 DEF Call, members, Connected
  <2>4. ASSUME NEW c \in Connections, Connect(c) PROVE Calls!Take(c)
    BY <2>4 DEF Connect, Calls!Take, LeftOpen, Connected
  <2>5. CASE CreateStatement \/ PrepareStatement \/ ExecuteUpdate \/ ExecuteQuery \/ NextRow
    <3>1. UNCHANGED <<Current, left>>
      BY <2>5 DEF CreateStatement, PrepareStatement, ExecuteUpdate, ExecuteQuery, NextRow,
                  members, Connected
    <3> QED
      BY <3>1
  <2>6. ASSUME NEW value \in BOOLEAN, ReturnRow(value) \/ ReturnWithoutRow(value)
        PROVE  Calls!Abandon
    <3>1. Connected /\ ~Connected' /\ left' = left \cup {con}
      BY <2>6, ReturnDisconnects DEF ReturnRow, ReturnWithoutRow, Connected
    <3> QED
      BY <3>1 DEF Calls!Abandon
  <2>7. CASE Delete
    <3>1. Connected /\ ~Connected' /\ UNCHANGED left
      BY <2>7, ReturnDisconnects DEF Delete, AtDeletes, Connected
    <3> QED
      BY <3>1 DEF Calls!GiveBack
  <2>8. CASE Throw
    <3>1. ~Connected' /\ left' = left \cup Current
      BY <2>8 DEF Throw, Connected
    <3> QED
      BY <3>1 DEF Calls!Abandon
  <2>9. CASE DismissBox
    <3>1. ~Connected /\ ~Connected' /\ UNCHANGED left
      BY <2>9, ReturnDisconnects DEF DismissBox, Connected
    <3> QED
      BY <3>1
  <2>10. CASE UNCHANGED vars
    BY <2>10 DEF vars, members, call, heap, Connected
  <2> QED
    BY <2>3, <2>4, <2>5, <2>6, <2>7, <2>8, <2>9, <2>10 DEF Next
<1> QED
  BY <1>1, <1>2, Inductive, PTL DEF Spec, ImplementsDatabaseCalls, Calls!Spec
=============================================================================

------------------------- MODULE PacketFilter_proofs -------------------------
(***************************************************************************)
(* Proofs about PacketFilter, for any number of starts, packets, faults    *)
(* and places in the device's queue.                                       *)
(***************************************************************************)
EXTENDS PacketFilter, SequenceTheorems, FiniteSetTheorems, TLAPS

(***************************************************************************)
(* The types.                                                              *)
(***************************************************************************)

\* What the threads and the dialog's thread do, without the packets.
Control ==
  /\ starting \in BOOLEAN /\ unmanned \in BOOLEAN /\ exited \in BOOLEAN
  /\ Stopbit \in {0, 1}
  /\ handle \in Handles
  /\ started \in 0 .. MaxStarts
  /\ starting => started < MaxStarts
  /\ pc \in [Threads -> Locations]
  /\ \A t \in Threads : pc[t] = "none" <=> t > started
  /\ receiving \in [Threads -> Handles]
  /\ open \subseteq Threads
  /\ afterStop \in Nat /\ overlapped \in BOOLEAN /\ faults \in 0 .. MaxFaults

Sent == [id : 1 .. MaxPackets, kind : Kinds, marked : BOOLEAN]

\* The packets.  A thread that sends holds one that was captured.
Packets ==
  /\ packet \in Packet \cup {NoPacket}
  /\ \A t \in Threads : pc[t] = "forward" => packet \in Packet
  /\ queue \in [Threads -> Seq(Packet)]
  /\ wire \in Seq(Sent)
  /\ captured \in Seq(Packet) /\ Len(captured) <= MaxPackets
  /\ unparsed \subseteq 1 .. MaxPackets /\ failed \subseteq 1 .. MaxPackets
  /\ discarded \subseteq 1 .. MaxPackets

LEMMA TypeParts == Control /\ Packets => TypeOK
BY DEF Control, Packets, TypeOK, Sent

\* The numbers of threads and handles.
LEMMA ThreadNumbers ==
  /\ \A t \in Threads : t \in Nat /\ t > 0 /\ t \in Handles
  /\ NoHandle \in Handles /\ NoHandle \notin Threads
BY ConstantsAssumption DEF ConstantsAssumption, Threads, Handles, NoHandle

\* A start under way has a number for its thread.
LEMMA RoomToStart ==
  Control /\ starting => started \in Nat /\ started + 1 \in Threads /\ started + 1 \in 0 .. MaxStarts
BY ConstantsAssumption DEF ConstantsAssumption, Control, Threads

\* A thread that goes somewhere else is the only one to move.
LEMMA GotoMoves ==
  ASSUME Control, NEW t \in Threads, NEW from, NEW to \in Locations \ {"none"},
         from # "none", At(t, from), Goto(t, to)
  PROVE  /\ pc' \in [Threads -> Locations]
         /\ \A s \in Threads : pc'[s] = "none" <=> s > started
         /\ pc'[t] = to
         /\ \A s \in Threads : s # t => pc'[s] = pc[s]
BY DEF Control, At, Goto

\* The places a thread goes to.
LEMMA LocationNames ==
  {"check", "recv", "forward", "close", "ended"} \subseteq Locations \ {"none"}
BY DEF Locations

LEMMA InitControl == Init => Control
<1> SUFFICES ASSUME Init PROVE Control
  OBVIOUS
<1>1. /\ starting = FALSE /\ unmanned = FALSE /\ exited = FALSE /\ Stopbit \in {0, 1}
      /\ open = {} /\ overlapped = FALSE
  BY DEF Init
<1>4. started \in 0 .. MaxStarts /\ afterStop \in Nat /\ faults \in 0 .. MaxFaults
  BY ConstantsAssumption DEF Init, ConstantsAssumption
<1>2. handle \in Handles /\ receiving \in [Threads -> Handles]
  BY ThreadNumbers DEF Init
<1>3. pc \in [Threads -> Locations] /\ \A t \in Threads : pc[t] = "none" /\ t > started
  BY ThreadNumbers DEF Init, Locations
<1> QED
  BY <1>1, <1>2, <1>3, <1>4 DEF Control

\* What every action does to the control.
LEMMA NextControl == Control /\ [Next]_vars => Control'
<1> SUFFICES ASSUME Control, [Next]_vars PROVE Control'
  OBVIOUS
<1>1. CASE StartThread
  BY <1>1 DEF StartThread, Control, globals, threads, device
<1>2. CASE CreateThread
  <2>1. started + 1 \in Threads /\ started + 1 \in 0 .. MaxStarts /\ started \in Nat
    BY <1>2, RoomToStart DEF CreateThread
  <2>2. /\ pc' \in [Threads -> Locations]
        /\ pc'[started + 1] = "created"
        /\ \A t \in Threads : t # started + 1 => pc'[t] = pc[t]
    BY <1>2, <2>1 DEF CreateThread, Control, Locations
  <2>3. \A t \in Threads : pc'[t] = "none" <=> t > started'
    BY <1>2, <2>1, <2>2, ThreadNumbers DEF CreateThread, Control
  <2> QED
    BY <1>2, <2>1, <2>2, <2>3 DEF CreateThread, Control, globals, device, history
<1>3. CASE StopThread
  BY <1>3 DEF StopThread, Control, globals, threads, device, history
<1>4. ASSUME NEW t \in Threads, DivertOpen(t) PROVE Control'
  BY <1>4, GotoMoves, LocationNames, ThreadNumbers DEF DivertOpen, Control, object, history
<1>5. ASSUME NEW t \in Threads, DivertOpenFails(t) PROVE Control'
  BY <1>5, ThreadNumbers DEF DivertOpenFails, Control, threads, history
<1>6. ASSUME NEW t \in Threads, CheckStopbit(t) PROVE Control'
  <2>1. receiving' \in [Threads -> Handles]
    BY <1>6 DEF CheckStopbit, Control
  <2>2. /\ pc' \in [Threads -> Locations]
        /\ \A s \in Threads : pc'[s] = "none" <=> s > started
    BY <1>6, GotoMoves, LocationNames DEF CheckStopbit
  <2> QED
    BY <1>6, <2>1, <2>2 DEF CheckStopbit, Control, object, globals, device, history
<1>7. ASSUME NEW t \in Threads, DivertRecv(t) PROVE Control'
  BY <1>7, GotoMoves, LocationNames DEF DivertRecv, Control, object
<1>8. ASSUME NEW t \in Threads, DivertRecvFails(t) PROVE Control'
  <2>1. faults' \in 0 .. MaxFaults
    BY <1>8, ConstantsAssumption DEF DivertRecvFails, Fault, Control, ConstantsAssumption
  <2> QED
    BY <1>8, <2>1, GotoMoves, LocationNames DEF DivertRecvFails, Control, object, globals, device
<1>9. ASSUME NEW t \in Threads, Unparsable(t) PROVE Control'
  BY <1>9, GotoMoves, LocationNames DEF Unparsable, Control, object, globals, device
<1>10. ASSUME NEW t \in Threads, DivertSend(t) PROVE Control'
  BY <1>10, GotoMoves, LocationNames DEF DivertSend, Control, object, globals, history
<1>11. ASSUME NEW t \in Threads, DivertSendFails(t) PROVE Control'
  <2>1. faults' \in 0 .. MaxFaults
    BY <1>11, ConstantsAssumption DEF DivertSendFails, Fault, Control, ConstantsAssumption
  <2> QED
    BY <1>11, <2>1, GotoMoves, LocationNames DEF DivertSendFails, Control, object, globals, device
<1>12. ASSUME NEW t \in Threads, DivertClose(t) PROVE Control'
  BY <1>12, GotoMoves, LocationNames DEF DivertClose, Control, object, globals
<1>13. ASSUME NEW t \in Threads, NEW kind \in Kinds, Capture(t, kind) PROVE Control'
  BY <1>13 DEF Capture, Control, object, globals, threads
<1>14. CASE UNCHANGED vars
  BY <1>14 DEF vars, Control, object, globals, threads, device, history
<1>15. CASE CreateThreadFails
  BY <1>15 DEF CreateThreadFails, Control, globals, threads, device, history
<1> QED
  BY <1>1, <1>2, <1>3, <1>4, <1>5, <1>6, <1>7, <1>8, <1>9, <1>10, <1>11, <1>12, <1>13, <1>14, <1>15
     DEF Next, Thread, Forward

\* What is sent, and the ids of what is not.
LEMMA OutgoingType ==
  ASSUME NEW p \in Packet PROVE Outgoing(p) \in Sent /\ p.id \in 1 .. MaxPackets
BY DEF Outgoing, Sent, Packet

LEMMA IdsType ==
  ASSUME NEW q \in Seq(Packet) PROVE Ids(q) \subseteq 1 .. MaxPackets
<1> SUFFICES ASSUME NEW i \in 1 .. Len(q) PROVE q[i].id \in 1 .. MaxPackets
  BY DEF Ids
<1>1. q[i] \in Packet
  BY ElementOfSeq
<1> QED
  BY <1>1 DEF Packet

LEMMA InitPackets == Init => Packets
<1> SUFFICES ASSUME Init PROVE Packets
  OBVIOUS
<1>1. \A S : <<>> \in Seq(S)
  BY EmptySeq
<1>2. queue \in [Threads -> Seq(Packet)] /\ wire \in Seq(Sent) /\ captured \in Seq(Packet)
  BY <1>1 DEF Init
<1>3. Len(captured) <= MaxPackets
  BY ConstantsAssumption DEF Init, ConstantsAssumption
<1>4. \A t \in Threads : pc[t] = "none"
  BY DEF Init
<1>5. /\ packet = NoPacket
      /\ unparsed = {} /\ failed = {} /\ discarded = {}
  BY DEF Init
<1> QED
  BY <1>2, <1>3, <1>4, <1>5 DEF Packets

\* What every action does to the packets.
LEMMA NextPackets == Control /\ Packets /\ [Next]_vars => Packets'
<1> SUFFICES ASSUME Control, Packets, [Next]_vars PROVE Packets'
  OBVIOUS
<1>1. CASE StartThread
  BY <1>1 DEF StartThread, Packets, globals, threads, device
<1>2. CASE CreateThread
  <2>1. started + 1 \in Threads
    BY <1>2, RoomToStart DEF CreateThread
  <2>2. \A t \in Threads : pc'[t] = "forward" => pc[t] = "forward"
    BY <1>2, <2>1 DEF CreateThread, Control
  <2> QED
    BY <1>2, <2>2 DEF CreateThread, Packets, globals, device, history
<1>3. CASE StopThread
  BY <1>3 DEF StopThread, Packets, globals, threads, device, history
<1>4. ASSUME NEW t \in Threads, DivertOpen(t) PROVE Packets'
  BY <1>4, GotoMoves, LocationNames DEF DivertOpen, Packets, history
<1>5. ASSUME NEW t \in Threads, DivertOpenFails(t) PROVE Packets'
  BY <1>5 DEF DivertOpenFails, Packets, threads, history
<1>6. ASSUME NEW t \in Threads, CheckStopbit(t) PROVE Packets'
  <2>1. \A s \in Threads : pc'[s] = "forward" => pc[s] = "forward"
    BY <1>6, GotoMoves, LocationNames DEF CheckStopbit
  <2> QED
    BY <1>6, <2>1 DEF CheckStopbit, Packets, globals, device, history
<1>7. ASSUME NEW t \in Threads, DivertRecv(t) PROVE Packets'
  <2>1. PICK h \in Threads : /\ queue[h] # <<>> /\ packet' = Head(queue[h])
                             /\ queue' = [queue EXCEPT ![h] = Tail(@)]
    BY <1>7 DEF DivertRecv, Control
  <2>2. queue[h] \in Seq(Packet)
    BY DEF Packets
  <2>3. Head(queue[h]) \in Packet /\ Tail(queue[h]) \in Seq(Packet)
    BY <2>1, <2>2, HeadTailProperties
  <2>4. queue' \in [Threads -> Seq(Packet)]
    BY <2>1, <2>3 DEF Packets
  <2> QED
    BY <1>7, <2>1, <2>3, <2>4 DEF DivertRecv, Packets
<1>8. ASSUME NEW t \in Threads, DivertRecvFails(t) PROVE Packets'
  BY <1>8, GotoMoves, LocationNames DEF DivertRecvFails, Packets, globals, device
<1>9. ASSUME NEW t \in Threads, Forward(t) PROVE Packets'
  <2>1. packet \in Packet
    BY <1>9 DEF Forward, Unparsable, DivertSend, DivertSendFails, At, Packets
  <2>2. Outgoing(packet) \in Sent /\ packet.id \in 1 .. MaxPackets
    BY <2>1, OutgoingType
  <2>3. Append(wire, Outgoing(packet)) \in Seq(Sent)
    BY <2>2, AppendProperties DEF Packets
  <2>4. \A s \in Threads : pc'[s] = "forward" => pc[s] = "forward"
    BY <1>9, GotoMoves, LocationNames DEF Forward, Unparsable, DivertSend, DivertSendFails
  <2>5. CASE Unparsable(t)
    BY <2>2, <2>4, <2>5 DEF Unparsable, Packets, globals, device
  <2>6. CASE DivertSend(t)
    BY <2>3, <2>4, <2>6 DEF DivertSend, Packets, globals, history
  <2>7. CASE DivertSendFails(t)
    BY <2>2, <2>4, <2>7 DEF DivertSendFails, Packets, globals, device
  <2> QED
    BY <1>9, <2>5, <2>6, <2>7 DEF Forward
<1>10. ASSUME NEW t \in Threads, DivertClose(t) PROVE Packets'
  <2>1. \A s \in Threads : pc'[s] = "forward" => pc[s] = "forward"
    BY <1>10, GotoMoves, LocationNames DEF DivertClose
  <2>2. CASE handle \in open
    <3>1. handle \in Threads /\ queue[handle] \in Seq(Packet)
      BY <2>2 DEF Control, Packets
    <3>2. discarded' \subseteq 1 .. MaxPackets
      BY <1>10, <2>2, <3>1, IdsType DEF DivertClose, Packets
    <3>3. queue' \in [Threads -> Seq(Packet)]
      BY <1>10, <2>2, <3>1, EmptySeq DEF DivertClose, Packets
    <3> QED
      BY <1>10, <2>1, <3>2, <3>3 DEF DivertClose, Packets, globals
  <2>3. CASE handle \notin open
    BY <1>10, <2>1, <2>3 DEF DivertClose, Packets, globals
  <2> QED
    BY <2>2, <2>3
<1>11. ASSUME NEW h \in Threads, NEW kind \in Kinds, Capture(h, kind) PROVE Packets'
  <2> DEFINE p == [id |-> Len(captured) + 1, kind |-> kind]
  <2>1. Len(captured) \in Nat
    BY LenProperties DEF Packets
  <2>2. p \in Packet
    BY <1>11, <2>1, ConstantsAssumption DEF Capture, Packet, ConstantsAssumption
  <2>3. captured' \in Seq(Packet) /\ Len(captured') = Len(captured) + 1
    BY <1>11, <2>2, AppendProperties DEF Capture, Packets
  <2>4. Len(captured') <= MaxPackets
    BY <1>11, <2>1, <2>3, ConstantsAssumption DEF Capture, Packets, ConstantsAssumption
  <2>5. queue' \in [Threads -> Seq(Packet)]
    <3>1. queue[h] \in Seq(Packet)
      BY DEF Packets
    <3>2. Append(queue[h], p) \in Seq(Packet)
      BY <2>2, <3>1, AppendProperties
    <3> QED
      BY <1>11, <3>2 DEF Capture, Packets
  <2>6. discarded' \subseteq 1 .. MaxPackets
    <3>1. p.id \in 1 .. MaxPackets
      BY <2>2, OutgoingType
    <3> QED
      BY <1>11, <3>1 DEF Capture, Packets
  <2> QED
    BY <1>11, <2>3, <2>4, <2>5, <2>6 DEF Capture, Packets, globals, threads
<1>12. CASE UNCHANGED vars
  BY <1>12 DEF vars, Packets, globals, threads, device, history
<1>13. CASE CreateThreadFails
  BY <1>13 DEF CreateThreadFails, Packets, globals, threads, device, history
<1> QED
  BY <1>1, <1>2, <1>3, <1>4, <1>5, <1>6, <1>7, <1>8, <1>9, <1>10, <1>11, <1>12, <1>13
     DEF Next, Thread

(***************************************************************************)
(* The threads and their handles.                                          *)
(***************************************************************************)
\* Without an overlap a thread that is alive is the newest, and no start is under way.
NewestAlone ==
  ~overlapped => \A t \in Threads : Alive(t) => t = started /\ ~starting

\* What is received after a stop is received by a thread that read Stopbit before.
StopSeen ==
  ~overlapped =>
    /\ afterStop <= 1
    /\ Stopbit = 1 => afterStop = 0
    /\ \A t \in Threads : pc[t] = "recv" => afterStop = 0

ThreadInv == Control /\ NewestAlone /\ HandleHasItsThread /\ StopSeen

\* A thread stays alive on its way; it only ends with DivertClose.
LEMMA NextAlone == Control /\ NewestAlone /\ [Next]_vars => NewestAlone'
<1> SUFFICES ASSUME Control, NewestAlone, [Next]_vars PROVE NewestAlone'
  OBVIOUS
<1> USE DEF NewestAlone, Alive
<1>1. CASE StartThread
  BY <1>1 DEF StartThread, threads, Control
<1>2. CASE CreateThread
  <2>1. started + 1 \in Threads
    BY <1>2, RoomToStart DEF CreateThread
  <2>2. \A t \in Threads : t # started + 1 => pc'[t] = pc[t]
    BY <1>2, <2>1 DEF CreateThread, Control
  <2> QED
    BY <1>2, <2>2 DEF CreateThread, history
<1>3. CASE StopThread
  BY <1>3 DEF StopThread, threads, history
<1>4. ASSUME NEW t \in Threads, Thread(t) PROVE NewestAlone'
  <2>1. \A s \in Threads : pc'[s] \notin {"none", "ended"} => pc[s] \notin {"none", "ended"}
    <3>1. CASE DivertOpen(t)
      BY <3>1, GotoMoves, LocationNames DEF DivertOpen, At
    <3>2. CASE DivertOpenFails(t)
      BY <3>2 DEF DivertOpenFails, threads
    <3>3. CASE CheckStopbit(t)
      BY <3>3, GotoMoves, LocationNames DEF CheckStopbit, At
    <3>4. CASE DivertRecv(t)
      BY <3>4, GotoMoves, LocationNames DEF DivertRecv, At
    <3>5. CASE DivertRecvFails(t)
      BY <3>5, GotoMoves, LocationNames DEF DivertRecvFails, At
    <3>6. CASE Forward(t)
      BY <3>6, GotoMoves, LocationNames DEF Forward, Unparsable, DivertSend, DivertSendFails, At
    <3>7. CASE DivertClose(t)
      BY <3>7, GotoMoves, LocationNames DEF DivertClose, At
    <3> QED
      BY <1>4, <3>1, <3>2, <3>3, <3>4, <3>5, <3>6, <3>7 DEF Thread
  <2>2. UNCHANGED <<started, starting, overlapped>>
    BY <1>4 DEF Thread, DivertOpen, DivertOpenFails, CheckStopbit, DivertRecv, DivertRecvFails,
                Forward, Unparsable, DivertSend, DivertSendFails, DivertClose, object, threads,
                history
  <2> QED
    BY <2>1, <2>2
<1>5. ASSUME NEW h \in Threads, NEW kind \in Kinds, Capture(h, kind) PROVE NewestAlone'
  BY <1>5 DEF Capture, object, threads
<1>6. CASE UNCHANGED vars
  BY <1>6 DEF vars, object, threads, history
<1>7. CASE CreateThreadFails
  BY <1>7 DEF CreateThreadFails, threads, history
<1> QED
  BY <1>1, <1>2, <1>3, <1>4, <1>5, <1>6, <1>7 DEF Next

\* A thread opens, uses and closes its own handle.
LEMMA NextHandle ==
  Control /\ NewestAlone /\ HandleHasItsThread /\ [Next]_vars => HandleHasItsThread'
<1> SUFFICES ASSUME Control, NewestAlone, HandleHasItsThread, [Next]_vars, ~overlapped', ~exited'
             PROVE  HandleHasItsThread'
  BY DEF HandleHasItsThread
<1> USE DEF HandleHasItsThread
<1>1. CASE StartThread
  BY <1>1 DEF StartThread, globals, threads, device
<1>2. CASE CreateThread
  <2>1. started + 1 \in Threads
    BY <1>2, RoomToStart DEF CreateThread
  <2>2. /\ pc'[started + 1] = "created"
        /\ \A t \in Threads : t # started + 1 => pc'[t] = pc[t]
    BY <1>2, <2>1 DEF CreateThread, Control
  <2>3. \A t \in Threads : ~Alive(t)
    BY <1>2 DEF CreateThread, NewestAlone, history
  <2>4. open = {}
    BY <1>2, <2>3 DEF CreateThread, Alive, Control, history
  <2> QED
    BY <1>2, <2>2, <2>3, <2>4 DEF CreateThread, Alive, globals, device, history
<1>3. CASE StopThread
  BY <1>3 DEF StopThread, globals, threads, device, history
<1>4. ASSUME NEW t \in Threads, Thread(t) PROVE HandleHasItsThread'
  <2>1. ~exited /\ pc[t] \notin {"none", "ended"}
    BY <1>4 DEF Thread, DivertOpen, DivertOpenFails, CheckStopbit, DivertRecv, DivertRecvFails,
                Forward, Unparsable, DivertSend, DivertSendFails, DivertClose, At
  <2>2. ~overlapped
    BY <1>4 DEF Thread, DivertOpen, DivertOpenFails, CheckStopbit, DivertRecv, DivertRecvFails,
                Forward, Unparsable, DivertSend, DivertSendFails, DivertClose, history
  <2>3. \A s \in Threads : s # t => pc[s] \in {"none", "ended"}
    BY <2>1, <2>2 DEF NewestAlone, Alive
  <2>4. open \subseteq {t}
    BY <2>1, <2>2, <2>3 DEF Control
  <2>5. CASE DivertOpen(t)
    BY <2>3, <2>4, <2>5, GotoMoves, LocationNames DEF DivertOpen, history
  <2>6. CASE DivertOpenFails(t)
    BY <2>6 DEF DivertOpenFails
  <2>7. CASE CheckStopbit(t)
    <3>1. pc[t] = "check" /\ t \in open /\ handle = t
      BY <2>1, <2>2, <2>7 DEF CheckStopbit, At
    <3>2. /\ pc'[t] \in {"recv", "close"} /\ (pc'[t] = "recv" => receiving'[t] = t)
          /\ \A s \in Threads : s # t => pc'[s] = pc[s]
      BY <2>7, <3>1, GotoMoves, LocationNames DEF CheckStopbit, Control
    <3> QED
      BY <2>3, <2>4, <2>7, <3>1, <3>2 DEF CheckStopbit, globals, device
  <2>8. CASE DivertRecv(t)
    BY <2>1, <2>2, <2>3, <2>4, <2>8, GotoMoves, LocationNames DEF DivertRecv, At
  <2>9. CASE DivertRecvFails(t)
    BY <2>1, <2>2, <2>3, <2>4, <2>9, GotoMoves, LocationNames
       DEF DivertRecvFails, At, globals, device
  <2>10. CASE Forward(t)
    <3>1. pc[t] = "forward" /\ t \in open /\ handle = t
      BY <2>1, <2>2, <2>10 DEF Forward, Unparsable, DivertSend, DivertSendFails, At
    <3>2. UNCHANGED <<handle, open>>
      BY <2>10 DEF Forward, Unparsable, DivertSend, DivertSendFails, globals, device
    <3>3. pc'[t] = "check" /\ \A s \in Threads : s # t => pc'[s] = pc[s]
      BY <2>10, GotoMoves, LocationNames DEF Forward, Unparsable, DivertSend, DivertSendFails
    <3> QED
      BY <2>3, <2>4, <3>1, <3>2, <3>3
  <2>11. CASE DivertClose(t)
    <3>1. pc[t] = "close" /\ handle = t
      BY <2>1, <2>2, <2>11 DEF DivertClose, At
    <3>2. open' = {}
      BY <2>4, <2>11, <3>1 DEF DivertClose
    <3>3. pc'[t] = "ended" /\ \A s \in Threads : s # t => pc'[s] = pc[s]
      BY <2>11, GotoMoves, LocationNames DEF DivertClose
    <3> QED
      BY <2>3, <3>2, <3>3
  <2> QED
    BY <1>4, <2>5, <2>6, <2>7, <2>8, <2>9, <2>10, <2>11 DEF Thread
<1>5. ASSUME NEW h \in Threads, NEW kind \in Kinds, Capture(h, kind) PROVE HandleHasItsThread'
  BY <1>5 DEF Capture, object, globals, threads
<1>6. CASE UNCHANGED vars
  BY <1>6 DEF vars, object, globals, threads, device, history
<1>7. CASE CreateThreadFails
  BY <1>7 DEF CreateThreadFails, globals, threads, device, history
<1> QED
  BY <1>1, <1>2, <1>3, <1>4, <1>5, <1>6, <1>7 DEF Next

\* One packet can be received between a stop and the next look at Stopbit.
LEMMA NextStop ==
  Control /\ NewestAlone /\ StopSeen /\ [Next]_vars => StopSeen'
<1> SUFFICES ASSUME Control, NewestAlone, StopSeen, [Next]_vars, ~overlapped'
             PROVE  StopSeen'
  BY DEF StopSeen
<1> USE DEF StopSeen
<1>1. CASE StartThread
  BY <1>1 DEF StartThread, threads
<1>2. CASE CreateThread
  <2>1. started + 1 \in Threads
    BY <1>2, RoomToStart DEF CreateThread
  <2>2. /\ pc'[started + 1] = "created"
        /\ \A t \in Threads : t # started + 1 => pc'[t] = pc[t]
    BY <1>2, <2>1 DEF CreateThread, Control
  <2> QED
    BY <1>2, <2>2 DEF CreateThread, history
<1>3. CASE StopThread
  BY <1>3 DEF StopThread, threads, history
<1>4. ASSUME NEW t \in Threads, DivertOpen(t) PROVE StopSeen'
  BY <1>4, GotoMoves, LocationNames DEF DivertOpen, object, history
<1>5. ASSUME NEW t \in Threads, DivertOpenFails(t) PROVE StopSeen'
  BY <1>5 DEF DivertOpenFails, threads, history
<1>6. ASSUME NEW t \in Threads, CheckStopbit(t) PROVE StopSeen'
  BY <1>6, GotoMoves, LocationNames DEF CheckStopbit, Control, object, history
<1>7. ASSUME NEW t \in Threads, DivertRecv(t) PROVE StopSeen'
  <2>1. pc[t] = "recv" /\ ~overlapped
    BY <1>7 DEF DivertRecv, At
  <2>2. afterStop = 0
    BY <2>1
  <2>3. \A s \in Threads : pc'[s] # "recv"
    <3>1. \A s \in Threads : s # t => pc[s] \in {"none", "ended"}
      BY <2>1 DEF NewestAlone, Alive
    <3> QED
      BY <1>7, <3>1, GotoMoves, LocationNames DEF DivertRecv
  <2> QED
    BY <1>7, <2>2, <2>3 DEF DivertRecv, Control, object
<1>8. ASSUME NEW t \in Threads, DivertRecvFails(t) PROVE StopSeen'
  BY <1>8, GotoMoves, LocationNames DEF DivertRecvFails, object
<1>9. ASSUME NEW t \in Threads, Forward(t) PROVE StopSeen'
  <2>1. UNCHANGED <<Stopbit, afterStop, overlapped>>
    BY <1>9 DEF Forward, Unparsable, DivertSend, DivertSendFails, object, history
  <2>2. \A s \in Threads : pc'[s] = "recv" => pc[s] = "recv"
    BY <1>9, GotoMoves, LocationNames DEF Forward, Unparsable, DivertSend, DivertSendFails
  <2> QED
    BY <2>1, <2>2
<1>10. ASSUME NEW t \in Threads, DivertClose(t) PROVE StopSeen'
  BY <1>10, GotoMoves, LocationNames DEF DivertClose, object
<1>11. ASSUME NEW h \in Threads, NEW kind \in Kinds, Capture(h, kind) PROVE StopSeen'
  BY <1>11 DEF Capture, object, threads
<1>12. CASE UNCHANGED vars
  BY <1>12 DEF vars, object, threads, history
<1>13. CASE CreateThreadFails
  BY <1>13 DEF CreateThreadFails, threads, history
<1> QED
  BY <1>1, <1>2, <1>3, <1>4, <1>5, <1>6, <1>7, <1>8, <1>9, <1>10, <1>11, <1>12, <1>13
     DEF Next, Thread

LEMMA ThreadInductive == Spec => [](ThreadInv /\ Packets)
<1>1. Init => ThreadInv
  <2> SUFFICES ASSUME Init PROVE ThreadInv
    OBVIOUS
  <2>1. \A t \in Threads : pc[t] = "none"
    BY DEF Init
  <2>2. open = {} /\ afterStop = 0
    BY DEF Init
  <2> QED
    BY <2>1, <2>2, InitControl DEF ThreadInv, NewestAlone, Alive, HandleHasItsThread, StopSeen
<1>2. ThreadInv /\ [Next]_vars => ThreadInv'
  BY NextControl, NextAlone, NextHandle, NextStop DEF ThreadInv
<1>3. ThreadInv => Control
  BY DEF ThreadInv
<1> QED
  BY <1>1, <1>2, <1>3, InitPackets, NextPackets, PTL DEF Spec

\* The state keeps its type, whatever threads, device and faults do.
THEOREM TypeCorrect == Spec => []TypeOK
<1>1. ThreadInv => Control
  BY DEF ThreadInv
<1> QED
  BY <1>1, ThreadInductive, TypeParts, PTL

\* Unless starts overlap no handle is left behind, and none is closed under its user.
THEOREM HandleCorrect == Spec => []HandleHasItsThread
<1>1. ThreadInv => HandleHasItsThread
  BY DEF ThreadInv
<1> QED
  BY <1>1, ThreadInductive, PTL

\* Unless starts overlap a stop lets at most one more packet through.
THEOREM OneMoreCorrect == Spec => []OneMorePacket
<1>1. ThreadInv => OneMorePacket
  BY DEF ThreadInv, StopSeen, OneMorePacket
<1> QED
  BY <1>1, ThreadInductive, PTL

(***************************************************************************)
(* The packets on their way.                                               *)
(***************************************************************************)

\* A closed handle has no queue, so that without an overlap there is one queue.
OpenQueues == ~exited => \A h \in Threads \ open : queue[h] = <<>>

OneQueue ==
  ~overlapped => \A g, h \in Threads : queue[g] # <<>> /\ queue[h] # <<>> => g = h

\* Packets leave in the order of their capture: what is sent is older than what a
\* thread is about to send, and that is older than what is queued.
AsCaptured(p) == p.id \in 1 .. Len(captured) /\ p = captured[p.id]

QueueInOrder ==
  \A h \in Threads :
    /\ \A j \in 1 .. Len(queue[h]) : AsCaptured(queue[h][j])
    /\ \A i, j \in 1 .. Len(queue[h]) : i < j => queue[h][i].id < queue[h][j].id

HandInOrder ==
  (\E t \in Threads : pc[t] = "forward") =>
    /\ AsCaptured(packet)
    /\ \A h \in Threads : \A j \in 1 .. Len(queue[h]) : packet.id < queue[h][j].id
    /\ \A k \in 1 .. Len(wire) : wire[k].id < packet.id

WireInOrder ==
  /\ \A k \in 1 .. Len(wire) :
        wire[k].id \in 1 .. Len(captured) /\ wire[k] = Outgoing(captured[wire[k].id])
  /\ \A k, l \in 1 .. Len(wire) : k < l => wire[k].id < wire[l].id
  /\ \A k \in 1 .. Len(wire) : \A h \in Threads : \A j \in 1 .. Len(queue[h]) :
        wire[k].id < queue[h][j].id

InOrder == ~overlapped => QueueInOrder /\ HandInOrder /\ WireInOrder

\* A queue that is empty has no elements, and its length is a number.
LEMMA QueueLengths ==
  ASSUME Packets, NEW h \in Threads
  PROVE  /\ queue[h] \in Seq(Packet) /\ Len(queue[h]) \in Nat
         /\ queue[h] = <<>> <=> Len(queue[h]) = 0
<1>1. queue[h] \in Seq(Packet)
  BY DEF Packets
<1> QED
  BY <1>1, LenProperties, EmptySeq

\* Steps that leave the packets where they are keep their order.
LEMMA OrderFrame ==
  ASSUME InOrder, UNCHANGED <<queue, wire, captured, packet>>, overlapped' = FALSE => ~overlapped,
         \A t \in Threads : pc'[t] = "forward" => pc[t] = "forward"
  PROVE  InOrder'
<1> SUFFICES ASSUME InOrder, ~overlapped' PROVE QueueInOrder' /\ HandInOrder' /\ WireInOrder'
  BY DEF InOrder
<1>1. QueueInOrder /\ HandInOrder /\ WireInOrder
  BY DEF InOrder
<1>2. QueueInOrder'
  BY <1>1 DEF QueueInOrder, AsCaptured
<1>3. HandInOrder'
  <2>1. (\E t \in Threads : pc'[t] = "forward") => \E t \in Threads : pc[t] = "forward"
    OBVIOUS
  <2> QED
    BY <1>1, <2>1 DEF HandInOrder, AsCaptured
<1>4. WireInOrder'
  BY <1>1 DEF WireInOrder
<1> QED
  BY <1>2, <1>3, <1>4

LEMMA NextOpenQueues == Control /\ Packets /\ OpenQueues /\ [Next]_vars => OpenQueues'
<1> SUFFICES ASSUME Control, Packets, OpenQueues, [Next]_vars, ~exited' PROVE OpenQueues'
  BY DEF OpenQueues
<1> USE DEF OpenQueues
<1>1. CASE StartThread \/ CreateThread \/ CreateThreadFails \/ StopThread
  BY <1>1 DEF StartThread, CreateThread, CreateThreadFails, StopThread, device
<1>2. ASSUME NEW t \in Threads, DivertOpen(t) PROVE OpenQueues'
  BY <1>2 DEF DivertOpen, object
<1>3. ASSUME NEW t \in Threads, DivertOpenFails(t) PROVE OpenQueues'
  BY <1>3 DEF DivertOpenFails
<1>4. ASSUME NEW t \in Threads, CheckStopbit(t) \/ DivertRecvFails(t) \/ Forward(t)
      PROVE  OpenQueues'
  BY <1>4 DEF CheckStopbit, DivertRecvFails, Forward, Unparsable, DivertSend, DivertSendFails,
              object, device
<1>5. ASSUME NEW t \in Threads, DivertRecv(t) PROVE OpenQueues'
  BY <1>5 DEF DivertRecv, object, Packets
<1>6. ASSUME NEW t \in Threads, DivertClose(t) PROVE OpenQueues'
  BY <1>6 DEF DivertClose, object, Packets, Control
<1>7. ASSUME NEW h \in Threads, NEW kind \in Kinds, Capture(h, kind) PROVE OpenQueues'
  BY <1>7 DEF Capture, object, Packets
<1>8. CASE UNCHANGED vars
  BY <1>8 DEF vars, object, device
<1> QED
  BY <1>1, <1>2, <1>3, <1>4, <1>5, <1>6, <1>7, <1>8 DEF Next, Thread

\* After an exit nothing moves.
LEMMA NextOneQueue ==
  ThreadInv /\ Packets /\ OpenQueues /\ OneQueue /\ [Next]_vars => OneQueue'
<1> SUFFICES ASSUME ThreadInv, Packets, OpenQueues, OneQueue, [Next]_vars PROVE OneQueue'
  OBVIOUS
<1>1. CASE ~exited'
  <2>1. ThreadInv' /\ OpenQueues'
    BY NextControl, NextAlone, NextHandle, NextStop, NextOpenQueues DEF ThreadInv
  <2> QED
    BY <1>1, <2>1 DEF ThreadInv, HandleHasItsThread, OpenQueues, OneQueue
<1>2. CASE exited'
  <2>1. CASE \E t \in Threads : DivertOpenFails(t)
    BY <2>1 DEF DivertOpenFails, history, OneQueue
  <2>2. CASE UNCHANGED vars
    BY <2>2 DEF vars, device, history, OneQueue
  <2>3. CASE ~(\E t \in Threads : DivertOpenFails(t)) /\ Next
    <3>1. ~exited /\ exited' = exited
      BY <2>3 DEF Next, StartThread, CreateThread, CreateThreadFails, StopThread, Thread,
                  DivertOpen, CheckStopbit,
                  DivertRecv, DivertRecvFails, Forward, Unparsable, DivertSend, DivertSendFails,
                  DivertClose, Capture, At, object
    <3> QED
      BY <1>2, <3>1
  <2> QED
    BY <2>1, <2>2, <2>3
<1> QED
  BY <1>1, <1>2

\* The head of a queue goes into the global buffer.
LEMMA RecvOrder ==
  ASSUME ThreadInv, Packets, OneQueue, InOrder, NEW t \in Threads, DivertRecv(t)
  PROVE  InOrder'
<1> SUFFICES ASSUME ~overlapped PROVE QueueInOrder' /\ HandInOrder' /\ WireInOrder'
  BY DEF InOrder, DivertRecv
<1>1. PICK h \in Threads : /\ queue[h] # <<>> /\ packet' = Head(queue[h])
                           /\ queue' = [queue EXCEPT ![h] = Tail(@)]
  BY DEF DivertRecv, ThreadInv, Control
<1>2. captured' = captured /\ wire' = wire
  BY DEF DivertRecv
<1> DEFINE q == queue[h]
<1>3. q \in Seq(Packet) /\ Len(q) \in Nat /\ Len(q) > 0 /\ Head(q) = q[1]
  BY <1>1, QueueLengths
<1>4. Len(Tail(q)) = Len(q) - 1 /\ \A j \in 1 .. Len(Tail(q)) : Tail(q)[j] = q[j + 1]
  BY <1>1, <1>3, HeadTailProperties
<1>5. queue'[h] = Tail(q) /\ \A g \in Threads : g # h => queue'[g] = <<>>
  BY <1>1 DEF Packets, OneQueue
<1>6. \A g \in Threads : \A j \in 1 .. Len(queue'[g]) :
        g = h /\ j + 1 \in 1 .. Len(q) /\ queue'[g][j] = q[j + 1]
  <2> SUFFICES ASSUME NEW g \in Threads, NEW j \in 1 .. Len(queue'[g])
               PROVE  g = h /\ j + 1 \in 1 .. Len(q) /\ queue'[g][j] = q[j + 1]
    OBVIOUS
  <2>1. g = h
    BY <1>5, EmptySeq
  <2> QED
    BY <2>1, <1>3, <1>4, <1>5
<1>7. QueueInOrder'
  <2>1. ASSUME NEW g \in Threads, NEW j \in 1 .. Len(queue'[g])
        PROVE  AsCaptured(queue[g][j])'
    <3>1. queue'[g][j] = q[j + 1] /\ j + 1 \in 1 .. Len(q)
      BY <1>6
    <3>2. AsCaptured(q[j + 1])
      BY <3>1 DEF InOrder, QueueInOrder
    <3> QED
      BY <1>2, <3>1, <3>2 DEF AsCaptured
  <2>2. ASSUME NEW g \in Threads, NEW i \in 1 .. Len(queue'[g]), NEW j \in 1 .. Len(queue'[g]),
               i < j
        PROVE  queue'[g][i].id < queue'[g][j].id
    <3>1. /\ i + 1 \in 1 .. Len(q) /\ queue'[g][i] = q[i + 1]
          /\ j + 1 \in 1 .. Len(q) /\ queue'[g][j] = q[j + 1]
      BY <1>6
    <3>2. i + 1 < j + 1
      BY <2>2, <1>3, <3>1
    <3> QED
      BY <3>1, <3>2 DEF InOrder, QueueInOrder
  <2> QED
    BY <2>1, <2>2 DEF QueueInOrder
<1>8. HandInOrder'
  <2>1. packet' = q[1] /\ 1 \in 1 .. Len(q)
    BY <1>1, <1>3
  <2>2. AsCaptured(packet)'
    BY <2>1, <1>2 DEF InOrder, QueueInOrder, AsCaptured
  <2>3. \A g \in Threads : \A j \in 1 .. Len(queue'[g]) : packet'.id < queue'[g][j].id
    BY <2>1, <1>3, <1>6 DEF InOrder, QueueInOrder
  <2>4. \A k \in 1 .. Len(wire') : wire'[k].id < packet'.id
    BY <2>1, <1>2 DEF InOrder, WireInOrder
  <2> QED
    BY <2>2, <2>3, <2>4 DEF HandInOrder
<1>9. WireInOrder'
  <2>1. ASSUME NEW k \in 1 .. Len(wire), NEW g \in Threads, NEW j \in 1 .. Len(queue'[g])
        PROVE  wire[k].id < queue'[g][j].id
    <3>1. queue'[g][j] = q[j + 1] /\ j + 1 \in 1 .. Len(q)
      BY <1>6
    <3> QED
      BY <3>1 DEF InOrder, WireInOrder
  <2>2. WireInOrder
    BY DEF InOrder
  <2> QED
    BY <1>2, <2>1, <2>2 DEF WireInOrder
<1> QED
  BY <1>7, <1>8, <1>9

\* What is in hand goes to the end of the wire.
LEMMA SendOrder ==
  ASSUME ThreadInv, Packets, InOrder, NEW t \in Threads, DivertSend(t)
  PROVE  InOrder'
<1> SUFFICES ASSUME ~overlapped PROVE QueueInOrder' /\ HandInOrder' /\ WireInOrder'
  BY DEF InOrder, DivertSend, history
<1>1. /\ wire' = Append(wire, Outgoing(packet))
      /\ captured' = captured /\ queue' = queue /\ packet' = packet
  BY DEF DivertSend, history, globals
<1>2. pc[t] = "forward" /\ packet \in Packet
  BY DEF DivertSend, At, Packets
<1>3. Outgoing(packet) \in Sent /\ Outgoing(packet).id = packet.id
  BY <1>2, OutgoingType DEF Outgoing
<1>4. /\ Len(wire) \in Nat /\ Len(wire') = Len(wire) + 1
      /\ \A k \in 1 .. Len(wire) : wire'[k] = wire[k]
      /\ wire'[Len(wire) + 1] = Outgoing(packet)
  BY <1>1, <1>3, AppendProperties, LenProperties DEF Packets
<1>5. \A s \in Threads : pc'[s] # "forward"
  <2>1. \A s \in Threads : s # t => pc[s] # "forward"
    BY <1>2 DEF ThreadInv, NewestAlone, Alive
  <2> QED
    BY <2>1, GotoMoves, LocationNames DEF DivertSend, ThreadInv
<1>6. /\ AsCaptured(packet)
      /\ \A h \in Threads : \A j \in 1 .. Len(queue[h]) : packet.id < queue[h][j].id
      /\ \A k \in 1 .. Len(wire) : wire[k].id < packet.id
  BY <1>2 DEF InOrder, HandInOrder
<1>7. QueueInOrder' /\ HandInOrder'
  BY <1>1, <1>5 DEF InOrder, QueueInOrder, AsCaptured, HandInOrder
<1>8. WireInOrder'
  <2>1. \A k \in 1 .. Len(wire') : k \in 1 .. Len(wire) \/ k = Len(wire) + 1
    BY <1>4
  <2>2. \A k \in 1 .. Len(wire') :
          wire'[k].id \in 1 .. Len(captured') /\ wire'[k] = Outgoing(captured'[wire'[k].id])
    BY <1>1, <1>3, <1>4, <1>6, <2>1 DEF InOrder, WireInOrder, AsCaptured
  <2>3. \A k, l \in 1 .. Len(wire') : k < l => wire'[k].id < wire'[l].id
    BY <1>3, <1>4, <1>6, <2>1 DEF InOrder, WireInOrder
  <2>4. \A k \in 1 .. Len(wire') : \A h \in Threads : \A j \in 1 .. Len(queue'[h]) :
          wire'[k].id < queue'[h][j].id
    BY <1>1, <1>3, <1>4, <1>6, <2>1 DEF InOrder, WireInOrder
  <2> QED
    BY <2>2, <2>3, <2>4 DEF WireInOrder
<1> QED
  BY <1>7, <1>8

\* A new packet is younger than all others and goes to the end of a queue.
LEMMA CaptureOrder ==
  ASSUME ThreadInv, Packets, InOrder, NEW h \in Threads, NEW kind \in Kinds, Capture(h, kind)
  PROVE  InOrder'
<1> SUFFICES ASSUME ~overlapped PROVE QueueInOrder' /\ HandInOrder' /\ WireInOrder'
  BY DEF InOrder, Capture
<1> DEFINE n == Len(captured)
           p == [id |-> n + 1, kind |-> kind]
<1>1. n \in Nat
  BY LenProperties DEF Packets
<1>2. p \in Packet
  BY <1>1, ConstantsAssumption DEF Capture, Packet, ConstantsAssumption
<1>3. /\ Len(captured') = n + 1 /\ captured'[n + 1] = p
      /\ \A i \in 1 .. n : captured'[i] = captured[i]
  BY <1>2, AppendProperties DEF Capture, Packets
<1>4. wire' = wire /\ packet' = packet /\ pc' = pc
  BY DEF Capture, globals, threads
<1>5. ASSUME NEW x, AsCaptured(x) PROVE x.id \in 1 .. Len(captured') /\ x = captured'[x.id]
                                        /\ x.id < n + 1
  BY <1>1, <1>3, <1>5 DEF AsCaptured
<1>6. \A g \in Threads : \A j \in 1 .. Len(queue'[g]) :
        \/ j \in 1 .. Len(queue[g]) /\ queue'[g][j] = queue[g][j]
        \/ j = Len(queue[g]) + 1 /\ queue'[g][j] = p
  <2>1. CASE queue' = [queue EXCEPT ![h] = Append(@, p)]
    <3>1. ASSUME NEW g \in Threads
          PROVE  /\ queue[g] \in Seq(Packet) /\ Len(queue[g]) \in Nat
                 /\ queue'[g] = IF g = h THEN Append(queue[g], p) ELSE queue[g]
      BY <2>1, QueueLengths DEF Packets
    <3>2. ASSUME NEW g \in Threads
          PROVE  /\ Len(Append(queue[g], p)) = Len(queue[g]) + 1
                 /\ \A i \in 1 .. Len(queue[g]) : Append(queue[g], p)[i] = queue[g][i]
                 /\ Append(queue[g], p)[Len(queue[g]) + 1] = p
      BY <1>2, <3>1, AppendProperties
    <3>3. ASSUME NEW g \in Threads, NEW j \in 1 .. Len(queue'[g])
          PROVE  \/ j \in 1 .. Len(queue[g]) /\ queue'[g][j] = queue[g][j]
                 \/ j = Len(queue[g]) + 1 /\ queue'[g][j] = p
      <4>1. CASE g = h
        <5>1. queue'[g] = Append(queue[g], p)
          BY <3>1, <4>1
        <5>2. j \in 1 .. Len(queue[g]) \/ j = Len(queue[g]) + 1
          BY <3>1, <3>2, <5>1
        <5> QED
          BY <3>2, <5>1, <5>2
      <4>2. CASE g # h
        BY <3>1, <4>2
      <4> QED
        BY <4>1, <4>2
    <3> QED
      BY <3>3
  <2>2. CASE queue' = queue
    BY <2>2
  <2> QED
    BY <2>1, <2>2 DEF Capture
<1>7. \A g \in Threads : Len(queue[g]) \in Nat
  BY QueueLengths
<1>8. QueueInOrder'
  <2>1. ASSUME NEW g \in Threads, NEW j \in 1 .. Len(queue'[g])
        PROVE  AsCaptured(queue[g][j])'
    <3>1. CASE j \in 1 .. Len(queue[g]) /\ queue'[g][j] = queue[g][j]
      BY <3>1, <1>5 DEF InOrder, QueueInOrder, AsCaptured
    <3>2. CASE queue'[g][j] = p
      BY <3>2, <1>1, <1>3 DEF AsCaptured
    <3> QED
      BY <2>1, <1>6, <3>1, <3>2
  <2>2. ASSUME NEW g \in Threads, NEW i \in 1 .. Len(queue'[g]), NEW j \in 1 .. Len(queue'[g]),
               i < j
        PROVE  queue'[g][i].id < queue'[g][j].id
    <3>1. i \in 1 .. Len(queue[g]) /\ queue'[g][i] = queue[g][i]
      BY <2>2, <1>6, <1>7
    <3>2. CASE j \in 1 .. Len(queue[g]) /\ queue'[g][j] = queue[g][j]
      BY <2>2, <3>1, <3>2 DEF InOrder, QueueInOrder
    <3>3. CASE queue'[g][j] = p
      BY <3>1, <3>3, <1>5 DEF InOrder, QueueInOrder
    <3> QED
      BY <1>6, <3>2, <3>3
  <2> QED
    BY <2>1, <2>2 DEF QueueInOrder
<1>9. HandInOrder'
  <2> SUFFICES ASSUME \E t \in Threads : pc[t] = "forward"
               PROVE  /\ AsCaptured(packet)'
                      /\ \A g \in Threads : \A j \in 1 .. Len(queue'[g]) :
                           packet.id < queue'[g][j].id
                      /\ \A k \in 1 .. Len(wire) : wire[k].id < packet.id
    BY <1>4 DEF HandInOrder
  <2>1. AsCaptured(packet)' /\ packet.id < n + 1
    BY <1>4, <1>5 DEF InOrder, HandInOrder, AsCaptured
  <2> QED
    BY <2>1, <1>6 DEF InOrder, HandInOrder
<1>10. WireInOrder'
  <2>1. \A k \in 1 .. Len(wire) :
          /\ wire[k].id \in 1 .. Len(captured') /\ wire[k] = Outgoing(captured'[wire[k].id])
          /\ wire[k].id < n + 1
    BY <1>1, <1>3 DEF InOrder, WireInOrder
  <2>2. ASSUME NEW k \in 1 .. Len(wire), NEW g \in Threads, NEW j \in 1 .. Len(queue'[g])
        PROVE  wire[k].id < queue'[g][j].id
    <3>1. CASE j \in 1 .. Len(queue[g]) /\ queue'[g][j] = queue[g][j]
      BY <3>1 DEF InOrder, WireInOrder
    <3>2. CASE queue'[g][j] = p
      BY <2>1, <3>2
    <3> QED
      BY <1>6, <3>1, <3>2
  <2>3. WireInOrder
    BY DEF InOrder
  <2> QED
    BY <2>1, <2>2, <2>3, <1>4 DEF WireInOrder
<1> QED
  BY <1>8, <1>9, <1>10

\* The order of the packets, action by action.
LEMMA NextOrder ==
  ThreadInv /\ Packets /\ OneQueue /\ InOrder /\ [Next]_vars => InOrder'
<1> SUFFICES ASSUME ThreadInv, Packets, OneQueue, InOrder, [Next]_vars PROVE InOrder'
  OBVIOUS
<1>1. Control
  BY DEF ThreadInv
<1>2. CASE StartThread
  BY <1>2, OrderFrame DEF StartThread, globals, threads, device
<1>3. CASE CreateThread
  <2>1. started + 1 \in Threads
    BY <1>1, <1>3, RoomToStart DEF CreateThread
  <2>2. \A t \in Threads : pc'[t] = "forward" => pc[t] = "forward"
    BY <1>1, <1>3, <2>1 DEF CreateThread, Control
  <2> QED
    BY <1>3, <2>2, OrderFrame DEF CreateThread, globals, device, history
<1>4. CASE StopThread
  BY <1>4, OrderFrame DEF StopThread, globals, threads, device, history
<1>5. ASSUME NEW t \in Threads, Thread(t) PROVE InOrder'
  <2>1. CASE DivertRecv(t)
    BY <2>1, RecvOrder
  <2>2. CASE DivertSend(t)
    BY <2>2, SendOrder
  <2>3. CASE ~DivertRecv(t) /\ ~DivertSend(t)
    <3>1. CASE DivertOpenFails(t)
      BY <3>1, OrderFrame DEF DivertOpenFails, threads, history
    <3>2. CASE ~DivertOpenFails(t)
      <4>1. \A s \in Threads : pc'[s] = "forward" => pc[s] = "forward"
        BY <1>1, <1>5, <2>3, <3>2, GotoMoves, LocationNames
           DEF Thread, DivertOpen, CheckStopbit, DivertRecvFails, Forward, Unparsable,
               DivertSendFails, DivertClose
      <4>2. UNCHANGED <<wire, captured, packet, overlapped>>
        BY <1>5, <2>3, <3>2
           DEF Thread, DivertOpen, CheckStopbit, DivertRecvFails, Forward, Unparsable,
               DivertSendFails, DivertClose, globals, device, history
      <4>3. CASE queue' = queue
        BY <4>1, <4>2, <4>3, OrderFrame
      <4>4. CASE queue' # queue
        <5>1. handle \in open /\ queue' = [queue EXCEPT ![handle] = <<>>]
          BY <1>5, <2>3, <3>2, <4>4
             DEF Thread, DivertOpen, CheckStopbit, DivertRecvFails, Forward, Unparsable,
                 DivertSendFails, DivertClose, device
        <5>2. \A h \in Threads : \A j \in 1 .. Len(queue'[h]) :
                j \in 1 .. Len(queue[h]) /\ queue'[h][j] = queue[h][j]
          BY <5>1, EmptySeq DEF Packets
        <5> SUFFICES ASSUME ~overlapped PROVE QueueInOrder' /\ HandInOrder' /\ WireInOrder'
          BY <4>2 DEF InOrder
        <5>3. QueueInOrder /\ HandInOrder /\ WireInOrder
          BY DEF InOrder
        <5>4. QueueInOrder'
          <6>1. ASSUME NEW h \in Threads, NEW j \in 1 .. Len(queue'[h])
                PROVE  AsCaptured(queue[h][j])'
            BY <4>2, <5>2, <5>3 DEF QueueInOrder, AsCaptured
          <6>2. ASSUME NEW h \in Threads, NEW i \in 1 .. Len(queue'[h]),
                       NEW j \in 1 .. Len(queue'[h]), i < j
                PROVE  queue'[h][i].id < queue'[h][j].id
            BY <5>2, <5>3, <6>2 DEF QueueInOrder
          <6> QED
            BY <6>1, <6>2 DEF QueueInOrder
        <5>5. HandInOrder'
          BY <4>1, <4>2, <5>2, <5>3 DEF HandInOrder, AsCaptured
        <5>6. WireInOrder'
          BY <4>2, <5>2, <5>3 DEF WireInOrder
        <5> QED
          BY <5>4, <5>5, <5>6
      <4> QED
        BY <4>3, <4>4
    <3> QED
      BY <3>1, <3>2
  <2> QED
    BY <2>1, <2>2, <2>3
<1>6. ASSUME NEW h \in Threads, NEW kind \in Kinds, Capture(h, kind) PROVE InOrder'
  BY <1>6, CaptureOrder
<1>7. CASE UNCHANGED vars
  BY <1>7, OrderFrame DEF vars, globals, threads, device, history
<1>8. CASE CreateThreadFails
  BY <1>8, OrderFrame DEF CreateThreadFails, globals, threads, device, history
<1> QED
  BY <1>2, <1>3, <1>4, <1>5, <1>6, <1>7, <1>8 DEF Next

OrderInv == OpenQueues /\ OneQueue /\ InOrder

LEMMA OrderInductive == Spec => [](ThreadInv /\ Packets /\ OrderInv)
<1>1. Init => OrderInv
  <2> SUFFICES ASSUME Init PROVE OrderInv
    OBVIOUS
  <2>1. wire = <<>> /\ (\A t \in Threads : pc[t] = "none")
    BY DEF Init
  <2>2. \A h \in Threads : queue[h] = <<>>
    BY DEF Init
  <2>3. OpenQueues /\ OneQueue
    BY <2>2 DEF OpenQueues, OneQueue
  <2>4. InOrder
    BY <2>1, <2>2, EmptySeq DEF InOrder, QueueInOrder, HandInOrder, WireInOrder
  <2> QED
    BY <2>3, <2>4 DEF OrderInv
<1>2. ThreadInv /\ Packets /\ OrderInv /\ [Next]_vars => OrderInv'
  BY NextOpenQueues, NextOneQueue, NextOrder DEF OrderInv, ThreadInv
<1> QED
  BY <1>1, <1>2, ThreadInductive, PTL DEF Spec

\* Unless starts overlap packets leave in the order of their capture, each with its
\* own header and mark.
THEOREM OrderCorrect == Spec => []PacketsInOrder
<1>1. OrderInv => PacketsInOrder
  BY DEF OrderInv, InOrder, WireInOrder, PacketsInOrder
<1> QED
  BY <1>1, OrderInductive, PTL

(***************************************************************************)
(* Where each packet is.                                                   *)
(***************************************************************************)
InQueue(i) == \E h \in Threads : i \in Ids(queue[h])
InHand(i) == \E t \in Threads : pc[t] = "forward" /\ packet.id = i
OnWire(i) == \E k \in 1 .. Len(wire) : wire[k].id = i
Dropped == unparsed \cup failed \cup discarded

\* No packet vanishes, and what was dropped is nowhere else.
Accounted ==
  ~overlapped =>
    /\ \A i \in 1 .. Len(captured) : InQueue(i) \/ InHand(i) \/ OnWire(i) \/ i \in Dropped
    /\ \A i \in Dropped :
          i \in 1 .. Len(captured) /\ ~InQueue(i) /\ ~InHand(i) /\ ~OnWire(i)
    /\ unparsed \cap failed = {} /\ unparsed \cap discarded = {} /\ failed \cap discarded = {}

\* The ids of a queue when it grows and shrinks.
LEMMA IdsOfAppend ==
  ASSUME NEW q \in Seq(Packet), NEW p \in Packet
  PROVE  Ids(Append(q, p)) = Ids(q) \cup {p.id}
<1>1. /\ Len(q) \in Nat /\ Len(Append(q, p)) = Len(q) + 1
      /\ \A i \in 1 .. Len(q) : Append(q, p)[i] = q[i]
      /\ Append(q, p)[Len(q) + 1] = p
  BY AppendProperties, LenProperties
<1>2. \A i \in 1 .. Len(q) + 1 : i \in 1 .. Len(q) \/ i = Len(q) + 1
  BY <1>1
<1>3. ASSUME NEW x \in Ids(Append(q, p)) PROVE x \in Ids(q) \cup {p.id}
  <2>1. PICK i \in 1 .. Len(q) + 1 : x = Append(q, p)[i].id
    BY <1>1 DEF Ids
  <2> QED
    BY <1>1, <1>2, <2>1 DEF Ids
<1>4. ASSUME NEW x \in Ids(q) PROVE x \in Ids(Append(q, p))
  <2>1. PICK i \in 1 .. Len(q) : x = q[i].id
    BY DEF Ids
  <2>2. i \in 1 .. Len(Append(q, p)) /\ Append(q, p)[i] = q[i]
    BY <1>1, <2>1
  <2> QED
    BY <2>1, <2>2 DEF Ids
<1>5. p.id \in Ids(Append(q, p))
  <2>1. Len(q) + 1 \in 1 .. Len(Append(q, p))
    BY <1>1
  <2> QED
    BY <1>1, <2>1 DEF Ids
<1> QED
  BY <1>3, <1>4, <1>5

LEMMA IdsOfTail ==
  ASSUME NEW q \in Seq(Packet), q # <<>>
  PROVE  Ids(q) = Ids(Tail(q)) \cup {Head(q).id}
<1>1. /\ Len(q) \in Nat /\ Len(q) > 0 /\ Head(q) = q[1] /\ Len(Tail(q)) = Len(q) - 1
      /\ \A i \in 1 .. Len(Tail(q)) : Tail(q)[i] = q[i + 1]
  BY HeadTailProperties, LenProperties, EmptySeq
<1>2. ASSUME NEW i \in 1 .. Len(q) PROVE q[i].id \in Ids(Tail(q)) \cup {Head(q).id}
  <2>1. CASE i = 1
    BY <1>1, <2>1
  <2>2. CASE i # 1
    <3>1. i - 1 \in 1 .. Len(Tail(q)) /\ Tail(q)[i - 1] = q[(i - 1) + 1] /\ (i - 1) + 1 = i
      BY <1>1, <2>2
    <3> QED
      BY <3>1 DEF Ids
  <2> QED
    BY <2>1, <2>2
<1>3. ASSUME NEW i \in 1 .. Len(Tail(q)) PROVE Tail(q)[i].id \in Ids(q)
  <2>1. i + 1 \in 1 .. Len(q) /\ Tail(q)[i] = q[i + 1]
    BY <1>1
  <2> QED
    BY <2>1 DEF Ids
<1>4. Head(q).id \in Ids(q)
  <2>1. 1 \in 1 .. Len(q)
    BY <1>1
  <2> QED
    BY <1>1, <2>1 DEF Ids
<1>5. Ids(q) \subseteq Ids(Tail(q)) \cup {Head(q).id}
  BY <1>2 DEF Ids
<1>6. Ids(Tail(q)) \subseteq Ids(q)
  BY <1>3 DEF Ids
<1> QED
  BY <1>4, <1>5, <1>6

LEMMA IdsOfEmpty == Ids(<<>>) = {}
BY DEF Ids

\* Steps that leave the packets where they are keep the account.
LEMMA AccountFrame ==
  ASSUME Accounted, UNCHANGED <<queue, wire, captured, packet, unparsed, failed, discarded>>,
         overlapped' = FALSE => ~overlapped,
         \A t \in Threads : pc'[t] = "forward" <=> pc[t] = "forward"
  PROVE  Accounted'
BY DEF Accounted, InQueue, InHand, OnWire, Dropped

\* Without an overlap a packet is in one place only: the ids of what is queued, in hand
\* and on the wire follow each other.
LEMMA Apart ==
  ASSUME Packets, InOrder, ~overlapped, NEW i
  PROVE  /\ InHand(i) => ~InQueue(i) /\ ~OnWire(i)
         /\ InQueue(i) => ~OnWire(i)
         /\ InQueue(i) \/ InHand(i) \/ OnWire(i) => i \in 1 .. Len(captured)
<1>1. QueueInOrder /\ HandInOrder /\ WireInOrder
  BY DEF InOrder
<1>2. ASSUME InQueue(i)
      PROVE  \E h \in Threads : \E j \in 1 .. Len(queue[h]) :
               i = queue[h][j].id /\ i \in 1 .. Len(captured)
  BY <1>1, <1>2 DEF InQueue, Ids, QueueInOrder, AsCaptured
<1>3. ASSUME InHand(i)
      PROVE  i = packet.id /\ i \in 1 .. Len(captured)
  BY <1>1, <1>3 DEF InHand, HandInOrder, AsCaptured
<1>4. ASSUME OnWire(i)
      PROVE  \E k \in 1 .. Len(wire) : i = wire[k].id /\ i \in 1 .. Len(captured)
  BY <1>1, <1>4 DEF OnWire, WireInOrder
<1>5. Len(captured) \in Nat
  BY LenProperties DEF Packets
<1>6. ASSUME InHand(i), InQueue(i) PROVE FALSE
  BY <1>1, <1>2, <1>3, <1>5, <1>6 DEF HandInOrder, InHand
<1>7. ASSUME InHand(i), OnWire(i) PROVE FALSE
  BY <1>1, <1>3, <1>4, <1>5, <1>7 DEF HandInOrder, InHand
<1>8. ASSUME InQueue(i), OnWire(i) PROVE FALSE
  BY <1>1, <1>2, <1>4, <1>5, <1>8 DEF WireInOrder
<1> QED
  BY <1>2, <1>3, <1>4, <1>6, <1>7, <1>8

\* A received packet moves from its queue into the hand of a thread.
LEMMA RecvAccount ==
  ASSUME ThreadInv, Packets, OneQueue, InOrder, Accounted, NEW t \in Threads, DivertRecv(t)
  PROVE  Accounted'
<1> SUFFICES ASSUME ~overlapped PROVE Accounted'
  BY DEF Accounted, DivertRecv
<1>1. PICK h \in Threads : /\ queue[h] # <<>> /\ packet' = Head(queue[h])
                           /\ queue' = [queue EXCEPT ![h] = Tail(@)]
  BY DEF DivertRecv, ThreadInv, Control
<1>2. UNCHANGED <<wire, captured, unparsed, failed, discarded>>
  BY DEF DivertRecv
<1>3. Ids(queue[h]) = Ids(Tail(queue[h])) \cup {packet'.id}
  BY <1>1, QueueLengths, IdsOfTail
<1>4. queue'[h] = Tail(queue[h]) /\ \A g \in Threads : g # h => queue'[g] = queue[g]
  BY <1>1 DEF Packets
<1>5. pc[t] = "recv" /\ pc'[t] = "forward" /\ \A s \in Threads : s # t => pc'[s] = pc[s]
  BY GotoMoves, LocationNames DEF DivertRecv, At, ThreadInv
<1>6. \A s \in Threads : pc[s] # "forward"
  BY <1>5 DEF ThreadInv, NewestAlone, Alive
<1>7. \A i : InQueue(i)' => InQueue(i)
  BY <1>3, <1>4 DEF InQueue
<1>8. \A i : InHand(i)' => InQueue(i)
  BY <1>3, <1>5, <1>6 DEF InQueue, InHand
<1>9. \A i : InQueue(i) => InQueue(i)' \/ InHand(i)'
  BY <1>3, <1>4, <1>5 DEF InQueue, InHand
<1>10. \A i : ~InHand(i) /\ (OnWire(i)' <=> OnWire(i))
  BY <1>2, <1>6 DEF InHand, OnWire
<1> QED
  BY <1>2, <1>7, <1>8, <1>9, <1>10 DEF Accounted, Dropped

\* A packet in hand is sent, dropped or lost.
LEMMA ForwardAccount ==
  ASSUME ThreadInv, Packets, InOrder, Accounted, NEW t \in Threads, Forward(t)
  PROVE  Accounted'
<1>1. UNCHANGED <<queue, captured, discarded, overlapped, packet>>
  BY DEF Forward, Unparsable, DivertSend, DivertSendFails, globals, device, history
<1> SUFFICES ASSUME ~overlapped PROVE Accounted'
  BY <1>1 DEF Accounted
<1>2. pc[t] = "forward" /\ packet \in Packet
  BY DEF Forward, Unparsable, DivertSend, DivertSendFails, At, Packets
<1>3. pc'[t] = "check" /\ \A s \in Threads : s # t => pc'[s] = pc[s]
  BY GotoMoves, LocationNames
     DEF Forward, Unparsable, DivertSend, DivertSendFails, At, ThreadInv
<1>4. \A s \in Threads : pc'[s] # "forward"
  BY <1>2, <1>3 DEF ThreadInv, NewestAlone, Alive
<1>5. \A i : ~InHand(i)' /\ (InQueue(i)' <=> InQueue(i)) /\ (InHand(i) <=> i = packet.id)
  BY <1>1, <1>2, <1>4 DEF InHand, InQueue
<1>6. /\ packet.id \in 1 .. Len(captured) /\ ~InQueue(packet.id) /\ ~OnWire(packet.id)
      /\ packet.id \notin Dropped
  BY <1>5, Apart DEF Accounted
<1>7. CASE Unparsable(t)
  <2>1. unparsed' = unparsed \cup {packet.id} /\ failed' = failed /\ wire' = wire
    BY <1>7 DEF Unparsable, device
  <2>2. \A i : OnWire(i)' <=> OnWire(i)
    BY <2>1 DEF OnWire
  <2> QED
    BY <1>1, <1>5, <1>6, <2>1, <2>2 DEF Accounted, Dropped
<1>8. CASE DivertSendFails(t)
  <2>1. failed' = failed \cup {packet.id} /\ unparsed' = unparsed /\ wire' = wire
    BY <1>8 DEF DivertSendFails, device
  <2>2. \A i : OnWire(i)' <=> OnWire(i)
    BY <2>1 DEF OnWire
  <2> QED
    BY <1>1, <1>5, <1>6, <2>1, <2>2 DEF Accounted, Dropped
<1>9. CASE DivertSend(t)
  <2>1. /\ wire' = Append(wire, Outgoing(packet))
        /\ failed' = failed /\ unparsed' = unparsed
    BY <1>9 DEF DivertSend, history
  <2>2. Outgoing(packet) \in Sent /\ Outgoing(packet).id = packet.id
    BY <1>2, OutgoingType DEF Outgoing
  <2>3. /\ Len(wire) \in Nat /\ Len(wire') = Len(wire) + 1
        /\ \A k \in 1 .. Len(wire) : wire'[k] = wire[k]
        /\ wire'[Len(wire) + 1] = Outgoing(packet)
    BY <2>1, <2>2, AppendProperties, LenProperties DEF Packets
  <2>4. \A i : OnWire(i)' <=> OnWire(i) \/ i = packet.id
    <3>1. ASSUME NEW i, OnWire(i)' PROVE OnWire(i) \/ i = packet.id
      <4>1. PICK k \in 1 .. Len(wire) + 1 : wire'[k].id = i
        BY <2>3, <3>1 DEF OnWire
      <4>2. k \in 1 .. Len(wire) \/ k = Len(wire) + 1
        BY <2>3
      <4> QED
        BY <2>2, <2>3, <4>1, <4>2 DEF OnWire
    <3>2. ASSUME NEW i, OnWire(i) PROVE OnWire(i)'
      <4>1. PICK k \in 1 .. Len(wire) : wire[k].id = i
        BY <3>2 DEF OnWire
      <4>2. k \in 1 .. Len(wire') /\ wire'[k].id = i
        BY <2>3, <4>1
      <4> QED
        BY <4>2 DEF OnWire
    <3>3. OnWire(packet.id)'
      <4>1. Len(wire) + 1 \in 1 .. Len(wire') /\ wire'[Len(wire) + 1].id = packet.id
        BY <2>2, <2>3
      <4>2. \E k \in 1 .. Len(wire') : wire'[k].id = packet'.id
        BY <1>1, <4>1
      <4> QED
        BY <4>2 DEF OnWire
    <3> QED
      BY <1>1, <3>1, <3>2, <3>3
  <2> QED
    BY <1>1, <1>5, <1>6, <2>1, <2>4 DEF Accounted, Dropped
<1> QED
  BY <1>7, <1>8, <1>9 DEF Forward

\* What was queued when the handle is closed is dropped.
LEMMA CloseAccount ==
  ASSUME ThreadInv, Packets, OneQueue, InOrder, Accounted, NEW t \in Threads, DivertClose(t)
  PROVE  Accounted'
<1>1. UNCHANGED <<wire, captured, unparsed, failed, overlapped, packet>>
  BY DEF DivertClose, globals
<1> SUFFICES ASSUME ~overlapped PROVE Accounted'
  BY <1>1 DEF Accounted
<1>2. \A s \in Threads : pc'[s] = "forward" <=> pc[s] = "forward"
  BY GotoMoves, LocationNames DEF DivertClose, At, ThreadInv
<1>3. CASE handle \notin open
  BY <1>1, <1>2, <1>3, AccountFrame DEF DivertClose
<1>4. CASE handle \in open
  <2>1. /\ handle \in Threads
        /\ queue' = [queue EXCEPT ![handle] = <<>>]
        /\ discarded' = discarded \cup Ids(queue[handle])
    BY <1>4 DEF DivertClose, ThreadInv, Control
  <2>2. queue'[handle] = <<>> /\ \A g \in Threads : g # handle => queue'[g] = queue[g]
    BY <2>1 DEF Packets
  <2>3. \A i : InQueue(i) => InQueue(i)' \/ i \in Ids(queue[handle])
    BY <2>2 DEF InQueue
  <2>4. \A i : InQueue(i)' => InQueue(i) /\ i \notin Ids(queue[handle])
    <3> SUFFICES ASSUME NEW i, InQueue(i)' PROVE InQueue(i) /\ i \notin Ids(queue[handle])
      OBVIOUS
    <3>1. PICK g \in Threads : g # handle /\ i \in Ids(queue[g])
      BY <2>2, IdsOfEmpty DEF InQueue
    <3>2. queue[g] # <<>>
      BY <3>1, IdsOfEmpty
    <3>3. queue[handle] = <<>>
      BY <2>1, <3>1, <3>2 DEF OneQueue
    <3> QED
      BY <3>1, <3>3, IdsOfEmpty DEF InQueue
  <2>5. \A i \in Ids(queue[handle]) :
          /\ i \in 1 .. Len(captured) /\ ~InHand(i) /\ ~OnWire(i) /\ i \notin Dropped
    <3> SUFFICES ASSUME NEW i \in Ids(queue[handle])
                 PROVE  /\ i \in 1 .. Len(captured) /\ ~InHand(i) /\ ~OnWire(i)
                        /\ i \notin Dropped
      OBVIOUS
    <3>1. InQueue(i)
      BY <2>1 DEF InQueue
    <3> QED
      BY <3>1, Apart DEF Accounted
  <2>6. \A i : (InHand(i)' <=> InHand(i)) /\ (OnWire(i)' <=> OnWire(i))
    BY <1>1, <1>2 DEF InHand, OnWire
  <2> QED
    BY <1>1, <2>1, <2>3, <2>4, <2>5, <2>6 DEF Accounted, Dropped
<1> QED
  BY <1>3, <1>4

\* A new packet is queued or, when the queue is full, dropped.
LEMMA CaptureAccount ==
  ASSUME ThreadInv, Packets, InOrder, Accounted, NEW h \in Threads, NEW kind \in Kinds,
         Capture(h, kind)
  PROVE  Accounted'
<1>1. UNCHANGED <<wire, unparsed, failed, overlapped, packet, pc>>
  BY DEF Capture, globals, threads
<1> SUFFICES ASSUME ~overlapped PROVE Accounted'
  BY <1>1 DEF Accounted
<1> DEFINE n == Len(captured)
           p == [id |-> n + 1, kind |-> kind]
<1>2. n \in Nat
  BY LenProperties DEF Packets
<1>3. p \in Packet
  BY <1>2, ConstantsAssumption DEF Capture, Packet, ConstantsAssumption
<1>4. Len(captured') = n + 1
  BY <1>3, AppendProperties DEF Capture, Packets
<1>5. \A i : (InHand(i)' <=> InHand(i)) /\ (OnWire(i)' <=> OnWire(i))
  BY <1>1 DEF InHand, OnWire
<1>6. ~InQueue(n + 1) /\ ~InHand(n + 1) /\ ~OnWire(n + 1) /\ n + 1 \notin Dropped
  BY <1>2, Apart DEF Accounted
<1>7. 1 .. n + 1 = 1 .. n \cup {n + 1}
  BY <1>2
<1>8. CASE queue' = [queue EXCEPT ![h] = Append(@, p)] /\ UNCHANGED discarded
  <2>1. queue'[h] = Append(queue[h], p) /\ \A g \in Threads : g # h => queue'[g] = queue[g]
    BY <1>8 DEF Packets
  <2>2. Ids(queue'[h]) = Ids(queue[h]) \cup {n + 1}
    BY <1>3, <2>1, QueueLengths, IdsOfAppend
  <2>3. \A i : InQueue(i)' <=> InQueue(i) \/ i = n + 1
    BY <2>1, <2>2 DEF InQueue
  <2> QED
    BY <1>1, <1>4, <1>5, <1>6, <1>7, <1>8, <2>3 DEF Accounted, Dropped
<1>9. CASE discarded' = discarded \cup {p.id} /\ UNCHANGED queue
  <2>1. \A i : InQueue(i)' <=> InQueue(i)
    BY <1>9 DEF InQueue
  <2> QED
    BY <1>1, <1>4, <1>5, <1>6, <1>7, <1>9, <2>1 DEF Accounted, Dropped
<1> QED
  BY <1>8, <1>9 DEF Capture

LEMMA NextAccount ==
  ThreadInv /\ Packets /\ OneQueue /\ InOrder /\ Accounted /\ [Next]_vars => Accounted'
<1> SUFFICES ASSUME ThreadInv, Packets, OneQueue, InOrder, Accounted, [Next]_vars
             PROVE  Accounted'
  OBVIOUS
<1>1. Control
  BY DEF ThreadInv
<1>2. CASE StartThread
  BY <1>2, AccountFrame DEF StartThread, globals, threads, device
<1>3. CASE CreateThread
  <2>1. started + 1 \in Threads /\ started + 1 > started
    BY <1>1, <1>3, RoomToStart DEF CreateThread
  <2>2. \A t \in Threads : pc'[t] = "forward" <=> pc[t] = "forward"
    BY <1>1, <1>3, <2>1 DEF CreateThread, Control
  <2> QED
    BY <1>3, <2>2, AccountFrame DEF CreateThread, globals, device, history
<1>4. CASE StopThread
  BY <1>4, AccountFrame DEF StopThread, globals, threads, device, history
<1>5. ASSUME NEW t \in Threads, Thread(t) PROVE Accounted'
  <2>1. CASE DivertRecv(t)
    BY <2>1, RecvAccount
  <2>2. CASE Forward(t)
    BY <2>2, ForwardAccount
  <2>3. CASE DivertClose(t)
    BY <2>3, CloseAccount
  <2>4. CASE DivertOpen(t)
    BY <1>1, <2>4, AccountFrame, GotoMoves, LocationNames DEF DivertOpen, At, history
  <2>5. CASE DivertOpenFails(t)
    BY <2>5, AccountFrame DEF DivertOpenFails, threads, history
  <2>6. CASE CheckStopbit(t)
    <3>1. \A s \in Threads : pc'[s] = "forward" <=> pc[s] = "forward"
      BY <1>1, <2>6, GotoMoves, LocationNames DEF CheckStopbit, At
    <3> QED
      BY <2>6, <3>1, AccountFrame DEF CheckStopbit, globals, device, history
  <2>7. CASE DivertRecvFails(t)
    <3>1. \A s \in Threads : pc'[s] = "forward" <=> pc[s] = "forward"
      BY <1>1, <2>7, GotoMoves, LocationNames DEF DivertRecvFails, At
    <3> QED
      BY <2>7, <3>1, AccountFrame DEF DivertRecvFails, globals, device
  <2> QED
    BY <1>5, <2>1, <2>2, <2>3, <2>4, <2>5, <2>6, <2>7 DEF Thread
<1>6. ASSUME NEW h \in Threads, NEW kind \in Kinds, Capture(h, kind) PROVE Accounted'
  BY <1>6, CaptureAccount
<1>7. CASE UNCHANGED vars
  BY <1>7, AccountFrame DEF vars, globals, threads, device, history
<1>8. CASE CreateThreadFails
  BY <1>8, AccountFrame DEF CreateThreadFails, globals, threads, device, history
<1> QED
  BY <1>2, <1>3, <1>4, <1>5, <1>6, <1>7, <1>8 DEF Next

\* A set without two elements.
LEMMA AtMostOne ==
  ASSUME NEW S, \A x, y \in S : x = y
  PROVE  Cardinality(S) = IF S = {} THEN 0 ELSE 1
<1>1. CASE S = {}
  BY <1>1, FS_EmptySet
<1>2. ASSUME S # {} PROVE Cardinality(S) = 1
  <2>1. PICK x : S = {x}
    BY <1>2
  <2> QED
    BY <2>1, FS_Singleton
<1> QED
  BY <1>1, <1>2

\* What holds when every packet is accounted for, in the terms of Places.
LEMMA OnePlace ==
  ThreadInv /\ Packets /\ OneQueue /\ InOrder /\ Accounted => PacketsForwardedOnce
<1> SUFFICES ASSUME ThreadInv, Packets, OneQueue, InOrder, Accounted, ~overlapped,
                    NEW i \in 1 .. Len(captured)
             PROVE  Places(i) = 1
  BY DEF PacketsForwardedOnce
<1> DEFINE Q == {h \in Threads : i \in Ids(queue[h])}
           H == {t \in Threads : pc[t] = "forward" /\ packet.id = i}
           W == {k \in 1 .. Len(wire) : wire[k].id = i}
           D == {s \in {1, 2, 3} : i \in <<unparsed, failed, discarded>>[s]}
<1>1. Cardinality(Q) = IF InQueue(i) THEN 1 ELSE 0
  <2>1. \A g, h \in Q : g = h
    BY IdsOfEmpty DEF OneQueue
  <2>2. InQueue(i) <=> Q # {}
    BY DEF InQueue
  <2> HIDE DEF Q
  <2> QED
    BY <2>1, <2>2, AtMostOne
<1>2. Cardinality(H) = IF InHand(i) THEN 1 ELSE 0
  <2>1. \A s, t \in H : s = t
    BY DEF ThreadInv, NewestAlone, Alive
  <2>2. InHand(i) <=> H # {}
    BY DEF InHand
  <2> HIDE DEF H
  <2> QED
    BY <2>1, <2>2, AtMostOne
<1>3. Cardinality(W) = IF OnWire(i) THEN 1 ELSE 0
  <2>1. \A k, l \in W : k = l
    <3>1. \A k, l \in 1 .. Len(wire) : k < l => wire[k].id < wire[l].id
      BY DEF InOrder, WireInOrder
    <3>2. \A k \in 1 .. Len(wire) : wire[k].id \in Nat
      BY DEF InOrder, WireInOrder
    <3>3. Len(wire) \in Nat
      BY LenProperties DEF Packets
    <3> SUFFICES ASSUME NEW k \in W, NEW l \in W, k # l PROVE FALSE
      OBVIOUS
    <3>4. k \in Nat /\ l \in Nat /\ (k < l \/ l < k)
      BY <3>3
    <3> QED
      BY <3>1, <3>2, <3>4
  <2>2. OnWire(i) <=> W # {}
    BY DEF OnWire
  <2> HIDE DEF W
  <2> QED
    BY <2>1, <2>2, AtMostOne
<1>4. Cardinality(D) = IF i \in Dropped THEN 1 ELSE 0
  <2>1. 1 \in D <=> i \in unparsed
    OBVIOUS
  <2>2. 2 \in D <=> i \in failed
    OBVIOUS
  <2>3. 3 \in D <=> i \in discarded
    OBVIOUS
  <2>4. \A s \in D : s = 1 \/ s = 2 \/ s = 3
    OBVIOUS
  <2> HIDE DEF D
  <2>5. \A r, s \in D : r = s
    BY <2>1, <2>2, <2>3, <2>4 DEF Accounted
  <2>6. i \in Dropped <=> D # {}
    BY <2>1, <2>2, <2>3, <2>4 DEF Dropped
  <2> QED
    BY <2>5, <2>6, AtMostOne
<1>5. Places(i) = Cardinality(Q) + Cardinality(H) + Cardinality(W) + Cardinality(D)
  BY DEF Places
<1> HIDE DEF Q, H, W, D
<1>6. /\ InQueue(i) \/ InHand(i) \/ OnWire(i) \/ i \in Dropped
      /\ i \in Dropped => ~InQueue(i) /\ ~InHand(i) /\ ~OnWire(i)
  BY DEF Accounted
<1>7. (InHand(i) => ~InQueue(i) /\ ~OnWire(i)) /\ (InQueue(i) => ~OnWire(i))
  BY Apart
<1> QED
  BY <1>1, <1>2, <1>3, <1>4, <1>5, <1>6, <1>7

\* Unless starts overlap every packet that was captured is in one place: queued, in
\* hand, sent on once, or dropped for one reason.
THEOREM ForwardedOnceCorrect == Spec => []PacketsForwardedOnce
<1>1. Init => Accounted
  <2> SUFFICES ASSUME Init PROVE Accounted
    OBVIOUS
  <2>1. Len(captured) = 0
    BY EmptySeq DEF Init
  <2> QED
    BY <2>1 DEF Init, Accounted, Dropped
<1>2. ThreadInv /\ Packets /\ OrderInv /\ Accounted /\ [Next]_vars => Accounted'
  BY NextAccount DEF OrderInv
<1>3. ThreadInv /\ Packets /\ OrderInv /\ Accounted => PacketsForwardedOnce
  BY OnePlace DEF OrderInv
<1> QED
  BY <1>1, <1>2, <1>3, OrderInductive, PTL DEF Spec

(***************************************************************************)
(* The filter implements the worker with a stop flag.                      *)
(***************************************************************************)
LEMMA WorkerAlive ==
  ASSUME NEW t \in Threads
  PROVE  Worker!Alive(t) <=> Alive(t)
BY DEF Worker!Alive, Alive, WorkerState

\* The state of a thread that does not move does not change.
LEMMA WorkerFrame ==
  pc' = pc => [t \in Threads |-> WorkerState(t)]' = [t \in Threads |-> WorkerState(t)]
BY DEF WorkerState

\* A thread's step moves the state of that thread only.
LEMMA WorkerMoves ==
  ASSUME NEW t \in Threads, \A s \in Threads : s # t => pc'[s] = pc[s]
  PROVE  [s \in Threads |-> WorkerState(s)]' =
           [[s \in Threads |-> WorkerState(s)] EXCEPT ![t] = WorkerState(t)']
<1>1. \A s \in Threads : s # t => WorkerState(s)' = WorkerState(s)
  BY DEF WorkerState
<1> QED
  BY <1>1

LEMMA InitWorker == Init => Worker!Init
<1> SUFFICES ASSUME Init PROVE Worker!Init
  OBVIOUS
<1>1. \A t \in Threads : WorkerState(t) = "none"
  BY DEF Init, WorkerState
<1>2. /\ Stopbit \in {0, 1} /\ started = 0 /\ overlapped = FALSE
      /\ starting = FALSE /\ unmanned = FALSE
  BY DEF Init
<1> QED
  BY <1>1, <1>2 DEF Worker!Init, Worker!Threads, Threads

\* Every step of the filter is a step of the worker, or none: most of a thread's turn
\* is out of the worker's sight.
LEMMA NextWorker == Control /\ [Next]_vars => [Worker!Next]_(Worker!vars)
<1> SUFFICES ASSUME Control, [Next]_vars PROVE Worker!Next \/ UNCHANGED Worker!vars
  OBVIOUS
<1> DEFINE State == [t \in Threads |-> WorkerState(t)]
<1>1. CASE StartThread
  <2>1. State' = State
    BY <1>1, WorkerFrame DEF StartThread, threads
  <2>2. (\E t \in Worker!Threads : Worker!Alive(t)) <=> \E t \in Threads : Alive(t)
    BY WorkerAlive DEF Worker!Threads, Threads
  <2>3. overlapped' = (overlapped \/ \E t \in Worker!Threads : Worker!Alive(t))
    BY <1>1, <2>2 DEF StartThread
  <2>4. Worker!Raise
    BY <1>1, <2>1, <2>3 DEF StartThread, threads, Control, Worker!Raise
  <2> QED
    BY <2>4 DEF Worker!Next
<1>2. CASE CreateThread
  <2>1. started + 1 \in Threads
    BY <1>2, RoomToStart DEF CreateThread
  <2>2. pc'[started + 1] = "created" /\ \A t \in Threads : t # started + 1 => pc'[t] = pc[t]
    BY <1>2, <2>1 DEF CreateThread, Control
  <2>3. \A t \in Threads :
          /\ t # started + 1 => WorkerState(t)' = WorkerState(t)
          /\ t = started + 1 => WorkerState(t)' = "running"
    BY <2>2 DEF WorkerState
  <2>4. State' = [State EXCEPT ![started + 1] = "running"]
    BY <2>1, <2>3
  <2>5. Worker!Spawn
    BY <1>2, <2>4 DEF CreateThread, history, Worker!Spawn
  <2> QED
    BY <2>5 DEF Worker!Next
<1>3. CASE StopThread
  <2>1. State' = State
    BY <1>3, WorkerFrame DEF StopThread, threads
  <2>2. Worker!Lower
    BY <1>3, <2>1 DEF StopThread, threads, history, Control, Worker!Lower
  <2> QED
    BY <2>2 DEF Worker!Next
<1>4. ASSUME NEW t \in Threads, Thread(t)
      PROVE  Worker!Next \/ UNCHANGED Worker!vars
  <2>1. UNCHANGED <<starting, unmanned, Stopbit, started, overlapped>>
    BY <1>4 DEF Thread, DivertOpen, DivertOpenFails, CheckStopbit, DivertRecv, DivertRecvFails,
                Forward, Unparsable, DivertSend, DivertSendFails, DivertClose, object, threads,
                history
  <2>2. /\ \A s \in Threads : s # t => pc'[s] = pc[s]
        /\ \/ WorkerState(t)' = WorkerState(t)
           \/ pc[t] = "check" /\ pc'[t] = "close" /\ Stopbit = 0
           \/ pc[t] = "close" /\ pc'[t] = "ended"
    <3>1. CASE DivertOpen(t)
      BY <3>1, GotoMoves, LocationNames DEF DivertOpen, At, WorkerState
    <3>2. CASE DivertOpenFails(t)
      BY <3>2 DEF DivertOpenFails, threads, WorkerState
    <3>3. CASE CheckStopbit(t)
      BY <3>3, GotoMoves, LocationNames DEF CheckStopbit, At, WorkerState
    <3>4. CASE DivertRecv(t)
      BY <3>4, GotoMoves, LocationNames DEF DivertRecv, At, WorkerState
    <3>5. CASE DivertRecvFails(t)
      BY <3>5, GotoMoves, LocationNames DEF DivertRecvFails, At, WorkerState
    <3>6. CASE Forward(t)
      BY <3>6, GotoMoves, LocationNames
         DEF Forward, Unparsable, DivertSend, DivertSendFails, At, WorkerState
    <3>7. CASE DivertClose(t)
      BY <3>7, GotoMoves, LocationNames DEF DivertClose, At
    <3> QED
      BY <1>4, <3>1, <3>2, <3>3, <3>4, <3>5, <3>6, <3>7 DEF Thread
  <2>3. State' = [State EXCEPT ![t] = WorkerState(t)']
    BY <2>2, WorkerMoves
  <2>4. t \in Worker!Threads
    BY DEF Worker!Threads, Threads
  <2>5. CASE WorkerState(t)' = WorkerState(t)
    <3>1. State' = State
      BY <2>3, <2>5
    <3> QED
      BY <2>1, <3>1 DEF Worker!vars
  <2>6. CASE pc[t] = "check" /\ pc'[t] = "close" /\ Stopbit = 0
    <3>1. WorkerState(t) = "running" /\ WorkerState(t)' = "leaving"
      BY <2>6 DEF WorkerState
    <3>2. Worker!Leave(t)
      BY <2>1, <2>3, <2>6, <3>1 DEF Worker!Leave
    <3> QED
      BY <2>4, <3>2 DEF Worker!Next
  <2>7. CASE pc[t] = "close" /\ pc'[t] = "ended"
    <3>1. WorkerState(t) = "leaving" /\ WorkerState(t)' = "ended"
      BY <2>7 DEF WorkerState
    <3>2. Worker!Finish(t)
      BY <2>1, <2>3, <3>1 DEF Worker!Finish
    <3> QED
      BY <2>4, <3>2 DEF Worker!Next
  <2> QED
    BY <2>2, <2>5, <2>6, <2>7
<1>5. ASSUME NEW h \in Threads, NEW kind \in Kinds, Capture(h, kind)
      PROVE  UNCHANGED Worker!vars
  <2>1. State' = State
    BY <1>5, WorkerFrame DEF Capture, threads
  <2> QED
    BY <1>5, <2>1 DEF Capture, object, threads, Worker!vars
<1>6. CASE UNCHANGED vars
  <2>1. State' = State
    BY <1>6, WorkerFrame DEF vars, threads
  <2> QED
    BY <1>6, <2>1 DEF vars, object, threads, history, Worker!vars
<1>7. CASE CreateThreadFails
  <2>1. State' = State
    BY <1>7, WorkerFrame DEF CreateThreadFails, threads
  <2>2. Worker!SpawnFails
    BY <1>7, <2>1 DEF CreateThreadFails, threads, history, Worker!SpawnFails
  <2> QED
    BY <2>2 DEF Worker!Next
<1> QED
  BY <1>1, <1>2, <1>3, <1>4, <1>5, <1>6, <1>7 DEF Next

\* What StopFlagWorker promises holds of m_PF: nothing but its starts and stops touches
\* its flag, and its threads leave their loop only when they have read a stop.
THEOREM Refinement == Spec => ImplementsStopFlagWorker
<1>1. ThreadInv => Control
  BY DEF ThreadInv
<1> QED
  BY <1>1, InitWorker, NextWorker, ThreadInductive, PTL
     DEF Spec, ImplementsStopFlagWorker, Worker!Spec

(***************************************************************************)
(* What is proved of StopFlagWorker, said of m_PF.                         *)
(***************************************************************************)
WorkerFacts == INSTANCE StopFlagWorker_proofs WITH
  flag <- Stopbit,
  armed <- starting,
  spawned <- started,
  state <- [t \in Threads |-> WorkerState(t)]

\* The abstract worker of the model and the one of the proofs are the same.
LEMMA SameWorker == Worker!Spec => WorkerFacts!Spec
<1>1. Worker!Init => WorkerFacts!Init
  BY DEF Worker!Init, Worker!Threads, WorkerFacts!Init, WorkerFacts!Threads
<1>2. [Worker!Next]_(Worker!vars) => [WorkerFacts!Next]_(WorkerFacts!vars)
  BY DEF Worker!Next, Worker!vars, Worker!Threads, Worker!Alive, Worker!Overlap, Worker!Raise,
         Worker!Spawn, Worker!SpawnFails, Worker!Lower, Worker!Leave, Worker!Finish,
         WorkerFacts!Next, WorkerFacts!vars, WorkerFacts!Threads, WorkerFacts!Alive,
         WorkerFacts!Overlap, WorkerFacts!Raise, WorkerFacts!Spawn, WorkerFacts!SpawnFails,
         WorkerFacts!Lower, WorkerFacts!Leave, WorkerFacts!Finish
<1> QED
  BY <1>1, <1>2, PTL DEF Worker!Spec, WorkerFacts!Spec

\* A start of m_PF is never lost to an earlier stop, and its threads share the
\* object only after a start over a live thread.
THEOREM WorkerPromises == Spec => [](Worker!NewestRuns /\ Worker!OneThread)
<1>1. WorkerFacts!MaxStartsAssumption
  BY ConstantsAssumption DEF ConstantsAssumption, WorkerFacts!MaxStartsAssumption
<1>2. WorkerFacts!NewestRuns => Worker!NewestRuns
  BY DEF Worker!NewestRuns, WorkerFacts!NewestRuns
<1>3. WorkerFacts!OneThread => Worker!OneThread
  BY DEF Worker!OneThread, Worker!Threads, Worker!Alive,
         WorkerFacts!OneThread, WorkerFacts!Threads, WorkerFacts!Alive
<1> QED
  BY <1>1, <1>2, <1>3, Refinement, SameWorker, WorkerFacts!NewestRunsCorrect,
     WorkerFacts!OneThreadCorrect, PTL DEF ImplementsStopFlagWorker
=============================================================================

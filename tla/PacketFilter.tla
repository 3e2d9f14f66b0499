---------------------------- MODULE PacketFilter ----------------------------
(***************************************************************************)
(* The packet filter m_PF: a thread that takes every outgoing TCP packet   *)
(* off the WinDivert device and sends it on, TCP over IPv4 as a copy whose *)
(* TOS field is 168.  The device handle and the packet buffer are global   *)
(* variables of PacketFilter.cpp, which all threads of m_PF share.         *)
(*                                                                         *)
(* The device is external: it queues the packets of an open handle, drops  *)
(* what exceeds QueueLength, and forgets the queue when the handle is      *)
(* closed.  The dump file and the console are left out.                    *)
(***************************************************************************)
EXTENDS Integers, Sequences, FiniteSets

CONSTANTS MaxStarts,    \* bound: threads created
          MaxPackets,   \* bound: packets captured
          QueueLength,  \* packets the device queues for a handle
          MaxFaults     \* bound: calls of DivertRecv and DivertSend that fail

ASSUME ConstantsAssumption ==
  MaxStarts \in Nat /\ MaxPackets \in Nat /\ QueueLength \in Nat /\ MaxFaults \in Nat

Threads == 1 .. MaxStarts
NoHandle == 0          \* otherwise a handle has the number of its thread
Handles == Threads \cup {NoHandle}
Locations == {"none", "created", "check", "recv", "forward", "close", "ended"}

\* What DivertHelperParse finds in a packet.
Kinds == {"tcp_over_ip", "tcp_over_ipv6", "no_tcp", "neither_ip_nor_ipv6"}
Packet == [id : 1 .. MaxPackets, kind : Kinds]
NoPacket == [id |-> 0, kind |-> "neither_ip_nor_ipv6"]

VARIABLES
  \* the dialog's thread and m_PF
  starting,    \* StartThread has set Stopbit and not yet created the thread
  unmanned,    \* m_ThreadHandle is 0: the last StartThread created no thread
  exited,      \* the process has exited
  Stopbit,
  \* the globals
  handle,
  packet,
  \* the threads
  started,     \* threads created so far
  pc,          \* pc[t]: where thread t is
  receiving,   \* receiving[t]: the handle t passed to DivertRecv
  \* the device
  open,        \* handles that are open
  queue,       \* queue[h]: captured packets waiting for DivertRecv
  wire,        \* packets sent on
  \* history
  captured,    \* captured[i] is the packet with id i
  unparsed,    \* ids that Run drops because it cannot parse them
  failed,      \* ids whose DivertSend failed
  discarded,   \* ids that the device dropped
  afterStop,   \* packets received since Stopbit became 0
  overlapped,  \* a StartThread came while a thread was alive
  faults       \* faults so far

object == <<starting, unmanned, exited, Stopbit>>
globals == <<handle, packet>>
threads == <<started, pc, receiving>>
device == <<open, queue, wire>>
history == <<captured, unparsed, failed, discarded, afterStop, overlapped, faults>>
vars == <<object, globals, threads, device, history>>

Alive(t) == pc[t] \notin {"none", "ended"}

Init ==
  /\ starting = FALSE /\ unmanned = FALSE /\ exited = FALSE /\ Stopbit \in {0, 1}
  /\ handle = NoHandle /\ packet = NoPacket
  /\ started = 0
  /\ pc = [t \in Threads |-> "none"]
  /\ receiving = [t \in Threads |-> NoHandle]
  /\ open = {}
  /\ queue = [h \in Threads |-> <<>>]
  /\ wire = <<>> /\ captured = <<>>
  /\ unparsed = {} /\ failed = {} /\ discarded = {}
  /\ afterStop = 0 /\ overlapped = FALSE /\ faults = 0

-----------------------------------------------------------------------------
(***************************************************************************)
(* The dialog's thread.                                                    *)
(***************************************************************************)
StartThread ==
  /\ ~starting /\ ~exited /\ started < MaxStarts
  /\ Stopbit' = 1
  /\ starting' = TRUE
  /\ overlapped' = (overlapped \/ \E t \in Threads : Alive(t))
  /\ afterStop' = 0
  /\ UNCHANGED <<unmanned, exited, globals, threads, device, captured, unparsed, failed,
                 discarded, faults>>

CreateThread ==
  /\ starting /\ ~exited
  /\ starting' = FALSE
  /\ started' = started + 1
  /\ pc' = [pc EXCEPT ![started + 1] = "created"]
  /\ unmanned' = FALSE
  /\ UNCHANGED <<exited, Stopbit, globals, receiving, device, history>>

\* _beginthreadex returns 0, and nobody looks at m_ThreadHandle.
CreateThreadFails ==
  /\ starting /\ ~exited
  /\ starting' = FALSE
  /\ unmanned' = TRUE
  /\ UNCHANGED <<exited, Stopbit, globals, threads, device, history>>

\* Button 2, and OnLOGOUT.
StopThread ==
  /\ ~starting /\ ~exited
  /\ Stopbit' = 0
  /\ UNCHANGED <<starting, unmanned, exited, globals, threads, device, history>>

-----------------------------------------------------------------------------
(***************************************************************************)
(* Update and Run.                                                         *)
(***************************************************************************)
Goto(t, label) == pc' = [pc EXCEPT ![t] = label]

At(t, label) == ~exited /\ pc[t] = label

\* DivertOpen overwrites the handle of a thread that is still running.
DivertOpen(t) ==
  /\ At(t, "created")
  /\ handle' = t
  /\ open' = open \cup {t}
  /\ Goto(t, "check")
  /\ UNCHANGED <<object, packet, started, receiving, queue, wire, history>>

\* Without the driver the whole process exits, dialog and other workers too;
\* Windows closes its handles.
DivertOpenFails(t) ==
  /\ At(t, "created")
  /\ exited' = TRUE
  /\ handle' = NoHandle
  /\ open' = {}
  /\ UNCHANGED <<starting, unmanned, Stopbit, packet, threads, queue, wire, history>>

CheckStopbit(t) ==
  /\ At(t, "check")
  /\ IF Stopbit = 0
     THEN Goto(t, "close") /\ UNCHANGED receiving
     ELSE Goto(t, "recv") /\ receiving' = [receiving EXCEPT ![t] = handle]
  /\ UNCHANGED <<object, globals, started, device, history>>

\* DivertRecv fills the global buffer; it blocks while the queue is empty.
DivertRecv(t) ==
  /\ At(t, "recv") /\ receiving[t] \in open
  /\ LET h == receiving[t]
     IN  /\ queue[h] # <<>>
         /\ packet' = Head(queue[h])
         /\ queue' = [queue EXCEPT ![h] = Tail(@)]
  /\ Goto(t, "forward")
  /\ afterStop' = IF Stopbit = 0 THEN afterStop + 1 ELSE afterStop
  /\ UNCHANGED <<object, handle, started, receiving, open, wire, captured, unparsed,
                 failed, discarded, overlapped, faults>>

Fault == faults < MaxFaults /\ faults' = faults + 1

\* Mutation: a failed read leaves the loop.
DivertRecvFailsBreaks(t) ==
  /\ At(t, "recv")
  /\ IF receiving[t] \in open THEN Fault ELSE UNCHANGED faults
  /\ Goto(t, "close")
  /\ UNCHANGED <<object, globals, started, receiving, device, captured, unparsed,
                 failed, discarded, afterStop, overlapped>>

\* Mutation: a failed read is tried again at once.
DivertRecvFailsRetries(t) ==
  /\ At(t, "recv")
  /\ IF receiving[t] \in open THEN Fault ELSE UNCHANGED faults
  /\ receiving' = [receiving EXCEPT ![t] = handle]
  /\ UNCHANGED <<object, globals, started, pc, device, captured, unparsed, failed,
                 discarded, afterStop, overlapped>>

\* A failed read, always on a closed handle, continues with the loop.
DivertRecvFails(t) ==
  /\ At(t, "recv")
  /\ IF receiving[t] \in open THEN Fault ELSE UNCHANGED faults
  /\ Goto(t, "check")
  /\ UNCHANGED <<object, globals, started, receiving, device, captured, unparsed,
                 failed, discarded, afterStop, overlapped>>

\* A packet without an IP header is not sent on.
Unparsable(t) ==
  /\ At(t, "forward") /\ packet.kind = "neither_ip_nor_ipv6"
  /\ Goto(t, "check")
  /\ unparsed' = unparsed \cup {packet.id}
  /\ UNCHANGED <<object, globals, started, receiving, device, captured, failed,
                 discarded, afterStop, overlapped, faults>>

\* The copy in reset carries the mark; all other packets go on as they came.
Outgoing(p) ==
  [id |-> p.id, kind |-> p.kind, marked |-> p.kind = "tcp_over_ip"]

\* Mutation: the copy is sent, and then the packet too.
DivertSendBoth(t) ==
  /\ At(t, "forward") /\ packet.kind # "neither_ip_nor_ipv6"
  /\ handle \in open
  /\ wire' = wire \o <<Outgoing(packet), Outgoing(packet)>>
  /\ Goto(t, "check")
  /\ UNCHANGED <<object, globals, started, receiving, open, queue, history>>

\* Mutation: every packet is marked.
DivertSendMarked(t) ==
  /\ At(t, "forward") /\ packet.kind # "neither_ip_nor_ipv6"
  /\ handle \in open
  /\ wire' = Append(wire, [Outgoing(packet) EXCEPT !.marked = TRUE])
  /\ Goto(t, "check")
  /\ UNCHANGED <<object, globals, started, receiving, open, queue, history>>

\* Mutation: Run reads on without looking at Stopbit.
DivertSendReadsOn(t) ==
  /\ At(t, "forward") /\ packet.kind # "neither_ip_nor_ipv6"
  /\ handle \in open
  /\ wire' = Append(wire, Outgoing(packet))
  /\ Goto(t, "recv")
  /\ UNCHANGED <<object, globals, started, receiving, open, queue, history>>

DivertSend(t) ==
  /\ At(t, "forward") /\ packet.kind # "neither_ip_nor_ipv6"
  /\ handle \in open
  /\ wire' = Append(wire, Outgoing(packet))
  /\ Goto(t, "check")
  /\ UNCHANGED <<object, globals, started, receiving, open, queue, history>>

\* A failed send is only reported on stderr: the packet is lost.
DivertSendFails(t) ==
  /\ At(t, "forward") /\ packet.kind # "neither_ip_nor_ipv6"
  /\ IF handle \in open THEN Fault ELSE UNCHANGED faults
  /\ failed' = failed \cup {packet.id}
  /\ Goto(t, "check")
  /\ UNCHANGED <<object, globals, started, receiving, device, captured, unparsed,
                 discarded, afterStop, overlapped>>

Ids(packets) == {packets[i].id : i \in 1 .. Len(packets)}

\* Mutation: the handle stays open.
DivertCloseForgotten(t) ==
  /\ At(t, "close")
  /\ Goto(t, "ended")
  /\ UNCHANGED <<object, globals, started, receiving, device, history>>

\* The thread closes the handle that the global names now.
DivertClose(t) ==
  /\ At(t, "close")
  /\ open' = open \ {handle}
  /\ IF handle \in open
     THEN /\ queue' = [queue EXCEPT ![handle] = <<>>]
          /\ discarded' = discarded \cup Ids(queue[handle])
     ELSE UNCHANGED <<queue, discarded>>
  /\ Goto(t, "ended")
  /\ UNCHANGED <<object, globals, started, receiving, wire, captured, unparsed, failed,
                 afterStop, overlapped, faults>>

-----------------------------------------------------------------------------
(***************************************************************************)
(* The device: an application sends a packet, an open handle captures it.  *)
(***************************************************************************)
Capture(h, kind) ==
  /\ ~exited /\ h \in open /\ Len(captured) < MaxPackets
  /\ LET p == [id |-> Len(captured) + 1, kind |-> kind]
     IN  /\ captured' = Append(captured, p)
         /\ IF Len(queue[h]) < QueueLength
            THEN queue' = [queue EXCEPT ![h] = Append(@, p)] /\ UNCHANGED discarded
            ELSE discarded' = discarded \cup {p.id} /\ UNCHANGED queue
  /\ UNCHANGED <<object, globals, threads, open, wire, unparsed, failed, afterStop,
                 overlapped, faults>>

Forward(t) == Unparsable(t) \/ DivertSend(t) \/ DivertSendFails(t)

Thread(t) ==
  \/ DivertOpen(t) \/ DivertOpenFails(t) \/ CheckStopbit(t)
  \/ DivertRecv(t) \/ DivertRecvFails(t) \/ Forward(t) \/ DivertClose(t)

Next ==
  \/ StartThread \/ CreateThread \/ CreateThreadFails \/ StopThread
  \/ \E t \in Threads : Thread(t) \/ \E kind \in Kinds : Capture(t, kind)

Spec == Init /\ [][Next]_vars

\* The scheduler runs the threads; nobody has to send a packet.
FairSpec ==
  /\ Spec
  /\ WF_vars(CreateThread \/ CreateThreadFails)
  /\ \A t \in Threads : WF_vars(Thread(t))

-----------------------------------------------------------------------------
(***************************************************************************)
(* Properties.                                                             *)
(***************************************************************************)

\* The type of the state; threads are numbered in the order of their creation.
TypeOK ==
  /\ starting \in BOOLEAN /\ unmanned \in BOOLEAN /\ exited \in BOOLEAN
  /\ Stopbit \in {0, 1}
  /\ handle \in Handles /\ packet \in Packet \cup {NoPacket}
  /\ started \in 0 .. MaxStarts
  /\ starting => started < MaxStarts
  /\ pc \in [Threads -> Locations]
  /\ \A t \in Threads : pc[t] = "none" <=> t > started
  /\ receiving \in [Threads -> Handles]
  /\ open \subseteq Threads
  /\ queue \in [Threads -> Seq(Packet)]
  /\ wire \in Seq([id : 1 .. MaxPackets, kind : Kinds, marked : BOOLEAN])
  /\ captured \in Seq(Packet) /\ Len(captured) <= MaxPackets
  /\ unparsed \subseteq 1 .. MaxPackets /\ failed \subseteq 1 .. MaxPackets
  /\ discarded \subseteq 1 .. MaxPackets
  /\ afterStop \in Nat /\ overlapped \in BOOLEAN /\ faults \in 0 .. MaxFaults

\* Without overlapping threads every open handle is the global one and belongs
\* to a live thread, and a thread uses an open handle: no handle is left behind
\* that would capture packets nobody reads, and none is closed under its user.
HandleHasItsThread ==
  ~overlapped /\ ~exited =>
    /\ \A h \in open : handle = h /\ pc[h] \in {"check", "recv", "forward", "close"}
    /\ \A t \in Threads : pc[t] \in {"check", "recv", "forward", "close"} => t \in open
    /\ \A t \in Threads : pc[t] = "recv" => receiving[t] = t

\* Where packet i is: queued, in the global buffer, sent, or dropped.
Places(i) ==
  Cardinality({h \in Threads : i \in Ids(queue[h])})
    + Cardinality({t \in Threads : pc[t] = "forward" /\ packet.id = i})
    + Cardinality({k \in 1 .. Len(wire) : wire[k].id = i})
    + Cardinality({s \in {1, 2, 3} : i \in <<unparsed, failed, discarded>>[s]})

\* Without overlapping threads every captured packet is in exactly one place: it
\* is sent on once, or dropped for one of the three reasons.
PacketsForwardedOnce ==
  ~overlapped => \A i \in 1 .. Len(captured) : Places(i) = 1

\* Without overlapping threads packets leave in the order in which they were
\* captured, each with its own header and mark.
PacketsInOrder ==
  ~overlapped =>
    /\ \A k, l \in 1 .. Len(wire) : k < l => wire[k].id < wire[l].id
    /\ \A k \in 1 .. Len(wire) : wire[k] = Outgoing(captured[wire[k].id])

\* Without overlapping threads at most one more packet is taken from the device
\* after a stop.
OneMorePacket == ~overlapped => afterStop <= 1

\* A stop ends all threads, except that one that waits for a packet goes on
\* waiting until there is one.
Waits(t) == pc[t] = "recv" /\ receiving[t] \in open /\ queue[receiving[t]] = <<>>

StopEndsOrWaits ==
  Stopbit = 0 ~>
    (Stopbit = 1 \/ exited \/ \A t \in Threads : Alive(t) => Waits(t))

\* m_PF is a worker with a stop flag.
WorkerState(t) ==
  CASE pc[t] = "none" -> "none"
    [] pc[t] = "close" -> "leaving"
    [] pc[t] = "ended" -> "ended"
    [] OTHER -> "running"

Worker == INSTANCE StopFlagWorker WITH
  flag <- Stopbit,
  armed <- starting,
  spawned <- started,
  state <- [t \in Threads |-> WorkerState(t)]

ImplementsStopFlagWorker == Worker!Spec
=============================================================================

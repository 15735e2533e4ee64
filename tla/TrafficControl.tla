--------------------------- MODULE TrafficControl ---------------------------
(***************************************************************************)
(* The way of a packet from the network layer to the wire: a FifoQueueDisc *)
(* (traffic-control/model/queue-disc.cc) on a PointToPointNetDevice with a *)
(* DropTailQueue counted in packets and one transmission queue, whose      *)
(* NetDeviceQueue (network/utils/net-device-queue-interface.h) stops the   *)
(* queue disc when the queue of the device is full or DynamicQueueLimits   *)
(* asks for it, and wakes it later.                                        *)
(*                                                                         *)
(* The simulator runs one function at a time: new packets, the end of a    *)
(* transmission and the notification of the bytes transmitted only start   *)
(* when no other runs (pc "idle").  QueueDisc::Run is a step of `pc' for   *)
(* each turn of its loop; m_running is TRUE while pc is in Running.        *)
(*                                                                         *)
(* A packet is its size in the queue of the device.  Requeue is left out:  *)
(* between DequeuePacket and Transmit nothing stops the only queue.        *)
(***************************************************************************)
EXTENDS DynamicQueueLimits, Sequences

CONSTANTS
    Size,           \* sizes of packets
    DiscSize,       \* MaxSize of the queue disc, in packets
    MaxSize,        \* MaxSize of the queue of the device, in packets
    Quota,          \* the attribute of the queue disc
    HasLimits,      \* whether queue limits are installed on the device
    MaxPackets      \* bound: packets accepted by the queue disc

ASSUME SizeAssumption       == Size \subseteq Nat \ {0}
ASSUME DiscSizeAssumption   == DiscSize \in Nat
ASSUME MaxSizeAssumption    == MaxSize \in Nat \ {0}
ASSUME QuotaAssumption      == Quota \in Nat \ {0}
ASSUME HasLimitsAssumption  == HasLimits \in BOOLEAN
ASSUME MaxPacketsAssumption == MaxPackets \in Nat

VARIABLES
    pc,             \* what runs now
    quota,          \* what is left of it in QueueDisc::Run
    queueDisc,      \* the internal queue of the queue disc
    m_queue,        \* the queue of the device, a packet being its size
    m_nBytes,       \* its size in bytes
    m_currentPkt,   \* the packet of a BUSY transmitter, none when READY
    notice,         \* bytes of the pending event of PacketDequeued, 0 for none
    m_stoppedByDevice, m_stoppedByQueueLimits,
    m_queueLimits,
    accepted        \* packets accepted (the bound)

device  == <<m_queue, m_nBytes, m_currentPkt, notice>>
flags   == <<m_stoppedByDevice, m_stoppedByQueueLimits>>
vars    == <<pc, quota, queueDisc, device, flags, m_queueLimits, accepted>>

\* In QueueDisc::Run, called by NotifyTransmittedBytes before Wake or not.
Running == {"run", "runThenWake"}
Pcs     == Running \cup {"idle", "wake"}

IsStopped == m_stoppedByDevice \/ m_stoppedByQueueLimits

\* Queue::WouldOverflow for one packet more than `length'.
WouldOverflow(length) == length + 1 > MaxSize

Init ==
    /\ pc = "idle"
    /\ quota = Quota
    /\ queueDisc = <<>>
    /\ m_queue = <<>>
    /\ m_nBytes = 0
    /\ m_currentPkt = <<>>
    /\ notice = 0
    /\ m_stoppedByDevice = FALSE
    /\ m_stoppedByQueueLimits = FALSE
    /\ m_queueLimits = NewLimits
    /\ accepted = 0
-----------------------------------------------------------------------------
(* The network layer.                                                      *)

\* FifoQueueDisc::DoEnqueue drops a packet that does not fit.
DiscIsFull(length) == length + 1 > DiscSize

\* TrafficControlLayer::Send: the queue disc runs whether it took the packet or not.
Send(p) ==
    /\ pc = "idle"
    /\ accepted < MaxPackets
    /\ IF DiscIsFull(Len(queueDisc))
       THEN UNCHANGED <<queueDisc, accepted>>
       ELSE /\ queueDisc' = Append(queueDisc, p)
            /\ accepted' = accepted + 1
    /\ quota' = Quota
    /\ pc' = "run"
    /\ UNCHANGED <<device, flags, m_queueLimits>>
-----------------------------------------------------------------------------
(* The device.                                                             *)

\* NetDeviceQueue::NotifyQueuedBytes.
NotifyQueuedBytes(p) ==
    IF HasLimits
    THEN /\ m_queueLimits' = Queued(m_queueLimits, p)
         /\ m_stoppedByQueueLimits' =
                (m_stoppedByQueueLimits \/ Available(m_queueLimits') < 0)
    ELSE UNCHANGED <<m_queueLimits, m_stoppedByQueueLimits>>

\* TransmitStart with the packet at the head of `packets', of which it leaves
\* the rest in the queue: PacketDequeued schedules its notice.
Dequeue(packets, bytes) ==
    /\ m_currentPkt' = <<Head(packets)>>
    /\ m_queue' = Tail(packets)
    /\ m_nBytes' = bytes - Head(packets)
    /\ notice' = Head(packets)

\* A mutant: the queue is stopped when a packet no longer fits the full queue.
DeviceStopsLate(p) ==
    IF WouldOverflow(Len(m_queue))
    THEN /\ m_stoppedByDevice' = TRUE
         /\ UNCHANGED <<device, m_stoppedByQueueLimits, m_queueLimits>>
    ELSE /\ NotifyQueuedBytes(p)
         /\ m_stoppedByDevice' = (m_stoppedByDevice \/ WouldOverflow(Len(m_queue)))
         /\ IF m_currentPkt = <<>>
            THEN Dequeue(Append(m_queue, p), m_nBytes + p)
            ELSE /\ m_queue' = Append(m_queue, p)
                 /\ m_nBytes' = m_nBytes + p
                 /\ UNCHANGED <<m_currentPkt, notice>>

\* PointToPointNetDevice::Send.  A packet that does not fit is dropped
\* (PacketDiscarded); one that does is enqueued (PacketEnqueued), and the queue
\* is stopped unless another would fit; then a READY transmitter starts.
DeviceSend(p) ==
    IF WouldOverflow(Len(m_queue))
    THEN /\ m_stoppedByDevice' = TRUE
         /\ UNCHANGED <<device, m_stoppedByQueueLimits, m_queueLimits>>
    ELSE /\ NotifyQueuedBytes(p)
         /\ m_stoppedByDevice' = (m_stoppedByDevice \/ WouldOverflow(Len(m_queue) + 1))
         /\ IF m_currentPkt = <<>>
            THEN Dequeue(Append(m_queue, p), m_nBytes + p)
            ELSE /\ m_queue' = Append(m_queue, p)
                 /\ m_nBytes' = m_nBytes + p
                 /\ UNCHANGED <<m_currentPkt, notice>>

\* A mutant: a stack.
TransmitCompleteLast ==
    /\ pc = "idle"
    /\ m_currentPkt # <<>>
    /\ notice = 0
    /\ IF m_queue = <<>>
       THEN /\ m_currentPkt' = <<>>
            /\ UNCHANGED <<m_queue, m_nBytes, notice>>
       ELSE Dequeue(<<m_queue[Len(m_queue)]>> \o SubSeq(m_queue, 1, Len(m_queue) - 1),
                    m_nBytes)
    /\ UNCHANGED <<pc, quota, queueDisc, flags, m_queueLimits, accepted>>

\* TransmitComplete.  It was scheduled after the notice of its packet, which
\* therefore has run.
TransmitComplete ==
    /\ pc = "idle"
    /\ m_currentPkt # <<>>
    /\ notice = 0
    /\ IF m_queue = <<>>
       THEN /\ m_currentPkt' = <<>>
            /\ UNCHANGED <<m_queue, m_nBytes, notice>>
       ELSE Dequeue(m_queue, m_nBytes)
    /\ UNCHANGED <<pc, quota, queueDisc, flags, m_queueLimits, accepted>>
-----------------------------------------------------------------------------
(* QueueDisc::Run.                                                         *)

Return == IF pc = "runThenWake" THEN "wake" ELSE "idle"

\* Restart with nothing to dequeue.
RunEnd ==
    /\ pc \in Running
    /\ IsStopped \/ queueDisc = <<>>
    /\ pc' = Return
    /\ UNCHANGED <<quota, queueDisc, device, flags, m_queueLimits, accepted>>

\* Restart: a packet goes to the device.  The loop goes on while there are
\* packets, the queue is not stopped, and the quota is not used up.
Restart ==
    /\ pc \in Running
    /\ ~ IsStopped
    /\ queueDisc # <<>>
    /\ queueDisc' = Tail(queueDisc)
    /\ DeviceSend(Head(queueDisc))
    /\ quota' = quota - 1
    /\ pc' = IF queueDisc' = <<>> \/ IsStopped' \/ quota' = 0 THEN Return ELSE pc
    /\ UNCHANGED accepted
-----------------------------------------------------------------------------
(* The event of PacketDequeued.                                            *)

\* NotifyTransmittedBytes, which wakes the queue disc that the limits stopped.
NotifyTransmittedBytes(held) ==
    /\ pc = "idle"
    /\ notice > 0
    /\ notice' = 0
    /\ m_queueLimits' =
           IF HasLimits THEN Completed(m_queueLimits, notice, held) ELSE m_queueLimits
    /\ LET wakes == HasLimits /\ Available(m_queueLimits') >= 0 IN
       /\ m_stoppedByQueueLimits' = (m_stoppedByQueueLimits /\ ~ wakes)
       /\ pc' = IF wakes /\ m_stoppedByQueueLimits THEN "runThenWake" ELSE "wake"
    /\ quota' = IF pc' = "runThenWake" THEN Quota ELSE quota
    /\ UNCHANGED <<queueDisc, m_queue, m_nBytes, m_currentPkt, m_stoppedByDevice,
                   accepted>>

\* A mutant: Start in place of Wake.
StartOnly ==
    /\ pc = "wake"
    /\ m_stoppedByDevice' = (m_stoppedByDevice /\ WouldOverflow(Len(m_queue)))
    /\ pc' = "idle"
    /\ UNCHANGED <<quota, queueDisc, device, m_stoppedByQueueLimits, m_queueLimits, accepted>>

\* Wake, when there is room for a packet: it runs the queue disc if the device
\* had stopped it.
Wake ==
    /\ pc = "wake"
    /\ m_stoppedByDevice' = (m_stoppedByDevice /\ WouldOverflow(Len(m_queue)))
    /\ pc' = IF m_stoppedByDevice /\ ~ m_stoppedByDevice' THEN "run" ELSE "idle"
    /\ quota' = IF pc' = "run" THEN Quota ELSE quota
    /\ UNCHANGED <<queueDisc, device, m_stoppedByQueueLimits, m_queueLimits, accepted>>
-----------------------------------------------------------------------------
Notify == \E held \in BOOLEAN : NotifyTransmittedBytes(held)

Next == \/ \E p \in Size : Send(p)
        \/ RunEnd
        \/ Restart
        \/ Notify
        \/ Wake
        \/ TransmitComplete

Spec == Init /\ [][Next]_vars

\* A function that runs goes on, and a scheduled event is run, whatever else the
\* simulator runs before it.  Nobody has to send.
Fairness == /\ WF_vars(RunEnd \/ Restart \/ Wake)
            /\ SF_vars(Notify)
            /\ SF_vars(TransmitComplete)
FairSpec == Spec /\ Fairness
-----------------------------------------------------------------------------
(* Properties.                                                             *)

\* Every variable keeps its type, and the queues their bounds.
TypeOK ==
    /\ pc \in Pcs
    /\ quota \in 0 .. Quota
    /\ queueDisc \in Seq(Size) /\ Len(queueDisc) <= DiscSize
    /\ m_queue \in Seq(Size) /\ Len(m_queue) <= MaxSize
    /\ m_nBytes \in Int
    /\ m_currentPkt \in Seq(Size) /\ Len(m_currentPkt) <= 1
    /\ notice \in Size \cup {0}
    /\ m_stoppedByDevice \in BOOLEAN
    /\ m_stoppedByQueueLimits \in BOOLEAN
    /\ m_queueLimits \in Limits
    /\ accepted \in 0 .. MaxPackets

\* "This should not happen if the device correctly stops the queue"
\* (PacketDiscarded): whenever the queue disc may dequeue, the device has room.
DeviceHasRoom == ~ m_stoppedByDevice => ~ WouldOverflow(Len(m_queue))

\* A queue that is stopped has a packet on the wire, the end of which will wake
\* the queue disc: nobody waits for a device that is silent.
StoppedWhileTransmitting == IsStopped => m_currentPkt # <<>>

\* The limits count as queued and not completed exactly the bytes in the device
\* that no notice has reported, whatever the order in which they were told.  It
\* is the assertion of Completed that not more is completed than was queued.
BytesAccounted ==
    HasLimits => m_queueLimits.m_numQueued - m_queueLimits.m_numCompleted
                     = m_nBytes + notice

\* Packets are left in the queue disc only behind a queue that is stopped, as
\* nothing else starts the next run.  A quota used up leaves packets behind too,
\* but not one as large as the queue of the device: it fills that queue first.
BacklogMeansStopped ==
    pc \notin Running /\ (quota > 0 \/ Quota >= MaxSize) /\ queueDisc # <<>> => IsStopped

\* The two queues and the transmitter are one FIFO link: packets are neither
\* lost nor reordered once accepted, ...
Link == INSTANCE FifoLink WITH Packet <- Size,
                               queue <- m_currentPkt \o m_queue \o queueDisc
IsFifoLink == Link!Spec

\* ... and every packet leaves, with a quota no smaller than the queue of the
\* device: no wake-up is missed, and no run stops short of one.
EveryPacketLeaves == Link!Fairness
=============================================================================

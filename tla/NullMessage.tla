---------------------------- MODULE NullMessage -----------------------------
(***************************************************************************)
(* The other conservative parallel simulator of ns-3: each rank is a       *)
(* NullMessageSimulatorImpl (mpi/model/null-message-simulator-impl.cc),    *)
(* which exchanges packets with its neighbours only, and no rank ever      *)
(* waits for all the others.                                               *)
(*                                                                         *)
(* Every message from a neighbour carries a guarantee: no later packet of  *)
(* that neighbour is received before it.  A rank runs its events up to the *)
(* smallest guarantee, its safe time.  A neighbour with no packet to send  *)
(* sends null messages, whose only content is the guarantee, from an event *)
(* it keeps in its own list.                                               *)
(*                                                                         *)
(* MPI is modelled from its use: messages of one rank to another arrive in *)
(* the order in which they were sent, at any time.  Ranks that share no    *)
(* channel never communicate.  Run is called once, and the only call of    *)
(* Stop is the Simulator::Stop (StopTime) made before it.                  *)
(***************************************************************************)
EXTENDS EventKey, FiniteSets, Sequences

CONSTANTS
    Rank,           \* the MPI ranks
    Channel,        \* the PointToPointRemoteChannels
    Ends,           \* Ends[c]: the ranks of the two devices of a channel
    Delay,          \* Delay[c]: the delay of a channel
    StopTime,       \* StopTime[r]: when rank r stops
    SchedulerTune,  \* the attribute SchedulerTune, in per cent
    InterframeGap,  \* the attribute of the point-to-point devices
    Delays,         \* delays with which the program schedules
    TxTimes,        \* transmission times of packets
    MaxOps          \* bound: calls of the program, on all ranks

ASSUME RankAssumption == IsFiniteSet(Rank)
ASSUME EndsAssumption == /\ Ends \in [Channel -> SUBSET Rank]
                         /\ \A c \in Channel : \E r, q \in Rank :
                                r # q /\ Ends[c] = {r, q}
ASSUME DelayAssumption    == Delay \in [Channel -> Nat \ {0}]
ASSUME StopTimeAssumption == StopTime \in [Rank -> Nat]
ASSUME TuneAssumption     == SchedulerTune \in 1 .. 100
ASSUME GapAssumption      == InterframeGap \in Nat
ASSUME DelaysAssumption   == Delays \subseteq Nat
ASSUME TxTimesAssumption  == TxTimes \subseteq Nat
ASSUME MaxOpsAssumption   == MaxOps \in Nat

\* The channels of the bundle of rank r towards rank q.
Bundle(r, q) == {c \in Channel : Ends[c] = {r, q}}
Neighbors == [r \in Rank |-> {q \in Rank \ {r} : Bundle(r, q) # {}}]

\* A rank without neighbours never communicates.
ASSUME NeighborsAssumption == \A r \in Rank : Neighbors[r] # {}

VARIABLES
    pc,                 \* where each rank is
    m_events,           \* the scheduler of each rank
    m_uid, m_currentTs, m_stop, m_safeTime,
    m_guaranteeTime,    \* m_guaranteeTime[r][q]: the guarantee r has of q
    transmitting,       \* the channels whose device at r is BUSY
    mpi,                \* mpi[r][q]: messages of r on their way to q
    ops,                \* calls made by the program (the bound)
    overlapped          \* history: a rank has begun to transmit to a neighbour
                        \* while it was transmitting to it on another channel

clock  == <<m_events, m_uid, m_currentTs, m_stop>>
safety == <<m_safeTime, m_guaranteeTime>>
vars   == <<pc, clock, safety, transmitting, mpi, ops, overlapped>>

\* The function of an event: TransmitComplete of the device on channel `arg',
\* the NullMessageEventHandler for neighbour `arg', Simulator::Stop, or a
\* function of the program (MpiReceiver::Receive among them).
Event == [ts : Nat, uid : Nat,
          kind : {"program", "stop", "complete", "null", "cancelled"},
          arg : Rank \cup Channel]

\* rxTime 0 marks a null message.
Message == [rxTime : Nat, guarantee : Nat]
Pcs     == {"start", "run", "handler", "receive", "done"}

Least(S)     == CHOOSE x \in S : \A y \in S : x <= y
Lesser(a, b) == IF a <= b THEN a ELSE b

\* RemoteChannelBundle::GetDelay: the shortest channel of the bundle.
GetDelay ==
    [r \in Rank |-> [q \in Neighbors[r] |-> Least({Delay[c] : c \in Bundle(r, q)})]]

\* The delay of the event that sends the next null message, rounded to a
\* whole time step by the constructor of Time.
Interval ==
    [r \in Rank |-> [q \in Neighbors[r] |->
        (SchedulerTune * GetDelay[r][q] + 50) \div 100]]

PeekNext(events) == Least({e.ts : e \in events})

\* Mutants: the sign, and the delay there and back.
GuaranteeBehind(r, q, events) ==
    Lesser(PeekNext(events), m_safeTime[r]) - GetDelay[r][q]
GuaranteeRoundTrip(r, q, events) ==
    Lesser(PeekNext(events), m_safeTime[r]) + 2 * GetDelay[r][q]

\* CalculateGuaranteeTime, from the event list as it is at the call.
Guarantee(r, q, events) ==
    Lesser(PeekNext(events), m_safeTime[r]) + GetDelay[r][q]

IsNullEvent(e, q) == e.kind = "null" /\ e.arg = q

\* A mutant: nothing is cancelled.
CancelNothing(events, q) == events

\* The event list once the pending null message event of a neighbour was
\* cancelled: a cancelled event stays in the list.
CancelNull(events, q) ==
    {e \in events : ~ IsNullEvent(e, q)} \cup
    {[e EXCEPT !.kind = "cancelled"] : e \in {f \in events : IsNullEvent(f, q)}}

Init ==
    /\ pc = [r \in Rank |-> "start"]
    /\ m_events = [r \in Rank |->
           {[ts |-> StopTime[r], uid |-> 0, kind |-> "stop", arg |-> r]}]
    /\ m_uid = [r \in Rank |-> 1]
    /\ m_currentTs = [r \in Rank |-> 0]
    /\ m_stop = [r \in Rank |-> FALSE]
    /\ m_safeTime = [r \in Rank |-> 0]
    /\ m_guaranteeTime = [r \in Rank |-> [q \in Neighbors[r] |-> 0]]
    /\ transmitting = [r \in Rank |-> {}]
    /\ mpi = [r \in Rank |-> [q \in Neighbors[r] |-> <<>>]]
    /\ ops = 0
    /\ overlapped = FALSE
-----------------------------------------------------------------------------
(* Sending.                                                                *)

Send(r, q, rxTime, guarantee) ==
    mpi' = [mpi EXCEPT ![r][q] =
                Append(@, [rxTime |-> rxTime, guarantee |-> guarantee])]

\* The events scheduled at time `now'.
NullEvent(r, q, now, uid) ==
    [ts |-> now + Interval[r][q], uid |-> uid, kind |-> "null", arg |-> q]

CompleteEvent(r, c, now, txTime) ==
    [ts |-> now + txTime + InterframeGap, uid |-> m_uid[r],
     kind |-> "complete", arg |-> c]

\* Another channel of the bundle is BUSY.
Overlaps(r, q, c) == (Bundle(r, q) \cap transmitting[r]) \ {c} # {}

\* PointToPointNetDevice::TransmitStart on a channel to rank q at time `now',
\* when the event list is `events': the end of the transmission is scheduled, the message is
\* sent with the guarantee of this moment (SendPacket), and the null message
\* event starts over (RescheduleNullMessageEvent).
TransmitStart(r, q, c, now, txTime, events) ==
    LET pending == events \cup {CompleteEvent(r, c, now, txTime)} IN
    /\ transmitting' = [transmitting EXCEPT ![r] = @ \cup {c}]
    /\ overlapped' = (overlapped \/ Overlaps(r, q, c))
    /\ Send(r, q, now + txTime + Delay[c], Guarantee(r, q, pending))
    /\ m_events' = [m_events EXCEPT ![r] = CancelNull(pending, q) \cup
                                               {NullEvent(r, q, now, m_uid[r] + 1)}]
    /\ m_uid' = [m_uid EXCEPT ![r] = @ + 2]
-----------------------------------------------------------------------------
(* The program: before Run, and in the handler of an event.                *)

MayCall == ops < MaxOps

Schedule(r, delay) ==
    /\ pc[r] \in {"start", "handler"}
    /\ MayCall
    /\ m_events' = [m_events EXCEPT ![r] = @ \cup
           {[ts |-> m_currentTs[r] + delay, uid |-> m_uid[r],
             kind |-> "program", arg |-> r]}]
    /\ m_uid' = [m_uid EXCEPT ![r] = @ + 1]
    /\ ops' = ops + 1
    /\ UNCHANGED <<pc, m_currentTs, m_stop, safety, transmitting, mpi, overlapped>>

\* PointToPointNetDevice::Send on a device that is READY.
Transmit(r, q, c, txTime) ==
    /\ pc[r] = "handler"
    /\ MayCall
    /\ c \in Bundle(r, q) \ transmitting[r]
    /\ TransmitStart(r, q, c, m_currentTs[r], txTime, m_events[r])
    /\ ops' = ops + 1
    /\ UNCHANGED <<pc, m_currentTs, m_stop, safety>>

HandlerReturns(r) ==
    /\ pc[r] = "handler"
    /\ pc' = [pc EXCEPT ![r] = "receive"]
    /\ UNCHANGED <<clock, safety, transmitting, mpi, ops, overlapped>>
-----------------------------------------------------------------------------
(* Run.                                                                    *)

\* CalculateLookAhead and InitializeNullMessageEvents: the first null message
\* goes to every neighbour, and its event is scheduled.  The bundles are kept
\* in an unordered_map: which comes first is not specified.
Run(r, place) ==
    /\ pc[r] = "start"
    /\ mpi' = [mpi EXCEPT ![r] = [q \in Neighbors[r] |->
           Append(@[q], [rxTime |-> 0, guarantee |-> GetDelay[r][q]])]]
    /\ m_events' = [m_events EXCEPT ![r] = @ \cup
           {NullEvent(r, q, m_currentTs[r], m_uid[r] + place[q]) :
                q \in Neighbors[r]}]
    /\ m_uid' = [m_uid EXCEPT ![r] = @ + Cardinality(Neighbors[r])]
    /\ m_safeTime' = [m_safeTime EXCEPT ![r] = 0]
    /\ m_stop' = [m_stop EXCEPT ![r] = FALSE]
    /\ pc' = [pc EXCEPT ![r] = "run"]
    /\ UNCHANGED <<m_currentTs, m_guaranteeTime, transmitting, ops, overlapped>>

IsFinished(r) == m_events[r] = {} \/ m_stop[r]

Finish(r) ==
    /\ pc[r] = "run"
    /\ IsFinished(r)
    /\ pc' = [pc EXCEPT ![r] = "done"]
    /\ UNCHANGED <<clock, safety, transmitting, mpi, ops, overlapped>>

\* A mutant: any event is safe.
TakeUnsafe(r, next) ==
    /\ pc[r] = "run"
    /\ ~ IsFinished(r)
    /\ IsEarliest(next, m_events[r])
    /\ m_currentTs' = [m_currentTs EXCEPT ![r] = next.ts]
    /\ UNCHANGED <<safety, ops>>

\* ProcessOneEvent takes `next' off the list; what it invokes is below.
Take(r, next) ==
    /\ pc[r] = "run"
    /\ ~ IsFinished(r)
    /\ IsEarliest(next, m_events[r])
    /\ next.ts <= m_safeTime[r]
    /\ m_currentTs' = [m_currentTs EXCEPT ![r] = next.ts]
    /\ UNCHANGED <<safety, ops>>

\* A function of the program, which Transmit, Schedule and HandlerReturns act for.
RunProgram(r, next) ==
    /\ next.kind = "program"
    /\ Take(r, next)
    /\ m_events' = [m_events EXCEPT ![r] = @ \ {next}]
    /\ pc' = [pc EXCEPT ![r] = "handler"]
    /\ UNCHANGED <<m_uid, m_stop, transmitting, mpi, overlapped>>

\* Simulator::Stop, and an event that was cancelled.
RunStop(r, next) ==
    /\ next.kind \in {"stop", "cancelled"}
    /\ Take(r, next)
    /\ m_events' = [m_events EXCEPT ![r] = @ \ {next}]
    /\ m_stop' = [m_stop EXCEPT ![r] = @ \/ next.kind = "stop"]
    /\ pc' = [pc EXCEPT ![r] = "receive"]
    /\ UNCHANGED <<m_uid, transmitting, mpi, overlapped>>

\* NullMessageEventHandler.
RunNull(r, next) ==
    /\ next.kind = "null"
    /\ Take(r, next)
    /\ Send(r, next.arg, 0, Guarantee(r, next.arg, m_events[r] \ {next}))
    /\ m_events' = [m_events EXCEPT ![r] = (@ \ {next}) \cup
           {NullEvent(r, next.arg, next.ts, m_uid[r])}]
    /\ m_uid' = [m_uid EXCEPT ![r] = @ + 1]
    /\ pc' = [pc EXCEPT ![r] = "receive"]
    /\ UNCHANGED <<m_stop, transmitting, overlapped>>

\* TransmitComplete: with nothing in the queue of the device it is READY, else
\* the next packet starts.  The queue is not modelled: any handler may have
\* filled it.
RunComplete(r, next) ==
    /\ next.kind = "complete"
    /\ Take(r, next)
    /\ \/ /\ transmitting' = [transmitting EXCEPT ![r] = @ \ {next.arg}]
          /\ m_events' = [m_events EXCEPT ![r] = @ \ {next}]
          /\ UNCHANGED <<m_uid, mpi, overlapped>>
       \/ \E q \in Neighbors[r], txTime \in TxTimes :
              /\ next.arg \in Bundle(r, q)
              /\ TransmitStart(r, q, next.arg, next.ts, txTime,
                               m_events[r] \ {next})
    /\ pc' = [pc EXCEPT ![r] = "receive"]
    /\ UNCHANGED m_stop
-----------------------------------------------------------------------------
(* Receiving: ReceiveMessages.                                             *)

\* A packet becomes an event of its receive time, scheduled after rxTime -
\* Now(), and the guarantee of the sender is replaced.
TakeMessage(r, q) ==
    LET message == Head(mpi[q][r]) IN
    /\ mpi[q][r] # <<>>
    /\ mpi' = [mpi EXCEPT ![q][r] = Tail(@)]
    /\ IF message.rxTime > 0
       THEN /\ m_events' = [m_events EXCEPT ![r] = @ \cup
                   {[ts |-> m_currentTs[r] + (message.rxTime - m_currentTs[r]),
                     uid |-> m_uid[r], kind |-> "program", arg |-> r]}]
            /\ m_uid' = [m_uid EXCEPT ![r] = @ + 1]
       ELSE UNCHANGED <<m_events, m_uid>>
    /\ m_guaranteeTime' = [m_guaranteeTime EXCEPT ![r][q] = message.guarantee]
    /\ UNCHANGED <<m_currentTs, m_stop, transmitting, ops, overlapped>>

\* CalculateSafeTime, from the guarantees after the messages.
SafeTime(guarantee) == Least({guarantee[q] : q \in DOMAIN guarantee})

\* HandleArrivingMessagesNonBlocking after an event: MPI_Testany may return any
\* number of the messages that are there, ...
ReceiveNonBlocking(r, q) ==
    /\ pc[r] = "receive"
    /\ TakeMessage(r, q)
    /\ UNCHANGED <<pc, m_safeTime>>

\* A mutant: the loop waits for a message that may not come.
ReceiveUntilEmpty(r) == pc[r] = "receive" /\ UNCHANGED vars

\* ... and none ends the loop.
ReceiveNone(r) ==
    /\ pc[r] = "receive"
    /\ m_safeTime' = [m_safeTime EXCEPT ![r] = SafeTime(m_guaranteeTime[r])]
    /\ pc' = [pc EXCEPT ![r] = "run"]
    /\ UNCHANGED <<clock, m_guaranteeTime, transmitting, mpi, ops, overlapped>>

\* HandleArrivingMessagesBlocking, when the next event is not safe yet:
\* MPI_Waitany returns one message.
ReceiveBlocking(r, q) ==
    /\ pc[r] = "run"
    /\ ~ IsFinished(r)
    /\ PeekNext(m_events[r]) > m_safeTime[r]
    /\ TakeMessage(r, q)
    /\ m_safeTime' = [m_safeTime EXCEPT ![r] = SafeTime(m_guaranteeTime'[r])]
    /\ UNCHANGED pc
-----------------------------------------------------------------------------
Places(r) == {place \in [Neighbors[r] -> 0 .. Cardinality(Neighbors[r]) - 1] :
                  \A q, p \in Neighbors[r] : place[q] = place[p] => q = p}

Program(r) == \/ \E delay \in Delays : Schedule(r, delay)
              \/ \E q \in Neighbors[r], c \in Channel, txTime \in TxTimes :
                     Transmit(r, q, c, txTime)

ProcessOneEvent(r) ==
    \E next \in m_events[r] : \/ RunProgram(r, next)
                              \/ RunStop(r, next)
                              \/ RunNull(r, next)
                              \/ RunComplete(r, next)

Step(r) == \/ \E place \in Places(r) : Run(r, place)
           \/ ProcessOneEvent(r)
           \/ HandlerReturns(r)
           \/ ReceiveNone(r)
           \/ \E q \in Neighbors[r] : ReceiveNonBlocking(r, q) \/ ReceiveBlocking(r, q)
           \/ Finish(r)

Terminated == (\A r \in Rank : pc[r] = "done") /\ UNCHANGED vars

Next == \/ \E r \in Rank : Program(r) \/ Step(r)
        \/ Terminated

Spec == Init /\ [][Next]_vars

\* Handlers return and messages arrive: while some rank has a step to take, one
\* is taken, with no fairness between the ranks.
Fairness == WF_vars(\E r \in Rank : Step(r))
FairSpec == Spec /\ Fairness
-----------------------------------------------------------------------------
(* Properties.                                                             *)

\* Every variable keeps its type, and no rank passes its stop time.
TypeOK ==
    /\ pc \in [Rank -> Pcs]
    /\ m_events \in [Rank -> SUBSET Event]
    /\ m_uid \in [Rank -> Nat]
    /\ m_currentTs \in [Rank -> Nat]
    /\ \A r \in Rank : m_currentTs[r] <= StopTime[r]
    /\ m_stop \in [Rank -> BOOLEAN]
    /\ m_safeTime \in [Rank -> Nat]
    /\ \A r \in Rank : m_guaranteeTime[r] \in [Neighbors[r] -> Nat]
    /\ transmitting \in [Rank -> SUBSET Channel]
    /\ \A r \in Rank : mpi[r] \in [Neighbors[r] -> Seq(Message)]
    /\ ops \in 0 .. MaxOps
    /\ overlapped \in BOOLEAN

\* remote-channel-bundle.h says of m_guaranteeTime: "No PacketMessage will ever
\* arrive on any incoming channel in this bundle with a ReceiveTime less than
\* this."
BundleGuaranteeKept ==
    \A r \in Rank : \A q \in Neighbors[r] : \A i \in 1 .. Len(mpi[q][r]) :
        mpi[q][r][i].rxTime > 0 => mpi[q][r][i].rxTime >= m_guaranteeTime[r][q]

\* Of a bundle of several channels this is true while no rank transmits to a
\* neighbour on two of them at a time: the guarantee sent with a packet counts
\* on the device being BUSY, which another device does not heed.
GuaranteeKept == ~ overlapped => BundleGuaranteeKept

\* The assertions of ProcessOneEvent and CalculateSafeTime, under the same
\* premise: no event, local or received, waits in a rank's past, and the rank
\* never ran past its safe time.
NoEventInThePast ==
    ~ overlapped =>
        \A r \in Rank : /\ \A e \in m_events[r] : e.ts >= m_currentTs[r]
                        /\ m_safeTime[r] >= m_currentTs[r]

\* While a rank runs it is about to send every neighbour a null message, once,
\* and no later than the interval from now: what a neighbour that waits in
\* MPI_Waitany depends on, whatever was transmitted, cancelled and rescheduled.
\* (A clock that an overlap has set back leaves it due later.)
NullMessageDue ==
    ~ overlapped =>
        \A r \in Rank : pc[r] \notin {"start", "done"} => \A q \in Neighbors[r] :
            \E e \in m_events[r] :
                /\ \A f \in m_events[r] : IsNullEvent(f, q) <=> f = e
                /\ e.ts <= m_currentTs[r] + Interval[r][q]

\* The guarantee a rank has of a neighbour is never taken back, again until two
\* transmissions to one neighbour overlap.
GuaranteesGrow ==
    [][~ overlapped' => \A r \in Rank : \A q \in Neighbors[r] :
           m_guaranteeTime'[r][q] >= m_guaranteeTime[r][q]]_vars

\* Every rank reaches its stop time: no two ranks wait in MPI_Waitany for the
\* guarantees of each other, whatever has overlapped.
AllStop == <>(\A r \in Rank : pc[r] = "done")
=============================================================================

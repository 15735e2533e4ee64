------------------------- MODULE GrantedTimeWindow --------------------------
(***************************************************************************)
(* The conservative parallel simulator of ns-3: one process ("rank") per   *)
(* part of the simulated network, each a DistributedSimulatorImpl          *)
(* (mpi/model/distributed-simulator-impl.cc), which exchange packets of    *)
(* the links between them through GrantedTimeWindowMpiInterface.           *)
(*                                                                         *)
(* A rank runs its events up to m_grantedTime, then receives what has      *)
(* arrived, and meets the others in an MPI_Allgather that yields the next  *)
(* window: the earliest event of any rank plus the rank's own lookahead.   *)
(*                                                                         *)
(* MPI is modelled from its use: a message sent is in flight until the     *)
(* receiver's MPI_Testany returns it; when it arrives, and in which order  *)
(* messages arrive, is up to the network.  A collective returns to no rank *)
(* before every rank has entered it, so it is one joint step.              *)
(***************************************************************************)
EXTENDS EventKey, FiniteSets

CONSTANTS
    N,          \* the number of ranks, m_systemCount
    Link,       \* Link[r][q]: delay of the link between two ranks, or MaxTime
                \* when there is none; the shortest one when there are many
    Bound,      \* the argument of BoundLookAhead, or MaxTime
    MaxTime,    \* GetMaximumSimulationTime(), infinity for the protocol
    Delays,     \* delays of local events, and transmission times of packets
    MaxEvents   \* bound: how many events and messages are ever created

Ranks == 0 .. N - 1

\* A link is seen with the same delay from both ends.
ASSUME NAssumption         == N \in Nat \ {0}
ASSUME MaxTimeAssumption   == MaxTime \in Nat \ {0}
ASSUME LinkAssumption      ==
    /\ Link \in [Ranks -> [Ranks -> 0 .. MaxTime]]
    /\ \A r, q \in Ranks : Link[r][q] = Link[q][r]
ASSUME BoundAssumption     == Bound \in 1 .. MaxTime
ASSUME DelaysAssumption    == Delays \subseteq Nat
ASSUME MaxEventsAssumption == MaxEvents \in Nat

VARIABLES
    pc,             \* where each rank is
    m_events,       \* the scheduler of each rank
    m_uid, m_currentTs, m_stop, m_grantedTime, m_lookAhead,
    g_txCount, g_rxCount,   \* messages each rank sent and received
    inFlight,       \* messages sent and not received
    arrived         \* those of them that MPI has ready for the receiver

clock    == <<m_events, m_uid, m_currentTs, m_stop>>
window   == <<m_grantedTime, m_lookAhead>>
counters == <<g_txCount, g_rxCount>>
mpi      == <<inFlight, arrived>>
vars     == <<pc, clock, window, counters, mpi>>

Event   == [ts : Nat, uid : Nat]
Message == [src : Ranks, n : Nat, dst : Ranks, rxTime : Nat]
Pcs     == {"idle", "run", "event", "receive", "gather", "done"}

Least(S)    == CHOOSE x \in S : \A y \in S : x <= y
Greatest(S) == CHOOSE x \in S : \A y \in S : y <= x

Linked(r, q) == r # q /\ Link[r][q] < MaxTime

\* A mutant: the loop stops one rank short.
TotalButLast(count) == LET sum[i \in 0 .. N] == IF i = 0 THEN 0
                                                ELSE sum[i - 1] + count[i - 1]
                       IN  sum[N - 1]

\* The loop that adds up a counter of every rank.
Total(count) == LET sum[i \in 0 .. N] == IF i = 0 THEN 0
                                         ELSE sum[i - 1] + count[i - 1]
                IN  sum[N]

Init ==
    /\ pc = [r \in Ranks |-> "idle"]
    /\ m_events = [r \in Ranks |-> {}]
    /\ m_uid = [r \in Ranks |-> 0]
    /\ m_currentTs = [r \in Ranks |-> 0]
    /\ m_stop = [r \in Ranks |-> FALSE]
    /\ m_grantedTime = [r \in Ranks |-> 0]
    /\ m_lookAhead = [r \in Ranks |-> Bound]
    /\ g_txCount = [r \in Ranks |-> 0]
    /\ g_rxCount = [r \in Ranks |-> 0]
    /\ inFlight = {}
    /\ arrived = {}
-----------------------------------------------------------------------------
(* The API, called before Run or by the function of an event.              *)

\* The bound of the model on what is created.
MayCreate == Total(m_uid) + Cardinality(inFlight) < MaxEvents

Insert(r, ts) ==
    /\ m_events' = [m_events EXCEPT ![r] = @ \cup {[ts |-> ts, uid |-> m_uid[r]]}]
    /\ m_uid' = [m_uid EXCEPT ![r] = @ + 1]

Schedule(r, delay) ==
    /\ pc[r] \in {"idle", "event"}
    /\ MayCreate
    /\ Insert(r, m_currentTs[r] + delay)
    /\ UNCHANGED <<pc, m_currentTs, m_stop, window, counters, mpi>>

Stop(r) ==
    /\ pc[r] = "event"
    /\ m_stop' = [m_stop EXCEPT ![r] = TRUE]
    /\ UNCHANGED <<pc, m_events, m_uid, m_currentTs, window, counters, mpi>>

\* PointToPointRemoteChannel::TransmitStart: the packet reaches the other end
\* after its transmission and the delay of the link.
Transmit(r, q, txTime) ==
    /\ pc[r] = "event"
    /\ Linked(r, q)
    /\ MayCreate
    /\ inFlight' = inFlight \cup
           {[src |-> r, n |-> g_txCount[r], dst |-> q,
             rxTime |-> m_currentTs[r] + txTime + Link[r][q]]}
    /\ g_txCount' = [g_txCount EXCEPT ![r] = @ + 1]
    /\ UNCHANGED <<pc, clock, window, g_rxCount, arrived>>

HandlerReturns(r) ==
    /\ pc[r] = "event"
    /\ pc' = [pc EXCEPT ![r] = "run"]
    /\ UNCHANGED <<clock, window, counters, mpi>>
-----------------------------------------------------------------------------
(* Run.                                                                    *)

\* A mutant: the longest link.
LongestLink(r) == Greatest({Link[r][q] : q \in {p \in Ranks : Linked(r, p)}})

\* The shortest link to another rank, or the bound set by the user.
OwnLookAhead(r) ==
    Least({Bound} \cup {Link[r][q] : q \in {p \in Ranks : Linked(r, p)}})

\* CalculateLookAhead: a rank without a lookahead of its own takes the greatest
\* of the others', and keeps infinity when that is 0 or no rank has any.  A
\* rank alone needs none.  The MPI_Allreduce makes it a joint step of the ranks.
LongestLookAhead == Greatest({0} \cup ({OwnLookAhead(q) : q \in Ranks} \ {MaxTime}))

LookAhead(r) ==
    CASE N = 1 -> 0
      [] N > 1 /\ OwnLookAhead(r) # MaxTime -> OwnLookAhead(r)
      [] N > 1 /\ OwnLookAhead(r) = MaxTime ->
             IF LongestLookAhead = 0 THEN MaxTime ELSE LongestLookAhead

Run ==
    /\ \A r \in Ranks : pc[r] = "idle"
    /\ m_lookAhead' = [r \in Ranks |-> LookAhead(r)]
    /\ m_grantedTime' = [r \in Ranks |-> LookAhead(r)]
    /\ m_stop' = [r \in Ranks |-> FALSE]
    /\ pc' = [r \in Ranks |-> "run"]
    /\ UNCHANGED <<m_events, m_uid, m_currentTs, counters, mpi>>

IsLocalFinished(r) == m_events[r] = {} \/ m_stop[r]

\* Nothing left to do in this window: receive what has arrived.
WindowEnds(r) ==
    /\ pc[r] = "run"
    /\ IsLocalFinished(r) \/ \A e \in m_events[r] : e.ts > m_grantedTime[r]
    /\ pc' = [pc EXCEPT ![r] = "receive"]
    /\ UNCHANGED <<clock, window, counters, mpi>>

\* One turn of the loop of ReceiveMessages.  The event is scheduled after
\* rxTime - Now(), and nothing asserts that this is not negative.
ReceiveMessage(r, m) ==
    /\ pc[r] = "receive"
    /\ m.dst = r
    /\ inFlight' = inFlight \ {m}
    /\ arrived' = arrived \ {m}
    /\ g_rxCount' = [g_rxCount EXCEPT ![r] = @ + 1]
    /\ Insert(r, m_currentTs[r] + (m.rxTime - m_currentTs[r]))
    /\ UNCHANGED <<pc, m_currentTs, m_stop, window, g_txCount>>

\* MPI_Testany finds nothing more: on to the MPI_Allgather.
EnterAllgather(r) ==
    /\ pc[r] = "receive"
    /\ \A m \in arrived : m.dst # r
    /\ pc' = [pc EXCEPT ![r] = "gather"]
    /\ UNCHANGED <<clock, window, counters, mpi>>

\* A mutant: a rank that was stopped reports its next event too.
AllTimes == {MaxTime} \cup UNION {{e.ts : e \in m_events[r]} : r \in Ranks}

\* The times of the next events that the ranks report: infinity when finished.
ReportedTimes ==
    {MaxTime} \cup UNION {{e.ts : e \in m_events[r]} :
                              r \in {q \in Ranks : ~ IsLocalFinished(q)}}

\* Do the counters agree?  A mutant does not ask.
IgnoreTransients == TRUE
NoTransients     == Total(g_rxCount) = Total(g_txCount)

\* m_globalFinished, as every rank computes it from the same messages, and a
\* mutant that forgets the messages in flight.
AllLocalFinished == \A r \in Ranks : IsLocalFinished(r)
GlobalFinished   == NoTransients /\ \A r \in Ranks : IsLocalFinished(r)

GrantedAfter(smallestTime, r) ==
    IF m_lookAhead[r] = MaxTime THEN MaxTime ELSE smallestTime + m_lookAhead[r]

Allgather ==
    /\ \A r \in Ranks : pc[r] = "gather"
    /\ m_grantedTime' =
           IF NoTransients
           THEN [r \in Ranks |-> GrantedAfter(Least(ReportedTimes), r)]
           ELSE m_grantedTime
    /\ pc' = [r \in Ranks |-> IF GlobalFinished THEN "done" ELSE "run"]
    /\ UNCHANGED <<clock, m_lookAhead, counters, mpi>>

ProcessOneEvent(r) ==
    /\ pc[r] = "run"
    /\ ~ IsLocalFinished(r)
    /\ \E next \in m_events[r] :
           /\ IsEarliest(next, m_events[r])
           /\ next.ts <= m_grantedTime[r]
           /\ m_events' = [m_events EXCEPT ![r] = @ \ {next}]
           /\ m_currentTs' = [m_currentTs EXCEPT ![r] = next.ts]
    /\ pc' = [pc EXCEPT ![r] = "event"]
    /\ UNCHANGED <<m_uid, m_stop, window, counters, mpi>>

\* MPI: a message in flight reaches its receiver.
Arrive(m) ==
    /\ arrived' = arrived \cup {m}
    /\ UNCHANGED <<pc, clock, window, counters, inFlight>>
-----------------------------------------------------------------------------
Api(r) == \/ \E delay \in Delays : Schedule(r, delay)
          \/ \E q \in Ranks, txTime \in Delays : Transmit(r, q, txTime)
          \/ Stop(r)

Step(r) == \/ WindowEnds(r)
           \/ \E m \in arrived : ReceiveMessage(r, m)
           \/ EnterAllgather(r)
           \/ ProcessOneEvent(r)
           \/ HandlerReturns(r)

Arrivals == \E m \in inFlight \ arrived : Arrive(m)

Terminated == (\A r \in Ranks : pc[r] = "done") /\ UNCHANGED vars

Next == \/ \E r \in Ranks : Api(r) \/ Step(r)
        \/ Run
        \/ Allgather
        \/ Arrivals
        \/ Terminated

Spec == Init /\ [][Next]_vars

\* Every process runs, collectives complete, and MPI delivers every message.
Fairness == /\ \A r \in Ranks : WF_vars(Step(r))
            /\ WF_vars(Allgather)
            /\ WF_vars(Arrivals)

FairSpec == Spec /\ Fairness
-----------------------------------------------------------------------------
(* Properties.                                                             *)

\* Every variable keeps its type.
TypeOK ==
    /\ pc \in [Ranks -> Pcs]
    /\ m_events \in [Ranks -> SUBSET Event]
    /\ m_uid \in [Ranks -> Nat]
    /\ m_currentTs \in [Ranks -> Nat]
    /\ m_stop \in [Ranks -> BOOLEAN]
    /\ m_grantedTime \in [Ranks -> Nat]
    /\ m_lookAhead \in [Ranks -> Nat]
    /\ g_txCount \in [Ranks -> Nat]
    /\ g_rxCount \in [Ranks -> Nat]
    /\ inFlight \subseteq Message
    /\ arrived \subseteq inFlight

\* Causality: no packet of another rank reaches a rank in its past, although
\* ranks run ahead of each other within windows of different lengths.
Causality ==
    \A m \in inFlight : m.rxTime >= m_currentTs[m.dst]

\* The NS_ASSERT of ProcessOneEvent: no event waits in a rank's past.
NoEventInThePast ==
    \A r \in Ranks : \A e \in m_events[r] : e.ts >= m_currentTs[r]

\* "The totRx and totTx counts insure there are no transient messages": the
\* counters every rank reports agree exactly when no message is in flight.
CountsDetectTransients == NoTransients <=> inFlight = {}

\* No rank leaves Run while a message may still reach it, and all leave
\* together: a rank that left is done with every other.
FinishTogether ==
    \A r \in Ranks : pc[r] = "done" =>
        /\ inFlight = {}
        /\ \A q \in Ranks : pc[q] = "done" /\ IsLocalFinished(q)

\* A rank's window never shrinks while it runs.
WindowsGrow ==
    [][\A r \in Ranks : pc[r] = "gather" /\ pc'[r] = "run"
           => m_grantedTime'[r] >= m_grantedTime[r]]_vars

\* Once every rank is in Run, all of them return from it: nobody waits in the
\* MPI_Allgather for ever, and messages in flight delay the end but do not
\* prevent it.
RunTerminates ==
    (\A r \in Ranks : pc[r] # "idle") ~> (\A r \in Ranks : pc[r] = "done")
=============================================================================

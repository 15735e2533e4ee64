------------------------- MODULE NullMessageProofs --------------------------
(***************************************************************************)
(* NullMessage, for every topology and every number of channels between    *)
(* two ranks: until a rank transmits to a neighbour on two channels at a   *)
(* time (overlapped), every guarantee is kept and none taken back, and no  *)
(* event lies in the past of its rank.                                     *)
(*                                                                         *)
(* A rank promises its neighbour q the guarantee g (Promised) from the     *)
(* moment it computed g on: each message it will still send carries a      *)
(* guarantee and a receive time of at least g.  Either every event but the *)
(* next null message to q is late enough, or a transmitter towards q is    *)
(* BUSY, and the end of every transmission to q and the next null message  *)
(* are late enough: this is why the null message that is pending has to    *)
(* count in the guarantee of a packet, though it is cancelled a moment     *)
(* later, and why a second transmitter towards q must not start meanwhile. *)
(*                                                                         *)
(* And no ranks wait for each other in a circle: the last guarantee of a   *)
(* rank reaches as far as its next null message, so who waits for it has a *)
(* later event than it has.                                                *)
(***************************************************************************)
EXTENDS NullMessage, FiniteSetTheorems, SequenceTheorems, WellFoundedInduction, TLAPS

IsComplete(e, c) == e.kind = "complete" /\ e.arg = c

\* No event but the next null message to q lets p send q what g excludes.
EventsKeep(events, now, at, p, q, g) ==
    /\ \A e \in events : IsNullEvent(e, q) \/ g <= e.ts + GetDelay[p][q]
    /\ at = "handler" => g <= now + GetDelay[p][q]

\* As long as no second transmission begins, no event but the end of one and the
\* next null message lets p send q anything, and these keep g.
TransmitterKeeps(events, busy, p, q, g) ==
    /\ \E c \in Bundle(p, q) : c \in busy
    /\ \A c \in Bundle(p, q) : \A e \in events :
           IsNullEvent(e, q) \/ IsComplete(e, c) => g <= e.ts + GetDelay[p][q]

\* Rank p with these events, safe time, time, place and BUSY transmitters sends
\* q nothing that g excludes.
Keeps(events, safe, now, at, busy, p, q, g) ==
    /\ g <= safe + GetDelay[p][q]
    /\ EventsKeep(events, now, at, p, q, g) \/ TransmitterKeeps(events, busy, p, q, g)

\* What p has promised q, or could.
Promised(p, q) ==
    {g \in Nat : Keeps(m_events[p], m_safeTime[p], m_currentTs[p], pc[p],
                       transmitting[p], p, q, g)}

\* The messages on their way to a rank that has the guarantee g keep g and the
\* guarantees before them, and the sender has promised them all.
InOrder(promised, g, messages) ==
    /\ g \in promised
    /\ \A i \in 1 .. Len(messages) :
           /\ messages[i].guarantee \in promised
           /\ messages[i].guarantee >= g
           /\ messages[i].rxTime > 0 => messages[i].rxTime >= g
    /\ \A i, j \in 1 .. Len(messages) : i < j =>
           /\ messages[j].guarantee >= messages[i].guarantee
           /\ messages[j].rxTime > 0 => messages[j].rxTime >= messages[i].guarantee

\* Nothing is sent before Run.
ChannelOK(p, q) ==
    /\ InOrder(Promised(p, q), m_guaranteeTime[q][p], mpi[p][q])
    /\ pc[p] = "start" => mpi[p][q] = <<>> /\ m_guaranteeTime[q][p] = 0

\* There is one null message event for q, and it is due.
NullDue(events, now, r, q) ==
    \E e \in events : /\ \A f \in events : IsNullEvent(f, q) <=> f = e
                      /\ e.ts <= now + Interval[r][q]

RankOK(r) ==
    /\ m_currentTs[r] <= StopTime[r]
    /\ m_currentTs[r] <= m_safeTime[r]
    /\ \A q \in Neighbors[r] : m_safeTime[r] <= m_guaranteeTime[r][q]
    /\ \A e \in m_events[r] : /\ m_currentTs[r] <= e.ts
                              /\ e.kind = "null" => e.arg \in Neighbors[r]
    /\ ~ m_stop[r] => \E e \in m_events[r] : e.kind = "stop" /\ e.ts = StopTime[r]
    /\ pc[r] \notin {"start", "done"} =>
           \A q \in Neighbors[r] : NullDue(m_events[r], m_currentTs[r], r, q)
    /\ pc[r] = "start" => /\ m_currentTs[r] = 0
                          /\ m_safeTime[r] = 0
                          /\ ~ m_stop[r]
                          /\ \A e \in m_events[r] : e.kind # "null"

\* TypeOK, with the domains of the functions of functions.
Types ==
    /\ pc \in [Rank -> Pcs]
    /\ m_events \in [Rank -> SUBSET Event]
    /\ m_uid \in [Rank -> Nat]
    /\ m_currentTs \in [Rank -> Nat]
    /\ m_stop \in [Rank -> BOOLEAN]
    /\ m_safeTime \in [Rank -> Nat]
    /\ m_guaranteeTime = [r \in Rank |-> m_guaranteeTime[r]]
    /\ \A r \in Rank : m_guaranteeTime[r] \in [Neighbors[r] -> Nat]
    /\ transmitting \in [Rank -> SUBSET Channel]
    /\ mpi = [r \in Rank |-> mpi[r]]
    /\ \A r \in Rank : mpi[r] \in [Neighbors[r] -> Seq(Message)]
    /\ ops \in 0 .. MaxOps

Inv == /\ Types
       /\ \A r \in Rank : RankOK(r)
       /\ \A p \in Rank : \A q \in Neighbors[p] : ChannelOK(p, q)
-----------------------------------------------------------------------------
(* Constants.                                                              *)

LEMMA LeastProperties ==
    ASSUME NEW S, S \subseteq Nat, S # {}
    PROVE  /\ Least(S) \in S
           /\ \A y \in S : Least(S) <= y
<1>1. IsWellFoundedOn(OpToRel(<, Nat), Nat)
    BY NatLessThanWellFounded
<1>2. PICK x \in S : \A y \in S : ~ (<<y, x>> \in OpToRel(<, Nat))
    BY <1>1, WFMin
<1>3. ASSUME NEW y \in S PROVE x <= y
    <2>1. x \in Nat /\ y \in Nat /\ <<y, x>> \in Nat \X Nat
        OBVIOUS
    <2>2. y < x => <<y, x>> \in OpToRel(<, Nat)
        BY <2>1 DEF OpToRel
    <2>3. ~ (<<y, x>> \in OpToRel(<, Nat))
        BY <1>2, Zenon
    <2>4. ~ (y < x)
        BY <2>2, <2>3, Zenon
    <2> QED
        BY <2>1, <2>4
<1> QED
    BY <1>3 DEF Least

LEMMA NeighborsAreMutual ==
    ASSUME NEW p \in Rank, NEW q \in Neighbors[p]
    PROVE  /\ q \in Rank /\ q # p /\ p \in Neighbors[q]
           /\ Bundle(p, q) \subseteq Channel /\ Bundle(p, q) # {}
           /\ \A c \in Bundle(p, q) : Ends[c] = {p, q}
<1>1. q \in Rank /\ q # p /\ Bundle(p, q) # {}
    BY DEF Neighbors
<1>2. Bundle(p, q) = Bundle(q, p)
    BY DEF Bundle
<1>3. p \in Neighbors[q]
    BY <1>1, <1>2 DEF Neighbors
<1> QED
    BY <1>1, <1>3 DEF Bundle

LEMMA DelayProperties ==
    ASSUME NEW p \in Rank, NEW q \in Neighbors[p]
    PROVE  /\ GetDelay[p][q] \in Nat
           /\ \A c \in Bundle(p, q) : Delay[c] \in Nat /\ Delay[c] > 0
                                      /\ GetDelay[p][q] <= Delay[c]
<1> DEFINE D == {Delay[c] : c \in Bundle(p, q)}
<1>1. \A c \in Bundle(p, q) : c \in Channel
    BY NeighborsAreMutual
<1>2. \A c \in Bundle(p, q) : Delay[c] \in Nat /\ Delay[c] > 0
    BY <1>1, DelayAssumption
<1>3. D \subseteq Nat /\ D # {}
    BY <1>2, NeighborsAreMutual
<1>4. GetDelay[p][q] = Least(D)
    BY DEF GetDelay
<1>5. \A c \in Bundle(p, q) : Delay[c] \in D
    OBVIOUS
<1> HIDE DEF D
<1>6. Least(D) \in D /\ \A y \in D : Least(D) <= y
    BY <1>3, LeastProperties
<1> QED
    BY <1>2, <1>3, <1>4, <1>5, <1>6

LEMMA IntervalType ==
    ASSUME NEW p \in Rank, NEW q \in Neighbors[p]
    PROVE  Interval[p][q] \in Nat
<1>1. GetDelay[p][q] \in Nat /\ SchedulerTune \in Nat
    BY DelayProperties, TuneAssumption
<1>2. SchedulerTune * GetDelay[p][q] \in Nat
    BY <1>1
<1>3. \A x \in Nat : (x + 50) \div 100 \in Nat
    OBVIOUS
<1>4. (SchedulerTune * GetDelay[p][q] + 50) \div 100 \in Nat
    BY <1>2, <1>3, Zenon
<1> QED
    BY <1>4 DEF Interval

\* A channel of p leads to one neighbour.
LEMMA BundlesAreDisjoint ==
    ASSUME NEW p \in Rank, NEW q \in Neighbors[p], NEW s \in Neighbors[p], s # q,
           NEW c \in Bundle(p, q)
    PROVE  c \notin Bundle(p, s)
<1>1. q # p /\ s # p /\ Ends[c] = {p, q}
    BY NeighborsAreMutual
<1>2. c \in Bundle(p, s) => Ends[c] = {p, s}
    BY NeighborsAreMutual
<1>3. {p, q} # {p, s}
    BY <1>1
<1> QED
    BY <1>1, <1>2, <1>3

LEMMA PeekNextProperties ==
    ASSUME NEW events \in SUBSET Event, events # {}
    PROVE  /\ PeekNext(events) \in Nat
           /\ \A e \in events : PeekNext(events) <= e.ts
           /\ \E e \in events : PeekNext(events) = e.ts
<1> DEFINE T == {e.ts : e \in events}
<1>1. T \subseteq Nat /\ T # {}
    BY DEF Event
<1>2. \A e \in events : e.ts \in T
    OBVIOUS
<1>3. PeekNext(events) = Least(T)
    BY DEF PeekNext
<1>4. \A t \in T : \E e \in events : t = e.ts
    OBVIOUS
<1> HIDE DEF T
<1>5. Least(T) \in T /\ \A y \in T : Least(T) <= y
    BY <1>1, LeastProperties
<1> QED
    BY <1>1, <1>2, <1>3, <1>4, <1>5

\* A guarantee of p is the best that its events and its safe time allow.
LEMMA GuaranteeProperties ==
    ASSUME Types, NEW p \in Rank, NEW q \in Neighbors[p],
           NEW events \in SUBSET Event, events # {}
    PROVE  /\ Guarantee(p, q, events) \in Nat
           /\ Guarantee(p, q, events) <= m_safeTime[p] + GetDelay[p][q]
           /\ \A e \in events : Guarantee(p, q, events) <= e.ts + GetDelay[p][q]
           /\ \A g \in Nat : g <= m_safeTime[p] + GetDelay[p][q]
                             /\ (\A e \in events : g <= e.ts + GetDelay[p][q])
                             => g <= Guarantee(p, q, events)
<1> DEFINE d    == GetDelay[p][q]
           safe == m_safeTime[p]
           next == PeekNext(events)
<1>1. d \in Nat /\ safe \in Nat
    BY DelayProperties DEF Types
<1>2. /\ next \in Nat
      /\ \A e \in events : next <= e.ts
      /\ \E e \in events : next = e.ts
    BY PeekNextProperties
<1>3. \A e \in events : e.ts \in Nat
    BY DEF Event
<1>4. Guarantee(p, q, events) = (IF next <= safe THEN next ELSE safe) + d
    BY DEF Guarantee, Lesser
<1> HIDE DEF d, safe, next
<1>5. /\ Guarantee(p, q, events) \in Nat
      /\ Guarantee(p, q, events) <= safe + d
      /\ Guarantee(p, q, events) <= next + d
      /\ \A g \in Nat : g <= safe + d /\ g <= next + d => g <= Guarantee(p, q, events)
    BY <1>1, <1>2, <1>4
<1>6. \A e \in events : Guarantee(p, q, events) <= e.ts + d
    BY <1>1, <1>2, <1>3, <1>5
<1>7. \A g \in Nat : (\A e \in events : g <= e.ts + d) => g <= next + d
    BY <1>2
<1> QED
    BY <1>5, <1>6, <1>7 DEF d, safe
-----------------------------------------------------------------------------
(* What keeps a guarantee goes on to keep it.                              *)

\* A handler that returns, or a safe time that grows.
LEMMA KeepsWeaker ==
    ASSUME NEW events, NEW safe \in Nat, NEW safer \in Nat, safe <= safer,
           NEW now, NEW at, NEW after, after = "handler" => at = "handler",
           NEW busy, NEW p \in Rank, NEW q \in Neighbors[p], NEW g \in Nat,
           Keeps(events, safe, now, at, busy, p, q, g)
    PROVE  Keeps(events, safer, now, after, busy, p, q, g)
<1>1. g <= safer + GetDelay[p][q]
    <2>1. GetDelay[p][q] \in Nat /\ g <= safe + GetDelay[p][q]
        BY DelayProperties DEF Keeps
    <2> QED
        BY <2>1
<1>2. EventsKeep(events, now, at, p, q, g) => EventsKeep(events, now, after, p, q, g)
    BY Zenon DEF EventsKeep
<1> QED
    BY <1>1, <1>2, Zenon DEF Keeps

\* A function of the program is scheduled by a handler, or for the safe time or
\* later: a received packet.
LEMMA KeepsProgram ==
    ASSUME NEW events, NEW safe \in Nat, NEW now \in Nat, NEW at, NEW busy,
           NEW p \in Rank, NEW q \in Neighbors[p], NEW g \in Nat,
           Keeps(events, safe, now, at, busy, p, q, g),
           NEW e \in Event, e.kind = "program",
           (at = "handler" /\ now <= e.ts) \/ safe <= e.ts
    PROVE  Keeps(events \cup {e}, safe, now, at, busy, p, q, g)
<1>1. GetDelay[p][q] \in Nat /\ e.ts \in Nat
    BY DelayProperties DEF Event
<1>2. ASSUME EventsKeep(events, now, at, p, q, g)
      PROVE  EventsKeep(events \cup {e}, now, at, p, q, g)
    <2>1. g <= e.ts + GetDelay[p][q]
        <3>1. CASE at = "handler" /\ now <= e.ts
            <4>1. g <= now + GetDelay[p][q]
                BY <1>2, <3>1, Zenon DEF EventsKeep
            <4> QED
                BY <1>1, <3>1, <4>1
        <3>2. CASE safe <= e.ts
            <4>1. g <= safe + GetDelay[p][q]
                BY Zenon DEF Keeps
            <4> QED
                BY <1>1, <3>2, <4>1
        <3> QED
            BY <3>1, <3>2
    <2> QED
        BY <1>2, <2>1 DEF EventsKeep
<1>3. ASSUME TransmitterKeeps(events, busy, p, q, g)
      PROVE  TransmitterKeeps(events \cup {e}, busy, p, q, g)
    <2>1. \A c : ~ IsNullEvent(e, q) /\ ~ IsComplete(e, c)
        BY DEF IsNullEvent, IsComplete
    <2> QED
        BY <1>3, <2>1 DEF TransmitterKeeps
<1> QED
    BY <1>2, <1>3, Zenon DEF Keeps

\* The next event is taken: one that may send, ...
LEMMA KeepsHandler ==
    ASSUME NEW events \in SUBSET Event, NEW safe, NEW now, NEW at, NEW busy,
           NEW p \in Rank, NEW q \in Neighbors[p], NEW g \in Nat,
           Keeps(events, safe, now, at, busy, p, q, g),
           NEW next \in events, next.kind # "null"
    PROVE  Keeps(events \ {next}, safe, next.ts, "handler", busy, p, q, g)
<1>1. ASSUME EventsKeep(events, now, at, p, q, g)
      PROVE  EventsKeep(events \ {next}, next.ts, "handler", p, q, g)
    <2>1. ~ IsNullEvent(next, q)
        BY DEF IsNullEvent
    <2> QED
        BY <1>1, <2>1 DEF EventsKeep
<1>2. ASSUME TransmitterKeeps(events, busy, p, q, g)
      PROVE  TransmitterKeeps(events \ {next}, busy, p, q, g)
    BY <1>2 DEF TransmitterKeeps
<1> QED
    BY <1>1, <1>2, Zenon DEF Keeps

\* ... or the end of a transmission, ...
LEMMA KeepsComplete ==
    ASSUME NEW events \in SUBSET Event, NEW safe, NEW now, NEW at, NEW busy,
           NEW p \in Rank, NEW q \in Neighbors[p], NEW g \in Nat,
           Keeps(events, safe, now, at, busy, p, q, g),
           NEW next \in events, next.kind = "complete",
           \A e \in events : next.ts <= e.ts
    PROVE  Keeps(events \ {next}, safe, next.ts, "handler", busy \ {next.arg}, p, q, g)
<1>1. CASE EventsKeep(events, now, at, p, q, g)
    <2>1. ~ IsNullEvent(next, q)
        BY DEF IsNullEvent
    <2>2. EventsKeep(events \ {next}, next.ts, "handler", p, q, g)
        BY <1>1, <2>1 DEF EventsKeep
    <2> QED
        BY <2>2, Zenon DEF Keeps
<1>2. CASE TransmitterKeeps(events, busy, p, q, g) /\ next.arg \notin Bundle(p, q)
    <2>1. TransmitterKeeps(events \ {next}, busy \ {next.arg}, p, q, g)
        BY <1>2 DEF TransmitterKeeps
    <2> QED
        BY <2>1, Zenon DEF Keeps
<1>3. CASE TransmitterKeeps(events, busy, p, q, g) /\ next.arg \in Bundle(p, q)
    <2>1. IsComplete(next, next.arg)
        BY DEF IsComplete
    <2>2. g <= next.ts + GetDelay[p][q]
        BY <1>3, <2>1, Zenon DEF TransmitterKeeps
    <2>3. \A e \in events : next.ts \in Nat /\ e.ts \in Nat
        BY DEF Event
    <2>4. GetDelay[p][q] \in Nat
        BY DelayProperties
    <2>5. \A e \in events : g <= e.ts + GetDelay[p][q]
        BY <2>2, <2>3, <2>4
    <2>6. EventsKeep(events \ {next}, next.ts, "handler", p, q, g)
        BY <2>2, <2>5 DEF EventsKeep
    <2> QED
        BY <2>6, Zenon DEF Keeps
<1> QED
    BY <1>1, <1>2, <1>3, Zenon DEF Keeps

\* ... or a null message event, which is scheduled anew, for the neighbour itself
\* or another.
LEMMA KeepsNull ==
    ASSUME NEW events \in SUBSET Event, NEW safe, NEW now, NEW at, NEW busy,
           NEW p \in Rank, NEW q \in Neighbors[p], NEW g \in Nat,
           Keeps(events, safe, now, at, busy, p, q, g),
           NEW next \in events, next.kind = "null",
           \A e \in events : next.ts <= e.ts,
           \A e \in events : IsNullEvent(e, q) /\ IsNullEvent(next, q) => e = next,
           NEW new \in Event, new.kind = "null", new.arg = next.arg, next.ts <= new.ts
    PROVE  /\ Keeps((events \ {next}) \cup {new}, safe, next.ts, "receive", busy, p, q, g)
           /\ IsNullEvent(next, q) =>
                  \A e \in events \ {next} : g <= e.ts + GetDelay[p][q]
<1> DEFINE after == (events \ {next}) \cup {new}
           d     == GetDelay[p][q]
<1>1. /\ \A e \in events : e.ts \in Nat
      /\ new.ts \in Nat /\ next.ts \in Nat /\ d \in Nat
    BY DelayProperties DEF Event
<1>2. IsNullEvent(new, q) <=> IsNullEvent(next, q)
    BY DEF IsNullEvent
<1>3. \A c : ~ IsComplete(new, c)
    BY DEF IsComplete
<1>4. CASE EventsKeep(events, now, at, p, q, g)
    <2>1. \A e \in events : IsNullEvent(e, q) \/ g <= e.ts + d
        BY <1>4, Zenon DEF EventsKeep
    <2>2. IsNullEvent(new, q) \/ g <= new.ts + d
        <3>1. CASE IsNullEvent(next, q)
            BY <1>2, <3>1
        <3>2. CASE ~ IsNullEvent(next, q)
            <4>1. g <= next.ts + d
                BY <2>1, <3>2
            <4> QED
                BY <1>1, <4>1
        <3> QED
            BY <3>1, <3>2
    <2>3. \A e \in after : IsNullEvent(e, q) \/ g <= e.ts + d
        BY <2>1, <2>2
    <2>4. EventsKeep(after, next.ts, "receive", p, q, g)
        <3> HIDE DEF after
        <3> QED
            BY <2>3 DEF EventsKeep
    <2>5. IsNullEvent(next, q) => \A e \in events \ {next} : g <= e.ts + d
        BY <2>1
    <2> QED
        BY <2>4, <2>5, Zenon DEF Keeps
<1>5. CASE TransmitterKeeps(events, busy, p, q, g) /\ ~ IsNullEvent(next, q)
    <2>1. \A c \in Bundle(p, q) : \A e \in events :
              IsNullEvent(e, q) \/ IsComplete(e, c) => g <= e.ts + d
        BY <1>5, Zenon DEF TransmitterKeeps
    <2>2. \A c \in Bundle(p, q) : \A e \in after :
              IsNullEvent(e, q) \/ IsComplete(e, c) => g <= e.ts + d
        BY <1>2, <1>3, <1>5, <2>1
    <2>3. TransmitterKeeps(after, busy, p, q, g)
        BY <1>5, <2>2, Zenon DEF TransmitterKeeps
    <2> QED
        BY <1>5, <2>3, Zenon DEF Keeps
<1>6. CASE TransmitterKeeps(events, busy, p, q, g) /\ IsNullEvent(next, q)
    <2>1. g <= next.ts + d
        <3>1. PICK c \in Bundle(p, q) : TRUE
            BY NeighborsAreMutual
        <3> QED
            BY <1>6, <3>1, Zenon DEF TransmitterKeeps
    <2>2. \A e \in events : g <= e.ts + d
        BY <1>1, <2>1
    <2>3. g <= new.ts + d
        BY <1>1, <2>1
    <2>4. EventsKeep(after, next.ts, "receive", p, q, g)
        BY <2>2, <2>3 DEF EventsKeep
    <2> QED
        BY <2>2, <2>4, Zenon DEF Keeps
<1> QED
    BY <1>4, <1>5, <1>6, Zenon DEF Keeps

\* The null message that was sent promises what it says.
LEMMA KeepsOwnNull ==
    ASSUME NEW events \in SUBSET Event, NEW safe, NEW now, NEW busy,
           NEW p \in Rank, NEW q \in Neighbors[p], NEW g \in Nat,
           g <= safe + GetDelay[p][q],
           \A e \in events : g <= e.ts + GetDelay[p][q],
           NEW new, IsNullEvent(new, q)
    PROVE  Keeps(events \cup {new}, safe, now, "receive", busy, p, q, g)
<1>1. EventsKeep(events \cup {new}, now, "receive", p, q, g)
    BY DEF EventsKeep
<1> QED
    BY <1>1, Zenon DEF Keeps
-----------------------------------------------------------------------------
(* TransmitStart towards s, on channel c.                                  *)

\* The event list after it.
AfterTransmit(events, s, end, new) == CancelNull(events \cup {end}, s) \cup {new}

LEMMA AfterTransmitProperties ==
    ASSUME NEW events \in SUBSET Event, NEW s, NEW c,
           NEW end \in Event, IsComplete(end, c),
           NEW new \in Event, IsNullEvent(new, s)
    PROVE  LET after == AfterTransmit(events, s, end, new) IN
           /\ after \in SUBSET Event
           /\ \A e \in after :
                  \/ e \in events /\ ~ IsNullEvent(e, s)
                  \/ e = end
                  \/ e = new
                  \/ e.kind = "cancelled" /\ \E f \in events : e.ts = f.ts
                                             /\ IsNullEvent(f, s)
           /\ \A e \in events : IsNullEvent(e, s) \/ e \in after
           /\ new \in after
<1> DEFINE pending == events \cup {end}
           x(e) == [e EXCEPT !.kind = "cancelled"]
<1>1. \A e \in events : x(e) \in Event /\ x(e).kind = "cancelled" /\ x(e).ts = e.ts
    BY DEF Event
<1>2. ~ IsNullEvent(end, s)
    BY DEF IsNullEvent, IsComplete
<1>3. AfterTransmit(events, s, end, new) =
          {e \in pending : ~ IsNullEvent(e, s)} \cup
          {x(e) : e \in {f \in pending : IsNullEvent(f, s)}} \cup {new}
    BY DEF AfterTransmit, CancelNull
<1>4. {f \in pending : IsNullEvent(f, s)} = {f \in events : IsNullEvent(f, s)}
    BY <1>2
<1> HIDE DEF x
<1> QED
    BY <1>1, <1>2, <1>3, <1>4

\* What was promised to the other neighbours ...
LEMMA KeepsTransmitOther ==
    ASSUME NEW events \in SUBSET Event, NEW safe, NEW now \in Nat, NEW busy,
           NEW p \in Rank, NEW q \in Neighbors[p], NEW g \in Nat,
           Keeps(events, safe, now, "handler", busy, p, q, g),
           NEW s \in Neighbors[p], s # q, NEW c \in Bundle(p, s),
           NEW end \in Event, IsComplete(end, c), now <= end.ts,
           NEW new \in Event, IsNullEvent(new, s), now <= new.ts
    PROVE  Keeps(AfterTransmit(events, s, end, new), safe, now, "handler",
                 busy \cup {c}, p, q, g)
<1> DEFINE after == AfterTransmit(events, s, end, new)
           d     == GetDelay[p][q]
<1>1. /\ \A e \in events : e.ts \in Nat
      /\ end.ts \in Nat /\ new.ts \in Nat /\ d \in Nat
    BY DelayProperties DEF Event
<1>2. \A e \in after :
          \/ e \in events /\ ~ IsNullEvent(e, s)
          \/ e = end
          \/ e = new
          \/ e.kind = "cancelled" /\ \E f \in events : e.ts = f.ts /\ IsNullEvent(f, s)
    BY AfterTransmitProperties
<1>3. ~ IsNullEvent(new, q) /\ ~ IsNullEvent(end, q)
      /\ \A e \in events : IsNullEvent(e, s) => ~ IsNullEvent(e, q)
    BY DEF IsNullEvent, IsComplete
<1> HIDE DEF after
<1>4. CASE EventsKeep(events, now, "handler", p, q, g)
    <2>1. g <= now + d /\ \A e \in events : IsNullEvent(e, q) \/ g <= e.ts + d
        BY <1>4, Zenon DEF EventsKeep
    <2>2. g <= end.ts + d /\ g <= new.ts + d
        BY <1>1, <2>1
    <2>3. \A e \in after : IsNullEvent(e, q) \/ g <= e.ts + d
        BY <1>2, <1>3, <2>1, <2>2
    <2>4. EventsKeep(after, now, "handler", p, q, g)
        BY <2>1, <2>3, Zenon DEF EventsKeep
    <2> QED
        BY <2>4, Zenon DEF Keeps, after
<1>5. CASE TransmitterKeeps(events, busy, p, q, g)
    <2>1. ASSUME NEW c2 \in Bundle(p, q)
          PROVE  \A e \in after : IsNullEvent(e, q) \/ IsComplete(e, c2) => g <= e.ts + d
        <3>1. \A e \in events : IsNullEvent(e, q) \/ IsComplete(e, c2) => g <= e.ts + d
            BY <1>5, Zenon DEF TransmitterKeeps
        <3>2. c2 # c
            BY BundlesAreDisjoint
        <3>3. ~ IsComplete(end, c2) /\ ~ IsComplete(new, c2)
            BY <3>2 DEF IsComplete, IsNullEvent
        <3>4. \A e : e.kind = "cancelled" => ~ IsNullEvent(e, q) /\ ~ IsComplete(e, c2)
            BY DEF IsNullEvent, IsComplete
        <3> QED
            BY <1>2, <1>3, <3>1, <3>3, <3>4
    <2>2. \E c2 \in Bundle(p, q) : c2 \in busy \cup {c}
        BY <1>5 DEF TransmitterKeeps
    <2>3. TransmitterKeeps(after, busy \cup {c}, p, q, g)
        BY <2>1, <2>2, Zenon DEF TransmitterKeeps
    <2> QED
        BY <2>3, Zenon DEF Keeps, after
<1> QED
    BY <1>4, <1>5, Zenon DEF Keeps

\* ... and to s itself, which the handler keeps when no transmitter to s is BUSY.
LEMMA KeepsTransmitSame ==
    ASSUME NEW events \in SUBSET Event, NEW safe, NEW now \in Nat, NEW busy,
           NEW p \in Rank, NEW s \in Neighbors[p], NEW g \in Nat,
           Keeps(events, safe, now, "handler", busy, p, s, g),
           NEW c \in Bundle(p, s), \A b \in Bundle(p, s) : b \notin busy,
           \A e \in events : now <= e.ts,
           NEW end \in Event, IsComplete(end, c), now <= end.ts,
           NEW new \in Event, IsNullEvent(new, s), now <= new.ts
    PROVE  /\ Keeps(AfterTransmit(events, s, end, new), safe, now, "handler",
                    busy \cup {c}, p, s, g)
           /\ g <= now + GetDelay[p][s]
           /\ \A e \in events \cup {end} : g <= e.ts + GetDelay[p][s]
<1> DEFINE after == AfterTransmit(events, s, end, new)
           d     == GetDelay[p][s]
<1>1. /\ \A e \in events : e.ts \in Nat
      /\ end.ts \in Nat /\ new.ts \in Nat /\ d \in Nat
    BY DelayProperties DEF Event
<1>2. ~ TransmitterKeeps(events, busy, p, s, g)
    BY Zenon DEF TransmitterKeeps
<1>3. g <= now + d
    BY <1>2, Zenon DEF Keeps, EventsKeep
<1>4. \A e \in events \cup {end} : g <= e.ts + d
    BY <1>1, <1>3
<1>5. g <= new.ts + d
    BY <1>1, <1>3
<1>6. \A e \in after :
          \/ e \in events /\ ~ IsNullEvent(e, s)
          \/ e = end
          \/ e = new
          \/ e.kind = "cancelled" /\ \E f \in events : e.ts = f.ts /\ IsNullEvent(f, s)
    BY AfterTransmitProperties
<1> HIDE DEF after
<1>7. \A e \in after : g <= e.ts + d
    BY <1>4, <1>5, <1>6
<1>8. EventsKeep(after, now, "handler", p, s, g)
    BY <1>3, <1>7, Zenon DEF EventsKeep
<1> QED
    BY <1>3, <1>4, <1>8, Zenon DEF Keeps, after

\* The guarantee of the packet counts the end of its transmission and the null
\* message event that was pending, which was due no later than the new one.
LEMMA KeepsOwnPacket ==
    ASSUME NEW events \in SUBSET Event, NEW safe, NEW now, NEW busy,
           NEW p \in Rank, NEW s \in Neighbors[p], NEW g \in Nat,
           g <= safe + GetDelay[p][s],
           NEW c \in Bundle(p, s),
           NEW end \in Event, IsComplete(end, c),
           \A e \in events \cup {end} : g <= e.ts + GetDelay[p][s],
           NEW new \in Event, IsNullEvent(new, s),
           \E f \in events : IsNullEvent(f, s) /\ f.ts <= new.ts
    PROVE  Keeps(AfterTransmit(events, s, end, new), safe, now, "handler",
                 busy \cup {c}, p, s, g)
<1> DEFINE after == AfterTransmit(events, s, end, new)
           d     == GetDelay[p][s]
<1>1. /\ \A e \in events : e.ts \in Nat
      /\ end.ts \in Nat /\ new.ts \in Nat /\ d \in Nat
    BY DelayProperties DEF Event
<1>2. g <= new.ts + d
    <2>1. PICK f \in events : f.ts <= new.ts
        OBVIOUS
    <2>2. g <= f.ts + d /\ f.ts \in Nat
        BY <1>1
    <2> QED
        BY <1>1, <2>1, <2>2
<1>3. \A e \in after :
          \/ e \in events /\ ~ IsNullEvent(e, s)
          \/ e = end
          \/ e = new
          \/ e.kind = "cancelled" /\ \E f \in events : e.ts = f.ts /\ IsNullEvent(f, s)
    BY AfterTransmitProperties
<1> HIDE DEF after
<1>4. \A e \in after : g <= e.ts + d
    BY <1>2, <1>3
<1>5. \E c2 \in Bundle(p, s) : c2 \in busy \cup {c}
    OBVIOUS
<1>6. TransmitterKeeps(after, busy \cup {c}, p, s, g)
    BY <1>4, <1>5, Zenon DEF TransmitterKeeps
<1> QED
    BY <1>6, Zenon DEF Keeps, after
-----------------------------------------------------------------------------
(* The messages on their way.                                              *)

LEMMA InOrderMono ==
    ASSUME NEW P, NEW P2, P \subseteq P2, NEW g, NEW messages, InOrder(P, g, messages)
    PROVE  InOrder(P2, g, messages)
BY DEF InOrder

\* A message is sent: it promises what it says, and keeps what was promised.
LEMMA InOrderAppend ==
    ASSUME NEW P, NEW P2, P \subseteq P2, NEW g, NEW messages \in Seq(Message),
           InOrder(P, g, messages), NEW m \in Message, m.guarantee \in P2,
           \A x \in P : m.guarantee >= x /\ (m.rxTime > 0 => m.rxTime >= x)
    PROVE  InOrder(P2, g, Append(messages, m))
<1> DEFINE n    == Len(messages)
           more == Append(messages, m)
<1>1. /\ n \in Nat /\ Len(more) = n + 1
      /\ more[n + 1] = m
      /\ \A i \in 1 .. n : more[i] = messages[i]
    BY AppendProperties, LenProperties
<1>2. \A i \in 1 .. Len(more) : i = n + 1 \/ i \in 1 .. n
    BY <1>1
<1> HIDE DEF n, more
<1>3. /\ g \in P
      /\ \A i \in 1 .. n :
             /\ messages[i].guarantee \in P
             /\ messages[i].guarantee >= g
             /\ messages[i].rxTime > 0 => messages[i].rxTime >= g
      /\ \A i, j \in 1 .. n : i < j =>
             /\ messages[j].guarantee >= messages[i].guarantee
             /\ messages[j].rxTime > 0 => messages[j].rxTime >= messages[i].guarantee
    BY DEF InOrder, n
<1>4. ASSUME NEW i \in 1 .. Len(more)
      PROVE  /\ more[i].guarantee \in P2
             /\ more[i].guarantee >= g
             /\ more[i].rxTime > 0 => more[i].rxTime >= g
    <2>1. CASE i = n + 1
        BY <1>1, <1>3, <2>1
    <2>2. CASE i \in 1 .. n
        BY <1>1, <1>3, <2>2
    <2> QED
        BY <1>2, <2>1, <2>2
<1>5. ASSUME NEW i \in 1 .. Len(more), NEW j \in 1 .. Len(more), i < j
      PROVE  /\ more[j].guarantee >= more[i].guarantee
             /\ more[j].rxTime > 0 => more[j].rxTime >= more[i].guarantee
    <2>1. i \in 1 .. n
        BY <1>1, <1>5
    <2>2. more[i] = messages[i] /\ messages[i].guarantee \in P
        BY <1>1, <1>3, <2>1
    <2>3. CASE j = n + 1
        BY <1>1, <2>2, <2>3
    <2>4. CASE j \in 1 .. n
        <3>1. more[j] = messages[j]
            BY <1>1, <2>4
        <3> QED
            BY <1>3, <1>5, <2>1, <2>2, <2>4, <3>1
    <2> QED
        BY <1>2, <2>3, <2>4
<1>6. g \in P2
    BY <1>3
<1> QED
    BY <1>4, <1>5, <1>6, Zenon DEF InOrder, more

\* A message is received.
LEMMA InOrderTail ==
    ASSUME NEW P, NEW g, NEW messages \in Seq(Message), messages # <<>>,
           InOrder(P, g, messages)
    PROVE  /\ InOrder(P, Head(messages).guarantee, Tail(messages))
           /\ Head(messages) \in Message
           /\ Head(messages).guarantee >= g
           /\ Head(messages).rxTime > 0 => Head(messages).rxTime >= g
<1> DEFINE n    == Len(messages)
           rest == Tail(messages)
<1>1. /\ n \in Nat /\ n >= 1 /\ Len(rest) = n - 1
      /\ \A i \in 1 .. n - 1 : rest[i] = messages[i + 1]
      /\ Head(messages) = messages[1]
      /\ \A i \in 1 .. n : messages[i] \in Message
    BY HeadTailProperties, LenProperties, EmptySeq
<1> HIDE DEF n, rest
<1>2. /\ \A i \in 1 .. n :
             /\ messages[i].guarantee \in P
             /\ messages[i].guarantee >= g
             /\ messages[i].rxTime > 0 => messages[i].rxTime >= g
      /\ \A i, j \in 1 .. n : i < j =>
             /\ messages[j].guarantee >= messages[i].guarantee
             /\ messages[j].rxTime > 0 => messages[j].rxTime >= messages[i].guarantee
    BY DEF InOrder, n
<1>3. 1 \in 1 .. n
    BY <1>1
<1>4. ASSUME NEW i \in 1 .. Len(rest)
      PROVE  /\ rest[i].guarantee \in P
             /\ rest[i].guarantee >= messages[1].guarantee
             /\ rest[i].rxTime > 0 => rest[i].rxTime >= messages[1].guarantee
    <2>1. i + 1 \in 1 .. n /\ 1 < i + 1 /\ rest[i] = messages[i + 1]
        BY <1>1
    <2> QED
        BY <1>2, <1>3, <2>1
<1>5. ASSUME NEW i \in 1 .. Len(rest), NEW j \in 1 .. Len(rest), i < j
      PROVE  /\ rest[j].guarantee >= rest[i].guarantee
             /\ rest[j].rxTime > 0 => rest[j].rxTime >= rest[i].guarantee
    <2>1. /\ i + 1 \in 1 .. n /\ j + 1 \in 1 .. n /\ i + 1 < j + 1
          /\ rest[i] = messages[i + 1] /\ rest[j] = messages[j + 1]
        BY <1>1, <1>5
    <2> QED
        BY <1>2, <2>1
<1>6. InOrder(P, messages[1].guarantee, rest)
    BY <1>2, <1>3, <1>4, <1>5, Zenon DEF InOrder
<1> QED
    BY <1>1, <1>2, <1>3, <1>6 DEF rest
-----------------------------------------------------------------------------
(* What a step of one rank leaves alone.                                   *)

\* A step of another rank than p.
Rests(p) ==
    /\ pc'[p] = pc[p]
    /\ m_events'[p] = m_events[p]
    /\ m_currentTs'[p] = m_currentTs[p]
    /\ m_stop'[p] = m_stop[p]
    /\ m_safeTime'[p] = m_safeTime[p]
    /\ transmitting'[p] = transmitting[p]
    /\ m_guaranteeTime'[p] = m_guaranteeTime[p]

LEMMA Resting ==
    ASSUME NEW p \in Rank, RankOK(p), Rests(p)
    PROVE  /\ RankOK(p)'
           /\ \A q : Promised(p, q)' = Promised(p, q)
<1>1. RankOK(p)'
    BY DEF RankOK, Rests
<1>2. \A q : Promised(p, q)' = Promised(p, q)
    BY DEF Promised, Rests
<1> QED
    BY <1>1, <1>2

\* A rank sends each neighbour one message, or none.
LEMMA SendStep ==
    ASSUME Inv, Types', NEW r \in Rank, \A p \in Rank \ {r} : Rests(p),
           RankOK(r)',
           m_guaranteeTime' = m_guaranteeTime,
           \A p \in Rank \ {r} : mpi'[p] = mpi[p],
           pc'[r] = "start" => pc[r] = "start" /\ mpi'[r] = mpi[r],
           \A q \in Neighbors[r] :
               /\ Promised(r, q) \subseteq Promised(r, q)'
               /\ \/ mpi'[r][q] = mpi[r][q]
                  \/ \E m \in Message :
                         /\ mpi'[r][q] = Append(mpi[r][q], m)
                         /\ m.guarantee \in Promised(r, q)'
                         /\ \A g \in Promised(r, q) :
                                /\ m.guarantee >= g
                                /\ m.rxTime > 0 => m.rxTime >= g
    PROVE  Inv'
<1>1. \A p \in Rank \ {r} : RankOK(p)' /\ \A q : Promised(p, q)' = Promised(p, q)
    BY Resting DEF Inv
<1>2. \A p \in Rank : RankOK(p)'
    BY <1>1
<1>3. ASSUME NEW p \in Rank, NEW q \in Neighbors[p]
      PROVE  ChannelOK(p, q)'
    <2>1. InOrder(Promised(p, q), m_guaranteeTime[q][p], mpi[p][q])
        BY Zenon DEF Inv, ChannelOK
    <2>2. pc[p] = "start" => mpi[p][q] = <<>> /\ m_guaranteeTime[q][p] = 0
        BY Zenon DEF Inv, ChannelOK
    <2>3. mpi[p][q] \in Seq(Message)
        <3>1. mpi[p] \in [Neighbors[p] -> Seq(Message)]
            BY Zenon DEF Inv, Types
        <3> QED
            BY <3>1
    <2>4. CASE p # r
        <3>1. Promised(p, q)' = Promised(p, q) /\ mpi'[p] = mpi[p] /\ pc'[p] = pc[p]
            BY <1>1, <2>4 DEF Rests
        <3> QED
            BY <2>1, <2>2, <3>1 DEF ChannelOK
    <2>5. CASE p = r
        <3>1. InOrder(Promised(r, q)', m_guaranteeTime[q][r], mpi'[r][q])
            <4>1. CASE mpi'[r][q] = mpi[r][q]
                <5>1. Promised(r, q) \subseteq Promised(r, q)'
                    BY <2>5
                <5> QED
                    BY <2>1, <2>5, <4>1, <5>1, InOrderMono
            <4>2. CASE mpi'[r][q] # mpi[r][q]
                <5>1. Promised(r, q) \subseteq Promised(r, q)'
                    BY <2>5
                <5>2. PICK m \in Message :
                         /\ mpi'[r][q] = Append(mpi[r][q], m)
                         /\ m.guarantee \in Promised(r, q)'
                         /\ \A g \in Promised(r, q) :
                                /\ m.guarantee >= g
                                /\ m.rxTime > 0 => m.rxTime >= g
                    BY <2>5, <4>2, Zenon
                <5>3. InOrder(Promised(r, q)', m_guaranteeTime[q][r], Append(mpi[r][q], m))
                    BY <2>1, <2>3, <2>5, <5>1, <5>2, InOrderAppend
                <5> QED
                    BY <5>2, <5>3
            <4> QED
                BY <4>1, <4>2
        <3> QED
            BY <2>2, <2>5, <3>1 DEF ChannelOK
    <2> QED
        BY <2>4, <2>5
<1> QED
    BY <1>2, <1>3 DEF Inv

\* A rank receives one message.
LEMMA ReceiveStep ==
    ASSUME Inv, Types', NEW r \in Rank, \A p \in Rank \ {r} : Rests(p),
           RankOK(r)',
           NEW s \in Neighbors[r], mpi[s][r] # <<>>,
           mpi' = [mpi EXCEPT ![s][r] = Tail(@)],
           m_guaranteeTime' = [m_guaranteeTime EXCEPT ![r][s] = Head(mpi[s][r]).guarantee],
           pc'[r] # "start",
           \A q \in Neighbors[r] : Promised(r, q) \subseteq Promised(r, q)'
    PROVE  Inv'
<1>1. \A p \in Rank \ {r} : RankOK(p)' /\ \A q : Promised(p, q)' = Promised(p, q)
    BY Resting DEF Inv
<1>2. \A p \in Rank : RankOK(p)'
    BY <1>1
<1>3. s \in Rank /\ s # r /\ r \in Neighbors[s]
    BY NeighborsAreMutual
<1>4. /\ \A p \in Rank \ {s} : mpi'[p] = mpi[p]
      /\ mpi'[s] = [mpi[s] EXCEPT ![r] = Tail(mpi[s][r])]
    <2>1. mpi = [p \in Rank |-> mpi[p]]
        BY Zenon DEF Inv, Types
    <2> QED
        BY <1>3, <2>1
<1>5. /\ \A p \in Rank \ {r} : m_guaranteeTime'[p] = m_guaranteeTime[p]
      /\ m_guaranteeTime'[r] =
             [m_guaranteeTime[r] EXCEPT ![s] = Head(mpi[s][r]).guarantee]
    <2>1. m_guaranteeTime = [p \in Rank |-> m_guaranteeTime[p]]
        BY Zenon DEF Inv, Types
    <2> QED
        BY <1>3, <2>1
<1>6. /\ \A p \in Rank : mpi[p] \in [Neighbors[p] -> Seq(Message)]
      /\ \A p \in Rank : m_guaranteeTime[p] \in [Neighbors[p] -> Nat]
    BY Zenon DEF Inv, Types
<1>7. ASSUME NEW p \in Rank, NEW q \in Neighbors[p]
      PROVE  ChannelOK(p, q)'
    <2>1. InOrder(Promised(p, q), m_guaranteeTime[q][p], mpi[p][q])
        BY Zenon DEF Inv, ChannelOK
    <2>2. pc[p] = "start" => mpi[p][q] = <<>> /\ m_guaranteeTime[q][p] = 0
        BY Zenon DEF Inv, ChannelOK
    <2>3. mpi[p][q] \in Seq(Message) /\ q \in Rank /\ q # p /\ p \in Neighbors[q]
        <3>1. mpi[p][q] \in Seq(Message)
            BY <1>6
        <3> QED
            BY <3>1, NeighborsAreMutual, Zenon
    <2>4. Promised(p, q) \subseteq Promised(p, q)'
        BY <1>1
    <2>5. pc'[p] = "start" => pc[p] = "start"
        BY DEF Rests
    <2>6. CASE p = s /\ q = r
        <3>1. mpi'[s][r] = Tail(mpi[s][r])
            BY <1>3, <1>4, <1>6
        <3>2. m_guaranteeTime'[r][s] = Head(mpi[s][r]).guarantee
            BY <1>5, <1>6
        <3>3. InOrder(Promised(s, r), Head(mpi[s][r]).guarantee, Tail(mpi[s][r]))
            BY <2>1, <2>3, <2>6, InOrderTail
        <3>4. InOrder(Promised(s, r)', m_guaranteeTime'[r][s], mpi'[s][r])
            BY <2>4, <2>6, <3>1, <3>2, <3>3, InOrderMono
        <3>5. pc'[s] # "start"
            BY <2>2, <2>5, <2>6
        <3> QED
            BY <2>6, <3>4, <3>5 DEF ChannelOK
    <2>7. CASE ~ (p = s /\ q = r)
        <3>1. mpi'[p][q] = mpi[p][q]
            BY <1>4, <1>6, <2>7
        <3>2. m_guaranteeTime'[q][p] = m_guaranteeTime[q][p]
            BY <1>5, <1>6, <2>3, <2>7
        <3>3. InOrder(Promised(p, q)', m_guaranteeTime'[q][p], mpi'[p][q])
            BY <2>1, <2>4, <3>1, <3>2, InOrderMono
        <3> QED
            BY <2>2, <2>5, <3>1, <3>2, <3>3 DEF ChannelOK
    <2> QED
        BY <2>6, <2>7
<1> QED
    BY <1>2, <1>7 DEF Inv

LEMMA LocalStep ==
    ASSUME Inv, Types', NEW r \in Rank, \A p \in Rank \ {r} : Rests(p),
           RankOK(r)', m_guaranteeTime' = m_guaranteeTime, mpi' = mpi,
           pc'[r] = "start" => pc[r] = "start",
           \A q \in Neighbors[r] : Promised(r, q) \subseteq Promised(r, q)'
    PROVE  Inv'
BY SendStep

\* What Inv says of one rank.
LEMMA AtRank ==
    ASSUME Inv, NEW r \in Rank
    PROVE  /\ pc[r] \in Pcs
           /\ m_events[r] \in SUBSET Event
           /\ m_uid[r] \in Nat
           /\ m_currentTs[r] \in Nat /\ m_safeTime[r] \in Nat /\ StopTime[r] \in Nat
           /\ m_stop[r] \in BOOLEAN
           /\ transmitting[r] \in SUBSET Channel
           /\ \A q \in Neighbors[r] : m_guaranteeTime[r][q] \in Nat
           /\ \A e \in m_events[r] : e.ts \in Nat
           /\ RankOK(r)
<1>1. m_events[r] \in SUBSET Event
    BY DEF Inv, Types
<1>2. \A e \in m_events[r] : e.ts \in Nat
    BY <1>1 DEF Event
<1>3. StopTime[r] \in Nat
    BY StopTimeAssumption
<1>4. m_stop[r] \in BOOLEAN
    BY Zenon DEF Inv, Types
<1>5. pc[r] \in Pcs /\ m_uid[r] \in Nat /\ m_currentTs[r] \in Nat /\ m_safeTime[r] \in Nat
      /\ transmitting[r] \in SUBSET Channel
      /\ \A q \in Neighbors[r] : m_guaranteeTime[r][q] \in Nat
    BY DEF Inv, Types
<1>6. RankOK(r)
    BY Zenon DEF Inv
<1> QED
    BY <1>1, <1>2, <1>3, <1>4, <1>5, <1>6, Zenon

LEMMA PromisedMeans ==
    ASSUME NEW p, NEW q, NEW g \in Promised(p, q)
    PROVE  g \in Nat /\ Keeps(m_events[p], m_safeTime[p], m_currentTs[p], pc[p],
                              transmitting[p], p, q, g)
BY DEF Promised

LEMMA PromisedMeansAfter ==
    ASSUME NEW p, NEW q, NEW g \in Nat,
           Keeps(m_events'[p], m_safeTime'[p], m_currentTs'[p], pc'[p],
                 transmitting'[p], p, q, g)
    PROVE  g \in Promised(p, q)'
BY DEF Promised

\* The null message event for q stays.
LEMMA NullDueStays ==
    ASSUME NEW r \in Rank, NEW q \in Neighbors[r],
           NEW events \in SUBSET Event, NEW now \in Nat, NullDue(events, now, r, q),
           NEW after, NEW later \in Nat, now <= later,
           \A f : IsNullEvent(f, q) => (f \in events <=> f \in after)
    PROVE  NullDue(after, later, r, q)
<1>1. PICK e \in events : /\ \A f \in events : IsNullEvent(f, q) <=> f = e
                          /\ e.ts <= now + Interval[r][q]
    BY DEF NullDue
<1>2. e.ts \in Nat /\ Interval[r][q] \in Nat
    BY IntervalType DEF Event
<1>3. e.ts <= later + Interval[r][q]
    BY <1>1, <1>2
<1>4. e \in after /\ \A f \in after : IsNullEvent(f, q) <=> f = e
    BY <1>1, Zenon
<1> QED
    BY <1>3, <1>4, Zenon DEF NullDue
-----------------------------------------------------------------------------
(* The program, and the loop of Run.                                       *)

LEMMA ScheduleStep ==
    ASSUME Inv, NEW r \in Rank, NEW delay \in Delays, Schedule(r, delay)
    PROVE  Inv'
<1> DEFINE e == [ts |-> m_currentTs[r] + delay, uid |-> m_uid[r],
                 kind |-> "program", arg |-> r]
<1>0. delay \in Nat
    BY DelaysAssumption
<1>a. /\ m_events[r] \in SUBSET Event
      /\ m_uid[r] \in Nat
      /\ m_currentTs[r] \in Nat /\ m_safeTime[r] \in Nat
      /\ RankOK(r)
    BY AtRank
<1>1. e \in Event /\ e.kind = "program" /\ m_currentTs[r] <= e.ts
    BY <1>0, <1>a DEF Event
<1>2. /\ m_events' = [m_events EXCEPT ![r] = @ \cup {e}]
      /\ m_uid' = [m_uid EXCEPT ![r] = @ + 1]
      /\ ops' = ops + 1 /\ ops < MaxOps
      /\ pc' = pc /\ m_currentTs' = m_currentTs /\ m_stop' = m_stop
      /\ m_safeTime' = m_safeTime /\ m_guaranteeTime' = m_guaranteeTime
      /\ transmitting' = transmitting /\ mpi' = mpi
      /\ pc[r] \in {"start", "handler"}
    BY DEF Schedule, MayCall, safety
<1> HIDE DEF e
<1>3. m_events'[r] = m_events[r] \cup {e}
    BY <1>2 DEF Inv, Types
<1>4. Types'
    <2>1. m_events' \in [Rank -> SUBSET Event]
        BY <1>1, <1>2 DEF Inv, Types
    <2>2. m_uid' \in [Rank -> Nat]
        BY <1>2 DEF Inv, Types
    <2>3. ops' \in 0 .. MaxOps
        BY <1>2, MaxOpsAssumption DEF Inv, Types
    <2> QED
        BY <1>2, <2>1, <2>2, <2>3, Zenon DEF Inv, Types
<1>5. \A p \in Rank \ {r} : Rests(p)
    BY <1>2 DEF Inv, Types, Rests
<1>6. RankOK(r)'
    <2>1. pc[r] \notin {"start", "done"} =>
              \A q \in Neighbors[r] : NullDue(m_events'[r], m_currentTs[r], r, q)
        <3> SUFFICES ASSUME pc[r] \notin {"start", "done"}, NEW q \in Neighbors[r]
                     PROVE  NullDue(m_events'[r], m_currentTs[r], r, q)
            BY Zenon
        <3>1. NullDue(m_events[r], m_currentTs[r], r, q)
            BY <1>a, Zenon DEF RankOK
        <3>2. \A f : IsNullEvent(f, q) => (f \in m_events[r] <=> f \in m_events'[r])
            BY <1>1, <1>3 DEF IsNullEvent
        <3>3. m_currentTs[r] <= m_currentTs[r]
            BY <1>a
        <3> QED
            BY <1>a, <3>1, <3>2, <3>3, NullDueStays, Zenon
    <2> QED
        BY <1>a, <1>1, <1>2, <1>3, <2>1 DEF RankOK
<1>7. ASSUME NEW q \in Neighbors[r], NEW g \in Promised(r, q)
      PROVE  g \in Promised(r, q)'
    <2>1. g \in Nat /\ Keeps(m_events[r], m_safeTime[r], m_currentTs[r], pc[r],
                             transmitting[r], r, q, g)
        BY PromisedMeans
    <2>2. (pc[r] = "handler" /\ m_currentTs[r] <= e.ts) \/ m_safeTime[r] <= e.ts
        <3>1. CASE pc[r] = "handler"
            BY <1>1, <3>1
        <3>2. CASE pc[r] = "start"
            BY <1>a, <1>1, <3>2 DEF RankOK
        <3> QED
            BY <1>2, <3>1, <3>2
    <2>3. Keeps(m_events[r] \cup {e}, m_safeTime[r], m_currentTs[r], pc[r],
                transmitting[r], r, q, g)
        BY <1>a, <1>1, <2>1, <2>2, KeepsProgram
    <2> QED
        BY <1>2, <1>3, <2>1, <2>3, PromisedMeansAfter
<1> QED
    BY <1>2, <1>4, <1>5, <1>6, <1>7, LocalStep

\* A handler returns, or the loop ends.
LEMMA LeavingStep ==
    ASSUME Inv, NEW r \in Rank, HandlerReturns(r) \/ Finish(r)
    PROVE  Inv'
<1>1. /\ m_events' = m_events /\ m_uid' = m_uid
      /\ ops' = ops /\ m_currentTs' = m_currentTs /\ m_stop' = m_stop
      /\ m_safeTime' = m_safeTime /\ m_guaranteeTime' = m_guaranteeTime
      /\ transmitting' = transmitting /\ mpi' = mpi
      /\ \/ pc[r] = "handler" /\ pc' = [pc EXCEPT ![r] = "receive"]
         \/ pc' = [pc EXCEPT ![r] = "done"]
    BY DEF HandlerReturns, Finish, clock, safety
<1>2. pc'[r] = "done" \/ (pc[r] = "handler" /\ pc'[r] = "receive")
    BY <1>1 DEF Inv, Types
<1>3. Types'
    <2>1. pc' \in [Rank -> Pcs]
        BY <1>1 DEF Inv, Types, Pcs
    <2> QED
        BY <1>1, <2>1, Zenon DEF Inv, Types
<1>4. \A p \in Rank \ {r} : Rests(p)
    BY <1>1 DEF Inv, Types, Rests
<1>5. RankOK(r)'
    BY <1>1, <1>2, AtRank DEF RankOK
<1>6. ASSUME NEW q \in Neighbors[r], NEW g \in Promised(r, q)
      PROVE  g \in Promised(r, q)'
    <2>1. g \in Nat /\ Keeps(m_events[r], m_safeTime[r], m_currentTs[r], pc[r],
                             transmitting[r], r, q, g)
        BY PromisedMeans
    <2>2. m_safeTime[r] \in Nat
        BY AtRank
    <2>3. Keeps(m_events[r], m_safeTime[r], m_currentTs[r], pc'[r],
                transmitting[r], r, q, g)
        BY <1>2, <2>1, <2>2, KeepsWeaker
    <2> QED
        BY <1>1, <2>1, <2>3, PromisedMeansAfter
<1> QED
    BY <1>1, <1>2, <1>3, <1>4, <1>5, <1>6, LocalStep
-----------------------------------------------------------------------------
(* TransmitStart, in the handler of a function or of TransmitComplete.     *)

\* Its effect on the rank: `busy' holds the channels that were BUSY, without c;
\* none of them leads to s.
LEMMA TransmitStartProperties ==
    ASSUME Inv, NEW r \in Rank, NEW s \in Neighbors[r],
           NEW c \in Bundle(r, s), NEW txTime \in TxTimes,
           NEW events \in SUBSET m_events[r], NEW now \in Nat, m_currentTs[r] <= now,
           \A e \in events : now <= e.ts,
           \A q \in Neighbors[r] : NullDue(events, m_currentTs[r], r, q),
           TransmitStart(r, s, c, now, txTime, events),
           NEW busy, \A b \in Bundle(r, s) : b \notin busy
    PROVE  /\ m_events' \in [Rank -> SUBSET Event]
           /\ \A p \in Rank \ {r} : m_events'[p] = m_events[p]
           /\ \A e \in m_events'[r] : /\ now <= e.ts
                                      /\ e.kind = "null" => e.arg \in Neighbors[r]
           /\ \A e \in events : e.kind = "stop" => e \in m_events'[r]
           /\ \A q \in Neighbors[r] : NullDue(m_events'[r], now, r, q)
           /\ \E m \in Message :
                  /\ mpi' = [mpi EXCEPT ![r][s] = Append(@, m)]
                  /\ Keeps(m_events'[r], m_safeTime[r], now, "handler",
                           busy \cup {c}, r, s, m.guarantee)
                  /\ \A g \in Nat :
                         Keeps(events, m_safeTime[r], now, "handler", busy, r, s, g)
                         => m.guarantee >= g /\ m.rxTime >= g
           /\ \A q \in Neighbors[r], g \in Nat :
                  Keeps(events, m_safeTime[r], now, "handler", busy, r, q, g)
                  => Keeps(m_events'[r], m_safeTime[r], now, "handler",
                           busy \cup {c}, r, q, g)
<1> DEFINE end     == CompleteEvent(r, c, now, txTime)
           new     == NullEvent(r, s, now, m_uid[r] + 1)
           pending == events \cup {end}
           after   == AfterTransmit(events, s, end, new)
           safe    == m_safeTime[r]
           d       == GetDelay[r][s]
           g0      == Guarantee(r, s, pending)
           m       == [rxTime |-> now + txTime + Delay[c], guarantee |-> g0]
<1>1. /\ m_events[r] \in SUBSET Event /\ m_uid[r] \in Nat /\ safe \in Nat
      /\ m_currentTs[r] \in Nat /\ RankOK(r) /\ Types
    BY AtRank DEF Inv
<1>2. /\ txTime \in Nat /\ d \in Nat /\ Delay[c] \in Nat /\ d <= Delay[c]
      /\ c \in Channel /\ s \in Rank
      /\ InterframeGap \in Nat /\ Interval[r][s] \in Nat
    BY TxTimesAssumption, DelayProperties, NeighborsAreMutual, GapAssumption, IntervalType
<1>3. end \in Event /\ IsComplete(end, c) /\ now <= end.ts
    BY <1>1, <1>2 DEF CompleteEvent, Event, IsComplete
<1>4. new \in Event /\ IsNullEvent(new, s) /\ new.ts = now + Interval[r][s] /\ now <= new.ts
      /\ new.kind = "null" /\ new.arg = s
    BY <1>1, <1>2 DEF NullEvent, Event, IsNullEvent
<1>5. m_events' = [m_events EXCEPT ![r] = after]
    BY DEF TransmitStart, AfterTransmit
<1>6. mpi' = [mpi EXCEPT ![r][s] = Append(@, m)]
    BY DEF TransmitStart, Send
<1>7. events \in SUBSET Event
    BY <1>1
<1> HIDE DEF end, new, after
<1>8. /\ after \in SUBSET Event
      /\ \A e \in after :
             \/ e \in events /\ ~ IsNullEvent(e, s)
             \/ e = end
             \/ e = new
             \/ e.kind = "cancelled" /\ \E f \in events : e.ts = f.ts /\ IsNullEvent(f, s)
      /\ \A e \in events : IsNullEvent(e, s) \/ e \in after
      /\ new \in after
    BY <1>3, <1>4, <1>7, AfterTransmitProperties DEF after
<1>9. m_events' \in [Rank -> SUBSET Event] /\ m_events'[r] = after
      /\ \A p \in Rank \ {r} : m_events'[p] = m_events[p]
    BY <1>1, <1>5, <1>8 DEF Types
<1>10. \A e \in after : now <= e.ts /\ (e.kind = "null" => e.arg \in Neighbors[r])
    <2>1. \A e \in events : e.kind = "null" => e.arg \in Neighbors[r]
        BY <1>1 DEF RankOK
    <2>2. end.kind # "null"
        BY <1>3 DEF IsComplete
    <2> QED
        BY <1>3, <1>4, <1>8, <2>1, <2>2
<1>11. \A e \in events : e.kind = "stop" => e \in after
    BY <1>8 DEF IsNullEvent
<1>12. ASSUME NEW q \in Neighbors[r]
       PROVE  NullDue(after, now, r, q)
    <2>1. \A f : f.kind = "cancelled" => ~ IsNullEvent(f, q)
        BY DEF IsNullEvent
    <2>2. ~ IsNullEvent(end, q)
        BY <1>3 DEF IsComplete, IsNullEvent
    <2>3. CASE q = s
        <3>1. \A f \in after : IsNullEvent(f, q) <=> f = new
            BY <1>4, <1>8, <2>1, <2>2, <2>3
        <3>2. new.ts <= now + Interval[r][q]
            BY <1>2, <1>4, <2>3
        <3> QED
            BY <1>8, <3>1, <3>2, Zenon DEF NullDue
    <2>4. CASE q # s
        <3>1. ~ IsNullEvent(new, q) /\ \A f : IsNullEvent(f, q) => ~ IsNullEvent(f, s)
            BY <1>4, <2>4 DEF IsNullEvent
        <3>2. \A f : IsNullEvent(f, q) => (f \in events <=> f \in after)
            BY <1>8, <2>1, <2>2, <3>1
        <3> QED
            BY <1>1, <1>7, <3>2, NullDueStays
    <2> QED
        BY <2>3, <2>4
<1>13. /\ g0 \in Nat
       /\ g0 <= safe + d
       /\ \A e \in pending : g0 <= e.ts + d
       /\ \A g \in Nat : g <= safe + d /\ (\A e \in pending : g <= e.ts + d) => g <= g0
    <2>1. pending \in SUBSET Event /\ pending # {}
        BY <1>3, <1>7
    <2> HIDE DEF pending, g0, d, safe
    <2> QED
        BY <1>1, <2>1, GuaranteeProperties, Zenon DEF g0, d, safe
<1>14. m \in Message /\ m.guarantee = g0 /\ m.rxTime = now + txTime + Delay[c]
    BY <1>2, <1>13 DEF Message
<1> HIDE DEF m, g0
<1>15. Keeps(after, safe, now, "handler", busy \cup {c}, r, s, g0)
    <2>1. \E f \in events : IsNullEvent(f, s) /\ f.ts <= new.ts
        <3>1. PICK f \in events : IsNullEvent(f, s) /\ f.ts <= m_currentTs[r] + Interval[r][s]
            BY Zenon DEF NullDue
        <3>2. f.ts \in Nat
            BY <1>7 DEF Event
        <3>3. f.ts <= new.ts
            BY <1>1, <1>2, <1>4, <3>1, <3>2
        <3> QED
            BY <3>1, <3>3
    <2> QED
        BY <1>3, <1>4, <1>7, <1>13, <2>1, KeepsOwnPacket DEF after
<1>16. ASSUME NEW g \in Nat, Keeps(events, safe, now, "handler", busy, r, s, g)
       PROVE  /\ Keeps(after, safe, now, "handler", busy \cup {c}, r, s, g)
              /\ m.guarantee >= g /\ m.rxTime >= g
    <2>1. /\ Keeps(after, safe, now, "handler", busy \cup {c}, r, s, g)
          /\ g <= now + d
          /\ \A e \in pending : g <= e.ts + d
        BY <1>3, <1>4, <1>7, <1>16, KeepsTransmitSame DEF after
    <2>2. g <= safe + d
        BY <1>16, Zenon DEF Keeps
    <2>3. g <= g0
        BY <1>13, <2>1, <2>2
    <2>4. m.rxTime >= g
        BY <1>2, <1>14, <2>1
    <2> QED
        BY <1>13, <1>14, <2>1, <2>3, <2>4
<1>17. ASSUME NEW q \in Neighbors[r], NEW g \in Nat,
              Keeps(events, safe, now, "handler", busy, r, q, g)
       PROVE  Keeps(after, safe, now, "handler", busy \cup {c}, r, q, g)
    <2>1. CASE q = s
        BY <1>16, <1>17, <2>1
    <2>2. CASE q # s
        BY <1>3, <1>4, <1>7, <1>17, <2>2, KeepsTransmitOther DEF after
    <2> QED
        BY <2>1, <2>2
<1> HIDE DEF safe
<1>18. \E mm \in Message :
           /\ mpi' = [mpi EXCEPT ![r][s] = Append(@, mm)]
           /\ Keeps(after, safe, now, "handler", busy \cup {c}, r, s, mm.guarantee)
           /\ \A g \in Nat : Keeps(events, safe, now, "handler", busy, r, s, g)
                             => mm.guarantee >= g /\ mm.rxTime >= g
    <2>1. Keeps(after, safe, now, "handler", busy \cup {c}, r, s, m.guarantee)
        BY <1>14, <1>15
    <2>2. mpi' = [mpi EXCEPT ![r][s] = Append(@, m)]
        BY <1>6
    <2>3. \A g \in Nat : Keeps(events, safe, now, "handler", busy, r, s, g)
                         => m.guarantee >= g /\ m.rxTime >= g
        BY <1>16
    <2>4. m \in Message
        BY <1>14
    <2> QED
        BY <2>1, <2>2, <2>3, <2>4, Zenon
<1> QED
    BY <1>9, <1>10, <1>11, <1>12, <1>17, <1>18 DEF safe

\* Without an overlap the other transmitters to s are READY.
LEMMA NoOverlap ==
    ASSUME NEW r \in Rank, NEW s, NEW c, NEW now, NEW txTime, NEW events,
           TransmitStart(r, s, c, now, txTime, events), ~ overlapped'
    PROVE  \A b \in Bundle(r, s) : b = c \/ b \notin transmitting[r]
<1>1. ~ Overlaps(r, s, c)
    BY Zenon DEF TransmitStart
<1> QED
    BY <1>1 DEF Overlaps

LEMMA SendTypes ==
    ASSUME Types, NEW r \in Rank, NEW s \in Neighbors[r], NEW m \in Message,
           mpi' = [mpi EXCEPT ![r][s] = Append(@, m)]
    PROVE  /\ mpi' = [p \in Rank |-> mpi'[p]]
           /\ \A p \in Rank : mpi'[p] \in [Neighbors[p] -> Seq(Message)]
           /\ \A p \in Rank \ {r} : mpi'[p] = mpi[p]
           /\ mpi'[r][s] = Append(mpi[r][s], m)
           /\ \A q \in Neighbors[r] : q # s => mpi'[r][q] = mpi[r][q]
<1>1. mpi = [p \in Rank |-> mpi[p]]
      /\ \A p \in Rank : mpi[p] \in [Neighbors[p] -> Seq(Message)]
    BY DEF Types
<1>2. Append(mpi[r][s], m) \in Seq(Message)
    <2>1. mpi[r][s] \in Seq(Message)
        BY <1>1
    <2> QED
        BY <2>1, AppendProperties
<1>3. mpi' = [p \in Rank |-> mpi'[p]]
    BY <1>1
<1>4. mpi'[r] = [mpi[r] EXCEPT ![s] = Append(mpi[r][s], m)]
    BY <1>1
<1>5. \A p \in Rank \ {r} : mpi'[p] = mpi[p]
    BY <1>1
<1>6. mpi'[r] \in [Neighbors[r] -> Seq(Message)]
    BY <1>1, <1>2, <1>4
<1>7. mpi'[r][s] = Append(mpi[r][s], m)
      /\ \A q \in Neighbors[r] : q # s => mpi'[r][q] = mpi[r][q]
    BY <1>1, <1>4
<1> QED
    BY <1>1, <1>3, <1>5, <1>6, <1>7, Zenon

LEMMA TransmitStep ==
    ASSUME Inv, NEW r \in Rank, NEW s \in Neighbors[r], NEW c,
           NEW txTime \in TxTimes, Transmit(r, s, c, txTime), ~ overlapped'
    PROVE  Inv'
<1> DEFINE events == m_events[r]
           now    == m_currentTs[r]
           safe   == m_safeTime[r]
           busy   == transmitting[r]
<1>1. /\ events \in SUBSET Event /\ now \in Nat /\ busy \in SUBSET Channel
      /\ now <= now /\ RankOK(r) /\ Types
    BY AtRank DEF Inv
<1>2. /\ TransmitStart(r, s, c, now, txTime, events)
      /\ pc[r] = "handler"
      /\ c \in Bundle(r, s) /\ c \notin busy
      /\ ops < MaxOps /\ ops' = ops + 1
      /\ pc' = pc /\ m_currentTs' = m_currentTs /\ m_stop' = m_stop
      /\ m_safeTime' = m_safeTime /\ m_guaranteeTime' = m_guaranteeTime
    BY DEF Transmit, MayCall, safety
<1>3. /\ \A e \in events : now <= e.ts
      /\ \A q \in Neighbors[r] : NullDue(events, now, r, q)
      /\ \A b \in Bundle(r, s) : b \notin busy
    <2>1. \A b \in Bundle(r, s) : b \notin busy
        BY <1>2, NoOverlap
    <2> QED
        BY <1>1, <1>2, <2>1 DEF RankOK
<1>4. /\ m_events' \in [Rank -> SUBSET Event]
      /\ \A p \in Rank \ {r} : m_events'[p] = m_events[p]
      /\ \A e \in m_events'[r] : /\ now <= e.ts
                                 /\ e.kind = "null" => e.arg \in Neighbors[r]
      /\ \A e \in events : e.kind = "stop" => e \in m_events'[r]
      /\ \A q \in Neighbors[r] : NullDue(m_events'[r], now, r, q)
      /\ \E m \in Message :
             /\ mpi' = [mpi EXCEPT ![r][s] = Append(@, m)]
             /\ Keeps(m_events'[r], safe, now, "handler", busy \cup {c}, r, s, m.guarantee)
             /\ \A g \in Nat : Keeps(events, safe, now, "handler", busy, r, s, g)
                               => m.guarantee >= g /\ m.rxTime >= g
      /\ \A q \in Neighbors[r], g \in Nat :
             Keeps(events, safe, now, "handler", busy, r, q, g)
             => Keeps(m_events'[r], safe, now, "handler", busy \cup {c}, r, q, g)
    <2>1. events \in SUBSET m_events[r]
        OBVIOUS
    <2> QED
        BY <1>1, <1>2, <1>3, <2>1, TransmitStartProperties
<1>5. /\ transmitting' = [transmitting EXCEPT ![r] = @ \cup {c}]
      /\ m_uid' = [m_uid EXCEPT ![r] = @ + 2]
    BY <1>2 DEF TransmitStart
<1>6. transmitting'[r] = busy \cup {c}
    BY <1>1, <1>5 DEF Types
<1>7. PICK m \in Message :
          /\ mpi' = [mpi EXCEPT ![r][s] = Append(@, m)]
          /\ Keeps(m_events'[r], safe, now, "handler", busy \cup {c}, r, s, m.guarantee)
          /\ \A g \in Nat : Keeps(events, safe, now, "handler", busy, r, s, g)
                            => m.guarantee >= g /\ m.rxTime >= g
    BY <1>4, Zenon
<1>8. /\ mpi' = [p \in Rank |-> mpi'[p]]
      /\ \A p \in Rank : mpi'[p] \in [Neighbors[p] -> Seq(Message)]
      /\ \A p \in Rank \ {r} : mpi'[p] = mpi[p]
      /\ mpi'[r][s] = Append(mpi[r][s], m)
      /\ \A q \in Neighbors[r] : q # s => mpi'[r][q] = mpi[r][q]
    BY <1>1, <1>7, SendTypes, Zenon
<1>9. Types'
    <2>1. m_uid' \in [Rank -> Nat]
        BY <1>1, <1>5 DEF Types
    <2>2. transmitting' \in [Rank -> SUBSET Channel]
        <3>1. c \in Channel
            BY <1>2, NeighborsAreMutual
        <3> QED
            BY <1>1, <1>5, <3>1 DEF Types
    <2>3. ops' \in 0 .. MaxOps
        BY <1>1, <1>2, MaxOpsAssumption DEF Types
    <2> QED
        BY <1>1, <1>2, <1>4, <1>8, <2>1, <2>2, <2>3, Zenon DEF Types
<1>10. \A p \in Rank \ {r} : Rests(p)
    BY <1>1, <1>2, <1>4, <1>5 DEF Types, Rests
<1> HIDE DEF events, now, safe, busy
<1>11. RankOK(r)'
    <2>1. ~ m_stop[r] => \E e \in m_events'[r] : e.kind = "stop" /\ e.ts = StopTime[r]
        BY <1>1, <1>4 DEF RankOK, events
    <2> QED
        BY <1>1, <1>2, <1>4, <2>1 DEF RankOK, now
<1>12. ASSUME NEW q \in Neighbors[r], NEW g \in Promised(r, q)
       PROVE  g \in Promised(r, q)'
    <2>1. g \in Nat /\ Keeps(events, safe, now, "handler", busy, r, q, g)
        BY <1>2, PromisedMeans DEF events, safe, now, busy
    <2>2. Keeps(m_events'[r], safe, now, "handler", busy \cup {c}, r, q, g)
        BY <1>4, <2>1
    <2> QED
        BY <1>2, <1>6, <2>1, <2>2, PromisedMeansAfter DEF safe, now
<1>13. m.guarantee \in Promised(r, s)'
    <2>1. m.guarantee \in Nat
        BY DEF Message
    <2> QED
        BY <1>2, <1>6, <1>7, <2>1, PromisedMeansAfter DEF safe, now
<1>14. \A g \in Promised(r, s) : m.guarantee >= g /\ (m.rxTime > 0 => m.rxTime >= g)
    BY <1>2, <1>7, PromisedMeans DEF events, safe, now, busy
<1>15. \A q \in Neighbors[r] :
           /\ Promised(r, q) \subseteq Promised(r, q)'
           /\ \/ mpi'[r][q] = mpi[r][q]
              \/ \E mm \in Message :
                     /\ mpi'[r][q] = Append(mpi[r][q], mm)
                     /\ mm.guarantee \in Promised(r, q)'
                     /\ \A g \in Promised(r, q) :
                            /\ mm.guarantee >= g
                            /\ mm.rxTime > 0 => mm.rxTime >= g
    BY <1>8, <1>12, <1>13, <1>14
<1>16. pc'[r] # "start"
    BY <1>2
<1> QED
    BY <1>2, <1>8, <1>9, <1>10, <1>11, <1>15, <1>16, SendStep
-----------------------------------------------------------------------------
(* ProcessOneEvent.                                                        *)

LEMMA TakeProperties ==
    ASSUME Inv, NEW r \in Rank, NEW next \in m_events[r], Take(r, next)
    PROVE  /\ pc[r] = "run" /\ ~ m_stop[r]
           /\ next \in Event /\ next.ts \in Nat /\ next.ts <= m_safeTime[r]
           /\ m_currentTs[r] <= next.ts /\ next.ts <= StopTime[r]
           /\ \A e \in m_events[r] : next.ts <= e.ts
           /\ \A q \in Neighbors[r] : NullDue(m_events[r], m_currentTs[r], r, q)
           /\ m_currentTs' = [m_currentTs EXCEPT ![r] = next.ts]
           /\ m_currentTs'[r] = next.ts
           /\ m_safeTime' = m_safeTime /\ m_guaranteeTime' = m_guaranteeTime
           /\ ops' = ops
<1>1. /\ m_events[r] \in SUBSET Event /\ RankOK(r) /\ Types
      /\ \A e \in m_events[r] : e.ts \in Nat
    BY AtRank DEF Inv
<1>2. /\ pc[r] = "run" /\ ~ m_stop[r] /\ next.ts <= m_safeTime[r]
      /\ IsEarliest(next, m_events[r])
      /\ m_currentTs' = [m_currentTs EXCEPT ![r] = next.ts]
      /\ m_safeTime' = m_safeTime /\ m_guaranteeTime' = m_guaranteeTime
      /\ ops' = ops
    BY DEF Take, IsFinished, safety
<1>3. \A e \in m_events[r] : next.ts <= e.ts
    BY <1>1, <1>2 DEF IsEarliest, KeyLess
<1>4. next.ts <= StopTime[r]
    BY <1>1, <1>2, <1>3 DEF RankOK
<1>5. m_currentTs[r] <= next.ts
    BY <1>1 DEF RankOK
<1>6. \A q \in Neighbors[r] : NullDue(m_events[r], m_currentTs[r], r, q)
    BY <1>1, <1>2 DEF RankOK
<1>7. m_currentTs'[r] = next.ts
    BY <1>1, <1>2 DEF Types
<1> QED
    BY <1>1, <1>2, <1>3, <1>4, <1>5, <1>6, <1>7, Zenon

\* The rank after an event.
LEMMA RankAfterTake ==
    ASSUME Inv, NEW r \in Rank, NEW next \in m_events[r], Take(r, next),
           pc'[r] \in {"handler", "receive"},
           \A e \in m_events'[r] : /\ next.ts <= e.ts
                                   /\ e.kind = "null" => e.arg \in Neighbors[r],
           \A e \in m_events[r] : e.kind = "stop" => e \in m_events'[r] \/ m_stop'[r],
           \A q \in Neighbors[r] : NullDue(m_events'[r], next.ts, r, q)
    PROVE  RankOK(r)'
<1>1. RankOK(r)
    BY DEF Inv
<1>2. ~ m_stop'[r] => \E e \in m_events'[r] : e.kind = "stop" /\ e.ts = StopTime[r]
    BY <1>1, TakeProperties DEF RankOK
<1>3. /\ m_currentTs'[r] = next.ts /\ next.ts <= m_safeTime[r] /\ next.ts <= StopTime[r]
      /\ m_safeTime' = m_safeTime /\ m_guaranteeTime' = m_guaranteeTime
    BY TakeProperties, Zenon
<1>4. \A q \in Neighbors[r] : m_safeTime[r] <= m_guaranteeTime[r][q]
    BY <1>1 DEF RankOK
<1>5. pc'[r] # "start"
    OBVIOUS
<1> QED
    BY <1>2, <1>3, <1>4, <1>5 DEF RankOK

\* An event that is not a null message event leaves the list.
LEMMA NullDueAfterTake ==
    ASSUME Inv, NEW r \in Rank, NEW next \in m_events[r], Take(r, next),
           next.kind # "null"
    PROVE  \A q \in Neighbors[r] : NullDue(m_events[r] \ {next}, next.ts, r, q)
<1>1. ASSUME NEW q \in Neighbors[r]
      PROVE  NullDue(m_events[r] \ {next}, next.ts, r, q)
    <2>1. m_events[r] \in SUBSET Event /\ m_currentTs[r] \in Nat
        BY AtRank
    <2>2. NullDue(m_events[r], m_currentTs[r], r, q)
          /\ next.ts \in Nat /\ m_currentTs[r] <= next.ts
        BY TakeProperties, Zenon
    <2>3. \A f : IsNullEvent(f, q) => (f \in m_events[r] <=> f \in m_events[r] \ {next})
        BY DEF IsNullEvent
    <2> QED
        BY <2>1, <2>2, <2>3, NullDueStays
<1> QED
    BY <1>1

\* A function of the program, Simulator::Stop, or a cancelled event.
LEMMA RunPlainStep ==
    ASSUME Inv, NEW r \in Rank, NEW next \in m_events[r],
           RunProgram(r, next) \/ RunStop(r, next)
    PROVE  Inv'
<1>1. /\ Take(r, next)
      /\ m_events' = [m_events EXCEPT ![r] = @ \ {next}]
      /\ m_uid' = m_uid /\ transmitting' = transmitting /\ mpi' = mpi
      /\ next.kind # "null"
      /\ \/ pc' = [pc EXCEPT ![r] = "handler"]
         \/ pc' = [pc EXCEPT ![r] = "receive"]
      /\ \/ m_stop' = m_stop /\ next.kind # "stop"
         \/ m_stop' = [m_stop EXCEPT ![r] = @ \/ next.kind = "stop"]
    BY DEF RunProgram, RunStop
<1>2. /\ m_events[r] \in SUBSET Event /\ m_safeTime[r] \in Nat /\ RankOK(r) /\ Types
    BY AtRank DEF Inv
<1>3. /\ m_currentTs' = [m_currentTs EXCEPT ![r] = next.ts]
      /\ m_currentTs'[r] = next.ts /\ next.ts \in Nat
      /\ m_safeTime' = m_safeTime /\ m_guaranteeTime' = m_guaranteeTime
      /\ ops' = ops /\ \A e \in m_events[r] : next.ts <= e.ts
    BY <1>1, TakeProperties, Zenon
<1>4. m_events'[r] = m_events[r] \ {next}
    BY <1>1, <1>2 DEF Types
<1>5. pc'[r] \in {"handler", "receive"}
    BY <1>1, <1>2 DEF Types
<1>6. Types'
    <2>1. pc' \in [Rank -> Pcs]
        BY <1>1, <1>2 DEF Types, Pcs
    <2>2. m_events' \in [Rank -> SUBSET Event]
        BY <1>1, <1>2 DEF Types
    <2>3. m_stop' \in [Rank -> BOOLEAN]
        BY <1>1, <1>2, Zenon DEF Types
    <2>4. m_currentTs' \in [Rank -> Nat]
        BY <1>2, <1>3 DEF Types
    <2> QED
        BY <1>1, <1>2, <1>3, <2>1, <2>2, <2>3, <2>4, Zenon DEF Types
<1>7. \A p \in Rank \ {r} : Rests(p)
    <2>1. ASSUME NEW p \in Rank \ {r} PROVE m_stop'[p] = m_stop[p]
        BY <1>1, <1>2 DEF Types
    <2> QED
        BY <1>1, <1>2, <1>3, <2>1 DEF Types, Rests
<1>8. RankOK(r)'
    <2>1. \A e \in m_events'[r] : /\ next.ts <= e.ts
                                  /\ e.kind = "null" => e.arg \in Neighbors[r]
        BY <1>2, <1>3, <1>4 DEF RankOK
    <2>2. next.kind = "stop" => m_stop'[r]
        BY <1>1, <1>2 DEF Types
    <2>3. \A e \in m_events[r] : e.kind = "stop" => e \in m_events'[r] \/ m_stop'[r]
        BY <1>4, <2>2
    <2>4. \A q \in Neighbors[r] : NullDue(m_events'[r], next.ts, r, q)
        <3>1. \A q \in Neighbors[r] : NullDue(m_events[r] \ {next}, next.ts, r, q)
            BY <1>1, NullDueAfterTake, Zenon
        <3> QED
            BY <1>4, <3>1
    <2> QED
        BY <1>1, <1>5, <2>1, <2>3, <2>4, RankAfterTake
<1>9. ASSUME NEW q \in Neighbors[r], NEW g \in Promised(r, q)
      PROVE  g \in Promised(r, q)'
    <2>1. g \in Nat /\ Keeps(m_events[r], m_safeTime[r], m_currentTs[r], pc[r],
                             transmitting[r], r, q, g)
        BY PromisedMeans
    <2>2. Keeps(m_events'[r], m_safeTime[r], next.ts, "handler", transmitting[r], r, q, g)
        <3>1. Keeps(m_events[r] \ {next}, m_safeTime[r], next.ts, "handler",
                    transmitting[r], r, q, g)
            BY <1>1, <1>2, <2>1, KeepsHandler
        <3> QED
            BY <1>4, <3>1
    <2>3. m_safeTime[r] <= m_safeTime[r]
        BY <1>2
    <2>4. Keeps(m_events'[r], m_safeTime[r], next.ts, pc'[r], transmitting[r], r, q, g)
        BY <1>2, <2>1, <2>2, <2>3, KeepsWeaker, Zenon
    <2> QED
        BY <1>1, <1>3, <2>1, <2>4, PromisedMeansAfter
<1>10. pc'[r] # "start"
    BY <1>5
<1> QED
    BY <1>1, <1>3, <1>6, <1>7, <1>8, <1>9, <1>10, LocalStep

\* NullMessageEventHandler: the one pending null message event for its neighbour
\* makes way for the next one.
LEMMA RunNullStep ==
    ASSUME Inv, NEW r \in Rank, NEW next \in m_events[r], RunNull(r, next)
    PROVE  Inv'
<1> DEFINE s     == next.arg
           new   == NullEvent(r, s, next.ts, m_uid[r])
           left  == m_events[r] \ {next}
           after == left \cup {new}
           safe  == m_safeTime[r]
           g0    == Guarantee(r, s, left)
           m     == [rxTime |-> 0, guarantee |-> g0]
<1>1. /\ Take(r, next) /\ next.kind = "null"
      /\ m_events' = [m_events EXCEPT ![r] = after]
      /\ m_uid' = [m_uid EXCEPT ![r] = @ + 1]
      /\ pc' = [pc EXCEPT ![r] = "receive"]
      /\ m_stop' = m_stop /\ transmitting' = transmitting
      /\ mpi' = [mpi EXCEPT ![r][s] = Append(@, m)]
    BY DEF RunNull, Send
<1>2. /\ m_events[r] \in SUBSET Event /\ m_uid[r] \in Nat /\ m_currentTs[r] \in Nat
      /\ safe \in Nat /\ RankOK(r) /\ Types
      /\ \A e \in m_events[r] : e.ts \in Nat
    BY AtRank DEF Inv
<1>3. /\ m_currentTs' = [m_currentTs EXCEPT ![r] = next.ts]
      /\ m_currentTs'[r] = next.ts /\ next.ts \in Nat /\ m_currentTs[r] <= next.ts
      /\ m_safeTime' = m_safeTime /\ m_guaranteeTime' = m_guaranteeTime
      /\ ops' = ops /\ \A e \in m_events[r] : next.ts <= e.ts
      /\ ~ m_stop[r]
      /\ \A q \in Neighbors[r] : NullDue(m_events[r], m_currentTs[r], r, q)
    BY <1>1, TakeProperties, Zenon
<1>4. s \in Neighbors[r] /\ s \in Rank
    <2>1. s \in Neighbors[r]
        BY <1>1, <1>2 DEF RankOK
    <2> QED
        BY <2>1, NeighborsAreMutual
<1>5. /\ new \in Event /\ new.kind = "null" /\ new.arg = s /\ IsNullEvent(new, s)
      /\ new.ts = next.ts + Interval[r][s] /\ Interval[r][s] \in Nat /\ next.ts <= new.ts
    <2>1. Interval[r][s] \in Nat
        BY <1>4, IntervalType
    <2> QED
        BY <1>2, <1>3, <1>4, <2>1 DEF NullEvent, Event, IsNullEvent
<1>6. IsNullEvent(next, s)
    BY <1>1 DEF IsNullEvent
<1> HIDE DEF new, after
<1>7. \A q \in Neighbors[r] : \A e \in m_events[r] :
          IsNullEvent(e, q) /\ IsNullEvent(next, q) => e = next
    BY <1>3 DEF NullDue
<1>8. left # {}
    <2>1. \E e \in m_events[r] : e.kind = "stop"
        BY <1>2, <1>3 DEF RankOK
    <2> QED
        BY <1>1, <2>1
<1>9. /\ g0 \in Nat
      /\ g0 <= safe + GetDelay[r][s]
      /\ \A e \in left : g0 <= e.ts + GetDelay[r][s]
      /\ \A g \in Nat : g <= safe + GetDelay[r][s]
                        /\ (\A e \in left : g <= e.ts + GetDelay[r][s]) => g <= g0
    <2>1. left \in SUBSET Event
        BY <1>2
    <2> HIDE DEF left, g0, safe
    <2> QED
        BY <1>2, <1>4, <1>8, <2>1, GuaranteeProperties, Zenon DEF g0, safe
<1>10. m \in Message /\ m.guarantee = g0 /\ m.rxTime = 0
    BY <1>9 DEF Message
<1> HIDE DEF m, g0
<1>11. /\ mpi' = [p \in Rank |-> mpi'[p]]
       /\ \A p \in Rank : mpi'[p] \in [Neighbors[p] -> Seq(Message)]
       /\ \A p \in Rank \ {r} : mpi'[p] = mpi[p]
       /\ mpi'[r][s] = Append(mpi[r][s], m)
       /\ \A q \in Neighbors[r] : q # s => mpi'[r][q] = mpi[r][q]
    BY <1>1, <1>2, <1>4, <1>10, SendTypes, Zenon
<1>12. m_events'[r] = after /\ pc'[r] = "receive"
    BY <1>1, <1>2 DEF Types
<1>13. Types'
    <2>1. pc' \in [Rank -> Pcs]
        BY <1>1, <1>2 DEF Types, Pcs
    <2>2. m_events' \in [Rank -> SUBSET Event]
        BY <1>1, <1>2, <1>5 DEF Types, after
    <2>3. m_uid' \in [Rank -> Nat] /\ m_currentTs' \in [Rank -> Nat]
        BY <1>1, <1>2, <1>3 DEF Types
    <2> QED
        BY <1>1, <1>2, <1>3, <1>11, <2>1, <2>2, <2>3, Zenon DEF Types
<1>14. \A p \in Rank \ {r} : Rests(p)
    BY <1>1, <1>2, <1>3 DEF Types, Rests
<1>15. ASSUME NEW q \in Neighbors[r]
       PROVE  NullDue(after, next.ts, r, q)
    <2>1. CASE q = s
        <3>1. \A f \in after : IsNullEvent(f, q) <=> f = new
            BY <1>4, <1>5, <1>6, <1>7, <2>1 DEF after
        <3>2. new \in after /\ new.ts <= next.ts + Interval[r][q]
            BY <1>3, <1>5, <2>1 DEF after
        <3> QED
            BY <3>1, <3>2, Zenon DEF NullDue
    <2>2. CASE q # s
        <3>1. ~ IsNullEvent(new, q) /\ ~ IsNullEvent(next, q)
            BY <1>5, <2>2 DEF IsNullEvent
        <3>2. \A f : IsNullEvent(f, q) => (f \in m_events[r] <=> f \in after)
            BY <3>1 DEF after
        <3> QED
            BY <1>2, <1>3, <3>2, NullDueStays
    <2> QED
        BY <2>1, <2>2
<1>16. RankOK(r)'
    <2>1. \A e \in m_events'[r] : /\ next.ts <= e.ts
                                  /\ e.kind = "null" => e.arg \in Neighbors[r]
        BY <1>2, <1>3, <1>4, <1>5, <1>12 DEF RankOK, after
    <2>2. \A e \in m_events[r] : e.kind = "stop" => e \in m_events'[r]
        BY <1>1, <1>12 DEF after
    <2>3. \A q \in Neighbors[r] : NullDue(m_events'[r], next.ts, r, q)
        BY <1>12, <1>15
    <2>4. pc'[r] \in {"handler", "receive"}
        BY <1>12
    <2> QED
        BY <1>1, <2>1, <2>2, <2>3, <2>4, RankAfterTake, Zenon
<1>17. ASSUME NEW q \in Neighbors[r], NEW g \in Promised(r, q)
       PROVE  /\ g \in Promised(r, q)'
              /\ q = s => m.guarantee >= g
    <2>1. g \in Nat /\ Keeps(m_events[r], safe, m_currentTs[r], pc[r],
                             transmitting[r], r, q, g)
        BY PromisedMeans
    <2>2. \A e \in m_events[r] : IsNullEvent(e, q) /\ IsNullEvent(next, q) => e = next
        BY <1>7
    <2>3. /\ Keeps(after, safe, next.ts, "receive", transmitting[r], r, q, g)
          /\ IsNullEvent(next, q) => \A e \in left : g <= e.ts + GetDelay[r][q]
        BY <1>1, <1>2, <1>3, <1>5, <2>1, <2>2, KeepsNull DEF after
    <2>4. g \in Promised(r, q)'
        BY <1>1, <1>3, <1>12, <2>1, <2>3, PromisedMeansAfter
    <2>5. g <= safe + GetDelay[r][q]
        BY <2>1, Zenon DEF Keeps
    <2>6. q = s => g <= g0
        BY <1>6, <1>9, <2>1, <2>3, <2>5
    <2>7. q = s => m.guarantee >= g
        BY <1>9, <1>10, <2>1, <2>6
    <2> QED
        BY <2>4, <2>7
<1>18. m.guarantee \in Promised(r, s)'
    <2>1. Keeps(left \cup {new}, safe, next.ts, "receive", transmitting[r], r, s, g0)
        <3>1. left \in SUBSET Event
            BY <1>2
        <3> HIDE DEF left, safe
        <3> QED
            BY <1>4, <1>5, <1>9, <3>1, KeepsOwnNull
    <2> QED
        BY <1>1, <1>3, <1>9, <1>10, <1>12, <2>1, PromisedMeansAfter DEF after
<1>19. \A q \in Neighbors[r] :
           /\ Promised(r, q) \subseteq Promised(r, q)'
           /\ \/ mpi'[r][q] = mpi[r][q]
              \/ \E mm \in Message :
                     /\ mpi'[r][q] = Append(mpi[r][q], mm)
                     /\ mm.guarantee \in Promised(r, q)'
                     /\ \A g \in Promised(r, q) :
                            /\ mm.guarantee >= g
                            /\ mm.rxTime > 0 => mm.rxTime >= g
    <2>1. \A g \in Promised(r, s) : m.guarantee >= g /\ (m.rxTime > 0 => m.rxTime >= g)
        <3>1. \A g \in Promised(r, s) : m.guarantee >= g
            BY <1>4, <1>17
        <3>2. ~ (m.rxTime > 0)
            BY <1>10
        <3> QED
            BY <3>1, <3>2, Zenon
    <2>2. \A q \in Neighbors[r] : Promised(r, q) \subseteq Promised(r, q)'
        BY <1>17
    <2>3. m \in Message
        BY <1>10
    <2> QED
        BY <1>11, <1>18, <2>1, <2>2, <2>3, Zenon
<1>20. pc'[r] # "start"
    BY <1>12
<1> QED
    BY <1>3, <1>11, <1>13, <1>14, <1>16, <1>19, <1>20, SendStep

\* TransmitComplete, with nothing more to transmit.
LEMMA ReadyStep ==
    ASSUME Inv, NEW r \in Rank, NEW next \in m_events[r],
           Take(r, next), next.kind = "complete",
           transmitting' = [transmitting EXCEPT ![r] = @ \ {next.arg}],
           m_events' = [m_events EXCEPT ![r] = @ \ {next}],
           m_uid' = m_uid, mpi' = mpi, m_stop' = m_stop,
           pc' = [pc EXCEPT ![r] = "receive"]
    PROVE  Inv'
<1>1. next.kind # "null" /\ next.kind # "stop"
    OBVIOUS
<1>2. /\ m_events[r] \in SUBSET Event /\ m_safeTime[r] \in Nat /\ RankOK(r) /\ Types
    BY AtRank DEF Inv
<1>3. /\ m_currentTs' = [m_currentTs EXCEPT ![r] = next.ts]
      /\ m_currentTs'[r] = next.ts /\ next.ts \in Nat
      /\ m_safeTime' = m_safeTime /\ m_guaranteeTime' = m_guaranteeTime
      /\ ops' = ops /\ \A e \in m_events[r] : next.ts <= e.ts
    BY TakeProperties, Zenon
<1>4. /\ m_events'[r] = m_events[r] \ {next}
      /\ pc'[r] = "receive"
      /\ transmitting'[r] = transmitting[r] \ {next.arg}
    BY <1>2 DEF Types
<1>5. Types'
    <2>1. pc' \in [Rank -> Pcs]
        BY <1>2 DEF Types, Pcs
    <2>2. m_events' \in [Rank -> SUBSET Event]
        BY <1>2 DEF Types
    <2>3. transmitting' \in [Rank -> SUBSET Channel]
        BY <1>2 DEF Types
    <2>4. m_currentTs' \in [Rank -> Nat]
        BY <1>2, <1>3 DEF Types
    <2> QED
        BY <1>2, <1>3, <2>1, <2>2, <2>3, <2>4, Zenon DEF Types
<1>6. \A p \in Rank \ {r} : Rests(p)
    BY <1>2, <1>3 DEF Types, Rests
<1>7. RankOK(r)'
    <2>1. \A e \in m_events'[r] : /\ next.ts <= e.ts
                                  /\ e.kind = "null" => e.arg \in Neighbors[r]
        BY <1>2, <1>3, <1>4 DEF RankOK
    <2>2. \A e \in m_events[r] : e.kind = "stop" => e \in m_events'[r]
        BY <1>1, <1>4
    <2>3. \A q \in Neighbors[r] : NullDue(m_events'[r], next.ts, r, q)
        <3>1. \A q \in Neighbors[r] : NullDue(m_events[r] \ {next}, next.ts, r, q)
            BY <1>1, NullDueAfterTake, Zenon
        <3> QED
            BY <1>4, <3>1
    <2>4. pc'[r] \in {"handler", "receive"}
        BY <1>4
    <2> QED
        BY <2>1, <2>2, <2>3, <2>4, RankAfterTake, Zenon
<1>8. ASSUME NEW q \in Neighbors[r], NEW g \in Promised(r, q)
      PROVE  g \in Promised(r, q)'
    <2>1. g \in Nat /\ Keeps(m_events[r], m_safeTime[r], m_currentTs[r], pc[r],
                             transmitting[r], r, q, g)
        BY PromisedMeans
    <2>2. Keeps(m_events'[r], m_safeTime[r], next.ts, "handler", transmitting'[r], r, q, g)
        <3>1. Keeps(m_events[r] \ {next}, m_safeTime[r], next.ts, "handler",
                    transmitting[r] \ {next.arg}, r, q, g)
            BY <1>2, <1>3, <2>1, KeepsComplete
        <3> QED
            BY <1>4, <3>1
    <2>3. m_safeTime[r] <= m_safeTime[r]
        BY <1>2
    <2>4. Keeps(m_events'[r], m_safeTime[r], next.ts, pc'[r], transmitting'[r], r, q, g)
        BY <1>2, <2>1, <2>2, <2>3, KeepsWeaker, Zenon
    <2> QED
        BY <1>3, <2>1, <2>4, PromisedMeansAfter
<1>9. pc'[r] # "start"
    BY <1>4
<1> QED
    BY <1>3, <1>5, <1>6, <1>7, <1>8, <1>9, LocalStep

\* TransmitComplete, with another packet in the queue.
LEMMA NextPacketStep ==
    ASSUME Inv, NEW r \in Rank, NEW next \in m_events[r], ~ overlapped',
           Take(r, next), next.kind = "complete",
           NEW s \in Neighbors[r], NEW txTime \in TxTimes, next.arg \in Bundle(r, s),
           TransmitStart(r, s, next.arg, next.ts, txTime, m_events[r] \ {next}),
           m_stop' = m_stop, pc' = [pc EXCEPT ![r] = "receive"]
    PROVE  Inv'
<1> DEFINE c      == next.arg
           events == m_events[r] \ {next}
           now    == next.ts
           safe   == m_safeTime[r]
           busy   == transmitting[r] \ {c}
<1>1. /\ m_events[r] \in SUBSET Event /\ m_currentTs[r] \in Nat
      /\ transmitting[r] \in SUBSET Channel /\ m_safeTime[r] \in Nat
      /\ RankOK(r) /\ Types
    BY AtRank DEF Inv
<1>2. /\ m_currentTs' = [m_currentTs EXCEPT ![r] = now]
      /\ m_currentTs'[r] = now /\ now \in Nat /\ m_currentTs[r] <= now
      /\ m_safeTime' = m_safeTime /\ m_guaranteeTime' = m_guaranteeTime
      /\ ops' = ops /\ \A e \in m_events[r] : now <= e.ts
      /\ \A q \in Neighbors[r] : NullDue(m_events[r], m_currentTs[r], r, q)
    BY TakeProperties, Zenon
<1>3. /\ events \in SUBSET m_events[r]
      /\ \A e \in events : now <= e.ts
      /\ \A b \in Bundle(r, s) : b \notin busy
    <2>1. \A b \in Bundle(r, s) : b = next.arg \/ b \notin transmitting[r]
        BY NoOverlap
    <2> QED
        BY <1>2, <2>1
<1>4. ASSUME NEW q \in Neighbors[r]
      PROVE  NullDue(events, m_currentTs[r], r, q)
    <2>1. \A f : IsNullEvent(f, q) => (f \in m_events[r] <=> f \in events)
        BY DEF IsNullEvent
    <2>2. m_currentTs[r] <= m_currentTs[r]
        BY <1>1
    <2> QED
        BY <1>1, <1>2, <2>1, <2>2, NullDueStays, Zenon
<1>5. TransmitStart(r, s, c, now, txTime, events)
    OBVIOUS
<1>6. /\ m_events' \in [Rank -> SUBSET Event]
      /\ \A p \in Rank \ {r} : m_events'[p] = m_events[p]
      /\ \A e \in m_events'[r] : /\ now <= e.ts
                                 /\ e.kind = "null" => e.arg \in Neighbors[r]
      /\ \A e \in events : e.kind = "stop" => e \in m_events'[r]
      /\ \A q \in Neighbors[r] : NullDue(m_events'[r], now, r, q)
      /\ \E m \in Message :
             /\ mpi' = [mpi EXCEPT ![r][s] = Append(@, m)]
             /\ Keeps(m_events'[r], safe, now, "handler", busy \cup {c}, r, s, m.guarantee)
             /\ \A g \in Nat : Keeps(events, safe, now, "handler", busy, r, s, g)
                               => m.guarantee >= g /\ m.rxTime >= g
      /\ \A q \in Neighbors[r], g \in Nat :
             Keeps(events, safe, now, "handler", busy, r, q, g)
             => Keeps(m_events'[r], safe, now, "handler", busy \cup {c}, r, q, g)
    <2> HIDE DEF c, events, now, safe, busy
    <2> QED
        BY <1>1, <1>2, <1>3, <1>4, <1>5, TransmitStartProperties DEF c, safe
<1>7. /\ transmitting' = [transmitting EXCEPT ![r] = @ \cup {c}]
      /\ m_uid' = [m_uid EXCEPT ![r] = @ + 2]
    BY DEF TransmitStart
<1>8. transmitting'[r] = busy \cup {c} /\ pc'[r] = "receive"
    BY <1>1, <1>7 DEF Types
<1>9. PICK m \in Message :
          /\ mpi' = [mpi EXCEPT ![r][s] = Append(@, m)]
          /\ Keeps(m_events'[r], safe, now, "handler", busy \cup {c}, r, s, m.guarantee)
          /\ \A g \in Nat : Keeps(events, safe, now, "handler", busy, r, s, g)
                            => m.guarantee >= g /\ m.rxTime >= g
    BY <1>6, Zenon
<1>10. /\ mpi' = [p \in Rank |-> mpi'[p]]
       /\ \A p \in Rank : mpi'[p] \in [Neighbors[p] -> Seq(Message)]
       /\ \A p \in Rank \ {r} : mpi'[p] = mpi[p]
       /\ mpi'[r][s] = Append(mpi[r][s], m)
       /\ \A q \in Neighbors[r] : q # s => mpi'[r][q] = mpi[r][q]
    BY <1>1, <1>9, SendTypes, Zenon
<1>11. Types'
    <2>1. m_uid' \in [Rank -> Nat] /\ m_currentTs' \in [Rank -> Nat]
        BY <1>1, <1>2, <1>7 DEF Types
    <2>2. transmitting' \in [Rank -> SUBSET Channel]
        <3>1. c \in Channel
            BY NeighborsAreMutual
        <3> QED
            BY <1>1, <1>7, <3>1 DEF Types
    <2>3. pc' \in [Rank -> Pcs]
        BY <1>1 DEF Types, Pcs
    <2> QED
        BY <1>1, <1>2, <1>6, <1>10, <2>1, <2>2, <2>3, Zenon DEF Types
<1>12. \A p \in Rank \ {r} : Rests(p)
    BY <1>1, <1>2, <1>6, <1>7 DEF Types, Rests
<1>13. RankOK(r)'
    <2>1. \A e \in m_events[r] : e.kind = "stop" => e \in m_events'[r]
        BY <1>6
    <2>2. \A e \in m_events'[r] : /\ next.ts <= e.ts
                                  /\ e.kind = "null" => e.arg \in Neighbors[r]
        BY <1>6
    <2>3. \A q \in Neighbors[r] : NullDue(m_events'[r], next.ts, r, q)
        BY <1>6
    <2>4. pc'[r] \in {"handler", "receive"}
        BY <1>8
    <2> QED
        BY <2>1, <2>2, <2>3, <2>4, RankAfterTake, Zenon
<1> HIDE DEF events, safe, busy
<1>14. ASSUME NEW g \in Nat,
              Keeps(m_events'[r], safe, now, "handler", busy \cup {c}, r, s, g)
       PROVE  g \in Promised(r, s)'
    <2>1. safe \in Nat /\ safe <= safe
        BY <1>1 DEF safe
    <2>2. Keeps(m_events'[r], safe, now, pc'[r], busy \cup {c}, r, s, g)
        BY <1>8, <1>14, <2>1, KeepsWeaker
    <2> QED
        BY <1>2, <1>8, <2>2, PromisedMeansAfter DEF safe
<1>15. ASSUME NEW q \in Neighbors[r], NEW g \in Promised(r, q)
       PROVE  /\ g \in Promised(r, q)'
              /\ g \in Nat /\ Keeps(events, safe, now, "handler", busy, r, q, g)
    <2>1. g \in Nat /\ Keeps(m_events[r], safe, m_currentTs[r], pc[r],
                             transmitting[r], r, q, g)
        BY PromisedMeans DEF safe
    <2>2. Keeps(events, safe, now, "handler", busy, r, q, g)
        BY <1>1, <1>2, <2>1, KeepsComplete DEF events, busy
    <2>3. Keeps(m_events'[r], safe, now, "handler", busy \cup {c}, r, q, g)
        BY <1>6, <2>1, <2>2
    <2>4. safe \in Nat /\ safe <= safe
        BY <1>1 DEF safe
    <2>5. Keeps(m_events'[r], safe, now, pc'[r], busy \cup {c}, r, q, g)
        BY <1>8, <2>1, <2>3, <2>4, KeepsWeaker
    <2> QED
        BY <1>2, <1>8, <2>1, <2>2, <2>5, PromisedMeansAfter DEF safe
<1>16. m.guarantee \in Promised(r, s)'
    <2>1. m.guarantee \in Nat
        BY DEF Message
    <2> QED
        BY <1>9, <1>14, <2>1
<1>17. \A g \in Promised(r, s) : m.guarantee >= g /\ (m.rxTime > 0 => m.rxTime >= g)
    BY <1>9, <1>15
<1>18. \A q \in Neighbors[r] :
           /\ Promised(r, q) \subseteq Promised(r, q)'
           /\ \/ mpi'[r][q] = mpi[r][q]
              \/ \E mm \in Message :
                     /\ mpi'[r][q] = Append(mpi[r][q], mm)
                     /\ mm.guarantee \in Promised(r, q)'
                     /\ \A g \in Promised(r, q) :
                            /\ mm.guarantee >= g
                            /\ mm.rxTime > 0 => mm.rxTime >= g
    <2>1. \A q \in Neighbors[r] : Promised(r, q) \subseteq Promised(r, q)'
        BY <1>15
    <2> QED
        BY <1>10, <1>16, <1>17, <2>1, Zenon
<1>19. pc'[r] # "start"
    BY <1>8
<1> QED
    BY <1>2, <1>10, <1>11, <1>12, <1>13, <1>18, <1>19, SendStep

LEMMA ProcessOneEventStep ==
    ASSUME Inv, NEW r \in Rank, ProcessOneEvent(r), ~ overlapped'
    PROVE  Inv'
<1>1. PICK next \in m_events[r] : \/ RunProgram(r, next)
                                  \/ RunStop(r, next)
                                  \/ RunNull(r, next)
                                  \/ RunComplete(r, next)
    BY DEF ProcessOneEvent
<1>2. CASE RunComplete(r, next)
    <2>1. /\ next.kind = "complete" /\ Take(r, next)
          /\ pc' = [pc EXCEPT ![r] = "receive"] /\ m_stop' = m_stop
          /\ \/ /\ transmitting' = [transmitting EXCEPT ![r] = @ \ {next.arg}]
                /\ m_events' = [m_events EXCEPT ![r] = @ \ {next}]
                /\ m_uid' = m_uid /\ mpi' = mpi
             \/ \E s \in Neighbors[r], txTime \in TxTimes :
                    /\ next.arg \in Bundle(r, s)
                    /\ TransmitStart(r, s, next.arg, next.ts, txTime,
                                     m_events[r] \ {next})
        BY <1>2 DEF RunComplete
    <2> QED
        BY <2>1, ReadyStep, NextPacketStep, Zenon
<1> QED
    BY <1>1, <1>2, RunPlainStep, RunNullStep, Zenon
-----------------------------------------------------------------------------
(* Run, and the messages a rank receives.                                  *)

LEMMA RunStep ==
    ASSUME Inv, NEW r \in Rank, NEW place \in Places(r), Run(r, place)
    PROVE  Inv'
<1> DEFINE events   == m_events[r]
           new(q)   == NullEvent(r, q, m_currentTs[r], m_uid[r] + place[q])
           after    == events \cup {new(q) : q \in Neighbors[r]}
           first(q) == [rxTime |-> 0, guarantee |-> GetDelay[r][q]]
           n        == Cardinality(Neighbors[r])
<1>1. /\ events \in SUBSET Event /\ m_uid[r] \in Nat /\ RankOK(r) /\ Types
      /\ \A e \in events : e.ts \in Nat
    BY AtRank DEF Inv
<1>2. /\ mpi' = [mpi EXCEPT ![r] = [q \in Neighbors[r] |-> Append(@[q], first(q))]]
      /\ m_events' = [m_events EXCEPT ![r] = after]
      /\ m_uid' = [m_uid EXCEPT ![r] = @ + n]
      /\ m_safeTime' = [m_safeTime EXCEPT ![r] = 0]
      /\ m_stop' = [m_stop EXCEPT ![r] = FALSE]
      /\ pc' = [pc EXCEPT ![r] = "run"]
      /\ m_currentTs' = m_currentTs /\ m_guaranteeTime' = m_guaranteeTime
      /\ transmitting' = transmitting /\ ops' = ops
      /\ pc[r] = "start"
    BY DEF Run
<1>3. /\ m_currentTs[r] = 0 /\ m_safeTime[r] = 0
      /\ \A e \in events : e.kind # "null"
      /\ \E e \in events : e.kind = "stop" /\ e.ts = StopTime[r]
    BY <1>1, <1>2 DEF RankOK
<1>4. ASSUME NEW q \in Neighbors[r]
      PROVE  /\ GetDelay[r][q] \in Nat /\ Interval[r][q] \in Nat /\ q \in Rank
             /\ new(q) \in Event /\ new(q).ts = Interval[r][q]
             /\ new(q).kind = "null" /\ new(q).arg = q
             /\ first(q) \in Message
    <2>1. GetDelay[r][q] \in Nat /\ Interval[r][q] \in Nat /\ q \in Rank
        BY DelayProperties, IntervalType, NeighborsAreMutual
    <2>2. place[q] \in Nat
        <3>1. place[q] \in 0 .. n - 1
            BY DEF Places
        <3> QED
            BY <3>1
    <2> QED
        BY <1>1, <1>3, <2>1, <2>2 DEF NullEvent, Event, Message
<1>5. n \in Nat
    <2>1. IsFiniteSet(Neighbors[r])
        <3>1. Neighbors[r] \subseteq Rank
            BY DEF Neighbors
        <3> QED
            BY <3>1, RankAssumption, FS_Subset
    <2> QED
        BY <2>1, FS_CardinalityType
<1> HIDE DEF new, first, n
<1>6. after \in SUBSET Event
    BY <1>1, <1>4
<1>7. \A f \in after : f \in events \/ \E q \in Neighbors[r] : f = new(q)
    OBVIOUS
<1>8. \A q \in Neighbors[r] : new(q) \in after
    OBVIOUS
<1>9. \A e \in events : e \in after
    OBVIOUS
<1> HIDE DEF after
<1>10. /\ m_events'[r] = after /\ pc'[r] = "run" /\ m_safeTime'[r] = 0 /\ ~ m_stop'[r]
       /\ \A q \in Neighbors[r] : mpi'[r][q] = Append(mpi[r][q], first(q))
       /\ \A p \in Rank \ {r} : mpi'[p] = mpi[p]
    BY <1>1, <1>2 DEF Types
<1>11. Types'
    <2>1. pc' \in [Rank -> Pcs]
        BY <1>1, <1>2 DEF Types, Pcs
    <2>2. m_events' \in [Rank -> SUBSET Event]
        BY <1>1, <1>2, <1>6 DEF Types
    <2>3. m_stop' \in [Rank -> BOOLEAN]
        BY <1>1, <1>2, Zenon DEF Types
    <2>4. m_uid' \in [Rank -> Nat] /\ m_safeTime' \in [Rank -> Nat]
        BY <1>1, <1>2, <1>5 DEF Types
    <2>5. mpi' = [p \in Rank |-> mpi'[p]]
        BY <1>1, <1>2 DEF Types
    <2>6. ASSUME NEW p \in Rank PROVE mpi'[p] \in [Neighbors[p] -> Seq(Message)]
        <3>1. CASE p = r
            <4>1. ASSUME NEW q \in Neighbors[r]
                  PROVE  Append(mpi[r][q], first(q)) \in Seq(Message)
                <5>1. mpi[r][q] \in Seq(Message) /\ first(q) \in Message
                    BY <1>1, <1>4 DEF Types
                <5> QED
                    BY <5>1, AppendProperties
            <4>2. mpi'[r] = [q \in Neighbors[r] |-> Append(mpi[r][q], first(q))]
                BY <1>1, <1>2 DEF Types
            <4> QED
                BY <3>1, <4>1, <4>2
        <3>2. CASE p # r
            BY <1>1, <1>10, <3>2 DEF Types
        <3> QED
            BY <3>1, <3>2
    <2> QED
        BY <1>1, <1>2, <2>1, <2>2, <2>3, <2>4, <2>5, <2>6, Zenon DEF Types
<1>12. \A p \in Rank \ {r} : Rests(p)
    BY <1>1, <1>2 DEF Types, Rests
<1>13. ASSUME NEW q \in Neighbors[r]
       PROVE  NullDue(after, m_currentTs[r], r, q)
    <2>1. \A f \in after : IsNullEvent(f, q) <=> f = new(q)
        BY <1>3, <1>4, <1>7 DEF IsNullEvent
    <2>2. new(q) \in after /\ new(q).ts <= m_currentTs[r] + Interval[r][q]
        BY <1>3, <1>4, <1>8
    <2> QED
        BY <2>1, <2>2, Zenon DEF NullDue
<1>14. \A e \in after : m_currentTs[r] <= e.ts /\ (e.kind = "null" => e.arg \in Neighbors[r])
    BY <1>1, <1>3, <1>4, <1>7
<1>15. RankOK(r)'
    <2>1. \E e \in after : e.kind = "stop" /\ e.ts = StopTime[r]
        BY <1>3, <1>9
    <2> QED
        BY <1>1, <1>2, <1>3, <1>10, <1>13, <1>14, <2>1 DEF RankOK
<1>16. ASSUME NEW q \in Neighbors[r], NEW g \in Nat, g <= GetDelay[r][q]
       PROVE  g \in Promised(r, q)'
    <2>1. \A e \in after : g <= e.ts + GetDelay[r][q]
        <3>1. \A e \in after : e.ts \in Nat
            BY <1>6 DEF Event
        <3> QED
            BY <1>4, <1>16, <3>1
    <2>2. EventsKeep(after, m_currentTs[r], "run", r, q, g)
        BY <2>1 DEF EventsKeep
    <2>3. g <= 0 + GetDelay[r][q]
        BY <1>4, <1>16
    <2>4. Keeps(after, 0, m_currentTs[r], "run", transmitting[r], r, q, g)
        BY <2>2, <2>3, Zenon DEF Keeps
    <2> QED
        BY <1>2, <1>10, <2>4, PromisedMeansAfter
<1>17. ASSUME NEW q \in Neighbors[r], NEW g \in Promised(r, q)
       PROVE  g \in Nat /\ g <= GetDelay[r][q]
    <2>1. g \in Nat /\ g <= m_safeTime[r] + GetDelay[r][q]
        BY PromisedMeans, Zenon DEF Keeps
    <2> QED
        BY <1>3, <1>4, <2>1
<1>18. ASSUME NEW q \in Neighbors[r]
       PROVE  /\ Promised(r, q) \subseteq Promised(r, q)'
              /\ \E m \in Message :
                     /\ mpi'[r][q] = Append(mpi[r][q], m)
                     /\ m.guarantee \in Promised(r, q)'
                     /\ \A g \in Promised(r, q) :
                            /\ m.guarantee >= g
                            /\ m.rxTime > 0 => m.rxTime >= g
    <2>1. first(q) \in Message /\ first(q).guarantee = GetDelay[r][q]
          /\ first(q).rxTime = 0 /\ GetDelay[r][q] \in Nat
        BY <1>4 DEF first
    <2>2. GetDelay[r][q] \in Promised(r, q)'
        BY <1>16, <2>1
    <2>3. \A g \in Promised(r, q) : /\ first(q).guarantee >= g
                                    /\ first(q).rxTime > 0 => first(q).rxTime >= g
        BY <1>17, <2>1
    <2>4. Promised(r, q) \subseteq Promised(r, q)'
        BY <1>16, <1>17
    <2>5. first(q).guarantee \in Promised(r, q)'
        BY <2>1, <2>2
    <2> QED
        BY <1>10, <2>1, <2>3, <2>4, <2>5, Zenon
<1>19. pc'[r] # "start"
    BY <1>10
<1> QED
    BY <1>2, <1>10, <1>11, <1>12, <1>15, <1>18, <1>19, SendStep

\* The safe time is the smallest guarantee.
LEMMA SafeTimeProperties ==
    ASSUME NEW r \in Rank, NEW guarantee \in [Neighbors[r] -> Nat]
    PROVE  /\ SafeTime(guarantee) \in Nat
           /\ \A q \in Neighbors[r] : SafeTime(guarantee) <= guarantee[q]
           /\ \A x \in Nat : (\A q \in Neighbors[r] : x <= guarantee[q])
                             => x <= SafeTime(guarantee)
<1> DEFINE G == {guarantee[q] : q \in Neighbors[r]}
<1>1. G \subseteq Nat /\ G # {} /\ \A q \in Neighbors[r] : guarantee[q] \in G
    BY NeighborsAssumption
<1>2. SafeTime(guarantee) = Least(G)
    BY DEF SafeTime
<1>3. \A y \in G : \E q \in Neighbors[r] : y = guarantee[q]
    OBVIOUS
<1> HIDE DEF G
<1>4. Least(G) \in G /\ \A y \in G : Least(G) <= y
    BY <1>1, LeastProperties
<1> QED
    BY <1>1, <1>2, <1>3, <1>4

LEMMA ReceiveNoneStep ==
    ASSUME Inv, NEW r \in Rank, ReceiveNone(r)
    PROVE  Inv'
<1> DEFINE safe  == m_safeTime[r]
           safer == SafeTime(m_guaranteeTime[r])
<1>1. /\ safe \in Nat /\ m_currentTs[r] \in Nat /\ RankOK(r) /\ Types
    BY AtRank DEF Inv
<1>2. /\ m_safeTime' = [m_safeTime EXCEPT ![r] = safer]
      /\ pc' = [pc EXCEPT ![r] = "run"] /\ pc[r] = "receive"
      /\ m_events' = m_events /\ m_uid' = m_uid /\ m_currentTs' = m_currentTs
      /\ m_stop' = m_stop /\ m_guaranteeTime' = m_guaranteeTime
      /\ transmitting' = transmitting /\ mpi' = mpi /\ ops' = ops
    BY DEF ReceiveNone, clock
<1>3. /\ safer \in Nat /\ safe <= safer
      /\ \A q \in Neighbors[r] : safer <= m_guaranteeTime[r][q]
    <2>1. m_guaranteeTime[r] \in [Neighbors[r] -> Nat]
        BY <1>1 DEF Types
    <2>2. \A q \in Neighbors[r] : safe <= m_guaranteeTime[r][q]
        BY <1>1 DEF RankOK
    <2> QED
        BY <1>1, <2>1, <2>2, SafeTimeProperties
<1> HIDE DEF safer
<1>4. m_safeTime'[r] = safer /\ pc'[r] = "run"
    BY <1>1, <1>2 DEF Types
<1>5. Types'
    <2>1. pc' \in [Rank -> Pcs]
        BY <1>1, <1>2 DEF Types, Pcs
    <2>2. m_safeTime' \in [Rank -> Nat]
        BY <1>1, <1>2, <1>3 DEF Types
    <2> QED
        BY <1>1, <1>2, <2>1, <2>2, Zenon DEF Types
<1>6. \A p \in Rank \ {r} : Rests(p)
    BY <1>1, <1>2 DEF Types, Rests
<1>7. RankOK(r)'
    BY <1>1, <1>2, <1>3, <1>4 DEF RankOK
<1>8. ASSUME NEW q \in Neighbors[r], NEW g \in Promised(r, q)
      PROVE  g \in Promised(r, q)'
    <2>1. g \in Nat /\ Keeps(m_events[r], safe, m_currentTs[r], pc[r],
                             transmitting[r], r, q, g)
        BY PromisedMeans
    <2>2. Keeps(m_events[r], safer, m_currentTs[r], pc'[r], transmitting[r], r, q, g)
        BY <1>1, <1>3, <1>4, <2>1, KeepsWeaker
    <2> QED
        BY <1>2, <1>4, <2>1, <2>2, PromisedMeansAfter
<1>9. pc'[r] # "start"
    BY <1>4
<1> QED
    BY <1>2, <1>5, <1>6, <1>7, <1>8, <1>9, LocalStep

LEMMA TakeMessageStep ==
    ASSUME Inv, NEW r \in Rank, NEW s \in Neighbors[r], TakeMessage(r, s),
           pc' = pc, pc[r] \in {"run", "receive"},
           \/ m_safeTime' = m_safeTime
           \/ m_safeTime' = [m_safeTime EXCEPT ![r] = SafeTime(m_guaranteeTime'[r])]
    PROVE  Inv'
<1> DEFINE m    == Head(mpi[s][r])
           safe == m_safeTime[r]
           now  == m_currentTs[r]
           e    == [ts |-> now + (m.rxTime - now), uid |-> m_uid[r],
                    kind |-> "program", arg |-> r]
<1>1. /\ safe \in Nat /\ now \in Nat /\ m_uid[r] \in Nat /\ RankOK(r) /\ Types
      /\ m_events[r] \in SUBSET Event /\ now <= safe
      /\ \A q \in Neighbors[r] : m_guaranteeTime[r][q] \in Nat
                                 /\ safe <= m_guaranteeTime[r][q]
    BY AtRank DEF Inv, RankOK
<1>2. s \in Rank /\ s # r /\ r \in Neighbors[s]
    BY NeighborsAreMutual
<1>3. /\ mpi[s][r] # <<>>
      /\ mpi' = [mpi EXCEPT ![s][r] = Tail(@)]
      /\ \/ /\ m.rxTime > 0
            /\ m_events' = [m_events EXCEPT ![r] = @ \cup {e}]
            /\ m_uid' = [m_uid EXCEPT ![r] = @ + 1]
         \/ m_events' = m_events /\ m_uid' = m_uid
      /\ m_guaranteeTime' = [m_guaranteeTime EXCEPT ![r][s] = m.guarantee]
      /\ m_currentTs' = m_currentTs /\ m_stop' = m_stop
      /\ transmitting' = transmitting /\ ops' = ops
    BY Zenon DEF TakeMessage
<1>4. mpi[s][r] \in Seq(Message)
    BY <1>1, <1>2 DEF Types
<1>5. m \in Message /\ m.guarantee >= m_guaranteeTime[r][s]
      /\ (m.rxTime > 0 => m.rxTime >= m_guaranteeTime[r][s])
    <2>1. InOrder(Promised(s, r), m_guaranteeTime[r][s], mpi[s][r])
        BY <1>2, Zenon DEF Inv, ChannelOK
    <2> QED
        BY <1>3, <1>4, <2>1, InOrderTail
<1> HIDE DEF m
<1>6. m.guarantee \in Nat /\ m.rxTime \in Nat
    BY <1>5 DEF Message
<1>7. m.rxTime > 0 => e \in Event /\ e.kind = "program" /\ safe <= e.ts
    BY <1>1, <1>5, <1>6 DEF Event
<1> HIDE DEF e
<1>8. /\ m_guaranteeTime' = [p \in Rank |-> m_guaranteeTime'[p]]
      /\ \A p \in Rank : m_guaranteeTime'[p] \in [Neighbors[p] -> Nat]
      /\ \A p \in Rank \ {r} : m_guaranteeTime'[p] = m_guaranteeTime[p]
      /\ \A q \in Neighbors[r] : m_guaranteeTime[r][q] <= m_guaranteeTime'[r][q]
    <2>1. m_guaranteeTime'[r] = [m_guaranteeTime[r] EXCEPT ![s] = m.guarantee]
          /\ \A p \in Rank \ {r} : m_guaranteeTime'[p] = m_guaranteeTime[p]
        BY <1>1, <1>3 DEF Types
    <2>2. m_guaranteeTime[r] \in [Neighbors[r] -> Nat]
        BY <1>1 DEF Types
    <2>3. m_guaranteeTime'[r] \in [Neighbors[r] -> Nat]
        BY <1>6, <2>1, <2>2
    <2>4. \A q \in Neighbors[r] : m_guaranteeTime[r][q] <= m_guaranteeTime'[r][q]
        BY <1>5, <1>6, <2>1, <2>2
    <2>5. m_guaranteeTime' = [p \in Rank |-> m_guaranteeTime'[p]]
        BY <1>1, <1>3 DEF Types
    <2>6. \A p \in Rank : m_guaranteeTime'[p] \in [Neighbors[p] -> Nat]
        BY <1>1, <2>1, <2>3 DEF Types
    <2> QED
        BY <2>1, <2>4, <2>5, <2>6, Zenon
<1>9. /\ m_safeTime'[r] \in Nat /\ safe <= m_safeTime'[r]
      /\ \A q \in Neighbors[r] : m_safeTime'[r] <= m_guaranteeTime'[r][q]
    <2>1. \A q \in Neighbors[r] : safe <= m_guaranteeTime'[r][q]
                                  /\ m_guaranteeTime'[r][q] \in Nat
        BY <1>1, <1>8
    <2>2. CASE m_safeTime' = m_safeTime
        BY <1>1, <2>1, <2>2
    <2>3. CASE m_safeTime' = [m_safeTime EXCEPT ![r] = SafeTime(m_guaranteeTime'[r])]
        <3>1. m_safeTime'[r] = SafeTime(m_guaranteeTime'[r])
            BY <1>1, <2>3 DEF Types
        <3>2. m_guaranteeTime'[r] \in [Neighbors[r] -> Nat]
            BY <1>8
        <3> QED
            BY <1>1, <2>1, <3>1, <3>2, SafeTimeProperties
    <2> QED
        BY <2>2, <2>3
<1>10. \A p \in Rank \ {r} : m_safeTime'[p] = m_safeTime[p]
    BY <1>1 DEF Types
<1>11. \/ m_events'[r] = m_events[r] \cup {e} /\ m.rxTime > 0
       \/ m_events'[r] = m_events[r]
    BY <1>1, <1>3 DEF Types
<1>12. Types'
    <2>1. m_events' \in [Rank -> SUBSET Event]
        <3>1. CASE m.rxTime > 0 /\ m_events' = [m_events EXCEPT ![r] = @ \cup {e}]
            <4>1. m_events[r] \cup {e} \in SUBSET Event
                BY <1>1, <1>7, <3>1
            <4> QED
                BY <1>1, <3>1, <4>1 DEF Types
        <3>2. CASE m_events' = m_events
            BY <1>1, <3>2 DEF Types
        <3> QED
            BY <1>3, <3>1, <3>2, Zenon
    <2>2. m_uid' \in [Rank -> Nat]
        BY <1>1, <1>3 DEF Types
    <2>3. m_safeTime' \in [Rank -> Nat]
        BY <1>1, <1>9, <1>10 DEF Types
    <2>4. mpi' = [p \in Rank |-> mpi'[p]]
          /\ \A p \in Rank : mpi'[p] \in [Neighbors[p] -> Seq(Message)]
        <3>1. /\ mpi = [p \in Rank |-> mpi[p]]
              /\ \A p \in Rank : mpi[p] \in [Neighbors[p] -> Seq(Message)]
            BY <1>1 DEF Types
        <3>2. mpi'[s] = [mpi[s] EXCEPT ![r] = Tail(mpi[s][r])]
              /\ \A p \in Rank \ {s} : mpi'[p] = mpi[p]
            BY <1>2, <1>3, <3>1
        <3>3. Tail(mpi[s][r]) \in Seq(Message)
            BY <1>3, <1>4, HeadTailProperties
        <3>4. mpi'[s] \in [Neighbors[s] -> Seq(Message)]
            BY <1>2, <3>1, <3>2, <3>3
        <3>5. mpi' = [p \in Rank |-> mpi'[p]]
            BY <1>3, <3>1
        <3> QED
            BY <3>1, <3>2, <3>4, <3>5
    <2> QED
        BY <1>1, <1>3, <1>8, <2>1, <2>2, <2>3, <2>4, Zenon DEF Types
<1>13. \A p \in Rank \ {r} : Rests(p)
    <2>1. \A p \in Rank \ {r} : m_events'[p] = m_events[p]
        BY <1>1, <1>3 DEF Types
    <2> QED
        BY <1>3, <1>8, <1>10, <2>1, Zenon DEF Rests
<1>14. RankOK(r)'
    <2>1. \A f \in m_events'[r] : /\ now <= f.ts
                                  /\ f.kind = "null" => f.arg \in Neighbors[r]
        <3>1. \A f \in m_events[r] : /\ now <= f.ts
                                     /\ f.kind = "null" => f.arg \in Neighbors[r]
            BY <1>1 DEF RankOK
        <3>2. m.rxTime > 0 => now <= e.ts /\ e.kind # "null"
            <4>1. m.rxTime > 0 => e.ts \in Nat
                BY <1>7 DEF Event
            <4> QED
                BY <1>1, <1>7, <4>1
        <3> QED
            BY <1>11, <3>1, <3>2
    <2>2. ~ m_stop[r] => \E f \in m_events'[r] : f.kind = "stop" /\ f.ts = StopTime[r]
        BY <1>1, <1>11 DEF RankOK
    <2>3. ASSUME NEW q \in Neighbors[r]
          PROVE  NullDue(m_events'[r], now, r, q)
        <3>1. NullDue(m_events[r], now, r, q)
            BY <1>1 DEF RankOK
        <3>2. \A f : IsNullEvent(f, q) => (f \in m_events[r] <=> f \in m_events'[r])
            BY <1>7, <1>11 DEF IsNullEvent
        <3>3. now <= now
            BY <1>1
        <3> QED
            BY <1>1, <3>1, <3>2, <3>3, NullDueStays, Zenon
    <2>4. now <= m_safeTime'[r] /\ now <= StopTime[r]
        BY <1>1, <1>9 DEF RankOK
    <2> HIDE DEF now
    <2> QED
        BY <1>3, <1>9, <2>1, <2>2, <2>3, <2>4 DEF RankOK, now
<1>15. ASSUME NEW q \in Neighbors[r], NEW g \in Promised(r, q)
       PROVE  g \in Promised(r, q)'
    <2>1. g \in Nat /\ Keeps(m_events[r], safe, now, pc[r], transmitting[r], r, q, g)
        BY PromisedMeans
    <2>2. Keeps(m_events'[r], safe, now, pc[r], transmitting[r], r, q, g)
        <3>1. CASE m_events'[r] = m_events[r]
            BY <2>1, <3>1
        <3>2. CASE m_events'[r] = m_events[r] \cup {e} /\ m.rxTime > 0
            <4>1. e \in Event /\ e.kind = "program" /\ safe <= e.ts
                BY <1>7, <3>2
            <4>2. Keeps(m_events[r] \cup {e}, safe, now, pc[r], transmitting[r], r, q, g)
                BY <1>1, <2>1, <4>1, KeepsProgram
            <4> QED
                BY <3>2, <4>2
        <3> QED
            BY <1>11, <3>1, <3>2
    <2>3. Keeps(m_events'[r], m_safeTime'[r], now, pc[r], transmitting[r], r, q, g)
        BY <1>1, <1>9, <2>1, <2>2, KeepsWeaker
    <2> QED
        BY <1>3, <2>1, <2>3, PromisedMeansAfter
<1>16. pc'[r] # "start"
    OBVIOUS
<1> QED
    BY <1>3, <1>12, <1>13, <1>14, <1>15, <1>16, ReceiveStep DEF m

LEMMA ReceiveMessageStep ==
    ASSUME Inv, NEW r \in Rank, NEW s \in Neighbors[r],
           ReceiveNonBlocking(r, s) \/ ReceiveBlocking(r, s)
    PROVE  Inv'
<1>1. /\ TakeMessage(r, s)
      /\ pc' = pc /\ pc[r] \in {"run", "receive"}
      /\ \/ m_safeTime' = m_safeTime
         \/ m_safeTime' = [m_safeTime EXCEPT ![r] = SafeTime(m_guaranteeTime'[r])]
    BY DEF ReceiveNonBlocking, ReceiveBlocking
<1> QED
    BY <1>1, TakeMessageStep
-----------------------------------------------------------------------------
(* The invariant.                                                          *)

LEMMA InitInv == Init => Inv
<1> SUFFICES ASSUME Init PROVE Inv
    OBVIOUS
<1> DEFINE stop(r) == [ts |-> StopTime[r], uid |-> 0, kind |-> "stop", arg |-> r]
<1>1. \A r \in Rank : stop(r) \in Event /\ stop(r).ts = StopTime[r]
                      /\ stop(r).kind = "stop" /\ StopTime[r] \in Nat
    BY StopTimeAssumption DEF Event
<1> HIDE DEF stop
<1>2. /\ pc = [r \in Rank |-> "start"]
      /\ m_events = [r \in Rank |-> {stop(r)}]
      /\ m_uid = [r \in Rank |-> 1] /\ m_currentTs = [r \in Rank |-> 0]
      /\ m_stop = [r \in Rank |-> FALSE] /\ m_safeTime = [r \in Rank |-> 0]
      /\ m_guaranteeTime = [r \in Rank |-> [q \in Neighbors[r] |-> 0]]
      /\ transmitting = [r \in Rank |-> {}]
      /\ mpi = [r \in Rank |-> [q \in Neighbors[r] |-> <<>>]]
      /\ ops = 0
    BY DEF Init, stop
<1>3. Types
    <2>1. m_events \in [Rank -> SUBSET Event]
        BY <1>1, <1>2
    <2>2. m_stop \in [Rank -> BOOLEAN]
        BY <1>2
    <2>3. /\ m_uid \in [Rank -> Nat] /\ m_currentTs \in [Rank -> Nat]
          /\ m_safeTime \in [Rank -> Nat] /\ transmitting \in [Rank -> SUBSET Channel]
          /\ pc \in [Rank -> Pcs]
        BY <1>2 DEF Pcs
    <2>4. /\ m_guaranteeTime = [r \in Rank |-> m_guaranteeTime[r]]
          /\ \A r \in Rank : m_guaranteeTime[r] \in [Neighbors[r] -> Nat]
        BY <1>2
    <2>5. /\ mpi = [r \in Rank |-> mpi[r]]
          /\ \A r \in Rank : mpi[r] \in [Neighbors[r] -> Seq(Message)]
        <3>1. <<>> \in Seq(Message)
            BY EmptySeq
        <3> QED
            BY <1>2, <3>1
    <2>6. ops \in 0 .. MaxOps
        BY <1>2, MaxOpsAssumption
    <2> QED
        BY <2>1, <2>2, <2>3, <2>4, <2>5, <2>6 DEF Types
<1>4. ASSUME NEW r \in Rank PROVE RankOK(r)
    <2>1. /\ pc[r] = "start" /\ m_events[r] = {stop(r)} /\ m_currentTs[r] = 0
          /\ m_safeTime[r] = 0 /\ ~ m_stop[r]
          /\ \A q \in Neighbors[r] : m_guaranteeTime[r][q] = 0
        BY <1>2
    <2> QED
        BY <1>1, <2>1 DEF RankOK
<1>5. ASSUME NEW p \in Rank, NEW q \in Neighbors[p] PROVE ChannelOK(p, q)
    <2>1. q \in Rank /\ p \in Neighbors[q]
        BY NeighborsAreMutual
    <2>2. mpi[p][q] = <<>> /\ m_guaranteeTime[q][p] = 0
        BY <1>2, <2>1
    <2>3. 0 \in Promised(p, q)
        <3>1. GetDelay[p][q] \in Nat
            BY DelayProperties
        <3>2. \A e \in m_events[p] : e.ts \in Nat
            BY <1>3 DEF Types, Event
        <3>3. pc[p] # "handler" /\ m_safeTime[p] = 0
            BY <1>2
        <3>4. EventsKeep(m_events[p], m_currentTs[p], pc[p], p, q, 0)
            BY <3>1, <3>2, <3>3 DEF EventsKeep
        <3>5. 0 <= m_safeTime[p] + GetDelay[p][q]
            BY <3>1, <3>3
        <3>6. Keeps(m_events[p], m_safeTime[p], m_currentTs[p], pc[p],
                    transmitting[p], p, q, 0)
            BY <3>4, <3>5, Zenon DEF Keeps
        <3> QED
            BY <3>6 DEF Promised
    <2>4. InOrder(Promised(p, q), 0, <<>>)
        <3>1. \A i : i \notin 1 .. Len(<<>>)
            BY EmptySeq
        <3> QED
            BY <2>3, <3>1, Zenon DEF InOrder
    <2> QED
        BY <2>2, <2>4 DEF ChannelOK
<1> QED
    BY <1>3, <1>4, <1>5 DEF Inv

\* What has overlapped has overlapped.
LEMMA OverlappedStays ==
    ASSUME [Next]_vars, overlapped
    PROVE  overlapped'
<1>1. ASSUME NEW r \in Rank, Program(r) PROVE overlapped'
    BY <1>1, Zenon DEF Program, Schedule, Transmit, TransmitStart
<1>2. ASSUME NEW r \in Rank, Step(r) PROVE overlapped'
    BY <1>2, Zenon DEF Step, Run, ProcessOneEvent, RunProgram, RunStop, RunNull, RunComplete,
       TransmitStart, HandlerReturns, ReceiveNone, ReceiveNonBlocking, ReceiveBlocking,
       TakeMessage, Finish, vars
<1> QED
    BY <1>1, <1>2, Zenon DEF Next, Terminated, vars

LEMMA NextInv == ASSUME Inv, [Next]_vars, ~ overlapped' PROVE Inv'
<1>1. CASE UNCHANGED vars
    <2>1. /\ pc' = pc /\ m_events' = m_events /\ m_uid' = m_uid
          /\ m_currentTs' = m_currentTs /\ m_stop' = m_stop
          /\ m_safeTime' = m_safeTime /\ m_guaranteeTime' = m_guaranteeTime
          /\ transmitting' = transmitting /\ mpi' = mpi /\ ops' = ops
        BY <1>1 DEF vars, clock, safety
    <2> QED
        BY <2>1 DEF Inv, Types, RankOK, ChannelOK, Promised
<1>2. ASSUME NEW r \in Rank, Program(r)
      PROVE  Inv'
    <2>1. \/ \E delay \in Delays : Schedule(r, delay)
          \/ \E q \in Neighbors[r], c \in Channel, txTime \in TxTimes :
                 Transmit(r, q, c, txTime)
        BY <1>2 DEF Program
    <2> QED
        BY <2>1, ScheduleStep, TransmitStep, Zenon
<1>3. ASSUME NEW r \in Rank, Step(r)
      PROVE  Inv'
    <2>1. \/ \E place \in Places(r) : Run(r, place)
          \/ ProcessOneEvent(r)
          \/ HandlerReturns(r)
          \/ ReceiveNone(r)
          \/ \E q \in Neighbors[r] : ReceiveNonBlocking(r, q) \/ ReceiveBlocking(r, q)
          \/ Finish(r)
        BY <1>3 DEF Step
    <2> QED
        BY <2>1, RunStep, ProcessOneEventStep, LeavingStep, ReceiveNoneStep,
           ReceiveMessageStep, Zenon
<1> QED
    BY <1>1, <1>2, <1>3, Zenon DEF Next, Terminated
-----------------------------------------------------------------------------
(* Types, whatever overlaps.                                               *)

\* The list of a rank that was not stopped holds its stop event, so that there
\* is always an event from which a guarantee is computed.
RankTypes(r) ==
    /\ m_currentTs[r] <= StopTime[r]
    /\ \A e \in m_events[r] : e.kind = "null" => e.arg \in Neighbors[r]
    /\ ~ m_stop[r] => \E e \in m_events[r] : e.kind = "stop" /\ e.ts = StopTime[r]
    /\ pc[r] = "start" => ~ m_stop[r]

TypeInv == Types /\ overlapped \in BOOLEAN /\ \A r \in Rank : RankTypes(r)

LEMMA AtTypedRank ==
    ASSUME TypeInv, NEW r \in Rank
    PROVE  /\ Types /\ RankTypes(r)
           /\ m_events[r] \in SUBSET Event
           /\ \A e \in m_events[r] : e.ts \in Nat
           /\ m_uid[r] \in Nat /\ m_currentTs[r] \in Nat /\ m_safeTime[r] \in Nat
           /\ m_stop[r] \in BOOLEAN /\ StopTime[r] \in Nat
<1>1. m_events[r] \in SUBSET Event
    BY DEF TypeInv, Types
<1>2. \A e \in m_events[r] : e.ts \in Nat
    BY <1>1 DEF Event
<1>3. m_stop[r] \in BOOLEAN
    BY Zenon DEF TypeInv, Types
<1>4. m_uid[r] \in Nat /\ m_currentTs[r] \in Nat /\ m_safeTime[r] \in Nat
    BY DEF TypeInv, Types
<1> QED
    BY <1>1, <1>2, <1>3, <1>4, StopTimeAssumption, Zenon DEF TypeInv

\* A step of rank r.
LEMMA TypeStep ==
    ASSUME TypeInv, NEW r \in Rank, Types', overlapped' \in BOOLEAN, RankTypes(r)',
           \A p \in Rank \ {r} : /\ pc'[p] = pc[p] /\ m_events'[p] = m_events[p]
                                 /\ m_currentTs'[p] = m_currentTs[p]
                                 /\ m_stop'[p] = m_stop[p]
    PROVE  TypeInv'
<1>1. ASSUME NEW p \in Rank PROVE RankTypes(p)'
    <2>1. RankTypes(p)
        BY Zenon DEF TypeInv
    <2> QED
        BY <2>1 DEF RankTypes
<1> QED
    BY <1>1, Zenon DEF TypeInv

LEMMA ScheduleTypes ==
    ASSUME TypeInv, NEW r \in Rank, NEW delay \in Delays, Schedule(r, delay)
    PROVE  TypeInv'
<1> DEFINE e == [ts |-> m_currentTs[r] + delay, uid |-> m_uid[r],
                 kind |-> "program", arg |-> r]
<1>1. /\ Types /\ RankTypes(r) /\ m_events[r] \in SUBSET Event
      /\ m_uid[r] \in Nat /\ m_currentTs[r] \in Nat
    BY AtTypedRank
<1>2. e \in Event /\ e.kind = "program"
    BY <1>1, DelaysAssumption DEF Event
<1>3. /\ m_events' = [m_events EXCEPT ![r] = @ \cup {e}]
      /\ m_uid' = [m_uid EXCEPT ![r] = @ + 1]
      /\ ops' = ops + 1 /\ ops < MaxOps
      /\ pc' = pc /\ m_currentTs' = m_currentTs /\ m_stop' = m_stop
      /\ m_safeTime' = m_safeTime /\ m_guaranteeTime' = m_guaranteeTime
      /\ transmitting' = transmitting /\ mpi' = mpi /\ overlapped' = overlapped
    BY DEF Schedule, MayCall, safety
<1> HIDE DEF e
<1>4. Types'
    <2>1. m_events' \in [Rank -> SUBSET Event]
        BY <1>1, <1>2, <1>3 DEF Types
    <2>2. m_uid' \in [Rank -> Nat]
        BY <1>1, <1>3 DEF Types
    <2>3. ops' \in 0 .. MaxOps
        BY <1>1, <1>3, MaxOpsAssumption DEF Types
    <2> QED
        BY <1>1, <1>3, <2>1, <2>2, <2>3, Zenon DEF Types
<1>5. RankTypes(r)'
    <2>1. m_events'[r] = m_events[r] \cup {e}
        BY <1>1, <1>3 DEF Types
    <2> QED
        BY <1>1, <1>2, <1>3, <2>1 DEF RankTypes
<1>6. \A p \in Rank \ {r} : m_events'[p] = m_events[p]
    BY <1>1, <1>3 DEF Types
<1>7. overlapped' \in BOOLEAN
    BY <1>3, Zenon DEF TypeInv
<1> QED
    BY <1>3, <1>4, <1>5, <1>6, <1>7, TypeStep

\* TransmitStart, with an event in the list that is no null message event.
LEMMA TransmitStartTypes ==
    ASSUME TypeInv, NEW r \in Rank, NEW s \in Neighbors[r], NEW c \in Bundle(r, s),
           NEW txTime \in TxTimes, NEW now \in Nat, NEW events \in SUBSET m_events[r],
           TransmitStart(r, s, c, now, txTime, events)
    PROVE  /\ m_events' \in [Rank -> SUBSET Event]
           /\ \A p \in Rank \ {r} : m_events'[p] = m_events[p]
           /\ \A e \in m_events'[r] : e.kind = "null" => e.arg \in Neighbors[r]
           /\ \A e \in events : e.kind = "stop" => e \in m_events'[r]
           /\ m_uid' \in [Rank -> Nat]
           /\ transmitting' \in [Rank -> SUBSET Channel]
           /\ mpi' = [p \in Rank |-> mpi'[p]]
           /\ \A p \in Rank : mpi'[p] \in [Neighbors[p] -> Seq(Message)]
           /\ overlapped' \in BOOLEAN
<1> DEFINE end     == CompleteEvent(r, c, now, txTime)
           new     == NullEvent(r, s, now, m_uid[r] + 1)
           pending == events \cup {end}
           after   == AfterTransmit(events, s, end, new)
           g0      == Guarantee(r, s, pending)
           m       == [rxTime |-> now + txTime + Delay[c], guarantee |-> g0]
<1>1. /\ Types /\ RankTypes(r) /\ m_events[r] \in SUBSET Event
      /\ m_uid[r] \in Nat
    BY AtTypedRank
<1>2. /\ txTime \in Nat /\ Delay[c] \in Nat /\ c \in Channel /\ s \in Rank
      /\ InterframeGap \in Nat /\ Interval[r][s] \in Nat
    BY TxTimesAssumption, DelayProperties, NeighborsAreMutual, GapAssumption, IntervalType
<1>3. end \in Event /\ IsComplete(end, c)
    BY <1>1, <1>2 DEF CompleteEvent, Event, IsComplete
<1>4. new \in Event /\ IsNullEvent(new, s) /\ new.arg = s
    BY <1>1, <1>2 DEF NullEvent, Event, IsNullEvent
<1>5. m_events' = [m_events EXCEPT ![r] = after]
    BY DEF TransmitStart, AfterTransmit
<1>6. mpi' = [mpi EXCEPT ![r][s] = Append(@, m)]
    BY DEF TransmitStart, Send
<1>7. events \in SUBSET Event
    BY <1>1
<1>8. pending \in SUBSET Event /\ pending # {}
    BY <1>3, <1>7
<1> HIDE DEF end, new, after, pending
<1>9. g0 \in Nat
    BY <1>1, <1>8, GuaranteeProperties
<1>10. m \in Message
    BY <1>2, <1>9 DEF Message
<1>11. /\ after \in SUBSET Event
       /\ \A e \in after :
              \/ e \in events /\ ~ IsNullEvent(e, s)
              \/ e = end
              \/ e = new
              \/ e.kind = "cancelled" /\ \E f \in events : e.ts = f.ts /\ IsNullEvent(f, s)
       /\ \A e \in events : IsNullEvent(e, s) \/ e \in after
    BY <1>3, <1>4, <1>7, AfterTransmitProperties DEF after
<1>12. m_events' \in [Rank -> SUBSET Event] /\ m_events'[r] = after
       /\ \A p \in Rank \ {r} : m_events'[p] = m_events[p]
    BY <1>1, <1>5, <1>11 DEF Types
<1>13. \A e \in after : e.kind = "null" => e.arg \in Neighbors[r]
    <2>1. \A e \in events : e.kind = "null" => e.arg \in Neighbors[r]
        BY <1>1 DEF RankTypes
    <2>2. end.kind # "null"
        BY <1>3 DEF IsComplete
    <2> QED
        BY <1>4, <1>11, <2>1, <2>2
<1>14. \A e \in events : e.kind = "stop" => e \in after
    BY <1>11 DEF IsNullEvent
<1> HIDE DEF m
<1>15. /\ mpi' = [p \in Rank |-> mpi'[p]]
       /\ \A p \in Rank : mpi'[p] \in [Neighbors[p] -> Seq(Message)]
    BY <1>1, <1>6, <1>10, SendTypes, Zenon
<1>16. m_uid' \in [Rank -> Nat] /\ transmitting' \in [Rank -> SUBSET Channel]
    <2>1. m_uid' = [m_uid EXCEPT ![r] = @ + 2]
          /\ transmitting' = [transmitting EXCEPT ![r] = @ \cup {c}]
        BY DEF TransmitStart
    <2> QED
        BY <1>1, <1>2, <2>1 DEF Types
<1>17. overlapped' \in BOOLEAN
    <2>1. overlapped' = (overlapped \/ Overlaps(r, s, c))
        BY Zenon DEF TransmitStart
    <2> QED
        BY <2>1
<1> QED
    BY <1>12, <1>13, <1>14, <1>15, <1>16, <1>17

LEMMA TransmitTypes ==
    ASSUME TypeInv, NEW r \in Rank, NEW s \in Neighbors[r], NEW c,
           NEW txTime \in TxTimes, Transmit(r, s, c, txTime)
    PROVE  TypeInv'
<1>1. /\ Types /\ RankTypes(r) /\ m_currentTs[r] \in Nat
    BY AtTypedRank
<1>2. /\ TransmitStart(r, s, c, m_currentTs[r], txTime, m_events[r])
      /\ pc[r] = "handler"
      /\ c \in Bundle(r, s)
      /\ ops < MaxOps /\ ops' = ops + 1
      /\ pc' = pc /\ m_currentTs' = m_currentTs /\ m_stop' = m_stop
      /\ m_safeTime' = m_safeTime /\ m_guaranteeTime' = m_guaranteeTime
    BY DEF Transmit, MayCall, safety
<1>3. /\ m_events' \in [Rank -> SUBSET Event]
      /\ \A p \in Rank \ {r} : m_events'[p] = m_events[p]
      /\ \A e \in m_events'[r] : e.kind = "null" => e.arg \in Neighbors[r]
      /\ \A e \in m_events[r] : e.kind = "stop" => e \in m_events'[r]
      /\ m_uid' \in [Rank -> Nat]
      /\ transmitting' \in [Rank -> SUBSET Channel]
      /\ mpi' = [p \in Rank |-> mpi'[p]]
      /\ \A p \in Rank : mpi'[p] \in [Neighbors[p] -> Seq(Message)]
      /\ overlapped' \in BOOLEAN
    <2>1. m_events[r] \in SUBSET m_events[r]
        OBVIOUS
    <2> QED
        BY <1>1, <1>2, <2>1, TransmitStartTypes
<1>4. Types'
    <2>1. ops' \in 0 .. MaxOps
        BY <1>1, <1>2, MaxOpsAssumption DEF Types
    <2> QED
        BY <1>1, <1>2, <1>3, <2>1, Zenon DEF Types
<1>5. RankTypes(r)'
    BY <1>1, <1>2, <1>3 DEF RankTypes
<1> QED
    BY <1>2, <1>3, <1>4, <1>5, TypeStep

\* What ProcessOneEvent does to a rank before it invokes the event.
LEMMA TakeTypes ==
    ASSUME TypeInv, NEW r \in Rank, NEW next \in m_events[r], Take(r, next)
    PROVE  /\ pc[r] = "run" /\ ~ m_stop[r]
           /\ next \in Event /\ next.ts \in Nat /\ next.ts <= StopTime[r]
           /\ m_currentTs' \in [Rank -> Nat] /\ m_currentTs'[r] = next.ts
           /\ \A p \in Rank \ {r} : m_currentTs'[p] = m_currentTs[p]
           /\ m_safeTime' = m_safeTime /\ m_guaranteeTime' = m_guaranteeTime
           /\ ops' = ops
<1>1. /\ m_events[r] \in SUBSET Event /\ RankTypes(r) /\ Types
      /\ \A e \in m_events[r] : e.ts \in Nat
    BY AtTypedRank
<1>2. /\ pc[r] = "run" /\ ~ m_stop[r]
      /\ IsEarliest(next, m_events[r])
      /\ m_currentTs' = [m_currentTs EXCEPT ![r] = next.ts]
      /\ m_safeTime' = m_safeTime /\ m_guaranteeTime' = m_guaranteeTime
      /\ ops' = ops
    BY DEF Take, IsFinished, safety
<1>3. \A e \in m_events[r] : next.ts <= e.ts
    BY <1>1, <1>2 DEF IsEarliest, KeyLess
<1>4. next.ts <= StopTime[r]
    BY <1>1, <1>2, <1>3 DEF RankTypes
<1>5. m_currentTs' \in [Rank -> Nat] /\ m_currentTs'[r] = next.ts
      /\ \A p \in Rank \ {r} : m_currentTs'[p] = m_currentTs[p]
    BY <1>1, <1>2 DEF Types
<1> QED
    BY <1>1, <1>2, <1>4, <1>5, Zenon

\* An event that ends with these lists and messages.
LEMMA EventTypes ==
    ASSUME TypeInv, NEW r \in Rank, NEW next \in m_events[r], Take(r, next),
           m_events' \in [Rank -> SUBSET Event],
           \A p \in Rank \ {r} : m_events'[p] = m_events[p],
           \A e \in m_events'[r] : e.kind = "null" => e.arg \in Neighbors[r],
           \A e \in m_events[r] : e.kind = "stop" => e \in m_events'[r] \/ m_stop'[r],
           m_uid' \in [Rank -> Nat],
           transmitting' \in [Rank -> SUBSET Channel],
           mpi' = [p \in Rank |-> mpi'[p]],
           \A p \in Rank : mpi'[p] \in [Neighbors[p] -> Seq(Message)],
           overlapped' \in BOOLEAN,
           m_stop' \in [Rank -> BOOLEAN], \A p \in Rank \ {r} : m_stop'[p] = m_stop[p],
           NEW after \in {"handler", "receive"}, pc' = [pc EXCEPT ![r] = after]
    PROVE  TypeInv'
<1>1. Types /\ RankTypes(r)
    BY AtTypedRank
<1>2. /\ ~ m_stop[r] /\ next.ts <= StopTime[r]
      /\ m_currentTs' \in [Rank -> Nat] /\ m_currentTs'[r] = next.ts
      /\ \A p \in Rank \ {r} : m_currentTs'[p] = m_currentTs[p]
      /\ m_safeTime' = m_safeTime /\ m_guaranteeTime' = m_guaranteeTime
      /\ ops' = ops
    BY TakeTypes, Zenon
<1>3. /\ pc' \in [Rank -> Pcs] /\ pc'[r] # "start"
      /\ \A p \in Rank \ {r} : pc'[p] = pc[p]
    BY <1>1 DEF Types, Pcs
<1>4. Types'
    BY <1>1, <1>2, <1>3, Zenon DEF Types
<1>5. RankTypes(r)'
    BY <1>1, <1>2, <1>3 DEF RankTypes
<1> QED
    BY <1>2, <1>3, <1>4, <1>5, TypeStep

LEMMA RunPlainTypes ==
    ASSUME TypeInv, NEW r \in Rank, NEW next \in m_events[r],
           RunProgram(r, next) \/ RunStop(r, next)
    PROVE  TypeInv'
<1>1. /\ Take(r, next)
      /\ m_events' = [m_events EXCEPT ![r] = @ \ {next}]
      /\ m_uid' = m_uid /\ transmitting' = transmitting /\ mpi' = mpi
      /\ overlapped' = overlapped
      /\ \/ pc' = [pc EXCEPT ![r] = "handler"]
         \/ pc' = [pc EXCEPT ![r] = "receive"]
      /\ \/ m_stop' = m_stop /\ next.kind # "stop"
         \/ m_stop' = [m_stop EXCEPT ![r] = @ \/ next.kind = "stop"]
    BY DEF RunProgram, RunStop
<1>2. Types /\ RankTypes(r) /\ overlapped \in BOOLEAN
    BY AtTypedRank, Zenon DEF TypeInv
<1>3. m_events' \in [Rank -> SUBSET Event] /\ m_events'[r] = m_events[r] \ {next}
      /\ \A p \in Rank \ {r} : m_events'[p] = m_events[p]
    BY <1>1, <1>2 DEF Types
<1>4. m_stop' \in [Rank -> BOOLEAN]
    BY <1>1, <1>2, Zenon DEF Types
<1>5. next.kind = "stop" => m_stop'[r]
    BY <1>1, <1>2 DEF Types
<1>6. \A p \in Rank \ {r} : m_stop'[p] = m_stop[p]
    BY <1>1, <1>2 DEF Types
<1>7. \A e \in m_events'[r] : e.kind = "null" => e.arg \in Neighbors[r]
    BY <1>2, <1>3 DEF RankTypes
<1>8. \A e \in m_events[r] : e.kind = "stop" => e \in m_events'[r] \/ m_stop'[r]
    BY <1>3, <1>5
<1>9. /\ m_uid' \in [Rank -> Nat] /\ transmitting' \in [Rank -> SUBSET Channel]
      /\ mpi' = [p \in Rank |-> mpi'[p]]
      /\ \A p \in Rank : mpi'[p] \in [Neighbors[p] -> Seq(Message)]
    BY <1>1, <1>2, Zenon DEF Types
<1>10. PICK after \in {"handler", "receive"} : pc' = [pc EXCEPT ![r] = after]
    BY <1>1
<1> QED
    BY <1>1, <1>2, <1>3, <1>4, <1>6, <1>7, <1>8, <1>9, <1>10, EventTypes

LEMMA RunNullTypes ==
    ASSUME TypeInv, NEW r \in Rank, NEW next \in m_events[r], RunNull(r, next)
    PROVE  TypeInv'
<1> DEFINE s    == next.arg
           new  == NullEvent(r, s, next.ts, m_uid[r])
           left == m_events[r] \ {next}
           g0   == Guarantee(r, s, left)
           m    == [rxTime |-> 0, guarantee |-> g0]
<1>1. /\ Take(r, next) /\ next.kind = "null"
      /\ m_events' = [m_events EXCEPT ![r] = left \cup {new}]
      /\ m_uid' = [m_uid EXCEPT ![r] = @ + 1]
      /\ mpi' = [mpi EXCEPT ![r][s] = Append(@, m)]
      /\ pc' = [pc EXCEPT ![r] = "receive"]
      /\ m_stop' = m_stop /\ transmitting' = transmitting /\ overlapped' = overlapped
    BY DEF RunNull, Send
<1>2. /\ Types /\ RankTypes(r) /\ overlapped \in BOOLEAN /\ m_uid[r] \in Nat
      /\ m_events[r] \in SUBSET Event
    BY AtTypedRank, Zenon DEF TypeInv
<1>3. next.ts \in Nat /\ ~ m_stop[r]
    BY <1>1, TakeTypes, Zenon
<1>4. s \in Neighbors[r] /\ s \in Rank /\ Interval[r][s] \in Nat
    <2>1. s \in Neighbors[r]
        BY <1>1, <1>2 DEF RankTypes
    <2> QED
        BY <2>1, NeighborsAreMutual, IntervalType
<1>5. new \in Event /\ new.kind = "null" /\ new.arg = s
    BY <1>2, <1>3, <1>4 DEF NullEvent, Event
<1>6. left \in SUBSET Event /\ left # {}
    <2>1. PICK e \in m_events[r] : e.kind = "stop"
        BY <1>2, <1>3 DEF RankTypes
    <2>2. e \in left
        BY <1>1, <2>1
    <2> QED
        BY <1>2, <2>2
<1> HIDE DEF new, left, s
<1>7. m \in Message
    <2>1. g0 \in Nat
        BY <1>2, <1>4, <1>6, GuaranteeProperties
    <2> QED
        BY <2>1 DEF Message
<1> HIDE DEF m
<1>8. m_events' \in [Rank -> SUBSET Event] /\ m_events'[r] = left \cup {new}
      /\ \A p \in Rank \ {r} : m_events'[p] = m_events[p]
    BY <1>1, <1>2, <1>5, <1>6 DEF Types
<1>9. \A e \in m_events'[r] : e.kind = "null" => e.arg \in Neighbors[r]
    BY <1>2, <1>4, <1>5, <1>8 DEF RankTypes, left
<1>10. \A e \in m_events[r] : e.kind = "stop" => e \in m_events'[r] \/ m_stop'[r]
    BY <1>1, <1>8 DEF left
<1>11. /\ mpi' = [p \in Rank |-> mpi'[p]]
       /\ \A p \in Rank : mpi'[p] \in [Neighbors[p] -> Seq(Message)]
    BY <1>1, <1>2, <1>4, <1>7, SendTypes, Zenon
<1>12. m_uid' \in [Rank -> Nat]
    BY <1>1, <1>2 DEF Types
<1>13. /\ transmitting' \in [Rank -> SUBSET Channel] /\ m_stop' \in [Rank -> BOOLEAN]
       /\ overlapped' \in BOOLEAN
    BY <1>1, <1>2, Zenon DEF Types
<1> QED
    BY <1>1, <1>8, <1>9, <1>10, <1>11, <1>12, <1>13, EventTypes

LEMMA RunCompleteTypes ==
    ASSUME TypeInv, NEW r \in Rank, NEW next \in m_events[r], RunComplete(r, next)
    PROVE  TypeInv'
<1> DEFINE events == m_events[r] \ {next}
<1>1. /\ Take(r, next) /\ next.kind = "complete" /\ m_stop' = m_stop
      /\ pc' = [pc EXCEPT ![r] = "receive"]
    BY DEF RunComplete
<1>2. Types /\ RankTypes(r) /\ overlapped \in BOOLEAN
    BY AtTypedRank, Zenon DEF TypeInv
<1>3. next.ts \in Nat
    BY <1>1, TakeTypes, Zenon
<1>4. m_stop' \in [Rank -> BOOLEAN]
    BY <1>1, <1>2, Zenon DEF Types
<1>5. /\ m_events' \in [Rank -> SUBSET Event]
      /\ \A p \in Rank \ {r} : m_events'[p] = m_events[p]
      /\ \A e \in m_events'[r] : e.kind = "null" => e.arg \in Neighbors[r]
      /\ \A e \in events : e.kind = "stop" => e \in m_events'[r]
      /\ m_uid' \in [Rank -> Nat]
      /\ transmitting' \in [Rank -> SUBSET Channel]
      /\ mpi' = [p \in Rank |-> mpi'[p]]
      /\ \A p \in Rank : mpi'[p] \in [Neighbors[p] -> Seq(Message)]
      /\ overlapped' \in BOOLEAN
    <2>1. CASE /\ transmitting' = [transmitting EXCEPT ![r] = @ \ {next.arg}]
               /\ m_events' = [m_events EXCEPT ![r] = events]
               /\ m_uid' = m_uid /\ mpi' = mpi /\ overlapped' = overlapped
        <3>1. /\ m_events' \in [Rank -> SUBSET Event] /\ m_events'[r] = events
              /\ \A p \in Rank \ {r} : m_events'[p] = m_events[p]
              /\ transmitting' \in [Rank -> SUBSET Channel]
            BY <1>2, <2>1 DEF Types
        <3>2. \A e \in events : e.kind = "null" => e.arg \in Neighbors[r]
            BY <1>2 DEF RankTypes
        <3>3. /\ m_uid' \in [Rank -> Nat]
              /\ mpi' = [p \in Rank |-> mpi'[p]]
              /\ \A p \in Rank : mpi'[p] \in [Neighbors[p] -> Seq(Message)]
              /\ overlapped' \in BOOLEAN
            BY <1>2, <2>1, Zenon DEF Types
        <3> HIDE DEF events
        <3> QED
            BY <3>1, <3>2, <3>3
    <2>2. ASSUME NEW s \in Neighbors[r], NEW txTime \in TxTimes, next.arg \in Bundle(r, s),
                 TransmitStart(r, s, next.arg, next.ts, txTime, events)
          PROVE  <1>5!:
        <3>1. events \in SUBSET m_events[r]
            OBVIOUS
        <3> HIDE DEF events
        <3> QED
            BY <1>3, <2>2, <3>1, TransmitStartTypes
    <2> QED
        BY <2>1, <2>2, Zenon DEF RunComplete
<1>6. \A e \in m_events[r] : e.kind = "stop" => e \in m_events'[r] \/ m_stop'[r]
    BY <1>1, <1>5
<1> QED
    BY <1>1, <1>4, <1>5, <1>6, EventTypes

LEMMA RunTypes ==
    ASSUME TypeInv, NEW r \in Rank, NEW place \in Places(r), Run(r, place)
    PROVE  TypeInv'
<1> DEFINE new(q)   == NullEvent(r, q, m_currentTs[r], m_uid[r] + place[q])
           after    == m_events[r] \cup {new(q) : q \in Neighbors[r]}
           first(q) == [rxTime |-> 0, guarantee |-> GetDelay[r][q]]
           n        == Cardinality(Neighbors[r])
<1>1. /\ Types /\ RankTypes(r) /\ m_events[r] \in SUBSET Event
      /\ m_uid[r] \in Nat /\ m_currentTs[r] \in Nat
    BY AtTypedRank
<1>2. /\ mpi' = [mpi EXCEPT ![r] = [q \in Neighbors[r] |-> Append(@[q], first(q))]]
      /\ m_events' = [m_events EXCEPT ![r] = after]
      /\ m_uid' = [m_uid EXCEPT ![r] = @ + n]
      /\ m_safeTime' = [m_safeTime EXCEPT ![r] = 0]
      /\ m_stop' = [m_stop EXCEPT ![r] = FALSE]
      /\ pc' = [pc EXCEPT ![r] = "run"]
      /\ m_currentTs' = m_currentTs /\ m_guaranteeTime' = m_guaranteeTime
      /\ transmitting' = transmitting /\ ops' = ops /\ overlapped' = overlapped
      /\ pc[r] = "start"
    BY DEF Run
<1>3. ASSUME NEW q \in Neighbors[r]
      PROVE  /\ new(q) \in Event /\ new(q).arg = q
             /\ first(q) \in Message
    <2>1. GetDelay[r][q] \in Nat /\ Interval[r][q] \in Nat /\ q \in Rank
        BY DelayProperties, IntervalType, NeighborsAreMutual
    <2>2. place[q] \in Nat
        <3>1. place[q] \in 0 .. n - 1
            BY DEF Places
        <3> QED
            BY <3>1
    <2> QED
        BY <1>1, <2>1, <2>2 DEF NullEvent, Event, Message
<1>4. n \in Nat
    <2>1. IsFiniteSet(Neighbors[r])
        <3>1. Neighbors[r] \subseteq Rank
            BY DEF Neighbors
        <3> QED
            BY <3>1, RankAssumption, FS_Subset
    <2> QED
        BY <2>1, FS_CardinalityType
<1> HIDE DEF new, first, n
<1>5. /\ after \in SUBSET Event
      /\ \A e \in m_events[r] : e \in after
      /\ \A e \in after : e.kind = "null" => e.arg \in Neighbors[r]
    BY <1>1, <1>3 DEF RankTypes
<1> HIDE DEF after
<1>6. /\ m_events'[r] = after /\ pc'[r] = "run" /\ ~ m_stop'[r]
      /\ \A p \in Rank \ {r} : /\ m_events'[p] = m_events[p] /\ pc'[p] = pc[p]
                               /\ m_stop'[p] = m_stop[p] /\ mpi'[p] = mpi[p]
    BY <1>1, <1>2 DEF Types
<1>7. Types'
    <2>1. pc' \in [Rank -> Pcs]
        BY <1>1, <1>2 DEF Types, Pcs
    <2>2. m_events' \in [Rank -> SUBSET Event]
        BY <1>1, <1>2, <1>5 DEF Types
    <2>3. m_stop' \in [Rank -> BOOLEAN]
        BY <1>1, <1>2, Zenon DEF Types
    <2>4. m_uid' \in [Rank -> Nat] /\ m_safeTime' \in [Rank -> Nat]
        BY <1>1, <1>2, <1>4 DEF Types
    <2>5. mpi' = [p \in Rank |-> mpi'[p]]
        BY <1>1, <1>2 DEF Types
    <2>6. ASSUME NEW p \in Rank PROVE mpi'[p] \in [Neighbors[p] -> Seq(Message)]
        <3>1. CASE p = r
            <4>1. ASSUME NEW q \in Neighbors[r]
                  PROVE  Append(mpi[r][q], first(q)) \in Seq(Message)
                <5>1. mpi[r][q] \in Seq(Message) /\ first(q) \in Message
                    BY <1>1, <1>3 DEF Types
                <5> QED
                    BY <5>1, AppendProperties
            <4>2. mpi'[r] = [q \in Neighbors[r] |-> Append(mpi[r][q], first(q))]
                BY <1>1, <1>2 DEF Types
            <4> QED
                BY <3>1, <4>1, <4>2
        <3>2. CASE p # r
            BY <1>1, <1>6, <3>2 DEF Types
        <3> QED
            BY <3>1, <3>2
    <2> QED
        BY <1>1, <1>2, <2>1, <2>2, <2>3, <2>4, <2>5, <2>6, Zenon DEF Types
<1>8. RankTypes(r)'
    BY <1>1, <1>2, <1>5, <1>6 DEF RankTypes
<1>9. overlapped' \in BOOLEAN
    BY <1>2, Zenon DEF TypeInv
<1> QED
    BY <1>2, <1>6, <1>7, <1>8, <1>9, TypeStep

\* The steps that take no event and send nothing.
LEMMA QuietTypes ==
    ASSUME TypeInv, NEW r \in Rank, HandlerReturns(r) \/ Finish(r) \/ ReceiveNone(r)
    PROVE  TypeInv'
<1>1. /\ m_events' = m_events /\ m_uid' = m_uid /\ m_currentTs' = m_currentTs
      /\ m_stop' = m_stop /\ m_guaranteeTime' = m_guaranteeTime
      /\ transmitting' = transmitting /\ mpi' = mpi /\ ops' = ops
      /\ overlapped' = overlapped
      /\ pc[r] # "start"
      /\ \E after \in {"receive", "done", "run"} : pc' = [pc EXCEPT ![r] = after]
      /\ \/ m_safeTime' = m_safeTime
         \/ m_safeTime' = [m_safeTime EXCEPT ![r] = SafeTime(m_guaranteeTime[r])]
    BY DEF HandlerReturns, Finish, ReceiveNone, clock, safety
<1>2. Types /\ RankTypes(r) /\ overlapped' \in BOOLEAN
    BY <1>1, AtTypedRank, Zenon DEF TypeInv
<1>3. SafeTime(m_guaranteeTime[r]) \in Nat
    <2>1. m_guaranteeTime[r] \in [Neighbors[r] -> Nat]
        BY <1>2 DEF Types
    <2> QED
        BY <2>1, SafeTimeProperties
<1>4. m_safeTime' \in [Rank -> Nat]
    BY <1>1, <1>2, <1>3 DEF Types
<1>5. /\ pc' \in [Rank -> Pcs] /\ pc'[r] # "start"
      /\ \A p \in Rank \ {r} : pc'[p] = pc[p]
    BY <1>1, <1>2 DEF Types, Pcs
<1>6. Types'
    BY <1>1, <1>2, <1>4, <1>5, Zenon DEF Types
<1>7. RankTypes(r)'
    BY <1>1, <1>2, <1>5 DEF RankTypes
<1> QED
    BY <1>1, <1>2, <1>5, <1>6, <1>7, TypeStep

LEMMA ReceiveTypes ==
    ASSUME TypeInv, NEW r \in Rank, NEW s \in Neighbors[r],
           ReceiveNonBlocking(r, s) \/ ReceiveBlocking(r, s)
    PROVE  TypeInv'
<1> DEFINE m   == Head(mpi[s][r])
           now == m_currentTs[r]
           e   == [ts |-> now + (m.rxTime - now), uid |-> m_uid[r],
                   kind |-> "program", arg |-> r]
<1>1. /\ Types /\ RankTypes(r) /\ m_events[r] \in SUBSET Event
      /\ m_uid[r] \in Nat /\ now \in Nat /\ overlapped \in BOOLEAN
    BY AtTypedRank DEF TypeInv
<1>2. s \in Rank /\ s # r /\ r \in Neighbors[s]
    BY NeighborsAreMutual
<1>3. /\ mpi[s][r] # <<>>
      /\ mpi' = [mpi EXCEPT ![s][r] = Tail(@)]
      /\ \/ /\ m_events' = [m_events EXCEPT ![r] = @ \cup {e}]
            /\ m_uid' = [m_uid EXCEPT ![r] = @ + 1]
         \/ m_events' = m_events /\ m_uid' = m_uid
      /\ m_guaranteeTime' = [m_guaranteeTime EXCEPT ![r][s] = m.guarantee]
      /\ m_currentTs' = m_currentTs /\ m_stop' = m_stop
      /\ transmitting' = transmitting /\ ops' = ops
      /\ overlapped' = overlapped /\ pc' = pc
      /\ \/ m_safeTime' = m_safeTime
         \/ m_safeTime' = [m_safeTime EXCEPT ![r] = SafeTime(m_guaranteeTime'[r])]
    BY Zenon DEF ReceiveNonBlocking, ReceiveBlocking, TakeMessage
<1>4. mpi[s][r] \in Seq(Message)
    BY <1>1, <1>2 DEF Types
<1>5. m \in Message
    BY <1>3, <1>4, HeadTailProperties
<1> HIDE DEF m
<1>6. e \in Event /\ e.kind = "program"
    BY <1>1, <1>5 DEF Message, Event
<1> HIDE DEF e
<1>7. /\ m_events' \in [Rank -> SUBSET Event]
      /\ \A p \in Rank \ {r} : m_events'[p] = m_events[p]
      /\ m_events'[r] = m_events[r] \/ m_events'[r] = m_events[r] \cup {e}
    <2>1. CASE m_events' = [m_events EXCEPT ![r] = @ \cup {e}]
        BY <1>1, <1>6, <2>1 DEF Types
    <2>2. CASE m_events' = m_events
        BY <1>1, <2>2 DEF Types
    <2> QED
        BY <1>3, <2>1, <2>2
<1>8. m_uid' \in [Rank -> Nat]
    BY <1>1, <1>3 DEF Types
<1>9. /\ m_guaranteeTime' = [p \in Rank |-> m_guaranteeTime'[p]]
      /\ \A p \in Rank : m_guaranteeTime'[p] \in [Neighbors[p] -> Nat]
    <2>1. m.guarantee \in Nat
        BY <1>5 DEF Message
    <2>2. m_guaranteeTime'[r] = [m_guaranteeTime[r] EXCEPT ![s] = m.guarantee]
          /\ \A p \in Rank \ {r} : m_guaranteeTime'[p] = m_guaranteeTime[p]
        BY <1>1, <1>3 DEF Types
    <2>3. \A p \in Rank : m_guaranteeTime[p] \in [Neighbors[p] -> Nat]
        BY <1>1, Zenon DEF Types
    <2>4. m_guaranteeTime'[r] \in [Neighbors[r] -> Nat]
        BY <2>1, <2>2, <2>3
    <2>5. m_guaranteeTime' = [p \in Rank |-> m_guaranteeTime'[p]]
        BY <1>1, <1>3 DEF Types
    <2> QED
        BY <2>2, <2>3, <2>4, <2>5
<1>10. m_safeTime' \in [Rank -> Nat]
    <2>1. SafeTime(m_guaranteeTime'[r]) \in Nat
        BY <1>9, SafeTimeProperties
    <2> QED
        BY <1>1, <1>3, <2>1 DEF Types
<1>11. /\ mpi' = [p \in Rank |-> mpi'[p]]
       /\ \A p \in Rank : mpi'[p] \in [Neighbors[p] -> Seq(Message)]
    <2>1. mpi = [p \in Rank |-> mpi[p]]
          /\ \A p \in Rank : mpi[p] \in [Neighbors[p] -> Seq(Message)]
        BY <1>1, Zenon DEF Types
    <2>2. mpi'[s] = [mpi[s] EXCEPT ![r] = Tail(mpi[s][r])]
          /\ \A p \in Rank \ {s} : mpi'[p] = mpi[p]
        BY <1>2, <1>3, <2>1
    <2>3. Tail(mpi[s][r]) \in Seq(Message)
        BY <1>3, <1>4, HeadTailProperties
    <2>4. mpi'[s] \in [Neighbors[s] -> Seq(Message)]
        BY <1>2, <2>1, <2>2, <2>3
    <2>5. mpi' = [p \in Rank |-> mpi'[p]]
        BY <1>3, <2>1
    <2> QED
        BY <2>1, <2>2, <2>4, <2>5
<1>12. Types'
    BY <1>1, <1>3, <1>7, <1>8, <1>9, <1>10, <1>11, Zenon DEF Types
<1>13. RankTypes(r)'
    BY <1>1, <1>3, <1>6, <1>7 DEF RankTypes
<1> QED
    BY <1>1, <1>3, <1>7, <1>12, <1>13, TypeStep

LEMMA InitTypes == Init => TypeInv
<1> SUFFICES ASSUME Init PROVE TypeInv
    OBVIOUS
<1>1. Inv
    BY InitInv
<1>2. overlapped \in BOOLEAN
    BY DEF Init
<1>3. ASSUME NEW r \in Rank PROVE RankTypes(r)
    BY <1>1 DEF Inv, RankOK, RankTypes
<1> QED
    BY <1>1, <1>2, <1>3, Zenon DEF Inv, TypeInv

LEMMA NextTypes == TypeInv /\ [Next]_vars => TypeInv'
<1> SUFFICES ASSUME TypeInv, [Next]_vars PROVE TypeInv'
    OBVIOUS
<1>1. CASE UNCHANGED vars
    <2>1. /\ pc' = pc /\ m_events' = m_events /\ m_uid' = m_uid
          /\ m_currentTs' = m_currentTs /\ m_stop' = m_stop
          /\ m_safeTime' = m_safeTime /\ m_guaranteeTime' = m_guaranteeTime
          /\ transmitting' = transmitting /\ mpi' = mpi /\ ops' = ops
          /\ overlapped' = overlapped
        BY <1>1 DEF vars, clock, safety
    <2> QED
        BY <2>1 DEF TypeInv, Types, RankTypes
<1>2. ASSUME NEW r \in Rank, Program(r) PROVE TypeInv'
    BY <1>2, ScheduleTypes, TransmitTypes, Zenon DEF Program
<1>3. ASSUME NEW r \in Rank, Step(r) PROVE TypeInv'
    <2>1. CASE ProcessOneEvent(r)
        BY <2>1, RunPlainTypes, RunNullTypes, RunCompleteTypes, Zenon DEF ProcessOneEvent
    <2> QED
        BY <1>3, <2>1, RunTypes, QuietTypes, ReceiveTypes, Zenon DEF Step
<1> QED
    BY <1>1, <1>2, <1>3, Zenon DEF Next, Terminated
-----------------------------------------------------------------------------
(* The theorems.                                                           *)

\* Until two transmissions to one neighbour overlap the invariant holds.
THEOREM InvHolds == Spec => [](~ overlapped => Inv)
<1>1. Init => Inv
    BY InitInv
<1>2. (~ overlapped => Inv) /\ [Next]_vars => (~ overlapped => Inv)'
    <2> SUFFICES ASSUME ~ overlapped => Inv, [Next]_vars, ~ overlapped'
                 PROVE  Inv'
        OBVIOUS
    <2>1. ~ overlapped
        BY OverlappedStays
    <2> QED
        BY <2>1, NextInv
<1> QED
    BY <1>1, <1>2, PTL DEF Spec

LEMMA InvGuaranteeKept == (~ overlapped => Inv) => GuaranteeKept
<1> SUFFICES ASSUME Inv, NEW r \in Rank, NEW q \in Neighbors[r],
                    NEW i \in 1 .. Len(mpi[q][r]), mpi[q][r][i].rxTime > 0
             PROVE  mpi[q][r][i].rxTime >= m_guaranteeTime[r][q]
    BY Zenon DEF GuaranteeKept, BundleGuaranteeKept
<1>1. q \in Rank /\ r \in Neighbors[q]
    BY NeighborsAreMutual
<1>2. InOrder(Promised(q, r), m_guaranteeTime[r][q], mpi[q][r])
    BY <1>1, Zenon DEF Inv, ChannelOK
<1> QED
    BY <1>2, Zenon DEF InOrder

LEMMA InvNoEventInThePast == (~ overlapped => Inv) => NoEventInThePast
<1> SUFFICES ASSUME Inv, NEW r \in Rank
             PROVE  /\ \A e \in m_events[r] : e.ts >= m_currentTs[r]
                    /\ m_safeTime[r] >= m_currentTs[r]
    BY Zenon DEF NoEventInThePast
<1>1. /\ RankOK(r) /\ m_currentTs[r] \in Nat /\ m_safeTime[r] \in Nat
      /\ \A e \in m_events[r] : e.ts \in Nat
    BY AtRank
<1> QED
    BY <1>1 DEF RankOK

LEMMA InvNullMessageDue == (~ overlapped => Inv) => NullMessageDue
BY DEF Inv, RankOK, NullDue, NullMessageDue

\* A guarantee is replaced by that of a message, which is no smaller.
LEMMA GuaranteesGrowStep ==
    ASSUME Inv, [Next]_vars
    PROVE  [\A r \in Rank : \A q \in Neighbors[r] :
                m_guaranteeTime'[r][q] >= m_guaranteeTime[r][q]]_vars
<1>1. ASSUME m_guaranteeTime' = m_guaranteeTime, NEW r \in Rank, NEW q \in Neighbors[r]
      PROVE  m_guaranteeTime'[r][q] >= m_guaranteeTime[r][q]
    <2>1. m_guaranteeTime[r][q] \in Nat
        BY AtRank
    <2> QED
        BY <1>1, <2>1
<1>2. ASSUME NEW s \in Rank, NEW p \in Neighbors[s], TakeMessage(s, p),
             NEW r \in Rank, NEW q \in Neighbors[r]
      PROVE  m_guaranteeTime'[r][q] >= m_guaranteeTime[r][q]
    <2>1. m_guaranteeTime' = [m_guaranteeTime EXCEPT ![s][p] = Head(mpi[p][s]).guarantee]
          /\ mpi[p][s] # <<>>
        BY <1>2 DEF TakeMessage
    <2>2. Head(mpi[p][s]).guarantee >= m_guaranteeTime[s][p]
        <3>1. p \in Rank /\ s \in Neighbors[p]
            BY NeighborsAreMutual
        <3>2. InOrder(Promised(p, s), m_guaranteeTime[s][p], mpi[p][s])
              /\ mpi[p][s] \in Seq(Message)
            BY <3>1 DEF Inv, ChannelOK, Types
        <3> QED
            BY <2>1, <3>2, InOrderTail
    <2>3. m_guaranteeTime[r][q] \in Nat
        BY AtRank
    <2> QED
        BY <2>1, <2>2, <2>3 DEF Inv, Types
<1>3. \/ m_guaranteeTime' = m_guaranteeTime
      \/ \E s \in Rank : \E p \in Neighbors[s] : TakeMessage(s, p)
    <2>1. CASE UNCHANGED vars
        BY <2>1 DEF vars, safety
    <2>2. ASSUME NEW r \in Rank, Program(r)
          PROVE  m_guaranteeTime' = m_guaranteeTime
        BY <2>2, Zenon DEF Program, Schedule, Transmit, safety
    <2>3. ASSUME NEW r \in Rank, Step(r)
          PROVE  \/ m_guaranteeTime' = m_guaranteeTime
                 \/ \E p \in Neighbors[r] : TakeMessage(r, p)
        <3>1. CASE ProcessOneEvent(r)
            BY <3>1, Zenon DEF ProcessOneEvent, RunProgram, RunStop, RunNull, RunComplete,
               Take, safety
        <3>2. CASE \E q \in Neighbors[r] : ReceiveNonBlocking(r, q) \/ ReceiveBlocking(r, q)
            BY <3>2, Zenon DEF ReceiveNonBlocking, ReceiveBlocking
        <3>3. CASE (\E place \in Places(r) : Run(r, place)) \/ HandlerReturns(r)
                   \/ ReceiveNone(r) \/ Finish(r)
            BY <3>3, Zenon DEF Run, HandlerReturns, ReceiveNone, Finish, safety
        <3> QED
            BY <2>3, <3>1, <3>2, <3>3, Zenon DEF Step
    <2> QED
        BY <2>1, <2>2, <2>3, Zenon DEF Next, Terminated
<1> QED
    BY <1>1, <1>2, <1>3, Zenon

\* Every variable keeps its type, and no rank passes its stop time, also when
\* transmissions overlap and guarantees are broken.
THEOREM TypeCorrect == Spec => []TypeOK
<1>1. TypeInv => TypeOK
    <2> SUFFICES ASSUME TypeInv PROVE TypeOK
        OBVIOUS
    <2>1. \A r \in Rank : m_currentTs[r] <= StopTime[r]
        BY DEF TypeInv, RankTypes
    <2> QED
        BY <2>1, Zenon DEF TypeInv, Types, TypeOK
<1> QED
    BY <1>1, InitTypes, NextTypes, PTL DEF Spec

\* Of any topology: no packet arrives before the guarantee that was given for it,
\* which remote-channel-bundle.h says of m_guaranteeTime, until a rank transmits
\* to one neighbour on two channels at a time.
THEOREM GuaranteesAreKept == Spec => []GuaranteeKept
BY InvHolds, InvGuaranteeKept, PTL

\* Nor is, until then, any event, local or received, in the past of its rank: the
\* assertion of ProcessOneEvent.
THEOREM NoEventLeftBehind == Spec => []NoEventInThePast
BY InvHolds, InvNoEventInThePast, PTL

\* While a rank runs, the null message to each neighbour is scheduled exactly once,
\* no later than the interval from now, however often TransmitStart cancelled it.
THEOREM NullMessageAlwaysDue == Spec => []NullMessageDue
BY InvHolds, InvNullMessageDue, PTL

\* No guarantee is taken back before transmissions to one neighbour overlap.
THEOREM GuaranteesOnlyGrow == Spec => GuaranteesGrow
<1>1. (~ overlapped => Inv) /\ [Next]_vars =>
          [~ overlapped' => \A r \in Rank : \A q \in Neighbors[r] :
               m_guaranteeTime'[r][q] >= m_guaranteeTime[r][q]]_vars
    BY OverlappedStays, GuaranteesGrowStep, Zenon
<1> QED
    BY <1>1, InvHolds, PTL DEF Spec, GuaranteesGrow

\* With one channel between two ranks nothing overlaps: there all of this is
\* without condition.
THEOREM OneChannelNeverOverlaps ==
    ASSUME \A c, d \in Channel : Ends[c] = Ends[d] => c = d
    PROVE  Spec => []~ overlapped
<1>1. Init => ~ overlapped
    BY DEF Init
<1>2. ASSUME NEW r, NEW q, NEW c \in Bundle(r, q)
      PROVE  ~ Overlaps(r, q, c)
    BY DEF Overlaps, Bundle
<1>3. ASSUME ~ overlapped, [Next]_vars PROVE ~ overlapped'
    <2>1. ASSUME NEW r \in Rank, Program(r) PROVE ~ overlapped'
        BY <1>2, <1>3, <2>1, Zenon DEF Program, Schedule, Transmit, TransmitStart
    <2>2. ASSUME NEW r \in Rank, Step(r) PROVE ~ overlapped'
        BY <1>2, <1>3, <2>2, Zenon DEF Step, Run, ProcessOneEvent, RunProgram, RunStop,
           RunNull, RunComplete, TransmitStart, HandlerReturns, ReceiveNone,
           ReceiveNonBlocking, ReceiveBlocking, TakeMessage, Finish, vars
    <2> QED
        BY <1>3, <2>1, <2>2, Zenon DEF Next, Terminated, vars
<1> QED
    BY <1>1, <1>3, PTL DEF Spec
-----------------------------------------------------------------------------
(* Who waits for whom.                                                     *)

\* Rank r is in MPI_Waitany: its next event is not safe, and no message is there.
Waits(r) == /\ pc[r] = "run" /\ ~ IsFinished(r)
            /\ PeekNext(m_events[r]) > m_safeTime[r]
            /\ \A q \in Neighbors[r] : mpi[q][r] = <<>>

\* The neighbours whose guarantees are the safe time of r: with none of them
\* replaced, r waits on.
WaitsFor(r) == {q \in Neighbors[r] : m_guaranteeTime[r][q] = m_safeTime[r]}

\* A rank that waits does so for some neighbour.  Such a neighbour either has an earlier next
\* event, if it waits too, or was to stop earlier, if it is done.
NoCircularWait ==
    \A r \in Rank : Waits(r) =>
        /\ WaitsFor(r) # {}
        /\ \A q \in WaitsFor(r) :
               /\ Waits(q) => PeekNext(m_events[q]) < PeekNext(m_events[r])
               /\ pc[q] = "done" => StopTime[q] < StopTime[r]

\* A rank that is not done and does not wait.
MayProceed(r) ==
    \/ pc[r] \in {"start", "handler", "receive"}
    \/ pc[r] = "run" /\ IsFinished(r)
    \/ pc[r] = "run" /\ \E next \in m_events[r] : next.ts <= m_safeTime[r]
    \/ pc[r] = "run" /\ \E q \in Neighbors[r] : mpi[q][r] # <<>>

\* As long as a rank is not done, some rank has a step to take.
SomeRankProceeds ==
    (\E r \in Rank : pc[r] # "done") => \E r \in Rank : MayProceed(r)

\* The last guarantee p has sent q.
LastGuarantee(p, q) == IF mpi[p][q] = <<>> THEN m_guaranteeTime[q][p]
                                           ELSE mpi[p][q][Len(mpi[p][q])].guarantee

\* It covers the time until p sends the next null message.
Announced(p, q) ==
    \A e \in m_events[p] : IsNullEvent(e, q) => e.ts <= LastGuarantee(p, q)

\* Where it matters, the safe time is one of the guarantees; a rank that stopped
\* did so at its stop time, with its null messages pending.
WaitOK(r) ==
    /\ pc[r] \in {"start", "run", "handler"} => WaitsFor(r) # {}
    /\ m_stop[r] => m_currentTs[r] = StopTime[r] /\ pc[r] \in {"receive", "run", "done"}
    /\ \A e \in m_events[r] : e.kind = "stop" => e.ts = StopTime[r]
    /\ pc[r] = "done" => /\ m_stop[r]
                         /\ \A q \in Neighbors[r] : \E e \in m_events[r] : IsNullEvent(e, q)

WaitInv == \A r \in Rank : WaitOK(r) /\ \A q \in Neighbors[r] : Announced(r, q)

\* In a step, r sends each neighbour one message, which covers the time until the
\* next null message, or sends none and schedules no null message.
Covers(r, q) ==
    \/ /\ mpi'[r][q] = mpi[r][q]
       /\ \A e \in m_events'[r] : IsNullEvent(e, q) => e \in m_events[r]
    \/ \E m \in Message :
           /\ mpi'[r][q] = Append(mpi[r][q], m)
           /\ \A e \in m_events'[r] : IsNullEvent(e, q) => e.ts <= m.guarantee

\* The null message event comes no later than what its delay guarantees.
LEMMA IntervalWithinDelay ==
    ASSUME NEW p \in Rank, NEW q \in Neighbors[p]
    PROVE  Interval[p][q] \in Nat /\ Interval[p][q] <= GetDelay[p][q]
<1> DEFINE d == GetDelay[p][q]
           t == SchedulerTune
<1>1. d \in Nat /\ t \in 1 .. 100 /\ Interval[p][q] \in Nat
    BY DelayProperties, TuneAssumption, IntervalType
<1>2. Interval[p][q] = (t * d + 50) \div 100
    BY DEF Interval
<1> HIDE DEF d, t
<1>3. t * d \in Nat /\ t * d <= 100 * d
    BY <1>1
<1>4. \A x, y \in Nat : x <= 100 * y => (x + 50) \div 100 <= y
    OBVIOUS
<1>5. (t * d + 50) \div 100 <= d
    BY <1>1, <1>3, <1>4
<1> QED
    BY <1>1, <1>2, <1>5 DEF d

\* The safe time that is computed is one of the guarantees.
LEMMA SafeTimeIsOne ==
    ASSUME NEW r \in Rank, NEW guarantee \in [Neighbors[r] -> Nat]
    PROVE  \E q \in Neighbors[r] : guarantee[q] = SafeTime(guarantee)
<1> DEFINE G == {guarantee[q] : q \in Neighbors[r]}
<1>1. G \subseteq Nat /\ G # {}
    BY NeighborsAssumption
<1>2. SafeTime(guarantee) = Least(G)
    BY DEF SafeTime
<1>3. \A y \in G : \E q \in Neighbors[r] : guarantee[q] = y
    OBVIOUS
<1> HIDE DEF G
<1>4. Least(G) \in G
    BY <1>1, LeastProperties
<1> QED
    BY <1>2, <1>3, <1>4

LEMMA RestingWaits ==
    ASSUME NEW p \in Rank, WaitOK(p), Rests(p)
    PROVE  WaitOK(p)'
BY DEF WaitOK, WaitsFor, Rests

LEMMA ChannelType ==
    ASSUME Inv, NEW p \in Rank, NEW q \in Neighbors[p]
    PROVE  mpi[p][q] \in Seq(Message) /\ q \in Rank /\ q # p /\ p \in Neighbors[q]
<1>1. mpi[p] \in [Neighbors[p] -> Seq(Message)]
    BY Zenon DEF Inv, Types
<1> QED
    BY <1>1, NeighborsAreMutual

LEMMA LastGuaranteeStays ==
    ASSUME NEW p, NEW q, mpi'[p][q] = mpi[p][q],
           m_guaranteeTime'[q][p] = m_guaranteeTime[q][p]
    PROVE  LastGuarantee(p, q)' = LastGuarantee(p, q)
BY DEF LastGuarantee

\* No message to q and no other null message event, or one with the guarantee for it.
LEMMA WaitSend ==
    ASSUME Inv, WaitInv, NEW r \in Rank, \A p \in Rank \ {r} : Rests(p),
           WaitOK(r)',
           m_guaranteeTime' = m_guaranteeTime,
           \A p \in Rank \ {r} : mpi'[p] = mpi[p],
           \A q \in Neighbors[r] : Covers(r, q)
    PROVE  WaitInv'
<1>1. \A p \in Rank : WaitOK(p)'
    BY RestingWaits, Zenon DEF WaitInv
<1>2. ASSUME NEW p \in Rank, NEW q \in Neighbors[p]
      PROVE  Announced(p, q)'
    <2>1. Announced(p, q)
        BY Zenon DEF WaitInv
    <2>2. CASE p # r
        <3>1. m_events'[p] = m_events[p] /\ mpi'[p] = mpi[p]
            BY <2>2 DEF Rests
        <3> QED
            BY <2>1, <3>1, Zenon DEF Announced, LastGuarantee
    <2>3. CASE p = r /\ mpi'[r][q] = mpi[r][q]
               /\ \A e \in m_events'[r] : IsNullEvent(e, q) => e \in m_events[r]
        BY <2>1, <2>3, Zenon DEF Announced, LastGuarantee
    <2>4. ASSUME p = r, NEW m \in Message, mpi'[r][q] = Append(mpi[r][q], m),
                 \A e \in m_events'[r] : IsNullEvent(e, q) => e.ts <= m.guarantee
          PROVE  Announced(p, q)'
        <3>1. mpi[r][q] \in Seq(Message)
            BY <2>4, ChannelType
        <3>2. Len(mpi'[r][q]) = Len(mpi[r][q]) + 1 /\ Len(mpi[r][q]) \in Nat
              /\ mpi'[r][q][Len(mpi[r][q]) + 1] = m
            BY <2>4, <3>1, AppendProperties, LenProperties
        <3>3. mpi'[r][q] # <<>>
            BY <3>2, EmptySeq
        <3>4. mpi'[r][q][Len(mpi'[r][q])] = m
            BY <3>2
        <3>5. LastGuarantee(p, q)' = m.guarantee
            BY <2>4, <3>3, <3>4 DEF LastGuarantee
        <3> QED
            BY <2>4, <3>5 DEF Announced
    <2> QED
        BY <2>2, <2>3, <2>4, Zenon DEF Covers
<1> QED
    BY <1>1, <1>2, Zenon DEF WaitInv

\* A rank receives one message: the last guarantee of the sender is still the last.
LEMMA WaitReceive ==
    ASSUME Inv, WaitInv, NEW r \in Rank, \A p \in Rank \ {r} : Rests(p),
           WaitOK(r)',
           NEW s \in Neighbors[r], mpi[s][r] # <<>>,
           mpi' = [mpi EXCEPT ![s][r] = Tail(@)],
           m_guaranteeTime' = [m_guaranteeTime EXCEPT ![r][s] = Head(mpi[s][r]).guarantee],
           \A q \in Neighbors[r] : \A e \in m_events'[r] :
               IsNullEvent(e, q) => e \in m_events[r]
    PROVE  WaitInv'
<1>1. \A p \in Rank : WaitOK(p)'
    BY RestingWaits, Zenon DEF WaitInv
<1>2. s \in Rank /\ s # r /\ r \in Neighbors[s]
    BY NeighborsAreMutual
<1>3. /\ mpi = [p \in Rank |-> mpi[p]]
      /\ \A p \in Rank : mpi[p] \in [Neighbors[p] -> Seq(Message)]
      /\ m_guaranteeTime = [p \in Rank |-> m_guaranteeTime[p]]
      /\ \A p \in Rank : m_guaranteeTime[p] \in [Neighbors[p] -> Nat]
    BY Zenon DEF Inv, Types
<1>4. /\ \A p \in Rank \ {s} : mpi'[p] = mpi[p]
      /\ mpi'[s] = [mpi[s] EXCEPT ![r] = Tail(mpi[s][r])]
    BY <1>2, <1>3
<1>5. /\ \A p \in Rank \ {r} : m_guaranteeTime'[p] = m_guaranteeTime[p]
      /\ m_guaranteeTime'[r] =
             [m_guaranteeTime[r] EXCEPT ![s] = Head(mpi[s][r]).guarantee]
    BY <1>2, <1>3
<1>6. ASSUME NEW p \in Rank, NEW q \in Neighbors[p]
      PROVE  LastGuarantee(p, q)' = LastGuarantee(p, q)
    <2>1. mpi[p][q] \in Seq(Message) /\ q \in Rank /\ q # p /\ p \in Neighbors[q]
        BY ChannelType
    <2>2. CASE p = s /\ q = r
        <3> DEFINE messages == mpi[s][r]
        <3>1. mpi'[s][r] = Tail(messages)
            BY <1>2, <1>3, <1>4
        <3>2. m_guaranteeTime'[r][s] = Head(messages).guarantee
            BY <1>3, <1>5
        <3>3. /\ Len(messages) \in Nat /\ Len(messages) >= 1
              /\ Tail(messages) \in Seq(Message)
              /\ Len(Tail(messages)) = Len(messages) - 1
              /\ \A i \in 1 .. Len(messages) - 1 : Tail(messages)[i] = messages[i + 1]
              /\ Head(messages) = messages[1]
            BY <2>1, <2>2, HeadTailProperties, LenProperties, EmptySeq
        <3>4. LastGuarantee(s, r) = messages[Len(messages)].guarantee
            BY DEF LastGuarantee
        <3> HIDE DEF messages
        <3>5. CASE Tail(messages) = <<>>
            <4>1. Len(messages) = 1
                <5>1. Len(Tail(messages)) = 0
                    BY <3>5, EmptySeq
                <5>2. Len(messages) \in Nat /\ Len(Tail(messages)) = Len(messages) - 1
                    BY <3>3, Zenon
                <5> HIDE DEF messages
                <5> QED
                    BY <5>1, <5>2
            <4>2. LastGuarantee(s, r)' = Head(messages).guarantee
                BY <3>1, <3>2, <3>5, Zenon DEF LastGuarantee
            <4> QED
                BY <2>2, <3>3, <3>4, <4>1, <4>2
        <3>6. CASE Tail(messages) # <<>>
            <4>1. Len(messages) - 1 \in 1 .. Len(messages) - 1
                <5>1. Len(Tail(messages)) # 0
                    BY <3>3, <3>6, EmptySeq
                <5> QED
                    BY <3>3, <5>1
            <4>2. Tail(messages)[Len(Tail(messages))] = messages[Len(messages)]
                BY <3>3, <4>1
            <4>3. LastGuarantee(s, r)' = Tail(messages)[Len(Tail(messages))].guarantee
                BY <3>1, <3>6, Zenon DEF LastGuarantee
            <4> QED
                BY <2>2, <3>4, <4>2, <4>3
        <3> QED
            BY <3>5, <3>6
    <2>3. CASE ~ (p = s /\ q = r)
        <3>1. mpi'[p][q] = mpi[p][q]
            BY <1>3, <1>4, <2>3
        <3>2. m_guaranteeTime'[q][p] = m_guaranteeTime[q][p]
            BY <1>3, <1>5, <2>1, <2>3
        <3> QED
            BY <3>1, <3>2, LastGuaranteeStays, Zenon
    <2> QED
        BY <2>2, <2>3
<1>7. ASSUME NEW p \in Rank, NEW q \in Neighbors[p]
      PROVE  Announced(p, q)'
    <2>1. Announced(p, q)
        BY Zenon DEF WaitInv
    <2>2. \A e \in m_events'[p] : IsNullEvent(e, q) => e \in m_events[p]
        BY DEF Rests
    <2> QED
        BY <1>6, <2>1, <2>2, Zenon DEF Announced
<1> QED
    BY <1>1, <1>7, Zenon DEF WaitInv

\* Only the rank that acts changes.
LEMMA StepsAlone ==
    ASSUME Inv, NEW r \in Rank, Program(r) \/ Step(r)
    PROVE  \A p \in Rank \ {r} : Rests(p)
<1>0. /\ pc \in [Rank -> Pcs] /\ m_events \in [Rank -> SUBSET Event]
      /\ m_currentTs \in [Rank -> Nat] /\ m_stop \in [Rank -> BOOLEAN]
      /\ m_safeTime \in [Rank -> Nat] /\ transmitting \in [Rank -> SUBSET Channel]
      /\ m_guaranteeTime = [p \in Rank |-> m_guaranteeTime[p]]
    BY Zenon DEF Inv, Types
<1>1. \A delay : Schedule(r, delay) => \A p \in Rank \ {r} : Rests(p)
    BY <1>0 DEF Schedule, Rests, safety
<1>2. \A q, c, txTime : Transmit(r, q, c, txTime) => \A p \in Rank \ {r} : Rests(p)
    BY <1>0 DEF Transmit, TransmitStart, Rests, safety
<1>3. \A place : Run(r, place) => \A p \in Rank \ {r} : Rests(p)
    BY <1>0 DEF Run, Rests
<1>4. HandlerReturns(r) \/ Finish(r) \/ ReceiveNone(r) => \A p \in Rank \ {r} : Rests(p)
    BY <1>0 DEF HandlerReturns, Finish, ReceiveNone, Rests, clock, safety
<1>5. \A q : ReceiveNonBlocking(r, q) \/ ReceiveBlocking(r, q) => \A p \in Rank \ {r} : Rests(p)
    BY <1>0 DEF ReceiveNonBlocking, ReceiveBlocking, TakeMessage, Rests
<1>6. \A next : RunProgram(r, next) \/ RunStop(r, next) => \A p \in Rank \ {r} : Rests(p)
    BY <1>0 DEF RunProgram, RunStop, Take, Rests, safety
<1>7. \A next : RunNull(r, next) => \A p \in Rank \ {r} : Rests(p)
    BY <1>0 DEF RunNull, Take, Rests, safety
<1>8. ASSUME NEW next, RunComplete(r, next)
      PROVE  \A p \in Rank \ {r} : Rests(p)
    <2>1. Take(r, next) /\ pc' = [pc EXCEPT ![r] = "receive"] /\ m_stop' = m_stop
        BY <1>8 DEF RunComplete
    <2>2. \A p \in Rank \ {r} : /\ m_events'[p] = m_events[p]
                                /\ transmitting'[p] = transmitting[p]
        BY <1>0, <1>8 DEF RunComplete, TransmitStart
    <2> QED
        BY <1>0, <2>1, <2>2 DEF Take, Rests, safety
<1> QED
    BY <1>1, <1>2, <1>3, <1>4, <1>5, <1>6, <1>7, <1>8, Zenon
    DEF Program, Step, ProcessOneEvent

\* What WaitInv says of one rank.
LEMMA AtWait ==
    ASSUME WaitInv, NEW r \in Rank
    PROVE  WaitOK(r) /\ \A q \in Neighbors[r] : Announced(r, q)
BY DEF WaitInv

LEMMA ScheduleWaits ==
    ASSUME Inv, WaitInv, NEW r \in Rank, NEW delay \in Delays, Schedule(r, delay)
    PROVE  WaitInv'
<1> DEFINE e == [ts |-> m_currentTs[r] + delay, uid |-> m_uid[r],
                 kind |-> "program", arg |-> r]
<1>1. e.kind = "program"
    OBVIOUS
<1>2. /\ m_events' = [m_events EXCEPT ![r] = @ \cup {e}]
      /\ pc' = pc /\ m_currentTs' = m_currentTs /\ m_stop' = m_stop
      /\ m_safeTime' = m_safeTime /\ m_guaranteeTime' = m_guaranteeTime
      /\ mpi' = mpi /\ pc[r] \in {"start", "handler"}
    BY DEF Schedule, safety
<1> HIDE DEF e
<1>3. m_events'[r] = m_events[r] \cup {e}
    BY <1>2 DEF Inv, Types
<1>4. WaitOK(r)'
    BY <1>1, <1>2, <1>3, AtWait DEF WaitOK, WaitsFor
<1>5. \A f \in m_events'[r] : f.kind = "null" => f \in m_events[r]
    BY <1>1, <1>3
<1>6. \A p \in Rank \ {r} : Rests(p)
    BY StepsAlone, Zenon DEF Program
<1> QED
    BY <1>2, <1>4, <1>5, <1>6, WaitSend, Zenon DEF Covers, IsNullEvent

LEMMA LeavingWaits ==
    ASSUME Inv, WaitInv, NEW r \in Rank, HandlerReturns(r) \/ Finish(r)
    PROVE  WaitInv'
<1>1. /\ m_events' = m_events /\ m_currentTs' = m_currentTs /\ m_stop' = m_stop
      /\ m_safeTime' = m_safeTime /\ m_guaranteeTime' = m_guaranteeTime
      /\ mpi' = mpi
      /\ \/ pc[r] = "handler" /\ pc' = [pc EXCEPT ![r] = "receive"]
         \/ pc[r] = "run" /\ IsFinished(r) /\ pc' = [pc EXCEPT ![r] = "done"]
    BY DEF HandlerReturns, Finish, clock, safety
<1>2. \/ pc[r] = "handler" /\ pc'[r] = "receive"
      \/ pc[r] = "run" /\ IsFinished(r) /\ pc'[r] = "done"
    BY <1>1 DEF Inv, Types
<1>3. WaitOK(r)'
    <2>1. CASE pc[r] = "handler" /\ pc'[r] = "receive"
        BY <1>1, <2>1, AtWait DEF WaitOK
    <2>2. CASE pc[r] = "run" /\ IsFinished(r) /\ pc'[r] = "done"
        <3>1. \A q \in Neighbors[r] : NullDue(m_events[r], m_currentTs[r], r, q)
            BY <2>2, AtRank DEF RankOK
        <3>2. \A q \in Neighbors[r] : \E e \in m_events[r] : IsNullEvent(e, q)
            BY <3>1, Zenon DEF NullDue
        <3>3. m_stop[r]
            BY <2>2, <3>2, NeighborsAssumption DEF IsFinished
        <3> QED
            BY <1>1, <2>2, <3>2, <3>3, AtWait DEF WaitOK
    <2> QED
        BY <1>2, <2>1, <2>2
<1>4. \A p \in Rank \ {r} : Rests(p)
    BY StepsAlone, Zenon DEF Step
<1> QED
    BY <1>1, <1>3, <1>4, WaitSend, Zenon DEF Covers

\* The rank after an event.
LEMMA WaitAfterTake ==
    ASSUME Inv, WaitInv, NEW r \in Rank, NEW next \in m_events[r], Take(r, next),
           pc'[r] \in {"handler", "receive"},
           m_stop'[r] = m_stop[r] \/ (next.kind = "stop" /\ pc'[r] = "receive"),
           \A e \in m_events'[r] : e.kind = "stop" => e \in m_events[r]
    PROVE  WaitOK(r)'
<1>1. /\ ~ m_stop[r] /\ pc[r] = "run"
      /\ m_currentTs'[r] = next.ts
      /\ m_safeTime' = m_safeTime /\ m_guaranteeTime' = m_guaranteeTime
    BY TakeProperties, Zenon
<1>2. WaitOK(r)
    BY AtWait
<1> QED
    BY <1>1, <1>2 DEF WaitOK, WaitsFor

LEMMA RunPlainWaits ==
    ASSUME Inv, WaitInv, NEW r \in Rank, NEW next \in m_events[r],
           RunProgram(r, next) \/ RunStop(r, next)
    PROVE  WaitInv'
<1>1. /\ Take(r, next)
      /\ m_events' = [m_events EXCEPT ![r] = @ \ {next}]
      /\ mpi' = mpi
      /\ \/ pc' = [pc EXCEPT ![r] = "handler"] /\ m_stop' = m_stop
         \/ /\ pc' = [pc EXCEPT ![r] = "receive"]
            /\ m_stop' = [m_stop EXCEPT ![r] = @ \/ next.kind = "stop"]
    BY DEF RunProgram, RunStop
<1>2. m_events'[r] = m_events[r] \ {next}
    BY <1>1 DEF Inv, Types
<1>3. /\ pc'[r] \in {"handler", "receive"}
      /\ m_stop'[r] = m_stop[r] \/ (next.kind = "stop" /\ pc'[r] = "receive")
    BY <1>1 DEF Inv, Types
<1>4. WaitOK(r)'
    BY <1>1, <1>2, <1>3, WaitAfterTake
<1>5. \A p \in Rank \ {r} : Rests(p)
    BY StepsAlone, Zenon DEF Step, ProcessOneEvent
<1>6. m_guaranteeTime' = m_guaranteeTime
    BY <1>1, TakeProperties, Zenon
<1>7. \A f \in m_events'[r] : f \in m_events[r]
    BY <1>2
<1> QED
    BY <1>1, <1>4, <1>5, <1>6, <1>7, WaitSend, Zenon DEF Covers

\* A guarantee computed at `now' covers the time until the null message that is
\* scheduled at `now'.
LEMMA GuaranteeCovers ==
    ASSUME Types, NEW p \in Rank, NEW q \in Neighbors[p],
           NEW events \in SUBSET Event, events # {},
           NEW now \in Nat, now <= m_safeTime[p], \A e \in events : now <= e.ts
    PROVE  Guarantee(p, q, events) \in Nat
           /\ now + Interval[p][q] <= Guarantee(p, q, events)
<1> DEFINE g == now + Interval[p][q]
           d == GetDelay[p][q]
<1>1. /\ Interval[p][q] \in Nat /\ Interval[p][q] <= d /\ d \in Nat
      /\ m_safeTime[p] \in Nat
      /\ \A e \in events : e.ts \in Nat
    BY IntervalWithinDelay, DelayProperties DEF Types, Event
<1> HIDE DEF d
<1>2. g \in Nat /\ g <= m_safeTime[p] + d /\ \A e \in events : g <= e.ts + d
    BY <1>1
<1> HIDE DEF g
<1>3. Guarantee(p, q, events) \in Nat /\ g <= Guarantee(p, q, events)
    BY <1>2, GuaranteeProperties, Zenon DEF d
<1> QED
    BY <1>3 DEF g

LEMMA RunNullWaits ==
    ASSUME Inv, WaitInv, NEW r \in Rank, NEW next \in m_events[r], RunNull(r, next)
    PROVE  WaitInv'
<1> DEFINE s    == next.arg
           new  == NullEvent(r, s, next.ts, m_uid[r])
           left == m_events[r] \ {next}
           g0   == Guarantee(r, s, left)
           m    == [rxTime |-> 0, guarantee |-> g0]
<1>1. /\ Take(r, next) /\ next.kind = "null"
      /\ m_events' = [m_events EXCEPT ![r] = left \cup {new}]
      /\ pc' = [pc EXCEPT ![r] = "receive"] /\ m_stop' = m_stop
      /\ mpi' = [mpi EXCEPT ![r][s] = Append(@, m)]
    BY DEF RunNull, Send
<1>2. /\ m_events[r] \in SUBSET Event /\ RankOK(r) /\ Types /\ m_safeTime[r] \in Nat
    BY AtRank DEF Inv
<1>3. /\ next.ts \in Nat /\ next.ts <= m_safeTime[r] /\ ~ m_stop[r]
      /\ m_guaranteeTime' = m_guaranteeTime
      /\ \A e \in m_events[r] : next.ts <= e.ts
      /\ \A q \in Neighbors[r] : NullDue(m_events[r], m_currentTs[r], r, q)
    BY <1>1, TakeProperties, Zenon
<1>4. s \in Neighbors[r]
    BY <1>1, <1>2 DEF RankOK
<1>5. new.ts = next.ts + Interval[r][s] /\ new.kind = "null" /\ new.arg = s
    BY DEF NullEvent
<1>6. left # {} /\ left \in SUBSET Event /\ \A e \in left : next.ts <= e.ts
    <2>1. \E e \in m_events[r] : e.kind = "stop"
        BY <1>2, <1>3 DEF RankOK
    <2> QED
        BY <1>1, <1>2, <1>3, <2>1
<1>7. g0 \in Nat /\ new.ts <= g0
    BY <1>2, <1>3, <1>4, <1>5, <1>6, GuaranteeCovers
<1> HIDE DEF new, g0
<1>8. m \in Message /\ m.guarantee = g0
    BY <1>7 DEF Message
<1> HIDE DEF m
<1>9. /\ \A p \in Rank \ {r} : mpi'[p] = mpi[p]
      /\ mpi'[r][s] = Append(mpi[r][s], m)
      /\ \A q \in Neighbors[r] : q # s => mpi'[r][q] = mpi[r][q]
    BY <1>1, <1>2, <1>4, <1>8, SendTypes
<1>10. m_events'[r] = left \cup {new} /\ pc'[r] = "receive"
    BY <1>1, <1>2 DEF Types
<1>11. WaitOK(r)'
    <2>1. \A e \in m_events'[r] : e.kind = "stop" => e \in m_events[r]
        BY <1>5, <1>10
    <2> QED
        BY <1>1, <1>10, <2>1, WaitAfterTake, Zenon
<1>12. \A p \in Rank \ {r} : Rests(p)
    BY StepsAlone, Zenon DEF Step, ProcessOneEvent
<1>13. ASSUME NEW q \in Neighbors[r]
       PROVE  Covers(r, q)
    <2>1. CASE q # s
        BY <1>5, <1>9, <1>10, <2>1 DEF Covers, IsNullEvent
    <2>2. CASE q = s
        <3>1. \A e \in left : ~ IsNullEvent(e, s)
            BY <1>1, <1>3, <1>4 DEF NullDue, IsNullEvent
        <3> QED
            BY <1>7, <1>8, <1>9, <1>10, <2>2, <3>1 DEF Covers
    <2> QED
        BY <2>1, <2>2
<1> QED
    BY <1>3, <1>9, <1>11, <1>12, <1>13, WaitSend, Zenon

\* The guarantee of a packet covers the time until the null message that starts
\* over, and the other null messages are not disturbed.
LEMMA TransmitStartWaits ==
    ASSUME Inv, NEW r \in Rank, NEW s \in Neighbors[r], NEW c \in Bundle(r, s),
           NEW txTime \in TxTimes,
           NEW events \in SUBSET m_events[r], NEW now \in Nat, now <= m_safeTime[r],
           \A e \in events : now <= e.ts,
           TransmitStart(r, s, c, now, txTime, events)
    PROVE  /\ \A e \in m_events'[r] : e.kind = "stop" => e \in m_events[r]
           /\ \A p \in Rank \ {r} : mpi'[p] = mpi[p]
           /\ \A q \in Neighbors[r] : Covers(r, q)
<1> DEFINE end     == CompleteEvent(r, c, now, txTime)
           new     == NullEvent(r, s, now, m_uid[r] + 1)
           pending == events \cup {end}
           after   == AfterTransmit(events, s, end, new)
           g0      == Guarantee(r, s, pending)
           m       == [rxTime |-> now + txTime + Delay[c], guarantee |-> g0]
<1>1. /\ m_events[r] \in SUBSET Event /\ m_uid[r] \in Nat /\ Types
    BY AtRank DEF Inv
<1>2. /\ txTime \in Nat /\ Delay[c] \in Nat /\ c \in Channel /\ s \in Rank
      /\ InterframeGap \in Nat /\ Interval[r][s] \in Nat
    BY TxTimesAssumption, DelayProperties, NeighborsAreMutual, GapAssumption, IntervalType
<1>3. end \in Event /\ IsComplete(end, c) /\ end.kind = "complete" /\ now <= end.ts
    BY <1>1, <1>2 DEF CompleteEvent, Event, IsComplete
<1>4. /\ new \in Event /\ IsNullEvent(new, s) /\ new.ts = now + Interval[r][s]
      /\ new.kind = "null" /\ new.arg = s
    BY <1>1, <1>2 DEF NullEvent, Event, IsNullEvent
<1>5. m_events' = [m_events EXCEPT ![r] = after]
    BY DEF TransmitStart, AfterTransmit
<1>6. mpi' = [mpi EXCEPT ![r][s] = Append(@, m)]
    BY DEF TransmitStart, Send
<1>7. events \in SUBSET Event
    BY <1>1
<1> HIDE DEF end, new, after
<1>8. \A e \in after : \/ e \in events /\ ~ IsNullEvent(e, s)
                       \/ e = end
                       \/ e = new
                       \/ e.kind = "cancelled"
    BY <1>3, <1>4, <1>7, AfterTransmitProperties DEF after
<1>9. m_events'[r] = after
    BY <1>1, <1>5 DEF Types
<1>10. g0 \in Nat /\ new.ts <= g0
    <2>1. pending # {} /\ pending \in SUBSET Event /\ \A e \in pending : now <= e.ts
        BY <1>3, <1>7
    <2> HIDE DEF pending
    <2> QED
        BY <1>1, <1>4, <2>1, GuaranteeCovers
<1> HIDE DEF g0
<1>11. m \in Message /\ m.guarantee = g0
    BY <1>2, <1>10 DEF Message
<1> HIDE DEF m
<1>12. /\ \A p \in Rank \ {r} : mpi'[p] = mpi[p]
       /\ mpi'[r][s] = Append(mpi[r][s], m)
       /\ \A q \in Neighbors[r] : q # s => mpi'[r][q] = mpi[r][q]
    BY <1>1, <1>6, <1>11, SendTypes
<1>13. \A e \in m_events'[r] : e.kind = "stop" => e \in m_events[r]
    BY <1>3, <1>4, <1>8, <1>9
<1>14. ASSUME NEW q \in Neighbors[r]
       PROVE  Covers(r, q)
    <2>1. CASE q # s
        BY <1>3, <1>4, <1>8, <1>9, <1>12, <2>1 DEF Covers, IsNullEvent
    <2>2. CASE q = s
        <3>1. \A e \in after : IsNullEvent(e, s) => e = new
            BY <1>3, <1>8 DEF IsNullEvent
        <3> QED
            BY <1>9, <1>10, <1>11, <1>12, <2>2, <3>1 DEF Covers
    <2> QED
        BY <2>1, <2>2
<1> QED
    BY <1>12, <1>13, <1>14, Zenon

LEMMA TransmitWaits ==
    ASSUME Inv, WaitInv, NEW r \in Rank, NEW s \in Neighbors[r], NEW c \in Channel,
           NEW txTime \in TxTimes, Transmit(r, s, c, txTime)
    PROVE  WaitInv'
<1>1. /\ TransmitStart(r, s, c, m_currentTs[r], txTime, m_events[r])
      /\ pc[r] = "handler" /\ c \in Bundle(r, s)
      /\ pc' = pc /\ m_currentTs' = m_currentTs /\ m_stop' = m_stop
      /\ m_safeTime' = m_safeTime /\ m_guaranteeTime' = m_guaranteeTime
    BY DEF Transmit, safety
<1>2. /\ m_currentTs[r] \in Nat /\ m_currentTs[r] <= m_safeTime[r]
      /\ \A e \in m_events[r] : m_currentTs[r] <= e.ts
    BY AtRank DEF RankOK
<1>3. /\ \A e \in m_events'[r] : e.kind = "stop" => e \in m_events[r]
      /\ \A p \in Rank \ {r} : mpi'[p] = mpi[p]
      /\ \A q \in Neighbors[r] : Covers(r, q)
    BY <1>1, <1>2, TransmitStartWaits
<1>4. WaitOK(r)'
    BY <1>1, <1>3, AtWait DEF WaitOK, WaitsFor
<1>5. \A p \in Rank \ {r} : Rests(p)
    BY StepsAlone, Zenon DEF Program
<1> QED
    BY <1>1, <1>3, <1>4, <1>5, WaitSend, Zenon

LEMMA RunCompleteWaits ==
    ASSUME Inv, WaitInv, NEW r \in Rank, NEW next \in m_events[r], RunComplete(r, next)
    PROVE  WaitInv'
<1> DEFINE left  == m_events[r] \ {next}
           sound == /\ \A e \in m_events'[r] : e.kind = "stop" => e \in m_events[r]
                    /\ \A p \in Rank \ {r} : mpi'[p] = mpi[p]
                    /\ \A q \in Neighbors[r] : Covers(r, q)
<1>1. /\ next.kind = "complete" /\ Take(r, next)
      /\ pc' = [pc EXCEPT ![r] = "receive"] /\ m_stop' = m_stop
      /\ \/ m_events' = [m_events EXCEPT ![r] = left] /\ mpi' = mpi
         \/ \E s \in Neighbors[r], txTime \in TxTimes :
                /\ next.arg \in Bundle(r, s)
                /\ TransmitStart(r, s, next.arg, next.ts, txTime, left)
    BY DEF RunComplete
<1>2. /\ next.ts \in Nat /\ next.ts <= m_safeTime[r]
      /\ m_guaranteeTime' = m_guaranteeTime
      /\ \A e \in m_events[r] : next.ts <= e.ts
    BY <1>1, TakeProperties, Zenon
<1>3. ASSUME m_events' = [m_events EXCEPT ![r] = left], mpi' = mpi
      PROVE  sound
    <2>1. m_events'[r] = left
        BY <1>3 DEF Inv, Types
    <2>2. \A e \in m_events'[r] : e \in m_events[r]
        BY <2>1
    <2> QED
        BY <1>3, <2>2, Zenon DEF Covers
<1>4. ASSUME NEW s \in Neighbors[r], NEW txTime \in TxTimes, next.arg \in Bundle(r, s),
             TransmitStart(r, s, next.arg, next.ts, txTime, left)
      PROVE  sound
    <2>1. left \in SUBSET m_events[r] /\ \A e \in left : next.ts <= e.ts
        BY <1>2
    <2> QED
        BY <1>2, <1>4, <2>1, TransmitStartWaits
<1> HIDE DEF sound
<1>5. sound
    BY <1>1, <1>3, <1>4, Zenon
<1>6. pc'[r] = "receive"
    BY <1>1 DEF Inv, Types
<1>7. WaitOK(r)'
    BY <1>1, <1>5, <1>6, WaitAfterTake, Zenon DEF sound
<1>8. \A p \in Rank \ {r} : Rests(p)
    BY StepsAlone, Zenon DEF Step, ProcessOneEvent
<1> QED
    BY <1>2, <1>5, <1>7, <1>8, WaitSend, Zenon DEF sound

\* The first null message event of a rank comes no later than the first guarantee.
LEMMA RunWaits ==
    ASSUME Inv, WaitInv, NEW r \in Rank, NEW place \in Places(r), Run(r, place)
    PROVE  WaitInv'
<1> DEFINE events   == m_events[r]
           new(q)   == NullEvent(r, q, m_currentTs[r], m_uid[r] + place[q])
           after    == events \cup {new(q) : q \in Neighbors[r]}
           first(q) == [rxTime |-> 0, guarantee |-> GetDelay[r][q]]
<1>1. RankOK(r) /\ Types /\ WaitOK(r)
    BY AtRank, AtWait DEF Inv
<1>2. /\ mpi' = [mpi EXCEPT ![r] = [q \in Neighbors[r] |-> Append(@[q], first(q))]]
      /\ m_events' = [m_events EXCEPT ![r] = after]
      /\ m_safeTime' = [m_safeTime EXCEPT ![r] = 0]
      /\ m_stop' = [m_stop EXCEPT ![r] = FALSE]
      /\ pc' = [pc EXCEPT ![r] = "run"]
      /\ m_guaranteeTime' = m_guaranteeTime
      /\ pc[r] = "start"
    BY DEF Run
<1>3. /\ m_currentTs[r] = 0 /\ m_safeTime[r] = 0
      /\ \A e \in events : e.kind # "null"
    BY <1>1, <1>2 DEF RankOK
<1>4. ASSUME NEW q \in Neighbors[r]
      PROVE  /\ new(q).kind = "null" /\ new(q).arg = q
             /\ first(q) \in Message
             /\ new(q).ts <= first(q).guarantee
    <2>1. /\ GetDelay[r][q] \in Nat /\ Interval[r][q] \in Nat
          /\ Interval[r][q] <= GetDelay[r][q]
        BY DelayProperties, IntervalWithinDelay
    <2> QED
        BY <1>3, <2>1 DEF NullEvent, Message
<1> HIDE DEF new, first
<1>5. \A f \in after : f \in events \/ \E q \in Neighbors[r] : f = new(q)
    OBVIOUS
<1> HIDE DEF after
<1>6. /\ m_events'[r] = after /\ pc'[r] = "run" /\ m_safeTime'[r] = 0 /\ ~ m_stop'[r]
      /\ \A q \in Neighbors[r] : mpi'[r][q] = Append(mpi[r][q], first(q))
      /\ \A p \in Rank \ {r} : mpi'[p] = mpi[p]
    BY <1>1, <1>2 DEF Types
<1>7. WaitOK(r)'
    <2>1. \A e \in after : e.kind = "stop" => e \in events
        BY <1>4, <1>5
    <2> QED
        BY <1>1, <1>2, <1>3, <1>6, <2>1 DEF WaitOK, WaitsFor
<1>8. ASSUME NEW q \in Neighbors[r]
      PROVE  \A e \in after : IsNullEvent(e, q) => e.ts <= first(q).guarantee
    BY <1>3, <1>4, <1>5 DEF IsNullEvent
<1>9. \A p \in Rank \ {r} : Rests(p)
    BY StepsAlone, Zenon DEF Step
<1> QED
    BY <1>2, <1>4, <1>6, <1>7, <1>8, <1>9, WaitSend, Zenon DEF Covers

LEMMA ReceiveNoneWaits ==
    ASSUME Inv, WaitInv, NEW r \in Rank, ReceiveNone(r)
    PROVE  WaitInv'
<1> DEFINE safer == SafeTime(m_guaranteeTime[r])
<1>1. /\ m_safeTime' = [m_safeTime EXCEPT ![r] = safer]
      /\ pc' = [pc EXCEPT ![r] = "run"]
      /\ m_events' = m_events /\ m_currentTs' = m_currentTs
      /\ m_stop' = m_stop /\ m_guaranteeTime' = m_guaranteeTime /\ mpi' = mpi
    BY DEF ReceiveNone, clock
<1>2. \E q \in Neighbors[r] : m_guaranteeTime[r][q] = safer
    BY SafeTimeIsOne DEF Inv, Types
<1> HIDE DEF safer
<1>3. m_safeTime'[r] = safer /\ pc'[r] = "run"
    BY <1>1 DEF Inv, Types
<1>4. WaitOK(r)'
    BY <1>1, <1>2, <1>3, AtWait DEF WaitOK, WaitsFor
<1>5. \A p \in Rank \ {r} : Rests(p)
    BY StepsAlone, Zenon DEF Step
<1> QED
    BY <1>1, <1>4, <1>5, WaitSend, Zenon DEF Covers

LEMMA ReceiveMessageWaits ==
    ASSUME Inv, Inv', WaitInv, NEW r \in Rank, NEW s \in Neighbors[r],
           ReceiveNonBlocking(r, s) \/ ReceiveBlocking(r, s)
    PROVE  WaitInv'
<1> DEFINE m == Head(mpi[s][r])
           e == [ts |-> m_currentTs[r] + (m.rxTime - m_currentTs[r]), uid |-> m_uid[r],
                 kind |-> "program", arg |-> r]
<1>1. e.kind = "program"
    OBVIOUS
<1>2. /\ mpi[s][r] # <<>>
      /\ mpi' = [mpi EXCEPT ![s][r] = Tail(@)]
      /\ \/ m_events' = [m_events EXCEPT ![r] = @ \cup {e}]
         \/ m_events' = m_events
      /\ m_guaranteeTime' = [m_guaranteeTime EXCEPT ![r][s] = m.guarantee]
      /\ m_currentTs' = m_currentTs /\ m_stop' = m_stop /\ pc' = pc
      /\ \/ pc[r] = "receive"
         \/ pc[r] = "run" /\ m_safeTime' = [m_safeTime EXCEPT ![r] =
                                                SafeTime(m_guaranteeTime'[r])]
    BY DEF ReceiveNonBlocking, ReceiveBlocking, TakeMessage
<1> HIDE DEF m, e
<1>3. m_events'[r] = m_events[r] \cup {e} \/ m_events'[r] = m_events[r]
    BY <1>2 DEF Inv, Types
<1>4. \A f \in m_events'[r] : f.kind \in {"null", "stop"} => f \in m_events[r]
    BY <1>1, <1>3
<1>5. pc'[r] \in {"start", "run", "handler"} => WaitsFor(r)' # {}
    <2> SUFFICES ASSUME pc'[r] \in {"start", "run", "handler"}
                 PROVE  WaitsFor(r)' # {}
        OBVIOUS
    <2>1. m_safeTime'[r] = SafeTime(m_guaranteeTime'[r])
        BY <1>2 DEF Inv, Types
    <2>2. m_guaranteeTime'[r] \in [Neighbors[r] -> Nat]
        BY DEF Inv, Types
    <2>3. PICK q \in Neighbors[r] : m_guaranteeTime'[r][q] = SafeTime(m_guaranteeTime'[r])
        BY <2>2, SafeTimeIsOne
    <2> QED
        BY <2>1, <2>3 DEF WaitsFor
<1>6. WaitOK(r)'
    BY <1>2, <1>4, <1>5, AtWait DEF WaitOK
<1>7. \A p \in Rank \ {r} : Rests(p)
    BY StepsAlone, Zenon DEF Step
<1>8. m_guaranteeTime' = [m_guaranteeTime EXCEPT ![r][s] = Head(mpi[s][r]).guarantee]
    BY <1>2 DEF m
<1> QED
    BY <1>2, <1>4, <1>6, <1>7, <1>8, WaitReceive, Zenon DEF IsNullEvent

LEMMA InitWaits == Init => WaitInv
<1> SUFFICES ASSUME Init PROVE WaitInv
    OBVIOUS
<1>1. ASSUME NEW r \in Rank
      PROVE  WaitOK(r)
    <2>1. /\ pc[r] = "start" /\ m_safeTime[r] = 0 /\ ~ m_stop[r]
          /\ \A q \in Neighbors[r] : m_guaranteeTime[r][q] = 0
          /\ \A e \in m_events[r] : e.kind = "stop" => e.ts = StopTime[r]
        BY DEF Init
    <2>2. Neighbors[r] # {}
        BY NeighborsAssumption
    <2> QED
        BY <2>1, <2>2 DEF WaitOK, WaitsFor
<1>2. ASSUME NEW r \in Rank, NEW q \in Neighbors[r]
      PROVE  Announced(r, q)
    <2>1. \A e \in m_events[r] : e.kind # "null"
        BY DEF Init
    <2> QED
        BY <2>1 DEF Announced, IsNullEvent
<1> QED
    BY <1>1, <1>2, Zenon DEF WaitInv

LEMMA NextWaits == ASSUME Inv, Inv', WaitInv, [Next]_vars PROVE WaitInv'
<1>1. CASE UNCHANGED vars
    <2>1. /\ pc' = pc /\ m_events' = m_events /\ m_currentTs' = m_currentTs
          /\ m_stop' = m_stop /\ m_safeTime' = m_safeTime
          /\ m_guaranteeTime' = m_guaranteeTime /\ mpi' = mpi
        BY <1>1 DEF vars, clock, safety
    <2> QED
        BY <2>1 DEF WaitInv, WaitOK, WaitsFor, Announced, LastGuarantee
<1>2. ASSUME NEW r \in Rank, Program(r)
      PROVE  WaitInv'
    <2>1. \/ \E delay \in Delays : Schedule(r, delay)
          \/ \E q \in Neighbors[r], c \in Channel, txTime \in TxTimes :
                 Transmit(r, q, c, txTime)
        BY <1>2 DEF Program
    <2> QED
        BY <2>1, ScheduleWaits, TransmitWaits, Zenon
<1>3. ASSUME NEW r \in Rank, Step(r)
      PROVE  WaitInv'
    <2>1. \/ \E place \in Places(r) : Run(r, place)
          \/ ProcessOneEvent(r)
          \/ HandlerReturns(r)
          \/ ReceiveNone(r)
          \/ \E q \in Neighbors[r] : ReceiveNonBlocking(r, q) \/ ReceiveBlocking(r, q)
          \/ Finish(r)
        BY <1>3 DEF Step
    <2>2. CASE ProcessOneEvent(r)
        BY <2>2, RunPlainWaits, RunNullWaits, RunCompleteWaits, Zenon DEF ProcessOneEvent
    <2> QED
        BY <2>1, <2>2, RunWaits, LeavingWaits, ReceiveNoneWaits, ReceiveMessageWaits, Zenon
<1> QED
    BY <1>1, <1>2, <1>3, Zenon DEF Next, Terminated

\* A rank that waits for q has the last guarantee of q, which lies beyond its next
\* event unless the null message of q is due before that event.
LEMMA InvNoCircularWait == ASSUME Inv, WaitInv PROVE NoCircularWait
<1> SUFFICES ASSUME NEW r \in Rank, Waits(r)
             PROVE  /\ WaitsFor(r) # {}
                    /\ \A q \in WaitsFor(r) :
                           /\ Waits(q) => PeekNext(m_events[q]) < PeekNext(m_events[r])
                           /\ pc[q] = "done" => StopTime[q] < StopTime[r]
    BY Zenon DEF NoCircularWait
<1>1. /\ m_events[r] \in SUBSET Event /\ RankOK(r) /\ m_safeTime[r] \in Nat
      /\ StopTime[r] \in Nat
    BY AtRank
<1>2. /\ pc[r] = "run" /\ ~ m_stop[r] /\ m_events[r] # {}
      /\ PeekNext(m_events[r]) > m_safeTime[r]
      /\ \A q \in Neighbors[r] : mpi[q][r] = <<>>
    BY DEF Waits, IsFinished
<1>3. WaitsFor(r) # {}
    BY <1>2, AtWait DEF WaitOK
<1>4. PeekNext(m_events[r]) \in Nat /\ PeekNext(m_events[r]) <= StopTime[r]
    BY <1>1, <1>2, PeekNextProperties DEF RankOK
<1>5. ASSUME NEW q \in WaitsFor(r)
      PROVE  /\ Waits(q) => PeekNext(m_events[q]) < PeekNext(m_events[r])
             /\ pc[q] = "done" => StopTime[q] < StopTime[r]
    <2>1. /\ q \in Neighbors[r] /\ q \in Rank /\ r \in Neighbors[q]
          /\ m_guaranteeTime[r][q] = m_safeTime[r]
        BY NeighborsAreMutual DEF WaitsFor
    <2>2. /\ m_events[q] \in SUBSET Event /\ RankOK(q) /\ m_currentTs[q] \in Nat
          /\ \A e \in m_events[q] : e.ts \in Nat /\ m_currentTs[q] <= e.ts
        BY <2>1, AtRank DEF RankOK
    <2>3. \A e \in m_events[q] : IsNullEvent(e, r) => e.ts <= m_safeTime[r]
        BY <1>2, <2>1, AtWait, Zenon DEF Announced, LastGuarantee
    <2>4. ASSUME Waits(q)
          PROVE  PeekNext(m_events[q]) < PeekNext(m_events[r])
        <3>1. pc[q] = "run"
            BY <2>4 DEF Waits
        <3>2. PICK e \in m_events[q] : IsNullEvent(e, r)
            BY <2>1, <2>2, <3>1 DEF RankOK, NullDue
        <3>3. PeekNext(m_events[q]) \in Nat /\ PeekNext(m_events[q]) <= e.ts
            BY <2>2, PeekNextProperties
        <3> QED
            BY <1>1, <1>2, <1>4, <2>2, <2>3, <3>2, <3>3
    <2>5. ASSUME pc[q] = "done"
          PROVE  StopTime[q] < StopTime[r]
        <3>1. /\ m_currentTs[q] = StopTime[q]
              /\ \E e \in m_events[q] : IsNullEvent(e, r)
            BY <2>1, <2>5, AtWait DEF WaitOK
        <3>2. PICK e \in m_events[q] : IsNullEvent(e, r)
            BY <3>1
        <3> QED
            BY <1>1, <1>2, <1>4, <2>2, <2>3, <3>1, <3>2
    <2> QED
        BY <2>4, <2>5
<1> QED
    BY <1>3, <1>5, Zenon

\* Of the ranks that wait, the one with the earliest next event waits for one that
\* does not wait.
LEMMA InvSomeRankProceeds ==
    ASSUME Inv, NoCircularWait, \A r, q \in Rank : StopTime[r] = StopTime[q]
    PROVE  SomeRankProceeds
<1> DEFINE blocked == {r \in Rank : Waits(r)}
           nexts   == {PeekNext(m_events[r]) : r \in blocked}
<1> SUFFICES ASSUME NEW r0 \in Rank, pc[r0] # "done", \A r \in Rank : ~ MayProceed(r)
             PROVE  FALSE
    BY Zenon DEF SomeRankProceeds
<1>1. ASSUME NEW r \in Rank
      PROVE  pc[r] = "done" \/ Waits(r)
    <2>1. pc[r] \in Pcs /\ m_events[r] \in SUBSET Event /\ m_safeTime[r] \in Nat
        BY AtRank
    <2>2. SUFFICES ASSUME pc[r] # "done" PROVE Waits(r)
        OBVIOUS
    <2>3. ~ MayProceed(r)
        OBVIOUS
    <2>4. pc[r] = "run" /\ ~ IsFinished(r)
        BY <2>1, <2>2, <2>3 DEF MayProceed, Pcs
    <2>5. \A q \in Neighbors[r] : mpi[q][r] = <<>>
        BY <2>3, <2>4, Zenon DEF MayProceed
    <2>6. PeekNext(m_events[r]) > m_safeTime[r]
        <3>1. m_events[r] # {}
            BY <2>4 DEF IsFinished
        <3>2. PICK e \in m_events[r] : PeekNext(m_events[r]) = e.ts
            BY <2>1, <3>1, PeekNextProperties
        <3>3. ~ (e.ts <= m_safeTime[r]) /\ e.ts \in Nat
            BY <2>1, <2>3, <2>4 DEF MayProceed, Event
        <3> QED
            BY <2>1, <3>2, <3>3
    <2> QED
        BY <2>4, <2>5, <2>6, Zenon DEF Waits
<1>2. ASSUME NEW r \in blocked
      PROVE  PeekNext(m_events[r]) \in Nat
    <2>1. m_events[r] \in SUBSET Event /\ m_events[r] # {}
        BY AtRank DEF Waits, IsFinished
    <2> QED
        BY <2>1, PeekNextProperties
<1>3. nexts \subseteq Nat /\ nexts # {}
    <2>1. r0 \in blocked
        BY <1>1
    <2> QED
        BY <1>2, <2>1
<1>4. PICK r \in blocked : \A q \in blocked : PeekNext(m_events[r]) <= PeekNext(m_events[q])
    <2>1. Least(nexts) \in nexts /\ \A y \in nexts : Least(nexts) <= y
        BY <1>3, LeastProperties
    <2>2. PICK r \in blocked : PeekNext(m_events[r]) = Least(nexts)
        BY <2>1
    <2>3. \A q \in blocked : PeekNext(m_events[q]) \in nexts
        OBVIOUS
    <2> QED
        BY <2>1, <2>2, <2>3
<1>5. PICK q \in WaitsFor(r) :
          /\ Waits(q) => PeekNext(m_events[q]) < PeekNext(m_events[r])
          /\ pc[q] = "done" => StopTime[q] < StopTime[r]
    BY Zenon DEF NoCircularWait
<1>6. q \in Rank
    BY NeighborsAreMutual DEF WaitsFor
<1>7. StopTime[q] = StopTime[r] /\ StopTime[r] \in Nat
    BY <1>6, StopTimeAssumption
<1>8. pc[q] # "done"
    BY <1>5, <1>7
<1>9. q \in blocked /\ PeekNext(m_events[q]) < PeekNext(m_events[r])
    BY <1>1, <1>5, <1>6, <1>8
<1> QED
    BY <1>2, <1>4, <1>9

\* Until transmissions overlap, ranks never wait for each other in a circle, whatever
\* their delays and stop times: who waits does so for a neighbour with an earlier next
\* event, for one that does not wait in MPI_Waitany, or for one that was to stop earlier.
THEOREM WaitsAreNotCircular == Spec => [](~ overlapped => NoCircularWait)
<1>1. Init => WaitInv
    BY InitWaits
<1>2. /\ (~ overlapped => Inv) /\ (~ overlapped => Inv)'
      /\ (~ overlapped => WaitInv) /\ [Next]_vars
      => (~ overlapped => WaitInv)'
    <2> SUFFICES ASSUME ~ overlapped => Inv, Inv', ~ overlapped => WaitInv,
                        [Next]_vars, ~ overlapped'
                 PROVE  WaitInv'
        OBVIOUS
    <2>1. ~ overlapped
        BY OverlappedStays
    <2> QED
        BY <2>1, NextWaits
<1>3. Inv /\ WaitInv => NoCircularWait
    BY InvNoCircularWait
<1> QED
    BY <1>1, <1>2, <1>3, InvHolds, PTL DEF Spec

\* Until then some rank may proceed while a rank is not done, when all stop at the same
\* time: the protocol of null messages does not deadlock.
THEOREM DeadlockFree ==
    ASSUME \A r, q \in Rank : StopTime[r] = StopTime[q]
    PROVE  Spec => [](~ overlapped => SomeRankProceeds)
<1>1. Inv /\ NoCircularWait => SomeRankProceeds
    BY InvSomeRankProceeds
<1> QED
    BY <1>1, InvHolds, WaitsAreNotCircular, PTL
=============================================================================

----------------------- MODULE RealtimeSimulatorProofs ----------------------
(***************************************************************************)
(* RealtimeSimulator, for every set of delays, idle wait and number of     *)
(* events: events run in order and never early, and no signal is missed.   *)
(*                                                                         *)
(* When Synchronize returns TRUE the time is that of an event which was in *)
(* the list when the delay was computed.  It is still there, or one before *)
(* it, because the main thread alone takes events out (HasEvent).          *)
(***************************************************************************)
EXTENDS RealtimeSimulator, WellFoundedInduction, TLAPS

\* The types, with the counter of the events scheduled and not taken.
TypeOK ==
    /\ pc \in Pcs
    /\ realtime \in Nat
    /\ m_events \in SUBSET Event
    /\ m_uid \in Nat
    /\ m_unscheduledEvents \in Int
    /\ m_currentTs \in Nat
    /\ m_currentUid \in Nat
    /\ until \in Nat
    /\ deadline \in Int

FlagsOK == /\ m_stop \in BOOLEAN
           /\ m_running \in BOOLEAN
           /\ m_condition \in BOOLEAN
           /\ processing \in BOOLEAN

\* Uids are given in order.
UidsGiven == m_currentUid < m_uid /\ \A e \in m_events : e.uid < m_uid

\* What other threads rely on when they ask for the time.
RunningFlag == m_running <=> pc \notin {"start", "done"}

\* ProcessOneEvent has an event to take, which is due when it takes it: the
\* assertion that the list is not empty.
HasEvent ==
    /\ pc = "process" => m_events # {}
    /\ pc \in Waiting /\ processing => \E e \in m_events : e.ts <= until
    /\ pc = "take" => \E e \in m_events : e.ts <= realtime

Inv == TypeOK /\ FlagsOK /\ UidsGiven /\ RunningFlag /\ HasEvent /\ Paced /\ NoSignalMissed

Current == [ts |-> m_currentTs, uid |-> m_currentUid]
-----------------------------------------------------------------------------
LEMMA NatMinimum ==
    ASSUME NEW S, S \subseteq Nat, S # {}
    PROVE  \E x \in S : \A y \in S : x <= y
<1>1. IsWellFoundedOn(OpToRel(<, Nat), Nat)
    BY NatLessThanWellFounded
<1>2. PICK x \in S : \A y \in S : ~ (<<y, x>> \in OpToRel(<, Nat))
    BY <1>1, WFMin
<1>3. ASSUME NEW y \in S PROVE x <= y
    <2>1. x \in Nat /\ y \in Nat /\ <<y, x>> \in Nat \X Nat
        OBVIOUS
    <2>2. y < x => <<y, x>> \in OpToRel(<, Nat)
        BY <2>1 DEF OpToRel
    <2>3. ~ (<<y, x>> \in OpToRel(<, Nat))
        BY <1>2, Zenon
    <2>4. ~ (y < x)
        BY <2>2, <2>3, Zenon
    <2> QED
        BY <2>1, <2>4
<1> QED
    BY <1>3

\* The time of the next event.
LEMMA NextTsProperties ==
    ASSUME m_events \in SUBSET Event, m_events # {}
    PROVE  /\ NextTs \in Nat
           /\ \E e \in m_events : e.ts = NextTs
           /\ \A e \in m_events : NextTs <= e.ts
<1> DEFINE T == {e.ts : e \in m_events}
<1>1. T \subseteq Nat /\ T # {}
    BY DEF Event
<1> HIDE DEF T
<1>2. PICK x \in T : \A y \in T : x <= y
    BY <1>1, NatMinimum
<1> USE DEF T
<1>3. \A e \in m_events : x <= e.ts
    BY <1>2
<1>4. NextTs \in T /\ \A e \in m_events : NextTs <= e.ts
    BY <1>3 DEF NextTs
<1> QED
    BY <1>1, <1>4
-----------------------------------------------------------------------------
LEMMA InitInv == Init => Inv
<1> SUFFICES ASSUME Init PROVE Inv
    OBVIOUS
<1>1. TypeOK
    BY DEF Init, TypeOK, Pcs
<1>2. FlagsOK
    BY Zenon DEF Init, FlagsOK
<1>3. UidsGiven /\ RunningFlag /\ HasEvent /\ Paced /\ NoSignalMissed
    BY DEF Init, UidsGiven, RunningFlag, HasEvent, Paced, NoSignalMissed, Waiting
<1> QED
    BY <1>1, <1>2, <1>3 DEF Inv

\* The functions that schedule, at a time that is not behind the clock of the
\* simulator.
LEMMA InsertInv ==
    ASSUME Inv, NEW ts \in Nat, Insert(ts), pc = "event" => ts >= m_currentTs
    PROVE  Inv'
<1> DEFINE new == [ts |-> ts, uid |-> m_uid, cancelled |-> FALSE]
<1>1. /\ m_events' = m_events \cup {new}
      /\ m_uid' = m_uid + 1
      /\ m_condition' = TRUE
      /\ new \in Event /\ new.ts = ts /\ new.uid = m_uid
    BY DEF Insert, Inv, TypeOK, Event
<1> HIDE DEF new
<1>2. TypeOK'
    <2>1. m_events' \in SUBSET Event
        BY <1>1, Zenon DEF Inv, TypeOK
    <2> QED
        BY <2>1 DEF Insert, Inv, TypeOK, current, wait
<1>3. UidsGiven'
    BY <1>1 DEF Insert, Inv, TypeOK, UidsGiven, current, Event
<1>4. RunningFlag'
    BY DEF Insert, Inv, RunningFlag, flags
<1>5. HasEvent'
    BY <1>1 DEF Insert, Inv, HasEvent, wait
<1>6. Paced'
    BY <1>1 DEF Insert, Inv, TypeOK, UidsGiven, Paced, current, KeyLess
<1>7. NoSignalMissed'
    BY <1>1 DEF NoSignalMissed
<1>flags. FlagsOK'
    BY Zenon DEF Insert, Inv, FlagsOK, flags, wait
<1> QED
    BY <1>flags, <1>2, <1>3, <1>4, <1>5, <1>6, <1>7 DEF Inv

LEMMA ScheduleInv ==
    ASSUME Inv, NEW delay \in Delays,
           Schedule(delay) \/ ScheduleFromThread(delay) \/ ScheduleRealtime(delay)
    PROVE  Inv'
<1>1. delay \in Nat /\ m_currentTs \in Nat /\ GetCurrentRealtime \in Nat
    BY DelaysAssumption, EpochAssumption DEF Inv, TypeOK, GetCurrentRealtime
<1>2. pc = "event" => /\ m_running
                      /\ GetCurrentRealtime >= m_currentTs
    BY DEF Inv, TypeOK, RunningFlag, Paced, GetCurrentRealtime
<1>3. \E ts \in Nat : Insert(ts) /\ (pc = "event" => ts >= m_currentTs)
    <2>1. CASE Schedule(delay)
        BY <1>1, <2>1 DEF Schedule
    <2>2. CASE ScheduleFromThread(delay)
        BY <1>1, <1>2, <2>2 DEF ScheduleFromThread
    <2>3. CASE ScheduleRealtime(delay)
        BY <1>1, <1>2, <2>3 DEF ScheduleRealtime
    <2> QED
        BY <2>1, <2>2, <2>3
<1> QED
    BY <1>3, InsertInv

LEMMA CancelInv ==
    ASSUME Inv, NEW e \in m_events, Cancel(e)
    PROVE  Inv'
<1> DEFINE new == [e EXCEPT !.cancelled = TRUE]
<1>1. /\ e \in Event
      /\ new \in Event /\ new.ts = e.ts /\ new.uid = e.uid
      /\ m_events' = (m_events \ {e}) \cup {new}
      /\ pc' = pc /\ pc \in {"start", "event"}
    BY DEF Cancel, MainThread, Inv, TypeOK, Event
<1> HIDE DEF new
<1>2. TypeOK'
    BY <1>1 DEF Cancel, Inv, TypeOK, current, flags, wait
<1>3. UidsGiven'
    BY <1>1 DEF Cancel, Inv, UidsGiven, current
<1>4. RunningFlag'
    BY DEF Cancel, Inv, RunningFlag, flags
<1>5. HasEvent' /\ NoSignalMissed'
    BY <1>1 DEF HasEvent, NoSignalMissed, Waiting
<1>6. Paced'
    BY <1>1 DEF Cancel, Inv, Paced, current, KeyLess
<1>flags. FlagsOK'
    BY Zenon DEF Cancel, Inv, FlagsOK, flags, wait
<1> QED
    BY <1>flags, <1>2, <1>3, <1>4, <1>5, <1>6 DEF Inv

LEMMA RemoveInv ==
    ASSUME Inv, NEW e \in m_events, Remove(e)
    PROVE  Inv'
<1>1. /\ m_events' \subseteq m_events
      /\ pc' = pc /\ pc \in {"start", "event"}
    BY DEF Remove, MainThread
<1>2. TypeOK'
    BY DEF Remove, Inv, TypeOK, current, flags, wait
<1>3. UidsGiven'
    BY <1>1 DEF Remove, Inv, UidsGiven, current
<1>4. RunningFlag'
    BY DEF Remove, Inv, RunningFlag, flags
<1>5. HasEvent' /\ NoSignalMissed'
    BY <1>1 DEF HasEvent, NoSignalMissed, Waiting
<1>6. Paced'
    BY <1>1 DEF Remove, Inv, Paced, current
<1>flags. FlagsOK'
    BY Zenon DEF Remove, Inv, FlagsOK, flags, wait
<1> QED
    BY <1>flags, <1>2, <1>3, <1>4, <1>5, <1>6 DEF Inv

\* A wait that is over, or not needed: time only goes on.
LEMMA TickInv ==
    ASSUME Inv, Tick
    PROVE  Inv'
<1> USE DEF Tick, Inv
<1>1. TypeOK'
    BY DEF TypeOK, list, current, flags, wait
<1>2. UidsGiven' /\ RunningFlag'
    BY DEF UidsGiven, RunningFlag, list, current, flags
<1>3. HasEvent'
    BY DEF TypeOK, Event, HasEvent, list, wait
<1>4. Paced'
    BY DEF TypeOK, Paced, list, current
<1>5. NoSignalMissed'
    BY DEF TypeOK, NoSignalMissed, list, wait
<1>flags. FlagsOK'
    BY Zenon DEF Tick, Inv, FlagsOK, flags, wait
<1> QED
    BY <1>flags, <1>1, <1>2, <1>3, <1>4, <1>5

LEMMA StopRunInv ==
    ASSUME Inv, Stop \/ Run \/ SetOrigin \/ RunReturns \/ HandlerReturns
    PROVE  Inv'
<1> USE DEF Stop, Run, SetOrigin, RunReturns, HandlerReturns, Inv
<1>1. TypeOK'
    BY DEF TypeOK, Pcs, list, current, wait
<1>2. FlagsOK'
    BY Zenon DEF FlagsOK, flags, wait
<1>3. RunningFlag'
    BY DEF RunningFlag, flags
<1>4. UidsGiven' /\ HasEvent' /\ Paced' /\ NoSignalMissed'
    BY DEF UidsGiven, HasEvent, Paced, NoSignalMissed, Waiting, list, current, wait
<1> QED
    BY <1>1, <1>2, <1>3, <1>4

LEMMA LoopInv ==
    ASSUME Inv, Loop
    PROVE  Inv'
<1>1. TypeOK'
    BY IdleWaitAssumption DEF Loop, Inv, TypeOK, Pcs, Waiting, list, current, flags, wait
<1>2. UidsGiven' /\ RunningFlag' /\ HasEvent' /\ Paced' /\ NoSignalMissed'
    BY DEF Loop, Inv, UidsGiven, RunningFlag, HasEvent, Paced, NoSignalMissed,
       Waiting, list, current, flags
<1>flags. FlagsOK'
    BY Zenon DEF Loop, Inv, FlagsOK, flags, wait
<1> QED
    BY <1>flags, <1>1, <1>2 DEF Inv

\* The delay is that of the earliest event, or none.
LEMMA ComputeDelayInv ==
    ASSUME Inv, ComputeDelay
    PROVE  Inv'
<1>1. m_events # {} /\ m_events \in SUBSET Event /\ realtime \in Nat
    BY DEF ComputeDelay, Inv, TypeOK, HasEvent
<1>2. /\ NextTs \in Nat
      /\ \E e \in m_events : e.ts = NextTs
      /\ \A e \in m_events : NextTs <= e.ts
    BY <1>1, NextTsProperties
<1>3. /\ pc' = "synchronize" /\ processing' = TRUE
      /\ until' = (IF NextTs <= realtime THEN realtime ELSE NextTs)
      /\ m_events' = m_events /\ realtime' = realtime
    BY DEF ComputeDelay, list
<1>4. TypeOK'
    BY <1>1, <1>2, <1>3 DEF ComputeDelay, Inv, TypeOK, Pcs, Waiting, list, current, flags
<1>5. UidsGiven' /\ RunningFlag' /\ Paced'
    BY DEF ComputeDelay, Inv, UidsGiven, RunningFlag, Paced, list, current, flags
<1>6. HasEvent'
    BY <1>1, <1>2, <1>3 DEF HasEvent, Waiting
<1>7. NoSignalMissed'
    BY <1>1, <1>2, <1>3 DEF NoSignalMissed
<1>flags. FlagsOK'
    BY Zenon DEF ComputeDelay, Inv, FlagsOK, flags
<1> QED
    BY <1>flags, <1>4, <1>5, <1>6, <1>7 DEF Inv

LEMMA SynchronizeInv ==
    ASSUME Inv, Synchronize
    PROVE  Inv'
<1>1. TypeOK'
    BY DEF Synchronize, Inv, TypeOK, Pcs, Waiting, list, current, flags
<1>2. UidsGiven' /\ RunningFlag' /\ HasEvent' /\ Paced' /\ NoSignalMissed'
    BY DEF Synchronize, Inv, UidsGiven, RunningFlag, HasEvent, Paced, NoSignalMissed,
       Waiting, list, current, flags
<1>flags. FlagsOK'
    BY Zenon DEF Synchronize, Inv, FlagsOK, flags
<1> QED
    BY <1>flags, <1>1, <1>2 DEF Inv

\* A wait returns TRUE only when its time has come.
LEMMA ReturnInv ==
    ASSUME Inv, pc \in Waiting, NEW reached \in BOOLEAN, Return(reached),
           reached => realtime >= until,
           UNCHANGED <<realtime, list, current, flags, m_condition>>
    PROVE  Inv'
<1>1. TypeOK'
    BY DEF Return, Inv, TypeOK, Pcs, list, current, flags
<1>2. UidsGiven' /\ RunningFlag' /\ Paced' /\ NoSignalMissed'
    BY DEF Return, Inv, TypeOK, UidsGiven, RunningFlag, Paced, NoSignalMissed, Waiting,
       list, current, flags
<1>3. HasEvent'
    BY DEF Return, Inv, TypeOK, Event, HasEvent, Waiting, list
<1>flags. FlagsOK'
    BY Zenon DEF Return, Inv, FlagsOK, flags
<1> QED
    BY <1>flags, <1>1, <1>2, <1>3 DEF Inv

LEMMA WaitInv ==
    ASSUME Inv, SleepWait \/ GetDrift \/ SpinWait
    PROVE  Inv'
<1>1. \/ /\ pc \in Waiting /\ pc' \in Waiting
         /\ UNCHANGED <<realtime, list, current, flags, m_condition, wait>>
      \/ \E reached \in BOOLEAN :
            /\ pc \in Waiting /\ Return(reached)
            /\ reached => realtime >= until
            /\ UNCHANGED <<realtime, list, current, flags, m_condition>>
    BY DEF SleepWait, GetDrift, SpinWait, Waiting
<1>2. CASE /\ pc \in Waiting /\ pc' \in Waiting
           /\ UNCHANGED <<realtime, list, current, flags, m_condition, wait>>
    <2>1. TypeOK'
        BY <1>2 DEF Inv, TypeOK, Pcs, list, current, wait
    <2>2. FlagsOK'
        BY <1>2, Zenon DEF Inv, FlagsOK, flags, wait
    <2>3. UidsGiven' /\ RunningFlag' /\ HasEvent' /\ Paced' /\ NoSignalMissed'
        BY <1>2 DEF Inv, UidsGiven, RunningFlag, HasEvent, Paced, NoSignalMissed,
           Waiting, list, current, flags, wait
    <2> QED
        BY <2>1, <2>2, <2>3 DEF Inv
<1>3. CASE \E reached \in BOOLEAN :
            /\ pc \in Waiting /\ Return(reached)
            /\ reached => realtime >= until
            /\ UNCHANGED <<realtime, list, current, flags, m_condition>>
    BY <1>3, ReturnInv
<1> QED
    BY <1>1, <1>2, <1>3

\* The event taken is no later than one that is due.
LEMMA RemoveNextInv ==
    ASSUME Inv, NEW next \in m_events, RemoveNext(next)
    PROVE  Inv'
<1>1. /\ next \in Event
      /\ m_events' = m_events \ {next}
      /\ m_currentTs' = next.ts /\ m_currentUid' = next.uid
      /\ pc = "take" /\ pc' \in {"loop", "event"}
      /\ realtime' = realtime
    BY DEF RemoveNext, Inv, TypeOK
<1>2. PICK due \in m_events : due.ts <= realtime
    BY <1>1 DEF Inv, HasEvent
<1>3. \A f \in m_events \ {next} : KeyLess(next, f)
    BY DEF RemoveNext, IsEarliest
<1>4. next.ts <= realtime
    BY <1>1, <1>2, <1>3 DEF KeyLess, Inv, TypeOK, Event
<1>5. TypeOK'
    BY <1>1 DEF RemoveNext, Inv, TypeOK, Pcs, Event, flags, wait
<1>6. UidsGiven'
    BY <1>1 DEF RemoveNext, Inv, UidsGiven
<1>7. RunningFlag'
    BY <1>1 DEF RemoveNext, Inv, RunningFlag, flags
<1>8. HasEvent' /\ NoSignalMissed'
    BY <1>1 DEF HasEvent, NoSignalMissed, Waiting
<1>9. Paced'
    BY <1>1, <1>3, <1>4 DEF Paced, KeyLess
<1>flags. FlagsOK'
    BY Zenon DEF RemoveNext, Inv, FlagsOK, flags, wait
<1> QED
    BY <1>flags, <1>5, <1>6, <1>7, <1>8, <1>9 DEF Inv

LEMMA NextInv == Inv /\ [Next]_vars => Inv'
<1> SUFFICES ASSUME Inv, [Next]_vars PROVE Inv'
    OBVIOUS
<1>1. CASE Program
    BY <1>1, ScheduleInv, CancelInv, RemoveInv, StopRunInv DEF Program
<1>2. CASE Tick
    BY <1>2, TickInv
<1>3. CASE Run
    BY <1>3, StopRunInv
<1>4. CASE Step
    BY <1>4, StopRunInv, LoopInv, ComputeDelayInv, SynchronizeInv, WaitInv,
       RemoveNextInv DEF Step
<1>5. CASE UNCHANGED vars
    BY <1>5 DEF vars, Inv, TypeOK, FlagsOK, UidsGiven, RunningFlag, HasEvent, Paced,
       NoSignalMissed, list, current, flags, wait
<1> QED
    BY <1>1, <1>2, <1>3, <1>4, <1>5 DEF Next

LEMMA SpecInv == Spec => []Inv
<1>1. Inv /\ [Next]_vars => Inv'
    BY NextInv
<1> QED
    BY InitInv, <1>1, PTL DEF Spec
-----------------------------------------------------------------------------
\* Events run in order and no earlier than their time, whatever other threads
\* insert while the main thread waits.
THEOREM EventsArePaced == Spec => []Paced
<1>1. Inv => Paced
    BY DEF Inv
<1> QED
    BY SpecInv, <1>1, PTL

\* An event inserted before the one that is waited for has set the condition.
THEOREM SignalsAreSeen == Spec => []NoSignalMissed
<1>1. Inv => NoSignalMissed
    BY DEF Inv
<1> QED
    BY SpecInv, <1>1, PTL

\* The assertions of ProcessOneEvent, that the list is not empty when the delay
\* is computed and when an event is taken.
THEOREM ListNotEmpty == Spec => [](pc \in {"process", "take"} => m_events # {})
<1>1. Inv => (pc \in {"process", "take"} => m_events # {})
    BY DEF Inv, HasEvent
<1> QED
    BY SpecInv, <1>1, PTL
=============================================================================

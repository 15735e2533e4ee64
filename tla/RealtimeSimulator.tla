------------------------- MODULE RealtimeSimulator --------------------------
(***************************************************************************)
(* ns3::RealtimeSimulatorImpl (core/model/realtime-simulator-impl.cc) and  *)
(* its WallClockSynchronizer: the main thread executes an event when real  *)
(* time has come to the time of the event, while foreign threads insert    *)
(* events, for real time or for real time plus a delay.                    *)
(*                                                                         *)
(* The event list is guarded by a mutex; a critical section is one step.   *)
(* The main thread waits outside of it, in Synchronize, and is told of an  *)
(* insertion by m_condition alone.  It may be slow at any place: real time *)
(* passes between any two steps.  A jiffy is one unit of time, as the      *)
(* nanosecond of system_clock is in the code.                              *)
(*                                                                         *)
(* Run is called once, with SYNC_BEST_EFFORT.  Only the main thread        *)
(* cancels and removes events.                                             *)
(***************************************************************************)
EXTENDS EventKey, FiniteSets

CONSTANTS
    Delays,     \* the delays events are scheduled with
    IdleWait,   \* the second for which Run waits when the list is empty
    Epoch,      \* real time as it is before SetOrigin
    MaxTime,    \* bound: real time ends here
    MaxEvents   \* bound: how many events are ever scheduled

ASSUME DelaysAssumption   == Delays \subseteq Nat
ASSUME IdleWaitAssumption == IdleWait \in Nat
ASSUME BoundsAssumption   == MaxTime \in Nat /\ MaxEvents \in Nat
ASSUME EpochAssumption    == Epoch \in Nat /\ Epoch > MaxTime

VARIABLES
    pc,             \* where the main thread is
    realtime,       \* time since SetOrigin
    m_events, m_uid, m_unscheduledEvents,
    m_currentTs, m_currentUid,
    m_stop, m_running,
    m_condition,    \* the synchronizer was signalled
    processing,     \* Synchronize was called by ProcessOneEvent, not by Run
    until,          \* the time Synchronize waits for, tsNow + tsDelay
    deadline        \* the time at which SleepWait gives up

list    == <<m_events, m_uid, m_unscheduledEvents>>
current == <<m_currentTs, m_currentUid>>
flags   == <<m_stop, m_running>>
wait    == <<processing, until, deadline>>
vars    == <<pc, realtime, list, current, flags, m_condition, wait>>

\* In Synchronize.
Waiting == {"synchronize", "sleep", "drift", "spin"}
Pcs == Waiting \cup {"start", "origin", "loop", "process", "take", "event", "done"}

Event == [ts : Nat, uid : Nat, cancelled : BOOLEAN]

GetCurrentRealtime == IF pc \in {"start", "origin"} THEN Epoch ELSE realtime

NextTs == CHOOSE ts \in {e.ts : e \in m_events} : \A e \in m_events : ts <= e.ts

\* m_condition is not initialised.
Init ==
    /\ pc = "start"
    /\ realtime = 0
    /\ m_events = {}
    /\ m_uid = 4
    /\ m_unscheduledEvents = 0
    /\ m_currentTs = 0
    /\ m_currentUid = 0
    /\ m_stop = FALSE
    /\ m_running = FALSE
    /\ m_condition \in BOOLEAN
    /\ processing = FALSE
    /\ until = 0
    /\ deadline = 0

Tick ==
    /\ pc \notin {"start", "origin"}
    /\ realtime < MaxTime
    /\ realtime' = realtime + 1
    /\ UNCHANGED <<pc, list, current, flags, m_condition, wait>>
-----------------------------------------------------------------------------
(* Scheduling.                                                             *)

\* A mutant: without Signal.
InsertSilently(ts) ==
    /\ m_uid < 4 + MaxEvents
    /\ m_events' = m_events \cup {[ts |-> ts, uid |-> m_uid, cancelled |-> FALSE]}
    /\ m_uid' = m_uid + 1
    /\ m_unscheduledEvents' = m_unscheduledEvents + 1
    /\ UNCHANGED <<pc, realtime, current, flags, wait, m_condition>>

\* The end of every function that schedules: m_events->Insert and Signal.
Insert(ts) ==
    /\ m_uid < 4 + MaxEvents
    /\ m_events' = m_events \cup {[ts |-> ts, uid |-> m_uid, cancelled |-> FALSE]}
    /\ m_uid' = m_uid + 1
    /\ m_unscheduledEvents' = m_unscheduledEvents + 1
    /\ m_condition' = TRUE
    /\ UNCHANGED <<pc, realtime, current, flags, wait>>

MainThread == pc \in {"start", "event"}

\* Schedule and ScheduleWithContext, by the main thread.
Schedule(delay) == MainThread /\ Insert(m_currentTs + delay)

\* ScheduleWithContext, by another thread, and ScheduleRealtimeNowWithContext,
\* by any.
ScheduleFromThread(delay) ==
    Insert(IF m_running THEN GetCurrentRealtime + delay ELSE m_currentTs + delay)

\* ScheduleRealtimeWithContext.
ScheduleRealtime(delay) == Insert(GetCurrentRealtime + delay)

\* IsExpired, of an event that was scheduled with an id.
IsExpired(e) == ~ KeyLess([ts |-> m_currentTs, uid |-> m_currentUid], e) \/ e.cancelled

\* Of any event: that those scheduled by ScheduleWithContext have no id to
\* cancel them with is not modelled.
Cancel(e) ==
    /\ MainThread
    /\ ~ IsExpired(e)
    /\ m_events' = (m_events \ {e}) \cup {[e EXCEPT !.cancelled = TRUE]}
    /\ UNCHANGED <<pc, realtime, m_uid, m_unscheduledEvents, current, flags,
                   m_condition, wait>>

Remove(e) ==
    /\ MainThread
    /\ ~ IsExpired(e)
    /\ m_events' = m_events \ {e}
    /\ m_unscheduledEvents' = m_unscheduledEvents - 1
    /\ UNCHANGED <<pc, realtime, m_uid, current, flags, m_condition, wait>>

\* By any thread; nothing is signalled.
Stop ==
    /\ ~ m_stop
    /\ m_stop' = TRUE
    /\ UNCHANGED <<pc, realtime, list, current, m_running, m_condition, wait>>
-----------------------------------------------------------------------------
(* Run.                                                                    *)

Run ==
    /\ pc = "start"
    /\ m_stop' = FALSE
    /\ m_running' = TRUE
    /\ pc' = "origin"
    /\ UNCHANGED <<realtime, list, current, m_condition, wait>>

SetOrigin ==
    /\ pc = "origin"
    /\ pc' = "loop"
    /\ UNCHANGED <<realtime, list, current, flags, m_condition, wait>>

\* With an empty list Run waits in Synchronize itself.
Loop ==
    /\ pc = "loop"
    /\ ~ m_stop
    /\ IF m_events # {}
       THEN /\ pc' = "process"
            /\ UNCHANGED wait
       ELSE /\ pc' = "synchronize"
            /\ processing' = FALSE
            /\ until' = realtime + IdleWait
            /\ UNCHANGED deadline
    /\ UNCHANGED <<realtime, list, current, flags, m_condition>>

RunReturns ==
    /\ pc = "loop"
    /\ m_stop
    /\ m_running' = FALSE
    /\ pc' = "done"
    /\ UNCHANGED <<realtime, list, current, m_stop, m_condition, wait>>
-----------------------------------------------------------------------------
(* ProcessOneEvent.                                                        *)

\* The critical section that computes the delay resets the condition too.
ComputeDelay ==
    /\ pc = "process"
    /\ processing' = TRUE
    /\ until' = IF NextTs <= realtime THEN realtime ELSE NextTs
    /\ m_condition' = FALSE
    /\ pc' = "synchronize"
    /\ UNCHANGED <<realtime, list, current, flags, deadline>>

\* Synchronize returns `reached': the time has come, or else the caller has to
\* look at the list again.  Its variables are gone.
Return(reached) ==
    /\ pc' = IF ~ processing THEN "loop" ELSE IF reached THEN "take" ELSE "process"
    /\ processing' = FALSE
    /\ until' = 0
    /\ deadline' = 0

\* A mutant: the condition is reset here.
ResetLate ==
    /\ pc = "synchronize"
    /\ IF until - realtime > 3
       THEN pc' = "sleep" /\ deadline' = until - 3
       ELSE pc' = "drift" /\ UNCHANGED deadline
    /\ m_condition' = FALSE
    /\ UNCHANGED <<realtime, list, current, flags, processing, until>>

\* DoSynchronize: what DriftCorrect leaves of the delay is slept but for three
\* jiffies.
Synchronize ==
    /\ pc = "synchronize"
    /\ IF until - realtime > 3
       THEN pc' = "sleep" /\ deadline' = until - 3
       ELSE pc' = "drift" /\ UNCHANGED deadline
    /\ UNCHANGED <<realtime, list, current, flags, m_condition, processing, until>>

\* A mutant: a sleep that timed out is a wait that is over.
SleepEnds ==
    /\ pc = "sleep"
    /\ m_condition \/ realtime >= deadline
    /\ Return(TRUE)
    /\ UNCHANGED <<realtime, list, current, flags, m_condition>>

\* SleepWait returns what wait_for does, the condition: a sleep that timed out
\* counts as interrupted, one that was interrupted goes on to the spin.
SleepWait ==
    /\ pc = "sleep"
    /\ \/ m_condition /\ pc' = "drift" /\ UNCHANGED wait
       \/ ~ m_condition /\ realtime >= deadline /\ Return(FALSE)
    /\ UNCHANGED <<realtime, list, current, flags, m_condition>>

GetDrift ==
    /\ pc = "drift"
    /\ \/ realtime >= until /\ Return(TRUE)
       \/ realtime < until /\ pc' = "spin" /\ UNCHANGED wait
    /\ UNCHANGED <<realtime, list, current, flags, m_condition>>

\* SpinWait reads the clock and then the condition, which may be set, and the
\* time come, in between.
SpinWait ==
    /\ pc = "spin"
    /\ \/ realtime >= until /\ Return(TRUE)
       \/ m_condition /\ Return(FALSE)
    /\ UNCHANGED <<realtime, list, current, flags, m_condition>>

\* Not necessarily the event whose time was waited for.
RemoveNext(next) ==
    /\ pc = "take"
    /\ IsEarliest(next, m_events)
    /\ m_events' = m_events \ {next}
    /\ m_unscheduledEvents' = m_unscheduledEvents - 1
    /\ m_currentTs' = next.ts
    /\ m_currentUid' = next.uid
    /\ pc' = IF next.cancelled THEN "loop" ELSE "event"
    /\ UNCHANGED <<realtime, m_uid, flags, m_condition, wait>>

HandlerReturns ==
    /\ pc = "event"
    /\ pc' = "loop"
    /\ UNCHANGED <<realtime, list, current, flags, m_condition, wait>>
-----------------------------------------------------------------------------
Program ==
    \/ \E delay \in Delays : \/ Schedule(delay)
                             \/ ScheduleFromThread(delay)
                             \/ ScheduleRealtime(delay)
    \/ \E e \in m_events : Cancel(e) \/ Remove(e)
    \/ Stop

Step == \/ SetOrigin
        \/ Loop
        \/ RunReturns
        \/ ComputeDelay
        \/ Synchronize
        \/ SleepWait
        \/ GetDrift
        \/ SpinWait
        \/ \E next \in m_events : RemoveNext(next)
        \/ HandlerReturns

Next == Program \/ Tick \/ Run \/ Step

Spec == Init /\ [][Next]_vars

\* Time passes, and the main thread is scheduled.
FairSpec == Spec /\ WF_vars(Tick) /\ WF_vars(Step)
-----------------------------------------------------------------------------
(* Properties.                                                             *)

\* An event runs when its time has come, never before, and the events that are
\* left all lie ahead of it: the assertion of ProcessOneEvent that time does
\* not go back, and what IsExpired relies on.
Paced ==
    pc = "event" =>
        /\ m_currentTs <= realtime
        /\ \A e \in m_events : KeyLess([ts |-> m_currentTs, uid |-> m_currentUid], e)

\* No signal is missed: while the main thread waits for a time, an event that is
\* due earlier has set the condition, though it was inserted by another thread
\* at any moment since the delay was computed.
NoSignalMissed ==
    pc \in Waiting =>
        \A e \in m_events : m_condition \/ (processing /\ e.ts >= until)
                                        \/ (processing /\ until <= realtime)

\* An event that comes due in the time that is modelled leaves the list or the
\* simulator was stopped: it is not left behind a later one.
DueEventsRun ==
    \A u \in 4 .. 4 + MaxEvents :
        (pc \notin {"start", "origin"} /\ \E e \in m_events : e.uid = u /\ e.ts <= MaxTime)
            ~> (m_stop \/ \A e \in m_events : e.uid # u)
=============================================================================

-------------------------- MODULE DefaultSimulator --------------------------
(***************************************************************************)
(* ns3::DefaultSimulatorImpl (core/model/default-simulator-impl.cc): one   *)
(* main thread that runs the event loop, and any number of foreign threads *)
(* that may only call ScheduleWithContext.                                 *)
(*                                                                         *)
(* The main thread is the program counter pc.  Between two of its steps    *)
(* foreign threads run.  What happens in one step is what no foreign       *)
(* thread can observe: the two sides share m_eventsWithContext, guarded by *)
(* a mutex, and m_eventsWithContextEmpty, which the main thread reads      *)
(* without it; reading the flag and taking the list are two steps.         *)
(*                                                                         *)
(* The scheduler m_events is its contract, a set of events of which        *)
(* RemoveNext takes the earliest (module Scheduler states the contract).   *)
(* What an event's function does is any sequence of calls of the API, so   *)
(* a handler is the steps taken while pc = "event".                        *)
(***************************************************************************)
EXTENDS EventKey, Sequences, FiniteSets

CONSTANTS
    Delays,     \* the delays events are scheduled with
    MaxImpl     \* bound: how many EventImpl objects are ever created

\* EventId::UID of core/model/event-id.h.
INVALID == 0
DESTROY == 2
VALID   == 4

\* m_uid is a uint32_t.  Every event created takes at most one uid, so under
\* this assumption on the bound m_uid never wraps.
ASSUME DelaysAssumption  == Delays \subseteq Nat
ASSUME MaxImplAssumption == MaxImpl \in Nat /\ MaxImpl < 2^30

VARIABLES
    pc,                       \* where the main thread is
    caller,                   \* who called ProcessEventsWithContext
    m_events,                 \* the scheduler: events not yet taken out
    m_uid, m_currentUid, m_currentTs, m_stop, m_unscheduledEvents,
    m_eventsWithContext,      \* what foreign threads scheduled, oldest first
    m_eventsWithContextEmpty, \* the flag the main thread reads unlocked
    m_destroyEvents,          \* ids of the events to run at Destroy
    impls,                    \* EventImpl objects in order of creation: the
                              \* kind of each; an impl is its index
    cancelled,                \* impls with EventImpl::m_cancel set
    ids,                      \* the EventIds the program was given
    invoked                   \* impls whose function was called (history)

simulator == <<m_events, m_uid, m_unscheduledEvents>>
current   == <<m_currentUid, m_currentTs>>
foreign   == <<m_eventsWithContext, m_eventsWithContextEmpty>>
objects   == <<impls, cancelled, ids>>
vars == <<pc, caller, simulator, current, m_stop, foreign, m_destroyEvents,
          objects, invoked>>

\* A "user" event was scheduled by the main thread, a "stop" event by
\* Stop(delay), a "foreign" event by another thread, a "destroy" event by
\* ScheduleDestroy.
Kinds   == {"user", "stop", "foreign", "destroy"}
Callers == {"Run", "ProcessOneEvent", "DoDispose"}
Impls   == 1 .. Len(impls)
Event   == [impl : Nat, ts : Nat, uid : Nat]

\* The control points at which the main thread may call the API: outside
\* Run, in the function of an event, and in that of a destroy event.
Calling == {"idle", "event", "destroyEvent"}
Pcs     == Calling \cup {"collect", "swap", "loop", "destroy", "dispose", "disposed"}

Init ==
    /\ pc = "idle"
    /\ caller = "Run"
    /\ m_events = {}
    /\ m_uid = VALID
    /\ m_currentUid = INVALID
    /\ m_currentTs = 0
    /\ m_stop = FALSE
    /\ m_unscheduledEvents = 0
    /\ m_eventsWithContext = << >>
    /\ m_eventsWithContextEmpty = TRUE
    /\ m_destroyEvents = << >>
    /\ impls = << >>
    /\ cancelled = {}
    /\ ids = {}
    /\ invoked = {}
-----------------------------------------------------------------------------
(* The API, called by the main thread.                                     *)

\* MakeEvent: a new EventImpl of this kind, whose m_cancel is false.
NewImpl == Len(impls) + 1
Create(kind) == /\ Len(impls) < MaxImpl
                /\ impls' = Append(impls, kind)

\* The event that Schedule(delay) makes of the new EventImpl.
NewEvent(delay) == [impl |-> NewImpl, ts |-> m_currentTs + delay, uid |-> m_uid]

InsertNew(kind, delay) ==
    /\ pc \in Calling
    /\ Create(kind)
    /\ m_events' = m_events \cup {NewEvent(delay)}
    /\ m_uid' = m_uid + 1
    /\ m_unscheduledEvents' = m_unscheduledEvents + 1
    /\ UNCHANGED <<pc, caller, current, m_stop, foreign, m_destroyEvents,
                   cancelled, invoked>>

\* Schedule, and ScheduleNow when the delay is 0.
Schedule(delay) ==
    /\ InsertNew("user", delay)
    /\ ids' = ids \cup {NewEvent(delay)}

\* Stop(delay) schedules an event whose function is Simulator::Stop.
StopAt(delay) ==
    /\ InsertNew("stop", delay)
    /\ ids' = ids \cup {NewEvent(delay)}

\* ScheduleWithContext on the main thread: the caller gets no id.
ScheduleWithContext(delay) ==
    /\ InsertNew("user", delay)
    /\ UNCHANGED ids

ScheduleDestroy ==
    LET id == [impl |-> NewImpl, ts |-> m_currentTs, uid |-> DESTROY]
    IN  /\ pc \in Calling
        /\ Create("destroy")
        /\ m_destroyEvents' = Append(m_destroyEvents, id)
        /\ m_uid' = m_uid + 1
        /\ ids' = ids \cup {id}
        /\ UNCHANGED <<pc, caller, m_events, m_unscheduledEvents, current,
                       m_stop, foreign, cancelled, invoked>>

AtDestroy(id) == \E k \in DOMAIN m_destroyEvents : m_destroyEvents[k] = id

\* Mutants of IsExpired: the running event does not count as expired; the
\* events of the current time stamp do not.
IsExpiredButRunning(id) ==
    IF id.uid = DESTROY
    THEN id.impl \in cancelled \/ ~ AtDestroy(id)
    ELSE \/ id.ts < m_currentTs
         \/ id.ts = m_currentTs /\ id.uid < m_currentUid
         \/ id.impl \in cancelled

IsExpiredByTime(id) ==
    IF id.uid = DESTROY
    THEN id.impl \in cancelled \/ ~ AtDestroy(id)
    ELSE id.ts < m_currentTs \/ id.impl \in cancelled

\* IsExpired is decided by comparing keys, never by searching the scheduler.
IsExpired(id) ==
    IF id.uid = DESTROY
    THEN id.impl \in cancelled \/ ~ AtDestroy(id)
    ELSE \/ id.ts < m_currentTs
         \/ id.ts = m_currentTs /\ id.uid <= m_currentUid
         \/ id.impl \in cancelled

Cancel(id) ==
    /\ pc \in Calling
    /\ ~ IsExpired(id)
    /\ cancelled' = cancelled \cup {id.impl}
    /\ UNCHANGED <<pc, caller, simulator, current, m_stop, foreign,
                   m_destroyEvents, impls, ids, invoked>>

Erase(s, k) == SubSeq(s, 1, k - 1) \o SubSeq(s, k + 1, Len(s))

\* Remove of a destroy event takes it off the list and does not cancel it.
RemoveDestroyEvent(id) ==
    /\ pc \in Calling
    /\ id.uid = DESTROY
    /\ \E k \in DOMAIN m_destroyEvents :
           /\ m_destroyEvents[k] = id
           /\ m_destroyEvents' = Erase(m_destroyEvents, k)
    /\ UNCHANGED <<pc, caller, simulator, current, m_stop, foreign, objects,
                   invoked>>

\* Mutants of RemoveEvent: it removes by time stamp; it does not count.
RemoveEventByTime(id) ==
    /\ pc \in Calling
    /\ id.uid # DESTROY
    /\ ~ IsExpired(id)
    /\ m_events' = {e \in m_events : e.ts # id.ts}
    /\ cancelled' = cancelled \cup {id.impl}
    /\ m_unscheduledEvents' = m_unscheduledEvents - 1
    /\ UNCHANGED <<pc, caller, m_uid, current, m_stop, foreign,
                   m_destroyEvents, impls, ids, invoked>>

RemoveEventUncounted(id) ==
    /\ pc \in Calling
    /\ id.uid # DESTROY
    /\ ~ IsExpired(id)
    /\ m_events' = {e \in m_events : e.uid # id.uid}
    /\ cancelled' = cancelled \cup {id.impl}
    /\ UNCHANGED <<pc, caller, m_uid, m_unscheduledEvents, current, m_stop,
                   foreign, m_destroyEvents, impls, ids, invoked>>

RemoveEvent(id) ==
    /\ pc \in Calling
    /\ id.uid # DESTROY
    /\ ~ IsExpired(id)
    /\ m_events' = {e \in m_events : e.uid # id.uid}
    /\ cancelled' = cancelled \cup {id.impl}
    /\ m_unscheduledEvents' = m_unscheduledEvents - 1
    /\ UNCHANGED <<pc, caller, m_uid, current, m_stop, foreign,
                   m_destroyEvents, impls, ids, invoked>>

Stop ==
    /\ pc \in Calling
    /\ m_stop' = TRUE
    /\ UNCHANGED <<pc, caller, simulator, current, foreign, m_destroyEvents,
                   objects, invoked>>
-----------------------------------------------------------------------------
(* Another thread.                                                         *)

\* A mutant: the flag is not cleared.
ForeignScheduleUnflagged(delay) ==
    /\ pc # "disposed"
    /\ Create("foreign")
    /\ m_eventsWithContext' =
           Append(m_eventsWithContext, [impl |-> NewImpl, delay |-> delay])
    /\ UNCHANGED <<pc, caller, simulator, current, m_stop, m_destroyEvents,
                   m_eventsWithContextEmpty, cancelled, ids, invoked>>

\* ScheduleWithContext on any other thread, under the mutex.  The delay is
\* kept: the current time is added when the main thread takes the list.
ForeignScheduleWithContext(delay) ==
    /\ pc # "disposed"
    /\ Create("foreign")
    /\ m_eventsWithContext' =
           Append(m_eventsWithContext, [impl |-> NewImpl, delay |-> delay])
    /\ m_eventsWithContextEmpty' = FALSE
    /\ UNCHANGED <<pc, caller, simulator, current, m_stop, m_destroyEvents,
                   cancelled, ids, invoked>>
-----------------------------------------------------------------------------
(* The event loop.                                                         *)

\* Where ProcessEventsWithContext returns to.  Run then clears m_stop, so a
\* Stop() made before Run has no effect.
ReturnFromCollect ==
    /\ pc' = IF caller = "DoDispose" THEN "dispose" ELSE "loop"
    /\ m_stop' = (m_stop /\ caller # "Run")

Run ==
    /\ pc = "idle"
    /\ pc' = "collect"
    /\ caller' = "Run"
    /\ UNCHANGED <<simulator, current, m_stop, foreign, m_destroyEvents,
                   objects, invoked>>

\* ProcessEventsWithContext reads the flag, without the mutex ...
Collect ==
    /\ pc = "collect"
    /\ IF m_eventsWithContextEmpty
       THEN ReturnFromCollect
       ELSE pc' = "swap" /\ UNCHANGED m_stop
    /\ UNCHANGED <<caller, simulator, current, foreign, m_destroyEvents,
                   objects, invoked>>

\* A mutant of Taken: the delay is used as a time.
TakenAtDelay == {[impl |-> m_eventsWithContext[k].impl,
                  ts   |-> m_eventsWithContext[k].delay,
                  uid  |-> m_uid + k - 1] : k \in DOMAIN m_eventsWithContext}

\* ... and when it was false takes the whole list, under the mutex, and
\* inserts what it took in the order it was pushed.
Taken == {[impl |-> m_eventsWithContext[k].impl,
           ts   |-> m_currentTs + m_eventsWithContext[k].delay,
           uid  |-> m_uid + k - 1] : k \in DOMAIN m_eventsWithContext}

\* A mutant: the list is copied, not taken.
SwapCopies ==
    /\ pc = "swap"
    /\ m_events' = m_events \cup Taken
    /\ m_uid' = m_uid + Len(m_eventsWithContext)
    /\ m_unscheduledEvents' = m_unscheduledEvents + Len(m_eventsWithContext)
    /\ m_eventsWithContextEmpty' = TRUE
    /\ ReturnFromCollect
    /\ UNCHANGED <<caller, m_eventsWithContext, current, m_destroyEvents,
                   objects, invoked>>

Swap ==
    /\ pc = "swap"
    /\ m_events' = m_events \cup Taken
    /\ m_uid' = m_uid + Len(m_eventsWithContext)
    /\ m_unscheduledEvents' = m_unscheduledEvents + Len(m_eventsWithContext)
    /\ m_eventsWithContext' = << >>
    /\ m_eventsWithContextEmpty' = TRUE
    /\ ReturnFromCollect
    /\ UNCHANGED <<caller, current, m_destroyEvents, objects, invoked>>

IsFinished == m_events = {} \/ m_stop

RunReturns ==
    /\ pc = "loop"
    /\ IsFinished
    /\ pc' = "idle"
    /\ UNCHANGED <<caller, simulator, current, m_stop, foreign,
                   m_destroyEvents, objects, invoked>>

\* What EventImpl::Invoke does with the function of e: nothing when e is
\* cancelled; Simulator::Stop returns at once; any other function runs until
\* the handler returns.
Invoke(e) ==
    \/ /\ e.impl \in cancelled
       /\ pc' = "collect"
       /\ UNCHANGED <<m_stop, invoked>>
    \/ /\ e.impl \notin cancelled
       /\ impls[e.impl] = "stop"
       /\ pc' = "collect"
       /\ m_stop' = TRUE
       /\ invoked' = invoked \cup {e.impl}
    \/ /\ e.impl \notin cancelled
       /\ impls[e.impl] # "stop"
       /\ pc' = "event"
       /\ invoked' = invoked \cup {e.impl}
       /\ UNCHANGED m_stop

ProcessOneEvent ==
    /\ pc = "loop"
    /\ ~ IsFinished
    /\ \E next \in m_events :
           /\ IsEarliest(next, m_events)
           /\ m_events' = m_events \ {next}
           /\ m_currentTs' = next.ts
           /\ m_currentUid' = next.uid
           /\ Invoke(next)
    /\ m_unscheduledEvents' = m_unscheduledEvents - 1
    /\ caller' = "ProcessOneEvent"
    /\ UNCHANGED <<m_uid, foreign, m_destroyEvents, objects>>

HandlerReturns ==
    /\ pc \in {"event", "destroyEvent"}
    /\ pc' = IF pc = "event" THEN "collect" ELSE "destroy"
    /\ UNCHANGED <<caller, simulator, current, m_stop, foreign,
                   m_destroyEvents, objects, invoked>>
-----------------------------------------------------------------------------
(* Simulator::Destroy.                                                     *)

Destroy ==
    /\ pc = "idle"
    /\ pc' = "destroy"
    /\ UNCHANGED <<caller, simulator, current, m_stop, foreign,
                   m_destroyEvents, objects, invoked>>

\* The id is popped before its function is called, so a destroy event that
\* cancels itself finds itself expired.
DestroyOne ==
    /\ pc = "destroy"
    /\ m_destroyEvents # << >>
    /\ LET impl == Head(m_destroyEvents).impl
       IN  IF impl \in cancelled
           THEN UNCHANGED <<pc, invoked>>
           ELSE pc' = "destroyEvent" /\ invoked' = invoked \cup {impl}
    /\ m_destroyEvents' = Tail(m_destroyEvents)
    /\ UNCHANGED <<caller, simulator, current, m_stop, foreign, objects>>

\* No destroy event is left: the last reference goes and DoDispose runs.
DestroyReturns ==
    /\ pc = "destroy"
    /\ m_destroyEvents = << >>
    /\ pc' = "collect"
    /\ caller' = "DoDispose"
    /\ UNCHANGED <<simulator, current, m_stop, foreign, m_destroyEvents,
                   objects, invoked>>

DoDispose ==
    /\ pc = "dispose"
    /\ m_events' = {}
    /\ pc' = "disposed"
    /\ UNCHANGED <<caller, m_uid, m_unscheduledEvents, current, m_stop,
                   foreign, m_destroyEvents, objects, invoked>>
-----------------------------------------------------------------------------
Api == \/ \E delay \in Delays : \/ Schedule(delay)
                                \/ StopAt(delay)
                                \/ ScheduleWithContext(delay)
       \/ ScheduleDestroy
       \/ \E id \in ids : \/ Cancel(id)
                          \/ RemoveEvent(id)
                          \/ RemoveDestroyEvent(id)
       \/ Stop

Loop == \/ Collect
        \/ Swap
        \/ ProcessOneEvent
        \/ HandlerReturns
        \/ RunReturns

Teardown == \/ DestroyOne
            \/ DestroyReturns
            \/ DoDispose

Next == \/ Api
        \/ \E delay \in Delays : ForeignScheduleWithContext(delay)
        \/ Run
        \/ Destroy
        \/ Loop
        \/ Teardown

Spec == Init /\ [][Next]_vars
-----------------------------------------------------------------------------
(* Properties.                                                             *)

\* Where the event of impl i waits.
Pending(i)       == \E e \in m_events : e.impl = i
Queued(i)        == \E k \in DOMAIN m_eventsWithContext :
                        m_eventsWithContext[k].impl = i
OnDestroyList(i) == \E k \in DOMAIN m_destroyEvents : m_destroyEvents[k].impl = i

CurrentKey == [ts |-> m_currentTs, uid |-> m_currentUid]

\* Every variable keeps its type.
TypeOK ==
    /\ pc \in Pcs
    /\ caller \in Callers
    /\ m_events \subseteq Event
    /\ m_uid \in Nat
    /\ m_currentUid \in Nat
    /\ m_currentTs \in Nat
    /\ m_stop \in BOOLEAN
    /\ m_unscheduledEvents \in Int
    /\ m_eventsWithContext \in Seq([impl : Nat, delay : Nat])
    /\ m_eventsWithContextEmpty \in BOOLEAN
    /\ m_destroyEvents \in Seq(Event)
    /\ impls \in Seq(Kinds)
    /\ cancelled \subseteq Impls
    /\ ids \subseteq Event
    /\ invoked \subseteq Impls

\* No event is lost: until the simulator is disposed, an event that was
\* scheduled by any thread and that is neither cancelled nor has run is in the
\* scheduler or on the list of the foreign threads, whatever the two sides did
\* in between (the swap of ProcessEventsWithContext, Remove, Cancel).
NoEventLost ==
    \A i \in Impls :
        \/ i \in invoked \cup cancelled
        \/ impls[i] = "destroy" \/ pc = "disposed"
        \/ Pending(i) \/ Queued(i)

\* No event runs twice: an event whose function was called is waiting
\* nowhere, and an event waits in one place, once.
NoEventTwice ==
    /\ \A i \in invoked : ~ Pending(i) /\ ~ Queued(i) /\ ~ OnDestroyList(i)
    /\ \A i \in Impls : ~ (Pending(i) /\ Queued(i))
    /\ \A e, f \in m_events : e.impl = f.impl => e = f

\* The function of an event that was cancelled or removed is never called,
\* and an event that has run cannot be cancelled any more: Cancel and Remove
\* from the handler of the event itself, or of a destroy event, do nothing.
CancelledNeverInvoked == cancelled \cap invoked = {}

\* The counter behind the consistency test at the end of Run (the NS_ASSERT
\* that no event was lost along the way) is the number of events in the
\* scheduler, at every moment and not only when Run returns.
UnscheduledEventsExact ==
    pc # "disposed" => m_unscheduledEvents = Cardinality(m_events)

\* IsExpired never looks into the scheduler, yet an id is not expired exactly
\* while its event is in the scheduler and not cancelled.  Cancel and Remove
\* rely on it: Remove of an event the scheduler does not hold asserts.
ExpiredIffNotPending ==
    pc # "disposed" =>
        \A id \in ids : id.uid # DESTROY =>
            (~ IsExpired(id) <=> id \in m_events /\ id.impl \notin cancelled)

\* Events run in the strict order of their keys, over every Run of the
\* simulator: time never goes back, and events of one time stamp run in the
\* order in which they were scheduled, those of foreign threads included.
ExecutionOrder ==
    [][KeyLess(CurrentKey, CurrentKey')]_current

\* When ProcessEventsWithContext returns, no event of a foreign thread is left
\* on the list, although it reads its flag without the mutex: every event
\* pushed before the flag was read is in the scheduler.
CollectTakesAll ==
    [][(pc \in {"collect", "swap"} /\ pc' \in {"loop", "dispose"})
           => Len(m_eventsWithContext') = 0]_vars

\* simulator.h says that Run returns once "the expiration time of the next
\* event to be processed is greater than or equal to the stop time": no event
\* starts at or after the time of a pending Stop(delay).
NoEventAtStopTime ==
    [][pc = "loop" /\ pc' = "event" =>
           \A e \in m_events :
               impls[e.impl] = "stop" /\ e.impl \notin cancelled
                   => m_currentTs' < e.ts]_vars
=============================================================================

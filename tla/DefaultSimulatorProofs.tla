----------------------- MODULE DefaultSimulatorProofs -----------------------
(***************************************************************************)
(* The safety properties of DefaultSimulator, for every set of delays and  *)
(* every number of events.                                                 *)
(***************************************************************************)
EXTENDS DefaultSimulator, FiniteSetTheorems, SequenceTheorems, TLAPS

\* The events in the scheduler: their uids are drawn from m_uid, no two share
\* a uid or an impl, and each lies after the event that runs.
SchedulerInv ==
    /\ m_uid >= VALID
    /\ m_currentUid < m_uid
    /\ \A e \in m_events : /\ e.impl \in Impls
                           /\ impls[e.impl] # "destroy"
                           /\ VALID <= e.uid /\ e.uid < m_uid
                           /\ KeyLess(CurrentKey, e)
    /\ \A e, f \in m_events : e.uid = f.uid \/ e.impl = f.impl => e = f

\* The list of the foreign threads, and the flag read without the mutex.
ForeignInv ==
    /\ m_eventsWithContextEmpty => Len(m_eventsWithContext) = 0
    /\ \A k \in DOMAIN m_eventsWithContext :
           /\ m_eventsWithContext[k].impl \in Impls
           /\ impls[m_eventsWithContext[k].impl] = "foreign"
           /\ \A l \in DOMAIN m_eventsWithContext :
                  m_eventsWithContext[k].impl = m_eventsWithContext[l].impl => k = l

DestroyInv ==
    \A k \in DOMAIN m_destroyEvents :
        /\ m_destroyEvents[k].impl \in Impls
        /\ impls[m_destroyEvents[k].impl] = "destroy"
        /\ \A l \in DOMAIN m_destroyEvents :
               m_destroyEvents[k].impl = m_destroyEvents[l].impl => k = l

\* The ids the program holds: an id that lies after the event that runs and
\* is not cancelled is that of an event in the scheduler.
IdsInv ==
    \A id \in ids : id.uid # DESTROY =>
        /\ id.impl \in Impls
        /\ VALID <= id.uid /\ id.uid < m_uid
        /\ pc # "disposed" /\ KeyLess(CurrentKey, id) /\ id.impl \notin cancelled
               => id \in m_events

CountInv ==
    /\ IsFiniteSet(m_events)
    /\ UnscheduledEventsExact

IInv ==
    /\ TypeOK
    /\ SchedulerInv
    /\ ForeignInv
    /\ DestroyInv
    /\ IdsInv
    /\ CountInv
    /\ NoEventLost
    /\ NoEventTwice
    /\ CancelledNeverInvoked
-----------------------------------------------------------------------------
USE DEF simulator, current, foreign, objects, INVALID, DESTROY, VALID

\* Keys are ordered transitively and irreflexively.
LEMMA KeyLessTransitive ==
    ASSUME NEW a \in [ts : Nat, uid : Nat], NEW b \in Event, NEW c \in Event,
           KeyLess(a, b), KeyLess(b, c)
    PROVE  KeyLess(a, c)
BY DEF KeyLess, Event

\* A new EventImpl is none of those created before, and changes none.
LEMMA CreateNew ==
    ASSUME TypeOK, NEW kind \in Kinds, impls' = Append(impls, kind)
    PROVE  /\ impls' \in Seq(Kinds)
           /\ Impls' = Impls \cup {NewImpl}
           /\ NewImpl \notin Impls
           /\ NewImpl \in Nat
           /\ \A i \in Impls : i \in Nat /\ impls'[i] = impls[i]
           /\ impls'[NewImpl] = kind
BY DEF TypeOK, Impls, NewImpl

\* Initially every part of the invariant holds.
LEMMA InitInv == Init => IInv
<1> SUFFICES ASSUME Init PROVE IInv
    OBVIOUS
<1>1. Cardinality(m_events) = 0 /\ IsFiniteSet(m_events)
    BY FS_EmptySet DEF Init
<1>2. TypeOK
    <2>1. impls \in Seq(Kinds)
        BY EmptySeq DEF Init
    <2>2. m_destroyEvents \in Seq(Event)
        BY EmptySeq DEF Init
    <2>3. m_eventsWithContext \in Seq([impl : Nat, delay : Nat])
        BY EmptySeq DEF Init
    <2>4. m_stop \in BOOLEAN /\ m_eventsWithContextEmpty \in BOOLEAN
        BY DEF Init
    <2>5. pc \in Pcs /\ caller \in Callers
        BY DEF Init, Pcs, Calling, Callers
    <2> QED
        BY <2>1, <2>2, <2>3, <2>4, <2>5 DEF Init, TypeOK
<1>3. Impls = {}
    BY DEF Init, Impls
<1>4. SchedulerInv /\ ForeignInv /\ DestroyInv /\ IdsInv
    BY DEF Init, SchedulerInv, ForeignInv, DestroyInv, IdsInv
<1>5. CountInv /\ NoEventLost /\ NoEventTwice /\ CancelledNeverInvoked
    BY <1>1, <1>3 DEF Init, CountInv, UnscheduledEventsExact, NoEventLost,
       NoEventTwice, CancelledNeverInvoked
<1> QED
    BY <1>2, <1>4, <1>5 DEF IInv

\* A step that only moves the main thread, short of disposing the simulator.
LEMMA ControlStep ==
    ASSUME IInv, pc' \in Pcs \ {"disposed"}, pc # "disposed",
           caller' \in Callers, m_stop' \in BOOLEAN,
           UNCHANGED <<simulator, current, foreign, m_destroyEvents, objects, invoked>>
    PROVE  IInv'
<1> USE DEF IInv
<1>1. TypeOK'
    BY DEF TypeOK, Impls
<1>2. SchedulerInv' /\ ForeignInv' /\ DestroyInv'
    BY DEF SchedulerInv, ForeignInv, DestroyInv, Impls, CurrentKey, KeyLess
<1>3. IdsInv'
    BY DEF IdsInv, Impls, CurrentKey, KeyLess
<1>4. CountInv' /\ CancelledNeverInvoked'
    BY DEF CountInv, UnscheduledEventsExact, CancelledNeverInvoked
<1>5. NoEventLost' /\ NoEventTwice'
    BY DEF NoEventLost, NoEventTwice, Impls, Pending, Queued, OnDestroyList
<1> QED
    BY <1>1, <1>2, <1>3, <1>4, <1>5

\* Schedule, ScheduleWithContext on the main thread and Stop(delay).
LEMMA InsertNewStep ==
    ASSUME IInv, NEW kind \in {"user", "stop"}, NEW delay \in Delays,
           InsertNew(kind, delay), ids' \in {ids, ids \cup {NewEvent(delay)}}
    PROVE  IInv'
<1> USE DEF IInv
<1> DEFINE new == NewEvent(delay)
<1>0. kind \in Kinds /\ delay \in Nat
    BY DelaysAssumption DEF Kinds
<1>1. /\ impls' \in Seq(Kinds)
      /\ Impls' = Impls \cup {NewImpl}
      /\ NewImpl \notin Impls /\ NewImpl \in Nat
      /\ \A i \in Impls : i \in Nat /\ impls'[i] = impls[i]
      /\ impls'[NewImpl] = kind
    BY <1>0, CreateNew DEF InsertNew, Create
<1>a. /\ new \in Event
      /\ new = [impl |-> NewImpl, ts |-> m_currentTs + delay, uid |-> m_uid]
    BY <1>0, <1>1 DEF NewEvent, Event, TypeOK
<1>2. /\ m_events' = m_events \cup {new}
      /\ m_uid' = m_uid + 1
      /\ m_unscheduledEvents' = m_unscheduledEvents + 1
      /\ ids' \subseteq ids \cup {new}
      /\ pc \in Calling
      /\ UNCHANGED <<pc, caller, current, m_stop, foreign, m_destroyEvents,
                     cancelled, invoked>>
    BY DEF InsertNew
<1> HIDE DEF new
<1>3. TypeOK'
    BY <1>0, <1>a, <1>1, <1>2 DEF TypeOK
<1>4. KeyLess(CurrentKey', new)
    BY <1>0, <1>a, <1>2 DEF KeyLess, CurrentKey, TypeOK, SchedulerInv
<1>5. SchedulerInv'
    <2>1. m_uid' >= VALID /\ (m_currentUid < m_uid)'
        BY <1>2 DEF SchedulerInv, TypeOK
    <2>2. ASSUME NEW e \in m_events'
          PROVE  /\ e.impl \in Impls'
                 /\ impls'[e.impl] # "destroy"
                 /\ VALID <= e.uid /\ e.uid < m_uid'
                 /\ KeyLess(CurrentKey', e)
        <3>1. CASE e = new
            BY <3>1, <1>a, <1>1, <1>2, <1>4 DEF SchedulerInv, TypeOK
        <3>2. CASE e \in m_events
            <4>1. e \in Event
                BY <3>2 DEF TypeOK
            <4>2. KeyLess(CurrentKey', e)
                BY <3>2, <1>2 DEF SchedulerInv, CurrentKey
            <4>3. VALID <= e.uid /\ e.uid < m_uid'
                BY <3>2, <4>1, <1>2 DEF SchedulerInv, TypeOK, Event
            <4>4. e.impl \in Impls' /\ impls'[e.impl] # "destroy"
                BY <3>2, <1>1 DEF SchedulerInv
            <4> QED
                BY <4>2, <4>3, <4>4
        <3> QED
            BY <3>1, <3>2, <1>2
    <2>3. \A e \in m_events : e.uid # new.uid /\ e.impl # new.impl
        BY <1>a, <1>1 DEF SchedulerInv, TypeOK
    <2> QED
        BY <2>1, <2>2, <2>3, <1>2 DEF SchedulerInv
<1>6. ForeignInv' /\ DestroyInv'
    BY <1>1, <1>2 DEF ForeignInv, DestroyInv
<1>7. IdsInv'
    BY <1>0, <1>a, <1>1, <1>2 DEF IdsInv, CurrentKey, KeyLess, TypeOK, Event, SchedulerInv
<1>8. CountInv'
    <2>1. new \notin m_events
        BY <1>0, <1>a, <1>1 DEF SchedulerInv
    <2> QED
        BY <2>1, <1>2, FS_AddElement DEF CountInv, UnscheduledEventsExact, Calling
<1>9. NoEventLost'
    <2>1. \A i \in Impls : Pending(i) => Pending(i)'
        BY <1>2 DEF Pending
    <2>2. \E e \in m_events' : e.impl = NewImpl
        BY <1>a, <1>2
    <2> QED
        BY <2>1, <2>2, <1>1, <1>2 DEF NoEventLost, Queued, Pending
<1>10. NoEventTwice'
    <2>1. NewImpl \notin invoked
        BY <1>1 DEF TypeOK
    <2>2. ~ Queued(NewImpl)
        BY <1>1 DEF Queued, ForeignInv
    <2>3. \A i \in Impls : Pending(i)' => Pending(i)
        BY <1>0, <1>a, <1>1, <1>2 DEF Pending
    <2>4. \A e \in m_events : e.impl # new.impl
        BY <1>0, <1>a, <1>1 DEF SchedulerInv
    <2> QED
        BY <2>1, <2>2, <2>3, <2>4, <1>0, <1>a, <1>1, <1>2
        DEF NoEventTwice, Queued, OnDestroyList, TypeOK
<1>11. CancelledNeverInvoked'
    BY <1>2 DEF CancelledNeverInvoked
<1> QED
    BY <1>3, <1>5, <1>6, <1>7, <1>8, <1>9, <1>10, <1>11

LEMMA ScheduleDestroyStep ==
    ASSUME IInv, ScheduleDestroy
    PROVE  IInv'
<1> USE DEF IInv
<1> DEFINE id == [impl |-> NewImpl, ts |-> m_currentTs, uid |-> DESTROY]
<1>1. /\ m_destroyEvents' = Append(m_destroyEvents, id)
      /\ m_uid' = m_uid + 1
      /\ ids' = ids \cup {id}
      /\ impls' = Append(impls, "destroy")
      /\ pc \in Calling
      /\ UNCHANGED <<pc, caller, m_events, m_unscheduledEvents, current,
                     m_stop, foreign, cancelled, invoked>>
    BY DEF ScheduleDestroy, Create
<1>2. /\ impls' \in Seq(Kinds)
      /\ Impls' = Impls \cup {NewImpl}
      /\ NewImpl \notin Impls /\ NewImpl \in Nat
      /\ \A i \in Impls : i \in Nat /\ impls'[i] = impls[i]
      /\ impls'[NewImpl] = "destroy"
    BY <1>1, CreateNew DEF Kinds
<1>3. id \in Event /\ id.impl = NewImpl /\ id.uid = DESTROY
    BY <1>2 DEF TypeOK, Event
<1> HIDE DEF id
<1>4. /\ m_destroyEvents' \in Seq(Event)
      /\ DOMAIN m_destroyEvents' = DOMAIN m_destroyEvents \cup {Len(m_destroyEvents) + 1}
      /\ m_destroyEvents'[Len(m_destroyEvents) + 1] = id
      /\ \A k \in DOMAIN m_destroyEvents : m_destroyEvents'[k] = m_destroyEvents[k]
    BY <1>1, <1>3 DEF TypeOK
<1>5. TypeOK'
    BY <1>1, <1>2, <1>3, <1>4 DEF TypeOK
<1>6. SchedulerInv'
    <2>1. m_uid' >= VALID /\ (m_currentUid < m_uid)'
        BY <1>1 DEF SchedulerInv, TypeOK
    <2>2. ASSUME NEW e \in m_events
          PROVE  /\ e.impl \in Impls'
                 /\ impls'[e.impl] # "destroy"
                 /\ VALID <= e.uid /\ e.uid < m_uid'
                 /\ KeyLess(CurrentKey', e)
        <3>1. e.impl \in Impls' /\ impls'[e.impl] # "destroy"
            BY <1>2 DEF SchedulerInv
        <3>2. VALID <= e.uid /\ e.uid < m_uid'
            BY <1>1 DEF SchedulerInv, TypeOK, Event
        <3>3. KeyLess(CurrentKey', e)
            BY <1>1 DEF SchedulerInv, CurrentKey
        <3> QED
            BY <3>1, <3>2, <3>3
    <2> QED
        BY <2>1, <2>2, <1>1 DEF SchedulerInv
<1>7. ForeignInv'
    BY <1>1, <1>2 DEF ForeignInv
<1>8. DestroyInv'
    <2>1. \A k \in DOMAIN m_destroyEvents : m_destroyEvents[k].impl # NewImpl
        BY <1>2 DEF DestroyInv
    <2> QED
        BY <2>1, <1>2, <1>3, <1>4 DEF DestroyInv
<1>9. IdsInv'
    <2>1. ASSUME NEW d \in ids, d.uid # DESTROY
          PROVE  /\ d.impl \in Impls'
                 /\ VALID <= d.uid /\ d.uid < m_uid'
                 /\ pc # "disposed" /\ KeyLess(CurrentKey', d) /\ d.impl \notin cancelled
                        => d \in m_events
        BY <2>1, <1>1, <1>2 DEF IdsInv, CurrentKey, TypeOK, Event
    <2> QED
        BY <2>1, <1>1, <1>3 DEF IdsInv
<1>10. CountInv' /\ CancelledNeverInvoked'
    BY <1>1 DEF CountInv, UnscheduledEventsExact, CancelledNeverInvoked
<1>11. NoEventLost'
    BY <1>1, <1>2 DEF NoEventLost, Pending, Queued
<1>12. NoEventTwice'
    <2>1. \A i \in Impls : OnDestroyList(i)' => OnDestroyList(i)
        BY <1>2, <1>3, <1>4 DEF OnDestroyList
    <2>2. NewImpl \notin invoked
        BY <1>2 DEF TypeOK
    <2>3. \A i \in Impls' : /\ Pending(i)' => i \in Impls /\ Pending(i)
                            /\ Queued(i)' => i \in Impls /\ Queued(i)
        BY <1>1, <1>2 DEF Pending, Queued, SchedulerInv, ForeignInv
    <2>4. invoked' \subseteq Impls
        BY <1>1 DEF TypeOK
    <2>5. \A e, f \in m_events' : e.impl = f.impl => e = f
        BY <1>1 DEF NoEventTwice
    <2> QED
        BY <2>1, <2>3, <2>4, <2>5, <1>1, <1>2 DEF NoEventTwice
<1> QED
    BY <1>5, <1>6, <1>7, <1>8, <1>9, <1>10, <1>11, <1>12

\* The ids that Cancel and Remove act on: while the main thread may call them,
\* an id of a timed event that is not expired is an event in the scheduler.
LEMMA UnexpiredIsPending ==
    ASSUME IInv, pc # "disposed", NEW id \in ids, id.uid # DESTROY, ~ IsExpired(id)
    PROVE  id \in m_events /\ id.impl \in Impls
<1>1. KeyLess(CurrentKey, id) /\ id.impl \notin cancelled
    BY DEF IInv, IsExpired, KeyLess, CurrentKey, TypeOK, Event
<1> QED
    BY <1>1 DEF IInv, IdsInv

LEMMA CancelStep ==
    ASSUME IInv, NEW id \in ids, Cancel(id)
    PROVE  IInv'
<1> USE DEF IInv
<1>1. /\ pc \in Calling /\ ~ IsExpired(id)
      /\ cancelled' = cancelled \cup {id.impl}
      /\ UNCHANGED <<pc, caller, simulator, current, m_stop, foreign,
                     m_destroyEvents, impls, ids, invoked>>
    BY DEF Cancel
<1>2. id.impl \in Impls /\ id.impl \notin invoked
    <2>1. CASE id.uid = DESTROY
        <3>1. PICK k \in DOMAIN m_destroyEvents : m_destroyEvents[k] = id
            BY <2>1, <1>1 DEF IsExpired, AtDestroy
        <3>2. OnDestroyList(id.impl) /\ id.impl \in Impls
            BY <3>1 DEF OnDestroyList, DestroyInv
        <3> QED
            BY <3>2 DEF NoEventTwice
    <2>2. CASE id.uid # DESTROY
        <3>1. id \in m_events /\ id.impl \in Impls
            BY <2>2, <1>1, UnexpiredIsPending DEF Calling
        <3>2. Pending(id.impl)
            BY <3>1 DEF Pending
        <3> QED
            BY <3>1, <3>2 DEF NoEventTwice
    <2> QED
        BY <2>1, <2>2
<1>3. TypeOK'
    BY <1>1, <1>2 DEF TypeOK, Impls
<1>4. SchedulerInv' /\ ForeignInv' /\ DestroyInv'
    BY <1>1 DEF SchedulerInv, ForeignInv, DestroyInv, Impls, CurrentKey, KeyLess
<1>5. IdsInv'
    BY <1>1 DEF IdsInv, Impls, CurrentKey, KeyLess
<1>6. CountInv' /\ CancelledNeverInvoked'
    BY <1>1, <1>2 DEF CountInv, UnscheduledEventsExact, CancelledNeverInvoked
<1>7. NoEventLost' /\ NoEventTwice'
    BY <1>1 DEF NoEventLost, NoEventTwice, Impls, Pending, Queued, OnDestroyList
<1> QED
    BY <1>3, <1>4, <1>5, <1>6, <1>7

\* Remove finds the event it looks for in the scheduler, and takes it alone.
LEMMA RemoveEventStep ==
    ASSUME IInv, NEW id \in ids, RemoveEvent(id)
    PROVE  IInv'
<1> USE DEF IInv
<1>1. /\ pc \in Calling /\ id.uid # DESTROY /\ ~ IsExpired(id)
      /\ m_events' = {e \in m_events : e.uid # id.uid}
      /\ cancelled' = cancelled \cup {id.impl}
      /\ m_unscheduledEvents' = m_unscheduledEvents - 1
      /\ UNCHANGED <<pc, caller, m_uid, current, m_stop, foreign,
                     m_destroyEvents, impls, ids, invoked>>
    BY DEF RemoveEvent
<1>2. id \in m_events /\ id.impl \in Impls
    BY <1>1, UnexpiredIsPending DEF Calling
<1>3. m_events' = m_events \ {id}
    BY <1>1, <1>2 DEF SchedulerInv
<1>4. TypeOK'
    <2>1. m_events' \subseteq Event /\ m_unscheduledEvents' \in Int
        BY <1>1, <1>3 DEF TypeOK
    <2>2. cancelled' \subseteq Impls'
        BY <1>1, <1>2 DEF TypeOK, Impls
    <2> QED
        BY <2>1, <2>2, <1>1 DEF TypeOK, Impls
<1>5. SchedulerInv' /\ ForeignInv' /\ DestroyInv'
    BY <1>1, <1>3 DEF SchedulerInv, ForeignInv, DestroyInv, Impls, CurrentKey, KeyLess
<1>6. IdsInv'
    BY <1>1, <1>3 DEF IdsInv, Impls, CurrentKey, KeyLess
<1>7. CountInv'
    BY <1>1, <1>2, <1>3, FS_RemoveElement DEF CountInv, UnscheduledEventsExact
<1>8. CancelledNeverInvoked'
    <2>1. Pending(id.impl)
        BY <1>2 DEF Pending
    <2> QED
        BY <2>1, <1>1, <1>2 DEF CancelledNeverInvoked, NoEventTwice
<1>9. NoEventLost'
    BY <1>1, <1>3 DEF NoEventLost, Impls, Pending, Queued
<1>10. NoEventTwice'
    BY <1>1, <1>3 DEF NoEventTwice, Impls, Pending, Queued, OnDestroyList
<1> QED
    BY <1>4, <1>5, <1>6, <1>7, <1>8, <1>9, <1>10

\* What is left of a sequence without its k-th element.
LEMMA EraseProperties ==
    ASSUME NEW S, NEW s \in Seq(S), NEW k \in DOMAIN s
    PROVE  /\ Erase(s, k) \in Seq(S)
           /\ \A i \in DOMAIN Erase(s, k) :
                  Erase(s, k)[i] = IF i < k THEN s[i] ELSE s[i + 1]
           /\ Len(Erase(s, k)) = Len(s) - 1
<1> DEFINE a == SubSeq(s, 1, k - 1)
           b == SubSeq(s, k + 1, Len(s))
<1>1. Len(s) \in Nat /\ k \in 1 .. Len(s)
    BY LenProperties
<1>2. /\ a \in Seq(S) /\ Len(a) = k - 1
      /\ \A i \in 1 .. k - 1 : a[i] = s[i]
    <2>1. \A i \in 1 .. k - 1 : s[i] \in S
        BY <1>1
    <2> QED
        BY <1>1, <2>1, SubSeqProperties
<1>3. /\ b \in Seq(S) /\ Len(b) = Len(s) - k
      /\ \A i \in 1 .. Len(s) - k : b[i] = s[k + i]
    <2>1. \A i \in k + 1 .. Len(s) : s[i] \in S
        BY <1>1
    <2> QED
        BY <1>1, <2>1, SubSeqProperties
<1> HIDE DEF a, b
<1>4. /\ a \o b \in Seq(S) /\ Len(a \o b) = Len(s) - 1
      /\ \A i \in 1 .. Len(s) - 1 : (a \o b)[i] = IF i < k THEN s[i] ELSE s[i + 1]
    BY <1>1, <1>2, <1>3, ConcatProperties
<1>5. Erase(s, k) = a \o b
    BY DEF Erase, a, b
<1> QED
    BY <1>1, <1>4, <1>5, LenProperties

\* The list of destroy events loses an element and nothing else changes but
\* the control point and the set of the events that have run.
LEMMA DestroyListShrinks ==
    ASSUME IInv, NEW k \in DOMAIN m_destroyEvents,
           m_destroyEvents' = Erase(m_destroyEvents, k),
           invoked' \in {invoked, invoked \cup {m_destroyEvents[k].impl}},
           invoked' = invoked \/ m_destroyEvents[k].impl \notin cancelled,
           pc # "disposed", pc' \in Pcs \ {"disposed"},
           UNCHANGED <<caller, simulator, current, m_stop, foreign, objects>>
    PROVE  IInv'
<1> USE DEF IInv
<1> DEFINE impl == m_destroyEvents[k].impl
<1>1. /\ m_destroyEvents' \in Seq(Event)
      /\ Len(m_destroyEvents') = Len(m_destroyEvents) - 1
      /\ \A i \in DOMAIN m_destroyEvents' :
             m_destroyEvents'[i] = IF i < k THEN m_destroyEvents[i]
                                            ELSE m_destroyEvents[i + 1]
    BY EraseProperties DEF TypeOK
<1>2. k \in 1 .. Len(m_destroyEvents) /\ Len(m_destroyEvents) \in Nat
    BY LenProperties DEF TypeOK
<1>3. DOMAIN m_destroyEvents = 1 .. Len(m_destroyEvents)
      /\ DOMAIN m_destroyEvents' = 1 .. Len(m_destroyEvents) - 1
    BY <1>1, LenProperties DEF TypeOK
<1>4. impl \in Impls /\ impls[impl] = "destroy"
    BY DEF DestroyInv
<1>5. \A i \in DOMAIN m_destroyEvents' :
          \E j \in DOMAIN m_destroyEvents :
              /\ m_destroyEvents'[i] = m_destroyEvents[j]
              /\ j = IF i < k THEN i ELSE i + 1
    BY <1>1, <1>2, <1>3
<1>6. \A i \in DOMAIN m_destroyEvents' : m_destroyEvents'[i].impl # impl
    BY <1>2, <1>3, <1>5 DEF DestroyInv
<1>7. TypeOK'
    BY <1>1, <1>4 DEF TypeOK, Impls
<1>8. SchedulerInv' /\ ForeignInv'
    BY DEF SchedulerInv, ForeignInv, Impls, CurrentKey, KeyLess
<1>9. DestroyInv'
    BY <1>2, <1>3, <1>5 DEF DestroyInv, Impls
<1>10. IdsInv'
    BY DEF IdsInv, Impls, CurrentKey, KeyLess
<1>11. CountInv' /\ CancelledNeverInvoked'
    BY DEF CountInv, UnscheduledEventsExact, CancelledNeverInvoked
<1>12. NoEventLost'
    BY DEF NoEventLost, Impls, Pending, Queued
<1>13. NoEventTwice'
    <2>1. ~ (\E e \in m_events : e.impl = impl)
        BY <1>4 DEF SchedulerInv
    <2>2. ~ (\E l \in DOMAIN m_eventsWithContext : m_eventsWithContext[l].impl = impl)
        BY <1>4 DEF ForeignInv
    <2>3. \A i : OnDestroyList(i)' => OnDestroyList(i)
        BY <1>5 DEF OnDestroyList
    <2>4. ~ (\E l \in DOMAIN m_destroyEvents' : m_destroyEvents'[l].impl = impl)
        BY <1>6
    <2>5. invoked' \subseteq invoked \cup {impl}
        OBVIOUS
    <2> HIDE DEF impl
    <2> QED
        BY <2>1, <2>2, <2>3, <2>4, <2>5 DEF NoEventTwice, Impls, Pending, Queued, OnDestroyList
<1> QED
    BY <1>7, <1>8, <1>9, <1>10, <1>11, <1>12, <1>13

LEMMA RemoveDestroyEventStep ==
    ASSUME IInv, NEW id \in ids, RemoveDestroyEvent(id)
    PROVE  IInv'
<1>1. PICK k \in DOMAIN m_destroyEvents : m_destroyEvents' = Erase(m_destroyEvents, k)
    BY DEF RemoveDestroyEvent
<1>2. pc \in Calling /\ pc' = pc
    BY DEF RemoveDestroyEvent
<1> QED
    BY <1>1, <1>2, DestroyListShrinks DEF RemoveDestroyEvent, Calling, Pcs

LEMMA DestroyOneStep ==
    ASSUME IInv, DestroyOne
    PROVE  IInv'
<1>1. m_destroyEvents \in Seq(Event) /\ m_destroyEvents # << >>
    BY DEF IInv, TypeOK, DestroyOne
<1>2. /\ 1 \in DOMAIN m_destroyEvents
      /\ Head(m_destroyEvents) = m_destroyEvents[1]
    BY <1>1
<1>3. m_destroyEvents' = Erase(m_destroyEvents, 1)
    <2>1. SubSeq(m_destroyEvents, 1, 0) = << >>
        BY <1>1, SubSeqEmpty
    <2>2. Tail(m_destroyEvents) = SubSeq(m_destroyEvents, 2, Len(m_destroyEvents))
        BY <1>1, TailIsSubSeq
    <2>3. Tail(m_destroyEvents) \in Seq(Event)
        BY <1>1
    <2>4. << >> \o Tail(m_destroyEvents) = Tail(m_destroyEvents)
        BY <2>3, ConcatEmptySeq
    <2> QED
        BY <2>1, <2>2, <2>4 DEF Erase, DestroyOne
<1>4. /\ pc = "destroy"
      /\ pc' \in {"destroy", "destroyEvent"}
      /\ invoked' \in {invoked, invoked \cup {m_destroyEvents[1].impl}}
      /\ invoked' = invoked \/ m_destroyEvents[1].impl \notin cancelled
      /\ UNCHANGED <<caller, simulator, current, m_stop, foreign, objects>>
    BY <1>2 DEF DestroyOne
<1> QED
    BY <1>2, <1>3, <1>4, DestroyListShrinks DEF Pcs, Calling

LEMMA DoDisposeStep ==
    ASSUME IInv, DoDispose
    PROVE  IInv'
<1> USE DEF IInv, DoDispose
<1>1. TypeOK'
    BY DEF TypeOK, Impls, Pcs
<1>2. SchedulerInv' /\ ForeignInv' /\ DestroyInv' /\ IdsInv'
    BY DEF SchedulerInv, ForeignInv, DestroyInv, IdsInv, Impls
<1>3. CountInv' /\ CancelledNeverInvoked' /\ NoEventLost'
    BY FS_EmptySet DEF CountInv, UnscheduledEventsExact, CancelledNeverInvoked, NoEventLost
<1>4. NoEventTwice'
    BY DEF NoEventTwice, Impls, Pending, Queued, OnDestroyList
<1> QED
    BY <1>1, <1>2, <1>3, <1>4

LEMMA ForeignStep ==
    ASSUME IInv, NEW delay \in Delays, ForeignScheduleWithContext(delay)
    PROVE  IInv'
<1> USE DEF IInv
<1> DEFINE new == [impl |-> NewImpl, delay |-> delay]
           n   == Len(m_eventsWithContext) + 1
<1>1. /\ pc # "disposed"
      /\ impls' = Append(impls, "foreign")
      /\ m_eventsWithContext' = Append(m_eventsWithContext, new)
      /\ m_eventsWithContextEmpty' = FALSE
      /\ UNCHANGED <<pc, caller, simulator, current, m_stop, m_destroyEvents,
                     cancelled, ids, invoked>>
    BY DEF ForeignScheduleWithContext, Create
<1>2. /\ impls' \in Seq(Kinds)
      /\ Impls' = Impls \cup {NewImpl}
      /\ NewImpl \notin Impls /\ NewImpl \in Nat
      /\ \A i \in Impls : i \in Nat /\ impls'[i] = impls[i]
      /\ impls'[NewImpl] = "foreign"
    BY <1>1, CreateNew DEF Kinds
<1>3. new \in [impl : Nat, delay : Nat] /\ new.impl = NewImpl
    BY <1>2, DelaysAssumption
<1> HIDE DEF new
<1>4. /\ m_eventsWithContext' \in Seq([impl : Nat, delay : Nat])
      /\ DOMAIN m_eventsWithContext' = DOMAIN m_eventsWithContext \cup {n}
      /\ n \notin DOMAIN m_eventsWithContext
      /\ m_eventsWithContext'[n] = new
      /\ \A k \in DOMAIN m_eventsWithContext :
             m_eventsWithContext'[k] = m_eventsWithContext[k]
    <2>1. m_eventsWithContext \in Seq([impl : Nat, delay : Nat])
        BY DEF TypeOK
    <2>2. /\ Len(m_eventsWithContext) \in Nat
          /\ DOMAIN m_eventsWithContext = 1 .. Len(m_eventsWithContext)
        BY <2>1, LenProperties
    <2>3. m_eventsWithContext' \in Seq([impl : Nat, delay : Nat])
        BY <2>1, <1>1, <1>3
    <2>4. DOMAIN m_eventsWithContext' = 1 .. n
        BY <2>1, <2>2, <1>1, <1>3
    <2>5. /\ m_eventsWithContext'[n] = new
          /\ \A k \in DOMAIN m_eventsWithContext :
                 m_eventsWithContext'[k] = m_eventsWithContext[k]
        BY <2>1, <2>2, <1>1, <1>3
    <2> QED
        BY <2>2, <2>3, <2>4, <2>5
<1> HIDE DEF n
<1>5. TypeOK'
    BY <1>1, <1>2, <1>4 DEF TypeOK
<1>6. SchedulerInv' /\ DestroyInv'
    BY <1>1, <1>2 DEF SchedulerInv, DestroyInv, CurrentKey, KeyLess
<1>7. ForeignInv'
    <2>1. \A k \in DOMAIN m_eventsWithContext : m_eventsWithContext[k].impl # NewImpl
        BY <1>2 DEF ForeignInv
    <2>2. ASSUME NEW k \in DOMAIN m_eventsWithContext'
          PROVE  /\ m_eventsWithContext'[k].impl \in Impls'
                 /\ impls'[m_eventsWithContext'[k].impl] = "foreign"
        <3>1. CASE k = n
            BY <1>2, <1>3, <1>4, <3>1
        <3>2. CASE k \in DOMAIN m_eventsWithContext
            <4>1. /\ m_eventsWithContext[k].impl \in Impls
                  /\ impls[m_eventsWithContext[k].impl] = "foreign"
                BY <3>2, Zenon DEF IInv, ForeignInv
            <4> QED
                BY <1>2, <1>4, <3>2, <4>1
        <3> QED
            BY <1>4, <3>1, <3>2
    <2>3. ASSUME NEW k \in DOMAIN m_eventsWithContext',
                 NEW l \in DOMAIN m_eventsWithContext',
                 m_eventsWithContext'[k].impl = m_eventsWithContext'[l].impl
          PROVE  k = l
        BY <2>1, <2>3, <1>3, <1>4 DEF ForeignInv
    <2> QED
        BY <2>2, <2>3, <1>1 DEF ForeignInv
<1>8. IdsInv'
    BY <1>1, <1>2 DEF IdsInv, CurrentKey, KeyLess
<1>9. CountInv' /\ CancelledNeverInvoked'
    BY <1>1 DEF CountInv, UnscheduledEventsExact, CancelledNeverInvoked
<1>10. NoEventLost'
    <2>1. \A i \in Impls : Queued(i) => Queued(i)'
        BY <1>4 DEF Queued
    <2>2. \E k \in DOMAIN m_eventsWithContext' : m_eventsWithContext'[k].impl = NewImpl
        BY <1>3, <1>4
    <2> QED
        BY <2>1, <2>2, <1>1, <1>2 DEF NoEventLost, Pending, Queued
<1>11. NoEventTwice'
    <2>1. \A i \in Impls : Queued(i)' => Queued(i)
        BY <1>2, <1>3, <1>4 DEF Queued
    <2>2. ~ (\E e \in m_events : e.impl = NewImpl)
        BY <1>2 DEF SchedulerInv
    <2>3. invoked \subseteq Impls
        BY DEF TypeOK
    <2> QED
        BY <2>1, <2>2, <2>3, <1>1, <1>2 DEF NoEventTwice, Pending, OnDestroyList
<1> QED
    BY <1>5, <1>6, <1>7, <1>8, <1>9, <1>10, <1>11

\* The event that Swap makes of the k-th entry of the list.
TakenEvent(k) == [impl |-> m_eventsWithContext[k].impl,
                  ts   |-> m_currentTs + m_eventsWithContext[k].delay,
                  uid  |-> m_uid + k - 1]

\* What Swap inserts: as many events as the list holds, new to the scheduler,
\* with fresh uids, all of them after the event that runs.
LEMMA TakenProperties ==
    ASSUME IInv
    PROVE  /\ Taken = {TakenEvent(k) : k \in DOMAIN m_eventsWithContext}
           /\ \A k \in DOMAIN m_eventsWithContext :
                  /\ k \in 1 .. Len(m_eventsWithContext)
                  /\ TakenEvent(k) \in Event
                  /\ TakenEvent(k).impl = m_eventsWithContext[k].impl
                  /\ TakenEvent(k).uid = m_uid + k - 1
                  /\ KeyLess(CurrentKey, TakenEvent(k))
           /\ Len(m_eventsWithContext) \in Nat
           /\ IsFiniteSet(Taken)
           /\ Cardinality(Taken) = Len(m_eventsWithContext)
<1> USE DEF IInv
<1> DEFINE D == DOMAIN m_eventsWithContext
           n == Len(m_eventsWithContext)
           f == [k \in D |-> TakenEvent(k)]
<1>1. n \in Nat /\ D = 1 .. n
    BY DEF TypeOK
<1>2. Taken = {TakenEvent(k) : k \in D}
    BY DEF Taken, TakenEvent
<1>3. ASSUME NEW k \in D
      PROVE  /\ TakenEvent(k) \in Event
             /\ TakenEvent(k).impl = m_eventsWithContext[k].impl
             /\ TakenEvent(k).uid = m_uid + k - 1
             /\ KeyLess(CurrentKey, TakenEvent(k))
    <2>1. m_eventsWithContext[k] \in [impl : Nat, delay : Nat] /\ k \in 1 .. n
        BY <1>1, ElementOfSeq DEF TypeOK
    <2>2. /\ TakenEvent(k).impl = m_eventsWithContext[k].impl
          /\ TakenEvent(k).uid = m_uid + k - 1
          /\ TakenEvent(k).ts = m_currentTs + m_eventsWithContext[k].delay
        BY DEF TakenEvent
    <2>3. TakenEvent(k) \in Event
        <3>1. m_uid \in Nat /\ m_currentTs \in Nat
            BY Zenon DEF TypeOK
        <3>2. m_eventsWithContext[k].impl \in Nat /\ m_eventsWithContext[k].delay \in Nat
            BY <2>1
        <3>3. /\ m_currentTs + m_eventsWithContext[k].delay \in Nat
              /\ m_uid + k - 1 \in Nat
            BY <1>1, <2>1, <3>1, <3>2
        <3> QED
            BY <3>2, <3>3, Zenon DEF TakenEvent, Event
    <2>4. KeyLess(CurrentKey, TakenEvent(k))
        BY <1>1, <2>1, <2>2 DEF KeyLess, CurrentKey, SchedulerInv, TypeOK
    <2> QED
        BY <2>2, <2>3, <2>4
<1> HIDE DEF D, n
<1>4. ExistsBijection(1 .. n, Taken)
    <2>1. f \in Surjection(1 .. n, Taken)
        BY <1>1, <1>2 DEF Surjection
    <2>2. \A k, l \in 1 .. n : f[k] = f[l] => k = l
        <3> SUFFICES ASSUME NEW k \in 1 .. n, NEW l \in 1 .. n, f[k] = f[l]
                     PROVE  k = l
            OBVIOUS
        <3>1. m_uid + k - 1 = m_uid + l - 1
            BY <1>1, <1>3
        <3> QED
            BY <3>1, <1>1 DEF TypeOK
    <2>3. f \in Injection(1 .. n, Taken)
        BY <2>1, <2>2 DEF Injection, Surjection, IsInjective
    <2> QED
        BY <2>1, <2>3 DEF Bijection, ExistsBijection
<1>5. IsFiniteSet(Taken) /\ Cardinality(Taken) = n
    BY <1>1, <1>4, FS_NatBijection, FS_CountingElements
<1> QED
    BY <1>1, <1>2, <1>3, <1>5 DEF D, n

LEMMA SwapStep ==
    ASSUME IInv, Swap
    PROVE  IInv'
<1> USE DEF IInv
<1> DEFINE D == DOMAIN m_eventsWithContext
           n == Len(m_eventsWithContext)
<1>1. /\ pc = "swap" /\ pc' \in {"dispose", "loop"}
      /\ m_stop' \in BOOLEAN
      /\ m_events' = m_events \cup Taken
      /\ m_uid' = m_uid + n
      /\ m_unscheduledEvents' = m_unscheduledEvents + n
      /\ m_eventsWithContext' = << >>
      /\ m_eventsWithContextEmpty' = TRUE
      /\ UNCHANGED <<caller, current, m_destroyEvents, objects, invoked>>
    <2>1. m_stop' \in BOOLEAN
        BY DEF Swap, ReturnFromCollect, TypeOK
    <2>2. pc' \in {"dispose", "loop"}
        BY DEF Swap, ReturnFromCollect
    <2> QED
        BY <2>1, <2>2 DEF Swap
<1>2. /\ Taken = {TakenEvent(k) : k \in D}
      /\ n \in Nat
      /\ \A k \in D : /\ k \in 1 .. n
                      /\ TakenEvent(k) \in Event
                      /\ TakenEvent(k).impl = m_eventsWithContext[k].impl
                      /\ TakenEvent(k).uid = m_uid + k - 1
                      /\ KeyLess(CurrentKey, TakenEvent(k))
    BY TakenProperties
<1>3. IsFiniteSet(Taken) /\ Cardinality(Taken) = n
    BY TakenProperties
<1> HIDE DEF n, D
<1>4. TypeOK'
    <2>1. m_eventsWithContext' \in Seq([impl : Nat, delay : Nat])
        BY <1>1, EmptySeq
    <2>2. m_events' \subseteq Event
        BY <1>1, <1>2 DEF TypeOK
    <2>3. m_uid' \in Nat /\ m_unscheduledEvents' \in Int
        BY <1>1, <1>2 DEF TypeOK
    <2>4. pc' \in Pcs /\ m_eventsWithContextEmpty' \in BOOLEAN
        BY <1>1 DEF Pcs
    <2> QED
        BY <1>1, <2>1, <2>2, <2>3, <2>4 DEF TypeOK, Impls
<1>5. ASSUME NEW k \in D
      PROVE  /\ TakenEvent(k).impl \in Impls
             /\ impls[TakenEvent(k).impl] = "foreign"
             /\ TakenEvent(k).uid >= m_uid /\ TakenEvent(k).uid < m_uid'
             /\ Queued(TakenEvent(k).impl)
    <2>1. k \in 1 .. n /\ n \in Nat /\ m_uid \in Nat
        BY <1>2 DEF TypeOK
    <2>2. TakenEvent(k).uid >= m_uid /\ TakenEvent(k).uid < m_uid'
        BY <2>1, <1>1, <1>2
    <2> QED
        BY <2>2, <1>2 DEF ForeignInv, Queued, D
<1>6. ASSUME NEW k \in D, NEW l \in D,
             \/ TakenEvent(k).uid = TakenEvent(l).uid
             \/ TakenEvent(k).impl = TakenEvent(l).impl
      PROVE  TakenEvent(k) = TakenEvent(l)
    <2>1. k \in 1 .. n /\ l \in 1 .. n /\ m_uid \in Nat
        BY <1>2 DEF TypeOK
    <2>2. TakenEvent(k).uid = TakenEvent(l).uid => k = l
        BY <2>1, <1>2
    <2>3. TakenEvent(k).impl = TakenEvent(l).impl => k = l
        BY <1>2 DEF ForeignInv, D
    <2> QED
        BY <1>6, <2>2, <2>3
<1>7. ASSUME NEW e \in m_events, NEW k \in D
      PROVE  e.uid # TakenEvent(k).uid /\ e.impl # TakenEvent(k).impl
    <2>1. e.uid < m_uid /\ e.impl \in Impls /\ Pending(e.impl) /\ e \in Event
        BY DEF SchedulerInv, Pending, TypeOK
    <2> QED
        BY <2>1, <1>2, <1>5 DEF NoEventTwice, Event, TypeOK
<1>8. SchedulerInv'
    <2>1. m_uid' >= VALID /\ (m_currentUid < m_uid)'
        BY <1>1, <1>2 DEF SchedulerInv, TypeOK
    <2>2. ASSUME NEW e \in m_events'
          PROVE  /\ e.impl \in Impls'
                 /\ impls'[e.impl] # "destroy"
                 /\ VALID <= e.uid /\ e.uid < m_uid'
                 /\ KeyLess(CurrentKey', e)
        <3>1. CASE e \in m_events
            <4>1. VALID <= e.uid /\ e.uid < m_uid'
                BY <3>1, <1>1, <1>2 DEF SchedulerInv, TypeOK, Event
            <4> QED
                BY <3>1, <4>1, <1>1 DEF SchedulerInv, CurrentKey, Impls
        <3>2. CASE e \in Taken
            <4>1. PICK k \in D : e = TakenEvent(k)
                BY <3>2, <1>2
            <4>2. VALID <= e.uid /\ e.uid < m_uid'
                BY <4>1, <1>1, <1>2, <1>5 DEF SchedulerInv, TypeOK, Event
            <4>3. e.impl \in Impls' /\ impls'[e.impl] # "destroy"
                BY <4>1, <1>1, <1>5 DEF Impls
            <4> QED
                BY <4>1, <4>2, <4>3, <1>1, <1>2 DEF CurrentKey
        <3> QED
            BY <3>1, <3>2, <1>1
    <2>3. ASSUME NEW e \in m_events', NEW f \in m_events',
                 e.uid = f.uid \/ e.impl = f.impl
          PROVE  e = f
        <3>1. CASE e \in m_events /\ f \in m_events
            BY <3>1, <2>3 DEF SchedulerInv
        <3>2. CASE e \in Taken /\ f \in Taken
            BY <3>2, <2>3, <1>2, <1>6
        <3>3. CASE e \in m_events /\ f \in Taken
            BY <3>3, <2>3, <1>2, <1>7
        <3>4. CASE e \in Taken /\ f \in m_events
            BY <3>4, <2>3, <1>2, <1>7
        <3> QED
            BY <3>1, <3>2, <3>3, <3>4, <1>1
    <2> QED
        BY <2>1, <2>2, <2>3 DEF SchedulerInv
<1>9. ForeignInv' /\ DestroyInv'
    BY <1>1 DEF ForeignInv, DestroyInv, Impls
<1>10. IdsInv'
    <2>1. ASSUME NEW d \in ids, d.uid # DESTROY
          PROVE  /\ d.impl \in Impls'
                 /\ VALID <= d.uid /\ d.uid < m_uid'
                 /\ KeyLess(CurrentKey', d) /\ d.impl \notin cancelled => d \in m_events'
        BY <2>1, <1>1, <1>2 DEF IdsInv, Impls, CurrentKey, TypeOK, Event
    <2> QED
        BY <2>1, <1>1 DEF IdsInv
<1>11. CountInv'
    <2>1. m_events \cap Taken = {}
        BY <1>2, <1>7
    <2>2. IsFiniteSet(m_events') /\ Cardinality(m_events') = Cardinality(m_events) + n
        <3>1. /\ IsFiniteSet(m_events \cup Taken)
              /\ Cardinality(m_events \cup Taken)
                     = Cardinality(m_events) + Cardinality(Taken) - Cardinality({})
            BY <2>1, <1>3, FS_Union DEF CountInv
        <3>2. Cardinality({}) = 0
            BY FS_EmptySet
        <3>3. Cardinality(m_events) \in Nat
            BY FS_CardinalityType DEF CountInv
        <3> QED
            BY <3>1, <3>2, <3>3, <1>1, <1>2, <1>3
    <2> QED
        BY <2>2, <1>1 DEF CountInv, UnscheduledEventsExact
<1>12. \A i \in Impls : Queued(i) => \E e \in m_events' : e.impl = i
    BY <1>1, <1>2 DEF Queued, D
<1>13. NoEventLost'
    BY <1>1, <1>12 DEF NoEventLost, Impls, Pending
<1>14. \A i : ~ Queued(i)'
    BY <1>1 DEF Queued
<1>15. NoEventTwice'
    <2>1. \A i \in invoked : ~ Pending(i)'
        BY <1>1, <1>2, <1>5 DEF NoEventTwice, Pending
    <2>2. \A e, f \in m_events' : e.impl = f.impl => e = f
        BY <1>8 DEF SchedulerInv
    <2> QED
        BY <2>1, <2>2, <1>1, <1>14 DEF NoEventTwice, OnDestroyList, Impls
<1>16. CancelledNeverInvoked'
    BY <1>1 DEF CancelledNeverInvoked
<1> QED
    BY <1>4, <1>8, <1>9, <1>10, <1>11, <1>13, <1>15, <1>16

LEMMA ProcessOneEventStep ==
    ASSUME IInv, ProcessOneEvent
    PROVE  IInv'
<1> USE DEF IInv
<1>1. PICK next \in m_events :
          /\ IsEarliest(next, m_events)
          /\ m_events' = m_events \ {next}
          /\ m_currentTs' = next.ts
          /\ m_currentUid' = next.uid
          /\ Invoke(next)
    BY DEF ProcessOneEvent
<1>2. /\ pc = "loop"
      /\ m_unscheduledEvents' = m_unscheduledEvents - 1
      /\ caller' = "ProcessOneEvent"
      /\ UNCHANGED <<m_uid, foreign, m_destroyEvents, objects>>
    BY DEF ProcessOneEvent
<1>3. /\ pc' \in {"collect", "event"}
      /\ invoked' \in {invoked, invoked \cup {next.impl}}
      /\ invoked' = invoked \/ next.impl \notin cancelled
      /\ invoked' = invoked => next.impl \in cancelled \cup invoked
    BY <1>1 DEF Invoke
<1>4. m_stop' \in BOOLEAN
    BY <1>1 DEF Invoke, TypeOK
<1>5. /\ next \in Event
      /\ next.impl \in Impls /\ impls[next.impl] # "destroy"
      /\ VALID <= next.uid /\ next.uid < m_uid
      /\ CurrentKey' = [ts |-> next.ts, uid |-> next.uid]
    BY <1>1 DEF SchedulerInv, TypeOK, CurrentKey
<1>6. \A e \in m_events' : KeyLess(CurrentKey', e)
    BY <1>1, <1>5 DEF IsEarliest, KeyLess
<1>7. TypeOK'
    <2>1. m_events' \subseteq Event /\ m_unscheduledEvents' \in Int
        BY <1>1, <1>2 DEF TypeOK
    <2>2. m_currentTs' \in Nat /\ m_currentUid' \in Nat
        BY <1>1, <1>5 DEF Event
    <2>3. pc' \in Pcs /\ caller' \in Callers
        BY <1>2, <1>3 DEF Pcs, Calling, Callers
    <2>4. invoked' \subseteq Impls'
        BY <1>2, <1>3, <1>5 DEF TypeOK, Impls
    <2> QED
        BY <2>1, <2>2, <2>3, <2>4, <1>2, <1>4 DEF TypeOK, Impls
<1>8. SchedulerInv'
    <2>1. m_uid' >= VALID /\ (m_currentUid < m_uid)'
        BY <1>1, <1>2, <1>5 DEF SchedulerInv
    <2> QED
        BY <2>1, <1>1, <1>2, <1>6 DEF SchedulerInv, Impls
<1>9. ForeignInv' /\ DestroyInv'
    BY <1>2 DEF ForeignInv, DestroyInv, Impls
<1>10. IdsInv'
    <2>1. ASSUME NEW d \in ids, d.uid # DESTROY, KeyLess(CurrentKey', d),
                 d.impl \notin cancelled
          PROVE  d \in m_events'
        <3>1. d \in Event /\ CurrentKey \in [ts : Nat, uid : Nat]
            BY DEF TypeOK, CurrentKey
        <3>2. KeyLess(CurrentKey, next) /\ KeyLess(next, d)
            BY <2>1, <1>1, <1>5 DEF SchedulerInv, KeyLess
        <3>3. KeyLess(CurrentKey, d)
            BY <3>1, <3>2, <1>5, KeyLessTransitive
        <3>4. d \in m_events
            BY <2>1, <3>3, <1>2 DEF IdsInv
        <3>5. d # next
            BY <2>1, <1>5, <3>1 DEF KeyLess, Event
        <3> QED
            BY <3>4, <3>5, <1>1
    <2> QED
        BY <2>1, <1>2 DEF IdsInv, Impls
<1>11. CountInv'
    BY <1>1, <1>2, <1>3, FS_RemoveElement DEF CountInv, UnscheduledEventsExact
<1>12. CancelledNeverInvoked'
    BY <1>2, <1>3 DEF CancelledNeverInvoked
<1>13. NoEventLost'
    BY <1>1, <1>2, <1>3 DEF NoEventLost, Impls, Pending, Queued
<1>14. NoEventTwice'
    <2>1. ~ (\E e \in m_events' : e.impl = next.impl)
        BY <1>1 DEF NoEventTwice
    <2>2. ~ (\E k \in DOMAIN m_eventsWithContext : m_eventsWithContext[k].impl = next.impl)
        BY <1>1, <1>5 DEF NoEventTwice, Pending, Queued
    <2>3. ~ (\E k \in DOMAIN m_destroyEvents : m_destroyEvents[k].impl = next.impl)
        BY <1>5 DEF DestroyInv
    <2>4. \A i : Pending(i)' => Pending(i)
        BY <1>1 DEF Pending
    <2>5. invoked' \subseteq invoked \cup {next.impl}
        BY <1>3
    <2>6. \A e, f \in m_events' : e.impl = f.impl => e = f
        BY <1>1 DEF NoEventTwice
    <2> QED
        BY <2>1, <2>2, <2>3, <2>4, <2>5, <2>6, <1>2
        DEF NoEventTwice, Pending, Queued, OnDestroyList, Impls
<1> QED
    BY <1>7, <1>8, <1>9, <1>10, <1>11, <1>12, <1>13, <1>14

\* The steps of the main thread that change nothing but where it is.
LEMMA ControlSteps ==
    ASSUME IInv,
           Stop \/ Run \/ Collect \/ RunReturns \/ HandlerReturns \/ Destroy
               \/ DestroyReturns
    PROVE  IInv'
<1>1. m_stop \in BOOLEAN /\ caller \in Callers /\ pc \in Pcs
    BY DEF IInv, TypeOK
<1>2. CASE Stop
    BY <1>1, <1>2, ControlStep DEF Stop, Calling
<1>3. CASE Run
    BY <1>1, <1>3, ControlStep DEF Run, Pcs, Callers
<1>4. CASE Collect
    <2>1. m_stop' \in BOOLEAN /\ pc' \in {"swap", "dispose", "loop"} /\ pc = "collect"
        BY <1>1, <1>4 DEF Collect, ReturnFromCollect
    <2> QED
        BY <2>1, <1>1, <1>4, ControlStep DEF Collect, Pcs
<1>5. CASE RunReturns
    BY <1>1, <1>5, ControlStep DEF RunReturns, Pcs, Calling
<1>6. CASE HandlerReturns
    BY <1>1, <1>6, ControlStep DEF HandlerReturns, Pcs
<1>7. CASE Destroy
    BY <1>1, <1>7, ControlStep DEF Destroy, Pcs
<1>8. CASE DestroyReturns
    BY <1>1, <1>8, ControlStep DEF DestroyReturns, Pcs, Callers
<1> QED
    BY <1>2, <1>3, <1>4, <1>5, <1>6, <1>7, <1>8

LEMMA StutterStep ==
    ASSUME IInv, UNCHANGED vars
    PROVE  IInv'
<1> USE DEF IInv, vars
<1>1. TypeOK'
    BY DEF TypeOK, Impls
<1>2. SchedulerInv' /\ ForeignInv' /\ DestroyInv' /\ IdsInv'
    BY DEF SchedulerInv, ForeignInv, DestroyInv, IdsInv, Impls, CurrentKey, KeyLess
<1>3. CountInv' /\ CancelledNeverInvoked' /\ NoEventLost' /\ NoEventTwice'
    BY DEF CountInv, UnscheduledEventsExact, CancelledNeverInvoked, NoEventLost,
       NoEventTwice, Impls, Pending, Queued, OnDestroyList
<1> QED
    BY <1>1, <1>2, <1>3

LEMMA ApiStep ==
    ASSUME IInv, Api
    PROVE  IInv'
<1>1. CASE \E delay \in Delays : Schedule(delay)
    BY <1>1, InsertNewStep DEF Schedule
<1>2. CASE \E delay \in Delays : StopAt(delay)
    BY <1>2, InsertNewStep DEF StopAt
<1>3. CASE \E delay \in Delays : ScheduleWithContext(delay)
    BY <1>3, InsertNewStep DEF ScheduleWithContext
<1>4. CASE ScheduleDestroy
    BY <1>4, ScheduleDestroyStep
<1>5. CASE \E id \in ids : Cancel(id)
    BY <1>5, CancelStep
<1>6. CASE \E id \in ids : RemoveEvent(id)
    BY <1>6, RemoveEventStep
<1>7. CASE \E id \in ids : RemoveDestroyEvent(id)
    BY <1>7, RemoveDestroyEventStep
<1>8. CASE Stop
    BY <1>8, ControlSteps
<1> QED
    BY <1>1, <1>2, <1>3, <1>4, <1>5, <1>6, <1>7, <1>8 DEF Api

\* Every step of every thread preserves the invariant.
LEMMA NextInv == IInv /\ [Next]_vars => IInv'
<1> SUFFICES ASSUME IInv, [Next]_vars PROVE IInv'
    OBVIOUS
<1>1. CASE Api
    BY <1>1, ApiStep
<1>2. CASE \E delay \in Delays : ForeignScheduleWithContext(delay)
    BY <1>2, ForeignStep
<1>3. CASE Run \/ Destroy
    BY <1>3, ControlSteps
<1>4. CASE Loop
    BY <1>4, ControlSteps, SwapStep, ProcessOneEventStep DEF Loop
<1>5. CASE Teardown
    BY <1>5, ControlSteps, DestroyOneStep, DoDisposeStep DEF Teardown
<1>6. CASE UNCHANGED vars
    BY <1>6, StutterStep
<1> QED
    BY <1>1, <1>2, <1>3, <1>4, <1>5, <1>6 DEF Next

THEOREM Invariance == Spec => []IInv
<1> QED
    BY InitInv, NextInv, PTL DEF Spec
-----------------------------------------------------------------------------
\* Every variable keeps its type.
THEOREM TypeCorrect == Spec => []TypeOK
<1>1. IInv => TypeOK
    BY DEF IInv
<1> QED
    BY <1>1, Invariance, PTL

\* No event of any thread is lost between the foreign list, the scheduler and
\* its invocation, whatever the interleaving.
THEOREM NothingLost == Spec => []NoEventLost
<1>1. IInv => NoEventLost
    BY DEF IInv
<1> QED
    BY <1>1, Invariance, PTL

\* No event is waiting twice, or still waiting once it has run.
THEOREM NothingTwice == Spec => []NoEventTwice
<1>1. IInv => NoEventTwice
    BY DEF IInv
<1> QED
    BY <1>1, Invariance, PTL

\* A cancelled or removed event never runs.
THEOREM CancelIsFinal == Spec => []CancelledNeverInvoked
<1>1. IInv => CancelledNeverInvoked
    BY DEF IInv
<1> QED
    BY <1>1, Invariance, PTL

\* The NS_ASSERT at the end of Run holds: the counter of unscheduled events
\* is the size of the scheduler.
THEOREM CounterExact == Spec => []UnscheduledEventsExact
<1>1. IInv => UnscheduledEventsExact
    BY DEF IInv, CountInv
<1> QED
    BY <1>1, Invariance, PTL

\* IsExpired decides by comparing keys what the scheduler holds.
THEOREM ExpiredCorrect == Spec => []ExpiredIffNotPending
<1>1. IInv => ExpiredIffNotPending
    <2> SUFFICES ASSUME IInv, pc # "disposed", NEW id \in ids, id.uid # DESTROY
                 PROVE  ~ IsExpired(id) <=> id \in m_events /\ id.impl \notin cancelled
        BY DEF ExpiredIffNotPending
    <2>1. id \in Event
        BY DEF IInv, TypeOK
    <2>2. ~ IsExpired(id) => id \in m_events /\ id.impl \notin cancelled
        BY UnexpiredIsPending DEF IsExpired
    <2>3. id \in m_events => KeyLess(CurrentKey, id)
        BY DEF IInv, SchedulerInv
    <2>4. KeyLess(CurrentKey, id) /\ id.impl \notin cancelled => ~ IsExpired(id)
        BY <2>1 DEF KeyLess, CurrentKey, IsExpired, IInv, TypeOK, Event
    <2> QED
        BY <2>2, <2>3, <2>4
<1> QED
    BY <1>1, Invariance, PTL

\* Events run in the strict order of their keys: by time, and in the order of
\* their scheduling among those of one time stamp.
THEOREM OrderOfExecution == Spec => ExecutionOrder
<1>1. IInv /\ [Next]_vars => [KeyLess(CurrentKey, CurrentKey')]_current
    <2> SUFFICES ASSUME IInv, [Next]_vars, ~ UNCHANGED current
                 PROVE  KeyLess(CurrentKey, CurrentKey')
        OBVIOUS
    <2>1. ProcessOneEvent
        BY DEF Next, Api, Loop, Teardown, vars, Schedule, StopAt, ScheduleWithContext,
           InsertNew, ScheduleDestroy, Cancel, RemoveEvent, RemoveDestroyEvent, Stop,
           ForeignScheduleWithContext, Run, Collect, Swap, RunReturns, HandlerReturns,
           Destroy, DestroyOne, DestroyReturns, DoDispose
    <2>2. PICK next \in m_events : m_currentTs' = next.ts /\ m_currentUid' = next.uid
        BY <2>1 DEF ProcessOneEvent
    <2>3. KeyLess(CurrentKey, next)
        BY DEF IInv, SchedulerInv
    <2> QED
        BY <2>2, <2>3 DEF KeyLess, CurrentKey
<1> QED
    BY <1>1, Invariance, PTL DEF Spec, ExecutionOrder

\* ProcessEventsWithContext leaves no event of a foreign thread behind,
\* although it reads its flag without the mutex.
THEOREM NoForeignEventLeftBehind == Spec => CollectTakesAll
<1> DEFINE Returns == (pc \in {"collect", "swap"} /\ pc' \in {"loop", "dispose"})
                          => Len(m_eventsWithContext') = 0
<1>1. IInv /\ [Next]_vars => [Returns]_vars
    <2> SUFFICES ASSUME IInv, Next, pc \in {"collect", "swap"}, pc' \in {"loop", "dispose"}
                 PROVE  Len(m_eventsWithContext') = 0
        OBVIOUS
    <2>1. Collect \/ Swap
        BY DEF Next, Api, Loop, Teardown, Schedule, StopAt, ScheduleWithContext,
           InsertNew, ScheduleDestroy, Cancel, RemoveEvent, RemoveDestroyEvent, Stop,
           ForeignScheduleWithContext, Run, RunReturns, HandlerReturns, ProcessOneEvent,
           Destroy, DestroyOne, DestroyReturns, DoDispose, Calling
    <2>2. CASE Collect
        BY <2>2 DEF Collect, IInv, ForeignInv
    <2>3. CASE Swap
        BY <2>3 DEF Swap
    <2> QED
        BY <2>1, <2>2, <2>3
<1> QED
    BY <1>1, Invariance, PTL DEF Spec, CollectTakesAll
=============================================================================

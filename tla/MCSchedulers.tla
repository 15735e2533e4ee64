---------------------------- MODULE MCSchedulers ----------------------------
(* An instance of both schedulers: a program uses one of them, the one that   *)
(* the global value SchedulerType names (core/model/simulator.cc).            *)
EXTENDS HeapScheduler

CONSTANTS CalendarDelays, Starts, Word

ASSUME CalendarDelaysAssumption == CalendarDelays \subseteq Nat
ASSUME StartsAssumption         == Starts \subseteq Nat
ASSUME WordAssumption           == Word \in Nat \ {0}

VARIABLES
    SchedulerType,
    calendar, m_reverse, m_qSize, calendarNow, calendarUid, calendarNext

calendarVars == <<calendar, m_reverse, m_qSize, calendarNow, calendarUid, calendarNext>>

Cal == INSTANCE CalendarScheduler WITH
           Delays <- CalendarDelays, now <- calendarNow, m_uid <- calendarUid,
           next <- calendarNext

MCInit ==
    /\ SchedulerType \in {"HeapScheduler", "CalendarScheduler"}
    /\ Init
    /\ Cal!Init

MCNext ==
    \/ /\ SchedulerType = "HeapScheduler"
       /\ Next
       /\ UNCHANGED <<SchedulerType, calendarVars>>
    \/ /\ SchedulerType = "CalendarScheduler"
       /\ Cal!Next
       /\ UNCHANGED <<SchedulerType, vars>>

MCSpec == MCInit /\ [][MCNext]_<<SchedulerType, vars, calendarVars>>

\* Between two calls the calendar can find every event and begins its search
\* at the right day (Consistent of CalendarScheduler).
CalendarConsistent == Cal!Consistent

\* The calendar implements the contract of schedulers, with Remove too.
CalendarKeepsContract == Cal!KeepsContract
=============================================================================

----------------------------- MODULE Scheduler ------------------------------
(***************************************************************************)
(* The contract of ns3::Scheduler (core/model/scheduler.h), which every    *)
(* simulator relies on and every scheduler is to implement: a set of       *)
(* events and the event RemoveNext returned last.                          *)
(***************************************************************************)
EXTENDS EventKey

CONSTANT Event      \* the events there can be, records with ts and uid

VARIABLES events,   \* the events inserted and not yet removed
          next      \* what RemoveNext returned last, << >> before that

vars == <<events, next>>

Init == events = {} /\ next = << >>

IsEmpty == events = {}

Insert(ev) ==
    /\ \A e \in events : e.uid # ev.uid
    /\ events' = events \cup {ev}
    /\ UNCHANGED next

\* "Remove the earliest event from the event list."
RemoveNext ==
    /\ ~ IsEmpty
    /\ \E e \in events : /\ IsEarliest(e, events)
                         /\ events' = events \ {e}
                         /\ next' = e

\* RemoveNext of a scheduler that keeps its events but not their order.
RemoveAny ==
    /\ ~ IsEmpty
    /\ \E e \in events : events' = events \ {e} /\ next' = e

Remove(ev) ==
    /\ ev \in events
    /\ events' = events \ {ev}
    /\ UNCHANGED next

\* The new event is looked for in events', not in Event, which is infinite.
InsertSome == \E ev \in events' \ events : ev \in Event /\ Insert(ev)
RemoveSome == \E ev \in events : Remove(ev)

Next     == InsertSome \/ RemoveNext \/ RemoveSome
Spec     == Init /\ [][Next]_vars
NextBag  == InsertSome \/ RemoveAny \/ RemoveSome
BagSpec  == Init /\ [][NextBag]_vars
=============================================================================

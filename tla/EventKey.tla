------------------------------ MODULE EventKey ------------------------------
(***************************************************************************)
(* The order in which every scheduler and every simulator of ns-3 keeps    *)
(* events: Scheduler::EventKey of core/model/scheduler.h.  An event is any *)
(* record with at least the fields                                         *)
(*   ts   the virtual time at which the event expires, and                 *)
(*   uid  the number the simulator gave it when it was scheduled.          *)
(***************************************************************************)
EXTENDS Integers

\* operator< on EventKey: by time stamp, and first-come first-served among
\* the events of one time stamp.
KeyLess(a, b) == \/ a.ts < b.ts
                 \/ a.ts = b.ts /\ a.uid < b.uid

\* The event of `events' that Scheduler::PeekNext and RemoveNext promise.
IsEarliest(e, events) == /\ e \in events
                         /\ \A f \in events \ {e} : KeyLess(e, f)
=============================================================================

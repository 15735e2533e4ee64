--------------------------- MODULE HeapScheduler ----------------------------
(***************************************************************************)
(* ns3::HeapScheduler (core/model/heap-scheduler.cc): a binary heap in an  *)
(* array.  The element the code wastes at index 0 is the one TLA+          *)
(* sequences do not have, so indices are those of the code.                *)
(*                                                                         *)
(* Every iteration of the loops of BottomUp and TopDown is a step, so the  *)
(* invariants speak of the heap while it is being repaired too.            *)
(***************************************************************************)
EXTENDS EventKey, Sequences

CONSTANTS
    Delays,     \* how far after the last event taken events may lie
    MaxEvents   \* bound: how many events are inserted in all

ASSUME DelaysAssumption    == Delays \subseteq Nat
ASSUME MaxEventsAssumption == MaxEvents \in Nat

VARIABLES
    m_heap,
    pc,       \* "ready", or the loop that is running
    index,    \* the variable of that loop
    now,      \* the time of the event RemoveNext returned last: the
              \* simulators insert nothing earlier
    m_uid,    \* the uid of the next event
    next,     \* what RemoveNext returned last
    removed   \* has Remove been called? (history)

vars == <<m_heap, pc, index, now, m_uid, next, removed>>

Event == [ts : Nat, uid : Nat]

Root          == 1
Last          == Len(m_heap)
Parent(i)     == i \div 2
LeftChild(i)  == i * 2
RightChild(i) == i * 2 + 1
IsRoot(i)     == i = Root
IsBottom(i)   == i > Last
IsEmpty       == Last = 0

\* A mutant: events of one time stamp are not ordered.
IsLessByTime(a, b)   == m_heap[a].ts < m_heap[b].ts
IsLessStrictly(a, b) == KeyLess(m_heap[a], m_heap[b])

Smallest(a, b) == IF IsLessStrictly(a, b) THEN a ELSE b

\* The heap h with the elements at a and b exchanged, and a mutant that
\* overwrites one of them first.
Overwrite(h, a, b) == [h EXCEPT ![a] = h[b], ![b] = h[b]]
Exch(h, a, b) == [h EXCEPT ![a] = h[b], ![b] = h[a]]
PopBack(h)    == SubSeq(h, 1, Len(h) - 1)

Init ==
    /\ m_heap = << >>
    /\ pc = "ready"
    /\ index = Root
    /\ now = 0
    /\ m_uid = 0
    /\ next = << >>
    /\ removed = FALSE
-----------------------------------------------------------------------------
Insert(delay) ==
    /\ pc = "ready"
    /\ m_uid < MaxEvents
    /\ m_heap' = Append(m_heap, [ts |-> now + delay, uid |-> m_uid])
    /\ m_uid' = m_uid + 1
    /\ pc' = "BottomUp"
    /\ index' = Last + 1
    /\ UNCHANGED <<now, next, removed>>

Rises == ~ IsRoot(index) /\ IsLessStrictly(index, Parent(index))

BottomUp ==
    /\ pc = "BottomUp"
    /\ Rises
    /\ m_heap' = Exch(m_heap, index, Parent(index))
    /\ index' = Parent(index)
    /\ UNCHANGED <<pc, now, m_uid, next, removed>>

BottomUpReturns ==
    /\ pc = "BottomUp"
    /\ ~ Rises
    /\ pc' = "ready"
    /\ UNCHANGED <<m_heap, index, now, m_uid, next, removed>>

\* Exchange i with the last element, drop it, and start TopDown at i.
TakeOut(i) ==
    /\ m_heap' = PopBack(Exch(m_heap, i, Last))
    /\ pc' = "TopDown"
    /\ index' = i

RemoveNext ==
    /\ pc = "ready"
    /\ ~ IsEmpty
    /\ next' = m_heap[Root]
    /\ now' = m_heap[Root].ts
    /\ TakeOut(Root)
    /\ UNCHANGED <<m_uid, removed>>

\* Remove of the event with this uid, which the scheduler holds.
Remove(uid) ==
    /\ pc = "ready"
    /\ \E i \in 1 .. Last : m_heap[i].uid = uid /\ TakeOut(i)
    /\ removed' = TRUE
    /\ UNCHANGED <<now, m_uid, next>>

\* The child TopDown compares index with: the smaller of two, or an only one.
Child == IF IsBottom(RightChild(index))
         THEN LeftChild(index)
         ELSE Smallest(LeftChild(index), RightChild(index))

Sinks == ~ IsBottom(LeftChild(index)) /\ ~ IsLessStrictly(index, Child)

TopDown ==
    /\ pc = "TopDown"
    /\ Sinks
    /\ m_heap' = Exch(m_heap, index, Child)
    /\ index' = Child
    /\ UNCHANGED <<pc, now, m_uid, next, removed>>

TopDownReturns ==
    /\ pc = "TopDown"
    /\ ~ Sinks
    /\ pc' = "ready"
    /\ UNCHANGED <<m_heap, index, now, m_uid, next, removed>>

Next == \/ \E delay \in Delays : Insert(delay)
        \/ BottomUp
        \/ BottomUpReturns
        \/ RemoveNext
        \/ \E uid \in 0 .. MaxEvents - 1 : Remove(uid)
        \/ TopDown
        \/ TopDownReturns

Spec == Init /\ [][Next]_vars
-----------------------------------------------------------------------------
\* Every variable keeps its type.
TypeOK ==
    /\ m_heap \in Seq(Event)
    /\ pc \in {"ready", "BottomUp", "TopDown"}
    /\ index \in Nat \ {0}
    /\ now \in Nat
    /\ m_uid \in Nat
    /\ next \in Event \cup {<< >>}
    /\ removed \in BOOLEAN

\* Until the first Remove the array is a heap whenever no loop is running:
\* no element is smaller than its parent, whatever was inserted and taken.
HeapOrdered ==
    pc = "ready" /\ ~ removed =>
        \A i \in 2 .. Last : KeyLess(m_heap[Parent(i)], m_heap[i])

EventsOf(h) == {h[i] : i \in 1 .. Len(h)}

Contract == INSTANCE Scheduler WITH events <- EventsOf(m_heap)

\* Until the first Remove the heap keeps the contract of Scheduler: RemoveNext
\* returns the earliest event, and nothing is lost while the heap is repaired.
KeepsContractUntilRemove ==
    Contract!Init /\ [][removed \/ Contract!Next]_(Contract!vars)

\* With Remove too, the heap neither loses, repeats nor invents an event:
\* every operation has the effect of its contract on the set of the events.
KeepsEvents == Contract!BagSpec

\* The contract of Scheduler, for every operation: what scheduler.h promises
\* ("Remove the earliest event from the event list") also after a Remove.
KeepsContract == Contract!Spec
=============================================================================

-------------------------- MODULE SchedulersProofs --------------------------
(***************************************************************************)
(* The two schedulers of MCSchedulers, for every set of delays and every   *)
(* number of events.                                                       *)
(*                                                                         *)
(* HeapScheduler: the array is a heap until the first Remove, so           *)
(* RemoveNext keeps the contract of Scheduler until then, and the set of   *)
(* events always follows the contract.                                     *)
(*                                                                         *)
(* CalendarScheduler: every bucket is sorted and holds the events of its   *)
(* days, the search begins at the day of the last event removed, so the    *)
(* first event it finds is the earliest one, for every word size and       *)
(* however often the calendar was resized.                                 *)
(***************************************************************************)
EXTENDS MCSchedulers, SequenceTheorems, FiniteSetTheorems, WellFoundedInduction, TLAPS

-----------------------------------------------------------------------------
(* The heap: the order of keys.                                            *)

LEMMA KeyLessTransitive ==
    ASSUME NEW a \in Event, NEW b \in Event, NEW c \in Event,
           KeyLess(a, b), KeyLess(b, c)
    PROVE  KeyLess(a, c)
BY DEF KeyLess, Event

LEMMA KeyLessTotal ==
    ASSUME NEW a \in Event, NEW b \in Event, a.uid # b.uid
    PROVE  KeyLess(a, b) \/ KeyLess(b, a)
BY DEF KeyLess, Event
-----------------------------------------------------------------------------
(* Indices.                                                                *)

\* The parent of a node lies before it, and a node is one of the two children
\* of its parent.
LEMMA ParentProperties ==
    ASSUME NEW i \in Nat, i >= 2
    PROVE  /\ Parent(i) \in 1 .. i - 1
           /\ i = LeftChild(Parent(i)) \/ i = RightChild(Parent(i))
BY DEF Parent, LeftChild, RightChild

LEMMA ChildProperties ==
    ASSUME NEW p \in Nat \ {0}
    PROVE  /\ LeftChild(p) \in Nat /\ LeftChild(p) > p /\ LeftChild(p) >= 2
           /\ RightChild(p) \in Nat /\ RightChild(p) = LeftChild(p) + 1
           /\ Parent(LeftChild(p)) = p /\ Parent(RightChild(p)) = p
BY DEF Parent, LeftChild, RightChild

LEMMA NatMinimum ==
    ASSUME NEW S, S \subseteq Nat, S # {}
    PROVE  \E x \in S : \A y \in S : x <= y
<1>1. IsWellFoundedOn(OpToRel(<, Nat), Nat)
    BY NatLessThanWellFounded
<1>2. PICK x \in S : \A y \in S : ~ (<<y, x>> \in OpToRel(<, Nat))
    BY <1>1, WFMin
<1>3. ASSUME NEW y \in S PROVE x <= y
    <2>1. x \in Nat /\ y \in Nat /\ <<y, x>> \in Nat \X Nat
        OBVIOUS
    <2>2. y < x => <<y, x>> \in OpToRel(<, Nat)
        BY <2>1 DEF OpToRel
    <2>3. ~ (<<y, x>> \in OpToRel(<, Nat))
        BY <1>2, Zenon
    <2>4. ~ (y < x)
        BY <2>2, <2>3, Zenon
    <2> QED
        BY <2>1, <2>4
<1> QED
    BY <1>3
-----------------------------------------------------------------------------
(* What the operations make of the array.                                  *)

\* The array g is h with the elements at a and b exchanged.
Exchanged(g, h, a, b) ==
    /\ g \in Seq(Event)
    /\ Len(g) = Len(h)
    /\ \A j \in 1 .. Len(h) : g[j] = IF j = b THEN h[a] ELSE IF j = a THEN h[b] ELSE h[j]

LEMMA ExchProperties ==
    ASSUME NEW h \in Seq(Event), NEW a \in 1 .. Len(h), NEW b \in 1 .. Len(h)
    PROVE  Exchanged(Exch(h, a, b), h, a, b)
<1>1. h[a] \in Event /\ h[b] \in Event
    BY ElementOfSeq
<1> DEFINE g == [h EXCEPT ![a] = h[b]]
<1>2. /\ g \in Seq(Event)
      /\ Len(g) = Len(h)
      /\ \A j \in 1 .. Len(h) : g[j] = IF j = a THEN h[b] ELSE h[j]
    BY <1>1, ExceptSeq
<1>3. Exch(h, a, b) = [g EXCEPT ![b] = h[a]]
    BY DEF Exch
<1> HIDE DEF g
<1>4. /\ [g EXCEPT ![b] = h[a]] \in Seq(Event)
      /\ Len([g EXCEPT ![b] = h[a]]) = Len(g)
      /\ \A j \in 1 .. Len(g) : [g EXCEPT ![b] = h[a]][j] = IF j = b THEN h[a] ELSE g[j]
    BY <1>1, <1>2, ExceptSeq
<1> QED
    BY <1>2, <1>3, <1>4 DEF Exchanged

\* The element at i is replaced by the last one, and the array is shorter.
LEMMA TakeOutProperties ==
    ASSUME NEW h \in Seq(Event), NEW i \in 1 .. Len(h),
           NEW t, t = PopBack(Exch(h, i, Len(h)))
    PROVE  /\ t \in Seq(Event)
           /\ Len(t) = Len(h) - 1
           /\ \A j \in 1 .. Len(t) : t[j] = IF j = i THEN h[Len(h)] ELSE h[j]
<1>1. Len(h) \in Nat /\ Len(h) \in 1 .. Len(h)
    BY LenProperties
<1> DEFINE g == Exch(h, i, Len(h))
<1>2. /\ g \in Seq(Event)
      /\ Len(g) = Len(h)
      /\ \A j \in 1 .. Len(h) : g[j] = IF j = Len(h) THEN h[i]
                                       ELSE IF j = i THEN h[Len(h)] ELSE h[j]
    <2> DEFINE last == Len(h)
    <2>1. last \in 1 .. Len(h)
        BY <1>1
    <2> HIDE DEF last
    <2>2. Exchanged(Exch(h, i, last), h, i, last)
        BY <2>1, ExchProperties
    <2> QED
        BY <2>2 DEF last, Exchanged
<1>3. t = SubSeq(g, 1, Len(g) - 1)
    BY DEF PopBack
<1> HIDE DEF g
<1>4. \A j \in 1 .. Len(g) - 1 : g[j] \in Event
    BY <1>1, <1>2, ElementOfSeq
<1>5. /\ t \in Seq(Event)
      /\ Len(t) = IF 1 <= Len(g) - 1 THEN Len(g) - 1 - 1 + 1 ELSE 0
      /\ \A j \in 1 .. Len(g) - 1 - 1 + 1 : t[j] = g[1 + j - 1]
    BY <1>1, <1>2, <1>3, <1>4, SubSeqProperties
<1>6. Len(t) = Len(h) - 1
    BY <1>1, <1>2, <1>5
<1>7. ASSUME NEW j \in 1 .. Len(t) PROVE t[j] = IF j = i THEN h[Len(h)] ELSE h[j]
    <2>1. j \in 1 .. Len(h) /\ j # Len(h) /\ j \in 1 .. Len(g) - 1 - 1 + 1 /\ 1 + j - 1 = j
        BY <1>1, <1>2, <1>6
    <2>2. t[j] = g[j]
        BY <1>5, <2>1
    <2> QED
        BY <1>2, <2>1, <2>2
<1> QED
    BY <1>5, <1>6, <1>7

\* An exchange keeps the set of the events.
LEMMA EventsOfExch ==
    ASSUME NEW h \in Seq(Event), NEW a \in 1 .. Len(h), NEW b \in 1 .. Len(h)
    PROVE  EventsOf(Exch(h, a, b)) = EventsOf(h)
<1> DEFINE g == Exch(h, a, b)
<1>1. /\ Len(g) = Len(h)
      /\ \A j \in 1 .. Len(h) : g[j] = IF j = b THEN h[a]
                                       ELSE IF j = a THEN h[b] ELSE h[j]
    BY ExchProperties DEF Exchanged
<1> HIDE DEF g
<1>2. \A j \in 1 .. Len(h) : g[j] \in EventsOf(h)
    BY <1>1 DEF EventsOf
<1>3. \A j \in 1 .. Len(h) : h[j] \in EventsOf(g)
    <2> SUFFICES ASSUME NEW j \in 1 .. Len(h) PROVE \E l \in 1 .. Len(h) : g[l] = h[j]
        BY <1>1 DEF EventsOf
    <2>1. CASE j = a
        BY <1>1, <2>1
    <2>2. CASE j = b
        BY <1>1, <2>2
    <2>3. CASE j # a /\ j # b
        BY <1>1, <2>3
    <2> QED
        BY <2>1, <2>2, <2>3
<1>4. EventsOf(g) = EventsOf(h)
    BY <1>1, <1>2, <1>3 DEF EventsOf
<1> QED
    BY <1>4 DEF g

\* No two places of the array hold the same event.
Distinct(h) == \A i, j \in 1 .. Len(h) : h[i].uid = h[j].uid => i = j

\* Taking out the element at i takes one event out of the set.
LEMMA EventsOfTakeOut ==
    ASSUME NEW h \in Seq(Event), NEW i \in 1 .. Len(h), Distinct(h),
           NEW t, t = PopBack(Exch(h, i, Len(h)))
    PROVE  EventsOf(t) = EventsOf(h) \ {h[i]}
<1>1. Len(h) \in Nat /\ Len(h) \in 1 .. Len(h)
    BY LenProperties
<1>2. /\ Len(t) = Len(h) - 1
      /\ \A j \in 1 .. Len(t) : t[j] = IF j = i THEN h[Len(h)] ELSE h[j]
    BY TakeOutProperties
<1>3. ASSUME NEW j \in 1 .. Len(t) PROVE t[j] \in EventsOf(h) \ {h[i]}
    <2>1. j \in 1 .. Len(h) /\ j # Len(h)
        BY <1>1, <1>2
    <2>2. CASE j = i
        BY <1>1, <1>2, <2>1, <2>2 DEF EventsOf, Distinct
    <2>3. CASE j # i
        BY <1>2, <2>1, <2>3 DEF EventsOf, Distinct
    <2> QED
        BY <2>2, <2>3
<1>4. ASSUME NEW j \in 1 .. Len(h), h[j] # h[i] PROVE \E l \in 1 .. Len(t) : t[l] = h[j]
    <2>1. CASE j = Len(h)
        <3>1. i \in 1 .. Len(t)
            BY <1>1, <1>2, <1>4, <2>1
        <3> QED
            BY <1>2, <2>1, <3>1
    <2>2. CASE j # Len(h)
        <3>1. j \in 1 .. Len(t) /\ j # i
            BY <1>1, <1>2, <1>4, <2>2
        <3> QED
            BY <1>2, <3>1
    <2> QED
        BY <2>1, <2>2
<1> QED
    BY <1>3, <1>4 DEF EventsOf
-----------------------------------------------------------------------------
(* The inductive invariant.                                                *)

UidInv ==
    /\ Distinct(m_heap)
    /\ \A i \in 1 .. Last : m_heap[i].uid < m_uid

InOrder(i) == IsLessStrictly(Parent(i), i)

\* While index is being moved, its children are in order with its parent:
\* whichever of them takes its place fits there.
FitsAbove(i) == Parent(i) = index /\ index # Root => IsLessStrictly(Parent(index), i)

\* BottomUp has one node that may be smaller than its parent, TopDown one that
\* may be greater than its children; otherwise the array is a heap.
RisingInv  == \A i \in 2 .. Last : (i # index => InOrder(i)) /\ FitsAbove(i)
SinkingInv == \A i \in 2 .. Last : (Parent(i) # index => InOrder(i)) /\ FitsAbove(i)

IInv ==
    /\ TypeOK
    /\ UidInv
    /\ pc = "BottomUp" => index \in 1 .. Last
    /\ HeapOrdered
    /\ pc = "BottomUp" /\ ~ removed => RisingInv
    /\ pc = "TopDown" /\ ~ removed => SinkingInv
-----------------------------------------------------------------------------
(* Uids stay distinct.                                                     *)

LEMMA UidInvExch ==
    ASSUME TypeOK, UidInv, NEW a \in 1 .. Last, NEW b \in 1 .. Last,
           m_heap' = Exch(m_heap, a, b), m_uid' = m_uid
    PROVE  UidInv'
<1>1. /\ m_heap \in Seq(Event)
      /\ Len(m_heap) \in Nat
    BY DEF TypeOK
<1>2. /\ Len(m_heap') = Len(m_heap)
      /\ \A j \in 1 .. Len(m_heap) :
             m_heap'[j] = IF j = b THEN m_heap[a] ELSE IF j = a THEN m_heap[b] ELSE m_heap[j]
    <2>1. a \in 1 .. Len(m_heap) /\ b \in 1 .. Len(m_heap)
        BY DEF Last
    <2>2. Exchanged(Exch(m_heap, a, b), m_heap, a, b)
        BY <1>1, <2>1, ExchProperties
    <2> QED
        BY <2>2 DEF Exchanged
<1>3. \A j \in 1 .. Len(m_heap) : m_heap'[j].uid < m_uid
    BY <1>2 DEF UidInv, Last
<1>4. ASSUME NEW i \in 1 .. Len(m_heap), NEW j \in 1 .. Len(m_heap),
             m_heap'[i].uid = m_heap'[j].uid
      PROVE  i = j
    <2> DEFINE p(x) == IF x = b THEN a ELSE IF x = a THEN b ELSE x
    <2>1. /\ p(i) \in 1 .. Len(m_heap) /\ p(j) \in 1 .. Len(m_heap)
          /\ m_heap'[i] = m_heap[p(i)] /\ m_heap'[j] = m_heap[p(j)]
        BY <1>2 DEF Last
    <2>2. p(i) = p(j)
        <3> HIDE DEF p
        <3> QED
            BY <1>4, <2>1 DEF UidInv, Distinct
    <2> QED
        BY <2>2
<1> QED
    BY <1>2, <1>3, <1>4 DEF UidInv, Distinct, Last

LEMMA UidInvTakeOut ==
    ASSUME TypeOK, UidInv, NEW i \in 1 .. Last, TakeOut(i), m_uid' = m_uid
    PROVE  UidInv'
<1>1. /\ m_heap \in Seq(Event)
      /\ Len(m_heap) \in Nat
      /\ m_heap' = PopBack(Exch(m_heap, i, Len(m_heap)))
    BY DEF TypeOK, TakeOut, Last
<1>2. /\ Len(m_heap') = Len(m_heap) - 1
      /\ \A j \in 1 .. Len(m_heap') :
             m_heap'[j] = IF j = i THEN m_heap[Len(m_heap)] ELSE m_heap[j]
    BY <1>1, TakeOutProperties DEF Last
<1> DEFINE p(x) == IF x = i THEN Len(m_heap) ELSE x
<1>3. \A j \in 1 .. Len(m_heap') : p(j) \in 1 .. Len(m_heap) /\ m_heap'[j] = m_heap[p(j)]
    BY <1>1, <1>2
<1>4. \A j, l \in 1 .. Len(m_heap') : p(j) = p(l) => j = l
    BY <1>1, <1>2
<1> HIDE DEF p
<1>5. \A j \in 1 .. Len(m_heap') : m_heap'[j].uid < m_uid
    BY <1>3 DEF UidInv, Last
<1>6. \A j, l \in 1 .. Len(m_heap') : m_heap'[j].uid = m_heap'[l].uid => j = l
    BY <1>3, <1>4 DEF UidInv, Distinct
<1> QED
    BY <1>5, <1>6 DEF UidInv, Distinct, Last

\* Two events of the array are in one order or the other.
LEMMA OneOrTheOther ==
    ASSUME TypeOK, UidInv, NEW a \in 1 .. Last, NEW b \in 1 .. Last, a # b,
           ~ IsLessStrictly(a, b)
    PROVE  IsLessStrictly(b, a)
<1>1. m_heap \in Seq(Event) /\ m_heap[a] \in Event /\ m_heap[b] \in Event
    BY ElementOfSeq DEF TypeOK, Last
<1>2. m_heap[a].uid # m_heap[b].uid
    BY DEF UidInv, Distinct, Last
<1> QED
    BY <1>1, <1>2, KeyLessTotal DEF IsLessStrictly

LEMMA OrderTransitive ==
    ASSUME TypeOK, NEW a \in 1 .. Last, NEW b \in 1 .. Last, NEW c \in 1 .. Last,
           IsLessStrictly(a, b), IsLessStrictly(b, c)
    PROVE  IsLessStrictly(a, c)
<1>1. m_heap[a] \in Event /\ m_heap[b] \in Event /\ m_heap[c] \in Event
    BY ElementOfSeq DEF TypeOK, Last
<1> QED
    BY <1>1, KeyLessTransitive DEF IsLessStrictly
-----------------------------------------------------------------------------
(* The invariant holds initially, and every step preserves it.             *)

LEMMA InitInv == Init => IInv
<1> SUFFICES ASSUME Init PROVE IInv
    OBVIOUS
<1>1. m_heap \in Seq(Event) /\ Len(m_heap) = 0
    BY EmptySeq DEF Init
<1>2. TypeOK
    <2>1. m_heap \in Seq(Event)
        BY <1>1
    <2>2. pc \in {"ready", "BottomUp", "TopDown"}
        BY DEF Init
    <2>3. index \in Nat \ {0} /\ now \in Nat /\ m_uid \in Nat
        BY DEF Init, Root
    <2>4. next \in Event \cup {<< >>}
        BY Zenon DEF Init
    <2>5. removed \in BOOLEAN
        BY DEF Init
    <2> QED
        BY <2>1, <2>2, <2>3, <2>4, <2>5, Zenon DEF TypeOK
<1>3. UidInv /\ HeapOrdered
    BY <1>1 DEF UidInv, Distinct, HeapOrdered, Last
<1> QED
    BY <1>2, <1>3 DEF Init, IInv

LEMMA InsertStep ==
    ASSUME IInv, NEW delay \in Delays, Insert(delay)
    PROVE  IInv'
<1> USE DEF IInv
<1> DEFINE new == [ts |-> now + delay, uid |-> m_uid]
<1>1. /\ m_heap \in Seq(Event) /\ Len(m_heap) \in Nat
      /\ now \in Nat /\ m_uid \in Nat /\ new \in Event
    BY DelaysAssumption DEF TypeOK, Event
<1>2. /\ m_heap' = Append(m_heap, new)
      /\ m_uid' = m_uid + 1 /\ pc' = "BottomUp" /\ index' = Len(m_heap) + 1
      /\ UNCHANGED <<now, next, removed>> /\ pc = "ready"
    BY DEF Insert, Last
<1> HIDE DEF new
<1>3. /\ m_heap' \in Seq(Event)
      /\ Len(m_heap') = Len(m_heap) + 1
      /\ \A i \in 1 .. Len(m_heap) : m_heap'[i] = m_heap[i]
      /\ m_heap'[Len(m_heap) + 1] = new
    BY <1>1, <1>2, AppendProperties
<1>4. TypeOK'
    BY <1>1, <1>2, <1>3 DEF TypeOK
<1>5. UidInv'
    <2>1. new.uid = m_uid
        BY DEF new
    <2>2. ASSUME NEW i \in 1 .. Len(m_heap)
          PROVE  m_heap[i].uid < m_uid /\ m_heap[i].uid \in Nat
        <3>1. m_heap[i] \in Event
            BY <1>1, ElementOfSeq
        <3> QED
            BY <3>1 DEF UidInv, Last, Event
    <2>3. \A i \in 1 .. Len(m_heap') : m_heap'[i].uid < m_uid'
        BY <1>1, <1>2, <1>3, <2>1, <2>2
    <2>4. ASSUME NEW i \in 1 .. Len(m_heap'), NEW j \in 1 .. Len(m_heap'),
                 m_heap'[i].uid = m_heap'[j].uid
          PROVE  i = j
        <3>1. CASE i \in 1 .. Len(m_heap) /\ j \in 1 .. Len(m_heap)
            BY <1>3, <2>4, <3>1 DEF UidInv, Distinct
        <3>2. CASE i = Len(m_heap) + 1 \/ j = Len(m_heap) + 1
            BY <1>1, <1>3, <2>1, <2>2, <2>4, <3>2
        <3> QED
            BY <1>1, <1>3, <3>1, <3>2
    <2> QED
        BY <2>3, <2>4 DEF UidInv, Distinct, Last
<1>6. index' \in 1 .. Last'
    BY <1>1, <1>2, <1>3 DEF Last
<1>7. ASSUME ~ removed PROVE RisingInv'
    <2> SUFFICES ASSUME NEW i \in 2 .. Len(m_heap) + 1
                 PROVE  /\ i # Len(m_heap) + 1 => KeyLess(m_heap'[Parent(i)], m_heap'[i])
                        /\ Parent(i) # Len(m_heap) + 1
        BY <1>2, <1>3 DEF RisingInv, FitsAbove, InOrder, IsLessStrictly, Last, Parent
    <2>1. Parent(i) \in 1 .. i - 1
        BY <1>1, ParentProperties
    <2>2. i # Len(m_heap) + 1 =>
              /\ i \in 2 .. Len(m_heap) /\ i \in 1 .. Len(m_heap)
              /\ Parent(i) \in 1 .. Len(m_heap)
        BY <1>1, <2>1
    <2> QED
        BY <1>1, <1>2, <1>3, <1>7, <2>1, <2>2 DEF HeapOrdered, Last
<1> QED
    BY <1>2, <1>4, <1>5, <1>6, <1>7 DEF HeapOrdered

\* The loops exchange index with one of its neighbours.
LEMMA ExchStep ==
    ASSUME TypeOK, UidInv, index \in 1 .. Last, NEW b \in 1 .. Last,
           m_heap' = Exch(m_heap, index, b), index' = b,
           UNCHANGED <<pc, now, m_uid, next, removed>>
    PROVE  /\ TypeOK'
           /\ UidInv'
           /\ Last' = Last
           /\ index' \in 1 .. Last'
           /\ \A j \in 1 .. Last :
                  m_heap'[j] = IF j = b THEN m_heap[index]
                               ELSE IF j = index THEN m_heap[b] ELSE m_heap[j]
<1>1. m_heap \in Seq(Event) /\ Len(m_heap) \in Nat
    BY DEF TypeOK
<1>2. /\ m_heap' \in Seq(Event)
      /\ Len(m_heap') = Len(m_heap)
      /\ \A j \in 1 .. Len(m_heap) :
             m_heap'[j] = IF j = b THEN m_heap[index]
                          ELSE IF j = index THEN m_heap[b] ELSE m_heap[j]
    <2> DEFINE a == index
    <2>1. a \in 1 .. Len(m_heap) /\ b \in 1 .. Len(m_heap)
        BY DEF Last
    <2>2. m_heap' = Exch(m_heap, a, b)
        OBVIOUS
    <2> HIDE DEF a
    <2>3. Exchanged(Exch(m_heap, a, b), m_heap, a, b)
        BY <1>1, <2>1, ExchProperties
    <2> QED
        BY <2>2, <2>3 DEF a, Exchanged
<1>3. TypeOK'
    BY <1>1, <1>2 DEF TypeOK, Last
<1>4. UidInv'
    <2> DEFINE a == index
    <2>1. a \in 1 .. Last /\ m_heap' = Exch(m_heap, a, b) /\ m_uid' = m_uid
        OBVIOUS
    <2> HIDE DEF a
    <2> QED
        BY <2>1, UidInvExch
<1> QED
    BY <1>1, <1>2, <1>3, <1>4 DEF Last

LEMMA BottomUpStep ==
    ASSUME IInv, BottomUp
    PROVE  IInv'
<1> USE DEF IInv
<1> DEFINE p == Parent(index)
<1>1. /\ pc = "BottomUp" /\ pc' = "BottomUp" /\ removed' = removed
      /\ index \in 1 .. Last /\ index # Root /\ IsLessStrictly(index, p)
      /\ m_heap' = Exch(m_heap, index, p) /\ index' = p
      /\ UNCHANGED <<pc, now, m_uid, next, removed>>
    BY DEF BottomUp, Rises, IsRoot
<1>2. Last \in Nat /\ index \in Nat /\ index >= 2 /\ index <= Last
    BY <1>1 DEF TypeOK, Last, Root
<1>3. p \in 1 .. index - 1 /\ p \in 1 .. Last
    BY <1>2, ParentProperties
<1> HIDE DEF p
<1>4. /\ TypeOK' /\ UidInv' /\ Last' = Last /\ index' \in 1 .. Last'
      /\ \A j \in 1 .. Last :
             m_heap'[j] = IF j = p THEN m_heap[index]
                          ELSE IF j = index THEN m_heap[p] ELSE m_heap[j]
    BY <1>1, <1>3, ExchStep
<1>5. ASSUME ~ removed PROVE RisingInv'
    <2>1. RisingInv
        BY <1>1, <1>5
    <2>2. ASSUME NEW i \in 2 .. Last, i # p
          PROVE  KeyLess(m_heap'[Parent(i)], m_heap'[i])
        <3>1. /\ Parent(i) \in 1 .. i - 1 /\ i \in Nat
              /\ Parent(i) \in 1 .. Last /\ i \in 1 .. Last
            <4>1. i \in Nat /\ i >= 2 /\ i <= Last
                BY <1>2
            <4> QED
                BY <1>2, <4>1, ParentProperties
        <3>2. CASE i = index
            \* The exchanged pair.
            BY <1>1, <1>2, <1>3, <1>4, <3>1, <3>2 DEF IsLessStrictly, p
        <3>3. CASE i # index /\ Parent(i) = index
            \* A child of index gets its grandparent as a parent.
            <4>1. IsLessStrictly(p, i)
                BY <1>1, <2>1, <3>3 DEF RisingInv, FitsAbove, p
            <4> QED
                BY <1>3, <1>4, <2>2, <3>1, <3>3, <4>1 DEF IsLessStrictly
        <3>4. CASE i # index /\ Parent(i) # index
            <4>1. IsLessStrictly(Parent(i), i)
                BY <2>1, <3>4 DEF RisingInv, InOrder
            <4>2. CASE Parent(i) = p
                \* The sibling of index.
                <5>1. IsLessStrictly(index, i)
                    BY <1>1, <1>3, <3>1, <4>1, <4>2, OrderTransitive
                <5> QED
                    BY <1>3, <1>4, <2>2, <3>1, <3>4, <4>2, <5>1 DEF IsLessStrictly
            <4>3. CASE Parent(i) # p
                BY <1>4, <2>2, <3>1, <3>4, <4>1, <4>3 DEF IsLessStrictly
            <4> QED
                BY <4>2, <4>3
        <3> QED
            BY <3>2, <3>3, <3>4
    <2>3. ASSUME NEW i \in 2 .. Last, Parent(i) = p, p # Root
          PROVE  KeyLess(m_heap'[Parent(p)], m_heap'[i])
        \* Both children of p come after its parent.
        <3>1. /\ p \in 2 .. Last /\ Parent(p) \in 1 .. p - 1 /\ Parent(p) \in 1 .. Last
            <4>1. p \in Nat /\ p >= 2 /\ p <= Last
                BY <1>2, <1>3, <2>3 DEF Root
            <4> QED
                BY <1>2, <4>1, ParentProperties
        <3>2. IsLessStrictly(Parent(p), p)
            <4>1. p # index
                BY <1>2, <1>3
            <4> QED
                BY <2>1, <3>1, <4>1 DEF RisingInv, InOrder
        <3>3. m_heap'[Parent(p)] = m_heap[Parent(p)]
            BY <1>2, <1>3, <1>4, <3>1
        <3>4. CASE i = index
            BY <1>3, <1>4, <2>3, <3>1, <3>2, <3>3, <3>4 DEF IsLessStrictly
        <3>5. CASE i # index
            <4>1. IsLessStrictly(p, i)
                BY <2>1, <2>3, <3>5 DEF RisingInv, InOrder
            <4>2. i \in 1 .. Last /\ i # p
                <5>1. i \in Nat /\ i >= 2 /\ i <= Last
                    BY <1>2
                <5>2. Parent(i) \in 1 .. i - 1
                    BY <5>1, ParentProperties
                <5> QED
                    BY <1>2, <2>3, <5>1, <5>2
            <4>3. IsLessStrictly(Parent(p), i)
                BY <1>3, <3>1, <3>2, <4>1, <4>2, OrderTransitive
            <4> QED
                BY <1>4, <3>3, <3>5, <4>2, <4>3 DEF IsLessStrictly
        <3> QED
            BY <3>4, <3>5
    <2> QED
        BY <1>1, <1>4, <2>2, <2>3 DEF RisingInv, InOrder, FitsAbove, IsLessStrictly, Parent
<1> QED
    BY <1>1, <1>4, <1>5 DEF HeapOrdered

LEMMA BottomUpReturnsStep ==
    ASSUME IInv, BottomUpReturns
    PROVE  IInv'
<1> USE DEF IInv
<1>1. /\ pc = "BottomUp" /\ pc' = "ready" /\ ~ Rises /\ index \in 1 .. Last
      /\ UNCHANGED <<m_heap, index, now, m_uid, next, removed>>
    BY DEF BottomUpReturns
<1>2. TypeOK' /\ UidInv'
    BY <1>1 DEF TypeOK, UidInv, Distinct, Last
<1>3. ASSUME ~ removed, NEW i \in 2 .. Last
      PROVE  KeyLess(m_heap[Parent(i)], m_heap[i])
    <2>1. CASE i # index
        BY <1>1, <1>3, <2>1 DEF RisingInv, InOrder, IsLessStrictly
    <2>2. CASE i = index
        <3>1. Last \in Nat /\ i \in Nat /\ i >= 2 /\ i <= Last
            BY DEF TypeOK, Last
        <3>2. Parent(i) \in 1 .. Last /\ i \in 1 .. Last /\ Parent(i) # i
            <4>1. Parent(i) \in 1 .. i - 1
                BY <3>1, ParentProperties
            <4> QED
                BY <3>1, <4>1
        <3>3. ~ IsLessStrictly(i, Parent(i))
            BY <1>1, <2>2, <3>1 DEF Rises, IsRoot, Root
        <3> QED
            BY <3>2, <3>3, OneOrTheOther DEF IsLessStrictly
    <2> QED
        BY <2>1, <2>2
<1> QED
    BY <1>1, <1>2, <1>3 DEF HeapOrdered, Last

\* RemoveNext leaves one node that may be greater than its children, the root.
LEMMA RemoveNextStep ==
    ASSUME IInv, RemoveNext
    PROVE  IInv'
<1> USE DEF IInv
<1>1. m_heap \in Seq(Event) /\ Last = Len(m_heap) /\ Last \in Nat /\ Root \in 1 .. Last
    BY DEF TypeOK, Last, Root, RemoveNext, IsEmpty
<1>2. /\ pc = "ready" /\ pc' = "TopDown" /\ index' = Root
      /\ TakeOut(Root)
      /\ m_heap' = PopBack(Exch(m_heap, Root, Len(m_heap)))
      /\ next' = m_heap[Root] /\ now' = m_heap[Root].ts
      /\ m_uid' = m_uid /\ removed' = removed
    BY DEF RemoveNext, TakeOut, Last
<1>3. /\ m_heap' \in Seq(Event)
      /\ Len(m_heap') = Last - 1
      /\ \A j \in 1 .. Len(m_heap') : m_heap'[j] = IF j = Root THEN m_heap[Last] ELSE m_heap[j]
    <2> DEFINE root == Root
    <2>1. root \in 1 .. Len(m_heap) /\ m_heap' = PopBack(Exch(m_heap, root, Len(m_heap)))
        BY <1>1, <1>2
    <2> HIDE DEF root
    <2>2. /\ m_heap' \in Seq(Event)
          /\ Len(m_heap') = Len(m_heap) - 1
          /\ \A j \in 1 .. Len(m_heap') :
                 m_heap'[j] = IF j = root THEN m_heap[Len(m_heap)] ELSE m_heap[j]
        BY <1>1, <2>1, TakeOutProperties
    <2> QED
        BY <1>1, <2>2 DEF root
<1>4. m_heap[Root] \in Event
    BY <1>1, ElementOfSeq
<1>5. TypeOK'
    <2>1. m_heap[Root].ts \in Nat
        BY <1>4 DEF Event
    <2>2. next' \in Event \cup {<< >>}
        BY <1>2, <1>4
    <2>3. index' \in Nat \ {0} /\ now' \in Nat /\ m_uid' \in Nat /\ removed' \in BOOLEAN
        BY <1>2, <2>1 DEF TypeOK, Root
    <2>4. pc' \in {"ready", "BottomUp", "TopDown"}
        BY <1>2
    <2> QED
        BY <1>3, <2>2, <2>3, <2>4, Zenon DEF TypeOK
<1>6. UidInv'
    <2> DEFINE root == Root
    <2>1. root \in 1 .. Last /\ TakeOut(root) /\ m_uid' = m_uid
        BY <1>1, <1>2
    <2> HIDE DEF root
    <2> QED
        BY <2>1, UidInvTakeOut
<1>7. ASSUME ~ removed PROVE SinkingInv'
    <2>1. ASSUME NEW i \in 2 .. Last - 1, Parent(i) # Root
          PROVE  KeyLess(m_heap'[Parent(i)], m_heap'[i])
        <3>1. i \in Nat /\ i >= 2 /\ i <= Last - 1 /\ i \in 2 .. Last
            BY <1>1
        <3>2. Parent(i) \in 1 .. i - 1
            BY <3>1, ParentProperties
        <3>3. /\ m_heap'[i] = m_heap[i] /\ m_heap'[Parent(i)] = m_heap[Parent(i)]
            BY <1>1, <1>3, <2>1, <3>1, <3>2 DEF Root
        <3> QED
            BY <1>2, <1>7, <3>1, <3>3 DEF HeapOrdered
    <2> QED
        BY <1>2, <1>3, <2>1 DEF SinkingInv, InOrder, FitsAbove, IsLessStrictly, Last, Parent
<1> QED
    BY <1>2, <1>5, <1>6, <1>7 DEF HeapOrdered

LEMMA RemoveStep ==
    ASSUME IInv, NEW uid, Remove(uid)
    PROVE  IInv'
<1> USE DEF IInv
<1>1. PICK i \in 1 .. Last : m_heap[i].uid = uid /\ TakeOut(i)
    BY DEF Remove
<1>2. /\ pc' = "TopDown" /\ index' = i /\ removed' = TRUE
      /\ UNCHANGED <<now, m_uid, next>>
    BY <1>1 DEF Remove, TakeOut
<1>3. m_heap' \in Seq(Event)
    <2>1. /\ m_heap \in Seq(Event) /\ i \in 1 .. Len(m_heap)
          /\ m_heap' = PopBack(Exch(m_heap, i, Len(m_heap)))
        BY <1>1 DEF TypeOK, TakeOut, Last
    <2> QED
        BY <2>1, TakeOutProperties
<1>4. TypeOK'
    <2>1. index' \in Nat \ {0}
        BY <1>1, <1>2
    <2> QED
        BY <1>2, <1>3, <2>1 DEF TypeOK
<1>5. UidInv'
    BY <1>1, <1>2, UidInvTakeOut
<1> QED
    BY <1>2, <1>4, <1>5 DEF HeapOrdered

\* The child TopDown takes is the smallest.
LEMMA ChildIsSmallest ==
    ASSUME TypeOK, UidInv, ~ IsBottom(LeftChild(index))
    PROVE  /\ Child \in 2 .. Last
           /\ Parent(Child) = index
           /\ index \in 1 .. Child - 1
           /\ \A i \in 2 .. Last : Parent(i) = index /\ i # Child => IsLessStrictly(Child, i)
<1> DEFINE l == LeftChild(index)
           r == RightChild(index)
<1>1. /\ Last \in Nat /\ index \in Nat \ {0}
      /\ l \in Nat /\ l > index /\ l >= 2 /\ r \in Nat /\ r = l + 1
      /\ Parent(l) = index /\ Parent(r) = index
    <2>1. Last \in Nat /\ index \in Nat \ {0}
        BY DEF TypeOK, Last
    <2> QED
        BY <2>1, ChildProperties
<1>2. l <= Last
    BY <1>1 DEF IsBottom
<1>3. ASSUME NEW i \in 2 .. Last, Parent(i) = index PROVE i = l \/ i = r
    <2>1. i \in Nat /\ i >= 2
        BY <1>1
    <2> QED
        BY <1>3, <2>1, ParentProperties
<1>4. CASE r > Last
    <2>1. Child = l
        BY <1>4 DEF Child, IsBottom
    <2> HIDE DEF l, r
    <2> QED
        BY <1>1, <1>2, <1>3, <1>4, <2>1
<1>5. CASE r <= Last
    <2>1. Child = IF IsLessStrictly(l, r) THEN l ELSE r
        BY <1>1, <1>5 DEF Child, IsBottom, Smallest
    <2> HIDE DEF l, r
    <2>2. l \in 1 .. Last /\ r \in 1 .. Last /\ l # r
        BY <1>1, <1>2, <1>5
    <2>3. CASE IsLessStrictly(l, r)
        BY <1>1, <1>2, <1>3, <1>5, <2>1, <2>3
    <2>4. CASE ~ IsLessStrictly(l, r)
        <3>1. IsLessStrictly(r, l)
            BY <2>2, <2>4, OneOrTheOther
        <3> QED
            BY <1>1, <1>2, <1>3, <1>5, <2>1, <2>4, <3>1
    <2> QED
        BY <2>3, <2>4
<1> QED
    BY <1>1, <1>4, <1>5

LEMMA TopDownStep ==
    ASSUME IInv, TopDown
    PROVE  IInv'
<1> USE DEF IInv
<1> DEFINE c == Child
<1>1. /\ pc = "TopDown" /\ pc' = "TopDown" /\ removed' = removed
      /\ ~ IsBottom(LeftChild(index)) /\ ~ IsLessStrictly(index, c)
      /\ m_heap' = Exch(m_heap, index, c) /\ index' = c
      /\ UNCHANGED <<pc, now, m_uid, next, removed>>
    BY DEF TopDown, Sinks
<1>2. /\ c \in 2 .. Last /\ Parent(c) = index /\ index \in 1 .. c - 1
      /\ \A i \in 2 .. Last : Parent(i) = index /\ i # c => IsLessStrictly(c, i)
    BY <1>1, ChildIsSmallest
<1> HIDE DEF c
<1>3. Last \in Nat /\ c \in 1 .. Last /\ index \in 1 .. Last /\ index # c
    BY <1>2 DEF TypeOK, Last
<1>4. IsLessStrictly(c, index)
    BY <1>1, <1>3, OneOrTheOther
<1>5. /\ TypeOK' /\ UidInv' /\ Last' = Last /\ index' \in 1 .. Last'
      /\ \A j \in 1 .. Last :
             m_heap'[j] = IF j = c THEN m_heap[index]
                          ELSE IF j = index THEN m_heap[c] ELSE m_heap[j]
    BY <1>1, <1>3, ExchStep
<1>6. ASSUME ~ removed PROVE SinkingInv'
    <2>1. SinkingInv
        BY <1>1, <1>6
    <2>2. ASSUME NEW i \in 2 .. Last
          PROVE  i \in 1 .. Last /\ Parent(i) \in 1 .. i - 1 /\ Parent(i) \in 1 .. Last
        <3>1. i \in Nat /\ i >= 2 /\ i <= Last
            BY <1>3
        <3>2. Parent(i) \in 1 .. i - 1
            BY <3>1, ParentProperties
        <3> QED
            BY <1>3, <3>1, <3>2
    <2>3. ASSUME NEW i \in 2 .. Last, Parent(i) # c
          PROVE  KeyLess(m_heap'[Parent(i)], m_heap'[i])
        <3>1. CASE i = c
            \* The exchanged pair.
            BY <1>2, <1>3, <1>4, <1>5, <3>1 DEF IsLessStrictly
        <3>2. CASE i # c /\ Parent(i) = index
            \* The sibling of the child that took the place of index.
            <4>1. IsLessStrictly(c, i) /\ i # index
                BY <1>2, <2>2, <3>2
            <4> QED
                BY <1>3, <1>5, <2>2, <3>2, <4>1 DEF IsLessStrictly
        <3>3. CASE i = index
            \* That child, in its new place.
            <4>1. index # Root /\ Parent(index) # index
                BY <2>2, <3>3 DEF Root
            <4>2. IsLessStrictly(Parent(index), c)
                BY <1>2, <2>1, <4>1 DEF SinkingInv, FitsAbove
            <4> QED
                BY <1>3, <1>5, <2>2, <2>3, <3>3, <4>1, <4>2 DEF IsLessStrictly
        <3>4. CASE i # c /\ i # index /\ Parent(i) # index
            <4>1. IsLessStrictly(Parent(i), i)
                BY <2>1, <3>4 DEF SinkingInv, InOrder
            <4> QED
                BY <1>5, <2>2, <2>3, <3>4, <4>1 DEF IsLessStrictly
        <3> QED
            BY <3>1, <3>2, <3>3, <3>4
    <2>4. ASSUME NEW i \in 2 .. Last, Parent(i) = c
          PROVE  KeyLess(m_heap'[Parent(c)], m_heap'[i])
        <3>1. IsLessStrictly(c, i)
            BY <1>3, <2>1, <2>4 DEF SinkingInv, InOrder
        <3>2. i # c /\ i # index
            BY <1>2, <2>2, <2>4
        <3> QED
            BY <1>2, <1>3, <1>5, <2>2, <3>1, <3>2 DEF IsLessStrictly
    <2> QED
        BY <1>1, <1>5, <2>3, <2>4 DEF SinkingInv, InOrder, FitsAbove, IsLessStrictly, Parent
<1> QED
    BY <1>1, <1>5, <1>6 DEF HeapOrdered

LEMMA TopDownReturnsStep ==
    ASSUME IInv, TopDownReturns
    PROVE  IInv'
<1> USE DEF IInv
<1>1. /\ pc = "TopDown" /\ pc' = "ready" /\ ~ Sinks
      /\ UNCHANGED <<m_heap, index, now, m_uid, next, removed>>
    BY DEF TopDownReturns
<1>2. TypeOK' /\ UidInv'
    BY <1>1 DEF TypeOK, UidInv, Distinct, Last
<1>3. ASSUME ~ removed, NEW i \in 2 .. Last
      PROVE  IsLessStrictly(Parent(i), i)
    <2>1. SinkingInv
        BY <1>1, <1>3
    <2>2. CASE Parent(i) # index
        BY <2>1, <2>2 DEF SinkingInv, InOrder
    <2>3. CASE Parent(i) = index
        \* index has a child, so TopDown stopped because index is smaller
        \* than the smallest of its children.
        <3>1. Last \in Nat /\ i \in Nat /\ i >= 2 /\ i <= Last /\ index \in Nat \ {0}
            BY DEF TypeOK, Last
        <3>2. LeftChild(index) <= Last
            <4>1. i = LeftChild(index) \/ i = RightChild(index)
                BY <2>3, <3>1, ParentProperties
            <4> QED
                BY <3>1, <4>1 DEF LeftChild, RightChild
        <3>3. ~ IsBottom(LeftChild(index))
            BY <3>1, <3>2 DEF IsBottom, LeftChild
        <3>4. IsLessStrictly(index, Child)
            BY <1>1, <3>3 DEF Sinks
        <3>5. /\ Child \in 2 .. Last /\ index \in 1 .. Child - 1
              /\ i # Child => IsLessStrictly(Child, i)
            BY <2>3, <3>3, ChildIsSmallest
        <3>6. i \in 1 .. Last /\ index \in 1 .. Last /\ Child \in 1 .. Last
            BY <3>1, <3>5
        <3>7. CASE i = Child
            BY <2>3, <3>4, <3>7
        <3>8. CASE i # Child
            <4> DEFINE c == Child
            <4>1. c \in 1 .. Last /\ IsLessStrictly(index, c) /\ IsLessStrictly(c, i)
                BY <3>4, <3>5, <3>6, <3>8
            <4> HIDE DEF c
            <4>2. IsLessStrictly(index, i)
                BY <3>6, <4>1, OrderTransitive
            <4> QED
                BY <2>3, <4>2
        <3> QED
            BY <3>7, <3>8
    <2> QED
        BY <2>2, <2>3
<1> QED
    BY <1>1, <1>2, <1>3 DEF HeapOrdered, IsLessStrictly, Last

LEMMA Invariance == Spec => []IInv
<1>1. Init => IInv
    BY InitInv
<1>2. IInv /\ [Next]_vars => IInv'
    <2> SUFFICES ASSUME IInv, [Next]_vars PROVE IInv'
        OBVIOUS
    <2>1. ASSUME NEW delay \in Delays, Insert(delay) PROVE IInv'
        BY <2>1, InsertStep
    <2>2. CASE BottomUp
        BY <2>2, BottomUpStep
    <2>3. CASE BottomUpReturns
        BY <2>3, BottomUpReturnsStep
    <2>4. CASE RemoveNext
        BY <2>4, RemoveNextStep
    <2>5. ASSUME NEW uid \in 0 .. MaxEvents - 1, Remove(uid) PROVE IInv'
        BY <2>5, RemoveStep
    <2>6. CASE TopDown
        BY <2>6, TopDownStep
    <2>7. CASE TopDownReturns
        BY <2>7, TopDownReturnsStep
    <2>8. CASE UNCHANGED vars
        BY <2>8 DEF vars, IInv, TypeOK, UidInv, Distinct, HeapOrdered, RisingInv,
                    SinkingInv, InOrder, FitsAbove, IsLessStrictly, Last
    <2> QED
        BY <2>1, <2>2, <2>3, <2>4, <2>5, <2>6, <2>7, <2>8 DEF Next
<1> QED
    BY <1>1, <1>2, PTL DEF Spec

\* What the loops read and exchange are elements of the array: the node that
\* rises and its parent, the node that sinks and those of its children that the
\* array has.
IndicesInside ==
    /\ pc = "BottomUp" /\ ~ IsRoot(index) => {index, Parent(index)} \subseteq 1 .. Last
    /\ pc = "TopDown" /\ ~ IsBottom(LeftChild(index)) =>
           /\ {index, LeftChild(index), Child} \subseteq 1 .. Last
           /\ Child \in {LeftChild(index), RightChild(index)}

\* Every variable of the heap always has its type, and BottomUp and TopDown
\* index the array only where it has elements, also after a Remove.
THEOREM TypeCorrect == Spec => [](TypeOK /\ IndicesInside)
<1>1. IInv => TypeOK
    BY DEF IInv
<1>2. IInv => IndicesInside
    <2> SUFFICES ASSUME IInv PROVE IndicesInside
        OBVIOUS
    <2>1. TypeOK /\ UidInv /\ Last \in Nat /\ index \in Nat \ {0}
        BY DEF IInv, TypeOK, Last
    <2>2. ASSUME pc = "BottomUp", ~ IsRoot(index)
          PROVE  {index, Parent(index)} \subseteq 1 .. Last
        <3>1. index \in 1 .. Last /\ index >= 2
            BY <2>1, <2>2 DEF IInv, IsRoot, Root
        <3>2. Parent(index) \in 1 .. index - 1
            BY <2>1, <3>1, ParentProperties
        <3> QED
            BY <2>1, <3>1, <3>2
    <2>3. ASSUME ~ IsBottom(LeftChild(index))
          PROVE  /\ {index, LeftChild(index), Child} \subseteq 1 .. Last
                 /\ Child \in {LeftChild(index), RightChild(index)}
        <3>1. Child \in 2 .. Last /\ index \in 1 .. Child - 1
            BY <2>1, <2>3, ChildIsSmallest
        <3>2. LeftChild(index) \in 1 .. Last
            BY <2>1, <2>3 DEF IsBottom, LeftChild
        <3>3. Child \in {LeftChild(index), RightChild(index)}
            BY DEF Child, Smallest
        <3> HIDE DEF Child, LeftChild
        <3> QED
            BY <2>1, <3>1, <3>2, <3>3
    <2> QED
        BY <2>2, <2>3 DEF IndicesInside
<1> QED
    BY <1>1, <1>2, Invariance, PTL

\* Whenever no loop of Insert or RemoveNext is running, and Remove was not
\* called yet, no element of the array is smaller than its parent.
THEOREM HeapAlwaysOrdered == Spec => []HeapOrdered
<1>1. IInv => HeapOrdered
    BY DEF IInv
<1> QED
    BY <1>1, Invariance, PTL
-----------------------------------------------------------------------------
(* The contract of Scheduler.                                              *)

\* In a heap the element RemoveNext takes, the first, is the earliest.
LEMMA RootIsEarliest ==
    ASSUME IInv, pc = "ready", ~ removed, ~ IsEmpty
    PROVE  IsEarliest(m_heap[Root], EventsOf(m_heap))
<1> USE DEF IInv
<1>1. /\ m_heap \in Seq(Event) /\ Last \in Nat /\ 1 \in 1 .. Last
      /\ \A i \in 1 .. Last : m_heap[i] \in Event
    <2>1. m_heap \in Seq(Event) /\ Last \in Nat
        BY DEF TypeOK, Last
    <2> QED
        BY <2>1, ElementOfSeq DEF IsEmpty, Last
<1> DEFINE Bad == {i \in 2 .. Last : ~ KeyLess(m_heap[1], m_heap[i])}
<1>2. Bad = {}
    <2> SUFFICES ASSUME Bad # {} PROVE FALSE
        OBVIOUS
    <2>1. Bad \subseteq Nat
        BY <1>1
    <2>2. PICK i \in Bad : \A j \in Bad : i <= j
        <3> HIDE DEF Bad
        <3> QED
            BY <2>1, NatMinimum
    <2>3. i \in Nat /\ i >= 2 /\ i <= Last /\ i \in 1 .. Last
        BY <1>1
    <2>4. Parent(i) \in 1 .. i - 1
        BY <2>3, ParentProperties
    <2>5. KeyLess(m_heap[Parent(i)], m_heap[i])
        BY DEF HeapOrdered
    <2>6. CASE Parent(i) = 1
        BY <2>5, <2>6
    <2>7. CASE Parent(i) # 1
        <3>1. Parent(i) \in 2 .. Last /\ Parent(i) < i /\ Parent(i) \in 1 .. Last
            BY <1>1, <2>3, <2>4, <2>7
        <3>2. KeyLess(m_heap[1], m_heap[Parent(i)])
            BY <2>2, <2>3, <3>1
        <3>3. KeyLess(m_heap[1], m_heap[i])
            BY <1>1, <2>3, <2>5, <3>1, <3>2, KeyLessTransitive
        <3> QED
            BY <3>3
    <2> QED
        BY <2>6, <2>7
<1>3. \A i \in 1 .. Last : i # 1 => KeyLess(m_heap[1], m_heap[i])
    BY <1>1, <1>2
<1> QED
    BY <1>1, <1>3 DEF IsEarliest, EventsOf, Root, Last

\* Taking out the element at i takes its event out of the set.
LEMMA TakeOutEvents ==
    ASSUME IInv, NEW i \in 1 .. Last, TakeOut(i)
    PROVE  EventsOf(m_heap') = EventsOf(m_heap) \ {m_heap[i]}
<1>1. /\ m_heap \in Seq(Event) /\ i \in 1 .. Len(m_heap) /\ Distinct(m_heap)
      /\ m_heap' = PopBack(Exch(m_heap, i, Len(m_heap)))
    BY DEF IInv, TypeOK, UidInv, TakeOut, Last
<1> QED
    BY <1>1, EventsOfTakeOut

LEMMA InsertContract ==
    ASSUME IInv, NEW delay \in Delays, Insert(delay)
    PROVE  Contract!InsertSome
<1> DEFINE new == [ts |-> now + delay, uid |-> m_uid]
<1>1. /\ m_heap \in Seq(Event) /\ Len(m_heap) \in Nat /\ m_uid \in Nat
      /\ new \in Event /\ new.uid = m_uid
      /\ m_heap' = Append(m_heap, new) /\ next' = next
    BY DelaysAssumption DEF IInv, TypeOK, Event, Insert
<1> HIDE DEF new
<1>2. /\ Len(m_heap') = Len(m_heap) + 1
      /\ \A i \in 1 .. Len(m_heap) : m_heap'[i] = m_heap[i]
      /\ m_heap'[Len(m_heap) + 1] = new
    BY <1>1, AppendProperties
<1>3. EventsOf(m_heap') = EventsOf(m_heap) \cup {new}
    <2>1. \A i \in 1 .. Len(m_heap') : i \in 1 .. Len(m_heap) \/ i = Len(m_heap) + 1
        BY <1>1, <1>2
    <2>2. 1 .. Len(m_heap) \subseteq 1 .. Len(m_heap')
          /\ Len(m_heap) + 1 \in 1 .. Len(m_heap')
        BY <1>1, <1>2
    <2> QED
        BY <1>2, <2>1, <2>2 DEF EventsOf
<1>4. \A e \in EventsOf(m_heap) : e.uid # new.uid
    <2> SUFFICES ASSUME NEW i \in 1 .. Len(m_heap) PROVE m_heap[i].uid # m_uid
        BY <1>1 DEF EventsOf
    <2>1. m_heap[i] \in Event /\ m_heap[i].uid < m_uid
        BY <1>1, ElementOfSeq DEF IInv, UidInv, Last
    <2> QED
        BY <1>1, <2>1 DEF Event
<1>5. new \in EventsOf(m_heap') \ EventsOf(m_heap)
    BY <1>3, <1>4
<1> QED
    BY <1>1, <1>3, <1>4, <1>5 DEF Contract!InsertSome, Contract!Insert

\* What RemoveNext does while the array is a heap.
LEMMA RemoveNextContract ==
    ASSUME IInv, RemoveNext, ~ removed
    PROVE  Contract!RemoveNext
<1>1. pc = "ready" /\ ~ IsEmpty /\ TakeOut(Root) /\ next' = m_heap[Root]
    BY DEF RemoveNext
<1>2. Root \in 1 .. Last
    BY <1>1 DEF IInv, TypeOK, Last, IsEmpty, Root
<1>3. IsEarliest(m_heap[Root], EventsOf(m_heap))
    BY <1>1, RootIsEarliest
<1> DEFINE root == Root
<1>4. root \in 1 .. Last /\ TakeOut(root) /\ next' = m_heap[root]
      /\ IsEarliest(m_heap[root], EventsOf(m_heap))
    BY <1>1, <1>2, <1>3
<1> HIDE DEF root
<1>5. EventsOf(m_heap') = EventsOf(m_heap) \ {m_heap[root]}
    BY <1>4, TakeOutEvents
<1>6. m_heap[root] \in EventsOf(m_heap)
    BY <1>4 DEF EventsOf, Last
<1> QED
    BY <1>4, <1>5, <1>6
    DEF Contract!RemoveNext, Contract!IsEmpty, IsEarliest, Contract!IsEarliest,
        KeyLess, Contract!KeyLess

\* What RemoveNext does even when the array is no heap.
LEMMA RemoveAnyContract ==
    ASSUME IInv, RemoveNext
    PROVE  Contract!RemoveAny
<1>1. ~ IsEmpty /\ TakeOut(Root) /\ next' = m_heap[Root]
    BY DEF RemoveNext
<1>2. Root \in 1 .. Last
    BY <1>1 DEF IInv, TypeOK, Last, IsEmpty, Root
<1> DEFINE root == Root
<1>4. root \in 1 .. Last /\ TakeOut(root) /\ next' = m_heap[root]
    BY <1>1, <1>2
<1> HIDE DEF root
<1>5. EventsOf(m_heap') = EventsOf(m_heap) \ {m_heap[root]}
    BY <1>4, TakeOutEvents
<1>6. m_heap[root] \in EventsOf(m_heap)
    BY <1>4 DEF EventsOf, Last
<1> QED
    BY <1>4, <1>5, <1>6 DEF Contract!RemoveAny, Contract!IsEmpty

LEMMA RemoveContract ==
    ASSUME IInv, NEW uid, Remove(uid)
    PROVE  Contract!RemoveSome
<1>1. PICK i \in 1 .. Last : TakeOut(i)
    BY DEF Remove
<1>2. EventsOf(m_heap') = EventsOf(m_heap) \ {m_heap[i]}
    BY <1>1, TakeOutEvents
<1>3. m_heap[i] \in EventsOf(m_heap) /\ next' = next
    BY DEF EventsOf, Last, Remove
<1> QED
    BY <1>2, <1>3 DEF Contract!RemoveSome, Contract!Remove

\* The loops only move the events.
LEMMA LoopsContract ==
    ASSUME IInv, BottomUp \/ BottomUpReturns \/ TopDown \/ TopDownReturns
    PROVE  UNCHANGED Contract!vars
<1>1. next' = next
    BY DEF BottomUp, BottomUpReturns, TopDown, TopDownReturns
<1>2. EventsOf(m_heap') = EventsOf(m_heap)
    <2>1. CASE BottomUp
        <3> DEFINE a == index
                   b == Parent(index)
        <3>1. m_heap \in Seq(Event) /\ m_heap' = Exch(m_heap, a, b)
            BY <2>1 DEF IInv, TypeOK, BottomUp
        <3>2. Last \in Nat /\ a \in Nat /\ a >= 2 /\ a <= Last
            BY <2>1 DEF IInv, TypeOK, BottomUp, Rises, IsRoot, Root, Last
        <3>3. b \in 1 .. a - 1
            BY <3>2, ParentProperties
        <3> HIDE DEF a, b
        <3>4. a \in 1 .. Len(m_heap) /\ b \in 1 .. Len(m_heap)
            BY <3>2, <3>3 DEF Last
        <3> QED
            BY <3>1, <3>4, EventsOfExch
    <2>2. CASE TopDown
        <3> DEFINE a == index
                   b == Child
        <3>1. m_heap \in Seq(Event) /\ m_heap' = Exch(m_heap, a, b)
            BY <2>2 DEF IInv, TypeOK, TopDown
        <3>2. b \in 2 .. Last /\ a \in 1 .. b - 1
            BY <2>2, ChildIsSmallest DEF IInv, TopDown, Sinks
        <3> HIDE DEF a, b
        <3>3. a \in 1 .. Len(m_heap) /\ b \in 1 .. Len(m_heap)
            BY <3>1, <3>2 DEF Last
        <3> QED
            BY <3>1, <3>3, EventsOfExch
    <2>3. CASE BottomUpReturns \/ TopDownReturns
        BY <2>3 DEF BottomUpReturns, TopDownReturns
    <2> QED
        BY <2>1, <2>2, <2>3
<1> QED
    BY <1>1, <1>2 DEF Contract!vars

LEMMA InitContract == Init => Contract!Init
<1> SUFFICES ASSUME Init PROVE EventsOf(m_heap) = {} /\ next = << >>
    BY DEF Contract!Init
<1>1. Len(m_heap) = 0
    BY EmptySeq DEF Init
<1> QED
    BY <1>1 DEF EventsOf, Init

\* With Remove too, every step of the heap has the effect of the contract's
\* operation on the set of events: none is lost, repeated or invented.
THEOREM KeepsEventsCorrect == Spec => KeepsEvents
<1>1. ASSUME IInv, [Next]_vars PROVE [Contract!NextBag]_(Contract!vars)
    <2>1. ASSUME NEW delay \in Delays, Insert(delay) PROVE Contract!NextBag
        BY <1>1, <2>1, InsertContract DEF Contract!NextBag
    <2>2. CASE RemoveNext
        BY <1>1, <2>2, RemoveAnyContract DEF Contract!NextBag
    <2>3. ASSUME NEW uid \in 0 .. MaxEvents - 1, Remove(uid) PROVE Contract!NextBag
        BY <1>1, <2>3, RemoveContract DEF Contract!NextBag
    <2>4. CASE BottomUp \/ BottomUpReturns \/ TopDown \/ TopDownReturns
        BY <1>1, <2>4, LoopsContract
    <2>5. CASE UNCHANGED vars
        BY <2>5 DEF vars, Contract!vars
    <2> QED
        BY <1>1, <2>1, <2>2, <2>3, <2>4, <2>5 DEF Next
<1> QED
    BY <1>1, InitContract, Invariance, PTL DEF Spec, KeepsEvents, Contract!BagSpec

\* Until the first Remove the heap implements Scheduler: RemoveNext returns
\* the earliest event of the list, whatever was inserted and taken before.
THEOREM KeepsContractUntilRemoveCorrect == Spec => KeepsContractUntilRemove
<1>1. ASSUME IInv, [Next]_vars PROVE [removed \/ Contract!Next]_(Contract!vars)
    <2>1. ASSUME NEW delay \in Delays, Insert(delay) PROVE Contract!Next
        BY <1>1, <2>1, InsertContract DEF Contract!Next
    <2>2. ASSUME RemoveNext, ~ removed PROVE Contract!Next
        BY <1>1, <2>2, RemoveNextContract DEF Contract!Next
    <2>3. ASSUME NEW uid \in 0 .. MaxEvents - 1, Remove(uid) PROVE Contract!Next
        BY <1>1, <2>3, RemoveContract DEF Contract!Next
    <2>4. CASE BottomUp \/ BottomUpReturns \/ TopDown \/ TopDownReturns
        BY <1>1, <2>4, LoopsContract
    <2>5. CASE UNCHANGED vars
        BY <2>5 DEF vars, Contract!vars
    <2> QED
        BY <1>1, <2>1, <2>2, <2>3, <2>4, <2>5 DEF Next
<1> QED
    BY <1>1, InitContract, Invariance, PTL DEF Spec, KeepsContractUntilRemove
-----------------------------------------------------------------------------
(* Arithmetic: days, years and integers that wrap around.                  *)

\* The quotient is the day that contains a.
LEMMA DivIsFloor ==
    ASSUME NEW a \in Nat, NEW w \in Nat \ {0}
    PROVE  /\ a \div w \in Nat
           /\ (a \div w) * w <= a
           /\ a < (a \div w + 1) * w
OBVIOUS

LEMMA ProductNat ==
    ASSUME NEW a \in Nat, NEW b \in Nat
    PROVE  a * b \in Nat
OBVIOUS

LEMMA ProductMonotonic ==
    ASSUME NEW a \in Nat, NEW b \in Nat, NEW w \in Nat, a <= b
    PROVE  a * w <= b * w
OBVIOUS

LEMMA DivMonotonic ==
    ASSUME NEW a \in Nat, NEW b \in Nat, NEW w \in Nat \ {0}, a <= b
    PROVE  a \div w <= b \div w
OBVIOUS

LEMMA ModRange ==
    ASSUME NEW a \in Nat, NEW n \in Nat \ {0}
    PROVE  a % n \in 0 .. n - 1 /\ a % n <= a /\ (a < n => a % n = a)
OBVIOUS

\* A number is so many whole years and the rest of one.
LEMMA DivMod ==
    ASSUME NEW a \in Nat, NEW n \in Nat \ {0}
    PROVE  \E q \in Nat : \E r \in 0 .. n - 1 : a = q * n + r /\ a % n = r
<1>1. a \div n \in Nat /\ a % n \in 0 .. n - 1 /\ a = (a \div n) * n + (a % n)
    OBVIOUS
<1> QED
    BY <1>1

LEMMA Distribute ==
    ASSUME NEW p \in Int, NEW q \in Int, NEW n \in Nat
    PROVE  p * n + q * n = (p + q) * n
OBVIOUS

\* Whole years and rest are unique.
LEMMA QuotientUnique ==
    ASSUME NEW n \in Nat \ {0}, NEW p \in Nat, NEW q \in Nat,
           NEW r \in 0 .. n - 1, NEW s \in 0 .. n - 1, p * n + r = q * n + s
    PROVE  p = q /\ r = s
<1>1. ASSUME NEW x \in Nat, NEW y \in Nat, NEW u \in 0 .. n - 1, NEW v \in 0 .. n - 1,
             x * n + u = y * n + v
      PROVE  ~ (x < y)
    <2>1. x * n \in Int /\ y * n \in Int /\ (x + 1) * n \in Int
        OBVIOUS
    <2>2. x * n + n = (x + 1) * n
        OBVIOUS
    <2>3. x < y => (x + 1) * n <= y * n
        BY ProductMonotonic
    <2>4. u < n /\ 0 <= v /\ u \in Int /\ v \in Int
        OBVIOUS
    <2> QED
        BY <1>1, <2>1, <2>2, <2>3, <2>4
<1>2. p = q
    BY <1>1
<1> QED
    BY <1>2

\* Wrapping a sum once or twice is the same.
LEMMA ModAdd ==
    ASSUME NEW a \in Nat, NEW b \in Nat, NEW n \in Nat \ {0}
    PROVE  ((a % n) + b) % n = (a + b) % n
<1>1. PICK q \in Nat : \E r \in 0 .. n - 1 : a = q * n + r /\ a % n = r
    BY DivMod
<1>2. PICK r \in 0 .. n - 1 : a = q * n + r /\ a % n = r
    BY <1>1
<1>3. r + b \in Nat /\ a + b \in Nat
    OBVIOUS
<1>4. PICK p \in Nat : \E s \in 0 .. n - 1 : r + b = p * n + s /\ (r + b) % n = s
    BY <1>3, DivMod
<1>5. PICK s \in 0 .. n - 1 : r + b = p * n + s /\ (r + b) % n = s
    BY <1>4
<1>6. PICK x \in Nat : \E t \in 0 .. n - 1 : a + b = x * n + t /\ (a + b) % n = t
    BY <1>3, DivMod
<1>7. PICK t \in 0 .. n - 1 : a + b = x * n + t /\ (a + b) % n = t
    BY <1>6
<1>8. q * n \in Nat /\ p * n \in Nat /\ p + q \in Nat /\ p * n + q * n = (p + q) * n
    BY ProductNat, Distribute
<1>9. (p + q) * n + s = x * n + t
    <2> HIDE <1>1, <1>4, <1>6
    <2>1. a + b = q * n + (r + b)
        BY <1>2, <1>8
    <2>2. q * n + (p * n + s) = (p + q) * n + s
        BY <1>8
    <2>3. a + b = (p + q) * n + s
        BY <2>1, <2>2, <1>5
    <2> QED
        BY <2>3, <1>7
<1>10. s = t
    BY <1>8, <1>9, QuotientUnique
<1> QED
    BY <1>2, <1>5, <1>7, <1>10

\* Within a year no two turns reach one bucket.
LEMMA ModInjective ==
    ASSUME NEW a \in Nat, NEW k \in Nat, NEW n \in Nat \ {0}, k < n,
           (a + k) % n = a % n
    PROVE  k = 0
<1>1. PICK q \in Nat : \E r \in 0 .. n - 1 : a = q * n + r /\ a % n = r
    BY DivMod
<1>2. PICK r \in 0 .. n - 1 : a = q * n + r /\ a % n = r
    BY <1>1
<1>3. a + k \in Nat
    OBVIOUS
<1>4. PICK p \in Nat : \E s \in 0 .. n - 1 : a + k = p * n + s /\ (a + k) % n = s
    BY <1>3, DivMod
<1>5. a + k = p * n + r
    BY <1>2, <1>4
<1>6. q * n \in Nat /\ p * n \in Nat /\ 0 \in 0 .. n - 1 /\ k \in 0 .. n - 1
    BY ProductNat
<1>7. p * n + 0 = q * n + k
    BY <1>2, <1>5, <1>6
<1> QED
    BY <1>6, <1>7, QuotientUnique

\* Within a year some turn reaches every bucket.
LEMMA ModSurjective ==
    ASSUME NEW l \in Nat, NEW i \in Nat, NEW n \in Nat \ {0}, l < n, i < n
    PROVE  \E t \in 0 .. n - 1 : (l + t) % n = i
<1>1. CASE l <= i
    <2>1. i - l \in 0 .. n - 1 /\ l + (i - l) = i /\ i % n = i
        BY <1>1, ModRange
    <2> QED
        BY <2>1
<1>2. CASE i < l
    <2>1. n - l + i \in 0 .. n - 1 /\ l + (n - l + i) = n + i
        BY <1>2
    <2>2. ((n % n) + i) % n = (n + i) % n
        BY ModAdd
    <2>3. n % n = 0 /\ i % n = i
        BY ModRange
    <2> QED
        BY <2>1, <2>2, <2>3
<1> QED
    BY <1>1, <1>2
-----------------------------------------------------------------------------
(* The order of events, and sequences with one element more or less.       *)

\* Min of the community modules, for sets of numbers.
LEMMA MinIsLeast ==
    ASSUME NEW S, S \subseteq Nat, S # {}
    PROVE  Cal!Min(S) \in S /\ \A x \in S : Cal!Min(S) <= x
BY NatMinimum DEF Cal!Min

\* The order of a bucket, reversed or not, is strict, and total on uids.
LEMMA OrderIsStrict ==
    ASSUME NEW a \in Cal!Event, NEW b \in Cal!Event
    PROVE  /\ Cal!Order(a, b) \/ Cal!Order(b, a) \/ a.uid = b.uid
           /\ ~ (Cal!Order(a, b) /\ Cal!Order(b, a))
BY DEF Cal!Order, Cal!KeyLess, Cal!Event

LEMMA OrderIsTransitive ==
    ASSUME NEW a \in Cal!Event, NEW b \in Cal!Event, NEW c \in Cal!Event, Cal!Order(a, b), Cal!Order(b, c)
    PROVE  Cal!Order(a, c)
BY DEF Cal!Order, Cal!KeyLess, Cal!Event

\* From one end of a bucket to the other.
Sorted(bucket) == \A j, k \in DOMAIN bucket : j < k => Cal!Order(bucket[j], bucket[k])

\* InsertAt, element by element.
LEMMA SplicedIn ==
    ASSUME NEW bucket \in Seq(Cal!Event), NEW ev \in Cal!Event, NEW at \in 1 .. Len(bucket) + 1
    PROVE  LET new == Cal!InsertAt(bucket, at, ev) IN
           /\ new \in Seq(Cal!Event)
           /\ Len(new) = Len(bucket) + 1
           /\ \A i \in 1 .. Len(new) :
                  new[i] = IF i < at THEN bucket[i]
                           ELSE IF i = at THEN ev ELSE bucket[i - 1]
<1> DEFINE front == SubSeq(bucket, 1, at - 1)
           back  == SubSeq(bucket, at, Len(bucket))
<1>1. /\ front \in Seq(Cal!Event) /\ Len(front) = at - 1
      /\ \A i \in 1 .. at - 1 : front[i] = bucket[i]
    BY SubSeqProperties
<1>2. /\ back \in Seq(Cal!Event) /\ Len(back) = Len(bucket) - at + 1
      /\ \A i \in 1 .. Len(bucket) - at + 1 : back[i] = bucket[i + at - 1]
    BY SubSeqProperties
<1>3. <<ev>> \in Seq(Cal!Event) /\ Len(<<ev>>) = 1 /\ <<ev>>[1] = ev
    OBVIOUS
<1> HIDE DEF front, back
<1> DEFINE head == front \o <<ev>>
<1>4. /\ head \in Seq(Cal!Event) /\ Len(head) = at
      /\ \A i \in 1 .. at : head[i] = IF i < at THEN bucket[i] ELSE ev
    BY <1>1, <1>3
<1> HIDE DEF head
<1>5. /\ head \o back \in Seq(Cal!Event) /\ Len(head \o back) = Len(bucket) + 1
      /\ \A i \in 1 .. Len(bucket) + 1 :
            (head \o back)[i] = IF i <= at THEN head[i] ELSE back[i - at]
    <2>1. Len(head) = at /\ Len(back) = Len(bucket) - at + 1
        BY <1>2, <1>4
    <2>2. Len(bucket) \in Nat /\ at \in Nat
        OBVIOUS
    <2>3. Len(head \o back) = Len(head) + Len(back) /\ head \o back \in Seq(Cal!Event)
        BY <1>2, <1>4, ConcatProperties
    <2>4. Len(head) + Len(back) = Len(bucket) + 1
        BY <2>1, <2>2
    <2>5. \A i \in 1 .. Len(head) + Len(back) :
              (head \o back)[i] = IF i <= Len(head) THEN head[i] ELSE back[i - Len(head)]
        BY <1>2, <1>4, ConcatProperties
    <2> QED
        BY <2>1, <2>3, <2>4, <2>5
<1>6. Cal!InsertAt(bucket, at, ev) = head \o back
    BY DEF Cal!InsertAt, head, front, back
<1>7. \A i \in 1 .. Len(bucket) + 1 : i > at => back[i - at] = bucket[i - 1]
    BY <1>2
<1> QED
    BY <1>4, <1>5, <1>6, <1>7

\* RemoveAt, element by element.
LEMMA TakenOut ==
    ASSUME NEW bucket \in Seq(Cal!Event), NEW at \in 1 .. Len(bucket)
    PROVE  LET new == Cal!RemoveAt(bucket, at) IN
           /\ new \in Seq(Cal!Event)
           /\ Len(new) = Len(bucket) - 1
           /\ \A i \in 1 .. Len(new) : new[i] = IF i < at THEN bucket[i] ELSE bucket[i + 1]
<1> DEFINE front == SubSeq(bucket, 1, at - 1)
           back  == SubSeq(bucket, at + 1, Len(bucket))
<1>1. /\ front \in Seq(Cal!Event) /\ Len(front) = at - 1
      /\ \A i \in 1 .. at - 1 : front[i] = bucket[i]
    BY SubSeqProperties
<1>2. /\ back \in Seq(Cal!Event) /\ Len(back) = Len(bucket) - at
      /\ \A i \in 1 .. Len(bucket) - at : back[i] = bucket[i + at]
    BY SubSeqProperties
<1> HIDE DEF front, back
<1>3. /\ front \o back \in Seq(Cal!Event) /\ Len(front \o back) = Len(bucket) - 1
      /\ \A i \in 1 .. Len(bucket) - 1 :
            (front \o back)[i] = IF i <= at - 1 THEN front[i] ELSE back[i - (at - 1)]
    <2>1. Len(front) = at - 1 /\ Len(back) = Len(bucket) - at
        BY <1>1, <1>2
    <2>2. Len(bucket) \in Nat /\ at \in Nat
        OBVIOUS
    <2>3. Len(front \o back) = Len(front) + Len(back) /\ front \o back \in Seq(Cal!Event)
        BY <1>1, <1>2, ConcatProperties
    <2>4. Len(front) + Len(back) = Len(bucket) - 1
        BY <2>1, <2>2
    <2>5. \A i \in 1 .. Len(front) + Len(back) :
              (front \o back)[i] = IF i <= Len(front) THEN front[i] ELSE back[i - Len(front)]
        BY <1>1, <1>2, ConcatProperties
    <2> QED
        BY <2>1, <2>3, <2>4, <2>5
<1>4. Cal!RemoveAt(bucket, at) = front \o back
    BY DEF Cal!RemoveAt, front, back
<1>5. ASSUME NEW i \in 1 .. Len(bucket) - 1
      PROVE  (front \o back)[i] = IF i < at THEN bucket[i] ELSE bucket[i + 1]
    <2>1. CASE i < at
        BY <1>1, <1>3, <2>1
    <2>2. CASE ~ (i < at)
        <3>1. i - (at - 1) \in 1 .. Len(bucket) - at /\ i - (at - 1) + at = i + 1
            BY <2>2
        <3>2. back[i - (at - 1)] = bucket[i + 1]
            BY <1>2, <3>1
        <3> QED
            BY <1>3, <2>2, <3>2
    <2> QED
        BY <2>1, <2>2
<1> QED
    BY <1>3, <1>4, <1>5
-----------------------------------------------------------------------------
(* A bucket stays sorted.                                                  *)

\* A sequence with ev placed between the smaller and the greater elements.
LEMMA PlacedInOrder ==
    ASSUME NEW bucket \in Seq(Cal!Event), NEW ev \in Cal!Event, NEW at \in 1 .. Len(bucket) + 1,
           NEW new \in Seq(Cal!Event), Len(new) = Len(bucket) + 1,
           \A i \in 1 .. Len(new) : new[i] = IF i < at THEN bucket[i]
                                             ELSE IF i = at THEN ev ELSE bucket[i - 1],
           Sorted(bucket),
           \A i \in 1 .. Len(bucket) : IF i < at THEN Cal!Order(bucket[i], ev)
                                                 ELSE Cal!Order(ev, bucket[i])
    PROVE  Sorted(new) /\ Cal!ToSet(new) = Cal!ToSet(bucket) \cup {ev}
<1>1. DOMAIN bucket = 1 .. Len(bucket) /\ DOMAIN new = 1 .. Len(bucket) + 1
      /\ Len(bucket) \in Nat
    OBVIOUS
<1>2. ASSUME NEW j \in DOMAIN new, NEW k \in DOMAIN new, j < k
      PROVE  Cal!Order(new[j], new[k])
    <2>1. CASE k < at
        BY <1>1, <1>2, <2>1 DEF Sorted
    <2>2. CASE k = at
        BY <1>1, <1>2, <2>2
    <2>3. CASE k > at /\ j < at
        <3>1. j < k - 1 /\ j \in 1 .. Len(bucket) /\ k - 1 \in 1 .. Len(bucket)
            BY <1>1, <1>2, <2>3
        <3>2. new[j] = bucket[j] /\ new[k] = bucket[k - 1]
            BY <1>1, <2>3
        <3> QED
            BY <1>1, <3>1, <3>2 DEF Sorted
    <2>4. CASE k > at /\ j = at
        <3>1. k - 1 \in 1 .. Len(bucket) /\ ~ (k - 1 < at)
            BY <1>1, <1>2, <2>4
        <3>2. new[j] = ev /\ new[k] = bucket[k - 1]
            BY <1>1, <2>4
        <3> QED
            BY <3>1, <3>2
    <2>5. CASE j > at
        <3>1. j - 1 < k - 1 /\ j - 1 \in 1 .. Len(bucket) /\ k - 1 \in 1 .. Len(bucket)
            BY <1>1, <1>2, <2>5
        <3>2. new[j] = bucket[j - 1] /\ new[k] = bucket[k - 1]
            BY <1>1, <1>2, <2>5
        <3> QED
            BY <1>1, <3>1, <3>2 DEF Sorted
    <2> QED
        BY <1>1, <2>1, <2>2, <2>3, <2>4, <2>5
<1>3. ASSUME NEW i \in DOMAIN new PROVE new[i] \in Cal!ToSet(bucket) \cup {ev}
    <2>1. CASE i < at
        <3>1. new[i] = bucket[i] /\ i \in DOMAIN bucket
            BY <1>1, <2>1
        <3> QED
            BY <3>1 DEF Cal!ToSet
    <2>2. CASE i = at
        BY <1>1, <2>2
    <2>3. CASE i > at
        <3>1. new[i] = bucket[i - 1] /\ i - 1 \in DOMAIN bucket
            BY <1>1, <2>3
        <3> QED
            BY <3>1 DEF Cal!ToSet
    <2> QED
        BY <1>1, <2>1, <2>2, <2>3
<1>4. ASSUME NEW i \in DOMAIN bucket PROVE \E j \in DOMAIN new : new[j] = bucket[i]
    <2>1. CASE i < at
        BY <1>1, <2>1
    <2>2. CASE ~ (i < at)
        <3>1. i + 1 \in DOMAIN new /\ ~ (i + 1 < at) /\ i + 1 # at /\ i + 1 - 1 = i
            BY <1>1, <2>2
        <3>2. new[i + 1] = bucket[i]
            BY <1>1, <3>1
        <3> QED
            BY <3>1, <3>2
    <2> QED
        BY <2>1, <2>2
<1>5. at \in DOMAIN new /\ new[at] = ev
    BY <1>1
<1>6. Cal!ToSet(new) = Cal!ToSet(bucket) \cup {ev}
    BY <1>3, <1>4, <1>5 DEF Cal!ToSet
<1> QED
    BY <1>2, <1>6 DEF Sorted

\* DoInsert leaves the bucket sorted, with one event more.
LEMMA InBucketKeeps ==
    ASSUME NEW bucket \in Seq(Cal!Event), NEW ev \in Cal!Event, Sorted(bucket),
           \A e \in Cal!ToSet(bucket) : e.uid # ev.uid
    PROVE  /\ Cal!InBucket(bucket, ev) \in Seq(Cal!Event)
           /\ Sorted(Cal!InBucket(bucket, ev))
           /\ Cal!ToSet(Cal!InBucket(bucket, ev)) = Cal!ToSet(bucket) \cup {ev}
<1> DEFINE later == {i \in 1 .. Len(bucket) : Cal!Order(ev, bucket[i])}
           at    == IF later = {} THEN Len(bucket) + 1 ELSE Cal!Min(later)
<1>1. Len(bucket) \in Nat /\ DOMAIN bucket = 1 .. Len(bucket)
      /\ \A i \in 1 .. Len(bucket) : bucket[i] \in Cal!Event /\ bucket[i].uid # ev.uid
    BY DEF Cal!ToSet
<1>2. later # {} => Cal!Min(later) \in later /\ \A i \in later : Cal!Min(later) <= i
    <2>1. later \subseteq Nat
        OBVIOUS
    <2> HIDE DEF later
    <2> QED
        BY <2>1, MinIsLeast
<1>3. at \in 1 .. Len(bucket) + 1
    BY <1>1, <1>2
<1>4. Cal!InBucket(bucket, ev) = IF later = {} THEN Append(bucket, ev) ELSE Cal!InsertAt(bucket, at, ev)
    BY <1>2 DEF Cal!InBucket, Cal!SelectInSeq
<1>5. ASSUME NEW i \in 1 .. Len(bucket)
      PROVE  IF i < at THEN Cal!Order(bucket[i], ev) ELSE Cal!Order(ev, bucket[i])
    <2>1. CASE i < at
        <3>1. i \notin later
            BY <1>2, <2>1
        <3> QED
            BY <1>1, <2>1, <3>1, OrderIsStrict
    <2>2. CASE ~ (i < at)
        <3>1. later # {} /\ at = Cal!Min(later) /\ at \in 1 .. Len(bucket)
              /\ Cal!Order(ev, bucket[at])
            BY <1>1, <1>2, <2>2
        <3>2. at = i \/ at < i
            BY <1>3, <2>2
        <3>3. at < i => Cal!Order(bucket[at], bucket[i])
            BY <1>1, <3>1 DEF Sorted
        <3> HIDE DEF at
        <3> QED
            BY <1>1, <2>2, <3>1, <3>2, <3>3, OrderIsTransitive
    <2> QED
        BY <2>1, <2>2
<1> HIDE DEF at, later
<1>6. CASE later = {}
    <2> DEFINE new == Append(bucket, ev)
    <2>1. at = Len(bucket) + 1
        BY <1>6 DEF at
    <2>2. new \in Seq(Cal!Event) /\ Len(new) = Len(bucket) + 1
          /\ \A i \in 1 .. Len(bucket) + 1 : new[i] = IF i <= Len(bucket) THEN bucket[i] ELSE ev
        OBVIOUS
    <2>3. new = Cal!InBucket(bucket, ev)
        BY <1>4, <1>6
    <2> HIDE DEF new
    <2>4. \A i \in 1 .. Len(new) : new[i] = IF i < at THEN bucket[i]
                                            ELSE IF i = at THEN ev ELSE bucket[i - 1]
        BY <1>1, <2>1, <2>2
    <2>5. Sorted(new) /\ Cal!ToSet(new) = Cal!ToSet(bucket) \cup {ev}
        BY <1>3, <1>5, <2>2, <2>4, PlacedInOrder
    <2> QED
        BY <2>2, <2>3, <2>5
<1>7. CASE later # {}
    <2> DEFINE new == Cal!InsertAt(bucket, at, ev)
    <2>1. /\ new \in Seq(Cal!Event) /\ Len(new) = Len(bucket) + 1
          /\ \A i \in 1 .. Len(new) : new[i] = IF i < at THEN bucket[i]
                                               ELSE IF i = at THEN ev ELSE bucket[i - 1]
        BY <1>3, SplicedIn
    <2>2. new = Cal!InBucket(bucket, ev)
        BY <1>4, <1>7
    <2> HIDE DEF new
    <2>3. Sorted(new) /\ Cal!ToSet(new) = Cal!ToSet(bucket) \cup {ev}
        BY <1>3, <1>5, <2>1, PlacedInOrder
    <2> QED
        BY <2>1, <2>2, <2>3
<1> QED
    BY <1>6, <1>7

\* No event is in a sorted bucket twice.
LEMMA SortedIsInjective ==
    ASSUME NEW bucket \in Seq(Cal!Event), Sorted(bucket), NEW i \in DOMAIN bucket,
           NEW j \in DOMAIN bucket, bucket[i] = bucket[j]
    PROVE  i = j
<1>1. i \in Nat /\ j \in Nat /\ bucket[i] \in Cal!Event /\ bucket[j] \in Cal!Event
    OBVIOUS
<1>2. ~ Cal!Order(bucket[i], bucket[j]) /\ ~ Cal!Order(bucket[j], bucket[i])
    BY <1>1, OrderIsStrict
<1>3. ~ (i < j) /\ ~ (j < i)
    BY <1>2 DEF Sorted
<1> QED
    BY <1>1, <1>3

\* Remove leaves the bucket sorted, without the event.
LEMMA RemoveAtKeeps ==
    ASSUME NEW bucket \in Seq(Cal!Event), Sorted(bucket), NEW at \in 1 .. Len(bucket)
    PROVE  /\ Cal!RemoveAt(bucket, at) \in Seq(Cal!Event)
           /\ Sorted(Cal!RemoveAt(bucket, at))
           /\ Cal!ToSet(Cal!RemoveAt(bucket, at)) = Cal!ToSet(bucket) \ {bucket[at]}
<1> DEFINE new == Cal!RemoveAt(bucket, at)
<1>1. /\ new \in Seq(Cal!Event) /\ Len(new) = Len(bucket) - 1
      /\ \A i \in 1 .. Len(new) : new[i] = IF i < at THEN bucket[i] ELSE bucket[i + 1]
    BY TakenOut
<1> HIDE DEF new
<1>2. DOMAIN bucket = 1 .. Len(bucket) /\ DOMAIN new = 1 .. Len(bucket) - 1
      /\ Len(bucket) \in Nat
    BY <1>1
<1>3. ASSUME NEW j \in DOMAIN new, NEW k \in DOMAIN new, j < k
      PROVE  Cal!Order(new[j], new[k])
    <2>1. CASE k < at
        <3>1. new[j] = bucket[j] /\ new[k] = bucket[k] /\ j \in DOMAIN bucket
              /\ k \in DOMAIN bucket
            BY <1>1, <1>2, <1>3, <2>1
        <3> QED
            BY <1>3, <3>1 DEF Sorted
    <2>2. CASE ~ (k < at) /\ j < at
        <3>1. new[j] = bucket[j] /\ new[k] = bucket[k + 1] /\ j < k + 1
              /\ j \in DOMAIN bucket /\ k + 1 \in DOMAIN bucket
            BY <1>1, <1>2, <1>3, <2>2
        <3> QED
            BY <1>3, <3>1 DEF Sorted
    <2>3. CASE ~ (j < at)
        <3>1. new[j] = bucket[j + 1] /\ new[k] = bucket[k + 1] /\ j + 1 < k + 1
              /\ j + 1 \in DOMAIN bucket /\ k + 1 \in DOMAIN bucket
            BY <1>1, <1>2, <1>3, <2>3
        <3> QED
            BY <1>3, <3>1 DEF Sorted
    <2> QED
        BY <2>1, <2>2, <2>3
<1>4. ASSUME NEW i \in DOMAIN new PROVE new[i] \in Cal!ToSet(bucket) \ {bucket[at]}
    <2>1. CASE i < at
        <3>1. new[i] = bucket[i] /\ i \in DOMAIN bucket /\ i # at /\ at \in DOMAIN bucket
            BY <1>1, <1>2, <2>1
        <3> QED
            BY <3>1, SortedIsInjective DEF Cal!ToSet
    <2>2. CASE ~ (i < at)
        <3>1. new[i] = bucket[i + 1] /\ i + 1 \in DOMAIN bucket /\ i + 1 # at
              /\ at \in DOMAIN bucket
            BY <1>1, <1>2, <2>2
        <3> QED
            BY <3>1, SortedIsInjective DEF Cal!ToSet
    <2> QED
        BY <2>1, <2>2
<1>5. ASSUME NEW i \in DOMAIN bucket, bucket[i] # bucket[at]
      PROVE  \E j \in DOMAIN new : new[j] = bucket[i]
    <2>1. CASE i < at
        BY <1>1, <1>2, <2>1
    <2>2. CASE i > at
        <3>1. i - 1 \in DOMAIN new /\ ~ (i - 1 < at) /\ i - 1 + 1 = i
            BY <1>2, <2>2
        <3>2. new[i - 1] = bucket[i]
            BY <1>1, <1>2, <3>1
        <3> QED
            BY <3>1, <3>2
    <2> QED
        BY <1>2, <1>5, <2>1, <2>2
<1>6. Cal!ToSet(new) = Cal!ToSet(bucket) \ {bucket[at]}
    BY <1>4, <1>5 DEF Cal!ToSet
<1> QED
    BY <1>1, <1>3, <1>6 DEF Sorted, new

\* The event NextEvent returns is the earliest of the bucket: the first one, or
\* the last one of a reversed bucket.
LEMMA NextEventIsEarliest ==
    ASSUME NEW bucket \in Seq(Cal!Event), Sorted(bucket), bucket # << >>
    PROVE  /\ Cal!NextEvent(bucket) \in Cal!ToSet(bucket)
           /\ \A e \in Cal!ToSet(bucket) : e = Cal!NextEvent(bucket) \/ Cal!KeyLess(Cal!NextEvent(bucket), e)
<1>1. Len(bucket) \in Nat /\ Len(bucket) >= 1 /\ DOMAIN bucket = 1 .. Len(bucket)
    BY EmptySeq
<1>2. CASE m_reverse
    <2>1. Cal!NextEvent(bucket) = bucket[Len(bucket)]
        BY <1>2 DEF Cal!NextEvent, Cal!Last
    <2>2. ASSUME NEW i \in DOMAIN bucket
          PROVE  bucket[i] = bucket[Len(bucket)] \/ Cal!KeyLess(bucket[Len(bucket)], bucket[i])
        <3>1. i < Len(bucket) => Cal!Order(bucket[i], bucket[Len(bucket)])
            BY <1>1 DEF Sorted
        <3> QED
            BY <1>1, <1>2, <3>1 DEF Cal!Order
    <2> QED
        BY <1>1, <2>1, <2>2 DEF Cal!ToSet
<1>3. CASE ~ m_reverse
    <2>1. Cal!NextEvent(bucket) = bucket[1]
        BY <1>3 DEF Cal!NextEvent
    <2>2. ASSUME NEW i \in DOMAIN bucket
          PROVE  bucket[i] = bucket[1] \/ Cal!KeyLess(bucket[1], bucket[i])
        <3>1. 1 < i => Cal!Order(bucket[1], bucket[i])
            BY <1>1 DEF Sorted
        <3> QED
            BY <1>1, <1>3, <3>1 DEF Cal!Order
    <2> QED
        BY <1>1, <2>1, <2>2 DEF Cal!ToSet
<1> QED
    BY <1>2, <1>3

\* Pop takes that event, and leaves the others in order.
LEMMA PopKeeps ==
    ASSUME NEW bucket \in Seq(Cal!Event), Sorted(bucket), bucket # << >>
    PROVE  /\ Cal!Pop(bucket) \in Seq(Cal!Event)
           /\ Sorted(Cal!Pop(bucket))
           /\ Cal!ToSet(Cal!Pop(bucket)) = Cal!ToSet(bucket) \ {Cal!NextEvent(bucket)}
<1>1. Len(bucket) \in Nat /\ Len(bucket) >= 1
    BY EmptySeq
<1>2. CASE m_reverse
    <2>1. Cal!Pop(bucket) = SubSeq(bucket, 1, Len(bucket) - 1)
          /\ Cal!NextEvent(bucket) = bucket[Len(bucket)]
        BY <1>2 DEF Cal!NextEvent, Cal!Last, Cal!Pop, Cal!Front
    <2>2. SubSeq(bucket, 1, Len(bucket) - 1) = Cal!RemoveAt(bucket, Len(bucket))
        <3>1. SubSeq(bucket, Len(bucket) + 1, Len(bucket)) = << >>
            BY <1>1, SubSeqEmpty
        <3>2. SubSeq(bucket, 1, Len(bucket) - 1) \in Seq(Cal!Event)
            BY <1>1, SubSeqProperties
        <3> QED
            BY <3>1, <3>2, ConcatEmptySeq DEF Cal!RemoveAt
    <2>3. Len(bucket) \in 1 .. Len(bucket)
        BY <1>1
    <2> QED
        BY <2>1, <2>2, <2>3, RemoveAtKeeps
<1>3. CASE ~ m_reverse
    <2>1. Cal!Pop(bucket) = Tail(bucket) /\ Cal!NextEvent(bucket) = bucket[1]
        BY <1>3 DEF Cal!NextEvent, Cal!Pop
    <2>2. Tail(bucket) = Cal!RemoveAt(bucket, 1)
        <3>1. SubSeq(bucket, 1, 0) = << >>
            BY <1>1, SubSeqEmpty
        <3>2. SubSeq(bucket, 2, Len(bucket)) \in Seq(Cal!Event)
            BY <1>1, SubSeqProperties
        <3>3. SubSeq(bucket, 2, Len(bucket)) = Tail(bucket)
            BY <1>1
        <3> QED
            BY <3>1, <3>2, <3>3, ConcatEmptySeq DEF Cal!RemoveAt
    <2>3. 1 \in 1 .. Len(bucket)
        BY <1>1
    <2> QED
        BY <2>1, <2>2, <2>3, RemoveAtKeeps
<1> QED
    BY <1>2, <1>3
-----------------------------------------------------------------------------
(* What a calendar holds, and loops over it.                               *)

\* The calendars of every size.
CalendarSet ==
    {c \in [buckets : UNION {[0 .. n - 1 -> Seq(Cal!Event)] : n \in Nat \ {0}},
            nBuckets : Nat \ {0}, width : Nat \ {0}, lastPrio : Nat,
            lastBucket : Nat, bucketTop : Nat] :
        c.buckets \in [0 .. c.nBuckets - 1 -> Seq(Cal!Event)]}

DistinctUids(E) == \A e, f \in E : e.uid = f.uid => e = f

\* The calendar holds the events of E, each in its bucket, and nothing else.
Holds(c, E) ==
    /\ c \in CalendarSet
    /\ E \subseteq Cal!Event
    /\ DistinctUids(E)
    /\ \A i \in 0 .. c.nBuckets - 1 :
           /\ Sorted(c.buckets[i])
           /\ Cal!ToSet(c.buckets[i]) = {e \in E : Cal!Hash(c, e.ts) = i}

\* Two calendars that differ in their buckets' contents at most.
SameDays(c, d) ==
    /\ c.nBuckets = d.nBuckets /\ c.width = d.width /\ c.lastPrio = d.lastPrio
    /\ c.lastBucket = d.lastBucket /\ c.bucketTop = d.bucketTop

\* The search begins at the day of lastPrio.
AtDay(c) == /\ c.lastBucket = Cal!Hash(c, c.lastPrio)
            /\ c.bucketTop = Cal!DayTop(c, c.lastPrio)

LEMMA CalendarMembers ==
    ASSUME NEW c \in CalendarSet
    PROVE  /\ c.buckets \in [0 .. c.nBuckets - 1 -> Seq(Cal!Event)]
           /\ c.nBuckets \in Nat \ {0} /\ c.width \in Nat \ {0} /\ c.lastPrio \in Nat
           /\ c.lastBucket \in Nat /\ c.bucketTop \in Nat
BY DEF CalendarSet

\* Hash is the number of a bucket.
LEMMA HashRange ==
    ASSUME NEW c \in CalendarSet, NEW ts \in Nat
    PROVE  Cal!Hash(c, ts) \in 0 .. c.nBuckets - 1 /\ Cal!Hash(c, ts) \in Nat
           /\ ts \div c.width \in Nat
<1>1. c.nBuckets \in Nat \ {0} /\ c.width \in Nat \ {0}
    BY CalendarMembers
<1>2. ts \div c.width \in Nat
    BY <1>1, DivIsFloor
<1>3. Cal!Hash(c, ts) \in 0 .. c.nBuckets - 1
    BY <1>1, <1>2, ModRange DEF Cal!Hash
<1> QED
    BY <1>1, <1>2, <1>3

\* A calendar with another content of one bucket.
LEMMA BucketChanged ==
    ASSUME NEW c \in CalendarSet, NEW h \in 0 .. c.nBuckets - 1, NEW b \in Seq(Cal!Event)
    PROVE  LET d == [c EXCEPT !.buckets[h] = b] IN
           /\ d \in CalendarSet
           /\ SameDays(d, c)
           /\ d.buckets = [c.buckets EXCEPT ![h] = b]
<1> DEFINE d == [c EXCEPT !.buckets[h] = b]
<1>1. c \in [buckets : UNION {[0 .. n - 1 -> Seq(Cal!Event)] : n \in Nat \ {0}},
            nBuckets : Nat \ {0}, width : Nat \ {0}, lastPrio : Nat,
            lastBucket : Nat, bucketTop : Nat]
    BY DEF CalendarSet
<1>2. /\ SameDays(d, c)
      /\ d.buckets = [c.buckets EXCEPT ![h] = b]
    BY <1>1 DEF SameDays
<1>3. d.buckets \in [0 .. c.nBuckets - 1 -> Seq(Cal!Event)]
    BY <1>2, CalendarMembers
<1>4. d \in [buckets : UNION {[0 .. n - 1 -> Seq(Cal!Event)] : n \in Nat \ {0}},
            nBuckets : Nat \ {0}, width : Nat \ {0}, lastPrio : Nat,
            lastBucket : Nat, bucketTop : Nat]
    <2>1. [c.buckets EXCEPT ![h] = b] \in UNION {[0 .. n - 1 -> Seq(Cal!Event)] : n \in Nat \ {0}}
        <3>1. [c.buckets EXCEPT ![h] = b] \in [0 .. c.nBuckets - 1 -> Seq(Cal!Event)]
            BY <1>2, <1>3
        <3>2. c.nBuckets \in Nat \ {0}
            BY CalendarMembers
        <3> QED
            BY <3>1, <3>2
    <2>2. \A B \in UNION {[0 .. n - 1 -> Seq(Cal!Event)] : n \in Nat \ {0}} :
            [c EXCEPT !.buckets = B] \in [buckets : UNION {[0 .. n - 1 -> Seq(Cal!Event)] : n \in Nat \ {0}},
            nBuckets : Nat \ {0}, width : Nat \ {0}, lastPrio : Nat,
            lastBucket : Nat, bucketTop : Nat]
        BY <1>1
    <2> QED
        BY <2>1, <2>2
<1>5. d \in CalendarSet
    BY <1>2, <1>3, <1>4 DEF CalendarSet, SameDays
<1> QED
    BY <1>2, <1>5

LEMMA SameHash ==
    ASSUME NEW c, NEW d, SameDays(c, d), NEW ts
    PROVE  Cal!Hash(c, ts) = Cal!Hash(d, ts) /\ Cal!DayTop(c, ts) = Cal!DayTop(d, ts)
BY DEF SameDays, Cal!Hash, Cal!DayTop

\* DoInsert adds its event.
LEMMA DoInsertHolds ==
    ASSUME NEW c, NEW E, Holds(c, E), NEW ev \in Cal!Event, \A e \in E : e.uid # ev.uid
    PROVE  Holds(Cal!DoInsert(c, ev), E \cup {ev}) /\ SameDays(Cal!DoInsert(c, ev), c)
<1> DEFINE h == Cal!Hash(c, ev.ts)
           b == Cal!InBucket(c.buckets[h], ev)
           d == Cal!DoInsert(c, ev)
<1>1. c \in CalendarSet /\ ev.ts \in Nat /\ h \in 0 .. c.nBuckets - 1
    BY HashRange DEF Holds, Cal!Event
<1>2. c.buckets[h] \in Seq(Cal!Event) /\ Sorted(c.buckets[h])
      /\ Cal!ToSet(c.buckets[h]) = {e \in E : Cal!Hash(c, e.ts) = h}
    BY <1>1, CalendarMembers DEF Holds
<1>3. b \in Seq(Cal!Event) /\ Sorted(b)
      /\ Cal!ToSet(b) = {e \in E : Cal!Hash(c, e.ts) = h} \cup {ev}
    BY <1>2, InBucketKeeps
<1>4. d = [c EXCEPT !.buckets[h] = b]
    BY DEF Cal!DoInsert
<1> HIDE DEF b, d
<1>5. d \in CalendarSet /\ SameDays(d, c) /\ d.buckets = [c.buckets EXCEPT ![h] = b]
    BY <1>1, <1>3, <1>4, BucketChanged
<1>6. E \cup {ev} \subseteq Cal!Event /\ DistinctUids(E \cup {ev})
    BY DEF Holds, DistinctUids
<1>7. ASSUME NEW i \in 0 .. d.nBuckets - 1
      PROVE  Sorted(d.buckets[i])
             /\ Cal!ToSet(d.buckets[i]) = {e \in E \cup {ev} : Cal!Hash(d, e.ts) = i}
    <2>1. i \in 0 .. c.nBuckets - 1 /\ \A ts : Cal!Hash(d, ts) = Cal!Hash(c, ts)
        BY <1>5, SameHash DEF SameDays
    <2>2. d.buckets[i] = IF i = h THEN b ELSE c.buckets[i]
        BY <1>1, <1>5, <2>1, CalendarMembers
    <2>3. Sorted(c.buckets[i]) /\ Cal!ToSet(c.buckets[i]) = {e \in E : Cal!Hash(c, e.ts) = i}
        BY <2>1 DEF Holds
    <2> QED
        BY <1>3, <2>1, <2>2, <2>3
<1> QED
    BY <1>5, <1>6, <1>7 DEF Holds, d
-----------------------------------------------------------------------------
\* An induction over the steps of a loop: f[i] \in S[i] is what holds after i
\* steps.  Without it there would be a first step after which it fails.
LEMMA ChainHolds ==
    ASSUME NEW n \in Nat, NEW S, NEW f, f[0] \in S[0],
           \A i \in 1 .. n : f[i - 1] \in S[i - 1] => f[i] \in S[i]
    PROVE  \A i \in 0 .. n : f[i] \in S[i]
<1> DEFINE Bad == {i \in 0 .. n : f[i] \notin S[i]}
<1>1. SUFFICES ASSUME Bad # {} PROVE FALSE
    OBVIOUS
<1>2. PICK i \in Bad : \A j \in Bad : i <= j
    <2>1. Bad \subseteq Nat
        OBVIOUS
    <2> HIDE DEF Bad
    <2> QED
        BY <1>1, <2>1, NatMinimum
<1>3. i \in 1 .. n /\ i - 1 \in 0 .. n /\ i - 1 \notin Bad
    BY <1>2
<1> QED
    BY <1>2, <1>3

\* f[i] is the state of a loop after i steps.
IsLoop(f, n, base, step) ==
    f = [i \in 0 .. n |-> IF i = 0 THEN base ELSE step[<<i, f[i - 1]>>]]

\* A loop whose steps keep to S has such a function: a recursive definition
\* chooses one, and a proof has to show that there is one to choose.
LEMMA LoopExists ==
    ASSUME NEW n \in Nat, NEW S, NEW base \in S[0], NEW step,
           \A i \in 1 .. n : \A x \in S[i - 1] : step[<<i, x>>] \in S[i]
    PROVE  \E f : IsLoop(f, n, base, step) /\ \A i \in 0 .. n : f[i] \in S[i]
<1> DEFINE Good(k, f) == /\ IsLoop(f, k, base, step)
                         /\ \A i \in 0 .. k : f[i] \in S[i]
           Bad == {k \in 0 .. n : ~ \E f : Good(k, f)}
<1>1. SUFFICES ASSUME Bad # {} PROVE FALSE
    <2>1. n \in 0 .. n
        OBVIOUS
    <2> QED
        BY <2>1
<1>2. PICK k \in Bad : \A j \in Bad : k <= j
    <2>1. Bad \subseteq Nat
        OBVIOUS
    <2> HIDE DEF Bad
    <2> QED
        BY <1>1, <2>1, NatMinimum
<1>3. k # 0
    <2> DEFINE f == [i \in 0 .. 0 |-> base]
    <2>1. f[0] = base /\ f = [i \in 0 .. 0 |-> IF i = 0 THEN base ELSE step[<<i, f[i - 1]>>]]
        OBVIOUS
    <2>2. \A i \in 0 .. 0 : f[i] \in S[i]
        OBVIOUS
    <2>3. Good(0, f)
        BY <2>1, <2>2 DEF IsLoop
    <2> QED
        BY <1>2, <2>3
<1>4. k \in 1 .. n /\ k - 1 \in 0 .. n /\ k - 1 \notin Bad
    BY <1>2, <1>3
<1>5. PICK g : Good(k - 1, g)
    BY <1>4
<1> DEFINE f == [i \in 0 .. k |-> IF i = k THEN step[<<k, g[k - 1]>>] ELSE g[i]]
<1>6. ASSUME NEW i \in 0 .. k
      PROVE  f[i] = (IF i = 0 THEN base ELSE step[<<i, f[i - 1]>>]) /\ f[i] \in S[i]
    <2>1. CASE i = k
        <3>1. f[k - 1] = g[k - 1] /\ g[k - 1] \in S[k - 1]
            BY <1>4, <1>5
        <3>2. f[k] = step[<<k, f[k - 1]>>]
            BY <1>4, <3>1
        <3> HIDE DEF f
        <3>3. f[k] \in S[k]
            BY <1>4, <3>1, <3>2
        <3> QED
            BY <1>4, <2>1, <3>2, <3>3
    <2>2. CASE i # k
        <3>1. i \in 0 .. k - 1 /\ f[i] = g[i]
            BY <1>4, <2>2
        <3>2. g[i] \in S[i] /\ g[i] = IF i = 0 THEN base ELSE step[<<i, g[i - 1]>>]
            BY <1>5, <3>1 DEF IsLoop
        <3>3. i # 0 => f[i - 1] = g[i - 1]
            BY <1>4, <3>1
        <3> QED
            BY <3>1, <3>2, <3>3
    <2> QED
        BY <2>1, <2>2
<1>7. f = [i \in 0 .. k |-> IF i = 0 THEN base ELSE step[<<i, f[i - 1]>>]]
    <2>1. f = [i \in 0 .. k |-> f[i]]
        OBVIOUS
    <2> HIDE DEF f
    <2> QED
        BY <1>6, <2>1
<1>8. Good(k, f)
    BY <1>6, <1>7 DEF IsLoop
<1> QED
    BY <1>2, <1>8

\* A loop of DoInsert adds every event of the list.
LEMMA InsertAllHolds ==
    ASSUME NEW c, NEW E, Holds(c, E), NEW list \in Seq(Cal!Event),
           \A i, j \in DOMAIN list : i # j => list[i].uid # list[j].uid,
           \A i \in DOMAIN list, e \in E : e.uid # list[i].uid
    PROVE  Holds(Cal!InsertAll(c, list), E \cup Cal!ToSet(list))
           /\ SameDays(Cal!InsertAll(c, list), c)
<1> DEFINE n == Len(list)
           So(i) == E \cup {list[j] : j \in 1 .. i}
           S == [i \in 0 .. n |-> {d \in CalendarSet : Holds(d, So(i)) /\ SameDays(d, c)}]
           step == [p \in (1 .. n) \X CalendarSet |-> Cal!DoInsert(p[2], list[p[1]])]
           Eq(f) == f = [i \in 0 .. n |-> IF i = 0 THEN c ELSE Cal!DoInsert(f[i - 1], list[i])]
<1>1. n \in Nat /\ DOMAIN list = 1 .. n /\ 0 \in 0 .. n /\ n \in 0 .. n
    OBVIOUS
<1>2. c \in S[0]
    <2>1. So(0) = E
        OBVIOUS
    <2>2. SameDays(c, c) /\ c \in CalendarSet
        BY DEF SameDays, Holds
    <2> QED
        BY <1>1, <2>1, <2>2
<1>3. ASSUME NEW i \in 1 .. n, NEW x \in S[i - 1]
      PROVE  x \in CalendarSet /\ Cal!DoInsert(x, list[i]) \in S[i]
    <2>1. i - 1 \in 0 .. n /\ i \in 0 .. n /\ i \in DOMAIN list
        BY <1>1
    <2>2. x \in CalendarSet /\ Holds(x, So(i - 1)) /\ SameDays(x, c)
        BY <1>3, <2>1
    <2>3. \A e \in So(i - 1) : e.uid # list[i].uid
        <3>1. ASSUME NEW j \in 1 .. i - 1 PROVE list[j].uid # list[i].uid
            <4>1. j # i /\ j \in DOMAIN list
                BY <1>1
            <4> QED
                BY <2>1, <4>1
        <3> QED
            BY <2>1, <3>1
    <2>4. list[i] \in Cal!Event
        BY <2>1
    <2>5. So(i) = So(i - 1) \cup {list[i]}
        <3>1. 1 .. i = (1 .. i - 1) \cup {i}
            BY <1>1
        <3> QED
            BY <3>1
    <2>6. Holds(Cal!DoInsert(x, list[i]), So(i - 1) \cup {list[i]})
          /\ SameDays(Cal!DoInsert(x, list[i]), x)
        <3> HIDE DEF So
        <3> QED
            BY <2>2, <2>3, <2>4, DoInsertHolds
    <2>7. Holds(Cal!DoInsert(x, list[i]), So(i)) /\ SameDays(Cal!DoInsert(x, list[i]), c)
        BY <2>2, <2>5, <2>6 DEF SameDays
    <2>8. Cal!DoInsert(x, list[i]) \in CalendarSet
        BY <2>7 DEF Holds
    <2> QED
        BY <2>1, <2>2, <2>7, <2>8
<1> HIDE DEF S
<1>4. \A i \in 1 .. n : \A x \in S[i - 1] : step[<<i, x>>] \in S[i]
      /\ step[<<i, x>>] = Cal!DoInsert(x, list[i])
    BY <1>3
<1> HIDE DEF step
<1>5. PICK g : /\ IsLoop(g, n, c, step)
               /\ \A i \in 0 .. n : g[i] \in S[i]
    <2>1. \A i \in 1 .. n : \A x \in S[i - 1] : step[<<i, x>>] \in S[i]
        BY <1>4
    <2>2. n \in Nat
        BY <1>1
    <2> HIDE DEF n
    <2> QED
        BY <1>2, <2>1, <2>2, LoopExists
<1>6. Eq(g)
    <2>1. ASSUME NEW i \in 0 .. n, i # 0
          PROVE  step[<<i, g[i - 1]>>] = Cal!DoInsert(g[i - 1], list[i])
        <3>1. i \in 1 .. n /\ i - 1 \in 0 .. n
            BY <1>1, <2>1
        <3> HIDE DEF n
        <3> QED
            BY <1>4, <1>5, <3>1
    <2>2. g = [i \in 0 .. n |-> IF i = 0 THEN c ELSE step[<<i, g[i - 1]>>]]
        BY <1>5 DEF IsLoop
    <2> HIDE DEF n
    <2>3. [i \in 0 .. n |-> IF i = 0 THEN c ELSE step[<<i, g[i - 1]>>]]
          = [i \in 0 .. n |-> IF i = 0 THEN c ELSE Cal!DoInsert(g[i - 1], list[i])]
        BY <2>1
    <2> QED
        BY <2>2, <2>3
<1> DEFINE loop == CHOOSE f : Eq(f)
<1>7. Eq(loop)
    <2> HIDE DEF Eq
    <2> QED
        BY <1>6, Zenon
<1>8. Cal!InsertAll(c, list) = loop[n]
    BY DEF Cal!InsertAll
<1> HIDE DEF loop
<1>9. loop[0] = c /\ \A i \in 1 .. n : loop[i] = Cal!DoInsert(loop[i - 1], list[i])
    BY <1>1, <1>7
<1>10. loop[n] \in S[n]
    <2>1. \A i \in 1 .. n : loop[i - 1] \in S[i - 1] => loop[i] \in S[i]
        BY <1>3, <1>9
    <2> HIDE DEF n
    <2>2. \A i \in 0 .. n : loop[i] \in S[i]
        BY <1>1, <1>2, <1>9, <2>1, ChainHolds
    <2> QED
        BY <1>1, <2>2
<1>11. So(n) = E \cup Cal!ToSet(list)
    BY <1>1 DEF Cal!ToSet
<1> QED
    BY <1>1, <1>8, <1>10, <1>11 DEF S
-----------------------------------------------------------------------------
(* A calendar filled anew.                                                 *)

LEMMA UIntNat ==
    ASSUME NEW x \in Nat
    PROVE  Cal!UInt(x) \in Nat /\ Cal!UInt(x) <= x /\ (x < Word => Cal!UInt(x) = x)
BY WordAssumption, ModRange DEF Cal!UInt

LEMMA DayTopNat ==
    ASSUME NEW c, c.width \in Nat \ {0}, NEW ts \in Nat
    PROVE  Cal!DayTop(c, ts) \in Nat
<1>1. ts \div c.width + 1 \in Nat
    BY DivIsFloor
<1>2. (ts \div c.width + 1) * c.width \in Nat
    BY <1>1, ProductNat
<1> QED
    BY <1>2, UIntNat DEF Cal!DayTop

LEMMA SameDaysAtDay ==
    ASSUME NEW c, NEW d, SameDays(c, d), AtDay(d)
    PROVE  AtDay(c)
BY SameHash DEF AtDay, SameDays

\* Init makes an empty calendar at the day of startPrio.
LEMMA NewCalendarHolds ==
    ASSUME NEW nBuckets \in Nat \ {0}, NEW width \in Nat \ {0}, NEW startPrio \in Nat
    PROVE  LET d == Cal!NewCalendar(nBuckets, width, startPrio) IN
           /\ Holds(d, {}) /\ AtDay(d)
           /\ d.nBuckets = nBuckets /\ d.width = width /\ d.lastPrio = startPrio
<1> DEFINE d == Cal!NewCalendar(nBuckets, width, startPrio)
           u == Cal!Unstarted(nBuckets, width, startPrio)
<1>1. /\ u.nBuckets = nBuckets /\ u.width = width /\ u.lastPrio = startPrio
      /\ u.buckets = [i \in 0 .. nBuckets - 1 |-> <<>>]
      /\ u = [buckets |-> [i \in 0 .. nBuckets - 1 |-> <<>>], nBuckets |-> nBuckets,
              width |-> width, lastPrio |-> startPrio, lastBucket |-> 0, bucketTop |-> 0]
    BY DEF Cal!Unstarted
<1>4. Cal!Hash(u, startPrio) = (startPrio \div width) % nBuckets
      /\ Cal!DayTop(u, startPrio) = Cal!UInt((startPrio \div width + 1) * width)
    BY <1>1 DEF Cal!Hash, Cal!DayTop
<1>5. Cal!Hash(u, startPrio) \in Nat /\ Cal!DayTop(u, startPrio) \in Nat
    <2>1. startPrio \div width \in Nat
        BY DivIsFloor
    <2>2. Cal!Hash(u, startPrio) \in Nat
        BY <1>4, <2>1, ModRange
    <2> QED
        BY <1>1, <2>2, DayTopNat
<1>6. [i \in 0 .. nBuckets - 1 |-> <<>>] \in [0 .. nBuckets - 1 -> Seq(Cal!Event)]
    BY EmptySeq
<1>2. u \in [buckets : UNION {[0 .. n - 1 -> Seq(Cal!Event)] : n \in Nat \ {0}},
             nBuckets : Nat \ {0}, width : Nat \ {0}, lastPrio : Nat,
             lastBucket : Nat, bucketTop : Nat]
    <2>1. u.buckets \in UNION {[0 .. n - 1 -> Seq(Cal!Event)] : n \in Nat \ {0}}
        BY <1>1, <1>6
    <2> HIDE DEF u
    <2> QED
        BY <1>1, <2>1
<1>3. d = [u EXCEPT !.lastBucket = Cal!Hash(u, startPrio), !.bucketTop = Cal!DayTop(u, startPrio)]
    BY DEF Cal!NewCalendar
<1> HIDE DEF d, u
<1>7. /\ d \in [buckets : UNION {[0 .. n - 1 -> Seq(Cal!Event)] : n \in Nat \ {0}},
               nBuckets : Nat \ {0}, width : Nat \ {0}, lastPrio : Nat,
               lastBucket : Nat, bucketTop : Nat]
      /\ d.buckets = u.buckets /\ d.nBuckets = nBuckets /\ d.width = width
      /\ d.lastPrio = startPrio /\ d.lastBucket = Cal!Hash(u, startPrio)
      /\ d.bucketTop = Cal!DayTop(u, startPrio)
    BY <1>1, <1>2, <1>3, <1>5
<1>8. d \in CalendarSet /\ AtDay(d)
    BY <1>1, <1>4, <1>6, <1>7 DEF CalendarSet, AtDay, Cal!Hash, Cal!DayTop
<1>9. \A i \in 0 .. d.nBuckets - 1 : d.buckets[i] = <<>>
    BY <1>1, <1>7
<1>10. Sorted(<<>>) /\ Cal!ToSet(<<>>) = {}
    BY DEF Sorted, Cal!ToSet
<1>11. Holds(d, {})
    BY <1>8, <1>9, <1>10 DEF Holds, DistinctUids
<1> QED
    BY <1>7, <1>8, <1>11 DEF d

\* A bucket of a calendar, and that its events differ in their uids.
LEMMA BucketOf ==
    ASSUME NEW c, NEW E, Holds(c, E), NEW i \in 0 .. c.nBuckets - 1
    PROVE  /\ c.buckets[i] \in Seq(Cal!Event) /\ Sorted(c.buckets[i])
           /\ Cal!ToSet(c.buckets[i]) = {e \in E : Cal!Hash(c, e.ts) = i}
           /\ \A j, k \in DOMAIN c.buckets[i] :
                  j # k => c.buckets[i][j].uid # c.buckets[i][k].uid
<1>1. c.buckets[i] \in Seq(Cal!Event) /\ Sorted(c.buckets[i])
      /\ Cal!ToSet(c.buckets[i]) = {e \in E : Cal!Hash(c, e.ts) = i}
    BY CalendarMembers DEF Holds
<1> DEFINE b == c.buckets[i]
<1> HIDE DEF b
<1>2. b \in Seq(Cal!Event) /\ Sorted(b) /\ Cal!ToSet(b) \subseteq E
    BY <1>1 DEF b
<1>3. ASSUME NEW j \in DOMAIN b, NEW k \in DOMAIN b, j # k
      PROVE  b[j].uid # b[k].uid
    <2>1. b[j] \in E /\ b[k] \in E
        BY <1>2 DEF Cal!ToSet
    <2>2. b[j] # b[k]
        BY <1>2, <1>3, SortedIsInjective
    <2> QED
        BY <2>1, <2>2 DEF Holds, DistinctUids
<1> QED
    BY <1>1, <1>3 DEF b

\* DoResize keeps every event and the current day, in buckets of another number
\* and width.
LEMMA DoResizeHolds ==
    ASSUME NEW c, NEW E, Holds(c, E),
           NEW nBuckets \in Nat \ {0}, NEW width \in Nat \ {0}
    PROVE  LET d == Cal!DoResize(c, nBuckets, width) IN
           /\ Holds(d, E) /\ AtDay(d)
           /\ d.nBuckets = nBuckets /\ d.width = width /\ d.lastPrio = c.lastPrio
<1> DEFINE n == c.nBuckets
           new == Cal!NewCalendar(nBuckets, width, c.lastPrio)
           So(i) == {e \in E : Cal!Hash(c, e.ts) < i}
           S == [i \in 0 .. n |-> {d \in CalendarSet : Holds(d, So(i)) /\ SameDays(d, new)}]
           step == [p \in (1 .. n) \X CalendarSet |-> Cal!InsertAll(p[2], c.buckets[p[1] - 1])]
           Eq(f) == f = [i \in 0 .. n |-> IF i = 0 THEN new
                                          ELSE Cal!InsertAll(f[i - 1], c.buckets[i - 1])]
<1>1. n \in Nat \ {0} /\ 0 \in 0 .. n /\ n \in 0 .. n /\ c.lastPrio \in Nat
      /\ c \in CalendarSet
    BY CalendarMembers DEF Holds
<1>2. /\ Holds(new, {}) /\ AtDay(new)
      /\ new.nBuckets = nBuckets /\ new.width = width /\ new.lastPrio = c.lastPrio
    BY <1>1, NewCalendarHolds
<1> HIDE DEF n, new
<1>3. \A e \in E : Cal!Hash(c, e.ts) \in 0 .. n - 1
    BY <1>1, HashRange DEF Holds, Cal!Event, n
<1>4. new \in S[0]
    <2>1. So(0) = {}
        BY <1>1, <1>3
    <2>2. SameDays(new, new) /\ new \in CalendarSet
        BY <1>2 DEF SameDays, Holds
    <2> QED
        BY <1>1, <1>2, <2>1, <2>2
<1>5. ASSUME NEW i \in 1 .. n, NEW x \in S[i - 1]
      PROVE  x \in CalendarSet /\ Cal!InsertAll(x, c.buckets[i - 1]) \in S[i]
    <2> DEFINE b == c.buckets[i - 1]
               y == Cal!InsertAll(x, b)
    <2>1. i - 1 \in 0 .. n /\ i - 1 \in 0 .. n - 1 /\ i \in 0 .. n
        BY <1>1
    <2>2. x \in CalendarSet /\ Holds(x, So(i - 1)) /\ SameDays(x, new)
        BY <1>5, <2>1
    <2>3. b \in Seq(Cal!Event) /\ Cal!ToSet(b) = {e \in E : Cal!Hash(c, e.ts) = i - 1}
          /\ \A j, k \in DOMAIN b : j # k => b[j].uid # b[k].uid
        BY <2>1, BucketOf DEF n
    <2>4. \A j \in DOMAIN b : b[j] \in E /\ Cal!Hash(c, b[j].ts) = i - 1
        BY <2>3 DEF Cal!ToSet
    <2>5. \A j \in DOMAIN b, e \in So(i - 1) : e.uid # b[j].uid
        <3>1. ASSUME NEW j \in DOMAIN b, NEW e \in So(i - 1) PROVE e.uid # b[j].uid
            <4>1. e \in E /\ Cal!Hash(c, e.ts) < i - 1 /\ b[j] \in E
                  /\ Cal!Hash(c, b[j].ts) = i - 1
                BY <2>4
            <4>2. e # b[j]
                BY <1>1, <4>1
            <4> QED
                BY <4>1, <4>2 DEF Holds, DistinctUids
        <3> QED
            BY <3>1
    <2>6. So(i) = So(i - 1) \cup Cal!ToSet(b)
        <3>1. \A e \in E : Cal!Hash(c, e.ts) < i <=> Cal!Hash(c, e.ts) < i - 1 \/ Cal!Hash(c, e.ts) = i - 1
            BY <1>1, <1>3
        <3> QED
            BY <2>3, <3>1
    <2>7. Holds(y, So(i - 1) \cup Cal!ToSet(b)) /\ SameDays(y, x)
        <3> HIDE DEF b, So
        <3> QED
            BY <2>2, <2>3, <2>5, InsertAllHolds
    <2>8. Holds(y, So(i)) /\ SameDays(y, new)
        <3>1. Holds(y, So(i))
            BY <2>6, <2>7
        <3> QED
            BY <3>1, <2>2, <2>7 DEF SameDays
    <2>9. y \in CalendarSet
        BY <2>8 DEF Holds
    <2> QED
        BY <2>1, <2>2, <2>8, <2>9
<1> HIDE DEF S
<1>6. \A i \in 1 .. n : \A x \in S[i - 1] :
          step[<<i, x>>] \in S[i] /\ step[<<i, x>>] = Cal!InsertAll(x, c.buckets[i - 1])
    BY <1>5
<1> HIDE DEF step
<1>7. PICK g : IsLoop(g, n, new, step) /\ \A i \in 0 .. n : g[i] \in S[i]
    <2>1. \A i \in 1 .. n : \A x \in S[i - 1] : step[<<i, x>>] \in S[i]
        BY <1>6
    <2>2. n \in Nat
        BY <1>1
    <2> QED
        BY <1>4, <2>1, <2>2, LoopExists
<1>8. Eq(g)
    <2>1. ASSUME NEW i \in 0 .. n, i # 0
          PROVE  step[<<i, g[i - 1]>>] = Cal!InsertAll(g[i - 1], c.buckets[i - 1])
        <3>1. i \in 1 .. n /\ i - 1 \in 0 .. n
            BY <1>1, <2>1
        <3> QED
            BY <1>6, <1>7, <3>1
    <2>2. g = [i \in 0 .. n |-> IF i = 0 THEN new ELSE step[<<i, g[i - 1]>>]]
        BY <1>7 DEF IsLoop
    <2>3. [i \in 0 .. n |-> IF i = 0 THEN new ELSE step[<<i, g[i - 1]>>]]
          = [i \in 0 .. n |-> IF i = 0 THEN new ELSE Cal!InsertAll(g[i - 1], c.buckets[i - 1])]
        BY <2>1
    <2> QED
        BY <2>2, <2>3
<1> DEFINE loop == CHOOSE f : Eq(f)
<1>9. Eq(loop)
    <2> HIDE DEF Eq
    <2> QED
        BY <1>8, Zenon
<1>10. Cal!DoResize(c, nBuckets, width) = loop[n]
    BY DEF Cal!DoResize, n, new
<1> HIDE DEF loop
<1>11. loop[0] = new
       /\ \A i \in 1 .. n : loop[i] = Cal!InsertAll(loop[i - 1], c.buckets[i - 1])
    BY <1>1, <1>9
<1>12. loop[n] \in S[n]
    <2>1. \A i \in 1 .. n : loop[i - 1] \in S[i - 1] => loop[i] \in S[i]
        BY <1>5, <1>11
    <2>2. \A i \in 0 .. n : loop[i] \in S[i]
        BY <1>1, <1>4, <1>11, <2>1, ChainHolds
    <2> QED
        BY <1>1, <2>2
<1>13. So(n) = E
    BY <1>1, <1>3
<1>14. Holds(loop[n], E) /\ SameDays(loop[n], new)
    BY <1>1, <1>12, <1>13 DEF S
<1>15. AtDay(loop[n])
    BY <1>2, <1>14, SameDaysAtDay
<1> QED
    BY <1>2, <1>10, <1>14, <1>15 DEF SameDays
-----------------------------------------------------------------------------
(* The days of the search.                                                 *)

\* Events with different uids have an earliest one.
LEMMA EarliestExists ==
    ASSUME NEW E, E \subseteq Cal!Event, DistinctUids(E), E # {}
    PROVE  \E e \in E : Cal!IsEarliest(e, E)
<1> DEFINE times == {e.ts : e \in E}
<1>1. times \subseteq Nat /\ times # {}
    BY DEF Cal!Event
<1>2. PICK t \in times : \A x \in times : t <= x
    <2> HIDE DEF times
    <2> QED
        BY <1>1, NatMinimum
<1> DEFINE uids == {e.uid : e \in {f \in E : f.ts = t}}
<1>3. uids \subseteq Nat /\ uids # {}
    BY <1>2 DEF Cal!Event
<1>4. PICK u \in uids : \A x \in uids : u <= x
    <2> HIDE DEF uids
    <2> QED
        BY <1>3, NatMinimum
<1>5. PICK e \in E : e.ts = t /\ e.uid = u
    BY <1>4
<1>6. ASSUME NEW f \in E \ {e} PROVE Cal!KeyLess(e, f)
    <2>1. e \in Cal!Event /\ f \in Cal!Event /\ e.ts <= f.ts /\ e.uid # f.uid
        BY <1>2, <1>5 DEF DistinctUids
    <2>2. f.ts = e.ts => e.uid <= f.uid
        BY <1>4, <1>5
    <2> QED
        BY <2>1, <2>2 DEF Cal!KeyLess, Cal!Event
<1> QED
    BY <1>5, <1>6 DEF Cal!IsEarliest

LEMMA KeyLessOnEvents ==
    ASSUME NEW a \in Cal!Event, NEW b \in Cal!Event, Cal!KeyLess(a, b)
    PROVE  a.ts <= b.ts /\ a # b /\ ~ Cal!KeyLess(b, a)
           /\ \A c \in Cal!Event : Cal!KeyLess(b, c) => Cal!KeyLess(a, c)
BY DEF Cal!KeyLess, Cal!Event

\* The next event of a bucket is the earliest of those that hash to it.
LEMMA HeadOfBucket ==
    ASSUME NEW c, NEW E, Holds(c, E), NEW i \in 0 .. c.nBuckets - 1, c.buckets[i] # << >>
    PROVE  LET ev == Cal!NextEvent(c.buckets[i]) IN
           /\ ev \in E /\ ev \in Cal!Event /\ Cal!Hash(c, ev.ts) = i
           /\ \A e \in E : Cal!Hash(c, e.ts) = i => e = ev \/ Cal!KeyLess(ev, e)
BY BucketOf, NextEventIsEarliest DEF Holds

\* Where an event is, the search finds a bucket that is not empty.
LEMMA BucketNotEmpty ==
    ASSUME NEW c, NEW E, Holds(c, E), NEW e \in E
    PROVE  Cal!Hash(c, e.ts) \in 0 .. c.nBuckets - 1 /\ c.buckets[Cal!Hash(c, e.ts)] # << >>
<1>1. Cal!Hash(c, e.ts) \in 0 .. c.nBuckets - 1
    BY HashRange DEF Holds, Cal!Event
<1>2. e \in Cal!ToSet(c.buckets[Cal!Hash(c, e.ts)])
    BY <1>1, BucketOf
<1> QED
    BY <1>1, <1>2 DEF Cal!ToSet

\* What the calendar holds after Take.
Taken(r, c, E, turn, lastBucket, bucketTop) ==
    /\ r.event = Cal!NextAt(c, turn)
    /\ Holds(r.calendar, E \ {r.event})
    /\ r.calendar.nBuckets = c.nBuckets /\ r.calendar.width = c.width
    /\ r.calendar.lastBucket = lastBucket /\ r.calendar.lastPrio = r.event.ts
    /\ r.calendar.bucketTop = bucketTop

\* Take takes the event of its turn, and no other.
LEMMA TakeHolds ==
    ASSUME NEW c, NEW E, Holds(c, E), NEW turn, NEW bucket \in Nat, NEW top \in Nat,
           Cal!BucketAt(c, turn) \in 0 .. c.nBuckets - 1, c.buckets[Cal!BucketAt(c, turn)] # << >>,
           NEW r, r = Cal!Take(c, turn, bucket, top)
    PROVE  Taken(r, c, E, turn, bucket, top)
<1> DEFINE i  == Cal!BucketAt(c, turn)
           ev == Cal!NextAt(c, turn)
           b  == Cal!Pop(c.buckets[i])
           p  == [c EXCEPT !.buckets[i] = b]
           d  == r.calendar
<1>1. c \in CalendarSet
    BY DEF Holds
<1>2. b \in Seq(Cal!Event) /\ Sorted(b)
      /\ Cal!ToSet(b) = {e \in E : Cal!Hash(c, e.ts) = i} \ {ev}
    BY BucketOf, PopKeeps DEF Cal!NextAt
<1>3. ev \in E /\ Cal!Hash(c, ev.ts) = i
    BY HeadOfBucket DEF Cal!NextAt
<1>4. r.event = ev
      /\ d = [p EXCEPT !.lastBucket = bucket, !.lastPrio = ev.ts, !.bucketTop = top]
    BY DEF Cal!Take
<1>12. ev.ts \in Nat /\ i \in 0 .. c.nBuckets - 1
    BY <1>3 DEF Holds, Cal!Event
<1> HIDE DEF b, ev, d, i
<1>5. p \in CalendarSet /\ SameDays(p, c) /\ p.buckets = [c.buckets EXCEPT ![i] = b]
    BY <1>1, <1>2, <1>12, BucketChanged
<1> HIDE DEF p
<1>6. /\ d \in [buckets : UNION {[0 .. n - 1 -> Seq(Cal!Event)] : n \in Nat \ {0}},
               nBuckets : Nat \ {0}, width : Nat \ {0}, lastPrio : Nat,
               lastBucket : Nat, bucketTop : Nat]
      /\ d.buckets = p.buckets /\ d.nBuckets = p.nBuckets /\ d.width = p.width
      /\ d.lastBucket = bucket /\ d.lastPrio = ev.ts /\ d.bucketTop = top
    <2>1. p \in [buckets : UNION {[0 .. n - 1 -> Seq(Cal!Event)] : n \in Nat \ {0}},
               nBuckets : Nat \ {0}, width : Nat \ {0}, lastPrio : Nat,
               lastBucket : Nat, bucketTop : Nat]
        BY <1>5 DEF CalendarSet
    <2> QED
        BY <1>4, <1>12, <2>1
<1>7. d \in CalendarSet
    BY <1>5, <1>6 DEF CalendarSet
<1>8. d.nBuckets = c.nBuckets /\ d.width = c.width
    BY <1>5, <1>6 DEF SameDays
<1>9. ASSUME NEW j \in 0 .. d.nBuckets - 1
      PROVE  Sorted(d.buckets[j])
             /\ Cal!ToSet(d.buckets[j]) = {e \in E \ {ev} : Cal!Hash(d, e.ts) = j}
    <2>1. j \in 0 .. c.nBuckets - 1 /\ \A ts : Cal!Hash(d, ts) = Cal!Hash(c, ts)
        BY <1>8 DEF Cal!Hash
    <2>2. d.buckets[j] = IF j = i THEN b ELSE c.buckets[j]
        BY <1>1, <1>5, <1>6, <1>12, <2>1, CalendarMembers
    <2>3. Sorted(c.buckets[j]) /\ Cal!ToSet(c.buckets[j]) = {e \in E : Cal!Hash(c, e.ts) = j}
        BY <2>1 DEF Holds
    <2> QED
        BY <1>2, <1>3, <2>1, <2>2, <2>3
<1>10. E \ {ev} \subseteq Cal!Event /\ DistinctUids(E \ {ev})
    BY DEF Holds, DistinctUids
<1>11. Holds(d, E \ {ev})
    BY <1>7, <1>9, <1>10 DEF Holds
<1> QED
    BY <1>4, <1>6, <1>8, <1>11 DEF d, ev, Taken
-----------------------------------------------------------------------------
\* The day of a time, counted from time 0.
Day(c, ts) == ts \div c.width

\* A time lies in its day: multiples of the width tell days apart.
LEMMA DayBounds ==
    ASSUME NEW c \in CalendarSet, NEW ts \in Nat
    PROVE  /\ Day(c, ts) \in Nat
           /\ Day(c, ts) * c.width \in Nat
           /\ Day(c, ts) * c.width <= ts
           /\ Cal!Hash(c, ts) = Day(c, ts) % c.nBuckets
           /\ \A d \in Nat : /\ d * c.width \in Nat
                             /\ d <= Day(c, ts) => d * c.width <= ts
                             /\ ts < d * c.width => Day(c, ts) < d
                             /\ Day(c, ts) < d => ts < d * c.width
<1>1. c.width \in Nat \ {0}
    BY CalendarMembers
<1>2. Day(c, ts) \in Nat /\ Day(c, ts) * c.width <= ts /\ ts < (Day(c, ts) + 1) * c.width
    BY <1>1, DivIsFloor DEF Day
<1>3. Day(c, ts) * c.width \in Nat /\ (Day(c, ts) + 1) * c.width \in Nat
    BY <1>1, <1>2, ProductNat
<1>4. ASSUME NEW d \in Nat
      PROVE  /\ d * c.width \in Nat
             /\ d <= Day(c, ts) => d * c.width <= ts
             /\ ts < d * c.width => Day(c, ts) < d
             /\ Day(c, ts) < d => ts < d * c.width
    <2>1. d * c.width \in Nat
        BY <1>1, ProductNat
    <2>2. d <= Day(c, ts) => d * c.width <= Day(c, ts) * c.width
        BY <1>1, <1>2, ProductMonotonic
    <2>3. d <= Day(c, ts) => d * c.width <= ts
        BY <1>2, <1>3, <2>1, <2>2
    <2>4. Day(c, ts) + 1 <= d => (Day(c, ts) + 1) * c.width <= d * c.width
        <3>1. Day(c, ts) + 1 \in Nat
            BY <1>2
        <3> HIDE <1>2
        <3> QED
            BY <1>1, <3>1, ProductMonotonic
    <2>5. Day(c, ts) < d => ts < d * c.width
        BY <1>2, <1>3, <2>1, <2>4
    <2>6. ts < d * c.width => Day(c, ts) < d
        BY <1>2, <2>1, <2>3
    <2> QED
        BY <2>1, <2>3, <2>5, <2>6
<1>5. Cal!Hash(c, ts) = Day(c, ts) % c.nBuckets
    BY DEF Cal!Hash, Day
<1> QED
    BY <1>2, <1>3, <1>4, <1>5

\* At turn t the search is at the day that is t days after the current one.
LEMMA DayOfTurn ==
    ASSUME NEW c \in CalendarSet, AtDay(c), NEW turn \in 0 .. c.nBuckets - 1
    PROVE  LET day == Day(c, c.lastPrio) + turn IN
           /\ day \in Nat
           /\ Cal!BucketAt(c, turn) = day % c.nBuckets
           /\ Cal!BucketAt(c, turn) \in 0 .. c.nBuckets - 1
           /\ Cal!TopAt(c, turn) = Cal!UInt((day + 1) * c.width)
<1> DEFINE first == Day(c, c.lastPrio)
<1>1. /\ c.nBuckets \in Nat \ {0} /\ c.width \in Nat \ {0} /\ c.lastPrio \in Nat
      /\ first \in Nat /\ turn \in Nat /\ first + turn \in Nat
    BY CalendarMembers, DayBounds
<1>2. c.lastBucket = first % c.nBuckets /\ c.bucketTop = Cal!UInt((first + 1) * c.width)
    BY <1>1, DayBounds DEF AtDay, Cal!DayTop, Day
<1> HIDE DEF first
<1>3. Cal!BucketAt(c, turn) = (first + turn) % c.nBuckets
    BY <1>1, <1>2, ModAdd DEF Cal!BucketAt
<1>4. Cal!BucketAt(c, turn) \in 0 .. c.nBuckets - 1
    BY <1>1, <1>3, ModRange
<1>5. (first + 1) * c.width \in Nat /\ turn * c.width \in Nat
      /\ (first + 1) * c.width + turn * c.width = ((first + 1) + turn) * c.width
    BY <1>1, ProductNat, Distribute
<1>6. Cal!TopAt(c, turn) = Cal!UInt(((first + 1) + turn) * c.width)
    <2>1. Cal!UInt(Cal!UInt((first + 1) * c.width) + turn * c.width)
              = Cal!UInt((first + 1) * c.width + turn * c.width)
        BY <1>5, WordAssumption, ModAdd DEF Cal!UInt
    <2> QED
        BY <1>2, <1>5, <2>1 DEF Cal!TopAt
<1>7. (first + 1) + turn = (first + turn) + 1
    BY <1>1
<1> QED
    BY <1>1, <1>3, <1>4, <1>6, <1>7 DEF first
-----------------------------------------------------------------------------
(* The search of DoRemoveNext.                                             *)

\* What the search relies on.
Searchable(c, E) ==
    /\ Holds(c, E) /\ AtDay(c)
    /\ \A e \in E : c.lastPrio <= e.ts /\ e.ts <= Cal!MaxTime

\* Times that are representable do not wrap around.
LEMMA MaxTimeInWord == Cal!MaxTime \in Int /\ Cal!MaxTime < Word
BY WordAssumption DEF Cal!MaxTime

\* An event is at the bucket of a turn when it is of the day of that turn, and
\* an event of that bucket and no later day is of that day.
LEMMA TurnOfDay ==
    ASSUME NEW c, NEW E, Searchable(c, E), NEW turn \in 0 .. c.nBuckets - 1, NEW e \in E
    PROVE  /\ Day(c, e.ts) = Day(c, c.lastPrio) + turn => Cal!Hash(c, e.ts) = Cal!BucketAt(c, turn)
           /\ /\ Cal!Hash(c, e.ts) = Cal!BucketAt(c, turn)
              /\ Day(c, e.ts) <= Day(c, c.lastPrio) + turn
              => Day(c, e.ts) = Day(c, c.lastPrio) + turn
<1>1. /\ c \in CalendarSet /\ AtDay(c) /\ c.lastPrio \in Nat /\ e.ts \in Nat
         /\ c.lastPrio <= e.ts
      /\ c.nBuckets \in Nat \ {0} /\ c.width \in Nat \ {0}
    BY CalendarMembers DEF Searchable, Holds, Cal!Event
<1> DEFINE first == Day(c, c.lastPrio)
           day   == Day(c, e.ts)
           n     == c.nBuckets
<1>2. first \in Nat /\ day \in Nat /\ Cal!Hash(c, e.ts) = day % n
    BY <1>1, DayBounds
<1>3. first <= day
    BY <1>1, DivMonotonic DEF Day
<1>4. Cal!BucketAt(c, turn) = (first + turn) % n
    BY <1>1, DayOfTurn
<1> HIDE DEF first, day
<1>5. ASSUME day % n = (first + turn) % n, day <= first + turn
      PROVE  day = first + turn
    <2> DEFINE k == first + turn - day
    <2>1. k \in Nat /\ k < n /\ day + k = first + turn
        BY <1>1, <1>2, <1>3, <1>5
    <2> HIDE DEF k
    <2>2. (day + k) % n = day % n
        BY <1>5, <2>1
    <2>3. k = 0
        BY <1>1, <1>2, <2>1, <2>2, ModInjective
    <2> QED
        BY <1>2, <2>1, <2>3
<1> QED
    BY <1>2, <1>4, <1>5 DEF first, day

\* The first event of its day of this year that the search meets is the earliest,
\* whether the tops of the days wrap around or not.
LEMMA FoundIsEarliest ==
    ASSUME NEW c, NEW E, Searchable(c, E), NEW turn \in Cal!ThisYear(c),
           \A t \in Cal!ThisYear(c) : turn <= t
    PROVE  /\ Cal!IsEarliest(Cal!NextAt(c, turn), E)
           /\ Cal!BucketAt(c, turn) = Cal!Hash(c, Cal!NextAt(c, turn).ts)
           /\ Cal!TopAt(c, turn) = Cal!DayTop(c, Cal!NextAt(c, turn).ts)
<1> DEFINE first == Day(c, c.lastPrio)
           ev    == Cal!NextAt(c, turn)
           w     == c.width
<1>1. /\ c \in CalendarSet /\ AtDay(c) /\ c.lastPrio \in Nat /\ Holds(c, E)
      /\ c.nBuckets \in Nat \ {0} /\ w \in Nat \ {0} /\ first \in Nat
    BY CalendarMembers, DayBounds DEF Searchable, Holds
<1>2. /\ turn \in 0 .. c.nBuckets - 1 /\ c.buckets[Cal!BucketAt(c, turn)] # << >>
      /\ ev.ts < Cal!TopAt(c, turn)
    BY DEF Cal!ThisYear, Cal!Turns
<1>3. /\ first + turn \in Nat /\ Cal!BucketAt(c, turn) \in 0 .. c.nBuckets - 1
      /\ Cal!TopAt(c, turn) = Cal!UInt((first + turn + 1) * w)
    BY <1>1, <1>2, DayOfTurn
<1>4. /\ ev \in E /\ ev \in Cal!Event /\ Cal!Hash(c, ev.ts) = Cal!BucketAt(c, turn)
      /\ \A e \in E : Cal!Hash(c, e.ts) = Cal!BucketAt(c, turn) => e = ev \/ Cal!KeyLess(ev, e)
    BY <1>1, <1>2, <1>3, HeadOfBucket DEF Cal!NextAt
<1>5. Day(c, ev.ts) = first + turn /\ ev.ts < (first + turn + 1) * w
      /\ (first + turn + 1) * w \in Nat
    <2>1. ev.ts \in Nat /\ first + turn + 1 \in Nat /\ (first + turn + 1) * w \in Nat
        BY <1>1, <1>3, <1>4, ProductNat DEF Cal!Event
    <2>2. Cal!UInt((first + turn + 1) * w) \in Nat
          /\ Cal!UInt((first + turn + 1) * w) <= (first + turn + 1) * w
        BY <2>1, UIntNat
    <2>3. ev.ts < (first + turn + 1) * w
        BY <1>2, <1>3, <2>1, <2>2
    <2>4. Day(c, ev.ts) < first + turn + 1 /\ Day(c, ev.ts) \in Nat
        BY <1>1, <2>1, <2>3, DayBounds
    <2>5. Day(c, ev.ts) <= first + turn
        BY <1>3, <2>4
    <2>6. Day(c, ev.ts) = first + turn
        BY <1>2, <1>4, <2>5, TurnOfDay
    <2> QED
        BY <2>1, <2>3, <2>6
<1>6. ASSUME NEW f \in E, f # ev PROVE Cal!KeyLess(ev, f)
    <2>1. f \in Cal!Event /\ f.ts \in Nat /\ ev.ts \in Nat /\ c.lastPrio <= f.ts
          /\ ev.ts <= Cal!MaxTime
        BY <1>4 DEF Searchable, Holds, Cal!Event
    <2>2. Day(c, f.ts) \in Nat /\ first <= Day(c, f.ts)
        BY <1>1, <2>1, DayBounds, DivMonotonic DEF Day
    <2>3. CASE Day(c, f.ts) > first + turn
        <3>1. first + turn + 1 <= Day(c, f.ts) /\ first + turn + 1 \in Nat
            BY <1>3, <2>2, <2>3
        <3>2. (first + turn + 1) * w <= f.ts
            BY <1>1, <2>1, <3>1, DayBounds
        <3>3. ev.ts < f.ts
            BY <1>5, <2>1, <3>2
        <3> QED
            BY <3>3 DEF Cal!KeyLess
    <2>4. CASE Day(c, f.ts) = first + turn
        BY <1>2, <1>4, <1>6, <2>4, TurnOfDay
    <2>5. CASE Day(c, f.ts) < first + turn
        <3> DEFINE t == Day(c, f.ts) - first
                   g == Cal!NextAt(c, t)
                   top == (first + t + 1) * w
        <3>1. t \in 0 .. c.nBuckets - 1 /\ t < turn /\ first + t = Day(c, f.ts)
              /\ first + t \in Nat
            BY <1>1, <1>2, <2>2, <2>5
        <3>2. Cal!Hash(c, f.ts) = Cal!BucketAt(c, t)
            BY <3>1, TurnOfDay
        <3>3. c.buckets[Cal!BucketAt(c, t)] # << >>
              /\ Cal!BucketAt(c, t) \in 0 .. c.nBuckets - 1
            BY <1>1, <3>2, BucketNotEmpty
        <3>4. g \in E /\ g \in Cal!Event /\ (f = g \/ Cal!KeyLess(g, f))
            BY <1>1, <3>2, <3>3, HeadOfBucket DEF Cal!NextAt
        <3>5. g.ts <= f.ts /\ g.ts \in Nat
            <4>1. g.ts <= f.ts
                BY <2>1, <3>4, KeyLessOnEvents
            <4> QED
                BY <3>4, <4>1 DEF Cal!Event
        <3>6. t \notin Cal!ThisYear(c) /\ t \in Cal!Turns(c)
            BY <1>2, <3>1, <3>3 DEF Cal!Turns
        <3>7. ~ (g.ts < Cal!TopAt(c, t))
            BY <3>6 DEF Cal!ThisYear
        <3>8. Cal!TopAt(c, t) = Cal!UInt(top)
            BY <1>1, <3>1, DayOfTurn
        <3>9. first + t + 1 \in Nat /\ Day(c, f.ts) < first + t + 1
            BY <3>1, <2>2
        <3>10. top \in Nat /\ f.ts < top
            <4> DEFINE x == first + t + 1
            <4>1. x \in Nat /\ Day(c, f.ts) < x
                BY <3>9
            <4> HIDE DEF x
            <4>2. x * c.width \in Nat /\ f.ts < x * c.width
                BY <1>1, <2>1, <4>1, DayBounds
            <4> QED
                BY <4>2 DEF x
        <3>11. first + t + 1 <= first + turn
            BY <1>1, <1>2, <3>1
        <3>12. top <= ev.ts
            BY <1>1, <1>5, <2>1, <3>9, <3>11, DayBounds
        <3> HIDE DEF top, g, t
        <3>13. Cal!UInt(top) \in Nat /\ (top < Word => Cal!UInt(top) = top)
            BY <3>10, UIntNat
        <3>14. ~ (top < Word)
            BY <2>1, <3>5, <3>7, <3>8, <3>10, <3>13
        <3> QED
            BY <2>1, <3>10, <3>12, <3>14, MaxTimeInWord, WordAssumption
    <2> QED
        BY <1>3, <2>2, <2>3, <2>4, <2>5
<1>7. Cal!TopAt(c, turn) = Cal!DayTop(c, ev.ts)
    BY <1>3, <1>5 DEF Cal!DayTop, Day
<1> QED
    BY <1>4, <1>6, <1>7 DEF Cal!IsEarliest

LEMMA EarliestIsUnique ==
    ASSUME NEW E, E \subseteq Cal!Event, NEW e, NEW f, Cal!IsEarliest(e, E), Cal!IsEarliest(f, E)
    PROVE  e = f
BY DEF Cal!IsEarliest, Cal!KeyLess, Cal!Event

\* Otherwise the earliest of the heads is the earliest event.
LEMMA HeadsHaveEarliest ==
    ASSUME NEW c, NEW E, Searchable(c, E), E # {}
    PROVE  LET heads == {Cal!NextAt(c, u) : u \in Cal!Turns(c)} IN
           /\ \E turn \in Cal!Turns(c) : Cal!IsEarliest(Cal!NextAt(c, turn), heads)
           /\ \A turn \in Cal!Turns(c) : Cal!IsEarliest(Cal!NextAt(c, turn), heads) =>
                 /\ Cal!IsEarliest(Cal!NextAt(c, turn), E)
                 /\ Cal!BucketAt(c, turn) \in 0 .. c.nBuckets - 1
                 /\ c.buckets[Cal!BucketAt(c, turn)] # << >>
<1> DEFINE heads == {Cal!NextAt(c, u) : u \in Cal!Turns(c)}
<1>1. /\ c \in CalendarSet /\ AtDay(c) /\ Holds(c, E) /\ E \subseteq Cal!Event
         /\ DistinctUids(E)
      /\ c.nBuckets \in Nat \ {0}
    BY CalendarMembers DEF Searchable, Holds
<1>2. ASSUME NEW u \in Cal!Turns(c)
      PROVE  /\ Cal!BucketAt(c, u) \in 0 .. c.nBuckets - 1
                /\ c.buckets[Cal!BucketAt(c, u)] # << >>
             /\ Cal!NextAt(c, u) \in E
             /\ \A e \in E : Cal!Hash(c, e.ts) = Cal!BucketAt(c, u) => e = Cal!NextAt(c, u) \/ Cal!KeyLess(Cal!NextAt(c, u), e)
    <2>1. u \in 0 .. c.nBuckets - 1 /\ c.buckets[Cal!BucketAt(c, u)] # << >>
        BY DEF Cal!Turns
    <2>2. Cal!BucketAt(c, u) \in 0 .. c.nBuckets - 1
        BY <1>1, <2>1, DayOfTurn
    <2> QED
        BY <1>1, <2>1, <2>2, HeadOfBucket DEF Cal!NextAt
<1>3. ASSUME NEW e \in E
      PROVE  \E u \in Cal!Turns(c) : Cal!Hash(c, e.ts) = Cal!BucketAt(c, u)
    <2>1. Cal!Hash(c, e.ts) \in 0 .. c.nBuckets - 1 /\ c.buckets[Cal!Hash(c, e.ts)] # << >>
        BY <1>1, BucketNotEmpty
    <2>2. c.lastBucket \in Nat /\ c.lastBucket < c.nBuckets
        <3>1. c.lastBucket \in 0 .. c.nBuckets - 1
            BY <1>1, HashRange, CalendarMembers DEF AtDay
        <3> QED
            BY <1>1, <3>1
    <2>3. Cal!Hash(c, e.ts) \in Nat /\ Cal!Hash(c, e.ts) < c.nBuckets
        BY <1>1, <2>1
    <2>4. \E t \in 0 .. c.nBuckets - 1 : (c.lastBucket + t) % c.nBuckets = Cal!Hash(c, e.ts)
        BY <1>1, <2>2, <2>3, ModSurjective
    <2> QED
        BY <2>1, <2>4 DEF Cal!BucketAt, Cal!Turns
<1>4. PICK e \in E : Cal!IsEarliest(e, E)
    BY <1>1, EarliestExists
<1>5. PICK u \in Cal!Turns(c) : Cal!Hash(c, e.ts) = Cal!BucketAt(c, u)
    BY <1>3
<1>6. Cal!NextAt(c, u) = e
    <2>1. Cal!NextAt(c, u) \in E /\ (e = Cal!NextAt(c, u) \/ Cal!KeyLess(Cal!NextAt(c, u), e))
        BY <1>2, <1>5
    <2>2. e = Cal!NextAt(c, u) \/ Cal!KeyLess(e, Cal!NextAt(c, u))
        BY <1>4, <2>1 DEF Cal!IsEarliest
    <2> QED
        BY <1>1, <2>1, <2>2, KeyLessOnEvents
<1>7. heads \subseteq E /\ e \in heads
    BY <1>2, <1>6
<1>8. Cal!IsEarliest(e, heads)
    BY <1>4, <1>7 DEF Cal!IsEarliest
<1>9. ASSUME NEW turn \in Cal!Turns(c), Cal!IsEarliest(Cal!NextAt(c, turn), heads)
      PROVE  Cal!NextAt(c, turn) = e
    <2> HIDE DEF heads
    <2> QED
        BY <1>1, <1>7, <1>8, <1>9, EarliestIsUnique
<1> QED
    BY <1>2, <1>4, <1>6, <1>8, <1>9

\* DoRemoveNext takes out the earliest event and goes to its day.
LEMMA DoRemoveNextHolds ==
    ASSUME NEW c, NEW E, Searchable(c, E), E # {}, NEW r, r = Cal!DoRemoveNext(c)
    PROVE  /\ Cal!IsEarliest(r.event, E)
           /\ Searchable(r.calendar, E \ {r.event})
           /\ r.calendar.nBuckets = c.nBuckets /\ r.calendar.width = c.width
           /\ r.calendar.lastPrio = r.event.ts
<1>1. /\ c \in CalendarSet /\ AtDay(c) /\ Holds(c, E) /\ E \subseteq Cal!Event
      /\ c.nBuckets \in Nat \ {0} /\ c.width \in Nat \ {0}
    BY CalendarMembers DEF Searchable, Holds
<1>2. ASSUME NEW turn, Cal!BucketAt(c, turn) \in 0 .. c.nBuckets - 1,
             c.buckets[Cal!BucketAt(c, turn)] # << >>, Cal!IsEarliest(Cal!NextAt(c, turn), E),
             r = Cal!Take(c, turn, Cal!Hash(c, Cal!NextAt(c, turn).ts), Cal!DayTop(c, Cal!NextAt(c, turn).ts))
      PROVE  /\ Cal!IsEarliest(r.event, E)
             /\ Searchable(r.calendar, E \ {r.event})
             /\ r.calendar.nBuckets = c.nBuckets /\ r.calendar.width = c.width
             /\ r.calendar.lastPrio = r.event.ts
    <2> DEFINE ev == Cal!NextAt(c, turn)
               d  == r.calendar
    <2>1. ev \in E /\ ev.ts \in Nat
        BY <1>1, <1>2 DEF Cal!IsEarliest, Cal!Event
    <2>2. Cal!Hash(c, ev.ts) \in Nat /\ Cal!DayTop(c, ev.ts) \in Nat
        BY <1>1, <2>1, HashRange, DayTopNat
    <2>3. /\ r.event = ev /\ Holds(d, E \ {ev})
          /\ d.nBuckets = c.nBuckets /\ d.width = c.width
          /\ d.lastBucket = Cal!Hash(c, ev.ts) /\ d.lastPrio = ev.ts
             /\ d.bucketTop = Cal!DayTop(c, ev.ts)
        <3> DEFINE bucket == Cal!Hash(c, ev.ts)
                   top    == Cal!DayTop(c, ev.ts)
        <3>1. bucket \in Nat /\ top \in Nat /\ r = Cal!Take(c, turn, bucket, top)
            BY <1>2, <2>2
        <3> HIDE DEF bucket, top
        <3>3. Holds(c, E) /\ Cal!BucketAt(c, turn) \in 0 .. c.nBuckets - 1
              /\ c.buckets[Cal!BucketAt(c, turn)] # << >>
            BY <1>1, <1>2
        <3>2. Taken(r, c, E, turn, bucket, top)
            BY <3>1, <3>3, TakeHolds
        <3> QED
            BY <3>2 DEF bucket, top, Taken
    <2> HIDE DEF d, ev
    <2>4. AtDay(d)
        BY <2>3 DEF AtDay, Cal!Hash, Cal!DayTop
    <2>5. \A e \in E \ {ev} : d.lastPrio <= e.ts /\ e.ts <= Cal!MaxTime
        <3>1. \A e \in E \ {ev} : ev.ts <= e.ts
            BY <1>1, <1>2, <2>1, KeyLessOnEvents DEF Cal!IsEarliest, ev
        <3> QED
            BY <2>3, <3>1 DEF Searchable
    <2> QED
        BY <1>2, <2>3, <2>4, <2>5 DEF Searchable, d, ev
<1>3. CASE Cal!ThisYear(c) # {}
    <2> DEFINE turn == Cal!Min(Cal!ThisYear(c))
    <2>1. Cal!ThisYear(c) \subseteq Nat
        BY <1>1 DEF Cal!ThisYear, Cal!Turns
    <2>2. turn \in Cal!ThisYear(c) /\ \A t \in Cal!ThisYear(c) : turn <= t
        BY <1>3, <2>1, MinIsLeast
    <2>3. r = Cal!Take(c, turn, Cal!BucketAt(c, turn), Cal!TopAt(c, turn))
        BY <1>3 DEF Cal!DoRemoveNext
    <2> HIDE DEF turn
    <2>4. /\ Cal!IsEarliest(Cal!NextAt(c, turn), E)
          /\ Cal!BucketAt(c, turn) = Cal!Hash(c, Cal!NextAt(c, turn).ts)
          /\ Cal!TopAt(c, turn) = Cal!DayTop(c, Cal!NextAt(c, turn).ts)
        BY <2>2, FoundIsEarliest
    <2>5. Cal!BucketAt(c, turn) \in 0 .. c.nBuckets - 1
          /\ c.buckets[Cal!BucketAt(c, turn)] # << >>
        BY <1>1, <2>2, DayOfTurn DEF Cal!ThisYear, Cal!Turns
    <2>6. r = Cal!Take(c, turn, Cal!Hash(c, Cal!NextAt(c, turn).ts), Cal!DayTop(c, Cal!NextAt(c, turn).ts))
        BY <2>3, <2>4
    <2> QED
        BY <1>2, <2>4, <2>5, <2>6
<1>4. CASE Cal!ThisYear(c) = {}
    <2> DEFINE turn == CHOOSE t \in Cal!Turns(c) :
                           Cal!IsEarliest(Cal!NextAt(c, t), {Cal!NextAt(c, u) : u \in Cal!Turns(c)})
    <2>1. turn \in Cal!Turns(c)
          /\ Cal!IsEarliest(Cal!NextAt(c, turn), {Cal!NextAt(c, u) : u \in Cal!Turns(c)})
        BY HeadsHaveEarliest
    <2>2. r = Cal!Take(c, turn, Cal!Hash(c, Cal!NextAt(c, turn).ts), Cal!DayTop(c, Cal!NextAt(c, turn).ts))
        BY <1>4 DEF Cal!DoRemoveNext
    <2> HIDE DEF turn
    <2>3. /\ Cal!IsEarliest(Cal!NextAt(c, turn), E)
          /\ Cal!BucketAt(c, turn) \in 0 .. c.nBuckets - 1
             /\ c.buckets[Cal!BucketAt(c, turn)] # << >>
        BY <2>1, HeadsHaveEarliest
    <2> QED
        BY <1>2, <2>2, <2>3
<1> QED
    BY <1>3, <1>4
-----------------------------------------------------------------------------
(* Taking samples and putting them back.                                   *)

\* The calendar d has the sizes of c and the current day of o.
Redated(d, c, o) ==
    /\ d.nBuckets = c.nBuckets /\ d.width = c.width
    /\ d.lastBucket = o.lastBucket /\ d.bucketTop = o.bucketTop /\ d.lastPrio = o.lastPrio

LEMMA RedatedHolds ==
    ASSUME NEW c, NEW E, Holds(c, E), NEW o \in CalendarSet, NEW d,
           d = [c EXCEPT !.lastBucket = o.lastBucket, !.bucketTop = o.bucketTop,
                         !.lastPrio = o.lastPrio]
    PROVE  Holds(d, E) /\ Redated(d, c, o)
<1>1. c \in CalendarSet
    BY DEF Holds
<1>2. c \in [buckets : UNION {[0 .. n - 1 -> Seq(Cal!Event)] : n \in Nat \ {0}},
             nBuckets : Nat \ {0}, width : Nat \ {0}, lastPrio : Nat,
             lastBucket : Nat, bucketTop : Nat]
    BY <1>1 DEF CalendarSet
<1>3. o.lastBucket \in Nat /\ o.bucketTop \in Nat /\ o.lastPrio \in Nat
    BY CalendarMembers
<1>4. /\ d \in [buckets : UNION {[0 .. n - 1 -> Seq(Cal!Event)] : n \in Nat \ {0}},
               nBuckets : Nat \ {0}, width : Nat \ {0}, lastPrio : Nat,
               lastBucket : Nat, bucketTop : Nat]
      /\ d.buckets = c.buckets /\ d.nBuckets = c.nBuckets /\ d.width = c.width
      /\ d.lastBucket = o.lastBucket /\ d.bucketTop = o.bucketTop /\ d.lastPrio = o.lastPrio
    BY <1>2, <1>3
<1>5. d \in CalendarSet
    BY <1>1, <1>4 DEF CalendarSet
<1>6. \A ts : Cal!Hash(d, ts) = Cal!Hash(c, ts)
    BY <1>4 DEF Cal!Hash
<1>7. Holds(d, E)
    BY <1>4, <1>5, <1>6 DEF Holds
<1> QED
    BY <1>4, <1>7 DEF Redated
-----------------------------------------------------------------------------
\* The state of the loop of CalculateNewWidth after i samples.
Sampled(s, c, E, i) ==
    /\ s.samples \in Seq(Cal!Event) /\ Len(s.samples) = i
    /\ \A j, k \in DOMAIN s.samples : j # k => s.samples[j].uid # s.samples[k].uid
    /\ Cal!ToSet(s.samples) \subseteq E
    /\ Searchable(s.calendar, E \ Cal!ToSet(s.samples))
    /\ IsFiniteSet(E \ Cal!ToSet(s.samples))
    /\ Cardinality(E \ Cal!ToSet(s.samples)) = Cardinality(E) - i
    /\ s.calendar.nBuckets = c.nBuckets /\ s.calendar.width = c.width

\* A sample more.
LEMMA SampleStep ==
    ASSUME NEW c, NEW E, IsFiniteSet(E), E \subseteq Cal!Event, DistinctUids(E),
           NEW s, NEW i \in Nat, Sampled(s, c, E, i), i < Cardinality(E)
    PROVE  Sampled(Cal!Sample(s), c, E, i + 1)
<1> DEFINE F == E \ Cal!ToSet(s.samples)
           r == Cal!DoRemoveNext(s.calendar)
           t == Append(s.samples, r.event)
<1>1. Cardinality(E) \in Nat /\ Cardinality(F) = Cardinality(E) - i /\ IsFiniteSet(F)
    BY FS_CardinalityType DEF Sampled
<1>2. F # {}
    BY <1>1, FS_EmptySet
<1>3. Searchable(s.calendar, F)
    BY DEF Sampled
<1> HIDE DEF F, r
<1>4. /\ Cal!IsEarliest(r.event, F)
      /\ Searchable(r.calendar, F \ {r.event})
      /\ r.calendar.nBuckets = s.calendar.nBuckets /\ r.calendar.width = s.calendar.width
    BY <1>2, <1>3, DoRemoveNextHolds DEF r
<1>5. r.event \in F /\ r.event \in E /\ r.event \in Cal!Event
      /\ r.event \notin Cal!ToSet(s.samples)
    BY <1>4 DEF Cal!IsEarliest, F
<1>6. /\ s.samples \in Seq(Cal!Event) /\ Len(s.samples) = i
         /\ Cal!ToSet(s.samples) \subseteq E
      /\ \A j, k \in DOMAIN s.samples : j # k => s.samples[j].uid # s.samples[k].uid
    BY DEF Sampled
<1>7. /\ t \in Seq(Cal!Event) /\ Len(t) = i + 1 /\ DOMAIN t = 1 .. i + 1
      /\ \A j \in 1 .. i + 1 : t[j] = IF j <= i THEN s.samples[j] ELSE r.event
    BY <1>5, <1>6
<1> HIDE DEF t
<1>8. \A j \in 1 .. i : s.samples[j] \in E /\ s.samples[j].uid # r.event.uid
    <2>1. \A j \in 1 .. i : s.samples[j] \in Cal!ToSet(s.samples)
        BY <1>6 DEF Cal!ToSet
    <2> QED
        BY <1>5, <1>6, <2>1 DEF DistinctUids
<1>9. ASSUME NEW j \in DOMAIN t, NEW k \in DOMAIN t, j # k PROVE t[j].uid # t[k].uid
    <2>1. CASE j <= i /\ k <= i
        <3>1. j \in DOMAIN s.samples /\ k \in DOMAIN s.samples
            BY <1>6, <1>7, <2>1
        <3> QED
            BY <1>6, <1>7, <1>9, <2>1, <3>1
    <2>2. CASE j <= i /\ ~ (k <= i)
        BY <1>7, <1>8, <2>2
    <2>3. CASE ~ (j <= i) /\ k <= i
        BY <1>7, <1>8, <2>3
    <2> QED
        BY <1>7, <1>9, <2>1, <2>2, <2>3
<1>10. Cal!ToSet(t) = Cal!ToSet(s.samples) \cup {r.event}
    <2>1. \A j \in 1 .. i + 1 : t[j] \in Cal!ToSet(s.samples) \cup {r.event}
        BY <1>6, <1>7 DEF Cal!ToSet
    <2>2. \A j \in 1 .. i : s.samples[j] = t[j] /\ j \in DOMAIN t
        BY <1>7
    <2>3. r.event = t[i + 1] /\ i + 1 \in DOMAIN t
        BY <1>7
    <2>4. DOMAIN s.samples = 1 .. i
        BY <1>6
    <2> QED
        BY <1>7, <2>1, <2>2, <2>3, <2>4 DEF Cal!ToSet
<1>11. E \ Cal!ToSet(t) = F \ {r.event} /\ Cal!ToSet(t) \subseteq E
    BY <1>5, <1>6, <1>10 DEF F
<1>12. IsFiniteSet(F \ {r.event}) /\ Cardinality(F \ {r.event}) = Cardinality(F) - 1
    BY <1>1, <1>5, FS_RemoveElement
<1>13. Cardinality(F \ {r.event}) = Cardinality(E) - (i + 1)
    BY <1>1, <1>12
<1>14. Cal!Sample(s).calendar = r.calendar /\ Cal!Sample(s).samples = t
    BY DEF Cal!Sample, r, t
<1>15. s.calendar.nBuckets = c.nBuckets /\ s.calendar.width = c.width
    BY DEF Sampled
<1> QED
    BY <1>4, <1>7, <1>9, <1>11, <1>12, <1>13, <1>14, <1>15 DEF Sampled

\* The loop of CalculateNewWidth takes n events out, and nothing else changes.
LEMMA SamplesHold ==
    ASSUME NEW c, NEW E, Searchable(c, E), IsFiniteSet(E), NEW n \in Nat, n <= Cardinality(E)
    PROVE  Sampled(Cal!Samples(c, n), c, E, n)
<1> DEFINE first == [calendar |-> c, samples |-> <<>>]
           T == [calendar : CalendarSet, samples : Seq(Cal!Event)]
           S == [i \in 0 .. n |-> {s \in T : Sampled(s, c, E, i)}]
           step == [p \in (1 .. n) \X T |-> Cal!Sample(p[2])]
           Eq(f) == f = [i \in 0 .. n |-> IF i = 0 THEN first ELSE Cal!Sample(f[i - 1])]
<1>1. c \in CalendarSet /\ E \subseteq Cal!Event /\ DistinctUids(E) /\ 0 \in 0 .. n
      /\ n \in 0 .. n
      /\ Cardinality(E) \in Nat
    BY FS_CardinalityType DEF Searchable, Holds
<1>2. first \in S[0]
    <2>1. Cal!ToSet(<<>>) = {} /\ <<>> \in Seq(Cal!Event) /\ Len(<<>>) = 0 /\ DOMAIN <<>> = {}
        BY EmptySeq DEF Cal!ToSet
    <2>2. first.calendar = c /\ first.samples = <<>> /\ E \ {} = E
        OBVIOUS
    <2> HIDE DEF first
    <2>3. Sampled(first, c, E, 0)
        <3>1. E \ Cal!ToSet(first.samples) = E /\ Cal!ToSet(first.samples) = {}
            BY <2>1, <2>2
        <3>2. Cardinality(E) = Cardinality(E) - 0
            BY <1>1
        <3>3. first.samples \in Seq(Cal!Event) /\ Len(first.samples) = 0
              /\ DOMAIN first.samples = {}
            BY <2>1, <2>2
        <3> QED
            BY <2>2, <3>1, <3>2, <3>3 DEF Sampled
    <2>4. first \in T
        BY <1>1, <2>1 DEF first
    <2> QED
        BY <1>1, <2>3, <2>4
<1>3. ASSUME NEW i \in 1 .. n, NEW x \in S[i - 1]
      PROVE  x \in T /\ Cal!Sample(x) \in S[i]
    <2>1. i - 1 \in 0 .. n /\ i \in 0 .. n /\ i - 1 \in Nat /\ i - 1 < Cardinality(E)
          /\ i - 1 + 1 = i
        BY <1>1
    <2>2. x \in T /\ Sampled(x, c, E, i - 1)
        BY <1>3, <2>1
    <2>3. Sampled(Cal!Sample(x), c, E, i)
        <3>1. Sampled(Cal!Sample(x), c, E, i - 1 + 1)
            BY <1>1, <2>1, <2>2, SampleStep
        <3> QED
            BY <2>1, <3>1
    <2>4. Cal!Sample(x) \in T
        <3>1. Cal!Sample(x).calendar \in CalendarSet
              /\ Cal!Sample(x).samples \in Seq(Cal!Event)
            BY <2>3 DEF Sampled, Searchable, Holds
        <3>2. Cal!Sample(x) = [calendar |-> Cal!Sample(x).calendar, samples |-> Cal!Sample(x).samples]
            BY DEF Cal!Sample
        <3> QED
            BY <3>1, <3>2
    <2> QED
        BY <2>1, <2>2, <2>3, <2>4
<1> HIDE DEF S, T, first
<1>4. \A i \in 1 .. n : \A x \in S[i - 1] : step[<<i, x>>] \in S[i]
      /\ step[<<i, x>>] = Cal!Sample(x)
    BY <1>3
<1> HIDE DEF step
<1>5. PICK g : IsLoop(g, n, first, step) /\ \A i \in 0 .. n : g[i] \in S[i]
    <2>1. \A i \in 1 .. n : \A x \in S[i - 1] : step[<<i, x>>] \in S[i]
        BY <1>4
    <2> QED
        BY <1>2, <2>1, LoopExists
<1>6. Eq(g)
    <2>1. ASSUME NEW i \in 0 .. n, i # 0 PROVE step[<<i, g[i - 1]>>] = Cal!Sample(g[i - 1])
        <3>1. i \in 1 .. n /\ i - 1 \in 0 .. n
            BY <2>1
        <3> QED
            BY <1>4, <1>5, <3>1
    <2>2. g = [i \in 0 .. n |-> IF i = 0 THEN first ELSE step[<<i, g[i - 1]>>]]
        BY <1>5 DEF IsLoop
    <2>3. [i \in 0 .. n |-> IF i = 0 THEN first ELSE step[<<i, g[i - 1]>>]]
          = [i \in 0 .. n |-> IF i = 0 THEN first ELSE Cal!Sample(g[i - 1])]
        BY <2>1
    <2> QED
        BY <2>2, <2>3
<1> DEFINE loop == CHOOSE f : Eq(f)
<1>7. Eq(loop)
    <2> HIDE DEF Eq
    <2> QED
        BY <1>6, Zenon
<1>8. Cal!Samples(c, n) = loop[n]
    BY DEF Cal!Samples, first
<1> HIDE DEF loop
<1>9. loop[0] = first /\ \A i \in 1 .. n : loop[i] = Cal!Sample(loop[i - 1])
    BY <1>1, <1>7
<1>10. loop[n] \in S[n]
    <2>1. \A i \in 1 .. n : loop[i - 1] \in S[i - 1] => loop[i] \in S[i]
        BY <1>3, <1>9
    <2>2. \A i \in 0 .. n : loop[i] \in S[i]
        BY <1>2, <1>9, <2>1, ChainHolds
    <2> QED
        BY <1>1, <2>2
<1> QED
    BY <1>1, <1>8, <1>10 DEF S

\* Putting the samples back restores the calendar.
LEMMA PutBackHolds ==
    ASSUME NEW c, NEW E, Searchable(c, E), NEW n \in Nat, NEW s, Sampled(s, c, E, n)
    PROVE  Searchable(Cal!PutBack(c, s), E) /\ SameDays(Cal!PutBack(c, s), c)
<1> DEFINE D == Cal!ToSet(s.samples)
           a == Cal!InsertAll(s.calendar, s.samples)
           d == Cal!PutBack(c, s)
<1>1. /\ Holds(s.calendar, E \ D) /\ s.samples \in Seq(Cal!Event) /\ D \subseteq E
      /\ \A j, k \in DOMAIN s.samples : j # k => s.samples[j].uid # s.samples[k].uid
      /\ s.calendar.nBuckets = c.nBuckets /\ s.calendar.width = c.width
    BY DEF Sampled, Searchable
<1>2. c \in CalendarSet /\ DistinctUids(E)
    BY DEF Searchable, Holds
<1>3. \A j \in DOMAIN s.samples, e \in E \ D : e.uid # s.samples[j].uid
    <2>1. \A j \in DOMAIN s.samples : s.samples[j] \in D
        BY DEF Cal!ToSet
    <2> QED
        BY <1>1, <1>2, <2>1 DEF DistinctUids
<1> HIDE DEF D, a, d
<1>4. Holds(a, (E \ D) \cup D) /\ SameDays(a, s.calendar)
    BY <1>1, <1>3, InsertAllHolds DEF D, a
<1>5. Holds(a, E)
    <2>1. (E \ D) \cup D = E
        BY <1>1
    <2> QED
        BY <1>4, <2>1
<1>6. d = [a EXCEPT !.lastBucket = c.lastBucket, !.bucketTop = c.bucketTop, !.lastPrio = c.lastPrio]
    BY DEF Cal!PutBack, d, a
<1>7. Holds(d, E) /\ Redated(d, a, c)
    BY <1>2, <1>5, <1>6, RedatedHolds
<1>8. SameDays(d, c)
    BY <1>1, <1>4, <1>7 DEF SameDays, Redated
<1>9. AtDay(d)
    BY <1>8, SameDaysAtDay DEF Searchable
<1> QED
    BY <1>7, <1>8, <1>9 DEF Searchable, d, Redated
-----------------------------------------------------------------------------
(* The width of a day, and resizing.                                       *)

\* A separation that is negative wraps around to a number.
LEMMA UIntOfInt ==
    ASSUME NEW x \in Int
    PROVE  Cal!UInt(x) \in Nat
BY WordAssumption DEF Cal!UInt

\* A day is at least one tick long, whatever the separations are and however
\* their sums wrap around: Hash never divides by 0.
LEMMA WidthPositive ==
    ASSUME NEW samples \in Seq(Cal!Event), Len(samples) >= 1
    PROVE  Cal!WidthOf(samples) \in Nat \ {0}
<1> DEFINE last == Len(samples) - 1
           separation(i) == Cal!UInt(samples[i + 1].ts - samples[i].ts)
           totalOf(f) == f = [i \in 0 .. last |->
                                 IF i = 0 THEN 0 ELSE Cal!UInt(f[i - 1] + separation(i))]
           total == CHOOSE f : totalOf(f)
           twiceAvg == Cal!UInt((total[last] \div last) * 2)
           added(i) == IF separation(i) <= twiceAvg THEN separation(i) ELSE 0
           S == [i \in 0 .. last |-> Nat]
           step == [p \in (1 .. last) \X Nat |-> Cal!UInt(p[2] + added(p[1]))]
           Eq(f) == f = [i \in 0 .. last |->
                            IF i = 0 THEN 0 ELSE Cal!UInt(f[i - 1] + added(i))]
<1>1. last \in Nat /\ 0 \in 0 .. last /\ last \in 0 .. last
    OBVIOUS
<1>2. ASSUME NEW i \in 1 .. last PROVE separation(i) \in Nat
    <2>1. samples[i] \in Cal!Event /\ samples[i + 1] \in Cal!Event
        OBVIOUS
    <2>2. samples[i].ts \in Nat /\ samples[i + 1].ts \in Nat
        BY <2>1 DEF Cal!Event
    <2>3. samples[i + 1].ts - samples[i].ts \in Int
        BY <2>2
    <2> QED
        BY <2>3, UIntOfInt
<1> HIDE DEF last, separation, total
<1>3. \A i \in 1 .. last : added(i) \in Nat
    BY <1>2
<1> HIDE DEF added, twiceAvg
<1>4. ASSUME NEW i \in 1 .. last, NEW x \in Nat PROVE Cal!UInt(x + added(i)) \in Nat
    <2>1. x + added(i) \in Int
        BY <1>3
    <2> QED
        BY <2>1, UIntOfInt
<1>5. PICK g : IsLoop(g, last, 0, step) /\ \A i \in 0 .. last : g[i] \in S[i]
    <2>1. 0 \in S[0]
        BY <1>1
    <2>2. \A i \in 1 .. last : \A x \in S[i - 1] : step[<<i, x>>] \in S[i]
        <3>1. \A i \in 1 .. last : i - 1 \in 0 .. last /\ i \in 0 .. last
            BY <1>1
        <3> QED
            BY <1>4, <3>1
    <2> HIDE DEF S, step
    <2> QED
        BY <1>1, <2>1, <2>2, LoopExists
<1>6. Eq(g)
    <2>1. ASSUME NEW i \in 0 .. last, i # 0 PROVE step[<<i, g[i - 1]>>] = Cal!UInt(g[i - 1] + added(i))
        <3>1. i \in 1 .. last /\ i - 1 \in 0 .. last
            BY <1>1, <2>1
        <3>2. g[i - 1] \in Nat
            BY <1>5, <3>1
        <3> QED
            BY <3>1, <3>2
    <2> HIDE DEF step
    <2>2. g = [i \in 0 .. last |-> IF i = 0 THEN 0 ELSE step[<<i, g[i - 1]>>]]
        BY <1>5 DEF IsLoop
    <2>3. [i \in 0 .. last |-> IF i = 0 THEN 0 ELSE step[<<i, g[i - 1]>>]]
          = [i \in 0 .. last |-> IF i = 0 THEN 0 ELSE Cal!UInt(g[i - 1] + added(i))]
        BY <2>1
    <2> QED
        BY <2>2, <2>3
<1> DEFINE close == CHOOSE f : Eq(f)
<1>7. Eq(close)
    <2> HIDE DEF Eq
    <2> QED
        BY <1>6, Zenon
<1> DEFINE width == Cal!Max({Cal!UInt(3 * close[last]), 1})
<1>8. Cal!WidthOf(samples) = width
    BY DEF Cal!WidthOf, last, separation, total, twiceAvg, added
<1> HIDE DEF close
<1>9. close[last] \in Nat
    <2>1. close[0] = 0 /\ \A i \in 1 .. last : close[i] = Cal!UInt(close[i - 1] + added(i))
        BY <1>1, <1>7
    <2>2. close[0] \in S[0]
        BY <1>1, <2>1
    <2>3. \A i \in 1 .. last : close[i - 1] \in S[i - 1] => close[i] \in S[i]
        <3>1. \A i \in 1 .. last : i - 1 \in 0 .. last /\ i \in 0 .. last
            BY <1>1
        <3> QED
            BY <1>4, <2>1, <3>1
    <2>4. \A i \in 0 .. last : close[i] \in S[i]
        <3> HIDE DEF S
        <3> QED
            BY <1>1, <2>2, <2>3, ChainHolds
    <2> QED
        BY <1>1, <2>4
<1>10. Cal!UInt(3 * close[last]) \in Nat
    <2>1. 3 * close[last] \in Nat
        BY <1>9
    <2> QED
        BY <2>1, UIntNat
<1>11. width \in Nat \ {0}
    <2> DEFINE u == Cal!UInt(3 * close[last])
    <2>1. u \in Nat
        BY <1>10
    <2> HIDE DEF u
    <2>2. \E x \in {u, 1} : \A y \in {u, 1} : x >= y
        <3>1. CASE u >= 1
            BY <2>1, <3>1
        <3>2. CASE ~ (u >= 1)
            BY <2>1, <3>2
        <3> QED
            BY <3>1, <3>2
    <2>3. Cal!Max({u, 1}) \in {u, 1} /\ Cal!Max({u, 1}) >= 1
        BY <2>2 DEF Cal!Max
    <2>4. Cal!Max({u, 1}) \in Nat \ {0}
        BY <2>1, <2>3
    <2> QED
        BY <2>4 DEF u
<1> QED
    BY <1>8, <1>11

\* There are samples, and never more than events.
LEMMA NSamplesEnough ==
    ASSUME NEW q \in Nat, q >= 2
    PROVE  Cal!NSamples(q) \in Nat /\ Cal!NSamples(q) >= 1 /\ Cal!NSamples(q) <= q
<1>1. CASE q <= 5
    BY <1>1 DEF Cal!NSamples
<1>2. CASE q > 5
    <2> DEFINE x == 5 + q \div 10
    <2>1. x \in Nat /\ x >= 1 /\ x <= q
        BY <1>2
    <2> HIDE DEF x
    <2>2. {x, 25} \subseteq Nat
        BY <2>1
    <2>3. Cal!Min({x, 25}) \in {x, 25} /\ Cal!Min({x, 25}) <= x
        BY <2>2, MinIsLeast
    <2>4. Cal!NSamples(q) = Cal!Min({x, 25})
        BY <1>2 DEF Cal!NSamples, x
    <2> QED
        BY <2>1, <2>3, <2>4
<1> QED
    BY <1>1, <1>2

\* A resizing keeps the events and the current day, and gives the buckets asked
\* for.
Resized(d, c, E, nBuckets) ==
    /\ Searchable(d, E) /\ d.nBuckets = nBuckets /\ d.lastPrio = c.lastPrio

LEMMA ResizeHolds ==
    ASSUME NEW c, NEW E, Searchable(c, E), IsFiniteSet(E), NEW q, q = Cardinality(E),
           NEW nBuckets \in Nat \ {0}
    PROVE  Resized(Cal!Resize(c, q, nBuckets), c, E, nBuckets)
<1>1. q \in Nat /\ Holds(c, E)
    BY FS_CardinalityType DEF Searchable
<1>2. ASSUME NEW d, Searchable(d, E), d.lastPrio = c.lastPrio, NEW width \in Nat \ {0}
      PROVE  Resized(Cal!DoResize(d, nBuckets, width), c, E, nBuckets)
    <2> DEFINE r == Cal!DoResize(d, nBuckets, width)
    <2>1. Holds(d, E)
        BY <1>2 DEF Searchable
    <2>2. Holds(r, E) /\ AtDay(r) /\ r.nBuckets = nBuckets /\ r.lastPrio = d.lastPrio
        BY <2>1, DoResizeHolds
    <2> HIDE DEF r
    <2> QED
        BY <1>2, <2>2 DEF Resized, Searchable, r
<1>3. CASE q < 2
    <2>1. Cal!Resize(c, q, nBuckets) = Cal!DoResize(c, nBuckets, 1)
        BY <1>3 DEF Cal!Resize
    <2> QED
        BY <1>2, <2>1
<1>4. CASE ~ (q < 2)
    <2> DEFINE s == Cal!Samples(c, Cal!NSamples(q))
               b == Cal!PutBack(c, s)
               w == Cal!WidthOf(s.samples)
    <2>1. Cal!NSamples(q) \in Nat /\ Cal!NSamples(q) >= 1 /\ Cal!NSamples(q) <= q
        BY <1>1, <1>4, NSamplesEnough
    <2>2. Sampled(s, c, E, Cal!NSamples(q))
        BY <2>1, SamplesHold
    <2>3. Cal!Resize(c, q, nBuckets) = Cal!DoResize(b, nBuckets, w)
        BY <1>4 DEF Cal!Resize
    <2> HIDE DEF s
    <2>4. Searchable(b, E) /\ SameDays(b, c)
        BY <2>1, <2>2, PutBackHolds
    <2>5. w \in Nat \ {0}
        <3>1. s.samples \in Seq(Cal!Event) /\ Len(s.samples) >= 1
            BY <2>1, <2>2 DEF Sampled
        <3> QED
            BY <3>1, WidthPositive
    <2>6. b.lastPrio = c.lastPrio
        BY <2>4 DEF SameDays
    <2> HIDE DEF b, w
    <2> QED
        BY <1>2, <2>3, <2>4, <2>5, <2>6
<1> QED
    BY <1>3, <1>4
-----------------------------------------------------------------------------
(* The inductive invariant of the calendar.                                *)

\* Occupancy of CalendarScheduler, for q events.
Occupied(c, q) ==
    /\ q <= 2 * c.nBuckets \/ c.nBuckets >= Cal!MaxBuckets
    /\ q >= c.nBuckets \div 2 \/ c.nBuckets = 2

\* What stays of a calendar that is resized or not.
Adjusted(d, c, E) ==
    /\ Searchable(d, E) /\ d.lastPrio = c.lastPrio /\ Occupied(d, Cardinality(E))

\* After an event more.
LEMMA ResizeUpHolds ==
    ASSUME NEW c, NEW E, Searchable(c, E), IsFiniteSet(E), NEW q, q = Cardinality(E),
           q >= 1, Occupied(c, q - 1)
    PROVE  Adjusted(Cal!ResizeUp(c, q), c, E)
<1>1. q \in Nat /\ c.nBuckets \in Nat \ {0}
    BY FS_CardinalityType, CalendarMembers DEF Searchable, Holds
<1>2. CASE q > c.nBuckets * 2 /\ c.nBuckets < Cal!MaxBuckets
    <2> DEFINE d == Cal!Resize(c, q, c.nBuckets * 2)
    <2>1. c.nBuckets * 2 \in Nat \ {0}
        BY <1>1
    <2>2. Resized(d, c, E, c.nBuckets * 2)
        BY <2>1, ResizeHolds
    <2>3. Cal!ResizeUp(c, q) = d
        BY <1>2 DEF Cal!ResizeUp
    <2> HIDE DEF d
    <2>4. d.nBuckets = c.nBuckets * 2
        BY <2>2 DEF Resized
    <2>5. Cal!MaxBuckets \in Nat
        BY DEF Cal!MaxBuckets
    <2>6. q - 1 <= 2 * c.nBuckets
        BY <1>1, <1>2, <2>5 DEF Occupied
    <2>7. q <= 2 * d.nBuckets /\ q >= d.nBuckets \div 2
        BY <1>1, <1>2, <2>4, <2>6
    <2> QED
        BY <2>2, <2>3, <2>7 DEF Resized, Adjusted, Occupied
<1>3. CASE ~ (q > c.nBuckets * 2 /\ c.nBuckets < Cal!MaxBuckets)
    <2>1. Cal!ResizeUp(c, q) = c
        BY <1>3 DEF Cal!ResizeUp
    <2>2. q <= 2 * c.nBuckets \/ c.nBuckets >= Cal!MaxBuckets
        BY <1>1, <1>3 DEF Cal!MaxBuckets
    <2>3. q >= c.nBuckets \div 2 \/ c.nBuckets = 2
        BY <1>1 DEF Occupied
    <2> QED
        BY <2>1, <2>2, <2>3 DEF Adjusted, Occupied
<1> QED
    BY <1>2, <1>3

\* After an event less.
LEMMA ResizeDownHolds ==
    ASSUME NEW c, NEW E, Searchable(c, E), IsFiniteSet(E), NEW q, q = Cardinality(E),
           Occupied(c, q + 1)
    PROVE  Adjusted(Cal!ResizeDown(c, q), c, E)
<1>1. q \in Nat /\ c.nBuckets \in Nat \ {0}
    BY FS_CardinalityType, CalendarMembers DEF Searchable, Holds
<1>2. CASE q < c.nBuckets \div 2
    <2> DEFINE d == Cal!Resize(c, q, c.nBuckets \div 2)
    <2>1. c.nBuckets \div 2 \in Nat \ {0}
        BY <1>1, <1>2
    <2>2. Resized(d, c, E, c.nBuckets \div 2)
        BY <2>1, ResizeHolds
    <2>3. Cal!ResizeDown(c, q) = d
        BY <1>2 DEF Cal!ResizeDown
    <2> HIDE DEF d
    <2>4. d.nBuckets = c.nBuckets \div 2
        BY <2>2 DEF Resized
    <2>5. q + 1 >= c.nBuckets \div 2
        BY <1>1 DEF Occupied
    <2>6. q <= 2 * d.nBuckets /\ q >= d.nBuckets \div 2
        BY <1>1, <1>2, <2>4, <2>5
    <2> QED
        BY <2>2, <2>3, <2>6 DEF Resized, Adjusted, Occupied
<1>3. CASE ~ (q < c.nBuckets \div 2)
    <2>1. Cal!ResizeDown(c, q) = c
        BY <1>3 DEF Cal!ResizeDown
    <2>2. q <= 2 * c.nBuckets \/ c.nBuckets >= Cal!MaxBuckets
        BY <1>1 DEF Occupied, Cal!MaxBuckets
    <2>3. q >= c.nBuckets \div 2
        BY <1>1, <1>3
    <2> QED
        BY <2>1, <2>2, <2>3 DEF Adjusted, Occupied
<1> QED
    BY <1>2, <1>3
-----------------------------------------------------------------------------
\* The inductive invariant: what the search relies on, that the simulator never
\* inserts before the last event removed, and that uids are new.
CalendarInv ==
    /\ Searchable(calendar, Cal!events)
    /\ IsFiniteSet(Cal!events)
    /\ m_qSize = Cardinality(Cal!events)
    /\ Occupied(calendar, m_qSize)
    /\ calendarNow \in Nat /\ calendar.lastPrio <= calendarNow
    /\ \A e \in Cal!events : calendarNow <= e.ts
    /\ calendarUid \in Nat
    /\ \A e \in Cal!events : e.uid < calendarUid

\* The events are those the calendar holds.
LEMMA EventsOfCalendar ==
    ASSUME NEW c, NEW E, Holds(c, E)
    PROVE  UNION {Cal!ToSet(c.buckets[i]) : i \in DOMAIN c.buckets} = E
<1>1. DOMAIN c.buckets = 0 .. c.nBuckets - 1
    BY CalendarMembers DEF Holds
<1>2. \A i \in 0 .. c.nBuckets - 1 : Cal!ToSet(c.buckets[i]) = {e \in E : Cal!Hash(c, e.ts) = i}
    BY DEF Holds
<1>3. \A e \in E : Cal!Hash(c, e.ts) \in 0 .. c.nBuckets - 1
    BY HashRange DEF Holds, Cal!Event
<1> QED
    BY <1>1, <1>2, <1>3

LEMMA EventsAfter ==
    ASSUME NEW E, Holds(calendar', E)
    PROVE  Cal!events' = E
BY EventsOfCalendar DEF Cal!events

LEMMA SearchableAfter ==
    ASSUME Searchable(calendar', Cal!events'), m_reverse' = m_reverse
    PROVE  Searchable(calendar, Cal!events)'
<1>1. Holds(calendar, Cal!events)'
    <2>1. Holds(calendar', Cal!events')
        BY DEF Searchable
    <2>2. (calendar \in CalendarSet)'
        BY <2>1 DEF Holds, CalendarSet, Cal!Event
    <2>3. (Cal!events \subseteq Cal!Event /\ DistinctUids(Cal!events))'
        BY <2>1 DEF Holds, Cal!Event, DistinctUids
    <2>4. ASSUME NEW i \in 0 .. calendar'.nBuckets - 1
          PROVE  /\ Sorted(calendar.buckets[i])'
                 /\ (Cal!ToSet(calendar.buckets[i])
                        = {e \in Cal!events : Cal!Hash(calendar, e.ts) = i})'
        <3>1. Sorted(calendar'.buckets[i])
              /\ Cal!ToSet(calendar'.buckets[i])
                   = {e \in Cal!events' : Cal!Hash(calendar', e.ts) = i}
            BY <2>1 DEF Holds
        <3>2. Sorted(calendar.buckets[i])'
            BY <3>1 DEF Sorted, Cal!Order, Cal!KeyLess
        <3>3. (Cal!ToSet(calendar.buckets[i])
                 = {e \in Cal!events : Cal!Hash(calendar, e.ts) = i})'
            BY <3>1 DEF Cal!ToSet, Cal!Hash
        <3> QED
            BY <3>2, <3>3
    <2> QED
        BY <2>2, <2>3, <2>4 DEF Holds
<1>2. AtDay(calendar)'
    BY DEF Searchable, AtDay, Cal!Hash, Cal!DayTop, Cal!UInt
<1>3. (\A e \in Cal!events : calendar.lastPrio <= e.ts /\ e.ts <= Cal!MaxTime)'
    BY DEF Searchable, Cal!MaxTime
<1> QED
    BY <1>1, <1>2, <1>3 DEF Searchable

LEMMA InitCalendarInv == Cal!Init => CalendarInv /\ Cal!events = {} /\ calendarNext = << >>
<1> SUFFICES ASSUME Cal!Init PROVE CalendarInv /\ Cal!events = {} /\ calendarNext = << >>
    OBVIOUS
<1>1. calendar = Cal!NewCalendar(2, 1, 0) /\ m_qSize = 0 /\ calendarNow \in Nat
      /\ calendarUid = 4
    BY StartsAssumption DEF Cal!Init, Cal!FirstUid
<1>2. Holds(calendar, {}) /\ AtDay(calendar) /\ calendar.nBuckets = 2 /\ calendar.lastPrio = 0
    BY <1>1, NewCalendarHolds
<1>3. Cal!events = {}
    BY <1>2, EventsOfCalendar DEF Cal!events
<1>4. Searchable(calendar, {})
    BY <1>2 DEF Searchable
<1>5. IsFiniteSet({}) /\ Cardinality({}) = 0
    BY FS_EmptySet
<1>6. Occupied(calendar, 0)
    BY <1>2 DEF Occupied
<1> QED
    BY <1>1, <1>2, <1>3, <1>4, <1>5, <1>6 DEF CalendarInv, Cal!Init

\* Insert keeps the invariant, and is the contract's.
LEMMA CalendarInsertStep ==
    ASSUME CalendarInv, NEW delay \in CalendarDelays, Cal!Insert(delay)
    PROVE  CalendarInv' /\ Cal!Contract!InsertSome
<1> DEFINE ev == [ts |-> calendarNow + delay, uid |-> calendarUid]
           E  == Cal!events \cup {ev}
           d  == Cal!DoInsert(calendar, ev)
<1>1. /\ Searchable(calendar, Cal!events) /\ IsFiniteSet(Cal!events)
         /\ m_qSize = Cardinality(Cal!events)
      /\ Occupied(calendar, m_qSize) /\ calendarNow \in Nat
         /\ calendar.lastPrio <= calendarNow
      /\ calendarUid \in Nat /\ \A e \in Cal!events : calendarNow <= e.ts
         /\ e.uid < calendarUid
    BY DEF CalendarInv
<1>2. /\ calendarNow + delay <= Cal!MaxTime /\ calendarUid' = calendarUid + 1
         /\ m_qSize' = m_qSize + 1
      /\ calendar' = Cal!ResizeUp(d, m_qSize') /\ m_reverse' = m_reverse
         /\ calendarNow' = calendarNow /\ calendarNext' = calendarNext
    BY DEF Cal!Insert
<1>3. delay \in Nat /\ ev \in Cal!Event /\ ev.ts = calendarNow + delay /\ ev.uid = calendarUid
    BY <1>1, CalendarDelaysAssumption DEF Cal!Event
<1> HIDE DEF ev
<1>4. Cal!events \subseteq Cal!Event /\ \A e \in Cal!events : e.uid \in Nat /\ e.uid # ev.uid
    BY <1>1, <1>3 DEF Searchable, Holds, Cal!Event
<1>5. ev \notin Cal!events
    BY <1>4
<1>6. Holds(d, E) /\ SameDays(d, calendar)
    BY <1>1, <1>3, <1>4, DoInsertHolds DEF Searchable
<1> HIDE DEF d
<1>7. Searchable(d, E)
    <2>1. AtDay(d)
        BY <1>1, <1>6, SameDaysAtDay DEF Searchable
    <2>2. d.lastPrio = calendar.lastPrio /\ calendar.lastPrio \in Nat
        BY <1>1, <1>6, CalendarMembers DEF SameDays, Searchable, Holds
    <2>3. \A e \in Cal!events : d.lastPrio <= e.ts /\ e.ts <= Cal!MaxTime
        BY <1>1, <2>2 DEF Searchable
    <2>4. d.lastPrio <= ev.ts /\ ev.ts <= Cal!MaxTime
        BY <1>1, <1>2, <1>3, <2>2
    <2> QED
        BY <1>6, <2>1, <2>3, <2>4 DEF Searchable
<1>8. IsFiniteSet(E) /\ Cardinality(E) = m_qSize + 1 /\ m_qSize \in Nat
    BY <1>1, <1>5, FS_AddElement, FS_CardinalityType
<1>9. Occupied(d, m_qSize)
    BY <1>1, <1>6 DEF Occupied, SameDays
<1>10. Adjusted(calendar', d, E)
    <2>1. m_qSize' = Cardinality(E) /\ m_qSize' >= 1 /\ m_qSize' - 1 = m_qSize
        BY <1>2, <1>8
    <2>2. Occupied(d, m_qSize' - 1)
        BY <1>9, <2>1
    <2> HIDE DEF E
    <2> QED
        BY <1>2, <1>7, <1>8, <2>1, <2>2, ResizeUpHolds
<1>11. Searchable(calendar', E) /\ calendar'.lastPrio = calendar.lastPrio
       /\ Occupied(calendar', m_qSize')
    BY <1>2, <1>6, <1>8, <1>10 DEF Adjusted, SameDays
<1>12. Cal!events' = E
    BY <1>11, EventsAfter DEF Searchable
<1>13. Searchable(calendar, Cal!events)'
    BY <1>2, <1>11, <1>12, SearchableAfter
<1>14. \A e \in E : calendarNow' <= e.ts /\ e.uid < calendarUid'
    BY <1>1, <1>2, <1>3, <1>4
<1>15. CalendarInv'
    <2>1. Occupied(calendar, m_qSize)'
        BY <1>11 DEF Occupied, Cal!MaxBuckets
    <2>2. IsFiniteSet(Cal!events') /\ m_qSize' = Cardinality(Cal!events')
        BY <1>2, <1>8, <1>12
    <2>3. calendarNow' \in Nat /\ calendar'.lastPrio <= calendarNow' /\ calendarUid' \in Nat
        BY <1>1, <1>2, <1>11
    <2>4. \A e \in Cal!events' : calendarNow' <= e.ts /\ e.uid < calendarUid'
        BY <1>12, <1>14
    <2> QED
        BY <1>13, <2>1, <2>2, <2>3, <2>4 DEF CalendarInv
<1>16. Cal!Contract!Insert(ev)
    BY <1>2, <1>4, <1>12 DEF Cal!Contract!Insert
<1>17. ev \in Cal!events' \ Cal!events
    BY <1>5, <1>12
<1> QED
    BY <1>3, <1>15, <1>16, <1>17 DEF Cal!Contract!InsertSome

\* Both operations that take an event out keep the invariant.
LEMMA RemovedStep ==
    ASSUME CalendarInv, NEW ev \in Cal!events, NEW d, Searchable(d, Cal!events \ {ev}),
           d.nBuckets = calendar.nBuckets, d.lastPrio <= calendarNow', calendarNow' \in Nat,
           \A e \in Cal!events \ {ev} : calendarNow' <= e.ts,
           m_qSize' = m_qSize - 1, calendar' = Cal!ResizeDown(d, m_qSize'),
           m_reverse' = m_reverse, calendarUid' = calendarUid
    PROVE  CalendarInv' /\ Cal!events' = Cal!events \ {ev}
<1> DEFINE E == Cal!events \ {ev}
<1>1. /\ IsFiniteSet(Cal!events) /\ m_qSize = Cardinality(Cal!events)
         /\ Occupied(calendar, m_qSize)
      /\ calendarUid \in Nat /\ \A e \in Cal!events : e.uid < calendarUid
    BY DEF CalendarInv
<1>2. IsFiniteSet(E) /\ Cardinality(E) = m_qSize - 1 /\ m_qSize \in Nat
    BY <1>1, FS_RemoveElement, FS_CardinalityType
<1> HIDE DEF E
<1>3. Searchable(d, E) /\ \A e \in E : calendarNow' <= e.ts
    BY DEF E
<1>4. m_qSize' = Cardinality(E) /\ m_qSize' + 1 = m_qSize
    BY <1>2
<1>5. Occupied(d, m_qSize' + 1)
    BY <1>1, <1>4 DEF Occupied
<1>6. Adjusted(calendar', d, E)
    BY <1>2, <1>3, <1>4, <1>5, ResizeDownHolds
<1>7. Searchable(calendar', E) /\ calendar'.lastPrio = d.lastPrio
      /\ Occupied(calendar', m_qSize')
    BY <1>4, <1>6 DEF Adjusted
<1>8. Cal!events' = E
    BY <1>7, EventsAfter DEF Searchable
<1>9. Searchable(calendar, Cal!events)'
    BY <1>7, <1>8, SearchableAfter
<1>10. Occupied(calendar, m_qSize)'
    BY <1>7 DEF Occupied, Cal!MaxBuckets
<1>11. IsFiniteSet(Cal!events') /\ m_qSize' = Cardinality(Cal!events')
    BY <1>2, <1>4, <1>8
<1>12. calendarNow' \in Nat /\ calendar'.lastPrio <= calendarNow' /\ calendarUid' \in Nat
    BY <1>1, <1>7
<1>13. \A e \in Cal!events' : calendarNow' <= e.ts /\ e.uid < calendarUid'
    BY <1>1, <1>3, <1>8 DEF E
<1>14. CalendarInv'
    BY <1>9, <1>10, <1>11, <1>12, <1>13 DEF CalendarInv
<1> QED
    BY <1>8, <1>14 DEF E

\* RemoveNext keeps the invariant, and returns the earliest event.
LEMMA CalendarRemoveNextStep ==
    ASSUME CalendarInv, Cal!RemoveNext
    PROVE  CalendarInv' /\ Cal!Contract!RemoveNext
<1> DEFINE r  == Cal!DoRemoveNext(calendar)
           ev == r.event
<1>1. /\ Searchable(calendar, Cal!events) /\ IsFiniteSet(Cal!events)
         /\ m_qSize = Cardinality(Cal!events)
      /\ Cal!events \subseteq Cal!Event
    BY DEF CalendarInv, Searchable, Holds
<1>2. /\ m_qSize # 0 /\ m_qSize' = m_qSize - 1 /\ calendarNext' = ev /\ calendarNow' = ev.ts
      /\ calendar' = Cal!ResizeDown(r.calendar, m_qSize') /\ m_reverse' = m_reverse
         /\ calendarUid' = calendarUid
    BY DEF Cal!RemoveNext
<1> HIDE DEF r
<1>3. Cal!events # {}
    BY <1>1, <1>2, FS_EmptySet
<1>4. /\ Cal!IsEarliest(ev, Cal!events) /\ Searchable(r.calendar, Cal!events \ {ev})
      /\ r.calendar.nBuckets = calendar.nBuckets /\ r.calendar.lastPrio = ev.ts
    BY <1>1, <1>3, DoRemoveNextHolds DEF r
<1> HIDE DEF ev
<1>5. ev \in Cal!events /\ ev \in Cal!Event /\ ev.ts \in Nat
    BY <1>1, <1>4 DEF Cal!IsEarliest, Cal!Event
<1>6. \A e \in Cal!events \ {ev} : ev.ts <= e.ts
    BY <1>1, <1>4, <1>5, KeyLessOnEvents DEF Cal!IsEarliest
<1>7. CalendarInv' /\ Cal!events' = Cal!events \ {ev}
    <2>1. r.calendar.lastPrio <= calendarNow' /\ calendarNow' \in Nat
          /\ \A e \in Cal!events \ {ev} : calendarNow' <= e.ts
        BY <1>2, <1>4, <1>5, <1>6
    <2> QED
        BY <1>2, <1>4, <1>5, <2>1, RemovedStep
<1>8. Cal!Contract!IsEarliest(ev, Cal!events)
    BY <1>4 DEF Cal!IsEarliest, Cal!Contract!IsEarliest, Cal!KeyLess, Cal!Contract!KeyLess
<1> QED
    BY <1>2, <1>3, <1>5, <1>7, <1>8 DEF Cal!Contract!RemoveNext, Cal!Contract!IsEmpty

\* Remove keeps the invariant, and takes out the event it is asked for.
LEMMA RemoveEventStep ==
    ASSUME CalendarInv, NEW ev \in Cal!events, Cal!RemoveEvent(ev)
    PROVE  CalendarInv' /\ Cal!Contract!RemoveSome
<1> DEFINE h     == Cal!Hash(calendar, ev.ts)
           b     == calendar.buckets[h]
           found == Cal!SelectInSeq(calendar.buckets[h], LAMBDA e : e.uid = ev.uid)
           new   == Cal!RemoveAt(b, found)
           d     == [calendar EXCEPT !.buckets[h] = new]
<1>1. /\ Searchable(calendar, Cal!events) /\ Holds(calendar, Cal!events)
         /\ calendar \in CalendarSet
      /\ Cal!events \subseteq Cal!Event /\ DistinctUids(Cal!events) /\ calendarNow \in Nat
      /\ calendar.lastPrio <= calendarNow /\ \A e \in Cal!events : calendarNow <= e.ts
    BY DEF CalendarInv, Searchable, Holds
<1>2. /\ found # 0 /\ m_qSize' = m_qSize - 1 /\ calendar' = Cal!ResizeDown(d, m_qSize')
      /\ m_reverse' = m_reverse /\ calendarNow' = calendarNow
         /\ calendarUid' = calendarUid /\ calendarNext' = calendarNext
    BY DEF Cal!RemoveEvent
<1>3. h \in 0 .. calendar.nBuckets - 1
    BY <1>1, HashRange DEF Cal!Event
<1>4. b \in Seq(Cal!Event) /\ Sorted(b)
      /\ Cal!ToSet(b) = {e \in Cal!events : Cal!Hash(calendar, e.ts) = h}
    BY <1>1, <1>3, BucketOf
<1>5. found \in 1 .. Len(b) /\ b[found].uid = ev.uid
    <2> DEFINE I == {i \in 1 .. Len(b) : b[i].uid = ev.uid}
    <2>1. found = IF I # {} THEN Cal!Min(I) ELSE 0
        BY DEF Cal!SelectInSeq
    <2>2. I \subseteq Nat
        OBVIOUS
    <2>3. I # {} => Cal!Min(I) \in I
        <3> HIDE DEF I
        <3> QED
            BY <2>2, MinIsLeast
    <2> QED
        BY <1>2, <2>1, <2>3
<1> HIDE DEF found, b
<1>6. b[found] = ev
    <2>1. b[found] \in Cal!ToSet(b)
        BY <1>4, <1>5 DEF Cal!ToSet
    <2> QED
        BY <1>1, <1>4, <1>5, <2>1 DEF DistinctUids
<1>7. new \in Seq(Cal!Event) /\ Sorted(new) /\ Cal!ToSet(new) = Cal!ToSet(b) \ {ev}
    BY <1>4, <1>5, <1>6, RemoveAtKeeps
<1> HIDE DEF new, d, h
<1>8. d \in CalendarSet /\ SameDays(d, calendar)
      /\ d.buckets = [calendar.buckets EXCEPT ![h] = new]
    BY <1>1, <1>3, <1>7, BucketChanged DEF d
<1>9. Holds(d, Cal!events \ {ev})
    <2>1. ASSUME NEW i \in 0 .. d.nBuckets - 1
          PROVE  /\ Sorted(d.buckets[i])
                 /\ Cal!ToSet(d.buckets[i]) = {e \in Cal!events \ {ev} : Cal!Hash(d, e.ts) = i}
        <3>1. i \in 0 .. calendar.nBuckets - 1
              /\ \A ts : Cal!Hash(d, ts) = Cal!Hash(calendar, ts)
            BY <1>8, SameHash DEF SameDays
        <3>2. d.buckets[i] = IF i = h THEN new ELSE calendar.buckets[i]
            BY <1>1, <1>3, <1>8, <3>1, CalendarMembers
        <3>3. /\ Sorted(calendar.buckets[i])
              /\ Cal!ToSet(calendar.buckets[i]) = {e \in Cal!events : Cal!Hash(calendar, e.ts) = i}
            BY <1>1, <3>1 DEF Holds
        <3> QED
            BY <1>4, <1>7, <3>1, <3>2, <3>3 DEF h
    <2>2. Cal!events \ {ev} \subseteq Cal!Event /\ DistinctUids(Cal!events \ {ev})
        BY <1>1 DEF DistinctUids
    <2> QED
        BY <1>8, <2>1, <2>2 DEF Holds
<1>10. Searchable(d, Cal!events \ {ev}) /\ d.nBuckets = calendar.nBuckets
       /\ d.lastPrio = calendar.lastPrio
    BY <1>1, <1>8, <1>9, SameDaysAtDay DEF Searchable, SameDays
<1>11. CalendarInv' /\ Cal!events' = Cal!events \ {ev}
    <2>1. d.lastPrio <= calendarNow' /\ calendarNow' \in Nat
          /\ \A e \in Cal!events \ {ev} : calendarNow' <= e.ts
        BY <1>1, <1>2, <1>10
    <2> QED
        BY <1>2, <1>10, <2>1, RemovedStep
<1> QED
    BY <1>2, <1>11 DEF Cal!Contract!RemoveSome, Cal!Contract!Remove

\* Every step of the calendar.
LEMMA CalendarStep ==
    ASSUME CalendarInv, [Cal!Next]_(Cal!vars)
    PROVE  CalendarInv' /\ [Cal!Contract!Next]_(Cal!Contract!vars)
<1>1. CASE \E delay \in CalendarDelays : Cal!Insert(delay)
    BY <1>1, CalendarInsertStep DEF Cal!Contract!Next
<1>2. CASE Cal!RemoveNext
    BY <1>2, CalendarRemoveNextStep DEF Cal!Contract!Next
<1>3. CASE \E ev \in Cal!events : Cal!RemoveEvent(ev)
    BY <1>3, RemoveEventStep DEF Cal!Contract!Next
<1>4. CASE UNCHANGED Cal!vars
    <2>1. /\ calendar' = calendar /\ m_reverse' = m_reverse /\ m_qSize' = m_qSize
          /\ calendarNow' = calendarNow /\ calendarUid' = calendarUid
             /\ calendarNext' = calendarNext
        BY <1>4 DEF Cal!vars
    <2>2. Cal!events' = Cal!events
        BY <2>1 DEF Cal!events
    <2>3. Searchable(calendar, Cal!events)'
        <3>1. Searchable(calendar', Cal!events')
            BY <2>1, <2>2 DEF CalendarInv
        <3> QED
            BY <2>1, <3>1, SearchableAfter
    <2>4. Occupied(calendar, m_qSize)'
        BY <2>1 DEF CalendarInv, Occupied, Cal!MaxBuckets
    <2>5. CalendarInv'
        BY <2>1, <2>2, <2>3, <2>4 DEF CalendarInv
    <2>6. UNCHANGED Cal!Contract!vars
        BY <2>1, <2>2 DEF Cal!Contract!vars
    <2> QED
        BY <2>5, <2>6
<1> QED
    BY <1>1, <1>2, <1>3, <1>4 DEF Cal!Next

LEMMA InvImpliesConsistent == CalendarInv => Cal!Consistent
<1> SUFFICES ASSUME CalendarInv PROVE Cal!Consistent
    OBVIOUS
<1>1. Holds(calendar, Cal!events) /\ AtDay(calendar)
      /\ \A e \in Cal!events : calendar.lastPrio <= e.ts
    BY DEF CalendarInv, Searchable
<1>2. DOMAIN calendar.buckets = 0 .. calendar.nBuckets - 1
    BY <1>1, CalendarMembers DEF Holds
<1>3. ASSUME NEW i \in DOMAIN calendar.buckets, NEW bucket, bucket = calendar.buckets[i]
      PROVE  /\ \A j \in DOMAIN bucket : Cal!Hash(calendar, bucket[j].ts) = i
             /\ \A j, k \in DOMAIN bucket :
                    j < k => IF m_reverse THEN Cal!KeyLess(bucket[k], bucket[j])
                                          ELSE Cal!KeyLess(bucket[j], bucket[k])
    <2>1. Sorted(bucket)
          /\ Cal!ToSet(bucket) = {e \in Cal!events : Cal!Hash(calendar, e.ts) = i}
        BY <1>1, <1>2, <1>3 DEF Holds
    <2>2. \A j \in DOMAIN bucket : bucket[j] \in Cal!ToSet(bucket)
        BY DEF Cal!ToSet
    <2>3. \A j, k \in DOMAIN bucket : j < k => Cal!Order(bucket[j], bucket[k])
        BY <2>1 DEF Sorted
    <2> QED
        BY <2>1, <2>2, <2>3 DEF Cal!Order
<1>4. Cal!Findable
    BY <1>3 DEF Cal!Findable
<1>5. Cal!CurrentDay
    BY <1>1 DEF Cal!CurrentDay, AtDay, Cal!DayTop
<1>6. Cal!Occupancy
    <2>1. Cal!Cardinality(Cal!events) = Cardinality(Cal!events)
        BY DEF Cal!Cardinality, Cardinality
    <2> QED
        BY <2>1 DEF CalendarInv, Occupied, Cal!Occupancy
<1> QED
    BY <1>4, <1>5, <1>6 DEF Cal!Consistent

\* MCSpec lets one of the two schedulers step: the calendar takes its own
\* steps or none.
LEMMA OneSchedulerSteps ==
    [MCNext]_<<SchedulerType, vars, calendarVars>> => [Cal!Next]_(Cal!vars)
BY DEF MCNext, calendarVars, Cal!vars

LEMMA CalendarInvariance == MCSpec => []CalendarInv
<1>1. MCInit => CalendarInv
    BY InitCalendarInv DEF MCInit
<1>2. CalendarInv /\ [MCNext]_<<SchedulerType, vars, calendarVars>> => CalendarInv'
    BY OneSchedulerSteps, CalendarStep
<1> QED
    BY <1>1, <1>2, PTL DEF MCSpec

\* Between any two calls every event is in the bucket in which Remove looks for
\* it, in order, the search begins at the day of the last event removed with
\* nothing left before it, and the occupancy is kept, for every word size and
\* whatever widths the resizing has chosen.
THEOREM CalendarConsistentCorrect == MCSpec => []CalendarConsistent
<1>1. CalendarInv => CalendarConsistent
    BY InvImpliesConsistent DEF CalendarConsistent
<1> QED
    BY <1>1, CalendarInvariance, PTL

\* The calendar implements Scheduler: RemoveNext returns the earliest event,
\* and neither an operation nor a resizing loses, repeats or invents one,
\* though tops of days and sums of separations wrap around.
THEOREM CalendarKeepsContractCorrect == MCSpec => CalendarKeepsContract
<1>1. MCInit => Cal!Contract!Init
    BY InitCalendarInv DEF MCInit, Cal!Contract!Init
<1>2. CalendarInv /\ [MCNext]_<<SchedulerType, vars, calendarVars>>
          => [Cal!Contract!Next]_(Cal!Contract!vars)
    BY OneSchedulerSteps, CalendarStep
<1> QED
    BY <1>1, <1>2, CalendarInvariance, PTL
    DEF MCSpec, CalendarKeepsContract, Cal!KeepsContract, Cal!Contract!Spec
=============================================================================

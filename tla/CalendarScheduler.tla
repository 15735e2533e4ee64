------------------------- MODULE CalendarScheduler --------------------------
(***************************************************************************)
(* The calendar queue (core/model/calendar-scheduler.cc): buckets of days, *)
(* one bucket for the same day of every year, with a search that begins at *)
(* the day of the last event removed, and a resizing that chooses the      *)
(* length of the day anew.  It is to implement the contract of Scheduler.  *)
(*                                                                         *)
(* The members are a record, because CalculateNewWidth takes events out of *)
(* the calendar and puts them back.  A call is one step: schedulers are    *)
(* not shared between threads.                                             *)
(***************************************************************************)
EXTENDS EventKey, SequencesExt

CONSTANTS
    Delays,         \* of the events inserted, from the time of the last one removed
    Starts,         \* times at which this scheduler may take over from another
    MaxEvents,      \* bound: events inserted
    Word            \* 2^w for unsigned integers of w bits

VARIABLES
    calendar,       \* m_buckets, m_nBuckets, m_width, m_lastBucket, m_bucketTop, m_lastPrio
    m_reverse,
    m_qSize,
    now,            \* of the simulator, which schedules nothing before it
    m_uid,          \* of the simulator
    next            \* what RemoveNext returned last, << >> before that

vars == <<calendar, m_reverse, m_qSize, now, m_uid, next>>

UInt(x)   == x % Word
MaxTime   == Word \div 2 - 1     \* times are signed
Event     == [ts : Nat, uid : Nat]
FirstUid  == 4
MaxBuckets == 32768     \* of ResizeUp
-----------------------------------------------------------------------------
(* A bucket is sorted, in reverse on request (SetReverse).                 *)

\* A mutant: events of the same time are taken for equal.
OrderByTime(a, b) == IF m_reverse THEN a.ts > b.ts ELSE a.ts < b.ts
Order(a, b) == IF m_reverse THEN KeyLess(b, a) ELSE KeyLess(a, b)

NextEvent(bucket) == IF m_reverse THEN Last(bucket) ELSE Head(bucket)
Pop(bucket)       == IF m_reverse THEN Front(bucket) ELSE Tail(bucket)

Hash(c, ts) == (ts \div c.width) % c.nBuckets

DayTop(c, ts) == UInt((ts \div c.width + 1) * c.width)

Unstarted(nBuckets, width, startPrio) ==
    [buckets |-> [i \in 0 .. nBuckets - 1 |-> <<>>], nBuckets |-> nBuckets,
     width |-> width, lastPrio |-> startPrio, lastBucket |-> 0, bucketTop |-> 0]

\* CalendarScheduler::Init.
NewCalendar(nBuckets, width, startPrio) ==
    LET c == Unstarted(nBuckets, width, startPrio)
    IN  [c EXCEPT !.lastBucket = Hash(c, startPrio), !.bucketTop = DayTop(c, startPrio)]

InBucket(bucket, ev) ==
    LET after == SelectInSeq(bucket, LAMBDA e : Order(ev, e))
    IN  IF after = 0 THEN Append(bucket, ev) ELSE InsertAt(bucket, after, ev)

DoInsert(c, ev) == [c EXCEPT !.buckets[Hash(c, ev.ts)] = InBucket(@, ev)]

\* A loop of DoInsert over a list of events.
InsertAll(c, list) ==
    LET loop[i \in 0 .. Len(list)] == IF i = 0 THEN c ELSE DoInsert(loop[i - 1], list[i])
    IN  loop[Len(list)]
-----------------------------------------------------------------------------
(* The search of PeekNext and DoRemoveNext, a turn for each bucket.        *)

BucketAt(c, turn) == (c.lastBucket + turn) % c.nBuckets
TopAt(c, turn)    == UInt(c.bucketTop + turn * c.width)
NextAt(c, turn)   == NextEvent(c.buckets[BucketAt(c, turn)])

Turns(c)    == {turn \in 0 .. c.nBuckets - 1 : c.buckets[BucketAt(c, turn)] # <<>>}
ThisYear(c) == {turn \in Turns(c) : NextAt(c, turn).ts < TopAt(c, turn)}

Take(c, turn, lastBucket, bucketTop) ==
    LET ev == NextAt(c, turn)
    IN  [event |-> ev,
         calendar |-> [c EXCEPT !.buckets[BucketAt(c, turn)] = Pop(@),
                                !.lastBucket = lastBucket,
                                !.lastPrio = ev.ts,
                                !.bucketTop = bucketTop]]

\* The first bucket with an event of its day of this year; without one, the
\* earliest event, of whatever year, and the calendar goes on from there.
DoRemoveNext(c) ==
    IF ThisYear(c) # {}
    THEN LET turn == Min(ThisYear(c))
         IN  Take(c, turn, BucketAt(c, turn), TopAt(c, turn))
    ELSE LET turn == CHOOSE t \in Turns(c) :
                         IsEarliest(NextAt(c, t), {NextAt(c, u) : u \in Turns(c)})
             ts   == NextAt(c, turn).ts
         IN  Take(c, turn, Hash(c, ts), DayTop(c, ts))
-----------------------------------------------------------------------------
(* Resizing.                                                               *)

NSamples(qSize) == IF qSize <= 5 THEN qSize ELSE Min({5 + qSize \div 10, 25})

\* The first events are taken out of the calendar, where they are put back
\* with its members restored.
Sample(s) ==
    LET removed == DoRemoveNext(s.calendar)
    IN  [calendar |-> removed.calendar, samples |-> Append(s.samples, removed.event)]

Samples(c, n) ==
    LET loop[i \in 0 .. n] == IF i = 0 THEN [calendar |-> c, samples |-> <<>>]
                                       ELSE Sample(loop[i - 1])
    IN  loop[n]

PutBack(c, s) ==
    [InsertAll(s.calendar, s.samples)
        EXCEPT !.lastBucket = c.lastBucket, !.bucketTop = c.bucketTop,
               !.lastPrio = c.lastPrio]

\* Three times the sum of the separations that are at most twice the average.
WidthOf(samples) ==
    LET last          == Len(samples) - 1
        separation(i) == UInt(samples[i + 1].ts - samples[i].ts)
        total[i \in 0 .. last] ==
            IF i = 0 THEN 0 ELSE UInt(total[i - 1] + separation(i))
        twiceAvg      == UInt((total[last] \div last) * 2)
        close[i \in 0 .. last] ==
            IF i = 0 THEN 0
            ELSE UInt(close[i - 1] + IF separation(i) <= twiceAvg THEN separation(i) ELSE 0)
    IN  Max({UInt(3 * close[last]), 1})

\* A mutant: buckets are moved whole.
DoResizeWhole(c, nBuckets, width) ==
    LET new == NewCalendar(nBuckets, width, c.lastPrio)
    IN  [new EXCEPT !.buckets = [i \in DOMAIN @ |->
            IF i < c.nBuckets THEN c.buckets[i] \o (IF i + nBuckets < c.nBuckets
                                                    THEN c.buckets[i + nBuckets] ELSE <<>>)
            ELSE <<>>]]

DoResize(c, nBuckets, width) ==
    LET loop[i \in 0 .. c.nBuckets] ==
            IF i = 0 THEN NewCalendar(nBuckets, width, c.lastPrio)
                     ELSE InsertAll(loop[i - 1], c.buckets[i - 1])
    IN  loop[c.nBuckets]

Resize(c, qSize, nBuckets) ==
    IF qSize < 2
    THEN DoResize(c, nBuckets, 1)
    ELSE LET s == Samples(c, NSamples(qSize))
         IN  DoResize(PutBack(c, s), nBuckets, WidthOf(s.samples))

ResizeUp(c, qSize) ==
    IF qSize > c.nBuckets * 2 /\ c.nBuckets < MaxBuckets
    THEN Resize(c, qSize, c.nBuckets * 2) ELSE c

ResizeDown(c, qSize) ==
    IF qSize < c.nBuckets \div 2
    THEN Resize(c, qSize, c.nBuckets \div 2) ELSE c
-----------------------------------------------------------------------------
events == UNION {ToSet(calendar.buckets[i]) : i \in DOMAIN calendar.buckets}

Init ==
    /\ calendar = NewCalendar(2, 1, 0)
    /\ m_reverse \in BOOLEAN
    /\ m_qSize = 0
    /\ now \in Starts
    /\ m_uid = FirstUid
    /\ next = << >>

\* The simulator inserts an event, of a time that is representable.
Insert(delay) ==
    /\ m_uid < FirstUid + MaxEvents
    /\ now + delay <= MaxTime
    /\ m_uid' = m_uid + 1
    /\ m_qSize' = m_qSize + 1
    /\ calendar' = ResizeUp(DoInsert(calendar, [ts |-> now + delay, uid |-> m_uid]), m_qSize')
    /\ UNCHANGED <<m_reverse, now, next>>

\* Callers know that the scheduler is not empty.
RemoveNext ==
    /\ m_qSize # 0
    /\ m_qSize' = m_qSize - 1
    /\ LET removed == DoRemoveNext(calendar)
       IN  /\ next' = removed.event
           /\ now' = removed.event.ts
           /\ calendar' = ResizeDown(removed.calendar, m_qSize')
    /\ UNCHANGED <<m_reverse, m_uid>>

\* Remove.  Only the bucket of the event is searched; the assertion that it is found
\* there holds by Findable.
RemoveEvent(ev) ==
    LET bucket == Hash(calendar, ev.ts)
        found  == SelectInSeq(calendar.buckets[bucket], LAMBDA e : e.uid = ev.uid)
    IN
    /\ found # 0
    /\ m_qSize' = m_qSize - 1
    /\ calendar' = ResizeDown([calendar EXCEPT !.buckets[bucket] = RemoveAt(@, found)], m_qSize')
    /\ UNCHANGED <<m_reverse, now, m_uid, next>>

Next == \/ \E delay \in Delays : Insert(delay)
        \/ RemoveNext
        \/ \E ev \in events : RemoveEvent(ev)

Spec == Init /\ [][Next]_vars
-----------------------------------------------------------------------------
(* Properties.                                                             *)

\* Every event is in the bucket in which Remove looks for it, and the buckets
\* are sorted, whatever lengths of day the resizing has chosen on the way.
Findable ==
    \A i \in DOMAIN calendar.buckets :
        LET bucket == calendar.buckets[i] IN
        /\ \A j \in DOMAIN bucket : Hash(calendar, bucket[j].ts) = i
        /\ \A j, k \in DOMAIN bucket :
               j < k => IF m_reverse THEN KeyLess(bucket[k], bucket[j])
                                     ELSE KeyLess(bucket[j], bucket[k])

\* The search begins at the day of the last event removed, and nothing is left
\* before it: the three members that say so agree after every resizing, and
\* after events of later years.
CurrentDay ==
    /\ calendar.lastBucket = Hash(calendar, calendar.lastPrio)
    /\ calendar.bucketTop =
           UInt((calendar.lastPrio \div calendar.width + 1) * calendar.width)
    /\ \A e \in events : calendar.lastPrio <= e.ts

\* "Automatically adjusts the number of buckets to keep the average occupancy
\* around 2" (calendar-scheduler.h): never more than 2 while ResizeUp may add
\* buckets, nor less than a half, but for the new calendar; and m_qSize counts
\* the events.
Occupancy ==
    LET n == calendar.nBuckets
        q == Cardinality(events)
    IN  /\ m_qSize = q
        /\ q <= 2 * n \/ n >= MaxBuckets
        /\ q >= n \div 2 \/ n = 2

\* What a search relies on, between any two calls.
Consistent == Findable /\ CurrentDay /\ Occupancy

Contract == INSTANCE Scheduler

\* The calendar implements the contract of schedulers: RemoveNext returns the
\* earliest event, and no operation loses or repeats one, though days, years
\* and the sums of CalculateNewWidth wrap around.
KeepsContract == Contract!Spec
=============================================================================

------------------------ MODULE TrafficControlProofs ------------------------
(***************************************************************************)
(* TrafficControl, for every size of the queues, quota, limits and sizes   *)
(* of packets.                                                             *)
(*                                                                         *)
(* The flags of the device queue and the state of the transmitter belong   *)
(* together: a READY transmitter has an empty queue and no notice to come  *)
(* (ReadyIsEmpty), a queue the device stopped is full or has a notice to   *)
(* come (StoppedForAReason), and one the limits stopped holds bytes        *)
(* (LimitsReason with BytesAccounted).  So a stopped queue is always woken.*)
(* A quota no smaller than the queue of the device fills that queue before *)
(* it is used up (FillsDevice), so no run ends where no wake-up follows.   *)
(* The bytes in the queue are the sum of its packets, which is stated by   *)
(* the partial sums (Counts), as sums need no induction then.              *)
(***************************************************************************)
EXTENDS TrafficControl, SequenceTheorems, TLAPS

\* n is the sum of the packets of q.
Counts(q, n) ==
    \E sum \in [0 .. Len(q) -> Int] :
        /\ sum[0] = 0
        /\ \A i \in 1 .. Len(q) : sum[i] = sum[i - 1] + q[i]
        /\ sum[Len(q)] = n

ReadyIsEmpty ==
    m_currentPkt = <<>> => m_queue = <<>> /\ notice = 0 /\ pc \in {"idle", "run"}

StoppedForAReason ==
    m_stoppedByDevice =>
        WouldOverflow(Len(m_queue)) \/ notice > 0 \/ pc \in {"wake", "runThenWake"}

LimitsReason ==
    /\ m_queueLimits.m_adjLimit >= m_queueLimits.m_numCompleted
    /\ ~ HasLimits => ~ m_stoppedByQueueLimits
    /\ m_stoppedByQueueLimits => Available(m_queueLimits) < 0

QuotaLeft == pc \in Running => quota > 0

BacklogOrQuota == pc \notin Running /\ quota > 0 /\ queueDisc # <<>> => IsStopped

\* TypeOK without the flags.
QueuesOK ==
    /\ pc \in Pcs
    /\ quota \in 0 .. Quota
    /\ queueDisc \in Seq(Size) /\ Len(queueDisc) <= DiscSize
    /\ m_queue \in Seq(Size) /\ Len(m_queue) <= MaxSize
    /\ m_nBytes \in Int
    /\ m_currentPkt \in Seq(Size) /\ Len(m_currentPkt) <= 1
    /\ notice \in Size \cup {0}
    /\ m_queueLimits \in Limits
    /\ accepted \in 0 .. MaxPackets

FlagsOK == m_stoppedByDevice \in BOOLEAN /\ m_stoppedByQueueLimits \in BOOLEAN

Inv == /\ QueuesOK
       /\ FlagsOK
       /\ QuotaLeft
       /\ ReadyIsEmpty
       /\ StoppedForAReason
       /\ DeviceHasRoom
       /\ Counts(m_queue, m_nBytes)
       /\ BytesAccounted
       /\ LimitsReason
       /\ BacklogOrQuota
-----------------------------------------------------------------------------
(* Sums.                                                                   *)

LEMMA CountsEmpty ==
    /\ Counts(<<>>, 0)
    /\ \A n : Counts(<<>>, n) => n = 0
<1>1. Counts(<<>>, 0)
    <2> DEFINE sum == [i \in 0 .. 0 |-> 0]
    <2>1. sum \in [0 .. Len(<<>>) -> Int] /\ sum[0] = 0 /\ Len(<<>>) = 0
        OBVIOUS
    <2>2. \A i \in 1 .. Len(<<>>) : sum[i] = sum[i - 1] + <<>>[i]
        BY <2>1
    <2> HIDE DEF sum
    <2> QED
        BY <2>1, <2>2 DEF Counts
<1>2. \A n : Counts(<<>>, n) => n = 0
    BY DEF Counts
<1> QED
    BY <1>1, <1>2

LEMMA SizesArePositive == \A p \in Size : p \in Int /\ p \in Nat /\ p > 0
BY SizeAssumption

LEMMA CountsAppend ==
    ASSUME NEW q \in Seq(Size), NEW n \in Int, NEW p \in Size, Counts(q, n)
    PROVE  Counts(Append(q, p), n + p)
<1> DEFINE k == Len(q)
           r == Append(q, p)
<1>1. /\ k \in Nat /\ Len(r) = k + 1
      /\ \A i \in 1 .. k : r[i] = q[i]
      /\ r[k + 1] = p
    BY AppendProperties
<1>2. p \in Int
    BY SizeAssumption
<1>3. PICK sum \in [0 .. k -> Int] :
          /\ sum[0] = 0
          /\ \A i \in 1 .. k : sum[i] = sum[i - 1] + q[i]
          /\ sum[k] = n
    BY DEF Counts
<1> DEFINE more == [i \in 0 .. k + 1 |-> IF i <= k THEN sum[i] ELSE n + p]
<1> HIDE DEF k, r
<1>4. more \in [0 .. Len(r) -> Int]
    BY <1>1, <1>2, <1>3
<1>5. more[0] = 0 /\ more[Len(r)] = n + p
    BY <1>1, <1>3
<1>6. ASSUME NEW i \in 1 .. Len(r) PROVE more[i] = more[i - 1] + r[i]
    <2>1. CASE i <= k
        BY <1>1, <1>3, <2>1
    <2>2. CASE i = k + 1
        BY <1>1, <1>3, <2>2
    <2> QED
        BY <1>1, <2>1, <2>2
<1> HIDE DEF more
<1> QED
    BY <1>4, <1>5, <1>6 DEF Counts, r

LEMMA CountsTail ==
    ASSUME NEW q \in Seq(Size), q # <<>>, NEW n \in Int, Counts(q, n)
    PROVE  Counts(Tail(q), n - Head(q))
<1> DEFINE k == Len(q)
           r == Tail(q)
           h == Head(q)
<1>1. /\ k \in Nat \ {0} /\ Len(r) = k - 1
      /\ h \in Size /\ h = q[1]
      /\ \A i \in 1 .. k - 1 : r[i] = q[i + 1]
    <2>1. k \in Nat \ {0}
        BY EmptySeq
    <2>2. /\ Head(q) \in Size
          /\ Len(Tail(q)) = Len(q) - 1
          /\ \A i \in 1 .. Len(Tail(q)) : Tail(q)[i] = q[i + 1]
        BY HeadTailProperties
    <2>3. Head(q) = q[1]
        OBVIOUS
    <2>4. Len(r) = k - 1 /\ \A i \in 1 .. k - 1 : r[i] = q[i + 1]
        BY <2>2
    <2>5. h \in Size /\ h = q[1]
        BY <2>2, <2>3
    <2> HIDE DEF k, r, h
    <2> QED
        BY <2>1, <2>4, <2>5
<1>2. h \in Int
    BY <1>1, SizesArePositive, Zenon
<1>3. PICK sum \in [0 .. k -> Int] :
          /\ sum[0] = 0
          /\ \A i \in 1 .. k : sum[i] = sum[i - 1] + q[i]
          /\ sum[k] = n
    BY DEF Counts
<1> DEFINE less == [i \in 0 .. k - 1 |-> sum[i + 1] - h]
<1> HIDE DEF k, r, h
<1>4. less \in [0 .. Len(r) -> Int]
    BY <1>1, <1>2, <1>3
<1>5. less[0] = 0 /\ less[Len(r)] = n - h
    <2>1. sum[1] = h
        BY <1>1, <1>2, <1>3
    <2>2. less[0] = sum[1] - h /\ less[k - 1] = sum[k] - h
        BY <1>1
    <2> HIDE DEF less
    <2> QED
        BY <1>1, <1>2, <1>3, <2>1, <2>2
<1>6. ASSUME NEW i \in 1 .. Len(r) PROVE less[i] = less[i - 1] + r[i]
    <2>1. i \in 1 .. k - 1 /\ i + 1 \in 1 .. k /\ (i + 1) - 1 = i
        BY <1>1
    <2>2. sum[i + 1] = sum[i] + q[i + 1] /\ r[i] = q[i + 1]
        BY <1>1, <1>3, <2>1
    <2>3. q[i + 1] \in Int
        <3>1. \A j \in 1 .. Len(q) : q[j] \in Size
            BY ElementOfSeq
        <3>2. i + 1 \in 1 .. Len(q)
            BY <2>1 DEF k
        <3>3. q[i + 1] \in Size
            BY <3>1, <3>2, Zenon
        <3> QED
            BY <3>3, SizesArePositive, Zenon
    <2>4. less[i] = sum[i + 1] - h /\ less[i - 1] = sum[i] - h
        BY <1>1, <2>1
    <2>5. sum[i] \in Int
        BY <1>1, <1>3, <2>1
    <2> QED
        BY <1>2, <2>2, <2>3, <2>4, <2>5
<1> HIDE DEF less
<1> QED
    BY <1>4, <1>5, <1>6 DEF Counts, r, h
-----------------------------------------------------------------------------
(* The limits.                                                             *)

LEMMA QueuedProperties ==
    ASSUME NEW l \in Limits, NEW count \in Nat
    PROVE  /\ Queued(l, count) \in Limits
           /\ Queued(l, count).m_numQueued = l.m_numQueued + count
           /\ Queued(l, count).m_numCompleted = l.m_numCompleted
           /\ Queued(l, count).m_adjLimit = l.m_adjLimit
<1> DEFINE m == [l EXCEPT !.m_lastObjCnt = count]
<1>1. m \in Limits /\ m.m_numQueued = l.m_numQueued
      /\ m.m_numCompleted = l.m_numCompleted /\ m.m_adjLimit = l.m_adjLimit
    BY DEF Limits
<1>2. Queued(l, count) = [m EXCEPT !.m_numQueued = l.m_numQueued + count]
    BY DEF Queued, Limits
<1>3. l.m_numQueued + count \in Nat
    BY DEF Limits
<1> HIDE DEF m
<1> QED
    BY <1>1, <1>2, <1>3 DEF Limits

LEMMA NonNegative ==
    ASSUME NEW a \in Nat, NEW b \in Nat
    PROVE  /\ Larger(a, b) \in Nat
           /\ Smaller(a, b) \in Nat
           /\ Posdiff(a, b) \in Nat
BY DEF Larger, Smaller, Posdiff

LEMMA AdjustedType ==
    ASSUME NEW l \in Limits, NEW count \in Nat, NEW held \in BOOLEAN
    PROVE  Adjusted(l, count, held) \in [limit : Nat, slack : Nat]
<1>1. /\ l.m_limit \in Nat /\ l.m_prevOvlimit \in Nat /\ l.m_lowestSlack \in Nat
      /\ l.m_prevNumQueued \in Nat /\ l.m_prevLastObjCnt \in Nat
      /\ l.m_numCompleted \in Nat
    BY DEF Limits
<1> DEFINE idle   == Posdiff(l.m_limit + l.m_prevOvlimit, 2 * count)
           last   == IF l.m_prevOvlimit > 0
                     THEN Posdiff(l.m_prevLastObjCnt, l.m_prevOvlimit) ELSE 0
           lowest == Smaller(l.m_lowestSlack, Slack(l, count))
           more   == l.m_limit + Posdiff(l.m_numCompleted + count, l.m_prevNumQueued)
                         + l.m_prevOvlimit
           less   == Posdiff(l.m_limit, lowest)
<1>2. idle \in Nat
    <2>1. l.m_limit + l.m_prevOvlimit \in Nat /\ 2 * count \in Nat
        BY <1>1
    <2> QED
        BY <2>1, NonNegative
<1>3. last \in Nat
    <2>1. Posdiff(l.m_prevLastObjCnt, l.m_prevOvlimit) \in Nat
        BY <1>1, NonNegative
    <2> QED
        BY <2>1
<1>4. Slack(l, count) = Larger(idle, last)
    BY DEF Slack
<1>5. lowest \in Nat
    <2> HIDE DEF idle, last
    <2>1. Slack(l, count) \in Nat
        BY <1>2, <1>3, <1>4, NonNegative
    <2> QED
        BY <1>1, <2>1, NonNegative
<1>6. more \in Nat
    <2>1. l.m_numCompleted + count \in Nat
        BY <1>1
    <2>2. Posdiff(l.m_numCompleted + count, l.m_prevNumQueued) \in Nat
        BY <1>1, <2>1, NonNegative
    <2> QED
        BY <1>1, <2>2
<1>7. less \in Nat
    <2> HIDE DEF lowest
    <2> QED
        BY <1>1, <1>5, NonNegative
<1>8. Adjusted(l, count, held) \in
          {[limit |-> more, slack |-> NoSlack], [limit |-> less, slack |-> NoSlack],
           [limit |-> l.m_limit, slack |-> lowest],
           [limit |-> l.m_limit, slack |-> l.m_lowestSlack]}
    BY DEF Adjusted
<1> HIDE DEF more, less, lowest
<1> QED
    BY <1>1, <1>5, <1>6, <1>7, <1>8, LimitsAssumption

LEMMA CompletedProperties ==
    ASSUME NEW l \in Limits, NEW count \in Nat, NEW held \in BOOLEAN
    PROVE  /\ Completed(l, count, held) \in Limits
           /\ Completed(l, count, held).m_numQueued = l.m_numQueued
           /\ Completed(l, count, held).m_numCompleted = l.m_numCompleted + count
           /\ Completed(l, count, held).m_adjLimit
                  >= Completed(l, count, held).m_numCompleted
<1> DEFINE adjusted == Adjusted(l, count, held)
           limit    == Smaller(Larger(adjusted.limit, MinLimit), MaxLimit)
           over     == IF limit # l.m_limit THEN 0
                       ELSE Posdiff(l.m_numQueued - l.m_numCompleted, limit)
<1>1. adjusted \in [limit : Nat, slack : Nat]
    BY AdjustedType
<1>2. limit \in Nat
    BY <1>1, LimitsAssumption DEF Smaller, Larger
<1>3. over \in Nat
    BY <1>2 DEF Limits, Posdiff, Larger
<1>4. Completed(l, count, held) =
          [m_limit          |-> limit,
           m_adjLimit       |-> limit + l.m_numCompleted + count,
           m_numQueued      |-> l.m_numQueued,
           m_numCompleted   |-> l.m_numCompleted + count,
           m_lastObjCnt     |-> l.m_lastObjCnt,
           m_prevNumQueued  |-> l.m_numQueued,
           m_prevLastObjCnt |-> l.m_lastObjCnt,
           m_prevOvlimit    |-> over,
           m_lowestSlack    |-> adjusted.slack]
    BY DEF Completed
<1> HIDE DEF adjusted, limit, over
<1> QED
    BY <1>1, <1>2, <1>3, <1>4 DEF Limits
-----------------------------------------------------------------------------
(* The invariant holds at first, and every step keeps it.                  *)

LEMMA InitInv == Init => Inv
<1> SUFFICES ASSUME Init PROVE Inv
    OBVIOUS
<1>1. /\ <<>> \in Seq(Size) /\ Len(<<>>) = 0
    OBVIOUS
<1>2. NewLimits \in Limits /\ NewLimits.m_numQueued = 0
      /\ NewLimits.m_numCompleted = 0 /\ NewLimits.m_adjLimit = 0
    BY LimitsAssumption DEF NewLimits, Limits
<1>3. QueuesOK
    BY <1>1, <1>2, QuotaAssumption, MaxSizeAssumption, DiscSizeAssumption,
       MaxPacketsAssumption DEF Init, QueuesOK, Pcs
<1>4. FlagsOK
    BY Zenon DEF Init, FlagsOK
<1>5. QuotaLeft /\ ReadyIsEmpty /\ StoppedForAReason /\ BacklogOrQuota
    BY DEF Init, QuotaLeft, ReadyIsEmpty, StoppedForAReason, BacklogOrQuota, Running
<1>6. DeviceHasRoom
    BY <1>1, MaxSizeAssumption DEF Init, DeviceHasRoom, WouldOverflow
<1>7. Counts(m_queue, m_nBytes)
    BY CountsEmpty DEF Init
<1>8. BytesAccounted
    BY <1>2 DEF Init, BytesAccounted
<1>9. LimitsReason
    BY <1>2 DEF Init, LimitsReason
<1> QED
    BY <1>3, <1>4, <1>5, <1>6, <1>7, <1>8, <1>9 DEF Inv

\* The network layer touches the queue of the queue disc alone.
LEMMA SendInv ==
    ASSUME Inv, NEW p \in Size, Send(p)
    PROVE  Inv'
<1>1. QueuesOK'
    <2>1. pc' \in Pcs /\ quota' \in 0 .. Quota
        BY QuotaAssumption DEF Send, Pcs, Running
    <2>2. queueDisc' \in Seq(Size) /\ Len(queueDisc') <= DiscSize
        <3>1. CASE DiscIsFull(Len(queueDisc))
            BY <3>1 DEF Send, Inv, QueuesOK
        <3>2. CASE ~ DiscIsFull(Len(queueDisc))
            <4>1. /\ Append(queueDisc, p) \in Seq(Size)
                  /\ Len(Append(queueDisc, p)) = Len(queueDisc) + 1
                  /\ Len(queueDisc) \in Nat
                BY AppendProperties, LenProperties DEF Inv, QueuesOK
            <4>2. queueDisc' = Append(queueDisc, p) /\ Len(queueDisc) + 1 <= DiscSize
                BY <3>2, <4>1, DiscSizeAssumption DEF Send, DiscIsFull
            <4> QED
                BY <4>1, <4>2
        <3> QED
            BY <3>1, <3>2
    <2>3. accepted' \in 0 .. MaxPackets
        BY MaxPacketsAssumption DEF Send, Inv, QueuesOK
    <2> QED
        BY <2>1, <2>2, <2>3 DEF Send, Inv, QueuesOK, device, flags
<1>2. FlagsOK'
    BY Zenon DEF Send, Inv, FlagsOK, flags
<1>3. QuotaLeft'
    BY QuotaAssumption DEF Send, QuotaLeft
<1>4. ReadyIsEmpty'
    BY DEF Send, Inv, ReadyIsEmpty, device
<1>5. StoppedForAReason'
    BY DEF Send, Inv, StoppedForAReason, device, flags, WouldOverflow
<1>6. DeviceHasRoom' /\ Counts(m_queue, m_nBytes)' /\ BytesAccounted' /\ LimitsReason'
    <2>1. DeviceHasRoom'
        BY DEF Send, Inv, DeviceHasRoom, device, flags, WouldOverflow
    <2>2. Counts(m_queue, m_nBytes)'
        BY Zenon DEF Send, Inv, device, Counts
    <2>3. BytesAccounted'
        BY Zenon DEF Send, Inv, device, BytesAccounted
    <2>4. LimitsReason'
        BY Zenon DEF Send, Inv, flags, LimitsReason
    <2> QED
        BY <2>1, <2>2, <2>3, <2>4
<1>7. BacklogOrQuota'
    BY DEF Send, BacklogOrQuota, Running
<1> QED
    BY <1>1, <1>2, <1>3, <1>4, <1>5, <1>6, <1>7 DEF Inv

LEMMA RunEndInv == ASSUME Inv, RunEnd PROVE Inv'
<1>1. QueuesOK'
    BY DEF RunEnd, Return, Inv, QueuesOK, Pcs, device
<1>2. FlagsOK'
    BY Zenon DEF RunEnd, Inv, FlagsOK, flags
<1>3. QuotaLeft'
    BY DEF RunEnd, Return, QuotaLeft, Running
<1>4. ReadyIsEmpty'
    <2>1. /\ m_currentPkt' = m_currentPkt /\ m_queue' = m_queue
          /\ notice' = notice /\ pc' = Return
        BY DEF RunEnd, device
    <2>2. pc = "run" => Return = "idle"
        BY DEF Return
    <2>3. m_currentPkt = <<>> => m_queue = <<>> /\ notice = 0 /\ pc = "run"
        BY DEF RunEnd, Running, Inv, ReadyIsEmpty
    <2> QED
        BY <2>1, <2>2, <2>3, Zenon DEF ReadyIsEmpty
<1>5. StoppedForAReason'
    <2>1. /\ m_queue' = m_queue /\ notice' = notice
          /\ m_stoppedByDevice' = m_stoppedByDevice /\ pc' = Return
        BY DEF RunEnd, device, flags
    <2>2. pc = "runThenWake" => Return = "wake"
        BY DEF Return
    <2>3. pc # "wake"
        BY DEF RunEnd, Running
    <2> QED
        BY <2>1, <2>2, <2>3 DEF Inv, StoppedForAReason, WouldOverflow
<1>6. DeviceHasRoom' /\ Counts(m_queue, m_nBytes)' /\ BytesAccounted' /\ LimitsReason'
    <2>1. DeviceHasRoom'
        BY DEF RunEnd, Inv, DeviceHasRoom, device, flags, WouldOverflow
    <2>2. Counts(m_queue, m_nBytes)'
        BY Zenon DEF RunEnd, Inv, device, Counts
    <2>3. BytesAccounted'
        BY Zenon DEF RunEnd, Inv, device, BytesAccounted
    <2>4. LimitsReason'
        BY Zenon DEF RunEnd, Inv, flags, LimitsReason
    <2> QED
        BY <2>1, <2>2, <2>3, <2>4
<1>7. BacklogOrQuota'
    BY Zenon DEF RunEnd, BacklogOrQuota, IsStopped, flags
<1> QED
    BY <1>1, <1>2, <1>3, <1>4, <1>5, <1>6, <1>7 DEF Inv

LEMMA WakeInv == ASSUME Inv, Wake PROVE Inv'
<1>1. QueuesOK'
    BY QuotaAssumption DEF Wake, Inv, QueuesOK, Pcs, Running, device
<1>2. FlagsOK'
    BY Zenon DEF Wake, Inv, FlagsOK
<1>3. QuotaLeft'
    BY QuotaAssumption DEF Wake, QuotaLeft, Running
<1>4. ReadyIsEmpty'
    BY DEF Wake, Inv, ReadyIsEmpty, device
<1>5. StoppedForAReason'
    BY DEF Wake, StoppedForAReason, device, WouldOverflow
<1>6. DeviceHasRoom' /\ Counts(m_queue, m_nBytes)' /\ BytesAccounted' /\ LimitsReason'
    <2>1. DeviceHasRoom'
        BY DEF Wake, Inv, DeviceHasRoom, device, WouldOverflow
    <2>2. Counts(m_queue, m_nBytes)'
        BY Zenon DEF Wake, Inv, device, Counts
    <2>3. BytesAccounted'
        BY Zenon DEF Wake, Inv, device, BytesAccounted
    <2>4. LimitsReason'
        BY Zenon DEF Wake, Inv, LimitsReason
    <2> QED
        BY <2>1, <2>2, <2>3, <2>4
<1>7. BacklogOrQuota'
    BY DEF Wake, Inv, FlagsOK, BacklogOrQuota, IsStopped, Running
<1> QED
    BY <1>1, <1>2, <1>3, <1>4, <1>5, <1>6, <1>7 DEF Inv

LEMMA NotifyInv ==
    ASSUME Inv, NEW held \in BOOLEAN, NotifyTransmittedBytes(held)
    PROVE  Inv'
<1>1. /\ pc = "idle" /\ notice \in Nat /\ notice > 0 /\ notice' = 0
      /\ queueDisc' = queueDisc /\ m_queue' = m_queue /\ m_nBytes' = m_nBytes
      /\ m_currentPkt' = m_currentPkt /\ m_stoppedByDevice' = m_stoppedByDevice
      /\ accepted' = accepted
      /\ pc' \in {"runThenWake", "wake"}
      /\ quota' = IF pc' = "runThenWake" THEN Quota ELSE quota
    BY SizesArePositive DEF NotifyTransmittedBytes, Inv, QueuesOK
<1>2. /\ m_queueLimits' \in Limits
      /\ HasLimits => /\ m_queueLimits'.m_numQueued = m_queueLimits.m_numQueued
                      /\ m_queueLimits'.m_numCompleted
                             = m_queueLimits.m_numCompleted + notice
      /\ m_queueLimits'.m_adjLimit >= m_queueLimits'.m_numCompleted
    <2>0. m_queueLimits \in Limits
        BY DEF Inv, QueuesOK
    <2>1. CASE HasLimits
        <3>1. m_queueLimits' = Completed(m_queueLimits, notice, held)
            BY <2>1 DEF NotifyTransmittedBytes
        <3> QED
            BY <1>1, <2>0, <3>1, CompletedProperties
    <2>2. CASE ~ HasLimits
        <3>1. m_queueLimits' = m_queueLimits
            BY <2>2 DEF NotifyTransmittedBytes
        <3> QED
            BY <2>0, <2>2, <3>1 DEF Inv, LimitsReason
    <2> QED
        BY <2>1, <2>2, HasLimitsAssumption
<1> DEFINE wakes == HasLimits /\ Available(m_queueLimits') >= 0
<1>3. /\ m_stoppedByQueueLimits' = (m_stoppedByQueueLimits /\ ~ wakes)
      /\ pc' = IF wakes /\ m_stoppedByQueueLimits THEN "runThenWake" ELSE "wake"
    BY Zenon DEF NotifyTransmittedBytes
<1>4. QueuesOK'
    BY <1>1, <1>2, QuotaAssumption DEF Inv, QueuesOK, Pcs, Running
<1>5. FlagsOK'
    <2> HIDE DEF wakes
    <2> QED
        BY <1>1, <1>3, Zenon DEF Inv, FlagsOK
<1>6. QuotaLeft'
    BY <1>1, QuotaAssumption DEF QuotaLeft, Running
<1>7. ReadyIsEmpty'
    BY <1>1 DEF Inv, ReadyIsEmpty
<1>8. StoppedForAReason'
    BY <1>1 DEF StoppedForAReason
<1>9. DeviceHasRoom'
    BY <1>1 DEF Inv, DeviceHasRoom, WouldOverflow
<1>10. Counts(m_queue, m_nBytes)'
    BY <1>1, Zenon DEF Inv, Counts
<1>11. BytesAccounted'
    <2>1. m_queueLimits \in Limits /\ m_nBytes \in Int
        BY DEF Inv, QueuesOK
    <2>2. HasLimits => m_queueLimits.m_numQueued - m_queueLimits.m_numCompleted
                           = m_nBytes + notice
        BY DEF Inv, BytesAccounted
    <2> QED
        BY <1>1, <1>2, <2>1, <2>2 DEF BytesAccounted, Limits
<1>12. LimitsReason'
    <2>1. ~ HasLimits => ~ m_stoppedByQueueLimits'
        BY <1>3, Zenon DEF Inv, LimitsReason
    <2>2. m_stoppedByQueueLimits' => ~ (Available(m_queueLimits') >= 0)
        BY <1>3, Zenon DEF Inv, LimitsReason
    <2>3. Available(m_queueLimits') \in Int
        BY <1>2 DEF Available, Limits
    <2>4. m_stoppedByQueueLimits' => Available(m_queueLimits') < 0
        BY <2>2, <2>3
    <2>5. Available(m_queueLimits)' = Available(m_queueLimits')
        BY DEF Available
    <2> QED
        BY <1>2, <2>1, <2>4, <2>5, Zenon DEF LimitsReason
<1>13. BacklogOrQuota'
    <2>1. pc' \notin Running => m_stoppedByQueueLimits' = m_stoppedByQueueLimits
        <3> HIDE DEF wakes
        <3>1. pc' \notin Running => ~ (wakes /\ m_stoppedByQueueLimits)
            BY <1>3 DEF Running
        <3> QED
            BY <1>3, <3>1, Zenon DEF Inv, FlagsOK
    <2>2. pc \notin Running /\ (pc' \notin Running => quota' = quota)
        BY <1>1 DEF Running
    <2> QED
        BY <1>1, <2>1, <2>2, Zenon DEF Inv, BacklogOrQuota, IsStopped
<1> QED
    BY <1>4, <1>5, <1>6, <1>7, <1>8, <1>9, <1>10, <1>11, <1>12, <1>13 DEF Inv

LEMMA TransmitCompleteInv == ASSUME Inv, TransmitComplete PROVE Inv'
<1>1. /\ pc = "idle" /\ pc' = pc /\ quota' = quota /\ queueDisc' = queueDisc
      /\ m_stoppedByDevice' = m_stoppedByDevice
      /\ m_stoppedByQueueLimits' = m_stoppedByQueueLimits
      /\ m_queueLimits' = m_queueLimits /\ accepted' = accepted
      /\ m_currentPkt # <<>> /\ notice = 0
    BY DEF TransmitComplete, flags
<1>2. FlagsOK' /\ QuotaLeft' /\ BacklogOrQuota' /\ LimitsReason'
    <2>1. FlagsOK'
        BY <1>1, Zenon DEF Inv, FlagsOK
    <2>2. QuotaLeft'
        BY <1>1 DEF QuotaLeft, Running
    <2>3. BacklogOrQuota'
        BY <1>1, Zenon DEF Inv, BacklogOrQuota, IsStopped
    <2>4. LimitsReason'
        BY <1>1, Zenon DEF Inv, LimitsReason
    <2> QED
        BY <2>1, <2>2, <2>3, <2>4
<1>3. CASE m_queue = <<>>
    <2>1. /\ m_currentPkt' = <<>> /\ m_queue' = <<>> /\ m_nBytes' = m_nBytes
          /\ notice' = 0 /\ m_queue' = m_queue
        BY <1>1, <1>3 DEF TransmitComplete
    <2>2. <<>> \in Seq(Size) /\ Len(<<>>) = 0
        OBVIOUS
    <2>3. QueuesOK'
        BY <1>1, <2>1, <2>2 DEF Inv, QueuesOK
    <2>4. ReadyIsEmpty'
        BY <1>1, <2>1 DEF ReadyIsEmpty
    <2>5. StoppedForAReason'
        BY <1>1, <1>3, <2>1, <2>2, MaxSizeAssumption
           DEF Inv, StoppedForAReason, WouldOverflow
    <2>6. DeviceHasRoom'
        BY <1>1, <2>1 DEF Inv, DeviceHasRoom, WouldOverflow
    <2>7. Counts(m_queue, m_nBytes)'
        BY <2>1, Zenon DEF Inv, Counts
    <2>8. BytesAccounted'
        BY <1>1, <2>1 DEF Inv, BytesAccounted
    <2> QED
        BY <1>2, <2>3, <2>4, <2>5, <2>6, <2>7, <2>8 DEF Inv
<1>4. CASE m_queue # <<>>
    <2>1. /\ m_currentPkt' = <<Head(m_queue)>> /\ m_queue' = Tail(m_queue)
          /\ m_nBytes' = m_nBytes - Head(m_queue) /\ notice' = Head(m_queue)
        BY <1>4 DEF TransmitComplete, Dequeue
    <2>2. m_queue \in Seq(Size) /\ Len(m_queue) <= MaxSize /\ m_nBytes \in Int
        BY DEF Inv, QueuesOK
    <2>3. /\ Head(m_queue) \in Size /\ Tail(m_queue) \in Seq(Size)
          /\ Len(Tail(m_queue)) = Len(m_queue) - 1 /\ Len(m_queue) \in Nat
        BY <1>4, <2>2, HeadTailProperties, LenProperties
    <2>4. Head(m_queue) \in Nat /\ Head(m_queue) > 0
        BY <2>3, SizesArePositive, Zenon
    <2>5. /\ m_currentPkt' \in Seq(Size) /\ Len(m_currentPkt') = 1
          /\ m_currentPkt' # <<>>
        BY <2>1, <2>3
    <2>6. Len(m_queue') <= MaxSize
        BY <2>1, <2>2, <2>3, MaxSizeAssumption
    <2>7. QueuesOK'
        BY <1>1, <2>1, <2>2, <2>3, <2>4, <2>5, <2>6 DEF Inv, QueuesOK
    <2>8. ReadyIsEmpty'
        BY <2>5 DEF ReadyIsEmpty
    <2>9. StoppedForAReason'
        BY <2>1, <2>4 DEF StoppedForAReason
    <2>10. DeviceHasRoom'
        BY <1>1, <2>1, <2>2, <2>3, MaxSizeAssumption
           DEF Inv, DeviceHasRoom, WouldOverflow
    <2>11. Counts(m_queue, m_nBytes)'
        <3>1. Counts(Tail(m_queue), m_nBytes - Head(m_queue))
            BY <1>4, <2>2, CountsTail DEF Inv
        <3> QED
            BY <2>1, <3>1, Zenon DEF Counts
    <2>12. BytesAccounted'
        <3>1. m_queueLimits \in Limits
            BY Zenon DEF Inv, QueuesOK
        <3>2. /\ m_queueLimits.m_numQueued \in Int /\ m_queueLimits.m_numCompleted \in Int
            BY <3>1 DEF Limits
        <3>3. HasLimits => m_queueLimits.m_numQueued - m_queueLimits.m_numCompleted
                               = m_nBytes + notice
            BY Zenon DEF Inv, BytesAccounted
        <3>4. m_nBytes + notice = m_nBytes' + notice'
            BY <1>1, <2>1, <2>2, <2>4
        <3> QED
            BY <1>1, <3>3, <3>4, Zenon DEF BytesAccounted
    <2> QED
        BY <1>2, <2>7, <2>8, <2>9, <2>10, <2>11, <2>12 DEF Inv
<1> QED
    BY <1>3, <1>4

\* A packet the queue disc hands to a queue that is not stopped is taken: it
\* waits, or it goes to the wire, and its notice is scheduled.
LEMMA DeviceTakes ==
    ASSUME Inv, ~ IsStopped, NEW p \in Size, DeviceSend(p)
    PROVE  /\ ~ WouldOverflow(Len(m_queue))
           /\ NotifyQueuedBytes(p)
           /\ m_stoppedByDevice' = (m_stoppedByDevice \/ WouldOverflow(Len(m_queue) + 1))
           /\ IF m_currentPkt = <<>>
              THEN /\ m_queue = <<>> /\ m_nBytes = 0 /\ notice = 0
                   /\ m_currentPkt' = <<p>> /\ m_queue' = <<>>
                   /\ m_nBytes' = 0 /\ notice' = p
              ELSE /\ m_queue' = Append(m_queue, p) /\ m_nBytes' = m_nBytes + p
                   /\ m_currentPkt' = m_currentPkt /\ notice' = notice
<1>1. ~ WouldOverflow(Len(m_queue))
    BY DEF Inv, DeviceHasRoom, IsStopped
<1>2. /\ NotifyQueuedBytes(p)
      /\ m_stoppedByDevice' = (m_stoppedByDevice \/ WouldOverflow(Len(m_queue) + 1))
    BY <1>1, Zenon DEF DeviceSend
<1>3. CASE m_currentPkt = <<>>
    <2>1. m_queue = <<>> /\ notice = 0
        BY <1>3, Zenon DEF Inv, ReadyIsEmpty
    <2>2. m_nBytes = 0
        BY <2>1, CountsEmpty, Zenon DEF Inv
    <2>3. Dequeue(Append(m_queue, p), m_nBytes + p)
        BY <1>1, <1>3, Zenon DEF DeviceSend
    <2>4. Append(<<>>, p) = <<p>> /\ Head(<<p>>) = p /\ Tail(<<p>>) = <<>>
        OBVIOUS
    <2>5. p \in Nat
        BY SizesArePositive, Zenon
    <2>6. /\ m_currentPkt' = <<p>> /\ m_queue' = <<>>
          /\ m_nBytes' = (0 + p) - p /\ notice' = p
        BY <2>1, <2>2, <2>3, <2>4 DEF Dequeue
    <2>7. (0 + p) - p = 0
        BY <2>5
    <2> QED
        BY <1>1, <1>2, <1>3, <2>1, <2>2, <2>6, <2>7, Zenon
<1>4. CASE m_currentPkt # <<>>
    <2>1. /\ m_queue' = Append(m_queue, p) /\ m_nBytes' = m_nBytes + p
          /\ m_currentPkt' = m_currentPkt /\ notice' = notice
        BY <1>1, <1>4, Zenon DEF DeviceSend
    <2> QED
        BY <1>1, <1>2, <1>4, <2>1, Zenon
<1> QED
    BY <1>3, <1>4

LEMMA RestartInv == ASSUME Inv, Restart PROVE Inv'
<1> DEFINE p == Head(queueDisc)
<1>1. /\ pc \in Running /\ ~ IsStopped /\ queueDisc # <<>>
      /\ queueDisc' = Tail(queueDisc) /\ DeviceSend(p) /\ quota' = quota - 1
      /\ pc' = IF queueDisc' = <<>> \/ IsStopped' \/ quota' = 0 THEN Return ELSE pc
      /\ accepted' = accepted
    BY DEF Restart
<1>2. /\ m_queue \in Seq(Size) /\ Len(m_queue) \in Nat /\ m_nBytes \in Int
      /\ m_queueLimits \in Limits /\ notice \in Nat
      /\ m_currentPkt \in Seq(Size) /\ Len(m_currentPkt) <= 1
    BY SizesArePositive, LenProperties DEF Inv, QueuesOK
<1>3. /\ p \in Size /\ p \in Nat /\ p > 0
      /\ queueDisc' \in Seq(Size) /\ Len(queueDisc') <= DiscSize
    <2>1. queueDisc \in Seq(Size) /\ Len(queueDisc) <= DiscSize
        BY DEF Inv, QueuesOK
    <2>2. /\ Head(queueDisc) \in Size /\ Tail(queueDisc) \in Seq(Size)
          /\ Len(Tail(queueDisc)) = Len(queueDisc) - 1 /\ Len(queueDisc) \in Nat
        BY <1>1, <2>1, HeadTailProperties, LenProperties
    <2>3. p \in Nat /\ p > 0
        BY <2>2, SizesArePositive, Zenon
    <2> QED
        BY <1>1, <2>1, <2>2, <2>3, DiscSizeAssumption
<1> HIDE DEF p
<1>4. /\ ~ WouldOverflow(Len(m_queue))
      /\ NotifyQueuedBytes(p)
      /\ m_stoppedByDevice' = (m_stoppedByDevice \/ WouldOverflow(Len(m_queue) + 1))
      /\ IF m_currentPkt = <<>>
         THEN /\ m_queue = <<>> /\ m_nBytes = 0 /\ notice = 0
              /\ m_currentPkt' = <<p>> /\ m_queue' = <<>>
              /\ m_nBytes' = 0 /\ notice' = p
         ELSE /\ m_queue' = Append(m_queue, p) /\ m_nBytes' = m_nBytes + p
              /\ m_currentPkt' = m_currentPkt /\ notice' = notice
    BY <1>1, <1>3, DeviceTakes
<1>5. pc' \in {pc, Return} /\ (pc = "run" => Return = "idle")
      /\ (pc = "runThenWake" => Return = "wake") /\ pc \in {"run", "runThenWake"}
    BY <1>1 DEF Return, Running
\* The queues, whether the packet waits or goes to the wire.
<1>6. /\ m_queue' \in Seq(Size) /\ Len(m_queue') <= MaxSize
      /\ m_nBytes' \in Int /\ m_nBytes' + notice' = m_nBytes + notice + p
      /\ m_currentPkt' \in Seq(Size) /\ Len(m_currentPkt') <= 1 /\ m_currentPkt' # <<>>
      /\ notice' \in Size \cup {0}
      /\ Len(m_queue') <= Len(m_queue) + 1
      /\ Len(m_queue') = Len(m_queue) + 1 \/ notice' > 0
      /\ Counts(m_queue', m_nBytes')
    <2>1. CASE m_currentPkt = <<>>
        <3>1. /\ m_queue = <<>> /\ m_nBytes = 0 /\ notice = 0
              /\ m_currentPkt' = <<p>> /\ m_queue' = <<>>
              /\ m_nBytes' = 0 /\ notice' = p
            BY <1>4, <2>1
        <3>2. /\ <<p>> \in Seq(Size) /\ Len(<<p>>) = 1 /\ <<p>> # <<>>
              /\ <<>> \in Seq(Size) /\ Len(<<>>) = 0
            BY <1>3
        <3>3. Counts(m_queue', m_nBytes')
            BY <3>1, CountsEmpty, Zenon
        <3> QED
            BY <1>2, <1>3, <3>1, <3>2, <3>3, MaxSizeAssumption
    <2>2. CASE m_currentPkt # <<>>
        <3>1. /\ m_queue' = Append(m_queue, p) /\ m_nBytes' = m_nBytes + p
              /\ m_currentPkt' = m_currentPkt /\ notice' = notice
            BY <1>4, <2>2
        <3>2. /\ Append(m_queue, p) \in Seq(Size)
              /\ Len(Append(m_queue, p)) = Len(m_queue) + 1
            BY <1>2, <1>3, AppendProperties
        <3>3. Len(m_queue) + 1 <= MaxSize
            BY <1>2, <1>4, MaxSizeAssumption DEF WouldOverflow
        <3>4. Counts(Append(m_queue, p), m_nBytes + p)
            BY <1>2, <1>3, CountsAppend DEF Inv
        <3>5. Counts(m_queue', m_nBytes')
            BY <3>1, <3>4, Zenon
        <3>6. notice' \in Size \cup {0}
            BY <3>1 DEF Inv, QueuesOK
        <3> QED
            BY <1>2, <1>3, <2>2, <3>1, <3>2, <3>3, <3>5, <3>6
    <2> QED
        BY <2>1, <2>2
\* The limits.
<1>7. /\ m_queueLimits' \in Limits
      /\ m_queueLimits'.m_numCompleted = m_queueLimits.m_numCompleted
      /\ m_queueLimits'.m_adjLimit = m_queueLimits.m_adjLimit
      /\ HasLimits => m_queueLimits'.m_numQueued = m_queueLimits.m_numQueued + p
      /\ HasLimits => m_stoppedByQueueLimits'
                         = (m_stoppedByQueueLimits \/ Available(m_queueLimits') < 0)
      /\ ~ HasLimits => m_stoppedByQueueLimits' = m_stoppedByQueueLimits
    <2>1. CASE HasLimits
        <3>1. /\ m_queueLimits' = Queued(m_queueLimits, p)
              /\ m_stoppedByQueueLimits' =
                     (m_stoppedByQueueLimits \/ Available(m_queueLimits') < 0)
            BY <1>4, <2>1, Zenon DEF NotifyQueuedBytes
        <3>2. /\ Queued(m_queueLimits, p) \in Limits
              /\ Queued(m_queueLimits, p).m_numQueued = m_queueLimits.m_numQueued + p
              /\ Queued(m_queueLimits, p).m_numCompleted = m_queueLimits.m_numCompleted
              /\ Queued(m_queueLimits, p).m_adjLimit = m_queueLimits.m_adjLimit
            BY <1>2, <1>3, QueuedProperties
        <3> QED
            BY <2>1, <3>1, <3>2, Zenon
    <2>2. CASE ~ HasLimits
        <3>1. /\ m_queueLimits' = m_queueLimits
              /\ m_stoppedByQueueLimits' = m_stoppedByQueueLimits
            BY <1>4, <2>2, Zenon DEF NotifyQueuedBytes
        <3> QED
            BY <1>2, <2>2, <3>1, Zenon
    <2> QED
        BY <2>1, <2>2
<1>8. QueuesOK'
    <2>1. quota' \in 0 .. Quota
        BY <1>1, QuotaAssumption DEF Inv, QueuesOK, QuotaLeft
    <2>2. pc' \in Pcs
        BY <1>5 DEF Pcs, Running
    <2>3. accepted' \in 0 .. MaxPackets
        BY <1>1 DEF Inv, QueuesOK
    <2> QED
        BY <1>3, <1>6, <1>7, <2>1, <2>2, <2>3 DEF QueuesOK
<1>9. FlagsOK'
    <2>1. m_stoppedByDevice' \in BOOLEAN
        BY <1>4, Zenon DEF Inv, FlagsOK
    <2>2. m_stoppedByQueueLimits' \in BOOLEAN
        BY <1>7, Zenon DEF Inv, FlagsOK
    <2> QED
        BY <2>1, <2>2, Zenon DEF FlagsOK
<1>10. QuotaLeft'
    <2>1. pc' \in Running => quota' # 0
        BY <1>1, <1>5 DEF Running
    <2> QED
        BY <1>8, <2>1, QuotaAssumption DEF QuotaLeft, QueuesOK
<1>11. ReadyIsEmpty'
    BY <1>6, Zenon DEF ReadyIsEmpty
<1>12. StoppedForAReason'
    <2>1. ~ m_stoppedByDevice
        BY <1>1, Zenon DEF IsStopped
    <2>2. m_stoppedByDevice' => WouldOverflow(Len(m_queue) + 1)
        BY <1>4, <2>1, Zenon
    <2>3. Len(m_queue') = Len(m_queue) + 1 =>
              WouldOverflow(Len(m_queue'))  = WouldOverflow(Len(m_queue) + 1)
        BY DEF WouldOverflow
    <2>4. WouldOverflow(Len(m_queue))' = WouldOverflow(Len(m_queue'))
        BY DEF WouldOverflow
    <2> QED
        BY <1>6, <2>2, <2>3, <2>4, Zenon DEF StoppedForAReason
<1>13. DeviceHasRoom'
    <2>1. ~ m_stoppedByDevice' => ~ WouldOverflow(Len(m_queue) + 1)
        BY <1>4, Zenon
    <2>2. Len(m_queue') \in Nat
        BY <1>6, LenProperties
    <2>3. ~ WouldOverflow(Len(m_queue) + 1) => ~ WouldOverflow(Len(m_queue'))
        BY <1>2, <1>6, <2>2, MaxSizeAssumption DEF WouldOverflow
    <2>4. WouldOverflow(Len(m_queue))' = WouldOverflow(Len(m_queue'))
        BY DEF WouldOverflow
    <2> QED
        BY <2>1, <2>3, <2>4, Zenon DEF DeviceHasRoom
<1>14. Counts(m_queue, m_nBytes)'
    BY <1>6, Zenon DEF Counts
<1>15. BytesAccounted'
    <2>1. ASSUME HasLimits
          PROVE  m_queueLimits'.m_numQueued - m_queueLimits'.m_numCompleted
                     = m_nBytes' + notice'
        <3>1. /\ m_queueLimits'.m_numQueued = m_queueLimits.m_numQueued + p
              /\ m_queueLimits'.m_numCompleted = m_queueLimits.m_numCompleted
            BY <1>7, <2>1
        <3>2. m_queueLimits.m_numQueued - m_queueLimits.m_numCompleted
                  = m_nBytes + notice
            BY <2>1 DEF Inv, BytesAccounted
        <3>3. m_queueLimits.m_numQueued \in Nat /\ m_queueLimits.m_numCompleted \in Nat
            BY <1>2 DEF Limits
        <3>4. m_nBytes' + notice' = m_nBytes + notice + p
            BY <1>6
        <3>5. p \in Nat /\ m_nBytes \in Int /\ notice \in Nat
            BY <1>2, <1>3
        <3>6. (m_queueLimits.m_numQueued + p) - m_queueLimits.m_numCompleted
                  = m_nBytes + notice + p
            BY <3>2, <3>3, <3>5
        <3> QED
            BY <3>1, <3>4, <3>6
    <2> QED
        BY <2>1 DEF BytesAccounted
<1>16. LimitsReason'
    <2>1. m_queueLimits'.m_adjLimit >= m_queueLimits'.m_numCompleted
        BY <1>7 DEF Inv, LimitsReason
    <2>2. ~ m_stoppedByQueueLimits
        BY <1>1, Zenon DEF IsStopped
    <2>3. m_stoppedByQueueLimits' => HasLimits /\ Available(m_queueLimits') < 0
        BY <1>7, <2>2, Zenon
    <2>4. Available(m_queueLimits)' = Available(m_queueLimits')
        BY DEF Available
    <2> QED
        BY <2>1, <2>3, <2>4, Zenon DEF LimitsReason
<1>17. BacklogOrQuota'
    <2>1. quota' > 0 => quota' # 0
        BY <1>8, QuotaAssumption DEF QueuesOK
    <2>2. pc' \notin Running => queueDisc' = <<>> \/ IsStopped' \/ quota' = 0
        BY <1>1, Zenon
    <2> QED
        BY <2>1, <2>2, Zenon DEF BacklogOrQuota
<1> QED
    BY <1>8, <1>9, <1>10, <1>11, <1>12, <1>13, <1>14, <1>15, <1>16, <1>17 DEF Inv
-----------------------------------------------------------------------------
(* The theorems.                                                           *)

LEMMA StepInv == Inv /\ [Next]_vars => Inv'
<1> SUFFICES ASSUME Inv, [Next]_vars PROVE Inv'
    OBVIOUS
<1>1. ASSUME NEW p \in Size, Send(p) PROVE Inv'
    BY <1>1, SendInv
<1>2. CASE RunEnd
    BY <1>2, RunEndInv
<1>3. CASE Restart
    BY <1>3, RestartInv
<1>4. CASE Notify
    BY <1>4, NotifyInv DEF Notify
<1>5. CASE Wake
    BY <1>5, WakeInv
<1>6. CASE TransmitComplete
    BY <1>6, TransmitCompleteInv
<1>7. CASE UNCHANGED vars
    <2>1. /\ pc' = pc /\ quota' = quota /\ queueDisc' = queueDisc
          /\ m_queue' = m_queue /\ m_nBytes' = m_nBytes
          /\ m_currentPkt' = m_currentPkt /\ notice' = notice
          /\ m_stoppedByDevice' = m_stoppedByDevice
          /\ m_stoppedByQueueLimits' = m_stoppedByQueueLimits
          /\ m_queueLimits' = m_queueLimits /\ accepted' = accepted
        BY <1>7 DEF vars, device, flags
    <2> QED
        BY <2>1, Zenon DEF Inv, QueuesOK, FlagsOK, QuotaLeft, ReadyIsEmpty,
           StoppedForAReason, DeviceHasRoom, Counts, BytesAccounted, LimitsReason,
           BacklogOrQuota, IsStopped, WouldOverflow, Available
<1> QED
    BY <1>1, <1>2, <1>3, <1>4, <1>5, <1>6, <1>7 DEF Next

THEOREM InvHolds == Spec => []Inv
BY InitInv, StepInv, PTL DEF Spec

\* Every variable keeps its type, and the queues their bounds, whatever is
\* sent and however long transmissions take.
THEOREM TypeCorrect == Spec => []TypeOK
<1>1. Inv => TypeOK
    BY Zenon DEF Inv, QueuesOK, FlagsOK, TypeOK
<1> QED
    BY <1>1, InvHolds, PTL

\* PacketDiscarded is never reached from PointToPointNetDevice::Send: the queue
\* is stopped in time.
THEOREM NothingIsDiscarded == Spec => []DeviceHasRoom
<1>1. Inv => DeviceHasRoom
    BY Zenon DEF Inv
<1> QED
    BY <1>1, InvHolds, PTL

\* A READY transmitter has a queue that nothing stopped.
LEMMA StoppedIsBusy == ASSUME Inv PROVE StoppedWhileTransmitting
<1> SUFFICES ASSUME m_currentPkt = <<>> PROVE ~ IsStopped
    BY Zenon DEF StoppedWhileTransmitting
<1>1. m_queue = <<>> /\ notice = 0 /\ pc \in {"idle", "run"}
    BY Zenon DEF Inv, ReadyIsEmpty
<1>2. ~ m_stoppedByDevice
    <2>1. ~ WouldOverflow(Len(m_queue))
        BY <1>1, MaxSizeAssumption DEF WouldOverflow
    <2> QED
        BY <1>1, <2>1 DEF Inv, StoppedForAReason
<1>3. ~ m_stoppedByQueueLimits
    <2>1. m_nBytes = 0
        BY <1>1, CountsEmpty, Zenon DEF Inv
    <2>2. HasLimits => m_queueLimits.m_numQueued = m_queueLimits.m_numCompleted
        <3>1. m_queueLimits.m_numQueued \in Nat /\ m_queueLimits.m_numCompleted \in Nat
            BY DEF Inv, QueuesOK, Limits
        <3> QED
            BY <1>1, <2>1, <3>1 DEF Inv, BytesAccounted
    <2>3. HasLimits => ~ (Available(m_queueLimits) < 0)
        <3>1. m_queueLimits.m_numQueued \in Nat /\ m_queueLimits.m_adjLimit \in Nat
            BY DEF Inv, QueuesOK, Limits
        <3> QED
            BY <2>2, <3>1 DEF Inv, LimitsReason, Available
    <2> QED
        BY <2>3, Zenon DEF Inv, LimitsReason
<1> QED
    BY <1>2, <1>3, Zenon DEF IsStopped

\* Whatever stopped the queue, a transmission is under way that will wake it: a
\* queue the device stopped is full or has a notice to come, and one that the
\* limits stopped holds bytes.  Both exclude a READY transmitter.
THEOREM NobodyWaitsForASilentDevice == Spec => []StoppedWhileTransmitting
<1>1. Inv => StoppedWhileTransmitting
    BY StoppedIsBusy
<1> QED
    BY <1>1, InvHolds, PTL

\* The limits and the queue of the device agree about the bytes in it.
THEOREM LimitsAgree == Spec => []BytesAccounted
<1>1. Inv => BytesAccounted
    BY Zenon DEF Inv
<1> QED
    BY <1>1, InvHolds, PTL

\* With a quota as large as the queue of the device: a run of the queue disc can
\* always fill that queue, and one that finds a READY transmitter has a single
\* packet to move.
FillsDevice ==
    /\ pc \in Running => /\ quota + Len(m_queue) >= MaxSize
                         /\ m_currentPkt = <<>> => Len(queueDisc) <= 1
    /\ pc \notin Running /\ queueDisc # <<>> => IsStopped

LEMMA SendFills ==
    ASSUME Inv, FillsDevice, Quota >= MaxSize, NEW p \in Size, Send(p)
    PROVE  FillsDevice'
<1>1. pc = "idle" /\ pc \notin Running /\ pc' = "run" /\ pc' \in Running /\ quota' = Quota
    BY DEF Send, Running
<1>2. m_queue' = m_queue /\ m_currentPkt' = m_currentPkt
    BY DEF Send, device
<1>3. quota' + Len(m_queue') >= MaxSize
    <2>1. Len(m_queue) \in Nat
        BY LenProperties DEF Inv, QueuesOK
    <2> QED
        BY <1>1, <1>2, <2>1, QuotaAssumption, MaxSizeAssumption
<1>4. ASSUME m_currentPkt' = <<>> PROVE Len(queueDisc') <= 1
    <2>1. ~ IsStopped
        BY <1>2, <1>4, StoppedIsBusy, Zenon DEF StoppedWhileTransmitting
    <2>2. queueDisc = <<>>
        BY <1>1, <2>1, Zenon DEF FillsDevice
    <2>3. queueDisc' = <<>> \/ queueDisc' = Append(<<>>, p)
        BY <2>2 DEF Send
    <2>4. Len(<<>>) = 0 /\ Len(Append(<<>>, p)) = 1
        OBVIOUS
    <2>5. Len(<<>>) <= 1 /\ Len(Append(<<>>, p)) <= 1
        BY <2>4
    <2> QED
        BY <2>3, <2>5, Zenon
<1> QED
    BY <1>1, <1>3, <1>4, Zenon DEF FillsDevice

\* A transmitter that is BUSY stays so, and each packet moved goes from the
\* quota to the queue.
LEMMA RestartFills ==
    ASSUME Inv, FillsDevice, Quota >= MaxSize, Restart
    PROVE  FillsDevice'
<1> DEFINE p == Head(queueDisc)
<1>1. /\ pc \in Running /\ queueDisc # <<>> /\ ~ IsStopped
      /\ queueDisc' = Tail(queueDisc) /\ DeviceSend(p) /\ quota' = quota - 1
      /\ pc' = IF queueDisc' = <<>> \/ IsStopped' \/ quota' = 0 THEN Return ELSE pc
    BY DEF Restart
<1>2. /\ queueDisc \in Seq(Size) /\ m_queue \in Seq(Size) /\ quota \in Nat
      /\ Len(m_queue) \in Nat
    BY QuotaAssumption, LenProperties DEF Inv, QueuesOK
<1>3. p \in Size
    BY <1>1, <1>2, HeadTailProperties
<1> HIDE DEF p
<1>4. /\ quota + Len(m_queue) >= MaxSize
      /\ m_currentPkt = <<>> => Len(queueDisc) <= 1
    BY <1>1, Zenon DEF FillsDevice
<1>5. IF m_currentPkt = <<>>
      THEN m_queue = <<>> /\ m_currentPkt' = <<p>> /\ m_queue' = <<>>
      ELSE m_queue' = Append(m_queue, p) /\ m_currentPkt' = m_currentPkt
    BY <1>1, <1>3, DeviceTakes
<1>6. Return \notin Running
    BY DEF Return, Running
<1>7. CASE m_currentPkt = <<>>
    <2>1. Len(queueDisc) <= 1
        BY <1>4, <1>7
    <2>2. queueDisc' = <<>>
        <3>1. /\ Len(Tail(queueDisc)) = Len(queueDisc) - 1 /\ Len(queueDisc) \in Nat
              /\ Tail(queueDisc) \in Seq(Size) /\ Len(Tail(queueDisc)) \in Nat
            BY <1>1, <1>2, HeadTailProperties, LenProperties
        <3>2. Len(Tail(queueDisc)) = 0
            BY <2>1, <3>1
        <3> QED
            BY <1>1, <3>1, <3>2, EmptySeq
    <2> QED
        BY <1>1, <1>6, <2>2, Zenon DEF FillsDevice
<1>8. CASE m_currentPkt # <<>>
    <2>1. m_queue' = Append(m_queue, p) /\ m_currentPkt' # <<>>
        BY <1>5, <1>8
    <2>2. Len(m_queue') = Len(m_queue) + 1
        BY <1>2, <1>3, <2>1, AppendProperties
    <2>3. quota' + Len(m_queue') >= MaxSize
        BY <1>1, <1>2, <1>4, <2>2, MaxSizeAssumption
    <2>4. quota' = 0 => IsStopped'
        <3>1. ~ WouldOverflow(Len(m_queue)) /\ ~ m_stoppedByDevice
            BY <1>1, Zenon DEF Inv, DeviceHasRoom, IsStopped
        <3>2. m_stoppedByDevice' = (m_stoppedByDevice \/ WouldOverflow(Len(m_queue) + 1))
            BY <1>1, <3>1, Zenon DEF DeviceSend
        <3>3. quota' = 0 => WouldOverflow(Len(m_queue) + 1)
            BY <1>2, <2>2, <2>3, MaxSizeAssumption DEF WouldOverflow
        <3> QED
            BY <3>2, <3>3, Zenon DEF IsStopped
    <2>5. pc' \notin Running => queueDisc' = <<>> \/ IsStopped'
        BY <1>1, <2>4, Zenon
    <2> QED
        BY <2>1, <2>3, <2>5, Zenon DEF FillsDevice
<1> QED
    BY <1>7, <1>8

\* The transmitter that gave the notice is BUSY, and a run that a wake-up starts
\* has the whole quota.
LEMMA NotifyFills ==
    ASSUME Inv, FillsDevice, Quota >= MaxSize,
           NEW held \in BOOLEAN, NotifyTransmittedBytes(held)
    PROVE  FillsDevice'
<1>1. /\ pc = "idle" /\ notice > 0 /\ m_queue' = m_queue /\ queueDisc' = queueDisc
      /\ m_currentPkt' = m_currentPkt /\ m_stoppedByDevice' = m_stoppedByDevice
    BY DEF NotifyTransmittedBytes
<1>2. m_currentPkt # <<>>
    <2>1. notice # 0
        BY <1>1
    <2> QED
        BY <2>1, Zenon DEF Inv, ReadyIsEmpty
<1>3. pc \notin Running
    BY <1>1 DEF Running
<1>4. PICK wakes :
          /\ m_stoppedByQueueLimits' = (m_stoppedByQueueLimits /\ ~ wakes)
          /\ pc' = IF wakes /\ m_stoppedByQueueLimits THEN "runThenWake" ELSE "wake"
    BY Zenon DEF NotifyTransmittedBytes
<1>5. CASE wakes /\ m_stoppedByQueueLimits
    <2>1. pc' = "runThenWake" /\ pc' \in Running
        BY <1>4, <1>5 DEF Running
    <2>2. quota' = Quota
        BY <2>1 DEF NotifyTransmittedBytes
    <2>3. quota' + Len(m_queue') >= MaxSize
        <3>1. Len(m_queue) \in Nat
            BY LenProperties DEF Inv, QueuesOK
        <3> QED
            BY <1>1, <2>2, <3>1, QuotaAssumption, MaxSizeAssumption
    <2> QED
        BY <1>1, <1>2, <2>1, <2>3, Zenon DEF FillsDevice
<1>6. CASE ~ (wakes /\ m_stoppedByQueueLimits)
    <2>1. pc' = "wake" /\ pc' \notin Running
        BY <1>4, <1>6 DEF Running
    <2>2. m_stoppedByQueueLimits' = m_stoppedByQueueLimits
        <3>1. m_stoppedByQueueLimits \in BOOLEAN
            BY Zenon DEF Inv, FlagsOK
        <3> QED
            BY <1>4, <1>6, <3>1, Zenon
    <2> QED
        BY <1>1, <1>3, <2>1, <2>2, Zenon DEF FillsDevice, IsStopped
<1> QED
    BY <1>5, <1>6

LEMMA WakeFills ==
    ASSUME Inv, FillsDevice, Quota >= MaxSize, Wake
    PROVE  FillsDevice'
<1>1. /\ pc = "wake" /\ m_queue' = m_queue /\ queueDisc' = queueDisc
      /\ m_currentPkt' = m_currentPkt
      /\ m_stoppedByQueueLimits' = m_stoppedByQueueLimits
      /\ pc' = IF m_stoppedByDevice /\ ~ m_stoppedByDevice' THEN "run" ELSE "idle"
      /\ quota' = IF pc' = "run" THEN Quota ELSE quota
    BY DEF Wake, device
<1>2. m_currentPkt # <<>> /\ pc \notin Running
    BY <1>1 DEF Inv, ReadyIsEmpty, Running
<1>3. CASE m_stoppedByDevice /\ ~ m_stoppedByDevice'
    <2>1. pc' = "run" /\ pc' \in Running /\ quota' = Quota
        BY <1>1, <1>3 DEF Running
    <2>2. quota' + Len(m_queue') >= MaxSize
        <3>1. Len(m_queue) \in Nat
            BY LenProperties DEF Inv, QueuesOK
        <3> QED
            BY <1>1, <2>1, <3>1, QuotaAssumption, MaxSizeAssumption
    <2> QED
        BY <1>1, <1>2, <2>1, <2>2, Zenon DEF FillsDevice
<1>4. CASE ~ (m_stoppedByDevice /\ ~ m_stoppedByDevice')
    <2>1. pc' \notin Running
        BY <1>1, <1>4 DEF Running
    <2>2. IsStopped => IsStopped'
        BY <1>1, <1>4, Zenon DEF IsStopped
    <2> QED
        BY <1>1, <1>2, <2>1, <2>2, Zenon DEF FillsDevice
<1> QED
    BY <1>3, <1>4

LEMMA StepFills == Inv /\ FillsDevice /\ Quota >= MaxSize /\ [Next]_vars => FillsDevice'
<1> SUFFICES ASSUME Inv, FillsDevice, Quota >= MaxSize, [Next]_vars PROVE FillsDevice'
    OBVIOUS
<1>1. ASSUME NEW p \in Size, Send(p) PROVE FillsDevice'
    BY <1>1, SendFills
<1>2. CASE RunEnd
    <2>1. /\ pc' = Return /\ queueDisc' = queueDisc
          /\ m_stoppedByDevice' = m_stoppedByDevice
          /\ m_stoppedByQueueLimits' = m_stoppedByQueueLimits
          /\ IsStopped \/ queueDisc = <<>>
        BY <1>2 DEF RunEnd, flags
    <2>2. Return \notin Running
        BY DEF Return, Running
    <2> QED
        BY <2>1, <2>2, Zenon DEF FillsDevice, IsStopped
<1>3. CASE Restart
    BY <1>3, RestartFills
<1>4. CASE Notify
    BY <1>4, NotifyFills DEF Notify
<1>5. CASE Wake
    BY <1>5, WakeFills
<1>6. CASE TransmitComplete
    <2>1. /\ pc = "idle" /\ pc' = pc /\ queueDisc' = queueDisc
          /\ m_stoppedByDevice' = m_stoppedByDevice
          /\ m_stoppedByQueueLimits' = m_stoppedByQueueLimits
        BY <1>6 DEF TransmitComplete, flags
    <2>2. pc \notin Running
        BY <2>1 DEF Running
    <2> QED
        BY <2>1, <2>2, Zenon DEF FillsDevice, IsStopped
<1>7. CASE UNCHANGED vars
    <2>1. /\ pc' = pc /\ quota' = quota /\ queueDisc' = queueDisc
          /\ m_queue' = m_queue /\ m_currentPkt' = m_currentPkt
          /\ m_stoppedByDevice' = m_stoppedByDevice
          /\ m_stoppedByQueueLimits' = m_stoppedByQueueLimits
        BY <1>7 DEF vars, device, flags
    <2> QED
        BY <2>1, Zenon DEF FillsDevice, IsStopped
<1> QED
    BY <1>1, <1>2, <1>3, <1>4, <1>5, <1>6, <1>7 DEF Next

\* A packet is left behind only by a queue that is stopped, or by a quota smaller
\* than the queue of the device.
THEOREM NothingIsLeftBehind == Spec => []BacklogMeansStopped
<1>1. Init => FillsDevice
    BY DEF Init, FillsDevice, Running
<1>2. Inv /\ (Quota >= MaxSize => FillsDevice) => BacklogMeansStopped
    BY Zenon DEF Inv, BacklogOrQuota, BacklogMeansStopped, FillsDevice
<1>3. Inv /\ (Quota >= MaxSize => FillsDevice) /\ [Next]_vars
          => (Quota >= MaxSize => FillsDevice)'
    BY StepFills
<1>4. Init => (Quota >= MaxSize => FillsDevice)
    BY <1>1
<1> QED
    BY <1>2, <1>3, <1>4, InvHolds, PTL DEF Spec
-----------------------------------------------------------------------------
(* The refinement.                                                         *)

LEMMA HeadThenTail ==
    ASSUME NEW S, NEW s \in Seq(S), s # <<>>
    PROVE  <<Head(s)>> \o Tail(s) = s
<1> DEFINE h == <<Head(s)>>
           t == Tail(s)
<1>1. /\ Head(s) \in S /\ t \in Seq(S) /\ Len(t) = Len(s) - 1
      /\ \A i \in 1 .. Len(t) : t[i] = s[i + 1]
      /\ Len(s) \in Nat \ {0} /\ Head(s) = s[1]
    BY HeadTailProperties, EmptySeq
<1>2. h \in Seq(S) /\ Len(h) = 1 /\ h[1] = s[1]
    BY <1>1
<1> HIDE DEF h, t
<1>3. /\ h \o t \in Seq(S) /\ Len(h \o t) = Len(h) + Len(t)
      /\ \A i \in 1 .. Len(h) + Len(t) :
             (h \o t)[i] = IF i <= Len(h) THEN h[i] ELSE t[i - Len(h)]
    BY <1>1, <1>2, ConcatProperties
<1>4. ASSUME NEW i \in 1 .. Len(h \o t) PROVE (h \o t)[i] = s[i]
    <2>1. CASE i = 1
        BY <1>1, <1>2, <1>3, <2>1
    <2>2. CASE i # 1
        <3>1. i - 1 \in 1 .. Len(t) /\ (i - 1) + 1 = i /\ ~ (i <= 1)
            BY <1>1, <1>2, <1>3, <2>2
        <3>2. (h \o t)[i] = t[i - 1]
            BY <1>1, <1>2, <1>3, <3>1
        <3>3. t[i - 1] = s[(i - 1) + 1]
            BY <1>1, <3>1
        <3> QED
            BY <3>1, <3>2, <3>3
    <2> QED
        BY <2>1, <2>2
<1>5. Len(h \o t) = Len(s)
    BY <1>1, <1>2, <1>3
<1>6. h \o t = s
    BY <1>3, <1>4, <1>5, SeqEqual
<1> QED
    BY <1>6 DEF h, t

LEMMA TailOfConcat ==
    ASSUME NEW S, NEW x \in S, NEW s \in Seq(S)
    PROVE  <<x>> \o s # <<>> /\ Tail(<<x>> \o s) = s
<1> DEFINE h == <<x>>
           u == h \o s
<1>1. h \in Seq(S) /\ Len(h) = 1 /\ Len(s) \in Nat
    BY LenProperties
<1> HIDE DEF h
<1>2. /\ u \in Seq(S) /\ Len(u) = 1 + Len(s)
      /\ \A i \in 1 .. 1 + Len(s) : u[i] = IF i <= 1 THEN h[i] ELSE s[i - 1]
    BY <1>1, ConcatProperties
<1> HIDE DEF u
<1>3. u # <<>>
    BY <1>1, <1>2
<1>4. /\ Tail(u) \in Seq(S) /\ Len(Tail(u)) = Len(u) - 1
      /\ \A i \in 1 .. Len(Tail(u)) : Tail(u)[i] = u[i + 1]
    BY <1>2, <1>3, HeadTailProperties
<1>5. ASSUME NEW i \in 1 .. Len(Tail(u)) PROVE Tail(u)[i] = s[i]
    <2>1. i + 1 \in 1 .. 1 + Len(s) /\ ~ (i + 1 <= 1) /\ (i + 1) - 1 = i
        BY <1>1, <1>2, <1>4
    <2>2. u[i + 1] = s[(i + 1) - 1]
        BY <1>2, <2>1
    <2> QED
        BY <1>4, <2>1, <2>2
<1>6. Len(Tail(u)) = Len(s)
    BY <1>1, <1>2, <1>4
<1>7. Tail(u) = s
    BY <1>4, <1>5, <1>6, SeqEqual
<1> QED
    BY <1>3, <1>7 DEF u, h

\* The queue of the link.
LinkQueue == m_currentPkt \o m_queue \o queueDisc

LEMMA QueuesAreSequences ==
    Inv => /\ m_currentPkt \in Seq(Size) /\ m_queue \in Seq(Size)
           /\ queueDisc \in Seq(Size) /\ m_currentPkt \o m_queue \in Seq(Size)
<1>1. Inv => /\ m_currentPkt \in Seq(Size) /\ m_queue \in Seq(Size)
             /\ queueDisc \in Seq(Size)
    BY DEF Inv, QueuesOK
<1> QED
    BY <1>1, ConcatProperties

LEMMA SendAccepts ==
    ASSUME Inv, NEW p \in Size, Send(p)
    PROVE  LinkQueue' = Append(LinkQueue, p) \/ LinkQueue' = LinkQueue
<1> DEFINE a == m_currentPkt \o m_queue
<1>1. a \in Seq(Size) /\ queueDisc \in Seq(Size) /\ <<p>> \in Seq(Size)
    BY QueuesAreSequences
<1>2. m_currentPkt' = m_currentPkt /\ m_queue' = m_queue
    BY DEF Send, device
<1> HIDE DEF a
<1>3. LinkQueue = a \o queueDisc /\ LinkQueue' = a \o queueDisc'
    BY <1>2 DEF LinkQueue, a
<1>4. queueDisc' = queueDisc \/ queueDisc' = Append(queueDisc, p)
    BY DEF Send
<1>5. Append(queueDisc, p) = queueDisc \o <<p>>
    BY <1>1, AppendIsConcat
<1>6. a \o (queueDisc \o <<p>>) = (a \o queueDisc) \o <<p>>
    BY <1>1, ConcatAssociative
<1>7. Append(a \o queueDisc, p) = (a \o queueDisc) \o <<p>>
    <2>1. a \o queueDisc \in Seq(Size)
        BY <1>1, ConcatProperties
    <2> QED
        BY <2>1, AppendIsConcat
<1> QED
    BY <1>3, <1>4, <1>5, <1>6, <1>7, Zenon

LEMMA RestartKeepsOrder ==
    ASSUME Inv, Restart
    PROVE  LinkQueue' = LinkQueue
<1> DEFINE p == Head(queueDisc)
           t == Tail(queueDisc)
<1>1. queueDisc # <<>> /\ queueDisc' = t /\ DeviceSend(p) /\ ~ IsStopped
    BY DEF Restart
<1>2. /\ m_currentPkt \in Seq(Size) /\ m_queue \in Seq(Size)
      /\ queueDisc \in Seq(Size) /\ m_currentPkt \o m_queue \in Seq(Size)
    BY QueuesAreSequences
<1>3. p \in Size /\ t \in Seq(Size)
    BY <1>1, <1>2, HeadTailProperties
<1>4. <<p>> \in Seq(Size)
    BY <1>3
<1>5. <<p>> \o t = queueDisc
    BY <1>1, <1>2, HeadThenTail
<1> HIDE DEF p, t
<1>6. IF m_currentPkt = <<>>
      THEN m_queue = <<>> /\ m_currentPkt' = <<p>> /\ m_queue' = <<>>
      ELSE m_queue' = Append(m_queue, p) /\ m_currentPkt' = m_currentPkt
    BY <1>1, <1>3, DeviceTakes
<1>7. CASE m_currentPkt = <<>>
    <2>1. LinkQueue = (<<>> \o <<>>) \o queueDisc /\ LinkQueue' = (<<p>> \o <<>>) \o t
        BY <1>1, <1>6, <1>7 DEF LinkQueue
    <2>2. <<>> \o <<>> = <<>>
        OBVIOUS
    <2>3. <<>> \o queueDisc = queueDisc /\ <<p>> \o <<>> = <<p>>
        BY <1>2, <1>4, ConcatEmptySeq
    <2> QED
        BY <1>5, <2>1, <2>2, <2>3, Zenon
<1>8. CASE m_currentPkt # <<>>
    <2> DEFINE a == m_currentPkt
               b == m_queue
    <2>1. m_queue' = b \o <<p>>
        <3>1. Append(m_queue, p) = m_queue \o <<p>>
            BY <1>2, <1>3, AppendIsConcat
        <3> QED
            BY <1>6, <1>8, <3>1, Zenon
    <2>2. LinkQueue = (a \o b) \o queueDisc /\ LinkQueue' = (a \o (b \o <<p>>)) \o t
        BY <1>1, <1>6, <1>8, <2>1 DEF LinkQueue
    <2>3. a \o (b \o <<p>>) = (a \o b) \o <<p>>
        BY <1>2, <1>4, ConcatAssociative
    <2>4. ((a \o b) \o <<p>>) \o t = (a \o b) \o (<<p>> \o t)
        BY <1>2, <1>3, <1>4, ConcatAssociative
    <2> HIDE DEF a, b
    <2> QED
        BY <1>5, <2>2, <2>3, <2>4, Zenon
<1> QED
    BY <1>7, <1>8

LEMMA TransmitDelivers ==
    ASSUME Inv, TransmitComplete
    PROVE  LinkQueue # <<>> /\ LinkQueue' = Tail(LinkQueue)
<1> DEFINE x == Head(m_currentPkt)
           r == m_queue \o queueDisc
<1>1. /\ m_currentPkt \in Seq(Size) /\ m_queue \in Seq(Size)
      /\ queueDisc \in Seq(Size)
    BY QueuesAreSequences
<1>2. r \in Seq(Size)
    BY <1>1, ConcatProperties
<1>3. m_currentPkt # <<>> /\ queueDisc' = queueDisc
    BY DEF TransmitComplete
<1>4. x \in Size /\ m_currentPkt = <<x>>
    <2>1. Head(m_currentPkt) \in Size
        BY <1>1, <1>3, HeadTailProperties
    <2>2. Len(m_currentPkt) = 1
        <3>1. Len(m_currentPkt) <= 1
            BY DEF Inv, QueuesOK
        <3>2. Len(m_currentPkt) \in Nat /\ Len(m_currentPkt) # 0
            BY <1>1, <1>3, EmptySeq
        <3>3. \A k \in Nat : k <= 1 /\ k # 0 => k = 1
            OBVIOUS
        <3> QED
            BY <3>1, <3>2, <3>3, Zenon
    <2>3. <<Head(m_currentPkt)>> \in Seq(Size) /\ Len(<<Head(m_currentPkt)>>) = 1
          /\ <<Head(m_currentPkt)>>[1] = m_currentPkt[1]
        BY <1>1, <1>3, <2>1
    <2>4. m_currentPkt = <<Head(m_currentPkt)>>
        BY <1>1, <2>2, <2>3, SeqEqual
    <2> QED
        BY <2>1, <2>4
<1> HIDE DEF x
<1>5. LinkQueue = <<x>> \o r
    <2>1. (<<x>> \o m_queue) \o queueDisc = <<x>> \o (m_queue \o queueDisc)
        BY <1>1, <1>4, ConcatAssociative
    <2> QED
        BY <1>4, <2>1, Zenon DEF LinkQueue
<1>6. LinkQueue' = r
    <2>1. CASE m_queue = <<>>
        <3>1. m_currentPkt' = <<>> /\ m_queue' = <<>>
            BY <2>1 DEF TransmitComplete
        <3>2. <<>> \o <<>> = <<>>
            OBVIOUS
        <3> QED
            BY <1>3, <2>1, <3>1, <3>2 DEF LinkQueue
    <2>2. CASE m_queue # <<>>
        <3>1. m_currentPkt' = <<Head(m_queue)>> /\ m_queue' = Tail(m_queue)
            BY <2>2 DEF TransmitComplete, Dequeue
        <3>2. <<Head(m_queue)>> \o Tail(m_queue) = m_queue
            BY <1>1, <2>2, HeadThenTail
        <3> QED
            BY <1>3, <3>1, <3>2, Zenon DEF LinkQueue
    <2> QED
        BY <2>1, <2>2
<1> HIDE DEF r
<1>7. <<x>> \o r # <<>> /\ Tail(<<x>> \o r) = r
    BY <1>2, <1>4, TailOfConcat
<1> QED
    BY <1>5, <1>6, <1>7, Zenon

\* The queue disc, the queue of the device and the transmitter are a FIFO link:
\* Send accepts, TransmitComplete delivers the oldest packet, and no other step
\* loses, duplicates or reorders one.
THEOREM ImplementsFifoLink == Spec => IsFifoLink
<1>1. Init => Link!Init
    <2>1. Len(<<>> \o <<>> \o <<>>) = 0 /\ <<>> \o <<>> \o <<>> = <<>>
        OBVIOUS
    <2> QED
        BY <2>1 DEF Init, Link!Init
<1>2. Inv /\ [Next]_vars => [Link!Next]_LinkQueue
    <2> SUFFICES ASSUME Inv, [Next]_vars PROVE Link!Next \/ LinkQueue' = LinkQueue
        OBVIOUS
    <2>1. ASSUME NEW p \in Size, Send(p) PROVE Link!Next \/ LinkQueue' = LinkQueue
        <3>1. LinkQueue' = Append(LinkQueue, p) \/ LinkQueue' = LinkQueue
            BY <2>1, SendAccepts
        <3> QED
            BY <3>1, Zenon DEF Link!Next, Link!Accept, LinkQueue
    <2>2. CASE RunEnd
        BY <2>2 DEF RunEnd, device, LinkQueue
    <2>3. CASE Restart
        BY <2>3, RestartKeepsOrder
    <2>4. CASE Notify
        BY <2>4 DEF Notify, NotifyTransmittedBytes, LinkQueue
    <2>5. CASE Wake
        BY <2>5 DEF Wake, device, LinkQueue
    <2>6. CASE TransmitComplete
        BY <2>6, TransmitDelivers, Zenon DEF Link!Next, Link!Deliver, LinkQueue
    <2>7. CASE UNCHANGED vars
        BY <2>7 DEF vars, device, LinkQueue
    <2> QED
        BY <2>1, <2>2, <2>3, <2>4, <2>5, <2>6, <2>7 DEF Next
<1> QED
    BY <1>1, <1>2, InvHolds, PTL DEF Spec, IsFifoLink, Link!Spec, LinkQueue
=============================================================================

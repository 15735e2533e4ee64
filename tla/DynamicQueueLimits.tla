------------------------- MODULE DynamicQueueLimits -------------------------
(***************************************************************************)
(* The byte queue limits of ns-3 (network/utils/dynamic-queue-limits.cc):  *)
(* how many bytes a device may be given before its queue is stopped,       *)
(* adjusted to the smallest limit that does not starve the device.         *)
(*                                                                         *)
(* The members of a DynamicQueueLimits are a record, and its methods       *)
(* operators on that record.  Counters are not bounded: their differences, *)
(* which are all that is used, survive the wrap of uint32_t.  Whether the  *)
(* hold time of the slack has passed is an argument.                       *)
(***************************************************************************)
EXTENDS Integers

CONSTANTS
    MinLimit, MaxLimit, \* the attributes
    NoSlack             \* UINTMAX, more than any slack

ASSUME LimitsAssumption == /\ MinLimit \in Nat
                           /\ MaxLimit \in Nat
                           /\ NoSlack \in Nat

Larger(a, b)  == IF a >= b THEN a ELSE b
Smaller(a, b) == IF a <= b THEN a ELSE b
Posdiff(a, b) == Larger(a - b, 0)

Limits == [m_limit : Nat, m_adjLimit : Nat, m_numQueued : Nat,
           m_numCompleted : Nat, m_lastObjCnt : Nat, m_prevNumQueued : Nat,
           m_prevLastObjCnt : Nat, m_prevOvlimit : Nat, m_lowestSlack : Nat]

\* The constructor: Reset leaves m_adjLimit alone, which starts as 0.
NewLimits == [m_limit |-> 0, m_adjLimit |-> 0, m_numQueued |-> 0,
              m_numCompleted |-> 0, m_lastObjCnt |-> 0, m_prevNumQueued |-> 0,
              m_prevLastObjCnt |-> 0, m_prevOvlimit |-> 0,
              m_lowestSlack |-> NoSlack]

Available(l) == l.m_adjLimit - l.m_numQueued

Queued(l, count) == [l EXCEPT !.m_lastObjCnt = count, !.m_numQueued = @ + count]

\* The limit was exceeded and nothing is left, or it was exceeded before and all
\* that was queued then is completed: the device may have starved.
Starved(l, completed) ==
    \/ l.m_numQueued - l.m_numCompleted > l.m_limit /\ l.m_numQueued = completed
    \/ l.m_prevOvlimit > 0 /\ completed >= l.m_prevNumQueued

\* The device was busy during the whole interval.
NotStarved(l, completed) ==
    /\ l.m_numQueued # completed
    /\ l.m_prevNumQueued # l.m_numCompleted
    /\ completed < l.m_prevNumQueued

\* The slack of this completion.
Slack(l, count) ==
    Larger(Posdiff(l.m_limit + l.m_prevOvlimit, 2 * count),
           IF l.m_prevOvlimit > 0
           THEN Posdiff(l.m_prevLastObjCnt, l.m_prevOvlimit) ELSE 0)

\* The limit and the lowest slack after `count' more bytes are completed, when
\* the slack was watched for the hold time (`held') or not.
Adjusted(l, count, held) ==
    LET completed == l.m_numCompleted + count
        lowest    == Smaller(l.m_lowestSlack, Slack(l, count))
    IN  IF Starved(l, completed)
        THEN [limit |-> l.m_limit + Posdiff(completed, l.m_prevNumQueued)
                                  + l.m_prevOvlimit,
              slack |-> NoSlack]
        ELSE IF NotStarved(l, completed)
        THEN IF held THEN [limit |-> Posdiff(l.m_limit, lowest), slack |-> NoSlack]
                     ELSE [limit |-> l.m_limit, slack |-> lowest]
        ELSE [limit |-> l.m_limit, slack |-> l.m_lowestSlack]

\* A mutant: the bytes completed are not counted.
CompletedUncounted(l, count, held) ==
    LET adjusted == Adjusted(l, count, held)
        limit    == Smaller(Larger(adjusted.limit, MinLimit), MaxLimit)
    IN  [l EXCEPT !.m_limit = limit, !.m_adjLimit = limit + l.m_numCompleted + count]

\* A mutant: the limit starts at what was completed before.
CompletedBehind(l, count, held) ==
    LET adjusted == Adjusted(l, count, held)
        limit    == Smaller(Larger(adjusted.limit, MinLimit), MaxLimit)
    IN  [l EXCEPT !.m_limit = limit, !.m_adjLimit = limit + l.m_numCompleted,
                  !.m_numCompleted = @ + count, !.m_prevNumQueued = l.m_numQueued,
                  !.m_lowestSlack = adjusted.slack]

Completed(l, count, held) ==
    LET adjusted == Adjusted(l, count, held)
        limit    == Smaller(Larger(adjusted.limit, MinLimit), MaxLimit)
    IN  [m_limit          |-> limit,
         m_adjLimit       |-> limit + l.m_numCompleted + count,
         m_numQueued      |-> l.m_numQueued,
         m_numCompleted   |-> l.m_numCompleted + count,
         m_lastObjCnt     |-> l.m_lastObjCnt,
         m_prevNumQueued  |-> l.m_numQueued,
         m_prevLastObjCnt |-> l.m_lastObjCnt,
         m_prevOvlimit    |-> IF limit # l.m_limit THEN 0
                              ELSE Posdiff(l.m_numQueued - l.m_numCompleted, limit),
         m_lowestSlack    |-> adjusted.slack]
=============================================================================

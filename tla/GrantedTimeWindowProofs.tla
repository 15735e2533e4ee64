---------------------- MODULE GrantedTimeWindowProofs -----------------------
(***************************************************************************)
(* The safety properties of GrantedTimeWindow for any number of ranks, any *)
(* links between them and any bound on the lookahead.                      *)
(***************************************************************************)
EXTENDS GrantedTimeWindow, FiniteSetTheorems, WellFoundedInduction, TLAPS

-----------------------------------------------------------------------------
(* Least and greatest elements.                                            *)

LEMMA LeastExists ==
    ASSUME NEW S, S \subseteq Nat, S # {}
    PROVE  /\ Least(S) \in S
           /\ \A y \in S : Least(S) <= y
<1>1. IsWellFoundedOn(OpToRel(<, Nat), Nat)
    BY NatLessThanWellFounded
<1>2. PICK x \in S : \A y \in S : ~ (<<y, x>> \in OpToRel(<, Nat))
    BY <1>1, WFMin
<1>3. ASSUME NEW y \in S PROVE x <= y
    <2>1. x \in Nat /\ y \in Nat /\ <<y, x>> \in Nat \X Nat
        OBVIOUS
    <2>2. y < x => <<y, x>> \in OpToRel(<, Nat)
        BY <2>1 DEF OpToRel
    <2>3. ~ (<<y, x>> \in OpToRel(<, Nat))
        BY <1>2, Zenon
    <2>4. ~ (y < x)
        BY <2>2, <2>3, Zenon
    <2> QED
        BY <2>1, <2>4
<1> QED
    BY <1>3 DEF Least

LEMMA GreatestExists ==
    ASSUME NEW m \in Nat, NEW S, S \subseteq 0 .. m, S # {}
    PROVE  /\ Greatest(S) \in S
           /\ \A y \in S : y <= Greatest(S)
<1> DEFINE T == {m - x : x \in S}
<1>1. T \subseteq Nat /\ T # {}
    <2>1. \A x \in S : x \in Nat /\ m - x \in Nat
        OBVIOUS
    <2>2. PICK x \in S : TRUE
        OBVIOUS
    <2>3. m - x \in T
        OBVIOUS
    <2>4. \A t \in T : t \in Nat
        BY <2>1
    <2> QED
        BY <2>3, <2>4
<1>2. Least(T) \in T /\ \A t \in T : Least(T) <= t
    BY <1>1, LeastExists
<1>3. PICK x \in S : Least(T) = m - x
    BY <1>2
<1>4. \A y \in S : m - x <= m - y
    BY <1>2, <1>3
<1>5. \A y \in S : y <= x
    BY <1>4
<1> QED
    BY <1>5 DEF Greatest
-----------------------------------------------------------------------------
(* The sum of a counter over the ranks.                                    *)

\* sum is the function of the partial sums of count.
PartialSums(sum, count, n) ==
    sum = [i \in 0 .. n |-> IF i = 0 THEN 0 ELSE sum[i - 1] + count[i - 1]]

\* Partial sums exist up to every rank.
LEMMA SumsExist ==
    ASSUME NEW count \in [Ranks -> Nat], NEW n \in 0 .. N
    PROVE  \E sum \in [0 .. n -> Nat] : PartialSums(sum, count, n)
<1> DEFINE Bad == {k \in 0 .. N : ~ \E sum \in [0 .. k -> Nat] : PartialSums(sum, count, k)}
<1>1. SUFFICES Bad = {}
    OBVIOUS
<1>2. SUFFICES ASSUME Bad # {} PROVE FALSE
    OBVIOUS
<1>3. Bad \subseteq Nat
    OBVIOUS
<1>4. PICK k \in Bad : \A j \in Bad : k <= j
    BY <1>2, <1>3, LeastExists
<1>5. CASE k = 0
    <2> DEFINE sum == [i \in 0 .. 0 |-> 0]
    <2>1. sum \in [0 .. 0 -> Nat] /\ PartialSums(sum, count, 0)
        BY DEF PartialSums
    <2> QED
        BY <2>1, <1>5
<1>6. CASE k # 0
    <2>1. k - 1 \in 0 .. N /\ k - 1 \notin Bad
        <3>1. k \in 0 .. N /\ k - 1 \in 0 .. N
            BY <1>4, <1>6, NAssumption
        <3> QED
            BY <1>4, <3>1
    <2>2. PICK s \in [0 .. k - 1 -> Nat] : PartialSums(s, count, k - 1)
        BY <2>1
    <2> DEFINE sum == [i \in 0 .. k |-> IF i = k THEN s[k - 1] + count[k - 1] ELSE s[i]]
    <2>3. k - 1 \in Ranks /\ count[k - 1] \in Nat
        <3>1. k - 1 \in Ranks
            BY <1>4, <1>6, NAssumption DEF Ranks
        <3> QED
            BY <3>1
    <2>4. sum \in [0 .. k -> Nat]
        BY <1>6, <2>3
    <2>5. ASSUME NEW i \in 0 .. k
          PROVE  sum[i] = IF i = 0 THEN 0 ELSE sum[i - 1] + count[i - 1]
        <3>1. CASE i = k
            BY <3>1, <1>6
        <3>2. CASE i # k
            BY <3>2, <2>2 DEF PartialSums
        <3> QED
            BY <3>1, <3>2
    <2>6. PartialSums(sum, count, k)
        BY <2>4, <2>5 DEF PartialSums
    <2> QED
        BY <2>4, <2>6
<1> QED
    BY <1>5, <1>6

\* Partial sums of natural numbers are natural numbers.
LEMMA SumsAreNat ==
    ASSUME NEW count \in [Ranks -> Nat], NEW s, PartialSums(s, count, N)
    PROVE  s \in [0 .. N -> Nat]
<1> DEFINE Bad == {i \in 0 .. N : s[i] \notin Nat}
<1>1. SUFFICES Bad = {}
    BY DEF PartialSums
<1>2. SUFFICES ASSUME Bad # {} PROVE FALSE
    OBVIOUS
<1>3. PICK k \in Bad : \A j \in Bad : k <= j
    <2>1. Bad \subseteq Nat
        OBVIOUS
    <2> QED
        BY <1>2, <2>1, LeastExists
<1>4. k # 0 /\ k \in 0 .. N
    BY <1>3, NAssumption DEF PartialSums
<1>5. k - 1 \in 0 .. N /\ k - 1 \in Ranks /\ ~ (k <= k - 1)
    BY <1>4, NAssumption DEF Ranks
<1>6. s[k - 1] \in Nat /\ count[k - 1] \in Nat
    BY <1>3, <1>5
<1>7. s[k] = s[k - 1] + count[k - 1]
    BY <1>4 DEF PartialSums
<1> QED
    BY <1>3, <1>6, <1>7

\* Two functions of partial sums agree; when the counters differ at rank r
\* only, the sums beyond r differ by that difference.
LEMMA SumsDiffer ==
    ASSUME NEW count \in [Ranks -> Nat], NEW r \in Ranks, NEW v \in Nat,
           NEW s \in [0 .. N -> Nat], PartialSums(s, count, N),
           NEW t \in [0 .. N -> Nat], PartialSums(t, [count EXCEPT ![r] = v], N)
    PROVE  t[N] = s[N] + (v - count[r])
<1> DEFINE Good(i) == t[i] = IF i <= r THEN s[i] ELSE s[i] + (v - count[r])
           Bad     == {i \in 0 .. N : ~ Good(i)}
<1>1. SUFFICES Bad = {}
    <2>1. N \in 0 .. N /\ ~ (N <= r)
        BY NAssumption DEF Ranks
    <2> QED
        BY <2>1
<1>2. SUFFICES ASSUME Bad # {} PROVE FALSE
    OBVIOUS
<1>3. PICK k \in Bad : \A j \in Bad : k <= j
    <2>1. Bad \subseteq Nat
        OBVIOUS
    <2> QED
        BY <1>2, <2>1, LeastExists
<1>4. k # 0
    BY <1>3 DEF PartialSums, Ranks
<1>5. k - 1 \in 0 .. N /\ Good(k - 1) /\ k - 1 \in Ranks
    <2>1. k \in 0 .. N /\ k - 1 \in 0 .. N /\ k - 1 \in Ranks /\ ~ (k <= k - 1)
        BY <1>3, <1>4, NAssumption DEF Ranks
    <2> QED
        BY <1>3, <2>1
<1>6. s[k] = s[k - 1] + count[k - 1]
    BY <1>3, <1>4 DEF PartialSums
<1>7. t[k] = t[k - 1] + [count EXCEPT ![r] = v][k - 1]
    BY <1>3, <1>4 DEF PartialSums
<1>8. [count EXCEPT ![r] = v][k - 1] = IF k - 1 = r THEN v ELSE count[k - 1]
    BY <1>5
<1>9. count[k - 1] \in Nat /\ count[r] \in Nat /\ s[k - 1] \in Nat /\ t[k - 1] \in Nat
      /\ s[k] \in Nat /\ t[k] \in Nat /\ r \in Nat
    BY <1>3, <1>5 DEF Ranks
<1>10. Good(k)
    BY <1>5, <1>6, <1>7, <1>8, <1>9
<1> QED
    BY <1>3, <1>10

\* Total is the last of the partial sums.
LEMMA TotalIsSum ==
    ASSUME NEW count \in [Ranks -> Nat]
    PROVE  \E s \in [0 .. N -> Nat] : PartialSums(s, count, N) /\ Total(count) = s[N]
<1> DEFINE IsSum(f) == f = [i \in 0 .. N |-> IF i = 0 THEN 0 ELSE f[i - 1] + count[i - 1]]
<1>1. N \in 0 .. N
    BY NAssumption
<1>2. PICK s \in [0 .. N -> Nat] : PartialSums(s, count, N)
    BY <1>1, SumsExist
<1>3. IsSum(s)
    BY <1>2 DEF PartialSums
<1>4. IsSum(CHOOSE f : IsSum(f))
    BY <1>3
<1> DEFINE sum == CHOOSE f : IsSum(f)
<1>5. PartialSums(sum, count, N)
    BY <1>4 DEF PartialSums
<1>6. Total(count) = sum[N]
    BY DEF Total
<1> QED
    BY <1>5, <1>6, SumsAreNat

\* A counter that is incremented once adds one to the total.
LEMMA TotalIncrement ==
    ASSUME NEW count \in [Ranks -> Nat], NEW r \in Ranks
    PROVE  /\ Total(count) \in Nat
           /\ Total([count EXCEPT ![r] = @ + 1]) = Total(count) + 1
<1> DEFINE more == [count EXCEPT ![r] = count[r] + 1]
<1>1. more \in [Ranks -> Nat] /\ count[r] + 1 \in Nat /\ N \in 0 .. N
    BY NAssumption
<1>2. PICK s \in [0 .. N -> Nat] : PartialSums(s, count, N) /\ Total(count) = s[N]
    BY TotalIsSum
<1>3. PICK t \in [0 .. N -> Nat] : PartialSums(t, more, N) /\ Total(more) = t[N]
    BY <1>1, TotalIsSum
<1> DEFINE v == count[r] + 1
<1>4. t[N] = s[N] + (v - count[r])
    <2>1. v \in Nat /\ PartialSums(t, [count EXCEPT ![r] = v], N)
        BY <1>1, <1>3
    <2>2. PartialSums(s, count, N)
        BY <1>2
    <2> HIDE DEF v, more
    <2> QED
        BY <2>1, <2>2, SumsDiffer, ZenonT(60)
<1>5. s[N] \in Nat /\ count[r] \in Nat
    BY <1>1
<1> QED
    BY <1>2, <1>3, <1>4, <1>5
-----------------------------------------------------------------------------
(* The lookahead.                                                          *)

LEMMA OwnLookAheadProperties ==
    ASSUME NEW r \in Ranks
    PROVE  /\ OwnLookAhead(r) \in 0 .. MaxTime
           /\ \A q \in Ranks : Linked(r, q) => OwnLookAhead(r) <= Link[r][q]
<1> DEFINE S == {Bound} \cup {Link[r][q] : q \in {p \in Ranks : Linked(r, p)}}
<1>1. Bound \in Nat /\ Bound <= MaxTime /\ MaxTime \in Nat
    BY BoundAssumption, MaxTimeAssumption
<1>2. \A q \in Ranks : Link[r][q] \in Nat
    BY LinkAssumption, <1>1
<1>3. S \subseteq Nat /\ S # {} /\ Bound \in S
    BY <1>1, <1>2
<1>4. Least(S) \in S /\ \A y \in S : Least(S) <= y
    BY <1>3, LeastExists
<1>5. \A q \in Ranks : Linked(r, q) => Link[r][q] \in S
    OBVIOUS
<1>6. Least(S) \in 0 .. MaxTime
    <2> HIDE DEF S
    <2>1. Least(S) \in Nat /\ Least(S) <= Bound
        BY <1>3, <1>4
    <2> QED
        BY <1>1, <2>1
<1>7. OwnLookAhead(r) = Least(S)
    BY DEF OwnLookAhead
<1> HIDE DEF S
<1> QED
    BY <1>4, <1>5, <1>6, <1>7

\* The lookahead of a rank is a time, and no link to the rank is shorter.
LEMMA LookAheadProperties ==
    ASSUME NEW r \in Ranks
    PROVE  /\ LookAhead(r) \in Nat
           /\ \A q \in Ranks : Linked(q, r) => LookAhead(r) <= Link[q][r]
<1> DEFINE known == {0} \cup ({OwnLookAhead(q) : q \in Ranks} \ {MaxTime})
<1>1. MaxTime \in Nat /\ N \in Nat /\ N # 0
    BY MaxTimeAssumption, NAssumption
<1>2. known \subseteq 0 .. MaxTime /\ known # {}
    BY <1>1, OwnLookAheadProperties
<1>3. LongestLookAhead \in Nat
    <2>1. LongestLookAhead = Greatest(known)
        BY DEF LongestLookAhead
    <2> HIDE DEF known
    <2>2. Greatest(known) \in known
        BY <1>1, <1>2, GreatestExists
    <2>3. \A x \in known : x \in Nat
        BY <1>1, <1>2
    <2> QED
        BY <2>1, <2>2, <2>3
<1>4. LookAhead(r) = CASE N = 1 -> 0
          [] N > 1 /\ OwnLookAhead(r) # MaxTime -> OwnLookAhead(r)
          [] N > 1 /\ OwnLookAhead(r) = MaxTime ->
                 IF LongestLookAhead = 0 THEN MaxTime ELSE LongestLookAhead
    BY DEF LookAhead
<1>5. OwnLookAhead(r) \in Nat
    BY <1>1, OwnLookAheadProperties
<1> HIDE DEF known
<1>6. LookAhead(r) \in Nat
    <2>1. CASE N = 1
        BY <1>4, <2>1
    <2>2. CASE N > 1 /\ OwnLookAhead(r) # MaxTime
        BY <1>4, <1>5, <2>2
    <2>3. CASE N > 1 /\ OwnLookAhead(r) = MaxTime
        BY <1>1, <1>3, <1>4, <2>3
    <2> QED
        BY <1>1, <2>1, <2>2, <2>3
<1>7. ASSUME NEW q \in Ranks, Linked(q, r) PROVE LookAhead(r) <= Link[q][r]
    <2>1. q # r /\ Link[q][r] < MaxTime /\ Link[q][r] = Link[r][q] /\ Link[r][q] \in Nat
        BY <1>7, <1>1, LinkAssumption DEF Linked
    <2>2. Linked(r, q)
        BY <2>1 DEF Linked
    <2>3. OwnLookAhead(r) <= Link[r][q]
        BY <2>2, OwnLookAheadProperties
    <2>4. OwnLookAhead(r) # MaxTime
        BY <1>1, <1>5, <2>1, <2>3
    <2>5. N > 1
        BY <1>1, <2>1 DEF Ranks
    <2>6. LookAhead(r) = OwnLookAhead(r)
        BY <1>1, <1>4, <2>4, <2>5
    <2> QED
        BY <2>1, <2>3, <2>6
<1> QED
    BY <1>6, <1>7
-----------------------------------------------------------------------------
(* The inductive invariant.                                                *)

\* Nobody has entered Run, or everybody has.
IdleInv ==
    \A r \in Ranks : pc[r] = "idle" =>
        /\ inFlight = {}
        /\ \A q \in Ranks :
               pc[q] = "idle" /\ m_currentTs[q] = 0 /\ m_grantedTime[q] = 0

\* The window of a rank in Run, and the clock within it.
WindowInv ==
    \A r \in Ranks :
        /\ m_currentTs[r] <= m_grantedTime[r]
        /\ pc[r] # "idle" =>
               /\ m_lookAhead[r] = LookAhead(r)
               /\ m_grantedTime[r] <= MaxTime + LookAhead(r)
               /\ LookAhead(r) = MaxTime => m_grantedTime[r] = MaxTime

\* No window reaches further than the rank's lookahead beyond anything that
\* may yet send a packet: an event waiting, running, or still in flight.  A
\* rank that was stopped runs no event any more.
SafeWindowInv ==
    \A r, q \in Ranks :
        /\ ~ m_stop[q] =>
               \A e \in m_events[q] : m_grantedTime[r] <= e.ts + LookAhead(r)
        /\ pc[q] = "event" => m_grantedTime[r] <= m_currentTs[q] + LookAhead(r)

\* Messages in flight: beyond the window of the receiver, numbered by the
\* sender, and counted.
MessageInv ==
    \A m \in inFlight :
        /\ m_grantedTime[m.dst] <= m.rxTime
        /\ m.n < g_txCount[m.src]
        /\ \A r \in Ranks : m_grantedTime[r] <= m.rxTime + LookAhead(r)

CountInv ==
    /\ IsFiniteSet(inFlight)
    /\ Cardinality(inFlight) + Total(g_rxCount) = Total(g_txCount)

IInv ==
    /\ TypeOK
    /\ IdleInv
    /\ WindowInv
    /\ SafeWindowInv
    /\ NoEventInThePast
    /\ MessageInv
    /\ CountInv
    /\ FinishTogether
-----------------------------------------------------------------------------
LEMMA InitInv == Init => IInv
<1> SUFFICES ASSUME Init PROVE IInv
    OBVIOUS
<1>1. Bound \in Nat
    BY BoundAssumption, MaxTimeAssumption
<1>2. TypeOK
    BY <1>1 DEF Init, TypeOK, Pcs
<1>3. IdleInv /\ MessageInv /\ NoEventInThePast /\ FinishTogether
    BY DEF Init, IdleInv, MessageInv, NoEventInThePast, FinishTogether
<1>4. WindowInv
    BY DEF Init, WindowInv
<1>5. SafeWindowInv
    BY DEF Init, SafeWindowInv
<1>6. CountInv
    <2>1. inFlight = {} /\ g_rxCount = g_txCount /\ g_txCount \in [Ranks -> Nat]
        BY DEF Init
    <2>2. Total(g_txCount) \in Nat
        <3>1. 0 \in Ranks
            BY NAssumption DEF Ranks
        <3> QED
            BY <2>1, <3>1, TotalIncrement
    <2> QED
        BY <2>1, <2>2, FS_EmptySet DEF CountInv
<1> QED
    BY <1>2, <1>3, <1>4, <1>5, <1>6 DEF IInv

\* A step that moves nobody into or out of Run, starts no event and changes
\* neither events, clocks, windows nor messages.
LEMMA ControlStep ==
    ASSUME IInv,
           UNCHANGED <<m_events, m_uid, m_currentTs, window, counters, inFlight>>,
           pc' \in [Ranks -> Pcs], m_stop' \in [Ranks -> BOOLEAN],
           arrived' \subseteq inFlight,
           \A r \in Ranks : /\ pc'[r] = "idle" <=> pc[r] = "idle"
                            /\ pc'[r] = "done" <=> pc[r] = "done"
                            /\ pc'[r] = "event" => pc[r] = "event"
                            /\ m_stop[r] => m_stop'[r]
    PROVE  IInv'
<1> USE DEF window, counters
<1>1. TypeOK'
    BY DEF IInv, TypeOK
<1>2. IdleInv'
    BY DEF IInv, IdleInv
<1>3. WindowInv'
    BY DEF IInv, WindowInv
<1>4. SafeWindowInv'
    BY DEF IInv, SafeWindowInv
<1>5. NoEventInThePast'
    BY DEF IInv, NoEventInThePast
<1>6. MessageInv'
    BY DEF IInv, MessageInv
<1>7. CountInv'
    BY DEF IInv, CountInv
<1>8. FinishTogether'
    BY DEF IInv, FinishTogether, IsLocalFinished
<1> QED
    BY <1>1, <1>2, <1>3, <1>4, <1>5, <1>6, <1>7, <1>8 DEF IInv

\* A new event of a rank, in nobody's way: what Schedule and ReceiveMessage
\* share.
LEMMA InsertStep ==
    ASSUME IInv, NEW r \in Ranks, NEW ts \in Nat, Insert(r, ts),
           pc[r] # "done",
           m_currentTs[r] <= ts,
           \A q \in Ranks : m_grantedTime[q] <= ts + LookAhead(q),
           UNCHANGED <<pc, m_currentTs, m_stop, m_grantedTime>>
    PROVE  /\ m_events' \in [Ranks -> SUBSET Event]
           /\ m_uid' \in [Ranks -> Nat]
           /\ SafeWindowInv'
           /\ NoEventInThePast'
           /\ \A q \in Ranks : pc[q] # "done"
<1> DEFINE new == [ts |-> ts, uid |-> m_uid[r]]
<1>1. m_uid[r] \in Nat /\ new \in Event
    BY DEF IInv, TypeOK, Event
<1>2. m_events \in [Ranks -> SUBSET Event] /\ m_uid \in [Ranks -> Nat]
    BY DEF IInv, TypeOK
<1>3. m_events' = [m_events EXCEPT ![r] = @ \cup {new}]
    BY DEF Insert
<1> HIDE DEF new
<1>4. m_events' \in [Ranks -> SUBSET Event]
    BY <1>1, <1>2, <1>3
<1>5. m_uid' \in [Ranks -> Nat]
    BY <1>1, <1>2 DEF Insert
<1>6. ASSUME NEW q \in Ranks, NEW e \in m_events'[q]
      PROVE  e \in m_events[q] \/ (q = r /\ e = new)
    <2>1. m_events'[q] = IF q = r THEN m_events[r] \cup {new} ELSE m_events[q]
        BY <1>2, <1>3
    <2> QED
        BY <2>1
<1>7. new.ts = ts
    BY DEF new
<1>8. SafeWindowInv'
    BY <1>6, <1>7 DEF IInv, SafeWindowInv
<1>9. NoEventInThePast'
    BY <1>6, <1>7 DEF IInv, NoEventInThePast
<1>10. \A q \in Ranks : pc[q] # "done"
    BY DEF IInv, FinishTogether
<1> QED
    BY <1>4, <1>5, <1>8, <1>9, <1>10

LEMMA ScheduleStep ==
    ASSUME IInv, NEW r \in Ranks, NEW delay \in Delays, Schedule(r, delay)
    PROVE  IInv'
<1> USE DEF window, counters, mpi
<1> DEFINE ts == m_currentTs[r] + delay
<1>1. delay \in Nat /\ m_currentTs[r] \in Nat
    BY DelaysAssumption DEF IInv, TypeOK
<1>2. ts \in Nat /\ m_currentTs[r] <= ts
    BY <1>1
<1>3. \A q \in Ranks : m_grantedTime[q] <= ts + LookAhead(q)
    <2> SUFFICES ASSUME NEW q \in Ranks PROVE m_grantedTime[q] <= ts + LookAhead(q)
        OBVIOUS
    <2>1. LookAhead(q) \in Nat /\ m_grantedTime[q] \in Nat
        BY LookAheadProperties DEF IInv, TypeOK
    <2>2. CASE pc[r] = "idle"
        BY <1>2, <2>1, <2>2 DEF IInv, IdleInv
    <2>3. CASE pc[r] = "event"
        BY <1>1, <2>1, <2>3 DEF IInv, SafeWindowInv
    <2> QED
        BY <2>2, <2>3 DEF Schedule
<1>4. Insert(r, ts) /\ pc[r] # "done"
    BY DEF Schedule
<1>5. UNCHANGED <<pc, m_currentTs, m_stop, m_grantedTime, m_lookAhead, g_txCount,
                  g_rxCount, inFlight, arrived>>
    BY DEF Schedule
<1> HIDE DEF ts
<1>6. /\ m_events' \in [Ranks -> SUBSET Event]
      /\ m_uid' \in [Ranks -> Nat]
      /\ SafeWindowInv'
      /\ NoEventInThePast'
      /\ \A q \in Ranks : pc[q] # "done"
    BY <1>2, <1>3, <1>4, <1>5, InsertStep
<1>7. TypeOK'
    BY <1>5, <1>6 DEF IInv, TypeOK
<1>8. IdleInv' /\ WindowInv' /\ MessageInv'
    BY <1>5 DEF IInv, IdleInv, WindowInv, MessageInv
<1>9. CountInv'
    BY <1>5 DEF IInv, CountInv
<1>10. FinishTogether'
    BY <1>5, <1>6 DEF FinishTogether
<1> QED
    BY <1>6, <1>7, <1>8, <1>9, <1>10 DEF IInv

LEMMA ReceiveMessageStep ==
    ASSUME IInv, NEW r \in Ranks, NEW m \in arrived, ReceiveMessage(r, m)
    PROVE  IInv'
<1> USE DEF window, counters, mpi
<1>1. m \in inFlight /\ m.dst = r /\ m.rxTime \in Nat /\ m_currentTs[r] \in Nat
    BY DEF IInv, TypeOK, Message, ReceiveMessage
<1>2. m_currentTs[r] <= m.rxTime
    <2>1. m_currentTs[r] <= m_grantedTime[r] /\ m_grantedTime[r] <= m.rxTime
        BY <1>1 DEF IInv, WindowInv, MessageInv
    <2>2. m_grantedTime[r] \in Nat
        BY DEF IInv, TypeOK
    <2> QED
        BY <1>1, <2>1, <2>2
<1>3. \A q \in Ranks : m_grantedTime[q] <= m.rxTime + LookAhead(q)
    BY <1>1 DEF IInv, MessageInv
<1>4. Insert(r, m.rxTime) /\ pc[r] # "done" /\ pc[r] # "idle"
    <2>1. m_currentTs[r] + (m.rxTime - m_currentTs[r]) = m.rxTime
        BY <1>1
    <2> QED
        BY <2>1 DEF ReceiveMessage
<1>5. /\ UNCHANGED <<pc, m_currentTs, m_stop, m_grantedTime, m_lookAhead, g_txCount>>
      /\ inFlight' = inFlight \ {m} /\ arrived' = arrived \ {m}
      /\ g_rxCount' = [g_rxCount EXCEPT ![r] = @ + 1]
    BY DEF ReceiveMessage
<1>6. /\ m_events' \in [Ranks -> SUBSET Event]
      /\ m_uid' \in [Ranks -> Nat]
      /\ SafeWindowInv'
      /\ NoEventInThePast'
      /\ \A q \in Ranks : pc[q] # "done"
    BY <1>1, <1>2, <1>3, <1>4, <1>5, InsertStep
<1>7. TypeOK'
    <2>1. g_rxCount' \in [Ranks -> Nat]
        BY <1>5 DEF IInv, TypeOK
    <2>2. inFlight' \subseteq Message /\ arrived' \subseteq inFlight'
        BY <1>5 DEF IInv, TypeOK
    <2> QED
        BY <1>5, <1>6, <2>1, <2>2 DEF IInv, TypeOK
<1>8. IdleInv' /\ WindowInv'
    BY <1>5 DEF IInv, IdleInv, WindowInv
<1>9. MessageInv'
    BY <1>5 DEF IInv, MessageInv
<1>10. CountInv'
    <2>1. IsFiniteSet(inFlight) /\ Cardinality(inFlight) + Total(g_rxCount) = Total(g_txCount)
        BY DEF IInv, CountInv
    <2>2. /\ IsFiniteSet(inFlight \ {m})
          /\ Cardinality(inFlight \ {m}) = Cardinality(inFlight) - 1
        BY <1>1, <2>1, FS_RemoveElement
    <2>3. g_rxCount \in [Ranks -> Nat] /\ g_txCount \in [Ranks -> Nat]
        BY DEF IInv, TypeOK
    <2>4. Total(g_rxCount) \in Nat /\ Total(g_rxCount') = Total(g_rxCount) + 1
        BY <1>5, <2>3, TotalIncrement
    <2>5. Total(g_txCount) \in Nat /\ Cardinality(inFlight) \in Nat
        BY <2>1, <2>3, TotalIncrement, FS_CardinalityType
    <2>6. Cardinality(inFlight \ {m}) + Total(g_rxCount') = Total(g_txCount)
        BY <2>1, <2>2, <2>4, <2>5
    <2> QED
        BY <1>5, <2>2, <2>6 DEF CountInv
<1>11. FinishTogether'
    BY <1>5, <1>6 DEF FinishTogether
<1> QED
    BY <1>6, <1>7, <1>8, <1>9, <1>10, <1>11 DEF IInv

LEMMA TransmitStep ==
    ASSUME IInv, NEW r \in Ranks, NEW q \in Ranks, NEW txTime \in Delays,
           Transmit(r, q, txTime)
    PROVE  IInv'
<1> USE DEF clock, window, counters, mpi
<1> DEFINE m == [src |-> r, n |-> g_txCount[r], dst |-> q,
                 rxTime |-> m_currentTs[r] + txTime + Link[r][q]]
<1>1. /\ txTime \in Nat /\ m_currentTs[r] \in Nat /\ Link[r][q] \in Nat
      /\ g_txCount[r] \in Nat
    BY DelaysAssumption, LinkAssumption, MaxTimeAssumption DEF IInv, TypeOK
<1>2. m \in Message
    BY <1>1 DEF Message
<1>3. pc[r] = "event" /\ Linked(r, q) /\ inFlight' = inFlight \cup {m}
    BY DEF Transmit
<1>4. /\ UNCHANGED <<pc, m_events, m_uid, m_currentTs, m_stop, m_grantedTime,
                     m_lookAhead, g_rxCount, arrived>>
      /\ g_txCount' = [g_txCount EXCEPT ![r] = @ + 1]
    BY DEF Transmit
<1>5. \A p \in Ranks : m_grantedTime[p] <= m.rxTime + LookAhead(p)
    <2> SUFFICES ASSUME NEW p \in Ranks PROVE m_grantedTime[p] <= m.rxTime + LookAhead(p)
        OBVIOUS
    <2>1. m_grantedTime[p] <= m_currentTs[r] + LookAhead(p)
        BY <1>3 DEF IInv, SafeWindowInv
    <2>2. LookAhead(p) \in Nat /\ m_grantedTime[p] \in Nat
        BY LookAheadProperties DEF IInv, TypeOK
    <2> QED
        BY <1>1, <2>1, <2>2
<1>6. m_grantedTime[q] <= m.rxTime
    <2>1. m_grantedTime[q] <= m_currentTs[r] + LookAhead(q)
        BY <1>3 DEF IInv, SafeWindowInv
    <2>2. LookAhead(q) \in Nat /\ LookAhead(q) <= Link[r][q] /\ m_grantedTime[q] \in Nat
        BY <1>3, LookAheadProperties DEF IInv, TypeOK
    <2> QED
        BY <1>1, <2>1, <2>2
<1>7. m.dst = q /\ m.src = r /\ m.n = g_txCount[r]
    OBVIOUS
<1> HIDE DEF m
<1>8. TypeOK'
    BY <1>1, <1>2, <1>3, <1>4 DEF IInv, TypeOK
<1>9. IdleInv' /\ WindowInv' /\ SafeWindowInv' /\ NoEventInThePast'
    BY <1>3, <1>4 DEF IInv, IdleInv, WindowInv, SafeWindowInv, NoEventInThePast
<1>10. MessageInv'
    <2> SUFFICES ASSUME NEW k \in inFlight'
                 PROVE  /\ m_grantedTime[k.dst] <= k.rxTime
                        /\ k.n < g_txCount'[k.src]
                        /\ \A p \in Ranks : m_grantedTime[p] <= k.rxTime + LookAhead(p)
        BY <1>4 DEF MessageInv
    <2>1. CASE k = m
        BY <1>1, <1>4, <1>5, <1>6, <1>7, <2>1 DEF IInv, TypeOK
    <2>2. CASE k \in inFlight
        <3>1. k.src \in Ranks /\ k.n \in Nat /\ g_txCount \in [Ranks -> Nat]
            BY <2>2 DEF IInv, TypeOK, Message
        <3>2. k.n < g_txCount[k.src] /\ g_txCount[k.src] \in Nat
            BY <2>2, <3>1 DEF IInv, MessageInv
        <3>3. k.n < g_txCount'[k.src]
            BY <1>1, <1>4, <3>1, <3>2
        <3> QED
            BY <2>2, <3>3 DEF IInv, MessageInv
    <2> QED
        BY <1>3, <2>1, <2>2
<1>11. CountInv'
    <2>1. IsFiniteSet(inFlight) /\ Cardinality(inFlight) + Total(g_rxCount) = Total(g_txCount)
        BY DEF IInv, CountInv
    <2>2. m \notin inFlight
        BY <1>1, <1>7 DEF IInv, MessageInv
    <2>3. /\ IsFiniteSet(inFlight \cup {m})
          /\ Cardinality(inFlight \cup {m}) = Cardinality(inFlight) + 1
        BY <2>1, <2>2, FS_AddElement
    <2>4. g_rxCount \in [Ranks -> Nat] /\ g_txCount \in [Ranks -> Nat]
        BY DEF IInv, TypeOK
    <2>5. Total(g_txCount) \in Nat /\ Total(g_txCount') = Total(g_txCount) + 1
        BY <1>4, <2>4, TotalIncrement
    <2>6. Total(g_rxCount) \in Nat /\ Cardinality(inFlight) \in Nat
        BY <2>1, <2>4, TotalIncrement, FS_CardinalityType
    <2>7. Cardinality(inFlight \cup {m}) + Total(g_rxCount) = Total(g_txCount')
        BY <2>1, <2>3, <2>5, <2>6
    <2> QED
        BY <1>3, <1>4, <2>3, <2>7 DEF CountInv
<1>12. FinishTogether'
    <2>1. \A p \in Ranks : pc[p] # "done"
        BY <1>3 DEF IInv, FinishTogether
    <2> QED
        BY <1>4, <2>1 DEF FinishTogether
<1> QED
    BY <1>8, <1>9, <1>10, <1>11, <1>12 DEF IInv

LEMMA RunStep ==
    ASSUME IInv, Run
    PROVE  IInv'
<1> USE DEF window, counters, mpi
<1>1. \A r \in Ranks : LookAhead(r) \in Nat
    BY LookAheadProperties
<1>2. \A r \in Ranks : pc[r] = "idle" /\ m_currentTs[r] = 0
    BY DEF IInv, IdleInv, Run
<1>3. inFlight = {}
    <2>1. 0 \in Ranks
        BY NAssumption DEF Ranks
    <2> QED
        BY <1>2, <2>1 DEF IInv, IdleInv
<1>4. /\ m_lookAhead' = [r \in Ranks |-> LookAhead(r)]
      /\ m_grantedTime' = [r \in Ranks |-> LookAhead(r)]
      /\ m_stop' = [r \in Ranks |-> FALSE]
      /\ pc' = [r \in Ranks |-> "run"]
      /\ UNCHANGED <<m_events, m_uid, m_currentTs, g_txCount, g_rxCount, inFlight, arrived>>
    BY DEF Run
<1>5. TypeOK'
    BY <1>1, <1>4 DEF IInv, TypeOK, Pcs
<1>6. IdleInv' /\ FinishTogether'
    BY <1>4 DEF IdleInv, FinishTogether
<1>7. WindowInv'
    BY <1>1, <1>2, <1>4, MaxTimeAssumption DEF WindowInv
<1>8. SafeWindowInv'
    <2> SUFFICES ASSUME NEW r \in Ranks, NEW q \in Ranks, NEW e \in m_events[q]
                 PROVE  LookAhead(r) <= e.ts + LookAhead(r)
        BY <1>4 DEF SafeWindowInv
    <2>1. e.ts \in Nat
        BY DEF IInv, TypeOK, Event
    <2> QED
        BY <1>1, <2>1
<1>9. NoEventInThePast' /\ MessageInv'
    BY <1>3, <1>4 DEF IInv, NoEventInThePast, MessageInv
<1>10. CountInv'
    BY <1>4 DEF IInv, CountInv
<1> QED
    BY <1>5, <1>6, <1>7, <1>8, <1>9, <1>10 DEF IInv

LEMMA ProcessOneEventStep ==
    ASSUME IInv, NEW r \in Ranks, ProcessOneEvent(r)
    PROVE  IInv'
<1> USE DEF window, counters, mpi
<1>1. PICK next \in m_events[r] :
          /\ IsEarliest(next, m_events[r])
          /\ next.ts <= m_grantedTime[r]
          /\ m_events' = [m_events EXCEPT ![r] = @ \ {next}]
          /\ m_currentTs' = [m_currentTs EXCEPT ![r] = next.ts]
    BY DEF ProcessOneEvent
<1>2. /\ pc[r] = "run" /\ ~ m_stop[r]
      /\ pc' = [pc EXCEPT ![r] = "event"]
      /\ UNCHANGED <<m_uid, m_stop, m_grantedTime, m_lookAhead, g_txCount, g_rxCount,
                     inFlight, arrived>>
    BY DEF ProcessOneEvent, IsLocalFinished
<1>3. next.ts \in Nat /\ m_grantedTime[r] \in Nat
    BY DEF IInv, TypeOK, Event
<1>4. TypeOK'
    BY <1>1, <1>2, <1>3 DEF IInv, TypeOK, Pcs
<1>5. m_events \in [Ranks -> SUBSET Event] /\ m_currentTs \in [Ranks -> Nat]
      /\ pc \in [Ranks -> Pcs]
    BY DEF IInv, TypeOK
<1>6. \A q \in Ranks : pc[q] # "idle" /\ pc[q] # "done" /\ pc'[q] # "idle" /\ pc'[q] # "done"
    BY <1>2, <1>5 DEF IInv, IdleInv, FinishTogether
<1>7. IdleInv' /\ FinishTogether'
    BY <1>6 DEF IdleInv, FinishTogether
<1>8. WindowInv'
    BY <1>1, <1>2, <1>5, <1>6 DEF IInv, WindowInv
<1>9. \A q \in Ranks : m_events'[q] \subseteq m_events[q]
    BY <1>1, <1>5
<1>10. SafeWindowInv'
    <2> SUFFICES ASSUME NEW p \in Ranks, NEW q \in Ranks, pc'[q] = "event"
                 PROVE  m_grantedTime[p] <= m_currentTs'[q] + LookAhead(p)
        BY <1>2, <1>9 DEF IInv, SafeWindowInv
    <2>1. CASE q = r
        BY <1>1, <1>2, <1>5, <2>1 DEF IInv, SafeWindowInv
    <2>2. CASE q # r
        <3>1. pc[q] = "event" /\ m_currentTs'[q] = m_currentTs[q]
            BY <1>1, <1>2, <1>5, <2>2
        <3> QED
            BY <3>1 DEF IInv, SafeWindowInv
    <2> QED
        BY <2>1, <2>2
<1>11. NoEventInThePast'
    <2> SUFFICES ASSUME NEW q \in Ranks, NEW e \in m_events'[q]
                 PROVE  e.ts >= m_currentTs'[q]
        BY DEF NoEventInThePast
    <2>1. CASE q = r
        <3>1. e \in m_events[r] \ {next} /\ m_currentTs'[q] = next.ts
            BY <1>1, <1>5, <2>1
        <3>2. KeyLess(next, e)
            BY <1>1, <3>1 DEF IsEarliest
        <3>3. e.ts \in Nat
            BY <3>1 DEF IInv, TypeOK, Event
        <3> QED
            BY <1>3, <3>1, <3>2, <3>3 DEF KeyLess
    <2>2. CASE q # r
        <3>1. e \in m_events[q] /\ m_currentTs'[q] = m_currentTs[q]
            BY <1>1, <1>5, <2>2
        <3> QED
            BY <3>1 DEF IInv, NoEventInThePast
    <2> QED
        BY <2>1, <2>2
<1>12. MessageInv' /\ CountInv'
    BY <1>2 DEF IInv, MessageInv, CountInv
<1> QED
    BY <1>4, <1>7, <1>8, <1>10, <1>11, <1>12 DEF IInv
-----------------------------------------------------------------------------
(* The MPI_Allgather.                                                      *)

\* Without messages in flight the totals agree, and only then.
LEMMA CountsDetect == IInv => CountsDetectTransients
<1> SUFFICES ASSUME IInv PROVE CountsDetectTransients
    OBVIOUS
<1>1. IsFiniteSet(inFlight) /\ Cardinality(inFlight) + Total(g_rxCount) = Total(g_txCount)
    BY DEF IInv, CountInv
<1>2. Total(g_rxCount) \in Nat /\ Total(g_txCount) \in Nat
    <2>1. 0 \in Ranks
        BY NAssumption DEF Ranks
    <2> QED
        BY <2>1, TotalIncrement DEF IInv, TypeOK
<1>3. Cardinality(inFlight) \in Nat /\ (Cardinality(inFlight) = 0 <=> inFlight = {})
    BY <1>1, FS_CardinalityType, FS_EmptySet
<1> QED
    BY <1>1, <1>2, <1>3 DEF CountsDetectTransients, NoTransients

\* The new windows: no smaller than the old ones, and within the lookahead of
\* every event that may still run.
LEMMA GrantedAfterProperties ==
    ASSUME IInv, Allgather, NEW r \in Ranks
    PROVE  /\ m_grantedTime'[r] \in Nat
           /\ m_grantedTime[r] <= m_grantedTime'[r]
           /\ m_grantedTime'[r] <= MaxTime + LookAhead(r)
           /\ LookAhead(r) = MaxTime => m_grantedTime'[r] = MaxTime
           /\ \A q \in Ranks : ~ m_stop[q] =>
                  \A e \in m_events[q] : m_grantedTime'[r] <= e.ts + LookAhead(r)
<1>1. /\ LookAhead(r) \in Nat /\ m_grantedTime[r] \in Nat /\ MaxTime \in Nat
      /\ m_lookAhead[r] = LookAhead(r)
      /\ m_grantedTime[r] <= MaxTime + LookAhead(r)
      /\ LookAhead(r) = MaxTime => m_grantedTime[r] = MaxTime
    BY LookAheadProperties, MaxTimeAssumption DEF IInv, TypeOK, WindowInv, Allgather
<1>2. \A q \in Ranks : ~ m_stop[q] =>
          \A e \in m_events[q] : e.ts \in Nat /\ m_grantedTime[r] <= e.ts + LookAhead(r)
    BY DEF IInv, TypeOK, Event, SafeWindowInv
<1>3. CASE ~ NoTransients
    BY <1>1, <1>2, <1>3 DEF Allgather
<1>4. CASE NoTransients
    <2> DEFINE least == Least(ReportedTimes)
    <2>1. /\ ReportedTimes \subseteq Nat
          /\ MaxTime \in ReportedTimes
          /\ \A q \in Ranks : ~ m_stop[q] => \A e \in m_events[q] : e.ts \in ReportedTimes
          /\ \A t \in ReportedTimes : t # MaxTime =>
                 \E q \in Ranks : ~ m_stop[q] /\ \E e \in m_events[q] : t = e.ts
        BY <1>1, <1>2 DEF ReportedTimes, IsLocalFinished
    <2>2. least \in ReportedTimes /\ \A t \in ReportedTimes : least <= t
        BY <2>1, LeastExists
    <2>3. least \in Nat /\ least <= MaxTime
        BY <2>1, <2>2
    <2>4. m_grantedTime'[r] = IF LookAhead(r) = MaxTime THEN MaxTime ELSE least + LookAhead(r)
        BY <1>1, <1>4 DEF Allgather, GrantedAfter
    <2> HIDE DEF least
    <2>5. m_grantedTime[r] <= least + LookAhead(r)
        BY <1>1, <1>2, <2>1, <2>2
    <2>6. ASSUME NEW q \in Ranks, ~ m_stop[q], NEW e \in m_events[q]
          PROVE  m_grantedTime'[r] <= e.ts + LookAhead(r)
        <3>1. e.ts \in Nat /\ least <= e.ts
            BY <1>2, <2>1, <2>2, <2>6
        <3> QED
            BY <1>1, <2>3, <2>4, <3>1
    <2> QED
        BY <1>1, <2>3, <2>4, <2>5, <2>6
<1> QED
    BY <1>3, <1>4

LEMMA AllgatherStep ==
    ASSUME IInv, Allgather
    PROVE  IInv'
<1> USE DEF clock, counters, mpi
<1>1. /\ \A r \in Ranks : pc[r] = "gather"
      /\ UNCHANGED <<m_events, m_uid, m_currentTs, m_stop, m_lookAhead, g_txCount,
                     g_rxCount, inFlight, arrived>>
    BY DEF Allgather
<1>2. /\ pc' \in [Ranks -> Pcs] /\ m_grantedTime' \in [Ranks -> Nat]
      /\ \A r \in Ranks : pc'[r] = IF GlobalFinished THEN "done" ELSE "run"
    <2>1. \A r \in Ranks : m_grantedTime'[r] \in Nat
        BY GrantedAfterProperties
    <2>2. m_grantedTime' = [r \in Ranks |-> m_grantedTime'[r]]
        <3>1. m_grantedTime \in [Ranks -> Nat]
            BY DEF IInv, TypeOK
        <3>2. m_grantedTime' = IF NoTransients
                  THEN [r \in Ranks |-> GrantedAfter(Least(ReportedTimes), r)]
                  ELSE m_grantedTime
            BY DEF Allgather
        <3> QED
            BY <3>1, <3>2
    <2> QED
        BY <2>1, <2>2 DEF Allgather, Pcs
<1>3. TypeOK'
    BY <1>1, <1>2 DEF IInv, TypeOK
<1>4. IdleInv'
    BY <1>2 DEF IdleInv
<1>5. WindowInv'
    <2> SUFFICES ASSUME NEW r \in Ranks
                 PROVE  /\ m_currentTs[r] <= m_grantedTime'[r]
                        /\ m_lookAhead[r] = LookAhead(r)
                        /\ m_grantedTime'[r] <= MaxTime + LookAhead(r)
                        /\ LookAhead(r) = MaxTime => m_grantedTime'[r] = MaxTime
        BY <1>1 DEF WindowInv
    <2>1. m_currentTs[r] \in Nat /\ m_grantedTime[r] \in Nat
        BY DEF IInv, TypeOK
    <2>2. m_currentTs[r] <= m_grantedTime[r] /\ m_lookAhead[r] = LookAhead(r)
        BY <1>1 DEF IInv, WindowInv
    <2> QED
        BY <2>1, <2>2, GrantedAfterProperties
<1>6. SafeWindowInv'
    BY <1>1, <1>2, GrantedAfterProperties DEF SafeWindowInv
<1>7. NoEventInThePast' /\ CountInv'
    BY <1>1 DEF IInv, NoEventInThePast, CountInv
<1>8. MessageInv'
    <2>1. CASE NoTransients
        BY <1>1, <2>1, CountsDetect DEF CountsDetectTransients, MessageInv
    <2>2. CASE ~ NoTransients
        <3>1. m_grantedTime' = m_grantedTime
            BY <2>2 DEF Allgather
        <3> QED
            BY <1>1, <3>1 DEF IInv, MessageInv
    <2> QED
        BY <2>1, <2>2
<1>9. FinishTogether'
    <2>1. CASE GlobalFinished
        <3>1. inFlight = {} /\ \A r \in Ranks : IsLocalFinished(r)
            BY <2>1, CountsDetect DEF GlobalFinished, CountsDetectTransients
        <3>2. \A r \in Ranks : pc'[r] = "done" /\ IsLocalFinished(r)'
            BY <1>1, <1>2, <2>1, <3>1 DEF IsLocalFinished
        <3> QED
            BY <1>1, <3>1, <3>2 DEF FinishTogether
    <2>2. CASE ~ GlobalFinished
        BY <1>2, <2>2 DEF FinishTogether
    <2> QED
        BY <2>1, <2>2
<1> QED
    BY <1>3, <1>4, <1>5, <1>6, <1>7, <1>8, <1>9 DEF IInv
-----------------------------------------------------------------------------
(* Every step.                                                             *)

LEMMA ControlSteps ==
    ASSUME IInv, NEW r \in Ranks,
           Stop(r) \/ HandlerReturns(r) \/ WindowEnds(r) \/ EnterAllgather(r)
    PROVE  IInv'
<1> USE DEF clock, window, counters, mpi
<1>1. pc \in [Ranks -> Pcs] /\ m_stop \in [Ranks -> BOOLEAN] /\ arrived \subseteq inFlight
    BY DEF IInv, TypeOK
<1>2. CASE Stop(r)
    <2>1. pc' = pc /\ arrived' = arrived /\ m_stop' = [m_stop EXCEPT ![r] = TRUE]
        BY <1>2 DEF Stop
    <2>2. m_stop' \in [Ranks -> BOOLEAN] /\ \A q \in Ranks : m_stop[q] => m_stop'[q]
        BY <1>1, <2>1
    <2>3. UNCHANGED <<m_events, m_uid, m_currentTs, window, counters, inFlight>>
        BY <1>2 DEF Stop
    <2> QED
        BY <1>1, <2>1, <2>2, <2>3, ControlStep
<1>3. CASE HandlerReturns(r) \/ WindowEnds(r) \/ EnterAllgather(r)
    <2>1. PICK next \in {"run", "receive", "gather"} : pc' = [pc EXCEPT ![r] = next]
        BY <1>3 DEF HandlerReturns, WindowEnds, EnterAllgather
    <2>2. pc[r] # "idle" /\ pc[r] # "done"
        BY <1>3 DEF HandlerReturns, WindowEnds, EnterAllgather
    <2>3. UNCHANGED <<m_events, m_uid, m_currentTs, m_stop, window, counters, inFlight, arrived>>
        BY <1>3 DEF HandlerReturns, WindowEnds, EnterAllgather
    <2>4. pc' \in [Ranks -> Pcs]
        BY <1>1, <2>1 DEF Pcs
    <2>5. \A q \in Ranks : /\ pc'[q] = "idle" <=> pc[q] = "idle"
                           /\ pc'[q] = "done" <=> pc[q] = "done"
                           /\ pc'[q] = "event" => pc[q] = "event"
        BY <1>1, <2>1, <2>2
    <2>6. m_stop' \in [Ranks -> BOOLEAN] /\ arrived' \subseteq inFlight
          /\ \A q \in Ranks : m_stop[q] => m_stop'[q]
        BY <1>1, <2>3
    <2> QED
        BY <2>3, <2>4, <2>5, <2>6, ControlStep
<1> QED
    BY <1>2, <1>3

LEMMA ArrivalsStep ==
    ASSUME IInv, Arrivals \/ UNCHANGED vars
    PROVE  IInv'
<1> USE DEF clock, window, counters, mpi
<1>1. /\ pc' = pc /\ m_stop' = m_stop
      /\ UNCHANGED <<m_events, m_uid, m_currentTs, window, counters, inFlight>>
    BY DEF Arrivals, Arrive, vars
<1>2. pc' \in [Ranks -> Pcs] /\ m_stop' \in [Ranks -> BOOLEAN]
    BY <1>1 DEF IInv, TypeOK
<1>3. arrived' \subseteq inFlight
    BY DEF Arrivals, Arrive, vars, IInv, TypeOK
<1> QED
    BY <1>1, <1>2, <1>3, ControlStep

LEMMA NextInv == IInv /\ [Next]_vars => IInv'
<1> SUFFICES ASSUME IInv, [Next]_vars PROVE IInv'
    OBVIOUS
<1>1. ASSUME NEW r \in Ranks, Api(r) PROVE IInv'
    BY <1>1, ScheduleStep, TransmitStep, ControlSteps DEF Api
<1>2. ASSUME NEW r \in Ranks, Step(r) PROVE IInv'
    BY <1>2, ReceiveMessageStep, ProcessOneEventStep, ControlSteps DEF Step
<1>3. CASE Run
    BY <1>3, RunStep
<1>4. CASE Allgather
    BY <1>4, AllgatherStep
<1>5. CASE Arrivals \/ Terminated \/ UNCHANGED vars
    BY <1>5, ArrivalsStep DEF Terminated
<1> QED
    BY <1>1, <1>2, <1>3, <1>4, <1>5 DEF Next

THEOREM Invariance == Spec => []IInv
<1> QED
    BY InitInv, NextInv, PTL DEF Spec

\* Every variable keeps its type.
THEOREM TypeCorrect == Spec => []TypeOK
<1>1. IInv => TypeOK
    BY DEF IInv
<1> QED
    BY <1>1, Invariance, PTL

\* Conservative synchronization: no packet of another rank reaches a rank in
\* its past, whatever the links, the order of arrival and the lookahead.
THEOREM NoPacketInThePast == Spec => []Causality
<1>1. ASSUME IInv PROVE Causality
    <2> SUFFICES ASSUME NEW m \in inFlight PROVE m.rxTime >= m_currentTs[m.dst]
        BY DEF Causality
    <2>1. m.dst \in Ranks /\ m.rxTime \in Nat
        BY <1>1 DEF IInv, TypeOK, Message
    <2>2. m_currentTs[m.dst] \in Nat /\ m_grantedTime[m.dst] \in Nat
        BY <1>1, <2>1 DEF IInv, TypeOK
    <2>3. m_currentTs[m.dst] <= m_grantedTime[m.dst] /\ m_grantedTime[m.dst] <= m.rxTime
        BY <1>1, <2>1 DEF IInv, WindowInv, MessageInv
    <2> QED
        BY <2>1, <2>2, <2>3
<1> QED
    BY <1>1, Invariance, PTL

\* The assertion of ProcessOneEvent never fails.
THEOREM ClocksNeverGoBack == Spec => []NoEventInThePast
<1>1. IInv => NoEventInThePast
    BY DEF IInv
<1> QED
    BY <1>1, Invariance, PTL

\* The sums the ranks exchange in the MPI_Allgather detect the messages in
\* flight.
THEOREM TransientsAreDetected == Spec => []CountsDetectTransients
<1> QED
    BY CountsDetect, Invariance, PTL

\* No rank leaves Run before all of them are finished and all messages have
\* been received.
THEOREM AllFinishTogether == Spec => []FinishTogether
<1>1. IInv => FinishTogether
    BY DEF IInv
<1> QED
    BY <1>1, Invariance, PTL

\* The window of a rank never shrinks.
THEOREM NoWindowShrinks == Spec => WindowsGrow
<1>1. ASSUME IInv, [Next]_vars
      PROVE  [\A r \in Ranks : pc[r] = "gather" /\ pc'[r] = "run"
                 => m_grantedTime'[r] >= m_grantedTime[r]]_vars
    <2> SUFFICES ASSUME NEW r \in Ranks, pc[r] = "gather", pc'[r] = "run", Next
                 PROVE  m_grantedTime'[r] >= m_grantedTime[r]
        BY <1>1
    <2>1. m_grantedTime[r] \in Nat /\ pc \in [Ranks -> Pcs]
        BY <1>1 DEF IInv, TypeOK
    <2>2. CASE Allgather
        BY <1>1, <2>1, <2>2, GrantedAfterProperties
    <2>3. CASE Run
        BY <2>3 DEF Run
    <2>4. ASSUME NEW q \in Ranks, Api(q) \/ Step(q) PROVE UNCHANGED m_grantedTime
        BY <2>4 DEF Api, Step, Schedule, Transmit, Stop, WindowEnds, ReceiveMessage,
                    EnterAllgather, ProcessOneEvent, HandlerReturns, window
    <2>5. CASE Arrivals \/ Terminated
        BY <2>1, <2>5 DEF Arrivals, Arrive, Terminated, window, vars
    <2> QED
        BY <2>1, <2>2, <2>3, <2>4, <2>5 DEF Next
<1> QED
    BY <1>1, Invariance, PTL DEF Spec, WindowsGrow
=============================================================================

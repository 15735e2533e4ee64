--------------------------- MODULE ArpCacheProofs ---------------------------
(***************************************************************************)
(* ArpCache, for every set of neighbours, number of retries, size of the   *)
(* queues and number of packets.                                           *)
(*                                                                         *)
(* What an entry that does not wait has left behind decides how its next   *)
(* resolution goes: no retries counted (RetriesCounted) and, unless the    *)
(* helper has marked the entry, no packets (NoneLeft).  The packets of an  *)
(* entry that waits follow those that were sent (QueueFollows), and no     *)
(* packet waits in two entries (PendingOnce).                              *)
(***************************************************************************)
EXTENDS ArpCache, SequenceTheorems, TLAPS

\* The counter of an entry that waits counts its own wait.
RetriesCounted ==
    \A a \in Address : m_retries[a] = IF IsWaitReply(a) THEN retried[a] ELSE 0

Increasing(s) == \A i, j \in DOMAIN s : i < j => s[i] < s[j]

\* What waits was handed over after what was sent.
QueueFollows ==
    \A a \in Address :
        /\ Increasing(sent[a])
        /\ \A i \in DOMAIN sent[a] : sent[a][i] <= handed
        /\ \A i \in DOMAIN m_pending[a] : m_pending[a][i] <= handed
        /\ IsWaitReply(a) => /\ Increasing(m_pending[a])
                             /\ \A i \in DOMAIN sent[a], j \in DOMAIN m_pending[a] :
                                    sent[a][i] < m_pending[a][j]

PendingOnce ==
    \A a, b \in Address : a # b => ToSet(m_pending[a]) \cap ToSet(m_pending[b]) = {}
-----------------------------------------------------------------------------
(* The elements of a sequence.                                             *)

LEMMA ToSetIsRange ==
    ASSUME NEW S, NEW s \in Seq(S)
    PROVE  ToSet(s) = Range(s) /\ ToSet(s) \subseteq S
BY DEF ToSet, Range

LEMMA ToSetEmpty == ToSet(<<>>) = {}
BY DEF ToSet

LEMMA ToSetAppend ==
    ASSUME NEW S, NEW s \in Seq(S), NEW x \in S
    PROVE  ToSet(Append(s, x)) = ToSet(s) \cup {x}
<1>1. /\ DOMAIN s = 1 .. Len(s)
      /\ DOMAIN Append(s, x) = 1 .. Len(s) + 1
      /\ \A i \in 1 .. Len(s) : Append(s, x)[i] = s[i]
      /\ Append(s, x)[Len(s) + 1] = x
      /\ Len(s) \in Nat
    OBVIOUS
<1>2. \A y : y \in ToSet(Append(s, x)) <=> \E i \in 1 .. Len(s) + 1 : y = Append(s, x)[i]
    BY <1>1 DEF ToSet
<1>3. \A y : y \in ToSet(s) <=> \E i \in 1 .. Len(s) : y = s[i]
    BY <1>1 DEF ToSet
<1>4. \A i \in 1 .. Len(s) + 1 : i \in 1 .. Len(s) \/ i = Len(s) + 1
    BY <1>1
<1>5. 1 .. Len(s) \subseteq 1 .. Len(s) + 1 /\ Len(s) + 1 \in 1 .. Len(s) + 1
    BY <1>1
<1> QED
    BY <1>1, <1>2, <1>3, <1>4, <1>5

LEMMA ToSetConcat ==
    ASSUME NEW S, NEW s \in Seq(S), NEW t \in Seq(S)
    PROVE  ToSet(s \o t) = ToSet(s) \cup ToSet(t)
<1>1. /\ s \o t \in Seq(S)
      /\ Len(s \o t) = Len(s) + Len(t)
      /\ \A i \in 1 .. Len(s) : (s \o t)[i] = s[i]
      /\ \A i \in Len(s) + 1 .. Len(s) + Len(t) : (s \o t)[i] = t[i - Len(s)]
    OBVIOUS
<1>2. ToSet(s \o t) \subseteq ToSet(s) \cup ToSet(t)
    <2> SUFFICES ASSUME NEW i \in 1 .. Len(s) + Len(t)
                 PROVE  (s \o t)[i] \in ToSet(s) \cup ToSet(t)
        BY <1>1 DEF ToSet
    <2>1. CASE i <= Len(s)
        BY <1>1, <2>1 DEF ToSet
    <2>2. CASE i > Len(s)
        <3>1. i - Len(s) \in 1 .. Len(t) /\ (s \o t)[i] = t[i - Len(s)]
            BY <1>1, <2>2
        <3> QED
            BY <3>1 DEF ToSet
    <2> QED
        BY <2>1, <2>2
<1>3. ToSet(s) \subseteq ToSet(s \o t)
    BY <1>1 DEF ToSet
<1>4. ToSet(t) \subseteq ToSet(s \o t)
    <2> SUFFICES ASSUME NEW j \in 1 .. Len(t)
                 PROVE  t[j] \in ToSet(s \o t)
        <3>1. \A x \in ToSet(t) : \E j \in 1 .. Len(t) : x = t[j]
            BY LenProperties, Zenon DEF ToSet
        <3> QED
            BY <3>1, Zenon
    <2>1. Len(s) + j \in 1 .. Len(s \o t) /\ (s \o t)[Len(s) + j] = t[j]
        <3>1. Len(s) \in Nat /\ Len(t) \in Nat
            BY LenProperties
        <3>2. /\ Len(s) + j \in Len(s) + 1 .. Len(s) + Len(t)
              /\ Len(s) + j \in 1 .. Len(s) + Len(t)
              /\ (Len(s) + j) - Len(s) = j
            BY <3>1
        <3> QED
            BY <1>1, <3>2, Zenon
    <2> QED
        BY <2>1, <1>1 DEF ToSet
<1> QED
    BY <1>2, <1>3, <1>4

\* All that waits is sent.
LEMMA NothingLeft ==
    ASSUME NEW S, NEW s \in Seq(S)
    PROVE  Dequeued(s) = s /\ SubSeq(s, Len(s) + 1, Len(s)) = <<>>
BY DEF Dequeued

LEMMA ReplySends ==
    ASSUME TypeOK, NEW a \in Address, ReceiveReply(a), IsWaitReply(a)
    PROVE  /\ m_state' = [m_state EXCEPT ![a] = "ALIVE"]
           /\ m_pending' = [m_pending EXCEPT ![a] = <<>>]
           /\ sent' = [sent EXCEPT ![a] = @ \o m_pending[a]]
           /\ UNCHANGED <<handed, dropped, cleared>>
<1>1. /\ Dequeued(m_pending[a]) = m_pending[a]
      /\ SubSeq(m_pending[a], Len(m_pending[a]) + 1, Len(m_pending[a])) = <<>>
    BY NothingLeft DEF TypeOK
<1> QED
    BY <1>1 DEF ReceiveReply

LEMMA Elements ==
    ASSUME NEW s \in Seq(Packets)
    PROVE  \A i \in DOMAIN s : s[i] \in Packets /\ s[i] \in Int
BY MaxPacketsAssumption DEF Packets
-----------------------------------------------------------------------------
(* Types.                                                                  *)

LEMMA PacketOfHandOver ==
    ASSUME TypeOK, HandOver
    PROVE  handed' \in Packets /\ handed' \in 0 .. MaxPackets /\ handed' = handed + 1
BY MaxPacketsAssumption DEF TypeOK, HandOver, Packets

LEMMA EraseTypes ==
    ASSUME TypeOK, NEW S \in SUBSET Address, Erase(S), m_waitReplyTimer' \in BOOLEAN
    PROVE  TypeOK'
<1>1. UNION {ToSet(m_pending[a]) : a \in S} \subseteq Packets
    <2>1. \A a \in S : ToSet(m_pending[a]) \subseteq Packets
        BY ToSetIsRange DEF TypeOK
    <2> QED
        BY <2>1
<1>2. cleared' \subseteq Packets
    BY <1>1 DEF TypeOK, Erase
<1>3. /\ m_state' \in [Address -> States]
      /\ expired' \in [Address -> BOOLEAN]
      /\ m_pending' \in [Address -> Seq(Packets)]
      /\ m_retries' \in [Address -> 0 .. MaxRetries]
    BY RetriesAssumption DEF TypeOK, Erase, States
<1> QED
    BY <1>2, <1>3 DEF TypeOK, Erase, network

LEMMA TimeoutTypes ==
    ASSUME TypeOK, HandleWaitReplyTimeout
    PROVE  TypeOK'
<1> DEFINE retries == {a \in Waiting : CanRetry(a)}
           fails   == Waiting \ retries
<1>1. retries \subseteq Address /\ fails \subseteq Address
    BY DEF Waiting
<1>2. UNION {ToSet(m_pending[a]) : a \in fails} \subseteq Packets
    <2>1. \A a \in fails : ToSet(m_pending[a]) \subseteq Packets
        BY <1>1, ToSetIsRange DEF TypeOK
    <2> QED
        BY <2>1
<1>3. dropped' \subseteq Packets
    BY <1>2 DEF TypeOK, HandleWaitReplyTimeout
<1>4. ASSUME NEW a \in retries
      PROVE  m_retries[a] + 1 \in 0 .. MaxRetries
    <2>1. m_retries[a] \in 0 .. MaxRetries /\ CanRetry(a)
        BY <1>1 DEF TypeOK
    <2> QED
        BY <2>1, RetriesAssumption DEF CanRetry
<1>5. m_retries' \in [Address -> 0 .. MaxRetries]
    <2>1. m_retries' = [a \in Address |-> IF a \in retries THEN m_retries[a] + 1
                                        ELSE IF a \in fails THEN 0 ELSE m_retries[a]]
        BY DEF HandleWaitReplyTimeout
    <2>2. 0 \in 0 .. MaxRetries /\ \A a \in Address : m_retries[a] \in 0 .. MaxRetries
        BY RetriesAssumption DEF TypeOK
    <2> HIDE DEF retries, fails
    <2> QED
        BY <1>4, <2>1, <2>2
<1>6. /\ retried' \in [Address -> Nat]
      /\ unanswered' \in [Address -> Nat]
    <2>1. /\ retried' = [a \in Address |-> IF a \in retries THEN retried[a] + 1
                                          ELSE retried[a]]
          /\ unanswered' = [a \in Address |-> IF a \in retries THEN unanswered[a] + 1
                                             ELSE unanswered[a]]
        BY DEF HandleWaitReplyTimeout
    <2>2. retried \in [Address -> Nat] /\ unanswered \in [Address -> Nat]
        BY DEF TypeOK
    <2> HIDE DEF retries
    <2> QED
        BY <2>1, <2>2
<1>7. /\ m_state' \in [Address -> States]
      /\ m_pending' \in [Address -> Seq(Packets)]
      /\ m_waitReplyTimer' \in BOOLEAN
    BY DEF TypeOK, HandleWaitReplyTimeout, States, EntryStates, Restarts
<1> QED
    BY <1>3, <1>5, <1>6, <1>7 DEF TypeOK, HandleWaitReplyTimeout

LEMMA TypesInductive == TypeOK /\ [Next]_vars => TypeOK'
<1> SUFFICES ASSUME TypeOK, [Next]_vars
             PROVE  TypeOK'
    OBVIOUS
<1>1. ASSUME NEW a \in Address, LookupResolves(a)
      PROVE  TypeOK'
    <2>1. m_state' \in [Address -> States] /\ expired' \in [Address -> BOOLEAN]
        BY <1>1 DEF LookupResolves, TypeOK, States, EntryStates
    <2>2. m_pending' \in [Address -> Seq(Packets)]
        BY <1>1, PacketOfHandOver DEF LookupResolves, TypeOK
    <2>3. jittered' \in [Address -> Nat] /\ retried' \in [Address -> Nat]
        BY <1>1 DEF LookupResolves, TypeOK
    <2> QED
        BY <1>1, <2>1, <2>2, <2>3, PacketOfHandOver
        DEF LookupResolves, TypeOK, StartWaitReplyTimer
<1>2. ASSUME NEW a \in Address, LookupWaits(a)
      PROVE  TypeOK'
    <2>0. handed' \in Packets
        BY <1>2, PacketOfHandOver DEF LookupWaits
    <2>1. /\ \/ m_pending' = m_pending
             \/ m_pending' = [m_pending EXCEPT ![a] = Append(@, handed')]
          /\ dropped' = dropped \/ dropped' = dropped \cup {handed'}
        BY <1>2 DEF LookupWaits, Drop
    <2>2. m_pending' \in [Address -> Seq(Packets)]
        <3>1. Append(m_pending[a], handed') \in Seq(Packets)
            BY <2>0 DEF TypeOK
        <3> QED
            BY <2>1, <3>1 DEF TypeOK
    <2>3. dropped' \subseteq Packets
        BY <2>0, <2>1 DEF TypeOK
    <2> QED
        BY <1>2, <2>2, <2>3, PacketOfHandOver DEF LookupWaits, TypeOK, network
<1>3. ASSUME NEW a \in Address, LookupDrops(a)
      PROVE  TypeOK'
    BY <1>3, PacketOfHandOver DEF LookupDrops, TypeOK, Drop, network, entries
<1>4. ASSUME NEW a \in Address, LookupSends(a)
      PROVE  TypeOK'
    <2>1. sent' \in [Address -> Seq(Packets)]
        BY <1>4, PacketOfHandOver DEF LookupSends, TypeOK
    <2> QED
        BY <1>4, <2>1, PacketOfHandOver DEF LookupSends, TypeOK, network, entries
<1>5. ASSUME NEW a \in Address, SendArpRequest(a)
      PROVE  TypeOK'
    <2>1. /\ jittered[a] > 0
          /\ jittered' = [jittered EXCEPT ![a] = @ - 1]
          /\ unanswered' = [unanswered EXCEPT ![a] = @ + 1]
        BY <1>5 DEF SendArpRequest
    <2>2. jittered' \in [Address -> Nat] /\ unanswered' \in [Address -> Nat]
        BY <2>1 DEF TypeOK
    <2> QED
        BY <1>5, <2>2, Zenon DEF SendArpRequest, TypeOK, entries, history
<1>6. ASSUME NEW a \in Address, ReceiveReply(a)
      PROVE  TypeOK'
    <2>1. unanswered' \in [Address -> Nat]
        BY <1>6 DEF ReceiveReply, TypeOK
    <2>2. CASE IsWaitReply(a)
        <3>1. /\ m_pending' = [m_pending EXCEPT ![a] = <<>>]
              /\ sent' = [sent EXCEPT ![a] = @ \o m_pending[a]]
            BY <1>6, <2>2, ReplySends
        <3>2. m_pending' \in [Address -> Seq(Packets)] /\ sent' \in [Address -> Seq(Packets)]
            BY <3>1 DEF TypeOK
        <3>3. /\ m_state' \in [Address -> States]
              /\ expired' \in [Address -> BOOLEAN]
            BY <1>6, <2>2 DEF ReceiveReply, TypeOK, States, EntryStates
        <3>4. m_retries' \in [Address -> 0 .. MaxRetries]
            <4>1. m_retries' = [m_retries EXCEPT ![a] = 0] /\ 0 \in 0 .. MaxRetries
                BY <1>6, <2>2, RetriesAssumption DEF ReceiveReply, ClearRetries
            <4> QED
                BY <4>1 DEF TypeOK
        <3> QED
            BY <1>6, <2>1, <3>2, <3>3, <3>4 DEF ReceiveReply, TypeOK
    <2>3. CASE ~ IsWaitReply(a)
        BY <1>6, <2>1, <2>3 DEF ReceiveReply, TypeOK, entries
    <2> QED
        BY <2>2, <2>3
<1>7. ASSUME NEW a \in Address, Expire(a)
      PROVE  TypeOK'
    BY <1>7 DEF Expire, TypeOK, network, history
<1>8. ASSUME NEW a \in Address, Remove(a)
      PROVE  TypeOK'
    BY <1>8, EraseTypes DEF Remove, TypeOK
<1>9. ASSUME NEW a \in Address, AddPermanent(a) \/ AddEntry(a)
      PROVE  TypeOK'
    <2>1. PICK state \in {"PERMANENT", "STATIC_AUTOGENERATED"} : Mark(a, state)
        BY <1>9 DEF AddPermanent, AddEntry
    <2>2. /\ m_state' \in [Address -> States]
          /\ expired' \in [Address -> BOOLEAN]
          /\ m_retries' \in [Address -> 0 .. MaxRetries]
        BY <2>1, RetriesAssumption DEF Mark, TypeOK, States, EntryStates
    <2> QED
        BY <2>1, <2>2 DEF Mark, TypeOK, network, history
<1>10. ASSUME NEW senders \in SUBSET Address, Seen(senders)
       PROVE  TypeOK'
    BY <1>10 DEF Seen, TypeOK, network, history
<1>11. CASE HandleWaitReplyTimeout
    BY <1>11, TimeoutTypes
<1>12. CASE Flush
    BY <1>12, EraseTypes DEF Flush
<1>13. CASE RemoveAutoGeneratedEntries
    BY <1>13, EraseTypes DEF RemoveAutoGeneratedEntries, TypeOK
<1>14. CASE UNCHANGED vars
    BY <1>14 DEF TypeOK, vars, entries, network, history
<1> QED
    BY <1>1, <1>2, <1>3, <1>4, <1>5, <1>6, <1>7, <1>8, <1>9, <1>10, <1>11, <1>12, <1>13,
       <1>14, RoutersAssumption DEF Next

LEMMA InitTypes == Init => TypeOK
<1> SUFFICES ASSUME Init
             PROVE  TypeOK
    OBVIOUS
<1>1. <<>> \in Seq(Packets)
    OBVIOUS
<1>2. /\ m_pending \in [Address -> Seq(Packets)]
      /\ sent \in [Address -> Seq(Packets)]
    BY <1>1 DEF Init
<1>3. /\ m_state \in [Address -> States]
      /\ expired \in [Address -> BOOLEAN]
    BY DEF Init, States
<1>4. /\ m_retries \in [Address -> 0 .. MaxRetries]
      /\ handed \in 0 .. MaxPackets
    BY RetriesAssumption, MaxPacketsAssumption DEF Init
<1>5. /\ jittered \in [Address -> Nat]
      /\ unanswered \in [Address -> Nat]
      /\ retried \in [Address -> Nat]
    BY DEF Init
<1> QED
    BY <1>2, <1>3, <1>4, <1>5 DEF Init, TypeOK

\* The types of TypeOK, of every behaviour.
THEOREM TypeCorrect == Spec => []TypeOK
BY InitTypes, TypesInductive, PTL DEF Spec
-----------------------------------------------------------------------------
(* The timer and the retries.                                              *)

\* What the steps do that neither begin nor end a wait.
LEMMA NoWaitBegins ==
    ASSUME WaiterHasTimer, Waiting' \subseteq Waiting, UNCHANGED m_waitReplyTimer
    PROVE  WaiterHasTimer'
BY DEF WaiterHasTimer

LEMMA SameStates ==
    ASSUME UNCHANGED m_state
    PROVE  Waiting' = Waiting
BY DEF Waiting, IsWaitReply

LEMMA TimerInductive == TypeOK /\ WaiterHasTimer /\ [Next]_vars => WaiterHasTimer'
<1> SUFFICES ASSUME TypeOK, WaiterHasTimer, [Next]_vars
             PROVE  WaiterHasTimer'
    OBVIOUS
<1>1. ASSUME NEW a \in Address, LookupResolves(a)
      PROVE  WaiterHasTimer'
    BY <1>1 DEF LookupResolves, StartWaitReplyTimer, WaiterHasTimer
<1>2. ASSUME NEW a \in Address,
             \/ LookupWaits(a) \/ LookupDrops(a) \/ LookupSends(a)
             \/ SendArpRequest(a) \/ Expire(a)
      PROVE  WaiterHasTimer'
    <2>1. UNCHANGED <<m_state, m_waitReplyTimer>>
        BY <1>2 DEF LookupWaits, LookupDrops, LookupSends, SendArpRequest, Expire, entries
    <2> QED
        BY <2>1, SameStates, NoWaitBegins
<1>3. ASSUME NEW a \in Address, ReceiveReply(a)
      PROVE  WaiterHasTimer'
    <2>1. /\ UNCHANGED m_waitReplyTimer
          /\ \/ UNCHANGED m_state
             \/ m_state' = [m_state EXCEPT ![a] = "ALIVE"]
        BY <1>3 DEF ReceiveReply, entries
    <2>2. Waiting' \subseteq Waiting
        BY <2>1 DEF Waiting, IsWaitReply, TypeOK
    <2> QED
        BY <2>1, <2>2, NoWaitBegins
<1>4. ASSUME NEW S \in SUBSET Address, Erase(S), UNCHANGED m_waitReplyTimer
      PROVE  WaiterHasTimer'
    <2>1. Waiting' \subseteq Waiting
        BY <1>4 DEF Erase, Waiting, IsWaitReply
    <2> QED
        BY <1>4, <2>1, NoWaitBegins
<1>5. ASSUME NEW a \in Address, AddPermanent(a) \/ AddEntry(a)
      PROVE  WaiterHasTimer'
    <2>1. PICK state \in {"PERMANENT", "STATIC_AUTOGENERATED"} : Mark(a, state)
        BY <1>5 DEF AddPermanent, AddEntry
    <2>2. Waiting' \subseteq Waiting
        BY <2>1 DEF Mark, Waiting, IsWaitReply, TypeOK
    <2> QED
        BY <2>1, <2>2, NoWaitBegins DEF Mark
<1>6. ASSUME NEW senders \in SUBSET Address, Seen(senders)
      PROVE  WaiterHasTimer'
    BY <1>6, SameStates, NoWaitBegins DEF Seen
<1>7. CASE HandleWaitReplyTimeout
    <2> DEFINE retries == {a \in Waiting : CanRetry(a)}
    <2>1. /\ m_waitReplyTimer' = (retries # {})
          /\ m_state' = [a \in Address |-> IF a \in Waiting \ retries THEN "DEAD"
                                           ELSE m_state[a]]
        BY <1>7 DEF HandleWaitReplyTimeout, Restarts
    <2>2. Waiting' \subseteq retries
        BY <2>1 DEF Waiting, IsWaitReply
    <2> QED
        BY <2>1, <2>2 DEF WaiterHasTimer
<1>8. CASE Flush
    <2>1. Waiting' = {}
        BY <1>8 DEF Flush, Erase, Waiting, IsWaitReply, IsAutoGenerated
    <2> QED
        BY <2>1 DEF WaiterHasTimer
<1>9. CASE UNCHANGED vars
    BY <1>9, SameStates, NoWaitBegins DEF vars, entries
<1>10. ASSUME NEW a \in Address, Remove(a)
       PROVE  WaiterHasTimer'
    BY <1>4, <1>10 DEF Remove
<1>11. CASE RemoveAutoGeneratedEntries
    BY <1>4, <1>11 DEF RemoveAutoGeneratedEntries
<1> QED
    BY <1>1, <1>2, <1>3, <1>5, <1>6, <1>7, <1>8, <1>9, <1>10, <1>11, RoutersAssumption
    DEF Next

LEMMA RetriesInductive == TypeOK /\ RetriesCounted /\ [Next]_vars => RetriesCounted'
<1> SUFFICES ASSUME TypeOK, RetriesCounted, [Next]_vars
             PROVE  RetriesCounted'
    OBVIOUS
<1>1. ASSUME NEW a \in Address, LookupResolves(a)
      PROVE  RetriesCounted'
    BY <1>1 DEF LookupResolves, RetriesCounted, TypeOK, IsWaitReply
<1>2. ASSUME UNCHANGED <<m_state, m_retries, retried>>
      PROVE  RetriesCounted'
    BY <1>2 DEF RetriesCounted, IsWaitReply
<1>3. ASSUME NEW a \in Address,
             \/ LookupWaits(a) \/ LookupDrops(a) \/ LookupSends(a)
             \/ SendArpRequest(a) \/ Expire(a)
      PROVE  RetriesCounted'
    BY <1>2, <1>3 DEF LookupWaits, LookupDrops, LookupSends, SendArpRequest, Expire, entries
<1>4. ASSUME NEW a \in Address, ReceiveReply(a)
      PROVE  RetriesCounted'
    <2>1. CASE IsWaitReply(a)
        <3>1. /\ m_state' = [m_state EXCEPT ![a] = "ALIVE"]
              /\ m_retries' = [m_retries EXCEPT ![a] = 0]
              /\ UNCHANGED retried
            BY <1>4, <2>1 DEF ReceiveReply, ClearRetries
        <3> QED
            BY <3>1 DEF RetriesCounted, TypeOK, IsWaitReply
    <2>2. CASE ~ IsWaitReply(a)
        BY <1>2, <1>4, <2>2 DEF ReceiveReply, entries
    <2> QED
        BY <2>1, <2>2
<1>5. ASSUME NEW S \in SUBSET Address, Erase(S)
      PROVE  RetriesCounted'
    BY <1>5 DEF Erase, RetriesCounted, IsWaitReply
<1>6. ASSUME NEW a \in Address, AddPermanent(a) \/ AddEntry(a)
      PROVE  RetriesCounted'
    <2>1. PICK state \in {"PERMANENT", "STATIC_AUTOGENERATED"} : Mark(a, state)
        BY <1>6 DEF AddPermanent, AddEntry
    <2> QED
        BY <2>1 DEF Mark, RetriesCounted, TypeOK, IsWaitReply
<1>7. ASSUME NEW senders \in SUBSET Address, Seen(senders)
      PROVE  RetriesCounted'
    BY <1>2, <1>7 DEF Seen
<1>8. CASE HandleWaitReplyTimeout
    <2> DEFINE retries == {a \in Waiting : CanRetry(a)}
               fails   == Waiting \ retries
    <2>1. /\ m_state' = [a \in Address |-> IF a \in fails THEN "DEAD" ELSE m_state[a]]
          /\ m_retries' = [a \in Address |-> IF a \in retries THEN m_retries[a] + 1
                                             ELSE IF a \in fails THEN 0 ELSE m_retries[a]]
          /\ retried' = [a \in Address |-> IF a \in retries THEN retried[a] + 1
                                           ELSE retried[a]]
        BY <1>8 DEF HandleWaitReplyTimeout
    <2> HIDE DEF retries
    <2>2. \A a \in Address : a \in fails \/ a \in retries <=> IsWaitReply(a)
        BY DEF Waiting, retries
    <2> QED
        BY <2>1, <2>2 DEF RetriesCounted, IsWaitReply
<1>9. CASE UNCHANGED vars
    BY <1>2, <1>9 DEF vars, entries
<1> QED
    BY <1>1, <1>3, <1>4, <1>5, <1>6, <1>7, <1>8, <1>9, RoutersAssumption
    DEF Next, Remove, Flush, RemoveAutoGeneratedEntries

LEMMA InitWaits == Init => WaiterHasTimer /\ RetriesCounted
BY DEF Init, WaiterHasTimer, RetriesCounted, Waiting, IsWaitReply

\* The timer is running whenever an entry waits.
THEOREM TimerRuns == Spec => []WaiterHasTimer
BY InitTypes, TypesInductive, InitWaits, TimerInductive, PTL DEF Spec

LEMMA GivenUpAfterRetries ==
    ASSUME TypeOK, RetriesCounted, [Next]_vars, NEW a \in Address,
           IsWaitReply(a), m_state'[a] = "DEAD"
    PROVE  retried[a] = MaxRetries
<1>1. ASSUME NEW b \in Address, LookupResolves(b)
      PROVE  FALSE
    BY <1>1 DEF LookupResolves, TypeOK, IsWaitReply
<1>2. ASSUME UNCHANGED m_state
      PROVE  FALSE
    BY <1>2 DEF IsWaitReply
<1>3. ASSUME NEW b \in Address,
             \/ LookupWaits(b) \/ LookupDrops(b) \/ LookupSends(b)
             \/ SendArpRequest(b) \/ Expire(b)
      PROVE  FALSE
    BY <1>2, <1>3 DEF LookupWaits, LookupDrops, LookupSends, SendArpRequest, Expire, entries
<1>4. ASSUME NEW b \in Address, ReceiveReply(b)
      PROVE  FALSE
    BY <1>2, <1>4 DEF ReceiveReply, entries, TypeOK, IsWaitReply
<1>5. ASSUME NEW S \in SUBSET Address, Erase(S)
      PROVE  FALSE
    BY <1>5 DEF Erase, IsWaitReply
<1>6. ASSUME NEW b \in Address, AddPermanent(b) \/ AddEntry(b)
      PROVE  FALSE
    BY <1>6 DEF AddPermanent, AddEntry, Mark, TypeOK, IsWaitReply
<1>7. ASSUME NEW senders \in SUBSET Address, Seen(senders)
      PROVE  FALSE
    BY <1>2, <1>7 DEF Seen
<1>8. CASE HandleWaitReplyTimeout
    <2>1. ~ CanRetry(a)
        BY <1>8 DEF HandleWaitReplyTimeout, Waiting, IsWaitReply
    <2>2. retried[a] = m_retries[a] /\ m_retries[a] \in 0 .. MaxRetries
        BY DEF RetriesCounted, TypeOK
    <2> QED
        BY <2>1, <2>2, RetriesAssumption DEF CanRetry
<1>9. CASE UNCHANGED vars
    BY <1>2, <1>9 DEF vars, entries
<1> QED
    BY <1>1, <1>3, <1>4, <1>5, <1>6, <1>7, <1>8, <1>9, RoutersAssumption
    DEF Next, Remove, Flush, RemoveAutoGeneratedEntries

\* An entry is given up only after all the retries of its own wait.
THEOREM RetriesAreUsed == Spec => AllRetriesUsed
<1>1. TypeOK /\ RetriesCounted /\ [Next]_vars
          => [\A a \in Address : IsWaitReply(a) /\ m_state'[a] = "DEAD"
                  => retried[a] = MaxRetries]_vars
    BY GivenUpAfterRetries
<1> QED
    BY <1>1, InitTypes, TypesInductive, InitWaits, RetriesInductive, PTL
    DEF Spec, AllRetriesUsed
-----------------------------------------------------------------------------
(* No packet stays behind.                                                 *)

\* Only an entry the helper wrote over may hold packets without waiting.
NoneLeft ==
    \A a \in Address : m_pending[a] # <<>> => IsWaitReply(a) \/ IsAutoGenerated(a)

LEMMA NoneLeftInductive == TypeOK /\ NoneLeft /\ [Next]_vars => NoneLeft'
<1> SUFFICES ASSUME TypeOK, NoneLeft, [Next]_vars
             PROVE  NoneLeft'
    OBVIOUS
<1> USE DEF IsWaitReply, IsAutoGenerated
<1>1. ASSUME UNCHANGED <<m_state, m_pending>>
      PROVE  NoneLeft'
    BY <1>1 DEF NoneLeft
<1>2. ASSUME NEW a \in Address, LookupResolves(a)
      PROVE  NoneLeft'
    BY <1>2 DEF LookupResolves, NoneLeft, TypeOK
<1>3. ASSUME NEW a \in Address, LookupWaits(a)
      PROVE  NoneLeft'
    BY <1>3 DEF LookupWaits, NoneLeft, TypeOK
<1>4. ASSUME NEW a \in Address,
             LookupDrops(a) \/ LookupSends(a) \/ SendArpRequest(a) \/ Expire(a)
      PROVE  NoneLeft'
    BY <1>1, <1>4 DEF LookupDrops, LookupSends, SendArpRequest, Expire, entries
<1>5. ASSUME NEW a \in Address, ReceiveReply(a)
      PROVE  NoneLeft'
    <2>1. CASE IsWaitReply(a)
        <3>1. /\ m_pending' = [m_pending EXCEPT ![a] = <<>>]
              /\ m_state' = [m_state EXCEPT ![a] = "ALIVE"]
            BY <1>5, <2>1, ReplySends
        <3> QED
            BY <3>1 DEF NoneLeft, TypeOK
    <2>2. CASE ~ IsWaitReply(a)
        BY <1>1, <1>5, <2>2 DEF ReceiveReply, entries
    <2> QED
        BY <2>1, <2>2
<1>6. ASSUME NEW S \in SUBSET Address, Erase(S)
      PROVE  NoneLeft'
    BY <1>6 DEF Erase, NoneLeft
<1>7. ASSUME NEW a \in Address, AddPermanent(a)
      PROVE  NoneLeft'
    BY <1>7 DEF AddPermanent, Mark, NoneLeft, TypeOK
<1>8. ASSUME NEW a \in Address, AddEntry(a)
      PROVE  NoneLeft'
    BY <1>8 DEF AddEntry, Mark, NoneLeft, TypeOK
<1>9. ASSUME NEW senders \in SUBSET Address, Seen(senders)
      PROVE  NoneLeft'
    BY <1>1, <1>9 DEF Seen
<1>10. CASE HandleWaitReplyTimeout
    <2> DEFINE fails == Waiting \ {a \in Waiting : CanRetry(a)}
    <2>1. /\ m_state' = [a \in Address |-> IF a \in fails THEN "DEAD" ELSE m_state[a]]
          /\ m_pending' = [a \in Address |-> IF a \in fails THEN <<>> ELSE m_pending[a]]
        BY <1>10 DEF HandleWaitReplyTimeout
    <2> HIDE DEF fails
    <2> QED
        BY <2>1 DEF NoneLeft
<1>11. CASE UNCHANGED vars
    BY <1>1, <1>11 DEF vars, entries
<1> QED
    BY <1>2, <1>3, <1>4, <1>5, <1>6, <1>7, <1>8, <1>9, <1>10, <1>11, RoutersAssumption
    DEF Next, Remove, Flush, RemoveAutoGeneratedEntries

LEMMA InitNoneLeft == Init => NoneLeft
BY DEF Init, NoneLeft

\* Packets wait only in entries that wait, which have the timer, and in those
\* that the helper has marked.
THEOREM PendingIsRetried == Spec => []PendingWillBeRetried
<1>1. Spec => [](NoneLeft /\ WaiterHasTimer)
    BY InitTypes, TypesInductive, InitNoneLeft, NoneLeftInductive, TimerRuns, PTL DEF Spec
<1>2. NoneLeft /\ WaiterHasTimer => PendingWillBeRetried
    BY DEF NoneLeft, PendingWillBeRetried
<1> QED
    BY <1>1, <1>2, PTL
-----------------------------------------------------------------------------
(* The order of the packets.                                               *)

LEMMA IncreasingAppend ==
    ASSUME NEW s \in Seq(Packets), NEW x \in Packets, Increasing(s),
           \A i \in DOMAIN s : s[i] < x
    PROVE  Increasing(Append(s, x))
<1>1. /\ Len(s) \in Nat
      /\ DOMAIN s = 1 .. Len(s)
      /\ DOMAIN Append(s, x) = 1 .. Len(s) + 1
      /\ \A i \in 1 .. Len(s) : Append(s, x)[i] = s[i]
      /\ Append(s, x)[Len(s) + 1] = x
    OBVIOUS
<1>2. \A i \in 1 .. Len(s) + 1 : i \in 1 .. Len(s) \/ i = Len(s) + 1
    BY <1>1
<1> QED
    BY <1>1, <1>2 DEF Increasing

LEMMA IncreasingConcat ==
    ASSUME NEW s \in Seq(Packets), NEW t \in Seq(Packets), Increasing(s), Increasing(t),
           \A i \in DOMAIN s, j \in DOMAIN t : s[i] < t[j]
    PROVE  Increasing(s \o t)
<1>1. /\ s \o t \in Seq(Packets)
      /\ DOMAIN s = 1 .. Len(s) /\ DOMAIN t = 1 .. Len(t)
      /\ DOMAIN (s \o t) = 1 .. Len(s) + Len(t)
      /\ \A i \in 1 .. Len(s) : (s \o t)[i] = s[i]
      /\ \A i \in Len(s) + 1 .. Len(s) + Len(t) :
             (s \o t)[i] = t[i - Len(s)] /\ i - Len(s) \in 1 .. Len(t)
    OBVIOUS
<1> SUFFICES ASSUME NEW i \in 1 .. Len(s) + Len(t), NEW j \in 1 .. Len(s) + Len(t), i < j
             PROVE  (s \o t)[i] < (s \o t)[j]
    BY <1>1 DEF Increasing
<1>2. CASE j <= Len(s)
    <2>1. i \in 1 .. Len(s) /\ j \in 1 .. Len(s)
        BY <1>2
    <2> QED
        BY <1>1, <2>1 DEF Increasing
<1>3. CASE i <= Len(s) /\ j > Len(s)
    <2>1. i \in 1 .. Len(s) /\ j \in Len(s) + 1 .. Len(s) + Len(t)
        BY <1>3
    <2> QED
        BY <1>1, <2>1
<1>4. CASE i > Len(s)
    <2>1. i \in Len(s) + 1 .. Len(s) + Len(t) /\ j \in Len(s) + 1 .. Len(s) + Len(t)
        BY <1>4
    <2>2. i - Len(s) < j - Len(s)
        OBVIOUS
    <2> QED
        BY <1>1, <2>1, <2>2 DEF Increasing
<1> QED
    BY <1>2, <1>3, <1>4

\* QueueFollows of one address.
Follows(a) ==
    /\ Increasing(sent[a])
    /\ \A i \in DOMAIN sent[a] : sent[a][i] <= handed
    /\ \A i \in DOMAIN m_pending[a] : m_pending[a][i] <= handed
    /\ IsWaitReply(a) => /\ Increasing(m_pending[a])
                         /\ \A i \in DOMAIN sent[a], j \in DOMAIN m_pending[a] :
                                sent[a][i] < m_pending[a][j]

LEMMA QueueFollowsAll == QueueFollows <=> \A a \in Address : Follows(a)
BY DEF QueueFollows, Follows

\* Fewer packets wait, none is sent, and no wait begins.
LEMMA FollowsWithout ==
    ASSUME TypeOK, NEW a \in Address, Follows(a), UNCHANGED sent, handed' \in Nat,
           handed' >= handed,
           \/ m_pending'[a] = m_pending[a] /\ (IsWaitReply(a)' => IsWaitReply(a))
           \/ m_pending'[a] = <<>>
    PROVE  Follows(a)'
<1>1. /\ sent[a] \in Seq(Packets) /\ m_pending[a] \in Seq(Packets)
      /\ handed \in Nat
      /\ \A i \in DOMAIN sent[a] : sent[a][i] \in Int
      /\ \A i \in DOMAIN m_pending[a] : m_pending[a][i] \in Int
    BY MaxPacketsAssumption DEF TypeOK, Packets
<1>2. /\ Increasing(sent[a])'
      /\ (\A i \in DOMAIN sent[a] : sent[a][i] <= handed)'
    BY <1>1 DEF Follows
<1>3. CASE m_pending'[a] = m_pending[a] /\ (IsWaitReply(a)' => IsWaitReply(a))
    BY <1>1, <1>2, <1>3 DEF Follows
<1>4. CASE m_pending'[a] = <<>>
    <2>1. DOMAIN m_pending'[a] = {}
        BY <1>4
    <2> QED
        BY <1>2, <2>1 DEF Follows, Increasing
<1> QED
    BY <1>3, <1>4

\* The packet handed over is the last.
LEMMA FollowsHandOver ==
    ASSUME TypeOK, HandOver, NEW a \in Address, Follows(a),
           \/ /\ m_pending'[a] = Append(m_pending[a], handed') /\ UNCHANGED sent
              /\ IsWaitReply(a) \/ m_pending[a] = <<>>
           \/ /\ sent'[a] = Append(sent[a], handed') /\ UNCHANGED <<m_pending, m_state>>
              /\ ~ IsWaitReply(a)
    PROVE  Follows(a)'
<1> DEFINE s == sent[a]
           t == m_pending[a]
           x == handed'
<1>1. /\ s \in Seq(Packets) /\ t \in Seq(Packets) /\ x \in Packets
      /\ handed \in Nat /\ x = handed + 1
      /\ \A i \in DOMAIN s : s[i] \in Int
      /\ \A i \in DOMAIN t : t[i] \in Int
    <2>1. s \in Seq(Packets) /\ t \in Seq(Packets)
        BY DEF TypeOK
    <2>2. x \in Packets /\ x = handed + 1 /\ handed \in Nat
        BY PacketOfHandOver, MaxPacketsAssumption DEF TypeOK
    <2>3. Packets \subseteq Int
        BY DEF Packets
    <2>4. \A i \in DOMAIN s : s[i] \in Packets
        BY <2>1, ElementOfSeq, LenProperties
    <2>5. \A i \in DOMAIN t : t[i] \in Packets
        BY <2>1, ElementOfSeq, LenProperties
    <2> QED
        BY <2>1, <2>2, <2>3, <2>4, <2>5, Zenon
<1>2. /\ \A i \in DOMAIN s : s[i] < x /\ s[i] <= x
      /\ \A i \in DOMAIN t : t[i] < x /\ t[i] <= x
      /\ Increasing(s)
    BY <1>1 DEF Follows
<1>3. CASE /\ m_pending'[a] = Append(t, x) /\ UNCHANGED sent
           /\ IsWaitReply(a) \/ t = <<>>
    <2>1. Increasing(t) /\ \A i \in DOMAIN s, j \in DOMAIN t : s[i] < t[j]
        BY <1>3 DEF Follows, Increasing
    <2>2. Increasing(Append(t, x))
        BY <1>1, <1>2, <2>1, IncreasingAppend
    <2>3. \A j \in DOMAIN Append(t, x) :
              \/ j \in DOMAIN t /\ Append(t, x)[j] = t[j]
              \/ Append(t, x)[j] = x
        BY <1>1
    <2>4. \A i \in DOMAIN s, j \in DOMAIN Append(t, x) : s[i] < Append(t, x)[j]
        BY <1>2, <2>1, <2>3
    <2>5. \A j \in DOMAIN Append(t, x) : Append(t, x)[j] <= x
        BY <1>1, <1>2, <2>3
    <2> QED
        BY <1>2, <1>3, <2>2, <2>4, <2>5 DEF Follows
<1>4. CASE /\ sent'[a] = Append(s, x) /\ UNCHANGED <<m_pending, m_state>>
           /\ ~ IsWaitReply(a)
    <2>1. Increasing(Append(s, x))
        BY <1>1, <1>2, IncreasingAppend
    <2>2. \A j \in DOMAIN Append(s, x) :
              \/ j \in DOMAIN s /\ Append(s, x)[j] = s[j]
              \/ Append(s, x)[j] = x
        BY <1>1
    <2>3. \A j \in DOMAIN Append(s, x) : Append(s, x)[j] <= x
        BY <1>1, <1>2, <2>2
    <2> QED
        BY <1>2, <1>4, <2>1, <2>3 DEF Follows, IsWaitReply
<1> QED
    BY <1>3, <1>4

\* What waited is sent behind what was sent before.
LEMMA FollowsReply ==
    ASSUME TypeOK, NEW a \in Address, Follows(a), IsWaitReply(a), UNCHANGED handed,
           sent'[a] = sent[a] \o m_pending[a], m_pending'[a] = <<>>, ~ IsWaitReply(a)'
    PROVE  Follows(a)'
<1> DEFINE s == sent[a]
           t == m_pending[a]
<1>1. s \in Seq(Packets) /\ t \in Seq(Packets)
    BY DEF TypeOK
<1>2. Increasing(s \o t)
    <2>1. /\ Increasing(s) /\ Increasing(t)
          /\ \A i \in DOMAIN s, j \in DOMAIN t : s[i] < t[j]
        BY DEF Follows
    <2> HIDE DEF s, t
    <2> QED
        BY <1>1, <2>1, IncreasingConcat
<1>3. \A i \in DOMAIN (s \o t) : (s \o t)[i] \in ToSet(s) \cup ToSet(t)
    <2>1. \A i \in DOMAIN (s \o t) : (s \o t)[i] \in ToSet(s \o t)
        BY DEF ToSet
    <2>2. ToSet(s \o t) = ToSet(s) \cup ToSet(t)
        BY <1>1, ToSetConcat
    <2> QED
        BY <2>1, <2>2, Zenon
<1>4. \A p \in ToSet(s) \cup ToSet(t) : p <= handed
    BY DEF Follows, ToSet
<1>5. \A i \in DOMAIN (s \o t) : (s \o t)[i] <= handed
    BY <1>3, <1>4
<1>6. DOMAIN m_pending'[a] = {}
    OBVIOUS
<1> QED
    BY <1>2, <1>5, <1>6 DEF Follows

LEMMA OrderInductive == TypeOK /\ NoneLeft /\ QueueFollows /\ [Next]_vars => QueueFollows'
<1> SUFFICES ASSUME TypeOK, NoneLeft, QueueFollows, [Next]_vars, NEW c \in Address
             PROVE  Follows(c)'
    BY DEF QueueFollows, Follows
<1>1. Follows(c) /\ handed \in Nat
    BY MaxPacketsAssumption, QueueFollowsAll DEF TypeOK
<1>2. ASSUME UNCHANGED sent, handed' \in Nat, handed' >= handed,
             \/ m_pending'[c] = m_pending[c] /\ (IsWaitReply(c)' => IsWaitReply(c))
             \/ m_pending'[c] = <<>>
      PROVE  Follows(c)'
    BY <1>1, <1>2, FollowsWithout
<1>3. ASSUME UNCHANGED <<sent, handed, m_pending, m_state>>
      PROVE  Follows(c)'
    BY <1>1, <1>2, <1>3 DEF IsWaitReply
<1>4. ASSUME NEW a \in Address, LookupResolves(a)
      PROVE  Follows(c)'
    <2>0. HandOver /\ UNCHANGED sent
          /\ m_pending' = [m_pending EXCEPT ![a] = Append(@, handed')]
          /\ m_state' = [m_state EXCEPT ![a] = "WAIT_REPLY"]
        BY <1>4 DEF LookupResolves
    <2>1. CASE a = c
        <3>1. m_pending[a] = <<>>
            BY <1>4 DEF LookupResolves, NoneLeft, IsWaitReply, IsAutoGenerated
        <3>2. m_pending'[c] = Append(m_pending[c], handed')
            BY <2>0, <2>1 DEF TypeOK
        <3> QED
            BY <1>1, <2>0, <2>1, <3>1, <3>2, FollowsHandOver
    <2>2. CASE a # c
        <3>1. m_pending'[c] = m_pending[c] /\ m_state'[c] = m_state[c]
            BY <2>0, <2>2 DEF TypeOK
        <3> QED
            BY <1>1, <1>2, <2>0, <3>1 DEF HandOver, IsWaitReply
    <2> QED
        BY <2>1, <2>2
<1>5. ASSUME NEW a \in Address, LookupWaits(a)
      PROVE  Follows(c)'
    <2>0. /\ HandOver /\ UNCHANGED <<sent, m_state>> /\ IsWaitReply(a)
          /\ \/ UNCHANGED m_pending
             \/ m_pending' = [m_pending EXCEPT ![a] = Append(@, handed')]
        BY <1>5 DEF LookupWaits
    <2>1. CASE a = c /\ m_pending' = [m_pending EXCEPT ![a] = Append(@, handed')]
        <3>1. m_pending'[c] = Append(m_pending[c], handed')
            BY <2>1 DEF TypeOK
        <3> QED
            BY <1>1, <2>0, <2>1, <3>1, FollowsHandOver
    <2>2. CASE UNCHANGED m_pending \/ a # c
        <3>1. m_pending'[c] = m_pending[c]
            BY <2>0, <2>2 DEF TypeOK
        <3> QED
            BY <1>1, <1>2, <2>0, <3>1 DEF HandOver, IsWaitReply
    <2> QED
        BY <2>0, <2>1, <2>2
<1>6. ASSUME NEW a \in Address, LookupDrops(a)
      PROVE  Follows(c)'
    <2>1. HandOver /\ UNCHANGED <<sent, m_pending, m_state>>
        BY <1>6 DEF LookupDrops, entries
    <2> QED
        BY <1>1, <1>2, <2>1 DEF HandOver, IsWaitReply
<1>7. ASSUME NEW a \in Address, LookupSends(a)
      PROVE  Follows(c)'
    <2>0. /\ HandOver /\ UNCHANGED <<m_pending, m_state>> /\ ~ IsWaitReply(a)
          /\ sent' = [sent EXCEPT ![a] = Append(@, handed')]
        BY <1>7 DEF LookupSends, entries, IsWaitReply
    <2>1. CASE a = c
        <3>1. sent'[c] = Append(sent[c], handed')
            BY <2>0, <2>1 DEF TypeOK
        <3> QED
            BY <1>1, <2>0, <2>1, <3>1, FollowsHandOver
    <2>2. CASE a # c
        <3>1. sent'[c] = sent[c]
            BY <2>0, <2>2 DEF TypeOK
        <3>2. /\ \A i \in DOMAIN sent[c] : sent[c][i] \in Int
              /\ \A i \in DOMAIN m_pending[c] : m_pending[c][i] \in Int
            <4>1. sent[c] \in Seq(Packets) /\ m_pending[c] \in Seq(Packets)
                BY DEF TypeOK
            <4> QED
                BY <4>1, Elements
        <3> QED
            BY <1>1, <2>0, <3>1, <3>2 DEF HandOver, Follows, IsWaitReply
    <2> QED
        BY <2>1, <2>2
<1>8. ASSUME NEW a \in Address, ReceiveReply(a)
      PROVE  Follows(c)'
    <2>1. CASE IsWaitReply(a) /\ a = c
        <3>1. /\ m_pending' = [m_pending EXCEPT ![a] = <<>>]
              /\ sent' = [sent EXCEPT ![a] = @ \o m_pending[a]]
              /\ m_state' = [m_state EXCEPT ![a] = "ALIVE"]
              /\ UNCHANGED handed
            BY <1>8, <2>1, ReplySends
        <3>2. /\ m_pending'[c] = <<>>
              /\ sent'[c] = sent[c] \o m_pending[c]
              /\ m_state'[c] = "ALIVE"
            BY <2>1, <3>1 DEF TypeOK
        <3> QED
            BY <1>1, <2>1, <3>1, <3>2, FollowsReply DEF IsWaitReply
    <2>2. CASE IsWaitReply(a) /\ a # c
        <3>1. /\ m_pending'[c] = m_pending[c]
              /\ sent'[c] = sent[c]
              /\ m_state'[c] = m_state[c]
              /\ UNCHANGED handed
            BY <1>8, <2>2 DEF ReceiveReply, TypeOK
        <3> QED
            BY <1>1, <3>1 DEF Follows, IsWaitReply
    <2>3. CASE ~ IsWaitReply(a)
        BY <1>3, <1>8, <2>3 DEF ReceiveReply, entries
    <2> QED
        BY <2>1, <2>2, <2>3
<1>9. ASSUME NEW S \in SUBSET Address, Erase(S)
      PROVE  Follows(c)'
    BY <1>1, <1>2, <1>9 DEF Erase, IsWaitReply
<1>10. ASSUME NEW a \in Address, AddPermanent(a) \/ AddEntry(a)
       PROVE  Follows(c)'
    <2>1. PICK state \in {"PERMANENT", "STATIC_AUTOGENERATED"} : Mark(a, state)
        BY <1>10 DEF AddPermanent, AddEntry
    <2>2. IsWaitReply(c)' => IsWaitReply(c)
        BY <2>1 DEF Mark, IsWaitReply, TypeOK
    <2> QED
        BY <1>1, <1>2, <2>1, <2>2 DEF Mark, history
<1>11. ASSUME NEW senders \in SUBSET Address, Seen(senders)
       PROVE  Follows(c)'
    BY <1>3, <1>11 DEF Seen, history
<1>12. CASE HandleWaitReplyTimeout
    <2> DEFINE fails == Waiting \ {a \in Waiting : CanRetry(a)}
    <2>1. /\ m_state' = [a \in Address |-> IF a \in fails THEN "DEAD" ELSE m_state[a]]
          /\ m_pending' = [a \in Address |-> IF a \in fails THEN <<>> ELSE m_pending[a]]
          /\ UNCHANGED <<sent, handed>>
        BY <1>12 DEF HandleWaitReplyTimeout
    <2> HIDE DEF fails
    <2> QED
        BY <1>1, <1>2, <2>1 DEF IsWaitReply
<1>13. ASSUME NEW a \in Address, SendArpRequest(a) \/ Expire(a)
       PROVE  Follows(c)'
    BY <1>3, <1>13 DEF SendArpRequest, Expire, entries, history
<1>14. CASE UNCHANGED vars
    BY <1>3, <1>14 DEF vars, entries, history
<1> QED
    BY <1>4, <1>5, <1>6, <1>7, <1>8, <1>9, <1>10, <1>11, <1>12, <1>13, <1>14,
       RoutersAssumption
    DEF Next, Remove, Flush, RemoveAutoGeneratedEntries

LEMMA InitOrder == Init => QueueFollows
<1> SUFFICES ASSUME Init, NEW a \in Address
             PROVE  Follows(a)
    BY QueueFollowsAll
<1>1. sent[a] = <<>> /\ m_pending[a] = <<>> /\ ~ IsWaitReply(a)
    BY DEF Init, IsWaitReply
<1>2. DOMAIN sent[a] = {} /\ DOMAIN m_pending[a] = {}
    BY <1>1
<1> QED
    BY <1>1, <1>2 DEF Follows, Increasing

\* Packets are sent to a neighbour in the order in which they were handed over.
THEOREM OrderIsKept == Spec => []InOrder
<1>1. QueueFollows => InOrder
    BY DEF QueueFollows, InOrder, Increasing
<1> QED
    BY <1>1, InitTypes, TypesInductive, InitNoneLeft, NoneLeftInductive, InitOrder,
       OrderInductive, PTL DEF Spec
-----------------------------------------------------------------------------
(* Every packet in one place.                                              *)

LEMMA PendingElements ==
    \A p : p \in Pending <=> \E a \in Address : p \in ToSet(m_pending[a])
BY DEF Pending

LEMMA SentElements ==
    \A p : p \in Sent <=> \E a \in Address : p \in ToSet(sent[a])
BY DEF Sent

LEMMA PendingAppend ==
    ASSUME TypeOK, PendingOnce, NEW a \in Address, NEW x \in Packets, x \notin Pending,
           m_pending' = [m_pending EXCEPT ![a] = Append(@, x)]
    PROVE  Pending' = Pending \cup {x} /\ PendingOnce'
<1>1. /\ ToSet(m_pending[a])' = ToSet(m_pending[a]) \cup {x}
      /\ \A b \in Address : b # a => ToSet(m_pending[b])' = ToSet(m_pending[b])
    <2>1. m_pending'[a] = Append(m_pending[a], x) /\ m_pending[a] \in Seq(Packets)
        BY DEF TypeOK
    <2>2. ToSet(Append(m_pending[a], x)) = ToSet(m_pending[a]) \cup {x}
        BY <2>1, ToSetAppend
    <2>3. \A b \in Address : b # a => m_pending'[b] = m_pending[b]
        BY DEF TypeOK
    <2> QED
        BY <2>1, <2>2, <2>3 DEF ToSet
<1>2. \A p : p \in Pending' <=> \E b \in Address : p \in ToSet(m_pending[b])'
    BY DEF Pending
<1>3. Pending' = Pending \cup {x}
    BY <1>1, <1>2, PendingElements
<1>4. \A b \in Address : x \notin ToSet(m_pending[b])
    BY PendingElements
<1>5. PendingOnce'
    <2>1. \A b, c \in Address : b # c => ToSet(m_pending[b]) \cap ToSet(m_pending[c]) = {}
        BY DEF PendingOnce
    <2>2. ASSUME NEW b \in Address, NEW c \in Address, b # c
          PROVE  ToSet(m_pending[b])' \cap ToSet(m_pending[c])' = {}
        <3>1. CASE b = a
            BY <1>1, <1>4, <2>1, <2>2, <3>1
        <3>2. CASE c = a
            BY <1>1, <1>4, <2>1, <2>2, <3>2
        <3>3. CASE b # a /\ c # a
            BY <1>1, <2>1, <2>2, <3>3
        <3> QED
            BY <3>1, <3>2, <3>3
    <2> QED
        BY <2>2 DEF PendingOnce
<1> QED
    BY <1>3, <1>5

LEMMA PendingErase ==
    ASSUME PendingOnce, NEW S \in SUBSET Address,
           m_pending' = [a \in Address |-> IF a \in S THEN <<>> ELSE m_pending[a]]
    PROVE  LET erased == UNION {ToSet(m_pending[a]) : a \in S}
           IN  erased \subseteq Pending /\ Pending' = Pending \ erased /\ PendingOnce'
<1> DEFINE erased == UNION {ToSet(m_pending[a]) : a \in S}
<1>1. \A b \in Address : ToSet(m_pending[b])' = IF b \in S THEN {} ELSE ToSet(m_pending[b])
    <2>1. \A b \in Address : m_pending'[b] = IF b \in S THEN <<>> ELSE m_pending[b]
        OBVIOUS
    <2> QED
        BY <2>1, ToSetEmpty DEF ToSet
<1>2. \A p : p \in Pending' <=> \E b \in Address : p \in ToSet(m_pending[b])'
    BY DEF Pending
<1>3. \A p : p \in erased <=> \E b \in S : p \in ToSet(m_pending[b])
    OBVIOUS
<1> HIDE DEF erased
<1>4. erased \subseteq Pending
    BY <1>3, PendingElements
<1>5. ASSUME NEW p, p \in Pending'
      PROVE  p \in Pending \ erased
    <2>1. PICK b \in Address : p \in ToSet(m_pending[b])'
        BY <1>2, <1>5
    <2>2. b \notin S /\ p \in ToSet(m_pending[b])
        BY <1>1, <2>1
    <2>3. \A c \in S : p \notin ToSet(m_pending[c])
        BY <2>2 DEF PendingOnce
    <2> QED
        BY <1>3, <2>2, <2>3, PendingElements
<1>6. ASSUME NEW p, p \in Pending \ erased
      PROVE  p \in Pending'
    BY <1>1, <1>2, <1>3, <1>6, PendingElements
<1>7. PendingOnce'
    BY <1>1 DEF PendingOnce
<1>8. erased \subseteq Pending /\ Pending' = Pending \ erased /\ PendingOnce'
    BY <1>4, <1>5, <1>6, <1>7
<1> QED
    BY <1>8 DEF erased

LEMMA SentMore ==
    ASSUME TypeOK, NEW a \in Address, NEW q, NEW T,
           sent' = [sent EXCEPT ![a] = q], ToSet(q) = ToSet(sent[a]) \cup T
    PROVE  Sent' = Sent \cup T
<1>1. /\ ToSet(sent[a])' = ToSet(sent[a]) \cup T
      /\ \A b \in Address : b # a => ToSet(sent[b])' = ToSet(sent[b])
    <2>1. sent'[a] = q
        BY DEF TypeOK
    <2>2. \A b \in Address : b # a => sent'[b] = sent[b]
        BY DEF TypeOK
    <2> QED
        BY <2>1, <2>2 DEF ToSet
<1>2. \A p : p \in Sent' <=> \E b \in Address : p \in ToSet(sent[b])'
    BY DEF Sent
<1> QED
    BY <1>1, <1>2, SentElements

\* A step that takes a set of packets from Pending to one of the others.
LEMMA AccountedMove ==
    ASSUME Accounted, NEW moved, moved \subseteq Pending, Pending' = Pending \ moved,
           UNCHANGED handed,
           \/ Sent' = Sent \cup moved /\ UNCHANGED <<dropped, cleared>>
           \/ dropped' = dropped \cup moved /\ Sent' = Sent /\ UNCHANGED cleared
           \/ cleared' = cleared \cup moved /\ Sent' = Sent /\ UNCHANGED dropped
    PROVE  Accounted'
BY Zenon DEF Accounted

\* A step that puts the packet handed over in one place.
LEMMA AccountedHandOver ==
    ASSUME TypeOK, HandOver, Accounted,
           \/ /\ Pending' = Pending \cup {handed'} /\ Sent' = Sent
              /\ UNCHANGED <<dropped, cleared>>
           \/ /\ Sent' = Sent \cup {handed'} /\ Pending' = Pending
              /\ UNCHANGED <<dropped, cleared>>
           \/ /\ dropped' = dropped \cup {handed'} /\ Pending' = Pending
              /\ Sent' = Sent /\ UNCHANGED cleared
    PROVE  Accounted'
<1>1. /\ 1 .. handed' = (1 .. handed) \cup {handed'}
      /\ handed' \notin 1 .. handed
    BY PacketOfHandOver, MaxPacketsAssumption DEF TypeOK
<1> QED
    BY <1>1 DEF Accounted

LEMMA HandedOverIsNew ==
    ASSUME TypeOK, HandOver, Accounted
    PROVE  handed' \in Packets /\ handed' \notin Pending
<1>1. handed' \notin 1 .. handed
    BY PacketOfHandOver, MaxPacketsAssumption DEF TypeOK
<1> QED
    BY <1>1, PacketOfHandOver DEF Accounted

LEMMA SamePackets ==
    ASSUME UNCHANGED <<m_pending, sent>>
    PROVE  Pending' = Pending /\ Sent' = Sent /\ (PendingOnce => PendingOnce')
BY DEF Pending, Sent, PendingOnce, ToSet

LEMMA SameSent ==
    ASSUME UNCHANGED sent
    PROVE  Sent' = Sent
BY DEF Sent, ToSet

LEMMA SamePending ==
    ASSUME UNCHANGED m_pending
    PROVE  Pending' = Pending /\ (PendingOnce => PendingOnce')
BY DEF Pending, PendingOnce, ToSet

LEMMA AccountedInductive ==
    TypeOK /\ PendingOnce /\ Accounted /\ [Next]_vars => PendingOnce' /\ Accounted'
<1> SUFFICES ASSUME TypeOK, PendingOnce, Accounted, [Next]_vars
             PROVE  PendingOnce' /\ Accounted'
    OBVIOUS
<1>1. ASSUME UNCHANGED <<m_pending, history>>
      PROVE  PendingOnce' /\ Accounted'
    BY <1>1, SamePackets DEF history, Accounted
<1>2. ASSUME NEW a \in Address, HandOver, UNCHANGED <<sent, dropped, cleared>>,
             m_pending' = [m_pending EXCEPT ![a] = Append(@, handed')]
      PROVE  PendingOnce' /\ Accounted'
    BY <1>2, HandedOverIsNew, PendingAppend, SameSent, AccountedHandOver
<1>3. ASSUME HandOver, UNCHANGED <<m_pending, sent, cleared>>,
             dropped' = dropped \cup {handed'}
      PROVE  PendingOnce' /\ Accounted'
    BY <1>3, SamePackets, AccountedHandOver
<1>4. ASSUME NEW a \in Address, LookupResolves(a)
      PROVE  PendingOnce' /\ Accounted'
    BY <1>2, <1>4 DEF LookupResolves
<1>5. ASSUME NEW a \in Address, LookupWaits(a) \/ LookupDrops(a)
      PROVE  PendingOnce' /\ Accounted'
    BY <1>2, <1>3, <1>5 DEF LookupWaits, LookupDrops, Drop, entries
<1>6. ASSUME NEW a \in Address, LookupSends(a)
      PROVE  PendingOnce' /\ Accounted'
    <2>1. /\ HandOver /\ UNCHANGED <<m_pending, dropped, cleared>>
          /\ sent' = [sent EXCEPT ![a] = Append(@, handed')]
        BY <1>6 DEF LookupSends, entries
    <2>2. handed' \in Packets
        BY <2>1, PacketOfHandOver
    <2>3. ToSet(Append(sent[a], handed')) = ToSet(sent[a]) \cup {handed'}
        BY <2>2, ToSetAppend DEF TypeOK
    <2>4. Sent' = Sent \cup {handed'}
        BY <2>1, <2>3, SentMore
    <2> QED
        BY <2>1, <2>4, SamePending, AccountedHandOver
<1>7. ASSUME NEW a \in Address, ReceiveReply(a)
      PROVE  PendingOnce' /\ Accounted'
    <2>1. CASE IsWaitReply(a)
        <3>1. /\ m_pending' = [m_pending EXCEPT ![a] = <<>>]
              /\ sent' = [sent EXCEPT ![a] = @ \o m_pending[a]]
              /\ UNCHANGED <<handed, dropped, cleared>>
            BY <1>7, <2>1, ReplySends
        <3>2. m_pending' = [b \in Address |-> IF b \in {a} THEN <<>> ELSE m_pending[b]]
            BY <3>1 DEF TypeOK
        <3>3. UNION {ToSet(m_pending[b]) : b \in {a}} = ToSet(m_pending[a])
            OBVIOUS
        <3>4. /\ ToSet(m_pending[a]) \subseteq Pending
              /\ Pending' = Pending \ ToSet(m_pending[a])
              /\ PendingOnce'
            BY <3>2, <3>3, PendingErase
        <3>5. Sent' = Sent \cup ToSet(m_pending[a])
            <4>1. ToSet(sent[a] \o m_pending[a]) = ToSet(sent[a]) \cup ToSet(m_pending[a])
                BY ToSetConcat DEF TypeOK
            <4> QED
                BY <3>1, <4>1, SentMore
        <3> QED
            BY <3>1, <3>4, <3>5, AccountedMove
    <2>2. CASE ~ IsWaitReply(a)
        BY <1>1, <1>7, <2>2 DEF ReceiveReply, entries, history
    <2> QED
        BY <2>1, <2>2
<1>8. ASSUME NEW S \in SUBSET Address, Erase(S)
      PROVE  PendingOnce' /\ Accounted'
    <2>1. /\ m_pending' = [a \in Address |-> IF a \in S THEN <<>> ELSE m_pending[a]]
          /\ cleared' = cleared \cup UNION {ToSet(m_pending[a]) : a \in S}
          /\ UNCHANGED <<sent, handed, dropped>>
        BY <1>8 DEF Erase
    <2> QED
        BY <2>1, PendingErase, SameSent, AccountedMove
<1>9. CASE HandleWaitReplyTimeout
    <2> DEFINE fails == Waiting \ {a \in Waiting : CanRetry(a)}
    <2>1. /\ m_pending' = [a \in Address |-> IF a \in fails THEN <<>> ELSE m_pending[a]]
          /\ dropped' = dropped \cup UNION {ToSet(m_pending[a]) : a \in fails}
          /\ UNCHANGED <<sent, handed, cleared>>
          /\ fails \in SUBSET Address
        BY <1>9 DEF HandleWaitReplyTimeout, Waiting
    <2> HIDE DEF fails
    <2> QED
        BY <2>1, PendingErase, SameSent, AccountedMove
<1>10. ASSUME NEW a \in Address,
              \/ SendArpRequest(a) \/ Expire(a) \/ AddPermanent(a) \/ AddEntry(a)
       PROVE  PendingOnce' /\ Accounted'
    BY <1>1, <1>10 DEF SendArpRequest, Expire, AddPermanent, AddEntry, Mark, entries
<1>11. ASSUME NEW senders \in SUBSET Address, Seen(senders)
       PROVE  PendingOnce' /\ Accounted'
    BY <1>1, <1>11 DEF Seen
<1>12. CASE UNCHANGED vars
    BY <1>1, <1>12 DEF vars, entries
<1> QED
    BY <1>4, <1>5, <1>6, <1>7, <1>8, <1>9, <1>10, <1>11, <1>12, RoutersAssumption
    DEF Next, Remove, Flush, RemoveAutoGeneratedEntries

LEMMA InitAccounted == Init => PendingOnce /\ Accounted
<1> SUFFICES ASSUME Init
             PROVE  PendingOnce /\ Accounted
    OBVIOUS
<1>1. \A a \in Address : ToSet(m_pending[a]) = {} /\ ToSet(sent[a]) = {}
    BY ToSetEmpty DEF Init
<1>2. Pending = {} /\ Sent = {} /\ PendingOnce
    BY <1>1, PendingElements, SentElements DEF PendingOnce
<1>3. 1 .. handed = {}
    BY DEF Init
<1> QED
    BY <1>2, <1>3 DEF Init, Accounted

\* No packet is lost without a trace, or found twice.
THEOREM PacketsAccounted == Spec => []Accounted
BY InitTypes, TypesInductive, InitAccounted, AccountedInductive, PTL DEF Spec
=============================================================================

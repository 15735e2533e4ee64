------------------------------ MODULE ArpCache ------------------------------
(***************************************************************************)
(* The ARP cache of an interface (internet/model/arp-cache.cc) with the    *)
(* protocol that looks up in it, asks and takes the replies                *)
(* (internet/model/arp-l3-protocol.cc) and the helper that fills it        *)
(* (internet/helper/neighbor-cache-helper.cc).  All entries share one      *)
(* timer.                                                                  *)
(*                                                                         *)
(* The simulator runs one function at a time, so every handler is one      *)
(* step.  Timeouts are untimed: an entry may be expired at any moment      *)
(* after it was seen, and a scheduled event may run at any moment, which   *)
(* allows every jitter and every value of the timeouts.  A request is      *)
(* answered late, once, or never.  Hardware addresses are left out, but    *)
(* for the neighbours that share one.  Packets are numbered in the order   *)
(* in which the network layer hands them over.                             *)
(***************************************************************************)
EXTENDS Integers, Sequences

CONSTANTS
    Address,                \* neighbours on the link
    Routers,                \* sets of addresses with the same hardware address
    MaxRetries,             \* the attributes of the cache
    PendingQueueSize,
    MaxPackets              \* bound: packets handed over

ASSUME RoutersAssumption    == Routers \subseteq SUBSET Address
ASSUME RetriesAssumption    == MaxRetries \in Nat
ASSUME QueueSizeAssumption  == PendingQueueSize \in Nat
ASSUME MaxPacketsAssumption == MaxPackets \in Nat

VARIABLES
    m_state,            \* of the entry of an address, NONE without one
    expired,            \* whether IsExpired, of an ALIVE or DEAD entry
    m_pending,          \* packets waiting for the address
    m_retries,
    m_waitReplyTimer,   \* whether it is pending
    jittered,           \* SendArpRequest events scheduled for the address
    unanswered,         \* requests for the address that may still be answered
    handed,             \* packets handed to Lookup so far
    sent,               \* to the address, in order
    dropped,            \* packets for which a drop trace was fired
    cleared,            \* packets dropped by ClearPendingPacket
    retried             \* requests repeated since the entry began to wait

entries == <<m_state, expired, m_pending, m_retries>>
network == <<jittered, unanswered>>
history == <<handed, sent, dropped, cleared>>
vars    == <<entries, m_waitReplyTimer, network, history, retried>>

EntryStates == {"ALIVE", "WAIT_REPLY", "DEAD", "PERMANENT", "STATIC_AUTOGENERATED"}
States      == EntryStates \cup {"NONE"}
Packets     == 1 .. MaxPackets

IsWaitReply(a)     == m_state[a] = "WAIT_REPLY"
IsAutoGenerated(a) == m_state[a] = "STATIC_AUTOGENERATED"
Waiting            == {a \in Address : IsWaitReply(a)}
ToSet(s)           == {s[i] : i \in DOMAIN s}

Init ==
    /\ m_state = [a \in Address |-> "NONE"]
    /\ expired = [a \in Address |-> FALSE]
    /\ m_pending = [a \in Address |-> <<>>]
    /\ m_retries = [a \in Address |-> 0]
    /\ m_waitReplyTimer = FALSE
    /\ jittered = [a \in Address |-> 0]
    /\ unanswered = [a \in Address |-> 0]
    /\ handed = 0
    /\ sent = [a \in Address |-> <<>>]
    /\ dropped = {}
    /\ cleared = {}
    /\ retried = [a \in Address |-> 0]
-----------------------------------------------------------------------------
(* ArpL3Protocol::Lookup, whose cases are the four actions below.          *)

\* The network layer hands over its next packet.
HandOver == /\ handed < MaxPackets
            /\ handed' = handed + 1

\* A mutant: left to a timer that runs already.
StartNoTimer == UNCHANGED m_waitReplyTimer
\* A timer that runs already is left alone.
StartWaitReplyTimer == m_waitReplyTimer' = TRUE

\* A new entry is added for an unknown address; one that has expired resolves
\* anew.  MarkWaitReply.
LookupResolves(a) ==
    /\ HandOver
    /\ \/ m_state[a] = "NONE"
       \/ m_state[a] \in {"ALIVE", "DEAD"} /\ expired[a]
    /\ m_state' = [m_state EXCEPT ![a] = "WAIT_REPLY"]
    /\ expired' = [expired EXCEPT ![a] = FALSE]
    /\ m_pending' = [m_pending EXCEPT ![a] = Append(@, handed')]
    /\ StartWaitReplyTimer
    /\ jittered' = [jittered EXCEPT ![a] = @ + 1]
    /\ retried' = [retried EXCEPT ![a] = 0]
    /\ UNCHANGED <<m_retries, unanswered, sent, dropped, cleared>>

\* A mutant: the packet is refused without a word.
UntracedDrop == UNCHANGED dropped
\* m_dropTrace with the packet handed over.
Drop == dropped' = dropped \cup {handed'}

\* UpdateWaitReply, whether the entry has expired or not.
LookupWaits(a) ==
    /\ HandOver
    /\ IsWaitReply(a)
    /\ IF Len(m_pending[a]) >= PendingQueueSize
       THEN /\ Drop
            /\ UNCHANGED m_pending
       ELSE /\ m_pending' = [m_pending EXCEPT ![a] = Append(@, handed')]
            /\ UNCHANGED dropped
    /\ UNCHANGED <<m_state, expired, m_retries, m_waitReplyTimer, network, sent,
                   cleared, retried>>

LookupDrops(a) ==
    /\ HandOver
    /\ m_state[a] = "DEAD"
    /\ ~ expired[a]
    /\ Drop
    /\ UNCHANGED <<entries, m_waitReplyTimer, network, sent, cleared, retried>>

LookupSends(a) ==
    /\ HandOver
    /\ \/ m_state[a] = "ALIVE" /\ ~ expired[a]
       \/ m_state[a] \in {"PERMANENT", "STATIC_AUTOGENERATED"}
    /\ sent' = [sent EXCEPT ![a] = Append(@, handed')]
    /\ UNCHANGED <<entries, m_waitReplyTimer, network, dropped, cleared, retried>>
-----------------------------------------------------------------------------
(* Events.                                                                 *)

\* The jittered request, which nothing cancels.
SendArpRequest(a) ==
    /\ jittered[a] > 0
    /\ jittered' = [jittered EXCEPT ![a] = @ - 1]
    /\ unanswered' = [unanswered EXCEPT ![a] = @ + 1]
    /\ UNCHANGED <<entries, m_waitReplyTimer, history, retried>>

\* A mutant: the counter is not cleared.
KeepRetries(a) == UNCHANGED m_retries
\* As MarkAlive does.
ClearRetries(a) == m_retries' = [m_retries EXCEPT ![a] = 0]

\* A mutant: from the other end.
DequeuedFromBack(pending) == [i \in 1 .. Len(pending) |-> pending[Len(pending) + 1 - i]]
\* What DequeuePending returns until the queue is empty.
Dequeued(pending) == pending

\* Receive of a reply: only a waiting entry takes it, and sends what waits.
ReceiveReply(a) ==
    /\ unanswered[a] > 0
    /\ unanswered' = [unanswered EXCEPT ![a] = @ - 1]
    /\ IF IsWaitReply(a)
       THEN /\ m_state' = [m_state EXCEPT ![a] = "ALIVE"]
            /\ expired' = [expired EXCEPT ![a] = FALSE]
            /\ ClearRetries(a)
            /\ LET flushed == Dequeued(m_pending[a]) IN
               /\ sent' = [sent EXCEPT ![a] = @ \o flushed]
               /\ m_pending' = [m_pending EXCEPT ![a] = SubSeq(@, Len(flushed) + 1, Len(@))]
       ELSE UNCHANGED <<entries, sent>>
    /\ UNCHANGED <<m_waitReplyTimer, jittered, handed, dropped, cleared, retried>>

\* A mutant: an entry given up stops the timer of the others.
RestartsUnlessFailed(retries, fails) == retries # {} /\ fails = {}
CanRetry(a) == m_retries[a] < MaxRetries
Restarts(retries, fails) == retries # {}

\* HandleWaitReplyTimeout: every waiting entry asks again or is given up.
HandleWaitReplyTimeout ==
    LET retries == {a \in Waiting : CanRetry(a)}
        fails   == Waiting \ retries
    IN
    /\ m_waitReplyTimer
    /\ m_waitReplyTimer' = Restarts(retries, fails)
    /\ m_state' = [a \in Address |-> IF a \in fails THEN "DEAD" ELSE m_state[a]]
    /\ m_retries' = [a \in Address |-> IF a \in retries THEN m_retries[a] + 1
                                       ELSE IF a \in fails THEN 0 ELSE m_retries[a]]
    /\ retried' = [a \in Address |-> IF a \in retries THEN retried[a] + 1 ELSE retried[a]]
    /\ unanswered' = [a \in Address |-> IF a \in retries THEN unanswered[a] + 1
                                        ELSE unanswered[a]]
    /\ dropped' = dropped \cup UNION {ToSet(m_pending[a]) : a \in fails}
    /\ m_pending' = [a \in Address |-> IF a \in fails THEN <<>> ELSE m_pending[a]]
    /\ UNCHANGED <<expired, jittered, handed, sent, cleared>>

\* Time passes AliveTimeout or DeadTimeout.
Expire(a) ==
    /\ m_state[a] \in {"ALIVE", "DEAD"}
    /\ expired' = [expired EXCEPT ![a] = TRUE]
    /\ UNCHANGED <<m_state, m_pending, m_retries, m_waitReplyTimer, network, history,
                   retried>>

\* Ipv4L3Protocol::Receive: a valid packet refreshes the ALIVE entries of its
\* sender, of the address or, for an unknown one, of the hardware address.
Seen(senders) ==
    /\ expired' = [a \in Address |-> expired[a] /\ ~ (a \in senders /\ m_state[a] = "ALIVE")]
    /\ UNCHANGED <<m_state, m_pending, m_retries, m_waitReplyTimer, network, history,
                   retried>>
-----------------------------------------------------------------------------
(* The helper, the program, and the device.                                *)

\* The entries are erased, and their packets with them.
Erase(S) ==
    /\ m_state' = [a \in Address |-> IF a \in S THEN "NONE" ELSE m_state[a]]
    /\ expired' = [a \in Address |-> expired[a] /\ a \notin S]
    /\ m_pending' = [a \in Address |-> IF a \in S THEN <<>> ELSE m_pending[a]]
    /\ m_retries' = [a \in Address |-> IF a \in S THEN 0 ELSE m_retries[a]]
    /\ cleared' = cleared \cup UNION {ToSet(m_pending[a]) : a \in S}
    /\ UNCHANGED <<network, handed, sent, dropped, retried>>

\* Flush, also called at every change of the link.
Flush ==
    /\ Erase({a \in Address : ~ IsAutoGenerated(a)})
    /\ m_waitReplyTimer' = FALSE

\* FlushAutoGenerated of the helper.
RemoveAutoGeneratedEntries ==
    /\ Erase({a \in Address : IsAutoGenerated(a)})
    /\ UNCHANGED m_waitReplyTimer

\* UpdateCacheByIpv4AddressRemoved of the helper.
Remove(a) ==
    /\ m_state[a] # "NONE"
    /\ Erase({a})
    /\ UNCHANGED m_waitReplyTimer

\* MarkPermanent, MarkAutoGenerated.
Mark(a, state) ==
    /\ m_state' = [m_state EXCEPT ![a] = state]
    /\ expired' = [expired EXCEPT ![a] = FALSE]
    /\ m_retries' = [m_retries EXCEPT ![a] = 0]
    /\ UNCHANGED <<m_pending, m_waitReplyTimer, network, history, retried>>

\* The program adds an entry of its own.
AddPermanent(a) ==
    /\ m_state[a] = "NONE"
    /\ Mark(a, "PERMANENT")

\* AddEntry of the helper, when the caches are populated or an address is added.
\* It marks the entry of the address, if there is one, whatever its state.
AddEntry(a) == Mark(a, "STATIC_AUTOGENERATED")
-----------------------------------------------------------------------------
Next ==
    \/ \E a \in Address : \/ LookupResolves(a) \/ LookupWaits(a)
                          \/ LookupDrops(a) \/ LookupSends(a)
                          \/ SendArpRequest(a) \/ ReceiveReply(a) \/ Expire(a)
                          \/ Remove(a) \/ AddPermanent(a) \/ AddEntry(a)
                          \/ Seen({a})
    \/ \E router \in Routers : Seen(router)
    \/ HandleWaitReplyTimeout
    \/ Flush
    \/ RemoveAutoGeneratedEntries

Spec == Init /\ [][Next]_vars

\* The timer is an event, which the simulator runs.  Nobody has to answer.
FairSpec == Spec /\ WF_vars(HandleWaitReplyTimeout)
-----------------------------------------------------------------------------
(* Properties.                                                             *)

Pending == UNION {ToSet(m_pending[a]) : a \in Address}
Sent    == UNION {ToSet(sent[a]) : a \in Address}

\* Every variable keeps its type.
TypeOK ==
    /\ m_state \in [Address -> States]
    /\ expired \in [Address -> BOOLEAN]
    /\ m_pending \in [Address -> Seq(Packets)]
    /\ m_retries \in [Address -> 0 .. MaxRetries]
    /\ m_waitReplyTimer \in BOOLEAN
    /\ jittered \in [Address -> Nat]
    /\ unanswered \in [Address -> Nat]
    /\ handed \in 0 .. MaxPackets
    /\ sent \in [Address -> Seq(Packets)]
    /\ dropped \subseteq Packets
    /\ cleared \subseteq Packets
    /\ retried \in [Address -> Nat]

\* An entry that waits is never left without the timer: it was started for
\* another entry, survived the answer of that one, and only Flush cancels it.
WaiterHasTimer == Waiting # {} => m_waitReplyTimer

\* Packets are "queued for transmission in the ARP cache until the required MAC
\* address is resolved" (ipv4.rst:110-111): none stays behind in an entry that no
\* longer waits.  AddEntry breaks this: it marks an entry that waits and leaves
\* its packets where no timeout and no reply looks for them.
PendingOnlyUntilResolved ==
    \A a \in Address : m_pending[a] # <<>> => IsWaitReply(a)

\* The packets of an entry that the helper has marked.
Stranded == UNION {ToSet(m_pending[a]) : a \in {b \in Address : IsAutoGenerated(b)}}

\* All other packets wait in an entry that waits, and it has the timer: whatever
\* waits will be retried, by a timer started for some entry.
PendingWillBeRetried ==
    /\ WaiterHasTimer
    /\ \A a \in Address : m_pending[a] # <<>> => IsWaitReply(a) \/ IsAutoGenerated(a)

\* Every packet handed over is in one place: sent once to one address, reported
\* as dropped, cleared with its entry, or waiting.
Accounted ==
    /\ 1 .. handed = Pending \cup Sent \cup dropped \cup cleared
    /\ Pending \cap (Sent \cup dropped \cup cleared) = {}
    /\ Sent \cap (dropped \cup cleared) = {}
    /\ dropped \cap cleared = {}

\* Resolution does not reorder the packets to a neighbour, nor send one twice.
InOrder ==
    \A a \in Address : \A i, j \in DOMAIN sent[a] : i < j => sent[a][i] < sent[a][j]

\* An entry is given up only after all its retries, whatever an earlier
\* resolution of the same address has used, and however early in its wait the
\* shared timer expires.
AllRetriesUsed ==
    [][\A a \in Address : IsWaitReply(a) /\ m_state'[a] = "DEAD"
           => retried[a] = MaxRetries]_vars

\* No packet waits forever, but for those the helper strands: it is answered
\* for, given up or cleared.
EveryPacketDecided ==
    \A p \in Packets : (p \in Pending) ~> (p \notin Pending \/ p \in Stranded)
=============================================================================

# Verification of the simulation core of ns-3 and of the campus Wi-Fi study

This directory holds TLA+ models of the program in this repository (ns-3.48 and
the campus Wi-Fi study built on it), the TLC configurations that check them on
small instances, and proofs, checked by TLAPS, that the main properties hold for
every value of the constants.

ns-3 paths below are relative to `src/ns-3.48/src/`.

## 1. The system

### What runs

A simulation is a program that builds a network of objects, schedules events
through `Simulator`, and calls `Simulator::Run`. A simulator implementation takes
events from a scheduler in the order of their keys (time, then uid) and calls
their functions, which schedule further events. Everything else in ns-3 —
devices, protocols, applications — is code that runs inside an event. The
correctness of the whole therefore rests on a few components with real
concurrency or subtle order, and these are modelled first.

The repository's own part is a study: `scratch/campus-wifi-msuiit.cc` simulates
one configuration and appends its results to a CSV file, `tools/run_sweeps.py`
executes it over a grid, and `tools/analyze.py` and `dashboard/app.py` read the
file through `tools/qos_metrics.py`.

### Inventory

| component | state | operations | interacts by | what is hard | what makes it correct |
|---|---|---|---|---|---|
| default simulator (`core`) | scheduler, current key, uid counter, stop flag, counter of events, list of foreign events with its flag, destroy list | Schedule…, Cancel, Remove, IsExpired, Stop, Run, Destroy | calls from handlers; a mutex and an unlocked flag with other threads | foreign pushes between the flag and the swap; Cancel/Remove decided by comparing keys; several Runs; Destroy | nothing lost, nothing twice, strict order, a cancelled event never runs, exact counter |
| schedulers (`core`) | a heap, list, map, priority queue or calendar of events | Insert, PeekNext, RemoveNext, Remove | called by a simulator | index arithmetic, repair after a removal | always the earliest event; the set of events |
| realtime simulator and synchronizer (`core`) | that of the default simulator, wall-clock origin, condition | the same, and real-time schedules by any thread | mutex, condition variable, wall clock | lost signals, stale delay, stop without signal, second Run | order, never early, no missed wake-up, due events run |
| granted time window (`mpi`) | per rank: scheduler, granted time, lookahead, counters; packets in flight | event loop, Transmit, ReceiveMessages, MPI_Allgather | messages and collectives between processes | messages in flight during the collective; windows of different lengths; Stop on one rank | no packet in the past, common end, termination |
| null messages (`mpi`) | per rank and neighbour: guarantee time, null-message event, safe time | event loop, blocking and non-blocking receive, null messages | messages between processes | cycles of waiting, guarantees contradicted by late packets, cancelled null messages | no packet in the past, guarantees kept and growing, no deadlock |
| queue disc, device queue, device (`traffic-control`, `network`, `point-to-point`) | two queues, running flag, two stop flags, byte limits, transmitter state | Run, Restart, Transmit, Wake, Send, TransmitComplete | callbacks into each other, one scheduled event | re-entrancy, quota, two reasons to stop, notices after the transmission began | no packet lost, overtaken or stranded; bytes accounted |
| ARP cache (`internet`) | entries with state, pending packets and retries, one timer | Lookup, Mark…, timeout, Flush, Remove, entries of the helper | timer events, replies, jittered requests, changes of links and addresses | one timer for all entries, reply racing timeout, what an earlier resolution leaves behind | pending packets sent in order or dropped once, none forgotten; all retries used |
| study: collection (`scratch`, `tools`) | `summary.csv`, per-flow files, the position of a sweep | sweep, execution, load | a file, across processes | failures, Ctrl+C, repeated and resumed sweeps, readers at any moment | no half run, no duplicate, no configuration dropped, file always readable |
| study: analysis and dashboard | none | read the table | the file | — | — |
| the other modules (wifi, lte, tcp, routing, channels, physical models, output…) | see `PROJECT.json` | | inside events | protocol logic of each | outside this project |

`PROJECT.json` lists the components with their files, and the hazards with the line
where each one bites.

## 2. Modules

| module | models | role |
|---|---|---|
| `EventKey` | `Scheduler::EventKey`, its `operator<` | the order all the modules share |
| `DefaultSimulator` | `core/model/default-simulator-impl.cc`, `event-impl.cc`, parts of `simulator.cc` | one component, checked and proved |
| `DefaultSimulatorProofs` | | its theorems |
| `Scheduler` | the contract in `core/model/scheduler.h` | abstract specification |
| `HeapScheduler` | `core/model/heap-scheduler.cc` | refines `Scheduler` |
| `CalendarScheduler` | `core/model/calendar-scheduler.cc` | refines `Scheduler` |
| `MCSchedulers` | | both schedulers side by side: a program uses the one that `SchedulerType` names |
| `SchedulersProofs` | | the theorems of the heap and of the calendar (`Cal!` in `MCSchedulers`) |
| `GrantedTimeWindow` | `mpi/model/distributed-simulator-impl.cc`, `granted-time-window-mpi-interface.cc`, `point-to-point-remote-channel.cc` | any number of ranks composed by messages and a collective |
| `MCGrantedTimeWindow` | | a topology for TLC |
| `GrantedTimeWindowProofs` | | its theorems |
| `NullMessage` | `mpi/model/null-message-simulator-impl.cc`, `null-message-mpi-interface.cc`, `remote-channel-bundle.cc`, `remote-channel-bundle-manager.cc`, the transmitter of `point-to-point-net-device.cc` | any number of ranks composed by messages |
| `MCNullMessage` | | a topology for TLC |
| `NullMessageProofs` | | its theorems |
| `RealtimeSimulator` | `core/model/realtime-simulator-impl.cc`, `wall-clock-synchronizer.cc`, `synchronizer.cc` | main thread, foreign threads and a clock |
| `RealtimeSimulatorProofs` | | its theorems |
| `FifoLink` | what the queues promise together | abstract specification |
| `DynamicQueueLimits` | `network/utils/dynamic-queue-limits.cc` | pure operators on a record |
| `TrafficControl` | `traffic-control/model/queue-disc.cc`, `fifo-queue-disc.cc`, `network/utils/net-device-queue-interface.*`, `point-to-point-net-device.cc` | three components composed; refines `FifoLink` |
| `TrafficControlProofs` | | its theorems, and the refinement |
| `ArpCache` | `internet/model/arp-cache.cc`, `arp-l3-protocol.cc`, the refresh in `ipv4-l3-protocol.cc`, `internet/helper/neighbor-cache-helper.cc` | one cache, its protocol, its helper and the link |
| `ArpCacheProofs` | | its theorems |
| `CampusSweep` | `tools/run_sweeps.py`, the output of `campus-wifi-msuiit.cc`, `load_summary` | one component, checked and proved |
| `MCCampusSweep` | | a grid for TLC |
| `CampusSweepProofs` | | its theorems |

### DefaultSimulator

The main thread is a program counter `pc`; other threads are one action,
`ForeignScheduleWithContext`, enabled at every step. Steps are cut where foreign
threads can observe the difference: the read of `m_eventsWithContextEmpty`
(`Collect`) and the swap under the mutex (`Swap`) are two steps; what the main
thread does on its own data in one call is one step. A handler is the sequence
of API calls made while `pc = "event"`; it ends with `HandlerReturns`, after which
`ProcessOneEvent` collects foreign events again. `Run` may be called any number
of times; `Destroy` runs the destroy events one at a time (each may call the API),
then `DoDispose`.

An `EventImpl` is its number in order of creation; `cancelled` is the set of those
with `m_cancel`. `ids` remembers every `EventId` the program was given, so `Cancel`
and `Remove` are called with old ids as well as new ones, from every place. The
flag `m_eventsWithContextEmpty` is a plain `bool` read without the mutex, which C++
calls a data race; the model reads it atomically, the outcome on the platforms
ns-3 supports.

Abstracted: the scheduler is its contract (a set); contexts are left out;
`ScheduleNow` is `Schedule(0)`; `SetScheduler` copies the events and is the identity
on the set; `PreEventHook` is empty.

### Scheduler and HeapScheduler

`Scheduler` is the contract: a set of events and the event `RemoveNext` returned.
`HeapScheduler` is the array of the code; each turn of the loops of `BottomUp` and
`TopDown` is a step. The refinement maps the array to the set of its elements:
repairing the heap is a stutter. `Contract!Next` is the contract; `Contract!BagSpec`
is the weaker one in which `RemoveNext` may return any event.

### CalendarScheduler

The members of the calendar are one record, because `CalculateNewWidth` removes events from the
calendar and puts them back: `Samples` and `PutBack` do the same with the operators that the calls
use. `ThisYear` are the buckets whose next event the loop of `PeekNext` and `DoRemoveNext` would
return; the first of them ends it, and without one the earliest event is taken and the calendar goes
on from its day (`Take` removes it in both cases). `Order`, `NextEvent` and `Pop` are the three functions that `SetReverse` chooses. A
bucket number is an index of the array; arithmetic on times is modulo `Word`, on times below half of it as the
signed `int64_t` ones of the simulator are. `Starts` are the times at which `Simulator::SetScheduler` may bring a
new calendar in. The three loops (`InsertAll`, `Samples`, `DoResize`) and the two sums of `WidthOf` are
functions of the number of turns made, so that they can be reasoned about.

### GrantedTimeWindow

Every rank has a program counter, a scheduler, a clock and a window. `Run` computes
the lookahead of all ranks (a joint step: the code makes an `MPI_Allreduce`).
`WindowEnds` is the test at the top of the loop, `ReceiveMessage` a turn of
`ReceiveMessages`, `EnterAllgather` and `Allgather` the collective, which completes
when every rank has entered it; each rank's computation on the gathered values
is the same and is part of that step. `Transmit` puts a message in flight, `Arrive`
makes it visible to the receiver's `MPI_Testany`: messages may stay in flight over
any number of collectives and arrive in any order. These two MPI behaviours are
marked external.

Abstracted: the shortest link between two ranks stands for all of them; a rank
calls Run once; Cancel, Remove and ScheduleDestroy are as in `DefaultSimulator`;
the release of send buffers (`TestSendComplete`) has no effect on the protocol.

### NullMessage

The second conservative protocol: no collective, only messages between neighbours, each
with a guarantee. `Run` sends the first null messages (the order of the bundles is that of
an `unordered_map`, hence any permutation of uids), `RunProgram`, `RunStop`, `RunNull` and
`RunComplete` are `ProcessOneEvent` with the function it invokes, `ReceiveNonBlocking` and
`ReceiveNone` the loop of `MPI_Testany`, `ReceiveBlocking` the `MPI_Waitany` of a rank whose
next event is not safe. `TransmitStart` is the whole of it: the end of the transmission is
scheduled first, then the message is sent with a guarantee computed from the event list *of
that moment*, then the pending null message event is cancelled (it stays in the list) and
scheduled anew. A null event is an ordinary event: it bounds the guarantees of the other
neighbours.

External: messages of one rank to another arrive in order, at any time. Abstracted: the
queue of a device (any `TransmitComplete` may find one more packet), the contents of packets.
One Run; `Stop` is the one called before Run. `overlapped` is history: some rank has begun to transmit to a
neighbour while it was transmitting to it on another channel.

### RealtimeSimulator

The main thread is a program counter; a critical section is one step; other threads may
insert events and call `Stop` between any two of its steps, and real time may pass at any
place (`Tick`). `ComputeDelay` is the critical section that reads the next event and resets
the condition; `Synchronize`, `SleepWait`, `GetDrift` and `SpinWait` are the synchronizer.
`SleepWait`'s result is the value of the condition, not of the timeout: a sleep that timed out
is reported as interrupted, an interrupted one goes on to the spin, which looks at the
condition again. The model follows the code; the properties show that it does no harm.
`m_condition` has no initial value in the code and is either in `Init`. Before `SetOrigin` the
real time is that of the epoch, far in the future (`Epoch`): a thread that schedules for
"now" between `m_running = true` and `SetOrigin` gets an event that never comes due.

One Run, `SYNC_BEST_EFFORT`; the hard limit, which ends the process, and the destroy events,
which are those of the default simulator, are left out.

### TrafficControl, DynamicQueueLimits and FifoLink

`Send` is `TrafficControlLayer::Send` with `FifoQueueDisc::DoEnqueue`; `Restart` is one turn of the
loop of `QueueDisc::Run` with everything it calls down to `TransmitStart` (`DeviceSend`);
`NotifyTransmittedBytes` and `Wake` are the two halves of the event that `PacketDequeued`
schedules, either of which may run the queue disc; `TransmitComplete` is the device's event. The
flags `m_stoppedByDevice` and `m_stoppedByQueueLimits` stop the queue for different reasons and are
cleared by different calls. The limits are operators on the record of the members of
`DynamicQueueLimits`; whether the hold time of the slack has passed is a choice.

The refinement maps the transmitter, the queue of the device and that of the queue disc, one
after the other, to the queue of a link. With a quota smaller than the
device queue a Run that used it up leaves packets in the queue disc
behind a queue that is not stopped, and nothing starts the next Run before another packet comes:
`queue-disc.cc:943-948` has a "@todo netif_schedule" there. With `Quota = 1` and `MaxSize = 2` TLC finds
`EveryPacketLeaves` violated: the limits wake the queue disc, it moves one packet, and no event is left that would
run it again. A quota no smaller than the device queue fills that queue before it is used up, so there
`BacklogMeansStopped` excepts nothing; the instance has the smallest such quota. Byte-mode device queues are left out: there the PPP
header may make a packet exceed the room that was tested.

### ArpCache

Handlers are steps, since the simulator runs one function at a time. `LookupResolves`, `LookupWaits`,
`LookupDrops` and `LookupSends` are the cases of `ArpL3Protocol::Lookup`; `ReceiveReply` is the case of
a reply in `Receive`, `HandleWaitReplyTimeout` the one timer of the cache. A request is put on the link
by the jittered event (`SendArpRequest`) or by the timeout, and may be answered at any time after that,
also after the entry is dead, erased, or waiting again. Time is left out: a scheduled event may run at any moment, and
ALIVE and DEAD entries may expire at any moment (`Expire`), which covers all values of the timeouts and of the jitter.
`Erase` is what `Flush`, `RemoveAutoGeneratedEntries` and `Remove` do to entries; only `Flush` cancels the
timer. `Mark` with the two states is how entries become permanent. `expired` stands for
`IsExpired`; a WAIT_REPLY entry is treated alike whether expired or not.

`handed`, `sent`, `dropped`, `cleared` and `retried` are history: a packet is sent when it is handed to
the interface, dropped when a trace reports it, cleared when its entry is erased, which nothing reports.
`AddEntry` marks the entry of its address whatever its state, as `NeighborCacheHelper::AddEntry` does; the packets
of an entry it finds waiting are then `Stranded`, and the properties that a packet will be retried and decided except
exactly these (run `arp_helper` shows one).
Left out: hardware addresses (two neighbours that share one are a set in `Routers`), the answers this
node gives, Dispose.

### CampusSweep

`StartSweep` … `SweepEnds` are the loops of `main`; an execution goes through
`OpenSummary` (test for the file, open that creates it) and `CloseSummary` (the
stream's buffer, smaller than 8 KiB for at most six lines, reaches the file).
`Fails` and `Interrupt` may come at any moment. `Loads`, `SameRun` and `Loaded` are
`load_summary` and `deduplicate_runs`; they are state functions because the
dashboard reads at any moment. A configuration is a point of the grid (what the
loops enumerate) and the other arguments; `Identity` says which of these the
columns of a row tell apart. `load_summary` raises when the first line does not name the
columns, so `Loaded` is empty then. Not modelled: the per-flow files, the input CSVs,
numbers.

## 3. Runs

| run | question | bounds |
|---|---|---|
| `default_simulator` | is any event lost, repeated, run after its cancellation or out of order? | 3 events, delays 0 and 1 |
| `stop_time` (violation) | does Run stop before the stop time, as `simulator.h` says? | 2 events, delay 1 |
| `schedulers` | does the heap keep the contract until a Remove, and its events always? does the calendar keep it with Remove and resizing? | heap: 6 events; calendar: 6 events, delays 0, 3 and 23, words of 6 bits, two starts, both orders |
| `heap_remove` (violation) | does it keep the contract after a Remove? | 7 events |
| `granted_time_window` | causality, common end, termination | 3 ranks, 3 events or messages, links of 1 and 2 |
| `null_message` | causality, guarantees, a null message always due, termination | 3 ranks in a row, the first two with two channels; delays 3 and 4, and 2; stop time 3, 3 calls of the program |
| `realtime_simulator` | is an event early, late behind another, or a signal missed? | 3 events, delays 0 and 5, 6 ticks |
| `traffic_control` | room, wake-ups, bytes, FIFO order, every packet leaves | 8 packets of 1 or 3 bytes, queues of 4 and 2, limits up to 12 |
| `arp_cache` | is any packet lost, sent twice or out of order, forgotten, or given up early? | 2 neighbours, 3 packets, 1 retry, queues of 2 |
| `arp_helper` (violation) | do packets wait only until the address is resolved, also when the helper adds it? | the same |
| `campus_sweep` | whole runs, the header, what the loader keeps, truthful report | 2 points, 2 sets of arguments, 4 executions |
| `sweep_identity` (violation) | does the loader keep configurations apart? | the same |

Why the bounds are enough. *Default simulator*: each property speaks of at most two
events and a list of foreign ones; three events give two in the scheduler with a
third pushed in between, of equal and of different times; the theorems remove the
bound. *Heap*: six elements give a root, a full level and a node with a
single child in the level below, so every branch of `TopDown` runs; the
violation needs a seventh, so that a removed element and the last one lie in
different subtrees. *Calendar*: the fifth event doubles the buckets, removals halve them
down to one; the delay 23 makes widths (three times a sum) and ends of days exceed the word and puts events in later years, so both
branches of the search and the wraps occur. Samples of more than five events, which need nine in the
calendar, and the limit of 32768 buckets (`MaxBuckets`, from which on `Occupancy` promises no upper bound) are not
reached; the theorems, which hold for any number of events, cover both. *Ranks*: three in a row with links of different lengths are
the least in which a rank lags behind a neighbour that another rank has already
let run on; the theorems remove the bound. *Null messages*: three calls of the
program let a rank transmit from a received event, two ranks transmit towards each other, or one
transmit on both channels to a neighbour, one after the other or at once,
while null messages are cancelled on the way; ranks 1 and 2 reach the stop time 3 only with guarantees that were renewed, as the delay between them is 2, and a packet
on the channel of delay 3 may overtake one on that of 4;
the theorems remove the bound. *Realtime*: the delay 5 is above the
three jiffies that are spun, so a wait sleeps, is interrupted and spins; three events let a
thread insert one before the one that is waited for, and one while it is taken. *Traffic*: the
device holds two packets and one on the wire, so a fourth is held back; eight packets are enough
for the limits to grow, shrink and stop the queue on their own. *ARP*: two neighbours let one begin to wait with the timer of
the other; three packets fill a queue of two and leave one over; with one retry a failure takes two timeouts; the theorems remove the bounds. *Sweeps*: four executions allow two sweeps
of two points, or an interrupted, a failed and a repeated one.

Deadlock is checked in `granted_time_window`, `null_message` and, there, is the point: two ranks
must not wait for each other. In the other modules the program may end (the simulator is disposed),
the bound stops it, or, in `realtime_simulator`, the main thread waits for a time after the last
tick.

`AllStop` is checked for ranks that stop at the same time. With different stop times the protocol
does deadlock: a rank that has stopped sends no more null messages, and a neighbour that is to
run on waits in `MPI_Waitany` for ever. This is listed under the hazards; no text of the repository
promises otherwise.

Fairness. `RunTerminates`: weak fairness of the steps of each rank (the
operating system runs every process), of the collective (MPI completes a
collective all have entered) and of arrival (MPI delivers). `AllStop`: weak fairness of the steps
of all ranks together — some rank that can go on does — and none between them, so it holds
however slow one rank is. `DueEventsRun`: time passes, and the main thread is scheduled.
`EveryPacketLeaves`: a function that runs goes on (weak), and a scheduled event is run whatever other
events the simulator runs before it (strong, because new packets may be sent in between for
ever); nobody has to send. `EveryPacketDecided`: the timer event runs; nobody has to answer, not even to have the
request sent. The handlers' API
calls are not fair, and the model assumes, through `MaxEvents`, that the simulated
program schedules finitely many events: a program that schedules for ever
does not return from Run.

Every property of a passing run has a mutant: a definition with a plausible bug,
next to the original, under which TLC finds the property violated. The type invariants are not among them: they
are proved (`TypeCorrect` of the proof modules), and a run would show less.

### What the violations show

- **`heap_remove`, a bug.** `HeapScheduler::Remove` moves the last element into the
  hole and only sinks it. When it comes from another subtree it may be smaller
  than its new parent; `RemoveNext` later returns an event too late, and the
  assertion `next.key.m_ts >= m_currentTs` of the simulators can fail. `Remove` needs a
  `BottomUp` from the hole as well.
- **`stop_time`, documentation.** `Stop(delay)` is an ordinary event: events of the stop
  time scheduled before it run. `simulator.h:136-138` says they do not.
- **`sweep_identity`.** `RUN_IDENTITY_COLUMNS` lacks the uplink ratio, the AP spacing, the
  5 GHz share, the radius and the traffic mix: sweeps that differ only there are
  taken for repetitions and the first one is dropped, although `SETUP.md:405-408` says
  that every parameter is matched.

- **`arp_helper`, a bug.** `NeighborCacheHelper::AddEntry` (`neighbor-cache-helper.cc:366`) marks an entry that is waiting for a
  reply as autogenerated, when an address is added with the dynamic neighbour cache on. The packets in its
  queue are then neither sent nor dropped: the timeout passes over the entry and a reply is refused.
  `ipv4.rst:109-114` says that packets are queued until the address is resolved, or dropped.

Three more disagreements can be seen with these modules; no listed run shows them:

- The execution that creates `summary.csv` owns the header. Cut short before it closes the file, by Ctrl+C or by a
  failure, it leaves an empty one, and no later execution writes a header: `load_summary` raises for everything
  recorded afterwards, although `SETUP.md:361` promises that a sweep can be interrupted without losing completed
  runs. `HeaderFirst` says that this is the only way to a file without a header, and the run `campus_sweep` reaches it.
- The ARP timer goes on when the last request is answered, against `arp-cache.h:346`. The next address that waits
  has its first timeout early, though not fewer retries (`AllRetriesUsed`); and a full queue refuses the
  new packet, where the comment at `arp-cache.cc:475-477` says that it replaces the waiting one (`ipv4.rst:129-130`
  agrees with the code).
- With two channels between two ranks a guarantee is contradicted: it is computed in the middle of a handler,
  for all channels of a bundle, and a packet that the same handler, or a later one, sends on another channel of it while
  the first transmission goes on, with a shorter one, is received before it. `remote-channel-bundle.h:146-149` says that
  no packet ever is, on any channel of the bundle. `BundleGuaranteeKept` is that sentence, and TLC finds it violated as an
  invariant of the instance of `null_message`; the properties of that run are the sentence, and what the simulator rests on
  it, up to the first such overlap.

## 4. Proofs

All theorems are of the form `Spec => []P` or `Spec => [][A]_v` and hold for every value
of the constants under the named assumptions of the modules.

**DefaultSimulatorProofs.** The inductive invariant adds to the checked properties
what makes them inductive: every event in the scheduler has a uid below
`m_uid` and at least `VALID`, a key above the current key, and an impl that exists; keys
of two events differ; an id the program holds is either still in the scheduler,
or on the destroy list, or its key lies at or below the current key, or it is
cancelled (this is why comparing keys suffices in `IsExpired`); when the flag says
that the list is empty, it is; the impls of the list are distinct and in
no other place. From it follow `TypeOK`, `NoEventLost`, `NoEventTwice`,
`CancelledNeverInvoked`, `UnscheduledEventsExact` (with the cardinality lemmas of the
library), `ExpiredIffNotPending`, and the action properties `ExecutionOrder` and
`CollectTakesAll`. Assumptions: delays are natural numbers and fewer than 2^30
events are created (so that `m_uid` does not wrap).

**GrantedTimeWindowProofs.** Causality needs a window invariant: for ranks `r` and `q`
and every event `e` of `q` still to run, `m_grantedTime[r] <= e.ts + lookahead[r]`; the
same for the event that runs and for every message in flight. Since no link into
`r` is shorter than its lookahead, whatever `q` sends arrives at or after
`m_grantedTime[r]`, which bounds `r`'s clock. While the ranks are at the collective with equal counters
nothing is in flight, so the least next event bounds every later one: this is
where `CountsDetectTransients` enters, itself proved from an invariant
that relates the sums of the counters to the cardinality of `inFlight`. `FinishTogether`
and `WindowsGrow` follow. Assumptions: at least one rank, links symmetric and
not longer than infinity, a positive bound, natural delays.

**SchedulersProofs, the heap.** Heap order is broken while a loop runs, so the inductive
invariant says where: in `BottomUp` only `index` may be smaller than its parent
(`RisingInv`), in `TopDown` only `index` may be greater than its children
(`SinkingInv`), and in both the children of `index` come after the parent of `index`
(`FitsAbove`), without which the exchange would break the order one level away. It is
kept by each exchange because the smaller child is the one that rises
(`ChildIsSmallest`), and gives `HeapOrdered` when the loop returns. The least index
whose element precedes the root's would have a parent that does not, so the root is the
earliest event (`RootIsEarliest`), and `RemoveNext` is the contract's until the first
`Remove`. Uids stay distinct under every operation, so taking an element out of the
array takes exactly one event out of the set: `KeepsEvents`, also after a `Remove`.
The same invariant shows that what the loops read and exchange lies in the array
(`IndicesInside`, part of `TypeCorrect`): the test for the bottom of the heap, and that for the root, come before every
use of a child or a parent.
Assumption: delays are natural numbers.

**SchedulersProofs, the calendar.** `CalendarInv` says that the calendar is `Searchable`: each bucket is sorted and
holds exactly the events that hash to it (`Holds`, which also says that uids are distinct), the current bucket and the
end of its day are those of `m_lastPrio` (`AtDay`), and no event is earlier. `m_qSize` and the occupancy are
part of it, and that the simulator is not behind `m_lastPrio`, so an insertion cannot put an event before the search.
The search is the heart of it. Turn `t` is at the day `t` days after the current one, and its end is taken modulo
`Word` (`DayOfTurn`). When a turn finds an event below that end (`FoundIsEarliest`), the event is of that very
day, not of the same day of a later year: an end that did not wrap says so, and one that wrapped is smaller than
what it should be, so the test only becomes stricter. An event of an earlier day would have been
found at an earlier turn, because its day ends no later than the time of the event that was found, which is
representable, so that end did not wrap. When no turn finds one, the events are
compared by their keys (`HeadsHaveEarliest`). Either way `DoRemoveNext` leaves a `Searchable` calendar without its
event (`DoRemoveNextHolds`), which is all that `CalculateNewWidth` needs to take its samples and put them back
(`Sampled`, `SamplesHold`, `PutBackHolds`), whatever their separations add up to; the width it computes is
not 0 (`WidthPositive`). `DoResize` inserts every event anew (`DoResizeHolds`), and a calendar is only halved
while it has two buckets or more (`ResizeDownHolds`).
A loop is a recursive function, which a proof sees as a `CHOOSE`: `LoopExists` builds such a function from its steps
kept in a family of sets, and `ChainHolds` carries what holds after `i` turns to the next one; both take a
least counterexample instead of an induction. From the invariant follow `CalendarConsistent` and, step by
step, `CalendarKeepsContract`. Assumptions: delays and starts are natural numbers and `Word` is positive; nothing
is assumed about its size, because `Insert` refuses a time that is not representable.

**NullMessageProofs.** For every topology, with any number of channels between two ranks. The types need no premise
(`TypeCorrect`). The rest is proved up to the first overlap of two transmissions of a rank to one neighbour, `overlapped`,
after which it is false (section 3); where two ranks share a single channel there is none (`OneChannelNeverOverlaps`). A rank *keeps* a guarantee `g` for a
neighbour (`Keeps`) when nothing it may still send contradicts `g`: `g` lies within the delay of
its safe time, and either every event but the next null message to that neighbour, and the time of
the handler if one is running, is late enough (`EventsKeep`), or the transmitter to that neighbour is
BUSY, and the ends of all transmissions to it and the next null message are late enough (`TransmitterKeeps`). The invariant says
that a rank keeps every guarantee that it has sent, or that the neighbour holds, and that the messages on their way
are in the order of their guarantees (`InOrder`). The second case is what a packet needs:
it is sent with a guarantee that lies beyond the running handler, and what justifies it is that the
device cannot start another one before the end of the transmission, nor, without an overlap, can another device of the bundle. That the pending null message
is cancelled only after the guarantee was computed is needed too: the guarantee counts it, and the
new one is due no earlier. So a received packet is not before the safe time
(`NoEventInThePast`), and every message carries a guarantee no smaller than the last (`GuaranteesGrow`).
That nothing deadlocks is proved too, as far as a state can say it. The last guarantee a rank has sent reaches
at least to the time of its pending null message (`Announced`), because `SchedulerTune` is at most 100: the interval
is no longer than the shortest delay (`IntervalWithinDelay`). The safe time of a rank that waits is the guarantee of one of
its neighbours (`WaitOK`); if that one waits too, its null message event, and so its next
event, comes before the next event of the first (`WaitsAreNotCircular`). Hence of the ranks that wait the one with the earliest
event waits for a rank that goes on, or for one that was to stop earlier, which is the deadlock described in section 3; with
equal stop times some rank has a step to take until all are done or transmissions overlap (`DeadlockFree`). `AllStop` adds that
the steps lead to the end, and stays with TLC.
Assumptions: finitely many ranks, each with a neighbour, and positive delays.

**RealtimeSimulatorProofs.** Synchronize returns to take an event although the mutex was
released during the wait. The invariant says what survives: while the main thread waits for
`until`, some event of the list is due by then (`HasEvent`), because other threads only insert; and
either the condition is set or every event is at `until` or later (`NoSignalMissed`), because every
insertion signals after it and the reset happens in the critical section that read the list. So the
event that is taken is due (`EventsArePaced`) and exists (`ListNotEmpty`). Events are ahead of the
current one because insertions are for a time at or after `realtime`, which is at least the current
time. Assumptions: natural delays and an epoch after the last tick.

**TrafficControlProofs.** A stopped queue must have a reason that goes away. `ReadyIsEmpty`: a READY
transmitter has an empty queue and no notice to come. `StoppedForAReason`: a queue the device
stopped is full, or a notice or its Wake is under way. `LimitsReason`: one the limits stopped has
more queued than the adjusted limit, which is at least what was completed, so with
`BytesAccounted` it holds bytes. That a queue of no packets holds no bytes needs the sum of the packets, stated
without induction by the function of its partial sums (`Counts`). `DeviceHasRoom` makes the drop in
`DeviceSend` unreachable, and with it every step of the three queues is a step of the link or none
(`ImplementsFifoLink`), by the associativity of concatenation. `BacklogMeansStopped` needs, for a quota that is used up,
that it was enough (`FillsDevice`): while the queue disc runs, what is left of the quota and what the device queue holds are
together at least `MaxSize`, because each turn moves one packet from the one to the other, and a run that finds the
transmitter READY has a single packet to move, because an idle queue disc behind a queue that is not stopped is empty. Assumptions: packets of at least one
byte, a device queue and a quota of at least one.

**ArpCacheProofs.** What an entry that does not wait has left behind decides how its next resolution
goes. `RetriesCounted`: the counter of a waiting entry counts its own wait and the others are zero, which gives
`AllRetriesUsed`. `NoneLeft`: no packets stay in it, unless the helper has marked it; this gives, with `TimerRuns`,
`PendingWillBeRetried`. An entry with such packets never waits again before it is erased, so the order of what is sent does
not suffer.
`QueueFollows`: what waits was handed over after what was sent, and in order, hence `InOrder`.
`PendingOnce`: no packet waits in two entries, without which `Accounted` would not survive the answer of
one of them. Assumptions: natural sizes; the sets of neighbours and routers are arbitrary.

**CampusSweepProofs.** One execution runs at a time and owns the end of the file. `FileInv`: the lines of an
execution come after those of earlier ones, it has none before it closes the file, and the one that is to write the
header finds the file empty (`Position`), hence `LoadableStays`. `HeaderInv` names the execution to blame for rows without
a header: it was cut short, has no line and precedes all rows; hence `HeaderFirst`. `WholeInv` adds that an
execution between the close and its end has all its rows, so one that succeeded has them (`WholeRuns`).
`LastCounts` holds for every `Identity`: of the rows of the same run, as the columns tell it, the last one is kept, and it is of the
same or of a later execution because of the order of the lines. That the columns should tell all arguments apart
(`NoConfigurationDropped`) is what the run `sweep_identity` refutes, on a summary that loads. `ReportInv`, for `ReportTruthful`: while no
execution of the sweep has failed, every point before `k` has an execution that succeeded with the arguments of
this sweep. Assumptions: a grid and classes that are not empty.

**Only model-checked**: what is about liveness (`RunTerminates`, `AllStop`, `DueEventsRun`,
`EveryPacketLeaves`,
`EveryPacketDecided`; out of the prover's reach). Every invariant and every action property that a passing run checks
is also a theorem; of `AllStop`, its safety part is (`DeadlockFree`).

## 5. Plan

Done: the default simulator, the contract of schedulers and the heap, the granted time
window, null messages, the realtime simulator, traffic control, the ARP cache, the calendar scheduler, the collection of the results;
the theorems above.

1. A second Run of `RealtimeSimulator` and of `GrantedTimeWindow`, with their Cancel and Remove.
2. The neighbour cache of IPv6 (`NdiscCache`), which has a timer for every entry.
3. Queue discs with several internal queues and requeueing; the per-flow files of `CampusSweep`.

## 6. Not modelled

Contents of packets, all protocol modules, floating-point models, output and
visualisation: see the notes in `PROJECT.json`. The wrap of the 32-bit counters
(`m_uid`, packet counters) and of 64-bit time is excluded by assumption or by
unbounded integers, and listed under the hazards.

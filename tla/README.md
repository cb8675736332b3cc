# DRS multi-node clock synchronisation: TLA+ specifications

This directory holds the formal model of `drs_syncd`, the daemon of the DRS
(`code/daemon/`), and of the parts of `code/agent/agent.py` that share memory
with it. Paths below are relative to the repository. `PROJECT.json` maps each
definition to the lines it models and lists runs, mutants, hazards and theorems
in machine-readable form.

    tlc -config MCCluster_safety.cfg MCCluster      # a model-checking run
    tlapm ClusterProofs.tla                       # the proofs

## 1. The system

Several Raspberry Pi hosts on one Ethernet segment emit a pulse on GPIO 18 at
the same instant of a shared virtual time. One node is the leader; the others
measure their offset to it with a two-way exchange of four timestamps and steer
their own virtual clock. A node ID is the last octet of the host's IPv4 address,
and the lowest ID is meant to lead.

Each host runs one `drs_syncd` process with three threads:

| thread | scheduling | work |
|---|---|---|
| main | FIFO 85, core 3 | epoll loop: 50 ms tick, 100 ms heartbeat, two sockets |
| pulse | FIFO 90, core 3 | sleeps until the next pulse, raises and lowers the pins |
| telemetry sender | inherits the unit's FIFO 85, core 3 | polls the ring, sends records by UDP |

Outside the process there are `drs_mon` and `drs_sync_inspect`, which read the
telemetry page, and the agent, an HTTP server that reads the page and writes the
command page.

### Components

| component | state | operations | interacts with |
|---|---|---|---|
| election (`election.c`) | term, known leader, lock mode, election deadline | init, on_announce, promote, timed_out, arm_timeout | called by the state machine only |
| state machine (`statemachine.c`) | state (7), deadlines, outstanding request, filter, controller, clock | tick, on_announce, on_sync_req, on_sync_resp, on_command | all other parts of the process |
| main loop (`main.c`, `net_io.c`) | epoll set, timers, sockets | tick + link check + command poll, heartbeat, receive on either socket | other nodes, by UDP multicast and unicast |
| calibration (`calibrate.c`) | none | measures the loopback latency; may fail | called from tick, promotion, RECALIBRATE |
| virtual clock (`vclock.c`) | base pair, rate, latency correction, `seq` | now, set_rate, step, latency, inverse mapping | main thread writes, pulse thread reads |
| pulse engine (`pulse_engine.c`) | armed, next target, health | arm, thread function, health update | reads the virtual clock |
| min-delay filter, PI controller | window of RTTs; integral, last error | push, update, reset | fed by on_sync_resp |
| telemetry page (`telemetry.c`) | one page guarded by `seq` | publish | monitors and agent read it |
| telemetry ring (`telemetry_udp.c`) | ring, two indices, running flag | emit, sender thread, init, close | main thread to sender thread |
| command channel (`cmd.c`) | seq, code; last seq seen | poll, send | agent writes, main thread polls every tick |
| error ring (`errors.c`) | ring, head | push | main thread writes, agent reads |
| link monitor (`net_io.c`) | carrier seen last | check_recover, every 500 ms | multicast membership |
| wire format, CRC, GPIO registers | none | encode, decode, register writes | |
| deployment (`deploy/`) | | start, restart after a crash | |

### What is hard here

The complete list, each item at its line, is under `hazards` in `PROJECT.json`.
In short:

* *Nodes.* Processes are not synchronised. ANNOUNCEs and SYNC packets are lost,
  duplicated and delayed; a process is killed and comes back with term 0; hosts
  start in any order and lead alone before they meet. Agreement on the lowest
  running ID, and never following somebody who is gone, are liveness questions.
* *Handlers.* State written by one function and compared by the next one
  (the leader), answers paired with the wrong request, operator commands that
  arrive in a state nobody thought of, calibration that fails in some callers.
* *Threads.* The seqlock, with a reader that preempts the writer on its own core
  and readers on other cores; the lock-free ring at its limit; a page copied
  while it is written.
* *Time within a node.* The pulse thread computes its next edge up to a second
  ahead; the main thread slews, steps and recalibrates the clock meanwhile.
* *Numbers.* Rounding and repeated subtraction of the latency correction in the
  virtual clock; products of the PI controller that leave 64 bits.
* *The exchange.* Answers that come after their request was given up, samples that
  the filter rejects, a step that needs several samples in a row while resets and
  silences come between them.
* *Around the process.* A command page with room for one command, read in two
  loads and older than the daemon; an error ring without a lock; a carrier that is
  polled; a pin that others trust, across starts, SIGTERM and crashes.

### What makes each part correct

* Election and state machine: clocks never chase each other in a loop; terms do
  not go back; the lowest ID is not displaced; the cluster converges on it; a
  node does not follow a leader that is gone; a change of leader starts the
  discipline afresh; nobody follows uncalibrated; the pulse runs in every
  operational state.
* Telemetry ring: it is a bounded first-in first-out queue; no record is torn,
  duplicated, reordered or stranded; the real-time thread never waits.
* Seqlock: reads are consistent and fresh; the writer is never blocked.
* Virtual clock and pulse engine: the inverse mapping fits the mapping, a change
  of the rate does not move the reading; every second has one pulse of full
  length, and the pulses never stop.
* Exchange, filter, controller: a clock far from the leader's is brought close and
  kept there; the filter never shuts the node out; what a mispaired answer does is
  bounded; the rate moves the clock towards the leader's.
* Command channel: a command is not repeated, and the last one is carried out.
  Error ring: what is read back are the errors that were pushed. Link monitor: a
  node with a carrier hears the group. Health pin: LOW exactly after a good window.

## 2. Modules

| module | models | kind |
|---|---|---|
| `Election` | `election.c` | operators on a node's record |
| `StateMachine` | `statemachine.c`, outcome of `calibrate.c` | operators: one per handler and per `enter_*` function |
| `Cluster` | `main.c`, the segment, crashes, `drs-sync.service` | state machine over all nodes |
| `TimedCluster` | `Cluster` with time and bounded faults | state machine, for liveness |
| `TelemQueue` | what the telemetry path promises | abstract specification |
| `TelemRing` | `telemetry_udp.c` | state machine of two threads; implements `TelemQueue` |
| `Seqlock` | `vclock.c`, `telemetry.c`, the readers | state machine of writer and readers |
| `CInt` | C's division and the wrap-around of an integer | operators |
| `VClock` | arithmetic of `vclock.c` | operators on a clock record |
| `PulseEngine` | `pulse_engine.c` without the health pin, and the main thread's clock writes | state machine of two threads, in time |
| `Discipline` | `min_delay.c`, `pi_ctrl.c` | operators on window and controller |
| `SyncExchange` | requests, timeouts, rate gate and samples of `statemachine.c` | state machine of one FOLLOWER, its leader and the segment |
| `CmdChannel`, `ErrorRing`, `LinkMonitor`, `HealthPin` | `cmd.c`, `errors.c`, `net_check_recover`, `pulse_engine_update_health` with `gpio_bcm2711.c` | actions of one part each |
| `Node` | the tick of `main.c` around the protocol, the agent, systemd | composition of the four |
| `ArithmeticLemmas` | | lemmas about `%`, `\div`, C's division and products |
| `ClusterProofs`, `ClusterStepProofs`, `SeqlockProofs`, `TelemRingProofs`, `PulseProofs`, `ExchangeProofs`, `NodeProofs` | | theorems |
| `MCCluster`, `MCTimedCluster`, `MCSeqlock`, `MCPulseEngine`, `MCSyncExchange` | | instances for TLC |

Definitions whose comment begins with *Mutant* are wrong variants of the
definition after them. They are used by no specification; putting one in the
place of its original must make the named property fail (section 3).

### Election, StateMachine, Cluster

A node's `sm_t`, with its `election_t` and the leader address kept in
`net_io_t`, is one record (fields listed at the head of `StateMachine`). Each
handler is an operator from a record to the record, or the set of records, it
may leave. `Cluster` keeps the record of every node (`sm`), the nodes whose
process runs (`up`) and the packets in flight (`net`). Its actions are

* `MainTick(n)`: the 50 ms timer: `sm_tick`, then the command poll. Both belong
  to one handler, so they are one step. Any enabled command may arrive;
* `Heartbeat(n)`: the ANNOUNCE of a LEADER, one packet for each other host;
* `Receive(p)`: either socket; the packet may stay in flight, which makes
  duplicates;
* `Lose(p)`, `Crash(n)`, `Start(n)`: the segment, a death of the process, and
  systemd.

Abstractions:

* *Time.* Deadlines are counters of ticks. `Cluster` lets a node's ticks come at
  any time relative to the other nodes, so its safety results hold for any drift
  and any delay. In `TimedCluster` one tick is one heartbeat period of 100 ms
  (two real ticks): the durations that matter to an election are multiples of it.
* *The SYNC exchange.* Timestamps are left out. What is kept is whose samples the
  filter and controller hold, and whether a request is outstanding. When a
  FOLLOWER sends, how long it waits and whether `sendto` succeeds is left open:
  at any tick the outstanding request may stay, expire or be replaced.
* *A node's sample* may or may not cause a step, which empties the window.
* *Calibration* fails or succeeds. Its duration, up to 2.5 s inside a handler, is
  not modelled; it looks like late packets to `Cluster`.
* *The command page* is a choice of command at each tick; losing or superseding a
  command is a choice of NONE. `CmdChannel` has the page itself.
* `main` reads the clock once for each batch of epoll events; the batch is
  modelled as separate steps at unconstrained times, which includes it.
* A packet with a bad CRC is a lost packet. Link loss is loss of packets; the
  recovery of the multicast membership is `LinkMonitor`'s subject.
* A node does not receive its own multicast (loopback is off in `net_io.c`).

### TimedCluster

Every step is a step of `Cluster` or `Advance`. In a period each running process
takes one tick and each leader sends one ANNOUNCE, in any order; packets arrive
in the period they were sent in or are lost. Losses and crashes are bounded by
`MaxFaults`, and after them the system must converge. SYNC packets are left out
(`TimedTick`): no timeout and no ANNOUNCE handler reads what they change.

### TelemRing and TelemQueue

Each read and each store that another thread can see is a step. A record is two
halves that carry the number of the emit call, so a torn record shows. The
acquire and release operations of `telemetry_udp.c` order the slot accesses they
guard, hence interleaving of steps is enough. `TelemQueue` is a bounded queue
that refuses a record only when at most one place is free: the tolerance of one
is the record that the socket has taken and whose slot is not yet released.
The refinement mapping (`Queue`) takes the slots between the indices, without
the one in that position.

### Seqlock

One writer, readers with the retry loop of `vclock_now`, `snap` and
`drs_sync_inspect`, and the agent, which copies the page and then compares the
sequence number of the copy with itself. `continue` in a C `do ... while` goes to
the loop test, and so it does in `ReaderLoad`. `Preempting` are the readers on
the writer's core with a higher priority: while one of them is in its loop the
writer does not run (`WriterRuns`). `vclock_now`, `vclock_local_for_global` and
`snap` return with two fields or more; two halves are enough to show a tear.
`telemetry_init`, which clears the page and `seq` when a daemon starts under readers
that are attached already, is not modelled (section 5).
Memory is sequentially consistent. This is exact for the pulse thread, which is
on the writer's core. On other cores the ARM allows more reads to tear than the
model shows, so `ReadFresh` is a statement about the algorithm, not about ARM.

### VClock and PulseEngine

`VClock` has the functions of `vclock.c` as operators on the record of a clock,
with C's two roundings: `>> 32` rounds down, `/` towards zero. `One` stands for
2^32. `PulseEngine` runs them: raw time `t` advances by `Pass`; the pulse thread
polls its two timers (`Poll`), spins to its target and raises the pin (`Rise`),
lowers it and computes the next target (`Fall`); the main thread calibrates and
arms (`CalibrationBegins`, `CalibrationEnds`), handles SYNC_RESPs in the two
or three steps between which it can be preempted (`SyncResp`, `StepOffset`,
`SetRate`), recalibrates and closes. `poll` reports both timers at once and the
thread acts on that report, which `thread.low` keeps.

The write sections are atomic here and reads are intact: that is `Seqlock`'s
subject. The spinning that `WriterNeverBlocked` shows is left out. The handler of
a SYNC_RESP takes no time of its own, only the time for which the pulse thread
has the core. `aim`, `risen` and `touched` only observe: the second aimed at, the
time of the last rise, what was done to the clock since the target was computed.
`writes` counts the SYNC_RESPs and recalibrations since then, and `MaxWrites` is how
many fit between two pulses: `sm_tick` asks for the next SYNC_RESP no sooner than
`DRS_SYNC_EXCHANGE_NS` (50 ms) after the last update.

### Discipline and SyncExchange

`Discipline` has the filter's window as the sequence of its RTTs and the
controller with every product wrapped to `Int64` values and C's division.
`SyncExchange` puts them between a FOLLOWER and its leader. Its actions are the
tick of a FOLLOWER (`Tick`: give up the outstanding request, then send the next
one when the rate gate lets it), the tick in HOLDOVER and the silence before it
(`IdleTick`), the leader's return, the commands that reset the discipline, and the
receipt of a packet on either side. Timestamps are ages in ticks of 50 ms: a
packet remembers when its request was sent, but the code does not look at that and
neither does `sm_on_sync_resp` here, which takes `t1` of the newest request. The
offset between the two clocks is a variable that only a step changes; what a slew
gains in a tick is below the unit. The rate the controller answers is kept as its
distance from nominal.

### Node and its parts

`Node` is the host around the protocol. `NodeTick` is a tick as far as the command
poll: report to the health pin, link monitor; `NodePoll` is the poll in the two
loads that `cmd_poll` makes; `NodePush` and `NodeStore` are an `errors_push`, whose
stores appear in any order. The agent writes commands and copies the error page
word by word; the cable is pulled and plugged in; the daemon ends by SIGTERM, which
runs `gpio_close`, or anywhere by a crash, and starts again with the pages as they
are. A start is two steps and the stores between them: `NodeStart` begins
`errors_init`, whose clearing of `head` and of the slots the agent sees word by word
(`ClearStore`) and a kill can end anywhere; `NodeUp` is the rest of `main` before its
loop (`cmd_init`, `gpio_init`, `net_io_init`). Whether the state machine reports HOLDOVER, a small or a large offset, and
when it pushes an error, is left open: `Cluster` and `SyncExchange` say where these
come from, and the parts joined here react to any order of them. `ran`, `overlap`,
`checked`, `excuse`, `since_bad` and `faulted` only observe. `since_bad` counts good
ticks and is 0 after a start. `overlap` counts the pushes that a copy overlaps, and
stands for all slots when the copy overlaps an `errors_init` or begins on a page that
one has left half cleared.

## 3. Model checking

Deadlock is checked in all runs but those of `telem_ring` and `PulseEngine`,
whose threads end after `Close`. Every property of a passing run has a mutant in
`PROJECT.json`: a plausible bug in a mapped definition that makes TLC report the
property.

| run | instance | properties | result |
|---|---|---|---|
| `cluster_safety` | 3 nodes, the second locked as leader, `FORCE_DEMOTE`, terms <= 2, 2 packets in flight | `TypeOK`, `NoTimingLoop`, `LeaderIsSelfConfident`, `PulseWhenOperational`, `CalibratedBeforeFollower`, `TermNeverDecreases`, `LowestLeaderStays`, `ResetOnReacquire`, `LockedLeaderYields` | hold; 0.9 M states |
| `cluster_reset` | 3 nodes, AUTO, no commands | `ResetOnLeaderChange` | violated |
| `timed_failover` | 3 nodes, 1 fault | `EventuallyLowestLeads` | holds; 0.2 M states |
| `timed_orphan` | 3 nodes, 2 faults | `EventuallyNoOrphan` | violated |
| `telem_ring` | 3 slots, 7 calls | `RingTypeOK`, `RingBound`, `SentIntact`, `ImplementsQueue`, `RecordsLeave` | hold; 42 k states |
| `seqlock_readers` | pulse, monitor, agent, 2 sections | `LockTypeOK`, `PulseReadIntact`, `TornOnlyOdd`, `ReadFresh` | hold; 0.5 M states |
| `seqlock_priority` | pulse thread, 3 sections | `WriterNeverBlocked` | violated |
| `pulse` | first two pulses, 2 SYNC_RESPs or recalibrations before each | `PulseTypeOK`, `NextEdgeNear`, `PulseOnSecond`, `SlewedOnSecond`, `EverySecondOnce`, `PulseWidth`, `RateChangeBounded` | hold; 7.7 M states |
| `pulse_rate` | as `pulse` | `RateChangeContinuous` | violated |
| `sync_exchange` | offset -4 ticks, packets live 2 ticks, 2 in flight, 1 silence or reset | `ExchangeTypeOK`, `StepLandsClose`, `StormSpaced`, `RateTowardsLeader`, `EventuallyClose`, `SamplesKeepComing` | hold; 62 k states |
| `node` | 2 commands, 2 slots, 3 errors, a window of 1 tick, 4 events | `NodeTypeOK`, `RunsOnce`, `PinWhileUp`, `ErrorsReadBack`, `HearsAfterCheck`, `LatestRuns` | hold; 1.2 M states |
| `node_pin` | `Node` with 3 commands, checks every 2 ticks | `LowOnlyAfterWindow` | violated |

Further configurations, kept for whoever changes the code or a property. All but the
first end with a counterexample:

| configuration | module | instance | property |
|---|---|---|---|
| `MCCluster_commands.cfg` | `MCCluster` | 2 nodes, all 7 commands, terms <= 3 | `NoTimingLoop`, `LeaderIsSelfConfident`, `ResetOnReacquire`, `LockedLeaderYields`; hold, 0.7 M states |
| `MCCluster_guard.cfg` | `MCCluster` | 2 nodes, `FORCE_HOLDOVER` | `CalibratedBeforeFollower` |
| `MCCluster_unarmed.cfg` | `MCCluster` | 2 nodes, `FORCE_LEADER` | `PulseWhenOperational` |
| `MCCluster_term.cfg` | `MCCluster` | 2 nodes, `FORCE_LEADER`, terms <= 3 | `TermNeverDecreases` |
| `MCSeqlock_monitor.cfg` | `MCSeqlock` | monitor, 2 sections | `ReadersIntact` |
| `MCSeqlock_agent.cfg` | `MCSeqlock` | agent, 2 sections | `AgentReadIntact` |
| `MCSyncExchange_period.cfg` | `MCSyncExchange` | clocks that agree | `ZeroErrorNominal` |
| `MCSyncExchange_product.cfg` | `MCSyncExchange` | offset -2 ticks, a gain whose product wraps there | `FarRateTowardsLeader` |
| `Node_rejoin.cfg` | `Node` | checks every 2 ticks, 3 events | `Rejoins` |

### Bounds

* `MaxTerm`, `MaxNet`: terms are only compared and incremented, so three values
  (below, equal, above) matter; two packets in flight let a late packet overtake
  a new one. A heartbeat sends its packets all or none, so with three nodes and
  `MaxNet = 2` the full multicasts of two leaders are never in flight together; a
  packet of each is, once one of the first has arrived or is lost. The theorems hold
  for every `MaxNet`. Terms stop growing at the
  bound by leaving out the promotions that exceed it.
* `BootLock`, `Enabled`: in `cluster_safety` the second node starts with the argument
  `leader`, between two AUTO nodes, and leaders are told to step down. The commands
  that change locks exceed what TLC can explore with three nodes, and `FORCE_HOLDOVER`
  and `FORCE_LEADER` break three of the properties. The theorems about the other six
  hold with all seven commands and any locks, and `MCCluster_commands.cfg` checks four
  of those on two nodes; the follower lock is met there only.
* `TermBoost = 1` in `cluster_safety`: a locked leader outbids a node that has not been
  promoted, and is outbid by one that was promoted after adopting its term. It is 2,
  above any term but its own, in the configurations of two nodes.
* `GroundTicks = 0`, `HoldoverTicks = 0`, `ElectionTicks = {0}`: a node's ticks come at any
  time, so one tick is as long a wait as any. `FollowerTicks = 2` leaves a FOLLOWER the
  tick at which it sends a request.
* `TimedCluster`: the timeouts keep the order of the real ones (an election
  timeout of 3 to 5 periods, FOLLOWER silence 3, HOLDOVER 6).
* `RingSize = 3`, `MaxEmits = 7`: the ring wraps twice and is full in between.
* `MaxWrites = 2`: a read that spans the end of one section and the start of the
  next one.
* `PulseEngine`: a second is 22 units, rates go up to 1/32 from nominal, a pulse is
  3 units and the margin 8. The margin is large because one unit, the least latency
  correction, is a large part of so short a second. What matters is `Tuned`, which
  `MCPulseEngine` assumes of the instance and section 4 explains: with a margin of 1
  the corrections of two SYNC_RESPs make the pulse repeat a second. The time of 39
  units lets the second pulse fall when the clock was stepped forth before the first.
* `SyncExchange`: a packet lives for two ticks and a request times out after two, so
  an answer may miss its request and meet the next one. `Window = 2` and
  `StepConfirm = 2` are the least that fill and that need a second sample.
  `Int64 = 12` (14 in `MCSyncExchange_product.cfg`, where `Offsets` is a distance at which only the
  proportional term wraps) and the small gains make the same products overflow that overflow
  in the code, at an error of a few ticks and at a gap of `MaxGap`. `MaxUpsets`
  bounds what operators and leaders do to the exchange; losses, duplicates and
  failing `sendto` are not bounded.
* `Node`: `MaxEvents` bounds errors, commands, copies, changes of the carrier, bad
  ticks and ends of the daemon together, since these parts share a thread and
  little else: four let a command arrive while another one is polled and the
  daemon crash before or after, three pushes pass the ring of two slots under a
  reader, a kill in a push or in `errors_init` be followed by a restart and a copy,
  and the carrier go, come and go between two checks. `StableWindow = 1` is
  the least at which one good tick is not enough. Good ticks are not bounded.

### Fairness

* `TimedSpec` has weak fairness of the whole next-state relation: time passes and
  the loop runs. Nothing is assumed of a particular step; the order of the period
  follows from `Advance`.
* `RingSpec` has weak fairness of the sender, which sleeps and polls and shares
  its core with a main thread that sleeps too, and strong fairness of
  `SenderSend`: a socket buffer that is polled again and again is not full
  each time, because the kernel drains it.
* `LockSpec` has weak fairness of each reader's loop and strong fairness of the
  writer, which is the most the scheduler can give: the writer runs if the core
  is free again and again. `WriterNeverBlocked` fails even so.
* `ExchangeSpec` has weak fairness of the ticks and of the leader's return, and
  strong fairness of two receipts: a request that reaches the leader while it is
  outstanding, and an answer to an outstanding request. A segment that loses or
  delays each of them for ever is a cut cable, which the code answers with
  HOLDOVER. Nothing is assumed of what the filter accepts.
* `NodeSpec` has weak fairness of the main thread's steps: its timer fires and the
  stores of a push become visible. Nothing is assumed of agent, cable or systemd.

### What the violated properties show

The first five are runs; the others are those of the further configurations.

* `ResetOnLeaderChange`. `election_on_announce` stores the new leader before
  `enter_follower` compares it with the packet's. `leader_changed` is therefore
  false on that path, and a FOLLOWER that goes over to another leader keeps the
  old one's samples and the outstanding request. Coming from LEADER or HOLDOVER
  the caller resets explicitly: `ResetOnReacquire` holds.
* `EventuallyNoOrphan`. A FOLLOWER refreshes its deadline on every ANNOUNCE. Node
  3, which is still listening, misses an ANNOUNCE, times out and leads; node 1, the leader, dies; node 2 is
  kept out of HOLDOVER by node 3, which it will not follow because its ID is
  higher and its term the same. It sends its requests to the dead host for ever.
  With `Restarts = TRUE` one crash and restart of a leader among three nodes has
  the same end; two nodes converge in spite of crashes, restarts and loss.
* `WriterNeverBlocked`. The pulse thread preempts the writer inside a section and
  spins on an odd `seq` on the core that the writer needs.
* `RateChangeContinuous`. The latch stores a reading from which the latency correction
  has been taken already, and the next reading takes it again: each SYNC_RESP sets
  the clock back by it, about 4 us up to twenty times in a second. `vclock.h:43`
  promises no discontinuity, `20_architecture.typ:69` a smooth, monotonic clock.
* `LowOnlyAfterWindow`. `gpio_init` drives the health pin LOW. A daemon that showed a
  fault, was killed and starts again shows convergence at once; requirement F-7
  (`10_requirements.typ:37`) wants ten good seconds before it, F-18 (line 47) LOW to
  mean converged.
* `ZeroErrorNominal`. The time since the last update enters the limit of the
  integrator as a factor, and the product leaves `int64_t` when it exceeds about
  140 s. It is then negative for half of the times: from 140 s to 281 s, from 422 s to
  563 s, and so on. For those the limits change places and `clamp64` returns the far
  one, whatever the integrator: the first sample of a daemon that starts so long after
  the host, and of a node that has led for so long, sets the rate to its limit.
* `FarRateTowardsLeader`. The proportional term leaves `int64_t` for errors beyond
  1.4 s and has the wrong sign for half of those. Until a step is confirmed the clock
  is slewed away from the leader's (`20_architecture.typ:184` says that the products
  avoid overflow).
* `Rejoins`. The carrier is polled: one that goes and comes back between two polls takes
  the membership with it and no poll notices. Requirement F-22
  (`10_requirements.typ:51`) wants it back after a reconnect. A rejoin that fails is
  not tried again either, nor is the join at start-up.
* `CalibratedBeforeFollower` and `PulseWhenOperational`, with a command. `FORCE_HOLDOVER`
  and `FORCE_LEADER` are obeyed in GROUND and CALIBRATION. The first leads through
  HOLDOVER to FOLLOWER without a calibration (`20_architecture.typ:173`), the second to
  a LEADER whose pulse nobody arms
  (`architecture/3_drs_architecture_reviewed_fixed_v_21.md:199`). Without these commands
  both hold (`cluster_safety`, section 4).
* `TermNeverDecreases`, with `FORCE_LEADER`. Node 2 adopts the boosted term of node 1, is
  promoted beyond it, and gets `FORCE_LEADER`: `election_promote` of a locked leader
  writes the boost over the higher term (`election.c:98`, `20_architecture.typ:93`).
  Without the command it holds.
* `ReadersIntact`. A round of the retry loop that ended with an odd `s2`, followed by
  one that finds the same odd `s1`, leaves the loop with a torn result on another
  core: `continue` goes to the test of the `do ... while`, which compares the two.
  `vclock.h:12`, `20_architecture.typ:75` and `30_implementation.typ:42` promise a
  consistent read.
* `AgentReadIntact`. `decode_telemetry` compares the sequence number of a copy with
  itself (`agent.py:180`), so a copy that an update overlapped is taken for intact.

Some passing properties are weaker than what the documents say, because the code
is:

* `TornOnlyOdd` says that the way of `ReadersIntact` is the only one; it does not cover
  the agent.
* `RateChangeBounded` says that a change of the rate sets the clock back by the
  latency correction at most and never forth, apart from rounding and from what the two
  rates part (`Slew`) when the pulse thread takes the core for one busy wait between
  `t_now` and the write.
* `RateTowardsLeader` excepts the two overflows of `pi_ctrl_update`, which
  `FarRateTowardsLeader` and `ZeroErrorNominal` show.
* `PinWhileUp` lets the pin be LOW from the start to the first bad tick, which
  `LowOnlyAfterWindow` shows. It says nothing of a daemon that is down, with the pin
  LOW after `gpio_close` and as it was after a crash. It takes an offset that has not
  been measured for a small one, as the code does.
* `HearsAfterCheck` excuses a flap between two checks, which `Rejoins` shows, and a join
  that failed.
* `LockedLeaderYields`. A locked leader in LISTEN or CANDIDATE follows a lower ID of
  the same term: the second test in `sm_on_announce` does not know the lock
  (`election.c:60`, `20_architecture.typ:147`), and one in HOLDOVER goes back to the
  leader it had. One that leads never yields.
* `StepLandsClose`. `sm_on_sync_resp` does not compare the echoed sequence number or
  `t1`, so an answer to a request that was given up is measured against the next
  one. The error it leaves is bounded by how long a packet can be under way. Whether a
  step was called for is not its subject.
* `RunsOnce`. A command that is written between the two loads of `cmd_poll` is
  carried out under the number of the one before it, which is lost, and again 50 ms
  later.
* `ErrorsReadBack`. `errors.h` says that a push is atomic; to the agent it is not, and
  neither is `errors_init`, so an entry per overlapping push, and any entry of a copy
  that overlaps a start, may be garbled.

Reading the code for `SyncExchange` and `Node` showed what no property is about:
the rate gate compares the time since the last *update* with 50 ms at ticks 50 ms
apart, so that a request goes out at every second tick; a failing `sendto` is not
counted as a failed request and pushes an error at every tick; the anti-windup
limit is far above the rate's own limit, which is what acts; an error pushed before
`errors_init` in `main` is dropped.

## 4. Proofs

| theorem | module | statement |
|---|---|---|
| `Invariance` | `ClusterProofs` | `Spec => []IndInv` |
| `TypeCorrect` | `ClusterProofs` | `Spec => []TypeOK` |
| `TimingLoopFree` | `ClusterProofs` | `Spec => []NoTimingLoop` |
| `LeaderSelfConfident` | `ClusterProofs` | `Spec => []LeaderIsSelfConfident` |
| `LowestStays` | `ClusterStepProofs` | `Spec => LowestLeaderStays` |
| `ReacquireResets` | `ClusterStepProofs` | `Spec => ResetOnReacquire` |
| `LockYieldsOnlyThen` | `ClusterStepProofs` | `Spec => LockedLeaderYields` |
| `TermsNeverDecrease` | `ClusterStepProofs` | `Spec => TermNeverDecreases`, without `FORCE_LEADER` |
| `OperationalPulses` | `ClusterStepProofs` | `Spec => []PulseWhenOperational`, without `FORCE_LEADER` and `FORCE_HOLDOVER` |
| `FollowersCalibrated` | `ClusterStepProofs` | `Spec => []CalibratedBeforeFollower`, without the same two |
| `TimedImplements` | `ClusterStepProofs` | `TimedSpec => Spec` |
| `LockTypeCorrect` | `SeqlockProofs` | `LockSpec => []LockTypeOK` |
| `PulseNeverTorn` | `SeqlockProofs` | `LockSpec => []PulseReadIntact` |
| `TornReadsAreOdd` | `SeqlockProofs` | `LockSpec => []TornOnlyOdd` |
| `ReadsAreFresh` | `SeqlockProofs` | `LockSpec => []ReadFresh` |
| `RingTypeCorrect` | `TelemRingProofs` | `RingSpec => []RingTypeOK` |
| `RingNeverOverrun` | `TelemRingProofs` | `RingSpec => []RingBound` |
| `RecordsNeverTorn` | `TelemRingProofs` | `RingSpec => []SentIntact` |
| `RingImplementsQueue` | `TelemRingProofs` | `RingSpec => ImplementsQueue` |
| `PulseTypeCorrect` | `PulseProofs` | `PulseSpec => []PulseTypeOK` |
| `PulsesKeepLength` | `PulseProofs` | `PulseSpec => PulseWidth` |
| `PulseNeverStops` | `PulseProofs` | `PulseSpec => []EdgeDue` |
| `PulseNeverRunsAway` | `PulseProofs` | `PulseSpec => [](EdgeDue /\ Near(Further))` |
| `PulsesOnSeconds` | `PulseProofs` | `PulseSpec => PulseOnSecond` |
| `RateChangesBounded` | `PulseProofs` | `PulseSpec => RateChangeBounded` |
| `NextEdgeIsNear` | `PulseProofs` | `PulseSpec => []NextEdgeNear`, if `Tuned` |
| `EverySecondHasOnePulse` | `PulseProofs` | `PulseSpec => EverySecondOnce`, if `Tuned` |
| `SlewedPulsesOnSeconds` | `PulseProofs` | `PulseSpec => SlewedOnSecond`, if `Tuned` |
| `ExchangeTypeCorrect` | `ExchangeProofs` | `ExchangeSpec => []ExchangeTypeOK` |
| `StepsLandClose` | `ExchangeProofs` | `ExchangeSpec => StepLandsClose` |
| `StormsSpaced` | `ExchangeProofs` | `ExchangeSpec => StormSpaced`, if `ReqTimeout >= StormRate` |
| `FirstRateTowardsLeader` | `ExchangeProofs` | `ExchangeSpec => RateTowardsLeader`, if the products of the band fit |
| `NeverRepeated` | `NodeProofs` | `NodeSpec => []RunsOnce` |
| `PinIsTrue` | `NodeProofs` | `NodeSpec => []PinWhileUp` |
| `NoDeafCheck` | `NodeProofs` | `NodeSpec => HearsAfterCheck` |
| `AgentReadsBack` | `NodeProofs` | `NodeSpec => []ErrorsReadBack` |
| `NodeTypeCorrect` | `NodeProofs` | `NodeSpec => []NodeTypeOK` |

All theorems hold for every value of the constants that the named ASSUMEs of the
modules admit: these give the constants their types, make sizes, widths and gains
positive, `TermBoost` positive, the set of timeouts non-empty, keep the rates
within 0 and twice the nominal one (the code clamps them to 1000 ppm), and give the
latency corrections a largest one (`calibrate.c` drops a sample after 50 ms). Where a
theorem needs more it says so, and the reason is below. The bounds of the runs
(`MaxTerm`, `MaxEmits`, `MaxTime`, ...) are arbitrary in all of them; so is `MaxWrites`
of `PulseEngine`, which is no bound of the exploration, but for `Tuned`.

*Cluster.* `NoTimingLoop` is not inductive: whether a node may follow the sender
of an ANNOUNCE depends on the leader it knows already, and whether a SYNC_RESP
comes from a lower node depends on packets sent earlier. `IndInv` adds that

* in every state, not only in FOLLOWER, the known leader's ID is at most the
  node's own (`Sound`). HOLDOVER needs this: it accepts an ANNOUNCE of the leader
  it knows without comparing IDs;
* an ANNOUNCE in flight never goes to its own sender, a SYNC_REQ goes to a lower
  node than its sender, a SYNC_RESP comes from a lower node (`SoundPacket`).

One lemma per handler shows that it leaves a `Sound` record; one per action of
`Next` lifts this to all nodes and packets. In particular the unchecked sender
of a SYNC_RESP, although it lets samples of a former leader in, cannot build a
loop of clocks.

`ClusterStepProofs` does the same for what a step may not do. For each handler a
lemma says what it keeps of a node's record: `NoFollower` (no tick and no command
makes a FOLLOWER, so that the theorems about becoming one are about ANNOUNCEs),
`TermKept`, `ReadyKept`. Two invariants come with them: a node locked as leader has
the boosted term (`Boosted`), without which the next promotion could take a term
back; and an active node is armed and calibrated (`Ready`), where the two properties
speak of being armed and of FOLLOWERs only. The commands are excluded where they
break the property: `FORCE_LEADER` writes the boosted term over a higher one, and it
and `FORCE_HOLDOVER` take a node out of GROUND without a calibration (section 3).
`TimedImplements` carries all of this over to `TimedCluster`.

*Seqlock.* `LockInv` says that `seq` is odd exactly inside a section, that the
halves agree outside one and in which order they are written (`WriterInv`), and what
a reader knows at each step. For a preempting reader the decisive conjunct is that
its `s2` is always even: between its first load and its check the writer stands still,
so it can only leave the loop after an even round. This is what readers on other
cores do not have. For them the invariant relates `s1` to the present `seq`: as long
as both are equal and even, the halves loaded so far are those of the data; and if
they differ, `s2` will. `ReadFresh` needs that the data are never older than the number of
finished sections, which is what `since` was taken from. Number and kind of
readers are arbitrary.

*Telemetry ring.* `RingBound` and `SentIntact` need each other: the sender copies a
whole record because no emit call writes its slot, and no call does because the
write index is less than a ring's length ahead. `RingInv` adds what either thread has
stored or copied so far and that the records between the indices are whole. That two
positions less than `RingSize` apart have different slots is `SlotsDistinct` of
`ArithmeticLemmas`. For the refinement each action is shown to be a step of
`TelemQueue` or to leave the mapped queue alone: publishing appends, the successful
`sendto` removes, a refused emit finds at most one place free.

*Pulse engine.* Four layers.

* `EdgeInv`: of the two timers exactly one is armed while the thread sleeps, and the
  pin tells which; hence `poll` never reports both. `PulseWidth` and `EdgeDue`
  follow, whatever happens to the clock.
* `TimeInv`: the thread is late by no more than its latency, and the target is the
  inverse of the second aimed at as long as nobody has touched the clock. With
  `NowInverts` (the reading at the inverse of a second misses it by the two roundings
  only) this gives `PulseOnSecond`.
* `SpinInv`: while a SYNC_RESP is in hand time passes only in one busy wait. So the
  write comes at most `BusyWait + Latency` after `t_now`, from which `Slew` in
  `RateChangeBounded` is computed. `LatInv` adds that no latency correction is
  negative, without which the reading could go forth.

* `CourseInv`: the reading at the target, predicted with the slowest rate and with the
  fastest one, stays within `Drift` and `Slack` of the second aimed at (`OnCourse`). It
  is stated in steps of 1/`One`, before `vclock_now` rounds, and for a SYNC_RESP in
  hand at its `t_now`, where the clock is going to be latched. `Drift` is what two rates
  part from one target to the next; `Slack` grows by `Setback`, the largest latency
  correction and one unit of rounding, with every write. A clock that was stepped only
  stays above zero by as much (`AboveZero`): a step goes to a leader's clock, which
  started at zero as well. TLC has checked `CourseInv` on the instance of the run `pulse`.

When the pulse falls, its length has made up for the drift: the reading is less than
the margin before the second aimed at, or past it, and more than the margin before the
next, so that `next_rise_raw` finds exactly the next (`FallOnCourse`, `SecondAfter`).
When it rises, the reading is near the second (`SlewedOnSecond`). `Tuned` is what this
takes:

* drift, setbacks and one step of the raw clock are at most the margin and the length
  of a pulse. In the code: 2.0 ms of drift (rates 2000 ppm apart for a second) and the
  setbacks, against 11 ms;
* they and the length of a pulse are less than a second without the margin;
* `(MaxWrites + 2) * (MaxLat + 1)` is at most the margin. This one binds: with 24
  writes in a second (20 SYNC_RESPs and a few recalibrations) it holds for latency
  corrections up to 38 us. Half the round trip of the loopback is a few microseconds,
  but `calibrate.c` accepts any, up to 25 ms; and every SYNC_RESP sets the clock back by
  it (`RateChangeContinuous`).

With these values `Miss` is about 2.1 ms for corrections of a few microseconds.

`NextEdgeNear` also bounds how far ahead the next rise is, by a second of the slowest
clock. This is not true of every clock: C's division truncates, so on a clock that
shows less than minus the margin `next_rise_raw` finds the second after the next.
`PulseNeverRunsAway` has the bound that holds of all clocks and all constants, two
seconds. For one second no clock may be armed that is behind (`NotBehind`), and that
follows from `Tuned` and `CourseInv`.

*Exchange.* `ExchangeInv` types packets and controller and knows that an outstanding
request is younger than its timeout and that a tick has passed since the last update,
so that the controller never sees the period 0.

* `StepLandsClose` needs `AgeInv`: no packet is younger than the request sent last.
  The answer a step is taken from is therefore at least as old as the `t1` it is paired
  with, and neither leaves more than the life of a packet.
* `StormSpaced` needs `StormInv`: a request that timed out and was not repeated yet is
  `StormRate` old. It rests on `ReqTimeout >= StormRate`, two separate constants of
  `drs_sync_config.h` (lines 51 and 108) that are equal; a shorter timeout would make
  retries faster than the storm rate, because the gate of `sm_tick` does not hold
  them back. The module assumes `StormRate >= ReqTimeout`, so the theorem is about
  equal ones.
* `RateTowardsLeader` rests on the sign of every division and clamp on the way
  (`FirstRate`). Its hypothesis is that gain, threshold and 10^6 multiply to less than
  2^63; in the code they make 6.6 * 10^15.

*Node.*

* `RunsOnce` needs to know what has run already when a number is taken. `CmdInv`
  says that a command newer than `g_last_seq` has run at most once, and then in the
  place of an older one that never runs; and that between the two loads of a poll
  nothing newer than the number taken has run. The second poll of the same command
  finds this and may raise the count to two, with the lost one as its witness.
* `PinWhileUp` needs `HealthInv`: `stable_for`, which the code counts from the first
  good tick, is one tick behind the number of good ticks until the window is over.
  The LOW of a start is covered by `faulted` only: before the first bad tick the
  property asks nothing of a LOW pin.
* `HearsAfterCheck`, an action property, follows from `LinkInv`: a node that has a
  carrier, whose last check saw one too, is joined or has an excuse, and a check that
  saw the carrier gone is still remembered.
* `ErrorsReadBack`: the page is in one of two conditions (`PageInvariant`). After an
  `errors_init` that has ended, `PageInv` says which error each slot holds, counted
  backwards from the newest, also in the middle of a push or after a kill there. While
  one is under way, or after a kill there, `ClearingInv` says only that the words it has
  reached are 0; when the last is, this is the empty page of the first condition
  (`PageClearStore`). `CopyInv` says of the copy that it is the page as it stood, but for
  one slot per overlapping push, and for all slots if the copy overlapped an
  `errors_init` or began on a page that was not cleared to the end. So the slots
  are right (`CopyReadBack`), and the loop of `get_errors`, which looks at no slot
  twice (`LooksOnce`), returns what they hold. Its list is a function of the pass that
  appended the entry, and the count of garbled entries follows by the pigeonhole
  principle, so no induction over the list is needed.

Every invariant and every action property of a passing run is a theorem; those about
terms, pulse and calibration without the commands that break them. Only
model-checked:

* liveness: `EventuallyLowestLeads`, `RecordsLeave`, `EventuallyClose`,
  `SamplesKeepComing`, `LatestRuns`. Fairness is beyond the prover;
* the violated properties, by their nature.

## 5. Not modelled

* Wire format and CRC (`proto_v2.c`, `crc32.c`): a deterministic encoding of fixed
  fields, which the unit tests cover in both directions; a packet that fails the
  check is a lost packet. GPIO registers: pure I/O; the levels that `gpio_init` and
  `gpio_close` leave on the health pin are in `HealthPin`.
* Time inside a handler. A calibration called from a handler blocks the main loop for
  up to 2.5 s; to the other nodes this looks like late packets, which `Cluster` has,
  but the followers' timeouts in `TimedCluster` do not meet it.
* Failures of the start-up that end the process: systemd starts it again. Results
  that start-up ignores are modelled (the join of the group).
* `telemetry_init` under attached readers: a daemon that starts again clears the page
  and sets `seq` to 0, and a reader that loads 0 before and after takes a page that is
  half cleared for intact. `Seqlock` has one life of the daemon.
* The branch of `sm_on_sync_resp` for a discontinuity of the leader's sequence number
  (`statemachine.c:371-375`), which resets the filter. The number is an echo of the
  FOLLOWER's own, which only a leader's heartbeat increments: it is constant while a
  node follows, and the branch can be taken by an answer from before a stint of
  leading that arrives after it. `SyncExchange` has a node that follows or is in
  HOLDOVER throughout.
* Statistics of the calibration, the display of the monitors, logging.
* HTTP routes, peer scan and Wi-Fi handling of the agent: I/O around other programs.
* Functions without a caller in the daemon: `cmd_send`, `errors_drain`,
  `min_delay_min`.
* Weak memory: see `Seqlock` above. In `ErrorRing`, where nothing orders the stores
  of a push or the loads of a copy, they are taken in any order.

## 6. Plan

The safety properties are proved. What could follow is a model of the time that a
calibration inside a handler takes (section 5), and a proof that the constants of
`Tuned` follow from a bound on the latency correction in `calibrate.c`, if the code
gets one. A restart of the daemon in `Seqlock` would bring `telemetry_init` in.

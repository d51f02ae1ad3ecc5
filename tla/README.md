# TLA+ models of the WebRTC paced sender

The repository snapshot has four source files. Only one has behaviour worth
model checking: `src/trunk/webrtc/modules/pacing/paced_sender.cc`, the
**paced sender**. It sits between the RTP packetizer and the transport, and
spreads bursts of media packets to a target rate. This project models it.

## 1. Inventory

### Components of `paced_sender.cc`

| Component | State | Operations |
|---|---|---|
| `PacketList` (lines 54-86) | `packet_list_` (FIFO of `Packet`), `sequence_number_set_` | `push_back` (drops a sequence number already present), `front`, `pop_front` (erases the set entry), `empty` |
| `IntervalBudget` (88-119) | `target_rate_kbps_`, `bytes_remaining_` | `IncreaseBudget` (resets to the new allowance if not in debt, else pays the debt down), `UseBudget` (debit, floored at -100 ms of the rate), `set_target_rate_kbps` |
| `PacedSender` control (122-228) | `enabled_`, `paused_`, three budgets (media at `pace_multiplier * target`, padding at 800 kbps, pad-up-to), `time_last_update_`, `time_last_send_`, three lists, capture-time watermarks | constructor, `Pause`, `Resume`, `SetStatus`, `UpdateBitrate`, `SendPacket` (bypass when disabled; queue everything when paused, low into the normal list; fast path when its list is empty and budget is left; otherwise queue) |
| `Process` tick loop (265-374) | the same | refill by `min(30, elapsed)`, then `GetNextPacket` until it returns false (high, normal, low when budget > 0; high, normal when no send for > 30 ms), then padding when all lists are empty |
| Queries (230-263) | none | `QueueInMs`, `TimeUntilNextProcess`, `Enabled`: read-only |

### Components of `basicpacketsocketfactory.cc`

| Component | State | Operations |
|---|---|---|
| `BasicPacketSocketFactory` (44-219) | `thread_` or `socket_factory_`, the source of raw sockets | `CreateUdpSocket`, `CreateServerTcpSocket`, `CreateClientTcpSocket` (create a socket, bind it, wrap it in proxy / SSL / pseudo-SSL adapters and a packet socket, and delete on every failure), `CreateAsyncResolver`, `BindSocket` (the port scan) |

The remaining files have no behaviour: `vp8.h` is a header of declarations
and `tsan_suppressions.cc` is a string constant.

### How the parts interact

One critical section `critsect_` protects all state, so every public method
is atomic. `Process` is driven by an external thread. It is the only method
that releases the lock, around `callback_->TimeToSendPacket` and around
`callback_->TimeToSendPadding`. While the lock is released, any other
thread may call in, and so may the callback itself. The clock is
`TickTime`.

The socket factory is called on one thread, the one that owns it, and
does not share state with the pacer. Each Create* call is therefore one
atomic step. What matters is the order of its failures and the ownership
of what it allocates. The two subsystems meet only through the transport,
which is outside this snapshot, so no module composes them.

### What is hard

* Interleaving at the two unlocked callbacks. State read before a callback
  (paused, emptiness of a list, budgets) is stale after it.
* Ordering. Each list keeps FIFO order, but the fast path sends without
  looking at a packet that has been popped and is still in flight. A paused
  pacer puts low priority packets in the normal list.
* Liveness. At low or zero rate, high and normal packets leave only through
  the 30 ms starvation rule. Low priority packets wait for the debt to be
  repaid.
* Numeric edges: integer truncation in the refill, the debt floor after a
  rate change, and truncating division of a negative number.
* Partial failure in the factory: each Create* call allocates up to four
  objects, and any step (bind, SSL adapter, StartSSL, Connect) can fail
  after earlier ones succeeded.

### What makes each component correct

* PacketList: the set always matches the list. No sequence number appears
  twice in a list.
* Pacer: no budget holds more than one 30 ms refill (idle time creates
  no burst credit). No packet is sent twice, and none is lost. Queued packets are
  eventually sent (high and normal always, low when the rate is positive).
  FIFO order holds within a band. Disabled or paused pacers make no
  callbacks. A packet is dropped only if it duplicates a pending one.
* Socket factory: every path that returns NULL frees what it allocated;
  what it returns owns its whole chain of wrappers; a port range is
  scanned from its first port and only ports in the range are bound.

`PROJECT.json` lists the components and, under `hazards`, every hard-to-test
spot in the code at its line.

## 2. Plan

1. **`PacedSender.tla`** (done): the whole pacer as one module. The
   components share one lock and one set of variables, so they are not
   split into separate modules. `MCPacedSender.tla` holds the instances.
2. **`PacerAbstract.tla`** (done): the promise, one atomic step per
   operation, and its refinement by `PacedSender`.
3. **Clock** (done): 1 ms clock steps for the truncation hazard;
   `TimeUntilNextProcess` in the driver's fairness; `Stall`, a gap long
   enough to wrap the int elapsed time of `Process`.
4. **`SocketFactory.tla`** (done): the constructors, `socket_factory()`,
   the three Create* calls and the `BindSocket` port scan as a RECURSIVE
   operator.
5. **Budget shaping** (done in part): `NoIdleCredit` checks the
   non-accumulating refill in every reachable state. Still open: the
   spec's average-rate bound over windows of 1000 ms or more. The
   bounded clock cannot reach such windows.
6. Left out: capture times, `QueueInMs` and the two watermarks (see
   section 5).

## 3. The model (`PacedSender.tla`)

* State. The variables carry the C++ member names: `enabled`, `paused`,
  `media_budget`, `padding_budget`, `pad_up_to_bitrate_budget` (records
  `[target_rate_kbps, bytes_remaining]`), `packet_list` and
  `sequence_number_set` per band.
* Time. Only `now - time_last_update_` and `now - time_last_send_` are ever
  read. They are kept as `elapsed_since_update` (saturated at 30) and
  `elapsed_since_send` (saturated at 31). Saturation changes none of the
  comparisons the code makes (`min(30, .)`, `> 0`, `> 30`).
  The price is that the refill clamp `min(kMaxIntervalTimeMs, elapsed)`
  (line 271) is the identity on the model's values. It is kept in
  `ProcessTick`, but no run can tell it from a missing clamp.
  `time_last_send_` is missing from the constructor's initialiser list, so
  it starts as tick 0, far in the past.
* Wrap. `Process` stores `now - time_last_update_` in an `int`
  (line 268). `Stall` is the clock advancing by 2^31 ms or more; after it
  `elapsed_since_update` is `Wrapped` (a negative int). `Process` then
  takes the skip path and resets `time_last_update_`, while
  `TimeUntilNextProcess` (which reads the difference as int64) returns 0.
  `AdvanceClock` keeps a wrapped difference negative: it would turn
  positive only after another 2^31 ms. A gap of 2^32 ms or more truncates
  to any int, which ordinary steps reach too. `MaxStalls` bounds the gaps,
  so that fair behaviours are not made of gaps alone.
* Process is a thread with `pc` ∈ {idle, send, relock, pad}.
  `ProcessSkip` and `ProcessTick` are the locked prefix.
  `DrainLoop` is one round of the while loop under the lock. It is either
  `GetNextPacket` (pop, charge, enter the callback), or `StartPadding`, or
  `EndProcess`. `TimeToSendPacket` is the unlocked callback, and `Relock`
  re-enters the lock and runs the next round. `TimeToSendPadding` is the
  unlocked padding callback plus the three `UseBudget` calls after
  re-locking. The padding callback returns either 0 or all the bytes
  requested.
* `SendPacket` is four actions, one per outcome: `SendPacketDisabled`,
  `SendPacketPaused`, `SendPacketNow` and `SendPacketQueued`.
* Ghost history. `handed` records the i-th `SendPacket` call and the list it
  went to. Lists store the call's id. `wire` is the order in which packets
  reach the transport (returned true, or passed to `TimeToSendPacket`).
  These two variables exist for the properties only.
* Environment. Every public method may be called at any time, including
  during a callback. This covers other threads and re-entrant callbacks.
  `SendPacket` calls are bounded by `MaxHandovers`.
* Refinement. `PacerAbstract.tla` states the promise with no budgets,
  lists or clock. Each `SendPacket` call is an `Offer` that sends, queues,
  or drops the packet as a duplicate of a pending one. `Deliver` moves a
  pending packet onto the wire. `PacedSender` instantiates it as
  `Abstract` with `pending` mapped to the ids in the three lists or in
  `TimeToSendPacket`, and with the descriptors of `handed`. The property
  is `ImplementsAbstract == Abstract!ASpec`. `GetNextPacket` and `Relock`
  are abstract stutters; `TimeToSendPacket` is `Deliver`.

### Fairness

`FairSpec` assumes weak fairness for four things:

* `Process` when `TimeUntilNextProcess()` returns 0: the module process
  thread polls that query and calls `Process` when it reaches 0. Other
  callers may call `Process` at any time, and the model allows that too.
* Both callbacks: they return.
* The clock: it advances.

It assumes nothing about producers or the application. The liveness
properties therefore carry their own premise: the pacer eventually stays
resumed, and for low priority the media rate eventually stays positive.

### Bounds

Rates are scaled down so the budgets take few values, while every
comparison stays reachable:

* Target 1 kbps at pace 5/2 gives 2 kbps of media. That is 2 bytes per
  10 ms, 7 bytes per 30 ms, and a debt floor of -25 bytes.
* Packets: one stream with a high packet (1 byte), a normal packet
  (30 bytes, larger than the floor, so sending it hits the floor) and a low
  packet (2 bytes).
* The clock advances by 10 ms (an ordinary tick) or 31 ms (triggers the
  refill clamp and the starvation rule). Calling Process twice without a
  tick covers the elapsed = 0 case.
* Bitrates {0, 1}: rate 0 exercises the starvation rule.
* Two `SendPacket` calls in the passing runs, three where a scenario needs
  them.
* `fine_ticks` advances the clock by 1 ms only. At 2 kbps, any call made
  before 4 ms have elapsed refills 0 bytes. This is the same truncation
  that a real rate below 8 kbps meets at 1 ms calls.
* Larger instances (pad-up-to rates in the core run) exceed ten minutes,
  so padding has a run of its own with one `SendPacket` call.
* One `Stall` (`MaxStalls = 1`) in `core_safety` and `padding_delivery`.
  It can fall anywhere: in a callback, while paused, with packets queued.
  The liveness run `delivery_liveness` has none; with one it takes over
  five minutes. The violation runs have none, so their counterexamples
  are about what they name.

## 3b. The model (`SocketFactory.tla`)

* State. `heap` is every object the factory allocated, as
  `[kind, inner, port, live]`. `inner` is the object it wraps and owns.
  `returned` is the set of objects handed to callers. `os_busy` is the
  set of ports that other processes hold. `calls` counts the Create*
  calls and is bounded by `MaxCalls`.
* Deletion. `Delete` frees an object and the chain it owns, as the
  destructors of the rtc socket adapters and packet sockets do. Those
  classes are outside this snapshot; their ownership is the one
  assumption the model makes about them.
* Actions. There is one action per public method, each with every path
  of the C++. `CreateAsyncSocket` may return NULL. `Bind` of port 0 gives
  an OS-chosen port (`Ephemeral`) or fails; a named port binds only when
  free. `BindSocket` is the loop as the RECURSIVE operator `BindLoop`.
  `StartSSL` and `Connect` may fail. `SslAvailable` is a build constant:
  whether `SSLAdapter::Create` returns an adapter. `SSLAdapter::Create` is
  outside `src/`, and the model states one assumption about it: it takes
  ownership of the socket, and the build without SSL deletes the socket
  before returning NULL. That is why the NULL return on line 152 frees
  the socket's chain.
* Environment. `Close` is a caller deleting what it was given.
  `OtherProcess` binds or releases a port that the factory does not hold.
* Construction. `Init` is one of the three constructors: `thread_` is
  `Thread::Current()` (NULL on a thread rtc does not wrap) or the `Thread*`
  argument, or `socket_factory_` is the `SocketFactory*` argument (which
  may be NULL). `socket_factory()` returns the thread's socket server or
  `socket_factory_`. When both members are NULL, the UDP and TCP calls
  dereference NULL: `DerefNullFactory` sets `crashed`, and only other
  processes act after it. `factory_safety` includes such a factory, so
  `NoLeak` and `TypeOK` are checked across the crash too. No property
  forbids the crash: it happens on the first call of any such factory, and
  one unit test shows it.
* Bounds. Ports {1, 2} and an ephemeral port 9. The ranges are <1, 2>,
  <2, 2>, <2, 1> (empty) and <0, 0> (no range). There are three proxy
  types, all eight option sets, and three calls. Three calls are enough
  for a socket to hold a port that a later call's range needs, and for
  the caller to close it again. The constructors give three starting
  points: the owner thread, a given socket factory, and no source at all.
  The run reaches 2.2M states in about 40 s.

## 4. Runs

| Run | Cfg | Expect | Shows |
|---|---|---|---|
| core_safety | `MCPacedSender.cfg` | pass | `TypeOK`, `PacketListConsistent`, `AtMostOnce`, `NoIdleCredit` and `ImplementsAbstract` under all interleavings, one clock wrap included (1.28M states): no packet is duplicated or lost between the lists, the callback and the wire |
| delivery_liveness | `MCPacedSender_Live.cfg` | pass | `Delivered`: once the pacer stays resumed, queued high and normal packets are sent even at bitrate 0, and low packets too when the rate stays positive, because the debt is repaid |
| padding_delivery | `MCPacedSender_Padding.cfg` | pass | With the padding branch on (pad-up-to 2 kbps), `Delivered` holds under `FairSpec` across a clock gap that wraps `Process`'s int elapsed time: the skip path resets `time_last_update_`, so the next tick refills (439k states) |
| factory_safety | `MCSocketFactory.cfg` | pass | `TypeOK`, `NoLeak` and `BindSocketFindsFirstFree` over every constructor and every path of the three Create* calls, with SSL built in (2.2M states) |
| disabled_padding | `MCPacedSender_DisabledPadding.cfg` | violation | `DisabledProcessSilent`: a disabled pacer calls `TimeToSendPadding` |
| paused_drain | `MCPacedSender_PausedDrain.cfg` | violation | `PausedProcessSilent`: `Pause()` during `TimeToSendPacket` does not stop the loop |
| paused_low_duplicate | `MCPacedSender_PausedLowDuplicate.cfg` | violation | `NoDuplicatePending`: a paused re-enqueue of a queued low packet queues it twice |
| fast_path_reorder | `MCPacedSender_FastPathReorder.cfg` | violation | `BandFifo`: the fast path overtakes a popped packet still in the callback |
| ssrc_collision | `MCPacedSender_SsrcCollision.cfg` | violation | `DropOnlyDuplicates`: equal sequence numbers of two SSRCs, one silently lost |
| fine_ticks | `MCPacedSender_FineTicks.cfg` | violation | `LowDelivered`: with `Process` called every 1-2 ms at a 2 kbps media rate, each refill truncates to 0 bytes and a queued low packet is never sent |
| bind_range_from_zero | `MCSocketFactory_RangeFromZero.cfg` | violation | `BindSocketFindsFirstFree`: a range starting at 0 binds an OS-chosen port outside it |

Each property of a passing run has a mutant, defined just before the
definition it replaces, and TLC finds the property violated under that
mutant:

* `GetNextPacket_NoOutput` breaks `TypeOK` and `ImplementsAbstract`. The
  popped packet never reaches the callback, so it is lost.
* `PushBack_NoSetInsert` breaks `PacketListConsistent`.
* `SendPacketNow_FallThrough` breaks `AtMostOnce`.
* `IncreaseBudget_Accumulate` (unused bytes carried over) breaks
  `NoIdleCredit` within a few idle ticks.
* `Candidates_NoStarvationRule` and `IncreaseBudget_NoPayback` break
  `Delivered` in `delivery_liveness`.
* `ProcessSkip_NoReset` breaks `Delivered` in `padding_delivery`: with
  `time_last_update_ = now` moved into the refill branch, a wrapped
  difference stays negative and the pacer sends nothing more (in the code,
  for about 24 days, until the difference turns positive again).
* `Connect_ReturnDeleted` breaks the factory's `TypeOK`: a deleted socket
  is returned.
* `CreateUdpSocket_NoDelete` breaks `NoLeak`.
* `BindLoop_StopBeforeMax` breaks `BindSocketFindsFirstFree`.

### Findings

The seven violation runs are disagreements between the code and
`spec.md`, or between the code and its own comments. Details are in
`PROJECT.json` under `findings`.

1. `Process()` never reads `enabled_`.
2. `Process()` reads `paused_` once, before a loop that releases the lock.
3. Rerouting paused low priority packets defeats per-list de-duplication.
4. The fast path reorders packets within a band against a packet in flight.
5. De-duplication on the sequence number alone drops packets of other SSRCs.
6. The refill truncates per call. The spec says calling `process` more
   often is harmless, but at 1-2 ms calls and media rates below 8 kbps the
   budget never grows. At higher rates, a fraction of a byte is lost per
   call. The module process thread itself waits for
   `TimeUntilNextProcess()` (5 ms), where only rates below 1.6 kbps
   starve.
7. `BindSocket` with `min_port == 0` binds port 0, so the OS picks a port
   outside the requested range.

## 5. Not modelled

* The capture-time handling: the substitution of a negative capture time
  and the two capture-time watermarks. They only decide when trace events
  are emitted. Modelling them would need an absolute clock, which the
  saturated elapsed times avoid. This is why the control component is
  only partly modelled.
* `QueueInMs` and `Enabled`, which are read-only queries.
* The clock value `Process` reads before it takes the lock. Only
  `Process` writes `time_last_update_`, and one thread drives it, so a
  stale `now` only moves refill credit to the next call; nothing is lost.
  `GetNextPacket` and `UpdateMediaBytesSent` read the clock afresh. A
  second concurrent caller of `Process` could move `time_last_update_`
  backwards, but no code in this snapshot does that.
* The `ASSERT(thread_ == Thread::Current())` in `socket_factory()`. It
  is a debug check of the single-thread contract the model assumes: the
  calls are made on `thread_`. The assertion is compiled out of release
  builds. There, a call from another thread would use that thread's socket
  server without synchronisation. Nothing in this snapshot makes such a
  call, and the socket server is outside it.
* The VP8 header (declarations only) and the TSan suppression list (a
  string constant).

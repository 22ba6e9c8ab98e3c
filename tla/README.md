# TLA+ verification of the LA9310 driver

The repository holds two kernel modules for the RFNM board: `la9310shiva`, the
PCI driver of the LA9310 baseband chip, and `la9310rfnm`, which moves samples
between the chip and its clients (USB gadget, ethernet, local device node) and
controls the radio. What is hard in them is concurrency and recovery: real-time
threads, a USB worker, completion interrupts, timers, works, client calls and
two firmware cores share lists, rings, a mailbox, latches and counters; sessions
come and go, chips and links are reset under running threads, and the host may
stop reading at any time. This project models that module by module, checks it
with TLC, and proves the safety of eleven of its components with TLAPS, for every
value of their parameters.

Line numbers refer to `src/kernel_driver/la9310rfnm/la9310_rfnm.c` unless a file
is named; `lalib` is `rfnm_lalib.c`, `dgb` is `rfnm_daughterboard.c`.

## 1. Inventory

| Component | State | Operations | What makes it correct | Modules |
|---|---|---|---|---|
| RX USB request pool | free pool, staging list, in-flight list and counter, population counters | ship, flush, arm, complete, fail, stall detector, sweeps, endpoint on/off, restart | a request has one holder; counter and list agree; none is lost; the gate opens again | `UsbInPool` |
| RX USB lane packetizer | LA ring tail, slot and size per lane, USB ring head, packet numbers, DISCONT marks, stand-down | process sub-buffer, seam flush, drop, catch-up jump, deadline flush, stand-down, reset | every loss is flagged; no packet hides a seam; a slot in flight is not rewritten | `FlaggedStream`, `RxUsbLane` |
| TX pool, judge, placement | OUT requests, local TX lists, expected position, window assembly | ingest, judge, place, close window, flush | a buffer has one owner; a stamped packet is placed once, at its position, or refused | `TxPool`, `TxAir` |
| RT command ring and TX windows (lalib) | ring header, window queue, close mark, hrtimer | arm, push, disarm, queue, pump, timer, teardown | one window at a time at the VSPA; no queued window waits for nothing | `WindowPump` |
| Stream word and software commands (lalib) | applied word, anchor, TDD pattern, generation mark, the mailbox | apply, quiesce, re-apply, TDD, restart heal, hand-off | the recorded word is the one the firmware runs | `StreamWord` |
| Workers, session restart, hard reset, time generation | stop flags, workers, works, the reset lock, generations, dead mark | restart (scheduled, called), hard reset, kernel swap, sampler, fault | a reset never runs beside a worker; a restart ends; only a completed one makes verbs acceptable again | `Session`, `SessionService` |
| 64-bit time (with lalib's counter read, and the link's fence) | wrap count, last sample, valid flag under a seqlock, last captured tick, generations | read (now64), sample, wrap, restart verdict, bump, commanded reset, session latch | a time read is a time of the call; a generation is a life of the chip's counter | `PhyTime` |
| DCS planner (lalib) | - | plan, rate check | an accepted rate can be served to every direction | `DcsPlan` |
| Control verbs, channel-list applies (USB function, ethernet, local ioctl, dgb) | pending lists, apply works and lock, result block, rate, clock | open, set rate, RX and TX lists, hard reset, stream call with reclock or swap, board reset, idle park | an answer is about the list it names; the TX list that stands is answered | `Control` |
| Ethernet services | connection and retired socket, their users, workers, accept thread | accept, retire, adopt, send, ingest, commands, unload | no socket is freed while reachable; the service accepts and serves on | `TcpService` |
| Lime board, latches | channel structs and shadows, tune, gain and DC caches, latch shadow, the M7's copy | RX and TX apply, TDD hand-over, idle park, session reset | caches and shadow are true; a live TX keeps its port and is accounted for | `LimeBoard` |
| AGC and QEC loops | epochs, null state machine, probe offsets | level step, null, drift alarm, give-up | the null ends and leaves no probe behind | `RxServo` |
| PCI endpoint (shiva) | resources of probe, fence, link, bus, vectors, boot handshake, a client's IPC file | load, probe with every error label, remove, hard reprobe, handler, readers, IPC open, ioctls, channels | nobody stands in the window of a dead link; a failed probe can be retried | `Endpoint` |
| VSPA images and loader (shiva) | registry, selection, running mark, loader flag, core, mailbox | register, select, parked boot, swap, chip-reset fallback, probe boot | the running mark is true; the DMA channel has one user; every boot ends | `VspaRegistry` |
| RX local lane, other boards, packing kernels, host tools | | | | not modelled, section 7 |

Threads and how they meet: the producer (`rfnm_handler_in`) takes sub-buffers
from the ring the firmware fills and stages packets; the USB worker
(`rfnm_handler_usb`) arms them; completion handlers (`rfnm_submit_usb_req_in`)
recycle requests; the TX consumer (`rfnm_handler_out`) places packets and hands
windows to the pump, which the transmit thread and an hrtimer run; control calls
schedule restarts and applies as works; an apply may reset the chip, which takes
the PCI link down behind a fence, or swap the VSPA image; the stream word and the
software commands go through a mailbox to the chip's M4 core; the AGC and QEC
threads apply to the board like a client does.

How the modules fit: `TxPool`'s packets are what `TxAir` places, `TxAir`'s windows
are what `WindowPump` posts, `WindowPump`'s session is a word of `StreamWord`.
`Control` is written against `SessionService`, and `Session` is shown to implement
it (`ServiceSpec`), so that the control plane is checked without the workers and
locks underneath. `Session`'s reset step is `Endpoint`'s hard reprobe, its swap is
`VspaRegistry`'s boot, and `UsbInPool`'s restart is its stop and drain seen from
the pool. `RxUsbLane` implements `FlaggedStream`. `RxServo` extends `LimeBoard`;
`Control`'s applies are the client of `LimeBoard`.

The hazards this code is exposed to are in `PROJECT.json`, each at its line with
the properties that watch it.

## 2. Plan

Done: all modules of the table above, their runs, and the proofs of section 6.
Left, in this order:

1. `RxUsbLane` for several lanes: what still holds of them beside the shared slot 0.
2. The local RX lane as a second implementation of `FlaggedStream`, with the
   ownership of buffers that a reader still references.

## 3. Modules

### UsbInPool - the IN request pool

State: `in` (`rfnm_usb_req_buffer_in`), `inUsb` (the staging list), `inflight`
and `cnt` (list and `rfnm_usb_inflight_cnt`), `udc` (what the controller holds,
external), `context` (requests that own a completion context), program counters
of producer (`ppc`), USB worker (`wpc`) and every completion handler (`cpc`),
`alloc` and `population` for births and deaths. A critical section is one step;
everything between two of them is a step of its own: the full-packet ship is
peek, copy, commit (`FullPeek`, `FullCopy`, `FullCommit`: 2364-2450), the worker
tracks, counts, queues (1580-1588) and takes back what failed, the handler
untracks, counts down, recycles or frees (3544-3706), the detector counts and
repairs (1839-1863) or sweeps, and the restart stops workers (or times out),
tops up, drains, recycles, starts. The list is a set: the order of the pool does
not matter to the properties, except that a node which was *alone* when its
pointers were copied unlinks the whole list; `lone` keeps that fact.

### FlaggedStream and RxUsbLane - the packetizer

`FlaggedStream` is the client's contract: packets of a lane are numbered without
holes, and a packet that does not continue the one before (stamp, epoch) says
so. `RxUsbLane` is `rfnm_handler_in` and its helpers for the USB side: time is
counted in sub-buffers, a slot's content is a header and the stamps of its
payload. The producer is one thread and the only writer of its state, so one
sub-buffer is one step; requests come and go through `pool`, `staged`, `flying`.
The model starts where the stream-IO reset leaves the lane. `Flagged` is
`FS!Spec`: the refinement, with `last` and `anew` as the mapping.

The LA ring is two sequences: `la`, what lies between the producer's tail and the
firmware's head, and `lap`, what has been written to slots 0 to head - 1. A stream
reset stops the producer between two sub-buffers (`Halt`; it does not store its cursor
then), takes back what is staged and in flight, and sets the tail to 0 and nothing
else: the firmware keeps its head and its epoch, and no mark is set (4496). So `Reset`
makes `lap` the backlog, and the lane reads what it may have read before, from another
epoch, the "stale-prefix drain" of 4511; `anew` are the lanes that have shipped nothing
since. The IN endpoints (`Ep`, four in the code) end their transfers in their own order,
and the host reads any of them next: `over` counts for every transfer the later ones that
have left before it. A bound of the model: the firmware does not lap the tail
(`Produce`; the producer is a SCHED_FIFO thread, and jumps at a quarter of the ring).

### StreamWord - the stream word and the mailbox

State: the recorded word, the TDD and ring marks, the time generation, the
session's and the last streamed one, the send lock, the mailbox with its status
word, the M4's interrupt and command in work, what the chip really runs (`fw`),
the restart notification (`timer`, `note`, `stash`, `work`) and the MMIO fence.
The senders are processes with a program counter and a plan: `rfnm_la9310_stream`
(`Apply`, or `ApplyReclock` with its commanded reset), `rfnm_restart_sm`
(`Session`), `rfnm_la9310_tdd` (`SetTdd`), the anchor (`SetAnchor`) and the heal
work. `Enter` to `Unlock` is `__rfnm_la9310_stream_send` under the lock, with the
RX cycle before the first TX word as stages of the same loop; `Check` to `Free*`
is `rf_send_swcmd` and `rf_free_cmd`, which take no lock, step by step. The M4 is
external: it takes what is posted when it is interrupted, and answers whatever
the mailbox holds by then, possibly after the host gave up.

The senders exclude each other, but TDD commands, the restart notification, a
commanded reset and the last assignment of a quiesce run without their lock. All of
these overlap in the model as they do in the code. The history variable `doubt` says
that it happened: it is set when a sender or a TDD command starts beside one of those
paths (`Meet`), when a restart of the chip is noticed in the middle of a commanded reset,
and when a command fails or is answered late. A reset of the chip that nothing overlaps,
commanded or not, ends it. `Settled` and `TxCycled` speak of a word that is not in doubt,
`NoHang` of every state; section 5 says what becomes of a word in doubt.

### TxPool - ingest, pending list, retirement, flush

State: `done` (`rfnm_usb_req_buffer_out`) and `wire` for the OUT requests, `free`
and `pending` (`rfnm_local_buffer_out_user`, `rfnm_local_buffer_out`), per writer a
program counter, its packet and its buffer, the consumer's buffer and its copied
list pointers, the flush, and `asleep` (who waits on `local_tx_poll`). The USB
worker looks at a request, puts it back on the wire and then claims a buffer
(1437-1496); the in-place writers are the ethernet worker and the local client's
TX_ACQ and TX_SUB. The consumer's look, use, copy and retire are separate steps
(3076, 3448, 3450-3459), the flush empties the pending list in one and the
requests one by one. `list_del` of a copied node joins the two neighbours copied,
so whatever was inserted between them since is gone (`Unlinked`). Three history
variables say when a promise of the code ends: `stale` (an insertion beside a
copied node), `silent` (the free list filled without a wake-up), `caught` (a flush
met the consumer, or the worker, in the middle of an element; the model ends
there, because the lists are no lists from then on).

### TxAir - judge, placement, windows

State: the 64-bit timer, the packets in the order of their numbers, the DAC ring
by ticks (a sample is the tick it is meant for), `rfnm_tx_win`, the windows handed
to the sink by a step, and what was promised, aired and spoilt. `Extend` is the
nearest-window extension of the 32-bit stamp, `Verdict` the judge (late, wild, early,
good), `Written` and `Padded` what the two placements and the window close do to
the ring, `Grown` and `Breaks` the window assembly. Judging and placing are two
steps with time passing between them; a tick fetches `Ahead` of the timer and
never clears the ring. One thing is assumed of scheduling: the consumer, a
real-time thread on a core of its own, places a packet within the margin that the
minimum lead leaves above the fetch-ahead (48 slots).

### WindowPump - RT ring, window queue, pump

Time is the true tick; the code sees it modulo `Wrap` and compares by the sign of a
difference (`After`). `TxWindow`, `TxPush`, `TxQueue` are the three parts of
`rfnm_la9310_tx_window` (fence, latch and room; gate entry; queue, pump and timer
under the lock), `TimerFires` and `TimerReturns` the callback, whose re-arming
reads the delay outside the lock. `EndSession` and `Teardown` are the word that ends
a windowed session and `rfnm_vwin_reset`. M4 and VSPA are external and slow.

### Session and SessionService - who may stop and start the workers

Four jobs (a scheduled restart, a called one, the scheduled hard reset, the reset or
kernel swap of an apply) share `rfnm_hard_reset_lock`; each goes through drain,
lock, stop, wait or time-out, board and IO reset, reprobe or swap, generation bump,
relatch, start. Workers end only at their own checks, stop flags stay raised after
a time-out, faults and uncommanded chip restarts happen at any time. Generation
counters are only compared for equality, so a pair of them is one Boolean.
`SessionService` is the same without locks, workers and chip: asked, committed,
done, and when a session's verbs are accepted. `Phase` maps a job's program counter
to it.

### PhyTime - the 64-bit time and its generations

The chip counts ticks in 32 bits (`Counter`, modulo `Lap`); `clock` and `boot` are real
time and when the counter was last 0. The seqlock's data (`wraps`, `last`, `valid`) is
written by the sampler (`Sample` reads the counter, `Land` takes the lock and judges:
wrap, restart or neither) and by the bump (`Voids`, then the generation counted without
the lock: `Loads`, `Stores`), which the sampler and a commanded reset both run. A caller
is `Snap`, `Read`, `Test`: the loop goes round again when a write section came in between
(`torn` stands for the sequence number), the valid flag is read behind the loop, and
`Tag` is the generation that a status request reads after it. `Now` is lalib's register
read, which answers a fenced link with the last tick captured. The commanded reset is
`ResetBegins` to `Latches`, its errors are `ResetFails`; `ChipRestarts` is a restart nobody
commanded. `from`, `mark`, `firm`, `lost`, `blind`, `zero` and `joined` are history: when a
call began and whether the time stood still under it, whether a restart is not told yet
and whether a sample could tell it, the real time of tick 0, and whether the session was
latched after the last restart. Two things are assumed of scheduling: a sample lands
within `Gap` of the one before (the timer comes at 1 Hz, the detector believes steps of
8 s), and a commanded reset, which takes the chip through a PCI rescan, does not pass a
sample that is in hand meanwhile (`Prompt`).

### DcsPlan and Control - from a verb to the radio

`DcsPlan` is `rfnm_la9310_plan` as operators over rates in units of 125 Hz: RX, TX
and joint rungs, the validated clock window; `Synthesizable` is the si5510 driver's
answer, external. `Control` has the verbs of the three transports with their gates
and answers (`UsbSetup`, `EthControl`, `LocalIoctl`, `SetVerbs`), the RX and TX apply
works with `rfnm_chlist_apply_lock`, the stream call with its decision between
error, reclock, kernel swap and plain send, the published result, board reset and
idle park. A list is the session and the number it was sent with.

### TcpService - sockets of the ethernet services

Accept thread, control worker or the two data workers, and the unload. A replaced
connection is shut down, waited for (`Patience`: the 500 ms in `close_connection_safe`
are longer than a section that does not block) and retired; workers notice between
two operations. The socket, its reachability and its freeing are the state; bytes
are the connection a half-received frame began on.

### LimeBoard and RxServo - the board and its loops

A caller writes the channel struct without a lock and has the driver apply it under
`rfnm_lime_apply_lock`. An apply is two steps (up to the tune, from there on), so a
struct may change under it. The state is the struct, the shadow `rx_s`/`tx_s`, the
tune, gain-stage and DC caches, the latch shadow and the latches, and the chip.
`M7Flips` is the M7, which switches latches from its own copy after the TDD
hand-over. `RxServo` adds the AGC's step and the QEC's DC null: arm on an epoch,
baseline, two probes, solve, give up, drift alarm, each write through the board's
apply, with the epochs that the writes themselves bump. `torn`, `orphan` and `cut`
are history variables that name the exceptions of section 5.

### Endpoint - probe, remove, hard reprobe

What a step acquires is a name in `held`; what a freed owner leaves behind moves to
`left`, what is released without being held to `wrong`. `Probe` has one action per
stage with its error label, `Deinit` the fall-through by init stage, `HardReprobe`
fence, quiesce, removal, suspend, board reset, resume, rescan, recovery. The
interrupt handler, an accessor between check and access, a sysfs reader without
a check and a client of the IPC device run beside it. The client opens the device
while it is there and keeps its file over a removal, which `cdev_del` neither waits for
nor announces (`fd` is then stale); two of its ioctls program the outbound window, read
the hif or raise an interrupt, and look at no fence (`ioctl`, `IpcWindow`). A load of the
module starts with the fence down, over a dead link too (`lost`), and one that fails
keeps the class it made, so that every load after it is refused (`ModInitRefused`).

### VspaRegistry - images, loader, core

Registry, selection and running mark, the boot of `rfnm_vspa_boot_image_locked` step
by step with every failure, an apply that finds its capabilities, swaps or falls back
to a chip reset, the boot at probe and from sysfs. Core and M4 are external: the M4
can take the mailbox flag the loader polls for. The QEC thread checks the loader's
flag and then uses DMA channel 0.

## 4. Runs

| Run | Question | Bound |
|---|---|---|
| `pool_restart` | holders, counter and population with failed queueing, SET_INTERFACE, stall sweeps and restarts, timed-out stops included | 2 requests |
| `lane` | a lane lapping its ring through drops, jumps, epoch flips, stand-downs and a reset that replays the LA ring, read by the host in any order: intact, no seam buried, flagged (refinement) | 2 endpoints with a request each, ring of 4, packets of 2, LA ring of 4, 6 stamps, 1 epoch flip, 1 reset, 1 failed queueing |
| `word_calm` | recorded and running word agree, TX only on a cycled chip, nobody hangs; the unlocked paths overlap with everything | 3 operations (2 once the word is in doubt), 1 trouble (chip restart, failed or late command) |
| `tx_pool` | owners, losses, order and wake-ups of the transmit pool, with aborts, drops, failed requests and a flush | 3 buffers, 2 in-place writers, 1 OUT request, 3 packets a session, 1 flush |
| `tx_air` | what is placed airs at its tick, nothing airs early, windows hold what they say | ring of 8 slots of 2 ticks, 3 packets of 1 or 2 slots, 12 ticks, 1 flush |
| `chip_time` | windows: one at a time; a queued one is never forgotten or held back by a closed one. Time: what a call returns was the time at a moment of the call; a session is refused exactly when its time is over | 3 windows, queue and ring of 2, 7 ticks across a wrap at 32; counter of 6 ticks that starts one before its wrap, 1 caller for 2 ticks with 1 restart or reset, or no caller, 8 ticks, 2 restarts or resets, 1 reopen |
| `session` | resets run alone, restarts end, `Session` implements `SessionService` | 2 workers, no other bound |
| `control` | TX answers name the list that was applied, and the list that stands gets one; accepted rates have a TX plan | 1 session, 1 RX and 2 TX lists, two rates: 25 MHz, and 100.001125 MHz, which the si5510 cannot make |
| `eth` | no use after free, the accept thread goes on, clients are served; control and data service | 3 connections |
| `servo` | shadows and caches are true, TX keeps its port and is found by the park, the DC null ends clean | 2 lists, 2 solves, 1 AGC step, 1 session reset; 3 RX and 3 TX settings |
| `endpoint` | who can be inside the window of a dead link, where the fence is; a failed probe can be retried | 1 device, 1 IPC client, 2 rescans |
| `vspa` | running mark, channel, capabilities, the boot ends | 3 files, registry of 2, 2 boots |

The bounds: two requests put any two of the producer, the worker, a completion
and the restart in each other's way (the proofs are about any number); a ring
of 4 with 2 requests has the proportions of 80 slots to 64 requests (more slots
than requests plus the one being filled), and six stamps lap it with every mix
of drops and flushes and show a catch-up jump from both sides; two endpoints are
one that the host reads and one that it leaves alone, and an LA ring of 4 goes round,
so that a reset finds it anywhere. Requests are
symmetric in the pool run. Three operations on the stream word are enough for an
apply, a second sender in its way and a third that finds the result (beyond a doubt there is nothing left to find for `Settled` and `TxCycled` until a reset, and a third operation is left out there); a word is the
set of what it switches on, TX-only and duplex, because only words with RX are
applied again. Three transmit buffers are a copied node and both its neighbours;
buffers and in-place writers are symmetric. The ring of `tx_air` has the proportions
of the real one (half of it is the largest lead, the fetch-ahead less than the
minimum lead), the stamp wraps in the middle of the run, and gaps of 0, 1 and 12
ticks make packets continuous, mid-slot, late, early, wild and a whole lap apart.
Three windows are one at the VSPA, one in the queue and one arriving. Two workers
let one obey a stop and the other not. Two TX lists are one being applied and one
that waits for it. Three connections are one retired, one served and one displacing
it while the retired one is not reaped. Two lists are one being applied and one that
lands in it, two solves a null that goes on after its first. Two image files share a
name (an update in place), the third needs a swap.

`chip_time` is `MCChipTime`: windows and absolute time share no variable, so a behaviour
of the run is one of either, chosen at the start, and of the time one with calls or one of
the chip's lives without them. Two ticks let a call begin with a sample in place and see the
wrap; eight, from one tick before the wrap, go once around and leave room for a restart
nobody commanded beside a commanded reset, and for two of either. The proofs need none of
these bounds.

Deadlock is not checked where the system may stop: when the bounds on lists, windows
or operations are used up, after an unload, and after a boot from an entry without a
blob, which oopses with the registry lock held.

Fairness, by module. `Session`: works and callers run and every timed wait ends
(weak), the mutex is handed to a waiter (strong); nothing is assumed of workers, so a
stop may always time out. `Control`: works run, the apply mutex is handed on (strong),
an apply's reset returns (`Session` shows that its waits are timed). `TcpService`:
threads run, timed waits and sends end; clients owe nothing. `RxServo`: applies
return, and samples keep coming (the null has nothing to measure otherwise).
`Endpoint`: threads inside probe, remove and reprobe go on, a handler or reader that
has started ends; `free_irq` and `sysfs_remove_group` let no new one in while they
wait, hence strong fairness for the teardowns. `VspaRegistry`: the loader's waits are
bounded and a QEC transfer ends; core and M4 owe nothing. `MCUsbInPool`: worker,
producer and handlers run and the host keeps reading; `UsbTake` and the detector get
strong fairness because each pass of their loops retries them while lists and gate
flicker.

More configurations are kept beside the runs. These pass:

* `UsbInPool_live.cfg`: `GateReopens` (a gate shut at the cap opens again) without stream
  restarts.
* `VspaRegistry_update.cfg`: the properties of `vspa` with an image whose update is no base
  image any more.
* `StreamWord_guards.cfg`: the premise of `NobodyHangs` (section 6), and `NoHang`, with two
  operations in every state.
* `Endpoint_ends.cfg`: `QuietTeardown`, and `ReprobeEnds` under the fairness above.
* `PhyTime_reader.cfg`: `Exact` with a counter of 4 ticks and calls that last over a whole
  lap of it; `PhyTime_generation.cfg`: `NoFalseAlarm`, `RestartSeen` and `GateTruth` with a
  counter of 7 ticks over 11.

TLC refutes the others, which reproduce what section 5 tells under the names of their
properties; where a configuration lists two, each is refuted alone:
`Endpoint_outage.cfg`, `PhyTime_reads.cfg`, `PhyTime_gap.cfg`, `PhyTime_late.cfg`,
`RxUsbLane_strict.cfg`, `RxUsbLane_two.cfg`, `StreamWord_overlap.cfg`,
`StreamWord_stale.cfg`, `TxPool_leak.cfg`, `WindowPump_marks.cfg`.

## 5. Where the code departs from what it says

Exceptions written into the properties of passing runs:

* `Intact`: the reset puts head and every lane at slot 0 (4488, 4515); the first
  hand-over gives the lane slot 0 again while it is in flight, against 2456-2462
  (slots advance on hand-over only, or they are rewritten "under dwc3"). The packet
  behind the first one after a reset is the only one that does this. And the ring has
  16 slots more than requests. A transfer on an endpoint that the host leaves unread
  stays while those of the other endpoints come and go; 15 of them can leave before it,
  and with the next ones head comes round to its slot, against the same comment. Nothing
  in the code looks for that. `Intact` covers a transfer as far as the ring reaches.
* `Flagged`: after a stream reset the producer reads the LA ring from slot 0 to wherever
  the firmware is (4496), old epoch or new, read before or not. The code knows that (the
  "stale-prefix drain", 4511-4523), and keeps the packet numbers for its sake; but no mark
  says that the first packet does not continue the last one before the reset, and the
  epoch says it only when there was a stream command in between. That first packet is the
  exception. Inside the drain, and from it to what is new, every gap is announced.
* `NoBuriedSeam`: 2350 says that "a packet must never contain a stamp discontinuity".
  The catch-up jump (2190-2209) keeps the partial packet, unlike the stand-down
  beside it (2144-2148), so samples from both sides of the gap meet in a packet; the
  DISCONT flag comes with the packet behind it.
* `DriftOnlyByRepair`: 1840-1844 says counter and list must agree. The repair counts
  the list under the lock and sets the counter after it; a completion or the worker
  in between leaves the repaired counter wrong. Nothing else does.
* `LossOnlyByStaleCopy`, `OneOwner` (`stale`): the full-packet ship (2427) and the TX
  consumer (3448) copy a list node without the lock and `list_del` the copy. A request
  appended to a pool of one, or a TX buffer inserted beside the retired one, in
  between is in no list any more. Nothing else loses one.
* `OneOwner`, `InOrder` (`caught`): the flush runs beside the consumer and the worker
  and can hand both the same element (1276, 1290).
* `Woken` of `TxPool`: aborts (5328) and flushes (1275) fill an empty free list without
  a wake-up, and the consumer, which wakes on the empty edge only (3461), then finds
  it filled: a client in `poll` sleeps beside free buffers.
* `PlacedAirs`: a packet that begins inside a slot silences the head of the slot
  (3281) and with it the end of the packet before it; a window that is closed by the
  packet behind it (3299) silences a slot after that packet was written, which hits
  the packet when it begins in that slot, or when the window was left open over a
  flush (`rfnm_tx_win` is not reset) or over a lap of the ring.
* `Woken` of `WindowPump`: a pump that meets the fence leaves the queue without a timer
  until the next window.
* `QuietTeardown`: the unload of the module frees the multiplexer's state with the
  vectors enabled; only the reprobe masks them first. `Retryable`: a failed probe
  unmaps a scratch buffer it does not have, frees a handshake interrupt whose request
  failed, or releases the VSPA interrupt twice; a failed load keeps the class,
  which fails every load after it (`la9310_pci.c:744`). `OutageFenced`: an accessor that
  checked the fence before it was raised may still be on its way to the window, and the
  two disagreements of `Endpoint_outage` below.
* `Settled`, `TxCycled` (`doubt`): a command that failed (lalib 536: the cycle is fail-open),
  or was answered late (lalib 300), or that met a TDD command, the restart notification,
  a commanded reset or the store behind a quiesce, leaves a word of which the driver
  cannot say that the chip runs it, until the chip is reset.
* `TxAnswered`: a list that the next verb finds pending is never answered under its own
  cc, because the verb cancels the work (dgb 798); the property is about the list that
  stands.
* `RunningTruth`, `ApplyCaps`: an image registered again under its name is replaced in
  place while it runs (`la9310_vspa_registry.c:102`); a reset that fails after the
  chip went leaves the running mark, and so does one after which no registered image is
  a base image: `rfnm_vspa_probe_boot` returns before it takes the mark down
  (`la9310_vspa_registry.c:451`), and the core is left to the legacy file or parked. `BootEnds`: a failed allocation leaves an entry
  without its blob, and a boot from it faults under the registry lock.
* `CacheTruth` (`torn`): a list that lands inside another caller's RX apply makes the
  shadow say its filter is written, so its own apply skips it (`rfnm_lime_m.c:1271`,
  `:1366`), and a DC trim is booked under the wrong LO (`rx_dc_trim_hz`).
* `CarrierAccounted` (`orphan`): the session reset sets the TX struct to off without the
  driver (dgb 1600), so the idle park skips a TX that still radiates, and the next
  RX-only client finds the antenna port at TX.
* `NoStandingProbe` (`cut`): a gain step or an apply in the middle of a probe ends the
  stage with the offset in the codes, which the next arm takes for its entry, against
  "transient by contract, never standing state" (`rfnm_qec_main.c:783`).

Refuted by the configurations named in section 4:

* `IpcOutside` (`Endpoint_outage`): "Concurrent contexts (... sysfs/ioctl
  readers) must not touch the LA9310 window anywhere in this span"
  (`la9310_pci.c:641-644`). Two commands of the IPC device do (`la9310_ipc.c:218-272`, 310-322):
  they check no fence, and the removal neither waits for open files nor ends them
  (443-458). The same two go by freed memory once the device is gone.
* `LinkFenced` (`Endpoint_outage`): when the resume failed, "leave the fence up permanently -
  the LA9310 is dead until reboot" (`la9310_pci.c:712`). The fence is a variable of the
  module; unloaded and loaded again, it is down over the dead link.
* `TearFree` (`PhyTime_reads`): 354 promises "a fresh, tear-free absolute tick". The loop of
  `rfnm_phytimer_now64` keeps wrap count, last sample and counter together, but reads the
  valid flag behind it (385), and a bump leaves the last sample at the old chip's. A caller
  that takes that one, reads the new counter and leaves the loop before the first sample of
  the new generation lands finds the flag set and adds 2^32 ticks. A call that began with a
  sample in place is exact (`Exact`).
* `NoFalseAlarm` (`PhyTime_gap`): 353 says that "any period < 34.95 s is safe". With samples
  more than 8 s apart (370, 454) a plain wrap is a restart to the detector, and every
  session is refused. At the 1 Hz of the code it is not (`AlarmsTrue`).
* `Labelled` (`PhyTime_reads`): "ticks compare only within one generation"
  (`rfnm_status_ext.h:95`), but 3939 and 3940 read the tick and the generation one after the
  other, and a bump in between sends an old tick out under the new number.
* `GateTruth` (`PhyTime_late`): the generation is counted by a read and a store without a
  lock (435), by the sampler and by a commanded reset. When the sampler is held up inside
  its own bump over the rest of a commanded reset, its store comes behind the latch (4857)
  and the session "that COMMANDED this reset" (4854) is refused.
* `AlwaysFlagged` (`RxUsbLane_strict`): the stale-prefix drain, without the exception above.
* `AlwaysIntact` (`RxUsbLane_strict`): two endpoints, one of them unread, a ring of four: the
  third packet behind the unread one is assembled in its slot.
* `OwnNumber` (`RxUsbLane_two`): the reset puts every lane on slot 0 (4515) of the one
  ring that all lanes share. When two lanes stream, as with two boards fitted, both
  assemble their first packet there: the second header overwrites the first, and one
  slot goes out twice, under the same lane and number, against "the wire chain stays
  contiguous" (2403) and the "torn packets" and "duplicate ccs" that 2456-2462 want
  gone. With two lanes `Flagged` fails for this reason too, so the run and the theorems
  about the packetizer are for one streaming lane.
* `AlwaysSettled` (`StreamWord_overlap`): TDD commands use the mailbox without the send lock, and
  `rf_free_cmd` frees it even when the command was refused as busy (lalib 1350). One
  sender takes away the other's command; an apply is reported failed although the
  chip runs its word, against "the live word is settled truth" (lalib 392).
* `NoStaleWord` (`StreamWord_stale`): the restart notification reads and zeroes the word from timer
  context in the middle of a locked send (lalib 645-650). It stashes the word of the
  internal RX cycle, which the sender is about to replace, and the heal applies it
  over the client's TX word; lalib 644 says such a race "only ever forces one extra
  resend".
* `NoStaleLeak` (`TxPool_leak`): lalib 965 promises that the flush at a stream start lets no stale
  packet into the new stream. What the USB worker has detached is queued after the
  flush; so is what an in-place writer commits.
* `NoStray` (`WindowPump_marks`): the pump posts TX_WINDOW without asking whether the firmware
  still runs a windowed session; the word that ends it unlatches the mode before
  `rfnm_vwin_reset` cancels the timer (lalib 1659, 1713).
* `PacedTruth` (`WindowPump_marks`): the close mark stays valid after the window closed, so 2^31 ticks
  (35 s) later the signed difference turns and the pump holds every window back for
  up to another 35 s (lalib 1641).

Met while modelling and without a property: an old session's apply publishes its
number after the reset, and the new client, whose numbers start again at 1, takes it
for its own (dgb 675, 4803); the RX list may be overwritten under its work (dgb 824),
so only TX answers name what was applied; verbs are dropped silently on a dead
session (dgb 796, 821), and the TX verb waits for a work in a context that may not
sleep (dgb 798, comment at 823); an ethernet open ignores the restart's result
(`rfnm_usb_function.c:1265`); a restart whose stop timed out leaves workers to exit
with nothing to start them again; a fault raised by restarted workers is wiped (4762);
a chip restart within 8 s of a wrap goes unnoticed (457-466; `RestartSeen` says that
no other does, but for one in the counter's first seconds); comments at lalib 705
and 778 do not match the plan's rungs; `vspa_fw_dma_write` moves one chunk, so a
section above 64 KiB would be cut (`la9310_main_vspa.c:603`); an unload of the
ethernet services can wait for a worker that blocks in `recvmsg`; stale TX content is
re-aired every lap until a scrub, though 3249 still speaks of a retire fifo that was
removed (1034); a packet dropped for a full pool is counted as ingested too (1495);
the stale cap bounds the in-flight counter and not what was staged before the worker
ran (767); a second SET_INTERFACE adds a full set of requests to the pooled ones
(`rfnm_usb_function.c:555`); after the head grace the payload copy
is elided while packets are still staged up to the stale cap (2493); after a time
reset the TDD stop of a quiesce is refused, so `tdd_armed` stays set for the next owner
(lalib 1341, 1061); a failed re-apply leaves the RT ring armed with the word at 0
(lalib 455); a TDD apply on RX parks the PA of a live TX and a plain RX apply does not
bring it back.

## 6. Proofs

Each proof module extends the modules it is about and states an inductive
invariant, one lemma per group of actions that it survives them, and the theorems that
follow from it. The theorems hold for every value of the constants that meets the named
`ASSUME` of the module, the bounds on behaviours included; there is no other
assumption but those named below: one streaming lane in `RxUsbLaneProofs`, the premises
of `ChipTimeProofs`, `[]InReach` in `TransmitProofs`, `[]GuardsTrue` in
`StreamWordProofs`. Every
invariant was checked by TLC on the instance of the run before it was proved.

**`HostLinkProofs`** proves about `UsbInPool` and `TcpService`, the two links to the host.

Of `UsbInPool` (any finite set of requests, any caps): `TypeCorrect`,
`SingleHolder` (`OneHolder`), `CounterSettled` (`DriftOnlyByRepair`),
`PopulationSettled` (`LossOnlyByStaleCopy`). `OneHolder` is not inductive: that a
request about to be untracked is in nobody else's hands depends on what the program
counters say. `IInv` adds `HandsOK` (a thread's hand is full exactly in the states that
say so), `TrackedOK` (what the controller or a handler at its entry holds is in the
in-flight list, or is the worker's failed one), `ContextOK` and `AllocOK` (every request
someone holds is allocated and has its completion context until it is freed) and
`QuietOK` (while the restart works, producer and worker rest unless the stop timed out).
The two action properties count finite sets: `DriftStep` and `MissingStep` show that each
step leaves the counted (held) set alone, adds one request or removes one, with `cnt`
(`population`) moving along.

Of `TcpService` (any finite set of connections): `ServiceTypes` and
`NoUseAfterFree` (`NothingFreed`). `Away` says that nobody has a socket that is freed, or
not yet there; it is kept because a connection is in one place at a time (`Apart`), a
closer or worker holds one exactly where its program counter says (`ClosersOK`,
`WorkersOK`), and `dead_users` counts at least the data workers that still have the
retired socket (`UsersOK`), although it is set after the socket is published.

**`RxUsbLaneProofs`** (endpoints, requests, packets, both rings, caps and backlog of any
size, any number of resets and failures; one streaming lane, `Lane = {a}`, see section 5):
`LaneInvariant`; `LossFlagged`, every behaviour of the lane is one of `FlaggedStream`, the
refinement that the run checks as `Flagged`; `SeamsShown` (`NoBuriedSeam`);
`TransfersIntact` (`Intact`). The argument about what is shipped is a chain of joints: the
LA ring declares every gap between two sub-buffers (`RingOK`), the first of them joins the
partial packet unless a DISCONT is owed (`HeadOK`), the packet joins the last one shipped
(`PacketOK`), and its own sub-buffers are one run unless a catch-up jump still owes its
mark (`PartsOK`). A drop, flush, jump or stand-down cuts the chain at one joint, and the
proof of each shows the mark that it raises there. A reset cuts the chain behind the last
packet shipped and goes on with `lap`; so `RingOK` says of `lap` too that it declares its
gaps, up to what the firmware writes next, and the chain starts again with the first packet of the lane
(`anew`).

`TransfersIntact` is about the slots: `FlightInv` says that everything outstanding was
shipped from a slot `Age + 1` places behind the lane's (`OwnSlot`; `FirstSlot` is the first
packet after a reset), and `AgesOK` that no more packets were shipped after it than are
outstanding behind it or have overtaken it (`over`). As there are no more requests than
`Requests`, a transfer that fewer than `RingSize - Requests` have overtaken is less than a
lap old, and its slot is not the one being filled. The code guarantees no more:
`AlwaysIntact` is refuted for the next one.

**`TransmitProofs`** proves about `TxPool` and `TxAir`, which share no state.

Of `TxPool` (any finite set of buffers, any writers): `PoolTypes`, `OneOwnerEach`
(`OneOwner`), `PacketsInOrder` (`InOrder`), `SleepersWoken` (`Woken`). Behind `OneOwner`
stands what the consumer's copied pointers are worth: `CopyOK` says that the neighbours
copied still are on either side of the node, and next to it unless something was inserted
between (`stale`); so an unlink removes the node, and what stands between the copied
neighbours, and nothing else. `HeldOK` (the consumer's buffer is pending while it places
it), `SeenOK` and `HandsOK` carry the rest. The lemmas `Insertion`, `Cut`, `Greatest`
and `PosFacts` say what the sorted insertion and the unlink do to a list of any length.
The invariant ends with `caught`, as the model does.

Of `TxAir` (any ring, slot size, start of the slots, margins and wrap that keep the order
of the code's, any gaps and packet sizes up to half the ring): `AirTypes`,
`PlacedSamplesAir` (`PlacedAirs`), `NothingAirsEarly` (`NeverEarly`), `WindowsHoldTruth`
(`WindowTruth`). All have the premise `[]InReach`: the packet to be judged has a stamp less
than a wrap away from the timer, which 32 bits cannot tell from any other; how many wraps
the timer makes is not bounded. `ExtendIs` says that a packet judged good then has the
extended stamp the client meant. The proof is half arithmetic: what a place of the ring
has to do with ticks (`SlotOfPlace`, `SamePlace`, `SameSlot`, `SlotsAhead`), which tick a
packet writes to a place (`Cell`, `Covers`, `WrittenIs`), which slots a tick cannot be in
(`Clear`). The invariant says that packets follow each other and all that is promised
(`Queued`, `Past`), that what was judged still is far enough ahead (`JudgedOK`), and what
a window is worth (`Sound`): it ends where its next slot begins, the gap before its last
packet is a number of laps, all its ticks were promised, and when there is a gap it ended
in the past. So the silence behind a window that closes falls on nothing that is still to
be fetched (`BreakClear`, `EndClear`), which needs that a slot is no longer than the
fetch-ahead (`Tps <= Ahead`; 16 slots in the code).

**`ChipTimeProofs`** proves about `WindowPump` and `PhyTime`, which live on the same
wrapping counter.

Of `WindowPump` (any wrap of the timer, queue, ring, margins and number of
windows): `WindowsOneByOne` (`OneWindow`) and `QueueWatched` (`Woken`). Times are compared modulo the wrap, so `AfterIs` says when the
sign of the difference is the order: for ticks less than half a wrap apart. `OneWindow`
needs that a window and its lead fit into half a wrap (`ShortLeads`; 35 s in the code,
whose largest lead is half the DAC ring), so that a mark ahead of the timer is seen as
ahead (`LeadOK`); that what stands in the mailbox of a latched session is the window of the
close mark (`MailOK`); and that while the VSPA holds an open window the mark is not before
its close (`HeldOK`). The theorem about `Woken` has the premise `[]Fresh`: nothing the pump
compares with the timer is half a wrap old. It bounds no run and no session, only the
time a stream of windows may pause, and it is what `PacedTruth` violates in `WindowPump_marks.cfg`.

Of `PhyTime` (any set of callers, any width of the counter, any step and gap, any number
of ticks, wraps, restarts, resets and reopens): `TimeTypes`, and under `Sampled`, the two
assumptions of section 3 with `Gap <= MaxStep`, `TimeExact` (`Exact`), `AlarmsTrue`
(`NoFalseAlarm`), `RestartsSeen` (`RestartSeen`) and `GateHonest` (`GateTruth`). Without
`Gap <= MaxStep` `PhyTime_gap` refutes the second, without `Prompt` `PhyTime_late` the last. `AlarmsTrue`
and `RestartsSeen` are what `GateHonest` rests on; no run lists the two, `PhyTime_generation.cfg`
checks them. The invariant `PhyInv` says which steps sampler and reset can be at together
(`StageOK`), that a sample in hand is the counter of the moment it was read, or one of a
run now over (`SampleOK`), that while no restart is open the wrap count and the last sample
make up the time of the last landing, less than a wrap ago (`TimeOK`), and that
what a call has snapped still stands, unless a write section sent it round again
(`CallOK`). From these the arithmetic of the two verdicts follows: the
difference modulo `Lap` of two samples at most `Gap` apart is their distance, so a wrap is
within `MaxStep` and a restart that the counter shows is not. `SightOK` follows a restart
to the first sample behind it, `LatchOK` the generations to the latch.

**`StreamWordProofs`** (any processes, words, numbers of operations and troubles, whatever
overlaps): `WordTypes`; `SettledWord` (`Settled`) and `CycledBeforeTx` (`TxCycled`);
`SomebodyCan` and `NobodyHangs` (`NoHang`). The invariant has three layers. `Wired` holds
whatever overlaps and fails: what each place of a process says about the lock and its
command (`Holds`), that a quiesce sends the empty word only (`Stops`), and whose the fence
is (`Fenced`). The other two hold while the word is not in doubt. `Excl` is what the lock
achieves then: one process at a time is between its check of the mailbox and its end, while
the chip is up and its last restart was noticed. `Trues`: the mailbox and the M4 hold the
command of the process that waits for them, and no other (`Answered`), so no wait ends
without its answer; the chip runs the recorded word, except from the answer to the commit
(`Truth`), which lets a word sent twice (`again`) run before it is recorded; and a lane has
cycled where the chip runs a word, where the recorded generation is the live one and where
TX is about to be sent (`Cycled`). A step that starts beside something raises the doubt
(`Meet`) and owes nothing; a reset that begins alone leaves a chip that runs nothing and a
mailbox nobody waits for, from which both layers are shown again.

`NoHang` is about `ENABLED Work`, which the prover takes as it stands. `CanWork` spells
out the guards of `Work`'s actions, and `SomebodyCan` shows, whatever overlaps and
after any failures, that they never all fail while an operation is unfinished: the owner
of the lock is past it and can go on (`AtWork`), what keeps another from starting can go on
itself (`SomebodyWorks`), and whoever is at the lock or at a reset knows why (`Kept`, an
invariant beside `Wired`). `NobodyHangs` concludes `NoHang` from it and from the one premise
`[]GuardsTrue`, that `Work` is enabled where `CanWork` holds; that is what
`StreamWord_guards.cfg` checks.

**`ControlPlaneProofs`** proves about `Session` and `Control`.

Of `Session` (any finite set of workers): `SessionTypes`, `ResetsRunAlone`
(`ResetAlone`) and `SessionImplementsService`, that every step of jobs, lock, workers and
chip is a step of `SessionService` or a stutter, the safety part of `ServiceSpec`.
`ResetAlone` needs that only the holder is between lock and unlock (`HolderOK`) and that
the workers stay away from the end of the stop to the start (`AloneOK`); the refinement
needs which stages a job of each kind can be in (`PathOK`) and that a result is good until
something failed (`RetOK`), because the service lets only a completed restart answer
success.

Of `Control` (any bounds on sessions and lists, any set of rates):
`ControlTypes`, `TxAnswersTrue` (`TxTruth`), `RatesHonest` (`HonestRate`), and
`RatesInRangePlan`: every rate in the announced range has an RX plan whose clock the
planner validated. `TxTruth` rests on `Kept`: from the copy of the list to its answer
work and verb agree, because the next TX verb waits for the work. The run has two rates;
the proof needs the planner for all of them (`RxClock`, `RxExists`, `TxClock`,
`AcceptedRate`: what the rate check accepts, the plans of all directions can make).

**`RxServoProofs`** (any settings of the API's structs, any lists and solves):
`ServoTypes`, `ShadowsTrue` (`LatchTruth`), `PortIsTx` (`TxOwnsPort`), `CachesTrue`
(`CacheTruth`), `CarriersFound` (`CarrierAccounted`), `ProbesUndone` (`NoStandingProbe`).
What is hard is that an apply is two steps and the struct may change between them. `LockOK`
ties program counters to the lock, `LatchOK` says when the M7 owns the latches, `CacheOK`
that an apply ends on the frequency it tuned to unless `torn`, `CarrierOK` that the apply
which will switch a chain off is still to come and not half done, `NullOK` which stages of
the null can have an offset in the codes. `BoardSteps` reduces every caller's steps to the
few kinds that the board's invariants see.

**`ShivaProofs`** proves about `Endpoint` and `VspaRegistry`, which share no state.

Of `Endpoint` (any number of rescans): `EndpointTypes`, `OutagesFenced`
(`OutageFenced`), `TeardownsQuiet` (`QuietTeardown`), `ProbesRetryable` (`Retryable`). The
invariant tells for every stage of probe, error path and removal what is held for certain
(`HasOK`) and what can be held only there (`MayOK`), where the driver core and the reprobe
can be at the same time (`WhereOK`), when the fence is up (`FenceOK`) and who may be inside
a window (`InsideOK`). A module loaded over a dead link (`lost`) has no root port to reprobe,
so the fence stays down.

Of `VspaRegistry` (any image files with their capabilities and ranks, any registry, any
number of boots): `RegistryTypes`, `RunningMarkTrue` (`RunningTruth`), `ChannelOwned`
(`ChannelExclusive`), `PlansServed` (`ApplyCaps`). `LoadedOK` follows the image of a boot
from its sections into the core, `MarkOK` says which image the mark names meanwhile, and
`ChosenOK` that the selection an apply works with provides what its plan asks for until
the boot has ended. `BestProvider` and `SelectionIs` are about the selection: among any
images that provide a set of capabilities there is a best one, and it is what
`SelectFor` returns. The proof failed at first on a reset that finds no base image, and
TLC then found the behaviour that section 5 tells; the exception was missing before.

Only model-checked:

* liveness, which the prover cannot reach: `RestartEnds`, `TxAnswered`, `Rewired`,
  `Adopted`, `NullEnds`, `ReprobeEnds`, `BootEnds`, `GateReopens`, and the fairness part of
  the refinements;
* `GuardsTrue` of `StreamWord`, about an `ENABLED`, the premise of `NobodyHangs`.

## 7. Not modelled

* The local RX lane and its zero-copy reader (4962-5215): a second ring beside the
  USB lane, with references across release; next in the plan.
* That `TxAir` and `WindowPump` run on `PhyTime`'s time: they take a true tick as given,
  which `Exact` says of a call that began with a sample in place.
* The watchdog sub-driver is never registered. The soft restart (`hard = 0`) has no
  caller. Dead code (the USB flush mode, `rfnm_usb_buffer_done_in`) is left out.
* Granita and Yucca boards (the same apply interface as the Lime board, without its
  caches), dBm tables, sysfs and debug doors, GET verbs that only copy state out, the
  order of fields within a validation.
* QEC's estimator and corrector arithmetic, the SIMD packing kernels and the host
  tools: data, no control.
* What an IPC client's channel ioctls do on the file of a removed device (they go by
  freed memory), and everything after such an access.
* In the transmit path: the ingest without spare buffers (four spares and one worker,
  so it is never reached), the pump check and the heartbeat fault before the judge (a
  packet is put off), a ring anchor that changes under queued packets.

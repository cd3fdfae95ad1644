# DSperate in TLA+

DSperate is a Nintendo DS and DSi emulator in C++ for small ARM machines. Most of its code
computes what a device does (instructions, pixels, samples) and is compared with references by its
tests. What tests hardly reach is the *control* around it: a table of timed events that handlers
change while it is walked, two CPUs that take turns on one thread and must not drift apart,
interrupts cached in one flag, mailboxes between CPUs that see each other's past, worker threads
with hand-written synchronisation, and a multiplayer session between machines. This directory
models that part in TLA+, checks small instances with TLC and proves the central invariants with
TLAPS for every value of the constants.

`PROJECT.json` maps every definition to the lines it stands for and lists the runs, the mutants
(one plausible bug per property, which the property must catch), the hazards and the theorems.

## The system

| Component (under `src/src/`) | State it keeps | Operations | What makes it correct |
|---|---|---|---|
| Scheduler (`core/sched`) | event table `armed_`, `at_`, cached `next_`, `next_id_`; clock `now_`; `arm7_debt_`, `arm9_carry_`; the running slice | `schedule`, `cancel`, `settle`, `fire_due`, `run_cpu`, `preempt`, `yield`, `slice_next`, `run_until*`, `sync_state` | nothing armed is forgotten, fired early or fired too late; both CPUs' clocks agree; a run ends |
| Interrupts (`core/io/io.cpp`, `core/cpu`) | IE, IF, IME, `hot.irq_pending`, `halted`, `irq_offline`, `irq_skip_once` | `request_irq`, `update_irq`, `check_irq`, HALTCNT, CP15 wait | the cached flag is exact; a CPU does not sleep through an interrupt |
| IPC (`core/io`) | two FIFOs of 16 words, the control registers, the ARM9's held words | `ipc_fifo_send`, `ipc_deliver`, `ipc_fifo_recv`, `ipc_fifo_cnt_write`, `ipc_sync_write` | a word arrives once and in order; each side is told what it waits for |
| Line worker (`core/gpu/line_worker.h`) | request and acknowledge counters, `parked_`, `quit_`, mutex, condition variable | `start`, `dispatch`, `wait`, `stop`, the thread's `loop` | the caller gets its data back after the job and only then; no lost wake-up |
| Band pool (`core/gpu/render3d.cpp`) | frame job, bin cursor, done bits, generation, sleeping workers, contexts for thieves | `dispatch`, `claim`, `mark_done`, `wait_bits`, `wait_idle`, `steal_bins` | each bin is drawn once, by one thread, for its own frame, before it is read |
| LAN multiplayer (`net/lan_mp.cpp`, `core/io/wifi.cpp`) | player table, connected mask, ENet peers, packet queue | host and client events, start and end of a session, CMD and reply exchange | all machines agree on who is who; an answer is counted for its own CMD; a wait ends |
| 2D GPU (`core/gpu/gpu.cpp`, `engine2d_regs.cpp`) | line counter, the journal of writes, lines not yet drawn, jobs in flight, write trap, map snapshots | `on_hblank`, `on_scanline_start`, `reg_write`, `vram_store_trap`, `vram_remap_begin`, `render_ranges`, `join_worker` | a line is drawn with the registers and the VRAM it had, however late |
| Presentation (`frontend/sdl/display*.cpp`, `present_thread.h`) | the buffers' roles in each sink, presenter threads, the GPU present queue and its stage | `begin_frame`, `end_frame`, `present`, `flush`, `close`, `draw_async`, `sync` | nothing on the panel is drawn into; frames are shown in order; no wait is left asleep |
| 3D engine, rasteriser, VRAM maps | registers, command FIFO, textures | commands, swaps | tests compare pictures |
| DMA, timers, SPI, cartridge, sound, Wi-Fi, DSi devices, slot 2 | registers | register accesses, event handlers | mostly sequential; their timing goes through the scheduler |
| CPUs: interpreter, translator, idle and wait loop analysis | registers, code cache | instructions | tests compare both engines |
| Save states, cheats, achievements, frontend | files, queues | | I/O |

How they interact. One thread runs the machine. `run_until` gives the ARM9 a slice of the time up to
the next deadline, then the ARM7 what it owes for it at half the clock, advances `now_` and calls
`fire_due`. An instruction reaches devices through I/O registers; a device answers by arming an
event, requesting an interrupt (`request_irq` recomputes the flag the run loops test and wakes a
halted CPU) or starting a DMA (which preempts the CPU and takes the rest of its budget). The word an
ARM9 puts into the mailbox is held until the ARM7 has caught up. Lines of the 2D engines, the bands
of a 3D frame, presenting and achievements run on threads of their own; other machines are reached
through ENet.

What is hard here: handlers that change the table under `fire_due`'s walk; events armed in the
middle of a slice that is already issued; odd cycles and overshoot between clocks of different
speed; edge-triggered requests tested through a cache; two CPUs executed one after the other that
must look concurrent; store buffering around a park and its wake-up; a stop at any time; messages of
several peers in different orders; datagrams that are late or lost; lines drawn after the state they
show has been overwritten; buffers in the hands of a thread, a driver and a panel. PROJECT.json lists each one at its line under "hazards".

## The modules

| Module | Models | Checked by |
|---|---|---|
| `Scheduler` | event table, `fire_due`, slices, DMA in a slice, `settle`, idle skip, save and load | two runs, `SchedulerProofs` |
| `Irq` | interrupts and halting of both CPUs, the DSi's off-slice rule | the run `io`, `IoProofs` |
| `Ipc` | FIFOs, held words, control register | the run `io`, `IoProofs` |
| `IpcChannel` | what the FIFO promises: two bounded queues | refined by `Ipc` |
| `LineWorker` | the worker thread under store buffering | one run, `LineWorkerProofs` |
| `HandOff` | what the worker promises: one owner of the job's data | refined by `LineWorker` |
| `BandPool` | the 3D renderer's worker pool, the thief, the compositor's waits, the double buffer | two runs, `BandPoolProofs` |
| `Lazy2d` | lazy 2D rendering: journal, batches, bursts, lag, deferred frames, write trap, remaps | two runs, `Lazy2dProofs` |
| `Display` | the frame path after `open`: one of the three sinks, or the present thread | one run, `DisplayProofs` |
| `FbdevOut`, `DispOut`, `DrmOut` | the buffer rotation of each sink, with its presenter thread or completion events | composed by `Display` |
| `PresentThread` | the GPU present queue, its tickets and the stage of `draw_async` | composed by `Display` |
| `Panel` | what a sink promises: frames in order, the last one shown | refined by `Display` |
| `LanSession` | host and clients of a LAN session | two runs, `LanSessionProofs` |
| `LanExchange` | the host's CMD, reply and acknowledge exchange over datagrams | one run, `LanExchangeProofs` |

`MC*` modules only give constants that a `.cfg` cannot write; `TwoCpus` names the two CPUs. `MCIo` also
puts `Irq` and `Ipc`, which share no state, into one instance, where each moves only while the other
is where it started.

### Scheduler

State. `ev` is the table with its cache, `firingAt`, `now`, `debt` and `carry` are `firing_at_`,
`now_`, `arm7_debt_` and `arm9_carry_`. `run` is the slice in progress: who runs, its budget, what
it was issued, the residual a preempt saves, whether it was a DMA iteration of its own. `pc` says
where in the loop the thread is: `stopped`, `fire` (the test of `fire_due`'s outer loop), `walk` (its
inner loop), `handler`, `begin` (a slice starts), `cpu` (`run_cpu`'s DMA part), `exec`
(instructions), `settle`, `done` (a CPU's part is over), `sliceEnd`. `run_until_impl` and
`slice_next` are the same loop, once as nested calls and once flattened for translated code, and
share the actions.

Actions. `BeginPass`, `Fire`, `PassOver`, `HandlerDone`, `EndPass`, `FireDone` are `fire_due`, one
action for each event visited. `HandlerSchedule`, `HandlerCancel`, `HandlerSignal` are what a handler
may do, in any number and order. `BeginSlice`, `RunDma`, `EnterCpu`, the `Exec*` actions (an
instruction that does nothing to the scheduler, arms, cancels, settles, starts a DMA, yields, halts
or wakes), `RunReturns`, `Arm9Done`, `Arm7Done`, `SliceEnd` are the slice. `RunUntil`, `Return`,
`Reset`, `SaveAndLoad` are the callers. Guest data is not kept: what an instruction or handler does
is chosen freely, so the properties hold whatever the game does.

Left out: the idle cut (`emu.idle_cut`, an option that is off), a change of the ARM9's clock in the
middle of a slice, boot stalls, profiling.

### Irq

One record per CPU holds IE, IF (sets of sources), IME, the cached `pending`, `halted`, the CPSR's
mask, `offline` and `skip`. `running` and `pc` keep the order of `run_cpu`: a DMA first (`dma`, the
code's `in_dma_`), then the engine's check (`enter`), then instructions (`exec`). `Raise` and
`Lower` come from devices, handlers and the other CPU at any time the CPU does not run; a running
CPU raises, acknowledges, masks and halts by its own instructions. `waits` is history: CPUs whose
interrupt rose off-slice and that have executed nothing since. The DSi's second pair IE2/IF2 is more
sources of the first.

### Ipc

`fifo` holds the ring buffers themselves (data, head, count, last word), `held` the ARM9's held
words, `cnt` the control registers, `at` the place in the slice: ARM9 DMA, ARM9, ARM7, delivery.
`raised` is history of the two edge-triggered interrupts. `SendHold` ends the ARM9's slice as
`yield` does, since both engines look at the budget after every I/O access; a DMA of the ARM9 pushes
directly (`SendPush`). The refinement mapping is the ring's contents followed by the held words.

### LineWorker

`mem` is what is in memory, `buf` each thread's stores not yet there (a store-buffer model: the
fences wait until the buffer is empty, which is what the Dekker pair of `dispatch` and `loop` relies
on), `mutex`, `caller` and `worker` the two threads' places. Counters wrap after `Wrap` dispatches.
Waits may wake spuriously. `stop` may come while a job is outstanding. The refinement mapping is
`Owner`: who may touch the job's data.

### BandPool

`pool` is `Renderer3D::Pool` (generation, done bits, cursor, `jobs`, `remaining`, `thieves`), `job`
the closure the workers run, `worker` each worker's place in `loop` and in the job. `emu` is the
emulation thread: free, in `sync_all`, `steal_bins`, `wait_idle` or `wait_bits`, or in `render` up to
the notify that follows a dispatch; its field `then` says what follows (the line is used, the next
frame prepared, the pool stopped). `comp` is the compositor, engine A's line worker, which walks the
bins of the frame on display and only waits. `r`, `ctx` and `ref` are the renderer's `gen_`,
`pending_bands_`, `display_`, its two contexts for thieves, and the `FrameRef` taken at line 0. `out`
says of both buffers, bin by bin, which frame's picture they hold: drawing is writing the frame's
number. A critical section is a step; sleeping, being notified and waking for no reason are steps.

`HandOver`, `SyncLine`, `SyncRaster` (texture VRAM is remapped, a state saved), `RenderFrame` (line
215), `SkipFrame`, `BeginFrame` (line 0) and `Destroy` come in any order the line counter allows;
handing a batch to the compositor and joining it are taken from `LineWorker`. A frame is kept, drawn
inline, or given to any number of workers up to `W`; the pool is made as large as that with the
thread layout on, and `W` without it.

Left out: the GPU rasteriser, which walks span tables on the same pool and posts its frames to a
thread of its own; the cost model that cuts the bins; a compositor still inside a wait on a pool that
is being replaced (the model grows the pool only when it is not, and PROJECT.json lists the hazard);
the flag that spares a thief preparing its band twice.

### Lazy2d

`gpu` is a record of `Gpu`'s members; the functions of `Gpu` and of `Engine2DRegs` are operators from
one such record to the next (`render_ranges`, `join_worker`, `arm_trap`, `queue`, `replay_to`, ...), and
an action is one entry from outside: `on_hblank`, `on_scanline_start`, a register write, a write of
DISPCNT, a VRAM store, a remap. `WorkerLine` is one line drawn by a worker while its job is in flight; a
join draws what is left of it. Data are versions: `n` counts the guest's writes per engine (an entry of
the journal says which version it leads to), `ver` the stores to each VRAM bank. What the hardware would
have shown of a line is kept in `due` at the line's HBlank, and every line drawn is compared with it;
`unlike` collects those that differ or are drawn out of order.

Chosen freely: whether a worker is parked, whether a frame uses the display FIFO, which engines
`begin_frame` takes for futile (their counters are left out), whether a block has overlapping banks.
The latches of one hook are one entry. `LAG_TRAP_LIMIT` is left out: it is larger than
`LAG_STORE_LIMIT`, which counts every store it counts. `Abrupt` lets engine A turn to display mode 2
while lines are in flight; without it only when none is and no batch
is trapped for another mode (`Quiet`), because of what `lazy_2d_dispcnt` shows. The second half of `Quiet`
matters for a write that turns engine A back and forth: the trap keeps `lcdc` from the mode it was armed in.

Left out: display capture with its read trap, the display FIFO's data, skipped frames and hidden
screens, save states, the 3D line (`BandPool` has its waits).

### Display, its sinks and the present thread

The three sinks share the variables of the rotation (`cur`, `scan`, `addr`, `frame`, `content`), so
`Display` states one property for all of them; `sink` says which one `open` settled on. `scan` is what
the panel shows, `addr` what it will show from the next refresh on, `Refresh` that refresh. Critical
sections are steps, and so is each notify made outside the lock, each ioctl, each sleep.

`FbdevOut`: `begin_frame` waits for a buffer that is neither displayed, latched nor pending; the
presenter latches, pans, waits and frees. A pan may fail, which ends the sink. `DispOut`: `present`
never waits and takes a pending composite back; the presenter waits for a refresh, then flips, and the
composite before stays in use until the flip after. `DrmOut`: no thread; the completion event is read
by `begin_frame`, `flush` and `close`, and reading it issues the queued flip. A flip may be refused and
a completion may not come. `PresentThread`: `DrawAsync`, `SyncWindow`, `Stage`, `PostJob` are
`Display::draw_async`; `Touch`, `Use`, `Used` any other operation of a window, each of which calls
`sync`; `Leave` to `Joined` the end of the program.

The refinement mapping to `Panel` is the number in the buffer on the panel: frames are shown in order,
and while the sink is in use the last one is shown.

Left out: pacing by the clock, on drivers whose pan does not block; `--no-vsync`; the overlay and grid
layer; a layer ioctl that fails; reopening; the dma-buf sink of `display_wl.cpp`. `FbdevOut` takes it
that the panel is at offset 0 when it opens.

### LanSession

`players`, `num` and `mask` are the host's table, count and connected mask; `state`, `who`, `data` its
ENet peers; `toHost` and `toClient` the reliable, ordered command channels; `at`, `mine`, `id`, `list`,
`hostOn`, `on` the clients. `HostConnect`, `HostDisconnect`, `HostReceive` are `process_host_event`,
`StartClient` and `JoinDone` `start_client`, `ClientReceive` and `ClientLost` `process_client_event`,
`HostPower` and `ClientPower` the games' radios (`begin`, `end`). A client may vanish at any point.

Handshakes overlap each other and the leaves, as in ENet: a request can come, and a peer can leave,
while another client's handshake is under way. `data` keeps what a freed peer pointed to, as
`ev.peer->data` does. When a refused connection ends on such a peer, the host takes the old pointer for
the leaving player's and frees an entry (`lan_mp.cpp:288`). `strayed` is a history variable, which no
action reads: it records that this has happened. `TableSound`, `ListsAgree` and `PowerAgrees` are about
the behaviour before; what comes of it is the finding of `lan_session_overlap`.

Left out: discovery, names, pings, the host's own end of the session, and the connects clients make to
each other: a client's ENet host is bound to no port, so they reach nobody.

### LanExchange

The host's radio: `SendCmd` (queued replies are dropped), `BeginReplies` (the CMD is out), `TakeQueued`,
`StartWait`, `TakeArriving`, `Timeout` (`recv_replies` around `process_lan`), `Acknowledge`; between any
two of them `Process` once a frame, `RecvPacket`, power events and stalls longer than `STALE_MS`.
`air` holds the packets under way; delivery is in any order, or never. `owed` are the answers clients
may still give. Time is counted in CMDs: `Gap` between their ends is larger than the window of 32 us
and a client's clock error together, which `GapAssumption` states.

Left out: a client's receiving side, the millisecond clock's wrap-around.

## What the runs check

Passing runs:

| Run | Instance | Shows |
|---|---|---|
| `scheduler_ds` | 2 events, quantum 2, instructions of 1 or 2 cycles, delays 1 and 2, two runs of 1 or 3 cycles | `NextIsEarliest`: the cached deadline is the earliest armed one whenever a CPU or a slice relies on it. `NothingOverdue`: `fire_due` leaves nothing due, although handlers re-arm at lower ids and in the past |
| `scheduler_dsi` | DSi at 134 MHz: two core cycles per tick, system cycles of two ticks, quantum 3; 1 event, a run of 5 ticks | with `arm9_carry_` and slices cut at events armed inside them: `ClocksAgree`: ARM7 time and debt add up to the clock. `FiresOnTime`: at a slice's end no event is overdue by more than the slice, or than what the ARM7 had to catch up on in it, and a slice of more than a tick is shorter than quantum, margin and an instruction together. `RunEnds`: every `run_until` returns, through repeated passes and zero-length DMA iterations |
| `io` | a DSi's interrupts with 2 sources; the IPC with 2 words, FIFOs of 2, four control values | `PendingExact`: the cached interrupt flag is exact. `ARM7Wakes`, `NoneOverlooked`: no interrupt is slept through or overlooked. `HeldFits`: delivery finds room, nothing is held between runs. `EdgesTold`: the receiver's and the sender's interrupts are never missed nor invented. `ImplementsChannel`: the rings and the held words are two FIFO queues |
| `line_worker` | counters that wrap after 3 | `WaitMeansDone`, `NoLostWakeup`, `CallsReturn` (`wait` and `stop`), `ImplementsHandOff` |
| `band_pool` | 2 workers, 2 bins, 2 frames, thread layout off | `LineReady`: a line is read only when its bin holds its own frame's picture, also while the next frame is dispatched and drawn. `OneDrawer`: a bin has one drawer. `DispatchAlone`: job and contexts are replaced only when every worker has left the job and no thief draws. `WaitsReturn`: no wait is left asleep, and the pool's destruction ends |
| `lazy_2d` | 3 display lines of 5, batches of 2 are long, 2 banks, both workers, scaling; a write, a mode change, a store to each bank, a remap, at any time | `LinesExact`: every line is drawn once, in order, from the registers and the VRAM of its own time. `JournalSound`: no write is lost, repeated or overtaken on its way through the journal, and `frame_done` never aborts. `FrameComplete`: nothing is left when the next frame begins |
| `display` | fbdev with 3 buffers, the display engine with 4, KMS with 3, 6 frames; 2 windows, 5 jobs | `NoTear`: the buffer being drawn is neither on the panel nor about to be. `ImplementsPanel`: frames are shown in order, and the last one is shown. `JobsSafe`: a job's frame and presenter are not touched before it has run. `SinkReturns`, `ThreadReturns`: no wait is left asleep |
| `lan_session` | 2 clients, a table of 3, 3 peers, 3 joins, a power change; no entry is freed through an old pointer yet (`strayed` stays false) | `TableSound`: the table is counted and every peer has an entry of its own. `ListsAgree`, `PowerAgrees`: a client with nothing under way knows the host's table and power, and the host the client's. `JoinSettles`: no entry stays with a client that never finishes its join |
| `lan_exchange` | 2 clients with crossed ids, one clock late and one early, 2 CMDs, a regular frame, a power change, a stall | `AnswersRight`: only answers to this CMD count, each in its client's slot, and one that has arrived is queued or counted. `FailJustified`: no client is reported as failed with its answer in the queue. `RepliesReturn` |

Runs that find the code in disagreement with what the repository says of it (see PROJECT.json,
"findings", for the quotes):

| Run | Shows |
|---|---|
| `band_pool_layout` | With the thread layout on, a pool that proves too small is replaced by one whose generations start again at 1, while the thief's context is filed under the parity of `gen_ + 1`: the thief draws with the context of the frame before, into that frame's buffer. |
| `lan_session_overlap` | 2 clients, a table of 2, 2 peers, 4 joins. `ClientsFit`: a client joins on a peer and leaves, another asks on the same peer while a third request is accepted under the freed id; the refused connection's end then frees the accepted client's entry through the peer's old pointer, the host counts a player too few, and one client more than the session has room for gets in. |
| `lazy_2d_dispcnt` | Engine A turns to a VRAM bank while its lines lag: the trap is armed from a DISPCNT the write has not reached, so the bank is not trapped, and a store to it is seen by a line already scanned out. |

Further disagreements were met while modelling and proving and are kept as notes of their hazards: those
that limit the theorems about `Lazy2d` (see "What is proved"); on a DSi an
event the ARM9 arms inside its slice cuts the slice (`scheduler.h:224`), but an ARM9 that halts
afterwards is charged with the length before the cut (`scheduler.cpp:634`), so the ARM7 runs past the
event, which fires late; on a DS an
idle slice runs to the next deadline with a DMA in it, whose events are then late (`scheduler.cpp:233`);
at 134 MHz a DMA can be given a negative budget (`scheduler.cpp:499`); the ARM9's wait for interrupt
halts with one already pending (`cp15.cpp:146`); a DSi ARM9 entered without budget uses up its skipped
check (`cpu.cpp:166`).

Bounds. Times are small because the scheduler only compares and subtracts them: what matters is that
a delay can be below and equal to the quantum, an instruction can overshoot a slice and an
event, the ARM7 can be left behind by a yield, and odd and even amounts meet. Two events give every order of two ids; three or more add no
comparison that two do not have, and the theorems hold for any number. Two sources suffice for the
interrupts, since all conditions are about "some bit of IE and IF". A FIFO of two wraps around, is
full, and is full with one word held; `FewControls` covers each of the bits' edges. `Wrap = 3` is the
smallest counter in which the value before last differs from the next one. Two workers and a thief
can all be in the job; with two bins one of them always comes away empty, and the two frames are the
one the compositor reads and the one drawn meanwhile; from the
third frame on only the generation's value and the roles of the two buffers differ. Three display lines
have a first, an inner and a last one, and two VBlank lines a deferred job that is joined late; limits of
2 are reached. The journal's capacity is not reached. Two banks start in two places and give a bank in
each engine's reach or, after a remap, both in one's. Six frames take every buffer of every sink through all its roles; two windows share the
stage. Two clients fill a table of three, so a third join is refused or takes an id that became free. For
an entry to be freed through an old pointer a table of two needs three joins, and a fourth to overfill it.
Two CMDs suffice, since an answer is early, late or in time for exactly one.

Fairness. The scheduler is one thread: whatever it can do next, it does (weak fairness of
`fire_due`, of instructions and of the slice loop; handlers are not required to do anything, but a
handler returns, which is part of `FireDue`). In `LineWorker` both threads are scheduled (weak), a
store reaches memory (weak), and a mutex that is free again and again is got in the end (strong, for
the two acquisitions of the caller that compete with a worker parking and waking). In `BandPool`
all threads are scheduled (weak), since a thread that has something to do is never kept from it
there: critical sections are single steps. The emulation thread is only held to finishing what it
has begun. Nothing forces a dispatch, a stop or a spurious wake-up. In `Display` the threads run, the
drawing of a frame and a job end, and the panel is refreshed; for KMS the main loop draws another frame
or, when it pauses, flushes (`main.cpp`), which `ImplementsPanel` needs. In `LanSession` the host
services ENet every frame, and ENet ends a handshake and gives up a peer that is gone; clients are held
only to ending their join, one way or the other, after five seconds at most. In `LanExchange` only the
host's thread is fair: nothing is assumed of clients and network. `Lazy2d` states no liveness.

## What is proved

`SchedulerProofs`, for every number of events, quantum, margin, instruction cost and set of delays,
on a DS and on both clocks of a DSi:

- `TypeCorrect`: `Spec => []TypeOK`. Among it: `arm9_carry_` stays below one system cycle.
- `CacheCorrect`: `Spec => []NextIsEarliest`, and `FiredAll`: `Spec => []NothingOverdue`. Neither is
  inductive. During a pass `next_` has been reset and is rebuilt from what the walk passes over and
  what handlers arm; it may even name an event that has fired since (a handler armed it at a higher
  id, in the past). `TableInv` says what a pass keeps: `next_` is at most the deadline of every armed
  event the walk will not visit any more, and if it lies in the future it is exact. So when the outer
  loop sees `now_ < next_` the cache is exact and nothing is due; otherwise another pass follows.
  The lemmas `RescanExact`, `ScheduleKeeps` and `CancelKeeps` say what each operation does to an
  exact cache and to one in a pass.
- `ClocksCorrect`: `Spec => []ClocksAgree`, with `SliceInv`: only between the ARM9's part of a slice
  and its end has the slice a length that the debt contains and the clock does not.
- `OnTime`: `Spec => []FiresOnTime`. A fixed bound on an event's lateness, which an instance with a
  small quantum suggests, is false: an ARM7 that yields slice after slice (`IPCSYNC` writes) falls
  behind without limit, and what it arms is stamped with its own clock. What holds is relative:
  `DeadlinesAhead` says that every deadline is later than the earlier of the slice's start and the ARM7's clock then,
  which needs `NothingOverdue` where the slice begins and, for what is armed in it, that a CPU's clock
  does not run backwards through cuts, preemptions and returned residuals (`SpendInv`). `ShortInv`
  bounds the ARM9's overrun; slices of one tick are left out, since the carry can make their budget
  negative, which a DMA takes for no limit (`scheduler.cpp:499`). `CutSpends` says what a cut keeps,
  `ArmsOnly` that `schedule` and `cancel` move no other event.

The assumptions are those named in `Scheduler`: at least one cycle per quantum and instruction,
positive delays below the largest time, no clock shift and no margin on a DS.

`IoProofs`, of `Irq`, for every set of sources, on a DS and on a DSi:

- `FlagExact` (`PendingExact`), `SleepsSoundly` (`ARM7Wakes`), `OverlooksNone` (`NoneOverlooked`) and
  `IrqTypeCorrect`, from one inductive invariant. The first two are about one CPU's record
  (`RecordInv`) and are kept by each operation on it: the lemmas `UpdateIrq`, `RequestIrq`,
  `CheckIrq` and `ConvertIrq` say so once, and each action cites them. `NoneOverlooked` is not
  inductive: a skipped check must be known to belong to an interrupt that rose off-slice. `SkipInv`
  adds that a CPU marked `offline` or `skip` is among those waiting, and that the mark has been
  converted once the engine is entered.

The only assumption is that `Dsi` is a Boolean.

`IoProofs`, of `Ipc`, for every FIFO length, every set of words and of control values, with and without the
deferral:

- `TypeCorrect`, `HeldWordsFit` (`HeldFits`) and `NoEdgeMissed` (`EdgesTold`). `HeldFits` and `EdgesTold`
  become inductive with `HeldAfter9`: a word is held from the ARM9's yield to the end of the slice only,
  so neither the ARM9 nor its DMA runs while one is held.
- `ChannelImplemented` (`ImplementsChannel`): the refinement of `IpcChannel`. The lemmas about the ring
  (`PushAppends`, `PopTakesHead`, `ClearEmpties`) say that masking the index is appending to and taking
  from the sequence `Contents`; after them every action is a step of the abstract queues or none.

Assumed: a FIFO has at least one cell, and zero is a word.

`LineWorkerProofs`, for every range of the counters (2^32 in the code; two values suffice):

- `TypeCorrect`, `WaitCorrect` (`WaitMeansDone`), `WakeupCorrect` (`NoLostWakeup`) and
  `HandOffImplemented` (`ImplementsHandOff`, the refinement of `HandOff`). The invariant says what the
  store buffers can hold: the worker's at most an unpark, an acknowledge and, before its fence, a park, in
  this order; the caller's at most the request, before its fence. With that a request is in one of five
  stages (`Quiet`, `Made`, `Taken`, `Run`, `Acked`), and `WillBeWoken` says that a worker going to sleep
  on a request still has its notify before it. Counters that wrap are told apart because the caller has
  one request out at a time.

`BandPoolProofs`, for every number of workers, bins and frames:

- `TypeCorrect`, `BinsClaimedOnce` (`OneDrawer`) and `FramesApart` (`DispatchAlone`), with the layout on
  or off. The invariant says what `remaining_` counts: the workers that are in the job or have been given
  it and not woken up to it yet. It is stated as the cardinality of the set `Busy`; `WorkerCounted` says
  what a worker's step does to it.
- `LinesRead` (`LineReady`) and `ThievesDrawTheJob` (of `ThiefHasContext`), for a pool that is made once
  (`~layout`). `LineInv` follows a picture from the job through the bits and the generation to the line
  that is read: the display is on the job's frame, or on the one before with all its bins drawn and the
  job in the other buffer. The hypothesis is needed: with the layout on, the run `band_pool_layout`
  shows a thief with the wrong context.

`DisplayProofs`, for every number of buffers (two or more for fbdev and KMS, four or more for the
composite sink), frames, windows and jobs:

- `TypeCorrect`, `DrawsApart` (`NoTear`), `JobsApart` (`JobsSafe`) and `FramesInOrder`, the safety part of
  `ImplementsPanel`: the panel starts with the first frame and every step is a step of `Panel` or none. Its
  liveness part stays with TLC. The invariant says, for each sink and each place of its presenter, which of
  the sink's records (`displayed`, `latched`, `queued`, `pending`) name the buffer on the panel and the one
  it turns to, and in which order their frames are. The composite sink's search
  ends because of its four buffers three are in use at most (`UnusedFound`).

`LanExchangeProofs`, for every set of clients with ids of their own, every number of CMDs, frames,
power changes and stalls:

- `AnswersCorrect` (`AnswersRight`) and `FailuresJustified` (`FailJustified`). A client's answer to the
  current CMD is at one place (`Once`): owed, on its way, at one place of the queue, or heard; and its
  stamp names its CMD (`Stamps`), since two CMDs end further apart (`Gap`) than stamps and tests are off
  (`Window`, `Drift`). That is the one assumption about time, and it is the host's own spacing of CMDs.
  What the loop of `recv_replies` returns is a function of the queue; that it stops at the first place it
  may, and what it has heard by then, is proved by induction over a set of numbers (a least counterexample,
  lemmas `Least` and `Ind`), which needs no operator as a parameter.

`LanSessionProofs`, for every set of clients, every number of players and peers, with handshakes that
overlap:

- `TableCorrect` (`TableSound`), `ListsCorrect` (`ListsAgree`) and `PowerCorrect` (`PowerAgrees`). `Table`
  says that the entries in use are the host's and one for each connected peer; then the search for a free
  id finds one (`FreeIdFree`, by counting). The invariant `Inv` holds until `strayed`, which stays so
  (`StrayedStays`): of all the events of the host only the DISCONNECT of a refused connection with an old
  pointer breaks it, and that of one without (`RefusedGoneInv`) does not. For the lists
  and the power, `Told` says that the last message of a kind on its way, or what the client knows if there is
  none, is right; `ToldSent`, `ToldPast`, `ToldTaken` and `ToldSkipped` say what sending and receiving do
  to it.
- `RoomCorrect`: while not `strayed`, `ClientsFit` holds: the old pointer is the only way to a session with
  too many clients.

`Lazy2dProofs`, for every screen height, number of lines, length of a journal, burst, lag and hand-over
limit, every set of banks, with one worker or two, with scaling or without:

- `JournalSoundAlways` (`JournalSound`) and `FrameCompleteAlways` (`FrameComplete`), while no journal of a
  deferred engine is full (`JoinRoom`), and `LinesExactAlways` (`LinesExact`), without `Abrupt` and while
  `Room`, `Budget` and `MovedOnce` hold.
- The invariant is `Good`, of the `Gpu` in a context `K`: how far the screen is scanned, the pictures due,
  the guest's versions, the map. `Core` says of each engine that the version it has, its journal and the
  guest's version are a chain (`Eng`), with stamps in order, and where the lines it has still to draw, those
  of its job and those after it, lie in it; for `LinesExact` also that the picture an engine would draw of each, after
  applying the journal up to the line's HBlank (`PicOf`), is the one due. `Frame` says where in the frame that may be:
  past the last line only deferred jobs are left, at the top nothing is. `Watch`, which also only `LinesExact`
  needs, says that each engine with lines to draw is trapped, that a job's banks are where its map says or
  trapped where they have gone, and for which mode the trap was armed. `Sound` is the invariant without
  the two, `Exact` with them and with `unlike = {}`; they are one formula with a flag (`ex`), so that every
  lemma is proved once.
- The proof follows the code's nesting. `EngStep` and its like say what drawing up to a line and applying do
  to one engine's chain; over them come a worker's line, `join_worker`, `render_ranges`, `catch_up`, `queue`,
  `arm_trap` and the store trap, each a lemma about any `Gpu` that fits its context, and then one lemma for
  each action.

The hypotheses are about what the guest does, and each is needed:

- `JoinRoom`, `Room`. A full journal is joined and, if that leaves it full, applied at once: lines below it
  are drawn with later registers. If the engine's join was deferred, in VBlank, the entry is filed under a
  stamp computed before the join, nothing draws up to it, and `frame_done` aborts (`engine2d_regs.cpp:121`).
- `Budget`. While a job keeps an older map a store is charged to both engines (`gpu.cpp:205`). If one may
  still burst and the other not, only the first is caught up, and the second draws its lines later, after
  the store. `Budget` says that in this situation both budgets end together.
- `MovedOnce`: a bank that has left a job's map does not move again under that job. `covered` looks at the
  live map (`gpu.cpp:236`), in which a bank already moved to the texture units is no engine's, so a
  second move to LCDC goes through without being trapped, and the job reads the bank.
- `~Abrupt`: the finding of `lazy_2d_dispcnt`.

`Abrupt` is off in the run `lazy_2d`, and every state and step of it satisfies the others, so the theorems
cover all that the run explores. That each is needed was seen with TLC: on instances with a shorter journal, with
three bursts and without scaling, or with two remaps, `LinesExact` fails, and with a shorter journal
`JournalSound` too. Of the constants only what `Lazy2d` itself states is assumed, among it that there is a bank.

Only model-checked:

- liveness (`RunEnds`, `CallsReturn`, `WaitsReturn`, `SinkReturns`, `ThreadReturns`, `JoinSettles`,
  `RepliesReturn`, and that of `ImplementsPanel`): TLAPS does not handle fairness and ENABLED;
- `LineReady` and `ThiefHasContext` when the pool is replaced (the second is refuted);
- `LinesExact` with `Abrupt` (refuted), and outside the hypotheses of the theorems about `Lazy2d` above,
  each of which has a counterexample.

## Plan

Modelled: `Scheduler`, `Irq`, `Ipc`, `LineWorker`, `BandPool`, `Lazy2d`, `Display` with its sinks and
present thread, `LanSession`, `LanExchange`. All modules but the `MC` ones are free of recursion, so that
they can be proved about.

Every invariant of a passing run is stated by a theorem, and so are the refinements of `IpcChannel` and
`HandOff` and the safety part of `Panel`. Theorems to come: further action properties of the modules,
and `LineReady` for a pool that is replaced, once its generations go on.

Candidates for further modules: timers against a reference counter, DMA channel arbitration, the
geometry FIFO, the composition of `Scheduler` with `Irq`.

## Not modelled

The arithmetic of pixels, polygons, samples and instructions, code generation, address decoding,
file formats and menus: sequential code whose tests compare it with references, and whose state a
model checker cannot enumerate. Vendored libraries (rcheevos, ENet, slirp, miniz). PROJECT.json
gives the reason for each component.

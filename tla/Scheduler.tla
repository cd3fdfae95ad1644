----------------------------- MODULE Scheduler -----------------------------
(***************************************************************************)
(* The event scheduler and the CPU interleave of core/sched: the table of  *)
(* timed events with its cached earliest deadline, fire_due's walk over it,*)
(* and the slice loop (run_until_impl, and slice_next, its flattened form  *)
(* for translated code) that runs the ARM9, lets the ARM7 catch up at half *)
(* clock, advances the clock and fires what has become due.                *)
(*                                                                         *)
(* What an instruction, a DMA unit or an event handler does to the         *)
(* scheduler is chosen freely: arm, cancel or settle an event, start a DMA,*)
(* yield, halt, wake a CPU.  Guest state is left out.  The idle cut        *)
(* (emu.idle_cut, off in the class) and profiling are not modelled.        *)
(***************************************************************************)
EXTENDS Integers

CONSTANTS N,         \* Number of event ids (EVENT_COUNT, 29 in the code).
          Inf,       \* The largest u64: the deadline of "no event".
          Dsi,       \* TRUE on a DSi.
          Shift9,    \* shift9_: 1 for a DSi ARM9 at 134 MHz, else 0.
          Quantum,   \* SLICE_QUANTUM.
          Margin,    \* slice_margin_ (16 on a DSi, 0 on a DS).
          MaxCost,   \* Bound: cycles one instruction or DMA unit may take.
          Delays,    \* Bound: how far ahead an event is armed (even on a DSi).
          MaxNow,    \* Bound: run_until is entered only before this time.
          Runs       \* Bound: how far ahead of the clock run_until is asked to go.

ASSUME NAssumption == N \in Nat
ASSUME InfAssumption == Inf \in Nat \ {0}
ASSUME DsiAssumption == Dsi \in BOOLEAN /\ Shift9 \in {0, 1} /\ (~Dsi => Shift9 = 0 /\ Margin = 0)
ASSUME BoundsAssumption ==
  /\ Quantum \in Nat \ {0} /\ Margin \in Nat
  /\ MaxCost \in Nat \ {0} /\ MaxNow \in Nat
  /\ Delays \subseteq 1..(Inf - 1) /\ Runs \subseteq Nat \ {0}

VARIABLES
  ev,        \* The event table: armed_, at_, next_ and next_id_.
  firingAt,  \* firing_at_: nominal time of the event whose handler runs.
  now,       \* now_: the machine's clock, in ARM9 cycles.
  debt,      \* arm7_debt_: ARM9 cycles the ARM7 still has to cover.
  carry,     \* arm9_carry_ (DSi): core cycles past the last system cycle.
  pc,        \* Where the scheduler is.
  walk,      \* In fire_due: the ids the pass still visits, in a handler also its own;
             \* in settle: the id being settled.
  run,       \* The slice in progress: who runs, its budget and what it was issued.
  cpu,       \* Per CPU: halted, and whether one of its DMA channels runs.
  until,     \* What run_until was asked for: a time, and whether the frame flag ends it too.
  frame,     \* NDS::frame_ready.
  ran7       \* History: all cycles the ARM7 has been charged for.

vars == <<ev, firingAt, now, debt, carry, pc, walk, run, cpu, until, frame, ran7>>

Ids  == 0..(N - 1)
None == N
ARM9 == 9
ARM7 == 7
Cpus == {ARM9, ARM7}
Times == 0..(Inf - 1)

-----------------------------------------------------------------------------
(* The event table.                                                        *)

Table == [armed : SUBSET Ids, at : [Ids -> Times], next : 0..Inf, nextId : 0..N]

\* Earliest armed event, the lowest id among equals, as rescan()'s scan finds it.
EarliestId(armed, at) ==
  CHOOSE i \in armed : \A j \in armed : at[i] < at[j] \/ (at[i] = at[j] /\ i <= j)

rescan(t) ==
  IF t.armed = {} THEN [t EXCEPT !.next = Inf, !.nextId = None]
  ELSE LET i == EarliestId(t.armed, t.at)
       IN  [t EXCEPT !.next = t.at[i], !.nextId = i]

\* Mutant of schedule: an event pushed later leaves the cache behind.
scheduleNoRescan(t, i, when) ==
  LET put == [t EXCEPT !.armed = @ \cup {i}, !.at[i] = when]
  IN  IF when < t.next THEN [put EXCEPT !.next = when, !.nextId = i] ELSE put

schedule(t, i, when) ==
  LET wasNext == i \in t.armed /\ t.nextId = i
      put     == [t EXCEPT !.armed = @ \cup {i}, !.at[i] = when]
  IN  IF when < t.next THEN [put EXCEPT !.next = when, !.nextId = i]
      ELSE IF wasNext /\ when > t.next THEN rescan(put)
      ELSE put

disarm(t, i) == [t EXCEPT !.armed = @ \ {i}]

cancel(t, i) ==
  IF i \notin t.armed THEN t
  ELSE IF t.nextId = i THEN rescan(disarm(t, i)) ELSE disarm(t, i)

-----------------------------------------------------------------------------
(* Clocks.                                                                 *)

\* Core cycles per tick of a DSi ARM9; a system cycle is two ticks.
PerTick9 == IF Shift9 = 1 THEN 2 ELSE 1
PartOfACycle == 0..(2 * PerTick9 - 1)

\* now(): the clock including what the running CPU has consumed.  A DSi ARM9
\* counts core cycles, floored to system cycles of two ticks.
Consumed == run.start - run.budget - run.residual
LocalNow ==
  IF run.who = 0 THEN now
  ELSE IF run.who = ARM7 THEN run.base + 2 * Consumed
  ELSE IF Dsi THEN run.base + 2 * ((Consumed + carry) \div (2 * PerTick9))
  ELSE run.base + Consumed

\* budget9_for(): the ARM9 budget that covers a slice of so many ticks.
Budget9For(slice) == slice * PerTick9 - carry

\* ticks9(): core cycles to ticks, the remainder kept in arm9_carry_.
Sys9(consumed)   == IF Dsi THEN (carry + consumed) \div (2 * PerTick9) ELSE 0
Ticks9(consumed) == IF Dsi THEN 2 * Sys9(consumed) ELSE consumed
\* Mutant of Carry9: whole system cycles stay in the carry.
CarryAll9(consumed) == carry + consumed
Carry9(consumed) == IF Dsi THEN carry + consumed - Sys9(consumed) * 2 * PerTick9 ELSE carry

NoRun == [who |-> 0, budget |-> 0, start |-> 0, residual |-> 0, base |-> 0, yielded |-> FALSE,
          dmaIter |-> FALSE, slice |-> 0, end |-> 0, ran9 |-> 0, skip |-> {}]

-----------------------------------------------------------------------------
(* fire_due().                                                             *)

\* while (now_ >= next_): a pass forgets next_ and visits what is armed.
BeginPass ==
  /\ pc = "fire" /\ now >= ev.next
  /\ ev' = [ev EXCEPT !.next = Inf, !.nextId = None]
  /\ walk' = ev.armed
  /\ pc' = "walk"
  /\ UNCHANGED <<firingAt, now, debt, carry, run, cpu, until, frame, ran7>>

FireDone ==
  /\ pc = "fire" /\ now < ev.next
  /\ pc' = "begin"
  /\ UNCHANGED <<ev, firingAt, now, debt, carry, walk, run, cpu, until, frame, ran7>>

Lowest(S) == CHOOSE i \in S : \A j \in S : i <= j

\* The lowest id left is due: disarm it and enter its handler.
Fire ==
  /\ pc = "walk" /\ walk # {}
  /\ LET i == Lowest(walk)
     IN  /\ ev.at[i] <= now
         /\ ev' = disarm(ev, i)
         /\ firingAt' = ev.at[i]
  /\ pc' = "handler"
  /\ UNCHANGED <<now, debt, carry, walk, run, cpu, until, frame, ran7>>

\* The lowest id left is not due: it may be the next deadline.
PassOver ==
  /\ pc = "walk" /\ walk # {}
  /\ LET i == Lowest(walk)
     IN  /\ ev.at[i] > now
         /\ ev' = IF ev.at[i] < ev.next THEN [ev EXCEPT !.next = ev.at[i], !.nextId = i] ELSE ev
         /\ walk' = walk \ {i}
  /\ UNCHANGED <<firingAt, now, debt, carry, pc, run, cpu, until, frame, ran7>>

\* Mutant of EndPass: one pass, whatever the handlers re-armed.
EndOnlyPass ==
  /\ pc = "walk" /\ walk = {}
  /\ pc' = "begin"
  /\ UNCHANGED <<ev, firingAt, now, debt, carry, walk, run, cpu, until, frame, ran7>>

EndPass ==
  /\ pc = "walk" /\ walk = {}
  /\ pc' = "fire"
  /\ UNCHANGED <<ev, firingAt, now, debt, carry, walk, run, cpu, until, frame, ran7>>

\* A handler returns: events armed at a higher id fire in this pass.
HandlerDone ==
  /\ pc = "handler"
  /\ walk' = {j \in ev.armed : j > Lowest(walk)}
  /\ pc' = "walk"
  /\ UNCHANGED <<ev, firingAt, now, debt, carry, run, cpu, until, frame, ran7>>

\* A handler re-arms an event from its nominal time or from the clock.
HandlerSchedule(i, d) ==
  /\ pc = "handler"
  /\ \E from \in {firingAt, now} :
       /\ from + d \in Times
       /\ ev' = schedule(ev, i, from + d)
  /\ UNCHANGED <<firingAt, now, debt, carry, pc, walk, run, cpu, until, frame, ran7>>

HandlerCancel(i) ==
  /\ pc = "handler"
  /\ i \in ev.armed
  /\ ev' = cancel(ev, i)
  /\ UNCHANGED <<firingAt, now, debt, carry, pc, walk, run, cpu, until, frame, ran7>>

\* A handler raises an interrupt, starts a DMA or ends the frame.
HandlerSignal ==
  /\ pc = "handler"
  /\ \/ \E c \in Cpus : cpu' = [cpu EXCEPT ![c].halted = FALSE] /\ UNCHANGED frame
     \/ \E c \in Cpus : cpu' = [cpu EXCEPT ![c].dma = TRUE] /\ UNCHANGED frame
     \/ frame' = TRUE /\ UNCHANGED cpu
  /\ UNCHANGED <<ev, firingAt, now, debt, carry, pc, walk, run, until, ran7>>

-----------------------------------------------------------------------------
(* The slice loop.                                                         *)

\* run_until, run_until_frame and run_until_or_frame are entered: anything
\* already due fires first.
RunUntil ==
  /\ pc = "stopped" /\ now < MaxNow
  /\ \E d \in Runs, f \in BOOLEAN : until' = [at |-> now + d, frame |-> f]
  /\ frame' = FALSE
  /\ pc' = "fire"
  /\ UNCHANGED <<ev, firingAt, now, debt, carry, walk, run, cpu, ran7>>

done == now >= until.at \/ (until.frame /\ frame)

Return ==
  /\ pc = "begin" /\ done
  /\ pc' = "stopped"
  /\ UNCHANGED <<ev, firingAt, now, debt, carry, walk, run, cpu, until, frame, ran7>>

MinOf(a, b) == IF a <= b THEN a ELSE b
MaxOf(a, b) == IF a >= b THEN a ELSE b

\* Mutant of SliceLength: no quantum.
SliceToDeadline(idle) == MaxOf(MinOf(ev.next, until.at) - now, 1)

\* The slice: to the next deadline, at least one cycle, at most the quantum
\* unless both CPUs are idle (never extended on a DSi).
SliceLength(idle) ==
  LET want == MaxOf(MinOf(ev.next, until.at) - now, 1)
  IN  IF want >= Quantum + Margin /\ ~(idle /\ want > Quantum /\ ~Dsi) THEN Quantum ELSE want

\* machine_idle(): every CPU is halted or proven to poll (skip).  A running
\* DMA vetoes it on a DSi only.  It may also answer no (an IRQ is pending, the
\* geometry engine is busy, the PC filter has not seen the loop).
MachineIdle(skip) ==
  /\ \A c \in Cpus : cpu[c].halted <=> c \notin skip
  /\ Dsi => \A c \in Cpus : ~cpu[c].dma

\* What may be skipped at a slice start: an idle machine's polling CPUs, an
\* ARM7 that polls the SPI, or nothing.
SkipAllowed(skip, idle) ==
  IF idle THEN MachineIdle(skip)
  ELSE skip = {} \/ (skip = {ARM7} /\ ~cpu[ARM7].halted /\ ~cpu[ARM7].dma)

\* An SPI poll sleeps no longer than to spi_ready_at (an even time on a DSi).
SliceChoices(skip, idle) ==
  IF idle \/ skip = {} THEN {SliceLength(idle)}
  ELSE {SliceLength(FALSE)} \cup {s \in 1..SliceLength(FALSE) : Dsi => (now + s) % 2 = 0}

BeginSlice ==
  /\ pc = "begin" /\ ~done
  /\ \E skip \in SUBSET Cpus, idle \in BOOLEAN :
       /\ SkipAllowed(skip, idle)
       /\ \E slice \in SliceChoices(skip, idle) :
            LET b == Budget9For(slice)
            IN  run' = [NoRun EXCEPT !.who = ARM9, !.budget = b, !.start = b, !.base = now,
                                     !.slice = slice, !.end = now + slice, !.skip = skip]
  /\ pc' = "cpu"
  /\ UNCHANGED <<ev, firingAt, now, debt, carry, walk, cpu, until, frame, ran7>>

(* run_cpu(): a running DMA takes the CPU's budget before the CPU does.    *)

\* cut_arm9_at() on a DSi: an event armed inside the ARM9's slice ends it there.
cut_arm9_at(r, when) ==
  LET nb == Budget9For(when - now)
  IN  IF ~Dsi \/ r.who # ARM9 \/ when >= r.end \/ when <= now \/ nb >= r.start THEN r
      ELSE [r EXCEPT !.start = nb, !.end = when, !.budget = nb - (r.start - @)]

\* Mutant of DmaIterates: a DMA that could not move counts too.
DmaAlwaysIterates(used) == Dsi /\ run.who = ARM9

\* a9_dma_iter_: a DSi ARM9 DMA that moved has an iteration of its own.
DmaIterates(used) == Dsi /\ run.who = ARM9 /\ used # 0

\* Dma::run inside a slice: `used` cycles, the last unit maybe past the end
\* of the budget, none if there is no budget; `more` if it has words left.
\* The budget is passed as u32, so that a negative one is no limit.  On the
\* way it may arm an event (the cartridge bus), d ticks after the transfer
\* started: dma_used_ is part of d.  advance_dma_only is the same for a
\* skipped CPU, which then does not run.
RunDma(used, more) ==
  /\ pc = "cpu" /\ cpu[run.who].dma
  /\ run.budget = 0 => used = 0 /\ more
  /\ run.budget > 0 => used \in 1..(run.budget + MaxCost - 1)
  /\ run.budget < 0 => used > 0
  /\ cpu' = [cpu EXCEPT ![run.who].dma = more]
  /\ \/ ev' = ev /\ run' = [run EXCEPT !.budget = @ - used, !.dmaIter = DmaIterates(used)]
     \/ \E i \in Ids, d \in Delays :
          /\ used > 0 /\ LocalNow + d \in Times
          /\ ev' = schedule(ev, i, LocalNow + d)
          /\ run' = [cut_arm9_at(run, LocalNow + d)
                       EXCEPT !.budget = @ - used, !.dmaIter = DmaIterates(used)]
  /\ pc' = IF run.who \in run.skip \/ run'.dmaIter THEN "done"
           ELSE IF Dsi /\ run'.budget > 0 /\ used # 0 /\ more THEN "cpu"
           ELSE IF run'.budget <= 0 \/ more THEN "done" ELSE "exec"
  /\ UNCHANGED <<firingAt, now, debt, carry, walk, until, frame, ran7>>

EnterCpu ==
  /\ pc = "cpu" /\ ~cpu[run.who].dma
  /\ pc' = IF run.who \in run.skip THEN "done" ELSE "exec"
  /\ UNCHANGED <<ev, firingAt, now, debt, carry, walk, run, cpu, until, frame, ran7>>

CanExec == pc = "exec" /\ run.budget > 0 /\ ~cpu[run.who].halted

\* An instruction that touches no scheduled device.
Exec(c) ==
  /\ CanExec
  /\ run' = [run EXCEPT !.budget = @ - c]
  /\ UNCHANGED <<ev, firingAt, now, debt, carry, pc, walk, cpu, until, frame, ran7>>

\* An instruction that arms an event d ticks ahead of its own clock.
ExecSchedule(i, d, c) ==
  /\ CanExec
  /\ LocalNow + d \in Times
  /\ ev' = schedule(ev, i, LocalNow + d)
  /\ run' = [cut_arm9_at(run, LocalNow + d) EXCEPT !.budget = @ - c]
  /\ UNCHANGED <<firingAt, now, debt, carry, pc, walk, cpu, until, frame, ran7>>

ExecCancel(i, c) ==
  /\ CanExec
  /\ i \in ev.armed
  /\ ev' = cancel(ev, i)
  /\ run' = [run EXCEPT !.budget = @ - c]
  /\ UNCHANGED <<firingAt, now, debt, carry, pc, walk, cpu, until, frame, ran7>>

\* settle(): a register write first fires its device's event while it is due
\* by the writer's clock.  Its handler re-arms it from its nominal time or not.
ExecSettle(i) ==
  /\ CanExec
  /\ pc' = "settle" /\ walk' = {i}
  /\ UNCHANGED <<ev, firingAt, now, debt, carry, run, cpu, until, frame, ran7>>

SettleDue == \E i \in walk : i \in ev.armed /\ ev.at[i] <= LocalNow

SettleFire(d) ==
  /\ pc = "settle" /\ SettleDue
  /\ \E i \in walk :
       LET popped == cancel(ev, i)
       IN  IF d = 0 THEN ev' = popped /\ UNCHANGED run
           ELSE /\ ev.at[i] + d \in Times
                /\ ev' = schedule(popped, i, ev.at[i] + d)
                /\ run' = cut_arm9_at(run, ev.at[i] + d)
  /\ UNCHANGED <<firingAt, now, debt, carry, pc, walk, cpu, until, frame, ran7>>

SettleDone(c) ==
  /\ pc = "settle" /\ ~SettleDue
  /\ pc' = "exec" /\ walk' = {}
  /\ run' = [run EXCEPT !.budget = @ - c]
  /\ UNCHANGED <<ev, firingAt, now, debt, carry, cpu, until, frame, ran7>>

\* preempt(): the instruction starts a DMA and leaves the run loop.
ExecStartDma(c) ==
  /\ CanExec
  /\ cpu' = [cpu EXCEPT ![run.who].dma = TRUE]
  /\ run' = [run EXCEPT !.residual = @ + run.budget, !.budget = -c]
  /\ UNCHANGED <<ev, firingAt, now, debt, carry, pc, walk, until, frame, ran7>>

\* yield(): the rest of the slice goes to the other CPU.
ExecYield(c) ==
  /\ CanExec
  /\ run' = [run EXCEPT !.residual = @ + run.budget, !.budget = -c, !.yielded = TRUE]
  /\ UNCHANGED <<ev, firingAt, now, debt, carry, pc, walk, cpu, until, frame, ran7>>

\* HALTCNT / CP15 wait for interrupt: the CPU halts; an instruction that
\* raises an interrupt on the other CPU wakes it.
ExecHalt(c) ==
  /\ CanExec
  /\ \E who \in Cpus, h \in BOOLEAN :
       /\ h <=> who = run.who
       /\ cpu[who].halted # h
       /\ cpu' = [cpu EXCEPT ![who].halted = h]
  /\ run' = [run EXCEPT !.budget = @ - c]
  /\ UNCHANGED <<ev, firingAt, now, debt, carry, pc, walk, until, frame, ran7>>

\* The engine returns to run_cpu: a preempted or yielding CPU gets its
\* residual back.  On a DSi defer_preempt_cost hands the preempting
\* instruction's cost back too (it joins a later instruction's cost).
RunReturns ==
  /\ pc = "exec" /\ ~CanExec
  /\ IF run.residual = 0 THEN pc' = "done" /\ UNCHANGED run
     ELSE LET over == IF Dsi /\ ~run.yielded THEN MaxOf(run.budget, 0) ELSE run.budget
              left == over + run.residual
              iter == Dsi /\ run.who = ARM9 /\ ~run.yielded
          IN  /\ run' = [run EXCEPT !.budget = left, !.residual = 0, !.yielded = FALSE,
                                    !.dmaIter = @ \/ iter]
              /\ pc' = IF run.yielded \/ iter \/ left <= 0 \/ cpu[run.who].halted
                       THEN "done" ELSE "cpu"
  /\ UNCHANGED <<ev, firingAt, now, debt, carry, walk, cpu, until, frame, ran7>>

\* C's division: budget7 truncates toward zero.
Half(x) == IF x >= 0 THEN x \div 2 ELSE -((-x) \div 2)

\* The ARM9's part is over: what it ran is the length of the slice, and the
\* ARM7 owes as much.
Arm9Done ==
  /\ pc = "done" /\ run.who = ARM9
  /\ LET full    == (cpu[ARM9].halted \/ ARM9 \in run.skip) /\ ~run.dmaIter
         used    == run.start - run.budget
         ticks   == IF full THEN run.slice ELSE Ticks9(used)
         ran9    == IF ticks > 0 THEN ticks ELSE IF run.dmaIter THEN 0 ELSE 1
         debt2   == debt + ran9
         budget7 == Half(debt2)
         base7   == IF Dsi THEN now + ran9 - debt2 ELSE now
     IN  /\ carry' = IF full THEN 0 ELSE Carry9(used)
         /\ debt' = debt2
         /\ run' = [run EXCEPT !.who = IF budget7 > 0 THEN ARM7 ELSE 0, !.ran9 = ran9, !.base = base7,
                               !.budget = budget7, !.start = budget7, !.dmaIter = FALSE]
         /\ pc' = IF budget7 > 0 THEN "cpu" ELSE "sliceEnd"
  /\ UNCHANGED <<ev, firingAt, now, walk, cpu, until, frame, ran7>>

\* Mutant of Arm7Done: overshoot and the odd cycle are dropped.
Arm7DoneDropsRest ==
  /\ pc = "done" /\ run.who = ARM7
  /\ LET consumed7 == IF cpu[ARM7].halted \/ ARM7 \in run.skip THEN run.start
                      ELSE run.start - run.budget
     IN  debt' = 0 /\ ran7' = ran7 + consumed7
  /\ run' = [run EXCEPT !.who = 0]
  /\ pc' = "sliceEnd"
  /\ UNCHANGED <<ev, firingAt, now, carry, walk, cpu, until, frame>>

Arm7Done ==
  /\ pc = "done" /\ run.who = ARM7
  /\ LET consumed7 == IF cpu[ARM7].halted \/ ARM7 \in run.skip THEN run.start
                      ELSE run.start - run.budget
     IN  debt' = debt - 2 * consumed7 /\ ran7' = ran7 + consumed7
  /\ run' = [run EXCEPT !.who = 0]
  /\ pc' = "sliceEnd"
  /\ UNCHANGED <<ev, firingAt, now, carry, walk, cpu, until, frame>>

\* running_ is cleared, the clock advances by what the ARM9 ran, fire_due follows.
SliceEnd ==
  /\ pc = "sliceEnd"
  /\ now' = now + run.ran9
  /\ run' = NoRun
  /\ pc' = "fire"
  /\ UNCHANGED <<ev, firingAt, debt, carry, walk, cpu, until, frame, ran7>>

-----------------------------------------------------------------------------
(* reset(): the clock restarts with an empty table, and the devices' own   *)
(* resets arm the first events.                                            *)

FirstEvents(t) ==
  \E first \in [Ids -> Delays], on \in SUBSET Ids :
    t = rescan([armed |-> on, at |-> first, next |-> Inf, nextId |-> None])

Init ==
  /\ FirstEvents(ev)
  /\ firingAt = 0 /\ now = 0 /\ debt = 0 /\ carry = 0
  /\ pc = "stopped" /\ walk = {} /\ run = NoRun
  /\ cpu = [c \in Cpus |-> [halted |-> FALSE, dma |-> FALSE]]
  /\ until = [at |-> 0, frame |-> FALSE] /\ frame = FALSE /\ ran7 = 0

Reset ==
  /\ pc = "stopped"
  /\ FirstEvents(ev')
  /\ now' = 0 /\ debt' = 0 /\ carry' = 0 /\ ran7' = 0
  /\ cpu' = [c \in Cpus |-> [halted |-> FALSE, dma |-> FALSE]]
  /\ UNCHANGED <<firingAt, pc, walk, run, until, frame>>

\* sync_state and after_load: only the clocks, armed_ and the deadlines
\* travel; the earliest deadline is found again.
SaveAndLoad ==
  /\ pc = "stopped"
  /\ ev' = rescan(ev)
  /\ UNCHANGED <<firingAt, now, debt, carry, pc, walk, run, cpu, until, frame, ran7>>

FireDue == BeginPass \/ FireDone \/ Fire \/ PassOver \/ EndPass \/ HandlerDone

Handler ==
  \/ \E i \in Ids : (\E d \in Delays : HandlerSchedule(i, d)) \/ HandlerCancel(i)
  \/ HandlerSignal

Instruction ==
  \/ \E c \in 1..MaxCost :
       Exec(c) \/ ExecStartDma(c) \/ ExecYield(c) \/ ExecHalt(c) \/ SettleDone(c)
  \/ \E i \in Ids : ExecSettle(i)
  \/ \E d \in Delays \cup {0} : SettleFire(d)
  \/ \E i \in Ids, c \in 1..MaxCost : ExecCancel(i, c) \/ \E d \in Delays : ExecSchedule(i, d, c)

SliceLoop ==
  \/ Return \/ BeginSlice \/ EnterCpu \/ RunReturns
  \/ \E used \in 0..(Quantum * 2 + MaxCost), more \in BOOLEAN : RunDma(used, more)
  \/ Arm9Done \/ Arm7Done \/ SliceEnd

Next == FireDue \/ Handler \/ Instruction \/ SliceLoop \/ RunUntil \/ Reset \/ SaveAndLoad

Spec == Init /\ [][Next]_vars

\* One thread runs all of this, so whatever it can do next it does.
Fairness == WF_vars(FireDue) /\ WF_vars(Instruction) /\ WF_vars(SliceLoop)
LiveSpec == Spec /\ Fairness

-----------------------------------------------------------------------------
(* Properties.                                                             *)

\* The table and the clocks keep their types: the type invariant.
TypeOK ==
  /\ ev \in Table
  /\ firingAt \in Times
  /\ now \in Nat /\ debt \in Int /\ carry \in PartOfACycle /\ ran7 \in Int
  /\ pc \in {"stopped", "fire", "walk", "handler", "begin", "cpu", "exec", "settle", "done", "sliceEnd"}
  /\ walk \in SUBSET Ids
  /\ run \in [who : {0, ARM9, ARM7}, budget : Int, start : Int, residual : Int, base : Int,
              yielded : BOOLEAN, dmaIter : BOOLEAN, slice : Nat, end : Int, ran9 : Nat, skip : SUBSET Cpus]
  /\ cpu \in [Cpus -> [halted : BOOLEAN, dma : BOOLEAN]]
  /\ until \in [at : Nat, frame : BOOLEAN] /\ frame \in BOOLEAN

\* next_ is the earliest armed deadline and next_id_ an event that has it.
CacheExact(t) ==
  /\ \A i \in t.armed : t.next <= t.at[i]
  /\ IF t.nextId = None THEN t.next = Inf ELSE t.nextId \in t.armed /\ t.at[t.nextId] = t.next

\* Whenever a CPU runs or a slice is cut, the cached deadline is the earliest
\* armed one, whatever was armed, cancelled, re-armed or settled before
\* (schedule, cancel, settle, rescan and fire_due keep next_ and next_id_ together).
NextIsEarliest == pc \notin {"fire", "walk", "handler"} => CacheExact(ev)

\* fire_due leaves no event armed in the past: a slice starts, and run_until
\* returns, with every armed deadline ahead of the clock.
NothingOverdue == pc \in {"begin", "stopped"} => \A i \in ev.armed : ev.at[i] > now

\* The two clocks never drift apart: what the ARM7 was charged for and what
\* it still owes always add up to the time that has passed, through odd
\* slices, overshoot, yields, halts and skipped slices (arm7_debt_).
ClocksAgree == 2 * ran7 + debt = now + run.ran9

\* Events fire on time, although CPUs and DMA arm them in the middle of a
\* slice.  When a slice ends, every armed deadline is later than the earlier of
\* the slice's start and the time the ARM7 had then reached: an event is late
\* by less than the slice, or than what the ARM7 had to catch up on (a yield
\* leaves it behind).  And on a DSi SLICE_QUANTUM keeps the slice short: the
\* quantum, the margin and the rest of an instruction or of a DMA unit (a
\* slice of one tick may be issued a negative budget, no limit to a DMA).
FiresOnTime ==
  pc = "sliceEnd" =>
    /\ \A i \in ev.armed : ev.at[i] > MinOf(now, run.base)
    /\ Dsi /\ run.slice > 1 => run.ran9 < Quantum + Margin + MaxCost

\* run_until comes back: fire_due's passes end although handlers re-arm events
\* already overshot, settle's loop ends, and no slice of the DSi's zero-length
\* DMA hand-offs repeats for ever.
RunEnds == pc # "stopped" ~> pc = "stopped"

=============================================================================

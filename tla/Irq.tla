-------------------------------- MODULE Irq --------------------------------
(***************************************************************************)
(* Interrupts: IE, IF and IME of each CPU, the cached hot.irq_pending the  *)
(* run loops test, halting and waking (io.cpp update_irq and request_irq,  *)
(* cpu.cpp check_irq), and on a DSi the instruction an interrupt raised    *)
(* off-slice has to wait for (irq_offline, irq_skip_once).                 *)
(*                                                                         *)
(* Devices and the other CPU raise interrupts at any time; which CPU runs, *)
(* and whether one of its DMA channels runs in its place, is the           *)
(* scheduler's, kept here as the order run_cpu keeps.  The DSi's second    *)
(* IE/IF pair is more bits of the first.                                   *)
(***************************************************************************)
EXTENDS Naturals, TwoCpus

CONSTANTS Bits,   \* Interrupt sources.
          Dsi     \* TRUE on a DSi.

ASSUME DsiAssumption == Dsi \in BOOLEAN

VARIABLES
  cpu,      \* Per CPU: ie, if_, ime, pending, halted, masked (CPSR.I), offline, skip.
  running,  \* running_: a CPU, or 0 between slices.
  pc,       \* In run_cpu: "off", "dma" (in_dma_), "enter" or "exec".
  waits     \* History: CPUs whose pending interrupt rose off-slice and that
            \* have not executed an instruction since.

irqVars == <<cpu, running, pc, waits>>

State == [ie : SUBSET Bits, if_ : SUBSET Bits, ime : BOOLEAN, pending : BOOLEAN,
          halted : BOOLEAN, masked : BOOLEAN, offline : BOOLEAN, skip : BOOLEAN]

-----------------------------------------------------------------------------
\* IE & IF: what update_irq and the HALTCNT write test.
Any(x) == x.ie \cap x.if_ # {}

\* Halt exits on IE & IF; the ARM9 needs IME too.
update_irq(c, x, offSlice) ==
  LET p == x.ime /\ Any(x)
  IN  [x EXCEPT !.offline = @ \/ (Dsi /\ p /\ ~x.pending /\ offSlice /\ ~x.halted),
                !.pending = p,
                !.halted  = @ /\ ~(Any(x) /\ (c = ARM7 \/ x.ime))]

OffSlice(c) == running # c \/ pc = "dma"

\* Mutant of request_irq: the bit alone, as if IF were all that counts.
request_irq_bit_only(c, x, b) == [x EXCEPT !.if_ = @ \cup {b}]

request_irq(c, x, b) ==
  IF b \in x.if_ /\ ~x.halted THEN x
  ELSE update_irq(c, [x EXCEPT !.if_ = @ \cup {b}], OffSlice(c))

\* An interrupt is taken: it wakes the CPU and masks further ones.
Takes(x) == ~x.skip /\ x.pending /\ ~x.masked
check_irq(x) ==
  IF Takes(x) THEN [x EXCEPT !.halted = FALSE, !.masked = TRUE] ELSE [x EXCEPT !.skip = FALSE]

\* The scheduler turns irq_offline into a skipped check, as a slice starts and
\* as a DMA hands over to the CPU.
Convert(x) == IF x.offline THEN [x EXCEPT !.skip = ~x.halted, !.offline = FALSE] ELSE x

\* Who waits for an instruction once c's state has become x.
Waits(c, x) == IF x.offline /\ ~cpu[c].offline THEN waits \cup {c} ELSE waits

-----------------------------------------------------------------------------
(* From outside the CPU: devices, event handlers, the other CPU, DMA.      *)

Raise(c, b) ==
  LET x == request_irq(c, cpu[c], b)
  IN  /\ OffSlice(c)
      /\ cpu' = [cpu EXCEPT ![c] = x]
      /\ waits' = Waits(c, x)
      /\ UNCHANGED <<running, pc>>

\* set_irq_line(..., false): a level source takes its request back.
Lower(c, b) ==
  LET x == update_irq(c, [cpu[c] EXCEPT !.if_ = @ \ {b}], OffSlice(c))
  IN  /\ OffSlice(c) /\ b \in cpu[c].if_
      /\ cpu' = [cpu EXCEPT ![c] = x]
      /\ waits' = Waits(c, x)
      /\ UNCHANGED <<running, pc>>

-----------------------------------------------------------------------------
(* The scheduler: run_cpu.                                                 *)

SliceStart(c) ==
  /\ running = 0
  /\ running' = c
  /\ cpu' = [cpu EXCEPT ![c] = Convert(@)]
  /\ pc' \in {"dma", "enter"}
  /\ UNCHANGED waits

\* The DMA is over and there is budget left, or the slice is.
DmaEnd ==
  /\ pc = "dma"
  /\ \/ pc' = "enter" /\ cpu' = [cpu EXCEPT ![running] = Convert(@)] /\ UNCHANGED running
     \/ pc' = "off" /\ running' = 0 /\ UNCHANGED cpu
  /\ UNCHANGED waits

\* Mutant of Enter: running_ is left set when the CPU sleeps.
EnterKeepsRunning ==
  /\ pc = "enter"
  /\ cpu' = [cpu EXCEPT ![running] = check_irq(@)]
  /\ pc' = IF cpu'[running].halted THEN "off" ELSE "exec"
  /\ UNCHANGED <<running, waits>>

\* The engine's run(): the check that comes before the first instruction.
Enter ==
  /\ pc = "enter"
  /\ cpu' = [cpu EXCEPT ![running] = check_irq(@)]
  /\ IF cpu'[running].halted THEN pc' = "off" /\ running' = 0
     ELSE pc' = "exec" /\ UNCHANGED running
  /\ UNCHANGED waits

\* Mutant of Haltcnt: no test.
HaltcntAlways(x) == [x EXCEPT !.halted = TRUE]

\* HALTCNT: halting with an interrupt already pending is a no-op.
Haltcnt(x) == IF Any(x) THEN x ELSE [x EXCEPT !.halted = TRUE]

\* CP15 wait for interrupt.
WaitForInterrupt(x) == [x EXCEPT !.halted = TRUE]

\* Mutant of Executed: an interrupt waits for the run loop to be entered.
ExecutedUnchecked(y) ==
  /\ pc = "exec"
  /\ cpu' = [cpu EXCEPT ![running] = y]
  /\ \/ pc' = "off" /\ running' = 0
     \/ ~y.halted /\ UNCHANGED <<pc, running>>
  /\ waits' = waits \ {running}

\* An instruction has turned its CPU's state into y: the run loop ends if it
\* halted, else an interrupt is looked for, and the budget may be used up.
Executed(y) ==
  /\ pc = "exec"
  /\ cpu' = [cpu EXCEPT ![running] = IF ~y.halted /\ y.pending THEN check_irq(y) ELSE y]
  /\ \/ pc' = "off" /\ running' = 0
     \/ ~y.halted /\ UNCHANGED <<pc, running>>
  /\ waits' = waits \ {running}

Self == cpu[running]

ExecPlain       == Executed(Self)
ExecWriteIme(v) == Executed(update_irq(running, [Self EXCEPT !.ime = v], FALSE))
ExecWriteIe(e)  == Executed(update_irq(running, [Self EXCEPT !.ie = e], FALSE))
ExecAck(b)      == Executed(update_irq(running, [Self EXCEPT !.if_ = @ \ {b}], FALSE))
ExecRaise(b)    == Executed(request_irq(running, Self, b))
ExecMask(v)     == Executed([Self EXCEPT !.masked = v])
ExecHalt        == Executed(IF running = ARM7 THEN Haltcnt(Self) ELSE WaitForInterrupt(Self))

\* A DSi's ARM9 may have no budget for a first instruction: in a slice no
\* longer than the core cycles carried into it (Scheduler's budget9_for).
LeaveAtOnce ==
  /\ Dsi /\ pc = "exec" /\ running = ARM9
  /\ pc' = "off" /\ running' = 0
  /\ UNCHANGED <<cpu, waits>>

Instruction ==
  \/ ExecPlain \/ ExecHalt
  \/ \E v \in BOOLEAN : ExecWriteIme(v) \/ ExecMask(v)
  \/ \E e \in SUBSET Bits : ExecWriteIe(e)
  \/ \E b \in Bits : ExecAck(b) \/ ExecRaise(b)

IrqInit ==
  /\ cpu = [c \in Cpus |-> [ie |-> {}, if_ |-> {}, ime |-> FALSE, pending |-> FALSE,
                            halted |-> FALSE, masked |-> TRUE, offline |-> FALSE, skip |-> FALSE]]
  /\ running = 0 /\ pc = "off" /\ waits = {}

IrqNext ==
  \/ \E c \in Cpus, b \in Bits : Raise(c, b) \/ Lower(c, b)
  \/ \E c \in Cpus : SliceStart(c)
  \/ DmaEnd \/ Enter \/ Instruction \/ LeaveAtOnce

IrqSpec == IrqInit /\ [][IrqNext]_irqVars

-----------------------------------------------------------------------------
(* Properties.                                                             *)

\* The registers keep their types, and one CPU at most is inside run_cpu.
IrqTypeOK ==
  /\ cpu \in [Cpus -> State]
  /\ running \in {0} \cup Cpus /\ pc \in {"off", "dma", "enter", "exec"}
  /\ running = 0 <=> pc = "off"
  /\ waits \subseteq Cpus

\* hot.irq_pending, the only thing the run loops and translated code test, is
\* never stale: it is IME and IE & IF after every request, acknowledge and
\* register write, also through request_irq's early return.
PendingExact == \A c \in Cpus : cpu[c].pending = (cpu[c].ime /\ Any(cpu[c]))

\* The ARM7 never sleeps through an interrupt: it is not halted while IE & IF
\* holds one, whichever of the halt and the request came first.
ARM7Wakes == cpu[ARM7].halted => ~Any(cpu[ARM7])

\* No interrupt is overlooked: between two instructions, one that is pending
\* and unmasked rose off-slice and still waits for its instruction (DSi); a
\* skipped check never outlives the one it was meant for.
NoneOverlooked ==
  /\ pc = "exec" /\ running \notin waits => ~cpu[running].pending \/ cpu[running].masked
  /\ pc = "exec" => ~cpu[running].skip

=============================================================================

------------------------------ MODULE IoProofs ------------------------------
(***************************************************************************)
(* Interrupts and the mailbox, the two halves of io.cpp (modules Irq and   *)
(* Ipc, each with a specification of its own).                             *)
(*                                                                         *)
(* The interrupt flag is exact and no interrupt is slept through or        *)
(* overlooked, for every set of sources, on a DS and on a DSi.             *)
(*                                                                         *)
(* The IPC FIFOs, for every capacity, every set of words and of control    *)
(* values: the held words always fit, no edge is missed or invented, and   *)
(* ring, held words and delivery together are the queues of IpcChannel.    *)
(***************************************************************************)
EXTENDS Irq, Ipc, SequenceTheorems, TLAPS

-----------------------------------------------------------------------------
(* Interrupts.                                                             *)

\* What a CPU's own record keeps, whoever changes it.
RecordInv(c, x) ==
  /\ x \in State
  /\ x.pending = (x.ime /\ Any(x))
  /\ c = ARM7 /\ x.halted => ~Any(x)

\* A skipped check, or one to come, belongs to an interrupt that waits; inside
\* the engine it has been converted, and between instructions it is used up.
SkipInv ==
  /\ \A c \in Cpus : cpu[c].offline \/ cpu[c].skip => c \in waits
  /\ pc \in {"enter", "exec"} => ~cpu[running].offline

IrqInv ==
  /\ IrqTypeOK
  /\ \A c \in Cpus : RecordInv(c, cpu[c])
  /\ SkipInv
  /\ NoneOverlooked

-----------------------------------------------------------------------------
(* The operations on one CPU's record.                                     *)

\* update_irq makes any record exact, wakes an ARM7, and sets irq_offline only
\* off-slice; skip and the mask are not its business (Io::update_irq).
LEMMA UpdateIrq ==
  ASSUME NEW c \in Cpus, NEW x \in State, NEW off \in BOOLEAN
  PROVE  LET y == update_irq(c, x, off)
         IN  /\ RecordInv(c, y)
             /\ y.skip = x.skip /\ y.masked = x.masked
             /\ ~off => y.offline = x.offline
<1> DEFINE y == update_irq(c, x, off)
<1>1. /\ y \in State /\ y.ie = x.ie /\ y.if_ = x.if_ /\ y.ime = x.ime
      /\ y.pending = (x.ime /\ Any(x))
      /\ y.halted = (x.halted /\ ~(Any(x) /\ (c = ARM7 \/ x.ime)))
      /\ y.offline = (x.offline \/ (Dsi /\ (x.ime /\ Any(x)) /\ ~x.pending /\ off /\ ~x.halted))
      /\ y.skip = x.skip /\ y.masked = x.masked
  BY DsiAssumption DEF State, update_irq, Any
<1>2. Any(y) = Any(x)
  BY <1>1 DEF Any
<1>3. y.pending = (y.ime /\ Any(y))
  BY <1>1, <1>2, Zenon
<1>4. c = ARM7 /\ y.halted => ~Any(y)
  BY <1>1, <1>2, Zenon
<1>5. ~off => y.offline = x.offline
  BY <1>1 DEF State
<1>6. RecordInv(c, y)
  BY <1>1, <1>3, <1>4, Zenon DEF RecordInv
<1> QED
  BY <1>1, <1>5, <1>6, Zenon

\* request_irq keeps a record exact, through its early return too
\* (Io::request_irq).
LEMMA RequestIrq ==
  ASSUME NEW c \in Cpus, NEW x, NEW b \in Bits, RecordInv(c, x),
         running \in {0} \cup Cpus
  PROVE  LET y == request_irq(c, x, b)
         IN  /\ RecordInv(c, y)
             /\ y.skip = x.skip /\ y.masked = x.masked
             /\ ~OffSlice(c) => y.offline = x.offline
<1>1. x \in State /\ [x EXCEPT !.if_ = @ \cup {b}] \in State
  BY DEF RecordInv, State
<1>2. OffSlice(c) \in BOOLEAN
  BY DEF OffSlice
<1> DEFINE z == [x EXCEPT !.if_ = @ \cup {b}]
<1>3. z.skip = x.skip /\ z.masked = x.masked /\ z.offline = x.offline
  BY <1>1 DEF State
<1>4. /\ RecordInv(c, update_irq(c, z, OffSlice(c)))
      /\ update_irq(c, z, OffSlice(c)).skip = z.skip
      /\ update_irq(c, z, OffSlice(c)).masked = z.masked
      /\ ~OffSlice(c) => update_irq(c, z, OffSlice(c)).offline = z.offline
  BY <1>1, <1>2, UpdateIrq
<1> HIDE DEF z
<1>5. request_irq(c, x, b) = IF b \in x.if_ /\ ~x.halted THEN x ELSE update_irq(c, z, OffSlice(c))
  BY DEF request_irq, z
<1> QED
  BY <1>3, <1>4, <1>5, Zenon

\* check_irq only wakes, masks and uses up the skip (CpuContext::check_irq).
LEMMA CheckIrq ==
  ASSUME NEW c \in Cpus, NEW x, RecordInv(c, x)
  PROVE  LET y == check_irq(x)
         IN  /\ RecordInv(c, y)
             /\ y.offline = x.offline /\ y.pending = x.pending
             /\ y.skip => x.skip
             /\ ~x.skip => ~y.skip /\ (y.pending => y.masked)
             /\ x.skip => ~y.skip
<1> QED
  BY DEF RecordInv, State, check_irq, Takes, Any

\* Convert turns an offline mark into a skip (Scheduler::run_cpu).
LEMMA ConvertIrq ==
  ASSUME NEW c \in Cpus, NEW x, RecordInv(c, x)
  PROVE  LET y == Convert(x)
         IN  /\ RecordInv(c, y)
             /\ ~y.offline
             /\ y.skip => x.skip \/ x.offline
<1> QED
  BY DEF RecordInv, State, Convert, Any

-----------------------------------------------------------------------------
(* The actions.                                                            *)

\* After reset (CpuContext::reset) nothing is pending.
LEMMA IrqInitInv == IrqInit => IrqInv
<1> SUFFICES ASSUME IrqInit PROVE IrqInv
  OBVIOUS
<1>1. \A c \in Cpus : cpu[c] = [ie |-> {}, if_ |-> {}, ime |-> FALSE, pending |-> FALSE,
        halted |-> FALSE, masked |-> TRUE, offline |-> FALSE, skip |-> FALSE]
  BY DEF IrqInit
<1>2. IrqTypeOK
  BY DEF IrqInit, IrqTypeOK, State, Cpus, ARM7, ARM9
<1>3. \A c \in Cpus : RecordInv(c, cpu[c])
  <2> SUFFICES ASSUME NEW c \in Cpus PROVE RecordInv(c, cpu[c])
    OBVIOUS
  <2>1. cpu[c] \in State
    BY <1>2 DEF IrqTypeOK
  <2>2. cpu[c].ie = {} /\ cpu[c].if_ = {}
    BY <1>1
  <2>3. ~Any(cpu[c])
    BY <2>2 DEF Any
  <2>4. cpu[c].pending = FALSE /\ cpu[c].ime = FALSE
    BY <1>1
  <2> QED
    BY <2>1, <2>4, <2>3, Zenon DEF RecordInv
<1> QED
  BY <1>1, <1>2, <1>3 DEF IrqInit, IrqInv, SkipInv, NoneOverlooked

\* A record changed off-slice, by a device or a handler.
LEMMA OffSliceKeeps ==
  ASSUME IrqInv, NEW c \in Cpus, NEW x, OffSlice(c), RecordInv(c, x), x.skip = cpu[c].skip,
         cpu' = [cpu EXCEPT ![c] = x], waits' = Waits(c, x), UNCHANGED <<running, pc>>
  PROVE  IrqInv'
<1>1. cpu' \in [Cpus -> State] /\ cpu'[c] = x /\ \A d \in Cpus \ {c} : cpu'[d] = cpu[d]
  BY DEF IrqInv, IrqTypeOK, RecordInv
<1>2. waits \subseteq waits' /\ waits' \subseteq Cpus
  BY DEF Waits, IrqInv, IrqTypeOK
<1>3. x.offline => c \in waits'
  BY DEF Waits, IrqInv, SkipInv
<1>4. IrqTypeOK'
  BY <1>1, <1>2 DEF IrqInv, IrqTypeOK
<1>5. \A d \in Cpus : RecordInv(d, cpu[d])'
  BY <1>1 DEF IrqInv, RecordInv, Any
<1>6. running # c \/ pc = "dma"
  BY DEF OffSlice
<1>7. SkipInv'
  BY <1>1, <1>2, <1>3, <1>6 DEF IrqInv, SkipInv, IrqTypeOK
<1>8. NoneOverlooked'
  BY <1>1, <1>2, <1>6 DEF IrqInv, NoneOverlooked, IrqTypeOK
<1> QED
  BY <1>4, <1>5, <1>7, <1>8 DEF IrqInv

\* A device's request (Io::request_irq).
LEMMA RaiseKeeps == ASSUME IrqInv, NEW c \in Cpus, NEW b \in Bits, Raise(c, b) PROVE IrqInv'
<1>1. RecordInv(c, cpu[c]) /\ running \in {0} \cup Cpus
  BY DEF IrqInv, IrqTypeOK
<1>2. RecordInv(c, request_irq(c, cpu[c], b)) /\ request_irq(c, cpu[c], b).skip = cpu[c].skip
  BY <1>1, RequestIrq
<1> QED
  BY <1>2, OffSliceKeeps DEF Raise

\* A level source takes its request back (Io::set_irq_line).
LEMMA LowerKeeps == ASSUME IrqInv, NEW c \in Cpus, NEW b \in Bits, Lower(c, b) PROVE IrqInv'
<1> DEFINE z == [cpu[c] EXCEPT !.if_ = @ \ {b}]
           x == update_irq(c, z, OffSlice(c))
<1>1. z \in State /\ z.skip = cpu[c].skip /\ OffSlice(c) \in BOOLEAN
  BY DEF IrqInv, IrqTypeOK, State, OffSlice
<1>2. RecordInv(c, x) /\ x.skip = z.skip
  BY <1>1, UpdateIrq
<1>3. OffSlice(c) /\ cpu' = [cpu EXCEPT ![c] = x] /\ waits' = Waits(c, x) /\ UNCHANGED <<running, pc>>
  BY DEF Lower
<1> HIDE DEF x, z
<1> QED
  BY <1>1, <1>2, <1>3, OffSliceKeeps

\* A slice starts (Scheduler::run_cpu): the offline mark becomes a skip.
LEMMA SliceStartKeeps == ASSUME IrqInv, NEW c \in Cpus, SliceStart(c) PROVE IrqInv'
<1>1. RecordInv(c, Convert(cpu[c])) /\ ~Convert(cpu[c]).offline
      /\ (Convert(cpu[c]).skip => cpu[c].skip \/ cpu[c].offline)
  BY ConvertIrq DEF IrqInv
<1>2. cpu'[c] = Convert(cpu[c]) /\ \A d \in Cpus \ {c} : cpu'[d] = cpu[d]
  BY DEF SliceStart, IrqInv, IrqTypeOK
<1>3. cpu' \in [Cpus -> State]
  BY <1>1 DEF SliceStart, IrqInv, IrqTypeOK, RecordInv
<1>4. \A d \in Cpus : RecordInv(d, cpu[d])'
  BY <1>1, <1>2 DEF IrqInv, RecordInv, Any
<1>5. running' = c /\ waits' = waits /\ pc' \in {"dma", "enter"}
  BY DEF SliceStart
<1> QED
  BY <1>1, <1>2, <1>3, <1>4, <1>5 DEF IrqInv, IrqTypeOK, SkipInv, NoneOverlooked, Cpus, ARM7, ARM9

\* A DMA hands over to its CPU, or the slice ends with it.
LEMMA DmaEndKeeps == ASSUME IrqInv, DmaEnd PROVE IrqInv'
<1>1. CASE pc' = "off" /\ running' = 0 /\ UNCHANGED cpu
  BY <1>1 DEF DmaEnd, IrqInv, IrqTypeOK, SkipInv, NoneOverlooked, RecordInv, Any
<1>2. CASE pc' = "enter" /\ cpu' = [cpu EXCEPT ![running] = Convert(@)] /\ UNCHANGED running
  <2>1. running \in Cpus
    BY DEF DmaEnd, IrqInv, IrqTypeOK
  <2>2. RecordInv(running, Convert(cpu[running])) /\ ~Convert(cpu[running]).offline
        /\ (Convert(cpu[running]).skip => cpu[running].skip \/ cpu[running].offline)
    BY <2>1, ConvertIrq DEF IrqInv
  <2>3. cpu'[running] = Convert(cpu[running]) /\ \A d \in Cpus \ {running} : cpu'[d] = cpu[d]
    BY <1>2, <2>1 DEF IrqInv, IrqTypeOK
  <2>4. cpu' \in [Cpus -> State]
    BY <1>2, <2>1, <2>2 DEF IrqInv, IrqTypeOK, RecordInv
  <2>5. \A d \in Cpus : RecordInv(d, cpu[d])'
    BY <2>1, <2>2, <2>3 DEF IrqInv, RecordInv, Any
  <2> QED
    BY <1>2, <2>1, <2>2, <2>3, <2>4, <2>5 DEF DmaEnd, IrqInv, IrqTypeOK, SkipInv, NoneOverlooked, Cpus, ARM7, ARM9
<1> QED
  BY <1>1, <1>2 DEF DmaEnd

\* The check before the first instruction uses up the skip, or takes the interrupt.
LEMMA EnterKeeps == ASSUME IrqInv, Enter PROVE IrqInv'
<1> DEFINE y == check_irq(cpu[running])
<1>1. running \in Cpus
  BY DEF Enter, IrqInv, IrqTypeOK
<1>2. /\ RecordInv(running, y) /\ y.offline = cpu[running].offline /\ ~y.skip
      /\ ~cpu[running].skip => (y.pending => y.masked)
  BY <1>1, CheckIrq DEF IrqInv
<1>3. cpu'[running] = y /\ \A d \in Cpus \ {running} : cpu'[d] = cpu[d]
  BY <1>1 DEF Enter, IrqInv, IrqTypeOK
<1>4. cpu' \in [Cpus -> State]
  BY <1>1, <1>2 DEF Enter, IrqInv, IrqTypeOK, RecordInv
<1>5. \A d \in Cpus : RecordInv(d, cpu[d])'
  BY <1>1, <1>2, <1>3 DEF IrqInv, RecordInv, Any
<1>6. waits' = waits /\ pc = "enter"
      /\ ((pc' = "off" /\ running' = 0) \/ (pc' = "exec" /\ running' = running))
  BY DEF Enter
<1>7. cpu[running].skip => running \in waits
  BY <1>1 DEF IrqInv, SkipInv
<1> HIDE DEF y
<1>8. IrqTypeOK'
  BY <1>1, <1>4, <1>6 DEF IrqInv, IrqTypeOK, Cpus, ARM7, ARM9
<1>9. SkipInv'
  BY <1>1, <1>2, <1>3, <1>6 DEF IrqInv, SkipInv
<1>10. NoneOverlooked'
  BY <1>1, <1>2, <1>3, <1>6, <1>7 DEF NoneOverlooked
<1> QED
  BY <1>5, <1>8, <1>9, <1>10 DEF IrqInv

\* An instruction, whatever it did to its CPU's record.
LEMMA ExecutedKeeps ==
  ASSUME IrqInv, NEW y, Executed(y), RecordInv(running, y), y.skip = cpu[running].skip,
         y.offline = cpu[running].offline
  PROVE  IrqInv'
<1> DEFINE z == IF ~y.halted /\ y.pending THEN check_irq(y) ELSE y
<1>1. running \in Cpus /\ pc = "exec"
  BY DEF Executed, IrqInv, IrqTypeOK
<1>2. ~y.skip /\ ~y.offline
  BY <1>1 DEF IrqInv, SkipInv, NoneOverlooked
<1>3. RecordInv(running, z) /\ ~z.skip /\ ~z.offline /\ (~y.halted => (z.pending => z.masked))
  <2>1. CASE ~y.halted /\ y.pending
    BY <1>1, <1>2, <2>1, CheckIrq
  <2>2. CASE ~(~y.halted /\ y.pending)
    BY <1>2, <2>2
  <2> QED
    BY <2>1, <2>2
<1>4. cpu' = [cpu EXCEPT ![running] = z] /\ waits' = waits \ {running}
      /\ ((pc' = "off" /\ running' = 0) \/ (~y.halted /\ pc' = pc /\ running' = running))
  BY DEF Executed
<1> HIDE DEF z
<1>5. cpu' \in [Cpus -> State] /\ cpu'[running] = z /\ \A d \in Cpus \ {running} : cpu'[d] = cpu[d]
  BY <1>1, <1>3, <1>4 DEF IrqInv, IrqTypeOK, RecordInv
<1>6. IrqTypeOK'
  BY <1>1, <1>4, <1>5 DEF IrqInv, IrqTypeOK, Cpus, ARM7, ARM9
<1>7. \A d \in Cpus : RecordInv(d, cpu[d])'
  BY <1>1, <1>3, <1>5 DEF IrqInv, RecordInv, Any
<1>8. SkipInv'
  BY <1>1, <1>3, <1>4, <1>5 DEF IrqInv, SkipInv
<1>9. NoneOverlooked'
  BY <1>1, <1>3, <1>4, <1>5 DEF NoneOverlooked
<1> QED
  BY <1>6, <1>7, <1>8, <1>9 DEF IrqInv

\* Every instruction keeps its CPU's record exact and its skip as it was.
LEMMA InstructionKeeps == ASSUME IrqInv, Instruction PROVE IrqInv'
<1> DEFINE x == cpu[running]
           Same(y) == RecordInv(running, y) /\ y.skip = x.skip /\ y.offline = x.offline
<1>1. running \in Cpus /\ pc = "exec" /\ x \in State /\ RecordInv(running, x)
  BY DEF Instruction, ExecPlain, ExecHalt, ExecWriteIme, ExecMask, ExecWriteIe, ExecAck, ExecRaise,
         Executed, IrqInv, IrqTypeOK
<1>2. ASSUME NEW z \in State, z.skip = x.skip, z.offline = x.offline
      PROVE  Same(update_irq(running, z, FALSE))
  BY <1>1, <1>2, UpdateIrq
<1>3. \A y : Executed(y) /\ Same(y) => IrqInv'
  BY ExecutedKeeps
<1>4. CASE ExecPlain
  BY <1>1, <1>3, <1>4 DEF ExecPlain, Self
<1>5. CASE ExecHalt
  <2> DEFINE y == IF running = ARM7 THEN Haltcnt(x) ELSE WaitForInterrupt(x)
  <2>1. Same(y)
    BY <1>1 DEF RecordInv, State, Any, Haltcnt, WaitForInterrupt
  <2>2. Executed(y)
    BY <1>5 DEF ExecHalt, Self
  <2> QED
    BY <1>3, <2>1, <2>2
<1>6. ASSUME NEW v \in BOOLEAN, ExecWriteIme(v) PROVE IrqInv'
  <2> DEFINE z == [x EXCEPT !.ime = v]
  <2>1. z \in State /\ z.skip = x.skip /\ z.offline = x.offline
    BY <1>1 DEF State
  <2>2. Same(update_irq(running, z, FALSE))
    BY <1>2, <2>1
  <2>3. Executed(update_irq(running, z, FALSE))
    BY <1>6 DEF ExecWriteIme, Self
  <2> QED
    BY <1>3, <2>2, <2>3
<1>7. ASSUME NEW v \in BOOLEAN, ExecMask(v) PROVE IrqInv'
  <2> DEFINE y == [x EXCEPT !.masked = v]
  <2>1. Same(y)
    BY <1>1 DEF RecordInv, State, Any
  <2>2. Executed(y)
    BY <1>7 DEF ExecMask, Self
  <2> QED
    BY <1>3, <2>1, <2>2
<1>8. ASSUME NEW e \in SUBSET Bits, ExecWriteIe(e) PROVE IrqInv'
  <2> DEFINE z == [x EXCEPT !.ie = e]
  <2>1. z \in State /\ z.skip = x.skip /\ z.offline = x.offline
    BY <1>1 DEF State
  <2>2. Same(update_irq(running, z, FALSE))
    BY <1>2, <2>1
  <2>3. Executed(update_irq(running, z, FALSE))
    BY <1>8 DEF ExecWriteIe, Self
  <2> QED
    BY <1>3, <2>2, <2>3
<1>9. ASSUME NEW b \in Bits, ExecAck(b) PROVE IrqInv'
  <2> DEFINE z == [x EXCEPT !.if_ = @ \ {b}]
  <2>1. z \in State /\ z.skip = x.skip /\ z.offline = x.offline
    BY <1>1 DEF State
  <2>2. Same(update_irq(running, z, FALSE))
    BY <1>2, <2>1
  <2>3. Executed(update_irq(running, z, FALSE))
    BY <1>9 DEF ExecAck, Self
  <2> QED
    BY <1>3, <2>2, <2>3
<1>10. ASSUME NEW b \in Bits, ExecRaise(b) PROVE IrqInv'
  <2>1. ~OffSlice(running) /\ running \in {0} \cup Cpus
    BY <1>1 DEF OffSlice
  <2>2. Same(request_irq(running, x, b))
    BY <1>1, <2>1, RequestIrq
  <2>3. Executed(request_irq(running, x, b))
    BY <1>10 DEF ExecRaise, Self
  <2> QED
    BY <1>3, <2>2, <2>3
<1> QED
  BY <1>4, <1>5, <1>6, <1>7, <1>8, <1>9, <1>10 DEF Instruction

\* An ARM9 without budget leaves the engine.
LEMMA LeaveAtOnceKeeps == ASSUME IrqInv, LeaveAtOnce PROVE IrqInv'
<1> QED
  BY DEF LeaveAtOnce, IrqInv, IrqTypeOK, SkipInv, NoneOverlooked, RecordInv, Any

\* Nothing changes.
LEMMA StutterKeeps == ASSUME IrqInv, UNCHANGED irqVars PROVE IrqInv'
<1> QED
  BY DEF irqVars, IrqInv, IrqTypeOK, SkipInv, NoneOverlooked, RecordInv, Any

\* The inductive invariant: records exact, skips accounted for, nothing overlooked.
THEOREM IrqInvCorrect == IrqSpec => []IrqInv
<1>1. IrqInv /\ [IrqNext]_irqVars => IrqInv'
  BY RaiseKeeps, LowerKeeps, SliceStartKeeps, DmaEndKeeps, EnterKeeps, InstructionKeeps,
     LeaveAtOnceKeeps, StutterKeeps DEF IrqNext
<1> QED
  BY IrqInitInv, <1>1, PTL DEF IrqSpec

\* The interrupt state keeps its types, and one CPU at most is inside run_cpu.
THEOREM IrqTypeCorrect == IrqSpec => []IrqTypeOK
<1>1. IrqInv => IrqTypeOK
  BY DEF IrqInv
<1> QED
  BY IrqInvCorrect, <1>1, PTL

\* The cached flag is IME and IE & IF after every operation (Io::update_irq,
\* Io::request_irq).
THEOREM FlagExact == IrqSpec => []PendingExact
<1>1. IrqInv => PendingExact
  BY DEF IrqInv, RecordInv, PendingExact
<1> QED
  BY IrqInvCorrect, <1>1, PTL

\* A halted ARM7 has no enabled interrupt pending (Io::update_irq, HALTCNT).
THEOREM SleepsSoundly == IrqSpec => []ARM7Wakes
<1>1. IrqInv => ARM7Wakes
  BY DEF IrqInv, RecordInv, ARM7Wakes, Cpus
<1> QED
  BY IrqInvCorrect, <1>1, PTL

\* Between instructions no pending, unmasked interrupt is overlooked but one
\* that rose off-slice and waits for its instruction (check_irq, run_cpu).
THEOREM OverlooksNone == IrqSpec => []NoneOverlooked
<1>1. IrqInv => NoneOverlooked
  BY DEF IrqInv
<1> QED
  BY IrqInvCorrect, <1>1, PTL

-----------------------------------------------------------------------------
(* The mailbox.                                                            *)

\* A word is held from the ARM9's yield to the slice's end only, so neither the
\* ARM9 nor a DMA of it ever runs with a word held back.
HeldAfter9 == held # <<>> => at \in {"left9", "arm7", "end"}

Inv == TypeOK /\ HeldFits /\ HeldAfter9 /\ EdgesTold

-----------------------------------------------------------------------------
(* The ring.                                                               *)

\* An index, masked.
Mask(a) == a % Cap

\* An index at most one turn too far is masked into the ring (IpcFifo::push, pop).
LEMMA Masked ==
  ASSUME NEW a \in Nat, a < 2 * Cap
  PROVE  /\ Mask(a) \in Cells
         /\ Mask(a) = IF a < Cap THEN a ELSE a - Cap
BY IpcAssumption DEF Mask, Cells

\* The i-th oldest word of a ring lies i - 1 cells after its head.
LEMMA ContentsAt ==
  ASSUME NEW f, NEW i \in 1 .. f.count
  PROVE  Contents(f)[i] = f.data[Mask(f.head + i - 1)]
BY DEF Contents, Mask

\* What a ring holds is a sequence of as many words as it counts.
LEMMA ContentsSeq ==
  ASSUME NEW f \in IpcFifo
  PROVE  /\ Contents(f) \in Seq(Words)
         /\ Len(Contents(f)) = f.count
         /\ DOMAIN Contents(f) = 1 .. f.count
<1>1. /\ f.head \in Cells /\ f.count \in 0 .. Cap /\ f.data \in [Cells -> Words]
      /\ f.head \in Nat /\ f.count \in Nat
  BY IpcAssumption DEF IpcFifo, Cells
<1>2. \A i \in 1 .. f.count : f.data[Mask(f.head + i - 1)] \in Words
  <2> TAKE i \in 1 .. f.count
  <2>1. f.head + i - 1 \in Nat /\ f.head + i - 1 < 2 * Cap
    BY <1>1, IpcAssumption DEF Cells
  <2> QED
    BY <1>1, <2>1, Masked
<1> QED
  BY <1>1, <1>2, IsASeq, LenProperties DEF Contents, Mask

\* push adds one word behind the others (IpcFifo::push).
LEMMA PushAppends ==
  ASSUME NEW f \in IpcFifo, NEW w \in Words, f.count < Cap
  PROVE  /\ push(f, w) \in IpcFifo
         /\ push(f, w).count = f.count + 1
         /\ push(f, w).last = f.last
         /\ Contents(push(f, w)) = Append(Contents(f), w)
<1> DEFINE g == push(f, w)
           k == Mask(f.head + f.count)
<1>1. /\ f.head \in Cells /\ f.count \in 0 .. Cap /\ f.data \in [Cells -> Words]
      /\ f.head \in Nat /\ f.count \in Nat /\ f.head < Cap /\ Cap \in Nat
  BY IpcAssumption DEF IpcFifo, Cells
<1>2. /\ k \in Cells
      /\ k = IF f.head + f.count < Cap THEN f.head + f.count ELSE f.head + f.count - Cap
  BY <1>1, Masked
<1>3. /\ g.head = f.head /\ g.count = f.count + 1 /\ g.last = f.last
      /\ g.data = [f.data EXCEPT ![k] = w]
      /\ g \in IpcFifo
  BY <1>1, <1>2 DEF IpcFifo, push, Mask
<1>4. \A i \in 1 .. g.count : g.data[Mask(g.head + i - 1)] = IF i = g.count THEN w ELSE Contents(f)[i]
  <2> TAKE i \in 1 .. g.count
  <2> DEFINE j == Mask(f.head + i - 1)
  <2>1. /\ j \in Cells
        /\ j = IF f.head + i - 1 < Cap THEN f.head + i - 1 ELSE f.head + i - 1 - Cap
    <3>1. f.head + i - 1 \in Nat /\ f.head + i - 1 < 2 * Cap
      BY <1>1, <1>3
    <3> QED
      BY <1>1, <1>3, <3>1, Masked
  <2>2. CASE i = g.count
    <3>1. j = k
      BY <1>1, <1>3, <2>2
    <3> QED
      BY <1>1, <1>2, <1>3, <2>2, <3>1
  <2>3. CASE i # g.count
    <3>1. i \in 1 .. f.count
      BY <1>1, <1>3, <2>3
    <3>2. j # k
      BY <1>1, <1>2, <2>1, <3>1
    <3> HIDE DEF j, k
    <3>3. g.data[j] = f.data[j]
      BY <1>1, <1>3, <2>1, <3>2
    <3>4. Contents(f)[i] = f.data[j]
      BY <3>1, ContentsAt DEF j
    <3> QED
      BY <1>3, <2>3, <3>3, <3>4 DEF j
  <2> QED
    BY <2>2, <2>3
<1> HIDE DEF g, k
<1>5. /\ Contents(f) \in Seq(Words) /\ Len(Contents(f)) = f.count
      /\ Contents(g) \in Seq(Words) /\ Len(Contents(g)) = f.count + 1
      /\ DOMAIN Contents(g) = 1 .. g.count
  BY <1>3, ContentsSeq
<1>6. \A i \in 1 .. g.count : Contents(g)[i] = IF i = g.count THEN w ELSE Contents(f)[i]
  BY <1>4, ContentsAt
<1>7. /\ Append(Contents(f), w) \in Seq(Words)
      /\ Len(Append(Contents(f), w)) = f.count + 1
      /\ \A i \in 1 .. f.count : Append(Contents(f), w)[i] = Contents(f)[i]
      /\ Append(Contents(f), w)[f.count + 1] = w
  BY <1>5, AppendProperties
<1>8. \A i \in 1 .. f.count + 1 : Contents(g)[i] = Append(Contents(f), w)[i]
  BY <1>1, <1>3, <1>6, <1>7
<1>9. Contents(g) = Append(Contents(f), w)
  BY <1>1, <1>5, <1>7, <1>8, SeqEqual
<1> QED
  BY <1>3, <1>9 DEF g

\* pop takes the oldest word, and remembers it (IpcFifo::pop).
LEMMA PopTakesHead ==
  ASSUME NEW f \in IpcFifo, f.count # 0
  PROVE  /\ pop(f) \in IpcFifo
         /\ pop(f).count = f.count - 1
         /\ Contents(f) # <<>>
         /\ Contents(pop(f)) = Tail(Contents(f))
         /\ pop(f).last = Head(Contents(f))
<1> DEFINE g == pop(f)
<1>1. /\ f.head \in Cells /\ f.count \in 0 .. Cap /\ f.data \in [Cells -> Words]
      /\ f.head \in Nat /\ f.count \in Nat /\ f.head < Cap /\ Cap \in Nat /\ f.count > 0
  BY IpcAssumption DEF IpcFifo, Cells
<1>2. Mask(f.head + 1) \in Cells
  BY <1>1, Masked
<1>3. /\ g.head = Mask(f.head + 1) /\ g.count = f.count - 1
      /\ g.last = f.data[f.head] /\ g.data = f.data
      /\ g \in IpcFifo
  BY <1>1, <1>2 DEF IpcFifo, pop, Mask
<1>4. \A i \in 1 .. g.count : g.data[Mask(g.head + i - 1)] = f.data[Mask(f.head + i)]
  <2> TAKE i \in 1 .. g.count
  <2>1. Mask(f.head + 1) = IF f.head + 1 < Cap THEN f.head + 1 ELSE f.head + 1 - Cap
    BY <1>1, Masked
  <2>2. f.head + i \in Nat /\ f.head + i < 2 * Cap
    BY <1>1, <1>3
  <2>3. Mask(f.head + i) = IF f.head + i < Cap THEN f.head + i ELSE f.head + i - Cap
    BY <1>1, <1>3, <2>2, Masked
  <2>4. g.head + i - 1 \in Nat /\ g.head + i - 1 < 2 * Cap
    BY <1>1, <1>3, <2>1
  <2>5. Mask(g.head + i - 1) = IF g.head + i - 1 < Cap THEN g.head + i - 1 ELSE g.head + i - 1 - Cap
    BY <1>1, <1>2, <1>3, <2>4, Masked
  <2>6. Mask(g.head + i - 1) = Mask(f.head + i)
    BY <1>1, <1>3, <2>1, <2>2, <2>3, <2>4, <2>5
  <2> QED
    BY <1>3, <2>6
<1> HIDE DEF g
<1>5. /\ Contents(f) \in Seq(Words) /\ Len(Contents(f)) = f.count
      /\ Contents(g) \in Seq(Words) /\ Len(Contents(g)) = f.count - 1
  BY <1>3, ContentsSeq
<1>6. \A i \in 1 .. f.count - 1 : Contents(g)[i] = Contents(f)[i + 1]
  <2> TAKE i \in 1 .. f.count - 1
  <2>1. Contents(g)[i] = f.data[Mask(f.head + i)]
    BY <1>3, <1>4, ContentsAt
  <2>2. i + 1 \in 1 .. f.count /\ f.head + (i + 1) - 1 = f.head + i
    BY <1>1
  <2>3. Contents(f)[i + 1] = f.data[Mask(f.head + (i + 1) - 1)]
    BY <2>2, ContentsAt
  <2> QED
    BY <2>1, <2>2, <2>3
<1>7. Contents(f) # <<>>
  BY <1>1, <1>5
<1>8. /\ Tail(Contents(f)) \in Seq(Words)
      /\ Len(Tail(Contents(f))) = f.count - 1
      /\ \A i \in 1 .. f.count - 1 : Tail(Contents(f))[i] = Contents(f)[i + 1]
      /\ Head(Contents(f)) = Contents(f)[1]
  BY <1>5, <1>7, HeadTailProperties
<1>9. Contents(g) = Tail(Contents(f))
  BY <1>1, <1>5, <1>6, <1>8, SeqEqual
<1>10. Contents(f)[1] = f.data[f.head]
  <2>1. f.head + 1 - 1 = f.head /\ Mask(f.head) = f.head
    BY <1>1, Masked
  <2>2. Contents(f)[1] = f.data[Mask(f.head + 1 - 1)]
    BY <1>1, ContentsAt
  <2> QED
    BY <2>1, <2>2
<1> QED
  BY <1>3, <1>7, <1>8, <1>9, <1>10 DEF g

\* clear leaves nothing, and the last word (IpcFifo::clear).
LEMMA ClearEmpties ==
  ASSUME NEW f \in IpcFifo
  PROVE  /\ clear(f) \in IpcFifo
         /\ clear(f).count = 0
         /\ clear(f).last = f.last
         /\ Contents(clear(f)) = <<>>
<1>1. clear(f) \in IpcFifo /\ clear(f).count = 0 /\ clear(f).last = f.last
  BY IpcAssumption DEF IpcFifo, Cells, clear
<1>2. Contents(clear(f)) \in Seq(Words) /\ Len(Contents(clear(f))) = 0
  BY <1>1, ContentsSeq
<1> QED
  BY <1>1, <1>2, EmptySeq

-----------------------------------------------------------------------------
(* The invariant.                                                          *)

\* The two CPUs are each other's other.
LEMMA OtherCpu ==
  \A c \in Cpus : other(c) \in Cpus /\ other(c) # c /\ other(other(c)) = c
BY DEF Cpus, other, ARM9, ARM7

\* Request: one CPU loses the facts s1, the other gets the interrupts s2.
LEMMA RequestEach ==
  ASSUME TypeOK, NEW c1 \in Cpus, NEW c2 \in Cpus, c1 # c2,
         NEW s1, NEW s2 \in SUBSET {"recv", "send"}, Request(For(c1, s1), For(c2, s2))
  PROVE  /\ raised' \in [Cpus -> SUBSET {"recv", "send"}]
         /\ raised'[c1] = raised[c1] \ s1
         /\ raised'[c2] = raised[c2] \cup s2
<1> DEFINE gone(d) == IF d = c1 THEN s1 ELSE {}
           come(d) == IF d = c2 THEN s2 ELSE {}
<1>1. raised' = [d \in Cpus |-> (raised[d] \ gone(d)) \cup come(d)]
  BY DEF Request, For
<1>2. \A d \in Cpus : (raised[d] \ gone(d)) \cup come(d) \in SUBSET {"recv", "send"}
  BY DEF TypeOK
<1> QED
  BY <1>1, <1>2

\* The power-on state keeps the invariant (Io::reset).
LEMMA InitInv == Init => Inv
<1> SUFFICES ASSUME Init PROVE Inv
  OBVIOUS
<1>1. TypeOK
  BY IpcAssumption DEF Init, TypeOK, IpcFifo, Cells, Cpus
<1>2. HeldFits /\ HeldAfter9
  BY IpcAssumption DEF Init, HeldFits, HeldAfter9, Cpus
<1>3. EdgesTold
  BY OtherCpu DEF Init, EdgesTold, ReceiverTold, SenderTold, Cpus, empty
<1> QED
  BY <1>1, <1>2, <1>3 DEF Inv

\* A step of the scheduler moves the slice on and nothing else; run_until ends
\* a slice only after fire_due has delivered.
LEMMA MoveKeeps ==
  ASSUME Inv, UNCHANGED <<fifo, held, cnt, raised>>,
         at' \in {"begin", "dma9", "arm9", "left9", "arm7", "end"},
         held # <<>> => at' \in {"left9", "arm7", "end"}
  PROVE  Inv'
<1>1. TypeOK' /\ HeldFits' /\ HeldAfter9'
  BY DEF Inv, TypeOK, HeldFits, HeldAfter9
<1>2. EdgesTold'
  BY DEF Inv, EdgesTold, ReceiverTold, SenderTold, SendEmpty, Held
<1> QED
  BY <1>1, <1>2 DEF Inv

\* An error bit is not looked at by anything else (ipc_fifo_send, ipc_fifo_recv).
LEMMA ErrorKeeps ==
  ASSUME Inv, NEW c \in Cpus, cnt' = [cnt EXCEPT ![c].error = TRUE], UNCHANGED <<at, fifo, held, raised>>
  PROVE  Inv'
<1>1. TypeOK'
  BY DEF Inv, TypeOK
<1>2. HeldFits' /\ HeldAfter9'
  BY DEF Inv, HeldFits, HeldAfter9
<1>3. \A d \in Cpus : cnt'[d].recv = cnt[d].recv /\ cnt'[d].send = cnt[d].send
  BY DEF Inv, TypeOK
<1>4. EdgesTold'
  BY <1>3 DEF Inv, EdgesTold, ReceiverTold, SenderTold, SendEmpty, Held
<1> QED
  BY <1>1, <1>2, <1>4 DEF Inv

\* ipc_deliver: a held word goes into a ring that has room for it, and the ARM7
\* is told when the ring was empty.
LEMMA DeliverKeeps == ASSUME Inv, Deliver PROVE Inv'
<1>1. held \in Seq(Words) /\ held # <<>> /\ Head(held) \in Words /\ Tail(held) \in Seq(Words)
      /\ Len(Tail(held)) = Len(held) - 1 /\ Len(held) \in Nat /\ Len(held) > 0
  BY HeadTailProperties, EmptySeq, LenProperties DEF Inv, TypeOK, Deliver
<1>2. ARM9 \in Cpus /\ ARM7 \in Cpus /\ ARM9 # ARM7 /\ other(ARM9) = ARM7 /\ other(ARM7) = ARM9
  BY DEF Cpus, other, ARM9, ARM7
<1>3. fifo[ARM9] \in IpcFifo /\ fifo[ARM9].count \in 0 .. Cap /\ fifo[ARM9].count < Cap /\ Cap \in Nat
  BY <1>1, <1>2, IpcAssumption DEF Inv, TypeOK, HeldFits, IpcFifo
<1> DEFINE g == push(fifo[ARM9], Head(held))
           told == If(empty(fifo[ARM9]) /\ cnt[ARM7].recv, {"recv"})
           none == {}
<1>4. g \in IpcFifo /\ g.count = fifo[ARM9].count + 1
  BY <1>1, <1>3, PushAppends
<1> HIDE DEF g
<1>5. /\ fifo' = [fifo EXCEPT ![ARM9] = g] /\ held' = Tail(held) /\ UNCHANGED <<at, cnt>>
      /\ Request(For(ARM9, none), For(ARM7, told)) /\ told \in SUBSET {"recv", "send"}
  BY <1>3 DEF Deliver, g, If
<1> HIDE DEF told, none
<1>9. /\ raised' \in [Cpus -> SUBSET {"recv", "send"}]
      /\ raised'[ARM9] = raised[ARM9] \ none
      /\ raised'[ARM7] = raised[ARM7] \cup told
  <2>1. ARM9 \in Cpus /\ ARM7 \in Cpus /\ ARM9 # ARM7 /\ TypeOK
    BY <1>2 DEF Inv
  <2>2. Request(For(ARM9, none), For(ARM7, told)) /\ told \in SUBSET {"recv", "send"}
    BY <1>5
  <2> QED
    BY <2>1, <2>2, RequestEach, Zenon
<1>6. TypeOK'
  BY <1>1, <1>2, <1>4, <1>5, <1>9 DEF Inv, TypeOK
<1>7. HeldFits' /\ HeldAfter9'
  BY <1>1, <1>2, <1>3, <1>4, <1>5 DEF Inv, TypeOK, HeldFits, HeldAfter9, Deliver
<1>8. EdgesTold'
  <2>1. fifo'[ARM9] = g /\ fifo'[ARM7] = fifo[ARM7]
    BY <1>2, <1>5 DEF Inv, TypeOK
  <2>2. ~empty(g)
    BY <1>3, <1>4 DEF empty
  <2>3. "send" \notin raised[ARM9]
    BY <1>1, <1>2 DEF Inv, EdgesTold, SenderTold, SendEmpty, Held
  <2> QED
    BY <1>2, <1>5, <1>9, <2>1, <2>2, <2>3 DEF Inv, EdgesTold, ReceiverTold, SenderTold, SendEmpty, Held, If, Cpus, TypeOK, told, none
<1> QED
  BY <1>6, <1>7, <1>8 DEF Inv

\* ipc_fifo_send of an ARM7 or a DMA: no word of the sender is held.
LEMMA SendPushKeeps == ASSUME Inv, NEW c \in Cpus, NEW w \in Words, SendPush(c, w) PROVE Inv'
<1> DEFINE o == other(c)
           g == push(fifo[c], w)
           told == If(empty(fifo[c]) /\ cnt[o].recv, {"recv"})
<1>1. o \in Cpus /\ o # c /\ other(o) = c /\ Cpus = {c, o}
  BY OtherCpu DEF Cpus, other
<1>2. /\ fifo[c] \in IpcFifo /\ fifo[c].count \in 0 .. Cap /\ Cap \in Nat
      /\ Held(c) \in Nat /\ fifo[c].count + Held(c) < Cap
  BY IpcAssumption, LenProperties DEF Inv, TypeOK, IpcFifo, SendPush, SendFull, Held
<1>3. g \in IpcFifo /\ g.count = fifo[c].count + 1
  BY <1>2, PushAppends
<1>4. /\ fifo' = [fifo EXCEPT ![c] = g] /\ UNCHANGED <<at, held, cnt>>
      /\ Request(For(c, {"send"}), For(o, told)) /\ told \in SUBSET {"recv", "send"}
  BY DEF SendPush, If
<1> HIDE DEF g, o, told
<1>5. /\ raised' \in [Cpus -> SUBSET {"recv", "send"}]
      /\ raised'[c] = raised[c] \ {"send"}
      /\ raised'[o] = raised[o] \cup told
  BY <1>1, <1>4, RequestEach, Zenon DEF Inv
<1>6. TypeOK'
  BY <1>1, <1>3, <1>4, <1>5 DEF Inv, TypeOK
<1>7. HeldFits' /\ HeldAfter9'
  BY <1>1, <1>2, <1>3, <1>4 DEF Inv, TypeOK, HeldFits, HeldAfter9, Held
<1>8. EdgesTold'
  <2>1. fifo'[c] = g /\ fifo'[o] = fifo[o]
    BY <1>1, <1>4 DEF Inv, TypeOK
  <2>2. ~empty(g)
    BY <1>2, <1>3 DEF empty
  <2>3. Held(c)' = Held(c) /\ Held(o)' = Held(o)
    BY <1>4 DEF Held
  <2> QED
    BY <1>1, <1>4, <1>5, <2>1, <2>2, <2>3
    DEF Inv, EdgesTold, ReceiverTold, SenderTold, SendEmpty, If, TypeOK, o, told
<1> QED
  BY <1>6, <1>7, <1>8 DEF Inv

\* ipc_fifo_send of the running ARM9: held, counted, and the slice given up.
LEMMA SendHoldKeeps == ASSUME Inv, NEW w \in Words, SendHold(w) PROVE Inv'
<1>1. ARM9 \in Cpus /\ ARM7 \in Cpus /\ ARM9 # ARM7 /\ other(ARM9) = ARM7 /\ other(ARM7) = ARM9 /\ Cpus = {ARM9, ARM7}
  BY DEF Cpus, other, ARM9, ARM7
<1>2. /\ held \in Seq(Words) /\ Len(held) \in Nat /\ fifo[ARM9].count \in 0 .. Cap /\ Cap \in Nat
      /\ fifo[ARM9].count + Len(held) < Cap
  BY <1>1, IpcAssumption, LenProperties DEF Inv, TypeOK, IpcFifo, SendHold, SendFull, Held
<1>3. /\ held' = Append(held, w) /\ at' = "left9" /\ UNCHANGED <<fifo, cnt>>
      /\ Request(For(ARM9, {"send"}), For(ARM7, {}))
  BY DEF SendHold
<1>4. held' \in Seq(Words) /\ Len(held') = Len(held) + 1
  BY <1>2, <1>3, AppendProperties
<1>5. /\ raised' \in [Cpus -> SUBSET {"recv", "send"}]
      /\ raised'[ARM9] = raised[ARM9] \ {"send"} /\ raised'[ARM7] = raised[ARM7] \cup {}
  BY <1>1, <1>3, RequestEach, Zenon DEF Inv
<1>6. TypeOK'
  BY <1>1, <1>3, <1>4, <1>5 DEF Inv, TypeOK
<1>7. HeldFits' /\ HeldAfter9'
  BY <1>2, <1>3, <1>4 DEF HeldFits, HeldAfter9
<1>8. EdgesTold'
  <2>1. Held(ARM9)' # 0 /\ Held(ARM7)' = Held(ARM7)
    BY <1>1, <1>2, <1>4 DEF Held
  <2> QED
    BY <1>1, <1>3, <1>5, <2>1 DEF Inv, EdgesTold, ReceiverTold, SenderTold, SendEmpty, TypeOK
<1> QED
  BY <1>6, <1>7, <1>8 DEF Inv

\* ipc_fifo_recv: SEND_EMPTY only when the last word was taken and none is held.
LEMMA RecvKeeps == ASSUME Inv, NEW c \in Cpus, Recv(c) PROVE Inv'
<1> DEFINE o == other(c)
           g == pop(fifo[o])
           stale == If(empty(g), {"recv"})
           told == If(empty(g) /\ cnt[o].send /\ Held(o) = 0, {"send"})
<1>1. o \in Cpus /\ o # c /\ other(o) = c /\ Cpus = {c, o}
  BY OtherCpu DEF Cpus, other
<1>2. fifo[o] \in IpcFifo /\ fifo[o].count \in 0 .. Cap /\ fifo[o].count # 0 /\ Cap \in Nat
  BY <1>1, IpcAssumption DEF Inv, TypeOK, IpcFifo, Recv, empty
<1>3. g \in IpcFifo /\ g.count = fifo[o].count - 1
  BY <1>2, PopTakesHead
<1>4. /\ fifo' = [fifo EXCEPT ![o] = g] /\ UNCHANGED <<at, held, cnt>>
      /\ Request(For(c, stale), For(o, told)) /\ told \in SUBSET {"recv", "send"}
  BY DEF Recv, If
<1> HIDE DEF g, o, stale, told
<1>5. /\ raised' \in [Cpus -> SUBSET {"recv", "send"}]
      /\ raised'[c] = raised[c] \ stale
      /\ raised'[o] = raised[o] \cup told
  BY <1>1, <1>4, RequestEach, Zenon DEF Inv
<1>6. TypeOK'
  BY <1>1, <1>3, <1>4, <1>5 DEF Inv, TypeOK
<1>7. HeldFits' /\ HeldAfter9'
  BY <1>1, <1>2, <1>3, <1>4, LenProperties DEF Inv, TypeOK, HeldFits, HeldAfter9, Held
<1>8. EdgesTold'
  <2>1. fifo'[o] = g /\ fifo'[c] = fifo[c]
    BY <1>1, <1>4 DEF Inv, TypeOK
  <2>2. ~empty(fifo[o])
    BY <1>2 DEF empty
  <2>3. Held(c)' = Held(c) /\ Held(o)' = Held(o)
    BY <1>4 DEF Held
  <2> QED
    BY <1>1, <1>4, <1>5, <2>1, <2>2, <2>3
    DEF Inv, EdgesTold, ReceiverTold, SenderTold, SendEmpty, If, TypeOK, o, stale, told
<1> QED
  BY <1>6, <1>7, <1>8 DEF Inv

\* ipc_fifo_cnt_write: a flush empties what the writer sent, and each enabling
\* edge asks for the interrupt whose condition already holds.
LEMMA CntWriteKeeps == ASSUME Inv, NEW c \in Cpus, NEW v \in Controls, CntWrite(c, v) PROVE Inv'
<1> DEFINE o     == other(c)
           left  == IF v.flush THEN Flush(c) ELSE <<fifo[c], held>>
           f     == left[1]
           rest  == left[2]
           isEmpty == empty(f) /\ (c = ARM9 => rest = <<>>)
           send  == (~cnt[c].send /\ v.send /\ isEmpty) \/ (v.flush /\ v.send)
           recv  == ~cnt[c].recv /\ v.recv /\ ~empty(fifo[o])
           stale == If(empty(f), {"recv"})
           told  == If(send, {"send"}) \cup If(recv, {"recv"})
           ctl   == [enable |-> v.enable, send |-> v.send, recv |-> v.recv,
                     error |-> cnt[c].error /\ ~v.ack]
<1>1. o \in Cpus /\ o # c /\ other(o) = c /\ Cpus = {c, o}
  BY OtherCpu DEF Cpus, other
<1>2. /\ fifo[c] \in IpcFifo /\ held \in Seq(Words) /\ Cap \in Nat /\ fifo[c].count \in Nat
      /\ v \in ControlValue
  BY IpcAssumption DEF Inv, TypeOK, IpcFifo
<1>3. /\ fifo' = [fifo EXCEPT ![c] = f] /\ held' = rest /\ UNCHANGED at
      /\ cnt' = [cnt EXCEPT ![c] = ctl]
      /\ Request(For(o, stale), For(c, told)) /\ told \in SUBSET {"recv", "send"}
  BY DEF CntWrite, If
<1>4. /\ f \in IpcFifo /\ rest \in Seq(Words)
      /\ v.flush => empty(f) /\ (c = ARM9 => rest = <<>>)
      /\ ~v.flush => f = fifo[c] /\ rest = held
      /\ c # ARM9 => rest = held
  BY <1>2, ClearEmpties, EmptySeq DEF Flush, empty
<1>5. ctl \in [enable : BOOLEAN, send : BOOLEAN, recv : BOOLEAN, error : BOOLEAN]
  BY <1>2 DEF ControlValue, Inv, TypeOK
<1>6. ctl.send = v.send /\ ctl.recv = v.recv
  OBVIOUS
<1> HIDE DEF o, f, rest, stale, told, ctl
<1>7. /\ raised' \in [Cpus -> SUBSET {"recv", "send"}]
      /\ raised'[o] = raised[o] \ stale
      /\ raised'[c] = raised[c] \cup told
  <2>1. TypeOK /\ Request(For(o, stale), For(c, told)) /\ told \in SUBSET {"recv", "send"}
    BY <1>3 DEF Inv
  <2> QED
    BY <1>1, <2>1, RequestEach, Zenon
<1>8. TypeOK'
  BY <1>1, <1>3, <1>4, <1>5, <1>7 DEF Inv, TypeOK
<1>9. HeldFits' /\ HeldAfter9'
  <2>1. c = ARM9 => held = <<>> /\ rest = <<>>
    BY <1>4 DEF CntWrite, Running, Inv, HeldAfter9
  <2>2. rest = held
    BY <1>4, <2>1
  <2>3. fifo'[ARM9].count <= fifo[ARM9].count
    BY <1>1, <1>2, <1>3, <1>4 DEF Inv, TypeOK, empty, IpcFifo, Cpus
  <2>4. fifo[ARM9].count \in Nat /\ fifo'[ARM9].count \in Nat
    BY <1>8, IpcAssumption DEF Inv, TypeOK, IpcFifo, Cpus
  <2> QED
    BY <1>2, <1>3, <2>2, <2>3, <2>4, LenProperties DEF Inv, HeldFits, HeldAfter9
<1>10. EdgesTold'
  <2>1. fifo'[c] = f /\ fifo'[o] = fifo[o] /\ cnt'[c] = ctl /\ cnt'[o] = cnt[o]
    BY <1>1, <1>3 DEF Inv, TypeOK
  <2>2. Held(o)' = Held(o)
    BY <1>1, <1>3, <1>4 DEF Held
  <2>3. Held(c)' = 0 <=> (c = ARM9 => rest = <<>>)
    BY <1>3, <1>4, EmptySeq DEF Held
  <2>4. Held(c) = 0 <=> (c = ARM9 => held = <<>>)
    BY <1>2, EmptySeq DEF Held
  <2>5. /\ cnt[c].recv /\ ~empty(fifo[o]) => "recv" \in raised[c]
        /\ "recv" \in raised[c] => ~empty(fifo[o])
        /\ cnt[o].recv /\ ~empty(fifo[c]) => "recv" \in raised[o]
        /\ "recv" \in raised[o] => ~empty(fifo[c])
    BY <1>1 DEF Inv, EdgesTold, ReceiverTold, o
  <2>6. /\ cnt[c].send /\ empty(fifo[c]) /\ Held(c) = 0 => "send" \in raised[c]
        /\ "send" \in raised[c] => empty(fifo[c]) /\ Held(c) = 0
        /\ cnt[o].send /\ empty(fifo[o]) /\ Held(o) = 0 => "send" \in raised[o]
        /\ "send" \in raised[o] => empty(fifo[o]) /\ Held(o) = 0
    BY <1>1 DEF Inv, EdgesTold, SenderTold, SendEmpty
  <2>7. ReceiverTold'
    <3>1. v.recv /\ ~empty(fifo[o]) => "recv" \in raised'[c]
      BY <1>7, <2>5 DEF told, If
    <3>2. "recv" \in raised'[c] => ~empty(fifo[o])
      BY <1>7, <2>5 DEF told, If
    <3>3. empty(fifo[c]) => empty(f)
      BY <1>4
    <3>4. cnt[o].recv /\ ~empty(f) => "recv" \in raised'[o]
      BY <1>7, <2>5, <3>3 DEF stale, If
    <3>5. "recv" \in raised'[o] => ~empty(f)
      BY <1>7 DEF stale, If
    <3> QED
      BY <1>1, <1>6, <2>1, <3>1, <3>2, <3>4, <3>5 DEF ReceiverTold, o
  <2>8. SenderTold'
    <3>1. v.send /\ empty(f) /\ Held(c)' = 0 => "send" \in raised'[c]
      BY <1>4, <1>7, <2>3, <2>4, <2>6 DEF told, If
    <3>2. "send" \in raised'[c] => empty(f) /\ Held(c)' = 0
      BY <1>4, <1>7, <2>3, <2>4, <2>6 DEF told, If
    <3>3. "send" \in raised'[o] <=> "send" \in raised[o]
      BY <1>7 DEF stale, If
    <3> QED
      BY <1>1, <1>6, <2>1, <2>2, <2>6, <3>1, <3>2, <3>3 DEF SenderTold, SendEmpty, o
  <2> QED
    BY <2>7, <2>8 DEF EdgesTold
<1> QED
  BY <1>8, <1>9, <1>10 DEF Inv

\* Every step keeps the invariant, stuttering included.
LEMMA NextKeeps == Inv /\ [Next]_vars => Inv'
<1> SUFFICES ASSUME Inv, [Next]_vars PROVE Inv'
  OBVIOUS
<1>1. CASE SliceBegin \/ DmaDone \/ Leave9 \/ Arm7Begin \/ Arm7End \/ SliceEnd \/ UNCHANGED vars
  BY <1>1, MoveKeeps
  DEF SliceBegin, DmaDone, Leave9, Arm7Begin, Arm7End, SliceEnd, vars, Inv, TypeOK, HeldAfter9
<1>2. ASSUME NEW c \in Cpus, SyncWrite(c) PROVE Inv'
  BY <1>2, MoveKeeps DEF SyncWrite, Running, Inv, HeldAfter9
<1>3. ASSUME NEW c \in Cpus, SendError(c) \/ RecvError(c) PROVE Inv'
  BY <1>3, ErrorKeeps DEF SendError, RecvError
<1> QED
  BY <1>1, <1>2, <1>3, DeliverKeeps, SendPushKeeps, SendHoldKeeps, RecvKeeps, CntWriteKeeps DEF Next

\* The inductive invariant holds throughout.
LEMMA InvHolds == Spec => []Inv
BY InitInv, NextKeeps, PTL DEF Spec

\* The mailbox registers and rings keep their types, whatever the capacity.
THEOREM TypeCorrect == Spec => []TypeOK
BY InvHolds, PTL DEF Inv

\* ipc_deliver's full branch is never reached, and no word is held at a slice's
\* beginning.
THEOREM HeldWordsFit == Spec => []HeldFits
BY InvHolds, PTL DEF Inv

\* RECV and SEND_EMPTY are requested at every edge and at no other time.
THEOREM NoEdgeMissed == Spec => []EdgesTold
BY InvHolds, PTL DEF Inv

-----------------------------------------------------------------------------
(* The refinement.                                                         *)

\* The words of c on their way: its ring's, and behind them those held back.
Kept(c) == IF c = ARM9 THEN held ELSE <<>>
Queue(c) == Contents(fifo[c]) \o Kept(c)
queueBar == [c \in Cpus |-> Contents(fifo[c]) \o IF c = ARM9 THEN held ELSE <<>>]
lastBar == [c \in Cpus |-> fifo[c].last]

\* A word added to the second part of a queue is added at the queue's end.
LEMMA ConcatAppend ==
  ASSUME NEW W, NEW s \in Seq(W), NEW t \in Seq(W), NEW w \in W
  PROVE  s \o Append(t, w) = Append(s \o t, w)
OBVIOUS

\* A message moved from the head of one end of the queue to the tail of another keeps its place.
LEMMA ConcatMove ==
  ASSUME NEW W, NEW s \in Seq(W), NEW t \in Seq(W), t # <<>>
  PROVE  Append(s, Head(t)) \o Tail(t) = s \o t
OBVIOUS

\* A word taken from the first part of a queue is taken at the queue's head.
LEMMA ConcatTake ==
  ASSUME NEW W, NEW s \in Seq(W), NEW t \in Seq(W), s # <<>>
  PROVE  s \o t # <<>> /\ Head(s \o t) = Head(s) /\ Tail(s \o t) = Tail(s) \o t
OBVIOUS

\* The two parts of a queue, and its length.
LEMMA QueueParts ==
  ASSUME TypeOK, NEW c \in Cpus
  PROVE  /\ fifo[c] \in IpcFifo /\ Contents(fifo[c]) \in Seq(Words) /\ Kept(c) \in Seq(Words)
         /\ Len(Queue(c)) = fifo[c].count + Held(c)
         /\ queueBar[c] = Queue(c) /\ lastBar[c] = fifo[c].last
<1>1. fifo[c] \in IpcFifo /\ held \in Seq(Words) /\ Kept(c) \in Seq(Words) /\ Held(c) = Len(Kept(c))
  BY EmptySeq DEF TypeOK, Kept, Held
<1>2. Contents(fifo[c]) \in Seq(Words) /\ Len(Contents(fifo[c])) = fifo[c].count
  BY <1>1, ContentsSeq
<1>3. Len(Queue(c)) = fifo[c].count + Held(c)
  <2> DEFINE s == Contents(fifo[c])
             t == Kept(c)
  <2>1. s \in Seq(Words) /\ t \in Seq(Words) /\ Len(s) = fifo[c].count /\ Len(t) = Held(c)
    BY <1>1, <1>2
  <2> HIDE DEF s, t
  <2>2. Len(s \o t) = Len(s) + Len(t)
    BY <2>1
  <2> QED
    BY <2>1, <2>2 DEF Queue, s, t
<1>4. queueBar[c] = Queue(c) /\ lastBar[c] = fifo[c].last
  BY DEF Queue, queueBar, lastBar, Kept
<1> QED
  BY <1>1, <1>2, <1>3, <1>4

\* A step on one CPU's ring, or on the held words, leaves the other's queue alone.
LEMMA OneQueue ==
  ASSUME NEW c \in Cpus, \A d \in Cpus \ {c} : fifo'[d] = fifo[d], c # ARM9 => held' = held
  PROVE  /\ queueBar' = [queueBar EXCEPT ![c] = Queue(c)']
         /\ lastBar' = [lastBar EXCEPT ![c] = fifo'[c].last]
<1>1. queueBar = [d \in Cpus |-> Queue(d)] /\ queueBar' = [d \in Cpus |-> Queue(d)']
  BY DEF queueBar, Queue, Kept
<1>2. \A d \in Cpus \ {c} : Queue(d)' = Queue(d)
  BY DEF Queue, Kept
<1>3. queueBar' = [queueBar EXCEPT ![c] = Queue(c)']
  BY <1>1, <1>2
<1>4. lastBar' = [lastBar EXCEPT ![c] = fifo'[c].last]
  BY DEF lastBar
<1> QED
  BY <1>3, <1>4

\* Nothing on its way: the queues are empty when the IPC begins.
LEMMA InitRefines == Init => Channel!Init
<1> SUFFICES ASSUME Init PROVE Channel!Init
  OBVIOUS
<1>1. TypeOK
  BY InitInv DEF Inv
<1>2. \A c \in Cpus : Queue(c) = <<>>
  <2> TAKE c \in Cpus
  <2>1. Contents(fifo[c]) \in Seq(Words) /\ Kept(c) = <<>> /\ fifo[c].count = 0
    BY <1>1, QueueParts DEF Init, Kept
  <2>2. Len(Contents(fifo[c])) = 0
    BY <1>1, <2>1, QueueParts, ContentsSeq
  <2> QED
    BY <2>1, <2>2, EmptySeq, ConcatEmptySeq DEF Queue
<1>3. queueBar = [c \in Cpus |-> <<>>]
  BY <1>2 DEF queueBar, Queue, Kept
<1>4. lastBar \in [Cpus -> Words]
  BY <1>1 DEF TypeOK, IpcFifo, lastBar
<1> QED
  BY <1>3, <1>4 DEF Channel!Init, queueBar, lastBar

\* Delivering moves a word from one part of the ARM9's queue to the other.
LEMMA DeliverRefines == ASSUME Inv, Inv', Deliver PROVE UNCHANGED <<queueBar, lastBar>>
<1>1. held \in Seq(Words) /\ held # <<>> /\ Head(held) \in Words /\ Tail(held) \in Seq(Words)
      /\ Len(held) \in Nat /\ Len(held) > 0
  BY HeadTailProperties, EmptySeq, LenProperties DEF Inv, TypeOK, Deliver
<1>2. ARM9 \in Cpus /\ fifo[ARM9] \in IpcFifo /\ fifo[ARM9].count < Cap /\ fifo[ARM9].count # Cap
  BY <1>1, IpcAssumption DEF Inv, TypeOK, HeldFits, IpcFifo, Cpus
<1>3. fifo' = [fifo EXCEPT ![ARM9] = push(@, Head(held))] /\ held' = Tail(held)
  BY <1>2 DEF Deliver
<1>4. /\ fifo'[ARM9] = push(fifo[ARM9], Head(held))
      /\ \A c \in Cpus \ {ARM9} : fifo'[c] = fifo[c]
  BY <1>2, <1>3 DEF Inv, TypeOK
<1>5. Contents(fifo'[ARM9]) = Append(Contents(fifo[ARM9]), Head(held)) /\ fifo'[ARM9].last = fifo[ARM9].last
  BY <1>1, <1>2, <1>4, PushAppends
<1>6. Contents(fifo'[ARM9]) \o held' = Contents(fifo[ARM9]) \o held
  BY <1>1, <1>2, <1>3, <1>5, ContentsSeq, ConcatMove
<1> QED
  BY <1>4, <1>5, <1>6 DEF queueBar, lastBar

\* A word pushed at once goes behind the ring's, and none is held then.
LEMMA SendPushRefines ==
  ASSUME Inv, Inv', NEW c \in Cpus, NEW w \in Words, SendPush(c, w)
  PROVE  Channel!Send(c, w)
<1>1. /\ fifo[c] \in IpcFifo /\ Kept(c) = <<>> /\ Held(c) = 0 /\ fifo[c].count < Cap
      /\ Len(Queue(c)) = fifo[c].count
  BY QueueParts, IpcAssumption, EmptySeq
  DEF Inv, TypeOK, HeldAfter9, SendPush, SendFull, Running, Kept, Held, IpcFifo
<1>2. fifo' = [fifo EXCEPT ![c] = push(@, w)] /\ held' = held
  BY DEF SendPush
<1>3. fifo'[c] = push(fifo[c], w) /\ \A d \in Cpus \ {c} : fifo'[d] = fifo[d]
  BY <1>2 DEF Inv, TypeOK
<1>4. Contents(fifo'[c]) = Append(Contents(fifo[c]), w) /\ fifo'[c].last = fifo[c].last
  BY <1>1, <1>3, PushAppends
<1>5. Queue(c) = Contents(fifo[c]) /\ Queue(c)' = Contents(fifo'[c])
  <2>1. Kept(c)' = <<>>
    BY <1>1, <1>2 DEF Kept
  <2>2. Contents(fifo[c]) \in Seq(Words) /\ Contents(fifo'[c]) \in Seq(Words)
    BY <1>1, <1>4, ContentsSeq, AppendProperties
  <2> QED
    BY <1>1, <2>1, <2>2, ConcatEmptySeq DEF Queue
<1>6. Queue(c)' = Append(Queue(c), w) /\ Queue(c) = queueBar[c] /\ Len(queueBar[c]) < Cap
  BY <1>1, <1>4, <1>5, QueueParts DEF Inv
<1>7. /\ queueBar' = [queueBar EXCEPT ![c] = Append(queueBar[c], w)]
      /\ lastBar' = [lastBar EXCEPT ![c] = fifo'[c].last]
  BY <1>2, <1>3, <1>6, OneQueue
<1>8. lastBar' = lastBar
  BY <1>4, <1>7 DEF lastBar
<1> QED
  BY <1>6, <1>7, <1>8 DEF Channel!Send, queueBar, lastBar

\* A word held back goes behind the held ones.
LEMMA SendHoldRefines ==
  ASSUME Inv, Inv', NEW w \in Words, SendHold(w)
  PROVE  Channel!Send(ARM9, w)
<1>1. /\ ARM9 \in Cpus /\ held \in Seq(Words) /\ Contents(fifo[ARM9]) \in Seq(Words)
      /\ Len(Queue(ARM9)) < Cap /\ Queue(ARM9) = queueBar[ARM9]
  BY QueueParts, IpcAssumption, LenProperties
  DEF Inv, TypeOK, SendHold, SendFull, Held, IpcFifo, Cpus
<1>2. fifo' = fifo /\ held' = Append(held, w)
  BY DEF SendHold
<1>3. Queue(ARM9)' = Append(Queue(ARM9), w)
  BY <1>1, <1>2, ConcatAppend DEF Queue, Kept
<1>4. /\ queueBar' = [queueBar EXCEPT ![ARM9] = Append(queueBar[ARM9], w)]
      /\ lastBar' = lastBar
  BY <1>1, <1>2, <1>3, OneQueue DEF lastBar
<1> QED
  BY <1>1, <1>4 DEF Channel!Send, queueBar, lastBar

\* The receiver takes the oldest word; it is in the ring, never among the held
\* ones.
LEMMA RecvRefines ==
  ASSUME Inv, Inv', NEW c \in Cpus, Recv(c)
  PROVE  Channel!Receive(other(c))
<1> DEFINE o == other(c)
           s == Contents(fifo[o])
<1>1. o \in Cpus /\ fifo[o].count # 0
  BY OtherCpu DEF Recv, empty
<1>2. fifo' = [fifo EXCEPT ![o] = pop(fifo[o])] /\ held' = held
  BY DEF Recv
<1> HIDE DEF o
<1>3. fifo[o] \in IpcFifo /\ s \in Seq(Words) /\ Kept(o) \in Seq(Words) /\ Queue(o) = queueBar[o]
  BY <1>1, QueueParts DEF Inv
<1>4. fifo'[o] = pop(fifo[o]) /\ \A d \in Cpus \ {o} : fifo'[d] = fifo[d]
  BY <1>1, <1>2 DEF Inv, TypeOK
<1>5. s # <<>> /\ Contents(fifo'[o]) = Tail(s) /\ fifo'[o].last = Head(s)
  BY <1>1, <1>3, <1>4, PopTakesHead
<1> HIDE DEF s
<1>6. /\ s \o Kept(o) # <<>> /\ Head(s \o Kept(o)) = Head(s)
      /\ Tail(s \o Kept(o)) = Tail(s) \o Kept(o)
  BY <1>3, <1>5, ConcatTake
<1>7. Kept(o)' = Kept(o)
  BY <1>2 DEF Kept
<1>8. /\ Queue(o) # <<>> /\ Head(Queue(o)) = fifo'[o].last /\ Queue(o)' = Tail(Queue(o))
  BY <1>5, <1>6, <1>7 DEF Queue, s
<1>9. /\ queueBar' = [queueBar EXCEPT ![o] = Tail(queueBar[o])]
      /\ lastBar' = [lastBar EXCEPT ![o] = Head(queueBar[o])]
      /\ queueBar[o] # <<>>
  BY <1>1, <1>2, <1>3, <1>4, <1>8, OneQueue
<1> QED
  BY <1>9 DEF Channel!Receive, queueBar, lastBar, o

\* A control write flushes the writer's queue, held words and all, or leaves
\* the queues alone.
LEMMA CntWriteRefines ==
  ASSUME Inv, Inv', NEW c \in Cpus, NEW v \in Controls, CntWrite(c, v)
  PROVE  Channel!Flush(c) \/ UNCHANGED <<queueBar, lastBar>>
<1>1. CASE v.flush
  <2>1. fifo' = [fifo EXCEPT ![c] = clear(fifo[c])] /\ held' = IF c = ARM9 THEN <<>> ELSE held
    BY <1>1 DEF CntWrite, Flush
  <2>2. fifo[c] \in IpcFifo /\ fifo'[c] = clear(fifo[c]) /\ \A d \in Cpus \ {c} : fifo'[d] = fifo[d]
    BY <2>1 DEF Inv, TypeOK
  <2>3. Contents(fifo'[c]) = <<>> /\ fifo'[c].last = fifo[c].last
    BY <2>2, ClearEmpties
  <2>4. Queue(c)' = <<>>
    BY <2>1, <2>3 DEF Queue, Kept
  <2>5. c # ARM9 => held' = held
    BY <2>1
  <2>6. /\ queueBar' = [queueBar EXCEPT ![c] = Queue(c)']
        /\ lastBar' = [lastBar EXCEPT ![c] = fifo'[c].last]
    BY <2>2, <2>5, OneQueue
  <2>7. queueBar' = [queueBar EXCEPT ![c] = <<>>] /\ lastBar' = lastBar
    BY <2>3, <2>4, <2>6 DEF lastBar
  <2> QED
    BY <2>7 DEF Channel!Flush, queueBar, lastBar
<1>2. CASE ~v.flush
  <2>1. fifo' = [fifo EXCEPT ![c] = fifo[c]] /\ held' = held
    BY <1>2 DEF CntWrite
  <2>2. fifo' = fifo
    BY <2>1 DEF Inv, TypeOK
  <2> QED
    BY <2>1, <2>2 DEF queueBar, lastBar
<1> QED
  BY <1>1, <1>2

\* Every step of the code is a step of the channel, or none.
LEMMA NextRefines == Inv /\ Inv' /\ [Next]_vars => [Channel!Next]_<<queueBar, lastBar>>
<1> SUFFICES ASSUME Inv, Inv', [Next]_vars PROVE Channel!Next \/ UNCHANGED <<queueBar, lastBar>>
  OBVIOUS
<1>1. CASE UNCHANGED <<fifo, held>>
  BY <1>1 DEF queueBar, lastBar
<1>2. ASSUME NEW c \in Cpus, NEW w \in Words, SendPush(c, w) PROVE Channel!Next
  BY <1>2, SendPushRefines DEF Channel!Next
<1>3. ASSUME NEW w \in Words, SendHold(w) PROVE Channel!Next
  BY <1>3, SendHoldRefines DEF Channel!Next, Cpus
<1>4. ASSUME NEW c \in Cpus, Recv(c) PROVE Channel!Next
  BY <1>4, RecvRefines, OtherCpu DEF Channel!Next
<1>5. ASSUME NEW c \in Cpus, NEW v \in Controls, CntWrite(c, v)
      PROVE  Channel!Next \/ UNCHANGED <<queueBar, lastBar>>
  BY <1>5, CntWriteRefines DEF Channel!Next
<1>6. Deliver => UNCHANGED <<queueBar, lastBar>>
  BY DeliverRefines
<1> QED
  BY <1>1, <1>2, <1>3, <1>4, <1>5, <1>6
  DEF Next, vars, SliceBegin, DmaDone, Leave9, Arm7Begin, Arm7End, SliceEnd, SendError, RecvError, SyncWrite

\* The rings and the held words implement the two queues: an accepted word is
\* received once and in order, by CPU or DMA, unless its sender flushes it.
THEOREM ChannelImplemented == Spec => ImplementsChannel
<1>1. Inv /\ Inv' /\ [Next]_vars => [Channel!Next]_<<queueBar, lastBar>>
  BY NextRefines
<1> QED
  BY <1>1, InitRefines, InvHolds, PTL DEF Spec, ImplementsChannel, Channel!Spec, queueBar, lastBar
=============================================================================

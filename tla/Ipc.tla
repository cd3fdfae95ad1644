-------------------------------- MODULE Ipc --------------------------------
(***************************************************************************)
(* The CPUs' mailbox: a FIFO of words in each direction, its control       *)
(* register and interrupts, and IPCSYNC (io.cpp ipc_*, io.h IpcFifo).      *)
(*                                                                         *)
(* The ARM9 runs a slice first and the ARM7 catches up after it.  So that  *)
(* the ARM7 does not see a word before it is sent, a word the ARM9 itself  *)
(* sends is held, the ARM9 gives up its slice, and fire_due delivers it at *)
(* the slice's end.  A word an ARM9 DMA channel sends is pushed at once.   *)
(*                                                                         *)
(* A register write and its effects are one step: both CPUs run on one     *)
(* thread.  Reading the control register, reading the FIFO while it is     *)
(* disabled (a peek) and sending while it is disabled change nothing.  Of  *)
(* IPCSYNC only the yield is kept: its nibbles are copied across, and its  *)
(* interrupt is a Raise of module Irq.                                     *)
(***************************************************************************)
EXTENDS Naturals, Sequences, TwoCpus

CONSTANTS Words,    \* Words; they include 0, the FIFO's first contents.
          Cap,      \* 16.
          Controls, \* Values written to the control register.
          Defer     \* DS_IPC_DEFER, never on a DSi.

ControlValue == [flush : BOOLEAN, ack : BOOLEAN, enable : BOOLEAN, send : BOOLEAN, recv : BOOLEAN]

ASSUME IpcAssumption ==
  /\ Cap \in Nat \ {0} /\ 0 \in Words
  /\ Controls \subseteq ControlValue /\ Defer \in BOOLEAN

VARIABLES
  at,       \* Where the slice is: "begin", "dma9", "arm9", "left9", "arm7", "end".
  fifo,     \* fifo_out of each CPU: data, head, count, last.
  held,     \* ipc9_pending, its first ipc9_pending_n words.
  cnt,      \* ipc_fifo_cnt of each CPU: enable, send, recv (interrupts), error.
  raised    \* History: "recv" if the CPU's RECV interrupt was requested since
            \* the FIFO it reads was last empty, "send" if its SEND_EMPTY was
            \* since it last sent a word.

vars == <<at, fifo, held, cnt, raised>>

-----------------------------------------------------------------------------
(* IpcFifo.                                                                *)

Cells == 0 .. Cap - 1
IpcFifo == [data : [Cells -> Words], head : Cells, count : 0 .. Cap, last : Words]

push(f, w) == [data |-> [f.data EXCEPT ![(f.head + f.count) % Cap] = w],
               head |-> f.head, count |-> f.count + 1, last |-> f.last]

\* Mutants of pop: the head is not masked, or stays at the end.
pop_no_mask(f) == [f EXCEPT !.head = @ + 1, !.count = @ - 1, !.last = f.data[f.head]]
pop_no_wrap(f) ==
  [f EXCEPT !.head = IF @ = Cap - 1 THEN @ ELSE @ + 1, !.count = @ - 1, !.last = f.data[f.head]]

pop(f) == [data |-> f.data, head |-> (f.head + 1) % Cap, count |-> f.count - 1, last |-> f.data[f.head]]
clear(f) == [data |-> f.data, head |-> 0, count |-> 0, last |-> f.last]
empty(f) == f.count = 0

\* Words of c that have not reached the FIFO yet.
Held(c) == IF c = ARM9 THEN Len(held) ELSE 0

\* The control register's send-empty and send-full bits.
SendEmpty(c) == empty(fifo[c]) /\ Held(c) = 0
SendFull(c) == fifo[c].count + Held(c) >= Cap

\* The interrupts reqs asks for, after the facts in stale have ceased to hold.
Request(stale, reqs) == raised' = [c \in Cpus |-> (raised[c] \ stale[c]) \cup reqs[c]]
For(c, s) == [d \in Cpus |-> IF d = c THEN s ELSE {}]
If(b, s) == IF b THEN s ELSE {}

-----------------------------------------------------------------------------
(* The scheduler.                                                          *)

SliceBegin ==
  /\ at = "begin" /\ at' \in {"dma9", "arm9"}
  /\ UNCHANGED <<fifo, held, cnt, raised>>

\* The ARM9's DMA is over, or used the slice up.
DmaDone ==
  /\ at = "dma9" /\ at' \in {"arm9", "left9"}
  /\ UNCHANGED <<fifo, held, cnt, raised>>

\* The ARM9 starts a DMA or its budget is used up.
Leave9 ==
  /\ at = "arm9" /\ at' \in {"dma9", "left9"}
  /\ UNCHANGED <<fifo, held, cnt, raised>>

\* The ARM7 catches up, unless it is ahead already.
Arm7Begin ==
  /\ at = "left9" /\ at' \in {"arm7", "end"}
  /\ UNCHANGED <<fifo, held, cnt, raised>>

Arm7End ==
  /\ at = "arm7" /\ at' = "end"
  /\ UNCHANGED <<fifo, held, cnt, raised>>

\* Mutant of Deliver: no interrupt, as if the ARM7 polled.
DeliverQuietly ==
  /\ at = "end" /\ held # <<>>
  /\ fifo' = [fifo EXCEPT ![ARM9] = push(@, Head(held))]
  /\ held' = Tail(held)
  /\ UNCHANGED <<at, cnt, raised>>

\* ipc_deliver, one held word at a time.
Deliver ==
  /\ at = "end" /\ held # <<>>
  /\ held' = Tail(held)
  /\ IF fifo[ARM9].count = Cap
     THEN cnt' = [cnt EXCEPT ![ARM9].error = TRUE] /\ UNCHANGED <<fifo, raised>>
     ELSE /\ fifo' = [fifo EXCEPT ![ARM9] = push(@, Head(held))]
          /\ Request(For(ARM9, {}), For(ARM7, If(empty(fifo[ARM9]) /\ cnt[ARM7].recv, {"recv"})))
          /\ UNCHANGED cnt
  /\ UNCHANGED at

\* Mutant of SliceEnd: the held words wait for another slice.
SliceEndEarly ==
  /\ at = "end" /\ at' = "begin"
  /\ UNCHANGED <<fifo, held, cnt, raised>>

SliceEnd ==
  /\ at = "end" /\ held = <<>> /\ at' = "begin"
  /\ UNCHANGED <<fifo, held, cnt, raised>>

-----------------------------------------------------------------------------
(* What a CPU, or a DMA channel of it, does.                               *)

Running(c) == IF c = ARM9 THEN at \in {"dma9", "arm9"} ELSE at = "arm7"

\* A word that finds the FIFO full, held words counted, is lost.
SendError(c) ==
  /\ Running(c) /\ cnt[c].enable /\ SendFull(c)
  /\ cnt' = [cnt EXCEPT ![c].error = TRUE]
  /\ UNCHANGED <<at, fifo, held, raised>>

\* The running ARM9's own words are held back.
Holds(c) == Defer /\ c = ARM9 /\ at # "dma9"

SendPush(c, w) ==
  /\ Running(c) /\ cnt[c].enable /\ ~SendFull(c) /\ ~Holds(c)
  /\ fifo' = [fifo EXCEPT ![c] = push(@, w)]
  /\ Request(For(c, {"send"}), For(other(c), If(empty(fifo[c]) /\ cnt[other(c)].recv, {"recv"})))
  /\ UNCHANGED <<at, held, cnt>>

\* Held, and the ARM9's slice ends here: its run loop polls the budget after
\* every access to an I/O register.
SendHold(w) ==
  /\ Running(ARM9) /\ cnt[ARM9].enable /\ ~SendFull(ARM9) /\ Holds(ARM9)
  /\ held' = Append(held, w)
  /\ at' = "left9"
  /\ Request(For(ARM9, {"send"}), For(ARM7, {}))
  /\ UNCHANGED <<fifo, cnt>>

RecvError(c) ==
  /\ Running(c) /\ empty(fifo[other(c)])
  /\ cnt' = [cnt EXCEPT ![c].error = TRUE]
  /\ UNCHANGED <<at, fifo, held, raised>>

Recv(c) ==
  LET f == pop(fifo[other(c)])
  IN  /\ Running(c) /\ ~empty(fifo[other(c)]) /\ cnt[c].enable
      /\ fifo' = [fifo EXCEPT ![other(c)] = f]
      /\ Request(For(c, If(empty(f), {"recv"})),
                 For(other(c), If(empty(f) /\ cnt[other(c)].send /\ Held(other(c)) = 0, {"send"})))
      /\ UNCHANGED <<at, held, cnt>>

\* Bit 3: what is left of the FIFO and of the held words.
Flush(c) == <<clear(fifo[c]), IF c = ARM9 THEN <<>> ELSE held>>

CntWrite(c, v) ==
  LET left  == IF v.flush THEN Flush(c) ELSE <<fifo[c], held>>
      f     == left[1]
      isEmpty == empty(f) /\ (c = ARM9 => left[2] = <<>>)
      send  == (~cnt[c].send /\ v.send /\ isEmpty) \/ (v.flush /\ v.send)
      recv  == ~cnt[c].recv /\ v.recv /\ ~empty(fifo[other(c)])
  IN  /\ Running(c)
      /\ fifo' = [fifo EXCEPT ![c] = f]
      /\ held' = left[2]
      /\ cnt' = [cnt EXCEPT ![c] = [enable |-> v.enable, send |-> v.send, recv |-> v.recv,
                                    error |-> @.error /\ ~v.ack]]
      /\ Request(For(other(c), If(empty(f), {"recv"})),
                 For(c, If(send, {"send"}) \cup If(recv, {"recv"})))
      /\ UNCHANGED at

\* IPCSYNC: the writer gives up its slice.
SyncWrite(c) ==
  /\ Running(c) /\ at # "dma9"
  /\ at' = IF c = ARM9 THEN "left9" ELSE "end"
  /\ UNCHANGED <<fifo, held, cnt, raised>>

Init ==
  /\ at = "begin" /\ held = <<>>
  /\ fifo = [c \in Cpus |-> [data |-> [i \in Cells |-> 0], head |-> 0, count |-> 0, last |-> 0]]
  /\ cnt = [c \in Cpus |-> [enable |-> FALSE, send |-> FALSE, recv |-> FALSE, error |-> FALSE]]
  /\ raised = [c \in Cpus |-> {}]

Next ==
  \/ SliceBegin \/ DmaDone \/ Leave9 \/ Arm7Begin \/ Arm7End \/ Deliver \/ SliceEnd
  \/ \E c \in Cpus : SendError(c) \/ RecvError(c) \/ Recv(c) \/ SyncWrite(c)
  \/ \E c \in Cpus, w \in Words : SendPush(c, w)
  \/ \E w \in Words : SendHold(w)
  \/ \E c \in Cpus, v \in Controls : CntWrite(c, v)

Spec == Init /\ [][Next]_vars

-----------------------------------------------------------------------------
(* Properties.                                                             *)

\* The registers keep their types and the ring indices their range.
TypeOK ==
  /\ at \in {"begin", "dma9", "arm9", "left9", "arm7", "end"}
  /\ fifo \in [Cpus -> IpcFifo]
  /\ held \in Seq(Words)
  /\ cnt \in [Cpus -> [enable : BOOLEAN, send : BOOLEAN, recv : BOOLEAN, error : BOOLEAN]]
  /\ raised \in [Cpus -> SUBSET {"recv", "send"}]

\* ipc_deliver always finds room ("not reached: the send counted the held
\* words"), and no word is held when run_until returns: the delivery before a
\* state is saved never has one ("none at a slice boundary", sync_state).
HeldFits ==
  /\ fifo[ARM9].count + Len(held) <= Cap
  /\ at = "begin" => held = <<>>

\* A receiver that enabled its RECV interrupt has had it since the FIFO it
\* reads became non-empty: by the send, the delivery or the enabling.  So a
\* handler that drains the FIFO never leaves a word behind.
ReceiverTold == \A c \in Cpus :
  /\ cnt[c].recv /\ ~empty(fifo[other(c)]) => "recv" \in raised[c]
  /\ "recv" \in raised[c] => ~empty(fifo[other(c)])

\* A sender that enabled its SEND_EMPTY interrupt has had it since all it sent
\* was taken or flushed, and not before: not while a word of it is held.
SenderTold == \A c \in Cpus :
  /\ cnt[c].send /\ SendEmpty(c) => "send" \in raised[c]
  /\ "send" \in raised[c] => SendEmpty(c)

\* No edge is missed and none invented, on either side (ipc_fifo_send,
\* ipc_fifo_recv, ipc_deliver, ipc_fifo_cnt_write).
EdgesTold == ReceiverTold /\ SenderTold

\* The words waiting in a ring, oldest first.
Contents(f) == [i \in 1 .. f.count |-> f.data[(f.head + i - 1) % Cap]]

\* The two rings and the held words are two queues: nothing is lost, doubled
\* or overtaken on the way, held or not, by the CPU or by DMA.
Channel == INSTANCE IpcChannel
  WITH queue <- [c \in Cpus |-> Contents(fifo[c]) \o IF c = ARM9 THEN held ELSE <<>>],
       last  <- [c \in Cpus |-> fifo[c].last]
ImplementsChannel == Channel!Spec
=============================================================================

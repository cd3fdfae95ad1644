------------------------------- MODULE MCIo -------------------------------
(* The two halves of io.cpp in one instance: a DSi's interrupts with two    *)
(* sources, and the IPC FIFOs with two words.  They share no state, so each *)
(* moves only while the other is where it started: the states are those of  *)
(* the one and those of the other, and not their product.                   *)
EXTENDS Irq, Ipc

Value(flush, ack, enable, irqs) ==
  [flush |-> flush, ack |-> ack, enable |-> enable, send |-> irqs, recv |-> irqs]

\* Off; on, with the interrupts, both flushing and not; an acknowledge.
FewControls ==
  {Value(FALSE, FALSE, FALSE, FALSE), Value(FALSE, TRUE, TRUE, FALSE),
   Value(FALSE, FALSE, TRUE, TRUE), Value(TRUE, FALSE, TRUE, TRUE)}

IoInit == IrqInit /\ Init
IoNext == \/ IrqNext /\ Init /\ UNCHANGED vars
          \/ Next /\ IrqInit /\ UNCHANGED irqVars
IoSpec == IoInit /\ [][IoNext]_<<irqVars, vars>>
=============================================================================

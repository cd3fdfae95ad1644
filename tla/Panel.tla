---------------------------- MODULE Panel ----------------------------
(***************************************************************************)
(* What a scanout sink (scanout.h, display_disp.h) promises its caller: the *)
(* frames it is given reach the panel whole and in order.  A frame may be   *)
(* skipped for a newer one, none is shown after a newer one, and while the  *)
(* sink is in use the panel catches up.                                     *)
(***************************************************************************)
EXTENDS Integers

VARIABLES drawn,   \* number of frames handed to the sink
          shown,   \* number of the frame on the panel, 0: the blank one
          lost     \* the sink has failed or is being closed

vars == <<drawn, shown, lost>>

Init == drawn = 0 /\ shown = 0 /\ lost = FALSE

\* A frame is handed over; the sink may fail at this.
Draw == /\ drawn' = drawn + 1
        /\ lost' \in {lost, TRUE}
        /\ UNCHANGED shown

Show == /\ shown' \in (shown + 1)..drawn
        /\ UNCHANGED <<drawn, lost>>

Lose == lost' = TRUE /\ UNCHANGED <<drawn, shown>>

Next == Draw \/ Show \/ Lose

Spec == Init /\ [][Next]_vars /\ WF_vars(Show /\ ~lost)
======================================================================

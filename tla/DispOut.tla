---------------------------- MODULE DispOut ----------------------------
(***************************************************************************)
(* DispOut (src/src/frontend/sdl/display_disp.cpp) with vsync: composites   *)
(* scaled by the display engine.  present draws into a free composite and   *)
(* never waits; the presenter waits for a refresh, then sets the layer's    *)
(* address, which the engine takes at the refresh after.                    *)
(*                                                                         *)
(* The layer ioctl succeeds and the wait is for a real refresh; the overlay *)
(* and grid layer, drawn in place, are left out.                            *)
(***************************************************************************)
EXTENDS Integers

CONSTANTS Bufs,       \* BUFS
          MaxFrames   \* bound: frames drawn in a behaviour

VARIABLES displayed, latched, queued, pending,   \* displayed_, ... pending_
          cur,      \* the composite present is drawing
          stop,     \* stop_
          pres, emu, asleep,
          tick,     \* a refresh has come since the presenter began to wait
          addr, scan, frame, content

vars == <<displayed, latched, queued, pending, cur, stop, pres, emu, asleep, tick,
          addr, scan, frame, content>>

None == -1
Buf == 0..(Bufs - 1)

Init == /\ displayed = 0 /\ latched = None /\ queued = None /\ pending = None
        /\ cur = None /\ stop = FALSE
        /\ pres = "check" /\ emu = "idle" /\ asleep = {} /\ tick = FALSE
        /\ addr = 0 /\ scan = 0
        /\ frame = 0 /\ content = [b \in Buf |-> 0]

panelVars == <<tick, addr, scan>>
frameVars == <<frame, content>>

----------------------------------------------------------------------
\* The emulation thread: present.

\* while (buf == displayed_ || buf == latched_ || buf == queued_) ++buf: the
\* loop itself does not stop at the last composite.
FirstUnused(used) == CHOOSE b \in 0..3 : b \notin used /\ 0..(b - 1) \subseteq used

\* A composite not yet flipped is taken back and overwritten.
Pick == /\ emu = "idle" /\ frame < MaxFrames
        /\ cur' = IF pending # None THEN pending
                  ELSE FirstUnused({displayed, latched, queued})
        /\ pending' = None /\ emu' = "draw"
        /\ UNCHANGED <<displayed, latched, queued, stop, pres, asleep, panelVars,
                       frameVars>>

Post == /\ emu = "draw"
        /\ pending' = cur /\ cur' = None
        /\ frame' = frame + 1 /\ content' = [content EXCEPT ![cur] = frame + 1]
        /\ emu' = "notify"
        /\ UNCHANGED <<displayed, latched, queued, stop, pres, asleep, panelVars>>

PostNotify == /\ emu = "notify"
              /\ emu' = "idle" /\ asleep' = {}
              /\ UNCHANGED <<displayed, latched, queued, pending, cur, stop, pres,
                             panelVars, frameVars>>

Close == /\ emu = "idle"
         /\ stop' = TRUE /\ emu' = "stopping"
         /\ UNCHANGED <<displayed, latched, queued, pending, cur, pres, asleep,
                        panelVars, frameVars>>

CloseNotify == /\ emu = "stopping"
               /\ emu' = "join" /\ asleep' = {}
               /\ UNCHANGED <<displayed, latched, queued, pending, cur, stop, pres,
                              panelVars, frameVars>>

Join == /\ emu = "join" /\ pres = "gone"
        /\ emu' = "closed"
        /\ UNCHANGED <<displayed, latched, queued, pending, cur, stop, pres, asleep,
                       panelVars, frameVars>>

----------------------------------------------------------------------
\* The presenter thread.

Awake == "pres" \notin asleep

Queue == /\ pres = "check" /\ Awake
         /\ ~stop /\ pending # None
         /\ queued' = pending /\ pending' = None
         /\ pres' = "refresh" /\ tick' = FALSE
         /\ UNCHANGED <<displayed, latched, cur, stop, emu, asleep, addr, scan, frameVars>>

PresSleep == /\ pres = "check" /\ Awake
             /\ ~stop /\ pending = None
             /\ asleep' = {"pres"}
             /\ UNCHANGED <<displayed, latched, queued, pending, cur, stop, pres, emu,
                            panelVars, frameVars>>

PresStop == /\ pres = "check" /\ Awake
            /\ stop
            /\ pres' = "gone"
            /\ UNCHANGED <<displayed, latched, queued, pending, cur, stop, emu,
                           asleep, panelVars, frameVars>>

wait_vsync == /\ pres = "refresh" /\ tick
              /\ pres' = "flip"
              /\ UNCHANGED <<displayed, latched, queued, pending, cur, stop, emu,
                             asleep, panelVars, frameVars>>

Flip == /\ pres = "flip"
        /\ addr' = queued /\ pres' = "flipped"
        /\ UNCHANGED <<displayed, latched, queued, pending, cur, stop, emu, asleep,
                       tick, scan, frameVars>>

Flipped == /\ pres = "flipped"
           /\ displayed' = IF latched # None THEN latched ELSE displayed
           /\ latched' = queued /\ queued' = None
           /\ pres' = "check"
           /\ UNCHANGED <<pending, cur, stop, emu, asleep, panelVars, frameVars>>

----------------------------------------------------------------------
\* The display engine.
Refresh == /\ emu # "closed"
           /\ scan # addr \/ (pres = "refresh" /\ ~tick)
           /\ scan' = addr /\ tick' = TRUE
           /\ UNCHANGED <<displayed, latched, queued, pending, cur, stop, pres, emu,
                          asleep, addr, frameVars>>

Presenter == Queue \/ PresSleep \/ PresStop \/ wait_vsync \/ Flip \/ Flipped
InCall == Post \/ PostNotify \/ CloseNotify \/ Join

Next == Pick \/ InCall \/ Close \/ Presenter \/ Refresh
======================================================================

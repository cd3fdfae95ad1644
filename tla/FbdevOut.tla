--------------------------- MODULE FbdevOut ---------------------------
(***************************************************************************)
(* FbdevOut (src/src/frontend/sdl/display_fbdev.cpp): two or three buffers  *)
(* of /dev/fb0.  The emulation thread draws into a buffer that is neither   *)
(* shown, latched nor waiting; the presenter thread pans to the drawn one,  *)
(* outside the lock, and waits for the refresh.                             *)
(*                                                                         *)
(* A critical section of mu_ is one step, and so is each notify that the    *)
(* code makes after it has left the lock.  The pan, or FBIO_WAITFORVSYNC    *)
(* after it, returns after a refresh; the pacing by the clock that replaces *)
(* both on a driver with neither is not modelled.                           *)
(***************************************************************************)
EXTENDS Integers

CONSTANTS Bufs,       \* bufs_
          MaxFrames   \* bound: frames drawn in a behaviour

VARIABLES displayed, latched, pending,   \* displayed_, latched_, pending_
          cur,      \* cur_: the buffer being drawn
          stop, dead,                    \* stop_, dead_
          pres,     \* where the presenter thread is
          emu,      \* where the emulation thread is
          asleep,   \* the threads asleep on cv_
          addr,     \* the buffer the panel turns to at the next refresh
          scan,     \* the buffer on the panel
          frame,    \* number of frames handed over
          content   \* the frame in each buffer

vars == <<displayed, latched, pending, cur, stop, dead, pres, emu, asleep,
          addr, scan, frame, content>>

None == -1
Buf == 0..(Bufs - 1)
Lowest(S) == CHOOSE b \in S : \A c \in S : b <= c

\* open: every buffer is black and the panel is at offset 0, where close
\* leaves it.
Init == /\ displayed = 0 /\ latched = None /\ pending = None /\ cur = None
        /\ stop = FALSE /\ dead = FALSE
        /\ pres = "check" /\ emu = "idle" /\ asleep = {}
        /\ addr = 0 /\ scan = 0
        /\ frame = 0 /\ content = [b \in Buf |-> 0]

panelVars == <<addr, scan>>
frameVars == <<frame, content>>

----------------------------------------------------------------------
\* The emulation thread.

CallBegin == /\ emu = "idle" /\ frame < MaxFrames
             /\ emu' = IF dead THEN "lost" ELSE "begin"
             /\ UNCHANGED <<displayed, latched, pending, cur, stop, dead, pres,
                            asleep, panelVars, frameVars>>

FreeAfterPan == {b \in Buf : b \notin {displayed, pending}}

Free == {b \in Buf : b \notin {displayed, latched, pending}}

Awake(t) == t \notin asleep

\* begin_frame with the lock held: the wait's predicate, then the choice.
Take == /\ emu = "begin" /\ Awake("emu")
        /\ dead \/ Free # {}
        /\ IF dead THEN emu' = "lost" /\ UNCHANGED cur
                   ELSE cur' = Lowest(Free) /\ emu' = "draw"
        /\ UNCHANGED <<displayed, latched, pending, stop, dead, pres, asleep,
                       panelVars, frameVars>>

BeginSleep == /\ emu = "begin" /\ Awake("emu")
              /\ ~dead /\ Free = {}
              /\ asleep' = asleep \cup {"emu"}
              /\ UNCHANGED <<displayed, latched, pending, cur, stop, dead, pres,
                             emu, panelVars, frameVars>>

EndFrame == /\ emu = "draw"
            /\ pending' = cur /\ cur' = None
            /\ frame' = frame + 1
            /\ content' = [content EXCEPT ![cur] = frame + 1]
            /\ emu' = "notify"
            /\ UNCHANGED <<displayed, latched, stop, dead, pres, asleep, panelVars>>

EndQuietly == /\ emu = "notify"
              /\ emu' = "idle"
              /\ UNCHANGED <<displayed, latched, pending, cur, stop, dead, pres,
                             asleep, panelVars, frameVars>>

EndNotify == /\ emu = "notify"
             /\ emu' = "idle" /\ asleep' = {}
             /\ UNCHANGED <<displayed, latched, pending, cur, stop, dead, pres,
                            panelVars, frameVars>>

\* close, called at the end and when begin_frame has returned null.
Close == /\ emu \in {"idle", "lost"}
         /\ stop' = TRUE /\ emu' = "stopping"
         /\ UNCHANGED <<displayed, latched, pending, cur, dead, pres, asleep,
                        panelVars, frameVars>>

CloseQuietly == /\ emu = "stopping"
                /\ emu' = "join"
                /\ UNCHANGED <<displayed, latched, pending, cur, stop, dead, pres,
                               asleep, panelVars, frameVars>>

CloseNotify == /\ emu = "stopping"
               /\ emu' = "join" /\ asleep' = {}
               /\ UNCHANGED <<displayed, latched, pending, cur, stop, dead, pres,
                              panelVars, frameVars>>

\* The rest of close: the presenter has ended, and the panel is left on
\* buffer 0 if it can be turned.
Join == /\ emu = "join" /\ pres = "gone"
        /\ emu' = "closed"
        /\ cur' = None /\ addr' \in {0, addr}
        /\ UNCHANGED <<displayed, latched, pending, stop, dead, pres, asleep, scan,
                       frameVars>>

----------------------------------------------------------------------
\* The presenter thread.

Latch == /\ pres = "check" /\ Awake("pres")
         /\ ~stop /\ pending # None
         /\ latched' = pending /\ pending' = None
         /\ pres' = "pan"
         /\ UNCHANGED <<displayed, cur, stop, dead, emu, asleep, panelVars, frameVars>>

PresSleep == /\ pres = "check" /\ Awake("pres")
             /\ ~stop /\ pending = None
             /\ asleep' = asleep \cup {"pres"}
             /\ UNCHANGED <<displayed, latched, pending, cur, stop, dead, pres, emu,
                            panelVars, frameVars>>

PresStop == /\ pres = "check" /\ Awake("pres")
            /\ stop
            /\ pres' = "gone"
            /\ UNCHANGED <<displayed, latched, pending, cur, stop, dead, emu,
                           asleep, panelVars, frameVars>>

Pan == /\ pres = "pan"
       /\ addr' = latched /\ pres' = "refresh"
       /\ UNCHANGED <<displayed, latched, pending, cur, stop, dead, emu, asleep,
                      scan, frameVars>>

PanFails == /\ pres = "pan"
            /\ dead' = TRUE /\ pres' = "shown"
            /\ UNCHANGED <<displayed, latched, pending, cur, stop, emu, asleep,
                           panelVars, frameVars>>

\* The pan, or FBIO_WAITFORVSYNC, returns: the panel has turned.
wait_vsync == /\ pres = "refresh" /\ scan = addr
              /\ pres' = "shown"
              /\ UNCHANGED <<displayed, latched, pending, cur, stop, dead, emu,
                             asleep, panelVars, frameVars>>

Shown == /\ pres = "shown"
         /\ displayed' = latched /\ latched' = None
         /\ asleep' = {}
         /\ pres' = IF dead THEN "gone" ELSE "check"
         /\ UNCHANGED <<pending, cur, stop, dead, emu, panelVars, frameVars>>

----------------------------------------------------------------------
\* The panel.
Refresh == /\ emu # "closed" /\ scan # addr
           /\ scan' = addr
           /\ UNCHANGED <<displayed, latched, pending, cur, stop, dead, pres, emu,
                          asleep, addr, frameVars>>

Presenter == Latch \/ PresSleep \/ PresStop \/ Pan \/ PanFails \/ wait_vsync \/ Shown
InCall == Take \/ BeginSleep \/ EndFrame \/ EndNotify \/ CloseNotify \/ Join

Next == CallBegin \/ InCall \/ Close \/ Presenter \/ Refresh
======================================================================

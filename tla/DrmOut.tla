---------------------------- MODULE DrmOut ----------------------------
(***************************************************************************)
(* DrmOut (src/src/frontend/sdl/display_drm.cpp): page flips on one CRTC.   *)
(* There is no thread: the caller's begin_frame, flush and close read the   *)
(* kernel's completion events, and reading one issues the queued flip.  A   *)
(* page flip may be refused and a completion may not come within the poll's *)
(* second; both end the sink.                                               *)
(***************************************************************************)
EXTENDS Integers

CONSTANTS Bufs,       \* nbufs_
          MaxFrames   \* bound: frames drawn in a behaviour

VARIABLES busy,     \* bufs_[i].busy
          cur, on_screen, pending, queued, dead,
          emu,      \* where the caller is
          event,    \* a completion event is waiting to be read
          addr,     \* the buffer of the flip the kernel holds, else that on the panel
          scan, frame, content

vars == <<busy, cur, on_screen, pending, queued, dead, emu, event, addr, scan,
          frame, content>>

None == -1
Buf == 0..(Bufs - 1)
Lowest(S) == CHOOSE b \in S : \A c \in S : b <= c

\* open has set the CRTC to buffer 0.
Init == /\ busy = [b \in Buf |-> b = 0]
        /\ cur = None /\ on_screen = 0 /\ pending = None /\ queued = None
        /\ dead = FALSE /\ emu = "idle" /\ event = FALSE
        /\ addr = 0 /\ scan = 0
        /\ frame = 0 /\ content = [b \in Buf |-> 0]

frameVars == <<frame, content>>

\* flip: ok says whether the kernel takes it; was is busy before it.
flip(i, ok, was) == IF ok THEN /\ pending' = i /\ addr' = i
                               /\ busy' = was /\ UNCHANGED dead
                    ELSE /\ pending' = None /\ dead' = TRUE
                         /\ busy' = [was EXCEPT ![i] = FALSE] /\ UNCHANGED addr

\* pump on a waiting completion event, and retire.
retire(ok) == LET freed == [busy EXCEPT ![on_screen] = FALSE]
              IN /\ event /\ event' = FALSE
                 /\ on_screen' = pending /\ queued' = None
                 /\ IF queued # None THEN flip(queued, ok, freed)
                    ELSE pending' = None /\ busy' = freed /\ UNCHANGED <<dead, addr>>

unpumped == UNCHANGED <<busy, on_screen, pending, queued, event, addr>>

----------------------------------------------------------------------
\* begin_frame: a dead sink has no buffer; waiting events are read without
\* blocking, then the lowest free buffer is taken.
CallBegin == /\ emu = "idle" /\ frame < MaxFrames
             /\ \/ dead /\ emu' = "lost" /\ unpumped /\ UNCHANGED dead
                \/ ~dead /\ ~event /\ emu' = "begin" /\ unpumped /\ UNCHANGED dead
                \/ ~dead /\ emu' = "begin" /\ \E ok \in BOOLEAN : retire(ok)
             /\ UNCHANGED <<cur, scan, frameVars>>

Free == {b \in Buf : ~busy[b]}

Take == /\ emu = "begin" /\ Free # {}
        /\ cur' = Lowest(Free) /\ emu' = "draw"
        /\ UNCHANGED <<dead, scan, frameVars>> /\ unpumped

BeginPump == /\ emu = "begin" /\ Free = {} /\ pending # None
             /\ \E ok \in BOOLEAN : retire(ok)
             /\ emu' = IF dead' THEN "lost" ELSE "begin"
             /\ UNCHANGED <<cur, scan, frameVars>>

BeginFails == /\ emu = "begin" /\ Free = {}
              /\ pending = None \/ ~event
              /\ dead' = TRUE /\ emu' = "lost"
              /\ UNCHANGED <<cur, scan, frameVars>> /\ unpumped

EndFrame == /\ emu = "draw" /\ ~dead
            /\ cur' = None /\ emu' = "idle"
            /\ frame' = frame + 1 /\ content' = [content EXCEPT ![cur] = frame + 1]
            /\ LET was == [busy EXCEPT ![cur] = TRUE]
               IN IF pending # None
                  THEN queued' = cur /\ busy' = was /\ UNCHANGED <<pending, addr, dead>>
                  ELSE UNCHANGED queued /\ \E ok \in BOOLEAN : flip(cur, ok, was)
            /\ UNCHANGED <<on_screen, event, scan>>

EndFrameDead == /\ emu = "draw" /\ dead
                /\ emu' = "idle"
                /\ UNCHANGED <<cur, dead, scan, frameVars>> /\ unpumped

----------------------------------------------------------------------
\* flush waits until no flip is queued behind a pending one.
CallFlush == /\ emu = "idle"
             /\ emu' = "flush"
             /\ UNCHANGED <<cur, dead, scan, frameVars>> /\ unpumped

Waiting == \/ emu = "flush" /\ queued # None /\ pending # None /\ ~dead
           \/ emu = "closing" /\ pending # None /\ ~dead

WaitPump == /\ Waiting
            /\ \E ok \in BOOLEAN : retire(ok)
            /\ UNCHANGED <<cur, emu, scan, frameVars>>

FlushTimeout == /\ Waiting /\ emu = "flush" /\ ~event
                /\ dead' = TRUE
                /\ UNCHANGED <<cur, emu, scan, frameVars>> /\ unpumped

FlushDone == /\ emu = "flush" /\ ~Waiting
             /\ emu' = "idle"
             /\ UNCHANGED <<cur, dead, scan, frameVars>> /\ unpumped

\* close lets an outstanding flip retire.
Close == /\ emu \in {"idle", "lost"}
         /\ emu' = "closing"
         /\ UNCHANGED <<cur, dead, scan, frameVars>> /\ unpumped

CloseDone == /\ emu = "closing" /\ (Waiting => ~event)
             /\ emu' = "closed" /\ dead' = FALSE
             /\ busy' = [b \in Buf |-> FALSE]
             /\ cur' = None /\ on_screen' = None /\ pending' = None /\ queued' = None
             /\ UNCHANGED <<event, addr, scan, frameVars>>

----------------------------------------------------------------------
\* The kernel: the flip it holds is done at the refresh and an event queued.
Refresh == /\ emu # "closed" /\ scan # addr
           /\ scan' = addr /\ event' = TRUE
           /\ UNCHANGED <<busy, cur, on_screen, pending, queued, dead, emu, addr,
                          frameVars>>

InCall == \/ Take \/ BeginPump \/ BeginFails \/ EndFrame \/ EndFrameDead
          \/ WaitPump \/ FlushTimeout \/ FlushDone \/ CloseDone

Next == CallBegin \/ CallFlush \/ InCall \/ Close \/ Refresh
======================================================================

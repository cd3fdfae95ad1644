---------------------------- MODULE Display ----------------------------
(***************************************************************************)
(* Display (src/src/frontend/sdl/display.cpp): the frame path of a window   *)
(* after open has settled on a sink.  The sinks share the buffer-rotation   *)
(* interface of scanout.h, and so do their models: cur is the buffer being  *)
(* drawn, scan the one on the panel, addr the one the panel turns to next,  *)
(* frame and content what has been drawn.  With GPU present the frames go   *)
(* through the present thread instead.                                      *)
(***************************************************************************)
EXTENDS Integers, Sequences

CONSTANTS FbdevBufs, DispBufs, DrmBufs,   \* buffers of each sink
          MaxFrames, MaxJobs,             \* bounds
          Windows,
          Sinks                           \* the sinks open may settle on

ASSUME FbdevBufsAssumption == FbdevBufs \in Nat /\ FbdevBufs >= 2   \* bufs_, 2 or 3
ASSUME DispBufsAssumption == DispBufs \in Nat /\ DispBufs >= 4      \* BUFS
ASSUME DrmBufsAssumption == DrmBufs \in Nat /\ DrmBufs >= 2         \* set_bufs
ASSUME BoundsAssumption == MaxFrames \in Nat \ {0} /\ MaxJobs \in Nat \ {0}

VARIABLES sink,
          cur, frame, content, scan, addr, emu, dead, pending,
          displayed, latched, queued, pres, asleep, stop, tick,
          busy, on_screen, event,
          jobs, posted, done, quit, worker, running, ticket, stage, stage_job,
          main, todo, got, resting

Fbdev == INSTANCE FbdevOut WITH Bufs <- FbdevBufs
Disp == INSTANCE DispOut WITH Bufs <- DispBufs
Drm == INSTANCE DrmOut WITH Bufs <- DrmBufs
Gpu == INSTANCE PresentThread

outVars == <<cur, frame, content, scan, addr, emu, dead, pending, displayed, latched,
             queued, pres, asleep, stop, tick, busy, on_screen, event>>
gpuVars == <<jobs, posted, done, quit, worker, running, ticket, stage, stage_job,
             main, todo, got, resting>>
vars == <<sink, outVars, gpuVars>>

None == -1

\* A sink that is not open has no state: its variables stay at None.
Init == /\ sink \in Sinks
        /\ IF sink = "fbdev" THEN Fbdev!Init /\ queued = None /\ tick = None
                                  /\ busy = None /\ on_screen = None /\ event = None
           ELSE IF sink = "disp" THEN Disp!Init /\ dead = FALSE
                                  /\ busy = None /\ on_screen = None /\ event = None
           ELSE Drm!Init /\ displayed = None /\ latched = None /\ pres = None
                         /\ asleep = None /\ stop = FALSE /\ tick = None
        /\ Gpu!Init

FbdevOnly == /\ sink = "fbdev"
             /\ UNCHANGED <<sink, queued, tick, busy, on_screen, event, gpuVars>>
DispOnly == /\ sink = "disp"
            /\ UNCHANGED <<sink, dead, busy, on_screen, event, gpuVars>>
DrmOnly == /\ sink = "kms"
           /\ UNCHANGED <<sink, displayed, latched, pres, asleep, stop, tick, gpuVars>>
GpuOnly == sink = "gpu" /\ UNCHANGED <<sink, outVars>>

\* The window is closed or the program has ended.
Ended == /\ emu = "closed" \/ main = "out"
         /\ UNCHANGED vars

Next == \/ FbdevOnly /\ Fbdev!Next
        \/ DispOnly /\ Disp!Next
        \/ DrmOnly /\ Drm!Next
        \/ GpuOnly /\ Gpu!Next
        \/ Ended

\* The threads run, a frame's drawing and a job end, and the panel is
\* refreshed.  The main loop draws the next frame or, when it pauses, flushes:
\* DrmOut issues a queued flip in those calls only.
Fairness == /\ WF_vars(FbdevOnly /\ Fbdev!InCall)
            /\ WF_vars(FbdevOnly /\ Fbdev!Presenter)
            /\ WF_vars(FbdevOnly /\ Fbdev!Refresh)
            /\ WF_vars(DispOnly /\ Disp!InCall)
            /\ WF_vars(DispOnly /\ Disp!Presenter)
            /\ WF_vars(DispOnly /\ Disp!Refresh)
            /\ WF_vars(DrmOnly /\ Drm!InCall)
            /\ WF_vars(DrmOnly /\ (Drm!CallBegin \/ Drm!CallFlush))
            /\ WF_vars(DrmOnly /\ Drm!Refresh)
            /\ WF_vars(GpuOnly /\ Gpu!InCall)
            /\ WF_vars(GpuOnly /\ Gpu!Worker)

Spec == Init /\ [][Next]_vars /\ Fairness

----------------------------------------------------------------------
\* The variables have their types; every sink hands out a buffer it has.
TypeOK == /\ sink \in Sinks
          /\ {cur, pending, queued, displayed, latched, on_screen}
               \subseteq {None} \cup DOMAIN content
          /\ {scan, addr} \subseteq DOMAIN content
          /\ frame \in 0..MaxFrames
          /\ {dead, stop, quit} \subseteq BOOLEAN
          /\ done \in 0..posted /\ posted \in 0..MaxJobs

\* The buffer being drawn is neither on the panel nor about to be, through
\* flips that wait for the refresh, frames that overtake each other, and the
\* close (begin_frame and present of the three sinks).  Pans of the framebuffer
\* and KMS flips may fail; the layer ioctl of the display-engine sink is taken
\* to succeed: the code ignores its result (display_disp.cpp:481).
NoTear == cur # None => cur \notin {scan, addr}

\* The present thread's stage holds each outstanding job's own frame: it is
\* not overwritten before the job that reads it has run.
StageIntact == \A j \in Gpu!Outstanding : j.frame = stage

\* The emulation thread uses a window's presenter only while no job that
\* drives it is queued or running.
WindowExclusive == main = "use" => \A j \in Gpu!Outstanding : todo \cap j.windows = {}

\* What a present job reads and drives is its own until it has run.
JobsSafe == StageIntact /\ WindowExclusive

\* Frames reach the panel whole, in order, and the last one handed over is
\* shown, as long as the sink is neither lost nor being closed.
lost == dead \/ emu \in {"stopping", "join", "closing", "closed"}
P == INSTANCE Panel WITH drawn <- frame, shown <- content[scan]
ImplementsPanel == P!Spec

\* The sinks' calls return: begin_frame, also when the pan fails under it or no
\* flip completes, and close, which tells the presenter to stop wherever it is.
SinkReturns == /\ emu = "begin" ~> emu # "begin"
               /\ emu \in {"stopping", "closing"} ~> emu = "closed"

\* A wait for a job's ticket returns, and so does the thread's destructor.
ThreadReturns == /\ main \in {"sync", "stage", "touch"} ~> main \in {"post", "use", "idle"}
                 /\ main = "leave" ~> main = "out"
======================================================================

---------------------------- MODULE DisplayProofs ----------------------------
(***************************************************************************)
(* The frame path of a window, for any number of buffers, frames, windows  *)
(* and jobs: no sink draws into a buffer that is on the panel or about to  *)
(* be, frames reach the panel in order, and a present job finds the frame  *)
(* it was posted with and has its windows to itself.                       *)
(*                                                                         *)
(* For a sink the argument is that its own record of its buffers, with the *)
(* place its presenter is at, says where the panel is; for the present     *)
(* thread, that at most one job is outstanding.                            *)
(***************************************************************************)
EXTENDS Display, WellFoundedInduction, TLAPS

-----------------------------------------------------------------------------
(* The inductive invariant.                                                *)

\* The buffers of the open sink.
Bufs == IF sink = "fbdev" THEN FbdevBufs ELSE IF sink = "disp" THEN DispBufs ELSE DrmBufs
Buf == 0 .. (Bufs - 1)
MaybeBuf == Buf \cup {None}

\* The variables every sink has.
Shared ==
  /\ sink \in Sinks
  /\ cur \in MaybeBuf /\ pending \in MaybeBuf /\ queued \in MaybeBuf
  /\ displayed \in MaybeBuf /\ latched \in MaybeBuf /\ on_screen \in MaybeBuf
  /\ scan \in Buf /\ addr \in Buf
  /\ frame \in 0 .. MaxFrames /\ content \in [Buf -> 0 .. frame]
  /\ dead \in BOOLEAN /\ stop \in BOOLEAN
  /\ emu \in {"begin", "draw"} => frame < MaxFrames

\* The frame in b is older than that in c.
Older(b, c) == b # None /\ c # None => content[b] < content[c]

\* FbdevOut: where the presenter is says which of its buffers the panel is on.
\* A pan that failed leaves the panel, and dead keeps the buffers from being
\* drawn to.
FbdevInv ==
  /\ (cur # None) <=> emu = "draw"
  /\ cur # None => cur \notin {displayed, latched, pending, scan, addr}
  /\ pres \in {"check", "pan", "refresh", "shown", "gone"}
  /\ pres \in {"check", "gone"} => latched = None
  /\ pres \in {"pan", "refresh", "shown"} => latched # None
  /\ dead => pres \in {"shown", "gone"}
  /\ displayed # None
  /\ emu # "closed" =>
       /\ ~dead /\ pres \in {"check", "pan", "gone"} => addr = displayed /\ scan = displayed
       /\ pres = "refresh" => addr = latched /\ scan \in {displayed, latched}
       /\ ~dead /\ pres = "shown" => addr = latched /\ scan = latched
       /\ dead => scan = addr
  /\ Older(displayed, latched) /\ Older(displayed, pending) /\ Older(latched, pending)
  /\ queued = None /\ on_screen = None
  /\ emu = "closed" => pres = "gone"

\* DispOut: the address is that of the latched composite, and the panel is on
\* it or on the one before.
DispInv ==
  /\ (cur # None) <=> emu = "draw"
  /\ emu = "draw" => pending = None
  /\ cur # None => cur \notin {displayed, latched, queued, pending}
  /\ pending # None => pending \notin {displayed, latched, queued}
  /\ pres \in {"check", "refresh", "flip", "flipped", "gone"}
  /\ pres \in {"check", "gone"} => queued = None
  /\ pres \in {"refresh", "flip", "flipped"} => queued # None
  /\ pres # "flipped" => addr = IF latched # None THEN latched ELSE displayed
  /\ pres = "flipped" => addr = queued /\ scan \in {IF latched # None THEN latched ELSE displayed, queued}
  /\ pres # "flipped" => scan \in {displayed, addr}
  /\ pres = "refresh" /\ tick => scan = addr
  /\ pres = "flip" => scan = addr
  /\ displayed # None /\ dead = FALSE
  /\ Older(displayed, latched) /\ Older(displayed, queued) /\ Older(latched, queued)
  /\ Older(displayed, pending) /\ Older(latched, pending) /\ Older(queued, pending)
  /\ on_screen = None

\* DrmOut: busy buffers are those on the panel, in the kernel and queued; a
\* waiting event says the panel has turned.
DrmInv ==
  /\ displayed = None /\ latched = None /\ busy \in [Buf -> BOOLEAN]
  /\ event \in BOOLEAN
  /\ emu = "closed" => cur = None /\ pending = None /\ queued = None
  /\ emu # "closed" =>
       /\ on_screen # None /\ busy[on_screen]
       /\ pending # None => busy[pending] /\ pending # on_screen /\ addr = pending
       /\ pending # None => scan = IF event THEN pending ELSE on_screen
       /\ pending = None => addr = on_screen /\ scan = on_screen /\ ~event /\ queued = None
       /\ queued # None => busy[queued] /\ queued \notin {on_screen, pending}
  /\ cur # None => ~busy[cur] /\ (emu = "draw" \/ (dead /\ emu \in {"idle", "lost", "flush", "closing"}))
  /\ emu = "draw" => cur # None
  /\ Older(on_screen, pending) /\ Older(pending, queued)

\* The present thread has at most one job, whose frame is staged and which the
\* tickets of its windows name.
Job == [windows : SUBSET Windows, frame : Nat]
GpuInv ==
  /\ posted \in 0 .. MaxJobs /\ done \in Nat /\ quit \in BOOLEAN
  /\ jobs \in Seq(Job) /\ running \in Seq(Job)
  /\ stage \in Nat /\ stage_job = posted
  /\ Len(running) = IF worker = "run" THEN 1 ELSE 0
  /\ posted = done + Len(running) + Len(jobs)
  /\ ticket \in [Windows -> Nat] /\ got \subseteq Windows /\ todo \subseteq Windows
  /\ main = "post" => done = posted
  /\ main \in {"sync", "stage", "post"} => posted < MaxJobs
  /\ main \in {"touch", "use"} => \E w \in Windows : todo = {w}
  /\ StageIntact /\ WindowExclusive
  /\ \A j \in Gpu!Outstanding : \A w \in j.windows : ticket[w] = posted

SinkInv == IF sink = "fbdev" THEN FbdevInv ELSE IF sink = "disp" THEN DispInv ELSE DrmInv
Inv == Shared /\ SinkInv /\ GpuInv

-----------------------------------------------------------------------------
(* Buffers and frames.                                                     *)

\* The sinks mark a buffer that is not there alike.
LEMMA NoneIsNone == Fbdev!None = None /\ Disp!None = None /\ Drm!None = None
BY DEF None, Fbdev!None, Disp!None, Drm!None

\* Every sink has two buffers or more, and no buffer has the mark of none.
LEMMA BufsFacts == Bufs \in Nat /\ Bufs >= 2 /\ 0 \in Buf /\ None \notin Buf /\ \A b \in Buf : b # None
BY FbdevBufsAssumption, DispBufsAssumption, DrmBufsAssumption DEF Bufs, Buf, None

\* The number of buffers does not change while a sink is open.
LEMMA SameBufs == ASSUME sink' = sink PROVE Bufs' = Bufs /\ Buf' = Buf /\ MaybeBuf' = MaybeBuf
BY DEF Bufs, Buf, MaybeBuf

\* A set of buffers that is not empty has a lowest one.
LEMMA Least == ASSUME NEW T, T \subseteq Nat, T # {}
  PROVE \E x \in T : \A y \in T : x <= y
<1> DEFINE R == OpToRel(<, Nat)
<1>1. IsWellFoundedOn(R, Nat)
  BY NatLessThanWellFounded
<1>2. \A x, y \in Nat : y < x => <<y, x>> \in R
  BY DEF OpToRel
<1> HIDE DEF R
<1>3. PICK x \in T : \A y \in T : ~ (<<y, x>> \in R)
  BY <1>1, WFMin
<1>4. x \in Nat /\ \A y \in T : y \in Nat /\ ~(y < x)
  BY <1>2, <1>3
<1>5. \A y \in T : x <= y
  BY <1>4
<1> QED BY <1>3, <1>5

\* The choice of begin_frame is one of the free buffers.
LEMMA LowestIn ==
  ASSUME NEW T, T \subseteq Buf, T # {} PROVE Fbdev!Lowest(T) \in T /\ Drm!Lowest(T) \in T
<1>1. T \subseteq Nat
  BY BufsFacts DEF Buf
<1>2. \E x \in T : \A y \in T : x <= y
  BY <1>1, Least
<1> QED
  BY <1>2 DEF Fbdev!Lowest, Drm!Lowest

\* The contents do not change.
LEMMA QuietShared ==
  ASSUME Shared, UNCHANGED <<sink, frame, content>>,
         cur' \in MaybeBuf, pending' \in MaybeBuf, queued' \in MaybeBuf,
         displayed' \in MaybeBuf, latched' \in MaybeBuf, on_screen' \in MaybeBuf,
         scan' \in Buf, addr' \in Buf, dead' \in BOOLEAN, stop' \in BOOLEAN,
         emu' \in {"begin", "draw"} => frame < MaxFrames
  PROVE  Shared' /\ \A b, c : Older(b, c)' <=> Older(b, c)
BY SameBufs DEF Shared, Older

\* A frame is finished in the buffer being drawn.
LEMMA DrawnShared ==
  ASSUME Shared, UNCHANGED <<sink, scan, displayed, latched, on_screen, stop>>, cur \in Buf, cur' = None,
         pending' \in MaybeBuf, queued' \in MaybeBuf, addr' \in Buf, dead' \in BOOLEAN,
         emu = "draw", emu' \notin {"begin", "draw"},
         frame' = frame + 1, content' = [content EXCEPT ![cur] = frame + 1]
  PROVE  /\ Shared'
         /\ \A b \in Buf : b # cur => content'[b] = content[b] /\ content'[b] < content'[cur]
<1>1. Buf' = Buf /\ MaybeBuf' = MaybeBuf /\ None \in MaybeBuf /\ Buf \subseteq MaybeBuf
  BY SameBufs DEF MaybeBuf
<1>2. frame \in Nat /\ frame < MaxFrames /\ frame' \in 0 .. MaxFrames /\ content \in [Buf -> 0 .. frame]
  BY BoundsAssumption DEF Shared
<1>3. \A b \in Buf : content'[b] = (IF b = cur THEN frame + 1 ELSE content[b]) /\ content[b] \in 0 .. frame
  BY <1>2
<1>4. content' \in [Buf -> 0 .. frame']
  BY <1>2, <1>3
<1>5. Shared'
  BY <1>1, <1>2, <1>4 DEF Shared
<1>6. \A b \in Buf : b # cur => content'[b] = content[b] /\ content'[b] < content'[cur]
  BY <1>2, <1>3
<1> QED
  BY <1>5, <1>6

-----------------------------------------------------------------------------
(* The panel.                                                              *)

PanelStep == [P!Next]_(P!vars)

\* A sink that is lost stays lost.
LEMMA LostKept == ASSUME lost => lost' PROVE lost' = lost \/ lost' = TRUE
BY DEF lost

\* The panel is not turned to another frame and none is drawn.
LEMMA PanelQuiet ==
  ASSUME UNCHANGED frame, content'[scan'] = content[scan], lost => lost'
  PROVE  PanelStep
BY LostKept DEF PanelStep, P!Next, P!vars, P!Lose

\* A frame is handed over in a buffer that is not on the panel.
LEMMA PanelDraw ==
  ASSUME frame' = frame + 1, content'[scan'] = content[scan], lost => lost'
  PROVE  PanelStep
BY LostKept DEF PanelStep, P!Next, P!Draw, P!vars

\* The panel is refreshed from the buffer its address is at.
LEMMA PanelShow ==
  ASSUME Shared, UNCHANGED <<frame, content, dead, emu>>, scan' = addr, content[scan] < content[addr]
  PROVE  PanelStep
<1>1. content[addr] \in 0 .. frame /\ content[scan] \in 0 .. frame /\ frame \in Nat
  BY DEF Shared
<1>2. content[addr] \in content[scan] + 1 .. frame
  BY <1>1
<1> QED
  BY <1>2 DEF PanelStep, P!Next, P!Show, P!vars, lost

-----------------------------------------------------------------------------
(* FbdevOut.                                                               *)

\* What the emulation thread and the presenter do under the lock.
LEMMA FbdevStep ==
  ASSUME Shared, FbdevInv, sink = "fbdev", FbdevOnly, Fbdev!Next
  PROVE  Shared' /\ FbdevInv' /\ PanelStep
<1> USE NoneIsNone
<1>0. /\ UNCHANGED <<sink, queued, on_screen>> /\ Buf' = Buf /\ MaybeBuf' = MaybeBuf
      /\ None \notin Buf /\ Fbdev!Buf = Buf /\ MaybeBuf = Buf \cup {None}
  BY SameBufs, BufsFacts DEF FbdevOnly, MaybeBuf, Buf, Bufs, Fbdev!Buf
<1>1. CASE Fbdev!CallBegin
  <2>1. /\ UNCHANGED <<displayed, latched, pending, cur, stop, dead, pres, asleep, addr, scan, frame, content>>
        /\ emu = "idle" /\ emu' \in {"begin", "lost"} /\ frame < MaxFrames
    BY <1>1 DEF Fbdev!CallBegin, Fbdev!panelVars, Fbdev!frameVars
  <2>2. Shared' /\ \A b, c : Older(b, c)' <=> Older(b, c)
    BY <1>0, <2>1, QuietShared DEF Shared
  <2>3. FbdevInv'
    BY <1>0, <2>1, <2>2 DEF FbdevInv
  <2> QED
    BY <2>1, <2>2, <2>3, PanelQuiet DEF lost
<1>2. CASE Fbdev!Take
  <2>0. CASE dead
    <3>1. /\ UNCHANGED <<displayed, latched, pending, cur, stop, dead, pres, asleep, addr, scan, frame, content>>
          /\ emu = "begin" /\ emu' = "lost"
      BY <1>2, <2>0 DEF Fbdev!Take, Fbdev!panelVars, Fbdev!frameVars
    <3>2. Shared' /\ \A b, c : Older(b, c)' <=> Older(b, c)
      BY <1>0, <3>1, QuietShared DEF Shared
    <3>3. FbdevInv'
      BY <1>0, <3>1, <3>2 DEF FbdevInv
    <3> QED
      BY <3>1, <3>2, <3>3, PanelQuiet DEF lost
  <2>1. CASE ~dead
    <3>1. /\ UNCHANGED <<displayed, latched, pending, stop, dead, pres, asleep, addr, scan, frame, content>>
          /\ emu = "begin" /\ emu' = "draw" /\ Fbdev!Free # {} /\ cur' = Fbdev!Lowest(Fbdev!Free)
      BY <1>2, <2>1 DEF Fbdev!Take, Fbdev!panelVars, Fbdev!frameVars
    <3>2. Fbdev!Free \subseteq Buf
      BY <1>0 DEF Fbdev!Free
    <3>3. cur' \in Fbdev!Free
      BY <3>1, <3>2, LowestIn
    <3>4. cur' \in Buf /\ cur' \notin {displayed, latched, pending} /\ cur' # None
      BY <1>0, <3>3 DEF Fbdev!Free
    <3>5. Shared' /\ \A b, c : Older(b, c)' <=> Older(b, c)
      BY <1>0, <3>1, <3>4, QuietShared DEF Shared
    <3>6. scan \in {displayed, latched} /\ addr \in {displayed, latched}
      BY <2>1, <3>1 DEF FbdevInv
    <3>7. FbdevInv'
      BY <1>0, <2>1, <3>1, <3>4, <3>5, <3>6 DEF FbdevInv
    <3> QED
      BY <3>1, <3>5, <3>7, PanelQuiet DEF lost
  <2> QED
    BY <2>0, <2>1 DEF Shared
<1>3. CASE Fbdev!BeginSleep \/ Fbdev!PresSleep
  <2>1. UNCHANGED <<displayed, latched, pending, cur, stop, dead, pres, emu, addr, scan, frame, content>>
    BY <1>3 DEF Fbdev!BeginSleep, Fbdev!PresSleep, Fbdev!panelVars, Fbdev!frameVars
  <2>2. Shared' /\ \A b, c : Older(b, c)' <=> Older(b, c)
    BY <1>0, <2>1, QuietShared DEF Shared
  <2>3. FbdevInv'
    BY <1>0, <2>1, <2>2 DEF FbdevInv
  <2> QED
    BY <2>1, <2>2, <2>3, PanelQuiet DEF lost
<1>4. CASE Fbdev!EndFrame
  <2>1. /\ UNCHANGED <<displayed, latched, stop, dead, pres, asleep, addr, scan>>
        /\ emu = "draw" /\ emu' = "notify" /\ pending' = cur /\ cur' = None
        /\ frame' = frame + 1 /\ content' = [content EXCEPT ![cur] = frame + 1]
    BY <1>4 DEF Fbdev!EndFrame, Fbdev!panelVars
  <2>2. cur \in Buf /\ cur \notin {displayed, latched, pending, scan, addr}
    BY <1>0, <2>1 DEF FbdevInv, Shared
  <2>3. /\ Shared'
        /\ \A b \in Buf : b # cur => content'[b] = content[b] /\ content'[b] < content'[cur]
    BY <1>0, <2>1, <2>2, DrawnShared DEF Shared
  <2>4. Older(displayed, latched)' /\ Older(displayed, pending)' /\ Older(latched, pending)'
    BY <1>0, <2>1, <2>2, <2>3 DEF FbdevInv, Shared, Older
  <2>5. FbdevInv'
    BY <1>0, <2>1, <2>2, <2>4 DEF FbdevInv
  <2> QED
    BY <2>1, <2>2, <2>3, <2>5, PanelDraw DEF lost, Shared
<1>5. CASE Fbdev!EndNotify \/ Fbdev!Close \/ Fbdev!CloseNotify
  <2>1. /\ UNCHANGED <<displayed, latched, pending, cur, dead, pres, addr, scan, frame, content>>
        /\ stop' \in {stop, TRUE}
        /\ emu \in {"notify", "idle", "lost", "stopping"}
        /\ emu' \in {"idle", "stopping", "join"} /\ (emu' = "idle" => emu = "notify")
    BY <1>5 DEF Fbdev!EndNotify, Fbdev!Close, Fbdev!CloseNotify, Fbdev!panelVars, Fbdev!frameVars
  <2>2. Shared' /\ \A b, c : Older(b, c)' <=> Older(b, c)
    BY <1>0, <2>1, QuietShared DEF Shared
  <2>3. FbdevInv'
    BY <1>0, <2>1, <2>2 DEF FbdevInv
  <2> QED
    BY <2>1, <2>2, <2>3, PanelQuiet DEF lost
<1>6. CASE Fbdev!Join
  <2>1. /\ UNCHANGED <<displayed, latched, pending, stop, dead, pres, scan, frame, content>>
        /\ emu = "join" /\ emu' = "closed" /\ cur' = None /\ addr' \in {0, addr} /\ pres = "gone"
    BY <1>6 DEF Fbdev!Join, Fbdev!frameVars
  <2>2. Shared' /\ \A b, c : Older(b, c)' <=> Older(b, c)
    BY <1>0, <2>1, QuietShared, BufsFacts DEF Shared
  <2>3. FbdevInv'
    BY <1>0, <2>1, <2>2 DEF FbdevInv
  <2> QED
    BY <2>1, <2>2, <2>3, PanelQuiet DEF lost
<1>7. CASE Fbdev!Latch \/ Fbdev!PresStop \/ Fbdev!Pan \/ Fbdev!PanFails \/ Fbdev!wait_vsync \/ Fbdev!Shown
  <2>1. UNCHANGED <<cur, emu, scan, frame, content, stop>>
    BY <1>7 DEF Fbdev!Latch, Fbdev!PresStop, Fbdev!Pan, Fbdev!PanFails, Fbdev!wait_vsync, Fbdev!Shown,
                Fbdev!panelVars, Fbdev!frameVars
  <2>2. /\ {displayed', latched', pending'} \subseteq {displayed, latched, pending, None}
        /\ addr' \in {addr, latched} /\ (addr' = addr \/ latched # None) /\ dead' \in {dead, TRUE}
    BY <1>7 DEF Fbdev!Latch, Fbdev!PresStop, Fbdev!Pan, Fbdev!PanFails, Fbdev!wait_vsync, Fbdev!Shown,
                Fbdev!panelVars, Fbdev!frameVars, FbdevInv
  <2>3. Shared' /\ \A b, c : Older(b, c)' <=> Older(b, c)
    BY <1>0, <2>1, <2>2, QuietShared DEF Shared
  <2>4. FbdevInv'
    <3>1. CASE Fbdev!Latch
      BY <1>0, <2>1, <2>3, <3>1 DEF FbdevInv, Fbdev!Latch, Fbdev!panelVars, Older
    <3>2. CASE Fbdev!PresStop
      BY <1>0, <2>1, <2>3, <3>2 DEF FbdevInv, Fbdev!PresStop, Fbdev!panelVars
    <3>3. CASE Fbdev!Pan
      BY <1>0, <2>1, <2>3, <3>3 DEF FbdevInv, Fbdev!Pan, Fbdev!panelVars
    <3>4. CASE Fbdev!PanFails
      BY <1>0, <2>1, <2>3, <3>4 DEF FbdevInv, Fbdev!PanFails, Fbdev!panelVars
    <3>5. CASE Fbdev!wait_vsync
      BY <1>0, <2>1, <2>3, <3>5 DEF FbdevInv, Fbdev!wait_vsync, Fbdev!panelVars
    <3>6. CASE Fbdev!Shown
      BY <1>0, <2>1, <2>3, <3>6 DEF FbdevInv, Fbdev!Shown, Fbdev!panelVars, Older
    <3> QED
      BY <1>7, <3>1, <3>2, <3>3, <3>4, <3>5, <3>6
  <2>5. lost => lost'
    BY <2>1, <2>2 DEF lost
  <2> QED
    BY <2>1, <2>3, <2>4, <2>5, PanelQuiet
<1>8. CASE Fbdev!Refresh
  <2>1. /\ UNCHANGED <<displayed, latched, pending, cur, stop, dead, pres, emu, addr, frame, content>>
        /\ emu # "closed" /\ scan # addr /\ scan' = addr
    BY <1>8 DEF Fbdev!Refresh, Fbdev!frameVars
  <2>2. Shared' /\ \A b, c : Older(b, c)' <=> Older(b, c)
    BY <1>0, <2>1, QuietShared DEF Shared
  <2>3. pres = "refresh" /\ addr = latched /\ scan = displayed /\ displayed # None /\ latched # None
    BY <2>1 DEF FbdevInv, Shared
  <2>4. content[scan] < content[addr]
    BY <2>3 DEF FbdevInv, Older
  <2>5. FbdevInv'
    BY <1>0, <2>1, <2>2, <2>3 DEF FbdevInv
  <2> QED
    BY <2>1, <2>2, <2>4, <2>5, PanelShow
<1> QED
  BY <1>1, <1>2, <1>3, <1>4, <1>5, <1>6, <1>7, <1>8 DEF Fbdev!Next, Fbdev!InCall, Fbdev!Presenter

-----------------------------------------------------------------------------
(* DispOut.                                                                *)

\* present's search ends at a composite: three of them are in use at most.
LEMMA UnusedFound ==
  ASSUME NEW x, NEW y, NEW z, sink = "disp"
  PROVE  Disp!FirstUnused({x, y, z}) \in Buf \ {x, y, z}
<1> DEFINE used == {x, y, z}
           ok(b) == b \notin used /\ 0 .. (b - 1) \subseteq used
<1>1. \E b \in 0 .. 3 : ok(b)
  <2>1. CASE 0 \notin used
    <3>1. ok(0)
      BY <2>1
    <3> QED
      BY <3>1
  <2>2. CASE 0 \in used /\ 1 \notin used
    <3>1. 0 .. (1 - 1) = {0}
      OBVIOUS
    <3>2. ok(1)
      BY <2>2, <3>1
    <3> QED
      BY <3>2
  <2>3. CASE {0, 1} \subseteq used /\ 2 \notin used
    <3>1. 0 .. (2 - 1) = {0, 1}
      OBVIOUS
    <3>2. ok(2)
      BY <2>3, <3>1
    <3> QED
      BY <3>2
  <2>4. CASE {0, 1, 2} \subseteq used
    <3>1. 0 .. (3 - 1) = {0, 1, 2}
      OBVIOUS
    <3>2. 3 \notin used
      BY <2>4
    <3>3. ok(3)
      BY <2>4, <3>1, <3>2
    <3> QED
      BY <3>3
  <2> QED
    BY <2>1, <2>2, <2>3, <2>4
<1>2. 0 .. 3 \subseteq Buf
  BY DispBufsAssumption DEF Buf, Bufs
<1>3. Disp!FirstUnused(used) = CHOOSE b \in 0 .. 3 : ok(b)
  BY DEF Disp!FirstUnused
<1>4. Disp!FirstUnused(used) \in 0 .. 3 /\ ok(Disp!FirstUnused(used))
  <2> HIDE DEF ok, used
  <2> QED
    BY <1>1, <1>3
<1> QED
  BY <1>2, <1>4

\* The presenter's queue, the flip and the refresh.
LEMMA DispStep ==
  ASSUME Shared, DispInv, sink = "disp", DispOnly, Disp!Next
  PROVE  Shared' /\ DispInv' /\ PanelStep
<1> USE NoneIsNone
<1>0. /\ UNCHANGED <<sink, dead, on_screen>> /\ Buf' = Buf /\ MaybeBuf' = MaybeBuf
      /\ None \notin Buf /\ MaybeBuf = Buf \cup {None}
  BY SameBufs, BufsFacts DEF DispOnly, MaybeBuf
<1>1. CASE Disp!Pick
  <2>1. /\ UNCHANGED <<displayed, latched, queued, stop, pres, tick, addr, scan, frame, content>>
        /\ emu = "idle" /\ emu' = "draw" /\ frame < MaxFrames /\ pending' = None
        /\ cur' = IF pending # None THEN pending ELSE Disp!FirstUnused({displayed, latched, queued})
    BY <1>1 DEF Disp!Pick, Disp!panelVars, Disp!frameVars
  <2>2. cur' \in Buf /\ cur' \notin {displayed, latched, queued} /\ cur' # None
    <3>1. Disp!FirstUnused({displayed, latched, queued}) \in Buf \ {displayed, latched, queued}
      BY UnusedFound
    <3>2. CASE pending # None
      BY <1>0, <2>1, <3>2 DEF DispInv, Shared
    <3>3. CASE pending = None
      BY <1>0, <2>1, <3>1, <3>3
    <3> QED
      BY <3>2, <3>3
  <2>3. Shared' /\ \A b, c : Older(b, c)' <=> Older(b, c)
    BY <1>0, <2>1, <2>2, QuietShared DEF Shared
  <2>4. DispInv'
    BY <1>0, <2>1, <2>2, <2>3 DEF DispInv, Older
  <2>5. lost => lost'
    BY <1>0, <2>1 DEF lost
  <2> QED
    BY <2>1, <2>3, <2>4, <2>5, PanelQuiet
<1>2. CASE Disp!Post
  <2>1. /\ UNCHANGED <<displayed, latched, queued, stop, pres, tick, addr, scan>>
        /\ emu = "draw" /\ emu' = "notify" /\ pending' = cur /\ cur' = None
        /\ frame' = frame + 1 /\ content' = [content EXCEPT ![cur] = frame + 1]
    BY <1>2 DEF Disp!Post, Disp!panelVars
  <2>2. cur \in Buf /\ cur \notin {displayed, latched, queued, pending, None}
    BY <1>0, <2>1 DEF DispInv, Shared
  <2>3. scan \in {displayed, latched, queued} /\ addr \in {displayed, latched, queued}
    BY DEF DispInv
  <2>4. /\ Shared'
        /\ \A b \in Buf : b # cur => content'[b] = content[b] /\ content'[b] < content'[cur]
    BY <1>0, <2>1, <2>2, DrawnShared DEF Shared
  <2>5. /\ Older(displayed, latched)' /\ Older(displayed, queued)' /\ Older(latched, queued)'
        /\ Older(displayed, pending)' /\ Older(latched, pending)' /\ Older(queued, pending)'
    BY <1>0, <2>1, <2>2, <2>4 DEF DispInv, Shared, Older
  <2>6. DispInv'
    BY <1>0, <2>1, <2>2, <2>5 DEF DispInv
  <2>7. lost => lost'
    BY <1>0, <2>1 DEF lost
  <2> QED
    BY <2>1, <2>2, <2>3, <2>4, <2>6, <2>7, PanelDraw DEF Shared
<1>3. CASE Disp!PostNotify \/ Disp!Close \/ Disp!CloseNotify \/ Disp!Join \/ Disp!PresSleep
  <2>1. /\ UNCHANGED <<displayed, latched, queued, pending, cur, pres, tick, addr, scan, frame, content>>
        /\ stop' \in {stop, TRUE}
        /\ \/ emu' = emu
           \/ emu = "notify" /\ emu' = "idle"
           \/ emu \in {"idle", "stopping", "join"} /\ emu' \in {"stopping", "join", "closed"}
    BY <1>3 DEF Disp!PostNotify, Disp!Close, Disp!CloseNotify, Disp!Join, Disp!PresSleep, Disp!panelVars,
                Disp!frameVars
  <2>2. Shared' /\ \A b, c : Older(b, c)' <=> Older(b, c)
    BY <1>0, <2>1, QuietShared DEF Shared
  <2>3. DispInv'
    BY <1>0, <2>1, <2>2 DEF DispInv
  <2>4. lost => lost'
    BY <1>0, <2>1 DEF lost
  <2> QED
    BY <2>1, <2>2, <2>3, <2>4, PanelQuiet
<1>4. CASE Disp!Queue \/ Disp!PresStop \/ Disp!wait_vsync \/ Disp!Flip \/ Disp!Flipped
  <2>1. UNCHANGED <<cur, emu, scan, frame, content, stop>>
    BY <1>4 DEF Disp!Queue, Disp!PresStop, Disp!wait_vsync, Disp!Flip, Disp!Flipped, Disp!panelVars, Disp!frameVars
  <2>2. /\ {displayed', latched', queued', pending'} \subseteq {displayed, latched, queued, pending, None}
        /\ addr' \in {addr, queued} /\ (addr' = addr \/ queued # None)
    BY <1>4 DEF Disp!Queue, Disp!PresStop, Disp!wait_vsync, Disp!Flip, Disp!Flipped, Disp!panelVars,
                Disp!frameVars, DispInv
  <2>3. Shared' /\ \A b, c : Older(b, c)' <=> Older(b, c)
    BY <1>0, <2>1, <2>2, QuietShared DEF Shared
  <2>4. DispInv'
    <3>1. CASE Disp!Queue
      BY <1>0, <2>1, <2>3, <3>1 DEF DispInv, Disp!Queue, Older
    <3>2. CASE Disp!PresStop
      BY <1>0, <2>1, <2>3, <3>2 DEF DispInv, Disp!PresStop, Disp!panelVars
    <3>3. CASE Disp!wait_vsync
      BY <1>0, <2>1, <2>3, <3>3 DEF DispInv, Disp!wait_vsync, Disp!panelVars
    <3>4. CASE Disp!Flip
      BY <1>0, <2>1, <2>3, <3>4 DEF DispInv, Disp!Flip
    <3>5. CASE Disp!Flipped
      BY <1>0, <2>1, <2>3, <3>5 DEF DispInv, Disp!Flipped, Disp!panelVars, Older
    <3> QED
      BY <1>4, <3>1, <3>2, <3>3, <3>4, <3>5
  <2>5. lost => lost'
    BY <1>0, <2>1 DEF lost
  <2> QED
    BY <2>1, <2>3, <2>4, <2>5, PanelQuiet
<1>5. CASE Disp!Refresh
  <2>1. /\ UNCHANGED <<displayed, latched, queued, pending, cur, stop, pres, emu, addr, frame, content>>
        /\ scan' = addr /\ tick' = TRUE
    BY <1>5 DEF Disp!Refresh, Disp!frameVars
  <2>2. Shared' /\ \A b, c : Older(b, c)' <=> Older(b, c)
    BY <1>0, <2>1, QuietShared DEF Shared
  <2>3. DispInv'
    BY <1>0, <2>1, <2>2 DEF DispInv
  <2>4. scan = addr \/ content[scan] < content[addr]
    BY <1>0 DEF DispInv, Older, Shared
  <2>5. CASE scan = addr
    <3>1. lost => lost'
      BY <1>0, <2>1 DEF lost
    <3> QED
      BY <2>1, <2>2, <2>3, <2>5, <3>1, PanelQuiet
  <2>6. CASE content[scan] < content[addr]
    BY <1>0, <2>1, <2>2, <2>3, <2>6, PanelShow
  <2> QED
    BY <2>4, <2>5, <2>6
<1> QED
  BY <1>1, <1>2, <1>3, <1>4, <1>5 DEF Disp!Next, Disp!InCall, Disp!Presenter

-----------------------------------------------------------------------------
(* DrmOut.                                                                 *)

\* Reading a completion event: the buffer shown before is free, and the queued
\* one, if any, is given to the kernel, which may refuse it.
LEMMA RetireStep ==
  ASSUME Shared, DrmInv, sink = "kms", DrmOnly, emu # "closed", emu # "draw", cur = None, ~dead \/ emu = "begin",
         NEW ok \in BOOLEAN, Drm!retire(ok), UNCHANGED <<cur, scan, frame, content>>, pending # None,
         emu' \in {emu, "begin", "lost"}, emu' = "begin" => frame < MaxFrames,
         emu \in {"stopping", "join", "closing"} => emu' = emu
  PROVE  Shared' /\ DrmInv' /\ PanelStep
<1> USE NoneIsNone
<1>0. /\ UNCHANGED <<sink, displayed, latched, stop>> /\ Buf' = Buf /\ MaybeBuf' = MaybeBuf
      /\ None \notin Buf /\ MaybeBuf = Buf \cup {None}
  BY SameBufs, BufsFacts DEF DrmOnly, MaybeBuf
<1> DEFINE freed == [busy EXCEPT ![on_screen] = FALSE]
<1>1. /\ event /\ event' = FALSE /\ on_screen' = pending /\ queued' = None
      /\ IF queued # None THEN Drm!flip(queued, ok, freed)
         ELSE pending' = None /\ busy' = freed /\ UNCHANGED <<dead, addr>>
  BY DEF Drm!retire
<1>2. /\ on_screen \in Buf /\ pending \in Buf /\ pending # on_screen /\ busy \in [Buf -> BOOLEAN]
      /\ busy[pending] /\ addr = pending /\ scan = pending /\ queued \in MaybeBuf
      /\ (queued # None => queued \in Buf /\ busy[queued] /\ queued \notin {on_screen, pending})
  BY <1>0, <1>1 DEF DrmInv, Shared
<1>3. freed \in [Buf -> BOOLEAN] /\ \A b \in Buf : freed[b] = (IF b = on_screen THEN FALSE ELSE busy[b])
  BY <1>2
<1> HIDE DEF freed
<1>4. CASE queued = None
  <2>1. pending' = None /\ busy' = freed /\ dead' = dead /\ addr' = addr
    BY <1>1, <1>4
  <2>2. Shared' /\ \A b, c : Older(b, c)' <=> Older(b, c)
    BY <1>0, <1>1, <1>2, <2>1, QuietShared DEF Shared
  <2>3. DrmInv'
    BY <1>0, <1>1, <1>2, <1>3, <2>1, <2>2 DEF DrmInv, Older
  <2>4. lost => lost'
    BY <2>1 DEF lost
  <2> QED
    BY <2>2, <2>3, <2>4, PanelQuiet
<1>5. CASE queued # None /\ ok
  <2>1. pending' = queued /\ busy' = freed /\ dead' = dead /\ addr' = queued
    BY <1>1, <1>5 DEF Drm!flip
  <2>2. Shared' /\ \A b, c : Older(b, c)' <=> Older(b, c)
    BY <1>0, <1>1, <1>2, <1>5, <2>1, QuietShared DEF Shared
  <2>3. DrmInv'
    BY <1>0, <1>1, <1>2, <1>3, <1>5, <2>1, <2>2 DEF DrmInv, Older
  <2>4. lost => lost'
    BY <2>1 DEF lost
  <2> QED
    BY <2>2, <2>3, <2>4, PanelQuiet
<1>6. CASE queued # None /\ ~ok
  <2>1. pending' = None /\ busy' = [freed EXCEPT ![queued] = FALSE] /\ dead' = TRUE /\ addr' = addr
    BY <1>1, <1>6 DEF Drm!flip
  <2>2. busy' \in [Buf -> BOOLEAN] /\ busy'[pending]
    BY <1>2, <1>3, <1>6, <2>1
  <2>3. Shared' /\ \A b, c : Older(b, c)' <=> Older(b, c)
    BY <1>0, <1>1, <1>2, <2>1, QuietShared DEF Shared
  <2>4. DrmInv'
    BY <1>0, <1>1, <1>2, <2>1, <2>2, <2>3 DEF DrmInv, Older
  <2>5. lost => lost'
    BY <2>1 DEF lost
  <2> QED
    BY <2>3, <2>4, <2>5, PanelQuiet
<1> QED
  BY <1>4, <1>5, <1>6

\* The caller's frames, flushes and waits, and the kernel's refresh.
LEMMA DrmStep ==
  ASSUME Shared, DrmInv, sink = "kms", DrmOnly, Drm!Next
  PROVE  Shared' /\ DrmInv' /\ PanelStep
<1> USE NoneIsNone
<1>0. /\ UNCHANGED <<sink, displayed, latched, stop>> /\ Buf' = Buf /\ MaybeBuf' = MaybeBuf
      /\ None \notin Buf /\ Drm!Buf = Buf /\ MaybeBuf = Buf \cup {None}
  BY SameBufs, BufsFacts DEF DrmOnly, MaybeBuf, Buf, Bufs, Drm!Buf
<1>e. emu # "closed" /\ event => pending # None
  BY DEF DrmInv
\* Only where the caller is, and dead, may change.
<1>1. ASSUME UNCHANGED <<busy, cur, on_screen, pending, queued, event, addr, scan, frame, content>>,
             emu # "closed", emu' # "closed", dead' \in {dead, TRUE},
             emu' \in {"begin", "draw"} => frame < MaxFrames, emu' # "draw",
             cur # None => dead' /\ emu' \in {"idle", "lost", "flush", "closing"},
             emu \in {"stopping", "join", "closing"} => emu' = emu
      PROVE  Shared' /\ DrmInv' /\ PanelStep
  <2>1. Shared' /\ \A b, c : Older(b, c)' <=> Older(b, c)
    BY <1>0, <1>1, QuietShared DEF Shared
  <2>2. DrmInv'
    BY <1>0, <1>1, <2>1 DEF DrmInv
  <2>3. lost => lost'
    BY <1>1 DEF lost
  <2> QED
    BY <1>1, <2>1, <2>2, <2>3, PanelQuiet
<1>2. CASE Drm!CallBegin
  <2>0. emu = "idle" /\ frame < MaxFrames /\ UNCHANGED <<cur, scan, frame, content>>
    BY <1>2 DEF Drm!CallBegin, Drm!frameVars
  <2>1. CASE dead /\ emu' = "lost" /\ Drm!unpumped /\ UNCHANGED dead
    BY <1>1, <2>0, <2>1 DEF Drm!unpumped, Shared
  <2>2. CASE ~dead /\ ~event /\ emu' = "begin" /\ Drm!unpumped /\ UNCHANGED dead
    <3>1. cur = None
      BY <2>0, <2>2 DEF DrmInv
    <3> QED
      BY <1>1, <2>0, <2>2, <3>1 DEF Drm!unpumped, Shared
  <2>3. CASE ~dead /\ emu' = "begin" /\ \E ok \in BOOLEAN : Drm!retire(ok)
    <3>1. PICK ok \in BOOLEAN : Drm!retire(ok)
      BY <2>3
    <3>2. cur = None /\ pending # None
      BY <1>e, <2>0, <2>3, <3>1 DEF DrmInv, Drm!retire
    <3> QED
      BY <2>0, <2>3, <3>1, <3>2, RetireStep
  <2> QED
    BY <1>2, <2>1, <2>2, <2>3 DEF Drm!CallBegin
<1>3. CASE Drm!Take
  <2>1. /\ UNCHANGED <<busy, on_screen, pending, queued, event, addr, dead, scan, frame, content>>
        /\ emu = "begin" /\ emu' = "draw" /\ Drm!Free # {} /\ cur' = Drm!Lowest(Drm!Free)
    BY <1>3 DEF Drm!Take, Drm!unpumped, Drm!frameVars
  <2>2. Drm!Free \subseteq Buf
    BY <1>0 DEF Drm!Free
  <2>3. cur' \in Drm!Free
    BY <2>1, <2>2, LowestIn
  <2>4. cur' \in Buf /\ ~busy[cur'] /\ cur' # None
    BY <1>0, <2>3 DEF Drm!Free
  <2>5. Shared' /\ \A b, c : Older(b, c)' <=> Older(b, c)
    BY <1>0, <2>1, <2>4, QuietShared DEF Shared
  <2>6. DrmInv'
    BY <1>0, <2>1, <2>4, <2>5 DEF DrmInv
  <2>7. lost => lost'
    BY <2>1 DEF lost
  <2> QED
    BY <2>1, <2>5, <2>6, <2>7, PanelQuiet
<1>4. CASE Drm!BeginPump
  <2>1. PICK ok \in BOOLEAN : Drm!retire(ok)
    BY <1>4 DEF Drm!BeginPump
  <2>2. /\ emu = "begin" /\ pending # None /\ emu' \in {"lost", "begin"} /\ UNCHANGED <<cur, scan, frame, content>>
        /\ frame < MaxFrames /\ cur = None
    BY <1>4 DEF Drm!BeginPump, Drm!frameVars, Shared, DrmInv
  <2> QED
    BY <2>1, <2>2, RetireStep
<1>5. CASE Drm!BeginFails
  <2>1. /\ UNCHANGED <<busy, cur, on_screen, pending, queued, event, addr, scan, frame, content>>
        /\ emu = "begin" /\ emu' = "lost" /\ dead' = TRUE /\ cur = None
    BY <1>5 DEF Drm!BeginFails, Drm!unpumped, Drm!frameVars, DrmInv
  <2> QED
    BY <1>1, <2>1
<1>6. CASE Drm!EndFrame
  <2> DEFINE was == [busy EXCEPT ![cur] = TRUE]
  <2>1. /\ UNCHANGED <<on_screen, event, scan>> /\ ~dead
        /\ emu = "draw" /\ emu' = "idle" /\ cur' = None
        /\ frame' = frame + 1 /\ content' = [content EXCEPT ![cur] = frame + 1]
    BY <1>6 DEF Drm!EndFrame
  <2>2. IF pending # None THEN queued' = cur /\ busy' = was /\ UNCHANGED <<pending, addr, dead>>
        ELSE UNCHANGED queued /\ \E ok \in BOOLEAN : Drm!flip(cur, ok, was)
    BY <1>6 DEF Drm!EndFrame
  <2>3. /\ cur \in Buf /\ ~busy[cur] /\ on_screen \in Buf /\ cur # on_screen /\ cur # pending /\ cur # queued
        /\ cur # scan /\ cur # addr /\ busy \in [Buf -> BOOLEAN] /\ busy[on_screen]
    BY <1>0, <2>1 DEF DrmInv, Shared
  <2>4. was \in [Buf -> BOOLEAN] /\ \A b \in Buf : was[b] = (IF b = cur THEN TRUE ELSE busy[b])
    BY <2>3
  <2>5. /\ busy' \in [Buf -> BOOLEAN] /\ (\A b \in Buf : b # cur => busy'[b] = busy[b]) /\ dead' \in BOOLEAN
        /\ \/ queued' = cur /\ pending # None /\ pending' = pending /\ addr' = addr /\ busy'[cur]
           \/ pending = None /\ queued' = queued /\ pending' = cur /\ addr' = cur /\ busy'[cur]
           \/ pending = None /\ queued' = queued /\ pending' = None /\ addr' = addr
    <3> HIDE DEF was
    <3>1. CASE pending # None
      BY <2>1, <2>2, <2>3, <2>4, <3>1 DEF Shared
    <3>2. CASE pending = None
      <4>1. PICK ok \in BOOLEAN : Drm!flip(cur, ok, was)
        BY <2>2, <3>2
      <4>2. CASE ok
        BY <2>1, <2>2, <2>3, <2>4, <3>2, <4>1, <4>2 DEF Drm!flip, Shared
      <4>3. CASE ~ok
        BY <2>1, <2>2, <2>3, <2>4, <3>2, <4>1, <4>3 DEF Drm!flip, Shared
      <4> QED
        BY <4>2, <4>3
    <3> QED
      BY <3>1, <3>2
  <2> HIDE DEF was
  <2>6. /\ Shared'
        /\ \A b \in Buf : b # cur => content'[b] = content[b] /\ content'[b] < content'[cur]
    BY <1>0, <2>1, <2>3, <2>5, DrawnShared DEF Shared
  <2>7. Older(on_screen, pending)' /\ Older(pending, queued)'
    BY <1>0, <2>1, <2>3, <2>5, <2>6 DEF DrmInv, Shared, Older
  <2>8. DrmInv'
    BY <1>0, <2>1, <2>3, <2>5, <2>7 DEF DrmInv, Shared
  <2>9. lost => lost'
    BY <2>1 DEF lost
  <2> QED
    BY <2>1, <2>3, <2>6, <2>8, <2>9, PanelDraw DEF Shared
<1>7. CASE Drm!EndFrameDead
  <2>1. /\ UNCHANGED <<busy, cur, on_screen, pending, queued, event, addr, dead, scan, frame, content>>
        /\ emu = "draw" /\ emu' = "idle" /\ dead
    BY <1>7 DEF Drm!EndFrameDead, Drm!unpumped, Drm!frameVars
  <2> QED
    BY <1>1, <2>1
<1>8. CASE Drm!CallFlush \/ Drm!FlushTimeout \/ Drm!FlushDone \/ Drm!Close
  <2>1. /\ UNCHANGED <<busy, cur, on_screen, pending, queued, event, addr, scan, frame, content>>
        /\ emu \in {"idle", "lost", "flush"} /\ emu' \in {"idle", "flush", "closing"} /\ dead' \in {dead, TRUE}
    BY <1>8 DEF Drm!CallFlush, Drm!FlushTimeout, Drm!FlushDone, Drm!Close, Drm!unpumped, Drm!frameVars
  <2>2. cur # None => dead'
    <3>1. cur # None => dead
      BY <2>1 DEF DrmInv
    <3>2. dead => dead'
      BY <2>1
    <3> QED
      BY <3>1, <3>2
  <2> QED
    BY <1>1, <2>1, <2>2
<1>9. CASE Drm!WaitPump
  <2>1. PICK ok \in BOOLEAN : Drm!retire(ok)
    BY <1>9 DEF Drm!WaitPump
  <2>2. /\ emu \in {"flush", "closing"} /\ pending # None /\ ~dead /\ UNCHANGED <<emu, cur, scan, frame, content>>
        /\ cur = None
    BY <1>9 DEF Drm!WaitPump, Drm!Waiting, Drm!frameVars, DrmInv
  <2> QED
    BY <2>1, <2>2, RetireStep
<1>10. CASE Drm!CloseDone
  <2>1. /\ emu = "closing" /\ emu' = "closed" /\ dead' = FALSE /\ busy' = [b \in Buf |-> FALSE]
        /\ cur' = None /\ on_screen' = None /\ pending' = None /\ queued' = None
        /\ UNCHANGED <<event, addr, scan, frame, content>>
    BY <1>0, <1>10 DEF Drm!CloseDone, Drm!frameVars
  <2>2. Shared' /\ \A b, c : Older(b, c)' <=> Older(b, c)
    BY <1>0, <2>1, QuietShared DEF Shared
  <2>3. busy' \in [Buf -> BOOLEAN]
    BY <2>1
  <2>4. DrmInv'
    BY <1>0, <2>1, <2>2, <2>3 DEF DrmInv, Older
  <2>5. lost => lost'
    BY <2>1 DEF lost
  <2> QED
    BY <2>1, <2>2, <2>4, <2>5, PanelQuiet
<1>11. CASE Drm!Refresh
  <2>1. /\ UNCHANGED <<busy, cur, on_screen, pending, queued, dead, emu, addr, frame, content>>
        /\ emu # "closed" /\ scan # addr /\ scan' = addr /\ event' = TRUE
    BY <1>11 DEF Drm!Refresh, Drm!frameVars
  <2>2. Shared' /\ \A b, c : Older(b, c)' <=> Older(b, c)
    BY <1>0, <2>1, QuietShared DEF Shared
  <2>3. pending # None /\ addr = pending /\ scan = on_screen /\ on_screen # None
    BY <2>1 DEF DrmInv
  <2>4. content[scan] < content[addr]
    BY <2>3 DEF DrmInv, Older
  <2>5. DrmInv'
    BY <1>0, <2>1, <2>2, <2>3 DEF DrmInv
  <2> QED
    BY <2>1, <2>2, <2>4, <2>5, PanelShow
<1> QED
  BY <1>2, <1>3, <1>4, <1>5, <1>6, <1>7, <1>8, <1>9, <1>10, <1>11 DEF Drm!Next, Drm!InCall

-----------------------------------------------------------------------------
(* PresentThread.                                                          *)

\* What is outstanding when the counters are equal, and when they are not.
LEMMA NoneOutstanding == ASSUME GpuInv, done >= posted PROVE Gpu!Outstanding = {} /\ jobs = <<>> /\ running = <<>>
<1>1. posted \in Nat /\ done \in Nat /\ Len(running) \in Nat /\ Len(jobs) \in Nat
      /\ posted = done + Len(running) + Len(jobs) /\ jobs \in Seq(Job) /\ running \in Seq(Job)
  BY DEF GpuInv
<1>2. Len(running) = 0 /\ Len(jobs) = 0
  BY <1>1
<1>3. jobs = <<>> /\ running = <<>>
  BY <1>1, <1>2
<1> QED
  BY <1>3 DEF Gpu!Outstanding

\* The queue and the stage do not change, and what is marked as over is.
LEMMA GpuCallKept ==
  ASSUME GpuInv, UNCHANGED <<jobs, posted, done, worker, running, stage, stage_job>>, quit' \in BOOLEAN,
         ticket' \in [Windows -> Nat], got' \subseteq Windows, todo' \subseteq Windows,
         main' # "post", main' \in {"sync", "stage"} => posted < MaxJobs,
         main' \in {"touch", "use"} => \E w \in Windows : todo' = {w},
         \A w \in Windows : ticket'[w] = ticket[w] \/ done >= ticket[w],
         main' = "use" => \A w \in todo' : done >= ticket[w]
  PROVE  GpuInv'
<1>1. Gpu!Outstanding' = Gpu!Outstanding
  BY DEF Gpu!Outstanding
<1>2. \A j \in Gpu!Outstanding : \A w \in j.windows : ticket[w] = posted
  BY DEF GpuInv
<1>3. \A j \in Gpu!Outstanding : j.windows \subseteq Windows /\ posted > done
  <2>1. \A j \in Gpu!Outstanding : j \in Job
    BY DEF GpuInv, Gpu!Outstanding
  <2>2. posted \in Nat /\ done \in Nat
    BY DEF GpuInv
  <2>3. Gpu!Outstanding # {} => posted > done
    BY <2>2, NoneOutstanding
  <2> QED
    BY <2>1, <2>3 DEF Job
<1>4. posted \in Nat /\ done \in Nat
  BY DEF GpuInv
<1>5. \A j \in Gpu!Outstanding' : \A w \in j.windows : ticket'[w] = posted'
  BY <1>1, <1>2, <1>3, <1>4
<1>6. StageIntact'
  BY <1>1 DEF GpuInv, StageIntact
<1>7. WindowExclusive'
  <2> SUFFICES ASSUME main' = "use", NEW j \in Gpu!Outstanding, NEW w \in todo', w \in j.windows PROVE FALSE
    BY <1>1 DEF WindowExclusive
  <2> QED
    BY <1>2, <1>3, <1>4
<1> QED
  BY <1>5, <1>6, <1>7 DEF GpuInv

\* Nothing of it changes but who sleeps.
LEMMA GpuKept ==
  ASSUME GpuInv, UNCHANGED <<jobs, posted, done, quit, worker, running, stage, stage_job, ticket, main, todo, got>>
  PROVE  GpuInv'
<1>1. Gpu!Outstanding' = Gpu!Outstanding
  BY DEF Gpu!Outstanding
<1>2. StageIntact' /\ WindowExclusive' /\ \A j \in Gpu!Outstanding' : \A w \in j.windows : ticket'[w] = posted'
  BY <1>1 DEF GpuInv, StageIntact, WindowExclusive
<1> QED
  BY <1>2 DEF GpuInv

\* The emulation thread's calls and the present thread's loop.
LEMMA GpuStep == ASSUME GpuInv, Gpu!Next PROVE GpuInv'
<1> USE DEF Gpu!queueVars, Gpu!stageVars
<1>0. /\ posted \in Nat /\ done \in Nat /\ ticket \in [Windows -> Nat] /\ got \subseteq Windows
      /\ todo \subseteq Windows /\ quit \in BOOLEAN /\ MaxJobs \in Nat
  BY BoundsAssumption DEF GpuInv
<1>1. CASE Gpu!WaitSleep
  <2>1. UNCHANGED <<jobs, posted, done, quit, worker, running, stage, stage_job, ticket, main, todo, got>>
    BY <1>1 DEF Gpu!WaitSleep
  <2> QED
    BY <2>1, GpuKept
<1>2. CASE Gpu!DrawAsync
  <2>1. /\ UNCHANGED <<jobs, posted, done, quit, worker, running, stage, stage_job, ticket>>
        /\ posted < MaxJobs /\ main' = "sync" /\ got' = {} /\ todo' \subseteq Windows
    BY <1>2 DEF Gpu!DrawAsync
  <2> QED
    BY <1>0, <2>1, GpuCallKept
<1>3. CASE Gpu!SyncWindow
  <2>1. PICK w \in todo :
          /\ main = "sync" /\ done >= ticket[w] /\ ticket' = [ticket EXCEPT ![w] = 0] /\ todo' = todo \ {w}
          /\ got' \in {got, got \cup {w}} /\ main' \in {"sync", "idle", "stage"}
          /\ UNCHANGED <<jobs, posted, done, quit, worker, running, stage, stage_job>>
    BY <1>3 DEF Gpu!SyncWindow, Gpu!Over
  <2>2. posted < MaxJobs
    BY <2>1 DEF GpuInv
  <2>3. ticket' \in [Windows -> Nat] /\ \A v \in Windows : ticket'[v] = ticket[v] \/ done >= ticket[v]
    BY <1>0, <2>1
  <2>4. got' \subseteq Windows /\ todo' \subseteq Windows
    BY <1>0, <2>1
  <2> QED
    BY <1>0, <2>1, <2>2, <2>3, <2>4, GpuCallKept
<1>4. CASE Gpu!Stage
  <2>1. /\ main = "stage" /\ done >= stage_job /\ stage' = posted + 1 /\ main' = "post"
        /\ UNCHANGED <<jobs, posted, done, quit, worker, running, stage_job, ticket, todo, got>>
    BY <1>4 DEF Gpu!Stage, Gpu!Over
  <2>2. done >= posted /\ posted < MaxJobs
    BY <2>1 DEF GpuInv
  <2>3. Gpu!Outstanding = {}
    BY <2>2, NoneOutstanding
  <2>4. Gpu!Outstanding' = {}
    BY <2>1, <2>3 DEF Gpu!Outstanding
  <2>5. done = posted
    BY <2>2, NoneOutstanding DEF GpuInv
  <2> QED
    BY <1>0, <2>1, <2>2, <2>4, <2>5 DEF GpuInv, StageIntact, WindowExclusive
<1>5. CASE Gpu!PostJob
  <2> DEFINE j == [windows |-> got, frame |-> stage]
  <2>1. /\ main = "post" /\ jobs' = Append(jobs, j) /\ posted' = posted + 1 /\ stage_job' = posted + 1
        /\ ticket' = [w \in Windows |-> IF w \in got THEN posted + 1 ELSE ticket[w]]
        /\ worker' = (IF worker = "none" THEN "check" ELSE worker) /\ main' = "idle" /\ got' = {}
        /\ UNCHANGED <<done, quit, running, stage, todo>>
    BY <1>5 DEF Gpu!PostJob
  <2>2. done = posted /\ posted < MaxJobs
    BY <2>1 DEF GpuInv
  <2>3. jobs = <<>> /\ running = <<>>
    BY <1>0, <2>2, NoneOutstanding
  <2>4. j \in Job /\ j.windows = got /\ j.frame = stage
    BY <1>0 DEF Job, GpuInv
  <2> HIDE DEF j
  <2>5. jobs' \in Seq(Job) /\ Len(jobs') = 1 /\ jobs'[1] = j /\ DOMAIN jobs' = {1} /\ running' = <<>>
    BY <2>1, <2>3, <2>4
  <2>6. Gpu!Outstanding' = {j}
    BY <2>5 DEF Gpu!Outstanding
  <2>7. ticket' \in [Windows -> Nat] /\ \A w \in got : ticket'[w] = posted'
    BY <1>0, <2>1
  <2>8. StageIntact' /\ \A x \in Gpu!Outstanding' : \A w \in x.windows : ticket'[w] = posted'
    BY <2>1, <2>4, <2>6, <2>7 DEF StageIntact
  <2>9. Len(running') = (IF worker' = "run" THEN 1 ELSE 0) /\ running' \in Seq(Job) /\ Len(running') = 0
    BY <2>1, <2>3 DEF GpuInv
  <2>10. posted' \in 0 .. MaxJobs /\ posted' = done' + Len(running') + Len(jobs')
    BY <1>0, <2>1, <2>2, <2>5, <2>9
  <2> QED
    BY <1>0, <2>1, <2>5, <2>7, <2>8, <2>9, <2>10 DEF GpuInv, WindowExclusive
<1>6. CASE Gpu!Touch
  <2>1. /\ UNCHANGED <<jobs, posted, done, quit, worker, running, stage, stage_job, ticket, got>>
        /\ main' = "touch" /\ \E w \in Windows : todo' = {w}
    BY <1>6 DEF Gpu!Touch
  <2> QED
    BY <1>0, <2>1, GpuCallKept
<1>7. CASE Gpu!Use
  <2>1. PICK w \in todo :
          /\ main = "touch" /\ done >= ticket[w] /\ ticket' = [ticket EXCEPT ![w] = 0] /\ main' = "use"
          /\ UNCHANGED <<jobs, posted, done, quit, worker, running, stage, stage_job, todo, got>>
    BY <1>7 DEF Gpu!Use, Gpu!Over
  <2>2. ticket' \in [Windows -> Nat] /\ \A v \in Windows : ticket'[v] = ticket[v] \/ done >= ticket[v]
    BY <1>0, <2>1
  <2>3. todo' = {w} /\ w \in Windows
    BY <1>0, <2>1 DEF GpuInv
  <2> QED
    BY <1>0, <2>1, <2>2, <2>3, GpuCallKept
<1>8. CASE Gpu!Used \/ Gpu!Leave \/ Gpu!Quit \/ Gpu!QuitNotify \/ Gpu!Joined
  <2>1. /\ UNCHANGED <<jobs, posted, done, worker, running, stage, stage_job, ticket, got>>
        /\ main' \in {"idle", "leave", "out", "quit", "join"} /\ todo' \subseteq Windows /\ quit' \in BOOLEAN
    BY <1>0, <1>8 DEF Gpu!Used, Gpu!Leave, Gpu!Quit, Gpu!QuitNotify, Gpu!Joined
  <2> QED
    BY <1>0, <2>1, GpuCallKept
<1>9. CASE Gpu!LeaveWindow
  <2>1. PICK w \in todo :
          /\ main = "leave" /\ done >= ticket[w] /\ ticket' = [ticket EXCEPT ![w] = 0] /\ todo' = todo \ {w}
          /\ UNCHANGED <<jobs, posted, done, quit, worker, running, stage, stage_job, main, got>>
    BY <1>9 DEF Gpu!LeaveWindow, Gpu!Over
  <2>2. ticket' \in [Windows -> Nat] /\ \A v \in Windows : ticket'[v] = ticket[v] \/ done >= ticket[v]
    BY <1>0, <2>1
  <2> QED
    BY <1>0, <2>1, <2>2, GpuCallKept
<1>10. CASE Gpu!TakeJob
  <2>1. /\ worker = "check" /\ jobs # <<>> /\ running' = <<Head(jobs)>> /\ jobs' = Tail(jobs) /\ worker' = "run"
        /\ UNCHANGED <<posted, done, quit, stage, stage_job, ticket, main, todo, got>>
    BY <1>10 DEF Gpu!TakeJob
  <2>2. /\ jobs \in Seq(Job) /\ Len(running) = 0 /\ Len(jobs) \in Nat /\ Len(jobs) > 0
        /\ posted = done + Len(running) + Len(jobs)
    BY <2>1 DEF GpuInv
  <2>3. /\ jobs' \in Seq(Job) /\ running' \in Seq(Job) /\ Len(jobs') = Len(jobs) - 1 /\ Len(running') = 1
        /\ DOMAIN running' = {1} /\ running'[1] = jobs[1] /\ DOMAIN jobs = 1 .. Len(jobs)
        /\ DOMAIN jobs' = 1 .. Len(jobs) - 1 /\ \A i \in 1 .. Len(jobs) - 1 : jobs'[i] = jobs[i + 1]
    BY <2>1, <2>2
  <2>4. Gpu!Outstanding' \subseteq Gpu!Outstanding
    <3>0. \A i \in DOMAIN jobs' : i + 1 \in DOMAIN jobs /\ jobs'[i] = jobs[i + 1]
      BY <2>2, <2>3
    <3>1. \A i \in DOMAIN jobs' : jobs'[i] \in Gpu!Outstanding
      BY <3>0 DEF Gpu!Outstanding
    <3>2. \A i \in DOMAIN running' : running'[i] \in Gpu!Outstanding
      BY <2>2, <2>3 DEF Gpu!Outstanding
    <3>3. Gpu!Outstanding' = {jobs'[i] : i \in DOMAIN jobs'} \cup {running'[i] : i \in DOMAIN running'}
      BY DEF Gpu!Outstanding
    <3> QED
      BY <3>1, <3>2, <3>3
  <2>5. posted' = done' + Len(running') + Len(jobs')
    BY <1>0, <2>1, <2>2, <2>3
  <2>6. StageIntact' /\ WindowExclusive' /\ \A x \in Gpu!Outstanding' : \A w \in x.windows : ticket'[w] = posted'
    BY <2>1, <2>4 DEF GpuInv, StageIntact, WindowExclusive
  <2> QED
    BY <2>1, <2>3, <2>5, <2>6 DEF GpuInv
<1>11. CASE Gpu!WorkerRest \/ Gpu!WorkerGone
  <2>1. /\ UNCHANGED <<jobs, posted, done, quit, running, stage, stage_job, ticket, main, todo, got>>
        /\ worker = "check" /\ worker' \in {"check", "gone"}
    BY <1>11 DEF Gpu!WorkerRest, Gpu!WorkerGone
  <2> QED
    BY <2>1 DEF GpuInv, StageIntact, WindowExclusive, Gpu!Outstanding
<1>12. CASE Gpu!JobDone
  <2>1. /\ worker = "run" /\ running' = <<>> /\ done' = done + 1 /\ worker' = "check"
        /\ UNCHANGED <<jobs, posted, quit, stage, stage_job, ticket, main, todo, got>>
    BY <1>12 DEF Gpu!JobDone
  <2>2. Len(running) = 1 /\ Len(jobs) \in Nat /\ posted = done + Len(running) + Len(jobs)
    BY <2>1 DEF GpuInv
  <2>3. Len(running') = 0 /\ running' \in Seq(Job) /\ DOMAIN running' = {} /\ posted' = done' + Len(running') + Len(jobs')
    BY <1>0, <2>1, <2>2
  <2>4. main # "post"
    <3>1. done # posted
      BY <1>0, <2>2
    <3> QED
      BY <3>1 DEF GpuInv
  <2>5. Gpu!Outstanding' \subseteq Gpu!Outstanding
    BY <2>1, <2>3 DEF Gpu!Outstanding
  <2>6. StageIntact' /\ WindowExclusive' /\ \A x \in Gpu!Outstanding' : \A w \in x.windows : ticket'[w] = posted'
    BY <2>1, <2>5 DEF GpuInv, StageIntact, WindowExclusive
  <2> QED
    BY <1>0, <2>1, <2>3, <2>4, <2>6 DEF GpuInv
<1> QED
  BY <1>1, <1>2, <1>3, <1>4, <1>5, <1>6, <1>7, <1>8, <1>9, <1>10, <1>11, <1>12 DEF Gpu!Next, Gpu!InCall, Gpu!Worker

-----------------------------------------------------------------------------
(* The whole.                                                              *)

\* A step of one sink leaves the others alone.
LEMMA SinkKept ==
  ASSUME Shared, SinkInv, UNCHANGED <<sink, outVars>> PROVE Shared' /\ SinkInv' /\ PanelStep
<1>0. Buf' = Buf /\ MaybeBuf' = MaybeBuf
  BY SameBufs
<1>1. UNCHANGED <<sink, cur, frame, content, scan, addr, emu, dead, pending, displayed, latched, queued, pres,
                  asleep, stop, tick, busy, on_screen, event>>
  BY DEF outVars
<1>2. Shared' /\ \A b, c : Older(b, c)' <=> Older(b, c)
  BY <1>1, QuietShared DEF Shared
<1>3. FbdevInv => FbdevInv'
  BY <1>1, <1>2 DEF FbdevInv
<1>4. DispInv => DispInv'
  BY <1>1, <1>2 DEF DispInv
<1>5. DrmInv => DrmInv'
  BY <1>0, <1>1, <1>2 DEF DrmInv
<1>6. SinkInv'
  BY <1>1, <1>3, <1>4, <1>5 DEF SinkInv
<1>7. lost => lost'
  BY <1>1 DEF lost
<1> QED
  BY <1>1, <1>2, <1>6, <1>7, PanelQuiet

\* open and the constructors establish the invariant, and the blank panel.
LEMMA InitInv == Init => Inv /\ P!Init
<1> SUFFICES ASSUME Init PROVE Inv /\ P!Init
  OBVIOUS
<1> USE NoneIsNone
<1>0. /\ None \notin Buf /\ MaybeBuf = Buf \cup {None} /\ 0 \in Buf
  BY BufsFacts DEF MaybeBuf
<1>1. ASSUME sink = "fbdev" PROVE Shared /\ SinkInv /\ P!Init
  <2>1. /\ Fbdev!Init /\ queued = None /\ on_screen = None /\ Fbdev!Buf = Buf
    BY <1>1 DEF Init, Fbdev!Buf, Buf, Bufs
  <2>a. frame = 0 /\ content = [b \in Buf |-> 0]
    BY <2>1 DEF Fbdev!Init
  <2>b. frame \in 0 .. MaxFrames /\ content \in [Buf -> 0 .. frame]
    BY <2>a, BoundsAssumption
  <2>2. Shared
    BY <1>0, <1>1, <2>1, <2>b DEF Init, Shared, Fbdev!Init
  <2>3. FbdevInv
    BY <1>0, <1>1, <2>1 DEF FbdevInv, Fbdev!Init, Older
  <2>4. frame = 0 /\ content[scan] = 0 /\ lost = FALSE
    BY <1>0, <2>1 DEF Fbdev!Init, lost
  <2> QED
    BY <1>1, <2>2, <2>3, <2>4 DEF SinkInv, P!Init
<1>2. ASSUME sink = "disp" PROVE Shared /\ SinkInv /\ P!Init
  <2>1. /\ Disp!Init /\ dead = FALSE /\ on_screen = None /\ Disp!Buf = Buf
    BY <1>2 DEF Init, Disp!Buf, Buf, Bufs
  <2>a. frame = 0 /\ content = [b \in Buf |-> 0]
    BY <2>1 DEF Disp!Init
  <2>b. frame \in 0 .. MaxFrames /\ content \in [Buf -> 0 .. frame]
    BY <2>a, BoundsAssumption
  <2>2. Shared
    BY <1>0, <1>2, <2>1, <2>b DEF Init, Shared, Disp!Init
  <2>3. DispInv
    BY <1>0, <1>2, <2>1 DEF DispInv, Disp!Init, Older
  <2>4. frame = 0 /\ content[scan] = 0 /\ lost = FALSE
    BY <1>0, <2>1 DEF Disp!Init, lost
  <2> QED
    BY <1>2, <2>2, <2>3, <2>4 DEF SinkInv, P!Init
<1>3. ASSUME sink \notin {"fbdev", "disp"} PROVE Shared /\ SinkInv /\ P!Init
  <2>1. /\ Drm!Init /\ displayed = None /\ latched = None /\ stop = FALSE /\ Drm!Buf = Buf
    BY <1>3 DEF Init, Drm!Buf, Buf, Bufs
  <2>a. frame = 0 /\ content = [b \in Buf |-> 0]
    BY <2>1 DEF Drm!Init
  <2>b. frame \in 0 .. MaxFrames /\ content \in [Buf -> 0 .. frame]
    BY <2>a, BoundsAssumption
  <2>2. Shared
    BY <1>0, <1>3, <2>1, <2>b DEF Init, Shared, Drm!Init
  <2>3. busy \in [Buf -> BOOLEAN] /\ busy[0]
    BY <1>0, <2>1 DEF Drm!Init
  <2>4. DrmInv
    BY <1>0, <1>3, <2>1, <2>3 DEF DrmInv, Drm!Init, Older
  <2>5. frame = 0 /\ content[scan] = 0 /\ lost = FALSE
    BY <1>0, <2>1 DEF Drm!Init, lost
  <2> QED
    BY <1>3, <2>2, <2>4, <2>5 DEF SinkInv, P!Init
<1>4. GpuInv
  <2>1. Gpu!Init
    BY DEF Init
  <2>2. Gpu!Outstanding = {}
    BY <2>1 DEF Gpu!Init, Gpu!Outstanding
  <2>3. jobs = <<>> /\ running = <<>> /\ posted = 0 /\ done = 0 /\ worker = "none"
    BY <2>1 DEF Gpu!Init
  <2>4. /\ jobs \in Seq(Job) /\ running \in Seq(Job) /\ Len(jobs) = 0 /\ Len(running) = 0
        /\ posted \in 0 .. MaxJobs
    BY <2>3, BoundsAssumption
  <2>5. ticket \in [Windows -> Nat]
    BY <2>1 DEF Gpu!Init
  <2>6. StageIntact /\ WindowExclusive /\ \A j \in Gpu!Outstanding : \A w \in j.windows : ticket[w] = posted
    BY <2>2 DEF StageIntact, WindowExclusive
  <2>7. /\ posted = done + Len(running) + Len(jobs) /\ Len(running) = (IF worker = "run" THEN 1 ELSE 0)
        /\ done \in Nat /\ jobs \in Seq(Job) /\ running \in Seq(Job) /\ posted \in 0 .. MaxJobs
    BY <2>3, <2>4
  <2>8. /\ quit \in BOOLEAN /\ stage \in Nat /\ stage_job = posted /\ got \subseteq Windows /\ todo \subseteq Windows
        /\ main = "idle"
    BY <2>1 DEF Gpu!Init
  <2> QED
    BY <2>5, <2>6, <2>7, <2>8 DEF GpuInv
<1>5. Shared /\ SinkInv /\ P!Init
  BY <1>1, <1>2, <1>3
<1> QED
  BY <1>4, <1>5 DEF Inv

\* Every step of a sink or of the present thread keeps the invariant, and is a
\* step of the panel or none.
LEMMA NextInv == Inv /\ [Next]_vars => Inv' /\ PanelStep
<1> SUFFICES ASSUME Inv, [Next]_vars PROVE Inv' /\ PanelStep
  OBVIOUS
<1>0. Shared /\ SinkInv /\ GpuInv
  BY DEF Inv
<1>1. CASE FbdevOnly /\ Fbdev!Next
  <2>1. sink = "fbdev" /\ sink' = sink /\ UNCHANGED gpuVars
    BY <1>1 DEF FbdevOnly
  <2>2. FbdevInv
    BY <1>0, <2>1 DEF SinkInv
  <2>3. Shared' /\ FbdevInv' /\ PanelStep
    BY <1>0, <1>1, <2>1, <2>2, FbdevStep
  <2>4. GpuInv'
    BY <1>0, <2>1, GpuKept DEF gpuVars
  <2> QED
    BY <2>1, <2>3, <2>4 DEF Inv, SinkInv
<1>2. CASE DispOnly /\ Disp!Next
  <2>1. sink = "disp" /\ sink' = sink /\ UNCHANGED gpuVars
    BY <1>2 DEF DispOnly
  <2>2. DispInv
    BY <1>0, <2>1 DEF SinkInv
  <2>3. Shared' /\ DispInv' /\ PanelStep
    BY <1>0, <1>2, <2>1, <2>2, DispStep
  <2>4. GpuInv'
    BY <1>0, <2>1, GpuKept DEF gpuVars
  <2> QED
    BY <2>1, <2>3, <2>4 DEF Inv, SinkInv
<1>3. CASE DrmOnly /\ Drm!Next
  <2>1. sink = "kms" /\ sink' = sink /\ UNCHANGED gpuVars
    BY <1>3 DEF DrmOnly
  <2>2. DrmInv
    BY <1>0, <2>1 DEF SinkInv
  <2>3. Shared' /\ DrmInv' /\ PanelStep
    BY <1>0, <1>3, <2>1, <2>2, DrmStep
  <2>4. GpuInv'
    BY <1>0, <2>1, GpuKept DEF gpuVars
  <2> QED
    BY <2>1, <2>3, <2>4 DEF Inv, SinkInv
<1>4. CASE GpuOnly /\ Gpu!Next
  <2>1. UNCHANGED <<sink, outVars>>
    BY <1>4 DEF GpuOnly
  <2>2. Shared' /\ SinkInv' /\ PanelStep
    BY <1>0, <2>1, SinkKept
  <2>3. GpuInv'
    BY <1>0, <1>4, GpuStep
  <2> QED
    BY <2>2, <2>3 DEF Inv
<1>5. CASE UNCHANGED vars
  <2>1. UNCHANGED <<sink, outVars>> /\ UNCHANGED gpuVars
    BY <1>5 DEF vars
  <2>2. Shared' /\ SinkInv' /\ PanelStep
    BY <1>0, <2>1, SinkKept
  <2>3. GpuInv'
    BY <1>0, <2>1, GpuKept DEF gpuVars
  <2> QED
    BY <2>2, <2>3 DEF Inv
<1> QED
  BY <1>1, <1>2, <1>3, <1>4, <1>5 DEF Next, Ended

-----------------------------------------------------------------------------
(* The theorems.                                                           *)

\* The invariant holds throughout.
LEMMA Invariant == Spec => []Inv
BY InitInv, NextInv, PTL DEF Spec

\* Every sink hands out and shows buffers it has, and the present thread never
\* counts a job as done that was not posted.
THEOREM TypeCorrect == Spec => []TypeOK
<1>1. Inv => TypeOK
  <2> SUFFICES ASSUME Inv PROVE TypeOK
    OBVIOUS
  <2>1. DOMAIN content = Buf /\ MaybeBuf = Buf \cup {None}
    BY DEF Inv, Shared, MaybeBuf
  <2>2. posted \in 0 .. MaxJobs /\ done \in 0 .. posted /\ quit \in BOOLEAN
    <3>1. posted \in 0 .. MaxJobs /\ done \in Nat /\ quit \in BOOLEAN /\ posted = done + Len(running) + Len(jobs)
          /\ Len(running) \in Nat /\ Len(jobs) \in Nat
      BY DEF Inv, GpuInv
    <3> QED
      BY <3>1
  <2> QED
    BY <2>1, <2>2 DEF Inv, Shared, TypeOK
<1> QED
  BY <1>1, Invariant, PTL

\* No sink draws into the buffer on the panel or the one the panel turns to
\* next: begin_frame of FbdevOut and DrmOut and present of DispOut choose from
\* their own record of the buffers, which a failed pan, a refused flip or a
\* frame that overtakes another does not make wrong.
THEOREM DrawsApart == Spec => []NoTear
<1>1. Inv => NoTear
  <2> SUFFICES ASSUME Inv, cur # None PROVE cur \notin {scan, addr}
    BY DEF NoTear
  <2>1. CASE sink = "fbdev"
    BY <2>1 DEF Inv, SinkInv, FbdevInv
  <2>2. CASE sink = "disp"
    BY <2>2 DEF Inv, SinkInv, DispInv
  <2>3. CASE sink \notin {"fbdev", "disp"}
    BY <2>3 DEF Inv, SinkInv, DrmInv
  <2> QED
    BY <2>1, <2>2, <2>3
<1> QED
  BY <1>1, Invariant, PTL

\* The stage of draw_async holds the frame of every outstanding job, and a
\* window's presenter is used by one thread at a time.
THEOREM JobsApart == Spec => []JobsSafe
<1>1. Inv => JobsSafe
  BY DEF Inv, GpuInv, JobsSafe
<1> QED
  BY <1>1, Invariant, PTL

\* The safety part of ImplementsPanel: through any of the sinks the panel shows
\* whole frames, and never an older one after a newer one.
THEOREM FramesInOrder == Spec => P!Init /\ [][P!Next]_(P!vars)
<1>1. Inv /\ [Next]_vars => [P!Next]_(P!vars)
  BY NextInv DEF PanelStep
<1> QED
  BY <1>1, InitInv, Invariant, PTL DEF Spec

=============================================================================

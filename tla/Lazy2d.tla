----------------------------- MODULE Lazy2d -----------------------------
(***************************************************************************)
(* Lazy 2D rendering: the two 2D engines' display lines are drawn late, in  *)
(* batches and on worker threads, while the guest goes on writing registers *)
(* and VRAM (Gpu in src/src/core/gpu/gpu.cpp, the write journal in          *)
(* src/src/core/gpu/engine2d_regs.cpp).                                     *)
(*                                                                         *)
(* Data are version numbers: of an engine's registers, palette and OAM      *)
(* together, and of each VRAM bank.  A line's picture is the versions it    *)
(* was drawn from; the hardware draws line l from those at its HBlank,      *)
(* window edges from those at its scanline start.  Functions of Gpu are     *)
(* operators on its state g; the engines are 0 (A) and 1 (B).  Display      *)
(* capture, the display FIFO's data, frame skipping, save states and the 3D *)
(* line are left out.                                                       *)
(***************************************************************************)
EXTENDS Integers, Sequences

CONSTANTS SCREEN_H, SCANLINES_PER_FRAME,   \* 192, 263
          Long,                 \* 24: a run worth waking a worker for
          LAZY_BURST_LIMIT, LAZY_BURST_LINES, LAG_STORE_LIMIT, JOURNAL_CAP,
          Banks,                \* the VRAM banks
          Split,                \* engine B has a worker of its own
          Scaling,              \* lines are scaled into the frontend's buffer
          Abrupt,               \* the guest turns to display mode 2 at any time
          MaxWrites, MaxModes, MaxStores, MaxRemaps   \* bounds

Engines == {0, 1}
NO_STAMP == -1

\* Where a bank can be: an engine's windows, LCDC, with the ARM7, or a texture.
Places == {"A", "B", "LCDC", "ARM7", "texture"}
Window(e) == IF e = 0 THEN "A" ELSE "B"

ASSUME LinesAssumption == /\ {SCREEN_H, SCANLINES_PER_FRAME, Long} \subseteq Nat \ {0}
                          /\ SCREEN_H + 1 < SCANLINES_PER_FRAME
ASSUME LimitsAssumption == {LAZY_BURST_LIMIT, LAZY_BURST_LINES, LAG_STORE_LIMIT, JOURNAL_CAP}
                             \subseteq Nat \ {0}
ASSUME BanksAssumption == Banks # {}
ASSUME FlagsAssumption == {Split, Scaling, Abrupt} \subseteq BOOLEAN
ASSUME LazyBounds == {MaxWrites, MaxModes, MaxStores, MaxRemaps} \subseteq Nat

VARIABLES
  gpu,      \* Gpu's members
  n,        \* per engine, the number of register writes the guest has made
  mode,     \* engine A's display mode as the guest wrote it: 1 layers, 2 a VRAM bank
  vmap,     \* the live VRAM map
  ver,      \* per bank, its version
  due,      \* per engine, the picture of each line scanned out and not yet drawn
  edges,    \* per engine, the register version at this scanline's start
  unlike,   \* the lines drawn unlike the hardware's, or out of order
  remaps, modes   \* counters for the bounds

vars == <<gpu, n, mode, vmap, ver, due, edges, unlike, remaps, modes>>

Both(x) == [e \in Engines |-> x]

\* Gpu::reset.
Init == /\ gpu = [line |-> 0, hblank |-> FALSE, lazy |-> FALSE, lag |-> FALSE,
                  finished |-> FALSE, aborted |-> FALSE,
                  trap |-> FALSE, mask |-> {}, lcdc |-> FALSE, stores |-> 0,
                  per_line |-> Both(FALSE), burst |-> Both(FALSE), left |-> Both(0),
                  bursts |-> Both(0), next |-> Both(SCREEN_H),
                  inflight |-> Both(FALSE), job |-> Both(<<1, 0>>), job_map |-> Both(<<>>),
                  deferred |-> Both(FALSE), scale |-> FALSE, stale |-> FALSE,
                  journal |-> Both(<<>>), jn |-> Both(0),
                  eng |-> Both([n |-> 0, mode |-> 1, ordered |-> TRUE]),
                  drawn |-> {}]
        /\ n = Both(0) /\ mode = 1
        /\ vmap \in [Banks -> {"A", "B", "LCDC"}] /\ ver = [b \in Banks |-> 0]
        /\ \A b, c \in Banks : b # c => vmap[b] # vmap[c]
        /\ due = Both(<<>>) /\ edges = Both(0) /\ unlike = {}
        /\ remaps = 0 /\ modes = 0

----------------------------------------------------------------------
\* The journal.  An entry holds the version it leads to; "step" is 1 for a
\* write and 0 for a latch, which takes the registers as they are.

frontier(g) == IF g.hblank THEN g.line + 1 ELSE g.line

journal_stamp(g, e) == IF frontier(g) < SCREEN_H \/ g.inflight[e]
                       THEN 2 * frontier(g) + (IF g.hblank THEN 0 ELSE 1)
                       ELSE NO_STAMP

\* The length of the part of journal j that replay_to(stamp) applies.
Reach(j, stamp) ==
  LET past == {i \in DOMAIN j : j[i].stamp > stamp}
  IN IF past = {} THEN Len(j) ELSE (CHOOSE i \in past : \A k \in past : i <= k) - 1

\* The engine's state r after the first k entries of j.
Applied(r, j, k) ==
  IF k = 0 THEN r
  ELSE [n |-> j[k].n, mode |-> j[k].mode,
        ordered |-> /\ r.ordered
                    /\ \A i \in 1..k : j[i].n = j[i].step + IF i = 1 THEN r.n ELSE j[i-1].n]

replay_to(g, e, stamp) ==
  LET j == g.journal[e]
      k == Reach(j, stamp)
  IN [g EXCEPT !.eng[e] = Applied(@, j, k), !.journal[e] = SubSeq(j, k + 1, Len(j))]

apply_pending(g, e) == [g EXCEPT !.eng[e] = Applied(@, g.journal[e], Len(g.journal[e])),
                                 !.journal[e] = <<>>]

\* The program ends when the journal is not drained.
frame_done(g, e) == [g EXCEPT !.aborted = @ \/ g.journal[e] # <<>>, !.jn[e] = 0]

----------------------------------------------------------------------
\* Drawing.

\* What engine e shows of the VRAM mapped by m: its windows' banks, and an
\* LCDC bank in engine A's display mode 2.
View(e, md, m) == [b \in {c \in Banks : m[c] = IF e = 0 /\ md = 2 THEN "LCDC" ELSE Window(e)}
                     |-> ver[b]]

\* step_engine for each of the lines f..l.
step_engine(g, e, f, l) ==
  LET m == IF g.job_map[e] = <<>> THEN vmap ELSE g.job_map[e]
      At(s) == LET k == Reach(g.journal[e], s)
               IN IF k = 0 THEN g.eng[e] ELSE g.journal[e][k]
      Pic(x) == [edges |-> At(2 * x).n, n |-> At(2 * x + 1).n,
                 view |-> View(e, At(2 * x + 1).mode, m)]
      Draw == [g EXCEPT !.drawn = @ \cup {[e |-> e, line |-> x, pic |-> Pic(x)] : x \in f..l}]
  IN IF f > l THEN g ELSE replay_to(Draw, e, 2 * l + 1)

\* The worker's lines that are left of engine e's job.
FinishJob(g, e) == IF g.inflight[e] THEN step_engine(g, e, g.job[e][1], g.job[e][2]) ELSE g

disarm_trap(g) == [g EXCEPT !.trap = FALSE]

EndDeferred(g, e) == IF ~g.finished THEN g
                     ELSE IF e = 0 THEN disarm_trap(frame_done(g, e)) ELSE frame_done(g, e)

\* Mutant: what was written since stays in the journal.
FinishDeferredUnapplied(g, e) == IF ~g.deferred[e] THEN g
                                 ELSE EndDeferred([g EXCEPT !.deferred[e] = FALSE], e)

\* What a deferred engine does at the join: its journal, then its frame's end.
FinishDeferred(g, e) == IF ~g.deferred[e] THEN g
                        ELSE EndDeferred(apply_pending([g EXCEPT !.deferred[e] = FALSE], e), e)

in_flight(g) == g.inflight[0] \/ g.inflight[1] \/ g.scale

join_worker(g) ==
  LET g1 == FinishJob(FinishJob(g, 1), 0)
      g2 == [g1 EXCEPT !.inflight = Both(FALSE), !.job = Both(<<1, 0>>), !.scale = FALSE,
                       !.job_map = Both(<<>>), !.stale = FALSE]
  IN IF ~in_flight(g) THEN g ELSE FinishDeferred(FinishDeferred(g2, 1), 0)

----------------------------------------------------------------------
\* The write trap and the hand-off.

arm_trap(g) ==
  LET m == (IF g.lag THEN {0} ELSE {})
             \cup (IF g.lazy THEN {e \in Engines : ~g.per_line[e]} ELSE {})
  IN IF m = {} THEN disarm_trap(g)
     ELSE [g EXCEPT !.trap = TRUE, !.mask = m, !.lcdc = 0 \in m /\ g.eng[0].mode = 2]

\* Lines are given to an engine, or to both, as r[e] = <<first, last>>.
has(r, e) == r[e][1] <= r[e][2]
len(r, e) == IF has(r, e) THEN r[e][2] - r[e][1] + 1 ELSE 0
LastOf(r) == IF has(r, 0) /\ (~has(r, 1) \/ r[0][2] > r[1][2]) THEN r[0][2] ELSE r[1][2]

Guarded(g, e) == g.trap /\ e \in g.mask

\* Who draws the lines r: an engine's worker, the worker with the join deferred
\* past the last line, or, not handed, this thread; "stash" is engine B drawn
\* here with its scaling in flight; "parked" is what worker_.parked() says.
Decide(g, r, parked) ==
  LET ToEnd(e) == has(r, e) /\ r[e][2] = SCREEN_H - 1
      DeferA == /\ ToEnd(0) /\ Guarded(g, 0)
                /\ len(r, 0) >= Long \/ (~parked /\ len(r, 0) >= len(r, 1))
      DeferB == DeferA /\ Split /\ ToEnd(1) /\ len(r, 1) >= Long /\ Guarded(g, 1)
      Lag == ~DeferA /\ g.lag /\ (has(r, 0) \/ (has(r, 1) /\ Scaling))
      HandB == ~DeferA /\ ~Lag /\ has(r, 1) /\ (len(r, 1) >= Long \/ ~parked)
  IN [stash |-> Lag /\ has(r, 1) /\ Scaling,
      deferred |-> [e \in Engines |-> IF e = 0 THEN DeferA ELSE DeferB],
      hand |-> [e \in Engines |-> IF e = 0 THEN DeferA \/ (Lag /\ has(r, 0))
                                  ELSE DeferB \/ HandB]]

Inline(g, r, e) == IF has(r, e) THEN step_engine(g, e, r[e][1], r[e][2]) ELSE g
Stash(g, r, d) == IF d.stash THEN [Inline(g, r, 1) EXCEPT !.scale = TRUE] ELSE g
Hand(g, r, d) == [g EXCEPT !.job = [e \in Engines |-> IF d.hand[e] THEN r[e] ELSE @[e]],
                           !.job_map = [e \in Engines |-> IF d.hand[e] THEN vmap ELSE @[e]],
                           !.inflight = d.hand, !.deferred = d.deferred]
Here(g, r, d, e) == IF d.hand[e] \/ (e = 1 /\ d.stash) THEN g ELSE Inline(g, r, e)

\* The job is joined at once, unless deferred or lagging behind by a line.
Rejoin(g, r, d) ==
  LET bHanded == d.hand[1] \/ d.stash
      Stays == /\ d.hand[0] \/ bHanded \/ g.scale
               /\ g.lag /\ LastOf(r) < SCREEN_H - 1 /\ ~(bHanded /\ ~Guarded(g, 1))
  IN IF d.deferred[0] \/ Stays THEN g ELSE join_worker(g)

Advance(g, r) ==
  [g EXCEPT !.next = [e \in Engines |-> IF has(r, e) THEN r[e][2] + 1 ELSE @[e]]]

\* The last line of both engines ends the frame.
Finish(g, d) ==
  LET f == [g EXCEPT !.finished = TRUE]
  IN IF g.finished \/ \E e \in Engines : g.next[e] < SCREEN_H THEN g
     ELSE IF d.deferred[1] THEN f
     ELSE IF d.deferred[0] THEN frame_done(f, 1)
     ELSE disarm_trap(frame_done(frame_done(join_worker(f), 0), 1))

Deal(g, r, d) == LET dealt == Here(Here(Hand(Stash(g, r, d), r, d), r, d, 0), r, d, 1)
                 IN Finish(Advance(Rejoin(dealt, r, d), r), d)
Joined(g, r, parked) == Deal(g, r, Decide(g, r, parked))

render_ranges(g, r, parked) ==
  IF \E e \in Engines : has(r, e) THEN Joined(join_worker(g), r, parked) ELSE g

\* Draw the lines of the engines es below the frontier.
catch_up(g, es, parked) ==
  LET lastDue == (IF frontier(g) < SCREEN_H THEN frontier(g) ELSE SCREEN_H) - 1
      r == [e \in Engines |-> IF e \in es /\ g.next[e] <= lastDue THEN <<g.next[e], lastDue>>
                              ELSE <<1, 0>>]
  IN IF \A e \in Engines : r[e] = <<1, 0>> THEN g ELSE join_worker(render_ranges(g, r, parked))

PerLine(g, es, b) == [g EXCEPT !.per_line = [e \in Engines |-> e \in es \/ @[e]],
                               !.burst = [e \in Engines |-> IF e \in es THEN b ELSE @[e]],
                               !.left = [e \in Engines |-> IF e \in es /\ b THEN LAZY_BURST_LINES
                                                           ELSE @[e]]]

fall_back_per_line(g, es, parked) == arm_trap(PerLine(catch_up(g, es, parked), es, FALSE))

----------------------------------------------------------------------
\* The guest's side.

\* A write, or a latch (step 0), of engine e.
queue(g, e, x) ==
  LET s == journal_stamp(g, e)
      g1 == IF g.jn[e] = JOURNAL_CAP THEN join_worker(g) ELSE g   \* journal_full
      g2 == IF g1.jn[e] = JOURNAL_CAP THEN [apply_pending(g1, e) EXCEPT !.jn[e] = 0] ELSE g1
  IN IF s = NO_STAMP THEN [g EXCEPT !.eng[e] = Applied(@, <<x>>, 1)]
     ELSE [g2 EXCEPT !.journal[e] = Append(@, [x EXCEPT !.stamp = s]), !.jn[e] = @ + 1]

Entry(e, step, md) == [stamp |-> 0, n |-> n[e] + step, mode |-> md, step |-> step]
latch(g, e) == queue(g, e, Entry(e, 0, IF e = 0 THEN mode ELSE 1))

reach_engines(g, place) == CASE place = "A" -> {0} [] place = "B" -> {1}
                             [] OTHER -> IF g.lcdc THEN {0} ELSE {}

\* A store by the ARM9 reaches a trapped page.
vram_store_trap(g, place, parked) ==
  LET es == reach_engines(g, place) \cup IF g.stale THEN Engines ELSE {}
      hit == \E e \in es : g.inflight[e]
      joined == IF hit THEN join_worker(g) ELSE g
      counted == [joined EXCEPT !.stores = @ + 1]
      charged == {e \in es : ~g.per_line[e]}
      g1 == [joined EXCEPT !.bursts = [e \in Engines |-> @[e] + IF e \in charged THEN 1 ELSE 0]]
      bursting == {e \in charged : g1.bursts[e] < LAZY_BURST_LIMIT}
  IN CASE ~g.trap \/ (place = "LCDC" /\ ~g.lcdc) -> g
       [] g.trap /\ (place = "LCDC" => g.lcdc) /\ g.deferred[0] ->
            IF es \cap (IF g.deferred[1] THEN Engines ELSE {0}) # {} THEN join_worker(g) ELSE g
       [] OTHER ->
            IF charged = {}
            THEN IF counted.stores >= LAG_STORE_LIMIT /\ counted.lag
                 THEN arm_trap([join_worker(counted) EXCEPT !.lag = FALSE])
                 ELSE counted
            ELSE IF bursting # {}
            THEN arm_trap(PerLine(catch_up(g1, bursting, parked), bursting, TRUE))
            ELSE fall_back_per_line(g1, es, parked)

Trapped(g, place) == /\ g.trap
                     /\ place \in (IF g.lcdc THEN {"LCDC"} ELSE {}) \cup {Window(e) : e \in g.mask}

\* begin_frame: an engine in "futile" starts its frame per line.
begin_frame(g, fifo, futile) ==
  LET lazy == ~fifo /\ futile # Engines
      g1 == [g EXCEPT !.next = Both(0), !.finished = FALSE, !.lazy = lazy, !.lag = ~fifo,
                      !.bursts = Both(0), !.burst = Both(FALSE), !.left = Both(0),
                      !.stores = 0, !.per_line = [e \in Engines |-> lazy /\ e \in futile]]
      g2 == arm_trap(g1)
  IN IF lazy THEN g2 ELSE [g2 EXCEPT !.per_line = Both(TRUE)]

\* The bursts that end with this line: their engines batch again, trapped.
EndBursts(g) ==
  LET left == [e \in Engines |-> g.left[e] - IF g.burst[e] THEN 1 ELSE 0]
      over == {e \in Engines : g.burst[e] /\ left[e] = 0 /\ g.line < SCREEN_H - 1}
      ended == [g EXCEPT !.left = left,
                         !.burst = [e \in Engines |-> @[e] /\ e \notin over],
                         !.per_line = [e \in Engines |-> @[e] /\ e \notin over],
                         !.next = [e \in Engines |-> IF e \in over THEN g.line + 1 ELSE @[e]]]
  IN IF over = {} THEN ended ELSE arm_trap(ended)

\* on_hblank on a display line: what each engine draws now.
DisplayLine(g, parked) ==
  LET batch(e) == g.lazy /\ ~g.per_line[e]
      from(e) == IF batch(e) \/ g.next[e] < g.line THEN g.next[e] ELSE g.line
      r == [e \in Engines |-> IF batch(e) /\ g.line # SCREEN_H - 1 THEN <<1, 0>>
                              ELSE <<from(e), g.line>>]
  IN EndBursts(render_ranges(g, r, parked))

----------------------------------------------------------------------
\* Actions.  Each step gives the lines it drew; they are compared with what
\* the hardware shows and are no longer due.
Draws(g, d) ==
  LET lines(e) == {o.line : o \in {x \in g.drawn : x.e = e}}
      good(o) == /\ o.line \in DOMAIN d[o.e] /\ o.pic = d[o.e][o.line]
                 /\ \A x \in DOMAIN d[o.e] : x < o.line => x \in lines(o.e)
  IN /\ ~gpu.aborted   \* the program has not ended
     /\ gpu' = [g EXCEPT !.drawn = {}]
     /\ unlike' = unlike \cup {<<o.e, o.line>> : o \in {x \in g.drawn : ~good(x)}}
     /\ due' = [e \in Engines |-> [x \in DOMAIN d[e] \ lines(e) |-> d[e][x]]]

WorkerLine(e) ==
  /\ gpu.inflight[e] /\ gpu.job[e][1] <= gpu.job[e][2]
  /\ LET x == gpu.job[e][1]
     IN Draws([step_engine(gpu, e, x, x) EXCEPT !.job[e] = <<x + 1, @[2]>>], due)
  /\ UNCHANGED <<n, mode, vmap, ver, edges, remaps, modes>>

\* The picture of the line now ending, as the hardware draws it.
ScannedOut(e) == [edges |-> edges[e], n |-> n[e],
                  view |-> View(e, IF e = 0 THEN mode ELSE 1, vmap)]

on_hblank ==
  /\ ~gpu.hblank
  /\ \E parked \in BOOLEAN :
       LET d == [e \in Engines |-> [x \in DOMAIN due[e] \cup {gpu.line} |->
                                      IF x = gpu.line THEN ScannedOut(e) ELSE due[e][x]]]
           g == [gpu EXCEPT !.hblank = TRUE]
       IN IF gpu.line < SCREEN_H THEN Draws([DisplayLine(gpu, parked) EXCEPT !.hblank = TRUE], d)
          ELSE Draws(latch(latch(g, 0), 1), due)
  /\ UNCHANGED <<n, mode, vmap, ver, edges, remaps, modes>>

\* Mutant: the new frame does not wait for the old one's lines.
on_scanline_startUnjoined ==
  /\ gpu.hblank
  /\ edges' = n
  /\ LET g == [gpu EXCEPT !.line = (@ + 1) % SCANLINES_PER_FRAME, !.hblank = FALSE]
     IN \/ g.line = 0 /\ \E fifo \in BOOLEAN, futile \in SUBSET Engines :
                           Draws(begin_frame(g, fifo, futile), due)
        \/ g.line \in 1..SCREEN_H - 1 /\ Draws(g, due)
        \/ g.line >= SCREEN_H /\ Draws(latch(latch(g, 0), 1), due)
  /\ UNCHANGED <<n, mode, vmap, ver, remaps, modes>>

on_scanline_start ==
  /\ gpu.hblank
  /\ edges' = n
  /\ LET g == [gpu EXCEPT !.line = (@ + 1) % SCANLINES_PER_FRAME, !.hblank = FALSE]
     IN \/ g.line = 0 /\ \E fifo \in BOOLEAN, futile \in SUBSET Engines :
                           Draws(begin_frame(join_worker(g), fifo, futile), due)
        \/ g.line \in 1..SCREEN_H - 1 /\ Draws(g, due)
        \/ g.line >= SCREEN_H /\ Draws(latch(latch(g, 0), 1), due)
  /\ UNCHANGED <<n, mode, vmap, ver, remaps, modes>>

\* A register, palette or OAM write.
Write(e) ==
  /\ n[0] + n[1] < MaxWrites
  /\ n' = [n EXCEPT ![e] = @ + 1]
  /\ Draws(queue(gpu, e, Entry(e, 1, IF e = 0 THEN mode ELSE 1)), due)
  /\ UNCHANGED <<mode, vmap, ver, edges, remaps, modes>>

\* No line is in flight, or will be left so in this frame, and no batch is
\* trapped for the mode engine A had.
Quiet(g) == ~in_flight(g) /\ (g.line >= SCREEN_H \/ ~(g.lag \/ (g.trap /\ g.lcdc)))

\* A write of engine A's DISPCNT with another display mode.
WriteDispcnt ==
  /\ modes < MaxModes /\ modes' = modes + 1
  /\ Abrupt \/ mode = 2 \/ Quiet(gpu)
  /\ mode' = 3 - mode /\ n' = [n EXCEPT ![0] = @ + 1]
  /\ \E parked \in BOOLEAN :
       LET g == queue(gpu, 0, Entry(0, 1, mode'))
       IN Draws(IF g.trap /\ ~g.lcdc /\ mode' = 2 THEN fall_back_per_line(g, Engines, parked)
                ELSE g, due)
  /\ UNCHANGED <<vmap, ver, edges, remaps>>

\* A store to bank b where it is mapped; one to a block with overlapping banks
\* goes through the trap whether trapped or not.
Store(b) ==
  /\ ver[b] < MaxStores
  /\ vmap[b] # "texture"
  /\ \/ vmap[b] # "ARM7" /\ \E parked \in BOOLEAN :
                              Draws(vram_store_trap(gpu, vmap[b], parked), due)
     \/ (vmap[b] = "ARM7" \/ ~Trapped(gpu, vmap[b])) /\ Draws(gpu, due)
  /\ ver' = [ver EXCEPT ![b] = @ + 1]
  /\ UNCHANGED <<n, mode, vmap, edges, remaps, modes>>

\* Mutant: wherever the banks go.
coveredAnywhere(g, next) == in_flight(g) /\ g.trap

\* vram_remap_begin: a job in flight may keep its map when every bank it reads
\* stays trapped.
covered(g, next) ==
  /\ in_flight(g) /\ g.trap
  /\ \A b \in Banks :
       \/ g.inflight[0] /\ vmap[b] \in {"A", "LCDC"}
       \/ g.inflight[1] /\ vmap[b] = "B"
       => next[b] = "texture" \/ Trapped(g, next[b])

Remap(b) ==
  /\ remaps < MaxRemaps /\ remaps' = remaps + 1
  /\ \E place \in Places \ {vmap[b]}, parked \in BOOLEAN :
       LET next == [vmap EXCEPT ![b] = place]
           g1 == join_worker(catch_up(gpu, Engines, parked))
           g2 == IF g1.trap THEN arm_trap(disarm_trap(g1)) ELSE g1
       IN /\ vmap' = next
          /\ Draws(IF covered(gpu, next)
                   THEN catch_up([gpu EXCEPT !.stale = TRUE], Engines, parked)
                   ELSE g2, due)
  /\ UNCHANGED <<n, mode, ver, edges, modes>>

Guest == \/ \E e \in Engines : Write(e)
         \/ WriteDispcnt
         \/ \E b \in Banks : Store(b) \/ Remap(b)

Next == on_hblank \/ on_scanline_start \/ Guest \/ \E e \in Engines : WorkerLine(e)

Spec == Init /\ [][Next]_vars

----------------------------------------------------------------------
\* The state has its types; what is deferred is in flight, and only then is a
\* map kept for a job.
TypeOK == /\ gpu.line \in 0..SCANLINES_PER_FRAME - 1
          /\ gpu.mask \subseteq Engines /\ mode \in {1, 2}
          /\ vmap \in [Banks -> Places]
          /\ \A e \in Engines : /\ gpu.deferred[e] => gpu.inflight[e]
                                /\ gpu.inflight[e] <=> gpu.job_map[e] # <<>>
                                /\ gpu.jn[e] \in Len(gpu.journal[e])..JOURNAL_CAP

\* Every line is drawn once, in order, from the registers and the VRAM that
\* the hardware would have used: however late it is drawn, whatever the guest
\* has written since.
LinesExact == unlike = {}

\* Writes and latches reach an engine in the guest's order, none twice and
\* none left out, through the journal or directly.
WritesInOrder == \A e \in Engines : gpu.eng[e].ordered

\* No line is left undrawn when the next frame begins, and no write.
FrameComplete == gpu.line = 0 /\ ~gpu.hblank =>
                   \A e \in Engines : due[e] = <<>> /\ n[e] = gpu.eng[e].n + Len(gpu.journal[e])

\* What frame_done asserts: the frame has reached every stamp.
JournalDrained == ~gpu.aborted

\* The journal and the jobs under way are consistent, and the journal delivers.
JournalSound == TypeOK /\ WritesInOrder /\ JournalDrained
======================================================================

------------------------------ MODULE BandPool ------------------------------
(***************************************************************************)
(* The 3D renderer's band pool (gpu/render3d.cpp, Renderer3D::Pool): a     *)
(* frame is cut into bins, workers claim and draw them in ascending order  *)
(* while the emulation thread goes on, and whoever reads a line first      *)
(* waits for its bin.  The emulation thread, which dispatches, draws bins  *)
(* itself rather than wait (steal_bins); the compositor, engine A's line   *)
(* worker, only waits, and may still read frame N while N+1 is drawn.      *)
(*                                                                         *)
(* A critical section under m_ is one step.  Sleeping on a condition       *)
(* variable and being notified are steps of their own, since the notify    *)
(* comes after the unlock; a wait may also wake for no reason.  What is    *)
(* read without the lock is one atomic load a step: no decision to sleep   *)
(* rests on it.  Handing a job to the compositor and joining it is the     *)
(* line worker's business (module LineWorker).                             *)
(***************************************************************************)
EXTENDS Naturals, FiniteSets

CONSTANTS W,          \* The most workers a frame is given (3 in the code).
          bin_count,  \* Bins of a frame (8 in the code).
          layout,     \* thread_layout_on(): the pool is made no larger than asked for.
          MaxFrames   \* Bound: frames drawn before the renderer is destroyed.

ASSUME SizeAssumption ==
  W \in Nat \ {0} /\ bin_count \in Nat \ {0} /\ layout \in BOOLEAN /\ MaxFrames \in Nat

Workers == 0 .. W - 1
Bins    == 0 .. bin_count - 1

VARIABLES
  pool,    \* *pool_: its size (0: no pool yet), gen, bits (done_bits_), next (next_bin_),
           \* jobs, remaining, thieves, stop.
  job,     \* The closure job_ points to: the buffer and the frame it draws.
  worker,  \* Per worker: where it is in loop(), seen, and the bin it has claimed.
  emu,     \* The emulation thread: where it is, the bin it is after, the one it stole, what follows.
  comp,    \* The compositor: where it is in sync_line, and for which bin.
  r,       \* Renderer3D: gen (gen_), pending (pending_bands_), display, frame (the last drawn).
  ctx,     \* ctx_, the two contexts a thief draws from.
  ref,     \* ref3d_, the FrameRef of the lines on display.
  phase,   \* "lines" from line 0 on, "vblank" from line 215 on.
  out      \* out_: for each buffer and bin, the frame whose picture it holds.

vars == <<pool, job, worker, emu, comp, r, ctx, ref, phase, out>>

Other(b) == 1 - b
Asleep(x) == x.pc = "asleep" \/ x.pc = "idleSleep" \/ x.pc = "bitsSleep"

-----------------------------------------------------------------------------
(* Pool.                                                                   *)

\* Pool(n), and its workers.
Pool(n) == [size |-> n, gen |-> 0, bits |-> {}, next |-> 0, jobs |-> 0, remaining |-> 0,
            thieves |-> 0, stop |-> FALSE]
Loops(n) == [i \in Workers |-> [pc |-> IF i < n THEN "wait" ELSE "none", seen |-> 0, bin |-> 0]]

\* dispatch(), under the lock.
dispatch(p, jobs) ==
  [size |-> p.size, gen |-> p.gen + 1, bits |-> {}, next |-> 0, jobs |-> jobs, remaining |-> jobs,
   thieves |-> p.thieves, stop |-> p.stop]

done(gen, bin) == pool.gen # gen \/ bin \in pool.bits
idle == pool.remaining = 0 /\ pool.thieves = 0

\* done_.notify_all(): both waiters look at their predicates again.
Rouse(x) == CASE x.pc = "idleSleep" -> [x EXCEPT !.pc = "waitIdle"]
              [] x.pc = "bitsSleep" -> [x EXCEPT !.pc = "waitBits"]
              [] OTHER -> x

-----------------------------------------------------------------------------
(* loop(index): a band worker.                                             *)

\* Woken or new: a generation that includes it is taken, else it sleeps.
WorkerWait(i) ==
  /\ worker[i].pc = "wait"
  /\ worker' = [worker EXCEPT ![i] =
       IF pool.stop THEN [@ EXCEPT !.pc = "exited"]
       ELSE IF pool.gen # @.seen /\ i < pool.jobs THEN [@ EXCEPT !.pc = "claim", !.seen = pool.gen]
       ELSE [@ EXCEPT !.pc = "asleep"]]
  /\ UNCHANGED <<pool, job, emu, comp, r, ctx, ref, phase, out>>

WorkerSpurious(i) ==
  /\ worker[i].pc = "asleep"
  /\ worker' = [worker EXCEPT ![i].pc = "wait"]
  /\ UNCHANGED <<pool, job, emu, comp, r, ctx, ref, phase, out>>

\* claim(), in the job: the next bin, or the job is over.
WorkerClaim(i) ==
  /\ worker[i].pc = "claim"
  /\ pool' = [pool EXCEPT !.next = @ + 1]
  /\ worker' = [worker EXCEPT ![i].pc = IF pool.next < bin_count THEN "draw" ELSE "leave",
                              ![i].bin = pool.next]
  /\ UNCHANGED <<job, emu, comp, r, ctx, ref, phase, out>>

\* render_band.
Drawn(j, bin) == [out EXCEPT ![j.buf][bin] = j.frame]

WorkerDraw(i) ==
  /\ worker[i].pc = "draw"
  /\ out' = Drawn(job, worker[i].bin)
  /\ worker' = [worker EXCEPT ![i].pc = "mark"]
  /\ UNCHANGED <<pool, job, emu, comp, r, ctx, ref, phase>>

\* mark_done(): the bit under the lock, then the notify.
WorkerMark(i) ==
  /\ worker[i].pc = "mark"
  /\ pool' = [pool EXCEPT !.bits = @ \cup {worker[i].bin}]
  /\ worker' = [worker EXCEPT ![i].pc = "notify"]
  /\ UNCHANGED <<job, emu, comp, r, ctx, ref, phase, out>>

WorkerNotify(i) ==
  /\ worker[i].pc = "notify"
  /\ emu' = Rouse(emu) /\ comp' = Rouse(comp)
  /\ worker' = [worker EXCEPT ![i].pc = "claim"]
  /\ UNCHANGED <<pool, job, r, ctx, ref, phase, out>>

\* Back from the job: remaining_ and the notify are under the lock.
WorkerLeave(i) ==
  /\ worker[i].pc = "leave"
  /\ pool' = [pool EXCEPT !.remaining = @ - 1]
  /\ emu' = Rouse(emu) /\ comp' = Rouse(comp)
  /\ worker' = [worker EXCEPT ![i].pc = "wait"]
  /\ UNCHANGED <<job, r, ctx, ref, phase, out>>

-----------------------------------------------------------------------------
(* The emulation thread: frames and lines.                                 *)

Emu(pc) == emu' = [emu EXCEPT !.pc = pc]
Goto(pc) == Emu(pc) /\ UNCHANGED <<pool, job, worker, comp, r, ctx, ref, phase, out>>

\* begin_frame(), line 0: the compositor has been joined.
BeginFrame ==
  /\ emu.pc = "free" /\ phase = "vblank" /\ comp.pc = "none"
  /\ ref' = [gen |-> r.gen, nbins |-> r.pending, buf |-> r.display, frame |-> r.frame]
  /\ phase' = "lines"
  /\ UNCHANGED <<pool, job, worker, emu, comp, r, ctx, out>>

\* A batch of engine A's lines goes to the compositor, all bins from one on.
HandOver(bin) ==
  /\ emu.pc = "free" /\ phase = "lines" /\ comp.pc = "none"
  /\ bin < ref.nbins
  /\ comp' = [pc |-> "gen", bin |-> bin]
  /\ UNCHANGED <<pool, job, worker, emu, r, ctx, ref, phase, out>>

\* sync_line() on the emulation thread, for a line it draws itself.
SyncLine(bin) ==
  /\ emu.pc = "free" /\ phase = "lines" /\ comp.pc = "none"
  /\ bin < ref.nbins
  /\ emu' = [emu EXCEPT !.pc = "steal", !.upto = bin, !.then = "use"]
  /\ UNCHANGED <<pool, job, worker, comp, r, ctx, ref, phase, out>>

\* The line has been read.
Use == emu.pc = "use" /\ Goto("free")

\* Mutant of sync_all: the done bits are taken for the end of the job.
sync_all_by_bits(then) ==
  emu' = [emu EXCEPT !.pc = IF r.pending > 0 /\ pool.bits # Bins THEN "steal" ELSE "synced",
                     !.upto = bin_count - 1, !.then = then]

\* sync_all(): steal what is left, then wait for everybody to leave the job.
sync_all(then) ==
  emu' = [emu EXCEPT !.pc = IF r.pending > 0 THEN "steal" ELSE IF ~idle THEN "waitIdle" ELSE "synced",
                     !.upto = bin_count - 1, !.then = then]

\* Texture VRAM is about to change, or a state is saved.
SyncRaster ==
  /\ emu.pc = "free" /\ (r.pending > 0 \/ ~idle)
  /\ sync_all("free")
  /\ UNCHANGED <<pool, job, worker, comp, r, ctx, ref, phase, out>>

\* Line 215: the next frame's raster, or none (frameskip).
RenderFrame ==
  /\ emu.pc = "free" /\ phase = "lines" /\ r.frame < MaxFrames
  /\ sync_all("prep") /\ phase' = "vblank"
  /\ UNCHANGED <<pool, job, worker, comp, r, ctx, ref, out>>

SkipFrame ==
  /\ emu.pc = "free" /\ phase = "lines"
  /\ phase' = "vblank"
  /\ UNCHANGED <<pool, job, worker, emu, comp, r, ctx, ref, out>>

Synced ==
  /\ emu.pc = "synced"
  /\ r' = [r EXCEPT !.pending = 0]
  /\ Emu(emu.then)
  /\ UNCHANGED <<pool, job, worker, comp, ctx, ref, phase, out>>

\* An identical frame is kept.
RenderKept == emu.pc = "prep" /\ r.frame > 0 /\ Goto("free")

\* A nearly empty frame is drawn here, as one band.
RenderInline ==
  /\ emu.pc = "prep"
  /\ r' = [r EXCEPT !.display = Other(@), !.frame = @ + 1]
  /\ out' = [out EXCEPT ![Other(r.display)] = [b \in Bins |-> r.frame + 1]]
  /\ Emu("free")
  /\ UNCHANGED <<pool, job, worker, comp, ctx, ref, phase>>

\* Mutant of Target: the buffer on display.
TargetDisplayed == r.display

\* The buffer the display is not reading.
Target == Other(r.display)

\* A frame is given to nb workers (fewer while the compositor is busy).  A pool
\* too small is replaced first: its workers, all idle, are joined.  (The
\* compositor is not in a wait on the old pool: what such a wait would do then
\* is not modelled.)  The thief's context is the slot of gen_ + 1.
RenderBands(nb) ==
  /\ emu.pc = "prep"
  /\ LET grow == pool.size < nb
         size == IF layout THEN nb ELSE W
     IN  /\ grow => comp.pc \in {"none", "gen", "use"}
         /\ pool' = dispatch(IF grow THEN Pool(size) ELSE pool, nb)
         /\ worker' = IF grow THEN Loops(size) ELSE worker
  /\ job' = [buf |-> Target, frame |-> r.frame + 1]
  /\ ctx' = [ctx EXCEPT ![(r.gen + 1) % 2] = job']
  /\ r' = [gen |-> pool'.gen, pending |-> bin_count, display |-> Other(r.display), frame |-> r.frame + 1]
  /\ Emu("notify")
  /\ UNCHANGED <<comp, ref, phase, out>>

\* dispatch() ends: start_[i].notify_one() for the workers given a job.
Notify ==
  /\ emu.pc = "notify"
  /\ worker' = [i \in Workers |-> IF i < pool.jobs /\ worker[i].pc = "asleep"
                                  THEN [worker[i] EXCEPT !.pc = "wait"] ELSE worker[i]]
  /\ Emu("free")
  /\ UNCHANGED <<pool, job, comp, r, ctx, ref, phase, out>>

-----------------------------------------------------------------------------
(* steal_bins() and the waits, on the emulation thread.                    *)

\* Which dispatch it is about: the line's frame, or the last one.
Gen == IF emu.then = "use" THEN ref.gen ELSE r.gen

\* What follows: a line not done is waited for, sync_all waits for all.
After(isDone) == IF emu.then # "use" THEN "waitIdle" ELSE IF isDone THEN "use" ELSE "waitBits"

Steal ==
  /\ emu.pc = "steal"
  /\ Goto(IF done(Gen, emu.upto) THEN After(TRUE) ELSE "claimIf")

\* Mutant of claim_if: the thief is not counted.
claim_if_uncounted(gen) ==
  IF pool.gen = gen THEN [pool EXCEPT !.next = @ + 1] ELSE pool

\* Mutant of claim_if: the cursor is read, not taken.
claim_if_peeks(gen) ==
  IF pool.gen = gen /\ pool.next < bin_count THEN [pool EXCEPT !.thieves = @ + 1] ELSE pool

\* claim_if(): under the lock; a thief with a bin is in flight.
claim_if(gen) ==
  IF pool.gen = gen
  THEN [pool EXCEPT !.next = @ + 1, !.thieves = IF pool.next < bin_count THEN @ + 1 ELSE @]
  ELSE pool

\* A bin is stolen, or none is left.
ClaimIf ==
  /\ emu.pc = "claimIf"
  /\ pool' = claim_if(Gen)
  /\ emu' = IF pool.gen = Gen /\ pool.next < bin_count
            THEN [emu EXCEPT !.pc = "draw", !.bin = pool.next]
            ELSE [emu EXCEPT !.pc = After(done(Gen, emu.upto))]
  /\ UNCHANGED <<job, worker, comp, r, ctx, ref, phase, out>>

StealDraw ==
  /\ emu.pc = "draw"
  /\ out' = Drawn(ctx[Gen % 2], emu.bin)
  /\ Emu("thiefDone")
  /\ UNCHANGED <<pool, job, worker, comp, r, ctx, ref, phase>>

\* thief_done(), under the lock, and its notify.
ThiefDone ==
  /\ emu.pc = "thiefDone"
  /\ pool' = [pool EXCEPT !.bits = @ \cup {emu.bin}, !.thieves = @ - 1]
  /\ Emu("thiefNotify")
  /\ UNCHANGED <<job, worker, comp, r, ctx, ref, phase, out>>

\* Mutant of ThiefNotify: no notify.
ThiefNotifySilent == emu.pc = "thiefNotify" /\ Goto("steal")

ThiefNotify ==
  /\ emu.pc = "thiefNotify"
  /\ comp' = Rouse(comp)
  /\ Emu("steal")
  /\ UNCHANGED <<pool, job, worker, r, ctx, ref, phase, out>>

WaitIdle == emu.pc = "waitIdle" /\ Goto(IF idle THEN "synced" ELSE "idleSleep")

WaitBits == emu.pc = "waitBits" /\ Goto(IF done(ref.gen, emu.upto) THEN "use" ELSE "bitsSleep")

EmuSpurious ==
  /\ Asleep(emu)
  /\ emu' = Rouse(emu)
  /\ UNCHANGED <<pool, job, worker, comp, r, ctx, ref, phase, out>>

-----------------------------------------------------------------------------
(* The compositor: sync_line() on a thread that does not own the pool.     *)

Comp(pc) == comp' = [comp EXCEPT !.pc = pc] /\ UNCHANGED <<pool, job, worker, emu, r, ctx, ref, phase, out>>

\* done(): the generation, then the bits, without the lock.
CompGen == comp.pc = "gen" /\ Comp(IF pool.gen # ref.gen THEN "use" ELSE "bits")
CompBits == comp.pc = "bits" /\ Comp(IF comp.bin \in pool.bits THEN "use" ELSE "waitBits")

\* wait_bits().
CompWait == comp.pc = "waitBits" /\ Comp(IF done(ref.gen, comp.bin) THEN "use" ELSE "bitsSleep")

CompSpurious == comp.pc = "bitsSleep" /\ Comp("waitBits")

\* The bin's lines are drawn; the next bin's follow, or the batch is over.
CompUse ==
  /\ comp.pc = "use"
  /\ comp' = IF comp.bin + 1 < ref.nbins THEN [pc |-> "gen", bin |-> comp.bin + 1]
             ELSE [pc |-> "none", bin |-> 0]
  /\ UNCHANGED <<pool, job, worker, emu, r, ctx, ref, phase, out>>

-----------------------------------------------------------------------------
(* The end: ~Gpu3D's sync_all, then ~Pool.                                 *)

Destroy ==
  /\ emu.pc = "free" /\ comp.pc = "none"
  /\ sync_all("stop")
  /\ UNCHANGED <<pool, job, worker, comp, r, ctx, ref, phase, out>>

Stop ==
  /\ emu.pc = "stop"
  /\ pool' = [pool EXCEPT !.stop = TRUE, !.gen = @ + 1]
  /\ Emu("stopNotify")
  /\ UNCHANGED <<job, worker, comp, r, ctx, ref, phase, out>>

StopNotify ==
  /\ emu.pc = "stopNotify"
  /\ worker' = [i \in Workers |-> IF worker[i].pc = "asleep" THEN [worker[i] EXCEPT !.pc = "wait"]
                                  ELSE worker[i]]
  /\ Emu("join")
  /\ UNCHANGED <<pool, job, comp, r, ctx, ref, phase, out>>

NoPicture == [buf |-> 0, frame |-> 0]

\* A renderer that has drawn nothing.
Renderer(pl, jb, wk, em, rr, cx, rf, ph, ot) ==
  /\ pl = Pool(0) /\ jb = NoPicture /\ wk = Loops(0)
  /\ em = [pc |-> "free", upto |-> 0, bin |-> 0, then |-> "free"]
  /\ rr = [gen |-> 0, pending |-> 0, display |-> 0, frame |-> 0]
  /\ cx = [s \in 0 .. 1 |-> NoPicture]
  /\ rf = [gen |-> 0, nbins |-> 0, buf |-> 0, frame |-> 0]
  /\ ph = "vblank"
  /\ ot = [s \in 0 .. 1 |-> [b \in Bins |-> 0]]

Init ==
  /\ Renderer(pool, job, worker, emu, r, ctx, ref, phase, out)
  /\ comp = [pc |-> "none", bin |-> 0]

\* All workers have been joined; another renderer may be made.
Join ==
  /\ emu.pc = "join" /\ \A i \in Workers : worker[i].pc \in {"none", "exited"}
  /\ Renderer(pool', job', worker', emu', r', ctx', ref', phase', out')
  /\ UNCHANGED comp

WorkerStep(i) ==
  WorkerWait(i) \/ WorkerClaim(i) \/ WorkerDraw(i) \/ WorkerMark(i) \/ WorkerNotify(i) \/ WorkerLeave(i)

\* What the emulation thread does next once it has begun something.
EmuStep ==
  \/ Use \/ Synced \/ Notify
  \/ RenderKept \/ RenderInline \/ \E nb \in 1 .. W : RenderBands(nb)
  \/ Steal \/ ClaimIf \/ StealDraw \/ ThiefDone \/ ThiefNotify \/ WaitIdle \/ WaitBits
  \/ Stop \/ StopNotify \/ Join

CompStep == CompGen \/ CompBits \/ CompWait \/ CompUse

Begin ==
  \/ BeginFrame \/ SyncRaster \/ RenderFrame \/ SkipFrame \/ Destroy
  \/ \E bin \in Bins : HandOver(bin) \/ SyncLine(bin)

Spurious == EmuSpurious \/ CompSpurious \/ \E i \in Workers : WorkerSpurious(i)

Next == Begin \/ EmuStep \/ CompStep \/ Spurious \/ \E i \in Workers : WorkerStep(i)

Spec == Init /\ [][Next]_vars

\* All threads are scheduled; nothing need wake a wait but a notify.
LiveSpec == Spec /\ WF_vars(EmuStep) /\ WF_vars(CompStep) /\ \A i \in Workers : WF_vars(WorkerStep(i))

-----------------------------------------------------------------------------
(* Properties.                                                             *)

JobPcs == {"claim", "draw", "mark", "notify", "leave"}

\* The counters, the cursors and the threads' places have their types:
\* remaining_ counts the workers that have a job, thieves_ at most one thief.
TypeOK ==
  /\ pool \in [gen : Nat, bits : SUBSET Bins, next : Nat, size : 0 .. W, jobs : 0 .. W,
               remaining : 0 .. W, thieves : 0 .. 1, stop : BOOLEAN]
  /\ worker \in [Workers -> [pc : JobPcs \cup {"none", "wait", "asleep", "exited"}, seen : Nat, bin : Nat]]
  /\ r.pending \in {0, bin_count}
  /\ emu.upto \in Bins /\ emu.bin \in Bins
  /\ comp \in [pc : {"none", "gen", "bits", "waitBits", "bitsSleep", "use"}, bin : Bins]
  /\ phase \in {"lines", "vblank"}
  /\ out \in [0 .. 1 -> [Bins -> 0 .. MaxFrames + 1]]

\* A line is read only when its bin has been drawn, with the picture of the
\* frame the display is on, and stays so while it is read: through the next
\* frame's dispatch, which clears the bits, and its drawing into the other
\* buffer (sync_line, wait_bits' generation check, the double buffer).
LineReady ==
  /\ emu.pc = "use" => out[ref.buf][emu.upto] = ref.frame
  /\ comp.pc = "use" => out[ref.buf][comp.bin] = ref.frame

Drawing(i) == worker[i].pc \in {"draw", "mark"}
Stealing == emu.pc \in {"draw", "thiefDone"}

\* A bin is drawn by one thread: claim() without the lock and claim_if() under
\* it never hand out the same one.
OneDrawer ==
  /\ \A i, j \in Workers : i # j /\ Drawing(i) /\ Drawing(j) => worker[i].bin # worker[j].bin
  /\ \A i \in Workers : Drawing(i) /\ Stealing => worker[i].bin # emu.bin

\* The job and what it reads are replaced only when nobody is in it: not one
\* that has marked its last bin but has not returned yet, and no thief
\* (wait_idle, "gates the frame boundary").
DispatchAlone ==
  [][pool'.gen # pool.gen => /\ \A i \in Workers : worker[i].pc \notin JobPcs
                             /\ ~Stealing]_vars

\* Every wait comes to its end: the emulation thread's for a line, for all
\* bands and for the workers to exit, and the compositor's for a bin, also
\* when the frame is superseded by the next one meanwhile.
WaitsReturn == /\ emu.pc # "free" ~> emu.pc = "free"
               /\ comp.pc # "none" ~> comp.pc = "none"

\* "ctx_ snapshots what a bin needs, two slots by generation parity"
\* (render3d.h): a thief draws from the context of the dispatch it steals from.
ThiefHasContext == emu.pc = "draw" => ctx[Gen % 2] = job
=============================================================================

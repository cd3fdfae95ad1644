--------------------------- MODULE BandPoolProofs ---------------------------
(***************************************************************************)
(* The band pool, for every number of workers, bins and frames: a bin is   *)
(* drawn by one thread, a frame is dispatched only when nobody is in the   *)
(* job of the last one, and, in a pool that is never replaced, a line is   *)
(* read only from a bin that has its frame's picture.                      *)
(***************************************************************************)
EXTENDS BandPool, FiniteSetTheorems, TLAPS

-----------------------------------------------------------------------------
(* What the threads have to do with the job.                               *)

InJob(i) == worker[i].pc \in JobPcs
\* Given the job, and not yet woken up to it.
Owes(i) == ~pool.stop /\ i < pool.jobs /\ worker[i].seen # pool.gen
Busy == {i \in Workers : InJob(i) \/ Owes(i)}

\* The emulation thread is in sync_all, and what it does after that.
SyncPcs == {"steal", "claimIf", "draw", "thiefDone", "thiefNotify", "waitIdle", "idleSleep", "synced"}
Syncing(then) == emu.pc \in SyncPcs /\ emu.then = then
Rendering == emu.pc = "prep" \/ Syncing("prep")
Ending == emu.pc \in {"stop", "stopNotify", "join"} \/ Syncing("stop")
\* It is in sync_line.
InLine == emu.pc = "use" \/ (emu.pc \in {"waitBits", "bitsSleep"} \cup SyncPcs /\ emu.then = "use")

EmuPcs == SyncPcs \cup {"free", "use", "prep", "notify", "waitBits", "bitsSleep", "stop", "stopNotify", "join"}
Picture == [buf : 0 .. 1, frame : 0 .. MaxFrames]
PoolRec == [gen : Nat, bits : SUBSET Bins, next : Nat, size : 0 .. W, jobs : 0 .. W,
            remaining : Nat, thieves : Nat, stop : BOOLEAN]
WorkerRec == [pc : JobPcs \cup {"none", "wait", "asleep", "exited"}, seen : Nat, bin : Nat]
EmuRec == [pc : EmuPcs, upto : Bins, bin : Bins, then : {"use", "free", "prep", "stop"}]
CompRec == [pc : {"none", "gen", "bits", "waitBits", "bitsSleep", "use"}, bin : Bins]

Types ==
  /\ pool \in PoolRec /\ worker \in [Workers -> WorkerRec] /\ emu \in EmuRec /\ comp \in CompRec
  /\ job \in Picture /\ ctx \in [0 .. 1 -> Picture]
  /\ r \in [gen : Nat, pending : {0, bin_count}, display : 0 .. 1, frame : 0 .. MaxFrames]
  /\ ref \in [gen : Nat, nbins : {0, bin_count}, buf : 0 .. 1, frame : 0 .. MaxFrames]
  /\ phase \in {"lines", "vblank"}
  /\ out \in [0 .. 1 -> [Bins -> 0 .. MaxFrames]]

\* remaining_ counts the workers that have the job, thieves_ the thief.
Counted ==
  /\ pool.remaining = Cardinality(Busy)
  /\ pool.thieves = IF Stealing THEN 1 ELSE 0
  /\ \A i \in Workers : InJob(i) => i < pool.jobs /\ worker[i].seen = pool.gen /\ ~pool.stop
  /\ \A i \in Workers : worker[i].seen <= pool.gen

\* A claimed bin is behind the cursor, and is claimed once.
Claimed ==
  /\ \A i \in Workers : Drawing(i) => worker[i].bin < pool.next /\ worker[i].bin \in Bins
  /\ Stealing => emu.bin < pool.next
  /\ OneDrawer

\* Where the emulation thread may be.
Places ==
  /\ emu.pc \in {"synced", "prep", "stop"} => idle
  /\ pool.stop <=> emu.pc \in {"stopNotify", "join"}
  /\ emu.pc \in {"use", "waitBits", "bitsSleep"} => emu.then = "use"
  /\ emu.pc \in {"waitIdle", "idleSleep", "synced"} => emu.then # "use"
  /\ Rendering => r.frame < MaxFrames /\ phase = "vblank"
  /\ pool.stop => idle
  /\ Ending => comp.pc = "none"

Inv == Types /\ Counted /\ Claimed /\ Places

-----------------------------------------------------------------------------
(* The emulation thread and the compositor, while the pool is left alone.  *)

\* The last bin is a bin.
LEMMA LastBin == bin_count - 1 \in Bins /\ 0 \in Bins
BY SizeAssumption DEF Bins

\* A step that neither changes the pool, its workers and the pictures nor
\* begins or ends a theft.
LEMMA Elsewhere ==
  ASSUME Inv, UNCHANGED <<pool, worker, job, ctx, r, ref, out>>,
         emu' \in EmuRec, comp' \in CompRec, phase' \in {"lines", "vblank"},
         Stealing' = Stealing, emu'.bin = emu.bin
  PROVE  Types' /\ Counted' /\ Claimed'
<1>1. Types'
  BY DEF Inv, Types
<1>2. Busy' = Busy
  BY DEF Busy, InJob, Owes
<1>3. Counted'
  BY <1>2 DEF Inv, Counted, InJob
<1>4. Claimed'
  BY DEF Inv, Claimed, OneDrawer, Drawing
<1> QED
  BY <1>1, <1>3, <1>4

\* The emulation thread moves on within what it does.
LEMMA EmuMoves ==
  ASSUME Inv, UNCHANGED <<pool, worker, job, ctx, r, ref, out, comp, phase>>,
         NEW pc \in EmuPcs, emu' = [emu EXCEPT !.pc = pc],
         Stealing' = Stealing
  PROVE  /\ Types' /\ Counted' /\ Claimed'
         /\ emu'.pc = pc /\ emu'.then = emu.then /\ emu'.upto = emu.upto /\ emu'.bin = emu.bin
<1>1. emu' \in EmuRec /\ emu'.pc = pc /\ emu'.then = emu.then /\ emu'.upto = emu.upto /\ emu'.bin = emu.bin
  BY DEF Inv, Types, EmuRec
<1> QED
  BY <1>1, Elsewhere DEF Inv, Types

\* The line has been read.
LEMMA UseKeeps == ASSUME Inv, Use PROVE Inv'
<1> DEFINE pc == "free"
<1>1. /\ UNCHANGED <<pool, worker, job, ctx, r, ref, out, comp, phase>>
      /\ emu' = [emu EXCEPT !.pc = pc] /\ emu.pc = "use" /\ pc \in EmuPcs
  BY DEF Use, Goto, Emu, EmuPcs, SyncPcs
<1>2. Stealing' = Stealing
  BY <1>1 DEF Stealing, Inv, Types, EmuRec
<1>3. Types' /\ Counted' /\ Claimed' /\ emu'.pc = pc /\ emu'.then = emu.then
  BY <1>1, <1>2, EmuMoves
<1>4. Places'
  BY <1>1, <1>3 DEF Inv, Types, EmuRec, Places, Rendering, Ending, Syncing, SyncPcs, idle
<1> QED
  BY <1>3, <1>4 DEF Inv

\* An identical frame is kept.
LEMMA RenderKeptKeeps == ASSUME Inv, RenderKept PROVE Inv'
<1> DEFINE pc == "free"
<1>1. /\ UNCHANGED <<pool, worker, job, ctx, r, ref, out, comp, phase>>
      /\ emu' = [emu EXCEPT !.pc = pc] /\ emu.pc = "prep" /\ pc \in EmuPcs
  BY DEF RenderKept, Goto, Emu, EmuPcs, SyncPcs
<1>2. Stealing' = Stealing
  BY <1>1 DEF Stealing, Inv, Types, EmuRec
<1>3. Types' /\ Counted' /\ Claimed' /\ emu'.pc = pc /\ emu'.then = emu.then
  BY <1>1, <1>2, EmuMoves
<1>4. Places'
  BY <1>1, <1>3 DEF Inv, Types, EmuRec, Places, Rendering, Ending, Syncing, SyncPcs, idle
<1> QED
  BY <1>3, <1>4 DEF Inv

\* steal_bins looks whether what it is after is done.
LEMMA StealKeeps == ASSUME Inv, Steal PROVE Inv'
<1> DEFINE pc == IF done(Gen, emu.upto) THEN After(TRUE) ELSE "claimIf"
<1>1. /\ UNCHANGED <<pool, worker, job, ctx, r, ref, out, comp, phase>>
      /\ emu' = [emu EXCEPT !.pc = pc] /\ emu.pc = "steal" /\ pc \in EmuPcs
  BY DEF Steal, Goto, Emu, After, EmuPcs, SyncPcs
<1>2. Stealing' = Stealing
  BY <1>1 DEF Stealing, Inv, Types, EmuRec, After
<1>3. Types' /\ Counted' /\ Claimed' /\ emu'.pc = pc /\ emu'.then = emu.then
  BY <1>1, <1>2, EmuMoves
<1>4. Places'
  BY <1>1, <1>3 DEF Inv, Types, EmuRec, Places, Rendering, Ending, Syncing, SyncPcs, idle, After
<1> QED
  BY <1>3, <1>4 DEF Inv

\* wait_idle returns only when it finds the pool idle.
LEMMA WaitIdleKeeps == ASSUME Inv, WaitIdle PROVE Inv'
<1> DEFINE pc == IF idle THEN "synced" ELSE "idleSleep"
<1>1. /\ UNCHANGED <<pool, worker, job, ctx, r, ref, out, comp, phase>>
      /\ emu' = [emu EXCEPT !.pc = pc] /\ emu.pc = "waitIdle" /\ pc \in EmuPcs
  BY DEF WaitIdle, Goto, Emu, EmuPcs, SyncPcs
<1>2. Stealing' = Stealing
  BY <1>1 DEF Stealing, Inv, Types, EmuRec
<1>3. Types' /\ Counted' /\ Claimed' /\ emu'.pc = pc /\ emu'.then = emu.then
  BY <1>1, <1>2, EmuMoves
<1>4. Places'
  BY <1>1, <1>3 DEF Inv, Types, EmuRec, Places, Rendering, Ending, Syncing, SyncPcs, idle
<1> QED
  BY <1>3, <1>4 DEF Inv

\* wait_bits looks at its predicate.
LEMMA WaitBitsKeeps == ASSUME Inv, WaitBits PROVE Inv'
<1> DEFINE pc == IF done(ref.gen, emu.upto) THEN "use" ELSE "bitsSleep"
<1>1. /\ UNCHANGED <<pool, worker, job, ctx, r, ref, out, comp, phase>>
      /\ emu' = [emu EXCEPT !.pc = pc] /\ emu.pc = "waitBits" /\ pc \in EmuPcs
  BY DEF WaitBits, Goto, Emu, EmuPcs, SyncPcs
<1>2. Stealing' = Stealing
  BY <1>1 DEF Stealing, Inv, Types, EmuRec
<1>3. Types' /\ Counted' /\ Claimed' /\ emu'.pc = pc /\ emu'.then = emu.then
  BY <1>1, <1>2, EmuMoves
<1>4. Places'
  BY <1>1, <1>3 DEF Inv, Types, EmuRec, Places, Rendering, Ending, Syncing, SyncPcs, idle
<1> QED
  BY <1>3, <1>4 DEF Inv

\* A wait wakes for no reason, or because it was notified.
LEMMA EmuSpuriousKeeps == ASSUME Inv, EmuSpurious PROVE Inv'
<1> DEFINE pc == IF emu.pc = "idleSleep" THEN "waitIdle" ELSE "waitBits"
<1>1. /\ UNCHANGED <<pool, worker, job, ctx, r, ref, out, comp, phase>>
      /\ emu' = [emu EXCEPT !.pc = pc] /\ emu.pc \in {"idleSleep", "bitsSleep"} /\ pc \in EmuPcs
  BY DEF EmuSpurious, Rouse, Asleep, Inv, Types, EmuRec, EmuPcs, SyncPcs
<1>2. Stealing' = Stealing
  BY <1>1 DEF Stealing, Inv, Types, EmuRec
<1>3. Types' /\ Counted' /\ Claimed' /\ emu'.pc = pc /\ emu'.then = emu.then
  BY <1>1, <1>2, EmuMoves
<1>4. Places'
  BY <1>1, <1>3 DEF Inv, Types, EmuRec, Places, Rendering, Ending, Syncing, SyncPcs, idle
<1> QED
  BY <1>3, <1>4 DEF Inv

\* sync_line begins: a line of the frame on display is asked for.
LEMMA SyncLineKeeps == ASSUME Inv, NEW bin \in Bins, SyncLine(bin) PROVE Inv'
<1>1. /\ emu' \in EmuRec /\ emu'.pc = "steal" /\ emu'.upto = bin /\ emu'.then = "use" /\ emu'.bin = emu.bin
      /\ UNCHANGED <<pool, worker, job, ctx, r, ref, out, comp, phase>> /\ emu.pc = "free"
  BY DEF SyncLine, Inv, Types, EmuRec, EmuPcs, SyncPcs
<1>2. Stealing' = Stealing
  BY <1>1 DEF Stealing
<1>3. Types' /\ Counted' /\ Claimed'
  BY <1>1, <1>2, Elsewhere DEF Inv, Types
<1>4. Places'
  BY <1>1 DEF Inv, Places, Rendering, Ending, Syncing, SyncPcs, idle
<1> QED
  BY <1>3, <1>4 DEF Inv

\* sync_all begins, from wherever it is called.
LEMMA SyncAllMoves ==
  ASSUME Inv, NEW then \in {"free", "prep", "stop"}, sync_all(then), emu.pc = "free",
         UNCHANGED <<pool, worker, job, ctx, r, ref, out, comp>>, phase' \in {"lines", "vblank"}
  PROVE  /\ Types' /\ Counted' /\ Claimed'
         /\ emu'.pc \in {"steal", "waitIdle", "synced"} /\ emu'.then = then
         /\ emu'.pc = "synced" => idle
<1>1. /\ emu' \in EmuRec /\ emu'.pc \in {"steal", "waitIdle", "synced"} /\ emu'.then = then
      /\ emu'.bin = emu.bin /\ (emu'.pc = "synced" => idle)
  BY LastBin DEF sync_all, Inv, Types, EmuRec, EmuPcs, SyncPcs
<1>2. Stealing' = Stealing
  BY <1>1 DEF Stealing
<1> QED
  BY <1>1, <1>2, Elsewhere DEF Inv, Types

\* Before texture memory changes, or a state is saved.
LEMMA SyncRasterKeeps == ASSUME Inv, SyncRaster PROVE Inv'
<1>1. /\ Types' /\ Counted' /\ Claimed'
      /\ emu'.pc \in {"steal", "waitIdle", "synced"} /\ emu'.then = "free" /\ (emu'.pc = "synced" => idle)
  BY SyncAllMoves DEF SyncRaster, Inv, Types
<1>2. Places'
  BY <1>1 DEF SyncRaster, Inv, Places, Rendering, Ending, Syncing, SyncPcs, idle
<1> QED
  BY <1>1, <1>2 DEF Inv

\* Line 215, with a frame to draw.
LEMMA RenderFrameKeeps == ASSUME Inv, RenderFrame PROVE Inv'
<1>1. /\ Types' /\ Counted' /\ Claimed'
      /\ emu'.pc \in {"steal", "waitIdle", "synced"} /\ emu'.then = "prep" /\ (emu'.pc = "synced" => idle)
  BY SyncAllMoves DEF RenderFrame
<1>2. Places'
  BY <1>1 DEF RenderFrame, Inv, Places, Rendering, Ending, Syncing, SyncPcs, idle
<1> QED
  BY <1>1, <1>2 DEF Inv

\* The renderer is destroyed.
LEMMA DestroyKeeps == ASSUME Inv, Destroy PROVE Inv'
<1>1. /\ Types' /\ Counted' /\ Claimed'
      /\ emu'.pc \in {"steal", "waitIdle", "synced"} /\ emu'.then = "stop" /\ (emu'.pc = "synced" => idle)
  BY SyncAllMoves DEF Destroy, Inv, Types
<1>2. Places'
  BY <1>1 DEF Destroy, Inv, Places, Rendering, Ending, Syncing, SyncPcs, idle
<1> QED
  BY <1>1, <1>2 DEF Inv

\* Line 215, and no frame is drawn.
LEMMA SkipFrameKeeps == ASSUME Inv, SkipFrame PROVE Inv'
<1>1. Types' /\ Counted' /\ Claimed'
  BY Elsewhere DEF SkipFrame, Inv, Types, Stealing
<1>2. Places'
  BY DEF SkipFrame, Inv, Places, Rendering, Ending, Syncing, SyncPcs, idle
<1> QED
  BY <1>1, <1>2 DEF Inv

\* Line 0: the display is on the last frame drawn.
LEMMA BeginFrameKeeps == ASSUME Inv, BeginFrame PROVE Inv'
<1>1. Types'
  BY DEF BeginFrame, Inv, Types
<1>2. Counted' /\ Claimed'
  BY DEF BeginFrame, Inv, Counted, Claimed, Busy, InJob, Owes, Stealing, OneDrawer, Drawing
<1>3. Places'
  BY DEF BeginFrame, Inv, Places, Rendering, Ending, Syncing, SyncPcs, idle
<1> QED
  BY <1>1, <1>2, <1>3 DEF Inv

\* The compositor takes a batch, looks, waits and reads: the pool is not its own.
LEMMA CompMoves ==
  ASSUME Inv, comp' \in CompRec, UNCHANGED <<pool, worker, job, ctx, r, ref, out, emu, phase>>,
         Ending => comp'.pc = "none"
  PROVE  Inv'
<1>1. Types' /\ Counted' /\ Claimed'
  BY Elsewhere DEF Inv, Types, Stealing
<1>2. Places'
  BY DEF Inv, Places, Rendering, Ending, Syncing, idle
<1> QED
  BY <1>1, <1>2 DEF Inv

\* Every step of the compositor is such a move.
LEMMA CompKeeps ==
  ASSUME Inv, CompStep \/ CompSpurious \/ (\E bin \in Bins : HandOver(bin))
  PROVE  Inv'
<1>1. CASE CompGen \/ CompBits \/ CompWait \/ CompSpurious
  BY <1>1, CompMoves DEF CompGen, CompBits, CompWait, CompSpurious, Comp, Inv, Types, CompRec, Places
<1>2. CASE CompUse
  BY <1>2, CompMoves, LastBin, SizeAssumption DEF CompUse, Inv, Types, CompRec, Places, Bins
<1>3. ASSUME NEW bin \in Bins, HandOver(bin) PROVE Inv'
  BY <1>3, CompMoves DEF HandOver, Inv, Types, CompRec, Places, Ending, Syncing, SyncPcs
<1> QED
  BY <1>1, <1>2, <1>3 DEF CompStep

-----------------------------------------------------------------------------
(* The emulation thread: frames and thefts.                                *)

\* No more workers have the job than there are.
LEMMA BusyFinite == IsFiniteSet(Busy) /\ Cardinality(Busy) \in Nat /\ Cardinality(Busy) <= W
<1>1. IsFiniteSet(Workers) /\ Cardinality(Workers) = W
  BY FS_Interval, SizeAssumption DEF Workers
<1> QED
  BY <1>1, FS_Subset, FS_CardinalityType DEF Busy

\* An idle pool has nobody in the job and nobody who owes it.
LEMMA IdleNobody == ASSUME Inv, idle PROVE Busy = {} /\ ~Stealing /\ \A i \in Workers : ~InJob(i) /\ ~Owes(i)
<1>1. Busy = {}
  BY BusyFinite, FS_EmptySet DEF Inv, Counted, idle
<1>2. ~Stealing
  BY DEF Inv, Counted, idle
<1> QED
  BY <1>1, <1>2 DEF Busy

\* sync_all is over.
LEMMA SyncedKeeps == ASSUME Inv, Synced PROVE Inv'
<1>1. /\ emu' \in EmuRec /\ emu'.pc = emu.then /\ emu'.then = emu.then /\ emu'.bin = emu.bin
      /\ emu.then \in {"free", "prep", "stop"} /\ emu.pc = "synced"
  BY DEF Synced, Emu, Inv, Types, EmuRec, EmuPcs, SyncPcs, Places
<1>2. r' \in [gen : Nat, pending : {0, bin_count}, display : 0 .. 1, frame : 0 .. MaxFrames] /\ r'.frame = r.frame
  BY DEF Synced, Inv, Types
<1>3. Types'
  BY <1>1, <1>2 DEF Synced, Inv, Types
<1>4. Counted' /\ Claimed'
  BY <1>1 DEF Synced, Inv, Counted, Claimed, Busy, InJob, Owes, Stealing, OneDrawer, Drawing
<1>5. Places'
  BY <1>1, <1>2 DEF Synced, Inv, Places, Rendering, Ending, Syncing, SyncPcs, idle
<1> QED
  BY <1>3, <1>4, <1>5 DEF Inv

\* A nearly empty frame is drawn on the spot.
LEMMA RenderInlineKeeps == ASSUME Inv, RenderInline PROVE Inv'
<1>1. emu' \in EmuRec /\ emu'.pc = "free" /\ emu.pc = "prep"
  BY DEF RenderInline, Emu, Inv, Types, EmuRec, EmuPcs, SyncPcs
<1>2. r.frame + 1 \in 0 .. MaxFrames
  BY <1>1, SizeAssumption DEF Inv, Types, Places, Rendering
<1>3. Other(r.display) \in 0 .. 1
  BY DEF Inv, Types, Other
<1>4. r' \in [gen : Nat, pending : {0, bin_count}, display : 0 .. 1, frame : 0 .. MaxFrames]
  BY <1>2, <1>3 DEF RenderInline, Inv, Types
<1>5. out' \in [0 .. 1 -> [Bins -> 0 .. MaxFrames]]
  BY <1>2, <1>3 DEF RenderInline, Inv, Types
<1>6. Types'
  BY <1>1, <1>4, <1>5 DEF RenderInline, Inv, Types
<1>7. Counted' /\ Claimed'
  BY <1>1 DEF RenderInline, Inv, Counted, Claimed, Busy, InJob, Owes, Stealing, OneDrawer, Drawing
<1>8. Places'
  BY <1>1 DEF RenderInline, Inv, Places, Rendering, Ending, Syncing, SyncPcs, idle
<1> QED
  BY <1>6, <1>7, <1>8 DEF Inv

\* dispatch() in a record.
LEMMA DispatchFields ==
  ASSUME NEW p \in PoolRec, NEW jobs \in 1 .. W
  PROVE  /\ dispatch(p, jobs) \in PoolRec
         /\ dispatch(p, jobs).gen = p.gen + 1 /\ dispatch(p, jobs).bits = {} /\ dispatch(p, jobs).next = 0
         /\ dispatch(p, jobs).jobs = jobs /\ dispatch(p, jobs).remaining = jobs
         /\ dispatch(p, jobs).thieves = p.thieves /\ dispatch(p, jobs).stop = p.stop
         /\ dispatch(p, jobs).size = p.size
BY SizeAssumption DEF dispatch, PoolRec

\* A frame is dispatched: everybody who is to draw owes it.
LEMMA RenderBandsKeeps == ASSUME Inv, NEW nb \in 1 .. W, RenderBands(nb) PROVE Inv'
<1> DEFINE grow == pool.size < nb
           size == IF layout THEN nb ELSE W
           p == IF grow THEN Pool(size) ELSE pool
<1>1. /\ pool' = dispatch(p, nb) /\ worker' = (IF grow THEN Loops(size) ELSE worker)
      /\ emu.pc = "prep" /\ UNCHANGED <<comp, ref, phase, out>>
  BY DEF RenderBands
<1>2. idle /\ ~Stealing /\ ~pool.stop /\ \A i \in Workers : ~InJob(i)
  BY <1>1, IdleNobody DEF Inv, Places
<1>3. size \in 0 .. W /\ size >= nb
  BY SizeAssumption
<1>4. p \in PoolRec /\ p.thieves = 0 /\ p.stop = FALSE
  <2>1. Pool(size) \in PoolRec /\ Pool(size).thieves = 0 /\ Pool(size).stop = FALSE
    <3> HIDE DEF size
    <3> QED  BY <1>3, SizeAssumption DEF PoolRec, Pool
  <2>2. pool \in PoolRec /\ pool.thieves = 0 /\ pool.stop = FALSE
    BY <1>2 DEF Inv, Types, PoolRec, idle
  <2> QED
    BY <2>1, <2>2
<1>5. \A i \in Workers : worker'[i] \in WorkerRec /\ worker'[i].seen <= p.gen /\ worker'[i].pc \notin JobPcs
  BY <1>1, <1>2 DEF Inv, Types, Counted, WorkerRec, Loops, Pool, InJob, JobPcs
<1>6. worker' \in [Workers -> WorkerRec]
  BY <1>1, <1>5 DEF Inv, Types, Loops
<1>7. /\ pool' \in PoolRec /\ pool'.gen = p.gen + 1 /\ pool'.next = 0 /\ pool'.jobs = nb /\ pool'.remaining = nb
      /\ pool'.thieves = 0 /\ pool'.stop = FALSE
  BY <1>1, <1>4, DispatchFields
<1> HIDE DEF p, grow, size
<1>8. emu' \in EmuRec /\ emu'.pc = "notify"
  BY DEF RenderBands, Emu, Inv, Types, EmuRec, EmuPcs
<1>9. r.frame + 1 \in 0 .. MaxFrames /\ Other(r.display) \in 0 .. 1
  BY <1>1, SizeAssumption DEF Inv, Types, Places, Rendering, Other
<1>10. job' \in Picture
  BY <1>9 DEF RenderBands, Picture, Target
<1>11. ctx' \in [0 .. 1 -> Picture]
  BY <1>10 DEF RenderBands, Inv, Types
<1>12. r' \in [gen : Nat, pending : {0, bin_count}, display : 0 .. 1, frame : 0 .. MaxFrames]
  BY <1>7, <1>9 DEF RenderBands, PoolRec
<1>13. Types'
  BY <1>1, <1>6, <1>7, <1>8, <1>10, <1>11, <1>12 DEF Inv, Types
<1>14. Counted'
  <2>1. Busy' = 0 .. nb - 1
    <3>1. ASSUME NEW i \in Workers PROVE i \in Busy' <=> i < nb
      <4>1. worker'[i].seen # pool'.gen
        BY <1>4, <1>5, <1>7 DEF PoolRec, WorkerRec
      <4> QED
        BY <1>5, <1>7, <4>1 DEF Busy, InJob, Owes
    <3>2. Busy' \subseteq Workers
      BY DEF Busy
    <3>3. 0 .. nb - 1 \subseteq Busy'
      BY <3>1, SizeAssumption DEF Workers
    <3>4. Busy' \subseteq 0 .. nb - 1
      BY <3>1, <3>2, SizeAssumption DEF Workers
    <3> QED
      BY <3>3, <3>4
  <2>2. Cardinality(0 .. nb - 1) = nb
    BY FS_Interval
  <2>3. ~Stealing'
    BY <1>8 DEF Stealing
  <2> QED
    BY <1>4, <1>5, <1>7, <2>1, <2>2, <2>3 DEF Counted, InJob, PoolRec, WorkerRec
<1>15. Claimed'
  BY <1>5, <1>8 DEF Claimed, OneDrawer, Drawing, Stealing, JobPcs
<1>16. Places'
  BY <1>7, <1>8 DEF Places, Rendering, Ending, Syncing, SyncPcs
<1> QED
  BY <1>13, <1>14, <1>15, <1>16 DEF Inv

\* A wake-up changes who is asleep, and nothing else.
LEMMA Woken ==
  ASSUME NEW x \in EmuRec
  PROVE  /\ Rouse(x) \in EmuRec /\ Rouse(x).then = x.then /\ Rouse(x).bin = x.bin /\ Rouse(x).upto = x.upto
         /\ Rouse(x).pc = IF x.pc = "idleSleep" THEN "waitIdle"
                          ELSE IF x.pc = "bitsSleep" THEN "waitBits" ELSE x.pc
BY DEF Rouse, EmuRec, EmuPcs, SyncPcs

\* The same for the compositor, which sleeps in wait_bits alone.
LEMMA CompWoken ==
  ASSUME NEW x \in CompRec
  PROVE  /\ Rouse(x) \in CompRec /\ Rouse(x).bin = x.bin
         /\ Rouse(x).pc = IF x.pc = "bitsSleep" THEN "waitBits" ELSE x.pc
BY DEF Rouse, CompRec

\* Where the threads are after a notify_all, if an idle pool stays idle.
LEMMA WokenPlaces ==
  ASSUME Inv, emu' = Rouse(emu), comp' = Rouse(comp), UNCHANGED <<r, phase>>,
         pool'.stop = pool.stop, idle => idle'
  PROVE  Places' /\ emu' \in EmuRec /\ comp' \in CompRec /\ Stealing' = Stealing /\ emu'.bin = emu.bin
<1>1. /\ emu' \in EmuRec /\ emu'.then = emu.then /\ emu'.bin = emu.bin
      /\ emu'.pc = IF emu.pc = "idleSleep" THEN "waitIdle"
                   ELSE IF emu.pc = "bitsSleep" THEN "waitBits" ELSE emu.pc
  BY Woken DEF Inv, Types
<1>2. comp' \in CompRec /\ (comp.pc = "none" => comp'.pc = "none")
  BY CompWoken DEF Inv, Types
<1>3. Stealing' = Stealing
  BY <1>1 DEF Stealing
<1>4. Rendering' = Rendering /\ Ending' = Ending
  BY <1>1 DEF Rendering, Ending, Syncing, SyncPcs
<1>5. Places'
  BY <1>1, <1>2, <1>4 DEF Inv, Places
<1> QED
  BY <1>1, <1>2, <1>3, <1>5

\* Another step of the emulation thread that does not end a wait.
LEMMA ThiefPlaces ==
  ASSUME Inv, UNCHANGED <<comp, r, phase>>, emu.pc \in {"claimIf", "draw", "thiefDone", "thiefNotify"},
         emu'.pc \in {"steal", "claimIf", "draw", "thiefDone", "thiefNotify", After(TRUE), After(FALSE)},
         emu'.then = emu.then, pool'.stop = pool.stop
  PROVE  Places'
<1>1. ~pool.stop
  BY DEF Inv, Places
<1> QED
  BY <1>1 DEF Inv, Places, Types, EmuRec, Rendering, Ending, Syncing, SyncPcs, After

\* The workers that were given the job are told.
LEMMA NotifyKeeps == ASSUME Inv, Notify PROVE Inv'
<1>1. emu' \in EmuRec /\ emu'.pc = "free" /\ emu.pc = "notify"
  BY DEF Notify, Emu, Inv, Types, EmuRec, EmuPcs, SyncPcs
<1>2. \A i \in Workers : /\ worker'[i] \in WorkerRec /\ worker'[i].seen = worker[i].seen
                         /\ worker'[i].bin = worker[i].bin
                         /\ worker[i].pc # "asleep" => worker'[i].pc = worker[i].pc
                         /\ worker[i].pc = "asleep" => worker'[i].pc \in {"asleep", "wait"}
  BY DEF Notify, Inv, Types, WorkerRec
<1>3. worker' \in [Workers -> WorkerRec]
  BY <1>2 DEF Notify
<1>4. Types'
  BY <1>1, <1>3 DEF Notify, Inv, Types
<1>5. /\ UNCHANGED pool /\ ~Stealing /\ ~Stealing'
      /\ \A i \in Workers : InJob(i)' = InJob(i) /\ Owes(i)' = Owes(i) /\ Drawing(i)' = Drawing(i)
  BY <1>1, <1>2 DEF Notify, InJob, Owes, Drawing, JobPcs, Stealing
<1>6. Busy' = Busy
  BY <1>5 DEF Busy
<1>7. Counted'
  BY <1>2, <1>5, <1>6 DEF Inv, Counted
<1>8. Claimed'
  BY <1>2, <1>5 DEF Inv, Claimed, OneDrawer
<1>9. Places'
  BY <1>1, <1>5 DEF Notify, Inv, Places, Rendering, Ending, Syncing, SyncPcs
<1> QED
  BY <1>4, <1>7, <1>8, <1>9 DEF Inv

\* claim_if in a record.
LEMMA ClaimIfFields ==
  ASSUME NEW gen, pool \in PoolRec
  PROVE  LET p == claim_if(gen) IN
         /\ p \in PoolRec /\ p.gen = pool.gen /\ p.bits = pool.bits /\ p.size = pool.size /\ p.jobs = pool.jobs
         /\ p.remaining = pool.remaining /\ p.stop = pool.stop
         /\ p.next = IF pool.gen = gen THEN pool.next + 1 ELSE pool.next
         /\ p.thieves = IF pool.gen = gen /\ pool.next < bin_count THEN pool.thieves + 1 ELSE pool.thieves
<1> DEFINE n == [pool EXCEPT !.next = @ + 1]
<1>1. CASE pool.gen # gen
  BY <1>1 DEF claim_if, PoolRec
<1>2. CASE pool.gen = gen /\ pool.next < bin_count
  <2>1. claim_if(gen) = [n EXCEPT !.thieves = @ + 1]
    BY <1>2 DEF claim_if, PoolRec
  <2>2. /\ n \in PoolRec /\ n.gen = pool.gen /\ n.bits = pool.bits /\ n.size = pool.size /\ n.jobs = pool.jobs
        /\ n.remaining = pool.remaining /\ n.stop = pool.stop /\ n.next = pool.next + 1 /\ n.thieves = pool.thieves
    BY DEF PoolRec
  <2> HIDE DEF n
  <2> QED
    BY <1>2, <2>1, <2>2 DEF PoolRec
<1>3. CASE pool.gen = gen /\ ~(pool.next < bin_count)
  <2>1. claim_if(gen) = n
    BY <1>3 DEF claim_if, PoolRec
  <2> QED
    BY <1>3, <2>1 DEF PoolRec
<1> QED
  BY <1>1, <1>2, <1>3

\* The emulation thread steals a bin, or finds none.
LEMMA ClaimIfKeeps == ASSUME Inv, ClaimIf PROVE Inv'
<1>1. pool \in PoolRec /\ emu \in EmuRec /\ emu.pc = "claimIf" /\ pool.next \in Nat /\ pool' = claim_if(Gen)
  BY DEF ClaimIf, Inv, Types, PoolRec
<1>2. /\ pool' \in PoolRec /\ pool'.gen = pool.gen /\ pool'.jobs = pool.jobs
      /\ pool'.remaining = pool.remaining /\ pool'.stop = pool.stop
      /\ pool'.next = IF pool.gen = Gen THEN pool.next + 1 ELSE pool.next
      /\ pool'.thieves = IF pool.gen = Gen /\ pool.next < bin_count THEN pool.thieves + 1 ELSE pool.thieves
  BY <1>1, ClaimIfFields
<1> DEFINE taken == pool.gen = Gen /\ pool.next < bin_count
<1>3. /\ emu' \in EmuRec /\ emu'.then = emu.then
      /\ taken => emu'.pc = "draw" /\ emu'.bin = pool.next
      /\ ~taken => emu'.pc \in {After(TRUE), After(FALSE)}
  <2>1. CASE taken
    <3>1. emu' = [emu EXCEPT !.pc = "draw", !.bin = pool.next] /\ pool.next \in Bins
      BY <1>1, <2>1, SizeAssumption DEF ClaimIf, Bins
    <3> QED
      BY <1>1, <2>1, <3>1 DEF EmuRec, EmuPcs, SyncPcs
  <2>2. CASE ~taken
    <3>1. emu' = [emu EXCEPT !.pc = After(done(Gen, emu.upto))]
      BY <2>2 DEF ClaimIf
    <3>2. After(done(Gen, emu.upto)) \in {After(TRUE), After(FALSE)} /\ {After(TRUE), After(FALSE)} \subseteq EmuPcs
      BY DEF After, EmuPcs, SyncPcs
    <3> HIDE DEF taken
    <3> QED
      BY <1>1, <2>2, <3>1, <3>2 DEF EmuRec
  <2> QED
    BY <2>1, <2>2
<1>4. Types'
  BY <1>2, <1>3 DEF ClaimIf, Inv, Types
<1>5. ~Stealing /\ (Stealing' <=> taken)
  BY <1>1, <1>3 DEF Stealing, After
<1>6. pool.thieves = 0
  BY <1>5 DEF Inv, Counted
<1>7. Busy' = Busy
  BY <1>2 DEF ClaimIf, Busy, InJob, Owes
<1>8. Counted'
  <2>1. \A i \in Workers : InJob(i)' = InJob(i) /\ worker'[i] = worker[i]
    BY DEF ClaimIf, InJob
  <2> QED
    BY <1>2, <1>5, <1>6, <1>7, <2>1 DEF Inv, Counted
<1>9. Claimed'
  <2>1. \A i \in Workers : Drawing(i)' = Drawing(i) /\ worker'[i] = worker[i]
    BY DEF ClaimIf, Drawing
  <2>2. \A i \in Workers : worker[i].bin \in Nat
    BY DEF Inv, Types, WorkerRec
  <2>3. \A i \in Workers : Drawing(i) => worker[i].bin < pool.next /\ worker[i].bin < pool'.next
    <3>1. pool'.next >= pool.next /\ pool'.next \in Nat
      BY <1>1, <1>2 DEF PoolRec
    <3> QED
      BY <1>1, <2>2, <3>1 DEF Inv, Claimed
  <2>4. Stealing' => emu'.bin = pool.next /\ emu'.bin < pool'.next
    BY <1>1, <1>2, <1>3, <1>5
  <2> QED
    BY <1>1, <2>1, <2>2, <2>3, <2>4 DEF Inv, Claimed, OneDrawer
<1>10. Places'
  BY <1>1, <1>2, <1>3, ThiefPlaces DEF ClaimIf
<1> QED
  BY <1>4, <1>8, <1>9, <1>10 DEF Inv

\* A picture of a frame, put into a buffer.
LEMMA DrawnType ==
  ASSUME Types, NEW j \in Picture, NEW bin \in Bins
  PROVE  Drawn(j, bin) \in [0 .. 1 -> [Bins -> 0 .. MaxFrames]]
BY DEF Types, Drawn, Picture

\* The thief draws.
LEMMA StealDrawKeeps == ASSUME Inv, StealDraw PROVE Inv'
<1>1. emu' \in EmuRec /\ emu'.pc = "thiefDone" /\ emu.pc = "draw" /\ emu'.then = emu.then /\ emu'.bin = emu.bin
  BY DEF StealDraw, Emu, Inv, Types, EmuRec, EmuPcs, SyncPcs
<1>2. Gen \in Nat /\ ctx[Gen % 2] \in Picture /\ emu.bin \in Bins
  <2>1. Gen \in Nat
    BY DEF Gen, Inv, Types
  <2> QED
    BY <2>1 DEF Inv, Types, EmuRec
<1>3. out' \in [0 .. 1 -> [Bins -> 0 .. MaxFrames]]
  BY <1>2, DrawnType DEF StealDraw, Inv
<1>4. Types'
  BY <1>1, <1>3 DEF StealDraw, Inv, Types
<1>5. Counted' /\ Claimed'
  BY <1>1 DEF StealDraw, Inv, Counted, Claimed, Busy, InJob, Owes, Stealing, OneDrawer, Drawing
<1>6. Places'
  BY <1>1, ThiefPlaces DEF StealDraw
<1> QED
  BY <1>4, <1>5, <1>6 DEF Inv

\* thief_done.
LEMMA ThiefDoneKeeps == ASSUME Inv, ThiefDone PROVE Inv'
<1>1. /\ emu' \in EmuRec /\ emu'.pc = "thiefNotify" /\ emu.pc = "thiefDone" /\ emu'.then = emu.then
      /\ emu'.bin = emu.bin /\ emu.bin \in Bins
  BY DEF ThiefDone, Emu, Inv, Types, EmuRec, EmuPcs, SyncPcs
<1>2. pool.thieves = 1 /\ Stealing /\ ~Stealing'
  BY <1>1 DEF Stealing, Inv, Counted
<1>3. /\ pool' \in PoolRec /\ pool'.gen = pool.gen /\ pool'.jobs = pool.jobs /\ pool'.next = pool.next
      /\ pool'.remaining = pool.remaining /\ pool'.stop = pool.stop /\ pool'.thieves = 0
  <2> DEFINE m == [pool EXCEPT !.bits = @ \cup {emu.bin}]
  <2>1. pool' = [m EXCEPT !.thieves = @ - 1]
    BY DEF ThiefDone, Inv, Types, PoolRec
  <2>2. /\ m \in PoolRec /\ m.gen = pool.gen /\ m.jobs = pool.jobs /\ m.next = pool.next
        /\ m.remaining = pool.remaining /\ m.stop = pool.stop /\ m.thieves = 1
    BY <1>1, <1>2 DEF Inv, Types, PoolRec
  <2> HIDE DEF m
  <2> QED
    BY <2>1, <2>2 DEF PoolRec
<1>4. Types'
  BY <1>1, <1>3 DEF ThiefDone, Inv, Types
<1>5. Counted' /\ Claimed'
  <2>1. /\ UNCHANGED worker
        /\ \A i \in Workers : InJob(i)' = InJob(i) /\ Owes(i)' = Owes(i) /\ Drawing(i)' = Drawing(i)
    BY <1>3 DEF ThiefDone, InJob, Owes, Drawing
  <2>2. Busy' = Busy
    BY <2>1 DEF Busy
  <2> QED
    BY <1>2, <1>3, <2>1, <2>2 DEF Inv, Counted, Claimed, OneDrawer
<1>6. Places'
  BY <1>1, <1>3, ThiefPlaces DEF ThiefDone
<1> QED
  BY <1>4, <1>5, <1>6 DEF Inv

\* The thief's notify.
LEMMA ThiefNotifyKeeps == ASSUME Inv, ThiefNotify PROVE Inv'
<1>1. emu' \in EmuRec /\ emu'.pc = "steal" /\ emu.pc = "thiefNotify" /\ emu'.then = emu.then /\ emu'.bin = emu.bin
  BY DEF ThiefNotify, Emu, Inv, Types, EmuRec, EmuPcs, SyncPcs
<1>2. comp' \in CompRec /\ (comp.pc = "none" => comp'.pc = "none")
  BY CompWoken DEF ThiefNotify, Inv, Types
<1>3. Types' /\ Counted' /\ Claimed'
  BY <1>1, <1>2, Elsewhere DEF ThiefNotify, Stealing, Inv, Types
<1>4. Places'
  BY <1>1, <1>2 DEF ThiefNotify, Inv, Places, Rendering, Ending, Syncing, SyncPcs, idle
<1> QED
  BY <1>3, <1>4 DEF Inv

-----------------------------------------------------------------------------
(* The end of the renderer.                                                *)

\* ~Pool: the workers are to exit, and none has a job.
LEMMA StopKeeps == ASSUME Inv, Stop PROVE Inv'
<1>1. emu' \in EmuRec /\ emu'.pc = "stopNotify" /\ emu.pc = "stop"
  BY DEF Stop, Emu, Inv, Types, EmuRec, EmuPcs, SyncPcs
<1>2. idle /\ ~Stealing /\ ~Stealing' /\ Busy = {} /\ \A i \in Workers : ~InJob(i)
  BY <1>1, IdleNobody DEF Inv, Places, Stealing
<1>3. /\ pool' \in PoolRec /\ pool'.gen = pool.gen + 1 /\ pool'.stop = TRUE /\ pool'.remaining = pool.remaining
      /\ pool'.thieves = pool.thieves /\ pool'.next = pool.next
  <2> DEFINE m == [pool EXCEPT !.stop = TRUE]
  <2>1. pool' = [m EXCEPT !.gen = @ + 1]
    BY DEF Stop, Inv, Types, PoolRec
  <2>2. /\ m \in PoolRec /\ m.gen = pool.gen /\ m.next = pool.next /\ m.remaining = pool.remaining
        /\ m.stop = TRUE /\ m.thieves = pool.thieves
    BY DEF Inv, Types, PoolRec
  <2> HIDE DEF m
  <2> QED
    BY <2>1, <2>2 DEF PoolRec
<1>4. Types'
  BY <1>1, <1>3 DEF Stop, Inv, Types
<1>5. UNCHANGED worker /\ \A i \in Workers : ~InJob(i)' /\ ~Owes(i)' /\ ~Drawing(i)'
  BY <1>2, <1>3 DEF Stop, InJob, Owes, Drawing, JobPcs
<1>6. Busy' = {}
  BY <1>5 DEF Busy
<1>7. Counted'
  <2>1. \A i \in Workers : worker'[i].seen <= pool'.gen
    BY <1>3, <1>5 DEF Inv, Counted, Types, PoolRec, WorkerRec
  <2>2. pool'.remaining = Cardinality(Busy') /\ pool'.thieves = 0
    BY <1>2, <1>3, <1>6 DEF Inv, Counted
  <2> QED
    BY <1>2, <1>5, <2>1, <2>2 DEF Counted
<1>8. Claimed'
  BY <1>2, <1>5 DEF Claimed, OneDrawer
<1>9. Places'
  BY <1>1, <1>2, <1>3 DEF Stop, Inv, Places, Rendering, Ending, Syncing, SyncPcs, idle
<1> QED
  BY <1>4, <1>7, <1>8, <1>9 DEF Inv

\* Those asleep are told.
LEMMA StopNotifyKeeps == ASSUME Inv, StopNotify PROVE Inv'
<1>1. emu' \in EmuRec /\ emu'.pc = "join" /\ emu.pc = "stopNotify"
  BY DEF StopNotify, Emu, Inv, Types, EmuRec, EmuPcs, SyncPcs
<1>2. \A i \in Workers : /\ worker'[i] \in WorkerRec /\ worker'[i].seen = worker[i].seen
                         /\ worker'[i].bin = worker[i].bin
                         /\ worker[i].pc # "asleep" => worker'[i].pc = worker[i].pc
                         /\ worker[i].pc = "asleep" => worker'[i].pc = "wait"
  BY DEF StopNotify, Inv, Types, WorkerRec
<1>3. worker' \in [Workers -> WorkerRec]
  BY <1>2 DEF StopNotify
<1>4. Types'
  BY <1>1, <1>3 DEF StopNotify, Inv, Types
<1>5. /\ UNCHANGED pool /\ ~Stealing /\ ~Stealing'
      /\ \A i \in Workers : InJob(i)' = InJob(i) /\ Owes(i)' = Owes(i) /\ Drawing(i)' = Drawing(i)
  BY <1>1, <1>2 DEF StopNotify, InJob, Owes, Drawing, JobPcs, Stealing
<1>6. Busy' = Busy
  BY <1>5 DEF Busy
<1>7. Counted'
  BY <1>2, <1>5, <1>6 DEF Inv, Counted
<1>8. Claimed'
  BY <1>2, <1>5 DEF Inv, Claimed, OneDrawer
<1>9. Places'
  BY <1>1, <1>5 DEF StopNotify, Inv, Places, Rendering, Ending, Syncing, SyncPcs, idle
<1> QED
  BY <1>4, <1>7, <1>8, <1>9 DEF Inv

\* A renderer that has drawn nothing, and nobody to read its lines.
NewState == Renderer(pool, job, worker, emu, r, ctx, ref, phase, out) /\ comp \in CompRec /\ comp.pc = "none"

\* It has all of the invariant.
LEMMA NewRenderer == NewState => Inv
<1> SUFFICES ASSUME NewState PROVE Inv
  OBVIOUS
<1> USE DEF NewState, Renderer
<1>1. pool \in PoolRec /\ pool = Pool(0)
  BY SizeAssumption DEF Pool, PoolRec
<1>2. worker \in [Workers -> WorkerRec] /\ \A i \in Workers : worker[i].pc = "none" /\ worker[i].seen = 0
  BY DEF Loops, WorkerRec, Workers
<1>3. emu \in EmuRec /\ comp \in CompRec /\ emu.pc = "free" /\ emu.then = "free" /\ comp.pc = "none"
  BY LastBin DEF EmuRec, EmuPcs
<1>4. NoPicture \in Picture
  BY SizeAssumption DEF NoPicture, Picture
<1>5. out \in [0 .. 1 -> [Bins -> 0 .. MaxFrames]]
  BY SizeAssumption
<1>6. /\ r \in [gen : Nat, pending : {0, bin_count}, display : 0 .. 1, frame : 0 .. MaxFrames]
      /\ ref \in [gen : Nat, nbins : {0, bin_count}, buf : 0 .. 1, frame : 0 .. MaxFrames]
  BY SizeAssumption
<1>7. Types
  BY <1>1, <1>2, <1>3, <1>4, <1>5, <1>6 DEF Types
<1>8. ~Stealing /\ \A i \in Workers : ~InJob(i) /\ ~Owes(i) /\ ~Drawing(i)
  BY <1>1, <1>2, <1>3 DEF Stealing, InJob, Owes, Drawing, JobPcs, Pool, Workers
<1>9. Counted
  <2>1. Busy = {}
    BY <1>8 DEF Busy
  <2>2. Cardinality(Busy) = 0
    BY <2>1, FS_EmptySet
  <2> QED
    BY <1>1, <1>2, <1>8, <2>2 DEF Counted, Pool
<1>10. Claimed
  BY <1>8 DEF Claimed, OneDrawer
<1>11. Places
  BY <1>1, <1>3 DEF Places, Rendering, Ending, Syncing, SyncPcs, Pool, idle
<1> QED
  BY <1>7, <1>9, <1>10, <1>11 DEF Inv

\* All workers have been joined.
LEMMA JoinKeeps == ASSUME Inv, Join PROVE Inv'
<1>1. comp' \in CompRec /\ comp'.pc = "none"
  BY DEF Join, Inv, Types, Places, Ending
<1>2. NewState'
  BY <1>1 DEF Join, NewState
<1> QED
  BY <1>2, NewRenderer, PTL

-----------------------------------------------------------------------------
(* The workers.                                                            *)

\* One worker goes on: the count is kept when it had the job before and has
\* it after, or neither.
LEMMA WorkerCounted ==
  ASSUME Inv, NEW i \in Workers, NEW w \in WorkerRec, worker' = [worker EXCEPT ![i] = w],
         pool'.gen = pool.gen, pool'.jobs = pool.jobs, pool'.stop = pool.stop,
         pool'.remaining = pool.remaining, pool'.thieves = pool.thieves, Stealing' = Stealing,
         w.pc \in JobPcs <=> InJob(i) \/ (Owes(i) /\ w.seen = pool.gen),
         w.pc \in JobPcs => w.seen = pool.gen,
         w.pc \notin JobPcs => w.seen = worker[i].seen,
         w.seen <= pool.gen
  PROVE  Counted'
<1>1. worker'[i] = w /\ \A j \in Workers : j # i => worker'[j] = worker[j]
  BY DEF Inv, Types
<1>2. \A j \in Workers : j # i => InJob(j)' = InJob(j) /\ Owes(j)' = Owes(j)
  BY <1>1 DEF InJob, Owes
<1>3. (InJob(i) \/ Owes(i))' <=> (InJob(i) \/ Owes(i))
  BY <1>1 DEF InJob, Owes
<1>4. Busy' = Busy
  BY <1>2, <1>3 DEF Busy
<1>5. InJob(i)' => i < pool.jobs /\ ~pool.stop
  BY <1>1 DEF InJob, Owes, Inv, Counted
<1> QED
  BY <1>1, <1>2, <1>4, <1>5 DEF Inv, Counted, InJob

\* Its wait: a generation that includes it is taken.
LEMMA WorkerWaitKeeps == ASSUME Inv, NEW i \in Workers, WorkerWait(i) PROVE Inv'
<1> DEFINE w == IF pool.stop THEN [worker[i] EXCEPT !.pc = "exited"]
                ELSE IF pool.gen # worker[i].seen /\ i < pool.jobs
                     THEN [worker[i] EXCEPT !.pc = "claim", !.seen = pool.gen]
                ELSE [worker[i] EXCEPT !.pc = "asleep"]
<1>1. worker' = [worker EXCEPT ![i] = w] /\ worker[i].pc = "wait" /\ worker[i] \in WorkerRec
  BY DEF WorkerWait, Inv, Types
<1>2. pool \in PoolRec /\ worker[i].seen <= pool.gen
  BY DEF Inv, Types, Counted
<1>3. /\ w \in WorkerRec /\ w.pc \in {"exited", "claim", "asleep"}
      /\ w.pc = "claim" <=> Owes(i)
      /\ w.seen = IF w.pc = "claim" THEN pool.gen ELSE worker[i].seen
  <2>1. CASE pool.stop
    BY <1>1, <2>1 DEF WorkerRec, Owes
  <2>2. CASE ~pool.stop /\ pool.gen # worker[i].seen /\ i < pool.jobs
    <3>1. w = [pc |-> "claim", seen |-> pool.gen, bin |-> worker[i].bin]
      BY <1>1, <2>2 DEF WorkerRec
    <3> HIDE DEF w
    <3> QED
      BY <1>1, <1>2, <2>2, <3>1 DEF WorkerRec, Owes, JobPcs, PoolRec
  <2>3. CASE ~pool.stop /\ ~(pool.gen # worker[i].seen /\ i < pool.jobs)
    BY <1>1, <2>3 DEF WorkerRec, Owes
  <2> QED
    BY <2>1, <2>2, <2>3
<1> HIDE DEF w
<1>4. UNCHANGED <<pool, job, emu, comp, r, ctx, ref, phase, out>> /\ Stealing' = Stealing
  BY DEF WorkerWait, Stealing
<1>5. worker' \in [Workers -> WorkerRec] /\ worker'[i] = w /\ \A j \in Workers : j # i => worker'[j] = worker[j]
  BY <1>1, <1>3 DEF Inv, Types
<1>6. Types'
  BY <1>4, <1>5 DEF Inv, Types
<1>7. Counted'
  <2>1. w.pc \in JobPcs <=> InJob(i) \/ (Owes(i) /\ w.seen = pool.gen)
    BY <1>1, <1>3 DEF InJob, Owes, JobPcs
  <2>2. /\ w.pc \in JobPcs => w.seen = pool.gen
        /\ w.pc \notin JobPcs => w.seen = worker[i].seen
        /\ w.seen <= pool.gen
    BY <1>1, <1>2, <1>3 DEF JobPcs, PoolRec
  <2>3. /\ pool'.gen = pool.gen /\ pool'.jobs = pool.jobs /\ pool'.stop = pool.stop
        /\ pool'.remaining = pool.remaining /\ pool'.thieves = pool.thieves
    BY <1>4
  <2> QED
    BY <1>1, <1>3, <1>4, <2>1, <2>2, <2>3, WorkerCounted
<1>8. Claimed'
  BY <1>3, <1>4, <1>5 DEF Inv, Claimed, OneDrawer, Drawing, Stealing
<1>9. Places'
  BY <1>4 DEF Inv, Places, Rendering, Ending, Syncing, idle
<1> QED
  BY <1>6, <1>7, <1>8, <1>9 DEF Inv

\* It wakes for no reason.
LEMMA WorkerSpuriousKeeps == ASSUME Inv, NEW i \in Workers, WorkerSpurious(i) PROVE Inv'
<1> DEFINE w == [worker[i] EXCEPT !.pc = "wait"]
<1>1. /\ worker' = [worker EXCEPT ![i] = w] /\ worker[i].pc = "asleep"
      /\ w \in WorkerRec /\ w.pc = "wait" /\ w.seen = worker[i].seen
  BY DEF WorkerSpurious, Inv, Types, WorkerRec
<1> HIDE DEF w
<1>2. UNCHANGED <<pool, job, emu, comp, r, ctx, ref, phase, out>> /\ Stealing' = Stealing
  BY DEF WorkerSpurious, Stealing
<1>3. worker' \in [Workers -> WorkerRec] /\ worker'[i] = w /\ \A j \in Workers : j # i => worker'[j] = worker[j]
  BY <1>1 DEF Inv, Types
<1>4. Types'
  BY <1>2, <1>3 DEF Inv, Types
<1>5. w.seen <= pool.gen /\ (Owes(i) => w.seen # pool.gen)
  BY <1>1 DEF Inv, Counted, Owes
<1>6. Counted'
  BY <1>1, <1>2, <1>5, WorkerCounted DEF InJob, JobPcs
<1>7. Claimed'
  BY <1>1, <1>2, <1>3 DEF Inv, Claimed, OneDrawer, Drawing, Stealing
<1>8. Places'
  BY <1>2 DEF Inv, Places, Rendering, Ending, Syncing, idle
<1> QED
  BY <1>4, <1>6, <1>7, <1>8 DEF Inv

\* It claims the bin under the cursor, which nobody has.
LEMMA WorkerClaimKeeps == ASSUME Inv, NEW i \in Workers, WorkerClaim(i) PROVE Inv'
<1> DEFINE w == [pc |-> IF pool.next < bin_count THEN "draw" ELSE "leave", seen |-> worker[i].seen, bin |-> pool.next]
<1>1. worker[i].pc = "claim" /\ worker[i] \in WorkerRec /\ pool \in PoolRec /\ pool.next \in Nat
  BY DEF WorkerClaim, Inv, Types, PoolRec
<1>2. /\ worker' = [worker EXCEPT ![i] = w] /\ w \in WorkerRec
      /\ w.pc \in {"draw", "leave"} /\ (w.pc = "draw" => pool.next < bin_count)
      /\ w.seen = worker[i].seen /\ w.bin = pool.next
  <2> DEFINE pc == IF pool.next < bin_count THEN "draw" ELSE "leave"
             m == [worker[i] EXCEPT !.pc = pc]
  <2>1. [m EXCEPT !.bin = pool.next] = w
    <3> HIDE DEF pc
    <3>1. m = [pc |-> pc, seen |-> worker[i].seen, bin |-> worker[i].bin]
      BY <1>1 DEF WorkerRec
    <3> HIDE DEF m
    <3>2. [m EXCEPT !.bin = pool.next] = [pc |-> pc, seen |-> worker[i].seen, bin |-> pool.next]
      BY <3>1
    <3> QED
      BY <3>2 DEF pc
  <2>2. worker' = [worker EXCEPT ![i] = [m EXCEPT !.bin = pool.next]]
    BY DEF WorkerClaim, Inv, Types
  <2>3. worker' = [worker EXCEPT ![i] = w]
    BY <2>1, <2>2
  <2> QED
    BY <1>1, <2>3 DEF WorkerRec, JobPcs
<1> HIDE DEF w
<1>3. /\ pool' \in PoolRec /\ pool'.gen = pool.gen /\ pool'.jobs = pool.jobs /\ pool'.stop = pool.stop
      /\ pool'.remaining = pool.remaining /\ pool'.thieves = pool.thieves /\ pool'.next = pool.next + 1
  BY <1>1 DEF WorkerClaim, PoolRec
<1>4. UNCHANGED <<job, emu, comp, r, ctx, ref, phase, out>> /\ Stealing' = Stealing
  BY DEF WorkerClaim, Stealing
<1>5. worker' \in [Workers -> WorkerRec] /\ worker'[i] = w /\ \A j \in Workers : j # i => worker'[j] = worker[j]
  BY <1>2 DEF Inv, Types
<1>6. Types'
  BY <1>3, <1>4, <1>5 DEF Inv, Types
<1>7. InJob(i) /\ worker[i].seen = pool.gen
  BY <1>1 DEF InJob, JobPcs, Inv, Counted
<1>8. Counted'
  <2>1. w.pc \in JobPcs <=> InJob(i) \/ (Owes(i) /\ w.seen = pool.gen)
    BY <1>1, <1>2, <1>7 DEF InJob, Owes, JobPcs
  <2>2. /\ w.pc \in JobPcs => w.seen = pool.gen
        /\ w.pc \notin JobPcs => w.seen = worker[i].seen
        /\ w.seen <= pool.gen
    BY <1>1, <1>2, <1>7 DEF JobPcs, PoolRec
  <2>3. /\ pool'.gen = pool.gen /\ pool'.jobs = pool.jobs /\ pool'.stop = pool.stop
        /\ pool'.remaining = pool.remaining /\ pool'.thieves = pool.thieves
    BY <1>3
  <2> QED
    BY <1>2, <1>4, <2>1, <2>2, <2>3, WorkerCounted
<1>9. Claimed'
  <2>1. \A j \in Workers : worker[j].bin \in Nat
    BY DEF Inv, Types, WorkerRec
  <2>2. \A j \in Workers : j # i => Drawing(j)' = Drawing(j)
    BY <1>5 DEF Drawing
  <2>3. emu.bin \in Nat
    BY SizeAssumption DEF Inv, Types, EmuRec, Bins
  <2>4. Drawing(i)' => worker'[i].bin = pool.next /\ pool.next \in Bins
    BY <1>1, <1>2, <1>5, SizeAssumption DEF Drawing, Bins
  <2>5. \A j \in Workers : Drawing(j)' => worker'[j].bin < pool'.next /\ worker'[j].bin \in Bins
    BY <1>1, <1>3, <1>5, <2>1, <2>2, <2>4 DEF Inv, Claimed
  <2>6. Stealing' => emu'.bin < pool.next /\ emu'.bin < pool'.next
    BY <1>1, <1>3, <1>4, <2>3 DEF Inv, Claimed
  <2>7. \A j \in Workers : j # i /\ Drawing(j)' => worker'[j].bin < pool.next
    BY <1>5, <2>2 DEF Inv, Claimed
  <2>8. OneDrawer'
    BY <1>1, <1>4, <1>5, <2>1, <2>2, <2>3, <2>4, <2>6, <2>7 DEF Inv, Claimed, OneDrawer
  <2> QED
    BY <2>5, <2>6, <2>8 DEF Claimed
<1>10. Places'
  BY <1>3, <1>4 DEF Inv, Places, Rendering, Ending, Syncing, idle
<1> QED
  BY <1>6, <1>8, <1>9, <1>10 DEF Inv

\* It draws the bin.
LEMMA WorkerDrawKeeps == ASSUME Inv, NEW i \in Workers, WorkerDraw(i) PROVE Inv'
<1> DEFINE w == [worker[i] EXCEPT !.pc = "mark"]
<1>1. /\ worker' = [worker EXCEPT ![i] = w] /\ worker[i].pc = "draw"
      /\ w \in WorkerRec /\ w.pc = "mark" /\ w.seen = worker[i].seen /\ w.bin = worker[i].bin
  BY DEF WorkerDraw, Inv, Types, WorkerRec, JobPcs
<1> HIDE DEF w
<1>2. UNCHANGED <<pool, job, emu, comp, r, ctx, ref, phase>> /\ Stealing' = Stealing
  BY DEF WorkerDraw, Stealing
<1>3. worker' \in [Workers -> WorkerRec] /\ worker'[i] = w /\ \A j \in Workers : j # i => worker'[j] = worker[j]
  BY <1>1 DEF Inv, Types
<1>4. worker[i].bin \in Bins
  BY <1>1 DEF Inv, Claimed, Drawing
<1>5. out' \in [0 .. 1 -> [Bins -> 0 .. MaxFrames]]
  BY <1>4, DrawnType DEF WorkerDraw, Inv, Types
<1>6. Types'
  BY <1>2, <1>3, <1>5 DEF Inv, Types
<1>7. InJob(i) /\ worker[i].seen = pool.gen /\ pool.gen \in Nat
  BY <1>1 DEF InJob, JobPcs, Inv, Counted, Types, PoolRec
<1>8. Counted'
  <2>1. w.pc \in JobPcs <=> InJob(i) \/ (Owes(i) /\ w.seen = pool.gen)
    BY <1>1, <1>7 DEF InJob, Owes, JobPcs
  <2>2. /\ w.pc \in JobPcs => w.seen = pool.gen
        /\ w.pc \notin JobPcs => w.seen = worker[i].seen
        /\ w.seen <= pool.gen
    BY <1>1, <1>7 DEF JobPcs, PoolRec
  <2>3. /\ pool'.gen = pool.gen /\ pool'.jobs = pool.jobs /\ pool'.stop = pool.stop
        /\ pool'.remaining = pool.remaining /\ pool'.thieves = pool.thieves
    BY <1>2
  <2> QED
    BY <1>1, <1>2, <2>1, <2>2, <2>3, WorkerCounted
<1>9. Claimed'
  BY <1>1, <1>2, <1>3 DEF Inv, Claimed, OneDrawer, Drawing, Stealing
<1>10. Places'
  BY <1>2 DEF Inv, Places, Rendering, Ending, Syncing, idle
<1> QED
  BY <1>6, <1>8, <1>9, <1>10 DEF Inv

\* It marks the bin.
LEMMA WorkerMarkKeeps == ASSUME Inv, NEW i \in Workers, WorkerMark(i) PROVE Inv'
<1> DEFINE w == [worker[i] EXCEPT !.pc = "notify"]
<1>1. /\ worker' = [worker EXCEPT ![i] = w] /\ worker[i].pc = "mark"
      /\ w \in WorkerRec /\ w.pc = "notify" /\ w.seen = worker[i].seen
  BY DEF WorkerMark, Inv, Types, WorkerRec, JobPcs
<1> HIDE DEF w
<1>2. UNCHANGED <<job, emu, comp, r, ctx, ref, phase, out>> /\ Stealing' = Stealing
  BY DEF WorkerMark, Stealing
<1>3. worker' \in [Workers -> WorkerRec] /\ worker'[i] = w /\ \A j \in Workers : j # i => worker'[j] = worker[j]
  BY <1>1 DEF Inv, Types
<1>4. worker[i].bin \in Bins
  BY <1>1 DEF Inv, Claimed, Drawing
<1>5. /\ pool' \in PoolRec /\ pool'.gen = pool.gen /\ pool'.jobs = pool.jobs /\ pool'.stop = pool.stop
      /\ pool'.remaining = pool.remaining /\ pool'.thieves = pool.thieves /\ pool'.next = pool.next
  BY <1>4 DEF WorkerMark, PoolRec, Inv, Types
<1>6. Types'
  BY <1>2, <1>3, <1>5 DEF Inv, Types
<1>7. InJob(i) /\ worker[i].seen = pool.gen /\ pool.gen \in Nat
  BY <1>1 DEF InJob, JobPcs, Inv, Counted, Types, PoolRec
<1>8. Counted'
  <2>1. w.pc \in JobPcs <=> InJob(i) \/ (Owes(i) /\ w.seen = pool.gen)
    BY <1>1, <1>7 DEF InJob, Owes, JobPcs
  <2>2. /\ w.pc \in JobPcs => w.seen = pool.gen
        /\ w.pc \notin JobPcs => w.seen = worker[i].seen
        /\ w.seen <= pool.gen
    BY <1>1, <1>7 DEF JobPcs, PoolRec
  <2>3. /\ pool'.gen = pool.gen /\ pool'.jobs = pool.jobs /\ pool'.stop = pool.stop
        /\ pool'.remaining = pool.remaining /\ pool'.thieves = pool.thieves
    BY <1>5
  <2> QED
    BY <1>1, <1>2, <2>1, <2>2, <2>3, WorkerCounted
<1>9. Claimed'
  <2>1. ~Drawing(i)' /\ \A j \in Workers : j # i => Drawing(j)' = Drawing(j)
    BY <1>1, <1>3 DEF Drawing
  <2> QED
    BY <1>2, <1>3, <1>5, <2>1 DEF Inv, Claimed, OneDrawer
<1>10. Places'
  BY <1>2, <1>5 DEF Inv, Places, Rendering, Ending, Syncing, idle
<1> QED
  BY <1>6, <1>8, <1>9, <1>10 DEF Inv

\* It tells those who wait for the bin.
LEMMA WorkerNotifyKeeps == ASSUME Inv, NEW i \in Workers, WorkerNotify(i) PROVE Inv'
<1> DEFINE w == [worker[i] EXCEPT !.pc = "claim"]
<1>1. /\ worker' = [worker EXCEPT ![i] = w] /\ worker[i].pc = "notify"
      /\ w \in WorkerRec /\ w.pc = "claim" /\ w.seen = worker[i].seen
  BY DEF WorkerNotify, Inv, Types, WorkerRec, JobPcs
<1> HIDE DEF w
<1>2. UNCHANGED <<pool, job, r, ctx, ref, phase, out>> /\ emu' = Rouse(emu) /\ comp' = Rouse(comp)
  BY DEF WorkerNotify
<1>3. Places' /\ emu' \in EmuRec /\ comp' \in CompRec /\ Stealing' = Stealing /\ emu'.bin = emu.bin
  BY <1>2, WokenPlaces DEF idle
<1>4. worker' \in [Workers -> WorkerRec] /\ worker'[i] = w /\ \A j \in Workers : j # i => worker'[j] = worker[j]
  BY <1>1 DEF Inv, Types
<1>5. Types'
  BY <1>2, <1>3, <1>4 DEF Inv, Types
<1>6. InJob(i) /\ worker[i].seen = pool.gen /\ pool.gen \in Nat
  BY <1>1 DEF InJob, JobPcs, Inv, Counted, Types, PoolRec
<1>7. Counted'
  <2>1. w.pc \in JobPcs <=> InJob(i) \/ (Owes(i) /\ w.seen = pool.gen)
    BY <1>1, <1>6 DEF InJob, Owes, JobPcs
  <2>2. /\ w.pc \in JobPcs => w.seen = pool.gen
        /\ w.pc \notin JobPcs => w.seen = worker[i].seen
        /\ w.seen <= pool.gen
    BY <1>1, <1>6 DEF JobPcs, PoolRec
  <2>3. /\ pool'.gen = pool.gen /\ pool'.jobs = pool.jobs /\ pool'.stop = pool.stop
        /\ pool'.remaining = pool.remaining /\ pool'.thieves = pool.thieves
    BY <1>2
  <2> QED
    BY <1>1, <1>3, <2>1, <2>2, <2>3, WorkerCounted
<1>8. Claimed'
  <2>1. ~Drawing(i)' /\ \A j \in Workers : j # i => Drawing(j)' = Drawing(j)
    BY <1>1, <1>4 DEF Drawing
  <2> QED
    BY <1>2, <1>3, <1>4, <2>1 DEF Inv, Claimed, OneDrawer
<1> QED
  BY <1>3, <1>5, <1>7, <1>8 DEF Inv

\* It leaves the job, and is no longer counted.
LEMMA WorkerLeaveKeeps == ASSUME Inv, NEW i \in Workers, WorkerLeave(i) PROVE Inv'
<1> DEFINE w == [worker[i] EXCEPT !.pc = "wait"]
<1>1. /\ worker' = [worker EXCEPT ![i] = w] /\ worker[i].pc = "leave"
      /\ w \in WorkerRec /\ w.pc = "wait" /\ w.seen = worker[i].seen
  BY DEF WorkerLeave, Inv, Types, WorkerRec, JobPcs
<1> HIDE DEF w
<1>2. UNCHANGED <<job, r, ctx, ref, phase, out>> /\ emu' = Rouse(emu) /\ comp' = Rouse(comp)
  BY DEF WorkerLeave
<1>3. InJob(i) /\ worker[i].seen = pool.gen /\ pool.gen \in Nat /\ i \in Busy
  BY <1>1 DEF InJob, JobPcs, Inv, Counted, Types, PoolRec, Busy
<1>4. pool.remaining = Cardinality(Busy) /\ Cardinality(Busy) > 0
  BY <1>3, BusyFinite, FS_EmptySet DEF Inv, Counted
<1>5. /\ pool' \in PoolRec /\ pool'.gen = pool.gen /\ pool'.jobs = pool.jobs /\ pool'.stop = pool.stop
      /\ pool'.remaining = pool.remaining - 1 /\ pool'.thieves = pool.thieves /\ pool'.next = pool.next
  BY <1>4, BusyFinite DEF WorkerLeave, PoolRec, Inv, Types
<1>6. ~idle
  BY <1>4, BusyFinite DEF idle
<1>7. Places' /\ emu' \in EmuRec /\ comp' \in CompRec /\ Stealing' = Stealing /\ emu'.bin = emu.bin
  BY <1>2, <1>5, <1>6, WokenPlaces
<1>8. worker' \in [Workers -> WorkerRec] /\ worker'[i] = w /\ \A j \in Workers : j # i => worker'[j] = worker[j]
  BY <1>1 DEF Inv, Types
<1>9. Types'
  BY <1>2, <1>5, <1>7, <1>8 DEF Inv, Types
<1>10. /\ ~InJob(i)' /\ ~Owes(i)'
       /\ \A j \in Workers : j # i => InJob(j)' = InJob(j) /\ Owes(j)' = Owes(j)
  BY <1>1, <1>3, <1>5, <1>8 DEF InJob, Owes, JobPcs
<1>11. Busy' = Busy \ {i}
  BY <1>10 DEF Busy
<1>12. Cardinality(Busy') = Cardinality(Busy) - 1
  BY <1>3, <1>11, BusyFinite, FS_RemoveElement
<1>13. Counted'
  BY <1>1, <1>3, <1>4, <1>5, <1>7, <1>8, <1>10, <1>12 DEF Inv, Counted
<1>14. Claimed'
  <2>1. ~Drawing(i)' /\ \A j \in Workers : j # i => Drawing(j)' = Drawing(j)
    BY <1>1, <1>8 DEF Drawing
  <2> QED
    BY <1>5, <1>7, <1>8, <2>1 DEF Inv, Claimed, OneDrawer
<1> QED
  BY <1>7, <1>9, <1>13, <1>14 DEF Inv

-----------------------------------------------------------------------------
(* The theorems.                                                           *)

\* Every step keeps the invariant.
LEMMA NextKeeps == Inv /\ [Next]_vars => Inv'
<1> SUFFICES ASSUME Inv, [Next]_vars PROVE Inv'
  OBVIOUS
<1>1. CASE Begin
  BY <1>1, BeginFrameKeeps, SyncRasterKeeps, RenderFrameKeeps, SkipFrameKeeps, DestroyKeeps, CompKeeps,
     SyncLineKeeps DEF Begin
<1>2. CASE EmuStep
  BY <1>2, UseKeeps, SyncedKeeps, NotifyKeeps, RenderKeptKeeps, RenderInlineKeeps, RenderBandsKeeps,
     StealKeeps, ClaimIfKeeps, StealDrawKeeps, ThiefDoneKeeps, ThiefNotifyKeeps, WaitIdleKeeps,
     WaitBitsKeeps, StopKeeps, StopNotifyKeeps, JoinKeeps DEF EmuStep
<1>3. CASE CompStep
  BY <1>3, CompKeeps
<1>4. CASE Spurious
  BY <1>4, EmuSpuriousKeeps, CompKeeps, WorkerSpuriousKeeps DEF Spurious
<1>5. CASE \E i \in Workers : WorkerStep(i)
  BY <1>5, WorkerWaitKeeps, WorkerClaimKeeps, WorkerDrawKeeps, WorkerMarkKeeps, WorkerNotifyKeeps,
     WorkerLeaveKeeps DEF WorkerStep
<1>6. CASE UNCHANGED vars
  <2>1. Types' /\ Counted' /\ Claimed'
    BY <1>6, Elsewhere DEF vars, Inv, Types, Stealing
  <2>2. Places'
    BY <1>6 DEF vars, Inv, Places, Rendering, Ending, Syncing, idle
  <2> QED
    BY <2>1, <2>2 DEF Inv
<1> QED
  BY <1>1, <1>2, <1>3, <1>4, <1>5, <1>6 DEF Next

\* The invariant holds always.
LEMMA Invariance == Spec => []Inv
<1>1. Init => NewState
  BY LastBin DEF Init, NewState, CompRec
<1> QED
  BY <1>1, NewRenderer, NextKeeps, PTL DEF Spec

\* The counters, the cursors and the places have their types, for any number
\* of workers and bins: remaining_ never exceeds the workers nor falls below
\* zero, and there is never a second thief (dispatch, claim_if, loop).
THEOREM TypeCorrect == Spec => []TypeOK
<1>1. Inv => TypeOK
  <2> SUFFICES ASSUME Inv PROVE TypeOK
    OBVIOUS
  <2>1. pool.remaining \in 0 .. W /\ pool.thieves \in 0 .. 1
    BY BusyFinite, SizeAssumption DEF Inv, Counted
  <2>2. pool \in [gen : Nat, bits : SUBSET Bins, next : Nat, size : 0 .. W, jobs : 0 .. W,
                  remaining : 0 .. W, thieves : 0 .. 1, stop : BOOLEAN]
    BY <2>1 DEF Inv, Types, PoolRec
  <2>3. out \in [0 .. 1 -> [Bins -> 0 .. MaxFrames + 1]]
    <3>1. 0 .. MaxFrames \subseteq 0 .. MaxFrames + 1
      BY SizeAssumption
    <3> QED
      BY <3>1 DEF Inv, Types
  <2> QED
    BY <2>2, <2>3 DEF TypeOK, Inv, Types, WorkerRec, EmuRec, CompRec
<1> QED
  BY <1>1, Invariance, PTL

\* A bin is drawn by one thread, for any number of workers and bins: the
\* cursor is taken, not read, by claim() and claim_if() alike.
THEOREM BinsClaimedOnce == Spec => []OneDrawer
<1>1. Inv => OneDrawer
  BY DEF Inv, Claimed
<1> QED
  BY <1>1, Invariance, PTL

\* A step that changes the generation is a dispatch, the stop or a new renderer.
LEMMA GenSteps ==
  ASSUME Inv, [Next]_vars, pool'.gen # pool.gen
  PROVE  emu.pc \in {"prep", "stop", "join"}
<1>0. pool \in PoolRec
  BY DEF Inv, Types
<1>1. CASE Begin
  BY <1>1 DEF Begin, BeginFrame, SyncRaster, RenderFrame, SkipFrame, Destroy, HandOver, SyncLine
<1>2. CASE EmuStep
  <2>1. CASE Use \/ RenderKept \/ Steal \/ WaitIdle \/ WaitBits
    BY <2>1 DEF Use, RenderKept, Steal, WaitIdle, WaitBits, Goto
  <2>2. CASE Synced \/ Notify \/ StealDraw \/ ThiefNotify \/ StopNotify
    BY <2>2 DEF Synced, Notify, StealDraw, ThiefNotify, StopNotify
  <2>3. CASE RenderInline \/ (\E nb \in 1 .. W : RenderBands(nb)) \/ Stop \/ Join
    BY <2>3 DEF RenderInline, RenderBands, Stop, Join
  <2>4. CASE ClaimIf
    BY <1>0, <2>4, ClaimIfFields DEF ClaimIf
  <2>5. CASE ThiefDone
    BY <1>0, <2>5 DEF ThiefDone, PoolRec
  <2> QED
    BY <1>2, <2>1, <2>2, <2>3, <2>4, <2>5 DEF EmuStep
<1>3. CASE CompStep
  BY <1>3 DEF CompStep, CompGen, CompBits, CompWait, CompUse, Comp
<1>4. CASE Spurious
  BY <1>4 DEF Spurious, EmuSpurious, CompSpurious, WorkerSpurious, Comp
<1>5. ASSUME NEW i \in Workers, WorkerStep(i) PROVE FALSE
  <2>1. CASE WorkerWait(i) \/ WorkerDraw(i) \/ WorkerNotify(i)
    BY <2>1 DEF WorkerWait, WorkerDraw, WorkerNotify
  <2>2. CASE WorkerClaim(i)
    BY <1>0, <2>2 DEF WorkerClaim, PoolRec
  <2>3. CASE WorkerMark(i)
    BY <1>0, <2>3 DEF WorkerMark, PoolRec
  <2>4. CASE WorkerLeave(i)
    BY <1>0, <2>4 DEF WorkerLeave, PoolRec
  <2> QED
    BY <1>5, <2>1, <2>2, <2>3, <2>4 DEF WorkerStep
<1>6. CASE UNCHANGED vars
  BY <1>6 DEF vars
<1> QED
  BY <1>1, <1>2, <1>3, <1>4, <1>5, <1>6 DEF Next

\* A frame is dispatched, and the pool stopped, only when no worker is in the
\* job and no thief has a bin, for any number of workers and bins (wait_idle).
THEOREM FramesApart == Spec => DispatchAlone
<1>1. Inv /\ [Next]_vars => [pool'.gen # pool.gen => /\ \A i \in Workers : worker[i].pc \notin JobPcs
                                                     /\ ~Stealing]_vars
  <2> SUFFICES ASSUME Inv, [Next]_vars, pool'.gen # pool.gen
               PROVE  (\A i \in Workers : worker[i].pc \notin JobPcs) /\ ~Stealing
    OBVIOUS
  <2>1. emu.pc \in {"prep", "stop", "join"}
    BY GenSteps
  <2>2. idle
    BY <2>1 DEF Inv, Places
  <2> QED
    BY <2>2, IdleNobody DEF InJob
<1> QED
  BY <1>1, Invariance, PTL DEF Spec, DispatchAlone

-----------------------------------------------------------------------------
(* A pool that is never replaced: the thread layout is off.                *)

\* One generation counter, in the pool and in the renderer, and the thief's
\* context of the current one.
StealPcs == {"steal", "claimIf", "draw", "thiefDone", "thiefNotify"}
OnePool ==
  /\ pool.size = IF pool.gen = 0 THEN 0 ELSE W
  /\ pool.gen = r.gen
  /\ pool.gen > 0 => ctx[pool.gen % 2] = job /\ pool.jobs > 0
  /\ pool.gen = 0 => r.pending = 0
  /\ r.pending = 0 => idle
  /\ emu.pc \in StealPcs /\ emu.then # "use" => r.pending > 0
  /\ emu.pc = "prep" => r.pending = 0

\* A claimed bin is done or somebody is drawing it, and one that is done has
\* the picture: unless the buffer has been drawn over since.
Has(b) == out[job.buf][b] = job.frame
Fresh == r.pending > 0 \/ (ref.nbins > 0 /\ ref.gen = pool.gen)
BinsDrawn ==
  /\ \A b \in Bins : b < pool.next =>
       b \in pool.bits \/ (\E i \in Workers : Drawing(i) /\ worker[i].bin = b) \/ (Stealing /\ emu.bin = b)
  /\ \A i \in Workers : worker[i].pc = "leave" => pool.next >= bin_count
  /\ \A i \in Workers : i < pool.jobs /\ ~InJob(i) /\ ~Owes(i) => pool.next >= bin_count

Pictures ==
  /\ Fresh => \A b \in pool.bits : Has(b)
  /\ \A i \in Workers : worker[i].pc = "mark" => Has(worker[i].bin)
  /\ emu.pc = "thiefDone" => Has(emu.bin)

\* The frame on display, before and after the next one is begun.
Current == pool.gen = ref.gen /\ ref.gen > 0 /\ job = [buf |-> ref.buf, frame |-> ref.frame]
Before == Current /\ r.display = ref.buf /\ r.frame = ref.frame
AllDrawn == \A b \in Bins : out[ref.buf][b] = ref.frame
Behind == AllDrawn /\ (Current \/ job.buf # ref.buf) /\ phase = "vblank" /\ ~Rendering
OnDisplay ==
  /\ r.pending > 0 => job = [buf |-> r.display, frame |-> r.frame]
  /\ ref.nbins > 0 => Before \/ Behind
  /\ comp.pc # "none" => ref.nbins > 0
  /\ InLine => ref.nbins > 0 /\ phase = "lines"

LineInv == ~pool.stop => OnePool /\ BinsDrawn /\ Pictures /\ OnDisplay /\ LineReady

\* A line whose bin is done, or whose frame has been superseded, is drawn.
LEMMA DoneReady ==
  ASSUME Inv, LineInv, ~pool.stop, ref.nbins > 0, NEW bin \in Bins, pool.gen # ref.gen \/ bin \in pool.bits
  PROVE  out[ref.buf][bin] = ref.frame
<1>1. CASE Behind
  BY <1>1 DEF Behind, AllDrawn
<1>2. CASE Before
  <2>1. bin \in pool.bits /\ Fresh
    BY <1>2 DEF Before, Current, Fresh
  <2>2. Has(bin)
    BY <2>1 DEF LineInv, Pictures
  <2> QED
    BY <1>2, <2>2 DEF Before, Current, Has
<1> QED
  BY <1>1, <1>2 DEF LineInv, OnDisplay

\* In the lines of a frame the display is on the last one drawn.
LEMMA OnLast ==
  ASSUME LineInv, ~pool.stop, ref.nbins > 0, phase = "lines" \/ Rendering
  PROVE  Before
BY DEF LineInv, OnDisplay, Behind

\* A step that leaves the pool, its workers and the pictures alone.
LEMMA LineElsewhere ==
  ASSUME Inv, LineInv, ~pool.stop, UNCHANGED <<pool, worker, job, ctx, ref, out>>,
         r'.gen = r.gen, r'.display = r.display, r'.frame = r.frame,
         r'.pending = r.pending \/ (r'.pending = 0 /\ idle),
         Stealing' <=> Stealing, emu'.bin = emu.bin, emu'.pc = "thiefDone" => emu.pc = "thiefDone",
         emu'.pc \in StealPcs /\ emu'.then # "use" => r'.pending > 0, emu'.pc = "prep" => r'.pending = 0,
         phase' = phase \/ (phase = "lines" /\ phase' = "vblank"),
         Rendering' => Rendering \/ phase = "lines",
         InLine' => ref.nbins > 0 /\ phase' = "lines",
         comp'.pc # "none" => ref.nbins > 0,
         LineReady'
  PROVE  LineInv'
<1> USE DEF LineInv
<1>0. idle' <=> idle
  BY DEF idle
<1>1. OnePool'
  BY <1>0 DEF OnePool
<1>2. BinsDrawn'
  BY DEF BinsDrawn, Drawing, InJob, Owes
<1>3. Fresh' => Fresh
  BY DEF Fresh, Inv, Types
<1>4. Pictures'
  BY <1>3 DEF Pictures, Has
<1>5. OnDisplay'
  <2>1. r'.pending > 0 => job' = [buf |-> r'.display, frame |-> r'.frame]
    BY DEF OnDisplay, Inv, Types
  <2>2. Before => Before'
    BY DEF Before, Current
  <2>3. CASE phase = "lines" \/ Rendering
    BY <2>1, <2>2, <2>3, OnLast DEF OnDisplay
  <2>4. CASE phase = "vblank" /\ ~Rendering
    <3>1. Behind => Behind'
      BY <2>4 DEF Behind, AllDrawn, Current
    <3> QED
      BY <2>1, <2>2, <2>4, <3>1 DEF OnDisplay
  <2> QED
    BY <2>3, <2>4 DEF Inv, Types
<1> QED
  BY <1>1, <1>2, <1>4, <1>5

\* The emulation thread moves on.
LEMMA LineGoto ==
  ASSUME Inv, LineInv, ~pool.stop, NEW pc \in EmuPcs, emu' = [emu EXCEPT !.pc = pc],
         UNCHANGED <<pool, worker, job, ctx, r, ref, out, comp, phase>>,
         pc \notin {"draw", "thiefDone", "prep"}, ~Stealing,
         pc \in SyncPcs => emu.pc \in SyncPcs, pc \in StealPcs => emu.pc \in StealPcs,
         pc \in {"use", "waitBits", "bitsSleep"} => InLine,
         pc = "use" => out[ref.buf][emu.upto] = ref.frame
  PROVE  LineInv'
<1>1. emu'.pc = pc /\ emu'.then = emu.then /\ emu'.upto = emu.upto /\ emu'.bin = emu.bin
  BY DEF Inv, Types, EmuRec
<1>2. ~Stealing' /\ emu'.pc # "thiefDone"
  BY <1>1 DEF Stealing
<1>3. Rendering' => Rendering
  BY <1>1 DEF Rendering, Syncing
<1>4. InLine' => InLine
  BY <1>1 DEF InLine
<1>5. LineReady'
  BY <1>1 DEF LineReady, LineInv
<1>6. (emu'.pc \in StealPcs /\ emu'.then # "use" => r'.pending > 0) /\ (emu'.pc = "prep" => r'.pending = 0)
  BY <1>1 DEF LineInv, OnePool
<1> QED
  BY <1>1, <1>2, <1>3, <1>4, <1>5, <1>6, LineElsewhere DEF LineInv, OnDisplay

\* The line has been read; the frame is kept.
LEMMA LineUse == ASSUME Inv, LineInv, ~pool.stop, Use \/ RenderKept PROVE LineInv'
<1> DEFINE pc == "free"
<1>1. /\ pc \in EmuPcs /\ emu' = [emu EXCEPT !.pc = pc] /\ emu.pc \in {"use", "prep"}
      /\ UNCHANGED <<pool, worker, job, ctx, r, ref, out, comp, phase>>
  BY DEF Use, RenderKept, Goto, Emu, EmuPcs
<1>2. ~Stealing /\ pc \notin SyncPcs \cup StealPcs /\ pc \notin {"draw", "thiefDone", "prep", "use", "waitBits", "bitsSleep"}
  BY <1>1 DEF Stealing, SyncPcs, StealPcs
<1> HIDE DEF pc
<1> QED
  BY <1>1, <1>2, LineGoto DEF SyncPcs, StealPcs

\* steal_bins finds the line done, waits for it, or tries to steal.
LEMMA LineSteal == ASSUME Inv, LineInv, ~pool.stop, Steal PROVE LineInv'
<1> DEFINE pc == IF done(Gen, emu.upto) THEN After(TRUE) ELSE "claimIf"
<1>1. /\ pc \in EmuPcs /\ emu' = [emu EXCEPT !.pc = pc] /\ emu.pc = "steal"
      /\ UNCHANGED <<pool, worker, job, ctx, r, ref, out, comp, phase>>
  BY DEF Steal, Goto, Emu, After, EmuPcs, SyncPcs
<1>2. ~Stealing /\ pc \in {"claimIf", "waitIdle", "use"} /\ (pc = "use" => InLine /\ done(ref.gen, emu.upto))
  BY <1>1 DEF Stealing, After, InLine, SyncPcs, Gen
<1> HIDE DEF pc
<1>3. pc = "use" => out[ref.buf][emu.upto] = ref.frame
  BY <1>2, DoneReady DEF done, LineInv, OnDisplay, Inv, Types, EmuRec
<1> QED
  BY <1>1, <1>2, <1>3, LineGoto DEF SyncPcs, StealPcs

\* wait_idle.
LEMMA LineWaitIdle == ASSUME Inv, LineInv, ~pool.stop, WaitIdle PROVE LineInv'
<1> DEFINE pc == IF idle THEN "synced" ELSE "idleSleep"
<1>1. /\ pc \in EmuPcs /\ emu' = [emu EXCEPT !.pc = pc] /\ emu.pc = "waitIdle"
      /\ UNCHANGED <<pool, worker, job, ctx, r, ref, out, comp, phase>>
  BY DEF WaitIdle, Goto, Emu, EmuPcs, SyncPcs
<1>2. ~Stealing /\ pc \in {"synced", "idleSleep"}
  BY <1>1 DEF Stealing
<1> HIDE DEF pc
<1> QED
  BY <1>1, <1>2, LineGoto DEF SyncPcs, StealPcs

\* wait_bits returns with the line drawn.
LEMMA LineWaitBits == ASSUME Inv, LineInv, ~pool.stop, WaitBits PROVE LineInv'
<1> DEFINE pc == IF done(ref.gen, emu.upto) THEN "use" ELSE "bitsSleep"
<1>1. /\ pc \in EmuPcs /\ emu' = [emu EXCEPT !.pc = pc] /\ emu.pc = "waitBits"
      /\ UNCHANGED <<pool, worker, job, ctx, r, ref, out, comp, phase>>
  BY DEF WaitBits, Goto, Emu, EmuPcs, SyncPcs
<1>2. /\ ~Stealing /\ pc \in {"use", "bitsSleep"} /\ pc \notin SyncPcs /\ InLine
      /\ pc = "use" => done(ref.gen, emu.upto)
  BY <1>1 DEF Stealing, InLine, SyncPcs, Inv, Places
<1> HIDE DEF pc
<1>3. pc = "use" => out[ref.buf][emu.upto] = ref.frame
  BY <1>2, DoneReady DEF done, LineInv, OnDisplay, Inv, Types, EmuRec
<1> QED
  BY <1>1, <1>2, <1>3, LineGoto DEF StealPcs

\* A wait of the emulation thread ends.
LEMMA LineRoused ==
  ASSUME Inv, LineInv, ~pool.stop, emu' = Rouse(emu), comp' = comp \/ comp' = Rouse(comp),
         UNCHANGED <<pool, worker, job, ctx, r, ref, out, phase>>
  PROVE  LineInv'
<1>1. /\ emu'.then = emu.then /\ emu'.upto = emu.upto /\ emu'.bin = emu.bin
      /\ emu'.pc = IF emu.pc = "idleSleep" THEN "waitIdle"
                   ELSE IF emu.pc = "bitsSleep" THEN "waitBits" ELSE emu.pc
  BY Woken DEF Inv, Types
<1>2. comp'.bin = comp.bin /\ (comp'.pc = comp.pc \/ (comp.pc = "bitsSleep" /\ comp'.pc = "waitBits"))
  BY CompWoken DEF Inv, Types
<1>3. (Stealing' <=> Stealing) /\ (emu'.pc = "thiefDone" => emu.pc = "thiefDone")
  BY <1>1 DEF Stealing
<1>4. (Rendering' => Rendering) /\ (InLine' => InLine)
  BY <1>1 DEF Rendering, Syncing, InLine, SyncPcs
<1>5. LineReady'
  BY <1>1, <1>2 DEF LineReady, LineInv
<1>6. (emu'.pc \in StealPcs /\ emu'.then # "use" => r'.pending > 0) /\ (emu'.pc = "prep" => r'.pending = 0)
  BY <1>1 DEF LineInv, OnePool, StealPcs
<1> QED
  BY <1>1, <1>2, <1>3, <1>4, <1>5, <1>6, LineElsewhere DEF LineInv, OnDisplay

\* sync_line begins, in the lines of a frame.
LEMMA LineSyncLine == ASSUME Inv, LineInv, ~pool.stop, NEW bin \in Bins, SyncLine(bin) PROVE LineInv'
<1>1. /\ emu'.pc = "steal" /\ emu'.then = "use" /\ emu'.bin = emu.bin
      /\ UNCHANGED <<pool, worker, job, ctx, r, ref, out, comp, phase>> /\ emu.pc = "free"
      /\ phase = "lines" /\ bin < ref.nbins /\ comp.pc = "none"
  BY DEF SyncLine, Inv, Types, EmuRec
<1>2. ref.nbins > 0
  BY <1>1, SizeAssumption DEF Bins, Inv, Types
<1>3. ~Stealing /\ ~Stealing' /\ ~Rendering'
  BY <1>1 DEF Stealing, Rendering, Syncing
<1>4. LineReady'
  BY <1>1 DEF LineReady
<1> QED
  BY <1>1, <1>2, <1>3, <1>4, LineElsewhere

\* sync_all begins: for texture memory or a state, for the next frame, or for
\* the end.
LEMMA LineSyncAll == ASSUME Inv, LineInv, ~pool.stop, SyncRaster \/ RenderFrame \/ Destroy PROVE LineInv'
<1>1. /\ emu'.pc \in {"steal", "waitIdle", "synced"} /\ emu'.then \in {"free", "prep", "stop"}
      /\ emu'.then = "prep" => phase = "lines"
      /\ emu'.pc = "steal" => r.pending > 0
      /\ emu'.bin = emu.bin /\ emu.pc = "free" /\ UNCHANGED <<pool, worker, job, ctx, r, ref, out, comp>>
      /\ phase' = phase \/ (phase = "lines" /\ phase' = "vblank")
  BY DEF SyncRaster, RenderFrame, Destroy, sync_all, Inv, Types, EmuRec
<1>2. ~Stealing /\ ~Stealing' /\ ~InLine' /\ (Rendering' => phase = "lines")
  BY <1>1 DEF Stealing, InLine, Rendering, Syncing
<1>3. LineReady'
  BY <1>1 DEF LineReady, LineInv
<1> QED
  BY <1>1, <1>2, <1>3, LineElsewhere DEF LineInv, OnDisplay, StealPcs

\* No frame is drawn.
LEMMA LineSkip == ASSUME Inv, LineInv, ~pool.stop, SkipFrame PROVE LineInv'
<1>1. /\ emu.pc = "free" /\ UNCHANGED <<pool, worker, emu, job, ctx, r, ref, out, comp>>
      /\ phase = "lines" /\ phase' = "vblank"
  BY DEF SkipFrame
<1>2. ~Stealing /\ ~Stealing' /\ ~InLine' /\ ~Rendering'
  BY <1>1 DEF Stealing, InLine, Rendering, Syncing, SyncPcs
<1>3. LineReady'
  BY <1>1 DEF LineReady, LineInv
<1> QED
  BY <1>1, <1>2, <1>3, LineElsewhere DEF LineInv, OnDisplay, StealPcs

\* sync_all is over, and nothing is pending.
LEMMA LineSynced == ASSUME Inv, LineInv, ~pool.stop, Synced PROVE LineInv'
<1>1. /\ emu'.pc = emu.then /\ emu'.then = emu.then /\ emu'.bin = emu.bin /\ emu.pc = "synced"
      /\ emu.then \in {"free", "prep", "stop"}
      /\ r'.gen = r.gen /\ r'.display = r.display /\ r'.frame = r.frame /\ r'.pending = 0
      /\ UNCHANGED <<pool, worker, job, ctx, ref, out, comp, phase>>
  BY DEF Synced, Emu, Inv, Types, EmuRec, Places
<1>2. idle /\ ~Stealing /\ ~Stealing' /\ ~InLine' /\ (Rendering' => Rendering)
  BY <1>1 DEF Stealing, InLine, Rendering, Syncing, SyncPcs, Inv, Places
<1>3. LineReady'
  BY <1>1 DEF LineReady, LineInv
<1> QED
  BY <1>1, <1>2, <1>3, LineElsewhere DEF LineInv, OnDisplay, StealPcs

\* The thief's notify.
LEMMA LineThiefNotify == ASSUME Inv, LineInv, ~pool.stop, ThiefNotify PROVE LineInv'
<1>1. /\ emu'.pc = "steal" /\ emu'.then = emu.then /\ emu'.bin = emu.bin /\ emu.pc = "thiefNotify"
      /\ comp' = Rouse(comp) /\ UNCHANGED <<pool, worker, job, ctx, r, ref, out, phase>>
  BY DEF ThiefNotify, Emu, Inv, Types, EmuRec
<1>2. comp'.bin = comp.bin /\ (comp'.pc = comp.pc \/ (comp.pc = "bitsSleep" /\ comp'.pc = "waitBits"))
  BY <1>1, CompWoken DEF Inv, Types
<1>3. ~Stealing /\ ~Stealing' /\ (InLine' => InLine) /\ (Rendering' => Rendering)
  BY <1>1 DEF Stealing, InLine, Rendering, Syncing, SyncPcs
<1>4. LineReady'
  BY <1>1, <1>2 DEF LineReady, LineInv
<1>5. emu'.then # "use" => r'.pending > 0
  BY <1>1 DEF LineInv, OnePool, StealPcs
<1> QED
  BY <1>1, <1>2, <1>3, <1>4, <1>5, LineElsewhere DEF LineInv, OnDisplay

\* The compositor reads a line when done() or wait_bits() says so.
LEMMA LineComp ==
  ASSUME Inv, LineInv, ~pool.stop, CompStep \/ CompSpurious \/ (\E bin \in Bins : HandOver(bin))
  PROVE  LineInv'
<1>1. UNCHANGED <<pool, worker, job, ctx, r, ref, out, emu, phase>>
  BY DEF CompStep, CompGen, CompBits, CompWait, CompUse, CompSpurious, HandOver, Comp
<1>2. comp'.pc # "none" => ref.nbins > 0
  <2>1. CASE CompStep \/ CompSpurious
    BY <2>1 DEF CompStep, CompGen, CompBits, CompWait, CompUse, CompSpurious, LineInv, OnDisplay
  <2>2. ASSUME NEW bin \in Bins, HandOver(bin) PROVE ref.nbins > 0
    BY <2>2, SizeAssumption DEF HandOver, Bins, Inv, Types
  <2> QED
    BY <2>1, <2>2
<1>3. comp'.pc = "use" => /\ comp'.bin = comp.bin /\ comp.pc # "none"
                          /\ pool.gen # ref.gen \/ comp.bin \in pool.bits
  <2>1. CASE CompGen \/ CompBits \/ CompWait \/ CompSpurious
    BY <2>1 DEF CompGen, CompBits, CompWait, CompSpurious, Comp, done, Inv, Types, CompRec
  <2>2. CASE CompUse
    BY <2>2 DEF CompUse
  <2>3. CASE \E bin \in Bins : HandOver(bin)
    BY <2>3 DEF HandOver
  <2> QED
    BY <2>1, <2>2, <2>3 DEF CompStep
<1>4. LineReady'
  BY <1>1, <1>2, <1>3, DoneReady DEF LineReady, LineInv, Inv, Types, CompRec
<1>5. (Stealing' <=> Stealing) /\ (InLine' => InLine) /\ (Rendering' => Rendering)
  BY <1>1 DEF Stealing, InLine, Rendering, Syncing
<1>6. (emu'.pc \in StealPcs /\ emu'.then # "use" => r'.pending > 0) /\ (emu'.pc = "prep" => r'.pending = 0)
  BY <1>1 DEF LineInv, OnePool
<1> QED
  BY <1>1, <1>2, <1>4, <1>5, <1>6, LineElsewhere DEF LineInv, OnDisplay

-----------------------------------------------------------------------------
(* Drawing.                                                                *)

\* A step within one dispatch: what the display has is kept when the pictures
\* it is on are.
LEMMA LineDisplay ==
  ASSUME Inv, LineInv, ~pool.stop,
         pool'.gen = pool.gen, pool'.size = pool.size, pool'.jobs = pool.jobs, pool'.stop = pool.stop,
         UNCHANGED <<job, ctx, r, ref, phase>>, r.pending = 0 => idle',
         \A c \in Bins : ref.nbins > 0 /\ out[ref.buf][c] = ref.frame => out'[ref.buf][c] = ref.frame,
         emu'.upto = emu.upto, InLine' => InLine, Rendering' => Rendering,
         emu'.pc \in StealPcs /\ emu'.then # "use" => r.pending > 0, emu'.pc = "prep" => r.pending = 0,
         emu'.pc = "use" => out[ref.buf][emu.upto] = ref.frame,
         comp'.bin = comp.bin, comp'.pc # "none" => comp.pc # "none", comp'.pc = "use" => comp.pc = "use",
         BinsDrawn', Pictures'
  PROVE  LineInv'
<1> USE DEF LineInv
<1>1. OnePool'
  BY DEF OnePool
<1>2. OnDisplay'
  <2>1. Before => Before'
    BY DEF Before, Current
  <2>2. ref.nbins > 0 /\ Behind => Behind'
    BY DEF Behind, AllDrawn, Current
  <2> QED
    BY <2>1, <2>2 DEF OnDisplay
<1>3. LineReady'
  <2>1. emu.upto \in Bins /\ comp.bin \in Bins
    BY DEF Inv, Types, EmuRec, CompRec
  <2>2. emu'.pc = "use" => ref.nbins > 0
    BY DEF InLine, OnDisplay
  <2> QED
    BY <2>1, <2>2 DEF LineReady, OnDisplay
<1> QED
  BY <1>1, <1>2, <1>3

\* A bin that is drawn has the job's picture, and the display keeps its own.
LEMMA DrawnOver ==
  ASSUME Inv, LineInv, ~pool.stop, NEW b \in Bins, out' = Drawn(job, b), UNCHANGED <<job, ref>>
  PROVE  /\ Has(b)' /\ \A c \in Bins : Has(c) => Has(c)'
         /\ \A c \in Bins : ref.nbins > 0 /\ out[ref.buf][c] = ref.frame => out'[ref.buf][c] = ref.frame
<1>1. job.buf \in 0 .. 1 /\ ref.buf \in 0 .. 1 /\ out \in [0 .. 1 -> [Bins -> 0 .. MaxFrames]]
  BY DEF Inv, Types, Picture
<1>2. /\ \A c \in Bins : out'[job.buf][c] = IF c = b THEN job.frame ELSE out[job.buf][c]
      /\ \A s \in 0 .. 1 : s # job.buf => out'[s] = out[s]
  BY <1>1 DEF Drawn
<1>3. ref.nbins > 0 => job.buf # ref.buf \/ (job.buf = ref.buf /\ job.frame = ref.frame)
  BY DEF LineInv, OnDisplay, Before, Behind, Current
<1> QED
  BY <1>1, <1>2, <1>3 DEF Has

\* The context a thief draws from is the job's.
LEMMA ThiefContext ==
  ASSUME Inv, LineInv, ~pool.stop, Stealing
  PROVE  Gen = pool.gen /\ ctx[Gen % 2] = job /\ r.pending > 0
<1>1. ~idle
  BY DEF Inv, Counted, idle
<1>2. r.pending > 0 /\ pool.gen > 0
  BY <1>1, SizeAssumption DEF LineInv, OnePool, Inv, Types, PoolRec
<1>3. Gen = pool.gen
  <2>1. CASE emu.then = "use"
    <3>1. InLine
      BY <2>1 DEF Stealing, InLine, SyncPcs
    <3>2. Before
      BY <3>1, OnLast DEF LineInv, OnDisplay
    <3> QED
      BY <2>1, <3>2 DEF Gen, Before, Current
  <2>2. CASE emu.then # "use"
    BY <2>2 DEF Gen, LineInv, OnePool
  <2> QED
    BY <2>1, <2>2
<1> QED
  BY <1>2, <1>3 DEF LineInv, OnePool

\* When nobody is in the job and nobody owes it, all bins of it are done.
LEMMA IdleDone ==
  ASSUME Inv, LineInv, ~pool.stop, idle, pool.gen > 0
  PROVE  pool.next >= bin_count /\ \A b \in Bins : b \in pool.bits
<1>1. \A i \in Workers : ~InJob(i) /\ ~Owes(i)
  BY IdleNobody
<1>2. 0 \in Workers /\ 0 < pool.jobs
  BY SizeAssumption DEF Workers, LineInv, OnePool
<1>3. pool.next >= bin_count
  BY <1>1, <1>2 DEF LineInv, BinsDrawn
<1>4. \A b \in Bins : b < pool.next
  BY <1>3, SizeAssumption DEF Bins, Inv, Types, PoolRec
<1>5. ~Stealing /\ \A i \in Workers : ~Drawing(i)
  BY <1>1, IdleNobody DEF Drawing, InJob, JobPcs
<1> QED
  BY <1>3, <1>4, <1>5 DEF LineInv, BinsDrawn

\* claim_if: a stolen bin is behind the cursor, and the thief has it.
LEMMA LineClaimIf == ASSUME Inv, LineInv, ~pool.stop, ClaimIf PROVE LineInv'
<1> USE DEF LineInv
<1>1. /\ pool \in PoolRec /\ emu \in EmuRec /\ emu.pc = "claimIf" /\ pool.next \in Nat /\ pool' = claim_if(Gen)
      /\ UNCHANGED <<job, worker, comp, r, ctx, ref, phase, out>>
  BY DEF ClaimIf, Inv, Types, PoolRec
<1>2. /\ pool'.gen = pool.gen /\ pool'.jobs = pool.jobs /\ pool'.bits = pool.bits /\ pool'.size = pool.size
      /\ pool'.remaining = pool.remaining /\ pool'.stop = pool.stop
      /\ pool'.next = IF pool.gen = Gen THEN pool.next + 1 ELSE pool.next
      /\ pool'.thieves = IF pool.gen = Gen /\ pool.next < bin_count THEN pool.thieves + 1 ELSE pool.thieves
  BY <1>1, ClaimIfFields
<1> DEFINE taken == pool.gen = Gen /\ pool.next < bin_count
<1>3. CASE taken
  <2>1. emu' = [emu EXCEPT !.pc = "draw", !.bin = pool.next]
    BY <1>3 DEF ClaimIf
  <2>2. emu'.pc = "draw" /\ emu'.bin = pool.next /\ emu'.then = emu.then /\ emu'.upto = emu.upto
    BY <1>1, <2>1 DEF EmuRec
  <2>3. Stealing' /\ (InLine' => InLine) /\ (Rendering' => Rendering)
    BY <1>1, <2>2 DEF Stealing, InLine, Rendering, Syncing, SyncPcs
  <2>4. r.pending > 0
    <3>1. CASE emu.then # "use"
      BY <1>1, <3>1 DEF OnePool, StealPcs
    <3>2. CASE emu.then = "use"
      <4>1. Before
        BY <1>1, <3>2, OnLast DEF OnDisplay, InLine, SyncPcs
      <4>2. ~idle
        BY <1>1, <1>3, <4>1, IdleDone, SizeAssumption DEF Before, Current
      <4> QED
        BY <4>2, SizeAssumption DEF OnePool, Inv, Types
    <3> QED
      BY <3>1, <3>2
  <2>5. BinsDrawn'
    <3>1. ~Stealing /\ pool'.next = pool.next + 1
      BY <1>1, <1>2, <1>3 DEF Stealing
    <3>2. \A b \in Bins : b < pool'.next => b < pool.next \/ b = pool.next
      BY <1>1, <3>1, SizeAssumption DEF Bins
    <3>3. \A i \in Workers : (Drawing(i)' <=> Drawing(i)) /\ (InJob(i)' <=> InJob(i)) /\ (Owes(i)' <=> Owes(i)) /\ worker'[i] = worker[i]
      BY <1>1, <1>2 DEF Drawing, InJob, Owes
    <3>4. pool.next >= bin_count => pool'.next >= bin_count
      BY <1>1, <3>1, SizeAssumption
    <3> QED
      BY <1>2, <2>2, <2>3, <3>1, <3>2, <3>3, <3>4 DEF BinsDrawn
  <2>6. Pictures'
    BY <1>1, <1>2, <2>2 DEF Pictures, Fresh, Has
  <2> QED
    BY <1>1, <1>2, <2>2, <2>3, <2>4, <2>5, <2>6, LineDisplay
<1>4. CASE ~taken
  <2>1. /\ emu' = [emu EXCEPT !.pc = After(done(Gen, emu.upto))]
    BY <1>4 DEF ClaimIf
  <2>2. /\ emu'.pc \in {"waitIdle", "use", "waitBits"} /\ emu'.then = emu.then /\ emu'.upto = emu.upto
        /\ emu'.pc \in {"use", "waitBits"} => emu.then = "use"
        /\ emu'.pc = "use" => done(ref.gen, emu.upto)
    BY <1>1, <2>1 DEF EmuRec, After, Gen
  <2>3. ~Stealing /\ ~Stealing' /\ (InLine' => InLine) /\ (Rendering' => Rendering)
    BY <1>1, <2>2 DEF Stealing, InLine, Rendering, Syncing, SyncPcs
  <2>4. idle' <=> idle
    BY <1>2, <1>4 DEF idle
  <2>5. BinsDrawn'
    <3>1. \A b \in Bins : b < pool'.next => b < pool.next
      BY <1>1, <1>2, <1>4, SizeAssumption DEF Bins
    <3>2. \A i \in Workers : (Drawing(i)' <=> Drawing(i)) /\ (InJob(i)' <=> InJob(i)) /\ (Owes(i)' <=> Owes(i)) /\ worker'[i] = worker[i]
      BY <1>1, <1>2 DEF Drawing, InJob, Owes
    <3>3. pool.next >= bin_count => pool'.next >= bin_count
      BY <1>1, <1>2, SizeAssumption
    <3> HIDE DEF taken
    <3> QED
      BY <1>2, <2>3, <3>1, <3>2, <3>3 DEF BinsDrawn
  <2>6. Pictures'
    BY <1>1, <1>2, <2>2 DEF Pictures, Fresh, Has
  <2>7. emu'.pc = "use" => out[ref.buf][emu.upto] = ref.frame
    BY <1>1, <2>2, DoneReady DEF done, OnDisplay, InLine, SyncPcs, EmuRec
  <2> HIDE DEF taken
  <2> QED
    BY <1>1, <1>2, <2>2, <2>3, <2>4, <2>5, <2>6, <2>7, LineDisplay DEF OnePool, StealPcs
<1> QED
  BY <1>3, <1>4

\* The thief draws what the workers would have drawn.
LEMMA LineStealDraw == ASSUME Inv, LineInv, ~pool.stop, StealDraw PROVE LineInv'
<1> USE DEF LineInv
<1>1. /\ emu'.pc = "thiefDone" /\ emu.pc = "draw" /\ emu'.then = emu.then /\ emu'.bin = emu.bin
      /\ emu'.upto = emu.upto /\ emu.bin \in Bins /\ out' = Drawn(ctx[Gen % 2], emu.bin)
      /\ UNCHANGED <<pool, job, worker, comp, r, ctx, ref, phase>>
  BY DEF StealDraw, Emu, Inv, Types, EmuRec
<1>2. Stealing /\ Stealing' /\ (InLine' => InLine) /\ (Rendering' => Rendering)
  BY <1>1 DEF Stealing, InLine, Rendering, Syncing, SyncPcs
<1>3. r.pending > 0 /\ out' = Drawn(job, emu.bin)
  BY <1>1, <1>2, ThiefContext
<1>4. /\ Has(emu.bin)' /\ \A c \in Bins : Has(c) => Has(c)'
      /\ \A c \in Bins : ref.nbins > 0 /\ out[ref.buf][c] = ref.frame => out'[ref.buf][c] = ref.frame
  BY <1>1, <1>3, DrawnOver
<1>5. BinsDrawn'
  BY <1>1, <1>2 DEF BinsDrawn, Drawing, InJob, Owes
<1>6. Pictures'
  <2>1. Fresh' <=> Fresh
    BY <1>1 DEF Fresh
  <2>2. \A c \in pool.bits : c \in Bins
    BY DEF Inv, Types, PoolRec
  <2>3. \A i \in Workers : worker[i].pc = "mark" => worker[i].bin \in Bins
    BY DEF Inv, Claimed, Drawing
  <2>4. Has(emu.bin)'
    BY <1>1, <1>4 DEF Has
  <2>5. \A i \in Workers : worker'[i].pc = "mark" => Has(worker[i].bin)'
    BY <1>1, <1>4, <2>3 DEF Pictures, Has
  <2>6. Fresh' => \A b \in pool'.bits : Has(b)'
    BY <1>1, <1>4, <2>1, <2>2 DEF Pictures
  <2> QED
    BY <2>4, <2>5, <2>6 DEF Pictures, Has
<1> QED
  BY <1>1, <1>2, <1>3, <1>4, <1>5, <1>6, LineDisplay

\* thief_done: the bin is done, and has its picture.
LEMMA LineThiefDone == ASSUME Inv, LineInv, ~pool.stop, ThiefDone PROVE LineInv'
<1> USE DEF LineInv
<1>1. /\ emu'.pc = "thiefNotify" /\ emu.pc = "thiefDone" /\ emu'.then = emu.then
      /\ emu'.upto = emu.upto /\ UNCHANGED <<job, worker, comp, r, ctx, ref, phase, out>>
  BY DEF ThiefDone, Emu, Inv, Types, EmuRec
<1>2. Stealing /\ ~Stealing' /\ (InLine' => InLine) /\ (Rendering' => Rendering)
  BY <1>1 DEF Stealing, InLine, Rendering, Syncing, SyncPcs
<1>3. /\ pool'.gen = pool.gen /\ pool'.jobs = pool.jobs /\ pool'.next = pool.next /\ pool'.size = pool.size
      /\ pool'.stop = pool.stop /\ pool'.bits = pool.bits \cup {emu.bin}
  <2> DEFINE m == [pool EXCEPT !.bits = @ \cup {emu.bin}]
  <2>1. pool' = [m EXCEPT !.thieves = @ - 1]
    BY DEF ThiefDone, Inv, Types, PoolRec
  <2>2. /\ m.gen = pool.gen /\ m.jobs = pool.jobs /\ m.next = pool.next /\ m.size = pool.size
        /\ m.stop = pool.stop /\ m.bits = pool.bits \cup {emu.bin}
        /\ pool'.gen = m.gen /\ pool'.jobs = m.jobs /\ pool'.next = m.next /\ pool'.size = m.size
        /\ pool'.stop = m.stop /\ pool'.bits = m.bits
    BY <2>1 DEF Inv, Types, PoolRec
  <2> HIDE DEF m
  <2> QED
    BY <2>2
<1>4. r.pending > 0
  BY <1>2, ThiefContext
<1>5. BinsDrawn'
  <2>1. \A i \in Workers : (Drawing(i)' <=> Drawing(i)) /\ (InJob(i)' <=> InJob(i)) /\ (Owes(i)' <=> Owes(i)) /\ worker'[i] = worker[i]
    BY <1>1, <1>3 DEF Drawing, InJob, Owes
  <2> QED
    BY <1>2, <1>3, <2>1 DEF BinsDrawn
<1>6. Pictures'
  BY <1>1, <1>3 DEF Pictures, Fresh, Has
<1> QED
  BY <1>1, <1>2, <1>3, <1>4, <1>5, <1>6, LineDisplay

\* The workers are told of the job.
LEMMA LineNotify == ASSUME Inv, LineInv, ~pool.stop, Notify PROVE LineInv'
<1> USE DEF LineInv
<1>1. /\ emu'.pc = "free" /\ emu.pc = "notify" /\ emu'.upto = emu.upto
      /\ UNCHANGED <<pool, job, comp, r, ctx, ref, phase, out>>
  BY DEF Notify, Emu, Inv, Types, EmuRec
<1>2. \A i \in Workers : /\ worker'[i].seen = worker[i].seen /\ worker'[i].bin = worker[i].bin
                         /\ worker[i].pc # "asleep" => worker'[i].pc = worker[i].pc
                         /\ worker[i].pc = "asleep" => worker'[i].pc \in {"asleep", "wait"}
  BY DEF Notify, Inv, Types, WorkerRec
<1>3. ~Stealing /\ ~Stealing' /\ ~InLine' /\ ~Rendering'
  BY <1>1 DEF Stealing, InLine, Rendering, Syncing, SyncPcs
<1>4. \A i \in Workers : /\ (Drawing(i)' <=> Drawing(i)) /\ (InJob(i)' <=> InJob(i)) /\ (Owes(i)' <=> Owes(i))
                         /\ worker'[i].pc \in {"leave", "mark"} => worker'[i].pc = worker[i].pc
  BY <1>1, <1>2 DEF Drawing, InJob, Owes, JobPcs
<1>5. BinsDrawn'
  BY <1>1, <1>2, <1>3, <1>4 DEF BinsDrawn
<1>6. Pictures'
  BY <1>1, <1>2, <1>4 DEF Pictures, Fresh, Has
<1> QED
  BY <1>1, <1>3, <1>5, <1>6, LineDisplay DEF OnePool, idle, StealPcs

\* The threads that wait are woken, or nothing of theirs changes.
LEMMA LineWoken ==
  ASSUME Inv, LineInv, ~pool.stop, UNCHANGED <<emu, comp>> \/ (emu' = Rouse(emu) /\ comp' = Rouse(comp))
  PROVE  /\ emu'.upto = emu.upto /\ emu'.bin = emu.bin /\ (InLine' => InLine) /\ (Rendering' => Rendering)
         /\ Stealing' <=> Stealing
         /\ emu'.pc = "thiefDone" => emu.pc = "thiefDone"
         /\ emu'.pc \in StealPcs /\ emu'.then # "use" => r.pending > 0
         /\ emu'.pc = "prep" => r.pending = 0
         /\ emu'.pc = "use" => out[ref.buf][emu.upto] = ref.frame
         /\ comp'.bin = comp.bin /\ (comp'.pc # "none" => comp.pc # "none") /\ (comp'.pc = "use" => comp.pc = "use")
<1>1. /\ emu'.then = emu.then /\ emu'.upto = emu.upto /\ emu'.bin = emu.bin
      /\ \/ emu'.pc = emu.pc
         \/ emu.pc = "idleSleep" /\ emu'.pc = "waitIdle"
         \/ emu.pc = "bitsSleep" /\ emu'.pc = "waitBits"
  BY Woken DEF Inv, Types
<1>2. comp'.bin = comp.bin /\ (comp'.pc = comp.pc \/ (comp.pc = "bitsSleep" /\ comp'.pc = "waitBits"))
  BY CompWoken DEF Inv, Types
<1>3. (InLine' => InLine) /\ (Rendering' => Rendering) /\ (Stealing' <=> Stealing)
  BY <1>1 DEF InLine, Rendering, Syncing, SyncPcs, Stealing
<1> QED
  BY <1>1, <1>2, <1>3 DEF LineInv, OnePool, LineReady, StealPcs

\* A worker in the job keeps the pool from being idle.
LEMMA InJobPending == ASSUME Inv, LineInv, ~pool.stop, NEW i \in Workers, InJob(i) PROVE r.pending > 0
<1>1. ~idle
  BY IdleNobody
<1> QED
  BY <1>1, SizeAssumption DEF LineInv, OnePool, Inv, Types

\* A worker's wait, or a wake-up of it.
LEMMA LineWorkerWait ==
  ASSUME Inv, LineInv, ~pool.stop, NEW i \in Workers, WorkerWait(i) \/ WorkerSpurious(i) PROVE LineInv'
<1> USE DEF LineInv
<1>1. worker[i].pc \in {"wait", "asleep"} /\ UNCHANGED <<pool, job, emu, comp, r, ctx, ref, phase, out>>
  BY DEF WorkerWait, WorkerSpurious
<1>2. /\ \A j \in Workers : j # i => worker'[j] = worker[j]
      /\ \/ worker'[i].pc \in {"wait", "asleep"} /\ worker'[i].seen = worker[i].seen
         \/ worker'[i].pc = "claim"
  <2>1. /\ \A j \in Workers : j # i => worker'[j] = worker[j]
        /\ \/ worker'[i] = [worker[i] EXCEPT !.pc = "wait"]
           \/ worker'[i] = [worker[i] EXCEPT !.pc = "asleep"]
           \/ worker'[i] = [worker[i] EXCEPT !.pc = "claim", !.seen = pool.gen]
    BY DEF WorkerWait, WorkerSpurious, Inv, Types
  <2>2. worker[i] \in WorkerRec
    BY DEF Inv, Types
  <2> QED
    BY <2>1, <2>2 DEF WorkerRec
<1>3. /\ \A j \in Workers : (Drawing(j)' <=> Drawing(j)) /\ (worker'[j].pc = "leave" => worker[j].pc = "leave")
      /\ \A j \in Workers : Drawing(j) => worker'[j] = worker[j]
      /\ \A j \in Workers : InJob(j) \/ Owes(j) => (InJob(j) \/ Owes(j))'
      /\ \A j \in Workers : worker'[j].pc = "mark" => worker'[j] = worker[j]
  BY <1>1, <1>2 DEF Drawing, InJob, Owes, JobPcs
<1>4. BinsDrawn'
  BY <1>1, <1>3 DEF BinsDrawn, Stealing
<1>5. Pictures'
  BY <1>1, <1>3 DEF Pictures, Fresh, Has
<1> QED
  BY <1>1, <1>4, <1>5, LineWoken, LineDisplay DEF OnePool, idle

\* A worker claims a bin.
LEMMA LineWorkerClaim == ASSUME Inv, LineInv, ~pool.stop, NEW i \in Workers, WorkerClaim(i) PROVE LineInv'
<1> USE DEF LineInv
<1>1. /\ worker[i].pc = "claim" /\ UNCHANGED <<job, emu, comp, r, ctx, ref, phase, out>>
      /\ pool.next \in Nat
      /\ pool'.gen = pool.gen /\ pool'.jobs = pool.jobs /\ pool'.stop = pool.stop /\ pool'.size = pool.size
      /\ pool'.bits = pool.bits /\ pool'.next = pool.next + 1
      /\ pool'.remaining = pool.remaining /\ pool'.thieves = pool.thieves
  BY DEF WorkerClaim, Inv, Types, PoolRec
<1>2. /\ \A j \in Workers : j # i => worker'[j] = worker[j]
      /\ worker'[i].bin = pool.next
      /\ worker'[i].pc = IF pool.next < bin_count THEN "draw" ELSE "leave"
  BY DEF WorkerClaim, Inv, Types, WorkerRec
<1>3. InJob(i) /\ InJob(i)' /\ ~Drawing(i) /\ (Drawing(i)' <=> pool.next < bin_count)
  BY <1>1, <1>2 DEF InJob, Drawing, JobPcs
<1>4. \A j \in Workers : j # i => (Drawing(j)' <=> Drawing(j)) /\ (InJob(j)' <=> InJob(j)) /\ (Owes(j)' <=> Owes(j))
  BY <1>1, <1>2 DEF Drawing, InJob, Owes
<1>5. BinsDrawn'
  <2>1. \A b \in Bins : b < pool'.next => b < pool.next \/ (b = pool.next /\ pool.next < bin_count)
    BY <1>1, SizeAssumption DEF Bins
  <2>2. pool.next >= bin_count => pool'.next >= bin_count
    BY <1>1, SizeAssumption
  <2>3. Stealing' <=> Stealing
    BY <1>1 DEF Stealing
  <2>4. ASSUME NEW b \in Bins, b < pool'.next
        PROVE  b \in pool'.bits \/ (\E j \in Workers : Drawing(j)' /\ worker'[j].bin = b) \/ (Stealing' /\ emu'.bin = b)
    <3>1. CASE b = pool.next /\ pool.next < bin_count
      BY <1>2, <1>3, <3>1
    <3>2. CASE b < pool.next
      BY <1>1, <1>2, <1>3, <1>4, <2>3, <3>2 DEF BinsDrawn
    <3> QED
      BY <2>1, <2>4, <3>1, <3>2
  <2>5. \A j \in Workers : worker'[j].pc = "leave" => pool'.next >= bin_count
    BY <1>1, <1>2, <2>2, SizeAssumption DEF BinsDrawn
  <2>6. \A j \in Workers : j < pool'.jobs /\ ~InJob(j)' /\ ~Owes(j)' => pool'.next >= bin_count
    BY <1>1, <1>3, <1>4, <2>2 DEF BinsDrawn
  <2> QED
    BY <2>4, <2>5, <2>6 DEF BinsDrawn
<1>6. Pictures'
  <2>1. \A j \in Workers : worker'[j].pc = "mark" => worker'[j] = worker[j]
    BY <1>2
  <2> QED
    BY <1>1, <2>1 DEF Pictures, Fresh, Has
<1>7. r.pending > 0
  BY <1>3, InJobPending
<1> QED
  BY <1>1, <1>5, <1>6, <1>7, LineWoken, LineDisplay

\* A worker draws.
LEMMA LineWorkerDraw == ASSUME Inv, LineInv, ~pool.stop, NEW i \in Workers, WorkerDraw(i) PROVE LineInv'
<1> USE DEF LineInv
<1>1. /\ worker[i].pc = "draw" /\ out' = Drawn(job, worker[i].bin)
      /\ UNCHANGED <<pool, job, emu, comp, r, ctx, ref, phase>>
  BY DEF WorkerDraw
<1>2. /\ \A j \in Workers : j # i => worker'[j] = worker[j]
      /\ worker'[i].bin = worker[i].bin /\ worker'[i].pc = "mark"
  BY DEF WorkerDraw, Inv, Types, WorkerRec
<1>3. \A j \in Workers : /\ (Drawing(j)' <=> Drawing(j)) /\ worker'[j].bin = worker[j].bin
                         /\ (InJob(j)' <=> InJob(j)) /\ (~InJob(j) => (Owes(j)' <=> Owes(j)))
                         /\ worker'[j].pc = "leave" => worker[j].pc = "leave"
                         /\ worker'[j].pc = "mark" => j = i \/ worker[j].pc = "mark"
  BY <1>1, <1>2 DEF Drawing, InJob, Owes, JobPcs
<1>4. \A j \in Workers : Drawing(j) => worker[j].bin \in Bins
  BY DEF Inv, Claimed
<1>5. /\ Drawing(i) /\ worker[i].bin \in Bins /\ \A j \in Workers : worker[j].pc = "mark" => worker[j].bin \in Bins
  BY <1>1, <1>4 DEF Drawing
<1> DEFINE b == worker[i].bin
<1>6. /\ out'[job.buf][b] = job.frame /\ \A c \in Bins : Has(c) => Has(c)'
      /\ \A c \in Bins : ref.nbins > 0 /\ out[ref.buf][c] = ref.frame => out'[ref.buf][c] = ref.frame
  <2> HIDE DEF b
  <2>1. b \in Bins /\ out' = Drawn(job, b) /\ UNCHANGED <<job, ref>>
    BY <1>1, <1>5 DEF b
  <2>2. \A x \in Bins : out' = Drawn(job, x) =>
            /\ out'[job.buf][x] = job.frame /\ \A c \in Bins : Has(c) => Has(c)'
            /\ \A c \in Bins : ref.nbins > 0 /\ out[ref.buf][c] = ref.frame => out'[ref.buf][c] = ref.frame
    BY <2>1, DrawnOver DEF Has
  <2> QED
    BY <2>1, <2>2
<1>7. BinsDrawn'
  BY <1>1, <1>3 DEF BinsDrawn, Stealing
<1>8. Pictures'
  <2>1. Fresh' <=> Fresh
    BY <1>1 DEF Fresh
  <2>2. \A c \in pool.bits : c \in Bins
    BY DEF Inv, Types, PoolRec
  <2>3. Fresh' => \A c \in pool'.bits : Has(c)'
    BY <1>1, <1>6, <2>1, <2>2 DEF Pictures
  <2>4. \A j \in Workers : worker'[j].pc = "mark" => out'[job'.buf][worker'[j].bin] = job'.frame
    BY <1>1, <1>3, <1>5, <1>6 DEF Pictures, Has
  <2>5. emu'.pc = "thiefDone" => out'[job'.buf][emu'.bin] = job'.frame
    BY <1>1, <1>6 DEF Pictures, Has, Inv, Types, EmuRec
  <2> QED
    BY <2>3, <2>4, <2>5 DEF Pictures, Has
<1>9. r.pending > 0
  BY <1>1, InJobPending DEF InJob, JobPcs
<1> QED
  BY <1>1, <1>6, <1>7, <1>8, <1>9, LineWoken, LineDisplay

\* A worker marks its bin.
LEMMA LineWorkerMark == ASSUME Inv, LineInv, ~pool.stop, NEW i \in Workers, WorkerMark(i) PROVE LineInv'
<1> USE DEF LineInv
<1>1. /\ worker[i].pc = "mark" /\ UNCHANGED <<job, emu, comp, r, ctx, ref, phase, out>>
      /\ pool'.gen = pool.gen /\ pool'.jobs = pool.jobs /\ pool'.stop = pool.stop /\ pool'.size = pool.size
      /\ pool'.bits = pool.bits \cup {worker[i].bin} /\ pool'.next = pool.next
  BY DEF WorkerMark, Inv, Types, PoolRec
<1>2. /\ \A j \in Workers : j # i => worker'[j] = worker[j]
      /\ worker'[i].pc = "notify"
  BY DEF WorkerMark, Inv, Types, WorkerRec
<1>3. /\ InJob(i) /\ InJob(i)'
      /\ \A j \in Workers : j # i => (Drawing(j)' <=> Drawing(j)) /\ (InJob(j)' <=> InJob(j)) /\ (Owes(j)' <=> Owes(j))
      /\ \A j \in Workers : worker'[j].pc \in {"leave", "mark"} => worker'[j] = worker[j]
  BY <1>1, <1>2 DEF Drawing, InJob, Owes, JobPcs
<1>4. BinsDrawn'
  <2>1. Stealing' <=> Stealing
    BY <1>1 DEF Stealing
  <2> QED
    BY <1>1, <1>2, <1>3, <2>1 DEF BinsDrawn
<1>5. Pictures'
  BY <1>1, <1>3 DEF Pictures, Fresh, Has
<1>6. r.pending > 0
  BY <1>3, InJobPending
<1> QED
  BY <1>1, <1>4, <1>5, <1>6, LineWoken, LineDisplay

\* A worker tells that its bin is done.
LEMMA LineWorkerNotify == ASSUME Inv, LineInv, ~pool.stop, NEW i \in Workers, WorkerNotify(i) PROVE LineInv'
<1> USE DEF LineInv
<1>1. /\ worker[i].pc = "notify" /\ UNCHANGED <<pool, job, r, ctx, ref, phase, out>>
      /\ emu' = Rouse(emu) /\ comp' = Rouse(comp)
  BY DEF WorkerNotify
<1>2. /\ \A j \in Workers : j # i => worker'[j] = worker[j]
      /\ worker'[i].pc = "claim"
  BY DEF WorkerNotify, Inv, Types, WorkerRec
<1>3. /\ InJob(i) /\ InJob(i)' /\ ~Drawing(i) /\ ~Drawing(i)'
      /\ \A j \in Workers : j # i => (Drawing(j)' <=> Drawing(j)) /\ (InJob(j)' <=> InJob(j)) /\ (Owes(j)' <=> Owes(j))
      /\ \A j \in Workers : worker'[j].pc \in {"leave", "mark"} => worker'[j] = worker[j]
  BY <1>1, <1>2 DEF Drawing, InJob, Owes, JobPcs
<1>4. emu'.bin = emu.bin /\ (Stealing' <=> Stealing) /\ (emu'.pc = "thiefDone" => emu.pc = "thiefDone")
  BY <1>1, LineWoken
<1>5. BinsDrawn'
  BY <1>1, <1>2, <1>3, <1>4 DEF BinsDrawn
<1>6. Pictures'
  BY <1>1, <1>3, <1>4 DEF Pictures, Fresh, Has
<1>7. r.pending > 0
  BY <1>3, InJobPending
<1> QED
  BY <1>1, <1>5, <1>6, <1>7, LineWoken, LineDisplay

\* A worker leaves the job: there is no bin left.
LEMMA LineWorkerLeave == ASSUME Inv, LineInv, ~pool.stop, NEW i \in Workers, WorkerLeave(i) PROVE LineInv'
<1> USE DEF LineInv
<1>1. /\ worker[i].pc = "leave" /\ UNCHANGED <<job, r, ctx, ref, phase, out>>
      /\ emu' = Rouse(emu) /\ comp' = Rouse(comp)
      /\ pool'.gen = pool.gen /\ pool'.jobs = pool.jobs /\ pool'.stop = pool.stop /\ pool'.size = pool.size
      /\ pool'.bits = pool.bits /\ pool'.next = pool.next
  BY DEF WorkerLeave, Inv, Types, PoolRec
<1>2. /\ \A j \in Workers : j # i => worker'[j] = worker[j]
      /\ worker'[i].pc = "wait"
  BY DEF WorkerLeave, Inv, Types, WorkerRec
<1>3. /\ InJob(i) /\ ~Drawing(i) /\ ~Drawing(i)' /\ pool.next >= bin_count
      /\ \A j \in Workers : j # i => (Drawing(j)' <=> Drawing(j)) /\ (InJob(j)' <=> InJob(j)) /\ (Owes(j)' <=> Owes(j))
      /\ \A j \in Workers : worker'[j].pc \in {"leave", "mark"} => worker'[j] = worker[j]
  BY <1>1, <1>2 DEF Drawing, InJob, Owes, JobPcs, BinsDrawn
<1>4. emu'.bin = emu.bin /\ (Stealing' <=> Stealing) /\ (emu'.pc = "thiefDone" => emu.pc = "thiefDone")
  BY <1>1, LineWoken
<1>5. BinsDrawn'
  BY <1>1, <1>2, <1>3, <1>4 DEF BinsDrawn
<1>6. Pictures'
  BY <1>1, <1>3, <1>4 DEF Pictures, Fresh, Has
<1>7. r.pending > 0
  BY <1>3, InJobPending
<1> QED
  BY <1>1, <1>5, <1>6, <1>7, LineWoken, LineDisplay

-----------------------------------------------------------------------------
(* Frames.                                                                 *)

\* Line 0: the display goes to the last frame, whose bins may still be drawn.
LEMMA LineBeginFrame == ASSUME Inv, LineInv, ~pool.stop, BeginFrame PROVE LineInv'
<1> USE DEF LineInv
<1>1. /\ emu.pc = "free" /\ comp.pc = "none" /\ phase' = "lines"
      /\ ref'.gen = r.gen /\ ref'.nbins = r.pending /\ ref'.buf = r.display /\ ref'.frame = r.frame
      /\ UNCHANGED <<pool, job, worker, emu, comp, r, ctx, out>>
  BY DEF BeginFrame
<1>2. OnePool'
  BY <1>1 DEF OnePool, idle
<1>3. BinsDrawn'
  BY <1>1 DEF BinsDrawn, Drawing, InJob, Owes, Stealing
<1>4. Fresh' => Fresh
  BY <1>1 DEF Fresh
<1>5. Pictures'
  BY <1>1, <1>4 DEF Pictures, Has
<1>6. OnDisplay'
  <2>1. r.pending > 0 => pool.gen > 0 /\ pool.gen = r.gen
    BY DEF OnePool, Inv, Types, PoolRec
  <2>2. ref'.nbins > 0 => Before'
    BY <1>1, <2>1 DEF OnDisplay, Before, Current
  <2>3. ~InLine'
    BY <1>1 DEF InLine, SyncPcs
  <2> QED
    BY <1>1, <2>2, <2>3 DEF OnDisplay
<1>7. LineReady'
  BY <1>1 DEF LineReady
<1> QED
  BY <1>2, <1>3, <1>5, <1>6, <1>7

\* Before a frame is drawn, the one on display is all drawn, and not into the
\* buffer that is drawn next.
LEMMA DisplayedDrawn ==
  ASSUME Inv, LineInv, ~pool.stop, emu.pc = "prep", ref.nbins > 0
  PROVE  AllDrawn /\ Before /\ idle
<1>1. idle /\ Rendering
  BY DEF Inv, Places, Rendering
<1>2. Before
  BY <1>1, OnLast
<1>3. \A b \in Bins : b \in pool.bits
  BY <1>1, <1>2, IdleDone DEF Before, Current
<1>4. AllDrawn
  BY <1>3, DoneReady DEF AllDrawn
<1> QED
  BY <1>1, <1>2, <1>4

\* What is read while the frame is begun is read from the other buffer.
LEMMA LineOther ==
  ASSUME Inv, LineInv, ~pool.stop, emu.pc = "prep", UNCHANGED <<comp, ref>>, emu'.pc # "use",
         ref.nbins > 0 => AllDrawn'
  PROVE  LineReady'
<1>1. comp.bin \in Bins /\ (comp.pc = "use" => ref.nbins > 0)
  BY DEF Inv, Types, CompRec, LineInv, OnDisplay
<1> QED
  BY <1>1 DEF LineReady, AllDrawn

\* A frame is drawn on the spot.
LEMMA LineRenderInline == ASSUME Inv, LineInv, ~pool.stop, RenderInline PROVE LineInv'
<1> USE DEF LineInv
<1>1. /\ emu.pc = "prep" /\ emu'.pc = "free" /\ UNCHANGED <<pool, job, worker, comp, ctx, ref, phase>>
      /\ r'.display = Other(r.display) /\ r'.gen = r.gen /\ r'.pending = r.pending
  BY DEF RenderInline, Emu, Inv, Types, EmuRec
<1>2. r.display \in 0 .. 1 /\ Other(r.display) # r.display
  BY DEF Inv, Types, Other
<1>3. \A s \in 0 .. 1 : s # Other(r.display) => out'[s] = out[s]
  BY DEF RenderInline, Inv, Types
<1>4. idle /\ ~Stealing /\ phase = "vblank" /\ \A i \in Workers : ~InJob(i)
  BY <1>1, IdleNobody DEF Inv, Places, Rendering
<1>5. ~Stealing' /\ ~InLine' /\ ~Rendering' /\ emu'.pc \notin StealPcs /\ emu'.pc # "thiefDone"
  BY <1>1 DEF Stealing, InLine, Rendering, Syncing, SyncPcs, StealPcs
<1>6. ref.nbins > 0 => AllDrawn /\ Before
  BY <1>1, DisplayedDrawn
<1>7. ref.nbins > 0 => AllDrawn'
  BY <1>1, <1>2, <1>3, <1>6 DEF AllDrawn, Before, Inv, Types
<1>8. OnePool'
  BY <1>1, <1>4, <1>5 DEF OnePool, idle
<1>9. BinsDrawn'
  BY <1>1, <1>4, <1>5 DEF BinsDrawn, Drawing, InJob, Owes
<1>10. ~(r.pending > 0)
  BY <1>1 DEF OnePool
<1>11. Pictures'
  <2>1. \A i \in Workers : worker'[i].pc # "mark"
    BY <1>1, <1>4 DEF InJob, JobPcs
  <2>2. Fresh' => ref.nbins > 0 /\ Fresh
    BY <1>1, <1>10 DEF Fresh
  <2>3. ref.nbins > 0 => job.buf = ref.buf /\ job.frame = ref.frame
    BY <1>6 DEF Before, Current
  <2>4. \A b \in pool.bits : b \in Bins
    BY DEF Inv, Types, PoolRec
  <2>5. Fresh' => \A b \in pool'.bits : Has(b)'
    BY <1>1, <1>7, <2>2, <2>3, <2>4 DEF Has, AllDrawn
  <2> QED
    BY <1>5, <2>1, <2>5 DEF Pictures
<1>12. OnDisplay'
  <2>1. ref.nbins > 0 => Behind'
    BY <1>1, <1>4, <1>5, <1>6, <1>7 DEF Behind, Before, Current
  <2> QED
    BY <1>1, <1>5, <1>10, <2>1 DEF OnDisplay
<1>13. LineReady'
  BY <1>1, <1>7, LineOther
<1> QED
  BY <1>8, <1>9, <1>11, <1>12, <1>13

\* A frame is dispatched, into the other buffer.  The pool is replaced only
\* when there is none yet.
LEMMA LineRenderBands ==
  ASSUME ~layout, Inv, LineInv, ~pool.stop, NEW nb \in 1 .. W, RenderBands(nb) PROVE LineInv'
<1> USE DEF LineInv
<1> DEFINE grow == pool.size < nb
           p == IF grow THEN Pool(W) ELSE pool
<1>1. /\ pool' = dispatch(p, nb) /\ worker' = (IF grow THEN Loops(W) ELSE worker)
      /\ emu.pc = "prep" /\ UNCHANGED <<comp, ref, phase, out>>
      /\ job' = [buf |-> Target, frame |-> r.frame + 1]
      /\ ctx' = [ctx EXCEPT ![(r.gen + 1) % 2] = job']
      /\ r' = [gen |-> pool'.gen, pending |-> bin_count, display |-> Other(r.display), frame |-> r.frame + 1]
  BY DEF RenderBands
<1>2. pool \in PoolRec /\ Pool(W) \in PoolRec
  BY SizeAssumption DEF Inv, Types, Pool, PoolRec
<1>3. grow <=> pool.gen = 0
  BY <1>2, SizeAssumption DEF OnePool, PoolRec
<1>4. p \in PoolRec /\ p.size = W /\ p.gen = pool.gen /\ p.stop = FALSE
  BY <1>2, <1>3 DEF OnePool, Pool, PoolRec
<1>5. /\ pool'.gen = pool.gen + 1 /\ pool'.bits = {} /\ pool'.next = 0 /\ pool'.jobs = nb /\ pool'.size = W
      /\ pool'.stop = FALSE
  BY <1>1, <1>4, DispatchFields
<1> HIDE DEF p, grow
<1>6. /\ emu'.pc = "notify" /\ job'.buf = Other(r.display) /\ r'.gen = pool.gen + 1 /\ r'.pending = bin_count
      /\ job' = [buf |-> r'.display, frame |-> r'.frame]
  BY <1>1, <1>5 DEF RenderBands, Emu, Inv, Types, EmuRec, Target
<1>7. idle /\ phase = "vblank" /\ \A i \in Workers : ~InJob(i)
  BY <1>1, IdleNobody DEF Inv, Places, Rendering
<1>8. ~Stealing' /\ ~InLine' /\ ~Rendering' /\ emu'.pc \notin StealPcs /\ emu'.pc # "thiefDone"
  BY <1>6 DEF Stealing, InLine, Rendering, Syncing, SyncPcs, StealPcs
<1>9. \A i \in Workers : worker'[i].pc \notin JobPcs /\ worker'[i].seen <= pool.gen /\ worker'[i].seen \in Nat
  <2>1. \A i \in Workers : Loops(W)[i].pc \notin JobPcs /\ Loops(W)[i].seen = 0
    BY DEF Loops, JobPcs
  <2>2. \A i \in Workers : worker[i].pc \notin JobPcs /\ worker[i].seen <= pool.gen /\ worker[i].seen \in Nat
    BY <1>7 DEF InJob, Inv, Counted, Types, WorkerRec
  <2> QED
    BY <1>1, <1>2, <2>1, <2>2 DEF PoolRec
<1>10. OnePool'
  <2>1. pool.gen \in Nat /\ pool.gen = r.gen
    BY <1>2 DEF PoolRec, OnePool
  <2>2. ctx'[pool'.gen % 2] = job'
    <3>1. (r.gen + 1) % 2 \in 0 .. 1
      BY <2>1
    <3>2. ctx'[(r.gen + 1) % 2] = job'
      BY <1>1, <3>1 DEF Inv, Types
    <3> QED
      BY <1>5, <2>1, <3>2
  <2> QED
    BY <1>5, <1>6, <1>8, <2>1, <2>2, SizeAssumption DEF OnePool
<1>11. BinsDrawn'
  <2>1. \A i \in Workers : i < pool'.jobs => Owes(i)'
    BY <1>2, <1>5, <1>9 DEF Owes, PoolRec
  <2>2. \A b \in Bins : ~(b < pool'.next)
    BY <1>5, SizeAssumption DEF Bins
  <2> QED
    BY <1>9, <2>1, <2>2 DEF BinsDrawn, JobPcs
<1>12. Pictures'
  BY <1>5, <1>8, <1>9 DEF Pictures, JobPcs
<1>13. ref.nbins > 0 => AllDrawn' /\ Before
  BY <1>1, DisplayedDrawn DEF AllDrawn
<1>14. OnDisplay'
  <2>1. ref.nbins > 0 => job'.buf # ref.buf
    BY <1>6, <1>13 DEF Before, Other, Inv, Types
  <2>2. ref.nbins > 0 => Behind'
    BY <1>1, <1>7, <1>8, <1>13, <2>1 DEF Behind
  <2> QED
    BY <1>1, <1>6, <1>8, <2>2 DEF OnDisplay
<1>15. LineReady'
  BY <1>1, <1>6, <1>13, LineOther
<1> QED
  BY <1>10, <1>11, <1>12, <1>14, <1>15

\* A renderer that has drawn nothing.
LEMMA LineNew == NewState => LineInv
<1> SUFFICES ASSUME NewState PROVE LineInv
  OBVIOUS
<1> USE DEF NewState, Renderer
<1>1. /\ pool.gen = 0 /\ pool.size = 0 /\ pool.next = 0 /\ pool.bits = {} /\ pool.jobs = 0 /\ idle
  BY DEF Pool, idle
<1>2. \A i \in Workers : worker[i].pc = "none" /\ i >= 0
  BY SizeAssumption DEF Loops, Workers
<1>3. emu.pc = "free" /\ ref.nbins = 0 /\ r.pending = 0 /\ r.gen = 0
  OBVIOUS
<1>4. OnePool
  BY <1>1, <1>3 DEF OnePool, StealPcs
<1>5. BinsDrawn
  <2>1. \A i \in Workers : ~(i < pool.jobs) /\ worker[i].pc # "leave"
    BY <1>1, <1>2, SizeAssumption DEF Workers
  <2>2. \A b \in Bins : ~(b < pool.next)
    BY <1>1, SizeAssumption DEF Bins
  <2> QED
    BY <2>1, <2>2 DEF BinsDrawn
<1>6. Pictures
  BY <1>1, <1>2, <1>3 DEF Pictures
<1>7. OnDisplay
  BY <1>3 DEF OnDisplay, InLine, SyncPcs
<1>8. LineReady
  BY <1>3 DEF LineReady
<1> QED
  BY <1>4, <1>5, <1>6, <1>7, <1>8 DEF LineInv

\* A pool that is to stop stays so until there is a new one.
LEMMA StopStays == ASSUME Inv, pool.stop, [Next]_vars PROVE pool'.stop \/ NewState'
<1>0. emu.pc \in {"stopNotify", "join"} /\ pool \in PoolRec
  BY DEF Inv, Places, Types
<1>1. CASE Begin
  BY <1>0, <1>1 DEF Begin, BeginFrame, SyncRaster, RenderFrame, SkipFrame, Destroy, HandOver, SyncLine
<1>2. CASE EmuStep
  <2>1. CASE StopNotify
    BY <2>1 DEF StopNotify
  <2>2. CASE Join
    BY <1>0, <2>2 DEF Join, NewState, Inv, Types, Places, Ending
  <2> QED
    BY <1>0, <1>2, <2>1, <2>2 DEF EmuStep, Use, Synced, Notify, RenderKept, RenderInline, RenderBands, Steal,
       ClaimIf, StealDraw, ThiefDone, ThiefNotify, WaitIdle, WaitBits, Stop
<1>3. CASE CompStep
  BY <1>3 DEF CompStep, CompGen, CompBits, CompWait, CompUse, Comp
<1>4. CASE Spurious
  BY <1>4 DEF Spurious, EmuSpurious, CompSpurious, WorkerSpurious, Comp
<1>5. ASSUME NEW i \in Workers, WorkerStep(i) PROVE pool'.stop
  <2>1. CASE WorkerWait(i) \/ WorkerDraw(i) \/ WorkerNotify(i)
    BY <2>1 DEF WorkerWait, WorkerDraw, WorkerNotify
  <2>2. CASE WorkerClaim(i)
    BY <1>0, <2>2 DEF WorkerClaim, PoolRec
  <2>3. CASE WorkerMark(i)
    BY <1>0, <2>3 DEF WorkerMark, PoolRec
  <2>4. CASE WorkerLeave(i)
    BY <1>0, <2>4 DEF WorkerLeave, PoolRec
  <2> QED
    BY <1>5, <2>1, <2>2, <2>3, <2>4 DEF WorkerStep
<1>6. CASE UNCHANGED vars
  BY <1>6 DEF vars
<1> QED
  BY <1>1, <1>2, <1>3, <1>4, <1>5, <1>6 DEF Next

\* Every step keeps the lines' invariant.
LEMMA LineNext == ~layout /\ Inv /\ LineInv /\ [Next]_vars => LineInv'
<1> SUFFICES ASSUME ~layout, Inv, LineInv, [Next]_vars PROVE LineInv'
  OBVIOUS
<1>1. CASE pool.stop
  <2>1. NewState' => LineInv'
    BY LineNew, PTL
  <2>2. pool'.stop => LineInv'
    BY DEF LineInv
  <2> QED
    BY <1>1, <2>1, <2>2, StopStays
<1>2. CASE ~pool.stop
  <2>1. CASE Begin
    BY <1>2, <2>1, LineBeginFrame, LineSyncAll, LineSkip, LineComp, LineSyncLine DEF Begin
  <2>2. CASE EmuStep
    <3>1. CASE Stop
      <4>1. pool'.stop
        BY <3>1 DEF Stop, Inv, Types, PoolRec
      <4> QED
        BY <4>1 DEF LineInv
    <3>2. ~StopNotify /\ ~Join
      BY <1>2 DEF StopNotify, Join, Inv, Places
    <3> QED
      BY <1>2, <2>2, <3>1, <3>2, LineUse, LineSynced, LineNotify, LineRenderInline, LineRenderBands, LineSteal,
         LineClaimIf, LineStealDraw, LineThiefDone, LineThiefNotify, LineWaitIdle, LineWaitBits DEF EmuStep
  <2>3. CASE CompStep
    BY <1>2, <2>3, LineComp
  <2>4. CASE Spurious
    BY <1>2, <2>4, LineRoused, LineComp, LineWorkerWait DEF Spurious, EmuSpurious
  <2>5. CASE \E i \in Workers : WorkerStep(i)
    BY <1>2, <2>5, LineWorkerWait, LineWorkerClaim, LineWorkerDraw, LineWorkerMark, LineWorkerNotify,
       LineWorkerLeave DEF WorkerStep
  <2>6. CASE UNCHANGED vars
    BY <2>6 DEF vars, LineInv, OnePool, BinsDrawn, Pictures, OnDisplay, LineReady, idle, Drawing, InJob, Owes,
       Stealing, Has, Fresh, Before, Behind, Current, AllDrawn, InLine, Rendering, Syncing
  <2> QED
    BY <2>1, <2>2, <2>3, <2>4, <2>5, <2>6 DEF Next
<1> QED
  BY <1>1, <1>2

\* With the thread layout off the pool is made once, and its lines are right.
LEMMA LineInvariance == ASSUME ~layout PROVE Spec => []LineInv
<1>1. Init => NewState
  BY LastBin DEF Init, NewState, CompRec
<1>2. Init => LineInv
  BY <1>1, LineNew
<1>3. Inv /\ LineInv /\ [Next]_vars => LineInv'
  BY LineNext
<1> QED
  BY <1>2, <1>3, Invariance, PTL DEF Spec

\* With the thread layout off (the pool is made once), and for any number of
\* workers, bins and frames: a line is read, by the emulation thread or the
\* compositor, only when its bin has the picture of the frame on display
\* (sync_line, wait_bits, the double buffer).
THEOREM LinesRead == ASSUME ~layout PROVE Spec => []LineReady
<1>1. Inv /\ LineInv => LineReady
  <2> SUFFICES ASSUME Inv, LineInv PROVE LineReady
    OBVIOUS
  <2>1. pool.stop => emu.pc # "use" /\ comp.pc = "none"
    BY DEF Inv, Places, Ending
  <2> QED
    BY <2>1 DEF LineInv, LineReady
<1> QED
  BY <1>1, Invariance, LineInvariance, PTL

\* With the thread layout off a thief draws from the context of the dispatch
\* it steals from (steal_bins, ctx_): what the run with the layout on refutes.
THEOREM ThievesDrawTheJob == ASSUME ~layout PROVE Spec => []ThiefHasContext
<1>1. Inv /\ LineInv => ThiefHasContext
  <2> SUFFICES ASSUME Inv, LineInv, emu.pc = "draw" PROVE ctx[Gen % 2] = job
    BY DEF ThiefHasContext
  <2>1. Stealing /\ ~pool.stop
    BY DEF Stealing, Inv, Places
  <2> QED
    BY <2>1, ThiefContext
<1> QED
  BY <1>1, Invariance, LineInvariance, PTL
=============================================================================

------------------------- MODULE PresentThread -------------------------
(***************************************************************************)
(* The GPU present off the emulation thread: PresentThread                  *)
(* (src/src/frontend/sdl/present_thread.h) with its user,                   *)
(* Display::draw_async (display.cpp), which copies the frame to one stage   *)
(* for all windows and posts a job that reads the stage and drives the      *)
(* windows' presenters; every other operation of a window first waits for   *)
(* the window's last job.                                                   *)
(*                                                                         *)
(* A critical section of m_ is one step.                                    *)
(***************************************************************************)
EXTENDS Integers, Sequences

CONSTANTS Windows,   \* the Displays of a layout
          MaxJobs    \* bound: jobs posted in a behaviour

VARIABLES jobs,      \* jobs_: the jobs posted and not yet taken
          posted, done, quit,   \* posted_, done_, quit_
          worker,    \* where the present thread is; "none": not started
          running,   \* the job it has taken, a sequence of at most one
          ticket,    \* each window's job_, 0: none outstanding
          stage,     \* the frame in the stage buffers
          stage_job, \* stage_job
          main,      \* where the emulation thread is
          todo,      \* draw_async: windows not yet looked at; else the window used
          got,       \* draw_async: windows that present this frame
          resting    \* the threads asleep on cv_ ("worker") and done_cv_ ("main")

vars == <<jobs, posted, done, quit, worker, running, ticket, stage, stage_job,
          main, todo, got, resting>>

Init == /\ jobs = <<>> /\ posted = 0 /\ done = 0 /\ quit = FALSE
        /\ worker = "none" /\ running = <<>>
        /\ ticket = [w \in Windows |-> 0]
        /\ stage = 0 /\ stage_job = 0
        /\ main = "idle" /\ todo = {} /\ got = {} /\ resting = {}

queueVars == <<jobs, posted, done, quit, worker, running>>
stageVars == <<stage, stage_job>>

----------------------------------------------------------------------
\* The emulation thread.

\* wait(t): returns at once, or sleeps on done_cv_ until the job has run.
Over(t) == done >= t
MainAwake == "main" \notin resting

WaitSleep == /\ MainAwake
             /\ \/ main \in {"sync", "touch", "leave"} /\ \E w \in todo : ~Over(ticket[w])
                \/ main = "stage" /\ ~Over(stage_job)
             /\ resting' = resting \cup {"main"}
             /\ UNCHANGED <<queueVars, stageVars, ticket, main, todo, got>>

DrawAsync == /\ main = "idle" /\ posted < MaxJobs
             /\ todo' \in SUBSET Windows \ {{}}
             /\ got' = {} /\ main' = "sync"
             /\ UNCHANGED <<queueVars, stageVars, ticket, resting>>

\* One window of draw_async: its last job is waited for; it presents this
\* frame unless it has no presenter or has just lost it.
SyncWindow == \E w \in todo :
                /\ main = "sync" /\ MainAwake /\ Over(ticket[w])
                /\ ticket' = [ticket EXCEPT ![w] = 0]
                /\ todo' = todo \ {w}
                /\ got' \in {got, got \cup {w}}
                /\ main' = IF todo' # {} THEN "sync" ELSE IF got' = {} THEN "idle" ELSE "stage"
                /\ UNCHANGED <<queueVars, stageVars, resting>>

StageAtOnce == /\ main = "stage"
               /\ stage' = posted + 1 /\ main' = "post"
               /\ UNCHANGED <<queueVars, stage_job, ticket, todo, got, resting>>

Stage == /\ main = "stage" /\ MainAwake /\ Over(stage_job)
         /\ stage' = posted + 1 /\ main' = "post"
         /\ UNCHANGED <<queueVars, stage_job, ticket, todo, got, resting>>

PostUncounted == /\ main = "post"
                 /\ jobs' = Append(jobs, [windows |-> got, frame |-> stage])
                 /\ stage_job' = posted
                 /\ ticket' = [w \in Windows |-> IF w \in got THEN posted ELSE ticket[w]]
                 /\ worker' = IF worker = "none" THEN "check" ELSE worker
                 /\ resting' = resting \ {"worker"}
                 /\ main' = "idle" /\ got' = {}
                 /\ UNCHANGED <<posted, done, quit, running, stage, todo>>

PostJob == /\ main = "post"
           /\ jobs' = Append(jobs, [windows |-> got, frame |-> stage])
           /\ posted' = posted + 1 /\ stage_job' = posted + 1
           /\ ticket' = [w \in Windows |-> IF w \in got THEN posted + 1 ELSE ticket[w]]
           /\ worker' = IF worker = "none" THEN "check" ELSE worker
           /\ resting' = resting \ {"worker"}
           /\ main' = "idle" /\ got' = {}
           /\ UNCHANGED <<done, quit, running, stage, todo>>

\* Any other operation of a window: sync, then its presenter or sink is used.
Touch == /\ main = "idle"
         /\ \E w \in Windows : todo' = {w}
         /\ main' = "touch"
         /\ UNCHANGED <<queueVars, stageVars, ticket, got, resting>>

Use == \E w \in todo :
         /\ main = "touch" /\ MainAwake /\ Over(ticket[w])
         /\ ticket' = [ticket EXCEPT ![w] = 0]
         /\ main' = "use"
         /\ UNCHANGED <<queueVars, stageVars, todo, got, resting>>

Used == /\ main = "use"
        /\ main' = "idle" /\ todo' = {}
        /\ UNCHANGED <<queueVars, stageVars, ticket, got, resting>>

\* The end of the program: the windows are synced, then the thread's
\* destructor runs.
Leave == /\ main = "idle"
         /\ main' = "leave" /\ todo' = Windows
         /\ UNCHANGED <<queueVars, stageVars, ticket, got, resting>>

LeaveWindow == \E w \in todo :
                 /\ main = "leave" /\ MainAwake /\ Over(ticket[w])
                 /\ ticket' = [ticket EXCEPT ![w] = 0]
                 /\ todo' = todo \ {w}
                 /\ UNCHANGED <<queueVars, stageVars, main, got, resting>>

Quit == /\ main = "leave" /\ todo = {}
        /\ quit' = (worker # "none")
        /\ main' = IF worker = "none" THEN "out" ELSE "quit"
        /\ UNCHANGED <<jobs, posted, done, worker, running, stageVars, ticket, todo,
                       got, resting>>

QuitNotify == /\ main = "quit"
              /\ main' = "join" /\ resting' = resting \ {"worker"}
              /\ UNCHANGED <<queueVars, stageVars, ticket, todo, got>>

Joined == /\ main = "join" /\ worker = "gone"
          /\ main' = "out"
          /\ UNCHANGED <<queueVars, stageVars, ticket, todo, got, resting>>

----------------------------------------------------------------------
\* The present thread: loop.

WorkerAwake == "worker" \notin resting

TakeJob == /\ worker = "check" /\ WorkerAwake /\ jobs # <<>>
           /\ running' = <<Head(jobs)>> /\ jobs' = Tail(jobs)
           /\ worker' = "run"
           /\ UNCHANGED <<posted, done, quit, stageVars, ticket, main, todo, got, resting>>

WorkerRest == /\ worker = "check" /\ WorkerAwake /\ jobs = <<>> /\ ~quit
              /\ resting' = resting \cup {"worker"}
              /\ UNCHANGED <<queueVars, stageVars, ticket, main, todo, got>>

WorkerGone == /\ worker = "check" /\ WorkerAwake /\ jobs = <<>> /\ quit
              /\ worker' = "gone"
              /\ UNCHANGED <<jobs, posted, done, quit, running, stageVars, ticket, main,
                             todo, got, resting>>

DoneQuietly == /\ worker = "run"
               /\ running' = <<>> /\ done' = done + 1
               /\ worker' = "check"
               /\ UNCHANGED <<jobs, posted, quit, stageVars, ticket, main, todo, got,
                              resting>>

JobDone == /\ worker = "run"
           /\ running' = <<>> /\ done' = done + 1
           /\ worker' = "check" /\ resting' = resting \ {"main"}
           /\ UNCHANGED <<jobs, posted, quit, stageVars, ticket, main, todo, got>>

Worker == TakeJob \/ WorkerRest \/ WorkerGone \/ JobDone
InCall == \/ WaitSleep \/ SyncWindow \/ Stage \/ PostJob \/ Use \/ Used
          \/ LeaveWindow \/ Quit \/ QuitNotify \/ Joined

Next == DrawAsync \/ Touch \/ Leave \/ InCall \/ Worker

Outstanding == {jobs[i] : i \in DOMAIN jobs} \cup {running[i] : i \in DOMAIN running}
======================================================================

----------------------------- MODULE LineWorker -----------------------------
(***************************************************************************)
(* gpu/line_worker.h: one thread that runs a fixed job for every dispatch  *)
(* of its caller, by a request counter it spins on before it parks on a    *)
(* condition variable, and an acknowledge counter its caller spins on.     *)
(*                                                                         *)
(* req_, ack_ and parked_ are atomics two threads read while the other     *)
(* writes: a store sits in its thread's buffer until it is flushed, and a  *)
(* sequentially consistent fence waits for the buffer to drain (the Dekker *)
(* pair of dispatch() and loop()).  The mutex and the condition variable   *)
(* are the library's; a wait may also wake for no reason.                  *)
(***************************************************************************)
EXTENDS Naturals, Sequences

CONSTANT Wrap        \* The counters' range: 2^32 in the code.

ASSUME WrapAssumption == Wrap \in Nat \ {0, 1}

VARIABLES
  mem,       \* What is in memory: req, ack and parked.
  buf,       \* Per thread: its stores not yet in memory, oldest first.
  quit,      \* quit_, read by the worker only.
  mutex,     \* Who holds m_ across a step: "worker" or "none".
  caller,    \* Where the calling thread is.
  n,         \* The caller's own view of req_.
  worker,    \* Where the worker is.
  last,      \* loop()'s last.
  r,         \* loop()'s r.
  ran        \* History: how often the job ran since the last dispatch.

vars == <<mem, buf, quit, mutex, caller, n, worker, last, r, ran>>

Threads  == {"caller", "worker"}
Counter  == 0..(Wrap - 1)

Store(t, field, value) == [buf EXCEPT ![t] = Append(@, [field |-> field, value |-> value])]

\* The store buffers drain on their own, in order.
Flush(t) ==
  /\ buf[t] # <<>>
  /\ mem' = [mem EXCEPT ![Head(buf[t]).field] = Head(buf[t]).value]
  /\ buf' = [buf EXCEPT ![t] = Tail(@)]
  /\ UNCHANGED <<quit, mutex, caller, n, worker, last, r, ran>>

\* Mutant of Fence: none.
NoFence(t) == TRUE

\* A sequentially consistent fence.
Fence(t) == buf[t] = <<>>

-----------------------------------------------------------------------------
(* The caller.                                                             *)

\* Mutant of Start: the last worker's acknowledge is left in place.
StartKeepsAck ==
  /\ caller = "stopped"
  /\ mem' = [mem EXCEPT !.req = 0] /\ n' = 0
  /\ quit' = FALSE
  /\ worker' = "load" /\ last' = 0
  /\ caller' = "idle" /\ ran' = 1
  /\ UNCHANGED <<buf, mutex, r>>

\* start(): both counters are zero and a new worker runs.
Start ==
  /\ caller = "stopped"
  /\ mem' = [mem EXCEPT !.req = 0, !.ack = 0] /\ n' = 0
  /\ quit' = FALSE
  /\ worker' = "load" /\ last' = 0
  /\ caller' = "idle" /\ ran' = 1
  /\ UNCHANGED <<buf, mutex, r>>

\* dispatch(): the request is stored, then fenced.
Dispatch ==
  /\ caller = "idle"
  /\ n' = (n + 1) % Wrap
  /\ buf' = Store("caller", "req", n')
  /\ caller' = "fence" /\ ran' = 0
  /\ UNCHANGED <<mem, quit, mutex, worker, last, r>>

DispatchFence ==
  /\ caller = "fence" /\ Fence("caller")
  /\ caller' = "parked?"
  /\ UNCHANGED <<mem, buf, quit, mutex, n, worker, last, r, ran>>

DispatchParked ==
  /\ caller = "parked?"
  /\ caller' = IF mem.parked THEN "notify" ELSE "busy"
  /\ UNCHANGED <<mem, buf, quit, mutex, n, worker, last, r, ran>>

\* notify_one and notify_all alike: there is one waiter at most.
Woken == IF worker = "asleep" THEN "relock" ELSE worker

\* The notify happens under the lock.
DispatchNotify ==
  /\ caller = "notify" /\ mutex = "none"
  /\ worker' = Woken
  /\ caller' = "busy"
  /\ UNCHANGED <<mem, buf, quit, mutex, n, last, r, ran>>

\* wait() spins until the acknowledge it wants is there.
Wait ==
  /\ caller = "busy" /\ mem.ack = n
  /\ caller' = "idle"
  /\ UNCHANGED <<mem, buf, quit, mutex, n, worker, last, r, ran>>

\* stop(), from the destructor: a job may be outstanding.
Stop ==
  /\ caller \in {"idle", "busy"}
  /\ quit' = TRUE
  /\ caller' = "stopLock"
  /\ UNCHANGED <<mem, buf, mutex, n, worker, last, r, ran>>

\* Mutant of StopLock: the empty critical section left out.
StopNoLock ==
  /\ caller = "stopLock"
  /\ caller' = "stopNotify"
  /\ UNCHANGED <<mem, buf, quit, mutex, n, worker, last, r, ran>>

StopLock ==
  /\ caller = "stopLock" /\ mutex = "none"
  /\ caller' = "stopNotify"
  /\ UNCHANGED <<mem, buf, quit, mutex, n, worker, last, r, ran>>

StopNotify ==
  /\ caller = "stopNotify"
  /\ worker' = Woken
  /\ caller' = "join"
  /\ UNCHANGED <<mem, buf, quit, mutex, n, last, r, ran>>

\* A thread's end publishes its stores.
Join ==
  /\ caller = "join" /\ worker = "exited" /\ Fence("worker")
  /\ caller' = "stopped"
  /\ UNCHANGED <<mem, buf, quit, mutex, n, worker, last, r, ran>>

-----------------------------------------------------------------------------
(* The worker: loop().                                                     *)

Load ==
  /\ worker = "load"
  /\ r' = mem.req
  /\ worker' = "test"
  /\ UNCHANGED <<mem, buf, quit, mutex, caller, n, last, ran>>

\* Mutant of Test: the request is not remembered.
TestForgets ==
  /\ worker = "test"
  /\ worker' \in (IF r # last THEN {"job"} ELSE IF quit THEN {"exited"} ELSE {"load", "lock"})
  /\ UNCHANGED <<mem, buf, quit, mutex, caller, n, last, r, ran>>

\* while (r == last): give up, spin again or, the spins used up, park.
Test ==
  /\ worker = "test"
  /\ IF r # last THEN worker' = "job" /\ last' = r
     ELSE /\ worker' \in (IF quit THEN {"exited"} ELSE {"load", "lock"})
          /\ UNCHANGED last
  /\ UNCHANGED <<mem, buf, quit, mutex, caller, n, r, ran>>

Park ==
  /\ worker = "lock" /\ mutex = "none"
  /\ mutex' = "worker"
  /\ buf' = Store("worker", "parked", TRUE)
  /\ worker' = "fence"
  /\ UNCHANGED <<mem, quit, caller, n, last, r, ran>>

\* The re-check after the fence, then cv_.wait's predicate.
Recheck ==
  /\ worker = "fence" /\ Fence("worker")
  /\ r' = mem.req
  /\ worker' = IF mem.req = last /\ ~quit THEN "pred" ELSE "unpark"
  /\ UNCHANGED <<mem, buf, quit, mutex, caller, n, last, ran>>

Predicate ==
  /\ worker = "pred"
  /\ r' = mem.req
  /\ worker' = IF mem.req # last \/ quit THEN "unpark" ELSE "sleep"
  /\ UNCHANGED <<mem, buf, quit, mutex, caller, n, last, ran>>

\* The wait itself: the mutex is released and the thread sleeps, in one step.
Sleep ==
  /\ worker = "sleep"
  /\ worker' = "asleep" /\ mutex' = "none"
  /\ UNCHANGED <<mem, buf, quit, caller, n, last, r, ran>>

SpuriousWake ==
  /\ worker = "asleep"
  /\ worker' = "relock"
  /\ UNCHANGED <<mem, buf, quit, mutex, caller, n, last, r, ran>>

Relock ==
  /\ worker = "relock" /\ mutex = "none"
  /\ mutex' = "worker"
  /\ worker' = "pred"
  /\ UNCHANGED <<mem, buf, quit, caller, n, last, r, ran>>

\* The lock is released where it goes out of scope, on both ways out.
Unpark ==
  /\ worker = "unpark"
  /\ buf' = Store("worker", "parked", FALSE)
  /\ mutex' = "none"
  /\ worker' = IF quit THEN "exited" ELSE "test"
  /\ UNCHANGED <<mem, quit, caller, n, last, r, ran>>

\* fn_(arg_).
Job ==
  /\ worker = "job"
  /\ ran' = ran + 1
  /\ worker' = "ack"
  /\ UNCHANGED <<mem, buf, quit, mutex, caller, n, last, r>>

Acknowledge ==
  /\ worker = "ack"
  /\ buf' = Store("worker", "ack", r)
  /\ worker' = "load"
  /\ UNCHANGED <<mem, quit, mutex, caller, n, last, r, ran>>

-----------------------------------------------------------------------------
Init ==
  /\ mem = [req |-> 0, ack |-> 0, parked |-> FALSE]
  /\ buf = [t \in Threads |-> <<>>]
  /\ quit = FALSE /\ mutex = "none"
  /\ caller = "stopped" /\ n = 0
  /\ worker = "exited" /\ last = 0 /\ r = 0
  /\ ran = 1

CallerStep ==
  DispatchFence \/ DispatchParked \/ DispatchNotify \/ Wait \/ StopLock \/ StopNotify \/ Join

WorkerStep == Load \/ Test \/ Park \/ Recheck \/ Predicate \/ Sleep \/ Relock \/ Unpark \/ Job \/ Acknowledge

Next ==
  \/ Start \/ Dispatch \/ Stop \/ CallerStep
  \/ WorkerStep \/ SpuriousWake
  \/ \E t \in Threads : Flush(t)

Spec == Init /\ [][Next]_vars

\* Both threads are scheduled, stores reach memory, and a mutex that is free
\* again and again is obtained in the end.  Nothing makes the caller dispatch,
\* stop or start, and nothing need wake a wait but a notify.
LiveSpec ==
  /\ Spec
  /\ WF_vars(CallerStep) /\ WF_vars(WorkerStep)
  /\ SF_vars(DispatchNotify) /\ SF_vars(StopLock)
  /\ \A t \in Threads : WF_vars(Flush(t))

-----------------------------------------------------------------------------
(* Properties.                                                             *)

Stores == [field : {"req", "ack"}, value : Counter] \cup [field : {"parked"}, value : BOOLEAN]

\* The counters stay in range and no store buffer grows without bound: a
\* worker has at most an acknowledge, an unpark and a park of its own in flight.
TypeOK ==
  /\ mem \in [req : Counter, ack : Counter, parked : BOOLEAN]
  /\ \A t \in Threads : Len(buf[t]) <= 3 /\ \A i \in 1..Len(buf[t]) : buf[t][i] \in Stores
  /\ quit \in BOOLEAN /\ mutex \in {"none", "worker"}
  /\ caller \in {"stopped", "idle", "fence", "parked?", "notify", "busy", "stopLock", "stopNotify", "join"}
  /\ worker \in {"load", "test", "lock", "fence", "pred", "sleep", "asleep", "relock", "unpark", "job", "ack", "exited"}
  /\ n \in Counter /\ last \in Counter /\ r \in Counter
  /\ ran \in 0..1

\* Outside dispatch() .. wait() the caller owns the job's data: the job ran
\* exactly once for the last dispatch, and the worker is not in it.
WaitMeansDone == caller = "idle" => ran = 1 /\ worker # "job"

\* No wake-up is lost: once dispatch() has returned, a worker that has not
\* seen the request is not asleep, and once stop() has notified, none is.
NoLostWakeup ==
  /\ ~(caller = "busy" /\ worker = "asleep" /\ mem.req # last)
  /\ ~(caller = "join" /\ worker = "asleep")

\* The caller's blocking calls return: wait(), unless the caller stops the
\* worker instead, and stop(), which tells the worker to quit wherever it is.
CallsReturn == /\ caller = "fence" ~> caller \in {"idle", "stopped"}
               /\ caller = "stopLock" ~> caller = "stopped"

\* Who owns the job's data: the caller again once wait() has returned or,
\* while it stops the worker, once the acknowledge is there.
Stopping == caller \in {"stopLock", "stopNotify", "join"}
Owner ==
  IF caller \in {"idle", "stopped"} \/ (Stopping /\ ran = 1 /\ mem.ack = n) THEN "caller"
  ELSE IF ran = 1 THEN "finished"
  ELSE IF worker = "job" THEN "running" ELSE "given"

\* The protocol implements the hand-off it promises (HandOff), with weak
\* memory, spurious wake-ups and a stop at any time.
Abstract == INSTANCE HandOff WITH owner <- Owner
ImplementsHandOff == Abstract!Spec
=============================================================================

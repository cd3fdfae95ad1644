-------------------------- MODULE LineWorkerProofs --------------------------
(***************************************************************************)
(* The line worker's hand-off, for every range of its counters (2^32 in    *)
(* the code): wait() returns only when the job ran, no wake-up is lost     *)
(* under weak memory, and the protocol implements HandOff.                 *)
(***************************************************************************)
EXTENDS LineWorker, SequenceTheorems, TLAPS

\* The stores the two threads have in flight.
Req(v)   == [field |-> "req", value |-> v]
Ack(v)   == [field |-> "ack", value |-> v]
Parked   == [field |-> "parked", value |-> TRUE]
Unparked == [field |-> "parked", value |-> FALSE]

\* The worker's buffer, oldest store first: at most an unpark, an acknowledge
\* of request v and, before its fence, a park, in this order.
Rank(s) == IF s = Unparked THEN 1 ELSE IF s = Parked THEN 3 ELSE 2
Shape(b, v) ==
  /\ b \in Seq(Stores)
  /\ \A i \in 1 .. Len(b) : b[i] \in {Unparked, Ack(v), Parked}
  /\ \A i, j \in 1 .. Len(b) : i < j => Rank(b[i]) < Rank(b[j])
InFlight(b, s) == \E i \in 1 .. Len(b) : b[i] = s

WorkerBuf ==
  /\ Shape(buf["worker"], n)
  /\ InFlight(buf["worker"], Parked) => worker = "fence"
  /\ worker = "fence" => buf["worker"] = <<>> \/ InFlight(buf["worker"], Parked)
  /\ worker \in {"pred", "sleep", "asleep", "relock", "unpark"} => buf["worker"] = <<>>
  /\ worker \in {"fence", "pred", "sleep", "asleep", "relock", "unpark"} /\ buf["worker"] = <<>>
       => mem.parked

\* A request is in memory, or the caller is before its fence.
CallerBuf ==
  \/ buf["caller"] = <<>> /\ mem.req = n
  \/ buf["caller"] = <<Req(n)>> /\ mem.req = last /\ last # n /\ caller = "fence" /\ ran = 0

AckInFlight == InFlight(buf["worker"], Ack(n))

\* The five stages of a request: none, made, taken, run and acknowledged.
Quiet == ran = 1 /\ last = n /\ mem.ack = n /\ ~AckInFlight /\ worker \notin {"job", "ack"}
Made  == ran = 0 /\ last # n /\ mem.ack # n /\ ~AckInFlight /\ worker \notin {"job", "ack"}
Taken == ran = 0 /\ last = n /\ mem.ack # n /\ ~AckInFlight /\ worker = "job" /\ r = n
Run   == ran = 1 /\ last = n /\ mem.ack # n /\ ~AckInFlight /\ worker = "ack" /\ r = n
Acked == ran = 1 /\ last = n /\ mem.ack # n /\ AckInFlight /\ worker \notin {"job", "ack"}

Stages ==
  /\ Quiet \/ Made \/ Taken \/ Run \/ Acked
  /\ caller = "idle" => Quiet
  /\ caller = "stopped" => worker = "exited" /\ buf["worker"] = <<>>
  /\ worker \in {"test", "unpark"} => r \in {last, mem.req}

\* The mutex is the worker's between Park and its sleep or unpark.
Mutex == mutex = IF worker \in {"fence", "pred", "sleep", "unpark"} THEN "worker" ELSE "none"

\* The worker exits only once stop() has told it to.
Quitting ==
  /\ quit => caller \in {"stopLock", "stopNotify", "join", "stopped"}
  /\ caller \in {"stopLock", "stopNotify", "join"} => quit
  /\ worker = "exited" => caller \in {"stopLock", "stopNotify", "join", "stopped"}

\* A worker that goes to sleep on a request, or on a stop, will be notified.
WillBeWoken ==
  /\ worker \in {"sleep", "asleep"} /\ mem.req # last => caller \in {"fence", "parked?", "notify"}
  /\ worker \in {"sleep", "asleep"} /\ quit => caller \in {"stopLock", "stopNotify"}
  /\ worker = "sleep" => caller # "stopNotify"

Types ==
  /\ mem \in [req : Counter, ack : Counter, parked : BOOLEAN]
  /\ buf \in [Threads -> Seq(Stores)]
  /\ quit \in BOOLEAN
  /\ caller \in {"stopped", "idle", "fence", "parked?", "notify", "busy", "stopLock", "stopNotify", "join"}
  /\ worker \in {"load", "test", "lock", "fence", "pred", "sleep", "asleep", "relock", "unpark", "job", "ack", "exited"}
  /\ n \in Counter /\ last \in Counter /\ r \in Counter

Inv == Types /\ WorkerBuf /\ CallerBuf /\ Stages /\ Mutex /\ Quitting /\ WillBeWoken

-----------------------------------------------------------------------------
(* The store buffers.                                                      *)

\* The three stores of the worker differ, whatever it acknowledges.
LEMMA StoresDiffer ==
  ASSUME NEW v \in Counter
  PROVE  /\ Unparked # Parked /\ Ack(v) # Parked /\ Ack(v) # Unparked
         /\ {Unparked, Ack(v), Parked} \subseteq Stores /\ Req(v) \in Stores
         /\ Rank(Unparked) = 1 /\ Rank(Ack(v)) = 2 /\ Rank(Parked) = 3
<1>1. Unparked # Parked
  BY DEF Unparked, Parked
<1>2. Ack(v) # Parked /\ Ack(v) # Unparked
  BY DEF Unparked, Parked, Ack
<1>3. {Unparked, Ack(v), Parked} \subseteq Stores /\ Req(v) \in Stores
  BY DEF Unparked, Parked, Ack, Req, Stores
<1> QED
  BY <1>1, <1>2, <1>3 DEF Rank

\* An empty buffer has any shape.
LEMMA ShapeEmpty == \A v : Shape(<<>>, v) /\ \A s : ~InFlight(<<>>, s)
BY DEF Shape, InFlight

\* A buffer without an acknowledge does not depend on the request.
LEMMA ShapeOther ==
  ASSUME NEW b, NEW v \in Counter, NEW w \in Counter, Shape(b, v), ~InFlight(b, Ack(v))
  PROVE  Shape(b, w) /\ ~InFlight(b, Ack(w))
BY StoresDiffer DEF Shape, InFlight

\* A flush takes the oldest store and keeps the order; a park is the last.
LEMMA ShapeFlush ==
  ASSUME NEW b, NEW v \in Counter, Shape(b, v), b # <<>>
  PROVE  /\ Shape(Tail(b), v)
         /\ Head(b) \in {Unparked, Ack(v), Parked}
         /\ ~InFlight(Tail(b), Head(b))
         /\ \A s : InFlight(b, s) <=> s = Head(b) \/ InFlight(Tail(b), s)
         /\ Head(b) = Parked => Tail(b) = <<>>
<1>1. b \in Seq(Stores) /\ Len(b) \in Nat /\ Len(b) > 0 /\ Head(b) = b[1]
  BY DEF Shape
<1>2. /\ Tail(b) \in Seq(Stores) /\ Len(Tail(b)) = Len(b) - 1
      /\ \A i \in 1 .. Len(Tail(b)) : Tail(b)[i] = b[i + 1]
  BY <1>1
<1>3. Shape(Tail(b), v)
  BY <1>1, <1>2 DEF Shape
<1>4. Head(b) \in {Unparked, Ack(v), Parked}
  BY <1>1 DEF Shape
<1>5. \A i \in 1 .. Len(Tail(b)) : Rank(Head(b)) < Rank(Tail(b)[i])
  BY <1>1, <1>2 DEF Shape
<1>6. ~InFlight(Tail(b), Head(b))
  BY <1>4, <1>5, StoresDiffer DEF InFlight
<1>7. ASSUME NEW s PROVE InFlight(b, s) <=> s = Head(b) \/ InFlight(Tail(b), s)
  <2>1. \A i \in 1 .. Len(b) : i = 1 \/ (i - 1 \in 1 .. Len(Tail(b)) /\ Tail(b)[i - 1] = b[i])
    BY <1>1, <1>2
  <2>2. \A i \in 1 .. Len(Tail(b)) : i + 1 \in 1 .. Len(b)
    BY <1>1, <1>2
  <2> QED
    BY <1>1, <1>2, <2>1, <2>2 DEF InFlight
<1>8. ASSUME Head(b) = Parked PROVE Tail(b) = <<>>
  <2>1. \A i \in 1 .. Len(Tail(b)) : Rank(Tail(b)[i]) \in 1 .. 3 /\ 3 < Rank(Tail(b)[i])
    BY <1>3, <1>5, <1>8, StoresDiffer DEF Shape
  <2>2. Len(Tail(b)) = 0
    BY <1>1, <1>2, <2>1
  <2> QED
    BY <1>2, <2>2, EmptySeq
<1> QED
  BY <1>3, <1>4, <1>6, <1>7, <1>8

\* A store behind the others, of a higher rank than all of them.
LEMMA ShapeAppend ==
  ASSUME NEW b, NEW v \in Counter, Shape(b, v), NEW x \in {Unparked, Ack(v), Parked},
         \A s \in {Unparked, Ack(v), Parked} : InFlight(b, s) => Rank(s) < Rank(x)
  PROVE  /\ Shape(Append(b, x), v)
         /\ \A s : InFlight(Append(b, x), s) <=> InFlight(b, s) \/ s = x
<1>1. b \in Seq(Stores) /\ Len(b) \in Nat /\ x \in Stores
  BY StoresDiffer DEF Shape
<1> DEFINE c == Append(b, x)
<1>2. /\ c \in Seq(Stores) /\ Len(c) = Len(b) + 1 /\ c[Len(b) + 1] = x
      /\ \A i \in 1 .. Len(b) : c[i] = b[i]
  BY <1>1
<1> HIDE DEF c
<1>3. \A i \in 1 .. Len(c) : i \in 1 .. Len(b) \/ i = Len(b) + 1
  BY <1>1, <1>2
<1>4. \A i \in 1 .. Len(b) : Rank(b[i]) < Rank(x)
  BY DEF Shape, InFlight
<1>5. Shape(c, v)
  <2>1. \A i \in 1 .. Len(c) : c[i] \in {Unparked, Ack(v), Parked}
    BY <1>2, <1>3 DEF Shape
  <2>2. ASSUME NEW i \in 1 .. Len(c), NEW j \in 1 .. Len(c), i < j PROVE Rank(c[i]) < Rank(c[j])
    <3>1. i \in 1 .. Len(b) /\ c[i] = b[i]
      BY <1>1, <1>2, <2>2
    <3>2. CASE j \in 1 .. Len(b)
      BY <1>2, <2>2, <3>1, <3>2 DEF Shape
    <3>3. CASE j = Len(b) + 1
      BY <1>2, <1>4, <3>1, <3>3
    <3> QED
      BY <1>3, <3>2, <3>3
  <2> QED
    BY <1>2, <2>1, <2>2 DEF Shape
<1>6. \A s : InFlight(c, s) <=> InFlight(b, s) \/ s = x
  <2>1. \A i \in 1 .. Len(b) : i \in 1 .. Len(c)
    BY <1>1, <1>2
  <2>2. Len(b) + 1 \in 1 .. Len(c)
    BY <1>1, <1>2
  <2> QED
    BY <1>2, <1>3, <2>1, <2>2 DEF InFlight
<1> QED
  BY <1>5, <1>6 DEF c

\* Three stores at most, as their ranks differ.
LEMMA ShapeLength ==
  ASSUME NEW b, NEW v \in Counter, Shape(b, v)
  PROVE  Len(b) \in Nat /\ Len(b) <= 3
<1>1. Len(b) \in Nat
  BY DEF Shape
<1>2. \A i \in 1 .. Len(b) : Rank(b[i]) \in 1 .. 3
  BY StoresDiffer DEF Shape
<1>3. Len(b) <= 3
  <2> SUFFICES ASSUME Len(b) > 3 PROVE FALSE
    BY <1>1
  <2>1. 1 \in 1 .. Len(b) /\ 2 \in 1 .. Len(b) /\ 3 \in 1 .. Len(b) /\ 4 \in 1 .. Len(b)
    BY <1>1
  <2>2. Rank(b[1]) < Rank(b[2]) /\ Rank(b[2]) < Rank(b[3]) /\ Rank(b[3]) < Rank(b[4])
    BY <2>1 DEF Shape
  <2> QED
    BY <1>2, <2>1, <2>2
<1> QED
  BY <1>1, <1>3

-----------------------------------------------------------------------------
(* The invariant.                                                          *)

\* dispatch() passes its fence only with its request in memory.
LEMMA DispatchFenceKeeps == ASSUME Inv, DispatchFence PROVE Inv'
<1> USE DEF Inv
<1>1. Types'
  BY DEF Types, DispatchFence, Fence
<1>2. WorkerBuf' /\ CallerBuf'
  BY DEF Types, WorkerBuf, CallerBuf, Stages, Quiet, Made, Taken, Run, Acked, DispatchFence, Fence
<1>3. Stages'
  BY DEF Types, WorkerBuf, CallerBuf, Stages, Quiet, Made, Taken, Run, Acked, AckInFlight, Quitting, DispatchFence, Fence
<1>4. Mutex' /\ Quitting'
  BY DEF Types, Mutex, Quitting, Stages, DispatchFence, Fence
<1>5. WillBeWoken'
  BY DEF Types, WorkerBuf, CallerBuf, Stages, Quiet, Mutex, Quitting, WillBeWoken, DispatchFence, Fence
<1> QED
  BY <1>1, <1>2, <1>3, <1>4, <1>5

\* dispatch() does not skip the notify of a worker that sleeps: parked_ is set.
LEMMA DispatchParkedKeeps == ASSUME Inv, DispatchParked PROVE Inv'
<1> USE DEF Inv
<1>1. Types'
  BY DEF Types, DispatchParked
<1>2. WorkerBuf' /\ CallerBuf'
  BY DEF Types, WorkerBuf, CallerBuf, Stages, Quiet, Made, Taken, Run, Acked, DispatchParked
<1>3. Stages'
  BY DEF Types, WorkerBuf, CallerBuf, Stages, Quiet, Made, Taken, Run, Acked, AckInFlight, Quitting, DispatchParked
<1>4. Mutex' /\ Quitting'
  BY DEF Types, Mutex, Quitting, Stages, DispatchParked
<1>5. WillBeWoken'
  BY DEF Types, WorkerBuf, CallerBuf, Stages, Quiet, Mutex, Quitting, WillBeWoken, DispatchParked
<1> QED
  BY <1>1, <1>2, <1>3, <1>4, <1>5

\* dispatch() notifies under the lock, so a worker about to sleep is asleep.
LEMMA DispatchNotifyKeeps == ASSUME Inv, DispatchNotify PROVE Inv'
<1> USE DEF Inv
<1>1. Types'
  BY DEF Types, DispatchNotify, Woken
<1>2. WorkerBuf' /\ CallerBuf'
  BY DEF Types, WorkerBuf, CallerBuf, Stages, Quiet, Made, Taken, Run, Acked, DispatchNotify, Woken
<1>3. Stages'
  BY DEF Types, WorkerBuf, CallerBuf, Stages, Quiet, Made, Taken, Run, Acked, AckInFlight, Quitting, DispatchNotify, Woken
<1>4. Mutex' /\ Quitting'
  BY DEF Types, Mutex, Quitting, Stages, DispatchNotify, Woken
<1>5. WillBeWoken'
  BY DEF Types, WorkerBuf, CallerBuf, Stages, Quiet, Mutex, Quitting, WillBeWoken, DispatchNotify, Woken
<1> QED
  BY <1>1, <1>2, <1>3, <1>4, <1>5

\* wait() returns on the acknowledge of the last request, and on no older one.
LEMMA WaitKeeps == ASSUME Inv, Wait PROVE Inv'
<1> USE DEF Inv
<1>1. Types'
  BY DEF Types, Wait
<1>2. WorkerBuf' /\ CallerBuf'
  BY DEF Types, WorkerBuf, CallerBuf, Stages, Quiet, Made, Taken, Run, Acked, Wait
<1>3. Stages'
  BY DEF Types, WorkerBuf, CallerBuf, Stages, Quiet, Made, Taken, Run, Acked, AckInFlight, Quitting, Wait
<1>4. Mutex' /\ Quitting'
  BY DEF Types, Mutex, Quitting, Stages, Wait
<1>5. WillBeWoken'
  BY DEF Types, WorkerBuf, CallerBuf, Stages, Quiet, Mutex, Quitting, WillBeWoken, Wait
<1> QED
  BY <1>1, <1>2, <1>3, <1>4, <1>5

\* stop() sets quit_ while a job may be outstanding.
LEMMA StopKeeps == ASSUME Inv, Stop PROVE Inv'
<1> USE DEF Inv
<1>1. Types'
  BY DEF Types, Stop
<1>2. WorkerBuf' /\ CallerBuf'
  BY DEF Types, WorkerBuf, CallerBuf, Stages, Quiet, Made, Taken, Run, Acked, Stop
<1>3. Stages'
  BY DEF Types, WorkerBuf, CallerBuf, Stages, Quiet, Made, Taken, Run, Acked, AckInFlight, Quitting, Stop
<1>4. Mutex' /\ Quitting'
  BY DEF Types, Mutex, Quitting, Stages, Stop
<1>5. WillBeWoken'
  BY DEF Types, WorkerBuf, CallerBuf, Stages, Quiet, Mutex, Quitting, WillBeWoken, Stop
<1> QED
  BY <1>1, <1>2, <1>3, <1>4, <1>5

\* stop() takes the lock once, so no worker is between its test and its sleep.
LEMMA StopLockKeeps == ASSUME Inv, StopLock PROVE Inv'
<1> USE DEF Inv
<1>1. Types'
  BY DEF Types, StopLock
<1>2. WorkerBuf' /\ CallerBuf'
  BY DEF Types, WorkerBuf, CallerBuf, Stages, Quiet, Made, Taken, Run, Acked, StopLock
<1>3. Stages'
  BY DEF Types, WorkerBuf, CallerBuf, Stages, Quiet, Made, Taken, Run, Acked, AckInFlight, Quitting, StopLock
<1>4. Mutex' /\ Quitting'
  BY DEF Types, Mutex, Quitting, Stages, StopLock
<1>5. WillBeWoken'
  BY DEF Types, WorkerBuf, CallerBuf, Stages, Quiet, Mutex, Quitting, WillBeWoken, StopLock
<1> QED
  BY <1>1, <1>2, <1>3, <1>4, <1>5

\* stop() notifies, and nobody sleeps after it.
LEMMA StopNotifyKeeps == ASSUME Inv, StopNotify PROVE Inv'
<1> USE DEF Inv
<1>1. Types'
  BY DEF Types, StopNotify, Woken
<1>2. WorkerBuf' /\ CallerBuf'
  BY DEF Types, WorkerBuf, CallerBuf, Stages, Quiet, Made, Taken, Run, Acked, StopNotify, Woken
<1>3. Stages'
  BY DEF Types, WorkerBuf, CallerBuf, Stages, Quiet, Made, Taken, Run, Acked, AckInFlight, Quitting, StopNotify, Woken
<1>4. Mutex' /\ Quitting'
  BY DEF Types, Mutex, Quitting, Stages, StopNotify, Woken
<1>5. WillBeWoken'
  BY DEF Types, WorkerBuf, CallerBuf, Stages, Quiet, Mutex, Quitting, WillBeWoken, StopNotify, Woken
<1> QED
  BY <1>1, <1>2, <1>3, <1>4, <1>5

\* stop() joins: the worker is gone and its stores are in memory.
LEMMA JoinKeeps == ASSUME Inv, Join PROVE Inv'
<1> USE DEF Inv
<1>1. Types'
  BY DEF Types, Join, Fence
<1>2. WorkerBuf' /\ CallerBuf'
  BY DEF Types, WorkerBuf, CallerBuf, Stages, Quiet, Made, Taken, Run, Acked, Join, Fence
<1>3. Stages'
  BY DEF Types, WorkerBuf, CallerBuf, Stages, Quiet, Made, Taken, Run, Acked, AckInFlight, Quitting, Join, Fence
<1>4. Mutex' /\ Quitting'
  BY DEF Types, Mutex, Quitting, Stages, Join, Fence
<1>5. WillBeWoken'
  BY DEF Types, WorkerBuf, CallerBuf, Stages, Quiet, Mutex, Quitting, WillBeWoken, Join, Fence
<1> QED
  BY <1>1, <1>2, <1>3, <1>4, <1>5

\* The wait releases the mutex and sleeps in one step.
LEMMA SleepKeeps == ASSUME Inv, Sleep PROVE Inv'
<1> USE DEF Inv
<1>1. Types'
  BY DEF Types, Sleep
<1>2. WorkerBuf' /\ CallerBuf'
  BY DEF Types, WorkerBuf, CallerBuf, Stages, Quiet, Made, Taken, Run, Acked, Sleep
<1>3. Stages'
  BY DEF Types, WorkerBuf, CallerBuf, Stages, Quiet, Made, Taken, Run, Acked, AckInFlight, Quitting, Sleep
<1>4. Mutex' /\ Quitting'
  BY DEF Types, Mutex, Quitting, Stages, Sleep
<1>5. WillBeWoken'
  BY DEF Types, WorkerBuf, CallerBuf, Stages, Quiet, Mutex, Quitting, WillBeWoken, Sleep
<1> QED
  BY <1>1, <1>2, <1>3, <1>4, <1>5

\* A wait may wake for no reason.
LEMMA SpuriousWakeKeeps == ASSUME Inv, SpuriousWake PROVE Inv'
<1> USE DEF Inv
<1>1. Types'
  BY DEF Types, SpuriousWake
<1>2. WorkerBuf' /\ CallerBuf'
  BY DEF Types, WorkerBuf, CallerBuf, Stages, Quiet, Made, Taken, Run, Acked, SpuriousWake
<1>3. Stages'
  BY DEF Types, WorkerBuf, CallerBuf, Stages, Quiet, Made, Taken, Run, Acked, AckInFlight, Quitting, SpuriousWake
<1>4. Mutex' /\ Quitting'
  BY DEF Types, Mutex, Quitting, Stages, SpuriousWake
<1>5. WillBeWoken'
  BY DEF Types, WorkerBuf, CallerBuf, Stages, Quiet, Mutex, Quitting, WillBeWoken, SpuriousWake
<1> QED
  BY <1>1, <1>2, <1>3, <1>4, <1>5

\* A woken wait takes the mutex again.
LEMMA RelockKeeps == ASSUME Inv, Relock PROVE Inv'
<1> USE DEF Inv
<1>1. Types'
  BY DEF Types, Relock
<1>2. WorkerBuf' /\ CallerBuf'
  BY DEF Types, WorkerBuf, CallerBuf, Stages, Quiet, Made, Taken, Run, Acked, Relock
<1>3. Stages'
  BY DEF Types, WorkerBuf, CallerBuf, Stages, Quiet, Made, Taken, Run, Acked, AckInFlight, Quitting, Relock
<1>4. Mutex' /\ Quitting'
  BY DEF Types, Mutex, Quitting, Stages, Relock
<1>5. WillBeWoken'
  BY DEF Types, WorkerBuf, CallerBuf, Stages, Quiet, Mutex, Quitting, WillBeWoken, Relock
<1> QED
  BY <1>1, <1>2, <1>3, <1>4, <1>5

\* loop() reads the request, old or new.
LEMMA LoadKeeps == ASSUME Inv, Load PROVE Inv'
<1> USE DEF Inv
<1>1. Types'
  BY DEF Types, Load
<1>2. WorkerBuf' /\ CallerBuf'
  BY DEF Types, WorkerBuf, CallerBuf, Stages, Quiet, Made, Taken, Run, Acked, Load
<1>3. Stages'
  BY DEF Types, WorkerBuf, CallerBuf, Stages, Quiet, Made, Taken, Run, Acked, AckInFlight, Quitting, Load
<1>4. Mutex' /\ Quitting'
  BY DEF Types, Mutex, Quitting, Stages, Load
<1>5. WillBeWoken'
  BY DEF Types, WorkerBuf, CallerBuf, Stages, Quiet, Mutex, Quitting, WillBeWoken, Load
<1> QED
  BY <1>1, <1>2, <1>3, <1>4, <1>5

\* loop() takes a request it has not seen, which is the last one made.
LEMMA TestKeeps == ASSUME Inv, Test PROVE Inv'
<1> USE DEF Inv
<1>1. Types'
  BY DEF Types, Test
<1>2. WorkerBuf' /\ CallerBuf'
  <2>1. WorkerBuf'
    BY DEF Types, WorkerBuf, Test
  <2>2. buf["caller"] # <<>> => last' = last
    BY DEF Test, Stages, CallerBuf, Types
  <2>3. CASE buf["caller"] = <<>>
    BY <2>1, <2>3 DEF Test, CallerBuf, Types
  <2>4. CASE buf["caller"] # <<>>
    BY <2>1, <2>2, <2>4 DEF Test, CallerBuf, Types
  <2> QED
    BY <2>3, <2>4
<1>3. Stages'
  BY DEF Types, WorkerBuf, CallerBuf, Stages, Quiet, Made, Taken, Run, Acked, AckInFlight, Quitting, Test
<1>4. Mutex' /\ Quitting'
  BY DEF Types, Mutex, Quitting, Stages, Test
<1>5. WillBeWoken'
  BY DEF Types, WorkerBuf, CallerBuf, Stages, Quiet, Mutex, Quitting, WillBeWoken, Test
<1> QED
  BY <1>1, <1>2, <1>3, <1>4, <1>5

\* loop() reads the request again after its fence.
LEMMA RecheckKeeps == ASSUME Inv, Recheck PROVE Inv'
<1> USE DEF Inv
<1>1. Types'
  BY DEF Types, Recheck, Fence
<1>2. WorkerBuf' /\ CallerBuf'
  BY ShapeEmpty DEF Types, WorkerBuf, CallerBuf, Stages, Quiet, Made, Taken, Run, Acked, Recheck, Fence
<1>3. Stages'
  BY DEF Types, WorkerBuf, CallerBuf, Stages, Quiet, Made, Taken, Run, Acked, AckInFlight, Quitting, Recheck, Fence
<1>4. Mutex' /\ Quitting'
  BY DEF Types, Mutex, Quitting, Stages, Recheck, Fence
<1>5. WillBeWoken'
  BY DEF Types, WorkerBuf, CallerBuf, Stages, Quiet, Mutex, Quitting, WillBeWoken, Recheck, Fence
<1> QED
  BY <1>1, <1>2, <1>3, <1>4, <1>5

\* cv_.wait sleeps only on a request it has seen.
LEMMA PredicateKeeps == ASSUME Inv, Predicate PROVE Inv'
<1> USE DEF Inv
<1>1. Types'
  BY DEF Types, Predicate
<1>2. WorkerBuf' /\ CallerBuf'
  BY DEF Types, WorkerBuf, CallerBuf, Stages, Quiet, Made, Taken, Run, Acked, Predicate
<1>3. Stages'
  BY DEF Types, WorkerBuf, CallerBuf, Stages, Quiet, Made, Taken, Run, Acked, AckInFlight, Quitting, Predicate
<1>4. Mutex' /\ Quitting'
  BY DEF Types, Mutex, Quitting, Stages, Predicate
<1>5. WillBeWoken'
  BY DEF Types, WorkerBuf, CallerBuf, Stages, Quiet, Mutex, Quitting, WillBeWoken, Predicate
<1> QED
  BY <1>1, <1>2, <1>3, <1>4, <1>5

\* The job runs once for the request taken.
LEMMA JobKeeps == ASSUME Inv, Job PROVE Inv'
<1> USE DEF Inv
<1>1. Types'
  BY DEF Types, Job
<1>2. WorkerBuf' /\ CallerBuf'
  BY DEF Types, WorkerBuf, CallerBuf, Stages, Quiet, Made, Taken, Run, Acked, Job
<1>3. Stages'
  BY DEF Types, WorkerBuf, CallerBuf, Stages, Quiet, Made, Taken, Run, Acked, AckInFlight, Quitting, Job
<1>4. Mutex' /\ Quitting'
  BY DEF Types, Mutex, Quitting, Stages, Job
<1>5. WillBeWoken'
  BY DEF Types, WorkerBuf, CallerBuf, Stages, Quiet, Mutex, Quitting, WillBeWoken, Job
<1> QED
  BY <1>1, <1>2, <1>3, <1>4, <1>5

\* start(): the counters and the buffers are those of a worker that has nothing
\* to do.
LEMMA StartKeeps == ASSUME Inv, Start PROVE Inv'
<1> USE DEF Inv
<1>1. 0 \in Counter
  BY WrapAssumption DEF Counter
<1>2. /\ mem'.req = 0 /\ mem'.ack = 0 /\ mem'.parked = mem.parked
      /\ mem' \in [req : Counter, ack : Counter, parked : BOOLEAN]
  BY <1>1 DEF Types, Start
<1>3. Types'
  BY <1>1, <1>2 DEF Types, Start
<1>4. buf' = buf /\ buf["worker"] = <<>> /\ buf["caller"] = <<>>
  BY DEF Start, Stages, CallerBuf
<1>5. ~AckInFlight' /\ WorkerBuf' /\ CallerBuf'
  BY <1>2, <1>4, ShapeEmpty DEF WorkerBuf, CallerBuf, Start, AckInFlight
<1>6. Stages'
  BY <1>2, <1>5 DEF Start, Stages, Quiet
<1>7. Mutex' /\ Quitting' /\ WillBeWoken'
  BY DEF Types, Mutex, Quitting, WillBeWoken, Stages, Start
<1> QED
  BY <1>3, <1>5, <1>6, <1>7

\* A counter differs from the next one, over the wrap too.
LEMMA NextCounter ==
  ASSUME NEW a \in Counter
  PROVE  (a + 1) % Wrap \in Counter /\ (a + 1) % Wrap # a
<1>1. a \in Nat /\ a < Wrap /\ Wrap \in Nat /\ Wrap > 1
  BY WrapAssumption DEF Counter
<1>2. CASE a + 1 < Wrap
  <2>1. (a + 1) % Wrap = a + 1
    BY <1>1, <1>2
  <2> QED
    BY <1>1, <1>2, <2>1 DEF Counter
<1>3. CASE a + 1 = Wrap
  <2>1. (a + 1) % Wrap = 0
    BY <1>1, <1>3
  <2> QED
    BY <1>1, <1>3, <2>1 DEF Counter
<1> QED
  BY <1>1, <1>2, <1>3

\* dispatch() stores the next request: the one after the last, so not equal to it.
LEMMA DispatchKeeps == ASSUME Inv, Dispatch PROVE Inv'
<1> USE DEF Inv
<1>1. Quiet
  BY DEF Dispatch, Stages
<1>2. n' \in Counter /\ n' # n
  BY NextCounter DEF Dispatch, Types
<1>3. buf["caller"] = <<>> /\ mem.req = n
  BY DEF Dispatch, CallerBuf
<1>4. /\ buf'["caller"] = <<Req(n')>> /\ buf'["worker"] = buf["worker"]
      /\ buf' \in [Threads -> Seq(Stores)]
  <2>1. Append(<<>>, Req(n')) = <<Req(n')>> /\ <<Req(n')>> \in Seq(Stores)
    BY <1>2, StoresDiffer
  <2>2. buf' = [buf EXCEPT !["caller"] = <<Req(n')>>]
    BY <1>3, <2>1 DEF Dispatch, Store, Req, Types, Threads
  <2> QED
    BY <2>1, <2>2 DEF Types, Threads
<1>5. Types'
  BY <1>2, <1>4 DEF Types, Dispatch
<1>6. Shape(buf["worker"], n') /\ ~AckInFlight'
  BY <1>1, <1>2, <1>4, ShapeOther DEF Quiet, AckInFlight, WorkerBuf, Types
<1>7. WorkerBuf'
  BY <1>4, <1>6 DEF WorkerBuf, Dispatch
<1>8. CallerBuf'
  BY <1>1, <1>2, <1>3, <1>4 DEF CallerBuf, Dispatch, Quiet
<1>9. Stages'
  BY <1>1, <1>2, <1>4, <1>6 DEF Stages, Quiet, Made, Dispatch
<1>10. Mutex' /\ Quitting' /\ WillBeWoken'
  BY <1>1, <1>3 DEF Types, Mutex, Quitting, WillBeWoken, Quiet, Dispatch
<1> QED
  BY <1>5, <1>7, <1>8, <1>9, <1>10

\* A store of the worker goes behind those it has in flight.
LEMMA WorkerStores ==
  ASSUME Inv, NEW f, NEW v, NEW x \in {Unparked, Ack(n), Parked},
         x = [field |-> f, value |-> v], buf' = Store("worker", f, v), UNCHANGED <<mem, n, caller, quit, ran>>,
         \A s \in {Unparked, Ack(n), Parked} : InFlight(buf["worker"], s) => Rank(s) < Rank(x)
  PROVE  /\ buf' \in [Threads -> Seq(Stores)]
         /\ buf'["caller"] = buf["caller"]
         /\ Shape(buf'["worker"], n)
         /\ \A s : InFlight(buf'["worker"], s) <=> InFlight(buf["worker"], s) \/ s = x
<1>1. n \in Counter /\ Shape(buf["worker"], n) /\ buf \in [Threads -> Seq(Stores)]
  BY DEF Inv, Types, WorkerBuf
<1>2. buf' = [buf EXCEPT !["worker"] = Append(buf["worker"], x)]
  BY <1>1 DEF Store, Threads
<1>3. /\ Shape(Append(buf["worker"], x), n)
      /\ \A s : InFlight(Append(buf["worker"], x), s) <=> InFlight(buf["worker"], s) \/ s = x
  BY <1>1, ShapeAppend
<1>4. Append(buf["worker"], x) \in Seq(Stores)
  BY <1>3 DEF Shape
<1> QED
  BY <1>1, <1>2, <1>3, <1>4 DEF Threads

\* loop() parks: the store follows an unpark and an acknowledge at most.
LEMMA ParkKeeps == ASSUME Inv, Park PROVE Inv'
<1> USE DEF Inv
<1>1. n \in Counter /\ ~InFlight(buf["worker"], Parked)
  BY DEF Park, WorkerBuf, Types
<1>2. \A s \in {Unparked, Ack(n), Parked} : InFlight(buf["worker"], s) => Rank(s) < Rank(Parked)
  BY <1>1, StoresDiffer
<1>3. /\ buf' \in [Threads -> Seq(Stores)] /\ buf'["caller"] = buf["caller"]
      /\ Shape(buf'["worker"], n)
      /\ \A s : InFlight(buf'["worker"], s) <=> InFlight(buf["worker"], s) \/ s = Parked
  BY <1>2, WorkerStores DEF Park, Parked
<1>4. AckInFlight' <=> AckInFlight
  BY <1>1, <1>3, StoresDiffer DEF AckInFlight, Park
<1>5. Types'
  BY <1>3 DEF Types, Park
<1>6. buf'["worker"] # <<>>
  BY <1>3, ShapeEmpty
<1>7. WorkerBuf' /\ CallerBuf'
  BY <1>3, <1>6 DEF WorkerBuf, CallerBuf, Park
<1>8. Stages'
  BY <1>4 DEF Stages, Quiet, Made, Taken, Run, Acked, Park
<1>9. Mutex' /\ Quitting' /\ WillBeWoken'
  BY DEF Types, Mutex, Quitting, WillBeWoken, Park
<1> QED
  BY <1>5, <1>7, <1>8, <1>9

\* loop() unparks: its buffer was drained by the fence before.
LEMMA UnparkKeeps == ASSUME Inv, Unpark PROVE Inv'
<1> USE DEF Inv
<1>1. n \in Counter /\ buf["worker"] = <<>>
  BY DEF Unpark, WorkerBuf, Types
<1>2. \A s \in {Unparked, Ack(n), Parked} : InFlight(buf["worker"], s) => Rank(s) < Rank(Unparked)
  BY <1>1, ShapeEmpty
<1>3. /\ buf' \in [Threads -> Seq(Stores)] /\ buf'["caller"] = buf["caller"]
      /\ Shape(buf'["worker"], n)
      /\ \A s : InFlight(buf'["worker"], s) <=> InFlight(buf["worker"], s) \/ s = Unparked
  BY <1>2, WorkerStores DEF Unpark, Unparked
<1>4. ~AckInFlight /\ ~AckInFlight' /\ ~InFlight(buf'["worker"], Parked)
  BY <1>1, <1>3, StoresDiffer, ShapeEmpty DEF AckInFlight, Unpark
<1>5. Types'
  BY <1>3 DEF Types, Unpark
<1>6. WorkerBuf' /\ CallerBuf'
  BY <1>3, <1>4 DEF WorkerBuf, CallerBuf, Unpark
<1>7. Stages'
  BY <1>4 DEF Stages, Quiet, Made, Taken, Run, Acked, Unpark, Quitting
<1>8. Mutex' /\ Quitting' /\ WillBeWoken'
  BY DEF Types, Mutex, Quitting, WillBeWoken, Unpark
<1> QED
  BY <1>5, <1>6, <1>7, <1>8

\* loop() acknowledges the request it has run, which is the caller's last.
LEMMA AcknowledgeKeeps == ASSUME Inv, Acknowledge PROVE Inv'
<1> USE DEF Inv
<1>1. n \in Counter /\ Run /\ r = n /\ ~InFlight(buf["worker"], Parked) /\ ~InFlight(buf["worker"], Ack(n))
  BY DEF Acknowledge, WorkerBuf, Types, Stages, Quiet, Made, Taken, Run, Acked, AckInFlight
<1>2. \A s \in {Unparked, Ack(n), Parked} : InFlight(buf["worker"], s) => Rank(s) < Rank(Ack(n))
  BY <1>1, StoresDiffer
<1>3. /\ buf' \in [Threads -> Seq(Stores)] /\ buf'["caller"] = buf["caller"]
      /\ Shape(buf'["worker"], n)
      /\ \A s : InFlight(buf'["worker"], s) <=> InFlight(buf["worker"], s) \/ s = Ack(n)
  BY <1>1, <1>2, WorkerStores DEF Acknowledge, Ack
<1>4. AckInFlight' /\ ~InFlight(buf'["worker"], Parked)
  BY <1>1, <1>3, StoresDiffer DEF AckInFlight, Acknowledge
<1>5. Types'
  BY <1>3 DEF Types, Acknowledge
<1>6. WorkerBuf' /\ CallerBuf'
  BY <1>3, <1>4 DEF WorkerBuf, CallerBuf, Acknowledge
<1>7. Stages'
  BY <1>1, <1>4 DEF Stages, Quiet, Run, Acked, Acknowledge
<1>8. Mutex' /\ Quitting' /\ WillBeWoken'
  BY DEF Types, Mutex, Quitting, WillBeWoken, Acknowledge
<1> QED
  BY <1>5, <1>6, <1>7, <1>8

\* The caller's request reaches memory, before its fence.
LEMMA CallerFlushKeeps == ASSUME Inv, Flush("caller") PROVE Inv'
<1> USE DEF Inv
<1>1. /\ buf["caller"] = <<Req(n)>> /\ mem.req = last /\ last # n /\ caller = "fence" /\ ran = 0
  BY DEF Flush, CallerBuf
<1>2. Head(<<Req(n)>>) = Req(n) /\ Tail(<<Req(n)>>) = <<>> /\ Req(n).field = "req" /\ Req(n).value = n
  BY DEF Req
<1>3. /\ buf' = [buf EXCEPT !["caller"] = <<>>] /\ mem' = [mem EXCEPT !["req"] = n]
      /\ UNCHANGED <<quit, mutex, caller, n, worker, last, r, ran>>
  BY <1>1, <1>2 DEF Flush, Types, Threads
<1>4. /\ mem'.req = n /\ mem'.ack = mem.ack /\ mem'.parked = mem.parked
      /\ mem' \in [req : Counter, ack : Counter, parked : BOOLEAN]
  BY <1>3 DEF Types
<1>5. buf'["caller"] = <<>> /\ buf'["worker"] = buf["worker"] /\ buf' \in [Threads -> Seq(Stores)]
  BY <1>3 DEF Types, Threads
<1>6. Types'
  BY <1>3, <1>4, <1>5 DEF Types
<1>7. WorkerBuf' /\ CallerBuf'
  BY <1>3, <1>4, <1>5 DEF WorkerBuf, CallerBuf
<1>8. Stages'
  BY <1>1, <1>3, <1>4, <1>5 DEF Stages, Quiet, Made, Taken, Run, Acked, AckInFlight
<1>9. Mutex' /\ Quitting' /\ WillBeWoken'
  BY <1>1, <1>3 DEF Types, Mutex, Quitting, WillBeWoken
<1> QED
  BY <1>6, <1>7, <1>8, <1>9

\* A store of the worker reaches memory: a park, an unpark, or the acknowledge
\* the caller waits for.
LEMMA WorkerFlushKeeps == ASSUME Inv, Flush("worker") PROVE Inv'
<1> USE DEF Inv
<1> DEFINE b == buf["worker"]
           h == Head(b)
<1>1. n \in Counter /\ Shape(b, n) /\ b # <<>>
  BY DEF Flush, WorkerBuf, Types
<1>2. /\ Shape(Tail(b), n) /\ h \in {Unparked, Ack(n), Parked} /\ ~InFlight(Tail(b), h)
      /\ \A s : InFlight(b, s) <=> s = h \/ InFlight(Tail(b), s)
      /\ h = Parked => Tail(b) = <<>>
  BY <1>1, ShapeFlush
<1>3. /\ buf' = [buf EXCEPT !["worker"] = Tail(b)] /\ mem' = [mem EXCEPT ![h.field] = h.value]
      /\ UNCHANGED <<quit, mutex, caller, n, worker, last, r, ran>>
  BY DEF Flush
<1>4. /\ buf'["worker"] = Tail(b) /\ buf'["caller"] = buf["caller"]
      /\ buf' \in [Threads -> Seq(Stores)]
  BY <1>2, <1>3 DEF Types, Threads, Shape
<1> HIDE DEF b, h
<1>5. /\ h = Parked => mem' = [mem EXCEPT !["parked"] = TRUE]
      /\ h = Unparked => mem' = [mem EXCEPT !["parked"] = FALSE]
      /\ h = Ack(n) => mem' = [mem EXCEPT !["ack"] = n]
  <2>1. /\ Parked.field = "parked" /\ Parked.value = TRUE
        /\ Unparked.field = "parked" /\ Unparked.value = FALSE
        /\ Ack(n).field = "ack" /\ Ack(n).value = n
    BY DEF Parked, Unparked, Ack
  <2> QED
    BY <1>3, <2>1, Zenon
<1>6. /\ mem'.req = mem.req
      /\ mem'.ack = IF h = Ack(n) THEN n ELSE mem.ack
      /\ h = Parked => mem'.parked
      /\ h = Ack(n) => mem'.parked = mem.parked
      /\ mem' \in [req : Counter, ack : Counter, parked : BOOLEAN]
  <2>1. CASE h = Parked
    BY <1>1, <1>5, <2>1, StoresDiffer DEF Types
  <2>2. CASE h = Unparked
    BY <1>1, <1>5, <2>2, StoresDiffer DEF Types
  <2>3. CASE h = Ack(n)
    BY <1>1, <1>5, <2>3, StoresDiffer DEF Types
  <2> QED
    BY <1>2, <2>1, <2>2, <2>3
<1>7. Types'
  BY <1>3, <1>4, <1>6 DEF Types
<1>8. AckInFlight' <=> AckInFlight /\ h # Ack(n)
  BY <1>2, <1>3, <1>4 DEF AckInFlight, b
<1>9. h = Ack(n) => AckInFlight
  BY <1>2 DEF AckInFlight, b
<1>10. WorkerBuf' /\ CallerBuf'
  <2>1. worker = "fence" => InFlight(b, Parked)
    BY <1>1 DEF WorkerBuf, b
  <2>2. worker = "fence" => (Tail(b) = <<>> /\ h = Parked) \/ InFlight(Tail(b), Parked)
    BY <1>2, <2>1
  <2>3. worker \notin {"pred", "sleep", "asleep", "relock", "unpark"}
    BY <1>1 DEF WorkerBuf, b
  <2>4. WorkerBuf'
    <3>1. InFlight(Tail(b), Parked) => worker = "fence"
      BY <1>2 DEF WorkerBuf, b
    <3>2. worker = "fence" /\ Tail(b) = <<>> => mem'.parked
      BY <1>6, <2>2, ShapeEmpty
    <3> QED
      BY <1>2, <1>3, <1>4, <2>2, <2>3, <3>1, <3>2 DEF WorkerBuf
  <2>5. CallerBuf'
    BY <1>3, <1>4, <1>6 DEF CallerBuf
  <2> QED
    BY <2>4, <2>5
<1>11. Stages'
  BY <1>1, <1>3, <1>4, <1>6, <1>8, <1>9 DEF Stages, Quiet, Made, Taken, Run, Acked, b
<1>12. Mutex' /\ Quitting' /\ WillBeWoken'
  BY <1>3, <1>6 DEF Mutex, Quitting, WillBeWoken
<1> QED
  BY <1>7, <1>10, <1>11, <1>12

\* Before the first start() there is no worker.
LEMMA InitInv == Init => Inv
<1> SUFFICES ASSUME Init PROVE Inv
  OBVIOUS
<1>1. 0 \in Counter
  BY WrapAssumption DEF Counter
<1>2. Types
  <2>1. buf \in [Threads -> Seq(Stores)]
    BY EmptySeq DEF Init
  <2>2. mem \in [req : Counter, ack : Counter, parked : BOOLEAN]
    BY <1>1 DEF Init
  <2> QED
    BY <1>1, <2>1, <2>2 DEF Init, Types
<1>3. buf["worker"] = <<>> /\ buf["caller"] = <<>>
  BY DEF Init, Threads
<1>4. WorkerBuf /\ CallerBuf /\ Stages
  BY <1>3, ShapeEmpty DEF Init, WorkerBuf, CallerBuf, Stages, Quiet, AckInFlight
<1>5. Mutex /\ Quitting /\ WillBeWoken
  BY DEF Init, Mutex, Quitting, WillBeWoken
<1> QED
  BY <1>2, <1>4, <1>5 DEF Inv

\* Every step keeps the invariant.
LEMMA NextKeeps == Inv /\ [Next]_vars => Inv'
<1> SUFFICES ASSUME Inv, [Next]_vars PROVE Inv'
  OBVIOUS
<1>1. CASE UNCHANGED vars
  BY <1>1 DEF vars, Inv, Types, WorkerBuf, CallerBuf, Stages, Quiet, Made, Taken, Run, Acked, AckInFlight,
     Mutex, Quitting, WillBeWoken
<1>2. CASE CallerStep
  BY <1>2, DispatchFenceKeeps, DispatchParkedKeeps, DispatchNotifyKeeps, WaitKeeps, StopLockKeeps,
     StopNotifyKeeps, JoinKeeps DEF CallerStep
<1>3. CASE WorkerStep
  BY <1>3, LoadKeeps, TestKeeps, ParkKeeps, RecheckKeeps, PredicateKeeps, SleepKeeps, RelockKeeps,
     UnparkKeeps, JobKeeps, AcknowledgeKeeps DEF WorkerStep
<1>4. ASSUME NEW t \in Threads, Flush(t) PROVE Inv'
  BY <1>4, CallerFlushKeeps, WorkerFlushKeeps DEF Threads
<1> QED
  BY <1>1, <1>2, <1>3, <1>4, StartKeeps, DispatchKeeps, StopKeeps, SpuriousWakeKeeps DEF Next

\* The inductive invariant holds throughout.
LEMMA InvHolds == Spec => []Inv
BY InitInv, NextKeeps, PTL DEF Spec

-----------------------------------------------------------------------------
(* What follows from it.                                                   *)

\* The counters stay in range and a store buffer holds three stores at most.
THEOREM TypeCorrect == Spec => []TypeOK
<1>1. Inv => TypeOK
  <2> SUFFICES ASSUME Inv PROVE TypeOK
    OBVIOUS
  <2>1. Len(buf["worker"]) <= 3 /\ Len(buf["caller"]) <= 3
    <3>1. Len(buf["worker"]) <= 3
      BY ShapeLength DEF Inv, Types, WorkerBuf
    <3>2. Len(<<>>) <= 3 /\ Len(<<Req(n)>>) <= 3
      OBVIOUS
    <3> QED
      BY <3>1, <3>2 DEF Inv, CallerBuf
  <2>2. \A t \in Threads : Len(buf[t]) <= 3 /\ \A i \in 1..Len(buf[t]) : buf[t][i] \in Stores
    BY <2>1 DEF Inv, Types, Threads
  <2>3. ran \in 0..1 /\ mutex \in {"none", "worker"}
    BY DEF Inv, Stages, Quiet, Made, Taken, Run, Acked, Mutex
  <2> QED
    BY <2>2, <2>3 DEF Inv, Types, TypeOK
<1> QED
  BY <1>1, InvHolds, PTL

\* When wait() has returned the job ran exactly once and is over.
THEOREM WaitCorrect == Spec => []WaitMeansDone
<1>1. Inv => WaitMeansDone
  BY DEF Inv, Stages, Quiet, WaitMeansDone
<1> QED
  BY <1>1, InvHolds, PTL

\* The Dekker pair of dispatch() and loop() loses no wake-up, and the empty
\* critical section of stop() none either.
THEOREM WakeupCorrect == Spec => []NoLostWakeup
<1>1. Inv => NoLostWakeup
  BY DEF Inv, WillBeWoken, Quitting, NoLostWakeup
<1> QED
  BY <1>1, InvHolds, PTL

-----------------------------------------------------------------------------
(* The refinement.                                                         *)

\* Every step of either thread, and every flush, hands the data on as HandOff
\* allows or leaves it where it is.
LEMMA NextRefines == Inv /\ Inv' /\ [Next]_vars => [Abstract!Next]_Owner
<1> SUFFICES ASSUME Inv, Inv', [Next]_vars PROVE Abstract!Next \/ UNCHANGED Owner
  OBVIOUS
<1> USE DEF Abstract!Next, Abstract!Give, Abstract!Begin, Abstract!End, Abstract!TakeBack, Abstract!Drop
<1>1. CASE UNCHANGED vars
  BY <1>1 DEF vars, Owner, Stopping
<1>2. CASE Start
  BY <1>2 DEF Start, Owner
<1>3. CASE Dispatch
  BY <1>3 DEF Dispatch, Owner, Stopping, Inv, Stages, Quiet
<1>4. CASE Stop
  BY <1>4 DEF Stop, Owner, Stopping, Inv, Stages, Quiet, Made, Taken, Run, Acked
<1>5. CASE DispatchFence \/ DispatchParked \/ StopLock
  BY <1>5 DEF DispatchFence, DispatchParked, StopLock, Owner, Stopping
<1>6. CASE DispatchNotify \/ StopNotify
  BY <1>6 DEF DispatchNotify, StopNotify, Owner, Stopping, Woken
<1>7. CASE Wait
  BY <1>7 DEF Wait, Owner, Stopping, Inv, Stages, Quiet, Made, Taken, Run, Acked
<1>8. CASE Join
  <2>1. Quiet \/ Made
    BY <1>8, ShapeEmpty DEF Join, Fence, Inv, Stages, Taken, Run, Acked, AckInFlight
  <2> QED
    BY <1>8, <2>1 DEF Join, Owner, Stopping, Quiet, Made
<1>9. CASE Test
  BY <1>9 DEF Test, Owner, Stopping, Inv, Stages, Quiet, Made, Taken, Run, Acked, CallerBuf
<1>10. CASE Job
  BY <1>10 DEF Job, Owner, Stopping, Inv, Stages, Quiet, Made, Taken, Run, Acked, Quitting
<1>11. CASE Load \/ Park \/ Recheck \/ Predicate \/ Sleep \/ Relock \/ Unpark \/ SpuriousWake
  BY <1>11 DEF Load, Park, Recheck, Predicate, Sleep, Relock, Unpark, SpuriousWake, Owner, Stopping
<1>12. CASE Acknowledge
  BY <1>12 DEF Acknowledge, Owner, Stopping
<1>13. ASSUME NEW t \in Threads, Flush(t) PROVE Abstract!Next \/ UNCHANGED Owner
  <2>1. UNCHANGED <<caller, n, worker, last, r, ran>> /\ buf' = [buf EXCEPT ![t] = Tail(@)] /\ buf[t] # <<>>
    BY <1>13 DEF Flush
  <2>2. AckInFlight' => AckInFlight
    <3>1. CASE t = "caller"
      BY <2>1, <3>1 DEF Inv, Types, Threads, AckInFlight
    <3>2. CASE t = "worker"
      <4>1. n \in Counter /\ Shape(buf["worker"], n) /\ buf'["worker"] = Tail(buf["worker"])
        BY <2>1, <3>2 DEF Inv, Types, Threads, WorkerBuf
      <4> QED
        BY <2>1, <3>2, <4>1, ShapeFlush DEF AckInFlight
    <3> QED
      BY <1>13, <3>1, <3>2 DEF Threads
  <2> QED
    BY <2>1, <2>2 DEF Owner, Stopping, Inv, Stages, Quiet, Made, Taken, Run, Acked
<1> QED
  BY <1>1, <1>2, <1>3, <1>4, <1>5, <1>6, <1>7, <1>8, <1>9, <1>10, <1>11, <1>12, <1>13
  DEF Next, CallerStep, WorkerStep

\* The line worker implements the hand-off: the job's data has one owner at a
\* time, whatever the memory delays and whenever the caller stops.
THEOREM HandOffImplemented == Spec => ImplementsHandOff
<1>1. Init => Abstract!Init
  BY DEF Init, Abstract!Init, Owner
<1> QED
  BY <1>1, NextRefines, InvHolds, PTL DEF Spec, ImplementsHandOff, Abstract!Spec
=============================================================================

-------------------------- MODULE SchedulerProofs --------------------------
(***************************************************************************)
(* The event table's cache and the two CPUs' clocks, for every number of   *)
(* events, every quantum and every instruction cost, on a DS and on a DSi. *)
(***************************************************************************)
EXTENDS Scheduler, WellFoundedInduction, TLAPS

\* The table during one of fire_due's passes: `rest` is still to be visited,
\* next may be an event already fired, but only one that is due anyway.
PassInv(t, rest) ==
  /\ \A i \in t.armed \ rest : t.next <= t.at[i]
  /\ t.next > now => IF t.nextId = None THEN t.next = Inf
                     ELSE t.nextId \in t.armed /\ t.at[t.nextId] = t.next

Above(i) == {j \in Ids : j > i}

\* What holds of the table at each point of the scheduler.
TableInv ==
  /\ pc \notin {"fire", "walk", "handler"} => CacheExact(ev)
  /\ pc \in {"begin", "stopped"} => ev.next > now
  /\ pc = "fire" => PassInv(ev, {})
  /\ pc = "walk" => walk \subseteq ev.armed /\ PassInv(ev, walk)
  /\ pc = "handler" => walk # {} /\ PassInv(ev, Above(Lowest(walk)))

\* Only after the ARM9's part of a slice has it a length.
SliceInv ==
  pc \in {"stopped", "fire", "walk", "handler", "begin"} \/ run.who = ARM9 => run.ran9 = 0

-----------------------------------------------------------------------------
(* Minima.                                                                 *)

\* A non-empty set of naturals has a least element.
LEMMA LeastNat == ASSUME NEW S, S \subseteq Nat, S # {}
                  PROVE  \E x \in S : \A y \in S : x <= y
<1>1. IsWellFoundedOn(OpToRel(<, Nat), Nat)
  BY NatLessThanWellFounded
<1>2. PICK x \in S : \A y \in S : ~(<<y, x>> \in OpToRel(<, Nat))
  BY <1>1, WFMin, Zenon
<1>3. ASSUME NEW y \in S PROVE x <= y
  <2>1. x \in Nat /\ y \in Nat
    OBVIOUS
  <2>2. y < x => <<y, x>> \in OpToRel(<, Nat)
    BY <2>1 DEF OpToRel
  <2>3. ~(y < x)
    BY <2>2, <1>2, Zenon
  <2> QED BY <2>1, <2>3
<1> QED BY <1>3

\* fire_due's next id to visit is an element of the set that remains.
LEMMA LowestIsMember == ASSUME NEW S, S \subseteq Ids, S # {}
                        PROVE  Lowest(S) \in S /\ \A j \in S : Lowest(S) <= j
<1>1. S \subseteq Nat
  BY NAssumption DEF Ids
<1>2. \E i \in S : \A j \in S : i <= j
  BY <1>1, LeastNat
<1> QED BY <1>2 DEF Lowest

\* rescan finds an armed event with the earliest deadline.
LEMMA EarliestIsMember ==
  ASSUME NEW armed \in SUBSET Ids, armed # {}, NEW at \in [Ids -> Times]
  PROVE  /\ EarliestId(armed, at) \in armed
         /\ \A j \in armed : at[EarliestId(armed, at)] <= at[j]
<1> DEFINE D == {at[i] : i \in armed}
<1>1. D \subseteq Nat /\ D # {}
  BY InfAssumption DEF Times
<1>2. PICK m \in D : \A y \in D : m <= y
  BY <1>1, LeastNat
<1> DEFINE A == {i \in armed : at[i] = m}
<1>3. A \subseteq Nat /\ A # {}
  BY NAssumption DEF Ids
<1>4. PICK i \in A : \A j \in A : i <= j
  BY <1>3, LeastNat
<1>5. \A j \in armed : at[i] < at[j] \/ (at[i] = at[j] /\ i <= j)
  <2> SUFFICES ASSUME NEW j \in armed
               PROVE  at[i] < at[j] \/ (at[i] = at[j] /\ i <= j)
    OBVIOUS
  <2>1. at[i] = m /\ m <= at[j] /\ m \in Nat /\ at[j] \in Nat
    BY <1>1, <1>2
  <2>2. CASE at[j] = m
    BY <2>1, <2>2, <1>4
  <2>3. CASE at[j] # m
    BY <2>1, <2>3
  <2> QED BY <2>2, <2>3
<1>6. /\ EarliestId(armed, at) \in armed
      /\ \A j \in armed : \/ at[EarliestId(armed, at)] < at[j]
                          \/ at[EarliestId(armed, at)] = at[j] /\ EarliestId(armed, at) <= j
  BY <1>5 DEF EarliestId
<1> QED
  BY <1>6, InfAssumption DEF Times

-----------------------------------------------------------------------------
(* What the operations on the table do to the cache.                       *)

\* rescan makes the cache exact, whatever it held.
LEMMA RescanExact == ASSUME NEW t \in Table
                     PROVE  /\ rescan(t) \in Table /\ CacheExact(rescan(t))
                            /\ rescan(t).armed = t.armed /\ rescan(t).at = t.at
<1>1. CASE t.armed = {}
  <2>1. rescan(t) = [t EXCEPT !.next = Inf, !.nextId = N]
    BY <1>1 DEF rescan, None
  <2>2. Inf \in 0..Inf /\ N \in 0..N
    BY NAssumption, InfAssumption
  <2>3. /\ rescan(t).next = Inf /\ rescan(t).nextId = N
        /\ rescan(t).armed = {} /\ rescan(t).at = t.at
    BY <2>1, <1>1 DEF Table
  <2>4. rescan(t) \in Table
    BY <2>1, <2>2 DEF Table
  <2> QED BY <1>1, <2>3, <2>4 DEF CacheExact, None
<1>2. CASE t.armed # {}
  <2> DEFINE i == EarliestId(t.armed, t.at)
  <2>1. i \in t.armed /\ (\A j \in t.armed : t.at[i] <= t.at[j])
    BY <1>2, EarliestIsMember DEF Table
  <2>2. i \in Ids /\ i # None /\ i \in 0..N
    BY <2>1, NAssumption DEF Table, Ids, None
  <2>3. t.at[i] \in Times /\ t.at[i] \in 0..Inf
    BY <2>2, InfAssumption DEF Table, Times
  <2>4. rescan(t) = [t EXCEPT !.next = t.at[i], !.nextId = i]
    BY <1>2 DEF rescan
  <2> QED
    BY <2>1, <2>2, <2>3, <2>4 DEF CacheExact, Table
<1> QED BY <1>1, <1>2

\* schedule keeps an exact cache exact, and a pass's promise a pass's promise.
LEMMA ScheduleKeeps ==
  ASSUME NEW t \in Table, NEW i \in Ids, NEW when \in Times, now \in Nat
  PROVE  /\ schedule(t, i, when) \in Table
         /\ CacheExact(t) => CacheExact(schedule(t, i, when))
         /\ \A rest : PassInv(t, rest) => PassInv(schedule(t, i, when), rest)
<1> DEFINE put == [t EXCEPT !.armed = @ \cup {i}, !.at[i] = when]
<1>1. put \in Table
  BY DEF Table
<1>2. when \in 0..Inf /\ i \in 0..N /\ i # None
  BY NAssumption, InfAssumption DEF Times, Ids, None
<1>3. CASE when < t.next
  <2>1. schedule(t, i, when) = [put EXCEPT !.next = when, !.nextId = i]
    BY <1>3 DEF schedule
  <2>2. /\ schedule(t, i, when) \in Table
        /\ schedule(t, i, when).next = when /\ schedule(t, i, when).nextId = i
        /\ schedule(t, i, when).armed = t.armed \cup {i}
        /\ schedule(t, i, when).at = [t.at EXCEPT ![i] = when]
    BY <2>1, <1>1, <1>2 DEF Table
  <2> DEFINE s == schedule(t, i, when)
  <2> HIDE DEF s
  <2>3. s.next = when /\ s.nextId = i /\ s.armed = t.armed \cup {i} /\ s.at = [t.at EXCEPT ![i] = when]
    BY <2>2 DEF s
  <2>4. s.at[i] = when /\ \A j \in t.armed \ {i} : s.at[j] = t.at[j] /\ t.at[j] \in Nat
    BY <2>3, InfAssumption DEF Table, Times
  <2>5. when \in Nat /\ t.next \in Nat
    BY <1>2, InfAssumption DEF Table
  <2>6. CacheExact(t) => CacheExact(s)
    BY <2>3, <2>4, <2>5, <1>2, <1>3 DEF CacheExact
  <2>7. ASSUME NEW rest, PassInv(t, rest) PROVE PassInv(s, rest)
    BY <2>3, <2>4, <2>5, <2>7, <1>2, <1>3 DEF PassInv
  <2> QED
    BY <2>2, <2>6, <2>7 DEF s
<1>4. CASE ~(when < t.next) /\ i \in t.armed /\ t.nextId = i /\ when > t.next
  <2>1. schedule(t, i, when) = rescan(put)
    BY <1>4 DEF schedule
  <2>2. rescan(put) \in Table /\ CacheExact(rescan(put))
    BY <1>1, RescanExact
  <2>3. \A rest : PassInv(rescan(put), rest)
    BY <2>2 DEF CacheExact, PassInv
  <2> QED
    BY <2>1, <2>2, <2>3
<1>5. CASE ~(when < t.next) /\ ~(i \in t.armed /\ t.nextId = i /\ when > t.next)
  <2>1. schedule(t, i, when) = put
    BY <1>5 DEF schedule
  <2>2. /\ put.next = t.next /\ put.nextId = t.nextId
        /\ put.armed = t.armed \cup {i} /\ put.at = [t.at EXCEPT ![i] = when]
    BY DEF Table
  <2>3. t.next <= when /\ t.next \in Nat /\ when \in Nat
    BY <1>5, <1>2, InfAssumption DEF Table
  <2>4. t.nextId = i /\ i \in t.armed => when = t.next
    BY <2>3, <1>5
  <2>5. CacheExact(t) => CacheExact(put)
    BY <2>2, <2>3, <2>4, <1>2 DEF Table, CacheExact
  <2>6. ASSUME NEW rest, PassInv(t, rest) PROVE PassInv(put, rest)
    <3>1. \A j \in put.armed \ rest : put.next <= put.at[j]
      BY <2>2, <2>3, <2>6 DEF Table, PassInv
    <3>2. ASSUME t.next > now, t.nextId # None
          PROVE  t.nextId \in put.armed /\ put.at[t.nextId] = t.next
      BY <2>2, <2>4, <2>6, <3>2 DEF Table, PassInv
    <3> QED BY <2>2, <2>6, <3>1, <3>2 DEF PassInv
  <2> QED
    BY <2>1, <2>5, <2>6, <1>1
<1> QED BY <1>3, <1>4, <1>5

\* cancel keeps an exact cache exact, and a pass's promise a pass's promise.
LEMMA CancelKeeps ==
  ASSUME NEW t \in Table, NEW i \in Ids, now \in Nat
  PROVE  /\ cancel(t, i) \in Table
         /\ cancel(t, i).at = t.at
         /\ CacheExact(t) => CacheExact(cancel(t, i))
         /\ \A rest : PassInv(t, rest) => PassInv(cancel(t, i), rest)
<1>1. disarm(t, i) \in Table /\ disarm(t, i).at = t.at
  BY DEF disarm, Table
<1>2. CASE i \notin t.armed
  BY <1>2 DEF cancel
<1>3. CASE i \in t.armed /\ t.nextId = i
  BY <1>1, <1>3, RescanExact DEF cancel, CacheExact, PassInv
<1>4. CASE i \in t.armed /\ t.nextId # i
  BY <1>1, <1>4 DEF cancel, disarm, CacheExact, PassInv, Table
<1> QED BY <1>2, <1>3, <1>4

-----------------------------------------------------------------------------
(* Types.                                                                  *)

RunType == [who : {0, ARM9, ARM7}, budget : Int, start : Int, residual : Int, base : Int,
            yielded : BOOLEAN, dmaIter : BOOLEAN, slice : Nat, end : Int, ran9 : Nat, skip : SUBSET Cpus]

\* The record of no run has the type of a run.
LEMMA NoRunType == NoRun \in RunType
BY DEF NoRun, RunType

\* Integer arithmetic of the clocks stays integer.
LEMMA CarryInt == PartOfACycle \subseteq Int /\ 0 \in PartOfACycle
<1>1. PerTick9 \in {1, 2}
  BY DEF PerTick9
<1> QED BY <1>1 DEF PartOfACycle

\* The time inside a slice is a number.
LEMMA LocalNowInt == ASSUME TypeOK PROVE LocalNow \in Int /\ Consumed \in Int
<1>1. Consumed \in Int
  BY DEF TypeOK, Consumed
<1>2. PerTick9 \in {1, 2}
  BY DEF PerTick9
<1>3. (Consumed + carry) \div (2 * PerTick9) \in Int
  BY <1>1, <1>2, CarryInt DEF TypeOK
<1>4. run.base \in Int /\ now \in Int
  BY DEF TypeOK
<1> QED BY <1>1, <1>3, <1>4 DEF LocalNow

\* Cutting a slice short keeps it a slice.
LEMMA CutType == ASSUME TypeOK, NEW when \in Times
                 PROVE  cut_arm9_at(run, when) \in RunType /\ cut_arm9_at(run, when).ran9 = run.ran9
                        /\ cut_arm9_at(run, when).who = run.who
<1>1. PerTick9 \in {1, 2}
  BY DEF PerTick9
<1>2. Budget9For(when - now) \in Int
  BY <1>1, InfAssumption, CarryInt DEF TypeOK, Budget9For, Times
<1>3. run \in RunType
  BY DEF TypeOK, RunType
<1>4. when \in Int
  BY InfAssumption DEF Times
<1> DEFINE nb == Budget9For(when - now)
<1>5. cut_arm9_at(run, when) = run
      \/ cut_arm9_at(run, when) = [run EXCEPT !.start = nb, !.end = when, !.budget = nb - (run.start - @)]
  BY DEF cut_arm9_at
<1> HIDE DEF nb
<1>6. [run EXCEPT !.start = nb, !.end = when, !.budget = nb - (run.start - @)] \in RunType
  <2>1. nb \in Int /\ nb - (run.start - run.budget) \in Int
    BY <1>2, <1>3 DEF RunType, nb
  <2>2. [run EXCEPT !.start = nb, !.end = when, !.budget = nb - (run.start - run.budget)] \in RunType
    BY <1>3, <1>4, <2>1, Zenon DEF RunType
  <2> QED BY <2>2
<1>7. [run EXCEPT !.start = nb, !.end = when, !.budget = nb - (run.start - @)].ran9 = run.ran9
      /\ [run EXCEPT !.start = nb, !.end = when, !.budget = nb - (run.start - @)].who = run.who
  BY <1>3 DEF RunType
<1> QED BY <1>3, <1>5, <1>6, <1>7

\* The cache of a new event table is exact and nothing in it is due at once.
LEMMA FirstEventsExact ==
  ASSUME NEW t, FirstEvents(t)
  PROVE  t \in Table /\ CacheExact(t) /\ t.next > 0
<1>1. PICK first \in [Ids -> Delays], on \in SUBSET Ids :
        t = rescan([armed |-> on, at |-> first, next |-> Inf, nextId |-> None])
  BY DEF FirstEvents
<1> DEFINE u == [armed |-> on, at |-> first, next |-> Inf, nextId |-> None]
<1>2. first \in [Ids -> Times]
  <2>1. Delays \subseteq Times
    BY BoundsAssumption, InfAssumption DEF Times
  <2> QED BY <2>1
<1>3. u \in Table
  BY <1>2, NAssumption, InfAssumption DEF Table, None
<1>4. t \in Table /\ CacheExact(t) /\ t.at = first
  <2>1. rescan(u) \in Table /\ CacheExact(rescan(u)) /\ rescan(u).at = u.at
    BY <1>3, RescanExact
  <2> QED BY <1>1, <2>1
<1>5. t.next > 0
  <2>1. CASE t.nextId = None
    BY <2>1, <1>4, InfAssumption DEF CacheExact
  <2>2. CASE t.nextId # None
    <3>1. t.nextId \in Ids /\ t.next = first[t.nextId]
      BY <2>2, <1>4 DEF CacheExact, Table
    <3>2. first[t.nextId] \in 1..(Inf - 1)
      BY <3>1, BoundsAssumption
    <3> QED BY <3>1, <3>2, InfAssumption
  <2> QED BY <2>1, <2>2
<1> QED BY <1>4, <1>5

\* The types hold at the start.
LEMMA TypeInit == Init => TypeOK
<1> SUFFICES ASSUME Init PROVE TypeOK
  OBVIOUS
<1>1. ev \in Table
  BY FirstEventsExact DEF Init
<1>2. 0 \in Times
  BY InfAssumption DEF Times
<1>3. run \in RunType
  BY NoRunType DEF Init
<1>4. cpu \in [Cpus -> [halted : BOOLEAN, dma : BOOLEAN]]
  BY DEF Init
<1>5. until \in [at : Nat, frame : BOOLEAN] /\ frame \in BOOLEAN
  BY DEF Init
<1> QED BY <1>1, <1>2, <1>3, <1>4, <1>5, CarryInt DEF Init, TypeOK, RunType

\* Every step keeps the types.
LEMMA TypeStep == TypeOK /\ [Next]_vars => TypeOK'
<1> SUFFICES ASSUME TypeOK, [Next]_vars PROVE TypeOK'
  OBVIOUS
<1> USE DEF TypeOK
<1>t. run \in RunType
  BY DEF RunType
<1>1. CASE BeginPass
  <2>1. ev' \in Table
    <3>1. Inf \in 0..Inf /\ None \in 0..N
      BY NAssumption, InfAssumption DEF None
    <3> QED BY <1>1, <3>1 DEF BeginPass, Table
  <2> QED BY <1>1, <2>1 DEF BeginPass, Table
<1>2. CASE FireDone
  BY <1>2 DEF FireDone
<1>3. CASE Fire
  <2>1. Lowest(walk) \in Ids
    BY <1>3, LowestIsMember DEF Fire
  <2>2. ev' \in Table /\ firingAt' \in Times
    BY <1>3, <2>1 DEF Fire, disarm, Table
  <2> QED BY <1>3, <2>2 DEF Fire
<1>4. CASE PassOver
  <2>1. Lowest(walk) \in Ids
    BY <1>4, LowestIsMember DEF PassOver
  <2>2. Lowest(walk) \in 0..N /\ ev.at[Lowest(walk)] \in 0..Inf
    BY <2>1, NAssumption, InfAssumption DEF Ids, Table, Times
  <2>3. ev' \in Table
    BY <1>4, <2>2 DEF PassOver, Table
  <2> QED BY <1>4, <2>3 DEF PassOver
<1>5. CASE EndPass
  BY <1>5 DEF EndPass
<1>6. CASE HandlerDone
  <2>1. walk' \in SUBSET Ids
    BY <1>6 DEF HandlerDone, Table
  <2> QED BY <1>6, <2>1 DEF HandlerDone
<1>7. ASSUME NEW i \in Ids, NEW d \in Delays, HandlerSchedule(i, d) PROVE TypeOK'
  <2>1. ev' \in Table
    BY <1>7, ScheduleKeeps DEF HandlerSchedule
  <2> QED BY <1>7, <2>1 DEF HandlerSchedule
<1>8. ASSUME NEW i \in Ids, HandlerCancel(i) PROVE TypeOK'
  <2>1. ev' \in Table
    BY <1>8, CancelKeeps DEF HandlerCancel
  <2> QED BY <1>8, <2>1 DEF HandlerCancel
<1>9. CASE HandlerSignal
  <2>1. cpu' \in [Cpus -> [halted : BOOLEAN, dma : BOOLEAN]]
    <3>1. CASE \E c \in Cpus : cpu' = [cpu EXCEPT ![c].halted = FALSE] /\ UNCHANGED frame
      BY <3>1
    <3>2. CASE \E c \in Cpus : cpu' = [cpu EXCEPT ![c].dma = TRUE] /\ UNCHANGED frame
      BY <3>2
    <3> QED BY <1>9, <3>1, <3>2 DEF HandlerSignal
  <2>2. frame' \in BOOLEAN
    BY <1>9 DEF HandlerSignal
  <2> QED BY <1>9, <2>1, <2>2 DEF HandlerSignal
<1>10. ASSUME NEW c \in 1..MaxCost, Exec(c) PROVE TypeOK'
  BY <1>10, <1>t DEF Exec, RunType
<1>11. ASSUME NEW c \in 1..MaxCost, ExecStartDma(c) PROVE TypeOK'
  <2>1. -c \in Int /\ run.residual + run.budget \in Int /\ run.who \in {0, ARM9, ARM7}
    BY BoundsAssumption, <1>t DEF RunType
  <2>2. run' \in RunType
    BY <1>11, <1>t, <2>1 DEF ExecStartDma, RunType
  <2>3. cpu' \in [Cpus -> [halted : BOOLEAN, dma : BOOLEAN]]
    BY <1>11 DEF ExecStartDma
  <2> QED BY <1>11, <2>2, <2>3 DEF ExecStartDma, RunType
<1>12. ASSUME NEW c \in 1..MaxCost, ExecYield(c) PROVE TypeOK'
  <2>1. -c \in Int /\ run.residual + run.budget \in Int
    BY BoundsAssumption, <1>t DEF RunType
  <2>2. run' \in RunType
    BY <1>12, <1>t, <2>1 DEF ExecYield, RunType
  <2> QED BY <1>12, <2>2 DEF ExecYield, RunType
<1>13. ASSUME NEW c \in 1..MaxCost, ExecHalt(c) PROVE TypeOK'
  BY <1>13, <1>t DEF ExecHalt, RunType
<1>14. ASSUME NEW c \in 1..MaxCost, SettleDone(c) PROVE TypeOK'
  BY <1>14, <1>t DEF SettleDone, RunType
<1>15. ASSUME NEW i \in Ids, ExecSettle(i) PROVE TypeOK'
  BY <1>15 DEF ExecSettle
<1>16. ASSUME NEW d \in Delays \cup {0}, SettleFire(d) PROVE TypeOK'
  <2>1. PICK i \in walk :
          IF d = 0 THEN ev' = cancel(ev, i) /\ UNCHANGED run
          ELSE /\ ev.at[i] + d \in Times
               /\ ev' = schedule(cancel(ev, i), i, ev.at[i] + d)
               /\ run' = cut_arm9_at(run, ev.at[i] + d)
    BY <1>16 DEF SettleFire
  <2>2. cancel(ev, i) \in Table
    BY <2>1, CancelKeeps
  <2>3. ev' \in Table
    BY <2>1, <2>2, ScheduleKeeps
  <2>4. run' \in RunType
    BY <2>1, <1>t, CutType
  <2> QED BY <1>16, <2>3, <2>4 DEF SettleFire, RunType
<1>17. ASSUME NEW i \in Ids, NEW c \in 1..MaxCost, ExecCancel(i, c) PROVE TypeOK'
  <2>1. ev' \in Table
    BY <1>17, CancelKeeps DEF ExecCancel
  <2>2. run' \in RunType
    BY <1>17, <1>t DEF ExecCancel, RunType
  <2> QED BY <1>17, <2>1, <2>2 DEF ExecCancel, RunType
<1>18. ASSUME NEW i \in Ids, NEW c \in 1..MaxCost, NEW d \in Delays, ExecSchedule(i, d, c) PROVE TypeOK'
  <2>1. LocalNow + d \in Times
    BY <1>18 DEF ExecSchedule
  <2>2. ev' \in Table
    BY <1>18, <2>1, ScheduleKeeps DEF ExecSchedule
  <2>3. cut_arm9_at(run, LocalNow + d) \in RunType
    BY <2>1, CutType
  <2>4. run' \in RunType
    BY <1>18, <2>3 DEF ExecSchedule, RunType
  <2> QED BY <1>18, <2>2, <2>4 DEF ExecSchedule, RunType
<1>19. CASE Return
  BY <1>19 DEF Return
<1>20. CASE BeginSlice
  <2>a. PICK skip \in SUBSET Cpus, idle \in BOOLEAN : \E slice \in SliceChoices(skip, idle) :
          run' = [NoRun EXCEPT !.who = ARM9, !.budget = Budget9For(slice), !.start = Budget9For(slice),
                               !.base = now, !.slice = slice, !.end = now + slice, !.skip = skip]
    BY <1>20 DEF BeginSlice
  <2>1. PICK slice \in SliceChoices(skip, idle) :
          run' = [NoRun EXCEPT !.who = ARM9, !.budget = Budget9For(slice), !.start = Budget9For(slice),
                               !.base = now, !.slice = slice, !.end = now + slice, !.skip = skip]
    BY <2>a
  <2>3. MaxOf(MinOf(ev.next, until.at) - now, 1) \in Nat
    BY InfAssumption DEF MaxOf, MinOf, Table
  <2>4. SliceLength(FALSE) \in Nat /\ SliceLength(idle) \in Nat
    BY <2>3, BoundsAssumption DEF SliceLength
  <2>5. slice \in Nat
    <3>1. SliceChoices(skip, idle) \subseteq {SliceLength(FALSE), SliceLength(idle)} \cup 1..SliceLength(FALSE)
      BY Zenon DEF SliceChoices
    <3>2. slice = SliceLength(FALSE) \/ slice = SliceLength(idle) \/ slice \in 1..SliceLength(FALSE)
      BY <3>1, <2>1, Zenon
    <3>3. ASSUME NEW x \in Nat, NEW y \in 1..x PROVE y \in Nat
      OBVIOUS
    <3> QED BY <2>4, <3>2, <3>3, Zenon
  <2>6. PerTick9 \in {1, 2}
    BY DEF PerTick9
  <2>7. Budget9For(slice) \in Int /\ now + slice \in Int /\ now \in Int
    BY <2>5, <2>6, CarryInt DEF Budget9For
  <2>8. run' \in RunType
    BY <2>1, <2>5, <2>7, NoRunType DEF RunType
  <2> QED BY <1>20, <2>8 DEF BeginSlice, RunType
<1>21. CASE EnterCpu
  BY <1>21 DEF EnterCpu
<1>22. CASE RunReturns
  <2>1. ASSUME NEW b \in Int PROVE MaxOf(b, 0) \in Int
    BY DEF MaxOf
  <2>2. run' \in RunType
    <3> DEFINE over == IF Dsi /\ ~run.yielded THEN MaxOf(run.budget, 0) ELSE run.budget
               left == over + run.residual
               iter == run.dmaIter \/ (Dsi /\ run.who = ARM9 /\ ~run.yielded)
    <3>1. left \in Int
      BY <2>1, <1>t DEF RunType
    <3>2. iter \in BOOLEAN
      BY <1>t, DsiAssumption DEF RunType
    <3>3. run' = run \/ run' = [run EXCEPT !.budget = left, !.residual = 0, !.yielded = FALSE, !.dmaIter = iter]
      BY <1>22, <1>t DEF RunReturns, RunType
    <3> HIDE DEF left, iter
    <3>4. 0 \in Int
      OBVIOUS
    <3>5. [run EXCEPT !.budget = left, !.residual = 0, !.yielded = FALSE, !.dmaIter = iter] \in RunType
      BY <3>1, <3>2, <3>4, <1>t, Zenon DEF RunType
    <3> QED BY <3>3, <3>5, <1>t
  <2> QED BY <1>22, <2>2 DEF RunReturns, RunType
<1>23. ASSUME NEW used \in 0..(Quantum * 2 + MaxCost), NEW more \in BOOLEAN, RunDma(used, more) PROVE TypeOK'
  <2>1. used \in Int
    BY BoundsAssumption
  <2>2. CASE ev' = ev /\ run' = [run EXCEPT !.budget = @ - used, !.dmaIter = DmaIterates(used)]
    <3> DEFINE it == DmaIterates(used)
    <3>0. it \in BOOLEAN
      BY DsiAssumption DEF DmaIterates
    <3>1. run' = [run EXCEPT !.budget = @ - used, !.dmaIter = it]
      BY <2>2
    <3> HIDE DEF it
    <3>2. run' \in RunType
      <4>1. run.budget - used \in Int
        BY <1>t, <2>1 DEF RunType
      <4>2. [run EXCEPT !.budget = run.budget - used, !.dmaIter = it] \in RunType
        BY <3>0, <1>t, <4>1, Zenon DEF RunType
      <4> QED BY <3>1, <4>2
    <3>3. cpu' \in [Cpus -> [halted : BOOLEAN, dma : BOOLEAN]]
      BY <1>23 DEF RunDma
    <3>4. pc' \in {"done", "cpu", "exec"}
      BY <1>23 DEF RunDma
    <3> QED BY <1>23, <2>2, <3>2, <3>3, <3>4 DEF RunDma, RunType
  <2>3. CASE \E i \in Ids, d \in Delays :
               /\ used > 0 /\ LocalNow + d \in Times
               /\ ev' = schedule(ev, i, LocalNow + d)
               /\ run' = [cut_arm9_at(run, LocalNow + d) EXCEPT !.budget = @ - used, !.dmaIter = DmaIterates(used)]
    <3>1. PICK i \in Ids, d \in Delays :
               /\ LocalNow + d \in Times
               /\ ev' = schedule(ev, i, LocalNow + d)
               /\ run' = [cut_arm9_at(run, LocalNow + d) EXCEPT !.budget = @ - used, !.dmaIter = DmaIterates(used)]
      BY <2>3
    <3>2. ev' \in Table
      BY <3>1, ScheduleKeeps
    <3>3. cut_arm9_at(run, LocalNow + d) \in RunType
      BY <3>1, CutType
    <3> DEFINE it == DmaIterates(used)
               r  == cut_arm9_at(run, LocalNow + d)
    <3>4. it \in BOOLEAN /\ r \in RunType
      BY <3>3, DsiAssumption DEF DmaIterates
    <3>5. run' = [r EXCEPT !.budget = @ - used, !.dmaIter = it]
      BY <3>1
    <3> HIDE DEF it, r
    <3>6. run' \in RunType
      <4>1. r.budget - used \in Int
        BY <3>4, <2>1 DEF RunType
      <4>2. [r EXCEPT !.budget = r.budget - used, !.dmaIter = it] \in RunType
        BY <3>4, <4>1, Zenon DEF RunType
      <4> QED BY <3>5, <4>2
    <3>7. cpu' \in [Cpus -> [halted : BOOLEAN, dma : BOOLEAN]]
      BY <1>23 DEF RunDma
    <3>8. pc' \in {"done", "cpu", "exec"}
      BY <1>23 DEF RunDma
    <3> QED BY <1>23, <3>2, <3>6, <3>7, <3>8 DEF RunDma, RunType
  <2> QED BY <1>23, <2>2, <2>3 DEF RunDma
<1>24. CASE Arm9Done
  <2> DEFINE used == run.start - run.budget
  <2>0. used \in Int
    BY <1>t DEF RunType
  <2>1. PerTick9 \in {1, 2}
    BY DEF PerTick9
  <2>2. Sys9(used) \in Int
    BY <2>0, <2>1, CarryInt DEF Sys9
  <2>3. Ticks9(used) \in Int /\ Carry9(used) \in Int
    BY <2>0, <2>1, <2>2, CarryInt DEF Ticks9, Carry9
  <2>4. ASSUME NEW x \in Int PROVE Half(x) \in Int
    BY DEF Half
  <2>5. carry' \in PartOfACycle
    <3>1. Carry9(used) \in PartOfACycle
      <4>1. CASE PerTick9 = 1
        BY <4>1, <2>0, CarryInt DEF Carry9, Sys9, PartOfACycle
      <4>2. CASE PerTick9 = 2
        <5>1. \A x \in Int : x - (x \div 4) * 2 * 2 \in 0..3
          OBVIOUS
        <5>2. carry + used \in Int
          BY <2>0, CarryInt
        <5>a. used \in Int /\ carry \in Int
          BY <2>0, CarryInt
        <5> HIDE DEF used
        <5>3. Carry9(used) = carry \/ Carry9(used) = (carry + used) - ((carry + used) \div 4) * 2 * 2
          BY <4>2, <5>a, <5>2 DEF Carry9, Sys9
        <5>4. PartOfACycle = 0..3
          BY <4>2 DEF PartOfACycle
        <5>5. (carry + used) - ((carry + used) \div 4) * 2 * 2 \in 0..3
          BY <5>1, <5>2, Zenon
        <5> QED BY <5>3, <5>4, <5>5, Zenon
      <4> QED BY <2>1, <4>1, <4>2
    <3>2. 0 \in PartOfACycle
      BY <2>1 DEF PartOfACycle
    <3> QED BY <1>24, <3>1, <3>2 DEF Arm9Done
  <2> DEFINE full  == (cpu[ARM9].halted \/ ARM9 \in run.skip) /\ ~run.dmaIter
             ticks == IF full THEN run.slice ELSE Ticks9(used)
             ran9  == IF ticks > 0 THEN ticks ELSE IF run.dmaIter THEN 0 ELSE 1
             debt2 == debt + ran9
  <2>6. ran9 \in Nat
    BY <2>3, <1>t DEF RunType
  <2>7. debt2 \in Int /\ now + ran9 - debt2 \in Int /\ now \in Int
    BY <2>6
  <2>8. Half(debt2) \in Int
    BY <2>4, <2>7
  <2>9. debt' = debt2 /\ run' = [run EXCEPT !.who = IF Half(debt2) > 0 THEN ARM7 ELSE 0, !.ran9 = ran9,
                               !.base = IF Dsi THEN now + ran9 - debt2 ELSE now,
                               !.budget = Half(debt2), !.start = Half(debt2), !.dmaIter = FALSE]
    BY <1>24 DEF Arm9Done
  <2> HIDE DEF ran9, debt2
  <2>10. run' \in RunType
    BY <2>6, <2>7, <2>8, <2>9, <1>t DEF RunType
  <2> QED BY <1>24, <2>5, <2>7, <2>9, <2>10 DEF Arm9Done, RunType
<1>25. CASE Arm7Done
  BY <1>25, <1>t DEF Arm7Done, RunType
<1>26. CASE SliceEnd
  BY <1>26, NoRunType, <1>t DEF SliceEnd, RunType
<1>27. CASE RunUntil
  <2>1. PICK d \in Runs, f \in BOOLEAN : until' = [at |-> now + d, frame |-> f]
    BY <1>27 DEF RunUntil
  <2>2. now + d \in Nat
    BY BoundsAssumption
  <2> QED BY <1>27, <2>1, <2>2 DEF RunUntil
<1>28. CASE Reset
  <2>1. ev' \in Table
    BY <1>28, FirstEventsExact DEF Reset
  <2> QED BY <1>28, <2>1, CarryInt DEF Reset
<1>29. CASE SaveAndLoad
  <2>1. ev' \in Table
    BY <1>29, RescanExact DEF SaveAndLoad
  <2> QED BY <1>29, <2>1 DEF SaveAndLoad
<1>30. CASE UNCHANGED vars
  BY <1>30 DEF vars
<1> QED
  BY <1>1, <1>2, <1>3, <1>4, <1>5, <1>6, <1>7, <1>8, <1>9, <1>10, <1>11, <1>12, <1>13, <1>14, <1>15,
     <1>16, <1>17, <1>18, <1>19, <1>20, <1>21, <1>22, <1>23, <1>24, <1>25, <1>26, <1>27, <1>28, <1>29, <1>30
     DEF Next, FireDue, Handler, Instruction, SliceLoop

\* The scheduler's state keeps its types: the table, the clocks and the slice
\* in progress (schedule, cancel, settle, fire_due, run_until).
THEOREM TypeCorrect == Spec => []TypeOK
BY TypeInit, TypeStep, PTL DEF Spec
-----------------------------------------------------------------------------
(* The cached deadline.                                                    *)

\* The event table is sound at the start.
LEMMA TableInit == Init => TableInv
<1> SUFFICES ASSUME Init PROVE TableInv
  OBVIOUS
<1>1. CacheExact(ev) /\ ev.next > 0
  BY FirstEventsExact DEF Init
<1> QED BY <1>1 DEF Init, TableInv

\* Every step keeps the event table sound.
LEMMA TableStep == TypeOK /\ TableInv /\ [Next]_vars => TableInv'
<1> SUFFICES ASSUME TypeOK, TableInv, [Next]_vars PROVE TableInv'
  OBVIOUS
<1>a. ev \in Table /\ now \in Nat /\ walk \in SUBSET Ids
  BY DEF TypeOK
<1>b. ev.next \in 0..Inf /\ ev.at \in [Ids -> Times] /\ ev.armed \in SUBSET Ids /\ ev.nextId \in 0..N
  BY <1>a DEF Table
<1>1. CASE BeginPass
  <2>1. /\ ev'.next = Inf /\ ev'.nextId = None /\ ev'.armed = ev.armed
        /\ walk' = ev.armed /\ pc' = "walk" /\ now' = now
    BY <1>1, <1>a DEF BeginPass, Table
  <2>2. PassInv(ev, walk)'
    BY <2>1 DEF PassInv
  <2> QED BY <2>1, <2>2 DEF TableInv
<1>2. CASE FireDone
  <2>1. ev' = ev /\ now' = now /\ pc' = "begin" /\ now < ev.next /\ PassInv(ev, {})
    BY <1>2 DEF FireDone, TableInv
  <2>2. CacheExact(ev)
    BY <2>1, <1>a, <1>b, InfAssumption DEF PassInv, CacheExact
  <2>3. ev.next > now
    BY <2>1, <1>a, <1>b, InfAssumption
  <2> QED BY <2>1, <2>2, <2>3 DEF TableInv, CacheExact
<1>3. CASE Fire
  <2> DEFINE i == Lowest(walk)
  <2>1. /\ walk # {} /\ ev.at[i] <= now /\ ev' = disarm(ev, i) /\ pc' = "handler"
        /\ walk' = walk /\ now' = now /\ PassInv(ev, walk)
    BY <1>3 DEF Fire, TableInv
  <2>2. i \in walk /\ \A j \in walk : i <= j
    BY <2>1, <1>a, LowestIsMember
  <2> HIDE DEF i
  <2>3. ev'.next = ev.next /\ ev'.nextId = ev.nextId /\ ev'.at = ev.at /\ ev'.armed = ev.armed \ {i}
    BY <2>1, <1>a DEF disarm, Table
  <2>4. \A j \in ev'.armed \ Above(i) : ev'.next <= ev'.at[j]
    <3> SUFFICES ASSUME NEW j \in ev.armed, j # i, j \notin Above(i) PROVE ev.next <= ev.at[j]
      BY <2>3
    <3>1. j \notin walk
      BY <2>2, <1>a, <1>b, NAssumption DEF Above, Ids
    <3> QED BY <3>1, <2>1 DEF PassInv
  <2>5. ev.next > now => ev.nextId # i
    BY <2>1, <2>2, <1>a, <1>b, InfAssumption, NAssumption DEF PassInv, None, Ids, Times
  <2>6. PassInv(ev', Above(i))
    BY <2>1, <2>3, <2>4, <2>5 DEF PassInv
  <2>7. PassInv(ev, Above(Lowest(walk)))'
    BY <2>1, <2>6 DEF PassInv, Above, i
  <2> QED BY <2>1, <2>7 DEF TableInv
<1>4. CASE PassOver
  <2> DEFINE i == Lowest(walk)
  <2>1. /\ walk # {} /\ ev.at[i] > now /\ pc' = "walk" /\ pc = "walk"
        /\ walk' = walk \ {i} /\ now' = now /\ PassInv(ev, walk) /\ walk \subseteq ev.armed
        /\ ev' = IF ev.at[i] < ev.next THEN [ev EXCEPT !.next = ev.at[i], !.nextId = i] ELSE ev
    BY <1>4 DEF PassOver, TableInv
  <2>2. i \in walk /\ i \in Ids /\ i # None /\ i \in ev.armed /\ ev.at[i] \in Nat
    BY <2>1, <1>a, <1>b, LowestIsMember, NAssumption, InfAssumption DEF Ids, None, Times
  <2> HIDE DEF i
  <2>3. CASE ev.at[i] < ev.next
    <3>1. ev'.next = ev.at[i] /\ ev'.nextId = i /\ ev'.armed = ev.armed /\ ev'.at = ev.at
      BY <2>1, <2>3, <1>a DEF Table
    <3>2. \A j \in ev.armed : ev.at[j] \in Nat
      BY <1>b, InfAssumption DEF Times
    <3>3. \A j \in ev.armed \ (walk \ {i}) : ev.at[i] <= ev.at[j]
      BY <2>1, <2>2, <2>3, <3>2, <1>b, InfAssumption DEF PassInv
    <3>4. PassInv(ev, walk)'
      BY <2>1, <2>2, <3>1, <3>3 DEF PassInv
    <3> QED BY <2>1, <3>1, <3>4 DEF TableInv
  <2>4. CASE ~(ev.at[i] < ev.next)
    <3>1. ev' = ev /\ ev.next <= ev.at[i]
      BY <2>1, <2>2, <2>4, <1>b, InfAssumption
    <3>2. PassInv(ev, walk)'
      BY <2>1, <3>1 DEF PassInv
    <3> QED BY <2>1, <3>1, <3>2 DEF TableInv
  <2> QED BY <2>3, <2>4
<1>5. CASE EndPass
  BY <1>5 DEF EndPass, TableInv, PassInv
<1>6. CASE HandlerDone
  <2>1. /\ pc' = "walk" /\ ev' = ev /\ now' = now /\ walk' = {j \in ev.armed : j > Lowest(walk)}
        /\ PassInv(ev, Above(Lowest(walk)))
    BY <1>6 DEF HandlerDone, TableInv
  <2>2. ev.armed \ walk' = ev.armed \ Above(Lowest(walk))
    BY <2>1, <1>b DEF Above
  <2>3. PassInv(ev, walk')
    BY <2>1, <2>2 DEF PassInv
  <2>4. PassInv(ev, walk)'
    BY <2>1, <2>3 DEF PassInv
  <2> QED BY <2>1, <2>4 DEF TableInv
<1>7. ASSUME NEW i \in Ids, NEW d \in Delays, HandlerSchedule(i, d) PROVE TableInv'
  <2>1. PICK when \in Times : ev' = schedule(ev, i, when)
    BY <1>7 DEF HandlerSchedule
  <2>2. pc = "handler" /\ pc' = "handler" /\ walk' = walk /\ now' = now
    BY <1>7 DEF HandlerSchedule
  <2>3. walk # {} /\ PassInv(ev, Above(Lowest(walk)))
    BY <2>2 DEF TableInv
  <2>4. PassInv(ev', Above(Lowest(walk)))
    BY <2>1, <2>3, <1>a, ScheduleKeeps
  <2>5. PassInv(ev, Above(Lowest(walk)))'
    BY <2>2, <2>4 DEF PassInv
  <2> QED BY <2>2, <2>3, <2>5 DEF TableInv
<1>8. ASSUME NEW i \in Ids, HandlerCancel(i) PROVE TableInv'
  <2>1. ev' = cancel(ev, i) /\ pc = "handler" /\ pc' = "handler" /\ walk' = walk /\ now' = now
    BY <1>8 DEF HandlerCancel
  <2>2. walk # {} /\ PassInv(ev, Above(Lowest(walk)))
    BY <2>1 DEF TableInv
  <2>3. PassInv(ev', Above(Lowest(walk)))
    BY <2>1, <2>2, <1>a, CancelKeeps
  <2>4. PassInv(ev, Above(Lowest(walk)))'
    BY <2>1, <2>3 DEF PassInv
  <2> QED BY <2>1, <2>2, <2>4 DEF TableInv
<1>9. CASE HandlerSignal
  BY <1>9 DEF HandlerSignal, TableInv, PassInv
<1>r. ASSUME CacheExact(ev)', pc' \in {"cpu", "exec", "settle", "done", "sliceEnd"} PROVE TableInv'
  BY <1>r DEF TableInv
<1>k. ASSUME ev' = ev, pc \in {"begin", "cpu", "exec", "settle", "done", "sliceEnd"},
             pc' \in {"cpu", "exec", "settle", "done", "sliceEnd"} PROVE TableInv'
  BY <1>k, <1>r DEF TableInv, CacheExact
<1>10. ASSUME NEW c \in 1..MaxCost,
              Exec(c) \/ ExecStartDma(c) \/ ExecYield(c) \/ ExecHalt(c) \/ SettleDone(c) PROVE TableInv'
  BY <1>10, <1>k DEF Exec, ExecStartDma, ExecYield, ExecHalt, SettleDone, CanExec
<1>15. ASSUME NEW i \in Ids, ExecSettle(i) PROVE TableInv'
  BY <1>15, <1>k DEF ExecSettle, CanExec
<1>16. ASSUME NEW d \in Delays \cup {0}, SettleFire(d) PROVE TableInv'
  <2>1. pc = "settle" /\ pc' = "settle" /\ CacheExact(ev)
    BY <1>16 DEF SettleFire, TableInv
  <2>2. PICK i \in walk :
          IF d = 0 THEN ev' = cancel(ev, i)
          ELSE /\ ev.at[i] + d \in Times
               /\ ev' = schedule(cancel(ev, i), i, ev.at[i] + d)
    BY <1>16 DEF SettleFire
  <2>3. i \in Ids
    BY <2>2, <1>a
  <2>4. cancel(ev, i) \in Table /\ CacheExact(cancel(ev, i))
    BY <2>1, <2>3, <1>a, CancelKeeps
  <2>5. CacheExact(ev')
    BY <2>2, <2>3, <2>4, <1>a, ScheduleKeeps
  <2> QED BY <1>r, <2>1, <2>5 DEF CacheExact
<1>17. ASSUME NEW i \in Ids, NEW c \in 1..MaxCost, ExecCancel(i, c) PROVE TableInv'
  <2>1. ev' = cancel(ev, i) /\ pc = "exec" /\ pc' = "exec" /\ CacheExact(ev)
    BY <1>17 DEF ExecCancel, CanExec, TableInv
  <2>2. CacheExact(ev')
    BY <2>1, <1>a, CancelKeeps
  <2> QED BY <1>r, <2>1, <2>2 DEF CacheExact
<1>18. ASSUME NEW i \in Ids, NEW c \in 1..MaxCost, NEW d \in Delays, ExecSchedule(i, d, c) PROVE TableInv'
  <2>1. /\ LocalNow + d \in Times /\ ev' = schedule(ev, i, LocalNow + d)
        /\ pc = "exec" /\ pc' = "exec" /\ CacheExact(ev)
    BY <1>18 DEF ExecSchedule, CanExec, TableInv
  <2>2. CacheExact(ev')
    BY <2>1, <1>a, ScheduleKeeps
  <2> QED BY <1>r, <2>1, <2>2 DEF CacheExact
<1>19. CASE Return
  BY <1>19 DEF Return, TableInv, CacheExact
<1>20. CASE BeginSlice
  BY <1>20, <1>k DEF BeginSlice
<1>21. CASE EnterCpu \/ RunReturns \/ Arm9Done \/ Arm7Done
  BY <1>21, <1>k DEF EnterCpu, RunReturns, Arm9Done, Arm7Done
<1>23. ASSUME NEW used \in 0..(Quantum * 2 + MaxCost), NEW more \in BOOLEAN, RunDma(used, more) PROVE TableInv'
  <2>1. pc = "cpu" /\ pc' \in {"done", "cpu", "exec"} /\ CacheExact(ev)
    BY <1>23 DEF RunDma, TableInv
  <2>2. CASE ev' = ev
    BY <2>1, <2>2, <1>k
  <2>3. CASE \E i \in Ids, when \in Times : ev' = schedule(ev, i, when)
    <3>1. CacheExact(ev')
      BY <2>1, <2>3, <1>a, ScheduleKeeps
    <3> QED BY <1>r, <2>1, <3>1 DEF CacheExact
  <2> QED BY <1>23, <2>2, <2>3 DEF RunDma
<1>26. CASE SliceEnd
  <2>1. pc = "sliceEnd" /\ pc' = "fire" /\ ev' = ev /\ CacheExact(ev)
    BY <1>26 DEF SliceEnd, TableInv
  <2>2. PassInv(ev, {})'
    BY <2>1 DEF PassInv, CacheExact
  <2> QED BY <2>1, <2>2 DEF TableInv
<1>27. CASE RunUntil
  <2>1. pc = "stopped" /\ pc' = "fire" /\ ev' = ev /\ CacheExact(ev)
    BY <1>27 DEF RunUntil, TableInv
  <2>2. PassInv(ev, {})'
    BY <2>1 DEF PassInv, CacheExact
  <2> QED BY <2>1, <2>2 DEF TableInv
<1>28. CASE Reset
  <2>1. CacheExact(ev') /\ ev'.next > 0 /\ pc = "stopped" /\ pc' = pc /\ now' = 0
    BY <1>28, FirstEventsExact DEF Reset
  <2> QED BY <2>1 DEF TableInv, CacheExact
<1>29. CASE SaveAndLoad
  <2>1. /\ ev' = rescan(ev) /\ pc = "stopped" /\ pc' = pc /\ now' = now
        /\ CacheExact(ev) /\ ev.next > now
    BY <1>29 DEF SaveAndLoad, TableInv
  <2>2. CacheExact(ev') /\ ev'.armed = ev.armed /\ ev'.at = ev.at
    BY <2>1, <1>a, RescanExact
  <2>3. ev'.next > now
    <3>1. CASE ev'.nextId = None
      BY <3>1, <2>1, <2>2, <1>a, <1>b, InfAssumption DEF CacheExact
    <3>2. CASE ev'.nextId # None
      BY <3>2, <2>1, <2>2, <1>a, <1>b, InfAssumption DEF CacheExact, Times
    <3> QED BY <3>1, <3>2
  <2> QED BY <2>1, <2>2, <2>3 DEF TableInv, CacheExact
<1>30. CASE UNCHANGED vars
  BY <1>30 DEF vars, TableInv, CacheExact, PassInv
<1> QED
  BY <1>1, <1>2, <1>3, <1>4, <1>5, <1>6, <1>7, <1>8, <1>9, <1>10, <1>15, <1>16, <1>17, <1>18,
     <1>19, <1>20, <1>21, <1>23, <1>26, <1>27, <1>28, <1>29, <1>30
     DEF Next, FireDue, Handler, Instruction, SliceLoop

\* The types and the soundness of the table hold throughout.
LEMMA TableAlways == Spec => [](TypeOK /\ TableInv)
<1>1. Init => TypeOK /\ TableInv
  BY TypeInit, TableInit
<1>2. TypeOK /\ TableInv /\ [Next]_vars => (TypeOK /\ TableInv)'
  BY TypeStep, TableStep
<1> QED BY <1>1, <1>2, PTL DEF Spec

\* The cached deadline is the earliest armed one whenever a slice's length or
\* a CPU's progress depends on it: for every sequence of schedule, cancel and
\* settle calls, from instructions, DMA and handlers alike.
THEOREM CacheCorrect == Spec => []NextIsEarliest
<1>1. TableInv => NextIsEarliest
  BY DEF TableInv, NextIsEarliest
<1> QED BY <1>1, TableAlways, PTL

\* fire_due leaves nothing due behind, however its handlers re-arm events.
THEOREM FiredAll == Spec => []NothingOverdue
<1>1. TypeOK /\ TableInv => NothingOverdue
  <2> SUFFICES ASSUME TypeOK, TableInv, pc \in {"begin", "stopped"}, NEW i \in ev.armed
               PROVE  ev.at[i] > now
    BY DEF NothingOverdue
  <2>1. ev.next > now /\ ev.next <= ev.at[i]
    BY DEF TableInv, CacheExact
  <2>2. ev.next \in Nat /\ ev.at[i] \in Nat /\ now \in Nat
    BY InfAssumption DEF TypeOK, Table, Times
  <2> QED BY <2>1, <2>2
<1> QED BY <1>1, TableAlways, PTL

-----------------------------------------------------------------------------
(* The two clocks.                                                         *)

\* A step that charges no CPU, moves no clock and keeps the slice's length
\* keeps the accounts.
LEMMA ClocksUntouched ==
  ASSUME TypeOK, ClocksAgree,
         UNCHANGED <<now, debt, ran7>>, run'.ran9 = run.ran9
  PROVE  ClocksAgree'
BY DEF ClocksAgree

\* The clocks agree at the start.
LEMMA ClocksInit == Init => SliceInv /\ ClocksAgree
BY DEF Init, SliceInv, ClocksAgree, NoRun

\* Every step keeps the clocks in agreement at the ends of slices.
LEMMA ClocksStep == TypeOK /\ SliceInv /\ ClocksAgree /\ [Next]_vars => (SliceInv /\ ClocksAgree)'
<1> SUFFICES ASSUME TypeOK, SliceInv, ClocksAgree, [Next]_vars PROVE SliceInv' /\ ClocksAgree'
  OBVIOUS
<1>t. run \in RunType /\ now \in Nat /\ debt \in Int /\ ran7 \in Int
  BY DEF TypeOK, RunType
<1> DEFINE Outside == {"stopped", "fire", "walk", "handler", "begin"}
\* Whatever leaves the slice in progress alone, or starts outside one and
\* stays outside.
<1>q. ASSUME UNCHANGED <<now, debt, ran7, run>>, pc' \in Outside => pc \in Outside
      PROVE  SliceInv' /\ ClocksAgree'
  BY <1>q DEF SliceInv, ClocksAgree
\* Whatever a running CPU does.
<1>r. ASSUME UNCHANGED <<now, debt, ran7>>, run'.ran9 = run.ran9, run'.who = run.who, pc' \notin Outside
      PROVE  SliceInv' /\ ClocksAgree'
  BY <1>r, ClocksUntouched DEF SliceInv
<1>1. CASE BeginPass
  BY <1>1, <1>q DEF BeginPass
<1>2. CASE FireDone
  BY <1>2, <1>q DEF FireDone
<1>3. CASE Fire
  BY <1>3, <1>q DEF Fire
<1>4. CASE PassOver
  BY <1>4, <1>q DEF PassOver
<1>5. CASE EndPass
  BY <1>5, <1>q DEF EndPass
<1>6. CASE HandlerDone
  BY <1>6, <1>q DEF HandlerDone
<1>7. ASSUME NEW i \in Ids, NEW d \in Delays, HandlerSchedule(i, d) PROVE SliceInv' /\ ClocksAgree'
  BY <1>7, <1>q DEF HandlerSchedule
<1>8. ASSUME NEW i \in Ids, HandlerCancel(i) PROVE SliceInv' /\ ClocksAgree'
  BY <1>8, <1>q DEF HandlerCancel
<1>9. CASE HandlerSignal
  BY <1>9, <1>q DEF HandlerSignal
<1>10. ASSUME NEW c \in 1..MaxCost, Exec(c) \/ ExecHalt(c) \/ SettleDone(c) PROVE SliceInv' /\ ClocksAgree'
  BY <1>10, <1>r, <1>t DEF Exec, ExecHalt, SettleDone, CanExec, RunType
<1>11. ASSUME NEW c \in 1..MaxCost, ExecStartDma(c) \/ ExecYield(c) PROVE SliceInv' /\ ClocksAgree'
  BY <1>11, <1>r, <1>t DEF ExecStartDma, ExecYield, CanExec, RunType
<1>15. ASSUME NEW i \in Ids, ExecSettle(i) PROVE SliceInv' /\ ClocksAgree'
  BY <1>15, <1>q DEF ExecSettle
<1>16. ASSUME NEW d \in Delays \cup {0}, SettleFire(d) PROVE SliceInv' /\ ClocksAgree'
  <2>1. run'.ran9 = run.ran9 /\ run'.who = run.who
    BY <1>16, CutType DEF SettleFire
  <2> QED BY <1>16, <2>1, <1>r DEF SettleFire
<1>17. ASSUME NEW i \in Ids, NEW c \in 1..MaxCost, ExecCancel(i, c) PROVE SliceInv' /\ ClocksAgree'
  BY <1>17, <1>r, <1>t DEF ExecCancel, CanExec, RunType
<1>18. ASSUME NEW i \in Ids, NEW c \in 1..MaxCost, NEW d \in Delays, ExecSchedule(i, d, c)
       PROVE  SliceInv' /\ ClocksAgree'
  <2> DEFINE r == cut_arm9_at(run, LocalNow + d)
  <2>1. r \in RunType /\ r.ran9 = run.ran9 /\ r.who = run.who
    BY <1>18, CutType DEF ExecSchedule
  <2>2. run' = [r EXCEPT !.budget = @ - c]
    BY <1>18 DEF ExecSchedule
  <2> HIDE DEF r
  <2>3. run'.ran9 = run.ran9 /\ run'.who = run.who
    BY <2>1, <2>2 DEF RunType
  <2> QED BY <1>18, <2>3, <1>r DEF ExecSchedule, CanExec
<1>19. CASE Return
  BY <1>19, <1>q DEF Return
<1>20. CASE BeginSlice
  <2>1. run'.ran9 = 0
    BY <1>20 DEF BeginSlice, NoRun
  <2>2. run.ran9 = 0 /\ UNCHANGED <<now, debt, ran7>>
    BY <1>20 DEF BeginSlice, SliceInv
  <2> QED BY <2>1, <2>2, ClocksUntouched DEF SliceInv
<1>21. CASE EnterCpu
  BY <1>21, <1>q DEF EnterCpu
<1>22. CASE RunReturns
  <2>1. run'.ran9 = run.ran9 /\ run'.who = run.who
    BY <1>22, <1>t DEF RunReturns, RunType
  <2>2. pc' \in {"done", "cpu"}
    BY <1>22 DEF RunReturns
  <2> QED BY <1>22, <2>1, <2>2, <1>r DEF RunReturns
<1>23. ASSUME NEW used \in 0..(Quantum * 2 + MaxCost), NEW more \in BOOLEAN, RunDma(used, more)
       PROVE  SliceInv' /\ ClocksAgree'
  <2>1. CASE run' = [run EXCEPT !.budget = @ - used, !.dmaIter = DmaIterates(used)]
    <3>1. run'.ran9 = run.ran9 /\ run'.who = run.who
      BY <2>1, <1>t DEF RunType
    <3>2. pc' \in {"done", "cpu", "exec"} /\ UNCHANGED <<now, debt, ran7>>
      BY <1>23 DEF RunDma
    <3> QED BY <3>1, <3>2, <1>r
  <2>2. CASE \E i \in Ids, d \in Delays :
               /\ LocalNow + d \in Times
               /\ run' = [cut_arm9_at(run, LocalNow + d) EXCEPT !.budget = @ - used, !.dmaIter = DmaIterates(used)]
    <3>1. PICK d \in Delays :
               /\ LocalNow + d \in Times
               /\ run' = [cut_arm9_at(run, LocalNow + d) EXCEPT !.budget = @ - used, !.dmaIter = DmaIterates(used)]
      BY <2>2
    <3> DEFINE r == cut_arm9_at(run, LocalNow + d)
    <3>2. r \in RunType /\ r.ran9 = run.ran9 /\ r.who = run.who
      BY <3>1, CutType
    <3>3. run' = [r EXCEPT !.budget = @ - used, !.dmaIter = DmaIterates(used)]
      BY <3>1
    <3> HIDE DEF r
    <3>4. run'.ran9 = run.ran9 /\ run'.who = run.who
      BY <3>2, <3>3 DEF RunType
    <3>5. pc' \in {"done", "cpu", "exec"} /\ UNCHANGED <<now, debt, ran7>>
      BY <1>23 DEF RunDma
    <3> QED BY <3>4, <3>5, <1>r
  <2> QED BY <1>23, <2>1, <2>2 DEF RunDma
<1>24. CASE Arm9Done
  <2> DEFINE full  == (cpu[ARM9].halted \/ ARM9 \in run.skip) /\ ~run.dmaIter
             ticks == IF full THEN run.slice ELSE Ticks9(run.start - run.budget)
             ran9  == IF ticks > 0 THEN ticks ELSE IF run.dmaIter THEN 0 ELSE 1
  <2>1. /\ debt' = debt + ran9 /\ run'.ran9 = ran9 /\ UNCHANGED <<now, ran7>>
        /\ run'.who \in {ARM7, 0} /\ pc' \in {"cpu", "sliceEnd"}
    BY <1>24, <1>t DEF Arm9Done, RunType
  <2>2. Ticks9(run.start - run.budget) \in Int
    <3> DEFINE used == run.start - run.budget
    <3>1. used \in Int /\ carry \in Int
      BY <1>t, CarryInt DEF RunType, TypeOK
    <3>2. PerTick9 \in {1, 2}
      BY DEF PerTick9
    <3>3. Sys9(used) \in Int
      BY <3>1, <3>2 DEF Sys9
    <3> QED BY <3>1, <3>3 DEF Ticks9
  <2>3. ran9 \in Nat
    BY <2>2, <1>t DEF RunType
  <2>4. run.ran9 = 0
    BY <1>24 DEF Arm9Done, SliceInv
  <2> HIDE DEF ran9
  <2>5. ClocksAgree'
    BY <2>1, <2>3, <2>4, <1>t DEF ClocksAgree
  <2>6. SliceInv'
    BY <2>1 DEF SliceInv, ARM7, ARM9
  <2> QED BY <2>5, <2>6
<1>25. CASE Arm7Done
  <2> DEFINE consumed7 == IF cpu[ARM7].halted \/ ARM7 \in run.skip THEN run.start ELSE run.start - run.budget
  <2>1. consumed7 \in Int
    BY <1>t DEF RunType
  <2>2. /\ debt' = debt - 2 * consumed7 /\ ran7' = ran7 + consumed7 /\ now' = now
        /\ run'.ran9 = run.ran9 /\ run'.who = 0 /\ pc' = "sliceEnd"
    BY <1>25, <1>t DEF Arm7Done, RunType
  <2> HIDE DEF consumed7
  <2>3. run.ran9 \in Nat
    BY <1>t DEF RunType
  <2>4. ClocksAgree'
    BY <2>1, <2>2, <2>3, <1>t DEF ClocksAgree
  <2>5. SliceInv'
    BY <2>2 DEF SliceInv, ARM9
  <2> QED BY <2>4, <2>5
<1>26. CASE SliceEnd
  <2>1. run'.ran9 = 0 /\ now' = now + run.ran9 /\ UNCHANGED <<debt, ran7>>
    BY <1>26 DEF SliceEnd, NoRun
  <2>2. run.ran9 \in Nat
    BY <1>t DEF RunType
  <2> QED BY <2>1, <2>2, <1>t DEF ClocksAgree, SliceInv
<1>27. CASE RunUntil
  BY <1>27, <1>q DEF RunUntil
<1>28. CASE Reset
  <2>1. now' = 0 /\ debt' = 0 /\ ran7' = 0 /\ run'.ran9 = 0
    BY <1>28 DEF Reset, SliceInv
  <2> QED BY <2>1 DEF ClocksAgree, SliceInv
<1>29. CASE SaveAndLoad
  BY <1>29, <1>q DEF SaveAndLoad
<1>30. CASE UNCHANGED vars
  BY <1>30, <1>q DEF vars
<1> QED
  BY <1>1, <1>2, <1>3, <1>4, <1>5, <1>6, <1>7, <1>8, <1>9, <1>10, <1>11, <1>15,
     <1>16, <1>17, <1>18, <1>19, <1>20, <1>21, <1>22, <1>23, <1>24, <1>25, <1>26, <1>27, <1>28, <1>29, <1>30
     DEF Next, FireDue, Handler, Instruction, SliceLoop

\* The ARM7 covers exactly the time the ARM9 has spent: its charges and its
\* debt add up to the clock, whatever the slices' lengths, the instructions'
\* costs, yields, halts, skipped slices and DMA iterations (arm7_debt_).
THEOREM ClocksCorrect == Spec => []ClocksAgree
<1>1. Init => TypeOK /\ SliceInv /\ ClocksAgree
  BY TypeInit, ClocksInit
<1>2. TypeOK /\ SliceInv /\ ClocksAgree /\ [Next]_vars => (TypeOK /\ SliceInv /\ ClocksAgree)'
  BY TypeStep, ClocksStep
<1> QED BY <1>1, <1>2, PTL DEF Spec

-----------------------------------------------------------------------------
(* When events fire.                                                       *)

\* A CPU has its part of the slice.
Running == {"cpu", "exec", "settle", "done"}

\* No armed deadline is as early as both the slice's start and the time the
\* ARM7 had reached then: what a CPU arms lies ahead of its own clock.
DeadlinesAhead ==
  pc \in Running \cup {"sliceEnd"} => \A i \in ev.armed : ev.at[i] > MinOf(now, run.base)

\* The budget: a CPU's clock never goes back behind where its part began, a
\* slice is cut and never stretched, and only a CPU that has just left its run
\* loop has cycles put aside.
SpendInv ==
  /\ pc \in Running => run.who \in Cpus /\ Consumed >= 0
  /\ pc \in Running /\ run.who = ARM9 => run.base = now /\ run.start <= Budget9For(run.slice)
  /\ run.residual = 0 \/ (pc = "exec" /\ run.budget < 0 /\ 0 < run.residual /\ run.residual <= run.start)
  /\ Dsi => run.slice <= Quantum + Margin

\* A DSi slice of more than one tick is overrun by less than the longest
\* instruction or DMA unit.
ShortInv ==
  Dsi /\ run.slice > 1 =>
    /\ pc \in Running /\ run.who = ARM9 => Consumed < Budget9For(run.slice) + MaxCost
    /\ pc = "cpu" /\ run.who = ARM9 => run.budget > 0
    /\ pc = "settle" /\ run.who = ARM9 => Consumed < Budget9For(run.slice)
    /\ run.ran9 < Quantum + Margin + MaxCost

\* Budgets are numbers.
LEMMA BudgetInt == ASSUME TypeOK, NEW x \in Int PROVE Budget9For(x) \in Int
<1>1. PerTick9 \in {1, 2}
  BY DEF PerTick9
<1> QED BY <1>1, CarryInt DEF TypeOK, Budget9For

\* Cutting a slice changes neither what was spent nor what was put aside.
LEMMA CutSpends ==
  ASSUME TypeOK, NEW when \in Times
  PROVE  LET r == cut_arm9_at(run, when)
         IN  /\ r \in RunType /\ r.start <= run.start
             /\ r.start - r.budget = run.start - run.budget
             /\ r.residual = run.residual /\ r.base = run.base /\ r.slice = run.slice
             /\ r.who = run.who /\ r.ran9 = run.ran9
<1> DEFINE nb == Budget9For(when - now)
           c  == [run EXCEPT !.start = nb, !.end = when, !.budget = nb - (run.start - @)]
           r  == cut_arm9_at(run, when)
<1>1. run \in RunType /\ when \in Int /\ now \in Int
  BY InfAssumption DEF TypeOK, RunType, Times
<1>2. nb \in Int
  BY <1>1, BudgetInt
<1>3. r = run \/ (r = c /\ nb < run.start)
  BY <1>1, <1>2 DEF cut_arm9_at, RunType
<1> HIDE DEF nb
<1>4. /\ c.start = nb /\ c.budget = nb - (run.start - run.budget)
      /\ c.residual = run.residual /\ c.base = run.base /\ c.slice = run.slice
      /\ c.who = run.who /\ c.ran9 = run.ran9
  BY <1>1 DEF RunType
<1>5. r \in RunType
  BY CutType
<1> HIDE DEF c, r
<1> DEFINE Kept == /\ r.start <= run.start /\ r.start - r.budget = run.start - run.budget
                   /\ r.residual = run.residual /\ r.base = run.base /\ r.slice = run.slice
                   /\ r.who = run.who /\ r.ran9 = run.ran9
<1>6. ASSUME r = run PROVE Kept
  BY <1>1, <1>6 DEF RunType
<1>7. ASSUME r = c, nb < run.start PROVE Kept
  BY <1>1, <1>2, <1>4, <1>7 DEF RunType
<1>8. r \in RunType /\ Kept
  BY <1>3, <1>5, <1>6, <1>7
<1> QED BY <1>8 DEF r

\* A running CPU's clock is not behind where its part of the slice began.
LEMMA ClockAhead ==
  ASSUME TypeOK, SpendInv, pc \in Running
  PROVE  LocalNow \in Int /\ LocalNow >= run.base
<1>1. Consumed \in Int /\ Consumed >= 0 /\ run.who \in Cpus /\ run.base \in Int /\ LocalNow \in Int
  BY LocalNowInt DEF SpendInv, TypeOK
<1>2. run.who # 0
  BY <1>1 DEF Cpus, ARM9, ARM7
<1>3. PerTick9 \in {1, 2} /\ carry \in Int /\ carry >= 0
  <2>1. PerTick9 \in {1, 2}
    BY DEF PerTick9
  <2> QED BY <2>1 DEF TypeOK, PartOfACycle
<1>4. (Consumed + carry) \div (2 * PerTick9) \in Int /\ (Consumed + carry) \div (2 * PerTick9) >= 0
  <2>1. CASE PerTick9 = 1
    BY <2>1, <1>1, <1>3
  <2>2. CASE PerTick9 = 2
    BY <2>2, <1>1, <1>3
  <2> QED BY <2>1, <2>2, <1>3
<1> HIDE DEF Consumed
<1> QED BY <1>1, <1>2, <1>4 DEF LocalNow

\* What a step of the CPU that runs must show to keep the budget sound.
LEMMA Spends ==
  ASSUME TypeOK, TypeOK', SpendInv, ShortInv, UNCHANGED <<now, carry>>,
         pc \in Running, pc' \in Running,
         run'.who = run.who, run'.base = run.base, run'.slice = run.slice, run'.ran9 = run.ran9,
         run'.start <= run.start, Consumed' >= 0,
         run'.residual = 0
           \/ (pc' = "exec" /\ run'.budget < 0 /\ 0 < run'.residual /\ run'.residual <= run'.start),
         Dsi /\ run.slice > 1 /\ run.who = ARM9 =>
           /\ Consumed' < Budget9For(run.slice) + MaxCost
           /\ pc' = "cpu" => run'.budget > 0
           /\ pc' = "settle" => Consumed' < Budget9For(run.slice)
  PROVE  SpendInv' /\ ShortInv'
<1>1. Budget9For(run.slice)' = Budget9For(run.slice)
  BY DEF Budget9For
<1>2. Budget9For(run.slice) \in Int
  BY BudgetInt DEF TypeOK
<1>3. run.start \in Int /\ run'.start \in Int
  BY DEF TypeOK
<1>4. SpendInv'
  BY <1>1, <1>2, <1>3 DEF SpendInv
<1>5. ShortInv'
  BY <1>1, <1>2 DEF ShortInv
<1> QED BY <1>4, <1>5

\* An instruction runs only while its CPU has budget left.
LEMMA ExecRoom ==
  ASSUME TypeOK, SpendInv, CanExec
  PROVE  /\ run.residual = 0 /\ run.budget > 0 /\ Consumed \in Int /\ Consumed >= 0
         /\ Consumed = run.start - run.budget
         /\ run.who = ARM9 => Consumed < Budget9For(run.slice)
<1>1. run.budget \in Int /\ run.start \in Int /\ run.residual \in Int /\ Budget9For(run.slice) \in Int
  BY BudgetInt DEF TypeOK
<1>2. pc = "exec" /\ run.budget > 0 /\ pc \in Running
  BY DEF CanExec, Running
<1>3. run.residual = 0
  BY <1>1, <1>2 DEF SpendInv
<1> QED BY <1>1, <1>2, <1>3 DEF SpendInv, Consumed

\* The budget is sound at the start.
LEMMA SpendInit == Init => SpendInv /\ ShortInv
BY BoundsAssumption DEF Init, SpendInv, ShortInv, NoRun, Running

\* Every step keeps the budget sound.
LEMMA SpendStep == TypeOK /\ SpendInv /\ ShortInv /\ [Next]_vars => (SpendInv /\ ShortInv)'
<1> SUFFICES ASSUME TypeOK, SpendInv, ShortInv, [Next]_vars PROVE SpendInv' /\ ShortInv'
  OBVIOUS
<1>t. TypeOK'
  BY TypeStep
<1>r. run \in RunType /\ run' \in RunType
  BY <1>t DEF TypeOK, RunType
<1>n. /\ run.start \in Int /\ run.budget \in Int /\ run.residual \in Int /\ run.slice \in Nat /\ run.ran9 \in Nat
      /\ Consumed \in Int /\ Budget9For(run.slice) \in Int
      /\ Quantum \in Nat \ {0} /\ Margin \in Nat /\ MaxCost \in Nat \ {0}
  BY BudgetInt, LocalNowInt, BoundsAssumption DEF TypeOK
\* What leaves the slice alone and happens outside a CPU's part.
<1>q. ASSUME run' = run, pc \notin Running, pc' \notin Running PROVE SpendInv' /\ ShortInv'
  BY <1>q DEF SpendInv, ShortInv, Running
\* An instruction of c cycles, of a slice that it may have cut before.
<1>c. ASSUME NEW c \in 1..MaxCost, NEW r \in RunType, CanExec,
             r.start <= run.start, r.start - r.budget = run.start - run.budget,
             r.residual = 0, r.base = run.base, r.slice = run.slice, r.who = run.who, r.ran9 = run.ran9,
             run' = [r EXCEPT !.budget = @ - c], pc' = "exec", UNCHANGED <<now, carry>>
      PROVE  SpendInv' /\ ShortInv'
  <2>1. /\ run'.start = r.start /\ run'.budget = r.budget - c /\ run'.residual = 0
        /\ run'.base = run.base /\ run'.slice = run.slice /\ run'.who = run.who /\ run'.ran9 = run.ran9
    BY <1>c DEF RunType
  <2>2. r.start \in Int /\ r.budget \in Int /\ c \in Int /\ c >= 1 /\ c <= MaxCost
    BY <1>c, <1>n DEF RunType
  <2>3. Consumed' = Consumed + c
    BY <1>c, <1>n, <2>1, <2>2, ExecRoom DEF Consumed
  <2>4. pc \in Running /\ pc' \in Running
    BY <1>c DEF CanExec, Running
  <2>5. Consumed >= 0 /\ (run.who = ARM9 => Consumed < Budget9For(run.slice))
    BY <1>c, ExecRoom
  <2> HIDE DEF Consumed
  <2>6. Consumed' >= 0 /\ (run.who = ARM9 => Consumed' < Budget9For(run.slice) + MaxCost)
    BY <1>n, <2>2, <2>3, <2>5
  <2> QED BY <1>c, <1>t, <2>1, <2>4, <2>6, Spends
<1>e. ASSUME NEW c \in 1..MaxCost, CanExec, run' = [run EXCEPT !.budget = @ - c], pc' = "exec",
             UNCHANGED <<now, carry>>
      PROVE  SpendInv' /\ ShortInv'
  BY <1>e, <1>c, <1>r, <1>n, ExecRoom
<1>1. CASE FireDue
  BY <1>1, <1>q DEF FireDue, BeginPass, FireDone, Fire, PassOver, EndPass, HandlerDone, Running
<1>2. CASE Handler
  BY <1>2, <1>q DEF Handler, HandlerSchedule, HandlerCancel, HandlerSignal, Running
<1>3. CASE RunUntil \/ Reset \/ SaveAndLoad \/ Return
  BY <1>3, <1>q DEF RunUntil, Reset, SaveAndLoad, Return, Running
<1>4. ASSUME NEW c \in 1..MaxCost, Exec(c) \/ ExecHalt(c) PROVE SpendInv' /\ ShortInv'
  BY <1>4, <1>e DEF Exec, ExecHalt, CanExec
<1>5. ASSUME NEW i \in Ids, NEW c \in 1..MaxCost, ExecCancel(i, c) PROVE SpendInv' /\ ShortInv'
  BY <1>5, <1>e DEF ExecCancel, CanExec
<1>6. ASSUME NEW i \in Ids, NEW c \in 1..MaxCost, NEW d \in Delays, ExecSchedule(i, d, c)
      PROVE  SpendInv' /\ ShortInv'
  <2> DEFINE r == cut_arm9_at(run, LocalNow + d)
  <2>1. CanExec /\ LocalNow + d \in Times /\ run' = [r EXCEPT !.budget = @ - c]
        /\ pc' = "exec" /\ UNCHANGED <<now, carry>>
    BY <1>6 DEF ExecSchedule, CanExec
  <2>2. /\ r \in RunType /\ r.start <= run.start /\ r.start - r.budget = run.start - run.budget
        /\ r.residual = run.residual /\ r.base = run.base /\ r.slice = run.slice
        /\ r.who = run.who /\ r.ran9 = run.ran9
    BY <2>1, CutSpends
  <2>3. run.residual = 0
    BY <2>1, ExecRoom
  <2> HIDE DEF r
  <2> QED BY <1>c, <2>1, <2>2, <2>3
<1>7. ASSUME NEW c \in 1..MaxCost, ExecStartDma(c) \/ ExecYield(c) PROVE SpendInv' /\ ShortInv'
  <2>1. /\ CanExec /\ pc' = "exec" /\ UNCHANGED <<now, carry>>
        /\ run'.budget = -c /\ run'.residual = run.residual + run.budget
        /\ run'.start = run.start /\ run'.base = run.base /\ run'.slice = run.slice
        /\ run'.who = run.who /\ run'.ran9 = run.ran9
    BY <1>7, <1>r DEF ExecStartDma, ExecYield, CanExec, RunType
  <2>2. /\ run.residual = 0 /\ run.budget > 0 /\ Consumed >= 0 /\ Consumed = run.start - run.budget
        /\ run.who = ARM9 => Consumed < Budget9For(run.slice)
    BY <2>1, ExecRoom
  <2>3. Consumed' = Consumed + c
    BY <1>n, <2>1, <2>2 DEF Consumed
  <2>4. run'.budget < 0 /\ 0 < run'.residual /\ run'.residual <= run'.start
    BY <1>n, <2>1, <2>2
  <2> HIDE DEF Consumed
  <2>5. Consumed' >= 0 /\ (run.who = ARM9 => Consumed' < Budget9For(run.slice) + MaxCost)
    BY <1>n, <2>2, <2>3
  <2>6. pc \in Running /\ pc' \in Running
    BY <2>1 DEF CanExec, Running
  <2> QED BY <1>n, <1>t, <2>1, <2>4, <2>5, <2>6, Spends
<1>8. ASSUME NEW i \in Ids, ExecSettle(i) PROVE SpendInv' /\ ShortInv'
  <2>1. CanExec /\ pc' = "settle" /\ run' = run /\ UNCHANGED <<now, carry>>
    BY <1>8 DEF ExecSettle
  <2>2. /\ run.residual = 0 /\ Consumed >= 0 /\ (run.who = ARM9 => Consumed < Budget9For(run.slice))
    BY <2>1, ExecRoom
  <2>3. Consumed' = Consumed
    BY <2>1 DEF Consumed
  <2>4. pc \in Running /\ pc' \in Running
    BY <2>1 DEF CanExec, Running
  <2> HIDE DEF Consumed
  <2> QED BY <1>n, <1>t, <2>1, <2>2, <2>3, <2>4, Spends
<1>9. ASSUME NEW d \in Delays \cup {0}, SettleFire(d) PROVE SpendInv' /\ ShortInv'
  <2>1. pc = "settle" /\ pc' = "settle" /\ UNCHANGED <<now, carry>>
    BY <1>9 DEF SettleFire
  <2>2. PICK when \in Times : run' = run \/ run' = cut_arm9_at(run, when)
    BY <1>9, InfAssumption DEF SettleFire, Times
  <2>3. /\ run'.start <= run.start /\ run'.start - run'.budget = run.start - run.budget
        /\ run'.residual = run.residual /\ run'.base = run.base /\ run'.slice = run.slice
        /\ run'.who = run.who /\ run'.ran9 = run.ran9
    BY <2>2, <1>n, CutSpends
  <2>4. Consumed' = Consumed
    BY <2>3, <1>n, <1>r DEF Consumed, RunType
  <2>5. run.residual = 0 /\ pc \in Running /\ pc' \in Running
    BY <2>1 DEF SpendInv, Running
  <2>6. Consumed >= 0 /\ (Dsi /\ run.slice > 1 /\ run.who = ARM9 => Consumed < Budget9For(run.slice))
    BY <2>1, <2>5 DEF SpendInv, ShortInv
  <2> HIDE DEF Consumed
  <2> QED BY <1>n, <1>t, <2>1, <2>3, <2>4, <2>5, <2>6, Spends
<1>10. ASSUME NEW c \in 1..MaxCost, SettleDone(c) PROVE SpendInv' /\ ShortInv'
  <2>1. /\ pc = "settle" /\ pc' = "exec" /\ UNCHANGED <<now, carry>>
        /\ run'.budget = run.budget - c /\ run'.residual = run.residual
        /\ run'.start = run.start /\ run'.base = run.base /\ run'.slice = run.slice
        /\ run'.who = run.who /\ run'.ran9 = run.ran9
    BY <1>10, <1>r DEF SettleDone, RunType
  <2>2. Consumed' = Consumed + c
    BY <2>1, <1>n DEF Consumed
  <2>3. run.residual = 0 /\ pc \in Running /\ pc' \in Running
    BY <2>1 DEF SpendInv, Running
  <2>4. Consumed >= 0 /\ (Dsi /\ run.slice > 1 /\ run.who = ARM9 => Consumed < Budget9For(run.slice))
    BY <2>1, <2>3 DEF SpendInv, ShortInv
  <2> HIDE DEF Consumed
  <2> QED BY <1>n, <1>t, <2>1, <2>2, <2>3, <2>4, Spends
<1>11. CASE BeginSlice
  <2>a. PICK skip \in SUBSET Cpus, idle \in BOOLEAN : \E slice \in SliceChoices(skip, idle) :
          run' = [NoRun EXCEPT !.who = ARM9, !.budget = Budget9For(slice), !.start = Budget9For(slice),
                               !.base = now, !.slice = slice, !.end = now + slice, !.skip = skip]
    BY <1>11 DEF BeginSlice
  <2>1. PICK slice \in SliceChoices(skip, idle) :
          run' = [NoRun EXCEPT !.who = ARM9, !.budget = Budget9For(slice), !.start = Budget9For(slice),
                               !.base = now, !.slice = slice, !.end = now + slice, !.skip = skip]
    BY <2>a
  <2>2. /\ run'.who = ARM9 /\ run'.budget = Budget9For(slice) /\ run'.start = Budget9For(slice)
        /\ run'.base = now /\ run'.slice = slice /\ run'.residual = 0 /\ run'.ran9 = 0
    BY <2>1 DEF NoRun
  <2>3. pc' = "cpu" /\ UNCHANGED <<now, carry>>
    BY <1>11 DEF BeginSlice
  <2>4. slice \in Nat
    BY <1>r, <2>2 DEF RunType
  <2>5. Dsi => slice <= Quantum + Margin
    <3> SUFFICES ASSUME Dsi PROVE slice <= Quantum + Margin
      OBVIOUS
    <3>1. MinOf(ev.next, until.at) \in Int /\ now \in Int
      BY InfAssumption DEF TypeOK, Table, MinOf
    <3>2. ASSUME NEW b \in BOOLEAN PROVE SliceLength(b) \in Nat /\ SliceLength(b) <= Quantum + Margin
      BY <3>1, <1>n DEF SliceLength, MaxOf
    <3>3. CASE slice = SliceLength(idle) \/ slice = SliceLength(FALSE)
      BY <3>2, <3>3
    <3>4. CASE slice \in 1..SliceLength(FALSE)
      <4>1. SliceLength(FALSE) \in Nat /\ SliceLength(FALSE) <= Quantum + Margin
        BY <3>2
      <4>2. ASSUME NEW m \in Nat, m <= Quantum + Margin, slice \in 1..m PROVE slice <= Quantum + Margin
        BY <4>2, <1>n
      <4> QED BY <3>4, <4>1, <4>2, Zenon
    <3> QED BY <2>1, <3>3, <3>4 DEF SliceChoices
  <2>6. Budget9For(slice) \in Int /\ (slice > 1 => Budget9For(slice) > 0)
    <3>1. PerTick9 \in {1, 2}
      BY DEF PerTick9
    <3>2. carry \in Int /\ carry <= 2 * PerTick9 - 1
      BY <3>1 DEF TypeOK, PartOfACycle
    <3>3. CASE PerTick9 = 1
      BY <3>2, <3>3, <2>4 DEF Budget9For
    <3>4. CASE PerTick9 = 2
      BY <3>2, <3>4, <2>4 DEF Budget9For
    <3> QED BY <3>1, <3>3, <3>4
  <2>7. Budget9For(run.slice)' = Budget9For(slice)
    BY <2>2, <2>3 DEF Budget9For
  <2>8. Consumed' = 0
    BY <2>2, <2>6 DEF Consumed
  <2> HIDE DEF Consumed
  <2>9. SpendInv'
    BY <2>2, <2>3, <2>5, <2>6, <2>7, <2>8 DEF SpendInv, Cpus
  <2>10. ShortInv'
    BY <1>n, <2>2, <2>3, <2>6, <2>7, <2>8 DEF ShortInv
  <2> QED BY <2>9, <2>10
<1>12. CASE EnterCpu
  <2>1. /\ pc = "cpu" /\ pc' \in {"done", "exec"} /\ run' = run /\ UNCHANGED <<now, carry>>
    BY <1>12 DEF EnterCpu
  <2>2. Consumed' = Consumed
    BY <2>1 DEF Consumed
  <2>3. run.residual = 0 /\ pc \in Running /\ pc' \in Running
    BY <2>1 DEF SpendInv, Running
  <2>4. Consumed >= 0 /\ (Dsi /\ run.slice > 1 /\ run.who = ARM9 => Consumed < Budget9For(run.slice) + MaxCost)
    BY <2>3 DEF SpendInv, ShortInv
  <2> HIDE DEF Consumed
  <2> QED BY <1>n, <1>t, <2>1, <2>2, <2>3, <2>4, Spends
<1>13. CASE RunReturns
  <2>1. pc = "exec" /\ pc' \in {"done", "cpu"} /\ UNCHANGED <<now, carry>> /\ pc \in Running /\ pc' \in Running
    BY <1>13 DEF RunReturns, Running
  <2>2. Consumed >= 0 /\ (Dsi /\ run.slice > 1 /\ run.who = ARM9 => Consumed < Budget9For(run.slice) + MaxCost)
    BY <2>1 DEF SpendInv, ShortInv
  <2>3. CASE run.residual = 0
    <3>1. run' = run /\ pc' = "done"
      BY <1>13, <2>3 DEF RunReturns
    <3>2. Consumed' = Consumed
      BY <3>1 DEF Consumed
    <3> HIDE DEF Consumed
    <3> QED BY <1>n, <1>t, <2>1, <2>2, <2>3, <3>1, <3>2, Spends
  <2>4. CASE run.residual # 0
    <3> DEFINE over == IF Dsi /\ ~run.yielded THEN MaxOf(run.budget, 0) ELSE run.budget
               left == over + run.residual
    <3>1. /\ run'.budget = left /\ run'.residual = 0 /\ run'.start = run.start
          /\ run'.base = run.base /\ run'.slice = run.slice
          /\ run'.who = run.who /\ run'.ran9 = run.ran9
      BY <1>13, <2>4, <1>r DEF RunReturns, RunType
    <3>2. pc' = "cpu" => left > 0
      <4>1. left \in Int
        BY <1>n DEF MaxOf
      <4>2. pc' = "cpu" => ~(left <= 0)
        BY <1>13, <2>4 DEF RunReturns
      <4> QED BY <4>1, <4>2
    <3>3. run.budget < 0 /\ 0 < run.residual /\ run.residual <= run.start
      BY <2>4 DEF SpendInv
    <3>4. over \in Int /\ run.budget <= over /\ over <= 0
      BY <1>n, <3>3 DEF MaxOf
    <3> HIDE DEF over
    <3>5. Consumed' >= 0 /\ Consumed' <= Consumed /\ Consumed' \in Int
      BY <1>n, <3>1, <3>3, <3>4 DEF Consumed
    <3> HIDE DEF Consumed
    <3>6. Dsi /\ run.slice > 1 /\ run.who = ARM9 => Consumed' < Budget9For(run.slice) + MaxCost
      BY <1>n, <2>2, <3>5
    <3> QED BY <1>n, <1>t, <2>1, <3>1, <3>2, <3>5, <3>6, Spends
  <2> QED BY <2>3, <2>4
<1>14. ASSUME NEW used \in 0..(Quantum * 2 + MaxCost), NEW more \in BOOLEAN, RunDma(used, more)
       PROVE  SpendInv' /\ ShortInv'
  <2>1. /\ pc = "cpu" /\ pc' \in {"done", "cpu", "exec"} /\ UNCHANGED <<now, carry>>
        /\ pc \in Running /\ pc' \in Running
    BY <1>14 DEF RunDma, Running
  <2>2. /\ run'.start <= run.start /\ run'.start - run'.budget = run.start - run.budget + used
        /\ run'.residual = run.residual /\ run'.base = run.base /\ run'.slice = run.slice
        /\ run'.who = run.who /\ run'.ran9 = run.ran9
    <3>1. CASE run' = [run EXCEPT !.budget = @ - used, !.dmaIter = DmaIterates(used)]
      BY <3>1, <1>r, <1>n DEF RunType
    <3>2. CASE \E d \in Delays :
                 /\ LocalNow + d \in Times
                 /\ run' = [cut_arm9_at(run, LocalNow + d) EXCEPT !.budget = @ - used, !.dmaIter = DmaIterates(used)]
      <4>1. PICK d \in Delays :
                 /\ LocalNow + d \in Times
                 /\ run' = [cut_arm9_at(run, LocalNow + d) EXCEPT !.budget = @ - used, !.dmaIter = DmaIterates(used)]
        BY <3>2
      <4> DEFINE r == cut_arm9_at(run, LocalNow + d)
      <4>2. /\ r \in RunType /\ r.start <= run.start /\ r.start - r.budget = run.start - run.budget
            /\ r.residual = run.residual /\ r.base = run.base /\ r.slice = run.slice
            /\ r.who = run.who /\ r.ran9 = run.ran9
        BY <4>1, CutSpends
      <4>3. run' = [r EXCEPT !.budget = @ - used, !.dmaIter = DmaIterates(used)]
        BY <4>1
      <4> HIDE DEF r
      <4>4. /\ run'.start = r.start /\ run'.budget = r.budget - used /\ run'.residual = r.residual
            /\ run'.base = r.base /\ run'.slice = r.slice /\ run'.who = r.who /\ run'.ran9 = r.ran9
        BY <4>2, <4>3 DEF RunType
      <4> QED BY <1>n, <4>2, <4>4 DEF RunType
    <3> QED BY <1>14, <3>1, <3>2 DEF RunDma
  <2>4. run.residual = 0
    BY <2>1 DEF SpendInv
  <2>5. run'.start \in Int /\ run'.budget \in Int /\ used \in Int /\ used >= 0
    BY <1>r, <1>n DEF RunType
  <2>6. Consumed' = Consumed + used
    BY <1>n, <2>2, <2>4, <2>5 DEF Consumed
  <2>7. Consumed >= 0 /\ Consumed = run.start - run.budget
    BY <1>n, <2>1, <2>4 DEF SpendInv, Consumed
  <2>8. pc' = "cpu" => run'.budget > 0
    BY <1>14 DEF RunDma
  <2> HIDE DEF Consumed
  <2>9. Dsi /\ run.slice > 1 /\ run.who = ARM9 => Consumed' < Budget9For(run.slice) + MaxCost
    <3> SUFFICES ASSUME Dsi, run.slice > 1, run.who = ARM9 PROVE Consumed' < Budget9For(run.slice) + MaxCost
      OBVIOUS
    <3>1. run.budget > 0 /\ run.start <= Budget9For(run.slice)
      BY <2>1 DEF SpendInv, ShortInv
    <3>2. used <= run.budget + MaxCost - 1
      <4>1. used \in 1..(run.budget + MaxCost - 1)
        BY <1>14, <3>1 DEF RunDma
      <4> QED BY <4>1, <1>n
    <3> QED BY <1>n, <2>5, <2>6, <2>7, <3>1, <3>2
  <2> QED BY <1>n, <1>t, <2>1, <2>2, <2>4, <2>5, <2>6, <2>7, <2>8, <2>9, Spends
<1>15. CASE Arm9Done
  <2> DEFINE full  == (cpu[ARM9].halted \/ ARM9 \in run.skip) /\ ~run.dmaIter
             used  == run.start - run.budget
             ticks == IF full THEN run.slice ELSE Ticks9(used)
             ran9  == IF ticks > 0 THEN ticks ELSE IF run.dmaIter THEN 0 ELSE 1
             b7    == Half(debt + ran9)
             base7 == IF Dsi THEN now + ran9 - (debt + ran9) ELSE now
             who7  == IF b7 > 0 THEN ARM7 ELSE 0
  <2>1. pc = "done" /\ run.who = ARM9 /\ pc \in Running
    BY <1>15 DEF Arm9Done, Running
  <2>a. /\ run' = [run EXCEPT !.who = who7, !.ran9 = ran9, !.base = base7,
                              !.budget = b7, !.start = b7, !.dmaIter = FALSE]
        /\ pc' = IF b7 > 0 THEN "cpu" ELSE "sliceEnd"
    BY <1>15, Zenon DEF Arm9Done
  <2> HIDE DEF ran9, b7, base7, who7
  <2>b. /\ run'.who = who7 /\ run'.ran9 = ran9 /\ run'.budget = b7 /\ run'.start = b7
        /\ run'.residual = run.residual /\ run'.slice = run.slice
    BY <2>a, <1>r DEF RunType
  <2>2. /\ run'.who = (IF b7 > 0 THEN ARM7 ELSE 0) /\ run'.ran9 = ran9
        /\ run'.budget = b7 /\ run'.start = b7 /\ run'.residual = run.residual /\ run'.slice = run.slice
        /\ pc' = (IF b7 > 0 THEN "cpu" ELSE "sliceEnd")
    BY <2>a, <2>b DEF who7
  <2>3. run.residual = 0 /\ b7 \in Int
    BY <2>1, <2>2, <1>r DEF SpendInv, RunType
  <2>4. Dsi /\ run.slice > 1 => ran9 < Quantum + Margin + MaxCost
    <3> SUFFICES ASSUME Dsi, run.slice > 1 PROVE ran9 < Quantum + Margin + MaxCost
      OBVIOUS
    <3>1. run.slice <= Quantum + Margin
      BY DEF SpendInv
    <3>2. used \in Int /\ used >= 0 /\ used < Budget9For(run.slice) + MaxCost
      BY <1>n, <2>1, <2>3 DEF SpendInv, ShortInv, Consumed
    <3>3. PerTick9 \in {1, 2} /\ carry \in Int /\ carry >= 0
      <4>1. PerTick9 \in {1, 2}
        BY DEF PerTick9
      <4> QED BY <4>1 DEF TypeOK, PartOfACycle
    <3> HIDE DEF used
    <3>4. Ticks9(used) \in Int /\ Ticks9(used) < run.slice + MaxCost
      <4>1. CASE PerTick9 = 1
        <5>1. carry + used < run.slice + MaxCost /\ carry + used \in Nat
          BY <1>n, <3>2, <3>3, <4>1 DEF Budget9For
        <5>2. (carry + used) \div 2 \in Int /\ 2 * ((carry + used) \div 2) <= carry + used
          BY <5>1
        <5>3. Ticks9(used) = 2 * ((carry + used) \div 2)
          BY <4>1 DEF Ticks9, Sys9
        <5> QED BY <1>n, <3>2, <3>3, <5>1, <5>2, <5>3
      <4>2. CASE PerTick9 = 2
        <5>1. carry + used < run.slice * 2 + MaxCost /\ carry + used \in Nat
          BY <1>n, <3>2, <3>3, <4>2 DEF Budget9For
        <5>2. (carry + used) \div 4 \in Int /\ 4 * ((carry + used) \div 4) <= carry + used
          BY <5>1
        <5>3. Ticks9(used) = 2 * ((carry + used) \div 4)
          BY <4>2 DEF Ticks9, Sys9
        <5> QED BY <1>n, <3>2, <3>3, <5>1, <5>2, <5>3
      <4> QED BY <3>3, <4>1, <4>2
    <3>5. ticks \in Int /\ ticks < Quantum + Margin + MaxCost
      BY <1>n, <3>1, <3>4
    <3> HIDE DEF ticks
    <3> QED BY <1>n, <3>5 DEF ran9
  <2>5. Consumed' = 0
    BY <2>2, <2>3 DEF Consumed
  <2>6. run'.who # ARM9
    BY <2>2 DEF ARM9, ARM7
  <2>7. pc' \in Running => run'.who = ARM7
    BY <2>2, <2>3 DEF Running
  <2> HIDE DEF Consumed
  <2>8. SpendInv'
    BY <2>2, <2>3, <2>5, <2>6, <2>7 DEF SpendInv, Cpus
  <2>9. ShortInv'
    BY <2>2, <2>4, <2>6 DEF ShortInv
  <2> QED BY <2>8, <2>9
<1>16. CASE Arm7Done
  <2>1. /\ pc = "done" /\ pc' = "sliceEnd" /\ run'.residual = run.residual
        /\ run'.slice = run.slice /\ run'.ran9 = run.ran9
    BY <1>16, <1>r DEF Arm7Done, RunType
  <2>2. run.residual = 0
    BY <2>1 DEF SpendInv
  <2> QED BY <2>1, <2>2 DEF SpendInv, ShortInv, Running
<1>17. CASE SliceEnd
  <2>1. run' = NoRun /\ pc' = "fire"
    BY <1>17 DEF SliceEnd
  <2> QED BY <2>1, <1>n DEF NoRun, SpendInv, ShortInv, Running
<1>18. CASE UNCHANGED vars
  BY <1>18 DEF vars, SpendInv, ShortInv, Consumed, Budget9For
<1> QED
  BY <1>1, <1>2, <1>3, <1>4, <1>5, <1>6, <1>7, <1>8, <1>9, <1>10, <1>11, <1>12, <1>13, <1>14, <1>15,
     <1>16, <1>17, <1>18 DEF Next, Instruction, SliceLoop
\* settle deals with one event.
OneSettled == pc = "settle" => \A i, j \in walk : i = j

\* Every step keeps settle to one event.
LEMMA SettledStep == OneSettled /\ [Next]_vars => OneSettled'
<1> SUFFICES ASSUME OneSettled, [Next]_vars PROVE OneSettled'
  OBVIOUS
<1>1. ASSUME pc' # "settle" PROVE OneSettled'
  BY <1>1 DEF OneSettled
<1>2. CASE FireDue \/ Handler \/ RunUntil \/ Reset \/ SaveAndLoad
  BY <1>2, <1>1 DEF FireDue, BeginPass, FireDone, Fire, PassOver, EndPass, HandlerDone,
       Handler, HandlerSchedule, HandlerCancel, HandlerSignal, RunUntil, Reset, SaveAndLoad
<1>3. ASSUME NEW c \in 1..MaxCost,
             Exec(c) \/ ExecStartDma(c) \/ ExecYield(c) \/ ExecHalt(c) \/ SettleDone(c)
               \/ \E i \in Ids : ExecCancel(i, c) \/ \E d \in Delays : ExecSchedule(i, d, c)
      PROVE  OneSettled'
  BY <1>3, <1>1 DEF Exec, ExecStartDma, ExecYield, ExecHalt, SettleDone, ExecCancel, ExecSchedule, CanExec
<1>4. ASSUME NEW i \in Ids, ExecSettle(i) PROVE OneSettled'
  BY <1>4 DEF ExecSettle, OneSettled
<1>5. ASSUME NEW d \in Delays \cup {0}, SettleFire(d) PROVE OneSettled'
  BY <1>5 DEF SettleFire, OneSettled
<1>6. ASSUME SliceLoop PROVE OneSettled'
  <2>1. pc' # "settle"
    BY <1>6 DEF SliceLoop, Return, BeginSlice, EnterCpu, RunReturns, RunDma, Arm9Done, Arm7Done, SliceEnd
  <2> QED BY <2>1, <1>1
<1>7. CASE UNCHANGED vars
  BY <1>7 DEF vars, OneSettled
<1> QED BY <1>2, <1>3, <1>4, <1>5, <1>6, <1>7 DEF Next, Instruction

\* Every armed deadline lies after time x.
After(t, x) == \A i \in t.armed : t.at[i] > x

\* schedule arms its event at its time and touches no other; cancel arms none.
LEMMA ArmsOnly ==
  ASSUME NEW t \in Table, NEW i \in Ids, NEW x \in Int, After(t, x)
  PROVE  /\ \A when \in Times : when > x => After(schedule(t, i, when), x)
         /\ After(cancel(t, i), x)
<1>1. ASSUME NEW when \in Times, when > x PROVE After(schedule(t, i, when), x)
  <2> DEFINE put == [t EXCEPT !.armed = @ \cup {i}, !.at[i] = when]
             s   == schedule(t, i, when)
  <2>1. put \in Table /\ put.armed = t.armed \cup {i} /\ put.at = [t.at EXCEPT ![i] = when]
    BY DEF Table
  <2>2. s = [put EXCEPT !.next = when, !.nextId = i] \/ s = rescan(put) \/ s = put
    BY DEF schedule
  <2> HIDE DEF put, s
  <2>3. s.armed = put.armed /\ s.at = put.at
    <3>1. ASSUME s = [put EXCEPT !.next = when, !.nextId = i] PROVE s.armed = put.armed /\ s.at = put.at
      BY <2>1, <3>1 DEF Table
    <3>2. ASSUME s = rescan(put) PROVE s.armed = put.armed /\ s.at = put.at
      BY <2>1, <3>2, RescanExact
    <3> QED BY <2>2, <3>1, <3>2
  <2>4. t.at \in [Ids -> Times] /\ t.armed \subseteq Ids
    BY DEF Table
  <2>5. ASSUME NEW j \in s.armed PROVE s.at[j] > x
    BY <2>1, <2>3, <2>4, <1>1 DEF After
  <2> QED BY <2>5 DEF After, s
<1>2. After(cancel(t, i), x)
  <2>1. disarm(t, i) \in Table /\ disarm(t, i).at = t.at /\ disarm(t, i).armed \subseteq t.armed
    BY DEF disarm, Table
  <2>2. cancel(t, i).armed \subseteq t.armed /\ cancel(t, i).at = t.at
    BY <2>1, RescanExact DEF cancel
  <2> QED BY <2>2 DEF After
<1> QED BY <1>1, <1>2

\* Every step of a slice keeps the deadlines ahead of the clocks it began with.
LEMMA AheadStep ==
  TypeOK /\ TableInv /\ SpendInv /\ OneSettled /\ DeadlinesAhead /\ [Next]_vars => DeadlinesAhead'
<1> SUFFICES ASSUME TypeOK, TableInv, SpendInv, OneSettled, DeadlinesAhead, [Next]_vars PROVE DeadlinesAhead'
  OBVIOUS
<1> DEFINE low == MinOf(now, run.base)
<1>t. run \in RunType /\ ev \in Table /\ now \in Int /\ walk \subseteq Ids
  BY DEF TypeOK, RunType
<1>l. low \in Int /\ low <= run.base /\ low <= now
  BY <1>t DEF MinOf, RunType
<1>a. pc \in Running \cup {"sliceEnd"} => After(ev, low)
  BY DEF DeadlinesAhead, After
<1> HIDE DEF low
\* A step that ends outside the slice.
<1>o. ASSUME pc' \notin Running \cup {"sliceEnd"} PROVE DeadlinesAhead'
  BY <1>o DEF DeadlinesAhead
\* A step in the slice that moves neither clock.
<1>k. ASSUME After(ev', low), now' = now, run'.base = run.base PROVE DeadlinesAhead'
  BY <1>k DEF DeadlinesAhead, After, low
\* A CPU arms its event ahead of its own clock.
<1>s. ASSUME NEW d \in Delays, pc \in Running, LocalNow + d \in Times PROVE LocalNow + d > low
  <2>1. LocalNow \in Int /\ LocalNow >= run.base
    BY <1>s, ClockAhead
  <2>2. d \in Int /\ d >= 1 /\ run.base \in Int
    BY BoundsAssumption, InfAssumption, <1>t DEF RunType
  <2> QED BY <2>1, <2>2, <1>l
<1>1. CASE FireDue
  BY <1>1, <1>o DEF FireDue, BeginPass, FireDone, Fire, PassOver, EndPass, HandlerDone, Running
<1>2. CASE Handler
  BY <1>2, <1>o DEF Handler, HandlerSchedule, HandlerCancel, HandlerSignal, Running
<1>3. CASE RunUntil \/ Reset \/ SaveAndLoad \/ Return \/ SliceEnd
  BY <1>3, <1>o DEF RunUntil, Reset, SaveAndLoad, Return, SliceEnd, Running
<1>4. ASSUME NEW c \in 1..MaxCost, Exec(c) \/ ExecStartDma(c) \/ ExecYield(c) \/ ExecHalt(c) \/ SettleDone(c)
      PROVE  DeadlinesAhead'
  <2>1. ev' = ev /\ now' = now /\ run'.base = run.base /\ pc \in Running
    BY <1>4, <1>t DEF Exec, ExecStartDma, ExecYield, ExecHalt, SettleDone, CanExec, RunType, Running
  <2> QED BY <2>1, <1>a, <1>k
<1>5. ASSUME NEW i \in Ids, NEW c \in 1..MaxCost, ExecCancel(i, c) PROVE DeadlinesAhead'
  <2>1. ev' = cancel(ev, i) /\ now' = now /\ run'.base = run.base /\ pc \in Running
    BY <1>5, <1>t DEF ExecCancel, CanExec, RunType, Running
  <2>2. After(cancel(ev, i), low)
    BY <2>1, <1>a, <1>t, <1>l, ArmsOnly
  <2> QED BY <2>1, <2>2, <1>k
<1>6. ASSUME NEW i \in Ids, NEW c \in 1..MaxCost, NEW d \in Delays, ExecSchedule(i, d, c)
      PROVE  DeadlinesAhead'
  <2> DEFINE r == cut_arm9_at(run, LocalNow + d)
  <2>1. /\ LocalNow + d \in Times /\ ev' = schedule(ev, i, LocalNow + d) /\ now' = now /\ pc \in Running
        /\ run' = [r EXCEPT !.budget = @ - c]
    BY <1>6 DEF ExecSchedule, CanExec, Running
  <2>2. r \in RunType /\ r.base = run.base
    BY <2>1, CutSpends
  <2> HIDE DEF r
  <2>3. run'.base = run.base
    BY <2>1, <2>2 DEF RunType
  <2>4. LocalNow + d > low
    BY <2>1, <1>s
  <2>5. After(schedule(ev, i, LocalNow + d), low)
    BY <2>1, <2>4, <1>a, <1>t, <1>l, ArmsOnly
  <2> QED BY <2>1, <2>3, <2>5, <1>k
<1>7. ASSUME NEW i \in Ids, ExecSettle(i) PROVE DeadlinesAhead'
  <2>1. ev' = ev /\ now' = now /\ run' = run /\ pc \in Running
    BY <1>7 DEF ExecSettle, CanExec, Running
  <2> QED BY <2>1, <1>a, <1>k
<1>8. ASSUME NEW d \in Delays \cup {0}, SettleFire(d) PROVE DeadlinesAhead'
  <2>1. now' = now /\ pc = "settle" /\ pc \in Running /\ SettleDue
    BY <1>8 DEF SettleFire, Running
  <2>2. PICK i \in walk :
          IF d = 0 THEN ev' = cancel(ev, i) /\ UNCHANGED run
          ELSE /\ ev.at[i] + d \in Times
               /\ ev' = schedule(cancel(ev, i), i, ev.at[i] + d)
               /\ run' = cut_arm9_at(run, ev.at[i] + d)
    BY <1>8 DEF SettleFire
  <2>3. i \in Ids /\ After(ev, low)
    BY <2>1, <2>2, <1>a, <1>t
  <2>4. After(cancel(ev, i), low) /\ cancel(ev, i) \in Table
    BY <2>3, <1>t, <1>l, ArmsOnly, CancelKeeps DEF TypeOK
  <2>5. CASE d = 0
    BY <2>1, <2>2, <2>4, <2>5, <1>k
  <2>6. CASE d # 0
    <3>1. ev.at[i] + d \in Times /\ ev' = schedule(cancel(ev, i), i, ev.at[i] + d)
          /\ run' = cut_arm9_at(run, ev.at[i] + d)
      BY <2>2, <2>6
    <3>2. run'.base = run.base
      BY <3>1, CutSpends
    <3>3. i \in ev.armed
      BY <2>1, <2>2 DEF SettleDue, OneSettled
    <3>4. ev.at[i] > low /\ ev.at[i] \in Int /\ d \in Int /\ d >= 1
      BY <2>3, <2>6, <3>3, <1>t, BoundsAssumption, InfAssumption DEF After, Table, Times
    <3>5. ev.at[i] + d > low
      BY <3>4, <1>l
    <3>6. After(schedule(cancel(ev, i), i, ev.at[i] + d), low)
      BY <2>3, <2>4, <3>1, <3>5, <1>l, ArmsOnly
    <3> QED BY <2>1, <3>1, <3>2, <3>6, <1>k
  <2> QED BY <2>5, <2>6
<1>9. CASE BeginSlice
  <2>1. /\ pc = "begin" /\ ev' = ev /\ now' = now
    BY <1>9 DEF BeginSlice
  <2>2. run'.base = now
    BY <1>9 DEF BeginSlice, NoRun
  <2>3. ev.next > now /\ CacheExact(ev)
    BY <2>1 DEF TableInv
  <2>4. ASSUME NEW i \in ev.armed PROVE ev.at[i] > now
    <3>1. ev.next <= ev.at[i]
      BY <2>3 DEF CacheExact
    <3>2. ev.next \in Int /\ ev.at[i] \in Int
      BY <1>t, InfAssumption DEF Table, Times
    <3> QED BY <2>3, <3>1, <3>2, <1>t
  <2> QED BY <2>1, <2>2, <2>4 DEF DeadlinesAhead, MinOf
<1>10. CASE EnterCpu \/ RunReturns \/ Arm7Done
  <2>1. ev' = ev /\ now' = now /\ pc \in Running
    BY <1>10 DEF EnterCpu, RunReturns, Arm7Done, Running
  <2>2. run'.base = run.base
    BY <1>10, <1>t DEF EnterCpu, RunReturns, Arm7Done, RunType
  <2> QED BY <2>1, <2>2, <1>a, <1>k
<1>11. ASSUME NEW used \in 0..(Quantum * 2 + MaxCost), NEW more \in BOOLEAN, RunDma(used, more)
       PROVE  DeadlinesAhead'
  <2>1. now' = now /\ pc \in Running
    BY <1>11 DEF RunDma, Running
  <2>2. CASE ev' = ev /\ run' = [run EXCEPT !.budget = @ - used, !.dmaIter = DmaIterates(used)]
    <3>1. run'.base = run.base
      BY <2>2, <1>t DEF RunType
    <3> QED BY <2>1, <2>2, <3>1, <1>a, <1>k
  <2>3. CASE \E i \in Ids, d \in Delays :
               /\ LocalNow + d \in Times
               /\ ev' = schedule(ev, i, LocalNow + d)
               /\ run' = [cut_arm9_at(run, LocalNow + d) EXCEPT !.budget = @ - used, !.dmaIter = DmaIterates(used)]
    <3>1. PICK i \in Ids, d \in Delays :
               /\ LocalNow + d \in Times
               /\ ev' = schedule(ev, i, LocalNow + d)
               /\ run' = [cut_arm9_at(run, LocalNow + d) EXCEPT !.budget = @ - used, !.dmaIter = DmaIterates(used)]
      BY <2>3
    <3> DEFINE r == cut_arm9_at(run, LocalNow + d)
    <3>2. r \in RunType /\ r.base = run.base
      BY <3>1, CutSpends
    <3>3. run' = [r EXCEPT !.budget = @ - used, !.dmaIter = DmaIterates(used)]
      BY <3>1
    <3> HIDE DEF r
    <3>4. run'.base = run.base
      BY <3>2, <3>3 DEF RunType
    <3>5. LocalNow + d > low
      BY <2>1, <3>1, <1>s
    <3>6. After(schedule(ev, i, LocalNow + d), low)
      BY <2>1, <3>1, <3>5, <1>a, <1>t, <1>l, ArmsOnly
    <3> QED BY <2>1, <3>1, <3>4, <3>6, <1>k
  <2> QED BY <1>11, <2>2, <2>3 DEF RunDma
\* The ARM7 starts from its own clock, which may be behind the ARM9's.
<1>12. CASE Arm9Done
  <2>1. ev' = ev /\ now' = now /\ pc = "done" /\ run.who = ARM9 /\ pc \in Running
    BY <1>12 DEF Arm9Done, Running
  <2>2. run.base = now
    BY <2>1 DEF SpendInv
  <2>3. After(ev, now)
    BY <2>1, <2>2, <1>a DEF low, MinOf
  <2>4. TypeOK'
    BY TypeStep
  <2>5. MinOf(now, run'.base) \in Int /\ MinOf(now, run'.base) <= now
    BY <2>4, <1>t DEF TypeOK, MinOf
  <2>6. ASSUME NEW i \in ev.armed PROVE ev.at[i] > MinOf(now, run'.base)
    <3>1. ev.at[i] > now /\ ev.at[i] \in Int
      BY <2>3, <1>t, InfAssumption DEF After, Table, Times
    <3> QED BY <2>5, <3>1, <1>t
  <2> QED BY <2>1, <2>6 DEF DeadlinesAhead
<1>13. CASE UNCHANGED vars
  BY <1>13 DEF vars, DeadlinesAhead
<1> QED
  BY <1>1, <1>2, <1>3, <1>4, <1>5, <1>6, <1>7, <1>8, <1>9, <1>10, <1>11, <1>12, <1>13
     DEF Next, Instruction, SliceLoop

\* When a slice ends, every armed deadline is later than the earlier of the
\* slice's start and the time the ARM7 had reached by then, and a DSi slice of
\* more than a tick is no longer than the quantum, the margin and the rest of
\* an instruction: whatever CPUs, DMA and settle arm in mid-slice, however the
\* ARM9's target is cut, whoever yields, for every quantum, cost and delay.
THEOREM OnTime == Spec => []FiresOnTime
<1> DEFINE Inv == TypeOK /\ TableInv /\ SpendInv /\ ShortInv /\ OneSettled /\ DeadlinesAhead
<1>1. Init => Inv
  <2>1. Init => OneSettled /\ DeadlinesAhead
    BY DEF Init, OneSettled, DeadlinesAhead, Running
  <2> QED BY <2>1, TypeInit, TableInit, SpendInit
<1>2. Inv /\ [Next]_vars => Inv'
  BY TypeStep, TableStep, SpendStep, SettledStep, AheadStep
<1>3. Inv => FiresOnTime
  BY DEF FiresOnTime, ShortInv, DeadlinesAhead
<1> HIDE DEF Inv
<1> QED BY <1>1, <1>2, <1>3, PTL DEF Spec
=============================================================================

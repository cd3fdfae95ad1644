---------------------------- MODULE Lazy2dProofs ----------------------------
(***************************************************************************)
(* Lazy 2D rendering, for every frame size, limit and set of banks.        *)
(***************************************************************************)
EXTENDS Lazy2d, SequenceTheorems, WellFoundedInduction, NaturalsInduction, TLAPS

JEntry == [stamp : Nat, n : Nat, mode : {1, 2}, step : {0, 1}]
EngineState == [n : Nat, mode : {1, 2}, ordered : BOOLEAN]

\* The members of Gpu and their types; what was drawn in this step is any set.
Members(d) ==
  [line : 0..SCANLINES_PER_FRAME - 1, hblank : BOOLEAN, lazy : BOOLEAN, lag : BOOLEAN,
   finished : BOOLEAN, aborted : BOOLEAN, trap : BOOLEAN, mask : SUBSET Engines,
   lcdc : BOOLEAN, stores : Nat, per_line : [Engines -> BOOLEAN], burst : [Engines -> BOOLEAN],
   left : [Engines -> Int], bursts : [Engines -> Nat], next : [Engines -> Nat],
   inflight : [Engines -> BOOLEAN], job : [Engines -> Int \X Int],
   job_map : [Engines -> {<<>>} \cup [Banks -> Places]], deferred : [Engines -> BOOLEAN],
   scale : BOOLEAN, stale : BOOLEAN, journal : [Engines -> Seq(JEntry)], jn : [Engines -> Nat],
   eng : [Engines -> EngineState], drawn : {d}]
Typed(g) == g \in Members(g.drawn)

-----------------------------------------------------------------------------
(* The journal.                                                            *)

\* A journal that replay_to can cut: its stamps never fall.
Sorted(j) == \A i, k \in 1..Len(j) : i <= k => j[i].stamp <= j[k].stamp

\* Its entries follow on from the engine's state r, each a write or a latch.
Chained(r, j) == \A i \in 1..Len(j) : j[i].n = j[i].step + IF i = 1 THEN r.n ELSE j[i-1].n

\* It leads to the version nn and the display mode md.
LeadsTo(r, j, nn, md) == IF j = <<>> THEN r.n = nn /\ r.mode = md
                         ELSE j[Len(j)].n = nn /\ j[Len(j)].mode = md

\* An engine's state and its journal: stamps in lo..hi, nothing out of order.
Jrn(r, j, nn, md, lo, hi) ==
  /\ r \in EngineState /\ r.ordered /\ j \in Seq(JEntry)
  /\ \A i \in 1..Len(j) : lo <= j[i].stamp /\ j[i].stamp <= hi
  /\ Sorted(j) /\ Chained(r, j) /\ LeadsTo(r, j, nn, md)

\* The registers' version and display mode as of a stamp.
AtN(r, j, s) == LET k == Reach(j, s) IN IF k = 0 THEN r.n ELSE j[k].n
AtMode(r, j, s) == LET k == Reach(j, s) IN IF k = 0 THEN r.mode ELSE j[k].mode

\* The display modes to come.
ModeAt(r, j, i) == IF i = 0 THEN r.mode ELSE j[i].mode
Falling(r, j) == \A i, k \in 0..Len(j) : i < k /\ ModeAt(r, j, i) = 1 => ModeAt(r, j, k) = 1
Layers(r, j) == \A i \in 0..Len(j) : ModeAt(r, j, i) = 1

\* A set of numbers that is not empty has a least one.
LEMMA Least == ASSUME NEW T, T \subseteq Nat, T # {}
  PROVE \E x \in T : \A y \in T : x <= y
<1> DEFINE R == OpToRel(<, Nat)
<1>1. IsWellFoundedOn(R, Nat)
  BY NatLessThanWellFounded
<1>2. \A x, y \in Nat : y < x => <<y, x>> \in R
  BY DEF OpToRel
<1> HIDE DEF R
<1>3. PICK x \in T : \A y \in T : ~ (<<y, x>> \in R)
  BY <1>1, WFMin
<1>4. x \in Nat /\ \A y \in T : y \in Nat /\ ~(y < x)
  BY <1>2, <1>3
<1> QED
  BY <1>4

\* What an entry is.
LEMMA Entries == ASSUME NEW j \in Seq(JEntry)
  PROVE /\ DOMAIN j = 1..Len(j) /\ Len(j) \in Nat
        /\ \A i \in 1..Len(j) : /\ j[i] \in JEntry /\ j[i].stamp \in Nat /\ j[i].n \in Nat
                                /\ j[i].mode \in {1, 2} /\ j[i].step \in {0, 1}
<1>1. DOMAIN j = 1..Len(j) /\ Len(j) \in Nat /\ \A i \in 1..Len(j) : j[i] \in JEntry
  OBVIOUS
<1>2. \A x \in JEntry : x.stamp \in Nat /\ x.n \in Nat /\ x.mode \in {1, 2} /\ x.step \in {0, 1}
  BY DEF JEntry
<1> QED
  BY <1>1, <1>2

\* Reach counts the entries with a stamp up to s.
LEMMA ReachCounts == ASSUME NEW j \in Seq(JEntry), Sorted(j), NEW s \in Int
  PROVE /\ Reach(j, s) \in 0..Len(j)
        /\ \A i \in 1..Len(j) : i <= Reach(j, s) <=> j[i].stamp <= s
<1> DEFINE past == {i \in DOMAIN j : j[i].stamp > s}
<1>0. DOMAIN j = 1..Len(j) /\ Len(j) \in Nat /\ \A i \in 1..Len(j) : j[i].stamp \in Nat
  BY Entries
<1>1. CASE past = {}
  <2>1. Reach(j, s) = Len(j)
    BY <1>1 DEF Reach
  <2>2. \A i \in 1..Len(j) : j[i].stamp <= s
    BY <1>1, <1>0
  <2> QED
    BY <2>1, <2>2, <1>0
<1>2. CASE past # {}
  <2>1. past \subseteq Nat
    BY <1>0
  <2> DEFINE m == CHOOSE i \in past : \A k \in past : i <= k
  <2>2. m \in past /\ \A k \in past : m <= k
    BY <2>1, <1>2, Least
  <2>3. Reach(j, s) = m - 1
    BY <1>2 DEF Reach
  <2> HIDE DEF m
  <2>4. m \in 1..Len(j) /\ j[m].stamp > s
    BY <2>2, <1>0
  <2>5. \A i \in 1..Len(j) : i < m => j[i].stamp <= s
    BY <2>2, <1>0
  <2>6. \A i \in 1..Len(j) : m <= i => j[i].stamp > s
    BY <2>4, <1>0 DEF Sorted
  <2> QED
    BY <2>3, <2>4, <2>5, <2>6, <1>0
<1> QED
  BY <1>1, <1>2

\* Only one number does.
LEMMA ReachIs == ASSUME NEW j \in Seq(JEntry), Sorted(j), NEW s \in Int, NEW k \in 0..Len(j),
                        \A i \in 1..Len(j) : i <= k <=> j[i].stamp <= s
  PROVE Reach(j, s) = k
<1>1. /\ Reach(j, s) \in 0..Len(j)
      /\ \A i \in 1..Len(j) : i <= Reach(j, s) <=> j[i].stamp <= s
  BY ReachCounts
<1>2. ~(Reach(j, s) < k)
  <2> SUFFICES ASSUME Reach(j, s) < k PROVE FALSE
    OBVIOUS
  <2>1. k \in 1..Len(j)
    BY <1>1
  <2> QED
    BY <1>1, <2>1
<1>3. ~(k < Reach(j, s))
  <2> SUFFICES ASSUME k < Reach(j, s) PROVE FALSE
    OBVIOUS
  <2>1. Reach(j, s) \in 1..Len(j)
    BY <1>1
  <2> QED
    BY <1>1, <2>1
<1> QED
  BY <1>1, <1>2, <1>3

\* What is left of a journal after its first k entries, those up to stamp s0,
\* reads like the whole for every stamp from s0 on.
LEMMA Replayed == ASSUME NEW r \in EngineState, NEW j \in Seq(JEntry), Sorted(j), Chained(r, j), r.ordered,
                         NEW s0 \in Int
  PROVE LET k == Reach(j, s0)
            r2 == Applied(r, j, k)
            j2 == SubSeq(j, k + 1, Len(j))
        IN /\ r2 \in EngineState /\ r2.ordered
           /\ j2 \in Seq(JEntry) /\ Len(j2) = Len(j) - k /\ Sorted(j2) /\ Chained(r2, j2)
           /\ \A i \in 1..Len(j2) : j2[i] = j[k+i] /\ j2[i].stamp > s0
           /\ \A i \in 0..Len(j2) : ModeAt(r2, j2, i) = ModeAt(r, j, k + i)
           /\ \A nn, md : LeadsTo(r, j, nn, md) => LeadsTo(r2, j2, nn, md)
           /\ \A s \in Int : s >= s0 => /\ AtN(r2, j2, s) = AtN(r, j, s)
                                       /\ AtMode(r2, j2, s) = AtMode(r, j, s)
<1> DEFINE k == Reach(j, s0)
           r2 == Applied(r, j, k)
           j2 == SubSeq(j, k + 1, Len(j))
<1>0. k \in 0..Len(j) /\ \A i \in 1..Len(j) : i <= k <=> j[i].stamp <= s0
  BY ReachCounts
<1>1. /\ Len(j) \in Nat
      /\ \A i \in 1..Len(j) : /\ j[i] \in JEntry /\ j[i].stamp \in Nat /\ j[i].n \in Nat
                              /\ j[i].mode \in {1, 2} /\ j[i].step \in {0, 1}
  BY Entries
<1>2. /\ r2 \in EngineState /\ r2.ordered
      /\ r2.n = IF k = 0 THEN r.n ELSE j[k].n
      /\ r2.mode = IF k = 0 THEN r.mode ELSE j[k].mode
  <2>1. CASE k = 0
    BY <2>1 DEF Applied
  <2>2. CASE k # 0
    <3>1. \A i \in 1..k : j[i].n = j[i].step + IF i = 1 THEN r.n ELSE j[i-1].n
      BY <1>0, <1>1 DEF Chained
    <3> QED
      BY <2>2, <3>1, <1>0, <1>1 DEF Applied, EngineState
  <2> QED
    BY <2>1, <2>2
<1> HIDE DEF k, r2
<1>3. /\ j2 \in Seq(JEntry) /\ Len(j2) = Len(j) - k
      /\ \A i \in 1..Len(j) - k : j2[i] = j[k+i]
  <2>1. \A i \in k+1..Len(j) : j[i] \in JEntry
    BY <1>0, <1>1
  <2>2. /\ j2 \in Seq(JEntry) /\ Len(j2) = IF k + 1 <= Len(j) THEN Len(j) - (k + 1) + 1 ELSE 0
        /\ \A i \in 1..Len(j) - (k + 1) + 1 : j2[i] = j[k + 1 + i - 1]
    BY <2>1, <1>0, <1>1, SubSeqProperties
  <2> QED
    BY <2>2, <1>0, <1>1
<1> HIDE DEF j2
<1>4. \A i \in 1..Len(j2) : k + i \in 1..Len(j) /\ j2[i] = j[k+i] /\ j2[i].stamp > s0
  BY <1>0, <1>1, <1>3
<1>5. Sorted(j2)
  <2> SUFFICES ASSUME NEW a \in 1..Len(j2), NEW b \in 1..Len(j2), a <= b
               PROVE j2[a].stamp <= j2[b].stamp
    BY DEF Sorted
  <2>1. k + a \in 1..Len(j) /\ k + b \in 1..Len(j) /\ k + a <= k + b
    BY <1>4, <1>0, <1>3, <1>1
  <2>2. j[k+a].stamp <= j[k+b].stamp
    BY <2>1 DEF Sorted
  <2> QED
    BY <2>2, <1>4
<1>6. Chained(r2, j2)
  <2> SUFFICES ASSUME NEW i \in 1..Len(j2)
               PROVE j2[i].n = j2[i].step + IF i = 1 THEN r2.n ELSE j2[i-1].n
    BY DEF Chained
  <2>1. j2[i] = j[k+i] /\ k + i \in 1..Len(j)
    BY <1>4
  <2> DEFINE q == k + i
  <2>2. j[q].n = j[q].step + IF q = 1 THEN r.n ELSE j[q-1].n
    BY <2>1, Zenon DEF Chained
  <2>3. CASE i = 1
    BY <2>1, <2>2, <2>3, <1>0, <1>2, <1>1
  <2>4. CASE i # 1
    <3>1. i - 1 \in 1..Len(j) - k /\ k + (i - 1) = q - 1 /\ q # 1
      BY <1>0, <1>1, <1>3, <2>4
    <3>2. j2[i-1] = j[q-1]
      BY <3>1, <1>3
    <3> HIDE DEF q
    <3> QED
      BY <3>1, <3>2, <2>1, <2>2, <2>4 DEF q
  <2> QED
    BY <2>3, <2>4
<1>7. ASSUME NEW i \in 0..Len(j2) PROVE ModeAt(r2, j2, i) = ModeAt(r, j, k + i)
  <2>1. CASE i = 0
    BY <2>1, <1>0, <1>1, <1>2 DEF ModeAt
  <2>2. CASE i # 0
    <3>1. i \in 1..Len(j2) /\ k + i # 0
      BY <2>2, <1>0, <1>1, <1>3
    <3> QED
      BY <2>2, <3>1, <1>4 DEF ModeAt
  <2> QED
    BY <2>1, <2>2
<1>8. \A nn, md : LeadsTo(r, j, nn, md) => LeadsTo(r2, j2, nn, md)
  <2> SUFFICES ASSUME NEW nn, NEW md, LeadsTo(r, j, nn, md) PROVE LeadsTo(r2, j2, nn, md)
    OBVIOUS
  <2>1. CASE j2 = <<>>
    <3>1. k = Len(j)
      BY <2>1, <1>3, <1>0, <1>1
    <3>2. k = 0 <=> j = <<>>
      BY <3>1
    <3> QED
      BY <2>1, <3>1, <3>2, <1>2 DEF LeadsTo
  <2>2. CASE j2 # <<>>
    <3>1. Len(j2) \in 1..Len(j2) /\ j # <<>>
      BY <2>2, <1>3, <1>0, <1>1
    <3>2. j2[Len(j2)] = j[Len(j)]
      BY <3>1, <1>4, <1>3, <1>0, <1>1
    <3> QED
      BY <2>2, <3>1, <3>2 DEF LeadsTo
  <2> QED
    BY <2>1, <2>2
<1>9. ASSUME NEW s \in Int, s >= s0
      PROVE AtN(r2, j2, s) = AtN(r, j, s) /\ AtMode(r2, j2, s) = AtMode(r, j, s)
  <2> DEFINE m == Reach(j, s)
  <2>1. m \in 0..Len(j) /\ \A i \in 1..Len(j) : i <= m <=> j[i].stamp <= s
    BY ReachCounts
  <2> HIDE DEF m
  <2>2. k <= m
    <3> SUFFICES ASSUME m < k PROVE FALSE
      BY <2>1, <1>0
    <3>1. k \in 1..Len(j) /\ j[k].stamp <= s0
      BY <2>1, <1>0
    <3> QED
      BY <3>1, <2>1, <1>1, <1>9
  <2>3. Reach(j2, s) = m - k
    <3>1. m - k \in 0..Len(j2)
      BY <2>1, <2>2, <1>3, <1>0, <1>1
    <3>2. \A i \in 1..Len(j2) : i <= m - k <=> j2[i].stamp <= s
      BY <2>1, <1>4, <1>0, <1>3, <1>1
    <3> QED
      BY <3>1, <3>2, <1>3, <1>5, ReachIs
  <2>4. CASE m = k
    BY <2>3, <2>4, <1>2, <1>0 DEF AtN, AtMode, m
  <2>5. CASE m # k
    <3>1. m - k \in 1..Len(j2) /\ j2[m - k] = j[m] /\ m # 0
      BY <2>1, <2>2, <2>5, <1>3, <1>0, <1>1
    <3> QED
      BY <2>3, <3>1, <2>5 DEF AtN, AtMode, m
  <2> QED
    BY <2>4, <2>5
<1> QED
  BY <1>2, <1>3, <1>4, <1>5, <1>6, <1>7, <1>8, <1>9 DEF k, r2, j2

\* Appending an entry leaves the registers as they were for earlier stamps.
LEMMA Appended == ASSUME NEW r \in EngineState, NEW j \in Seq(JEntry), Sorted(j), Chained(r, j),
                         NEW x \in JEntry, \A i \in 1..Len(j) : j[i].stamp <= x.stamp,
                         NEW md, LeadsTo(r, j, x.n - x.step, md)
  PROVE LET j2 == Append(j, x)
        IN /\ j2 \in Seq(JEntry) /\ Len(j2) = Len(j) + 1 /\ j2[Len(j) + 1] = x
           /\ \A i \in 1..Len(j) : j2[i] = j[i]
           /\ Sorted(j2) /\ Chained(r, j2) /\ LeadsTo(r, j2, x.n, x.mode)
           /\ \A i \in 0..Len(j) : ModeAt(r, j2, i) = ModeAt(r, j, i)
           /\ \A s \in Int : s < x.stamp => /\ AtN(r, j2, s) = AtN(r, j, s)
                                           /\ AtMode(r, j2, s) = AtMode(r, j, s)
<1> DEFINE j2 == Append(j, x)
<1>1. /\ Len(j) \in Nat
      /\ \A i \in 1..Len(j) : /\ j[i] \in JEntry /\ j[i].stamp \in Nat /\ j[i].n \in Nat
                              /\ j[i].mode \in {1, 2} /\ j[i].step \in {0, 1}
  BY Entries
<1>2. x.stamp \in Nat /\ x.n \in Nat /\ x.step \in {0, 1}
  BY DEF JEntry
<1>3. /\ j2 \in Seq(JEntry) /\ Len(j2) = Len(j) + 1 /\ j2[Len(j) + 1] = x
      /\ \A i \in 1..Len(j) : j2[i] = j[i]
  BY AppendProperties
<1> HIDE DEF j2
<1>4. \A i \in 1..Len(j2) : i \in 1..Len(j) \/ i = Len(j) + 1
  BY <1>1, <1>3
<1>5. Sorted(j2)
  <2> SUFFICES ASSUME NEW a \in 1..Len(j2), NEW b \in 1..Len(j2), a <= b
               PROVE j2[a].stamp <= j2[b].stamp
    BY DEF Sorted
  <2>1. CASE b \in 1..Len(j)
    <3>1. a \in 1..Len(j)
      BY <2>1, <1>1
    <3>2. j[a].stamp <= j[b].stamp
      BY <3>1, <2>1 DEF Sorted
    <3> QED
      BY <3>1, <3>2, <2>1, <1>3
  <2>2. CASE b = Len(j) + 1
    <3>1. CASE a \in 1..Len(j)
      BY <3>1, <2>2, <1>3
    <3>2. CASE a = Len(j) + 1
      BY <3>2, <2>2, <1>3, <1>2
    <3> QED
      BY <3>1, <3>2, <1>4
  <2> QED
    BY <2>1, <2>2, <1>4
<1>6. x.n = x.step + IF Len(j) = 0 THEN r.n ELSE j[Len(j)].n
  <2>1. CASE Len(j) = 0
    <3>1. j = <<>>
      BY <2>1
    <3> QED
      BY <3>1, <2>1, <1>2 DEF LeadsTo
  <2>2. CASE Len(j) # 0
    <3>1. j # <<>> /\ Len(j) \in 1..Len(j)
      BY <2>2, <1>1
    <3>2. j[Len(j)].n = x.n - x.step
      BY <3>1 DEF LeadsTo
    <3> QED
      BY <3>2, <2>2, <1>2
  <2> QED
    BY <2>1, <2>2
<1>7. Chained(r, j2)
  <2> SUFFICES ASSUME NEW i \in 1..Len(j2)
               PROVE j2[i].n = j2[i].step + IF i = 1 THEN r.n ELSE j2[i-1].n
    BY DEF Chained
  <2>1. CASE i \in 1..Len(j)
    <3>1. j[i].n = j[i].step + IF i = 1 THEN r.n ELSE j[i-1].n
      BY <2>1 DEF Chained
    <3>2. i # 1 => i - 1 \in 1..Len(j)
      BY <2>1, <1>1
    <3> QED
      BY <3>1, <3>2, <2>1, <1>3
  <2>2. CASE i = Len(j) + 1
    <3>1. CASE Len(j) = 0
      BY <3>1, <2>2, <1>6, <1>3
    <3>2. CASE Len(j) # 0
      <4>1. Len(j) \in 1..Len(j) /\ i - 1 = Len(j) /\ i # 1
        BY <3>2, <2>2, <1>1
      <4>2. j2[i-1] = j[Len(j)]
        BY <4>1, <1>3
      <4>3. j2[i] = x
        BY <2>2, <1>3
      <4> QED
        BY <4>1, <4>2, <4>3, <3>2, <1>6
    <3> QED
      BY <3>1, <3>2
  <2> QED
    BY <2>1, <2>2, <1>4
<1>8. LeadsTo(r, j2, x.n, x.mode)
  <2>1. j2 # <<>>
    BY <1>3, <1>1
  <2> QED
    BY <2>1, <1>3 DEF LeadsTo
<1>9. \A i \in 0..Len(j) : ModeAt(r, j2, i) = ModeAt(r, j, i)
  <2> SUFFICES ASSUME NEW i \in 0..Len(j) PROVE ModeAt(r, j2, i) = ModeAt(r, j, i)
    OBVIOUS
  <2>1. i = 0 \/ i \in 1..Len(j)
    BY <1>1
  <2> QED
    BY <2>1, <1>3 DEF ModeAt
<1>10. ASSUME NEW s \in Int, s < x.stamp
       PROVE AtN(r, j2, s) = AtN(r, j, s) /\ AtMode(r, j2, s) = AtMode(r, j, s)
  <2> DEFINE m == Reach(j, s)
  <2>1. m \in 0..Len(j) /\ \A i \in 1..Len(j) : i <= m <=> j[i].stamp <= s
    BY ReachCounts
  <2> HIDE DEF m
  <2>2. Reach(j2, s) = m
    <3>1. m \in 0..Len(j2)
      BY <2>1, <1>3, <1>1
    <3>2. \A i \in 1..Len(j2) : i <= m <=> j2[i].stamp <= s
      <4> SUFFICES ASSUME NEW i \in 1..Len(j2) PROVE i <= m <=> j2[i].stamp <= s
        OBVIOUS
      <4>1. CASE i \in 1..Len(j)
        BY <4>1, <2>1, <1>3
      <4>2. CASE i = Len(j) + 1
        <5>1. j2[i].stamp = x.stamp /\ ~(i <= m)
          BY <4>2, <1>3, <1>1, <2>1
        <5> QED
          BY <5>1, <1>10, <1>2
      <4> QED
        BY <4>1, <4>2, <1>4
    <3> QED
      BY <3>1, <3>2, <1>3, <1>5, ReachIs
  <2>3. m # 0 => j2[m] = j[m]
    BY <2>1, <1>3, <1>1
  <2> QED
    BY <2>2, <2>3 DEF AtN, AtMode, m
<1> QED
  BY <1>3, <1>5, <1>7, <1>8, <1>9, <1>10 DEF j2

\* At a stamp that no entry is beyond, the registers are the last ones.
LEMMA AtLast == ASSUME NEW r \in EngineState, NEW j \in Seq(JEntry), Sorted(j), NEW nn, NEW md,
                       LeadsTo(r, j, nn, md), NEW s \in Int, \A i \in 1..Len(j) : j[i].stamp <= s
  PROVE Reach(j, s) = Len(j) /\ AtN(r, j, s) = nn /\ AtMode(r, j, s) = md
<1>1. Len(j) \in Nat
  OBVIOUS
<1>2. Reach(j, s) = Len(j)
  BY <1>1, ReachIs
<1>3. CASE j = <<>>
  <2>1. Len(j) = 0
    BY <1>3
  <2> QED
    BY <2>1, <1>2, <1>3 DEF LeadsTo, AtN, AtMode
<1>4. CASE j # <<>>
  <2>1. Len(j) # 0
    BY <1>4
  <2> QED
    BY <2>1, <1>2, <1>4 DEF LeadsTo, AtN, AtMode
<1> QED
  BY <1>3, <1>4

-----------------------------------------------------------------------------
(* The state.  A context K holds what an engine is compared with: E, the    *)
(* lines scanned out; hi, the latest stamp given; the guest's registers n   *)
(* and mode; the pictures due; the VRAM map vm and the versions ver; and    *)
(* what is to be shown besides: ex, that pictures are exact; w, that        *)
(* scanline E has started with the versions edges; fall and lay, that       *)
(* engine A only leaves display mode 2, or is never in it.                  *)

View2(e, md, m, vr) ==
  [b \in {x \in Banks : m[x] = IF e = 0 /\ md = 2 THEN "LCDC" ELSE Window(e)} |-> vr[b]]

PicOf(r, j, e, x, m, vr) == [edges |-> AtN(r, j, 2 * x), n |-> AtN(r, j, 2 * x + 1),
                             view |-> View2(e, AtMode(r, j, 2 * x + 1), m, vr)]

\* The map line x will be drawn with: the job's when it is one of its lines.
MapAt(jm, x, c, vm) == IF jm # <<>> /\ x < c THEN jm ELSE vm

Md(e, md) == IF e = 0 THEN md ELSE 1

\* Engine e with registers r, journal j and job map jm has drawn D in this
\* step, has to draw p..E-1, the lines below c with its job.
Eng(r, j, jm, D, e, p, c, K) ==
  /\ p \in 0..K.E
  /\ Jrn(r, j, K.n[e], Md(e, K.mode), 2 * p, K.hi)
  /\ \A o \in D : o.line \in Int /\ o.line < p
  /\ DOMAIN K.due[e] = {o.line : o \in D} \cup (p..K.E - 1)
  /\ K.fall /\ e = 0 => Falling(r, j)
  /\ K.lay /\ e = 0 => Layers(r, j)
  /\ K.w => AtN(r, j, 2 * K.E) = K.edges[e]
  /\ K.ex => /\ \A o \in D : o.pic = K.due[e][o.line]
             /\ \A x \in p..K.E - 1 :
                  K.due[e][x] = PicOf(r, j, e, x, MapAt(jm, x, c, K.vm), K.ver)

DrawnOf(g, e) == {o \in g.drawn : o.e = e}
PosOf(g, c, e) == IF g.inflight[e] THEN g.job[e][1] ELSE c[e]

\* The job of engine e, if it has one, ends with line c[e] - 1.
JobOk(g, c, e) ==
  /\ g.inflight[e] => g.job[e][2] = c[e] - 1 /\ g.job[e][1] <= c[e]
  /\ g.inflight[e] <=> g.job_map[e] # <<>>
  /\ g.deferred[e] => g.inflight[e] /\ g.deferred[0] /\ c[e] = SCREEN_H
  /\ g.jn[e] \in Len(g.journal[e])..JOURNAL_CAP
  /\ g.burst[e] => g.per_line[e]

EngOk(g, K, c, e) == /\ JobOk(g, c, e)
                     /\ Eng(g.eng[e], g.journal[e], g.job_map[e], DrawnOf(g, e), e,
                            PosOf(g, c, e), c[e], K)

Base(g, K, c) == /\ Typed(g) /\ ~g.aborted /\ \A o \in g.drawn : o.e \in Engines
                 /\ c \in [Engines -> 0..K.E]

Core(g, K, c) == Base(g, K, c) /\ \A e \in Engines : EngOk(g, K, c, e)

Scanned(g) == IF frontier(g) < SCREEN_H THEN frontier(g) ELSE SCREEN_H
Now(g) == 2 * frontier(g) + (IF g.hblank THEN 0 ELSE 1)
Top(g) == g.line = 0 /\ ~g.hblank
Cur(g) == [e \in Engines |-> IF Top(g) THEN 0 ELSE g.next[e]]

\* Where in the frame: past the last line it is finished, and only deferred
\* jobs are left; at its top nothing is.
Frame(g) ==
  /\ frontier(g) >= SCREEN_H =>
       /\ g.finished /\ g.next = Both(SCREEN_H)
       /\ \A e \in Engines : (g.inflight[e] => g.deferred[e]) /\ (~g.inflight[e] => g.journal[e] = <<>>)
  /\ frontier(g) < SCREEN_H => ~g.finished
  /\ Top(g) => /\ ~in_flight(g) /\ (g.lazy => g.next = Both(0))
               /\ \A e \in Engines : \A i \in 1..Len(g.journal[e]) : g.journal[e][i].n = g.eng[e].n + i

MaskOf(g) == (IF g.lag THEN {0} ELSE {}) \cup (IF g.lazy THEN {e \in Engines : ~g.per_line[e]} ELSE {})

\* The trap is armed for the engines that have lines to draw.
Armed(g) ==
  /\ ~g.finished => /\ g.trap <=> MaskOf(g) # {}
                    /\ g.trap => g.mask = MaskOf(g)
                    /\ \A e \in Engines : g.inflight[e] => e \in MaskOf(g)
  /\ g.finished /\ g.trap => g.deferred[0]
  /\ \A e \in Engines : g.deferred[e] => g.trap /\ e \in g.mask
  /\ g.lcdc /\ g.trap => 0 \in g.mask

\* An engine with lines due that no job has is one that batches.
Batching(g, K, c) == \A e \in Engines : c[e] < K.E => g.lazy /\ ~g.per_line[e]

Reads(e) == IF e = 0 THEN {"A", "LCDC"} ELSE {"B"}

\* A job has the live map, unless that was changed under it to one where all
\* the banks of the job are trapped.
JobMap(g, vm) ==
  \A e \in Engines : g.inflight[e] =>
    IF g.stale THEN \A b \in Banks : g.job_map[e][b] \in Reads(e) => vm[b] = "texture" \/ Trapped(g, vm[b])
    ELSE g.job_map[e] = vm

Watch(g, K, c) == Armed(g) /\ Batching(g, K, c) /\ JobMap(g, K.vm) /\ (g.stale => in_flight(g))

Context(g, d, nn, md, ed, vr, vm, ex) ==
  [E |-> Scanned(g), hi |-> Now(g), due |-> d, n |-> nn, mode |-> md, edges |-> ed, ver |-> vr,
   vm |-> vm, ex |-> ex, w |-> ex /\ ~g.hblank /\ g.line < SCREEN_H,
   fall |-> ex /\ g.trap /\ 0 \in g.mask, lay |-> ex /\ g.trap /\ 0 \in g.mask /\ ~g.lcdc]

\* A context's types.
Ctx(K) ==
  /\ K.E \in 0..SCREEN_H /\ K.hi \in Nat /\ K.mode \in {1, 2} /\ K.n \in [Engines -> Nat]
  /\ K.vm \in [Banks -> Places] /\ K.ver \in [Banks -> Nat] /\ K.edges \in [Engines -> Nat]
  /\ K.due = [e \in Engines |-> [x \in DOMAIN K.due[e] |-> K.due[e][x]]]
  /\ {K.ex, K.w, K.fall, K.lay} \subseteq BOOLEAN /\ (K.w => K.E < SCREEN_H)

\* The invariant, of any Gpu.
Fit(g, K) == Ctx(K) /\ Core(g, K, Cur(g)) /\ Frame(g) /\ (K.ex => Watch(g, K, Cur(g)))

Good(K) == Fit(gpu, K) /\ gpu.drawn = {}

Sound == Good(Context(gpu, due, n, mode, edges, ver, vmap, FALSE))
Exact == /\ Good(Context(gpu, due, n, mode, edges, ver, vmap, TRUE))
         /\ unlike = {}

-----------------------------------------------------------------------------
(* Drawing and applying, for one engine.                                   *)

\* What an engine that has lines l and below to draw becomes when it draws them.
Drawn(r, j, m, e, f, l, vr) == {[e |-> e, line |-> x, pic |-> PicOf(r, j, e, x, m, vr)] : x \in f..l}

\* Drawing an engine's lines up to l applies the entries up to the HBlank of l.
LEMMA EngStep ==
  ASSUME NEW K, Ctx(K), NEW e \in Engines, NEW r, NEW j, NEW jm, NEW D, NEW p, NEW c \in Int,
         Eng(r, j, jm, D, e, p, c, K), NEW l \in Int, p <= l, l < K.E,
         jm # <<>> => l < c
  PROVE LET k == Reach(j, 2 * l + 1)
            m == IF jm = <<>> THEN K.vm ELSE jm
        IN /\ Eng(Applied(r, j, k), SubSeq(j, k + 1, Len(j)), jm,
                  D \cup Drawn(r, j, m, e, p, l, K.ver), e, l + 1, c, K)
           /\ Applied(r, j, k) \in EngineState /\ SubSeq(j, k + 1, Len(j)) \in Seq(JEntry)
           /\ Len(SubSeq(j, k + 1, Len(j))) <= Len(j)
<1> DEFINE k == Reach(j, 2 * l + 1)
           m == IF jm = <<>> THEN K.vm ELSE jm
           r2 == Applied(r, j, k)
           j2 == SubSeq(j, k + 1, Len(j))
           D2 == Drawn(r, j, m, e, p, l, K.ver)
<1>1. /\ p \in 0..K.E /\ Jrn(r, j, K.n[e], Md(e, K.mode), 2 * p, K.hi)
      /\ \A o \in D : o.line \in Int /\ o.line < p
      /\ DOMAIN K.due[e] = {o.line : o \in D} \cup (p..K.E - 1)
      /\ K.fall /\ e = 0 => Falling(r, j)
      /\ K.lay /\ e = 0 => Layers(r, j)
      /\ K.w => AtN(r, j, 2 * K.E) = K.edges[e]
      /\ K.ex => /\ \A o \in D : o.pic = K.due[e][o.line]
                 /\ \A x \in p..K.E - 1 :
                      K.due[e][x] = PicOf(r, j, e, x, MapAt(jm, x, c, K.vm), K.ver)
  BY DEF Eng
<1>2. K.E \in Nat /\ K.hi \in Nat /\ p \in Nat
  BY <1>1, LinesAssumption DEF Ctx
<1>3. /\ r \in EngineState /\ r.ordered /\ j \in Seq(JEntry)
      /\ Sorted(j) /\ Chained(r, j) /\ LeadsTo(r, j, K.n[e], Md(e, K.mode))
      /\ \A i \in 1..Len(j) : 2 * p <= j[i].stamp /\ j[i].stamp <= K.hi
  BY <1>1 DEF Jrn
<1>4. k \in 0..Len(j) /\ Len(j) \in Nat
  BY <1>3, 2 * l + 1 \in Int, ReachCounts
<1>5. /\ r2 \in EngineState /\ r2.ordered
      /\ j2 \in Seq(JEntry) /\ Len(j2) = Len(j) - k /\ Sorted(j2) /\ Chained(r2, j2)
      /\ \A i \in 1..Len(j2) : j2[i] = j[k+i] /\ j2[i].stamp > 2 * l + 1
      /\ \A i \in 0..Len(j2) : ModeAt(r2, j2, i) = ModeAt(r, j, k + i)
      /\ LeadsTo(r2, j2, K.n[e], Md(e, K.mode))
      /\ \A s \in Int : s >= 2 * l + 1 => /\ AtN(r2, j2, s) = AtN(r, j, s)
                                         /\ AtMode(r2, j2, s) = AtMode(r, j, s)
  BY <1>3, 2 * l + 1 \in Int, Replayed
<1>6. D2 = {[e |-> e, line |-> x, pic |-> PicOf(r, j, e, x, m, K.ver)] : x \in p..l}
  BY DEF Drawn
<1> HIDE DEF k, m, r2, j2, D2
<1>7. Jrn(r2, j2, K.n[e], Md(e, K.mode), 2 * (l + 1), K.hi)
  <2>1. \A i \in 1..Len(j2) : k + i \in 1..Len(j) /\ j2[i].stamp \in Nat
    BY <1>4, <1>5, Entries
  <2>2. \A i \in 1..Len(j2) : 2 * (l + 1) <= j2[i].stamp /\ j2[i].stamp <= K.hi
    BY <2>1, <1>5, <1>3
  <2> QED
    BY <2>2, <1>5 DEF Jrn
<1>8. \A o \in D \cup D2 : o.line \in Int /\ o.line < l + 1
  BY <1>1, <1>2, <1>6
<1>9. DOMAIN K.due[e] = {o.line : o \in D \cup D2} \cup (l + 1..K.E - 1)
  <2>1. {o.line : o \in D2} = p..l
    <3>1. \A o \in D2 : o.line \in p..l
      BY <1>6
    <3>2. \A x \in p..l : \E o \in D2 : o.line = x
      <4> SUFFICES ASSUME NEW x \in p..l PROVE \E o \in D2 : o.line = x
        OBVIOUS
      <4>1. [e |-> e, line |-> x, pic |-> PicOf(r, j, e, x, m, K.ver)] \in D2
        BY <1>6
      <4> QED
        BY <4>1
    <3> QED
      BY <3>1, <3>2
  <2>2. {o.line : o \in D \cup D2} = {o.line : o \in D} \cup {o.line : o \in D2}
    OBVIOUS
  <2>3. p..K.E - 1 = (p..l) \cup (l + 1..K.E - 1)
    BY <1>2
  <2> QED
    BY <2>1, <2>2, <2>3, <1>1
<1>10. k \in Nat /\ \A i \in 0..Len(j2) : k + i \in 0..Len(j)
  BY <1>4, <1>5
<1>11. K.fall /\ e = 0 => Falling(r2, j2)
  <2> SUFFICES ASSUME Falling(r, j), NEW a \in 0..Len(j2), NEW b \in 0..Len(j2),
                      a < b, ModeAt(r2, j2, a) = 1
               PROVE ModeAt(r2, j2, b) = 1
    BY <1>1 DEF Falling
  <2> DEFINE x == k + a  y == k + b
  <2>1. x \in 0..Len(j) /\ y \in 0..Len(j) /\ x < y
    BY <1>10
  <2>2. ModeAt(r, j, x) = 1 /\ ModeAt(r, j, y) = ModeAt(r2, j2, b)
    BY <1>5
  <2> HIDE DEF x, y
  <2> QED
    BY <2>1, <2>2 DEF Falling
<1>12. K.lay /\ e = 0 => Layers(r2, j2)
  <2> SUFFICES ASSUME Layers(r, j), NEW a \in 0..Len(j2)
               PROVE ModeAt(r2, j2, a) = 1
    BY <1>1 DEF Layers
  <2> DEFINE x == k + a
  <2>1. x \in 0..Len(j)
    BY <1>10
  <2>2. ModeAt(r, j, x) = ModeAt(r2, j2, a)
    BY <1>5
  <2> HIDE DEF x
  <2> QED
    BY <2>1, <2>2 DEF Layers
<1>13. K.w => AtN(r2, j2, 2 * K.E) = K.edges[e]
  <2>1. 2 * K.E \in Int /\ 2 * K.E >= 2 * l + 1
    BY <1>2
  <2> QED
    BY <2>1, <1>5, <1>1
<1>14. ASSUME K.ex PROVE \A o \in D \cup D2 : o.pic = K.due[e][o.line]
  <2> SUFFICES ASSUME NEW x \in p..l PROVE K.due[e][x] = PicOf(r, j, e, x, m, K.ver)
    BY <1>1, <1>6, <1>14
  <2>1. x \in p..K.E - 1 /\ x \in Int /\ (jm # <<>> => x < c)
    BY <1>2
  <2>2. MapAt(jm, x, c, K.vm) = m
    BY <2>1 DEF MapAt, m
  <2> QED
    BY <2>1, <2>2, <1>1, <1>14
<1>15. ASSUME K.ex, NEW x \in l + 1..K.E - 1
       PROVE K.due[e][x] = PicOf(r2, j2, e, x, MapAt(jm, x, c, K.vm), K.ver)
  <2>1. x \in p..K.E - 1 /\ 2 * x \in Int /\ 2 * x + 1 \in Int /\ 2 * x >= 2 * l + 1
        /\ 2 * x + 1 >= 2 * l + 1
    BY <1>2
  <2>2. /\ AtN(r2, j2, 2 * x) = AtN(r, j, 2 * x) /\ AtN(r2, j2, 2 * x + 1) = AtN(r, j, 2 * x + 1)
        /\ AtMode(r2, j2, 2 * x + 1) = AtMode(r, j, 2 * x + 1)
    BY <2>1, <1>5
  <2>3. PicOf(r2, j2, e, x, MapAt(jm, x, c, K.vm), K.ver) = PicOf(r, j, e, x, MapAt(jm, x, c, K.vm), K.ver)
    BY <2>2, Zenon DEF PicOf
  <2> QED
    BY <2>1, <2>3, <1>1, <1>15
<1>16. l + 1 \in 0..K.E
  BY <1>2
<1>17. Eng(r2, j2, jm, D \cup D2, e, l + 1, c, K)
  BY <1>16, <1>7, <1>8, <1>9, <1>11, <1>12, <1>13, <1>14, <1>15 DEF Eng
<1>18. Len(j2) <= Len(j)
  BY <1>4, <1>5
<1> QED
  BY <1>17, <1>18, <1>5 DEF k, m, r2, j2, D2

\* An engine with no line left to draw applies its whole journal.
LEMMA EngApply ==
  ASSUME NEW K, Ctx(K), NEW e \in Engines, NEW r, NEW j, NEW jm, NEW D, NEW p, NEW c,
         Eng(r, j, jm, D, e, p, c, K), ~K.w, p = K.E \/ ~K.ex
  PROVE /\ Eng(Applied(r, j, Len(j)), <<>>, jm, D, e, p, c, K)
        /\ Applied(r, j, Len(j)) \in EngineState
<1> DEFINE r2 == Applied(r, j, Len(j))
<1>1. /\ p \in 0..K.E /\ Jrn(r, j, K.n[e], Md(e, K.mode), 2 * p, K.hi)
      /\ \A o \in D : o.line \in Int /\ o.line < p
      /\ DOMAIN K.due[e] = {o.line : o \in D} \cup (p..K.E - 1)
      /\ K.fall /\ e = 0 => Falling(r, j)
      /\ K.lay /\ e = 0 => Layers(r, j)
      /\ K.ex => \A o \in D : o.pic = K.due[e][o.line]
  BY DEF Eng
<1>2. /\ r \in EngineState /\ r.ordered /\ j \in Seq(JEntry)
      /\ Sorted(j) /\ Chained(r, j) /\ LeadsTo(r, j, K.n[e], Md(e, K.mode))
      /\ \A i \in 1..Len(j) : 2 * p <= j[i].stamp /\ j[i].stamp <= K.hi
  BY <1>1 DEF Jrn
<1>3. K.hi \in Int /\ K.E \in Nat /\ Len(j) \in Nat
  BY <1>2, LinesAssumption DEF Ctx
<1>4. Reach(j, K.hi) = Len(j)
  BY <1>2, <1>3, AtLast
<1>5. SubSeq(j, Len(j) + 1, Len(j)) = <<>>
  BY <1>2, <1>3
<1>6. /\ r2 \in EngineState /\ r2.ordered /\ LeadsTo(r2, <<>>, K.n[e], Md(e, K.mode))
      /\ \A i \in 0..Len(<<>>) : ModeAt(r2, <<>>, i) = ModeAt(r, j, Len(j) + i)
  <2> DEFINE k == Reach(j, K.hi)
             j2 == SubSeq(j, k + 1, Len(j))
             r3 == Applied(r, j, k)
  <2>1. /\ r3 \in EngineState /\ r3.ordered
        /\ \A i \in 0..Len(j2) : ModeAt(r3, j2, i) = ModeAt(r, j, k + i)
        /\ \A nn, md : LeadsTo(r, j, nn, md) => LeadsTo(r3, j2, nn, md)
    BY <1>2, <1>3, Replayed
  <2>2. r3 = r2 /\ j2 = <<>> /\ k = Len(j)
    BY <1>4, <1>5
  <2> HIDE DEF k, j2, r3, r2
  <2> QED
    BY <2>1, <2>2, <1>2
<1> HIDE DEF r2
<1>7. Jrn(r2, <<>>, K.n[e], Md(e, K.mode), 2 * p, K.hi)
  <2>1. <<>> \in Seq(JEntry) /\ Len(<<>>) = 0
    OBVIOUS
  <2>2. Sorted(<<>>) /\ Chained(r2, <<>>)
    BY <2>1 DEF Sorted, Chained
  <2> QED
    BY <2>1, <2>2, <1>6 DEF Jrn
<1>8. Falling(r2, <<>>)
  <2>1. Len(<<>>) = 0
    OBVIOUS
  <2> QED
    BY <2>1 DEF Falling
<1>9. K.lay /\ e = 0 => Layers(r2, <<>>)
  <2> SUFFICES ASSUME Layers(r, j), NEW i \in 0..Len(<<>>) PROVE ModeAt(r2, <<>>, i) = 1
    BY <1>1 DEF Layers
  <2>1. i = 0 /\ Len(j) + i = Len(j) /\ Len(j) \in 0..Len(j)
    BY <1>3
  <2> QED
    BY <2>1, <1>6 DEF Layers
<1>10. K.ex => p..K.E - 1 = {}
  BY <1>3
<1> QED
  BY <1>1, <1>6, <1>7, <1>8, <1>9, <1>10 DEF Eng, r2

-----------------------------------------------------------------------------
(* Members that an operator leaves as they are.                            *)

\* Where the frame is and how its lines are to be drawn.
SameFrame(g, h) == /\ h.line = g.line /\ h.hblank = g.hblank /\ h.lazy = g.lazy /\ h.lag = g.lag
                   /\ h.mask = g.mask /\ h.lcdc = g.lcdc /\ h.per_line = g.per_line
                   /\ h.burst = g.burst
SameCounts(g, h) == /\ h.stores = g.stores /\ h.left = g.left /\ h.bursts = g.bursts
                    /\ h.next = g.next
SameEnd(g, h) == h.finished = g.finished /\ h.trap = g.trap /\ h.aborted = g.aborted /\ h.jn = g.jn
SameJobs(g, h) == /\ h.inflight = g.inflight /\ h.job = g.job /\ h.job_map = g.job_map
                  /\ h.deferred = g.deferred
SameData(g, h) == h.eng = g.eng /\ h.journal = g.journal /\ h.drawn = g.drawn
SameFlight(g, h) == h.scale = g.scale /\ h.stale = g.stale

\* step_engine, spelled out.
LEMMA StepIs ==
  ASSUME NEW g, Typed(g), NEW e \in Engines, NEW f \in Int, NEW l \in Int, f <= l
  PROVE LET m == IF g.job_map[e] = <<>> THEN vmap ELSE g.job_map[e]
            k == Reach(g.journal[e], 2 * l + 1)
        IN step_engine(g, e, f, l) =
             [g EXCEPT !.eng[e] = Applied(@, g.journal[e], k),
                       !.journal[e] = SubSeq(@, k + 1, Len(@)),
                       !.drawn = @ \cup Drawn(g.eng[e], g.journal[e], m, e, f, l, ver)]
<1> DEFINE m == IF g.job_map[e] = <<>> THEN vmap ELSE g.job_map[e]
           At(s) == LET k == Reach(g.journal[e], s)
                    IN IF k = 0 THEN g.eng[e] ELSE g.journal[e][k]
           Pic(x) == [edges |-> At(2 * x).n, n |-> At(2 * x + 1).n,
                      view |-> View(e, At(2 * x + 1).mode, m)]
           Draw == [g EXCEPT !.drawn = @ \cup {[e |-> e, line |-> x, pic |-> Pic(x)] : x \in f..l}]
<1>1. \A s \in Int : /\ At(s).n = AtN(g.eng[e], g.journal[e], s)
                     /\ At(s).mode = AtMode(g.eng[e], g.journal[e], s)
  BY DEF AtN, AtMode
<1>2. \A x \in f..l : Pic(x) = PicOf(g.eng[e], g.journal[e], e, x, m, ver)
  <2> SUFFICES ASSUME NEW x \in f..l
               PROVE Pic(x) = PicOf(g.eng[e], g.journal[e], e, x, m, ver)
    OBVIOUS
  <2>1. 2 * x \in Int /\ 2 * x + 1 \in Int
    OBVIOUS
  <2> HIDE DEF At, m
  <2>2. /\ At(2 * x).n = AtN(g.eng[e], g.journal[e], 2 * x)
        /\ At(2 * x + 1).n = AtN(g.eng[e], g.journal[e], 2 * x + 1)
        /\ At(2 * x + 1).mode = AtMode(g.eng[e], g.journal[e], 2 * x + 1)
    BY <2>1, <1>1
  <2>3. \A md : View(e, md, m) = View2(e, md, m, ver)
    BY Zenon DEF View, View2
  <2> QED
    BY <2>2, <2>3, Zenon DEF PicOf
<1> HIDE DEF Pic
<1>3. {[e |-> e, line |-> x, pic |-> Pic(x)] : x \in f..l}
        = Drawn(g.eng[e], g.journal[e], m, e, f, l, ver)
  BY <1>2 DEF Drawn
<1>4. step_engine(g, e, f, l) = replay_to(Draw, e, 2 * l + 1)
  BY DEF step_engine, Pic
<1>5. Draw = [g EXCEPT !.drawn = @ \cup Drawn(g.eng[e], g.journal[e], m, e, f, l, ver)]
  BY <1>3
<1> HIDE DEF Draw, m
<1>6. Draw.journal = g.journal /\ Draw.eng = g.eng
  BY <1>5 DEF Typed, Members
<1> QED
  BY <1>4, <1>5, <1>6, Zenon DEF replay_to, m

\* What Typed says of a member.
LEMMA Types ==
  ASSUME NEW g, Typed(g)
  PROVE /\ g.line \in 0..SCANLINES_PER_FRAME - 1 /\ g.hblank \in BOOLEAN /\ g.lazy \in BOOLEAN
        /\ g.lag \in BOOLEAN /\ g.finished \in BOOLEAN /\ g.aborted \in BOOLEAN /\ g.trap \in BOOLEAN
        /\ g.mask \subseteq Engines /\ g.lcdc \in BOOLEAN /\ g.stores \in Nat
        /\ g.per_line \in [Engines -> BOOLEAN] /\ g.burst \in [Engines -> BOOLEAN]
        /\ g.left \in [Engines -> Int] /\ g.bursts \in [Engines -> Nat] /\ g.next \in [Engines -> Nat]
        /\ g.inflight \in [Engines -> BOOLEAN] /\ g.job \in [Engines -> Int \X Int]
        /\ g.job_map \in [Engines -> {<<>>} \cup [Banks -> Places]]
        /\ g.deferred \in [Engines -> BOOLEAN] /\ g.scale \in BOOLEAN /\ g.stale \in BOOLEAN
        /\ g.journal \in [Engines -> Seq(JEntry)] /\ g.jn \in [Engines -> Nat]
        /\ g.eng \in [Engines -> EngineState]
  BY DEF Typed, Members

\* Engine e itself.
SameEng(g, h, e) == h.eng[e] = g.eng[e] /\ h.journal[e] = g.journal[e] /\ DrawnOf(h, e) = DrawnOf(g, e)

\* Drawing an engine's next lines up to l.
LEMMA CoreStep ==
  ASSUME NEW K, Ctx(K), K.vm = vmap, K.ver = ver, NEW g, NEW c, Base(g, K, c),
         NEW e \in Engines, EngOk(g, K, c, e), NEW l \in Int, PosOf(g, c, e) <= l, l < K.E,
         g.inflight[e] => l < c[e]
  PROVE LET h == step_engine(g, e, PosOf(g, c, e), l)
        IN /\ Base(h, K, c)
           /\ SameFrame(g, h) /\ SameCounts(g, h) /\ SameEnd(g, h) /\ SameJobs(g, h)
           /\ SameFlight(g, h)
           /\ \A o \in Engines : o # e => SameEng(g, h, o)
           /\ Eng(h.eng[e], h.journal[e], h.job_map[e], DrawnOf(h, e), e, l + 1, c[e], K)
           /\ JobOk(h, c, e)
<1> DEFINE p == PosOf(g, c, e)
           h == step_engine(g, e, p, l)
           r == g.eng[e]
           j == g.journal[e]
           jm == g.job_map[e]
           m == IF jm = <<>> THEN vmap ELSE jm
           k == Reach(j, 2 * l + 1)
           r2 == Applied(r, j, k)
           j2 == SubSeq(j, k + 1, Len(j))
           D2 == Drawn(r, j, m, e, p, l, ver)
<1>1. /\ Typed(g) /\ ~g.aborted /\ \A o \in g.drawn : o.e \in Engines
      /\ c \in [Engines -> 0..K.E]
      /\ JobOk(g, c, e)
      /\ Eng(r, j, jm, DrawnOf(g, e), e, p, c[e], K)
  BY DEF Base, EngOk
<1>2. c[e] \in Int /\ p \in Int
  BY <1>1, LinesAssumption DEF Eng, Ctx
<1>3. jm # <<>> => l < c[e]
  BY <1>1 DEF JobOk
<1>4. /\ Eng(r2, j2, jm, DrawnOf(g, e) \cup D2, e, l + 1, c[e], K)
      /\ r2 \in EngineState /\ j2 \in Seq(JEntry) /\ Len(j2) <= Len(j)
  <2> DEFINE m3 == IF jm = <<>> THEN K.vm ELSE jm
  <2>1. /\ Eng(r2, j2, jm, DrawnOf(g, e) \cup Drawn(r, j, m3, e, p, l, K.ver), e, l + 1, c[e], K)
        /\ r2 \in EngineState /\ j2 \in Seq(JEntry) /\ Len(j2) <= Len(j)
    <3> HIDE DEF p
    <3> QED
      BY <1>1, <1>2, <1>3, EngStep DEF p
  <2> QED
    BY <2>1
<1>5. h = [g EXCEPT !.eng[e] = r2, !.journal[e] = j2, !.drawn = @ \cup D2]
  <2>1. h = [g EXCEPT !.eng[e] = Applied(@, g.journal[e], k),
                      !.journal[e] = SubSeq(@, k + 1, Len(@)),
                      !.drawn = @ \cup Drawn(g.eng[e], g.journal[e], m, e, p, l, ver)]
    <3> HIDE DEF p
    <3> QED
      BY <1>1, <1>2, StepIs DEF p
  <2> QED
    BY <2>1
<1> HIDE DEF h, p, r2, j2, k
<1>6. \A o \in D2 : o.e = e
  BY DEF Drawn
<1> HIDE DEF D2, m
<1>7. Typed(h)
  BY <1>1, <1>4, <1>5 DEF Typed, Members
<1>8. /\ SameFrame(g, h) /\ SameCounts(g, h) /\ SameEnd(g, h) /\ SameJobs(g, h)
      /\ SameFlight(g, h)
  BY <1>1, <1>5 DEF Typed, Members, SameFrame, SameCounts, SameEnd, SameJobs, SameFlight
<1>9. /\ h.drawn = g.drawn \cup D2
      /\ h.eng[e] = r2 /\ h.journal[e] = j2
      /\ \A o \in Engines : o # e => h.eng[o] = g.eng[o] /\ h.journal[o] = g.journal[o]
  BY <1>1, <1>5 DEF Typed, Members
<1>10. /\ DrawnOf(h, e) = DrawnOf(g, e) \cup D2
       /\ \A o \in Engines : o # e => DrawnOf(h, o) = DrawnOf(g, o)
  BY <1>6, <1>9 DEF DrawnOf
<1>11. \A o \in Engines : o # e => SameEng(g, h, o)
  BY <1>9, <1>10 DEF SameEng
<1>12. JobOk(h, c, e)
  <2>1. JobOk(g, c, e) /\ Len(j2) \in Nat
    BY <1>1, <1>4
  <2>2. h.jn[e] = g.jn[e] /\ g.jn[e] \in Len(j)..JOURNAL_CAP /\ Len(j) \in Nat
    BY <2>1, <1>8, <1>1, Types DEF JobOk, SameEnd
  <2>3. JOURNAL_CAP \in Nat
    BY LimitsAssumption
  <2>4. h.jn[e] \in Len(h.journal[e])..JOURNAL_CAP
    BY <2>1, <2>2, <2>3, <1>4, <1>9
  <2> QED
    BY <2>1, <2>4, <1>8, Zenon DEF JobOk, SameFrame, SameJobs
<1>13. Base(h, K, c)
  BY <1>1, <1>6, <1>7, <1>8, <1>9 DEF Base, SameEnd
<1>14. Eng(h.eng[e], h.journal[e], h.job_map[e], DrawnOf(h, e), e, l + 1, c[e], K)
  BY <1>4, <1>8, <1>9, <1>10 DEF SameJobs
<1> QED
  BY <1>8, <1>11, <1>12, <1>13, <1>14 DEF h, p

-----------------------------------------------------------------------------
(* join_worker.                                                            *)

\* An engine whose lines below c[e] are drawn, its job if it had one done.
EngDone(g, K, c, e) ==
  /\ Eng(g.eng[e], g.journal[e], g.job_map[e], DrawnOf(g, e), e, c[e], c[e], K)
  /\ g.deferred[e] => c[e] = SCREEN_H
  /\ g.jn[e] \in Len(g.journal[e])..JOURNAL_CAP
  /\ g.burst[e] => g.per_line[e]

\* FinishJob draws what is left of an engine's job, and touches no other engine.
LEMMA FinishJobDone ==
  ASSUME NEW K, Ctx(K), K.vm = vmap, K.ver = ver, NEW g, NEW c, Base(g, K, c),
         NEW e \in Engines, EngOk(g, K, c, e)
  PROVE LET h == FinishJob(g, e)
        IN /\ Base(h, K, c) /\ EngDone(h, K, c, e)
           /\ SameFrame(g, h) /\ SameCounts(g, h) /\ SameEnd(g, h) /\ SameJobs(g, h)
           /\ SameFlight(g, h)
           /\ \A o \in Engines : o # e => SameEng(g, h, o)
           /\ ~g.inflight[e] => h = g
<1> DEFINE h == FinishJob(g, e)
<1>1. /\ Typed(g) /\ c[e] \in Int /\ c[e] \in 0..K.E /\ K.E \in Nat
  BY LinesAssumption DEF Base, Ctx
<1>2. /\ JobOk(g, c, e)
      /\ Eng(g.eng[e], g.journal[e], g.job_map[e], DrawnOf(g, e), e, PosOf(g, c, e), c[e], K)
  BY DEF EngOk
<1>3. /\ SameFrame(g, g) /\ SameCounts(g, g) /\ SameEnd(g, g) /\ SameJobs(g, g)
      /\ SameFlight(g, g) /\ \A o \in Engines : SameEng(g, g, o)
  BY DEF SameFrame, SameCounts, SameEnd, SameJobs, SameFlight, SameEng
<1>4. CASE ~g.inflight[e]
  <2>1. h = g /\ PosOf(g, c, e) = c[e]
    BY <1>4 DEF FinishJob, PosOf
  <2>2. EngDone(g, K, c, e)
    BY <1>2, <2>1 DEF EngDone, JobOk
  <2> QED
    BY <2>1, <2>2, <1>3
<1>5. CASE g.inflight[e]
  <2>1. /\ g.job[e][2] = c[e] - 1 /\ g.job[e][1] <= c[e] /\ PosOf(g, c, e) = g.job[e][1]
        /\ h = step_engine(g, e, g.job[e][1], g.job[e][2])
    BY <1>2, <1>5 DEF FinishJob, PosOf, JobOk
  <2>2. g.job[e] \in Int \X Int
    BY <1>1, Types
  <2>3. CASE g.job[e][1] > g.job[e][2]
    <3>1. h = g
      BY <2>3, <2>1 DEF step_engine
    <3>2. PosOf(g, c, e) = c[e]
      BY <2>1, <2>2, <2>3, <1>1
    <3>3. EngDone(g, K, c, e)
      BY <1>2, <3>2 DEF EngDone, JobOk
    <3> QED
      BY <3>1, <3>3, <1>3, <1>5
  <2>4. CASE g.job[e][1] <= g.job[e][2]
    <3> DEFINE l == g.job[e][2]
    <3>1. l \in Int /\ PosOf(g, c, e) <= l /\ l < K.E /\ l < c[e] /\ l + 1 = c[e]
      BY <2>1, <2>2, <2>4, <1>1
    <3>2. h = step_engine(g, e, PosOf(g, c, e), l)
      BY <2>1
    <3> HIDE DEF l
    <3>3. /\ Base(h, K, c)
          /\ SameFrame(g, h) /\ SameCounts(g, h) /\ SameEnd(g, h) /\ SameJobs(g, h)
          /\ SameFlight(g, h)
          /\ \A o \in Engines : o # e => SameEng(g, h, o)
          /\ Eng(h.eng[e], h.journal[e], h.job_map[e], DrawnOf(h, e), e, l + 1, c[e], K)
          /\ JobOk(h, c, e)
      BY <3>1, <3>2, CoreStep
    <3>4. EngDone(h, K, c, e)
      BY <3>3, <3>1 DEF EngDone, JobOk
    <3> QED
      BY <3>3, <3>4, <1>5
  <2> QED
    BY <2>2, <2>3, <2>4
<1> QED
  BY <1>4, <1>5

\* An engine with nothing due below c does not mind which map its job has.
LEMMA EngMap ==
  ASSUME NEW K, Ctx(K), NEW e \in Engines, NEW r, NEW j, NEW jm, NEW D, NEW c,
         Eng(r, j, jm, D, e, c, c, K), NEW jm2
  PROVE Eng(r, j, jm2, D, e, c, c, K)
<1>1. c \in Int /\ K.E \in Int
  BY LinesAssumption DEF Eng, Ctx
<1>2. \A x \in c..K.E - 1 : ~(x < c)
  BY <1>1
<1>3. \A x \in c..K.E - 1 : MapAt(jm, x, c, K.vm) = MapAt(jm2, x, c, K.vm)
  BY <1>2 DEF MapAt
<1> QED
  BY <1>3 DEF Eng

\* What apply_pending changes.
LEMMA ApplyPendingIs ==
  ASSUME NEW g, Typed(g), NEW e \in Engines,
         Applied(g.eng[e], g.journal[e], Len(g.journal[e])) \in EngineState
  PROVE LET h == apply_pending(g, e)
        IN /\ Typed(h)
           /\ SameFrame(g, h) /\ SameCounts(g, h) /\ SameEnd(g, h) /\ SameJobs(g, h)
           /\ SameFlight(g, h) /\ h.drawn = g.drawn
           /\ h.eng[e] = Applied(g.eng[e], g.journal[e], Len(g.journal[e])) /\ h.journal[e] = <<>>
           /\ \A o \in Engines : o # e => h.eng[o] = g.eng[o] /\ h.journal[o] = g.journal[o]
<1> DEFINE h == apply_pending(g, e)
           r2 == Applied(g.eng[e], g.journal[e], Len(g.journal[e]))
<1>1. h = [g EXCEPT !.eng[e] = r2, !.journal[e] = <<>>]
  BY DEF apply_pending
<1> HIDE DEF h, r2
<1>2. r2 \in EngineState /\ <<>> \in Seq(JEntry)
  BY DEF r2
<1>3. Typed(h)
  BY <1>1, <1>2 DEF Typed, Members
<1>4. /\ SameFrame(g, h) /\ SameCounts(g, h) /\ SameEnd(g, h) /\ SameJobs(g, h)
      /\ SameFlight(g, h) /\ h.drawn = g.drawn
  BY <1>1 DEF Typed, Members, SameFrame, SameCounts, SameEnd, SameJobs, SameFlight
<1>5. /\ h.eng[e] = r2 /\ h.journal[e] = <<>>
      /\ \A o \in Engines : o # e => h.eng[o] = g.eng[o] /\ h.journal[o] = g.journal[o]
  BY <1>1 DEF Typed, Members
<1> QED
  BY <1>3, <1>4, <1>5 DEF h, r2

\* What frame_done changes.
LEMMA FrameDoneIs ==
  ASSUME NEW g, Typed(g), NEW e \in Engines
  PROVE LET h == frame_done(g, e)
        IN /\ Typed(h)
           /\ SameFrame(g, h) /\ SameCounts(g, h) /\ SameJobs(g, h) /\ SameData(g, h)
           /\ SameFlight(g, h) /\ h.finished = g.finished /\ h.trap = g.trap
           /\ h.aborted = (g.aborted \/ g.journal[e] # <<>>) /\ h.jn[e] = 0
           /\ \A o \in Engines : o # e => h.jn[o] = g.jn[o]
<1> DEFINE h == frame_done(g, e)
           b == g.aborted \/ g.journal[e] # <<>>
<1>1. h = [g EXCEPT !.aborted = b, !.jn[e] = 0]
  BY DEF frame_done
<1>0. b \in BOOLEAN
  OBVIOUS
<1> HIDE DEF h, b
<1>3. Typed(h)
  BY <1>1, <1>0 DEF Typed, Members
<1>4. /\ SameFrame(g, h) /\ SameCounts(g, h) /\ SameJobs(g, h) /\ SameData(g, h)
      /\ SameFlight(g, h) /\ h.finished = g.finished /\ h.trap = g.trap
  BY <1>1 DEF Typed, Members, SameFrame, SameCounts, SameJobs, SameFlight, SameData
<1>5. /\ h.aborted = b /\ h.jn[e] = 0
      /\ \A o \in Engines : o # e => h.jn[o] = g.jn[o]
  BY <1>1 DEF Typed, Members
<1> QED
  BY <1>3, <1>4, <1>5 DEF h, b

\* What disarm_trap changes.
LEMMA DisarmIs ==
  ASSUME NEW g, Typed(g)
  PROVE LET h == disarm_trap(g)
        IN /\ Typed(h)
           /\ SameFrame(g, h) /\ SameCounts(g, h) /\ SameJobs(g, h) /\ SameData(g, h)
           /\ SameFlight(g, h) /\ h.finished = g.finished /\ h.aborted = g.aborted /\ h.jn = g.jn
           /\ h.trap = FALSE
BY DEF Typed, Members, disarm_trap, SameFrame, SameCounts, SameJobs, SameFlight, SameData

\* What FinishDeferred does for one engine.
LEMMA FinishDeferredDone ==
  ASSUME NEW K, Ctx(K), NEW g, NEW c, Base(g, K, c), NEW e \in Engines, EngDone(g, K, c, e)
  PROVE LET h == FinishDeferred(g, e)
        IN /\ Base(h, K, c) /\ EngDone(h, K, c, e) /\ ~h.deferred[e]
           /\ SameFrame(g, h) /\ SameCounts(g, h) /\ SameFlight(g, h)
           /\ h.inflight = g.inflight /\ h.job = g.job /\ h.job_map = g.job_map
           /\ h.finished = g.finished
           /\ h.trap = (g.trap /\ ~(e = 0 /\ g.deferred[e] /\ g.finished))
           /\ \A o \in Engines : o # e => /\ SameEng(g, h, o) /\ h.jn[o] = g.jn[o]
                                         /\ h.deferred[o] = g.deferred[o]
           /\ ~g.deferred[e] => h = g
           /\ g.deferred[e] => h.journal[e] = <<>>
<1> DEFINE h == FinishDeferred(g, e)
           r == g.eng[e]
           j == g.journal[e]
<1>1. /\ Typed(g) /\ ~g.aborted /\ c \in [Engines -> 0..K.E]
      /\ g.trap \in BOOLEAN /\ g.jn \in [Engines -> Nat] /\ g.finished \in BOOLEAN
      /\ g.deferred \in [Engines -> BOOLEAN]
      /\ g.eng \in [Engines -> EngineState] /\ g.journal \in [Engines -> Seq(JEntry)]
  BY Types DEF Base
<1>2. CASE ~g.deferred[e]
  <2>1. h = g
    BY <1>2 DEF FinishDeferred
  <2> QED
    BY <2>1, <1>2, <1>1 DEF SameFrame, SameCounts, SameFlight, SameEng
<1>3. CASE g.deferred[e]
  <2>1. c[e] = SCREEN_H /\ c[e] = K.E /\ ~K.w
    BY <1>3, <1>1, LinesAssumption DEF EngDone, Ctx
  <2> DEFINE r2 == Applied(r, j, Len(j))
             x == [g EXCEPT !.deferred[e] = FALSE]
             a == apply_pending(x, e)
             f == frame_done(a, e)
             d == disarm_trap(f)
  <2>2. /\ Eng(r2, <<>>, g.job_map[e], DrawnOf(g, e), e, c[e], c[e], K)
        /\ r2 \in EngineState
    BY <2>1, EngApply DEF EngDone
  <2>3. /\ Typed(x)
        /\ SameFrame(g, x) /\ SameCounts(g, x) /\ SameEnd(g, x) /\ SameData(g, x)
        /\ SameFlight(g, x) /\ x.inflight = g.inflight /\ x.job = g.job /\ x.job_map = g.job_map
        /\ ~x.deferred[e] /\ \A o \in Engines : o # e => x.deferred[o] = g.deferred[o]
    BY <1>1 DEF Typed, Members, SameFrame, SameCounts, SameEnd, SameFlight, SameData
  <2>4. /\ Typed(a)
        /\ SameFrame(x, a) /\ SameCounts(x, a) /\ SameEnd(x, a) /\ SameJobs(x, a)
        /\ SameFlight(x, a) /\ a.drawn = x.drawn /\ a.eng[e] = r2 /\ a.journal[e] = <<>>
        /\ \A o \in Engines : o # e => a.eng[o] = x.eng[o] /\ a.journal[o] = x.journal[o]
    <3> HIDE DEF x
    <3>1. x.eng = g.eng /\ x.journal = g.journal
      BY <2>3 DEF SameData
    <3> QED
      BY <2>2, <2>3, <3>1, ApplyPendingIs
  <2>5. /\ Typed(f)
        /\ SameFrame(a, f) /\ SameCounts(a, f) /\ SameJobs(a, f) /\ SameData(a, f)
        /\ SameFlight(a, f) /\ f.finished = a.finished /\ f.trap = a.trap
        /\ f.aborted = (a.aborted \/ a.journal[e] # <<>>) /\ f.jn[e] = 0
        /\ \A o \in Engines : o # e => f.jn[o] = a.jn[o]
    <3> HIDE DEF a
    <3> QED
      BY <2>4, FrameDoneIs
  <2>6. /\ Typed(d)
        /\ SameFrame(f, d) /\ SameCounts(f, d) /\ SameJobs(f, d) /\ SameData(f, d)
        /\ SameFlight(f, d) /\ d.finished = f.finished /\ d.aborted = f.aborted /\ d.jn = f.jn
        /\ d.trap = FALSE
    <3> HIDE DEF f
    <3> QED
      BY <2>5, DisarmIs
  <2>7. h = IF ~a.finished THEN a ELSE IF e = 0 THEN d ELSE f
    BY <1>3, Zenon DEF FinishDeferred, EndDeferred
  <2> HIDE DEF d, f, a, x, r2, h
  <2>8. /\ Typed(h) /\ ~h.aborted /\ h.drawn = g.drawn
        /\ SameFrame(g, h) /\ SameCounts(g, h) /\ SameFlight(g, h)
        /\ h.inflight = g.inflight /\ h.job = g.job /\ h.job_map = g.job_map
        /\ h.finished = g.finished
    <3>1. /\ Typed(a) /\ ~a.aborted /\ a.drawn = g.drawn
          /\ SameFrame(g, a) /\ SameCounts(g, a) /\ SameFlight(g, a)
          /\ a.inflight = g.inflight /\ a.job = g.job /\ a.job_map = g.job_map
          /\ a.finished = g.finished
      BY <1>1, <2>3, <2>4 DEF SameFrame, SameCounts, SameFlight, SameJobs, SameEnd, SameData
    <3>2. /\ Typed(f) /\ ~f.aborted /\ f.drawn = g.drawn
          /\ SameFrame(g, f) /\ SameCounts(g, f) /\ SameFlight(g, f)
          /\ f.inflight = g.inflight /\ f.job = g.job /\ f.job_map = g.job_map
          /\ f.finished = g.finished
      BY <3>1, <2>4, <2>5 DEF SameFrame, SameCounts, SameFlight, SameJobs, SameData
    <3>3. /\ Typed(d) /\ ~d.aborted /\ d.drawn = g.drawn
          /\ SameFrame(g, d) /\ SameCounts(g, d) /\ SameFlight(g, d)
          /\ d.inflight = g.inflight /\ d.job = g.job /\ d.job_map = g.job_map
          /\ d.finished = g.finished
      BY <3>2, <2>6 DEF SameFrame, SameCounts, SameFlight, SameJobs, SameData
    <3> QED
      BY <3>1, <3>2, <3>3, <2>7, Zenon
  <2>9. /\ h.eng[e] = r2 /\ h.journal[e] = <<>> /\ ~h.deferred[e]
        /\ h.jn[e] = (IF g.finished THEN 0 ELSE g.jn[e])
        /\ h.trap = (g.trap /\ ~(e = 0 /\ g.deferred[e] /\ g.finished))
        /\ \A o \in Engines : o # e => /\ h.eng[o] = g.eng[o] /\ h.journal[o] = g.journal[o]
                                      /\ h.jn[o] = g.jn[o] /\ h.deferred[o] = g.deferred[o]
    <3>1. /\ a.eng[e] = r2 /\ a.journal[e] = <<>> /\ ~a.deferred[e]
          /\ a.jn[e] = g.jn[e] /\ a.trap = g.trap /\ a.finished = g.finished
          /\ \A o \in Engines : o # e => /\ a.eng[o] = g.eng[o] /\ a.journal[o] = g.journal[o]
                                        /\ a.jn[o] = g.jn[o] /\ a.deferred[o] = g.deferred[o]
      BY <2>3, <2>4 DEF SameJobs, SameEnd, SameData
    <3>2. /\ f.eng[e] = r2 /\ f.journal[e] = <<>> /\ ~f.deferred[e]
          /\ f.jn[e] = 0 /\ f.trap = g.trap
          /\ \A o \in Engines : o # e => /\ f.eng[o] = g.eng[o] /\ f.journal[o] = g.journal[o]
                                        /\ f.jn[o] = g.jn[o] /\ f.deferred[o] = g.deferred[o]
      BY <3>1, <2>5 DEF SameJobs, SameData
    <3>3. /\ d.eng[e] = r2 /\ d.journal[e] = <<>> /\ ~d.deferred[e]
          /\ d.jn[e] = 0 /\ d.trap = FALSE
          /\ \A o \in Engines : o # e => /\ d.eng[o] = g.eng[o] /\ d.journal[o] = g.journal[o]
                                        /\ d.jn[o] = g.jn[o] /\ d.deferred[o] = g.deferred[o]
      BY <3>2, <2>6 DEF SameJobs, SameData
    <3> QED
      BY <3>1, <3>2, <3>3, <2>7, <1>1, <1>3
  <2>10. Base(h, K, c)
    BY <2>8 DEF Base
  <2>11. h.jn[e] \in Len(h.journal[e])..JOURNAL_CAP
    <3>1. Len(j) \in Nat /\ g.jn[e] \in Len(j)..JOURNAL_CAP /\ Len(<<>>) = 0 /\ JOURNAL_CAP \in Nat
      BY <1>1, LimitsAssumption DEF EngDone
    <3> QED
      BY <3>1, <2>9
  <2>12. EngDone(h, K, c, e)
    BY <2>2, <2>8, <2>9, <2>11 DEF EngDone, DrawnOf, SameFrame
  <2>13. \A o \in Engines : o # e => SameEng(g, h, o)
    BY <2>8, <2>9 DEF SameEng, DrawnOf
  <2> QED
    BY <2>8, <2>9, <2>10, <2>12, <2>13, <1>3 DEF h
<1> QED
  BY <1>2, <1>3

\* All that EngOk and EngDone say of engine e is the same of h.
SameSlot(g, h, e) ==
  /\ SameEng(g, h, e) /\ h.inflight[e] = g.inflight[e] /\ h.job[e] = g.job[e]
  /\ h.job_map[e] = g.job_map[e] /\ h.deferred[e] = g.deferred[e] /\ h.deferred[0] = g.deferred[0]
  /\ h.jn[e] = g.jn[e] /\ (h.burst[e] => h.per_line[e])

\* What is known of an engine carries over to such a Gpu.
LEMMA SlotKept ==
  ASSUME NEW K, NEW c, NEW g, NEW h, NEW e, SameSlot(g, h, e)
  PROVE /\ EngOk(g, K, c, e) => EngOk(h, K, c, e)
        /\ EngDone(g, K, c, e) => EngDone(h, K, c, e)
BY Zenon DEF SameSlot, SameEng, EngOk, EngDone, JobOk, PosOf

\* An engine with its job done and none left.
LEMMA DoneOk ==
  ASSUME NEW K, NEW c, NEW g, NEW e, EngDone(g, K, c, e),
         ~g.inflight[e], ~g.deferred[e], g.job_map[e] = <<>>
  PROVE EngOk(g, K, c, e)
BY DEF EngOk, EngDone, JobOk, PosOf

\* join_worker draws every job's lines and leaves none; a deferred engine's
\* journal is applied, and the frame's trap lifted.
LEMMA JoinCore ==
  ASSUME NEW K, Ctx(K), K.vm = vmap, K.ver = ver, NEW g, NEW c, Core(g, K, c)
  PROVE LET h == join_worker(g)
        IN /\ Core(h, K, c) /\ ~in_flight(h)
           /\ \A e \in Engines : ~h.inflight[e] /\ ~h.deferred[e] /\ h.job_map[e] = <<>>
           /\ SameFrame(g, h) /\ SameCounts(g, h) /\ h.finished = g.finished
           /\ h.trap = (g.trap /\ ~(g.deferred[0] /\ g.finished))
           /\ \A e \in Engines : g.deferred[e] => h.journal[e] = <<>>
           /\ \A e \in Engines : ~g.inflight[e] => h.journal[e] = g.journal[e]
           /\ ~in_flight(g) => h = g
           /\ in_flight(g) => ~h.stale
<1> DEFINE h == join_worker(g)
           x1 == FinishJob(g, 1)
           x0 == FinishJob(x1, 0)
           z == [x0 EXCEPT !.inflight = Both(FALSE), !.job = Both(<<1, 0>>), !.scale = FALSE,
                           !.job_map = Both(<<>>), !.stale = FALSE]
           y1 == FinishDeferred(z, 1)
           y0 == FinishDeferred(y1, 0)
<1>0. 0 \in Engines /\ 1 \in Engines /\ \A e \in Engines : e = 0 \/ e = 1
  BY DEF Engines
<1>1. /\ Base(g, K, c) /\ EngOk(g, K, c, 0) /\ EngOk(g, K, c, 1)
      /\ Typed(g) /\ g.trap \in BOOLEAN
      /\ g.deferred \in [Engines -> BOOLEAN]
  BY <1>0, Types DEF Core, Base
<1>2. CASE ~in_flight(g)
  <2>1. h = g
    BY <1>2 DEF join_worker
  <2>2. \A e \in Engines : ~g.inflight[e] /\ ~g.deferred[e] /\ g.job_map[e] = <<>>
    BY <1>0, <1>1, <1>2 DEF in_flight, EngOk, JobOk
  <2> QED
    BY <2>1, <2>2, <1>0, <1>1, <1>2 DEF SameFrame, SameCounts
<1>3. CASE in_flight(g)
  <2>1. h = y0
    BY <1>3 DEF join_worker
  <2>2. /\ Base(x1, K, c) /\ EngDone(x1, K, c, 1)
        /\ SameFrame(g, x1) /\ SameCounts(g, x1) /\ SameEnd(g, x1) /\ SameJobs(g, x1)
        /\ SameFlight(g, x1)
        /\ \A o \in Engines : o # 1 => SameEng(g, x1, o)
        /\ ~g.inflight[1] => x1 = g
    BY <1>0, <1>1, FinishJobDone
  <2> HIDE DEF x1
  <2>3. EngOk(x1, K, c, 0)
    <3>1. SameSlot(g, x1, 0)
      BY <1>0, <1>1, <2>2 DEF SameSlot, SameFrame, SameEnd, SameJobs, EngOk, JobOk
    <3> QED
      BY <3>1, <1>1, SlotKept
  <2>4. /\ Base(x0, K, c) /\ EngDone(x0, K, c, 0)
        /\ SameFrame(x1, x0) /\ SameCounts(x1, x0) /\ SameEnd(x1, x0) /\ SameJobs(x1, x0)
        /\ SameFlight(x1, x0)
        /\ \A o \in Engines : o # 0 => SameEng(x1, x0, o)
        /\ ~x1.inflight[0] => x0 = x1
    BY <1>0, <2>2, <2>3, FinishJobDone
  <2> HIDE DEF x0
  <2>5. EngDone(x0, K, c, 1)
    <3>1. SameSlot(x1, x0, 1)
      BY <1>0, <2>2, <2>4 DEF SameSlot, SameFrame, SameEnd, SameJobs, EngDone
    <3> QED
      BY <3>1, <2>2, SlotKept
  <2>6. /\ Base(z, K, c)
        /\ SameFrame(x0, z) /\ SameCounts(x0, z) /\ SameEnd(x0, z) /\ SameData(x0, z)
        /\ z.deferred = x0.deferred /\ ~z.scale /\ ~z.stale
        /\ \A e \in Engines : ~z.inflight[e] /\ z.job_map[e] = <<>>
    <3>1. Typed(x0)
      BY <2>4 DEF Base
    <3>2. Typed(z)
      <4>1. /\ Both(FALSE) \in [Engines -> BOOLEAN] /\ Both(<<1, 0>>) \in [Engines -> Int \X Int]
            /\ Both(<<>>) \in [Engines -> {<<>>} \cup [Banks -> Places]]
        BY DEF Both
      <4> QED
        BY <3>1, <4>1 DEF Typed, Members
    <3>3. /\ SameFrame(x0, z) /\ SameCounts(x0, z) /\ SameEnd(x0, z) /\ SameData(x0, z)
          /\ z.deferred = x0.deferred /\ ~z.scale /\ ~z.stale
          /\ z.inflight = Both(FALSE) /\ z.job_map = Both(<<>>)
      BY <3>1 DEF Typed, Members, SameFrame, SameCounts, SameEnd, SameData
    <3>4. Base(z, K, c)
      BY <2>4, <3>2, <3>3 DEF Base, SameEnd, SameData
    <3> HIDE DEF z
    <3> QED
      BY <3>3, <3>4 DEF Both
  <2> HIDE DEF z
  <2>7. ASSUME NEW e \in Engines PROVE EngDone(z, K, c, e)
    <3>1. EngDone(x0, K, c, e)
      BY <1>0, <2>4, <2>5
    <3>2. Eng(x0.eng[e], x0.journal[e], z.job_map[e], DrawnOf(x0, e), e, c[e], c[e], K)
      BY <3>1, EngMap DEF EngDone
    <3> QED
      BY <3>1, <3>2, <2>6 DEF EngDone, SameFrame, SameEnd, SameData, DrawnOf
  <2>8. /\ Base(y1, K, c) /\ EngDone(y1, K, c, 1) /\ ~y1.deferred[1]
        /\ SameFrame(z, y1) /\ SameCounts(z, y1) /\ SameFlight(z, y1)
        /\ y1.inflight = z.inflight /\ y1.job = z.job /\ y1.job_map = z.job_map
        /\ y1.finished = z.finished
        /\ y1.trap = (z.trap /\ ~(1 = 0 /\ z.deferred[1] /\ z.finished))
        /\ \A o \in Engines : o # 1 => /\ SameEng(z, y1, o) /\ y1.jn[o] = z.jn[o]
                                      /\ y1.deferred[o] = z.deferred[o]
        /\ z.deferred[1] => y1.journal[1] = <<>>
        /\ ~z.deferred[1] => y1 = z
    BY <1>0, <2>6, <2>7, FinishDeferredDone
  <2> HIDE DEF y1
  <2>9. EngDone(y1, K, c, 0)
    <3>0. EngDone(z, K, c, 0)
      BY <1>0, <2>7
    <3>1. SameSlot(z, y1, 0)
      BY <1>0, <3>0, <2>6, <2>8 DEF SameSlot, SameFrame, EngDone
    <3> QED
      BY <3>0, <3>1, SlotKept
  <2>10. /\ Base(y0, K, c) /\ EngDone(y0, K, c, 0) /\ ~y0.deferred[0]
         /\ SameFrame(y1, y0) /\ SameCounts(y1, y0) /\ SameFlight(y1, y0)
         /\ y0.inflight = y1.inflight /\ y0.job = y1.job /\ y0.job_map = y1.job_map
         /\ y0.finished = y1.finished
         /\ y0.trap = (y1.trap /\ ~(0 = 0 /\ y1.deferred[0] /\ y1.finished))
         /\ \A o \in Engines : o # 0 => /\ SameEng(y1, y0, o) /\ y0.jn[o] = y1.jn[o]
                                       /\ y0.deferred[o] = y1.deferred[o]
         /\ y1.deferred[0] => y0.journal[0] = <<>>
         /\ ~y1.deferred[0] => y0 = y1
    BY <1>0, <2>8, <2>9, FinishDeferredDone
  <2> HIDE DEF y0, h
  <2>11. EngDone(y0, K, c, 1)
    <3>1. Eng(y0.eng[1], y0.journal[1], y0.job_map[1], DrawnOf(y0, 1), 1, c[1], c[1], K)
      BY <1>0, <2>8, <2>10, Zenon DEF EngDone, SameEng
    <3> QED
      BY <1>0, <3>1, <2>8, <2>10 DEF EngDone, SameEng, SameFrame
  <2>12. \A e \in Engines : ~y0.inflight[e] /\ ~y0.deferred[e] /\ y0.job_map[e] = <<>>
    BY <1>0, <2>6, <2>8, <2>10
  <2>13. Core(y0, K, c)
    BY <1>0, <2>10, <2>11, <2>12, DoneOk DEF Core
  <2>14. SameFrame(g, y0) /\ SameCounts(g, y0)
    BY <2>2, <2>4, <2>6, <2>8, <2>10 DEF SameFrame, SameCounts
  <2>15. z.trap = g.trap /\ z.finished = g.finished /\ z.deferred = g.deferred
    BY <2>2, <2>4, <2>6 DEF SameEnd, SameJobs
  <2>16. /\ y0.finished = g.finished
         /\ y0.trap = (g.trap /\ ~(g.deferred[0] /\ g.finished))
    BY <1>0, <1>1, <2>15, <2>8, <2>10
  <2>17. \A e \in Engines : g.deferred[e] => y0.journal[e] = <<>>
    BY <1>0, <2>15, <2>8, <2>10 DEF SameEng
  <2>18. ~in_flight(y0) /\ ~y0.stale
    BY <1>0, <2>12, <2>6, <2>8, <2>10 DEF in_flight, SameFlight
  <2>19. ASSUME NEW e \in Engines, ~g.inflight[e] PROVE y0.journal[e] = g.journal[e]
    <3>1. ~g.deferred[e]
      BY <2>19, <1>0, <1>1 DEF EngOk, JobOk
    <3>2. x1.inflight = g.inflight
      BY <2>2 DEF SameJobs
    <3>3. x0.journal[e] = g.journal[e]
      <4>1. CASE e = 1
        BY <4>1, <2>19, <2>2, <2>4 DEF SameEng
      <4>2. CASE e = 0
        BY <4>2, <2>19, <3>2, <2>2, <2>4, <1>0 DEF SameEng
      <4> QED
        BY <4>1, <4>2, <1>0
    <3>4. z.journal[e] = g.journal[e]
      BY <3>3, <2>6 DEF SameData
    <3>5. CASE e = 1
      BY <3>5, <3>1, <3>4, <2>15, <2>8, <2>10 DEF SameEng
    <3>6. CASE e = 0
      BY <3>6, <3>1, <3>4, <2>15, <2>8, <2>10, <1>0 DEF SameEng
    <3> QED
      BY <3>5, <3>6, <1>0
  <2> QED
    BY <2>1, <2>12, <2>13, <2>14, <2>16, <2>17, <2>18, <2>19, <1>3 DEF h
<1> QED
  BY <1>2, <1>3

-----------------------------------------------------------------------------
(* render_ranges.                                                          *)

\* Ranges that go on from where the engines are, below line E.
Ranges(r, K, c) ==
  /\ r \in [Engines -> Int \X Int]
  /\ \A e \in Engines : has(r, e) => r[e][1] = c[e] /\ r[e][2] < K.E

\* Where the engines are once they are dealt out.
After(r, c) == [e \in Engines |-> IF has(r, e) THEN r[e][2] + 1 ELSE c[e]]

\* With no job an engine's lines have the live map, wherever its job would end.
LEMMA EngCut ==
  ASSUME NEW K, NEW e, NEW r, NEW j, NEW D, NEW p, NEW c, NEW c2,
         Eng(r, j, <<>>, D, e, p, c, K)
  PROVE Eng(r, j, <<>>, D, e, p, c2, K)
<1>1. \A x : MapAt(<<>>, x, c, K.vm) = MapAt(<<>>, x, c2, K.vm)
  BY DEF MapAt
<1> QED
  BY <1>1 DEF Eng

\* Inline draws an engine's range on this thread.
LEMMA InlineCore ==
  ASSUME NEW K, Ctx(K), K.vm = vmap, K.ver = ver, NEW g, NEW c, Core(g, K, c),
         NEW r, Ranges(r, K, c), NEW e \in Engines, ~g.inflight[e]
  PROVE LET h == Inline(g, r, e)
        IN /\ Core(h, K, [c EXCEPT ![e] = After(r, c)[e]])
           /\ SameFrame(g, h) /\ SameCounts(g, h) /\ SameEnd(g, h) /\ SameJobs(g, h)
           /\ SameFlight(g, h)
<1> DEFINE h == Inline(g, r, e)
           c2 == [c EXCEPT ![e] = After(r, c)[e]]
           l == r[e][2]
<1>1. /\ Base(g, K, c) /\ Typed(g) /\ c \in [Engines -> 0..K.E] /\ K.E \in Nat
      /\ \A o \in Engines : EngOk(g, K, c, o)
  BY LinesAssumption DEF Core, Base, Ctx
<1>2. r[e][1] \in Int /\ l \in Int
  BY DEF Ranges
<1>3. CASE ~has(r, e)
  <2>1. h = g /\ c2 = c
    BY <1>1, <1>3 DEF Inline, After
  <2> QED
    BY <2>1 DEF SameFrame, SameCounts, SameEnd, SameJobs, SameFlight
<1>4. CASE has(r, e)
  <2>1. r[e][1] = c[e] /\ l < K.E /\ c[e] <= l /\ PosOf(g, c, e) = c[e]
    BY <1>4 DEF Ranges, has, PosOf
  <2>2. h = step_engine(g, e, PosOf(g, c, e), l)
    BY <2>1, <1>4 DEF Inline
  <2> HIDE DEF l
  <2>3. /\ Base(h, K, c)
        /\ SameFrame(g, h) /\ SameCounts(g, h) /\ SameEnd(g, h) /\ SameJobs(g, h)
        /\ SameFlight(g, h)
        /\ \A o \in Engines : o # e => SameEng(g, h, o)
        /\ Eng(h.eng[e], h.journal[e], h.job_map[e], DrawnOf(h, e), e, l + 1, c[e], K)
        /\ JobOk(h, c, e)
    BY <1>1, <1>2, <2>1, <2>2, CoreStep
  <2> HIDE DEF h
  <2>4. c2[e] = l + 1 /\ c2 \in [Engines -> 0..K.E] /\ \A o \in Engines : o # e => c2[o] = c[o]
    BY <1>1, <1>2, <1>4, <2>1 DEF After, l
  <2> HIDE DEF c2
  <2>5. ~h.inflight[e] /\ h.job_map[e] = <<>> /\ ~h.deferred[e]
    BY <2>3 DEF SameJobs, JobOk
  <2>6. EngOk(h, K, c2, e)
    <3>1. Eng(h.eng[e], h.journal[e], h.job_map[e], DrawnOf(h, e), e, l + 1, c2[e], K)
      BY <2>3, <2>5, EngCut
    <3>2. JobOk(h, c2, e)
      BY <2>3, <2>5 DEF JobOk
    <3> QED
      BY <3>1, <3>2, <2>4, <2>5 DEF EngOk, PosOf
  <2>7. ASSUME NEW o \in Engines, o # e PROVE EngOk(h, K, c2, o)
    <3>1. SameSlot(g, h, o)
      BY <1>1, <2>3, <2>7 DEF SameSlot, SameFrame, SameEnd, SameJobs, EngOk, JobOk
    <3>2. EngOk(h, K, c, o)
      BY <3>1, <1>1, SlotKept
    <3> QED
      BY <3>2, <2>4, <2>7 DEF EngOk, JobOk, PosOf
  <2>8. Core(h, K, c2)
    BY <2>3, <2>4, <2>6, <2>7 DEF Core, Base
  <2> QED
    BY <2>3, <2>8 DEF h, c2
<1> QED
  BY <1>3, <1>4

\* A decision that hands out only lines there are.
Sane(d, r) ==
  /\ d.stash \in BOOLEAN /\ d.hand \in [Engines -> BOOLEAN] /\ d.deferred \in [Engines -> BOOLEAN]
  /\ d.stash => has(r, 1) /\ ~d.hand[1] /\ ~d.deferred[0]
  /\ \A e \in Engines : /\ d.hand[e] => has(r, e)
                        /\ d.deferred[e] => d.hand[e] /\ d.deferred[0] /\ r[e][2] = SCREEN_H - 1
                        /\ d.deferred[0] /\ d.hand[e] => d.deferred[e]

\* Decide hands out only lines there are, and defers only a trapped engine's.
LEMMA DecideSane ==
  ASSUME NEW g, NEW r \in [Engines -> Int \X Int], NEW parked \in BOOLEAN,
         Typed(g)
  PROVE /\ Sane(Decide(g, r, parked), r)
        /\ \A e \in Engines : Decide(g, r, parked).deferred[e] => Guarded(g, e)
<1>1. 0 \in Engines /\ 1 \in Engines /\ \A e \in Engines : e = 0 \/ e = 1
  BY DEF Engines
<1>2. \A e \in Engines : len(r, e) >= Long => has(r, e)
  BY LinesAssumption DEF len, has
<1>3. g.lag \in BOOLEAN
  BY Types
<1> DEFINE ToEnd(e) == has(r, e) /\ r[e][2] = SCREEN_H - 1
           DeferA == /\ ToEnd(0) /\ Guarded(g, 0)
                     /\ len(r, 0) >= Long \/ (~parked /\ len(r, 0) >= len(r, 1))
           DeferB == DeferA /\ Split /\ ToEnd(1) /\ len(r, 1) >= Long /\ Guarded(g, 1)
           Lag == ~DeferA /\ g.lag /\ (has(r, 0) \/ (has(r, 1) /\ Scaling))
           HandB == ~DeferA /\ ~Lag /\ has(r, 1) /\ (len(r, 1) >= Long \/ ~parked)
           dc == Decide(g, r, parked)
<1>4. /\ dc.stash = (Lag /\ has(r, 1) /\ Scaling)
      /\ dc.deferred = [e \in Engines |-> IF e = 0 THEN DeferA ELSE DeferB]
      /\ dc.hand = [e \in Engines |-> IF e = 0 THEN DeferA \/ (Lag /\ has(r, 0)) ELSE DeferB \/ HandB]
  BY Zenon DEF Decide
<1>5. /\ ToEnd(0) => has(r, 0) /\ r[0][2] = SCREEN_H - 1
      /\ ToEnd(1) => has(r, 1) /\ r[1][2] = SCREEN_H - 1
      /\ DeferA => ToEnd(0) /\ Guarded(g, 0)
      /\ DeferB => DeferA /\ ToEnd(1) /\ Guarded(g, 1)
      /\ Lag => ~DeferA
      /\ HandB => ~DeferA /\ ~Lag /\ has(r, 1)
      /\ Lag \in BOOLEAN /\ DeferA \in BOOLEAN /\ DeferB \in BOOLEAN /\ HandB \in BOOLEAN
  BY <1>3
<1> HIDE DEF dc, ToEnd, DeferA, DeferB, Lag, HandB
<1>6. /\ dc.deferred[0] = DeferA /\ dc.deferred[1] = DeferB
      /\ dc.hand[0] = (DeferA \/ (Lag /\ has(r, 0))) /\ dc.hand[1] = (DeferB \/ HandB)
  BY <1>1, <1>4
<1>7. /\ dc.stash \in BOOLEAN /\ dc.hand \in [Engines -> BOOLEAN]
      /\ dc.deferred \in [Engines -> BOOLEAN]
  BY <1>4, <1>5
<1>8. dc.stash => has(r, 1) /\ ~dc.hand[1] /\ ~dc.deferred[0]
  BY <1>4, <1>5, <1>6
<1>9. /\ dc.hand[0] => has(r, 0)
      /\ dc.deferred[0] => dc.hand[0] /\ r[0][2] = SCREEN_H - 1 /\ Guarded(g, 0)
      /\ dc.hand[1] => has(r, 1)
      /\ dc.deferred[1] => dc.hand[1] /\ dc.deferred[0] /\ r[1][2] = SCREEN_H - 1 /\ Guarded(g, 1)
      /\ dc.deferred[0] /\ dc.hand[1] => dc.deferred[1]
  BY <1>5, <1>6
<1>10. \A e \in Engines : /\ dc.hand[e] => has(r, e)
                          /\ dc.deferred[e] => dc.hand[e] /\ dc.deferred[0] /\ r[e][2] = SCREEN_H - 1
                          /\ dc.deferred[0] /\ dc.hand[e] => dc.deferred[e]
                          /\ dc.deferred[e] => Guarded(g, e)
  BY <1>1, <1>9
<1>11. Sane(dc, r)
  BY <1>7, <1>8, <1>10 DEF Sane
<1>12. \A e \in Engines : dc.deferred[e] => Guarded(g, e)
  BY <1>10, Zenon
<1> QED
  BY <1>11, <1>12, Zenon DEF dc

\* The ranges dealt out: an engine's lines are drawn, or its worker's job.
LEMMA Dealt ==
  ASSUME NEW K, Ctx(K), K.vm = vmap, K.ver = ver, NEW g, NEW c, Core(g, K, c),
         \A e \in Engines : ~g.inflight[e] /\ ~g.deferred[e],
         NEW r, Ranges(r, K, c), NEW d, Sane(d, r)
  PROVE LET h == Here(Here(Hand(Stash(g, r, d), r, d), r, d, 0), r, d, 1)
        IN /\ Core(h, K, After(r, c))
           /\ SameFrame(g, h) /\ SameCounts(g, h) /\ SameEnd(g, h) /\ h.stale = g.stale
           /\ h.inflight = d.hand /\ h.deferred = d.deferred
           /\ \A e \in Engines : d.hand[e] => h.job_map[e] = vmap
<1> DEFINE s == Stash(g, r, d)
           a == Hand(s, r, d)
           b == Here(a, r, d, 0)
           h == Here(b, r, d, 1)
           C == After(r, c)
           c1 == [e \in Engines |-> IF e = 1 /\ d.stash THEN C[e] ELSE c[e]]
           c2 == [e \in Engines |-> IF d.hand[e] THEN C[e] ELSE c1[e]]
           c3 == [e \in Engines |-> IF e = 0 THEN C[e] ELSE c2[e]]
<1>0. 0 \in Engines /\ 1 \in Engines /\ \A e \in Engines : e = 0 \/ e = 1
  BY DEF Engines
<1>1. /\ Typed(g) /\ Base(g, K, c) /\ c \in [Engines -> 0..K.E] /\ K.E \in Nat
      /\ C \in [Engines -> Int] /\ r \in [Engines -> Int \X Int]
      /\ \A e \in Engines : has(r, e) => r[e][1] = c[e] /\ r[e][2] < K.E
  BY LinesAssumption DEF Core, Base, Ctx, After, Ranges
<1>2. /\ d.stash \in BOOLEAN /\ d.hand \in [Engines -> BOOLEAN]
      /\ d.deferred \in [Engines -> BOOLEAN]
      /\ d.stash => has(r, 1) /\ ~d.hand[1] /\ ~d.deferred[0]
      /\ \A e \in Engines : /\ d.hand[e] => has(r, e)
                            /\ d.deferred[e] => /\ d.hand[e] /\ d.deferred[0]
                                                /\ r[e][2] = SCREEN_H - 1
  BY DEF Sane
<1>3. C \in [Engines -> 0..K.E]
  <2>1. \A e \in Engines : has(r, e) => r[e][2] + 1 \in 0..K.E
    BY <1>1 DEF has
  <2> QED
    BY <2>1, <1>1 DEF After
<1>4. Core(s, K, c1) /\ SameFrame(g, s) /\ SameCounts(g, s) /\ SameEnd(g, s) /\ SameJobs(g, s)
      /\ s.stale = g.stale
  <2>1. CASE ~d.stash
    <3>1. s = g /\ c1 = c
      BY <2>1, <1>1, <1>2 DEF Stash
    <3> QED
      BY <3>1 DEF SameFrame, SameCounts, SameEnd, SameJobs
  <2>2. CASE d.stash
    <3> DEFINE x == Inline(g, r, 1)
    <3>1. c1 = [c EXCEPT ![1] = C[1]]
      BY <2>2, <1>0, <1>1
    <3>2. /\ Core(x, K, c1)
          /\ SameFrame(g, x) /\ SameCounts(g, x) /\ SameEnd(g, x) /\ SameJobs(g, x)
          /\ SameFlight(g, x)
      BY <3>1, <1>0, <1>1, InlineCore
    <3> HIDE DEF x, c1
    <3>3. s = [x EXCEPT !.scale = TRUE]
      BY <2>2 DEF Stash, x
    <3>4. Typed(x) /\ Base(x, K, c1)
      BY <3>2 DEF Core, Base
    <3>5. /\ Typed(s) /\ SameFrame(x, s) /\ SameCounts(x, s) /\ SameEnd(x, s) /\ SameJobs(x, s)
          /\ s.stale = x.stale /\ SameData(x, s)
      BY <3>3, <3>4 DEF Typed, Members, SameFrame, SameCounts, SameEnd, SameJobs, SameData
    <3> HIDE DEF s
    <3>6. Core(s, K, c1)
      <4>1. Base(s, K, c1)
        BY <3>4, <3>5 DEF Base, SameEnd, SameData
      <4>2. \A e \in Engines : SameSlot(x, s, e)
        BY <3>2, <3>5 DEF SameSlot, SameEng, SameFrame, SameEnd, SameJobs, SameData, DrawnOf,
                          Core, EngOk, JobOk
      <4> QED
        BY <4>1, <4>2, <3>2, SlotKept DEF Core
    <3> QED
      BY <3>2, <3>5, <3>6 DEF SameFrame, SameCounts, SameEnd, SameJobs, SameFlight
  <2> QED
    BY <2>1, <2>2, <1>2
<1> HIDE DEF s
<1>5. \A e \in Engines : ~s.inflight[e] /\ s.job_map[e] = <<>>
  BY <1>4 DEF SameJobs, Core, EngOk, JobOk
<1>6. Typed(s) /\ Base(s, K, c1)
  BY <1>4 DEF Core, Base
<1>7. \A e \in Engines : d.hand[e] => c1[e] = c[e] /\ C[e] = r[e][2] + 1 /\ c[e] <= r[e][2]
  BY <1>0, <1>1, <1>2 DEF After, has
<1>8. c2 \in [Engines -> 0..K.E]
  BY <1>1, <1>3
<1> HIDE DEF c1
<1>9. /\ Typed(a) /\ SameFrame(s, a) /\ SameCounts(s, a) /\ SameEnd(s, a) /\ SameData(s, a)
      /\ a.stale = s.stale /\ a.inflight = d.hand /\ a.deferred = d.deferred
      /\ \A e \in Engines : IF d.hand[e] THEN a.job_map[e] = vmap /\ a.job[e] = r[e]
                            ELSE a.job_map[e] = <<>> /\ a.job[e] = s.job[e]
  <2> DEFINE jb == [e \in Engines |-> IF d.hand[e] THEN r[e] ELSE s.job[e]]
             jm == [e \in Engines |-> IF d.hand[e] THEN vmap ELSE s.job_map[e]]
  <2>1. a = [s EXCEPT !.job = jb, !.job_map = jm, !.inflight = d.hand, !.deferred = d.deferred]
    BY <1>6 DEF Hand, Typed, Members
  <2>2. jb \in [Engines -> Int \X Int] /\ jm \in [Engines -> {<<>>} \cup [Banks -> Places]]
    BY <1>1, <1>6, Types DEF Ctx
  <2>3. \A e \in Engines : IF d.hand[e] THEN jm[e] = vmap /\ jb[e] = r[e]
                           ELSE jm[e] = <<>> /\ jb[e] = s.job[e]
    BY <1>5
  <2> HIDE DEF jb, jm, a
  <2>4. /\ Typed(a) /\ a.job = jb /\ a.job_map = jm /\ a.inflight = d.hand
        /\ a.deferred = d.deferred
    BY <2>1, <2>2, <1>6, <1>2 DEF Typed, Members
  <2>5. /\ SameFrame(s, a) /\ SameCounts(s, a) /\ SameEnd(s, a) /\ SameData(s, a)
        /\ a.stale = s.stale
    BY <2>1, <1>6 DEF Typed, Members, SameFrame, SameCounts, SameEnd, SameData
  <2> QED
    BY <2>3, <2>4, <2>5
<1> HIDE DEF a
<1>10. ASSUME NEW e \in Engines PROVE EngOk(a, K, c2, e)
  <2>1. /\ JobOk(s, c1, e) /\ PosOf(s, c1, e) = c1[e]
        /\ Eng(s.eng[e], s.journal[e], <<>>, DrawnOf(s, e), e, c1[e], c1[e], K)
    BY <1>4, <1>5 DEF Core, EngOk, PosOf
  <2>2. /\ a.jn[e] \in Len(a.journal[e])..JOURNAL_CAP /\ (a.burst[e] => a.per_line[e])
    BY <2>1, <1>9 DEF JobOk, SameFrame, SameEnd, SameData
  <2>3. a.eng[e] = s.eng[e] /\ a.journal[e] = s.journal[e] /\ DrawnOf(a, e) = DrawnOf(s, e)
    BY <1>9 DEF SameData, DrawnOf
  <2>4. CASE ~d.hand[e]
    <3>1. c2[e] = c1[e] /\ a.job_map[e] = <<>> /\ ~a.inflight[e] /\ ~a.deferred[e]
      BY <2>4, <1>2, <1>9
    <3> QED
      BY <2>1, <2>2, <2>3, <3>1 DEF EngOk, JobOk, PosOf
  <2>5. CASE d.hand[e]
    <3>1. /\ c2[e] = r[e][2] + 1 /\ c2[e] - 1 = r[e][2] /\ r[e][1] = c1[e] /\ c1[e] <= c2[e]
          /\ a.job_map[e] = vmap /\ a.job[e] = r[e] /\ a.inflight[e]
      <4>1. r[e][1] \in Int /\ r[e][2] \in Int /\ r[e][1] = c[e] /\ c1[e] = c[e]
        BY <2>5, <1>1, <1>2, <1>7
      <4> QED
        BY <2>5, <1>1, <1>7, <1>9, <4>1
    <3>2. vmap # <<>>
      <4>1. DOMAIN vmap = Banks /\ Banks # {}
        BY BanksAssumption DEF Ctx
      <4> QED
        BY <4>1
    <3>3. a.deferred[e] => a.deferred[0] /\ c2[e] = SCREEN_H
      <4>1. a.deferred[e] => d.deferred[0] /\ r[e][2] = SCREEN_H - 1
        BY <1>2, <1>9
      <4> QED
        BY <4>1, <3>1, <1>9, LinesAssumption
    <3>4. JobOk(a, c2, e)
      BY <2>2, <3>1, <3>2, <3>3 DEF JobOk
    <3>5. Eng(a.eng[e], a.journal[e], vmap, DrawnOf(a, e), e, c1[e], c2[e], K)
      <4>1. \A x : MapAt(<<>>, x, c1[e], K.vm) = MapAt(vmap, x, c2[e], K.vm)
        BY DEF MapAt
      <4> QED
        BY <2>1, <2>3, <4>1 DEF Eng
    <3> QED
      BY <3>1, <3>4, <3>5 DEF EngOk, PosOf
  <2> QED
    BY <2>4, <2>5, <1>2
<1>11. Core(a, K, c2)
  <2>1. Base(a, K, c2)
    BY <1>6, <1>8, <1>9 DEF Base, SameEnd, SameData
  <2> HIDE DEF c2
  <2> QED
    BY <2>1, <1>10 DEF Core
<1>13. c3 = [c2 EXCEPT ![0] = C[0]] /\ C = [c3 EXCEPT ![1] = C[1]]
  BY <1>0, <1>1
<1>14. /\ ~d.hand[0] => c2[0] = c[0]
       /\ d.hand[0] => c2[0] = C[0]
       /\ ~d.hand[1] /\ ~d.stash => c3[1] = c[1]
       /\ d.hand[1] \/ d.stash => c3[1] = C[1]
  BY <1>0, <1>2 DEF c1
<1>15. /\ Core(b, K, c3) /\ SameFrame(a, b) /\ SameCounts(a, b) /\ SameEnd(a, b)
       /\ SameJobs(a, b) /\ SameFlight(a, b)
  <2>1. CASE d.hand[0]
    <3>1. b = a
      BY <2>1, <1>2 DEF Here
    <3>2. c3 = c2
      BY <2>1, <1>8, <1>13, <1>14, <1>0
    <3> HIDE DEF c3, c2, b
    <3> QED
      BY <3>1, <3>2, <1>11 DEF SameFrame, SameCounts, SameEnd, SameJobs, SameFlight
  <2>2. CASE ~d.hand[0]
    <3>1. b = Inline(a, r, 0) /\ ~a.inflight[0]
      BY <2>2, <1>2, <1>9 DEF Here
    <3> DEFINE q == [r EXCEPT ![1] = <<1, 0>>]
    <3>2. Ranges(q, K, c2) /\ After(q, c2)[0] = C[0]
      BY <2>2, <1>0, <1>1, <1>14 DEF Ranges, has, After
    <3>3. Inline(a, r, 0) = Inline(a, q, 0)
      BY <1>0, <1>1 DEF Inline, has
    <3>4. c3 = [c2 EXCEPT ![0] = After(q, c2)[0]]
      BY <3>2, <1>13
    <3> HIDE DEF c3, c2, C, b, q
    <3>5. LET z == Inline(a, q, 0)
          IN /\ Core(z, K, [c2 EXCEPT ![0] = After(q, c2)[0]])
             /\ SameFrame(a, z) /\ SameCounts(a, z) /\ SameEnd(a, z) /\ SameJobs(a, z)
             /\ SameFlight(a, z)
      BY <3>1, <3>2, <1>0, <1>11, InlineCore
    <3> QED
      BY <3>1, <3>3, <3>4, <3>5
  <2> QED
    BY <2>1, <2>2, <1>2
<1> HIDE DEF b
<1>16. /\ Core(h, K, C) /\ SameFrame(b, h) /\ SameCounts(b, h) /\ SameEnd(b, h)
       /\ SameJobs(b, h) /\ SameFlight(b, h)
  <2>1. CASE d.hand[1] \/ d.stash
    <3>1. h = b
      BY <2>1, <1>2 DEF Here
    <3>2. C = c3
      BY <2>1, <1>1, <1>13, <1>14, <1>0
    <3> HIDE DEF c3, h, C
    <3> QED
      BY <3>1, <3>2, <1>15 DEF SameFrame, SameCounts, SameEnd, SameJobs, SameFlight
  <2>2. CASE ~d.hand[1] /\ ~d.stash
    <3>1. h = Inline(b, r, 1) /\ ~b.inflight[1]
      BY <2>2, <1>2, <1>9, <1>15 DEF Here, SameJobs
    <3> DEFINE q == [r EXCEPT ![0] = <<1, 0>>]
    <3>2. Ranges(q, K, c3) /\ After(q, c3)[1] = C[1]
      BY <2>2, <1>0, <1>1, <1>14 DEF Ranges, has, After
    <3>3. Inline(b, r, 1) = Inline(b, q, 1)
      BY <1>0, <1>1 DEF Inline, has
    <3>4. C = [c3 EXCEPT ![1] = After(q, c3)[1]]
      BY <3>2, <1>13
    <3> HIDE DEF c3, C, h, q
    <3>5. LET z == Inline(b, q, 1)
          IN /\ Core(z, K, [c3 EXCEPT ![1] = After(q, c3)[1]])
             /\ SameFrame(b, z) /\ SameCounts(b, z) /\ SameEnd(b, z) /\ SameJobs(b, z)
             /\ SameFlight(b, z)
      BY <3>1, <3>2, <1>0, <1>15, InlineCore
    <3> QED
      BY <3>1, <3>3, <3>4, <3>5
  <2> QED
    BY <2>1, <2>2, <1>2
<1> HIDE DEF h, C
<1>17. /\ SameFrame(g, h) /\ SameCounts(g, h) /\ SameEnd(g, h) /\ h.stale = g.stale
       /\ h.inflight = d.hand /\ h.deferred = d.deferred /\ h.job_map = a.job_map
  BY <1>4, <1>9, <1>15, <1>16 DEF SameFrame, SameCounts, SameEnd, SameJobs, SameFlight
<1> QED
  BY <1>9, <1>16, <1>17 DEF h, C, b, a, s

\* The job that is dealt out, joined unless it may stay in flight.
LEMMA Rejoined ==
  ASSUME NEW K, Ctx(K), K.vm = vmap, K.ver = ver, NEW g, NEW c, Core(g, K, c), ~g.finished,
         \A e \in Engines : ~g.deferred[e],
         NEW r, Ranges(r, K, c), NEW parked \in BOOLEAN
  PROVE LET j == join_worker(g)
            d == Decide(j, r, parked)
            h == Rejoin(Here(Here(Hand(Stash(j, r, d), r, d), r, d, 0), r, d, 1), r, d)
        IN /\ Core(h, K, After(r, c))
           /\ SameFrame(g, h) /\ SameCounts(g, h) /\ h.finished = g.finished /\ h.trap = g.trap
           /\ Sane(d, r)
           /\ \A e \in Engines : d.deferred[e] => Guarded(g, e)
           /\ d.deferred[0] => h.inflight = d.hand /\ h.deferred = d.deferred
           /\ ~d.deferred[0] => \A e \in Engines : ~h.deferred[e]
           /\ \A e \in Engines : h.inflight[e] =>
                /\ h.job_map[e] = vmap
                /\ d.deferred[0] \/ (g.lag /\ LastOf(r) < SCREEN_H - 1 /\ (e = 1 => Guarded(g, 1)))
           /\ (g.stale => in_flight(g)) => ~h.stale
<1> DEFINE j == join_worker(g)
           d == Decide(j, r, parked)
           t == Here(Here(Hand(Stash(j, r, d), r, d), r, d, 0), r, d, 1)
           h == Rejoin(t, r, d)
           C == After(r, c)
<1>0. 0 \in Engines /\ 1 \in Engines /\ \A e \in Engines : e = 0 \/ e = 1
  BY DEF Engines
<1>1. /\ Core(j, K, c) /\ ~in_flight(j)
      /\ \A e \in Engines : ~j.inflight[e] /\ ~j.deferred[e] /\ j.job_map[e] = <<>>
      /\ SameFrame(g, j) /\ SameCounts(g, j) /\ j.finished = g.finished
      /\ j.trap = (g.trap /\ ~(g.deferred[0] /\ g.finished))
      /\ ~in_flight(g) => j = g
      /\ in_flight(g) => ~j.stale
  BY JoinCore
<1>2. g.trap \in BOOLEAN /\ Typed(g)
  BY Types DEF Core, Base
<1>3. j.trap = g.trap /\ ((g.stale => in_flight(g)) => ~j.stale)
  BY <1>0, <1>1, <1>2
<1> HIDE DEF j
<1>4. Typed(j) /\ r \in [Engines -> Int \X Int]
  BY <1>1 DEF Core, Base, Ranges
<1>5. Sane(d, r) /\ \A e \in Engines : d.deferred[e] => Guarded(j, e)
  BY <1>4, DecideSane
<1>6. \A e \in Engines : Guarded(j, e) = Guarded(g, e)
  BY <1>1, <1>3, Zenon DEF Guarded, SameFrame
<1> HIDE DEF d
<1>7. /\ Core(t, K, C)
      /\ SameFrame(j, t) /\ SameCounts(j, t) /\ SameEnd(j, t) /\ t.stale = j.stale
      /\ t.inflight = d.hand /\ t.deferred = d.deferred
      /\ \A e \in Engines : d.hand[e] => t.job_map[e] = vmap
  BY <1>1, <1>5, Dealt
<1> HIDE DEF t, C
<1>8. SameFrame(g, t) /\ SameCounts(g, t) /\ t.finished = g.finished /\ t.trap = g.trap
  BY <1>1, <1>3, <1>7 DEF SameFrame, SameCounts, SameEnd
<1>9. Guarded(t, 1) = Guarded(g, 1)
  BY <1>8, Zenon DEF Guarded, SameFrame
<1>10. CASE d.deferred[0]
  <2>1. h = t
    BY <1>10 DEF Rejoin
  <2> HIDE DEF h
  <2> QED
    BY <2>1, <1>3, <1>5, <1>6, <1>7, <1>8, <1>10 DEF h, t, d, j, C
<1>11. CASE ~d.deferred[0]
  <2>0. \A e \in Engines : ~d.deferred[e]
    BY <1>0, <1>5, <1>11 DEF Sane
  <2>1. CASE h = t /\ t.lag /\ LastOf(r) < SCREEN_H - 1 /\ ~((d.hand[1] \/ d.stash) /\ ~Guarded(t, 1))
    <3>1. \A e \in Engines : h.inflight[e] =>
                /\ h.job_map[e] = vmap
                /\ d.deferred[0] \/ (g.lag /\ LastOf(r) < SCREEN_H - 1 /\ (e = 1 => Guarded(g, 1)))
      <4> SUFFICES ASSUME NEW e \in Engines, h.inflight[e]
                   PROVE /\ h.job_map[e] = vmap
                         /\ g.lag /\ LastOf(r) < SCREEN_H - 1 /\ (e = 1 => Guarded(g, 1))
        OBVIOUS
      <4> QED
        BY <2>1, <1>7, <1>8, <1>9 DEF SameFrame
    <3> HIDE DEF h
    <3> QED
      BY <3>1, <2>0, <2>1, <1>3, <1>5, <1>6, <1>7, <1>8, <1>11 DEF h, t, d, j, C
  <2>2. CASE h = join_worker(t)
    <3> HIDE DEF h
    <3> DEFINE z == join_worker(t)
    <3>0. /\ Core(z, K, C)
          /\ \A e \in Engines : ~z.inflight[e] /\ ~z.deferred[e] /\ z.job_map[e] = <<>>
          /\ SameFrame(t, z) /\ SameCounts(t, z) /\ z.finished = t.finished
          /\ z.trap = (t.trap /\ ~(t.deferred[0] /\ t.finished))
          /\ ~in_flight(t) => z = t
          /\ in_flight(t) => ~z.stale
      <4>1. Core(t, K, C)
        BY <1>7
      <4> QED
        BY <4>1, JoinCore
    <3>1. /\ Core(h, K, C) /\ \A e \in Engines : ~h.inflight[e] /\ ~h.deferred[e]
          /\ SameFrame(t, h) /\ SameCounts(t, h) /\ h.finished = t.finished
          /\ h.trap = (t.trap /\ ~(t.deferred[0] /\ t.finished))
          /\ ~in_flight(t) => h = t
          /\ in_flight(t) => ~h.stale
      BY <2>2, <3>0
    <3>2. SameFrame(g, h) /\ SameCounts(g, h) /\ h.finished = g.finished /\ h.trap = g.trap
      BY <3>1, <1>2, <1>8, <1>7, <1>11 DEF SameFrame, SameCounts
    <3>3. (g.stale => in_flight(g)) => ~h.stale
      BY <3>1, <1>3, <1>7
    <3> QED
      BY <3>1, <3>2, <3>3, <1>5, <1>6, <1>11 DEF h, t, d, j, C
  <2> QED
    BY <2>1, <2>2, <1>11, Zenon DEF Rejoin
<1> QED
  BY <1>10, <1>11

\* What Advance changes.
LEMMA AdvanceIs ==
  ASSUME NEW g, Typed(g), NEW r \in [Engines -> Int \X Int],
         \A e \in Engines : has(r, e) => r[e][2] + 1 \in Nat
  PROVE LET h == Advance(g, r)
        IN /\ Typed(h) /\ SameFrame(g, h) /\ SameEnd(g, h) /\ SameJobs(g, h) /\ SameFlight(g, h)
           /\ SameData(g, h) /\ h.stores = g.stores /\ h.left = g.left /\ h.bursts = g.bursts
           /\ h.next = [e \in Engines |-> IF has(r, e) THEN r[e][2] + 1 ELSE g.next[e]]
<1> DEFINE h == Advance(g, r)
           nx == [e \in Engines |-> IF has(r, e) THEN r[e][2] + 1 ELSE g.next[e]]
<1>1. h = [g EXCEPT !.next = nx]
  BY DEF Advance, Typed, Members
<1>2. nx \in [Engines -> Nat]
  BY Types
<1> HIDE DEF nx, h
<1>3. Typed(h) /\ h.next = nx
  BY <1>1, <1>2 DEF Typed, Members
<1>4. /\ SameFrame(g, h) /\ SameEnd(g, h) /\ SameJobs(g, h) /\ SameFlight(g, h)
      /\ SameData(g, h) /\ h.stores = g.stores /\ h.left = g.left /\ h.bursts = g.bursts
  BY <1>1 DEF Typed, Members, SameFrame, SameEnd, SameJobs, SameFlight, SameData
<1> QED
  BY <1>3, <1>4 DEF nx, h

\* Core does not see next, nor anything else that these leave out.
LEMMA CoreKept ==
  ASSUME NEW K, NEW c, NEW g, Core(g, K, c), NEW h, Typed(h), SameJobs(g, h), SameData(g, h),
         ~h.aborted, h.jn = g.jn, \A e \in Engines : h.burst[e] => h.per_line[e]
  PROVE Core(h, K, c)
<1>1. Base(h, K, c)
  BY DEF Core, Base, SameData
<1>2. \A e \in Engines : SameSlot(g, h, e)
  BY DEF SameSlot, SameEng, SameJobs, SameData, DrawnOf
<1> QED
  BY <1>1, <1>2, SlotKept DEF Core

\* Lines drawn before the frame's last one.
LEMMA RenderMid ==
  ASSUME NEW K, Ctx(K), K.vm = vmap, K.ver = ver, NEW g, NEW c, Core(g, K, c), ~g.finished,
         \A e \in Engines : ~g.deferred[e],
         NEW r, Ranges(r, K, c), NEW parked \in BOOLEAN,
         \E e \in Engines : has(r, e),
         \A e \in Engines : has(r, e) => r[e][2] < SCREEN_H - 1,
         \E e \in Engines : has(r, e) \/ g.next[e] < SCREEN_H
  PROVE LET h == render_ranges(g, r, parked)
        IN /\ Core(h, K, After(r, c))
           /\ SameFrame(g, h) /\ h.stores = g.stores /\ h.left = g.left /\ h.bursts = g.bursts
           /\ h.next = [e \in Engines |-> IF has(r, e) THEN r[e][2] + 1 ELSE g.next[e]]
           /\ h.finished = g.finished /\ h.trap = g.trap
           /\ \A e \in Engines : ~h.deferred[e]
           /\ \A e \in Engines : h.inflight[e] => h.job_map[e] = vmap /\ g.lag /\ (e = 1 => Guarded(g, 1))
           /\ (g.stale => in_flight(g)) => ~h.stale
<1> DEFINE j == join_worker(g)
           d == Decide(j, r, parked)
           q == Rejoin(Here(Here(Hand(Stash(j, r, d), r, d), r, d, 0), r, d, 1), r, d)
           a == Advance(q, r)
           h == render_ranges(g, r, parked)
           C == After(r, c)
           nx == [e \in Engines |-> IF has(r, e) THEN r[e][2] + 1 ELSE g.next[e]]
<1>0. 0 \in Engines
  BY DEF Engines
<1>1. /\ Core(q, K, C)
      /\ SameFrame(g, q) /\ SameCounts(g, q) /\ q.finished = g.finished /\ q.trap = g.trap
      /\ Sane(d, r)
      /\ ~d.deferred[0] => \A e \in Engines : ~q.deferred[e]
      /\ \A e \in Engines : q.inflight[e] =>
           /\ q.job_map[e] = vmap
           /\ d.deferred[0] \/ (g.lag /\ LastOf(r) < SCREEN_H - 1 /\ (e = 1 => Guarded(g, 1)))
      /\ (g.stale => in_flight(g)) => ~q.stale
  BY Rejoined
<1>2. ~d.deferred[0]
  <2> HIDE DEF d
  <2> QED
    BY <1>0, <1>1, LinesAssumption DEF Sane
<1>3. h = Finish(a, d)
  BY DEF render_ranges, Joined, Deal
<1> HIDE DEF q, d
<1>4. /\ Typed(q) /\ Typed(g) /\ ~q.aborted /\ r \in [Engines -> Int \X Int] /\ C \in [Engines -> 0..K.E]
      /\ K.E \in 0..SCREEN_H /\ SCREEN_H \in Nat
      /\ \A e \in Engines : has(r, e) => r[e][2] + 1 = C[e]
  BY <1>1, LinesAssumption DEF Core, Base, Ranges, Ctx, After
<1>5. \A e \in Engines : has(r, e) => r[e][2] + 1 \in Nat
  BY <1>4
<1> HIDE DEF C
<1>6. /\ Typed(a) /\ SameFrame(q, a) /\ SameEnd(q, a) /\ SameJobs(q, a) /\ SameFlight(q, a)
      /\ SameData(q, a) /\ a.stores = q.stores /\ a.left = q.left /\ a.bursts = q.bursts
      /\ a.next = [e \in Engines |-> IF has(r, e) THEN r[e][2] + 1 ELSE q.next[e]]
  BY <1>4, <1>5, AdvanceIs
<1> HIDE DEF a
<1>7. a.next = nx
  BY <1>1, <1>6 DEF SameCounts
<1>8. \E e \in Engines : a.next[e] < SCREEN_H
  <2>1. PICK e \in Engines : has(r, e) \/ g.next[e] < SCREEN_H
    OBVIOUS
  <2>2. has(r, e) => r[e][2] + 1 < SCREEN_H
    BY <1>4
  <2> QED
    BY <2>1, <2>2, <1>7
<1>9. h = a
  BY <1>3, <1>8 DEF Finish
<1>10. Core(a, K, C)
  <2>1. \A e \in Engines : a.burst[e] => a.per_line[e]
    BY <1>1, <1>6 DEF Core, EngOk, JobOk, SameFrame
  <2> QED
    BY <2>1, <1>1, <1>4, <1>6, CoreKept DEF SameEnd
<1> HIDE DEF nx, h
<1>11. /\ SameFrame(g, h) /\ h.stores = g.stores /\ h.left = g.left /\ h.bursts = g.bursts
       /\ h.finished = g.finished /\ h.trap = g.trap
       /\ h.inflight = q.inflight /\ h.job_map = q.job_map /\ h.stale = q.stale
       /\ h.deferred = q.deferred
  BY <1>1, <1>6, <1>9 DEF SameFrame, SameCounts, SameEnd, SameJobs, SameFlight
<1> QED
  BY <1>1, <1>2, <1>7, <1>9, <1>10, <1>11 DEF nx, h, C

\* The lines scanned out are all of the frame's, and it is not past them.
AtEnd(K) == K.E = SCREEN_H /\ K.hi < 2 * SCREEN_H

\* An engine that has drawn the last line has no journal left.
LEMMA EmptyAtEnd ==
  ASSUME NEW K, Ctx(K), NEW e, NEW r, NEW j, NEW jm, NEW D, NEW c,
         Eng(r, j, jm, D, e, SCREEN_H, c, K), AtEnd(K)
  PROVE j = <<>>
<1>1. /\ j \in Seq(JEntry)
      /\ \A i \in 1..Len(j) : 2 * SCREEN_H <= j[i].stamp /\ j[i].stamp <= K.hi
  BY DEF Eng, Jrn
<1>2. ~(1 \in 1..Len(j))
  <2> SUFFICES ASSUME 1 \in 1..Len(j) PROVE FALSE
    OBVIOUS
  <2>1. j[1].stamp \in Nat
    BY <1>1, Entries
  <2> QED
    BY <2>1, <1>1, LinesAssumption DEF Ctx, AtEnd
<1> QED
  BY <1>1, <1>2

\* The end of a frame that is not left to the workers.
LEMMA EndHere ==
  ASSUME NEW K, Ctx(K), K.vm = vmap, K.ver = ver, AtEnd(K),
         NEW f, NEW C, Core(f, K, C), C = Both(SCREEN_H)
  PROVE LET h == disarm_trap(frame_done(frame_done(join_worker(f), 0), 1))
        IN /\ Core(h, K, C) /\ SameFrame(f, h) /\ SameCounts(f, h) /\ h.finished = f.finished
           /\ \A e \in Engines : ~h.inflight[e] /\ ~h.deferred[e] /\ h.journal[e] = <<>>
           /\ ~h.trap
           /\ h.stale => f.stale /\ ~in_flight(f)
<1>0. 0 \in Engines /\ 1 \in Engines /\ \A e \in Engines : e = 0 \/ e = 1
  BY DEF Engines
<1> DEFINE x == join_worker(f)
<1>2. /\ Core(x, K, C)
      /\ \A e \in Engines : ~x.inflight[e] /\ ~x.deferred[e] /\ x.job_map[e] = <<>>
      /\ SameFrame(f, x) /\ SameCounts(f, x) /\ x.finished = f.finished
      /\ x.trap = (f.trap /\ ~(f.deferred[0] /\ f.finished))
      /\ ~in_flight(f) => x = f
      /\ in_flight(f) => ~x.stale
  BY JoinCore
<1> DEFINE y == frame_done(x, 0)
           z == frame_done(y, 1)
           h == disarm_trap(z)
<1> HIDE DEF x
<1>3. \A e \in Engines : x.journal[e] = <<>>
  <2> SUFFICES ASSUME NEW e \in Engines PROVE x.journal[e] = <<>>
    OBVIOUS
  <2>1. Eng(x.eng[e], x.journal[e], x.job_map[e], DrawnOf(x, e), e, SCREEN_H, C[e], K)
    BY <1>2 DEF Core, EngOk, PosOf, Both
  <2> QED
    BY <2>1, EmptyAtEnd
<1>4. /\ Typed(y)
      /\ SameFrame(x, y) /\ SameCounts(x, y) /\ SameJobs(x, y) /\ SameData(x, y)
      /\ SameFlight(x, y) /\ y.finished = x.finished /\ y.trap = x.trap
      /\ y.aborted = (x.aborted \/ x.journal[0] # <<>>) /\ y.jn[0] = 0
      /\ \A o \in Engines : o # 0 => y.jn[o] = x.jn[o]
  BY <1>0, <1>2, FrameDoneIs DEF Core, Base
<1> HIDE DEF y
<1>5. /\ Typed(z)
      /\ SameFrame(y, z) /\ SameCounts(y, z) /\ SameJobs(y, z) /\ SameData(y, z)
      /\ SameFlight(y, z) /\ z.finished = y.finished /\ z.trap = y.trap
      /\ z.aborted = (y.aborted \/ y.journal[1] # <<>>) /\ z.jn[1] = 0
      /\ \A o \in Engines : o # 1 => z.jn[o] = y.jn[o]
  BY <1>0, <1>4, FrameDoneIs
<1>6. h = disarm_trap(z)
  OBVIOUS
<1> HIDE DEF h, z
<1>7. /\ Typed(h)
      /\ SameFrame(z, h) /\ SameCounts(z, h) /\ SameJobs(z, h) /\ SameData(z, h)
      /\ SameFlight(z, h) /\ h.finished = z.finished /\ h.aborted = z.aborted /\ h.jn = z.jn
      /\ h.trap = FALSE
  BY <1>5, <1>6, DisarmIs
<1>8. /\ SameFrame(x, h) /\ SameCounts(x, h) /\ SameJobs(x, h) /\ SameData(x, h)
      /\ SameFlight(x, h) /\ h.finished = x.finished
      /\ \A e \in Engines : h.jn[e] = 0
  <2>1. h.jn[0] = 0 /\ h.jn[1] = 0
    BY <1>0, <1>4, <1>5, <1>7
  <2> QED
    BY <2>1, <1>0, <1>4, <1>5, <1>7 DEF SameFrame, SameCounts, SameJobs, SameData, SameFlight
<1>9. ~h.aborted
  BY <1>0, <1>2, <1>3, <1>4, <1>5, <1>7 DEF Core, Base, SameData
<1>10. Core(h, K, C)
  <2>1. Base(h, K, C)
    BY <1>2, <1>7, <1>8, <1>9 DEF Core, Base, SameData
  <2>2. ASSUME NEW e \in Engines PROVE EngOk(h, K, C, e)
    <3>1. h.jn[e] \in Len(h.journal[e])..JOURNAL_CAP
      <4>1. h.journal[e] = <<>> /\ JOURNAL_CAP \in Nat /\ Len(<<>>) = 0
        BY <1>3, <1>8, LimitsAssumption DEF SameData
      <4> QED
        BY <4>1, <1>8
    <3>2. EngOk(x, K, C, e)
      BY <1>2 DEF Core
    <3>3. JobOk(h, C, e)
      BY <3>1, <3>2, <1>8 DEF EngOk, JobOk, SameFrame, SameJobs
    <3> QED
      BY <3>2, <3>3, <1>8 DEF EngOk, SameJobs, SameData, DrawnOf, PosOf
  <2> QED
    BY <2>1, <2>2 DEF Core
<1>11. \A e \in Engines : ~h.inflight[e] /\ ~h.deferred[e] /\ h.journal[e] = <<>>
  BY <1>2, <1>3, <1>8 DEF SameJobs, SameData
<1>12. h.stale => f.stale /\ ~in_flight(f)
  BY <1>2, <1>8 DEF SameFlight
<1>13. SameFrame(f, h) /\ SameCounts(f, h) /\ h.finished = f.finished
  BY <1>2, <1>8 DEF SameFrame, SameCounts
<1> QED
  BY <1>7, <1>10, <1>11, <1>12, <1>13 DEF h, z, y, x

\* The last line of both engines: the frame ends, or is left to their workers.
LEMMA RenderLast ==
  ASSUME NEW K, Ctx(K), K.vm = vmap, K.ver = ver, AtEnd(K),
         NEW g, NEW c, Core(g, K, c), ~g.finished, \A e \in Engines : ~g.deferred[e],
         NEW r, Ranges(r, K, c), NEW parked \in BOOLEAN,
         \A e \in Engines : has(r, e) /\ r[e][2] = SCREEN_H - 1
  PROVE LET h == render_ranges(g, r, parked)
        IN /\ Core(h, K, Both(SCREEN_H))
           /\ SameFrame(g, h) /\ h.stores = g.stores /\ h.left = g.left /\ h.bursts = g.bursts
           /\ h.next = Both(SCREEN_H) /\ h.finished
           /\ \A e \in Engines : /\ h.inflight[e] => h.deferred[e] /\ h.job_map[e] = vmap
                                 /\ ~h.inflight[e] => h.journal[e] = <<>>
                                 /\ h.deferred[e] => Guarded(g, e) /\ h.trap = g.trap
           /\ ~h.deferred[0] => ~h.trap
           /\ (g.stale => in_flight(g)) => ~h.stale
<1> DEFINE j == join_worker(g)
           d == Decide(j, r, parked)
           q == Rejoin(Here(Here(Hand(Stash(j, r, d), r, d), r, d, 0), r, d, 1), r, d)
           a == Advance(q, r)
           f == [a EXCEPT !.finished = TRUE]
           h == render_ranges(g, r, parked)
           C == Both(SCREEN_H)
<1>0. 0 \in Engines /\ 1 \in Engines /\ \A e \in Engines : e = 0 \/ e = 1
  BY DEF Engines
<1>1. /\ Core(q, K, After(r, c))
      /\ SameFrame(g, q) /\ SameCounts(g, q) /\ q.finished = g.finished /\ q.trap = g.trap
      /\ Sane(d, r)
      /\ \A e \in Engines : d.deferred[e] => Guarded(g, e)
      /\ d.deferred[0] => q.inflight = d.hand /\ q.deferred = d.deferred
      /\ ~d.deferred[0] => \A e \in Engines : ~q.deferred[e]
      /\ \A e \in Engines : q.inflight[e] =>
           /\ q.job_map[e] = vmap
           /\ d.deferred[0] \/ (g.lag /\ LastOf(r) < SCREEN_H - 1 /\ (e = 1 => Guarded(g, 1)))
      /\ (g.stale => in_flight(g)) => ~q.stale
  BY Rejoined
<1>3. h = Finish(a, d)
  BY <1>0 DEF render_ranges, Joined, Deal
<1> HIDE DEF q, d
<1>4. /\ Typed(q) /\ ~q.aborted /\ r \in [Engines -> Int \X Int]
      /\ SCREEN_H \in Nat /\ \A e \in Engines : r[e][2] + 1 = SCREEN_H /\ has(r, e)
  BY <1>1, LinesAssumption DEF Core, Base, Ranges
<1>5. After(r, c) = C
  BY <1>4 DEF After, Both
<1>6. /\ Typed(a) /\ SameFrame(q, a) /\ SameEnd(q, a) /\ SameJobs(q, a) /\ SameFlight(q, a)
      /\ SameData(q, a) /\ a.stores = q.stores /\ a.left = q.left /\ a.bursts = q.bursts
      /\ a.next = [e \in Engines |-> IF has(r, e) THEN r[e][2] + 1 ELSE q.next[e]]
  BY <1>4, AdvanceIs
<1> HIDE DEF a
<1>7. a.next = C
  BY <1>4, <1>6 DEF Both
<1>8. /\ Typed(f) /\ SameFrame(q, f) /\ SameJobs(q, f) /\ SameFlight(q, f)
      /\ SameData(q, f) /\ f.stores = q.stores /\ f.left = q.left /\ f.bursts = q.bursts
      /\ f.next = C /\ f.finished /\ f.trap = g.trap /\ ~f.aborted /\ f.jn = q.jn
  BY <1>1, <1>4, <1>6, <1>7 DEF Typed, Members, SameFrame, SameJobs, SameFlight, SameData, SameEnd
<1>9. Core(f, K, C)
  <2>1. \A e \in Engines : f.burst[e] => f.per_line[e]
    BY <1>1, <1>8 DEF Core, EngOk, JobOk, SameFrame
  <2> QED
    BY <2>1, <1>1, <1>5, <1>8, CoreKept
<1>10. h = IF d.deferred[1] THEN f
           ELSE IF d.deferred[0] THEN frame_done(f, 1)
           ELSE disarm_trap(frame_done(frame_done(join_worker(f), 0), 1))
  <2>1. \A e \in Engines : ~(a.next[e] < SCREEN_H)
    BY <1>4, <1>7 DEF Both
  <2>2. ~a.finished
    BY <1>1, <1>6 DEF SameEnd
  <2> QED
    BY <1>3, <2>1, <2>2 DEF Finish
<1>11. SameFrame(g, f) /\ f.stores = g.stores /\ f.left = g.left /\ f.bursts = g.bursts
  BY <1>1, <1>8 DEF SameFrame, SameCounts
<1>12. ASSUME NEW e \in Engines, ~f.inflight[e] PROVE f.journal[e] = <<>>
  <2>1. Eng(f.eng[e], f.journal[e], f.job_map[e], DrawnOf(f, e), e, SCREEN_H, C[e], K)
    BY <1>9, <1>12 DEF Core, EngOk, PosOf, Both
  <2> HIDE DEF C, f
  <2> QED
    BY <2>1, EmptyAtEnd
<1>13. (g.stale => in_flight(g)) => ~f.stale
  BY <1>1, <1>8 DEF SameFlight
<1> HIDE DEF f, h, C
<1>14. CASE d.deferred[0]
  <2>1. f.inflight = d.hand /\ f.deferred = d.deferred
    BY <1>1, <1>8, <1>14 DEF SameJobs
  <2>2. \A e \in Engines : /\ f.inflight[e] => f.deferred[e] /\ f.job_map[e] = vmap
                           /\ f.deferred[e] => Guarded(g, e)
    BY <1>1, <1>8, <1>14, <2>1 DEF Sane, SameJobs
  <2>3. CASE d.deferred[1]
    <3>1. h = f
      BY <1>10, <2>3
    <3> QED
      BY <3>1, <2>1, <2>2, <1>8, <1>9, <1>11, <1>12, <1>13, <1>14 DEF h, C
  <2>4. CASE ~d.deferred[1]
    <3>1. h = frame_done(f, 1)
      BY <1>10, <1>14, <2>4
    <3>2. ~f.inflight[1]
      BY <1>0, <2>1, <2>2, <2>4
    <3>3. /\ Typed(h)
          /\ SameFrame(f, h) /\ SameCounts(f, h) /\ SameJobs(f, h) /\ SameData(f, h)
          /\ SameFlight(f, h) /\ h.finished = f.finished /\ h.trap = f.trap
          /\ h.aborted = (f.aborted \/ f.journal[1] # <<>>) /\ h.jn[1] = 0
          /\ \A o \in Engines : o # 1 => h.jn[o] = f.jn[o]
      <4> DEFINE w == frame_done(f, 1)
      <4>1. /\ Typed(w)
            /\ SameFrame(f, w) /\ SameCounts(f, w) /\ SameJobs(f, w) /\ SameData(f, w)
            /\ SameFlight(f, w) /\ w.finished = f.finished /\ w.trap = f.trap
            /\ w.aborted = (f.aborted \/ f.journal[1] # <<>>) /\ w.jn[1] = 0
            /\ \A o \in Engines : o # 1 => w.jn[o] = f.jn[o]
        <5>1. Typed(f) /\ 1 \in Engines
          BY <1>0, <1>8
        <5> QED
          BY <5>1, FrameDoneIs
      <4> QED
        BY <3>1, <4>1
    <3>4. Core(h, K, C)
      <4>1. ~h.aborted
        BY <1>0, <1>8, <1>12, <3>2, <3>3
      <4>2. Base(h, K, C)
        BY <1>9, <3>3, <4>1 DEF Core, Base, SameData
      <4>3. EngOk(h, K, C, 0)
        <5>1. SameSlot(f, h, 0)
          <6>1. h.burst[0] => h.per_line[0]
            BY <1>0, <1>9, <3>3 DEF SameFrame, Core, EngOk, JobOk
          <6>2. SameEng(f, h, 0)
            BY <3>3 DEF SameEng, SameData, DrawnOf
          <6> QED
            BY <6>1, <6>2, <1>0, <3>3 DEF SameSlot, SameJobs
        <5> QED
          BY <5>1, <1>0, <1>9, SlotKept DEF Core
      <4>4. EngOk(h, K, C, 1)
        <5>1. h.jn[1] \in Len(h.journal[1])..JOURNAL_CAP
          <6>1. h.journal[1] = <<>> /\ JOURNAL_CAP \in Nat /\ Len(<<>>) = 0
            BY <1>0, <1>12, <3>2, <3>3, LimitsAssumption DEF SameData
          <6> QED
            BY <6>1, <3>3
        <5>2. EngOk(f, K, C, 1)
          BY <1>0, <1>9 DEF Core
        <5>3. JobOk(h, C, 1)
          BY <5>1, <5>2, <3>3 DEF EngOk, JobOk, SameFrame, SameJobs
        <5> QED
          BY <5>2, <5>3, <3>3 DEF EngOk, SameJobs, SameData, DrawnOf, PosOf
      <4> QED
        BY <4>2, <4>3, <4>4, <1>0 DEF Core
    <3>5. SameFrame(g, h) /\ h.stores = g.stores /\ h.left = g.left /\ h.bursts = g.bursts
      BY <1>11, <3>3 DEF SameFrame, SameCounts
    <3>6. /\ h.next = C /\ h.finished /\ h.trap = g.trap /\ h.inflight = f.inflight
          /\ h.deferred = d.deferred /\ h.job_map = f.job_map /\ h.journal = f.journal
          /\ h.stale = f.stale
      BY <1>8, <2>1, <3>3 DEF SameCounts, SameJobs, SameData, SameFlight
    <3> QED
      BY <3>4, <3>5, <3>6, <2>1, <2>2, <1>12, <1>13, <1>14 DEF h, C
  <2> QED
    BY <2>3, <2>4
<1>15. CASE ~d.deferred[0]
  <2>1. h = disarm_trap(frame_done(frame_done(join_worker(f), 0), 1))
    <3>1. ~d.deferred[1]
      BY <1>0, <1>1, <1>15 DEF Sane
    <3> QED
      BY <3>1, <1>10, <1>15
  <2>2. /\ Core(h, K, C) /\ SameFrame(f, h) /\ SameCounts(f, h) /\ h.finished = f.finished
        /\ \A e \in Engines : ~h.inflight[e] /\ ~h.deferred[e] /\ h.journal[e] = <<>>
        /\ ~h.trap
        /\ h.stale => f.stale /\ ~in_flight(f)
    <3>1. Core(f, K, C) /\ C = Both(SCREEN_H)
      BY <1>9 DEF C
    <3> QED
      BY <2>1, <3>1, EndHere
  <2>3. SameFrame(g, h) /\ h.stores = g.stores /\ h.left = g.left /\ h.bursts = g.bursts
    BY <1>11, <2>2 DEF SameFrame, SameCounts
  <2>4. h.next = C /\ h.finished
    BY <1>8, <2>2 DEF SameCounts
  <2>5. (g.stale => in_flight(g)) => ~h.stale
    BY <1>13, <2>2
  <2> QED
    BY <2>2, <2>3, <2>4, <2>5, <1>0 DEF h, C
<1> QED
  BY <1>14, <1>15

-----------------------------------------------------------------------------
(* Between the steps.                                                      *)

\* A context may change in what it compares, as long as that is shown.
LEMMA CoreTo ==
  ASSUME NEW K, Ctx(K), NEW K2, Ctx(K2), NEW g, NEW c, Core(g, K, c),
         K2.E = K.E, K2.hi >= K.hi, K2.n = K.n, K2.mode = K.mode, K2.due = K.due,
         K2.ver = K.ver, K2.vm = K.vm, K2.ex = K.ex,
         K2.w => \A e \in Engines : AtN(g.eng[e], g.journal[e], 2 * K2.E) = K2.edges[e],
         K2.fall => Falling(g.eng[0], g.journal[0]),
         K2.lay => Layers(g.eng[0], g.journal[0])
  PROVE Core(g, K2, c)
<1>1. Base(g, K2, c)
  BY DEF Core, Base
<1>2. ASSUME NEW e \in Engines PROVE EngOk(g, K2, c, e)
  <2> DEFINE r == g.eng[e]  j == g.journal[e]  jm == g.job_map[e]  D == DrawnOf(g, e)
             p == PosOf(g, c, e)
  <2>1. JobOk(g, c, e) /\ Eng(r, j, jm, D, e, p, c[e], K)
    BY DEF Core, EngOk
  <2>2. /\ (K2.fall /\ e = 0) => Falling(r, j)
        /\ (K2.lay /\ e = 0) => Layers(r, j)
        /\ K2.w => AtN(r, j, 2 * K2.E) = K2.edges[e]
    OBVIOUS
  <2> HIDE DEF r, j, jm, D, p
  <2>3. Jrn(r, j, K2.n[e], Md(e, K2.mode), 2 * p, K2.hi)
    <3>1. Jrn(r, j, K.n[e], Md(e, K.mode), 2 * p, K.hi)
      BY <2>1 DEF Eng
    <3>2. \A i \in 1..Len(j) : j[i].stamp <= K2.hi
      <4>1. j \in Seq(JEntry)
        BY <3>1 DEF Jrn
      <4>2. \A i \in 1..Len(j) : j[i].stamp \in Nat
        BY <4>1, Entries
      <4> QED
        BY <3>1, <4>2 DEF Jrn, Ctx
    <3> QED
      BY <3>1, <3>2, Zenon DEF Jrn
  <2>4. Eng(r, j, jm, D, e, p, c[e], K2)
    <3>1. /\ p \in 0..K2.E
          /\ \A o \in D : o.line \in Int /\ o.line < p
          /\ DOMAIN K2.due[e] = {o.line : o \in D} \cup (p..K2.E - 1)
          /\ K2.ex => /\ \A o \in D : o.pic = K2.due[e][o.line]
                      /\ \A x \in p..K2.E - 1 :
                           K2.due[e][x] = PicOf(r, j, e, x, MapAt(jm, x, c[e], K2.vm), K2.ver)
      BY <2>1 DEF Eng
    <3> QED
      BY <3>1, <2>2, <2>3, Zenon DEF Eng
  <2> QED
    BY <2>1, <2>4 DEF EngOk, r, j, jm, D, p
<1> QED
  BY <1>1, <1>2 DEF Core

\* What Core says of engine A's display modes.
LEMMA FallOf ==
  ASSUME NEW K, NEW g, NEW c, Core(g, K, c)
  PROVE /\ K.fall => Falling(g.eng[0], g.journal[0])
        /\ K.lay => Layers(g.eng[0], g.journal[0])
BY DEF Core, EngOk, Eng, Engines

\* The lines drawn in a step, and what is left of d.
LinesOf(g, e) == {o.line : o \in {x \in g.drawn : x.e = e}}
Left(g, d) == [e \in Engines |-> [x \in DOMAIN d[e] \ LinesOf(g, e) |-> d[e][x]]]

\* The end of a step: what it drew is what was due, and the rest stays due.
LEMMA DrawsKeep ==
  ASSUME NEW K, Ctx(K), NEW g, NEW c, Core(g, K, c), Draws(g, K.due),
         NEW K2, Ctx(K2), K2.E = K.E, K2.hi = K.hi, K2.n = K.n, K2.mode = K.mode,
         K2.due = due', K2.ver = K.ver, K2.vm = K.vm, K2.ex = K.ex,
         K2.w = K.w, K2.edges = K.edges, K2.fall = K.fall, K2.lay = K.lay
  PROVE /\ gpu' = [g EXCEPT !.drawn = {}]
        /\ Core(gpu', K2, c)
        /\ K.ex => unlike' = unlike
<1>1. /\ gpu' = [g EXCEPT !.drawn = {}] /\ due' = Left(g, K.due)
  BY Zenon DEF Draws, Left, LinesOf
<1>2. Typed(g) /\ ~g.aborted /\ (\A o \in g.drawn : o.e \in Engines) /\ c \in [Engines -> 0..K.E]
  BY DEF Core, Base
<1>3. /\ Typed(gpu') /\ SameFrame(g, gpu') /\ SameJobs(g, gpu') /\ SameEnd(g, gpu')
      /\ gpu'.drawn = {} /\ gpu'.eng = g.eng /\ gpu'.journal = g.journal
  BY <1>1, <1>2 DEF Typed, Members, SameFrame, SameJobs, SameEnd
<1>4. ASSUME NEW e \in Engines
      PROVE /\ \A o \in DrawnOf(g, e) : /\ o.line \in DOMAIN K.due[e]
                                        /\ K.ex => o.pic = K.due[e][o.line]
                                        /\ \A x \in DOMAIN K.due[e] : x < o.line => x \in LinesOf(g, e)
            /\ EngOk(gpu', K2, c, e)
  <2> DEFINE r == g.eng[e]  j == g.journal[e]  jm == g.job_map[e]  D == DrawnOf(g, e)
             p == PosOf(g, c, e)
  <2>1. JobOk(g, c, e) /\ Eng(r, j, jm, D, e, p, c[e], K)
    BY DEF Core, EngOk
  <2>2. LinesOf(g, e) = {o.line : o \in D}
    BY DEF LinesOf, DrawnOf
  <2>3. due'[e] = [x \in DOMAIN K.due[e] \ LinesOf(g, e) |-> K.due[e][x]]
    BY <1>1 DEF Left
  <2>4. DrawnOf(gpu', e) = {} /\ PosOf(gpu', c, e) = p /\ gpu'.eng[e] = r /\ gpu'.journal[e] = j
        /\ gpu'.job_map[e] = jm
    BY <1>3 DEF DrawnOf, PosOf, SameJobs
  <2>5. JobOk(gpu', c, e)
    BY <2>1, <1>3, Zenon DEF JobOk, SameFrame, SameJobs, SameEnd
  <2> HIDE DEF r, j, jm, D, p
  <2>6. /\ p \in 0..K.E /\ Jrn(r, j, K.n[e], Md(e, K.mode), 2 * p, K.hi)
        /\ \A o \in D : o.line \in Int /\ o.line < p
        /\ DOMAIN K.due[e] = {o.line : o \in D} \cup (p..K.E - 1)
        /\ K.fall /\ e = 0 => Falling(r, j)
        /\ K.lay /\ e = 0 => Layers(r, j)
        /\ K.w => AtN(r, j, 2 * K.E) = K.edges[e]
        /\ K.ex => /\ \A o \in D : o.pic = K.due[e][o.line]
                   /\ \A x \in p..K.E - 1 :
                        K.due[e][x] = PicOf(r, j, e, x, MapAt(jm, x, c[e], K.vm), K.ver)
    BY <2>1 DEF Eng
  <2>7. K.E \in Nat /\ p \in Nat
    BY <2>6, LinesAssumption DEF Ctx
  <2>8. \A x \in p..K.E - 1 : x \notin LinesOf(g, e)
    BY <2>2, <2>6, <2>7
  <2>9. DOMAIN K.due[e] \ LinesOf(g, e) = p..K.E - 1
    BY <2>2, <2>6, <2>8
  <2>10. DOMAIN due'[e] = p..K.E - 1 /\ \A x \in p..K.E - 1 : due'[e][x] = K.due[e][x]
    BY <2>3, <2>9
  <2>11. Eng(r, j, jm, {}, e, p, c[e], K2)
    <3>1. DOMAIN K2.due[e] = {o.line : o \in {}} \cup (p..K.E - 1)
      BY <2>10
    <3> QED
      BY <3>1, <2>6, <2>10 DEF Eng
  <2>12. EngOk(gpu', K2, c, e)
    BY <2>4, <2>5, <2>11 DEF EngOk
  <2>13. \A o \in D : \A x \in DOMAIN K.due[e] : x < o.line => x \in LinesOf(g, e)
    BY <2>2, <2>6, <2>7
  <2>14. \A o \in D : o.line \in DOMAIN K.due[e]
    BY <2>6
  <2> QED
    BY <2>6, <2>12, <2>13, <2>14 DEF D
<1>5. Core(gpu', K2, c)
  <2>1. Base(gpu', K2, c)
    BY <1>2, <1>3 DEF Base, SameEnd
  <2> QED
    BY <2>1, <1>4 DEF Core
<1>6. ASSUME K.ex PROVE unlike' = unlike
  <2> DEFINE good(o) == /\ o.line \in DOMAIN K.due[o.e] /\ o.pic = K.due[o.e][o.line]
                        /\ \A x \in DOMAIN K.due[o.e] : x < o.line => x \in LinesOf(g, o.e)
  <2>1. unlike' = unlike \cup {<<o.e, o.line>> : o \in {x \in g.drawn : ~good(x)}}
    BY Zenon DEF Draws, LinesOf
  <2>2. \A o \in g.drawn : good(o)
    <3> SUFFICES ASSUME NEW o \in g.drawn PROVE good(o)
      OBVIOUS
    <3>1. o.e \in Engines /\ o \in DrawnOf(g, o.e)
      BY <1>2 DEF DrawnOf
    <3> QED
      BY <3>1, <1>4, <1>6
  <2> HIDE DEF good
  <2> QED
    BY <2>1, <2>2
<1> QED
  BY <1>1, <1>5, <1>6

\* arm_trap changes only the trap, and arms it for the engines of MaskOf.
LEMMA ArmIs ==
  ASSUME NEW g, Typed(g)
  PROVE LET h == arm_trap(g)
        IN /\ Typed(h) /\ SameJobs(g, h) /\ SameData(g, h) /\ SameFlight(g, h) /\ SameCounts(g, h)
           /\ h.line = g.line /\ h.hblank = g.hblank /\ h.lazy = g.lazy /\ h.lag = g.lag
           /\ h.per_line = g.per_line /\ h.burst = g.burst
           /\ h.finished = g.finished /\ h.aborted = g.aborted /\ h.jn = g.jn
           /\ h.trap <=> MaskOf(g) # {}
           /\ h.trap => h.mask = MaskOf(g) /\ (h.lcdc <=> 0 \in MaskOf(g) /\ g.eng[0].mode = 2)
<1> DEFINE m == MaskOf(g)
           h == arm_trap(g)
           lc == 0 \in m /\ g.eng[0].mode = 2
<1>1. h = IF m = {} THEN [g EXCEPT !.trap = FALSE] ELSE [g EXCEPT !.trap = TRUE, !.mask = m, !.lcdc = lc]
  BY DEF arm_trap, disarm_trap, MaskOf
<1>2. m \subseteq Engines /\ lc \in BOOLEAN
  BY DEF MaskOf, Engines
<1> HIDE DEF m, lc, h
<1>3. CASE m = {}
  <2>1. h = [g EXCEPT !.trap = FALSE]
    BY <1>1, <1>3
  <2>2. Typed(h) /\ SameJobs(g, h) /\ SameData(g, h) /\ SameFlight(g, h) /\ SameCounts(g, h)
    BY <2>1 DEF Typed, Members, SameJobs, SameData, SameFlight, SameCounts
  <2>3. /\ h.line = g.line /\ h.hblank = g.hblank /\ h.lazy = g.lazy /\ h.lag = g.lag
        /\ h.per_line = g.per_line /\ h.burst = g.burst
        /\ h.finished = g.finished /\ h.aborted = g.aborted /\ h.jn = g.jn /\ ~h.trap
    BY <2>1 DEF Typed, Members
  <2> QED
    BY <2>2, <2>3, <1>3 DEF m, h
<1>4. CASE m # {}
  <2>1. h = [g EXCEPT !.trap = TRUE, !.mask = m, !.lcdc = lc]
    BY <1>1, <1>4
  <2>2. Typed(h) /\ SameJobs(g, h) /\ SameData(g, h) /\ SameFlight(g, h) /\ SameCounts(g, h)
    BY <2>1, <1>2 DEF Typed, Members, SameJobs, SameData, SameFlight, SameCounts
  <2>3. /\ h.line = g.line /\ h.hblank = g.hblank /\ h.lazy = g.lazy /\ h.lag = g.lag
        /\ h.per_line = g.per_line /\ h.burst = g.burst
        /\ h.finished = g.finished /\ h.aborted = g.aborted /\ h.jn = g.jn /\ h.trap
        /\ h.mask = m /\ h.lcdc = lc
    BY <2>1 DEF Typed, Members
  <2> QED
    BY <2>2, <2>3, <1>4 DEF m, h, lc
<1> QED
  BY <1>3, <1>4

\* An engine goes to drawing its lines one by one, in a burst or for the frame.
LEMMA PerLineIs ==
  ASSUME NEW g, Typed(g), NEW es \in SUBSET Engines, NEW b \in BOOLEAN,
         \A e \in Engines : g.burst[e] => g.per_line[e]
  PROVE LET h == PerLine(g, es, b)
        IN /\ Typed(h) /\ SameJobs(g, h) /\ SameData(g, h) /\ SameFlight(g, h) /\ SameEnd(g, h)
           /\ h.line = g.line /\ h.hblank = g.hblank /\ h.lazy = g.lazy /\ h.lag = g.lag
           /\ h.mask = g.mask /\ h.lcdc = g.lcdc /\ h.next = g.next /\ h.bursts = g.bursts
           /\ h.stores = g.stores
           /\ \A e \in Engines : /\ h.per_line[e] <=> e \in es \/ g.per_line[e]
                                 /\ h.burst[e] => h.per_line[e]
<1> DEFINE h == PerLine(g, es, b)
           pl == [e \in Engines |-> e \in es \/ g.per_line[e]]
           bu == [e \in Engines |-> IF e \in es THEN b ELSE g.burst[e]]
           lf == [e \in Engines |-> IF e \in es /\ b THEN LAZY_BURST_LINES ELSE g.left[e]]
<1>1. h = [g EXCEPT !.per_line = pl, !.burst = bu, !.left = lf]
  BY DEF PerLine, Typed, Members
<1>2. pl \in [Engines -> BOOLEAN] /\ bu \in [Engines -> BOOLEAN] /\ lf \in [Engines -> Int]
  BY Types, LimitsAssumption
<1>3. \A e \in Engines : (pl[e] <=> e \in es \/ g.per_line[e]) /\ (bu[e] => pl[e])
  OBVIOUS
<1> HIDE DEF h, pl, bu, lf
<1>4. Typed(h)
  BY <1>1, <1>2 DEF Typed, Members
<1>5. SameJobs(g, h) /\ SameData(g, h) /\ SameFlight(g, h) /\ SameEnd(g, h)
  BY <1>1 DEF Typed, Members, SameJobs, SameData, SameFlight, SameEnd
<1>6. /\ h.line = g.line /\ h.hblank = g.hblank /\ h.lazy = g.lazy /\ h.lag = g.lag
      /\ h.mask = g.mask /\ h.lcdc = g.lcdc /\ h.next = g.next /\ h.bursts = g.bursts
      /\ h.stores = g.stores /\ h.per_line = pl /\ h.burst = bu
  BY <1>1 DEF Typed, Members
<1> QED
  BY <1>3, <1>4, <1>5, <1>6 DEF h

\* Frame sees only these members.
LEMMA FrameKept ==
  ASSUME NEW g, Frame(g), NEW h, h.line = g.line, h.hblank = g.hblank, h.finished = g.finished,
         h.next = g.next, h.lazy = g.lazy, SameJobs(g, h), SameFlight(g, h),
         h.journal = g.journal, h.eng = g.eng
  PROVE Frame(h) /\ Cur(h) = Cur(g)
<1>1. frontier(h) = frontier(g) /\ Top(h) = Top(g) /\ in_flight(h) = in_flight(g)
  BY DEF frontier, Top, in_flight, SameJobs, SameFlight
<1>2. h.inflight = g.inflight /\ h.deferred = g.deferred
  BY DEF SameJobs
<1>3. Frame(h)
  BY <1>1, <1>2 DEF Frame
<1>4. Cur(h) = Cur(g)
  BY <1>1, Zenon DEF Cur
<1> QED
  BY <1>3, <1>4

\* Lines that are due are drawn as far as the frontier, and joined.
CaughtUp(g, K, es, parked) ==
  LET h == catch_up(g, es, parked)
  IN /\ Core(h, K, Cur(h)) /\ Frame(h)
     /\ SameFrame(g, h) /\ h.stores = g.stores /\ h.left = g.left /\ h.bursts = g.bursts
     /\ h.finished = g.finished /\ h.trap = g.trap
     /\ \A e \in Engines : IF e \in es THEN Cur(h)[e] = K.E ELSE Cur(h)[e] = Cur(g)[e]
     /\ h = g \/ /\ ~Top(g) /\ frontier(g) < SCREEN_H /\ ~in_flight(h)
                 /\ \A e \in Engines : ~h.inflight[e]
                 /\ (g.stale => in_flight(g)) => ~h.stale
\* catch_up draws them.
LEMMA CatchUp ==
  ASSUME NEW K, Ctx(K), K.vm = vmap, K.ver = ver, NEW g, K.E = Scanned(g),
         Core(g, K, Cur(g)), Frame(g), NEW es \in SUBSET Engines, NEW parked \in BOOLEAN
  PROVE CaughtUp(g, K, es, parked)
<1> USE DEF CaughtUp
<1> DEFINE last == (IF frontier(g) < SCREEN_H THEN frontier(g) ELSE SCREEN_H) - 1
           r == [e \in Engines |-> IF e \in es /\ g.next[e] <= last THEN <<g.next[e], last>>
                                   ELSE <<1, 0>>]
           x == render_ranges(g, r, parked)
           y == join_worker(x)
           h == catch_up(g, es, parked)
           c == Cur(g)
<1>1. h = IF \A e \in Engines : r[e] = <<1, 0>> THEN g ELSE y
  BY DEF catch_up
<1>2. /\ Typed(g) /\ c \in [Engines -> 0..K.E] /\ K.E \in Nat /\ K.E <= SCREEN_H
      /\ SCREEN_H \in Nat /\ g.next \in [Engines -> Nat] /\ last = K.E - 1
      /\ g.line \in Nat /\ g.hblank \in BOOLEAN /\ frontier(g) \in Nat
      /\ \A e \in Engines : c[e] = IF Top(g) THEN 0 ELSE g.next[e]
  <2>1. Typed(g) /\ c \in [Engines -> 0..K.E] /\ K.E \in 0..SCREEN_H /\ SCREEN_H \in Nat
        /\ SCANLINES_PER_FRAME \in Nat
    BY LinesAssumption DEF Core, Base, Ctx
  <2>2. g.next \in [Engines -> Nat] /\ g.line \in 0..SCANLINES_PER_FRAME - 1 /\ g.hblank \in BOOLEAN
    BY <2>1, Types
  <2>3. frontier(g) \in Nat
    BY <2>1, <2>2 DEF frontier
  <2> QED
    BY <2>1, <2>2, <2>3 DEF Cur, Scanned
<1>3. \A e \in Engines : /\ has(r, e) <=> e \in es /\ g.next[e] <= last
                         /\ has(r, e) <=> r[e] # <<1, 0>>
                         /\ has(r, e) => r[e] = <<g.next[e], last>>
                         /\ r[e] \in Int \X Int
  BY <1>2 DEF has
<1>4. r \in [Engines -> Int \X Int]
  BY <1>3
<1> HIDE DEF r, last
<1>5. CASE \A e \in Engines : ~has(r, e)
  <2>1. h = g
    BY <1>1, <1>3, <1>5
  <2> HIDE DEF h
  <2>2. \A e \in Engines : e \in es => c[e] = K.E
    <3>1. Top(g) => K.E = 0
      BY <1>2, LinesAssumption DEF Top, Scanned, frontier
    <3> QED
      BY <3>1, <1>2, <1>3, <1>5
  <2>3. SameFrame(g, g)
    BY DEF SameFrame
  <2> QED
    BY <2>1, <2>2, <2>3 DEF h
<1>6. CASE \E e \in Engines : has(r, e)
  <2>1. h = y
    BY <1>1, <1>3, <1>6
  <2>2. frontier(g) < SCREEN_H /\ ~Top(g)
    <3>1. PICK e \in Engines : g.next[e] <= last
      BY <1>3, <1>6
    <3>2. ~(frontier(g) >= SCREEN_H)
      <4> SUFFICES ASSUME frontier(g) >= SCREEN_H PROVE FALSE
        OBVIOUS
      <4>1. g.next[e] = SCREEN_H
        BY <1>2, <3>1 DEF Frame, Both
      <4> QED
        BY <4>1, <3>1, <1>2
    <3>3. ~Top(g)
      <4> SUFFICES ASSUME Top(g) PROVE FALSE
        OBVIOUS
      <4>1. last = -1
        BY <1>2, LinesAssumption DEF last, Top, frontier
      <4> QED
        BY <4>1, <3>1, <1>2
    <3> QED
      BY <3>2, <3>3, <1>2
  <2>3. ~g.finished /\ K.E = frontier(g)
    BY <2>2 DEF Frame, Scanned
  <2>4. \A e \in Engines : ~g.deferred[e]
    BY <1>2, <2>2, <2>3 DEF Core, EngOk, JobOk
  <2>5. \A e \in Engines : has(r, e) => r[e][1] = c[e] /\ r[e][2] < K.E /\ r[e][2] < SCREEN_H - 1
                                        /\ r[e][2] + 1 = K.E
    BY <1>2, <1>3, <2>2, <2>3
  <2>6. Ranges(r, K, c)
    BY <1>4, <2>5 DEF Ranges
  <2>7. /\ Core(x, K, After(r, c))
        /\ SameFrame(g, x) /\ x.stores = g.stores /\ x.left = g.left /\ x.bursts = g.bursts
        /\ x.next = [e \in Engines |-> IF has(r, e) THEN r[e][2] + 1 ELSE g.next[e]]
        /\ x.finished = g.finished /\ x.trap = g.trap
        /\ \A e \in Engines : ~x.deferred[e]
        /\ (g.stale => in_flight(g)) => ~x.stale
    <3> HIDE DEF c
    <3> QED
      BY <1>6, <2>3, <2>4, <2>5, <2>6, RenderMid DEF c
  <2> HIDE DEF x
  <2>8. /\ Core(y, K, After(r, c)) /\ ~in_flight(y)
        /\ \A e \in Engines : ~y.inflight[e] /\ ~y.deferred[e] /\ y.job_map[e] = <<>>
        /\ SameFrame(x, y) /\ SameCounts(x, y) /\ y.finished = x.finished
        /\ y.trap = (x.trap /\ ~(x.deferred[0] /\ x.finished))
        /\ \A e \in Engines : ~x.inflight[e] => y.journal[e] = x.journal[e]
        /\ ~in_flight(x) => y = x
        /\ in_flight(x) => ~y.stale
    <3>1. Core(x, K, After(r, c))
      BY <2>7
    <3> HIDE DEF c
    <3> QED
      BY <3>1, JoinCore
  <2> HIDE DEF y, h
  <2>9. SameFrame(g, y) /\ y.stores = g.stores /\ y.left = g.left /\ y.bursts = g.bursts
        /\ y.finished = g.finished /\ y.next = x.next
    BY <2>7, <2>8 DEF SameFrame, SameCounts
  <2>10. y.trap = g.trap
    <3>1. ~x.deferred[0] /\ x.trap \in BOOLEAN
      BY <2>7, Types DEF Core, Base, Engines
    <3> QED
      BY <3>1, <2>7, <2>8
  <2>11. (g.stale => in_flight(g)) => ~y.stale
    BY <2>7, <2>8
  <2>12. Top(y) = Top(g) /\ frontier(y) = frontier(g)
    BY <2>9 DEF Top, frontier, SameFrame
  <2>13. Cur(y) = After(r, c)
    <3>1. Cur(y) = [e \in Engines |-> y.next[e]]
      BY <2>2, <2>12 DEF Cur
    <3>2. \A e \in Engines : y.next[e] = IF has(r, e) THEN r[e][2] + 1 ELSE c[e]
      BY <2>2, <2>7, <2>9, <1>2
    <3> QED
      BY <3>1, <3>2 DEF After
  <2>14. \A e \in Engines : IF e \in es THEN Cur(y)[e] = K.E ELSE Cur(y)[e] = c[e]
    <3> SUFFICES ASSUME NEW e \in Engines
                 PROVE IF e \in es THEN After(r, c)[e] = K.E ELSE After(r, c)[e] = c[e]
      BY <2>13
    <3>1. After(r, c)[e] = IF has(r, e) THEN r[e][2] + 1 ELSE c[e]
      BY DEF After
    <3> HIDE DEF c
    <3>2. has(r, e) => e \in es /\ r[e][2] + 1 = K.E
      BY <1>3, <2>5
    <3>3. e \in es /\ ~has(r, e) => c[e] = K.E
      BY <1>2, <1>3, <2>2
    <3> QED
      BY <3>1, <3>2, <3>3
  <2>15. Frame(y)
    BY <2>2, <2>3, <2>9, <2>12 DEF Frame
  <2> QED
    BY <2>1, <2>2, <2>8, <2>9, <2>10, <2>11, <2>13, <2>14, <2>15 DEF h, c
<1> QED
  BY <1>5, <1>6

-----------------------------------------------------------------------------
(* The guest's writes.                                                     *)

\* The context after engine e's registers have gone to nn and mode md.
Written(K, e, x) == [K EXCEPT !.n[e] = x.n, !.mode = IF e = 0 THEN x.mode ELSE @]

\* The write x of engine e is the guest's next one.
NextWrite(K, e, x) ==
  /\ x \in JEntry /\ x.n = K.n[e] + x.step /\ (e = 1 => x.mode = 1)
  /\ K.fall /\ e = 0 => x.mode = 1 \/ K.mode = 2
  /\ K.lay /\ e = 0 => x.mode = 1

\* A context has these members.
CtxMembers(d) ==
  [E : Nat, hi : Nat, due : {d}, n : [Engines -> Nat], mode : {1, 2}, edges : [Engines -> Nat],
   ver : [Banks -> Nat], vm : [Banks -> Places], ex : BOOLEAN, w : BOOLEAN, fall : BOOLEAN,
   lay : BOOLEAN]

\* What Written changes.
LEMMA WrittenIs ==
  ASSUME NEW K, Ctx(K), K \in CtxMembers(K.due), NEW e \in Engines, NEW x, NextWrite(K, e, x)
  PROVE LET K2 == Written(K, e, x)
        IN /\ Ctx(K2) /\ K2 \in CtxMembers(K2.due)
           /\ K2.n[e] = x.n /\ \A o \in Engines : o # e => K2.n[o] = K.n[o]
           /\ Md(e, K2.mode) = x.mode /\ \A o \in Engines : o # e => Md(o, K2.mode) = Md(o, K.mode)
           /\ K2.E = K.E /\ K2.hi = K.hi /\ K2.due = K.due /\ K2.edges = K.edges /\ K2.ver = K.ver
           /\ K2.vm = K.vm /\ K2.ex = K.ex /\ K2.w = K.w /\ K2.fall = K.fall /\ K2.lay = K.lay
           /\ K2.mode = IF e = 0 THEN x.mode ELSE K.mode
<1> DEFINE K2 == Written(K, e, x)
<1>1. x.n \in Nat /\ x.mode \in {1, 2}
  BY DEF NextWrite, JEntry
<1>2. K2 = [K EXCEPT !.n[e] = x.n, !.mode = IF e = 0 THEN x.mode ELSE K.mode]
  BY DEF Written, CtxMembers
<1> HIDE DEF K2
<1>3. /\ K2.n[e] = x.n /\ \A o \in Engines : o # e => K2.n[o] = K.n[o]
      /\ K2.mode = IF e = 0 THEN x.mode ELSE K.mode
      /\ K2.E = K.E /\ K2.hi = K.hi /\ K2.due = K.due /\ K2.edges = K.edges /\ K2.ver = K.ver
      /\ K2.vm = K.vm /\ K2.ex = K.ex /\ K2.w = K.w /\ K2.fall = K.fall /\ K2.lay = K.lay
      /\ K2.n \in [Engines -> Nat] /\ K2.mode \in {1, 2}
  BY <1>1, <1>2 DEF CtxMembers
<1>4. K2 \in CtxMembers(K2.due)
  BY <1>1, <1>2, <1>3 DEF CtxMembers
<1>5. Ctx(K2)
  BY <1>3, Zenon DEF Ctx
<1>6. Md(e, K2.mode) = x.mode /\ \A o \in Engines : o # e => Md(o, K2.mode) = Md(o, K.mode)
  BY <1>3 DEF Md, Engines, NextWrite
<1> QED
  BY <1>3, <1>4, <1>5, <1>6 DEF K2

\* The engine whose write x is filed with stamp hi.
LEMMA EngAppend ==
  ASSUME NEW K, Ctx(K), K \in CtxMembers(K.due), NEW e \in Engines, NEW x, NextWrite(K, e, x),
         NEW r, NEW j, NEW jm, NEW D, NEW p, NEW c \in Int, Eng(r, j, jm, D, e, p, c, K),
         x.stamp = K.hi, 2 * K.E <= K.hi, K.w => 2 * K.E < K.hi
  PROVE Eng(r, Append(j, x), jm, D, e, p, c, Written(K, e, x))
<1> DEFINE K2 == Written(K, e, x)
           j2 == Append(j, x)
<1>1. /\ Ctx(K2) /\ K2.n[e] = x.n /\ Md(e, K2.mode) = x.mode
      /\ K2.E = K.E /\ K2.hi = K.hi /\ K2.due = K.due /\ K2.edges = K.edges /\ K2.ver = K.ver
      /\ K2.vm = K.vm /\ K2.ex = K.ex /\ K2.w = K.w /\ K2.fall = K.fall /\ K2.lay = K.lay
  BY WrittenIs
<1> HIDE DEF K2
<1>2. /\ p \in 0..K.E /\ Jrn(r, j, K.n[e], Md(e, K.mode), 2 * p, K.hi)
      /\ \A o \in D : o.line \in Int /\ o.line < p
      /\ DOMAIN K.due[e] = {o.line : o \in D} \cup (p..K.E - 1)
      /\ K.fall /\ e = 0 => Falling(r, j)
      /\ K.lay /\ e = 0 => Layers(r, j)
      /\ K.w => AtN(r, j, 2 * K.E) = K.edges[e]
      /\ K.ex => /\ \A o \in D : o.pic = K.due[e][o.line]
                 /\ \A y \in p..K.E - 1 :
                      K.due[e][y] = PicOf(r, j, e, y, MapAt(jm, y, c, K.vm), K.ver)
  BY DEF Eng
<1>3. /\ r \in EngineState /\ r.ordered /\ j \in Seq(JEntry)
      /\ Sorted(j) /\ Chained(r, j) /\ LeadsTo(r, j, K.n[e], Md(e, K.mode))
      /\ \A i \in 1..Len(j) : 2 * p <= j[i].stamp /\ j[i].stamp <= K.hi
  BY <1>2 DEF Jrn
<1>4. /\ x \in JEntry /\ x.n = K.n[e] + x.step /\ (e = 1 => x.mode = 1)
      /\ (K.fall /\ e = 0 => x.mode = 1 \/ K.mode = 2)
      /\ (K.lay /\ e = 0 => x.mode = 1)
      /\ x.n \in Nat /\ x.step \in {0, 1} /\ x.mode \in {1, 2} /\ x.stamp \in Nat
  BY DEF NextWrite, JEntry
<1>5. K.E \in Nat /\ K.hi \in Nat /\ p \in Nat /\ K.n[e] \in Nat
  BY <1>2, LinesAssumption DEF Ctx
<1>6. Len(j) \in Nat /\ x.n - x.step = K.n[e]
  BY <1>3, <1>4, <1>5
<1>7. /\ j2 \in Seq(JEntry) /\ Len(j2) = Len(j) + 1 /\ j2[Len(j) + 1] = x
      /\ \A i \in 1..Len(j) : j2[i] = j[i]
      /\ Sorted(j2) /\ Chained(r, j2) /\ LeadsTo(r, j2, x.n, x.mode)
      /\ \A i \in 0..Len(j) : ModeAt(r, j2, i) = ModeAt(r, j, i)
      /\ \A s \in Int : s < x.stamp => /\ AtN(r, j2, s) = AtN(r, j, s)
                                      /\ AtMode(r, j2, s) = AtMode(r, j, s)
  <2> DEFINE md == Md(e, K.mode)
  <2>1. LeadsTo(r, j, x.n - x.step, md) /\ \A i \in 1..Len(j) : j[i].stamp <= x.stamp
    BY <1>3, <1>6
  <2> HIDE DEF md
  <2>2. r \in EngineState /\ j \in Seq(JEntry) /\ Sorted(j) /\ Chained(r, j) /\ x \in JEntry
    BY <1>3, <1>4
  <2> QED
    BY <2>1, <2>2, Appended
<1> HIDE DEF j2
<1>8. Jrn(r, j2, K2.n[e], Md(e, K2.mode), 2 * p, K2.hi)
  <2>1. \A i \in 1..Len(j2) : i \in 1..Len(j) \/ i = Len(j) + 1
    BY <1>6, <1>7
  <2>2. 2 * p <= x.stamp /\ x.stamp <= K2.hi
    BY <1>1, <1>2, <1>4, <1>5
  <2>3. \A i \in 1..Len(j2) : 2 * p <= j2[i].stamp /\ j2[i].stamp <= K2.hi
    BY <2>1, <2>2, <1>1, <1>3, <1>7
  <2> QED
    BY <2>3, <1>1, <1>3, <1>7 DEF Jrn
<1>9. ModeAt(r, j, Len(j)) = Md(e, K.mode)
  <2>1. j = <<>> <=> Len(j) = 0
    BY <1>3
  <2> QED
    BY <2>1, <1>3 DEF ModeAt, LeadsTo
<1>10. ModeAt(r, j2, Len(j) + 1) = x.mode
  BY <1>6, <1>7 DEF ModeAt
<1>11. K2.fall /\ e = 0 => Falling(r, j2)
  <2> SUFFICES ASSUME K.fall, e = 0, NEW a \in 0..Len(j2), NEW b \in 0..Len(j2),
                      a < b, ModeAt(r, j2, a) = 1
               PROVE ModeAt(r, j2, b) = 1
    BY <1>1 DEF Falling
  <2>1. a \in 0..Len(j) /\ Len(j) \in 0..Len(j) /\ (b \in 0..Len(j) \/ b = Len(j) + 1)
    BY <1>6, <1>7
  <2>2. ModeAt(r, j, a) = 1
    BY <2>1, <1>7
  <2>3. CASE b \in 0..Len(j)
    BY <2>1, <2>2, <2>3, <1>2, <1>7 DEF Falling
  <2>4. CASE b = Len(j) + 1
    <3>1. ModeAt(r, j, Len(j)) = 1
      BY <2>1, <2>2, <1>2, <1>6 DEF Falling
    <3>2. K.mode = 1
      BY <3>1, <1>9 DEF Md
    <3> QED
      BY <3>2, <2>4, <1>4, <1>10
  <2> QED
    BY <2>1, <2>3, <2>4
<1>12. K2.lay /\ e = 0 => Layers(r, j2)
  <2> SUFFICES ASSUME K.lay, e = 0, NEW a \in 0..Len(j2)
               PROVE ModeAt(r, j2, a) = 1
    BY <1>1 DEF Layers
  <2>1. a \in 0..Len(j) \/ a = Len(j) + 1
    BY <1>6, <1>7
  <2> QED
    BY <2>1, <1>2, <1>4, <1>7, <1>10 DEF Layers
<1>13. K2.w => AtN(r, j2, 2 * K2.E) = K2.edges[e]
  BY <1>1, <1>2, <1>5, <1>7
<1>14. ASSUME K2.ex, NEW y \in p..K2.E - 1
       PROVE K2.due[e][y] = PicOf(r, j2, e, y, MapAt(jm, y, c, K2.vm), K2.ver)
  <2>1. y \in p..K.E - 1 /\ 2 * y \in Int /\ 2 * y + 1 \in Int /\ 2 * y < x.stamp /\ 2 * y + 1 < x.stamp
    BY <1>1, <1>5
  <2>2. /\ AtN(r, j2, 2 * y) = AtN(r, j, 2 * y) /\ AtN(r, j2, 2 * y + 1) = AtN(r, j, 2 * y + 1)
        /\ AtMode(r, j2, 2 * y + 1) = AtMode(r, j, 2 * y + 1)
    BY <2>1, <1>7
  <2>3. \A m, vr : PicOf(r, j2, e, y, m, vr) = PicOf(r, j, e, y, m, vr)
    BY <2>2, Zenon DEF PicOf
  <2> QED
    BY <2>1, <2>3, <1>1, <1>2, <1>14
<1> QED
  BY <1>1, <1>2, <1>8, <1>11, <1>12, <1>13, <1>14 DEF Eng, K2, j2

\* The engine that takes the write at once, with all its lines drawn.
LEMMA EngDirect ==
  ASSUME NEW K, Ctx(K), K \in CtxMembers(K.due), NEW e \in Engines, NEW x, NextWrite(K, e, x),
         NEW r, NEW jm, NEW D, NEW p, NEW c, Eng(r, <<>>, jm, D, e, p, c, K),
         p = K.E, ~K.w
  PROVE /\ Eng(Applied(r, <<x>>, 1), <<>>, jm, D, e, p, c, Written(K, e, x))
        /\ Applied(r, <<x>>, 1) \in EngineState
<1> DEFINE K2 == Written(K, e, x)
           r2 == Applied(r, <<x>>, 1)
<1>1. /\ Ctx(K2) /\ K2.n[e] = x.n /\ Md(e, K2.mode) = x.mode
      /\ K2.E = K.E /\ K2.hi = K.hi /\ K2.due = K.due
      /\ K2.ex = K.ex /\ K2.w = K.w /\ K2.fall = K.fall /\ K2.lay = K.lay
  BY WrittenIs
<1> HIDE DEF K2
<1>2. /\ p \in 0..K.E /\ Jrn(r, <<>>, K.n[e], Md(e, K.mode), 2 * p, K.hi)
      /\ \A o \in D : o.line \in Int /\ o.line < p
      /\ DOMAIN K.due[e] = {o.line : o \in D} \cup (p..K.E - 1)
      /\ K.ex => \A o \in D : o.pic = K.due[e][o.line]
  BY DEF Eng
<1>3. r \in EngineState /\ r.ordered /\ r.n = K.n[e]
  BY <1>2 DEF Jrn, LeadsTo
<1>4. /\ x \in JEntry /\ x.n = K.n[e] + x.step /\ (K.lay /\ e = 0 => x.mode = 1)
      /\ x.n \in Nat /\ x.step \in {0, 1} /\ x.mode \in {1, 2}
  BY DEF NextWrite, JEntry
<1>5. K.n[e] \in Nat /\ K.E \in Int
  BY LinesAssumption DEF Ctx
<1> DEFINE j == <<x>>
           ord == r.ordered /\ \A i \in 1..1 : j[i].n = j[i].step + IF i = 1 THEN r.n ELSE j[i-1].n
<1>6. r2 = [n |-> j[1].n, mode |-> j[1].mode, ordered |-> ord]
  BY 1 # 0, Zenon DEF Applied
<1>7. r2 \in EngineState /\ r2.ordered /\ r2.n = x.n /\ r2.mode = x.mode
  <2>1. j[1] = x
    OBVIOUS
  <2> HIDE DEF j
  <2>2. x.n = x.step + r.n
    BY <1>3, <1>4, <1>5
  <2>3. ord = TRUE
    BY <2>1, <2>2, <1>3
  <2> HIDE DEF ord, r2
  <2>4. r2 = [n |-> x.n, mode |-> x.mode, ordered |-> TRUE]
    BY <2>1, <2>3, <1>6, Zenon
  <2> QED
    BY <2>4, <1>4 DEF EngineState
<1> HIDE DEF r2
<1>8. Jrn(r2, <<>>, K2.n[e], Md(e, K2.mode), 2 * p, K2.hi)
  <2>1. <<>> \in Seq(JEntry) /\ Len(<<>>) = 0
    OBVIOUS
  <2>2. Sorted(<<>>) /\ Chained(r2, <<>>) /\ LeadsTo(r2, <<>>, x.n, x.mode)
    BY <2>1, <1>7 DEF Sorted, Chained, LeadsTo
  <2> QED
    BY <2>1, <2>2, <1>1, <1>7 DEF Jrn
<1>9. Len(<<>>) = 0
  OBVIOUS
<1>10. Falling(r2, <<>>)
  BY <1>9 DEF Falling
<1>11. K2.lay /\ e = 0 => Layers(r2, <<>>)
  BY <1>1, <1>4, <1>7, <1>9 DEF Layers, ModeAt
<1>12. p..K.E - 1 = {}
  BY <1>5
<1> QED
  BY <1>1, <1>2, <1>7, <1>8, <1>10, <1>11, <1>12 DEF Eng, K2, r2

\* The other engine.
LEMMA EngOther ==
  ASSUME NEW K, Ctx(K), K \in CtxMembers(K.due), NEW e \in Engines, NEW x, NextWrite(K, e, x),
         NEW o \in Engines, o # e,
         NEW r, NEW j, NEW jm, NEW D, NEW p, NEW c, Eng(r, j, jm, D, o, p, c, K)
  PROVE Eng(r, j, jm, D, o, p, c, Written(K, e, x))
<1> DEFINE K2 == Written(K, e, x)
<1>1. /\ K2.n[o] = K.n[o] /\ Md(o, K2.mode) = Md(o, K.mode)
      /\ K2.E = K.E /\ K2.hi = K.hi /\ K2.due = K.due /\ K2.edges = K.edges /\ K2.ver = K.ver
      /\ K2.vm = K.vm /\ K2.ex = K.ex /\ K2.w = K.w /\ K2.fall = K.fall /\ K2.lay = K.lay
  BY WrittenIs
<1> HIDE DEF K2
<1> QED
  BY <1>1 DEF Eng, K2

\* The journal of engine e with x filed, and applied as a whole.
Filed(g, e, x) == [g EXCEPT !.journal[e] = Append(@, x), !.jn[e] = @ + 1]
Emptied(g, e) == [apply_pending(g, e) EXCEPT !.jn[e] = 0]
NoneFiled(g, e) == g.journal[e] = <<>> /\ g.jn[e] = 0

\* A write is filed in the journal.
LEMMA FileCore ==
  ASSUME NEW K, Ctx(K), K \in CtxMembers(K.due), NEW e \in Engines, NEW x, NextWrite(K, e, x),
         x.stamp = K.hi, 2 * K.E <= K.hi, K.w => 2 * K.E < K.hi,
         NEW g, NEW c, Core(g, K, c), g.jn[e] < JOURNAL_CAP
  PROVE LET h == Filed(g, e, x)
        IN /\ Core(h, Written(K, e, x), c)
           /\ SameFrame(g, h) /\ SameCounts(g, h) /\ SameJobs(g, h) /\ SameFlight(g, h)
           /\ h.finished = g.finished /\ h.trap = g.trap /\ h.eng = g.eng /\ h.drawn = g.drawn
           /\ h.journal[e] = Append(g.journal[e], x)
           /\ \A o \in Engines : o # e => h.journal[o] = g.journal[o] /\ h.jn[o] = g.jn[o]
<1> DEFINE K2 == Written(K, e, x)
           h == Filed(g, e, x)
           j2 == Append(g.journal[e], x)
<1>1. Typed(g) /\ ~g.aborted /\ (\A o \in g.drawn : o.e \in Engines) /\ c \in [Engines -> 0..K.E]
  BY DEF Core, Base
<1>2. g.journal \in [Engines -> Seq(JEntry)] /\ g.jn \in [Engines -> Nat] /\ x \in JEntry
      /\ JOURNAL_CAP \in Nat
  BY <1>1, Types, LimitsAssumption DEF NextWrite
<1>3. j2 \in Seq(JEntry) /\ Len(j2) = Len(g.journal[e]) + 1 /\ Len(g.journal[e]) \in Nat
  BY <1>2
<1>4. h = [g EXCEPT !.journal[e] = j2, !.jn[e] = g.jn[e] + 1]
  BY <1>1 DEF Typed, Members, Filed
<1>5. K2.E = K.E
  BY WrittenIs
<1> HIDE DEF h, j2, K2
<1>6. Typed(h)
  <2> DEFINE jj == [g.journal EXCEPT ![e] = j2]  nn == [g.jn EXCEPT ![e] = g.jn[e] + 1]
  <2>1. h = [g EXCEPT !.journal = jj, !.jn = nn]
    BY <1>1, <1>4 DEF Typed, Members
  <2>2. jj \in [Engines -> Seq(JEntry)] /\ nn \in [Engines -> Nat]
    BY <1>2, <1>3
  <2> HIDE DEF jj, nn
  <2> QED
    BY <2>1, <2>2, <1>1 DEF Typed, Members
<1>7. /\ SameFrame(g, h) /\ SameCounts(g, h) /\ SameJobs(g, h) /\ SameFlight(g, h)
      /\ h.finished = g.finished /\ h.trap = g.trap /\ h.eng = g.eng /\ h.drawn = g.drawn
      /\ h.aborted = g.aborted
  <2>1. SameFrame(g, h)
    BY <1>1, <1>4 DEF Typed, Members, SameFrame
  <2>2. SameCounts(g, h) /\ SameFlight(g, h)
    BY <1>1, <1>4 DEF Typed, Members, SameCounts, SameFlight
  <2>3. SameJobs(g, h)
    BY <1>1, <1>4 DEF Typed, Members, SameJobs
  <2>4. /\ h.finished = g.finished /\ h.trap = g.trap /\ h.eng = g.eng /\ h.drawn = g.drawn
        /\ h.aborted = g.aborted
    BY <1>1, <1>4 DEF Typed, Members
  <2> QED
    BY <2>1, <2>2, <2>3, <2>4
<1>8. /\ h.journal[e] = j2 /\ h.jn[e] = g.jn[e] + 1
      /\ \A o \in Engines : o # e => h.journal[o] = g.journal[o] /\ h.jn[o] = g.jn[o]
  BY <1>1, <1>4 DEF Typed, Members
<1>9. Base(h, K2, c)
  BY <1>1, <1>5, <1>6, <1>7 DEF Base
<1>10. \A o \in Engines : /\ DrawnOf(h, o) = DrawnOf(g, o) /\ PosOf(h, c, o) = PosOf(g, c, o)
                          /\ h.job_map[o] = g.job_map[o]
  BY <1>7 DEF DrawnOf, PosOf, SameJobs
<1>11. EngOk(h, K2, c, e)
  <2>1. JobOk(g, c, e) /\ Eng(g.eng[e], g.journal[e], g.job_map[e], DrawnOf(g, e), e, PosOf(g, c, e), c[e], K)
    BY DEF Core, EngOk
  <2>2. c[e] \in Int
    BY <1>1, LinesAssumption DEF Ctx
  <2>3. Eng(g.eng[e], j2, g.job_map[e], DrawnOf(g, e), e, PosOf(g, c, e), c[e], K2)
    BY <2>1, <2>2, EngAppend DEF j2, K2
  <2>4. h.jn[e] \in Len(h.journal[e])..JOURNAL_CAP
    <3>1. g.jn[e] \in Len(g.journal[e])..JOURNAL_CAP
      BY <2>1 DEF JobOk
    <3> QED
      BY <3>1, <1>2, <1>3, <1>8
  <2>5. JobOk(h, c, e)
    BY <2>1, <2>4, <1>7, Zenon DEF JobOk, SameFrame, SameJobs
  <2> QED
    BY <2>3, <2>5, <1>7, <1>8, <1>10 DEF EngOk
<1>12. ASSUME NEW o \in Engines, o # e PROVE EngOk(h, K2, c, o)
  <2>1. JobOk(g, c, o) /\ Eng(g.eng[o], g.journal[o], g.job_map[o], DrawnOf(g, o), o, PosOf(g, c, o), c[o], K)
    BY DEF Core, EngOk
  <2>2. Eng(g.eng[o], g.journal[o], g.job_map[o], DrawnOf(g, o), o, PosOf(g, c, o), c[o], K2)
    BY <2>1, <1>12, EngOther DEF K2
  <2>3. JobOk(h, c, o)
    BY <2>1, <1>7, <1>8, <1>12, Zenon DEF JobOk, SameFrame, SameJobs
  <2> QED
    BY <2>2, <2>3, <1>7, <1>8, <1>10, <1>12 DEF EngOk
<1>13. Core(h, K2, c)
  BY <1>9, <1>11, <1>12 DEF Core
<1> QED
  BY <1>7, <1>8, <1>13 DEF h, j2, K2

\* A write reaches the engine at once.
LEMMA DirectCore ==
  ASSUME NEW K, Ctx(K), K \in CtxMembers(K.due), NEW e \in Engines, NEW x, NextWrite(K, e, x),
         ~K.w, NEW g, NEW c, Core(g, K, c), g.journal[e] = <<>>, PosOf(g, c, e) = K.E
  PROVE LET h == [g EXCEPT !.eng[e] = Applied(@, <<x>>, 1)]
        IN /\ Core(h, Written(K, e, x), c)
           /\ SameFrame(g, h) /\ SameCounts(g, h) /\ SameJobs(g, h) /\ SameFlight(g, h)
           /\ SameEnd(g, h) /\ h.journal = g.journal
<1> DEFINE K2 == Written(K, e, x)
           r2 == Applied(g.eng[e], <<x>>, 1)
           h == [g EXCEPT !.eng[e] = Applied(@, <<x>>, 1)]
<1>1. Typed(g) /\ ~g.aborted /\ (\A o \in g.drawn : o.e \in Engines) /\ c \in [Engines -> 0..K.E]
  BY DEF Core, Base
<1>2. JobOk(g, c, e) /\ Eng(g.eng[e], <<>>, g.job_map[e], DrawnOf(g, e), e, PosOf(g, c, e), c[e], K)
  BY DEF Core, EngOk
<1>3. Eng(r2, <<>>, g.job_map[e], DrawnOf(g, e), e, PosOf(g, c, e), c[e], K2) /\ r2 \in EngineState
  BY <1>2, EngDirect
<1>4. h = [g EXCEPT !.eng[e] = r2]
  BY <1>1 DEF Typed, Members
<1>5. K2.E = K.E
  BY WrittenIs
<1> HIDE DEF h, r2, K2
<1>6. Typed(h)
  BY <1>1, <1>3, <1>4 DEF Typed, Members
<1>7. /\ SameFrame(g, h) /\ SameCounts(g, h) /\ SameJobs(g, h) /\ SameFlight(g, h)
      /\ SameEnd(g, h) /\ h.drawn = g.drawn /\ h.journal = g.journal
  BY <1>1, <1>4 DEF Typed, Members, SameFrame, SameCounts, SameJobs, SameFlight, SameEnd
<1>8. h.eng[e] = r2 /\ \A o \in Engines : o # e => h.eng[o] = g.eng[o]
  BY <1>1, <1>4 DEF Typed, Members
<1>9. Base(h, K2, c)
  BY <1>1, <1>5, <1>6, <1>7 DEF Base, SameEnd
<1>10. \A o \in Engines : /\ DrawnOf(h, o) = DrawnOf(g, o) /\ PosOf(h, c, o) = PosOf(g, c, o)
                          /\ h.job_map[o] = g.job_map[o]
  BY <1>7 DEF DrawnOf, PosOf, SameJobs
<1>11. ASSUME NEW o \in Engines, JobOk(g, c, o) PROVE JobOk(h, c, o)
  BY <1>7, <1>11, Zenon DEF JobOk, SameFrame, SameJobs, SameEnd
<1>12. EngOk(h, K2, c, e)
  BY <1>2, <1>3, <1>7, <1>8, <1>10, <1>11 DEF EngOk
<1>13. ASSUME NEW o \in Engines, o # e PROVE EngOk(h, K2, c, o)
  <2>1. JobOk(g, c, o) /\ Eng(g.eng[o], g.journal[o], g.job_map[o], DrawnOf(g, o), o, PosOf(g, c, o), c[o], K)
    BY DEF Core, EngOk
  <2>2. Eng(g.eng[o], g.journal[o], g.job_map[o], DrawnOf(g, o), o, PosOf(g, c, o), c[o], K2)
    BY <2>1, <1>13, EngOther DEF K2
  <2> QED
    BY <2>1, <2>2, <1>7, <1>8, <1>10, <1>11, <1>13 DEF EngOk
<1>14. Core(h, K2, c)
  BY <1>9, <1>12, <1>13 DEF Core
<1> QED
  BY <1>7, <1>14 DEF h, K2

\* A context that does not compare pictures.
Plain(K) == ~K.w /\ ~K.ex

\* The journal, full, is applied in display time by an idle engine.
LEMMA PendingCore ==
  ASSUME NEW K, Ctx(K), Plain(K), NEW e \in Engines, NEW g, NEW c, Core(g, K, c)
  PROVE LET h == Emptied(g, e)
        IN /\ Core(h, K, c)
           /\ SameFrame(g, h) /\ SameCounts(g, h) /\ SameJobs(g, h) /\ SameFlight(g, h)
           /\ h.finished = g.finished /\ h.trap = g.trap
           /\ NoneFiled(h, e)
           /\ \A o \in Engines : o # e => h.eng[o] = g.eng[o] /\ h.journal[o] = g.journal[o]
<1> DEFINE r2 == Applied(g.eng[e], g.journal[e], Len(g.journal[e]))
           a == apply_pending(g, e)
           h == Emptied(g, e)
<1>1. Typed(g) /\ ~g.aborted /\ (\A o \in g.drawn : o.e \in Engines) /\ c \in [Engines -> 0..K.E]
  BY DEF Core, Base
<1>2. JobOk(g, c, e) /\ Eng(g.eng[e], g.journal[e], g.job_map[e], DrawnOf(g, e), e, PosOf(g, c, e), c[e], K)
  BY DEF Core, EngOk
<1>3. Eng(r2, <<>>, g.job_map[e], DrawnOf(g, e), e, PosOf(g, c, e), c[e], K) /\ r2 \in EngineState
  BY <1>2, EngApply DEF Plain
<1> HIDE DEF r2
<1>4. /\ Typed(a)
      /\ SameFrame(g, a) /\ SameCounts(g, a) /\ SameEnd(g, a) /\ SameJobs(g, a)
      /\ SameFlight(g, a) /\ a.drawn = g.drawn
      /\ a.eng[e] = r2 /\ a.journal[e] = <<>>
      /\ \A o \in Engines : o # e => a.eng[o] = g.eng[o] /\ a.journal[o] = g.journal[o]
  BY <1>1, <1>3, ApplyPendingIs DEF r2
<1>0. h = [a EXCEPT !.jn[e] = 0]
  BY DEF Emptied
<1> HIDE DEF a, h
<1>5. Typed(h)
  BY <1>0, <1>4 DEF Typed, Members
<1>6. /\ SameFrame(a, h) /\ SameCounts(a, h) /\ SameJobs(a, h) /\ SameFlight(a, h)
      /\ h.finished = a.finished /\ h.trap = a.trap /\ h.aborted = a.aborted
      /\ h.drawn = a.drawn /\ h.eng = a.eng /\ h.journal = a.journal
      /\ h.jn[e] = 0 /\ \A o \in Engines : o # e => h.jn[o] = a.jn[o]
  BY <1>0, <1>4 DEF Typed, Members, SameFrame, SameCounts, SameJobs, SameFlight
<1>7. /\ SameFrame(g, h) /\ SameCounts(g, h) /\ SameJobs(g, h) /\ SameFlight(g, h)
      /\ h.finished = g.finished /\ h.trap = g.trap /\ h.aborted = g.aborted /\ h.drawn = g.drawn
      /\ h.eng[e] = r2 /\ h.journal[e] = <<>> /\ h.jn[e] = 0
      /\ \A o \in Engines : o # e => h.eng[o] = g.eng[o] /\ h.journal[o] = g.journal[o] /\ h.jn[o] = g.jn[o]
  BY <1>4, <1>6 DEF SameFrame, SameCounts, SameJobs, SameFlight, SameEnd
<1>8. Base(h, K, c)
  BY <1>1, <1>5, <1>7 DEF Base
<1>9. \A o \in Engines : /\ DrawnOf(h, o) = DrawnOf(g, o) /\ PosOf(h, c, o) = PosOf(g, c, o)
                         /\ h.job_map[o] = g.job_map[o]
  BY <1>7 DEF DrawnOf, PosOf, SameJobs
<1>10. EngOk(h, K, c, e)
  <2>1. h.jn[e] \in Len(h.journal[e])..JOURNAL_CAP
    <3>1. JOURNAL_CAP \in Nat /\ Len(<<>>) = 0
      BY LimitsAssumption
    <3> QED
      BY <3>1, <1>7
  <2>2. JobOk(h, c, e)
    BY <2>1, <1>2, <1>7, Zenon DEF JobOk, SameFrame, SameJobs
  <2> QED
    BY <2>2, <1>3, <1>7, <1>9 DEF EngOk
<1>11. ASSUME NEW o \in Engines, o # e PROVE EngOk(h, K, c, o)
  <2>1. SameSlot(g, h, o)
    <3>1. h.burst[o] => h.per_line[o]
      BY <1>7 DEF Core, EngOk, JobOk, SameFrame
    <3> QED
      BY <3>1, <1>7, <1>9, <1>11 DEF SameSlot, SameEng, SameJobs
  <2> QED
    BY <2>1, SlotKept DEF Core
<1>12. Core(h, K, c)
  BY <1>8, <1>10, <1>11 DEF Core
<1> QED
  BY <1>7, <1>12 DEF h, a, NoneFiled

\* Filing a write leaves the frame as it is.
LEMMA FiledFrame ==
  ASSUME NEW K, Ctx(K), NEW e \in Engines, NEW x \in JEntry, x.n = K.n[e] + x.step,
         NEW g, NEW c, Core(g, K, c), Frame(g), Top(g) => x.step = 1,
         frontier(g) >= SCREEN_H => g.inflight[e],
         NEW h, SameFrame(g, h), SameCounts(g, h), SameJobs(g, h), SameFlight(g, h),
         h.finished = g.finished, h.eng = g.eng, h.journal[e] = Append(g.journal[e], x),
         \A o \in Engines : o # e => h.journal[o] = g.journal[o]
  PROVE Frame(h) /\ Cur(h) = Cur(g)
<1>1. /\ frontier(h) = frontier(g) /\ Top(h) = Top(g) /\ in_flight(h) = in_flight(g)
      /\ h.next = g.next /\ h.lazy = g.lazy /\ h.inflight = g.inflight /\ h.deferred = g.deferred
  BY DEF frontier, Top, in_flight, SameJobs, SameFlight, SameFrame, SameCounts
<1>2. ASSUME frontier(h) >= SCREEN_H
      PROVE /\ h.finished /\ h.next = Both(SCREEN_H)
            /\ \A o \in Engines : (h.inflight[o] => h.deferred[o]) /\ (~h.inflight[o] => h.journal[o] = <<>>)
  BY <1>1, <1>2 DEF Frame
<1>3. frontier(h) < SCREEN_H => ~h.finished
  BY <1>1 DEF Frame
<1>4. ASSUME Top(h), NEW o \in Engines, NEW i \in 1..Len(h.journal[o])
      PROVE h.journal[o][i].n = h.eng[o].n + i
  <2>1. \A k \in 1..Len(g.journal[o]) : g.journal[o][k].n = g.eng[o].n + k
    BY <1>1, <1>4 DEF Frame
  <2>2. CASE o # e
    BY <2>1, <2>2, <1>4
  <2>3. CASE o = e
    <3> DEFINE j == g.journal[e]
    <3>1. j \in Seq(JEntry) /\ LeadsTo(g.eng[e], j, K.n[e], Md(e, K.mode)) /\ g.eng[e] \in EngineState
      BY DEF Core, EngOk, Eng, Jrn
    <3> HIDE DEF j
    <3>2. Len(j) \in Nat /\ g.eng[e].n \in Nat /\ K.n[e] \in Nat
      BY <3>1 DEF EngineState, Ctx
    <3>3. K.n[e] = g.eng[e].n + Len(j)
      <4>1. CASE j = <<>>
        <5>1. Len(j) = 0
          BY <4>1
        <5> QED
          BY <5>1, <4>1, <3>1, <3>2 DEF LeadsTo
      <4>2. CASE j # <<>>
        <5>1. Len(j) \in 1..Len(j)
          BY <4>2, <3>1
        <5> QED
          BY <5>1, <4>2, <3>1, <2>1, <2>3 DEF LeadsTo, j
      <4> QED
        BY <4>1, <4>2
    <3>4. x.n = g.eng[e].n + (Len(j) + 1)
      <4>1. x.step = 1
        BY <1>1, <1>4
      <4>2. x.n = K.n[e] + 1
        BY <4>1
      <4> DEFINE y == x.n  k == K.n[e]  a == g.eng[e].n  l == Len(j)
      <4>3. y = k + 1 /\ k = a + l /\ a \in Nat /\ l \in Nat /\ k \in Nat
        BY <3>2, <3>3, <4>2
      <4> HIDE DEF y, k, a, l
      <4>4. y = a + (l + 1)
        BY <4>3
      <4> QED
        BY <4>4 DEF y, a, l
    <3>5. /\ Len(h.journal[e]) = Len(j) + 1 /\ h.journal[e][Len(j) + 1] = x
          /\ \A k \in 1..Len(j) : h.journal[e][k] = j[k]
      BY <3>1, AppendProperties DEF j
    <3>6. i \in 1..Len(j) \/ i = Len(j) + 1
      BY <1>4, <2>3, <3>2, <3>5
    <3> QED
      BY <2>1, <2>3, <3>4, <3>5, <3>6 DEF j
  <2> QED
    BY <2>2, <2>3
<1>5. Top(h) => ~in_flight(h) /\ (h.lazy => h.next = Both(0))
  BY <1>1 DEF Frame
<1>6. Frame(h)
  BY <1>2, <1>3, <1>4, <1>5 DEF Frame
<1>7. Cur(h) = Cur(g)
  BY <1>1, Zenon DEF Cur
<1> QED
  BY <1>6, <1>7

\* What the frame says of an engine past its last line.
LEMMA PastLast ==
  ASSUME NEW K, Ctx(K), NEW g, Core(g, K, Cur(g)), Frame(g), K.E = Scanned(g),
         frontier(g) >= SCREEN_H
  PROVE /\ g.finished /\ g.next = Both(SCREEN_H) /\ K.E = SCREEN_H /\ ~K.w /\ ~Top(g)
        /\ \A e \in Engines : /\ Cur(g)[e] = SCREEN_H
                              /\ g.inflight[e] <=> g.deferred[e]
                              /\ ~g.inflight[e] => g.journal[e] = <<>> /\ PosOf(g, Cur(g), e) = SCREEN_H
<1>1. /\ g.finished /\ g.next = Both(SCREEN_H)
      /\ \A e \in Engines : (g.inflight[e] => g.deferred[e]) /\ (~g.inflight[e] => g.journal[e] = <<>>)
  BY DEF Frame
<1>2. SCREEN_H \in Nat \ {0} /\ g.line \in Nat
  BY LinesAssumption, Types DEF Core, Base
<1>3. ~Top(g)
  BY <1>2 DEF Top, frontier
<1>4. K.E = SCREEN_H /\ ~K.w
  <2>1. K.E = SCREEN_H
    BY <1>2 DEF Scanned, frontier
  <2> QED
    BY <2>1, <1>2 DEF Ctx
<1>5. \A e \in Engines : Cur(g)[e] = SCREEN_H
  BY <1>1, <1>3 DEF Cur, Both
<1>6. \A e \in Engines : g.deferred[e] => g.inflight[e]
  BY DEF Core, EngOk, JobOk
<1> QED
  BY <1>1, <1>3, <1>4, <1>5, <1>6 DEF PosOf

\* A write or a latch takes its place among the guest's.
LEMMA QueueCore ==
  ASSUME NEW K, Ctx(K), K \in CtxMembers(K.due), K.vm = vmap, K.ver = ver,
         NEW g, K.E = Scanned(g), K.hi = Now(g), K.w => ~g.hblank,
         Core(g, K, Cur(g)), Frame(g),
         NEW e \in Engines, NEW x, NextWrite(K, e, x), Top(g) => x.step = 1,
         g.jn[e] < JOURNAL_CAP \/ (~g.deferred[e] /\ ~K.ex /\ ~K.w)
  PROVE LET h == queue(g, e, x)
        IN /\ Core(h, Written(K, e, x), Cur(h)) /\ Frame(h) /\ Cur(h) = Cur(g)
           /\ SameFrame(g, h) /\ SameCounts(g, h) /\ h.finished = g.finished /\ h.trap = g.trap
           /\ g.jn[e] < JOURNAL_CAP \/ frontier(g) >= SCREEN_H =>
                /\ SameJobs(g, h) /\ SameFlight(g, h)
                /\ \A o \in Engines : o # e => h.jn[o] = g.jn[o]
<1> DEFINE s == journal_stamp(g, e)
           g1 == IF g.jn[e] = JOURNAL_CAP THEN join_worker(g) ELSE g
           g2 == IF g1.jn[e] = JOURNAL_CAP THEN [apply_pending(g1, e) EXCEPT !.jn[e] = 0] ELSE g1
           x2 == [x EXCEPT !.stamp = s]
           direct == [g EXCEPT !.eng[e] = Applied(@, <<x>>, 1)]
           filed == Filed(g2, e, x2)
           h == queue(g, e, x)
           c == Cur(g)
<1>0. h = IF s = NO_STAMP THEN direct ELSE filed
  BY DEF queue, Filed
<1>1. /\ g.line \in Nat /\ g.hblank \in BOOLEAN /\ frontier(g) \in Nat /\ SCREEN_H \in Nat \ {0}
      /\ JOURNAL_CAP \in Nat \ {0} /\ K.hi \in Nat /\ K.E \in Nat
  <2>1. Typed(g) /\ SCREEN_H \in Nat \ {0} /\ SCANLINES_PER_FRAME \in Nat /\ JOURNAL_CAP \in Nat \ {0}
        /\ K.hi \in Nat /\ K.E \in Nat
    BY LinesAssumption, LimitsAssumption DEF Core, Base, Ctx
  <2>2. g.line \in 0..SCANLINES_PER_FRAME - 1 /\ g.hblank \in BOOLEAN
    BY <2>1, Types
  <2> QED
    BY <2>1, <2>2 DEF frontier
<1>2. CASE ~(frontier(g) < SCREEN_H \/ g.inflight[e])
  <2>1. s = NO_STAMP
    BY <1>2 DEF journal_stamp
  <2>2. h = direct
    BY <1>0, <2>1
  <2>3. g.journal[e] = <<>> /\ PosOf(g, c, e) = K.E /\ ~K.w
    BY <1>1, <1>2, PastLast
  <2>4. /\ Core(direct, Written(K, e, x), c)
        /\ SameFrame(g, direct) /\ SameCounts(g, direct) /\ SameJobs(g, direct) /\ SameFlight(g, direct)
        /\ SameEnd(g, direct) /\ direct.journal = g.journal
    <3>1. Core(g, K, c)
      OBVIOUS
    <3> HIDE DEF c
    <3> QED
      BY <2>3, <3>1, DirectCore
  <2> HIDE DEF direct, h
  <2>5. Frame(h) /\ Cur(h) = c
    <3>1. /\ frontier(h) = frontier(g) /\ h.next = g.next /\ h.finished = g.finished
          /\ h.inflight = g.inflight /\ h.deferred = g.deferred /\ h.journal = g.journal
          /\ Top(h) = Top(g)
      BY <2>2, <2>4 DEF frontier, Top, SameFrame, SameCounts, SameJobs, SameEnd
    <3>2. ~Top(g)
      BY <1>1, <1>2, PastLast
    <3>3. Frame(h)
      BY <1>1, <1>2, <3>1, <3>2 DEF Frame
    <3> QED
      BY <3>1, <3>3, Zenon DEF Cur
  <2> QED
    BY <2>2, <2>4, <2>5 DEF SameEnd, h, direct, c
<1>3. CASE frontier(g) < SCREEN_H \/ g.inflight[e]
  <2>1. s = K.hi
    BY <1>3 DEF journal_stamp, Now
  <2>2. s # NO_STAMP
    BY <2>1, <1>1 DEF NO_STAMP
  <2>3. h = filed
    BY <1>0, <2>2
  <2>4. NextWrite(K, e, x2) /\ x2.stamp = K.hi /\ x2.n = x.n /\ x2.step = x.step /\ x2.mode = x.mode
        /\ x2 \in JEntry
    BY <2>1, <1>1 DEF NextWrite, JEntry
  <2>5. Written(K, e, x2) = Written(K, e, x)
    BY <2>4, Zenon DEF Written
  <2>6. 2 * K.E <= K.hi /\ (K.w => 2 * K.E < K.hi)
    BY <1>1 DEF Now, Scanned, frontier
  <2>7. frontier(g) >= SCREEN_H => g.inflight[e]
    BY <1>1, <1>3
  <2> HIDE DEF x2, s, h
  <2>8. CASE g.jn[e] < JOURNAL_CAP
    <3>1. g2 = g
      BY <2>8, <1>1
    <3> DEFINE f == Filed(g, e, x2)
    <3>2. h = f
      BY <2>3, <3>1 DEF Filed
    <3>3. /\ Core(f, Written(K, e, x2), c)
          /\ SameFrame(g, f) /\ SameCounts(g, f) /\ SameJobs(g, f) /\ SameFlight(g, f)
          /\ f.finished = g.finished /\ f.trap = g.trap /\ f.eng = g.eng /\ f.drawn = g.drawn
          /\ f.journal[e] = Append(g.journal[e], x2)
          /\ \A o \in Engines : o # e => f.journal[o] = g.journal[o] /\ f.jn[o] = g.jn[o]
      <4>1. Core(g, K, c)
        OBVIOUS
      <4> HIDE DEF c
      <4> QED
        BY <4>1, <2>4, <2>6, <2>8, FileCore
    <3> HIDE DEF f
    <3>4. Frame(f) /\ Cur(f) = c
      <4>1. x2 \in JEntry /\ x2.n = K.n[e] + x2.step /\ (Top(g) => x2.step = 1)
        BY <2>4 DEF NextWrite
      <4> QED
        BY <4>1, <2>7, <3>3, FiledFrame
    <3> QED
      BY <3>2, <3>3, <3>4, <2>5 DEF h, c
  <2>9. CASE ~(g.jn[e] < JOURNAL_CAP)
    <3>1. ~g.deferred[e] /\ ~K.ex /\ ~K.w
      BY <2>9
    <3>2. g.jn[e] = JOURNAL_CAP
      BY <2>9, <1>1 DEF Core, EngOk, JobOk
    <3>3. frontier(g) < SCREEN_H
      <4> SUFFICES ASSUME ~(frontier(g) < SCREEN_H) PROVE FALSE
        OBVIOUS
      <4> QED
        BY <1>1, <2>7, <3>1 DEF Frame
    <3>4. ~g.finished
      BY <3>3 DEF Frame
    <3> DEFINE y == join_worker(g)
    <3>5. /\ Core(y, K, c)
          /\ SameFrame(g, y) /\ SameCounts(g, y) /\ y.finished = g.finished
          /\ y.trap = (g.trap /\ ~(g.deferred[0] /\ g.finished))
          /\ ~in_flight(g) => y = g
      <4>1. Core(g, K, c)
        OBVIOUS
      <4> HIDE DEF c
      <4> QED
        BY <4>1, JoinCore
    <3>6. g1 = y
      BY <3>2
    <3> HIDE DEF y, g1
    <3>7. y.trap = g.trap
      BY <3>4, <3>5, Types DEF Core, Base
    <3>8. Frame(y) /\ Cur(y) = c
      <4>1. Top(y) = Top(g) /\ frontier(y) = frontier(g)
        BY <3>5 DEF Top, frontier, SameFrame
      <4>2. Top(y) => y = g
        BY <4>1, <3>5 DEF Frame
      <4>3. Frame(y)
        BY <4>1, <4>2, <3>3, <3>5, <1>1 DEF Frame
      <4>4. y.next = g.next
        BY <3>5 DEF SameCounts
      <4> QED
        BY <4>1, <4>3, <4>4, Zenon DEF Cur
    <3> DEFINE z == Emptied(y, e)
    <3>9. /\ Core(z, K, c)
          /\ SameFrame(y, z) /\ SameCounts(y, z) /\ SameJobs(y, z) /\ SameFlight(y, z)
          /\ z.finished = y.finished /\ z.trap = y.trap
          /\ NoneFiled(z, e)
          /\ \A o \in Engines : o # e => z.eng[o] = y.eng[o] /\ z.journal[o] = y.journal[o]
      <4>1. Core(y, K, c) /\ Plain(K)
        BY <3>1, <3>5 DEF Plain
      <4> HIDE DEF c
      <4> QED
        BY <4>1, PendingCore
    <3>10. g2 = IF y.jn[e] = JOURNAL_CAP THEN z ELSE y
      BY <3>6 DEF Emptied
    <3> HIDE DEF z, g2
    <3>11. Frame(z) /\ Cur(z) = c
      <4>1. Top(z) = Top(y) /\ frontier(z) = frontier(y) /\ in_flight(z) = in_flight(y)
            /\ frontier(y) = frontier(g)
        BY <3>5, <3>9 DEF Top, frontier, in_flight, SameFrame, SameFlight, SameJobs
      <4>2. ASSUME Top(z), NEW o \in Engines, NEW i \in 1..Len(z.journal[o])
            PROVE z.journal[o][i].n = z.eng[o].n + i
        <5>1. CASE o = e
          <6>1. Len(<<>>) = 0
            OBVIOUS
          <6> QED
            BY <6>1, <5>1, <3>9, <4>2 DEF NoneFiled
        <5>2. CASE o # e
          BY <5>2, <4>1, <4>2, <3>8, <3>9 DEF Frame
        <5> QED
          BY <5>1, <5>2
      <4>3. z.next = y.next /\ z.lazy = y.lazy
        BY <3>9 DEF SameCounts, SameFrame
      <4>4. Top(z) => ~in_flight(z) /\ (z.lazy => z.next = Both(0))
        BY <4>1, <4>3, <3>8 DEF Frame
      <4>5. Frame(z)
        BY <4>1, <4>2, <4>4, <3>3, <3>4, <3>5, <3>9, <1>1 DEF Frame, NoneFiled
      <4> QED
        BY <4>1, <4>3, <4>5, <3>8, Zenon DEF Cur
    <3>12. /\ Core(g2, K, c) /\ Frame(g2) /\ Cur(g2) = c /\ g2.jn[e] < JOURNAL_CAP
           /\ SameFrame(g, g2) /\ SameCounts(g, g2) /\ g2.finished = g.finished /\ g2.trap = g.trap
      <4>1. CASE y.jn[e] = JOURNAL_CAP
        <5>1. g2 = z
          BY <4>1, <3>10
        <5> QED
          BY <5>1, <3>5, <3>7, <3>9, <3>11, <1>1 DEF SameFrame, SameCounts, NoneFiled
      <4>2. CASE y.jn[e] # JOURNAL_CAP
        <5>1. g2 = y
          BY <4>2, <3>10
        <5>2. y.jn[e] \in Len(y.journal[e])..JOURNAL_CAP /\ y.journal[e] \in Seq(JEntry)
          BY <3>5 DEF Core, EngOk, JobOk, Eng, Jrn
        <5>3. y.jn[e] < JOURNAL_CAP
          BY <5>2, <4>2, <1>1
        <5> QED
          BY <5>1, <5>3, <3>5, <3>7, <3>8
      <4> QED
        BY <4>1, <4>2
    <3>13. /\ Core(filed, Written(K, e, x2), c)
           /\ SameFrame(g2, filed) /\ SameCounts(g2, filed) /\ SameJobs(g2, filed) /\ SameFlight(g2, filed)
           /\ filed.finished = g2.finished /\ filed.trap = g2.trap /\ filed.eng = g2.eng
           /\ filed.journal[e] = Append(g2.journal[e], x2)
           /\ \A o \in Engines : o # e => filed.journal[o] = g2.journal[o] /\ filed.jn[o] = g2.jn[o]
      <4>1. Core(g2, K, c) /\ g2.jn[e] < JOURNAL_CAP
        BY <3>12
      <4> HIDE DEF c
      <4> QED
        BY <4>1, <2>4, <2>6, FileCore
    <3> HIDE DEF filed
    <3>14. Frame(filed) /\ Cur(filed) = c
      <4>1. x2 \in JEntry /\ x2.n = K.n[e] + x2.step /\ (Top(g) => x2.step = 1)
        BY <2>4 DEF NextWrite
      <4>2. Top(g2) = Top(g) /\ frontier(g2) = frontier(g)
        BY <3>12 DEF Top, frontier, SameFrame
      <4>3. frontier(g2) >= SCREEN_H => g2.inflight[e]
        BY <4>2, <3>3, <1>1
      <4> QED
        BY <4>1, <4>2, <4>3, <3>12, <3>13, FiledFrame
    <3>15. SameFrame(g, filed) /\ SameCounts(g, filed) /\ filed.finished = g.finished /\ filed.trap = g.trap
      BY <3>12, <3>13 DEF SameFrame, SameCounts
    <3> QED
      BY <2>3, <2>5, <2>9, <3>3, <3>13, <3>14, <3>15, <1>1 DEF h, c
  <2> QED
    BY <2>8, <2>9
<1> QED
  BY <1>2, <1>3

-----------------------------------------------------------------------------
(* A line is scanned out.                                                  *)

\* K2 is K with one more line scanned out, as the hardware shows it.
ScannedLine(K, K2) ==
  /\ K2.E = K.E + 1 /\ K.hi = 2 * K.E + 1 /\ K2.hi = K.hi
  /\ K2.n = K.n /\ K2.mode = K.mode /\ K2.ver = K.ver /\ K2.vm = K.vm /\ K2.ex = K.ex
  /\ K2.fall = K.fall /\ K2.lay = K.lay /\ ~K2.w
  /\ \A e \in Engines :
       /\ DOMAIN K2.due[e] = DOMAIN K.due[e] \cup {K.E}
       /\ \A x \in DOMAIN K.due[e] : x # K.E => K2.due[e][x] = K.due[e][x]
       /\ K.ex => K2.due[e][K.E] = [edges |-> K.edges[e], n |-> K.n[e],
                                    view |-> View2(e, Md(e, K.mode), K.vm, K.ver)]
  /\ K.ex => K.w

\* The lines still to be drawn, with the one scanned out now among them.
LEMMA ScanCore ==
  ASSUME NEW K, Ctx(K), NEW K2, Ctx(K2), ScannedLine(K, K2), NEW g, NEW c, Core(g, K, c)
  PROVE Core(g, K2, c)
<1>1. /\ K2.E = K.E + 1 /\ K.hi = 2 * K.E + 1 /\ K2.hi = K.hi
      /\ K2.n = K.n /\ K2.mode = K.mode /\ K2.ver = K.ver /\ K2.vm = K.vm /\ K2.ex = K.ex
      /\ K2.fall = K.fall /\ K2.lay = K.lay /\ ~K2.w /\ (K.ex => K.w)
  BY DEF ScannedLine
<1>2. K.E \in Nat /\ K2.E \in Nat
  BY LinesAssumption DEF Ctx
<1>3. Base(g, K, c) /\ c \in [Engines -> 0..K.E]
  BY DEF Core, Base
<1>4. c \in [Engines -> 0..K2.E]
  BY <1>1, <1>2, <1>3
<1>5. Base(g, K2, c)
  BY <1>3, <1>4 DEF Base
<1>6. ASSUME NEW e \in Engines PROVE EngOk(g, K2, c, e)
  <2> DEFINE r == g.eng[e]  j == g.journal[e]  jm == g.job_map[e]  D == DrawnOf(g, e)
             p == PosOf(g, c, e)
  <2>1. JobOk(g, c, e) /\ Eng(r, j, jm, D, e, p, c[e], K)
    BY DEF Core, EngOk
  <2> HIDE DEF r, j, jm, D, p
  <2>2. /\ p \in 0..K.E /\ Jrn(r, j, K.n[e], Md(e, K.mode), 2 * p, K.hi)
        /\ \A o \in D : o.line \in Int /\ o.line < p
        /\ DOMAIN K.due[e] = {o.line : o \in D} \cup (p..K.E - 1)
        /\ K.fall /\ e = 0 => Falling(r, j)
        /\ K.lay /\ e = 0 => Layers(r, j)
        /\ K.w => AtN(r, j, 2 * K.E) = K.edges[e]
        /\ K.ex => /\ \A o \in D : o.pic = K.due[e][o.line]
                   /\ \A x \in p..K.E - 1 :
                        K.due[e][x] = PicOf(r, j, e, x, MapAt(jm, x, c[e], K.vm), K.ver)
    BY <2>1 DEF Eng
  <2>3. p \in Nat /\ p <= K.E /\ c[e] \in Nat /\ c[e] <= K.E
    BY <2>2, <1>2, <1>3
  <2>4. /\ DOMAIN K2.due[e] = DOMAIN K.due[e] \cup {K.E}
        /\ \A x \in DOMAIN K.due[e] : x # K.E => K2.due[e][x] = K.due[e][x]
        /\ K.ex => K2.due[e][K.E] = [edges |-> K.edges[e], n |-> K.n[e],
                                     view |-> View2(e, Md(e, K.mode), K.vm, K.ver)]
    BY DEF ScannedLine
  <2>5. p..K2.E - 1 = (p..K.E - 1) \cup {K.E}
    BY <1>1, <1>2, <2>3
  <2>6. DOMAIN K2.due[e] = {o.line : o \in D} \cup (p..K2.E - 1)
    BY <2>2, <2>4, <2>5
  <2>7. ASSUME K2.ex, NEW o \in D PROVE o.pic = K2.due[e][o.line]
    <3>1. o.line \in DOMAIN K.due[e] /\ o.line # K.E
      BY <2>2, <2>3, <1>2
    <3> QED
      BY <3>1, <2>2, <2>4, <2>7, <1>1
  <2>8. ASSUME K2.ex, NEW x \in p..K2.E - 1
        PROVE K2.due[e][x] = PicOf(r, j, e, x, MapAt(jm, x, c[e], K2.vm), K2.ver)
    <3>1. CASE x \in p..K.E - 1
      <4>1. x \in DOMAIN K.due[e] /\ x # K.E
        BY <3>1, <2>2, <1>2
      <4> QED
        BY <3>1, <4>1, <2>2, <2>4, <2>8, <1>1
    <3>2. CASE x = K.E
      <4>1. MapAt(jm, x, c[e], K2.vm) = K.vm
        BY <3>2, <2>3, <1>1, <1>2 DEF MapAt
      <4>2. AtN(r, j, 2 * x) = K.edges[e]
        BY <3>2, <2>2, <2>8, <1>1
      <4>3. AtN(r, j, 2 * x + 1) = K.n[e] /\ AtMode(r, j, 2 * x + 1) = Md(e, K.mode)
        <5>1. /\ r \in EngineState /\ j \in Seq(JEntry) /\ Sorted(j)
              /\ LeadsTo(r, j, K.n[e], Md(e, K.mode))
              /\ \A i \in 1..Len(j) : j[i].stamp <= 2 * x + 1
          BY <2>2, <3>2, <1>1 DEF Jrn
        <5>2. 2 * x + 1 \in Int
          BY <3>2, <1>2
        <5> QED
          BY <5>1, <5>2, AtLast
      <4>4. PicOf(r, j, e, x, K.vm, K.ver)
              = [edges |-> K.edges[e], n |-> K.n[e], view |-> View2(e, Md(e, K.mode), K.vm, K.ver)]
        BY <4>2, <4>3, Zenon DEF PicOf
      <4> QED
        BY <3>2, <4>1, <4>4, <2>4, <2>8, <1>1
    <3> QED
      BY <3>1, <3>2, <2>5
  <2>9. p \in 0..K2.E
    BY <2>3, <1>1, <1>2
  <2>10. Eng(r, j, jm, D, e, p, c[e], K2)
    BY <2>2, <2>6, <2>7, <2>8, <2>9, <1>1 DEF Eng
  <2> QED
    BY <2>1, <2>10 DEF EngOk, r, j, jm, D, p
<1> QED
  BY <1>5, <1>6 DEF Core

\* The lines that the engines draw at the HBlank of a display line.
Batch(g, e) == g.lazy /\ ~g.per_line[e]
LineRanges(g) ==
  [e \in Engines |-> IF Batch(g, e) /\ g.line # SCREEN_H - 1 THEN <<1, 0>>
                     ELSE <<IF Batch(g, e) \/ g.next[e] < g.line THEN g.next[e] ELSE g.line, g.line>>]

\* DisplayLine renders those ranges, then ends the bursts.
LEMMA DisplayLineIs ==
  ASSUME NEW g, NEW parked
  PROVE DisplayLine(g, parked) = EndBursts(render_ranges(g, LineRanges(g), parked))
BY DEF DisplayLine, LineRanges, Batch

\* What the lines drawn at the HBlank of a display line come to.
LineDrawn(g, K, parked) ==
  LET h == render_ranges(g, LineRanges(g), parked)
  IN /\ Core(h, K, h.next)
     /\ SameFrame(g, h) /\ h.stores = g.stores /\ h.left = g.left /\ h.bursts = g.bursts
     /\ \A e \in Engines : h.next[e] = IF Batch(g, e) /\ g.line # SCREEN_H - 1 THEN Cur(g)[e]
                                       ELSE g.line + 1
     /\ g.line # SCREEN_H - 1 =>
          /\ ~h.finished /\ h.trap = g.trap /\ \A e \in Engines : ~h.deferred[e]
          /\ \/ h = g /\ \A e \in Engines : Batch(g, e)
             \/ /\ \A e \in Engines : h.inflight[e] => /\ h.job_map[e] = vmap /\ g.lag
                                                       /\ e = 1 => Guarded(g, 1)
                /\ (g.stale => in_flight(g)) => ~h.stale
     /\ g.line = SCREEN_H - 1 =>
          /\ h.next = Both(SCREEN_H) /\ h.finished
          /\ \A e \in Engines : /\ h.inflight[e] => h.deferred[e] /\ h.job_map[e] = vmap
                                /\ ~h.inflight[e] => h.journal[e] = <<>>
                                /\ h.deferred[e] => Guarded(g, e) /\ h.trap = g.trap
          /\ ~h.deferred[0] => ~h.trap
          /\ (g.stale => in_flight(g)) => ~h.stale

\* The lines drawn as one is scanned out.
LEMMA RenderLine ==
  ASSUME NEW K, Ctx(K), K.vm = vmap, K.ver = ver, NEW g, Core(g, K, Cur(g)), Frame(g),
         ~g.hblank, g.line < SCREEN_H, K.E = g.line + 1, K.hi = 2 * g.line + 1,
         \A e \in Engines : Cur(g)[e] <= g.line, NEW parked \in BOOLEAN
  PROVE LineDrawn(g, K, parked)
<1> DEFINE r == LineRanges(g)
           c == Cur(g)
           h == render_ranges(g, r, parked)
<1>1. /\ Typed(g) /\ c \in [Engines -> 0..K.E] /\ K.E \in Nat /\ SCREEN_H \in Nat \ {0}
      /\ g.line \in Nat /\ g.next \in [Engines -> Nat]
      /\ g.hblank \in BOOLEAN /\ g.lazy \in BOOLEAN /\ g.per_line \in [Engines -> BOOLEAN]
  BY LinesAssumption, Types DEF Core, Base, Ctx
<1>2. ~g.finished /\ frontier(g) < SCREEN_H
  BY DEF frontier, Frame
<1>3. \A e \in Engines : c[e] = IF Top(g) THEN 0 ELSE g.next[e]
  BY DEF Cur
<1>4. ASSUME NEW e \in Engines
      PROVE /\ Batch(g, e) /\ g.line # SCREEN_H - 1 => ~has(r, e)
            /\ ~(Batch(g, e) /\ g.line # SCREEN_H - 1) =>
                 has(r, e) /\ r[e][1] = c[e] /\ r[e][2] = g.line
            /\ r[e] \in Int \X Int
            /\ Batch(g, e) => c[e] = g.next[e]
  <2>1. r[e] = IF Batch(g, e) /\ g.line # SCREEN_H - 1 THEN <<1, 0>>
               ELSE <<IF Batch(g, e) \/ g.next[e] < g.line THEN g.next[e] ELSE g.line, g.line>>
    BY DEF LineRanges
  <2>2. c[e] <= g.line /\ c[e] \in Nat
    BY <1>1
  <2>3. Batch(g, e) => c[e] = g.next[e]
    <3>1. Top(g) /\ g.lazy => g.next[e] = 0
      BY DEF Frame, Both
    <3> QED
      BY <3>1, <1>3 DEF Batch
  <2>4. ~Batch(g, e) => c[e] = IF g.next[e] < g.line THEN g.next[e] ELSE g.line
    <3>1. CASE Top(g)
      BY <3>1, <1>1, <1>3 DEF Top
    <3>2. CASE ~Top(g)
      BY <3>2, <2>2, <1>1, <1>3
    <3> QED
      BY <3>1, <3>2
  <2> HIDE DEF r, c
  <2>5. CASE Batch(g, e) /\ g.line # SCREEN_H - 1
    <3>1. r[e] = <<1, 0>>
      BY <2>1, <2>5
    <3> QED
      BY <3>1, <2>3, <2>5 DEF has
  <2>6. CASE ~(Batch(g, e) /\ g.line # SCREEN_H - 1)
    <3>1. r[e] = <<c[e], g.line>>
      BY <2>1, <2>3, <2>4, <2>6
    <3> QED
      BY <3>1, <2>2, <2>3, <2>6, <1>1 DEF has
  <2> QED
    BY <2>5, <2>6
<1>5. r \in [Engines -> Int \X Int]
  BY <1>4 DEF LineRanges
<1>6. Ranges(r, K, c)
  <2> HIDE DEF r, c
  <2>1. \A e \in Engines : has(r, e) => r[e][1] = c[e] /\ r[e][2] < K.E
    BY <1>1, <1>4
  <2> QED
    BY <2>1, <1>5 DEF Ranges
<1>7. \A e \in Engines : ~g.deferred[e] \/ c[e] = SCREEN_H
  BY DEF Core, EngOk, JobOk
<1>8. \A e \in Engines : ~g.deferred[e]
  BY <1>1, <1>7
<1>9. Core(g, K, c)
  OBVIOUS
<1> HIDE DEF r, c
<1>10. CASE g.line = SCREEN_H - 1
  <2>1. AtEnd(K)
    BY <1>10, <1>1 DEF AtEnd
  <2>2. \A e \in Engines : has(r, e) /\ r[e][2] = SCREEN_H - 1
    BY <1>4, <1>10
  <2>3. /\ Core(h, K, Both(SCREEN_H))
        /\ SameFrame(g, h) /\ h.stores = g.stores /\ h.left = g.left /\ h.bursts = g.bursts
        /\ h.next = Both(SCREEN_H) /\ h.finished
        /\ \A e \in Engines : /\ h.inflight[e] => h.deferred[e] /\ h.job_map[e] = vmap
                              /\ ~h.inflight[e] => h.journal[e] = <<>>
                              /\ h.deferred[e] => Guarded(g, e) /\ h.trap = g.trap
        /\ ~h.deferred[0] => ~h.trap
        /\ (g.stale => in_flight(g)) => ~h.stale
    BY <2>1, <2>2, <1>2, <1>6, <1>8, <1>9, RenderLast
  <2> HIDE DEF h
  <2>4. \A e \in Engines : h.next[e] = g.line + 1
    BY <2>3, <1>1, <1>10 DEF Both
  <2> QED
    BY <2>3, <2>4, <1>10 DEF h, r, c, LineDrawn
<1>11. CASE g.line # SCREEN_H - 1
  <2>1. \A e \in Engines : has(r, e) <=> ~Batch(g, e)
    BY <1>4, <1>11
  <2>2. CASE \A e \in Engines : Batch(g, e)
    <3>1. h = g
      BY <2>1, <2>2 DEF render_ranges
    <3>2. \A e \in Engines : c[e] = g.next[e]
      BY <1>4, <2>2
    <3>3. c = g.next
      BY <3>2, <1>1
    <3>4. SameFrame(g, g)
      BY DEF SameFrame
    <3> HIDE DEF h
    <3> QED
      BY <3>1, <3>2, <3>3, <3>4, <2>2, <1>2, <1>8, <1>9, <1>11 DEF h, r, c, LineDrawn
  <2>3. CASE \E e \in Engines : ~Batch(g, e)
    <3>a. \E e \in Engines : has(r, e)
      BY <2>1, <2>3
    <3>b. ASSUME NEW e \in Engines, has(r, e) PROVE r[e][2] < SCREEN_H - 1
      <4>1. r[e][2] = g.line
        BY <3>b, <2>1, <1>4
      <4> QED
        BY <4>1, <1>1, <1>11
    <3>1. /\ \E e \in Engines : has(r, e)
          /\ \A e \in Engines : has(r, e) => r[e][2] < SCREEN_H - 1
          /\ \E e \in Engines : has(r, e) \/ g.next[e] < SCREEN_H
      BY <3>a, <3>b, Zenon
    <3>2. /\ Core(h, K, After(r, c))
          /\ SameFrame(g, h) /\ h.stores = g.stores /\ h.left = g.left /\ h.bursts = g.bursts
          /\ h.next = [e \in Engines |-> IF has(r, e) THEN r[e][2] + 1 ELSE g.next[e]]
          /\ h.finished = g.finished /\ h.trap = g.trap
          /\ \A e \in Engines : ~h.deferred[e]
          /\ \A e \in Engines : h.inflight[e] => h.job_map[e] = vmap /\ g.lag /\ (e = 1 => Guarded(g, 1))
          /\ (g.stale => in_flight(g)) => ~h.stale
      BY <3>1, <1>2, <1>6, <1>8, <1>9, RenderMid
    <3> HIDE DEF h
    <3>3. h.next = After(r, c)
      <4>1. \A e \in Engines : ~has(r, e) => g.next[e] = c[e]
        BY <2>1, <1>4
      <4> QED
        BY <4>1, <3>2 DEF After
    <3>4. \A e \in Engines : h.next[e] = IF Batch(g, e) THEN c[e] ELSE g.line + 1
      BY <3>2, <2>1, <1>4, <1>11
    <3> QED
      BY <3>2, <3>3, <3>4, <1>2, <1>11 DEF h, r, c, LineDrawn
  <2> QED
    BY <2>2, <2>3
<1> QED
  BY <1>10, <1>11

\* What the bursts that end come to: they leave the lines, the jobs and the data; whose do are
\* trapped again.
BurstsEnded(g) ==
  LET h == EndBursts(g)
  IN /\ Typed(h) /\ SameJobs(g, h) /\ SameData(g, h) /\ SameFlight(g, h)
     /\ h.line = g.line /\ h.hblank = g.hblank /\ h.lazy = g.lazy /\ h.lag = g.lag
     /\ h.next = g.next /\ h.stores = g.stores /\ h.bursts = g.bursts
     /\ h.finished = g.finished /\ h.aborted = g.aborted /\ h.jn = g.jn
     /\ \A e \in Engines : h.burst[e] => h.per_line[e]
     /\ \/ h.trap = g.trap /\ h.mask = g.mask /\ h.lcdc = g.lcdc /\ h.per_line = g.per_line
        \/ /\ g.line < SCREEN_H - 1 /\ \E e \in Engines : g.per_line[e]
           /\ \A e \in Engines : h.per_line[e] => g.per_line[e]
           /\ h.trap <=> MaskOf(h) # {}
           /\ h.trap => h.mask = MaskOf(h) /\ (h.lcdc <=> 0 \in MaskOf(h) /\ g.eng[0].mode = 2)

\* EndBursts does so.
LEMMA EndBurstsIs ==
  ASSUME NEW g, Typed(g), \A e \in Engines : g.burst[e] => g.per_line[e],
         \A e \in Engines : g.per_line[e] /\ g.line < SCREEN_H - 1 => g.next[e] = g.line + 1
  PROVE BurstsEnded(g)
<1> DEFINE left == [e \in Engines |-> g.left[e] - IF g.burst[e] THEN 1 ELSE 0]
           over == {e \in Engines : g.burst[e] /\ left[e] = 0 /\ g.line < SCREEN_H - 1}
           bu == [e \in Engines |-> g.burst[e] /\ e \notin over]
           pl == [e \in Engines |-> g.per_line[e] /\ e \notin over]
           nx == [e \in Engines |-> IF e \in over THEN g.line + 1 ELSE g.next[e]]
           ended == [g EXCEPT !.left = left, !.burst = bu, !.per_line = pl, !.next = nx]
           h == EndBursts(g)
<1>1. h = IF over = {} THEN ended ELSE arm_trap(ended)
  <2>1. /\ bu = [e \in Engines |-> g.burst[e] /\ e \notin over]
        /\ pl = [e \in Engines |-> g.per_line[e] /\ e \notin over]
    OBVIOUS
  <2> QED
    BY DEF EndBursts
<1>2. /\ g.left \in [Engines -> Int] /\ g.burst \in [Engines -> BOOLEAN] /\ g.line \in Nat
      /\ g.per_line \in [Engines -> BOOLEAN] /\ g.next \in [Engines -> Nat]
  BY Types, LinesAssumption
<1>3. left \in [Engines -> Int]
  BY <1>2
<1>4. over \subseteq Engines /\ \A e \in over : g.burst[e] /\ g.line < SCREEN_H - 1
  OBVIOUS
<1> HIDE DEF left, over
<1>5. bu \in [Engines -> BOOLEAN] /\ pl \in [Engines -> BOOLEAN]
  BY <1>2
<1>6. nx = g.next
  <2>1. \A e \in over : g.next[e] = g.line + 1
    BY <1>4
  <2>2. nx = [e \in Engines |-> g.next[e]]
    BY <2>1
  <2> QED
    BY <2>2, <1>2
<1>7. \A e \in Engines : (bu[e] => pl[e]) /\ (pl[e] => g.per_line[e])
  OBVIOUS
<1>8. over = {} => pl = g.per_line
  BY <1>2
<1> HIDE DEF bu, pl, nx
<1>9. Typed(ended)
  <2>1. /\ left \in [Engines -> Int] /\ bu \in [Engines -> BOOLEAN] /\ pl \in [Engines -> BOOLEAN]
        /\ nx \in [Engines -> Nat]
    BY <1>2, <1>3, <1>5, <1>6
  <2> QED
    BY <2>1 DEF Typed, Members
<1>10. /\ SameJobs(g, ended) /\ SameData(g, ended) /\ SameFlight(g, ended)
       /\ ended.line = g.line /\ ended.hblank = g.hblank /\ ended.lazy = g.lazy /\ ended.lag = g.lag
       /\ ended.next = g.next /\ ended.stores = g.stores /\ ended.bursts = g.bursts
       /\ ended.finished = g.finished /\ ended.aborted = g.aborted /\ ended.jn = g.jn
       /\ ended.trap = g.trap /\ ended.mask = g.mask /\ ended.lcdc = g.lcdc
       /\ ended.burst = bu /\ ended.per_line = pl
  BY <1>6 DEF Typed, Members, SameJobs, SameData, SameFlight
<1> HIDE DEF ended
<1>11. CASE over = {}
  <2>1. h = ended
    BY <1>1, <1>11
  <2> HIDE DEF h
  <2> QED
    BY <2>1, <1>7, <1>8, <1>9, <1>10, <1>11 DEF h, BurstsEnded
<1>12. CASE over # {}
  <2>1. h = arm_trap(ended)
    BY <1>1, <1>12
  <2> HIDE DEF h
  <2>2. /\ Typed(h) /\ SameJobs(ended, h) /\ SameData(ended, h) /\ SameFlight(ended, h)
        /\ SameCounts(ended, h)
        /\ h.line = ended.line /\ h.hblank = ended.hblank /\ h.lazy = ended.lazy /\ h.lag = ended.lag
        /\ h.per_line = ended.per_line /\ h.burst = ended.burst
        /\ h.finished = ended.finished /\ h.aborted = ended.aborted /\ h.jn = ended.jn
        /\ h.trap <=> MaskOf(ended) # {}
        /\ h.trap => h.mask = MaskOf(ended) /\ (h.lcdc <=> 0 \in MaskOf(ended) /\ ended.eng[0].mode = 2)
    BY <2>1, <1>9, ArmIs
  <2>3. MaskOf(ended) = MaskOf(h)
    BY <2>2 DEF MaskOf
  <2>4. g.line < SCREEN_H - 1 /\ \E e \in Engines : g.per_line[e]
    BY <1>4, <1>12
  <2>5. SameJobs(g, h) /\ SameData(g, h) /\ SameFlight(g, h) /\ ended.eng = g.eng
    BY <2>2, <1>10 DEF SameJobs, SameData, SameFlight
  <2>6. h.next = g.next /\ h.stores = g.stores /\ h.bursts = g.bursts
    BY <2>2, <1>10 DEF SameCounts
  <2>7. /\ h.line = g.line /\ h.hblank = g.hblank /\ h.lazy = g.lazy /\ h.lag = g.lag
        /\ h.finished = g.finished /\ h.aborted = g.aborted /\ h.jn = g.jn
        /\ \A e \in Engines : (h.burst[e] => h.per_line[e]) /\ (h.per_line[e] => g.per_line[e])
    BY <2>2, <1>10, <1>7
  <2>8. /\ h.trap <=> MaskOf(h) # {}
        /\ h.trap => h.mask = MaskOf(h) /\ (h.lcdc <=> 0 \in MaskOf(h) /\ g.eng[0].mode = 2)
    BY <2>2, <2>3, <2>5
  <2> QED
    BY <2>2, <2>4, <2>5, <2>6, <2>7, <2>8 DEF h, BurstsEnded
<1> QED
  BY <1>11, <1>12

-----------------------------------------------------------------------------
(* The steps.                                                              *)

\* The members of Gpu, but for the lines drawn in this step.
LEMMA ClearedKept ==
  ASSUME NEW g, Typed(g), NEW h, h = [g EXCEPT !.drawn = {}]
  PROVE /\ SameFrame(g, h) /\ SameCounts(g, h) /\ SameEnd(g, h) /\ SameJobs(g, h)
        /\ SameFlight(g, h) /\ h.eng = g.eng /\ h.journal = g.journal /\ h.drawn = {}
BY DEF Typed, Members, SameFrame, SameCounts, SameEnd, SameJobs, SameFlight

\* Watch sees only these members.
LEMMA WatchKept ==
  ASSUME NEW g, NEW K, NEW c, Watch(g, K, c), NEW h,
         h.lag = g.lag, h.lazy = g.lazy, h.per_line = g.per_line, h.mask = g.mask, h.lcdc = g.lcdc,
         h.inflight = g.inflight, h.deferred = g.deferred, h.job_map = g.job_map,
         h.finished = g.finished, h.trap = g.trap, SameFlight(g, h), NEW K2, K2.E = K.E, K2.vm = K.vm
  PROVE Watch(h, K2, c)
<1>1. Armed(h)
  <2>1. MaskOf(h) = MaskOf(g)
    BY DEF MaskOf
  <2> QED
    BY <2>1 DEF Watch, Armed
<1>2. Batching(h, K2, c)
  BY DEF Watch, Batching
<1>3. JobMap(h, K2.vm)
  <2>1. \A p : Trapped(h, p) <=> Trapped(g, p)
    BY DEF Trapped
  <2> QED
    BY <2>1 DEF Watch, JobMap, SameFlight
<1>4. h.stale => in_flight(h)
  BY DEF Watch, in_flight, SameFlight
<1> QED
  BY <1>1, <1>2, <1>3, <1>4 DEF Watch

\* The end of a step.
LEMMA EndStep ==
  ASSUME NEW g, NEW d, NEW nn, NEW md, NEW ed, NEW vr, NEW vm, NEW ex \in BOOLEAN,
         Fit(g, Context(g, d, nn, md, ed, vr, vm, ex)), Draws(g, d)
  PROVE /\ Fit(gpu', Context(gpu', due', nn, md, ed, vr, vm, ex)) /\ gpu'.drawn = {}
        /\ ex => unlike' = unlike
<1> DEFINE K == Context(g, d, nn, md, ed, vr, vm, ex)
           K2 == Context(gpu', due', nn, md, ed, vr, vm, ex)
<1>1. gpu' = [g EXCEPT !.drawn = {}] /\ due' = Left(g, d)
  <2>1. \A e \in Engines : LinesOf(g, e) = {o.line : o \in {x \in g.drawn : x.e = e}}
    BY DEF LinesOf
  <2>2. due' = [e \in Engines |-> [x \in DOMAIN d[e] \ {o.line : o \in {y \in g.drawn : y.e = e}} |-> d[e][x]]]
    BY Zenon DEF Draws
  <2> QED
    BY <2>1, <2>2, Zenon DEF Left, Draws
<1>2. Ctx(K) /\ Core(g, K, Cur(g)) /\ Frame(g) /\ (ex => Watch(g, K, Cur(g)))
  BY DEF Fit, Context
<1>3. Typed(g)
  BY <1>2 DEF Core, Base
<1>4. /\ SameFrame(g, gpu') /\ SameCounts(g, gpu') /\ SameEnd(g, gpu') /\ SameJobs(g, gpu')
      /\ SameFlight(g, gpu') /\ gpu'.eng = g.eng /\ gpu'.journal = g.journal /\ gpu'.drawn = {}
  BY <1>1, <1>3, ClearedKept
<1>5. /\ gpu'.line = g.line /\ gpu'.hblank = g.hblank /\ gpu'.mask = g.mask /\ gpu'.lcdc = g.lcdc
      /\ gpu'.trap = g.trap /\ gpu'.finished = g.finished /\ gpu'.next = g.next /\ gpu'.lazy = g.lazy
  BY <1>4 DEF SameFrame, SameEnd, SameCounts
<1>6. Frame(gpu') /\ Cur(gpu') = Cur(g)
  BY <1>2, <1>4, <1>5, FrameKept
<1>7. Scanned(gpu') = Scanned(g) /\ Now(gpu') = Now(g)
  BY <1>5 DEF Scanned, Now, frontier
<1>8. /\ K2.E = K.E /\ K2.hi = K.hi /\ K2.n = K.n /\ K2.mode = K.mode /\ K2.due = due'
      /\ K2.ver = K.ver /\ K2.vm = K.vm /\ K2.ex = K.ex /\ K2.w = K.w /\ K2.edges = K.edges
      /\ K2.fall = K.fall /\ K2.lay = K.lay /\ K.due = d /\ K.ex = ex
  BY <1>5, <1>7 DEF Context
<1> HIDE DEF K, K2
<1>9. Ctx(K2)
  <2>1. due' = [e \in Engines |-> [x \in DOMAIN due'[e] |-> due'[e][x]]]
    BY <1>1, Zenon DEF Left
  <2> QED
    BY <2>1, <1>2, <1>8 DEF Ctx
<1>10. Draws(g, K.due)
  BY <1>8
<1>11. Core(gpu', K2, Cur(g)) /\ (K.ex => unlike' = unlike)
  BY <1>2, <1>8, <1>9, <1>10, DrawsKeep
<1>12. ex => Watch(gpu', K2, Cur(g))
  BY <1>2, <1>4, <1>5, <1>8, WatchKept DEF SameJobs, SameFrame
<1> QED
  BY <1>6, <1>8, <1>9, <1>11, <1>12, <1>4 DEF Fit, K2

\* The context of the state as it is, and the invariant of the next one.
Ktx(ex) == Context(gpu, due, n, mode, edges, ver, vmap, ex)
Kept(ex) == /\ Fit(gpu', Context(gpu', due', n', mode', edges', ver', vmap', ex)) /\ gpu'.drawn = {}
            /\ ex => unlike' = unlike

\* The members of a context.
LEMMA ContextIs ==
  ASSUME NEW g, NEW d, NEW nn, NEW md, NEW ed, NEW vr, NEW vm, NEW ex
  PROVE LET K == Context(g, d, nn, md, ed, vr, vm, ex)
        IN /\ K.E = Scanned(g) /\ K.hi = Now(g) /\ K.due = d /\ K.n = nn /\ K.mode = md
           /\ K.edges = ed /\ K.ver = vr /\ K.vm = vm /\ K.ex = ex
           /\ K.w = (ex /\ ~g.hblank /\ g.line < SCREEN_H)
           /\ K.fall = (ex /\ g.trap /\ 0 \in g.mask)
           /\ K.lay = (ex /\ g.trap /\ 0 \in g.mask /\ ~g.lcdc)
           /\ Ctx(K) => K \in CtxMembers(d)
<1> DEFINE K == Context(g, d, nn, md, ed, vr, vm, ex)
<1>1. K.E \in 0..SCREEN_H => K.E \in Nat
  BY LinesAssumption
<1>2. Ctx(K) => K \in CtxMembers(d)
  <2> SUFFICES ASSUME Ctx(K) PROVE K \in CtxMembers(d)
    OBVIOUS
  <2>1. /\ K.E \in Nat /\ K.hi \in Nat /\ K.mode \in {1, 2} /\ K.n \in [Engines -> Nat]
        /\ K.vm \in [Banks -> Places] /\ K.ver \in [Banks -> Nat] /\ K.edges \in [Engines -> Nat]
        /\ K.ex \in BOOLEAN /\ K.w \in BOOLEAN /\ K.fall \in BOOLEAN /\ K.lay \in BOOLEAN /\ K.due = d
    BY <1>1 DEF Ctx, Context
  <2> QED
    BY <2>1 DEF CtxMembers, Context
<1> QED
  BY <1>2 DEF Context

\* A context sees only these members of Gpu.
LEMMA ContextSame ==
  ASSUME NEW g, NEW h, h.line = g.line, h.hblank = g.hblank, h.trap = g.trap, h.mask = g.mask,
         h.lcdc = g.lcdc, NEW d, NEW nn, NEW md, NEW ed, NEW vr, NEW vm, NEW ex
  PROVE Context(h, d, nn, md, ed, vr, vm, ex) = Context(g, d, nn, md, ed, vr, vm, ex)
<1>1. Scanned(h) = Scanned(g) /\ Now(h) = Now(g)
  BY DEF Scanned, Now, frontier
<1> QED
  BY <1>1 DEF Context

\* What the invariant says of the state a step starts from.
LEMMA Given ==
  ASSUME NEW ex \in BOOLEAN, Fit(gpu, Ktx(ex))
  PROVE LET K == Ktx(ex)
        IN /\ Ctx(K) /\ Core(gpu, K, Cur(gpu)) /\ Frame(gpu) /\ (ex => Watch(gpu, K, Cur(gpu)))
           /\ K \in CtxMembers(due) /\ K.E = Scanned(gpu) /\ K.hi = Now(gpu)
           /\ K.due = due /\ K.n = n /\ K.mode = mode /\ K.edges = edges /\ K.ver = ver /\ K.vm = vmap
           /\ K.ex = ex /\ K.w = (ex /\ ~gpu.hblank /\ gpu.line < SCREEN_H)
           /\ K.fall = (ex /\ gpu.trap /\ 0 \in gpu.mask)
           /\ K.lay = (ex /\ gpu.trap /\ 0 \in gpu.mask /\ ~gpu.lcdc)
           /\ Typed(gpu)
<1> DEFINE K == Ktx(ex)
<1>1. /\ K.E = Scanned(gpu) /\ K.hi = Now(gpu)
      /\ K.due = due /\ K.n = n /\ K.mode = mode /\ K.edges = edges /\ K.ver = ver /\ K.vm = vmap
      /\ K.ex = ex /\ K.w = (ex /\ ~gpu.hblank /\ gpu.line < SCREEN_H)
      /\ K.fall = (ex /\ gpu.trap /\ 0 \in gpu.mask)
      /\ K.lay = (ex /\ gpu.trap /\ 0 \in gpu.mask /\ ~gpu.lcdc)
      /\ Ctx(K) => K \in CtxMembers(due)
  BY ContextIs DEF Ktx
<1> HIDE DEF K
<1>2. Ctx(K) /\ Core(gpu, K, Cur(gpu)) /\ Frame(gpu) /\ (ex => Watch(gpu, K, Cur(gpu)))
  BY <1>1 DEF Fit, K
<1>3. Typed(gpu)
  BY <1>2 DEF Core, Base
<1> QED
  BY <1>1, <1>2, <1>3 DEF K

\* A worker draws a line of its job.
LEMMA WorkerLineKeeps ==
  ASSUME NEW ex \in BOOLEAN, Fit(gpu, Ktx(ex)), gpu.drawn = {}, NEW e \in Engines, WorkerLine(e)
  PROVE Kept(ex)
<1> DEFINE K == Ktx(ex)
           c == Cur(gpu)
           x == gpu.job[e][1]
           h == step_engine(gpu, e, x, x)
           z == [h EXCEPT !.job[e] = <<x + 1, @[2]>>]
<1>1. /\ Ctx(K) /\ Core(gpu, K, c) /\ Frame(gpu) /\ (ex => Watch(gpu, K, c))
      /\ K.due = due /\ K.vm = vmap /\ K.ver = ver /\ K.ex = ex /\ Typed(gpu)
  BY Given
<1>2. gpu.inflight[e] /\ gpu.job[e][1] <= gpu.job[e][2] /\ Draws(z, due)
  BY DEF WorkerLine
<1>3. UNCHANGED <<n, mode, vmap, ver, edges>>
  BY DEF WorkerLine
<1> HIDE DEF K
<1>4. Base(gpu, K, c) /\ EngOk(gpu, K, c, e)
  BY <1>1 DEF Core
<1>5. /\ gpu.job[e][2] = c[e] - 1 /\ gpu.job[e] \in Int \X Int /\ c[e] \in 0..K.E /\ K.E \in Nat
      /\ PosOf(gpu, c, e) = x
  <2>1. gpu.job[e] \in Int \X Int
    BY <1>1, Types
  <2>2. c[e] \in 0..K.E /\ K.E \in Nat
    BY <1>1, <1>4, LinesAssumption DEF Base, Ctx
  <2> HIDE DEF c
  <2>3. gpu.job[e][2] = c[e] - 1
    BY <1>2, <1>4 DEF EngOk, JobOk
  <2> QED
    BY <2>1, <2>2, <2>3, <1>2 DEF PosOf
<1> HIDE DEF c
<1>6. x \in Int /\ x < K.E /\ x < c[e] /\ c[e] \in Int
  BY <1>2, <1>5
<1> HIDE DEF x
<1>7. /\ Base(h, K, c)
      /\ SameFrame(gpu, h) /\ SameCounts(gpu, h) /\ SameEnd(gpu, h) /\ SameJobs(gpu, h)
      /\ SameFlight(gpu, h)
      /\ \A o \in Engines : o # e => SameEng(gpu, h, o)
      /\ Eng(h.eng[e], h.journal[e], h.job_map[e], DrawnOf(h, e), e, x + 1, c[e], K)
      /\ JobOk(h, c, e)
  <2>1. PosOf(gpu, c, e) = x /\ x <= x
    BY <1>5, <1>6
  <2> QED
    BY <2>1, <1>1, <1>4, <1>6, CoreStep
<1> HIDE DEF h
<1>8. Typed(h) /\ h.inflight[e] /\ h.job[e][2] = c[e] - 1 /\ h.job[e] \in Int \X Int
      /\ h.job \in [Engines -> Int \X Int]
  BY <1>2, <1>5, <1>7, Types DEF SameJobs, Base
<1>9. /\ Typed(z) /\ SameFrame(h, z) /\ SameCounts(h, z) /\ SameEnd(h, z) /\ SameData(h, z)
      /\ SameFlight(h, z) /\ z.inflight = h.inflight /\ z.job_map = h.job_map
      /\ z.deferred = h.deferred
      /\ z.job[e] = <<x + 1, c[e] - 1>> /\ \A o \in Engines : o # e => z.job[o] = h.job[o]
  <2> DEFINE jb == [h.job EXCEPT ![e] = <<x + 1, @[2]>>]
  <2>1. jb \in [Engines -> Int \X Int]
    BY <1>6, <1>8
  <2>2. jb[e] = <<x + 1, c[e] - 1>> /\ \A o \in Engines : o # e => jb[o] = h.job[o]
    BY <1>8
  <2>3. z = [h EXCEPT !.job = jb]
    BY <1>8 DEF Typed, Members
  <2> HIDE DEF jb, z
  <2>4. Typed(z)
    BY <2>1, <2>3, <1>8 DEF Typed, Members
  <2> QED
    BY <2>2, <2>3, <2>4, <1>8 DEF Typed, Members, SameFrame, SameCounts, SameEnd, SameData, SameFlight
<1>10. Draws(z, due)
  BY <1>2
<1> HIDE DEF z
<1>11. Base(z, K, c)
  BY <1>7, <1>9 DEF Base, SameEnd, SameData
<1>12. EngOk(z, K, c, e)
  <2>1. PosOf(z, c, e) = x + 1
    BY <1>8, <1>9 DEF PosOf
  <2>2. JobOk(z, c, e)
    <3>1. z.job[e][2] = c[e] - 1 /\ z.job[e][1] <= c[e]
      BY <1>6, <1>9
    <3> QED
      BY <3>1, <1>7, <1>9 DEF JobOk, SameEnd, SameFrame, SameData
  <2>3. Eng(z.eng[e], z.journal[e], z.job_map[e], DrawnOf(z, e), e, x + 1, c[e], K)
    BY <1>7, <1>9 DEF SameData, DrawnOf
  <2> QED
    BY <2>1, <2>2, <2>3 DEF EngOk
<1>13. ASSUME NEW o \in Engines, o # e PROVE EngOk(z, K, c, o)
  <2>1. SameSlot(gpu, z, o)
    <3>1. SameEng(gpu, z, o)
      BY <1>7, <1>9, <1>13 DEF SameEng, SameData, DrawnOf
    <3>2. EngOk(gpu, K, c, o)
      BY <1>1 DEF Core
    <3>3. z.burst[o] => z.per_line[o]
      BY <3>2, <1>7, <1>9 DEF SameFrame, EngOk, JobOk
    <3> QED
      BY <3>1, <3>3, <1>7, <1>9, <1>13 DEF SameSlot, SameJobs, SameEnd
  <2> QED
    BY <2>1, <1>1, SlotKept DEF Core
<1>14. Core(z, K, c)
  BY <1>11, <1>12, <1>13 DEF Core
<1>15. /\ z.line = gpu.line /\ z.hblank = gpu.hblank /\ z.lazy = gpu.lazy /\ z.lag = gpu.lag
       /\ z.mask = gpu.mask /\ z.lcdc = gpu.lcdc /\ z.per_line = gpu.per_line
       /\ z.next = gpu.next /\ z.finished = gpu.finished /\ z.trap = gpu.trap
       /\ z.inflight = gpu.inflight /\ z.deferred = gpu.deferred /\ z.job_map = gpu.job_map
       /\ SameFlight(gpu, z)
       /\ \A o \in Engines : o # e => z.journal[o] = gpu.journal[o]
  BY <1>7, <1>9 DEF SameFrame, SameCounts, SameEnd, SameJobs, SameData, SameFlight, SameEng
<1>16. Frame(z) /\ Cur(z) = c
  <2>1. ~Top(gpu)
    BY <1>1, <1>2 DEF Frame, in_flight, Engines
  <2>2. Top(z) = Top(gpu) /\ frontier(z) = frontier(gpu)
    BY <1>15 DEF Top, frontier
  <2>3. frontier(z) >= SCREEN_H =>
          /\ z.finished /\ z.next = Both(SCREEN_H)
          /\ \A o \in Engines : (z.inflight[o] => z.deferred[o]) /\ (~z.inflight[o] => z.journal[o] = <<>>)
    BY <2>2, <1>1, <1>2, <1>15 DEF Frame
  <2>4. frontier(z) < SCREEN_H => ~z.finished
    BY <2>2, <1>1, <1>15 DEF Frame
  <2>5. Cur(z) = c
    BY <2>2, <1>15 DEF Cur, c
  <2> QED
    BY <2>1, <2>2, <2>3, <2>4, <2>5 DEF Frame
<1>17. ex => Watch(z, K, c)
  BY <1>1, <1>15, WatchKept
<1>18. Fit(z, K)
  BY <1>1, <1>14, <1>16, <1>17 DEF Fit
<1>19. K = Context(z, due, n, mode, edges, ver, vmap, ex)
  BY <1>15, ContextSame DEF K, Ktx
<1>20. /\ Fit(gpu', Context(gpu', due', n, mode, edges, ver, vmap, ex)) /\ gpu'.drawn = {}
       /\ ex => unlike' = unlike
  BY <1>10, <1>18, <1>19, EndStep
<1> QED
  BY <1>3, <1>20 DEF Kept

\* While engine A is trapped as showing layers, that is what the guest last asked for.
LEMMA LayMode ==
  ASSUME NEW K, NEW g, NEW c, Core(g, K, c), K.lay
  PROVE K.mode = 1
<1> DEFINE r == g.eng[0]  j == g.journal[0]
<1>1. LeadsTo(r, j, K.n[0], K.mode) /\ j \in Seq(JEntry)
  BY DEF Core, EngOk, Eng, Jrn, Md, Engines
<1>2. \A i \in 0..Len(j) : ModeAt(r, j, i) = 1
  BY FallOf DEF Layers
<1>3. Len(j) \in Nat /\ (j # <<>> => Len(j) # 0)
  BY <1>1
<1> HIDE DEF r, j
<1>4. CASE j = <<>>
  BY <1>1, <1>2, <1>3, <1>4 DEF LeadsTo, ModeAt
<1>5. CASE j # <<>>
  <2>1. Len(j) \in 0..Len(j) /\ Len(j) # 0
    BY <1>3, <1>5
  <2> QED
    BY <1>1, <1>2, <1>5, <2>1 DEF LeadsTo, ModeAt
<1> QED
  BY <1>4, <1>5

\* A latch files the registers as they are.
LEMMA LatchCore ==
  ASSUME NEW K, Ctx(K), K \in CtxMembers(K.due), K.vm = vmap, K.ver = ver, K.n = n, K.mode = mode,
         NEW g, K.E = Scanned(g), K.hi = Now(g), ~K.w, Core(g, K, Cur(g)), Frame(g),
         frontier(g) >= SCREEN_H, NEW e \in Engines,
         g.jn[e] < JOURNAL_CAP \/ (~g.deferred[e] /\ ~K.ex)
  PROVE LET h == latch(g, e)
        IN /\ Core(h, K, Cur(h)) /\ Frame(h) /\ Cur(h) = Cur(g)
           /\ SameFrame(g, h) /\ SameCounts(g, h) /\ h.finished = g.finished /\ h.trap = g.trap
           /\ SameJobs(g, h) /\ SameFlight(g, h)
           /\ \A o \in Engines : o # e => h.jn[o] = g.jn[o]
<1> DEFINE x == Entry(e, 0, IF e = 0 THEN mode ELSE 1)
           h == latch(g, e)
<1>1. h = queue(g, e, x)
  BY DEF latch
<1>2. n \in [Engines -> Nat] /\ mode \in {1, 2}
  BY DEF Ctx
<1>3. x.n = n[e] + 0 /\ x.step = 0 /\ x.mode = (IF e = 0 THEN mode ELSE 1) /\ x \in JEntry
  BY <1>2 DEF Entry, JEntry
<1>4. NextWrite(K, e, x)
  <2>1. K.lay => mode = 1
    BY LayMode
  <2> QED
    BY <1>2, <1>3, <2>1 DEF NextWrite
<1>5. ~Top(g)
  BY LinesAssumption DEF Top, frontier
<1>6. Written(K, e, x) = K
  <2>1. x.n = n[e] /\ (e = 0 => x.mode = mode)
    BY <1>2, <1>3
  <2>2. [n EXCEPT ![e] = x.n] = n
    BY <2>1, <1>2
  <2> HIDE DEF x
  <2> QED
    BY <2>1, <2>2 DEF Written, CtxMembers
<1> HIDE DEF x, h
<1>7. g.jn[e] < JOURNAL_CAP \/ (~g.deferred[e] /\ ~K.ex /\ ~K.w)
  OBVIOUS
<1>8. /\ Core(h, Written(K, e, x), Cur(h)) /\ Frame(h) /\ Cur(h) = Cur(g)
      /\ SameFrame(g, h) /\ SameCounts(g, h) /\ h.finished = g.finished /\ h.trap = g.trap
      /\ g.jn[e] < JOURNAL_CAP \/ frontier(g) >= SCREEN_H =>
           /\ SameJobs(g, h) /\ SameFlight(g, h)
           /\ \A o \in Engines : o # e => h.jn[o] = g.jn[o]
  BY <1>1, <1>4, <1>5, <1>7, QueueCore
<1> QED
  BY <1>6, <1>8 DEF h

\* Room for a write of either engine; without, one that compares no pictures.
Fits(g, ex) == \A e \in Engines : g.jn[e] < JOURNAL_CAP \/ (~g.deferred[e] /\ ~ex)

\* Both engines latch what they show of their windows and their mosaic.
LEMMA LatchTwice ==
  ASSUME NEW K, Ctx(K), K \in CtxMembers(K.due), K.vm = vmap, K.ver = ver, K.n = n, K.mode = mode,
         NEW g, K.E = Scanned(g), K.hi = Now(g), ~K.w, Core(g, K, Cur(g)), Frame(g),
         frontier(g) >= SCREEN_H, Fits(g, K.ex)
  PROVE LET h == latch(latch(g, 0), 1)
        IN /\ Core(h, K, Cur(h)) /\ Frame(h) /\ Cur(h) = Cur(g)
           /\ SameFrame(g, h) /\ h.finished = g.finished /\ h.trap = g.trap
           /\ SameJobs(g, h) /\ SameFlight(g, h)
<1> DEFINE y == latch(g, 0)
           h == latch(y, 1)
<1>0. 0 \in Engines /\ 1 \in Engines
  BY DEF Engines
<1>1. /\ Core(y, K, Cur(y)) /\ Frame(y) /\ Cur(y) = Cur(g)
      /\ SameFrame(g, y) /\ SameCounts(g, y) /\ y.finished = g.finished /\ y.trap = g.trap
      /\ SameJobs(g, y) /\ SameFlight(g, y)
      /\ \A o \in Engines : o # 0 => y.jn[o] = g.jn[o]
  BY <1>0, LatchCore DEF Fits
<1> HIDE DEF y
<1>2. y.line = g.line /\ y.hblank = g.hblank
  BY <1>1 DEF SameFrame
<1>3. Scanned(y) = Scanned(g) /\ Now(y) = Now(g) /\ frontier(y) = frontier(g)
  BY <1>2 DEF Scanned, Now, frontier
<1>4. K.E = Scanned(y) /\ K.hi = Now(y) /\ frontier(y) >= SCREEN_H
  BY <1>3
<1>5. y.jn[1] < JOURNAL_CAP \/ (~y.deferred[1] /\ ~K.ex)
  BY <1>0, <1>1 DEF Fits, SameJobs
<1>6. /\ Core(h, K, Cur(h)) /\ Frame(h) /\ Cur(h) = Cur(y)
      /\ SameFrame(y, h) /\ SameCounts(y, h) /\ h.finished = y.finished /\ h.trap = y.trap
      /\ SameJobs(y, h) /\ SameFlight(y, h)
      /\ \A o \in Engines : o # 1 => h.jn[o] = y.jn[o]
  BY <1>0, <1>1, <1>4, <1>5, LatchCore
<1> HIDE DEF h
<1> QED
  BY <1>1, <1>6 DEF h, y, SameFrame, SameJobs, SameFlight

\* The frame goes on: the frontier and the place in it move, and nothing else.
MovedTo(g, l, b) == [g EXCEPT !.line = l, !.hblank = b]

\* Nothing else does, between two places on the same side of the last line.
LEMMA Moved ==
  ASSUME NEW g, NEW ex \in BOOLEAN, NEW l \in 0..SCANLINES_PER_FRAME - 1, NEW b \in BOOLEAN,
         NEW K, Ctx(K), Core(g, K, Cur(g)), Frame(g), ex => Watch(g, K, Cur(g)), K.ex = ex,
         NEW h, h = MovedTo(g, l, b),
         ~Top(g), ~Top(h), (frontier(h) >= SCREEN_H) <=> (frontier(g) >= SCREEN_H)
  PROVE /\ Core(h, K, Cur(h)) /\ Frame(h) /\ Cur(h) = Cur(g) /\ (ex => Watch(h, K, Cur(h)))
        /\ h.line = l /\ h.hblank = b /\ h.trap = g.trap /\ h.mask = g.mask /\ h.lcdc = g.lcdc
        /\ h.eng = g.eng /\ h.journal = g.journal /\ h.jn = g.jn /\ h.deferred = g.deferred
<1>1. Typed(g)
  BY DEF Core, Base
<1>2. Typed(h)
  BY <1>1 DEF Typed, Members, MovedTo
<1>3. /\ h.line = l /\ h.hblank = b /\ SameJobs(g, h) /\ SameData(g, h) /\ SameFlight(g, h)
      /\ h.jn = g.jn /\ h.next = g.next /\ h.finished = g.finished /\ h.aborted = g.aborted
      /\ h.trap = g.trap /\ h.mask = g.mask /\ h.lcdc = g.lcdc /\ h.lag = g.lag /\ h.lazy = g.lazy
      /\ h.per_line = g.per_line /\ h.burst = g.burst
  BY <1>1 DEF Typed, Members, SameJobs, SameData, SameFlight, MovedTo
<1>4. Cur(h) = Cur(g)
  BY <1>3 DEF Cur
<1>5. Core(h, K, Cur(g))
  <2>1. ~h.aborted
    BY <1>3 DEF Core, Base
  <2>2. \A e \in Engines : h.burst[e] => h.per_line[e]
    BY <1>3 DEF Core, EngOk, JobOk
  <2> QED
    BY <2>1, <2>2, <1>2, <1>3, CoreKept
<1>6. Frame(h)
  <2>1. h.inflight = g.inflight /\ h.deferred = g.deferred /\ h.journal = g.journal
    BY <1>3 DEF SameJobs, SameData
  <2>2. frontier(h) >= SCREEN_H =>
          /\ h.finished /\ h.next = Both(SCREEN_H)
          /\ \A o \in Engines : (h.inflight[o] => h.deferred[o]) /\ (~h.inflight[o] => h.journal[o] = <<>>)
    BY <2>1, <1>3 DEF Frame
  <2>3. frontier(h) < SCREEN_H => ~h.finished
    <3>1. frontier(h) \in Int /\ frontier(g) \in Int
      BY <1>1, <1>2, Types, LinesAssumption DEF frontier
    <3>2. frontier(h) < SCREEN_H => frontier(g) < SCREEN_H
      BY <3>1, LinesAssumption
    <3> QED
      BY <3>2, <1>3 DEF Frame
  <2> QED
    BY <2>2, <2>3 DEF Frame
<1>7. ex => Watch(h, K, Cur(h))
  BY <1>3, <1>4, WatchKept DEF SameJobs
<1> QED
  BY <1>3, <1>4, <1>5, <1>6, <1>7 DEF SameJobs, SameData

\* The frame moves on by a step and the engines latch, past the last line.
LEMMA BlankLatches ==
  ASSUME NEW ex \in BOOLEAN, Fit(gpu, Ktx(ex)), gpu.drawn = {}, Fits(gpu, ex),
         NEW l \in 0..SCANLINES_PER_FRAME - 1, NEW b \in BOOLEAN,
         NEW g, g = MovedTo(gpu, l, b), NEW ed \in [Engines -> Nat], edges' = ed,
         frontier(gpu) >= SCREEN_H, frontier(g) >= SCREEN_H, Now(g) >= Now(gpu),
         Draws(latch(latch(g, 0), 1), due),
         n' = n, mode' = mode, ver' = ver, vmap' = vmap
  PROVE Kept(ex)
<1> DEFINE K == Ktx(ex)
           K1 == Context(g, due, n, mode, ed, ver, vmap, ex)
           h == latch(latch(g, 0), 1)
<1>1. /\ Ctx(K) /\ Core(gpu, K, Cur(gpu)) /\ Frame(gpu) /\ (ex => Watch(gpu, K, Cur(gpu)))
      /\ K.E = Scanned(gpu) /\ K.hi = Now(gpu)
      /\ K.due = due /\ K.n = n /\ K.mode = mode /\ K.ver = ver /\ K.vm = vmap
      /\ K.ex = ex /\ K.fall = (ex /\ gpu.trap /\ 0 \in gpu.mask)
      /\ K.lay = (ex /\ gpu.trap /\ 0 \in gpu.mask /\ ~gpu.lcdc) /\ Typed(gpu)
  BY Given
<1>2. /\ K1.E = Scanned(g) /\ K1.hi = Now(g) /\ K1.due = due /\ K1.n = n /\ K1.mode = mode
      /\ K1.edges = ed /\ K1.ver = ver /\ K1.vm = vmap /\ K1.ex = ex
      /\ K1.w = (ex /\ ~g.hblank /\ g.line < SCREEN_H)
      /\ K1.fall = (ex /\ g.trap /\ 0 \in g.mask)
      /\ K1.lay = (ex /\ g.trap /\ 0 \in g.mask /\ ~g.lcdc)
      /\ Ctx(K1) => K1 \in CtxMembers(due)
  BY ContextIs
<1> HIDE DEF K, K1
<1>3. ~Top(gpu) /\ ~Top(g)
  BY LinesAssumption DEF Top, frontier
<1>4. /\ Core(g, K, Cur(g)) /\ Frame(g) /\ Cur(g) = Cur(gpu) /\ (ex => Watch(g, K, Cur(g)))
      /\ g.line = l /\ g.hblank = b /\ g.trap = gpu.trap /\ g.mask = gpu.mask /\ g.lcdc = gpu.lcdc
      /\ g.eng = gpu.eng /\ g.journal = gpu.journal /\ g.jn = gpu.jn /\ g.deferred = gpu.deferred
  <2>1. (frontier(g) >= SCREEN_H) <=> (frontier(gpu) >= SCREEN_H)
    OBVIOUS
  <2> QED
    BY <1>1, <1>3, <2>1, Moved
<1>5. Scanned(g) = SCREEN_H /\ Scanned(gpu) = SCREEN_H /\ Now(g) \in Nat
  <2>1. frontier(gpu) \in Int /\ frontier(g) \in Nat
    BY <1>1, <1>4, Types, LinesAssumption DEF frontier
  <2>2. g.hblank \in BOOLEAN
    BY <1>4
  <2> QED
    BY <2>1, <2>2, LinesAssumption DEF Scanned, Now
<1>6. ~K1.w
  <2>1. g.line < SCREEN_H => g.hblank
    BY <1>4, LinesAssumption DEF frontier
  <2> QED
    BY <2>1, <1>2
<1>7. /\ K1.E = K.E /\ K1.hi >= K.hi /\ K1.n = K.n /\ K1.mode = K.mode /\ K1.due = K.due
      /\ K1.ver = K.ver /\ K1.vm = K.vm /\ K1.ex = K.ex /\ K1.fall = K.fall /\ K1.lay = K.lay
  BY <1>1, <1>2, <1>4, <1>5
<1>8. Ctx(K1)
  <2>1. K1.hi \in Nat /\ K1.edges \in [Engines -> Nat] /\ K1.w \in BOOLEAN
    BY <1>2, <1>5
  <2> QED
    BY <2>1, <1>1, <1>6, <1>7 DEF Ctx
<1>9. Core(g, K1, Cur(g))
  <2>1. /\ K1.fall => Falling(g.eng[0], g.journal[0])
        /\ K1.lay => Layers(g.eng[0], g.journal[0])
    BY <1>4, <1>7, FallOf
  <2> QED
    BY <2>1, <1>1, <1>4, <1>6, <1>7, <1>8, CoreTo
<1>10. Fits(g, K1.ex)
  BY <1>2, <1>4 DEF Fits
<1>11. K1 \in CtxMembers(K1.due)
  BY <1>2, <1>8
<1>12. /\ Core(h, K1, Cur(h)) /\ Frame(h) /\ Cur(h) = Cur(g)
       /\ SameFrame(g, h) /\ h.finished = g.finished /\ h.trap = g.trap
       /\ SameJobs(g, h) /\ SameFlight(g, h)
  BY <1>2, <1>4, <1>6, <1>8, <1>9, <1>10, <1>11, LatchTwice
<1>13. Draws(h, due)
  OBVIOUS
<1> HIDE DEF h
<1>14. ex => Watch(h, K1, Cur(h))
  BY <1>4, <1>7, <1>12, WatchKept DEF SameFrame, SameJobs
<1>15. Fit(h, K1)
  BY <1>2, <1>8, <1>12, <1>14 DEF Fit
<1>16. K1 = Context(h, due, n, mode, ed, ver, vmap, ex)
  BY <1>12, ContextSame DEF K1, SameFrame
<1>17. /\ Fit(gpu', Context(gpu', due', n, mode, ed, ver, vmap, ex)) /\ gpu'.drawn = {}
       /\ ex => unlike' = unlike
  BY <1>13, <1>15, <1>16, EndStep
<1> QED
  BY <1>17 DEF Kept

\* The next display line starts: its window edges are those of now.
LEMMA NextLineKeeps ==
  ASSUME NEW ex \in BOOLEAN, Fit(gpu, Ktx(ex)), gpu.drawn = {}, gpu.hblank,
         NEW l \in 1..SCREEN_H - 1, l = gpu.line + 1, NEW b \in BOOLEAN, ~b, NEW g, g = MovedTo(gpu, l, b),
         Draws(g, due), edges' = n, n' = n, mode' = mode, ver' = ver, vmap' = vmap
  PROVE Kept(ex)
<1> DEFINE K == Ktx(ex)
           K1 == Context(g, due, n, mode, n, ver, vmap, ex)
<1>1. /\ Ctx(K) /\ Core(gpu, K, Cur(gpu)) /\ Frame(gpu) /\ (ex => Watch(gpu, K, Cur(gpu)))
      /\ K.E = Scanned(gpu) /\ K.hi = Now(gpu)
      /\ K.due = due /\ K.n = n /\ K.mode = mode /\ K.ver = ver /\ K.vm = vmap
      /\ K.ex = ex /\ K.fall = (ex /\ gpu.trap /\ 0 \in gpu.mask)
      /\ K.lay = (ex /\ gpu.trap /\ 0 \in gpu.mask /\ ~gpu.lcdc) /\ Typed(gpu)
  BY Given
<1>2. /\ K1.E = Scanned(g) /\ K1.hi = Now(g) /\ K1.due = due /\ K1.n = n /\ K1.mode = mode
      /\ K1.edges = n /\ K1.ver = ver /\ K1.vm = vmap /\ K1.ex = ex
      /\ K1.w = (ex /\ ~g.hblank /\ g.line < SCREEN_H)
      /\ K1.fall = (ex /\ g.trap /\ 0 \in g.mask)
      /\ K1.lay = (ex /\ g.trap /\ 0 \in g.mask /\ ~g.lcdc)
      /\ Ctx(K1) => K1 \in CtxMembers(due)
  BY ContextIs
<1> HIDE DEF K, K1
<1>3. /\ gpu.line \in Nat /\ l \in 0..SCANLINES_PER_FRAME - 1
      /\ SCREEN_H \in Nat
  BY <1>1, Types, LinesAssumption
<1>4. g.line = l /\ g.hblank = b
  BY <1>1 DEF Typed, Members, MovedTo
<1>5. /\ frontier(gpu) = l /\ frontier(g) = l /\ ~Top(gpu) /\ ~Top(g)
      /\ l < SCREEN_H
  BY <1>3, <1>4 DEF frontier, Top
<1>5a. ~Top(gpu) /\ ~Top(g) /\ ((frontier(g) >= SCREEN_H) <=> (frontier(gpu) >= SCREEN_H))
  BY <1>5
<1>6. /\ Core(g, K, Cur(g)) /\ Frame(g) /\ Cur(g) = Cur(gpu) /\ (ex => Watch(g, K, Cur(g)))
      /\ g.line = l /\ g.hblank = b
      /\ g.trap = gpu.trap /\ g.mask = gpu.mask /\ g.lcdc = gpu.lcdc
      /\ g.eng = gpu.eng /\ g.journal = gpu.journal /\ g.jn = gpu.jn /\ g.deferred = gpu.deferred
  BY <1>1, <1>3, <1>5a, Moved
<1>7. Scanned(g) = l /\ Scanned(gpu) = l
      /\ Now(g) = 2 * l + 1 /\ Now(gpu) = 2 * l
  BY <1>3, <1>4, <1>5 DEF Scanned, Now
<1>8. /\ K1.E = K.E /\ K1.hi >= K.hi /\ K1.n = K.n /\ K1.mode = K.mode /\ K1.due = K.due
      /\ K1.ver = K.ver /\ K1.vm = K.vm /\ K1.ex = K.ex /\ K1.fall = K.fall /\ K1.lay = K.lay
      /\ K.hi = 2 * K1.E /\ K1.E < SCREEN_H /\ K1.hi \in Nat /\ K1.E \in Nat
  BY <1>1, <1>2, <1>3, <1>5, <1>6, <1>7
<1>9. Ctx(K1)
  <2>1. K1.edges \in [Engines -> Nat] /\ K1.w \in BOOLEAN
    BY <1>1, <1>2 DEF Ctx
  <2> QED
    BY <2>1, <1>1, <1>8 DEF Ctx
<1>10. ASSUME NEW e \in Engines PROVE AtN(g.eng[e], g.journal[e], 2 * K1.E) = K1.edges[e]
  <2> DEFINE r == g.eng[e]  j == g.journal[e]
  <2>1. Jrn(r, j, K.n[e], Md(e, K.mode), 2 * PosOf(g, Cur(g), e), K.hi)
    BY <1>6 DEF Core, EngOk, Eng
  <2> HIDE DEF r, j
  <2>2. /\ r \in EngineState /\ j \in Seq(JEntry) /\ Sorted(j)
        /\ LeadsTo(r, j, K.n[e], Md(e, K.mode))
        /\ \A i \in 1..Len(j) : j[i].stamp <= 2 * K1.E
    BY <2>1, <1>8 DEF Jrn
  <2>3. 2 * K1.E \in Int
    BY <1>8
  <2>4. AtN(r, j, 2 * K1.E) = K.n[e]
    BY <2>2, <2>3, AtLast
  <2> QED
    BY <2>4, <1>1, <1>2 DEF r, j
<1>11. Core(g, K1, Cur(g))
  <2>1. /\ K1.fall => Falling(g.eng[0], g.journal[0])
        /\ K1.lay => Layers(g.eng[0], g.journal[0])
    BY <1>6, <1>8, FallOf
  <2> QED
    BY <2>1, <1>1, <1>6, <1>8, <1>9, <1>10, CoreTo
<1>12. ex => Watch(g, K1, Cur(g))
  BY <1>6, <1>8, WatchKept DEF SameFlight
<1>13. Fit(g, K1)
  BY <1>2, <1>6, <1>9, <1>11, <1>12 DEF Fit
<1>14. /\ Fit(gpu', Context(gpu', due', n, mode, n, ver, vmap, ex)) /\ gpu'.drawn = {}
       /\ ex => unlike' = unlike
  BY <1>13, EndStep DEF K1
<1> QED
  BY <1>14 DEF Kept

\* An engine that has caught up with the guest and files nothing.
Settled(g, e, nn, md) ==
  /\ g.journal[e] = <<>> /\ g.eng[e].ordered /\ g.eng[e].n = nn[e] /\ g.eng[e].mode = Md(e, md)
  /\ ~g.inflight[e] /\ ~g.deferred[e] /\ g.job_map[e] = <<>> /\ g.jn[e] \in 0..JOURNAL_CAP

\* The trap as arm_trap leaves it.
ArmedNow(g) == /\ g.trap <=> MaskOf(g) # {}
               /\ g.trap => g.mask = MaskOf(g) /\ (g.lcdc <=> 0 \in MaskOf(g) /\ g.eng[0].mode = 2)

\* With no journal the registers are the engine's.
LEMMA AtNone ==
  ASSUME NEW r, NEW j \in Seq(JEntry), Len(j) = 0, NEW s
  PROVE AtN(r, j, s) = r.n
BY DEF AtN, Reach

\* The top of a frame, with nothing left of the last one.
LEMMA TopFit ==
  ASSUME NEW z, Typed(z), ~z.aborted, z.drawn = {}, z.line = 0, ~z.hblank, ~z.finished,
         z.next = Both(0), ~z.scale, \A e \in Engines : ~z.burst[e],
         NEW d, d = [e \in Engines |-> [x \in DOMAIN d[e] |-> d[e][x]]],
         \A e \in Engines : DOMAIN d[e] = {},
         NEW nn \in [Engines -> Nat], NEW md \in {1, 2}, NEW vr \in [Banks -> Nat],
         NEW vm \in [Banks -> Places], NEW ex \in BOOLEAN,
         \A e \in Engines : Settled(z, e, nn, md), ArmedNow(z), ex => ~z.stale
  PROVE Fit(z, Context(z, d, nn, md, nn, vr, vm, ex))
<1> DEFINE K == Context(z, d, nn, md, nn, vr, vm, ex)
           c == Cur(z)
<1>1. /\ K.E = Scanned(z) /\ K.hi = Now(z) /\ K.due = d /\ K.n = nn /\ K.mode = md
      /\ K.edges = nn /\ K.ver = vr /\ K.vm = vm /\ K.ex = ex
      /\ K.w = (ex /\ ~z.hblank /\ z.line < SCREEN_H)
      /\ K.fall = (ex /\ z.trap /\ 0 \in z.mask)
      /\ K.lay = (ex /\ z.trap /\ 0 \in z.mask /\ ~z.lcdc)
      /\ Ctx(K) => K \in CtxMembers(d)
  BY ContextIs
<1> HIDE DEF K
<1>2. frontier(z) = 0 /\ Top(z)
  BY DEF frontier, Top
<1>3. K.E = 0 /\ K.hi = 1
  <2>1. Scanned(z) = 0 /\ Now(z) = 1
    BY <1>2, LinesAssumption DEF Scanned, Now
  <2> QED
    BY <2>1, <1>1
<1>4. Ctx(K)
  <2>1. K.E \in 0..SCREEN_H /\ K.hi \in Nat /\ (K.w => K.E < SCREEN_H)
    BY <1>3, LinesAssumption
  <2>2. {K.ex, K.w, K.fall, K.lay} \subseteq BOOLEAN
    BY <1>1, Types
  <2>3. K.due = [e \in Engines |-> [x \in DOMAIN K.due[e] |-> K.due[e][x]]]
    BY <1>1
  <2> QED
    BY <1>1, <2>1, <2>2, <2>3 DEF Ctx
<1>5. c = [e \in Engines |-> 0]
  BY <1>2 DEF Cur
<1>6. ASSUME NEW e \in Engines PROVE EngOk(z, K, c, e)
  <2> DEFINE r == z.eng[e]  j == z.journal[e]
  <2>1. r \in EngineState /\ r.mode \in {1, 2} /\ r.n \in Nat
    BY Types DEF EngineState
  <2>2. j = <<>> /\ Len(j) = 0 /\ j \in Seq(JEntry)
    <3>1. j = <<>>
      BY DEF Settled
    <3>2. j \in Seq(JEntry)
      BY Types
    <3> HIDE DEF j
    <3> QED
      BY <3>1, <3>2
  <2>3. r.ordered /\ r.n = nn[e] /\ r.mode = Md(e, md)
    BY DEF Settled
  <2>4. /\ ~z.inflight[e] /\ ~z.deferred[e] /\ z.job_map[e] = <<>> /\ z.jn[e] \in 0..JOURNAL_CAP
        /\ ~z.burst[e] /\ c[e] = 0 /\ PosOf(z, c, e) = 0
    BY <1>5 DEF Settled, PosOf
  <2>5. DrawnOf(z, e) = {}
    BY DEF DrawnOf
  <2>6. K.lay /\ e = 0 => r.mode = 1
    BY <1>1, <2>1, Zenon DEF ArmedNow
  <2> HIDE DEF r, j, c
  <2>7. Jrn(r, j, K.n[e], Md(e, K.mode), 0, K.hi)
    <3>1. Sorted(j) /\ Chained(r, j) /\ LeadsTo(r, j, nn[e], Md(e, md))
      BY <2>2, <2>3 DEF Sorted, Chained, LeadsTo
    <3> QED
      BY <3>1, <2>1, <2>2, <2>3, <1>1 DEF Jrn
  <2>8. Falling(r, j) /\ (K.lay /\ e = 0 => Layers(r, j))
    BY <2>2, <2>6 DEF Falling, Layers, ModeAt
  <2>9. AtN(r, j, 2 * K.E) = nn[e]
    BY <2>2, <2>3, AtNone
  <2>10. DOMAIN K.due[e] = {} /\ 0..K.E - 1 = {}
    BY <1>1, <1>3
  <2>11. Eng(r, j, z.job_map[e], {}, e, 0, 0, K)
    <3>1. 2 * 0 = 0 /\ 2 * K.E = 0 /\ 0 \in 0..K.E
      BY <1>3
    <3>2. K.w => AtN(r, j, 2 * K.E) = K.edges[e]
      BY <3>1, <2>9, <1>1
    <3>3. Jrn(r, j, K.n[e], Md(e, K.mode), 2 * 0, K.hi)
      BY <2>7, <3>1
    <3>4. DOMAIN K.due[e] = {o.line : o \in {}} \cup (0..K.E - 1)
      BY <2>10
    <3> QED
      BY <3>1, <3>2, <3>3, <3>4, <2>8, <2>10 DEF Eng
  <2>12. JobOk(z, c, e)
    BY <2>2, <2>4 DEF JobOk, j
  <2> QED
    BY <2>4, <2>5, <2>11, <2>12 DEF EngOk, r, j
<1>7. Core(z, K, c)
  <2>1. c \in [Engines -> 0..K.E]
    BY <1>3, <1>5
  <2> QED
    BY <2>1, <1>6 DEF Core, Base
<1>8. Frame(z)
  <2>1. ~in_flight(z)
    BY DEF in_flight, Settled, Engines
  <2>2. \A e \in Engines : Len(z.journal[e]) = 0
    BY DEF Settled
  <2>3. \A e \in Engines : \A i \in 1..Len(z.journal[e]) : z.journal[e][i].n = z.eng[e].n + i
    BY <2>2
  <2> QED
    BY <1>2, <2>1, <2>3, LinesAssumption DEF Frame
<1>9. ex => Watch(z, K, c)
  <2> SUFFICES ASSUME ex PROVE Watch(z, K, c)
    OBVIOUS
  <2>1. \A e \in Engines : ~z.inflight[e] /\ ~z.deferred[e]
    BY DEF Settled
  <2>2. Armed(z)
    BY <2>1 DEF Armed, ArmedNow
  <2>3. Batching(z, K, c)
    BY <1>3, <1>5 DEF Batching
  <2>4. JobMap(z, K.vm)
    BY <2>1 DEF JobMap
  <2> QED
    BY <2>2, <2>3, <2>4 DEF Watch
<1> QED
  BY <1>1, <1>4, <1>7, <1>8, <1>9 DEF Fit, K

\* The members that a new frame sets.
LEMMA BegunTyped ==
  ASSUME NEW g, Typed(g), NEW lazy \in BOOLEAN, NEW lag \in BOOLEAN, NEW nx \in [Engines -> Nat],
         NEW bs \in [Engines -> Nat], NEW lf \in [Engines -> Int], NEW bf \in [Engines -> BOOLEAN],
         NEW pl \in [Engines -> BOOLEAN]
  PROVE Typed([g EXCEPT !.next = nx, !.finished = FALSE, !.lazy = lazy, !.lag = lag,
                        !.bursts = bs, !.burst = bf, !.left = lf, !.stores = 0, !.per_line = pl])
<1> DEFINE f1 == [g EXCEPT !.finished = FALSE, !.lazy = lazy, !.lag = lag]
           f2 == [f1 EXCEPT !.next = nx, !.bursts = bs, !.left = lf]
           f3 == [f2 EXCEPT !.burst = bf, !.stores = 0, !.per_line = pl]
<1>1. Typed(f1)
  BY DEF Typed, Members
<1>2. f1.drawn = g.drawn
  BY DEF Typed, Members
<1>3. Typed(f2)
  <2> HIDE DEF f1
  <2> QED
    BY <1>1 DEF Typed, Members
<1>4. Typed(f3)
  <2> HIDE DEF f2
  <2> QED
    BY <1>3 DEF Typed, Members
<1>5. f3 = [g EXCEPT !.next = nx, !.finished = FALSE, !.lazy = lazy, !.lag = lag,
                     !.bursts = bs, !.burst = bf, !.left = lf, !.stores = 0, !.per_line = pl]
  BY DEF Typed, Members
<1> HIDE DEF f3
<1> QED
  BY <1>4, <1>5

\* What begin_frame sets, and what it leaves.
LEMMA BeginIs ==
  ASSUME NEW g, Typed(g), NEW fifo \in BOOLEAN, NEW futile \in SUBSET Engines
  PROVE LET h == begin_frame(g, fifo, futile)
        IN /\ Typed(h) /\ SameJobs(g, h) /\ SameData(g, h) /\ SameFlight(g, h)
           /\ h.line = g.line /\ h.hblank = g.hblank /\ h.aborted = g.aborted /\ h.jn = g.jn
           /\ ~h.finished /\ h.next = Both(0) /\ \A e \in Engines : ~h.burst[e]
           /\ ArmedNow(h)
<1> DEFINE lazy == ~fifo /\ futile # Engines
           pl == [e \in Engines |-> lazy /\ e \in futile]
           b0 == Both(0)
           bf == Both(FALSE)
           lg == ~fifo
           g1 == [g EXCEPT !.next = b0, !.finished = FALSE, !.lazy = lazy, !.lag = lg,
                           !.bursts = b0, !.burst = bf, !.left = b0, !.stores = 0, !.per_line = pl]
           g2 == arm_trap(g1)
           h == begin_frame(g, fifo, futile)
<1>1. h = IF lazy THEN g2 ELSE [g2 EXCEPT !.per_line = Both(TRUE)]
  BY DEF begin_frame
<1>2. pl \in [Engines -> BOOLEAN] /\ lazy \in BOOLEAN /\ lg \in BOOLEAN
  OBVIOUS
<1>3. /\ b0 \in [Engines -> Nat] /\ b0 \in [Engines -> Int] /\ b0 = Both(0) /\ bf = Both(FALSE)
      /\ bf \in [Engines -> BOOLEAN] /\ Both(TRUE) \in [Engines -> BOOLEAN]
      /\ \A e \in Engines : ~bf[e]
  BY DEF Both
<1> HIDE DEF pl, lazy, lg, b0, bf
<1>4. Typed(g1)
  BY <1>2, <1>3, BegunTyped
<1>5. /\ SameJobs(g, g1) /\ SameData(g, g1) /\ SameFlight(g, g1)
      /\ g1.line = g.line /\ g1.hblank = g.hblank /\ g1.aborted = g.aborted /\ g1.jn = g.jn
      /\ g1.finished = FALSE /\ g1.next = b0 /\ g1.burst = bf /\ g1.lazy = lazy
  BY DEF Typed, Members, SameJobs, SameData, SameFlight
<1> HIDE DEF g1
<1>6. /\ Typed(g2) /\ SameJobs(g1, g2) /\ SameData(g1, g2) /\ SameFlight(g1, g2) /\ SameCounts(g1, g2)
      /\ g2.line = g1.line /\ g2.hblank = g1.hblank /\ g2.lazy = g1.lazy /\ g2.lag = g1.lag
      /\ g2.per_line = g1.per_line /\ g2.burst = g1.burst
      /\ g2.finished = g1.finished /\ g2.aborted = g1.aborted /\ g2.jn = g1.jn
      /\ g2.trap <=> MaskOf(g1) # {}
      /\ g2.trap => g2.mask = MaskOf(g1) /\ (g2.lcdc <=> 0 \in MaskOf(g1) /\ g1.eng[0].mode = 2)
  BY <1>4, ArmIs
<1> HIDE DEF g2
<1>7. /\ Typed(h) /\ SameJobs(g2, h) /\ SameData(g2, h) /\ SameFlight(g2, h) /\ h.next = g2.next
      /\ h.line = g2.line /\ h.hblank = g2.hblank /\ h.lazy = g2.lazy /\ h.lag = g2.lag
      /\ h.burst = g2.burst /\ h.finished = g2.finished /\ h.aborted = g2.aborted /\ h.jn = g2.jn
      /\ h.trap = g2.trap /\ h.mask = g2.mask /\ h.lcdc = g2.lcdc
      /\ h.lazy => h.per_line = g2.per_line
  <2>1. CASE lazy
    BY <2>1, <1>1, <1>6 DEF SameJobs, SameData, SameFlight
  <2>2. CASE ~lazy
    <3> DEFINE f == [g2 EXCEPT !.per_line = Both(TRUE)]
    <3>1. h = f
      BY <2>2, <1>1
    <3>2. ~g2.lazy
      BY <2>2, <1>5, <1>6
    <3>3. Typed(f)
      BY <1>3, <1>6 DEF Typed, Members
    <3>4. /\ SameJobs(g2, f) /\ SameData(g2, f) /\ SameFlight(g2, f) /\ f.next = g2.next
          /\ f.line = g2.line /\ f.hblank = g2.hblank /\ f.lazy = g2.lazy /\ f.lag = g2.lag
          /\ f.burst = g2.burst /\ f.finished = g2.finished /\ f.aborted = g2.aborted /\ f.jn = g2.jn
          /\ f.trap = g2.trap /\ f.mask = g2.mask /\ f.lcdc = g2.lcdc
      BY <1>6 DEF Typed, Members, SameJobs, SameData, SameFlight
    <3> HIDE DEF f, h
    <3> QED
      BY <3>1, <3>2, <3>3, <3>4
  <2> QED
    BY <2>1, <2>2
<1> HIDE DEF h
<1>8. MaskOf(h) = MaskOf(g1)
  BY <1>6, <1>7 DEF MaskOf
<1>9. h.eng = g1.eng
  BY <1>6, <1>7 DEF SameData
<1>10. ArmedNow(h)
  BY <1>6, <1>7, <1>8, <1>9 DEF ArmedNow
<1>11. SameJobs(g, h) /\ SameData(g, h) /\ SameFlight(g, h) /\ h.next = g1.next
  BY <1>5, <1>6, <1>7 DEF SameJobs, SameData, SameFlight, SameCounts
<1> QED
  BY <1>3, <1>5, <1>6, <1>7, <1>10, <1>11 DEF h

\* The context with other lines due.
WithDue(K, d) == [K EXCEPT !.due = d]

\* What WithDue changes.
LEMMA WithDueIs ==
  ASSUME NEW K, Ctx(K), K \in CtxMembers(K.due), NEW d,
         d = [e \in Engines |-> [x \in DOMAIN d[e] |-> d[e][x]]]
  PROVE LET K2 == WithDue(K, d)
        IN /\ Ctx(K2) /\ K2.E = K.E /\ K2.hi = K.hi /\ K2.n = K.n /\ K2.mode = K.mode
           /\ K2.due = d /\ K2.ver = K.ver /\ K2.vm = K.vm /\ K2.ex = K.ex
           /\ K2.w = K.w /\ K2.edges = K.edges /\ K2.fall = K.fall /\ K2.lay = K.lay
<1> DEFINE K2 == WithDue(K, d)
<1>1. /\ K2.E = K.E /\ K2.hi = K.hi /\ K2.n = K.n /\ K2.mode = K.mode
      /\ K2.due = d /\ K2.ver = K.ver /\ K2.vm = K.vm /\ K2.ex = K.ex
      /\ K2.w = K.w /\ K2.edges = K.edges /\ K2.fall = K.fall /\ K2.lay = K.lay
  BY DEF WithDue, CtxMembers
<1> HIDE DEF K2
<1>2. K2.due = [e \in Engines |-> [x \in DOMAIN K2.due[e] |-> K2.due[e][x]]]
  BY <1>1
<1>3. Ctx(K2)
  BY <1>1, <1>2 DEF Ctx
<1> QED
  BY <1>1, <1>3 DEF K2

\* Nothing is due, and nothing filed, of an engine with no job past the last line.
LEMMA AllDone ==
  ASSUME NEW K, Ctx(K), NEW z, NEW c, Core(z, K, c), z.drawn = {}, NEW e \in Engines,
         K.E = SCREEN_H, c[e] = SCREEN_H, ~z.inflight[e], ~z.deferred[e], Len(z.journal[e]) = 0
  PROVE Settled(z, e, K.n, K.mode) /\ DOMAIN K.due[e] = {}
<1> DEFINE r == z.eng[e]  j == z.journal[e]  jm == z.job_map[e]  D == DrawnOf(z, e)
<1>1. JobOk(z, c, e) /\ Eng(r, j, jm, D, e, PosOf(z, c, e), c[e], K)
  BY DEF Core, EngOk
<1>2. j \in Seq(JEntry) /\ r.ordered /\ LeadsTo(r, j, K.n[e], Md(e, K.mode))
  BY <1>1 DEF Eng, Jrn
<1>3. j = <<>>
  <2>1. Len(j) = 0
    OBVIOUS
  <2> HIDE DEF j
  <2> QED
    BY <1>2, <2>1
<1>4. r.n = K.n[e] /\ r.mode = Md(e, K.mode)
  BY <1>2, <1>3, Zenon DEF LeadsTo
<1>5. DOMAIN K.due[e] = {}
  <2>1. D = {} /\ PosOf(z, c, e) = SCREEN_H
    BY DEF DrawnOf, PosOf
  <2>2. DOMAIN K.due[e] = {o.line : o \in D} \cup (SCREEN_H..K.E - 1)
    BY <1>1, <2>1 DEF Eng
  <2>3. SCREEN_H..K.E - 1 = {}
    BY LinesAssumption
  <2> HIDE DEF D
  <2> QED
    BY <2>1, <2>2, <2>3
<1>6. ~z.inflight[e] /\ z.job_map[e] = <<>> /\ z.jn[e] \in 0..JOURNAL_CAP
  BY <1>1 DEF JobOk
<1> QED
  BY <1>2, <1>3, <1>4, <1>5, <1>6, Zenon DEF Settled

\* A join leaves no job, and no journal of an engine whose lines it ends.
JoinedAll(g, K, c) ==
  LET h == join_worker(g)
  IN /\ Core(h, K, c) /\ ~in_flight(h)
     /\ \A e \in Engines : ~h.inflight[e] /\ ~h.deferred[e]
     /\ SameFrame(g, h)
     /\ \A e \in Engines : g.deferred[e] => Len(h.journal[e]) = 0
     /\ \A e \in Engines : ~g.inflight[e] => h.journal[e] = g.journal[e]
     /\ (g.stale => in_flight(g)) => ~h.stale

\* join_worker does so.
LEMMA JoinAll ==
  ASSUME NEW K, Ctx(K), K.vm = vmap, K.ver = ver, NEW g, NEW c, Core(g, K, c)
  PROVE JoinedAll(g, K, c)
<1> DEFINE h == join_worker(g)
<1>1. /\ Core(h, K, c) /\ ~in_flight(h)
      /\ \A e \in Engines : ~h.inflight[e] /\ ~h.deferred[e] /\ h.job_map[e] = <<>>
      /\ SameFrame(g, h) /\ SameCounts(g, h) /\ h.finished = g.finished
      /\ h.trap = (g.trap /\ ~(g.deferred[0] /\ g.finished))
      /\ \A e \in Engines : g.deferred[e] => h.journal[e] = <<>>
      /\ \A e \in Engines : ~g.inflight[e] => h.journal[e] = g.journal[e]
      /\ ~in_flight(g) => h = g
      /\ in_flight(g) => ~h.stale
  BY JoinCore
<1> HIDE DEF h
<1>2. \A e \in Engines : g.deferred[e] => Len(h.journal[e]) = 0
  BY <1>1
<1>3. (g.stale => in_flight(g)) => ~h.stale
  BY <1>1
<1> QED
  BY <1>1, <1>2, <1>3, Zenon DEF h, JoinedAll

\* A new frame begins once the old one's lines are drawn.
LEMMA NextFrameKeeps ==
  ASSUME NEW ex \in BOOLEAN, Fit(gpu, Ktx(ex)), gpu.drawn = {}, gpu.hblank,
         gpu.line = SCANLINES_PER_FRAME - 1,
         NEW l \in {0}, NEW b \in BOOLEAN, ~b, NEW g, g = MovedTo(gpu, l, b),
         NEW fifo \in BOOLEAN, NEW futile \in SUBSET Engines,
         Draws(begin_frame(join_worker(g), fifo, futile), due),
         edges' = n, n' = n, mode' = mode, ver' = ver, vmap' = vmap
  PROVE Kept(ex)
<1> DEFINE K == Ktx(ex)
           c == Cur(gpu)
           j == join_worker(g)
           h == begin_frame(j, fifo, futile)
           d == Left(h, due)
           K2 == WithDue(K, d)
<1>0. Draws(h, due)
  OBVIOUS
<1> HIDE DEF h
<1>1. /\ Ctx(K) /\ Core(gpu, K, c) /\ Frame(gpu) /\ (ex => Watch(gpu, K, c))
      /\ K \in CtxMembers(due) /\ K.E = Scanned(gpu)
      /\ K.due = due /\ K.n = n /\ K.mode = mode /\ K.ver = ver /\ K.vm = vmap
      /\ K.ex = ex /\ Typed(gpu)
  BY Given
<1> HIDE DEF K
<1>2. frontier(gpu) >= SCREEN_H
  BY LinesAssumption DEF frontier
<1>3. /\ K.E = SCREEN_H
      /\ \A e \in Engines : /\ c[e] = SCREEN_H /\ (gpu.inflight[e] <=> gpu.deferred[e])
                            /\ ~gpu.inflight[e] => Len(gpu.journal[e]) = 0
  <2>1. /\ gpu.finished /\ gpu.next = Both(SCREEN_H) /\ K.E = SCREEN_H /\ ~K.w /\ ~Top(gpu)
        /\ \A e \in Engines : /\ Cur(gpu)[e] = SCREEN_H
                              /\ gpu.inflight[e] <=> gpu.deferred[e]
                              /\ ~gpu.inflight[e] => gpu.journal[e] = <<>> /\ PosOf(gpu, Cur(gpu), e) = SCREEN_H
    BY <1>1, <1>2, PastLast
  <2> QED
    BY <2>1
<1> HIDE DEF c
<1>4. /\ Typed(g) /\ g.line = l /\ g.hblank = b /\ SameJobs(gpu, g) /\ SameData(gpu, g)
      /\ SameFlight(gpu, g) /\ g.aborted = gpu.aborted /\ g.jn = gpu.jn /\ g.burst = gpu.burst
      /\ g.per_line = gpu.per_line
  <2>1. l \in 0..SCANLINES_PER_FRAME - 1
    BY LinesAssumption
  <2>2. Typed(g)
    BY <1>1, <2>1 DEF Typed, Members, MovedTo
  <2> QED
    BY <1>1, <2>2 DEF Typed, Members, MovedTo, SameJobs, SameData, SameFlight
<1>5. Core(g, K, c)
  <2>1. ~g.aborted /\ \A e \in Engines : g.burst[e] => g.per_line[e]
    BY <1>1, <1>4 DEF Core, Base, EngOk, JobOk
  <2> QED
    BY <1>1, <1>4, <2>1, CoreKept
<1>6. /\ Core(j, K, c) /\ ~in_flight(j)
      /\ \A e \in Engines : ~j.inflight[e] /\ ~j.deferred[e]
      /\ SameFrame(g, j)
      /\ \A e \in Engines : g.deferred[e] => Len(j.journal[e]) = 0
      /\ \A e \in Engines : ~g.inflight[e] => j.journal[e] = g.journal[e]
      /\ (g.stale => in_flight(g)) => ~j.stale
  <2>1. Ctx(K) /\ K.vm = vmap /\ K.ver = ver
    BY <1>1
  <2>2. Core(g, K, c)
    BY <1>5
  <2> HIDE DEF c, K
  <2>3. JoinedAll(g, K, c)
    BY <2>1, <2>2, JoinAll
  <2> QED
    BY <2>3 DEF JoinedAll
<1> HIDE DEF j
<1>7. \A e \in Engines : Len(j.journal[e]) = 0
  <2> SUFFICES ASSUME NEW e \in Engines PROVE Len(j.journal[e]) = 0
    OBVIOUS
  <2>1. CASE gpu.inflight[e]
    BY <2>1, <1>3, <1>4, <1>6 DEF SameJobs
  <2>2. CASE ~gpu.inflight[e]
    BY <2>2, <1>3, <1>4, <1>6 DEF SameJobs, SameData
  <2> QED
    BY <2>1, <2>2
<1>8. ex => ~j.stale
  <2>1. ex => (g.stale => in_flight(g))
    BY <1>1, <1>4 DEF Watch, in_flight, SameJobs, SameFlight
  <2> QED
    BY <2>1, <1>6
<1>9. /\ Typed(j) /\ ~j.aborted /\ ~j.scale /\ j.line = l /\ j.hblank = b
  BY <1>4, <1>6 DEF Core, Base, SameFrame, in_flight
<1>10. /\ Typed(h) /\ SameJobs(j, h) /\ SameData(j, h) /\ SameFlight(j, h)
       /\ h.line = j.line /\ h.hblank = j.hblank /\ h.aborted = j.aborted /\ h.jn = j.jn
       /\ ~h.finished /\ h.next = Both(0) /\ \A e \in Engines : ~h.burst[e]
       /\ ArmedNow(h)
  BY <1>9, BeginIs DEF h
<1>11. Draws(h, due)
  BY <1>0
<1>12. Core(h, K, c)
  BY <1>6, <1>9, <1>10, CoreKept
<1>13. due' = d /\ gpu' = [h EXCEPT !.drawn = {}]
  <2>1. \A e \in Engines : LinesOf(h, e) = {o.line : o \in {x \in h.drawn : x.e = e}}
    BY DEF LinesOf
  <2>2. due' = [e \in Engines |-> [x \in DOMAIN due[e] \ {o.line : o \in {y \in h.drawn : y.e = e}} |-> due[e][x]]]
    BY <1>11, Zenon DEF Draws
  <2>3. gpu' = [h EXCEPT !.drawn = {}]
    BY <1>11, Zenon DEF Draws
  <2> QED
    BY <2>1, <2>2, <2>3, Zenon DEF Left
<1>14. d = [e \in Engines |-> [x \in DOMAIN d[e] |-> d[e][x]]]
  BY Zenon DEF Left
<1> HIDE DEF d
<1>15. /\ Ctx(K2) /\ K2.E = K.E /\ K2.hi = K.hi /\ K2.n = K.n /\ K2.mode = K.mode
       /\ K2.due = d /\ K2.ver = K.ver /\ K2.vm = K.vm /\ K2.ex = K.ex
       /\ K2.w = K.w /\ K2.edges = K.edges /\ K2.fall = K.fall /\ K2.lay = K.lay
  BY <1>1, <1>14, WithDueIs
<1> HIDE DEF K2
<1>16. Core(gpu', K2, c) /\ (K.ex => unlike' = unlike)
  <2>1. Draws(h, K.due) /\ K2.due = due'
    BY <1>1, <1>11, <1>13, <1>15
  <2> QED
    BY <1>1, <1>12, <1>15, <2>1, DrawsKeep
<1>17. /\ SameFrame(h, gpu') /\ SameCounts(h, gpu') /\ SameEnd(h, gpu') /\ SameJobs(h, gpu')
       /\ SameFlight(h, gpu') /\ gpu'.eng = h.eng /\ gpu'.journal = h.journal /\ gpu'.drawn = {}
  BY <1>10, <1>13, ClearedKept
<1>18. \A e \in Engines : Settled(gpu', e, n, mode) /\ DOMAIN d[e] = {}
  <2> SUFFICES ASSUME NEW e \in Engines PROVE Settled(gpu', e, n, mode) /\ DOMAIN d[e] = {}
    OBVIOUS
  <2>1. /\ ~gpu'.inflight[e] /\ ~gpu'.deferred[e] /\ Len(gpu'.journal[e]) = 0
        /\ K2.E = SCREEN_H /\ c[e] = SCREEN_H
    BY <1>3, <1>6, <1>7, <1>10, <1>15, <1>17 DEF SameJobs, SameData
  <2>2. Settled(gpu', e, K2.n, K2.mode) /\ DOMAIN K2.due[e] = {}
    BY <1>15, <1>16, <1>17, <2>1, AllDone
  <2> QED
    BY <2>2, <1>1, <1>15
<1>19. /\ gpu'.line = 0 /\ ~gpu'.hblank /\ ~gpu'.finished /\ gpu'.next = Both(0) /\ ~gpu'.scale
       /\ \A e \in Engines : ~gpu'.burst[e]
       /\ ex => ~gpu'.stale
  BY <1>8, <1>9, <1>10, <1>17 DEF SameFrame, SameCounts, SameEnd, SameFlight
<1>20. ArmedNow(gpu')
  <2>1. MaskOf(gpu') = MaskOf(h)
    BY <1>17 DEF MaskOf, SameFrame
  <2> QED
    BY <2>1, <1>10, <1>17 DEF ArmedNow, SameFrame, SameEnd
<1>21. Typed(gpu') /\ ~gpu'.aborted
  BY <1>16 DEF Core, Base
<1>22. n \in [Engines -> Nat] /\ mode \in {1, 2} /\ ver \in [Banks -> Nat] /\ vmap \in [Banks -> Places]
  BY <1>1 DEF Ctx
<1>23. Fit(gpu', Context(gpu', d, n, mode, n, ver, vmap, ex))
  BY <1>14, <1>17, <1>18, <1>19, <1>20, <1>21, <1>22, TopFit
<1> QED
  BY <1>1, <1>13, <1>16, <1>17, <1>23 DEF Kept

\* The context once a line is scanned out with the pictures d due.
OneMore(K, d) == [K EXCEPT !.E = @ + 1, !.due = d, !.w = ~K.ex /\ K.w]

\* The pictures due with the one of line l.
WithLine(l) == [e \in Engines |-> [x \in DOMAIN due[e] \cup {l} |->
                                     IF x = l THEN ScannedOut(e) ELSE due[e][x]]]

\* A display line is scanned out.
LEMMA OneMoreIs ==
  ASSUME NEW K, Ctx(K), K \in CtxMembers(due), K.E < SCREEN_H, K.hi = 2 * K.E + 1,
         K.n = n, K.mode = mode, K.edges = edges, K.vm = vmap, K.ver = ver, K.w = K.ex,
         NEW l, l = K.E
  PROVE LET K1 == OneMore(K, WithLine(l))
        IN /\ ScannedLine(K, K1) /\ Ctx(K1) /\ K1.due = WithLine(l) /\ K1.E = K.E + 1
           /\ K1.hi = K.hi /\ K1.vm = vmap /\ K1.ver = ver /\ K1.fall = K.fall /\ K1.lay = K.lay
           /\ K1.n = n /\ K1.mode = mode /\ K1.ex = K.ex
<1> DEFINE d == WithLine(l)
           K1 == OneMore(K, d)
<1>1. /\ K1.E = K.E + 1 /\ K1.hi = K.hi /\ K1.n = K.n /\ K1.mode = K.mode
      /\ K1.due = d /\ K1.ver = K.ver /\ K1.vm = K.vm /\ K1.ex = K.ex
      /\ K1.w = (~K.ex /\ K.w) /\ K1.edges = K.edges /\ K1.fall = K.fall /\ K1.lay = K.lay
  BY DEF OneMore, CtxMembers
<1> HIDE DEF K1
<1>2. ASSUME NEW e \in Engines
      PROVE /\ DOMAIN d[e] = DOMAIN due[e] \cup {l} /\ d[e][l] = ScannedOut(e)
            /\ \A x \in DOMAIN due[e] : x # l => d[e][x] = due[e][x]
  BY DEF WithLine
<1>3. ASSUME NEW e \in Engines
      PROVE ScannedOut(e) = [edges |-> edges[e], n |-> n[e],
                             view |-> View2(e, Md(e, mode), vmap, ver)]
  BY DEF ScannedOut, View, View2, Md
<1>4. d = [e \in Engines |-> [x \in DOMAIN d[e] |-> d[e][x]]]
  BY DEF WithLine
<1> HIDE DEF d
<1>5. Ctx(K1)
  <2>1. K1.E \in 0..SCREEN_H
    BY <1>1, LinesAssumption DEF Ctx
  <2>2. K1.w \in BOOLEAN /\ ~K1.w
    BY <1>1
  <2>3. K1.due = [e \in Engines |-> [x \in DOMAIN K1.due[e] |-> K1.due[e][x]]]
    BY <1>1, <1>4
  <2> QED
    BY <1>1, <2>1, <2>2, <2>3 DEF Ctx
<1>6. K.due = due
  BY DEF CtxMembers
<1>7. ScannedLine(K, K1)
  <2>1. ~K1.w /\ (K.ex => K.w)
    BY <1>1
  <2>2. ASSUME NEW e \in Engines
        PROVE /\ DOMAIN K1.due[e] = DOMAIN K.due[e] \cup {K.E}
              /\ \A x \in DOMAIN K.due[e] : x # K.E => K1.due[e][x] = K.due[e][x]
              /\ K.ex => K1.due[e][K.E] = [edges |-> K.edges[e], n |-> K.n[e],
                                           view |-> View2(e, Md(e, K.mode), K.vm, K.ver)]
    <3>1. K1.due[e] = d[e] /\ K.due[e] = due[e] /\ l = K.E
      BY <1>1, <1>6
    <3> QED
      BY <3>1, <1>2, <1>3
  <2> QED
    BY <2>1, <2>2, <1>1 DEF ScannedLine
<1> QED
  BY <1>1, <1>5, <1>7 DEF K1, d

\* The line ends.
HblankAt(y, b) == [y EXCEPT !.hblank = b]

\* The display line's work, and what Watch is to learn of it: h has its lines
\* drawn or handed out, z its bursts ended as well.
LineShown(g, K, parked, b, c1) ==
  LET h == render_ranges(g, LineRanges(g), parked)
      z == HblankAt(DisplayLine(g, parked), b)
  IN /\ Core(z, K, Cur(z)) /\ Frame(z) /\ z.line = g.line /\ z.hblank = b
     /\ LineDrawn(g, K, parked) /\ Typed(h)
     /\ SameJobs(h, z) /\ SameData(h, z) /\ SameFlight(h, z)
     /\ z.lazy = g.lazy /\ z.lag = g.lag /\ z.finished = h.finished /\ Cur(z) = h.next
     /\ \/ z.trap = h.trap /\ z.mask = h.mask /\ z.lcdc = h.lcdc /\ z.per_line = h.per_line
        \/ /\ g.line < SCREEN_H - 1 /\ \E e \in Engines : g.per_line[e]
           /\ \A e \in Engines : z.per_line[e] => g.per_line[e]
           /\ z.trap <=> MaskOf(z) # {}
           /\ z.trap => z.mask = MaskOf(z) /\ (z.lcdc <=> 0 \in MaskOf(z) /\ h.eng[0].mode = 2)

\* The line ends, and nothing else changes.
HblankOnly(y, z) ==
        /\ Typed(z) /\ z.line = y.line /\ SameJobs(y, z) /\ SameData(y, z)
        /\ SameFlight(y, z) /\ z.lazy = y.lazy /\ z.lag = y.lag /\ z.next = y.next
        /\ z.finished = y.finished /\ z.aborted = y.aborted /\ z.jn = y.jn
        /\ z.burst = y.burst /\ z.per_line = y.per_line /\ z.trap = y.trap /\ z.mask = y.mask
        /\ z.lcdc = y.lcdc
\* HblankAt does so.
LEMMA HblankIs ==
  ASSUME NEW y, Typed(y), NEW b \in BOOLEAN
  PROVE HblankOnly(y, HblankAt(y, b)) /\ HblankAt(y, b).hblank = b
<1> DEFINE z == HblankAt(y, b)
<1>1. Typed(z)
  BY DEF Typed, Members, HblankAt
<1>2. SameJobs(y, z) /\ SameData(y, z) /\ SameFlight(y, z)
  BY DEF HblankAt, Typed, Members, SameJobs, SameData, SameFlight
<1>3. /\ z.line = y.line /\ z.hblank = b /\ z.lazy = y.lazy /\ z.lag = y.lag /\ z.next = y.next
      /\ z.finished = y.finished /\ z.aborted = y.aborted /\ z.jn = y.jn
      /\ z.burst = y.burst /\ z.per_line = y.per_line /\ z.trap = y.trap /\ z.mask = y.mask
      /\ z.lcdc = y.lcdc
  BY DEF HblankAt, Typed, Members
<1> QED
  BY <1>1, <1>2, <1>3 DEF HblankOnly

\* A display line's lines are drawn or handed out, and its bursts ended.
LEMMA ShowLine ==
  ASSUME NEW K, Ctx(K), K.vm = vmap, K.ver = ver, NEW g, Core(g, K, Cur(g)), Frame(g),
         ~g.hblank, g.line < SCREEN_H, K.E = g.line + 1, K.hi = 2 * g.line + 1,
         \A e \in Engines : Cur(g)[e] <= g.line, NEW parked \in BOOLEAN, NEW b \in BOOLEAN, b
  PROVE LineShown(g, K, parked, b, Cur(g))
<1> DEFINE h == render_ranges(g, LineRanges(g), parked)
           y == EndBursts(h)
           z == HblankAt(y, b)
<1>1. LineDrawn(g, K, parked)
  BY RenderLine
<1>2. /\ Core(h, K, h.next) /\ SameFrame(g, h)
      /\ \A e \in Engines : h.next[e] = IF Batch(g, e) /\ g.line # SCREEN_H - 1 THEN Cur(g)[e]
                                        ELSE g.line + 1
      /\ g.line # SCREEN_H - 1 => ~h.finished
      /\ g.line = SCREEN_H - 1 =>
          /\ h.next = Both(SCREEN_H) /\ h.finished
          /\ \A e \in Engines : /\ h.inflight[e] => h.deferred[e]
                                /\ ~h.inflight[e] => h.journal[e] = <<>>
  BY <1>1 DEF LineDrawn
<1>3. DisplayLine(g, parked) = y
  BY DisplayLineIs
<1> HIDE DEF h
<1>4. /\ Typed(h) /\ h.line = g.line /\ h.line \in Nat /\ SCREEN_H \in Nat \ {0}
      /\ \A e \in Engines : h.burst[e] => h.per_line[e]
      /\ h.per_line = g.per_line /\ h.lazy = g.lazy /\ h.lag = g.lag
  <2>1. Typed(h) /\ \A e \in Engines : h.burst[e] => h.per_line[e]
    BY <1>2 DEF Core, Base, EngOk, JobOk
  <2> QED
    BY <2>1, <1>2, Types, LinesAssumption DEF SameFrame
<1>5. \A e \in Engines : h.per_line[e] /\ h.line < SCREEN_H - 1 => h.next[e] = h.line + 1
  BY <1>2, <1>4 DEF Batch
<1>6. BurstsEnded(h)
  BY <1>4, <1>5, EndBurstsIs
<1>7. /\ Typed(y) /\ SameJobs(h, y) /\ SameData(h, y) /\ SameFlight(h, y)
      /\ y.line = h.line /\ y.lazy = h.lazy /\ y.lag = h.lag
      /\ y.next = h.next /\ y.finished = h.finished /\ y.aborted = h.aborted /\ y.jn = h.jn
      /\ \A e \in Engines : y.burst[e] => y.per_line[e]
      /\ \/ y.trap = h.trap /\ y.mask = h.mask /\ y.lcdc = h.lcdc /\ y.per_line = h.per_line
         \/ /\ h.line < SCREEN_H - 1 /\ \E e \in Engines : h.per_line[e]
            /\ \A e \in Engines : y.per_line[e] => h.per_line[e]
            /\ y.trap <=> MaskOf(y) # {}
            /\ y.trap => y.mask = MaskOf(y) /\ (y.lcdc <=> 0 \in MaskOf(y) /\ h.eng[0].mode = 2)
  BY <1>6 DEF BurstsEnded
<1> HIDE DEF y
<1>8. /\ Typed(z) /\ z.line = y.line /\ z.hblank = b /\ SameJobs(y, z) /\ SameData(y, z)
      /\ SameFlight(y, z) /\ z.lazy = y.lazy /\ z.lag = y.lag /\ z.next = y.next
      /\ z.finished = y.finished /\ z.aborted = y.aborted /\ z.jn = y.jn
      /\ z.burst = y.burst /\ z.per_line = y.per_line /\ z.trap = y.trap /\ z.mask = y.mask
      /\ z.lcdc = y.lcdc
  <2>1. Typed(y)
    BY <1>7
  <2>2. HblankOnly(y, z) /\ z.hblank = b
    BY <2>1, HblankIs
  <2> QED
    BY <2>2 DEF HblankOnly
<1>9. HblankAt(DisplayLine(g, parked), b) = z
  BY <1>3
<1> HIDE DEF z
<1>10. SameJobs(h, z) /\ SameData(h, z) /\ SameFlight(h, z)
  BY <1>7, <1>8 DEF SameJobs, SameData, SameFlight
<1>11. Cur(z) = h.next
  <2>1. ~Top(z)
    BY <1>8 DEF Top
  <2>2. Cur(z) = [e \in Engines |-> z.next[e]]
    BY <2>1 DEF Cur
  <2> QED
    BY <2>2, <1>4, <1>7, <1>8, Types
<1>12. Core(z, K, Cur(z))
  <2>1. ~z.aborted /\ z.jn = h.jn /\ \A e \in Engines : z.burst[e] => z.per_line[e]
    BY <1>2, <1>7, <1>8 DEF Core, Base
  <2>2. Core(h, K, Cur(z))
    BY <1>2, <1>11
  <2> QED
    BY <2>1, <2>2, <1>8, <1>10, CoreKept
<1>13. Frame(z)
  <2>1. frontier(z) = g.line + 1 /\ ~Top(z)
    BY <1>4, <1>7, <1>8 DEF frontier, Top
  <2>2. z.inflight = h.inflight /\ z.deferred = h.deferred /\ z.journal = h.journal
    BY <1>10 DEF SameJobs, SameData
  <2>3. z.finished = h.finished /\ z.next = h.next
    BY <1>7, <1>8
  <2>4. CASE g.line = SCREEN_H - 1
    BY <2>1, <2>2, <2>3, <2>4, <1>2, <1>4 DEF Frame
  <2>5. CASE g.line # SCREEN_H - 1
    <3>1. g.line + 1 < SCREEN_H
      BY <2>5, <1>4
    <3> QED
      BY <2>1, <2>3, <2>5, <3>1, <1>2, <1>4 DEF Frame
  <2> QED
    BY <2>4, <2>5
<1>14. \/ z.trap = h.trap /\ z.mask = h.mask /\ z.lcdc = h.lcdc /\ z.per_line = h.per_line
       \/ /\ g.line < SCREEN_H - 1 /\ \E e \in Engines : g.per_line[e]
          /\ \A e \in Engines : z.per_line[e] => g.per_line[e]
          /\ z.trap <=> MaskOf(z) # {}
          /\ z.trap => z.mask = MaskOf(z) /\ (z.lcdc <=> 0 \in MaskOf(z) /\ h.eng[0].mode = 2)
  <2>1. MaskOf(z) = MaskOf(y)
    BY <1>8 DEF MaskOf
  <2> QED
    BY <2>1, <1>4, <1>7, <1>8
<1>15. /\ z.line = g.line /\ z.hblank = b /\ z.lazy = g.lazy /\ z.lag = g.lag
       /\ z.finished = h.finished
  BY <1>4, <1>7, <1>8
<1> QED
  BY <1>1, <1>4, <1>9, <1>10, <1>11, <1>12, <1>13, <1>14, <1>15, Zenon DEF LineShown, h

\* Engine A, with all its lines drawn and no stamp given since, files nothing.
LEMMA NoneToFall ==
  ASSUME NEW K, Ctx(K), NEW g, NEW c, Core(g, K, c), ~g.inflight[0], c[0] = K.E, K.hi < 2 * K.E
  PROVE Falling(g.eng[0], g.journal[0])
<1> DEFINE r == g.eng[0]
           j == g.journal[0]
<1>1. 0 \in Engines
  BY DEF Engines
<1>2. Jrn(r, j, K.n[0], Md(0, K.mode), 2 * K.E, K.hi)
  BY <1>1 DEF Core, EngOk, Eng, PosOf
<1>3. j \in Seq(JEntry) /\ \A i \in 1..Len(j) : 2 * K.E <= j[i].stamp /\ j[i].stamp <= K.hi
  BY <1>2 DEF Jrn
<1>4. Len(j) \in Nat /\ \A i \in 1..Len(j) : j[i].stamp \in Nat
  BY <1>3, Entries
<1>5. Len(j) = 0
  <2>1. SUFFICES ASSUME Len(j) # 0 PROVE FALSE
    OBVIOUS
  <2>2. 1 \in 1..Len(j)
    BY <2>1, <1>4
  <2>3. K.E \in Nat /\ K.hi \in Nat
    BY LinesAssumption DEF Ctx
  <2> QED
    BY <2>2, <2>3, <1>3, <1>4
<1> QED
  BY <1>5 DEF Falling

\* From layers engine A's display mode can only go on to layers.
LEMMA FallsToLayers ==
  ASSUME NEW r, NEW j, Len(j) \in Nat, Falling(r, j), r.mode = 1
  PROVE Layers(r, j)
<1>1. ModeAt(r, j, 0) = 1
  BY DEF ModeAt
<1>2. ASSUME NEW i \in 0..Len(j), i # 0
      PROVE ModeAt(r, j, i) = 1
  <2>1. 0 \in 0..Len(j) /\ 0 < i
    BY <1>2
  <2> QED
    BY <2>1, <1>1 DEF Falling
<1> QED
  BY <1>1, <1>2 DEF Layers

\* What the trap promises of engine A's display modes.
TrapFalls(z) == z.trap /\ 0 \in z.mask => /\ Falling(z.eng[0], z.journal[0])
                                          /\ ~z.lcdc => Layers(z.eng[0], z.journal[0])

\* The trap after a display line's work.
LEMMA ShownFalls ==
  ASSUME NEW K, Ctx(K), NEW K1, Ctx(K1), NEW g, Typed(g), Frame(g), Watch(g, K, Cur(g)),
         ~g.hblank, g.line < SCREEN_H,
         K1.fall = (g.trap /\ 0 \in g.mask), K1.lay = (g.trap /\ 0 \in g.mask /\ ~g.lcdc),
         K1.E = g.line + 1, K1.hi = 2 * g.line + 1, NEW parked, NEW b,
         LineShown(g, K1, parked, b, Cur(g))
  PROVE TrapFalls(HblankAt(DisplayLine(g, parked), b))
<1> DEFINE h == render_ranges(g, LineRanges(g), parked)
           z == HblankAt(DisplayLine(g, parked), b)
<1>1. /\ Core(z, K1, Cur(z)) /\ LineDrawn(g, K1, parked) /\ Typed(h)
      /\ SameJobs(h, z) /\ SameData(h, z) /\ z.lazy = g.lazy /\ z.lag = g.lag /\ Cur(z) = h.next
      /\ \/ z.trap = h.trap /\ z.mask = h.mask /\ z.lcdc = h.lcdc /\ z.per_line = h.per_line
         \/ /\ g.line < SCREEN_H - 1 /\ \E e \in Engines : g.per_line[e]
            /\ \A e \in Engines : z.per_line[e] => g.per_line[e]
            /\ z.trap <=> MaskOf(z) # {}
            /\ z.trap => z.mask = MaskOf(z) /\ (z.lcdc <=> 0 \in MaskOf(z) /\ h.eng[0].mode = 2)
  BY DEF LineShown
<1>2. /\ h.mask = g.mask /\ h.lcdc = g.lcdc
      /\ \A e \in Engines : h.next[e] = IF Batch(g, e) /\ g.line # SCREEN_H - 1 THEN Cur(g)[e]
                                        ELSE g.line + 1
      /\ g.line # SCREEN_H - 1 => h.trap = g.trap
      /\ g.line # SCREEN_H - 1 => \/ \A e \in Engines : Batch(g, e)
                                  \/ \A e \in Engines : h.inflight[e] => g.lag
      /\ g.line = SCREEN_H - 1 => /\ h.deferred[0] => h.trap = g.trap
                                  /\ ~h.deferred[0] => ~h.trap
  <2>1. 0 \in Engines
    BY DEF Engines
  <2> QED
    BY <1>1, <2>1 DEF LineDrawn, SameFrame
<1>3. frontier(g) = g.line /\ g.line \in Nat /\ SCREEN_H \in Nat
  BY Types, LinesAssumption DEF frontier
<1>4. /\ ~g.finished /\ (g.trap <=> MaskOf(g) # {}) /\ (g.trap => g.mask = MaskOf(g))
  BY <1>3 DEF Frame, Watch, Armed
<1> SUFFICES TrapFalls(z)
  OBVIOUS
<1> HIDE DEF h, z
<1>5. /\ K1.fall => Falling(z.eng[0], z.journal[0])
      /\ K1.lay => Layers(z.eng[0], z.journal[0])
  BY <1>1, FallOf
<1>6. CASE z.trap = h.trap /\ z.mask = h.mask /\ z.lcdc = h.lcdc
  <2>1. h.trap => g.trap
    BY <1>2
  <2> QED
    BY <2>1, <1>2, <1>5, <1>6 DEF TrapFalls
<1>7. CASE /\ g.line < SCREEN_H - 1 /\ \E e \in Engines : g.per_line[e]
           /\ \A e \in Engines : z.per_line[e] => g.per_line[e]
           /\ z.trap <=> MaskOf(z) # {}
           /\ z.trap => z.mask = MaskOf(z) /\ (z.lcdc <=> 0 \in MaskOf(z) /\ h.eng[0].mode = 2)
  <2>1. 0 \in Engines
    BY DEF Engines
  <2>2. \A e \in Engines : h.inflight[e] => g.lag
    <3>1. ~\A e \in Engines : Batch(g, e)
      BY <1>7 DEF Batch
    <3>2. g.line # SCREEN_H - 1
      BY <1>3, <1>7
    <3> QED
      BY <3>1, <3>2, <1>2
  <2>3. SUFFICES ASSUME z.trap, 0 \in z.mask
        PROVE /\ Falling(z.eng[0], z.journal[0])
              /\ ~z.lcdc => Layers(z.eng[0], z.journal[0])
    BY DEF TrapFalls
  <2>4. 0 \in MaskOf(z) /\ (~z.lcdc => h.eng[0].mode # 2)
    BY <2>3, <1>7
  <2>5. Falling(z.eng[0], z.journal[0])
    <3>1. CASE 0 \in MaskOf(g)
      BY <3>1, <1>4, <1>5
    <3>2. CASE 0 \notin MaskOf(g)
      <4>1. ~g.lag /\ z.lazy /\ ~z.per_line[0]
        BY <3>2, <2>4, <1>1 DEF MaskOf
      <4>2. ~Batch(g, 0)
        BY <3>2, <4>1, <2>1 DEF MaskOf, Batch
      <4>3. ~z.inflight[0] /\ Cur(z)[0] = g.line + 1
        BY <4>1, <4>2, <2>1, <2>2, <1>1, <1>2 DEF SameJobs
      <4>4. K1.hi < 2 * K1.E
        BY <1>3
      <4> QED
        BY <4>3, <4>4, <1>1, NoneToFall
    <3> QED
      BY <3>1, <3>2
  <2>6. ASSUME ~z.lcdc
        PROVE Layers(z.eng[0], z.journal[0])
    <3>1. z.eng[0].mode = 1
      <4>1. h.eng[0] \in EngineState /\ z.eng[0] = h.eng[0]
        BY <1>1, <2>1, Types DEF SameData
      <4> QED
        BY <4>1, <2>4, <2>6 DEF EngineState
    <3>2. Len(z.journal[0]) \in Nat
      <4>1. z.journal[0] \in Seq(JEntry)
        BY <1>1, <2>1, Types DEF SameData
      <4> QED
        BY <4>1
    <3> QED
      BY <3>1, <3>2, <2>5, FallsToLayers
  <2> QED
    BY <2>5, <2>6
<1> QED
  BY <1>1, <1>6, <1>7, Zenon

\* What is watched after a display line's work.
LEMMA ShownWatch ==
  ASSUME NEW K, Ctx(K), K.vm = vmap, NEW K1, Ctx(K1),
         NEW g, NEW K2, K2.E = g.line + 1, K2.vm = vmap, Typed(g), Frame(g), Watch(g, K, Cur(g)),
         ~g.hblank, g.line < SCREEN_H, NEW parked, NEW b,
         LineShown(g, K1, parked, b, Cur(g))
  PROVE Watch(HblankAt(DisplayLine(g, parked), b), K2, Cur(HblankAt(DisplayLine(g, parked), b)))
<1> DEFINE h == render_ranges(g, LineRanges(g), parked)
           z == HblankAt(DisplayLine(g, parked), b)
<1>1. /\ LineDrawn(g, K1, parked) /\ Typed(h) /\ z.finished = h.finished
      /\ SameJobs(h, z) /\ SameFlight(h, z) /\ z.lazy = g.lazy /\ z.lag = g.lag /\ Cur(z) = h.next
      /\ \/ z.trap = h.trap /\ z.mask = h.mask /\ z.lcdc = h.lcdc /\ z.per_line = h.per_line
         \/ /\ g.line < SCREEN_H - 1 /\ \E e \in Engines : g.per_line[e]
            /\ \A e \in Engines : z.per_line[e] => g.per_line[e]
            /\ z.trap <=> MaskOf(z) # {}
            /\ z.trap => z.mask = MaskOf(z) /\ (z.lcdc <=> 0 \in MaskOf(z) /\ h.eng[0].mode = 2)
  BY DEF LineShown
<1>2. /\ h.mask = g.mask /\ h.lcdc = g.lcdc /\ h.per_line = g.per_line
      /\ \A e \in Engines : h.next[e] = IF Batch(g, e) /\ g.line # SCREEN_H - 1 THEN Cur(g)[e]
                                        ELSE g.line + 1
      /\ g.line # SCREEN_H - 1 =>
          /\ ~h.finished /\ h.trap = g.trap /\ \A e \in Engines : ~h.deferred[e]
          /\ \/ h = g /\ \A e \in Engines : Batch(g, e)
             \/ /\ \A e \in Engines : h.inflight[e] => /\ h.job_map[e] = vmap /\ g.lag
                                                       /\ e = 1 => Guarded(g, 1)
                /\ (g.stale => in_flight(g)) => ~h.stale
      /\ g.line = SCREEN_H - 1 =>
          /\ h.next = Both(SCREEN_H) /\ h.finished
          /\ \A e \in Engines : /\ h.inflight[e] => h.deferred[e] /\ h.job_map[e] = vmap
                                /\ ~h.inflight[e] => h.journal[e] = <<>>
                                /\ h.deferred[e] => Guarded(g, e) /\ h.trap = g.trap
          /\ ~h.deferred[0] => ~h.trap
          /\ (g.stale => in_flight(g)) => ~h.stale
  BY <1>1 DEF LineDrawn, SameFrame
<1>3. frontier(g) = g.line /\ g.line \in Nat /\ SCREEN_H \in Nat
  BY Types, LinesAssumption DEF frontier
<1>4. /\ ~g.finished /\ (g.trap <=> MaskOf(g) # {}) /\ (g.trap => g.mask = MaskOf(g))
      /\ \A e \in Engines : g.inflight[e] => e \in MaskOf(g)
      /\ g.lcdc /\ g.trap => 0 \in g.mask
      /\ JobMap(g, vmap) /\ (g.stale => in_flight(g))
  BY <1>3 DEF Frame, Watch, Armed
<1>5. /\ z.inflight = h.inflight /\ z.deferred = h.deferred /\ z.job_map = h.job_map
      /\ z.scale = h.scale /\ z.stale = h.stale
  BY <1>1 DEF SameJobs, SameFlight
<1> SUFFICES Watch(z, K2, Cur(z))
  OBVIOUS
<1> HIDE DEF h, z
<1>6. 0 \in Engines /\ 1 \in Engines
  BY DEF Engines
<1>7. CASE g.line = SCREEN_H - 1
  <2>1. z.trap = h.trap /\ z.mask = g.mask /\ z.lcdc = g.lcdc
    BY <1>1, <1>2, <1>7, <1>3
  <2>2. Armed(z)
    <3>1. z.finished
      BY <1>1, <1>2, <1>7
    <3>2. z.trap => z.deferred[0] /\ g.trap
      BY <2>1, <1>2, <1>5, <1>6, <1>7
    <3>3. \A e \in Engines : z.deferred[e] => z.trap /\ e \in z.mask
      BY <2>1, <1>2, <1>5, <1>7 DEF Guarded
    <3>4. z.lcdc /\ z.trap => 0 \in z.mask
      BY <2>1, <3>2, <1>4
    <3> QED
      BY <3>1, <3>2, <3>3, <3>4 DEF Armed
  <2>3. Batching(z, K2, Cur(z))
    <3>1. \A e \in Engines : Cur(z)[e] = SCREEN_H
      BY <1>1, <1>2, <1>7 DEF Both
    <3>2. K2.E = SCREEN_H
      BY <1>3, <1>7
    <3> QED
      BY <3>1, <3>2, <1>3 DEF Batching
  <2>4. ~z.stale
    BY <1>2, <1>4, <1>5, <1>7
  <2>5. JobMap(z, K2.vm)
    BY <2>4, <1>2, <1>5, <1>7 DEF JobMap
  <2> QED
    BY <2>2, <2>3, <2>4, <2>5 DEF Watch
<1>8. CASE g.line # SCREEN_H - 1
  <2>1. ~z.finished /\ \A e \in Engines : ~z.deferred[e]
    BY <1>1, <1>2, <1>5, <1>8
  <2>2. \A e \in Engines : z.per_line[e] => g.per_line[e]
    BY <1>1, <1>2
  <2>3. MaskOf(g) \subseteq MaskOf(z)
    BY <2>2, <1>1 DEF MaskOf
  <2>4. /\ z.trap <=> MaskOf(z) # {}
        /\ z.trap => z.mask = MaskOf(z)
        /\ z.lcdc /\ z.trap => 0 \in z.mask
    <3>1. CASE z.trap = h.trap /\ z.mask = h.mask /\ z.lcdc = h.lcdc /\ z.per_line = h.per_line
      <4>1. MaskOf(z) = MaskOf(g)
        BY <3>1, <1>1, <1>2 DEF MaskOf
      <4> QED
        BY <3>1, <4>1, <1>2, <1>4, <1>8
    <3> QED
      BY <3>1, <1>1
  <2>5. \A e \in Engines : z.inflight[e] => e \in MaskOf(z)
    <3>1. CASE h = g
      BY <3>1, <2>3, <1>4, <1>5
    <3>2. CASE \A e \in Engines : h.inflight[e] => /\ h.job_map[e] = vmap /\ g.lag
                                                   /\ e = 1 => Guarded(g, 1)
      <4>1. ASSUME NEW e \in Engines, z.inflight[e]
            PROVE e \in MaskOf(g)
        <5>1. g.lag /\ (e = 1 => Guarded(g, 1))
          BY <4>1, <3>2, <1>5
        <5>2. e = 0 \/ e = 1
          BY DEF Engines
        <5>3. 0 \in MaskOf(g)
          BY <5>1 DEF MaskOf
        <5>4. Guarded(g, 1) => 1 \in MaskOf(g)
          BY <1>4 DEF Guarded
        <5> QED
          BY <5>1, <5>2, <5>3, <5>4
      <4> QED
        BY <4>1, <2>3
    <3> QED
      BY <3>1, <3>2, <1>2, <1>8
  <2>6. Armed(z)
    BY <2>1, <2>4, <2>5 DEF Armed
  <2>7. Batching(z, K2, Cur(z))
    <3>1. ASSUME NEW e \in Engines, Cur(z)[e] < K2.E
          PROVE z.lazy /\ ~z.per_line[e]
      <4>1. Batch(g, e)
        <5>1. h.next[e] < g.line + 1
          BY <3>1, <1>1
        <5> QED
          BY <5>1, <1>2, <1>3
      <4> QED
        BY <4>1, <2>2, <1>1 DEF Batch
    <3> QED
      BY <3>1 DEF Batching
  <2>8. CASE h = g /\ \A e \in Engines : Batch(g, e)
    <3>1. z.trap = g.trap /\ z.mask = g.mask /\ z.lcdc = g.lcdc
      BY <2>8, <1>1 DEF Batch
    <3>2. \A p : Trapped(z, p) <=> Trapped(g, p)
      BY <3>1 DEF Trapped
    <3>3. JobMap(z, K2.vm)
      BY <2>8, <3>2, <1>4, <1>5 DEF JobMap
    <3>4. z.stale => in_flight(z)
      BY <2>8, <1>4, <1>5 DEF in_flight
    <3> QED
      BY <2>6, <2>7, <3>3, <3>4 DEF Watch
  <2>9. CASE /\ \A e \in Engines : h.inflight[e] => /\ h.job_map[e] = vmap /\ g.lag
                                                    /\ e = 1 => Guarded(g, 1)
             /\ (g.stale => in_flight(g)) => ~h.stale
    <3>1. ~z.stale
      BY <2>9, <1>4, <1>5
    <3>2. JobMap(z, K2.vm)
      BY <3>1, <2>9, <1>5 DEF JobMap
    <3> QED
      BY <2>6, <2>7, <3>1, <3>2 DEF Watch
  <2> QED
    BY <2>8, <2>9, <1>2, <1>8
<1> QED
  BY <1>7, <1>8

\* The context of a Gpu, with its types, from those of another.
LEMMA ContextTyped ==
  ASSUME NEW K, Ctx(K), NEW z, Typed(z), NEW d, d = [e \in Engines |-> [x \in DOMAIN d[e] |-> d[e][x]]],
         NEW nn, nn = K.n, NEW md, md = K.mode, NEW ed, ed = K.edges, NEW vr, vr = K.ver,
         NEW vm, vm = K.vm, NEW ex \in BOOLEAN
  PROVE Ctx(Context(z, d, nn, md, ed, vr, vm, ex))
<1> DEFINE K2 == Context(z, d, nn, md, ed, vr, vm, ex)
<1>1. /\ K2.E = Scanned(z) /\ K2.hi = Now(z) /\ K2.due = d /\ K2.n = nn /\ K2.mode = md
      /\ K2.edges = ed /\ K2.ver = vr /\ K2.vm = vm /\ K2.ex = ex
      /\ K2.w = (ex /\ ~z.hblank /\ z.line < SCREEN_H)
      /\ K2.fall = (ex /\ z.trap /\ 0 \in z.mask)
      /\ K2.lay = (ex /\ z.trap /\ 0 \in z.mask /\ ~z.lcdc)
  BY ContextIs
<1> SUFFICES Ctx(K2)
  OBVIOUS
<1> HIDE DEF K2
<1>2. z.line \in Nat /\ SCREEN_H \in Nat \ {0} /\ frontier(z) \in Nat
  BY Types, LinesAssumption DEF frontier
<1>3. K2.E \in 0..SCREEN_H /\ K2.hi \in Nat
  BY <1>1, <1>2 DEF Scanned, Now
<1>4. {K2.ex, K2.w, K2.fall, K2.lay} \subseteq BOOLEAN
  <2>1. K2.ex \in BOOLEAN /\ K2.w \in BOOLEAN /\ K2.fall \in BOOLEAN /\ K2.lay \in BOOLEAN
    BY <1>1
  <2> QED
    BY <2>1
<1>5. K2.w => K2.E < SCREEN_H
  BY <1>1, <1>2 DEF Scanned, frontier
<1>6. K2.due = [e \in Engines |-> [x \in DOMAIN K2.due[e] |-> K2.due[e][x]]]
  BY <1>1
<1>7. /\ K2.mode \in {1, 2} /\ K2.n \in [Engines -> Nat] /\ K2.vm \in [Banks -> Places]
      /\ K2.ver \in [Banks -> Nat] /\ K2.edges \in [Engines -> Nat]
  BY <1>1 DEF Ctx
<1> QED
  BY <1>3, <1>4, <1>5, <1>6, <1>7 DEF Ctx

\* A display line is scanned out: it is due, and what is due may be drawn.
LEMMA HblankLineKeeps ==
  ASSUME NEW ex \in BOOLEAN, Fit(gpu, Ktx(ex)), gpu.drawn = {}, ~gpu.hblank, gpu.line < SCREEN_H,
         NEW parked \in BOOLEAN, NEW b \in BOOLEAN, b,
         Draws(HblankAt(DisplayLine(gpu, parked), b), WithLine(gpu.line)),
         edges' = edges, n' = n, mode' = mode, ver' = ver, vmap' = vmap
  PROVE Kept(ex)
<1> DEFINE K == Ktx(ex)
           d == WithLine(gpu.line)
           K1 == OneMore(K, d)
           z == HblankAt(DisplayLine(gpu, parked), b)
           K2 == Context(z, d, n, mode, edges, ver, vmap, ex)
           c == Cur(gpu)
<1>1. /\ Ctx(K) /\ Core(gpu, K, c) /\ Frame(gpu) /\ (ex => Watch(gpu, K, c))
      /\ K \in CtxMembers(due) /\ K.E = Scanned(gpu) /\ K.hi = Now(gpu)
      /\ K.due = due /\ K.n = n /\ K.mode = mode /\ K.edges = edges /\ K.ver = ver /\ K.vm = vmap
      /\ K.ex = ex /\ K.w = (ex /\ ~gpu.hblank /\ gpu.line < SCREEN_H)
      /\ K.fall = (ex /\ gpu.trap /\ 0 \in gpu.mask)
      /\ K.lay = (ex /\ gpu.trap /\ 0 \in gpu.mask /\ ~gpu.lcdc)
      /\ Typed(gpu)
  BY Given
<1> HIDE DEF K
<1>2. gpu.line \in Nat /\ SCREEN_H \in Nat \ {0} /\ frontier(gpu) = gpu.line
  BY <1>1, Types, LinesAssumption DEF frontier
<1>3. K.E = gpu.line /\ K.hi = 2 * K.E + 1 /\ K.E < SCREEN_H
  BY <1>1, <1>2 DEF Scanned, Now
<1>4. /\ ScannedLine(K, K1) /\ Ctx(K1) /\ K1.due = d /\ K1.E = K.E + 1
      /\ K1.hi = K.hi /\ K1.vm = vmap /\ K1.ver = ver /\ K1.fall = K.fall /\ K1.lay = K.lay
      /\ K1.n = n /\ K1.mode = mode /\ K1.ex = K.ex
  <2>1. K.w = K.ex
    BY <1>1
  <2>2. gpu.line = K.E
    BY <1>3
  <2> QED
    BY <2>1, <2>2, <1>1, <1>3, OneMoreIs
<1>5. d = [e \in Engines |-> [x \in DOMAIN d[e] |-> d[e][x]]]
  BY <1>4 DEF Ctx
<1> HIDE DEF K1, d, z
<1>5a. /\ K2.E = Scanned(z) /\ K2.hi = Now(z) /\ K2.due = d /\ K2.n = n /\ K2.mode = mode
       /\ K2.ver = ver /\ K2.vm = vmap /\ K2.ex = ex
       /\ K2.w = (ex /\ ~z.hblank /\ z.line < SCREEN_H)
       /\ K2.fall = (ex /\ z.trap /\ 0 \in z.mask)
       /\ K2.lay = (ex /\ z.trap /\ 0 \in z.mask /\ ~z.lcdc)
  BY ContextIs
<1>6. Core(gpu, K1, c)
  BY <1>1, <1>4, ScanCore
<1>7. \A e \in Engines : c[e] <= gpu.line
  <2>1. c \in [Engines -> 0..K.E]
    BY <1>1 DEF Core, Base
  <2>2. ASSUME NEW e \in Engines
        PROVE c[e] <= gpu.line
    <3>1. c[e] \in 0..K.E
      BY <2>1
    <3> QED
      BY <3>1, <1>3, <1>2
  <2> QED
    BY <2>2
<1>8. LineShown(gpu, K1, parked, b, c)
  <2>1. K1.E = gpu.line + 1 /\ K1.hi = 2 * gpu.line + 1
    BY <1>3, <1>4
  <2> QED
    BY <2>1, <1>1, <1>4, <1>6, <1>7, ShowLine
<1>9. Core(z, K1, Cur(z)) /\ Frame(z) /\ z.line = gpu.line /\ z.hblank = b
  BY <1>8 DEF LineShown, z
<1>10. ex => TrapFalls(z)
  <2>1. SUFFICES ASSUME ex PROVE TrapFalls(z)
    OBVIOUS
  <2>2. /\ K1.fall = (gpu.trap /\ 0 \in gpu.mask) /\ K1.lay = (gpu.trap /\ 0 \in gpu.mask /\ ~gpu.lcdc)
        /\ K1.E = gpu.line + 1 /\ K1.hi = 2 * gpu.line + 1
    BY <2>1, <1>1, <1>3, <1>4
  <2> QED
    BY <2>1, <2>2, <1>1, <1>4, <1>8, ShownFalls DEF z
<1>11. ex => Watch(z, K2, Cur(z))
  <2>1. SUFFICES ASSUME ex PROVE Watch(z, K2, Cur(z))
    OBVIOUS
  <2>2. K2.E = gpu.line + 1 /\ K2.vm = vmap
    <3>1. K2.E = Scanned(z) /\ K2.vm = vmap
      BY <1>5a
    <3> QED
      BY <3>1, <1>2, <1>9 DEF Scanned, frontier
  <2> HIDE DEF K2
  <2> QED
    BY <2>1, <2>2, <1>1, <1>4, <1>8, ShownWatch DEF z
<1>12. Typed(z)
  BY <1>9 DEF Core, Base
<1>13. Ctx(K2)
  <2>1. n = K1.n /\ mode = K1.mode /\ edges = K.edges /\ ver = K1.ver /\ vmap = K1.vm
    BY <1>1, <1>4
  <2>2. n = K.n /\ mode = K.mode /\ edges = K.edges /\ ver = K.ver /\ vmap = K.vm
    BY <1>1
  <2> QED
    BY <2>2, <1>1, <1>5, <1>12, ContextTyped
<1> HIDE DEF K2
<1>15. Core(z, K2, Cur(z))
  <2>1. K2.E = K1.E /\ K2.hi >= K1.hi
    <3>1. frontier(z) = gpu.line + 1
      BY <1>9 DEF frontier
    <3>2. Scanned(z) = gpu.line + 1 /\ Now(z) = 2 * (gpu.line + 1)
      BY <3>1, <1>2, <1>9 DEF Scanned, Now
    <3> QED
      BY <3>2, <1>2, <1>3, <1>4, <1>5a
  <2>2. ~K2.w
    BY <1>9, <1>5a
  <2>3. /\ K2.fall => Falling(z.eng[0], z.journal[0])
        /\ K2.lay => Layers(z.eng[0], z.journal[0])
    BY <1>10, <1>5a DEF TrapFalls
  <2>4. /\ K2.n = K1.n /\ K2.mode = K1.mode /\ K2.due = K1.due
        /\ K2.ver = K1.ver /\ K2.vm = K1.vm /\ K2.ex = K1.ex
    BY <1>1, <1>4, <1>5a
  <2> QED
    BY <2>1, <2>2, <2>3, <2>4, <1>4, <1>9, <1>13, CoreTo
<1>16. Fit(z, K2)
  <2>1. K2.ex => Watch(z, K2, Cur(z))
    BY <1>11, <1>5a
  <2> QED
    BY <2>1, <1>9, <1>13, <1>15 DEF Fit
<1>17. /\ Fit(gpu', Context(gpu', due', n, mode, edges, ver, vmap, ex)) /\ gpu'.drawn = {}
       /\ ex => unlike' = unlike
  <2>1. Draws(z, d)
    BY DEF z, d
  <2> QED
    BY <2>1, <1>16, EndStep DEF K2
<1> QED
  BY <1>17 DEF Kept

\* The line after line x of a frame of M.
LEMMA NextLineIs ==
  ASSUME NEW M \in Nat \ {0}, NEW x \in 0..M - 1
  PROVE (x + 1) % M = IF x = M - 1 THEN 0 ELSE x + 1
<1>1. CASE x = M - 1
  <2>1. x + 1 = M
    BY <1>1
  <2>2. M % M = 0
    OBVIOUS
  <2> QED
    BY <2>1, <2>2, <1>1
<1>2. CASE x # M - 1
  <2>1. x + 1 \in 0..M - 1
    BY <1>2
  <2> QED
    BY <2>1, <1>2
<1> QED
  BY <1>1, <1>2

\* Moved on, field by field.
LEMMA MovedTyped ==
  ASSUME NEW g, Typed(g), NEW l \in 0..SCANLINES_PER_FRAME - 1, NEW b \in BOOLEAN
  PROVE MovedTo(g, l, b).line = l /\ MovedTo(g, l, b).hblank = b
BY DEF Typed, Members, MovedTo

\* The HBlank of any line.
LEMMA OnHblankKeeps ==
  ASSUME NEW ex \in BOOLEAN, Fit(gpu, Ktx(ex)), gpu.drawn = {}, Fits(gpu, ex), on_hblank
  PROVE Kept(ex)
<1>1. /\ ~gpu.hblank
      /\ edges' = edges /\ n' = n /\ mode' = mode /\ ver' = ver /\ vmap' = vmap
  BY DEF on_hblank
<1>2. Typed(gpu) /\ Ctx(Ktx(ex)) /\ Ktx(ex).edges = edges
  BY Given
<1>3. gpu.line \in 0..SCANLINES_PER_FRAME - 1 /\ gpu.line \in Nat /\ SCREEN_H \in Nat \ {0}
  BY <1>2, Types, LinesAssumption
<1>4. PICK b \in BOOLEAN : b = TRUE
  OBVIOUS
<1>5. CASE gpu.line < SCREEN_H
  <2>1. PICK parked \in BOOLEAN :
          Draws([DisplayLine(gpu, parked) EXCEPT !.hblank = TRUE], WithLine(gpu.line))
    BY <1>5 DEF on_hblank, WithLine
  <2>2. [DisplayLine(gpu, parked) EXCEPT !.hblank = TRUE] = HblankAt(DisplayLine(gpu, parked), b)
    BY <1>4 DEF HblankAt
  <2>3. Draws(HblankAt(DisplayLine(gpu, parked), b), WithLine(gpu.line))
    BY <2>1, <2>2
  <2> QED
    BY <2>3, <1>1, <1>4, <1>5, HblankLineKeeps
<1>6. CASE gpu.line >= SCREEN_H
  <2>1. Draws(latch(latch([gpu EXCEPT !.hblank = TRUE], 0), 1), due)
    BY <1>3, <1>6 DEF on_hblank
  <2> DEFINE g == MovedTo(gpu, gpu.line, b)
  <2>2. [gpu EXCEPT !.hblank = TRUE] = g
    BY <1>2, <1>4 DEF MovedTo, Typed, Members
  <2>3. Draws(latch(latch(g, 0), 1), due)
    BY <2>1, <2>2
  <2>4. g.line = gpu.line /\ g.hblank = b
    BY <1>2, <1>3, MovedTyped
  <2>5. /\ frontier(gpu) >= SCREEN_H /\ frontier(g) >= SCREEN_H
        /\ Now(g) >= Now(gpu)
    <3> HIDE DEF g
    <3> QED
      BY <2>4, <1>1, <1>3, <1>4, <1>6 DEF frontier, Now
  <2>6. edges \in [Engines -> Nat]
    BY <1>2 DEF Ctx
  <2> QED
    BY <2>3, <2>5, <2>6, <1>1, <1>3, BlankLatches
<1> QED
  BY <1>3, <1>5, <1>6

\* The start of any scanline.
LEMMA OnScanlineKeeps ==
  ASSUME NEW ex \in BOOLEAN, Fit(gpu, Ktx(ex)), gpu.drawn = {}, Fits(gpu, ex), on_scanline_start
  PROVE Kept(ex)
<1> DEFINE g0 == [gpu EXCEPT !.line = (@ + 1) % SCANLINES_PER_FRAME, !.hblank = FALSE]
           l == (gpu.line + 1) % SCANLINES_PER_FRAME
<1>1. /\ gpu.hblank
      /\ edges' = n /\ n' = n /\ mode' = mode /\ ver' = ver /\ vmap' = vmap
  BY DEF on_scanline_start
<1>2. Typed(gpu) /\ Ctx(Ktx(ex)) /\ Ktx(ex).n = n
  BY Given
<1>3. /\ gpu.line \in 0..SCANLINES_PER_FRAME - 1 /\ gpu.line \in Nat /\ SCREEN_H \in Nat \ {0}
      /\ SCANLINES_PER_FRAME \in Nat \ {0} /\ SCREEN_H + 1 < SCANLINES_PER_FRAME
  BY <1>2, Types, LinesAssumption
<1>4. PICK b \in BOOLEAN : b = FALSE
  OBVIOUS
<1>5. l = IF gpu.line = SCANLINES_PER_FRAME - 1 THEN 0 ELSE gpu.line + 1
  BY <1>3, NextLineIs
<1> HIDE DEF l
<1>6. l \in 0..SCANLINES_PER_FRAME - 1
  BY <1>3, <1>5
<1> DEFINE g == MovedTo(gpu, l, b)
<1>7. g0 = g
  BY <1>2, <1>4 DEF MovedTo, Typed, Members, l
<1>8. g.line = l /\ g.hblank = b
  BY <1>2, <1>6, MovedTyped
<1>9. \/ g.line = 0 /\ \E fifo \in BOOLEAN, futile \in SUBSET Engines :
                         Draws(begin_frame(join_worker(g), fifo, futile), due)
      \/ g.line \in 1..SCREEN_H - 1 /\ Draws(g, due)
      \/ g.line >= SCREEN_H /\ Draws(latch(latch(g, 0), 1), due)
  BY <1>7 DEF on_scanline_start
<1> HIDE DEF g0
<1>10. CASE g.line = 0 /\ \E fifo \in BOOLEAN, futile \in SUBSET Engines :
                            Draws(begin_frame(join_worker(g), fifo, futile), due)
  <2>1. l \in {0} /\ gpu.line = SCANLINES_PER_FRAME - 1
    BY <1>3, <1>5, <1>8, <1>10
  <2>2. PICK fifo \in BOOLEAN, futile \in SUBSET Engines :
          Draws(begin_frame(join_worker(g), fifo, futile), due)
    BY <1>10
  <2> QED
    BY <2>1, <2>2, <1>1, <1>4, NextFrameKeeps
<1>11. CASE g.line \in 1..SCREEN_H - 1 /\ Draws(g, due)
  <2>1. l \in 1..SCREEN_H - 1 /\ l = gpu.line + 1
    BY <1>3, <1>5, <1>8, <1>11
  <2> QED
    BY <2>1, <1>1, <1>4, <1>11, NextLineKeeps
<1>12. CASE g.line >= SCREEN_H /\ Draws(latch(latch(g, 0), 1), due)
  <2>1. l >= SCREEN_H /\ l = gpu.line + 1
    <3>1. l >= SCREEN_H
      BY <1>8, <1>12
    <3> HIDE DEF g
    <3> QED
      BY <3>1, <1>3, <1>5
  <2>2. /\ frontier(gpu) >= SCREEN_H /\ frontier(g) >= SCREEN_H
        /\ Now(g) >= Now(gpu)
    <3> HIDE DEF g
    <3> QED
      BY <2>1, <1>1, <1>3, <1>4, <1>8 DEF frontier, Now
  <2>3. n \in [Engines -> Nat]
    BY <1>2 DEF Ctx
  <2> QED
    BY <2>2, <2>3, <1>1, <1>6, <1>12, BlankLatches
<1> QED
  BY <1>9, <1>10, <1>11, <1>12

\* A write of engine e by a guest whose display mode is md.
WriteOf(e, md) == Entry(e, 1, IF e = 0 THEN md ELSE 1)

\* What it is.
LEMMA WriteOfIs ==
  ASSUME NEW K, Ctx(K), K.n = n, NEW e \in Engines, NEW md \in {1, 2}, NEW x, x = WriteOf(e, md),
         K.fall /\ e = 0 => md = 1 \/ K.mode = 2, K.lay /\ e = 0 => md = 1
  PROVE /\ NextWrite(K, e, x) /\ x.step = 1 /\ x.n = n[e] + 1
        /\ x.mode = IF e = 0 THEN md ELSE 1
<1>1. x = [stamp |-> 0, n |-> n[e] + 1, mode |-> IF e = 0 THEN md ELSE 1, step |-> 1]
  BY DEF WriteOf, Entry
<1>2. n[e] \in Nat
  BY DEF Ctx
<1>3. /\ x.n = n[e] + 1 /\ x.step = 1 /\ x.stamp = 0 /\ x.mode = IF e = 0 THEN md ELSE 1
  BY <1>1
<1>4. x \in JEntry
  BY <1>1, <1>2 DEF JEntry
<1>5. e = 1 => x.mode = 1
  BY <1>3
<1> QED
  BY <1>3, <1>4, <1>5 DEF NextWrite

\* A write that leaves the trap as it is.
LEMMA WritesKeep ==
  ASSUME NEW ex \in BOOLEAN, Fit(gpu, Ktx(ex)), gpu.drawn = {}, Fits(gpu, ex),
         NEW e \in Engines, NEW md \in {1, 2}, e = 1 => md = mode,
         ex /\ gpu.trap /\ 0 \in gpu.mask /\ e = 0 => md = 1 \/ mode = 2,
         ex /\ gpu.trap /\ 0 \in gpu.mask /\ ~gpu.lcdc /\ e = 0 => md = 1,
         NEW x, x = WriteOf(e, md), Draws(queue(gpu, e, x), due),
         NEW nn, nn = [n EXCEPT ![e] = @ + 1], n' = nn, mode' = md,
         edges' = edges, ver' = ver, vmap' = vmap
  PROVE Kept(ex)
<1> DEFINE K == Ktx(ex)
           K1 == Written(K, e, x)
           h == queue(gpu, e, x)
           K2 == Context(h, due, nn, md, edges, ver, vmap, ex)
<1>1. /\ Ctx(K) /\ Core(gpu, K, Cur(gpu)) /\ Frame(gpu) /\ (ex => Watch(gpu, K, Cur(gpu)))
      /\ K \in CtxMembers(due) /\ K.E = Scanned(gpu) /\ K.hi = Now(gpu)
      /\ K.due = due /\ K.n = n /\ K.mode = mode /\ K.edges = edges /\ K.ver = ver /\ K.vm = vmap
      /\ K.ex = ex /\ K.w = (ex /\ ~gpu.hblank /\ gpu.line < SCREEN_H)
      /\ K.fall = (ex /\ gpu.trap /\ 0 \in gpu.mask)
      /\ K.lay = (ex /\ gpu.trap /\ 0 \in gpu.mask /\ ~gpu.lcdc)
      /\ Typed(gpu)
  BY Given
<1> HIDE DEF K
<1>2. /\ NextWrite(K, e, x) /\ x.step = 1 /\ x.n = n[e] + 1
      /\ x.mode = IF e = 0 THEN md ELSE 1
  <2>1. K.fall /\ e = 0 => md = 1 \/ K.mode = 2
    BY <1>1
  <2>2. K.lay /\ e = 0 => md = 1
    BY <1>1
  <2> QED
    BY <2>1, <2>2, <1>1, WriteOfIs
<1>3. gpu.jn[e] < JOURNAL_CAP \/ (~gpu.deferred[e] /\ ~K.ex /\ ~K.w)
  BY <1>1 DEF Fits
<1>4. ex => gpu.jn[e] < JOURNAL_CAP
  BY DEF Fits
<1>5. /\ Core(h, K1, Cur(h)) /\ Frame(h) /\ Cur(h) = Cur(gpu)
      /\ SameFrame(gpu, h) /\ SameCounts(gpu, h) /\ h.finished = gpu.finished /\ h.trap = gpu.trap
      /\ gpu.jn[e] < JOURNAL_CAP \/ frontier(gpu) >= SCREEN_H =>
           /\ SameJobs(gpu, h) /\ SameFlight(gpu, h)
           /\ \A o \in Engines : o # e => h.jn[o] = gpu.jn[o]
  <2>1. K.w => ~gpu.hblank
    BY <1>1
  <2>2. K \in CtxMembers(K.due)
    BY <1>1
  <2>3. Top(gpu) => x.step = 1
    BY <1>2
  <2> QED
    BY <2>1, <2>2, <2>3, <1>1, <1>2, <1>3, QueueCore
<1>6. /\ Ctx(K1)
      /\ K1.n[e] = x.n /\ \A o \in Engines : o # e => K1.n[o] = K.n[o]
      /\ K1.E = K.E /\ K1.hi = K.hi /\ K1.due = K.due /\ K1.edges = K.edges /\ K1.ver = K.ver
      /\ K1.vm = K.vm /\ K1.ex = K.ex /\ K1.w = K.w /\ K1.fall = K.fall /\ K1.lay = K.lay
      /\ K1.mode = IF e = 0 THEN x.mode ELSE K.mode
  <2>1. K \in CtxMembers(K.due)
    BY <1>1
  <2> QED
    BY <2>1, <1>1, <1>2, WrittenIs
<1>7. K1.n = nn /\ K1.mode = md
  <2>1. K1.n \in [Engines -> Nat] /\ n \in [Engines -> Nat]
    BY <1>1, <1>6 DEF Ctx
  <2>2. \A o \in Engines : K1.n[o] = nn[o]
    BY <2>1, <1>1, <1>2, <1>6
  <2>3. K1.n = nn
    BY <2>1, <2>2
  <2>4. e = 0 \/ e = 1
    BY DEF Engines
  <2>5. K1.mode = md
    BY <2>4, <1>1, <1>2, <1>6
  <2> QED
    BY <2>3, <2>5
<1> HIDE DEF K1, h
<1>8. /\ K2.E = Scanned(h) /\ K2.hi = Now(h) /\ K2.due = due /\ K2.n = nn /\ K2.mode = md
      /\ K2.edges = edges /\ K2.ver = ver /\ K2.vm = vmap /\ K2.ex = ex
      /\ K2.w = (ex /\ ~h.hblank /\ h.line < SCREEN_H)
      /\ K2.fall = (ex /\ h.trap /\ 0 \in h.mask)
      /\ K2.lay = (ex /\ h.trap /\ 0 \in h.mask /\ ~h.lcdc)
  BY ContextIs
<1>9. Typed(h)
  BY <1>5 DEF Core, Base
<1>10. Ctx(K2)
  <2>1. due = [o \in Engines |-> [y \in DOMAIN due[o] |-> due[o][y]]]
    BY <1>1 DEF Ctx
  <2>2. nn = K1.n /\ md = K1.mode /\ edges = K1.edges /\ ver = K1.ver /\ vmap = K1.vm
    BY <1>1, <1>6, <1>7
  <2> QED
    BY <2>1, <2>2, <1>6, <1>9, ContextTyped
<1> HIDE DEF K2
<1>11. /\ h.line = gpu.line /\ h.hblank = gpu.hblank /\ h.mask = gpu.mask /\ h.lcdc = gpu.lcdc
       /\ h.lag = gpu.lag /\ h.lazy = gpu.lazy /\ h.per_line = gpu.per_line
  BY <1>5 DEF SameFrame
<1>12. /\ K2.E = K1.E /\ K2.hi = K1.hi /\ K2.n = K1.n /\ K2.mode = K1.mode /\ K2.due = K1.due
       /\ K2.ver = K1.ver /\ K2.vm = K1.vm /\ K2.ex = K1.ex
       /\ K2.w = K1.w /\ K2.edges = K1.edges /\ K2.fall = K1.fall /\ K2.lay = K1.lay
  <2>1. Scanned(h) = Scanned(gpu) /\ Now(h) = Now(gpu)
    BY <1>11 DEF Scanned, Now, frontier
  <2> QED
    BY <2>1, <1>1, <1>5, <1>6, <1>7, <1>8, <1>11
<1>13. Core(h, K2, Cur(h))
  BY <1>5, <1>12 DEF Core, Base, EngOk, Eng, Jrn, JobOk
<1>14. ex => Watch(h, K2, Cur(h))
  <2>1. SUFFICES ASSUME ex PROVE Watch(h, K2, Cur(h))
    OBVIOUS
  <2>2. /\ h.inflight = gpu.inflight /\ h.deferred = gpu.deferred /\ h.job_map = gpu.job_map
        /\ SameFlight(gpu, h)
    BY <2>1, <1>4, <1>5 DEF SameJobs
  <2>3. K2.E = K.E /\ K2.vm = K.vm
    BY <1>6, <1>12
  <2>4. Watch(gpu, K, Cur(gpu))
    BY <2>1, <1>1
  <2>5. Watch(h, K2, Cur(gpu))
    BY <2>2, <2>3, <2>4, <1>5, <1>11, WatchKept
  <2> QED
    BY <2>5, <1>5
<1>15. Fit(h, K2)
  <2>1. K2.ex => Watch(h, K2, Cur(h))
    BY <1>8, <1>14
  <2> QED
    BY <2>1, <1>5, <1>10, <1>13 DEF Fit
<1>16. /\ Fit(gpu', Context(gpu', due', nn, md, edges, ver, vmap, ex)) /\ gpu'.drawn = {}
       /\ ex => unlike' = unlike
  <2>1. Draws(h, due)
    BY DEF h
  <2> QED
    BY <2>1, <1>15, EndStep DEF K2
<1> QED
  BY <1>16 DEF Kept

\* A register, palette or OAM write.
LEMMA WriteKeeps ==
  ASSUME NEW ex \in BOOLEAN, Fit(gpu, Ktx(ex)), gpu.drawn = {}, Fits(gpu, ex),
         NEW e \in Engines, Write(e)
  PROVE Kept(ex)
<1> DEFINE nn == [n EXCEPT ![e] = @ + 1]
           x == WriteOf(e, mode)
<1>1. /\ n' = nn /\ Draws(queue(gpu, e, x), due)
      /\ mode' = mode /\ edges' = edges /\ ver' = ver /\ vmap' = vmap
  BY DEF Write, WriteOf
<1>2. /\ Ctx(Ktx(ex)) /\ Core(gpu, Ktx(ex), Cur(gpu)) /\ Ktx(ex).mode = mode
      /\ Ktx(ex).lay = (ex /\ gpu.trap /\ 0 \in gpu.mask /\ ~gpu.lcdc)
  BY Given
<1>3. mode \in {1, 2}
  BY <1>2 DEF Ctx
<1>4. ex /\ gpu.trap /\ 0 \in gpu.mask /\ ~gpu.lcdc => mode = 1
  BY <1>2, LayMode
<1>5. mode = 1 \/ mode = 2
  BY <1>3
<1> HIDE DEF nn, x
<1> QED
  BY <1>1, <1>3, <1>4, <1>5, WritesKeep DEF nn, x

\* The engines' lines are caught up with, and all are drawn one by one from here.
AllPerLine(g, parked, b) == arm_trap(PerLine(catch_up(g, Engines, parked), Engines, b))

\* What is left then.
AllPerLineDone(K, g, z) ==
  /\ Core(z, K, Cur(z)) /\ Frame(z) /\ \A e \in Engines : Cur(z)[e] = K.E
  /\ z.line = g.line /\ z.hblank = g.hblank /\ z.lag = g.lag /\ z.finished = g.finished
  /\ \A e \in Engines : z.per_line[e]
  /\ ArmedNow(z)
  /\ ~in_flight(g) /\ (g.stale => in_flight(g)) => ~z.stale /\ ~in_flight(z)
\* AllPerLine does so.
LEMMA AllPerLineIs ==
  ASSUME NEW K, Ctx(K), K.vm = vmap, K.ver = ver, NEW g, K.E = Scanned(g),
         Core(g, K, Cur(g)), Frame(g), NEW parked \in BOOLEAN, NEW b \in BOOLEAN
  PROVE AllPerLineDone(K, g, AllPerLine(g, parked, b))
<1> DEFINE h == catch_up(g, Engines, parked)
           y == PerLine(h, Engines, b)
           z == arm_trap(y)
<1>1. /\ Core(h, K, Cur(h)) /\ Frame(h)
      /\ SameFrame(g, h) /\ h.stores = g.stores /\ h.left = g.left /\ h.bursts = g.bursts
      /\ h.finished = g.finished /\ h.trap = g.trap
      /\ \A e \in Engines : IF e \in Engines THEN Cur(h)[e] = K.E ELSE Cur(h)[e] = Cur(g)[e]
      /\ h = g \/ /\ ~Top(g) /\ frontier(g) < SCREEN_H /\ ~in_flight(h)
                  /\ \A e \in Engines : ~h.inflight[e]
                  /\ (g.stale => in_flight(g)) => ~h.stale
  <2>1. Engines \in SUBSET Engines
    OBVIOUS
  <2>2. CaughtUp(g, K, Engines, parked)
    BY <2>1, CatchUp
  <2> QED
    BY <2>2 DEF CaughtUp
<1> HIDE DEF h
<1>2. Typed(h) /\ \A e \in Engines : h.burst[e] => h.per_line[e]
  BY <1>1 DEF Core, Base, EngOk, JobOk
<1>3. /\ Typed(y) /\ SameJobs(h, y) /\ SameData(h, y) /\ SameFlight(h, y) /\ SameEnd(h, y)
      /\ y.line = h.line /\ y.hblank = h.hblank /\ y.lazy = h.lazy /\ y.lag = h.lag
      /\ y.mask = h.mask /\ y.lcdc = h.lcdc /\ y.next = h.next /\ y.bursts = h.bursts
      /\ y.stores = h.stores
      /\ \A e \in Engines : /\ y.per_line[e] <=> e \in Engines \/ h.per_line[e]
                            /\ y.burst[e] => y.per_line[e]
  <2>1. Engines \in SUBSET Engines
    OBVIOUS
  <2> QED
    BY <2>1, <1>2, PerLineIs
<1> HIDE DEF y
<1>4. /\ Typed(z) /\ SameJobs(y, z) /\ SameData(y, z) /\ SameFlight(y, z) /\ SameCounts(y, z)
      /\ z.line = y.line /\ z.hblank = y.hblank /\ z.lazy = y.lazy /\ z.lag = y.lag
      /\ z.per_line = y.per_line /\ z.burst = y.burst
      /\ z.finished = y.finished /\ z.aborted = y.aborted /\ z.jn = y.jn
      /\ z.trap <=> MaskOf(y) # {}
      /\ z.trap => z.mask = MaskOf(y) /\ (z.lcdc <=> 0 \in MaskOf(y) /\ y.eng[0].mode = 2)
  BY <1>3, ArmIs
<1>5. AllPerLine(g, parked, b) = z
  BY DEF AllPerLine, y, h
<1> HIDE DEF z
<1>6. SameJobs(h, z) /\ SameData(h, z) /\ SameFlight(h, z)
  BY <1>3, <1>4 DEF SameJobs, SameData, SameFlight
<1>7. /\ z.line = h.line /\ z.hblank = h.hblank /\ z.lazy = h.lazy /\ z.lag = h.lag
      /\ z.finished = h.finished /\ z.aborted = h.aborted /\ z.jn = h.jn /\ z.next = h.next
      /\ \A e \in Engines : z.per_line[e] /\ (z.burst[e] => z.per_line[e])
  BY <1>3, <1>4 DEF SameEnd, SameCounts
<1>8. Frame(z) /\ Cur(z) = Cur(h)
  <2>1. z.journal = h.journal /\ z.eng = h.eng
    BY <1>6 DEF SameData
  <2> QED
    BY <2>1, <1>1, <1>6, <1>7, FrameKept
<1>9. Core(z, K, Cur(z))
  <2>1. ~z.aborted
    BY <1>1, <1>7 DEF Core, Base
  <2> QED
    BY <2>1, <1>1, <1>4, <1>6, <1>7, <1>8, CoreKept
<1>10. ArmedNow(z)
  <2>1. MaskOf(z) = MaskOf(y) /\ z.eng = y.eng
    BY <1>4 DEF MaskOf, SameData
  <2> QED
    BY <2>1, <1>4 DEF ArmedNow
<1>11. z.line = g.line /\ z.hblank = g.hblank /\ z.lag = g.lag /\ z.finished = g.finished
  BY <1>1, <1>7 DEF SameFrame
<1>12. \A e \in Engines : Cur(z)[e] = K.E
  BY <1>1, <1>8
<1>13. ~in_flight(g) /\ (g.stale => in_flight(g)) => ~z.stale /\ ~in_flight(z)
  <2>1. SUFFICES ASSUME ~in_flight(g), g.stale => in_flight(g)
        PROVE ~z.stale /\ ~in_flight(z)
    OBVIOUS
  <2>2. ~h.stale /\ ~in_flight(h)
    BY <2>1, <1>1
  <2> QED
    BY <2>2, <1>6 DEF SameJobs, SameFlight, in_flight
<1> QED
  BY <1>5, <1>7, <1>8, <1>9, <1>10, <1>11, <1>12, <1>13 DEF AllPerLineDone

\* Quiet: nothing is in flight, and it is not for the trap to draw late.
LEMMA QuietIs ==
  ASSUME NEW K, NEW g, Typed(g), Frame(g), Watch(g, K, Cur(g)), Quiet(g), Core(g, K, Cur(g))
  PROVE /\ ~in_flight(g) /\ (g.trap /\ 0 \in g.mask => ~g.lcdc)
        /\ g.trap => ~g.lag /\ ~g.finished /\ g.line < SCREEN_H
<1>1. ~in_flight(g) /\ (g.line < SCREEN_H => ~g.lag /\ ~(g.trap /\ g.lcdc))
  <2>1. g.line \in Nat /\ SCREEN_H \in Nat
    BY Types, LinesAssumption
  <2> QED
    BY <2>1 DEF Quiet
<1>2. ASSUME g.trap PROVE ~g.finished /\ g.line < SCREEN_H
  <2>1. ~g.finished
    <3>1. SUFFICES ASSUME g.finished PROVE FALSE
      OBVIOUS
    <3>2. 0 \in Engines
      BY DEF Engines
    <3>3. g.deferred[0]
      BY <3>1, <1>2 DEF Watch, Armed
    <3>4. g.inflight[0]
      BY <3>2, <3>3 DEF Core, EngOk, JobOk
    <3> QED
      BY <3>4, <1>1 DEF in_flight
  <2>2. g.line < SCREEN_H
    <3>1. g.line \in Nat /\ SCREEN_H \in Nat /\ frontier(g) \in Nat /\ g.line <= frontier(g)
      BY Types, LinesAssumption DEF frontier
    <3>2. ~(frontier(g) >= SCREEN_H)
      BY <2>1 DEF Frame
    <3> QED
      BY <3>1, <3>2
  <2> QED
    BY <2>1, <2>2
<1> QED
  BY <1>1, <1>2

\* A context that says nothing of engine A's display modes, f being FALSE.
Loose(K, f) == [K EXCEPT !.fall = f, !.lay = f]

\* It asks for less.
LEMMA LooseIs ==
  ASSUME NEW K, Ctx(K), K \in CtxMembers(K.due), NEW f \in BOOLEAN, ~f
  PROVE LET K0 == Loose(K, f)
        IN /\ Ctx(K0) /\ K0 \in CtxMembers(K0.due)
           /\ K0.E = K.E /\ K0.hi = K.hi /\ K0.n = K.n /\ K0.mode = K.mode /\ K0.due = K.due
           /\ K0.edges = K.edges /\ K0.ver = K.ver /\ K0.vm = K.vm /\ K0.ex = K.ex /\ K0.w = K.w
           /\ ~K0.fall /\ ~K0.lay
           /\ \A g, c : Core(g, K, c) => Core(g, K0, c)
<1> DEFINE K0 == Loose(K, f)
<1>1. /\ K0.E = K.E /\ K0.hi = K.hi /\ K0.n = K.n /\ K0.mode = K.mode /\ K0.due = K.due
      /\ K0.edges = K.edges /\ K0.ver = K.ver /\ K0.vm = K.vm /\ K0.ex = K.ex /\ K0.w = K.w
      /\ K0.fall = f /\ K0.lay = f
  BY DEF Loose, CtxMembers
<1>2. K0 \in CtxMembers(K0.due)
  <2>1. K0 \in CtxMembers(K.due)
    BY DEF Loose, CtxMembers
  <2> QED
    BY <2>1, <1>1
<1> HIDE DEF K0
<1>3. Ctx(K0)
  <2>1. {K0.ex, K0.w, K0.fall, K0.lay} \subseteq BOOLEAN
    BY <1>1 DEF Ctx
  <2> QED
    BY <2>1, <1>1 DEF Ctx
<1>4. ASSUME NEW g, NEW c, Core(g, K, c)
      PROVE Core(g, K0, c)
  <2>1. K0.w => \A e \in Engines : AtN(g.eng[e], g.journal[e], 2 * K0.E) = K0.edges[e]
    BY <1>1, <1>4 DEF Core, EngOk, Eng
  <2>2. K.hi >= K.hi
    BY DEF Ctx
  <2> QED
    BY <2>1, <2>2, <1>1, <1>3, <1>4, CoreTo
<1> QED
  BY <1>1, <1>2, <1>3, <1>4 DEF K0

\* What a write leaves, as a context without display modes sees it.
LooseWrite(K0, g, e, x) ==
  LET h == queue(g, e, x)
  IN /\ Core(h, Written(K0, e, x), Cur(h)) /\ Frame(h) /\ SameFrame(g, h)
     /\ h.finished = g.finished /\ h.trap = g.trap
     /\ K0.ex => SameJobs(g, h) /\ SameFlight(g, h)

\* The write of DISPCNT is one such.
LEMMA LooseWriteIs ==
  ASSUME NEW ex \in BOOLEAN, Fit(gpu, Ktx(ex)), Fits(gpu, ex), NEW f \in BOOLEAN, ~f,
         NEW e \in Engines, NEW md \in {1, 2}, NEW x, x = WriteOf(e, md), NEW K0, K0 = Loose(Ktx(ex), f)
  PROVE LooseWrite(K0, gpu, e, x) /\ NextWrite(K0, e, x)
<1> DEFINE K == Ktx(ex)
           h == queue(gpu, e, x)
<1>1. /\ Ctx(K) /\ Core(gpu, K, Cur(gpu)) /\ Frame(gpu)
      /\ K \in CtxMembers(due) /\ K.E = Scanned(gpu) /\ K.hi = Now(gpu)
      /\ K.due = due /\ K.n = n /\ K.mode = mode /\ K.edges = edges /\ K.ver = ver /\ K.vm = vmap
      /\ K.ex = ex /\ K.w = (ex /\ ~gpu.hblank /\ gpu.line < SCREEN_H)
  BY Given
<1> HIDE DEF K
<1>2. /\ Ctx(K0) /\ K0 \in CtxMembers(K0.due)
      /\ K0.E = K.E /\ K0.hi = K.hi /\ K0.n = K.n /\ K0.mode = K.mode /\ K0.due = K.due
      /\ K0.edges = K.edges /\ K0.ver = K.ver /\ K0.vm = K.vm /\ K0.ex = K.ex /\ K0.w = K.w
      /\ ~K0.fall /\ ~K0.lay
      /\ \A g, c : Core(g, K, c) => Core(g, K0, c)
  <2>1. K \in CtxMembers(K.due) /\ K0 = Loose(K, f)
    BY <1>1 DEF K
  <2> QED
    BY <2>1, <1>1, LooseIs
<1>3. NextWrite(K0, e, x) /\ x.step = 1
  <2>1. K0.n = n
    BY <1>1, <1>2
  <2> QED
    BY <2>1, <1>2, WriteOfIs
<1>4. /\ Core(h, Written(K0, e, x), Cur(h)) /\ Frame(h) /\ Cur(h) = Cur(gpu)
      /\ SameFrame(gpu, h) /\ SameCounts(gpu, h) /\ h.finished = gpu.finished /\ h.trap = gpu.trap
      /\ gpu.jn[e] < JOURNAL_CAP \/ frontier(gpu) >= SCREEN_H =>
           /\ SameJobs(gpu, h) /\ SameFlight(gpu, h)
           /\ \A o \in Engines : o # e => h.jn[o] = gpu.jn[o]
  <2>1. K0.w => ~gpu.hblank
    BY <1>1, <1>2
  <2>2. gpu.jn[e] < JOURNAL_CAP \/ (~gpu.deferred[e] /\ ~K0.ex /\ ~K0.w)
    BY <1>1, <1>2 DEF Fits
  <2>3. /\ K0.vm = vmap /\ K0.ver = ver /\ K0.E = Scanned(gpu) /\ K0.hi = Now(gpu)
        /\ Core(gpu, K0, Cur(gpu)) /\ (Top(gpu) => x.step = 1)
    BY <1>1, <1>2, <1>3
  <2> QED
    BY <2>1, <2>2, <2>3, <1>1, <1>2, <1>3, QueueCore
<1>5. K0.ex => gpu.jn[e] < JOURNAL_CAP
  BY <1>1, <1>2 DEF Fits
<1> HIDE DEF h
<1>6. K0.ex => SameJobs(gpu, h) /\ SameFlight(gpu, h)
  BY <1>4, <1>5
<1> QED
  BY <1>3, <1>4, <1>6 DEF LooseWrite, h

\* Engine A goes to a VRAM display mode while trapped as showing layers: both
\* engines are drawn line by line from here.
LEMMA FallBackKeeps ==
  ASSUME NEW ex \in BOOLEAN, Fit(gpu, Ktx(ex)), gpu.drawn = {}, Fits(gpu, ex),
         gpu.trap, ex => Quiet(gpu),
         NEW md \in {1, 2}, NEW x, x = WriteOf(0, md), NEW parked \in BOOLEAN, NEW b \in BOOLEAN, ~b,
         Draws(AllPerLine(queue(gpu, 0, x), parked, b), due),
         NEW nn, nn = [n EXCEPT ![0] = @ + 1], n' = nn, mode' = md,
         edges' = edges, ver' = ver, vmap' = vmap
  PROVE Kept(ex)
<1> DEFINE K == Ktx(ex)
           K0 == Loose(K, b)
           K1 == Written(K0, 0, x)
           g == queue(gpu, 0, x)
           z == AllPerLine(g, parked, b)
           K2 == Context(z, due, nn, md, edges, ver, vmap, ex)
<1>1. /\ Ctx(K) /\ Core(gpu, K, Cur(gpu)) /\ Frame(gpu) /\ (ex => Watch(gpu, K, Cur(gpu)))
      /\ K \in CtxMembers(due) /\ K.E = Scanned(gpu) /\ K.hi = Now(gpu)
      /\ K.due = due /\ K.n = n /\ K.mode = mode /\ K.edges = edges /\ K.ver = ver /\ K.vm = vmap
      /\ K.ex = ex /\ K.w = (ex /\ ~gpu.hblank /\ gpu.line < SCREEN_H)
      /\ Typed(gpu)
  BY Given
<1>2. LooseWrite(K0, gpu, 0, x) /\ NextWrite(K0, 0, x)
  <2>1. 0 \in Engines
    BY DEF Engines
  <2> QED
    BY <2>1, LooseWriteIs
<1> HIDE DEF K
<1>3. /\ Ctx(K0) /\ K0 \in CtxMembers(K0.due)
      /\ K0.E = K.E /\ K0.hi = K.hi /\ K0.n = K.n /\ K0.mode = K.mode /\ K0.due = K.due
      /\ K0.edges = K.edges /\ K0.ver = K.ver /\ K0.vm = K.vm /\ K0.ex = K.ex /\ K0.w = K.w
      /\ ~K0.fall /\ ~K0.lay
  <2>1. K \in CtxMembers(K.due)
    BY <1>1
  <2> QED
    BY <2>1, <1>1, LooseIs
<1> HIDE DEF K0
<1>4. /\ Core(g, K1, Cur(g)) /\ Frame(g) /\ SameFrame(gpu, g)
      /\ g.finished = gpu.finished /\ g.trap = gpu.trap
      /\ K0.ex => SameJobs(gpu, g) /\ SameFlight(gpu, g)
  BY <1>2 DEF LooseWrite
<1>5. /\ Ctx(K1)
      /\ K1.n[0] = x.n /\ \A o \in Engines : o # 0 => K1.n[o] = K0.n[o]
      /\ K1.E = K0.E /\ K1.hi = K0.hi /\ K1.due = K0.due /\ K1.edges = K0.edges /\ K1.ver = K0.ver
      /\ K1.vm = K0.vm /\ K1.ex = K0.ex /\ K1.w = K0.w /\ K1.fall = K0.fall /\ K1.lay = K0.lay
      /\ K1.mode = x.mode
  <2>1. PICK e \in Engines : e = 0
    BY DEF Engines
  <2> DEFINE L == Written(K0, e, x)
  <2>2. /\ Ctx(L) /\ L \in CtxMembers(L.due)
        /\ L.n[e] = x.n /\ \A o \in Engines : o # e => L.n[o] = K0.n[o]
        /\ Md(e, L.mode) = x.mode /\ \A o \in Engines : o # e => Md(o, L.mode) = Md(o, K0.mode)
        /\ L.E = K0.E /\ L.hi = K0.hi /\ L.due = K0.due /\ L.edges = K0.edges /\ L.ver = K0.ver
        /\ L.vm = K0.vm /\ L.ex = K0.ex /\ L.w = K0.w /\ L.fall = K0.fall /\ L.lay = K0.lay
        /\ L.mode = IF e = 0 THEN x.mode ELSE K0.mode
    <3>1. NextWrite(K0, e, x)
      BY <2>1, <1>2
    <3> QED
      BY <3>1, <1>3, WrittenIs
  <2>3. K1 = L
    BY <2>1
  <2> HIDE DEF L, K1
  <2> QED
    BY <2>1, <2>2, <2>3
<1>6. x.n = n[0] + 1 /\ x.mode = md
  BY DEF WriteOf, Entry
<1>7. K1.n = nn /\ K1.mode = md
  <2>1. K1.n \in [Engines -> Nat] /\ n \in [Engines -> Nat]
    BY <1>1, <1>5 DEF Ctx
  <2> HIDE DEF K1
  <2>2. \A o \in Engines : K1.n[o] = nn[o]
    BY <2>1, <1>1, <1>3, <1>5, <1>6
  <2>3. K1.n = nn
    BY <2>1, <2>2
  <2> QED
    BY <2>3, <1>5, <1>6
<1> HIDE DEF K1, g
<1>8. g.line = gpu.line /\ g.hblank = gpu.hblank /\ g.lag = gpu.lag
  BY <1>4 DEF SameFrame
<1>9. /\ Core(z, K1, Cur(z)) /\ Frame(z) /\ \A e \in Engines : Cur(z)[e] = K1.E
      /\ z.line = g.line /\ z.hblank = g.hblank /\ z.lag = g.lag /\ z.finished = g.finished
      /\ \A e \in Engines : z.per_line[e]
      /\ ArmedNow(z)
      /\ ~in_flight(g) /\ (g.stale => in_flight(g)) => ~z.stale /\ ~in_flight(z)
  <2>1. K1.vm = vmap /\ K1.ver = ver /\ K1.E = Scanned(g)
    BY <1>1, <1>3, <1>5, <1>8 DEF Scanned, frontier
  <2>2. Core(g, K1, Cur(g)) /\ Frame(g) /\ Ctx(K1)
    BY <1>4, <1>5
  <2>3. AllPerLineDone(K1, g, z)
    BY <2>1, <2>2, AllPerLineIs
  <2> HIDE DEF z
  <2> QED
    BY <2>3 DEF AllPerLineDone
<1> HIDE DEF z
<1>10. /\ K2.E = Scanned(z) /\ K2.hi = Now(z) /\ K2.due = due /\ K2.n = nn /\ K2.mode = md
       /\ K2.edges = edges /\ K2.ver = ver /\ K2.vm = vmap /\ K2.ex = ex
       /\ K2.w = (ex /\ ~z.hblank /\ z.line < SCREEN_H)
       /\ K2.fall = (ex /\ z.trap /\ 0 \in z.mask)
       /\ K2.lay = (ex /\ z.trap /\ 0 \in z.mask /\ ~z.lcdc)
  BY ContextIs
<1>11. Typed(z)
  BY <1>9 DEF Core, Base
<1>12. Ctx(K2)
  <2>1. due = [o \in Engines |-> [y \in DOMAIN due[o] |-> due[o][y]]]
    BY <1>1 DEF Ctx
  <2>2. nn = K1.n /\ md = K1.mode /\ edges = K1.edges /\ ver = K1.ver /\ vmap = K1.vm
    BY <1>1, <1>3, <1>5, <1>7
  <2>3. Ctx(K1)
    BY <1>5
  <2> QED
    BY <2>1, <2>2, <2>3, <1>11, ContextTyped
<1> HIDE DEF K2
<1>13. /\ K2.E = K1.E /\ K2.hi = K1.hi /\ K2.n = K1.n /\ K2.mode = K1.mode /\ K2.due = K1.due
       /\ K2.ver = K1.ver /\ K2.vm = K1.vm /\ K2.ex = K1.ex /\ K2.w = K1.w /\ K2.edges = K1.edges
  <2>1. Scanned(z) = Scanned(gpu) /\ Now(z) = Now(gpu)
    BY <1>8, <1>9 DEF Scanned, Now, frontier
  <2> QED
    BY <2>1, <1>1, <1>3, <1>5, <1>7, <1>8, <1>9, <1>10
<1>14. ex => ~z.trap /\ Watch(z, K2, Cur(z))
  <2>1. SUFFICES ASSUME ex PROVE ~z.trap /\ Watch(z, K2, Cur(z))
    OBVIOUS
  <2>2. Watch(gpu, K, Cur(gpu))
    BY <2>1, <1>1
  <2>3. ~in_flight(gpu) /\ ~gpu.lag /\ ~gpu.finished
    BY <2>1, <2>2, <1>1, QuietIs
  <2>4. ~in_flight(g) /\ (g.stale => in_flight(g))
    <3>1. SameJobs(gpu, g) /\ SameFlight(gpu, g)
      BY <2>1, <1>1, <1>3, <1>4
    <3>2. gpu.stale => in_flight(gpu)
      BY <2>2 DEF Watch
    <3> QED
      BY <3>1, <3>2, <2>3 DEF SameJobs, SameFlight, in_flight
  <2>5. ~z.stale /\ ~in_flight(z)
    BY <2>4, <1>9
  <2>6. \A e \in Engines : ~z.inflight[e] /\ ~z.deferred[e]
    <3>1. \A e \in Engines : ~z.inflight[e]
      BY <2>5 DEF in_flight, Engines
    <3> QED
      BY <3>1, <1>9 DEF Core, EngOk, JobOk
  <2>7. MaskOf(z) = {}
    BY <2>3, <1>8, <1>9 DEF MaskOf
  <2>8. ~z.trap
    BY <2>7, <1>9 DEF ArmedNow
  <2>9. Armed(z)
    BY <2>6, <2>7, <2>8 DEF Armed
  <2>10. Batching(z, K2, Cur(z))
    <3>1. \A e \in Engines : Cur(z)[e] = K2.E
      BY <1>9, <1>13
    <3>2. K2.E \in Nat
      BY <1>12, LinesAssumption DEF Ctx
    <3> QED
      BY <3>1, <3>2 DEF Batching
  <2>11. JobMap(z, K2.vm)
    BY <2>6 DEF JobMap
  <2> QED
    BY <2>5, <2>8, <2>9, <2>10, <2>11 DEF Watch
<1>15. Core(z, K2, Cur(z))
  <2>1. K2.w => \A e \in Engines : AtN(z.eng[e], z.journal[e], 2 * K2.E) = K2.edges[e]
    BY <1>9, <1>13 DEF Core, EngOk, Eng
  <2>2. ~K2.fall /\ ~K2.lay
    BY <1>10, <1>14
  <2>3. K2.hi >= K1.hi
    BY <1>5, <1>13 DEF Ctx
  <2> QED
    BY <2>1, <2>2, <2>3, <1>5, <1>9, <1>12, <1>13, CoreTo
<1>16. Fit(z, K2)
  <2>1. K2.ex => Watch(z, K2, Cur(z))
    BY <1>10, <1>14
  <2> QED
    BY <2>1, <1>9, <1>12, <1>15 DEF Fit
<1>17. /\ Fit(gpu', Context(gpu', due', nn, md, edges, ver, vmap, ex)) /\ gpu'.drawn = {}
       /\ ex => unlike' = unlike
  <2>1. Draws(z, due)
    BY DEF z, g
  <2> QED
    BY <2>1, <1>16, EndStep DEF K2
<1> QED
  BY <1>17 DEF Kept

\* A write of engine A's DISPCNT with another display mode.
LEMMA WriteDispcntKeeps ==
  ASSUME NEW ex \in BOOLEAN, Fit(gpu, Ktx(ex)), gpu.drawn = {}, Fits(gpu, ex), ex => ~Abrupt,
         WriteDispcnt
  PROVE Kept(ex)
<1> DEFINE nn == [n EXCEPT ![0] = @ + 1]
           md == 3 - mode
           x == WriteOf(0, md)
           g == queue(gpu, 0, x)
<1>1. /\ Ctx(Ktx(ex)) /\ Core(gpu, Ktx(ex), Cur(gpu)) /\ Frame(gpu) /\ Ktx(ex).mode = mode
      /\ (ex => Watch(gpu, Ktx(ex), Cur(gpu))) /\ Typed(gpu)
  BY Given
<1>2. md \in {1, 2} /\ (md = 2 => mode = 1)
  BY <1>1 DEF Ctx
<1>3. PICK b \in BOOLEAN : b = FALSE
  OBVIOUS
<1>4. /\ n' = nn /\ mode' = md /\ edges' = edges /\ ver' = ver /\ vmap' = vmap
      /\ Abrupt \/ mode = 2 \/ Quiet(gpu)
  BY DEF WriteDispcnt
<1>5. PICK parked \in BOOLEAN :
        Draws(IF g.trap /\ ~g.lcdc /\ md = 2 THEN AllPerLine(g, parked, b) ELSE g, due)
  BY <1>3, <1>4 DEF WriteDispcnt, AllPerLine, fall_back_per_line, WriteOf
<1>6. g.trap = gpu.trap /\ g.lcdc = gpu.lcdc
  <2>1. 0 \in Engines
    BY DEF Engines
  <2>2. LooseWrite(Loose(Ktx(ex), b), gpu, 0, x)
    <3> HIDE DEF md
    <3> QED
      BY <2>1, <1>2, <1>3, LooseWriteIs
  <2> QED
    BY <2>2 DEF LooseWrite, SameFrame
<1> HIDE DEF nn, md
<1>7. ex /\ md = 2 => Quiet(gpu)
  BY <1>2, <1>4, FlagsAssumption
<1>8. CASE g.trap /\ ~g.lcdc /\ md = 2
  <2>1. Draws(AllPerLine(g, parked, b), due)
    BY <1>5, <1>8
  <2>2. gpu.trap
    BY <1>6, <1>8
  <2>3. nn = [n EXCEPT ![0] = @ + 1]
    BY DEF nn
  <2> QED
    BY <2>1, <2>2, <2>3, <1>2, <1>3, <1>4, <1>7, <1>8, FallBackKeeps
<1>9. CASE ~(g.trap /\ ~g.lcdc /\ md = 2)
  <2>1. Draws(g, due)
    BY <1>5, <1>9
  <2>2. 0 \in Engines
    BY DEF Engines
  <2>3. ex /\ gpu.trap /\ 0 \in gpu.mask => md = 1
    <3>1. SUFFICES ASSUME ex, gpu.trap, 0 \in gpu.mask, md = 2 PROVE FALSE
      BY <1>2
    <3>2. ~gpu.lcdc
      BY <3>1, <1>1, <1>7, QuietIs
    <3> QED
      BY <3>1, <3>2, <1>6, <1>9
  <2>4. nn = [n EXCEPT ![0] = @ + 1]
    BY DEF nn
  <2> QED
    BY <2>1, <2>2, <2>3, <2>4, <1>2, <1>4, WritesKeep
<1> QED
  BY <1>8, <1>9

-----------------------------------------------------------------------------
(* The guest's stores and its VRAM maps.                                   *)

\* Lines that are still to be drawn are drawn alike of the versions vr2 and
\* with the live map vm2.
Alike(g, K, c, vm2, vr2) ==
  \A e \in Engines : \A x \in PosOf(g, c, e)..K.E - 1 :
    LET md == AtMode(g.eng[e], g.journal[e], 2 * x + 1)
    IN View2(e, md, MapAt(g.job_map[e], x, c[e], vm2), vr2)
         = View2(e, md, MapAt(g.job_map[e], x, c[e], K.vm), K.ver)

\* The context may go to another live map and to other versions then.
LEMMA CoreSee ==
  ASSUME NEW K, Ctx(K), NEW K2, Ctx(K2), NEW g, NEW c, Core(g, K, c),
         K2.E = K.E, K2.hi = K.hi, K2.n = K.n, K2.mode = K.mode, K2.due = K.due, K2.ex = K.ex,
         K2.w = K.w, K2.edges = K.edges, K2.fall = K.fall, K2.lay = K.lay,
         K.ex => Alike(g, K, c, K2.vm, K2.ver)
  PROVE Core(g, K2, c)
<1>1. ASSUME NEW e \in Engines
      PROVE EngOk(g, K2, c, e)
  <2> DEFINE r == g.eng[e]
             j == g.journal[e]
             jm == g.job_map[e]
             p == PosOf(g, c, e)
  <2>1. JobOk(g, c, e) /\ Eng(r, j, jm, DrawnOf(g, e), e, p, c[e], K)
    BY DEF Core, EngOk
  <2>2. ASSUME K.ex, NEW x \in p..K.E - 1
        PROVE K.due[e][x] = PicOf(r, j, e, x, MapAt(jm, x, c[e], K2.vm), K2.ver)
    <3>1. K.due[e][x] = PicOf(r, j, e, x, MapAt(jm, x, c[e], K.vm), K.ver)
      BY <2>1, <2>2 DEF Eng
    <3>2. View2(e, AtMode(r, j, 2 * x + 1), MapAt(jm, x, c[e], K2.vm), K2.ver)
            = View2(e, AtMode(r, j, 2 * x + 1), MapAt(jm, x, c[e], K.vm), K.ver)
      BY <2>2 DEF Alike
    <3> QED
      BY <3>1, <3>2 DEF PicOf
  <2> HIDE DEF r, j, jm, p
  <2>3. Eng(r, j, jm, DrawnOf(g, e), e, p, c[e], K2)
    BY <2>1, <2>2 DEF Eng
  <2> QED
    BY <2>1, <2>3 DEF EngOk, r, j, jm, p
<1>2. Base(g, K2, c)
  BY DEF Core, Base
<1> QED
  BY <1>1, <1>2 DEF Core

\* The end of a step of the guest's that leaves the registers alone.
LEMMA SeenEnd ==
  ASSUME NEW ex \in BOOLEAN, Fit(gpu, Ktx(ex)), gpu.drawn = {},
         NEW z, Core(z, Ktx(ex), Cur(z)), Frame(z), z.line = gpu.line, z.hblank = gpu.hblank,
         NEW vm2 \in [Banks -> Places], NEW vr2 \in [Banks -> Nat],
         ex => TrapFalls(z), ex => Alike(z, Ktx(ex), Cur(z), vm2, vr2),
         NEW L, L.E = Scanned(gpu), L.vm = vm2, ex => Watch(z, L, Cur(z)),
         Draws(z, due), n' = n, mode' = mode, edges' = edges, ver' = vr2, vmap' = vm2
  PROVE Kept(ex)
<1> DEFINE K == Ktx(ex)
           K1 == Context(z, due, n, mode, edges, ver, vmap, ex)
           K2 == Context(z, due, n, mode, edges, vr2, vm2, ex)
<1>1. /\ Ctx(K) /\ Core(gpu, K, Cur(gpu)) /\ Frame(gpu) /\ (ex => Watch(gpu, K, Cur(gpu)))
      /\ K \in CtxMembers(due) /\ K.E = Scanned(gpu) /\ K.hi = Now(gpu)
      /\ K.due = due /\ K.n = n /\ K.mode = mode /\ K.edges = edges /\ K.ver = ver /\ K.vm = vmap
      /\ K.ex = ex /\ K.w = (ex /\ ~gpu.hblank /\ gpu.line < SCREEN_H)
  BY Given
<1> HIDE DEF K
<1>2. /\ K1.E = Scanned(z) /\ K1.hi = Now(z) /\ K1.due = due /\ K1.n = n /\ K1.mode = mode
      /\ K1.edges = edges /\ K1.ver = ver /\ K1.vm = vmap /\ K1.ex = ex
      /\ K1.w = (ex /\ ~z.hblank /\ z.line < SCREEN_H)
      /\ K1.fall = (ex /\ z.trap /\ 0 \in z.mask)
      /\ K1.lay = (ex /\ z.trap /\ 0 \in z.mask /\ ~z.lcdc)
  BY ContextIs
<1>3. /\ K2.E = Scanned(z) /\ K2.hi = Now(z) /\ K2.due = due /\ K2.n = n /\ K2.mode = mode
      /\ K2.edges = edges /\ K2.ver = vr2 /\ K2.vm = vm2 /\ K2.ex = ex
      /\ K2.w = (ex /\ ~z.hblank /\ z.line < SCREEN_H)
      /\ K2.fall = (ex /\ z.trap /\ 0 \in z.mask)
      /\ K2.lay = (ex /\ z.trap /\ 0 \in z.mask /\ ~z.lcdc)
  BY ContextIs
<1>4. Scanned(z) = Scanned(gpu) /\ Now(z) = Now(gpu)
  BY DEF Scanned, Now, frontier
<1>5. Typed(z)
  BY <1>1 DEF Core, Base, K
<1>6. due = [o \in Engines |-> [y \in DOMAIN due[o] |-> due[o][y]]]
  BY <1>1 DEF Ctx
<1>7. Ctx(K1)
  <2>1. n = K.n /\ mode = K.mode /\ edges = K.edges /\ ver = K.ver /\ vmap = K.vm
    BY <1>1
  <2>2. Ctx(K)
    BY <1>1
  <2> QED
    BY <2>1, <2>2, <1>5, <1>6, ContextTyped
<1> HIDE DEF K1, K2
<1>8. Ctx(K2)
  BY <1>2, <1>3, <1>7 DEF Ctx
<1>9. Core(z, K1, Cur(z))
  <2>1. Core(z, K, Cur(z))
    BY DEF K
  <2>2. K1.w => \A e \in Engines : AtN(z.eng[e], z.journal[e], 2 * K1.E) = K1.edges[e]
    <3>1. K1.w = K.w /\ K1.E = K.E /\ K1.edges = K.edges
      BY <1>1, <1>2, <1>4
    <3> QED
      BY <3>1, <2>1 DEF Core, EngOk, Eng
  <2>3. /\ K1.fall => Falling(z.eng[0], z.journal[0])
        /\ K1.lay => Layers(z.eng[0], z.journal[0])
    BY <1>2 DEF TrapFalls
  <2>4. /\ K1.E = K.E /\ K1.hi >= K.hi /\ K1.n = K.n /\ K1.mode = K.mode /\ K1.due = K.due
        /\ K1.ver = K.ver /\ K1.vm = K.vm /\ K1.ex = K.ex
    BY <1>1, <1>2, <1>4 DEF Ctx
  <2> QED
    BY <2>1, <2>2, <2>3, <2>4, <1>1, <1>7, CoreTo
<1>10. K1.ex => Alike(z, K1, Cur(z), K2.vm, K2.ver)
  <2>1. K1.E = K.E /\ K1.vm = K.vm /\ K1.ver = K.ver /\ K2.vm = vm2 /\ K2.ver = vr2
    BY <1>1, <1>2, <1>3, <1>4
  <2>2. K1.ex => Alike(z, K, Cur(z), vm2, vr2)
    BY <1>2 DEF K
  <2> QED
    BY <2>1, <2>2 DEF Alike
<1>11. Core(z, K2, Cur(z))
  BY <1>2, <1>3, <1>7, <1>8, <1>9, <1>10, CoreSee
<1>12. K2.ex => Watch(z, K2, Cur(z))
  <2>1. K2.E = L.E /\ K2.vm = L.vm
    BY <1>3, <1>4
  <2> QED
    BY <2>1, <1>3 DEF Watch, Batching
<1>13. Fit(z, K2)
  BY <1>8, <1>11, <1>12 DEF Fit
<1>14. /\ Fit(gpu', Context(gpu', due', n, mode, edges, vr2, vm2, ex)) /\ gpu'.drawn = {}
       /\ ex => unlike' = unlike
  BY <1>13, EndStep DEF K2
<1> QED
  BY <1>14 DEF Kept

\* The place that engine e shows in display mode md.
Shows(e, md) == IF e = 0 /\ md = 2 THEN "LCDC" ELSE Window(e)

\* A store to a bank that a view does not show leaves it as it is.
LEMMA ViewSame ==
  ASSUME NEW e, NEW md, NEW m, NEW b \in Banks, m[b] # Shows(e, md), NEW vr, NEW vr2,
         \A y \in Banks : y # b => vr2[y] = vr[y]
  PROVE View2(e, md, m, vr2) = View2(e, md, m, vr)
<1> DEFINE S == {y \in Banks : m[y] = Shows(e, md)}
<1>1. View2(e, md, m, vr2) = [y \in S |-> vr2[y]] /\ View2(e, md, m, vr) = [y \in S |-> vr[y]]
  BY DEF View2, Shows
<1>2. \A y \in S : vr2[y] = vr[y]
  OBVIOUS
<1> QED
  BY <1>1, <1>2

\* What an engine reads is in its places.
LEMMA ShowsReads ==
  ASSUME NEW e \in Engines, NEW md
  PROVE Shows(e, md) \in Reads(e) /\ (Shows(e, md) = Window(e) \/ (e = 0 /\ md = 2))
BY DEF Shows, Reads, Window, Engines

\* A store to a bank that no engine with lines to draw reads.
LEMMA HiddenBy ==
  ASSUME NEW K, Ctx(K), NEW z, NEW c, Core(z, K, c), NEW b \in Banks,
         NEW vr2, \A y \in Banks : y # b => vr2[y] = K.ver[y],
         \A e \in Engines : \/ PosOf(z, c, e) = K.E
                            \/ /\ z.inflight[e] => z.job_map[e] = K.vm
                               /\ K.vm[b] \notin Reads(e)
  PROVE Alike(z, K, c, K.vm, vr2)
<1> SUFFICES ASSUME NEW e \in Engines, NEW x \in PosOf(z, c, e)..K.E - 1, NEW md
             PROVE View2(e, md, MapAt(z.job_map[e], x, c[e], K.vm), vr2)
                     = View2(e, md, MapAt(z.job_map[e], x, c[e], K.vm), K.ver)
  BY DEF Alike
<1>1. K.E \in Nat
  BY LinesAssumption DEF Ctx
<1>2. PosOf(z, c, e) # K.E
  BY <1>1
<1>3. MapAt(z.job_map[e], x, c[e], K.vm) = K.vm
  <2>1. z.inflight[e] <=> z.job_map[e] # <<>>
    BY DEF Core, EngOk, JobOk
  <2> QED
    BY <2>1, <1>2 DEF MapAt
<1>4. K.vm[b] # Shows(e, md)
  BY <1>2, ShowsReads
<1> QED
  BY <1>3, <1>4, ViewSame

\* An engine with lines to draw is trapped.
LEMMA PendingTrapped ==
  ASSUME NEW K, Ctx(K), NEW g, Core(g, K, Cur(g)), Frame(g), Watch(g, K, Cur(g)), K.E = Scanned(g),
         NEW e \in Engines, PosOf(g, Cur(g), e) # K.E
  PROVE /\ g.trap /\ e \in g.mask
        /\ ~g.inflight[e] => ~g.finished
<1>1. /\ Typed(g) /\ K.E \in 0..SCREEN_H /\ SCREEN_H \in Nat \ {0} /\ Cur(g)[e] \in 0..K.E
      /\ frontier(g) \in Nat /\ g.inflight[e] \in BOOLEAN
  BY LinesAssumption, Types DEF Core, Base, Ctx, frontier
<1>2. CASE g.finished
  <2>1. frontier(g) >= SCREEN_H
    BY <1>1, <1>2 DEF Frame
  <2>2. K.E = SCREEN_H /\ ~Top(g)
    BY <1>1, <2>1 DEF Scanned, Top, frontier
  <2>3. Cur(g)[e] = SCREEN_H
    BY <2>1, <2>2 DEF Frame, Cur, Both
  <2>4. g.inflight[e]
    BY <2>2, <2>3 DEF PosOf
  <2>5. g.deferred[e]
    BY <2>1, <2>4 DEF Frame
  <2> QED
    BY <2>4, <2>5 DEF Watch, Armed
<1>3. CASE ~g.finished
  <2>1. e \in MaskOf(g)
    <3>1. CASE g.inflight[e]
      BY <1>3, <3>1 DEF Watch, Armed
    <3>2. CASE ~g.inflight[e]
      <4>1. Cur(g)[e] < K.E
        BY <1>1, <3>2 DEF PosOf
      <4>2. g.lazy /\ ~g.per_line[e]
        BY <4>1 DEF Watch, Batching
      <4> QED
        BY <4>2 DEF MaskOf
    <3> QED
      BY <3>1, <3>2
  <2> QED
    BY <2>1, <1>3 DEF Watch, Armed
<1> QED
  BY <1>2, <1>3

\* A store to a bank whose place is not trapped.
LEMMA UntrappedAlike ==
  ASSUME NEW K, Ctx(K), NEW g, Core(g, K, Cur(g)), Frame(g), Watch(g, K, Cur(g)), K.E = Scanned(g),
         TrapFalls(g), NEW b \in Banks, K.vm[b] # "texture", ~Trapped(g, K.vm[b]),
         NEW vr2, \A y \in Banks : y # b => vr2[y] = K.ver[y]
  PROVE Alike(g, K, Cur(g), K.vm, vr2)
<1> DEFINE c == Cur(g)
<1> SUFFICES ASSUME NEW e \in Engines, NEW x \in PosOf(g, c, e)..K.E - 1,
                    NEW md, md = AtMode(g.eng[e], g.journal[e], 2 * x + 1)
             PROVE View2(e, md, MapAt(g.job_map[e], x, c[e], K.vm), vr2)
                     = View2(e, md, MapAt(g.job_map[e], x, c[e], K.vm), K.ver)
  BY DEF Alike
<1> DEFINE m == MapAt(g.job_map[e], x, c[e], K.vm)
<1>1. K.E \in Nat
  BY LinesAssumption DEF Ctx
<1>2. PosOf(g, c, e) # K.E
  BY <1>1
<1>3. g.trap /\ e \in g.mask
  BY <1>2, PendingTrapped
<1>4. Trapped(g, Window(e))
  BY <1>3 DEF Trapped
<1>5. e = 0 /\ ~g.lcdc => md = 1
  <2> SUFFICES ASSUME e = 0, ~g.lcdc PROVE md = 1
    OBVIOUS
  <2> DEFINE r == g.eng[0]
             j == g.journal[0]
  <2>1. Layers(r, j)
    BY <1>3 DEF TrapFalls
  <2>2. j \in Seq(JEntry) /\ Sorted(j)
    BY DEF Core, EngOk, Eng, Jrn
  <2>3. 2 * x + 1 \in Int
    <3>1. x \in Int
      OBVIOUS
    <3> QED
      BY <3>1
  <2> HIDE DEF r, j
  <2>4. Reach(j, 2 * x + 1) \in 0..Len(j)
    BY <2>2, <2>3, ReachCounts
  <2>5. md = AtMode(r, j, 2 * x + 1)
    BY DEF r, j
  <2> QED
    BY <2>1, <2>4, <2>5 DEF AtMode, Layers, ModeAt
<1>6. g.lcdc => Trapped(g, "LCDC")
  BY <1>3 DEF Trapped
<1>7. Shows(e, md) = Window(e) \/ (e = 0 /\ md = 2 /\ Shows(e, md) = "LCDC")
  BY DEF Shows
<1>8. Trapped(g, Shows(e, md))
  BY <1>4, <1>5, <1>6, <1>7
<1>9. K.vm[b] # Shows(e, md)
  BY <1>8
<1>10. m[b] # Shows(e, md)
  <2>1. CASE m = K.vm
    BY <2>1, <1>9
  <2>2. CASE m # K.vm
    <3>1. g.job_map[e] # <<>> /\ m = g.job_map[e]
      BY <2>2 DEF MapAt
    <3>2. g.inflight[e]
      BY <3>1 DEF Core, EngOk, JobOk
    <3>3. \A y \in Banks : g.job_map[e][y] \in Reads(e) => K.vm[y] = "texture" \/ Trapped(g, K.vm[y])
      BY <2>2, <3>1, <3>2 DEF Watch, JobMap
    <3>4. m[b] \notin Reads(e)
      BY <3>1, <3>3
    <3> QED
      BY <3>4, ShowsReads
  <2> QED
    BY <2>1, <2>2
<1> HIDE DEF m
<1>11. View2(e, md, m, vr2) = View2(e, md, m, K.ver)
  BY <1>10, ViewSame
<1> QED
  BY <1>11 DEF m

\* What a join keeps.
JoinKept(K, g, h) ==
  /\ Core(h, K, Cur(h)) /\ Frame(h) /\ Cur(h) = Cur(g) /\ SameFrame(g, h) /\ SameCounts(g, h)
  /\ h.finished = g.finished /\ (h.trap => g.trap) /\ (~(g.deferred[0] /\ g.finished) => h.trap = g.trap)
  /\ (g.finished /\ h.trap => ~g.deferred[0])
  /\ \A e \in Engines : ~h.inflight[e] /\ ~h.deferred[e]
  /\ ~in_flight(h) /\ ((g.stale => in_flight(g)) => ~h.stale)

\* join_worker keeps it.
LEMMA JoinKeeps ==
  ASSUME NEW K, Ctx(K), K.vm = vmap, K.ver = ver, NEW g, Core(g, K, Cur(g)), Frame(g)
  PROVE JoinKept(K, g, join_worker(g))
<1> DEFINE h == join_worker(g)
           c == Cur(g)
<1>1. /\ Core(h, K, c) /\ ~in_flight(h)
      /\ \A e \in Engines : ~h.inflight[e] /\ ~h.deferred[e] /\ h.job_map[e] = <<>>
      /\ SameFrame(g, h) /\ SameCounts(g, h) /\ h.finished = g.finished
      /\ h.trap = (g.trap /\ ~(g.deferred[0] /\ g.finished))
      /\ \A e \in Engines : g.deferred[e] => h.journal[e] = <<>>
      /\ \A e \in Engines : ~g.inflight[e] => h.journal[e] = g.journal[e]
      /\ ~in_flight(g) => h = g
      /\ in_flight(g) => ~h.stale
  <2> HIDE DEF c
  <2> QED
    BY JoinCore DEF c
<1> HIDE DEF h
<1>2. h.line = g.line /\ h.hblank = g.hblank /\ h.next = g.next /\ h.lazy = g.lazy
  BY <1>1 DEF SameFrame, SameCounts
<1>3. Cur(h) = Cur(g)
  BY <1>2 DEF Cur, Top
<1>4. Frame(h)
  <2>1. frontier(h) = frontier(g) /\ Top(h) = Top(g)
    BY <1>2 DEF frontier, Top
  <2>2. frontier(g) >= SCREEN_H => \A e \in Engines : h.journal[e] = <<>>
    BY <1>1 DEF Frame
  <2>3. Top(g) => h = g
    BY <1>1 DEF Frame
  <2> QED
    BY <2>1, <2>2, <2>3, <1>1, <1>2 DEF Frame
<1>5. g.trap \in BOOLEAN
  BY Types DEF Core, Base
<1>6. (h.trap => g.trap) /\ (~(g.deferred[0] /\ g.finished) => h.trap = g.trap) /\ (g.finished /\ h.trap => ~g.deferred[0])
  BY <1>1, <1>5
<1>7. (g.stale => in_flight(g)) => ~h.stale
  BY <1>1
<1>8. Core(h, K, Cur(h))
  BY <1>1, <1>3
<1> QED
  BY <1>1, <1>3, <1>4, <1>6, <1>7, <1>8 DEF JoinKept, h

\* With no job in flight, and the trap as it was, what is watched stays so.
LEMMA JoinWatch ==
  ASSUME NEW K, NEW g, Watch(g, K, Cur(g)), NEW h, JoinKept(K, g, h)
  PROVE Watch(h, K, Cur(h))
<1>1. /\ Cur(h) = Cur(g) /\ SameFrame(g, h) /\ h.finished = g.finished /\ (h.trap => g.trap)
      /\ (~(g.deferred[0] /\ g.finished) => h.trap = g.trap) /\ (g.finished /\ h.trap => ~g.deferred[0])
      /\ \A e \in Engines : ~h.inflight[e] /\ ~h.deferred[e]
      /\ ((g.stale => in_flight(g)) => ~h.stale)
  BY DEF JoinKept
<1>2. MaskOf(h) = MaskOf(g) /\ h.mask = g.mask /\ h.lcdc = g.lcdc /\ h.lazy = g.lazy
      /\ h.per_line = g.per_line
  BY <1>1 DEF SameFrame, MaskOf
<1>3. Armed(h)
  BY <1>1, <1>2 DEF Watch, Armed
<1>4. Batching(h, K, Cur(h))
  BY <1>1, <1>2 DEF Watch, Batching
<1>5. JobMap(h, K.vm)
  BY <1>1 DEF JobMap
<1> QED
  BY <1>1, <1>3, <1>4, <1>5 DEF Watch

\* The trap is no more than it was.
LEMMA FallsKept ==
  ASSUME NEW K, NEW g, K.fall = (g.trap /\ 0 \in g.mask), K.lay = (g.trap /\ 0 \in g.mask /\ ~g.lcdc),
         NEW h, NEW c, Core(h, K, c), h.trap => g.trap, h.mask = g.mask, h.lcdc = g.lcdc
  PROVE TrapFalls(h)
<1>1. /\ K.fall => Falling(h.eng[0], h.journal[0])
      /\ K.lay => Layers(h.eng[0], h.journal[0])
  BY FallOf
<1> QED
  BY <1>1 DEF TrapFalls

\* The trap armed anew, for no more engines than before.
LEMMA FallsArmed ==
  ASSUME NEW K, NEW g, K.fall = (g.trap /\ 0 \in g.mask), g.trap, g.mask = MaskOf(g),
         NEW h, NEW c, Core(h, K, c), ArmedNow(h), MaskOf(h) \subseteq MaskOf(g)
  PROVE TrapFalls(h)
<1> SUFFICES ASSUME h.trap, 0 \in h.mask
    PROVE /\ Falling(h.eng[0], h.journal[0])
          /\ ~h.lcdc => Layers(h.eng[0], h.journal[0])
  BY DEF TrapFalls
<1>1. 0 \in MaskOf(h) /\ (~h.lcdc => h.eng[0].mode # 2) /\ 0 \in Engines
  BY DEF ArmedNow, Engines
<1>2. Falling(h.eng[0], h.journal[0])
  <2>1. K.fall
    BY <1>1
  <2> QED
    BY <2>1, FallOf
<1>3. h.eng[0] \in EngineState /\ Len(h.journal[0]) \in Nat
  <2>1. Typed(h)
    BY DEF Core, Base
  <2>2. h.eng[0] \in EngineState /\ h.journal[0] \in Seq(JEntry)
    BY <1>1, <2>1, Types
  <2> QED
    BY <2>2
<1>4. ASSUME ~h.lcdc PROVE Layers(h.eng[0], h.journal[0])
  <2>1. h.eng[0].mode = 1
    BY <1>1, <1>3, <1>4 DEF EngineState
  <2> QED
    BY <2>1, <1>2, <1>3, FallsToLayers
<1> QED
  BY <1>2, <1>4

\* The engines es catch up and draw line by line from here, in a burst or for
\* the frame.
SomePerLine(g, es, parked, b) == arm_trap(PerLine(catch_up(g, es, parked), es, b))
SomePerLineDone(K, g, es, h, z) ==
  /\ Core(z, K, Cur(z)) /\ Frame(z)
  /\ z.line = g.line /\ z.hblank = g.hblank /\ z.lag = g.lag /\ z.lazy = g.lazy
  /\ z.finished = g.finished
  /\ \A e \in Engines : IF e \in es THEN Cur(z)[e] = K.E ELSE Cur(z)[e] = Cur(g)[e]
  /\ \A e \in Engines : z.per_line[e] <=> e \in es \/ g.per_line[e]
  /\ ArmedNow(z)
  /\ SameJobs(h, z) /\ SameFlight(h, z)
  /\ h = g \/ (/\ ~in_flight(h) /\ \A e \in Engines : ~h.inflight[e]
               /\ (g.stale => in_flight(g)) => ~h.stale)

\* SomePerLine does so.
LEMMA SomePerLineIs ==
  ASSUME NEW K, Ctx(K), K.vm = vmap, K.ver = ver, NEW g, K.E = Scanned(g),
         Core(g, K, Cur(g)), Frame(g), NEW es \in SUBSET Engines, NEW parked \in BOOLEAN,
         NEW b \in BOOLEAN
  PROVE SomePerLineDone(K, g, es, catch_up(g, es, parked), SomePerLine(g, es, parked, b))
<1> DEFINE h == catch_up(g, es, parked)
           y == PerLine(h, es, b)
           z == arm_trap(y)
<1>1. CaughtUp(g, K, es, parked)
  BY CatchUp
<1>2. /\ Core(h, K, Cur(h)) /\ Frame(h) /\ SameFrame(g, h) /\ h.finished = g.finished
      /\ \A e \in Engines : IF e \in es THEN Cur(h)[e] = K.E ELSE Cur(h)[e] = Cur(g)[e]
      /\ h = g \/ (/\ ~in_flight(h) /\ \A e \in Engines : ~h.inflight[e]
                   /\ (g.stale => in_flight(g)) => ~h.stale)
  <2>1. CaughtUp(g, K, es, parked) => 
          /\ Core(h, K, Cur(h)) /\ Frame(h) /\ SameFrame(g, h) /\ h.finished = g.finished
          /\ \A e \in Engines : IF e \in es THEN Cur(h)[e] = K.E ELSE Cur(h)[e] = Cur(g)[e]
          /\ h = g \/ /\ ~Top(g) /\ frontier(g) < SCREEN_H /\ ~in_flight(h)
                      /\ \A e \in Engines : ~h.inflight[e]
                      /\ (g.stale => in_flight(g)) => ~h.stale
    BY Zenon DEF CaughtUp
  <2> HIDE DEF h
  <2> QED
    BY <1>1, <2>1
<1>3. SomePerLine(g, es, parked, b) = z
  BY DEF SomePerLine
<1> HIDE DEF h
<1>4. Typed(h) /\ \A e \in Engines : h.burst[e] => h.per_line[e]
  BY <1>2 DEF Core, Base, EngOk, JobOk
<1>5. /\ Typed(y) /\ SameJobs(h, y) /\ SameData(h, y) /\ SameFlight(h, y) /\ SameEnd(h, y)
      /\ y.line = h.line /\ y.hblank = h.hblank /\ y.lazy = h.lazy /\ y.lag = h.lag
      /\ y.mask = h.mask /\ y.lcdc = h.lcdc /\ y.next = h.next /\ y.bursts = h.bursts
      /\ y.stores = h.stores
      /\ \A e \in Engines : /\ y.per_line[e] <=> e \in es \/ h.per_line[e]
                            /\ y.burst[e] => y.per_line[e]
  <2>1. es \in SUBSET Engines /\ b \in BOOLEAN
    OBVIOUS
  <2>2. Typed(h)
    BY <1>4
  <2>3. \A e \in Engines : h.burst[e] => h.per_line[e]
    BY <1>4
  <2> QED
    BY <2>1, <2>2, <2>3, PerLineIs
<1> HIDE DEF y
<1>6. /\ Typed(z) /\ SameJobs(y, z) /\ SameData(y, z) /\ SameFlight(y, z) /\ SameCounts(y, z)
      /\ z.line = y.line /\ z.hblank = y.hblank /\ z.lazy = y.lazy /\ z.lag = y.lag
      /\ z.per_line = y.per_line /\ z.burst = y.burst
      /\ z.finished = y.finished /\ z.aborted = y.aborted /\ z.jn = y.jn
      /\ z.trap <=> MaskOf(y) # {}
      /\ z.trap => z.mask = MaskOf(y) /\ (z.lcdc <=> 0 \in MaskOf(y) /\ y.eng[0].mode = 2)
  BY <1>5, ArmIs
<1> HIDE DEF z
<1>7. SameJobs(h, z) /\ SameData(h, z) /\ SameFlight(h, z)
  BY <1>5, <1>6 DEF SameJobs, SameData, SameFlight
<1>8. /\ z.line = h.line /\ z.hblank = h.hblank /\ z.lazy = h.lazy /\ z.lag = h.lag
      /\ z.finished = h.finished /\ z.aborted = h.aborted /\ z.jn = h.jn /\ z.next = h.next
      /\ \A e \in Engines : /\ z.per_line[e] <=> e \in es \/ h.per_line[e]
                            /\ z.burst[e] => z.per_line[e]
  BY <1>5, <1>6 DEF SameEnd, SameCounts
<1>9. Frame(z) /\ Cur(z) = Cur(h)
  <2>1. z.journal = h.journal /\ z.eng = h.eng
    BY <1>7 DEF SameData
  <2> QED
    BY <2>1, <1>2, <1>7, <1>8, FrameKept
<1>10. Core(z, K, Cur(z))
  <2>1. ~z.aborted
    BY <1>2, <1>8 DEF Core, Base
  <2> QED
    BY <2>1, <1>2, <1>6, <1>7, <1>8, <1>9, CoreKept
<1>11. ArmedNow(z)
  <2>1. MaskOf(z) = MaskOf(y) /\ z.eng = y.eng
    BY <1>6 DEF MaskOf, SameData
  <2> QED
    BY <2>1, <1>6 DEF ArmedNow
<1>12. /\ z.line = g.line /\ z.hblank = g.hblank /\ z.lag = g.lag /\ z.lazy = g.lazy
       /\ z.finished = g.finished
       /\ \A e \in Engines : z.per_line[e] <=> e \in es \/ g.per_line[e]
  BY <1>2, <1>8 DEF SameFrame
<1> QED
  BY <1>2, <1>3, <1>7, <1>9, <1>10, <1>11, <1>12 DEF SomePerLineDone, h

\* What is so of the lines that are left to draw as a store goes on.
SeenSafely(K, z, vr2) == Watch(z, K, Cur(z)) /\ TrapFalls(z) /\ Alike(z, K, Cur(z), vmap, vr2)

\* The store is to a bank b that only the engines in reached read.
OnlyTo(K, b, reached, vr2) == /\ \A o \in Engines \ reached : vmap[b] \notin Reads(o)
                              /\ \A y \in Banks : y # b => vr2[y] = K.ver[y]

\* The engines in es catch up, the others reached draw line by line already.
CaughtAll(g, es, reached) ==
  /\ \A e \in reached : ~g.inflight[e] /\ (e \in es \/ g.per_line[e])
  /\ g.stale => reached = Engines
  /\ ~g.finished /\ ~g.deferred[0]

\* After the engines reached by a store have caught up.
LEMMA PerLineSeen ==
  ASSUME NEW K, Ctx(K), K.vm = vmap, NEW g, Core(g, K, Cur(g)), Watch(g, K, Cur(g)),
         K.fall = (g.trap /\ 0 \in g.mask), g.trap,
         NEW es \in SUBSET Engines, NEW h, NEW z, SomePerLineDone(K, g, es, h, z),
         NEW reached \in SUBSET Engines, es \subseteq reached,
         CaughtAll(g, es, reached),
         NEW b \in Banks, NEW vr2, OnlyTo(K, b, reached, vr2)
  PROVE SeenSafely(K, z, vr2)
<1> USE DEF CaughtAll, OnlyTo
<1>1. /\ Core(z, K, Cur(z))
      /\ z.line = g.line /\ z.hblank = g.hblank /\ z.lag = g.lag /\ z.lazy = g.lazy
      /\ z.finished = g.finished
      /\ \A e \in Engines : IF e \in es THEN Cur(z)[e] = K.E ELSE Cur(z)[e] = Cur(g)[e]
      /\ \A e \in Engines : z.per_line[e] <=> e \in es \/ g.per_line[e]
      /\ ArmedNow(z)
      /\ SameJobs(h, z) /\ SameFlight(h, z)
      /\ h = g \/ (/\ ~in_flight(h) /\ \A e \in Engines : ~h.inflight[e]
                   /\ (g.stale => in_flight(g)) => ~h.stale)
  BY Zenon DEF SomePerLineDone
<1>2. /\ g.mask = MaskOf(g) /\ (g.stale => in_flight(g)) /\ JobMap(g, vmap)
      /\ \A e \in Engines : g.inflight[e] => e \in MaskOf(g)
      /\ \A e \in Engines : Cur(g)[e] < K.E => g.lazy /\ ~g.per_line[e]
  BY DEF Watch, Armed, Batching
<1>3. MaskOf(z) \subseteq MaskOf(g)
  BY <1>1 DEF MaskOf
<1>4. TrapFalls(z)
  BY <1>1, <1>2, <1>3, FallsArmed
<1>5. \A e \in Engines : z.inflight[e] => /\ h = g /\ g.inflight[e] /\ e \notin reached
                                         /\ ~g.stale /\ z.job_map[e] = vmap
  <2> SUFFICES ASSUME NEW e \in Engines, z.inflight[e]
               PROVE /\ h = g /\ g.inflight[e] /\ e \notin reached
                     /\ ~g.stale /\ z.job_map[e] = vmap
    OBVIOUS
  <2>1. h = g /\ g.inflight[e] /\ z.job_map[e] = g.job_map[e]
    BY <1>1 DEF SameJobs
  <2>2. e \notin reached /\ ~g.stale
    BY <2>1
  <2> QED
    BY <2>1, <2>2, <1>2 DEF JobMap
<1>6. Armed(z)
  <2>1. \A e \in Engines : z.inflight[e] => e \in MaskOf(z)
    <3> SUFFICES ASSUME NEW e \in Engines, z.inflight[e] PROVE e \in MaskOf(z)
      OBVIOUS
    <3>1. e \notin es /\ e \in MaskOf(g)
      BY <1>2, <1>5
    <3> QED
      BY <3>1, <1>1 DEF MaskOf
  <2>2. \A e \in Engines : ~z.deferred[e]
    <3> SUFFICES ASSUME NEW e \in Engines, z.deferred[e] PROVE FALSE
      OBVIOUS
    <3>1. z.inflight[e]
      BY <1>1 DEF Core, EngOk, JobOk
    <3>2. z.deferred[e] = g.deferred[e]
      BY <3>1, <1>1, <1>5 DEF SameJobs
    <3>3. g.deferred[0]
      BY <3>2 DEF Core, EngOk, JobOk
    <3> QED
      BY <3>3
  <2> QED
    BY <2>1, <2>2, <1>1 DEF Armed, ArmedNow
<1>7. Batching(z, K, Cur(z))
  <2> SUFFICES ASSUME NEW e \in Engines, Cur(z)[e] < K.E PROVE z.lazy /\ ~z.per_line[e]
    BY DEF Batching
  <2>1. K.E \in Nat
    BY LinesAssumption DEF Ctx
  <2>2. e \notin es
    BY <2>1, <1>1
  <2> QED
    BY <2>2, <1>1, <1>2
<1>8. z.stale => in_flight(z)
  <2>1. CASE h = g
    BY <2>1, <1>1, <1>2 DEF SameJobs, SameFlight, in_flight
  <2>2. CASE (g.stale => in_flight(g)) => ~h.stale
    BY <2>2, <1>1, <1>2 DEF SameFlight
  <2> QED
    BY <2>1, <2>2, <1>1
<1>9. JobMap(z, K.vm)
  <2> SUFFICES ASSUME NEW e \in Engines, z.inflight[e]
               PROVE ~z.stale /\ z.job_map[e] = vmap
    BY DEF JobMap
  <2> QED
    BY <1>1, <1>5 DEF SameFlight
<1>10. Alike(z, K, Cur(z), vmap, vr2)
  <2>1. ASSUME NEW e \in Engines
        PROVE \/ PosOf(z, Cur(z), e) = K.E
              \/ (z.inflight[e] => z.job_map[e] = K.vm) /\ K.vm[b] \notin Reads(e)
    <3>1. CASE e \in reached
      <4>1. ~z.inflight[e]
        BY <3>1, <1>5
      <4>2. Cur(z)[e] = K.E
        <5>1. CASE e \in es
          BY <5>1, <1>1
        <5>2. CASE e \notin es
          <6>1. g.per_line[e] /\ Cur(z)[e] = Cur(g)[e]
            BY <5>2, <3>1, <1>1
          <6>2. Cur(g)[e] \in 0..K.E /\ K.E \in Nat
            BY LinesAssumption DEF Core, Base, Ctx
          <6> QED
            BY <6>1, <6>2, <1>2
        <5> QED
          BY <5>1, <5>2
      <4> QED
        BY <4>1, <4>2 DEF PosOf
    <3>2. CASE e \notin reached
      BY <3>2, <1>5
    <3> QED
      BY <3>1, <3>2
  <2> QED
    BY <2>1, <1>1, HiddenBy
<1> QED
  BY <1>4, <1>6, <1>7, <1>8, <1>9, <1>10 DEF Watch, SeenSafely

\* The engines a store to place p reaches.
ReachedBy(g, p) == reach_engines(g, p) \cup IF g.stale THEN Engines ELSE {}

\* They are the engines that read the place, and both while a job's map is an older one.
LEMMA ReachedIs ==
  ASSUME NEW g, NEW p \in {"A", "B", "LCDC"}, p = "LCDC" => g.lcdc
  PROVE /\ ReachedBy(g, p) \in SUBSET Engines
        /\ g.stale => ReachedBy(g, p) = Engines
        /\ \A o \in Engines \ ReachedBy(g, p) : p \notin Reads(o)
<1>1. /\ reach_engines(g, "A") = {0} /\ reach_engines(g, "B") = {1}
      /\ g.lcdc => reach_engines(g, "LCDC") = {0}
  BY DEF reach_engines
<1>2. reach_engines(g, p) \subseteq Engines
  BY <1>1 DEF Engines
<1>3. \A o \in Engines \ reach_engines(g, p) : p \notin Reads(o)
  BY <1>1 DEF Engines, Reads
<1> QED
  BY <1>2, <1>3 DEF ReachedBy

\* The counters that a store counts in.
Counted(j) == [j EXCEPT !.stores = @ + 1]
Charged(j, ch) == [j EXCEPT !.bursts = [e \in Engines |-> @[e] + IF e \in ch THEN 1 ELSE 0]]

\* Nothing else changes.
CountersOnly(g, h) ==
  /\ Typed(h) /\ SameJobs(g, h) /\ SameData(g, h) /\ SameFlight(g, h) /\ SameFrame(g, h)
  /\ SameEnd(g, h) /\ h.next = g.next

\* A store counted.
LEMMA CountedIs ==
  ASSUME NEW g, Typed(g)
  PROVE CountersOnly(g, Counted(g))
<1> DEFINE h == Counted(g)
<1>1. g.stores + 1 \in Nat
  BY Types
<1>2. Typed(h)
  BY <1>1 DEF Typed, Members, Counted
<1>3. SameJobs(g, h) /\ SameData(g, h) /\ SameFlight(g, h)
  BY DEF Typed, Members, Counted, SameJobs, SameData, SameFlight
<1>4. SameFrame(g, h) /\ SameEnd(g, h) /\ h.next = g.next
  BY DEF Typed, Members, Counted, SameFrame, SameEnd
<1> QED
  BY <1>2, <1>3, <1>4 DEF CountersOnly

\* A store charged to the engines ch.
LEMMA ChargedIs ==
  ASSUME NEW g, Typed(g), NEW ch \in SUBSET Engines
  PROVE /\ CountersOnly(g, Charged(g, ch))
        /\ \A e \in Engines : Charged(g, ch).bursts[e] = g.bursts[e] + IF e \in ch THEN 1 ELSE 0
<1> DEFINE h == Charged(g, ch)
           bs == [e \in Engines |-> g.bursts[e] + IF e \in ch THEN 1 ELSE 0]
<1>1. bs \in [Engines -> Nat]
  BY Types
<1>2. h = [g EXCEPT !.bursts = bs]
  BY DEF Charged, Typed, Members
<1>3. bs = h.bursts
  BY <1>2 DEF Typed, Members
<1>4. \A e \in Engines : bs[e] = g.bursts[e] + IF e \in ch THEN 1 ELSE 0
  OBVIOUS
<1> HIDE DEF h, bs
<1>5. Typed(h)
  BY <1>1, <1>2 DEF Typed, Members
<1>6. SameJobs(g, h) /\ SameData(g, h) /\ SameFlight(g, h)
  BY <1>2 DEF Typed, Members, SameJobs, SameData, SameFlight
<1>7. SameFrame(g, h) /\ SameEnd(g, h) /\ h.next = g.next
  BY <1>2 DEF Typed, Members, SameFrame, SameEnd
<1>8. CountersOnly(g, h)
  BY <1>5, <1>6, <1>7 DEF CountersOnly
<1> QED
  BY <1>3, <1>4, <1>8 DEF h

\* A Gpu whose engines in es have no job and whose frame is the guest's.
Ready(K, ex, es, j) ==
  /\ Core(j, K, Cur(j)) /\ Frame(j) /\ Cur(j) = Cur(gpu) /\ SameFrame(gpu, j)
  /\ j.trap = gpu.trap /\ j.finished = gpu.finished /\ ~j.deferred[0]
  /\ \A e \in es : ~j.inflight[e]
  /\ ex => Watch(j, K, Cur(j)) /\ (j.stale => es = Engines)

\* The counters do not matter to that.
LEMMA ReadyCounters ==
  ASSUME NEW K, NEW ex, NEW es, NEW j, Ready(K, ex, es, j), NEW h, CountersOnly(j, h)
  PROVE Ready(K, ex, es, h)
<1>1. /\ Core(j, K, Cur(j)) /\ Frame(j) /\ Cur(j) = Cur(gpu) /\ SameFrame(gpu, j)
      /\ j.trap = gpu.trap /\ j.finished = gpu.finished /\ ~j.deferred[0]
      /\ \A e \in es : ~j.inflight[e]
      /\ ex => Watch(j, K, Cur(j)) /\ (j.stale => es = Engines)
  BY DEF Ready
<1>2. /\ Typed(h) /\ SameJobs(j, h) /\ SameData(j, h) /\ SameFlight(j, h) /\ SameFrame(j, h)
      /\ SameEnd(j, h) /\ h.next = j.next
  BY DEF CountersOnly
<1>3. /\ h.line = j.line /\ h.hblank = j.hblank /\ h.lazy = j.lazy /\ h.lag = j.lag
      /\ h.mask = j.mask /\ h.lcdc = j.lcdc /\ h.per_line = j.per_line /\ h.burst = j.burst
      /\ h.finished = j.finished /\ h.trap = j.trap /\ h.aborted = j.aborted /\ h.jn = j.jn
      /\ h.inflight = j.inflight /\ h.job_map = j.job_map /\ h.deferred = j.deferred
      /\ h.journal = j.journal /\ h.eng = j.eng /\ h.stale = j.stale
  BY <1>2 DEF SameFrame, SameEnd, SameJobs, SameData, SameFlight
<1>4. Frame(h) /\ Cur(h) = Cur(j)
  BY <1>1, <1>2, <1>3, FrameKept
<1>5. Core(h, K, Cur(h))
  <2>1. ~h.aborted /\ \A e \in Engines : h.burst[e] => h.per_line[e]
    BY <1>1, <1>3 DEF Core, Base, EngOk, JobOk
  <2> QED
    BY <2>1, <1>1, <1>2, <1>3, <1>4, CoreKept
<1>6. ex => Watch(h, K, Cur(h))
  <2> SUFFICES ASSUME ex PROVE Watch(h, K, Cur(h))
    OBVIOUS
  <2>1. Watch(h, K, Cur(j))
    BY <1>1, <1>2, <1>3, WatchKept
  <2> QED
    BY <2>1, <1>4
<1>7. SameFrame(gpu, h)
  BY <1>1, <1>3 DEF SameFrame
<1> QED
  BY <1>1, <1>3, <1>4, <1>5, <1>6, <1>7 DEF Ready

\* The jobs of the engines reached are joined first.
LEMMA ReadyJoined ==
  ASSUME NEW ex \in BOOLEAN, NEW K, K = Ktx(ex), Fit(gpu, K), ~gpu.deferred[0],
         NEW es \in SUBSET Engines, gpu.stale => es = Engines,
         NEW j, j = IF \E e \in es : gpu.inflight[e] THEN join_worker(gpu) ELSE gpu
  PROVE Ready(K, ex, es, j)
<1>1. /\ Ctx(K) /\ Core(gpu, K, Cur(gpu)) /\ Frame(gpu) /\ (ex => Watch(gpu, K, Cur(gpu)))
      /\ K.ver = ver /\ K.vm = vmap
  BY Given
<1>2. CASE \E e \in es : gpu.inflight[e]
  <2>1. j = join_worker(gpu)
    BY <1>2
  <2>2. JoinKept(K, gpu, j)
    BY <2>1, <1>1, JoinKeeps
  <2>3. /\ Core(j, K, Cur(j)) /\ Frame(j) /\ Cur(j) = Cur(gpu) /\ SameFrame(gpu, j)
        /\ j.finished = gpu.finished /\ (j.trap => gpu.trap) /\ (~(gpu.deferred[0] /\ gpu.finished) => j.trap = gpu.trap)
        /\ \A e \in Engines : ~j.inflight[e] /\ ~j.deferred[e]
        /\ ((gpu.stale => in_flight(gpu)) => ~j.stale)
    BY <2>2 DEF JoinKept
  <2>4. j.trap = gpu.trap
    BY <2>3
  <2>5. ~j.deferred[0]
    BY <2>3 DEF Engines
  <2>6. ex => Watch(j, K, Cur(j)) /\ ~j.stale
    <3> SUFFICES ASSUME ex PROVE Watch(j, K, Cur(j)) /\ ~j.stale
      OBVIOUS
    <3>1. Watch(j, K, Cur(j))
      BY <1>1, <2>2, JoinWatch
    <3>2. gpu.stale => in_flight(gpu)
      BY <1>1 DEF Watch
    <3> QED
      BY <3>1, <3>2, <2>3
  <2> QED
    BY <2>3, <2>4, <2>5, <2>6 DEF Ready
<1>3. CASE ~\E e \in es : gpu.inflight[e]
  <2>1. j = gpu /\ \A e \in es : ~gpu.inflight[e]
    BY <1>3
  <2>2. SameFrame(gpu, gpu)
    BY DEF SameFrame
  <2> QED
    BY <2>1, <2>2, <1>1 DEF Ready
<1> QED
  BY <1>2, <1>3

\* What a store leaves before its bank changes: the lines still to be drawn do
\* not show it.
StoreDone(K, ex, z, vr2) ==
  /\ Core(z, K, Cur(z)) /\ Frame(z) /\ z.line = gpu.line /\ z.hblank = gpu.hblank
  /\ ex => Watch(z, K, Cur(z)) /\ TrapFalls(z) /\ Alike(z, K, Cur(z), vmap, vr2)

\* The engines reached draw line by line: there is nothing to catch up with.
LEMMA CountedDone ==
  ASSUME NEW ex \in BOOLEAN, NEW K, K = Ktx(ex), Fit(gpu, K),
         NEW es \in SUBSET Engines, NEW z, Ready(K, ex, es, z), \A e \in es : gpu.per_line[e],
         NEW b \in Banks, \A o \in Engines \ es : vmap[b] \notin Reads(o),
         NEW vr2, \A y \in Banks : y # b => vr2[y] = ver[y]
  PROVE StoreDone(K, ex, z, vr2)
<1>1. /\ Ctx(K) /\ K.ver = ver /\ K.vm = vmap
      /\ K.fall = (ex /\ gpu.trap /\ 0 \in gpu.mask)
      /\ K.lay = (ex /\ gpu.trap /\ 0 \in gpu.mask /\ ~gpu.lcdc)
  BY Given
<1>2. /\ Core(z, K, Cur(z)) /\ Frame(z) /\ SameFrame(gpu, z) /\ z.trap = gpu.trap
      /\ \A e \in es : ~z.inflight[e]
      /\ ex => Watch(z, K, Cur(z)) /\ (z.stale => es = Engines)
  BY DEF Ready
<1>3. /\ z.line = gpu.line /\ z.hblank = gpu.hblank /\ z.mask = gpu.mask /\ z.lcdc = gpu.lcdc
      /\ z.per_line = gpu.per_line
  BY <1>2 DEF SameFrame
<1>4. ASSUME ex PROVE TrapFalls(z) /\ Alike(z, K, Cur(z), vmap, vr2)
  <2>1. TrapFalls(z)
    <3>1. K.fall = (gpu.trap /\ 0 \in gpu.mask) /\ K.lay = (gpu.trap /\ 0 \in gpu.mask /\ ~gpu.lcdc)
      BY <1>1, <1>4
    <3>2. z.trap => gpu.trap
      BY <1>2
    <3> QED
      BY <3>1, <3>2, <1>2, <1>3, FallsKept
  <2>2. ASSUME NEW e \in Engines
        PROVE \/ PosOf(z, Cur(z), e) = K.E
              \/ (z.inflight[e] => z.job_map[e] = K.vm) /\ K.vm[b] \notin Reads(e)
    <3>1. CASE e \in es
      <4>1. Cur(z)[e] \in 0..K.E /\ K.E \in Nat
        BY <1>1, <1>2, LinesAssumption DEF Core, Base, Ctx
      <4>2. ~(Cur(z)[e] < K.E)
        BY <1>2, <1>3, <1>4, <3>1 DEF Watch, Batching
      <4> QED
        BY <4>1, <4>2, <1>2, <3>1 DEF PosOf
    <3>2. CASE e \notin es
      <4>1. ~z.stale
        BY <1>2, <1>4, <3>2
      <4>2. z.inflight[e] => z.job_map[e] = K.vm
        BY <4>1, <1>2, <1>4 DEF Watch, JobMap
      <4> QED
        BY <4>2, <3>2, <1>1
    <3> QED
      BY <3>1, <3>2
  <2>3. Alike(z, K, Cur(z), K.vm, vr2)
    <3>1. \A y \in Banks : y # b => vr2[y] = K.ver[y]
      BY <1>1
    <3> QED
      BY <3>1, <2>2, <1>1, <1>2, HiddenBy
  <2> QED
    BY <2>1, <2>3, <1>1
<1> QED
  BY <1>2, <1>3, <1>4 DEF StoreDone

\* They catch up.
LEMMA PerLineDone ==
  ASSUME NEW ex \in BOOLEAN, NEW K, K = Ktx(ex), Fit(gpu, K), gpu.trap,
         NEW es \in SUBSET Engines, NEW g, Ready(K, ex, es, g),
         NEW bs \in SUBSET Engines, bs \subseteq es, ex => \A e \in es : e \in bs \/ gpu.per_line[e],
         NEW parked \in BOOLEAN, NEW c \in BOOLEAN, NEW z, z = SomePerLine(g, bs, parked, c),
         NEW b \in Banks, \A o \in Engines \ es : vmap[b] \notin Reads(o),
         NEW vr2, \A y \in Banks : y # b => vr2[y] = ver[y]
  PROVE StoreDone(K, ex, z, vr2)
<1>1. /\ Ctx(K) /\ K.ver = ver /\ K.vm = vmap /\ K.E = Scanned(gpu)
      /\ K.fall = (ex /\ gpu.trap /\ 0 \in gpu.mask)
  BY Given
<1>2. /\ Core(g, K, Cur(g)) /\ Frame(g) /\ SameFrame(gpu, g) /\ g.trap = gpu.trap
      /\ ~g.deferred[0] /\ \A e \in es : ~g.inflight[e]
      /\ ex => Watch(g, K, Cur(g)) /\ (g.stale => es = Engines)
  BY DEF Ready
<1>3. /\ g.line = gpu.line /\ g.hblank = gpu.hblank /\ g.mask = gpu.mask
      /\ g.per_line = gpu.per_line
  BY <1>2 DEF SameFrame
<1>4. K.E = Scanned(g)
  BY <1>1, <1>3 DEF Scanned, frontier
<1> DEFINE h == catch_up(g, bs, parked)
<1>5. SomePerLineDone(K, g, bs, h, z)
  <2>1. bs \in SUBSET Engines
    OBVIOUS
  <2> QED
    BY <2>1, <1>1, <1>2, <1>4, SomePerLineIs
<1> HIDE DEF h
<1>6. Core(z, K, Cur(z)) /\ Frame(z) /\ z.line = gpu.line /\ z.hblank = gpu.hblank
  BY <1>3, <1>5 DEF SomePerLineDone
<1>7. ASSUME ex PROVE Watch(z, K, Cur(z)) /\ TrapFalls(z) /\ Alike(z, K, Cur(z), vmap, vr2)
  <2>1. K.fall = (g.trap /\ 0 \in g.mask) /\ g.trap
    BY <1>1, <1>2, <1>3, <1>7
  <2>2. Watch(g, K, Cur(g)) /\ (g.stale => es = Engines)
    BY <1>2, <1>7
  <2>3. ~g.finished
    BY <2>1, <2>2, <1>2 DEF Watch, Armed
  <2>4. CaughtAll(g, bs, es)
    <3>1. \A e \in es : ~g.inflight[e] /\ (e \in bs \/ g.per_line[e])
      BY <1>2, <1>3, <1>7
    <3> QED
      BY <3>1, <2>2, <2>3, <1>2 DEF CaughtAll
  <2>5. OnlyTo(K, b, es, vr2)
    BY <1>1 DEF OnlyTo
  <2>6. es \in SUBSET Engines /\ bs \in SUBSET Engines
    OBVIOUS
  <2>7. SeenSafely(K, z, vr2)
    BY <2>1, <2>2, <2>4, <2>5, <2>6, <1>1, <1>2, <1>5, PerLineSeen
  <2> QED
    BY <2>7 DEF SeenSafely
<1> QED
  BY <1>6, <1>7 DEF StoreDone

\* The trap armed anew.
RearmedAs(K, y, z) ==
  /\ Core(z, K, Cur(z)) /\ Frame(z) /\ Cur(z) = Cur(y) /\ ArmedNow(z) /\ MaskOf(z) = MaskOf(y)
  /\ SameJobs(y, z) /\ SameData(y, z) /\ SameFlight(y, z)
  /\ z.line = y.line /\ z.hblank = y.hblank /\ z.lazy = y.lazy /\ z.lag = y.lag
  /\ z.per_line = y.per_line /\ z.finished = y.finished

\* It leaves the lines, the jobs and the data.
LEMMA RearmedIs ==
  ASSUME NEW K, NEW y, Core(y, K, Cur(y)), Frame(y)
  PROVE RearmedAs(K, y, arm_trap(y))
<1> DEFINE z == arm_trap(y)
<1>1. Typed(y) /\ ~y.aborted /\ \A e \in Engines : y.burst[e] => y.per_line[e]
  BY DEF Core, Base, EngOk, JobOk
<1>2. /\ Typed(z) /\ SameJobs(y, z) /\ SameData(y, z) /\ SameFlight(y, z) /\ SameCounts(y, z)
      /\ z.line = y.line /\ z.hblank = y.hblank /\ z.lazy = y.lazy /\ z.lag = y.lag
      /\ z.per_line = y.per_line /\ z.burst = y.burst
      /\ z.finished = y.finished /\ z.aborted = y.aborted /\ z.jn = y.jn
      /\ z.trap <=> MaskOf(y) # {}
      /\ z.trap => z.mask = MaskOf(y) /\ (z.lcdc <=> 0 \in MaskOf(y) /\ y.eng[0].mode = 2)
  BY <1>1, ArmIs
<1> HIDE DEF z
<1>3. Frame(z) /\ Cur(z) = Cur(y)
  <2>1. z.journal = y.journal /\ z.eng = y.eng /\ z.next = y.next
    BY <1>2 DEF SameData, SameCounts
  <2> QED
    BY <2>1, <1>2, FrameKept
<1>4. Core(z, K, Cur(z))
  BY <1>1, <1>2, <1>3, CoreKept
<1>5. MaskOf(z) = MaskOf(y) /\ z.eng = y.eng
  BY <1>2 DEF MaskOf, SameData
<1>6. ArmedNow(z)
  BY <1>2, <1>5 DEF ArmedNow
<1> QED
  BY <1>2, <1>3, <1>4, <1>5, <1>6 DEF RearmedAs, z

\* With no job left and the trap just armed, a frame is watched that is not at its end.
LEMMA WatchFresh ==
  ASSUME NEW K, NEW z, ArmedNow(z), Batching(z, K, Cur(z)), ~z.finished, ~z.stale,
         \A e \in Engines : ~z.inflight[e] /\ ~z.deferred[e]
  PROVE Watch(z, K, Cur(z))
<1>1. Armed(z)
  BY DEF Armed, ArmedNow
<1>2. JobMap(z, K.vm)
  BY DEF JobMap
<1> QED
  BY <1>1, <1>2 DEF Watch

\* Engine A's lines no longer trail behind by one, f being FALSE.
LagOff(g, f) == [g EXCEPT !.lag = f]
LagOffAs(K, g, h) ==
  /\ Core(h, K, Cur(h)) /\ Frame(h) /\ Cur(h) = Cur(g)
  /\ SameJobs(g, h) /\ SameData(g, h) /\ SameFlight(g, h)
  /\ h.line = g.line /\ h.hblank = g.hblank /\ h.lazy = g.lazy /\ ~h.lag
  /\ h.per_line = g.per_line /\ h.finished = g.finished

\* Nothing else changes.
LEMMA LagOffIs ==
  ASSUME NEW K, NEW g, Core(g, K, Cur(g)), Frame(g), NEW f \in BOOLEAN, ~f
  PROVE LagOffAs(K, g, LagOff(g, f))
<1> DEFINE h == LagOff(g, f)
<1>1. Typed(g) /\ ~g.aborted /\ \A e \in Engines : g.burst[e] => g.per_line[e]
  BY DEF Core, Base, EngOk, JobOk
<1>2. Typed(h) /\ h.lag = f
  BY <1>1 DEF Typed, Members, LagOff
<1>3. /\ SameJobs(g, h) /\ SameData(g, h) /\ SameFlight(g, h) /\ SameCounts(g, h)
      /\ h.line = g.line /\ h.hblank = g.hblank /\ h.lazy = g.lazy
      /\ h.per_line = g.per_line /\ h.burst = g.burst
      /\ h.finished = g.finished /\ h.aborted = g.aborted /\ h.jn = g.jn
  BY <1>1 DEF Typed, Members, LagOff, SameJobs, SameData, SameFlight, SameCounts
<1> HIDE DEF h
<1>4. Frame(h) /\ Cur(h) = Cur(g)
  <2>1. h.journal = g.journal /\ h.eng = g.eng /\ h.next = g.next
    BY <1>3 DEF SameData, SameCounts
  <2> QED
    BY <2>1, <1>3, FrameKept
<1>5. Core(h, K, Cur(h))
  BY <1>1, <1>2, <1>3, <1>4, CoreKept
<1> QED
  BY <1>2, <1>3, <1>4, <1>5 DEF LagOffAs, h

\* Too many stores: engine A's lines are joined and no longer trail behind.
LEMMA LagDropDone ==
  ASSUME NEW ex \in BOOLEAN, NEW K, K = Ktx(ex), Fit(gpu, K), gpu.trap,
         NEW es \in SUBSET Engines, NEW j, Ready(K, ex, es, j), \A e \in es : gpu.per_line[e],
         NEW f \in BOOLEAN, ~f, NEW z, z = arm_trap(LagOff(join_worker(j), f)),
         NEW b \in Banks, \A o \in Engines \ es : vmap[b] \notin Reads(o),
         NEW vr2, \A y \in Banks : y # b => vr2[y] = ver[y]
  PROVE StoreDone(K, ex, z, vr2)
<1> DEFINE h == join_worker(j)
           y == LagOff(h, f)
<1>1. /\ Ctx(K) /\ K.ver = ver /\ K.vm = vmap
      /\ K.fall = (ex /\ gpu.trap /\ 0 \in gpu.mask)
  BY Given
<1>2. /\ Core(j, K, Cur(j)) /\ Frame(j) /\ SameFrame(gpu, j) /\ j.trap = gpu.trap
      /\ ~j.deferred[0]
      /\ ex => Watch(j, K, Cur(j)) /\ (j.stale => es = Engines)
  BY DEF Ready
<1>3. JoinKept(K, j, h)
  BY <1>1, <1>2, JoinKeeps
<1> HIDE DEF h
<1>4. /\ Core(h, K, Cur(h)) /\ Frame(h) /\ Cur(h) = Cur(j) /\ SameFrame(j, h)
      /\ h.finished = j.finished
      /\ \A e \in Engines : ~h.inflight[e] /\ ~h.deferred[e]
      /\ ((j.stale => in_flight(j)) => ~h.stale)
  BY <1>3 DEF JoinKept
<1>5. LagOffAs(K, h, y)
  BY <1>4, LagOffIs
<1> HIDE DEF y
<1>6. /\ Core(y, K, Cur(y)) /\ Frame(y) /\ Cur(y) = Cur(h)
      /\ SameJobs(h, y) /\ SameData(h, y) /\ SameFlight(h, y)
      /\ y.line = h.line /\ y.hblank = h.hblank /\ y.lazy = h.lazy /\ ~y.lag
      /\ y.per_line = h.per_line /\ y.finished = h.finished
  BY <1>5 DEF LagOffAs
<1>7. RearmedAs(K, y, z)
  BY <1>6, RearmedIs DEF y, h
<1>8. /\ Core(z, K, Cur(z)) /\ Frame(z) /\ Cur(z) = Cur(j) /\ ArmedNow(z) /\ MaskOf(z) = MaskOf(y)
      /\ z.stale = h.stale /\ z.inflight = h.inflight /\ z.deferred = h.deferred
      /\ z.line = gpu.line /\ z.hblank = gpu.hblank /\ z.lazy = gpu.lazy
      /\ z.per_line = gpu.per_line /\ z.finished = j.finished
  BY <1>2, <1>4, <1>6, <1>7 DEF RearmedAs, SameFrame, SameJobs, SameFlight
<1>9. ASSUME ex PROVE Watch(z, K, Cur(z)) /\ TrapFalls(z) /\ Alike(z, K, Cur(z), vmap, vr2)
  <2>1. Watch(j, K, Cur(j)) /\ j.trap /\ ~j.finished /\ j.mask = MaskOf(j)
        /\ (j.stale => in_flight(j)) /\ Batching(j, K, Cur(j))
    BY <1>2, <1>9 DEF Watch, Armed
  <2>2. Batching(z, K, Cur(z))
    BY <2>1, <1>2, <1>8 DEF Batching, SameFrame
  <2>3. Watch(z, K, Cur(z))
    BY <2>1, <2>2, <1>4, <1>8, WatchFresh
  <2>4. TrapFalls(z)
    <3>1. MaskOf(z) \subseteq MaskOf(j)
      BY <1>2, <1>4, <1>6, <1>8 DEF MaskOf, SameFrame
    <3>2. K.fall = (j.trap /\ 0 \in j.mask)
      BY <1>1, <1>2, <1>9 DEF SameFrame
    <3> QED
      BY <3>1, <3>2, <2>1, <1>8, FallsArmed
  <2>5. ASSUME NEW e \in Engines
        PROVE \/ PosOf(z, Cur(z), e) = K.E
              \/ (z.inflight[e] => z.job_map[e] = K.vm) /\ K.vm[b] \notin Reads(e)
    <3>0. ~z.inflight[e]
      BY <1>4, <1>8
    <3>1. CASE e \in es
      <4>1. Cur(z)[e] \in 0..K.E /\ K.E \in Nat
        BY <1>1, <1>8, LinesAssumption DEF Core, Base, Ctx
      <4>2. ~(Cur(z)[e] < K.E)
        BY <2>2, <1>8, <3>1 DEF Batching
      <4> QED
        BY <4>1, <4>2, <3>0 DEF PosOf
    <3>2. CASE e \notin es
      BY <3>0, <3>2, <1>1
    <3> QED
      BY <3>1, <3>2
  <2>6. Alike(z, K, Cur(z), K.vm, vr2)
    <3>1. \A y0 \in Banks : y0 # b => vr2[y0] = K.ver[y0]
      BY <1>1
    <3> QED
      BY <3>1, <2>5, <1>1, <1>8, HiddenBy
  <2> QED
    BY <2>3, <2>4, <2>6, <1>1
<1> QED
  BY <1>8, <1>9 DEF StoreDone

\* A store to a bank whose place is not trapped leaves Gpu alone.
LEMMA UntrappedDone ==
  ASSUME NEW ex \in BOOLEAN, NEW K, K = Ktx(ex), Fit(gpu, K),
         NEW b \in Banks, vmap[b] # "texture", ~Trapped(gpu, vmap[b]),
         NEW vr2, \A y \in Banks : y # b => vr2[y] = ver[y]
  PROVE StoreDone(K, ex, gpu, vr2)
<1>1. /\ Ctx(K) /\ Core(gpu, K, Cur(gpu)) /\ Frame(gpu) /\ (ex => Watch(gpu, K, Cur(gpu)))
      /\ K.E = Scanned(gpu) /\ K.vm = vmap /\ K.ver = ver
      /\ K.fall = (ex /\ gpu.trap /\ 0 \in gpu.mask)
      /\ K.lay = (ex /\ gpu.trap /\ 0 \in gpu.mask /\ ~gpu.lcdc)
  BY Given
<1>2. ASSUME ex PROVE Watch(gpu, K, Cur(gpu)) /\ TrapFalls(gpu) /\ Alike(gpu, K, Cur(gpu), vmap, vr2)
  <2>1. K.fall = (gpu.trap /\ 0 \in gpu.mask) /\ K.lay = (gpu.trap /\ 0 \in gpu.mask /\ ~gpu.lcdc)
    BY <1>1, <1>2
  <2>2. TrapFalls(gpu)
    BY <2>1, <1>1, FallsKept
  <2>3. \A y \in Banks : y # b => vr2[y] = K.ver[y]
    BY <1>1
  <2>4. K.vm[b] # "texture" /\ ~Trapped(gpu, K.vm[b])
    BY <1>1
  <2>5. Watch(gpu, K, Cur(gpu))
    BY <1>1, <1>2
  <2>6. Alike(gpu, K, Cur(gpu), K.vm, vr2)
    BY <2>2, <2>3, <2>4, <2>5, <1>1, UntrappedAlike
  <2> QED
    BY <2>2, <2>5, <2>6, <1>1
<1> QED
  BY <1>1, <1>2 DEF StoreDone

\* A store in the vertical blank, with the frame's last lines left to a worker.
BlankStore(es) ==
  IF es \cap (IF gpu.deferred[1] THEN Engines ELSE {0}) # {} THEN join_worker(gpu) ELSE gpu

\* It joins the job when it reaches an engine that is in flight.
LEMMA BlankStoreDone ==
  ASSUME NEW ex \in BOOLEAN, NEW K, K = Ktx(ex), Fit(gpu, K), gpu.deferred[0],
         NEW es \in SUBSET Engines, gpu.stale => es = Engines, NEW z, z = BlankStore(es),
         NEW b \in Banks, \A o \in Engines \ es : vmap[b] \notin Reads(o),
         NEW vr2, \A y \in Banks : y # b => vr2[y] = ver[y]
  PROVE StoreDone(K, ex, z, vr2)
<1>1. /\ Ctx(K) /\ Core(gpu, K, Cur(gpu)) /\ Frame(gpu) /\ (ex => Watch(gpu, K, Cur(gpu)))
      /\ K.E = Scanned(gpu) /\ K.vm = vmap /\ K.ver = ver
      /\ K.fall = (ex /\ gpu.trap /\ 0 \in gpu.mask)
      /\ K.lay = (ex /\ gpu.trap /\ 0 \in gpu.mask /\ ~gpu.lcdc)
  BY Given
<1>2. /\ K.E = SCREEN_H
      /\ \A e \in Engines : /\ Cur(gpu)[e] = SCREEN_H
                            /\ gpu.inflight[e] <=> gpu.deferred[e]
                            /\ ~gpu.inflight[e] => PosOf(gpu, Cur(gpu), e) = SCREEN_H
  <2>1. Cur(gpu)[0] = SCREEN_H
    BY <1>1 DEF Core, EngOk, JobOk, Engines
  <2>2. Cur(gpu)[0] \in 0..K.E /\ K.E \in 0..SCREEN_H /\ SCREEN_H \in Nat
    BY <1>1, LinesAssumption DEF Core, Base, Ctx, Engines
  <2>3. frontier(gpu) >= SCREEN_H
    <3>1. frontier(gpu) \in Nat
      BY <1>1 DEF Core, Base, Typed, Members, frontier
    <3> QED
      BY <2>1, <2>2, <3>1, <1>1 DEF Scanned
  <2> QED
    BY <2>3, <1>1, PastLast
<1>3. CASE es \cap (IF gpu.deferred[1] THEN Engines ELSE {0}) # {}
  <2>1. JoinKept(K, gpu, z)
    BY <1>1, <1>3, JoinKeeps DEF BlankStore
  <2>2. /\ Core(z, K, Cur(z)) /\ Frame(z) /\ Cur(z) = Cur(gpu) /\ SameFrame(gpu, z)
        /\ (z.trap => gpu.trap) /\ \A e \in Engines : ~z.inflight[e]
    BY <2>1 DEF JoinKept
  <2>3. z.line = gpu.line /\ z.hblank = gpu.hblank /\ z.mask = gpu.mask /\ z.lcdc = gpu.lcdc
    BY <2>2 DEF SameFrame
  <2>4. ASSUME ex PROVE Watch(z, K, Cur(z)) /\ TrapFalls(z) /\ Alike(z, K, Cur(z), vmap, vr2)
    <3>1. Watch(z, K, Cur(z))
      BY <2>1, <2>4, <1>1, JoinWatch
    <3>2. TrapFalls(z)
      <4>1. K.fall = (gpu.trap /\ 0 \in gpu.mask) /\ K.lay = (gpu.trap /\ 0 \in gpu.mask /\ ~gpu.lcdc)
        BY <1>1, <2>4
      <4> QED
        BY <4>1, <2>2, <2>3, FallsKept
    <3>3. \A e \in Engines : PosOf(z, Cur(z), e) = K.E
      BY <1>2, <2>2 DEF PosOf
    <3>4. \A y \in Banks : y # b => vr2[y] = K.ver[y]
      BY <1>1
    <3>5. Alike(z, K, Cur(z), K.vm, vr2)
      BY <3>3, <3>4, <2>2, <1>1, HiddenBy
    <3> QED
      BY <3>1, <3>2, <3>5, <1>1
  <2> QED
    BY <2>2, <2>3, <2>4 DEF StoreDone
<1>4. CASE es \cap (IF gpu.deferred[1] THEN Engines ELSE {0}) = {}
  <2>1. z = gpu
    BY <1>4 DEF BlankStore
  <2>2. 0 \notin es /\ (gpu.deferred[1] => 1 \notin es)
    BY <1>4 DEF Engines
  <2>3. ~gpu.stale
    BY <2>2 DEF Engines
  <2>4. ASSUME ex PROVE Watch(z, K, Cur(z)) /\ TrapFalls(z) /\ Alike(z, K, Cur(z), vmap, vr2)
    <3>1. Watch(gpu, K, Cur(gpu))
      BY <2>4, <1>1
    <3>2. TrapFalls(gpu)
      <4>1. K.fall = (gpu.trap /\ 0 \in gpu.mask) /\ K.lay = (gpu.trap /\ 0 \in gpu.mask /\ ~gpu.lcdc)
        BY <1>1, <2>4
      <4> QED
        BY <4>1, <1>1, FallsKept
    <3>3. \A e \in Engines : \/ PosOf(gpu, Cur(gpu), e) = K.E
                             \/ /\ gpu.inflight[e] => gpu.job_map[e] = K.vm
                                /\ K.vm[b] \notin Reads(e)
      <4> SUFFICES ASSUME NEW e \in Engines, PosOf(gpu, Cur(gpu), e) # K.E
                   PROVE /\ gpu.inflight[e] => gpu.job_map[e] = K.vm
                         /\ K.vm[b] \notin Reads(e)
        OBVIOUS
      <4>1. gpu.deferred[e]
        BY <1>2
      <4>2. e \notin es
        BY <4>1, <2>2 DEF Engines
      <4> QED
        BY <4>2, <2>3, <3>1, <1>1 DEF Watch, JobMap
    <3>4. \A y \in Banks : y # b => vr2[y] = K.ver[y]
      BY <1>1
    <3>5. Alike(gpu, K, Cur(gpu), K.vm, vr2)
      BY <3>3, <3>4, <1>1, HiddenBy
    <3> QED
      BY <3>1, <3>2, <3>5, <1>1, <2>1
  <2> QED
    BY <2>1, <2>4, <1>1 DEF StoreDone
<1> QED
  BY <1>3, <1>4

\* The store's parts: the Gpu with the engines it reaches joined, the engines
\* it is charged to, those that are still allowed a burst.
JoinedFor(es) == IF \E e \in es : gpu.inflight[e] THEN join_worker(gpu) ELSE gpu
ChargedTo(es) == {e \in es : ~gpu.per_line[e]}
Bursting(es) == {e \in ChargedTo(es) : Charged(JoinedFor(es), ChargedTo(es)).bursts[e] < LAZY_BURST_LIMIT}
CountStore(j, f) == IF Counted(j).stores >= LAG_STORE_LIMIT /\ Counted(j).lag
                    THEN arm_trap(LagOff(join_worker(Counted(j)), f)) ELSE Counted(j)
ChargeStore(es, parked, t, f) ==
  IF Bursting(es) # {} THEN SomePerLine(Charged(JoinedFor(es), ChargedTo(es)), Bursting(es), parked, t)
  ELSE SomePerLine(Charged(JoinedFor(es), ChargedTo(es)), es, parked, f)

\* vram_store_trap is made of these.
LEMMA StoreTrapIs ==
  ASSUME NEW p, NEW parked, NEW t, t = TRUE, NEW f, f = FALSE
  PROVE /\ ~gpu.trap \/ (p = "LCDC" /\ ~gpu.lcdc) => vram_store_trap(gpu, p, parked) = gpu
        /\ gpu.trap /\ (p = "LCDC" => gpu.lcdc) /\ gpu.deferred[0] =>
             vram_store_trap(gpu, p, parked) = BlankStore(ReachedBy(gpu, p))
        /\ gpu.trap /\ (p = "LCDC" => gpu.lcdc) /\ ~gpu.deferred[0] =>
             vram_store_trap(gpu, p, parked)
               = IF ChargedTo(ReachedBy(gpu, p)) = {} THEN CountStore(JoinedFor(ReachedBy(gpu, p)), f)
                 ELSE ChargeStore(ReachedBy(gpu, p), parked, t, f)
<1> DEFINE es == ReachedBy(gpu, p)
           j == JoinedFor(es)
           ch == ChargedTo(es)
<1>1. CASE ~gpu.trap \/ (p = "LCDC" /\ ~gpu.lcdc)
  BY <1>1 DEF vram_store_trap
<1>2. CASE gpu.trap /\ (p = "LCDC" => gpu.lcdc) /\ gpu.deferred[0]
  BY <1>2 DEF vram_store_trap, BlankStore, ReachedBy
<1>3. CASE gpu.trap /\ (p = "LCDC" => gpu.lcdc) /\ ~gpu.deferred[0]
  BY <1>3 DEF vram_store_trap, CountStore, ChargeStore, Bursting, ChargedTo, JoinedFor, ReachedBy,
              SomePerLine, Charged, Counted, LagOff, fall_back_per_line
<1> QED
  BY <1>1, <1>2, <1>3

\* While a job in flight keeps an older map a store reaches both engines: they
\* have their last burst together.
Budget ==
  gpu.stale /\ ~gpu.deferred[0] /\ (\A e \in Engines : ~gpu.per_line[e]) =>
    \A e, o \in Engines : gpu.bursts[e] + 1 < LAZY_BURST_LIMIT => gpu.bursts[o] + 1 < LAZY_BURST_LIMIT

\* The engines reached, all of them or one, are charged and go on in a burst.
LEMMA BurstAll ==
  ASSUME Typed(gpu), Budget, ~gpu.deferred[0], NEW p \in {"A", "B", "LCDC"}, NEW es, es = ReachedBy(gpu, p),
         NEW j, j.bursts = gpu.bursts, Typed(j), j = JoinedFor(es), Bursting(es) # {}
  PROVE \A e \in es : e \in Bursting(es) \/ gpu.per_line[e]
<1>1. es \in SUBSET Engines /\ ChargedTo(es) \in SUBSET Engines
  BY DEF ReachedBy, reach_engines, ChargedTo, Engines
<1>2. \A e \in Engines : Charged(j, ChargedTo(es)).bursts[e]
                           = gpu.bursts[e] + IF e \in ChargedTo(es) THEN 1 ELSE 0
  BY <1>1, ChargedIs
<1>3. CASE gpu.stale
  <2> SUFFICES ASSUME NEW o \in es, ~gpu.per_line[o] PROVE o \in Bursting(es)
    OBVIOUS
  <2>1. PICK e \in Bursting(es) : TRUE
    OBVIOUS
  <2>2. e \in Engines /\ e \in ChargedTo(es) /\ gpu.bursts[e] + 1 < LAZY_BURST_LIMIT
    BY <2>1, <1>1, <1>2 DEF Bursting
  <2>3. o \in Engines /\ o \in ChargedTo(es)
    BY <1>1 DEF ChargedTo
  <2>4. gpu.bursts[o] + 1 < LAZY_BURST_LIMIT
    <3>1. CASE o = e
      BY <3>1, <2>2
    <3>2. CASE o # e
      <4>1. \A x \in Engines : x = e \/ x = o
        BY <3>2, <2>2, <2>3 DEF Engines
      <4>2. \A x \in Engines : ~gpu.per_line[x]
        BY <4>1, <2>2 DEF ChargedTo
      <4> QED
        BY <4>2, <2>2, <2>3, <1>3 DEF Budget
    <3> QED
      BY <3>1, <3>2
  <2> QED
    BY <2>3, <2>4, <1>2 DEF Bursting
<1>4. CASE ~gpu.stale
  <2>1. \A a, c \in es : a = c
    BY <1>4 DEF ReachedBy, reach_engines
  <2> QED
    BY <2>1 DEF Bursting, ChargedTo
<1> QED
  BY <1>3, <1>4

\* The jobs of the engines reached are joined, the counts are as they were.
LEMMA JoinedForIs ==
  ASSUME NEW ex \in BOOLEAN, NEW K, K = Ktx(ex), Fit(gpu, K), ~gpu.deferred[0],
         NEW es \in SUBSET Engines, gpu.stale => es = Engines
  PROVE Ready(K, ex, es, JoinedFor(es)) /\ JoinedFor(es).bursts = gpu.bursts /\ Typed(JoinedFor(es))
<1>1. /\ Ctx(K) /\ K.ver = ver /\ K.vm = vmap /\ Core(gpu, K, Cur(gpu)) /\ Frame(gpu)
  BY Given
<1>2. Ready(K, ex, es, JoinedFor(es))
  BY ReadyJoined DEF JoinedFor
<1>3. JoinKept(K, gpu, join_worker(gpu))
  BY <1>1, JoinKeeps
<1>4. join_worker(gpu).bursts = gpu.bursts
  BY <1>3 DEF JoinKept, SameCounts
<1>5. JoinedFor(es).bursts = gpu.bursts
  BY <1>4 DEF JoinedFor
<1>6. Typed(JoinedFor(es))
  BY <1>2 DEF Ready, Core, Base
<1> QED
  BY <1>2, <1>5, <1>6

\* A store that the trap sees leaves no line that shows it.
LEMMA TrapStoreDone ==
  ASSUME NEW ex \in BOOLEAN, NEW K, K = Ktx(ex), Fit(gpu, K), ex => Budget,
         NEW b \in Banks, NEW p \in {"A", "B", "LCDC"}, vmap[b] = p, NEW parked \in BOOLEAN,
         NEW vr2, \A y \in Banks : y # b => vr2[y] = ver[y]
  PROVE StoreDone(K, ex, vram_store_trap(gpu, p, parked), vr2)
<1> PICK t \in BOOLEAN : t = TRUE
  OBVIOUS
<1> PICK f \in BOOLEAN : f = FALSE
  OBVIOUS
<1> DEFINE z == vram_store_trap(gpu, p, parked)
           es == ReachedBy(gpu, p)
<1>1. /\ ~gpu.trap \/ (p = "LCDC" /\ ~gpu.lcdc) => z = gpu
      /\ gpu.trap /\ (p = "LCDC" => gpu.lcdc) /\ gpu.deferred[0] => z = BlankStore(es)
      /\ gpu.trap /\ (p = "LCDC" => gpu.lcdc) /\ ~gpu.deferred[0] =>
           z = IF ChargedTo(es) = {} THEN CountStore(JoinedFor(es), f)
               ELSE ChargeStore(es, parked, t, f)
  BY StoreTrapIs
<1>2. Typed(gpu)
  BY Given
<1> HIDE DEF z
<1>3. CASE ~gpu.trap \/ (p = "LCDC" /\ ~gpu.lcdc)
  <2>1. ~Trapped(gpu, vmap[b]) /\ vmap[b] # "texture"
    BY <1>3 DEF Trapped, Window
  <2>2. StoreDone(K, ex, gpu, vr2)
    BY <2>1, UntrappedDone
  <2> QED
    BY <2>2, <1>1, <1>3 DEF z
<1>4. CASE gpu.trap /\ (p = "LCDC" => gpu.lcdc)
  <2>1. /\ es \in SUBSET Engines /\ (gpu.stale => es = Engines)
        /\ \A o \in Engines \ es : vmap[b] \notin Reads(o)
    BY <1>4, ReachedIs
  <2> HIDE DEF es
  <2>2. CASE gpu.deferred[0]
    <3>1. StoreDone(K, ex, BlankStore(es), vr2)
      BY <2>1, <2>2, BlankStoreDone
    <3> QED
      BY <3>1, <1>1, <1>4, <2>2 DEF z
  <2>3. CASE ~gpu.deferred[0]
    <3>1. Ready(K, ex, es, JoinedFor(es)) /\ JoinedFor(es).bursts = gpu.bursts /\ Typed(JoinedFor(es))
      BY <2>1, <2>3, JoinedForIs
    <3>2. CASE ChargedTo(es) = {}
      <4>1. \A e \in es : gpu.per_line[e]
        BY <3>2 DEF ChargedTo
      <4>2. Ready(K, ex, es, Counted(JoinedFor(es)))
        BY <3>1, CountedIs, ReadyCounters
      <4>3. StoreDone(K, ex, Counted(JoinedFor(es)), vr2)
        BY <4>1, <4>2, <2>1, CountedDone
      <4>4. StoreDone(K, ex, arm_trap(LagOff(join_worker(Counted(JoinedFor(es))), f)), vr2)
        BY <4>1, <4>2, <2>1, <1>4, LagDropDone
      <4>5. StoreDone(K, ex, CountStore(JoinedFor(es), f), vr2)
        BY <4>3, <4>4 DEF CountStore
      <4> QED
        BY <4>5, <3>2, <2>3, <1>1, <1>4 DEF z
    <3>3. CASE ChargedTo(es) # {}
      <4>1. ChargedTo(es) \in SUBSET Engines /\ Bursting(es) \in SUBSET Engines
            /\ Bursting(es) \subseteq es
        BY <2>1 DEF ChargedTo, Bursting
      <4> DEFINE g1 == Charged(JoinedFor(es), ChargedTo(es))
      <4>2. Ready(K, ex, es, g1)
        BY <3>1, <4>1, ChargedIs, ReadyCounters
      <4> HIDE DEF g1
      <4>3. ASSUME Bursting(es) # {} PROVE StoreDone(K, ex, SomePerLine(g1, Bursting(es), parked, t), vr2)
        <5>1. ex => \A e \in es : e \in Bursting(es) \/ gpu.per_line[e]
          BY <3>1, <4>3, <1>2, <2>3, BurstAll DEF es
        <5> DEFINE bs == Bursting(es)
        <5>2. bs \in SUBSET Engines /\ bs \subseteq es
          BY <4>1
        <5>3. ex => \A e \in es : e \in bs \/ gpu.per_line[e]
          BY <5>1
        <5> SUFFICES StoreDone(K, ex, SomePerLine(g1, bs, parked, t), vr2)
          OBVIOUS
        <5> HIDE DEF bs
        <5> QED
          BY <5>2, <5>3, <4>2, <2>1, <1>4, PerLineDone
      <4>4. StoreDone(K, ex, SomePerLine(g1, es, parked, f), vr2)
        <5>1. es \subseteq es /\ (ex => \A e \in es : e \in es \/ gpu.per_line[e])
          OBVIOUS
        <5> QED
          BY <5>1, <4>2, <2>1, <1>4, PerLineDone
      <4>5. StoreDone(K, ex, ChargeStore(es, parked, t, f), vr2)
        BY <4>3, <4>4 DEF ChargeStore, g1
      <4> QED
        BY <4>5, <3>3, <2>3, <1>1, <1>4 DEF z
    <3> QED
      BY <3>2, <3>3
  <2> QED
    BY <2>2, <2>3
<1> QED
  BY <1>3, <1>4

\* A store to a bank where it is mapped.
LEMMA StoreKeeps ==
  ASSUME NEW ex \in BOOLEAN, Fit(gpu, Ktx(ex)), gpu.drawn = {}, ex => Budget,
         NEW b \in Banks, Store(b)
  PROVE Kept(ex)
<1>1. /\ Ctx(Ktx(ex)) /\ Ktx(ex).ver = ver /\ Ktx(ex).vm = vmap
  BY Given
<1>2. ver \in [Banks -> Nat] /\ vmap \in [Banks -> Places]
  BY <1>1 DEF Ctx
<1> DEFINE vr2 == [ver EXCEPT ![b] = @ + 1]
<1>3. vr2 \in [Banks -> Nat] /\ \A y \in Banks : y # b => vr2[y] = ver[y]
  BY <1>2
<1>4. /\ n' = n /\ mode' = mode /\ edges' = edges /\ ver' = vr2 /\ vmap' = vmap
      /\ vmap[b] # "texture"
      /\ \/ vmap[b] # "ARM7" /\ \E parked \in BOOLEAN :
                                  Draws(vram_store_trap(gpu, vmap[b], parked), due)
         \/ (vmap[b] = "ARM7" \/ ~Trapped(gpu, vmap[b])) /\ Draws(gpu, due)
  BY DEF Store
<1> HIDE DEF vr2
<1>5. PICK z : StoreDone(Ktx(ex), ex, z, vr2) /\ Draws(z, due)
  <2>1. CASE vmap[b] # "ARM7" /\ \E parked \in BOOLEAN :
               Draws(vram_store_trap(gpu, vmap[b], parked), due)
    <3>1. PICK parked \in BOOLEAN : Draws(vram_store_trap(gpu, vmap[b], parked), due)
      BY <2>1
    <3>2. vmap[b] \in {"A", "B", "LCDC"}
      BY <2>1, <1>2, <1>4 DEF Places
    <3> DEFINE p == vmap[b]
    <3>3. p \in {"A", "B", "LCDC"} /\ vmap[b] = p
      BY <3>2
    <3>4. Draws(vram_store_trap(gpu, p, parked), due)
      BY <3>1
    <3> HIDE DEF p
    <3>5. StoreDone(Ktx(ex), ex, vram_store_trap(gpu, p, parked), vr2)
      BY <3>3, <1>3, TrapStoreDone
    <3> QED
      BY <3>4, <3>5
  <2>2. CASE (vmap[b] = "ARM7" \/ ~Trapped(gpu, vmap[b])) /\ Draws(gpu, due)
    <3>1. ~Trapped(gpu, vmap[b])
      BY <2>2 DEF Trapped, Window
    <3>2. StoreDone(Ktx(ex), ex, gpu, vr2)
      BY <3>1, <1>3, <1>4, UntrappedDone
    <3> QED
      BY <3>2, <2>2
  <2> QED
    BY <2>1, <2>2, <1>4
<1>6. /\ Core(z, Ktx(ex), Cur(z)) /\ Frame(z) /\ z.line = gpu.line /\ z.hblank = gpu.hblank
      /\ ex => Watch(z, Ktx(ex), Cur(z)) /\ TrapFalls(z) /\ Alike(z, Ktx(ex), Cur(z), vmap, vr2)
  BY <1>5 DEF StoreDone
<1>7. Ktx(ex).E = Scanned(gpu)
  BY Given
<1>8. ex => Watch(z, Ktx(ex), Cur(z))
  BY <1>6
<1>9. ex => TrapFalls(z)
  BY <1>6
<1>10. ex => Alike(z, Ktx(ex), Cur(z), vmap, vr2)
  BY <1>6
<1> QED
  BY <1>1, <1>2, <1>3, <1>4, <1>5, <1>6, <1>7, <1>8, <1>9, <1>10, SeenEnd

\* What a new VRAM map vm2 finds: no line that is still to be drawn is shown by it.
RemapDone(K, ex, z, vm2) ==
  /\ Core(z, K, Cur(z)) /\ Frame(z) /\ z.line = gpu.line /\ z.hblank = gpu.hblank
  /\ ex => TrapFalls(z) /\ Alike(z, K, Cur(z), vm2, ver)
  /\ ex => \A L : L.E = K.E /\ L.vm = vm2 => Watch(z, L, Cur(z))

\* With the engines caught up, their jobs alone are to draw, with maps of their own.
LEMMA CaughtAlike ==
  ASSUME NEW K, Ctx(K), NEW z, Core(z, K, Cur(z)), \A e \in Engines : Cur(z)[e] = K.E, K.ver = ver,
         NEW vm2
  PROVE Alike(z, K, Cur(z), vm2, ver)
<1> SUFFICES ASSUME NEW e \in Engines, NEW x \in PosOf(z, Cur(z), e)..K.E - 1
             PROVE MapAt(z.job_map[e], x, Cur(z)[e], vm2) = MapAt(z.job_map[e], x, Cur(z)[e], K.vm)
  BY DEF Alike
<1>1. PosOf(z, Cur(z), e) \in 0..K.E /\ K.E \in Nat /\ (z.inflight[e] <=> z.job_map[e] # <<>>)
  BY LinesAssumption DEF Core, EngOk, JobOk, Eng, Ctx
<1>2. x < K.E
  BY <1>1
<1>3. z.inflight[e]
  BY <1>1, <1>2 DEF PosOf
<1>4. z.job_map[e] # <<>> /\ x < Cur(z)[e]
  BY <1>1, <1>2, <1>3
<1> QED
  BY <1>4 DEF MapAt

\* The map changes under a job in flight, t being TRUE.
StaleOf(g, t) == [g EXCEPT !.stale = t]
StaleAs(K, g, h) ==
  /\ Core(h, K, Cur(h)) /\ Frame(h) /\ Cur(h) = Cur(g) /\ h.stale
  /\ SameFrame(g, h) /\ SameJobs(g, h) /\ h.scale = g.scale
  /\ h.finished = g.finished /\ h.trap = g.trap

\* Nothing else changes.
LEMMA StaleIs ==
  ASSUME NEW K, NEW g, Core(g, K, Cur(g)), Frame(g), NEW t \in BOOLEAN, t
  PROVE StaleAs(K, g, StaleOf(g, t))
<1> DEFINE h == StaleOf(g, t)
<1>1. Typed(g) /\ ~g.aborted /\ \A e \in Engines : g.burst[e] => g.per_line[e]
  BY DEF Core, Base, EngOk, JobOk
<1>2. Typed(h) /\ h.stale = t
  BY <1>1 DEF Typed, Members, StaleOf
<1>3. /\ SameFrame(g, h) /\ SameJobs(g, h) /\ SameData(g, h) /\ h.scale = g.scale
      /\ h.next = g.next /\ h.finished = g.finished /\ h.trap = g.trap
      /\ h.aborted = g.aborted /\ h.jn = g.jn
  BY <1>1 DEF Typed, Members, StaleOf, SameFrame, SameJobs, SameData
<1> HIDE DEF h
<1>4. Cur(h) = Cur(g) /\ Top(h) = Top(g) /\ frontier(h) = frontier(g) /\ in_flight(h) = in_flight(g)
  BY <1>3 DEF Cur, Top, frontier, in_flight, SameFrame, SameJobs
<1>5. Frame(h)
  BY <1>3, <1>4 DEF Frame, SameFrame, SameJobs, SameData
<1>6. \A e \in Engines : h.burst[e] => h.per_line[e]
  BY <1>1, <1>3 DEF SameFrame
<1>7. Core(h, K, Cur(h))
  BY <1>1, <1>2, <1>3, <1>4, <1>6, CoreKept
<1> QED
  BY <1>2, <1>3, <1>4, <1>5, <1>7 DEF StaleAs, h

\* No bank that a job in flight reads has moved and moves again.
StaysPut(vm2) ==
  \A e \in Engines : \A b \in Banks :
    gpu.inflight[e] /\ gpu.job_map[e][b] \in Reads(e) /\ vmap[b] # gpu.job_map[e][b] =>
      vm2[b] = vmap[b]

\* Every bank of a job in flight stays trapped: the job keeps its map.
LEMMA CoveredDone ==
  ASSUME NEW ex \in BOOLEAN, NEW K, K = Ktx(ex), Fit(gpu, K),
         NEW vm2 \in [Banks -> Places], ex => StaysPut(vm2), covered(gpu, vm2), NEW parked \in BOOLEAN,
         NEW t \in BOOLEAN, t, NEW s, s = StaleOf(gpu, t), NEW es, es = Engines,
         NEW z, z = catch_up(s, es, parked)
  PROVE RemapDone(K, ex, z, vm2)
<1>1. /\ Ctx(K) /\ Core(gpu, K, Cur(gpu)) /\ Frame(gpu) /\ (ex => Watch(gpu, K, Cur(gpu)))
      /\ K.E = Scanned(gpu) /\ K.vm = vmap /\ K.ver = ver
      /\ K.fall = (ex /\ gpu.trap /\ 0 \in gpu.mask)
      /\ K.lay = (ex /\ gpu.trap /\ 0 \in gpu.mask /\ ~gpu.lcdc)
  BY Given
<1>2. StaleAs(K, gpu, s)
  BY <1>1, StaleIs
<1>3. /\ Core(s, K, Cur(s)) /\ Frame(s) /\ Cur(s) = Cur(gpu) /\ s.stale
      /\ SameFrame(gpu, s) /\ SameJobs(gpu, s) /\ s.scale = gpu.scale
      /\ s.finished = gpu.finished /\ s.trap = gpu.trap
  BY <1>2 DEF StaleAs
<1>4. K.E = Scanned(s)
  BY <1>1, <1>3 DEF Scanned, frontier, SameFrame
<1>5. CaughtUp(s, K, es, parked)
  <2>1. es \in SUBSET Engines
    OBVIOUS
  <2> QED
    BY <2>1, <1>1, <1>3, <1>4, CatchUp
<1>6. /\ Core(z, K, Cur(z)) /\ Frame(z) /\ SameFrame(s, z)
      /\ z.finished = s.finished /\ z.trap = s.trap
      /\ \A e \in Engines : Cur(z)[e] = K.E
      /\ z = s \/ /\ frontier(s) < SCREEN_H
                  /\ \A e \in Engines : ~z.inflight[e]
                  /\ (s.stale => in_flight(s)) => ~z.stale
  BY <1>5 DEF CaughtUp
<1>7. z.line = gpu.line /\ z.hblank = gpu.hblank /\ z.mask = gpu.mask /\ z.lcdc = gpu.lcdc
      /\ MaskOf(z) = MaskOf(gpu) /\ z.finished = gpu.finished /\ z.trap = gpu.trap
  <2>1. z.lag = gpu.lag /\ z.lazy = gpu.lazy /\ z.per_line = gpu.per_line
        /\ z.line = gpu.line /\ z.hblank = gpu.hblank /\ z.mask = gpu.mask /\ z.lcdc = gpu.lcdc
    BY <1>3, <1>6 DEF SameFrame
  <2>2. MaskOf(z) = MaskOf(gpu)
    BY <2>1 DEF MaskOf
  <2> QED
    BY <2>1, <2>2, <1>3, <1>6
<1>8. in_flight(s) /\ in_flight(gpu) /\ gpu.trap
  BY <1>3 DEF covered, in_flight, SameJobs
<1>9. ASSUME ex PROVE TrapFalls(z) /\ Alike(z, K, Cur(z), vm2, ver)
  <2>1. K.fall = (gpu.trap /\ 0 \in gpu.mask) /\ K.lay = (gpu.trap /\ 0 \in gpu.mask /\ ~gpu.lcdc)
    BY <1>1, <1>9
  <2>2. TrapFalls(z)
    BY <2>1, <1>6, <1>7, FallsKept
  <2>3. Alike(z, K, Cur(z), vm2, ver)
    BY <1>1, <1>6, CaughtAlike
  <2> QED
    BY <2>2, <2>3
<1>10. ASSUME ex, NEW L, L.E = K.E, L.vm = vm2 PROVE Watch(z, L, Cur(z))
  <2>1. Armed(gpu) /\ JobMap(gpu, vmap) /\ StaysPut(vm2)
    BY <1>1, <1>10 DEF Watch
  <2>2. Batching(z, L, Cur(z))
    <3>1. K.E \in Nat
      BY <1>1, LinesAssumption DEF Ctx
    <3>2. ~(K.E < K.E)
      BY <3>1
    <3>3. \A e \in Engines : Cur(z)[e] = L.E
      BY <1>6, <1>10
    <3>4. ~(L.E < L.E)
      BY <3>2, <1>10
    <3> QED
      BY <3>3, <3>4 DEF Batching
  <2>3. CASE z = s
    <3>1. SameJobs(gpu, z)
      BY <2>3, <1>3
    <3>2. Armed(z)
      BY <3>1, <2>1, <1>7 DEF Armed, SameJobs
    <3>3. JobMap(z, vm2)
      <4> SUFFICES ASSUME NEW e \in Engines, z.inflight[e], NEW y \in Banks, z.job_map[e][y] \in Reads(e)
                   PROVE vm2[y] = "texture" \/ Trapped(z, vm2[y])
        BY <2>3, <1>3 DEF JobMap
      <4>1. gpu.inflight[e] /\ gpu.job_map[e][y] \in Reads(e)
        BY <3>1 DEF SameJobs
      <4>2. vm2[y] = "texture" \/ Trapped(gpu, vm2[y])
        <5>1. CASE vmap[y] = gpu.job_map[e][y]
          BY <4>1, <5>1 DEF covered, Reads, Engines
        <5>2. CASE vmap[y] # gpu.job_map[e][y]
          <6>1. vm2[y] = vmap[y]
            BY <4>1, <5>2, <2>1 DEF StaysPut
          <6>2. vmap[y] = "texture" \/ Trapped(gpu, vmap[y])
            BY <4>1, <5>2, <2>1 DEF JobMap
          <6> QED
            BY <6>1, <6>2
        <5> QED
          BY <5>1, <5>2
      <4> QED
        BY <4>2, <1>7 DEF Trapped
    <3> QED
      BY <3>2, <3>3, <2>2, <2>3, <1>8, <1>10 DEF Watch
  <2>4. CASE z # s
    <3>1. /\ frontier(s) < SCREEN_H /\ \A e \in Engines : ~z.inflight[e]
          /\ ~z.stale
      BY <2>4, <1>6, <1>8
    <3>2. ~z.finished
      BY <3>1, <1>3, <1>6 DEF Frame
    <3>3. \A e \in Engines : ~z.deferred[e]
      BY <3>1, <1>6 DEF Core, EngOk, JobOk
    <3>4. Armed(z)
      BY <3>1, <3>2, <3>3, <2>1, <1>7 DEF Armed
    <3>5. JobMap(z, vm2)
      BY <3>1 DEF JobMap
    <3> QED
      BY <3>1, <3>4, <3>5, <2>2, <1>10 DEF Watch
  <2> QED
    BY <2>3, <2>4
<1> QED
  BY <1>6, <1>7, <1>9, <1>10 DEF RemapDone

\* The trap off, and nothing else.
DisarmedAs(K, g, h) ==
  /\ Core(h, K, Cur(h)) /\ Frame(h) /\ Cur(h) = Cur(g) /\ MaskOf(h) = MaskOf(g)
  /\ SameJobs(g, h) /\ SameFlight(g, h) /\ h.line = g.line /\ h.hblank = g.hblank
  /\ h.finished = g.finished

\* disarm_trap does so.
LEMMA DisarmedIs ==
  ASSUME NEW K, NEW g, Core(g, K, Cur(g)), Frame(g)
  PROVE DisarmedAs(K, g, disarm_trap(g))
<1> DEFINE h == disarm_trap(g)
<1>1. Typed(g) /\ ~g.aborted /\ \A e \in Engines : g.burst[e] => g.per_line[e]
  BY DEF Core, Base, EngOk, JobOk
<1>2. /\ Typed(h)
      /\ SameFrame(g, h) /\ SameCounts(g, h) /\ SameJobs(g, h) /\ SameData(g, h)
      /\ SameFlight(g, h) /\ h.finished = g.finished /\ h.aborted = g.aborted /\ h.jn = g.jn
  BY <1>1, DisarmIs
<1> HIDE DEF h
<1>3. h.line = g.line /\ h.hblank = g.hblank /\ h.next = g.next /\ h.lazy = g.lazy /\ h.lag = g.lag
      /\ h.per_line = g.per_line /\ h.burst = g.burst /\ h.journal = g.journal /\ h.eng = g.eng
  BY <1>2 DEF SameFrame, SameCounts, SameData
<1>4. Frame(h) /\ Cur(h) = Cur(g)
  BY <1>2, <1>3, FrameKept
<1>5. Core(h, K, Cur(h))
  BY <1>1, <1>2, <1>3, <1>4, CoreKept
<1>6. MaskOf(h) = MaskOf(g)
  BY <1>3 DEF MaskOf
<1> QED
  BY <1>2, <1>3, <1>4, <1>5, <1>6 DEF DisarmedAs, h

\* The lines are drawn, the jobs joined and the trap armed anew.
Rearm(g) == IF g.trap THEN arm_trap(disarm_trap(g)) ELSE g

\* The lines drawn with the old map, to the frontier, leave none for the new.
LEMMA UncoveredDone ==
  ASSUME NEW ex \in BOOLEAN, NEW K, K = Ktx(ex), Fit(gpu, K),
         NEW vm2 \in [Banks -> Places], NEW parked \in BOOLEAN, NEW es, es = Engines,
         NEW h, h = catch_up(gpu, es, parked), NEW g1, g1 = join_worker(h),
         NEW z, z = Rearm(g1)
  PROVE RemapDone(K, ex, z, vm2)
<1>1. /\ Ctx(K) /\ Core(gpu, K, Cur(gpu)) /\ Frame(gpu) /\ (ex => Watch(gpu, K, Cur(gpu)))
      /\ K.E = Scanned(gpu) /\ K.vm = vmap /\ K.ver = ver
      /\ K.fall = (ex /\ gpu.trap /\ 0 \in gpu.mask)
  BY Given
<1>2. CaughtUp(gpu, K, es, parked)
  <2>1. es \in SUBSET Engines
    OBVIOUS
  <2> QED
    BY <2>1, <1>1, CatchUp
<1>3. /\ Core(h, K, Cur(h)) /\ Frame(h) /\ SameFrame(gpu, h)
      /\ h.finished = gpu.finished /\ h.trap = gpu.trap
      /\ \A e \in Engines : Cur(h)[e] = K.E
      /\ h = gpu \/ /\ frontier(gpu) < SCREEN_H
                    /\ \A e \in Engines : ~h.inflight[e]
                    /\ (gpu.stale => in_flight(gpu)) => ~h.stale
  BY <1>2 DEF CaughtUp
<1>4. JoinKept(K, h, g1)
  BY <1>1, <1>3, JoinKeeps
<1>5. /\ Core(g1, K, Cur(g1)) /\ Frame(g1) /\ Cur(g1) = Cur(h) /\ SameFrame(h, g1)
      /\ g1.finished = h.finished /\ (g1.trap => h.trap)
      /\ (~(h.deferred[0] /\ h.finished) => g1.trap = h.trap)
      /\ (h.finished /\ g1.trap => ~h.deferred[0])
      /\ \A e \in Engines : ~g1.inflight[e] /\ ~g1.deferred[e]
      /\ ((h.stale => in_flight(h)) => ~g1.stale)
  BY <1>4 DEF JoinKept
<1>6. MaskOf(g1) = MaskOf(gpu) /\ g1.line = gpu.line /\ g1.hblank = gpu.hblank
      /\ g1.mask = gpu.mask /\ g1.lcdc = gpu.lcdc
  <2>1. g1.lag = gpu.lag /\ g1.lazy = gpu.lazy /\ g1.per_line = gpu.per_line
        /\ g1.line = gpu.line /\ g1.hblank = gpu.hblank /\ g1.mask = gpu.mask /\ g1.lcdc = gpu.lcdc
    BY <1>3, <1>5 DEF SameFrame
  <2>2. MaskOf(g1) = MaskOf(gpu)
    BY <2>1 DEF MaskOf
  <2> QED
    BY <2>1, <2>2
<1>7. /\ Core(z, K, Cur(z)) /\ Frame(z) /\ Cur(z) = Cur(h)
      /\ z.line = gpu.line /\ z.hblank = gpu.hblank /\ MaskOf(z) = MaskOf(gpu)
      /\ z.finished = gpu.finished /\ z.stale = g1.stale
      /\ \A e \in Engines : ~z.inflight[e] /\ ~z.deferred[e]
      /\ IF g1.trap THEN ArmedNow(z) ELSE z = g1
  <2>1. CASE g1.trap
    <3> DEFINE y == disarm_trap(g1)
    <3>1. DisarmedAs(K, g1, y)
      BY <1>5, DisarmedIs
    <3>2. z = arm_trap(y)
      BY <2>1 DEF Rearm
    <3> HIDE DEF y
    <3>3. /\ Core(y, K, Cur(y)) /\ Frame(y) /\ Cur(y) = Cur(g1) /\ MaskOf(y) = MaskOf(g1)
          /\ SameJobs(g1, y) /\ SameFlight(g1, y) /\ y.line = g1.line /\ y.hblank = g1.hblank
          /\ y.finished = g1.finished
      BY <3>1 DEF DisarmedAs
    <3>4. RearmedAs(K, y, z)
      BY <3>2, <3>3, RearmedIs
    <3>5. /\ Core(z, K, Cur(z)) /\ Frame(z) /\ Cur(z) = Cur(y) /\ ArmedNow(z) /\ MaskOf(z) = MaskOf(y)
          /\ SameJobs(y, z) /\ SameFlight(y, z)
          /\ z.line = y.line /\ z.hblank = y.hblank /\ z.finished = y.finished
      BY <3>4 DEF RearmedAs
    <3>6. z.inflight = g1.inflight /\ z.deferred = g1.deferred /\ z.stale = g1.stale
      BY <3>3, <3>5 DEF SameJobs, SameFlight
    <3> QED
      BY <2>1, <3>3, <3>5, <3>6, <1>3, <1>5, <1>6
  <2>2. CASE ~g1.trap
    <3>1. z = g1
      BY <2>2 DEF Rearm
    <3> QED
      BY <2>2, <3>1, <1>3, <1>5, <1>6
  <2> QED
    BY <2>1, <2>2
<1>8. \A e \in Engines : Cur(z)[e] = K.E
  BY <1>3, <1>7
<1>9. ASSUME ex PROVE TrapFalls(z) /\ Alike(z, K, Cur(z), vm2, ver)
  <2>1. Alike(z, K, Cur(z), vm2, ver)
    BY <1>1, <1>7, <1>8, CaughtAlike
  <2>2. CASE g1.trap
    <3>1. gpu.trap /\ ~gpu.finished
      <4>1. Armed(gpu)
        BY <1>1, <1>9 DEF Watch
      <4> SUFFICES ASSUME gpu.finished PROVE FALSE
        BY <2>2, <1>3, <1>5
      <4>2. gpu.deferred[0]
        BY <4>1, <2>2, <1>3, <1>5 DEF Armed
      <4>3. h # gpu
        BY <4>2, <2>2, <1>5
      <4>4. frontier(gpu) < SCREEN_H
        BY <4>3, <1>3
      <4> QED
        BY <4>4, <1>1 DEF Frame
    <3>2. gpu.mask = MaskOf(gpu)
      BY <3>1, <1>1, <1>9 DEF Watch, Armed
    <3>3. K.fall = (gpu.trap /\ 0 \in gpu.mask) /\ MaskOf(z) \subseteq MaskOf(gpu)
      BY <1>1, <1>7, <1>9
    <3>4. TrapFalls(z)
      BY <3>1, <3>2, <3>3, <2>2, <1>7, FallsArmed
    <3> QED
      BY <2>1, <3>4
  <2>3. CASE ~g1.trap
    BY <2>1, <2>3, <1>7 DEF TrapFalls
  <2> QED
    BY <2>2, <2>3
<1>10. ASSUME ex, NEW L, L.E = K.E, L.vm = vm2 PROVE Watch(z, L, Cur(z))
  <2>1. Batching(z, L, Cur(z))
    <3>1. K.E \in Nat
      BY <1>1, LinesAssumption DEF Ctx
    <3>2. ~(K.E < K.E)
      BY <3>1
    <3>3. \A e \in Engines : Cur(z)[e] = L.E
      BY <1>8, <1>10
    <3>4. ~(L.E < L.E)
      BY <3>2, <1>10
    <3> QED
      BY <3>3, <3>4 DEF Batching
  <2>2. Armed(gpu) /\ (gpu.stale => in_flight(gpu))
    BY <1>1, <1>10 DEF Watch
  <2>3. ~z.stale
    BY <2>2, <1>3, <1>5, <1>7
  <2>4. Armed(z)
    <3>1. CASE g1.trap
      <4>1. ~(gpu.finished)
        <5> SUFFICES ASSUME gpu.finished PROVE FALSE
          OBVIOUS
        <5>1. gpu.deferred[0]
          BY <2>2, <3>1, <1>3, <1>5 DEF Armed
        <5>2. h # gpu
          BY <5>1, <3>1, <1>5
        <5> QED
          BY <5>2, <1>3, <1>1 DEF Frame
      <4> QED
        BY <4>1, <3>1, <1>7 DEF Armed, ArmedNow
    <3>2. CASE ~g1.trap
      <4>1. ~z.trap /\ \A e \in Engines : ~z.inflight[e] /\ ~z.deferred[e]
        BY <3>2, <1>7
      <4>2. ~z.finished => MaskOf(z) = {}
        <5> SUFFICES ASSUME ~z.finished PROVE MaskOf(gpu) = {}
          BY <1>7
        <5>1. ~gpu.finished /\ ~gpu.trap
          BY <3>2, <1>3, <1>5, <1>7
        <5> QED
          BY <5>1, <2>2 DEF Armed
      <4> QED
        BY <4>1, <4>2 DEF Armed
    <3> QED
      BY <3>1, <3>2
  <2>5. JobMap(z, vm2)
    BY <1>7 DEF JobMap
  <2> QED
    BY <2>1, <2>3, <2>4, <2>5, <1>10 DEF Watch
<1> QED
  BY <1>7, <1>9, <1>10 DEF RemapDone

\* A bank goes to another place.
LEMMA RemapKeeps ==
  ASSUME NEW ex \in BOOLEAN, Fit(gpu, Ktx(ex)), gpu.drawn = {}, NEW b \in Banks, Remap(b),
         NEW vm, vm = vmap', ex => StaysPut(vm)
  PROVE Kept(ex)
<1> DEFINE K == Ktx(ex)
<1>1. /\ Ctx(K) /\ K.E = Scanned(gpu) /\ K.ver = ver /\ K.vm = vmap
  BY Given
<1>2. vmap \in [Banks -> Places] /\ ver \in [Banks -> Nat]
  BY <1>1 DEF Ctx
<1> PICK t \in BOOLEAN : t = TRUE
  OBVIOUS
<1> DEFINE es == Engines
<1>3. PICK place \in Places \ {vmap[b]}, parked \in BOOLEAN :
        /\ vmap' = [vmap EXCEPT ![b] = place]
        /\ Draws(IF covered(gpu, vmap') THEN catch_up(StaleOf(gpu, t), es, parked)
                 ELSE Rearm(join_worker(catch_up(gpu, es, parked))), due)
  BY DEF Remap, StaleOf, Rearm
<1>4. n' = n /\ mode' = mode /\ edges' = edges /\ ver' = ver
  BY DEF Remap
<1> DEFINE vm2 == [vmap EXCEPT ![b] = place]
<1>5. vm2 \in [Banks -> Places] /\ vmap' = vm2 /\ vmap' # vmap
  BY <1>2, <1>3
<1>6. PICK z : RemapDone(K, ex, z, vm2) /\ Draws(z, due)
  <2>0. /\ Draws(IF covered(gpu, vm2) THEN catch_up(StaleOf(gpu, t), es, parked)
                 ELSE Rearm(join_worker(catch_up(gpu, es, parked))), due)
        /\ es = Engines /\ K = Ktx(ex) /\ Fit(gpu, K) /\ vm2 \in [Banks -> Places]
        /\ (ex => StaysPut(vm2))
    BY <1>3, <1>5
  <2> SUFFICES \E z : RemapDone(K, ex, z, vm2) /\ Draws(z, due)
    OBVIOUS
  <2> HIDE DEF es, vm2, K
  <2>1. CASE covered(gpu, vm2)
    <3>1. RemapDone(K, ex, catch_up(StaleOf(gpu, t), es, parked), vm2)
      BY <2>0, <2>1, CoveredDone
    <3> QED
      BY <2>0, <2>1, <3>1
  <2>2. CASE ~covered(gpu, vm2)
    <3>1. RemapDone(K, ex, Rearm(join_worker(catch_up(gpu, es, parked))), vm2)
      BY <2>0, UncoveredDone
    <3> QED
      BY <2>0, <2>2, <3>1
  <2> QED
    BY <2>1, <2>2
<1> HIDE DEF vm2
<1>7. /\ Core(z, K, Cur(z)) /\ Frame(z) /\ z.line = gpu.line /\ z.hblank = gpu.hblank
      /\ ex => TrapFalls(z) /\ Alike(z, K, Cur(z), vm2, ver)
      /\ ex => \A L : L.E = K.E /\ L.vm = vm2 => Watch(z, L, Cur(z))
  BY <1>6 DEF RemapDone
<1>8. PICK L : L.E = Scanned(gpu) /\ L.vm = vm2
  <2> DEFINE L == [E |-> Scanned(gpu), vm |-> vm2]
  <2>1. L.E = Scanned(gpu) /\ L.vm = vm2
    OBVIOUS
  <2> HIDE DEF L
  <2> QED
    BY <2>1
<1>9. ex => TrapFalls(z)
  BY <1>7
<1>10. ex => Alike(z, K, Cur(z), vm2, ver)
  BY <1>7
<1>11. ex => Watch(z, L, Cur(z))
  BY <1>1, <1>7, <1>8
<1> QED
  BY <1>2, <1>4, <1>5, <1>6, <1>7, <1>8, <1>9, <1>10, <1>11, SeenEnd

-----------------------------------------------------------------------------
(* The invariant, from the reset on.                                       *)

\* A function of nothing is the empty sequence.
LEMMA NoneDue ==
  ASSUME NEW d, d = [x \in DOMAIN d |-> d[x]], DOMAIN d = {}
  PROVE d = <<>>
<1>1. d = [x \in 1..0 |-> d[x]]
  <2>1. 1..0 = {}
    OBVIOUS
  <2> QED
    BY <2>1
<1>2. d \in Seq({0})
  BY <1>1, SeqDef
<1>3. Len(d) = 0
  BY <1>2
<1> QED
  BY <1>2, <1>3, EmptySeq

\* And the other way round.
LEMMA EmptyDue ==
  DOMAIN <<>> = {} /\ <<>> = [x \in DOMAIN <<>> |-> <<>>[x]]
OBVIOUS

\* At the reset: no line is due, no engine has anything to apply.
LEMMA InitTyped ==
  ASSUME Init
  PROVE /\ Typed(gpu) /\ gpu.drawn = {} /\ gpu.line = 0 /\ ~gpu.hblank /\ ~gpu.trap
        /\ ~gpu.lazy /\ ~gpu.lag /\ ~gpu.stale /\ ~gpu.finished /\ ~gpu.aborted /\ ~gpu.scale
        /\ \A e \in Engines : /\ gpu.journal[e] = <<>> /\ ~gpu.inflight[e] /\ gpu.job_map[e] = <<>>
                              /\ ~gpu.deferred[e] /\ gpu.jn[e] = 0 /\ ~gpu.burst[e]
                              /\ gpu.eng[e] \in EngineState /\ gpu.eng[e].ordered
                              /\ gpu.eng[e].n = 0 /\ gpu.eng[e].mode = 1
BY LinesAssumption DEF Init, Typed, Members, Both, EngineState

\* The invariant holds then.
LEMMA InitFit ==
  ASSUME NEW ex \in BOOLEAN, Init
  PROVE Fit(gpu, Ktx(ex))
<1> DEFINE K == Ktx(ex)
<1>1. /\ n = Both(0) /\ mode = 1 /\ due = Both(<<>>) /\ edges = Both(0)
      /\ vmap \in [Banks -> Places] /\ ver \in [Banks -> Nat]
  BY DEF Init, Places
<1>2. Typed(gpu) /\ gpu.drawn = {} /\ gpu.line = 0 /\ ~gpu.hblank
  BY InitTyped
<1>3. Scanned(gpu) = 0 /\ Now(gpu) = 1 /\ Top(gpu) /\ frontier(gpu) = 0
  BY <1>2, LinesAssumption DEF Scanned, Now, Top, frontier
<1>4. /\ K.E = 0 /\ K.hi = 1 /\ K.due = due /\ K.n = n /\ K.mode = 1
      /\ K.edges = edges /\ K.ver = ver /\ K.vm = vmap /\ K.ex = ex
      /\ ~K.fall /\ ~K.lay /\ K.w \in BOOLEAN /\ K.fall \in BOOLEAN /\ K.lay \in BOOLEAN
  <2>1. ~gpu.trap
    BY InitTyped
  <2> QED
    BY <2>1, <1>1, <1>3 DEF Ktx, Context
<1> HIDE DEF K
<1>5. \A e \in Engines : n[e] = 0 /\ edges[e] = 0 /\ due[e] = <<>> /\ DOMAIN due[e] = {}
  BY <1>1, EmptyDue DEF Both
<1>6. due = [e \in Engines |-> [x \in DOMAIN due[e] |-> due[e][x]]]
  BY <1>1, EmptyDue DEF Both
<1>7. Ctx(K)
  <2>1. 0 \in 0..SCREEN_H /\ 0 < SCREEN_H
    BY LinesAssumption
  <2>2. n \in [Engines -> Nat] /\ edges \in [Engines -> Nat]
    BY <1>1 DEF Both
  <2> QED
    BY <2>1, <2>2, <1>1, <1>4, <1>6 DEF Ctx
<1>8. Cur(gpu) = [e \in Engines |-> 0]
  BY <1>3 DEF Cur
<1>9. Base(gpu, K, Cur(gpu))
  <2>1. ~gpu.aborted
    BY InitTyped
  <2>2. [e \in Engines |-> 0] \in [Engines -> 0..0]
    OBVIOUS
  <2> QED
    BY <2>1, <2>2, <1>2, <1>4, <1>8 DEF Base
<1>10. ASSUME NEW e \in Engines PROVE EngOk(gpu, K, Cur(gpu), e)
  <2>1. /\ gpu.journal[e] = <<>> /\ ~gpu.inflight[e] /\ gpu.job_map[e] = <<>>
        /\ ~gpu.deferred[e] /\ gpu.jn[e] = 0 /\ ~gpu.burst[e]
        /\ gpu.eng[e] \in EngineState /\ gpu.eng[e].ordered
        /\ gpu.eng[e].n = 0 /\ gpu.eng[e].mode = 1
    BY InitTyped
  <2>2. Cur(gpu)[e] = 0 /\ PosOf(gpu, Cur(gpu), e) = 0
    BY <2>1, <1>8 DEF PosOf
  <2>3. JobOk(gpu, Cur(gpu), e)
    BY <2>1, LimitsAssumption DEF JobOk
  <2>4. DrawnOf(gpu, e) = {}
    BY <1>2 DEF DrawnOf
  <2> DEFINE r == gpu.eng[e]
             j == gpu.journal[e]
  <2>5. j = <<>> /\ Len(j) = 0 /\ j \in Seq(JEntry)
    BY <2>1
  <2>6. Jrn(r, j, K.n[e], Md(e, K.mode), 0, 1)
    <3>1. \A i \in 1..Len(j) : FALSE
      BY <2>5
    <3>2. Sorted(j) /\ Chained(r, j)
      BY <3>1 DEF Sorted, Chained
    <3>3. LeadsTo(r, j, K.n[e], Md(e, K.mode))
      BY <2>1, <2>5, <1>4, <1>5 DEF LeadsTo, Md
    <3> QED
      BY <3>1, <3>2, <3>3, <2>1, <2>5 DEF Jrn
  <2>7. AtN(r, j, 0) = 0
    BY <2>1, <2>5, AtNone
  <2> HIDE DEF r, j
  <2>8. Eng(r, j, <<>>, {}, e, 0, 0, K)
    <3>1. K.w => AtN(r, j, 2 * K.E) = K.edges[e]
      BY <2>7, <1>4, <1>5
    <3>2. DOMAIN K.due[e] = {o.line : o \in {}} \cup (0..K.E - 1)
      BY <1>4, <1>5
    <3>3. \A x \in 0..K.E - 1 : FALSE
      BY <1>4
    <3>4. 0 \in 0..K.E /\ Jrn(r, j, K.n[e], Md(e, K.mode), 2 * 0, K.hi)
      BY <2>6, <1>4
    <3> QED
      BY <3>1, <3>2, <3>3, <3>4, <1>4 DEF Eng
  <2> QED
    BY <2>1, <2>2, <2>3, <2>4, <2>8 DEF EngOk, r, j
<1>11. Core(gpu, K, Cur(gpu))
  BY <1>9, <1>10 DEF Core
<1>12. Frame(gpu)
  <2>1. frontier(gpu) < SCREEN_H /\ ~(frontier(gpu) >= SCREEN_H)
    BY <1>3, LinesAssumption
  <2>2. ~gpu.finished /\ ~gpu.lazy /\ ~in_flight(gpu)
    BY InitTyped DEF in_flight, Engines
  <2>3. \A e \in Engines : \A i \in 1..Len(gpu.journal[e]) : FALSE
    BY InitTyped
  <2> QED
    BY <2>1, <2>2, <2>3 DEF Frame
<1>13. Watch(gpu, K, Cur(gpu))
  <2>1. /\ ~gpu.trap /\ ~gpu.lazy /\ ~gpu.lag /\ ~gpu.stale /\ ~gpu.finished
        /\ \A e \in Engines : ~gpu.inflight[e] /\ ~gpu.deferred[e]
    BY InitTyped
  <2>2. MaskOf(gpu) = {}
    BY <2>1 DEF MaskOf
  <2>3. Armed(gpu) /\ JobMap(gpu, K.vm)
    BY <2>1, <2>2 DEF Armed, JobMap
  <2>4. Batching(gpu, K, Cur(gpu))
    BY <1>4, <1>8 DEF Batching
  <2> QED
    BY <2>1, <2>3, <2>4 DEF Watch
<1> QED
  BY <1>7, <1>11, <1>12, <1>13 DEF Fit, K

\* A step that changes nothing.
LEMMA StutterKeeps ==
  ASSUME NEW ex \in BOOLEAN, Fit(gpu, Ktx(ex)), gpu.drawn = {}, UNCHANGED vars
  PROVE Kept(ex)
<1>1. /\ gpu' = gpu /\ due' = due /\ n' = n /\ mode' = mode /\ edges' = edges /\ ver' = ver
      /\ vmap' = vmap /\ unlike' = unlike
  BY DEF vars
<1> QED
  BY <1>1 DEF Kept, Ktx

\* Any step of the system.
LEMMA NextKeeps ==
  ASSUME NEW ex \in BOOLEAN, Fit(gpu, Ktx(ex)), gpu.drawn = {}, Fits(gpu, ex),
         ex => ~Abrupt /\ Budget, NEW vm, vm = vmap', ex => StaysPut(vm), [Next]_vars
  PROVE Kept(ex)
<1>1. CASE on_hblank
  BY <1>1, OnHblankKeeps
<1>2. CASE on_scanline_start
  BY <1>2, OnScanlineKeeps
<1>3. ASSUME NEW e \in Engines, Write(e) PROVE Kept(ex)
  BY <1>3, WriteKeeps
<1>4. CASE WriteDispcnt
  BY <1>4, WriteDispcntKeeps
<1>5. ASSUME NEW b \in Banks, Store(b) PROVE Kept(ex)
  BY <1>5, StoreKeeps
<1>6. ASSUME NEW b \in Banks, Remap(b) PROVE Kept(ex)
  BY <1>6, RemapKeeps
<1>7. ASSUME NEW e \in Engines, WorkerLine(e) PROVE Kept(ex)
  BY <1>7, WorkerLineKeeps
<1>8. CASE UNCHANGED vars
  BY <1>8, StutterKeeps
<1> QED
  BY <1>1, <1>2, <1>3, <1>4, <1>5, <1>6, <1>7, <1>8 DEF Next, Guest

\* Sound is the invariant, of a context that compares no pictures.
LEMMA SoundIs ==
  ASSUME NEW f, f = FALSE
  PROVE Sound <=> Fit(gpu, Ktx(f)) /\ gpu.drawn = {}
BY DEF Sound, Good, Ktx

\* Exact is that of one that does.
LEMMA ExactIs ==
  ASSUME NEW t, t = TRUE
  PROVE Exact <=> Fit(gpu, Ktx(t)) /\ gpu.drawn = {} /\ unlike = {}
BY DEF Exact, Good, Ktx

\* The journal of an engine whose join is left to the next frame is not full.
JoinRoom == \A e \in Engines : gpu.deferred[e] => gpu.jn[e] < JOURNAL_CAP

\* No journal is full.
Room == \A e \in Engines : gpu.jn[e] < JOURNAL_CAP

\* No bank that a job in flight reads moves twice under it.
MovedOnce == [][StaysPut(vmap')]_vars

\* Sound holds at the reset.
LEMMA SoundInit == Init => Sound
<1> PICK f \in BOOLEAN : f = FALSE
  OBVIOUS
<1> QED
  BY InitFit, InitTyped, SoundIs

\* Every step keeps it while the journals of deferred engines have room.
LEMMA SoundNext == Sound /\ JoinRoom /\ [Next]_vars => Sound'
<1> SUFFICES ASSUME Sound, JoinRoom, [Next]_vars PROVE Sound'
  OBVIOUS
<1> PICK f \in BOOLEAN : f = FALSE
  OBVIOUS
<1>1. Fit(gpu, Ktx(f)) /\ gpu.drawn = {}
  BY SoundIs
<1>2. gpu.jn \in [Engines -> Nat]
  BY <1>1, Given DEF Typed, Members
<1>3. Fits(gpu, f)
  BY <1>2 DEF JoinRoom, Fits
<1>4. PICK vm : vm = vmap'
  OBVIOUS
<1>5. Kept(f)
  BY <1>1, <1>3, <1>4, NextKeeps
<1> QED
  BY <1>5 DEF Kept, Sound, Good

\* So does Exact.
LEMMA ExactInit == Init => Exact
<1> PICK t \in BOOLEAN : t = TRUE
  OBVIOUS
<1> QED
  BY InitFit, InitTyped, ExactIs DEF Init

\* Every step keeps it under the four hypotheses of LinesExactAlways.
LEMMA ExactNext ==
  ~Abrupt /\ Exact /\ Room /\ Budget /\ [Next]_vars /\ [StaysPut(vmap')]_vars => Exact'
<1> SUFFICES ASSUME ~Abrupt, Exact, Room, Budget, [Next]_vars, [StaysPut(vmap')]_vars
             PROVE Exact'
  OBVIOUS
<1> PICK t \in BOOLEAN : t = TRUE
  OBVIOUS
<1>1. Fit(gpu, Ktx(t)) /\ gpu.drawn = {} /\ unlike = {}
  BY ExactIs
<1>2. Fits(gpu, t)
  BY DEF Room, Fits
<1>3. PICK vm : vm = vmap'
  OBVIOUS
<1>4. StaysPut(vm)
  <2>1. CASE vmap' = vmap
    BY <1>3, <2>1 DEF StaysPut
  <2>2. CASE vmap' # vmap
    BY <1>3, <2>2 DEF StaysPut, vars
  <2> QED
    BY <2>1, <2>2
<1>5. Kept(t)
  BY <1>1, <1>2, <1>3, <1>4, NextKeeps
<1> QED
  BY <1>1, <1>5 DEF Kept, Exact, Good

\* What Sound says of the journal.
LEMMA SoundJournal == Sound => JournalSound
<1> SUFFICES ASSUME Sound PROVE JournalSound
  OBVIOUS
<1> PICK f \in BOOLEAN : f = FALSE
  OBVIOUS
<1> DEFINE K == Ktx(f)
<1>1. /\ Ctx(K) /\ Core(gpu, K, Cur(gpu)) /\ K.mode = mode /\ K.vm = vmap /\ Typed(gpu)
  BY SoundIs, Given
<1> HIDE DEF K
<1>2. /\ gpu.line \in 0..SCANLINES_PER_FRAME - 1 /\ gpu.mask \subseteq Engines
  BY <1>1, Types
<1>3. mode \in {1, 2} /\ vmap \in [Banks -> Places]
  BY <1>1 DEF Ctx
<1>4. \A e \in Engines : JobOk(gpu, Cur(gpu), e)
  BY <1>1 DEF Core, EngOk
<1>5. TypeOK
  BY <1>2, <1>3, <1>4 DEF TypeOK, JobOk
<1>6. WritesInOrder
  BY <1>1 DEF WritesInOrder, Core, EngOk, Eng, Jrn
<1>7. JournalDrained
  BY <1>1 DEF JournalDrained, Core, Base
<1> QED
  BY <1>5, <1>6, <1>7 DEF JournalSound

\* What it says at the top of a frame.
LEMMA SoundTop == Sound => FrameComplete
<1> SUFFICES ASSUME Sound, gpu.line = 0, ~gpu.hblank, NEW e \in Engines
             PROVE due[e] = <<>> /\ n[e] = gpu.eng[e].n + Len(gpu.journal[e])
  BY DEF FrameComplete
<1> PICK f \in BOOLEAN : f = FALSE
  OBVIOUS
<1> DEFINE K == Ktx(f)
<1>1. /\ Ctx(K) /\ Core(gpu, K, Cur(gpu)) /\ Frame(gpu) /\ K.n = n /\ K.due = due /\ Typed(gpu)
      /\ K.E = Scanned(gpu) /\ gpu.drawn = {}
  BY SoundIs, Given
<1> HIDE DEF K
<1>2. K.E = 0
  BY <1>1, LinesAssumption DEF Scanned, frontier
<1> DEFINE r == gpu.eng[e]
           j == gpu.journal[e]
           p == PosOf(gpu, Cur(gpu), e)
<1>3. Eng(r, j, gpu.job_map[e], DrawnOf(gpu, e), e, p, Cur(gpu)[e], K)
  BY <1>1 DEF Core, EngOk
<1>4. DrawnOf(gpu, e) = {}
  BY <1>1 DEF DrawnOf
<1>5. p = 0 /\ DOMAIN K.due[e] = {}
  <2>1. p \in 0..K.E /\ DOMAIN K.due[e] = {o.line : o \in {}} \cup (p..K.E - 1)
    BY <1>3, <1>4 DEF Eng
  <2> HIDE DEF p
  <2> QED
    BY <2>1, <1>2
<1>6. due[e] = <<>>
  <2>1. due[e] = [x \in DOMAIN due[e] |-> due[e][x]]
    BY <1>1 DEF Ctx
  <2> QED
    BY <2>1, <1>1, <1>5, NoneDue
<1>7. \A i \in 1..Len(j) : j[i].n = r.n + i
  BY <1>1 DEF Frame, Top
<1>8. LeadsTo(r, j, n[e], Md(e, K.mode)) /\ j \in Seq(JEntry) /\ r \in EngineState
  BY <1>1, <1>3 DEF Eng, Jrn
<1> HIDE DEF r, j
<1>9. n[e] = r.n + Len(j)
  <2>1. CASE j = <<>>
    <3>1. Len(j) = 0 /\ r.n \in Nat
      BY <2>1, <1>8 DEF EngineState
    <3> QED
      BY <3>1, <2>1, <1>8 DEF LeadsTo
  <2>2. CASE j # <<>>
    <3>1. Len(j) \in 1..Len(j)
      BY <2>2, <1>8, EmptySeq, LenProperties
    <3> QED
      BY <3>1, <2>2, <1>7, <1>8 DEF LeadsTo
  <2> QED
    BY <2>1, <2>2
<1> QED
  BY <1>6, <1>9 DEF r, j

\* The journal files, cuts and applies every write in the guest's order and is
\* empty when frame_done asserts that it is, jobs and maps as they should be:
\* as long as none is full whose engine's join is deferred (journal_stamp,
\* journal_full, replay_to and frame_done).
THEOREM JournalSoundAlways == Spec /\ []JoinRoom => []JournalSound
<1>1. Init => Sound
  BY SoundInit
<1>2. Sound /\ JoinRoom /\ [Next]_vars => Sound'
  BY SoundNext
<1>3. Sound => JournalSound
  BY SoundJournal
<1> QED
  BY <1>1, <1>2, <1>3, PTL DEF Spec

\* A frame begins with every line of the last one drawn and every write of it
\* applied or filed (begin_frame's join, catch_up, render_ranges).
THEOREM FrameCompleteAlways == Spec /\ []JoinRoom => []FrameComplete
<1>1. Init => Sound
  BY SoundInit
<1>2. Sound /\ JoinRoom /\ [Next]_vars => Sound'
  BY SoundNext
<1>3. Sound => FrameComplete
  BY SoundTop
<1> QED
  BY <1>1, <1>2, <1>3, PTL DEF Spec

\* Every line is drawn once, in order, and as the hardware shows it.
THEOREM LinesExactAlways ==
  ASSUME ~Abrupt
  PROVE Spec /\ []Room /\ []Budget /\ MovedOnce => []LinesExact
<1>1. Init => Exact
  BY ExactInit
<1>2. Exact /\ Room /\ Budget /\ [Next]_vars /\ [StaysPut(vmap')]_vars => Exact'
  BY ExactNext
<1>3. Exact => LinesExact
  BY DEF Exact, LinesExact
<1> QED
  BY <1>1, <1>2, <1>3, PTL DEF Spec, MovedOnce
=============================================================================

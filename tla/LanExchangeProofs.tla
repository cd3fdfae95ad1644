------------------------- MODULE LanExchangeProofs -------------------------
(***************************************************************************)
(* The host's exchange, for any number of clients, CMDs, frames and        *)
(* stalls: what recv_replies counts are the answers to its own CMD, none   *)
(* that reached the host is lost but by its age, and no client is reported *)
(* failed with its answer in the queue.                                    *)
(*                                                                         *)
(* The argument is that the answer of a client to the current CMD is at    *)
(* one place at a time, and that the stamps tell the CMDs apart: the ends  *)
(* of two CMDs are further apart than an answer's stamp may be off.        *)
(***************************************************************************)
EXTENDS LanExchange, FiniteSetTheorems, SequenceTheorems, WellFoundedInduction, TLAPS

-----------------------------------------------------------------------------
(* The inductive invariant.                                                *)

Places == {"idle", "send", "gather", "wait", "done"}
Packet == [from : Clients \cup {0}, type : {0, 2}, cmd : Nat, ts : Int, blank : BOOLEAN, stale : BOOLEAN]
Owed == [from : Clients, cmd : Nat, blank : BOOLEAN]
Answer == [from : Clients \cup {0}, cmd : Nat]

Types ==
  /\ at \in Places /\ cmd \in 0 .. MaxCmds
  /\ asked \subseteq Aids /\ ret \subseteq Aids
  /\ seen \subseteq Clients \cup {0} /\ connected \subseteq Clients
  /\ rx \in Seq(Packet) /\ air \subseteq Packet /\ owed \subseteq Owed
  /\ got \in [Aids -> Answer] /\ stalled \in BOOLEAN /\ regular \in Nat

\* A reply says what its client makes of the CMD it answers.
Stamped(p) == IsReply(p) =>
  /\ p.from \in Clients /\ p.cmd <= cmd /\ p.ts = End(p.cmd) + Skew[p.from]
  /\ p.cmd = cmd => (p.blank <=> Aid[p.from] \notin asked)

Stamps ==
  /\ \A p \in air : Stamped(p) /\ ~p.stale
  /\ \A i \in DOMAIN rx : Stamped(rx[i])
  /\ \A o \in owed : o.cmd <= cmd /\ (o.cmd = cmd => (o.blank <=> Aid[o.from] \notin asked))

\* A client's answer to this CMD is at one place: owed, on its way, queued (at
\* one place of the queue) or heard.
Owing(c) == \E o \in owed : o.from = c /\ o.cmd = cmd
Flying(c) == \E p \in air : IsReply(p) /\ p.from = c /\ p.cmd = cmd
AnswerAt(i, c) == IsReply(rx[i]) /\ rx[i].from = c /\ rx[i].cmd = cmd
Once ==
  /\ \A c \in Clients : Owing(c) => ~Flying(c) /\ ~Queued(c) /\ c \notin seen
  /\ \A c \in Clients : Flying(c) => ~Queued(c) /\ c \notin seen
  /\ \A c \in Clients : Queued(c) => c \notin seen
  /\ \A c \in Clients : \A i, j \in DOMAIN rx : AnswerAt(i, c) /\ AnswerAt(j, c) => i = j

\* Where the exchange is.
Phases ==
  /\ at \in {"idle", "send"} => seen = {0} /\ ret = {}
  /\ at = "wait" => rx = <<>>
  /\ \A c \in Clients : Aid[c] \in ret => got[Aid[c]] = [from |-> c, cmd |-> cmd]

\* Without a stall no reply is dropped for its age.
Aged == ~stalled => \A i \in DOMAIN rx : IsReply(rx[i]) => ~rx[i].stale

Inv == Types /\ Stamps /\ Once /\ Phases /\ Aged /\ AnswerKept

-----------------------------------------------------------------------------
(* Numbers.                                                                *)

\* A set of numbers that is not empty has a least one.
LEMMA Least == ASSUME NEW T, T \subseteq Nat, T # {}
  PROVE \E x \in T : \A y \in T : x <= y
<1> DEFINE R == OpToRel(<, Nat)
<1>1. IsWellFoundedOn(R, Nat)
  BY NatLessThanWellFounded
<1>2. \A x, y \in Nat : y < x => <<y, x>> \in R
  BY DEF OpToRel
<1> HIDE DEF R
<1>3. PICK x \in T : \A y \in T : ~ (<<y, x>> \in R)
  BY <1>1, WFMin
<1>4. x \in Nat /\ \A y \in T : y \in Nat /\ ~(y < x)
  BY <1>2, <1>3
<1>5. \A y \in T : x <= y
  BY <1>4
<1> QED BY <1>3, <1>5

\* Induction, over a set.
LEMMA Ind == ASSUME NEW S, 0 \in S, \A n \in Nat : n \in S => n + 1 \in S PROVE Nat \subseteq S
<1> DEFINE T == {n \in Nat : n \notin S}
<1> SUFFICES ASSUME T # {} PROVE FALSE
  OBVIOUS
<1>1. PICK x \in T : \A y \in T : x <= y
  <2> HIDE DEF T
  <2>1. T \subseteq Nat BY DEF T
  <2> QED BY <2>1, Least
<1>2. x \in Nat /\ x # 0 /\ x - 1 \in Nat
  BY <1>1
<1>3. x - 1 \in S
  BY <1>1, <1>2
<1> QED BY <1>1, <1>2, <1>3

\* send_cmd's loop over the queue: every kept packet is a packet and no reply.
\* (That the loop's function exists, and what it returns, is by induction on
\* the length of the queue.)
LEMMA NoRepliesFacts ==
  ASSUME NEW q \in Seq(Packet)
  PROVE  NoReplies(q) \in Seq(Packet) /\ \A i \in 1 .. Len(NoReplies(q)) : ~IsReply(NoReplies(q)[i])
<1> DEFINE n == Len(q)
           Body(g, i) == IF i = 0 THEN <<>> ELSE IF IsReply(q[i]) THEN g[i - 1] ELSE Append(g[i - 1], q[i])
           Clean == {s \in Seq(Packet) : \A i \in 1 .. Len(s) : ~IsReply(s[i])}
           Upto(m, g) == g \in [0 .. m -> Clean] /\ \A i \in 0 .. m : g[i] = Body(g, i)
           Fn == CHOOSE g : g = [i \in 0 .. n |-> Body(g, i)]
<1>0. n \in Nat /\ NoReplies(q) = Fn[n]
  BY DEF NoReplies
<1>1. \A i \in 1 .. n : \A s \in Clean : ~IsReply(q[i]) => Append(s, q[i]) \in Clean
  <2> SUFFICES ASSUME NEW i \in 1 .. n, NEW s \in Clean, ~IsReply(q[i]) PROVE Append(s, q[i]) \in Clean
    OBVIOUS
  <2>1. s \in Seq(Packet) /\ q[i] \in Packet /\ Append(s, q[i]) \in Seq(Packet) /\ Len(Append(s, q[i])) = Len(s) + 1
    OBVIOUS
  <2>2. \A j \in 1 .. Len(s) + 1 : Append(s, q[i])[j] = IF j <= Len(s) THEN s[j] ELSE q[i]
    BY <2>1
  <2>3. \A j \in 1 .. Len(s) : ~IsReply(s[j])
    OBVIOUS
  <2>4. \A j \in 1 .. Len(s) + 1 : ~IsReply(Append(s, q[i])[j])
    BY <2>1, <2>2, <2>3
  <2> QED
    BY <2>1, <2>4
<1>2. <<>> \in Clean
  OBVIOUS
<1>3. \A m \in Nat : m <= n => \E g : Upto(m, g)
  <2> DEFINE S == {m \in Nat : m <= n => \E g : Upto(m, g)}
  <2>1. 0 \in S
    <3> DEFINE g == [i \in 0 .. 0 |-> <<>>]
    <3>1. Upto(0, g)
      <4> HIDE DEF Clean
      <4> QED BY <1>2
    <3> QED BY <3>1
  <2>2. ASSUME NEW m \in Nat, m \in S PROVE m + 1 \in S
    <3> SUFFICES ASSUME m + 1 <= n PROVE \E g : Upto(m + 1, g)
      <4> HIDE DEF Upto
      <4> QED OBVIOUS
    <3>1. PICK g : Upto(m, g)
      <4> HIDE DEF Upto
      <4> QED BY <1>0, <2>2
    <3> DEFINE h == [i \in 0 .. m + 1 |-> IF i <= m THEN g[i] ELSE Body(g, m + 1)]
    <3>2. Body(g, m + 1) \in Clean
      <4> HIDE DEF Clean
      <4>1. m + 1 \in 1 .. n /\ g[m] \in Clean /\ m + 1 # 0 /\ (m + 1) - 1 = m
        BY <1>0, <3>1
      <4> QED BY <1>1, <4>1
    <3>3. h \in [0 .. m + 1 -> Clean]
      <4> HIDE DEF Clean, Body
      <4>1. \A i \in 0 .. m : g[i] \in Clean
         BY <3>1
      <4> QED BY <3>2, <4>1
    <3>4. ASSUME NEW i \in 0 .. m + 1 PROVE h[i] = Body(h, i)
      <4> HIDE DEF Clean
      <4>1. CASE i <= m
        BY <3>1, <4>1
      <4>2. CASE i = m + 1
        BY <3>1, <4>2
      <4> QED BY <4>1, <4>2
    <3> HIDE DEF h, Clean, Body
    <3>5. Upto(m + 1, h)
      BY <3>3, <3>4
    <3> QED BY <3>5
  <2> HIDE DEF S
  <2>3. Nat \subseteq S
    BY <2>1, <2>2, Ind
  <2> QED BY <2>3 DEF S
<1>4. Fn = [i \in 0 .. n |-> Body(Fn, i)]
  <2>1. PICK g : Upto(n, g)
    <3> HIDE DEF Upto
    <3> QED BY <1>0, <1>3
  <2>2. g = [i \in 0 .. n |-> Body(g, i)]
    <3> HIDE DEF Clean, Body
    <3> QED BY <2>1
  <2> HIDE DEF Body
  <2> QED BY <2>2
<1>5. \A m \in Nat : m <= n => Fn[m] \in Clean
  <2> DEFINE S == {m \in Nat : m <= n => Fn[m] \in Clean}
  <2>0. \A m \in 0 .. n : Fn[m] = Body(Fn, m)
    <3> HIDE DEF Fn, Body
    <3> QED BY <1>4
  <2> HIDE DEF Fn, Clean
  <2>1. 0 \in S
    BY <1>0, <1>2, <2>0
  <2>2. ASSUME NEW m \in Nat, m \in S PROVE m + 1 \in S
    <3> SUFFICES ASSUME m + 1 <= n PROVE Fn[m + 1] \in Clean
      OBVIOUS
    <3>1. m + 1 \in 1 .. n /\ Fn[m] \in Clean /\ m + 1 # 0 /\ (m + 1) - 1 = m /\ m + 1 \in 0 .. n
      BY <1>0, <2>2
    <3> QED BY <1>1, <2>0, <3>1
  <2> HIDE DEF S
  <2>3. Nat \subseteq S
    BY <2>1, <2>2, Ind
  <2> QED BY <2>3 DEF S
<1> HIDE DEF Fn
<1> QED BY <1>0, <1>5
\* The ends of two CMDs are a Gap apart or more.
LEMMA EndsApart == ASSUME NEW a \in Nat, NEW b \in Nat, a < b PROVE End(a) + Gap <= End(b)
<1> DEFINE k == b - a - 1
<1>1. k \in Nat /\ b = a + 1 + k /\ Gap \in Nat
  BY GapAssumption
<1>2. k * Gap >= 0
  BY <1>1
<1>3. b * Gap = a * Gap + Gap + k * Gap
  BY <1>1
<1>4. a * Gap \in Int /\ b * Gap \in Int /\ k * Gap \in Int
  BY <1>1
<1> QED
  BY <1>1, <1>2, <1>3, <1>4 DEF End

\* The timestamp test of recv_replies takes the answers to this CMD, and no
\* others.
LEMMA GoodIsThisCmd ==
  ASSUME cmd \in Nat, NEW p \in Packet, Stamped(p), IsReply(p)
  PROVE  Good(p) <=> p.cmd = cmd
<1>1. /\ p.cmd \in Nat /\ p.cmd <= cmd /\ p.from \in Clients /\ p.ts = End(p.cmd) + Skew[p.from]
      /\ End(cmd) \in Int /\ End(p.cmd) \in Int
  BY GapAssumption DEF Packet, Stamped, End
<1>2. Skew[p.from] \in Int /\ Skew[p.from] <= Drift /\ Skew[p.from] >= 0 - Window /\ {Gap, Window, Drift} \subseteq Nat
  BY <1>1, SkewAssumption, GapAssumption
<1>3. CASE p.cmd = cmd
  BY <1>1, <1>2, <1>3 DEF Good
<1>4. CASE p.cmd < cmd
  <2>1. End(p.cmd) + Gap <= End(cmd)
    BY <1>1, <1>4, EndsApart
  <2>2. p.ts < End(cmd) - Window
    BY <1>1, <1>2, <2>1, GapAssumption
  <2> QED
    BY <1>1, <1>2, <1>4, <2>2 DEF Good
<1> QED
  BY <1>1, <1>3, <1>4

-----------------------------------------------------------------------------
(* The queue.                                                              *)

\* s is q without its first k packets.
Suffix(s, q, k) ==
  /\ k \in 0 .. Len(q) /\ s \in Seq(Packet) /\ Len(s) = Len(q) - k
  /\ \A i \in 1 .. Len(s) : s[i] = q[k + i]

\* process_lan drops packets from the front, and only stale ones for their age.
LEMMA FreshSuffix ==
  ASSUME NEW q \in Seq(Packet)
  PROVE  \E k \in 0 .. Len(q) : Suffix(Fresh(q), q, k) /\ \A i \in 1 .. Len(q) : ~q[i].stale => i > k
<1> DEFINE keep == {i \in DOMAIN q : \A j \in 1 .. i : q[j].stale}
           k == Cardinality(keep)
<1>1. Len(q) \in Nat /\ DOMAIN q = 1 .. Len(q) /\ keep \subseteq 1 .. Len(q)
  OBVIOUS
<1>2. \A n \in Nat : keep \subseteq 1 .. n => k <= n /\ k \in Nat
  <2> SUFFICES ASSUME NEW n \in Nat, keep \subseteq 1 .. n PROVE k <= n /\ k \in Nat
    OBVIOUS
  <2> HIDE DEF keep
  <2>1. IsFiniteSet(1 .. n) /\ Cardinality(1 .. n) = n
    BY FS_Interval
  <2> QED
    BY <2>1, FS_Subset, FS_CardinalityType
<1>3. k \in 0 .. Len(q)
  <2> HIDE DEF keep, k
  <2> QED
    BY <1>1, <1>2
<1>4. ASSUME NEW i \in 1 .. Len(q), ~q[i].stale PROVE i > k
  <2>1. keep \subseteq 1 .. i - 1 /\ i - 1 \in Nat
    BY <1>4
  <2> HIDE DEF keep, k
  <2> QED
    BY <1>2, <1>3, <2>1
<1>5. Suffix(Fresh(q), q, k)
  <2>1. Fresh(q) = SubSeq(q, k + 1, Len(q))
    BY DEF Fresh
  <2> HIDE DEF k, keep
  <2>2. k \in Int /\ k + 1 \in Int /\ Len(q) \in Int /\ \A i \in k + 1 .. Len(q) : q[i] \in Packet
    BY <1>1, <1>3
  <2>3. /\ Fresh(q) \in Seq(Packet)
        /\ Len(Fresh(q)) = IF k + 1 <= Len(q) THEN Len(q) - (k + 1) + 1 ELSE 0
        /\ \A i \in 1 .. Len(q) - (k + 1) + 1 : Fresh(q)[i] = q[(k + 1) + i - 1]
    BY <2>1, <2>2, SubSeqProperties
  <2>4. Len(Fresh(q)) = Len(q) - k
    <3>0. k + 1 <= Len(q) \/ k = Len(q)
      <4>1. \A n \in Nat : \A m \in 0 .. n : m + 1 <= n \/ m = n
        OBVIOUS
      <4>2. Len(q) \in Nat
        BY <1>1
      <4> QED
        BY <1>3, <4>1, <4>2
    <3>1. CASE k + 1 <= Len(q)
      <4>1. Len(Fresh(q)) = Len(q) - (k + 1) + 1
        BY <2>3, <3>1
      <4>2. \A n, m \in Int : n - (m + 1) + 1 = n - m
        OBVIOUS
      <4>3. Len(q) - (k + 1) + 1 = Len(q) - k
        BY <2>2, <4>2
      <4> QED
        BY <4>1, <4>3
    <3>2. CASE k = Len(q)
      <4>1. Len(Fresh(q)) = 0
        BY <1>1, <2>2, <2>3, <3>2
      <4> QED
        BY <1>1, <3>2, <4>1
    <3> QED
      BY <3>0, <3>1, <3>2
  <2>5. \A i \in 1 .. Len(Fresh(q)) : Fresh(q)[i] = q[k + i]
    <3>1. \A i \in 1 .. Len(q) - k : i \in 1 .. Len(q) - (k + 1) + 1 /\ (k + 1) + i - 1 = k + i
      BY <1>1, <1>3
    <3> QED
      BY <2>3, <2>4, <3>1
  <2> QED
    BY <1>3, <2>3, <2>4, <2>5 DEF Suffix
<1> HIDE DEF k
<1> QED
  BY <1>3, <1>4, <1>5

\* One packet more is dropped.
LEMMA TailSuffix ==
  ASSUME NEW q \in Seq(Packet), NEW s, NEW k, Suffix(s, q, k), s # <<>>
  PROVE  Suffix(Tail(s), q, k + 1) /\ k + 1 \in 1 .. Len(q) /\ Head(s) = q[k + 1]
BY DEF Suffix

\* A reply to this CMD is told by its client.
LEMMA SameReply ==
  ASSUME Inv, NEW p \in air, NEW p2 \in air, IsReply(p), IsReply(p2), p.cmd = cmd, p2.cmd = cmd, p.from = p2.from
  PROVE  p = p2
<1>1. p \in Packet /\ p2 \in Packet /\ Stamped(p) /\ Stamped(p2) /\ ~p.stale /\ ~p2.stale
  BY DEF Inv, Types, Stamps
<1>2. p.ts = p2.ts /\ p.blank = p2.blank /\ p.stale = p2.stale /\ p.type = p2.type
  BY <1>1 DEF Stamped, IsReply, Packet
<1> QED
  BY <1>1, <1>2 DEF Packet

\* The queue loses packets at its front and may get one from the air: an
\* answer stays at one place.
LEMMA QueueMoves ==
  ASSUME Inv, NEW s, NEW k, Suffix(s, rx, k), UNCHANGED <<cmd, asked, owed>>,
         \/ rx' = s /\ air' \subseteq air
         \/ \E p \in air : rx' = Append(s, p) /\ air' = air \ {p},
         \A c \in Clients : c \in seen' => c \in seen \/ (~Owing(c) /\ ~Flying(c)' /\ ~Queued(c)')
  PROVE  /\ rx' \in Seq(Packet) /\ air' \subseteq Packet /\ Stamps' /\ Once'
         /\ (~stalled' => ~stalled) => Aged'
<1>0. rx \in Seq(Packet) /\ air \subseteq Packet /\ s \in Seq(Packet) /\ k \in 0 .. Len(rx)
  BY DEF Inv, Types, Suffix
<1>1. PICK M : /\ M \subseteq air /\ air' \subseteq air \ M /\ (\A p, p2 \in M : p = p2)
               /\ rx' \in Seq(Packet)
               /\ \A j \in DOMAIN rx' : \/ j \in 1 .. Len(s) /\ k + j \in DOMAIN rx /\ rx'[j] = rx[k + j]
                                        \/ j = Len(s) + 1 /\ rx'[j] \in M
  <2>1. \A j \in 1 .. Len(s) : k + j \in DOMAIN rx /\ s[j] = rx[k + j]
    BY <1>0 DEF Suffix
  <2>2. CASE rx' = s /\ air' \subseteq air
    <3>1. \A j \in DOMAIN rx' : j \in 1 .. Len(s) /\ k + j \in DOMAIN rx /\ rx'[j] = rx[k + j]
      BY <1>0, <2>1, <2>2
    <3> DEFINE none == {}
    <3>2. rx' \in Seq(Packet) /\ none \subseteq air /\ air' \subseteq air \ none /\ (\A x, y \in none : x = y)
      BY <1>0, <2>2
    <3> HIDE DEF none
    <3> WITNESS none
    <3> QED
      BY <3>1, <3>2
  <2>3. CASE \E p \in air : rx' = Append(s, p) /\ air' = air \ {p}
    <3>1. PICK p \in air : rx' = Append(s, p) /\ air' = air \ {p}
      BY <2>3
    <3>2. rx' \in Seq(Packet) /\ DOMAIN rx' = 1 .. Len(s) + 1
      BY <1>0, <3>1
    <3>3. \A j \in DOMAIN rx' : \/ j \in 1 .. Len(s) /\ rx'[j] = s[j]
                                \/ j = Len(s) + 1 /\ rx'[j] = p
      BY <1>0, <3>1, <3>2
    <3>4. \A j \in DOMAIN rx' : \/ j \in 1 .. Len(s) /\ k + j \in DOMAIN rx /\ rx'[j] = rx[k + j]
                                \/ j = Len(s) + 1 /\ rx'[j] \in {p}
      BY <2>1, <3>3
    <3>5. {p} \subseteq air /\ air' \subseteq air \ {p} /\ (\A x, y \in {p} : x = y)
      BY <3>1
    <3> WITNESS {p}
    <3> QED
      BY <3>2, <3>4, <3>5
  <2> QED
    BY <2>2, <2>3
<1>2. air' \subseteq Packet
  BY <1>0, <1>1
<1>3. \A p : Stamped(p)' <=> Stamped(p)
  BY DEF Stamped, End
<1>4. Stamps'
  <2>1. \A p \in air : Stamped(p) /\ ~p.stale
    BY DEF Inv, Stamps
  <2>2. \A i \in DOMAIN rx : Stamped(rx[i])
    BY DEF Inv, Stamps
  <2>3. \A p \in air' : Stamped(p)' /\ ~p.stale
    BY <1>1, <1>3, <2>1
  <2>4. \A i \in DOMAIN rx' : Stamped(rx'[i])
    BY <1>1, <2>1, <2>2
  <2>5. \A i \in DOMAIN rx' : Stamped(rx[i])'
    BY <2>4 DEF Stamped, End
  <2> QED
    BY <2>3, <2>5 DEF Inv, Stamps
<1>5. \A c \in Clients : /\ Owing(c)' <=> Owing(c)
                         /\ Flying(c)' => Flying(c)
                         /\ Queued(c)' => Queued(c) \/ (Flying(c) /\ ~Flying(c)')
  <2> TAKE c \in Clients
  <2>1. Owing(c)' <=> Owing(c)
    BY DEF Owing
  <2>2. Flying(c)' => Flying(c)
    BY <1>1 DEF Flying
  <2>3. ASSUME Queued(c)' PROVE Queued(c) \/ (Flying(c) /\ ~Flying(c)')
    <3>1. PICK j \in DOMAIN rx' : IsReply(rx'[j]) /\ rx'[j].from = c /\ rx'[j].cmd = cmd
      BY <2>3 DEF Queued, IsReply
    <3>2. CASE k + j \in DOMAIN rx /\ rx'[j] = rx[k + j]
      BY <3>1, <3>2 DEF Queued
    <3>3. CASE rx'[j] \in M
      <4>1. rx'[j] \in air /\ Flying(c)
        BY <1>1, <3>1, <3>3 DEF Flying
      <4>2. \A p2 \in air' : ~(IsReply(p2) /\ p2.from = c /\ p2.cmd = cmd)
        BY <1>1, <3>1, <3>3, <4>1, SameReply
      <4> QED
        BY <4>1, <4>2 DEF Flying, IsReply
    <3> QED
      BY <1>1, <3>2, <3>3
  <2> QED
    BY <2>1, <2>2, <2>3
<1>6. \A c \in Clients : \A i, j \in DOMAIN rx' : (AnswerAt(i, c) /\ AnswerAt(j, c))' => i = j
  <2> SUFFICES ASSUME NEW c \in Clients, NEW i \in DOMAIN rx', NEW j \in DOMAIN rx',
                      AnswerAt(i, c)', AnswerAt(j, c)'
               PROVE  i = j
    OBVIOUS
  <2>1. /\ IsReply(rx'[i]) /\ rx'[i].from = c /\ rx'[i].cmd = cmd
        /\ IsReply(rx'[j]) /\ rx'[j].from = c /\ rx'[j].cmd = cmd
    BY DEF AnswerAt, IsReply
  <2>2. \A x \in DOMAIN rx' : x \in Nat
    BY <1>1
  <2>3. \A x \in DOMAIN rx' : IsReply(rx'[x]) /\ rx'[x].from = c /\ rx'[x].cmd = cmd =>
            \/ k + x \in DOMAIN rx /\ AnswerAt(k + x, c) /\ Queued(c)
            \/ x = Len(s) + 1 /\ Flying(c)
    BY <1>1 DEF AnswerAt, Queued, Flying
  <2>4. Flying(c) => ~Queued(c)
    BY DEF Inv, Once
  <2>5. CASE Queued(c)
    <3>1. k + i \in DOMAIN rx /\ AnswerAt(k + i, c) /\ k + j \in DOMAIN rx /\ AnswerAt(k + j, c)
      BY <2>1, <2>3, <2>4, <2>5
    <3>2. k + i = k + j
      BY <3>1 DEF Inv, Once
    <3> QED
      BY <1>0, <2>2, <3>2
  <2>6. CASE ~Queued(c)
    BY <2>1, <2>3, <2>6
  <2> QED
    BY <2>5, <2>6
<1>7. Once'
  BY <1>5, <1>6 DEF Inv, Once
<1>8. ASSUME ~stalled' => ~stalled PROVE Aged'
  <2>1. \A p \in air : ~p.stale
    BY DEF Inv, Stamps
  <2>2. ~stalled => \A i \in DOMAIN rx : IsReply(rx[i]) => ~rx[i].stale
    BY DEF Inv, Aged
  <2> QED
    BY <1>1, <1>8, <2>1, <2>2 DEF Aged, IsReply
<1> QED
  BY <1>1, <1>2, <1>4, <1>7, <1>8

-----------------------------------------------------------------------------
(* The steps that neither move a packet nor change what is heard.          *)

\* The state the replies are counted in does not change.
LEMMA ExchangeKept ==
  ASSUME Inv, UNCHANGED <<cmd, asked, rx, ret, seen, got, owed, air, stalled>>, at' \in Places,
         connected' \subseteq Clients, regular' \in Nat,
         at' \in {"idle", "send"} => at \in {"idle", "send"}, at' = "wait" => at = "wait",
         at' \in {"send", "gather", "wait"} => at \in {"send", "gather", "wait"}
  PROVE  Inv'
<1>1. Types'
  BY DEF Inv, Types
<1>2. Stamps'
  BY DEF Inv, Stamps, Stamped, IsReply, End
<1>3. Once'
  BY DEF Inv, Once, Owing, Flying, Queued, AnswerAt, IsReply
<1>4. Phases'
  BY DEF Inv, Phases
<1>5. Aged'
  BY DEF Inv, Aged, IsReply
<1>6. AnswerKept'
  <2>1. ASSUME NEW c \in Clients PROVE (Coming(c)' <=> Coming(c)) /\ (Queued(c)' <=> Queued(c))
    BY DEF Coming, Queued, IsReply
  <2>2. at = "send" => \A c \in Clients : c \notin seen
    BY ClientsAssumption DEF Inv, Phases
  <2> QED
    BY <2>1, <2>2 DEF Inv, AnswerKept
<1> QED
  BY <1>1, <1>2, <1>3, <1>4, <1>5, <1>6 DEF Inv

\* A host that has sent no CMD satisfies the invariant.
LEMMA InitInv == Init => Inv
<1> SUFFICES ASSUME Init PROVE Inv
  OBVIOUS
<1>1. Types
  <2>1. Nothing \in Answer
    BY DEF Nothing, Answer
  <2>2. got \in [Aids -> Answer]
    BY <2>1 DEF Init
  <2>3. cmd \in 0 .. MaxCmds
    BY ExchangeBounds DEF Init
  <2>4. rx \in Seq(Packet)
    BY DEF Init
  <2> QED
    BY <2>2, <2>3, <2>4 DEF Init, Types, Places
<1>2. Stamps /\ Aged
  BY DEF Init, Stamps, Aged
<1>3. Once
  BY ClientsAssumption DEF Init, Once, Owing, Flying, Queued, AnswerAt
<1>4. Phases
  BY DEF Init, Phases
<1>5. AnswerKept
  BY DEF Init, AnswerKept
<1> QED
  BY <1>1, <1>2, <1>3, <1>4, <1>5 DEF Inv

\* A CMD goes out: no answer to it exists yet, and every client owes one.
LEMMA SendCmdInv == ASSUME Inv, SendCmd PROVE Inv'
<1> DEFINE new == {[from |-> c, cmd |-> cmd', blank |-> Aid[c] \notin asked'] : c \in Clients}
<1>0. /\ cmd \in Nat /\ cmd' = cmd + 1 /\ cmd' \in 0 .. MaxCmds /\ seen' = {0} /\ ret' = {}
      /\ at' = "send" /\ asked' \subseteq Aids /\ stalled' = FALSE
      /\ UNCHANGED <<got, connected, air, regular>>
      /\ rx \in Seq(Packet) /\ rx' = NoReplies(rx) /\ owed' = owed \cup new /\ air \subseteq Packet
  BY ExchangeBounds DEF Inv, Types, Phases, SendCmd, bounds
<1>1. rx' \in Seq(Packet) /\ DOMAIN rx' = 1 .. Len(rx') /\ \A i \in DOMAIN rx' : ~IsReply(rx'[i])
  BY <1>0, NoRepliesFacts
<1> DEFINE Ask(c) == [from |-> c, cmd |-> cmd', blank |-> Aid[c] \notin asked']
<1>a. \A c \in Clients : /\ Ask(c) \in Owed /\ Ask(c).from = c /\ Ask(c).cmd = cmd'
                         /\ (Ask(c).blank <=> Aid[c] \notin asked')
  <2> TAKE c \in Clients
  <2>1. cmd' \in Nat /\ (Aid[c] \notin asked') \in BOOLEAN
    BY <1>0
  <2> QED
    BY <2>1 DEF Owed
<1>b. new = {Ask(c) : c \in Clients}
  OBVIOUS
<1> HIDE DEF new, Ask
<1>2. new \subseteq Owed /\ \A o \in new : o.cmd = cmd' /\ (o.blank <=> Aid[o.from] \notin asked')
  BY <1>a, <1>b
<1>3. \A c \in Clients : \E o \in new : o.from = c /\ o.cmd = cmd'
  BY <1>a, <1>b
<1>4. Types'
  BY <1>0, <1>1, <1>2 DEF Inv, Types, Places
<1>5. \A p \in air : IsReply(p) => p.cmd \in Nat /\ p.cmd <= cmd
  BY <1>0 DEF Inv, Stamps, Stamped, Packet
<1>6. Stamps'
  <2>1. \A p \in air' : Stamped(p)' /\ ~p.stale
    <3> SUFFICES ASSUME NEW p \in air PROVE Stamped(p)' /\ ~p.stale
      BY <1>0
    <3>1. Stamped(p) /\ ~p.stale
      BY DEF Inv, Stamps
    <3>2. IsReply(p) => p.cmd <= cmd' /\ p.cmd # cmd'
      BY <1>0, <1>5
    <3> QED
      BY <3>1, <3>2 DEF Stamped, IsReply, End
  <2>2. \A i \in DOMAIN rx' : Stamped(rx[i])'
    BY <1>1 DEF Stamped, IsReply
  <2>3. \A o \in owed : o.cmd \in Nat /\ o.cmd <= cmd
    BY DEF Inv, Stamps, Types, Owed
  <2>4. \A o \in owed' : o.cmd <= cmd' /\ (o.cmd = cmd' => (o.blank <=> Aid[o.from] \notin asked'))
    BY <1>0, <1>2, <2>3
  <2> QED
    BY <2>1, <2>2, <2>4 DEF Stamps
<1>7. \A c \in Clients : Owing(c)' /\ ~Flying(c)' /\ ~Queued(c)' /\ c \notin seen'
  <2> TAKE c \in Clients
  <2>1. Owing(c)'
    BY <1>0, <1>3 DEF Owing
  <2>2. ~Flying(c)'
    BY <1>0, <1>5 DEF Flying, IsReply
  <2>3. ~Queued(c)'
    BY <1>1 DEF Queued, IsReply
  <2> QED
    BY <1>0, <2>1, <2>2, <2>3, ClientsAssumption
<1>8. Once'
  BY <1>1, <1>7 DEF Once, AnswerAt, IsReply
<1>9. Phases' /\ Aged'
  BY <1>0, <1>1 DEF Phases, Aged, IsReply
<1>10. AnswerKept'
  BY <1>7 DEF AnswerKept, Coming, Owing
<1> QED
  BY <1>4, <1>6, <1>8, <1>9, <1>10 DEF Inv

\* The host is held up: whatever is queued is stale now.
LEMMA StallInv == ASSUME Inv, Stall PROVE Inv'
<1>0. /\ UNCHANGED <<at, cmd, asked, ret, seen, got, connected, owed, air, regular>>
      /\ stalled' = TRUE /\ at # "wait" /\ rx \in Seq(Packet)
      /\ rx' = [i \in DOMAIN rx |-> [rx[i] EXCEPT !.stale = TRUE]]
  BY DEF Inv, Types, Stall, cmdVars, clientVars
<1>1. \A p \in Packet : [p EXCEPT !.stale = TRUE] \in Packet /\ [p EXCEPT !.stale = TRUE].type = p.type
         /\ [p EXCEPT !.stale = TRUE].from = p.from /\ [p EXCEPT !.stale = TRUE].cmd = p.cmd
         /\ [p EXCEPT !.stale = TRUE].ts = p.ts /\ [p EXCEPT !.stale = TRUE].blank = p.blank
  BY DEF Packet
<1>2. DOMAIN rx = 1 .. Len(rx) /\ Len(rx) \in Nat /\ DOMAIN rx' = DOMAIN rx /\ \A i \in DOMAIN rx : rx[i] \in Packet
  BY <1>0
<1>3. \A i \in DOMAIN rx : /\ rx'[i] \in Packet /\ rx'[i].type = rx[i].type /\ rx'[i].from = rx[i].from
                           /\ rx'[i].cmd = rx[i].cmd /\ rx'[i].ts = rx[i].ts /\ rx'[i].blank = rx[i].blank
  BY <1>0, <1>1, <1>2
<1>4. rx' \in Seq(Packet)
  BY <1>0, <1>2, <1>3
<1>5. Types'
  BY <1>0, <1>4 DEF Inv, Types
<1>6. Stamps'
  BY <1>0, <1>2, <1>3 DEF Inv, Stamps, Stamped, IsReply, End
<1>7. \A c \in Clients : (Owing(c)' <=> Owing(c)) /\ (Flying(c)' <=> Flying(c)) /\ (Queued(c)' <=> Queued(c))
  BY <1>0, <1>2, <1>3 DEF Owing, Flying, Queued, IsReply
<1>8. \A c \in Clients : \A i \in DOMAIN rx : AnswerAt(i, c)' <=> AnswerAt(i, c)
  BY <1>0, <1>3 DEF AnswerAt, IsReply
<1>9. Once'
  BY <1>0, <1>2, <1>7, <1>8 DEF Inv, Once
<1>10. Phases' /\ Aged' /\ AnswerKept'
  BY <1>0 DEF Inv, Phases, Aged, AnswerKept
<1> QED
  BY <1>5, <1>6, <1>9, <1>10 DEF Inv

\* A client answers: what it owed is on its way.
LEMMA ReplyInv == ASSUME Inv, Reply PROVE Inv'
<1>0. PICK o \in owed :
           /\ owed' = owed \ {o}
           /\ air' = air \cup {[from |-> o.from, type |-> 2, cmd |-> o.cmd,
                                ts |-> End(o.cmd) + Skew[o.from], blank |-> o.blank, stale |-> FALSE]}
           /\ UNCHANGED <<at, cmd, asked, rx, ret, seen, got, connected, stalled, regular>>
  BY DEF Reply, cmdVars, bounds
<1> DEFINE r == [from |-> o.from, type |-> 2, cmd |-> o.cmd,
                 ts |-> End(o.cmd) + Skew[o.from], blank |-> o.blank, stale |-> FALSE]
<1>1. /\ o \in Owed /\ o.from \in Clients /\ o.cmd \in Nat /\ o.blank \in BOOLEAN /\ o.cmd <= cmd
      /\ (o.cmd = cmd => (o.blank <=> Aid[o.from] \notin asked))
  BY <1>0 DEF Inv, Types, Stamps, Owed
<1>2. r \in Packet
  <2>1. Skew[o.from] \in Int /\ End(o.cmd) \in Int
    BY <1>1, SkewAssumption, GapAssumption DEF End
  <2> QED
    BY <1>1, <2>1 DEF Packet
<1>3. /\ IsReply(r) /\ r.from = o.from /\ r.cmd = o.cmd /\ ~r.stale /\ Stamped(r)
  BY <1>1 DEF Stamped, IsReply
<1>4. air' = air \cup {r}
  BY <1>0
<1> HIDE DEF r
<1>5. Types'
  BY <1>0, <1>2, <1>4 DEF Inv, Types
<1>6. Stamps'
  BY <1>0, <1>3, <1>4 DEF Inv, Stamps, Stamped, IsReply, End
<1>7. \A o2 \in owed : o2.cmd = cmd /\ o.cmd = cmd /\ o2.from = o.from => o2 = o
  <2> SUFFICES ASSUME NEW o2 \in owed, o2.cmd = cmd, o.cmd = cmd, o2.from = o.from PROVE o2 = o
    OBVIOUS
  <2>1. o2 \in Owed /\ (o2.blank <=> Aid[o2.from] \notin asked)
    BY DEF Inv, Types, Stamps
  <2>2. o2.blank = o.blank
    BY <1>1, <2>1 DEF Owed
  <2> QED
    BY <1>1, <2>1, <2>2 DEF Owed
<1>8. \A c \in Clients : /\ Owing(c)' <=> (Owing(c) /\ ~(c = o.from /\ o.cmd = cmd))
                         /\ Flying(c)' <=> (Flying(c) \/ (c = o.from /\ o.cmd = cmd))
                         /\ Queued(c)' <=> Queued(c)
  <2> TAKE c \in Clients
  <2>1. Owing(c)' <=> (Owing(c) /\ ~(c = o.from /\ o.cmd = cmd))
    BY <1>0, <1>7 DEF Owing
  <2>2. Flying(c)' <=> (Flying(c) \/ (c = o.from /\ o.cmd = cmd))
    BY <1>0, <1>3, <1>4 DEF Flying, IsReply
  <2>3. Queued(c)' <=> Queued(c)
    BY <1>0 DEF Queued, IsReply
  <2> QED
    BY <2>1, <2>2, <2>3
<1>9. o.cmd = cmd => Owing(o.from)
  BY <1>0 DEF Owing
<1>10. Once'
  BY <1>0, <1>1, <1>8, <1>9 DEF Inv, Once, AnswerAt, IsReply
<1>11. Phases' /\ Aged'
  BY <1>0 DEF Inv, Phases, Aged, IsReply
<1>12. AnswerKept'
  <2>1. \A c \in Clients : (Coming(c) <=> Owing(c) \/ Flying(c)) /\ (Coming(c)' <=> Owing(c)' \/ Flying(c)')
    BY DEF Coming, Owing, Flying, IsReply
  <2> QED
    BY <1>0, <1>8, <2>1 DEF Inv, AnswerKept
<1> QED
  BY <1>5, <1>6, <1>10, <1>11, <1>12 DEF Inv

\* A regular frame is sent: it is nobody's answer.
LEMMA SendPacketInv == ASSUME Inv, SendPacket PROVE Inv'
<1> DEFINE f == [from |-> 0, type |-> 0, cmd |-> 0, ts |-> regular, blank |-> FALSE, stale |-> FALSE]
<1>0. /\ UNCHANGED <<at, cmd, asked, rx, ret, seen, got, connected, owed, stalled>>
      /\ regular \in Nat /\ regular' = regular + 1 /\ air' = air \cup {f}
  BY DEF Inv, Types, SendPacket, cmdVars
<1>1. f \in Packet /\ ~IsReply(f) /\ ~f.stale
  BY <1>0 DEF Packet, IsReply
<1> HIDE DEF f
<1>2. Types'
  BY <1>0, <1>1 DEF Inv, Types
<1>3. Stamps'
  BY <1>0, <1>1 DEF Inv, Stamps, Stamped, IsReply, End
<1>4. \A c \in Clients : (Owing(c)' <=> Owing(c)) /\ (Flying(c)' <=> Flying(c)) /\ (Queued(c)' <=> Queued(c))
  BY <1>0, <1>1 DEF Owing, Flying, Queued, IsReply
<1>5. Once'
  BY <1>0, <1>4 DEF Inv, Once, AnswerAt, IsReply
<1>6. Phases' /\ Aged'
  BY <1>0 DEF Inv, Phases, Aged, IsReply
<1>7. AnswerKept'
  <2>1. \A c \in Clients : (Coming(c) <=> Owing(c) \/ Flying(c)) /\ (Coming(c)' <=> Owing(c)' \/ Flying(c)')
    BY DEF Coming, Owing, Flying, IsReply
  <2> QED
    BY <1>0, <1>4, <2>1 DEF Inv, AnswerKept
<1> QED
  BY <1>2, <1>3, <1>5, <1>6, <1>7 DEF Inv

-----------------------------------------------------------------------------
(* The steps that take packets from the queue or from the air.             *)

AnswerOf(p, c) == IsReply(p) /\ p.from = c /\ p.cmd = cmd

\* Without a stall, dropping the stale packets keeps every answer to this CMD.
LEMMA FreshKeeps ==
  ASSUME Inv, ~stalled, NEW c \in Clients, Queued(c)
  PROVE  \E j \in 1 .. Len(Fresh(rx)) : AnswerOf(Fresh(rx)[j], c)
<1>1. rx \in Seq(Packet)
  BY DEF Inv, Types
<1>2. PICK k \in 0 .. Len(rx) : Suffix(Fresh(rx), rx, k) /\ \A i \in 1 .. Len(rx) : ~rx[i].stale => i > k
  BY <1>1, FreshSuffix
<1>3. PICK i \in 1 .. Len(rx) : AnswerOf(rx[i], c)
  BY <1>1 DEF Queued, AnswerOf
<1>4. i > k
  BY <1>1, <1>2, <1>3 DEF Inv, Aged, AnswerOf
<1>5. i - k \in 1 .. Len(Fresh(rx)) /\ Fresh(rx)[i - k] = rx[i]
  <2>1. Len(Fresh(rx)) = Len(rx) - k /\ \A j \in 1 .. Len(Fresh(rx)) : Fresh(rx)[j] = rx[k + j]
    BY <1>2 DEF Suffix
  <2>2. Len(rx) \in Nat /\ k \in Nat /\ i \in Nat /\ i <= Len(rx)
    BY <1>1
  <2>3. i - k \in 1 .. Len(rx) - k /\ k + (i - k) = i
    BY <1>4, <2>2
  <2> QED
    BY <2>1, <2>3
<1> QED
  BY <1>3, <1>5

\* What hearing a packet does: an answer to this CMD is counted, nothing else.
LEMMA Heard ==
  ASSUME Inv, at \in {"gather", "wait"}, NEW p \in Packet, Stamped(p), Hear(p), UNCHANGED <<cmd, asked, connected>>
  PROVE  /\ at' \in {"gather", "done"} /\ seen' \subseteq Clients \cup {0} /\ ret' \subseteq Aids
         /\ got' \in [Aids -> Answer]
         /\ \A c \in Clients : (Aid[c] \in ret)' => got'[Aid[c]] = [from |-> c, cmd |-> cmd]
         /\ \A c \in Clients : c \in seen' <=> (c \in seen \/ AnswerOf(p, c))
         /\ at' = "done" => connected \subseteq seen' \/ asked \subseteq ret'
<1>0. /\ cmd \in Nat /\ got \in [Aids -> Answer] /\ ret \subseteq Aids /\ seen \subseteq Clients \cup {0}
      /\ \A c \in Clients : Aid[c] \in ret => got[Aid[c]] = [from |-> c, cmd |-> cmd]
  BY DEF Inv, Types, Phases
<1>1. CASE ~Good(p)
  <2>1. at' = "gather" /\ ret' = ret /\ seen' = seen /\ got' = got
    BY <1>1 DEF Hear
  <2>2. \A c \in Clients : ~AnswerOf(p, c)
    BY <1>0, <1>1, GoodIsThisCmd DEF AnswerOf
  <2> QED
    BY <1>0, <2>1, <2>2
<1>2. CASE Good(p)
  <2>1. IsReply(p) /\ p.from \in Clients /\ p.cmd = cmd /\ Aid[p.from] \in Aids
    BY <1>0, <1>2, GoodIsThisCmd DEF Good, Stamped, Aids
  <2>2. seen' = seen \cup {p.from} /\ \A c \in Clients : AnswerOf(p, c) <=> c = p.from
    BY <1>2, <2>1 DEF Hear, AnswerOf
  <2>3. at' \in {"gather", "done"} /\ (at' = "done" => connected \subseteq seen' \/ asked \subseteq ret')
    BY <1>2 DEF Hear, AllHeard
  <2>4. CASE p.blank
    <3>1. ret' = ret /\ got' = got
      BY <1>2, <2>4 DEF Hear
    <3> QED
      BY <1>0, <2>1, <2>2, <2>3, <3>1
  <2>5. CASE ~p.blank
    <3> DEFINE a == [from |-> p.from, cmd |-> p.cmd]
    <3>1. ret' = ret \cup {Aid[p.from]} /\ got' = [got EXCEPT ![Aid[p.from]] = a]
      BY <1>2, <2>5 DEF Hear
    <3>2. a \in Answer /\ a = [from |-> p.from, cmd |-> cmd]
      BY <1>0, <2>1 DEF Answer
    <3> HIDE DEF a
    <3>3. got' \in [Aids -> Answer] /\ ret' \subseteq Aids
      BY <1>0, <2>1, <3>1, <3>2
    <3>4. \A c \in Clients : Aid[c] \in ret' => got'[Aid[c]] = [from |-> c, cmd |-> cmd]
      <4> SUFFICES ASSUME NEW c \in Clients, Aid[c] \in ret' PROVE got'[Aid[c]] = [from |-> c, cmd |-> cmd]
        OBVIOUS
      <4>1. CASE c = p.from
        BY <1>0, <2>1, <3>1, <3>2, <4>1
      <4>2. CASE c # p.from
        <5>1. Aid[c] # Aid[p.from]
          BY <2>1, <4>2, AidAssumption
        <5>2. Aid[c] \in ret /\ Aid[c] \in Aids
          BY <1>0, <3>1, <5>1
        <5>3. got'[Aid[c]] = got[Aid[c]]
          BY <1>0, <3>1, <5>1, <5>2
        <5> QED
          BY <1>0, <5>2, <5>3
      <4> QED
        BY <4>1, <4>2
    <3> QED
      BY <1>0, <2>1, <2>2, <2>3, <3>3, <3>4
  <2> QED
    BY <2>4, <2>5
<1> QED
  BY <1>1, <1>2

\* A queue of which nothing is dropped.
LEMMA WholeSuffix == ASSUME rx \in Seq(Packet) PROVE Suffix(rx, rx, 0)
BY DEF Suffix

\* recv_replies takes the first packet of the queue that is not stale.
LEMMA TakeQueuedInv == ASSUME Inv, TakeQueued PROVE Inv'
<1> DEFINE s == Fresh(rx)
<1>0. /\ at = "gather" /\ s # <<>> /\ Hear(Head(s)) /\ rx' = Tail(s)
      /\ UNCHANGED <<cmd, asked, connected, owed, air, stalled, regular>>
      /\ rx \in Seq(Packet) /\ DOMAIN rx = 1 .. Len(rx)
  BY DEF TakeQueued, cmdVars, clientVars, bounds, Inv, Types
<1>1. PICK k \in 0 .. Len(rx) : Suffix(s, rx, k)
  BY <1>0, FreshSuffix
<1> HIDE DEF s
<1>2. Suffix(Tail(s), rx, k + 1) /\ k + 1 \in DOMAIN rx /\ Head(s) = rx[k + 1] /\ s \in Seq(Packet)
  <2>1. s \in Seq(Packet)
    BY <1>1 DEF Suffix
  <2> QED
    BY <1>0, <1>1, <2>1, TailSuffix
<1> DEFINE p == Head(s)
<1>3. p \in Packet /\ Stamped(p)
  BY <1>0, <1>2 DEF Inv, Stamps
<1>4. \A c \in Clients : AnswerOf(p, c) => AnswerAt(k + 1, c) /\ Queued(c)
  BY <1>2 DEF AnswerOf, AnswerAt, Queued
<1> HIDE DEF p
<1>5. Hear(p)
  BY <1>0 DEF p
<1>6. /\ at' \in {"gather", "done"} /\ seen' \subseteq Clients \cup {0} /\ ret' \subseteq Aids
      /\ got' \in [Aids -> Answer]
      /\ \A c \in Clients : (Aid[c] \in ret)' => got'[Aid[c]] = [from |-> c, cmd |-> cmd]
      /\ \A c \in Clients : c \in seen' <=> (c \in seen \/ AnswerOf(p, c))
  BY <1>0, <1>3, <1>5, Heard
<1>7. ASSUME NEW c \in Clients, AnswerOf(p, c) PROVE ~Owing(c) /\ ~Flying(c)' /\ ~Queued(c)'
  <2>1. ~Owing(c) /\ ~Flying(c)
    BY <1>4, <1>7 DEF Inv, Once
  <2>2. ~Flying(c)'
    BY <1>0, <2>1 DEF Flying, IsReply
  <2>3. ~Queued(c)'
    <3> SUFFICES ASSUME NEW j \in DOMAIN rx', AnswerOf(rx'[j], c) PROVE FALSE
      BY <1>0 DEF Queued, AnswerOf, IsReply
    <3>1. j \in Nat /\ j >= 1 /\ k + 1 + j \in DOMAIN rx /\ rx'[j] = rx[k + 1 + j]
      <4> DEFINE t == Tail(s)
      <4>1. /\ t \in Seq(Packet) /\ rx' = t /\ Len(t) = Len(rx) - (k + 1)
            /\ \A i \in 1 .. Len(t) : t[i] = rx[(k + 1) + i]
        BY <1>0, <1>2 DEF Suffix
      <4> HIDE DEF t
      <4>2. DOMAIN rx' = 1 .. Len(t) /\ Len(t) \in Nat /\ Len(rx) \in Nat /\ k \in Nat
        <5>1. DOMAIN t = 1 .. Len(t) /\ Len(t) \in Nat
          BY <4>1
        <5>2. Len(rx) \in Nat
          BY <1>0
        <5> QED
          BY <4>1, <5>1, <5>2
      <4>3. j \in 1 .. Len(t) /\ (k + 1) + j = k + 1 + j
        BY <4>2
      <4>4. k + 1 + j \in 1 .. Len(rx)
        BY <4>1, <4>2, <4>3
      <4> QED
        BY <1>0, <4>1, <4>3, <4>4
    <3>2. AnswerAt(k + 1 + j, c)
      BY <3>1 DEF AnswerOf, AnswerAt
    <3>3. AnswerAt(k + 1, c)
      BY <1>4, <1>7
    <3>4. k + 1 + j = k + 1
      BY <1>2, <3>1, <3>2, <3>3 DEF Inv, Once
    <3> QED
      BY <3>1, <3>4
  <2> QED
    BY <2>1, <2>2, <2>3
<1>8. \A c \in Clients : c \in seen' => c \in seen \/ (~Owing(c) /\ ~Flying(c)' /\ ~Queued(c)')
  BY <1>6, <1>7
<1>9. rx' \in Seq(Packet) /\ air' \subseteq Packet /\ Stamps' /\ Once' /\ Aged'
  <2>1. UNCHANGED <<cmd, asked, owed>> /\ rx' = Tail(s) /\ air' \subseteq air /\ (~stalled' => ~stalled)
    BY <1>0
  <2> QED
    BY <1>2, <1>8, <2>1, QueueMoves
<1>10. Types'
  BY <1>0, <1>6, <1>9 DEF Inv, Types, Places
<1>11. Phases'
  BY <1>0, <1>6 DEF Phases
<1>12. AnswerKept'
  <2> SUFFICES ASSUME ~stalled, at' = "gather", NEW c \in Clients PROVE Coming(c)' \/ Queued(c)' \/ c \in seen'
    BY <1>0, <1>6 DEF AnswerKept
  <2>1. Coming(c) \/ Queued(c) \/ c \in seen
    BY <1>0 DEF Inv, AnswerKept
  <2>2. CASE Coming(c)
    BY <1>0, <2>2 DEF Coming, IsReply
  <2>3. CASE c \in seen
    BY <1>6, <2>3
  <2>4. CASE Queued(c)
    <3>1. PICK j \in 1 .. Len(s) : AnswerOf(s[j], c)
      BY <2>4, FreshKeeps DEF s
    <3>2. CASE j = 1
      <4>1. AnswerOf(p, c)
        BY <1>2, <3>1, <3>2 DEF p
      <4> QED
        BY <1>6, <4>1
    <3>3. CASE j # 1
      <4>1. j - 1 \in DOMAIN rx' /\ rx'[j - 1] = s[j]
        BY <1>0, <1>2, <3>3
      <4> QED
        BY <1>0, <3>1, <4>1 DEF Queued, AnswerOf, IsReply
    <3> QED
      BY <3>2, <3>3
  <2> QED
    BY <2>1, <2>2, <2>3, <2>4
<1> QED
  BY <1>9, <1>10, <1>11, <1>12 DEF Inv

\* recv_replies has nothing queued and goes to wait.
LEMMA StartWaitInv == ASSUME Inv, StartWait PROVE Inv'
<1>0. /\ at = "gather" /\ Fresh(rx) = <<>> /\ at' = "wait" /\ rx' = <<>>
      /\ UNCHANGED <<cmd, asked, ret, seen, got, connected, owed, air, stalled, regular>>
      /\ rx \in Seq(Packet)
  BY DEF StartWait, cmdVars, clientVars, bounds, Inv, Types
<1>1. PICK k \in 0 .. Len(rx) : Suffix(Fresh(rx), rx, k)
  BY <1>0, FreshSuffix
<1>2. rx' \in Seq(Packet) /\ air' \subseteq Packet /\ Stamps' /\ Once' /\ Aged'
  <2>1. UNCHANGED <<cmd, asked, owed>> /\ rx' = Fresh(rx) /\ air' \subseteq air /\ (~stalled' => ~stalled)
        /\ seen' = seen
    BY <1>0
  <2> QED
    BY <1>1, <2>1, QueueMoves
<1>3. Types' /\ Phases'
  BY <1>0, <1>2 DEF Inv, Types, Places, Phases
<1>4. AnswerKept'
  <2> SUFFICES ASSUME ~stalled, NEW c \in Clients PROVE Coming(c)' \/ c \in seen'
    BY <1>0 DEF AnswerKept
  <2>1. ~Queued(c)
    BY <1>0, FreshKeeps
  <2>2. Coming(c) \/ c \in seen
    BY <1>0, <2>1 DEF Inv, AnswerKept
  <2> QED
    BY <1>0, <2>2 DEF Coming, IsReply
<1> QED
  BY <1>2, <1>3, <1>4 DEF Inv

\* recv_replies gets a packet while it waits.
LEMMA TakeArrivingInv == ASSUME Inv, TakeArriving PROVE Inv'
<1>0. /\ at = "wait" /\ UNCHANGED <<cmd, asked, rx, connected, owed, stalled, regular>>
      /\ rx \in Seq(Packet) /\ rx = <<>>
  BY DEF TakeArriving, cmdVars, bounds, Inv, Types, Phases
<1>1. PICK p \in air : Hear(p) /\ air' = air \ {p}
  BY DEF TakeArriving
<1>2. p \in Packet /\ Stamped(p)
  BY DEF Inv, Types, Stamps
<1>3. /\ at' \in {"gather", "done"} /\ seen' \subseteq Clients \cup {0} /\ ret' \subseteq Aids
      /\ got' \in [Aids -> Answer]
      /\ \A c \in Clients : (Aid[c] \in ret)' => got'[Aid[c]] = [from |-> c, cmd |-> cmd]
      /\ \A c \in Clients : c \in seen' <=> (c \in seen \/ AnswerOf(p, c))
  BY <1>0, <1>1, <1>2, Heard
<1>4. ASSUME NEW c \in Clients, AnswerOf(p, c) PROVE ~Owing(c) /\ ~Flying(c)' /\ ~Queued(c)'
  <2>1. Flying(c) /\ ~Owing(c)
    BY <1>4 DEF Flying, AnswerOf, Inv, Once
  <2>2. \A p2 \in air : AnswerOf(p2, c) => p2 = p
    BY <1>4, SameReply DEF AnswerOf
  <2>3. ~Flying(c)'
    BY <1>0, <1>1, <2>2 DEF Flying, AnswerOf, IsReply
  <2>4. ~Queued(c)'
    BY <1>0 DEF Queued
  <2> QED
    BY <2>1, <2>3, <2>4
<1>5. \A c \in Clients : c \in seen' => c \in seen \/ (~Owing(c) /\ ~Flying(c)' /\ ~Queued(c)')
  BY <1>3, <1>4
<1>6. rx' \in Seq(Packet) /\ air' \subseteq Packet /\ Stamps' /\ Once' /\ Aged'
  <2>1. UNCHANGED <<cmd, asked, owed>> /\ rx' = rx /\ air' \subseteq air /\ (~stalled' => ~stalled)
    BY <1>0, <1>1
  <2> QED
    BY <1>0, <1>5, <2>1, WholeSuffix, QueueMoves
<1>7. Types' /\ Phases'
  BY <1>0, <1>3, <1>6 DEF Inv, Types, Places, Phases
<1>8. AnswerKept'
  <2> SUFFICES ASSUME ~stalled, at' = "gather", NEW c \in Clients PROVE Coming(c)' \/ c \in seen'
    BY <1>0, <1>3 DEF AnswerKept
  <2>1. ~Queued(c)
    BY <1>0 DEF Queued
  <2>2. Owing(c) \/ Flying(c) \/ c \in seen
    BY <1>0, <2>1 DEF Inv, AnswerKept, Coming, Owing, Flying
  <2>3. CASE Owing(c)
    BY <1>0, <2>3 DEF Coming, Owing
  <2>4. CASE Flying(c)
    <3>1. PICK p2 \in air : AnswerOf(p2, c)
      BY <2>4 DEF Flying, AnswerOf
    <3>2. CASE p2 = p
      BY <1>3, <3>1, <3>2
    <3>3. CASE p2 # p
      BY <1>0, <1>1, <3>1, <3>3 DEF Coming, AnswerOf, IsReply
    <3> QED
      BY <3>2, <3>3
  <2> QED
    BY <1>3, <2>2, <2>3, <2>4
<1> QED
  BY <1>6, <1>7, <1>8 DEF Inv

\* process drops the stale packets and polls one.
LEMMA ProcessInv == ASSUME Inv, Process PROVE Inv'
<1> DEFINE s == Fresh(rx)
<1>0. /\ at \in {"idle", "send", "done"}
      /\ UNCHANGED <<at, cmd, asked, ret, seen, got, connected, owed, stalled, regular>>
      /\ rx \in Seq(Packet)
  BY DEF Process, cmdVars, bounds, Inv, Types
<1>1. PICK k \in 0 .. Len(rx) : Suffix(s, rx, k)
  BY <1>0, FreshSuffix
<1>2. \/ rx' = s /\ air' \subseteq air /\ air' = air
      \/ \E p \in air : rx' = Append(s, p) /\ air' = air \ {p}
  BY DEF Process, Polled
<1> HIDE DEF s
<1>3. rx' \in Seq(Packet) /\ air' \subseteq Packet /\ Stamps' /\ Once' /\ Aged'
  <2>1. UNCHANGED <<cmd, asked, owed>> /\ seen' = seen /\ (~stalled' => ~stalled)
    BY <1>0
  <2>2. \/ rx' = s /\ air' \subseteq air
        \/ \E p \in air : rx' = Append(s, p) /\ air' = air \ {p}
    BY <1>2
  <2> QED
    BY <1>1, <2>1, <2>2, QueueMoves
<1>4. Types' /\ Phases'
  BY <1>0, <1>3 DEF Inv, Types, Phases
<1>5. AnswerKept'
  <2> SUFFICES ASSUME ~stalled, at = "send", NEW c \in Clients PROVE Coming(c)' \/ Queued(c)'
    BY <1>0 DEF AnswerKept
  <2>1. Owing(c) \/ Flying(c) \/ Queued(c)
    BY DEF Inv, AnswerKept, Coming, Owing, Flying
  <2>2. CASE Owing(c)
    BY <1>0, <2>2 DEF Coming, Owing
  <2>3. s \in Seq(Packet)
    BY <1>1 DEF Suffix
  <2>4. CASE Queued(c)
    <3>1. PICK j \in 1 .. Len(s) : AnswerOf(s[j], c)
      BY <2>4, FreshKeeps DEF s
    <3>2. j \in DOMAIN rx' /\ rx'[j] = s[j]
      BY <1>2, <2>3
    <3> QED
      BY <1>0, <3>1, <3>2 DEF Queued, AnswerOf, IsReply
  <2>5. CASE Flying(c)
    <3>1. PICK p2 \in air : AnswerOf(p2, c)
      BY <2>5 DEF Flying, AnswerOf
    <3>2. CASE p2 \in air'
      BY <1>0, <3>1, <3>2 DEF Coming, AnswerOf, IsReply
    <3>3. CASE p2 \notin air'
      <4>1. rx' = Append(s, p2)
        BY <1>2, <3>3
      <4>2. Len(s) + 1 \in DOMAIN rx' /\ rx'[Len(s) + 1] = p2
        BY <2>3, <4>1
      <4> QED
        BY <1>0, <3>1, <4>2 DEF Queued, AnswerOf, IsReply
    <3> QED
      BY <3>2, <3>3
  <2> QED
    BY <2>1, <2>2, <2>4, <2>5
<1> QED
  BY <1>3, <1>4, <1>5 DEF Inv

\* recv_packet between two exchanges.
LEMMA RecvPacketInv == ASSUME Inv, RecvPacket PROVE Inv'
<1> DEFINE s == Fresh(rx)
<1>0. /\ at = "idle" /\ UNCHANGED <<at, cmd, asked, ret, seen, got, connected, owed, stalled, regular>>
      /\ rx \in Seq(Packet) /\ DOMAIN rx = 1 .. Len(rx) /\ Len(rx) \in Nat
  BY DEF RecvPacket, cmdVars, bounds, Inv, Types
<1>1. PICK k \in 0 .. Len(rx) : Suffix(s, rx, k)
  BY <1>0, FreshSuffix
<1>2. \/ s # <<>> /\ rx' = Tail(s) /\ air' = air
      \/ \E t \in {IF s = <<>> THEN s ELSE Tail(s)} :
           \/ rx' = (IF t = <<>> THEN t ELSE Tail(t)) /\ air' = air
           \/ \E p \in air : rx' = Tail(Append(t, p)) /\ air' = air \ {p}
  <2>1. \A t : \A p : t \in Seq(Packet) => Append(t, p) # <<>>
    OBVIOUS
  <2>2. s \in Seq(Packet) /\ (s # <<>> => Tail(s) \in Seq(Packet))
    BY <1>1 DEF Suffix
  <2> DEFINE t == IF s = <<>> THEN s ELSE Tail(s)
  <2>3. t \in Seq(Packet)
    BY <2>2
  <2>4. \/ s # <<>> /\ rx' = Tail(s) /\ air' = air
        \/ \E r \in Polled(t) : rx' = (IF r.rx = <<>> THEN r.rx ELSE Tail(r.rx)) /\ air' = r.air
    BY DEF RecvPacket
  <2> HIDE DEF t
  <2>5. CASE \E r \in Polled(t) : rx' = (IF r.rx = <<>> THEN r.rx ELSE Tail(r.rx)) /\ air' = r.air
    <3>1. PICK r \in Polled(t) : rx' = (IF r.rx = <<>> THEN r.rx ELSE Tail(r.rx)) /\ air' = r.air
      BY <2>5
    <3>2. \/ r.rx = t /\ r.air = air
          \/ \E p \in air : r.rx = Append(t, p) /\ r.air = air \ {p}
      BY DEF Polled
    <3>3. \/ rx' = (IF t = <<>> THEN t ELSE Tail(t)) /\ air' = air
          \/ \E p \in air : rx' = Tail(Append(t, p)) /\ air' = air \ {p}
      BY <2>1, <2>3, <3>1, <3>2
    <3> QED
      BY <3>3 DEF t
  <2> QED
    BY <2>4, <2>5
<1> HIDE DEF s
<1>3. \E u, m : /\ Suffix(u, rx, m)
                /\ \/ rx' = u /\ air' \subseteq air
                   \/ \E p \in air : rx' = Append(u, p) /\ air' = air \ {p}
  <2>1. s # <<>> => Suffix(Tail(s), rx, k + 1)
    BY <1>0, <1>1, TailSuffix
  <2>2. CASE s # <<>> /\ rx' = Tail(s) /\ air' = air
    BY <2>1, <2>2
  <2>3. CASE \E t \in {IF s = <<>> THEN s ELSE Tail(s)} :
               \/ rx' = (IF t = <<>> THEN t ELSE Tail(t)) /\ air' = air
               \/ \E p \in air : rx' = Tail(Append(t, p)) /\ air' = air \ {p}
    <3>1. PICK t, m : /\ Suffix(t, rx, m)
                      /\ \/ rx' = (IF t = <<>> THEN t ELSE Tail(t)) /\ air' = air
                         \/ \E p \in air : rx' = Tail(Append(t, p)) /\ air' = air \ {p}
      BY <1>1, <2>1, <2>3
    <3>2. t \in Seq(Packet) /\ m \in Nat
      BY <1>0, <3>1 DEF Suffix
    <3>3. t # <<>> => Suffix(Tail(t), rx, m + 1)
      BY <1>0, <3>1, TailSuffix
    <3>4. CASE rx' = (IF t = <<>> THEN t ELSE Tail(t)) /\ air' = air
      BY <3>1, <3>3, <3>4
    <3>5. CASE \E p \in air : rx' = Tail(Append(t, p)) /\ air' = air \ {p}
      <4>1. PICK p \in air : rx' = Tail(Append(t, p)) /\ air' = air \ {p}
        BY <3>5
      <4>2. p \in Packet
        BY DEF Inv, Types
      <4>3. CASE t = <<>>
        <5>1. rx' = t
          BY <4>1, <4>2, <4>3
        <5> QED
          BY <3>1, <4>1, <5>1
      <4>4. CASE t # <<>>
        <5>1. Tail(Append(t, p)) = Append(Tail(t), p)
          BY <3>2, <4>2, <4>4
        <5> QED
          BY <3>3, <4>1, <4>4, <5>1
      <4> QED
        BY <4>3, <4>4
    <3> QED
      BY <3>1, <3>4, <3>5
  <2> QED
    BY <1>2, <2>2, <2>3
<1>4. rx' \in Seq(Packet) /\ air' \subseteq Packet /\ Stamps' /\ Once' /\ Aged'
  <2>1. UNCHANGED <<cmd, asked, owed>> /\ seen' = seen /\ (~stalled' => ~stalled)
    BY <1>0
  <2>2. PICK u, m : /\ Suffix(u, rx, m)
                    /\ \/ rx' = u /\ air' \subseteq air
                       \/ \E p \in air : rx' = Append(u, p) /\ air' = air \ {p}
    BY <1>3
  <2> QED
    BY <2>1, <2>2, QueueMoves
<1>5. Types' /\ Phases' /\ AnswerKept'
  BY <1>0, <1>4 DEF Inv, Types, Phases, AnswerKept
<1> QED
  BY <1>4, <1>5 DEF Inv

\* The acknowledgement ends the exchange: nothing is heard any more.
LEMMA AcknowledgeInv == ASSUME Inv, Acknowledge PROVE Inv'
<1>0. /\ at' = "idle" /\ ret' = {} /\ seen' = {0} /\ got' = [a \in Aids |-> Nothing]
      /\ UNCHANGED <<cmd, asked, rx, connected, owed, air, stalled, regular>> /\ rx \in Seq(Packet)
  BY DEF Acknowledge, cmdVars, clientVars, bounds, Inv, Types
<1>1. rx' \in Seq(Packet) /\ air' \subseteq Packet /\ Stamps' /\ Once' /\ Aged'
  <2>1. UNCHANGED <<cmd, asked, owed>> /\ rx' = rx /\ air' \subseteq air /\ (~stalled' => ~stalled)
    BY <1>0
  <2>2. \A c \in Clients : c \notin seen'
    BY <1>0, ClientsAssumption
  <2> QED
    BY <1>0, <2>1, <2>2, WholeSuffix, QueueMoves
<1>2. got' \in [Aids -> Answer]
  BY <1>0 DEF Answer, Nothing
<1>3. Types' /\ Phases' /\ AnswerKept'
  BY <1>0, <1>1, <1>2 DEF Inv, Types, Places, Phases, AnswerKept
<1> QED
  BY <1>1, <1>3 DEF Inv

\* The CMD is out and recv_replies begins, or has nothing to do.
LEMMA BeginRepliesInv == ASSUME Inv, BeginReplies PROVE Inv'
<1>1. at = "send" /\ ret = {} /\ seen = {0} /\ connected \subseteq Clients /\ regular \in Nat
  BY DEF BeginReplies, Inv, Types, Phases
<1>2. /\ UNCHANGED <<cmd, asked, rx, ret, seen, got, owed, air, stalled, connected, regular>>
      /\ at' \in {"gather", "done"}
  BY <1>1 DEF BeginReplies, cmdVars, clientVars, bounds
<1> QED
  BY <1>1, <1>2, ExchangeKept DEF Places

\* recv_replies gives up waiting: nothing is heard or lost by that.
LEMMA TimeoutInv == ASSUME Inv, Timeout PROVE Inv'
<1>1. connected \subseteq Clients /\ regular \in Nat
  BY DEF Inv, Types
<1>2. /\ UNCHANGED <<cmd, asked, rx, ret, seen, got, owed, air, stalled, connected, regular>>
      /\ at' = "done"
  BY DEF Timeout, cmdVars, clientVars, bounds
<1> QED
  BY <1>1, <1>2, ExchangeKept DEF Places

\* A client turns its radio on or off, joins or leaves.
LEMMA PowerEventInv == ASSUME Inv, NEW c \in Clients, PowerEvent(c) PROVE Inv'
<1>1. connected \subseteq Clients /\ regular \in Nat /\ at \in Places
  BY DEF Inv, Types
<1>2. /\ UNCHANGED <<at, cmd, asked, rx, ret, seen, got, owed, air, stalled, regular>>
      /\ connected' \subseteq Clients
  BY <1>1 DEF PowerEvent, cmdVars, clientVars
<1> QED
  BY <1>1, <1>2, ExchangeKept

\* Nothing happens.
LEMMA StutterInv == ASSUME Inv, UNCHANGED vars PROVE Inv'
<1>1. connected \subseteq Clients /\ regular \in Nat /\ at \in Places
  BY DEF Inv, Types
<1>2. UNCHANGED <<at, cmd, asked, rx, ret, seen, got, owed, air, stalled, connected, regular>>
  BY DEF vars
<1> QED
  BY <1>1, <1>2, ExchangeKept

\* Every step of the host, a client or the network keeps the invariant.
LEMMA NextInv == Inv /\ [Next]_vars => Inv'
<1> SUFFICES ASSUME Inv, [Next]_vars PROVE Inv'
  OBVIOUS
<1> QED
  BY SendCmdInv, BeginRepliesInv, TakeQueuedInv, StartWaitInv, TakeArrivingInv, TimeoutInv, AcknowledgeInv,
     ProcessInv, RecvPacketInv, StallInv, PowerEventInv, ReplyInv, SendPacketInv, StutterInv
  DEF Next, Host, Gather

-----------------------------------------------------------------------------
(* The theorems.                                                           *)

\* The invariant holds throughout.
LEMMA Invariant == Spec => []Inv
BY InitInv, NextInv, PTL DEF Spec

\* What recv_replies counts (rx_, the sender's aid and the timestamp test of
\* its loop) are answers to its own CMD, in the slot of the client they come
\* from, and an answer that has reached the host is counted or queued unless it
\* is dropped for its age.
THEOREM AnswersCorrect == Spec => []AnswersRight
<1>1. Inv => AnswersRight
  <2> SUFFICES ASSUME Inv PROVE AnswersRight
    OBVIOUS
  <2>1. TypeOK
    BY DEF Inv, Types, TypeOK, Places
  <2>2. \A o \in owed : o.cmd = cmd => o.from \notin seen
    BY DEF Inv, Types, Owed, Once, Owing
  <2>3. AnswersThisCmd
    BY <2>2 DEF AnswersThisCmd, Inv, Phases
  <2> QED
    BY <2>1, <2>3 DEF AnswersRight, Inv
<1> QED
  BY <1>1, Invariant, PTL

\* When recv_replies returns, no client whose radio is on is reported as failed
\* in the acknowledgement with its answer to the CMD still in the queue.
THEOREM FailuresJustified == Spec => FailJustified
<1>1. ASSUME Inv, Inv', [Next]_vars, at \in {"send", "gather", "wait"}, at' = "done",
             NEW c \in connected, Aid[c] \in Fail'
      PROVE  ~Queued(c)'
  <2>1. c \in Clients /\ c # 0 /\ Aid[c] \in asked' /\ Aid[c] \notin ret'
    BY <1>1, ClientsAssumption DEF Inv, Types, Fail
  <2>2. BeginReplies \/ TakeQueued \/ TakeArriving \/ Timeout
    BY <1>1 DEF Next, Host, Gather, vars, SendCmd, StartWait, Acknowledge, Process, RecvPacket, Stall,
                PowerEvent, Reply, SendPacket
  <2>3. CASE BeginReplies
    BY <1>1, <2>1, <2>3 DEF BeginReplies, AllHeard, cmdVars
  <2>4. c \in seen' => ~Queued(c)'
    BY <1>1, <2>1 DEF Inv, Once
  <2>5. CASE TakeQueued
    <3>1. Hear(Head(Fresh(rx))) /\ asked' = asked
      BY <2>5 DEF TakeQueued, cmdVars
    <3>2. connected \subseteq seen' \/ asked \subseteq ret'
      BY <1>1, <3>1 DEF Hear, AllHeard
    <3> QED
      BY <1>1, <2>1, <2>4, <3>1, <3>2
  <2>6. CASE TakeArriving
    <3>1. PICK p \in air : Hear(p)
      BY <2>6 DEF TakeArriving
    <3>2. connected \subseteq seen' \/ asked \subseteq ret'
      BY <1>1, <3>1 DEF Hear, AllHeard
    <3> QED
      BY <1>1, <2>1, <2>4, <2>6, <3>2 DEF TakeArriving, cmdVars
  <2>7. CASE Timeout
    BY <1>1, <2>7 DEF Timeout, Inv, Phases, Queued
  <2> QED
    BY <2>2, <2>3, <2>5, <2>6, <2>7
<1>2. Inv /\ Inv' /\ [Next]_vars =>
        [(at \in {"send", "gather", "wait"} /\ at' = "done") =>
           \A c \in connected : Aid[c] \in Fail' => ~Queued(c)']_vars
  BY <1>1
<1> QED
  BY <1>2, Invariant, PTL DEF Spec, FailJustified

=============================================================================

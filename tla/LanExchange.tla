-------------------------- MODULE LanExchange --------------------------
(***************************************************************************)
(* The multiplayer exchange of a session's host: a CMD frame goes out to    *)
(* all clients, recv_replies gathers their answers for a bounded time, and  *)
(* the acknowledgement names the clients that failed (Wifi in               *)
(* src/src/core/io/wifi.cpp, LanMp in src/src/net/lan_mp.cpp).              *)
(*                                                                         *)
(* The packets are unsequenced: they are delayed, overtake each other and   *)
(* get lost (a packet never delivered), and are not duplicated.  A client   *)
(* answers a CMD once, or never, at any later time, and stamps its answer   *)
(* with its own clock, at most Drift ahead of the host's; the receiving     *)
(* side of a client is not modelled.  Ids and aids are different numberings *)
(* of the clients.  An age of STALE_MS is a flag.                           *)
(***************************************************************************)
EXTENDS Integers, Sequences, FiniteSets

CONSTANTS Clients,      \* the clients' ids in the session
          Aid,          \* the association id of each
          Gap,          \* least time between the ends of two CMDs, in microseconds
          Window,       \* 32: how long before the CMD's end an answer may be stamped
          Drift,        \* how far ahead of the host a client's clock may be
          Skew,         \* how far ahead of the host's each client's clock is
          MaxCmds, MaxRegular, MaxPower, MaxStalls   \* bounds

Aids == {Aid[c] : c \in Clients}

ASSUME ClientsAssumption == Clients \subseteq Nat \ {0} /\ IsFiniteSet(Clients)
ASSUME AidAssumption == /\ Aid \in [Clients -> 1..15]
                        /\ \A c, d \in Clients : Aid[c] = Aid[d] => c = d
ASSUME GapAssumption == {Gap, Window, Drift} \subseteq Nat /\ Gap > Window + Drift
ASSUME SkewAssumption == Skew \in [Clients -> -Window..Drift]
ASSUME ExchangeBounds == {MaxCmds, MaxRegular, MaxPower, MaxStalls} \subseteq Nat

VARIABLES
  at,          \* where the host is in the exchange
  cmd,         \* number of CMDs sent
  asked,       \* mp_client_mask_: the aids this CMD asks
  rx,          \* rx_
  ret, seen,   \* recv_replies: the aids answered, the ids heard
  got,         \* mp_client_replies_: the answer in each aid's slot
  connected,   \* the clients of connected_mask_
  owed,        \* the answers clients may still send
  air,         \* the packets on their way to the host
  stalled,     \* STALE_MS have passed at once since the CMD
  regular, power, stalls   \* counters for the bounds

vars == <<at, cmd, asked, rx, ret, seen, got, connected, owed, air, stalled,
          regular, power, stalls>>

Nothing == [from |-> 0, cmd |-> 0]

Init == /\ at = "idle" /\ cmd = 0 /\ asked = {}
        /\ rx = <<>> /\ ret = {} /\ seen = {0}
        /\ got = [a \in Aids |-> Nothing]
        /\ connected \in SUBSET Clients
        /\ owed = {} /\ air = {} /\ stalled = FALSE
        /\ regular = 0 /\ power = 0 /\ stalls = 0

End(n) == n * Gap   \* the host's us_timestamp_ at the end of the n-th CMD

IsReply(p) == p.type = 2
cmdVars == <<cmd, asked>>
clientVars == <<owed, air>>
bounds == <<regular, power, stalls>>

----------------------------------------------------------------------
\* process_lan.

\* The queue without the stale packets at its front.
Fresh(q) == LET keep == {i \in DOMAIN q : \A j \in 1..i : q[j].stale}
            IN SubSeq(q, Cardinality(keep) + 1, Len(q))

\* What a poll may make of the queue q: it takes at most one packet.
Polled(q) == {[rx |-> q, air |-> air]}
             \cup {[rx |-> Append(q, p), air |-> air \ {p}] : p \in air}

----------------------------------------------------------------------
\* The host.

\* The packets of q that are no replies, in their order.
NoReplies(q) ==
  LET keep[i \in 0..Len(q)] == IF i = 0 THEN <<>>
                               ELSE IF IsReply(q[i]) THEN keep[i - 1]
                               ELSE Append(keep[i - 1], q[i])
  IN keep[Len(q)]

\* start_tx_cmd, and send_cmd at the end of the preamble: queued replies are
\* dropped, the CMD goes to everyone.
SendCmd == /\ at = "idle" /\ cmd < MaxCmds
           /\ asked' \in SUBSET Aids
           /\ rx' = NoReplies(rx)
           /\ cmd' = cmd + 1 /\ at' = "send" /\ stalled' = FALSE
           /\ owed' = owed \cup {[from |-> c, cmd |-> cmd', blank |-> Aid[c] \notin asked']
                                   : c \in Clients}
           /\ UNCHANGED <<ret, seen, got, connected, air, bounds>>

AllHeard(heard) == connected \subseteq heard

\* The CMD is out: recv_replies, unless the CMD asks nobody.
BeginReplies == /\ at = "send"
                /\ ret' = {} /\ seen' = {0}
                /\ at' = IF asked = {} \/ AllHeard({0}) THEN "done" ELSE "gather"
                /\ UNCHANGED <<cmdVars, rx, got, connected, clientVars, stalled, bounds>>

GoodAnyTime(p) == IsReply(p)

Good(p) == IsReply(p) /\ p.ts >= End(cmd) - Window

HearAll(p) == /\ seen' = seen \cup {p.from}
              /\ IF Good(p) /\ ~p.blank
                 THEN /\ ret' = ret \cup {Aid[p.from]}
                      /\ got' = [got EXCEPT ![Aid[p.from]] = [from |-> p.from, cmd |-> p.cmd]]
                 ELSE UNCHANGED <<ret, got>>
              /\ at' = IF AllHeard(seen') \/ asked \subseteq ret' THEN "done" ELSE "gather"

\* One packet in recv_replies.
Hear(p) == IF ~Good(p) THEN at' = "gather" /\ UNCHANGED <<ret, seen, got>>
           ELSE /\ seen' = seen \cup {p.from}
                /\ IF p.blank THEN UNCHANGED <<ret, got>>
                   ELSE /\ ret' = ret \cup {Aid[p.from]}
                        /\ got' = [got EXCEPT ![Aid[p.from]] = [from |-> p.from,
                                                                cmd |-> p.cmd]]
                /\ at' = IF AllHeard(seen') \/ asked \subseteq ret' THEN "done" ELSE "gather"

\* recv_replies takes a queued packet, or goes to wait for one.
TakeQueued == /\ at = "gather" /\ Fresh(rx) # <<>>
              /\ Hear(Head(Fresh(rx))) /\ rx' = Tail(Fresh(rx))
              /\ UNCHANGED <<cmdVars, connected, clientVars, stalled, bounds>>

StartWait == /\ at = "gather" /\ Fresh(rx) = <<>>
             /\ at' = "wait" /\ rx' = <<>>
             /\ UNCHANGED <<cmdVars, ret, seen, got, connected, clientVars, stalled,
                            bounds>>

TakeArriving == /\ at = "wait"
                /\ \E p \in air : Hear(p) /\ air' = air \ {p}
                /\ UNCHANGED <<cmdVars, rx, connected, owed, stalled, bounds>>

TimeoutWithAnswer == /\ at = "wait" /\ ret # {}
                     /\ at' = "done"
                     /\ UNCHANGED <<cmdVars, rx, ret, seen, got, connected, clientVars,
                                    stalled, bounds>>

\* RECV_TIMEOUT_MS have passed without a packet.
Timeout == /\ at = "wait"
           /\ at' = "done"
           /\ UNCHANGED <<cmdVars, rx, ret, seen, got, connected, clientVars, stalled,
                          bounds>>

\* The aids of mp_client_fail_, which the acknowledgement names.
Fail == asked \ ret

\* The answers of the aids that did not fail are handed to the game and
\* send_mp_ack goes out; the slots are not read again.
Acknowledge == /\ at = "done"
               /\ at' = "idle" /\ ret' = {} /\ seen' = {0}
               /\ got' = [a \in Aids |-> Nothing]
               /\ UNCHANGED <<cmdVars, rx, connected, clientVars, stalled, bounds>>

\* process, once a frame, between any two steps of the radio.
Process == /\ at \in {"idle", "send", "done"}
           /\ \E r \in Polled(Fresh(rx)) : rx' = r.rx /\ air' = r.air
           /\ UNCHANGED <<at, cmdVars, ret, seen, got, connected, owed, stalled, bounds>>

\* recv_packet, when the radio is idle: one packet that is not a regular frame
\* is dropped, and whatever is then first is given to the game, which has no
\* use for an MP frame.
RecvPacket ==
  /\ at = "idle"
  /\ LET q == Fresh(rx)
     IN IF q # <<>> /\ Head(q).type = 0
        THEN rx' = Tail(q) /\ UNCHANGED air
        ELSE \E r \in Polled(IF q = <<>> THEN q ELSE Tail(q)) :
               /\ rx' = IF r.rx = <<>> THEN r.rx ELSE Tail(r.rx)
               /\ air' = r.air
  /\ UNCHANGED <<at, cmdVars, ret, seen, got, connected, owed, stalled, bounds>>

\* A client's PlayerConnect, PlayerDisconnect or leave is read while ENet is
\* serviced.
PowerEvent(c) == /\ at # "gather" /\ power < MaxPower /\ power' = power + 1
                 /\ connected' = IF c \in connected THEN connected \ {c} ELSE connected \cup {c}
                 /\ UNCHANGED <<at, cmdVars, rx, ret, seen, got, clientVars, stalled,
                                regular, stalls>>

\* The host is held up for STALE_MS with packets in the queue.
Stall == /\ at # "wait" /\ rx # <<>> /\ stalls < MaxStalls /\ stalls' = stalls + 1
         /\ stalled' = TRUE
         /\ rx' = [i \in DOMAIN rx |-> [rx[i] EXCEPT !.stale = TRUE]]
         /\ UNCHANGED <<at, cmdVars, ret, seen, got, connected, clientVars, regular, power>>

----------------------------------------------------------------------
\* The clients: an answer, stamped with the CMD's end by the client's clock,
\* and regular frames, whose sender nothing looks at.
Reply == \E o \in owed :
           /\ owed' = owed \ {o}
           /\ air' = air \cup {[from |-> o.from, type |-> 2, cmd |-> o.cmd,
                                ts |-> End(o.cmd) + Skew[o.from],
                                blank |-> o.blank, stale |-> FALSE]}
           /\ UNCHANGED <<at, cmdVars, rx, ret, seen, got, connected, stalled, bounds>>

SendPacket == /\ regular < MaxRegular /\ regular' = regular + 1
              /\ air' = air \cup {[from |-> 0, type |-> 0, cmd |-> 0, ts |-> regular,
                                   blank |-> FALSE, stale |-> FALSE]}
              /\ UNCHANGED <<at, cmdVars, rx, ret, seen, got, connected, owed, stalled,
                             power, stalls>>

----------------------------------------------------------------------
Gather == TakeQueued \/ StartWait \/ TakeArriving \/ Timeout
Host == SendCmd \/ BeginReplies \/ Gather \/ Acknowledge \/ Process \/ RecvPacket \/ Stall

Next == Host \/ (\E c \in Clients : PowerEvent(c)) \/ Reply \/ SendPacket

\* The host's thread runs; nothing is assumed of the clients and the network.
Spec == Init /\ [][Next]_vars /\ WF_vars(BeginReplies) /\ WF_vars(TakeQueued)
        /\ WF_vars(StartWait) /\ WF_vars(Timeout) /\ WF_vars(Acknowledge)

----------------------------------------------------------------------
\* The variables have their types; no aid but a client's is ever answered.
TypeOK == /\ at \in {"idle", "send", "gather", "wait", "done"}
          /\ cmd \in 0..MaxCmds
          /\ asked \subseteq Aids /\ ret \subseteq Aids
          /\ seen \subseteq Clients \cup {0} /\ connected \subseteq Clients

\* What recv_replies counts answers this CMD, from the client whose slot it
\* is in: a late answer to an earlier CMD is not taken for one.
AnswersThisCmd == at \in {"gather", "wait", "done"} =>
                    /\ \A c \in Clients : Aid[c] \in ret => got[Aid[c]] = [from |-> c, cmd |-> cmd]
                    /\ \A o \in owed : o.cmd = cmd => o.from \notin seen

Queued(c) == \E i \in DOMAIN rx : IsReply(rx[i]) /\ rx[i].from = c /\ rx[i].cmd = cmd
Coming(c) == \/ \E o \in owed : o.from = c /\ o.cmd = cmd
             \/ \E p \in air : IsReply(p) /\ p.from = c /\ p.cmd = cmd

\* An answer to this CMD that has reached the host is queued or counted, also
\* when it came before recv_replies was called: nothing but its age drops it.
AnswerKept == at \in {"send", "gather", "wait"} /\ ~stalled =>
                \A c \in Clients : Coming(c) \/ Queued(c) \/ (at # "send" /\ c \in seen)

\* recv_replies counts the answers to its CMD, those only and all of them.
AnswersRight == TypeOK /\ AnswersThisCmd /\ AnswerKept

\* recv_replies does not return with the answer of a client whose radio is on
\* still in the queue: the acknowledgement would report that client as failed.
FailJustified == [][(at \in {"send", "gather", "wait"} /\ at' = "done") =>
                      \A c \in connected : Aid[c] \in Fail' => ~Queued(c)']_vars

\* recv_replies returns, whatever is lost and whoever leaves.
RepliesReturn == at \in {"gather", "wait"} ~> at = "done"
======================================================================

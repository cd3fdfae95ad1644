-------------------------- MODULE LanSession --------------------------
(***************************************************************************)
(* The session of LanMp (src/src/net/lan_mp.cpp): the host's table of       *)
(* players, the joins, leaves and time-outs that change it, and the power   *)
(* masks, over ENet's reliable, ordered command channel.                    *)
(*                                                                         *)
(* ENet (src/src/net/enet) gives the lowest free peer to a connect request  *)
(* when the request arrives, and raises the CONNECT event when the          *)
(* handshake is over; handshakes overlap each other and the leaves, and a   *)
(* peer that is freed keeps its data pointer.  A client's own ENet host is  *)
(* bound to no port, so the connects that clients make to each other reach  *)
(* nobody and are left out; so are the names, the pings and the host's own  *)
(* end_session.                                                            *)
(***************************************************************************)
EXTENDS Integers, Sequences, FiniteSets

CONSTANTS Clients,      \* the other machines
          MaxPlayers,   \* max_players_
          Peers,        \* number of ENet peers of the host
          MaxJoins,     \* bound: calls of start_client in a behaviour
          MaxPower      \* bound: calls of begin and end in a behaviour

ASSUME PlayersAssumption == MaxPlayers \in Nat /\ MaxPlayers >= 2
ASSUME PeersAssumption == Peers \in Nat /\ Peers >= MaxPlayers
ASSUME SessionBounds == MaxJoins \in Nat /\ MaxPower \in Nat

VARIABLES
  players,    \* players_: the host's table
  num,        \* num_players_
  mask,       \* the host's connected_mask_, as a set of ids
  state,      \* state of each ENet peer of the host
  who,        \* the client at the other end of the peer, Nobody: it has left
  data,       \* peer->data, as the id of the entry it points to
  toHost, toClient,   \* the command channels of each peer
  at,         \* where each client is
  mine,       \* the host's peer for the client's connection
  id,         \* each client's me_.id
  list,       \* each client's players_
  hostOn, on, \* the host's and its own bit of each client's connected_mask_
  strayed,    \* history: the end of a refused connection has freed an entry,
              \* through the pointer its peer has from an earlier one
  joins, power   \* counters for the bounds

vars == <<players, num, mask, state, who, data, toHost, toClient, at, mine, id,
          list, hostOn, on, strayed, joins, power>>

Nobody == "nobody"
ASSUME NobodyAssumption == Nobody \notin Clients
NoData == -1
Id == 0..(MaxPlayers - 1)
Peer == 1..Peers

\* The address of an entry not in use is left out.
Player == [id : Id, status : {"None", "Client", "Host", "Connecting"},
           address : Clients \cup {Nobody}]
NoPlayer == [id |-> 0, status |-> "None", address |-> Nobody]
Blank == [i \in Id |-> NoPlayer]

Up == {p \in Peer : state[p] = "up"}

\* start_host.
Init == /\ players = [Blank EXCEPT ![0].status = "Host"]
        /\ num = 1 /\ mask = {}
        /\ state = [p \in Peer |-> "free"] /\ who = [p \in Peer |-> Nobody]
        /\ data = [p \in Peer |-> NoData]
        /\ toHost = [p \in Peer |-> <<>>] /\ toClient = [p \in Peer |-> <<>>]
        /\ at = [c \in Clients |-> "out"] /\ mine = [c \in Clients |-> 1]
        /\ id = [c \in Clients |-> 0] /\ list = [c \in Clients |-> Blank]
        /\ hostOn = [c \in Clients |-> FALSE] /\ on = [c \in Clients |-> FALSE]
        /\ strayed = FALSE /\ joins = 0 /\ power = 0

hostVars == <<players, num, mask>>
clientVars == <<at, mine, id, list, hostOn, on>>
bounds == <<joins, power>>
hist == <<strayed, joins, power>>

Cmd(t) == [type |-> t]
PlayerList(table) == [type |-> "PlayerList", table |-> table]

\* enet_host_broadcast: to the peers that are connected.  What is sent to a
\* client that has left is not kept.
Broadcast(chan, msg, to) ==
  [p \in Peer |-> IF p \in to /\ who[p] # Nobody THEN Append(chan[p], msg) ELSE chan[p]]

----------------------------------------------------------------------
\* The host: process_host_event.

FreeIdAtEnd == num

\* The first entry not in use, or the one past the players counted.
FreeId == CHOOSE i \in Id : /\ i >= num \/ players[i].status = "None"
                            /\ \A j \in 0..(i - 1) : j < num /\ players[j].status # "None"

Full == num >= MaxPlayers

HostConnect(p) ==
  /\ state[p] = "asked"
  /\ IF Full
     THEN /\ state' = [state EXCEPT ![p] = "refused"]
          /\ UNCHANGED <<players, num, data, toClient>>
     ELSE /\ state' = [state EXCEPT ![p] = "up"]
          /\ toClient' = [toClient EXCEPT ![p] = <<[type |-> "ClientInit", id |-> FreeId]>>]
          /\ players' = [players EXCEPT ![FreeId] = [id |-> FreeId, status |-> "Connecting",
                                                     address |-> who[p]]]
          /\ data' = [data EXCEPT ![p] = FreeId]
          /\ num' = num + 1
  /\ UNCHANGED <<mask, who, toHost, clientVars, hist>>

LeftKept(d) == /\ mask' = mask \ {players[d].id}
               /\ num' = num - 1
               /\ UNCHANGED players

\* What a DISCONNECT event does to the table.
Left(d) == /\ mask' = mask \ {players[d].id}
           /\ players' = [players EXCEPT ![d] = NoPlayer]
           /\ num' = num - 1

LeftUntold(table, p) == [toClient EXCEPT ![p] = <<>>]

\* host_update_player_list after p has left.
LeftTold(table, p) == Broadcast([toClient EXCEPT ![p] = <<>>], PlayerList(table), Up \ {p})

\* The client has left, the host has refused it, or the connection has timed
\* out.  ENet has freed the peer when it raises the event.
HostDisconnect(p) ==
  /\ state[p] \in {"up", "refused"}
  /\ state' = [state EXCEPT ![p] = "free"]
  /\ who' = [who EXCEPT ![p] = Nobody]
  /\ toHost' = [toHost EXCEPT ![p] = <<>>]
  /\ IF data[p] = NoData
     THEN toClient' = [toClient EXCEPT ![p] = <<>>] /\ UNCHANGED hostVars
     ELSE Left(data[p]) /\ toClient' = LeftTold(players', p)
  /\ strayed' = (strayed \/ (state[p] = "refused" /\ data[p] # NoData))
  /\ UNCHANGED <<data, clientVars, bounds>>

\* A handshake whose client has gone ends without an event.
AskDropped(p) == /\ state[p] = "asked" /\ who[p] = Nobody
                 /\ state' = [state EXCEPT ![p] = "free"]
                 /\ UNCHANGED <<hostVars, who, data, toHost, toClient, clientVars, hist>>

NoCatchUp == <<>>

\* A late joiner has missed the broadcast of the host's power-on.
CatchUp == IF 0 \in mask THEN <<Cmd("PlayerConnect")>> ELSE <<>>

HostPlayerInfo(p, m) ==
  IF data[p] = NoData \/ m.id # players[data[p]].id
  THEN /\ state' = [state EXCEPT ![p] = "refused"]
       /\ toHost' = [toHost EXCEPT ![p] = <<>>] /\ toClient' = [toClient EXCEPT ![p] = <<>>]
       /\ UNCHANGED hostVars
  ELSE /\ players' = [players EXCEPT ![data[p]] = [id |-> m.id, status |-> "Client",
                                                   address |-> m.address]]
       /\ toClient' = LET all == Broadcast(toClient, PlayerList(players'), Up)
                      IN [all EXCEPT ![p] = @ \o CatchUp]
       /\ toHost' = [toHost EXCEPT ![p] = Tail(@)]
       /\ UNCHANGED <<num, mask, state>>

HostReceive(p) ==
  /\ state[p] = "up" /\ toHost[p] # <<>>
  /\ LET m == Head(toHost[p])
     IN \/ m.type = "PlayerInfo" /\ HostPlayerInfo(p, m)
        \/ /\ m.type \in {"PlayerConnect", "PlayerDisconnect"}
           /\ mask' = IF m.type = "PlayerConnect" THEN mask \cup {players[data[p]].id}
                      ELSE mask \ {players[data[p]].id}
           /\ toHost' = [toHost EXCEPT ![p] = Tail(@)]
           /\ UNCHANGED <<players, num, state, toClient>>
  /\ UNCHANGED <<who, data, clientVars, hist>>

\* begin and end of the host: its game turns the radio on or off.
HostPower == /\ power < MaxPower /\ power' = power + 1
             /\ mask' = IF 0 \in mask THEN mask \ {0} ELSE mask \cup {0}
             /\ toClient' = Broadcast(toClient, Cmd(IF 0 \in mask THEN "PlayerDisconnect"
                                                    ELSE "PlayerConnect"), Up)
             /\ UNCHANGED <<players, num, state, who, data, toHost, clientVars, strayed, joins>>

----------------------------------------------------------------------
\* A client.

\* start_client: the request takes the lowest free ENet peer.
StartClient(c) ==
  /\ at[c] = "out" /\ joins < MaxJoins
  /\ \E p \in Peer : /\ state[p] = "free" /\ \A q \in 1..(p - 1) : state[q] # "free"
                     /\ state' = [state EXCEPT ![p] = "asked"]
                     /\ who' = [who EXCEPT ![p] = c]
                     /\ mine' = [mine EXCEPT ![c] = p]
  /\ at' = [at EXCEPT ![c] = "ask"]
  /\ joins' = joins + 1
  /\ UNCHANGED <<hostVars, data, toHost, toClient, id, list, hostOn, on, strayed, power>>

\* The client's connection is the one the host has for it.
Linked(c) == who[mine[c]] = c
Unlink(c) == IF Linked(c) THEN /\ who' = [who EXCEPT ![mine[c]] = Nobody]
                               /\ toClient' = [toClient EXCEPT ![mine[c]] = <<>>]
             ELSE UNCHANGED <<who, toClient>>

\* start_client on ClientInit, which is the first message of a connection.
JoinDone(c) ==
  /\ at[c] = "ask" /\ Linked(c) /\ state[mine[c]] = "up"
  /\ LET p == mine[c]
         m == Head(toClient[p])
     IN /\ id' = [id EXCEPT ![c] = m.id]
        /\ toClient' = [toClient EXCEPT ![p] = Tail(@)]
        /\ toHost' = [toHost EXCEPT ![p] = Append(@, [type |-> "PlayerInfo", id |-> m.id,
                                                      address |-> c])]
  /\ at' = [at EXCEPT ![c] = "in"]
  /\ UNCHANGED <<hostVars, state, who, data, mine, list, hostOn, on, hist>>

\* start_client fails, by a refusal or after five seconds, or end_session: the
\* peer is left without a word the host can count on, and the LanMp destroyed.
Leave(c) == /\ at[c] # "out"
            /\ at' = [at EXCEPT ![c] = "out"]
            /\ Unlink(c)
            /\ mine' = [mine EXCEPT ![c] = 1] /\ id' = [id EXCEPT ![c] = 0]
            /\ list' = [list EXCEPT ![c] = Blank]
            /\ hostOn' = [hostOn EXCEPT ![c] = FALSE] /\ on' = [on EXCEPT ![c] = FALSE]
            /\ UNCHANGED <<hostVars, state, data, toHost, hist>>

\* process_client_event.
ClientReceive(c) ==
  /\ at[c] = "in" /\ Linked(c) /\ toClient[mine[c]] # <<>>
  /\ LET m == Head(toClient[mine[c]])
     IN \/ /\ m.type = "PlayerList"
           /\ list' = [list EXCEPT ![c] = m.table] /\ UNCHANGED hostOn
        \/ /\ m.type \in {"PlayerConnect", "PlayerDisconnect"}
           /\ hostOn' = [hostOn EXCEPT ![c] = m.type = "PlayerConnect"]
           /\ UNCHANGED list
  /\ toClient' = [toClient EXCEPT ![mine[c]] = Tail(@)]
  /\ UNCHANGED <<hostVars, state, who, data, toHost, at, mine, id, on, hist>>

\* A DISCONNECT event: the client stays in a session without a host.
ClientLost(c) == /\ at[c] = "in"
                 /\ at' = [at EXCEPT ![c] = "alone"]
                 /\ hostOn' = [hostOn EXCEPT ![c] = FALSE]
                 /\ Unlink(c)
                 /\ UNCHANGED <<hostVars, state, data, toHost, mine, id, list, on, hist>>

\* begin and end of a client.
ClientPower(c) ==
  /\ at[c] = "in" /\ power < MaxPower /\ power' = power + 1
  /\ on' = [on EXCEPT ![c] = ~on[c]]
  /\ toHost' = IF Linked(c)
               THEN [toHost EXCEPT ![mine[c]] =
                       Append(@, Cmd(IF on[c] THEN "PlayerDisconnect" ELSE "PlayerConnect"))]
               ELSE toHost
  /\ UNCHANGED <<hostVars, state, who, data, toClient, at, mine, id, list, hostOn, strayed, joins>>

----------------------------------------------------------------------
HostStep(p) == HostConnect(p) \/ HostDisconnect(p) \/ AskDropped(p) \/ HostReceive(p)
ClientStep(c) == \/ StartClient(c) \/ JoinDone(c) \/ Leave(c) \/ ClientReceive(c)
                 \/ ClientLost(c) \/ ClientPower(c)

\* Everybody has left, and the bound lets nobody join.
Ended == /\ joins = MaxJoins /\ \A c \in Clients : at[c] = "out"
         /\ \A p \in Peer : state[p] = "free"
         /\ UNCHANGED vars

Next == \/ \E p \in Peer : HostStep(p)
        \/ \E c \in Clients : ClientStep(c)
        \/ HostPower \/ Ended

\* The host services ENet every frame, which ends a handshake, delivers, and
\* gives up a peer that does not answer; a client ends its join.
Service(p) == \/ HostConnect(p) \/ AskDropped(p) \/ HostReceive(p)
              \/ who[p] = Nobody /\ HostDisconnect(p)
Fairness == /\ \A p \in Peer : WF_vars(Service(p))
            /\ \A c \in Clients : WF_vars(JoinDone(c) \/ (at[c] = "ask" /\ Leave(c)))

Spec == Init /\ [][Next]_vars /\ Fairness

----------------------------------------------------------------------
\* The variables have their types.
TypeOK == /\ players \in [Id -> Player] /\ num \in 1..MaxPlayers /\ mask \subseteq Id
          /\ state \in [Peer -> {"free", "asked", "up", "refused"}]
          /\ who \in [Peer -> Clients \cup {Nobody}]
          /\ data \in [Peer -> Id \cup {NoData}]
          /\ at \in [Clients -> {"out", "ask", "in", "alone"}]
          /\ id \in [Clients -> Id]

\* num_players_ counts the entries in use: the search for a free id and the
\* test for a full session rely on it.
CountExact == num = Cardinality({i \in Id : players[i].status # "None"})

\* Each connected peer has an entry of its own, which is not the host's.
OneOwner == /\ \A p \in Up : data[p] \in Id \ {0} /\ players[data[p]].status # "None"
            /\ \A p, q \in Up : data[p] = data[q] => p = q

\* The host's table is sound through joins, refusals, leaves and time-outs, with
\* handshakes that overlap each other and the leaves (process_host_event); but
\* the end of a refused connection that frees an entry through the pointer of an
\* earlier one (lan_mp.cpp:288) is excepted, with all that follows from it:
\* ClientsFit shows what that does.
TableSound == ~strayed => TypeOK /\ CountExact /\ OneOwner

\* A client the host has accepted, under the id the client knows.
Accepted(c) == /\ at[c] = "in" /\ Linked(c) /\ state[mine[c]] = "up"
               /\ data[mine[c]] = id[c] /\ players[id[c]].status = "Client"

\* A client with no message on its way knows who plays: a leave, a join and an
\* id used again have all reached it (host_update_player_list).  As for
\* TableSound, until an entry is freed through an old pointer.
ListsAgree == \A c \in Clients : ~strayed /\ Accepted(c) /\ toClient[mine[c]] = <<>> =>
                \A i \in Id : LET h == players[i]
                                  l == list[c][i]
                              IN /\ (h.status = "Client") = (l.status = "Client")
                                 /\ h.status = "Client" => h = l

\* Host and client agree on whose radio is on, also for a client that joined
\* after the power-on and for an id a departed player had (begin, end, and the
\* catch-up in process_host_event).  As for TableSound, until an entry is freed
\* through an old pointer.
PowerAgrees == \A c \in Clients : ~strayed /\ Accepted(c) =>
                 /\ toClient[mine[c]] = <<>> => hostOn[c] = (0 \in mask)
                 /\ toHost[mine[c]] = <<>> => on[c] = (id[c] \in mask)

\* "One host, up to fifteen clients" (lan_mp.h:5-6, with max_players 16): the
\* host's peers that have a client in the session are fewer than max_players_.
ClientsFit == Cardinality({c \in Clients : at[c] = "in" /\ Linked(c) /\ state[mine[c]] = "up"})
                < MaxPlayers

\* An entry is not kept for a client that never finishes its join: ENet gives
\* the peer up, and its DISCONNECT frees the entry (process_host_event).
JoinSettles == \A i \in Id \ {0} : players[i].status = "Connecting" ~> players[i].status # "Connecting"
======================================================================

----------------------- MODULE LanSessionProofs -----------------------
(***************************************************************************)
(* Proofs about LanSession, for any set of clients and any number of        *)
(* players and peers, with handshakes that overlap each other and the       *)
(* leaves: until the end of a refused connection frees an entry through a   *)
(* pointer of an earlier one (strayed), the host's table is sound           *)
(* (TableSound), and what host and clients know of each other agrees when   *)
(* no message is on its way (ListsAgree, PowerAgrees).                      *)
(***************************************************************************)
EXTENDS LanSession, FiniteSetTheorems, NaturalsInduction, TLAPS

Powers == {"PlayerConnect", "PlayerDisconnect"}
ToHost == [type : {"PlayerInfo"}, id : Id, address : Clients] \cup [type : Powers]
ToClient == [type : {"ClientInit"}, id : Id] \cup [type : {"PlayerList"}, table : [Id -> Player]]
            \cup [type : Powers]

Types == /\ players \in [Id -> Player] /\ num \in 1..MaxPlayers /\ mask \subseteq Id
         /\ state \in [Peer -> {"free", "asked", "up", "refused"}]
         /\ who \in [Peer -> Clients \cup {Nobody}]
         /\ data \in [Peer -> (Id \ {0}) \cup {NoData}]
         /\ toHost \in [Peer -> Seq(ToHost)] /\ toClient \in [Peer -> Seq(ToClient)]
         /\ at \in [Clients -> {"out", "ask", "in", "alone"}] /\ mine \in [Clients -> Peer]
         /\ id \in [Clients -> Id] /\ list \in [Clients -> [Id -> Player]]
         /\ hostOn \in [Clients -> BOOLEAN] /\ on \in [Clients -> BOOLEAN]

Used == {i \in Id : players[i].status # "None"}

\* The entries in use are the host's and one for each connected peer, and carry
\* their own ids; num_players_ counts both.
Table == /\ players[0].status = "Host"
         /\ \A i \in Id : i \in Used <=> i = 0 \/ \E p \in Up : data[p] = i
         /\ \A i \in Used : players[i].id = i
         /\ \A p, q \in Up : data[p] = data[q] => p = q
         /\ num = Cardinality(Used) /\ num = Cardinality(Up) + 1
         /\ mask \subseteq Used

\* A connected peer has the data of an entry.
Places == \A p \in Up : data[p] # NoData

\* A peer's client knows the peer.
Links == \A p \in Peer : who[p] # Nobody =>
           /\ state[p] # "free" /\ mine[who[p]] = p
           /\ at[who[p]] = "ask" \/ (at[who[p]] = "in" /\ state[p] = "up")

\* ClientInit waits for the client that asks, a PlayerInfo has the peer's id,
\* and nothing is left in the channels of a peer that is not connected.
Messages ==
  /\ \A p \in Peer : state[p] # "up" => toHost[p] = <<>> /\ toClient[p] = <<>>
  /\ \A p \in Up : who[p] # Nobody /\ at[who[p]] = "ask" =>
       /\ toClient[p] # <<>> /\ toClient[p][1].type = "ClientInit" /\ toClient[p][1].id = data[p]
  /\ \A p \in Up : \A k \in 1 .. Len(toHost[p]) :
       toHost[p][k].type = "PlayerInfo" => toHost[p][k].id = data[p]
  /\ \A c \in Clients : at[c] \in {"out", "ask"} => ~hostOn[c] /\ ~on[c]

\* The last message of one of the types, or 0.
Latest(s, types, k) == /\ k \in 0 .. Len(s) /\ (k > 0 => s[k].type \in types)
                       /\ \A j \in (k + 1) .. Len(s) : s[j].type \notin types

\* What a message says, and Told: the latest message of the types in a channel,
\* or else what the receiver knows, is in the set said.
Content(m) == IF m.type = "PlayerList" THEN m.table ELSE m.type
Told(s, types, known, said) == \E k \in 0 .. Len(s) :
  Latest(s, types, k) /\ (IF k = 0 THEN known ELSE Content(s[k])) \in said

\* The tables that agree with the host's on who plays.
Agrees(t) == \A i \in Id : IF players[i].status = "Client" THEN t[i] = players[i]
                                                           ELSE t[i].status # "Client"
SameTables == {t \in [Id -> Player] : Agrees(t)}

Word(b) == IF b THEN "PlayerConnect" ELSE "PlayerDisconnect"

\* What a client may have been told of the host's power: to one that is not
\* accepted yet a power-on may still be news, and only that.
HostWords(p) == IF 0 \notin mask THEN {"PlayerDisconnect"}
                ELSE IF players[data[p]].status = "Client" THEN {"PlayerConnect"} ELSE Powers

\* An accepted client has been told the host's table.
ListKept(p) == players[data[p]].status = "Client" =>
                 Told(toClient[p], {"PlayerList"}, list[who[p]], SameTables)
HostKept(p) == Told(toClient[p], Powers, Word(hostOn[who[p]]), HostWords(p))
OnKept(p) == Told(toHost[p], Powers, Word(data[p] \in mask), {Word(on[who[p]])})

Kept == \A p \in Up : who[p] # Nobody => ListKept(p) /\ HostKept(p) /\ OnKept(p)

\* What holds until an entry has been freed through an old pointer.
Inv == Types /\ Table /\ Places /\ Links /\ Messages /\ Kept

----------------------------------------------------------------------
(* Channels.                                                               *)

\* A message of the types is the latest one when it is sent.
LEMMA ToldSent ==
  ASSUME NEW S, NEW s \in Seq(S), NEW types, NEW known, NEW said, NEW m \in S,
         m.type \in types, Content(m) \in said
  PROVE  Told(Append(s, m), types, known, said)
<1> DEFINE t == Append(s, m)
<1>1. t \in Seq(S) /\ Len(t) = Len(s) + 1 /\ Len(s) \in Nat /\ t[Len(s) + 1] = m
  OBVIOUS
<1> HIDE DEF t
<1>2. Latest(t, types, Len(s) + 1)
  BY <1>1 DEF Latest
<1>3. Content(t[Len(s) + 1]) \in said
  BY <1>1
<1>4. Told(t, types, known, said)
  BY <1>1, <1>2, <1>3 DEF Told
<1> QED
  BY <1>4 DEF t

\* A message of another type changes nothing when it is sent.
LEMMA ToldPast ==
  ASSUME NEW S, NEW s \in Seq(S), NEW types, NEW known, NEW said, NEW m \in S,
         m.type \notin types, Told(s, types, known, said)
  PROVE  Told(Append(s, m), types, known, said)
<1> DEFINE t == Append(s, m)
<1>1. /\ t \in Seq(S) /\ Len(t) = Len(s) + 1 /\ Len(s) \in Nat /\ t[Len(s) + 1] = m
      /\ \A j \in 1 .. Len(s) : t[j] = s[j]
  OBVIOUS
<1> HIDE DEF t
<1>2. PICK k \in 0 .. Len(s) : /\ Latest(s, types, k)
                              /\ (IF k = 0 THEN known ELSE Content(s[k])) \in said
  BY DEF Told
<1>3. Latest(t, types, k)
  <2>1. k \in 0 .. Len(t) /\ (k > 0 => t[k].type \in types)
    BY <1>1, <1>2 DEF Latest
  <2>2. ASSUME NEW j \in (k + 1) .. Len(t) PROVE t[j].type \notin types
    <3>1. CASE j = Len(s) + 1
      BY <3>1, <1>1
    <3>2. CASE j # Len(s) + 1
      <4>1. j \in (k + 1) .. Len(s) /\ j \in 1 .. Len(s)
        BY <3>2, <1>1
      <4> QED BY <4>1, <1>1, <1>2 DEF Latest
    <3> QED BY <3>1, <3>2
  <2> QED BY <2>1, <2>2 DEF Latest
<1>4. (IF k = 0 THEN known ELSE Content(t[k])) \in said
  BY <1>1, <1>2
<1>5. k \in 0 .. Len(t)
  BY <1>1
<1>6. Told(t, types, known, said)
  BY <1>3, <1>4, <1>5 DEF Told
<1> QED
  BY <1>6 DEF t

\* A message of the types is known when it is received.
LEMMA ToldTaken ==
  ASSUME NEW S, NEW s \in Seq(S), NEW types, NEW known, NEW said, s # <<>>,
         Head(s).type \in types, Told(s, types, known, said)
  PROVE  Told(Tail(s), types, Content(Head(s)), said)
<1> DEFINE t == Tail(s)
<1>1. /\ t \in Seq(S) /\ Len(s) \in Nat /\ Len(s) > 0 /\ Len(t) = Len(s) - 1
      /\ \A j \in 1 .. Len(t) : t[j] = s[j + 1]
      /\ Head(s) = s[1]
  OBVIOUS
<1> HIDE DEF t
<1>2. PICK k \in 0 .. Len(s) : /\ Latest(s, types, k)
                              /\ (IF k = 0 THEN known ELSE Content(s[k])) \in said
  BY DEF Told
<1>3. k # 0
  BY <1>1, <1>2 DEF Latest
<1>4. k - 1 \in 0 .. Len(t) /\ (k - 1 > 0 => t[k - 1] = s[k])
  BY <1>1, <1>3
<1>5. ASSUME NEW j \in k .. Len(t) PROVE t[j].type \notin types
  <2>1. j + 1 \in (k + 1) .. Len(s) /\ t[j] = s[j + 1]
    BY <1>1, <1>3
  <2> QED BY <2>1, <1>2 DEF Latest
<1>6. Latest(t, types, k - 1)
  BY <1>2, <1>3, <1>4, <1>5 DEF Latest
<1>7. (IF k - 1 = 0 THEN Content(Head(s)) ELSE Content(t[k - 1])) \in said
  BY <1>1, <1>2, <1>3, <1>4
<1>8. Told(t, types, Content(Head(s)), said)
  BY <1>4, <1>6, <1>7 DEF Told
<1> QED
  BY <1>8 DEF t

\* A message of another type changes nothing when it is received.
LEMMA ToldSkipped ==
  ASSUME NEW S, NEW s \in Seq(S), NEW types, NEW known, NEW said, s # <<>>,
         Head(s).type \notin types, Told(s, types, known, said)
  PROVE  Told(Tail(s), types, known, said)
<1> DEFINE t == Tail(s)
<1>1. /\ t \in Seq(S) /\ Len(s) \in Nat /\ Len(s) > 0 /\ Len(t) = Len(s) - 1
      /\ \A j \in 1 .. Len(t) : t[j] = s[j + 1]
      /\ Head(s) = s[1]
  OBVIOUS
<1> HIDE DEF t
<1>2. PICK k \in 0 .. Len(s) : /\ Latest(s, types, k)
                              /\ (IF k = 0 THEN known ELSE Content(s[k])) \in said
  BY DEF Told
<1>3. CASE k = 0
  <2>1. ASSUME NEW j \in 1 .. Len(t) PROVE t[j].type \notin types
    <3>1. j + 1 \in (k + 1) .. Len(s) /\ t[j] = s[j + 1]
      BY <1>1, <1>3
    <3> QED BY <3>1, <1>2 DEF Latest
  <2>2. Latest(t, types, 0)
    BY <2>1, <1>1 DEF Latest
  <2>3. 0 \in 0 .. Len(t) /\ known \in said
    BY <1>1, <1>2, <1>3
  <2>4. Told(t, types, known, said)
    BY <2>2, <2>3 DEF Told
  <2> QED
    BY <2>4 DEF t
<1>4. CASE k # 0
  <2>1. k # 1
    BY <1>1, <1>2 DEF Latest
  <2>2. k - 1 \in 1 .. Len(t) /\ t[k - 1] = s[k]
    BY <1>1, <1>4, <2>1
  <2>3. ASSUME NEW j \in k .. Len(t) PROVE t[j].type \notin types
    <3>1. j + 1 \in (k + 1) .. Len(s) /\ t[j] = s[j + 1]
      BY <1>1, <1>4
    <3> QED BY <3>1, <1>2 DEF Latest
  <2>4. Latest(t, types, k - 1)
    BY <1>2, <1>4, <2>2, <2>3 DEF Latest
  <2>5. (IF k - 1 = 0 THEN known ELSE Content(t[k - 1])) \in said /\ k - 1 \in 0 .. Len(t)
    BY <1>2, <1>4, <2>1, <2>2
  <2>6. Told(t, types, known, said)
    BY <2>4, <2>5 DEF Told
  <2> QED
    BY <2>6 DEF t
<1> QED
  BY <1>3, <1>4

\* With nothing of the types on its way the receiver knows it.
LEMMA ToldKnown ==
  ASSUME NEW types, NEW known, NEW said
  PROVE  Told(<<>>, types, known, said) <=> known \in said
<1>1. Len(<<>>) = 0 /\ 0 \in 0 .. Len(<<>>) /\ \A k \in 0 .. Len(<<>>) : k = 0
  OBVIOUS
<1>2. Latest(<<>>, types, 0)
  BY <1>1 DEF Latest
<1> QED
  BY <1>1, <1>2 DEF Told

----------------------------------------------------------------------
(* The table.                                                              *)

\* A set of naturals has a least element.
LEMMA Least == ASSUME NEW T, T \subseteq Nat, T # {}
  PROVE \E x \in T : \A y \in T : x <= y
<1> DEFINE R == OpToRel(<, Nat)
<1>1. IsWellFoundedOn(R, Nat)
  BY NatLessThanWellFounded
<1>2. \A x, y \in Nat : y < x => <<y, x>> \in R
  BY DEF OpToRel
<1> HIDE DEF R
<1>3. PICK x \in T : \A y \in T : ~ (<<y, x>> \in R)
  BY <1>1, WFMin
<1>4. x \in Nat /\ \A y \in T : y \in Nat /\ ~(y < x)
  BY <1>2, <1>3
<1>5. \A y \in T : x <= y
  BY <1>4
<1> QED BY <1>3, <1>5

\* The peers and the entries are finitely many.
LEMMA Finite == ASSUME Types
  PROVE IsFiniteSet(Up) /\ IsFiniteSet(Used) /\ IsFiniteSet(Id) /\ Used \subseteq Id /\ Up \subseteq Peer
<1>1. MaxPlayers - 1 \in Int /\ Peers \in Int /\ 0 \in Int /\ 1 \in Int
  BY PlayersAssumption, PeersAssumption
<1>2. IsFiniteSet(Id) /\ IsFiniteSet(Peer)
  BY <1>1, FS_Interval DEF Id, Peer
<1>3. Up \subseteq Peer /\ Used \subseteq Id
  BY DEF Up, Used
<1> QED
  BY <1>2, <1>3, FS_Subset

\* The search for a free id finds one not in use, when the session is not full:
\* with the players counted right, either a gap below their number or, without
\* one, the entry just past them.
LEMMA FreeIdFree ==
  ASSUME Types, Table, num < MaxPlayers
  PROVE  FreeId \in Id \ {0} /\ FreeId \notin Used /\ players[FreeId].status = "None"
<1> DEFINE T == {i \in Id : i >= num \/ players[i].status = "None"}
<1>1. num \in Nat /\ num >= 1 /\ Id \subseteq Nat /\ num \in Id /\ MaxPlayers \in Nat
  BY PlayersAssumption DEF Types, Id
<1>2. num \in T
  BY <1>1
<1>3. T \subseteq Nat /\ T # {}
  BY <1>1, <1>2
<1>4. PICK x \in T : \A y \in T : x <= y
  <2> HIDE DEF T
  <2> QED BY <1>3, Least
<1>5. x \in Id /\ (x >= num \/ players[x].status = "None")
  OBVIOUS
<1>6. ASSUME NEW j \in 0 .. (x - 1) PROVE j < num /\ players[j].status # "None"
  <2>1. j \in Id /\ j < x /\ j \in Nat /\ x \in Nat
    BY <1>5, <1>1 DEF Id
  <2>2. j \notin T
    BY <2>1, <1>4
  <2> QED BY <2>1, <2>2, <1>1
<1>7. /\ FreeId \in Id /\ (FreeId >= num \/ players[FreeId].status = "None")
      /\ \A j \in 0 .. (FreeId - 1) : j < num /\ players[j].status # "None"
  BY <1>5, <1>6 DEF FreeId
<1> DEFINE f == FreeId
<1> HIDE DEF T, f
<1>8. f \in Id /\ f \in Nat /\ (f >= num \/ players[f].status = "None")
  BY <1>7, <1>1 DEF f
<1>9. \A j \in 0 .. (f - 1) : j < num /\ players[j].status # "None"
  BY <1>7 DEF f
<1>10. players[f].status = "None"
  <2> SUFFICES ASSUME f >= num PROVE players[f].status = "None"
    BY <1>8
  <2>1. f = num
    <3>1. f - 1 \in 0 .. (f - 1)
      BY <1>1, <1>8
    <3> QED BY <3>1, <1>9, <1>8, <1>1
  <2>2. 0 .. (num - 1) \subseteq Used
    BY <2>1, <1>9, <1>1, PlayersAssumption DEF Used, Id, Types
  <2>3. Cardinality(0 .. (num - 1)) = num
    <3>1. 0 \in Int /\ num - 1 \in Int /\ ~(0 > num - 1) /\ num - 1 - 0 + 1 = num
      BY <1>1
    <3> QED BY <3>1, FS_Interval
  <2>4. 0 .. (num - 1) = Used
    <3>1. Cardinality(Used) = num /\ IsFiniteSet(Used)
      BY Finite DEF Table
    <3> QED BY <3>1, <2>2, <2>3, FS_Subset
  <2>5. num \notin Used
    BY <2>4, <1>1
  <2> QED BY <2>5, <2>1, <1>8 DEF Used
<1>11. f # 0
  BY <1>10 DEF Table
<1> QED
  BY <1>8, <1>10, <1>11 DEF f, Used

----------------------------------------------------------------------
(* The invariant holds at first, and each action keeps it.                 *)

\* The messages, their types and what they say.
LEMMA Shapes ==
  /\ \A m \in ToClient : m.type = "PlayerList" => m.table \in [Id -> Player] /\ Content(m) = m.table
  /\ \A m \in ToClient : m.type \in Powers => Content(m) = m.type
  /\ \A m \in ToHost : m.type = "PlayerInfo" => m.id \in Id /\ m.address \in Clients
  /\ \A m \in ToHost : m.type \in Powers => Content(m) = m.type
  /\ \A w \in Powers : Cmd(w) \in ToHost /\ Cmd(w) \in ToClient /\ Cmd(w).type = w /\ Content(Cmd(w)) = w
  /\ \A i \in Id, c \in Clients : [type |-> "PlayerInfo", id |-> i, address |-> c] \in ToHost
  /\ \A i \in Id : [type |-> "ClientInit", id |-> i] \in ToClient
  /\ \A t \in [Id -> Player] : /\ PlayerList(t) \in ToClient /\ PlayerList(t).type = "PlayerList"
                              /\ Content(PlayerList(t)) = t
<1>1. \A m \in ToClient : m.type = "PlayerList" => m.table \in [Id -> Player] /\ Content(m) = m.table
  BY DEF ToClient, Content, Powers
<1>2. \A m \in ToClient : m.type \in Powers => Content(m) = m.type
  BY DEF Content, Powers
<1>3. \A m \in ToHost : m.type = "PlayerInfo" => m.id \in Id /\ m.address \in Clients
  BY DEF ToHost, Powers
<1>4. \A m \in ToHost : m.type \in Powers => Content(m) = m.type
  BY DEF Content, Powers
<1>5. \A w \in Powers : Cmd(w) \in ToHost /\ Cmd(w) \in ToClient /\ Cmd(w).type = w /\ Content(Cmd(w)) = w
  BY DEF ToHost, ToClient, Cmd, Content, Powers
<1>6. \A i \in Id, c \in Clients : [type |-> "PlayerInfo", id |-> i, address |-> c] \in ToHost
  BY DEF ToHost
<1>7. \A i \in Id : [type |-> "ClientInit", id |-> i] \in ToClient
  BY DEF ToClient
<1>8. \A t \in [Id -> Player] : /\ PlayerList(t) \in ToClient /\ PlayerList(t).type = "PlayerList"
                               /\ Content(PlayerList(t)) = t
  BY DEF ToClient, PlayerList, Content
<1> QED
  BY <1>1, <1>2, <1>3, <1>4, <1>5, <1>6, <1>7, <1>8

\* The table of start_host.
LEMMA InitInv == Init => Inv
<1> SUFFICES ASSUME Init PROVE Inv
  OBVIOUS
<1>1. MaxPlayers \in Nat /\ MaxPlayers >= 2 /\ Peers \in Nat /\ Peers >= 2 /\ 0 \in Id /\ 1 \in Peer
  BY PlayersAssumption, PeersAssumption DEF Id, Peer
<1>2. NoPlayer \in Player /\ [NoPlayer EXCEPT !.status = "Host"] \in Player
  BY <1>1 DEF NoPlayer, Player
<1>3. Blank \in [Id -> Player] /\ \A i \in Id : Blank[i] = NoPlayer
  BY <1>2 DEF Blank
<1>4. /\ players \in [Id -> Player] /\ players[0] = [NoPlayer EXCEPT !.status = "Host"]
      /\ \A i \in Id \ {0} : players[i] = NoPlayer
  BY <1>1, <1>2, <1>3 DEF Init
<1>5. Types
  <2>1. <<>> \in Seq(ToHost) /\ <<>> \in Seq(ToClient)
    OBVIOUS
  <2>2. players \in [Id -> Player] /\ num \in 1..MaxPlayers /\ mask \subseteq Id
    BY <1>1, <1>4 DEF Init
  <2> QED BY <1>1, <1>3, <2>1, <2>2 DEF Init, Types
<1>6. Up = {} /\ Used = {0}
  <2>1. Up = {}
    BY DEF Init, Up
  <2>2. players[0].status = "Host" /\ \A i \in Id \ {0} : players[i].status = "None"
    BY <1>4 DEF NoPlayer
  <2> QED BY <2>1, <2>2, <1>1 DEF Used
<1>7. Table
  <2>1. players[0].status = "Host" /\ players[0].id = 0
    BY <1>4 DEF NoPlayer
  <2>2. Cardinality(Used) = 1 /\ Cardinality(Up) = 0
    BY <1>6, FS_EmptySet, FS_Singleton
  <2> QED BY <1>1, <1>6, <2>1, <2>2 DEF Table, Init
<1>8. Places /\ Links /\ Messages /\ Kept
  BY <1>6 DEF Places, Links, Messages, Kept, Init
<1> QED
  BY <1>5, <1>7, <1>8 DEF Inv

\* What leaves the table and the connected peers alone keeps them.
LEMMA TableStays ==
  ASSUME Inv, UNCHANGED <<players, num, mask, data, state>>
  PROVE  Table' /\ Places'
<1>1. Up' = Up /\ Used' = Used
  BY DEF Up, Used
<1> QED
  BY <1>1 DEF Inv, Table, Places

\* A peer about which nothing has changed.
LEMMA PeerStays ==
  ASSUME Inv, NEW p \in Up, who[p] # Nobody,
         UNCHANGED <<players, mask, data, who[p], toHost[p], toClient[p],
                     list[who[p]], hostOn[who[p]], on[who[p]]>>
  PROVE  (ListKept(p) /\ HostKept(p) /\ OnKept(p))'
<1>1. ListKept(p) /\ HostKept(p) /\ OnKept(p)
  BY DEF Inv, Kept
<1>2. SameTables' = SameTables /\ HostWords(p)' = HostWords(p)
  BY DEF SameTables, Agrees, HostWords
<1> QED
  BY <1>1, <1>2 DEF ListKept, HostKept, OnKept

\* start_client has its id: ClientInit is taken and PlayerInfo sent.
LEMMA JoinDoneInv == ASSUME Inv, NEW c \in Clients, JoinDone(c) PROVE Inv'
<1> DEFINE p == mine[c]
           m == Head(toClient[p])
           n == [type |-> "PlayerInfo", id |-> m.id, address |-> c]
<1>1. p \in Peer /\ p \in Up /\ who[p] = c /\ c # Nobody /\ at[c] = "ask"
  BY NobodyAssumption DEF JoinDone, Linked, Up, Inv, Types
<1>2. toClient[p] \in Seq(ToClient) /\ toClient[p] # <<>> /\ m.type = "ClientInit" /\ m.id = data[p]
  <2>1. toClient[p] \in Seq(ToClient) /\ toClient[p] # <<>>
    BY <1>1 DEF Inv, Types, Messages
  <2>2. toClient[p][1].type = "ClientInit" /\ toClient[p][1].id = data[p]
    BY <1>1 DEF Inv, Messages
  <2> QED BY <2>1, <2>2
<1>3. m.id \in Id /\ n \in ToHost /\ n.type = "PlayerInfo" /\ n.id = data[p]
  <2>1. data[p] \in Id
    BY <1>1 DEF Inv, Types, Places, Up
  <2> QED BY <1>2, <2>1, Shapes
<1>4. /\ id' = [id EXCEPT ![c] = m.id] /\ at' = [at EXCEPT ![c] = "in"]
      /\ toClient' = [toClient EXCEPT ![p] = Tail(toClient[p])]
      /\ toHost' = [toHost EXCEPT ![p] = Append(toHost[p], n)]
      /\ UNCHANGED <<players, num, mask, state, who, data, mine, list, hostOn, on>>
  BY DEF JoinDone, hostVars
<1> HIDE DEF p, m, n
<1>5. toHost[p] \in Seq(ToHost) /\ Tail(toClient[p]) \in Seq(ToClient) /\ Append(toHost[p], n) \in Seq(ToHost)
  BY <1>1, <1>2, <1>3 DEF Inv, Types
<1>6. Types'
  BY <1>1, <1>3, <1>4, <1>5 DEF Inv, Types
<1>7. Table' /\ Places'
  BY <1>4, TableStays
<1>8. Links'
  BY <1>1, <1>4 DEF Inv, Types, Links, Up
<1>9. Messages'
  <2>1. Up' = Up
    BY <1>4 DEF Up
  <2>2. \A q \in Peer : state[q] # "up" => q # p
    BY <1>1 DEF Up
  <2>3. \A q \in Peer : state'[q] # "up" => toHost'[q] = <<>> /\ toClient'[q] = <<>>
    BY <1>4, <2>2 DEF Inv, Types, Messages
  <2>4. ASSUME NEW q \in Up, who'[q] # Nobody, at'[who'[q]] = "ask"
        PROVE  toClient'[q] # <<>> /\ toClient'[q][1].type = "ClientInit" /\ toClient'[q][1].id = data'[q]
    <3>1. q # p /\ q \in Peer /\ who[q] # c /\ who[q] \in Clients
      BY <2>4, <1>1, <1>4 DEF Inv, Types, Up
    <3> QED BY <3>1, <2>4, <1>4 DEF Inv, Types, Messages
  <2>5. ASSUME NEW q \in Up, NEW k \in 1 .. Len(toHost'[q]), toHost'[q][k].type = "PlayerInfo"
        PROVE  toHost'[q][k].id = data'[q]
    <3>1. CASE q = p
      <4>1. toHost'[q] = Append(toHost[p], n)
        BY <3>1, <1>1, <1>4 DEF Inv, Types
      <4>2. CASE k = Len(toHost[p]) + 1
        BY <4>1, <4>2, <1>3, <1>4, <1>5, <3>1
      <4>3. CASE k # Len(toHost[p]) + 1
        <5>1. k \in 1 .. Len(toHost[p]) /\ toHost'[q][k] = toHost[p][k]
          BY <4>1, <4>3, <1>5, <1>3
        <5> QED BY <5>1, <2>5, <3>1, <1>1, <1>4 DEF Inv, Messages
      <4> QED BY <4>2, <4>3
    <3>2. CASE q # p
      <4>1. toHost'[q] = toHost[q] /\ data'[q] = data[q]
        BY <3>2, <1>4 DEF Inv, Types, Up
      <4> QED BY <4>1, <2>5 DEF Inv, Messages
    <3> QED BY <3>1, <3>2
  <2>6. ASSUME NEW d \in Clients, at'[d] \in {"out", "ask"} PROVE ~hostOn'[d] /\ ~on'[d]
    BY <2>6, <1>4 DEF Inv, Types, Messages
  <2> QED BY <2>1, <2>3, <2>4, <2>5, <2>6 DEF Messages
<1>10. Kept'
  <2>1. Up' = Up
    BY <1>4 DEF Up
  <2> SUFFICES ASSUME NEW q \in Up, who'[q] # Nobody PROVE (ListKept(q) /\ HostKept(q) /\ OnKept(q))'
    BY <2>1 DEF Kept
  <2>2. CASE q # p
    BY <2>2, <1>4, PeerStays DEF Inv, Types, Up
  <2>3. CASE q = p
    <3>1. ListKept(p) /\ HostKept(p) /\ OnKept(p)
      BY <1>1, <1>4, <2>3 DEF Inv, Kept
    <3>2. toClient'[p] = Tail(toClient[p]) /\ toHost'[p] = Append(toHost[p], n)
      BY <1>1, <1>4 DEF Inv, Types
    <3>3. m.type \notin {"PlayerList"} /\ m.type \notin Powers /\ n.type \notin Powers
      BY <1>2, <1>3 DEF Powers
    <3>4. ASSUME NEW t, NEW v, NEW S, Told(toClient[p], t, v, S), m.type \notin t PROVE Told(toClient'[p], t, v, S)
      BY <3>2, <3>4, <1>2, ToldSkipped DEF m
    <3>5. ASSUME NEW v, NEW S, Told(toHost[p], Powers, v, S) PROVE Told(toHost'[p], Powers, v, S)
      BY <3>2, <3>3, <3>5, <1>3, <1>5, ToldPast
    <3>6. SameTables' = SameTables /\ HostWords(p)' = HostWords(p) /\ p' = p
      BY <1>4 DEF SameTables, Agrees, HostWords, p
    <3>7. ListKept(q)'
      BY <3>1, <3>3, <3>4, <3>6, <2>3, <1>4 DEF ListKept
    <3>8. HostKept(q)'
      BY <3>1, <3>3, <3>4, <3>6, <2>3, <1>4 DEF HostKept, HostWords
    <3>9. OnKept(q)'
      BY <3>1, <3>3, <3>5, <3>6, <2>3, <1>4 DEF OnKept
    <3> QED BY <3>7, <3>8, <3>9
  <2> QED BY <2>2, <2>3
<1> QED
  BY <1>6, <1>7, <1>8, <1>9, <1>10 DEF Inv

\* What Unlink does: the host's peer for the client, if any, has nobody at its
\* other end, and the other peers keep theirs.
LEMMA Unlinked ==
  ASSUME Inv, NEW c \in Clients, Unlink(c)
  PROVE  /\ who' \in [Peer -> Clients \cup {Nobody}] /\ toClient' \in [Peer -> Seq(ToClient)]
         /\ \A q \in Peer : /\ who'[q] # Nobody => who'[q] = who[q] /\ who[q] # c /\ toClient'[q] = toClient[q]
                            /\ toClient[q] = <<>> => toClient'[q] = <<>>
<1>1. mine[c] \in Peer /\ <<>> \in Seq(ToClient) /\ \A q \in Peer : who[q] = c => q = mine[c]
  BY NobodyAssumption DEF Inv, Types, Links
<1>2. CASE Linked(c)
  BY <1>1, <1>2 DEF Unlink, Inv, Types
<1>3. CASE ~Linked(c)
  BY <1>1, <1>3 DEF Unlink, Linked, Inv, Types
<1> QED
  BY <1>2, <1>3

\* A client that is gone, or has lost its host: nobody is told.
LEMMA GoneInv ==
  ASSUME Inv, NEW c \in Clients, Unlink(c),
         UNCHANGED <<players, num, mask, state, data, toHost>>,
         mine' \in [Clients -> Peer], id' \in [Clients -> Id], list' \in [Clients -> [Id -> Player]],
         hostOn' \in [Clients -> BOOLEAN], on' \in [Clients -> BOOLEAN],
         at' \in [Clients -> {"out", "ask", "in", "alone"}], at'[c] \in {"out", "alone"},
         at'[c] = "out" => ~hostOn'[c] /\ ~on'[c],
         \A d \in Clients \ {c} : UNCHANGED <<at[d], mine[d], list[d], hostOn[d], on[d]>>
  PROVE  Inv'
<1>1. /\ who' \in [Peer -> Clients \cup {Nobody}] /\ toClient' \in [Peer -> Seq(ToClient)]
      /\ \A q \in Peer : /\ who'[q] # Nobody => who'[q] = who[q] /\ who[q] # c /\ toClient'[q] = toClient[q]
                         /\ toClient[q] = <<>> => toClient'[q] = <<>>
  BY Unlinked
<1>2. Types'
  BY <1>1 DEF Inv, Types
<1>3. Table' /\ Places'
  BY TableStays
<1>4. \A q \in Peer : who'[q] # Nobody => who'[q] \in Clients \ {c} /\ who'[q] = who[q]
  BY <1>1
<1>5. Links'
  BY <1>4 DEF Inv, Types, Links
<1>6. Up' = Up
  BY DEF Up
<1>7. Messages'
  <2>1. \A q \in Peer : state'[q] # "up" => toHost'[q] = <<>> /\ toClient'[q] = <<>>
    BY <1>1 DEF Inv, Messages
  <2>2. ASSUME NEW q \in Up, who'[q] # Nobody, at'[who'[q]] = "ask"
        PROVE  toClient'[q] # <<>> /\ toClient'[q][1].type = "ClientInit" /\ toClient'[q][1].id = data'[q]
    <3>1. q \in Peer /\ who'[q] = who[q] /\ at[who[q]] = "ask" /\ who[q] # Nobody /\ toClient'[q] = toClient[q]
      BY <2>2, <1>1, <1>4 DEF Up
    <3> QED BY <3>1 DEF Inv, Messages
  <2>3. \A q \in Up : \A k \in 1 .. Len(toHost'[q]) :
          toHost'[q][k].type = "PlayerInfo" => toHost'[q][k].id = data'[q]
    BY DEF Inv, Messages
  <2>4. ASSUME NEW d \in Clients, at'[d] \in {"out", "ask"} PROVE ~hostOn'[d] /\ ~on'[d]
    BY <2>4 DEF Inv, Messages
  <2> QED BY <1>6, <2>1, <2>2, <2>3, <2>4 DEF Messages
<1>8. Kept'
  <2> SUFFICES ASSUME NEW q \in Up, who'[q] # Nobody PROVE (ListKept(q) /\ HostKept(q) /\ OnKept(q))'
    BY <1>6 DEF Kept
  <2>1. q \in Peer /\ who'[q] = who[q] /\ who[q] # Nobody /\ who[q] \in Clients \ {c} /\ toClient'[q] = toClient[q]
    BY <1>1, <1>4 DEF Up
  <2> QED BY <2>1, PeerStays
<1> QED
  BY <1>2, <1>3, <1>5, <1>7, <1>8 DEF Inv

\* end_session, or start_client has failed.
LEMMA LeaveInv == ASSUME Inv, NEW c \in Clients, Leave(c) PROVE Inv'
<1>1. 1 \in Peer /\ 0 \in Id /\ Blank \in [Id -> Player]
  <2>1. 1 \in Peer /\ 0 \in Id
    BY PlayersAssumption, PeersAssumption DEF Peer, Id
  <2>2. NoPlayer \in Player
    BY <2>1 DEF NoPlayer, Player
  <2> QED BY <2>1, <2>2 DEF Blank
<1>2. Unlink(c) /\ UNCHANGED <<players, num, mask, state, data, toHost>>
  BY DEF Leave, hostVars
<1>3. /\ mine' \in [Clients -> Peer] /\ id' \in [Clients -> Id] /\ list' \in [Clients -> [Id -> Player]]
      /\ at' \in [Clients -> {"out", "ask", "in", "alone"}] /\ at'[c] = "out"
  BY <1>1 DEF Leave, Inv, Types
<1>4. hostOn' \in [Clients -> BOOLEAN] /\ on' \in [Clients -> BOOLEAN] /\ ~hostOn'[c] /\ ~on'[c]
  BY DEF Leave, Inv, Types
<1>5. \A d \in Clients \ {c} : UNCHANGED <<at[d], mine[d], list[d], hostOn[d], on[d]>>
  BY DEF Leave, Inv, Types
<1> QED
  BY <1>2, <1>3, <1>4, <1>5, GoneInv

\* The client's DISCONNECT event.
LEMMA ClientLostInv == ASSUME Inv, NEW c \in Clients, ClientLost(c) PROVE Inv'
<1>1. Unlink(c) /\ UNCHANGED <<players, num, mask, state, data, toHost>>
  BY DEF ClientLost, hostVars
<1>2. /\ mine' \in [Clients -> Peer] /\ id' \in [Clients -> Id] /\ list' \in [Clients -> [Id -> Player]]
      /\ at' \in [Clients -> {"out", "ask", "in", "alone"}] /\ at'[c] = "alone"
  BY DEF ClientLost, Inv, Types
<1>3. hostOn' \in [Clients -> BOOLEAN] /\ on' \in [Clients -> BOOLEAN]
  BY DEF ClientLost, Inv, Types
<1>4. \A d \in Clients \ {c} : UNCHANGED <<at[d], mine[d], list[d], hostOn[d], on[d]>>
  BY DEF ClientLost, Inv, Types
<1> QED
  BY <1>1, <1>2, <1>3, <1>4, GoneInv

\* process_client_event: a player list or the host's power.
LEMMA ClientReceiveInv == ASSUME Inv, NEW c \in Clients, ClientReceive(c) PROVE Inv'
<1> DEFINE p == mine[c]
           m == Head(toClient[p])
<1>1. p \in Peer /\ p \in Up /\ who[p] = c /\ c # Nobody /\ at[c] = "in"
  <2>1. p \in Peer /\ who[p] = c /\ c # Nobody /\ at[c] = "in"
    BY NobodyAssumption DEF ClientReceive, Linked, Inv, Types
  <2>2. state[p] = "up"
    BY <2>1 DEF Inv, Links
  <2> QED BY <2>1, <2>2 DEF Up
<1>2. /\ toClient[p] \in Seq(ToClient) /\ toClient[p] # <<>> /\ m \in ToClient
      /\ toClient' = [toClient EXCEPT ![p] = Tail(toClient[p])]
      /\ UNCHANGED <<players, num, mask, state, who, data, toHost, at, mine, id, on>>
  BY <1>1 DEF ClientReceive, hostVars, Inv, Types
<1>3. \/ /\ m.type = "PlayerList"
         /\ list' = [list EXCEPT ![c] = m.table] /\ UNCHANGED hostOn
      \/ /\ m.type \in Powers
         /\ hostOn' = [hostOn EXCEPT ![c] = (m.type = "PlayerConnect")] /\ UNCHANGED list
  BY DEF ClientReceive, Powers
<1> HIDE DEF p, m
<1>4. list' \in [Clients -> [Id -> Player]] /\ hostOn' \in [Clients -> BOOLEAN]
  <2>1. CASE m.type = "PlayerList" /\ list' = [list EXCEPT ![c] = m.table] /\ UNCHANGED hostOn
    BY <2>1, <1>2, Shapes DEF Inv, Types
  <2>2. CASE hostOn' = [hostOn EXCEPT ![c] = (m.type = "PlayerConnect")] /\ UNCHANGED list
    BY <2>2 DEF Inv, Types
  <2> QED BY <1>3, <2>1, <2>2
<1>5. Types'
  BY <1>1, <1>2, <1>4 DEF Inv, Types
<1>6. Table' /\ Places'
  BY <1>2, TableStays
<1>7. Links'
  BY <1>2 DEF Inv, Links
<1>8. Up' = Up /\ \A q \in Peer \ {p} : toClient'[q] = toClient[q]
  BY <1>1, <1>2 DEF Up, Inv, Types
<1>9. \A d \in Clients \ {c} : list'[d] = list[d] /\ hostOn'[d] = hostOn[d]
  BY <1>3 DEF Inv, Types
<1>10. Messages'
  <2>1. \A q \in Peer : state'[q] # "up" => toHost'[q] = <<>> /\ toClient'[q] = <<>>
    BY <1>1, <1>2, <1>8 DEF Inv, Messages, Up
  <2>2. ASSUME NEW q \in Up, who'[q] # Nobody, at'[who'[q]] = "ask"
        PROVE  toClient'[q] # <<>> /\ toClient'[q][1].type = "ClientInit" /\ toClient'[q][1].id = data'[q]
    <3>1. q \in Peer \ {p}
      BY <2>2, <1>1, <1>2 DEF Up
    <3> QED BY <3>1, <2>2, <1>2, <1>8 DEF Inv, Messages
  <2>3. \A q \in Up : \A k \in 1 .. Len(toHost'[q]) :
          toHost'[q][k].type = "PlayerInfo" => toHost'[q][k].id = data'[q]
    BY <1>2 DEF Inv, Messages
  <2>4. ASSUME NEW d \in Clients, at'[d] \in {"out", "ask"} PROVE ~hostOn'[d] /\ ~on'[d]
    BY <2>4, <1>1, <1>2, <1>9 DEF Inv, Messages
  <2> QED BY <1>8, <2>1, <2>2, <2>3, <2>4 DEF Messages
<1>11. Kept'
  <2> SUFFICES ASSUME NEW q \in Up, who'[q] # Nobody PROVE (ListKept(q) /\ HostKept(q) /\ OnKept(q))'
    BY <1>8 DEF Kept
  <2>1. CASE q # p
    <3>1. q \in Peer \ {p} /\ who[q] \in Clients \ {c} /\ who[q] # Nobody
      BY <2>1, <1>2 DEF Inv, Types, Links, Up, p
    <3> QED BY <3>1, <1>2, <1>8, <1>9, PeerStays
  <2>2. CASE q = p
    <3>1. ListKept(p) /\ HostKept(p) /\ OnKept(p)
      BY <1>1 DEF Inv, Kept
    <3>2. toClient'[p] = Tail(toClient[p]) /\ p' = p /\ who' = who
      BY <1>1, <1>2 DEF Inv, Types, p
    <3>3. SameTables' = SameTables /\ HostWords(p)' = HostWords(p)
      BY <1>2, <3>2 DEF SameTables, Agrees, HostWords
    <3>4. OnKept(q)'
      BY <3>1, <3>2, <2>2, <1>2 DEF OnKept
    <3>5. ASSUME NEW t, NEW v, NEW S, Told(toClient[p], t, v, S), m.type \notin t PROVE Told(toClient'[p], t, v, S)
      BY <3>2, <3>5, <1>2, ToldSkipped DEF m
    <3>6. ASSUME NEW t, NEW v, NEW S, Told(toClient[p], t, v, S), m.type \in t
          PROVE  Told(toClient'[p], t, Content(m), S)
      BY <3>2, <3>6, <1>2, ToldTaken DEF m
    <3>7. CASE m.type = "PlayerList" /\ list' = [list EXCEPT ![c] = m.table] /\ UNCHANGED hostOn
      <4>1. m.type \in {"PlayerList"} /\ m.type \notin Powers /\ Content(m) = m.table /\ list'[c] = m.table
        BY <3>7, <1>2, Shapes DEF Powers, Inv, Types
      <4>2. ListKept(q)'
        BY <3>1, <3>2, <3>3, <3>6, <4>1, <2>2, <1>1, <1>2 DEF ListKept
      <4>3. HostKept(q)'
        BY <3>1, <3>2, <3>3, <3>5, <3>7, <4>1, <2>2 DEF HostKept
      <4> QED BY <4>2, <4>3, <3>4
    <3>8. CASE m.type \in Powers /\ hostOn' = [hostOn EXCEPT ![c] = (m.type = "PlayerConnect")] /\ UNCHANGED list
      <4>1. m.type \notin {"PlayerList"} /\ Content(m) = m.type
        BY <3>8, <1>2, Shapes DEF Powers
      <4>2. Word(hostOn'[c]) = m.type
        <5>1. hostOn'[c] <=> m.type = "PlayerConnect"
          BY <3>8 DEF Inv, Types
        <5> QED BY <5>1, <3>8 DEF Word, Powers
      <4>3. ListKept(q)'
        BY <3>1, <3>2, <3>3, <3>5, <3>8, <4>1, <2>2, <1>1, <1>2 DEF ListKept
      <4>4. Told(toClient'[p], Powers, Word(hostOn'[c]), HostWords(p))
        BY <3>1, <3>6, <3>8, <4>1, <4>2 DEF HostKept
      <4>5. HostKept(q)'
        BY <3>2, <3>3, <4>4, <2>2, <1>1 DEF HostKept
      <4> QED BY <4>3, <4>5, <3>4
    <3> QED BY <1>3, <3>7, <3>8
  <2> QED BY <2>1, <2>2
<1> QED
  BY <1>5, <1>6, <1>7, <1>10, <1>11 DEF Inv

\* begin and end of a client.
LEMMA ClientPowerInv == ASSUME Inv, NEW c \in Clients, ClientPower(c) PROVE Inv'
<1> DEFINE p == mine[c]
           w == IF on[c] THEN "PlayerDisconnect" ELSE "PlayerConnect"
<1>1. /\ at[c] = "in" /\ c # Nobody /\ p \in Peer /\ on' = [on EXCEPT ![c] = ~on[c]]
      /\ toHost' = IF who[p] = c THEN [toHost EXCEPT ![p] = Append(toHost[p], Cmd(w))] ELSE toHost
      /\ UNCHANGED <<players, num, mask, state, who, data, toClient, at, mine, id, list, hostOn>>
  BY NobodyAssumption DEF ClientPower, Linked, hostVars, Inv, Types
<1>2. w \in Powers /\ w # "PlayerInfo" /\ Cmd(w) \in ToHost /\ Cmd(w).type = w /\ Content(Cmd(w)) = w
  <2>1. w \in Powers /\ w # "PlayerInfo"
    BY DEF Powers
  <2> HIDE DEF w
  <2> QED BY <2>1, Shapes
<1>3. on' \in [Clients -> BOOLEAN] /\ (\A d \in Clients \ {c} : on'[d] = on[d]) /\ (on'[c] <=> ~on[c])
  BY <1>1 DEF Inv, Types
<1>4. w = Word(on'[c])
  BY <1>3 DEF Word
<1> HIDE DEF w, p
<1>5. toHost[p] \in Seq(ToHost) /\ Append(toHost[p], Cmd(w)) \in Seq(ToHost)
  BY <1>1, <1>2 DEF Inv, Types
<1>6. toHost' \in [Peer -> Seq(ToHost)] /\ \A q \in Peer \ {p} : toHost'[q] = toHost[q]
  BY <1>1, <1>5 DEF Inv, Types
<1>7. Types'
  BY <1>1, <1>3, <1>6 DEF Inv, Types
<1>8. Table' /\ Places' /\ Links'
  <2>1. Table' /\ Places'
    BY <1>1, TableStays
  <2> QED BY <1>1, <2>1 DEF Inv, Links
<1>9. Up' = Up
  BY <1>1 DEF Up
<1>10. who[p] = c => p \in Up
  BY <1>1 DEF Inv, Links, Up
<1>11. Messages'
  <2>1. \A q \in Peer : state'[q] # "up" => toHost'[q] = <<>> /\ toClient'[q] = <<>>
    BY <1>1, <1>10 DEF Inv, Types, Messages, Up
  <2>2. \A q \in Up : who'[q] # Nobody /\ at'[who'[q]] = "ask" =>
          /\ toClient'[q] # <<>> /\ toClient'[q][1].type = "ClientInit" /\ toClient'[q][1].id = data'[q]
    BY <1>1 DEF Inv, Messages
  <2>3. ASSUME NEW q \in Up, NEW k \in 1 .. Len(toHost'[q]), toHost'[q][k].type = "PlayerInfo"
        PROVE  toHost'[q][k].id = data'[q]
    <3>1. CASE toHost'[q] = toHost[q]
      BY <3>1, <2>3, <1>1 DEF Inv, Messages
    <3>2. CASE toHost'[q] # toHost[q]
      <4>1. q = p /\ toHost'[q] = Append(toHost[p], Cmd(w))
        BY <3>2, <1>1, <1>6 DEF Up, Inv, Types
      <4>2. k # Len(toHost[p]) + 1
        BY <4>1, <2>3, <1>2, <1>5
      <4>3. k \in 1 .. Len(toHost[p]) /\ toHost'[q][k] = toHost[p][k]
        BY <4>1, <4>2, <1>2, <1>5
      <4> QED BY <4>1, <4>3, <2>3, <1>1 DEF Inv, Messages
    <3> QED BY <3>1, <3>2
  <2>4. ASSUME NEW d \in Clients, at'[d] \in {"out", "ask"} PROVE ~hostOn'[d] /\ ~on'[d]
    BY <2>4, <1>1, <1>3 DEF Inv, Messages
  <2> QED BY <1>9, <2>1, <2>2, <2>3, <2>4 DEF Messages
<1>12. Kept'
  <2> SUFFICES ASSUME NEW q \in Up, who'[q] # Nobody PROVE (ListKept(q) /\ HostKept(q) /\ OnKept(q))'
    BY <1>9 DEF Kept
  <2>1. CASE who[q] # c
    <3>1. q \in Peer /\ who[q] \in Clients \ {c} /\ who[q] # Nobody /\ toHost'[q] = toHost[q]
      BY <2>1, <1>1, <1>6 DEF Inv, Types, Up
    <3> QED BY <3>1, <1>1, <1>3, PeerStays
  <2>2. CASE who[q] = c
    <3>1. q = p
      BY <2>2, <1>1 DEF Inv, Links, Up, p
    <3>2. ListKept(q) /\ HostKept(q) /\ OnKept(q)
      BY <2>2, <1>1 DEF Inv, Kept
    <3>3. ListKept(q)' /\ HostKept(q)'
      <4>1. SameTables' = SameTables /\ HostWords(q)' = HostWords(q)
        BY <1>1 DEF SameTables, Agrees, HostWords
      <4> QED BY <3>2, <4>1, <1>1 DEF ListKept, HostKept
    <3>4. toHost'[q] = Append(toHost[p], Cmd(w))
      BY <3>1, <2>2, <1>1 DEF Inv, Types
    <3>5. w \in {Word(on'[c])}
      BY <1>4
    <3>6. Told(toHost'[q], Powers, Word(data'[q] \in mask'), {Word(on'[c])})
      BY <3>4, <3>5, <1>2, <1>5, ToldSent
    <3>7. OnKept(q)'
      BY <3>6, <2>2, <1>1 DEF OnKept
    <3> QED BY <3>3, <3>7
  <2> QED BY <2>1, <2>2
<1> QED
  BY <1>7, <1>8, <1>11, <1>12 DEF Inv

\* A connect request: the lowest free peer, which is past the last player's
\* only when the peers below are all taken.
LEMMA StartClientInv == ASSUME Inv, NEW c \in Clients, StartClient(c) PROVE Inv'
<1>1. PICK p \in Peer : /\ state[p] = "free" /\ state' = [state EXCEPT ![p] = "asked"]
                       /\ who' = [who EXCEPT ![p] = c]
                       /\ mine' = [mine EXCEPT ![c] = p]
  BY DEF StartClient
<1>2. /\ at[c] = "out" /\ c # Nobody /\ at' = [at EXCEPT ![c] = "ask"]
      /\ UNCHANGED <<players, num, mask, data, toHost, toClient, id, list, hostOn, on>>
  BY NobodyAssumption DEF StartClient, hostVars
<1>3. Types'
  BY <1>1, <1>2 DEF Inv, Types
<1>4. /\ state'[p] = "asked" /\ \A q \in Peer \ {p} : state'[q] = state[q] /\ who'[q] = who[q]
      /\ who'[p] = c /\ mine'[c] = p /\ at'[c] = "ask"
      /\ \A d \in Clients \ {c} : mine'[d] = mine[d] /\ at'[d] = at[d]
  BY <1>1, <1>2 DEF Inv, Types
<1>5. Up' = Up /\ Used' = Used /\ p \notin Up
  <2>1. Up' = Up /\ p \notin Up
    BY <1>1, <1>4 DEF Up
  <2> QED BY <2>1, <1>2 DEF Used
<1>6. Table'
  BY <1>2, <1>5 DEF Inv, Table
<1>7. Places'
  BY <1>2, <1>5 DEF Inv, Places
<1>8. ASSUME NEW q \in Peer, who[q] # Nobody PROVE who[q] \in Clients \ {c}
  <2>1. at[who[q]] = "ask" \/ at[who[q]] = "in"
    BY <1>8 DEF Inv, Links
  <2>2. who[q] \in Clients
    BY <1>8 DEF Inv, Types
  <2> QED BY <2>1, <2>2, <1>2
<1>9. Links'
  <2> SUFFICES ASSUME NEW q \in Peer, who'[q] # Nobody
               PROVE  /\ state'[q] # "free" /\ mine'[who'[q]] = q
                      /\ at'[who'[q]] = "ask" \/ (at'[who'[q]] = "in" /\ state'[q] = "up")
    BY DEF Links
  <2>1. CASE q = p
    BY <2>1, <1>4
  <2>2. CASE q # p
    BY <2>2, <1>4, <1>8 DEF Inv, Links
  <2> QED BY <2>1, <2>2
<1>10. Messages'
  <2>1. \A q \in Peer : state'[q] # "up" => toHost'[q] = <<>> /\ toClient'[q] = <<>>
    BY <1>1, <1>2, <1>4 DEF Inv, Messages
  <2>2. ASSUME NEW q \in Up, who'[q] # Nobody, at'[who'[q]] = "ask"
        PROVE  toClient'[q] # <<>> /\ toClient'[q][1].type = "ClientInit" /\ toClient'[q][1].id = data'[q]
    <3>1. q \in Peer \ {p}
      BY <1>5 DEF Up
    <3> QED BY <3>1, <2>2, <1>2, <1>4, <1>8 DEF Inv, Messages
  <2>3. \A q \in Up : \A k \in 1 .. Len(toHost'[q]) :
          toHost'[q][k].type = "PlayerInfo" => toHost'[q][k].id = data'[q]
    BY <1>2 DEF Inv, Messages
  <2>4. ASSUME NEW d \in Clients, at'[d] \in {"out", "ask"} PROVE ~hostOn'[d] /\ ~on'[d]
    BY <2>4, <1>2, <1>4 DEF Inv, Messages
  <2> QED BY <1>5, <2>1, <2>2, <2>3, <2>4 DEF Messages
<1>11. Kept'
  <2> SUFFICES ASSUME NEW q \in Up, who'[q] # Nobody PROVE (ListKept(q) /\ HostKept(q) /\ OnKept(q))'
    BY <1>5 DEF Kept
  <2>1. q \in Peer \ {p} /\ who'[q] = who[q]
    BY <1>4, <1>5 DEF Up
  <2> QED BY <2>1, <1>2, PeerStays
<1> QED
  BY <1>3, <1>6, <1>7, <1>9, <1>10, <1>11 DEF Inv

\* A handshake whose client has gone.
LEMMA AskDroppedInv == ASSUME Inv, NEW p \in Peer, AskDropped(p) PROVE Inv'
<1>1. /\ state[p] = "asked" /\ who[p] = Nobody /\ state' = [state EXCEPT ![p] = "free"]
      /\ UNCHANGED <<players, num, mask, who, data, toHost, toClient, at, mine, id, list, hostOn, on>>
  BY DEF AskDropped, hostVars, clientVars
<1>2. state'[p] = "free" /\ \A q \in Peer \ {p} : state'[q] = state[q]
  BY <1>1 DEF Inv, Types
<1>3. Up' = Up /\ Used' = Used
  <2>1. Up' = Up
    BY <1>1, <1>2 DEF Up
  <2> QED BY <2>1, <1>1 DEF Used
<1>4. Types'
  BY <1>1 DEF Inv, Types
<1>5. Table'
  BY <1>1, <1>3 DEF Inv, Table
<1>6. Places'
  BY <1>1, <1>3 DEF Inv, Places
<1>7. Links' /\ Messages'
  <2>1. Links'
    BY <1>1, <1>2 DEF Inv, Links
  <2>2. \A q \in Peer : state'[q] # "up" => toHost'[q] = <<>> /\ toClient'[q] = <<>>
    BY <1>1, <1>2 DEF Inv, Messages
  <2> QED BY <2>1, <2>2, <1>1, <1>3 DEF Inv, Messages
<1>8. Kept'
  <2> SUFFICES ASSUME NEW q \in Up, who'[q] # Nobody PROVE (ListKept(q) /\ HostKept(q) /\ OnKept(q))'
    BY <1>3 DEF Kept
  <2> QED BY <1>1, PeerStays
<1> QED
  BY <1>4, <1>5, <1>6, <1>7, <1>8 DEF Inv

\* enet_host_broadcast appends to the channels of those it reaches, and changes
\* no other.
LEMMA Heard ==
  ASSUME Inv, NEW chan \in [Peer -> Seq(ToClient)], NEW msg \in ToClient, NEW to
  PROVE  /\ Broadcast(chan, msg, to) \in [Peer -> Seq(ToClient)]
         /\ \A q \in Peer : Broadcast(chan, msg, to)[q] =
              IF q \in to /\ who[q] # Nobody THEN Append(chan[q], msg) ELSE chan[q]
BY DEF Broadcast

\* A message behind the first leaves the first where it is.
LEMMA FirstStays ==
  ASSUME NEW S, NEW s \in Seq(S), NEW m \in S, s # <<>>
  PROVE  Append(s, m) # <<>> /\ Append(s, m)[1] = s[1]
<1>1. Len(s) \in Nat /\ Len(s) # 0 /\ 1 \in 1 .. Len(s)
  OBVIOUS
<1> QED
  BY <1>1

\* begin and end of the host.
LEMMA HostPowerInv == ASSUME Inv, HostPower PROVE Inv'
<1> DEFINE w == IF 0 \in mask THEN "PlayerDisconnect" ELSE "PlayerConnect"
<1>1. /\ mask' = (IF 0 \in mask THEN mask \ {0} ELSE mask \cup {0})
      /\ toClient' = Broadcast(toClient, Cmd(w), Up)
      /\ UNCHANGED <<players, num, state, who, data, toHost, at, mine, id, list, hostOn, on>>
  BY DEF HostPower, clientVars
<1>2. w \in Powers /\ Cmd(w) \in ToClient /\ Cmd(w).type = w /\ Content(Cmd(w)) = w
  <2>1. w \in Powers
    BY DEF Powers
  <2> HIDE DEF w
  <2> QED BY <2>1, Shapes
<1>3. /\ toClient' \in [Peer -> Seq(ToClient)]
      /\ \A q \in Peer : toClient'[q] = IF q \in Up /\ who[q] # Nobody THEN Append(toClient[q], Cmd(w)) ELSE toClient[q]
  <2> HIDE DEF w
  <2>1. toClient \in [Peer -> Seq(ToClient)]
    BY DEF Inv, Types
  <2> QED BY <1>1, <1>2, <2>1, Heard
<1>4. 0 \in Used /\ 0 \in Id /\ Used \subseteq Id
  BY PlayersAssumption DEF Inv, Table, Used, Id
<1>5. Up' = Up /\ Used' = Used
  BY <1>1 DEF Up, Used
<1>6. mask' \subseteq Used /\ (0 \in mask' <=> 0 \notin mask) /\ \A i \in Id \ {0} : i \in mask' <=> i \in mask
  BY <1>1, <1>4 DEF Inv, Table
<1>7. Types'
  BY <1>1, <1>3, <1>4, <1>6 DEF Inv, Types
<1>8. Table' /\ Places' /\ Links'
  <2>1. Table'
    BY <1>1, <1>5, <1>6 DEF Inv, Table
  <2> QED BY <2>1, <1>1, <1>5 DEF Inv, Places, Links
<1>9. Messages'
  <2>1. \A q \in Peer : state'[q] # "up" => toHost'[q] = <<>> /\ toClient'[q] = <<>>
    BY <1>1, <1>3 DEF Inv, Messages, Up
  <2>2. ASSUME NEW q \in Up, who'[q] # Nobody, at'[who'[q]] = "ask"
        PROVE  toClient'[q] # <<>> /\ toClient'[q][1].type = "ClientInit" /\ toClient'[q][1].id = data'[q]
    <3>1. q \in Peer /\ toClient[q] \in Seq(ToClient) /\ toClient'[q] = Append(toClient[q], Cmd(w))
      BY <2>2, <1>1, <1>3 DEF Inv, Types, Up
    <3>2. toClient[q] # <<>> /\ toClient[q][1].type = "ClientInit" /\ toClient[q][1].id = data[q]
      BY <2>2, <1>1 DEF Inv, Messages
    <3>3. toClient'[q] # <<>> /\ toClient'[q][1] = toClient[q][1]
      <4> HIDE DEF w
      <4> QED BY <3>1, <3>2, <1>2, FirstStays
    <3> QED BY <3>2, <3>3, <1>1
  <2>3. \A q \in Up : \A k \in 1 .. Len(toHost'[q]) :
          toHost'[q][k].type = "PlayerInfo" => toHost'[q][k].id = data'[q]
    BY <1>1 DEF Inv, Messages
  <2>4. \A d \in Clients : at'[d] \in {"out", "ask"} => ~hostOn'[d] /\ ~on'[d]
    BY <1>1 DEF Inv, Messages
  <2> QED BY <1>5, <2>1, <2>2, <2>3, <2>4 DEF Messages
<1>10. Kept'
  <2> SUFFICES ASSUME NEW q \in Up, who'[q] # Nobody PROVE (ListKept(q) /\ HostKept(q) /\ OnKept(q))'
    BY <1>5 DEF Kept
  <2>1. q \in Peer /\ toClient[q] \in Seq(ToClient) /\ toClient'[q] = Append(toClient[q], Cmd(w))
    BY <1>1, <1>3 DEF Inv, Types, Up
  <2>2. ListKept(q) /\ HostKept(q) /\ OnKept(q)
    BY <1>1 DEF Inv, Kept
  <2>3. ListKept(q)'
    <3>1. w \notin {"PlayerList"} /\ SameTables' = SameTables
      BY <1>1 DEF SameTables, Agrees
    <3> HIDE DEF w
    <3>2. ASSUME NEW v, NEW S, Told(toClient[q], {"PlayerList"}, v, S) PROVE Told(toClient'[q], {"PlayerList"}, v, S)
      BY <3>1, <3>2, <2>1, <1>2, ToldPast
    <3> QED BY <3>1, <3>2, <2>2, <1>1 DEF ListKept
  <2>4. HostKept(q)'
    <3>1. w \in HostWords(q)'
      BY <1>6 DEF HostWords, Powers
    <3> HIDE DEF w
    <3>2. Told(toClient'[q], Powers, Word(hostOn[who[q]])', HostWords(q)')
      BY <3>1, <2>1, <1>2, ToldSent
    <3> QED BY <3>2 DEF HostKept
  <2>5. OnKept(q)'
    <3>1. data[q] \in Id \ {0}
      BY <2>1 DEF Inv, Types, Places, Up
    <3>2. Word(data'[q] \in mask') = Word(data[q] \in mask)
      BY <3>1, <1>1, <1>6 DEF Word
    <3> QED BY <3>2, <2>2, <1>1 DEF OnKept
  <2> QED BY <2>3, <2>4, <2>5
<1> QED
  BY <1>7, <1>8, <1>9, <1>10 DEF Inv

\* A CONNECT event in a full session.
LEMMA RefuseInv == ASSUME Inv, NEW p \in Peer, HostConnect(p), Full PROVE Inv'
<1>1. /\ state[p] = "asked" /\ state' = [state EXCEPT ![p] = "refused"]
      /\ UNCHANGED <<players, num, mask, who, data, toHost, toClient, at, mine, id, list, hostOn, on>>
  BY DEF HostConnect, clientVars
<1>2. state'[p] = "refused" /\ \A q \in Peer \ {p} : state'[q] = state[q]
  BY <1>1 DEF Inv, Types
<1>3. Up' = Up /\ Used' = Used
  <2>1. Up' = Up
    BY <1>1, <1>2 DEF Up
  <2> QED BY <2>1, <1>1 DEF Used
<1>5. Types'
  BY <1>1 DEF Inv, Types
<1>6. Table'
  BY <1>1, <1>3 DEF Inv, Table
<1>7. Places'
  BY <1>1, <1>3 DEF Inv, Places
<1>8. Links' /\ Messages'
  <2>1. Links'
    BY <1>1, <1>2 DEF Inv, Links
  <2>2. \A q \in Peer : state'[q] # "up" => toHost'[q] = <<>> /\ toClient'[q] = <<>>
    BY <1>1, <1>2 DEF Inv, Messages
  <2> QED BY <2>1, <2>2, <1>1, <1>3 DEF Inv, Messages
<1>9. Kept'
  <2> SUFFICES ASSUME NEW q \in Up, who'[q] # Nobody PROVE (ListKept(q) /\ HostKept(q) /\ OnKept(q))'
    BY <1>3 DEF Kept
  <2> QED BY <1>1, PeerStays
<1> QED
  BY <1>5, <1>6, <1>7, <1>8, <1>9 DEF Inv

\* A CONNECT event with room: the client gets an entry that is not in use.
LEMMA AcceptInv == ASSUME Inv, NEW p \in Peer, HostConnect(p), ~Full PROVE Inv'
<1> DEFINE f == FreeId
           m == [type |-> "ClientInit", id |-> f]
           e == [id |-> f, status |-> "Connecting", address |-> who[p]]
<1>1. /\ state[p] = "asked" /\ state' = [state EXCEPT ![p] = "up"]
      /\ toClient' = [toClient EXCEPT ![p] = <<m>>]
      /\ players' = [players EXCEPT ![f] = e]
      /\ data' = [data EXCEPT ![p] = f] /\ num' = num + 1
      /\ UNCHANGED <<mask, who, toHost, at, mine, id, list, hostOn, on>>
  BY DEF HostConnect, clientVars
<1>2. p \in Nat /\ num \in Nat /\ MaxPlayers \in Nat /\ num < MaxPlayers
  BY PlayersAssumption, PeersAssumption DEF Peer, Inv, Types, Full
<1>3. f \in Id \ {0} /\ f \notin Used /\ players[f].status = "None"
  BY <1>2, FreeIdFree DEF Inv
<1> HIDE DEF f
<1>5. m \in ToClient /\ e \in Player /\ e.status = "Connecting" /\ e.id = f /\ <<m>> \in Seq(ToClient)
  <2>1. m \in ToClient
    BY <1>3, Shapes
  <2>2. e \in Player
    BY <1>3 DEF Player, Inv, Types
  <2> QED BY <2>1, <2>2
<1>6. m.type = "ClientInit" /\ m.id = f
  OBVIOUS
<1> HIDE DEF m, e
<1>7. Types'
  <2>1. num' \in 1..MaxPlayers
    BY <1>1, <1>2 DEF Inv, Types
  <2>2. players' \in [Id -> Player] /\ data' \in [Peer -> (Id \ {0}) \cup {NoData}]
    BY <1>1, <1>3, <1>5 DEF Inv, Types
  <2> QED BY <2>1, <2>2, <1>1, <1>5 DEF Inv, Types
<1>8. /\ state'[p] = "up" /\ data'[p] = f /\ players'[f] = e /\ toClient'[p] = <<m>>
      /\ \A q \in Peer \ {p} : state'[q] = state[q] /\ data'[q] = data[q] /\ toClient'[q] = toClient[q]
      /\ \A i \in Id \ {f} : players'[i] = players[i]
  BY <1>1, <1>3 DEF Inv, Types
<1>9. Up' = Up \cup {p} /\ p \notin Up /\ Used' = Used \cup {f}
  <2>1. Up' = Up \cup {p} /\ p \notin Up
    BY <1>1, <1>8 DEF Up
  <2>2. Used' = Used \cup {f}
    BY <1>3, <1>5, <1>8 DEF Used
  <2> QED BY <2>1, <2>2
<1>10. \A q \in Up : q \in Peer \ {p} /\ data[q] \in Used /\ data[q] \in Id \ {0} /\ data[q] # f
  BY <1>3, <1>9 DEF Inv, Types, Table, Up, Places
<1>11. Table'
  <2>1. players'[0].status = "Host"
    BY <1>3, <1>8, PlayersAssumption DEF Inv, Table, Id
  <2>2. ASSUME NEW i \in Id PROVE i \in Used' <=> i = 0 \/ \E q \in Up' : data'[q] = i
    <3>1. CASE i = f
      BY <3>1, <1>8, <1>9
    <3>2. CASE i # f
      <4>1. i \in Used' <=> i \in Used
        BY <3>2, <1>9
      <4>2. i \in Used <=> i = 0 \/ \E q \in Up : data[q] = i
        BY DEF Inv, Table
      <4>3. (\E q \in Up' : data'[q] = i) <=> (\E q \in Up : data[q] = i)
        BY <3>2, <1>8, <1>9, <1>10
      <4> QED BY <4>1, <4>2, <4>3
    <3> QED BY <3>1, <3>2
  <2>3. ASSUME NEW i \in Used' PROVE players'[i].id = i
    <3>1. CASE i = f
      BY <3>1, <1>5, <1>8
    <3>2. CASE i # f
      <4>1. i \in Used /\ i \in Id \ {f}
        BY <3>2, <1>9 DEF Used
      <4> QED BY <4>1, <1>8 DEF Inv, Table
    <3> QED BY <3>1, <3>2
  <2>4. ASSUME NEW q \in Up', NEW r \in Up', data'[q] = data'[r] PROVE q = r
    <3>1. (q = p \/ q \in Up) /\ (r = p \/ r \in Up)
      BY <1>9
    <3> QED BY <3>1, <2>4, <1>8, <1>10 DEF Inv, Table
  <2>5. num' = Cardinality(Used') /\ num' = Cardinality(Up') + 1
    <3>1. Cardinality(Used \cup {f}) = Cardinality(Used) + 1 /\ Cardinality(Up \cup {p}) = Cardinality(Up) + 1
      BY <1>3, <1>9, Finite, FS_AddElement DEF Inv
    <3>2. Cardinality(Up) \in Nat
      BY Finite, FS_CardinalityType DEF Inv
    <3> QED BY <3>1, <3>2, <1>1, <1>9 DEF Inv, Table
  <2>6. mask' \subseteq Used'
    BY <1>1, <1>9 DEF Inv, Table
  <2> QED BY <2>1, <2>2, <2>3, <2>4, <2>5, <2>6 DEF Table
<1>12. Places'
  <2>1. f # NoData
    BY <1>3, <1>2 DEF Id, NoData
  <2> QED BY <2>1, <1>8, <1>9, <1>10 DEF Inv, Places
<1>13. Links'
  <2> SUFFICES ASSUME NEW q \in Peer, who[q] # Nobody
               PROVE  /\ state'[q] # "free" /\ mine[who[q]] = q
                      /\ at[who[q]] = "ask" \/ (at[who[q]] = "in" /\ state'[q] = "up")
    BY <1>1 DEF Links
  <2>1. state[q] # "free" /\ mine[who[q]] = q /\ (at[who[q]] = "ask" \/ (at[who[q]] = "in" /\ state[q] = "up"))
    BY DEF Inv, Links
  <2> QED BY <2>1, <1>1, <1>8
<1>14. Messages'
  <2>1. \A q \in Peer : state'[q] # "up" => toHost'[q] = <<>> /\ toClient'[q] = <<>>
    BY <1>1, <1>8 DEF Inv, Messages
  <2>2. ASSUME NEW q \in Up', who'[q] # Nobody, at'[who'[q]] = "ask"
        PROVE  toClient'[q] # <<>> /\ toClient'[q][1].type = "ClientInit" /\ toClient'[q][1].id = data'[q]
    <3>1. CASE q = p
      BY <3>1, <1>6, <1>8
    <3>2. CASE q # p
      <4>1. q \in Up /\ toClient'[q] = toClient[q] /\ data'[q] = data[q]
        BY <3>2, <1>8, <1>9, <1>10
      <4> QED BY <4>1, <2>2, <1>1 DEF Inv, Messages
    <3> QED BY <3>1, <3>2
  <2>3. ASSUME NEW q \in Up', NEW k \in 1 .. Len(toHost'[q]), toHost'[q][k].type = "PlayerInfo"
        PROVE  toHost'[q][k].id = data'[q]
    <3>1. toHost[p] = <<>> /\ toHost' = toHost
      BY <1>1 DEF Inv, Messages
    <3>2. q # p
      BY <3>1
    <3>3. q \in Up /\ data'[q] = data[q]
      BY <3>2, <1>8, <1>9, <1>10
    <3> QED BY <3>1, <3>3, <2>3 DEF Inv, Messages
  <2>4. \A d \in Clients : at'[d] \in {"out", "ask"} => ~hostOn'[d] /\ ~on'[d]
    BY <1>1 DEF Inv, Messages
  <2> QED BY <2>1, <2>2, <2>3, <2>4 DEF Messages
<1>15. SameTables' = SameTables
  <2>1. /\ players[f].status # "Client" /\ players'[f].status # "Client"
        /\ \A i \in Id \ {f} : players'[i] = players[i]
    BY <1>3, <1>5, <1>8
  <2> HIDE DEF f
  <2>3. ASSUME NEW t \in [Id -> Player] PROVE Agrees(t)' <=> Agrees(t)
    <3>1. ASSUME Agrees(t), NEW i \in Id
          PROVE  IF players'[i].status = "Client" THEN t[i] = players'[i] ELSE t[i].status # "Client"
      BY <3>1, <2>1 DEF Agrees
    <3>2. ASSUME Agrees(t)', NEW i \in Id
          PROVE  IF players[i].status = "Client" THEN t[i] = players[i] ELSE t[i].status # "Client"
      <4>1. IF players'[i].status = "Client" THEN t[i] = players'[i] ELSE t[i].status # "Client"
        BY <3>2 DEF Agrees
      <4> QED BY <4>1, <2>1
    <3> QED BY <3>1, <3>2 DEF Agrees
  <2> QED BY <2>3 DEF SameTables
<1>16. Kept'
  <2> SUFFICES ASSUME NEW q \in Up', who[q] # Nobody PROVE (ListKept(q) /\ HostKept(q) /\ OnKept(q))'
    BY <1>1 DEF Kept
  <2>1. CASE q = p
    <3>1. players'[data'[q]].status = "Connecting" /\ who'[q] = who[q] /\ who[q] \in Clients
      BY <2>1, <1>1, <1>5, <1>8 DEF Inv, Types
    <3>2. ~hostOn'[who[q]] /\ ~on'[who[q]]
      <4>1. at[who[q]] = "ask"
        BY <2>1, <1>1 DEF Inv, Links
      <4> QED BY <4>1, <3>1, <1>1 DEF Inv, Messages
    <3>3. ListKept(q)'
      BY <3>1 DEF ListKept
    <3>4. Word(hostOn'[who'[q]]) \in HostWords(q)'
      BY <3>1, <3>2 DEF Word, HostWords, Powers
    <3>5. Told(<<>>, Powers, Word(hostOn'[who'[q]]), HostWords(q)')
      BY <3>4, ToldKnown
    <3>6. <<>> \in Seq(ToClient) /\ m.type \notin Powers /\ toClient'[q] = Append(<<>>, m)
      BY <2>1, <1>5, <1>6, <1>8 DEF Powers
    <3>7. HostKept(q)'
      <4>1. Told(Append(<<>>, m), Powers, Word(hostOn'[who'[q]]), HostWords(q)')
        BY <3>5, <3>6, <1>5, ToldPast
      <4> QED BY <4>1, <3>6 DEF HostKept
    <3>8. toHost'[q] = <<>>
      BY <2>1, <1>1 DEF Inv, Messages
    <3>9. data'[q] \notin mask'
      BY <2>1, <1>1, <1>3, <1>8 DEF Inv, Table
    <3>10. Word(data'[q] \in mask') = "PlayerDisconnect" /\ Word(on'[who'[q]]) = "PlayerDisconnect"
      BY <3>1, <3>2, <3>9 DEF Word
    <3>11. OnKept(q)'
      BY <3>8, <3>10, ToldKnown DEF OnKept
    <3> QED BY <3>3, <3>7, <3>11
  <2>2. CASE q # p
    <3>1. q \in Up /\ toClient'[q] = toClient[q] /\ data'[q] = data[q] /\ players'[data[q]] = players[data[q]]
      BY <2>2, <1>8, <1>9, <1>10
    <3>2. ListKept(q) /\ HostKept(q) /\ OnKept(q)
      BY <3>1 DEF Inv, Kept
    <3>3. HostWords(q)' = HostWords(q)
      BY <3>1, <1>1 DEF HostWords
    <3>4. ListKept(q)'
      BY <3>1, <3>2, <1>1, <1>15 DEF ListKept
    <3>5. HostKept(q)'
      BY <3>1, <3>2, <3>3, <1>1 DEF HostKept
    <3>6. OnKept(q)'
      BY <3>1, <3>2, <1>1 DEF OnKept
    <3> QED BY <3>4, <3>5, <3>6
  <2> QED BY <2>1, <2>2
<1> QED
  BY <1>7, <1>11, <1>12, <1>13, <1>14, <1>16 DEF Inv

\* The DISCONNECT event of a refused client, whose peer has no old pointer.
LEMMA RefusedGoneInv ==
  ASSUME Inv, NEW p \in Peer, HostDisconnect(p), state[p] # "up", ~strayed' PROVE Inv'
<1>1. /\ state[p] = "refused" /\ state' = [state EXCEPT ![p] = "free"]
      /\ who' = [who EXCEPT ![p] = Nobody] /\ toHost' = [toHost EXCEPT ![p] = <<>>]
      /\ UNCHANGED <<data, at, mine, id, list, hostOn, on>>
  BY DEF HostDisconnect, clientVars
<1>2. data[p] = NoData
  BY <1>1 DEF HostDisconnect
<1>3. toClient' = [toClient EXCEPT ![p] = <<>>] /\ UNCHANGED <<players, num, mask>>
  BY <1>2 DEF HostDisconnect, hostVars
<1>4. /\ state'[p] = "free" /\ who'[p] = Nobody /\ toHost'[p] = <<>> /\ toClient'[p] = <<>>
      /\ \A q \in Peer \ {p} : UNCHANGED <<state[q], who[q], toHost[q], toClient[q]>>
  BY <1>1, <1>3 DEF Inv, Types
<1>5. Up' = Up /\ Used' = Used /\ p \notin Up
  <2>1. Up' = Up /\ p \notin Up
    BY <1>1, <1>4 DEF Up
  <2> QED BY <2>1, <1>3 DEF Used
<1>6. Types'
  <2>1. <<>> \in Seq(ToHost) /\ <<>> \in Seq(ToClient)
    OBVIOUS
  <2> QED BY <2>1, <1>1, <1>3 DEF Inv, Types
<1>7. Table' /\ Places'
  BY <1>1, <1>3, <1>5 DEF Inv, Table, Places
<1>8. Links'
  BY <1>1, <1>4 DEF Inv, Links
<1>9. \A q \in Up : q \in Peer \ {p} /\ UNCHANGED <<state[q], who[q], toHost[q], toClient[q]>>
  BY <1>4, <1>5 DEF Up
<1>10. Messages'
  <2>1. \A q \in Peer : state'[q] # "up" => toHost'[q] = <<>> /\ toClient'[q] = <<>>
    BY <1>4 DEF Inv, Messages
  <2> QED BY <2>1, <1>1, <1>5, <1>9 DEF Inv, Messages
<1>11. Kept'
  <2> SUFFICES ASSUME NEW q \in Up, who'[q] # Nobody PROVE (ListKept(q) /\ HostKept(q) /\ OnKept(q))'
    BY <1>5 DEF Kept
  <2> QED BY <1>1, <1>3, <1>9, PeerStays
<1> QED
  BY <1>6, <1>7, <1>8, <1>10, <1>11 DEF Inv

\* A DISCONNECT event of a player: its entry is free again and the others are
\* told.
LEMMA PlayerGoneInv ==
  ASSUME Inv, NEW p \in Peer, HostDisconnect(p), state[p] = "up" PROVE Inv'
<1> DEFINE d == data[p]
           msg == PlayerList(players')
<1>1. /\ state' = [state EXCEPT ![p] = "free"]
      /\ who' = [who EXCEPT ![p] = Nobody] /\ toHost' = [toHost EXCEPT ![p] = <<>>]
      /\ UNCHANGED <<data, at, mine, id, list, hostOn, on>>
  BY DEF HostDisconnect, clientVars
<1>2. p \in Up /\ d # NoData /\ d \in Id \ {0} /\ d \in Used /\ players[d].id = d
  <2>1. p \in Up /\ d # NoData /\ d \in Id \ {0}
    BY DEF Inv, Types, Places, Up
  <2>2. d \in Used
    BY <2>1 DEF Inv, Table
  <2> QED BY <2>1, <2>2 DEF Inv, Table
<1>3. /\ mask' = mask \ {d} /\ players' = [players EXCEPT ![d] = NoPlayer] /\ num' = num - 1
      /\ toClient' = Broadcast([toClient EXCEPT ![p] = <<>>], msg, Up \ {p})
  BY <1>2 DEF HostDisconnect, Left, LeftTold
<1> HIDE DEF d
<1>4. players' \in [Id -> Player] /\ players'[d] = NoPlayer /\ \A i \in Id \ {d} : players'[i] = players[i]
  <2>1. NoPlayer \in Player
    BY PlayersAssumption DEF NoPlayer, Player, Id
  <2> QED BY <2>1, <1>2, <1>3 DEF Inv, Types
<1>5. msg \in ToClient /\ msg.type = "PlayerList" /\ Content(msg) = players'
  BY <1>4, Shapes
<1> HIDE DEF msg
<1>6. /\ toClient' \in [Peer -> Seq(ToClient)] /\ toClient'[p] = <<>>
      /\ \A q \in Peer \ {p} : toClient'[q] = IF q \in Up /\ who[q] # Nobody THEN Append(toClient[q], msg) ELSE toClient[q]
  <2> DEFINE chan == [toClient EXCEPT ![p] = <<>>]
             to == Up \ {p}
  <2>1. chan \in [Peer -> Seq(ToClient)] /\ chan[p] = <<>> /\ \A q \in Peer \ {p} : chan[q] = toClient[q]
    BY DEF Inv, Types
  <2>2. toClient' = Broadcast(chan, msg, to)
    BY <1>3
  <2> HIDE DEF chan, to
  <2>3. /\ toClient' \in [Peer -> Seq(ToClient)]
        /\ \A q \in Peer : toClient'[q] = IF q \in to /\ who[q] # Nobody THEN Append(chan[q], msg) ELSE chan[q]
    BY <2>1, <2>2, <1>5, Heard
  <2> QED BY <2>1, <2>3 DEF to
<1>7. /\ state'[p] = "free" /\ who'[p] = Nobody /\ toHost'[p] = <<>>
      /\ \A q \in Peer \ {p} : UNCHANGED <<state[q], who[q], toHost[q]>>
  BY <1>1 DEF Inv, Types
<1>8. Up' = Up \ {p} /\ Used' = Used \ {d}
  <2>1. Up' = Up \ {p}
    BY <1>7 DEF Up
  <2>2. NoPlayer.status = "None"
    BY DEF NoPlayer
  <2> QED BY <2>1, <2>2, <1>4 DEF Used
<1>9. \A q \in Up \ {p} : /\ q \in Peer \ {p} /\ data[q] \in Id \ {0, d} /\ data'[q] = data[q]
                         /\ players'[data[q]] = players[data[q]]
  <2>1. \A q \in Up : q \in Peer /\ data[q] \in Id \ {0}
    BY DEF Inv, Types, Places, Up
  <2>2. \A q \in Up \ {p} : data[q] # d
    BY <1>2 DEF Inv, Table, d
  <2> QED BY <2>1, <2>2, <1>1, <1>4
<1>10. Cardinality(Used') = num' /\ Cardinality(Up') + 1 = num' /\ num' \in 1..MaxPlayers
  <2>1. Cardinality(Used \ {d}) = Cardinality(Used) - 1 /\ Cardinality(Up \ {p}) = Cardinality(Up) - 1
    BY <1>2, Finite, FS_RemoveElement DEF Inv
  <2>2. Cardinality(Up \ {p}) \in Nat
    <3>1. IsFiniteSet(Up \ {p})
      BY Finite, FS_RemoveElement DEF Inv
    <3> QED BY <3>1, FS_CardinalityType
  <2>3. num = Cardinality(Used) /\ num = Cardinality(Up) + 1 /\ num \in 1..MaxPlayers
    BY DEF Inv, Types, Table
  <2>4. /\ Cardinality(Used') = Cardinality(Used) - 1 /\ Cardinality(Up') = Cardinality(Up) - 1
        /\ Cardinality(Up') \in Nat
    BY <2>1, <2>2, <1>8
  <2>5. num' = num - 1 /\ MaxPlayers \in Nat
    BY <1>3, PlayersAssumption
  <2>6. Cardinality(Up) \in Nat
    BY Finite, FS_CardinalityType DEF Inv
  <2>7. num \in Int /\ Cardinality(Up) = num - 1
    BY <2>3, <2>5, <2>6
  <2>8. Cardinality(Used') = num' /\ Cardinality(Up') + 1 = num'
    <3>1. Cardinality(Used') = num'
      BY <2>3, <2>4, <2>5
    <3>2. Cardinality(Up') = num - 2
      BY <2>4, <2>7
    <3>3. num' = num - 2 + 1
      BY <2>5, <2>7
    <3> QED BY <3>1, <3>2, <3>3
  <2>9. num' >= 1 /\ num' <= MaxPlayers /\ num' \in Int
    BY <2>3, <2>4, <2>5, <2>8
  <2> QED BY <2>5, <2>8, <2>9
<1>11. Types'
  <2>1. <<>> \in Seq(ToHost) /\ mask' \subseteq Id
    BY <1>3 DEF Inv, Types
  <2>2. who' \in [Peer -> Clients \cup {Nobody}] /\ toHost' \in [Peer -> Seq(ToHost)]
        /\ state' \in [Peer -> {"free", "asked", "up", "refused"}]
    BY <2>1, <1>1 DEF Inv, Types
  <2> QED BY <2>1, <2>2, <1>1, <1>4, <1>6, <1>10 DEF Inv, Types
<1>12. Table'
  <2>1. players'[0].status = "Host"
    BY <1>2, <1>4, PlayersAssumption DEF Inv, Table, Id
  <2>2. ASSUME NEW i \in Id PROVE i \in Used' <=> i = 0 \/ \E q \in Up' : data'[q] = i
    <3>1. i \in Used <=> i = 0 \/ \E q \in Up : data[q] = i
      BY DEF Inv, Table
    <3>2. CASE i = d
      BY <3>2, <1>2, <1>8, <1>9
    <3>3. CASE i # d
      <4>1. (\E q \in Up' : data'[q] = i) <=> (\E q \in Up : data[q] = i)
        BY <3>3, <1>8, <1>9 DEF d
      <4> QED BY <4>1, <3>1, <3>3, <1>8
    <3> QED BY <3>2, <3>3
  <2>3. \A i \in Used' : players'[i].id = i
    <3>1. \A i \in Used' : i \in Used /\ i \in Id \ {d}
      BY <1>8 DEF Used
    <3> QED BY <3>1, <1>4 DEF Inv, Table
  <2>4. \A q, r \in Up' : data'[q] = data'[r] => q = r
    BY <1>8, <1>9 DEF Inv, Table
  <2>5. mask' \subseteq Used'
    BY <1>3, <1>8 DEF Inv, Table
  <2> QED BY <2>1, <2>2, <2>3, <2>4, <2>5, <1>10 DEF Table
<1>13. Places'
  BY <1>1, <1>8 DEF Inv, Places
<1>14. Links'
  BY <1>1, <1>7 DEF Inv, Links
<1>15. ASSUME NEW q \in Up', who'[q] # Nobody
       PROVE  /\ q \in Up \ {p} /\ q \in Peer \ {p} /\ who'[q] = who[q] /\ who[q] # Nobody /\ toHost'[q] = toHost[q]
              /\ toClient[q] \in Seq(ToClient) /\ toClient'[q] = Append(toClient[q], msg)
  BY <1>15, <1>6, <1>7, <1>8, <1>9 DEF Inv, Types
<1>16. Messages'
  <2>1. \A q \in Peer : state'[q] # "up" => toHost'[q] = <<>> /\ toClient'[q] = <<>>
    BY <1>6, <1>7 DEF Inv, Messages, Up
  <2>2. ASSUME NEW q \in Up', who'[q] # Nobody, at'[who'[q]] = "ask"
        PROVE  toClient'[q] # <<>> /\ toClient'[q][1].type = "ClientInit" /\ toClient'[q][1].id = data'[q]
    <3>1. toClient[q] # <<>> /\ toClient[q][1].type = "ClientInit" /\ toClient[q][1].id = data[q]
      BY <2>2, <1>1, <1>15 DEF Inv, Messages
    <3>2. toClient'[q] # <<>> /\ toClient'[q][1] = toClient[q][1]
      BY <2>2, <3>1, <1>5, <1>15, FirstStays
    <3> QED BY <3>1, <3>2, <1>1
  <2>3. ASSUME NEW q \in Up', NEW k \in 1 .. Len(toHost'[q]), toHost'[q][k].type = "PlayerInfo"
        PROVE  toHost'[q][k].id = data'[q]
    <3>1. q \in Up /\ toHost'[q] = toHost[q] /\ data'[q] = data[q]
      BY <1>7, <1>8, <1>9
    <3> QED BY <3>1, <2>3 DEF Inv, Messages
  <2>4. \A c \in Clients : at'[c] \in {"out", "ask"} => ~hostOn'[c] /\ ~on'[c]
    BY <1>1 DEF Inv, Messages
  <2> QED BY <2>1, <2>2, <2>3, <2>4 DEF Messages
<1>17. players' \in SameTables'
  BY <1>4 DEF SameTables, Agrees
<1>18. (0 \in mask' <=> 0 \in mask) /\ \A q \in Up \ {p} : data'[q] \in mask' <=> data[q] \in mask
  BY <1>2, <1>3, <1>9
<1>19. Kept'
  <2> SUFFICES ASSUME NEW q \in Up', who'[q] # Nobody PROVE (ListKept(q) /\ HostKept(q) /\ OnKept(q))'
    BY DEF Kept
  <2>1. /\ q \in Up \ {p} /\ who'[q] = who[q] /\ who[q] # Nobody /\ toHost'[q] = toHost[q]
        /\ toClient[q] \in Seq(ToClient) /\ toClient'[q] = Append(toClient[q], msg)
    BY <1>15
  <2>2. ListKept(q) /\ HostKept(q) /\ OnKept(q)
    BY <2>1 DEF Inv, Kept
  <2>3. ListKept(q)'
    <3>1. msg.type \in {"PlayerList"} /\ Content(msg) \in SameTables'
      BY <1>5, <1>17
    <3>2. Told(toClient'[q], {"PlayerList"}, list'[who'[q]], SameTables')
      BY <3>1, <2>1, <1>5, ToldSent
    <3> QED BY <3>2 DEF ListKept
  <2>4. HostKept(q)'
    <3>1. msg.type \notin Powers
      BY <1>5 DEF Powers
    <3>2. HostWords(q)' = HostWords(q)
      BY <2>1, <1>9, <1>18 DEF HostWords
    <3>3. Told(toClient'[q], Powers, Word(hostOn[who[q]]), HostWords(q))
      BY <3>1, <2>1, <2>2, <1>5, ToldPast DEF HostKept
    <3> QED BY <3>2, <3>3, <2>1, <1>1 DEF HostKept
  <2>5. OnKept(q)'
    <3>1. Word(data'[q] \in mask') = Word(data[q] \in mask)
      BY <2>1, <1>18 DEF Word
    <3> QED BY <3>1, <2>1, <2>2, <1>1 DEF OnKept
  <2> QED BY <2>3, <2>4, <2>5
<1> QED
  BY <1>11, <1>12, <1>13, <1>14, <1>16, <1>19 DEF Inv

\* The first message of a connected peer, and the peer's entry.
LEMMA Incoming ==
  ASSUME Inv, NEW p \in Peer, HostReceive(p)
  PROVE  /\ p \in Up /\ data[p] # NoData /\ data[p] \in Id \ {0} /\ data[p] \in Used /\ players[data[p]].id = data[p]
         /\ toHost[p] \in Seq(ToHost) /\ toHost[p] # <<>> /\ Head(toHost[p]) \in ToHost
         /\ Head(toHost[p]).type = "PlayerInfo" => Head(toHost[p]).id = data[p]
         /\ Tail(toHost[p]) \in Seq(ToHost)
         /\ \A k \in 1 .. Len(Tail(toHost[p])) :
              Tail(toHost[p])[k].type = "PlayerInfo" => Tail(toHost[p])[k].id = data[p]
<1>1. p \in Up /\ data[p] # NoData /\ data[p] \in Id \ {0}
  BY DEF HostReceive, Inv, Types, Places, Up
<1>2. data[p] \in Used /\ players[data[p]].id = data[p]
  BY <1>1 DEF Inv, Table
<1> DEFINE s == toHost[p]
<1>3. s \in Seq(ToHost) /\ s # <<>>
  BY DEF HostReceive, Inv, Types
<1>4. \A k \in 1 .. Len(s) : s[k].type = "PlayerInfo" => s[k].id = data[p]
  BY <1>1 DEF Inv, Messages
<1> HIDE DEF s
<1>5. /\ Head(s) = s[1] /\ Head(s) \in ToHost /\ 1 \in 1 .. Len(s) /\ Tail(s) \in Seq(ToHost)
      /\ \A k \in 1 .. Len(Tail(s)) : Tail(s)[k] = s[k + 1] /\ k + 1 \in 1 .. Len(s)
  BY <1>3
<1>6. /\ s \in Seq(ToHost) /\ s # <<>> /\ Head(s) \in ToHost
      /\ Head(s).type = "PlayerInfo" => Head(s).id = data[p]
      /\ Tail(s) \in Seq(ToHost)
      /\ \A k \in 1 .. Len(Tail(s)) : Tail(s)[k].type = "PlayerInfo" => Tail(s)[k].id = data[p]
  BY <1>3, <1>4, <1>5
<1> QED
  BY <1>1, <1>2, <1>6 DEF s

\* A client's power.
LEMMA HearPowerInv ==
  ASSUME Inv, NEW p \in Peer, HostReceive(p), Head(toHost[p]).type # "PlayerInfo" PROVE Inv'
<1> DEFINE d == data[p]
           m == Head(toHost[p])
<1>1. /\ m.type \in Powers /\ mask' = (IF m.type = "PlayerConnect" THEN mask \cup {d} ELSE mask \ {d})
      /\ toHost' = [toHost EXCEPT ![p] = Tail(toHost[p])]
      /\ UNCHANGED <<players, num, state, toClient, who, data, at, mine, id, list, hostOn, on>>
  BY Incoming DEF HostReceive, clientVars, Powers
<1>2. /\ p \in Up /\ d \in Id \ {0} /\ d \in Used /\ toHost[p] \in Seq(ToHost) /\ toHost[p] # <<>> /\ m \in ToHost
      /\ Tail(toHost[p]) \in Seq(ToHost)
      /\ \A k \in 1 .. Len(Tail(toHost[p])) :
              Tail(toHost[p])[k].type = "PlayerInfo" => Tail(toHost[p])[k].id = d
  BY Incoming
<1> HIDE DEF d, m
<1>3. /\ Used \subseteq Id /\ mask' \subseteq Used /\ (d \in mask' <=> m.type = "PlayerConnect")
      /\ \A i \in Id \ {d} : i \in mask' <=> i \in mask
  <2>1. Used \subseteq Id /\ mask \subseteq Used
    BY DEF Inv, Table, Used
  <2>2. CASE m.type = "PlayerConnect"
    BY <2>1, <2>2, <1>1, <1>2
  <2>3. CASE m.type # "PlayerConnect"
    BY <2>1, <2>3, <1>1, <1>2
  <2> QED BY <2>2, <2>3
<1>4. toHost'[p] = Tail(toHost[p]) /\ \A q \in Peer \ {p} : toHost'[q] = toHost[q]
  BY <1>1 DEF Inv, Types
<1>5. Up' = Up /\ Used' = Used
  BY <1>1 DEF Up, Used
<1>6. Types'
  <2>1. mask' \subseteq Id /\ toHost' \in [Peer -> Seq(ToHost)]
    BY <1>1, <1>2, <1>3 DEF Inv, Types
  <2> QED BY <2>1, <1>1 DEF Inv, Types
<1>7. Table' /\ Places' /\ Links'
  <2>1. Table'
    BY <1>1, <1>3, <1>5 DEF Inv, Table
  <2> QED BY <2>1, <1>1, <1>5 DEF Inv, Places, Links
<1>8. Messages'
  <2>1. \A q \in Peer : state'[q] # "up" => toHost'[q] = <<>> /\ toClient'[q] = <<>>
    BY <1>1, <1>2, <1>4 DEF Inv, Messages, Up
  <2>2. ASSUME NEW q \in Up, NEW k \in 1 .. Len(toHost'[q]), toHost'[q][k].type = "PlayerInfo"
        PROVE  toHost'[q][k].id = data'[q]
    <3>1. CASE q = p
      BY <3>1, <2>2, <1>1, <1>2, <1>4 DEF d
    <3>2. CASE q # p
      <4>1. toHost'[q] = toHost[q]
        BY <3>2, <1>4 DEF Up
      <4> QED BY <4>1, <2>2, <1>1 DEF Inv, Messages
    <3> QED BY <3>1, <3>2
  <2> QED BY <2>1, <2>2, <1>1, <1>5 DEF Inv, Messages
<1>9. Kept'
  <2> SUFFICES ASSUME NEW q \in Up, who'[q] # Nobody PROVE (ListKept(q) /\ HostKept(q) /\ OnKept(q))'
    BY <1>5 DEF Kept
  <2>1. ListKept(q) /\ HostKept(q) /\ OnKept(q)
    BY <1>1 DEF Inv, Kept
  <2>2. ListKept(q)'
    <3>1. SameTables' = SameTables
      BY <1>1 DEF SameTables, Agrees
    <3> QED BY <3>1, <2>1, <1>1 DEF ListKept
  <2>3. HostKept(q)'
    <3>1. 0 \in mask' <=> 0 \in mask
      BY <1>2, <1>3, PlayersAssumption DEF Id
    <3>2. HostWords(q)' = HostWords(q)
      BY <3>1, <1>1 DEF HostWords
    <3> QED BY <3>2, <2>1, <1>1 DEF HostKept
  <2>4. OnKept(q)'
    <3>1. CASE q = p
      <4>1. Content(m) = m.type
        BY <1>1, <1>2, Shapes
      <4>2. Word(d \in mask') = m.type
        BY <1>1, <1>3 DEF Word, Powers
      <4>3. Told(toHost[p], Powers, Word(data[p] \in mask), {Word(on[who[p]])})
        BY <3>1, <2>1 DEF OnKept
      <4>4. Told(Tail(toHost[p]), Powers, Content(Head(toHost[p])), {Word(on[who[p]])})
        BY <4>3, <1>1, <1>2, ToldTaken DEF m
      <4>5. Told(toHost'[p], Powers, Word(data'[p] \in mask'), {Word(on'[who'[p]])})
        BY <4>1, <4>2, <4>4, <1>1, <1>4 DEF m, d
      <4> QED BY <3>1, <4>5 DEF OnKept
    <3>2. CASE q # p
      <4>1. q \in Peer \ {p} /\ data[q] \in Id \ {d}
        BY <3>2, <1>2 DEF Inv, Types, Table, Places, Up, d
      <4>2. Word(data'[q] \in mask') = Word(data[q] \in mask)
        BY <4>1, <1>1, <1>3 DEF Word
      <4> QED BY <4>1, <4>2, <2>1, <1>1, <1>4 DEF OnKept
    <3> QED BY <3>1, <3>2
  <2> QED BY <2>2, <2>3, <2>4
<1> QED
  BY <1>6, <1>7, <1>8, <1>9 DEF Inv

\* A client's PlayerInfo: it is accepted under its id, and everybody is told.
LEMMA HearInfoInv ==
  ASSUME Inv, NEW p \in Peer, HostReceive(p), Head(toHost[p]).type = "PlayerInfo" PROVE Inv'
<1> DEFINE d == data[p]
           m == Head(toHost[p])
           e == [id |-> m.id, status |-> "Client", address |-> m.address]
           msg == PlayerList(players')
           all == Broadcast(toClient, msg, Up)
<1>1. /\ p \in Up /\ d # NoData /\ d \in Id \ {0} /\ d \in Used /\ players[d].id = d
      /\ toHost[p] \in Seq(ToHost) /\ toHost[p] # <<>> /\ m \in ToHost /\ m.type = "PlayerInfo" /\ m.id = d
      /\ Tail(toHost[p]) \in Seq(ToHost)
      /\ \A k \in 1 .. Len(Tail(toHost[p])) :
              Tail(toHost[p])[k].type = "PlayerInfo" => Tail(toHost[p])[k].id = d
  BY Incoming
<1>2. HostPlayerInfo(p, m) /\ UNCHANGED <<who, data, at, mine, id, list, hostOn, on>>
  BY DEF HostReceive, clientVars
<1>3. /\ players' = [players EXCEPT ![d] = e]
      /\ toClient' = [all EXCEPT ![p] = all[p] \o CatchUp]
      /\ toHost' = [toHost EXCEPT ![p] = Tail(toHost[p])]
      /\ UNCHANGED <<num, mask, state>>
  BY <1>1, <1>2 DEF HostPlayerInfo
<1>4. e \in Player /\ e.status = "Client" /\ e.id = d
  BY <1>1, Shapes DEF Player
<1> HIDE DEF d, m, e
<1>5. players' \in [Id -> Player] /\ players'[d] = e /\ \A i \in Id \ {d} : players'[i] = players[i]
  BY <1>1, <1>3, <1>4 DEF Inv, Types
<1>6. msg \in ToClient /\ msg.type = "PlayerList" /\ Content(msg) = players'
  BY <1>5, Shapes
<1> HIDE DEF msg
<1>7. /\ all \in [Peer -> Seq(ToClient)]
      /\ \A q \in Peer : all[q] = IF q \in Up /\ who[q] # Nobody THEN Append(toClient[q], msg) ELSE toClient[q]
  <2>1. toClient \in [Peer -> Seq(ToClient)]
    BY DEF Inv, Types
  <2> QED BY <2>1, <1>6, Heard
<1> HIDE DEF all
<1>8. CatchUp \in Seq(ToClient) /\ all[p] \o CatchUp \in Seq(ToClient)
  <2>1. Cmd("PlayerConnect") \in ToClient
    BY Shapes DEF Powers
  <2>2. CatchUp \in Seq(ToClient)
    BY <2>1 DEF CatchUp
  <2> QED BY <2>2, <1>7
<1>9. /\ toClient' \in [Peer -> Seq(ToClient)] /\ toClient'[p] = all[p] \o CatchUp
      /\ \A q \in Peer \ {p} : toClient'[q] = all[q]
  BY <1>3, <1>7, <1>8
<1>10. toHost'[p] = Tail(toHost[p]) /\ \A q \in Peer \ {p} : toHost'[q] = toHost[q]
  BY <1>3 DEF Inv, Types
<1>11. Up' = Up /\ Used' = Used
  <2>1. players[d].status # "None"
    BY <1>1 DEF Used
  <2>2. Used' = Used
    BY <2>1, <1>1, <1>4, <1>5 DEF Used
  <2> QED BY <2>2, <1>3 DEF Up
<1>12. Types'
  <2>1. toHost' \in [Peer -> Seq(ToHost)]
    BY <1>1, <1>3 DEF Inv, Types
  <2> QED BY <2>1, <1>2, <1>3, <1>5, <1>9 DEF Inv, Types
<1>13. Table' /\ Places' /\ Links'
  <2>1. players'[0].status = "Host"
    BY <1>1, <1>5, PlayersAssumption DEF Inv, Table, Id
  <2>2. ASSUME NEW i \in Used PROVE players'[i].id = i
    <3>1. CASE i = d
      BY <3>1, <1>4, <1>5
    <3>2. CASE i # d
      BY <3>2, <1>5 DEF Inv, Table, Used
    <3> QED BY <3>1, <3>2
  <2>3. Table'
    BY <2>1, <2>2, <1>2, <1>3, <1>11 DEF Inv, Table
  <2> QED BY <2>3, <1>2, <1>3, <1>11 DEF Inv, Places, Links
<1>14. ASSUME NEW q \in Up, who[q] # Nobody
       PROVE  /\ q \in Peer /\ toClient[q] \in Seq(ToClient) /\ all[q] = Append(toClient[q], msg)
              /\ all[q] \in Seq(ToClient)
              /\ \/ toClient'[q] = all[q] /\ (q # p \/ 0 \notin mask)
                 \/ toClient'[q] = Append(all[q], Cmd("PlayerConnect")) /\ q = p /\ 0 \in mask
  <2>1. /\ q \in Peer /\ toClient[q] \in Seq(ToClient) /\ all[q] = Append(toClient[q], msg)
        /\ all[q] \in Seq(ToClient)
    BY <1>14, <1>7 DEF Inv, Types, Up
  <2>2. CASE q # p
    BY <2>1, <2>2, <1>9
  <2>3. CASE q = p /\ 0 \notin mask
    <3>1. all[p] \o <<>> = all[p]
      BY <2>1, <2>3
    <3> QED BY <2>1, <2>3, <3>1, <1>9 DEF CatchUp
  <2>4. CASE q = p /\ 0 \in mask
    <3>1. Cmd("PlayerConnect") \in ToClient
      BY Shapes DEF Powers
    <3>2. all[p] \o <<Cmd("PlayerConnect")>> = Append(all[p], Cmd("PlayerConnect"))
      BY <2>1, <2>4, <3>1
    <3> QED BY <2>1, <2>4, <3>2, <1>9 DEF CatchUp
  <2> QED BY <2>2, <2>3, <2>4
<1>15. Cmd("PlayerConnect") \in ToClient /\ Cmd("PlayerConnect").type = "PlayerConnect"
       /\ Content(Cmd("PlayerConnect")) = "PlayerConnect"
  BY Shapes DEF Powers
<1>16. Messages'
  <2>1. \A q \in Peer : state'[q] # "up" => toHost'[q] = <<>> /\ toClient'[q] = <<>>
    BY <1>1, <1>3, <1>7, <1>9, <1>10 DEF Inv, Messages, Up
  <2>2. ASSUME NEW q \in Up, who'[q] # Nobody, at'[who'[q]] = "ask"
        PROVE  toClient'[q] # <<>> /\ toClient'[q][1].type = "ClientInit" /\ toClient'[q][1].id = data'[q]
    <3>1. toClient[q] # <<>> /\ toClient[q][1].type = "ClientInit" /\ toClient[q][1].id = data[q] /\ who[q] # Nobody
      BY <2>2, <1>2 DEF Inv, Messages
    <3>2. /\ toClient[q] \in Seq(ToClient) /\ all[q] = Append(toClient[q], msg) /\ all[q] \in Seq(ToClient)
          /\ toClient'[q] = all[q] \/ toClient'[q] = Append(all[q], Cmd("PlayerConnect"))
      BY <3>1, <1>14
    <3>3. all[q] # <<>> /\ all[q][1] = toClient[q][1]
      BY <3>1, <3>2, <1>6, FirstStays
    <3>4. Append(all[q], Cmd("PlayerConnect")) # <<>> /\ Append(all[q], Cmd("PlayerConnect"))[1] = toClient[q][1]
      BY <3>2, <3>3, <1>15, FirstStays
    <3> QED BY <3>1, <3>2, <3>3, <3>4, <1>2
  <2>3. ASSUME NEW q \in Up, NEW k \in 1 .. Len(toHost'[q]), toHost'[q][k].type = "PlayerInfo"
        PROVE  toHost'[q][k].id = data'[q]
    <3>1. CASE q = p
      BY <3>1, <2>3, <1>1, <1>2, <1>10 DEF d
    <3>2. CASE q # p
      <4>1. toHost'[q] = toHost[q]
        BY <3>2, <1>10 DEF Up
      <4> QED BY <4>1, <2>3, <1>2 DEF Inv, Messages
    <3> QED BY <3>1, <3>2
  <2>4. \A c \in Clients : at'[c] \in {"out", "ask"} => ~hostOn'[c] /\ ~on'[c]
    BY <1>2 DEF Inv, Messages
  <2> QED BY <2>1, <2>2, <2>3, <2>4, <1>11 DEF Messages
<1>17. players' \in SameTables'
  BY <1>5 DEF SameTables, Agrees
<1>18. Kept'
  <2> SUFFICES ASSUME NEW q \in Up, who[q] # Nobody PROVE (ListKept(q) /\ HostKept(q) /\ OnKept(q))'
    BY <1>2, <1>11 DEF Kept
  <2>1. /\ q \in Peer /\ toClient[q] \in Seq(ToClient) /\ all[q] = Append(toClient[q], msg)
        /\ all[q] \in Seq(ToClient)
        /\ \/ toClient'[q] = all[q] /\ (q # p \/ 0 \notin mask)
           \/ toClient'[q] = Append(all[q], Cmd("PlayerConnect")) /\ q = p /\ 0 \in mask
    BY <1>14
  <2>2. ListKept(q) /\ HostKept(q) /\ OnKept(q)
    BY DEF Inv, Kept
  <2>3. ListKept(q)'
    <3>1. msg.type \in {"PlayerList"} /\ Content(msg) \in SameTables'
      BY <1>6, <1>17
    <3>2. Told(all[q], {"PlayerList"}, list'[who'[q]], SameTables')
      BY <3>1, <2>1, <1>6, ToldSent
    <3>3. Cmd("PlayerConnect").type \notin {"PlayerList"}
      BY <1>15
    <3>4. Told(Append(all[q], Cmd("PlayerConnect")), {"PlayerList"}, list'[who'[q]], SameTables')
      BY <3>2, <3>3, <2>1, <1>15, ToldPast
    <3> QED BY <3>2, <3>4, <2>1 DEF ListKept
  <2>4. HostKept(q)'
    <3>1. CASE toClient'[q] = all[q] /\ (q # p \/ 0 \notin mask)
      <4>1. msg.type \notin Powers
        BY <1>6 DEF Powers
      <4>2. Told(all[q], Powers, Word(hostOn[who[q]]), HostWords(q))
        BY <4>1, <2>1, <2>2, <1>6, ToldPast DEF HostKept
      <4>3. HostWords(q)' = HostWords(q)
        <5>1. CASE 0 \notin mask
          BY <5>1, <1>3 DEF HostWords
        <5>2. CASE q # p
          <6>1. data[q] \in Id \ {d}
            BY <5>2, <1>1 DEF Inv, Types, Table, Places, Up, d
          <6> QED BY <6>1, <1>2, <1>3, <1>5 DEF HostWords
        <5> QED BY <3>1, <5>1, <5>2
      <4> QED BY <3>1, <4>2, <4>3, <1>2 DEF HostKept
    <3>2. CASE toClient'[q] = Append(all[q], Cmd("PlayerConnect")) /\ q = p /\ 0 \in mask
      <4>1. "PlayerConnect" \in HostWords(q)'
        BY <3>2, <1>2, <1>3, <1>4, <1>5 DEF HostWords, d
      <4>2. Cmd("PlayerConnect").type \in Powers /\ Content(Cmd("PlayerConnect")) \in HostWords(q)'
        BY <4>1, <1>15 DEF Powers
      <4>3. Told(Append(all[q], Cmd("PlayerConnect")), Powers, Word(hostOn'[who'[q]]), HostWords(q)')
        BY <4>2, <2>1, <1>15, ToldSent
      <4> QED BY <3>2, <4>3 DEF HostKept
    <3> QED BY <2>1, <3>1, <3>2
  <2>5. OnKept(q)'
    <3>1. CASE q = p
      <4>1. m.type \notin Powers
        BY <1>1 DEF Powers
      <4>2. Told(toHost[p], Powers, Word(data[p] \in mask), {Word(on[who[p]])})
        BY <3>1, <2>2 DEF OnKept
      <4>3. Told(Tail(toHost[p]), Powers, Word(data[p] \in mask), {Word(on[who[p]])})
        BY <4>1, <4>2, <1>1, ToldSkipped DEF m
      <4> QED BY <3>1, <4>3, <1>2, <1>3, <1>10 DEF OnKept
    <3>2. CASE q # p
      BY <3>2, <2>1, <2>2, <1>2, <1>3, <1>10 DEF OnKept
    <3> QED BY <3>1, <3>2
  <2> QED BY <2>3, <2>4, <2>5
<1> QED
  BY <1>12, <1>13, <1>16, <1>18 DEF Inv

----------------------------------------------------------------------
(* The theorems.                                                           *)

\* Every step keeps the invariant, but for the end of a refused connection that
\* frees an entry.
LEMMA NextInv == ASSUME Inv, [Next]_vars, ~strayed' PROVE Inv'
<1>1. ASSUME NEW p \in Peer, HostStep(p) PROVE Inv'
  <2>1. CASE HostConnect(p)
    BY <2>1, RefuseInv, AcceptInv
  <2>2. CASE HostDisconnect(p)
    BY <2>2, RefusedGoneInv, PlayerGoneInv
  <2>3. CASE AskDropped(p)
    BY <2>3, AskDroppedInv
  <2>4. CASE HostReceive(p)
    BY <2>4, HearPowerInv, HearInfoInv
  <2> QED BY <1>1, <2>1, <2>2, <2>3, <2>4 DEF HostStep
<1>2. ASSUME NEW c \in Clients, ClientStep(c) PROVE Inv'
  BY <1>2, StartClientInv, JoinDoneInv, LeaveInv, ClientReceiveInv, ClientLostInv, ClientPowerInv DEF ClientStep
<1>3. CASE HostPower
  BY <1>3, HostPowerInv
<1>4. CASE UNCHANGED vars
  <2>1. Up' = Up /\ Used' = Used
    BY <1>4 DEF vars, Up, Used
  <2>2. Types'
    BY <1>4 DEF vars, Inv, Types
  <2>3. Table' /\ Places'
    BY <1>4, TableStays DEF vars
  <2>4. Links'
    BY <1>4 DEF vars, Inv, Links
  <2>5. Messages'
    BY <1>4, <2>1 DEF vars, Inv, Messages
  <2>6. Kept'
    <3> SUFFICES ASSUME NEW q \in Up, who[q] # Nobody PROVE (ListKept(q) /\ HostKept(q) /\ OnKept(q))'
      BY <1>4, <2>1 DEF Kept, vars
    <3> QED BY <1>4, PeerStays DEF vars
  <2> QED BY <2>2, <2>3, <2>4, <2>5, <2>6 DEF Inv
<1> QED
  BY <1>1, <1>2, <1>3, <1>4 DEF Next, Ended

\* What has strayed stays so.
LEMMA StrayedStays == ASSUME strayed, [Next]_vars PROVE strayed'
<1>1. ASSUME NEW p \in Peer, HostStep(p) PROVE strayed'
  BY <1>1 DEF HostStep, HostConnect, HostDisconnect, AskDropped, HostReceive, hist
<1>2. ASSUME NEW c \in Clients, ClientStep(c) PROVE strayed'
  BY <1>2 DEF ClientStep, StartClient, JoinDone, Leave, ClientReceive, ClientLost, ClientPower, hist
<1>3. CASE HostPower
  BY <1>3 DEF HostPower
<1>4. CASE UNCHANGED vars
  BY <1>4 DEF vars
<1> QED
  BY <1>1, <1>2, <1>3, <1>4 DEF Next, Ended

\* The invariant holds until an entry has been freed through an old pointer.
LEMMA Invariant == Spec => [](~strayed => Inv)
<1>1. (~strayed => Inv) /\ [Next]_vars => (~strayed => Inv)'
  BY NextInv, StrayedStays
<1>2. Init => (~strayed => Inv)
  BY InitInv
<1> QED BY <1>1, <1>2, PTL DEF Spec

\* num_players_ counts the entries in use and each connected peer has one of its
\* own, through joins, refusals, leaves and time-outs that overlap each other,
\* until a refused connection's end meets an old ev.peer->data: no other event
\* of the host does harm to the table (process_host_event).
THEOREM TableCorrect == Spec => []TableSound
<1>1. (~strayed => Inv) => TableSound
  <2> SUFFICES ASSUME Inv PROVE TypeOK /\ CountExact /\ OneOwner
    BY DEF TableSound
  <2>1. TypeOK
    BY DEF Inv, Types, TypeOK
  <2>2. CountExact
    BY DEF Inv, Table, CountExact, Used
  <2>3. \A p \in Up : data[p] \in Id \ {0} /\ data[p] \in Used
    BY DEF Inv, Types, Table, Places, Up
  <2>4. OneOwner
    BY <2>3 DEF Inv, Table, OneOwner, Used
  <2> QED BY <2>1, <2>2, <2>4
<1> QED BY <1>1, Invariant, PTL

\* An accepted client that no message is on its way to has the host's list of
\* players (host_update_player_list, process_client_event).
THEOREM ListsCorrect == Spec => []ListsAgree
<1>1. (~strayed => Inv) => ListsAgree
  <2> SUFFICES ASSUME Inv, ~strayed, NEW c \in Clients, Accepted(c), toClient[mine[c]] = <<>>, NEW i \in Id
               PROVE  /\ (players[i].status = "Client") = (list[c][i].status = "Client")
                      /\ players[i].status = "Client" => players[i] = list[c][i]
    BY DEF ListsAgree
  <2> DEFINE p == mine[c]
  <2>1. p \in Up /\ who[p] = c /\ who[p] # Nobody /\ players[data[p]].status = "Client"
    BY NobodyAssumption DEF Accepted, Linked, Inv, Types, Up
  <2>2. ListKept(p)
    BY <2>1 DEF Inv, Kept
  <2>3. Told(<<>>, {"PlayerList"}, list[c], SameTables)
    BY <2>1, <2>2 DEF ListKept
  <2>4. list[c] \in SameTables
    BY <2>3, ToldKnown
  <2>5. Agrees(list[c])
    BY <2>4 DEF SameTables
  <2>6. IF players[i].status = "Client" THEN list[c][i] = players[i] ELSE list[c][i].status # "Client"
    BY <2>5 DEF Agrees
  <2> QED BY <2>6
<1> QED BY <1>1, Invariant, PTL

\* Host and accepted client agree on whose radio is on once the messages have
\* arrived, for a late joiner and for an id used again too (begin, end,
\* CMD_PLAYER_CONNECT, CMD_PLAYER_DISCONNECT).
THEOREM PowerCorrect == Spec => []PowerAgrees
<1>1. (~strayed => Inv) => PowerAgrees
  <2> SUFFICES ASSUME Inv, ~strayed, NEW c \in Clients, Accepted(c)
               PROVE  /\ toClient[mine[c]] = <<>> => hostOn[c] = (0 \in mask)
                      /\ toHost[mine[c]] = <<>> => on[c] = (id[c] \in mask)
    BY DEF PowerAgrees
  <2> DEFINE p == mine[c]
  <2>1. p \in Up /\ who[p] = c /\ who[p] # Nobody /\ players[data[p]].status = "Client" /\ data[p] = id[c]
    BY NobodyAssumption DEF Accepted, Linked, Inv, Types, Up
  <2>2. HostKept(p) /\ OnKept(p)
    BY <2>1 DEF Inv, Kept
  <2>3. hostOn[c] \in BOOLEAN /\ on[c] \in BOOLEAN
    BY DEF Inv, Types
  <2>4. ASSUME toClient[p] = <<>> PROVE hostOn[c] = (0 \in mask)
    <3>1. Told(<<>>, Powers, Word(hostOn[c]), HostWords(p))
      BY <2>1, <2>2, <2>4 DEF HostKept
    <3>2. Word(hostOn[c]) \in HostWords(p)
      BY <3>1, ToldKnown
    <3>3. hostOn[c] <=> 0 \in mask
      BY <3>2, <2>1 DEF HostWords, Word
    <3> QED BY <3>3, <2>3
  <2>5. ASSUME toHost[p] = <<>> PROVE on[c] = (id[c] \in mask)
    <3>1. Told(<<>>, Powers, Word(data[p] \in mask), {Word(on[c])})
      BY <2>1, <2>2, <2>5 DEF OnKept
    <3>2. Word(data[p] \in mask) \in {Word(on[c])}
      BY <3>1, ToldKnown
    <3>3. on[c] <=> data[p] \in mask
      BY <3>2 DEF Word
    <3> QED BY <3>3, <2>1, <2>3
  <2> QED BY <2>4, <2>5
<1> QED BY <1>1, Invariant, PTL

\* The session never has more clients than it has room for (lan_mp.h:5-6) before
\* an entry is freed through an old pointer: nothing else overfills it.
THEOREM RoomCorrect == Spec => [](~strayed => ClientsFit)
<1>1. (~strayed => Inv) => (~strayed => ClientsFit)
  <2> SUFFICES ASSUME Inv PROVE ClientsFit
    OBVIOUS
  <2> DEFINE S == {c \in Clients : at[c] = "in" /\ Linked(c) /\ state[mine[c]] = "up"}
             f == [c \in S |-> mine[c]]
  <2>1. \A c \in S : mine[c] \in Up /\ who[mine[c]] = c
    BY DEF Linked, Up, Inv, Types
  <2>2. f \in Injection(S, Up)
    <3>1. f \in [S -> Up]
      BY <2>1
    <3>2. \A c, d \in S : f[c] = f[d] => c = d
      BY <2>1
    <3> QED BY <3>1, <3>2 DEF Injection, IsInjective
  <2>3. IsFiniteSet(Up) /\ Cardinality(Up) \in Nat
    BY Finite, FS_CardinalityType DEF Inv
  <2>4. IsFiniteSet(S) /\ Cardinality(S) <= Cardinality(Up)
    <3> HIDE DEF S, f
    <3> QED BY <2>2, <2>3, FS_Injection
  <2>5. Cardinality(S) \in Nat
    BY <2>4, FS_CardinalityType
  <2>6. Cardinality(Up) + 1 <= MaxPlayers /\ MaxPlayers \in Nat
    BY PlayersAssumption DEF Inv, Types, Table
  <2>7. Cardinality(S) < MaxPlayers
    <3> HIDE DEF S
    <3> QED BY <2>3, <2>4, <2>5, <2>6
  <2> QED BY <2>7 DEF ClientsFit
<1> QED BY <1>1, Invariant, PTL
======================================================================

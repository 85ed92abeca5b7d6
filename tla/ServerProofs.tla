----------------------------- MODULE ServerProofs -----------------------------
(***************************************************************************)
(* Proofs about Server, for every number of connections, codes, rooms and  *)
(* players: seat, registered session and connected flag agree, whatever    *)
(* connections come and go, and every room is kept to Roster.              *)
(***************************************************************************)
EXTENDS Server, WellFoundedInduction, TLAPS

-----------------------------------------------------------------------------
(* The inductive invariant.  That a vacated seat was a connected player's   *)
(* and that a room that goes away leaves nobody behind is SeatsAgree; that  *)
(* a newcomer's id is nobody's and a room's host is there is RoomOK.        *)
Rooms ==
  [players : SUBSET PlayerIds, connected : SUBSET PlayerIds,
   next_player_id : 1..(MaxId + 1), host_id : PlayerIds \cup {NoPlayer},
   state : {"Lobby", "Game"}]

RoomOK(r) ==
  /\ r \in Rooms
  /\ r.connected \subseteq r.players
  /\ \A p \in r.players : p < r.next_player_id
  /\ r.state = "Lobby" => r.players = r.connected
  /\ r # NoRoom => r.host_id \in r.connected

TypesOK ==
  /\ status \in [Sessions -> {"none", "open", "closing"}]
  /\ room_code \in [Sessions -> Codes \cup {NoCode}]
  /\ player_id \in [Sessions -> PlayerIds \cup {NoPlayer}]
  /\ rooms \in [Codes -> Rooms]
  /\ seats \in [Codes -> [PlayerIds -> Sessions \cup {NoSession}]]
  /\ serial \in [Codes -> Nat] /\ joined \in [Sessions -> Nat]
  /\ tokens \subseteq [code : Codes, serial : Nat, id : PlayerIds]
  /\ created \in Nat /\ evicted \in BOOLEAN

(* Who speaks for a room speaks for a player of it, on a connection. *)
BindingOK ==
  \A s \in Sessions :
    room_code[s] # NoCode => player_id[s] \in PlayerIds /\ status[s] # "none"

(* Only a rejoin closes a connection. *)
KeptOK ==
  ~evicted => SeatKept /\ \A s \in Sessions : status[s] # "closing"

ServerInv ==
  /\ TypesOK
  /\ \A c \in Codes : RoomOK(rooms[c])
  /\ BindingOK
  /\ SeatsAgree
  /\ KeptOK

-----------------------------------------------------------------------------
(* What Roster's operators make of a room. *)

(* The least member of a non-empty set of player ids is in the set. *)
LEMMA MinMember ==
  ASSUME NEW S \in SUBSET Nat, S # {}
  PROVE  R!Min(S) \in S
<1>1. \E less : /\ IsWellFoundedOn(less, Nat)
               /\ \A a, b \in Nat : a < b => <<a, b>> \in less
  <2>1. \A a, b \in Nat : a < b => <<a, b>> \in OpToRel(<, Nat)
    BY DEF OpToRel
  <2>2. QED  BY <2>1, NatLessThanWellFounded
<1>2. PICK less : /\ IsWellFoundedOn(less, Nat)
                  /\ \A a, b \in Nat : a < b => <<a, b>> \in less
  BY <1>1
<1>3. PICK x \in S : \A y \in S : ~(<<y, x>> \in less)
  <2>1. IsWellFoundedOn(less, Nat) /\ S \subseteq Nat  BY <1>2
  <2>2. QED  BY ONLY <2>1, S # {}, WFMin
<1>4. ASSUME NEW y \in S  PROVE  x =< y
  <2>1. x \in Nat /\ y \in Nat  OBVIOUS
  <2>2. ~(y < x)  BY <1>2, <1>3, <2>1
  <2>3. QED  BY <2>1, <2>2
<1>5. QED  BY <1>4 DEF R!Min

(* A code stands for a room exactly while somebody is connected to it. *)
LEMMA RoomExists ==
  ASSUME NEW r, RoomOK(r)
  PROVE  r = NoRoom <=> r.connected = {}
BY DEF RoomOK, NoRoom, R!NoRoom

(* No room is a sound room, with nobody in it. *)
LEMMA NoRoomOK == RoomOK(NoRoom) /\ NoRoom.connected = {}
BY ServerAssumption DEF RoomOK, Rooms, NoRoom, NoPlayer, PlayerIds, R!NoRoom, R!NoPlayer

(* A new room is sound, with its creator in it. *)
LEMMA FreshOK == RoomOK(R!FreshRoom) /\ R!FreshRoom.connected = {1}
BY ServerAssumption DEF RoomOK, Rooms, NoPlayer, PlayerIds, R!FreshRoom

(* A newcomer gets an id nobody in the room has, and is connected. *)
LEMMA JoinedOK ==
  ASSUME NEW r, RoomOK(r), r # NoRoom, R!MayJoin(r)
  PROVE  /\ RoomOK(R!Joined(r))
         /\ r.next_player_id \in PlayerIds /\ r.next_player_id \notin r.players
         /\ R!Joined(r).connected = r.connected \cup {r.next_player_id}
<1> DEFINE n == r.next_player_id
           q == R!Joined(r)
<1>1. /\ r \in Rooms /\ n \in PlayerIds /\ n \notin r.players
      /\ r.host_id \in r.connected
  BY ServerAssumption DEF RoomOK, Rooms, PlayerIds, R!MayJoin
<1>2. /\ q \in Rooms /\ q.players = r.players \cup {n}
      /\ q.connected = r.connected \cup {n} /\ q.next_player_id = n + 1
      /\ q.host_id = r.host_id /\ q.state = r.state
  <2> DEFINE ps == r.players \cup {n}
             cs == r.connected \cup {n}
             m == n + 1
  <2>1. /\ ps \in SUBSET PlayerIds /\ cs \in SUBSET PlayerIds
        /\ m \in 1..(MaxId + 1)
    BY <1>1, ServerAssumption DEF Rooms, PlayerIds
  <2>2. q = [r EXCEPT !.players = ps, !.connected = cs, !.next_player_id = m]
    BY <1>1 DEF Rooms, R!Joined
  <2> HIDE DEF q, ps, cs, m
  <2>3. /\ q \in Rooms /\ q.players = ps /\ q.connected = cs
        /\ q.next_player_id = m /\ q.host_id = r.host_id /\ q.state = r.state
    BY <1>1, <2>1, <2>2 DEF Rooms
  <2>4. QED  BY <2>3 DEF ps, cs, m
<1>3. \A p \in q.players : p < q.next_player_id
  BY <1>1, <1>2, ServerAssumption DEF RoomOK, Rooms, PlayerIds
<1>4. RoomOK(q)
  <2> HIDE DEF q, n
  <2>1. QED  BY <1>1, <1>2, <1>3 DEF RoomOK
<1>5. QED  BY <1>1, <1>2, <1>4

(* A player of the room who comes back is connected. *)
LEMMA ReconnectedOK ==
  ASSUME NEW r, RoomOK(r), r # NoRoom, NEW p \in r.players
  PROVE  /\ RoomOK(R!Reconnected(r, p))
         /\ R!Reconnected(r, p).connected = r.connected \cup {p}
<1> DEFINE q == R!Reconnected(r, p)
<1>1. /\ q \in Rooms /\ q.players = r.players
      /\ q.connected = r.connected \cup {p}
      /\ q.next_player_id = r.next_player_id
      /\ q.host_id = r.host_id /\ q.state = r.state
  BY DEF RoomOK, Rooms, R!Reconnected
<1> HIDE DEF q
<1>2. RoomOK(q)  BY <1>1 DEF RoomOK
<1>3. QED  BY <1>1, <1>2 DEF q

(* The start and the restart of a game leave everybody connected. *)
LEMMA GameOK ==
  ASSUME NEW r, RoomOK(r), r # NoRoom
  PROVE  /\ RoomOK(R!Started(r)) /\ R!Started(r).connected = r.connected
         /\ RoomOK(R!Restarted(r)) /\ R!Restarted(r).connected = r.connected
<1>1. RoomOK(R!Started(r)) /\ R!Started(r).connected = r.connected
  BY DEF RoomOK, Rooms, R!Started
<1>2. RoomOK(R!Restarted(r)) /\ R!Restarted(r).connected = r.connected
  BY DEF RoomOK, Rooms, R!Restarted
<1>3. QED  BY <1>1, <1>2

(* Whoever leaves is not connected any more, the others are, one of them is *)
(* the host, and the room goes with the last of them.                       *)
LEMMA LeftOK ==
  ASSUME NEW r, RoomOK(r), r # NoRoom, NEW p \in PlayerIds
  PROVE  LET q == R!KeptIfOccupied(R!Disconnected(r, p))
         IN  RoomOK(q) /\ q.connected = r.connected \ {p}
<1> DEFINE left == r.connected \ {p}
           d == R!Disconnected(r, p)
<1>1. /\ r \in Rooms /\ r.connected \subseteq r.players
      /\ r.host_id \in r.connected
  BY DEF RoomOK
<1>2. CASE left = {}
  <2>1. d.connected = {}  BY <1>1, <1>2 DEF Rooms, R!Disconnected
  <2>2. R!KeptIfOccupied(d) = NoRoom  BY <2>1 DEF R!KeptIfOccupied, NoRoom
  <2>3. QED  BY <1>2, <2>2, NoRoomOK
<1>3. CASE left # {}
  <2> DEFINE h == IF r.host_id = p THEN R!First(left) ELSE r.host_id
  <2>1. h \in left
    <3>1. left \in SUBSET Nat  BY <1>1, ServerAssumption DEF Rooms, PlayerIds
    <3>2. R!Min(left) \in left  BY ONLY <3>1, <1>3, MinMember
    <3>3. R!First(left) \in left  BY <1>3, <3>2 DEF R!First
    <3>4. QED  BY <1>1, <3>3
  <2>2. /\ d \in Rooms /\ d.connected = left /\ d.host_id = h
        /\ d.players = (IF r.state = "Lobby" THEN r.players \ {p} ELSE r.players)
        /\ d.next_player_id = r.next_player_id /\ d.state = r.state
    <3>1. h \in PlayerIds  BY <1>1, <2>1 DEF Rooms
    <3> HIDE DEF h
    <3>2. d = [r EXCEPT !.connected = left,
                 !.players = IF r.state = "Lobby" THEN r.players \ {p} ELSE r.players,
                 !.host_id = h]
      BY <1>1 DEF Rooms, R!Disconnected, h
    <3> HIDE DEF d
    <3>3. QED  BY <1>1, <3>1, <3>2 DEF Rooms
  <2> HIDE DEF d, h
  <2>3. R!KeptIfOccupied(d) = d  BY <2>2, <1>3 DEF R!KeptIfOccupied
  <2>4. RoomOK(d)  BY <1>1, <2>1, <2>2 DEF RoomOK
  <2>5. QED  BY <2>2, <2>3, <2>4 DEF d
<1>4. QED  BY <1>2, <1>3

-----------------------------------------------------------------------------
(* The steps.  Each one changes at most one room, one seat of it and the    *)
(* binding of one session; the others' seats stay theirs because a session  *)
(* has one binding and a seat one session.                                  *)

(* The server starts with nobody in it. *)
LEMMA InitServer == Init => ServerInv
<1> SUFFICES ASSUME Init  PROVE  ServerInv
  OBVIOUS
<1>1. NoRoom \in Rooms /\ RoomOK(NoRoom) /\ NoRoom.connected = {}
  BY NoRoomOK DEF RoomOK
<1>2. TypesOK
  <2>1. EmptySeats \in [PlayerIds -> Sessions \cup {NoSession}]
    BY DEF EmptySeats
  <2>2. QED  BY <1>1, <2>1 DEF Init, TypesOK
<1>3. \A c \in Codes : RoomOK(rooms[c])
  BY <1>1 DEF Init
<1>4. BindingOK /\ KeptOK
  BY DEF Init, BindingOK, KeptOK, SeatKept
<1>5. SeatsAgree
  BY <1>1 DEF Init, SeatsAgree, EmptySeats
<1>6. QED  BY <1>2, <1>3, <1>4, <1>5 DEF ServerInv

(* A new connection has no binding. *)
LEMMA AcceptServer ==
  ASSUME ServerInv, NEW s \in Sessions, Accept(s)
  PROVE  ServerInv'
<1>1. TypesOK'  BY DEF ServerInv, TypesOK, Accept
<1>2. (\A c \in Codes : RoomOK(rooms[c]))'
  BY DEF ServerInv, Accept, RoomOK
<1>3. BindingOK'
  BY DEF ServerInv, TypesOK, BindingOK, Accept
<1>4. SeatsAgree'
  BY DEF ServerInv, TypesOK, SeatsAgree, Accept
<1>5. KeptOK'
  <2> SUFFICES ASSUME ~evicted'
               PROVE  (SeatKept /\ \A x \in Sessions : status[x] # "closing")'
    BY DEF KeptOK
  <2>1. ~evicted /\ SeatKept /\ \A x \in Sessions : status[x] # "closing"
    BY DEF Accept, ServerInv, KeptOK
  <2>2. room_code[s] = NoCode
    BY DEF ServerInv, BindingOK, Accept
  <2>3. QED  BY <2>1, <2>2 DEF ServerInv, TypesOK, Accept, SeatKept, Exists
<1>6. QED  BY <1>1, <1>2, <1>3, <1>4, <1>5 DEF ServerInv

(* A room and its first player: nobody was registered under a free code. *)
LEMMA CreateServer ==
  ASSUME ServerInv, NEW s \in Sessions, HandleCreateRoom(s)
  PROVE  ServerInv'
<1>1. PICK c \in Codes :
        /\ ~Exists(c)
        /\ rooms' = [rooms EXCEPT ![c] = R!FreshRoom]
        /\ seats' = [seats EXCEPT ![c] = [EmptySeats EXCEPT ![1] = s]]
        /\ serial' = [serial EXCEPT ![c] = created + 1]
        /\ Bind(s, c, 1, created + 1)
        /\ Issue(c, created + 1, 1)
  BY DEF HandleCreateRoom
<1>2. /\ Unbound(s) /\ created' = created + 1 /\ UNCHANGED <<status, evicted>>
  BY DEF HandleCreateRoom
<1> DEFINE first == [EmptySeats EXCEPT ![1] = s]
<1>3. /\ 1 \in PlayerIds /\ first \in [PlayerIds -> Sessions \cup {NoSession}]
      /\ first[1] = s /\ \A p \in PlayerIds : p # 1 => first[p] = NoSession
  BY ServerAssumption DEF PlayerIds, EmptySeats
<1>4. TypesOK /\ SeatsAgree /\ BindingOK /\ KeptOK /\ \A d \in Codes : RoomOK(rooms[d])
  BY DEF ServerInv
<1>5. R!FreshRoom \in Rooms /\ RoomOK(R!FreshRoom) /\ R!FreshRoom.connected = {1}
      /\ R!FreshRoom # NoRoom
  BY FreshOK, NoRoomOK DEF RoomOK
<1>6. s \in Sessions /\ s # NoSession /\ c # NoCode
  BY NamesAssumption DEF NoSession, NoCode
<1> HIDE DEF first
<1>7. seats' = [seats EXCEPT ![c] = first]  BY <1>1 DEF first
<1>8. TypesOK'
  <2>1. /\ rooms' \in [Codes -> Rooms]
        /\ seats' \in [Codes -> [PlayerIds -> Sessions \cup {NoSession}]]
    BY <1>1, <1>3, <1>4, <1>5, <1>7 DEF TypesOK
  <2>2. /\ serial' \in [Codes -> Nat] /\ joined' \in [Sessions -> Nat]
        /\ created' \in Nat /\ evicted' \in BOOLEAN
        /\ status' \in [Sessions -> {"none", "open", "closing"}]
    BY <1>1, <1>2, <1>4 DEF TypesOK, Bind
  <2>3. /\ room_code' \in [Sessions -> Codes \cup {NoCode}]
        /\ player_id' \in [Sessions -> PlayerIds \cup {NoPlayer}]
    BY <1>1, <1>3, <1>4 DEF TypesOK, Bind
  <2>4. tokens' \subseteq [code : Codes, serial : Nat, id : PlayerIds]
    BY <1>1, <1>3, <1>4 DEF TypesOK, Issue
  <2>5. QED  BY <2>1, <2>2, <2>3, <2>4 DEF TypesOK
<1>9. (\A d \in Codes : RoomOK(rooms[d]))'
  <2>1. \A d \in Codes : RoomOK(rooms'[d])
    BY <1>1, <1>4, <1>5 DEF TypesOK
  <2>2. QED  BY <2>1 DEF RoomOK
<1>10. BindingOK'
  BY <1>1, <1>2, <1>3, <1>4 DEF TypesOK, BindingOK, Bind, Unbound
<1>11. SeatsAgree'
  <2> SUFFICES ASSUME NEW d \in Codes, NEW p \in PlayerIds
               PROVE  /\ p \in rooms'[d].connected <=> seats'[d][p] # NoSession
                      /\ seats'[d][p] # NoSession =>
                           LET x == seats'[d][p]
                           IN  status'[x] = "open" /\ room_code'[x] = d
                                 /\ player_id'[x] = p /\ joined'[x] = serial'[d]
    BY DEF SeatsAgree
  <2>1. CASE d = c
    BY <2>1, <1>1, <1>2, <1>3, <1>4, <1>5, <1>6, <1>7 DEF TypesOK, Bind, Unbound
  <2>2. CASE d # c
    <3>1. /\ rooms'[d] = rooms[d] /\ seats'[d] = seats[d] /\ serial'[d] = serial[d]
      BY <2>2, <1>1, <1>4, <1>7 DEF TypesOK
    <3>2. seats[d][p] \in Sessions \cup {NoSession}  BY <1>4 DEF TypesOK
    <3>3. seats[d][p] # s
      BY <1>2, <1>4, <1>6, NamesAssumption DEF SeatsAgree, Unbound, NoCode
    <3>4. QED
      BY <3>1, <3>2, <3>3, <1>1, <1>2, <1>4 DEF TypesOK, SeatsAgree, Bind
  <2>3. QED  BY <2>1, <2>2
<1>12. KeptOK'
  <2> SUFFICES ASSUME ~evicted'
               PROVE  (SeatKept /\ \A x \in Sessions : status[x] # "closing")'
    BY DEF KeptOK
  <2>1. ~evicted /\ SeatKept /\ \A x \in Sessions : status[x] # "closing"
    BY <1>2, <1>4 DEF KeptOK
  <2>2. ASSUME NEW x \in Sessions, status'[x] = "open", room_code'[x] # NoCode
        PROVE  /\ seats'[room_code'[x]][player_id'[x]] = x
               /\ rooms'[room_code'[x]] # NoRoom
               /\ serial'[room_code'[x]] = joined'[x]
    <3>1. CASE x = s
      BY <3>1, <1>1, <1>3, <1>4, <1>5, <1>7 DEF TypesOK, Bind
    <3>2. CASE x # s
      <4>1. /\ room_code'[x] = room_code[x] /\ player_id'[x] = player_id[x]
            /\ joined'[x] = joined[x] /\ status[x] = "open"
        BY <3>2, <2>2, <1>1, <1>2, <1>4 DEF TypesOK, Bind
      <4>2. /\ seats[room_code[x]][player_id[x]] = x /\ Exists(room_code[x])
            /\ serial[room_code[x]] = joined[x]
        BY <4>1, <2>1, <2>2 DEF SeatKept
      <4>3. room_code[x] \in Codes /\ room_code[x] # c
        BY <4>1, <4>2, <2>2, <1>1, <1>4 DEF TypesOK
      <4>4. QED  BY <4>1, <4>2, <4>3, <1>1, <1>4, <1>7 DEF TypesOK, Exists
    <3>3. QED  BY <3>1, <3>2
  <2>3. QED  BY <2>1, <2>2, <1>2 DEF SeatKept, Exists
<1>13. QED  BY <1>8, <1>9, <1>10, <1>11, <1>12 DEF ServerInv

(* A newcomer takes a seat nobody has. *)
LEMMA JoinServer ==
  ASSUME ServerInv, NEW s \in Sessions, NEW c \in Codes, HandleJoinRoom(s, c)
  PROVE  ServerInv'
<1> DEFINE n == rooms[c].next_player_id
           q == R!Joined(rooms[c])
<1>1. /\ TypesOK /\ SeatsAgree /\ BindingOK /\ KeptOK
      /\ \A d \in Codes : RoomOK(rooms[d])
  BY DEF ServerInv
<1>2. /\ Unbound(s) /\ Exists(c) /\ R!MayJoin(rooms[c])
      /\ rooms' = [rooms EXCEPT ![c] = q]
      /\ seats' = [seats EXCEPT ![c][n] = s]
      /\ Bind(s, c, n, serial[c]) /\ Issue(c, serial[c], n)
      /\ UNCHANGED <<status, serial, created, evicted>>
  BY <1>1 DEF HandleJoinRoom, TypesOK
<1>3. /\ RoomOK(q) /\ n \in PlayerIds /\ n \notin rooms[c].players
      /\ q.connected = rooms[c].connected \cup {n}
  BY <1>1, <1>2, JoinedOK DEF Exists
<1>4. q \in Rooms /\ q # NoRoom
  BY <1>3, NoRoomOK DEF RoomOK
<1> HIDE DEF n, q
<1>5. s # NoSession /\ c # NoCode
  BY NamesAssumption DEF NoSession, NoCode
<1>6. n \notin rooms[c].connected /\ seats[c][n] = NoSession
  BY <1>1, <1>3 DEF RoomOK, SeatsAgree
<1>7. TypesOK'
  <2>1. /\ rooms' \in [Codes -> Rooms]
        /\ seats' \in [Codes -> [PlayerIds -> Sessions \cup {NoSession}]]
    BY <1>1, <1>2, <1>3, <1>4 DEF TypesOK
  <2>2. /\ serial' \in [Codes -> Nat] /\ joined' \in [Sessions -> Nat]
        /\ created' \in Nat /\ evicted' \in BOOLEAN
        /\ status' \in [Sessions -> {"none", "open", "closing"}]
    BY <1>1, <1>2 DEF TypesOK, Bind
  <2>3. /\ room_code' \in [Sessions -> Codes \cup {NoCode}]
        /\ player_id' \in [Sessions -> PlayerIds \cup {NoPlayer}]
    BY <1>1, <1>2, <1>3 DEF TypesOK, Bind
  <2>4. tokens' \subseteq [code : Codes, serial : Nat, id : PlayerIds]
    BY <1>1, <1>2, <1>3 DEF TypesOK, Issue
  <2>5. QED  BY <2>1, <2>2, <2>3, <2>4 DEF TypesOK
<1>8. (\A d \in Codes : RoomOK(rooms[d]))'
  <2>1. \A d \in Codes : RoomOK(rooms'[d])
    BY <1>1, <1>2, <1>3 DEF TypesOK
  <2>2. QED  BY <2>1 DEF RoomOK
<1>9. BindingOK'
  BY <1>1, <1>2, <1>3 DEF TypesOK, BindingOK, Bind, Unbound
<1>10. SeatsAgree'
  <2> SUFFICES ASSUME NEW d \in Codes, NEW p \in PlayerIds
               PROVE  /\ p \in rooms'[d].connected <=> seats'[d][p] # NoSession
                      /\ seats'[d][p] # NoSession =>
                           LET x == seats'[d][p]
                           IN  status'[x] = "open" /\ room_code'[x] = d
                                 /\ player_id'[x] = p /\ joined'[x] = serial'[d]
    BY DEF SeatsAgree
  <2>1. /\ rooms'[d].connected
             = (IF d = c THEN rooms[c].connected \cup {n} ELSE rooms[d].connected)
        /\ seats'[d][p] = (IF d = c /\ p = n THEN s ELSE seats[d][p])
        /\ serial'[d] = serial[d]
    BY <1>1, <1>2, <1>3 DEF TypesOK
  <2>2. CASE d = c /\ p = n
    BY <2>1, <2>2, <1>1, <1>2, <1>5 DEF TypesOK, Bind, Unbound
  <2>3. CASE ~(d = c /\ p = n)
    <3>1. seats[d][p] \in Sessions \cup {NoSession}  BY <1>1 DEF TypesOK
    <3>2. seats[d][p] # s
      BY <1>1, <1>2, <1>5, NamesAssumption DEF SeatsAgree, Unbound, NoCode
    <3>3. QED
      BY <2>1, <2>3, <3>1, <3>2, <1>1, <1>2 DEF TypesOK, SeatsAgree, Bind
  <2>4. QED  BY <2>2, <2>3
<1>11. KeptOK'
  <2> SUFFICES ASSUME ~evicted'
               PROVE  (SeatKept /\ \A x \in Sessions : status[x] # "closing")'
    BY DEF KeptOK
  <2>1. ~evicted /\ SeatKept /\ \A x \in Sessions : status[x] # "closing"
    BY <1>1, <1>2 DEF KeptOK
  <2>2. ASSUME NEW x \in Sessions, status'[x] = "open", room_code'[x] # NoCode
        PROVE  /\ seats'[room_code'[x]][player_id'[x]] = x
               /\ rooms'[room_code'[x]] # NoRoom
               /\ serial'[room_code'[x]] = joined'[x]
    <3>1. CASE x = s
      BY <3>1, <1>1, <1>2, <1>3, <1>4 DEF TypesOK, Bind
    <3>2. CASE x # s
      <4>1. /\ room_code'[x] = room_code[x] /\ player_id'[x] = player_id[x]
            /\ joined'[x] = joined[x] /\ status[x] = "open"
        BY <3>2, <2>2, <1>1, <1>2 DEF TypesOK, Bind
      <4>2. /\ seats[room_code[x]][player_id[x]] = x /\ Exists(room_code[x])
            /\ serial[room_code[x]] = joined[x]
        BY <4>1, <2>1, <2>2 DEF SeatKept
      <4>3. room_code[x] \in Codes /\ player_id[x] \in PlayerIds
        BY <4>1, <2>2, <1>1 DEF TypesOK, BindingOK
      <4>4. ~(room_code[x] = c /\ player_id[x] = n)
        BY <4>2, <1>6, NamesAssumption DEF NoSession
      <4>5. seats'[room_code[x]][player_id[x]] = x
        BY <4>2, <4>3, <4>4, <1>1, <1>2 DEF TypesOK
      <4>6. rooms'[room_code[x]] # NoRoom
        BY <4>2, <4>3, <1>1, <1>2, <1>4 DEF TypesOK, Exists
      <4>7. QED  BY <4>1, <4>2, <4>5, <4>6, <1>2
    <3>3. QED  BY <3>1, <3>2
  <2>3. QED  BY <2>1, <2>2, <1>2 DEF SeatKept, Exists
<1>12. QED  BY <1>7, <1>8, <1>9, <1>10, <1>11 DEF ServerInv

(* A player comes back: the seat is theirs, and whoever had it is closed. *)
LEMMA RejoinServer ==
  ASSUME ServerInv, NEW s \in Sessions, NEW t \in tokens, HandleRejoin(s, t)
  PROVE  ServerInv'
<1> DEFINE c == t.code
           n == t.id
           q == R!Reconnected(rooms[c], n)
           old == seats[c][n]
<1>1. /\ TypesOK /\ SeatsAgree /\ BindingOK /\ KeptOK
      /\ \A d \in Codes : RoomOK(rooms[d])
  BY DEF ServerInv
<1>2. c \in Codes /\ n \in PlayerIds /\ t.serial \in Nat
  BY <1>1 DEF TypesOK
<1>3. /\ Unbound(s) /\ Exists(c) /\ serial[c] = t.serial /\ n \in rooms[c].players
      /\ IF old = NoSession
         THEN UNCHANGED <<status, evicted>>
         ELSE status' = [status EXCEPT ![old] = "closing"] /\ evicted' = TRUE
      /\ seats' = [seats EXCEPT ![c][n] = s]
      /\ rooms' = [rooms EXCEPT ![c] = q]
      /\ Bind(s, c, n, serial[c])
      /\ UNCHANGED <<serial, tokens, created>>
  BY <1>1, <1>2 DEF HandleRejoin, VerifyRejoin, TypesOK
<1>4. RoomOK(q) /\ q.connected = rooms[c].connected \cup {n}
  BY <1>1, <1>2, <1>3, ReconnectedOK DEF Exists
<1>5. q \in Rooms /\ q # NoRoom
  BY <1>4, NoRoomOK DEF RoomOK
<1>6. old \in Sessions \cup {NoSession} /\ old # s
  BY <1>1, <1>2, <1>3, NamesAssumption
  DEF TypesOK, SeatsAgree, Unbound, NoSession, NoCode
<1> HIDE DEF c, n, q, old
<1>7. s # NoSession /\ c # NoCode
  BY <1>2, NamesAssumption DEF NoSession, NoCode
<1>8. TypesOK'
  <2>1. /\ rooms' \in [Codes -> Rooms]
        /\ seats' \in [Codes -> [PlayerIds -> Sessions \cup {NoSession}]]
    BY <1>1, <1>2, <1>3, <1>5 DEF TypesOK
  <2>2. /\ serial' \in [Codes -> Nat] /\ joined' \in [Sessions -> Nat]
        /\ created' \in Nat
        /\ tokens' \subseteq [code : Codes, serial : Nat, id : PlayerIds]
    BY <1>1, <1>2, <1>3 DEF TypesOK, Bind
  <2>3. /\ status' \in [Sessions -> {"none", "open", "closing"}]
        /\ evicted' \in BOOLEAN
    BY <1>1, <1>3 DEF TypesOK
  <2>4. /\ room_code' \in [Sessions -> Codes \cup {NoCode}]
        /\ player_id' \in [Sessions -> PlayerIds \cup {NoPlayer}]
    BY <1>1, <1>2, <1>3 DEF TypesOK, Bind
  <2>5. QED  BY <2>1, <2>2, <2>3, <2>4 DEF TypesOK
<1>9. (\A d \in Codes : RoomOK(rooms[d]))'
  <2>1. \A d \in Codes : RoomOK(rooms'[d])
    BY <1>1, <1>2, <1>3, <1>4 DEF TypesOK
  <2>2. QED  BY <2>1 DEF RoomOK
<1>10. BindingOK'
  <2>1. \A x \in Sessions : status[x] # "none" => status'[x] # "none"
    BY <1>1, <1>3 DEF TypesOK
  <2>2. QED
    BY <2>1, <1>1, <1>2, <1>3 DEF TypesOK, BindingOK, Bind, Unbound
<1>11. SeatsAgree'
  <2> SUFFICES ASSUME NEW d \in Codes, NEW p \in PlayerIds
               PROVE  /\ p \in rooms'[d].connected <=> seats'[d][p] # NoSession
                      /\ seats'[d][p] # NoSession =>
                           LET x == seats'[d][p]
                           IN  status'[x] = "open" /\ room_code'[x] = d
                                 /\ player_id'[x] = p /\ joined'[x] = serial'[d]
    BY DEF SeatsAgree
  <2>1. /\ rooms'[d].connected
             = (IF d = c THEN rooms[c].connected \cup {n} ELSE rooms[d].connected)
        /\ seats'[d][p] = (IF d = c /\ p = n THEN s ELSE seats[d][p])
        /\ serial'[d] = serial[d]
    BY <1>1, <1>2, <1>3, <1>4 DEF TypesOK
  <2>2. \A x \in Sessions : x # old => status'[x] = status[x]
    BY <1>1, <1>3 DEF TypesOK
  <2>3. CASE d = c /\ p = n
    BY <2>1, <2>2, <2>3, <1>1, <1>3, <1>6, <1>7 DEF TypesOK, Bind, Unbound
  <2>4. CASE ~(d = c /\ p = n)
    <3>1. seats[d][p] \in Sessions \cup {NoSession}  BY <1>1 DEF TypesOK
    <3>2. seats[d][p] # s
      BY <1>1, <1>3, <1>7, NamesAssumption DEF SeatsAgree, Unbound, NoCode
    <3>3. seats[d][p] # NoSession => seats[d][p] # old
      BY <2>4, <1>1, <1>2 DEF SeatsAgree, old
    <3>4. QED
      BY <2>1, <2>2, <2>4, <3>1, <3>2, <3>3, <1>1, <1>3
      DEF TypesOK, SeatsAgree, Bind
  <2>5. QED  BY <2>3, <2>4
<1>12. KeptOK'
  <2> SUFFICES ASSUME ~evicted'
               PROVE  (SeatKept /\ \A x \in Sessions : status[x] # "closing")'
    BY DEF KeptOK
  <2>1. old = NoSession /\ status' = status /\ ~evicted
    BY <1>3
  <2>2. SeatKept /\ \A x \in Sessions : status[x] # "closing"
    BY <2>1, <1>1 DEF KeptOK
  <2>3. ASSUME NEW x \in Sessions, status'[x] = "open", room_code'[x] # NoCode
        PROVE  /\ seats'[room_code'[x]][player_id'[x]] = x
               /\ rooms'[room_code'[x]] # NoRoom
               /\ serial'[room_code'[x]] = joined'[x]
    <3>1. CASE x = s
      BY <3>1, <1>1, <1>2, <1>3, <1>5 DEF TypesOK, Bind
    <3>2. CASE x # s
      <4>1. /\ room_code'[x] = room_code[x] /\ player_id'[x] = player_id[x]
            /\ joined'[x] = joined[x] /\ status[x] = "open"
        BY <3>2, <2>1, <2>3, <1>1, <1>3 DEF TypesOK, Bind
      <4>2. /\ seats[room_code[x]][player_id[x]] = x /\ Exists(room_code[x])
            /\ serial[room_code[x]] = joined[x]
        BY <4>1, <2>2, <2>3 DEF SeatKept
      <4>3. room_code[x] \in Codes /\ player_id[x] \in PlayerIds
        BY <4>1, <2>3, <1>1 DEF TypesOK, BindingOK
      <4>4. ~(room_code[x] = c /\ player_id[x] = n)
        BY <4>2, <2>1, NamesAssumption DEF NoSession, old
      <4>5. seats'[room_code[x]][player_id[x]] = x
        BY <4>2, <4>3, <4>4, <1>1, <1>3 DEF TypesOK
      <4>6. rooms'[room_code[x]] # NoRoom
        BY <4>2, <4>3, <1>1, <1>3, <1>5 DEF TypesOK, Exists
      <4>7. QED  BY <4>1, <4>2, <4>5, <4>6, <1>3
    <3>3. QED  BY <3>1, <3>2
  <2>4. QED  BY <2>1, <2>2, <2>3 DEF SeatKept, Exists
<1>13. QED  BY <1>8, <1>9, <1>10, <1>11, <1>12 DEF ServerInv

(* A game that starts or restarts leaves the seats alone. *)
LEMMA GameServer ==
  ASSUME ServerInv, NEW s \in Sessions, HandleStartGame(s) \/ HandleRestartGame(s)
  PROVE  ServerInv'
<1> DEFINE c == room_code[s]
<1>1. /\ TypesOK /\ SeatsAgree /\ BindingOK /\ KeptOK
      /\ \A d \in Codes : RoomOK(rooms[d])
  BY DEF ServerInv
<1>2. c \in Codes /\ rooms[c] # NoRoom
  BY <1>1 DEF TypesOK, HandleStartGame, HandleRestartGame, AsHost, Forwards, Exists
<1>3. PICK q : /\ rooms' = [rooms EXCEPT ![c] = q]
               /\ RoomOK(q) /\ q.connected = rooms[c].connected
  <2>1. /\ RoomOK(R!Started(rooms[c]))
        /\ R!Started(rooms[c]).connected = rooms[c].connected
        /\ RoomOK(R!Restarted(rooms[c]))
        /\ R!Restarted(rooms[c]).connected = rooms[c].connected
    BY <1>1, <1>2, GameOK
  <2>2. \/ rooms' = [rooms EXCEPT ![c] = R!Started(rooms[c])]
        \/ rooms' = [rooms EXCEPT ![c] = R!Restarted(rooms[c])]
    BY <1>1, <1>2 DEF HandleStartGame, HandleRestartGame, TypesOK
  <2>3. QED  BY <2>1, <2>2
<1>4. UNCHANGED <<sessionVars, seats, serial, tokens, created, evicted>>
  BY DEF HandleStartGame, HandleRestartGame
<1> HIDE DEF c
<1>5. q \in Rooms /\ q # NoRoom
  <2>1. rooms[c].connected # {}  BY <1>1, <1>2, RoomExists
  <2>2. QED  BY <2>1, <1>3, NoRoomOK DEF RoomOK
<1>6. \A d \in Codes : /\ rooms'[d].connected = rooms[d].connected
                       /\ rooms[d] # NoRoom => rooms'[d] # NoRoom
  BY <1>1, <1>3, <1>5 DEF TypesOK
<1>7. TypesOK'
  <2>1. rooms' \in [Codes -> Rooms]  BY <1>1, <1>3, <1>5 DEF TypesOK
  <2>2. QED  BY <2>1, <1>1, <1>4 DEF TypesOK, sessionVars
<1>8. (\A d \in Codes : RoomOK(rooms[d]))'
  <2>1. \A d \in Codes : RoomOK(rooms'[d])  BY <1>1, <1>3 DEF TypesOK
  <2>2. QED  BY <2>1 DEF RoomOK
<1>9. BindingOK'  BY <1>1, <1>4 DEF BindingOK, sessionVars
<1>10. SeatsAgree'  BY <1>1, <1>4, <1>6 DEF SeatsAgree, sessionVars
<1>11. KeptOK'
  <2>1. SeatKept => SeatKept'
    BY <1>1, <1>4, <1>6 DEF SeatKept, TypesOK, Exists, sessionVars
  <2>2. QED  BY <2>1, <1>1, <1>4 DEF KeptOK, sessionVars
<1>12. QED  BY <1>7, <1>8, <1>9, <1>10, <1>11 DEF ServerInv

(* A connection ends: the seat of whatever player it spoke for is vacated,  *)
(* and the room goes when nobody is left in it.                             *)
LEMMA EndsServer ==
  ASSUME ServerInv, NEW s \in Sessions, StreamEnds(s)
  PROVE  ServerInv'
<1> DEFINE c == room_code[s]
           n == player_id[s]
           q == R!KeptIfOccupied(R!Disconnected(rooms[c], n))
<1>1. /\ TypesOK /\ SeatsAgree /\ BindingOK /\ KeptOK
      /\ \A d \in Codes : RoomOK(rooms[d])
  BY DEF ServerInv
<1>2. /\ Leave(c, n) /\ status' = [status EXCEPT ![s] = "none"]
      /\ Bind(s, NoCode, NoPlayer, 0) /\ UNCHANGED <<serial, tokens, created, evicted>>
  BY DEF StreamEnds
<1>3. c # NoCode => c \in Codes /\ n \in PlayerIds
  BY <1>1 DEF TypesOK, BindingOK
(* The seats and who is connected, whether the room stood or not. *)
<1>4. /\ rooms' \in [Codes -> Rooms]
      /\ seats' \in [Codes -> [PlayerIds -> Sessions \cup {NoSession}]]
      /\ \A d \in Codes : RoomOK(rooms'[d])
      /\ \A d \in Codes :
           rooms'[d].connected
             = (IF d = c THEN rooms[c].connected \ {n} ELSE rooms[d].connected)
      /\ \A d \in Codes, p \in PlayerIds :
           seats'[d][p] = (IF d = c /\ p = n THEN NoSession ELSE seats[d][p])
  <2>1. CASE c = NoCode \/ ~Exists(c)
    <3>1. rooms' = rooms /\ seats' = seats  BY <2>1, <1>2 DEF Leave
    <3>2. c \in Codes => /\ rooms[c].connected = {}
                        /\ \A p \in PlayerIds : seats[c][p] = NoSession
      <4>1. SUFFICES ASSUME c \in Codes
                     PROVE  /\ rooms[c].connected = {}
                            /\ \A p \in PlayerIds : seats[c][p] = NoSession
        OBVIOUS
      <4>2. rooms[c].connected = {}
        BY <4>1, <2>1, NoRoomOK, NamesAssumption DEF NoCode, Exists
      <4>3. QED  BY <4>1, <4>2, <1>1 DEF SeatsAgree
    <3> HIDE DEF c, n
    <3>3. QED  BY <3>1, <3>2, <1>1 DEF TypesOK
  <2>2. CASE c # NoCode /\ Exists(c)
    <3>1. /\ seats' = [seats EXCEPT ![c][n] = NoSession]
          /\ rooms' = [rooms EXCEPT ![c] = q]
      BY <2>2, <1>1, <1>2, <1>3 DEF Leave, TypesOK
    <3>2. RoomOK(q) /\ q.connected = rooms[c].connected \ {n}
      BY <2>2, <1>1, <1>3, LeftOK DEF Exists
    <3>3. q \in Rooms  BY <3>2 DEF RoomOK
    <3>4. c \in Codes /\ n \in PlayerIds  BY <2>2, <1>3
    <3> HIDE DEF c, n, q
    <3>5. QED  BY <3>1, <3>2, <3>3, <3>4, <1>1 DEF TypesOK
  <2>3. QED  BY <2>1, <2>2
<1> HIDE DEF c, n, q
<1>5. TypesOK'
  <2>1. /\ room_code' \in [Sessions -> Codes \cup {NoCode}]
        /\ player_id' \in [Sessions -> PlayerIds \cup {NoPlayer}]
        /\ joined' \in [Sessions -> Nat]
        /\ status' \in [Sessions -> {"none", "open", "closing"}]
    BY <1>1, <1>2 DEF TypesOK, Bind
  <2>2. QED  BY <2>1, <1>1, <1>2, <1>4 DEF TypesOK
<1>6. (\A d \in Codes : RoomOK(rooms[d]))'
  BY <1>4 DEF RoomOK
<1>7. BindingOK'
  BY <1>1, <1>2 DEF TypesOK, BindingOK, Bind
<1>8. SeatsAgree'
  <2> SUFFICES ASSUME NEW d \in Codes, NEW p \in PlayerIds
               PROVE  /\ p \in rooms'[d].connected <=> seats'[d][p] # NoSession
                      /\ seats'[d][p] # NoSession =>
                           LET x == seats'[d][p]
                           IN  status'[x] = "open" /\ room_code'[x] = d
                                 /\ player_id'[x] = p /\ joined'[x] = serial'[d]
    BY DEF SeatsAgree
  <2>1. /\ rooms'[d].connected
             = (IF d = c THEN rooms[c].connected \ {n} ELSE rooms[d].connected)
        /\ seats'[d][p] = (IF d = c /\ p = n THEN NoSession ELSE seats[d][p])
        /\ serial'[d] = serial[d]
    BY <1>2, <1>4
  <2>2. CASE d = c /\ p = n
    BY <2>1, <2>2
  <2>3. CASE ~(d = c /\ p = n)
    <3>1. seats[d][p] \in Sessions \cup {NoSession}  BY <1>1 DEF TypesOK
    <3>2. seats[d][p] # s \/ seats[d][p] = NoSession
      BY <2>3, <1>1 DEF SeatsAgree, c, n
    <3>3. QED
      BY <2>1, <2>3, <3>1, <3>2, <1>1, <1>2 DEF TypesOK, SeatsAgree, Bind
  <2>4. QED  BY <2>2, <2>3
<1>9. KeptOK'
  <2> SUFFICES ASSUME ~evicted'
               PROVE  (SeatKept /\ \A x \in Sessions : status[x] # "closing")'
    BY DEF KeptOK
  <2>1. ~evicted /\ SeatKept /\ \A x \in Sessions : status[x] # "closing"
    BY <1>1, <1>2 DEF KeptOK
  <2>2. ASSUME NEW x \in Sessions, status'[x] = "open", room_code'[x] # NoCode
        PROVE  /\ seats'[room_code'[x]][player_id'[x]] = x
               /\ rooms'[room_code'[x]] # NoRoom
               /\ serial'[room_code'[x]] = joined'[x]
    <3>1. x # s /\ room_code'[x] = room_code[x] /\ player_id'[x] = player_id[x]
            /\ joined'[x] = joined[x] /\ status[x] = "open"
      BY <2>2, <1>1, <1>2 DEF TypesOK, Bind
    <3>2. /\ seats[room_code[x]][player_id[x]] = x /\ Exists(room_code[x])
          /\ serial[room_code[x]] = joined[x]
      BY <3>1, <2>1, <2>2 DEF SeatKept
    <3>3. room_code[x] \in Codes /\ player_id[x] \in PlayerIds
      BY <3>1, <2>2, <1>1 DEF TypesOK, BindingOK
    <3>4. ~(room_code[x] = c /\ player_id[x] = n)
      <4>1. SUFFICES ASSUME room_code[x] = c, player_id[x] = n  PROVE FALSE
        OBVIOUS
      <4>2. c # NoCode  BY <4>1, <2>2, <3>1
      <4>3. status[s] = "open"
        BY <2>1, <1>1 DEF TypesOK, StreamEnds
      <4>4. seats[c][n] = s  BY <4>2, <4>3, <2>1 DEF SeatKept, c, n
      <4>5. QED  BY <4>1, <4>4, <3>1, <3>2
    <3>5. seats'[room_code[x]][player_id[x]] = x
      BY <3>2, <3>3, <3>4, <1>4
    <3>6. rooms'[room_code[x]] # NoRoom
      <4>1. player_id[x] \in rooms[room_code[x]].connected
        BY <3>2, <3>3, <1>1, NamesAssumption DEF SeatsAgree, NoSession
      <4>2. player_id[x] \in rooms'[room_code[x]].connected
        BY <4>1, <3>3, <3>4, <1>4
      <4>3. QED  BY <4>2, NoRoomOK
    <3>7. QED  BY <3>1, <3>2, <3>5, <3>6, <1>2
  <2>3. ASSUME NEW x \in Sessions  PROVE  status'[x] # "closing"
    BY <2>1, <1>1, <1>2 DEF TypesOK
  <2>4. QED  BY <2>2, <2>3 DEF SeatKept, Exists
<1>10. QED  BY <1>5, <1>6, <1>7, <1>8, <1>9 DEF ServerInv

(* No step of the server breaks the invariant. *)
LEMMA NextServer == ServerInv /\ [Next]_vars => ServerInv'
<1> SUFFICES ASSUME ServerInv, [Next]_vars  PROVE  ServerInv'
  OBVIOUS
<1>1. CASE UNCHANGED vars
  BY <1>1 DEF vars, ServerInv, TypesOK, RoomOK, BindingOK, SeatsAgree, KeptOK,
              SeatKept, Exists
<1>2. CASE Next
  <2>1. PICK s \in Sessions :
          \/ Accept(s) \/ HandleCreateRoom(s)
          \/ \E c \in Codes : HandleJoinRoom(s, c)
          \/ \E t \in tokens : HandleRejoin(s, t)
          \/ HandleStartGame(s) \/ HandleRestartGame(s) \/ StreamEnds(s)
    BY <1>2 DEF Next
  <2>2. QED
    BY <2>1, AcceptServer, CreateServer, JoinServer, RejoinServer, GameServer,
       EndsServer
<1>3. QED  BY <1>1, <1>2

(* Whatever comes and goes, the server's records agree. *)
THEOREM ServerInvariant == Spec => []ServerInv
BY InitServer, NextServer, PTL DEF Spec

-----------------------------------------------------------------------------
(* The properties the run checks. *)

(* The server's state is of the stated types: sessions_, rooms_ and the     *)
(* bindings of the sessions.                                                *)
THEOREM ServerTypeCorrect == Spec => []TypeOK
<1>1. ServerInv => TypeOK
  <2> SUFFICES ASSUME ServerInv  PROVE  TypeOK
    OBVIOUS
  <2>1. TypesOK /\ \A c \in Codes : RoomOK(rooms[c])  BY DEF ServerInv
  <2>2. ASSUME NEW c \in Codes
        PROVE  /\ rooms[c].players \subseteq PlayerIds
               /\ rooms[c].connected \subseteq rooms[c].players
               /\ rooms[c].host_id \in rooms[c].players \cup {NoPlayer}
    <3>1. CASE rooms[c] = NoRoom
      BY <3>1 DEF NoRoom, NoPlayer, R!NoRoom, R!NoPlayer
    <3>2. CASE rooms[c] # NoRoom
      BY <3>2, <2>1 DEF RoomOK, Rooms
    <3>3. QED  BY <3>1, <3>2
  <2>3. QED  BY <2>1, <2>2 DEF TypesOK, TypeOK
<1>2. QED  BY <1>1, ServerInvariant, PTL

(* Room::sessions and the connected flags agree: handle_rejoin and          *)
(* handle_disconnect change them together, also when a rejoin has taken the *)
(* seat over.                                                               *)
THEOREM SeatsAlwaysAgree == Spec => []SeatsAgree
<1>1. ServerInv => SeatsAgree  BY DEF ServerInv
<1>2. QED  BY <1>1, ServerInvariant, PTL

(* RoomManager erases a room with its last connection and no sooner, and    *)
(* the host's role has passed to somebody who is there.                     *)
THEOREM RoomsAlwaysOccupied == Spec => []RoomsOccupied
<1>1. ServerInv => RoomsOccupied
  BY DEF ServerInv, RoomOK, RoomsOccupied, Exists
<1>2. QED  BY <1>1, ServerInvariant, PTL

(* Until a rejoin has closed an older connection, every open session that   *)
(* was put into a room sits in its player's seat of that very room.  The    *)
(* one way to lose it is the one the run ServerTakeover shows.              *)
THEOREM SeatAlwaysKept == Spec => []SeatKeptWithoutEviction
<1>1. ServerInv => SeatKeptWithoutEviction
  BY DEF ServerInv, KeptOK, SeatKeptWithoutEviction
<1>2. QED  BY <1>1, ServerInvariant, PTL

-----------------------------------------------------------------------------
(* A room is held to Roster.  The operators are the same whichever instance *)
(* they are taken through.                                                  *)
LEMMA SameRoster ==
  ASSUME NEW c, NEW r, NEW p
  PROVE  /\ RosterOf(c)!NoRoom = NoRoom
         /\ RosterOf(c)!MayJoin(r) = R!MayJoin(r)
         /\ RosterOf(c)!MayStart(r) = R!MayStart(r)
         /\ RosterOf(c)!Joined(r) = R!Joined(r)
         /\ RosterOf(c)!Reconnected(r, p) = R!Reconnected(r, p)
         /\ RosterOf(c)!KeptIfOccupied(RosterOf(c)!Disconnected(r, p))
              = R!KeptIfOccupied(R!Disconnected(r, p))
         /\ RosterOf(c)!Started(r) = R!Started(r)
         /\ RosterOf(c)!Restarted(r) = R!Restarted(r)
<1>1. RosterOf(c)!NoRoom = NoRoom
  BY DEF RosterOf!NoRoom, RosterOf!NoPlayer, NoRoom, R!NoRoom, R!NoPlayer
<1>2. RosterOf(c)!Cardinality(r.players) = R!Cardinality(r.players)
  BY DEF RosterOf!Cardinality, R!Cardinality
<1>3. /\ RosterOf(c)!MayJoin(r) = R!MayJoin(r)
      /\ RosterOf(c)!MayStart(r) = R!MayStart(r)
  BY <1>2 DEF RosterOf!MayJoin, R!MayJoin, RosterOf!MayStart, R!MayStart
<1>4. /\ RosterOf(c)!Joined(r) = R!Joined(r)
      /\ RosterOf(c)!Reconnected(r, p) = R!Reconnected(r, p)
  BY DEF RosterOf!Joined, R!Joined, RosterOf!Reconnected, R!Reconnected
<1>5. RosterOf(c)!Disconnected(r, p) = R!Disconnected(r, p)
  BY DEF RosterOf!Disconnected, R!Disconnected, RosterOf!First, R!First,
         RosterOf!Min, R!Min, RosterOf!NoPlayer, R!NoPlayer
<1> DEFINE d == R!Disconnected(r, p)
<1>6. RosterOf(c)!KeptIfOccupied(d) = R!KeptIfOccupied(d)
  <2> HIDE DEF d
  <2>1. QED
    BY <1>1 DEF RosterOf!KeptIfOccupied, R!KeptIfOccupied, NoRoom
<1>7. /\ RosterOf(c)!Started(r) = R!Started(r)
      /\ RosterOf(c)!Restarted(r) = R!Restarted(r)
  BY DEF RosterOf!Started, R!Started, RosterOf!Restarted, R!Restarted
<1>8. QED  BY <1>1, <1>3, <1>4, <1>5, <1>6, <1>7

(* A player who is not of a room cannot leave it. *)
LEMMA StrangerLeaves ==
  ASSUME NEW r, RoomOK(r), r # NoRoom, NEW p, p \notin r.players
  PROVE  R!KeptIfOccupied(R!Disconnected(r, p)) = r
<1>1. /\ r \in Rooms /\ r.connected \ {p} = r.connected
      /\ r.players \ {p} = r.players /\ r.host_id # p /\ r.connected # {}
  BY DEF RoomOK
<1>2. R!Disconnected(r, p) = r  BY <1>1 DEF R!Disconnected, Rooms
<1>3. QED  BY <1>1, <1>2 DEF R!KeptIfOccupied

(* What a step of the server may do to a room. *)
LEMMA NextRoster ==
  ASSUME ServerInv, Next, NEW c \in Codes
  PROVE  rooms'[c] = rooms[c] \/ Created(c) \/ RosterOf(c)!Next
<1>1. /\ TypesOK /\ BindingOK /\ \A d \in Codes : RoomOK(rooms[d])
  BY DEF ServerInv
<1>2. ASSUME NEW s \in Sessions, HandleCreateRoom(s)
      PROVE  rooms'[c] = rooms[c] \/ Created(c)
  BY <1>1, <1>2 DEF HandleCreateRoom, TypesOK, Created
<1>3. ASSUME NEW s \in Sessions, NEW d \in Codes, HandleJoinRoom(s, d)
      PROVE  rooms'[c] = rooms[c] \/ RosterOf(c)!Next
  <2>1. CASE c = d
    <3>1. /\ rooms[c] # NoRoom /\ R!MayJoin(rooms[c])
          /\ rooms'[c] = R!Joined(rooms[c])
      BY <1>1, <1>3, <2>1 DEF HandleJoinRoom, TypesOK, Exists
    <3>2. QED  BY <3>1, SameRoster DEF RosterOf!Next, RosterOf!Join
  <2>2. CASE c # d
    BY <1>1, <1>3, <2>2 DEF HandleJoinRoom, TypesOK
  <2>3. QED  BY <2>1, <2>2
<1>4. ASSUME NEW s \in Sessions, NEW t \in tokens, HandleRejoin(s, t)
      PROVE  rooms'[c] = rooms[c] \/ RosterOf(c)!Next
  <2>1. CASE c = t.code
    <3>1. /\ rooms[c] # NoRoom /\ t.id \in rooms[c].players
          /\ rooms'[c] = R!Reconnected(rooms[c], t.id)
      BY <1>1, <1>4, <2>1 DEF HandleRejoin, VerifyRejoin, TypesOK, Exists
    <3>2. QED  BY <3>1, SameRoster DEF RosterOf!Next, RosterOf!Reconnect
  <2>2. CASE c # t.code
    BY <1>1, <1>4, <2>2 DEF HandleRejoin, TypesOK
  <2>3. QED  BY <2>1, <2>2
<1>5. ASSUME NEW s \in Sessions, HandleStartGame(s)
      PROVE  rooms'[c] = rooms[c] \/ RosterOf(c)!Next
  <2>1. CASE c = room_code[s]
    <3>1. /\ rooms[c] # NoRoom /\ R!MayStart(rooms[c])
          /\ rooms'[c] = R!Started(rooms[c])
      BY <1>1, <1>5, <2>1
      DEF HandleStartGame, AsHost, Forwards, TypesOK, Exists
    <3>2. QED  BY <3>1, SameRoster DEF RosterOf!Next, RosterOf!Start
  <2>2. CASE c # room_code[s]
    BY <1>1, <1>5, <2>2 DEF HandleStartGame, TypesOK
  <2>3. QED  BY <2>1, <2>2
<1>6. ASSUME NEW s \in Sessions, HandleRestartGame(s)
      PROVE  rooms'[c] = rooms[c] \/ RosterOf(c)!Next
  <2>1. CASE c = room_code[s]
    <3>1. /\ rooms[c] # NoRoom /\ rooms[c].state = "Game"
          /\ rooms'[c] = R!Restarted(rooms[c])
      BY <1>1, <1>6, <2>1
      DEF HandleRestartGame, AsHost, Forwards, TypesOK, Exists
    <3>2. QED  BY <3>1, SameRoster DEF RosterOf!Next, RosterOf!Restart
  <2>2. CASE c # room_code[s]
    BY <1>1, <1>6, <2>2 DEF HandleRestartGame, TypesOK
  <2>3. QED  BY <2>1, <2>2
<1>7. ASSUME NEW s \in Sessions, StreamEnds(s)
      PROVE  rooms'[c] = rooms[c] \/ RosterOf(c)!Next
  <2> DEFINE p == player_id[s]
  <2>1. Leave(room_code[s], p)  BY <1>7 DEF StreamEnds
  <2>2. CASE c = room_code[s] /\ Exists(c)
    <3>1. rooms[c] # NoRoom /\ RoomOK(rooms[c])
      BY <1>1, <2>2 DEF Exists
    <3>2. rooms'[c] = R!KeptIfOccupied(R!Disconnected(rooms[c], p))
      BY <1>1, <2>1, <2>2, NamesAssumption DEF Leave, TypesOK, NoCode
    <3>3. CASE p \in rooms[c].players
      BY <3>1, <3>2, <3>3, SameRoster DEF RosterOf!Next, RosterOf!Disconnect
    <3>4. CASE p \notin rooms[c].players
      BY <3>1, <3>2, <3>4, StrangerLeaves
    <3>5. QED  BY <3>3, <3>4
  <2>3. CASE ~(c = room_code[s] /\ Exists(c))
    BY <1>1, <2>1, <2>3 DEF Leave, TypesOK
  <2>4. QED  BY <2>2, <2>3
<1>8. ASSUME NEW s \in Sessions, Accept(s)  PROVE  rooms'[c] = rooms[c]
  BY <1>8 DEF Accept
<1>9. QED
  BY <1>2, <1>3, <1>4, <1>5, <1>6, <1>7, <1>8 DEF Next

(* Every room on the server keeps to Roster, which RosterCorrect shows of   *)
(* GameRoom: the two modules agree on what happens to a seat.               *)
THEOREM RoomsRosterCorrect == Spec => RoomsFollowRoster
<1>1. ServerInv /\ [Next]_vars =>
        [\A c \in Codes : rooms'[c] = rooms[c] \/ Created(c) \/ RosterOf(c)!Next]_vars
  BY NextRoster
<1>2. QED  BY <1>1, ServerInvariant, PTL DEF Spec, RoomsFollowRoster
==============================================================================

------------------------------- MODULE Server --------------------------------
(***************************************************************************)
(* Sessions, GameServer and RoomManager: connections come and go, create,  *)
(* join and rejoin rooms, and speak for a player of one.  Of each room the *)
(* server sees its seats, so rooms hold Roster records here; what happens  *)
(* inside a game is GameRoom's business.                                   *)
(* The definitions named Slip are mistakes to try the properties on, as in *)
(* GameRoom.                                                               *)
(*                                                                         *)
(* A Session object that has ended is never used again.  Since nothing     *)
(* refers to it any more, its name may stand for the next connection.      *)
(***************************************************************************)
EXTENDS Integers, FiniteSets, FiniteSetsExt

CONSTANTS
  Sessions,     \* connections that may be up at once
  Codes,        \* the room codes, 0000 to 9999 in the code
  MinPlayers, MaxPlayers, MaxId,
  MaxRooms      \* bound: rooms created over the server's life

ASSUME ServerAssumption == MaxId \in Nat \ {0} /\ MaxRooms \in Nat

(* An empty optional and a null pointer are no code and no session. *)
ASSUME NamesAssumption == "none" \notin Codes /\ "none" \notin Sessions

VARIABLES
  status,       \* of a connection: "none", "open", or "closing" after close()
  room_code,    \* Session::room_code_
  player_id,    \* Session::player_id_
  rooms,        \* rooms_: the GameRoom behind each code
  seats,        \* Room::sessions of each code
  serial,       \* which room, in order of creation, a code stands for
  joined,       \* the serial of the room a session was put into
  tokens,       \* the (code, serial, id) a client has been given a token for
  created,      \* rooms created so far
  evicted       \* whether a rejoin has ever closed an older connection

vars == <<status, room_code, player_id, rooms, seats, serial, joined, tokens,
          created, evicted>>
sessionVars == <<status, room_code, player_id, joined>>

(* Only the operators of Roster are used; its variable has no part here. *)
R == INSTANCE Roster WITH room <- rooms

NoCode    == "none"
NoSession == "none"
NoPlayer  == R!NoPlayer
NoRoom    == R!NoRoom
PlayerIds == 1..MaxId
EmptySeats == [p \in PlayerIds |-> NoSession]

Exists(c) == rooms[c] # NoRoom

Init ==
  /\ status = [s \in Sessions |-> "none"]
  /\ room_code = [s \in Sessions |-> NoCode]
  /\ player_id = [s \in Sessions |-> NoPlayer]
  /\ rooms = [c \in Codes |-> NoRoom]
  /\ seats = [c \in Codes |-> EmptySeats]
  /\ serial = [c \in Codes |-> 0]
  /\ joined = [s \in Sessions |-> 0]
  /\ tokens = {} /\ created = 0 /\ evicted = FALSE

-----------------------------------------------------------------------------
(* set_room_code and set_player_id, with the seat RoomManager registers *)
Bind(s, c, p, n) ==
  /\ room_code' = [room_code EXCEPT ![s] = c]
  /\ player_id' = [player_id EXCEPT ![s] = p]
  /\ joined' = [joined EXCEPT ![s] = n]

Issue(c, n, p) == tokens' = tokens \cup {[code |-> c, serial |-> n, id |-> p]}

Unbound(s) == status[s] = "open" /\ room_code[s] = NoCode

(* Listener::on_accept and the websocket handshake *)
Accept(s) ==
  /\ status[s] = "none"
  /\ status' = [status EXCEPT ![s] = "open"]
  /\ UNCHANGED <<room_code, player_id, joined, rooms, seats, serial, tokens,
                 created, evicted>>

(* generate_unique_code draws until it finds a code that is free. *)
HandleCreateRoom(s) ==
  /\ Unbound(s) /\ created < MaxRooms
  /\ created' = created + 1
  /\ \E c \in Codes :
       /\ ~Exists(c)
       /\ rooms' = [rooms EXCEPT ![c] = R!FreshRoom]
       /\ seats' = [seats EXCEPT ![c] = [EmptySeats EXCEPT ![1] = s]]
       /\ serial' = [serial EXCEPT ![c] = created + 1]
       /\ Bind(s, c, 1, created + 1)
       /\ Issue(c, created + 1, 1)
  /\ UNCHANGED <<status, evicted>>

HandleJoinRoom(s, c) ==
  /\ Unbound(s) /\ Exists(c) /\ R!MayJoin(rooms[c])
  /\ LET p == rooms[c].next_player_id
     IN  /\ rooms' = [rooms EXCEPT ![c] = R!Joined(@)]
         /\ seats' = [seats EXCEPT ![c][p] = s]
         /\ Bind(s, c, p, serial[c])
         /\ Issue(c, serial[c], p)
  /\ UNCHANGED <<status, serial, created, evicted>>

(* verify_rejoin: the token is the one this very room issued for the seat. *)
SlipVerifyRoomOnly(t) == Exists(t.code) /\ serial[t.code] = t.serial
SlipVerifyIdOnly(t) == Exists(t.code) /\ t.id \in rooms[t.code].players

VerifyRejoin(t) ==
  /\ Exists(t.code) /\ serial[t.code] = t.serial
  /\ t.id \in rooms[t.code].players

(* The older connection is asked to close; it stays bound to the player. *)
HandleRejoin(s, t) ==
  /\ Unbound(s) /\ VerifyRejoin(t)
  /\ LET old == seats[t.code][t.id]
     IN  IF old = NoSession
         THEN UNCHANGED <<status, evicted>>
         ELSE status' = [status EXCEPT ![old] = "closing"] /\ evicted' = TRUE
  /\ seats' = [seats EXCEPT ![t.code][t.id] = s]
  /\ rooms' = [rooms EXCEPT ![t.code] = R!Reconnected(@, t.id)]
  /\ Bind(s, t.code, t.id, t.serial)
  /\ UNCHANGED <<serial, tokens, created>>

(* A message of a bound session goes to the room behind its code, as a      *)
(* message of its player.  Also a session that is closing still delivers    *)
(* what was read or under way.  These two messages change the roster.       *)
Forwards(s) == status[s] # "none" /\ room_code[s] # NoCode /\ Exists(room_code[s])

AsHost(s) == Forwards(s) /\ rooms[room_code[s]].host_id = player_id[s]

HandleStartGame(s) ==
  /\ AsHost(s) /\ R!MayStart(rooms[room_code[s]])
  /\ rooms' = [rooms EXCEPT ![room_code[s]] = R!Started(@)]
  /\ UNCHANGED <<sessionVars, seats, serial, tokens, created, evicted>>

HandleRestartGame(s) ==
  /\ AsHost(s) /\ rooms[room_code[s]].state = "Game"
  /\ rooms' = [rooms EXCEPT ![room_code[s]] = R!Restarted(@)]
  /\ UNCHANGED <<sessionVars, seats, serial, tokens, created, evicted>>

(* RoomManager::handle_disconnect, for whatever player a session is bound   *)
(* to: the seat is vacated whoever sits in it.                              *)
SlipLeaveSeatTaken(c, p) ==   \* sessions.erase left out
  IF c = NoCode \/ ~Exists(c) THEN UNCHANGED <<rooms, seats>>
  ELSE /\ rooms' = [rooms EXCEPT ![c] = R!KeptIfOccupied(R!Disconnected(@, p))]
       /\ UNCHANGED seats

SlipLeaveEmptyRoom(c, p) ==   \* the room is never torn down
  IF c = NoCode \/ ~Exists(c) THEN UNCHANGED <<rooms, seats>>
  ELSE /\ seats' = [seats EXCEPT ![c][p] = NoSession]
       /\ rooms' = [rooms EXCEPT ![c] = R!Disconnected(@, p)]

Leave(c, p) ==
  IF c = NoCode \/ ~Exists(c) THEN UNCHANGED <<rooms, seats>>
  ELSE /\ seats' = [seats EXCEPT ![c][p] = NoSession]
       /\ rooms' = [rooms EXCEPT ![c] = R!KeptIfOccupied(R!Disconnected(@, p))]

(* Session::on_read with an error: the peer left, the connection broke, or  *)
(* a close() has completed.  GameServer::on_disconnect follows at once.     *)
StreamEnds(s) ==
  /\ status[s] # "none"
  /\ Leave(room_code[s], player_id[s])
  /\ status' = [status EXCEPT ![s] = "none"]
  /\ Bind(s, NoCode, NoPlayer, 0)
  /\ UNCHANGED <<serial, tokens, created, evicted>>

Next ==
  \E s \in Sessions :
    \/ Accept(s)
    \/ HandleCreateRoom(s)
    \/ \E c \in Codes : HandleJoinRoom(s, c)
    \/ \E t \in tokens : HandleRejoin(s, t)
    \/ HandleStartGame(s)
    \/ HandleRestartGame(s)
    \/ StreamEnds(s)

Spec == Init /\ [][Next]_vars

-----------------------------------------------------------------------------
(* Each room does, at its seats, what Roster says a room may do, and no     *)
(* more: what GameRoom is shown to do.  Only a code nobody is connected     *)
(* under comes to stand for a new room.  A connection that outlives its     *)
(* room changes nothing but the seat of a player of the room it finds.      *)
RosterOf(c) == INSTANCE Roster WITH room <- rooms[c]

Created(c) == ~Exists(c) /\ rooms'[c] = R!FreshRoom

RoomsFollowRoster ==
  [][\A c \in Codes : rooms'[c] = rooms[c] \/ Created(c) \/ RosterOf(c)!Next]_vars

(* Type correctness; in every room the connected players and the host stand *)
(* in the roster.                                                           *)
TypeOK ==
  /\ status \in [Sessions -> {"none", "open", "closing"}]
  /\ room_code \in [Sessions -> Codes \cup {NoCode}]
  /\ player_id \in [Sessions -> PlayerIds \cup {NoPlayer}]
  /\ \A c \in Codes :
       /\ rooms[c].players \subseteq PlayerIds
       /\ rooms[c].connected \subseteq rooms[c].players
       /\ rooms[c].host_id \in rooms[c].players \cup {NoPlayer}
  /\ seats \in [Codes -> [PlayerIds -> Sessions \cup {NoSession}]]
  /\ serial \in [Codes -> Nat] /\ joined \in [Sessions -> Nat]
  /\ created \in Nat /\ evicted \in BOOLEAN

(* A player counts as connected exactly while a session is registered for   *)
(* them, and that session is open and speaks for that player of that room.  *)
SeatsAgree ==
  \A c \in Codes, p \in PlayerIds :
    LET s == seats[c][p]
    IN  /\ p \in rooms[c].connected <=> s # NoSession
        /\ s # NoSession =>
             status[s] = "open" /\ room_code[s] = c /\ player_id[s] = p
                                /\ joined[s] = serial[c]

(* A code stands for a room only while somebody is connected to it, and its *)
(* host is one of them.                                                     *)
RoomsOccupied ==
  \A c \in Codes : Exists(c) => rooms[c].host_id \in rooms[c].connected

(* An open session that was put into a room keeps its player's seat there,  *)
(* and its messages go to the room it was put into and no other.            *)
SeatKept ==
  \A s \in Sessions :
    status[s] = "open" /\ room_code[s] # NoCode =>
      /\ seats[room_code[s]][player_id[s]] = s
      /\ Exists(room_code[s]) /\ serial[room_code[s]] = joined[s]

(* ... as long as no rejoin has had to close an older connection. *)
SeatKeptWithoutEviction == ~evicted => SeatKept
==============================================================================

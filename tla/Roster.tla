------------------------------- MODULE Roster --------------------------------
(***************************************************************************)
(* What a room promises about its seats: who is in the roster, who of them *)
(* is connected, who is the host, and whether a game is on.  This is all   *)
(* RoomManager depends on, and it is the abstract specification that       *)
(* GameRoom implements: every phase change, turn, timer and AI answer of a *)
(* game is a stuttering step here.                                         *)
(*                                                                         *)
(* A room is a record, so that Server can hold one per room code; the      *)
(* operators are the effect of GameRoom's handlers on it.                  *)
(***************************************************************************)
EXTENDS Integers, FiniteSets, FiniteSetsExt

CONSTANTS
  MinPlayers,   \* kMinPlayers
  MaxPlayers,   \* kMaxPlayers
  MaxId         \* bound: player ids handed out over a room's life

VARIABLE room   \* the room, or NoRoom once it is destroyed

NoPlayer == -1

(* A room as create_room leaves it, its creator joined as player 1. *)
FreshRoom ==
  [players |-> {1}, connected |-> {1}, next_player_id |-> 2, host_id |-> 1,
   state |-> "Lobby"]

NoRoom ==
  [players |-> {}, connected |-> {}, next_player_id |-> 1, host_id |-> NoPlayer,
   state |-> "Lobby"]

First(S) == IF S = {} THEN NoPlayer ELSE Min(S)

MayJoin(r) ==
  /\ r.state = "Lobby"
  /\ Cardinality(r.players) < MaxPlayers
  /\ r.next_player_id <= MaxId

Joined(r) ==
  [r EXCEPT !.players = @ \cup {r.next_player_id},
            !.connected = @ \cup {r.next_player_id},
            !.next_player_id = @ + 1]

Reconnected(r, p) == [r EXCEPT !.connected = @ \cup {p}]

SlipHostNotReplaced(r, p) ==
  LET left == r.connected \ {p}
  IN  [r EXCEPT !.connected = left,
                !.players = IF r.state = "Lobby" THEN @ \ {p} ELSE @]

(* In the lobby a player who leaves is struck off; in a game the seat stays *)
(* and only the host's role passes on, to the first one still connected.    *)
Disconnected(r, p) ==
  LET left == r.connected \ {p}
  IN  [r EXCEPT !.connected = left,
                !.players = IF r.state = "Lobby" THEN @ \ {p} ELSE @,
                !.host_id = IF @ = p THEN First(left) ELSE @]

(* RoomManager erases a room nobody is connected to. *)
KeptIfOccupied(r) == IF r.connected = {} THEN NoRoom ELSE r

MayStart(r) == r.state = "Lobby" /\ Cardinality(r.players) \in MinPlayers..MaxPlayers
Started(r) == [r EXCEPT !.state = "Game"]

(* restart_game drops those who are not connected. *)
Restarted(r) == [r EXCEPT !.state = "Lobby", !.players = r.connected]

-----------------------------------------------------------------------------
Init == room = FreshRoom

Join == MayJoin(room) /\ room' = Joined(room)
Reconnect(p) == room' = Reconnected(room, p)
Disconnect(p) == room' = KeptIfOccupied(Disconnected(room, p))
Start == MayStart(room) /\ room' = Started(room)
Restart == room.state = "Game" /\ room' = Restarted(room)

Next ==
  /\ room # NoRoom
  /\ \/ Join
     \/ \E p \in room.players : Reconnect(p) \/ Disconnect(p)
     \/ Start
     \/ Restart

Spec == Init /\ [][Next]_room
==============================================================================

--------------------------- MODULE GameRoomRoster ----------------------------
(***************************************************************************)
(* GameRoom implements Roster: seen through its seats alone, a room only   *)
(* ever takes the steps Server counts on.                                  *)
(***************************************************************************)
EXTENDS GameRoom

RosterView ==
  IF alive
  THEN [players |-> players, connected |-> connected,
        next_player_id |-> next_player_id, host_id |-> host_id,
        state |-> IF state = "Lobby" THEN "Lobby" ELSE "Game"]
  ELSE [players |-> {}, connected |-> {}, next_player_id |-> 1,
        host_id |-> NoPlayer, state |-> "Lobby"]

Seats == INSTANCE Roster WITH room <- RosterView

(* Whatever a game does, the room's seats change as Roster says. *)
RosterSpec == Seats!Spec
==============================================================================

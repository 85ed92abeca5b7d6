------------------------ MODULE GameRoomRosterProofs -------------------------
(***************************************************************************)
(* GameRoom implements Roster, for every number of players: the proof of   *)
(* what RoomRestart checks on an instance.  Every step of a room is a step *)
(* of its seats or leaves them alone.                                      *)
(***************************************************************************)
EXTENDS GameRoomProofs, GameRoomRoster

SeatsOf(ps, cs, n, h, st) ==
  [players |-> ps, connected |-> cs, next_player_id |-> n, host_id |-> h,
   state |-> st]

-----------------------------------------------------------------------------
(* What Roster's operators make of the seats, field by field. *)

(* The fields of a room's seats. *)
LEMMA SeatFields ==
  \A ps, cs, n, h, st :
    /\ SeatsOf(ps, cs, n, h, st).players = ps
    /\ SeatsOf(ps, cs, n, h, st).connected = cs
    /\ SeatsOf(ps, cs, n, h, st).next_player_id = n
    /\ SeatsOf(ps, cs, n, h, st).host_id = h
    /\ SeatsOf(ps, cs, n, h, st).state = st
BY DEF SeatsOf

(* Changing the roster leaves the rest. *)
LEMMA SetPlayers == \A ps, cs, n, h, st, x :
  [SeatsOf(ps, cs, n, h, st) EXCEPT !.players = x] = SeatsOf(x, cs, n, h, st)
BY DEF SeatsOf

(* Changing who is connected leaves the rest. *)
LEMMA SetConnected == \A ps, cs, n, h, st, x :
  [SeatsOf(ps, cs, n, h, st) EXCEPT !.connected = x] = SeatsOf(ps, x, n, h, st)
BY DEF SeatsOf

(* Changing the next id leaves the rest. *)
LEMMA SetNext == \A ps, cs, n, h, st, x :
  [SeatsOf(ps, cs, n, h, st) EXCEPT !.next_player_id = x]
    = SeatsOf(ps, cs, x, h, st)
BY DEF SeatsOf

(* Changing the host leaves the rest. *)
LEMMA SetHost == \A ps, cs, n, h, st, x :
  [SeatsOf(ps, cs, n, h, st) EXCEPT !.host_id = x] = SeatsOf(ps, cs, n, x, st)
BY DEF SeatsOf

(* Changing whether a game is on leaves the rest. *)
LEMMA SetState == \A ps, cs, n, h, st, x :
  [SeatsOf(ps, cs, n, h, st) EXCEPT !.state = x] = SeatsOf(ps, cs, n, h, x)
BY DEF SeatsOf

(* A join adds one seat, with the next id. *)
LEMMA JoinedSeats ==
  ASSUME NEW ps, NEW cs, NEW n, NEW h, NEW st
  PROVE  Seats!Joined(SeatsOf(ps, cs, n, h, st))
           = SeatsOf(ps \cup {n}, cs \cup {n}, n + 1, h, st)
<1> DEFINE ps1 == ps \cup {n}
           cs1 == cs \cup {n}
           n1 == n + 1
           r == SeatsOf(ps, cs, n, h, st)
<1>1. r.players = ps /\ r.connected = cs /\ r.next_player_id = n
  BY SeatFields
<1>2. Seats!Joined(r) =
        [r EXCEPT !.players = ps1, !.connected = cs1, !.next_player_id = n1]
  BY <1>1, Zenon DEF Seats!Joined
<1> HIDE DEF ps1, cs1, n1
<1>3. [r EXCEPT !.players = ps1] = SeatsOf(ps1, cs, n, h, st)
  BY SetPlayers
<1>4. [SeatsOf(ps1, cs, n, h, st) EXCEPT !.connected = cs1]
        = SeatsOf(ps1, cs1, n, h, st)
  BY SetConnected
<1>5. [SeatsOf(ps1, cs1, n, h, st) EXCEPT !.next_player_id = n1]
        = SeatsOf(ps1, cs1, n1, h, st)
  BY SetNext
<1>6. QED  BY <1>2, <1>3, <1>4, <1>5, Zenon DEF ps1, cs1, n1

(* A disconnect takes the seat in the lobby, and the host's role everywhere. *)
LEMMA DisconnectedSeats ==
  ASSUME NEW ps, NEW cs, NEW n, NEW h, NEW st, NEW p, NEW ps1, NEW cs1, NEW h1,
         cs1 = cs \ {p},
         st = "Lobby" => ps1 = ps \ {p},  st # "Lobby" => ps1 = ps,
         h = p => h1 = Seats!First(cs1),  h # p => h1 = h
  PROVE  Seats!Disconnected(SeatsOf(ps, cs, n, h, st), p)
           = SeatsOf(ps1, cs1, n, h1, st)
<1> DEFINE r == SeatsOf(ps, cs, n, h, st)
<1>1. r.players = ps /\ r.connected = cs /\ r.host_id = h /\ r.state = st
  BY SeatFields
<1>2. /\ ps1 = IF st = "Lobby" THEN ps \ {p} ELSE ps
      /\ h1 = IF h = p THEN Seats!First(cs1) ELSE h
  OBVIOUS
<1>3. Seats!Disconnected(r, p) =
        [r EXCEPT !.connected = cs1, !.players = ps1, !.host_id = h1]
  BY <1>1, <1>2, Zenon DEF Seats!Disconnected
<1>4. [r EXCEPT !.connected = cs1] = SeatsOf(ps, cs1, n, h, st)
  BY ONLY SetConnected
<1>5. [SeatsOf(ps, cs1, n, h, st) EXCEPT !.players = ps1]
        = SeatsOf(ps1, cs1, n, h, st)
  BY ONLY SetPlayers
<1>6. [SeatsOf(ps1, cs1, n, h, st) EXCEPT !.host_id = h1]
        = SeatsOf(ps1, cs1, n, h1, st)
  BY ONLY SetHost
<1>7. QED  BY ONLY <1>3, <1>4, <1>5, <1>6, Zenon

(* A start changes whether a game is on. *)
LEMMA StartedSeats ==
  ASSUME NEW ps, NEW cs, NEW n, NEW h, NEW st
  PROVE  Seats!Started(SeatsOf(ps, cs, n, h, st))
           = SeatsOf(ps, cs, n, h, "Game")
BY DEF Seats!Started, SeatsOf

(* A reconnect changes who is connected. *)
LEMMA ReconnectedSeats ==
  ASSUME NEW ps, NEW cs, NEW n, NEW h, NEW st, NEW p
  PROVE  Seats!Reconnected(SeatsOf(ps, cs, n, h, st), p)
           = SeatsOf(ps, cs \cup {p}, n, h, st)
BY DEF Seats!Reconnected, SeatsOf

(* A restart drops who is not connected. *)
LEMMA RestartedSeats ==
  ASSUME NEW ps, NEW cs, NEW n, NEW h, NEW st
  PROVE  Seats!Restarted(SeatsOf(ps, cs, n, h, st))
           = SeatsOf(cs, cs, n, h, "Lobby")
<1> DEFINE r == SeatsOf(ps, cs, n, h, st)
<1>1. r.connected = cs
  BY SeatFields
<1>2. Seats!Restarted(r) = [r EXCEPT !.state = "Lobby", !.players = cs]
  BY <1>1, Zenon DEF Seats!Restarted
<1>3. [r EXCEPT !.state = "Lobby"] = SeatsOf(ps, cs, n, h, "Lobby")
  BY SetState
<1>4. [SeatsOf(ps, cs, n, h, "Lobby") EXCEPT !.players = cs]
        = SeatsOf(cs, cs, n, h, "Lobby")
  BY SetPlayers
<1>5. QED  BY <1>2, <1>3, <1>4, Zenon

(* The library operators Roster takes are the ones GameRoom takes. *)
LEMMA SameCardinality == \A S : Seats!Cardinality(S) = Cardinality(S)
BY DEF Seats!Cardinality, Cardinality

(* The first player in join order is the same one in both. *)
LEMMA SameMin == \A S : Seats!Min(S) = Min(S)
BY DEF Seats!Min, Min

(* So is nobody. *)
LEMMA SameNoPlayer == Seats!NoPlayer = NoPlayer
BY DEF Seats!NoPlayer, NoPlayer

-----------------------------------------------------------------------------
(* The seats of a room that exists. *)
Stage == IF state = "Lobby" THEN "Lobby" ELSE "Game"
SeatsOfRoom == SeatsOf(players, connected, next_player_id, host_id, Stage)

(* An existing room is seen by its seats. *)
LEMMA SeenSeats == alive => RosterView = SeatsOfRoom
BY DEF RosterView, SeatsOfRoom, SeatsOf, Stage

(* So it is after a step the room survives. *)
LEMMA SeenSeatsNext ==
  alive' => RosterView' = SeatsOf(players', connected', next_player_id',
                                  host_id', Stage')
BY DEF RosterView, SeatsOf, Stage

(* A room that is no more is seen as none. *)
LEMMA UnseenRoom == (~alive => RosterView = Seats!NoRoom)
                    /\ (~alive' => RosterView' = Seats!NoRoom)
BY DEF RosterView, Seats!NoRoom, Seats!NoPlayer, NoPlayer

(* The seats of a room that exists are not those of none: its host is       *)
(* connected.                                                               *)
LEMMA SeenExists ==
  ASSUME alive, HostInv  PROVE  RosterView # Seats!NoRoom
<1>1. RosterView.connected = connected
  BY SeenSeats, SeatFields DEF SeatsOfRoom
<1>2. connected # {}  BY DEF HostInv, HostPresent
<1>3. Seats!NoRoom.connected = {}  BY DEF Seats!NoRoom
<1>4. QED  BY <1>1, <1>2, <1>3

(* A handler that touches no seat, and neither starts a game nor returns to *)
(* the lobby, is not seen.                                                  *)
LEMMA UnseenStep ==
  ASSUME UNCHANGED <<alive, players, connected, next_player_id, host_id>>,
         state' = "Lobby" <=> state = "Lobby"
  PROVE  RosterView' = RosterView
BY DEF RosterView

-----------------------------------------------------------------------------
(* A new player takes a new seat. *)
LEMMA JoinSeats ==
  ASSUME TypeOK, HostInv, HandleJoin  PROVE  Seats!Next
<1>1. /\ alive /\ alive' /\ state = "Lobby" /\ state' = "Lobby"
      /\ Cardinality(players) < MaxPlayers /\ next_player_id <= MaxId
      /\ players' = players \cup {next_player_id}
      /\ connected' = connected \cup {next_player_id}
      /\ next_player_id' = next_player_id + 1
  BY DEF HandleJoin
<1>2. host_id' = host_id
  BY <1>1 DEF HandleJoin, HostInv, HostPresent, TypeOK, PlayerIds, NoPlayer
<1>3. RosterView = SeatsOf(players, connected, next_player_id, host_id, "Lobby")
  BY <1>1, SeenSeats DEF SeatsOfRoom, Stage
<1>4. /\ RosterView.state = "Lobby" /\ RosterView.players = players
      /\ RosterView.next_player_id = next_player_id
  BY <1>3, SeatFields
<1>5. Seats!MayJoin(RosterView)
  BY <1>1, <1>4, SameCardinality DEF Seats!MayJoin
<1>6. RosterView' = SeatsOf(players \cup {next_player_id},
                            connected \cup {next_player_id},
                            next_player_id + 1, host_id, "Lobby")
  BY <1>1, <1>2, SeenSeatsNext DEF Stage
<1>7. RosterView' = Seats!Joined(RosterView)
  BY <1>3, <1>6, JoinedSeats
<1>8. RosterView # Seats!NoRoom  BY <1>1, SeenExists
<1>9. QED  BY <1>5, <1>7, <1>8 DEF Seats!Next, Seats!Join

(* A player who returns takes the seat they had. *)
LEMMA ReconnectSeats ==
  ASSUME HostInv, NEW p \in players, HandleReconnect(p)  PROVE  Seats!Next
<1>1. /\ alive /\ connected' = connected \cup {p}
      /\ UNCHANGED <<alive, state, players, next_player_id, host_id>>
  BY DEF HandleReconnect
<1>2. RosterView = SeatsOf(players, connected, next_player_id, host_id, Stage)
  BY <1>1, SeenSeats DEF SeatsOfRoom
<1>3. RosterView' = SeatsOf(players, connected \cup {p}, next_player_id,
                            host_id, Stage)
  BY <1>1, SeenSeatsNext DEF Stage
<1>4. RosterView' = Seats!Reconnected(RosterView, p)
  BY <1>2, <1>3, ReconnectedSeats
<1>5. p \in RosterView.players  BY <1>2, SeatFields
<1>6. RosterView # Seats!NoRoom  BY <1>1, SeenExists
<1>7. QED  BY <1>4, <1>5, <1>6 DEF Seats!Next, Seats!Reconnect

(* Whoever leaves, the game goes on or not, and the host's role passes to   *)
(* the first one still connected.                                           *)
LEMMA LeftSeats ==
  ASSUME HostInv, NEW p \in players, HandleDisconnect(p)
  PROVE  /\ state' = "Lobby" <=> state = "Lobby"
         /\ players' = IF state = "Lobby" THEN players \ {p} ELSE players
         /\ host_id' = IF host_id = p THEN Seats!First(connected \ {p})
                       ELSE host_id
<1> DEFINE left == connected \ {p}
<1>1. Seats!First(left) = IF left = {} THEN NoPlayer ELSE Min(left)
  BY SameMin, SameNoPlayer, Zenon DEF Seats!First
<1>2. alive /\ connected' = left  BY DEF HandleDisconnect
<1>3. CASE LeaveLobby(p)
  <2>1. /\ state = "Lobby" /\ state' = "Lobby" /\ players' = players \ {p}
        /\ host_id' = IF host_id # p THEN host_id
                      ELSE IF players' = {} THEN NoPlayer ELSE Min(players')
    BY <1>3 DEF LeaveLobby
  <2>2. players' = left  BY <1>2, <2>1 DEF HostInv
  <2>3. host_id' = IF host_id = p THEN Seats!First(left) ELSE host_id
    BY <1>1, <2>1, <2>2
  <2>4. QED  BY <2>1, <2>3
<1>4. CASE /\ state # "Lobby" /\ SucceedHost(p)
           /\ AbortRound(p) \/ LeaveInvestigation(p) \/ LeaveQuietly(p)
  <2>1. /\ players' = players
        /\ host_id' = IF host_id # p THEN host_id
                      ELSE IF left = {} THEN NoPlayer ELSE Min(left)
    BY <1>2, <1>4 DEF SucceedHost
  <2>2. state' # "Lobby"
    BY <1>4
    DEF AbortRound, LeaveInvestigation, LeaveQuietly, BeginNextTurn, FinishRound
  <2>3. host_id' = IF host_id = p THEN Seats!First(left) ELSE host_id
    BY <1>1, <2>1
  <2>4. QED  BY <1>4, <2>1, <2>2, <2>3
<1>5. QED  BY <1>3, <1>4 DEF HandleDisconnect

(* Then the seats are what Roster says is left of them, if anybody is. *)
LEMMA DisconnectSeats ==
  ASSUME HostInv, NEW p \in players, HandleDisconnect(p)  PROVE  Seats!Next
<1> DEFINE left == connected \ {p}
           rest == SeatsOf(players', left, next_player_id, host_id', Stage)
<1>1. /\ alive /\ connected' = left /\ alive' = (left # {})
      /\ next_player_id' = next_player_id
  BY DEF HandleDisconnect
<1>2. RosterView = SeatsOf(players, connected, next_player_id, host_id, Stage)
  BY <1>1, SeenSeats DEF SeatsOfRoom
<1>3. p \in RosterView.players  BY <1>2, SeatFields
<1>4. /\ Stage' = Stage
      /\ players' = IF Stage = "Lobby" THEN players \ {p} ELSE players
      /\ host_id' = IF host_id = p THEN Seats!First(left) ELSE host_id
  BY LeftSeats DEF Stage
<1>5. Seats!Disconnected(RosterView, p) = rest
  <2>1. left = connected \ {p}  OBVIOUS
  <2> HIDE DEF left
  <2>2. Seats!Disconnected(SeatsOf(players, connected, next_player_id, host_id,
                                   Stage), p) = rest
    BY ONLY <1>4, <2>1, DisconnectedSeats
  <2>3. QED  BY ONLY <1>2, <2>2
<1>6. rest.connected = left  BY SeatFields
<1>7. RosterView' = Seats!KeptIfOccupied(rest)
  <2>1. CASE left = {}
    <3>1. RosterView' = Seats!NoRoom  BY <1>1, <2>1, UnseenRoom
    <3>2. QED  BY <1>6, <2>1, <3>1 DEF Seats!KeptIfOccupied
  <2>2. CASE left # {}
    <3>1. RosterView' = rest  BY <1>1, <1>4, <2>2, SeenSeatsNext
    <3>2. QED  BY <1>6, <2>2, <3>1 DEF Seats!KeptIfOccupied
  <2>3. QED  BY <2>1, <2>2
<1>8. RosterView # Seats!NoRoom  BY <1>1, SeenExists
<1>9. QED  BY <1>3, <1>5, <1>7, <1>8 DEF Seats!Next, Seats!Disconnect

(* A game starts with the seats as they are. *)
LEMMA StartSeats ==
  ASSUME HostInv, NEW p, HandleStartGame(p)  PROVE  Seats!Next
<1>1. /\ alive /\ state = "Lobby" /\ state' = "CrimeWriting"
      /\ Cardinality(players) \in MinPlayers..MaxPlayers
      /\ UNCHANGED <<alive, players, connected, next_player_id, host_id>>
  BY DEF HandleStartGame, StartRound, rosterVars
<1>2. RosterView = SeatsOf(players, connected, next_player_id, host_id, "Lobby")
  BY <1>1, SeenSeats DEF SeatsOfRoom, Stage
<1>3. RosterView.state = "Lobby" /\ RosterView.players = players
  BY <1>2, SeatFields
<1>4. Seats!MayStart(RosterView)
  BY <1>1, <1>3, SameCardinality DEF Seats!MayStart
<1>5. RosterView' = SeatsOf(players, connected, next_player_id, host_id, "Game")
  BY <1>1, SeenSeatsNext DEF Stage
<1>6. RosterView' = Seats!Started(RosterView)
  BY <1>2, <1>5, StartedSeats
<1>7. RosterView # Seats!NoRoom  BY <1>1, SeenExists
<1>8. QED  BY <1>4, <1>6, <1>7 DEF Seats!Next, Seats!Start

(* A restart keeps the seats of the connected. *)
LEMMA RestartSeats ==
  ASSUME HostInv, NEW p, HandleRestartGame(p)  PROVE  Seats!Next
<1>1. /\ alive /\ state # "Lobby" /\ state' = "Lobby" /\ players' = connected
      /\ UNCHANGED <<alive, connected, next_player_id, host_id>>
  BY DEF HandleRestartGame
<1>2. RosterView = SeatsOf(players, connected, next_player_id, host_id, "Game")
  BY <1>1, SeenSeats DEF SeatsOfRoom, Stage
<1>3. RosterView.state = "Game"  BY <1>2, SeatFields
<1>4. RosterView' = SeatsOf(connected, connected, next_player_id, host_id,
                            "Lobby")
  BY <1>1, SeenSeatsNext DEF Stage
<1>5. RosterView' = Seats!Restarted(RosterView)
  BY <1>2, <1>4, RestartedSeats
<1>6. RosterView # Seats!NoRoom  BY <1>1, SeenExists
<1>7. QED  BY <1>3, <1>5, <1>6 DEF Seats!Next, Seats!Restart

-----------------------------------------------------------------------------
(* What a player sends in the course of a game, and what comes back to the  *)
(* room later, is not seen.                                                 *)
LEMMA GameUnseen ==
  ASSUME RoomInv,
         \/ \E p \in players :
              \/ \E m \in Maps : HandleSelectMap(p, m)
              \/ HandleSubmitCrime(p)
              \/ \E text \in GuessTexts : HandleSubmitGuess(p, text)
              \/ HandleNextTurn(p) \/ HandleNextRound(p)
         \/ TimerExpires \/ Expiry \/ Answer
  PROVE  RosterView' = RosterView
<1>1. UNCHANGED <<alive, players, connected, next_player_id, host_id>>
  BY DEF HandleSelectMap, HandleSubmitCrime, HandleSubmitGuess, HandleNextTurn,
         HandleNextRound, TimerExpires, Expiry, HandleCrimeWritingTimeout,
         HandleGuessTimeout, DropExpiry, Answer, HandleEvaluation,
         HandleJudgement, DropAnswer, vars, rosterVars
<1>2. state' = state \/ (state # "Lobby" /\ state' # "Lobby")
  <2>1. CASE \/ \E p \in players :
                   \/ \E m \in Maps : HandleSelectMap(p, m)
                   \/ HandleSubmitCrime(p)
                   \/ \E text \in GuessTexts : HandleSubmitGuess(p, text)
                   \/ HandleNextTurn(p) \/ HandleNextRound(p)
             \/ TimerExpires \/ Expiry
    BY <2>1
    DEF HandleSelectMap, HandleSubmitCrime, HandleSubmitGuess, HandleNextTurn,
        HandleNextRound, StartRound, BeginNextTurn, FinishRound, TimerExpires,
        Expiry, HandleCrimeWritingTimeout, ExpiryApplies, HandleGuessTimeout,
        DropExpiry
  <2>2. CASE \E c \in calls : HandleEvaluation(c)
    <3>1. state = "AIJudging"
      BY <2>2 DEF RoomInv, CallsOK, HandleEvaluation, AnswerApplies
    <3>2. QED  BY <2>2, <3>1 DEF HandleEvaluation, BeginNextTurn, FinishRound
  <2>3. CASE \E c \in calls :
                DropAnswer(c) \/ \E correct \in BOOLEAN : HandleJudgement(c, correct)
    BY <2>3 DEF DropAnswer, HandleJudgement
  <2>4. QED  BY <2>1, <2>2, <2>3 DEF Answer
<1>3. QED  BY <1>1, <1>2, UnseenStep

(* Every step of the room is a step of Roster, or Roster sees nothing of it. *)
LEMMA NextSeats ==
  RoomInv /\ HostInv /\ [Next]_vars => [Seats!Next]_RosterView
<1> SUFFICES ASSUME RoomInv, HostInv, [Next]_vars
             PROVE  Seats!Next \/ RosterView' = RosterView
  OBVIOUS
<1>1. TypeOK  BY DEF RoomInv
<1>2. CASE HandleJoin  BY <1>1, <1>2, JoinSeats
<1>3. CASE \E p \in players : HandleReconnect(p)  BY <1>3, ReconnectSeats
<1>4. CASE \E p \in players : HandleDisconnect(p)  BY <1>4, DisconnectSeats
<1>5. CASE \E p \in players : HandleStartGame(p)  BY <1>5, StartSeats
<1>6. CASE \E p \in players : HandleRestartGame(p)  BY <1>6, RestartSeats
<1>7. CASE \/ \E p \in players :
                \/ \E m \in Maps : HandleSelectMap(p, m)
                \/ HandleSubmitCrime(p)
                \/ \E text \in GuessTexts : HandleSubmitGuess(p, text)
                \/ HandleNextTurn(p) \/ HandleNextRound(p)
           \/ TimerExpires \/ Expiry \/ Answer
  BY <1>7, GameUnseen
<1>8. CASE Gone \/ UNCHANGED vars
  <2>1. UNCHANGED <<alive, players, connected, next_player_id, host_id, state>>
    BY <1>8 DEF Gone, vars, rosterVars
  <2>2. QED  BY <2>1, UnseenStep
<1>9. QED
  BY <1>2, <1>3, <1>4, <1>5, <1>6, <1>7, <1>8 DEF Next, Message

(* A room is created with the seats Roster starts from. *)
LEMMA InitSeats == Init => Seats!Init
BY DEF Init, RosterView, Seats!Init, Seats!FreshRoom

(* What RoomManager counts on: a room's seats only ever change as Roster    *)
(* says, whatever phase, turn, timer or AI answer the room is handling.     *)
THEOREM RosterCorrect == Spec => RosterSpec
<1>1. Init => HostInv  BY DEF Init, HostInv, HostPresent
<1>2. RoomInv => TypeOK  BY DEF RoomInv
<1>3. QED
  BY <1>1, <1>2, RoomInvariant, NextHost, InitSeats, NextSeats, PTL
  DEF Spec, RosterSpec, Seats!Spec

==============================================================================

------------------------------ MODULE GameRoom -------------------------------
(***************************************************************************)
(* One GameRoom: the roster, the phases of a game, the turn order of an    *)
(* investigation, and the three kinds of work that come back to the room   *)
(* later - a phase timer, a crime evaluation and a guess judgement.        *)
(*                                                                         *)
(* The server runs one io_context on one thread, so every handler below is *)
(* one atomic step; what interleaves is the order in which messages,       *)
(* disconnects, timer expiries and AI answers are handled.  Texts, names   *)
(* and message payloads are left out: a handler that only answers with an  *)
(* error message changes nothing and is no action.                         *)
(*                                                                         *)
(* A definition whose name starts with Slip is a plausible mistake in the  *)
(* definition that follows it.  No action uses one; the README says which  *)
(* property notices each.                                                  *)
(***************************************************************************)
EXTENDS Scoring, SequencesExt

CONSTANTS
  MinPlayers,     \* kMinPlayers
  MaxPlayers,     \* kMaxPlayers
  EvalScores,     \* scores an evaluation may come back with
  GuessTexts,     \* texts a detective may submit (non-empty ones)
  Maps,           \* the maps of GameData
  MaxId,          \* bound: player ids handed out over the room's life
  MaxGames,       \* bound: games started in the room
  MaxCalls        \* bound: AI calls outstanding at once

ASSUME RoomAssumption ==
  /\ MinPlayers \in Nat \ {0}
  /\ MaxPlayers \in Nat
  /\ EvalScores \subseteq 0..100
  /\ MaxId \in Nat \ {0}
  /\ MaxGames \in Nat
  /\ MaxCalls \in Nat
  /\ Maps # {}

VARIABLES
  alive,                 \* alive_: false once RoomManager erased the room
  state,                 \* state_
  selected_map,          \* selected_map_
  players,               \* ids in players_; ids ascend in join order
  connected,             \* ids whose Player::connected holds
  next_player_id,        \* next_player_id_
  host_id,               \* host_id_
  score,                 \* Player::score
  has_been_criminal,     \* ids whose Player::has_been_criminal holds
  criminal_queue,        \* ids in criminal_queue_
  round_number,          \* round_number_
  criminal_id,           \* criminal_id_
  crime_eval,            \* crime_eval_.score
  crime_score_revealed,  \* crime_score_revealed_
  pending_order,         \* pending_order_
  attempts_used,         \* attempts_used_, 0 when there is no entry
  solved_at_attempt,     \* solved_at_attempt_, 0 when there is no entry
  current_detective,     \* current_detective_
  guess_in_flight,       \* guess_in_flight_
  awaiting_advance,      \* awaiting_advance_
  turn_generation,       \* turn_generation_
  phase_timer,           \* the wait armed on phase_timer_
  fired,                 \* the expiry handler that asio has queued to run
  calls,                 \* AI calls whose callback has not run yet
  games                  \* games started so far (for the bound MaxGames)

rosterVars == <<players, connected, next_player_id, host_id>>
gameVars   == <<criminal_queue, round_number, criminal_id, games>>
scoreVars  == <<score, has_been_criminal>>
turnVars   == <<pending_order, attempts_used, solved_at_attempt,
                current_detective, guess_in_flight, awaiting_advance>>
crimeVars  == <<crime_eval, crime_score_revealed>>
asyncVars  == <<phase_timer, fired, calls>>
vars == <<alive, state, selected_map, rosterVars, gameVars, scoreVars, turnVars,
          crimeVars, turn_generation, asyncVars>>

PlayerIds == 1..MaxId
NoPlayer  == -1
CrimeText == "crime"

(* An expiry remembers what its lambda captured: the guess wait its         *)
(* generation, the crime wait nothing.  "round" is not in the code; it      *)
(* names the round the wait was armed in, for the properties.               *)
NoTimer == [kind |-> "none", gen |-> 0, round |-> 0]
SlipGuessTimerEarly(gen) ==   \* scheduled before turn_generation_ is bumped
  [kind |-> "guess", gen |-> gen - 1, round |-> round_number]
CrimeTimer(round) == [kind |-> "crime", gen |-> 0, round |-> round]
GuessTimer(gen) == [kind |-> "guess", gen |-> gen, round |-> round_number]

SlipEvaluateCallLate ==       \* captures the generation of the turn to come
  [kind |-> "evaluate", player |-> criminal_id, gen |-> turn_generation + 1,
   text |-> CrimeText, map |-> selected_map]
EvaluateCall ==
  [kind |-> "evaluate", player |-> criminal_id, gen |-> turn_generation,
   text |-> CrimeText, map |-> selected_map]
JudgeCall(p, text) ==
  [kind |-> "judge", player |-> p, gen |-> turn_generation,
   text |-> text, map |-> selected_map]

RoundInProgress == state \in {"CrimeWriting", "AIJudging", "Investigation"}
Nobody == [p \in PlayerIds |-> 0]
Detectives == {p \in connected : p # criminal_id}

(* std::shuffle: any order of the set's members *)
Shuffles(S) == Bijection(1..Cardinality(S), S)

-----------------------------------------------------------------------------
(* A room as RoomManager::create_room leaves it: constructed, and joined by *)
(* the player who asked for it.                                             *)
Init ==
  /\ alive = TRUE
  /\ state = "Lobby"
  /\ selected_map \in Maps
  /\ players = {1} /\ connected = {1} /\ next_player_id = 2 /\ host_id = 1
  /\ score = Nobody /\ has_been_criminal = {}
  /\ criminal_queue = {} /\ round_number = 0 /\ criminal_id = NoPlayer
  /\ crime_eval = 0 /\ crime_score_revealed = FALSE
  /\ pending_order = <<>>
  /\ attempts_used = Nobody /\ solved_at_attempt = Nobody
  /\ current_detective = NoPlayer
  /\ guess_in_flight = FALSE /\ awaiting_advance = FALSE
  /\ turn_generation = 0
  /\ phase_timer = NoTimer /\ fired = NoTimer /\ calls = {}
  /\ games = 0

-----------------------------------------------------------------------------
(* finish_round: mark the criminal, pay the round, wait for the host or end *)
(* the game.  Result is passed through within the handler.                  *)
FinishRound(eval, solved) ==
  /\ state' = IF criminal_queue = {} THEN "GameOver" ELSE "NextRound"
  /\ has_been_criminal' = has_been_criminal \cup (players \cap {criminal_id})
  /\ score' = [p \in PlayerIds |->
                 IF p \in players
                 THEN score[p] + Gained(p, criminal_id, eval, solved)
                 ELSE score[p]]

(* begin_next_turn, called with pending_order_ and the round's results as   *)
(* its caller leaves them, and the wait that is armed at that moment.       *)
BeginNextTurn(pending, eval, solved, timer) ==
  /\ turn_generation' = turn_generation + 1
  /\ pending_order' = pending
  /\ crime_eval' = eval
  /\ solved_at_attempt' = solved
  /\ \/ /\ pending = <<>>
        /\ phase_timer' = timer
        /\ FinishRound(eval, solved)
        /\ UNCHANGED current_detective
     \/ /\ pending # <<>>
        /\ state' = "Investigation"
        /\ current_detective' = Head(pending)
        /\ phase_timer' = GuessTimer(turn_generation + 1)
        /\ UNCHANGED scoreVars

(* The fields start_round and handle_restart_game clear. *)
ClearRound ==
  /\ crime_eval' = 0 /\ crime_score_revealed' = FALSE
  /\ pending_order' = <<>>
  /\ attempts_used' = Nobody /\ solved_at_attempt' = Nobody
  /\ current_detective' = NoPlayer
  /\ guess_in_flight' = FALSE /\ awaiting_advance' = FALSE

(* start_round: the order of criminal_queue_ is random and seen by nobody,  *)
(* so it is drawn here, one front element at a time.                        *)
SlipStartRoundKeepsQueue(queue, round) ==   \* front() without erase
  /\ \E c \in queue : criminal_id' = c /\ criminal_queue' = queue
  /\ round_number' = round + 1
  /\ ClearRound
  /\ state' = "CrimeWriting"
  /\ phase_timer' = CrimeTimer(round + 1)

StartRound(queue, round) ==
  /\ \E c \in queue : criminal_id' = c /\ criminal_queue' = queue \ {c}
  /\ round_number' = round + 1
  /\ ClearRound
  /\ state' = "CrimeWriting"
  /\ phase_timer' = CrimeTimer(round + 1)

-----------------------------------------------------------------------------
(* Joining, leaving and coming back *)

HandleJoin ==
  /\ alive /\ state = "Lobby"
  /\ Cardinality(players) < MaxPlayers
  /\ next_player_id <= MaxId
  /\ players' = players \cup {next_player_id}
  /\ connected' = connected \cup {next_player_id}
  /\ next_player_id' = next_player_id + 1
  /\ host_id' = IF host_id = NoPlayer THEN next_player_id ELSE host_id
  /\ UNCHANGED <<alive, state, selected_map, gameVars, scoreVars, turnVars,
                 crimeVars, turn_generation, asyncVars>>

(* A verified rejoin; host_id_ is not given back. *)
HandleReconnect(p) ==
  /\ alive
  /\ connected' = connected \cup {p}
  /\ UNCHANGED <<alive, state, selected_map, players, next_player_id, host_id,
                 gameVars, scoreVars, turnVars, crimeVars, turn_generation,
                 asyncVars>>

LeaveLobby(p) ==
  /\ state = "Lobby"
  /\ players' = players \ {p}
  /\ host_id' = IF host_id # p THEN host_id
                ELSE IF players' = {} THEN NoPlayer ELSE Min(players')
  /\ UNCHANGED <<state, scoreVars, turnVars, crimeVars, turn_generation,
                 phase_timer>>

SlipSucceedHostFront(p) ==    \* players_.front(), as in the lobby
  /\ host_id' = IF host_id # p THEN host_id
                ELSE IF connected' = {} THEN NoPlayer ELSE Min(players)
  /\ UNCHANGED players

SlipNoSuccession(p) == UNCHANGED <<host_id, players>>

(* Past the lobby a player stays in the roster; the seat of a host who      *)
(* drops goes to the first connected player in join order.                  *)
SucceedHost(p) ==
  /\ host_id' = IF host_id # p THEN host_id
                ELSE IF connected' = {} THEN NoPlayer ELSE Min(connected')
  /\ UNCHANGED players

AbortRound(p) ==
  /\ p = criminal_id /\ RoundInProgress
  /\ phase_timer' = NoTimer
  /\ awaiting_advance' = FALSE /\ guess_in_flight' = FALSE
  /\ turn_generation' = turn_generation + 1
  /\ pending_order' = <<>>
  /\ crime_eval' = 0
  /\ solved_at_attempt' = Nobody
  /\ FinishRound(0, Nobody)
  /\ UNCHANGED <<attempts_used, current_detective, crime_score_revealed>>

LeaveInvestigation(p) ==
  /\ p # criminal_id /\ state = "Investigation"
  /\ \/ /\ p = current_detective
        /\ awaiting_advance' = FALSE /\ guess_in_flight' = FALSE
        /\ BeginNextTurn(RemoveFirst(pending_order, p), crime_eval,
                         solved_at_attempt, NoTimer)
     \/ /\ p # current_detective
        /\ pending_order' = RemoveFirst(pending_order, p)
        /\ UNCHANGED <<state, scoreVars, solved_at_attempt, current_detective,
                       guess_in_flight, awaiting_advance, crime_eval,
                       turn_generation, phase_timer>>
  /\ UNCHANGED <<attempts_used, crime_score_revealed>>

LeaveQuietly(p) ==
  /\ state # "Lobby" /\ state # "Investigation"
  /\ ~(p = criminal_id /\ RoundInProgress)
  /\ UNCHANGED <<state, scoreVars, turnVars, crimeVars, turn_generation,
                 phase_timer>>

(* RoomManager::handle_disconnect: the room's own handler, then the room is *)
(* destroyed if nobody is connected any more.                               *)
HandleDisconnect(p) ==
  /\ alive
  /\ connected' = connected \ {p}
  /\ \/ LeaveLobby(p)
     \/ /\ state # "Lobby"
        /\ SucceedHost(p)
        /\ AbortRound(p) \/ LeaveInvestigation(p) \/ LeaveQuietly(p)
  /\ alive' = (connected' # {})
  /\ UNCHANGED <<selected_map, next_player_id, gameVars, fired, calls>>

-----------------------------------------------------------------------------
(* handle_message: the messages of a player of the room.  The room looks at *)
(* the sender's id only, never at whether that player is connected.         *)

SlipSelectMapAnytime(p, m) ==
  /\ alive /\ p = host_id
  /\ selected_map' = m
  /\ UNCHANGED <<alive, state, rosterVars, gameVars, scoreVars, turnVars,
                 crimeVars, turn_generation, asyncVars>>

HandleSelectMap(p, m) ==
  /\ alive /\ state = "Lobby" /\ p = host_id
  /\ selected_map' = m
  /\ UNCHANGED <<alive, state, rosterVars, gameVars, scoreVars, turnVars,
                 crimeVars, turn_generation, asyncVars>>

HandleStartGame(p) ==
  /\ alive /\ state = "Lobby" /\ p = host_id
  /\ Cardinality(players) \in MinPlayers..MaxPlayers
  /\ games < MaxGames
  /\ games' = games + 1
  /\ StartRound(players, 0)
  /\ UNCHANGED <<alive, selected_map, rosterVars, scoreVars, turn_generation,
                 fired, calls>>

HandleNextRound(p) ==
  /\ alive /\ state = "NextRound" /\ p = host_id
  /\ StartRound(criminal_queue, round_number)
  /\ UNCHANGED <<alive, selected_map, rosterVars, scoreVars, turn_generation,
                 fired, calls, games>>

HandleRestartGame(p) ==
  /\ alive /\ state = "GameOver" /\ p = host_id
  /\ players' = connected
  /\ score' = Nobody /\ has_been_criminal' = {}
  /\ criminal_queue' = {} /\ round_number' = 0 /\ criminal_id' = NoPlayer
  /\ ClearRound
  /\ state' = "Lobby"
  /\ UNCHANGED <<alive, selected_map, connected, next_player_id, host_id, games,
                 turn_generation, asyncVars>>

(* A text that names a weapon and a place of the map; any other text is     *)
(* answered with an error and changes nothing.                              *)
HandleSubmitCrime(p) ==
  /\ alive /\ state = "CrimeWriting" /\ p = criminal_id
  /\ Cardinality(calls) < MaxCalls
  /\ phase_timer' = NoTimer
  /\ state' = "AIJudging"
  /\ calls' = calls \cup {EvaluateCall}
  /\ UNCHANGED <<alive, selected_map, rosterVars, gameVars, scoreVars, turnVars,
                 crimeVars, turn_generation, fired>>

(* The guards of handle_submit_guess. *)
SlipMayGuessTwice(p) ==       \* only the answered turn is closed
  state = "Investigation" /\ p = current_detective /\ ~awaiting_advance

MayGuess(p) ==
  /\ state = "Investigation" /\ p = current_detective
  /\ ~awaiting_advance /\ ~guess_in_flight

HandleSubmitGuess(p, text) ==
  /\ alive /\ MayGuess(p)
  /\ Cardinality(calls) < MaxCalls
  /\ guess_in_flight' = TRUE
  /\ phase_timer' = NoTimer
  /\ calls' = calls \cup {JudgeCall(p, text)}
  /\ UNCHANGED <<alive, state, selected_map, rosterVars, gameVars, scoreVars,
                 pending_order, attempts_used, solved_at_attempt,
                 current_detective, awaiting_advance, crimeVars,
                 turn_generation, fired>>

HandleNextTurn(p) ==
  /\ alive /\ state = "Investigation" /\ awaiting_advance
  /\ p = current_detective \/ p = host_id
  /\ awaiting_advance' = FALSE
  /\ BeginNextTurn(pending_order, crime_eval, solved_at_attempt, phase_timer)
  /\ UNCHANGED <<alive, selected_map, rosterVars, gameVars, attempts_used,
                 guess_in_flight, crime_score_revealed, fired, calls>>

-----------------------------------------------------------------------------
(* Timers.  cancel() and expires_after() disarm a wait that has not run     *)
(* out; a wait that has is a queued handler no cancel() recalls.  A queued  *)
(* handler runs long before another wait of 45 or 90 seconds can run out,   *)
(* so there is at most one.                                                 *)

TimerExpires ==
  /\ alive /\ phase_timer # NoTimer /\ fired = NoTimer
  /\ fired' = phase_timer
  /\ phase_timer' = NoTimer
  /\ UNCHANGED <<alive, state, selected_map, rosterVars, gameVars, scoreVars,
                 turnVars, crimeVars, turn_generation, calls>>

SlipExpiryAnyState(timer) ==  \* the "extra safety" check left out
  /\ alive
  /\ \/ timer.kind = "crime"
     \/ /\ timer.kind = "guess" /\ timer.gen = turn_generation
        /\ ~guess_in_flight /\ ~awaiting_advance

SlipExpiryNeedsCriminal(timer) ==
  /\ alive
  /\ \/ timer.kind = "crime" /\ state = "CrimeWriting" /\ criminal_id \in connected
     \/ /\ timer.kind = "guess" /\ timer.gen = turn_generation
        /\ ~guess_in_flight /\ ~awaiting_advance

(* The guards of the two expiry lambdas. *)
ExpiryApplies(timer) ==
  /\ alive
  /\ \/ timer.kind = "crime" /\ state = "CrimeWriting"
     \/ /\ timer.kind = "guess" /\ timer.gen = turn_generation
        /\ ~guess_in_flight /\ ~awaiting_advance

HandleCrimeWritingTimeout ==
  /\ fired.kind = "crime" /\ ExpiryApplies(fired)
  /\ fired' = NoTimer
  /\ crime_eval' = 0
  /\ FinishRound(0, solved_at_attempt)
  /\ UNCHANGED <<alive, selected_map, rosterVars, gameVars, turnVars,
                 crime_score_revealed, turn_generation, phase_timer, calls>>

SlipRequeueAlways(p, attempts, correct) ==
  IF ~correct THEN Append(Tail(pending_order), p) ELSE Tail(pending_order)

SlipRequeueFront(p, attempts, correct) ==
  IF ~correct /\ attempts < MaxAttempts THEN pending_order ELSE Tail(pending_order)

(* The player who answered goes to the back of the queue, unless the crime  *)
(* is solved or the attempts are used up.                                   *)
Requeue(p, attempts, correct) ==
  IF ~correct /\ attempts < MaxAttempts THEN Append(Tail(pending_order), p)
  ELSE Tail(pending_order)

HandleGuessTimeout ==
  /\ fired.kind = "guess" /\ ExpiryApplies(fired)
  /\ fired' = NoTimer
  /\ LET p == current_detective
         n == attempts_used[p] + 1
     IN  /\ attempts_used' = [attempts_used EXCEPT ![p] = n]
         /\ pending_order' = Requeue(p, n, FALSE)
  /\ awaiting_advance' = TRUE
  /\ UNCHANGED <<alive, state, selected_map, rosterVars, gameVars, scoreVars,
                 solved_at_attempt, current_detective, guess_in_flight,
                 crimeVars, turn_generation, phase_timer, calls>>

DropExpiry ==
  /\ fired # NoTimer /\ ~ExpiryApplies(fired)
  /\ fired' = NoTimer
  /\ UNCHANGED <<alive, state, selected_map, rosterVars, gameVars, scoreVars,
                 turnVars, crimeVars, turn_generation, phase_timer, calls>>

-----------------------------------------------------------------------------
(* AI answers, in any order and at any time after the call *)

SlipAnswerDeadRoom(c) == c.gen = turn_generation
SlipAnswerAnyTurn(c) == alive

(* The guards both callbacks start with. *)
AnswerApplies(c) == alive /\ c.gen = turn_generation

(* The callback of run_ai_judging, with start_investigation. *)
HandleEvaluation(c) ==
  /\ c.kind = "evaluate" /\ AnswerApplies(c)
  /\ calls' = calls \ {c}
  /\ crime_score_revealed' = TRUE
  /\ attempts_used' = Nobody
  /\ \E eval \in EvalScores, order \in Shuffles(Detectives) :
       BeginNextTurn(order, eval, Nobody, phase_timer)
  /\ UNCHANGED <<alive, selected_map, rosterVars, gameVars, guess_in_flight,
                 awaiting_advance, fired>>

(* The callback of handle_submit_guess. *)
HandleJudgement(c, correct) ==
  /\ c.kind = "judge" /\ AnswerApplies(c)
  /\ calls' = calls \ {c}
  /\ guess_in_flight' = FALSE
  /\ LET p == c.player
         n == attempts_used[p] + 1
     IN  /\ attempts_used' = [attempts_used EXCEPT ![p] = n]
         /\ pending_order' = Requeue(p, n, correct)
         /\ solved_at_attempt' =
              IF correct THEN [solved_at_attempt EXCEPT ![p] = n]
              ELSE solved_at_attempt
  /\ awaiting_advance' = TRUE
  /\ UNCHANGED <<alive, state, selected_map, rosterVars, gameVars, scoreVars,
                 current_detective, crimeVars, turn_generation, phase_timer,
                 fired>>

DropAnswer(c) ==
  /\ ~AnswerApplies(c)
  /\ calls' = calls \ {c}
  /\ UNCHANGED <<alive, state, selected_map, rosterVars, gameVars, scoreVars,
                 turnVars, crimeVars, turn_generation, phase_timer, fired>>

-----------------------------------------------------------------------------
Message(p) ==
  \/ \E m \in Maps : HandleSelectMap(p, m)
  \/ HandleStartGame(p)
  \/ HandleRestartGame(p)
  \/ HandleSubmitCrime(p)
  \/ \E text \in GuessTexts : HandleSubmitGuess(p, text)
  \/ HandleNextTurn(p)
  \/ HandleNextRound(p)

Expiry == HandleCrimeWritingTimeout \/ HandleGuessTimeout \/ DropExpiry

Answer ==
  \E c \in calls :
    \/ HandleEvaluation(c)
    \/ \E correct \in BOOLEAN : HandleJudgement(c, correct)
    \/ DropAnswer(c)

(* A destroyed room whose late callbacks have all come back. *)
Gone == ~alive /\ fired = NoTimer /\ calls = {} /\ UNCHANGED vars

Next ==
  \/ HandleJoin
  \/ \E p \in players :
       \/ HandleReconnect(p)
       \/ HandleDisconnect(p)
       \/ Message(p)
  \/ TimerExpires
  \/ Expiry
  \/ Answer
  \/ Gone

Spec == Init /\ [][Next]_vars
-----------------------------------------------------------------------------
(* Fairness.  The reactor delivers an expiry and runs what it has queued,   *)
(* and OllamaClient answers every call exactly once (its stream carries an  *)
(* expiry of its own).  Nothing is assumed of the players.                  *)
SystemFairness ==
  /\ WF_vars(TimerExpires)
  /\ WF_vars(Expiry)
  /\ WF_vars(Answer)

FairSpec == Spec /\ SystemFairness

(* A room somebody attends: next_turn and next_round are sent sooner or     *)
(* later, by somebody connected who may send them then.  Only GameEnds      *)
(* supposes it.                                                             *)
HostAdvances == \E p \in connected : HandleNextTurn(p) \/ HandleNextRound(p)

Attended == WF_vars(HostAdvances)

-----------------------------------------------------------------------------
(* Type correctness of the room's fields. *)
States == {"Lobby", "CrimeWriting", "AIJudging", "Investigation",
           "NextRound", "GameOver"}
Timers == [kind : {"none", "crime", "guess"}, gen : Nat, round : Nat]
Calls  == [kind : {"evaluate", "judge"}, player : PlayerIds, gen : Nat,
           text : GuessTexts \cup {CrimeText}, map : Maps]

TypeOK ==
  /\ alive \in BOOLEAN /\ state \in States /\ selected_map \in Maps
  /\ players \subseteq PlayerIds /\ connected \subseteq players
  /\ next_player_id \in Nat \ {0} /\ host_id \in PlayerIds \cup {NoPlayer}
  /\ score \in [PlayerIds -> Nat] /\ has_been_criminal \subseteq players
  /\ criminal_queue \subseteq players /\ round_number \in Nat
  /\ criminal_id \in players \cup {NoPlayer}
  /\ crime_eval \in 0..100 /\ crime_score_revealed \in BOOLEAN
  /\ pending_order \in Seq(players)
  /\ attempts_used \in [PlayerIds -> 0..MaxAttempts]
  /\ solved_at_attempt \in [PlayerIds -> 0..MaxAttempts]
  /\ current_detective \in players \cup {NoPlayer}
  /\ guess_in_flight \in BOOLEAN /\ awaiting_advance \in BOOLEAN
  /\ turn_generation \in Nat
  /\ phase_timer \in Timers /\ fired \in Timers /\ calls \subseteq Calls
  /\ games \in Nat

(* The turn queue of an investigation: nobody stands in it twice, everybody *)
(* in it is a connected detective with an attempt left and no solution, the *)
(* fewest-attempts-first order is kept, and while the current detective     *)
(* still owes an answer that detective is at its front - so that the        *)
(* pop_front of an answer or a timeout never removes somebody else.         *)
TurnQueueOK ==
  state = "Investigation" =>
    /\ IsInjective(pending_order)
    /\ \A i \in DOMAIN pending_order :
         LET p == pending_order[i]
         IN  p \in Detectives /\ attempts_used[p] < MaxAttempts
                              /\ solved_at_attempt[p] = 0
    /\ \A i, j \in DOMAIN pending_order :
         i < j => attempts_used[pending_order[i]] <= attempts_used[pending_order[j]]
    /\ ~awaiting_advance =>
         /\ pending_order # <<>>
         /\ current_detective = Head(pending_order)

(* While anybody is connected the host is one of them: start_game,          *)
(* next_round and restart_game have a player who can send them.             *)
HostPresent == alive => host_id \in connected

(* An AI call or an expiry that would still be applied belongs to what the  *)
(* room is doing now: one evaluation while the crime is judged, one         *)
(* judgement of the current detective while a guess is in flight, both made *)
(* against the map everybody sees.                                          *)
LiveCalls == {c \in calls : AnswerApplies(c)}

LiveCallsOK ==
  \A c \in LiveCalls :
    /\ LiveCalls = {c}
    /\ c.map = selected_map
    /\ \/ c.kind = "evaluate" /\ state = "AIJudging"
       \/ /\ c.kind = "judge" /\ state = "Investigation"
          /\ guess_in_flight /\ c.player = current_detective

(* In every phase something that can end it is on its way or in the hands   *)
(* of somebody connected: a wait or its expiry, a live AI call, the host.   *)
Awaited(kind, gen) ==
  \E t \in {phase_timer, fired} : t.kind = kind /\ t.gen = gen

NeverStuck ==
  alive =>
    /\ state = "CrimeWriting" => Awaited("crime", 0)
    /\ state = "AIJudging" => LiveCalls # {}
    /\ state = "Investigation" =>
         \/ awaiting_advance /\ ~guess_in_flight
         \/ guess_in_flight /\ LiveCalls # {}
         \/ ~guess_in_flight /\ Awaited("guess", turn_generation)

(* Every player who started the game is the criminal of one round: those    *)
(* still to come, the one whose round it is and those who have been are     *)
(* apart, together the whole roster, and counted by round_number.           *)
RolesOK ==
  /\ state \in States \ {"Lobby"} =>
       /\ criminal_queue \cap (has_been_criminal \cup {criminal_id}) = {}
       /\ players = criminal_queue \cup has_been_criminal \cup {criminal_id}
       /\ round_number + Cardinality(criminal_queue) = Cardinality(players)
       /\ criminal_id \in has_been_criminal <=> ~RoundInProgress
  /\ state = "NextRound" => criminal_queue # {}
  /\ state = "GameOver" => has_been_criminal = players

(* The phases follow the diagram of the protocol: only a host's next_round  *)
(* or restart leaves NextRound or GameOver, whatever late answers and       *)
(* expiries still come in.                                                  *)
PhaseSteps ==
  {<<"Lobby", "CrimeWriting">>, <<"CrimeWriting", "AIJudging">>,
   <<"AIJudging", "Investigation">>, <<"NextRound", "CrimeWriting">>,
   <<"GameOver", "Lobby">>}
  \cup {"CrimeWriting", "AIJudging", "Investigation"} \X {"NextRound", "GameOver"}

PhasesInOrder == [][state' # state => <<state, state'>> \in PhaseSteps]_vars

(* A turn costs one attempt, the current detective's: attempts are charged  *)
(* once between two advances, and never by an answer to an earlier turn.    *)
OneAttemptPerTurn ==
  [][\A p \in PlayerIds :
       attempts_used'[p] > attempts_used[p] =>
         /\ attempts_used'[p] = attempts_used[p] + 1
         /\ p = current_detective /\ ~awaiting_advance /\ awaiting_advance'
         /\ turn_generation' = turn_generation]_vars

(* A round is paid once, as its criminal's turn is ticked off, and either   *)
(* the criminal or the solvers are paid, never both.                        *)
RoundPaidOnce ==
  [][LET paid == {p \in PlayerIds : score'[p] > score[p]}
     IN  paid # {} =>
           /\ has_been_criminal' = has_been_criminal \cup {criminal_id}
           /\ criminal_id \notin has_been_criminal
           /\ criminal_id \in paid => paid = {criminal_id}]_vars

(* Once the room is destroyed no callback touches any of its fields. *)
DeadRoomUntouched ==
  [][~alive => UNCHANGED <<state, selected_map, rosterVars, gameVars, scoreVars,
                           turnVars, crimeVars, turn_generation>>]_vars

(* "The only way either fires is genuine inaction": a crime-writing expiry  *)
(* that takes effect ends the round whose 90 seconds have run out.          *)
TimeoutMeansInaction ==
  fired.kind = "crime" /\ ExpiryApplies(fired) => fired.round = round_number

(* An idle criminal or detective cannot stall the game: the writing of a    *)
(* crime, its judging, and each turn up to its feedback come to an end.     *)
CrimeWritingEnds == \A r \in 1..MaxId :
  alive /\ state = "CrimeWriting" /\ round_number = r
    ~> ~alive \/ state # "CrimeWriting" \/ round_number # r
JudgingEnds == alive /\ state = "AIJudging" ~> ~alive \/ state # "AIJudging"
TurnAnswered ==
  alive /\ state = "Investigation" /\ ~awaiting_advance
    ~> ~alive \/ state # "Investigation" \/ awaiting_advance

(* If somebody who may always advances the game in the end, a started game  *)
(* is played out whoever drops: to GameOver, or until nobody is left.       *)
GameEnds ==
  Attended => (state \notin {"Lobby", "GameOver"} ~> ~alive \/ state = "GameOver")
==============================================================================

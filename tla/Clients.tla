------------------------------- MODULE Clients -------------------------------
(***************************************************************************)
(* A room and the web pages of its players: what each handler of the room  *)
(* sends, in its order, and what a page makes of it.                       *)
(*                                                                         *)
(* A connection delivers in order (Channel), so the page of a player who   *)
(* has read everything is decided by what was sent, and the model applies  *)
(* a message when it is sent.  What a page may do against a message still  *)
(* on its way to it - a click - is a request that the room gets to later,  *)
(* after whatever it has sent in between.                                  *)
(*                                                                         *)
(* A page is the set of elements whose own hidden attribute is off, and    *)
(* the variables its handlers read.  Texts, lists and countdowns are left  *)
(* out.  The handlers On... are the cases of handleMessage.                *)
(***************************************************************************)
EXTENDS GameRoom

CONSTANT MaxRejoins   \* bound: rejoins over the room's life

ASSUME ClientAssumption == MaxRejoins \in Nat

VARIABLES
  client,   \* the page of each connected player
  sent,     \* the form a page has sent off and the room has not seen yet
  evicted,  \* players a rejoin of whom has replaced a connection still up
  rejoins   \* rejoins so far (for the bound MaxRejoins)

clientVars == <<client, sent, evicted, rejoins>>
allVars == <<vars, clientVars>>

(* What an element lies within, in the HTML. *)
Within ==
  [start |-> {"lobby"},
   crime |-> {"round"}, investigation |-> {"round"}, waiting |-> {"round"},
   score |-> {"round"}, answer |-> {"round"},
   guess |-> {"round", "investigation"}, loading |-> {"round", "investigation"},
   next_turn |-> {"round", "investigation", "advance"},
   next_round |-> {"result"}, restart |-> {"gameover"}]

Sections == {"join", "lobby", "round", "result", "gameover"}
NoMap == "none"

(* A page as it is loaded. *)
FreshPage ==
  [shown |-> {"join", "guess"},
   room |-> [state |-> "Lobby", host |-> NoPlayer, players |-> {},
             connected |-> {}, has_been_criminal |-> {}],
   map |-> NoMap, role |-> "none", detective |-> NoPlayer, attempt |-> 0]

Only(cond, e) == IF cond THEN {e} ELSE {}
Show(page, e) == [page EXCEPT !.shown = @ \cup {e}]
Hide(page, es) == [page EXCEPT !.shown = @ \ es]

-----------------------------------------------------------------------------
(* What the room says of itself. *)

(* build_room_update *)
RoomUpdate ==
  [state |-> state, host |-> host_id, players |-> players,
   connected |-> connected, has_been_criminal |-> has_been_criminal]

Role(p) == IF p = criminal_id THEN "criminal" ELSE "detective"

SlipSyncKey(p) == crime_score_revealed    \* to whoever comes back

(* The answer key is resent to the criminal of a round that is not over.    *)
SyncKey(p) == p = criminal_id /\ crime_score_revealed

(* build_game_state_sync.  In NextRound it also carries the last            *)
(* round_result, which is never null there.                                 *)
GameStateSync(p) ==
  LET on == RoundInProgress \/ state = "NextRound"
  IN  [state |-> state,
       role |-> IF on THEN Role(p) ELSE "none",
       crime_score |-> crime_score_revealed,
       answer_key |-> on /\ SyncKey(p),
       detective |-> IF state = "Investigation" THEN current_detective ELSE NoPlayer,
       attempt |-> IF state = "Investigation"
                   THEN attempts_used[current_detective] + 1 ELSE 0]

-----------------------------------------------------------------------------
(* What the page of player p makes of a message. *)

OnJoined(page) == Show(Hide(page, {"join"}), "lobby")
OnRejoined(page) == Hide(page, {"join"})

(* renderPlayers, and the lobby when it is one *)
OnRoomUpdate(p, page, update) ==
  LET known == [page EXCEPT !.room = update,
                            !.shown = (@ \ {"start"}) \cup
                              Only(update.state = "Lobby" /\ update.host = p, "start")]
  IN  IF update.state = "Lobby"
      THEN Show(Hide(known, {"round", "result", "gameover"}), "lobby")
      ELSE known

OnBoardInfo(page, map) == [page EXCEPT !.map = map]

OnRoundStart(page) ==
  Show(Hide(page, {"lobby", "result", "crime", "investigation", "advance",
                   "waiting", "score", "answer", "loading"}), "round")

OnYourRole(page, role) ==
  LET cast == [page EXCEPT !.role = role]
  IN  IF role = "criminal" THEN Show(Hide(cast, {"waiting"}), "crime")
      ELSE Show(Hide(cast, {"crime"}), "waiting")

SlipOnTurnStartForm(p, page, detective, attempt) ==   \* the form stays as it was left
  LET on == Hide([page EXCEPT !.detective = detective, !.attempt = attempt],
                 {"advance", "loading", "crime", "investigation", "waiting"})
  IN  Show(on, IF detective = p THEN "investigation" ELSE "waiting")

OnTurnStart(p, page, detective, attempt) ==
  LET on == Hide([page EXCEPT !.detective = detective, !.attempt = attempt],
                 {"advance", "loading", "crime", "investigation", "waiting"})
  IN  IF detective = p THEN Show(Show(on, "investigation"), "guess")
      ELSE Show(on, "waiting")

SlipOnGuessPending(page) == Show(page, "loading")    \* the form stays

OnGuessPending(page) == Show(Hide(page, {"guess"}), "loading")

SlipOnGuessFeedback(p, page, by) ==    \* canAdvance for the host alone
  [page EXCEPT !.shown = (@ \ {"loading", "next_turn"}) \cup {"advance"} \cup
                           Only(page.room.host = p, "next_turn")]

SlipOnGuessFeedbackSpin(p, page, by) ==  \* guess-loading stays
  [page EXCEPT !.shown = (@ \ {"next_turn"}) \cup {"advance"} \cup
                           Only(by = p \/ page.room.host = p, "next_turn")]

(* renderAdvanceBox *)
OnGuessFeedback(p, page, by) ==
  [page EXCEPT !.shown = (@ \ {"loading", "next_turn"}) \cup {"advance"} \cup
                           Only(by = p \/ page.room.host = p, "next_turn")]

(* renderNextRoundBox *)
OnRoundResult(p, page) ==
  [page EXCEPT !.shown = (@ \ {"round", "next_round"}) \cup {"result"} \cup
                           Only(page.room.host = p, "next_round")]

OnGameOver(p, page) ==
  [page EXCEPT !.shown = (@ \ {"result", "restart"}) \cup {"gameover"} \cup
                           Only(page.room.host = p, "restart")]

(* A refused guess gets its form back. *)
OnError(p, page) ==
  IF page.room.state = "Investigation" /\ page.detective = p /\ "loading" \in page.shown
  THEN Show(Hide(page, {"loading"}), "guess")
  ELSE page

(* applyGameStateSync *)
OnGameStateSync(p, page, sync) ==
  LET boxes == {"crime", "investigation", "advance", "waiting", "score",
                "answer", "loading"}
      known == Hide([page EXCEPT !.room.state = sync.state, !.role = sync.role], boxes)
      on    == Show(Hide(known, {"lobby", "result", "gameover"}), "round")
      told  == [on EXCEPT !.shown = @ \cup Only(sync.crime_score, "score")
                                      \cup Only(sync.answer_key, "answer")]
  IN  CASE sync.state \in {"Lobby", "GameOver"} -> known
        [] sync.state = "NextRound" ->
             OnRoundResult(p, Hide(known, {"lobby", "gameover"}))
        [] sync.state = "CrimeWriting" /\ sync.role = "criminal" -> Show(told, "crime")
        [] sync.state = "Investigation" ->
             Show([told EXCEPT !.detective = sync.detective, !.attempt = sync.attempt],
                  IF sync.detective = p THEN "investigation" ELSE "waiting")
        [] OTHER -> Show(told, "waiting")

-----------------------------------------------------------------------------
(* What the handlers of the room send, in their order.  RoomSender reaches  *)
(* the players who have a session: in the model, who is connected.          *)
Deliver(pages) ==
  client' = [p \in PlayerIds |-> IF p \in connected' THEN pages[p] ELSE FreshPage]

Updated(p, page) == OnRoomUpdate(p, page, RoomUpdate')

(* start_round *)
RoundStarted(p, page) == Updated(p, OnYourRole(OnRoundStart(page), Role(p)'))

SlipRoundFinishedUntold(p, page) ==    \* no room_update after game_over
  LET result == OnRoundResult(p, page)
  IN  IF state' = "GameOver" THEN OnGameOver(p, result) ELSE Updated(p, result)

SlipRoundFinished(p, page) ==    \* round_result after game_over
  LET over == IF state' = "GameOver" THEN OnGameOver(p, page) ELSE page
  IN  Updated(p, OnRoundResult(p, over))

(* finish_round *)
RoundFinished(p, page) ==
  LET result == OnRoundResult(p, page)
  IN  Updated(p, IF state' = "GameOver" THEN OnGameOver(p, result) ELSE result)

(* begin_next_turn *)
TurnBegun(p, page) ==
  IF state' = "Investigation"
  THEN Updated(p, OnTurnStart(p, page, current_detective',
                              attempts_used'[current_detective'] + 1))
  ELSE RoundFinished(p, page)

(* send_room_snapshot *)
Snapshot(p, page) == OnBoardInfo(Updated(p, page), selected_map')

(* handle_join_room: the newcomer's session is not yet registered when the  *)
(* room tells the others.                                                   *)
Join ==
  /\ HandleJoin
  /\ Deliver([p \in PlayerIds |->
       IF p = next_player_id THEN Snapshot(p, OnJoined(FreshPage))
       ELSE Updated(p, client[p])])
  /\ UNCHANGED <<sent, evicted, rejoins>>

(* handle_rejoin: a new page.  The session is registered before the room    *)
(* tells everybody, and a form that an older connection has sent off may    *)
(* still come.                                                              *)
Rejoin(p) ==
  /\ rejoins < MaxRejoins
  /\ rejoins' = rejoins + 1
  /\ HandleReconnect(p)
  /\ Deliver([q \in PlayerIds |->
       IF q = p
       THEN OnGameStateSync(p, Snapshot(p, OnRejoined(Updated(p, FreshPage))),
                            GameStateSync(p)')
       ELSE Updated(q, client[q])])
  /\ evicted' = evicted \cup ({p} \cap connected)
  /\ sent' \in {sent, [sent EXCEPT ![p] = "none"]}

SlipClosed(p) == UNCHANGED sent    \* what was under way is read all the same

(* What a connection has under way when it goes is lost with it. *)
Closed(p) == sent' = [sent EXCEPT ![p] = "none"]

Drop(p) ==
  /\ HandleDisconnect(p)
  /\ Deliver([q \in PlayerIds |->
       CASE p = criminal_id /\ RoundInProgress ->
              RoundFinished(q, OnError(q, client[q]))
         [] p = current_detective /\ state = "Investigation" ->
              TurnBegun(q, client[q])
         [] OTHER -> Updated(q, client[q])])
  /\ Closed(p)
  /\ UNCHANGED <<evicted, rejoins>>

-----------------------------------------------------------------------------
(* The clicks that change the page before the server has answered.          *)
Sees(p, e) ==
  /\ e \in client[p].shown
  /\ e \in DOMAIN Within => Within[e] \subseteq client[p].shown

ClickSubmitCrime(p) ==
  /\ Sees(p, "crime") /\ sent[p] = "none"
  /\ sent' = [sent EXCEPT ![p] = "submit_crime"]
  /\ client' = [client EXCEPT ![p] = Show(Hide(@, {"crime"}), "waiting")]
  /\ UNCHANGED <<vars, evicted, rejoins>>

ClickSubmitGuess(p) ==
  /\ Sees(p, "guess") /\ sent[p] = "none"
  /\ sent' = [sent EXCEPT ![p] = "submit_guess"]
  /\ client' = [client EXCEPT ![p] = OnGuessPending(@)]
  /\ UNCHANGED <<vars, evicted, rejoins>>

(* A message comes over the connection of the player, or over one that a    *)
(* rejoin has replaced.  A form comes after the click that sends it off;    *)
(* the other buttons leave the page as it is.                               *)
MaySend(p) == p \in connected \cup evicted
Submitted(p, form) == sent[p] = form \/ p \in evicted \ connected

SelectMap(p) ==
  /\ MaySend(p)
  /\ \E m \in Maps : HandleSelectMap(p, m)
  /\ Deliver([q \in PlayerIds |-> OnBoardInfo(client[q], selected_map')])
  /\ UNCHANGED <<sent, evicted, rejoins>>

StartGame(p) ==
  /\ MaySend(p)
  /\ HandleStartGame(p)
  /\ Deliver([q \in PlayerIds |->
       RoundStarted(q, OnBoardInfo(client[q], selected_map'))])
  /\ UNCHANGED <<sent, evicted, rejoins>>

RestartGame(p) ==
  /\ MaySend(p)
  /\ HandleRestartGame(p)
  /\ Deliver([q \in PlayerIds |-> Updated(q, client[q])])
  /\ UNCHANGED <<sent, evicted, rejoins>>

NextRound(p) ==
  /\ MaySend(p)
  /\ HandleNextRound(p)
  /\ Deliver([q \in PlayerIds |-> RoundStarted(q, client[q])])
  /\ UNCHANGED <<sent, evicted, rejoins>>

NextTurn(p) ==
  /\ MaySend(p)
  /\ HandleNextTurn(p)
  /\ Deliver([q \in PlayerIds |-> TurnBegun(q, client[q])])
  /\ UNCHANGED <<sent, evicted, rejoins>>

SubmitCrime(p) ==
  /\ Submitted(p, "submit_crime")
  /\ HandleSubmitCrime(p)
  /\ Deliver([q \in PlayerIds |-> Updated(q, client[q])])
  /\ sent' = [sent EXCEPT ![p] = "none"]
  /\ UNCHANGED <<evicted, rejoins>>

SubmitGuess(p, text) ==
  /\ Submitted(p, "submit_guess")
  /\ HandleSubmitGuess(p, text)
  /\ Deliver([client EXCEPT ![p] = OnGuessPending(@)])
  /\ sent' = [sent EXCEPT ![p] = "none"]
  /\ UNCHANGED <<evicted, rejoins>>

(* The error paths of the two forms.  Any crime text may lack the name of a *)
(* weapon or of a place; a guess is refused by its guards alone.            *)
Refuse(p) ==
  /\ alive
  /\ sent[p] = "submit_crime" \/ (sent[p] = "submit_guess" /\ ~MayGuess(p))
  /\ client' = [client EXCEPT ![p] = OnError(p, @)]
  /\ sent' = [sent EXCEPT ![p] = "none"]
  /\ UNCHANGED <<vars, evicted, rejoins>>

-----------------------------------------------------------------------------
(* Expiries and AI answers *)

CrimeWritingTimeout ==
  /\ HandleCrimeWritingTimeout
  /\ Deliver([p \in PlayerIds |-> RoundFinished(p, OnError(p, client[p]))])
  /\ UNCHANGED <<sent, evicted, rejoins>>

GuessTimeout ==
  /\ HandleGuessTimeout
  /\ Deliver([p \in PlayerIds |-> OnGuessFeedback(p, client[p], current_detective)])
  /\ UNCHANGED <<sent, evicted, rejoins>>

(* crime_score_revealed to all, crime_answer_key to the criminal *)
EvaluationArrives(c) ==
  /\ HandleEvaluation(c)
  /\ Deliver([p \in PlayerIds |->
       LET scored == Show(client[p], "score")
       IN  TurnBegun(p, IF p = criminal_id THEN Show(scored, "answer") ELSE scored)])
  /\ UNCHANGED <<sent, evicted, rejoins>>

JudgementArrives(c) ==
  /\ \E correct \in BOOLEAN : HandleJudgement(c, correct)
  /\ Deliver([p \in PlayerIds |-> OnGuessFeedback(p, client[p], c.player)])
  /\ UNCHANGED <<sent, evicted, rejoins>>

Silent ==
  /\ TimerExpires \/ DropExpiry \/ (\E c \in calls : DropAnswer(c)) \/ Gone
  /\ UNCHANGED clientVars

-----------------------------------------------------------------------------
(* The page of the player who created the room has had room_created and the *)
(* snapshot.                                                                *)
ClientInit ==
  /\ Init
  /\ client = [p \in PlayerIds |->
       IF p \in connected
       THEN OnBoardInfo(OnRoomUpdate(p, OnJoined(FreshPage), RoomUpdate), selected_map)
       ELSE FreshPage]
  /\ sent = [p \in PlayerIds |-> "none"]
  /\ evicted = {} /\ rejoins = 0

Buttons(p) ==
  \/ SelectMap(p)
  \/ StartGame(p)
  \/ RestartGame(p)
  \/ NextRound(p)
  \/ NextTurn(p)

Forms(p) ==
  \/ ClickSubmitCrime(p)
  \/ ClickSubmitGuess(p)
  \/ SubmitCrime(p)
  \/ \E text \in GuessTexts : SubmitGuess(p, text)
  \/ Refuse(p)

Answered == \E c \in calls : EvaluationArrives(c) \/ JudgementArrives(c)

ClientNext ==
  \/ Join
  \/ \E p \in players : Rejoin(p) \/ Drop(p) \/ Buttons(p) \/ Forms(p)
  \/ CrimeWritingTimeout
  \/ GuessTimeout
  \/ Answered
  \/ Silent

ClientSpec == ClientInit /\ [][ClientNext]_allVars

-----------------------------------------------------------------------------
(* Types; and a player who is not connected has no page and nothing sent    *)
(* off: whoever comes back does so with a page of their own.                *)
Elements == Sections \cup DOMAIN Within \cup {"advance"}
Updates ==
  [state : States, host : PlayerIds \cup {NoPlayer}, players : SUBSET PlayerIds,
   connected : SUBSET PlayerIds, has_been_criminal : SUBSET PlayerIds]
Pages ==
  [shown : SUBSET Elements, room : Updates, map : Maps \cup {NoMap},
   role : {"none", "criminal", "detective"}, detective : PlayerIds \cup {NoPlayer},
   attempt : 0..(MaxAttempts + 1)]

ClientTypeOK ==
  /\ client \in [PlayerIds -> Pages]
  /\ sent \in [PlayerIds -> {"none", "submit_crime", "submit_guess"}]
  /\ evicted \subseteq PlayerIds
  /\ rejoins \in 0..MaxRejoins
  /\ \A p \in PlayerIds \ connected : client[p] = FreshPage /\ sent[p] = "none"

(* Whatever the order of joins, drops, rejoins and phases, a connected page *)
(* that has read everything shows the roster, phase, host, map, role and    *)
(* turn that the room is in: no handler ends without telling.  The attempt  *)
(* is the detective's next one until the turn is answered; from then on a   *)
(* page that is synchronised shows one too many, up to the next turn.       *)
PagesCurrent ==
  \A p \in connected :
    LET page == client[p]
    IN  /\ page.room = RoomUpdate
        /\ page.map = selected_map
        /\ RoundInProgress => page.role = Role(p)
        /\ state = "Investigation" => page.detective = current_detective
        /\ state = "Investigation" /\ ~awaiting_advance =>
             page.attempt = attempts_used[current_detective] + 1

(* One section is on the screen, the one for the phase.  After a rejoin in  *)
(* GameOver there is none: the page expects room_update to bring it up.     *)
Screens(p) == client[p].shown \cap Sections

ScreenFollowsPhase ==
  \A p \in connected :
    CASE state = "Lobby" -> Screens(p) = {"lobby"}
      [] state = "NextRound" -> Screens(p) = {"result"}
      [] state = "GameOver" ->
           /\ Screens(p) \subseteq {"gameover"}
           /\ rejoins = 0 => Screens(p) # {}
      [] OTHER -> Screens(p) = {"round"}

(* The detective who may guess has the form in front of them or has sent it *)
(* off, whatever became of the guesses before; nobody else has it.  Nobody  *)
(* but the criminal has the form for the crime, and nobody once the         *)
(* investigation is on.                                                     *)
ActorHasForm ==
  \A p \in connected :
    /\ MayGuess(p) => Sees(p, "guess") \/ sent[p] = "submit_guess"
    /\ Sees(p, "guess") => state = "Investigation" /\ p = current_detective
    /\ Sees(p, "crime") => state \in {"CrimeWriting", "AIJudging"} /\ p = criminal_id

(* A button that is on the screen is one the room takes from that player    *)
(* in that phase and turn: start, next_turn, next_round, restart and the    *)
(* submit buttons of the two forms.  What can still refuse is the number of *)
(* players or the text.  Excused are the form of a turn that is answered,   *)
(* since guess_feedback does not hide what an expiry found open; the forms  *)
(* of a page that has replaced one still up, which may have submitted; and  *)
(* a crime sent off in an earlier game that comes in only now.              *)
OfferedIsAccepted ==
  \A p \in connected :
    /\ Sees(p, "start") => state = "Lobby" /\ p = host_id
    /\ Sees(p, "crime") =>
         /\ p = criminal_id
         /\ \/ state = "CrimeWriting"
            \/ state = "AIJudging" /\ (p \in evicted \/ games > 1)
    /\ Sees(p, "guess") =>
         /\ state = "Investigation" /\ p = current_detective
         /\ MayGuess(p) \/ awaiting_advance \/ p \in evicted
    /\ Sees(p, "next_turn") =>
         state = "Investigation" /\ awaiting_advance /\ p \in {current_detective, host_id}
    /\ Sees(p, "next_round") => state = "NextRound" /\ p = host_id
    /\ Sees(p, "restart") => state = "GameOver" /\ p = host_id

(* The score is before everybody's eyes while they investigate and before   *)
(* nobody's earlier; what the AI made of the crime is before the criminal's *)
(* only, as long as the round lasts.                                        *)
KnowledgeShared ==
  \A p \in connected :
    /\ Sees(p, "score") <=> state = "Investigation"
    /\ Sees(p, "answer") <=> state = "Investigation" /\ p = criminal_id

(* A page that says the guess is being judged has sent one off, or the room *)
(* is having it judged: with TurnAnswered, the spinner goes away.           *)
SpinnerHasCause ==
  \A p \in connected :
    Sees(p, "loading") =>
      \/ sent[p] = "submit_guess"
      \/ guess_in_flight /\ p = current_detective

(* Where the game waits for a click, somebody has the button: the host in   *)
(* the lobby, whoever came and went; the detective whose turn is answered;  *)
(* the host after a round and after the game, as long as nobody has         *)
(* dropped.  A rejoin that replaces a connection still up loses the         *)
(* detective's button: game_state_sync says nothing of awaiting_advance.    *)
Undisturbed == alive /\ connected = players /\ rejoins = 0

SomebodyCanGoOn ==
  /\ alive /\ state = "Lobby" => Sees(host_id, "start")
  /\ state = "Investigation" /\ awaiting_advance /\ current_detective \notin evicted
       => Sees(current_detective, "next_turn")
  /\ Undisturbed /\ state = "NextRound" => Sees(host_id, "next_round")
  /\ Undisturbed /\ state = "GameOver" => Sees(host_id, "restart")

(* PROTOCOL.md lets the host advance as well, so that a detective who is    *)
(* away does not stop the game.                                             *)
NextTurnOffered ==
  state = "Investigation" /\ awaiting_advance => Sees(host_id, "next_turn")

(* handle_disconnect hands the host's seat on so that next_round, which     *)
(* only the host may send, stays within somebody's reach.                   *)
NextRoundOffered ==
  alive /\ state = "NextRound" => Sees(host_id, "next_round")

(* A crime without the name of a weapon is answered with the request to     *)
(* put one in: the criminal still has the form to do it with.               *)
RefusedCrimeCanBeRetried ==
  state = "CrimeWriting" /\ criminal_id \in connected =>
    Sees(criminal_id, "crime") \/ sent[criminal_id] = "submit_crime"
==============================================================================

---------------------------- MODULE ClientProofs -----------------------------
(***************************************************************************)
(* Proofs about Clients, for every number of players, attempts, calls and  *)
(* rejoins and every bound.  The pages are beside the room: whatever they  *)
(* do, the room behaves as GameRoom says.  And they keep up with it.       *)
(***************************************************************************)
EXTENDS Clients, GameRoomRoundProofs

(* A step of the room with its pages is a step of the room, or none. *)
LEMMA ButtonsAreMessages ==
  ASSUME NEW p \in players, Buttons(p)  PROVE  Next
<1>1. CASE SelectMap(p)  BY <1>1 DEF SelectMap, Message, Next
<1>2. CASE StartGame(p)  BY <1>2 DEF StartGame, Message, Next
<1>3. CASE RestartGame(p)  BY <1>3 DEF RestartGame, Message, Next
<1>4. CASE NextRound(p)  BY <1>4 DEF NextRound, Message, Next
<1>5. CASE NextTurn(p)  BY <1>5 DEF NextTurn, Message, Next
<1>6. QED  BY <1>1, <1>2, <1>3, <1>4, <1>5 DEF Buttons

(* A form sent off, accepted or refused is a message to the room or no step *)
(* of it.                                                                   *)
LEMMA FormsAreMessages ==
  ASSUME NEW p \in players, Forms(p)  PROVE  [Next]_vars
<1>1. CASE ClickSubmitCrime(p) \/ ClickSubmitGuess(p) \/ Refuse(p)
  BY <1>1 DEF ClickSubmitCrime, ClickSubmitGuess, Refuse
<1>2. CASE SubmitCrime(p)  BY <1>2 DEF SubmitCrime, Message, Next
<1>3. ASSUME NEW text \in GuessTexts, SubmitGuess(p, text)  PROVE  Next
  BY <1>3 DEF SubmitGuess, Message, Next
<1>4. QED  BY <1>1, <1>2, <1>3 DEF Forms

(* A step of the room with its pages is a step of the room or leaves it     *)
(* alone.                                                                   *)
LEMMA ClientStep == [ClientNext]_allVars => [Next]_vars
<1> SUFFICES ASSUME [ClientNext]_allVars  PROVE  [Next]_vars
  OBVIOUS
<1>1. CASE Join  BY <1>1 DEF Join, Next
<1>2. ASSUME NEW p \in players, Rejoin(p) \/ Drop(p)  PROVE  Next
  BY <1>2 DEF Rejoin, Drop, Next
<1>3. ASSUME NEW p \in players, Buttons(p) \/ Forms(p)  PROVE  [Next]_vars
  BY <1>3, ButtonsAreMessages, FormsAreMessages
<1>4. CASE CrimeWritingTimeout \/ GuessTimeout
  BY <1>4 DEF CrimeWritingTimeout, GuessTimeout, Expiry, Next
<1>5. CASE Answered
  BY <1>5 DEF Answered, EvaluationArrives, JudgementArrives, Answer, Next
<1>6. CASE Silent  BY <1>6 DEF Silent, Expiry, Answer, Next
<1>7. CASE UNCHANGED allVars  BY <1>7 DEF allVars
<1>8. QED  BY <1>1, <1>2, <1>3, <1>4, <1>5, <1>6, <1>7 DEF ClientNext

(* Every behaviour of a room with its pages is one of the room: what is     *)
(* proved of GameRoom holds of the room whose messages the pages show.      *)
THEOREM ClientsRunTheRoom == ClientSpec => Spec
<1>1. ClientInit => Init  BY DEF ClientInit
<1>2. QED  BY <1>1, ClientStep, PTL DEF ClientSpec, Spec

-----------------------------------------------------------------------------
(* What the pages rely on of the room, beyond RoomInv: the crime's score is *)
(* known from the investigation on and not before, and an investigation has *)
(* a detective who is there.                                                *)
StageOK ==
  /\ state \in {"CrimeWriting", "AIJudging"} => ~crime_score_revealed
  /\ state = "Investigation" =>
       crime_score_revealed /\ current_detective \in Detectives

(* The detective whose turn opens is at the front of the queue.             *)
LEMMA OpenTurn ==
  ASSUME RoomInv', state' = "Investigation", ~awaiting_advance'
  PROVE  current_detective' \in Detectives'
<1>1. /\ TurnQueueOK' /\ (pending_order \in Seq(players))'
  BY DEF RoomInv, TypeOK
<1>2. pending_order' # <<>> /\ current_detective' = Head(pending_order')
  BY <1>1 DEF TurnQueueOK
<1>3. 1 \in DOMAIN pending_order' /\ Head(pending_order') = pending_order'[1]
  BY <1>1, <1>2
<1>4. QED  BY <1>1, <1>2, <1>3 DEF TurnQueueOK

(* A step that keeps the turn keeps its detective. *)
LEMMA StageKept ==
  ASSUME StageOK, state' = state, crime_score_revealed' = crime_score_revealed,
         current_detective' = current_detective, criminal_id' = criminal_id,
         state = "Investigation" /\ current_detective \in connected =>
           current_detective \in connected'
  PROVE  StageOK'
BY DEF StageOK, Detectives

(* An evaluation begins the investigation, a next_turn or a detective who   *)
(* leaves the next turn, if there is one.                                   *)
LEMMA StageTurn ==
  ASSUME RoomInv', state' \notin {"CrimeWriting", "AIJudging"},
         crime_score_revealed', ~awaiting_advance'
  PROVE  StageOK'
BY OpenTurn DEF StageOK

(* No handler shows a page less than it should have seen. *)
LEMMA NextStage ==
  ASSUME RoomInv, RoomInv', QuietOK, StageOK, [Next]_vars  PROVE  StageOK'
<1>1. CASE HandleJoin
  BY <1>1, StageKept DEF HandleJoin, gameVars, turnVars, crimeVars
<1>2. CASE \E p \in players : HandleReconnect(p)
  BY <1>2, StageKept DEF HandleReconnect, gameVars, turnVars, crimeVars
<1>3. ASSUME NEW p \in players, HandleDisconnect(p)  PROVE  StageOK'
  <2>1. connected' = connected \ {p} /\ criminal_id' = criminal_id
    BY <1>3 DEF HandleDisconnect, gameVars
  <2>2. CASE LeaveLobby(p) \/ LeaveQuietly(p)
    BY <2>1, <2>2, StageKept DEF LeaveLobby, LeaveQuietly, turnVars, crimeVars
  <2>3. CASE AbortRound(p)
    BY <2>3 DEF AbortRound, FinishRound, StageOK
  <2>4. CASE LeaveInvestigation(p) /\ p # current_detective
    BY <2>1, <2>4, StageKept DEF LeaveInvestigation
  <2>5. CASE LeaveInvestigation(p) /\ p = current_detective
    <3>1. /\ ~awaiting_advance' /\ crime_score_revealed'
          /\ state' \notin {"CrimeWriting", "AIJudging"}
      BY <2>5 DEF LeaveInvestigation, BeginNextTurn, FinishRound, StageOK
    <3>2. QED  BY <3>1, StageTurn
  <2>6. QED  BY <1>3, <2>2, <2>3, <2>4, <2>5 DEF HandleDisconnect
<1>4. ASSUME NEW p \in players, Message(p)  PROVE  StageOK'
  <2>1. CASE \E m \in Maps : HandleSelectMap(p, m)
    BY <2>1, StageKept DEF HandleSelectMap, rosterVars, gameVars, turnVars, crimeVars
  <2>2. CASE HandleStartGame(p) \/ HandleNextRound(p) \/ HandleRestartGame(p)
    BY <2>2
    DEF HandleStartGame, HandleNextRound, HandleRestartGame, StartRound, ClearRound,
        StageOK
  <2>3. CASE HandleSubmitCrime(p)
    BY <2>3 DEF HandleSubmitCrime, crimeVars, StageOK
  <2>4. CASE \E text \in GuessTexts : HandleSubmitGuess(p, text)
    BY <2>4, StageKept DEF HandleSubmitGuess, rosterVars, gameVars, crimeVars
  <2>5. CASE HandleNextTurn(p)
    <3>1. /\ ~awaiting_advance' /\ crime_score_revealed'
          /\ state' \notin {"CrimeWriting", "AIJudging"}
      BY <2>5 DEF HandleNextTurn, BeginNextTurn, FinishRound, StageOK
    <3>2. QED  BY <3>1, StageTurn
  <2>6. QED  BY <1>4, <2>1, <2>2, <2>3, <2>4, <2>5 DEF Message
<1>5. CASE TimerExpires \/ HandleGuessTimeout \/ DropExpiry
  BY <1>5, StageKept
  DEF TimerExpires, HandleGuessTimeout, DropExpiry, rosterVars, gameVars, turnVars,
      crimeVars
<1>6. CASE HandleCrimeWritingTimeout
  BY <1>6 DEF HandleCrimeWritingTimeout, FinishRound, StageOK
<1>7. ASSUME NEW c \in calls, HandleEvaluation(c)  PROVE  StageOK'
  <2>1. state = "AIJudging"
    BY <1>7 DEF RoomInv, CallsOK, HandleEvaluation, AnswerApplies
  <2>2. crime_score_revealed' /\ state' \notin {"CrimeWriting", "AIJudging"}
    BY <1>7 DEF HandleEvaluation, BeginNextTurn, FinishRound
  <2>3. ~awaiting_advance'
    BY <1>7, <2>1 DEF QuietOK, HandleEvaluation
  <2>4. QED  BY <2>2, <2>3, StageTurn
<1>8. CASE \E c \in calls : \/ DropAnswer(c)
                            \/ \E correct \in BOOLEAN : HandleJudgement(c, correct)
  BY <1>8, StageKept
  DEF DropAnswer, HandleJudgement, rosterVars, gameVars, turnVars, crimeVars
<1>9. CASE UNCHANGED vars
  BY <1>9, StageKept DEF vars, rosterVars, gameVars, turnVars, crimeVars
<1>10. QED
  BY <1>1, <1>2, <1>3, <1>4, <1>5, <1>6, <1>7, <1>8, <1>9
  DEF Next, Expiry, Answer, Gone

(* What is known of the room that the pages show. *)
ShownRoom == RoomInv /\ ProgressInv /\ HostInv /\ StageOK

(* The room starts so and stays so, beside its pages as without them. *)
LEMMA InitShownRoom == ClientInit => ShownRoom
<1> SUFFICES ASSUME ClientInit  PROVE  ShownRoom
  OBVIOUS
<1>1. Init  BY DEF ClientInit
<1>2. RoomInv  BY <1>1, InitInv
<1>3. ProgressInv /\ HostInv /\ StageOK
  BY <1>1 DEF Init, ProgressInv, NeverStuck, QuietOK, HostInv, HostPresent, StageOK
<1>4. QED  BY <1>2, <1>3 DEF ShownRoom

(* A step of the room with its pages keeps the room in good order.          *)
LEMMA NextShownRoom == ShownRoom /\ [ClientNext]_allVars => ShownRoom'
<1> SUFFICES ASSUME ShownRoom, [ClientNext]_allVars  PROVE  ShownRoom'
  OBVIOUS
<1>1. [Next]_vars /\ RoomInv /\ ProgressInv /\ HostInv /\ StageOK /\ TypeOK /\ QuietOK
  BY ClientStep DEF ShownRoom, RoomInv, ProgressInv
<1>2. RoomInv'  BY <1>1, NextInv
<1>3. ProgressInv' /\ HostInv'  BY <1>1, NextProgress, NextHost
<1>4. StageOK'  BY <1>1, <1>2, NextStage
<1>5. QED  BY <1>2, <1>3, <1>4 DEF ShownRoom
==============================================================================

------------------------- MODULE GameRoomRoundProofs -------------------------
(***************************************************************************)
(* Who is the criminal of which round, who is paid for it, and that no     *)
(* phase is left without something that can end it: proofs about GameRoom  *)
(* on top of the room's inductive invariant.                               *)
(***************************************************************************)
EXTENDS GameRoomProofs

(* The criminal solves nothing. *)
SolvedOK == RoundInProgress => solved_at_attempt[criminal_id] = 0

RolesInv == RolesOK /\ SolvedOK

roles == <<players, criminal_queue, has_been_criminal, round_number, criminal_id>>

(* In a game the criminal is somebody of the roster. *)
LEMMA CriminalKnown ==
  ASSUME TypeOK, RolesOK, RoundInProgress
  PROVE  /\ criminal_id \in players /\ criminal_id \in PlayerIds
         /\ criminal_id \notin has_been_criminal
<1>1. state \in States \ {"Lobby"}
  BY DEF RoundInProgress, States
<1>2. criminal_id \in players  BY <1>1 DEF RolesOK
<1>3. QED  BY <1>1, <1>2 DEF RolesOK, TypeOK

(* The lobby has no roles. *)
LEMMA LobbyRoles == ASSUME state' = "Lobby"  PROVE  RolesInv'
BY DEF RolesInv, RolesOK, SolvedOK, RoundInProgress

(* A step within a phase, or from one phase of a round to the next. *)
LEMMA RolesKept ==
  ASSUME TypeOK, RolesInv, UNCHANGED roles,
         \/ state' = state /\ state \in {"NextRound", "GameOver"}
         \/ RoundInProgress /\ RoundInProgress' /\ solved_at_attempt'[criminal_id] = 0
  PROVE  RolesInv'
<1>1. CASE state' = state /\ state \in {"NextRound", "GameOver"}
  BY <1>1 DEF RolesInv, RolesOK, SolvedOK, RoundInProgress, roles
<1>2. CASE RoundInProgress /\ RoundInProgress' /\ solved_at_attempt'[criminal_id] = 0
  BY <1>2 DEF RolesInv, RolesOK, SolvedOK, RoundInProgress, States, roles
<1>3. QED  BY <1>1, <1>2

(* A finished round ticks its criminal off. *)
LEMMA FinishRoundRoles ==
  ASSUME TypeOK, RolesInv, RoundInProgress, NEW eval, NEW solved,
         FinishRound(eval, solved),
         UNCHANGED <<players, criminal_queue, round_number, criminal_id>>
  PROVE  RolesInv'
<1>1. has_been_criminal' = has_been_criminal \cup {criminal_id}
  BY CriminalKnown DEF FinishRound, RolesInv
<1>2. state' = IF criminal_queue = {} THEN "GameOver" ELSE "NextRound"
  BY DEF FinishRound
<1>3. ~RoundInProgress'  BY <1>2 DEF RoundInProgress
<1>4. state \in States \ {"Lobby"}  BY DEF RoundInProgress, States
<1>5. QED
  BY <1>1, <1>2, <1>3, <1>4 DEF RolesInv, RolesOK, SolvedOK

(* A turn begins in the round there is, or the round is finished. *)
LEMMA BeginNextTurnRoles ==
  ASSUME TypeOK, RolesInv, RoundInProgress,
         NEW pending, NEW eval, NEW solved, NEW timer,
         BeginNextTurn(pending, eval, solved, timer),
         solved[criminal_id] = 0,
         UNCHANGED <<players, criminal_queue, round_number, criminal_id>>
  PROVE  RolesInv'
<1>1. CASE pending = <<>>
  BY <1>1, FinishRoundRoles DEF BeginNextTurn
<1>2. CASE pending # <<>>
  <2>1. /\ state' = "Investigation" /\ solved_at_attempt' = solved
        /\ has_been_criminal' = has_been_criminal
    BY <1>2 DEF BeginNextTurn, scoreVars
  <2>2. RoundInProgress'  BY <2>1 DEF RoundInProgress
  <2>3. QED  BY <2>1, <2>2, RolesKept DEF roles
<1>3. QED  BY <1>1, <1>2

(* A round takes its criminal out of those still to come. *)
LEMMA StartRoundRoles ==
  ASSUME TypeOK, NEW queue \in SUBSET players, NEW round \in Nat,
         StartRound(queue, round),
         players = queue \cup has_been_criminal,
         queue \cap has_been_criminal = {},
         round + Cardinality(queue) = Cardinality(players),
         UNCHANGED <<players, has_been_criminal>>
  PROVE  RolesInv'
<1>1. PICK c \in queue : criminal_id' = c /\ criminal_queue' = queue \ {c}
  BY DEF StartRound
<1>2. round_number' = round + 1 /\ state' = "CrimeWriting"
  BY DEF StartRound
<1>3. solved_at_attempt'[criminal_id'] = 0
  <2>1. c \in PlayerIds  BY <1>1 DEF TypeOK
  <2>2. solved_at_attempt' = Nobody  BY DEF StartRound, ClearRound
  <2>3. QED  BY <1>1, <2>1, <2>2 DEF Nobody
<1>4. round_number' + Cardinality(criminal_queue') = Cardinality(players')
  <2>1. IsFiniteSet(queue) /\ Cardinality(queue) \in Nat
    BY SomePlayers DEF TypeOK
  <2>2. Cardinality(queue \ {c}) = Cardinality(queue) - 1
    BY <1>1, <2>1, FS_RemoveElement
  <2>3. QED  BY <1>1, <1>2, <2>1, <2>2
<1>5. QED
  BY <1>1, <1>2, <1>3, <1>4 DEF RolesInv, RolesOK, SolvedOK, RoundInProgress

(* A drop changes no role, except that it may finish the criminal's round. *)
LEMMA DisconnectRoles ==
  ASSUME RoomInv, RolesInv, NEW p \in players, HandleDisconnect(p)
  PROVE  RolesInv'
<1>1. TypeOK  BY DEF RoomInv
<1>2. UNCHANGED <<criminal_queue, round_number, criminal_id>>
  BY DEF HandleDisconnect, gameVars
<1>3. CASE LeaveLobby(p)
  BY <1>3, LobbyRoles DEF LeaveLobby
<1>4. CASE SucceedHost(p) /\ AbortRound(p)
  <2>1. players' = players  BY <1>4 DEF SucceedHost
  <2>2. RoundInProgress /\ FinishRound(0, Nobody)  BY <1>4 DEF AbortRound
  <2>3. QED  BY <1>1, <1>2, <2>1, <2>2, FinishRoundRoles
<1>5. CASE SucceedHost(p) /\ LeaveInvestigation(p)
  <2>1. players' = players  BY <1>5 DEF SucceedHost
  <2>2. RoundInProgress  BY <1>5 DEF LeaveInvestigation, RoundInProgress
  <2>3. solved_at_attempt[criminal_id] = 0  BY <2>2 DEF RolesInv, SolvedOK
  <2>4. CASE p = current_detective
    BY <1>1, <1>2, <1>5, <2>1, <2>2, <2>3, <2>4, BeginNextTurnRoles
    DEF LeaveInvestigation
  <2>5. CASE p # current_detective
    <3>1. UNCHANGED <<state, has_been_criminal, solved_at_attempt>>
      BY <1>5, <2>5 DEF LeaveInvestigation, scoreVars
    <3>2. RoundInProgress'  BY <2>2, <3>1 DEF RoundInProgress
    <3>3. QED  BY <1>1, <1>2, <2>1, <2>2, <2>3, <3>1, <3>2, RolesKept DEF roles
  <2>6. QED  BY <2>4, <2>5
<1>6. CASE SucceedHost(p) /\ LeaveQuietly(p)
  <2>1. UNCHANGED <<roles, state, solved_at_attempt>>
    BY <1>2, <1>6 DEF SucceedHost, LeaveQuietly, scoreVars, turnVars, roles
  <2>2. CASE RoundInProgress
    <3>1. RoundInProgress'  BY <2>1, <2>2 DEF RoundInProgress
    <3>2. QED  BY <1>1, <2>1, <2>2, <3>1, RolesKept DEF RolesInv, SolvedOK
  <2>3. CASE ~RoundInProgress
    <3>1. state \in {"NextRound", "GameOver"}
      BY <1>1, <1>6, <2>3 DEF TypeOK, States, LeaveQuietly, RoundInProgress
    <3>2. QED  BY <1>1, <2>1, <3>1, RolesKept
  <2>4. QED  BY <2>2, <2>3
<1>7. QED  BY <1>3, <1>4, <1>5, <1>6 DEF HandleDisconnect

(* The handlers that start a round, and the one that ends the game. *)
LEMMA RoundMessageRoles ==
  ASSUME RoomInv, RolesInv, NEW p \in players,
         HandleStartGame(p) \/ HandleNextRound(p) \/ HandleRestartGame(p)
  PROVE  RolesInv'
<1>1. TypeOK /\ LobbyOK  BY DEF RoomInv
<1>2. CASE HandleStartGame(p)
  <2>1. /\ StartRound(players, 0) /\ state = "Lobby"
        /\ UNCHANGED <<players, has_been_criminal>>
    BY <1>2 DEF HandleStartGame, rosterVars, scoreVars
  <2>2. has_been_criminal = {}  BY <1>1, <2>1 DEF LobbyOK
  <2>3. 0 + Cardinality(players) = Cardinality(players)
    <3>1. players \in SUBSET PlayerIds  BY <1>1 DEF TypeOK
    <3>2. Cardinality(players) \in Nat  BY <3>1, SomePlayers
    <3>3. QED  BY <3>2
  <2>4. QED  BY <1>1, <2>1, <2>2, <2>3, StartRoundRoles
<1>3. CASE HandleNextRound(p)
  <2>1. /\ StartRound(criminal_queue, round_number) /\ state = "NextRound"
        /\ UNCHANGED <<players, has_been_criminal>>
    BY <1>3 DEF HandleNextRound, rosterVars, scoreVars
  <2>2. state \in States \ {"Lobby"} /\ ~RoundInProgress
    BY <2>1 DEF States, RoundInProgress
  <2>3. criminal_id \in has_been_criminal
    BY <2>2 DEF RolesInv, RolesOK
  <2>4. /\ players = criminal_queue \cup has_been_criminal
        /\ criminal_queue \cap has_been_criminal = {}
        /\ round_number + Cardinality(criminal_queue) = Cardinality(players)
    BY <2>2, <2>3 DEF RolesInv, RolesOK
  <2>5. criminal_queue \in SUBSET players /\ round_number \in Nat
    BY <1>1 DEF TypeOK
  <2>6. QED  BY <1>1, <2>1, <2>4, <2>5, StartRoundRoles
<1>4. CASE HandleRestartGame(p)
  BY <1>4, LobbyRoles DEF HandleRestartGame
<1>5. QED  BY <1>2, <1>3, <1>4

(* The handlers of a turn. *)
LEMMA TurnRoles ==
  ASSUME RoomInv, RolesInv,
         \/ \E p \in players : \/ HandleSubmitCrime(p)
                               \/ \E text \in GuessTexts : HandleSubmitGuess(p, text)
         \/ HandleGuessTimeout
  PROVE  RolesInv'
<1>1. TypeOK /\ TimersOK  BY DEF RoomInv
<1>2. UNCHANGED <<roles, solved_at_attempt>>
  BY DEF HandleSubmitCrime, HandleSubmitGuess, HandleGuessTimeout, rosterVars,
         gameVars, scoreVars, turnVars, roles
<1>3. RoundInProgress /\ RoundInProgress'
  BY <1>1
  DEF HandleSubmitCrime, HandleSubmitGuess, MayGuess, HandleGuessTimeout,
      ExpiryApplies, TimersOK, RoundInProgress
<1>4. QED  BY <1>1, <1>2, <1>3, RolesKept DEF RolesInv, SolvedOK

(* A detective who solves the crime is not its criminal. *)
LEMMA AnswerRoles ==
  ASSUME RoomInv, RolesInv, Answer  PROVE  RolesInv'
<1>1. TypeOK /\ CallsOK /\ FlagsOK /\ TurnQueueOK  BY DEF RoomInv
<1>2. PICK c \in calls :
        \/ HandleEvaluation(c)
        \/ \E correct \in BOOLEAN : HandleJudgement(c, correct)
        \/ DropAnswer(c)
  BY DEF Answer
<1>3. UNCHANGED <<players, criminal_queue, round_number, criminal_id>>
  BY <1>2 DEF HandleEvaluation, HandleJudgement, DropAnswer, rosterVars, gameVars
<1>4. CASE HandleEvaluation(c)
  <2>1. RoundInProgress
    BY <1>1, <1>4 DEF HandleEvaluation, CallsOK, AnswerApplies, RoundInProgress
  <2>2. PICK eval \in EvalScores, order \in Shuffles(Detectives) :
          BeginNextTurn(order, eval, Nobody, phase_timer)
    BY <1>4 DEF HandleEvaluation
  <2>3. Nobody[criminal_id] = 0
    BY <1>1, <2>1, CriminalKnown DEF Nobody, RolesInv
  <2>4. QED  BY <1>1, <1>3, <2>1, <2>2, <2>3, BeginNextTurnRoles
<1>5. CASE \E correct \in BOOLEAN : HandleJudgement(c, correct)
  <2>1. PICK correct \in BOOLEAN : HandleJudgement(c, correct)  BY <1>5
  <2>2. /\ state = "Investigation" /\ ~awaiting_advance
        /\ c.player = current_detective
    BY <1>1, <2>1, LiveJudgement DEF HandleJudgement
  <2>3. c.player # criminal_id
    <3>1. pending_order # <<>> /\ c.player = Head(pending_order)
      BY <1>1, <2>2, CurrentHasAttempt
    <3>2. 1 \in DOMAIN pending_order /\ Head(pending_order) = pending_order[1]
      BY <1>1, <3>1 DEF TypeOK
    <3>3. QED  BY <1>1, <2>2, <3>1, <3>2 DEF TurnQueueOK, Detectives
  <2>4. solved_at_attempt'[criminal_id] = solved_at_attempt[criminal_id]
    BY <2>1, <2>3 DEF HandleJudgement
  <2>5. RoundInProgress /\ RoundInProgress' /\ UNCHANGED has_been_criminal
    BY <2>1, <2>2 DEF HandleJudgement, RoundInProgress, scoreVars
  <2>6. QED
    BY <1>1, <1>3, <2>4, <2>5, RolesKept DEF RolesInv, SolvedOK, roles
<1>6. CASE DropAnswer(c)
  BY <1>6
  DEF DropAnswer, RolesInv, RolesOK, SolvedOK, RoundInProgress, rosterVars,
      gameVars, scoreVars, turnVars
<1>7. QED  BY <1>2, <1>4, <1>5, <1>6

(* Every handler keeps the roles. *)
LEMMA NextRoles == RoomInv /\ RolesInv /\ [Next]_vars => RolesInv'
<1> SUFFICES ASSUME RoomInv, RolesInv, [Next]_vars  PROVE  RolesInv'
  OBVIOUS
<1>1. TypeOK  BY DEF RoomInv
<1>2. CASE HandleJoin \/ \E p \in players, m \in Maps : HandleSelectMap(p, m)
  BY <1>2, LobbyRoles DEF HandleJoin, HandleSelectMap
<1>3. CASE \/ \E p \in players : HandleReconnect(p)
           \/ TimerExpires \/ DropExpiry \/ UNCHANGED vars
  <2>1. UNCHANGED <<roles, state, solved_at_attempt>>
    BY <1>3
    DEF HandleReconnect, TimerExpires, DropExpiry, vars, rosterVars, gameVars,
        scoreVars, turnVars, roles
  <2>2. QED
    BY <2>1 DEF RolesInv, RolesOK, SolvedOK, RoundInProgress, roles
<1>4. CASE \E p \in players : HandleDisconnect(p)
  BY <1>4, DisconnectRoles
<1>5. CASE \E p \in players :
             HandleStartGame(p) \/ HandleNextRound(p) \/ HandleRestartGame(p)
  BY <1>5, RoundMessageRoles
<1>6. CASE \/ \E p \in players : \/ HandleSubmitCrime(p)
                                 \/ \E text \in GuessTexts : HandleSubmitGuess(p, text)
           \/ HandleGuessTimeout
  BY <1>6, TurnRoles
<1>7. CASE \E p \in players : HandleNextTurn(p)
  <2>1. /\ RoundInProgress
        /\ BeginNextTurn(pending_order, crime_eval, solved_at_attempt, phase_timer)
        /\ UNCHANGED <<players, criminal_queue, round_number, criminal_id>>
    BY <1>7 DEF HandleNextTurn, RoundInProgress, rosterVars, gameVars
  <2>2. QED  BY <1>1, <2>1, BeginNextTurnRoles DEF RolesInv, SolvedOK
<1>8. CASE HandleCrimeWritingTimeout
  <2>1. /\ RoundInProgress /\ FinishRound(0, solved_at_attempt)
        /\ UNCHANGED <<players, criminal_queue, round_number, criminal_id>>
    BY <1>8
    DEF HandleCrimeWritingTimeout, ExpiryApplies, RoundInProgress, rosterVars, gameVars
  <2>2. QED  BY <1>1, <2>1, FinishRoundRoles
<1>9. CASE Answer  BY <1>9, AnswerRoles
<1>10. QED
  BY <1>2, <1>3, <1>4, <1>5, <1>6, <1>7, <1>8, <1>9 DEF Next, Message, Expiry, Gone

(* The two invariants together hold in every reachable state. *)
LEMMA RolesInvariant == Spec => [](RoomInv /\ RolesInv)
<1>1. Init => RolesInv
  BY DEF Init, RolesInv, RolesOK, SolvedOK, RoundInProgress
<1>2. QED  BY <1>1, NextRoles, RoomInvariant, PTL DEF Spec

(* Whoever drops, returns, idles or is timed out, every player who started  *)
(* the game is the criminal of exactly one round, and the queue that        *)
(* next_round takes the front of is not empty.                              *)
THEOREM RolesCorrect == Spec => []RolesOK
<1>1. RolesInv => RolesOK  BY DEF RolesInv
<1>2. QED  BY <1>1, RolesInvariant, PTL

-----------------------------------------------------------------------------
(* What a round pays. *)

(* The body of RoundPaidOnce. *)
Paid == {p \in PlayerIds : score'[p] > score[p]}
PaysOnce ==
  Paid # {} =>
    /\ has_been_criminal' = has_been_criminal \cup {criminal_id}
    /\ criminal_id \notin has_been_criminal
    /\ criminal_id \in Paid => Paid = {criminal_id}

(* Clearing the scores, or leaving them alone, pays nobody. *)
LEMMA NobodyPaid ==
  ASSUME TypeOK, score' = score \/ score' = Nobody  PROVE  PaysOnce
<1>1. \A p \in PlayerIds : score[p] \in Nat /\ Nobody[p] = 0
  BY DEF TypeOK, Nobody
<1>2. \A p \in PlayerIds : ~(score'[p] > score[p])
  BY <1>1
<1>3. QED  BY <1>2 DEF PaysOnce, Paid

(* The criminal's stake is paid only if nobody else is paid anything. *)
LEMMA FinishPays ==
  ASSUME TypeOK, RolesInv, RoundInProgress, NEW eval,
         NEW solved \in [PlayerIds -> 0..MaxAttempts], solved[criminal_id] = 0,
         FinishRound(eval, solved)
  PROVE  PaysOnce
<1>1. /\ criminal_id \in players /\ criminal_id \in PlayerIds
      /\ criminal_id \notin has_been_criminal
  BY CriminalKnown DEF RolesInv
<1>2. has_been_criminal' = has_been_criminal \cup {criminal_id}
  BY <1>1 DEF FinishRound
<1>3. \A p \in PlayerIds : score[p] \in Nat
  BY DEF TypeOK
<1>4. ASSUME NEW p \in PlayerIds, Gained(p, criminal_id, eval, solved) = 0
      PROVE  p \notin Paid
  <2>1. score'[p] = score[p]
    BY <1>3, <1>4 DEF FinishRound
  <2>2. QED  BY <1>3, <2>1 DEF Paid
<1>5. ASSUME criminal_id \in Paid  PROVE  Paid = {criminal_id}
  <2>1. Gained(criminal_id, criminal_id, eval, solved) # 0
    BY <1>1, <1>4, <1>5
  <2>2. ~AnyoneSolved(solved)
    BY <2>1 DEF Gained
  <2>3. ASSUME NEW p \in PlayerIds \ {criminal_id}  PROVE  p \notin Paid
    <3>1. ~(solved[p] > 0)  BY <2>2 DEF AnyoneSolved
    <3>2. Gained(p, criminal_id, eval, solved) = 0
      BY <2>3, <3>1 DEF Gained
    <3>3. QED  BY <1>4, <3>2
  <2>4. QED  BY <1>5, <2>3 DEF Paid
<1>6. QED  BY <1>1, <1>2, <1>5 DEF PaysOnce

(* A turn that begins pays nobody, a round that ends pays once. *)
LEMMA BeginNextTurnPays ==
  ASSUME TypeOK, RolesInv, RoundInProgress,
         NEW pending, NEW eval, NEW timer,
         NEW solved \in [PlayerIds -> 0..MaxAttempts], solved[criminal_id] = 0,
         BeginNextTurn(pending, eval, solved, timer)
  PROVE  PaysOnce
<1>1. CASE pending = <<>>
  BY <1>1, FinishPays DEF BeginNextTurn
<1>2. CASE pending # <<>>
  BY <1>2, NobodyPaid DEF BeginNextTurn, scoreVars
<1>3. QED  BY <1>1, <1>2

(* Every handler pays a round once or nobody. *)
LEMMA NextPays == RoomInv /\ RolesInv /\ [Next]_vars => PaysOnce
<1> SUFFICES ASSUME RoomInv, RolesInv, [Next]_vars  PROVE  PaysOnce
  OBVIOUS
<1>1. TypeOK /\ CallsOK  BY DEF RoomInv
<1>2. /\ solved_at_attempt \in [PlayerIds -> 0..MaxAttempts]
      /\ Nobody \in [PlayerIds -> 0..MaxAttempts]
  BY <1>1, ClearedTypes DEF TypeOK
<1>3. ASSUME RoundInProgress
      PROVE  solved_at_attempt[criminal_id] = 0 /\ Nobody[criminal_id] = 0
  BY <1>1, <1>3, CriminalKnown DEF RolesInv, SolvedOK, Nobody
<1>4. CASE \/ HandleJoin \/ TimerExpires \/ DropExpiry \/ HandleGuessTimeout
           \/ \E p \in players : HandleReconnect(p)
           \/ UNCHANGED vars
  <2>1. score' = score
    BY <1>4
    DEF HandleJoin, TimerExpires, DropExpiry, HandleGuessTimeout, HandleReconnect,
        vars, scoreVars
  <2>2. QED  BY <1>1, <2>1, NobodyPaid
<1>5. CASE \E p \in players : HandleDisconnect(p)
  <2>1. PICK p \in players : HandleDisconnect(p)  BY <1>5
  <2>2. CASE LeaveLobby(p) \/ LeaveQuietly(p)
    BY <1>1, <2>2, NobodyPaid DEF LeaveLobby, LeaveQuietly, scoreVars
  <2>3. CASE AbortRound(p)
    <3>1. RoundInProgress /\ FinishRound(0, Nobody)
      BY <2>3 DEF AbortRound
    <3>2. QED  BY <1>1, <1>2, <1>3, <3>1, FinishPays
  <2>4. CASE LeaveInvestigation(p)
    <3>1. RoundInProgress  BY <2>4 DEF LeaveInvestigation, RoundInProgress
    <3>2. CASE p = current_detective
      BY <1>1, <1>2, <1>3, <2>4, <3>1, <3>2, BeginNextTurnPays DEF LeaveInvestigation
    <3>3. CASE p # current_detective
      BY <1>1, <2>4, <3>3, NobodyPaid DEF LeaveInvestigation, scoreVars
    <3>4. QED  BY <3>2, <3>3
  <2>5. QED  BY <2>1, <2>2, <2>3, <2>4 DEF HandleDisconnect
<1>6. CASE \E p \in players : HandleNextTurn(p)
  <2>1. /\ RoundInProgress
        /\ BeginNextTurn(pending_order, crime_eval, solved_at_attempt, phase_timer)
    BY <1>6 DEF HandleNextTurn, RoundInProgress
  <2>2. QED  BY <1>1, <1>2, <1>3, <2>1, BeginNextTurnPays
<1>7. CASE \E p \in players :
             \/ \E m \in Maps : HandleSelectMap(p, m)
             \/ HandleStartGame(p) \/ HandleNextRound(p) \/ HandleRestartGame(p)
             \/ HandleSubmitCrime(p)
             \/ \E text \in GuessTexts : HandleSubmitGuess(p, text)
  <2>1. score' = score \/ score' = Nobody
    BY <1>7
    DEF HandleSelectMap, HandleStartGame, HandleNextRound, HandleRestartGame,
        HandleSubmitCrime, HandleSubmitGuess, scoreVars
  <2>2. QED  BY <1>1, <2>1, NobodyPaid
<1>8. CASE HandleCrimeWritingTimeout
  <2>1. RoundInProgress /\ FinishRound(0, solved_at_attempt)
    BY <1>8 DEF HandleCrimeWritingTimeout, ExpiryApplies, RoundInProgress
  <2>2. QED  BY <1>1, <1>2, <1>3, <2>1, FinishPays
<1>9. CASE \E c \in calls : HandleEvaluation(c)
  <2>1. RoundInProgress
    BY <1>1, <1>9 DEF HandleEvaluation, CallsOK, AnswerApplies, RoundInProgress
  <2>2. PICK eval \in EvalScores, order \in Shuffles(Detectives) :
          BeginNextTurn(order, eval, Nobody, phase_timer)
    BY <1>9 DEF HandleEvaluation
  <2>3. QED  BY <1>1, <1>2, <1>3, <2>1, <2>2, BeginNextTurnPays
<1>10. CASE \E c \in calls : \/ DropAnswer(c)
                             \/ \E correct \in BOOLEAN : HandleJudgement(c, correct)
  BY <1>1, <1>10, NobodyPaid DEF DropAnswer, HandleJudgement, scoreVars
<1>11. QED
  BY <1>4, <1>5, <1>6, <1>7, <1>8, <1>9, <1>10
  DEF Next, Message, Expiry, Answer, Gone

(* A round is paid once, whichever of the four handlers finishes it, and    *)
(* either to its criminal or to its solvers.                                *)
THEOREM PaymentCorrect == Spec => RoundPaidOnce
<1>1. (RoomInv /\ RolesInv) /\ [Next]_vars => [PaysOnce]_vars
  BY NextPays
<1>2. QED  BY <1>1, RolesInvariant, PTL DEF Spec, RoundPaidOnce, PaysOnce, Paid

-----------------------------------------------------------------------------
(* No phase waits for nothing. *)

(* Before the investigation no turn is open or answered. *)
QuietOK ==
  state \in {"CrimeWriting", "AIJudging"} => ~guess_in_flight /\ ~awaiting_advance

ProgressInv == NeverStuck /\ QuietOK

(* Phases that only the host leaves wait for nothing else. *)
LEMMA HostPhaseProgress ==
  ASSUME state' \in {"Lobby", "NextRound", "GameOver"}  PROVE  ProgressInv'
BY DEF ProgressInv, NeverStuck, QuietOK

(* A step that loses no wait and no live call. *)
LEMMA ProgressKept ==
  ASSUME ProgressInv, alive' => alive,
         UNCHANGED <<state, guess_in_flight, awaiting_advance, turn_generation>>,
         {phase_timer, fired} \subseteq {phase_timer', fired', NoTimer},
         alive' => LiveCalls \subseteq LiveCalls'
  PROVE  ProgressInv'
<1>1. QuietOK'  BY DEF ProgressInv, QuietOK
<1>2. ASSUME NEW kind \in {"crime", "guess"}, NEW gen, Awaited(kind, gen)
      PROVE  Awaited(kind, gen)'
  <2>1. PICK t \in {phase_timer, fired} : t.kind = kind /\ t.gen = gen
    BY <1>2 DEF Awaited
  <2>2. t # NoTimer  BY <2>1 DEF NoTimer
  <2>3. t \in {phase_timer', fired'}  BY <2>1, <2>2
  <2>4. QED  BY <2>1, <2>3 DEF Awaited
<1>3. ASSUME alive'  PROVE  NeverStuck'
  <2>1. alive /\ LiveCalls \subseteq LiveCalls'  BY <1>3
  <2>2. CASE state = "CrimeWriting"
    BY <1>2, <2>1, <2>2 DEF ProgressInv, NeverStuck
  <2>3. CASE state = "AIJudging"
    BY <2>1, <2>3 DEF ProgressInv, NeverStuck
  <2>4. CASE state = "Investigation"
    <3>1. \/ awaiting_advance /\ ~guess_in_flight
          \/ guess_in_flight /\ LiveCalls # {}
          \/ ~guess_in_flight /\ Awaited("guess", turn_generation)
      BY <2>1, <2>4 DEF ProgressInv, NeverStuck
    <3>2. Awaited("guess", turn_generation) => Awaited("guess", turn_generation')
      OBVIOUS
    <3>3. \/ awaiting_advance' /\ ~guess_in_flight'
          \/ guess_in_flight' /\ LiveCalls' # {}
          \/ ~guess_in_flight' /\ Awaited("guess", turn_generation)'
      BY <1>2, <2>1, <3>1
    <3>4. QED  BY <2>4, <3>3 DEF NeverStuck
  <2>5. CASE state \notin {"CrimeWriting", "AIJudging", "Investigation"}
    BY <2>5 DEF NeverStuck
  <2>6. QED  BY <2>2, <2>3, <2>4, <2>5
<1>4. QED  BY <1>1, <1>3 DEF ProgressInv, NeverStuck

(* A turn that begins has its own wait. *)
LEMMA BeginNextTurnProgress ==
  ASSUME TypeOK, NEW pending, NEW eval, NEW solved, NEW timer,
         BeginNextTurn(pending, eval, solved, timer), ~guess_in_flight'
  PROVE  ProgressInv'
<1>1. CASE pending = <<>>
  BY <1>1, HostPhaseProgress DEF BeginNextTurn, FinishRound
<1>2. CASE pending # <<>>
  <2>1. /\ state' = "Investigation"
        /\ phase_timer' = GuessTimer(turn_generation + 1)
        /\ turn_generation' = turn_generation + 1
    BY <1>2 DEF BeginNextTurn
  <2>2. phase_timer'.kind = "guess" /\ phase_timer'.gen = turn_generation'
    BY <2>1 DEF GuessTimer
  <2>3. Awaited("guess", turn_generation)'  BY <2>2 DEF Awaited
  <2>4. QED  BY <2>1, <2>3 DEF ProgressInv, NeverStuck, QuietOK
<1>3. QED  BY <1>1, <1>2

(* A round that starts has its own wait. *)
LEMMA StartRoundProgress ==
  ASSUME NEW queue, NEW round, StartRound(queue, round)  PROVE  ProgressInv'
<1>1. /\ state' = "CrimeWriting"
      /\ phase_timer'.kind = "crime" /\ phase_timer'.gen = 0
      /\ ~guess_in_flight' /\ ~awaiting_advance'
  BY DEF StartRound, CrimeTimer, ClearRound
<1>2. Awaited("crime", 0)'  BY <1>1 DEF Awaited
<1>3. QED  BY <1>1, <1>2 DEF ProgressInv, NeverStuck, QuietOK

(* Whoever drops, the phase keeps what it waits for or is left. *)
LEMMA DisconnectProgress ==
  ASSUME RoomInv, ProgressInv, NEW p \in players, HandleDisconnect(p)
  PROVE  ProgressInv'
<1>1. TypeOK /\ alive /\ UNCHANGED <<fired, calls>>
  BY DEF RoomInv, HandleDisconnect
<1>2. turn_generation' = turn_generation /\ alive' => LiveCalls' = LiveCalls
  BY <1>1 DEF LiveCalls, AnswerApplies
<1>3. CASE LeaveLobby(p)
  BY <1>3, HostPhaseProgress DEF LeaveLobby
<1>4. CASE AbortRound(p)
  BY <1>4, HostPhaseProgress DEF AbortRound, FinishRound
<1>5. CASE LeaveInvestigation(p)
  <2>1. CASE p = current_detective
    BY <1>1, <1>5, <2>1, BeginNextTurnProgress DEF LeaveInvestigation
  <2>2. CASE p # current_detective
    BY <1>1, <1>2, <1>5, <2>2, ProgressKept DEF LeaveInvestigation
  <2>3. QED  BY <2>1, <2>2
<1>6. CASE LeaveQuietly(p)
  BY <1>1, <1>2, <1>6, ProgressKept DEF LeaveQuietly, turnVars
<1>7. QED  BY <1>3, <1>4, <1>5, <1>6 DEF HandleDisconnect

(* What is submitted is being judged. *)
LEMMA SubmitProgress ==
  ASSUME ProgressInv, NEW p,
         HandleSubmitCrime(p) \/ \E text \in GuessTexts : HandleSubmitGuess(p, text)
  PROVE  ProgressInv'
<1>1. CASE HandleSubmitCrime(p)
  <2>1. /\ alive' /\ EvaluateCall \in calls'
        /\ EvaluateCall.gen = turn_generation'
    BY <1>1 DEF HandleSubmitCrime, EvaluateCall
  <2>2. LiveCalls' # {}  BY <2>1 DEF LiveCalls, AnswerApplies
  <2>3. state' = "AIJudging" /\ ~guess_in_flight' /\ ~awaiting_advance'
    BY <1>1 DEF HandleSubmitCrime, ProgressInv, QuietOK, turnVars
  <2>4. QED  BY <2>2, <2>3 DEF ProgressInv, NeverStuck, QuietOK
<1>2. CASE \E text \in GuessTexts : HandleSubmitGuess(p, text)
  <2>1. PICK text \in GuessTexts : HandleSubmitGuess(p, text)  BY <1>2
  <2>2. /\ alive' /\ JudgeCall(p, text) \in calls'
        /\ JudgeCall(p, text).gen = turn_generation'
    BY <2>1 DEF HandleSubmitGuess, JudgeCall
  <2>3. LiveCalls' # {}  BY <2>2 DEF LiveCalls, AnswerApplies
  <2>4. state' = "Investigation" /\ guess_in_flight'
    BY <2>1 DEF HandleSubmitGuess, MayGuess
  <2>5. QED  BY <2>3, <2>4 DEF ProgressInv, NeverStuck, QuietOK
<1>3. QED  BY <1>1, <1>2

(* An expiry that is dropped is not the one the phase waits for. *)
LEMMA DropExpiryProgress ==
  ASSUME ProgressInv, DropExpiry  PROVE  ProgressInv'
<1>1. /\ ~ExpiryApplies(fired) /\ fired' = NoTimer
      /\ UNCHANGED <<alive, state, guess_in_flight, awaiting_advance,
                     turn_generation, phase_timer, calls>>
  BY DEF DropExpiry, turnVars
<1>2. LiveCalls' = LiveCalls  BY <1>1 DEF LiveCalls, AnswerApplies
<1>3. QuietOK'  BY <1>1 DEF ProgressInv, QuietOK
<1>4. ASSUME alive  PROVE  NeverStuck'
  <2>1. CASE state = "CrimeWriting"
    <3>1. fired.kind # "crime"  BY <1>1, <1>4, <2>1 DEF ExpiryApplies
    <3>2. phase_timer'.kind = "crime" /\ phase_timer'.gen = 0
      BY <1>1, <1>4, <2>1, <3>1 DEF ProgressInv, NeverStuck, Awaited
    <3>3. Awaited("crime", 0)'  BY <3>2 DEF Awaited
    <3>4. QED  BY <1>1, <2>1, <3>3 DEF NeverStuck
  <2>2. CASE state = "Investigation"
    <3>1. CASE ~guess_in_flight /\ ~awaiting_advance
      <4>1. ~(fired.kind = "guess" /\ fired.gen = turn_generation)
        BY <1>1, <1>4, <3>1 DEF ExpiryApplies
      <4>2. phase_timer'.kind = "guess" /\ phase_timer'.gen = turn_generation'
        BY <1>1, <1>4, <2>2, <3>1, <4>1 DEF ProgressInv, NeverStuck, Awaited
      <4>3. Awaited("guess", turn_generation)'  BY <4>2 DEF Awaited
      <4>4. QED  BY <1>1, <2>2, <3>1, <4>3 DEF NeverStuck
    <3>2. CASE ~guess_in_flight /\ awaiting_advance
      BY <1>1, <2>2, <3>2 DEF NeverStuck
    <3>3. CASE guess_in_flight
      BY <1>1, <1>2, <1>4, <2>2, <3>3 DEF ProgressInv, NeverStuck
    <3>4. QED  BY <3>1, <3>2, <3>3
  <2>3. CASE state = "AIJudging"
    BY <1>1, <1>2, <1>4, <2>3 DEF ProgressInv, NeverStuck
  <2>4. CASE state \notin {"CrimeWriting", "AIJudging", "Investigation"}
    BY <1>1, <2>4 DEF NeverStuck
  <2>5. QED  BY <2>1, <2>2, <2>3, <2>4
<1>5. QED  BY <1>1, <1>3, <1>4 DEF ProgressInv, NeverStuck

(* An answer that is used opens or closes a turn; one that is dropped was   *)
(* not live.                                                                *)
LEMMA AnswerProgress ==
  ASSUME RoomInv, ProgressInv, Answer  PROVE  ProgressInv'
<1>1. TypeOK /\ CallsOK  BY DEF RoomInv
<1>2. CASE \E c \in calls : HandleEvaluation(c)
  <2>1. state = "AIJudging"
    BY <1>1, <1>2 DEF HandleEvaluation, CallsOK, AnswerApplies
  <2>2. ~guess_in_flight'
    BY <1>2, <2>1 DEF HandleEvaluation, ProgressInv, QuietOK
  <2>3. PICK eval \in EvalScores, order \in Shuffles(Detectives) :
          BeginNextTurn(order, eval, Nobody, phase_timer)
    BY <1>2 DEF HandleEvaluation
  <2>4. QED  BY <1>1, <2>2, <2>3, BeginNextTurnProgress
<1>3. CASE \E c \in calls, correct \in BOOLEAN : HandleJudgement(c, correct)
  <2>1. state = "Investigation"
    BY <1>1, <1>3 DEF HandleJudgement, CallsOK, AnswerApplies
  <2>2. /\ state' = "Investigation"
        /\ guess_in_flight' = FALSE /\ awaiting_advance' = TRUE
    BY <1>3, <2>1 DEF HandleJudgement
  <2>3. QED  BY <2>2 DEF ProgressInv, NeverStuck, QuietOK
<1>4. CASE \E c \in calls : DropAnswer(c)
  <2>1. PICK c \in calls : DropAnswer(c)  BY <1>4
  <2>2. c \notin LiveCalls  BY <2>1 DEF DropAnswer, LiveCalls
  <2>3. /\ calls' = calls \ {c}
        /\ UNCHANGED <<alive, state, guess_in_flight, awaiting_advance,
                       turn_generation, phase_timer, fired>>
    BY <2>1 DEF DropAnswer, turnVars
  <2>4. LiveCalls \subseteq LiveCalls'
    BY <2>2, <2>3 DEF LiveCalls, AnswerApplies
  <2>5. QED  BY <2>3, <2>4, ProgressKept
<1>5. QED  BY <1>2, <1>3, <1>4 DEF Answer

(* Every handler leaves the phase something to wait for. *)
LEMMA NextProgress == RoomInv /\ ProgressInv /\ [Next]_vars => ProgressInv'
<1> SUFFICES ASSUME RoomInv, ProgressInv, [Next]_vars  PROVE  ProgressInv'
  OBVIOUS
<1>1. TypeOK /\ FlagsOK /\ TimersOK  BY DEF RoomInv
<1>2. CASE \/ HandleJoin \/ \E p \in players, m \in Maps : HandleSelectMap(p, m)
           \/ \E p \in players : HandleRestartGame(p)
  BY <1>2, HostPhaseProgress DEF HandleJoin, HandleSelectMap, HandleRestartGame
<1>3. CASE \/ \E p \in players : HandleReconnect(p)
           \/ TimerExpires \/ UNCHANGED vars
  <2>1. /\ UNCHANGED <<alive, state, guess_in_flight, awaiting_advance,
                       turn_generation, calls>>
        /\ {phase_timer, fired} \subseteq {phase_timer', fired', NoTimer}
    BY <1>3 DEF HandleReconnect, TimerExpires, vars, turnVars, asyncVars
  <2>2. LiveCalls' = LiveCalls  BY <2>1 DEF LiveCalls, AnswerApplies
  <2>3. QED  BY <2>1, <2>2, ProgressKept
<1>4. CASE \E p \in players : HandleDisconnect(p)
  BY <1>4, DisconnectProgress
<1>5. CASE \E p \in players : HandleStartGame(p) \/ HandleNextRound(p)
  BY <1>5, StartRoundProgress DEF HandleStartGame, HandleNextRound
<1>6. CASE \E p \in players : \/ HandleSubmitCrime(p)
                              \/ \E text \in GuessTexts : HandleSubmitGuess(p, text)
  BY <1>6, SubmitProgress
<1>7. CASE \E p \in players : HandleNextTurn(p)
  <2>1. /\ BeginNextTurn(pending_order, crime_eval, solved_at_attempt, phase_timer)
        /\ ~guess_in_flight'
    BY <1>1, <1>7 DEF HandleNextTurn, FlagsOK
  <2>2. QED  BY <1>1, <2>1, BeginNextTurnProgress
<1>8. CASE HandleCrimeWritingTimeout
  BY <1>8, HostPhaseProgress DEF HandleCrimeWritingTimeout, FinishRound
<1>9. CASE HandleGuessTimeout
  <2>1. /\ state' = "Investigation" /\ awaiting_advance' = TRUE
        /\ ~guess_in_flight'
    BY <1>1, <1>9 DEF HandleGuessTimeout, ExpiryApplies, TimersOK
  <2>2. QED  BY <2>1 DEF ProgressInv, NeverStuck, QuietOK
<1>10. CASE DropExpiry  BY <1>10, DropExpiryProgress
<1>11. CASE Answer  BY <1>11, AnswerProgress
<1>12. QED
  BY <1>2, <1>3, <1>4, <1>5, <1>6, <1>7, <1>8, <1>9, <1>10, <1>11
  DEF Next, Message, Expiry, Gone

(* However messages, drops, expiries and answers interleave, each phase has *)
(* an armed or queued wait, a live AI call or somebody's advance to end it. *)
THEOREM ProgressCorrect == Spec => []NeverStuck
<1>1. Init => ProgressInv
  BY DEF Init, ProgressInv, NeverStuck, QuietOK
<1>2. ProgressInv => NeverStuck  BY DEF ProgressInv
<1>3. QED  BY <1>1, <1>2, NextProgress, RoomInvariant, PTL DEF Spec

=============================================================================




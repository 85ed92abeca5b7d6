--------------------------- MODULE GameRoomProofs ----------------------------
(***************************************************************************)
(* Proofs about GameRoom, for every number of players, attempts and calls  *)
(* and every bound.                                                        *)
(***************************************************************************)
EXTENDS GameRoom, SequenceTheorems, FiniteSetTheorems, WellFoundedInduction, TLAPS

-----------------------------------------------------------------------------
(* The inductive invariant.  TypeOK needs the turn queue (pop_front, the    *)
(* bound on attempts), the turn queue needs to know which late answers and  *)
(* expiries still apply, and those the generations they were made with.     *)

(* In the lobby nothing of a game is left that names a player. *)
LobbyOK ==
  state = "Lobby" =>
    /\ has_been_criminal = {} /\ criminal_queue = {}
    /\ criminal_id = NoPlayer /\ current_detective = NoPlayer
    /\ pending_order = <<>>

(* A judgement is awaited or the turn is answered, never both. *)
FlagsOK == ~(guess_in_flight /\ awaiting_advance)

(* No wait is of a generation to come, and a guess wait of the current one  *)
(* was armed for the turn of an investigation.                              *)
TimersOK ==
  \A t \in {phase_timer, fired} :
    t.kind = "guess" =>
      t.gen <= turn_generation /\ (t.gen = turn_generation => state = "Investigation")

(* LiveCallsOK, for the calls of the current generation whether or not the  *)
(* room still exists; no call is of a generation to come.                   *)
CallsOK ==
  \A c \in calls :
    /\ c.gen <= turn_generation
    /\ c.gen = turn_generation =>
         /\ \A d \in calls : d.gen = turn_generation => d = c
         /\ c.map = selected_map
         /\ \/ c.kind = "evaluate" /\ state = "AIJudging"
            \/ /\ c.kind = "judge" /\ state = "Investigation"
               /\ guess_in_flight /\ c.player = current_detective

(* The detectives in the queue are at most one attempt apart: whoever goes  *)
(* to its back is one ahead of the front and of nobody behind it.           *)
SpreadOK ==
  state = "Investigation" =>
    \A i, j \in DOMAIN pending_order :
      attempts_used[pending_order[i]] <= attempts_used[pending_order[j]] + 1

RoomInv ==
  TypeOK /\ LobbyOK /\ FlagsOK /\ TimersOK /\ CallsOK /\ TurnQueueOK /\ SpreadOK

-----------------------------------------------------------------------------
(* The least member of a non-empty set of natural numbers is in the set. *)
LEMMA MinMember ==
  ASSUME NEW S \in SUBSET Nat, S # {}
  PROVE  Min(S) \in S
<1>1. \E less : /\ IsWellFoundedOn(less, Nat)
               /\ \A a, b \in Nat : a < b => <<a, b>> \in less
  <2>1. \A a, b \in Nat : a < b => <<a, b>> \in OpToRel(<, Nat)
    BY DEF OpToRel
  <2>2. QED  BY <2>1, NatLessThanWellFounded
<1>2. PICK less : /\ IsWellFoundedOn(less, Nat)
                  /\ \A a, b \in Nat : a < b => <<a, b>> \in less
  BY <1>1
<1>3. PICK x \in S : \A y \in S : ~(<<y, x>> \in less)
  <2>1. IsWellFoundedOn(less, Nat) /\ S \subseteq Nat  BY <1>2
  <2>2. QED  BY ONLY <2>1, S # {}, WFMin
<1>4. ASSUME NEW y \in S  PROVE  x =< y
  <2>1. x \in Nat /\ y \in Nat  OBVIOUS
  <2>2. ~(y < x)  BY <1>2, <1>3, <2>1
  <2>3. QED  BY <2>1, <2>2
<1>5. QED  BY <1>4 DEF Min

(* No reward is negative, whatever the score and the attempt. *)
LEMMA RewardNat ==
  ASSUME NEW crimeScore \in 0..100, NEW attempt \in 0..MaxAttempts
  PROVE  Reward(crimeScore, attempt) \in Nat
<1>1. ClampAttempt(attempt) \in 1..MaxAttempts
  BY ScoringAssumption DEF ClampAttempt
<1>2. AttemptTenths[ClampAttempt(attempt)] \in Nat
  BY <1>1, ScoringAssumption
<1>3. (100 - crimeScore) \in Nat  OBVIOUS
<1> DEFINE tenths == AttemptTenths[ClampAttempt(attempt)]
           product == (100 - crimeScore) * tenths
<1>4. product \in Nat  BY <1>2, <1>3
<1> HIDE DEF product
<1>5. product \div 10 \in Nat  BY <1>4
<1> USE DEF product
<1>6. QED  BY <1>5, ScoringAssumption DEF Reward

(* What erasing a player from a queue that holds nobody twice leaves. *)
LEMMA RemoveFirstProperties ==
  ASSUME NEW S, NEW s \in Seq(S), NEW e, IsInjective(s)
  PROVE  LET r == RemoveFirst(s, e)
         IN  /\ r \in Seq(S)
             /\ \A i \in 1..Len(r) : r[i] # e
             /\ \/ r = s
                \/ \E k \in 1..Len(s) :
                     /\ Len(r) = Len(s) - 1 /\ s[k] = e
                     /\ \A i \in 1..Len(r) : r[i] = IF i < k THEN s[i] ELSE s[i+1]
<1>1. CASE ~ \E i \in 1..Len(s) : s[i] = e
  <2>1. RemoveFirst(s, e) = s  BY <1>1 DEF RemoveFirst
  <2>2. QED  BY <1>1, <2>1
<1>2. CASE \E i \in 1..Len(s) : s[i] = e
  <2> DEFINE I == {i \in 1..Len(s) : s[i] = e}
             k == Min(I)
             r == RemoveFirst(s, e)
  <2> HIDE DEF k, r
  <2>1. k \in 1..Len(s) /\ s[k] = e
    <3>1. I \in SUBSET Nat /\ I # {}  BY <1>2
    <3>2. Min(I) \in I  BY <3>1, MinMember
    <3>3. QED  BY <3>2 DEF k
  <2>2. r = SubSeq(s, 1, k-1) \o SubSeq(s, k+1, Len(s))
    BY <1>2 DEF r, k, RemoveFirst, RemoveAt, SelectInSeq
  <2>3. /\ SubSeq(s, 1, k-1) \in Seq(S)
        /\ Len(SubSeq(s, 1, k-1)) = k-1
        /\ \A i \in 1..(k-1) : SubSeq(s, 1, k-1)[i] = s[i]
    <3>1. \A i \in 1..(k-1) : s[i] \in S  BY <2>1, ElementOfSeq
    <3>2. QED  BY <3>1, <2>1, SubSeqProperties
  <2>4. /\ SubSeq(s, k+1, Len(s)) \in Seq(S)
        /\ Len(SubSeq(s, k+1, Len(s))) = Len(s)-k
        /\ \A i \in 1..(Len(s)-k) : SubSeq(s, k+1, Len(s))[i] = s[k+i]
    <3>1. \A i \in (k+1)..Len(s) : s[i] \in S  BY <2>1, ElementOfSeq
    <3>2. QED  BY <3>1, <2>1, SubSeqProperties
  <2> DEFINE before == SubSeq(s, 1, k-1)
             after == SubSeq(s, k+1, Len(s))
  <2>5. /\ r \in Seq(S) /\ Len(r) = Len(s)-1
        /\ \A i \in 1..Len(r) : r[i] = IF i < k THEN s[i] ELSE s[i+1]
    <3> HIDE DEF before, after
    <3>1. r = before \o after  BY <2>2 DEF before, after
    <3>2. before \in Seq(S) /\ Len(before) = k-1
          /\ \A i \in 1..(k-1) : before[i] = s[i]  BY <2>3 DEF before
    <3>3. after \in Seq(S) /\ Len(after) = Len(s)-k
          /\ \A i \in 1..(Len(s)-k) : after[i] = s[k+i]  BY <2>4 DEF after
    <3>4. /\ r \in Seq(S) /\ Len(r) = Len(before) + Len(after)
          /\ \A i \in 1..(Len(before) + Len(after)) :
               r[i] = IF i <= Len(before) THEN before[i] ELSE after[i - Len(before)]
      BY <3>1, <3>2, <3>3, ConcatProperties
    <3>5. Len(s) \in Nat  BY LenProperties
    <3>6. Len(r) = Len(s) - 1  BY <3>2, <3>3, <3>4, <3>5, <2>1
    <3>7. ASSUME NEW i \in 1..Len(r)
          PROVE  r[i] = IF i < k THEN s[i] ELSE s[i+1]
      <4>1. CASE i < k  BY <4>1, <3>2, <3>3, <3>4, <3>5, <2>1
      <4>2. CASE i >= k
        <5>1. i - (k-1) \in 1..(Len(s)-k) /\ k + (i - (k-1)) = i+1
          BY <4>2, <3>6, <3>5, <2>1
        <5>2. QED  BY <4>2, <5>1, <3>2, <3>3, <3>4, <3>5, <2>1
      <4>3. QED  BY <4>1, <4>2, <3>5, <3>6, <2>1
    <3>8. QED  BY <3>4, <3>6, <3>7
  <2>6. \A i \in 1..Len(r) : r[i] # e
    BY <2>1, <2>5 DEF IsInjective
  <2>7. QED  BY <2>1, <2>5, <2>6 DEF r
<1>3. QED BY <1>1, <1>2

(* The player ids are finitely many positive numbers. *)
LEMMA SomePlayers ==
  ASSUME NEW S \in SUBSET PlayerIds
  PROVE  /\ IsFiniteSet(S) /\ Cardinality(S) \in Nat
         /\ S # {} => Min(S) \in S
<1>1. PlayerIds \subseteq Nat /\ IsFiniteSet(PlayerIds)
  BY RoomAssumption, FS_Interval DEF PlayerIds
<1>2. IsFiniteSet(S) /\ Cardinality(S) \in Nat
  BY <1>1, FS_Subset, FS_CardinalityType
<1>3. S # {} => Min(S) \in S
  BY <1>1, MinMember
<1>4. QED  BY <1>2, <1>3

(* A finished round leaves scores natural numbers and the criminal's mark   *)
(* on somebody of the roster.                                               *)
LEMMA FinishRoundType ==
  ASSUME TypeOK, NEW eval \in 0..100,
         NEW solved \in [PlayerIds -> 0..MaxAttempts],
         FinishRound(eval, solved)
  PROVE  /\ state' \in {"NextRound", "GameOver"}
         /\ score' \in [PlayerIds -> Nat]
         /\ has_been_criminal' \subseteq players
<1>1. \A p \in PlayerIds : Gained(p, criminal_id, eval, solved) \in Nat
  <2> TAKE p \in PlayerIds
  <2>1. solved[p] \in 0..MaxAttempts /\ Reward(eval, solved[p]) \in Nat
    BY RewardNat
  <2>2. QED  BY <2>1 DEF Gained
<1>2. \A p \in PlayerIds : score[p] + Gained(p, criminal_id, eval, solved) \in Nat
  <2> TAKE p \in PlayerIds
  <2>1. score[p] \in Nat /\ Gained(p, criminal_id, eval, solved) \in Nat
    BY <1>1 DEF TypeOK
  <2>2. QED  BY <2>1
<1>3. score' \in [PlayerIds -> Nat]
  BY <1>2 DEF TypeOK, FinishRound
<1>4. QED  BY <1>3 DEF TypeOK, FinishRound

(* A turn begins with the front of the queue, or the round is finished. *)
LEMMA BeginNextTurnType ==
  ASSUME TypeOK, NEW pending \in Seq(players), NEW eval \in 0..100,
         NEW solved \in [PlayerIds -> 0..MaxAttempts], NEW timer \in Timers,
         BeginNextTurn(pending, eval, solved, timer)
  PROVE  /\ state' \in {"Investigation", "NextRound", "GameOver"}
         /\ score' \in [PlayerIds -> Nat]
         /\ has_been_criminal' \subseteq players
         /\ current_detective' \in players \cup {NoPlayer}
         /\ phase_timer' \in Timers
         /\ turn_generation' \in Nat
<1>1. turn_generation' \in Nat
  BY DEF BeginNextTurn, TypeOK
<1>2. CASE pending = <<>>
  BY <1>1, <1>2, FinishRoundType DEF BeginNextTurn, TypeOK
<1>3. CASE pending # <<>>
  <2>1. Head(pending) \in players
    BY <1>3, HeadTailProperties
  <2>2. GuessTimer(turn_generation + 1) \in Timers
    BY DEF GuessTimer, Timers, TypeOK
  <2>3. QED  BY <1>1, <1>3, <2>1, <2>2 DEF BeginNextTurn, TypeOK, scoreVars
<1>4. QED  BY <1>2, <1>3

(* Requeue keeps a queue of players of the roster. *)
LEMMA RequeueType ==
  ASSUME NEW S, pending_order \in Seq(S), pending_order # <<>>,
         NEW p \in S, NEW n, NEW correct
  PROVE  Requeue(p, n, correct) \in Seq(S)
<1>1. Tail(pending_order) \in Seq(S)
  BY HeadTailProperties
<1>2. Append(Tail(pending_order), p) \in Seq(S)
  BY <1>1, AppendProperties
<1>3. QED  BY <1>1, <1>2 DEF Requeue

-----------------------------------------------------------------------------
(* Type correctness, one handler at a time. *)

(* The empty values the fields are cleared with. *)
LEMMA ClearedTypes ==
  /\ Nobody \in [PlayerIds -> 0..MaxAttempts] /\ Nobody \in [PlayerIds -> Nat]
  /\ NoTimer \in Timers
  /\ \A S : <<>> \in Seq(S)
<1>1. Nobody \in [PlayerIds -> 0..MaxAttempts] /\ Nobody \in [PlayerIds -> Nat]
  BY ScoringAssumption DEF Nobody
<1>2. NoTimer \in Timers  BY DEF NoTimer, Timers
<1>3. QED  BY <1>1, <1>2, EmptySeq

(* What start_round and handle_restart_game clear has the fields' types. *)
LEMMA ClearRoundTypes ==
  ASSUME ClearRound
  PROVE  /\ crime_eval' \in 0..100 /\ crime_score_revealed' \in BOOLEAN
         /\ \A S : pending_order' \in Seq(S)
         /\ attempts_used' \in [PlayerIds -> 0..MaxAttempts]
         /\ solved_at_attempt' \in [PlayerIds -> 0..MaxAttempts]
         /\ current_detective' = NoPlayer
         /\ guess_in_flight' \in BOOLEAN /\ awaiting_advance' \in BOOLEAN
<1>1. crime_eval' \in 0..100
  <2>1. crime_eval' = 0  BY DEF ClearRound
  <2>2. QED  BY <2>1, SMT
<1>2. /\ crime_score_revealed' \in BOOLEAN
      /\ guess_in_flight' \in BOOLEAN /\ awaiting_advance' \in BOOLEAN
  BY Zenon DEF ClearRound
<1>3. \A S : pending_order' \in Seq(S)
  BY ClearedTypes, Zenon DEF ClearRound
<1>4. /\ attempts_used' \in [PlayerIds -> 0..MaxAttempts]
      /\ solved_at_attempt' \in [PlayerIds -> 0..MaxAttempts]
      /\ current_detective' = NoPlayer
  BY ClearedTypes, Zenon DEF ClearRound
<1>5. QED  BY <1>1, <1>2, <1>3, <1>4

(* The room create_room leaves is well typed. *)
LEMMA InitTypeOK == Init => TypeOK
<1> SUFFICES ASSUME Init  PROVE  TypeOK
  OBVIOUS
<1>1. 1 \in PlayerIds  BY RoomAssumption DEF PlayerIds
<1>2. /\ score \in [PlayerIds -> Nat] /\ pending_order \in Seq(players)
      /\ attempts_used \in [PlayerIds -> 0..MaxAttempts]
      /\ solved_at_attempt \in [PlayerIds -> 0..MaxAttempts]
      /\ phase_timer \in Timers /\ fired \in Timers
  BY ClearedTypes, Zenon DEF Init
<1>3. /\ alive \in BOOLEAN /\ crime_score_revealed \in BOOLEAN
      /\ guess_in_flight \in BOOLEAN /\ awaiting_advance \in BOOLEAN
  BY Zenon DEF Init
<1>4. /\ next_player_id \in Nat \ {0} /\ round_number \in Nat
      /\ crime_eval \in 0..100 /\ turn_generation \in Nat /\ games \in Nat
  BY SMT DEF Init
<1>5. QED  BY <1>1, <1>2, <1>3, <1>4 DEF Init, TypeOK, States

(* A new player gets the next id, and it is one of the roster. *)
LEMMA JoinTypeOK ==
  ASSUME TypeOK, HandleJoin  PROVE  TypeOK'
<1>1. next_player_id \in PlayerIds /\ next_player_id + 1 \in Nat \ {0}
  BY RoomAssumption DEF TypeOK, HandleJoin, PlayerIds
<1>2. pending_order \in Seq(players')
  BY SeqMonotonic DEF TypeOK, HandleJoin
<1>3. QED
  BY <1>1, <1>2
  DEF TypeOK, HandleJoin, gameVars, scoreVars, turnVars, crimeVars, asyncVars

(* A player who returns was in the roster all along. *)
LEMMA ReconnectTypeOK ==
  ASSUME TypeOK, NEW p \in players, HandleReconnect(p)  PROVE  TypeOK'
BY DEF TypeOK, HandleReconnect, gameVars, scoreVars, turnVars, crimeVars, asyncVars

(* Whoever leaves, the lobby forgets them and a game keeps their seat. *)
LEMMA DisconnectTypeOK ==
  ASSUME TypeOK, LobbyOK, TurnQueueOK, NEW p \in players, HandleDisconnect(p)
  PROVE  TypeOK'
<1> USE DEF gameVars, scoreVars, turnVars, crimeVars, asyncVars
<1>1. connected' \subseteq players /\ connected' \subseteq PlayerIds /\ p \notin connected'
  BY DEF TypeOK, HandleDisconnect
<1>2. alive' \in BOOLEAN  BY DEF HandleDisconnect
<1>3. CASE LeaveLobby(p)
  <2>1. players' = players \ {p} /\ players' \subseteq PlayerIds
    BY <1>3 DEF TypeOK, LeaveLobby
  <2>2. host_id' \in PlayerIds \cup {NoPlayer}
    BY <1>3, <2>1, SomePlayers DEF TypeOK, LeaveLobby
  <2>3. pending_order \in Seq(players')
    BY <1>3 DEF LeaveLobby, LobbyOK
  <2>4. connected' \subseteq players'
    BY <1>1, <2>1
  <2>5. QED
    BY <1>2, <1>3, <2>1, <2>2, <2>3, <2>4
    DEF TypeOK, HandleDisconnect, LeaveLobby, LobbyOK
<1>4. ASSUME SucceedHost(p)
      PROVE  players' = players /\ host_id' \in PlayerIds \cup {NoPlayer}
  BY <1>1, <1>4, SomePlayers DEF TypeOK, SucceedHost
<1>5. CASE SucceedHost(p) /\ AbortRound(p)
  <2>1. Nobody \in [PlayerIds -> 0..MaxAttempts] /\ NoTimer \in Timers /\ <<>> \in Seq(players)
    BY ClearedTypes
  <2>2. /\ state' \in {"NextRound", "GameOver"}
        /\ score' \in [PlayerIds -> Nat]
        /\ has_been_criminal' \subseteq players
    BY <1>5, <2>1, FinishRoundType DEF AbortRound
  <2>3. awaiting_advance' \in BOOLEAN /\ guess_in_flight' \in BOOLEAN
    BY <1>5, Zenon DEF AbortRound
  <2>4. crime_eval' \in 0..100 /\ turn_generation' \in Nat
    <3>1. crime_eval' = 0 /\ turn_generation' = turn_generation + 1
      BY <1>5 DEF AbortRound
    <3>2. QED  BY <3>1 DEF TypeOK
  <2>5. /\ phase_timer' = NoTimer /\ pending_order' = <<>> /\ solved_at_attempt' = Nobody
        /\ UNCHANGED <<attempts_used, current_detective, crime_score_revealed>>
    BY <1>5 DEF AbortRound
  <2>6. state' \in States  BY <2>2 DEF States
  <2>7. /\ players' = players /\ connected' \subseteq players'
        /\ host_id' \in PlayerIds \cup {NoPlayer}
        /\ UNCHANGED <<selected_map, next_player_id, criminal_queue, round_number,
                       criminal_id, games, fired, calls>>
    BY <1>1, <1>4, <1>5 DEF HandleDisconnect
  <2>8. QED
    BY <1>2, <2>1, <2>2, <2>3, <2>4, <2>5, <2>6, <2>7 DEF TypeOK
<1>6. CASE SucceedHost(p) /\ LeaveInvestigation(p)
  <2>1. RemoveFirst(pending_order, p) \in Seq(players)
    BY <1>6, RemoveFirstProperties DEF TypeOK, TurnQueueOK, LeaveInvestigation
  <2>2. NoTimer \in Timers  BY ClearedTypes
  <2>3. CASE p = current_detective
    <3>1. BeginNextTurn(RemoveFirst(pending_order, p), crime_eval, solved_at_attempt, NoTimer)
      BY <1>6, <2>3 DEF LeaveInvestigation
    <3>2. /\ state' \in {"Investigation", "NextRound", "GameOver"}
          /\ score' \in [PlayerIds -> Nat]
          /\ has_been_criminal' \subseteq players
          /\ current_detective' \in players \cup {NoPlayer}
          /\ phase_timer' \in Timers
          /\ turn_generation' \in Nat
      BY <2>1, <2>2, <3>1, BeginNextTurnType DEF TypeOK
    <3>3. QED
      BY <1>1, <1>2, <1>4, <1>6, <2>1, <2>3, <3>1, <3>2
      DEF TypeOK, HandleDisconnect, LeaveInvestigation, BeginNextTurn, States
  <2>4. CASE p # current_detective
    BY <1>1, <1>2, <1>4, <1>6, <2>1, <2>4
    DEF TypeOK, HandleDisconnect, LeaveInvestigation
  <2>5. QED  BY <2>3, <2>4
<1>7. CASE SucceedHost(p) /\ LeaveQuietly(p)
  BY <1>1, <1>2, <1>4, <1>7 DEF TypeOK, HandleDisconnect, LeaveQuietly
<1>8. QED  BY <1>3, <1>5, <1>6, <1>7 DEF HandleDisconnect

(* The host picks one of the maps. *)
LEMMA SelectMapTypeOK ==
  ASSUME TypeOK, NEW p \in players, NEW m \in Maps, HandleSelectMap(p, m)
  PROVE  TypeOK'
BY DEF TypeOK, HandleSelectMap, rosterVars, gameVars, scoreVars, turnVars,
       crimeVars, asyncVars

(* start_round from the roster or from what is left of the queue. *)
LEMMA StartRoundTypeOK ==
  ASSUME TypeOK, NEW queue \in SUBSET players, NEW round \in Nat,
         StartRound(queue, round),
         UNCHANGED <<alive, selected_map, rosterVars, scoreVars, turn_generation,
                     fired, calls>>,
         games' \in Nat
  PROVE  TypeOK'
<1>1. CrimeTimer(round + 1) \in Timers  BY DEF CrimeTimer, Timers
<1>2. criminal_id' \in players /\ criminal_queue' \subseteq players
  BY DEF StartRound
<1>3. ClearRound /\ state' \in States /\ phase_timer' \in Timers
  BY <1>1 DEF StartRound, States
<1>4. round_number' \in Nat  BY DEF StartRound
<1>5. QED
  BY <1>2, <1>3, <1>4, ClearRoundTypes DEF TypeOK, rosterVars, scoreVars

(* start_game starts a round from the whole roster. *)
LEMMA StartGameTypeOK ==
  ASSUME TypeOK, NEW p \in players, HandleStartGame(p)  PROVE  TypeOK'
<1>1. games' \in Nat  BY DEF TypeOK, HandleStartGame
<1>2. QED  BY <1>1, StartRoundTypeOK DEF HandleStartGame

(* next_round starts a round from the criminals still to come. *)
LEMMA NextRoundTypeOK ==
  ASSUME TypeOK, NEW p \in players, HandleNextRound(p)  PROVE  TypeOK'
<1>1. games' \in Nat /\ criminal_queue \subseteq players /\ round_number \in Nat
  BY DEF TypeOK, HandleNextRound
<1>2. QED  BY <1>1, StartRoundTypeOK DEF HandleNextRound

(* restart_game names nobody it drops from the roster. *)
LEMMA RestartGameTypeOK ==
  ASSUME TypeOK, NEW p \in players, HandleRestartGame(p)  PROVE  TypeOK'
<1>1. ClearRound  BY DEF HandleRestartGame
<1>2. players' \subseteq PlayerIds /\ connected' \subseteq players'
  BY DEF TypeOK, HandleRestartGame
<1>3. score' \in [PlayerIds -> Nat]
  BY ClearedTypes DEF HandleRestartGame
<1>4. /\ criminal_id' = NoPlayer
      /\ criminal_queue' = {} /\ has_been_criminal' = {}
      /\ round_number' \in Nat /\ state' \in States
  BY DEF HandleRestartGame, States
<1>5. UNCHANGED <<alive, selected_map, next_player_id, host_id, games,
                  turn_generation, phase_timer, fired, calls>>
  BY DEF HandleRestartGame, asyncVars
<1>6. QED
  BY <1>1, <1>2, <1>3, <1>4, <1>5, ClearRoundTypes DEF TypeOK

(* A crime is handed to the evaluator as a call of this turn. *)
LEMMA SubmitCrimeTypeOK ==
  ASSUME TypeOK, NEW p \in players, HandleSubmitCrime(p)  PROVE  TypeOK'
<1>1. EvaluateCall \in Calls
  BY DEF TypeOK, HandleSubmitCrime, EvaluateCall, Calls, NoPlayer
<1>2. QED
  BY <1>1, ClearedTypes
  DEF TypeOK, HandleSubmitCrime, States, rosterVars, gameVars, scoreVars,
      turnVars, crimeVars

(* A guess is handed to the judge as a call of this turn. *)
LEMMA SubmitGuessTypeOK ==
  ASSUME TypeOK, NEW p \in players, NEW text \in GuessTexts,
         HandleSubmitGuess(p, text)
  PROVE  TypeOK'
<1>1. JudgeCall(p, text) \in Calls
  BY DEF TypeOK, JudgeCall, Calls
<1>2. QED
  BY <1>1, ClearedTypes
  DEF TypeOK, HandleSubmitGuess, rosterVars, gameVars, scoreVars, crimeVars

(* next_turn begins a turn or ends the round. *)
LEMMA NextTurnTypeOK ==
  ASSUME TypeOK, NEW p \in players, HandleNextTurn(p)  PROVE  TypeOK'
<1>1. BeginNextTurn(pending_order, crime_eval, solved_at_attempt, phase_timer)
  BY DEF HandleNextTurn
<1>2. /\ state' \in {"Investigation", "NextRound", "GameOver"}
      /\ score' \in [PlayerIds -> Nat]
      /\ has_been_criminal' \subseteq players
      /\ current_detective' \in players \cup {NoPlayer}
      /\ phase_timer' \in Timers
      /\ turn_generation' \in Nat
  BY <1>1, BeginNextTurnType DEF TypeOK
<1>3. /\ awaiting_advance' = FALSE
      /\ UNCHANGED <<alive, selected_map, players, connected, next_player_id,
                     host_id, criminal_queue, round_number, criminal_id, games,
                     attempts_used, guess_in_flight, crime_score_revealed,
                     fired, calls>>
  BY DEF HandleNextTurn, rosterVars, gameVars
<1>4. UNCHANGED <<pending_order, crime_eval, solved_at_attempt>>
  BY <1>1 DEF BeginNextTurn
<1>5. QED  BY ONLY TypeOK, <1>2, <1>3, <1>4 DEF TypeOK, States

(* A wait that runs out, or an expiry that no longer applies. *)
LEMMA TimerTypeOK ==
  ASSUME TypeOK, TimerExpires \/ DropExpiry  PROVE  TypeOK'
BY ClearedTypes
DEF TypeOK, TimerExpires, DropExpiry, rosterVars, gameVars, scoreVars, turnVars,
    crimeVars

(* A round without a crime is paid like any other. *)
LEMMA CrimeWritingTimeoutTypeOK ==
  ASSUME TypeOK, HandleCrimeWritingTimeout  PROVE  TypeOK'
<1>1. /\ state' \in {"NextRound", "GameOver"}
      /\ score' \in [PlayerIds -> Nat]
      /\ has_been_criminal' \subseteq players
  <2>1. FinishRound(0, solved_at_attempt)  BY DEF HandleCrimeWritingTimeout
  <2>2. 0 \in 0..100 /\ solved_at_attempt \in [PlayerIds -> 0..MaxAttempts]
    BY DEF TypeOK
  <2>3. QED  BY <2>1, <2>2, FinishRoundType
<1>2. fired' \in Timers /\ crime_eval' \in 0..100
  BY ClearedTypes DEF HandleCrimeWritingTimeout
<1>3. UNCHANGED <<alive, selected_map, players, connected, next_player_id,
                  host_id, criminal_queue, round_number, criminal_id, games,
                  pending_order, attempts_used, solved_at_attempt,
                  current_detective, guess_in_flight, awaiting_advance,
                  crime_score_revealed, turn_generation, phase_timer, calls>>
  BY DEF HandleCrimeWritingTimeout, rosterVars, gameVars, turnVars
<1>4. QED  BY ONLY TypeOK, <1>1, <1>2, <1>3 DEF TypeOK, States

(* A late answer is forgotten. *)
LEMMA DropAnswerTypeOK ==
  ASSUME TypeOK, NEW c \in calls, DropAnswer(c)  PROVE  TypeOK'
BY DEF TypeOK, DropAnswer, rosterVars, gameVars, scoreVars, turnVars, crimeVars

(* An answer, or the lack of one, costs the current detective an attempt;   *)
(* the queue is not empty and the detective at its front has one left.      *)
LEMMA CurrentHasAttempt ==
  ASSUME TypeOK, TurnQueueOK, state = "Investigation", ~awaiting_advance
  PROVE  /\ pending_order \in Seq(players) /\ pending_order # <<>>
         /\ current_detective = Head(pending_order)
         /\ current_detective \in players /\ current_detective \in PlayerIds
         /\ attempts_used[current_detective] + 1 \in 1..MaxAttempts
<1>1. /\ pending_order \in Seq(players) /\ pending_order # <<>>
      /\ current_detective = Head(pending_order)
  BY DEF TypeOK, TurnQueueOK
<1>2. 1 \in DOMAIN pending_order /\ current_detective = pending_order[1]
  BY <1>1
<1>3. current_detective \in players /\ current_detective \in PlayerIds
  BY <1>1, HeadTailProperties DEF TypeOK
<1>4. attempts_used[current_detective] < MaxAttempts
  BY <1>2 DEF TurnQueueOK
<1>5. attempts_used[current_detective] \in 0..MaxAttempts
  BY <1>3 DEF TypeOK
<1>6. QED  BY <1>1, <1>3, <1>4, <1>5, ScoringAssumption

(* A turn without a guess costs an attempt the detective has. *)
LEMMA GuessTimeoutTypeOK ==
  ASSUME TypeOK, TimersOK, TurnQueueOK, HandleGuessTimeout  PROVE  TypeOK'
<1> DEFINE p == current_detective
           n == attempts_used[p] + 1
<1>1. state = "Investigation" /\ ~awaiting_advance
  BY DEF HandleGuessTimeout, ExpiryApplies, TimersOK
<1>2. /\ pending_order \in Seq(players) /\ pending_order # <<>>
      /\ p \in players /\ p \in PlayerIds /\ n \in 1..MaxAttempts
  BY <1>1, CurrentHasAttempt
<1>3. Requeue(p, n, FALSE) \in Seq(players)
  BY <1>2, RequeueType
<1>4. [attempts_used EXCEPT ![p] = n] \in [PlayerIds -> 0..MaxAttempts]
  BY <1>2 DEF TypeOK
<1>5. fired' \in Timers  BY ClearedTypes DEF HandleGuessTimeout
<1>6. QED
  BY <1>3, <1>4, <1>5
  DEF TypeOK, HandleGuessTimeout, rosterVars, gameVars, scoreVars, crimeVars

(* An investigation begins with a queue of players of the roster. *)
LEMMA EvaluationTypeOK ==
  ASSUME TypeOK, NEW c \in calls, HandleEvaluation(c)  PROVE  TypeOK'
<1>1. PICK eval \in EvalScores, order \in Shuffles(Detectives) :
        BeginNextTurn(order, eval, Nobody, phase_timer)
  BY DEF HandleEvaluation
<1>2. order \in Seq(players)
  <2>1. Detectives \subseteq players /\ Detectives \in SUBSET PlayerIds
    BY DEF TypeOK, Detectives
  <2>2. Cardinality(Detectives) \in Nat
    BY <2>1, SomePlayers
  <2>3. order \in [1..Cardinality(Detectives) -> Detectives]
    BY DEF Shuffles, Bijection, Injection
  <2>4. order \in Seq(Detectives)
    BY <2>2, <2>3
  <2>5. QED  BY <2>1, <2>4, SeqMonotonic
<1>3. eval \in 0..100 /\ Nobody \in [PlayerIds -> 0..MaxAttempts] /\ phase_timer \in Timers
  BY RoomAssumption, ClearedTypes DEF TypeOK
<1>4. /\ state' \in {"Investigation", "NextRound", "GameOver"}
      /\ score' \in [PlayerIds -> Nat]
      /\ has_been_criminal' \subseteq players
      /\ current_detective' \in players \cup {NoPlayer}
      /\ phase_timer' \in Timers
      /\ turn_generation' \in Nat
  BY <1>1, <1>2, <1>3, BeginNextTurnType
<1>5. QED
  BY <1>1, <1>2, <1>3, <1>4
  DEF TypeOK, HandleEvaluation, BeginNextTurn, States, rosterVars, gameVars

(* A judgement that applies is one of the current detective's guess. *)
LEMMA LiveJudgement ==
  ASSUME FlagsOK, CallsOK, NEW c \in calls, c.kind = "judge", AnswerApplies(c)
  PROVE  /\ state = "Investigation" /\ guess_in_flight /\ ~awaiting_advance
         /\ c.player = current_detective
         /\ \A d \in calls : d.gen = turn_generation => d = c
BY DEF FlagsOK, CallsOK, AnswerApplies

(* A judged guess costs an attempt the detective has. *)
LEMMA JudgementTypeOK ==
  ASSUME TypeOK, FlagsOK, CallsOK, TurnQueueOK,
         NEW c \in calls, NEW correct \in BOOLEAN, HandleJudgement(c, correct)
  PROVE  TypeOK'
<1> DEFINE p == c.player
           n == attempts_used[p] + 1
<1>1. state = "Investigation" /\ ~awaiting_advance /\ p = current_detective
  BY LiveJudgement DEF HandleJudgement
<1>2. /\ pending_order \in Seq(players) /\ pending_order # <<>>
      /\ p \in players /\ p \in PlayerIds /\ n \in 1..MaxAttempts
  BY <1>1, CurrentHasAttempt
<1>3. Requeue(p, n, correct) \in Seq(players)
  BY <1>2, RequeueType
<1> HIDE DEF n
<1>4. [attempts_used EXCEPT ![p] = n] \in [PlayerIds -> 0..MaxAttempts]
  BY <1>2 DEF TypeOK
<1>5. solved_at_attempt' \in [PlayerIds -> 0..MaxAttempts]
  <2>1. [solved_at_attempt EXCEPT ![p] = n] \in [PlayerIds -> 0..MaxAttempts]
    BY <1>2 DEF TypeOK
  <2>2. QED  BY <2>1 DEF TypeOK, HandleJudgement, n
<1> USE DEF n
<1>6. QED
  BY <1>3, <1>4, <1>5
  DEF TypeOK, HandleJudgement, rosterVars, gameVars, scoreVars, crimeVars

-----------------------------------------------------------------------------
(* What a late answer or expiry may still do. *)

AsyncInv == LobbyOK /\ FlagsOK /\ TimersOK /\ CallsOK

(* A step that leaves the turn alone keeps the waits of the turn. *)
LEMMA TimersKept ==
  ASSUME TimersOK, turn_generation' = turn_generation,
         state = "Investigation" => state' = "Investigation",
         phase_timer' = phase_timer \/ phase_timer'.kind # "guess",
         fired' \in {fired, phase_timer} \/ fired'.kind # "guess"
  PROVE  TimersOK'
BY DEF TimersOK

(* A new generation leaves every older wait behind. *)
LEMMA TimersOutdated ==
  ASSUME TypeOK, TimersOK, turn_generation' = turn_generation + 1,
         fired' = fired,
         \/ phase_timer' = phase_timer
         \/ phase_timer'.kind # "guess"
         \/ phase_timer'.gen = turn_generation + 1 /\ state' = "Investigation"
  PROVE  TimersOK'
<1>1. ASSUME NEW t \in {phase_timer', fired'}, t.kind = "guess"
      PROVE  \/ t.gen <= turn_generation
             \/ t.gen = turn_generation' /\ state' = "Investigation"
  BY <1>1 DEF TimersOK
<1>2. /\ phase_timer.gen \in Nat /\ fired.gen \in Nat /\ turn_generation \in Nat
  BY DEF TypeOK, Timers
<1>3. ASSUME NEW t \in {phase_timer', fired'}, t.kind = "guess"
      PROVE  t.gen <= turn_generation' /\ (t.gen = turn_generation' => state' = "Investigation")
  <2>1. t.gen \in Nat
    BY <1>2, <1>3
  <2>2. QED  BY <1>1, <1>2, <1>3, <2>1
<1>4. QED  BY <1>3 DEF TimersOK

(* Calls that come back change nothing for the others while the phase, the  *)
(* turn and the map stay.                                                   *)
LEMMA CallsKept ==
  ASSUME CallsOK, calls' \subseteq calls, turn_generation' = turn_generation,
         UNCHANGED <<state, selected_map, guess_in_flight, current_detective>>
  PROVE  CallsOK'
BY DEF CallsOK

(* Outside of a judging phase no call is live. *)
LEMMA NoLiveCall ==
  ASSUME CallsOK, state # "AIJudging",
         state # "Investigation" \/ ~guess_in_flight
  PROVE  \A c \in calls : c.gen <= turn_generation /\ c.gen # turn_generation
BY DEF CallsOK

(* Calls none of which is live stay so. *)
LEMMA CallsStayDead ==
  ASSUME \A c \in calls : c.gen <= turn_generation /\ c.gen # turn_generation,
         calls' \subseteq calls, turn_generation' = turn_generation
  PROVE  CallsOK'
BY DEF CallsOK

(* A new generation leaves every call behind. *)
LEMMA CallsOutdated ==
  ASSUME TypeOK, CallsOK, calls' \subseteq calls,
         turn_generation' = turn_generation + 1
  PROVE  CallsOK'
<1>1. ASSUME NEW c \in calls'
      PROVE  c.gen <= turn_generation' /\ c.gen # turn_generation'
  <2>1. c.gen \in Nat /\ turn_generation \in Nat /\ c.gen <= turn_generation
    BY <1>1 DEF TypeOK, Calls, CallsOK
  <2>2. QED  BY <2>1
<1>2. QED  BY <1>1 DEF CallsOK

(* The one call a judging phase is entered with is the only live one. *)
LEMMA CallsOneLive ==
  ASSUME \A c \in calls : c.gen <= turn_generation /\ c.gen # turn_generation,
         turn_generation \in Nat, turn_generation' = turn_generation,
         NEW call, calls' = calls \cup {call},
         call.gen = turn_generation, call.map = selected_map',
         \/ call.kind = "evaluate" /\ state' = "AIJudging"
         \/ /\ call.kind = "judge" /\ state' = "Investigation"
            /\ guess_in_flight' /\ call.player = current_detective'
  PROVE  CallsOK'
BY DEF CallsOK

(* When a turn begins or the round ends, whatever was under way is over. *)
LEMMA BeginNextTurnAsync ==
  ASSUME TypeOK, AsyncInv, NEW pending, NEW eval, NEW solved,
         NEW timer \in {phase_timer, NoTimer},
         BeginNextTurn(pending, eval, solved, timer),
         fired' = fired, calls' \subseteq calls,
         ~(guess_in_flight' /\ awaiting_advance')
  PROVE  AsyncInv'
<1>1. turn_generation' = turn_generation + 1
  BY DEF BeginNextTurn
<1>2. \/ phase_timer' = phase_timer
      \/ phase_timer'.kind # "guess"
      \/ phase_timer'.gen = turn_generation + 1 /\ state' = "Investigation"
  BY DEF BeginNextTurn, NoTimer, GuessTimer
<1>3. state' # "Lobby"
  BY DEF BeginNextTurn, FinishRound
<1>4. TimersOK'  BY <1>1, <1>2, TimersOutdated DEF AsyncInv
<1>5. CallsOK'  BY <1>1, CallsOutdated DEF AsyncInv
<1>6. QED  BY <1>3, <1>4, <1>5 DEF AsyncInv, LobbyOK, FlagsOK

(* A round starts with nothing under way. *)
LEMMA StartRoundAsync ==
  ASSUME TypeOK, AsyncInv, NEW queue, NEW round, StartRound(queue, round),
         state \in {"Lobby", "NextRound"},
         UNCHANGED <<turn_generation, fired, calls>>
  PROVE  AsyncInv'
<1>1. phase_timer'.kind # "guess" /\ state' = "CrimeWriting" /\ ~guess_in_flight'
  BY DEF StartRound, CrimeTimer, ClearRound
<1>2. TimersOK'  BY <1>1, TimersKept DEF AsyncInv
<1>3. CallsOK'  BY NoLiveCall, CallsStayDead DEF AsyncInv
<1>4. QED  BY <1>1, <1>2, <1>3 DEF AsyncInv, LobbyOK, FlagsOK

(* Joining leaves the lobby a lobby. *)
LEMMA JoinAsync ==
  ASSUME TypeOK, AsyncInv, HandleJoin  PROVE  AsyncInv'
BY CallsKept, TimersKept
DEF AsyncInv, LobbyOK, FlagsOK, HandleJoin, gameVars, scoreVars, turnVars,
    crimeVars, asyncVars

(* A player who returns disturbs no answer that is under way. *)
LEMMA ReconnectAsync ==
  ASSUME TypeOK, AsyncInv, NEW p \in players, HandleReconnect(p)  PROVE  AsyncInv'
BY CallsKept, TimersKept
DEF AsyncInv, LobbyOK, FlagsOK, HandleReconnect, gameVars, scoreVars, turnVars,
    crimeVars, asyncVars

(* A drop leaves the turn alone or makes a new generation. *)
LEMMA DisconnectAsync ==
  ASSUME TypeOK, AsyncInv, NEW p \in players, HandleDisconnect(p)  PROVE  AsyncInv'
<1>1. UNCHANGED <<selected_map, criminal_queue, criminal_id, fired, calls>>
  BY DEF HandleDisconnect, gameVars
<1>2. CASE LeaveLobby(p) \/ LeaveQuietly(p)
  <2>1. UNCHANGED <<state, scoreVars, turnVars, turn_generation, phase_timer>>
    BY <1>2 DEF LeaveLobby, LeaveQuietly
  <2>2. QED
    BY <1>1, <2>1, CallsKept, TimersKept
    DEF AsyncInv, LobbyOK, FlagsOK, scoreVars, turnVars
<1>3. CASE AbortRound(p)
  <2>1. /\ turn_generation' = turn_generation + 1 /\ phase_timer'.kind # "guess"
        /\ state' # "Lobby" /\ ~guess_in_flight'
    BY <1>3 DEF AbortRound, NoTimer, FinishRound
  <2>2. TimersOK'  BY <1>1, <2>1, TimersOutdated DEF AsyncInv
  <2>3. CallsOK'  BY <1>1, <2>1, CallsOutdated DEF AsyncInv
  <2>4. QED  BY <2>1, <2>2, <2>3 DEF AsyncInv, LobbyOK, FlagsOK
<1>4. CASE LeaveInvestigation(p)
  <2>1. CASE p = current_detective
    <3>1. /\ BeginNextTurn(RemoveFirst(pending_order, p), crime_eval,
                           solved_at_attempt, NoTimer)
          /\ ~guess_in_flight'
      BY <1>4, <2>1 DEF LeaveInvestigation
    <3>2. QED  BY <1>1, <3>1, BeginNextTurnAsync
  <2>2. CASE p # current_detective
    <3>1. /\ state' = "Investigation" /\ state = "Investigation"
          /\ UNCHANGED <<current_detective, guess_in_flight, awaiting_advance,
                         turn_generation, phase_timer>>
      BY <1>4, <2>2 DEF LeaveInvestigation
    <3>2. QED
      BY <1>1, <3>1, CallsKept, TimersKept DEF AsyncInv, LobbyOK, FlagsOK
  <2>3. QED  BY <2>1, <2>2
<1>5. QED  BY <1>2, <1>3, <1>4 DEF HandleDisconnect

(* The map changes only while no call is live. *)
LEMMA SelectMapAsync ==
  ASSUME TypeOK, AsyncInv, NEW p, NEW m, HandleSelectMap(p, m)  PROVE  AsyncInv'
<1>1. CallsOK'
  BY NoLiveCall, CallsStayDead DEF AsyncInv, HandleSelectMap, asyncVars
<1>2. QED
  BY <1>1, TimersKept
  DEF AsyncInv, LobbyOK, FlagsOK, HandleSelectMap, gameVars, scoreVars, turnVars,
      crimeVars, asyncVars

(* start_game finds nothing under way. *)
LEMMA StartGameAsync ==
  ASSUME TypeOK, AsyncInv, NEW p, HandleStartGame(p)  PROVE  AsyncInv'
BY StartRoundAsync DEF HandleStartGame

(* next_round finds nothing under way. *)
LEMMA NextRoundAsync ==
  ASSUME TypeOK, AsyncInv, NEW p, HandleNextRound(p)  PROVE  AsyncInv'
BY StartRoundAsync DEF HandleNextRound

(* restart_game returns to a lobby with nothing under way. *)
LEMMA RestartGameAsync ==
  ASSUME TypeOK, AsyncInv, NEW p, HandleRestartGame(p)  PROVE  AsyncInv'
<1>1. /\ state = "GameOver"
      /\ UNCHANGED <<turn_generation, phase_timer, fired, calls>>
      /\ ClearRound
  BY DEF HandleRestartGame, asyncVars
<1>2. TimersOK'  BY <1>1, TimersKept DEF AsyncInv
<1>3. CallsOK'  BY <1>1, NoLiveCall, CallsStayDead DEF AsyncInv
<1>4. LobbyOK' /\ FlagsOK'
  BY DEF HandleRestartGame, ClearRound, LobbyOK, FlagsOK
<1>5. QED  BY <1>2, <1>3, <1>4 DEF AsyncInv

(* The evaluation is the only live call. *)
LEMMA SubmitCrimeAsync ==
  ASSUME TypeOK, AsyncInv, NEW p, HandleSubmitCrime(p)  PROVE  AsyncInv'
<1>1. /\ state = "CrimeWriting" /\ state' = "AIJudging"
      /\ calls' = calls \cup {EvaluateCall}
      /\ phase_timer' = NoTimer
      /\ UNCHANGED <<selected_map, turn_generation, fired, guess_in_flight,
                     awaiting_advance>>
  BY DEF HandleSubmitCrime, turnVars
<1>2. TimersOK'  BY <1>1, TimersKept DEF AsyncInv, NoTimer
<1>3. CallsOK'
  <2>1. /\ EvaluateCall.gen = turn_generation /\ EvaluateCall.map = selected_map'
        /\ EvaluateCall.kind = "evaluate"
    BY <1>1 DEF EvaluateCall
  <2>2. turn_generation \in Nat  BY DEF TypeOK
  <2>3. QED  BY <1>1, <2>1, <2>2, NoLiveCall, CallsOneLive DEF AsyncInv
<1>4. QED  BY <1>1, <1>2, <1>3 DEF AsyncInv, LobbyOK, FlagsOK

(* The judgement is the only live call. *)
LEMMA SubmitGuessAsync ==
  ASSUME TypeOK, AsyncInv, NEW p, NEW text, HandleSubmitGuess(p, text)
  PROVE  AsyncInv'
<1>1. /\ state = "Investigation" /\ state' = "Investigation"
      /\ ~guess_in_flight /\ guess_in_flight' /\ ~awaiting_advance'
      /\ p = current_detective'
      /\ calls' = calls \cup {JudgeCall(p, text)}
      /\ phase_timer' = NoTimer
      /\ UNCHANGED <<selected_map, turn_generation, fired>>
  BY DEF HandleSubmitGuess, MayGuess
<1>2. TimersOK'  BY <1>1, TimersKept DEF AsyncInv, NoTimer
<1>3. CallsOK'
  <2>1. /\ JudgeCall(p, text).gen = turn_generation
        /\ JudgeCall(p, text).map = selected_map'
        /\ JudgeCall(p, text).kind = "judge" /\ JudgeCall(p, text).player = p
    BY <1>1 DEF JudgeCall
  <2>2. turn_generation \in Nat  BY DEF TypeOK
  <2>3. QED  BY <1>1, <2>1, <2>2, NoLiveCall, CallsOneLive DEF AsyncInv
<1>4. QED  BY <1>1, <1>2, <1>3 DEF AsyncInv, LobbyOK, FlagsOK

(* next_turn leaves the answered turn behind. *)
LEMMA NextTurnAsync ==
  ASSUME TypeOK, AsyncInv, NEW p, HandleNextTurn(p)  PROVE  AsyncInv'
<1>1. /\ BeginNextTurn(pending_order, crime_eval, solved_at_attempt, phase_timer)
      /\ fired' = fired /\ calls' = calls /\ awaiting_advance' = FALSE
  BY DEF HandleNextTurn
<1>2. QED  BY <1>1, BeginNextTurnAsync

(* A wait becomes an expiry of the same generation, or is forgotten. *)
LEMMA TimerAsync ==
  ASSUME TypeOK, AsyncInv, TimerExpires \/ DropExpiry  PROVE  AsyncInv'
<1>1. /\ UNCHANGED <<state, selected_map, gameVars, scoreVars, turnVars,
                     turn_generation, calls>>
      /\ phase_timer' \in {phase_timer, NoTimer}
      /\ fired' \in {phase_timer, NoTimer}
  BY DEF TimerExpires, DropExpiry
<1>2. TimersOK'  BY <1>1, TimersKept DEF AsyncInv, NoTimer
<1>3. QED
  BY <1>1, <1>2, CallsKept
  DEF AsyncInv, LobbyOK, FlagsOK, gameVars, scoreVars, turnVars

(* The round ends before any call was made. *)
LEMMA CrimeWritingTimeoutAsync ==
  ASSUME TypeOK, AsyncInv, HandleCrimeWritingTimeout  PROVE  AsyncInv'
<1>1. /\ state = "CrimeWriting" /\ state' # "Lobby"
      /\ fired' = NoTimer
      /\ UNCHANGED <<turn_generation, phase_timer, calls, guess_in_flight,
                     awaiting_advance>>
  BY DEF HandleCrimeWritingTimeout, ExpiryApplies, FinishRound, turnVars
<1>2. TimersOK'  BY <1>1, TimersKept DEF AsyncInv, NoTimer
<1>3. CallsOK'  BY <1>1, NoLiveCall, CallsStayDead DEF AsyncInv
<1>4. QED  BY <1>1, <1>2, <1>3 DEF AsyncInv, LobbyOK, FlagsOK

(* The timeout closes a turn no guess was submitted in. *)
LEMMA GuessTimeoutAsync ==
  ASSUME TypeOK, AsyncInv, HandleGuessTimeout  PROVE  AsyncInv'
<1>1. /\ state = "Investigation" /\ ~guess_in_flight
      /\ fired' = NoTimer
      /\ UNCHANGED <<state, selected_map, guess_in_flight, current_detective,
                     turn_generation, phase_timer, calls>>
  BY DEF HandleGuessTimeout, ExpiryApplies, AsyncInv, TimersOK
<1>2. TimersOK'  BY <1>1, TimersKept DEF AsyncInv, NoTimer
<1>3. CallsOK'  BY <1>1, CallsKept DEF AsyncInv
<1>4. QED  BY <1>1, <1>2, <1>3 DEF AsyncInv, LobbyOK, FlagsOK

(* The answered evaluation is gone, and its generation with it. *)
LEMMA EvaluationAsync ==
  ASSUME TypeOK, AsyncInv, NEW c \in calls, HandleEvaluation(c)  PROVE  AsyncInv'
<1>1. PICK eval \in EvalScores, order \in Shuffles(Detectives) :
        BeginNextTurn(order, eval, Nobody, phase_timer)
  BY DEF HandleEvaluation
<1>2. /\ fired' = fired /\ calls' \subseteq calls
      /\ UNCHANGED <<guess_in_flight, awaiting_advance>>
  BY DEF HandleEvaluation
<1>3. QED  BY <1>1, <1>2, BeginNextTurnAsync DEF AsyncInv, FlagsOK

(* The answered judgement was the only live call. *)
LEMMA JudgementAsync ==
  ASSUME TypeOK, AsyncInv, NEW c \in calls, NEW correct, HandleJudgement(c, correct)
  PROVE  AsyncInv'
<1>1. /\ state = "Investigation"
      /\ \A d \in calls : d.gen = turn_generation => d = c
  BY LiveJudgement DEF HandleJudgement, AsyncInv
<1>2. /\ calls' = calls \ {c} /\ guess_in_flight' = FALSE
      /\ UNCHANGED <<state, turn_generation, phase_timer, fired>>
  BY DEF HandleJudgement
<1>3. TimersOK'  BY <1>2, TimersKept DEF AsyncInv
<1>4. CallsOK'  BY <1>1, <1>2 DEF CallsOK, AsyncInv
<1>5. QED  BY <1>1, <1>2, <1>3, <1>4 DEF AsyncInv, LobbyOK, FlagsOK

(* Dropping a call changes nothing for the others. *)
LEMMA DropAnswerAsync ==
  ASSUME TypeOK, AsyncInv, NEW c \in calls, DropAnswer(c)  PROVE  AsyncInv'
BY CallsKept, TimersKept
DEF AsyncInv, LobbyOK, FlagsOK, DropAnswer, gameVars, scoreVars, turnVars,
    crimeVars

-----------------------------------------------------------------------------
(* The turn queue. *)

(* What TurnQueueOK and SpreadOK say of a queue, its attempts and its       *)
(* solutions, whoever the detectives are.                                   *)
QueueOf(queue, used, solved, who) ==
  /\ IsInjective(queue)
  /\ \A i \in DOMAIN queue :
       queue[i] \in who /\ used[queue[i]] < MaxAttempts /\ solved[queue[i]] = 0
  /\ \A i, j \in DOMAIN queue : i < j => used[queue[i]] <= used[queue[j]]
  /\ \A i, j \in DOMAIN queue : used[queue[i]] <= used[queue[j]] + 1

Queue == QueueOf(pending_order, attempts_used, solved_at_attempt, Detectives)

(* The detective who owes an answer is at the front of the queue. *)
FrontOwes ==
  ~awaiting_advance => pending_order # <<>> /\ current_detective = Head(pending_order)

QueueInv == TurnQueueOK /\ SpreadOK

(* TurnQueueOK and SpreadOK speak of Queue and FrontOwes. *)
LEMMA QueueInvParts == QueueInv <=> (state = "Investigation" => Queue /\ FrontOwes)
BY DEF QueueInv, TurnQueueOK, SpreadOK, Queue, QueueOf, FrontOwes

(* The same of the next state. *)
LEMMA QueueInvPartsNext ==
  QueueInv' <=> (state' = "Investigation" => Queue' /\ FrontOwes')
BY DEF QueueInv, TurnQueueOK, SpreadOK, Queue, QueueOf, FrontOwes

(* Outside of an investigation nothing is said of the queue. *)
LEMMA QueueOver == ASSUME state' # "Investigation"  PROVE  QueueInv'
BY QueueInvPartsNext

(* A step that leaves the queue alone and takes no detective away. *)
LEMMA QueueKept ==
  ASSUME QueueInv, state = "Investigation", Detectives \subseteq Detectives',
         UNCHANGED <<pending_order, attempts_used, solved_at_attempt,
                     current_detective, awaiting_advance>>
  PROVE  QueueInv'
BY QueueInvParts, QueueInvPartsNext DEF Queue, QueueOf, FrontOwes

(* A queue that loses a player is still in order, and rid of that player. *)
LEMMA RemoveKeepsQueue ==
  ASSUME NEW queue \in Seq(players), NEW used, NEW solved, NEW who, NEW p,
         QueueOf(queue, used, solved, who)
  PROVE  QueueOf(RemoveFirst(queue, p), used, solved, who \ {p})
<1> DEFINE r == RemoveFirst(queue, p)
<1>1. IsInjective(queue)  BY DEF QueueOf
<1>2. /\ r \in Seq(players)
      /\ \A i \in 1..Len(r) : r[i] # p
      /\ \/ r = queue
         \/ \E k \in 1..Len(queue) :
              /\ Len(r) = Len(queue) - 1 /\ queue[k] = p
              /\ \A i \in 1..Len(r) : r[i] = IF i < k THEN queue[i] ELSE queue[i+1]
  BY <1>1, RemoveFirstProperties
<1> HIDE DEF r
<1>3. CASE r = queue
  <2>1. \A i \in DOMAIN queue : queue[i] # p  BY <1>2, <1>3
  <2>2. QED  BY <1>3, <2>1 DEF QueueOf, r
<1>4. CASE \E k \in 1..Len(queue) :
             /\ Len(r) = Len(queue) - 1 /\ queue[k] = p
             /\ \A i \in 1..Len(r) : r[i] = IF i < k THEN queue[i] ELSE queue[i+1]
  <2>1. PICK k \in 1..Len(queue) :
               /\ Len(r) = Len(queue) - 1 /\ queue[k] = p
               /\ \A i \in 1..Len(r) : r[i] = IF i < k THEN queue[i] ELSE queue[i+1]
    BY <1>4
  <2> DEFINE at(i) == IF i < k THEN i ELSE i + 1
  <2>2. /\ DOMAIN r = 1..Len(r) /\ DOMAIN queue = 1..Len(queue)
        /\ Len(queue) \in Nat /\ Len(r) \in Nat
    BY <1>2
  <2>3. \A i \in DOMAIN r : at(i) \in DOMAIN queue /\ r[i] = queue[at(i)] /\ i \in Nat
    BY <2>1, <2>2
  <2>4. \A i, j \in DOMAIN r : /\ i < j => at(i) < at(j)
                               /\ at(i) = at(j) => i = j
    BY <2>2
  <2> HIDE DEF at
  <2>5. IsInjective(r)
    BY <1>1, <2>3, <2>4 DEF IsInjective
  <2>6. \A i \in DOMAIN r :
          r[i] \in who \ {p} /\ used[r[i]] < MaxAttempts /\ solved[r[i]] = 0
    <3> TAKE i \in DOMAIN r
    <3>1. r[i] \in who /\ used[r[i]] < MaxAttempts /\ solved[r[i]] = 0
      BY <2>3 DEF QueueOf
    <3>2. r[i] # p  BY <1>2, <2>2
    <3>3. QED  BY <3>1, <3>2
  <2>7. \A i, j \in DOMAIN r : i < j => used[r[i]] <= used[r[j]]
    BY <2>3, <2>4 DEF QueueOf
  <2>8. \A i, j \in DOMAIN r : used[r[i]] <= used[r[j]] + 1
    BY <2>3 DEF QueueOf
  <2>9. QED  BY <2>5, <2>6, <2>7, <2>8 DEF QueueOf, r
<1>5. QED  BY <1>2, <1>3, <1>4

(* Whoever is taken out behind the front leaves the front where it is. *)
LEMMA RemoveKeepsFront ==
  ASSUME NEW queue \in Seq(players), IsInjective(queue), queue # <<>>,
         NEW p, p # Head(queue)
  PROVE  /\ RemoveFirst(queue, p) # <<>>
         /\ Head(RemoveFirst(queue, p)) = Head(queue)
<1> DEFINE r == RemoveFirst(queue, p)
<1>1. /\ r \in Seq(players)
      /\ \/ r = queue
         \/ \E k \in 1..Len(queue) :
              /\ Len(r) = Len(queue) - 1 /\ queue[k] = p
              /\ \A i \in 1..Len(r) : r[i] = IF i < k THEN queue[i] ELSE queue[i+1]
  BY RemoveFirstProperties
<1> HIDE DEF r
<1>2. CASE r = queue  BY <1>2 DEF r
<1>3. CASE \E k \in 1..Len(queue) :
             /\ Len(r) = Len(queue) - 1 /\ queue[k] = p
             /\ \A i \in 1..Len(r) : r[i] = IF i < k THEN queue[i] ELSE queue[i+1]
  <2>1. PICK k \in 1..Len(queue) :
               /\ Len(r) = Len(queue) - 1 /\ queue[k] = p
               /\ \A i \in 1..Len(r) : r[i] = IF i < k THEN queue[i] ELSE queue[i+1]
    BY <1>3
  <2>2. Head(queue) = queue[1] /\ Len(queue) \in Nat  OBVIOUS
  <2>3. k > 1  BY <2>1, <2>2
  <2>4. Len(r) >= 1 /\ r[1] = queue[1]  BY <2>1, <2>2, <2>3
  <2>5. r # <<>> /\ Head(r) = r[1]  BY <1>1, <2>4
  <2>6. QED  BY <2>2, <2>4, <2>5 DEF r
<1>4. QED  BY <1>1, <1>2, <1>3

(* The front that answered goes to the back, one attempt ahead of everybody *)
(* it stood before, or leaves; the queue stays in order.                    *)
LEMMA RequeueKeepsQueue ==
  ASSUME TypeOK, Queue, pending_order # <<>>,
         NEW p, p = Head(pending_order), NEW n, n = attempts_used[p] + 1,
         NEW correct \in BOOLEAN, NEW solved,
         \A e \in PlayerIds \ {p} : solved[e] = solved_at_attempt[e],
         correct \/ solved = solved_at_attempt
  PROVE  QueueOf(Requeue(p, n, correct), [attempts_used EXCEPT ![p] = n], solved, Detectives)
<1> DEFINE q == pending_order
           t == Tail(pending_order)
           used == [attempts_used EXCEPT ![p] = n]
<1>1. /\ q \in Seq(players) /\ Len(q) \in Nat /\ Len(q) >= 1 /\ DOMAIN q = 1..Len(q)
      /\ \A e \in players : e \in PlayerIds
      /\ attempts_used \in [PlayerIds -> 0..MaxAttempts]
      /\ MaxAttempts \in Nat
  <2>1. q \in Seq(players) /\ players \subseteq PlayerIds
    BY DEF TypeOK
  <2>2. Len(q) \in Nat /\ Len(q) >= 1 /\ DOMAIN q = 1..Len(q)
    BY <2>1
  <2>3. attempts_used \in [PlayerIds -> 0..MaxAttempts] /\ MaxAttempts \in Nat
    BY ScoringAssumption DEF TypeOK
  <2>4. QED  BY <2>1, <2>2, <2>3
<1>2. p = q[1] /\ p \in PlayerIds /\ 1 \in DOMAIN q
  BY <1>1
<1>3. n \in Nat /\ attempts_used[p] \in 0..MaxAttempts
  BY <1>1, <1>2
<1>4. /\ t \in Seq(players) /\ Len(t) = Len(q) - 1 /\ DOMAIN t = 1..Len(t)
      /\ \A i \in 1..Len(t) : t[i] = q[i+1]
  BY <1>1
<1> HIDE DEF q, t, used
<1>5. /\ IsInjective(q)
      /\ \A i \in DOMAIN q :
           /\ q[i] \in Detectives
           /\ attempts_used[q[i]] < MaxAttempts /\ solved_at_attempt[q[i]] = 0
      /\ \A i, j \in DOMAIN q : i < j => attempts_used[q[i]] <= attempts_used[q[j]]
      /\ \A i, j \in DOMAIN q : attempts_used[q[i]] <= attempts_used[q[j]] + 1
  BY DEF Queue, QueueOf, q
<1>6. /\ used[p] = n
      /\ \A e \in PlayerIds \ {p} : used[e] = attempts_used[e]
  BY <1>1, <1>2 DEF used
<1>7. ASSUME NEW i \in 1..Len(t)
      PROVE  /\ i+1 \in DOMAIN q /\ i+1 > 1 /\ t[i] = q[i+1] /\ t[i] # p
             /\ t[i] \in PlayerIds \ {p}
             /\ used[t[i]] = attempts_used[t[i]] /\ used[t[i]] \in Nat
             /\ solved[t[i]] = 0 /\ t[i] \in Detectives
  <2>1. i+1 \in DOMAIN q /\ i+1 > 1 /\ t[i] = q[i+1]
    <3>1. Len(q) \in Nat /\ Len(t) = Len(q) - 1  BY <1>1, <1>4
    <3>2. i+1 \in 1..Len(q) /\ i+1 > 1  BY ONLY <3>1, i \in 1..Len(t)
    <3>3. t[i] = q[i+1]  BY <1>4
    <3>4. QED  BY <1>1, <3>2, <3>3
  <2>2. t[i] # p
    <3>1. i+1 # 1  BY <2>1
    <3>2. QED  BY <1>2, <1>5, <2>1, <3>1 DEF IsInjective
  <2>3. t[i] \in PlayerIds \ {p}
    BY <1>1, <1>4, <2>2
  <2>4. used[t[i]] = attempts_used[t[i]] /\ used[t[i]] \in Nat
    BY <1>1, <1>6, <2>3
  <2>5. solved[t[i]] = 0 /\ t[i] \in Detectives
    BY <1>5, <2>1, <2>3
  <2>6. QED  BY <2>1, <2>2, <2>3, <2>4, <2>5
<1>8. ASSUME NEW i \in 1..Len(t)
      PROVE  used[t[i]] <= n /\ n <= used[t[i]] + 1
  <2>1. /\ attempts_used[p] <= attempts_used[t[i]]
        /\ attempts_used[t[i]] <= attempts_used[p] + 1
    BY <1>2, <1>5, <1>7
  <2>2. QED  BY <1>3, <1>7, <2>1
<1>9. QueueOf(t, used, solved, Detectives)
  <2>1. IsInjective(t)
    <3>1. ASSUME NEW i \in DOMAIN t, NEW j \in DOMAIN t, t[i] = t[j]
          PROVE  i = j
      <4>1. i \in 1..Len(t) /\ j \in 1..Len(t)  BY <1>4
      <4>2. i+1 = j+1  BY <1>5, <1>7, <3>1, <4>1 DEF IsInjective
      <4>3. QED  BY <4>1, <4>2
    <3>2. QED  BY <3>1 DEF IsInjective
  <2>2. \A i \in DOMAIN t :
          t[i] \in Detectives /\ used[t[i]] < MaxAttempts /\ solved[t[i]] = 0
    BY <1>4, <1>5, <1>7
  <2>3. \A i, j \in DOMAIN t : i < j => used[t[i]] <= used[t[j]]
    <3>1. ASSUME NEW i \in DOMAIN t, NEW j \in DOMAIN t, i < j
          PROVE  used[t[i]] <= used[t[j]]
      <4>1. i \in 1..Len(t) /\ j \in 1..Len(t)  BY <1>4
      <4>2. i+1 < j+1 /\ i+1 \in DOMAIN q /\ j+1 \in DOMAIN q
        BY <1>7, <3>1, <4>1
      <4>3. attempts_used[q[i+1]] <= attempts_used[q[j+1]]
        BY <1>5, <4>2
      <4>4. QED  BY <1>7, <4>1, <4>3
    <3>2. QED  BY <3>1
  <2>4. \A i, j \in DOMAIN t : used[t[i]] <= used[t[j]] + 1
    <3>1. ASSUME NEW i \in DOMAIN t, NEW j \in DOMAIN t
          PROVE  used[t[i]] <= used[t[j]] + 1
      <4>1. i \in 1..Len(t) /\ j \in 1..Len(t)  BY <1>4
      <4>2. attempts_used[q[i+1]] <= attempts_used[q[j+1]] + 1
        BY <1>5, <1>7, <4>1
      <4>3. QED  BY <1>7, <4>1, <4>2
    <3>2. QED  BY <3>1
  <2>5. QED  BY <2>1, <2>2, <2>3, <2>4 DEF QueueOf
<1>10. CASE ~correct /\ n < MaxAttempts
  <2> DEFINE r == Append(t, p)
  <2>1. /\ DOMAIN r = 1..(Len(t)+1) /\ Len(t) \in Nat
        /\ \A i \in 1..Len(t) : r[i] = t[i]
        /\ r[Len(t)+1] = p
    <3>1. t \in Seq(players) /\ p \in players
      BY <1>1, <1>2, <1>4, ElementOfSeq
    <3>2. QED  BY <3>1, AppendProperties
  <2>2. Requeue(p, n, correct) = r
    BY <1>10 DEF Requeue, t
  <2> HIDE DEF r
  <2>3. p \in Detectives /\ used[p] = n /\ n < MaxAttempts /\ solved[p] = 0
    BY <1>2, <1>5, <1>6, <1>10
  <2>4. ASSUME NEW i \in DOMAIN r
        PROVE  \/ i \in 1..Len(t) /\ i < Len(t)+1 /\ r[i] = t[i] /\ i \in DOMAIN t
               \/ i = Len(t)+1 /\ r[i] = p
    BY <1>4, <2>1
  <2>5. IsInjective(r)
    <3>1. ASSUME NEW i \in DOMAIN r, NEW j \in DOMAIN r, r[i] = r[j]
          PROVE  i = j
      BY <1>7, <1>9, <2>4, <3>1 DEF IsInjective, QueueOf
    <3>2. QED  BY <3>1 DEF IsInjective
  <2>6. \A i \in DOMAIN r :
          r[i] \in Detectives /\ used[r[i]] < MaxAttempts /\ solved[r[i]] = 0
    BY <1>9, <2>3, <2>4 DEF QueueOf
  <2>7. \A i, j \in DOMAIN r : i < j => used[r[i]] <= used[r[j]]
    <3>1. ASSUME NEW i \in DOMAIN r, NEW j \in DOMAIN r, i < j
          PROVE  used[r[i]] <= used[r[j]]
      <4>1. i \in 1..Len(t) /\ r[i] = t[i] /\ i \in DOMAIN t
        BY <2>1, <3>1
      <4>2. CASE j \in 1..Len(t) /\ r[j] = t[j] /\ j \in DOMAIN t
        BY <1>9, <3>1, <4>1, <4>2 DEF QueueOf
      <4>3. CASE r[j] = p
        BY <1>6, <1>8, <4>1, <4>3
      <4>4. QED  BY <2>4, <4>2, <4>3
    <3>2. QED  BY <3>1
  <2>8. \A i, j \in DOMAIN r : used[r[i]] <= used[r[j]] + 1
    <3>1. ASSUME NEW i \in DOMAIN r, NEW j \in DOMAIN r
          PROVE  used[r[i]] <= used[r[j]] + 1
      <4>1. CASE r[i] = p /\ r[j] = p
        BY <1>3, <1>6, <4>1
      <4>2. CASE r[i] = p /\ j \in 1..Len(t) /\ r[j] = t[j]
        BY <1>6, <1>8, <4>2
      <4>3. CASE i \in 1..Len(t) /\ r[i] = t[i] /\ r[j] = p
        BY <1>3, <1>6, <1>7, <1>8, <4>3
      <4>4. CASE /\ i \in DOMAIN t /\ r[i] = t[i]
                 /\ j \in DOMAIN t /\ r[j] = t[j]
        BY <1>9, <4>4 DEF QueueOf
      <4>5. QED  BY <2>4, <4>1, <4>2, <4>3, <4>4
    <3>2. QED  BY <3>1
  <2>9. QueueOf(r, used, solved, Detectives)
    BY <2>5, <2>6, <2>7, <2>8 DEF QueueOf
  <2>10. QED  BY <2>2, <2>9 DEF used
<1>11. CASE correct \/ ~(n < MaxAttempts)
  <2>1. Requeue(p, n, correct) = t  BY <1>11 DEF Requeue, t
  <2>2. QED  BY <1>9, <2>1 DEF used
<1>12. QED  BY <1>10, <1>11

(* A turn that begins finds the queue its caller leaves. *)
LEMMA BeginNextTurnQueue ==
  ASSUME NEW pending, NEW eval, NEW solved, NEW timer,
         BeginNextTurn(pending, eval, solved, timer),
         QueueOf(pending, attempts_used', solved, Detectives')
  PROVE  QueueInv'
<1>1. CASE pending = <<>>
  BY <1>1, QueueOver DEF BeginNextTurn, FinishRound
<1>2. CASE pending # <<>>
  <2>1. /\ pending_order' = pending /\ solved_at_attempt' = solved
        /\ current_detective' = Head(pending)
    BY <1>2 DEF BeginNextTurn
  <2>2. Queue' /\ FrontOwes'
    BY <1>2, <2>1 DEF Queue, FrontOwes
  <2>3. QED  BY <2>2, QueueInvPartsNext
<1>3. QED  BY <1>1, <1>2

(* Nobody joins during an investigation. *)
LEMMA JoinQueue == ASSUME HandleJoin  PROVE  QueueInv'
BY QueueOver DEF HandleJoin

(* A detective who returns does not enter the queue. *)
LEMMA ReconnectQueue ==
  ASSUME QueueInv, NEW p \in players, HandleReconnect(p)  PROVE  QueueInv'
<1>1. CASE state = "Investigation"
  BY <1>1, QueueKept DEF HandleReconnect, Detectives, turnVars, gameVars
<1>2. CASE state # "Investigation"
  BY <1>2, QueueOver DEF HandleReconnect
<1>3. QED  BY <1>1, <1>2

(* A detective who drops is erased from the queue. *)
LEMMA DisconnectQueue ==
  ASSUME TypeOK, QueueInv, NEW p \in players, HandleDisconnect(p)  PROVE  QueueInv'
<1>1. connected' = connected \ {p} /\ criminal_id' = criminal_id
  BY DEF HandleDisconnect, gameVars
<1>2. CASE LeaveLobby(p) \/ LeaveQuietly(p)
  BY <1>2, QueueOver DEF LeaveLobby, LeaveQuietly
<1>3. CASE AbortRound(p)
  BY <1>3, QueueOver DEF AbortRound, FinishRound
<1>4. CASE LeaveInvestigation(p)
  <2>1. Queue /\ FrontOwes
    BY <1>4, QueueInvParts DEF LeaveInvestigation
  <2>2. pending_order \in Seq(players) /\ IsInjective(pending_order)
    BY <2>1 DEF TypeOK, Queue, QueueOf
  <2>3. QueueOf(RemoveFirst(pending_order, p), attempts_used, solved_at_attempt,
                Detectives \ {p})
    BY <2>1, <2>2, RemoveKeepsQueue DEF Queue
  <2>4. Detectives' = Detectives \ {p} /\ attempts_used' = attempts_used
    BY <1>1, <1>4 DEF Detectives, LeaveInvestigation
  <2>5. QueueOf(RemoveFirst(pending_order, p), attempts_used', solved_at_attempt,
                Detectives')
    BY <2>3, <2>4
  <2>6. CASE p = current_detective
    <3>1. BeginNextTurn(RemoveFirst(pending_order, p), crime_eval,
                        solved_at_attempt, NoTimer)
      BY <1>4, <2>6 DEF LeaveInvestigation
    <3>2. QED  BY <2>5, <3>1, BeginNextTurnQueue
  <2>7. CASE p # current_detective
    <3>1. /\ pending_order' = RemoveFirst(pending_order, p)
          /\ UNCHANGED <<solved_at_attempt, current_detective, awaiting_advance>>
      BY <1>4, <2>7 DEF LeaveInvestigation
    <3>2. Queue'  BY <2>5, <3>1 DEF Queue
    <3>3. FrontOwes'
      BY <2>1, <2>2, <2>7, <3>1, RemoveKeepsFront DEF FrontOwes
    <3>4. QED  BY <3>2, <3>3, QueueInvPartsNext
  <2>8. QED  BY <2>6, <2>7
<1>5. QED  BY <1>2, <1>3, <1>4 DEF HandleDisconnect

(* The messages that find the room in another phase or leave it in one. *)
LEMMA MessageQueue ==
  ASSUME NEW p,
         \/ \E m \in Maps : HandleSelectMap(p, m)
         \/ HandleStartGame(p) \/ HandleNextRound(p)
         \/ HandleRestartGame(p) \/ HandleSubmitCrime(p)
  PROVE  QueueInv'
BY QueueOver
DEF HandleSelectMap, HandleStartGame, HandleNextRound, HandleRestartGame,
    HandleSubmitCrime, StartRound

(* Submitting a guess leaves the queue alone. *)
LEMMA SubmitGuessQueue ==
  ASSUME QueueInv, NEW p, NEW text, HandleSubmitGuess(p, text)  PROVE  QueueInv'
<1>1. state = "Investigation"
  BY DEF HandleSubmitGuess, MayGuess
<1>2. QED
  BY <1>1, QueueKept DEF HandleSubmitGuess, Detectives, rosterVars, gameVars

(* next_turn gives the turn to the front of the queue. *)
LEMMA NextTurnQueue ==
  ASSUME QueueInv, NEW p, HandleNextTurn(p)  PROVE  QueueInv'
<1>1. Queue  BY QueueInvParts DEF HandleNextTurn
<1>2. /\ BeginNextTurn(pending_order, crime_eval, solved_at_attempt, phase_timer)
      /\ UNCHANGED <<attempts_used, connected, criminal_id>>
  BY DEF HandleNextTurn, rosterVars, gameVars
<1>3. Detectives' = Detectives  BY <1>2 DEF Detectives
<1>4. QueueOf(pending_order, attempts_used', solved_at_attempt, Detectives')
  BY <1>1, <1>2, <1>3 DEF Queue
<1>5. QED  BY <1>2, <1>4, BeginNextTurnQueue

(* Expiries and answers that are delivered or dropped. *)
LEMMA DropQueue ==
  ASSUME QueueInv, TimerExpires \/ DropExpiry \/ \E c \in calls : DropAnswer(c)
  PROVE  QueueInv'
<1>1. UNCHANGED <<state, rosterVars, gameVars, turnVars>>
  BY DEF TimerExpires, DropExpiry, DropAnswer
<1>2. CASE state = "Investigation"
  BY <1>1, <1>2, QueueKept DEF Detectives, rosterVars, gameVars, turnVars
<1>3. CASE state # "Investigation"
  BY <1>1, <1>3, QueueOver
<1>4. QED  BY <1>2, <1>3

(* There is no queue before the investigation. *)
LEMMA CrimeWritingTimeoutQueue ==
  ASSUME HandleCrimeWritingTimeout  PROVE  QueueInv'
BY QueueOver DEF HandleCrimeWritingTimeout, FinishRound

(* A timeout requeues the current detective. *)
LEMMA GuessTimeoutQueue ==
  ASSUME TypeOK, TimersOK, QueueInv, HandleGuessTimeout  PROVE  QueueInv'
<1> DEFINE p == current_detective
           n == attempts_used[p] + 1
<1>1. state = "Investigation" /\ ~awaiting_advance
  BY DEF HandleGuessTimeout, ExpiryApplies, TimersOK
<1>2. Queue /\ pending_order # <<>> /\ p = Head(pending_order)
  BY <1>1, QueueInvParts DEF FrontOwes
<1>3. /\ attempts_used' = [attempts_used EXCEPT ![p] = n]
      /\ pending_order' = Requeue(p, n, FALSE)
      /\ awaiting_advance' = TRUE
      /\ UNCHANGED <<connected, criminal_id, solved_at_attempt>>
  BY DEF HandleGuessTimeout, rosterVars, gameVars
<1> HIDE DEF p, n
<1>4. QueueOf(Requeue(p, n, FALSE), [attempts_used EXCEPT ![p] = n],
              solved_at_attempt, Detectives)
  BY <1>2, RequeueKeepsQueue DEF n
<1>5. Detectives' = Detectives  BY <1>3 DEF Detectives
<1>6. Queue' /\ FrontOwes'  BY <1>3, <1>4, <1>5 DEF Queue, FrontOwes
<1>7. QED  BY <1>6, QueueInvPartsNext

(* The shuffled queue holds each connected detective once. *)
LEMMA EvaluationQueue ==
  ASSUME TypeOK, NEW c, HandleEvaluation(c)  PROVE  QueueInv'
<1>1. PICK eval \in EvalScores, order \in Shuffles(Detectives) :
        BeginNextTurn(order, eval, Nobody, phase_timer)
  BY DEF HandleEvaluation
<1>2. /\ attempts_used' = Nobody
      /\ UNCHANGED <<connected, criminal_id>>
  BY DEF HandleEvaluation, rosterVars, gameVars
<1>3. Detectives' = Detectives  BY <1>2 DEF Detectives
<1>4. /\ IsInjective(order)
      /\ \A i \in DOMAIN order : order[i] \in Detectives
  BY DEF Shuffles, Bijection, Injection
<1>5. Detectives \subseteq PlayerIds
  BY DEF TypeOK, Detectives
<1>6. \A p \in Detectives : Nobody[p] = 0
  BY <1>5 DEF Nobody
<1>7. QueueOf(order, Nobody, Nobody, Detectives)
  <2>1. MaxAttempts > 0 /\ 0 <= 0 + 1  BY ScoringAssumption
  <2>2. \A i \in DOMAIN order : Nobody[order[i]] = 0  BY <1>4, <1>6
  <2>3. QED  BY <1>4, <2>1, <2>2 DEF QueueOf
<1>8. QED  BY <1>1, <1>2, <1>3, <1>7, BeginNextTurnQueue

(* A judgement requeues the current detective, or lets a solver go. *)
LEMMA JudgementQueue ==
  ASSUME TypeOK, FlagsOK, CallsOK, QueueInv,
         NEW c \in calls, NEW correct \in BOOLEAN, HandleJudgement(c, correct)
  PROVE  QueueInv'
<1> DEFINE p == c.player
           n == attempts_used[p] + 1
<1>1. state = "Investigation" /\ ~awaiting_advance /\ p = current_detective
  BY LiveJudgement DEF HandleJudgement
<1>2. Queue /\ pending_order # <<>> /\ p = Head(pending_order)
  BY <1>1, QueueInvParts DEF FrontOwes
<1>3. /\ attempts_used' = [attempts_used EXCEPT ![p] = n]
      /\ pending_order' = Requeue(p, n, correct)
      /\ solved_at_attempt' = IF correct THEN [solved_at_attempt EXCEPT ![p] = n]
                              ELSE solved_at_attempt
      /\ awaiting_advance' = TRUE
      /\ UNCHANGED <<connected, criminal_id>>
  BY DEF HandleJudgement, rosterVars, gameVars
<1> HIDE DEF p, n
<1>4. \A e \in PlayerIds \ {p} : solved_at_attempt'[e] = solved_at_attempt[e]
  BY <1>3 DEF TypeOK
<1>5. correct \/ solved_at_attempt' = solved_at_attempt
  BY <1>3
<1>6. QueueOf(Requeue(p, n, correct), [attempts_used EXCEPT ![p] = n],
              solved_at_attempt', Detectives)
  BY <1>2, <1>4, <1>5, RequeueKeepsQueue DEF n
<1>7. Detectives' = Detectives  BY <1>3 DEF Detectives
<1>8. Queue' /\ FrontOwes'  BY <1>3, <1>6, <1>7 DEF Queue, FrontOwes
<1>9. QED  BY <1>8, QueueInvPartsNext

-----------------------------------------------------------------------------
(* The room's invariant. *)

(* Nothing the invariant speaks of changes in a stuttering step. *)
LEMMA StutterInv == ASSUME RoomInv, UNCHANGED vars  PROVE  RoomInv'
BY DEF RoomInv, TypeOK, LobbyOK, FlagsOK, TimersOK, CallsOK, TurnQueueOK, SpreadOK,
       Detectives, vars, rosterVars, gameVars, scoreVars, turnVars, crimeVars,
       asyncVars

(* The room create_room leaves satisfies the invariant. *)
LEMMA InitInv == Init => RoomInv
<1> SUFFICES ASSUME Init  PROVE  RoomInv
  OBVIOUS
<1>1. TypeOK  BY InitTypeOK
<1>2. LobbyOK /\ FlagsOK /\ CallsOK /\ TurnQueueOK /\ SpreadOK
  BY DEF Init, LobbyOK, FlagsOK, CallsOK, TurnQueueOK, SpreadOK
<1>3. TimersOK  BY DEF Init, TimersOK, NoTimer
<1>4. QED  BY <1>1, <1>2, <1>3 DEF RoomInv

(* Every handler of the room keeps the invariant. *)
LEMMA NextInv == RoomInv /\ [Next]_vars => RoomInv'
<1> SUFFICES ASSUME RoomInv, [Next]_vars  PROVE  RoomInv'
  OBVIOUS
<1>1. /\ TypeOK /\ LobbyOK /\ FlagsOK /\ TimersOK /\ CallsOK /\ TurnQueueOK
      /\ AsyncInv /\ QueueInv
  BY DEF RoomInv, AsyncInv, QueueInv
<1>2. ASSUME TypeOK', AsyncInv', QueueInv'  PROVE  RoomInv'
  BY <1>2 DEF RoomInv, AsyncInv, QueueInv
<1>3. CASE HandleJoin
  BY <1>1, <1>2, <1>3, JoinTypeOK, JoinAsync, JoinQueue
<1>4. CASE \E p \in players : HandleReconnect(p)
  BY <1>1, <1>2, <1>4, ReconnectTypeOK, ReconnectAsync, ReconnectQueue
<1>5. CASE \E p \in players : HandleDisconnect(p)
  BY <1>1, <1>2, <1>5, DisconnectTypeOK, DisconnectAsync, DisconnectQueue
<1>6. CASE \E p \in players : Message(p)
  <2>1. PICK p \in players : Message(p)  BY <1>6
  <2>2. CASE \E m \in Maps : HandleSelectMap(p, m)
    BY <1>1, <1>2, <2>2, SelectMapTypeOK, SelectMapAsync, MessageQueue
  <2>3. CASE HandleStartGame(p)
    BY <1>1, <1>2, <2>3, StartGameTypeOK, StartGameAsync, MessageQueue
  <2>4. CASE HandleRestartGame(p)
    BY <1>1, <1>2, <2>4, RestartGameTypeOK, RestartGameAsync, MessageQueue
  <2>5. CASE HandleSubmitCrime(p)
    BY <1>1, <1>2, <2>5, SubmitCrimeTypeOK, SubmitCrimeAsync, MessageQueue
  <2>6. CASE \E text \in GuessTexts : HandleSubmitGuess(p, text)
    BY <1>1, <1>2, <2>6, SubmitGuessTypeOK, SubmitGuessAsync, SubmitGuessQueue
  <2>7. CASE HandleNextTurn(p)
    BY <1>1, <1>2, <2>7, NextTurnTypeOK, NextTurnAsync, NextTurnQueue
  <2>8. CASE HandleNextRound(p)
    BY <1>1, <1>2, <2>8, NextRoundTypeOK, NextRoundAsync, MessageQueue
  <2>9. QED
    BY <2>1, <2>2, <2>3, <2>4, <2>5, <2>6, <2>7, <2>8 DEF Message
<1>7. CASE TimerExpires \/ DropExpiry
  BY <1>1, <1>2, <1>7, TimerTypeOK, TimerAsync, DropQueue
<1>8. CASE HandleCrimeWritingTimeout
  BY <1>1, <1>2, <1>8, CrimeWritingTimeoutTypeOK, CrimeWritingTimeoutAsync,
     CrimeWritingTimeoutQueue
<1>9. CASE HandleGuessTimeout
  BY <1>1, <1>2, <1>9, GuessTimeoutTypeOK, GuessTimeoutAsync, GuessTimeoutQueue
<1>10. CASE \E c \in calls : HandleEvaluation(c)
  BY <1>1, <1>2, <1>10, EvaluationTypeOK, EvaluationAsync, EvaluationQueue
<1>11. CASE \E c \in calls, correct \in BOOLEAN : HandleJudgement(c, correct)
  BY <1>1, <1>2, <1>11, JudgementTypeOK, JudgementAsync, JudgementQueue
<1>12. CASE \E c \in calls : DropAnswer(c)
  BY <1>1, <1>2, <1>12, DropAnswerTypeOK, DropAnswerAsync, DropQueue
<1>13. CASE UNCHANGED vars
  BY <1>13, StutterInv
<1>14. QED
  BY <1>3, <1>4, <1>5, <1>6, <1>7, <1>8, <1>9, <1>10, <1>11, <1>12, <1>13
  DEF Next, Expiry, Answer, Gone

(* The inductive invariant holds in every state the handlers can reach. *)
THEOREM RoomInvariant == Spec => []RoomInv
<1>1. QED  BY InitInv, NextInv, PTL DEF Spec

(* The fields keep their types: scores and attempts stay in range, and      *)
(* every id a field holds is the id of somebody in the roster.              *)
THEOREM TypeCorrect == Spec => []TypeOK
<1>1. RoomInv => TypeOK  BY DEF RoomInv
<1>2. QED  BY <1>1, RoomInvariant, PTL

(* The pop_front of an answer or of a timeout always removes the current    *)
(* detective, from a queue of connected detectives kept fewest attempts     *)
(* first.                                                                   *)
THEOREM TurnQueueCorrect == Spec => []TurnQueueOK
<1>1. RoomInv => TurnQueueOK  BY DEF RoomInv
<1>2. QED  BY <1>1, RoomInvariant, PTL

(* The one AI answer that would be applied belongs to the phase, the        *)
(* detective and the map the room has now.                                  *)
THEOREM LiveCallsCorrect == Spec => []LiveCallsOK
<1>1. RoomInv => LiveCallsOK
  BY DEF RoomInv, CallsOK, LiveCallsOK, LiveCalls, AnswerApplies
<1>2. QED  BY <1>1, RoomInvariant, PTL

-----------------------------------------------------------------------------
(* The host.  HostPresent is inductive only with what the lobby adds to it: *)
(* whoever leaves there leaves the roster too, so that its front is a       *)
(* connected player.                                                        *)
HostInv ==
  /\ HostPresent
  /\ alive /\ state = "Lobby" => players = connected

(* Outside of a disconnect nobody leaves, and only a restart enters the     *)
(* lobby.                                                                   *)
LEMMA HostKept ==
  ASSUME HostInv, alive' = alive, host_id' = host_id, connected' = connected,
         state' = "Lobby" => (state = "Lobby" /\ players' = players) \/ players' = connected'
  PROVE  HostInv'
BY DEF HostInv, HostPresent

(* The host's seat is passed on to somebody connected.                      *)
LEMMA DisconnectHost ==
  ASSUME TypeOK, HostInv, NEW p \in players, HandleDisconnect(p)  PROVE  HostInv'
<1>1. /\ alive /\ connected' = connected \ {p}
      /\ alive' = (connected' # {})
      /\ connected' \in SUBSET PlayerIds
  BY DEF HandleDisconnect, TypeOK
<1>2. host_id \in connected
  BY <1>1 DEF HostInv, HostPresent
<1>3. CASE LeaveLobby(p)
  <2>1. /\ state = "Lobby" /\ state' = "Lobby" /\ players' = players \ {p}
        /\ host_id' = IF host_id # p THEN host_id
                      ELSE IF players' = {} THEN NoPlayer ELSE Min(players')
    BY <1>3 DEF LeaveLobby
  <2>2. players' = connected'
    BY <1>1, <2>1 DEF HostInv
  <2>3. connected' # {} => Min(connected') \in connected'
    BY <1>1, SomePlayers
  <2>4. connected' # {} => host_id' \in connected'
    BY <1>1, <1>2, <2>1, <2>2, <2>3
  <2>5. QED  BY <1>1, <2>2, <2>4 DEF HostInv, HostPresent
<1>4. CASE state # "Lobby" /\ SucceedHost(p) /\ state' # "Lobby"
  <2>1. host_id' = IF host_id # p THEN host_id
                   ELSE IF connected' = {} THEN NoPlayer ELSE Min(connected')
    BY <1>4 DEF SucceedHost
  <2>2. connected' # {} => Min(connected') \in connected'
    BY <1>1, SomePlayers
  <2>3. QED  BY <1>1, <1>2, <1>4, <2>1, <2>2 DEF HostInv, HostPresent
<1>5. AbortRound(p) \/ LeaveInvestigation(p) => state' # "Lobby"
  BY DEF AbortRound, LeaveInvestigation, BeginNextTurn, FinishRound
<1>6. LeaveQuietly(p) => state' # "Lobby"
  BY DEF LeaveQuietly
<1>7. QED  BY <1>3, <1>4, <1>5, <1>6 DEF HandleDisconnect

(* No handler takes the host's seat away from the connected. *)
LEMMA NextHost == TypeOK /\ HostInv /\ [Next]_vars => HostInv'
<1> SUFFICES ASSUME TypeOK, HostInv, [Next]_vars  PROVE  HostInv'
  OBVIOUS
<1>1. CASE HandleJoin
  <2>1. /\ connected' = connected \cup {next_player_id}
        /\ players' = players \cup {next_player_id}
        /\ host_id' = IF host_id = NoPlayer THEN next_player_id ELSE host_id
        /\ alive /\ state = "Lobby"
    BY <1>1 DEF HandleJoin
  <2>2. QED  BY <2>1 DEF HostInv, HostPresent
<1>2. CASE \E p \in players : HandleReconnect(p)
  BY <1>2 DEF HandleReconnect, HostInv, HostPresent
<1>3. CASE \E p \in players : HandleDisconnect(p)
  BY <1>3, DisconnectHost
<1>4. CASE \E p \in players : Message(p)
  <2>1. PICK p \in players : Message(p)  BY <1>4
  <2>2. UNCHANGED <<alive, host_id, connected>>
    BY <2>1
    DEF Message, HandleSelectMap, HandleStartGame, HandleRestartGame,
        HandleSubmitCrime, HandleSubmitGuess, HandleNextTurn, HandleNextRound,
        rosterVars
  <2>3. state' = "Lobby" => (state = "Lobby" /\ players' = players) \/ players' = connected'
    <3>1. CASE HandleRestartGame(p)
      BY <3>1 DEF HandleRestartGame
    <3>2. CASE \E m \in Maps : HandleSelectMap(p, m)
      BY <3>2 DEF HandleSelectMap, rosterVars
    <3>3. CASE HandleStartGame(p) \/ HandleNextRound(p) \/ HandleSubmitCrime(p)
      BY <3>3 DEF HandleStartGame, HandleNextRound, HandleSubmitCrime, StartRound
    <3>4. CASE \E text \in GuessTexts : HandleSubmitGuess(p, text)
      BY <3>4 DEF HandleSubmitGuess, MayGuess
    <3>5. CASE HandleNextTurn(p)
      BY <3>5 DEF HandleNextTurn, BeginNextTurn, FinishRound
    <3>6. QED  BY <2>1, <3>1, <3>2, <3>3, <3>4, <3>5 DEF Message
  <2>4. QED  BY <2>2, <2>3, HostKept
<1>5. CASE TimerExpires \/ Expiry
  <2>1. UNCHANGED <<alive, host_id, connected, players>>
    BY <1>5
    DEF TimerExpires, Expiry, HandleCrimeWritingTimeout, HandleGuessTimeout,
        DropExpiry, rosterVars
  <2>2. state' = "Lobby" => state = "Lobby"
    BY <1>5
    DEF TimerExpires, Expiry, HandleCrimeWritingTimeout, HandleGuessTimeout,
        DropExpiry, FinishRound
  <2>3. QED  BY <2>1, <2>2, HostKept
<1>6. CASE Answer
  <2>1. UNCHANGED <<alive, host_id, connected, players>>
    BY <1>6 DEF Answer, HandleEvaluation, HandleJudgement, DropAnswer, rosterVars
  <2>2. state' = "Lobby" => state = "Lobby"
    BY <1>6
    DEF Answer, HandleEvaluation, HandleJudgement, DropAnswer, BeginNextTurn,
        FinishRound
  <2>3. QED  BY <2>1, <2>2, HostKept
<1>7. CASE UNCHANGED vars
  BY <1>7, HostKept DEF vars, rosterVars
<1>8. QED
  BY <1>1, <1>2, <1>3, <1>4, <1>5, <1>6, <1>7 DEF Next, Gone

(* A room with anybody in it has a connected host, so that every phase only *)
(* the host can leave has somebody to leave it.                             *)
THEOREM HostCorrect == Spec => []HostPresent
<1>1. Init => HostInv  BY DEF Init, HostInv, HostPresent
<1>2. HostInv => HostPresent  BY DEF HostInv
<1>3. QED  BY <1>1, <1>2, TypeCorrect, NextHost, PTL DEF Spec

-----------------------------------------------------------------------------
(* What a step may do to the attempts and to the phase. *)

(* The body of OneAttemptPerTurn. *)
ChargesCurrent ==
  \A p \in PlayerIds :
    attempts_used'[p] > attempts_used[p] =>
      /\ attempts_used'[p] = attempts_used[p] + 1
      /\ p = current_detective /\ ~awaiting_advance /\ awaiting_advance'
      /\ turn_generation' = turn_generation

(* Clearing the attempts, or leaving them alone, charges nobody. *)
LEMMA NobodyCharged ==
  ASSUME TypeOK, attempts_used' = attempts_used \/ attempts_used' = Nobody
  PROVE  ChargesCurrent
<1>1. \A p \in PlayerIds : attempts_used[p] \in 0..MaxAttempts /\ Nobody[p] = 0
  BY DEF TypeOK, Nobody
<1>2. \A p \in PlayerIds : ~(attempts_used'[p] > attempts_used[p])
  BY <1>1, ScoringAssumption
<1>3. QED  BY <1>2 DEF ChargesCurrent

(* A step that closes the turn charges the player it is about. *)
LEMMA CurrentCharged ==
  ASSUME TypeOK, ~awaiting_advance, awaiting_advance',
         turn_generation' = turn_generation,
         attempts_used' = [attempts_used EXCEPT ![current_detective] =
                             attempts_used[current_detective] + 1]
  PROVE  ChargesCurrent
<1>1. \A p \in PlayerIds : attempts_used[p] \in 0..MaxAttempts
  BY DEF TypeOK
<1>2. ASSUME NEW p \in PlayerIds, attempts_used'[p] > attempts_used[p]
      PROVE  p = current_detective /\ attempts_used'[p] = attempts_used[p] + 1
  <2>1. DOMAIN attempts_used = PlayerIds  BY DEF TypeOK
  <2>2. CASE p # current_detective
    <3>1. attempts_used'[p] = attempts_used[p]  BY <2>1, <2>2
    <3>2. QED  BY <1>1, <1>2, <3>1, ScoringAssumption
  <2>3. CASE p = current_detective  BY <2>1, <2>3
  <2>4. QED  BY <2>2, <2>3
<1>3. QED  BY <1>2 DEF ChargesCurrent

(* Every handler charges the current detective or nobody. *)
LEMMA NextCharges == RoomInv /\ [Next]_vars => ChargesCurrent
<1> SUFFICES ASSUME RoomInv, [Next]_vars  PROVE  ChargesCurrent
  OBVIOUS
<1>1. TypeOK /\ FlagsOK /\ CallsOK  BY DEF RoomInv
<1>2. CASE HandleJoin \/ TimerExpires \/ HandleCrimeWritingTimeout \/ DropExpiry
  <2>1. attempts_used' = attempts_used
    BY <1>2
    DEF HandleJoin, TimerExpires, HandleCrimeWritingTimeout, DropExpiry, turnVars
  <2>2. QED  BY <1>1, <2>1, NobodyCharged
<1>3. CASE \E p \in players : HandleReconnect(p) \/ HandleDisconnect(p)
  <2>1. attempts_used' = attempts_used
    BY <1>3
    DEF HandleReconnect, HandleDisconnect, LeaveLobby, AbortRound,
        LeaveInvestigation, LeaveQuietly, turnVars
  <2>2. QED  BY <1>1, <2>1, NobodyCharged
<1>4. CASE \E p \in players : Message(p)
  <2>1. attempts_used' = attempts_used \/ attempts_used' = Nobody
    BY <1>4
    DEF Message, HandleSelectMap, HandleStartGame, HandleRestartGame,
        HandleSubmitCrime, HandleSubmitGuess, HandleNextTurn, HandleNextRound,
        StartRound, ClearRound, turnVars
  <2>2. QED  BY <1>1, <2>1, NobodyCharged
<1>5. CASE HandleGuessTimeout
  BY <1>1, <1>5, CurrentCharged DEF HandleGuessTimeout, ExpiryApplies
<1>6. CASE \E c \in calls : HandleEvaluation(c) \/ DropAnswer(c)
  <2>1. attempts_used' = attempts_used \/ attempts_used' = Nobody
    BY <1>6 DEF HandleEvaluation, DropAnswer, turnVars
  <2>2. QED  BY <1>1, <2>1, NobodyCharged
<1>7. CASE \E c \in calls, correct \in BOOLEAN : HandleJudgement(c, correct)
  <2>1. PICK c \in calls, correct \in BOOLEAN : HandleJudgement(c, correct)
    BY <1>7
  <2>2. ~awaiting_advance /\ c.player = current_detective
    BY <1>1, <2>1, LiveJudgement DEF HandleJudgement
  <2>3. QED  BY <1>1, <2>1, <2>2, CurrentCharged DEF HandleJudgement
<1>8. CASE UNCHANGED vars
  BY <1>1, <1>8, NobodyCharged DEF vars, turnVars
<1>9. QED
  BY <1>2, <1>3, <1>4, <1>5, <1>6, <1>7, <1>8 DEF Next, Expiry, Answer, Gone

(* However late answers, expiries and advances interleave, a turn costs one *)
(* attempt, of the detective whose turn it is.                              *)
THEOREM AttemptsCorrect == Spec => OneAttemptPerTurn
<1>1. RoomInv /\ [Next]_vars => [ChargesCurrent]_vars
  BY NextCharges
<1>2. QED  BY <1>1, RoomInvariant, PTL DEF Spec, OneAttemptPerTurn, ChargesCurrent

(* A step keeps the phase or follows the diagram. *)
LEMMA NextPhase ==
  RoomInv /\ [Next]_vars => (state' # state => <<state, state'>> \in PhaseSteps)
<1> SUFFICES ASSUME RoomInv, [Next]_vars, state' # state
             PROVE  <<state, state'>> \in PhaseSteps
  OBVIOUS
<1>1. CallsOK  BY DEF RoomInv
<1>2. CASE \E p \in players : HandleDisconnect(p)
  BY <1>2
  DEF HandleDisconnect, LeaveLobby, AbortRound, LeaveInvestigation, LeaveQuietly,
      RoundInProgress, BeginNextTurn, FinishRound, PhaseSteps
<1>3. CASE \E p \in players : Message(p)
  BY <1>3
  DEF Message, HandleSelectMap, HandleStartGame, HandleRestartGame,
      HandleSubmitCrime, HandleSubmitGuess, HandleNextTurn, HandleNextRound,
      StartRound, BeginNextTurn, FinishRound, PhaseSteps
<1>4. CASE HandleCrimeWritingTimeout
  BY <1>4 DEF HandleCrimeWritingTimeout, ExpiryApplies, FinishRound, PhaseSteps
<1>5. CASE \E c \in calls : HandleEvaluation(c)
  <2>1. state = "AIJudging"
    BY <1>1, <1>5 DEF CallsOK, HandleEvaluation, AnswerApplies
  <2>2. QED
    BY <1>5, <2>1 DEF HandleEvaluation, BeginNextTurn, FinishRound, PhaseSteps
<1>6. CASE \/ HandleJoin \/ \E p \in players : HandleReconnect(p)
           \/ TimerExpires \/ HandleGuessTimeout \/ DropExpiry
           \/ \E c \in calls : \/ DropAnswer(c)
                               \/ \E correct \in BOOLEAN : HandleJudgement(c, correct)
           \/ UNCHANGED vars
  <2>1. state' = state
    BY <1>6
    DEF HandleJoin, HandleReconnect, TimerExpires, HandleGuessTimeout, DropExpiry,
        DropAnswer, HandleJudgement, vars
  <2>2. QED  BY <2>1
<1>7. QED
  BY <1>2, <1>3, <1>4, <1>5, <1>6 DEF Next, Expiry, Answer, Gone

(* No answer or expiry, however late, takes the room through a transition   *)
(* the protocol's diagram does not have.                                    *)
THEOREM PhasesCorrect == Spec => PhasesInOrder
<1>1. RoomInv /\ [Next]_vars
        => [state' # state => <<state, state'>> \in PhaseSteps]_vars
  BY NextPhase
<1>2. QED  BY <1>1, RoomInvariant, PTL DEF Spec, PhasesInOrder

(* No message, expiry or answer reaches a room RoomManager has erased. *)
THEOREM DeadRoomCorrect == Spec => DeadRoomUntouched
<1> DEFINE Untouched ==
      UNCHANGED <<state, selected_map, rosterVars, gameVars, scoreVars,
                  turnVars, crimeVars, turn_generation>>
<1>1. [Next]_vars => [~alive => Untouched]_vars
  <2> SUFFICES ASSUME Next, ~alive  PROVE  Untouched
    OBVIOUS
  <2>1. DropExpiry \/ (\E c \in calls : DropAnswer(c)) \/ Gone
    BY DEF Next, Message, Expiry, Answer, HandleJoin, HandleReconnect,
           HandleDisconnect, HandleSelectMap, HandleStartGame,
           HandleRestartGame, HandleSubmitCrime, HandleSubmitGuess,
           HandleNextTurn, HandleNextRound, TimerExpires,
           HandleCrimeWritingTimeout, HandleGuessTimeout, HandleEvaluation,
           HandleJudgement, AnswerApplies, ExpiryApplies
  <2>2. QED
    BY <2>1
    DEF DropExpiry, DropAnswer, Gone, vars, rosterVars, gameVars, scoreVars,
        turnVars, crimeVars
<1>2. QED  BY <1>1, PTL DEF Spec, DeadRoomUntouched

==============================================================================

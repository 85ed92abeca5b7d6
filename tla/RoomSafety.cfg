SPECIFICATION Spec
CONSTANTS
  MinPlayers = 3
  MaxPlayers = 3
  MaxAttempts = 3
  AttemptTenths <- MCAttemptTenths
  CorrectBonus = 10
  EvalScores = {60}
  GuessTexts = {t1, t2}
  Maps = {m1}
  MaxId = 3
  MaxGames = 1
  MaxCalls = 2
VIEW RoomView
INVARIANTS TypeOK TurnQueueOK NeverStuck
PROPERTIES OneAttemptPerTurn RoundPaidOnce DeadRoomUntouched

SPECIFICATION Spec
CONSTANTS
  MinPlayers = 3
  MaxPlayers = 3
  MaxAttempts = 1
  AttemptTenths <- MCAttemptTenths
  CorrectBonus = 10
  EvalScores = {60}
  GuessTexts = {t1}
  Maps = {m1, m2}
  MaxId = 4
  MaxGames = 2
  MaxCalls = 2
VIEW RoomView
INVARIANTS HostPresent LiveCallsOK RolesOK
PROPERTIES PhasesInOrder RosterSpec

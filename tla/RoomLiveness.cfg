SPECIFICATION FairSpec
CONSTANTS
  MinPlayers = 3
  MaxPlayers = 3
  MaxAttempts = 1
  AttemptTenths <- MCNoReward
  CorrectBonus = 0
  EvalScores = {0}
  GuessTexts = {t1}
  Maps = {m1}
  MaxId = 3
  MaxGames = 1
  MaxCalls = 1
PROPERTIES CrimeWritingEnds JudgingEnds TurnAnswered GameEnds

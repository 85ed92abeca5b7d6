SPECIFICATION ClientSpec
CONSTANTS
  MinPlayers = 3
  MaxPlayers = 3
  MaxAttempts = 2
  AttemptTenths <- MCNoReward
  CorrectBonus = 0
  EvalScores = {0}
  GuessTexts = {t1}
  Maps = {m1, m2}
  MaxId = 3
  MaxGames = 1
  MaxCalls = 1
  MaxRejoins = 1
VIEW ClientView
SYMMETRY MapSymmetry
INVARIANTS ClientTypeOK PagesCurrent ScreenFollowsPhase ActorHasForm OfferedIsAccepted KnowledgeShared SpinnerHasCause SomebodyCanGoOn

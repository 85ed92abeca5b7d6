SPECIFICATION FairSpec
CONSTANTS
  IntSize = 256
  Texts <- MCTexts
  ShortWords = {"a"}
  AllWeapons <- MCAllWeapons
  MapFiles <- MCMapFiles
  MapIds <- MCMapIds
  Confessions <- MCConfessions
  Guesses <- MCGuesses
  TextSizes = {0, 16, 37, 100, 400}
INVARIANTS FailureNeverSolves MockSolvedByName
PROPERTIES BackendSpec EveryCallAnswered

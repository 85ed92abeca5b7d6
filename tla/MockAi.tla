------------------------------- MODULE MockAi --------------------------------
(***************************************************************************)
(* The heuristics of MockCrimeEvaluator and MockGuessJudge, the back ends  *)
(* that answer without a model.                                            *)
(***************************************************************************)
EXTENDS Evaluation, GameData, FiniteSets

CONSTANT ShortWords   \* words of less than two bytes, which tokenize drops

(* lround(max * overall / 100.0) of numbers that are not negative *)
Share(max, overall) == (2 * max * overall + 100) \div 200

SlipMockEvaluation(crime, bytes) ==    \* the score is the overall value
  LET named(word) == IF word \in WordsOf(crime.text) THEN 10 ELSE 0
      overall == Clamp(40 + bytes \div 4 + named(crime.location)
                          + named(crime.weapon), 100)
      breakdown == [c \in 1..5 |->
                      Clamp(Share(CategoryMax[c], overall), CategoryMax[c])]
  IN  [score |-> overall, breakdown |-> breakdown]

(* A long text that names its place and its weapon scores high; the overall *)
(* value is split over the categories, and their sum is the score.          *)
MockEvaluation(crime, bytes) ==
  LET named(word) == IF word \in WordsOf(crime.text) THEN 10 ELSE 0
      overall == Clamp(40 + bytes \div 4 + named(crime.location)
                          + named(crime.weapon), 100)
      breakdown == [c \in 1..5 |->
                      Clamp(Share(CategoryMax[c], overall), CategoryMax[c])]
  IN  [score |-> Total(breakdown), breakdown |-> breakdown]

-----------------------------------------------------------------------------
(* tokenize and overlap_ratio: the words of a part of the text that count,  *)
(* and those of them that the guess has too; the ratio is at least 1/n.     *)
Tokens(text, part) == {i \in part : text[i] \notin ShortWords}

RatioAtLeast(n, text, part, guess) ==
  LET tokens  == Tokens(text, part)
      matched == {i \in tokens : text[i] \in WordsOf(guess)}
  IN  tokens # {} /\ n * Cardinality(matched) >= Cardinality(tokens)

VerdictFromRatio(text, part, guess) ==
  IF RatioAtLeast(2, text, part, guess) THEN "match"
  ELSE IF RatioAtLeast(4, text, part, guess) THEN "similar"
  ELSE "miss"

SlipSolves(crime, guess) ==    \* the weapon and enough of the text
  /\ crime.weapon \in WordsOf(guess)
  /\ RatioAtLeast(2, crime.text, DOMAIN crime.text, guess)

Solves(crime, guess) ==
  /\ crime.location \in WordsOf(guess)
  /\ crime.weapon \in WordsOf(guess)
  /\ RatioAtLeast(2, crime.text, DOMAIN crime.text, guess)

(* The text is cut in two at the middle of its bytes: before word cut, or   *)
(* within it, when it counts on either side.                                *)
MockFeedback(crime, guess, cut, within) ==
  LET named(word) == IF word \in WordsOf(guess) THEN "match" ELSE "miss"
      words == DOMAIN crime.text
      method == {i \in words : i < cut \/ (i = cut /\ within)}
      concealment == {i \in words : i >= cut}
      hidden == VerdictFromRatio(crime.text, concealment, guess)
  IN  [correct |-> Solves(crime, guess),
       aspects |-> <<named(crime.location), named(crime.weapon),
                     VerdictFromRatio(crime.text, method, guess), hidden, hidden>>]
==============================================================================

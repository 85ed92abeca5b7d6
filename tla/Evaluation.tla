----------------------------- MODULE Evaluation ------------------------------
(***************************************************************************)
(* How the text a model answers with becomes a score or a verdict: the     *)
(* pure part of OllamaCrimeEvaluator and OllamaGuessJudge.                 *)
(*                                                                         *)
(* A text is what its JSON says:                                           *)
(*   json     "garbled", "other" (not an object) or "object";              *)
(*   items    the entries of breakdown, <<>> when it is not an array: the  *)
(*            category each names (0 for none of the five) and the set of  *)
(*            the integer its score is, {} when it is not one;             *)
(*   correct  the set of the Boolean, {} when there is none;               *)
(*   aspects  the verdicts of the entries of aspects that are objects.     *)
(***************************************************************************)
EXTENDS Integers, Sequences

CONSTANT IntSize   \* how many values an int has; 2^32 in the builds

ASSUME IntAssumption == IntSize \in Nat \ {0}

(* kCategories and the values of kValidVerdicts, with the text that stands  *)
(* in a verdict's place when there is none.                                 *)
CategoryMax == <<25, 20, 20, 20, 15>>
ValidVerdicts == {"match", "similar", "miss"}
Verdicts == ValidVerdicts \cup {"failed"}

(* What a text can be. *)
IsContent(t) ==
  /\ t.json \in {"garbled", "other", "object"}
  /\ t.items \in Seq([category : 0..5, score : SUBSET Int])
  /\ t.correct \in SUBSET BOOLEAN
  /\ t.aspects \in Seq(STRING)

-----------------------------------------------------------------------------
Total(b) == b[1] + b[2] + b[3] + b[4] + b[5]

HalfCredit == [c \in 1..5 |-> (CategoryMax[c] + 1) \div 2]

FallbackEvaluation == [score |-> Total(HalfCredit), breakdown |-> HalfCredit]

(* get<int>() of a 64-bit integer keeps its low bits. *)
ToInt(v) == ((v + IntSize \div 2) % IntSize) - IntSize \div 2

Clamp(v, max) == IF v < 0 THEN 0 ELSE IF v > max THEN max ELSE v

Naming(items, c) == {i \in 1..Len(items) : items[i].category = c}

SlipCategoryScoreUnclamped(items, c) ==
  LET named == Naming(items, c)
      first == CHOOSE i \in named : \A j \in named : i <= j
  IN  IF named = {} \/ items[first].score = {} THEN 0
      ELSE ToInt(CHOOSE v \in items[first].score : TRUE)

(* The first entry that names the category decides. *)
CategoryScore(items, c) ==
  LET named == Naming(items, c)
      first == CHOOSE i \in named : \A j \in named : i <= j
  IN  IF named = {} \/ items[first].score = {} THEN 0
      ELSE Clamp(ToInt(CHOOSE v \in items[first].score : TRUE), CategoryMax[c])

ParseEvaluation(ok, text) ==
  IF ~ok \/ text.json # "object" THEN FallbackEvaluation
  ELSE LET breakdown == [c \in 1..5 |-> CategoryScore(text.items, c)]
       IN  [score |-> Total(breakdown), breakdown |-> breakdown]

-----------------------------------------------------------------------------
FailureFeedback == [correct |-> FALSE, aspects |-> <<"failed">>]

KnownVerdict(v) == IF v \in ValidVerdicts THEN v ELSE "miss"

SlipParseFeedbackLenient(ok, text) ==   \* a missing correct counts as true
  IF ~ok \/ text.json # "object" THEN FailureFeedback
  ELSE [correct |-> FALSE \notin text.correct,
        aspects |-> <<"miss">>]

ParseFeedback(ok, text) ==
  IF ~ok \/ text.json # "object" THEN FailureFeedback
  ELSE LET correct == TRUE \in text.correct
       IN  [correct |-> correct,
            aspects |->
              IF text.aspects = <<>>
              THEN <<IF correct THEN "match" ELSE "miss">>
              ELSE [i \in 1..Len(text.aspects) |->
                      KnownVerdict(text.aspects[i])]]
==============================================================================

------------------------------ MODULE AiBackend ------------------------------
(***************************************************************************)
(* What ICrimeEvaluator and IGuessJudge promise to the room that calls     *)
(* them: the callback runs at most once, never unasked, and what it is     *)
(* given can be shown and counted as it is, whatever the model wrote.      *)
(***************************************************************************)
EXTENDS Integers, Sequences

CONSTANTS
  CategoryMax,   \* the most each category of an evaluation is worth
  Verdicts       \* what may be said of one aspect of a guess

VARIABLES
  call,      \* what the room asked for: "none", "evaluate", "judge"
  answers    \* what the callback was given, one entry each time it ran

LegalEvaluation(eval) ==
  /\ \A c \in 1..5 : eval.breakdown[c] \in 0..CategoryMax[c]
  /\ eval.score = eval.breakdown[1] + eval.breakdown[2] + eval.breakdown[3]
                  + eval.breakdown[4] + eval.breakdown[5]
  /\ eval.score \in 0..100

LegalFeedback(fb) ==
  /\ fb.correct \in BOOLEAN
  /\ fb.aspects # <<>>
  /\ \A i \in 1..Len(fb.aspects) : fb.aspects[i] \in Verdicts

Init == call = "none" /\ answers = <<>>

Ask ==
  /\ call = "none"
  /\ call' \in {"evaluate", "judge"}
  /\ UNCHANGED answers

Given(asked) ==
  /\ Len(answers') = 1
  /\ IF asked = "evaluate" THEN LegalEvaluation(answers'[1])
                           ELSE LegalFeedback(answers'[1])

Answer ==
  /\ call # "none" /\ answers = <<>>
  /\ Given(call)
  /\ UNCHANGED call

(* A callback that runs before the call returns. *)
AnswerAtOnce ==
  /\ call = "none" /\ answers = <<>>
  /\ call' \in {"evaluate", "judge"}
  /\ Given(call')

Next == Ask \/ Answer \/ AnswerAtOnce

Spec == Init /\ [][Next]_<<call, answers>>
==============================================================================

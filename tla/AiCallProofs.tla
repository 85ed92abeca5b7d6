---------------------------- MODULE AiCallProofs -----------------------------
(***************************************************************************)
(* Whatever the model answers and wherever the call fails, the room is     *)
(* called back at most once and with a result it can use; and a failure    *)
(* never solves a case.                                                    *)
(***************************************************************************)
EXTENDS AiCall, FiniteSetTheorems, WellFoundedInduction, TLAPS

-----------------------------------------------------------------------------
(* A set of numbers that is not empty has a least element. *)
LEMMA LeastElement ==
  ASSUME NEW S \in SUBSET Nat, S # {}
  PROVE  \E i \in S : \A j \in S : i <= j
<1> DEFINE less == OpToRel(<, Nat)
<1>1. PICK i \in S : \A j \in S : <<j, i>> \notin less
  BY NatLessThanWellFounded, WFMin
<1>2. ASSUME NEW j \in S  PROVE  i <= j
  <2>1. ~(j < i)  BY <1>1 DEF OpToRel
  <2>2. QED  BY <2>1
<1>3. QED  BY <1>2

LEMMA ElementInSet ==
  ASSUME NEW S, NEW s \in Seq(S), NEW i \in 1..Len(s)  PROVE  s[i] \in S
OBVIOUS

(* Narrowing an integer to an int gives an integer. *)
LEMMA ToIntInteger ==
  ASSUME NEW v \in Int  PROVE  ToInt(v) \in Int
<1>1. IntSize \in Int /\ IntSize > 0  BY IntAssumption
<1>2. IntSize \div 2 \in Int  BY <1>1
<1>3. (v + IntSize \div 2) % IntSize \in Int  BY <1>1, <1>2
<1>4. QED  BY <1>2, <1>3 DEF ToInt

(* A clamped integer is in range. *)
LEMMA ClampInRange ==
  ASSUME NEW v \in Int, NEW max \in Nat  PROVE  Clamp(v, max) \in 0..max
BY DEF Clamp

LEMMA CategoryMaxNat == \A c \in 1..5 : CategoryMax[c] \in Nat
BY DEF CategoryMax

(* However a text's entries are ordered, repeated, misnamed or out of       *)
(* range, a category is worth no more than its maximum and no less than 0.  *)
LEMMA CategoryScoreInRange ==
  ASSUME NEW t, IsContent(t), NEW c \in 1..5
  PROVE  CategoryScore(t.items, c) \in 0..CategoryMax[c]
<1> DEFINE items == t.items
           named == Naming(items, c)
           first == CHOOSE i \in named : \A j \in named : i <= j
           v == CHOOSE w \in items[first].score : TRUE
<1>1. items \in Seq([category : 0..5, score : SUBSET Int])
  BY DEF IsContent
<1>2. CategoryMax[c] \in Nat  BY CategoryMaxNat
<1>3. CASE named = {} \/ items[first].score = {}
  <2>1. CategoryScore(items, c) = 0  BY <1>3 DEF CategoryScore
  <2>2. QED  BY <1>2, <2>1
<1>4. CASE named # {} /\ items[first].score # {}
  <2>1. named \in SUBSET Nat  BY <1>1 DEF Naming
  <2>2. first \in named  BY <1>4, <2>1, LeastElement
  <2>3. first \in 1..Len(items)  BY <2>2 DEF Naming
  <2>4. items[first].score \subseteq Int
    <3>1. items[first] \in [category : 0..5, score : SUBSET Int]
      <4> HIDE DEF items, first
      <4>1. QED  BY <1>1, <2>3, ElementInSet
    <3>2. QED  BY <3>1
  <2>5. v \in Int  BY <1>4, <2>4
  <2>6. CategoryScore(items, c) = Clamp(ToInt(v), CategoryMax[c])
    BY <1>4 DEF CategoryScore
  <2>7. QED  BY <1>2, <2>5, <2>6, ToIntInteger, ClampInRange
<1>5. QED  BY <1>3, <1>4

-----------------------------------------------------------------------------
(* An evaluation is legal, parsed or not. *)
LEMMA EvaluationLegal ==
  ASSUME NEW ok, NEW t, IsContent(t)
  PROVE  Backend!LegalEvaluation(ParseEvaluation(ok, t))
<1> DEFINE eval == ParseEvaluation(ok, t)
           b == eval.breakdown
<1>1. /\ eval.score = Total(b)
      /\ \A c \in 1..5 : b[c] \in 0..CategoryMax[c]
  <2>1. CASE ~ok \/ t.json # "object"
    <3>1. eval = [score |-> Total(HalfCredit), breakdown |-> HalfCredit]
      BY <2>1 DEF ParseEvaluation, FallbackEvaluation
    <3>2. ASSUME NEW c \in 1..5  PROVE HalfCredit[c] \in 0..CategoryMax[c]
      <4>1. /\ HalfCredit[c] = (CategoryMax[c] + 1) \div 2
            /\ CategoryMax[c] \in {15, 20, 25}
        BY DEF HalfCredit, CategoryMax
      <4>2. QED  BY <4>1
    <3>3. QED  BY <3>1, <3>2
  <2>2. CASE ok /\ t.json = "object"
    <3> DEFINE parsed == [c \in 1..5 |-> CategoryScore(t.items, c)]
    <3>1. eval = [score |-> Total(parsed), breakdown |-> parsed]
      BY <2>2 DEF ParseEvaluation
    <3>2. \A c \in 1..5 : parsed[c] \in 0..CategoryMax[c]
      BY CategoryScoreInRange
    <3>3. QED  BY <3>1, <3>2
  <2>3. QED  BY <2>1, <2>2
<1> HIDE DEF eval, b
<1>2. /\ b[1] \in 0..25 /\ b[2] \in 0..20 /\ b[3] \in 0..20
      /\ b[4] \in 0..20 /\ b[5] \in 0..15
  BY <1>1 DEF CategoryMax
<1>3. eval.score = b[1] + b[2] + b[3] + b[4] + b[5]  BY <1>1 DEF Total
<1>4. eval.score \in 0..100  BY <1>2, <1>3
<1>5. QED  BY <1>1, <1>3, <1>4 DEF Backend!LegalEvaluation, eval, b

(* A feedback is legal, parsed or not. *)
LEMMA FeedbackLegal ==
  ASSUME NEW ok, NEW t, IsContent(t)
  PROVE  Backend!LegalFeedback(ParseFeedback(ok, t))
<1> DEFINE fb == ParseFeedback(ok, t)
           correct == TRUE \in t.correct
<1>1. CASE ~ok \/ t.json # "object"
  <2>1. fb = [correct |-> FALSE, aspects |-> <<"failed">>]
    BY <1>1 DEF ParseFeedback, FailureFeedback
  <2>2. QED  BY <2>1 DEF Backend!LegalFeedback, Verdicts
<1>2. CASE ok /\ t.json = "object" /\ t.aspects = <<>>
  <2>1. fb = [correct |-> correct,
              aspects |-> <<IF correct THEN "match" ELSE "miss">>]
    BY <1>2 DEF ParseFeedback
  <2>2. fb.correct \in BOOLEAN  BY <2>1
  <2>3. PICK w \in Verdicts : fb.aspects = <<w>>
    <3>1. CASE correct  BY <2>1, <3>1 DEF Verdicts, ValidVerdicts
    <3>2. CASE ~correct  BY <2>1, <3>2 DEF Verdicts, ValidVerdicts
    <3>3. QED  BY <3>1, <3>2
  <2>4. QED  BY <2>2, <2>3 DEF Backend!LegalFeedback
<1>3. CASE ok /\ t.json = "object" /\ t.aspects # <<>>
  <2> DEFINE shown == [i \in 1..Len(t.aspects) |-> KnownVerdict(t.aspects[i])]
  <2>1. fb = [correct |-> correct, aspects |-> shown]
    BY <1>3 DEF ParseFeedback
  <2>2. t.aspects \in Seq(STRING) /\ Len(t.aspects) > 0
    BY <1>3 DEF IsContent
  <2> DEFINE n == Len(t.aspects)
  <2>3. \A i \in 1..n : shown[i] \in Verdicts
    BY DEF KnownVerdict, Verdicts, ValidVerdicts
  <2>4. n \in Nat /\ n > 0  BY <2>2
  <2>5. shown \in [1..n -> Verdicts]  BY <2>3
  <2>6. shown \in Seq(Verdicts) /\ Len(shown) = n
    <3> HIDE DEF shown, n
    <3>1. QED  BY <2>4, <2>5
  <2>7. shown # <<>>
    <3> HIDE DEF shown, n
    <3>1. QED  BY <2>4, <2>6
  <2>8. fb.correct \in BOOLEAN /\ fb.aspects = shown  BY <2>1
  <2> HIDE DEF fb, shown
  <2>9. QED
    <3>1. Backend!LegalFeedback(fb)
      BY <2>3, <2>6, <2>7, <2>8 DEF Backend!LegalFeedback
    <3>2. QED  BY <3>1 DEF fb
<1>4. QED  BY <1>1, <1>2, <1>3

-----------------------------------------------------------------------------
(* Before the call and while a step is under way nothing was answered, and  *)
(* no response is kept; after it there is one answer, of the one response.  *)
OneAnswer ==
  /\ step # "none" => call # "none" /\ answers = <<>> /\ res = NoResponse
  /\ call = "none" => answers = <<>> /\ res = NoResponse
  /\ Len(answers) <= 1

CallInv == TypeOK /\ OneAnswer /\ FailureNeverSolves

(* What a response says is a text. *)
LEMMA TextsAreContent ==
  /\ IsContent(Blank)
  /\ \A r \in Responses : IsContent(r.text)
<1>1. IsContent(Blank)
  <2>1. <<>> \in Seq([category : 0..5, score : SUBSET Int])  OBVIOUS
  <2>2. <<>> \in Seq(STRING)  OBVIOUS
  <2>3. QED  BY <2>1, <2>2 DEF IsContent, Blank
<1>2. QED  BY <1>1, TextsAssumption DEF Responses

(* Nothing was asked of the model yet. *)
LEMMA InitCall == Init => CallInv
<1> SUFFICES ASSUME Init  PROVE  CallInv
  OBVIOUS
<1>1. TypeOK  BY DEF Init, TypeOK
<1>2. answers = <<>> /\ Len(<<>>) = 0  BY DEF Init
<1>3. OneAnswer /\ FailureNeverSolves
  BY <1>2 DEF Init, OneAnswer, FailureNeverSolves
<1>4. QED  BY <1>1, <1>3 DEF CallInv

(* What Done appends is the first answer, and legal for the call. *)
LEMMA DoneOnce ==
  ASSUME CallInv, step # "none", NEW ok \in BOOLEAN,
         NEW t, IsContent(t), Done(ok, t)
  PROVE  /\ answers = <<>> /\ call \in {"evaluate", "judge"}
         /\ Len(answers') = 1
         /\ call = "evaluate" => answers'[1] = ParseEvaluation(ok, t)
         /\ call = "judge" => answers'[1] = ParseFeedback(ok, t)
<1> DEFINE x == IF call = "evaluate" THEN ParseEvaluation(ok, t)
                                     ELSE ParseFeedback(ok, t)
<1>1. answers = <<>> /\ call \in {"evaluate", "judge"}
  BY DEF CallInv, OneAnswer, TypeOK
<1>2. answers' = Append(answers, x)  BY DEF Done
<1>3. Append(<<>>, x) = <<x>> /\ Len(<<x>>) = 1 /\ <<x>>[1] = x
  <2> HIDE DEF x
  <2>1. QED  OBVIOUS
<1>4. answers' = <<x>>  BY <1>1, <1>2, <1>3
<1>5. Len(answers') = 1 /\ answers'[1] = x  BY <1>3, <1>4
<1>6. QED  BY <1>1, <1>5

(* A feedback is right only on the word of a text that was received. *)
LEMMA RightOnItsWord ==
  ASSUME NEW ok \in BOOLEAN, NEW t, IsContent(t),
         ParseFeedback(ok, t).correct
  PROVE  ok /\ t.json = "object" /\ TRUE \in t.correct
<1>1. CASE ~ok \/ t.json # "object"
  <2>1. ParseFeedback(ok, t) = FailureFeedback  BY <1>1 DEF ParseFeedback
  <2>2. FailureFeedback.correct = FALSE  BY DEF FailureFeedback
  <2>3. QED  BY <2>1, <2>2
<1>2. CASE ok /\ t.json = "object"
  <2>1. ParseFeedback(ok, t).correct = (TRUE \in t.correct)
    BY <1>2 DEF ParseFeedback
  <2>2. QED  BY <1>2, <2>1
<1>3. QED  BY <1>1, <1>2

(* The backend's step is an answer. *)
LEMMA DoneAnswers ==
  ASSUME CallInv, step # "none", NEW ok \in BOOLEAN,
         NEW t, IsContent(t), Done(ok, t), call' = call
  PROVE  Backend!Answer
<1>1. /\ answers = <<>> /\ call \in {"evaluate", "judge"}
      /\ Len(answers') = 1
  BY DoneOnce
<1>2. CASE call = "evaluate"
  <2>1. answers'[1] = ParseEvaluation(ok, t)  BY <1>2, DoneOnce
  <2>2. Backend!LegalEvaluation(answers'[1])  BY <2>1, EvaluationLegal
  <2>3. QED  BY <1>1, <1>2, <2>2 DEF Backend!Answer, Backend!Given
<1>3. CASE call = "judge"
  <2>1. answers'[1] = ParseFeedback(ok, t)  BY <1>3, DoneOnce
  <2>2. Backend!LegalFeedback(answers'[1])  BY <2>1, FeedbackLegal
  <2>3. QED  BY <1>1, <1>3, <2>2 DEF Backend!Answer, Backend!Given
<1>4. QED  BY <1>1, <1>2, <1>3

(* A step that fails answers and keeps no response. *)
LEMMA FailStep ==
  ASSUME CallInv, step # "none", step' = "none", Done(FALSE, Blank),
         UNCHANGED <<call, expiry, res, mock>>
  PROVE  CallInv' /\ Backend!Next
<1>1. Backend!Next  BY TextsAreContent, DoneAnswers DEF Backend!Next
<1>2. TypeOK'  BY DEF CallInv, TypeOK
<1>3. OneAnswer'
  <2>1. Len(answers') = 1 /\ call \in {"evaluate", "judge"}
    BY TextsAreContent, DoneOnce
  <2>2. QED  BY <2>1 DEF OneAnswer
<1>4. FailureNeverSolves'
  <2>1. ASSUME call = "judge", answers'[1].correct  PROVE  FALSE
    <3>1. answers'[1] = ParseFeedback(FALSE, Blank)
      BY <2>1, TextsAreContent, DoneOnce
    <3>2. QED  BY <2>1, <3>1, TextsAreContent, RightOnItsWord
  <2>2. QED  BY <2>1 DEF FailureNeverSolves
<1>5. QED  BY <1>1, <1>2, <1>3, <1>4 DEF CallInv

(* A response that is read decides. *)
LEMMA ReadStep ==
  ASSUME CallInv, OnRead  PROVE  CallInv' /\ Backend!Next
<1> DEFINE r == res'
           ok == r.ok /\ r.envelope
<1>1. /\ step # "none" /\ step' = "none" /\ r \in Responses
      /\ Done(ok, r.text) /\ UNCHANGED <<call, expiry, mock>>
  BY DEF OnRead
<1>2. r.ok \in BOOLEAN /\ r.envelope \in BOOLEAN /\ IsContent(r.text)
  BY <1>1, TextsAreContent DEF Responses
<1>3. ok \in BOOLEAN  BY <1>2
<1> HIDE DEF ok, r
<1>4. Backend!Next  BY <1>1, <1>2, <1>3, DoneAnswers DEF Backend!Next
<1>5. TypeOK'  BY <1>1 DEF CallInv, TypeOK, r
<1>6. OneAnswer'
  <2>1. Len(answers') = 1 /\ call \in {"evaluate", "judge"}
    BY <1>1, <1>2, <1>3, DoneOnce
  <2>2. QED  BY <1>1, <2>1 DEF OneAnswer
<1>7. FailureNeverSolves'
  <2>1. ASSUME call = "judge", answers'[1].correct
        PROVE  ok /\ r.text.json = "object" /\ TRUE \in r.text.correct
    <3>1. answers'[1] = ParseFeedback(ok, r.text)
      BY <1>1, <1>2, <1>3, <2>1, DoneOnce
    <3>2. QED  BY <1>2, <1>3, <2>1, <3>1, RightOnItsWord
  <2>2. QED  BY <1>1, <2>1 DEF FailureNeverSolves, ok, r
<1>8. QED  BY <1>4, <1>5, <1>6, <1>7 DEF CallInv

(* Everything else leaves the answers alone, or asks. *)
LEMMA QuietStep ==
  ASSUME CallInv, UNCHANGED <<answers, res, mock>>, TypeOK',
         \/ ChatJson
         \/ call' = call /\ (step' # "none" => step # "none")
  PROVE  CallInv' /\ [Backend!Next]_<<call, answers>>
<1>1. CASE ChatJson
  <2>1. /\ call = "none" /\ call' \in {"evaluate", "judge"}
        /\ step' = "resolve" /\ answers = <<>>
    BY <1>1 DEF ChatJson, CallInv, OneAnswer
  <2>2. res = NoResponse  BY <1>1 DEF ChatJson, CallInv, OneAnswer
  <2>3. OneAnswer' /\ FailureNeverSolves'
    BY <2>1, <2>2 DEF CallInv, OneAnswer, FailureNeverSolves
  <2>4. Backend!Ask  BY <2>1 DEF Backend!Ask
  <2>5. QED  BY <2>3, <2>4 DEF CallInv, Backend!Next
<1>2. CASE call' = call /\ (step' # "none" => step # "none")
  <2>1. OneAnswer'  BY <1>2 DEF CallInv, OneAnswer
  <2>2. FailureNeverSolves'  BY <1>2 DEF CallInv, FailureNeverSolves
  <2>3. QED  BY <1>2, <2>1, <2>2 DEF CallInv
<1>3. QED  BY <1>1, <1>2

-----------------------------------------------------------------------------
(* The mock back ends. *)

(* A mock evaluation is legal, whatever the length of the text. *)
LEMMA MockEvaluationLegal ==
  ASSUME NEW crime, NEW bytes \in Nat
  PROVE  Backend!LegalEvaluation(MockEvaluation(crime, bytes))
<1> DEFINE named(word) == IF word \in WordsOf(crime.text) THEN 10 ELSE 0
           value == 40 + bytes \div 4 + named(crime.location) + named(crime.weapon)
           overall == Clamp(value, 100)
           b == [c \in 1..5 |-> Clamp(Share(CategoryMax[c], overall), CategoryMax[c])]
           eval == MockEvaluation(crime, bytes)
<1>1. eval = [score |-> Total(b), breakdown |-> b]  BY DEF MockEvaluation
<1>2. overall \in 0..100
  <2>1. bytes \div 4 \in Nat  OBVIOUS
  <2>2. named(crime.location) \in Nat /\ named(crime.weapon) \in Nat  OBVIOUS
  <2> HIDE DEF named
  <2>3. value \in Int  BY <2>1, <2>2
  <2> HIDE DEF value
  <2>4. QED  BY <2>3, ClampInRange
<1> HIDE DEF overall
<1>3. \A c \in 1..5 : b[c] \in 0..CategoryMax[c]
  <2>1. SUFFICES ASSUME NEW c \in 1..5  PROVE  b[c] \in 0..CategoryMax[c]
    OBVIOUS
  <2>2. CategoryMax[c] \in Nat  BY CategoryMaxNat
  <2>3. Share(CategoryMax[c], overall) \in Int
    <3>1. CategoryMax[c] \in {15, 20, 25}  BY DEF CategoryMax
    <3>2. 2 * CategoryMax[c] * overall + 100 \in Int  BY <1>2, <3>1
    <3>3. QED  BY <3>2 DEF Share
  <2>4. QED  BY <2>2, <2>3, ClampInRange
<1> HIDE DEF eval, b
<1>4. /\ b[1] \in 0..25 /\ b[2] \in 0..20 /\ b[3] \in 0..20
      /\ b[4] \in 0..20 /\ b[5] \in 0..15
  BY <1>3 DEF CategoryMax
<1>5. eval.score = b[1] + b[2] + b[3] + b[4] + b[5] /\ eval.breakdown = b
  BY <1>1 DEF Total
<1>6. eval.score \in 0..100  BY <1>4, <1>5
<1>7. QED  BY <1>3, <1>5, <1>6 DEF Backend!LegalEvaluation, eval

LEMMA VerdictOfRatio ==
  ASSUME NEW text, NEW part, NEW guess
  PROVE  VerdictFromRatio(text, part, guess) \in Verdicts
BY DEF VerdictFromRatio, Verdicts, ValidVerdicts

(* So is a mock feedback. *)
LEMMA MockFeedbackLegal ==
  ASSUME NEW crime, NEW guess, NEW cut, NEW within
  PROVE  /\ Backend!LegalFeedback(MockFeedback(crime, guess, cut, within))
         /\ MockFeedback(crime, guess, cut, within).correct = Solves(crime, guess)
<1> DEFINE fb == MockFeedback(crime, guess, cut, within)
           words == DOMAIN crime.text
           method == {i \in words : i < cut \/ (i = cut /\ within)}
           hidden == {i \in words : i >= cut}
           named(word) == IF word \in WordsOf(guess) THEN "match" ELSE "miss"
           v1 == named(crime.location)
           v2 == named(crime.weapon)
           v3 == VerdictFromRatio(crime.text, method, guess)
           v4 == VerdictFromRatio(crime.text, hidden, guess)
<1>1. fb = [correct |-> Solves(crime, guess), aspects |-> <<v1, v2, v3, v4, v4>>]
  BY DEF MockFeedback
<1>2. v1 \in Verdicts /\ v2 \in Verdicts  BY DEF Verdicts, ValidVerdicts
<1>3. v3 \in Verdicts /\ v4 \in Verdicts  BY VerdictOfRatio
<1> HIDE DEF v1, v2, v3, v4, fb
<1>4. fb.correct = Solves(crime, guess) /\ fb.aspects = <<v1, v2, v3, v4, v4>>
  BY <1>1
<1>5. Solves(crime, guess) \in BOOLEAN  BY DEF Solves, RatioAtLeast
<1>6. fb.aspects # <<>> /\ \A i \in 1..Len(fb.aspects) : fb.aspects[i] \in Verdicts
  BY <1>2, <1>3, <1>4
<1>7. Backend!LegalFeedback(fb)
  BY <1>4, <1>5, <1>6 DEF Backend!LegalFeedback
<1>8. QED  BY <1>4, <1>7 DEF fb

(* A mock back end calls back once, within the call. *)
LEMMA MockStep ==
  ASSUME CallInv, MockAnswers  PROVE  CallInv' /\ Backend!Next
<1>1. PICK case \in Cases :
        /\ mock' = <<case>>
        /\ \/ /\ call' = "evaluate"
              /\ \E bytes \in TextSizes :
                   answers' = <<MockEvaluation(case.crime, bytes)>>
           \/ /\ call' = "judge"
              /\ \E cut \in DOMAIN case.crime.text, within \in BOOLEAN :
                   answers' = <<MockFeedback(case.crime, case.guess, cut, within)>>
  BY DEF MockAnswers
<1>2. call = "none" /\ answers = <<>> /\ res = NoResponse /\ step = "none"
      /\ UNCHANGED <<step, expiry, res>>
  BY DEF MockAnswers, CallInv, OneAnswer, TypeOK
<1>3. ASSUME call' = "evaluate"  PROVE  Backend!Given(call')
  <2>1. PICK bytes \in TextSizes : answers' = <<MockEvaluation(case.crime, bytes)>>
    BY <1>1, <1>3
  <2>2. Backend!LegalEvaluation(MockEvaluation(case.crime, bytes))
    BY WrittenAssumption, MockEvaluationLegal
  <2>3. Len(answers') = 1 /\ Backend!LegalEvaluation(answers'[1])  BY <2>1, <2>2
  <2>4. QED  BY <1>3, <2>3 DEF Backend!Given
<1>4. ASSUME call' = "judge"  PROVE  Backend!Given(call')
  <2>1. PICK cut, within :
          answers' = <<MockFeedback(case.crime, case.guess, cut, within)>>
    BY <1>1, <1>4
  <2>2. Backend!LegalFeedback(MockFeedback(case.crime, case.guess, cut, within))
    BY MockFeedbackLegal
  <2>3. Len(answers') = 1 /\ Backend!LegalFeedback(answers'[1])  BY <2>1, <2>2
  <2>4. QED  BY <1>4, <2>3 DEF Backend!Given
<1>5. call' \in {"evaluate", "judge"} /\ Len(answers') = 1
  <2>1. CASE call' = "evaluate"  BY <1>1, <2>1
  <2>2. CASE call' = "judge"  BY <1>1, <2>2
  <2>3. QED  BY <1>1, <2>1, <2>2
<1>6. Backend!AnswerAtOnce
  <2>1. Backend!Given(call')
    <3>1. call' = "evaluate" \/ call' = "judge"  BY <1>5
    <3>2. QED  BY <1>3, <1>4, <3>1
  <2>2. QED  BY <1>2, <1>5, <2>1 DEF Backend!AnswerAtOnce
<1>7. TypeOK' /\ OneAnswer'
  BY <1>2, <1>5 DEF CallInv, TypeOK, OneAnswer
<1>8. FailureNeverSolves'
  <2>1. mock' # <<>>  BY <1>1
  <2>2. QED  BY <2>1 DEF FailureNeverSolves
<1>9. QED  BY <1>6, <1>7, <1>8 DEF CallInv, Backend!Next

(* Each step keeps the invariant, and is a step of the backend or none. *)
LEMMA CallStep ==
  ASSUME CallInv, [Next]_vars
  PROVE  CallInv' /\ [Backend!Next]_<<call, answers>>
<1>1. CASE ChatJson
  <2>1. TypeOK' /\ UNCHANGED <<answers, res, mock>>
    BY <1>1 DEF ChatJson, CallInv, TypeOK
  <2>2. QED  BY <1>1, <2>1, QuietStep
<1>2. ASSUME NEW this \in {"resolve", "connect", "write"},
             NEW next \in {"connect", "write", "read"}, Then(this, next)
      PROVE  CallInv' /\ [Backend!Next]_<<call, answers>>
  <2>1. step # "none" /\ UNCHANGED <<call, expiry, res, mock>>  BY <1>2 DEF Then
  <2>2. CASE step' = next /\ UNCHANGED answers
    <3>1. TypeOK'  BY <2>1, <2>2 DEF CallInv, TypeOK
    <3>2. QED  BY <2>1, <2>2, <3>1, QuietStep
  <2>3. CASE step' = "none" /\ Done(FALSE, Blank)
    BY <2>1, <2>3, FailStep
  <2>4. QED  BY <1>2, <2>2, <2>3 DEF Then
<1>3. CASE OnResolve \/ OnConnect \/ OnWrite
  BY <1>2, <1>3 DEF OnResolve, OnConnect, OnWrite
<1>4. CASE ReadFails
  <2>1. /\ step # "none" /\ step' = "none" /\ Done(FALSE, Blank)
        /\ UNCHANGED <<call, expiry, res, mock>>
    BY <1>4 DEF ReadFails
  <2>2. QED  BY <2>1, FailStep
<1>5. CASE OnRead  BY <1>5, ReadStep
<1>6. CASE ExpiryPasses \/ Ended \/ UNCHANGED vars
  <2>1. TypeOK' /\ UNCHANGED <<call, step, answers, res, mock>>
    BY <1>6 DEF ExpiryPasses, Ended, vars, CallInv, TypeOK
  <2>2. QED  BY <2>1, QuietStep
<1>7. CASE MockAnswers  BY <1>7, MockStep
<1>8. QED  BY <1>1, <1>3, <1>4, <1>5, <1>6, <1>7 DEF Next, Stream

(* One answer at most, of the response that was read. *)
THEOREM CallInvariant == Spec => []CallInv
<1>1. CallInv /\ [Next]_vars => CallInv'  BY CallStep
<1>2. QED  BY <1>1, InitCall, PTL DEF Spec

(* The first word of a text that is one of the names is a name of the text. *)
LEMMA MentionIsMentioned ==
  ASSUME NEW names, NEW text \in Seq(STRING),
         ExtractMention(names, text) # NoName
  PROVE  ExtractMention(names, text) \in names \cap WordsOf(text)
<1> DEFINE at == {i \in DOMAIN text : text[i] \in names}
           first == CHOOSE i \in at : \A j \in at : i <= j
<1>1. at # {}  BY DEF ExtractMention
<1>2. at \in SUBSET Nat  OBVIOUS
<1>3. first \in at  BY <1>1, <1>2, LeastElement
<1>4. ExtractMention(names, text) = text[first]  BY <1>1 DEF ExtractMention
<1>5. QED  BY <1>3, <1>4 DEF WordsOf

(* FindMap finds one of the maps, or none. *)
LEMMA FoundMap ==
  ASSUME NEW maps, DOMAIN maps \subseteq Nat, NEW id
  PROVE  FindMap(maps, id) = NoMap \/ \E i \in DOMAIN maps : FindMap(maps, id) = maps[i]
<1> DEFINE found == {i \in DOMAIN maps : maps[i].id = id}
           first == CHOOSE i \in found : \A j \in found : i <= j
<1>1. CASE found = {}  BY <1>1 DEF FindMap
<1>2. CASE found # {}
  <2>1. found \in SUBSET Nat  OBVIOUS
  <2>2. first \in found  BY <1>2, <2>1, LeastElement
  <2>3. FindMap(maps, id) = maps[first]  BY <1>2 DEF FindMap
  <2>4. QED  BY <2>2, <2>3
<1>3. QED  BY <1>1, <1>2

(* A room plays on one of the loaded maps. *)
LEMMA PlayedMap ==
  ASSUME NEW map \in RoomMaps
  PROVE  map = NoMap \/ \E i \in DOMAIN MapFiles : map = ParseMap(MapFiles[i], AllWeapons)
<1>1. /\ DOMAIN LoadedMaps = DOMAIN MapFiles
      /\ \A i \in DOMAIN MapFiles : LoadedMaps[i] = ParseMap(MapFiles[i], AllWeapons)
  BY DEF LoadedMaps
<1>2. DOMAIN MapFiles \subseteq Nat /\ 1 \in DOMAIN MapFiles
  <2>1. MapFiles \in Seq([id : STRING, rooms : SUBSET STRING, listed : BOOLEAN,
                          weapons : SUBSET STRING]) /\ MapFiles # <<>>
    BY BoardAssumption
  <2>2. QED  BY <2>1
<1>3. \A id : FindMap(LoadedMaps, id) = NoMap
              \/ \E i \in DOMAIN LoadedMaps : FindMap(LoadedMaps, id) = LoadedMaps[i]
  BY <1>1, <1>2, FoundMap
<1>4. \/ map = FindMap(LoadedMaps, "mansion") \/ map = LoadedMaps[1]
      \/ \E id \in MapIds : map = FindMap(LoadedMaps, id)
  BY DEF RoomMaps, DefaultMap
<1>5. QED  BY <1>1, <1>2, <1>3, <1>4

(* A crime that is accepted names a place and a weapon of the board.        *)
LEMMA AcceptedCase ==
  ASSUME NEW case \in Cases, Accepted(case.crime)
  PROVE  /\ case.crime.text \in Seq(STRING)
         /\ case.crime.location \in case.map.rooms \cap WordsOf(case.crime.text)
         /\ case.crime.weapon \in case.map.weapons \cap WordsOf(case.crime.text)
         /\ case.crime.weapon \in AllWeapons
         /\ case.crime.location \notin ShortWords
<1>1. PICK map \in RoomMaps, text \in Confessions, guess \in Guesses :
        case = [map |-> map, crime |-> CrimeOf(map, text, AllWeapons), guess |-> guess]
  BY DEF Cases
<1>2. text \in Seq(STRING)  BY WrittenAssumption
<1>3. /\ case.map = map /\ case.crime.text = text
      /\ case.crime.location = ExtractMention(map.rooms, text)
      /\ case.crime.weapon = ExtractMention(map.weapons, text)
  BY <1>1 DEF CrimeOf
<1>4. /\ case.crime.location \in map.rooms \cap WordsOf(text)
      /\ case.crime.weapon \in map.weapons \cap WordsOf(text)
  BY <1>2, <1>3, MentionIsMentioned DEF Accepted
<1>5. map # NoMap  BY <1>4 DEF NoMap
<1>6. PICK i \in DOMAIN MapFiles : map = ParseMap(MapFiles[i], AllWeapons)
  BY <1>5, PlayedMap
<1>7. map.rooms = MapFiles[i].rooms /\ map.weapons \subseteq AllWeapons
  BY <1>6 DEF ParseMap
<1>8. MapFiles[i].rooms \cap ShortWords = {}  BY BoardAssumption
<1>9. QED  BY <1>2, <1>3, <1>4, <1>7, <1>8

(* The confession has all of its own words. *)
LEMMA ConfessionSolves ==
  ASSUME NEW crime, crime.text \in Seq(STRING),
         crime.location \in WordsOf(crime.text), crime.weapon \in WordsOf(crime.text),
         crime.location \notin ShortWords
  PROVE  Solves(crime, crime.text)
<1> DEFINE words == DOMAIN crime.text
           tokens == Tokens(crime.text, words)
           matched == {i \in tokens : crime.text[i] \in WordsOf(crime.text)}
<1>1. matched = tokens  BY DEF Tokens, WordsOf
<1>2. tokens # {}  BY DEF Tokens, WordsOf
<1>3. Cardinality(tokens) \in Nat
  <2>1. words = 1..Len(crime.text) /\ Len(crime.text) \in Nat  OBVIOUS
  <2>2. IsFiniteSet(1..Len(crime.text))  BY <2>1, FS_Interval
  <2>3. IsFiniteSet(tokens)  BY <2>1, <2>2, FS_Subset DEF Tokens
  <2>4. QED  BY <2>3, FS_CardinalityType
<1>4. 2 * Cardinality(matched) >= Cardinality(tokens)
  <2> HIDE DEF tokens, matched
  <2>1. QED  BY <1>1, <1>3
<1>5. RatioAtLeast(2, crime.text, words, crime.text)
  BY <1>2, <1>4 DEF RatioAtLeast
<1>6. QED  BY <1>5 DEF Solves

(* What a mock judge answers stands. *)
MockInv ==
  /\ mock # <<>> => step = "none" /\ call # "none"
  /\ MockSolvedByName

LEMMA MockAnswersByName ==
  ASSUME CallInv, MockAnswers  PROVE  MockInv'
<1>1. PICK case \in Cases :
        /\ Accepted(case.crime)
        /\ mock' = <<case>>
        /\ \/ call' = "evaluate"
           \/ /\ call' = "judge"
              /\ \E cut \in DOMAIN case.crime.text, within \in BOOLEAN :
                   answers' = <<MockFeedback(case.crime, case.guess, cut, within)>>
  BY DEF MockAnswers
<1>2. step' = "none"  BY DEF MockAnswers, CallInv, OneAnswer, TypeOK
<1>3. mock'[1] = case /\ call' # "none"  BY <1>1
<1>4. ASSUME call' = "judge"
      PROVE  answers'[1].correct = Solves(case.crime, case.guess)
  <2>1. PICK cut, within :
          answers' = <<MockFeedback(case.crime, case.guess, cut, within)>>
    BY <1>1, <1>4
  <2>2. answers'[1] = MockFeedback(case.crime, case.guess, cut, within)  BY <2>1
  <2>3. QED  BY <2>2, MockFeedbackLegal
<1>5. MockSolvedByName'
  <2>1. /\ case.crime.location \in case.map.rooms \cap WordsOf(case.crime.text)
        /\ case.crime.weapon \in case.map.weapons \cap WordsOf(case.crime.text)
        /\ case.crime.weapon \in AllWeapons
    BY <1>1, AcceptedCase
  <2>2. ASSUME call' = "judge", answers'[1].correct
        PROVE  {case.crime.location, case.crime.weapon} \subseteq WordsOf(case.guess)
    BY <1>4, <2>2 DEF Solves
  <2>3. ASSUME call' = "judge", case.guess = case.crime.text
        PROVE  answers'[1].correct
    <3>1. Solves(case.crime, case.crime.text)
      BY <1>1, AcceptedCase, ConfessionSolves
    <3>2. QED  BY <1>4, <2>3, <3>1
  <2>4. QED  BY <1>3, <2>1, <2>2, <2>3 DEF MockSolvedByName
<1>6. QED  BY <1>2, <1>3, <1>5 DEF MockInv

(* Nothing happens after a mock back end has answered. *)
LEMMA MockStays ==
  ASSUME CallInv, MockInv, [Next]_vars, ~MockAnswers  PROVE  MockInv'
<1>1. mock' = mock
  BY DEF Next, ChatJson, OnResolve, OnConnect, OnWrite, Then, Stream, ReadFails,
         OnRead, ExpiryPasses, Ended, vars
<1>2. CASE mock = <<>>  BY <1>1, <1>2 DEF MockInv, MockSolvedByName
<1>3. CASE mock # <<>>
  <2>1. UNCHANGED <<call, step, answers>>
    BY <1>3 DEF MockInv, Next, ChatJson, OnResolve, OnConnect, OnWrite, Then,
                Stream, ReadFails, OnRead, ExpiryPasses, Ended, vars
  <2>2. QED  BY <1>1, <2>1 DEF MockInv, MockSolvedByName
<1>4. QED  BY <1>2, <1>3

(* With the mock judge a case is solved by name: the place and the weapon   *)
(* the text names first, both of the board; and by the confession itself.   *)
THEOREM MockJudgesByName == Spec => []MockSolvedByName
<1>1. Init => MockInv  BY DEF Init, MockInv, MockSolvedByName
<1>2. CallInv /\ MockInv /\ [Next]_vars => MockInv'
  BY MockAnswersByName, MockStays
<1>3. MockInv => MockSolvedByName  BY DEF MockInv
<1>4. QED  BY <1>1, <1>2, <1>3, CallInvariant, PTL DEF Spec

(* A failed evaluation is worth 51 points, not the 50 of the protocol: each *)
(* of the five halves is rounded up.                                        *)
THEOREM FallbackIsFiftyOne ==
  \A t : ParseEvaluation(FALSE, t).score = 51
<1>1. /\ HalfCredit[1] = 13 /\ HalfCredit[2] = 10 /\ HalfCredit[3] = 10
      /\ HalfCredit[4] = 10 /\ HalfCredit[5] = 8
  <2>1. \A c \in 1..5 : HalfCredit[c] = (CategoryMax[c] + 1) \div 2
    BY DEF HalfCredit
  <2>2. /\ CategoryMax[1] = 25 /\ CategoryMax[2] = 20 /\ CategoryMax[3] = 20
        /\ CategoryMax[4] = 20 /\ CategoryMax[5] = 15
    BY DEF CategoryMax
  <2>3. 26 \div 2 = 13 /\ 21 \div 2 = 10 /\ 16 \div 2 = 8  OBVIOUS
  <2>4. QED  BY <2>1, <2>2, <2>3
<1>2. FallbackEvaluation.score = 51  BY <1>1 DEF FallbackEvaluation, Total
<1>3. QED  BY <1>2 DEF ParseEvaluation

(* A case is solved only on the model's word. *)
THEOREM SolvedOnItsWord == Spec => []FailureNeverSolves
<1>1. CallInv => FailureNeverSolves  BY DEF CallInv
<1>2. QED  BY <1>1, CallInvariant, PTL

(* The room is called back once, with a score that is the sum of its        *)
(* categories and within 0..100, or with verdicts: what GameRoom assumes.   *)
THEOREM BackendCorrect == Spec => BackendSpec
<1>1. Init => Backend!Init  BY DEF Init, Backend!Init
<1>2. CallInv /\ [Next]_vars => [Backend!Next]_<<call, answers>>  BY CallStep
<1>3. QED
  BY <1>1, <1>2, CallInvariant, PTL DEF Spec, BackendSpec, Backend!Spec
==============================================================================

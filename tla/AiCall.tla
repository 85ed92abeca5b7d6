------------------------------- MODULE AiCall --------------------------------
(***************************************************************************)
(* One call to the model: OllamaClient's chain of asynchronous steps on a  *)
(* connection of its own, and what the evaluator or the judge that made it *)
(* hands on to the room.  The mock back ends answer within the call.       *)
(*                                                                         *)
(* The stream's expiry is armed once, before the resolver runs, and does   *)
(* not reach the resolver.  Once it has passed, the stream completes the   *)
(* step under way, with an error unless its result was there already.      *)
(***************************************************************************)
EXTENDS MockAi

CONSTANTS
  Texts,         \* what the model may answer with
  AllWeapons,    \* weapons.json
  MapFiles,      \* the files of maps/, in the order they are listed in
  MapIds,        \* the ids a select_map may give
  Confessions,   \* texts a criminal may submit
  Guesses,       \* texts a detective may submit
  TextSizes      \* sizes of a confession, in bytes

ASSUME TextsAssumption == \A t \in Texts : IsContent(t)

(* load_default throws without a map; names have at least two bytes.        *)
ASSUME BoardAssumption ==
  /\ MapFiles \in Seq([id : STRING, rooms : SUBSET STRING, listed : BOOLEAN,
                       weapons : SUBSET STRING])
  /\ MapFiles # <<>>
  /\ \A i \in DOMAIN MapFiles : MapFiles[i].rooms \cap ShortWords = {}

ASSUME WrittenAssumption ==
  /\ Confessions \subseteq Seq(STRING)
  /\ Guesses \subseteq Seq(STRING)
  /\ TextSizes \subseteq Nat

VARIABLES
  call,      \* "none" before the call, then "evaluate" or "judge"
  step,      \* the asynchronous operation under way, "none" without one
  expiry,    \* of stream_: "unset", "armed", "over"
  res,       \* res_
  answers,   \* what the room's callback was given, each time it ran
  mock       \* what a mock back end was asked about, <<>> without one

vars == <<call, step, expiry, res, answers, mock>>

Blank == [json |-> "garbled", items |-> <<>>, correct |-> {}, aspects |-> <<>>]

NoResponse == [ok |-> FALSE, envelope |-> FALSE, text |-> Blank]

(* An HTTP response: status 200 or not, an envelope with a text or not. *)
Responses == [ok : BOOLEAN, envelope : BOOLEAN, text : Texts]

Init ==
  /\ call = "none" /\ step = "none" /\ expiry = "unset"
  /\ res = NoResponse /\ answers = <<>> /\ mock = <<>>

-----------------------------------------------------------------------------
(* on_done_: parse, and call the room back. *)
Done(ok, text) ==
  answers' = Append(answers, IF call = "evaluate"
                             THEN ParseEvaluation(ok, text)
                             ELSE ParseFeedback(ok, text))

SlipChatJsonNoExpiry ==      \* expires_after left out
  /\ call = "none"
  /\ call' \in {"evaluate", "judge"}
  /\ step' = "resolve"
  /\ UNCHANGED <<expiry, res, answers, mock>>

ChatJson ==
  /\ call = "none"
  /\ call' \in {"evaluate", "judge"}
  /\ step' = "resolve" /\ expiry' = "armed"
  /\ UNCHANGED <<res, answers, mock>>

(* A step that is followed by the next, or fails. *)
Then(this, next) ==
  /\ step = this
  /\ \/ step' = next /\ UNCHANGED answers
     \/ step' = "none" /\ Done(FALSE, Blank)
  /\ UNCHANGED <<call, expiry, res, mock>>

OnResolve == Then("resolve", "connect")
OnConnect == Then("connect", "write")
OnWrite   == Then("write", "read")

ReadFails ==
  /\ step = "read" /\ step' = "none"
  /\ Done(FALSE, Blank)
  /\ UNCHANGED <<call, expiry, res, mock>>

SlipOnReadFallsThrough ==    \* an HTTP error is reported, and then parsed
  /\ step = "read" /\ step' = "none"
  /\ res' \in Responses
  /\ LET given(ok) == IF call = "evaluate" THEN ParseEvaluation(ok, res'.text)
                                           ELSE ParseFeedback(ok, res'.text)
     IN  answers' = (IF res'.ok THEN <<>> ELSE <<given(FALSE)>>)
                    \o <<given(res'.envelope)>>
  /\ UNCHANGED <<call, expiry, mock>>

OnRead ==
  /\ step = "read" /\ step' = "none"
  /\ res' \in Responses
  /\ Done(res'.ok /\ res'.envelope, res'.text)
  /\ UNCHANGED <<call, expiry, mock>>

ExpiryPasses ==
  /\ expiry = "armed" /\ expiry' = "over"
  /\ UNCHANGED <<call, step, res, answers, mock>>

-----------------------------------------------------------------------------
(* load_default, and the map a room plays on *)
LoadedMaps == [i \in DOMAIN MapFiles |-> ParseMap(MapFiles[i], AllWeapons)]

RoomMaps ==
  {DefaultMap(LoadedMaps)}
  \cup ({FindMap(LoadedMaps, id) : id \in MapIds} \ {NoMap})

(* What the room may ask a judge about: a text that was accepted, and a     *)
(* guess at it.                                                             *)
Cases ==
  {[map |-> map, crime |-> CrimeOf(map, text, AllWeapons), guess |-> guess] :
     map \in RoomMaps, text \in Confessions, guess \in Guesses}

(* The mock evaluator and the mock judge call back before they return. *)
MockAnswers ==
  /\ call = "none"
  /\ \E case \in Cases :
       /\ Accepted(case.crime)
       /\ mock' = <<case>>
       /\ \/ /\ call' = "evaluate"
             /\ \E bytes \in TextSizes :
                  answers' = <<MockEvaluation(case.crime, bytes)>>
          \/ /\ call' = "judge"
             /\ \E cut \in DOMAIN case.crime.text, within \in BOOLEAN :
                  answers' = <<MockFeedback(case.crime, case.guess, cut, within)>>
  /\ UNCHANGED <<step, expiry, res>>

(* The client is destroyed with its last handler. *)
Ended == call # "none" /\ step = "none" /\ UNCHANGED vars

Stream == OnConnect \/ OnWrite \/ ReadFails \/ OnRead

Next == ChatJson \/ MockAnswers \/ OnResolve \/ Stream \/ ExpiryPasses \/ Ended

Spec == Init /\ [][Next]_vars

(* The resolver returns, time passes, and the stream gives up after its     *)
(* expiry.  The model process may stay silent for ever.                     *)
FairSpec ==
  /\ Spec
  /\ WF_vars(OnResolve) /\ WF_vars(ExpiryPasses)
  /\ WF_vars(expiry = "over" /\ Stream)

-----------------------------------------------------------------------------
(* Type correctness of a call. *)
TypeOK ==
  /\ call \in {"none", "evaluate", "judge"}
  /\ step \in {"none", "resolve", "connect", "write", "read"}
  /\ expiry \in {"unset", "armed", "over"}
  /\ res \in Responses \cup {NoResponse}

(* "The callback always fires exactly once" (OllamaClient.hpp), and with a  *)
(* result the room can use: a score that is the sum of its categories, each *)
(* within its maximum, or verdicts; whatever the model answered and         *)
(* wherever the chain failed.                                               *)
Backend == INSTANCE AiBackend
BackendSpec == Backend!Spec

(* A guess is judged right only on the model's word: a complete response    *)
(* with status 200 whose text says correct, and nothing else, says so.  No  *)
(* failure or omission solves a case.                                       *)
FailureNeverSolves ==
  call = "judge" /\ mock = <<>> /\ answers # <<>> /\ answers[1].correct =>
    /\ res.ok /\ res.envelope
    /\ res.text.json = "object" /\ TRUE \in res.text.correct

(* Every call is answered, though the model never answers. *)
EveryCallAnswered == call # "none" ~> answers # <<>>

(* With the mock judge a case can be solved, and only by name: the place    *)
(* and the weapon are of the board everybody sees, a guess that leaves one  *)
(* of them out is wrong, and the confession itself is right.                *)
MockSolvedByName ==
  mock # <<>> =>
    LET case == mock[1]
    IN  /\ case.crime.location \in case.map.rooms \cap WordsOf(case.crime.text)
        /\ case.crime.weapon \in case.map.weapons \cap WordsOf(case.crime.text)
        /\ case.crime.weapon \in AllWeapons
        /\ call = "judge" /\ answers[1].correct =>
             {case.crime.location, case.crime.weapon} \subseteq WordsOf(case.guess)
        /\ call = "judge" /\ case.guess = case.crime.text => answers[1].correct
==============================================================================

# Memories-of-Murder: a TLA+ model of the game server

Memories-of-Murder is a party game. In every round one player writes a short
account of a crime, an AI scores it, and the other players take turns to guess
weapon and place; each guess is judged by an AI. The server is a C++ program on
one Boost.Asio `io_context` run by **one thread** (`src/server/src/main.cpp`):
every handler runs to its end before the next begins. There are no data races.
What is hard is the *order* of handlers: players act, drop and return at any
time, timers expire, and AI answers come back seconds or minutes after they were
asked for, when the turn, the round, the game or the room may be another one.
That is what these modules are about. Each player watches all this on a web page
(`src/client/index.html`) that is put together from the messages it gets, and can only do
what the page shows.

## 1. Inventory

| Component (source) | State it keeps | Operations | Talks to | Correct when |
|---|---|---|---|---|
| `GameRoom` (`GameRoom.cpp/.hpp`) | roster, host, phase, criminal queue, turn queue, attempts, solutions, turn flags, turn generation, one timer, scores | join, reconnect, disconnect, 7 player messages, 2 timer expiries, 2 AI callbacks | `MessageSender` (out), evaluator and judge (call, later callback), `steady_timer` | the right player is charged, paid and asked; each player is criminal once; late callbacks are harmless; a started game ends |
| Scoring (`finish_round`) | none | reward of a solver, stake of the criminal | called by `GameRoom` | all-or-nothing: criminal or solvers are paid, once a round |
| `RoomManager` | rooms by code, each with its registered session per player | create, join, rejoin, disconnect, route a message | `GameServer` calls it, it calls `GameRoom` and `Session::close` | seat, registered session and `connected` agree; empty rooms go away |
| `GameServer` | none of its own | routes a message by the session's room code, the unbound messages, `on_disconnect` | `Session`, `RoomManager` | a session speaks for its own player of its own room |
| `Session` | room code, player id, write queue, `writing_` | read, send, close, end of stream | `GameServer`, the websocket | bound once; writes in order, one at a time |
| `Listener`, `main` | acceptor, `io_context` | accept | `Session` | - |
| `OllamaClient` | one request in flight: resolver, stream, buffers | resolve, connect, write, read, done | evaluator, judge | each request is answered exactly once |
| `OllamaCrimeEvaluator`, `OllamaGuessJudge` | none | build a prompt, parse the answer, fall back | `OllamaClient` | a score in 0..100; a verdict |
| `GameData` | maps with weapons and rooms | load, find a map, find a weapon or room named in a text | `GameRoom` | the match is one the map has |
| Mock evaluator and judge | none | score and judge a text by the words in it | `GameRoom`, within its call | a score that adds up; a case is solved by naming place and weapon |
| Web client (`src/client/index.html`) | what it knows of roster, host, phase, map, role and turn; which elements are hidden | 16 messages, 9 clicks, rejoin after a reload | websocket | shows the phase the room is in, the forms and buttons the room would take, and nothing its player must not know |
| `AiTestLog` | a log file | append | - | - |

**Interaction.** A websocket message reaches `Session::on_read`, then
`GameServer::on_message`, which creates, joins or rejoins a room for an unbound
session, and hands everything else to `RoomManager::handle_message`, which calls
the `GameRoom` behind the session's code with the session's player id. The room
tells the players through `MessageSender` in the order of its code, arms
`phase_timer_`, and calls the evaluator or the judge with a lambda that
captures the room (`alive_` as a weak guard), the turn generation and what it
needs to apply the answer. When a stream ends, `on_disconnect` tells the room,
and `RoomManager` erases a room nobody is connected to.

**Hard behaviours.** Late AI answers and late expiries; a drop or a rejoin in
every phase; the queue `pop_front`s that rely on who is at its front; one timer
for two phases; host succession, since only the host's messages leave
`NextRound` and `GameOver`; callbacks of a destroyed room; a rejoin racing the end
of the connection it replaces; reuse of room codes; a page that shows what was true
when the last message about it came, was loaded anew in the middle of a round, or
has sent off a form the room will refuse. `PROJECT.json` lists each
hazard at its line with the properties that watch it.

## 2. Modules

| Module | Models | Kind |
|---|---|---|
| `Scoring` | the arithmetic of `finish_round` | operators |
| `GameRoom` | `GameRoom.cpp`, every state-changing handler and callback | state machine |
| `Roster` | what a room promises about its seats | abstract specification |
| `GameRoomRoster` | the refinement mapping from `GameRoom` to `Roster` | composition |
| `Server` | `Session` (life cycle), `GameServer`, `RoomManager` over several rooms, each room a `Roster` record | state machine |
| `SessionWrites` | `Session`: the write queue | state machine |
| `Channel` | what a connection promises to whoever sends on it | abstract specification |
| `Evaluation` | how a model's text becomes a score or a verdict: the pure part of evaluator and judge | operators |
| `AiCall` | `OllamaClient`: one call, from `chat_json` to the room's callback | state machine |
| `AiBackend` | what evaluator and judge promise to the room | abstract specification |
| `GameData` | `parse_map`, `find_map`, `default_map`, the two extractions | operators |
| `MockAi` | the heuristics of the mock evaluator and judge | operators |
| `Clients` | what each handler of a room sends, the message handlers and clicks of the page, and pages of all players beside their room (extends `GameRoom`) | composition |
| `GameRoomProofs` | the inductive invariant of `GameRoom` and what follows from it: types, turn queue, live calls, host, attempts, phases | proofs |
| `GameRoomRoundProofs` | roles, payment and progress | proofs |
| `GameRoomRosterProofs` | the theorem that `GameRoom` implements `Roster` | proofs |
| `ServerProofs` | the inductive invariant of `Server`, its properties, and that each of its rooms keeps to `Roster` | proofs |
| `SessionWritesProofs` | one write at a time, and `SessionWrites` implements `Channel` | proofs |
| `AiCallProofs` | the operators' ranges, `AiCall` implements `AiBackend`, what a case is solved by | proofs |
| `ClientProofs` | a room with its pages runs as a room; what the pages rest on in the room | proofs |
| `ClientPageProofs` | the inductive invariant of the pages and the eight properties of `Clients` | proofs |
| `MCGameRoom`, `MCServer`, `MCAiCall`, `MCClients` | instances, view and symmetry for TLC | model checking |

`Server` never looks inside a game, and `GameRoom` never looks outside its room:
`Roster` is the interface of the two: `GameRoom` implements it (`RosterSpec`), and every
room `Server` holds changes only as it allows (`RoomsFollowRoster`).
`AiBackend` stands in the same way between a room and its AI: it has the two facts
`GameRoom` takes for granted, that a call is answered once and that a score is in
0..100 (`EvalScores` in `RoomAssumption`). `Clients` adds the pages to a room without
touching it. `SessionWrites` and `AiCall` each
follow one object, since no two sessions and no two clients share any state.

### GameRoom and the code

Variables carry the names of the fields of `GameRoom.hpp`, without the trailing
underscore. What differs:

* *Players* are ids. `players_` is appended to only by `handle_join`, with
  ascending ids, and only erased from, so the set of ids with its order by `<`
  is the vector; `front()` is `Min`. `Player::connected`, `has_been_criminal` are
  sets of ids, `Player::score` a function.
* *`criminal_queue_`* is shuffled once and then only read at its front. Nobody
  sees its order, so the model keeps the set and draws the next criminal when the
  code takes the front: the same behaviours.
* *`attempts_used_`, `solved_at_attempt_`* are total functions with 0 for "no
  entry". No code tells a missing entry from 0.
* *Texts* are model values. A crime text that names no weapon or place of the map,
  an empty guess and every other well-formed message answered by an error only are no
  action: nothing changes. JSON of an unexpected shape (no object, a `type` that is no
  string) is not modelled: `msg.value` throws a `type_error`, which `on_message` does not
  catch (`GameServer.cpp:88-93` catches `parse_error`) and which leaves the handler.
* *Timer.* `phase_timer` is the armed wait and `fired` an expiry asio has queued:
  `cancel()` and `expires_after()` cannot recall the second. What the lambda
  captures is in the record; `round` is a ghost for one property. A queued handler
  runs before another wait of 45 or 90 seconds can run out, so one `fired` is
  enough.
* *AI calls.* `calls` holds what the outstanding lambdas captured. They are
  answered in any order, at any time, each once.
* *Destroyed room.* `alive` FALSE is the room after `RoomManager` erased it. The
  object's fields stay in the model so that a property can say no callback touches
  them.
* *Messages of the disconnected.* `GameRoom` checks the sender's id and not
  `connected`. `Server` shows that a session a rejoin has replaced can still
  deliver a message, so the model lets any member of the roster send.
* `LeaveInvestigation` uses `RemoveFirst` where the code has erase-remove; they
  are equal because nobody stands in the queue twice (`TurnQueueOK`, proved).
* `Reward` floors in integers what the code computes in doubles
  (`(100 - score) * 0.9`, cast to `int`); the two agree for every score from 0 to
  100 with the multipliers 1.0, 0.9 and 0.8.

`games` counts started games for a bound; bounds are `MaxId`, `MaxGames` and
`MaxCalls` in `GameRoom`, `MaxId` and `MaxRooms` in `Server`.

### Server and the code

A session is unbound, bound to a player of a room, or closing: `Session::close`
only asks for a close, and the session stays bound until its read fails. `rooms`
maps each code to a `Roster` record; `serial` numbers the rooms in order of
creation so that a code that is reused is told apart; `tokens` are the rejoin
tokens handed out, which a client may present at any later time from any
connection. `evicted` remembers that a rejoin has had to close an older session.
`joined`, `serial` and `evicted` are ghosts, except that a token's `serial`
stands for the token text being that room's.

### SessionWrites and the code

Messages are numbered as they are sent. `write_queue` and `writing` are the
fields; `pending` lists the messages of the writes that have been started and not
completed, so that two of them at once can be seen; `delivered` is what was
written. The websocket is external: it completes a write or, once the link is
closing, lost or failed, fails it; after one failed every other fails. `Close` is
`Session::close`, called when a rejoin evicts the session, and clears nothing: the
rooms go on sending until the read loop ends and `on_disconnect` takes the session
out of its room. After a failed write the message stays at the front of the queue
and the next `send` starts it again; that nothing is repeated relies on the broken
stream failing that one too. `MaxSent` bounds the messages.

### AiCall, Evaluation and the code

`step` is the asynchronous operation under way. Each handler goes on to the next
operation or calls `fail`; `OnRead` calls `on_done_` with what status and envelope
allow. The callback parses the text and calls the room in the same handler, so
`Done` does both. `answers` is a ghost: what the room was given, each time.
`expires_after` is called before the resolver and bounds the stream's operations,
not the resolver's. A text is what its JSON says (see the head of `Evaluation`):
entries that are not objects are left out of `aspects`, and are entries of no
category in `items`. `IntSize` is the number of values of an `int`: 2^32 in the
builds, 2^8 for TLC, whose own integers are no wider than 32 bits; both hold every
category's maximum. Key facts, the answer key and the names of aspects are only
shown. The failed verdict stands for the error text `failure_feedback` puts where
PROTOCOL.md:36 lists the three verdicts only.

The mock back ends are in the same module, since they keep the same promise:
`MockAnswers` is a call that is answered before it returns (`AnswerAtOnce` in
`AiBackend`), and `mock` holds what it was about.

### GameData, MockAi and the code

A text is the sequence of its words, and a name is the word that contains it. That is
`std::string::find` as long as no name lies within another or across a space, which is so
for the rooms and weapons of the three maps in `src/server/data`. Then
`extract_..._mention` returns the name at the first place where any of the map's names
stands. A map is its id with the names of its rooms and of its weapons: `ParseMap`
keeps the weapons of a map's own list that `weapons.json` has, or all without a list.
`MapFiles` is in the order the directory is read in, which is any.

The bytes of a text are left open where only their number counts: the mock evaluator
takes a size from `TextSizes`, and the mock judge, which cuts the text in two in the
middle of its bytes, cuts it before or within any word (a word that is cut is taken to
count on either side). `tokenize` drops what is shorter than two bytes: `ShortWords`.
`Share` is `lround` in integers, `RatioAtLeast` the comparison of the ratio with 1/2 and
1/4 without the division.

### Clients and the code

*Messages.* A connection delivers in order (`Channel`, which `SessionWrites` implements),
so what a page shows when it has read everything is decided by what was sent. `Deliver` applies
the messages of one handler, in the order the code sends them, in the step that
sends them, to whoever has a registered session (`RoomSender`). What may still happen
against a message that is on its way is a click; `sent` keeps the form a page has sent
off until the room gets to it, with any steps of the room in between. A click on a page
that lags behind is thus the same click before those steps: the page has not seen what they
sent, and pages meet in the room only. The other
buttons change nothing on the page, and the room takes them from anybody at any time
(`Buttons`). Two things are left out: a click between two messages of one handler,
which the browser could take, and a second form sent off while one is under way.

*A page* is the set of elements whose own `hidden` is off, and the variables its
handlers read: roster, host, phase, map, role, current detective; with the attempt shown for the turn. `Within` is the nesting in
the HTML: `Sees` asks that an element and all around it be shown. The text field and
the button of a guess are one element, hidden and shown together. `On...` are the cases of
`handleMessage`; what they write into a page, and the countdowns, are left out.

*Rejoin.* The page does not reconnect by itself: a rejoin comes from a page loaded anew
(`FreshPage`), with `room_update` before `rejoined`, as PROTOCOL.md:51 warns. If the older
connection is still up it is replaced (`evicted`), and what it has sent off may yet come.
`evicted` players may send without being connected, since the late end of the older
connection unseats them (finding 1). A page without a seat gets no messages and is
not followed.

*Refusals.* Any crime text may lack a weapon or a place, and a guess may come too late;
both are answered by an error to that page alone (`Refuse`). The errors that tell of an
abandoned round go to everybody, and meet the same handler.

## 3. Runs

| Run | Instance | Checks |
|---|---|---|
| `RoomSafety` | 3 players, 3 attempts, 2 guess texts, up to 2 calls outstanding, one game | `TypeOK`, `TurnQueueOK`, `NeverStuck`, `OneAttemptPerTurn`, `RoundPaidOnce`, `DeadRoomUntouched` |
| `RoomRestart` | up to 4 ids in a room of 3 seats, 1 attempt, 2 maps, two games | `HostPresent`, `LiveCallsOK`, `RolesOK`, `PhasesInOrder`, and that `GameRoom` implements `Roster` (`RosterSpec`) |
| `RoomLiveness` | 3 players, 1 attempt, one game | `CrimeWritingEnds`, `JudgingEnds`, `TurnAnswered`, `GameEnds` |
| `ServerSafety` | 4 connections, 2 codes, 3 rooms of 2 seats | `TypeOK`, `SeatsAgree`, `RoomsOccupied`, `SeatKeptWithoutEviction`, `RoomsFollowRoster` |
| `SessionFifo` | 5 messages | `OneWriteAtATime`, `QueueDrains`, and that a session implements `Channel` (`ChannelSpec`) |
| `AiCalls` | one call of either kind, 41 texts: no entry, one, two of one category, five in reverse order; scores missing, negative, in range, too high, too wide; or a mock's answer to any accepted text of 2 or 3 out of 7 words on three maps | `FailureNeverSolves`, `MockSolvedByName`, `EveryCallAnswered`, and that a call implements `AiBackend` (`BackendSpec`) |
| `ClientViews` | 3 players, 2 attempts, 2 maps, one game, one rejoin, one call outstanding | `ClientTypeOK`, `PagesCurrent`, `ScreenFollowsPhase`, `ActorHasForm`, `OfferedIsAccepted`, `KnowledgeShared`, `SpinnerHasCause`, `SomebodyCanGoOn` |
| `RoomStaleTimer` | as `RoomSafety` | violated: `TimeoutMeansInaction` |
| `ServerTakeover` | as `ServerSafety` | violated: `SeatKept` |
| `ClientNextTurn` | as `ClientViews`, 1 attempt | violated: `NextTurnOffered` |
| `ClientNextRound` | as `ClientViews`, 1 attempt | violated: `NextRoundOffered` |
| `ClientCrimeRetry` | as `ClientViews`, 1 attempt | violated: `RefusedCrimeCanBeRetried` |

*Why these bounds.* Three players are the fewest that start a game and give two
detectives: a queue with a front and a back, a host who is neither, a criminal
who may be the host. Three rounds play all of them as criminal. Three attempts
are the code's `kMaxAttempts`, needed for the requeue rule. A second call
outstanding is one stale and one live, the case the generations are for. The
second game with a fourth id covers seats that are dropped and taken between
games. Two maps are needed to change the map under a call. In `Server`, two codes
and three rooms make a code stand for two rooms in turn, and four connections let
a room of two have both seats replaced. Five messages let a queue hold several
behind one that is being written, fail, and be written to again. A call needs no
more than one, as each has its own client. Of the mocks' three maps one has a list of
its own, one lists a weapon that does not exist, one has no list, as the code tells them
apart. `ClientViews` has three rounds, so that each page is a criminal's and a
detective's and a round is shown over the leavings of the one before; two attempts, so
that a page gets its form back after a feedback; and one rejoin at any moment
(`MaxRejoins`), which builds a page from `game_state_sync` in every phase. With one
call outstanding at most the answers that the room drops are not seen; they send
nothing.

*The view.* The safety runs of `GameRoom` explore states up to `RoomView`: no
guard reads `score`, generations are compared with the current one only, and that
one never goes back, so a stale call stays stale. States that differ only in
total scores, in how far the generation has counted or in which stale calls are
outstanding have the same steps and the same gains. The view drops these and
keeps what the properties read; properties about a step read only changes of
scores. The liveness run uses no view. The client runs explore states up to `ClientView`,
which also drops who solved the crime, the round of a wait, and of a wait's generation
all but whether it is the current one: neither a guard of the room nor a page reads more. Maps are interchangeable
there (`MapSymmetry`); players are not, since the host is the smallest id.

*Deadlock* is checked in every run. A destroyed room whose callbacks have all
come back stutters (`Gone`), as do an ended session and an ended call (`Ended`).

*Fairness.* `SystemFairness` is weak fairness of `TimerExpires`, `Expiry` and
`Answer`: asio delivers a wait that has run out, the single thread runs what is
queued, and `OllamaClient` gives each request a deadline
(`expires_after` on its stream) so that it is answered. The guard `calls` is
shared by all calls: with weak fairness of `Answer` some call is answered; the
instance has one call at a time. Nothing is assumed of the players except in
`GameEnds`, which is stated under `Attended`: somebody *connected* who may send
`next_turn` or `next_round` does so in the end. It is an assumption on people,
visible in the formula, and the point of the property is that the code always
leaves a connected player who can.

`SessionWrites` assumes that the reactor completes a write the peer takes
(`WF(OnWrite)`), and claims delivery only while the link stays open. `AiCall`
assumes that the operating system's resolver returns, that time passes, and that
the stream completes what is under way once its expiry is over. Nothing is assumed
of the model process: it may stay silent for ever. `EveryCallAnswered` is what
justifies the fairness of `Answer` in `GameRoom`.

### Properties and the mistakes they notice

For each property `PROJECT.json` names a mutant: a definition `Slip...` that stands
before the one it would replace.

| Property | What it says | Mistake it notices |
|---|---|---|
| `TypeOK` | types, and every id a field holds is in the roster | `SlipRequeueAlways`: a detective with no attempts left is requeued |
| `TurnQueueOK` | the queue of an investigation, and its front is the current detective | `SlipRequeueFront`: the answered detective is left at the front |
| `NeverStuck` | each phase has a timer, a live call or an advance pending | `SlipGuessTimerEarly`: the timer is armed before the generation is bumped |
| `OneAttemptPerTurn` | attempts are charged once a turn, to the current detective | `SlipMayGuessTwice`: `guess_in_flight_` is not looked at |
| `RoundPaidOnce` | one payment a round, to the criminal or to solvers | `SlipExpiryAnyState`: the crime expiry ignores the phase |
| `DeadRoomUntouched` | no callback touches a destroyed room | `SlipAnswerDeadRoom`: `alive_` is not looked at |
| `HostPresent` | the host is connected | `SlipSucceedHostFront`: succession by `front()` also in a game |
| `LiveCallsOK` | a call that would be applied fits phase, detective and map | `SlipSelectMapAnytime`: the map may change in a game |
| `RolesOK` | who was, is and will be criminal partition the roster | `SlipStartRoundKeepsQueue`: the front is not erased |
| `PhasesInOrder` | phases follow PROTOCOL.md's diagram | `SlipAnswerAnyTurn`: generations are not compared |
| `RosterSpec` | `GameRoom` implements `Roster` | `SlipNoSuccession`: no succession in a game |
| `CrimeWritingEnds` | an idle criminal does not stall the game | `SlipExpiryNeedsCriminal`: the expiry wants the criminal connected |
| `JudgingEnds` | judging ends | `SlipEvaluateCallLate`: the lambda captures the next generation |
| `TurnAnswered` | an idle detective does not stall the game | `SlipGuessTimerEarly` |
| `GameEnds` | an attended game reaches `GameOver` | `SlipNoSuccession` |
| `Server!TypeOK` | connected players and hosts are in the roster | `SlipHostNotReplaced` |
| `SeatsAgree` | seat, registered session and `connected` agree | `SlipLeaveSeatTaken`: the session is not erased |
| `RoomsOccupied` | a code stands for an occupied room with a connected host | `SlipLeaveEmptyRoom`: empty rooms stay |
| `RoomsFollowRoster` | a room changes only as `Roster` allows: none but players of its roster drop and come back | `SlipVerifyRoomOnly`: a token of a player the restart dropped is accepted |
| `OneWriteAtATime` | one write is outstanding at most, from the front of the queue | `SlipSendAlwaysWrites`: `writing_` is not looked at |
| `ChannelSpec` | what is written is what was sent, in order, whatever fails | `SlipOnWriteKeepsFront`: `pop_front` is left out |
| `QueueDrains` | on an open link all is written, with no further send | `SlipOnWriteStops`: the next write waits for the next send |
| `BackendSpec` | one answer at most, and a usable one | `SlipOnReadFallsThrough`: an HTTP error is reported and then parsed; `SlipCategoryScoreUnclamped`; `SlipMockEvaluation`: the mock's score is not the sum |
| `FailureNeverSolves` | a guess is right only on the model's word | `SlipParseFeedbackLenient`: a missing `correct` counts as true |
| `MockSolvedByName` | a crime has a place and a weapon of its map, and by the mock judge only their names solve it | `SlipSolves`: a place not named is overlooked; `SlipCrimeOf`: weapons of other maps count |
| `ClientTypeOK` | types; who is not connected has no page and nothing under way | `SlipClosed`: a form outlives its connection |
| `PagesCurrent` | every page knows roster, phase, map, role, turn and attempt as they are | `SlipRoundFinishedUntold`: no `room_update` after `game_over` |
| `ScreenFollowsPhase` | one section is shown, the phase's | `SlipRoundFinished`: `round_result` is sent after `game_over` |
| `ActorHasForm` | the detective whose turn it is has the form or has sent it off, nobody else has one | `SlipOnTurnStartForm`: a new turn does not bring the form back |
| `OfferedIsAccepted` | start, next turn, next round, restart or a submit button is on the screen only of a player the room takes it from, in that phase and turn; excused are the form of a turn already answered, the forms of a page that replaced one still up, and a crime sent off in an earlier game | `SlipOnGuessPending`: the form stays while its guess is judged |
| `KnowledgeShared` | the score is shown to all and the answer key to the criminal only, while they investigate and not otherwise | `SlipSyncKey`: the sync has the key for everybody |
| `SpinnerHasCause` | "being judged" is shown only while a guess is under way or judged | `SlipOnGuessFeedbackSpin`: the feedback leaves the spinner |
| `SomebodyCanGoOn` | where the game waits for a click, a page shows the button: the lobby's host, the detective of an answered turn, the host between rounds and after the game if nobody has dropped | `SlipOnGuessFeedback`: the button is the host's alone |
| `EveryCallAnswered` | a silent model does not stall the room | `SlipChatJsonNoExpiry`: no expiry is armed |
| `SeatKeptWithoutEviction` | without an eviction an open session keeps its seat, in its own room | `SlipVerifyIdOnly`: the token is not compared |

### Findings

1. **An evicted session unseats its successor** (`ServerTakeover`, a bug at
   `RoomManager.cpp:126`). A rejoin that finds an older session closes it and
   registers the new one. The older one is still bound, and when its stream ends
   `handle_disconnect` erases the *new* session's seat, marks the player as
   disconnected, and destroys the room if nobody else is there. PROTOCOL.md:50
   promises that the newer connection wins.
2. **A queued crime expiry can end the next round** (`RoomStaleTimer`). The
   crime-writing lambda captures no generation. The window is narrow: the
   criminal's drop and the host's `next_round` must both be handled between the
   expiry being queued and run.
3. **The host cannot go past an absent detective** (`ClientNextTurn`, a bug at
   `index.html:421`). The room takes `next_turn` from the host, and the page uncovers the
   button, within a box that only the current detective's page shows. PROTOCOL.md:16 has
   the host advance so that an absent detective does not stop the game; a detective
   who is away with the connection up does stop it.
4. **A new host between rounds has no button** (`ClientNextRound`, a bug at
   `index.html:655`). `next-round-btn` is rendered with `round_result` or a sync only, and
   `room_update` comes after it: whoever succeeds to the host's seat in `NextRound`, or by
   the drop that ended the round, has to reload the page. `restart-btn` is rendered in the
   same way with `game_over`.
5. **A refused crime cannot be corrected** (`ClientCrimeRetry`). The click hides the form,
   and the error that asks for a weapon's or a place's name does not bring it back. A page
   loaded anew has it again.

*Divergences without a run of their own.*

* After a turn's feedback and before `next_turn`, `build_game_state_sync`
  (`GameRoom.cpp:795`) tells a rejoining client the attempt after the one counted,
  after a last one 4 of 3; PROTOCOL.md:34 says three at most. `PagesCurrent` compares
  the attempt until the turn is answered.
* A criminal who drops while writing has the round ended at once (`GameRoom.cpp:151`);
  RECONNECT_DESIGN.md:29 lets the timer run instead.
* A failed evaluation is worth 51 points, five halves rounded up; PROTOCOL.md:143 says 50.
  `FallbackIsFiftyOne` is proved.
* A page that rejoins in `GameOver` stays blank: `applyGameStateSync` leaves the screen to
  `room_update` (`index.html:498-501`), which brings up the lobby only. `ScreenFollowsPhase`
  excuses it after a rejoin.
* A detective who reloads the page after the feedback, before the old connection's end is
  noticed, has no button for `next_turn`: the sync says nothing of `awaiting_advance_`.
  `SomebodyCanGoOn` excuses it. With finding 3 nobody has the button then, until
  that detective's connection ends.
* `guess_feedback` (`index.html:435-441`) hides neither `guess-text` nor `submit-guess-btn`.
  After a guess has been sent off they are hidden already; after a time-out the detective's page
  keeps the submit button beside the one for `next_turn`, and the room refuses that click
  (`GameRoom.cpp:537`, `awaiting_advance_`). PROTOCOL.md:88 has all that follows a time-out be
  as after a wrong guess. A page that rejoins in an answered turn shows the form in the same way,
  and one that replaces a connection still up shows the form of a guess that is being judged, or
  keeps that of a crime the older connection had sent off. `OfferedIsAccepted` excuses these.

## 4. Proofs

The theorems hold for every number of players, attempts, calls, messages, rejoins, maps
and texts and every bound; they assume only `ScoringAssumption` and `RoomAssumption`,
`ServerAssumption`, `NamesAssumption`, `WritesAssumption`, `IntAssumption`, `TextsAssumption`, `BoardAssumption`,
`WrittenAssumption` and `ClientAssumption`. `NamesAssumption` says that an empty
optional is no room code and a null pointer no session; `BoardAssumption` says that there is a map, as
`load_default` makes sure of, and that no room's name is shorter than two bytes. All leaves
are checked by TLAPS (Z3, Zenon, LS4).

`TypeOK` is not inductive. `handle_guess_timeout` charges an attempt to
`current_detective_` and pops the front of the queue: that the attempt stays in
range and that the queue is not empty is `TurnQueueOK`. That the expiry finds an
investigation at all needs `TimersOK` (a guess wait of the current generation was
armed for this investigation), that the answer is the current detective's needs
`CallsOK` (at most one call of the current generation, made by this phase),
and that an awaited judgement and an answered turn never meet is `FlagsOK`.
That a player who leaves the lobby is named by no field is `LobbyOK`.
`TurnQueueOK` says the queue is ordered by attempts; for the player at the front
to go to the back, the attempts of any two in it may differ by one at most:
`SpreadOK`. Their conjunction is `RoomInv`, and it is inductive. TLC was used to
check it on the instances of `RoomSafety` and `RoomRestart` before it was proved.

The proof is laid out by conjunct and then by handler: lemmas `...TypeOK`,
`...Async` (`LobbyOK`, `FlagsOK`, `TimersOK`, `CallsOK`) and `...Queue`
(`TurnQueueOK`, `SpreadOK`), one per handler, joined in `NextInv`. Two families of
lemmas carry it: *a step that bumps the generation outdates every wait and
every call* (`TimersOutdated`, `CallsOutdated`), and *the queue operations keep
the queue in order* (`RemoveKeepsQueue`, `RequeueKeepsQueue`).

| Theorem | Module | States |
|---|---|---|
| `RoomInvariant` | `GameRoomProofs` | `RoomInv`, the inductive invariant, always holds |
| `TypeCorrect` | `GameRoomProofs` | `[]TypeOK` |
| `TurnQueueCorrect` | `GameRoomProofs` | `[]TurnQueueOK` |
| `LiveCallsCorrect` | `GameRoomProofs` | `[]LiveCallsOK` |
| `HostCorrect` | `GameRoomProofs` | `[]HostPresent` |
| `AttemptsCorrect` | `GameRoomProofs` | `OneAttemptPerTurn` |
| `PhasesCorrect` | `GameRoomProofs` | `PhasesInOrder` |
| `DeadRoomCorrect` | `GameRoomProofs` | `DeadRoomUntouched` |
| `RolesCorrect` | `GameRoomRoundProofs` | `[]RolesOK` |
| `PaymentCorrect` | `GameRoomRoundProofs` | `RoundPaidOnce` |
| `ProgressCorrect` | `GameRoomRoundProofs` | `[]NeverStuck` |
| `RosterCorrect` | `GameRoomRosterProofs` | `RosterSpec`: `GameRoom` implements `Roster` |
| `ServerInvariant` | `ServerProofs` | `ServerInv`, the inductive invariant, always holds |
| `ServerTypeCorrect` | `ServerProofs` | `[]TypeOK` of `Server` |
| `SeatsAlwaysAgree` | `ServerProofs` | `[]SeatsAgree` |
| `RoomsAlwaysOccupied` | `ServerProofs` | `[]RoomsOccupied` |
| `SeatAlwaysKept` | `ServerProofs` | `[]SeatKeptWithoutEviction` |
| `RoomsRosterCorrect` | `ServerProofs` | `RoomsFollowRoster`: the rooms of `Server` keep to `Roster` |
| `WritesCorrect` | `SessionWritesProofs` | `[]OneWriteAtATime` |
| `ChannelCorrect` | `SessionWritesProofs` | `ChannelSpec`: `SessionWrites` implements `Channel` |
| `SolvedOnItsWord` | `AiCallProofs` | `[]FailureNeverSolves` |
| `BackendCorrect` | `AiCallProofs` | `BackendSpec`: `AiCall` implements `AiBackend` |
| `MockJudgesByName` | `AiCallProofs` | `[]MockSolvedByName` |
| `FallbackIsFiftyOne` | `AiCallProofs` | the score of `FallbackEvaluation` |
| `ClientsRunTheRoom` | `ClientProofs` | `ClientSpec => Spec`: `Clients` implements `GameRoom` |
| `ClientInvariant` | `ClientPageProofs` | `ClientInv`, the inductive invariant, always holds |
| `ClientTypesCorrect` | `ClientPageProofs` | `[]ClientTypeOK` |
| `PagesCorrect` | `ClientPageProofs` | `[]PagesCurrent` |
| `ScreenCorrect` | `ClientPageProofs` | `[]ScreenFollowsPhase` |
| `FormsCorrect` | `ClientPageProofs` | `[]ActorHasForm` |
| `OfferInvariant` | `ClientPageProofs` | `OfferInv`, `ClientInv` with what it leaves open of the forms, always holds |
| `ButtonsCorrect` | `ClientPageProofs` | `[]OfferedIsAccepted` |
| `KnowledgeCorrect` | `ClientPageProofs` | `[]KnowledgeShared` |
| `SpinnerCorrect` | `ClientPageProofs` | `[]SpinnerHasCause` |
| `GoingOnCorrect` | `ClientPageProofs` | `[]SomebodyCanGoOn` |

Every safety property that a passing run checks is thus also proved. Four of those of
`GameRoom` need more than `RoomInv`:

* `HostPresent` needs `HostInv`: in the lobby the players are the connected ones,
  so that `front()` there and "first connected" in a game both find somebody who
  is there.
* `RolesOK` needs `SolvedOK`: the criminal has solved nothing, which is also why a
  round pays the criminal or the solvers and never both (`PaymentCorrect`).
* `NeverStuck` needs `QuietOK`: before an investigation no turn is open and none
  is answered.
* `RosterCorrect` needs `HostInv` for a join to leave the host alone (`handle_join`
  makes the newcomer host of a room that has none) and for a room that exists
  never to be taken for none, and `CallsOK` for an evaluation to come back only
  to a room that judges, never to a lobby. Every handler of a game under way is a
  stuttering step of `Roster`.

*Server.* `ServerInv` is `SeatsAgree` with what makes it inductive. `RoomOK`: the next id is
above every player's, so a newcomer's seat is free; in the lobby players and connected are
the same, and a room that exists has its host among the connected, so that the room goes
with its last connection (`RoomExists`, `LeftOK`). `BindingOK`: who has a room code speaks
for a player, on a connection that has not ended. `KeptOK`: before an eviction nobody is
closing and everybody bound has their seat, so that the one who ends vacates their own;
after one that is lost, which is the finding `ServerTakeover`, but `SeatsAgree` is not: what
the evicted session vacates is a seat and its connected flag together. `NextRoster` needs
from it that a session whose room is gone, and whose code stands for another, either speaks
for a player of that one or changes nothing (`StrangerLeaves`).

*Session.* `OneWriteAtATime` says that a write in progress is the queue's front;
that the front is the message the peer expects next needs `InOrder`: the queue
holds, in order, the numbers from the last written to the last sent. The two with
the types are `WritesInv`.

*AI calls.* `CategoryScoreInRange` bounds a category however a text's entries are
ordered, repeated, misnamed or out of range (the first entry that names it exists
by the well-foundedness of `<`), `EvaluationLegal` and `FeedbackLegal` follow, and
`OneAnswer` says that while a step is under way nothing has been answered, so that
the one `Done` of a chain is the first. `BackendCorrect` with `IntSize` and `Texts`
arbitrary covers the 32-bit build and every text.

*Mocks.* A step of `MockAnswers` is an answer `AiBackend` allows: a share of an overall
value in 0..100 is within its category's maximum (`MockEvaluationLegal`), the ratios make
a verdict (`MockFeedbackLegal`). That a confession solves its own case needs a word of it
that `tokenize` keeps: its place, by `BoardAssumption`. `MockAnswersByName` is the step that
establishes `MockSolvedByName`, `MockStays` the steps that keep it.

*Pages.* Each action of `Clients` contains the room's handler as a conjunct, and what the page
adds changes no variable of the room; so `ClientsRunTheRoom` carries every theorem
about `GameRoom` over to a room with its pages.

The properties of `Clients` are about what a player *sees*: an element whose own `hidden` is
off and that of everything around it. None of them is inductive, because what is hidden by
its section today is on the screen when the section comes back. `ClientInv` is about what
is shown within the sections, page by page (`PageOK`):

* `KnownOK`: the variables of the page are the room's (`PagesCurrent` of one page).
* `SectionsOK`: one section, the phase's; in `GameOver` there may be none after a rejoin.
* `HostButtonsOK`: "start" is the host's in the lobby; "next round" and "restart" are nobody
  else's, and the host's as long as nobody has dropped or rejoined (`Undisturbed`).
* `PreparationOK`: before the investigation nothing of the round before it is left: no score, no
  answer key, no turn, and the crime form is the criminal's.
* `TurnOK`: in an investigation the boxes follow the turn: turn box and form at the
  detective whose turn it is, the advance box only where a turn is answered, the spinner
  only with a cause. An advance box left over elsewhere would come up with the next turn.

The pages need the room in good order: `ShownRoom` is the inductive invariants of the three
room modules and `StageOK`, which relates the fields a message is made of to the phase: the score is
revealed when the investigation starts and not before, and the turn is that of a detective who
is connected. `game_state_sync` is built from
`crime_score_revealed_`, so that `StageOK` is what a page that rejoins depends on.

The proof goes up in three layers. One lemma per message handler of the page says what it
does to what is known and shown (`RoomUpdatePage` to `ErrorPage`, `RoundSyncPage` and `BreakSyncPage`). One lemma per
series of messages a handler of the room sends, in its order, says that the page at its end is
`PageOK` (`StartedPage`, `TurnPage`, `FinishedPage`, `BegunPage`); a handler that sends
nothing, or nothing that shows, keeps it (`QuietPage`, `SamePage`). One lemma per step of
`ClientNext` joins them for every connected page (`JoinPages` to `SilentPages`), and
`NextClientInv` joins those. The order within a series is what counts: `round_result` after
`game_over`, or no `room_update` at the end, breaks `FinishedPage`. TLC checked `ClientInv` on
the instance of `ClientViews` (1,573,322 states) before it was proved.

`ClientInv` is not enough for `OfferedIsAccepted`: it lets a form that the room has taken be on the
screen, or under way a second time, as long as it is the right player's. `OfferInv` adds
`TakenOnce` of each page that is its player's only one (`connected \ evicted`): while a guess is judged
its form is off the screen and nothing is under way; in a first game, a crime under way from
somebody who has not been criminal yet is this round's, and its form stays off the
screen while it is judged. "Not yet" needs `RolesInv`, by which the criminal of the round is not
among those who were; after a restart a crime of the game before may still be on its way
and be taken as the new one, which is why later games are excused. A step starts
from the lobby (`LobbyOnce`), puts every page into the phase where nothing is taken
yet (`WritingOver`, `NoneTaken`), or leaves the forms as they were (`TakenKept`). TLC
checked `TakenOnce` on the same instance first.

`GoingOnCorrect` states no more than `SomebodyCanGoOn` does: the cases that findings 3 and 4 are
about stay excused, by `Undisturbed` and `evicted`.

*Model-checked only:* liveness under fairness (`CrimeWritingEnds`, `JudgingEnds`,
`TurnAnswered`, `GameEnds`, `QueueDrains`, `EveryCallAnswered`), which needs `ENABLED` and is
beyond the prover. The properties of the runs that expect a violation are false.

## 5. Not modelled

* `AiTestLog`, prompts, wording, layout, start-up and configuration: no state of the game
  depends on them. Of the files under `data/` only what `ParseMap` keeps is modelled;
  adjacency, surveillance and images are shown and put into prompts only.
* Of the page: texts, lists, the countdowns, the map picker, `localStorage`; a rejoin that
  the server refuses, after which the page is as it was loaded; the pages of several rooms, which
  have nothing in common.
* An exception thrown by the callback `OllamaClient::on_read` calls inside its `try`
  would run it a second time. No callback of the program throws (`Session::send`
  dumps with `error_handler_t::replace` for that reason), so the model has none.
* `generate_unique_code` with all 10000 codes taken loops for ever inside one
  handler; the model is simply disabled there.

## 6. Plan

Done in this order: `Scoring`, `GameRoom`, `Roster` with the refinement, `Server`,
proofs about `GameRoom`, `SessionWrites` with `Channel`, `Evaluation` and `AiCall`
with `AiBackend` and their proofs, `Clients` on top of `GameRoom`, `GameData` and
`MockAi` within `AiCall`, proofs about `Server`, proofs about `Clients`. What is left:

1. The steps that the liveness properties rest on, which need no `ENABLED`: that a judging
   phase keeps its live call until that call ends it, and a turn its timer or its call, so that only
   the fairness itself is left to TLC.
2. The arithmetic of a round (`Scoring`): between which bounds a reward lies, for every multiplier.

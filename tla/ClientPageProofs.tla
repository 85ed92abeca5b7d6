--------------------------- MODULE ClientPageProofs ---------------------------
(***************************************************************************)
(* The pages of a room show what the room is in: the inductive invariant   *)
(* of Clients, one lemma per message handler of the page, one per series   *)
(* of messages that a handler of the room sends, one per step.             *)
(***************************************************************************)
EXTENDS ClientProofs

-----------------------------------------------------------------------------
(* The inductive invariant, page by page. *)

(* What PagesCurrent says of one page. *)
KnownOK(p) ==
  LET page == client[p]
  IN  /\ page.room = RoomUpdate
      /\ page.map = selected_map
      /\ RoundInProgress => page.role = Role(p)
      /\ state = "Investigation" => page.detective = current_detective
      /\ state = "Investigation" /\ ~awaiting_advance =>
           page.attempt = attempts_used[current_detective] + 1

(* One section, the phase's; in GameOver there may be none after a rejoin. *)
SectionsOK(p) ==
  LET S == client[p].shown
  IN  /\ "join" \notin S
      /\ "lobby" \in S <=> state = "Lobby"
      /\ "round" \in S <=> RoundInProgress
      /\ "result" \in S <=> state = "NextRound"
      /\ "gameover" \in S => state = "GameOver"
      /\ state = "GameOver" /\ rejoins = 0 => "gameover" \in S

(* The host's buttons are nobody else's, and the host's as long as nothing  *)
(* has come between.                                                        *)
HostButtonsOK(p) ==
  LET S == client[p].shown
  IN  /\ "start" \in S <=> state = "Lobby" /\ p = host_id
      /\ state = "NextRound" =>
           /\ "next_round" \in S => p = host_id
           /\ Undisturbed /\ p = host_id => "next_round" \in S
      /\ state = "GameOver" =>
           /\ "restart" \in S => p = host_id
           /\ Undisturbed /\ p = host_id => "restart" \in S

(* Before the investigation a round has nothing of the last one. *)
PreparationOK(p) ==
  LET S == client[p].shown
  IN  state \in {"CrimeWriting", "AIJudging"} =>
        /\ "investigation" \notin S /\ "score" \notin S /\ "answer" \notin S
        /\ "crime" \in S => p = criminal_id

(* The boxes of an investigation follow the turn. *)
TurnOK(p) ==
  LET S == client[p].shown
  IN  state = "Investigation" =>
        /\ "crime" \notin S
        /\ "investigation" \in S <=> p = current_detective
        /\ "score" \in S
        /\ "answer" \in S <=> p = criminal_id
        /\ "advance" \in S => awaiting_advance
        /\ p = current_detective =>
             /\ "loading" \in S => sent[p] = "submit_guess" \/ guess_in_flight
             /\ ~awaiting_advance /\ ~guess_in_flight =>
                  "guess" \in S \/ sent[p] = "submit_guess"
             /\ awaiting_advance /\ p \notin evicted =>
                  "advance" \in S /\ "next_turn" \in S

ShownOK(p) == SectionsOK(p) /\ HostButtonsOK(p) /\ PreparationOK(p) /\ TurnOK(p)

PageOK(p) == KnownOK(p) /\ ShownOK(p)

ClientInv == ShownRoom /\ ClientTypeOK /\ \A p \in connected : PageOK(p)

-----------------------------------------------------------------------------
(* What a message does to a page. *)

Attempts == 0..(MaxAttempts + 1)

(* Two pages that differ in what is shown only. *)
SameKnown(new, old) ==
  /\ new.room = old.room /\ new.map = old.map /\ new.role = old.role
  /\ new.detective = old.detective /\ new.attempt = old.attempt

(* Showing and hiding elements changes nothing that the page knows. *)
LEMMA SetShown ==
  ASSUME NEW page \in Pages, NEW S \in SUBSET Elements
  PROVE  LET new == [page EXCEPT !.shown = S]
         IN  new \in Pages /\ new.shown = S /\ SameKnown(new, page)
BY DEF Pages, SameKnown

(* Showing or hiding elements leaves a page a page that knows what it knew. *)
LEMMA ShowHide ==
  ASSUME NEW page \in Pages
  PROVE  /\ \A e \in Elements :
              /\ Show(page, e) \in Pages /\ SameKnown(Show(page, e), page)
              /\ Show(page, e).shown = page.shown \cup {e}
         /\ \A es :
              /\ Hide(page, es) \in Pages /\ SameKnown(Hide(page, es), page)
              /\ Hide(page, es).shown = page.shown \ es
<1>1. page.shown \in SUBSET Elements  BY DEF Pages
<1>2. ASSUME NEW e \in Elements
      PROVE  /\ Show(page, e) \in Pages /\ SameKnown(Show(page, e), page)
             /\ Show(page, e).shown = page.shown \cup {e}
  <2>1. page.shown \cup {e} \in SUBSET Elements  BY <1>1
  <2>2. Show(page, e) = [page EXCEPT !.shown = page.shown \cup {e}]
    BY DEF Show, Pages
  <2>3. QED  BY <2>1, <2>2, SetShown
<1>3. ASSUME NEW es
      PROVE  /\ Hide(page, es) \in Pages /\ SameKnown(Hide(page, es), page)
             /\ Hide(page, es).shown = page.shown \ es
  <2>1. page.shown \ es \in SUBSET Elements  BY <1>1
  <2>2. Hide(page, es) = [page EXCEPT !.shown = page.shown \ es]
    BY DEF Hide, Pages
  <2>3. QED  BY <2>1, <2>2, SetShown
<1>4. QED  BY <1>2, <1>3

(* The elements are the elements. *)
LEMMA AllElements ==
  Elements = {"join", "lobby", "round", "result", "gameover", "start", "crime",
              "investigation", "waiting", "score", "answer", "guess", "loading",
              "next_turn", "next_round", "restart", "advance"}
BY DEF Elements, Sections, Within

(* A page as it is loaded is one. *)
LEMMA FreshPageOK ==
  FreshPage \in Pages /\ FreshPage.shown = {"join", "guess"}
<1>1. {"join", "guess"} \in SUBSET Elements  BY AllElements
<1>2. QED
  BY <1>1, ScoringAssumption
  DEF FreshPage, Pages, Updates, States, NoPlayer, PlayerIds, NoMap

(* room_update *)
AfterUpdate(p, S, update) ==
  IF update.state # "Lobby" THEN S \ {"start"}
  ELSE IF update.host = p
  THEN (S \ {"round", "result", "gameover"}) \cup {"lobby", "start"}
  ELSE (S \ {"start", "round", "result", "gameover"}) \cup {"lobby"}

(* room_update: the page takes the room as told; in the lobby it brings up  *)
(* the lobby, with the start button for the host.                           *)
LEMMA RoomUpdatePage ==
  ASSUME NEW p, NEW page \in Pages, NEW update \in Updates,
         NEW new, new = OnRoomUpdate(p, page, update)
  PROVE  /\ new \in Pages
         /\ new.room = update /\ new.map = page.map /\ new.role = page.role
         /\ new.detective = page.detective /\ new.attempt = page.attempt
         /\ new.shown = AfterUpdate(p, page.shown, update)
<1> DEFINE S == (page.shown \ {"start"}) \cup
                  Only(update.state = "Lobby" /\ update.host = p, "start")
           known == [page EXCEPT !.room = update, !.shown = S]
<1>1. S \in SUBSET Elements  BY AllElements DEF Pages, Only
<1>2. known = [page EXCEPT !.room = update,
                           !.shown = (@ \ {"start"}) \cup
                              Only(update.state = "Lobby" /\ update.host = p, "start")]
  BY DEF Pages
<1>3. new = IF update.state = "Lobby"
            THEN Show(Hide(known, {"round", "result", "gameover"}), "lobby")
            ELSE known
  BY <1>2 DEF OnRoomUpdate
<1> HIDE DEF S
<1>4. /\ known \in Pages /\ known.room = update /\ known.map = page.map
      /\ known.role = page.role /\ known.detective = page.detective
      /\ known.attempt = page.attempt /\ known.shown = S
  BY <1>1 DEF Pages
<1> HIDE DEF known
<1> DEFINE hid == Hide(known, {"round", "result", "gameover"})
<1>5. /\ hid \in Pages /\ SameKnown(hid, known)
      /\ hid.shown = S \ {"round", "result", "gameover"}
  BY <1>4, ShowHide
<1> HIDE DEF hid
<1>6. /\ Show(hid, "lobby") \in Pages /\ SameKnown(Show(hid, "lobby"), hid)
      /\ Show(hid, "lobby").shown = hid.shown \cup {"lobby"}
  BY <1>5, ShowHide, AllElements
<1>7. /\ update.state # "Lobby" => S = page.shown \ {"start"}
      /\ update.state = "Lobby" =>
           S = IF update.host = p THEN page.shown \cup {"start"}
               ELSE page.shown \ {"start"}
  BY DEF S, Only
<1>8. CASE update.state = "Lobby"
  <2>1. new = Show(hid, "lobby")  BY <1>3, <1>8 DEF hid
  <2>2. /\ new \in Pages /\ SameKnown(new, known)
        /\ new.shown = (S \ {"round", "result", "gameover"}) \cup {"lobby"}
    BY <1>5, <1>6, <2>1 DEF SameKnown
  <2>3. /\ new \in Pages
        /\ new.room = update /\ new.map = page.map /\ new.role = page.role
        /\ new.detective = page.detective /\ new.attempt = page.attempt
    BY <1>4, <2>2 DEF SameKnown
  <2>4. new.shown = AfterUpdate(p, page.shown, update)
    BY <1>7, <1>8, <2>2 DEF AfterUpdate
  <2>5. QED  BY <2>3, <2>4
<1>9. CASE update.state # "Lobby"
  BY <1>3, <1>4, <1>7, <1>9 DEF AfterUpdate
<1>10. QED  BY <1>8, <1>9

(* board_info *)
LEMMA BoardInfoPage ==
  ASSUME NEW page \in Pages, NEW map \in Maps
  PROVE  LET new == OnBoardInfo(page, map)
         IN  /\ new \in Pages /\ new.shown = page.shown /\ new.map = map
             /\ new.room = page.room /\ new.role = page.role
             /\ new.detective = page.detective /\ new.attempt = page.attempt
BY DEF OnBoardInfo, Pages

(* round_start *)
LEMMA RoundStartPage ==
  ASSUME NEW page \in Pages
  PROVE  LET new == OnRoundStart(page)
         IN  /\ new \in Pages /\ SameKnown(new, page)
             /\ new.shown = (page.shown \
                  {"lobby", "result", "crime", "investigation", "advance",
                   "waiting", "score", "answer", "loading"}) \cup {"round"}
<1> DEFINE es == {"lobby", "result", "crime", "investigation", "advance",
                  "waiting", "score", "answer", "loading"}
           hid == Hide(page, es)
<1>1. hid \in Pages /\ SameKnown(hid, page) /\ hid.shown = page.shown \ es
  BY ShowHide
<1>2. OnRoundStart(page) = Show(hid, "round")  BY DEF OnRoundStart
<1> HIDE DEF hid, es
<1>3. /\ Show(hid, "round") \in Pages /\ SameKnown(Show(hid, "round"), hid)
      /\ Show(hid, "round").shown = hid.shown \cup {"round"}
  BY <1>1, ShowHide, AllElements
<1>4. QED  BY <1>1, <1>2, <1>3 DEF SameKnown, es

(* your_role *)
LEMMA YourRolePage ==
  ASSUME NEW page \in Pages, NEW role \in {"criminal", "detective"}
  PROVE  LET new == OnYourRole(page, role)
         IN  /\ new \in Pages /\ new.room = page.room /\ new.map = page.map
             /\ new.role = role
             /\ new.detective = page.detective /\ new.attempt = page.attempt
             /\ new.shown = IF role = "criminal"
                            THEN (page.shown \ {"waiting"}) \cup {"crime"}
                            ELSE (page.shown \ {"crime"}) \cup {"waiting"}
<1> DEFINE cast == [page EXCEPT !.role = role]
<1>1. /\ cast \in Pages /\ cast.room = page.room /\ cast.map = page.map
      /\ cast.role = role /\ cast.shown = page.shown
      /\ cast.detective = page.detective /\ cast.attempt = page.attempt
  BY DEF Pages
<1>2. OnYourRole(page, role) =
        IF role = "criminal" THEN Show(Hide(cast, {"waiting"}), "crime")
        ELSE Show(Hide(cast, {"crime"}), "waiting")
  BY DEF OnYourRole
<1> HIDE DEF cast
<1>3. ASSUME NEW e \in Elements, NEW es
      PROVE  /\ Show(Hide(cast, es), e) \in Pages
             /\ SameKnown(Show(Hide(cast, es), e), cast)
             /\ Show(Hide(cast, es), e).shown = (cast.shown \ es) \cup {e}
  <2> DEFINE hid == Hide(cast, es)
  <2>1. hid \in Pages /\ SameKnown(hid, cast) /\ hid.shown = cast.shown \ es
    BY <1>1, ShowHide
  <2> HIDE DEF hid
  <2>2. /\ Show(hid, e) \in Pages /\ SameKnown(Show(hid, e), hid)
        /\ Show(hid, e).shown = hid.shown \cup {e}
    BY <2>1, ShowHide
  <2>3. QED  BY <2>1, <2>2 DEF SameKnown, hid
<1>4. "crime" \in Elements /\ "waiting" \in Elements  BY AllElements
<1>5. CASE role = "criminal"
  <2>1. OnYourRole(page, role) = Show(Hide(cast, {"waiting"}), "crime")
    BY <1>2, <1>5
  <2>2. QED  BY <1>1, <1>3, <1>4, <1>5, <2>1 DEF SameKnown
<1>6. CASE role # "criminal"
  <2>1. OnYourRole(page, role) = Show(Hide(cast, {"crime"}), "waiting")
    BY <1>2, <1>6
  <2>2. QED  BY <1>1, <1>3, <1>4, <1>6, <2>1 DEF SameKnown
<1>7. QED  BY <1>5, <1>6

(* turn_start *)
LEMMA TurnStartPage ==
  ASSUME NEW p, NEW page \in Pages, NEW detective \in PlayerIds,
         NEW attempt \in Attempts
  PROVE  LET new == OnTurnStart(p, page, detective, attempt)
             S == page.shown \ {"advance", "loading", "crime", "investigation",
                                "waiting"}
         IN  /\ new \in Pages /\ new.room = page.room /\ new.map = page.map
             /\ new.role = page.role
             /\ new.detective = detective /\ new.attempt = attempt
             /\ detective = p => new.shown = S \cup {"investigation", "guess"}
             /\ detective # p => new.shown = S \cup {"waiting"}
<1> DEFINE es == {"advance", "loading", "crime", "investigation", "waiting"}
           turn == [page EXCEPT !.detective = detective, !.attempt = attempt]
           on == Hide(turn, es)
<1>1. /\ turn \in Pages /\ turn.room = page.room /\ turn.map = page.map
      /\ turn.role = page.role /\ turn.shown = page.shown
      /\ turn.detective = detective /\ turn.attempt = attempt
  BY DEF Pages, Attempts
<1>2. OnTurnStart(p, page, detective, attempt) =
        IF detective = p THEN Show(Show(on, "investigation"), "guess")
        ELSE Show(on, "waiting")
  BY DEF OnTurnStart
<1> HIDE DEF turn, es
<1>3. on \in Pages /\ SameKnown(on, turn) /\ on.shown = turn.shown \ es
  BY <1>1, ShowHide
<1> HIDE DEF on
<1>4. \A e \in {"investigation", "waiting"} :
        /\ Show(on, e) \in Pages /\ SameKnown(Show(on, e), on)
        /\ Show(on, e).shown = on.shown \cup {e}
  BY <1>3, ShowHide, AllElements
<1> DEFINE mine == Show(on, "investigation")
<1>5. mine \in Pages  BY <1>4
<1>6. /\ Show(mine, "guess") \in Pages /\ SameKnown(Show(mine, "guess"), mine)
      /\ Show(mine, "guess").shown = mine.shown \cup {"guess"}
  BY <1>5, ShowHide, AllElements
<1>7. CASE detective = p
  BY <1>1, <1>2, <1>3, <1>4, <1>6, <1>7 DEF SameKnown, es
<1>8. CASE detective # p
  BY <1>1, <1>2, <1>3, <1>4, <1>8 DEF SameKnown, es
<1>9. QED  BY <1>7, <1>8

(* guess_pending, and the click that sends a guess off *)
LEMMA GuessPendingPage ==
  ASSUME NEW page \in Pages
  PROVE  LET new == OnGuessPending(page)
         IN  /\ new \in Pages /\ SameKnown(new, page)
             /\ new.shown = (page.shown \ {"guess"}) \cup {"loading"}
<1> DEFINE hid == Hide(page, {"guess"})
<1>1. hid \in Pages /\ SameKnown(hid, page) /\ hid.shown = page.shown \ {"guess"}
  BY ShowHide
<1>2. OnGuessPending(page) = Show(hid, "loading")  BY DEF OnGuessPending
<1> HIDE DEF hid
<1>3. /\ Show(hid, "loading") \in Pages /\ SameKnown(Show(hid, "loading"), hid)
      /\ Show(hid, "loading").shown = hid.shown \cup {"loading"}
  BY <1>1, ShowHide, AllElements
<1>4. QED  BY <1>1, <1>2, <1>3 DEF SameKnown

(* guess_feedback *)
LEMMA GuessFeedbackPage ==
  ASSUME NEW p, NEW page \in Pages, NEW by,
         NEW new, new = OnGuessFeedback(p, page, by)
  PROVE  /\ new \in Pages /\ SameKnown(new, page)
         /\ new.shown \ {"next_turn"} =
              (page.shown \ {"loading", "next_turn"}) \cup {"advance"}
         /\ by = p => "next_turn" \in new.shown
<1> DEFINE S == (page.shown \ {"loading", "next_turn"}) \cup {"advance"}
                  \cup Only(by = p \/ page.room.host = p, "next_turn")
<1>1. S \in SUBSET Elements  BY AllElements DEF Pages, Only
<1>2. new = [page EXCEPT !.shown = S]
  BY DEF OnGuessFeedback, Pages
<1>3. /\ S \ {"next_turn"} = (page.shown \ {"loading", "next_turn"}) \cup {"advance"}
      /\ by = p => "next_turn" \in S
  BY DEF Only
<1> HIDE DEF S
<1>4. new \in Pages /\ new.shown = S /\ SameKnown(new, page)
  BY <1>1, <1>2, SetShown
<1>5. QED  BY <1>3, <1>4

(* round_result *)
LEMMA RoundResultPage ==
  ASSUME NEW p, NEW page \in Pages
  PROVE  LET new == OnRoundResult(p, page)
         IN  /\ new \in Pages /\ SameKnown(new, page)
             /\ new.shown = (page.shown \ {"round", "next_round"}) \cup {"result"}
                              \cup Only(page.room.host = p, "next_round")
<1> DEFINE S == (page.shown \ {"round", "next_round"}) \cup {"result"}
                  \cup Only(page.room.host = p, "next_round")
<1>1. S \in SUBSET Elements  BY AllElements DEF Pages, Only
<1>2. OnRoundResult(p, page) = [page EXCEPT !.shown = S]
  BY DEF OnRoundResult, Pages
<1>3. QED  BY <1>1, <1>2, SetShown

(* game_over *)
LEMMA GameOverPage ==
  ASSUME NEW p, NEW page \in Pages
  PROVE  LET new == OnGameOver(p, page)
         IN  /\ new \in Pages /\ SameKnown(new, page)
             /\ new.shown = (page.shown \ {"result", "restart"}) \cup {"gameover"}
                              \cup Only(page.room.host = p, "restart")
<1> DEFINE S == (page.shown \ {"result", "restart"}) \cup {"gameover"}
                  \cup Only(page.room.host = p, "restart")
<1>1. S \in SUBSET Elements  BY AllElements DEF Pages, Only
<1>2. OnGameOver(p, page) = [page EXCEPT !.shown = S]
  BY DEF OnGameOver, Pages
<1>3. QED  BY <1>1, <1>2, SetShown

(* error *)
LEMMA ErrorPage ==
  ASSUME NEW p, NEW page \in Pages
  PROVE  LET new == OnError(p, page)
         IN  /\ new \in Pages /\ SameKnown(new, page)
             /\ new.shown =
                  IF page.room.state = "Investigation" /\ page.detective = p
                       /\ "loading" \in page.shown
                  THEN (page.shown \ {"loading"}) \cup {"guess"}
                  ELSE page.shown
<1> DEFINE hid == Hide(page, {"loading"})
<1>1. hid \in Pages /\ SameKnown(hid, page) /\ hid.shown = page.shown \ {"loading"}
  BY ShowHide
<1>2. OnError(p, page) =
        IF page.room.state = "Investigation" /\ page.detective = p
             /\ "loading" \in page.shown
        THEN Show(hid, "guess") ELSE page
  BY DEF OnError
<1> HIDE DEF hid
<1>3. /\ Show(hid, "guess") \in Pages /\ SameKnown(Show(hid, "guess"), hid)
      /\ Show(hid, "guess").shown = hid.shown \cup {"guess"}
  BY <1>1, ShowHide, AllElements
<1>4. QED  BY <1>1, <1>2, <1>3 DEF SameKnown

(* game_state_sync of a phase of a round *)
SyncOfRound(sync) ==
  /\ sync.state \in {"CrimeWriting", "AIJudging", "Investigation"}
  /\ sync.role \in {"criminal", "detective"}
  /\ sync.crime_score \in BOOLEAN /\ sync.answer_key \in BOOLEAN
  /\ sync.state = "Investigation" =>
       sync.detective \in PlayerIds /\ sync.attempt \in Attempts

RoundShown(page, sync) ==
  (page.shown \ {"crime", "investigation", "advance", "waiting", "score", "answer",
                 "loading", "lobby", "result", "gameover"}) \cup {"round"}
    \cup Only(sync.crime_score, "score") \cup Only(sync.answer_key, "answer")

RoundSynced(p, page, sync, new) ==
  /\ new \in Pages
  /\ new.room = [page.room EXCEPT !.state = sync.state]
  /\ new.map = page.map /\ new.role = sync.role
  /\ sync.state = "Investigation" =>
       new.detective = sync.detective /\ new.attempt = sync.attempt
  /\ \E e \in {"crime", "investigation", "waiting"} :
       /\ new.shown = RoundShown(page, sync) \cup {e}
       /\ e = "crime" => sync.state = "CrimeWriting" /\ sync.role = "criminal"
       /\ e = "investigation" <=>
            sync.state = "Investigation" /\ sync.detective = p

(* game_state_sync in a round: the page knows the round and shows the boxes *)
(* that belong to its player and phase, and no others.                      *)
LEMMA RoundSyncPage ==
  ASSUME NEW p, NEW page \in Pages, NEW sync, SyncOfRound(sync),
         NEW new, new = OnGameStateSync(p, page, sync)
  PROVE  RoundSynced(p, page, sync, new)
<1> DEFINE boxes == {"crime", "investigation", "advance", "waiting", "score",
                     "answer", "loading"}
           told0 == [page EXCEPT !.room.state = sync.state, !.role = sync.role]
           known == Hide(told0, boxes)
           bare == Hide(known, {"lobby", "result", "gameover"})
           on == Show(bare, "round")
           S == on.shown \cup Only(sync.crime_score, "score")
                         \cup Only(sync.answer_key, "answer")
           told == [on EXCEPT !.shown = S]
           turn == [told EXCEPT !.detective = sync.detective, !.attempt = sync.attempt]
<1>1. /\ told0 \in Pages /\ told0.room = [page.room EXCEPT !.state = sync.state]
      /\ told0.map = page.map /\ told0.role = sync.role /\ told0.shown = page.shown
  BY DEF Pages, Updates, States, SyncOfRound
<1>2. new = IF sync.state = "CrimeWriting" /\ sync.role = "criminal"
            THEN Show(told, "crime")
            ELSE IF sync.state = "Investigation"
            THEN Show(turn, IF sync.detective = p THEN "investigation" ELSE "waiting")
            ELSE Show(told, "waiting")
  BY DEF OnGameStateSync, SyncOfRound
<1> HIDE DEF told0
<1>3. known \in Pages /\ SameKnown(known, told0) /\ known.shown = told0.shown \ boxes
  BY <1>1, ShowHide
<1> HIDE DEF known
<1>4. /\ bare \in Pages /\ SameKnown(bare, known)
      /\ bare.shown = known.shown \ {"lobby", "result", "gameover"}
  BY <1>3, ShowHide
<1> HIDE DEF bare
<1>5. on \in Pages /\ SameKnown(on, bare) /\ on.shown = bare.shown \cup {"round"}
  BY <1>4, ShowHide, AllElements
<1> HIDE DEF on
<1>6. S \in SUBSET Elements  BY <1>5, AllElements DEF Pages, Only
<1>7. told \in Pages /\ told.shown = S /\ SameKnown(told, on)
  BY <1>5, <1>6, SetShown
<1>8. S = RoundShown(page, sync)
  BY <1>1, <1>3, <1>4, <1>5 DEF RoundShown
<1> HIDE DEF told, S
<1>9. CASE sync.state # "Investigation"
  <2>1. PICK e \in {"crime", "waiting"} :
          /\ new = Show(told, e)
          /\ e = "crime" => sync.state = "CrimeWriting" /\ sync.role = "criminal"
    BY <1>2, <1>9
  <2>2. /\ Show(told, e) \in Pages /\ SameKnown(Show(told, e), told)
        /\ Show(told, e).shown = told.shown \cup {e}
    BY <1>7, ShowHide, AllElements
  <2>3. QED
    BY <1>1, <1>3, <1>4, <1>5, <1>7, <1>8, <1>9, <2>1, <2>2
    DEF SameKnown, RoundSynced
<1>10. CASE sync.state = "Investigation"
  <2>1. /\ turn \in Pages /\ turn.shown = told.shown /\ turn.room = told.room
        /\ turn.map = told.map /\ turn.role = told.role
        /\ turn.detective = sync.detective /\ turn.attempt = sync.attempt
    BY <1>7, <1>10 DEF Pages, SyncOfRound, Attempts
  <2> HIDE DEF turn
  <2>2. PICK e \in {"investigation", "waiting"} :
          /\ new = Show(turn, e)
          /\ e = "investigation" <=> sync.detective = p
    BY <1>2, <1>10
  <2>3. /\ Show(turn, e) \in Pages /\ SameKnown(Show(turn, e), turn)
        /\ Show(turn, e).shown = turn.shown \cup {e}
    BY <2>1, ShowHide, AllElements
  <2>4. QED
    BY <1>1, <1>3, <1>4, <1>5, <1>7, <1>8, <1>10, <2>1, <2>2, <2>3
    DEF SameKnown, RoundSynced
<1>11. QED  BY <1>9, <1>10

(* game_state_sync between rounds *)
SyncOfBreak(sync) ==
  /\ sync.state \in {"Lobby", "NextRound", "GameOver"}
  /\ sync.role \in {"none", "criminal", "detective"}

BreakShown(p, page, sync) ==
  LET S == page.shown \ {"crime", "investigation", "advance", "waiting", "score",
                         "answer", "loading"}
  IN  IF sync.state = "NextRound"
      THEN (S \ {"lobby", "gameover", "round", "next_round"})
             \cup {"result"} \cup Only(page.room.host = p, "next_round")
      ELSE S

(* game_state_sync outside a round: between rounds it brings up the result, *)
(* otherwise it shows nothing new.                                          *)
LEMMA BreakSyncPage ==
  ASSUME NEW p, NEW page \in Pages, NEW sync, SyncOfBreak(sync),
         NEW new, new = OnGameStateSync(p, page, sync)
  PROVE  /\ new \in Pages
         /\ new.room = [page.room EXCEPT !.state = sync.state]
         /\ new.map = page.map
         /\ new.shown = BreakShown(p, page, sync)
<1> DEFINE boxes == {"crime", "investigation", "advance", "waiting", "score",
                     "answer", "loading"}
           told0 == [page EXCEPT !.room.state = sync.state, !.role = sync.role]
           known == Hide(told0, boxes)
           bare == Hide(known, {"lobby", "gameover"})
<1>1. /\ told0 \in Pages /\ told0.room = [page.room EXCEPT !.state = sync.state]
      /\ told0.map = page.map /\ told0.shown = page.shown
      /\ told0.room.host = page.room.host
  BY DEF Pages, Updates, States, SyncOfBreak
<1>2. new =
        IF sync.state = "NextRound" THEN OnRoundResult(p, bare) ELSE known
  BY DEF OnGameStateSync, SyncOfBreak
<1> HIDE DEF told0
<1>3. known \in Pages /\ SameKnown(known, told0) /\ known.shown = told0.shown \ boxes
  BY <1>1, ShowHide
<1> HIDE DEF known
<1>4. /\ bare \in Pages /\ SameKnown(bare, known)
      /\ bare.shown = known.shown \ {"lobby", "gameover"}
  BY <1>3, ShowHide
<1> HIDE DEF bare
<1>5. LET result == OnRoundResult(p, bare)
      IN  /\ result \in Pages /\ SameKnown(result, bare)
          /\ result.shown = (bare.shown \ {"round", "next_round"}) \cup {"result"}
                           \cup Only(bare.room.host = p, "next_round")
  BY <1>4, RoundResultPage
<1>6. CASE sync.state = "NextRound"
  BY <1>1, <1>2, <1>3, <1>4, <1>5, <1>6 DEF SameKnown, BreakShown
<1>7. CASE sync.state # "NextRound"
  BY <1>1, <1>2, <1>3, <1>7 DEF SameKnown, BreakShown
<1>8. QED  BY <1>6, <1>7

-----------------------------------------------------------------------------
(* What the messages of one handler of the room, taken together, make of a  *)
(* page.                                                                    *)

(* What the room says of itself is an update.                               *)
LEMMA UpdateType ==
  ASSUME TypeOK'  PROVE  RoomUpdate' \in Updates
BY DEF TypeOK, RoomUpdate, Updates

(* room_update, sent of the room as the handler leaves it *)
LEMMA UpdatedPage ==
  ASSUME TypeOK', NEW q, NEW page \in Pages, NEW new, new = Updated(q, page)
  PROVE  /\ new \in Pages /\ new.room = RoomUpdate' /\ new.map = page.map
         /\ new.role = page.role
         /\ new.detective = page.detective /\ new.attempt = page.attempt
         /\ state' # "Lobby" => new.shown = page.shown \ {"start"}
         /\ state' = "Lobby" /\ q = host_id' =>
              new.shown = (page.shown \ {"round", "result", "gameover"})
                            \cup {"lobby", "start"}
         /\ state' = "Lobby" /\ q # host_id' =>
              new.shown = (page.shown \ {"start", "round", "result", "gameover"})
                            \cup {"lobby"}
<1> DEFINE update == RoomUpdate'
<1>1. update \in Updates  BY UpdateType
<1>2. update.state = state' /\ update.host = host_id'  BY DEF RoomUpdate
<1>3. new = OnRoomUpdate(q, page, update)  BY DEF Updated
<1> HIDE DEF update
<1>4. /\ new \in Pages /\ new.room = update /\ new.map = page.map
      /\ new.role = page.role
      /\ new.detective = page.detective /\ new.attempt = page.attempt
      /\ new.shown = AfterUpdate(q, page.shown, update)
  BY <1>1, <1>3, RoomUpdatePage
<1>5. QED  BY <1>2, <1>4 DEF AfterUpdate, update

(* Deliver settles the page of everybody, if it settles those of who is     *)
(* connected.                                                               *)
LEMMA Delivered ==
  ASSUME TypeOK', NEW pages, Deliver(pages),
         \A q \in connected' :
           client'[q] = pages[q] => client'[q] \in Pages /\ PageOK(q)'
  PROVE  /\ client' \in [PlayerIds -> Pages]
         /\ \A q \in connected' : PageOK(q)'
         /\ \A q \in PlayerIds \ connected' : client'[q] = FreshPage
<1>1. client' = [q \in PlayerIds |-> IF q \in connected' THEN pages[q] ELSE FreshPage]
  BY DEF Deliver
<1>2. connected' \subseteq PlayerIds  BY DEF TypeOK
<1>3. \A q \in connected' : client'[q] = pages[q]  BY <1>1, <1>2
<1>4. \A q \in PlayerIds \ connected' : client'[q] = FreshPage  BY <1>1
<1>5. \A q \in connected' : client'[q] \in Pages /\ PageOK(q)'  BY <1>3
<1>6. \A q \in PlayerIds : client'[q] \in Pages
  BY <1>4, <1>5, FreshPageOK
<1>7. client' \in [PlayerIds -> Pages]  BY <1>1, <1>6
<1>8. QED  BY <1>4, <1>5, <1>7

(* A round starts: its messages leave the writing of the crime to the       *)
(* criminal and nothing of what was shown before.                           *)
LEMMA StartedPage ==
  ASSUME TypeOK', NEW q, NEW page \in Pages,
         client'[q] = RoundStarted(q, page), state' = "CrimeWriting",
         page.map = selected_map',
         "join" \notin page.shown, "gameover" \notin page.shown
  PROVE  client'[q] \in Pages /\ PageOK(q)'
<1> DEFINE begun == OnRoundStart(page)
           cast == OnYourRole(begun, Role(q)')
           S == (page.shown \ {"lobby", "result", "crime", "investigation", "advance",
                               "waiting", "score", "answer", "loading"}) \cup {"round"}
<1>1. begun \in Pages /\ SameKnown(begun, page) /\ begun.shown = S
  BY RoundStartPage
<1>2. Role(q)' \in {"criminal", "detective"}
      /\ (Role(q)' = "criminal" <=> q = criminal_id')
  BY DEF Role
<1> HIDE DEF begun
<1>3. /\ cast \in Pages /\ cast.map = page.map /\ cast.role = Role(q)'
      /\ cast.shown = IF Role(q)' = "criminal"
                      THEN (S \ {"waiting"}) \cup {"crime"}
                      ELSE (S \ {"crime"}) \cup {"waiting"}
  <2> DEFINE role == Role(q)'
  <2> HIDE DEF S, role
  <2>1. role \in {"criminal", "detective"}  BY <1>2 DEF role
  <2>2. begun \in Pages /\ begun.shown = S /\ begun.map = page.map
    BY <1>1 DEF SameKnown
  <2>3. LET new == OnYourRole(begun, role)
        IN  /\ new \in Pages /\ new.map = begun.map /\ new.role = role
            /\ new.shown = IF role = "criminal"
                           THEN (begun.shown \ {"waiting"}) \cup {"crime"}
                           ELSE (begun.shown \ {"crime"}) \cup {"waiting"}
    BY <2>1, <2>2, YourRolePage, ZenonT(10)
  <2>4. QED  BY <2>2, <2>3 DEF role
<1>4. client'[q] = Updated(q, cast)  BY DEF RoundStarted, begun
<1> HIDE DEF cast
<1>6. /\ client'[q] \in Pages /\ client'[q].room = RoomUpdate'
      /\ client'[q].map = selected_map' /\ client'[q].role = Role(q)'
      /\ client'[q].shown = cast.shown \ {"start"}
  BY <1>3, <1>4, UpdatedPage
<1>7. KnownOK(q)'  BY <1>6 DEF KnownOK
<1>8. SectionsOK(q)' /\ HostButtonsOK(q)' /\ PreparationOK(q)' /\ TurnOK(q)'
  BY <1>2, <1>3, <1>6
  DEF SectionsOK, HostButtonsOK, PreparationOK, TurnOK, RoundInProgress
<1>9. QED  BY <1>6, <1>7, <1>8 DEF PageOK, ShownOK

(* A round is over: the result, or the end of the game, and the button for  *)
(* whom the page took for the host.                                         *)
LEMMA FinishedPage ==
  ASSUME TypeOK', NEW q, NEW page \in Pages,
         client'[q] = RoundFinished(q, page), state' \in {"NextRound", "GameOver"},
         page.map = selected_map',
         page.room.host = q => q = host_id',
         Undisturbed' => page.room.host = host_id',
         "join" \notin page.shown, "lobby" \notin page.shown,
         "gameover" \notin page.shown
  PROVE  client'[q] \in Pages /\ PageOK(q)'
<1> DEFINE result == OnRoundResult(q, page)
           over == OnGameOver(q, result)
           last == IF state' = "GameOver" THEN over ELSE result
<1>1. /\ result \in Pages /\ SameKnown(result, page)
      /\ result.shown = (page.shown \ {"round", "next_round"}) \cup {"result"}
                          \cup Only(page.room.host = q, "next_round")
  BY RoundResultPage
<1>2. client'[q] = Updated(q, last)  BY DEF RoundFinished
<1> HIDE DEF result
<1>3. /\ over \in Pages /\ SameKnown(over, result)
      /\ over.shown = (result.shown \ {"result", "restart"}) \cup {"gameover"}
                        \cup Only(result.room.host = q, "restart")
  BY <1>1, GameOverPage
<1> HIDE DEF over
<1>4. last \in Pages /\ last.map = selected_map'
  BY <1>1, <1>3 DEF SameKnown
<1> HIDE DEF last
<1>6. /\ client'[q] \in Pages /\ client'[q].room = RoomUpdate'
      /\ client'[q].map = selected_map'
      /\ client'[q].shown = last.shown \ {"start"}
  BY <1>2, <1>4, UpdatedPage
<1>7. KnownOK(q)'  BY <1>6 DEF KnownOK, RoundInProgress
<1>8. CASE state' = "NextRound"
  <2>1. last.shown = result.shown  BY <1>8 DEF last
  <2>2. QED
    BY <1>1, <1>6, <1>7, <1>8, <2>1
    DEF PageOK, ShownOK, SectionsOK, HostButtonsOK, PreparationOK, TurnOK,
        RoundInProgress, Only
<1>9. CASE state' = "GameOver"
  <2>1. last.shown = over.shown /\ result.room.host = page.room.host
    BY <1>1, <1>9 DEF last, SameKnown
  <2>2. QED
    BY <1>1, <1>3, <1>6, <1>7, <1>9, <2>1
    DEF PageOK, ShownOK, SectionsOK, HostButtonsOK, PreparationOK, TurnOK,
        RoundInProgress, Only
<1>10. QED  BY <1>8, <1>9

(* A turn opens: the detective has the form, nobody has an answer to press  *)
(* on from.                                                                 *)
LEMMA TurnPage ==
  ASSUME TypeOK', NEW q, NEW page \in Pages,
         client'[q] = Updated(q, OnTurnStart(q, page, current_detective',
                                 attempts_used'[current_detective'] + 1)),
         state' = "Investigation", current_detective' \in PlayerIds, ~awaiting_advance',
         page.map = selected_map', page.role = Role(q)',
         page.shown \cap {"join", "lobby", "result", "gameover"} = {},
         "round" \in page.shown, "score" \in page.shown,
         "answer" \in page.shown <=> q = criminal_id'
  PROVE  client'[q] \in Pages /\ PageOK(q)'
<1> DEFINE cd == current_detective'
           n == attempts_used'[cd] + 1
           turn == OnTurnStart(q, page, cd, n)
           S == page.shown \ {"advance", "loading", "crime", "investigation", "waiting"}
<1>1. n \in Attempts
  <2>1. attempts_used'[cd] \in 0..MaxAttempts  BY DEF TypeOK
  <2>2. QED  BY <2>1, ScoringAssumption DEF Attempts
<1>2. /\ turn \in Pages /\ turn.map = page.map /\ turn.role = page.role
      /\ turn.detective = cd /\ turn.attempt = n
      /\ cd = q => turn.shown = S \cup {"investigation", "guess"}
      /\ cd # q => turn.shown = S \cup {"waiting"}
  <2>1. cd \in PlayerIds  OBVIOUS
  <2> HIDE DEF n, cd
  <2>2. QED  BY ONLY page \in Pages, <1>1, <2>1, TurnStartPage
<1>3. client'[q] = Updated(q, turn)  OBVIOUS
<1> HIDE DEF turn
<1>4. turn \in Pages  BY <1>2
<1>5. /\ client'[q] \in Pages /\ client'[q].room = RoomUpdate'
      /\ client'[q].map = selected_map' /\ client'[q].role = Role(q)'
      /\ client'[q].detective = cd /\ client'[q].attempt = n
      /\ client'[q].shown = turn.shown \ {"start"}
  BY <1>2, <1>3, <1>4, UpdatedPage
<1>6. KnownOK(q)'  BY <1>5 DEF KnownOK
<1>7. SectionsOK(q)' /\ HostButtonsOK(q)' /\ PreparationOK(q)' /\ TurnOK(q)'
  BY <1>2, <1>5
  DEF SectionsOK, HostButtonsOK, PreparationOK, TurnOK, RoundInProgress
<1>8. QED  BY <1>5, <1>6, <1>7 DEF PageOK, ShownOK

(* The next turn, or the end of the round. *)
LEMMA BegunPage ==
  ASSUME TypeOK', NEW q, NEW page \in Pages,
         client'[q] = TurnBegun(q, page),
         state' \in {"Investigation", "NextRound", "GameOver"},
         state' = "Investigation" =>
           /\ current_detective' \in PlayerIds /\ ~awaiting_advance'
           /\ page.role = Role(q)',
         page.map = selected_map',
         page.room.host = q => q = host_id',
         Undisturbed' => page.room.host = host_id',
         page.shown \cap {"join", "lobby", "result", "gameover"} = {},
         "round" \in page.shown, "score" \in page.shown,
         "answer" \in page.shown <=> q = criminal_id'
  PROVE  client'[q] \in Pages /\ PageOK(q)'
<1>1. CASE state' = "Investigation"
  BY <1>1, TurnPage DEF TurnBegun
<1>2. CASE state' # "Investigation"
  BY <1>2, FinishedPage DEF TurnBegun
<1>3. QED  BY <1>1, <1>2

-----------------------------------------------------------------------------
(* Steps that leave the phase and the turn alone. *)

(* A page on which nothing but the button to start has come or gone. *)
LEMMA QuietShown ==
  ASSUME NEW q, ShownOK(q),
         client'[q].shown \ {"start"} = client[q].shown \ {"start"},
         "start" \in client'[q].shown <=> state' = "Lobby" /\ q = host_id',
         state' = state \/ (state = "CrimeWriting" /\ state' = "AIJudging"),
         state' = "Investigation" => sent'[q] = sent[q],
         UNCHANGED <<criminal_id, current_detective, awaiting_advance>>,
         q = current_detective => guess_in_flight' = guess_in_flight,
         evicted \subseteq evicted', rejoins' = 0 => rejoins = 0,
         state \in {"NextRound", "GameOver"} =>
           /\ q = host_id => q = host_id'
           /\ Undisturbed' => Undisturbed /\ host_id' = host_id
  PROVE  ShownOK(q)'
<1> DEFINE S == client[q].shown
           T == client'[q].shown
<1>1. \A e : e # "start" => (e \in T <=> e \in S)  OBVIOUS
<1>2. SectionsOK(q)'
  <2>1. SectionsOK(q)  BY DEF ShownOK
  <2>2. QED  BY <1>1, <2>1 DEF SectionsOK, RoundInProgress
<1>3. HostButtonsOK(q)'
  <2>1. HostButtonsOK(q)  BY DEF ShownOK
  <2>2. CASE state \in {"NextRound", "GameOver"}
    BY <1>1, <2>1, <2>2 DEF HostButtonsOK
  <2>3. CASE state \notin {"NextRound", "GameOver"}
    BY <2>3 DEF HostButtonsOK
  <2>4. QED  BY <2>2, <2>3
<1>4. PreparationOK(q)'
  <2>1. PreparationOK(q)  BY DEF ShownOK
  <2>2. QED  BY <1>1, <2>1 DEF PreparationOK
<1>5. TurnOK(q)'
  <2>1. TurnOK(q)  BY DEF ShownOK
  <2>2. QED  BY <1>1, <2>1 DEF TurnOK
<1>6. QED  BY <1>2, <1>3, <1>4, <1>5 DEF ShownOK

(* What a page knows stays true. *)
LEMMA QuietKnown ==
  ASSUME NEW q, KnownOK(q),
         client'[q].room = RoomUpdate', client'[q].map = selected_map',
         client'[q].role = client[q].role,
         client'[q].detective = client[q].detective,
         client'[q].attempt = client[q].attempt,
         state' = state \/ (state = "CrimeWriting" /\ state' = "AIJudging"),
         UNCHANGED <<criminal_id, current_detective>>,
         ~awaiting_advance' => ~awaiting_advance /\ UNCHANGED attempts_used
  PROVE  KnownOK(q)'
BY DEF KnownOK, RoundInProgress, Role

(* A room_update, sent after a step that leaves phase and turn alone. *)
LEMMA QuietPage ==
  ASSUME TypeOK', NEW q, client[q] \in Pages, PageOK(q),
         client'[q] = Updated(q, client[q]), selected_map' = selected_map,
         state' = state \/ (state = "CrimeWriting" /\ state' = "AIJudging"),
         state' = "Investigation" => sent'[q] = sent[q],
         UNCHANGED <<criminal_id, current_detective, awaiting_advance,
                     guess_in_flight, attempts_used>>,
         evicted \subseteq evicted', rejoins' = 0 => rejoins = 0,
         state \in {"NextRound", "GameOver"} =>
           /\ q = host_id => q = host_id'
           /\ Undisturbed' => Undisturbed /\ host_id' = host_id
  PROVE  client'[q] \in Pages /\ PageOK(q)'
<1>1. KnownOK(q) /\ ShownOK(q) /\ SectionsOK(q) /\ HostButtonsOK(q)
  BY DEF PageOK, ShownOK
<1>2. /\ client'[q] \in Pages /\ client'[q].room = RoomUpdate'
      /\ client'[q].map = client[q].map /\ client'[q].role = client[q].role
      /\ client'[q].detective = client[q].detective
      /\ client'[q].attempt = client[q].attempt
      /\ state' # "Lobby" => client'[q].shown = client[q].shown \ {"start"}
      /\ state' = "Lobby" /\ q = host_id' =>
           client'[q].shown = (client[q].shown \ {"round", "result", "gameover"})
                                \cup {"lobby", "start"}
      /\ state' = "Lobby" /\ q # host_id' =>
           client'[q].shown =
             (client[q].shown \ {"start", "round", "result", "gameover"})
               \cup {"lobby"}
  BY UpdatedPage
<1>3. /\ client'[q].shown \ {"start"} = client[q].shown \ {"start"}
      /\ "start" \in client'[q].shown <=> state' = "Lobby" /\ q = host_id'
  <2>1. CASE state' # "Lobby"  BY <1>2, <2>1
  <2>2. CASE state' = "Lobby"
    <3>1. /\ "lobby" \in client[q].shown
          /\ client[q].shown \cap {"round", "result", "gameover"} = {}
      BY <1>1, <2>2 DEF SectionsOK, RoundInProgress
    <3>2. CASE q = host_id'  BY <1>2, <2>2, <3>1, <3>2
    <3>3. CASE q # host_id'  BY <1>2, <2>2, <3>1, <3>3
    <3>4. QED  BY <3>2, <3>3
  <2>3. QED  BY <2>1, <2>2
<1>4. ShownOK(q)'  BY <1>1, <1>3, QuietShown
<1>5. client'[q].map = selected_map'  BY <1>1, <1>2 DEF KnownOK
<1>6. KnownOK(q)'  BY <1>1, <1>2, <1>5, QuietKnown
<1>7. QED  BY <1>2, <1>4, <1>6 DEF PageOK

(* A page that is told nothing, or nothing that changes what is said above, *)
(* in a step that leaves all of it alone.                                   *)
LEMMA SamePage ==
  ASSUME NEW q, PageOK(q), client'[q].shown = client[q].shown,
         client'[q].map = selected_map', client'[q].room = client[q].room,
         client'[q].role = client[q].role,
         client'[q].detective = client[q].detective,
         client'[q].attempt = client[q].attempt,
         UNCHANGED <<alive, state, rosterVars, has_been_criminal, criminal_id,
                     current_detective, awaiting_advance, attempts_used>>,
         q = current_detective =>
           guess_in_flight' = guess_in_flight /\ sent'[q] = sent[q],
         state' = "Investigation" => sent'[q] = sent[q],
         UNCHANGED <<evicted, rejoins>>
  PROVE  PageOK(q)'
<1>1. /\ state' = state /\ host_id' = host_id /\ players' = players
      /\ connected' = connected /\ Undisturbed' = Undisturbed
      /\ RoomUpdate' = RoomUpdate
  BY DEF rosterVars, Undisturbed, RoomUpdate
<1>2. KnownOK(q) /\ ShownOK(q) /\ HostButtonsOK(q)  BY DEF PageOK, ShownOK
<1>3. KnownOK(q)'
  <2>1. client'[q].room = RoomUpdate'  BY <1>1, <1>2 DEF KnownOK
  <2>2. QED  BY <1>1, <1>2, <2>1, QuietKnown
<1>4. "start" \in client'[q].shown <=> state' = "Lobby" /\ q = host_id'
  BY <1>1, <1>2 DEF HostButtonsOK
<1>5. ShownOK(q)'  BY <1>1, <1>2, <1>4, QuietShown
<1>6. QED  BY <1>3, <1>5 DEF PageOK

-----------------------------------------------------------------------------
(* The steps, one by one. *)

(* What ClientTypeOK says of the rest than the pages. *)
FormsOK ==
  /\ sent \in [PlayerIds -> {"none", "submit_crime", "submit_guess"}]
  /\ evicted \subseteq PlayerIds
  /\ rejoins \in 0..MaxRejoins
  /\ \A p \in PlayerIds \ connected : sent[p] = "none"

(* A step that at most takes one form off its way, and unseats nobody,      *)
(* keeps the types of the forms.                                            *)
LEMMA FormsKept ==
  ASSUME ClientTypeOK, NEW p,
         sent' = sent \/ sent' = [sent EXCEPT ![p] = "none"],
         connected \subseteq connected', UNCHANGED <<evicted, rejoins>>
  PROVE  FormsOK'
BY DEF ClientTypeOK, FormsOK

(* What the invariant says of a page to be sent to. *)
LEMMA KnownPages ==
  ASSUME ClientInv
  PROVE  /\ RoomInv /\ TypeOK /\ StageOK /\ ClientTypeOK
         /\ connected \subseteq PlayerIds
         /\ \A q \in connected :
              /\ client[q] \in Pages
              /\ PageOK(q) /\ KnownOK(q) /\ ShownOK(q)
              /\ SectionsOK(q) /\ HostButtonsOK(q) /\ PreparationOK(q) /\ TurnOK(q)
              /\ client[q].room = RoomUpdate /\ client[q].map = selected_map
              /\ client[q].room.host = host_id
<1>1. RoomInv /\ TypeOK /\ StageOK /\ ClientTypeOK /\ connected \subseteq PlayerIds
  BY DEF ClientInv, ShownRoom, RoomInv, TypeOK
<1>2. ASSUME NEW q \in connected
      PROVE  /\ client[q] \in Pages
             /\ PageOK(q) /\ KnownOK(q) /\ ShownOK(q)
             /\ client[q].room = RoomUpdate /\ client[q].map = selected_map
  BY <1>1 DEF ClientInv, ClientTypeOK, PageOK, KnownOK
<1>3. RoomUpdate.host = host_id  BY DEF RoomUpdate
<1>4. QED  BY <1>1, <1>2, <1>3 DEF ShownOK

(* A series of messages that leaves each connected player's page as it      *)
(* should be keeps the invariant.                                           *)
LEMMA DeliveredInv ==
  ASSUME ShownRoom', FormsOK', NEW pages, Deliver(pages),
         \A q \in connected' :
           client'[q] = pages[q] => client'[q] \in Pages /\ PageOK(q)'
  PROVE  ClientInv'
<1>1. TypeOK'  BY DEF ShownRoom, RoomInv
<1>2. /\ client' \in [PlayerIds -> Pages]
      /\ \A q \in connected' : PageOK(q)'
      /\ \A q \in PlayerIds \ connected' : client'[q] = FreshPage
  BY <1>1, Delivered
<1>3. QED  BY <1>2 DEF ClientInv, ClientTypeOK, FormsOK

(* join_room: the newcomer is told all, the others are told of the          *)
(* newcomer.                                                                *)
LEMMA JoinPages ==
  ASSUME ClientInv, ShownRoom', Join  PROVE  ClientInv'
<1> DEFINE pages == [p \in PlayerIds |->
             IF p = next_player_id THEN Snapshot(p, OnJoined(FreshPage))
             ELSE Updated(p, client[p])]
<1>1. /\ TypeOK' /\ connected' \subseteq PlayerIds
      /\ Deliver(pages) /\ UNCHANGED <<sent, evicted, rejoins>>
  BY DEF ShownRoom, RoomInv, TypeOK, Join
<1>2. /\ connected' = connected \cup {next_player_id}
      /\ state = "Lobby" /\ state' = "Lobby"
      /\ UNCHANGED <<selected_map, criminal_id, current_detective, awaiting_advance,
                     guess_in_flight, attempts_used>>
  BY DEF Join, HandleJoin, gameVars, turnVars
<1>3. FormsOK'  BY <1>1, <1>2, KnownPages, FormsKept
<1>4. ASSUME NEW q \in connected', client'[q] = pages[q], q # next_player_id
      PROVE  client'[q] \in Pages /\ PageOK(q)'
  <2>1. client'[q] = Updated(q, client[q])  BY <1>1, <1>4
  <2>2. client[q] \in Pages /\ PageOK(q)  BY <1>2, <1>4, KnownPages
  <2>3. QED  BY <1>1, <1>2, <2>1, <2>2, QuietPage
<1>5. ASSUME NEW q \in connected', client'[q] = pages[q], q = next_player_id
      PROVE  client'[q] \in Pages /\ PageOK(q)'
  <2> DEFINE hid == Hide(FreshPage, {"join"})
             joined == OnJoined(FreshPage)
             told == Updated(q, joined)
  <2>1. hid \in Pages /\ hid.shown = {"guess"}
    BY FreshPageOK, ShowHide
  <2>2. joined = Show(hid, "lobby")  BY DEF OnJoined
  <2> HIDE DEF hid, joined
  <2>3. joined \in Pages /\ joined.shown = {"guess", "lobby"}
    BY <2>1, <2>2, ShowHide, AllElements
  <2>4. client'[q] = OnBoardInfo(told, selected_map')
    BY <1>1, <1>5 DEF Snapshot, joined
  <2> HIDE DEF told
  <2>5. /\ told \in Pages /\ told.room = RoomUpdate'
        /\ q = host_id' => told.shown = {"guess", "lobby", "start"}
        /\ q # host_id' => told.shown = {"guess", "lobby"}
    <3>1. told = Updated(q, joined)  BY DEF told
    <3>2. /\ told \in Pages /\ told.room = RoomUpdate'
          /\ q = host_id' =>
               told.shown = (joined.shown \ {"round", "result", "gameover"})
                              \cup {"lobby", "start"}
          /\ q # host_id' =>
               told.shown = (joined.shown \ {"start", "round", "result", "gameover"})
                              \cup {"lobby"}
      BY <1>1, <1>2, <2>3, <3>1, UpdatedPage
    <3>3. QED  BY <2>3, <3>2
  <2>6. selected_map' \in Maps  BY <1>1 DEF TypeOK
  <2>7. /\ client'[q] \in Pages /\ client'[q].room = RoomUpdate'
        /\ client'[q].map = selected_map' /\ client'[q].shown = told.shown
    BY <2>4, <2>5, <2>6, BoardInfoPage
  <2>8. KnownOK(q)'  BY <1>2, <2>7 DEF KnownOK, RoundInProgress
  <2>9. ShownOK(q)'
    BY <1>2, <2>5, <2>7
    DEF ShownOK, SectionsOK, HostButtonsOK, PreparationOK, TurnOK, RoundInProgress
  <2>10. QED  BY <2>7, <2>8, <2>9 DEF PageOK
<1>6. \A q \in connected' :
        client'[q] = pages[q] => client'[q] \in Pages /\ PageOK(q)'
  BY <1>4, <1>5
<1> HIDE DEF pages
<1>7. QED  BY <1>1, <1>3, <1>6, DeliveredInv

(* select_map tells everybody the new map.                                  *)
LEMMA SelectMapPages ==
  ASSUME ClientInv, ShownRoom', NEW p, SelectMap(p)  PROVE  ClientInv'
<1> DEFINE pages == [q \in PlayerIds |-> OnBoardInfo(client[q], selected_map')]
<1>1. TypeOK'  BY DEF ShownRoom, RoomInv
<1>2. /\ Deliver(pages) /\ UNCHANGED <<sent, evicted, rejoins>>
      /\ UNCHANGED <<alive, state, rosterVars, gameVars, scoreVars, turnVars>>
  BY DEF SelectMap, HandleSelectMap
<1>3. /\ connected' = connected /\ has_been_criminal' = has_been_criminal
      /\ UNCHANGED <<criminal_id, current_detective, awaiting_advance,
                     attempts_used, guess_in_flight>>
  BY <1>2 DEF rosterVars, gameVars, scoreVars, turnVars
<1>4. FormsOK'  BY <1>2, <1>3, KnownPages, FormsKept
<1>5. ASSUME NEW q \in connected', client'[q] = pages[q]
      PROVE  client'[q] \in Pages /\ PageOK(q)'
  <2>1. q \in PlayerIds /\ client[q] \in Pages /\ PageOK(q)
    BY <1>3, KnownPages
  <2>2. client'[q] = OnBoardInfo(client[q], selected_map')  BY <1>5, <2>1
  <2>3. selected_map' \in Maps  BY <1>1 DEF TypeOK
  <2>4. /\ client'[q] \in Pages /\ client'[q].shown = client[q].shown
        /\ client'[q].map = selected_map' /\ client'[q].room = client[q].room
        /\ client'[q].role = client[q].role
        /\ client'[q].detective = client[q].detective
        /\ client'[q].attempt = client[q].attempt
    BY <2>1, <2>2, <2>3, BoardInfoPage
  <2>5. QED  BY <1>2, <1>3, <2>1, <2>4, SamePage
<1> HIDE DEF pages
<1>6. QED  BY <1>2, <1>4, <1>5, DeliveredInv

(* start_game begins the first round on every page.                         *)
LEMMA StartGamePages ==
  ASSUME ClientInv, ShownRoom', NEW p, StartGame(p)  PROVE  ClientInv'
<1> DEFINE pages == [q \in PlayerIds |->
             RoundStarted(q, OnBoardInfo(client[q], selected_map'))]
<1>1. TypeOK' /\ selected_map' \in Maps  BY DEF ShownRoom, RoomInv, TypeOK
<1>2. /\ Deliver(pages) /\ UNCHANGED <<sent, evicted, rejoins>>
      /\ connected' = connected
      /\ state = "Lobby" /\ state' = "CrimeWriting"
  BY DEF StartGame, HandleStartGame, StartRound, rosterVars
<1>3. FormsOK'  BY <1>2, KnownPages, FormsKept
<1>4. ASSUME NEW q \in connected', client'[q] = pages[q]
      PROVE  client'[q] \in Pages /\ PageOK(q)'
  <2> DEFINE board == OnBoardInfo(client[q], selected_map')
  <2>1. q \in PlayerIds /\ client[q] \in Pages /\ SectionsOK(q)
    BY <1>2, KnownPages
  <2>2. client'[q] = RoundStarted(q, board)  BY <1>4, <2>1
  <2>3. board \in Pages /\ board.shown = client[q].shown /\ board.map = selected_map'
    BY <1>1, <2>1, BoardInfoPage
  <2> HIDE DEF board
  <2>4. "join" \notin client[q].shown /\ "gameover" \notin client[q].shown
    BY <1>2, <2>1 DEF SectionsOK
  <2>5. QED  BY <1>1, <1>2, <2>2, <2>3, <2>4, StartedPage
<1> HIDE DEF pages
<1>5. QED  BY <1>2, <1>3, <1>4, DeliveredInv

(* next_round begins a round over what the round before has left on the     *)
(* pages.                                                                   *)
LEMMA NextRoundPages ==
  ASSUME ClientInv, ShownRoom', NEW p, NextRound(p)  PROVE  ClientInv'
<1> DEFINE pages == [q \in PlayerIds |-> RoundStarted(q, client[q])]
<1>1. TypeOK'  BY DEF ShownRoom, RoomInv
<1>2. /\ Deliver(pages) /\ UNCHANGED <<sent, evicted, rejoins>>
      /\ connected' = connected /\ selected_map' = selected_map
      /\ state = "NextRound" /\ state' = "CrimeWriting"
  BY DEF NextRound, HandleNextRound, StartRound, rosterVars
<1>3. FormsOK'  BY <1>2, KnownPages, FormsKept
<1>4. ASSUME NEW q \in connected', client'[q] = pages[q]
      PROVE  client'[q] \in Pages /\ PageOK(q)'
  <2>1. /\ q \in PlayerIds /\ client[q] \in Pages /\ SectionsOK(q)
        /\ client[q].map = selected_map'
    BY <1>2, KnownPages
  <2>2. client'[q] = RoundStarted(q, client[q])  BY <1>4, <2>1
  <2>3. "join" \notin client[q].shown /\ "gameover" \notin client[q].shown
    BY <1>2, <2>1 DEF SectionsOK
  <2>4. QED  BY <1>1, <1>2, <2>1, <2>2, <2>3, StartedPage
<1> HIDE DEF pages
<1>5. QED  BY <1>2, <1>3, <1>4, DeliveredInv

(* restart_game takes every page back to the lobby.                         *)
LEMMA RestartGamePages ==
  ASSUME ClientInv, ShownRoom', NEW p, RestartGame(p)  PROVE  ClientInv'
<1> DEFINE pages == [q \in PlayerIds |-> Updated(q, client[q])]
<1>1. TypeOK'  BY DEF ShownRoom, RoomInv
<1>2. /\ Deliver(pages) /\ UNCHANGED <<sent, evicted, rejoins>>
      /\ connected' = connected /\ selected_map' = selected_map
      /\ state = "GameOver" /\ state' = "Lobby"
  BY DEF RestartGame, HandleRestartGame
<1>3. FormsOK'  BY <1>2, KnownPages, FormsKept
<1>4. ASSUME NEW q \in connected', client'[q] = pages[q]
      PROVE  client'[q] \in Pages /\ PageOK(q)'
  <2>1. /\ q \in PlayerIds /\ client[q] \in Pages /\ SectionsOK(q)
        /\ client[q].map = selected_map'
    BY <1>2, KnownPages
  <2>2. client'[q] = Updated(q, client[q])  BY <1>4, <2>1
  <2>3. /\ client'[q] \in Pages /\ client'[q].room = RoomUpdate'
        /\ client'[q].map = client[q].map
        /\ q = host_id' =>
             client'[q].shown = (client[q].shown \ {"round", "result", "gameover"})
                                  \cup {"lobby", "start"}
        /\ q # host_id' =>
             client'[q].shown =
               (client[q].shown \ {"start", "round", "result", "gameover"})
                 \cup {"lobby"}
    BY <1>1, <1>2, <2>1, <2>2, UpdatedPage
  <2>4. KnownOK(q)'  BY <1>2, <2>1, <2>3 DEF KnownOK, RoundInProgress
  <2>5. "join" \notin client[q].shown  BY <2>1 DEF SectionsOK
  <2>6. CASE q = host_id'
    BY <1>2, <2>3, <2>4, <2>5, <2>6
    DEF PageOK, ShownOK, SectionsOK, HostButtonsOK, PreparationOK, TurnOK,
        RoundInProgress
  <2>7. CASE q # host_id'
    BY <1>2, <2>3, <2>4, <2>5, <2>7
    DEF PageOK, ShownOK, SectionsOK, HostButtonsOK, PreparationOK, TurnOK,
        RoundInProgress
  <2>8. QED  BY <2>6, <2>7
<1> HIDE DEF pages
<1>5. QED  BY <1>2, <1>3, <1>4, DeliveredInv

(* An accepted crime moves the phase on, and the criminal's form is off its *)
(* way.                                                                     *)
LEMMA SubmitCrimePages ==
  ASSUME ClientInv, ShownRoom', NEW p, SubmitCrime(p)  PROVE  ClientInv'
<1> DEFINE pages == [q \in PlayerIds |-> Updated(q, client[q])]
<1>1. TypeOK'  BY DEF ShownRoom, RoomInv
<1>2. /\ Deliver(pages) /\ UNCHANGED <<evicted, rejoins>>
      /\ sent' = [sent EXCEPT ![p] = "none"]
      /\ connected' = connected /\ selected_map' = selected_map
      /\ state = "CrimeWriting" /\ state' = "AIJudging"
      /\ UNCHANGED <<criminal_id, current_detective, awaiting_advance,
                     guess_in_flight, attempts_used>>
  BY DEF SubmitCrime, HandleSubmitCrime, rosterVars, gameVars, turnVars
<1>3. FormsOK'  BY <1>2, KnownPages, FormsKept
<1>4. ASSUME NEW q \in connected', client'[q] = pages[q]
      PROVE  client'[q] \in Pages /\ PageOK(q)'
  <2>1. q \in PlayerIds /\ client[q] \in Pages /\ PageOK(q)
    BY <1>2, KnownPages
  <2>2. client'[q] = Updated(q, client[q])  BY <1>4, <2>1
  <2>3. QED  BY <1>1, <1>2, <2>1, <2>2, QuietPage
<1> HIDE DEF pages
<1>5. QED  BY <1>2, <1>3, <1>4, DeliveredInv

(* What the pages show when a turn of the investigation is over. *)
LEMMA TurnShown ==
  ASSUME NEW q, SectionsOK(q), TurnOK(q), state = "Investigation"
  PROVE  LET S == client[q].shown
         IN  /\ S \cap {"join", "lobby", "result", "gameover"} = {}
             /\ "round" \in S /\ "score" \in S
             /\ "answer" \in S <=> q = criminal_id
BY DEF SectionsOK, TurnOK, RoundInProgress

(* next_turn opens a turn or ends the round.                                *)
LEMMA NextTurnPages ==
  ASSUME ClientInv, ShownRoom', NEW p, NextTurn(p)  PROVE  ClientInv'
<1> DEFINE pages == [q \in PlayerIds |-> TurnBegun(q, client[q])]
<1>1. TypeOK' /\ StageOK' /\ connected' \subseteq PlayerIds
  BY DEF ShownRoom, RoomInv, TypeOK
<1>2. /\ Deliver(pages) /\ UNCHANGED <<sent, evicted, rejoins>>
      /\ connected' = connected /\ selected_map' = selected_map
      /\ host_id' = host_id /\ criminal_id' = criminal_id
      /\ state = "Investigation" /\ ~awaiting_advance'
      /\ state' \in {"Investigation", "NextRound", "GameOver"}
  BY DEF NextTurn, HandleNextTurn, BeginNextTurn, FinishRound, rosterVars, gameVars
<1>3. FormsOK'  BY <1>2, KnownPages, FormsKept
<1>4. ASSUME NEW q \in connected', client'[q] = pages[q]
      PROVE  client'[q] \in Pages /\ PageOK(q)'
  <2>1. /\ q \in PlayerIds /\ client[q] \in Pages /\ SectionsOK(q) /\ TurnOK(q)
        /\ KnownOK(q) /\ client[q].map = selected_map'
        /\ client[q].room.host = host_id
    BY <1>2, KnownPages
  <2>2. client'[q] = TurnBegun(q, client[q])  BY <1>4, <2>1
  <2>3. client[q].role = Role(q)'
    BY <1>2, <2>1 DEF KnownOK, RoundInProgress, Role
  <2>4. state' = "Investigation" => current_detective' \in PlayerIds
    BY <1>1 DEF StageOK, Detectives
  <2>5. LET S == client[q].shown
        IN  /\ S \cap {"join", "lobby", "result", "gameover"} = {}
            /\ "round" \in S /\ "score" \in S
            /\ "answer" \in S <=> q = criminal_id'
    BY <1>2, <2>1, TurnShown
  <2>6. QED  BY <1>1, <1>2, <2>1, <2>2, <2>3, <2>4, <2>5, BegunPage
<1> HIDE DEF pages
<1>5. QED  BY <1>2, <1>3, <1>4, DeliveredInv

(* The evaluation reveals the score to all and the key to the criminal, and *)
(* opens the first turn.                                                    *)
LEMMA EvaluationPages ==
  ASSUME ClientInv, ShownRoom', NEW c \in calls, EvaluationArrives(c)
  PROVE  ClientInv'
<1> DEFINE pages == [p \in PlayerIds |->
       LET scored == Show(client[p], "score")
       IN  TurnBegun(p, IF p = criminal_id THEN Show(scored, "answer") ELSE scored)]
<1>1. TypeOK' /\ StageOK' /\ connected' \subseteq PlayerIds
  BY DEF ShownRoom, RoomInv, TypeOK
<1>2. state = "AIJudging"
  BY DEF ClientInv, ShownRoom, RoomInv, CallsOK, EvaluationArrives, HandleEvaluation,
         AnswerApplies
<1>3. ~awaiting_advance
  BY <1>2 DEF ClientInv, ShownRoom, ProgressInv, QuietOK
<1>4. /\ Deliver(pages) /\ UNCHANGED <<sent, evicted, rejoins>>
      /\ connected' = connected /\ selected_map' = selected_map
      /\ host_id' = host_id /\ criminal_id' = criminal_id /\ ~awaiting_advance'
      /\ state' \in {"Investigation", "NextRound", "GameOver"}
  BY <1>3
  DEF EvaluationArrives, HandleEvaluation, BeginNextTurn, FinishRound, rosterVars,
      gameVars
<1>5. FormsOK'  BY <1>4, KnownPages, FormsKept
<1>6. ASSUME NEW q \in connected', client'[q] = pages[q]
      PROVE  client'[q] \in Pages /\ PageOK(q)'
  <2> DEFINE scored == Show(client[q], "score")
             told == IF q = criminal_id THEN Show(scored, "answer") ELSE scored
  <2>1. /\ q \in PlayerIds /\ client[q] \in Pages
        /\ SectionsOK(q) /\ PreparationOK(q)
        /\ KnownOK(q) /\ client[q].map = selected_map'
        /\ client[q].room.host = host_id
    BY <1>4, KnownPages
  <2>2. client'[q] = TurnBegun(q, told)  BY <1>6, <2>1
  <2>3. /\ scored \in Pages /\ SameKnown(scored, client[q])
        /\ scored.shown = client[q].shown \cup {"score"}
    BY <2>1, ShowHide, AllElements
  <2> HIDE DEF scored
  <2>4. /\ told \in Pages /\ SameKnown(told, client[q])
        /\ told.shown = client[q].shown \cup
             IF q = criminal_id THEN {"score", "answer"} ELSE {"score"}
    <3>1. /\ Show(scored, "answer") \in Pages
          /\ SameKnown(Show(scored, "answer"), scored)
          /\ Show(scored, "answer").shown = scored.shown \cup {"answer"}
      BY <2>3, ShowHide, AllElements
    <3>2. QED  BY <2>3, <3>1 DEF SameKnown
  <2> HIDE DEF told
  <2>5. told.role = Role(q)'
    BY <1>2, <1>4, <2>1, <2>4 DEF KnownOK, RoundInProgress, Role, SameKnown
  <2>6. state' = "Investigation" => current_detective' \in PlayerIds
    BY <1>1 DEF StageOK, Detectives
  <2>7. /\ client[q].shown \cap {"join", "lobby", "result", "gameover"} = {}
        /\ "round" \in client[q].shown /\ "answer" \notin client[q].shown
    BY <1>2, <2>1 DEF SectionsOK, PreparationOK, RoundInProgress
  <2>8. /\ told.shown \cap {"join", "lobby", "result", "gameover"} = {}
        /\ "round" \in told.shown /\ "score" \in told.shown
        /\ "answer" \in told.shown <=> q = criminal_id'
    BY <1>4, <2>4, <2>7
  <2>9. told.map = selected_map' /\ told.room.host = host_id
    BY <2>1, <2>4 DEF SameKnown
  <2>10. QED  BY <1>1, <1>4, <2>2, <2>4, <2>5, <2>6, <2>8, <2>9, BegunPage
<1> HIDE DEF pages
<1>7. QED  BY <1>4, <1>5, <1>6, DeliveredInv

(* The expiry of the crime ends the round: an error, round_result, perhaps  *)
(* game_over, and room_update.                                              *)
LEMMA CrimeWritingTimeoutPages ==
  ASSUME ClientInv, ShownRoom', CrimeWritingTimeout  PROVE  ClientInv'
<1> DEFINE pages == [p \in PlayerIds |-> RoundFinished(p, OnError(p, client[p]))]
<1>1. TypeOK'  BY DEF ShownRoom, RoomInv
<1>2. state = "CrimeWriting"
  BY DEF CrimeWritingTimeout, HandleCrimeWritingTimeout, ExpiryApplies
<1>3. /\ Deliver(pages) /\ UNCHANGED <<sent, evicted, rejoins>>
      /\ connected' = connected /\ selected_map' = selected_map
      /\ host_id' = host_id /\ state' \in {"NextRound", "GameOver"}
  BY DEF CrimeWritingTimeout, HandleCrimeWritingTimeout, FinishRound, rosterVars
<1>4. FormsOK'  BY <1>3, KnownPages, FormsKept
<1>5. ASSUME NEW q \in connected', client'[q] = pages[q]
      PROVE  client'[q] \in Pages /\ PageOK(q)'
  <2>1. /\ q \in PlayerIds /\ client[q] \in Pages /\ SectionsOK(q)
        /\ client[q].map = selected_map' /\ client[q].room = RoomUpdate
        /\ client[q].room.host = host_id
    BY <1>3, KnownPages
  <2>2. client[q].room.state # "Investigation"
    BY <1>2, <2>1 DEF RoomUpdate
  <2>3. client'[q] = RoundFinished(q, client[q])
    BY <1>5, <2>1, <2>2 DEF OnError
  <2>4. client[q].shown \cap {"join", "lobby", "gameover"} = {}
    BY <1>2, <2>1 DEF SectionsOK
  <2>5. QED  BY <1>1, <1>3, <2>1, <2>3, <2>4, FinishedPage
<1> HIDE DEF pages
<1>6. QED  BY <1>3, <1>4, <1>5, DeliveredInv

(* A turn is answered, by the expiry of its wait or by the judgement. *)
LEMMA FeedbackPages ==
  ASSUME ClientInv, ShownRoom',
         Deliver([p \in PlayerIds |->
           OnGuessFeedback(p, client[p], current_detective)]),
         state = "Investigation", awaiting_advance',
         UNCHANGED <<state, selected_map, rosterVars, gameVars, scoreVars,
                     current_detective, sent, evicted, rejoins>>
  PROVE  ClientInv'
<1> DEFINE pages == [p \in PlayerIds |->
             OnGuessFeedback(p, client[p], current_detective)]
<1>1. /\ connected' = connected /\ state' = state /\ RoomUpdate' = RoomUpdate
      /\ criminal_id' = criminal_id
  BY DEF RoomUpdate, rosterVars, gameVars, scoreVars
<1>2. FormsOK'  BY <1>1, KnownPages, FormsKept
<1>3. ASSUME NEW q \in connected', client'[q] = pages[q]
      PROVE  client'[q] \in Pages /\ PageOK(q)'
  <2>1. /\ q \in PlayerIds /\ client[q] \in Pages
        /\ KnownOK(q) /\ SectionsOK(q) /\ TurnOK(q)
    BY <1>1, KnownPages
  <2>2. client'[q] = OnGuessFeedback(q, client[q], current_detective)
    BY <1>3, <2>1
  <2>3. /\ client'[q] \in Pages /\ SameKnown(client'[q], client[q])
        /\ client'[q].shown \ {"next_turn"} =
             (client[q].shown \ {"loading", "next_turn"}) \cup {"advance"}
        /\ current_detective = q => "next_turn" \in client'[q].shown
    BY <2>1, <2>2, GuessFeedbackPage
  <2>4. KnownOK(q)'
    BY <1>1, <2>1, <2>3 DEF KnownOK, SameKnown, RoundInProgress, Role
  <2>5. \A e : e \notin {"loading", "next_turn", "advance"} =>
          (e \in client'[q].shown <=> e \in client[q].shown)
    BY <2>3
  <2>6. /\ "loading" \notin client'[q].shown /\ "advance" \in client'[q].shown
        /\ q = current_detective => "next_turn" \in client'[q].shown
    BY <2>3
  <2>7. "start" \notin client[q].shown
    BY <1>1, KnownPages DEF HostButtonsOK
  <2>8. ShownOK(q)'
    BY <1>1, <2>1, <2>5, <2>6, <2>7
    DEF ShownOK, SectionsOK, HostButtonsOK, PreparationOK, TurnOK, RoundInProgress
  <2>9. QED  BY <2>3, <2>4, <2>8 DEF PageOK
<1> HIDE DEF pages
<1>4. QED  BY <1>2, <1>3, DeliveredInv DEF pages

(* A turn that is answered, by a judgement or by an expiry, tells its       *)
(* feedback to every page.                                                  *)
LEMMA AnswerPages ==
  ASSUME ClientInv, ShownRoom',
         GuessTimeout \/ \E c \in calls : JudgementArrives(c)
  PROVE  ClientInv'
<1>1. CASE GuessTimeout
  <2>1. state = "Investigation"
    BY <1>1
    DEF ClientInv, ShownRoom, RoomInv, TimersOK, GuessTimeout, HandleGuessTimeout,
        ExpiryApplies
  <2>2. QED
    BY <1>1, <2>1, FeedbackPages DEF GuessTimeout, HandleGuessTimeout
<1>2. ASSUME NEW c \in calls, JudgementArrives(c)  PROVE  ClientInv'
  <2>1. state = "Investigation" /\ c.player = current_detective
    BY <1>2
    DEF ClientInv, ShownRoom, RoomInv, CallsOK, JudgementArrives, HandleJudgement,
        AnswerApplies
  <2>2. Deliver([p \in PlayerIds |->
          OnGuessFeedback(p, client[p], current_detective)])
    BY <1>2, <2>1 DEF JudgementArrives
  <2>3. QED
    BY <1>2, <2>1, <2>2, FeedbackPages DEF JudgementArrives, HandleJudgement
<1>3. QED  BY <1>1, <1>2

(* One page changes, the room's roster and phase do not. *)
LEMMA OnePage ==
  ASSUME ClientInv, ShownRoom', FormsOK', NEW p \in connected, NEW page \in Pages,
         UNCHANGED <<alive, state, selected_map, rosterVars, gameVars, scoreVars,
                     current_detective, awaiting_advance, attempts_used,
                     evicted, rejoins>>,
         client' = [client EXCEPT ![p] = page], SameKnown(page, client[p]),
         \A q \in connected : q # p =>
           /\ sent'[q] = sent[q]
           /\ q = current_detective => guess_in_flight' = guess_in_flight,
         ShownOK(p)'
  PROVE  ClientInv'
<1>1. /\ connected' = connected /\ state' = state /\ RoomUpdate' = RoomUpdate
      /\ criminal_id' = criminal_id /\ has_been_criminal' = has_been_criminal
  BY DEF RoomUpdate, rosterVars, gameVars, scoreVars
<1>2. client \in [PlayerIds -> Pages] /\ connected \subseteq PlayerIds
  BY KnownPages DEF ClientTypeOK
<1>3. /\ client' \in [PlayerIds -> Pages]
      /\ client'[p] = page
      /\ \A q \in PlayerIds : q # p => client'[q] = client[q]
  BY <1>2
<1>4. \A q \in PlayerIds \ connected' : client'[q] = FreshPage
  BY <1>1, <1>3, KnownPages DEF ClientTypeOK
<1>5. PageOK(p)'
  <2>1. KnownOK(p)  BY KnownPages
  <2>2. KnownOK(p)'
    BY <1>1, <1>3, <2>1 DEF KnownOK, SameKnown, RoundInProgress, Role
  <2>3. QED  BY <2>2 DEF PageOK
<1>6. ASSUME NEW q \in connected', q # p  PROVE  PageOK(q)'
  <2>1. q \in connected /\ client'[q] = client[q]  BY <1>1, <1>2, <1>3, <1>6
  <2>2. PageOK(q) /\ client[q].map = selected_map  BY <2>1, KnownPages
  <2>3. /\ sent'[q] = sent[q]
        /\ q = current_detective => guess_in_flight' = guess_in_flight
    BY <1>6, <2>1
  <2>4. QED  BY <1>1, <2>1, <2>2, <2>3, SamePage
<1>7. \A q \in connected' : PageOK(q)'  BY <1>5, <1>6
<1>8. QED  BY <1>3, <1>4, <1>7 DEF ClientInv, ClientTypeOK, FormsOK

(* An accepted guess is judged: only its detective's page changes.          *)
LEMMA SubmitGuessPages ==
  ASSUME ClientInv, ShownRoom', NEW p, NEW text, SubmitGuess(p, text)
  PROVE  ClientInv'
<1>1. /\ state = "Investigation" /\ p = current_detective /\ guess_in_flight'
      /\ UNCHANGED <<alive, state, selected_map, rosterVars, gameVars, scoreVars,
                     current_detective, awaiting_advance, attempts_used,
                     evicted, rejoins>>
      /\ Deliver([client EXCEPT ![p] = OnGuessPending(@)])
      /\ sent' = [sent EXCEPT ![p] = "none"]
  BY DEF SubmitGuess, HandleSubmitGuess, MayGuess
<1>2. p \in connected
  BY <1>1, KnownPages DEF StageOK, Detectives
<1>3. /\ connected' = connected /\ connected \subseteq PlayerIds
      /\ client \in [PlayerIds -> Pages]
      /\ sent \in [PlayerIds -> {"none", "submit_crime", "submit_guess"}]
      /\ \A q \in PlayerIds \ connected : client[q] = FreshPage
  BY <1>1, KnownPages DEF rosterVars, ClientTypeOK
<1>4. FormsOK'  BY <1>1, <1>3, KnownPages, FormsKept
<1> DEFINE page == OnGuessPending(client[p])
<1>5. /\ page \in Pages /\ SameKnown(page, client[p])
      /\ page.shown = (client[p].shown \ {"guess"}) \cup {"loading"}
  BY <1>2, KnownPages, GuessPendingPage
<1>6. client' = [client EXCEPT ![p] = page]
  BY <1>1, <1>2, <1>3 DEF Deliver
<1> HIDE DEF page
<1>7. client'[p] = page  BY <1>2, <1>3, <1>6
<1>8. SectionsOK(p) /\ HostButtonsOK(p) /\ TurnOK(p)  BY <1>2, KnownPages
<1>9. state' = state /\ host_id' = host_id /\ criminal_id' = criminal_id
  BY <1>1 DEF rosterVars, gameVars
<1>10. ShownOK(p)'
  BY <1>1, <1>5, <1>7, <1>8, <1>9
  DEF ShownOK, SectionsOK, HostButtonsOK, PreparationOK, TurnOK, RoundInProgress
<1>11. \A q \in connected : q # p =>
         /\ sent'[q] = sent[q]
         /\ q = current_detective => guess_in_flight' = guess_in_flight
  BY <1>1, <1>3
<1>12. QED  BY <1>1, <1>2, <1>4, <1>5, <1>6, <1>10, <1>11, OnePage

(* A refused form brings an error to its own page and no other.             *)
LEMMA RefusePages ==
  ASSUME ClientInv, ShownRoom', NEW p \in players, Refuse(p)  PROVE  ClientInv'
<1>1. /\ UNCHANGED <<vars, evicted, rejoins>>
      /\ sent[p] = "submit_crime" \/ (sent[p] = "submit_guess" /\ ~MayGuess(p))
      /\ client' = [client EXCEPT ![p] = OnError(p, @)]
      /\ sent' = [sent EXCEPT ![p] = "none"]
  BY DEF Refuse
<1>2. /\ UNCHANGED <<alive, state, selected_map, rosterVars, gameVars, scoreVars,
                     current_detective, awaiting_advance, attempts_used,
                     guess_in_flight, evicted, rejoins>>
      /\ connected' = connected /\ host_id' = host_id /\ criminal_id' = criminal_id
  BY <1>1 DEF vars, turnVars, rosterVars, gameVars
<1>3. /\ p \in PlayerIds /\ connected \subseteq PlayerIds
      /\ client \in [PlayerIds -> Pages]
      /\ sent \in [PlayerIds -> {"none", "submit_crime", "submit_guess"}]
      /\ \A q \in PlayerIds \ connected : sent[q] = "none"
  BY KnownPages DEF TypeOK, ClientTypeOK
<1>4. p \in connected  BY <1>1, <1>3
<1>5. FormsOK'  BY <1>1, <1>2, KnownPages, FormsKept
<1>6. /\ client[p] \in Pages /\ KnownOK(p) /\ client[p].room = RoomUpdate
      /\ SectionsOK(p) /\ HostButtonsOK(p) /\ PreparationOK(p) /\ TurnOK(p)
  BY <1>4, KnownPages
<1> DEFINE page == OnError(p, client[p])
<1>7. /\ page \in Pages /\ SameKnown(page, client[p])
      /\ page.shown =
           IF client[p].room.state = "Investigation" /\ client[p].detective = p
                /\ "loading" \in client[p].shown
           THEN (client[p].shown \ {"loading"}) \cup {"guess"}
           ELSE client[p].shown
  BY <1>6, ErrorPage
<1>8. client' = [client EXCEPT ![p] = page]  BY <1>1, <1>3
<1> HIDE DEF page
<1>9. client'[p] = page /\ sent'[p] = "none"  BY <1>1, <1>3, <1>8
<1>10. /\ client[p].room.state = state
       /\ state = "Investigation" => client[p].detective = current_detective
  BY <1>6 DEF KnownOK, RoomUpdate
<1>11. ShownOK(p)'
  <2>1. CASE state = "Investigation" /\ p = current_detective
    <3>1. /\ "loading" \notin client'[p].shown
          /\ \A e : e \notin {"loading", "guess"} =>
               (e \in client'[p].shown <=> e \in client[p].shown)
          /\ "guess" \in client[p].shown => "guess" \in client'[p].shown
      BY <1>7, <1>9, <1>10, <2>1
    <3>2. "guess" \in client[p].shown \/ awaiting_advance \/ guess_in_flight
      BY <1>1, <1>6, <2>1 DEF TurnOK, MayGuess
    <3>3. QED
      BY <1>2, <1>6, <2>1, <3>1, <3>2
      DEF ShownOK, SectionsOK, HostButtonsOK, PreparationOK, TurnOK, RoundInProgress
  <2>2. CASE ~(state = "Investigation" /\ p = current_detective)
    <3>1. client'[p].shown = client[p].shown  BY <1>7, <1>9, <1>10, <2>2
    <3>2. Undisturbed' = Undisturbed /\ state' = state /\ rejoins' = rejoins
      BY <1>2 DEF rosterVars, Undisturbed
    <3>3. QED
      BY <1>2, <1>6, <2>2, <3>1, <3>2
      DEF ShownOK, SectionsOK, HostButtonsOK, PreparationOK, TurnOK, RoundInProgress
  <2>3. QED  BY <2>1, <2>2
<1>12. \A q \in connected : q # p =>
         /\ sent'[q] = sent[q]
         /\ q = current_detective => guess_in_flight' = guess_in_flight
  BY <1>1, <1>2, <1>3
<1>13. QED  BY <1>2, <1>4, <1>5, <1>7, <1>8, <1>11, <1>12, OnePage

(* Only who is connected has a page with a form to send off. *)
LEMMA WhoClicks ==
  ASSUME ClientInv, NEW p \in players,
         Sees(p, "crime") \/ Sees(p, "guess")
  PROVE  p \in connected
<1>1. p \in PlayerIds /\ \A q \in PlayerIds \ connected : client[q] = FreshPage
  BY KnownPages DEF TypeOK, ClientTypeOK
<1>2. "round" \in client[p].shown  BY DEF Sees, Within
<1>3. QED  BY <1>1, <1>2, FreshPageOK

(* The click that sends a crime off hides the form.                         *)
LEMMA ClickCrimePages ==
  ASSUME ClientInv, ShownRoom', NEW p \in players, ClickSubmitCrime(p)
  PROVE  ClientInv'
<1>1. /\ UNCHANGED <<vars, evicted, rejoins>>
      /\ Sees(p, "crime") /\ sent[p] = "none"
      /\ sent' = [sent EXCEPT ![p] = "submit_crime"]
      /\ client' = [client EXCEPT ![p] = Show(Hide(@, {"crime"}), "waiting")]
  BY DEF ClickSubmitCrime
<1>2. /\ UNCHANGED <<alive, state, selected_map, rosterVars, gameVars, scoreVars,
                     current_detective, awaiting_advance, attempts_used,
                     guess_in_flight, evicted, rejoins>>
      /\ connected' = connected /\ host_id' = host_id
  BY <1>1 DEF vars, turnVars, rosterVars
<1>3. p \in connected  BY <1>1, WhoClicks
<1>4. /\ connected \subseteq PlayerIds
      /\ client \in [PlayerIds -> Pages]
      /\ sent \in [PlayerIds -> {"none", "submit_crime", "submit_guess"}]
  BY KnownPages DEF ClientTypeOK
<1>5. FormsOK'
  BY <1>1, <1>2, <1>3, KnownPages DEF FormsOK, ClientTypeOK
<1>6. /\ client[p] \in Pages
      /\ SectionsOK(p) /\ HostButtonsOK(p) /\ PreparationOK(p) /\ TurnOK(p)
  BY <1>3, KnownPages
<1> DEFINE hid == Hide(client[p], {"crime"})
           page == Show(hid, "waiting")
<1>7. hid \in Pages /\ SameKnown(hid, client[p])
      /\ hid.shown = client[p].shown \ {"crime"}
  BY <1>6, ShowHide
<1>8. client' = [client EXCEPT ![p] = page]  BY <1>1, <1>4
<1> HIDE DEF hid
<1>9. page \in Pages /\ SameKnown(page, hid) /\ page.shown = hid.shown \cup {"waiting"}
  BY <1>7, ShowHide, AllElements
<1> HIDE DEF page
<1>10. SameKnown(page, client[p])  BY <1>7, <1>9 DEF SameKnown
<1>11. client'[p] = page  BY <1>3, <1>4, <1>8
<1>12. state \in {"CrimeWriting", "AIJudging"}
  <2>1. "crime" \in client[p].shown /\ "round" \in client[p].shown
    BY <1>1 DEF Sees, Within
  <2>2. QED  BY <1>6, <2>1 DEF SectionsOK, TurnOK, RoundInProgress
<1>13. ShownOK(p)'
  BY <1>2, <1>6, <1>7, <1>9, <1>11, <1>12
  DEF ShownOK, SectionsOK, HostButtonsOK, PreparationOK, TurnOK, RoundInProgress,
      gameVars
<1>14. \A q \in connected : q # p =>
         /\ sent'[q] = sent[q]
         /\ q = current_detective => guess_in_flight' = guess_in_flight
  BY <1>1, <1>2, <1>4
<1>15. QED
  BY <1>2, <1>3, <1>5, <1>8, <1>9, <1>10, <1>13, <1>14, OnePage

(* The click that sends a guess off replaces the form by the spinner.       *)
LEMMA ClickGuessPages ==
  ASSUME ClientInv, ShownRoom', NEW p \in players, ClickSubmitGuess(p)
  PROVE  ClientInv'
<1>1. /\ UNCHANGED <<vars, evicted, rejoins>>
      /\ Sees(p, "guess") /\ sent[p] = "none"
      /\ sent' = [sent EXCEPT ![p] = "submit_guess"]
      /\ client' = [client EXCEPT ![p] = OnGuessPending(@)]
  BY DEF ClickSubmitGuess
<1>2. /\ UNCHANGED <<alive, state, selected_map, rosterVars, gameVars, scoreVars,
                     current_detective, awaiting_advance, attempts_used,
                     guess_in_flight, evicted, rejoins>>
      /\ connected' = connected /\ host_id' = host_id /\ criminal_id' = criminal_id
  BY <1>1 DEF vars, turnVars, rosterVars, gameVars
<1>3. p \in connected  BY <1>1, WhoClicks
<1>4. /\ connected \subseteq PlayerIds
      /\ client \in [PlayerIds -> Pages]
      /\ sent \in [PlayerIds -> {"none", "submit_crime", "submit_guess"}]
  BY KnownPages DEF ClientTypeOK
<1>5. FormsOK'
  BY <1>1, <1>2, <1>3, KnownPages DEF FormsOK, ClientTypeOK
<1>6. /\ client[p] \in Pages
      /\ SectionsOK(p) /\ HostButtonsOK(p) /\ PreparationOK(p) /\ TurnOK(p)
  BY <1>3, KnownPages
<1> DEFINE page == OnGuessPending(client[p])
<1>7. /\ page \in Pages /\ SameKnown(page, client[p])
      /\ page.shown = (client[p].shown \ {"guess"}) \cup {"loading"}
  BY <1>6, GuessPendingPage
<1>8. client' = [client EXCEPT ![p] = page]  BY <1>1, <1>4
<1> HIDE DEF page
<1>9. client'[p] = page /\ sent'[p] = "submit_guess"  BY <1>1, <1>3, <1>4, <1>8
<1>10. state = "Investigation"
  <2>1. "investigation" \in client[p].shown /\ "round" \in client[p].shown
    BY <1>1 DEF Sees, Within
  <2>2. QED  BY <1>6, <2>1 DEF SectionsOK, PreparationOK, RoundInProgress
<1>11. ShownOK(p)'
  BY <1>2, <1>6, <1>7, <1>9, <1>10
  DEF ShownOK, SectionsOK, HostButtonsOK, PreparationOK, TurnOK, RoundInProgress
<1>12. \A q \in connected : q # p =>
         /\ sent'[q] = sent[q]
         /\ q = current_detective => guess_in_flight' = guess_in_flight
  BY <1>1, <1>2, <1>4
<1>13. QED
  BY <1>2, <1>3, <1>5, <1>7, <1>8, <1>11, <1>12, OnePage

(* An expiry comes due, or an expiry or an answer is dropped: nobody is     *)
(* told, and there is nothing to tell.                                      *)
LEMMA SilentPages ==
  ASSUME ClientInv, ShownRoom', Silent \/ UNCHANGED allVars  PROVE  ClientInv'
<1>1. /\ UNCHANGED <<alive, state, selected_map, rosterVars, gameVars, scoreVars,
                     turnVars>>
      /\ UNCHANGED <<client, sent, evicted, rejoins>>
  BY DEF Silent, TimerExpires, DropExpiry, DropAnswer, Gone, allVars, vars, clientVars
<1>2. /\ connected' = connected /\ has_been_criminal' = has_been_criminal
      /\ UNCHANGED <<criminal_id, current_detective, awaiting_advance,
                     attempts_used, guess_in_flight>>
  BY <1>1 DEF rosterVars, gameVars, scoreVars, turnVars
<1>3. ASSUME NEW q \in connected'  PROVE  PageOK(q)'
  <2>1. q \in connected /\ client'[q] = client[q]  BY <1>1, <1>2
  <2>2. PageOK(q) /\ client[q].map = selected_map  BY <2>1, KnownPages
  <2>3. QED  BY <1>1, <1>2, <2>1, <2>2, SamePage
<1>4. ClientTypeOK'  BY <1>1, <1>2, KnownPages DEF ClientTypeOK
<1>5. QED  BY <1>3, <1>4 DEF ClientInv

(* What game_state_sync says. *)
LEMMA SyncFields ==
  ASSUME TypeOK', StageOK', NEW p \in PlayerIds, NEW sync, sync = GameStateSync(p)'
  PROVE  /\ sync.state = state'
         /\ RoundInProgress' =>
              /\ SyncOfRound(sync)
              /\ sync.role = Role(p)'
              /\ sync.crime_score = (state' = "Investigation")
              /\ sync.answer_key = (state' = "Investigation" /\ p = criminal_id')
         /\ ~RoundInProgress' => SyncOfBreak(sync)
         /\ state' = "Investigation" =>
              /\ sync.detective = current_detective'
              /\ sync.attempt = attempts_used'[current_detective'] + 1
<1>1. /\ crime_score_revealed' \in BOOLEAN /\ state' \in States
      /\ connected' \subseteq PlayerIds
      /\ attempts_used' \in [PlayerIds -> 0..MaxAttempts]
  BY DEF TypeOK
<1>2. RoundInProgress' => (crime_score_revealed' <=> state' = "Investigation")
  BY <1>1 DEF StageOK, RoundInProgress
<1>3. /\ sync.state = state' /\ sync.crime_score = crime_score_revealed'
      /\ sync.role = IF RoundInProgress' \/ state' = "NextRound"
                     THEN Role(p)' ELSE "none"
  BY DEF GameStateSync
<1>4. sync.answer_key = ((RoundInProgress' \/ state' = "NextRound")
                           /\ p = criminal_id' /\ crime_score_revealed')
  BY DEF GameStateSync, SyncKey
<1>5. state' = "Investigation" =>
        /\ sync.detective = current_detective'
        /\ sync.attempt = attempts_used'[current_detective'] + 1
  BY DEF GameStateSync
<1>6. state' = "Investigation" =>
        sync.detective \in PlayerIds /\ sync.attempt \in Attempts
  <2>1. ASSUME state' = "Investigation"
        PROVE  /\ current_detective' \in PlayerIds
               /\ attempts_used'[current_detective'] \in 0..MaxAttempts
    BY <1>1, <2>1 DEF StageOK, Detectives
  <2>2. QED  BY <1>5, <2>1, ScoringAssumption DEF Attempts
<1>7. Role(p)' \in {"criminal", "detective"}  BY DEF Role
<1>8. CASE RoundInProgress'
  <2>1. state' \in {"CrimeWriting", "AIJudging", "Investigation"}
    BY <1>8 DEF RoundInProgress
  <2>2. /\ sync.crime_score = (state' = "Investigation")
        /\ sync.answer_key = (state' = "Investigation" /\ p = criminal_id')
    BY <1>1, <1>2, <1>3, <1>4, <1>8
  <2>3. SyncOfRound(sync)
    BY <1>3, <1>6, <1>7, <1>8, <2>1, <2>2 DEF SyncOfRound
  <2>4. QED  BY <1>3, <1>5, <1>8, <2>2, <2>3
<1>9. CASE ~RoundInProgress'
  <2>1. state' \in {"Lobby", "NextRound", "GameOver"}
    BY <1>1, <1>9 DEF RoundInProgress, States
  <2>2. SyncOfBreak(sync)  BY <1>3, <1>7, <2>1 DEF SyncOfBreak
  <2>3. QED  BY <1>3, <1>5, <1>9, <2>2
<1>10. QED  BY <1>8, <1>9

(* The page of whoever comes back, up to the synchronisation. *)
LEMMA ReturnedPage ==
  ASSUME TypeOK', NEW p,
         NEW page, page = Snapshot(p, OnRejoined(Updated(p, FreshPage)))
  PROVE  /\ page \in Pages /\ page.room = RoomUpdate' /\ page.map = selected_map'
         /\ state' # "Lobby" => page.shown = {"guess"}
         /\ state' = "Lobby" /\ p = host_id' => page.shown = {"guess", "lobby", "start"}
         /\ state' = "Lobby" /\ p # host_id' => page.shown = {"guess", "lobby"}
<1> DEFINE first == Updated(p, FreshPage)
           back == OnRejoined(first)
           told == Updated(p, back)
<1>1. FreshPage \in Pages /\ FreshPage.shown = {"join", "guess"}  BY FreshPageOK
<1>2. /\ first \in Pages
      /\ state' # "Lobby" => first.shown = FreshPage.shown \ {"start"}
      /\ state' = "Lobby" /\ p = host_id' =>
           first.shown = (FreshPage.shown \ {"round", "result", "gameover"})
                           \cup {"lobby", "start"}
      /\ state' = "Lobby" /\ p # host_id' =>
           first.shown = (FreshPage.shown \ {"start", "round", "result", "gameover"})
                           \cup {"lobby"}
  BY <1>1, UpdatedPage
<1> HIDE DEF first
<1>3. /\ back \in Pages
      /\ back.shown = first.shown \ {"join"}
  BY <1>2, ShowHide DEF OnRejoined
<1> HIDE DEF back
<1>4. /\ told \in Pages /\ told.room = RoomUpdate'
      /\ state' # "Lobby" => told.shown = back.shown \ {"start"}
      /\ state' = "Lobby" /\ p = host_id' =>
           told.shown = (back.shown \ {"round", "result", "gameover"})
                          \cup {"lobby", "start"}
      /\ state' = "Lobby" /\ p # host_id' =>
           told.shown = (back.shown \ {"start", "round", "result", "gameover"})
                          \cup {"lobby"}
  BY <1>3, UpdatedPage
<1>5. page = OnBoardInfo(told, selected_map')
  BY DEF Snapshot, back, first
<1> HIDE DEF told
<1>6. selected_map' \in Maps  BY DEF TypeOK
<1>7. /\ page \in Pages /\ page.shown = told.shown
      /\ page.map = selected_map' /\ page.room = told.room
  BY <1>4, <1>5, <1>6, BoardInfoPage
<1>8. CASE state' # "Lobby"  BY <1>1, <1>2, <1>3, <1>4, <1>7, <1>8
<1>9. CASE state' = "Lobby" /\ p = host_id'
  BY <1>1, <1>2, <1>3, <1>4, <1>7, <1>9
<1>10. CASE state' = "Lobby" /\ p # host_id'
  BY <1>1, <1>2, <1>3, <1>4, <1>7, <1>10
<1>11. QED  BY <1>8, <1>9, <1>10

(* Synchronised, it shows what every other page does. *)
LEMMA SyncedPage ==
  ASSUME TypeOK', StageOK', NEW p \in PlayerIds,
         NEW page, page = Snapshot(p, OnRejoined(Updated(p, FreshPage))),
         client'[p] = OnGameStateSync(p, page, GameStateSync(p)'),
         rejoins' \in Nat \ {0},
         state' = "Investigation" /\ p = current_detective' => p \in evicted'
  PROVE  client'[p] \in Pages /\ PageOK(p)'
<1> DEFINE sync == GameStateSync(p)'
           new == client'[p]
<1>1. /\ page \in Pages /\ page.room = RoomUpdate' /\ page.map = selected_map'
      /\ state' # "Lobby" => page.shown = {"guess"}
      /\ state' = "Lobby" /\ p = host_id' => page.shown = {"guess", "lobby", "start"}
      /\ state' = "Lobby" /\ p # host_id' => page.shown = {"guess", "lobby"}
  BY ReturnedPage
<1>2. /\ sync.state = state'
      /\ RoundInProgress' =>
           /\ SyncOfRound(sync)
           /\ sync.role = Role(p)'
           /\ sync.crime_score = (state' = "Investigation")
           /\ sync.answer_key = (state' = "Investigation" /\ p = criminal_id')
      /\ ~RoundInProgress' => SyncOfBreak(sync)
      /\ state' = "Investigation" =>
           /\ sync.detective = current_detective'
           /\ sync.attempt = attempts_used'[current_detective'] + 1
  BY SyncFields
<1>3. [RoomUpdate' EXCEPT !.state = state'] = RoomUpdate'  BY DEF RoomUpdate
<1>4. new = OnGameStateSync(p, page, sync)  OBVIOUS
<1>5. rejoins' # 0 /\ ~Undisturbed'  BY DEF Undisturbed
<1> HIDE DEF sync, new
<1>6. CASE RoundInProgress'
  <2>1. state' \in {"CrimeWriting", "AIJudging", "Investigation"}
    BY <1>6 DEF RoundInProgress
  <2>2. RoundSynced(p, page, sync, new)
    <3>1. page \in Pages /\ SyncOfRound(sync)  BY <1>1, <1>2, <1>6
    <3>2. QED  BY ONLY <1>4, <3>1, RoundSyncPage
  <2>3. PICK e \in {"crime", "investigation", "waiting"} :
          /\ new.shown = RoundShown(page, sync) \cup {e}
          /\ e = "crime" => sync.state = "CrimeWriting" /\ sync.role = "criminal"
          /\ e = "investigation" <=>
               sync.state = "Investigation" /\ sync.detective = p
    BY <2>2 DEF RoundSynced
  <2>4. KnownOK(p)'
    BY <1>1, <1>2, <1>3, <1>6, <2>2 DEF KnownOK, RoundSynced, new
  <2>5. CASE state' # "Investigation"
    <3>1. RoundShown(page, sync) = {"guess", "round"}
      BY <1>1, <1>2, <1>6, <2>1, <2>5 DEF RoundShown, Only
    <3>2. QED
      BY <1>2, <1>6, <2>1, <2>2, <2>3, <2>4, <2>5, <3>1
      DEF PageOK, ShownOK, SectionsOK, HostButtonsOK, PreparationOK, TurnOK, Role, RoundSynced, new
  <2>6. CASE state' = "Investigation"
    <3>1. RoundShown(page, sync) =
            IF p = criminal_id' THEN {"guess", "round", "score", "answer"}
            ELSE {"guess", "round", "score"}
      BY <1>1, <1>2, <1>6, <2>6 DEF RoundShown, Only
    <3>2. QED
      BY <1>2, <1>6, <2>2, <2>3, <2>4, <2>6, <3>1
      DEF PageOK, ShownOK, SectionsOK, HostButtonsOK, PreparationOK, TurnOK, RoundSynced, new
  <2>7. QED  BY <2>5, <2>6
<1>7. CASE ~RoundInProgress'
  <2>1. state' \in {"Lobby", "NextRound", "GameOver"}
    BY <1>7 DEF RoundInProgress, TypeOK, States
  <2>2. /\ new \in Pages
        /\ new.room = [page.room EXCEPT !.state = sync.state]
        /\ new.map = page.map
        /\ new.shown = BreakShown(p, page, sync)
    BY <1>1, <1>2, <1>4, <1>7, BreakSyncPage
  <2>3. KnownOK(p)'
    BY <1>1, <1>2, <1>3, <1>7, <2>1, <2>2 DEF KnownOK, new
  <2>4. CASE state' = "NextRound"
    <3>1. page.room.host = host_id'  BY <1>1 DEF RoomUpdate
    <3>2. new.shown = {"guess", "result"} \cup Only(host_id' = p, "next_round")
      BY <1>1, <1>2, <2>2, <2>4, <3>1 DEF BreakShown
    <3>3. QED
      BY <1>5, <1>7, <2>2, <2>3, <2>4, <3>2
      DEF PageOK, ShownOK, SectionsOK, HostButtonsOK, PreparationOK, TurnOK, new, Only
  <2>5. CASE state' = "GameOver"
    <3>1. new.shown = {"guess"}  BY <1>1, <1>2, <2>2, <2>5 DEF BreakShown
    <3>2. QED
      BY <1>5, <1>7, <2>2, <2>3, <2>5, <3>1
      DEF PageOK, ShownOK, SectionsOK, HostButtonsOK, PreparationOK, TurnOK, new
  <2>6. CASE state' = "Lobby"
    <3>1. new.shown = page.shown  BY <1>1, <1>2, <2>2, <2>6 DEF BreakShown
    <3>2. QED
      BY <1>1, <1>5, <1>7, <2>2, <2>3, <2>6, <3>1
      DEF PageOK, ShownOK, SectionsOK, HostButtonsOK, PreparationOK, TurnOK, new
  <2>7. QED  BY <2>1, <2>4, <2>5, <2>6
<1>8. QED  BY <1>6, <1>7

(* rejoin_room: the page loaded anew is told all of the round it comes back *)
(* to, the others that the player is back.                                  *)
LEMMA RejoinPages ==
  ASSUME ClientInv, ShownRoom', NEW p \in players, Rejoin(p)  PROVE  ClientInv'
<1> DEFINE pages == [q \in PlayerIds |->
             IF q = p
             THEN OnGameStateSync(p, Snapshot(p, OnRejoined(Updated(p, FreshPage))),
                                  GameStateSync(p)')
             ELSE Updated(q, client[q])]
<1>1. TypeOK' /\ StageOK' /\ connected' \subseteq PlayerIds /\ p \in PlayerIds
  BY KnownPages DEF ShownRoom, RoomInv, TypeOK
<1>2. /\ Deliver(pages)
      /\ rejoins < MaxRejoins /\ rejoins' = rejoins + 1
      /\ evicted' = evicted \cup ({p} \cap connected)
      /\ sent' \in {sent, [sent EXCEPT ![p] = "none"]}
      /\ connected' = connected \cup {p}
      /\ UNCHANGED <<state, selected_map, host_id, criminal_id, current_detective,
                     awaiting_advance, guess_in_flight, attempts_used>>
  BY DEF Rejoin, HandleReconnect, gameVars, turnVars
<1>3. /\ sent \in [PlayerIds -> {"none", "submit_crime", "submit_guess"}]
      /\ evicted \subseteq PlayerIds /\ rejoins \in 0..MaxRejoins
      /\ \A q \in PlayerIds \ connected : sent[q] = "none"
  BY KnownPages DEF ClientTypeOK
<1>4. rejoins' \in 0..MaxRejoins /\ rejoins' \in Nat \ {0}
  BY <1>2, <1>3, ClientAssumption
<1>5. FormsOK'  BY <1>1, <1>2, <1>3, <1>4 DEF FormsOK
<1>6. ASSUME NEW q \in connected', client'[q] = pages[q], q # p
      PROVE  client'[q] \in Pages /\ PageOK(q)'
  <2>1. client'[q] = Updated(q, client[q])  BY <1>1, <1>6
  <2>2. client[q] \in Pages /\ PageOK(q)  BY <1>2, <1>6, KnownPages
  <2>3. sent'[q] = sent[q]  BY <1>1, <1>2, <1>3, <1>6
  <2>4. ~Undisturbed' /\ rejoins' # 0 /\ evicted \subseteq evicted'
    BY <1>2, <1>4 DEF Undisturbed
  <2>5. QED  BY <1>1, <1>2, <2>1, <2>2, <2>3, <2>4, QuietPage
<1>7. ASSUME NEW q \in connected', client'[q] = pages[q], q = p
      PROVE  client'[q] \in Pages /\ PageOK(q)'
  <2> DEFINE page == Snapshot(p, OnRejoined(Updated(p, FreshPage)))
  <2>1. client'[p] = OnGameStateSync(p, page, GameStateSync(p)')
    BY <1>1, <1>7
  <2>2. state' = "Investigation" /\ p = current_detective' => p \in evicted'
    BY <1>2, KnownPages DEF StageOK, Detectives
  <2> HIDE DEF page
  <2>3. client'[p] \in Pages /\ PageOK(p)'
    BY <1>1, <1>4, <2>1, <2>2, SyncedPage DEF page
  <2>4. QED  BY <1>7, <2>3
<1>8. \A q \in connected' :
        client'[q] = pages[q] => client'[q] \in Pages /\ PageOK(q)'
  BY <1>6, <1>7
<1> HIDE DEF pages
<1>9. QED  BY <1>2, <1>5, <1>8, DeliveredInv

(* What a drop leaves for those who stay. *)
LEMMA DropLeaves ==
  ASSUME ClientInv, NEW p \in players, Drop(p)
  PROVE  /\ connected' = connected \ {p} /\ selected_map' = selected_map
         /\ sent' = [sent EXCEPT ![p] = "none"]
         /\ UNCHANGED <<evicted, rejoins, criminal_id>>
         /\ \A q : q # p /\ q = host_id => q = host_id'
         /\ state # "Lobby" => ~Undisturbed'
         /\ state # "Lobby" /\ host_id # p => host_id' = host_id
<1>1. /\ connected' = connected \ {p} /\ selected_map' = selected_map
      /\ sent' = [sent EXCEPT ![p] = "none"]
      /\ UNCHANGED <<evicted, rejoins, criminal_id>>
  BY DEF Drop, HandleDisconnect, Closed, gameVars
<1>2. host_id # p => host_id' = host_id
  BY DEF Drop, HandleDisconnect, LeaveLobby, SucceedHost
<1>3. state # "Lobby" => players' = players
  BY DEF Drop, HandleDisconnect, LeaveLobby, SucceedHost
<1>4. QED  BY <1>1, <1>2, <1>3 DEF Undisturbed

(* The end of a connection: a round without its criminal is over, a turn    *)
(* without its detective is the next one's, and all pages are told.         *)
LEMMA DropPages ==
  ASSUME ClientInv, ShownRoom', NEW p \in players, Drop(p)  PROVE  ClientInv'
<1> DEFINE pages == [q \in PlayerIds |->
       CASE p = criminal_id /\ RoundInProgress ->
              RoundFinished(q, OnError(q, client[q]))
         [] p = current_detective /\ state = "Investigation" ->
              TurnBegun(q, client[q])
         [] OTHER -> Updated(q, client[q])]
<1>1. TypeOK' /\ StageOK' /\ connected' \subseteq PlayerIds
  BY DEF ShownRoom, RoomInv, TypeOK
<1>2. /\ connected' = connected \ {p} /\ selected_map' = selected_map
      /\ sent' = [sent EXCEPT ![p] = "none"]
      /\ UNCHANGED <<evicted, rejoins, criminal_id>>
      /\ \A q : q # p /\ q = host_id => q = host_id'
      /\ state # "Lobby" => ~Undisturbed'
  BY DropLeaves
<1>3. Deliver(pages) /\ HandleDisconnect(p)  BY DEF Drop
<1>4. FormsOK'
  BY <1>1, <1>2, KnownPages DEF FormsOK, ClientTypeOK
<1>5. ASSUME NEW q \in connected', client'[q] = pages[q]
      PROVE  client'[q] \in Pages /\ PageOK(q)'
  <2>1. /\ q \in PlayerIds /\ q # p /\ q \in connected /\ client[q] \in Pages
        /\ PageOK(q) /\ KnownOK(q) /\ SectionsOK(q) /\ TurnOK(q)
        /\ client[q].map = selected_map' /\ client[q].room.host = host_id
    BY <1>1, <1>2, KnownPages
  <2>2. client[q].room.host = q => q = host_id'  BY <1>2, <2>1
  <2>3. CASE p = criminal_id /\ RoundInProgress
    <3> DEFINE page == OnError(q, client[q])
    <3>1. client'[q] = RoundFinished(q, page)
      <4>1. ~(p = current_detective /\ state = "Investigation")
        BY <2>3, KnownPages DEF StageOK, Detectives
      <4>2. QED  BY <1>5, <2>1, <2>3, <4>1
    <3>2. state' \in {"NextRound", "GameOver"}
      BY <1>3, <2>3
      DEF HandleDisconnect, LeaveLobby, AbortRound, LeaveInvestigation, LeaveQuietly,
          FinishRound, RoundInProgress
    <3>3. /\ page \in Pages /\ SameKnown(page, client[q])
          /\ page.shown =
               IF client[q].room.state = "Investigation" /\ client[q].detective = q
                    /\ "loading" \in client[q].shown
               THEN (client[q].shown \ {"loading"}) \cup {"guess"}
               ELSE client[q].shown
      BY <2>1, ErrorPage
    <3> HIDE DEF page
    <3>4. page.shown \cap {"join", "lobby", "gameover"} = {}
      BY <2>1, <2>3, <3>3 DEF SectionsOK, RoundInProgress
    <3>5. ~Undisturbed'  BY <1>2, <2>3 DEF RoundInProgress
    <3>6. page.map = selected_map' /\ page.room.host = host_id
      BY <2>1, <3>3 DEF SameKnown
    <3>7. page.room.host = q => q = host_id'  BY <2>1, <2>2, <3>6
    <3>8. QED
      BY <1>1, <3>1, <3>2, <3>3, <3>4, <3>5, <3>6, <3>7, FinishedPage
  <2>4. CASE /\ p = current_detective /\ state = "Investigation"
             /\ ~(p = criminal_id /\ RoundInProgress)
    <3>1. client'[q] = TurnBegun(q, client[q])  BY <1>5, <2>1, <2>4
    <3>2. /\ state' \in {"Investigation", "NextRound", "GameOver"}
          /\ ~awaiting_advance'
      BY <1>3, <2>4
      DEF HandleDisconnect, LeaveLobby, AbortRound, LeaveInvestigation, LeaveQuietly,
          BeginNextTurn, FinishRound
    <3>3. client[q].role = Role(q)'
      BY <1>2, <2>1, <2>4 DEF KnownOK, RoundInProgress, Role
    <3>4. state' = "Investigation" => current_detective' \in PlayerIds
      BY <1>1 DEF StageOK, Detectives
    <3>5. LET S == client[q].shown
          IN  /\ S \cap {"join", "lobby", "result", "gameover"} = {}
              /\ "round" \in S /\ "score" \in S
              /\ "answer" \in S <=> q = criminal_id'
      BY <1>2, <2>1, <2>4, TurnShown
    <3>6. ~Undisturbed'  BY <1>2, <2>4
    <3>7. QED
      BY <1>1, <2>1, <2>2, <3>1, <3>2, <3>3, <3>4, <3>5, <3>6, BegunPage
  <2>5. CASE /\ ~(p = criminal_id /\ RoundInProgress)
             /\ ~(p = current_detective /\ state = "Investigation")
    <3>1. client'[q] = Updated(q, client[q])  BY <1>5, <2>1, <2>5
    <3>2. /\ UNCHANGED <<state, current_detective, awaiting_advance,
                         guess_in_flight, attempts_used>>
      BY <1>3, <2>5
      DEF HandleDisconnect, LeaveLobby, AbortRound, LeaveInvestigation, LeaveQuietly,
          turnVars
    <3>3. sent'[q] = sent[q]
      BY <1>2, <2>1, KnownPages DEF ClientTypeOK
    <3>4. state \in {"NextRound", "GameOver"} =>
            /\ q = host_id => q = host_id'
            /\ Undisturbed' => Undisturbed /\ host_id' = host_id
      BY <1>2, <2>1
    <3>5. QED  BY <1>1, <1>2, <2>1, <3>1, <3>2, <3>3, <3>4, QuietPage
  <2>6. QED  BY <2>3, <2>4, <2>5
<1> HIDE DEF pages
<1>6. QED  BY <1>3, <1>4, <1>5, DeliveredInv

-----------------------------------------------------------------------------
(* room_created and the snapshot *)
LEMMA CreatedPage ==
  ASSUME NEW p, NEW map \in Maps, NEW update \in Updates,
         update.state = "Lobby", update.host = p,
         NEW page, page = OnBoardInfo(OnRoomUpdate(p, OnJoined(FreshPage), update), map)
  PROVE  /\ page \in Pages /\ page.room = update /\ page.map = map
         /\ page.shown = {"guess", "lobby", "start"}
<1> DEFINE hid == Hide(FreshPage, {"join"})
           joined == OnJoined(FreshPage)
           told == OnRoomUpdate(p, joined, update)
<1>1. hid \in Pages /\ hid.shown = {"guess"}
  BY FreshPageOK, ShowHide
<1>2. joined = Show(hid, "lobby")  BY DEF OnJoined
<1>3. page = OnBoardInfo(told, map)  OBVIOUS
<1> HIDE DEF hid, joined
<1>4. joined \in Pages /\ joined.shown = {"guess", "lobby"}
  BY <1>1, <1>2, ShowHide, AllElements
<1>5. told = OnRoomUpdate(p, joined, update)  OBVIOUS
<1> HIDE DEF told
<1>6. /\ told \in Pages /\ told.room = update
      /\ told.shown = AfterUpdate(p, joined.shown, update)
  <2>1. joined \in Pages  BY <1>4
  <2>2. QED  BY ONLY <1>5, <2>1, update \in Updates, RoomUpdatePage
<1>7. told.shown = {"guess", "lobby", "start"}
  BY <1>4, <1>6 DEF AfterUpdate
<1>8. QED  BY <1>3, <1>6, <1>7, BoardInfoPage

(* A room just created has its creator's page in the lobby.                 *)
LEMMA InitClientInv == ClientInit => ClientInv
<1> SUFFICES ASSUME ClientInit  PROVE  ClientInv
  OBVIOUS
<1>1. ShownRoom  BY InitShownRoom
<1>2. TypeOK  BY <1>1 DEF ShownRoom, RoomInv
<1> DEFINE creator == 1
           page == OnBoardInfo(OnRoomUpdate(creator, OnJoined(FreshPage), RoomUpdate),
                               selected_map)
<1>3. /\ connected = {creator} /\ state = "Lobby" /\ selected_map \in Maps
      /\ host_id = creator
      /\ sent = [p \in PlayerIds |-> "none"] /\ evicted = {} /\ rejoins = 0
      /\ client = [p \in PlayerIds |->
           IF p \in connected
           THEN OnBoardInfo(OnRoomUpdate(p, OnJoined(FreshPage), RoomUpdate),
                            selected_map)
           ELSE FreshPage]
  BY DEF ClientInit, Init
<1> HIDE DEF creator
<1>4. creator \in PlayerIds  BY <1>2, <1>3 DEF TypeOK
<1>5. client = [p \in PlayerIds |-> IF p = creator THEN page ELSE FreshPage]
  BY <1>3, <1>4
<1>6. /\ RoomUpdate \in Updates
      /\ RoomUpdate.state = "Lobby" /\ RoomUpdate.host = creator
  BY <1>2, <1>3 DEF TypeOK, RoomUpdate, Updates
<1>7. /\ page \in Pages /\ page.room = RoomUpdate /\ page.map = selected_map
      /\ page.shown = {"guess", "lobby", "start"}
  BY <1>3, <1>6, CreatedPage
<1> HIDE DEF page
<1>8. client[creator] = page  BY <1>4, <1>5
<1>9. client \in [PlayerIds -> Pages]
      /\ \A p \in PlayerIds \ connected : client[p] = FreshPage
  BY <1>3, <1>5, <1>7, FreshPageOK
<1>10. ClientTypeOK
  BY <1>3, <1>9, ClientAssumption DEF ClientTypeOK
<1>11. KnownOK(creator)
  BY <1>3, <1>7, <1>8 DEF KnownOK, RoundInProgress
<1>12. ShownOK(creator)
  BY <1>3, <1>7, <1>8
  DEF ShownOK, SectionsOK, HostButtonsOK, PreparationOK, TurnOK, RoundInProgress
<1>13. \A p \in connected : PageOK(p)  BY <1>3, <1>11, <1>12 DEF PageOK
<1>14. QED  BY <1>1, <1>10, <1>13 DEF ClientInv

(* Every step keeps the invariant.                                          *)
LEMMA NextClientInv == ClientInv /\ [ClientNext]_allVars => ClientInv'
<1> SUFFICES ASSUME ClientInv, [ClientNext]_allVars  PROVE  ClientInv'
  OBVIOUS
<1>1. ShownRoom'  BY NextShownRoom DEF ClientInv
<1>2. CASE Join  BY <1>1, <1>2, JoinPages
<1>3. ASSUME NEW p \in players, Rejoin(p) \/ Drop(p)  PROVE  ClientInv'
  BY <1>1, <1>3, RejoinPages, DropPages
<1>4. ASSUME NEW p \in players, Buttons(p)  PROVE  ClientInv'
  BY <1>1, <1>4, SelectMapPages, StartGamePages, RestartGamePages, NextRoundPages,
     NextTurnPages
  DEF Buttons
<1>5. ASSUME NEW p \in players, Forms(p)  PROVE  ClientInv'
  BY <1>1, <1>5, ClickCrimePages, ClickGuessPages, SubmitCrimePages,
     SubmitGuessPages, RefusePages
  DEF Forms
<1>6. CASE CrimeWritingTimeout  BY <1>1, <1>6, CrimeWritingTimeoutPages
<1>7. CASE GuessTimeout  BY <1>1, <1>7, AnswerPages
<1>8. CASE Answered
  <2>1. ASSUME NEW c \in calls, EvaluationArrives(c)  PROVE  ClientInv'
    BY <1>1, <2>1, EvaluationPages
  <2>2. ASSUME NEW c \in calls, JudgementArrives(c)  PROVE  ClientInv'
    BY <1>1, <2>2, AnswerPages
  <2>3. QED  BY <1>8, <2>1, <2>2 DEF Answered
<1>9. CASE Silent \/ UNCHANGED allVars  BY <1>1, <1>9, SilentPages
<1>10. QED
  BY <1>2, <1>3, <1>4, <1>5, <1>6, <1>7, <1>8, <1>9 DEF ClientNext

-----------------------------------------------------------------------------
(* What of a page is on the screen lies within elements that are shown.     *)
LEMMA SeesWithin ==
  ASSUME NEW p
  PROVE  LET S == client[p].shown
         IN  /\ Sees(p, "start") <=> {"start", "lobby"} \subseteq S
             /\ Sees(p, "crime") <=> {"crime", "round"} \subseteq S
             /\ Sees(p, "score") <=> {"score", "round"} \subseteq S
             /\ Sees(p, "answer") <=> {"answer", "round"} \subseteq S
             /\ Sees(p, "guess") <=> {"guess", "round", "investigation"} \subseteq S
             /\ Sees(p, "loading") <=>
                  {"loading", "round", "investigation"} \subseteq S
             /\ Sees(p, "next_turn") <=>
                  {"next_turn", "round", "investigation", "advance"} \subseteq S
             /\ Sees(p, "next_round") <=> {"next_round", "result"} \subseteq S
             /\ Sees(p, "restart") <=> {"restart", "gameover"} \subseteq S
BY DEF Sees, Within

(* The page has the form, the spinner or the button for the next turn in an *)
(* investigation only, and only the detective's.                            *)
LEMMA SeesInTurn ==
  ASSUME NEW p, SectionsOK(p), PreparationOK(p), TurnOK(p),
         {"round", "investigation"} \subseteq client[p].shown
  PROVE  state = "Investigation" /\ p = current_detective
BY DEF SectionsOK, PreparationOK, TurnOK, RoundInProgress

-----------------------------------------------------------------------------
(* A second layer: a page that is still its player's only one does not      *)
(* offer a form that has been taken.                                        *)

(* While a guess is judged its form is off the screen and nothing is sent   *)
(* off.                                                                     *)
GuessTakenOnce(p) ==
  state = "Investigation" /\ guess_in_flight /\ p = current_detective =>
    "guess" \notin client[p].shown /\ sent[p] = "none"

(* In a first game a crime that is under way is this round's, its form is   *)
(* off the screen, and stays off while the crime is judged.                 *)
CrimeTakenOnce(p) ==
  /\ state = "Lobby" /\ games = 0 => sent[p] # "submit_crime"
  /\ state # "Lobby" /\ games <= 1 =>
       /\ sent[p] = "submit_crime" /\ p \notin has_been_criminal =>
            p = criminal_id /\ state = "CrimeWriting" /\ "crime" \notin client[p].shown
       /\ state = "AIJudging" => "crime" \notin client[p].shown

TakenOnce(p) == GuessTakenOnce(p) /\ CrimeTakenOnce(p)

GamesStarted == state # "Lobby" => games >= 1

OfferInv ==
  /\ ClientInv /\ RolesInv /\ GamesStarted
  /\ \A p \in connected \ evicted : TakenOnce(p)

(* The forms that a page has on the screen after a step it had before. *)
FormsHidden(q) ==
  \A e \in {"guess", "crime"} : e \in client'[q].shown => e \in client[q].shown

(* Back in the lobby, or still there. *)
LEMMA LobbyOnce ==
  ASSUME NEW q, state' = "Lobby", games' = 0 => sent'[q] # "submit_crime"
  PROVE  TakenOnce(q)'
BY DEF TakenOnce, GuessTakenOnce, CrimeTakenOnce

(* A step after which no crime is under way and no guess is judged. *)
LEMMA NoneTaken ==
  ASSUME NEW q, state' \notin {"Lobby", "AIJudging"},
         state' = "Investigation" => ~guess_in_flight',
         games' <= 1 /\ q \notin has_been_criminal' => sent'[q] # "submit_crime"
  PROVE  TakenOnce(q)'
BY DEF TakenOnce, GuessTakenOnce, CrimeTakenOnce

(* A step that ends the writing of the crime, or comes after it.            *)
LEMMA WritingOver ==
  ASSUME OfferInv, NEW q \in connected \ evicted, state # "Lobby",
         state' \notin {"Lobby", "AIJudging"},
         state' = "Investigation" => ~guess_in_flight',
         games' = games, sent'[q] \in {sent[q], "none"},
         has_been_criminal \subseteq has_been_criminal',
         state = "CrimeWriting" => criminal_id \in has_been_criminal'
  PROVE  TakenOnce(q)'
<1>1. CrimeTakenOnce(q)  BY DEF OfferInv, TakenOnce
<1>2. games' <= 1 /\ q \notin has_been_criminal' => sent'[q] # "submit_crime"
  BY <1>1 DEF CrimeTakenOnce
<1>3. QED  BY <1>2, NoneTaken

(* A step that leaves the round and the turn alone and shows no form. *)
LEMMA TakenKept ==
  ASSUME NEW q, TakenOnce(q), FormsHidden(q), sent'[q] \in {sent[q], "none"},
         UNCHANGED <<state, criminal_id, current_detective, guess_in_flight,
                     has_been_criminal, games>>
  PROVE  TakenOnce(q)'
BY DEF TakenOnce, GuessTakenOnce, CrimeTakenOnce, FormsHidden

(* room_update shows no form. *)
LEMMA UpdatedHides ==
  ASSUME TypeOK', NEW q, client[q] \in Pages, client'[q] = Updated(q, client[q])
  PROVE  FormsHidden(q)
<1>1. CASE state' # "Lobby"  BY <1>1, UpdatedPage DEF FormsHidden
<1>2. CASE state' = "Lobby" /\ q = host_id'  BY <1>2, UpdatedPage DEF FormsHidden
<1>3. CASE state' = "Lobby" /\ q # host_id'  BY <1>3, UpdatedPage DEF FormsHidden
<1>4. QED  BY <1>1, <1>2, <1>3

(* What the lemmas below use of the invariant. *)
LEMMA OfferKnown ==
  ASSUME OfferInv
  PROVE  /\ ClientInv /\ RolesOK /\ GamesStarted /\ TypeOK /\ StageOK
         /\ games \in Nat /\ connected \subseteq PlayerIds
         /\ sent \in [PlayerIds -> {"none", "submit_crime", "submit_guess"}]
         /\ \A q \in PlayerIds \ connected : sent[q] = "none"
         /\ \A q \in connected \ evicted :
              TakenOnce(q) /\ GuessTakenOnce(q) /\ CrimeTakenOnce(q)
<1>1. ClientInv /\ RolesOK /\ GamesStarted  BY DEF OfferInv, RolesInv
<1>2. TypeOK /\ StageOK /\ ClientTypeOK /\ connected \subseteq PlayerIds
  BY <1>1, KnownPages
<1>3. QED  BY <1>1, <1>2 DEF OfferInv, TakenOnce, TypeOK, ClientTypeOK

(* A lobby that has seen no game has no crime under way, a lobby after a    *)
(* game whatever was.                                                       *)
LEMMA LobbyTaken ==
  ASSUME OfferInv, ClientInv', NEW p, NEW q \in connected' \ evicted',
         Join \/ SelectMap(p) \/ RestartGame(p) \/ StartGame(p)
  PROVE  TakenOnce(q)'
<1>1. UNCHANGED <<sent, evicted>>  BY DEF Join, SelectMap, RestartGame, StartGame
<1>2. q \in PlayerIds  BY KnownPages DEF ClientInv, ShownRoom, RoomInv, TypeOK
<1>3. state = "Lobby" /\ games = 0 => sent[q] # "submit_crime"
  <2>1. CASE q \in connected  BY <1>1, <2>1, OfferKnown DEF CrimeTakenOnce
  <2>2. CASE q \notin connected  BY <1>2, <2>2, OfferKnown
  <2>3. QED  BY <2>1, <2>2
<1>4. CASE Join \/ SelectMap(p)
  <2>1. state = "Lobby" /\ state' = "Lobby" /\ games' = games
    BY <1>4 DEF Join, HandleJoin, SelectMap, HandleSelectMap, gameVars
  <2>2. QED  BY <1>1, <1>3, <2>1, LobbyOnce
<1>5. CASE RestartGame(p)
  <2>1. state = "GameOver" /\ state' = "Lobby" /\ games' = games
    BY <1>5 DEF RestartGame, HandleRestartGame
  <2>2. games' # 0  BY <2>1, OfferKnown DEF GamesStarted
  <2>3. QED  BY <2>1, <2>2, LobbyOnce
<1>6. CASE StartGame(p)
  <2>1. state = "Lobby" /\ state' = "CrimeWriting" /\ games' = games + 1
    BY <1>6 DEF StartGame, HandleStartGame, StartRound
  <2>2. games' <= 1 => games = 0  BY <2>1, OfferKnown
  <2>3. QED  BY <1>1, <1>3, <2>1, <2>2, NoneTaken
<1>7. QED  BY <1>4, <1>5, <1>6

(* The steps that begin a round or a turn, answer a turn, or end a round.   *)
LEMMA PhaseTaken ==
  ASSUME OfferInv, NEW p, NEW q \in connected' \ evicted',
         \/ NextRound(p) \/ NextTurn(p) \/ CrimeWritingTimeout \/ GuessTimeout
         \/ Answered
  PROVE  TakenOnce(q)'
<1>1. UNCHANGED <<sent, evicted>> /\ connected' = connected /\ games' = games
  BY DEF NextRound, HandleNextRound, NextTurn, HandleNextTurn, CrimeWritingTimeout,
         HandleCrimeWritingTimeout, GuessTimeout, HandleGuessTimeout, Answered,
         EvaluationArrives, HandleEvaluation, JudgementArrives, HandleJudgement,
         rosterVars, gameVars
<1>2. q \in connected \ evicted  BY <1>1
<1>3. RoomInv /\ FlagsOK /\ CallsOK /\ TimersOK /\ QuietOK
  BY DEF OfferInv, ClientInv, ShownRoom, RoomInv, ProgressInv
<1>4. CASE NextRound(p)
  <2>1. /\ state = "NextRound" /\ state' = "CrimeWriting"
        /\ has_been_criminal' = has_been_criminal
    BY <1>4 DEF NextRound, HandleNextRound, StartRound, scoreVars
  <2>2. QED  BY <1>1, <1>2, <2>1, WritingOver
<1>5. CASE NextTurn(p)
  <2>1. /\ state = "Investigation" /\ ~guess_in_flight'
        /\ state' \in {"Investigation", "NextRound", "GameOver"}
        /\ has_been_criminal \subseteq has_been_criminal'
    BY <1>3, <1>5
    DEF NextTurn, HandleNextTurn, BeginNextTurn, FinishRound, scoreVars, FlagsOK
  <2>2. QED  BY <1>1, <1>2, <2>1, WritingOver
<1>6. CASE CrimeWritingTimeout
  <2>1. /\ state = "CrimeWriting" /\ state' \in {"NextRound", "GameOver"}
        /\ has_been_criminal' = has_been_criminal \cup (players \cap {criminal_id})
    BY <1>6
    DEF CrimeWritingTimeout, HandleCrimeWritingTimeout, ExpiryApplies, FinishRound
  <2>2. criminal_id \in players
    BY <2>1, OfferKnown, CriminalKnown DEF RoundInProgress
  <2>3. QED  BY <1>1, <1>2, <2>1, <2>2, WritingOver
<1>7. CASE GuessTimeout
  <2>1. /\ state = "Investigation" /\ state' = state /\ ~guess_in_flight'
        /\ has_been_criminal' = has_been_criminal
    BY <1>3, <1>7
    DEF TimersOK, GuessTimeout, HandleGuessTimeout, ExpiryApplies, scoreVars
  <2>2. QED  BY <1>1, <1>2, <2>1, WritingOver
<1>8. ASSUME NEW c \in calls, EvaluationArrives(c)  PROVE  TakenOnce(q)'
  <2>1. state = "AIJudging"
    BY <1>3, <1>8 DEF CallsOK, EvaluationArrives, HandleEvaluation, AnswerApplies
  <2>2. /\ ~guess_in_flight' /\ state' \in {"Investigation", "NextRound", "GameOver"}
        /\ has_been_criminal \subseteq has_been_criminal'
    BY <1>3, <1>8, <2>1
    DEF QuietOK, EvaluationArrives, HandleEvaluation, BeginNextTurn, FinishRound,
        scoreVars
  <2>3. QED  BY <1>1, <1>2, <2>1, <2>2, WritingOver
<1>9. ASSUME NEW c \in calls, JudgementArrives(c)  PROVE  TakenOnce(q)'
  <2>1. state = "Investigation"
    BY <1>3, <1>9 DEF CallsOK, JudgementArrives, HandleJudgement, AnswerApplies
  <2>2. /\ state' = state /\ ~guess_in_flight'
        /\ has_been_criminal' = has_been_criminal
    BY <1>9 DEF JudgementArrives, HandleJudgement, scoreVars
  <2>3. QED  BY <1>1, <1>2, <2>1, <2>2, WritingOver
<1>10. QED  BY <1>4, <1>5, <1>6, <1>7, <1>8, <1>9 DEF Answered

(* An accepted crime is the one the criminal has sent off. *)
LEMMA SubmitCrimeTaken ==
  ASSUME OfferInv, ClientInv', NEW p \in players, NEW q \in connected' \ evicted',
         SubmitCrime(p)
  PROVE  TakenOnce(q)'
<1>1. /\ state = "CrimeWriting" /\ state' = "AIJudging" /\ p = criminal_id
      /\ sent' = [sent EXCEPT ![p] = "none"] /\ evicted' = evicted
      /\ connected' = connected
      /\ UNCHANGED <<criminal_id, has_been_criminal, games>>
      /\ sent[p] = "submit_crime" \/ p \in evicted
      /\ Deliver([r \in PlayerIds |-> Updated(r, client[r])])
  BY DEF SubmitCrime, Submitted, HandleSubmitCrime, rosterVars, gameVars, scoreVars
<1>2. q \in connected \ evicted /\ q \in PlayerIds  BY <1>1, OfferKnown
<1>3. criminal_id \notin has_been_criminal
  BY <1>1, OfferKnown, CriminalKnown DEF RoundInProgress
<1>4. CrimeTakenOnce(q)  BY <1>2, OfferKnown
<1>5. CASE q = p
  <2>1. sent'[q] = "none"  BY <1>1, <1>2, <1>5, OfferKnown
  <2>2. games <= 1 => "crime" \notin client[q].shown
    BY <1>1, <1>2, <1>3, <1>4, <1>5 DEF CrimeTakenOnce
  <2>3. client'[q] = Updated(q, client[q])  BY <1>1, <1>2 DEF Deliver
  <2>4. FormsHidden(q)
    <3>1. client[q] \in Pages /\ TypeOK'
      BY <1>2, OfferKnown, KnownPages DEF ClientInv, ShownRoom, RoomInv
    <3>2. QED  BY <2>3, <3>1, UpdatedHides
  <2>5. QED
    BY <1>1, <2>1, <2>2, <2>4
    DEF TakenOnce, GuessTakenOnce, CrimeTakenOnce, FormsHidden
<1>6. CASE q # p
  <2>1. sent'[q] = sent[q]  BY <1>1, <1>2, <1>6, OfferKnown
  <2>2. "crime" \notin client'[q].shown
    <3>1. PreparationOK(q)'  BY <1>1, <1>2 DEF ClientInv, PageOK, ShownOK
    <3>2. QED  BY <1>1, <1>6, <3>1 DEF PreparationOK
  <2>3. games <= 1 /\ q \notin has_been_criminal => sent[q] # "submit_crime"
    BY <1>1, <1>4, <1>6 DEF CrimeTakenOnce
  <2>4. QED
    BY <1>1, <2>1, <2>2, <2>3 DEF TakenOnce, GuessTakenOnce, CrimeTakenOnce
<1>7. QED  BY <1>5, <1>6

(* An accepted guess leaves its form hidden and nothing under way.          *)
LEMMA SubmitGuessTaken ==
  ASSUME OfferInv, NEW p \in players, NEW q \in connected' \ evicted', NEW text,
         SubmitGuess(p, text)
  PROVE  TakenOnce(q)'
<1>1. /\ state = "Investigation" /\ p = current_detective
      /\ sent' = [sent EXCEPT ![p] = "none"] /\ evicted' = evicted
      /\ connected' = connected
      /\ UNCHANGED <<state, current_detective, criminal_id, has_been_criminal, games>>
      /\ Deliver([client EXCEPT ![p] = OnGuessPending(@)])
  BY DEF SubmitGuess, HandleSubmitGuess, MayGuess, rosterVars, gameVars, scoreVars
<1>2. q \in connected \ evicted /\ q \in PlayerIds  BY <1>1, OfferKnown
<1>3. /\ client \in [PlayerIds -> Pages] /\ client[q] \in Pages /\ CrimeTakenOnce(q)
  BY <1>2, OfferKnown, KnownPages DEF ClientTypeOK
<1>4. CASE q = p
  <2>1. sent'[q] = "none"  BY <1>1, <1>2, <1>4, OfferKnown
  <2>2. client'[q] = OnGuessPending(client[q])
    BY <1>1, <1>2, <1>3, <1>4 DEF Deliver
  <2>3. "guess" \notin client'[q].shown
    BY <1>3, <2>2, GuessPendingPage
  <2>4. QED
    BY <1>1, <2>1, <2>3 DEF TakenOnce, GuessTakenOnce, CrimeTakenOnce
<1>5. CASE q # p
  <2>1. sent'[q] = sent[q]  BY <1>1, <1>2, <1>5, OfferKnown
  <2>2. QED
    BY <1>1, <1>3, <1>5, <2>1 DEF TakenOnce, GuessTakenOnce, CrimeTakenOnce
<1>6. QED  BY <1>4, <1>5

(* A refused form was not of a turn whose guess is judged, and only that    *)
(* form comes back.                                                         *)
LEMMA RefuseTaken ==
  ASSUME OfferInv, NEW p \in players, NEW q \in connected' \ evicted', Refuse(p)
  PROVE  TakenOnce(q)'
<1>1. /\ UNCHANGED <<vars, evicted, rejoins>> /\ sent[p] # "none"
      /\ client' = [client EXCEPT ![p] = OnError(p, @)]
      /\ sent' = [sent EXCEPT ![p] = "none"]
  BY DEF Refuse
<1>2. /\ connected' = connected /\ q \in connected \ evicted
      /\ UNCHANGED <<state, current_detective, guess_in_flight, criminal_id,
                     has_been_criminal, games>>
  BY <1>1 DEF vars, rosterVars, gameVars, scoreVars, turnVars
<1>3. /\ client \in [PlayerIds -> Pages] /\ client[q] \in Pages
      /\ q \in PlayerIds /\ TakenOnce(q) /\ GuessTakenOnce(q) /\ CrimeTakenOnce(q)
  BY <1>2, OfferKnown, KnownPages DEF ClientTypeOK
<1>4. CASE q = p
  <2>1. sent'[q] = "none"  BY <1>1, <1>3, <1>4, OfferKnown
  <2>2. "crime" \in client'[q].shown => "crime" \in client[q].shown
    <3> DEFINE page == OnError(q, client[q])
    <3>1. client'[q] = page  BY <1>1, <1>3, <1>4
    <3>2. \/ page.shown = client[q].shown
          \/ page.shown = (client[q].shown \ {"loading"}) \cup {"guess"}
      BY <1>3, ErrorPage
    <3> HIDE DEF page
    <3>3. QED  BY <3>1, <3>2
  <2>3. ~(state = "Investigation" /\ guess_in_flight /\ q = current_detective)
    BY <1>1, <1>3, <1>4 DEF GuessTakenOnce
  <2>4. QED
    BY <1>2, <1>3, <2>1, <2>2, <2>3
    DEF TakenOnce, GuessTakenOnce, CrimeTakenOnce
<1>5. CASE q # p
  <2>1. sent'[q] = sent[q] /\ client'[q] = client[q]
    BY <1>1, <1>3, <1>5, OfferKnown
  <2>2. QED  BY <1>2, <1>3, <2>1, TakenKept DEF FormsHidden
<1>6. QED  BY <1>4, <1>5

(* A click sends off a form that is on the screen, and hides it. *)
LEMMA ClickTaken ==
  ASSUME OfferInv, NEW p \in players, NEW q \in connected' \ evicted',
         ClickSubmitCrime(p) \/ ClickSubmitGuess(p)
  PROVE  TakenOnce(q)'
<1>1. UNCHANGED <<vars, evicted, rejoins>>
  BY DEF ClickSubmitCrime, ClickSubmitGuess
<1>2. /\ connected' = connected /\ q \in connected \ evicted
      /\ UNCHANGED <<state, current_detective, guess_in_flight, criminal_id,
                     has_been_criminal, games>>
  BY <1>1 DEF vars, rosterVars, gameVars, scoreVars, turnVars
<1>3. /\ client \in [PlayerIds -> Pages] /\ client[q] \in Pages
      /\ q \in PlayerIds /\ TakenOnce(q) /\ GuessTakenOnce(q) /\ CrimeTakenOnce(q)
      /\ SectionsOK(q) /\ PreparationOK(q) /\ TurnOK(q)
  BY <1>2, OfferKnown, KnownPages DEF ClientTypeOK
<1>4. CASE ClickSubmitCrime(p) /\ q = p
  <2>1. /\ {"crime", "round"} \subseteq client[q].shown
        /\ sent'[q] = "submit_crime"
        /\ client'[q] = Show(Hide(client[q], {"crime"}), "waiting")
    BY <1>3, <1>4, OfferKnown, SeesWithin DEF ClickSubmitCrime
  <2>2. state \in {"CrimeWriting", "AIJudging"} /\ q = criminal_id
    BY <1>3, <2>1 DEF SectionsOK, PreparationOK, TurnOK, RoundInProgress
  <2>3. "crime" \notin client'[q].shown
    <3> DEFINE hid == Hide(client[q], {"crime"})
    <3>1. hid \in Pages /\ hid.shown = client[q].shown \ {"crime"}
      BY <1>3, ShowHide
    <3>2. client'[q] = Show(hid, "waiting")  BY <2>1
    <3> HIDE DEF hid
    <3>3. Show(hid, "waiting").shown = hid.shown \cup {"waiting"}
      BY <3>1, ShowHide, AllElements
    <3>4. QED  BY <3>1, <3>2, <3>3
  <2>4. games <= 1 => state = "CrimeWriting"
    BY <1>3, <2>1, <2>2 DEF CrimeTakenOnce
  <2>5. QED
    BY <1>2, <2>2, <2>3, <2>4 DEF TakenOnce, GuessTakenOnce, CrimeTakenOnce
<1>5. CASE ClickSubmitGuess(p) /\ q = p
  <2>1. /\ {"guess", "round", "investigation"} \subseteq client[q].shown
        /\ sent'[q] = "submit_guess"
        /\ client'[q] = OnGuessPending(client[q])
    BY <1>3, <1>5, OfferKnown, SeesWithin DEF ClickSubmitGuess
  <2>2. state = "Investigation" /\ q = current_detective
    BY <1>3, <2>1, SeesInTurn
  <2>3. ~guess_in_flight  BY <1>3, <2>1, <2>2 DEF GuessTakenOnce
  <2>4. QED
    BY <1>2, <2>1, <2>2, <2>3 DEF TakenOnce, GuessTakenOnce, CrimeTakenOnce
<1>6. CASE q # p
  <2>1. sent'[q] = sent[q] /\ client'[q] = client[q]
    BY <1>3, <1>6, OfferKnown DEF ClickSubmitCrime, ClickSubmitGuess
  <2>2. QED  BY <1>2, <1>3, <2>1, TakenKept DEF FormsHidden
<1>7. QED  BY <1>4, <1>5, <1>6

(* Who comes back while the crime is judged does not get its form.          *)
LEMMA SyncedHides ==
  ASSUME TypeOK', StageOK', NEW p \in PlayerIds, state' = "AIJudging",
         NEW page, page = Snapshot(p, OnRejoined(Updated(p, FreshPage))),
         client'[p] = OnGameStateSync(p, page, GameStateSync(p)')
  PROVE  "crime" \notin client'[p].shown
<1> DEFINE sync == GameStateSync(p)'
           new == client'[p]
<1>1. page \in Pages /\ page.shown = {"guess"}  BY ReturnedPage
<1>2. RoundInProgress'  BY DEF RoundInProgress
<1>3. sync.state = "AIJudging" /\ SyncOfRound(sync)  BY <1>2, SyncFields
<1>4. new = OnGameStateSync(p, page, sync)  OBVIOUS
<1> HIDE DEF sync, new
<1>5. RoundSynced(p, page, sync, new)  BY ONLY <1>1, <1>3, <1>4, RoundSyncPage
<1>6. PICK e \in {"crime", "investigation", "waiting"} :
        /\ new.shown = RoundShown(page, sync) \cup {e}
        /\ e = "crime" => sync.state = "CrimeWriting"
  BY <1>5 DEF RoundSynced
<1>7. "crime" \notin RoundShown(page, sync)  BY DEF RoundShown, Only
<1>8. QED  BY <1>3, <1>6, <1>7 DEF new

(* A rejoin replaces a page, which is then excused, or brings back a player *)
(* who has nothing under way and no turn.                                   *)
LEMMA RejoinTaken ==
  ASSUME OfferInv, ClientInv', NEW p \in players, NEW q \in connected' \ evicted',
         Rejoin(p)
  PROVE  TakenOnce(q)'
<1> DEFINE page == Snapshot(p, OnRejoined(Updated(p, FreshPage)))
<1>1. /\ connected' = connected \cup {p}
      /\ evicted' = evicted \cup ({p} \cap connected)
      /\ sent' \in {sent, [sent EXCEPT ![p] = "none"]}
      /\ UNCHANGED <<state, current_detective, guess_in_flight, criminal_id,
                     has_been_criminal, games>>
      /\ Deliver([r \in PlayerIds |->
           IF r = p THEN OnGameStateSync(p, page, GameStateSync(p)')
           ELSE Updated(r, client[r])])
  BY DEF Rejoin, HandleReconnect, gameVars, scoreVars, turnVars
<1> HIDE DEF page
<1>2. /\ TypeOK' /\ StageOK' /\ connected' \subseteq PlayerIds
      /\ p \in PlayerIds /\ q \in PlayerIds
  BY OfferKnown DEF ClientInv, ShownRoom, RoomInv, TypeOK
<1>3. CASE q # p
  <2>1. q \in connected \ evicted  BY <1>1, <1>3
  <2>2. client[q] \in Pages /\ TakenOnce(q)  BY <2>1, OfferKnown, KnownPages
  <2>3. client'[q] = Updated(q, client[q])  BY <1>1, <1>2, <1>3 DEF Deliver
  <2>4. FormsHidden(q)  BY <1>2, <2>2, <2>3, UpdatedHides
  <2>5. sent'[q] = sent[q]  BY <1>1, <1>2, <1>3, OfferKnown
  <2>6. QED  BY <1>1, <2>2, <2>4, <2>5, TakenKept
<1>4. CASE q = p
  <2>1. q \notin connected  BY <1>1, <1>4
  <2>2. sent'[q] = "none"  BY <1>1, <1>2, <1>4, <2>1, OfferKnown
  <2>3. state' = "Investigation" => q # current_detective'
    BY <1>1, <2>1, OfferKnown DEF StageOK, Detectives
  <2>4. state' = "AIJudging" => "crime" \notin client'[q].shown
    <3>1. client'[p] = OnGameStateSync(p, page, GameStateSync(p)')
      BY <1>1, <1>2 DEF Deliver
    <3>2. QED  BY <1>2, <1>4, <3>1, SyncedHides DEF page
  <2>5. QED
    BY <2>2, <2>3, <2>4 DEF TakenOnce, GuessTakenOnce, CrimeTakenOnce
<1>5. QED  BY <1>3, <1>4

(* A drop ends the round or the turn of who drops, or is only told.         *)
LEMMA DropTaken ==
  ASSUME OfferInv, ClientInv', NEW p \in players, NEW q \in connected' \ evicted',
         Drop(p)
  PROVE  TakenOnce(q)'
<1>1. /\ connected' = connected \ {p} /\ evicted' = evicted
      /\ sent' = [sent EXCEPT ![p] = "none"]
      /\ HandleDisconnect(p) /\ criminal_id' = criminal_id /\ games' = games
  BY DEF Drop, Closed, HandleDisconnect, gameVars
<1>2. /\ q \in connected \ evicted /\ q # p /\ q \in PlayerIds
      /\ client[q] \in Pages /\ TypeOK' /\ TakenOnce(q)
  BY <1>1, OfferKnown, KnownPages DEF ClientInv, ShownRoom, RoomInv
<1>3. sent'[q] = sent[q]  BY <1>1, <1>2, OfferKnown
<1>4. CASE p = criminal_id /\ RoundInProgress
  <2>1. /\ state # "Lobby" /\ state' \in {"NextRound", "GameOver"}
        /\ has_been_criminal' = has_been_criminal \cup (players \cap {criminal_id})
    BY <1>1, <1>4
    DEF HandleDisconnect, LeaveLobby, AbortRound, LeaveInvestigation, LeaveQuietly,
        FinishRound, RoundInProgress
  <2>2. QED  BY <1>1, <1>2, <1>3, <1>4, <2>1, WritingOver
<1>5. CASE /\ p = current_detective /\ state = "Investigation"
           /\ ~(p = criminal_id /\ RoundInProgress)
  <2>1. /\ state' \in {"Investigation", "NextRound", "GameOver"} /\ ~guess_in_flight'
        /\ has_been_criminal \subseteq has_been_criminal'
    BY <1>1, <1>5
    DEF HandleDisconnect, LeaveLobby, AbortRound, LeaveInvestigation, LeaveQuietly,
        BeginNextTurn, FinishRound, scoreVars
  <2>2. QED  BY <1>1, <1>2, <1>3, <1>5, <2>1, WritingOver
<1>6. CASE /\ ~(p = criminal_id /\ RoundInProgress)
           /\ ~(p = current_detective /\ state = "Investigation")
  <2>1. UNCHANGED <<state, current_detective, guess_in_flight, has_been_criminal>>
    BY <1>1, <1>6
    DEF HandleDisconnect, LeaveLobby, AbortRound, LeaveInvestigation, LeaveQuietly,
        scoreVars, turnVars
  <2>2. client'[q] = Updated(q, client[q])
    <3>1. q \in connected'  OBVIOUS
    <3>2. QED  BY <1>2, <1>6, <3>1 DEF Drop, Deliver
  <2>3. FormsHidden(q)  BY <1>2, <2>2, UpdatedHides
  <2>4. QED  BY <1>1, <1>2, <1>3, <2>1, <2>3, TakenKept
<1>7. QED  BY <1>4, <1>5, <1>6

(* Nothing is told and nothing taken. *)
LEMMA SilentTaken ==
  ASSUME OfferInv, NEW q \in connected' \ evicted', Silent \/ UNCHANGED allVars
  PROVE  TakenOnce(q)'
<1>1. /\ UNCHANGED <<state, rosterVars, gameVars, scoreVars, turnVars>>
      /\ UNCHANGED <<client, sent, evicted>>
  BY DEF Silent, TimerExpires, DropExpiry, DropAnswer, Gone, allVars, vars, clientVars
<1>2. /\ q \in connected \ evicted
      /\ UNCHANGED <<criminal_id, current_detective, guess_in_flight,
                     has_been_criminal, games>>
  BY <1>1 DEF rosterVars, gameVars, scoreVars, turnVars
<1>3. QED  BY <1>1, <1>2, OfferKnown, TakenKept DEF FormsHidden

(* The room has no phase of a game before a game is started.                *)
LEMMA NextStarted == OfferInv /\ [Next]_vars => GamesStarted'
<1> SUFFICES ASSUME OfferInv, [Next]_vars  PROVE  GamesStarted'
  OBVIOUS
<1>1. GamesStarted /\ games \in Nat /\ RoomInv
  BY OfferKnown, KnownPages
<1>2. ASSUME games' = games, state = "Lobby" => state' = "Lobby"  PROVE  GamesStarted'
  BY <1>1, <1>2 DEF GamesStarted
<1>3. CASE HandleJoin \/ \E p \in players : HandleReconnect(p) \/ HandleDisconnect(p)
  BY <1>2, <1>3
  DEF HandleJoin, HandleReconnect, HandleDisconnect, LeaveLobby, AbortRound,
      LeaveInvestigation, LeaveQuietly, gameVars
<1>4. ASSUME NEW p \in players, Message(p)  PROVE  GamesStarted'
  <2>1. CASE HandleStartGame(p)
    BY <1>1, <2>1 DEF HandleStartGame, GamesStarted
  <2>2. CASE (\E m \in Maps : HandleSelectMap(p, m)) \/ HandleRestartGame(p)
               \/ HandleNextRound(p)
    BY <1>2, <2>2 DEF HandleSelectMap, HandleRestartGame, HandleNextRound, gameVars
  <2>3. CASE HandleSubmitCrime(p) \/ (\E text \in GuessTexts : HandleSubmitGuess(p, text))
               \/ HandleNextTurn(p)
    BY <1>2, <2>3
    DEF HandleSubmitCrime, HandleSubmitGuess, MayGuess, HandleNextTurn, gameVars
  <2>4. QED  BY <1>4, <2>1, <2>2, <2>3 DEF Message
<1>5. CASE TimerExpires \/ Expiry \/ Gone \/ UNCHANGED vars
  <2>1. CASE HandleCrimeWritingTimeout
    BY <1>2, <2>1 DEF HandleCrimeWritingTimeout, ExpiryApplies, gameVars
  <2>2. CASE TimerExpires \/ HandleGuessTimeout \/ DropExpiry \/ UNCHANGED vars
    BY <1>2, <2>2 DEF TimerExpires, HandleGuessTimeout, DropExpiry, vars, gameVars
  <2>3. QED  BY <1>5, <2>1, <2>2 DEF Expiry, Gone
<1>6. CASE Answer
  <2>1. ASSUME NEW c \in calls, HandleEvaluation(c)  PROVE  GamesStarted'
    <3>1. state = "AIJudging" /\ games' = games
      BY <1>1, <2>1 DEF RoomInv, CallsOK, HandleEvaluation, AnswerApplies, gameVars
    <3>2. QED  BY <1>2, <3>1
  <2>2. ASSUME NEW c \in calls,
               DropAnswer(c) \/ \E correct \in BOOLEAN : HandleJudgement(c, correct)
        PROVE  GamesStarted'
    BY <1>2, <2>2 DEF DropAnswer, HandleJudgement, gameVars
  <2>3. QED  BY <1>6, <2>1, <2>2 DEF Answer
<1>7. QED  BY <1>3, <1>4, <1>5, <1>6 DEF Next

(* A room just created has nothing under way. *)
LEMMA InitOffer == ClientInit => OfferInv
<1> SUFFICES ASSUME ClientInit  PROVE  OfferInv
  OBVIOUS
<1>1. /\ state = "Lobby" /\ connected \subseteq PlayerIds
      /\ sent = [p \in PlayerIds |-> "none"]
  BY InitClientInv DEF ClientInit, Init, ClientInv, ShownRoom, RoomInv, TypeOK
<1>2. \A p \in connected \ evicted : TakenOnce(p)
  BY <1>1 DEF TakenOnce, GuessTakenOnce, CrimeTakenOnce
<1>3. RolesInv /\ GamesStarted
  BY <1>1 DEF RolesInv, RolesOK, SolvedOK, RoundInProgress, GamesStarted
<1>4. QED  BY <1>2, <1>3, InitClientInv DEF OfferInv

(* Every step keeps the second layer. *)
LEMMA NextOffer == OfferInv /\ [ClientNext]_allVars => OfferInv'
<1> SUFFICES ASSUME OfferInv, [ClientNext]_allVars  PROVE  OfferInv'
  OBVIOUS
<1>1. ClientInv' /\ RolesInv' /\ GamesStarted'
  <2>1. ClientInv /\ RoomInv /\ RolesInv /\ [Next]_vars
    BY OfferKnown, KnownPages, ClientStep DEF OfferInv
  <2>2. QED  BY <2>1, NextClientInv, NextRoles, NextStarted
<1>2. ASSUME NEW q \in connected' \ evicted'  PROVE  TakenOnce(q)'
  <2>1. CASE Join  BY <1>1, <2>1, LobbyTaken
  <2>2. ASSUME NEW p \in players, Rejoin(p) \/ Drop(p)  PROVE  TakenOnce(q)'
    BY <1>1, <2>2, RejoinTaken, DropTaken
  <2>3. ASSUME NEW p \in players, Buttons(p)  PROVE  TakenOnce(q)'
    BY <1>1, <2>3, LobbyTaken, PhaseTaken DEF Buttons
  <2>4. ASSUME NEW p \in players, Forms(p)  PROVE  TakenOnce(q)'
    BY <1>1, <2>4, ClickTaken, SubmitCrimeTaken, SubmitGuessTaken, RefuseTaken
    DEF Forms
  <2>5. CASE CrimeWritingTimeout \/ GuessTimeout \/ Answered
    BY <2>5, PhaseTaken
  <2>6. CASE Silent \/ UNCHANGED allVars  BY <2>6, SilentTaken
  <2>7. QED  BY <2>1, <2>2, <2>3, <2>4, <2>5, <2>6 DEF ClientNext
<1>3. QED  BY <1>1, <1>2 DEF OfferInv

-----------------------------------------------------------------------------
(* The theorems. *)

(* Whatever is sent, clicked, dropped or answered, in whatever order: the   *)
(* pages of a room that is in good order show what the room is in.          *)
THEOREM ClientInvariant == ClientSpec => []ClientInv
<1>1. QED  BY InitClientInv, NextClientInv, PTL DEF ClientSpec

(* The pages and forms have their types; who is not connected has neither.  *)
THEOREM ClientTypesCorrect == ClientSpec => []ClientTypeOK
<1>1. ClientInv => ClientTypeOK  BY DEF ClientInv
<1>2. QED  BY <1>1, ClientInvariant, PTL

(* No handler ends without telling everybody: a page that has read all      *)
(* shows the roster, phase, host, map, role and turn that the room is in.   *)
THEOREM PagesCorrect == ClientSpec => []PagesCurrent
<1>1. ClientInv => PagesCurrent
  BY DEF ClientInv, PagesCurrent, PageOK, KnownOK
<1>2. QED  BY <1>1, ClientInvariant, PTL

(* One section is on the screen, the one for the phase.                     *)
THEOREM ScreenCorrect == ClientSpec => []ScreenFollowsPhase
<1>1. ClientInv => ScreenFollowsPhase
  <2> SUFFICES ASSUME ClientInv  PROVE  ScreenFollowsPhase
    OBVIOUS
  <2>1. state \in States  BY KnownPages DEF TypeOK
  <2>2. ASSUME NEW p \in connected
        PROVE  CASE state = "Lobby" -> Screens(p) = {"lobby"}
                 [] state = "NextRound" -> Screens(p) = {"result"}
                 [] state = "GameOver" ->
                      /\ Screens(p) \subseteq {"gameover"}
                      /\ rejoins = 0 => Screens(p) # {}
                 [] OTHER -> Screens(p) = {"round"}
    <3>1. SectionsOK(p)  BY KnownPages
    <3>2. Screens(p) = client[p].shown \cap
                         {"join", "lobby", "round", "result", "gameover"}
      BY DEF Screens, Sections
    <3>3. CASE state = "Lobby"
      BY <3>1, <3>2, <3>3 DEF SectionsOK, RoundInProgress
    <3>4. CASE state = "NextRound"
      BY <3>1, <3>2, <3>4 DEF SectionsOK, RoundInProgress
    <3>5. CASE state = "GameOver"
      BY <3>1, <3>2, <3>5 DEF SectionsOK, RoundInProgress
    <3>6. CASE RoundInProgress
      <4>1. Screens(p) = {"round"}
        BY <3>1, <3>2, <3>6 DEF SectionsOK, RoundInProgress
      <4>2. QED  BY <3>6, <4>1 DEF RoundInProgress
    <3>7. QED  BY <2>1, <3>3, <3>4, <3>5, <3>6 DEF States, RoundInProgress
  <2>3. QED  BY <2>2 DEF ScreenFollowsPhase
<1>2. QED  BY <1>1, ClientInvariant, PTL

(* The detective who may guess has the form in front of them or has sent it *)
(* off; nobody else has it, and nobody but the criminal the other one.      *)
THEOREM FormsCorrect == ClientSpec => []ActorHasForm
<1>1. ClientInv => ActorHasForm
  <2> SUFFICES ASSUME ClientInv, NEW p \in connected
               PROVE  /\ MayGuess(p) => Sees(p, "guess") \/ sent[p] = "submit_guess"
                      /\ Sees(p, "guess") =>
                           state = "Investigation" /\ p = current_detective
                      /\ Sees(p, "crime") =>
                           /\ state \in {"CrimeWriting", "AIJudging"}
                           /\ p = criminal_id
    BY DEF ActorHasForm
  <2>1. SectionsOK(p) /\ PreparationOK(p) /\ TurnOK(p)  BY KnownPages
  <2>2. MayGuess(p) => Sees(p, "guess") \/ sent[p] = "submit_guess"
    BY <2>1, SeesWithin DEF MayGuess, SectionsOK, TurnOK, RoundInProgress
  <2>3. Sees(p, "guess") => state = "Investigation" /\ p = current_detective
    BY <2>1, SeesWithin, SeesInTurn
  <2>4. Sees(p, "crime") => state \in {"CrimeWriting", "AIJudging"} /\ p = criminal_id
    BY <2>1, SeesWithin DEF SectionsOK, PreparationOK, TurnOK, RoundInProgress
  <2>5. QED  BY <2>2, <2>3, <2>4
<1>2. QED  BY <1>1, ClientInvariant, PTL

(* Nor does the order of joins, drops, rejoins and late answers matter to   *)
(* the forms: one that has been taken is not on the screen of a page that   *)
(* is still its player's only one, nor, in a first game, on its way again.  *)
THEOREM OfferInvariant == ClientSpec => []OfferInv
<1>1. QED  BY InitOffer, NextOffer, PTL DEF ClientSpec

(* Start, submit of both forms, next_turn, next_round and restart: each is  *)
(* on the screen of a player the room takes it from, in the phase and turn  *)
(* it takes it in - but for the forms of a turn already answered, of a page *)
(* that has replaced one still up, and after a first game.                  *)
THEOREM ButtonsCorrect == ClientSpec => []OfferedIsAccepted
<1>1. OfferInv => OfferedIsAccepted
  <2> SUFFICES ASSUME OfferInv, NEW p \in connected
               PROVE  /\ Sees(p, "start") => state = "Lobby" /\ p = host_id
                      /\ Sees(p, "crime") =>
                           /\ p = criminal_id
                           /\ \/ state = "CrimeWriting"
                              \/ state = "AIJudging" /\ (p \in evicted \/ games > 1)
                      /\ Sees(p, "guess") =>
                           /\ state = "Investigation" /\ p = current_detective
                           /\ MayGuess(p) \/ awaiting_advance \/ p \in evicted
                      /\ Sees(p, "next_turn") =>
                           /\ state = "Investigation" /\ awaiting_advance
                           /\ p \in {current_detective, host_id}
                      /\ Sees(p, "next_round") => state = "NextRound" /\ p = host_id
                      /\ Sees(p, "restart") => state = "GameOver" /\ p = host_id
    BY DEF OfferedIsAccepted
  <2>1. /\ SectionsOK(p) /\ HostButtonsOK(p) /\ PreparationOK(p) /\ TurnOK(p)
        /\ games \in Nat
        /\ p \notin evicted => GuessTakenOnce(p) /\ CrimeTakenOnce(p)
    BY OfferKnown, KnownPages
  <2>2. Sees(p, "start") => state = "Lobby" /\ p = host_id
    BY <2>1, SeesWithin DEF HostButtonsOK
  <2>3. ASSUME Sees(p, "crime")
        PROVE  /\ p = criminal_id
               /\ \/ state = "CrimeWriting"
                  \/ state = "AIJudging" /\ (p \in evicted \/ games > 1)
    <3>1. {"crime", "round"} \subseteq client[p].shown  BY <2>3, SeesWithin
    <3>2. p = criminal_id /\ state \in {"CrimeWriting", "AIJudging"}
      BY <2>1, <3>1 DEF SectionsOK, PreparationOK, TurnOK, RoundInProgress
    <3>3. state = "AIJudging" /\ p \notin evicted => ~(games <= 1)
      BY <2>1, <3>1 DEF CrimeTakenOnce
    <3>4. QED  BY <2>1, <3>2, <3>3
  <2>4. ASSUME Sees(p, "guess")
        PROVE  /\ state = "Investigation" /\ p = current_detective
               /\ MayGuess(p) \/ awaiting_advance \/ p \in evicted
    <3>1. {"guess", "round", "investigation"} \subseteq client[p].shown
      BY <2>4, SeesWithin
    <3>2. state = "Investigation" /\ p = current_detective
      BY <2>1, <3>1, SeesInTurn
    <3>3. p \notin evicted => ~guess_in_flight
      BY <2>1, <3>1, <3>2 DEF GuessTakenOnce
    <3>4. QED  BY <3>2, <3>3 DEF MayGuess
  <2>5. ASSUME Sees(p, "next_turn")
        PROVE  state = "Investigation" /\ awaiting_advance /\ p = current_detective
    <3>1. {"next_turn", "round", "investigation", "advance"} \subseteq client[p].shown
      BY <2>5, SeesWithin
    <3>2. state = "Investigation" /\ p = current_detective
      BY <2>1, <3>1, SeesInTurn
    <3>3. QED  BY <2>1, <3>1, <3>2 DEF TurnOK
  <2>6. /\ Sees(p, "next_round") => state = "NextRound" /\ p = host_id
        /\ Sees(p, "restart") => state = "GameOver" /\ p = host_id
    BY <2>1, SeesWithin DEF SectionsOK, HostButtonsOK
  <2>7. QED  BY <2>2, <2>3, <2>4, <2>5, <2>6
<1>2. QED  BY <1>1, OfferInvariant, PTL

(* The score is before everybody's eyes while they investigate and not      *)
(* before; what the AI made of the crime is before the criminal's only.     *)
THEOREM KnowledgeCorrect == ClientSpec => []KnowledgeShared
<1>1. ClientInv => KnowledgeShared
  <2> SUFFICES ASSUME ClientInv, NEW p \in connected
               PROVE  /\ Sees(p, "score") <=> state = "Investigation"
                      /\ Sees(p, "answer") <=>
                           state = "Investigation" /\ p = criminal_id
    BY DEF KnowledgeShared
  <2>1. SectionsOK(p) /\ PreparationOK(p) /\ TurnOK(p)  BY KnownPages
  <2>2. QED
    BY <2>1, SeesWithin DEF SectionsOK, PreparationOK, TurnOK, RoundInProgress
<1>2. QED  BY <1>1, ClientInvariant, PTL

(* A page that says a guess is being judged has sent one off, or the room   *)
(* is having it judged.                                                     *)
THEOREM SpinnerCorrect == ClientSpec => []SpinnerHasCause
<1>1. ClientInv => SpinnerHasCause
  <2> SUFFICES ASSUME ClientInv, NEW p \in connected, Sees(p, "loading")
               PROVE  \/ sent[p] = "submit_guess"
                      \/ guess_in_flight /\ p = current_detective
    BY DEF SpinnerHasCause
  <2>1. SectionsOK(p) /\ PreparationOK(p) /\ TurnOK(p)  BY KnownPages
  <2>2. {"loading", "round", "investigation"} \subseteq client[p].shown
    BY SeesWithin
  <2>3. state = "Investigation" /\ p = current_detective
    BY <2>1, <2>2, SeesInTurn
  <2>4. QED  BY <2>1, <2>2, <2>3 DEF TurnOK
<1>2. QED  BY <1>1, ClientInvariant, PTL

(* Where the game waits for a click, somebody has the button.               *)
THEOREM GoingOnCorrect == ClientSpec => []SomebodyCanGoOn
<1>1. ClientInv => SomebodyCanGoOn
  <2> SUFFICES ASSUME ClientInv  PROVE  SomebodyCanGoOn
    OBVIOUS
  <2>1. alive => host_id \in connected
    BY DEF ClientInv, ShownRoom, HostInv, HostPresent
  <2>2. alive /\ state = "Lobby" => Sees(host_id, "start")
    BY <2>1, KnownPages, SeesWithin DEF SectionsOK, HostButtonsOK
  <2>3. ASSUME state = "Investigation", awaiting_advance, current_detective \notin evicted
        PROVE  Sees(current_detective, "next_turn")
    <3>1. current_detective \in connected
      BY <2>3, KnownPages DEF StageOK, Detectives
    <3>2. SectionsOK(current_detective) /\ TurnOK(current_detective)
      BY <3>1, KnownPages
    <3>3. QED
      BY <2>3, <3>2, SeesWithin DEF SectionsOK, TurnOK, RoundInProgress
  <2>4. Undisturbed /\ state = "NextRound" => Sees(host_id, "next_round")
    BY <2>1, KnownPages, SeesWithin DEF Undisturbed, SectionsOK, HostButtonsOK
  <2>5. Undisturbed /\ state = "GameOver" => Sees(host_id, "restart")
    BY <2>1, KnownPages, SeesWithin DEF Undisturbed, SectionsOK, HostButtonsOK
  <2>6. QED  BY <2>2, <2>3, <2>4, <2>5 DEF SomebodyCanGoOn
<1>2. QED  BY <1>1, ClientInvariant, PTL
==============================================================================

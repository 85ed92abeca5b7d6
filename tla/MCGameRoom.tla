----------------------------- MODULE MCGameRoom ------------------------------
(***************************************************************************)
(* Small instances of GameRoom, and the view their safety runs explore it  *)
(* under.                                                                  *)
(***************************************************************************)
EXTENDS GameRoomRoster

(* kAttemptMultipliers for the instances' one to three attempts *)
MCAttemptTenths == [a \in 1..MaxAttempts |-> 11 - a]

(* Rewards of nothing, for the liveness runs: no guard reads a score *)
MCNoReward == [a \in 1..MaxAttempts |-> 0]

(* No guard reads score; generations are only compared for equality with    *)
(* turn_generation, which never goes back, so a call that does not apply    *)
(* never will.  Two states that differ in the totals, in how far            *)
(* turn_generation has counted or in which stale calls are outstanding      *)
(* therefore have the same steps and the same gains.  RoomView identifies   *)
(* them: stale calls are counted, stale guess waits only told apart from    *)
(* current ones.                                                            *)
TimerView(timer) ==
  <<timer.kind, timer.round,
    timer.kind = "guess" => timer.gen = turn_generation>>

RoomView ==
  <<alive, state, selected_map, rosterVars, gameVars, has_been_criminal, turnVars,
    crimeVars, TimerView(phase_timer), TimerView(fired),
    {<<c.kind, c.player, c.text, c.map>> : c \in LiveCalls},
    Cardinality(calls \ LiveCalls)>>
==============================================================================

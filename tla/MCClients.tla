------------------------------ MODULE MCClients ------------------------------
(***************************************************************************)
(* Small instances of Clients, and the view its runs explore it under.     *)
(***************************************************************************)
EXTENDS Clients, MCGameRoom

WaitView(timer) ==
  <<timer.kind, timer.kind = "guess" => timer.gen = turn_generation>>

(* RoomView, less what the pages do not depend on either: who solved the    *)
(* crime, which no guard reads, and the round of a wait, which no step does. *)
ClientView ==
  <<alive, state, selected_map, rosterVars, gameVars, has_been_criminal,
    pending_order, attempts_used, current_detective, guess_in_flight,
    awaiting_advance, crime_score_revealed,
    WaitView(phase_timer), WaitView(fired),
    {<<c.kind, c.player, c.text>> : c \in LiveCalls},
    Cardinality(calls \ LiveCalls), clientVars>>

MapSymmetry == Permutations(Maps)
==============================================================================

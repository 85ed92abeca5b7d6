------------------------------ MODULE MCAiCall -------------------------------
(***************************************************************************)
(* The texts a model may answer with, for TLC: entries in and out of range *)
(* and width, missing, misnamed and repeated.                              *)
(***************************************************************************)
EXTENDS AiCall

MCScores == {{}, {-3}, {7}, {40}, {260}, {300}}

MCItems ==
  {<<>>}
  \cup {<<[category |-> c, score |-> s]>> : c \in {0, 1, 5}, s \in MCScores}
  \cup {<<[category |-> 2, score |-> s], [category |-> 2, score |-> {20}]>> :
           s \in MCScores}
  \cup {[i \in 1..5 |-> [category |-> 6 - i, score |-> s]] : s \in MCScores}

MCAspects == {<<>>, <<"match", "miss">>, <<"maybe", "similar">>}

MCTexts ==
  [json : {"garbled", "other"}, items : {<<>>}, correct : {{}}, aspects : {<<>>}]
  \cup [json : {"object"}, items : MCItems, correct : {{}}, aspects : {<<>>}]
  \cup [json : {"object"}, items : {<<>>},
        correct : {{}, {TRUE}, {FALSE}}, aspects : MCAspects]

(* Three maps: one with a list of its own, one whose list has a weapon that *)
(* does not exist, and one without a list.                                  *)
MCAllWeapons == {"knife", "rope", "gun"}

MCMapFiles ==
  <<[id |-> "school", rooms |-> {"library", "roof"}, listed |-> TRUE,
     weapons |-> {"rope", "knife"}],
    [id |-> "ship", rooms |-> {"kitchen", "deck"}, listed |-> TRUE,
     weapons |-> {"harpoon", "gun"}],
    [id |-> "mansion", rooms |-> {"kitchen", "library"}, listed |-> FALSE,
     weapons |-> {}]>>

MCMapIds == {"school", "ship", "castle"}

MCWords == {"kitchen", "library", "knife", "rope", "gun", "then", "a"}

MCConfessions == UNION {[1..n -> MCWords] : n \in 2..3}

MCGuesses ==
  MCConfessions \cap (UNION {[1..n -> {"kitchen", "library", "knife", "gun"}] : n \in 2..3})
==============================================================================

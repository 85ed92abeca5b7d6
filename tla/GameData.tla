------------------------------ MODULE GameData -------------------------------
(***************************************************************************)
(* The board of a game: how a map file and the list of weapons become a    *)
(* map, and how the place and the weapon of a crime are found in the text  *)
(* the criminal has written.                                               *)
(*                                                                         *)
(* A text is the sequence of its words, and a place or a weapon is the     *)
(* word that names it: in the data no name lies within another.  Ids stand *)
(* for the names; images and adjacency are left out.                       *)
(***************************************************************************)
EXTENDS Integers, Sequences

WordsOf(text) == {text[i] : i \in DOMAIN text}

NoName == "none"
NoMap == [id |-> NoName, rooms |-> {}, weapons |-> {}]

(* The weapons of a map: those of its own list that exist, or all of them   *)
(* when the file has no list.                                               *)
ParseMap(file, all) ==
  [id |-> file.id, rooms |-> file.rooms,
   weapons |-> IF file.listed THEN file.weapons \cap all ELSE all]

FindMap(maps, id) ==
  LET found == {i \in DOMAIN maps : maps[i].id = id}
  IN  IF found = {} THEN NoMap
      ELSE maps[CHOOSE i \in found : \A j \in found : i <= j]

DefaultMap(maps) ==
  IF FindMap(maps, "mansion") # NoMap THEN FindMap(maps, "mansion") ELSE maps[1]

(* extract_room_mention and extract_weapon_mention: the name that comes     *)
(* first in the text.                                                       *)
ExtractMention(names, text) ==
  LET at == {i \in DOMAIN text : text[i] \in names}
  IN  IF at = {} THEN NoName
      ELSE text[CHOOSE i \in at : \A j \in at : i <= j]

SlipCrimeOf(map, text, all) ==    \* any weapon of the game
  [location |-> ExtractMention(map.rooms, text),
   weapon |-> ExtractMention(all, text), text |-> text]

(* The crime that handle_submit_crime makes of a text. *)
CrimeOf(map, text, all) ==
  [location |-> ExtractMention(map.rooms, text),
   weapon |-> ExtractMention(map.weapons, text), text |-> text]

Accepted(crime) == crime.weapon # NoName /\ crime.location # NoName
==============================================================================

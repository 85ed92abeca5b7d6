------------------------------- MODULE Channel -------------------------------
(***************************************************************************)
(* What a connection promises to whoever sends on it: the peer receives    *)
(* the messages in the order they were sent, each once and none left out,  *)
(* up to the point where the connection is lost.  Messages are numbered as *)
(* they are sent.                                                          *)
(***************************************************************************)
EXTENDS Naturals, Sequences

VARIABLES
  sent,       \* how many messages were sent
  delivered   \* the messages the peer received

Init == sent = 0 /\ delivered = <<>>

Send == sent' = sent + 1 /\ UNCHANGED delivered

Deliver ==
  /\ Len(delivered) < sent
  /\ delivered' = Append(delivered, Len(delivered) + 1)
  /\ UNCHANGED sent

Next == Send \/ Deliver

Spec == Init /\ [][Next]_<<sent, delivered>>
==============================================================================

---------------------------- MODULE SessionWrites ----------------------------
(***************************************************************************)
(* The write side of one Session.  Rooms and GameServer call send at any   *)
(* time; the websocket takes one asynchronous write after the other, from  *)
(* a buffer that is the front of write_queue_.                             *)
(*                                                                         *)
(* The websocket is outside the repository.  It is taken to report a write *)
(* that does not fail as done, and to fail every write after the first     *)
(* that failed.                                                            *)
(***************************************************************************)
EXTENDS Naturals, Sequences

CONSTANT MaxSent   \* bound: messages sent on one connection

ASSUME WritesAssumption == MaxSent \in Nat

VARIABLES
  sent,         \* messages given to send(), numbered 1, 2, ...
  write_queue,  \* write_queue_
  writing,      \* writing_
  pending,      \* the message of each async_write that has not completed
  delivered,    \* messages written, in the order they were
  link,         \* the websocket: "open", "closing", "lost", "failed"
  reading       \* whether the session's read loop is still running

vars == <<sent, write_queue, writing, pending, delivered, link, reading>>

Init ==
  /\ sent = 0 /\ write_queue = <<>> /\ writing = FALSE
  /\ pending = <<>> /\ delivered = <<>>
  /\ link = "open" /\ reading = TRUE

-----------------------------------------------------------------------------
(* do_write, called with the queue and the outstanding writes its caller    *)
(* leaves: the next write, if there is anything to write.                   *)
DoWrite(queue, outstanding) ==
  /\ write_queue' = queue
  /\ writing' = (queue # <<>>)
  /\ pending' = IF queue = <<>> THEN outstanding
                ELSE Append(outstanding, Head(queue))

SlipSendAlwaysWrites ==      \* writing_ is not looked at
  /\ reading /\ sent < MaxSent
  /\ sent' = sent + 1
  /\ DoWrite(Append(write_queue, sent + 1), pending)
  /\ UNCHANGED <<delivered, link, reading>>

(* Once its stream has ended nobody sends on a session any more.            *)
Send ==
  /\ reading /\ sent < MaxSent
  /\ sent' = sent + 1
  /\ LET queue == Append(write_queue, sent + 1)
     IN  \/ ~writing /\ DoWrite(queue, pending)
         \/ writing /\ write_queue' = queue /\ UNCHANGED <<writing, pending>>
  /\ UNCHANGED <<delivered, link, reading>>

SlipOnWriteKeepsFront ==     \* pop_front left out
  /\ pending # <<>> /\ link # "failed"
  /\ delivered' = Append(delivered, Head(pending))
  /\ DoWrite(write_queue, Tail(pending))
  /\ UNCHANGED <<sent, link, reading>>

SlipOnWriteStops ==          \* the next write is left to the next send
  /\ pending # <<>> /\ link # "failed"
  /\ delivered' = Append(delivered, Head(pending))
  /\ write_queue' = Tail(write_queue) /\ writing' = FALSE
  /\ pending' = Tail(pending)
  /\ UNCHANGED <<sent, link, reading>>

OnWrite ==
  /\ pending # <<>> /\ link # "failed"
  /\ delivered' = Append(delivered, Head(pending))
  /\ DoWrite(Tail(write_queue), Tail(pending))
  /\ UNCHANGED <<sent, link, reading>>

(* The front stays; a later send writes it again, and fails again. *)
OnWriteError ==
  /\ pending # <<>> /\ link # "open"
  /\ link' = "failed"
  /\ writing' = FALSE
  /\ pending' = Tail(pending)
  /\ UNCHANGED <<sent, write_queue, delivered, reading>>

(* A rejoin evicts the session: close() asks the websocket to close, and    *)
(* neither clears the queue nor ends the read loop.                         *)
Close ==
  /\ reading /\ link = "open"
  /\ link' = "closing"
  /\ UNCHANGED <<sent, write_queue, writing, pending, delivered, reading>>

PeerGone ==
  /\ link = "open"
  /\ link' = "lost"
  /\ UNCHANGED <<sent, write_queue, writing, pending, delivered, reading>>

(* on_read with an error: GameServer::on_disconnect takes the session out   *)
(* of its room.                                                             *)
StreamEnds ==
  /\ reading /\ link # "open"
  /\ reading' = FALSE
  /\ UNCHANGED <<sent, write_queue, writing, pending, delivered, link>>

(* Nothing refers to the session any more. *)
Ended == ~reading /\ pending = <<>> /\ UNCHANGED vars

Next ==
  \/ Send \/ Close
  \/ OnWrite \/ OnWriteError
  \/ PeerGone \/ StreamEnds \/ Ended

Spec == Init /\ [][Next]_vars

(* The reactor completes a write that the peer takes. *)
FairSpec == Spec /\ WF_vars(OnWrite)

-----------------------------------------------------------------------------
(* Type correctness of the session's fields. *)
Messages == 1..MaxSent

TypeOK ==
  /\ sent \in 0..MaxSent
  /\ write_queue \in Seq(Messages) /\ writing \in BOOLEAN
  /\ pending \in Seq(Messages) /\ delivered \in Seq(Messages)
  /\ link \in {"open", "closing", "lost", "failed"} /\ reading \in BOOLEAN

(* At most one async_write is outstanding, and while it is, the front of    *)
(* write_queue_ - the buffer it writes from - is the message it was started *)
(* with: neither send nor a failure takes it away.  writing_ says so, and   *)
(* while the link has not failed nothing is left queued without a write.    *)
OneWriteAtATime ==
  /\ pending = IF writing THEN <<Head(write_queue)>> ELSE <<>>
  /\ writing => write_queue # <<>>
  /\ link # "failed" /\ write_queue # <<>> => writing

(* A session implements a FIFO channel: what is written is what was sent,   *)
(* in order, whatever fails.                                                *)
C == INSTANCE Channel
ChannelSpec == C!Spec

(* On a link that stays open every message is written, with nobody sending  *)
(* another to push it along.                                                *)
QueueDrains == \A n \in Messages :
  sent >= n ~> Len(delivered) >= n \/ link # "open"
==============================================================================

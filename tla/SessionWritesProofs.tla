------------------------- MODULE SessionWritesProofs -------------------------
(***************************************************************************)
(* One write at a time, and a session implements a FIFO channel, however   *)
(* many messages are sent.                                                 *)
(***************************************************************************)
EXTENDS SessionWrites, TLAPS

(* What was written and what is queued are, in order, what was sent. *)
InOrder ==
  /\ sent = Len(delivered) + Len(write_queue)
  /\ \A i \in 1..Len(write_queue) : write_queue[i] = Len(delivered) + i

WritesInv == TypeOK /\ OneWriteAtATime /\ InOrder

(* A session starts with nothing sent. *)
LEMMA InitWrites == Init => WritesInv
<1> SUFFICES ASSUME Init  PROVE  WritesInv
  OBVIOUS
<1>1. <<>> \in Seq(Messages) /\ Len(<<>>) = 0  OBVIOUS
<1>2. TypeOK
  <2>1. sent \in 0..MaxSent  BY WritesAssumption DEF Init
  <2>2. /\ write_queue \in Seq(Messages) /\ pending \in Seq(Messages)
        /\ delivered \in Seq(Messages)
    BY <1>1 DEF Init
  <2>3. /\ writing \in BOOLEAN /\ reading \in BOOLEAN
        /\ link \in {"open", "closing", "lost", "failed"}
    BY DEF Init
  <2>4. QED  BY <2>1, <2>2, <2>3 DEF TypeOK
<1>3. OneWriteAtATime  BY DEF Init, OneWriteAtATime
<1>4. InOrder  BY <1>1 DEF Init, InOrder
<1>5. QED  BY <1>2, <1>3, <1>4 DEF WritesInv

(* A message joins the queue at its back; it is written at once only when   *)
(* no write is under way.                                                   *)
LEMMA SendWrites ==
  ASSUME WritesInv, Send  PROVE  WritesInv'
<1> DEFINE queue == Append(write_queue, sent + 1)
<1>1. /\ sent \in 0..MaxSent /\ sent < MaxSent /\ sent' = sent + 1
      /\ UNCHANGED <<delivered, link, reading>>
      /\ write_queue \in Seq(Messages) /\ pending \in Seq(Messages)
      /\ delivered \in Seq(Messages) /\ MaxSent \in Nat
  BY WritesAssumption DEF WritesInv, TypeOK, Send
<1>2. sent + 1 \in Messages  BY <1>1 DEF Messages
<1>3. /\ queue \in Seq(Messages) /\ queue # <<>>
      /\ Len(queue) = Len(write_queue) + 1
      /\ \A i \in 1..Len(write_queue) : queue[i] = write_queue[i]
      /\ queue[Len(queue)] = sent + 1
      /\ Head(queue) \in Messages
      /\ write_queue # <<>> => Head(queue) = Head(write_queue)
  <2>1. queue \in Seq(Messages) /\ Len(queue) = Len(write_queue) + 1
    BY <1>1, <1>2
  <2>2. /\ \A i \in 1..Len(write_queue) : queue[i] = write_queue[i]
        /\ queue[Len(write_queue) + 1] = sent + 1
    BY <1>1, <1>2
  <2>3. Len(write_queue) \in Nat  BY <1>1
  <2>4. queue # <<>>  BY <2>1, <2>3
  <2>5. Head(queue) \in Messages /\ Head(queue) = queue[1]  BY <2>1, <2>4
  <2>6. ASSUME write_queue # <<>>  PROVE  Head(queue) = Head(write_queue)
    <3>1. 1 \in 1..Len(write_queue) /\ Head(write_queue) = write_queue[1]
      BY <1>1, <2>6
    <3>2. QED  BY <2>2, <2>5, <3>1
  <2>7. QED  BY <2>1, <2>2, <2>4, <2>5, <2>6
<1>4. write_queue' = queue  BY DEF Send, DoWrite
<1>5. sent' \in 0..MaxSent  BY <1>1
<1>6. writing' /\ pending' = <<Head(queue)>>
  <2>1. CASE ~writing
    <3>1. pending = <<>>  BY <2>1 DEF WritesInv, OneWriteAtATime
    <3>2. writing' = (queue # <<>>) /\ pending' = Append(pending, Head(queue))
      BY <1>3, <2>1 DEF Send, DoWrite
    <3>3. Append(<<>>, Head(queue)) = <<Head(queue)>>  OBVIOUS
    <3>4. pending' = <<Head(queue)>>  BY <3>1, <3>2, <3>3
    <3>5. writing'  BY <1>3, <3>2
    <3>6. QED  BY <3>4, <3>5
  <2>2. CASE writing
    <3>1. pending = <<Head(write_queue)>> /\ write_queue # <<>>
      BY <2>2 DEF WritesInv, OneWriteAtATime
    <3>2. UNCHANGED <<writing, pending>>  BY <2>2 DEF Send
    <3>3. QED  BY <1>3, <2>2, <3>1, <3>2
  <2>3. QED  BY <2>1, <2>2
<1>7. InOrder'
  <2>1. sent = Len(delivered) + Len(write_queue)  BY DEF WritesInv, InOrder
  <2>2. Len(delivered) \in Nat /\ Len(write_queue) \in Nat  BY <1>1
  <2>3. \A i \in 1..Len(queue) : queue[i] = Len(delivered) + i
    <3>1. TAKE i \in 1..Len(queue)
    <3>2. CASE i \in 1..Len(write_queue)
      <4>1. write_queue[i] = Len(delivered) + i
        BY <3>2 DEF WritesInv, InOrder
      <4>2. QED  BY <1>3, <3>2, <4>1
    <3>3. CASE i \notin 1..Len(write_queue)
      <4>1. i = Len(queue)  BY <1>3, <2>2, <3>1, <3>3
      <4>2. QED  BY <1>3, <2>1, <2>2, <4>1
    <3>4. QED  BY <3>2, <3>3
  <2>4. QED  BY <1>1, <1>3, <1>4, <2>1, <2>2, <2>3 DEF InOrder
<1>8. OneWriteAtATime'  BY <1>3, <1>4, <1>6 DEF OneWriteAtATime
<1>9. TypeOK'
  <2>1. pending' \in Seq(Messages)  BY <1>3, <1>6
  <2>2. QED  BY <1>1, <1>3, <1>4, <1>5, <1>6, <2>1 DEF WritesInv, TypeOK
<1>10. QED  BY <1>7, <1>8, <1>9 DEF WritesInv

(* The message written is the front, and the one after the last written. *)
LEMMA FrontIsNext ==
  ASSUME WritesInv, pending # <<>>
  PROVE  /\ writing /\ write_queue # <<>> /\ Len(pending) = 1
         /\ Head(pending) = Head(write_queue)
         /\ Head(pending) = Len(delivered) + 1
         /\ Len(delivered) < sent
         /\ Tail(pending) = <<>>
<1>1. /\ writing /\ write_queue # <<>> /\ pending = <<Head(write_queue)>>
  BY DEF WritesInv, OneWriteAtATime
<1>2. /\ write_queue \in Seq(Messages) /\ Len(delivered) \in Nat
      /\ Len(write_queue) \in Nat /\ Len(write_queue) >= 1
      /\ Head(write_queue) = write_queue[1]
  BY <1>1 DEF WritesInv, TypeOK
<1>3. write_queue[1] = Len(delivered) + 1 /\ Len(delivered) < sent
  BY <1>2 DEF WritesInv, InOrder
<1>4. QED  BY <1>1, <1>2, <1>3

(* A completed write hands the front on and starts the next. *)
LEMMA OnWriteWrites ==
  ASSUME WritesInv, OnWrite  PROVE  WritesInv'
<1> DEFINE queue == Tail(write_queue)
           m == Head(pending)
<1>1. /\ pending # <<>> /\ delivered' = Append(delivered, m)
      /\ write_queue' = queue /\ writing' = (queue # <<>>)
      /\ pending' = IF queue = <<>> THEN Tail(pending)
                    ELSE Append(Tail(pending), Head(queue))
      /\ UNCHANGED <<sent, link, reading>>
  BY DEF OnWrite, DoWrite
<1>2. /\ write_queue # <<>> /\ m = Len(delivered) + 1 /\ Tail(pending) = <<>>
      /\ m = Head(write_queue)
  BY <1>1, FrontIsNext
<1>3. /\ write_queue \in Seq(Messages) /\ delivered \in Seq(Messages)
      /\ m \in Messages
  BY <1>2 DEF WritesInv, TypeOK
<1>4. /\ queue \in Seq(Messages) /\ Len(queue) = Len(write_queue) - 1
      /\ \A i \in 1..Len(queue) : queue[i] = write_queue[i + 1]
      /\ queue # <<>> => Head(queue) \in Messages
  BY <1>2, <1>3
<1>5. delivered' \in Seq(Messages) /\ Len(delivered') = Len(delivered) + 1
  BY <1>1, <1>3
<1>6. pending' = IF writing' THEN <<Head(queue)>> ELSE <<>>
  <2>1. CASE queue = <<>>
    <3>1. ~writing'  BY <1>1, <2>1
    <3>2. pending' = <<>>  BY <1>1, <1>2, <2>1
    <3>3. QED  BY <3>1, <3>2
  <2>2. CASE queue # <<>>
    <3>1. writing'  BY <1>1, <2>2
    <3>2. Append(<<>>, Head(queue)) = <<Head(queue)>>  OBVIOUS
    <3>3. pending' = <<Head(queue)>>  BY <1>1, <1>2, <2>2, <3>2
    <3>4. QED  BY <3>1, <3>3
  <2>3. QED  BY <2>1, <2>2
<1>7. OneWriteAtATime'
  BY <1>1, <1>6 DEF OneWriteAtATime
<1>8. InOrder'
  <2>1. /\ Len(delivered) \in Nat /\ Len(write_queue) \in Nat
        /\ Len(write_queue) >= 1
    BY <1>2, <1>3
  <2>2. sent = Len(delivered) + Len(write_queue)  BY DEF WritesInv, InOrder
  <2>3. \A i \in 1..Len(queue) : queue[i] = Len(delivered) + 1 + i
    <3> TAKE i \in 1..Len(queue)
    <3>1. i + 1 \in 1..Len(write_queue)  BY <1>4, <2>1
    <3>2. write_queue[i + 1] = Len(delivered) + (i + 1)
      BY <3>1 DEF WritesInv, InOrder
    <3>3. QED  BY <1>4, <2>1, <3>2
  <2>4. QED  BY <1>1, <1>4, <1>5, <2>1, <2>2, <2>3 DEF InOrder
<1>9. TypeOK'
  <2>1. pending' \in Seq(Messages)
    <3>1. CASE queue = <<>>
      <4>1. pending' = <<>>  BY <1>1, <1>2, <3>1
      <4>2. QED  BY <4>1
    <3>2. CASE queue # <<>>
      <4>1. pending' = Append(<<>>, Head(queue))  BY <1>1, <1>2, <3>2
      <4>2. Head(queue) \in Messages  BY <1>4, <3>2
      <4>3. <<>> \in Seq(Messages)  OBVIOUS
      <4> HIDE DEF queue
      <4>4. QED  BY <4>1, <4>2, <4>3
    <3>3. QED  BY <3>1, <3>2
  <2>2. writing' \in BOOLEAN  BY <1>1
  <2>3. QED  BY <1>1, <1>4, <1>5, <2>1, <2>2 DEF WritesInv, TypeOK
<1>10. QED  BY <1>7, <1>8, <1>9 DEF WritesInv

(* A failed write leaves its message where it is. *)
LEMMA OnWriteErrorWrites ==
  ASSUME WritesInv, OnWriteError  PROVE  WritesInv'
<1>1. /\ pending # <<>> /\ link' = "failed" /\ writing' = FALSE
      /\ pending' = Tail(pending)
      /\ UNCHANGED <<sent, write_queue, delivered, reading>>
  BY DEF OnWriteError
<1>2. pending' = <<>>  BY <1>1, FrontIsNext
<1>3. TypeOK'
  <2>1. pending' \in Seq(Messages)  BY <1>2
  <2>2. QED  BY <1>1, <2>1 DEF WritesInv, TypeOK
<1>4. OneWriteAtATime'  BY <1>1, <1>2 DEF OneWriteAtATime
<1>5. InOrder'  BY <1>1 DEF WritesInv, InOrder
<1>6. QED  BY <1>3, <1>4, <1>5 DEF WritesInv

(* What happens to the link or the read loop alone. *)
LEMMA LinkWrites ==
  ASSUME WritesInv, Close \/ PeerGone \/ StreamEnds \/ Ended \/ UNCHANGED vars
  PROVE  WritesInv'
<1>1. /\ UNCHANGED <<sent, write_queue, writing, pending, delivered>>
      /\ link' \in {"open", "closing", "lost", "failed"}
      /\ reading' \in BOOLEAN
      /\ link = "failed" => link' = "failed"
  BY DEF WritesInv, TypeOK, Close, PeerGone, StreamEnds, Ended, vars
<1>2. TypeOK'  BY <1>1 DEF WritesInv, TypeOK
<1>3. OneWriteAtATime'  BY <1>1 DEF WritesInv, OneWriteAtATime
<1>4. InOrder'  BY <1>1 DEF WritesInv, InOrder
<1>5. QED  BY <1>2, <1>3, <1>4 DEF WritesInv

(* The invariant is inductive. *)
THEOREM WritesInvariant == Spec => []WritesInv
<1>1. WritesInv /\ [Next]_vars => WritesInv'
  BY SendWrites, OnWriteWrites, OnWriteErrorWrites, LinkWrites DEF Next
<1>2. QED  BY <1>1, InitWrites, PTL DEF Spec

(* There is one write at a time, from a buffer nobody takes away. *)
THEOREM WritesCorrect == Spec => []OneWriteAtATime
<1>1. WritesInv => OneWriteAtATime  BY DEF WritesInv
<1>2. QED  BY <1>1, WritesInvariant, PTL

(* The peer receives what was sent, in order, whatever fails. *)
THEOREM ChannelCorrect == Spec => ChannelSpec
<1>1. Init => C!Init  BY DEF Init, C!Init
<1>2. WritesInv /\ [Next]_vars => [C!Next]_<<sent, delivered>>
  <2> SUFFICES ASSUME WritesInv, [Next]_vars
               PROVE  C!Next \/ UNCHANGED <<sent, delivered>>
    OBVIOUS
  <2>1. CASE Send  BY <2>1 DEF Send, C!Next, C!Send
  <2>2. CASE OnWrite
    <3>1. /\ pending # <<>> /\ delivered' = Append(delivered, Head(pending))
          /\ sent' = sent
      BY <2>2 DEF OnWrite
    <3>2. Head(pending) = Len(delivered) + 1 /\ Len(delivered) < sent
      BY <3>1, FrontIsNext
    <3>3. QED  BY <3>1, <3>2 DEF C!Next, C!Deliver
  <2>3. CASE \/ OnWriteError \/ Close \/ PeerGone \/ StreamEnds \/ Ended
             \/ UNCHANGED vars
    BY <2>3 DEF OnWriteError, Close, PeerGone, StreamEnds, Ended, vars
  <2>4. QED  BY <2>1, <2>2, <2>3 DEF Next
<1>3. QED  BY <1>1, <1>2, WritesInvariant, PTL DEF Spec, ChannelSpec, C!Spec

==============================================================================

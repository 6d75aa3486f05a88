---------------------------- MODULE SessionIoProofs ----------------------------
(***************************************************************************)
(* Theorems about the two mechanisms a session owns by itself, its write   *)
(* queue and its token bucket.                                             *)
(*                                                                         *)
(* WriteQueue, for any set of frames and any lengths: the writing_ flag    *)
(* admits one writer, which loses no wakeup and keeps the frames whole,    *)
(* and the queue implements the safety part of Outbox.  The liveness part  *)
(* of ImplementsOutbox is left to TLC.                                     *)
(*                                                                         *)
(* RateLimit, for every capacity, cost and set of keys: the token bucket   *)
(* grants exactly what the documented rate allows.                         *)
(***************************************************************************)
EXTENDS WriteQueue, RateLimit, SequenceTheorems, TLAPS

\* The three invariants are inductive together: OneWriter ties writing_ to the
\* coroutine that exists, so do_write() ends only where it has just seen an
\* empty queue or the stream is closed.
QueueInv == QueueTypeOK /\ OneWriter /\ NoLostWakeup

-----------------------------------------------------------------------------
(***************************************************************************)
(* Sequences of at most one element.                                       *)
(***************************************************************************)

\* A sequence of at most one element is empty or its head.
LEMMA ShortSeq ==
    ASSUME NEW S, NEW q \in Seq(S), Len(q) <= 1, q # <<>>
    PROVE  q = <<Head(q)>> /\ Head(q) \in S /\ Len(q) = 1
  <1>1. Len(q) = 1
    <2>1. Len(q) \in Nat \ {0}
      BY EmptySeq
    <2> QED
      BY <2>1
  <1>2. Head(q) = q[1] /\ q[1] \in S
    BY <1>1
  <1>3. <<Head(q)>> \in Seq(S) /\ Len(<<Head(q)>>) = 1 /\ <<Head(q)>>[1] = q[1]
    BY <1>2
  <1>4. \A i \in 1 .. Len(q) : q[i] = <<Head(q)>>[i]
    BY <1>1, <1>3
  <1>5. q = <<Head(q)>>
    BY <1>1, <1>3, <1>4
  <1> QED
    BY <1>1, <1>2, <1>5

\* Putting a one-element sequence in front and taking it off again.
LEMMA FrontSeq ==
    ASSUME NEW S, NEW f \in S, NEW q \in Seq(S)
    PROVE  /\ <<f>> \o q # <<>>
           /\ Head(<<f>> \o q) = f
           /\ Tail(<<f>> \o q) = q
  <1>1. /\ <<f>> \in Seq(S) /\ Len(<<f>>) = 1
        /\ <<f>> \o q \in Seq(S) /\ Len(<<f>> \o q) = 1 + Len(q)
    OBVIOUS
  <1>2. Head(<<f>> \o q) = f
    BY <1>1
  <1>3. Tail(<<f>> \o q) = q
    <2>1. Len(Tail(<<f>> \o q)) = Len(q) /\ Tail(<<f>> \o q) \in Seq(S)
      BY <1>1
    <2>2. \A i \in 1 .. Len(q) : Tail(<<f>> \o q)[i] = q[i]
      BY <1>1
    <2> QED
      BY <2>1, <2>2
  <1> QED
    BY <1>1, <1>2, <1>3

\* A nonempty sequence is its head in front of its tail.
LEMMA SplitSeq ==
    ASSUME NEW S, NEW q \in Seq(S), q # <<>>
    PROVE  /\ <<Head(q)>> \o Tail(q) = q
           /\ Head(q) \in S /\ Tail(q) \in Seq(S)
  <1>1. Head(q) \in S /\ Tail(q) \in Seq(S) /\ Len(Tail(q)) = Len(q) - 1
    OBVIOUS
  <1>2. /\ <<Head(q)>> \o Tail(q) \in Seq(S)
        /\ Len(<<Head(q)>> \o Tail(q)) = Len(q)
    BY <1>1
  <1>3. \A i \in 1 .. Len(q) : (<<Head(q)>> \o Tail(q))[i] = q[i]
    BY <1>1, <1>2
  <1> QED
    BY <1>1, <1>2, <1>3

\* Appending behind a concatenation.
LEMMA AppendConcat ==
    ASSUME NEW S, NEW p \in Seq(S), NEW q \in Seq(S), NEW f \in S
    PROVE  p \o Append(q, f) = Append(p \o q, f)
  <1>1. /\ p \o Append(q, f) \in Seq(S) /\ Append(p \o q, f) \in Seq(S)
        /\ Len(p \o Append(q, f)) = Len(p) + Len(q) + 1
        /\ Len(Append(p \o q, f)) = Len(p) + Len(q) + 1
    OBVIOUS
  <1>2. \A i \in 1 .. Len(p) + Len(q) + 1 : (p \o Append(q, f))[i] = Append(p \o q, f)[i]
    BY <1>1
  <1> QED
    BY <1>1, <1>2

\* The empty sequence in front changes nothing.
LEMMA EmptyConcat ==
    ASSUME NEW S, NEW q \in Seq(S)
    PROVE  <<>> \o q = q
  OBVIOUS

\* Changing one element of a sequence.
LEMMA ChangedSeq ==
    ASSUME NEW S, NEW q \in Seq(S), NEW i \in 1 .. Len(q), NEW x \in S
    PROVE  [q EXCEPT ![i] = x] \in Seq(S) /\ Len([q EXCEPT ![i] = x]) = Len(q)
  OBVIOUS

-----------------------------------------------------------------------------
(***************************************************************************)
(* The invariants.                                                         *)
(***************************************************************************)

\* A coroutine that writes is the only one, and none is about to begin.
LEMMA Alone ==
    ASSUME QueueTypeOK, OneWriter, NEW i \in 1 .. Len(inflight)
    PROVE  /\ i = 1 /\ writing = TRUE /\ spawned = 0 /\ inflight # <<>>
           /\ inflight[1] \in Frame /\ inflight = <<inflight[1]>> /\ Head(inflight) = inflight[1]
           /\ done[1] \in Nat /\ done = <<done[1]>>
           /\ Without(inflight, i) = <<>> /\ Without(done, i) = <<>>
  <1>1. Len(inflight) = 1 /\ Len(done) = 1 /\ writing = TRUE /\ spawned = 0
    BY DEF QueueTypeOK, OneWriter
  <1>2. inflight \in Seq(Frame) /\ done \in Seq(Nat) /\ i = 1
    BY <1>1 DEF QueueTypeOK
  <1>3. inflight # <<>> /\ done # <<>>
    BY <1>1
  <1>4. inflight = <<Head(inflight)>> /\ Head(inflight) \in Frame /\ Head(inflight) = inflight[1]
    BY <1>1, <1>2, <1>3, ShortSeq
  <1>5. done = <<Head(done)>> /\ Head(done) \in Nat /\ Head(done) = done[1]
    BY <1>1, <1>2, <1>3, ShortSeq
  <1>6. ASSUME NEW S, NEW q \in Seq(S), Len(q) = 1 PROVE Without(q, 1) = <<>>
    <2>1. SubSeq(q, 1, 0) = <<>> /\ SubSeq(q, 2, 1) = <<>>
      BY <1>6
    <2> QED
      BY <1>6, <2>1 DEF Without
  <1> QED
    BY <1>1, <1>2, <1>3, <1>4, <1>5, <1>6

\* do_write()'s loop head keeps the types and the writer count, whether it
\* takes a frame or stops.
LEMMA NextFrameInv ==
    ASSUME QueueTypeOK, writing = TRUE, NextFrame(<<>>, <<>>)
    PROVE  /\ write_queue' \in Seq(Frame)
           /\ inflight' \in Seq(Frame) /\ done' \in Seq(Nat) /\ Len(done') = Len(inflight')
           /\ writing' \in BOOLEAN
           /\ Len(inflight') = (IF writing' THEN 1 ELSE 0)
           /\ done' \in {<<>>, <<0>>}
           /\ write_queue' # <<>> => writing' = TRUE
  <1>1. CASE write_queue # <<>>
    <2>1. Head(write_queue) \in Frame /\ Tail(write_queue) \in Seq(Frame)
      BY <1>1, HeadTailProperties DEF QueueTypeOK
    <2>2. /\ inflight' = <<Head(write_queue)>> /\ write_queue' = Tail(write_queue)
          /\ writing' = TRUE /\ done' = <<0>>
      BY <1>1 DEF NextFrame
    <2>3. <<Head(write_queue)>> \in Seq(Frame) /\ Len(<<Head(write_queue)>>) = 1
      BY <2>1
    <2>4. <<0>> \in Seq(Nat) /\ Len(<<0>>) = 1
      OBVIOUS
    <2> QED
      BY <2>1, <2>2, <2>3, <2>4
  <1>2. CASE write_queue = <<>>
    <2>1. inflight' = <<>> /\ write_queue' = <<>> /\ writing' = FALSE /\ done' = <<>>
      BY <1>2 DEF NextFrame
    <2>2. /\ write_queue' \in Seq(Frame) /\ inflight' \in Seq(Frame) /\ done' \in Seq(Nat)
          /\ Len(inflight') = 0 /\ Len(done') = 0
      BY <2>1
    <2>3. writing' = FALSE /\ ~(write_queue' # <<>>)
      BY <2>1
    <2>4. Len(inflight') = (IF writing' THEN 1 ELSE 0)
      BY <2>2, <2>3
    <2> QED
      BY <2>1, <2>2, <2>3, <2>4
  <1> QED
    BY <1>1, <1>2

\* A loop head that runs alone keeps the invariant.
LEMMA LoopInv ==
    ASSUME QueueTypeOK, writing = TRUE, NextFrame(<<>>, <<>>), spawned' = 0,
           UNCHANGED <<replying, open, accepted, direct>>,
           wire' \in Seq((Frame \cup {Reply}) \X Nat), out' \in Seq(Frame)
    PROVE  QueueInv'
  <1>1. /\ write_queue' \in Seq(Frame)
        /\ inflight' \in Seq(Frame) /\ done' \in Seq(Nat) /\ Len(done') = Len(inflight')
        /\ writing' \in BOOLEAN
        /\ Len(inflight') = (IF writing' THEN 1 ELSE 0)
        /\ write_queue' # <<>> => writing' = TRUE
    BY NextFrameInv
  <1>2. QueueTypeOK'
    BY <1>1 DEF QueueTypeOK
  <1>3. OneWriter' /\ NoLostWakeup'
    BY <1>1 DEF OneWriter, NoLostWakeup
  <1> QED
    BY <1>2, <1>3 DEF QueueInv

\* A piece of a frame, or a reply, extends the stream.
LEMMA WireGrows ==
    ASSUME QueueTypeOK, NEW f \in Frame \cup {Reply}, NEW n \in Nat
    PROVE  Append(wire, <<f, n>>) \in Seq((Frame \cup {Reply}) \X Nat)
  BY DEF QueueTypeOK

\* A spawned coroutine begins when no other is there.
LEMMA StartAlone ==
    ASSUME QueueTypeOK, OneWriter, StartWrite
    PROVE  /\ writing = TRUE /\ spawned = 1 /\ inflight = <<>> /\ done = <<>>
           /\ NextFrame(<<>>, <<>>)
  <1>1. writing = TRUE /\ spawned = 1 /\ Len(inflight) = 0 /\ Len(done) = 0
    BY DEF QueueTypeOK, OneWriter, StartWrite
  <1>2. inflight = <<>> /\ done = <<>>
    BY <1>1, EmptySeq DEF QueueTypeOK
  <1> QED
    BY <1>1, <1>2 DEF StartWrite

\* Every step keeps the invariant.
LEMMA QueueInvStep ==
    ASSUME QueueInv, [QueueNext]_queueVars
    PROVE  QueueInv'
  <1>0. QueueTypeOK /\ OneWriter /\ NoLostWakeup /\ direct' = direct
    BY DEF QueueInv, QueueNext, queueVars
  <1>1. ASSUME NEW f \in Frame, Enqueue(f)
        PROVE  QueueInv'
    <2>1. /\ write_queue' = Append(write_queue, f) /\ writing' = TRUE /\ accepted' = accepted + 1
          /\ spawned' = IF writing THEN spawned ELSE spawned + 1
          /\ UNCHANGED <<inflight, done, replying, open, wire, out>>
      BY <1>1 DEF Enqueue
    <2>2. QueueTypeOK'
      BY <1>0, <2>1 DEF QueueTypeOK
    <2>3. OneWriter' /\ NoLostWakeup'
      BY <1>0, <2>1 DEF QueueTypeOK, OneWriter, NoLostWakeup
    <2> QED
      BY <2>2, <2>3 DEF QueueInv
  <1>2. CASE StartWrite
    <2>1. spawned' = 0 /\ UNCHANGED <<replying, open, wire, out, accepted>>
      BY <1>0, <1>2, StartAlone DEF StartWrite
    <2> QED
      BY <1>0, <1>2, <2>1, StartAlone, LoopInv DEF QueueTypeOK
  <1>3. ASSUME NEW i \in 1 .. Len(inflight), WritePiece(i)
        PROVE  QueueInv'
    <2>1. inflight[i] \in Frame /\ done[i] \in Nat /\ i \in 1 .. Len(done)
      BY <1>0, Alone DEF QueueTypeOK
    <2>2. /\ done' = [done EXCEPT ![i] = done[i] + 1]
          /\ wire' = Append(wire, <<inflight[i], done[i] + 1>>)
          /\ UNCHANGED <<write_queue, writing, spawned, inflight, replying, open, out, accepted>>
      BY <1>3 DEF WritePiece
    <2>3. wire' \in Seq((Frame \cup {Reply}) \X Nat)
      BY <1>0, <2>1, <2>2, WireGrows
    <2>4. done' \in Seq(Nat) /\ Len(done') = Len(done)
      <3>1. done[i] + 1 \in Nat /\ done \in Seq(Nat)
        BY <1>0, <2>1 DEF QueueTypeOK
      <3> QED
        BY <2>1, <2>2, <3>1, ChangedSeq
    <2>5. QueueTypeOK'
      BY <1>0, <2>2, <2>3, <2>4 DEF QueueTypeOK
    <2>6. OneWriter' /\ NoLostWakeup'
      BY <1>0, <2>2 DEF OneWriter, NoLostWakeup
    <2> QED
      BY <2>5, <2>6 DEF QueueInv
  <1>4. ASSUME NEW i \in 1 .. Len(inflight), WriteDone(i)
        PROVE  QueueInv'
    <2>1. /\ inflight[i] \in Frame /\ done[i] \in Nat /\ writing = TRUE /\ spawned = 0
          /\ NextFrame(<<>>, <<>>)
      BY <1>0, <1>4, Alone DEF WriteDone
    <2>2. /\ wire' = Append(wire, <<inflight[i], done[i] + 1>>) /\ out' = Append(out, inflight[i])
          /\ UNCHANGED <<spawned, replying, open, accepted>>
      BY <1>4 DEF WriteDone
    <2>3. wire' \in Seq((Frame \cup {Reply}) \X Nat) /\ out' \in Seq(Frame)
      BY <1>0, <2>1, <2>2, WireGrows DEF QueueTypeOK
    <2> QED
      BY <1>0, <2>1, <2>2, <2>3, LoopInv
  <1>5. ASSUME NEW i \in 1 .. Len(inflight), WriteError(i)
        PROVE  QueueInv'
    <2>1. /\ inflight' = <<>> /\ done' = <<>> /\ writing' = FALSE /\ spawned = 0 /\ ~open
          /\ UNCHANGED <<write_queue, spawned, replying, open, wire, out, accepted>>
      BY <1>0, <1>5, Alone DEF WriteError
    <2>2. /\ <<>> \in Seq(Frame) /\ <<>> \in Seq(Nat)
          /\ Len(inflight') = 0 /\ Len(done') = 0
      BY <2>1
    <2>3. QueueTypeOK'
      BY <1>0, <2>1, <2>2 DEF QueueTypeOK
    <2>4. OneWriter' /\ NoLostWakeup'
      BY <2>1, <2>2 DEF OneWriter, NoLostWakeup
    <2> QED
      BY <2>3, <2>4 DEF QueueInv
  <1>6. ASSUME NEW i \in 1 .. Len(inflight), WriteIntoVoid(i)
        PROVE  QueueInv'
    <2>1. writing = TRUE /\ spawned = 0 /\ NextFrame(<<>>, <<>>)
      BY <1>0, <1>6, Alone DEF WriteIntoVoid
    <2>2. UNCHANGED <<spawned, replying, open, wire, out, accepted>>
      BY <1>6 DEF WriteIntoVoid
    <2> QED
      BY <1>0, <2>1, <2>2, LoopInv DEF QueueTypeOK
  <1>7. CASE ReplyStart
    BY <1>0, <1>7 DEF ReplyStart, QueueInv, QueueTypeOK, OneWriter, NoLostWakeup
  <1>8. CASE ReplyDone
    <2>1. wire' \in Seq((Frame \cup {Reply}) \X Nat)
      <3>1. Append(wire, <<Reply, 1>>) \in Seq((Frame \cup {Reply}) \X Nat)
        BY <1>0, WireGrows
      <3> QED
        BY <1>0, <1>8, <3>1 DEF ReplyDone, QueueTypeOK
    <2>2. QueueTypeOK'
      BY <1>0, <1>8, <2>1 DEF ReplyDone, QueueTypeOK
    <2>3. OneWriter' /\ NoLostWakeup'
      BY <1>0, <1>8 DEF ReplyDone, OneWriter, NoLostWakeup
    <2> QED
      BY <2>2, <2>3 DEF QueueInv
  <1>9. CASE CloseStream
    BY <1>0, <1>9 DEF CloseStream, QueueInv, QueueTypeOK, OneWriter, NoLostWakeup
  <1>10. CASE UNCHANGED queueVars
    BY <1>0, <1>10 DEF queueVars, QueueInv, QueueTypeOK, OneWriter, NoLostWakeup
  <1> QED
    BY <1>1, <1>2, <1>3, <1>4, <1>5, <1>6, <1>7, <1>8, <1>9, <1>10
    DEF QueueNext, DoWrite

\* A new session has nothing queued and nobody writing.
LEMMA QueueStart == QueueInit => QueueInv
  <1> SUFFICES ASSUME QueueInit PROVE QueueInv
    OBVIOUS
  <1>1. /\ <<>> \in Seq(Frame) /\ <<>> \in Seq((Frame \cup {Reply}) \X Nat)
        /\ <<>> \in Seq(Nat) /\ Len(<<>>) = 0
    OBVIOUS
  <1>2. QueueTypeOK
    <2>1. write_queue \in Seq(Frame) /\ out \in Seq(Frame)
      BY <1>1 DEF QueueInit
    <2>2. inflight \in Seq(Frame) /\ done \in Seq(Nat) /\ Len(done) = Len(inflight)
      BY <1>1 DEF QueueInit
    <2>3. writing \in BOOLEAN /\ replying \in BOOLEAN /\ open \in BOOLEAN /\ direct \in BOOLEAN
      BY DEF QueueInit
    <2>4. spawned \in Nat /\ accepted \in Nat
      BY DEF QueueInit
    <2>5. wire \in Seq((Frame \cup {Reply}) \X Nat)
      BY <1>1 DEF QueueInit
    <2> QED
      BY <2>1, <2>2, <2>3, <2>4, <2>5 DEF QueueTypeOK
  <1>3. OneWriter /\ NoLostWakeup
    BY <1>1 DEF QueueInit, OneWriter, NoLostWakeup
  <1> QED
    BY <1>2, <1>3 DEF QueueInv

\* enqueue() and do_write() keep the flag, the coroutine count and the queue
\* consistent for every frame set, length and number of writes.
THEOREM QueueInvariant == QueueSafety => []QueueInv
  <1> QED
    BY QueueStart, QueueInvStep, PTL DEF QueueSafety

\* The types of the state.
THEOREM QueueTypes == QueueSafety => []QueueTypeOK
  <1>1. QueueInv => QueueTypeOK
    BY DEF QueueInv
  <1> QED
    BY <1>1, QueueInvariant, PTL

\* Never two do_write() coroutines on one stream, and writing_ says whether
\* there is one.
THEOREM SingleWriter == QueueSafety => []OneWriter
  <1>1. QueueInv => OneWriter
    BY DEF QueueInv
  <1> QED
    BY <1>1, QueueInvariant, PTL

\* A frame queued on an open stream always has a do_write() to take it.
THEOREM WakeupKept == QueueSafety => []NoLostWakeup
  <1>1. QueueInv => NoLostWakeup
    BY DEF QueueInv
  <1> QED
    BY <1>1, QueueInvariant, PTL
-----------------------------------------------------------------------------
(***************************************************************************)
(* Refinement of Outbox.                                                   *)
(***************************************************************************)

\* The loop head moves a frame from the queue to the writer: what is pending
\* afterwards is what was queued.
LEMMA NextFramePending ==
    ASSUME QueueTypeOK, NextFrame(<<>>, <<>>)
    PROVE  (inflight \o write_queue)' = write_queue
  <1>1. CASE write_queue # <<>>
    <2>1. inflight' = <<Head(write_queue)>> /\ write_queue' = Tail(write_queue)
      BY <1>1 DEF NextFrame
    <2>2. <<Head(write_queue)>> \o Tail(write_queue) = write_queue
      BY <1>1, SplitSeq DEF QueueTypeOK
    <2> QED
      BY <2>1, <2>2
  <1>2. CASE write_queue = <<>>
    <2>1. inflight' = <<>> /\ write_queue' = write_queue
      BY <1>2 DEF NextFrame
    <2>2. <<>> \o write_queue = write_queue
      BY EmptyConcat DEF QueueTypeOK
    <2> QED
      BY <2>1, <2>2
  <1> QED
    BY <1>1, <1>2

\* What is pending while do_write() holds a frame.
LEMMA PendingHead ==
    ASSUME QueueTypeOK, OneWriter, NEW i \in 1 .. Len(inflight)
    PROVE  /\ inflight \o write_queue # <<>>
           /\ Head(inflight \o write_queue) = Head(inflight)
           /\ Tail(inflight \o write_queue) = write_queue
  <1>1. inflight = <<Head(inflight)>> /\ Head(inflight) \in Frame
    BY Alone
  <1>2. write_queue \in Seq(Frame)
    BY DEF QueueTypeOK
  <1>3. /\ <<Head(inflight)>> \o write_queue # <<>>
        /\ Head(<<Head(inflight)>> \o write_queue) = Head(inflight)
        /\ Tail(<<Head(inflight)>> \o write_queue) = write_queue
    BY <1>1, <1>2, FrontSeq
  <1> QED
    BY <1>1, <1>3

\* Every step of the queue is a step of the outbox or leaves it unchanged.
LEMMA BoxStep ==
    ASSUME QueueInv, [QueueNext]_queueVars
    PROVE  [Box!BoxNext]_(Box!boxVars)
  <1> DEFINE pend == inflight \o write_queue
  <1>0. QueueTypeOK /\ OneWriter
    BY DEF QueueInv
  <1>1. ASSUME NEW f \in Frame, Enqueue(f)
        PROVE  Box!Put(f)
    <2>1. inflight \o Append(write_queue, f) = Append(inflight \o write_queue, f)
      BY <1>0, AppendConcat DEF QueueTypeOK
    <2> QED
      BY <1>1, <2>1 DEF Enqueue, Box!Put
  <1>2. CASE StartWrite
    <2>1. inflight = <<>> /\ NextFrame(<<>>, <<>>) /\ UNCHANGED <<out, open>>
      BY <1>0, <1>2, StartAlone DEF StartWrite
    <2>2. pend = write_queue
      BY <2>1, <1>0, EmptyConcat DEF QueueTypeOK
    <2> QED
      BY <1>0, <2>1, <2>2, NextFramePending DEF Box!boxVars
  <1>3. ASSUME NEW i \in 1 .. Len(inflight), WritePiece(i)
        PROVE  UNCHANGED Box!boxVars
    BY <1>3 DEF WritePiece, Box!boxVars
  <1>4. ASSUME NEW i \in 1 .. Len(inflight), WriteDone(i)
        PROVE  Box!Transmit
    <2>1. /\ open /\ NextFrame(<<>>, <<>>) /\ out' = Append(out, Head(inflight))
          /\ UNCHANGED open
      BY <1>0, <1>4, Alone DEF WriteDone
    <2>2. pend' = Tail(pend) /\ pend # <<>> /\ Head(pend) = Head(inflight)
      BY <1>0, <2>1, NextFramePending, PendingHead
    <2> QED
      BY <2>1, <2>2 DEF Box!Transmit
  <1>5. ASSUME NEW i \in 1 .. Len(inflight), WriteError(i)
        PROVE  Box!Drop
    <2>1. ~open /\ inflight' = <<>> /\ UNCHANGED <<write_queue, out, open>>
      BY <1>0, <1>5, Alone DEF WriteError
    <2>2. pend' = write_queue
      BY <2>1, <1>0, EmptyConcat DEF QueueTypeOK
    <2> QED
      BY <1>0, <2>1, <2>2, PendingHead DEF Box!Drop
  <1>6. ASSUME NEW i \in 1 .. Len(inflight), WriteIntoVoid(i)
        PROVE  Box!Drop
    <2>1. ~open /\ NextFrame(<<>>, <<>>) /\ UNCHANGED <<out, open>>
      BY <1>0, <1>6, Alone DEF WriteIntoVoid
    <2> QED
      BY <1>0, <2>1, NextFramePending, PendingHead DEF Box!Drop
  <1>7. CASE ReplyStart
    BY <1>7 DEF ReplyStart, Box!boxVars
  <1>8. CASE ReplyDone
    BY <1>8 DEF ReplyDone, Box!boxVars
  <1>9. CASE CloseStream
    <2>1. Box!Close
      BY <1>9 DEF CloseStream, Box!Close
    <2> QED
      BY <2>1 DEF Box!BoxNext
  <1>10. CASE UNCHANGED queueVars
    BY <1>10 DEF queueVars, Box!boxVars
  <1> QED
    BY <1>1, <1>2, <1>3, <1>4, <1>5, <1>6, <1>7, <1>8, <1>9, <1>10
    DEF QueueNext, DoWrite, Box!BoxNext

\* The queue, the flag and the coroutine together are a FIFO outbox: nothing is
\* reordered or duplicated, and nothing is lost before the stream closes.
THEOREM QueueImplementsOutbox == QueueSafety => Box!BoxSafety
  <1>1. QueueInit => Box!BoxInit
    BY DEF QueueInit, Box!BoxInit
  <1> QED
    BY <1>1, BoxStep, QueueInvariant, PTL DEF QueueSafety, Box!BoxSafety

-----------------------------------------------------------------------------
(***************************************************************************)
(* Framing.                                                                *)
(***************************************************************************)

\* Where the queued frames on an open stream end: with the piece that do_write() wrote
\* last, of a frame it is not through with, or with a whole frame.
Tip ==
    open => \A i \in 1 .. Len(wire) : Precedes(i, Len(wire) + 1) =>
        IF done # <<>> /\ done[1] # 0
        THEN wire[i] = <<inflight[1], done[1]>> /\ done[1] < Pieces[inflight[1]]
        ELSE ~(wire[i][2] < Pieces[wire[i][1]])

\* Inductive: what comes next continues the tip.
FrameInv == QueueInv /\ Tip /\ FramesIntact

\* The parts of a piece.
LEMMA PieceParts ==
    ASSUME NEW a, NEW b, NEW p, p = <<a, b>>
    PROVE  p[1] = a /\ p[2] = b
  OBVIOUS

\* One more piece on the stream leaves what was there, and what precedes what.
LEMMA WireAppend ==
    ASSUME QueueTypeOK, NEW f \in Frame \cup {Reply}, NEW n \in Nat,
           wire' = Append(wire, <<f, n>>)
    PROVE  /\ Len(wire') = Len(wire) + 1 /\ Len(wire) \in Nat
           /\ wire'[Len(wire) + 1] = <<f, n>>
           /\ \A i \in 1 .. Len(wire) : wire'[i] = wire[i]
           /\ \A i \in 1 .. Len(wire), j \in 1 .. Len(wire) + 1 : Precedes(i, j)' <=> Precedes(i, j)
  <1>1. PICK S : S = (Frame \cup {Reply}) \X Nat
    OBVIOUS
  <1>2. wire \in Seq(S) /\ <<f, n>> \in S
    BY <1>1 DEF QueueTypeOK
  <1>3. PICK p \in S : p = <<f, n>>
    BY <1>2
  <1>4. /\ Len(wire') = Len(wire) + 1 /\ Len(wire) \in Nat /\ wire'[Len(wire) + 1] = p
        /\ \A i \in 1 .. Len(wire) : wire'[i] = wire[i]
    BY <1>2, <1>3
  <1>5. \A i \in 1 .. Len(wire), j \in 1 .. Len(wire) + 1 : Precedes(i, j)' <=> Precedes(i, j)
    <2> SUFFICES ASSUME NEW i \in 1 .. Len(wire), NEW j \in 1 .. Len(wire) + 1
                 PROVE  Precedes(i, j)' <=> Precedes(i, j)
      OBVIOUS
    <2>1. \A k \in i + 1 .. j - 1 : k \in 1 .. Len(wire)
      BY <1>4
    <2>2. \A k \in i + 1 .. j - 1 : wire'[k] = wire[k]
      BY <1>4, <2>1
    <2>3. wire'[i] = wire[i]
      BY <1>4
    <2> QED
      BY <2>2, <2>3 DEF Precedes
  <1> QED
    BY <1>3, <1>4, <1>5

\* A piece that continues the tip, d pieces of frame f, keeps the frames whole and is
\* the new tip.
LEMMA PieceFits ==
    ASSUME QueueTypeOK, FramesIntact, NEW f \in Frame, NEW d \in Nat,
           \A i \in 1 .. Len(wire) : Precedes(i, Len(wire) + 1) =>
               IF d # 0 THEN wire[i] = <<f, d>> /\ d < Pieces[f]
               ELSE ~(wire[i][2] < Pieces[wire[i][1]]),
           wire' = Append(wire, <<f, d + 1>>)
    PROVE  /\ FramesIntact'
           /\ \A k \in 1 .. Len(wire') : Precedes(k, Len(wire) + 1)' => wire'[k] = <<f, d + 1>>
  <1>2. PICK n \in Nat : n = Len(wire)
    BY DEF QueueTypeOK
  <1>3. /\ Len(wire') = n + 1 /\ wire'[n + 1] = <<f, d + 1>>
        /\ \A k \in 1 .. n : wire'[k] = wire[k]
        /\ \A k \in 1 .. n, j \in 1 .. n + 1 : Precedes(k, j)' <=> Precedes(k, j)
    <2>1. d + 1 \in Nat /\ f \in Frame \cup {Reply}
      OBVIOUS
    <2> QED
      BY <1>2, <2>1, WireAppend
  <1>4. ASSUME NEW j \in 1 .. n + 1, wire'[j][1] # Reply, NEW k \in 1 .. j - 1, Precedes(k, j)'
        PROVE  IF wire'[k][2] < Pieces[wire'[k][1]] THEN wire'[j] = <<wire'[k][1], wire'[k][2] + 1>>
               ELSE wire'[j][2] = 1
    <2>1. k \in 1 .. n /\ wire'[k] = wire[k] /\ Precedes(k, j)
      BY <1>3, <1>4
    <2>2. CASE j # n + 1
      <3>1. j \in 1 .. n /\ wire'[j] = wire[j]
        BY <1>3, <2>2
      <3> QED
        BY <1>2, <1>4, <2>1, <3>1 DEF FramesIntact
    <2>3. CASE j = n + 1
      <3>0. Precedes(k, n + 1)
        BY <2>1, <2>3
      <3>1. wire'[j] = <<f, d + 1>>
        BY <1>3, <2>3
      <3>2. CASE d # 0
        <4>1. wire[k] = <<f, d>> /\ d < Pieces[f]
          BY <1>2, <2>1, <3>0, <3>2
        <4>2. wire'[k] = <<f, d>>
          BY <2>1, <4>1
        <4>3. wire'[k][1] = f /\ wire'[k][2] = d
          <5>1. <<f, d>>[1] = f /\ <<f, d>>[2] = d
            OBVIOUS
          <5> QED
            BY <4>2, <5>1, Zenon
        <4>4. wire'[j] = <<wire'[k][1], wire'[k][2] + 1>>
          BY <3>1, <4>3
        <4>5. wire'[k][2] < Pieces[wire'[k][1]]
          BY <4>1, <4>3
        <4> QED
          BY <4>4, <4>5
      <3>3. CASE d = 0
        <4>1. ~(wire[k][2] < Pieces[wire[k][1]])
          BY <1>2, <2>1, <3>0, <3>3
        <4>2. wire'[j][2] = d + 1
          <5>1. <<f, d + 1>>[2] = d + 1
            OBVIOUS
          <5> QED
            BY <3>1, <5>1, Zenon
        <4>3. d + 1 = 1
          BY <3>3
        <4>4. ~(wire'[k][2] < Pieces[wire'[k][1]])
          BY <2>1, <4>1
        <4> QED
          BY <4>2, <4>3, <4>4
      <3> QED
        BY <3>2, <3>3
    <2> QED
      BY <2>2, <2>3
  <1>5. FramesIntact'
    BY <1>3, <1>4 DEF FramesIntact
  <1>6. ASSUME NEW k \in 1 .. n + 1, Precedes(k, n + 2)'
        PROVE  wire'[k] = <<f, d + 1>>
    <2>1. CASE k \in 1 .. n
      <3>1. n + 1 \in k + 1 .. (n + 2) - 1
        BY <2>1
      <3>2. wire'[n + 1][1] = Reply
        BY <1>6, <3>1 DEF Precedes
      <3>3. wire'[n + 1][1] = f
        BY <1>3, PieceParts
      <3> QED
        BY <3>2, <3>3, QueueAssumption
    <2> QED
      BY <1>3, <2>1
  <1>7. Len(wire') + 1 = n + 2 /\ Len(wire') = n + 1
    BY <1>3
  <1>8. \A k \in 1 .. Len(wire') : Precedes(k, Len(wire) + 1)' => wire'[k] = <<f, d + 1>>
    <2> SUFFICES ASSUME NEW k \in 1 .. Len(wire'), Precedes(k, Len(wire) + 1)'
                 PROVE  wire'[k] = <<f, d + 1>>
      OBVIOUS
    <2>1. k \in 1 .. n + 1
      BY <1>7
    <2>2. wire'[k][1] # Reply
      BY DEF Precedes
    <2>3. \A m \in k + 1 .. (n + 2) - 1 : wire'[m][1] = Reply
      BY <1>7 DEF Precedes
    <2>4. Precedes(k, n + 2)'
      BY <2>2, <2>3 DEF Precedes
    <2> QED
      BY <1>6, <2>1, <2>4
  <1> QED
    BY <1>5, <1>8

\* A reply of run() comes between pieces, and changes nothing of their order.
LEMMA ReplyFits ==
    ASSUME FrameInv, wire' = Append(wire, <<Reply, 1>>), UNCHANGED <<open, done, inflight>>
    PROVE  Tip' /\ FramesIntact'
  <1>0. QueueTypeOK
    BY DEF FrameInv, QueueInv
  <1>2. PICK n \in Nat : n = Len(wire)
    BY <1>0 DEF QueueTypeOK
  <1>3. /\ Len(wire') = n + 1 /\ wire'[n + 1] = <<Reply, 1>>
        /\ \A k \in 1 .. n : wire'[k] = wire[k]
        /\ \A k \in 1 .. n, j \in 1 .. n + 1 : Precedes(k, j)' <=> Precedes(k, j)
    BY <1>0, <1>2, WireAppend
  <1>4. ASSUME NEW j \in 1 .. n + 1, wire'[j][1] # Reply, NEW k \in 1 .. j - 1, Precedes(k, j)'
        PROVE  IF wire'[k][2] < Pieces[wire'[k][1]] THEN wire'[j] = <<wire'[k][1], wire'[k][2] + 1>>
               ELSE wire'[j][2] = 1
    <2>0. wire'[n + 1][1] = Reply
      <3>1. PICK p : p = <<Reply, 1>>
        OBVIOUS
      <3>2. p[1] = Reply
        BY <3>1
      <3>3. wire'[n + 1] = p
        BY <1>3, <3>1
      <3> QED
        BY <3>2, <3>3
    <2>1. j # n + 1
      BY <1>4, <2>0
    <2>2. j \in 1 .. n /\ k \in 1 .. n
      BY <1>2, <1>4, <2>1
    <2>3. wire'[k] = wire[k] /\ wire'[j] = wire[j]
      BY <1>3, <2>2
    <2>4. Precedes(k, j)
      BY <1>3, <1>4, <2>2
    <2>5. \A i \in 1 .. n : wire[i][1] # Reply =>
             \A m \in 1 .. i - 1 : Precedes(m, i) =>
                IF wire[m][2] < Pieces[wire[m][1]] THEN wire[i] = <<wire[m][1], wire[m][2] + 1>>
                ELSE wire[i][2] = 1
      BY <1>2 DEF FrameInv, FramesIntact
    <2>6. wire[j][1] # Reply
      BY <1>4, <2>3
    <2>7. IF wire[k][2] < Pieces[wire[k][1]] THEN wire[j] = <<wire[k][1], wire[k][2] + 1>>
          ELSE wire[j][2] = 1
      BY <1>4, <2>2, <2>4, <2>5, <2>6
    <2> QED
      BY <2>3, <2>7
  <1>5. FramesIntact'
    BY <1>3, <1>4 DEF FramesIntact
  <1>6. ASSUME NEW k \in 1 .. n + 1, Precedes(k, n + 2)'
        PROVE  k \in 1 .. n /\ wire'[k] = wire[k] /\ Precedes(k, n + 1)
    <2>1. wire'[k][1] # Reply
      BY <1>6 DEF Precedes
    <2>2. k # n + 1
      BY <1>3, <2>1
    <2>3. k \in 1 .. n /\ wire'[k] = wire[k]
      BY <1>3, <2>2
    <2>4. \A m \in k + 1 .. (n + 2) - 1 : wire'[m][1] = Reply
      BY <1>6 DEF Precedes
    <2>5. \A m \in k + 1 .. (n + 1) - 1 : m \in k + 1 .. (n + 2) - 1 /\ wire'[m] = wire[m]
      BY <1>3, <2>3
    <2> QED
      BY <2>1, <2>3, <2>4, <2>5 DEF Precedes
  <1>7. Len(wire') + 1 = n + 2 /\ Len(wire') = n + 1 /\ Len(wire) + 1 = n + 1
    BY <1>2, <1>3
  <1>8. Tip'
    BY <1>2, <1>6, <1>7 DEF FrameInv, Tip
  <1> QED
    BY <1>5, <1>8

\* Every step keeps the frames whole.
LEMMA FrameStep == FrameInv /\ [QueueNext]_queueVars => FrameInv'
  <1> SUFFICES ASSUME FrameInv, [QueueNext]_queueVars PROVE FrameInv'
    OBVIOUS
  <1>0. QueueInv' /\ QueueTypeOK /\ OneWriter /\ Tip /\ FramesIntact
    BY QueueInvStep DEF FrameInv, QueueInv
  <1> SUFFICES Tip' /\ FramesIntact'
    BY <1>0 DEF FrameInv
  <1>1. ASSUME UNCHANGED <<done, inflight, open, wire>> PROVE Tip' /\ FramesIntact'
    BY <1>0, <1>1 DEF Tip, FramesIntact, Precedes
  <1>2. ASSUME ~open', UNCHANGED wire PROVE Tip' /\ FramesIntact'
    BY <1>0, <1>2 DEF Tip, FramesIntact, Precedes
  <1>3. ASSUME NEW f \in Frame, Enqueue(f) PROVE Tip' /\ FramesIntact'
    BY <1>1, <1>3 DEF Enqueue
  <1>4. CASE StartWrite
    <2>1. done = <<>> /\ NextFrame(<<>>, <<>>) /\ writing = TRUE
      BY <1>0, <1>4, StartAlone
    <2>2. done' \in {<<>>, <<0>>}
      BY <1>0, <2>1, NextFrameInv
    <2>3. ~(done # <<>> /\ done[1] # 0) /\ ~(done' # <<>> /\ done'[1] # 0)
      BY <2>1, <2>2
    <2>4. UNCHANGED <<open, wire>>
      BY <1>4 DEF StartWrite
    <2> QED
      BY <1>0, <2>3, <2>4 DEF Tip, FramesIntact, Precedes
  <1>5. ASSUME NEW i \in 1 .. Len(inflight), WritePiece(i) PROVE Tip' /\ FramesIntact'
    <2>1. i = 1 /\ done = <<done[1]>> /\ done[1] \in Nat
      BY <1>0, Alone
    <2>2. /\ open /\ inflight' = inflight /\ done[1] + 1 < Pieces[inflight[1]]
          /\ done' = [done EXCEPT ![1] = done[1] + 1]
          /\ wire' = Append(wire, <<inflight[i], done[i] + 1>>)
      BY <1>5, <2>1 DEF WritePiece
    <2>3. /\ FramesIntact'
          /\ \A k \in 1 .. Len(wire') : Precedes(k, Len(wire) + 1)' => wire'[k] = <<inflight[1], done[1] + 1>>
      <3>1. PICK f \in Frame, d \in Nat : f = inflight[1] /\ d = done[1]
        BY <1>0, <2>1, Alone
      <3>2. \A k \in 1 .. Len(wire) : Precedes(k, Len(wire) + 1) =>
                IF d # 0 THEN wire[k] = <<f, d>> /\ d < Pieces[f]
                ELSE ~(wire[k][2] < Pieces[wire[k][1]])
        BY <1>0, <2>1, <2>2, <3>1 DEF Tip
      <3>3. wire' = Append(wire, <<f, d + 1>>)
        BY <2>1, <2>2, <3>1
      <3> QED
        BY <1>0, <3>1, <3>2, <3>3, PieceFits
    <2>4. done' = <<done[1] + 1>> /\ done' # <<>> /\ done'[1] = done[1] + 1 /\ done'[1] # 0
      <3>1. Len(done) = 1 /\ done \in Seq(Nat)
        BY <1>0, <2>1 DEF QueueTypeOK
      <3> QED
        BY <2>1, <2>2, <3>1
    <2> QED
      <3>1. \A k \in 1 .. Len(wire') : Precedes(k, Len(wire) + 1)' =>
                wire'[k] = <<inflight'[1], done'[1]>> /\ done'[1] < Pieces[inflight'[1]]
        BY <2>2, <2>3, <2>4
      <3>2. Tip'
        BY <2>4, <3>1 DEF Tip
      <3> QED
        BY <2>3, <3>2
  <1>6. ASSUME NEW i \in 1 .. Len(inflight), WriteDone(i) PROVE Tip' /\ FramesIntact'
    <2>1. /\ i = 1 /\ done[1] \in Nat /\ writing = TRUE /\ NextFrame(<<>>, <<>>)
          /\ inflight[1] \in Frame
      BY <1>0, <1>6, Alone DEF WriteDone
    <2>2. /\ open /\ done[1] + 1 = Pieces[inflight[1]]
          /\ wire' = Append(wire, <<inflight[i], done[i] + 1>>)
      BY <1>6, <2>1 DEF WriteDone
    <2>3. /\ FramesIntact'
          /\ \A k \in 1 .. Len(wire') : Precedes(k, Len(wire) + 1)' => wire'[k] = <<inflight[1], done[1] + 1>>
      <3>1. PICK f \in Frame, d \in Nat : f = inflight[1] /\ d = done[1]
        BY <1>0, <2>1, Alone
      <3>2. done # <<>>
        BY <1>0, <2>1 DEF QueueTypeOK
      <3>3. \A k \in 1 .. Len(wire) : Precedes(k, Len(wire) + 1) =>
                IF d # 0 THEN wire[k] = <<f, d>> /\ d < Pieces[f]
                ELSE ~(wire[k][2] < Pieces[wire[k][1]])
        BY <1>0, <2>2, <3>1, <3>2 DEF Tip
      <3>4. wire' = Append(wire, <<f, d + 1>>)
        BY <2>1, <2>2, <3>1
      <3> QED
        BY <1>0, <3>1, <3>3, <3>4, PieceFits
    <2>4. done' \in {<<>>, <<0>>}
      BY <1>0, <2>1, NextFrameInv
    <2>5. ~(done' # <<>> /\ done'[1] # 0)
      BY <2>4
    <2>6. ASSUME NEW k \in 1 .. Len(wire'), Precedes(k, Len(wire) + 1)'
          PROVE  ~(wire'[k][2] < Pieces[wire'[k][1]])
      <3>1. wire'[k][1] = inflight[1] /\ wire'[k][2] = done[1] + 1
        BY <2>3, <2>6
      <3>2. ~(done[1] + 1 < done[1] + 1)
        BY <2>1
      <3> QED
        BY <2>2, <3>1, <3>2
    <2> QED
      <3>1. Tip'
        BY <2>5, <2>6 DEF Tip
      <3> QED
        BY <2>3, <3>1
  <1>7. ASSUME NEW i \in 1 .. Len(inflight), WriteError(i) \/ WriteIntoVoid(i)
        PROVE  Tip' /\ FramesIntact'
    BY <1>2, <1>7 DEF WriteError, WriteIntoVoid
  <1>8. CASE ReplyStart
    BY <1>1, <1>8 DEF ReplyStart
  <1>9. CASE ReplyDone
    <2>1. CASE open
      BY <1>9, <2>1, ReplyFits DEF ReplyDone
    <2>2. CASE ~open
      BY <1>1, <1>9, <2>2 DEF ReplyDone
    <2> QED
      BY <2>1, <2>2
  <1>10. CASE CloseStream
    BY <1>2, <1>10 DEF CloseStream
  <1>11. CASE UNCHANGED queueVars
    BY <1>1, <1>11 DEF queueVars
  <1> QED
    BY <1>3, <1>4, <1>5, <1>6, <1>7, <1>8, <1>9, <1>10, <1>11 DEF QueueNext, DoWrite

\* The pieces of queued frames never mix, on a TCP and on a WebSocket session, for any
\* frames, any number of pieces and any order of the do_write() coroutines that
\* enqueue() spawns.
THEOREM FramesWhole == QueueSafety => []FramesIntact
  <1>1. QueueInit => Tip /\ FramesIntact
    BY DEF QueueInit, Tip, FramesIntact
  <1>2. FrameInv => FramesIntact
    BY DEF FrameInv
  <1>3. QueueInit => FrameInv
    BY <1>1, QueueStart DEF FrameInv
  <1> QED
    BY <1>2, <1>3, FrameStep, PTL DEF QueueSafety
-----------------------------------------------------------------------------
(***************************************************************************)
(* The token bucket.                                                       *)
(***************************************************************************)

\* Bookkeeping: nothing happens to a bucket before it exists, and no grant lies
\* in the future of the last refill.
Ledger(k) ==
    /\ last_refill[k] <= now
    /\ ~known[k] => grants[k] = <<>>
    /\ \A i \in 1 .. Len(grants[k]) :
          grants[k][i].at <= last_refill[k] /\ grants[k][i].before <= spent[k]

\* Above: since any grant, what was spent and what is left come from a full
\* bucket and the refill.
NotAbove(k) ==
    \A i \in 1 .. Len(grants[k]) :
        spent[k] - grants[k][i].before + tokens[k]
            <= Capacity + last_refill[k] - grants[k][i].at

\* Below: a bucket that is not full lacks no more than what was spent since
\* some grant, less the refill since then.
NotBelow(k) ==
    known[k] => \/ tokens[k] = Capacity
                \/ \E i \in 1 .. Len(grants[k]) :
                      Capacity + last_refill[k] - grants[k][i].at
                          <= spent[k] - grants[k][i].before + tokens[k]

Windows(k) ==
    \A i, j \in 1 .. Len(grants[k]) :
        i <= j => grants[k][j].before + Cost - grants[k][i].before
                     <= Capacity + (grants[k][j].at - grants[k][i].at)

\* The inductive invariant.
RateInv ==
    /\ TypeOK
    /\ \A k \in Key : Ledger(k) /\ NotAbove(k) /\ NotBelow(k) /\ Windows(k)

-----------------------------------------------------------------------------
\* The types of what concerns one key.
LEMMA KeyTypes ==
    ASSUME TypeOK, NEW k \in Key
    PROVE  /\ now \in Nat /\ tokens[k] \in Nat /\ tokens[k] <= Capacity
           /\ last_refill[k] \in Nat /\ known[k] \in BOOLEAN /\ spent[k] \in Nat
           /\ grants[k] \in Seq(GrantRecord)
           /\ Len(grants[k]) \in Nat
           /\ \A i \in 1 .. Len(grants[k]) :
                 grants[k][i].at \in Nat /\ grants[k][i].before \in Nat
           /\ Capacity \in Nat /\ Cost \in Nat /\ Cost > 0 /\ Cost <= Capacity
  <1>1. grants[k] \in Seq(GrantRecord)
    BY DEF TypeOK
  <1>2. Len(grants[k]) \in Nat
    BY <1>1, LenProperties
  <1>3. \A i \in 1 .. Len(grants[k]) : grants[k][i] \in GrantRecord
    BY <1>1, ElementOfSeq
  <1> QED
    BY <1>1, <1>2, <1>3, RateAssumption DEF TypeOK, GrantRecord

\* What a look at the bucket gives.
LEMMA RefilledBounds ==
    ASSUME TypeOK, NEW k \in Key, Ledger(k)
    PROVE  /\ Refilled(k) \in Nat /\ Refilled(k) <= Capacity
           /\ Refilled(k) <= tokens[k] + (now - last_refill[k])
           /\ tokens[k] <= Refilled(k)
           /\ Refilled(k) < Capacity => Refilled(k) = tokens[k] + (now - last_refill[k])
  BY KeyTypes DEF Refilled, Ledger

\* One more element at the end of a sequence.
LEMMA AppendAt ==
    ASSUME NEW S, NEW q \in Seq(S), NEW g \in S
    PROVE  /\ Append(q, g) \in Seq(S)
           /\ Len(q) \in Nat /\ Len(Append(q, g)) = Len(q) + 1
           /\ \A i \in 1 .. Len(q) : Append(q, g)[i] = q[i]
           /\ Append(q, g)[Len(q) + 1] = g
  BY AppendProperties, LenProperties

\* The sequence of grants after one more.
LEMMA AppendGrant ==
    ASSUME TypeOK, NEW k \in Key, NEW g \in GrantRecord,
           grants' = [grants EXCEPT ![k] = Append(@, g)]
    PROVE  /\ grants' \in [Key -> Seq(GrantRecord)]
           /\ Len(grants[k]) \in Nat
           /\ Len(grants'[k]) = Len(grants[k]) + 1
           /\ \A i \in 1 .. Len(grants[k]) : grants'[k][i] = grants[k][i]
           /\ grants'[k][Len(grants[k]) + 1] = g
           /\ \A i \in 1 .. Len(grants'[k]) : i \in 1 .. Len(grants[k]) \/ i = Len(grants[k]) + 1
           /\ \A l \in Key \ {k} : grants'[l] = grants[l]
  <1>1. grants[k] \in Seq(GrantRecord)
    BY DEF TypeOK
  <1>2. grants'[k] = Append(grants[k], g)
    BY DEF TypeOK
  <1>3. /\ grants'[k] \in Seq(GrantRecord)
        /\ Len(grants[k]) \in Nat
        /\ Len(grants'[k]) = Len(grants[k]) + 1
        /\ \A i \in 1 .. Len(grants[k]) : grants'[k][i] = grants[k][i]
        /\ grants'[k][Len(grants[k]) + 1] = g
    BY <1>1, <1>2, AppendAt
  <1>4. \A l \in Key \ {k} : grants'[l] = grants[l]
    BY DEF TypeOK
  <1>5. grants' \in [Key -> Seq(GrantRecord)]
    BY <1>3, <1>4 DEF TypeOK
  <1> QED
    BY <1>3, <1>4, <1>5

\* Nothing that concerns a key changes when only another key is served.
LEMMA OtherKey ==
    ASSUME NEW l \in Key, Ledger(l) /\ NotAbove(l) /\ NotBelow(l) /\ Windows(l),
           now' = now, tokens'[l] = tokens[l], last_refill'[l] = last_refill[l],
           known'[l] = known[l], spent'[l] = spent[l], grants'[l] = grants[l]
    PROVE  (Ledger(l) /\ NotAbove(l) /\ NotBelow(l) /\ Windows(l))'
  BY DEF Ledger, NotAbove, NotBelow, Windows

-----------------------------------------------------------------------------
\* The arithmetic of a grant of key k at time now, seen from an earlier grant
\* at time a that found b spent: `left` units are in the bucket, Cost are taken.
LEMMA GrantArithmetic ==
    ASSUME NEW k, NEW left, NEW a, NEW b,
           left \in Nat, a \in Nat, b \in Nat, now \in Nat, tokens[k] \in Nat,
           last_refill[k] \in Nat, spent[k] \in Nat, Capacity \in Nat, Cost \in Nat
    PROVE  /\ /\ left <= tokens[k] + (now - last_refill[k])
              /\ spent[k] - b + tokens[k] <= Capacity + last_refill[k] - a
              => (spent[k] + Cost) - b + (left - Cost) <= Capacity + now - a
           /\ /\ tokens[k] + (now - last_refill[k]) <= left
              /\ Capacity + last_refill[k] - a <= spent[k] - b + tokens[k]
              => Capacity + now - a <= (spent[k] + Cost) - b + (left - Cost)
           /\ /\ Cost <= left
              /\ (spent[k] + Cost) - b + (left - Cost) <= Capacity + now - a
              => spent[k] + Cost - b <= Capacity + (now - a)
  OBVIOUS

\* The same for the grant itself, seen from its own time.
LEMMA FreshArithmetic ==
    ASSUME NEW sum, NEW left, sum \in Nat, left \in Nat, now \in Nat,
           Capacity \in Nat, Cost \in Nat, left <= Capacity
    PROVE  (sum + Cost) - sum + (left - Cost) <= Capacity + now - now
  OBVIOUS

\* The same for a refusal.
LEMMA RefuseArithmetic ==
    ASSUME NEW k, NEW a, NEW b,
           a \in Nat, b \in Nat, now \in Nat, tokens[k] \in Nat,
           last_refill[k] \in Nat, spent[k] \in Nat, Capacity \in Nat, Cost \in Nat
    PROVE  /\ spent[k] - b + tokens[k] <= Capacity + last_refill[k] - a
              => spent[k] - b + (tokens[k] + (now - last_refill[k])) <= Capacity + now - a
           /\ Capacity + last_refill[k] - a <= spent[k] - b + tokens[k]
              => Capacity + now - a <= spent[k] - b + (tokens[k] + (now - last_refill[k]))
           /\ /\ Capacity + last_refill[k] - a <= spent[k] - b + tokens[k]
              /\ tokens[k] + (now - last_refill[k]) < Cost
              => spent[k] + Cost - b > Capacity + (now - a)
  OBVIOUS

\* A request that is granted: `left` is what the bucket holds before the charge.
LEMMA GrantInv ==
    ASSUME RateInv, NEW k \in Key, NEW left \in Nat,
           Cost <= left, left <= Capacity,
           left <= tokens[k] + (now - last_refill[k]) \/ grants[k] = <<>>,
           NotBelow(k),
           left = Capacity \/ (known[k] /\ left = tokens[k] + (now - last_refill[k])),
           Grant(k, left),
           last_refill' = [last_refill EXCEPT ![k] = now],
           now' = now, known' \in [Key -> BOOLEAN], known'[k] = TRUE,
           \A l \in Key \ {k} : known'[l] = known[l]
    PROVE  RateInv'
  <1> DEFINE g == [at |-> now, before |-> spent[k]]
             n == Len(grants[k]) + 1
  <1>0. TypeOK
    BY DEF RateInv
  <1>1. /\ now \in Nat /\ tokens[k] \in Nat /\ tokens[k] <= Capacity
        /\ last_refill[k] \in Nat /\ spent[k] \in Nat
        /\ Capacity \in Nat /\ Cost \in Nat /\ Cost > 0 /\ Cost <= Capacity
    BY <1>0, KeyTypes
  <1>t. \A i \in 1 .. Len(grants[k]) :
              grants[k][i].at \in Nat /\ grants[k][i].before \in Nat
    BY <1>0, KeyTypes
  <1>2. Ledger(k) /\ NotAbove(k) /\ Windows(k)
    BY DEF RateInv
  <1>3. /\ tokens'[k] = left - Cost /\ spent'[k] = spent[k] + Cost
        /\ last_refill'[k] = now
        /\ grants' = [grants EXCEPT ![k] = Append(@, g)]
    BY <1>0 DEF Grant, TypeOK
  <1>4. g \in GrantRecord /\ g.at = now /\ g.before = spent[k]
    BY <1>1 DEF GrantRecord
  <1> HIDE DEF g
  <1>5. /\ grants' \in [Key -> Seq(GrantRecord)]
        /\ Len(grants[k]) \in Nat
        /\ Len(grants'[k]) = Len(grants[k]) + 1
        /\ \A i \in 1 .. Len(grants[k]) : grants'[k][i] = grants[k][i]
        /\ grants'[k][Len(grants[k]) + 1] = g
        /\ \A i \in 1 .. Len(grants'[k]) : i \in 1 .. Len(grants[k]) \/ i = Len(grants[k]) + 1
        /\ \A l \in Key \ {k} : grants'[l] = grants[l]
    BY <1>0, <1>3, <1>4, AppendGrant
  <1> HIDE DEF n
  <1>n. /\ n \in Nat /\ Len(grants'[k]) = n /\ n \in 1 .. n
        /\ grants'[k][n].at = now /\ grants'[k][n].before = spent[k]
        /\ \A i \in 1 .. Len(grants'[k]) : i \in 1 .. Len(grants[k]) \/ i = n
        /\ \A i \in 1 .. Len(grants[k]) : i \in 1 .. n /\ i < n
    BY <1>4, <1>5 DEF n
  <1>o. \A i \in 1 .. Len(grants[k]) :
            /\ grants'[k][i].at = grants[k][i].at
            /\ grants'[k][i].before = grants[k][i].before
    BY <1>5
  <1>6. TypeOK'
    <2>1. left - Cost \in 0 .. Capacity /\ spent[k] + Cost \in Nat
      BY <1>1
    <2>2. /\ tokens \in [Key -> 0 .. Capacity] /\ spent \in [Key -> Nat]
          /\ last_refill \in [Key -> Nat] /\ now \in Nat
      BY <1>0 DEF TypeOK
    <2>3. tokens' = [tokens EXCEPT ![k] = left - Cost] /\ spent' = [spent EXCEPT ![k] = @ + Cost]
      BY DEF Grant
    <2>4. tokens' \in [Key -> 0 .. Capacity]
      BY <2>1, <2>2, <2>3
    <2>5. spent' \in [Key -> Nat] /\ last_refill' \in [Key -> Nat]
      BY <2>1, <2>2, <2>3
    <2> QED
      BY <1>5, <2>2, <2>4, <2>5 DEF TypeOK
  <1>7. Ledger(k)'
    <2>1. ASSUME NEW i \in 1 .. Len(grants'[k])
          PROVE  grants'[k][i].at <= last_refill'[k] /\ grants'[k][i].before <= spent'[k]
      <3>1. CASE i = n
        <4>1. grants'[k][i].at = now /\ grants'[k][i].before = spent[k]
          BY <1>n, <3>1
        <4>2. last_refill'[k] = now /\ spent'[k] = spent[k] + Cost
          BY <1>3
        <4>3. now <= now /\ spent[k] <= spent[k] + Cost
          BY <1>1
        <4> QED
          BY <4>1, <4>2, <4>3
      <3>2. CASE i \in 1 .. Len(grants[k])
        <4>1. /\ grants[k][i].at <= last_refill[k] /\ grants[k][i].before <= spent[k]
              /\ last_refill[k] <= now
          BY <1>2, <3>2 DEF Ledger
        <4>2. grants[k][i].at \in Nat /\ grants[k][i].before \in Nat
          BY <1>t, <3>2
        <4>3. now \in Nat /\ last_refill[k] \in Nat /\ spent[k] \in Nat /\ Cost \in Nat
          BY <1>1
        <4>4. grants[k][i].at <= now
          BY <4>1, <4>2, <4>3
        <4>5. grants[k][i].before <= spent[k] + Cost
          BY <4>1, <4>2, <4>3
        <4> QED
          BY <1>3, <1>o, <3>2, <4>4, <4>5
      <3> QED
        BY <1>n, <2>1, <3>1, <3>2
    <2>2. last_refill'[k] <= now'
      BY <1>1, <1>3
    <2> QED
      BY <2>1, <2>2 DEF Ledger
  <1>8. NotAbove(k)'
    <2>1. ASSUME NEW i \in 1 .. Len(grants'[k])
          PROVE  spent'[k] - grants'[k][i].before + tokens'[k]
                    <= Capacity + last_refill'[k] - grants'[k][i].at
      <3>1. CASE i = n
        <4>1. (spent[k] + Cost) - spent[k] + (left - Cost) <= Capacity + now - now
          BY <1>1, FreshArithmetic
        <4>2. grants'[k][i].at = now /\ grants'[k][i].before = spent[k]
          BY <1>n, <3>1
        <4>3. /\ spent'[k] = spent[k] + Cost /\ tokens'[k] = left - Cost
              /\ last_refill'[k] = now
          BY <1>3
        <4> QED
          BY <4>1, <4>2, <4>3
      <3>2. CASE i \in 1 .. Len(grants[k])
        <4>1. left <= tokens[k] + (now - last_refill[k])
          <5>1. grants[k] # <<>>
            BY <3>2
          <5> QED
            BY <5>1
        <4>2. spent[k] - grants[k][i].before + tokens[k]
                 <= Capacity + last_refill[k] - grants[k][i].at
          BY <1>2, <3>2 DEF NotAbove
        <4>3. grants[k][i].at \in Nat /\ grants[k][i].before \in Nat
          BY <1>t, <3>2
        <4>4. (spent[k] + Cost) - grants[k][i].before + (left - Cost)
                 <= Capacity + now - grants[k][i].at
          BY <1>1, <4>1, <4>2, <4>3, GrantArithmetic
        <4> QED
          BY <1>3, <1>o, <3>2, <4>4
      <3> QED
        BY <1>n, <2>1, <3>1, <3>2
    <2> QED
      BY <2>1 DEF NotAbove
  <1>9. NotBelow(k)'
    <2>1. CASE left = Capacity
      <3>1. Capacity + now - now <= (spent[k] + Cost) - spent[k] + (left - Cost)
        BY <1>1, <2>1
      <3>2. Capacity + last_refill'[k] - grants'[k][n].at
                <= spent'[k] - grants'[k][n].before + tokens'[k]
        BY <1>3, <1>n, <3>1
      <3> QED
        BY <1>n, <3>2 DEF NotBelow
    <2>2. CASE left # Capacity
      <3>1. known[k] /\ left = tokens[k] + (now - last_refill[k]) /\ last_refill[k] <= now
        BY <1>2, <2>2 DEF Ledger
      <3>2. tokens[k] # Capacity
        BY <1>1, <2>2, <3>1
      <3>3. PICK i \in 1 .. Len(grants[k]) :
                Capacity + last_refill[k] - grants[k][i].at
                    <= spent[k] - grants[k][i].before + tokens[k]
        BY <3>1, <3>2 DEF NotBelow
      <3>4. grants[k][i].at \in Nat /\ grants[k][i].before \in Nat
        BY <1>t
      <3>5. tokens[k] + (now - last_refill[k]) <= left
        BY <1>1, <3>1
      <3>6. Capacity + now - grants[k][i].at
                <= (spent[k] + Cost) - grants[k][i].before + (left - Cost)
        BY <1>1, <3>3, <3>4, <3>5, GrantArithmetic
      <3>7. Capacity + last_refill'[k] - grants'[k][i].at
                <= spent'[k] - grants'[k][i].before + tokens'[k]
        BY <1>3, <1>o, <3>6
      <3>8. i \in 1 .. Len(grants'[k])
        BY <1>n
      <3> QED
        BY <3>7, <3>8 DEF NotBelow
    <2> QED
      BY <2>1, <2>2
  <1>10. Windows(k)'
    <2>1. ASSUME NEW i \in 1 .. Len(grants'[k]), NEW j \in 1 .. Len(grants'[k]), i <= j
          PROVE  grants'[k][j].before + Cost - grants'[k][i].before
                     <= Capacity + (grants'[k][j].at - grants'[k][i].at)
      <3>1. CASE j = n
        <4>1. (spent[k] + Cost) - grants'[k][i].before + (left - Cost)
                    <= Capacity + now - grants'[k][i].at
          BY <1>3, <1>8, <2>1 DEF NotAbove
        <4>2. grants'[k][i].at \in Nat /\ grants'[k][i].before \in Nat
          BY <1>1, <1>t, <1>n, <1>o, <2>1
        <4>3. spent[k] + Cost - grants'[k][i].before <= Capacity + (now - grants'[k][i].at)
          BY <1>1, <4>1, <4>2, GrantArithmetic
        <4> QED
          BY <1>n, <3>1, <4>3
      <3>2. CASE j \in 1 .. Len(grants[k])
        <4>1. i \in 1 .. Len(grants[k])
          BY <1>5, <2>1, <3>2
        <4> QED
          BY <1>2, <1>o, <2>1, <3>2, <4>1 DEF Windows
      <3> QED
        BY <1>n, <2>1, <3>1, <3>2
    <2> QED
      BY <2>1 DEF Windows
  <1>11. ASSUME NEW l \in Key \ {k}
         PROVE  (Ledger(l) /\ NotAbove(l) /\ NotBelow(l) /\ Windows(l))'
    <2>1. /\ tokens'[l] = tokens[l] /\ last_refill'[l] = last_refill[l]
          /\ spent'[l] = spent[l] /\ grants'[l] = grants[l] /\ known'[l] = known[l]
      BY <1>0, <1>5, <1>11 DEF Grant, TypeOK
    <2> QED
      BY <2>1, <1>11, OtherKey DEF RateInv
  <1> QED
    BY <1>6, <1>7, <1>8, <1>9, <1>10, <1>11 DEF RateInv

\* A tick changes nothing a bucket knows.
LEMMA TickInv ==
    ASSUME RateInv, Tick
    PROVE  RateInv'
  <1>1. now' = now + 1 /\ UNCHANGED <<tokens, last_refill, known, spent, grants>>
    BY DEF Tick
  <1>2. TypeOK'
    BY <1>1 DEF RateInv, TypeOK
  <1>3. ASSUME NEW k \in Key
        PROVE  (Ledger(k) /\ NotAbove(k) /\ NotBelow(k) /\ Windows(k))'
    <2>1. last_refill[k] <= now + 1
      BY <1>3, KeyTypes DEF RateInv, Ledger
    <2> QED
      BY <1>1, <1>3, <2>1 DEF RateInv, Ledger, NotAbove, NotBelow, Windows
  <1> QED
    BY <1>2, <1>3 DEF RateInv

\* A request of a known key with enough in its bucket.
LEMMA AllowInv ==
    ASSUME RateInv, NEW k \in Key, Allow(k)
    PROVE  RateInv'
  <1>1. /\ Refilled(k) \in Nat /\ Refilled(k) <= Capacity
        /\ Refilled(k) <= tokens[k] + (now - last_refill[k])
        /\ Refilled(k) < Capacity => Refilled(k) = tokens[k] + (now - last_refill[k])
    BY RefilledBounds DEF RateInv
  <1>2. Refilled(k) = Capacity \/ Refilled(k) = tokens[k] + (now - last_refill[k])
    BY <1>1, RateAssumption
  <1>3. known[k] /\ Cost <= Refilled(k) /\ Grant(k, Refilled(k))
        /\ last_refill' = [last_refill EXCEPT ![k] = now] /\ now' = now /\ known' = known
    BY <1>1, RateAssumption DEF Allow
  <1>4. known \in [Key -> BOOLEAN] /\ known[k] = TRUE /\ NotBelow(k)
    BY <1>3 DEF RateInv, TypeOK
  <1> QED
    BY <1>1, <1>2, <1>3, <1>4, GrantInv

\* The first request of a key.
LEMMA FirstInv ==
    ASSUME RateInv, NEW k \in Key, First(k)
    PROVE  RateInv'
  <1>1. /\ ~known[k] /\ Grant(k, Capacity) /\ now' = now
        /\ known' = [known EXCEPT ![k] = TRUE]
        /\ last_refill' = [last_refill EXCEPT ![k] = now]
    BY DEF First
  <1>2. grants[k] = <<>> /\ NotBelow(k) /\ known \in [Key -> BOOLEAN]
    BY <1>1 DEF RateInv, Ledger, TypeOK
  <1>3. Capacity \in Nat /\ Cost <= Capacity /\ Capacity <= Capacity
    BY RateAssumption
  <1>4. /\ known' \in [Key -> BOOLEAN] /\ known'[k] = TRUE
        /\ \A l \in Key \ {k} : known'[l] = known[l]
    BY <1>1, <1>2
  <1> QED
    BY <1>1, <1>2, <1>3, <1>4, GrantInv

\* A refusal only brings the bucket up to date.
LEMMA RefuseInv ==
    ASSUME RateInv, NEW k \in Key, Refuse(k)
    PROVE  RateInv'
  <1>0. TypeOK /\ Ledger(k) /\ NotAbove(k) /\ NotBelow(k) /\ Windows(k)
    BY DEF RateInv
  <1>1. /\ Refilled(k) \in Nat /\ Refilled(k) < Capacity
        /\ Refilled(k) = tokens[k] + (now - last_refill[k])
    BY <1>0, RefilledBounds, RateAssumption DEF Refuse
  <1>2. /\ tokens' = [tokens EXCEPT ![k] = Refilled(k)]
        /\ last_refill' = [last_refill EXCEPT ![k] = now]
        /\ UNCHANGED <<now, known, spent, grants>> /\ known[k]
    BY DEF Refuse
  <1>3. /\ now \in Nat /\ tokens[k] \in Nat /\ tokens[k] <= Capacity
        /\ last_refill[k] \in Nat /\ spent[k] \in Nat /\ Capacity \in Nat
    BY <1>0, KeyTypes
  <1>4. \A i \in 1 .. Len(grants[k]) : grants[k][i].at \in Nat /\ grants[k][i].before \in Nat
    BY <1>0, KeyTypes
  <1>5. tokens'[k] = tokens[k] + (now - last_refill[k]) /\ last_refill'[k] = now
    BY <1>0, <1>1, <1>2 DEF TypeOK
  <1>6. TypeOK'
    BY <1>0, <1>1, <1>2, <1>3 DEF TypeOK
  <1>7. Ledger(k)'
    BY <1>0, <1>2, <1>3, <1>4, <1>5 DEF Ledger
  <1>8. NotAbove(k)'
    <2>1. ASSUME NEW i \in 1 .. Len(grants[k])
          PROVE  spent[k] - grants[k][i].before + (tokens[k] + (now - last_refill[k]))
                    <= Capacity + now - grants[k][i].at
      <3>1. spent[k] - grants[k][i].before + tokens[k]
                <= Capacity + last_refill[k] - grants[k][i].at
        BY <1>0 DEF NotAbove
      <3>2. grants[k][i].at \in Nat /\ grants[k][i].before \in Nat
        BY <1>4
      <3> QED
        BY <1>3, <3>1, <3>2, RateAssumption, RefuseArithmetic
    <2> QED
      BY <1>2, <1>5, <2>1 DEF NotAbove
  <1>9. NotBelow(k)'
    <2>1. tokens[k] # Capacity
      BY <1>0, <1>1, <1>3 DEF Ledger
    <2>2. PICK i \in 1 .. Len(grants[k]) :
              Capacity + last_refill[k] - grants[k][i].at
                  <= spent[k] - grants[k][i].before + tokens[k]
      BY <1>0, <1>2, <2>1 DEF NotBelow
    <2>3. grants[k][i].at \in Nat /\ grants[k][i].before \in Nat
      BY <1>4
    <2>4. Capacity + now - grants[k][i].at
              <= spent[k] - grants[k][i].before + (tokens[k] + (now - last_refill[k]))
      BY <1>3, <2>2, <2>3, RateAssumption, RefuseArithmetic
    <2> QED
      BY <1>2, <1>5, <2>4 DEF NotBelow
  <1>10. Windows(k)'
    BY <1>0, <1>2 DEF Windows
  <1>11. ASSUME NEW l \in Key \ {k}
         PROVE  (Ledger(l) /\ NotAbove(l) /\ NotBelow(l) /\ Windows(l))'
    <2>1. /\ tokens'[l] = tokens[l] /\ last_refill'[l] = last_refill[l]
          /\ spent'[l] = spent[l] /\ grants'[l] = grants[l] /\ known'[l] = known[l]
      BY <1>0, <1>2, <1>11 DEF TypeOK
    <2> QED
      BY <1>2, <1>11, <2>1, OtherKey DEF RateInv
  <1> QED
    BY <1>6, <1>7, <1>8, <1>9, <1>10, <1>11 DEF RateInv

-----------------------------------------------------------------------------
\* The buckets keep their books, whoever asks and whenever.
THEOREM RateInvariant == Spec => []RateInv
  <1>1. Init => RateInv
    <2> SUFFICES ASSUME Init PROVE RateInv
      OBVIOUS
    <2>1. /\ now = 0 /\ tokens \in [Key -> 0 .. Capacity]
          /\ last_refill = [k \in Key |-> 0] /\ known = [k \in Key |-> k \notin Lazy]
          /\ spent = [k \in Key |-> 0] /\ grants = [k \in Key |-> <<>>]
      BY RateAssumption DEF Init
    <2>2. known \in [Key -> BOOLEAN]
      BY <2>1, RateAssumption
    <2>3. <<>> \in Seq(GrantRecord) /\ Len(<<>>) = 0
      BY EmptySeq
    <2>4. TypeOK
      BY <2>1, <2>2, <2>3 DEF TypeOK
    <2>5. ASSUME NEW k \in Key
          PROVE  Ledger(k) /\ NotAbove(k) /\ NotBelow(k) /\ Windows(k)
      <3>1. grants[k] = <<>> /\ Len(grants[k]) = 0 /\ last_refill[k] = 0 /\ now = 0
        BY <2>1, <2>3, <2>5
      <3>2. known[k] => tokens[k] = Capacity
        BY <2>5 DEF Init
      <3> QED
        BY <3>1, <3>2 DEF Ledger, NotAbove, NotBelow, Windows
    <2> QED
      BY <2>4, <2>5 DEF RateInv
  <1>2. RateInv /\ [Next]_vars => RateInv'
    <2> SUFFICES ASSUME RateInv, [Next]_vars PROVE RateInv'
      OBVIOUS
    <2>1. CASE UNCHANGED vars
      BY <2>1 DEF vars, RateInv, TypeOK, Ledger, NotAbove, NotBelow, Windows
    <2> QED
      BY <2>1, TickInv, FirstInv, AllowInv, RefuseInv DEF Next
  <1> QED
    BY <1>1, <1>2, PTL DEF Spec

\* The bucket's contents stay between zero and its capacity.
THEOREM RateTypes == Spec => []TypeOK
  <1>1. RateInv => TypeOK
    BY DEF RateInv
  <1> QED
    BY <1>1, RateInvariant, PTL

\* No window between two grants holds more than a full bucket and its refill.
THEOREM RateWindows == Spec => []WindowBound
  <1>1. RateInv => WindowBound
    BY DEF RateInv, Windows, WindowBound
  <1> QED
    BY <1>1, RateInvariant, PTL

\* Whoever is refused has used up some window.
THEOREM RateFair == Spec => []OnlyExcessRefused
  <1>1. RateInv => OnlyExcessRefused
    <2> SUFFICES ASSUME RateInv, NEW k \in Key, known[k], Refilled(k) < Cost
                 PROVE  \E i \in 1 .. Len(grants[k]) :
                           spent[k] + Cost - grants[k][i].before
                               > Capacity + (now - grants[k][i].at)
      BY DEF OnlyExcessRefused
    <2>0. TypeOK /\ Ledger(k) /\ NotBelow(k)
      BY DEF RateInv
    <2>1. /\ now \in Nat /\ tokens[k] \in Nat /\ tokens[k] <= Capacity
          /\ last_refill[k] \in Nat /\ spent[k] \in Nat
          /\ Capacity \in Nat /\ Cost \in Nat /\ Cost <= Capacity
      BY <2>0, KeyTypes
    <2>2. tokens[k] + (now - last_refill[k]) < Cost /\ tokens[k] # Capacity
      BY <2>0, <2>1, RefilledBounds
    <2>3. PICK i \in 1 .. Len(grants[k]) :
              Capacity + last_refill[k] - grants[k][i].at
                  <= spent[k] - grants[k][i].before + tokens[k]
      BY <2>0, <2>2 DEF NotBelow
    <2>4. grants[k][i].at \in Nat /\ grants[k][i].before \in Nat
      BY <2>0, KeyTypes
    <2>5. spent[k] + Cost - grants[k][i].before > Capacity + (now - grants[k][i].at)
      BY <2>1, <2>2, <2>3, <2>4, RefuseArithmetic
    <2> QED
      BY <2>5
  <1> QED
    BY <1>1, RateInvariant, PTL
=============================================================================

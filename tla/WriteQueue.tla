------------------------------ MODULE WriteQueue ------------------------------
(***************************************************************************)
(* The outbound side of one session: write_queue_, the writing_ flag and   *)
(* the do_write() coroutine that Session and WebSocketSession share in     *)
(* form, down to the pieces in which a frame reaches the stream.           *)
(*                                                                         *)
(* async_write sends a frame piece by piece (TLS records); between two     *)
(* pieces the io thread runs other coroutines.  On a TCP session run()     *)
(* writes PONG and ERROR frames of its own with write_frame, past the      *)
(* queue; on a WebSocket everything goes through the queue.                *)
(***************************************************************************)
EXTENDS Integers, Sequences

CONSTANTS Frame,        \* frames
          Pieces,       \* Pieces[f]: number of pieces async_write needs for f
          Reply,        \* the frame run() writes: header only, one piece
          MaxWrites     \* bound: frames given to the stream in a behaviour

ASSUME QueueAssumption ==
    /\ Pieces \in [Frame -> Nat \ {0}]
    /\ Reply \notin Frame
    /\ MaxWrites \in Nat

VARIABLES
    write_queue,    \* write_queue_
    writing,        \* writing_
    spawned,        \* do_write() coroutines spawned and not yet started
    inflight,       \* of each running do_write(), the frame it has popped and writes
    done,           \* of each, the pieces of that frame already written
    replying,       \* run() is inside write_frame
    open,           \* the stream is usable
    wire,           \* the pieces on the stream, in order
    out,            \* the frames written completely, in order
    accepted,       \* calls of enqueue() and of write_frame so far
    direct          \* run() writes to the stream too: TRUE for a Session, FALSE
                    \* for a WebSocketSession

queueVars == <<write_queue, writing, spawned, inflight, done, replying,
               open, wire, out, accepted, direct>>

QueueInit ==
    /\ direct \in BOOLEAN
    /\ write_queue = <<>> /\ writing = FALSE /\ spawned = 0
    /\ inflight = <<>> /\ done = <<>> /\ replying = FALSE
    /\ open = TRUE /\ wire = <<>> /\ out = <<>> /\ accepted = 0

\* Mutant: new frames jump the queue.
EnqueueFront(f) ==
    /\ accepted < MaxWrites /\ accepted' = accepted + 1
    /\ write_queue' = <<f>> \o write_queue
    /\ writing' = TRUE
    /\ spawned' = IF writing THEN spawned ELSE spawned + 1
    /\ UNCHANGED <<inflight, done, replying, open, wire, out>>

\* Mutant: a do_write() of its own for every frame.
EnqueueSpawns(f) ==
    /\ accepted < MaxWrites /\ accepted' = accepted + 1
    /\ write_queue' = Append(write_queue, f)
    /\ writing' = TRUE /\ spawned' = spawned + 1
    /\ UNCHANGED <<inflight, done, replying, open, wire, out>>

\* enqueue(): append, and start do_write() unless one is running.
Enqueue(f) ==
    /\ accepted < MaxWrites /\ accepted' = accepted + 1
    /\ write_queue' = Append(write_queue, f)
    /\ writing' = TRUE
    /\ spawned' = IF writing THEN spawned ELSE spawned + 1
    /\ UNCHANGED <<inflight, done, replying, open, wire, out>>

\* q without its i-th element.
Without(q, i) == SubSeq(q, 1, i - 1) \o SubSeq(q, i + 1, Len(q))

\* The head of do_write()'s loop: take the next frame, or stop.  What the other
\* coroutines are at is frames and pieces.
NextFrame(frames, pieces) ==
    IF write_queue # <<>>
    THEN /\ inflight' = Append(frames, Head(write_queue)) /\ done' = Append(pieces, 0)
         /\ write_queue' = Tail(write_queue)
         /\ UNCHANGED writing
    ELSE /\ inflight' = frames /\ done' = pieces
         /\ writing' = FALSE
         /\ UNCHANGED write_queue

\* A spawned do_write() begins, whatever others are running.
StartWrite ==
    /\ spawned > 0
    /\ spawned' = spawned - 1
    /\ NextFrame(inflight, done)
    /\ UNCHANGED <<replying, open, wire, out, accepted>>

\* One more piece of the frame of the i-th coroutine, not the last one.
WritePiece(i) ==
    /\ open
    /\ done[i] + 1 < Pieces[inflight[i]]
    /\ done' = [done EXCEPT ![i] = @ + 1]
    /\ wire' = Append(wire, <<inflight[i], done[i] + 1>>)
    /\ UNCHANGED <<write_queue, writing, spawned, inflight, replying, open, out, accepted>>

\* Mutant: do_write() stops after one frame without looking at the queue.
WriteDoneStops(i) ==
    /\ open
    /\ done[i] + 1 = Pieces[inflight[i]]
    /\ wire' = Append(wire, <<inflight[i], done[i] + 1>>)
    /\ out' = Append(out, inflight[i])
    /\ inflight' = Without(inflight, i) /\ done' = Without(done, i) /\ writing' = FALSE
    /\ UNCHANGED <<write_queue, spawned, replying, open, accepted>>

\* The last piece: async_write completes and the loop goes on.
WriteDone(i) ==
    /\ open
    /\ done[i] + 1 = Pieces[inflight[i]]
    /\ wire' = Append(wire, <<inflight[i], done[i] + 1>>)
    /\ out' = Append(out, inflight[i])
    /\ NextFrame(Without(inflight, i), Without(done, i))
    /\ UNCHANGED <<spawned, replying, open, accepted>>

\* The stream is closed: async_write throws, do_write() logs and stops, what is
\* queued stays.
WriteError(i) ==
    /\ ~open
    /\ inflight' = Without(inflight, i) /\ done' = Without(done, i)
    /\ writing' = FALSE
    /\ UNCHANGED <<write_queue, spawned, replying, open, wire, out, accepted>>

\* The peer is gone but the kernel still takes the bytes: no error, no peer.
WriteIntoVoid(i) ==
    /\ ~open
    /\ NextFrame(Without(inflight, i), Without(done, i))
    /\ UNCHANGED <<spawned, replying, open, wire, out, accepted>>

\* run() starts and ends a write_frame of its own (TCP only).
ReplyStart ==
    /\ direct /\ open /\ ~replying
    /\ accepted < MaxWrites /\ accepted' = accepted + 1
    /\ replying' = TRUE
    /\ UNCHANGED <<write_queue, writing, spawned, inflight, done, open, wire, out>>

ReplyDone ==
    /\ replying
    /\ replying' = FALSE
    /\ wire' = IF open THEN Append(wire, <<Reply, 1>>) ELSE wire
    /\ UNCHANGED <<write_queue, writing, spawned, inflight, done, open, out, accepted>>

CloseStream ==
    /\ open
    /\ open' = FALSE
    /\ UNCHANGED <<write_queue, writing, spawned, inflight, done, replying, wire, out, accepted>>

DoWrite ==
    \/ StartWrite
    \/ \E i \in 1 .. Len(inflight) :
          WritePiece(i) \/ WriteDone(i) \/ WriteError(i) \/ WriteIntoVoid(i)

QueueNext ==
    /\ \/ \E f \in Frame : Enqueue(f)
       \/ DoWrite
       \/ ReplyStart \/ ReplyDone
       \/ CloseStream
    /\ UNCHANGED direct

QueueSafety == QueueInit /\ [][QueueNext]_queueVars

\* The io thread runs a spawned do_write() and an open stream takes its bytes.
QueueSpec == QueueSafety /\ WF_queueVars(DoWrite /\ UNCHANGED direct)

-----------------------------------------------------------------------------
\* The types of the state.
QueueTypeOK ==
    /\ write_queue \in Seq(Frame) /\ out \in Seq(Frame)
    /\ inflight \in Seq(Frame) /\ done \in Seq(Nat) /\ Len(done) = Len(inflight)
    /\ writing \in BOOLEAN /\ replying \in BOOLEAN /\ open \in BOOLEAN
    /\ direct \in BOOLEAN
    /\ spawned \in Nat /\ accepted \in Nat
    /\ wire \in Seq((Frame \cup {Reply}) \X Nat)

\* At most one do_write() exists, and writing_ says exactly whether one does:
\* no enqueue() between two pieces or at the end of the loop starts a second.
OneWriter == spawned + Len(inflight) = (IF writing THEN 1 ELSE 0)

\* No lost wakeup: while the stream is open, a queued frame has a do_write()
\* that will take it.
NoLostWakeup == open /\ write_queue # <<>> => writing

\* The piece of a queued frame at place i is the last one before place j.
Precedes(i, j) == wire[i][1] # Reply /\ \A k \in i + 1 .. j - 1 : wire[k][1] = Reply

\* Framing: a queued frame is on the stream piece by piece, and the next one begins
\* when it is whole, although every do_write() that was spawned runs, at any time, and
\* enqueue() comes between any two pieces.  On a WebSocket, where every reply goes
\* through the queue, the stream is a sequence of whole frames; a Session's run()
\* writes past the queue, and its PONG and ERROR frames may stand inside a frame.
FramesIntact ==
    \A j \in 1 .. Len(wire) : wire[j][1] # Reply =>
        \A i \in 1 .. j - 1 : Precedes(i, j) =>
            IF wire[i][2] < Pieces[wire[i][1]] THEN wire[j] = <<wire[i][1], wire[i][2] + 1>>
            ELSE wire[j][2] = 1

\* The queue implements the abstract outbox.
Box == INSTANCE Outbox WITH pending <- inflight \o write_queue

ImplementsOutbox == Box!BoxSpec
=============================================================================

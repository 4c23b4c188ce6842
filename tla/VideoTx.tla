-------------------------------- MODULE VideoTx --------------------------------
(***************************************************************************)
(* video_tx: the producer thread, which takes encoded frames from the      *)
(* camera pipeline; the FrameQueue between the two threads, with its mutex *)
(* and its condition variable; and the main thread, which cuts frames into *)
(* packets, groups packets into generations (FecEncoder) and transmits.    *)
(*                                                                         *)
(* A frame is [id, key, chunks]: its pixels matter only as the number of   *)
(* packets they fill.  A packet is <<id, chunk_index>>.  A section under   *)
(* the mutex is one step; notify_one, notify_all and the wake-up of the    *)
(* waiter are steps of their own.  The clock is not modelled: the 400 ms   *)
(* of the periodic flush may or may not have passed when it is looked at.  *)
(***************************************************************************)
EXTENDS Integers, Sequences, FiniteSets, SequencesExt

CONSTANTS Depth,       \* the depth of the FrameQueue
          K,           \* SOURCE_SYMBOLS_PER_GEN
          MaxChunks,   \* the largest total_chunks the header can hold
          Sizes,       \* how many packets a frame may need
          MaxFrames    \* bound: frames captured

ASSUME VideoTxAssumption ==
  /\ Depth \in Nat \ {0} /\ K \in Nat \ {0} /\ MaxChunks \in Nat \ {0}
  /\ Sizes \subseteq Nat \ {0} /\ MaxFrames \in Nat

Frame == [id : 0 .. MaxFrames - 1, key : BOOLEAN, chunks : Sizes]
Packet == (0 .. MaxFrames - 1) \X (0 .. MaxChunks - 1)

VARIABLES g_stop,      \* a signal or the end of the stream
          producer,    \* where the producer is in its loop
          pid,         \* the next frame id
          m_q, m_stop, \* the FrameQueue
          consumer,    \* where the main thread is in its loop
          next,        \* the next chunk of the frame it is sending
          m_buffered,  \* the packets of the generation being filled
          air,         \* the generations transmitted so far
          popped,      \* history: the frames pop() returned, in order
          dropped,     \* history: the frames push() made room with
          skipped      \* history: the ids given to samples without data

vars == <<g_stop, producer, pid, m_q, m_stop, consumer, next, m_buffered,
          air, popped, dropped, skipped>>

Init ==
  /\ g_stop = FALSE
  /\ producer = "pull"
  /\ pid = 0
  /\ m_q = <<>>
  /\ m_stop = FALSE
  /\ consumer = "pop"
  /\ next = 0
  /\ m_buffered = <<>>
  /\ air = <<>>
  /\ popped = <<>>
  /\ dropped = {}
  /\ skipped = 0

-----------------------------------------------------------------------------
(* The producer *)

\* The user interrupts the program, or the pipeline ends.
Interrupt ==
  /\ ~g_stop
  /\ g_stop' = TRUE
  /\ UNCHANGED <<producer, pid, m_q, m_stop, consumer, next, m_buffered, air,
                 popped, dropped,
                 skipped>>

\* Mutant: the oldest frame goes, whatever it is.
VictimOldest == 1

\* push() on a full queue: the oldest delta frame, or else the oldest frame.
Victim ==
  LET delta == SelectInSeq(m_q, LAMBDA f : ~f.key)
  IN IF delta = 0 THEN 1 ELSE delta

\* Mutant: room is made only when the queue is already over its depth.
FullLate == Len(m_q) > Depth

Full == Len(m_q) >= Depth

\* Mutant: the frame is pushed at the end that pop() takes from.
PushFront(q, f) == <<f>> \o q

PushBack(q, f) == Append(q, f)

\* A sample arrives, gets the next id and is pushed.
Push ==
  /\ producer = "pull"
  /\ pid < MaxFrames
  /\ \E k \in BOOLEAN, n \in Sizes :
       m_q' = PushBack(IF Full THEN RemoveAt(m_q, Victim) ELSE m_q,
                       [id |-> pid, key |-> k, chunks |-> n])
  /\ dropped' = IF Full THEN dropped \cup {m_q[Victim]} ELSE dropped
  /\ pid' = pid + 1
  /\ producer' = "notify"
  /\ UNCHANGED <<g_stop, m_stop, consumer, next, m_buffered, air, popped,
                 skipped>>

\* A sample without data takes an id too, and is not pushed.
SkipEmpty ==
  /\ producer = "pull"
  /\ pid < MaxFrames
  /\ pid' = pid + 1
  /\ skipped' = skipped + 1
  /\ producer' = IF g_stop THEN "stop" ELSE "pull"
  /\ UNCHANGED <<g_stop, m_q, m_stop, consumer, next, m_buffered, air, popped,
                 dropped>>

Woken == IF consumer = "waiting" THEN "pop" ELSE consumer

\* m_cv.notify_one(), and back to the top of the loop
Notify ==
  /\ producer = "notify"
  /\ consumer' = Woken
  /\ producer' = IF g_stop THEN "stop" ELSE "pull"
  /\ UNCHANGED <<g_stop, pid, m_q, m_stop, next, m_buffered, air, popped, dropped,
                 skipped>>

\* try_pull_sample times out, and the loop sees that it is over.
LeaveLoop ==
  /\ producer = "pull"
  /\ g_stop
  /\ producer' = "stop"
  /\ UNCHANGED <<g_stop, pid, m_q, m_stop, consumer, next, m_buffered, air,
                 popped, dropped,
                 skipped>>

\* queue.stop(), the part under the mutex
SetStop ==
  /\ producer = "stop"
  /\ m_stop' = TRUE
  /\ producer' = "notify_all"
  /\ UNCHANGED <<g_stop, pid, m_q, consumer, next, m_buffered, air, popped, dropped,
                 skipped>>

\* Mutant: stop() wakes nobody.
NotifyNobody ==
  /\ producer = "notify_all"
  /\ producer' = "gone"
  /\ UNCHANGED <<g_stop, pid, m_q, m_stop, consumer, next, m_buffered, air,
                 popped, dropped,
                 skipped>>

\* queue.stop(): m_cv.notify_all(), and the thread ends
NotifyAll ==
  /\ producer = "notify_all"
  /\ consumer' = Woken
  /\ producer' = "gone"
  /\ UNCHANGED <<g_stop, pid, m_q, m_stop, next, m_buffered, air, popped, dropped,
                 skipped>>

Producer == Notify \/ LeaveLoop \/ SetStop \/ NotifyAll

-----------------------------------------------------------------------------
(* The main thread *)

\* pop(): the oldest frame; false when stopped and empty; else wait, and give
\* up the mutex.
Pop ==
  /\ consumer = "pop"
  /\ IF m_q # <<>>
       THEN /\ m_q' = Tail(m_q)
            /\ popped' = Append(popped, Head(m_q))
            /\ next' = 0
            /\ consumer' = IF Head(m_q).chunks > MaxChunks THEN "flush" ELSE "send"
       ELSE /\ consumer' = IF m_stop THEN "done" ELSE "waiting"
            /\ UNCHANGED <<m_q, popped, next>>
  /\ UNCHANGED <<g_stop, producer, pid, m_stop, m_buffered, air, dropped, skipped>>

\* The wait returns although nobody notified it.
WakeSpuriously ==
  /\ consumer = "waiting"
  /\ consumer' = "pop"
  /\ UNCHANGED <<g_stop, producer, pid, m_q, m_stop, next, m_buffered, air,
                 popped, dropped,
                 skipped>>

\* Mutant: a full generation is sent, but not cleared from the buffer.
EncodedTwice(packets) ==
  IF Len(packets) = K
    THEN air' = Append(air, packets) /\ m_buffered' = Tail(packets)
    ELSE m_buffered' = packets /\ UNCHANGED air

\* add_rtp_packet: the K-th packet completes the generation, and all of it is
\* transmitted before the next packet is cut.
Encoded(packets) ==
  IF Len(packets) = K
    THEN air' = Append(air, packets) /\ m_buffered' = <<>>
    ELSE m_buffered' = packets /\ UNCHANGED air

\* One turn of the loop of send_h265_frame
SendChunk ==
  /\ consumer = "send"
  /\ Encoded(Append(m_buffered, <<Last(popped).id, next>>))
  /\ next' = next + 1
  /\ consumer' = IF next + 1 = Last(popped).chunks THEN "flush" ELSE "send"
  /\ UNCHANGED <<g_stop, producer, pid, m_q, m_stop, popped, dropped,
                 skipped>>

\* The periodic flush, if it is time: the generation is padded and transmitted.
MaybeFlush ==
  /\ consumer = "flush"
  /\ consumer' = "pop"
  /\ \/ UNCHANGED <<m_buffered, air>>
     \/ /\ m_buffered # <<>>
        /\ air' = Append(air, m_buffered)
        /\ m_buffered' = <<>>
  /\ UNCHANGED <<g_stop, producer, pid, m_q, m_stop, next, popped, dropped,
                 skipped>>

Consumer == Pop \/ SendChunk \/ MaybeFlush

Next ==
  Interrupt \/ Push \/ SkipEmpty \/ Producer \/ Consumer \/ WakeSpuriously

\* Both threads run while they can.  No frame has to come, nobody has to
\* interrupt, and no wake-up is owed to a waiter that is not notified.
Spec == Init /\ [][Next]_vars /\ WF_vars(Producer) /\ WF_vars(Consumer)

-----------------------------------------------------------------------------
(* Properties *)

\* Type invariant.  The queue never exceeds its depth, the encoder's buffer is
\* never left full, and no generation is longer than K (video_tx.cpp:203-230,
\* fec_encoder.h:43-47, 58-65).
TypeOK ==
  /\ {g_stop, m_stop} \subseteq BOOLEAN
  /\ producer \in {"pull", "notify", "stop", "notify_all", "gone"}
  /\ consumer \in {"pop", "waiting", "send", "flush", "done"}
  /\ pid \in 0 .. MaxFrames
  /\ m_q \in BoundedSeq(Frame, Depth)
  /\ next \in 0 .. MaxChunks
  /\ Len(m_buffered) < K /\ ToSet(m_buffered) \subseteq Packet
  /\ \A g \in ToSet(air) : Len(g) \in 1 .. K /\ ToSet(g) \subseteq Packet
  /\ ToSet(popped) \subseteq Frame
  /\ dropped \subseteq Frame
  /\ skipped \in 0 .. MaxFrames

\* The packets of a frame that were cut so far
Cut(i) ==
  LET f == popped[i]
      n == IF f.chunks > MaxChunks THEN 0
           ELSE IF i = Len(popped) /\ consumer = "send" THEN next ELSE f.chunks
  IN [c \in 1 .. n |-> <<f.id, c - 1>>]

\* What was transmitted, and what waits for its generation to fill, is exactly
\* the packets of the frames taken from the queue: all of each frame, in frame
\* order, none twice, none lost between the queue, the encoder's buffer, a full
\* generation and a padded one.
StreamIsWhole ==
  FlattenSeq(air) \o m_buffered = FlattenSeq([i \in 1 .. Len(popped) |-> Cut(i)])

\* Frames leave the queue in the order they came, and none disappears: each was
\* taken, or is queued, or was dropped to make room.
OrderKept ==
  LET line == popped \o m_q
  IN /\ \A i, j \in 1 .. Len(line) : i < j => line[i].id < line[j].id
     /\ \A f \in dropped : f \notin ToSet(line)
     /\ Len(line) + Cardinality(dropped) + skipped = pid

\* A keyframe that is dropped is no loss to the receiver's resync: a newer one
\* is on its way, queued or taken for transmission.
KeyframeOnItsWay ==
  \A f \in dropped : f.key =>
    \E h \in ToSet(popped \o m_q) : h.key /\ h.id > f.id

\* The program ends when it is told to, and sends what was queued first.
StopDrains == g_stop ~> (consumer = "done" /\ m_q = <<>>)

\* What waits for its generation to fill does not wait forever when no frame
\* comes, while nobody stops the program.  The comment at the flush says:
\* "Periodic flush so a stalled stream still drains" (video_tx.cpp:450).
StalledStreamDrains ==
  consumer = "waiting" /\ m_buffered # <<>> ~> m_buffered = <<>> \/ g_stop
=============================================================================

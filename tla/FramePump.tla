----------------------------- MODULE FramePump -----------------------------
(***************************************************************************)
(* SseFramePump (backend/src/lib/framePump.ts): the bounded outbound queue  *)
(* of one stream connection.  Its methods run to completion between two     *)
(* events, so each is one action; the socket answers every write with "go   *)
(* on" or "wait for drain".  Frames are numbered in the order in which they *)
(* are offered.                                                             *)
(***************************************************************************)
EXTENDS Integers, Sequences, FiniteSets, SequencesExt

CONSTANTS
    MaxPendingFrames,   \* STREAM_MAX_PENDING_FRAMES, 0 is unbounded
    MaxPendingBytes,    \* STREAM_MAX_PENDING_BYTES, 0 is unbounded
    FrameBytes,         \* the sizes a frame may have
    MaxOffers           \* bound: frames offered

ASSUME PumpAssumption ==
    /\ MaxPendingFrames \in Nat /\ MaxPendingBytes \in Nat /\ MaxOffers \in Nat
    /\ FrameBytes \subseteq Nat \ {0}

VARIABLES
    queue,          \* frames not yet written
    queueBytes,     \* their size, kept incrementally
    waitingDrain,   \* the last write asked to wait
    closed,
    published,      \* the last state given to onStateChange
    offered,        \* history: how many frames were offered
    sent,           \* history: frames written, in order
    dropped,        \* history: frames reported through onDrop
    refused         \* history: frames refused by a closed pump or cut off by close

vars == <<queue, queueBytes, waitingDrain, closed, published, offered, sent,
          dropped, refused>>

Frame == [id : 1 .. MaxOffers, bytes : FrameBytes]
Ids(frames) == {f.id : f \in frames}
Bytes(frames) == FoldSeq(LAMBDA f, sum : sum + f.bytes, 0, frames)
First(frames, n) == SubSeq(frames, 1, n)
Rest(frames, n) == SubSeq(frames, n + 1, Len(frames))
Less(a, b) == IF a > b THEN a - b ELSE 0    \* Math.max(0, a - b)

State(frames, bytes, waiting) ==
    [frames |-> Len(frames), bytes |-> bytes, waiting |-> waiting]

Init ==
    /\ queue = <<>> /\ queueBytes = 0
    /\ waitingDrain = FALSE /\ closed = FALSE
    /\ published = State(<<>>, 0, FALSE)
    /\ offered = 0 /\ sent = <<>> /\ dropped = {} /\ refused = {}

-----------------------------------------------------------------------------

\* Write frames from the head until the queue is empty or a write asks to
\* wait; that last frame counts as written too.
Flush(frames, bytes, waiting) ==
    \E n \in 0 .. Len(frames), ok \in BOOLEAN :
        /\ IF waiting THEN n = 0 /\ ~ok
           ELSE (ok /\ n = Len(frames)) \/ (~ok /\ n > 0)
        /\ queue' = Rest(frames, n)
        /\ queueBytes' = Less(bytes, Bytes(First(frames, n)))
        /\ waitingDrain' = ~ok
        /\ sent' = sent \o First(frames, n)

\* Every path through push, flush and onDrain ends by publishing the state.
PublishState == published' = State(queue', queueBytes', waitingDrain')

TooBig(bytes) == MaxPendingBytes > 0 /\ bytes > MaxPendingBytes

HasRoom(frames, pending, bytes) ==
    /\ MaxPendingFrames > 0 => Len(frames) < MaxPendingFrames
    /\ MaxPendingBytes > 0 => pending + bytes <= MaxPendingBytes

\* Variant with a bug: the newest frames are dropped (pop, not shift).
DropNewest(n) == [kept |-> First(queue, Len(queue) - n),
                  gone |-> Rest(queue, Len(queue) - n)]

\* What n calls of dropOldest leave and take.
DropOldest(n) == [kept |-> Rest(queue, n), gone |-> First(queue, n)]

\* queueBytes after n calls of dropOldest.
BytesAfter(n) == Less(queueBytes, Bytes(DropOldest(n).gone))

\* The two loops of enqueue call dropOldest n times: their conditions only get
\* weaker as frames go, so together they stop at the first n that makes room.
\* (The check after them, lines 63 to 66, is then never true: an empty queue
\* counts no bytes.)
MakesRoom(n, bytes) ==
    /\ n = Len(queue) \/ HasRoom(DropOldest(n).kept, BytesAfter(n), bytes)
    /\ \A m \in 0 .. n - 1 : ~HasRoom(DropOldest(m).kept, BytesAfter(m), bytes)

\* Variant with a bug: an oversized frame is refused without onDrop.
DropUnreported(frame) ==
    UNCHANGED <<queue, queueBytes, waitingDrain, published, sent, dropped, refused>>

\* The frame could never fit.
DropOversized(frame) ==
    /\ dropped' = dropped \union {frame}
    /\ UNCHANGED <<queue, queueBytes, waitingDrain, published, sent, refused>>

\* The oldest frames make room for the new one.
Push(frame, n) ==
    /\ dropped' = dropped \union ToSet(DropOldest(n).gone)
    /\ Flush(Append(DropOldest(n).kept, frame), BytesAfter(n) + frame.bytes, waitingDrain)
    /\ PublishState
    /\ UNCHANGED refused

Refuse(frame) ==
    /\ refused' = refused \union {frame}
    /\ UNCHANGED <<queue, queueBytes, waitingDrain, published, sent, dropped>>

Enqueue(bytes) ==
    LET frame == [id |-> offered + 1, bytes |-> bytes] IN
    /\ offered < MaxOffers
    /\ offered' = offered + 1
    /\ \/ closed /\ Refuse(frame)
       \/ ~closed /\ TooBig(bytes) /\ DropOversized(frame)
       \/ /\ ~closed /\ ~TooBig(bytes)
          /\ \E n \in 0 .. Len(queue) : MakesRoom(n, bytes) /\ Push(frame, n)
    /\ UNCHANGED closed

\* Variant with a bug: the drain only clears the flag.
OnDrainWithoutFlush ==
    /\ ~closed /\ waitingDrain
    /\ waitingDrain' = FALSE
    /\ published' = State(queue, queueBytes, FALSE)
    /\ UNCHANGED <<queue, queueBytes, closed, offered, sent, dropped, refused>>

\* onDrain: the socket's buffer is empty again.
OnDrain ==
    /\ ~closed /\ waitingDrain
    /\ Flush(queue, queueBytes, FALSE)
    /\ PublishState
    /\ UNCHANGED <<closed, offered, dropped, refused>>

\* close: what is still queued is given up.
Close ==
    /\ closed' = TRUE
    /\ queue' = <<>> /\ queueBytes' = 0 /\ waitingDrain' = FALSE
    /\ refused' = refused \union ToSet(queue)
    /\ PublishState
    /\ UNCHANGED <<offered, sent, dropped>>

Next == (\E bytes \in FrameBytes : Enqueue(bytes)) \/ OnDrain \/ Close

Spec == Init /\ [][Next]_vars

-----------------------------------------------------------------------------
\* Properties.

\* Types (what queueBytes holds is said by BytesExact).
TypeOK ==
    /\ queue \in Seq(Frame) /\ sent \in Seq(Frame)
    /\ waitingDrain \in BOOLEAN /\ closed \in BOOLEAN
    /\ offered \in 0 .. MaxOffers
    /\ dropped \subseteq Frame /\ refused \subseteq Frame

\* The queue never holds more frames than STREAM_MAX_PENDING_FRAMES: enqueue
\* makes room before it pushes, also when the socket stopped draining.
FramesBounded == MaxPendingFrames > 0 => Len(queue) <= MaxPendingFrames

\* The size kept by differences is that of the queue, and the state last
\* published is the present one.
BytesExact ==
    queueBytes = Bytes(queue) /\ published = State(queue, queueBytes, waitingDrain)

\* Nor does it hold more bytes than STREAM_MAX_PENDING_BYTES.
BytesBounded == MaxPendingBytes > 0 => Bytes(queue) <= MaxPendingBytes

\* Every frame that was offered has exactly one fate: written once, reported
\* as dropped, still queued, or cut off by close.
OneFate ==
    /\ 1 .. offered = Ids(ToSet(sent)) \union Ids(dropped) \union Ids(ToSet(queue))
                      \union Ids(refused)
    /\ Ids(dropped) \intersect Ids(refused) = {}
    /\ Ids(ToSet(sent)) \intersect (Ids(dropped) \union Ids(refused)) = {}
    /\ Ids(ToSet(queue)) \intersect (Ids(dropped) \union Ids(refused)) = {}

Increasing(frames) == \A i, j \in DOMAIN frames : i < j => frames[i].id < frames[j].id

\* Frames leave once and in the order in which they came: written ones in
\* order, and before everything that is still queued.
InOrder ==
    /\ Increasing(sent) /\ Increasing(queue)
    /\ \A f \in ToSet(sent), g \in ToSet(queue) : f.id < g.id

\* Backpressure costs the oldest frames: one that could have fitted is dropped
\* only in favour of newer ones.
DropsOldest ==
    \A d \in dropped, i \in DOMAIN queue : TooBig(d.bytes) \/ d.id < queue[i].id

\* Frames wait only for a drain event, so none is stranded when no event is
\* due.
NoStall == queue # <<>> => waitingDrain

\* Inductive: what the proofs carry from step to step.
IInv == TypeOK /\ FramesBounded /\ OneFate /\ InOrder /\ DropsOldest /\ NoStall
=============================================================================

---------------------------- MODULE StreamSession ----------------------------
(***************************************************************************)
(* GET /stream (backend/src/routes/stream.ts): the read loop of a            *)
(* connection between Redis's tile streams and its SseFramePump, and the     *)
(* cursor it leaves for the client's next connection.  The connections of    *)
(* one client follow one another; the cursor's own protocol, with             *)
(* connections that overlap, is StreamCursor's, the pump is FramePump's.      *)
(*                                                                           *)
(* Entries of a tile are numbered as they are appended, and an offset is the  *)
(* number of the last entry it is behind.                                     *)
(***************************************************************************)
EXTENDS Integers, Sequences, FiniteSets, SequencesExt

CONSTANTS
    Tile,
    Offsets,            \* the query's offset: 0 for "0-0", n for the n-th entry's
                        \* id (there need not be one yet), Live for "$"
    UseCursor,          \* does the client send a cursorId?
    ReadCount,          \* the counts STREAM_READ_COUNT and its adaptation allow
    ThinMax,            \* STREAM_THIN_MAX_EVENTS_PER_TILE_READ, 0 is no limit
    BatchFrames,        \* STREAM_EVENT_BATCH_MAX_FRAMES
    Modes,              \* may the channel stream events, may it stream aggregates?
    Windows,            \* the event-time windows its entries may have
    MaxPendingFrames,   \* STREAM_MAX_PENDING_FRAMES
    PauseFrames,        \* the queue length at which reads pause
    MaxEntries,         \* bound: entries of each tile
    MaxTrimmed,         \* bound: entries of a tile that retention removes
    MaxOffers,          \* bound: frames per connection
    MaxConnections,     \* bound: connections
    MaxFaults           \* bound: failures of Redis's connection, crashes

Live == -1

ASSUME SessionAssumption ==
    /\ IsFiniteSet(Tile)
    /\ Offsets \subseteq Nat \union {Live} /\ UseCursor \in BOOLEAN
    /\ Modes \subseteq {"event", "aggregate"}
    /\ ReadCount \subseteq Nat \ {0} /\ ThinMax \in Nat /\ BatchFrames \in Nat \ {0}
    /\ MaxEntries \in [Tile -> Nat] /\ MaxTrimmed \in Nat
    /\ \A w \in Windows, t \in Tile : w[t] \in [1 .. MaxEntries[t] -> Nat]
    /\ MaxPendingFrames \in Nat /\ PauseFrames \in Nat \ {0}
    /\ MaxOffers \in Nat /\ MaxConnections \in Nat /\ MaxFaults \in Nat

VARIABLES
    offset,         \* what the client asks for
    streamMode,     \* of its channel
    windowOf,       \* the event-time window of each entry to come
    appended,       \* of each tile's stream: entries ever appended
    trimmed,        \* and how many retention has removed
    stored,         \* the client's cursor, 0 for a tile without an entry
    phase,          \* where the handler waits; "gone": there is no connection
    disconnected,   \* "closed" in the handler: the close event came
    liveMode,
    base,           \* history: what the connection starts behind
    lastIds,
    at,             \* the offsets of the XREAD that Redis blocks on
    reply,          \* its answer: of each tile the entries in (from, to]
    todo,           \* frames built from the answer and not yet enqueued
    content,        \* what the pump's frames hold
    got,            \* history: entries written to a connection, <<tile, entry>>
    again,          \* history: those written more than once
    lost,           \* history: entries dropped, thinned, trimmed before a read
    connections, faults,
    \* the pump's variables
    queue, queueBytes, waitingDrain, closed, published, offered, sent, dropped, refused

pumpVars == <<queue, queueBytes, waitingDrain, closed, published, offered, sent, dropped, refused>>
streamVars == <<appended, trimmed>>
choices == <<offset, streamMode, windowOf>>
readVars == <<liveMode, base, lastIds, at, reply>>
history == <<got, again, lost>>
vars == <<choices, streamVars, stored, phase, disconnected, readVars, todo, content, history,
          connections, faults, pumpVars>>

Pump == INSTANCE FramePump WITH MaxPendingBytes <- 0, FrameBytes <- {1}

Serving == {"sent", "blocked", "answered", "paused"}
NoReply == [t \in Tile |-> [from |-> 0, to |-> 0]]
Larger(a, b) == IF a > b THEN a ELSE b

Init ==
    /\ offset \in Offsets /\ streamMode \in Modes
    /\ windowOf \in IF streamMode = "aggregate" THEN Windows ELSE {<<>>}
    /\ appended = [t \in Tile |-> 0] /\ trimmed = [t \in Tile |-> 0]
    /\ stored = [t \in Tile |-> 0]
    /\ phase = "gone" /\ disconnected = FALSE /\ liveMode = FALSE
    /\ base = [t \in Tile |-> 0] /\ lastIds = [t \in Tile |-> 0] /\ at = [t \in Tile |-> 0]
    /\ reply = NoReply /\ todo = <<>> /\ content = <<>>
    /\ got = {} /\ again = {} /\ lost = {}
    /\ connections = 0 /\ faults = 0
    /\ Pump!Init

-----------------------------------------------------------------------------
\* Frames.

\* Variant with a bug: a frame carries the offset of its first entry.
FrameOfFirst(t, entries) == [tile |-> t, entries |-> entries, offset |-> Min(entries)]

FrameOf(t, entries) == [tile |-> t, entries |-> entries, offset |-> Max(entries)]

\* thinEntries keeps the newest entries of a read.
ThinnedFrom(r) == IF ThinMax > 0 THEN Larger(r.from, r.to - ThinMax) ELSE r.from

\* buildEventFrameBatches: consecutive entries, BatchFrames to a frame.
EventFrames(t, from, to) ==
    [i \in 1 .. (to - from + BatchFrames - 1) \div BatchFrames |->
        FrameOf(t, {e \in from + 1 .. to : (e - from - 1) \div BatchFrames = i - 1})]

WindowsOf(t, from, to) == {windowOf[t][e] : e \in from + 1 .. to}

\* The i-th of a set of windows in their order.
WindowAt(windows, i) == CHOOSE w \in windows : Cardinality({v \in windows : v < w}) = i - 1

WindowFrame(t, from, to, w) == FrameOf(t, {e \in from + 1 .. to : windowOf[t][e] = w})

\* Variant with a bug: the newest window is held back, it may not be complete.
AggregateComplete(t, from, to) ==
    [i \in 1 .. Cardinality(WindowsOf(t, from, to)) - 1 |->
        WindowFrame(t, from, to, WindowAt(WindowsOf(t, from, to), i))]

\* buildAggregateFrames: one frame for each window, in the windows' order.
AggregateFrames(t, from, to) ==
    [i \in 1 .. Cardinality(WindowsOf(t, from, to)) |->
        WindowFrame(t, from, to, WindowAt(WindowsOf(t, from, to), i))]

FramesOf(t, r) ==
    IF streamMode = "aggregate" THEN AggregateFrames(t, r.from, r.to)
    ELSE EventFrames(t, ThinnedFrom(r), r.to)

Thinned(t, r) ==
    IF streamMode = "aggregate" THEN {} ELSE {<<t, e>> : e \in r.from + 1 .. ThinnedFrom(r)}

Entries(frames) == UNION {{<<f.tile, e>> : e \in f.entries} : f \in frames}
Held(pumped) == {content'[f.id] : f \in pumped}

\* What the pump wrote and dropped in this step.
Recorded ==
    LET written == Entries(Held(ToSet(sent') \ ToSet(sent))) IN
    /\ got' = got \union written
    /\ again' = again \union (written \intersect got)
    /\ lost' = lost \union Entries(Held(dropped' \ dropped))

-----------------------------------------------------------------------------
\* The cursor.

\* Variant with a bug: frames are marked when they are enqueued.
MarkedWhenQueued(t) == Max({content[i].offset : i \in {j \in DOMAIN content : content[j].tile = t}}
                             \union {0})

\* The newest offset of a tile that onSend marked on this connection.
Marked(t) == Max({content[f.id].offset : f \in {g \in ToSet(sent) : content[g.id].tile = t}}
                   \union {0})

Flushed == [t \in Tile |-> IF UseCursor /\ Marked(t) # 0 THEN Marked(t) ELSE stored[t]]

-----------------------------------------------------------------------------
\* A connection is admitted and starts its loop.
Open ==
    LET start == [t \in Tile |-> IF UseCursor /\ stored[t] # 0 THEN stored[t] ELSE offset] IN
    /\ phase = "gone" /\ connections < MaxConnections /\ connections' = connections + 1
    /\ lastIds' = start /\ liveMode' = \A t \in Tile : start[t] = Live
    /\ base' = [t \in Tile |-> IF start[t] = Live THEN appended[t] ELSE start[t]]
    /\ phase' = "sent" /\ disconnected' = FALSE
    /\ todo' = <<>> /\ content' = <<>>
    /\ queue' = <<>> /\ queueBytes' = 0 /\ waitingDrain' = FALSE /\ closed' = FALSE
    /\ published' = Pump!State(<<>>, 0, FALSE)
    /\ offered' = 0 /\ sent' = <<>> /\ dropped' = {} /\ refused' = {}
    /\ UNCHANGED <<choices, streamVars, stored, at, reply, history, faults>>

\* XREAD resolves "$" each time it is executed.
Resolved(t) == IF lastIds[t] = Live THEN appended[t] ELSE lastIds[t]

\* Redis executes XREAD: it answers with every tile that has entries, or
\* blocks.  (With BLOCK 0, that is unless every tile starts at "$", it never
\* answers with nothing: the loop's switch to liveMode is not reached.)
Execute ==
    /\ phase = "sent"
    /\ at' = [t \in Tile |-> Resolved(t)]
    /\ IF \A t \in Tile : appended[t] <= Larger(at'[t], trimmed[t])
       THEN phase' = "blocked" /\ UNCHANGED <<reply, lost>>
       ELSE \E count \in ReadCount :
              /\ phase' = "answered"
              /\ reply' = [t \in Tile |->
                    LET from == Larger(at'[t], trimmed[t]) IN
                      [from |-> from, to |-> Larger(from, IF from + count < appended[t]
                                                   THEN from + count ELSE appended[t])]]
              /\ lost' = lost \union UNION {{<<t, e>> : e \in at'[t] + 1 .. trimmed[t]} : t \in Tile}
    /\ UNCHANGED <<choices, streamVars, stored, disconnected, liveMode, base, lastIds, todo, content,
                   got, again, connections, faults, pumpVars>>

\* An event reaches a tile; an XREAD blocked on an earlier position answers.
Arrive(t) ==
    /\ appended[t] < MaxEntries[t] /\ phase # "handling"
    /\ appended' = [appended EXCEPT ![t] = @ + 1]
    /\ IF phase = "blocked" /\ appended[t] >= at[t]
       THEN /\ phase' = "answered"
            /\ reply' = [NoReply EXCEPT ![t] = [from |-> appended[t], to |-> appended[t] + 1]]
            /\ lost' = lost \union {<<t, e>> : e \in at[t] + 1 .. appended[t]}
       ELSE UNCHANGED <<phase, reply, lost>>
    /\ UNCHANGED <<choices, trimmed, stored, disconnected, liveMode, base, lastIds, at, todo, content,
                   got, again, connections, faults, pumpVars>>

\* Retention removes the oldest entry of a tile.
Trim(t) ==
    /\ trimmed[t] < appended[t] /\ trimmed[t] < MaxTrimmed /\ phase # "handling"
    /\ trimmed' = [trimmed EXCEPT ![t] = @ + 1]
    /\ UNCHANGED <<choices, appended, stored, phase, disconnected, readVars, todo, content, history,
                   connections, faults, pumpVars>>

\* Variant with a bug: the threshold is rounded down to 0 and the socket is not
\* asked.
MustPauseAtZero == Len(queue) >= PauseFrames - 1

\* The loop waits for a drain while the queue is at its threshold.
MustPause == waitingDrain /\ Len(queue) >= PauseFrames
LoopTop == phase' = IF MustPause' THEN "paused" ELSE "sent"

\* STREAM_BLOCK_MS ran out, the answer is empty.
BlockTimeout ==
    /\ phase = "blocked" /\ liveMode /\ ~disconnected
    /\ UNCHANGED <<choices, streamVars, stored, disconnected, readVars, todo, content, history,
                   connections, faults, pumpVars>>
    /\ LoopTop

Answers(t) == reply[t].to > reply[t].from

\* Variant with a bug: the position is that of the first entry of the answer.
PositionFirst(t) == IF Answers(t) THEN reply[t].from + 1 ELSE lastIds[t]

Position(t) == IF Answers(t) THEN reply[t].to ELSE lastIds[t]

\* The answer is turned into frames; nothing runs in the process until all of
\* them are enqueued.
Handle ==
    /\ phase = "answered" /\ ~disconnected
    /\ lastIds' = [t \in Tile |-> Position(t)]
    /\ todo' = FlattenSeq([i \in 1 .. Cardinality(Tile) |->
                    FramesOf(SetToSeq(Tile)[i], reply[SetToSeq(Tile)[i]])])
    /\ lost' = lost \union UNION {Thinned(t, reply[t]) : t \in Tile}
    /\ reply' = NoReply /\ phase' = "handling"
    /\ UNCHANGED <<choices, streamVars, stored, disconnected, liveMode, base, at, content, got, again,
                   connections, faults, pumpVars>>

\* One frame goes to the pump; after the last the loop starts over.
EnqueueNext ==
    /\ phase = "handling"
    /\ Pump!Enqueue(1)
    /\ content' = Append(content, Head(todo)) /\ todo' = Tail(todo)
    /\ Recorded
    /\ IF todo' # <<>> THEN UNCHANGED phase ELSE LoopTop
    /\ UNCHANGED <<choices, streamVars, stored, disconnected, readVars, connections, faults>>

\* The sleep of a paused loop is over and the queue has room again.
Wake ==
    /\ phase = "paused" /\ ~disconnected /\ ~MustPause
    /\ phase' = "sent"
    /\ UNCHANGED <<choices, streamVars, stored, disconnected, readVars, todo, content, history,
                   connections, faults, pumpVars>>

\* The socket drained.
Drain ==
    /\ phase \in Serving /\ ~disconnected
    /\ Pump!OnDrain
    /\ UNCHANGED content /\ Recorded
    /\ UNCHANGED <<choices, streamVars, stored, phase, disconnected, readVars, todo, connections, faults>>

\* Every 15 seconds the cursor is flushed.
Heartbeat ==
    /\ phase \in Serving /\ ~disconnected /\ UseCursor
    /\ stored' = Flushed
    /\ UNCHANGED <<choices, streamVars, phase, disconnected, readVars, todo, content, history,
                   connections, faults, pumpVars>>

\* The client left: the reader's connection to Redis is cut, the cursor flushed.
CloseEvent ==
    /\ phase \in Serving /\ ~disconnected /\ disconnected' = TRUE
    /\ stored' = Flushed
    /\ UNCHANGED <<choices, streamVars, phase, readVars, todo, content, history,
                   connections, faults, pumpVars>>

\* The handler's finally block, for the loop's end or an XREAD that failed.
Finish ==
    /\ phase \in Serving
    /\ \/ disconnected /\ UNCHANGED faults
       \/ phase # "paused" /\ faults < MaxFaults /\ faults' = faults + 1
    /\ Pump!Close
    /\ stored' = Flushed
    /\ phase' = "gone" /\ reply' = NoReply
    /\ UNCHANGED <<choices, streamVars, disconnected, liveMode, base, lastIds, at, todo, content, history,
                   connections>>

\* The reader's connection to Redis breaks; ioredis connects again and sends the
\* unanswered XREAD once more.
Resend ==
    /\ phase \in {"blocked", "answered"} /\ ~disconnected
    /\ faults < MaxFaults /\ faults' = faults + 1
    /\ phase' = "sent" /\ reply' = NoReply
    /\ UNCHANGED <<choices, streamVars, stored, disconnected, liveMode, base, lastIds, at, todo, content,
                   history, connections, pumpVars>>

\* The backend dies.
Crash ==
    /\ phase # "gone" /\ faults < MaxFaults /\ faults' = faults + 1
    /\ phase' = "gone" /\ reply' = NoReply
    /\ UNCHANGED <<choices, streamVars, stored, disconnected, liveMode, base, lastIds, at, todo, content,
                   history, connections, pumpVars>>

Next ==
    \/ Open \/ Execute \/ BlockTimeout \/ Handle \/ EnqueueNext \/ Wake \/ Drain
    \/ Heartbeat \/ CloseEvent \/ Finish \/ Resend \/ Crash
    \/ \E t \in Tile : Arrive(t) \/ Trim(t)

Spec == Init /\ [][Next]_vars

\* Redis answers, the event loop goes on, sockets drain and sleeps end.
FairSpec ==
    /\ Spec /\ WF_vars(Execute) /\ WF_vars(Handle) /\ WF_vars(EnqueueNext)
    /\ WF_vars(Wake) /\ WF_vars(Drain)

-----------------------------------------------------------------------------
\* Properties.

Frame == [tile : Tile, entries : SUBSET Nat, offset : Nat]

TypeOK ==
    /\ offset \in Offsets /\ streamMode \in Modes
    /\ streamMode = "aggregate" => windowOf \in Windows
    /\ appended \in [Tile -> Nat] /\ trimmed \in [Tile -> Nat] /\ stored \in [Tile -> Nat]
    /\ \A t \in Tile : trimmed[t] <= appended[t] /\ appended[t] <= MaxEntries[t]
    /\ phase \in Serving \union {"handling", "gone"} /\ disconnected \in BOOLEAN
    /\ base \in [Tile -> Nat] /\ at \in [Tile -> Nat]
    /\ lastIds \in [Tile -> Nat \union {Live}]
    /\ reply \in [Tile -> [from : Nat, to : Nat]]
    /\ todo \in Seq(Frame) /\ content \in Seq(Frame)
    /\ got \union again \union lost \subseteq Tile \X Nat
    /\ faults \in Nat
    /\ Pump!TypeOK

Waiting == Entries({content[f.id] : f \in ToSet(queue)} \union ToSet(todo))

\* What the loop will still read of a tile.
Ahead(t, e) ==
    IF lastIds[t] # Live THEN e > lastIds[t]
    ELSE e > IF phase \in {"blocked", "answered"} THEN at[t] ELSE appended[t]

Covered ==
    phase # "gone" =>
        \A t \in Tile : \A e \in base[t] + 1 .. appended[t] :
            Ahead(t, e) \/ <<t, e>> \in got \union lost \union Waiting

\* While a connection that asked for a position lives, every entry behind its
\* start is still to be read, on its way, written, or reported as dropped or
\* thinned: no pause, batch, answer for some of the tiles or repeated XREAD
\* leaves a gap.
NothingSkipped == offset # Live => Covered

\* "$ starts with events added after the connection": the same for a live
\* connection, from the moment it is told that it is ready.
LiveSkipsNothing == offset = Live => Covered

EventsInOrder == \A t \in Tile : \A d, e \in 1 .. MaxEntries[t] : d < e => windowOf[t][d] <= windowOf[t][e]

\* A cursor never stands for an entry that was neither written nor lost on the
\* way: what a connection had still queued when it ended, the next one reads.
\* Aggregates must come in the order of their time stamps: their frames are
\* sorted by window, and with late events the newest entry may be in the first,
\* so that docs/API.md:263 ("resumes each channel tile from its last
\* successfully written frame") does not hold for them.
CursorTruthful ==
    offset = 0 /\ (streamMode = "event" \/ EventsInOrder) =>
        \A t \in Tile : \A e \in 1 .. stored[t] : <<t, e>> \in got \union lost

\* Frames of one tile are written in the order of its entries, and in
\* aggregates no entry is counted twice.
InOrder ==
    \A i, j \in DOMAIN sent :
        LET f == content[sent[i].id]  g == content[sent[j].id] IN
        i < j /\ f.tile = g.tile =>
            \A a \in f.entries, b \in g.entries : IF streamMode = "event" THEN a < b ELSE a # b

\* No entry is written twice, on a connection or across connections of one
\* cursor, unless the backend failed.
WrittenOnce ==
    UseCursor /\ faults = 0 /\ (streamMode = "event" \/ EventsInOrder) => again = {}

-----------------------------------------------------------------------------
\* What the proofs carry from step to step.

\* The pump has numbered the frames that were handed to it, and a connection's
\* handler has frames in hand only between two reads.
Numbered ==
    /\ Len(content) = offered
    /\ phase # "gone" => ~closed /\ (phase = "handling" <=> todo # <<>>)

\* The read positions only move on, and an answer starts where the read did or
\* reports what retention took.
Positions ==
    /\ \A t \in Tile :
         IF lastIds[t] = Live THEN base[t] <= appended[t]
         ELSE /\ base[t] <= lastIds[t]
              /\ lastIds[t] = base[t] \/ lastIds[t] <= appended[t]
    /\ phase # "gone" /\ offset # Live => \A t \in Tile : lastIds[t] # Live
    /\ phase \in {"blocked", "answered"} => \A t \in Tile :
         /\ base[t] <= at[t]
         /\ lastIds[t] # Live => at[t] = lastIds[t]
    /\ phase = "answered" =>
         /\ \A t \in Tile : reply[t].from <= reply[t].to
         /\ \E t \in Tile : Answers(t)
         /\ \A t \in Tile : Answers(t) =>
              /\ at[t] <= reply[t].from /\ reply[t].to <= appended[t]
              /\ \A e \in at[t] + 1 .. reply[t].from : <<t, e>> \in lost

\* The frames of a connection, in the order in which they were built: each
\* holds entries between the connection's start and its position.
Line == content \o todo
GoodFrame(f) ==
    /\ lastIds[f.tile] # Live
    /\ f.entries # {} /\ f.entries \subseteq base[f.tile] + 1 .. lastIds[f.tile]
    /\ f.offset \in f.entries /\ \A e \in f.entries : e <= f.offset

\* Entries reach their frames in their own order.
Aligned == streamMode = "event" \/ EventsInOrder

Before(f, g) == \A a \in f.entries, b \in g.entries : IF Aligned THEN a < b ELSE a # b
Ordered(frames) ==
    \A i, j \in DOMAIN frames :
        i < j /\ frames[i].tile = frames[j].tile => Before(frames[i], frames[j])

FramesInLine == (\A i \in DOMAIN Line : GoodFrame(Line[i])) /\ Ordered(Line)

\* The entries behind a cursor, and those behind the start of a connection.
StartTruthful ==
    offset = 0 /\ Aligned /\ phase # "gone" =>
        \A t \in Tile : \A e \in 1 .. base[t] : <<t, e>> \in got \union lost

\* What stands in the cursor while a connection lives: what it started from, or
\* a frame it has written.
SentFrames(t) == {content[sent[i].id] : i \in {j \in DOMAIN sent : content[sent[j].id].tile = t}}
CursorFromSent ==
    UseCursor /\ phase # "gone" => \A t \in Tile :
        stored[t] <= base[t] \/ \E f \in SentFrames(t) : stored[t] = f.offset

\* An entry is written once because all that was written lies behind the
\* cursor, or in a frame of this connection.
GotBehind ==
    UseCursor /\ faults = 0 /\ Aligned =>
        \A t \in Tile, e \in Nat : <<t, e>> \in got =>
            \/ e <= stored[t]
            \/ phase # "gone" /\ \E f \in SentFrames(t) : e \in f.entries

IInv ==
    /\ TypeOK /\ Pump!IInv /\ Numbered /\ Positions /\ FramesInLine
    /\ NothingSkipped /\ CursorTruthful /\ StartTruthful /\ CursorFromSent
    /\ GotBehind /\ WrittenOnce

\* Every event reaches a client that stays connected and reads, or is lost to
\* backpressure, thinning or retention.
Delivered ==
    \A t \in Tile : \A e \in 1 .. MaxEntries[t] :
        offset # Live /\ phase # "gone" /\ e > base[t] /\ e <= appended[t] ~>
            <<t, e>> \in got \union lost \/ e <= trimmed[t] \/ phase = "gone" \/ disconnected
=============================================================================

---------------------------- MODULE StreamCursor ----------------------------
(***************************************************************************)
(* The resumable cursor of a stream client: a Redis hash with one offset    *)
(* per tile (backend/src/lib/streamCursor.ts), loaded when a connection      *)
(* with its cursorId opens and rewritten by the connection's                 *)
(* StreamCursorWriter while frames are written to the response.  A client    *)
(* that reconnects brings a second connection, and writer, to the same hash. *)
(* Offsets are numbers; 0 stands for a tile without an entry.                *)
(***************************************************************************)
EXTENDS Integers, Sequences, FiniteSets, SequencesExt

CONSTANTS
    Session,        \* the connections that use the cursorId
    Tile,
    MaxOffset,      \* bound: entries of any tile
    Newest,         \* bound: entries of each tile
    MaxQueued,      \* bound: flush calls waiting in one writer
    MaxFaults       \* bound: failing or repeated pipelines, crashes and expiries

ASSUME CursorAssumption ==
    /\ MaxOffset \in Nat /\ MaxQueued \in Nat /\ MaxFaults \in Nat
    /\ Newest \in [Tile -> 0 .. MaxOffset]

VARIABLES
    stored,     \* the hash in Redis
    hasTtl,     \* whether the key expires
    state,      \* of each connection: new, open, closing, finishing, gone
    loaded,     \* the offsets a connection resumed from
    latest,     \* its writer's "latest" map
    pending,    \* its writer's "pending" map
    queued,     \* flush calls chained behind the running one
    inflight,   \* the entries of pipelines sent and not answered
    acked,      \* history: the newest offsets Redis acknowledged
    by,         \* history: {} or {the connection whose offset is stored}
    rewound,    \* history: the tiles whose stored offset a write moved back
    faults, expiries

vars == <<stored, hasTtl, state, loaded, latest, pending, queued, inflight,
          acked, by, rewound, faults, expiries>>
hash == <<stored, hasTtl, by, rewound>>
writer == <<latest, pending, queued, inflight, acked>>

Offsets == [Tile -> 0 .. MaxOffset]
None == [t \in Tile |-> 0]
States == {"new", "open", "closing", "finishing", "gone"}
Alive(s) == state[s] \in {"open", "closing", "finishing"}

\* The entries of over, and those of base for the tiles over does not name.
Merge(over, base) == [t \in Tile |-> IF over[t] # 0 THEN over[t] ELSE base[t]]

Init ==
    /\ stored = None /\ hasTtl = FALSE
    /\ state = [s \in Session |-> "new"]
    /\ loaded = [s \in Session |-> None]
    /\ latest = [s \in Session |-> None]
    /\ pending = [s \in Session |-> None]
    /\ queued = [s \in Session |-> 0]
    /\ inflight = [s \in Session |-> <<>>]
    /\ acked = [s \in Session |-> None]
    /\ by = [t \in Tile |-> {}] /\ rewound = {}
    /\ faults = 0 /\ expiries = 0

-----------------------------------------------------------------------------

\* A connection opens and reads the positions it resumes from.  The client's
\* previous one may still be served: nothing waits for its end.
Load(s) ==
    /\ state[s] = "new"
    /\ state' = [state EXCEPT ![s] = "open"]
    /\ loaded' = [loaded EXCEPT ![s] = stored]
    /\ UNCHANGED <<hash, writer, faults, expiries>>

\* Variant with a bug: only "latest" is checked for, pending is not set.
MarkLatestOnly(s, tile, offset) ==
    /\ state[s] = "open" /\ offset > loaded[s][tile]
    /\ offset > latest[s][tile]
    /\ latest' = [latest EXCEPT ![s][tile] = offset]
    /\ pending' = IF latest[s][tile] = 0 THEN [pending EXCEPT ![s][tile] = offset] ELSE pending
    /\ UNCHANGED <<hash, state, loaded, queued, inflight, acked, faults, expiries>>

\* mark: the pump wrote a frame.  Frames carry offsets behind the loaded ones,
\* in any order: the frames of an aggregating channel are sorted by event time.
Mark(s, tile, offset) ==
    /\ state[s] = "open" /\ offset > loaded[s][tile]
    /\ offset > latest[s][tile]
    /\ latest' = [latest EXCEPT ![s][tile] = offset]
    /\ pending' = [pending EXCEPT ![s][tile] = offset]
    /\ UNCHANGED <<hash, state, loaded, queued, inflight, acked, faults, expiries>>

\* flush: one more call on the promise chain.
ChainFlush(s) ==
    /\ queued[s] < MaxQueued
    /\ queued' = [queued EXCEPT ![s] = @ + 1]
    /\ UNCHANGED <<hash, loaded, latest, pending, inflight, acked, faults, expiries>>

\* Every 15 seconds.
Heartbeat(s) == state[s] = "open" /\ ChainFlush(s) /\ UNCHANGED state

\* The request's close event.
CloseEvent(s) ==
    /\ state[s] = "open" /\ ChainFlush(s)
    /\ state' = [state EXCEPT ![s] = "closing"]

\* The read loop ended: after the close event, or by an error of Redis.
Finish(s) ==
    /\ state[s] \in {"open", "closing"} /\ ChainFlush(s)
    /\ state' = [state EXCEPT ![s] = "finishing"]

\* The handler returns when its last flush has settled.
Leave(s) ==
    /\ state[s] = "finishing" /\ queued[s] = 0 /\ inflight[s] = <<>>
    /\ state' = [state EXCEPT ![s] = "gone"]
    /\ UNCHANGED <<hash, loaded, writer, faults, expiries>>

\* Variant with a bug: flushes are not chained.
FlushUnchained(s) ==
    /\ queued[s] > 0
    /\ queued' = [queued EXCEPT ![s] = @ - 1]
    /\ IF pending[s] = None THEN UNCHANGED <<pending, inflight>>
       ELSE /\ inflight' = [inflight EXCEPT ![s] = Append(@, pending[s])]
            /\ pending' = [pending EXCEPT ![s] = None]
    /\ UNCHANGED <<hash, state, loaded, latest, acked, faults, expiries>>

\* flushPending: the next call of the chain takes what is pending.
FlushPending(s) ==
    /\ queued[s] > 0 /\ inflight[s] = <<>>
    /\ queued' = [queued EXCEPT ![s] = @ - 1]
    /\ IF pending[s] = None THEN UNCHANGED <<pending, inflight>>
       ELSE /\ inflight' = [inflight EXCEPT ![s] = Append(@, pending[s])]
            /\ pending' = [pending EXCEPT ![s] = None]
    /\ UNCHANGED <<hash, state, loaded, latest, acked, faults, expiries>>

\* HSET of the entries, whatever the hash holds.
Hset(s, entries) ==
    /\ stored' = Merge(entries, stored)
    /\ by' = [t \in Tile |-> IF entries[t] # 0 THEN {s} ELSE by[t]]
    /\ rewound' = rewound \union {t \in Tile : stored'[t] < stored[t]}

\* What Redis may have done of a pipeline it did not answer: nothing, HSET
\* without EXPIRE, or both.
Unanswered(s, entries) ==
    \/ UNCHANGED hash
    \/ Hset(s, entries) /\ hasTtl' \in {hasTtl, TRUE}

\* HSET and EXPIRE succeed.
Written(s, i) ==
    /\ Alive(s)
    /\ Hset(s, inflight[s][i]) /\ hasTtl' = TRUE
    /\ acked' = [acked EXCEPT ![s] = Merge(inflight[s][i], @)]
    /\ inflight' = [inflight EXCEPT ![s] = RemoveAt(@, i)]
    /\ UNCHANGED <<state, loaded, latest, pending, queued, faults, expiries>>

\* The connection to Redis closes before an answer; ioredis sends the pipeline
\* again on the next one.
Resend(s, i) ==
    /\ Alive(s) /\ faults + expiries < MaxFaults /\ faults' = faults + 1
    /\ Unanswered(s, inflight[s][i])
    /\ UNCHANGED <<state, loaded, writer, expiries>>

\* A pipeline of a dead backend reaches Redis late, or never.
Stray(s, i) ==
    /\ state[s] = "gone" /\ Unanswered(s, inflight[s][i])
    /\ inflight' = [inflight EXCEPT ![s] = RemoveAt(@, i)]
    /\ UNCHANGED <<state, loaded, latest, pending, queued, acked, faults, expiries>>

\* Variant with a bug: a failed flush forgets its entries.
ForgetEntries(s, entries) == UNCHANGED pending

\* Variant with a bug: a failed flush puts its entries back over newer ones.
RependOver(s, entries) == pending' = [pending EXCEPT ![s] = Merge(entries, @)]

\* A failed flush puts its entries back, except where newer ones are pending.
Repend(s, entries) == pending' = [pending EXCEPT ![s] = Merge(@, entries)]

\* The pipeline fails: before HSET, between HSET and EXPIRE (ioredis aborts the
\* rest of a pipeline whose connection closes), or after both.
WriteFails(s, i) ==
    /\ Alive(s) /\ faults + expiries < MaxFaults /\ faults' = faults + 1
    /\ Unanswered(s, inflight[s][i])
    /\ Repend(s, inflight[s][i])
    /\ inflight' = [inflight EXCEPT ![s] = RemoveAt(@, i)]
    /\ UNCHANGED <<state, loaded, latest, queued, acked, expiries>>

\* The key's time to live runs out.
Expire ==
    /\ hasTtl /\ faults + expiries < MaxFaults /\ expiries' = expiries + 1
    /\ stored' = None /\ hasTtl' = FALSE /\ by' = [t \in Tile |-> {}]
    /\ UNCHANGED <<rewound, state, loaded, writer, faults>>

\* The backend dies with the connection; a pipeline it sent may stay on its way.
Crash(s) ==
    /\ Alive(s) /\ faults + expiries < MaxFaults /\ faults' = faults + 1
    /\ state' = [state EXCEPT ![s] = "gone"]
    /\ queued' = [queued EXCEPT ![s] = 0]
    /\ UNCHANGED <<hash, loaded, latest, pending, inflight, acked, expiries>>

Next ==
    \/ \E s \in Session :
         \/ Load(s) \/ Heartbeat(s) \/ CloseEvent(s) \/ Finish(s) \/ Leave(s)
         \/ FlushPending(s) \/ Crash(s)
         \/ \E tile \in Tile : \E offset \in 1 .. Newest[tile] : Mark(s, tile, offset)
         \/ \E i \in DOMAIN inflight[s] :
              Written(s, i) \/ Resend(s, i) \/ WriteFails(s, i) \/ Stray(s, i)
    \/ Expire

Spec == Init /\ [][Next]_vars

\* The promise chain moves on, Redis answers, the interval timer fires and a
\* handler that is done with its loop returns.
FairSpec ==
    /\ Spec
    /\ \A s \in Session :
         /\ WF_vars(FlushPending(s)) /\ WF_vars(Heartbeat(s)) /\ WF_vars(Leave(s))
         /\ WF_vars(\E i \in DOMAIN inflight[s] : Written(s, i) \/ WriteFails(s, i))

-----------------------------------------------------------------------------
\* Properties.

TypeOK ==
    /\ stored \in Offsets /\ hasTtl \in BOOLEAN
    /\ state \in [Session -> States]
    /\ loaded \in [Session -> Offsets] /\ latest \in [Session -> Offsets]
    /\ pending \in [Session -> Offsets] /\ acked \in [Session -> Offsets]
    /\ queued \in [Session -> 0 .. MaxQueued]
    /\ inflight \in [Session -> Seq(Offsets)]
    /\ by \in [Tile -> SUBSET Session] /\ rewound \subseteq Tile
    /\ faults \in 0 .. MaxFaults /\ expiries \in 0 .. MaxFaults

\* Of one writer's flushes at most one is running: flush chains them.
OneFlush == \A s \in Session : Len(inflight[s]) <= 1

\* The newest offset a connection wrote for a tile is never lost by its writer:
\* it is acknowledged, on its way or pending, whatever fails and whatever is
\* marked while a flush runs.
NothingLost ==
    \A s \in Session, t \in Tile : Alive(s) =>
        latest[s][t] \in {acked[s][t], pending[s][t]}
                         \union {inflight[s][i][t] : i \in DOMAIN inflight[s]}

\* What a writer sends for a tile never lies behind what Redis acknowledged to
\* it before ("serializes cursor updates in offset order").
WriterInOrder ==
    \A s \in Session, t \in Tile : \A i \in DOMAIN inflight[s] :
        inflight[s][i][t] # 0 => inflight[s][i][t] >= acked[s][t]

\* How the maps of a writer hang together.
WriterMaps ==
    \A s \in Session, t \in Tile :
        /\ pending[s][t] \in {0, latest[s][t]}
        /\ acked[s][t] <= latest[s][t]
        /\ \A i \in DOMAIN inflight[s] :
             /\ inflight[s][i][t] <= latest[s][t]
             /\ inflight[s][i][t] # 0 /\ pending[s][t] = 0 => inflight[s][i][t] = latest[s][t]
        /\ pending[s][t] = 0 /\ (\A i \in DOMAIN inflight[s] : inflight[s][i][t] = 0) =>
             acked[s][t] = latest[s][t] \/ state[s] = "gone"

IInv == TypeOK /\ OneFlush /\ WriterMaps /\ WriterInOrder

\* A writer never moves the stored cursor back behind its own offsets, however
\* its flushes are delayed, repeated or fail: the hash goes back only when it
\* expires, or over an offset that another connection wrote.
StoredMonotone ==
    [][\A t \in Tile : stored'[t] < stored[t] =>
         by'[t] # by[t] \/ expiries' = expiries + 1]_vars

\* What it rests on: what a writer has on its way for a tile is at or ahead of
\* what it stored there.
AheadOfStored ==
    \A s \in Session, t \in Tile : by[t] = {s} =>
        /\ stored[t] <= latest[s][t]
        /\ \A i \in DOMAIN inflight[s] :
             inflight[s][i][t] # 0 => stored[t] <= inflight[s][i][t]

\* While the key does not expire and no overlapping connection moved a tile back
\* (see StoredMonotone), a new connection starts no earlier than all that Redis
\* acknowledged to any other and, when nothing failed, all that the ended ones
\* wrote: the flush in the handler's finally block takes the rest.  (docs/API.md:262
\* promises the last frame written; what waits for a flush is not in the hash.)
ResumesAfterLastFlush ==
    [][expiries = 0 =>
         \A s, r \in Session, t \in Tile \ rewound :
           state[s] = "new" /\ state'[s] = "open" =>
             /\ loaded'[s][t] >= acked[r][t]
             /\ faults = 0 /\ state[r] = "gone" => loaded'[s][t] >= latest[r][t]]_vars

\* What that rests on.
DoneIsStored ==
    expiries = 0 => \A s \in Session :
        /\ state[s] = "new" => latest[s] = None
        /\ faults = 0 /\ state[s] = "finishing" /\ queued[s] = 0 => pending[s] = None
        /\ \A t \in Tile \ rewound :
             /\ acked[s][t] <= stored[t]
             /\ faults = 0 /\ state[s] = "gone" => latest[s][t] <= stored[t]

\* A frame written on an open connection reaches the stored cursor, although
\* flushes may fail, unless the connection ends first.
CatchesUp(s, t) ==
    \A o \in 1 .. MaxOffset :
        latest[s][t] = o ~> acked[s][t] >= o \/ state[s] # "open"
=============================================================================

# GeoChannel: models, checks and proofs

GeoChannel takes geographic events over HTTP (`POST /ingest`), appends them to one Redis stream per H3
tile, and streams the tiles of a *channel* (an area of interest) to clients over server-sent events
(`GET /stream`). Several backends share one Redis and nothing else. This directory holds TLA+ modules of the
parts where order, failure and limits interact, the TLC configurations that check them on small instances,
and TLAPS proofs of the safety properties for all instances.

Paths below are relative to the repository; `backend/src/` is left out where it is clear.

## 1. Inventory

| Part | State | Operations | Talks to | What is hard |
|---|---|---|---|---|
| Ingest (`routes/ingest.ts`, `lib/idempotency.ts`) | one Redis record per tenant and Idempotency-Key, with a TTL | reserve (`SET NX`), look up, rate limit, shed, `XADD` pipeline, save completed, release | Redis; pressure registry | concurrent retries, a failure after part of the batch is written, TTL running out under a handler, lost replies |
| Frame pump (`lib/framePump.ts`) | queue, byte count, `waitingDrain`, `closed`, per connection | enqueue, flush, drain, close | socket, cursor writer (`onSend`), pressure registry | two limits at once, drop order, stranded frames, a drifting byte count |
| Cursor (`lib/streamCursor.ts`) | a Redis hash per `cursorId`; the writer's `latest`, `pending`, promise chain | load, mark, flush | Redis, pump, heartbeat | failed and overlapping flushes, connections that follow one another or overlap |
| Subscriber leases (`lib/subscriberQuota.ts`) | a sorted set per tenant and per channel | admission script, refresh, release | Redis, heartbeat | late heartbeats, dead backends, differing clocks, a refresh racing the release |
| Stream session (`routes/stream.ts`, `lib/aggregation.ts`, `lib/eventFrameBatch.ts`) | `lastIds`, `liveMode`, `closed`, read count | `XREAD` loop, building of frames, pause, heartbeat, closing | all of the above | positions advance before frames are written; `$`; blocking reads; what the next connection resumes from |
| Channel creation (`routes/channels.ts`, `lib/channelQuota.ts`, `lib/h3.ts`) | channel keys, two sorted sets per tenant | validate, estimate, build tiles, reservation script | Redis; ingest, which must write the same tiles | sliding window, the sets' own TTLs, two clocks, a repeated script; three ways to a resolution |
| Pressure registry and shedding (`lib/pressure.ts`, `routes/ingest.ts`) | sums over connections | register, publish, unregister; shed | pump, ingest | sums kept by differences, fractions in floating point |
| Rate limits (`lib/ingestRateLimit.ts`, `lib/tokenMintRateLimit.ts`) | a counter per tenant and window | charge or refuse | Redis | window boundary, a script that arrives late |
| Tokens, tenants (`lib/tokens.ts`, `routes/token.ts`, `lib/tenant.ts`) | the configuration each backend started with | authorise, charge, sign, verify | Redis; the operator, who rotates secrets and keys | rotation over several backends and clocks |
| Metrics (`lib/metrics.ts`, `routes/metrics.ts`) | counters, the baseline of a summary window | record, summarise, reset | everything | resets by several readers |
| Load harness (`backend/scripts/metrics-limits*.mjs`) | stage, snapshots, best stage | connect, reset, ingest, judge | metrics, streams, ingest | streams that outlive a stage, resets between snapshots |
| Viewport client (`web/src/features/channels`) | request number, timers, subscription | refresh, reconnect, unmount | API, SSE client | answers of overtaken requests, reconnect races, state that lags behind a render |
| Feature store (`web/src/features/stream`) | feature collections | upsert, prune | viewport client | repeated and reordered frames |
| SSE client (`packages/client`) | one fetch per subscription | create, mint, read, close | backend | failure while closing |
| Wiring (`app.ts`, `config.ts`, `lib/pilotConfig.ts`, `routes/health.ts`) | none | start, check the configuration | | |
| Dashboard, map, generator, examples, smoke scripts, CI | | | | presentation and tools |

What makes each modelled part correct is in section 3. `PROJECT.json` lists the parts with their status and,
under `hazards`, each place where the code can go wrong in a way that a test would hardly reach.

## 2. Modules

```
IdempotencyContract  <--refines--  IngestIdempotency        <--  IngestIdempotencyProofs
FramePump  <--EXTENDS--   StreamLoad                        <--  FramePumpProofs (of both)
FramePump  <--INSTANCE--  StreamSession                     <--  StreamSessionProofs
StreamCursor                                                <--  StreamCursorProofs
SubscriberLease                                             <--  SubscriberLeaseProofs
ChannelQuota  <--EXTENDS--  ChannelRequest                  <--  ChannelQuotaProofs (of both)
StreamAccess                                                <--  StreamAccessProofs
ViewportClient                                              <--  ViewportClientProofs
```

`MC_*` modules give constants their values. In a component's module, a definition whose comment begins with
"Variant with a bug" is not used by it: it is a plausible mistake in the definition that follows, and
substituting it makes the property paired with it under `mutants` fail.

### IngestIdempotency

One process per request; `pc` is the `await` the handler waits at, and each action runs from one answer of
Redis to the next call. `idem[key]` is the record (pending or completed, with payload hash and stored
answer), `written` what a handler's pipeline wrote, `out` its answer. `Reserve`, `LookupExisting`,
`CheckRateLimit`, `ExecPipeline`, `SaveCompleted` and `ReleaseReservation` are the calls in the handler's order,
`Respond` the answer after the record is saved; `ReadFails`, `CallFails`, `PipelineFails` and `ReleaseFails`
their failures, where a pipeline may have written none, some or all of its entries. `Crash` is a dying process,
`Expire` the TTL.

ioredis sends a command whose answer was lost again after a reconnect (`maxRetriesPerRequest` is null), so that
Redis executes it twice with steps of other handlers between: `ReserveReplyLost`, `ChargeReplyLost`,
`SaveReplyLost` and `ReleaseReplyLost`. (A pipeline sent again only writes more entries; `written` does not
count them.) A `DEL` executed for the second time, like one after the record's TTL, may hit the record of another
handler. The key is then `void`: a history, set when a record is taken from a running handler. `orphaned`,
`forgotten` and `deleted` are histories too.

Payloads are model values with a size. The share that shedding keeps is any number: no property depends on the
formula. What the handler refuses before the first call to Redis changes nothing and is left out.

`IdempotencyContract` is the promise for one key: a request claims it, the batch is settled, and whoever is told
that events were accepted is told what was settled; a claim is released or expires. Of a void key nothing more
is promised (`Invalidate`). `IngestIdempotency` implements it (`ImplementsContract`).

### FramePump

`enqueue`, `flush`, `onDrain`, `close` of one pump, each a single action, because they run without an
`await`. A frame is its number and its size; `flush` writes any number of frames up to the one whose write
returns false. `dropped`, `refused` and `sent` are histories. `published` is what the pressure registry last
heard.

### StreamCursor

The hash and, for each connection, the writer's two maps, its promise chain (`queued`) and pipelines on their
way (`inflight`). Connections of one client may overlap in any way: the hash is read when one opens, and every
writer overwrites it. Offsets are numbers, compared as `compareStreamOffsets` compares well-formed ids. `Mark` is
`onSend`; `Heartbeat`, `CloseEvent` and `Finish` chain a flush. A flush is `FlushPending`, then `Hset` in Redis,
then `Written`, the answer to the whole pipeline; `Unanswered` is an execution whose answer is lost, `Resend` the
second one, `WriteFails` an error before `HSET`, between `HSET` and `EXPIRE` or after both. A `Crash` leaves
pipelines on their way, which Redis may still execute (`Stray`). `by` (whose offset a tile holds) and `rewound`
(tiles a write moved back) are histories.

### SubscriberLease

The two sorted sets, with scores relative to now, each connection's state and heartbeat timer (`beat`), and
`line`: the commands a backend has sent and Redis has not executed, which is where refreshes and releases of
other connections interleave. A script runs on a clock up to `MaxSkew` off. The `EXPIRE` of whole sets is left
out: they live for twice the lease, when every member is due for pruning. `lapsedTenant` and
`lapsedChannel` record leases that were pruned while their connection could still refresh them.

### StreamSession

The read loop of one client's successive connections over a set of tiles. Entries of a tile are numbered;
`lastIds` holds an entry's number or `Live` for `$`. `Execute` is Redis executing `XREAD` (answering or
blocking), `Arrive` an event that may answer a blocked one, `Handle` the loop's processing of an answer,
`EnqueueNext` one frame going to the pump (an instance of `FramePump`), `Wake` the end of a pause,
`BlockTimeout` the end of a block, `Resend` ioredis sending `XREAD` again. Events are thinned and batched;
aggregates are one frame per tile and event-time window, sorted by window. The adaptive read count is any
member of `ReadCount` at each read. While frames are enqueued nothing else runs in the process, and what Redis does meanwhile
commutes with it; so those steps are not interleaved with arrivals.

The cursor is here a function of what was written, flushed without failure: its own protocol is
StreamCursor's. Not modelled: authorisation, invalid entries, batches by bytes, and a client that leaves
before the close listener is attached.

### ChannelQuota and ChannelRequest

ChannelQuota is the reservation script and both sets. `live` are the channel keys, which expire by Redis's
clock, `active` and `hourly` the sets with scores of backends' clocks (up to `skew` off), `activeTtl` and
`hourlyTtl` the sets' own times to live. `age` is a history for the sliding window. `Resent` is ioredis
executing the script a second time after its reply was lost, with the clock reading of the first.

ChannelRequest adds the rest of `POST /channels`, with its refusals in their order, and what the channel is
for. H3's cells are a tree: a cell is the sequence of digits leading to it and its resolution the length; a
polygon is the set of finest cells whose centres it contains. `Res`, `Tiles` and `Estimate` are the code's
functions on such cells, `Written` the tiles ingest appends an event to. The estimate of a polygon, which
depends on its bounding box and not on its cells, is any number. One body and one configuration are
chosen for a behaviour, because the reservation does not depend on them.

### StreamAccess

A token is minted in three steps with awaits between them: `Ask` (authorisation, and the minute read from the
backend's clock), `Charge` (the rate limit's script, up to `MaxDelay` later), `Sign` (with the configuration
and clock of that moment). A backend reads its configuration when it starts: `Rotate`, `RetirePrevious`,
`EmergencyRevoke` and `RemoveKey` decide on a new one, `Deploy` restarts one backend with it, which ends its
requests. These are the operator's actions and external to the code; `docs/KEY_ROTATION.md` tells when they are
taken. `Verified` and `Admits` are what `GET /stream` checks before the lease.

### StreamLoad

FramePump composed with what its callbacks feed: the registry's sums and the metrics' counters, the share of a
batch `Keep` lets pass, and the load harness that reads the metrics. The harness's stream is the pump's; a
connection of an earlier stage whose handler has not ended is `left`, with its registry entry. Shares are
fractions; where their product is a whole number the floating-point result may come out one below, and both
outcomes are modelled.

### ViewportClient

The hook `useViewportChannelStream`, the client it calls and the two collections it draws from. A request has a
number (`seq`) and three awaits: channel, token, stream. `status` changes at once, `statusRef` in a later effect
(`Commit`), which is what the races between a refresh and the reconnect timer turn on. A refresh aborts a channel
request that is under way, and `fetch` rejects with the reason given to `abort`, a string: the aborted request's
handler does not recognise it and schedules a reconnection (`Reconnect` in `NewRequest`, and the timer in
`Unmount`). A timer that overtakes a channel request counts as a fault. Frames are those of one tile that both
views contain, with windows and event times; `fed` is a history of what was delivered since the collections were
cleared. The tiles that cover a viewport are not modelled: a view is a model value with its replay offset.

## 3. Runs

Each property is paired with a mutation of the code's definitions that makes it fail in the same run
(`mutants`). "Violation" runs state what a document says and show the code doing otherwise.

| Run | Checks | Bounds and why they suffice |
|---|---|---|
| `ingest` | replays are true; a key is accepted once until it expires or its record is taken from a running handler; no leaked reservation; the contract; every request is answered | 3 requests, two with different payloads on 1 key, the third with any payload, keyed or not; rate limit 2; 1 fault of any kind, any expiry: one claims, one collides, one comes later; keys do not interact. The proofs cover any number of requests and faults |
| `ingest_reuse` (violation) | a reused key with another payload is rejected | 1 fault |
| `load` | one fate per frame, the oldest dropped, never stranded; the registry's sums exact; shedding justified; a stage judged by its own frames | 2 stages, 4 frames of 2 sizes, one of them too large, against 2 frames; 2 resets by anyone, a connection left behind; soft limits at which shedding starts |
| `cursor_safety` | nothing marked is lost; a writer never moves the hash back behind its own offsets; the next connection resumes no earlier than what was flushed; a failed flush only delays | 2 connections that may overlap, a tile with 2 entries and one with 1, 1 queued flush behind the running one, 1 fault or expiry: marks before, during and after a failing or repeated flush |
| `lease` | the tenant's limit holds but for leases whose refreshes failed, what ended leaves both sets, no live lease lapses if `Lease > Period + 2 * MaxSkew`, a dead backend's place returns | 2 connections on 2 channels, room for 1, period 1, skew 1, lease 4, the least that satisfies the condition, 2 faults |
| `quota` | both quotas in every sliding window; refusals have a reason; a channel's streams hold each event of its area once; no more cells are built of tiles than allowed | 4 channels of which 2 active and 3 per hour of 3 ticks, TTLs 1 and 4 (below and above the clamps), clocks equal or 1 tick off, 8 bodies under 3 configurations (one with the streams' range reversed, one beyond the ingest's resolution), a binary tree of 3 resolutions |
| `access` | a token only for its key's tenant; a rotation refuses no unexpired token; withdrawn keys and revoked secrets end; the minute's limit holds | 2 backends a second apart, 2 rollouts of any kind, 2 requests, 2 tenants, 6 seconds in 2 minutes of 3, tokens of 1 or 2 seconds |
| `session_safety` | no gap, no repetition, order, a truthful cursor | 2 tiles with 3 and 1 entries, 2 connections, events and aggregates, from `0-0`, an id that may lie ahead of the tile, and `$`, reads of 1 or 3, thinning to 2, batches of 2, a queue of 1, 1 trimmed, 1 fault |
| `session_live` | what arrives is delivered, dropped, thinned or trimmed | 1 connection that stays |
| `session_gap` (violation) | `$` starts with events added after the connection | |
| `viewport` | one subscription at a time, the latest request's; a cursor id has one offset; counts exact, the newest event drawn; a stream in the end, or one of two named dead ends | 2 views (aggregates from now, events from the start), 2 moves, 2 faults, 3 entries, one of an older window and one older than all; the page starts with the replay from the start |
| `viewport_reconnect` (violation) | the client reconnects | 2 moves, 1 fault |

No run takes more than about three minutes with two workers. `CHECK_DEADLOCK FALSE` stands where
bounded histories end or processes may be done: ingest, cursor, session, load, access, viewport.

`Delivered` has a run of its own, with one connection, because of the size of `session_safety`.

### Fairness

* Ingest: weak fairness of each handler's steps. Redis answers and Node resumes the continuation.
  Clients, failures, crashes and expiry are not fair.
* Cursor: the promise chain moves on, Redis answers (with success or failure), `setInterval` fires, and a
  handler that is done returns.
* Leases: time passes, timers fire, Redis executes, a refused client asks again. The last is an assumption on
  clients; `PlaceReturns` is meaningless without somebody who asks. Time is strongly fair: on-time heartbeats
  forbid a tick while commands are on their way, and clients that come and go within a tick do not stop it.
* Session: Redis executes `XREAD`, the event loop goes on, sleeps end and the socket drains. The last is what
  "a client that reads" means. Nothing makes events arrive or blocks time out.
* Viewport: renders happen, the timer fires, each request is answered or times out (the client sets a timeout on
  each). Moves, frames and leaving the page are not fair. With `MaxFaults` only so many channel requests take
  longer than the 1.2 s of the timer.

No action of failure alone is fair, and no property depends on faults ending.

### What the runs found

* `ingest_reuse`. When the `XADD` pipeline fails after entries were written, the catch path deletes the
  record, so the key can be used again, also for another payload (`routes/ingest.ts:367`).
  `docs/CUSTOMER_INTEGRATION_QUICKSTART.md:89` says that this is rejected.
* `session_gap`. The position of a tile stays `$` until its first entry and Redis resolves it at each `XREAD`:
  events between `ready` and the first read, or between a block that timed out and the next, are skipped
  (`routes/stream.ts:301`, `docs/ARCHITECTURE.md:237`).
* `viewport_reconnect`. `docs/ARCHITECTURE.md:262` says that the web demo "waits briefly, creates a fresh channel
  and token when required, and reconnects". It can be left without a stream, a request or a timer (`DeadEnd`): a
  refresh of the same view cancels the timer before an effect has copied the status to `statusRef`
  (`useViewportChannelStream.ts:134`, the run's trace); or the stream fails while a timer is pending, the failure
  is ignored (`:186`), and the timer's refresh finds its key asked for and returns. `Settles` shows that there is no
  other way.

Observations without a run:

* Aggregate frames are sorted by window, the cursor keeps the greatest offset written: if an older window holds
  the newer entry, the cursor passes entries of frames that are still queued and the next connection never gets
  them (`lib/aggregation.ts:104`, `docs/API.md:263`). `CursorTruthful` leaves late aggregates out; without that
  condition TLC finds the case.
* With `H3_RES_STREAM_MAX` above `H3_RES_INGEST` channels of the resolutions between are accepted and nobody
  writes their streams (`lib/h3.ts:19`, `docs/API.md:149`). `DeliveredOnce` leaves them out.
* The gate over several runs of the load harness takes a run without a stable stage for the start of its fold:
  unless it is the last run, the next run's stage replaces it (`scripts/metrics-limits-multi.mjs:115`, against
  "Worst stable capacity" of `docs/PRE_RELEASE_CHECKLIST.md:43`). The fold is not modelled.
* The idempotency record's TTL may run out under a running handler, and a `DEL` that is sent again may take
  another handler's record (`routes/ingest.ts:274`, `:281`, `:368`). Two handlers may then write and be accepted
  under one key. `AcceptedOnce` and the contract excuse such keys, `ReplayFaithful` and `NoLeakedReservation` do
  not.
* A pipeline that ioredis sends again after a lost reply writes its events twice.
* The estimate that bounds how many cells a polygon costs takes its bounding box the shorter way round the globe
  (`lib/h3.ts:197`): a ring that spans 360 degrees has an estimated area of zero, while `polygonToCells` fills the
  band. "keeps H3 allocation bounded" (`lib/h3.ts:210`) does not hold for rings wider than 180 degrees.
  `MaterializationBounded` is about tiles.
* A reservation or admission script that is sent again after a lost reply may find the limit reached by its own
  first execution and answer 429: a channel, or a lease, remains that nobody knows of until it expires.
* A token request under way when the page is left goes on to subscribe (`useViewportChannelStream.ts:331`).
* The lines meant for the handler of an aborted channel request (`useViewportChannelStream.ts:209`) are never
  reached, because the rejection is the abort's reason and no `DOMException`. Once a move has overtaken a request,
  a channel that takes longer than 1.2 s is aborted by the timer that overtaking set, which sets the next timer: a
  client whose every channel takes that long never gets a stream. After the page is left the timer finds no map.
* With a replay offset `XREAD` is sent with `BLOCK 0`, which blocks without limit; the empty answer that would
  set `liveMode` (`routes/stream.ts:313`) does not come, unlike "non-blocking reads provide replay"
  (`docs/ARCHITECTURE.md:187`). `Execute` models it. Nothing is lost by it.
* A client that reconnects while its previous connection has offsets waiting for a flush reads a hash up to one
  heartbeat old and gets frames again (`routes/stream.ts:130`), and the late flush overwrites newer offsets of the
  new connection (`lib/streamCursor.ts:51`), against "resumes each channel tile from its last successfully written
  frame" (`docs/API.md:262`). `StoredMonotone` and `ResumesAfterLastFlush` say what does hold when connections
  overlap.
* `HSET` and `EXPIRE` are two commands of a plain pipeline. A cursor whose first flush breaks between them and
  has no later flush does not expire (`lib/streamCursor.ts:52`).
* A client that leaves during one of the awaits before `routes/stream.ts:187` is not noticed by the close
  listener.

## 4. Proofs

Checked by TLAPS for every value of the constants that satisfies the modules' assumptions, which state types,
finiteness and what the configuration loader enforces. Where a theorem needs more, the hypothesis is part of
its statement and named below. Each `Invariant` theorem has the same outline: the initial states satisfy
`IInv`, each action preserves it (one lemma per action), and the properties follow from it. Every safety
invariant and action property of a passing run is stated by a theorem.

* **IngestIdempotencyProofs.** `IInv` ties each handler's `pc` to the record it owns, each completed record to
  the request that wrote it and each response to a record. `ReplayFaithful` alone is not inductive: a replay
  is true because the record is, and the record is because of what its writer had done before it saved it.
  `OwnerInv`
  says that a handler on its way to its first `DEL` owns the record it will delete, and an accepted one its
  completed record, unless the key is void. All theorems hold with commands executed twice and records that
  expire at any time; exclusiveness, single acceptance and finality are about keys that are not void. Also proved:
  the refinement of `IdempotencyContract`.
* **FramePumpProofs**, of one pump. `IInv` holds the frame limit, the fates, the order, the drop rule and
  `NoStall`. The byte count is kept by differences and compared with a limit while the queue is cut at both
  ends; that it is exact (`BytesTheorem`) and bounded rests on how the sum over a sequence splits and grows.
  `CutStep` says that a new connection's empty pump satisfies `IInv` whatever the old one still held.
* **FramePumpProofs**, of the backend under load. `LoadInv` adds to the pump's invariant: each connection's
  entry in the registry is what its queue holds (`Connections`; the clamps at zero then never cut anything off),
  after a drained stage no other connection is left (`Alone`), and while the summary window is the one of a
  snapshot its rows have grown by what this connection sent and dropped (`Measured`). `RegistryExact` and
  `StageExact` follow. `ShedJustified` follows from exact sums and from arithmetic: of three ratios one is the
  worst (comparing fractions by cross products is transitive), and the share that is kept, rounded down and
  possibly one less, is within its bounds.
* **StreamCursorProofs.** `WriterMaps` is what makes `NothingLost` inductive: an entry that is not pending is
  either in the running flush at its newest value or acknowledged. `AheadOfStored` says that what a writer has on
  its way for a tile is at or ahead of what it stored there, so that a late or repeated flush moves the hash back
  only over another connection's offset (`StoredMonotone`). `DoneIsStored` says that what was acknowledged, and
  without faults what an ended connection had marked, is in the hash in every tile nobody moved back, whence
  `ResumesAfterLastFlush`. Nothing is assumed of how connections overlap.
* **SubscriberLeaseProofs.** `LinesOK` restricts the commands on their way: refreshes before releases, a
  refresh only of a counted lease, none after the connection's end. Without it a late refresh could add a
  member nobody admitted. `ReleaseComing` (for `EndedIsReleased`): an ended connection is out of a set, or its
  removal is on the way behind every refresh. `RefreshesOnTime` (for `NeverLapses`): a lease is no older than
  its timer, or its refresh is on its way, young enough by any clock; with `Lease > Period + 2 * MaxSkew`
  no script can then prune it.
* **StreamSessionProofs.** A connection's frames form one line, those it enqueued and those it has in hand.
  `FramesInLine` says that each holds entries between the connection's start and its read position and that
  frames of a tile are in the order of their entries; `Positions` bounds the read positions by what was
  appended and by the command Redis executes. The pump's theorems are used by instance: it takes from the
  line's head and drops or cuts off the rest. `CursorFromSent` and `GotBehind` relate the stored cursor to the
  frames written, which gives `CursorTruthful` across connections and `WrittenOnce`.
* **ChannelQuotaProofs**, of the reservation. `ActiveKnows` and `HourlyKnows` say that whoever has to be
  counted is in the set with a late enough score and that the set's key outlives it; `SetsTrue` is the converse,
  for the refusals. A repeated script is covered.
* **ChannelQuotaProofs**, of the handler. `ReplyTrue` says what a reply reports of resolution, area and limits.
  In the tree of cells, of any depth, each cell has one ancestor at each resolution, whence exactly one of the
  channel's streams has an event of its area (`DeliveredOnce`); and what is built of a request
  for tiles is a union over them, with no more members than the sum the estimate adds up (`MaterializationBounded`). `QuotaRefined`:
  the handler implements the reservation, so its limits hold of the handler.
* **StreamAccessProofs.** `TokensBounded` says which secrets a living token may have, and bounds its expiry by
  when its secret or key left the last backend; `OneStepBehind` what a backend may run that is not deployed yet.
  `RotationTheorem` uses the assumption `MaxSkew <= ReconnectWindow`: the operator's wait covers the clocks.
  `MintLimitTheorem` has the hypothesis `MaxDelay + MaxSkew <= Minute`: a script executes within a minute, by any
  backend's clock, of the minute it charges (`ChargesInTime`), so that a counter, which lives two minutes,
  outlives all that charge it (`CountersKept`). A script later than that may find the counter expired.
* **ViewportClientProofs.** `TimerHolds` is the strengthening: while a reconnect timer is pending no overtaken
  request's subscription is left, and every request was caused by a move, by the timer of a request that a move
  aborted, or by a fault, so that the numbers of requests stay within `MaxSeq`. `CursorOfAsked` ties the cursor id to the view asked for last;
  `SubscribedOnce` and `FedInOrder` say that what was fed came from opened subscriptions and lies behind their
  positions. `CountTheorem` unrolls the answer's frames one after the other: windows in order, each counting
  its entries.

Induction is over sets of naturals (`NatInduct`, from the well-foundedness of `<`): for a fact about a
recursive function or a fold, the set of the numbers for which it holds. The folds of the community modules
(sums of bytes and cells, `FlattenSeq`, `FoldLeft` over frames) are unrolled that way.

TLC alone checks liveness (`Answered`, `CursorCatchesUp`, `PlaceReturns`, `Delivered`, `Settles`), which is
beyond the prover, and the three violations. Some weaker invariants (`ExclusiveReservation`, `WithinChannelLimit`,
`OpenIsCounted`, `BytesExact`, `BytesBounded`) and the inductive ones are proved and in no run. The proofs of a
component and of what composes it share a module where the second needs the first.


## 5. Plan

In this order:

1. **SubscriberLease, ChannelQuota**: what remains when an admission or reservation script is sent again and
   finds the limit reached by its own first execution.
2. **StreamSession**: batches by bytes, invalid entries, the window before the close listener is attached.
3. **StreamCursor**: how far behind the frames written a new connection may start: at most a heartbeat.
4. **StreamLoad**: the connection left behind as a pump of its own, instead of its registry entry.
5. **Delivery**: ingest, tile streams, session and feature store composed, with at-least-once delivery from
   acceptance to the map as the abstract specification.

Not modelled: geometry (h3-js) and the validation of fields; latency histograms, one-minute rates and the
Prometheus text; the adaptive read count's formula (any count of a set is read); start-up code and static checks
of the configuration; the dashboard and the map's drawing; the event generator, the token broker example and
smoke scripts. They are pure functions of one call, presentation, or tools nothing of the service depends on.

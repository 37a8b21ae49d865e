----------------------------- MODULE StreamLoad -----------------------------
(* One backend under the load harness: the frame pump of the harness's stream
   connection (FramePump), the pressure registry all pumps publish to, the
   share of a batch the ingest sheds by it, the metrics that count frames, and
   the harness metrics-limits.mjs, which judges a deployment by those metrics.

   A connection that has not ended when the next stage connects is kept as
   left: its entry in the registry, and what a last batch still adds.        *)
EXTENDS FramePump

CONSTANTS
    WaitingSoft, FramesSoft, BytesSoft,  \* INGEST_PRESSURE_*_SOFT_LIMIT, 0 is off
    MaxShedPct,      \* INGEST_PRESSURE_MAX_SHED_FRACTION, in percent
    MaxBatch,        \* bound: events of one ingest request
    MaxDropPct,      \* LIMIT_MAX_DROP_RATE, in percent
    StopOnFailure,   \* LIMIT_STOP_ON_FAILURE
    ResetModes,      \* of "none", "warn", "strict": LIMIT_METRICS_RESET_* of the stages
    MaxStages,       \* LIMIT_MAX_STAGES
    MaxResets        \* bound: resets of the metrics window, by the harness and others

ASSUME LoadAssumption ==
    /\ {WaitingSoft, FramesSoft, BytesSoft, MaxBatch, MaxDropPct, MaxStages, MaxResets} \subseteq Nat
    /\ MaxShedPct \in 0 .. 99 /\ StopOnFailure \in BOOLEAN
    /\ ResetModes \subseteq {"none", "warn", "strict"}

VARIABLES
    link,        \* the stage's connection: "none", "up", "gone" (its client left)
    entry,       \* its entry in the registry, or NoEntry
    left,        \* the entry of an earlier connection that has not ended, or NoEntry
    sums,        \* the registry's four sums
    backlog,     \* entries in the stream that the connection has not read
    counter,     \* metrics: frames sent and dropped, since the process started
    base,        \* the baseline of the last reset of the summary window
    gauge,       \* metrics: subscribers
    generation,  \* resetGeneration
    pc, stage,   \* of the harness
    error,       \* a connect or ingest error in this stage
    start, end,  \* its two snapshots of the summary
    drained,     \* the stage before this one was drained
    verdict,     \* of the stage judged last
    best         \* bestStable: a stage, or 0

registry == <<link, entry, left, sums>>
metrics == <<counter, base, gauge, generation>>
harness == <<pc, stage, error, start, end, drained, verdict, best>>
loadVars == <<vars, registry, backlog, metrics, harness>>

NoEntry == [frames |-> 0, bytes |-> 0, waiting |-> FALSE, open |-> FALSE]
Entry(state) == [frames |-> state.frames, bytes |-> state.bytes, waiting |-> state.waiting, open |-> TRUE]
Ones(waiting) == IF waiting THEN 1 ELSE 0
NonNegative(n) == IF n < 0 THEN 0 ELSE n

NoVerdict == [frames |-> 0, drops |-> 0, passed |-> FALSE]
NoSnapshot == [frames |-> 0, drops |-> 0, generation |-> 0, sent |-> 0, dropped |-> 0]

LoadInit ==
    /\ Init /\ link = "none" /\ entry = NoEntry /\ left = NoEntry
    /\ sums = [subs |-> 0, waiting |-> 0, frames |-> 0, bytes |-> 0]
    /\ backlog = 0 /\ counter = [sent |-> 0, drops |-> 0] /\ base = counter
    /\ gauge = 0 /\ generation = 1
    /\ pc = "begin" /\ stage = 1 /\ error = FALSE
    /\ start = NoSnapshot /\ end = NoSnapshot /\ drained = TRUE
    /\ verdict = NoVerdict /\ best = 0

-----------------------------------------------------------------------------
(* The pressure registry.                                                   *)

(* The sums move by the difference between an entry and its next state.      *)
Updated(old, new) ==
    [subs |-> sums.subs,
     waiting |-> NonNegative(sums.waiting + Ones(new.waiting) - Ones(old.waiting)),
     frames |-> NonNegative(sums.frames + new.frames - old.frames),
     bytes |-> NonNegative(sums.bytes + new.bytes - old.bytes)]

Registered == [sums EXCEPT !.subs = @ + 1]

Unregistered(s, old) ==
    [subs |-> NonNegative(s.subs - 1), waiting |-> NonNegative(s.waiting - Ones(old.waiting)),
     frames |-> NonNegative(s.frames - old.frames), bytes |-> NonNegative(s.bytes - old.bytes)]

(* onSend, onDrop and onStateChange of the pump's callbacks.                 *)
Callbacks ==
    /\ counter' = [sent |-> counter.sent + Len(sent') - Len(sent),
                   drops |-> counter.drops + Cardinality(dropped') - Cardinality(dropped)]
    /\ entry' = Entry(published') /\ sums' = Updated(entry, entry')

-----------------------------------------------------------------------------
(* Ingest.                                                                  *)

(* Variant with a bug: the share to shed is kept.                           *)
KeepShed(n) ==
    LET over(p, limit) == IF limit > 0 /\ p > limit THEN (100 * (p - limit)) \div limit ELSE 0
        shed == Max({over(sums.waiting, WaitingSoft), over(sums.frames, FramesSoft), over(sums.bytes, BytesSoft)})
    IN  IF shed = 0 \/ n <= 1 THEN {n} ELSE {(n * (IF shed < MaxShedPct THEN shed ELSE MaxShedPct)) \div 100}

(* How many of n parsed events are kept: the worst of the three ratios counts
   beyond 1, up to the greatest share.  Shares are fractions computed in
   floating point: a product that is a whole number may come out below it.   *)
Keep(n) ==
    LET over(p, limit) == IF limit > 0 /\ p > limit THEN [of |-> limit, up |-> p - limit] ELSE [of |-> 1, up |-> 0]
        shares == {over(sums.waiting, WaitingSoft), over(sums.frames, FramesSoft), over(sums.bytes, BytesSoft)}
        capped == {IF 100 * s.up > MaxShedPct * s.of THEN [of |-> 100, up |-> MaxShedPct] ELSE s : s \in shares}
        worst == CHOOSE s \in capped : \A t \in capped : s.up * t.of >= t.up * s.of
        exact == (n * (worst.of - worst.up)) \div worst.of
        below == IF (n * worst.up) % worst.of = 0 THEN {exact, exact - 1} ELSE {exact}
    IN  IF worst.up = 0 \/ n <= 1 THEN {n} ELSE {Max({1, k}) : k \in below}

Ingest ==
    /\ pc = "ingest"
    /\ \E n \in 1 .. MaxBatch :
          /\ offered + backlog + n <= MaxOffers
          /\ \E kept \in Keep(n) : backlog' = backlog + kept
    /\ UNCHANGED <<vars, registry, metrics, harness>>

IngestFails ==
    /\ pc = "ingest" /\ error' = TRUE
    /\ UNCHANGED <<vars, registry, backlog, metrics, pc, stage, start, end, drained, verdict, best>>

-----------------------------------------------------------------------------
(* The connection.                                                          *)

(* The read loop offers a frame.  When the client has left, what was already
   answered is still handled: every write then says to wait.                *)
Serve ==
    /\ link # "none" /\ backlog > 0 /\ backlog' = backlog - 1
    /\ \E bytes \in FrameBytes : Enqueue(bytes)
    /\ link = "gone" => Len(sent') <= Len(sent) + 1 /\ (sent' # sent => waitingDrain')
    /\ Callbacks
    /\ UNCHANGED <<link, left, base, gauge, generation, harness>>

Drain ==
    /\ link = "up" /\ OnDrain /\ Callbacks
    /\ UNCHANGED <<link, left, backlog, base, gauge, generation, harness>>

(* Variant with a bug: of its shares only the subscriber is taken out.       *)
FinishKeepsItsShare ==
    /\ link # "none" /\ link' = "none" /\ Close
    /\ entry' = NoEntry /\ sums' = [sums EXCEPT !.subs = @ - 1] /\ gauge' = gauge - 1
    /\ UNCHANGED <<left, backlog, counter, base, generation, harness>>

(* The loop ends, because its client left or a read failed: the pump is
   closed, which publishes, the entry and the subscriber are taken out.      *)
Finish ==
    /\ link # "none" /\ link' = "none" /\ Close
    /\ entry' = NoEntry /\ sums' = Unregistered(Updated(entry, Entry(published')), Entry(published'))
    /\ gauge' = gauge - 1
    /\ UNCHANGED <<left, backlog, counter, base, generation, harness>>

(* The network breaks the stream: the harness counts an error.               *)
Break ==
    /\ link = "up" /\ link' = "gone" /\ error' = TRUE
    /\ UNCHANGED <<vars, entry, left, sums, backlog, metrics, pc, stage, start, end, drained, verdict, best>>

(* A last batch of the connection left behind: one frame is written to a
   closed socket and counted, the others queue up or are dropped.           *)
LeftBatch ==
    /\ left.open /\ ~left.waiting
    /\ \E f \in {0, MaxPendingFrames}, d \in 0 .. 1 :
          /\ left' = [left EXCEPT !.frames = f, !.bytes = f, !.waiting = TRUE]
          /\ counter' = [sent |-> counter.sent + 1, drops |-> counter.drops + d]
    /\ sums' = Updated(left, left')
    /\ UNCHANGED <<vars, link, entry, backlog, base, gauge, generation, harness>>

LeftFinishes ==
    /\ left.open /\ left' = NoEntry
    /\ sums' = Unregistered(sums, left) /\ gauge' = gauge - 1
    /\ UNCHANGED <<vars, link, entry, backlog, counter, base, generation, harness>>

-----------------------------------------------------------------------------
(* Metrics and the harness.                                                 *)

Summary == [frames |-> Less(counter.sent, base.sent), drops |-> Less(counter.drops, base.drops),
            generation |-> generation, sent |-> Len(sent), dropped |-> Cardinality(dropped)]

ResetWindow ==
    /\ generation <= MaxResets /\ generation' = generation + 1
    /\ base' = counter /\ UNCHANGED <<counter, gauge>>

(* Somebody else resets the summary window.                                 *)
ForeignReset ==
    /\ ResetWindow
    /\ UNCHANGED <<vars, registry, backlog, harness>>

(* A stage connects its client; what the stream holds is not for it ($).  An
   earlier connection that has not ended is left behind: its pump will cut
   its frames off.                                                          *)
Connect ==
    /\ pc = "begin" /\ pc' = "warm" /\ ~left.open
    /\ \/ /\ link' = "up" /\ error' = FALSE
          /\ left' = entry /\ entry' = Entry(State(<<>>, 0, FALSE)) /\ sums' = Registered /\ gauge' = gauge + 1
          /\ queue' = <<>> /\ queueBytes' = 0 /\ waitingDrain' = FALSE /\ closed' = FALSE
          /\ published' = State(<<>>, 0, FALSE) /\ refused' = refused \union ToSet(queue)
          /\ UNCHANGED <<offered, sent, dropped>>
       \/ error' = TRUE /\ UNCHANGED <<vars, registry, gauge>>
    /\ backlog' = 0
    /\ UNCHANGED <<counter, base, generation, stage, start, end, drained, verdict, best>>

(* After the warm-up the window is reset, if that was asked for; a reset that
   fails ends the whole run when it is strict.                              *)
ResetStage ==
    /\ pc = "warm"
    /\ \/ "strict" \in ResetModes /\ pc' = "aborted" /\ UNCHANGED metrics
       \/ ResetModes \ {"strict"} # {} /\ pc' = "ready" /\ UNCHANGED metrics
       \/ ResetModes \ {"none"} # {} /\ pc' = "ready" /\ ResetWindow
    /\ UNCHANGED <<vars, registry, backlog, stage, error, start, end, drained, verdict, best>>

StartStage ==
    /\ pc = "ready" /\ pc' = "ingest" /\ start' = Summary
    /\ UNCHANGED <<vars, registry, backlog, metrics, stage, error, end, drained, verdict, best>>

(* Ingest is over and the drain time has passed; the second snapshot, then
   the clients are aborted.                                                 *)
EndStage ==
    /\ pc = "ingest" /\ pc' = "ending" /\ end' = Summary
    /\ link' = IF link = "up" THEN "gone" ELSE link
    /\ UNCHANGED <<vars, entry, left, sums, backlog, metrics, stage, error, start, drained, verdict, best>>

(* Variant with a bug: the drain is decided by the second snapshot's rows.  *)
JudgeWithoutDrain ==
    /\ pc = "ending" /\ pc' = "judged"
    /\ LET frames == end.frames - start.frames
           drops == NonNegative(end.drops - start.drops)
       IN  /\ drained' = TRUE
           /\ verdict' = [frames |-> frames, drops |-> drops,
                          passed |-> /\ frames > 0 => 100 * drops <= MaxDropPct * frames
                                     /\ ~error]
    /\ UNCHANGED <<vars, registry, backlog, metrics, stage, error, start, end, best>>

(* Subscribers are polled until none is left or the time is over; then the
   stage is judged.  Without a frame sent its drop rate is 0.               *)
Judge ==
    /\ pc = "ending" /\ pc' = "judged"
    /\ LET frames == end.frames - start.frames
           drops == NonNegative(end.drops - start.drops)
       IN  /\ drained' \in BOOLEAN /\ (drained' => gauge = 0)
           /\ verdict' = [frames |-> frames, drops |-> drops,
                          passed |-> /\ frames > 0 => 100 * drops <= MaxDropPct * frames
                                     /\ ~error /\ drained']
    /\ UNCHANGED <<vars, registry, backlog, metrics, stage, error, start, end, best>>

(* The next stage, or the report.                                           *)
NextStage ==
    /\ pc = "judged"
    /\ best' = IF verdict.passed THEN stage ELSE best
    /\ IF stage < MaxStages /\ (verdict.passed \/ ~StopOnFailure)
       THEN pc' = "begin" /\ stage' = stage + 1
       ELSE pc' = "reported" /\ UNCHANGED stage
    /\ start' = NoSnapshot /\ end' = NoSnapshot /\ error' = FALSE /\ verdict' = NoVerdict
    /\ UNCHANGED <<vars, registry, backlog, metrics, drained>>

LoadNext ==
    \/ Ingest \/ IngestFails \/ Serve \/ Drain \/ Finish \/ Break \/ LeftBatch \/ LeftFinishes
    \/ ForeignReset \/ Connect \/ ResetStage \/ StartStage \/ EndStage \/ Judge \/ NextStage

LoadSpec == LoadInit /\ [][LoadNext]_loadVars

-----------------------------------------------------------------------------
(* Properties.                                                              *)

LoadTypeOK ==
    /\ TypeOK /\ link \in {"none", "up", "gone"}
    /\ {entry, left} \subseteq [frames : Nat, bytes : Nat, waiting : BOOLEAN, open : BOOLEAN]
    /\ sums \in [subs : 0 .. 2, waiting : 0 .. 2, frames : Nat, bytes : Nat]
    /\ backlog \in 0 .. MaxOffers /\ {counter, base} \subseteq [sent : Nat, drops : Nat]
    /\ gauge \in 0 .. 2 /\ generation \in Nat \ {0} /\ stage \in 1 .. MaxStages
    /\ pc \in {"begin", "warm", "ready", "ingest", "ending", "judged", "reported", "aborted"}
    /\ best \in 0 .. MaxStages

(* What the stage's connection should be in the registry with.               *)
Own == IF link = "none" THEN NoEntry ELSE Entry(State(queue, Bytes(queue), waitingDrain))

Total(a, b) ==
    [subs |-> Ones(a.open) + Ones(b.open), waiting |-> Ones(a.waiting) + Ones(b.waiting),
     frames |-> a.frames + b.frames, bytes |-> a.bytes + b.bytes]

(* The registry's sums, kept by differences and clamped, are those of the
   connections that are open: what their queues hold right now, and nothing
   of a connection that ended, in whatever state it ended.                  *)
RegistryExact == sums = Total(Own, left)

(* Ingest keeps at least one event of a request and at least the share it may
   not shed, and it keeps all while no queue is over a soft limit.          *)
ShedJustified ==
    LET overloaded ==
            \/ WaitingSoft > 0 /\ Ones(waitingDrain) + Ones(left.waiting) > WaitingSoft
            \/ FramesSoft > 0 /\ Len(queue) + left.frames > FramesSoft
            \/ BytesSoft > 0 /\ Bytes(queue) + left.bytes > BytesSoft
    IN  \A n \in 1 .. MaxBatch : \A kept \in Keep(n) :
            /\ kept \in 1 .. n /\ 100 * (kept + 1) >= n * (100 - MaxShedPct)
            /\ ~overloaded => kept = n

(* A stage that follows a drained one is judged by what its own connection
   sent and dropped between the snapshots, unless another tool reset the
   window between them.                                                     *)
StageExact ==
    [][(pc = "ending" /\ pc' = "judged" /\ drained /\ start.generation = end.generation) =>
          /\ verdict'.frames = end.sent - start.sent
          /\ verdict'.drops = end.dropped - start.dropped]_loadVars

Entries == [frames : Nat, bytes : Nat, waiting : BOOLEAN, open : BOOLEAN]

(* Inductive, what the proofs carry from step to step.  The connections: their
   entries, and how many the metrics count.                                 *)
Connections ==
    /\ link \in {"none", "up", "gone"} /\ left \in Entries
    /\ ~left.open => left = NoEntry
    /\ entry = Own /\ RegistryExact
    /\ link = "none" => queue = <<>> /\ ~waitingDrain
    /\ gauge = Ones(link # "none") + Ones(left.open)

(* After a stage that was drained no earlier connection is left.             *)
Alone == drained => ~left.open /\ (pc \in {"begin", "judged"} => link = "none")

(* As long as the window is the one of a snapshot, its rows have grown by what
   the connection sent and dropped since.                                   *)
Grown(from, to) ==
    /\ from.generation <= to.generation /\ from.dropped <= to.dropped
    /\ from.generation = to.generation =>
          to.frames - from.frames = to.sent - from.sent /\ to.drops - from.drops = to.dropped - from.dropped

Snapshot == [frames : Nat, drops : Nat, generation : Nat, sent : Nat, dropped : Nat]

Measured ==
    /\ {counter, base} \subseteq [sent : Nat, drops : Nat]
    /\ base.sent <= counter.sent /\ base.drops <= counter.drops
    /\ generation \in Nat /\ IsFiniteSet(dropped) /\ start \in Snapshot /\ end \in Snapshot
    /\ drained /\ pc = "ingest" => Grown(start, Summary)
    /\ drained /\ pc = "ending" => Grown(start, end)

LoadInv == IInv /\ BytesExact /\ BytesBounded /\ Connections /\ Alone /\ Measured
=============================================================================

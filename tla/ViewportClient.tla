--------------------------- MODULE ViewportClient ---------------------------
(* The browser side of a stream: the hook useViewportChannelStream of the web
   demo, the fetch client it uses and the collections the frames are drawn
   from.  A refresh of the map asks for a channel, then (with stream
   authentication) for a token, then subscribes; each of the three may fail,
   and the map may move, or the page be left, between any two steps.

   React renders after the handlers: setStatus changes status at once, the
   reference statusRef the next refresh reads only in a later effect (Commit).
   The reconnect timer (1.2 s) never fires before that effect.

   The frames are those of one tile every view contains: entries 1 .. Entries,
   with a window and an event time each.  A view is a viewport with the
   options it is shown with, its replay offset among them.                  *)
EXTENDS Integers, FiniteSets, SequencesExt

CONSTANTS View,          \* the viewports, with their options
          NoView,        \* before the first refresh
          ReplayOffset,  \* the initial offset chosen with each view
          Aggregated,    \* the views coarse enough for aggregate frames
          Entries,          \* number of entries of the tile
          Window, Ts,    \* event-time window and event time of each entry
          AuthRequired,  \* VITE_STREAM_AUTH_REQUIRED
          MaxMoves,      \* bound: refreshes by the user
          MaxFaults      \* bound: failed or slow requests and failed streams

ASSUME ViewAssumption ==
    /\ NoView \notin View /\ Aggregated \subseteq View
    /\ AuthRequired \in BOOLEAN /\ {Entries, MaxMoves, MaxFaults} \subseteq Nat
    /\ DOMAIN ReplayOffset = View
    /\ Window \in [1 .. Entries -> Nat \ {0}] /\ Ts \in [1 .. Entries -> Nat \ {0}]

MaxSeq == 2 * MaxMoves + MaxFaults   \* by a move, the request it aborts, or a fault
Seq_ == 1 .. MaxSeq

VARIABLES
    mounted,    \* the map page is shown (mapRef.current)
    view,       \* what the map shows now
    asked,      \* lastRequestedKeyRef
    seq,        \* requestSeqRef
    of,         \* the view each request was made for
    status,     \* the hook's status state
    statusRef,  \* the copy a refresh reads
    timer,      \* reconnect timer: "off", "set", "due" (set, and rendered since)
    creating,   \* the request waiting for POST /channels (channelAbortRef), or 0
    minting,    \* the requests waiting for POST /token
    stream,     \* the subscription of each request
    sub,        \* subRef: the request whose subscription it holds, or 0
    cursor,     \* [id, offset]: cursorIdRef, cursorInitialOffsetRef
    used,       \* history: <<cursor id, initial offset>> sent to GET /stream
    via,        \* history: the cursor id of each subscription
    pos,        \* last entry each subscription delivered
    shown,      \* the tile's aggregate feature, or Nothing
    marker,     \* event time of the asset's drawn feature, or 0
    lastSeen,   \* lastSeenRef of that asset, or 0
    fed,        \* history: <<request, entry>> delivered since the last clear
    moves, faults

requestVars == <<asked, seq, of, creating, minting>>
streamVars == <<stream, sub, used, via>>
drawnVars == <<shown, marker, lastSeen, fed>>
vars == <<mounted, view, requestVars, status, statusRef, timer, streamVars, cursor,
          pos, drawnVars, moves, faults>>

Nothing == [window |-> 0, offset |-> 0, count |-> 0]
Live == {s \in Seq_ : stream[s] \in {"opening", "open"}}

Init ==
    /\ mounted = TRUE /\ view = NoView /\ asked = NoView /\ seq = 0
    /\ of = [s \in Seq_ |-> NoView]
    /\ status = "idle" /\ statusRef = "idle" /\ timer = "off"
    /\ creating = 0 /\ minting = {} /\ stream = [s \in Seq_ |-> "none"] /\ sub = 0
    /\ \E v \in View : cursor = [id |-> 0, offset |-> ReplayOffset[v]]
    /\ used = {} /\ via = [s \in Seq_ |-> -1]
    /\ pos = [s \in Seq_ |-> 0] /\ shown = Nothing /\ marker = 0 /\ lastSeen = 0 /\ fed = {}
    /\ moves = 0 /\ faults = 0

(* Variant with a bug: an increment replaces the shown count.                *)
UpsertReplaces(feature, frame) ==
    IF \/ frame.window < feature.window
       \/ frame.window = feature.window /\ frame.offset <= feature.offset
    THEN feature
    ELSE frame

(* The collections after a frame.  An aggregate frame of an older window, or
   of the shown window but not beyond the shown offset, is dropped; one of the
   shown window is added to it; one of a later window replaces it.          *)
Upsert(feature, frame) ==
    IF \/ frame.window < feature.window
       \/ frame.window = feature.window /\ frame.offset <= feature.offset
    THEN feature
    ELSE [frame EXCEPT !.count = @ + IF frame.window = feature.window THEN feature.count ELSE 0]

Upserts(feature, frames) == FoldLeft(Upsert, feature, frames)

(* The i-th of some windows, from the earliest.                              *)
WindowAt(windows, i) == CHOOSE w \in windows : Cardinality({v \in windows : v < w}) = i - 1

WindowFrame(w, entries) ==
    LET group == {e \in entries : Window[e] = w}
    IN  [window |-> w, offset |-> Max(group), count |-> Cardinality(group)]

(* The aggregate frames the backend makes of entries lo + 1 .. hi: one for
   each window, in the order of the windows.                                *)
AggregateFrames(lo, hi) ==
    LET windows == {Window[e] : e \in lo + 1 .. hi}
    IN  [i \in 1 .. Cardinality(windows) |-> WindowFrame(WindowAt(windows, i), lo + 1 .. hi)]

(* The subscription held is closed and a timer set.  st is the subscriptions
   as the failure leaves them.                                              *)
Reconnect(st) ==
    /\ stream' = [s \in Seq_ |-> IF s = sub /\ st[s] \in {"opening", "open"} THEN "closed" ELSE st[s]]
    /\ sub' = 0 /\ status' = "reconnecting" /\ timer' = "set"

(* scheduleReconnect: nothing at all while a timer is pending.              *)
ScheduleReconnect(st) ==
    IF timer # "off" THEN stream' = st /\ UNCHANGED <<sub, status, timer>> ELSE Reconnect(st)

Fault == faults < MaxFaults /\ faults' = faults + 1

(* refreshFromViewport for the view v.  Its key is the one asked for already,
   and the reference does not say that the stream was lost: return, with the
   timer cancelled.                                                         *)
SameView(v) ==
    /\ v = asked /\ statusRef \notin {"reconnecting", "closed"}
    /\ timer' = "off"
    /\ UNCHANGED <<requestVars, status, stream, sub, pos, drawnVars>>

(* Otherwise: a new request number, empty collections, the pending channel
   request aborted, a new one sent.  A token request on its way is not aborted.
   fetch rejects with the reason of the abort, the string "replaced", which the
   handler of the aborted request does not take for an AbortError: it goes on to
   its last line and schedules a reconnection.                              *)
NewRequest(v) ==
    /\ v # asked \/ statusRef \in {"reconnecting", "closed"}
    /\ asked' = v /\ seq' = seq + 1 /\ of' = [of EXCEPT ![seq + 1] = v]
    /\ creating' = seq + 1
    /\ IF creating # 0 THEN Reconnect(stream)
       ELSE status' = "creating" /\ timer' = "off" /\ UNCHANGED <<stream, sub>>
    /\ shown' = Nothing /\ marker' = 0 /\ lastSeen' = 0 /\ fed' = {}
    /\ UNCHANGED <<minting, pos>>

(* Variant with a bug: another initial offset keeps the cursor id.           *)
RefreshKeepsCursor(v) ==
    /\ view' = v /\ UNCHANGED cursor
    /\ SameView(v) \/ NewRequest(v)
    /\ UNCHANGED <<mounted, statusRef, used, via>>

(* refreshFromViewport: the timer is cleared first.                         *)
Refresh(v) ==
    /\ view' = v
    /\ cursor' = IF cursor.offset # ReplayOffset[v]
                 THEN [id |-> cursor.id + 1, offset |-> ReplayOffset[v]] ELSE cursor
    /\ SameView(v) \/ NewRequest(v)
    /\ UNCHANGED <<mounted, statusRef, used, via>>

(* The map was moved, loaded, or its options changed.                       *)
Move(v) ==
    /\ mounted /\ moves < MaxMoves /\ moves' = moves + 1
    /\ Refresh(v) /\ UNCHANGED faults

(* The reconnect timer: a refresh, which returns when the map is gone.  A channel
   request that is still on its way after 1.2 s counts as a fault.          *)
TimerFires ==
    /\ timer = "due"
    /\ \/ /\ mounted /\ Refresh(view)
          /\ IF creating # 0 THEN Fault ELSE UNCHANGED faults
       \/ /\ ~mounted /\ timer' = "off"
          /\ UNCHANGED <<mounted, view, cursor, requestVars, status, statusRef, streamVars, pos, drawnVars, faults>>
    /\ UNCHANGED moves

(* The effect after a render copies the status.                             *)
Commit ==
    /\ (mounted /\ statusRef # status) \/ timer = "set"
    /\ statusRef' = IF mounted THEN status ELSE statusRef
    /\ timer' = IF timer = "set" THEN "due" ELSE timer
    /\ UNCHANGED <<mounted, view, requestVars, status, streamVars, cursor, pos, drawnVars, moves, faults>>

(* Variant with a bug: the previous subscription is only forgotten.          *)
SubscribeForgets(s) ==
    /\ stream' = [stream EXCEPT ![s] = "opening"]
    /\ sub' = s /\ status' = "connecting"
    /\ via' = [via EXCEPT ![s] = cursor.id]
    /\ used' = used \cup {<<cursor.id, ReplayOffset[of[s]]>>}

(* The previous subscription is closed and one for request s opened, under
   the cursor of now and the offset the request was made with.              *)
Subscribe(s) ==
    /\ stream' = [t \in Seq_ |-> IF t = s THEN "opening"
                                 ELSE IF t = sub /\ t \in Live THEN "closed" ELSE stream[t]]
    /\ sub' = s /\ status' = "connecting"
    /\ via' = [via EXCEPT ![s] = cursor.id]
    /\ used' = used \cup {<<cursor.id, ReplayOffset[of[s]]>>}

(* The channel was created: features outside the request's bounds or too old
   are removed from the collections, but stay in lastSeen; then the token is
   asked for, or the stream.                                                *)
ChannelCreated ==
    /\ creating # 0 /\ creating' = 0
    /\ \E goneShown, goneMarker \in BOOLEAN :
          /\ shown' = IF goneShown THEN Nothing ELSE shown
          /\ marker' = IF goneMarker THEN 0 ELSE marker
          /\ fed' = IF goneShown THEN {f \in fed : of[f[1]] \notin Aggregated} ELSE fed
    /\ IF AuthRequired
       THEN minting' = minting \cup {creating} /\ UNCHANGED <<streamVars, status>>
       ELSE Subscribe(creating) /\ UNCHANGED minting
    /\ UNCHANGED <<mounted, view, asked, seq, of, statusRef, timer, cursor, pos, lastSeen, moves, faults>>

(* Variant with a bug: a channel request that timed out is not retried.      *)
ChannelFailsSilently ==
    /\ creating # 0 /\ creating' = 0 /\ Fault
    /\ UNCHANGED <<mounted, view, asked, seq, of, minting, status, statusRef, timer, streamVars, cursor, pos, drawnVars, moves>>

(* The channel request timed out, was refused or could not be read.         *)
ChannelFails ==
    /\ creating # 0 /\ creating' = 0 /\ Fault
    /\ ScheduleReconnect(stream)
    /\ UNCHANGED <<mounted, view, asked, seq, of, minting, statusRef, used, via, cursor, pos, drawnVars, moves>>

(* Variant with a bug: the answer to an overtaken request is used.           *)
TokenMintedLate(s) ==
    /\ s \in minting /\ minting' = minting \ {s}
    /\ Subscribe(s)
    /\ UNCHANGED <<mounted, view, asked, seq, of, creating, statusRef, timer, cursor, pos, drawnVars, moves, faults>>

(* The token of request s arrived; only the latest request subscribes.      *)
TokenMinted(s) ==
    /\ s \in minting /\ minting' = minting \ {s}
    /\ IF s = seq THEN Subscribe(s) ELSE UNCHANGED <<streamVars, status>>
    /\ UNCHANGED <<mounted, view, asked, seq, of, creating, statusRef, timer, cursor, pos, drawnVars, moves, faults>>

(* Its failure is handled whether or not the request is the latest.         *)
TokenFails(s) ==
    /\ s \in minting /\ minting' = minting \ {s} /\ Fault
    /\ ScheduleReconnect(stream)
    /\ UNCHANGED <<mounted, view, asked, seq, of, creating, statusRef, used, via, cursor, pos, drawnVars, moves>>

(* GET /stream was answered.  The backend goes on from the offset its cursor
   holds, which may be behind what earlier streams delivered under it.      *)
StreamOpens(s) ==
    /\ stream[s] = "opening"
    /\ stream' = [stream EXCEPT ![s] = "open"] /\ status' = "open"
    /\ \E p \in 0 .. Max({pos[t] : t \in {t \in Seq_ : via[t] = via[s]}}) : pos' = [pos EXCEPT ![s] = p]
    /\ UNCHANGED <<mounted, view, requestVars, statusRef, timer, sub, used, via, cursor, drawnVars, moves, faults>>

(* The stream was refused, or broke, or the backend closed it.              *)
StreamFails(s) ==
    /\ s \in Live /\ Fault
    /\ ScheduleReconnect([stream EXCEPT ![s] = "failed"])
    /\ UNCHANGED <<mounted, view, requestVars, statusRef, used, via, cursor, pos, drawnVars, moves>>

(* Variant with a bug: every event frame moves the asset's feature.          *)
FramesUnordered(s) ==
    /\ stream[s] = "open"
    /\ \E hi \in pos[s] + 1 .. Entries :
          /\ pos' = [pos EXCEPT ![s] = hi]
          /\ fed' = fed \cup ({s} \X (pos[s] + 1 .. hi))
          /\ IF of[s] \in Aggregated
             THEN /\ shown' = Upserts(shown, AggregateFrames(pos[s], hi))
                  /\ UNCHANGED <<marker, lastSeen>>
             ELSE /\ marker' = Ts[hi] /\ lastSeen' = Ts[hi]
                  /\ UNCHANGED shown
    /\ UNCHANGED <<mounted, view, requestVars, status, statusRef, timer, streamVars, cursor, moves, faults>>

(* Frames of the next entries arrive on an open subscription, which need not
   be the latest request's: the old one is closed only when the new one is
   made.                                                                    *)
Frames(s) ==
    /\ stream[s] = "open"
    /\ \E hi \in pos[s] + 1 .. Entries :
          /\ pos' = [pos EXCEPT ![s] = hi]
          /\ fed' = fed \cup ({s} \X (pos[s] + 1 .. hi))
          /\ IF of[s] \in Aggregated
             THEN /\ shown' = Upserts(shown, AggregateFrames(pos[s], hi))
                  /\ UNCHANGED <<marker, lastSeen>>
             ELSE LET newest == Max({Ts[e] : e \in pos[s] + 1 .. hi})
                  IN  /\ lastSeen' = Max({lastSeen, newest})
                      /\ marker' = IF newest > lastSeen THEN newest ELSE marker
                      /\ UNCHANGED shown
    /\ UNCHANGED <<mounted, view, requestVars, status, statusRef, timer, streamVars, cursor, moves, faults>>

(* The page is left: timer, channel request and subscription are ended, and the
   aborted request's handler sets the timer again.  A token request on its way
   goes on, and its request stays the latest one.                           *)
Unmount ==
    /\ mounted /\ mounted' = FALSE
    /\ timer' = IF creating # 0 THEN "set" ELSE "off"
    /\ creating' = 0
    /\ stream' = [s \in Seq_ |-> IF s = sub /\ s \in Live THEN "closed" ELSE stream[s]]
    /\ sub' = 0
    /\ UNCHANGED <<view, asked, seq, of, status, statusRef, minting, used, via, cursor, pos, drawnVars, moves, faults>>

Next ==
    \/ \E v \in View : Move(v)
    \/ TimerFires \/ Commit \/ ChannelCreated \/ ChannelFails \/ Unmount
    \/ \E s \in Seq_ : \/ TokenMinted(s) \/ TokenFails(s)
                       \/ StreamOpens(s) \/ StreamFails(s) \/ Frames(s)

Spec == Init /\ [][Next]_vars

(* Every request is answered or times out, renders and timers happen.  Moves,
   faults, leaving and new entries need not.                                *)
Fairness ==
    /\ WF_vars(Commit) /\ WF_vars(TimerFires) /\ WF_vars(ChannelCreated \/ ChannelFails)
    /\ \A s \in Seq_ : WF_vars(TokenMinted(s) \/ TokenFails(s)) /\ WF_vars(StreamOpens(s) \/ StreamFails(s))

RequestsTyped ==
    /\ mounted \in BOOLEAN /\ view \in View \cup {NoView} /\ asked \in View \cup {NoView}
    /\ seq \in 0 .. MaxSeq /\ of \in [Seq_ -> View \cup {NoView}]
    /\ {status, statusRef} \subseteq {"idle", "creating", "connecting", "open", "reconnecting"}
    /\ timer \in {"off", "set", "due"} /\ creating \in {0, seq} /\ minting \subseteq 1 .. seq
    /\ stream \in [Seq_ -> {"none", "opening", "open", "closed", "failed"}] /\ sub \in 0 .. seq
    /\ moves \in 0 .. MaxMoves /\ faults \in 0 .. MaxFaults

(* Type invariant. *)
TypeOK ==
    /\ RequestsTyped
    /\ cursor \in [id : 0 .. MaxMoves, offset : {ReplayOffset[v] : v \in View}]
    /\ used \subseteq (0 .. MaxMoves) \X {ReplayOffset[v] : v \in View}
    /\ via \in [Seq_ -> -1 .. MaxMoves] /\ pos \in [Seq_ -> 0 .. Entries]
    /\ shown \in [window : Nat, offset : 0 .. Entries, count : Nat]
    /\ marker \in Nat /\ lastSeen \in Nat /\ fed \subseteq Seq_ \X (1 .. Entries)

(* At most one subscription is alive, and it is the one subRef holds, so that
   it can be closed: through overtaken requests, failures handled twice and
   the page being left.                                                     *)
OneStream == Live \subseteq {sub}

Settled == creating = 0 /\ seq \notin minting /\ timer = "off"

(* The subscription held is the latest request's, unless that request is still
   on its way: the answer to an overtaken one never replaces it.            *)
LatestWins == sub \in {0, seq} \/ creating = seq \/ seq \in minting

(* A request comes from a move or a timer, a timer from a fault or a request that
   a move aborted; while one is set, no overtaken request's subscription is held. *)
TimerHolds ==
    /\ timer # "off" => sub \in {0, seq}
    /\ seq + (IF timer # "off" /\ mounted THEN 1 ELSE 0) <= 2 * moves + faults

(* Inductive: what the proofs carry from step to step.                       *)
IInv == RequestsTyped /\ TimerHolds /\ OneStream /\ LatestWins

(* How the client can be left without a stream and with nothing under way: the
   stream failed while a reconnect timer was pending, and the timer's refresh
   then found its key asked for and the status not lost; or a refresh of the
   same view cancelled the timer before statusRef said "reconnecting".      *)
DeadEnd ==
    \/ sub = seq /\ sub # 0 /\ stream[sub] = "failed"
    \/ sub = 0 /\ status = "reconnecting"

(* A cursor id is used with one initial offset only: the saved positions of
   another replay choice never take precedence over the one asked for.      *)
CursorKeepsOffset == \A u, w \in used : u[1] = w[1] => u[2] = w[2]

FedTo(views) == {f \in fed : of[f[1]] \in views}

(* While one stream has fed the collection since it was cleared, the aggregate
   drawn is the latest window delivered, with exactly its delivered entries,
   however reads cut the windows and however late events arrive.  (When the
   old stream delivered during the change of views, chunks of the two overlap
   and entries are counted twice or not at all.)                            *)
CountExact ==
    LET f == FedTo(Aggregated)
        entries == {x[2] : x \in f}
        latest == Max({Window[e] : e \in entries})
        group == {e \in entries : Window[e] = latest}
    IN  Cardinality({x[1] : x \in f}) = 1 =>
            shown = [window |-> latest, offset |-> Max(group), count |-> Cardinality(group)]

(* The asset is drawn where its newest event delivered since the clear was,
   though two streams deliver in any order, repeat entries and events are late. *)
NewestDrawn ==
    LET f == FedTo(View \ Aggregated)
    IN  /\ lastSeen = Max({0} \cup {Ts[x[2]] : x \in f})
        /\ marker \in {0, lastSeen}

(* The cursor's offset is that of the view asked for, which the request that
   may subscribe was made for; earlier ids are not used again.               *)
CursorOfAsked ==
    /\ cursor.id \in Nat
    /\ \A u \in used : u[1] \in 0 .. cursor.id /\ (u[1] = cursor.id => u[2] = cursor.offset)
    /\ seq > 0 => asked = of[seq] /\ cursor.offset = ReplayOffset[asked]

(* Requests up to the latest were made for a view, and each subscribes once:
   one on its way has no subscription yet.                                   *)
SubscribedOnce ==
    /\ seq > 0 => view \in View
    /\ timer # "off" => seq > 0
    /\ \A s \in Seq_ : IF s <= seq THEN of[s] \in View ELSE stream[s] = "none"
    /\ creating \notin minting
    /\ \A s \in {creating} \cup minting : s \in Seq_ => stream[s] = "none"

(* What was fed came from subscriptions that were opened, up to their
   positions.                                                                *)
FedInOrder ==
    /\ pos \in [Seq_ -> 0 .. Entries] /\ fed \subseteq Seq_ \X (1 .. Entries)
    /\ \A f \in fed : stream[f[1]] \notin {"none", "opening"} /\ f[2] <= pos[f[1]]

(* The aggregate drawn of some entries.                                      *)
Drawn(entries) == WindowFrame(Max({Window[e] : e \in entries}), entries)

(* CountExact, with what it needs of a collection nothing was fed to.        *)
Counted ==
    LET f == FedTo(Aggregated)
    IN  /\ f = {} => shown = Nothing
        /\ f # {} /\ (\A x, y \in f : x[1] = y[1]) => shown = Drawn({x[2] : x \in f})

(* Inductive, given IInv: the cursor, and what is fed and drawn.             *)
DrawnInv ==
    /\ CursorOfAsked /\ CursorKeepsOffset
    /\ SubscribedOnce /\ FedInOrder /\ Counted /\ NewestDrawn

(* Whatever the order of moves, failures, late tokens, aborted requests and
   timers, a client whose map asked for a channel has a stream again, or has come
   to one of the two dead ends: there is no third.  Only so many answers may take
   longer than the timer, which aborts the request it overtakes.            *)
Settles == seq > 0 /\ mounted ~> ~mounted \/ Live # {} \/ (DeadEnd /\ Settled)

(* docs/ARCHITECTURE.md:262: the client "waits briefly, creates a fresh channel
   and token when required, and reconnects".  It comes to a dead end instead. *)
Reconnects == seq > 0 /\ mounted ~> ~mounted \/ Live # {}
=============================================================================

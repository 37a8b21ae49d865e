------------------------ MODULE ViewportClientProofs ------------------------
(***************************************************************************)
(* Proofs about ViewportClient, for any views, moves, faults, entries and     *)
(* windows: one subscription at a time, and it is the latest request's; the   *)
(* cursors it asks with; what is drawn of the frames delivered.               *)
(*                                                                           *)
(* What the frames of one answer add up to needs induction over the naturals, *)
(* which is stated for a set instead of a predicate (NatInduct).              *)
(***************************************************************************)
EXTENDS ViewportClient, FiniteSetTheorems, WellFoundedInduction, TLAPS

LEMMA InitInv == Init => IInv
<1> SUFFICES ASSUME Init PROVE IInv
    OBVIOUS
<1>1. MaxSeq \in Nat /\ MaxMoves \in Nat /\ MaxFaults \in Nat
    BY ViewAssumption DEF MaxSeq
<1>2. RequestsTyped
    BY <1>1 DEF Init, RequestsTyped
<1>3. TimerHolds /\ OneStream /\ LatestWins
    BY DEF Init, TimerHolds, OneStream, LatestWins, Live
<1> QED
    BY <1>2, <1>3 DEF IInv

(* The reconnection after a failure: it closes what is held, or a timer set
   earlier stands.                                                          *)
LEMMA ScheduleKeeps ==
    ASSUME IInv, Fault, NEW st \in [Seq_ -> {"none", "opening", "open", "closed", "failed"}],
           \A t \in Seq_ : st[t] \in {stream[t], "failed"},
           ScheduleReconnect(st),
           UNCHANGED <<seq, moves>>
    PROVE  /\ stream' \in [Seq_ -> {"none", "opening", "open", "closed", "failed"}]
           /\ sub' \in {0, sub} /\ Live' \subseteq {sub'} /\ timer' \in {"off", "set", "due"}
           /\ timer' # "off" /\ status' \in {status, "reconnecting"}
           /\ faults' \in 0 .. MaxFaults /\ TimerHolds' /\ sub' \in {0, seq}
<1>1. MaxFaults \in Nat /\ faults' \in 0 .. MaxFaults /\ faults' = faults + 1 /\ faults \in Nat
    BY ViewAssumption DEF Fault, IInv, RequestsTyped
<1>2. seq \in Nat /\ moves \in Nat /\ sub \in Nat /\ seq' = seq /\ moves' = moves
    BY DEF IInv, RequestsTyped
<1>3. \A t \in Seq_ : t # sub => stream[t] \notin {"opening", "open"}
    BY DEF IInv, OneStream, Live
<1>4. CASE timer # "off"
    <2>1. stream' = st /\ sub' = sub /\ status' = status /\ timer' = timer
        BY <1>4 DEF ScheduleReconnect
    <2>2. Live' \subseteq {sub'}
        BY <1>3, <2>1 DEF Live
    <2>3. sub \in {0, seq} /\ seq <= 2 * moves + faults
        BY <1>1, <1>2, <1>4 DEF IInv, TimerHolds
    <2>4. TimerHolds'
        BY <1>1, <1>2, <2>1, <2>3 DEF TimerHolds
    <2> QED
        BY <1>1, <1>4, <2>1, <2>2, <2>3, <2>4 DEF IInv, RequestsTyped
<1>5. CASE timer = "off"
    <2>1. /\ stream' = [t \in Seq_ |-> IF t = sub /\ st[t] \in {"opening", "open"} THEN "closed" ELSE st[t]]
          /\ sub' = 0 /\ status' = "reconnecting" /\ timer' = "set"
        BY <1>5 DEF ScheduleReconnect, Reconnect
    <2>2. Live' \subseteq {sub'}
        BY <1>3, <2>1 DEF Live
    <2>3. seq <= 2 * moves + faults
        BY <1>1, <1>2 DEF IInv, TimerHolds
    <2>4. TimerHolds'
        BY <1>1, <1>2, <2>1, <2>3 DEF TimerHolds
    <2>5. stream' \in [Seq_ -> {"none", "opening", "open", "closed", "failed"}]
        BY <2>1
    <2> QED
        BY <1>1, <2>1, <2>2, <2>4, <2>5
<1> QED
    BY <1>4, <1>5

(* A new request holds on to the subscription, or the handler of the request it
   aborts closes it.                                                        *)
LEMMA RequestKeeps ==
    ASSUME IInv, NEW v, NewRequest(v)
    PROVE  /\ stream' \in [Seq_ -> {"none", "opening", "open", "closed", "failed"}]
           /\ sub' \in {0, sub} /\ Live' \subseteq {sub'} /\ timer' \in {"off", "set"}
           /\ status' \in {"creating", "reconnecting"}
<1>1. stream \in [Seq_ -> {"none", "opening", "open", "closed", "failed"}]
    BY DEF IInv, RequestsTyped
<1>2. \A t \in Seq_ : t # sub => stream[t] \notin {"opening", "open"}
    BY DEF IInv, OneStream, Live
<1>3. CASE creating # 0
    <2>1. /\ stream' = [t \in Seq_ |-> IF t = sub /\ stream[t] \in {"opening", "open"} THEN "closed" ELSE stream[t]]
          /\ sub' = 0 /\ status' = "reconnecting" /\ timer' = "set"
        BY <1>3 DEF NewRequest, Reconnect
    <2>2. Live' \subseteq {sub'}
        BY <1>2, <2>1 DEF Live
    <2> QED
        BY <1>1, <2>1, <2>2
<1>4. CASE creating = 0
    <2>1. stream' = stream /\ sub' = sub /\ status' = "creating" /\ timer' = "off"
        BY <1>4 DEF NewRequest
    <2>2. Live' \subseteq {sub'}
        BY <2>1 DEF IInv, OneStream, Live
    <2> QED
        BY <1>1, <2>1, <2>2
<1> QED
    BY <1>3, <1>4

(* A refresh, after a move or the timer: what there was stays, or a new request
   begins.                                                                  *)
LEMMA RefreshKeeps ==
    ASSUME IInv, NEW v \in View \cup {NoView}, Refresh(v),
           NEW n \in 0 .. MaxMoves, moves' = n, NEW g \in 0 .. MaxFaults, faults' = g,
           seq + 1 <= 2 * n + g, creating # 0 => seq + 2 <= 2 * n + g
    PROVE  IInv'
<1>1. MaxSeq \in Nat /\ MaxMoves \in Nat /\ MaxFaults \in Nat /\ MaxSeq = 2 * MaxMoves + MaxFaults
    BY ViewAssumption DEF MaxSeq
<1>2. /\ seq \in Nat /\ sub \in 0 .. seq
      /\ minting \subseteq 1 .. seq /\ of \in [Seq_ -> View \cup {NoView}] /\ creating \in {0, seq}
      /\ stream \in [Seq_ -> {"none", "opening", "open", "closed", "failed"}]
    BY <1>1 DEF IInv, RequestsTyped
<1>3. /\ view' = v /\ mounted' = mounted /\ statusRef' = statusRef
    BY DEF Refresh
<1>6. seq + 1 \in 0 .. MaxSeq /\ seq <= 2 * n + g
    BY <1>1, <1>2
<1>7. CASE SameView(v)
    <2>1. /\ asked' = asked /\ seq' = seq /\ of' = of /\ creating' = creating /\ minting' = minting /\ status' = status
          /\ timer' = "off" /\ stream' = stream /\ sub' = sub
        BY <1>7 DEF SameView, requestVars
    <2>2. RequestsTyped'
        BY <1>2, <1>3, <2>1 DEF IInv, RequestsTyped
    <2>3. LatestWins' /\ OneStream'
        BY <1>3, <2>1 DEF IInv, LatestWins, OneStream, Live
    <2>4. TimerHolds'
        BY <1>2, <1>6, <2>1 DEF TimerHolds
    <2> QED
        BY <2>2, <2>3, <2>4 DEF IInv
<1>8. CASE NewRequest(v)
    <2>1. /\ asked' = v /\ seq' = seq + 1 /\ of' = [of EXCEPT ![seq + 1] = v] /\ creating' = seq + 1
          /\ minting' = minting
        BY <1>8 DEF NewRequest
    <2>2. /\ stream' \in [Seq_ -> {"none", "opening", "open", "closed", "failed"}]
          /\ sub' \in {0, sub} /\ Live' \subseteq {sub'} /\ timer' \in {"off", "set"}
          /\ status' \in {"creating", "reconnecting"}
        BY <1>8, RequestKeeps
    <2>3. timer' # "off" => creating # 0 /\ sub' = 0
        BY <1>8 DEF NewRequest, Reconnect
    <2>4. seq' \in 0 .. MaxSeq
        BY <1>6, <2>1
    <2>5. minting' \subseteq 1 .. seq' /\ sub' \in 0 .. seq'
        BY <1>2, <2>1, <2>2
    <2>6. of' \in [Seq_ -> View \cup {NoView}] /\ creating' \in {0, seq'}
        BY <1>2, <2>1
    <2>7. RequestsTyped'
        BY <1>3, <2>1, <2>2, <2>4, <2>5, <2>6 DEF IInv, RequestsTyped
    <2>8. LatestWins' /\ OneStream'
        BY <2>1, <2>2 DEF LatestWins, OneStream
    <2>9. TimerHolds'
        BY <1>2, <2>1, <2>3 DEF TimerHolds
    <2> QED
        BY <2>7, <2>8, <2>9 DEF IInv
<1> QED
    BY <1>7, <1>8 DEF Refresh

(* The latest request subscribes: what is held is closed.                    *)
LEMMA SubscribeKeeps ==
    ASSUME IInv, NEW s \in Seq_, s = seq, Subscribe(s)
    PROVE  /\ stream' \in [Seq_ -> {"none", "opening", "open", "closed", "failed"}]
           /\ Live' \subseteq {sub'} /\ sub' = seq /\ status' = "connecting"
<1>1. /\ stream' = [t \in Seq_ |-> IF t = s THEN "opening"
                                   ELSE IF t = sub /\ t \in Live THEN "closed" ELSE stream[t]]
      /\ sub' = s /\ status' = "connecting"
    BY DEF Subscribe
<1>2. \A t \in Seq_ : t # sub => stream[t] \notin {"opening", "open"}
    BY DEF IInv, OneStream, Live
<1>3. stream \in [Seq_ -> {"none", "opening", "open", "closed", "failed"}]
    BY DEF IInv, RequestsTyped
<1>4. stream' \in [Seq_ -> {"none", "opening", "open", "closed", "failed"}]
    BY <1>1, <1>3
<1>5. ASSUME NEW t \in Seq_, t # s PROVE stream'[t] \notin {"opening", "open"}
    BY <1>1, <1>2, <1>5 DEF Live
<1>6. Live' \subseteq {sub'}
    BY <1>1, <1>5 DEF Live
<1> QED
    BY <1>1, <1>4, <1>6

LEMMA MoveInv == ASSUME IInv, NEW v \in View, Move(v) PROVE IInv'
<1>1. Refresh(v) /\ faults' = faults /\ moves' = moves + 1 /\ moves < MaxMoves
    BY DEF Move
<1>2. /\ MaxMoves \in Nat /\ moves \in Nat /\ faults \in 0 .. MaxFaults /\ faults \in Nat /\ seq \in Nat
    BY ViewAssumption DEF IInv, RequestsTyped
<1>3. seq <= 2 * moves + faults
    BY <1>2 DEF IInv, TimerHolds
<1>4. moves + 1 \in 0 .. MaxMoves /\ seq + 2 <= 2 * (moves + 1) + faults /\ seq + 1 <= 2 * (moves + 1) + faults
    BY <1>1, <1>2, <1>3
<1> QED
    BY <1>1, <1>2, <1>4, RefreshKeeps

LEMMA TimerFiresInv == ASSUME IInv, TimerFires PROVE IInv'
<1>1. timer = "due" /\ moves' = moves
    BY DEF TimerFires
<1>2. /\ moves \in 0 .. MaxMoves /\ view \in View \cup {NoView} /\ faults \in 0 .. MaxFaults
      /\ moves \in Nat /\ faults \in Nat /\ MaxFaults \in Nat /\ seq \in Nat
    BY ViewAssumption DEF IInv, RequestsTyped
<1>3. CASE mounted /\ Refresh(view) /\ (IF creating # 0 THEN Fault ELSE UNCHANGED faults)
    <2>1. seq + 1 <= 2 * moves + faults
        BY <1>1, <1>2, <1>3 DEF IInv, TimerHolds
    <2>2. faults' \in 0 .. MaxFaults /\ (creating # 0 => faults' = faults + 1) /\ (creating = 0 => faults' = faults)
        BY <1>2, <1>3 DEF Fault
    <2>3. seq + 1 <= 2 * moves + faults' /\ (creating # 0 => seq + 2 <= 2 * moves + faults')
        <3>1. CASE creating = 0
            BY <1>2, <2>1, <2>2, <3>1
        <3>2. CASE creating # 0
            BY <1>2, <2>1, <2>2, <3>2
        <3> QED
            BY <3>1, <3>2
    <2> QED
        BY <1>1, <1>2, <1>3, <2>2, <2>3, RefreshKeeps
<1>4. CASE /\ ~mounted /\ timer' = "off"
           /\ UNCHANGED <<mounted, view, cursor, requestVars, status, statusRef, streamVars, pos, drawnVars, faults>>
    <2>1. RequestsTyped'
        BY <1>1, <1>4 DEF IInv, RequestsTyped, requestVars, streamVars
    <2>2. TimerHolds' /\ LatestWins'
        BY <1>1, <1>2, <1>4 DEF IInv, TimerHolds, LatestWins, requestVars, streamVars
    <2>3. OneStream'
        BY <1>4 DEF IInv, OneStream, Live, streamVars
    <2> QED
        BY <2>1, <2>2, <2>3 DEF IInv
<1> QED
    BY <1>3, <1>4 DEF TimerFires

LEMMA CommitInv == ASSUME IInv, Commit PROVE IInv'
<1>1. /\ timer' = (IF timer = "set" THEN "due" ELSE timer)
      /\ statusRef' \in {status, statusRef}
      /\ UNCHANGED <<mounted, view, requestVars, status, streamVars, moves, faults>>
    BY DEF Commit
<1>2. RequestsTyped'
    BY <1>1 DEF IInv, RequestsTyped, requestVars, streamVars
<1>3. TimerHolds' /\ LatestWins'
    BY <1>1 DEF IInv, RequestsTyped, TimerHolds, LatestWins, requestVars, streamVars
<1>4. OneStream'
    BY <1>1 DEF IInv, OneStream, Live, streamVars
<1> QED
    BY <1>2, <1>3, <1>4 DEF IInv

LEMMA ChannelCreatedInv == ASSUME IInv, ChannelCreated PROVE IInv'
<1>1. /\ creating # 0 /\ creating' = 0
      /\ UNCHANGED <<mounted, view, asked, seq, of, statusRef, timer, moves, faults>>
    BY DEF ChannelCreated
<1>2. seq \in Nat /\ creating = seq /\ seq \in Seq_ /\ minting \subseteq 1 .. seq
    BY <1>1, ViewAssumption DEF IInv, RequestsTyped, Seq_, MaxSeq
<1>3. CASE AuthRequired
    <2>1. minting' = minting \cup {seq} /\ UNCHANGED <<stream, sub, status>>
        BY <1>2, <1>3 DEF ChannelCreated, streamVars
    <2>2. minting' \subseteq 1 .. seq'
        BY <1>1, <1>2, <2>1 DEF Seq_
    <2>3. RequestsTyped'
        BY <1>1, <2>1, <2>2 DEF IInv, RequestsTyped
    <2>4. TimerHolds' /\ LatestWins'
        BY <1>1, <2>1 DEF IInv, TimerHolds, LatestWins
    <2>5. OneStream'
        BY <2>1 DEF IInv, OneStream, Live
    <2> QED
        BY <2>3, <2>4, <2>5 DEF IInv
<1>4. CASE ~AuthRequired
    <2>1. Subscribe(seq) /\ minting' = minting
        BY <1>2, <1>4 DEF ChannelCreated
    <2>2. /\ stream' \in [Seq_ -> {"none", "opening", "open", "closed", "failed"}]
          /\ Live' \subseteq {sub'} /\ sub' = seq /\ status' = "connecting"
        BY <1>2, <2>1, SubscribeKeeps
    <2>3. RequestsTyped'
        BY <1>1, <1>2, <2>1, <2>2 DEF IInv, RequestsTyped
    <2>4. TimerHolds' /\ LatestWins' /\ OneStream'
        BY <1>1, <2>2 DEF IInv, TimerHolds, LatestWins, OneStream
    <2> QED
        BY <2>3, <2>4 DEF IInv
<1> QED
    BY <1>3, <1>4

LEMMA ChannelFailsInv == ASSUME IInv, ChannelFails PROVE IInv'
<1>1. /\ creating' = 0 /\ Fault /\ ScheduleReconnect(stream)
      /\ UNCHANGED <<mounted, view, asked, seq, of, minting, statusRef, moves>>
    BY DEF ChannelFails
<1>2. /\ stream' \in [Seq_ -> {"none", "opening", "open", "closed", "failed"}]
      /\ sub' \in {0, sub} /\ Live' \subseteq {sub'} /\ timer' \in {"off", "set", "due"}
      /\ status' \in {status, "reconnecting"} /\ faults' \in 0 .. MaxFaults /\ TimerHolds' /\ sub' \in {0, seq}
    <2>1. stream \in [Seq_ -> {"none", "opening", "open", "closed", "failed"}]
        BY DEF IInv, RequestsTyped
    <2> QED
        BY <1>1, <2>1, ScheduleKeeps
<1>3. RequestsTyped'
    BY <1>1, <1>2 DEF IInv, RequestsTyped
<1>4. LatestWins' /\ OneStream'
    BY <1>1, <1>2 DEF LatestWins, OneStream
<1> QED
    BY <1>2, <1>3, <1>4 DEF IInv

LEMMA TokenMintedInv == ASSUME IInv, NEW s \in Seq_, TokenMinted(s) PROVE IInv'
<1>1. /\ s \in minting /\ minting' = minting \ {s}
      /\ UNCHANGED <<mounted, view, asked, seq, of, creating, statusRef, timer, moves, faults>>
    BY DEF TokenMinted
<1>2. seq \in Nat /\ minting' \subseteq 1 .. seq'
    BY <1>1, ViewAssumption DEF IInv, RequestsTyped, MaxSeq
<1>3. CASE s = seq
    <2>1. Subscribe(s)
        BY <1>3 DEF TokenMinted
    <2>2. /\ stream' \in [Seq_ -> {"none", "opening", "open", "closed", "failed"}]
          /\ Live' \subseteq {sub'} /\ sub' = seq /\ status' = "connecting"
        BY <1>3, <2>1, SubscribeKeeps
    <2>3. RequestsTyped'
        BY <1>1, <1>2, <2>2 DEF IInv, RequestsTyped
    <2>4. TimerHolds' /\ LatestWins' /\ OneStream'
        BY <1>1, <2>2 DEF IInv, TimerHolds, LatestWins, OneStream
    <2> QED
        BY <2>3, <2>4 DEF IInv
<1>4. CASE s # seq
    <2>1. UNCHANGED <<stream, sub, status>>
        BY <1>4 DEF TokenMinted, streamVars
    <2>2. RequestsTyped'
        BY <1>1, <1>2, <2>1 DEF IInv, RequestsTyped
    <2>3. TimerHolds' /\ LatestWins'
        BY <1>1, <1>4, <2>1 DEF IInv, TimerHolds, LatestWins
    <2>4. OneStream'
        BY <2>1 DEF IInv, OneStream, Live
    <2> QED
        BY <2>2, <2>3, <2>4 DEF IInv
<1> QED
    BY <1>3, <1>4

LEMMA TokenFailsInv == ASSUME IInv, NEW s \in Seq_, TokenFails(s) PROVE IInv'
<1>1. /\ minting' = minting \ {s} /\ Fault /\ ScheduleReconnect(stream)
      /\ UNCHANGED <<mounted, view, asked, seq, of, creating, statusRef, moves>>
    BY DEF TokenFails
<1>2. /\ stream' \in [Seq_ -> {"none", "opening", "open", "closed", "failed"}]
      /\ sub' \in {0, sub} /\ Live' \subseteq {sub'} /\ timer' \in {"off", "set", "due"}
      /\ status' \in {status, "reconnecting"} /\ faults' \in 0 .. MaxFaults /\ TimerHolds' /\ sub' \in {0, seq}
    <2>1. stream \in [Seq_ -> {"none", "opening", "open", "closed", "failed"}]
        BY DEF IInv, RequestsTyped
    <2> QED
        BY <1>1, <2>1, ScheduleKeeps
<1>3. RequestsTyped'
    <2>1. minting' \subseteq 1 .. seq'
        <3>1. minting' \subseteq minting /\ seq' = seq
            BY <1>1
        <3> QED
            BY <3>1 DEF IInv, RequestsTyped
    <2>2. faults' \in 0 .. MaxFaults /\ sub' \in {0, seq'}
        BY <1>1, <1>2
    <2> QED
        BY <1>1, <1>2, <2>1, <2>2 DEF IInv, RequestsTyped
<1>4. LatestWins' /\ OneStream'
    <2>1. sub' \in {0, seq'} /\ Live' \subseteq {sub'}
        BY <1>1, <1>2
    <2> QED
        BY <2>1 DEF LatestWins, OneStream
<1> QED
    BY <1>2, <1>3, <1>4 DEF IInv

LEMMA StreamOpensInv == ASSUME IInv, NEW s \in Seq_, StreamOpens(s) PROVE IInv'
<1>1. /\ stream[s] = "opening" /\ stream' = [stream EXCEPT ![s] = "open"] /\ status' = "open"
      /\ UNCHANGED <<mounted, view, asked, seq, of, creating, minting, statusRef, timer, sub, moves, faults>>
    BY DEF StreamOpens, requestVars
<1>2. RequestsTyped'
    BY <1>1 DEF IInv, RequestsTyped
<1>3. TimerHolds' /\ LatestWins'
    BY <1>1 DEF IInv, TimerHolds, LatestWins
<1>4. Live' \subseteq Live
    <2>1. stream \in [Seq_ -> {"none", "opening", "open", "closed", "failed"}]
        BY DEF IInv, RequestsTyped
    <2>2. ASSUME NEW t \in Seq_, stream'[t] \in {"opening", "open"} PROVE stream[t] \in {"opening", "open"}
        BY <1>1, <2>1, <2>2
    <2> QED
        BY <2>2 DEF Live
<1>5. OneStream'
    BY <1>1, <1>4 DEF IInv, OneStream
<1> QED
    BY <1>2, <1>3, <1>5 DEF IInv

LEMMA StreamFailsInv == ASSUME IInv, NEW s \in Seq_, StreamFails(s) PROVE IInv'
<1>1. /\ Fault /\ ScheduleReconnect([stream EXCEPT ![s] = "failed"])
      /\ UNCHANGED <<mounted, view, asked, seq, of, creating, minting, statusRef, moves>>
    BY DEF StreamFails, requestVars
<1>2. /\ stream' \in [Seq_ -> {"none", "opening", "open", "closed", "failed"}]
      /\ sub' \in {0, sub} /\ Live' \subseteq {sub'} /\ timer' \in {"off", "set", "due"}
      /\ status' \in {status, "reconnecting"} /\ faults' \in 0 .. MaxFaults /\ TimerHolds' /\ sub' \in {0, seq}
    <2> DEFINE st == [stream EXCEPT ![s] = "failed"]
    <2>1. st \in [Seq_ -> {"none", "opening", "open", "closed", "failed"}]
        BY DEF IInv, RequestsTyped
    <2>2. \A t \in Seq_ : st[t] \in {stream[t], "failed"}
        BY DEF IInv, RequestsTyped
    <2>3. ScheduleReconnect(st) /\ UNCHANGED <<seq, moves>> /\ Fault
        BY <1>1
    <2> HIDE DEF st
    <2> QED
        BY <2>1, <2>2, <2>3, ScheduleKeeps
<1>3. RequestsTyped'
    BY <1>1, <1>2 DEF IInv, RequestsTyped
<1>4. LatestWins' /\ OneStream'
    BY <1>1, <1>2 DEF LatestWins, OneStream
<1> QED
    BY <1>2, <1>3, <1>4 DEF IInv

LEMMA FramesInv == ASSUME IInv, NEW s \in Seq_, Frames(s) PROVE IInv'
<1>1. UNCHANGED <<mounted, view, asked, seq, of, creating, minting, status, statusRef, timer, stream, sub, moves, faults>>
    BY DEF Frames, requestVars, streamVars
<1>2. RequestsTyped'
    BY <1>1 DEF IInv, RequestsTyped
<1>3. TimerHolds' /\ LatestWins'
    BY <1>1 DEF IInv, TimerHolds, LatestWins
<1>4. OneStream'
    BY <1>1 DEF IInv, OneStream, Live
<1> QED
    BY <1>2, <1>3, <1>4 DEF IInv

LEMMA UnmountInv == ASSUME IInv, Unmount PROVE IInv'
<1>1. /\ mounted' = FALSE /\ timer' \in {"off", "set"} /\ creating' = 0 /\ sub' = 0
      /\ stream' = [s \in Seq_ |-> IF s = sub /\ s \in Live THEN "closed" ELSE stream[s]]
      /\ UNCHANGED <<view, asked, seq, of, status, statusRef, minting, moves, faults>>
    BY DEF Unmount
<1>2. stream \in [Seq_ -> {"none", "opening", "open", "closed", "failed"}] /\ seq \in Nat
    BY ViewAssumption DEF IInv, RequestsTyped, MaxSeq
<1>3. stream' \in [Seq_ -> {"none", "opening", "open", "closed", "failed"}] /\ sub' \in 0 .. seq
    BY <1>1, <1>2
<1>4. RequestsTyped'
    BY <1>1, <1>3 DEF IInv, RequestsTyped
<1>9. moves \in Nat /\ faults \in Nat
    BY ViewAssumption DEF IInv, RequestsTyped
<1>5. TimerHolds' /\ LatestWins'
    BY <1>1, <1>2, <1>9 DEF IInv, TimerHolds, LatestWins
<1>6. \A t \in Seq_ : t # sub => stream[t] \notin {"opening", "open"}
    BY DEF IInv, OneStream, Live
<1>7. ASSUME NEW t \in Seq_ PROVE stream'[t] \notin {"opening", "open"}
    BY <1>1, <1>6 DEF Live
<1>8. OneStream'
    BY <1>7 DEF OneStream, Live
<1> QED
    BY <1>4, <1>5, <1>8 DEF IInv

LEMMA StutterInv == ASSUME IInv, UNCHANGED vars PROVE IInv'
<1>1. UNCHANGED <<mounted, view, asked, seq, of, creating, minting, status, statusRef, timer, stream, sub, moves, faults>>
    BY DEF vars, requestVars, streamVars
<1>2. RequestsTyped'
    BY <1>1 DEF IInv, RequestsTyped
<1>3. TimerHolds' /\ LatestWins'
    BY <1>1 DEF IInv, TimerHolds, LatestWins
<1>4. OneStream'
    BY <1>1 DEF IInv, OneStream, Live
<1> QED
    BY <1>2, <1>3, <1>4 DEF IInv

(* The inductive invariant: requests and timers are numbered by the moves and
   faults that caused them, and a pending timer belongs to no overtaken one.  *)
THEOREM Invariant == Spec => []IInv
<1>1. ASSUME IInv, [Next]_vars PROVE IInv'
    <2>1. ASSUME NEW v \in View, Move(v) PROVE IInv'
        BY <1>1, <2>1, MoveInv
    <2>2. ASSUME NEW s \in Seq_, TokenMinted(s) \/ TokenFails(s) PROVE IInv'
        BY <1>1, <2>2, TokenMintedInv, TokenFailsInv
    <2>3. ASSUME NEW s \in Seq_, StreamOpens(s) \/ StreamFails(s) \/ Frames(s) PROVE IInv'
        BY <1>1, <2>3, StreamOpensInv, StreamFailsInv, FramesInv
    <2>4. ASSUME TimerFires \/ Commit \/ ChannelCreated \/ ChannelFails \/ Unmount PROVE IInv'
        BY <1>1, <2>4, TimerFiresInv, CommitInv, ChannelCreatedInv, ChannelFailsInv, UnmountInv
    <2>5. ASSUME UNCHANGED vars PROVE IInv'
        BY <1>1, <2>5, StutterInv
    <2> QED
        BY <1>1, <2>1, <2>2, <2>3, <2>4, <2>5 DEF Next
<1> QED
    BY InitInv, <1>1, PTL DEF Spec

(* At most one subscription of the client is alive, and it is the one the
   client can close, however requests overtake each other and fail.          *)
THEOREM OneStreamTheorem == Spec => []OneStream
<1>1. IInv => OneStream
    BY DEF IInv
<1> QED
    BY <1>1, Invariant, PTL

(* The answer to an overtaken request never replaces the latest request's
   subscription.                                                            *)
THEOREM LatestTheorem == Spec => []LatestWins
<1>1. IInv => LatestWins
    BY DEF IInv
<1> QED
    BY <1>1, Invariant, PTL

-----------------------------------------------------------------------------
\* Induction over the naturals, for a set instead of a predicate: the provers
\* can instantiate a set.

NatOrder == OpToRel(<, Nat)

LEMMA NatOrderWellFounded == IsWellFoundedOn(NatOrder, Nat)
    BY NatLessThanWellFounded DEF NatOrder

LEMMA Smallest ==
    ASSUME NEW T, T \subseteq Nat, T # {}
    PROVE  \E x \in T : \A y \in T : ~(y < x)
<1>1. \A R, S : IsWellFoundedOn(R, S) =>
        \A U : U \subseteq S /\ U # {} => \E x \in U : \A y \in U : <<y, x>> \notin R
    BY WFMin, Zenon
<1>2. \E x \in T : \A y \in T : <<y, x>> \notin NatOrder
    BY <1>1, NatOrderWellFounded, Zenon
<1>3. \A m, n \in Nat : m < n => <<m, n>> \in NatOrder
    BY DEF NatOrder, OpToRel
<1> QED
    BY <1>2, <1>3

LEMMA NatInduct ==
    ASSUME NEW S, 0 \in S, \A n \in Nat : n \in S => n + 1 \in S
    PROVE  \A n \in Nat : n \in S
<1> DEFINE T == Nat \ S
<1> SUFFICES ASSUME T # {} PROVE FALSE
    OBVIOUS
<1>1. PICK x \in T : \A y \in T : ~(y < x)
    <2>1. T \subseteq Nat
        OBVIOUS
    <2> HIDE DEF T
    <2> QED
        BY <2>1, Smallest
<1>2. x # 0 /\ x - 1 \in Nat /\ x - 1 < x
    OBVIOUS
<1>3. x - 1 \in S
    BY <1>1, <1>2
<1> QED
    BY <1>2, <1>3

\* A bounded set of numbers has a largest member.
LEMMA MaxFacts ==
    ASSUME NEW S, S \subseteq Nat, S # {}, NEW n \in Nat, \A x \in S : x <= n
    PROVE  Max(S) \in S /\ \A x \in S : x <= Max(S)
<1> DEFINE U == {m \in Nat : \A x \in S : x <= m}
<1>1. PICK m \in U : \A k \in U : ~(k < m)
    <2>1. U \subseteq Nat /\ n \in U
        OBVIOUS
    <2> HIDE DEF U
    <2> QED
        BY <2>1, Smallest
<1>2. m \in S
    <2> SUFFICES ASSUME m \notin S PROVE FALSE
        OBVIOUS
    <2>1. \A x \in S : x < m /\ x \in Nat
        OBVIOUS
    <2>2. m \in Nat /\ m # 0
        <3>1. PICK x \in S : TRUE
            OBVIOUS
        <3> QED
            BY <2>1, <3>1
    <2>3. m - 1 \in Nat /\ \A x \in S : x <= m - 1
        BY <2>1, <2>2
    <2>4. m - 1 \in U /\ m - 1 < m
        BY <2>2, <2>3
    <2> QED
        BY <2>4, <1>1
<1>3. \E x \in S : \A y \in S : x >= y
    BY <1>2
<1> QED
    BY <1>3 DEF Max

\* A set of windows is numbered from its earliest to its latest.
LEMMA WindowFacts ==
    ASSUME NEW W, W \subseteq Nat, IsFiniteSet(W)
    PROVE  /\ Cardinality(W) \in Nat
           /\ \A i \in 1 .. Cardinality(W) : WindowAt(W, i) \in W
           /\ \A w \in W : \E i \in 1 .. Cardinality(W) : WindowAt(W, i) = w
           /\ \A i, j \in 1 .. Cardinality(W) : i < j => WindowAt(W, i) < WindowAt(W, j)
<1> DEFINE Below(w) == {v \in W : v < w}
<1> DEFINE n == Cardinality(W)
<1>1. n \in Nat /\ \A w \in W : IsFiniteSet(Below(w)) /\ Cardinality(Below(w)) \in Nat
    BY FS_CardinalityType, FS_Subset
<1>2. \A w \in W : Cardinality(Below(w)) < n
    <2> SUFFICES ASSUME NEW w \in W PROVE Cardinality(Below(w)) < n
        OBVIOUS
    <2>1. w \notin Below(w) /\ Below(w) \in SUBSET W
        OBVIOUS
    <2> HIDE DEF Below
    <2>2. Cardinality(Below(w)) <= n /\ Cardinality(Below(w)) # n
        BY <2>1, FS_Subset
    <2> QED
        BY <1>1, <2>2
<1>3. \A v, w \in W : v < w => Cardinality(Below(v)) < Cardinality(Below(w))
    <2> SUFFICES ASSUME NEW v \in W, NEW w \in W, v < w
                 PROVE  Cardinality(Below(v)) < Cardinality(Below(w))
        OBVIOUS
    <2>1. v \notin Below(v) /\ v \in Below(w) /\ Below(v) \in SUBSET Below(w)
        <3>1. \A u \in W : u < v => u < w
            OBVIOUS
        <3>2. v \in W /\ v \in Nat
            OBVIOUS
        <3>3. v \notin Below(v)
            BY <3>2
        <3>4. v \in Below(w)
            OBVIOUS
        <3>5. Below(v) \subseteq Below(w)
            BY <3>1
        <3> QED
            BY <3>3, <3>4, <3>5
    <2> HIDE DEF Below
    <2>2. /\ Cardinality(Below(v)) <= Cardinality(Below(w))
          /\ Cardinality(Below(v)) # Cardinality(Below(w))
        BY <1>1, <2>1, FS_Subset
    <2> QED
        BY <1>1, <2>2
<1> DEFINE rank == [w \in W |-> Cardinality(Below(w)) + 1]
<1> HIDE DEF Below
<1>4. \A v, w \in W : Cardinality(Below(v)) = Cardinality(Below(w)) => v = w
    BY <1>1, <1>3
<1>5. rank \in [W -> 1 .. n]
    BY <1>1, <1>2
<1>6. rank \in Injection(W, 1 .. n)
    BY <1>1, <1>4, <1>5 DEF Injection, IsInjective
<1>7. rank \in Surjection(W, 1 .. n)
    <2>1. IsFiniteSet(1 .. n) /\ Cardinality(1 .. n) = n
        BY <1>1, FS_Interval
    <2> HIDE DEF rank
    <2> QED
        BY <1>6, <2>1, FS_Injection
<1>8. ASSUME NEW i \in 1 .. n
      PROVE  WindowAt(W, i) \in W /\ Cardinality(Below(WindowAt(W, i))) = i - 1
    <2>1. PICK w \in W : rank[w] = i
        BY <1>7 DEF Surjection
    <2>2. Cardinality(Below(w)) = i - 1
        BY <1>1, <2>1
    <2> QED
        BY <2>2 DEF WindowAt, Below
<1>9. ASSUME NEW w \in W PROVE \E i \in 1 .. n : WindowAt(W, i) = w
    <2> DEFINE i == Cardinality(Below(w)) + 1
    <2>1. i \in 1 .. n /\ i - 1 = Cardinality(Below(w))
        BY <1>1, <1>2
    <2>2. WindowAt(W, i) = w
        BY <1>4, <1>8, <2>1
    <2> QED
        BY <2>1, <2>2
<1>10. ASSUME NEW i \in 1 .. n, NEW j \in 1 .. n, i < j
       PROVE  WindowAt(W, i) < WindowAt(W, j)
    <2> DEFINE v == WindowAt(W, i)
    <2> DEFINE w == WindowAt(W, j)
    <2>1. v \in W /\ w \in W /\ Cardinality(Below(v)) = i - 1 /\ Cardinality(Below(w)) = j - 1
        BY <1>8
    <2>2. v \in Nat /\ w \in Nat
        BY <2>1
    <2> HIDE DEF v, w
    <2>3. ~(w < v) /\ w # v
        BY <1>3, <1>10, <2>1
    <2>4. v < w
        BY <2>2, <2>3
    <2> QED
        BY <2>4 DEF v, w
<1> QED
    BY <1>1, <1>8, <1>9, <1>10

-----------------------------------------------------------------------------
\* The frames of one answer, drawn one after the other.

\* FoldLeft by its recursion, over the frames of one answer.
LEMMA FoldUnrolls ==
    ASSUME NEW base, NEW n \in Nat, NEW frames, DOMAIN frames = 1 .. n
    PROVE  \E h : /\ h[0] = base /\ h[n] = Upserts(base, frames)
                  /\ \A i \in DOMAIN frames : h[i] = Upsert(h[i - 1], frames[i])
<1> DEFINE Step(g, s) == IF s = {} THEN base ELSE Upsert(g[s \ {Max(s)}], frames[Max(s)])
<1> DEFINE Def(g) == g = [s \in SUBSET (1 .. n) |-> Step(g, s)]
<1> DEFINE f == CHOOSE g : Def(g)
<1>1. Upserts(base, frames) = f[1 .. n]
    BY DEF Upserts, FoldLeft, MapThenFoldSet
<1>2. ASSUME NEW k \in Nat, NEW s \in SUBSET (1 .. k), s # {}
      PROVE  Max(s) \in s /\ s \ {Max(s)} \in SUBSET (1 .. k)
    <2>1. s \subseteq Nat /\ \A x \in s : x <= k
        OBVIOUS
    <2>2. Max(s) \in s
        BY <1>2, <2>1, MaxFacts
    <2> QED
        BY <2>2
<1>3. ASSUME NEW k \in Nat, NEW s \in SUBSET (1 .. k + 1), k + 1 \in s
      PROVE  Max(s) = k + 1 /\ s \ {Max(s)} \in SUBSET (1 .. k)
    <2>1. s \subseteq Nat /\ s # {} /\ k + 1 \in Nat /\ \A x \in s : x <= k + 1
        BY <1>3
    <2>2. Max(s) \in s /\ \A x \in s : x <= Max(s)
        BY <2>1, MaxFacts
    <2>3. Max(s) = k + 1
        <3> DEFINE m == Max(s)
        <3>1. m \in Nat /\ m <= k + 1 /\ k + 1 <= m
            BY <1>3, <2>1, <2>2
        <3> HIDE DEF m
        <3>2. m = k + 1
            BY <3>1
        <3> QED
            BY <3>2 DEF m
    <2> QED
        BY <2>3
<1> DEFINE S == {k \in Nat : \E g : g = [s \in SUBSET (1 .. k) |-> Step(g, s)]}
<1>4. 0 \in S
    <2>1. SUBSET (1 .. 0) = {{}}
        OBVIOUS
    <2> DEFINE g == [s \in {{}} |-> base]
    <2>2. g = [s \in {{}} |-> Step(g, s)]
        OBVIOUS
    <2> QED
        BY <2>1, <2>2
<1>5. ASSUME NEW k \in Nat, k \in S PROVE k + 1 \in S
    <2>1. PICK g : g = [s \in SUBSET (1 .. k) |-> Step(g, s)]
        BY <1>5
    <2> DEFINE h == [s \in SUBSET (1 .. k + 1) |->
                        IF k + 1 \in s THEN Upsert(g[s \ {Max(s)}], frames[Max(s)]) ELSE g[s]]
    <2>2. \A s \in SUBSET (1 .. k) : s \in SUBSET (1 .. k + 1) /\ k + 1 \notin s /\ h[s] = g[s]
        OBVIOUS
    <2>3. ASSUME NEW s \in SUBSET (1 .. k + 1) PROVE h[s] = Step(h, s)
        <3>1. CASE k + 1 \in s
            <4>1. s # {} /\ s \ {Max(s)} \in SUBSET (1 .. k)
                BY <1>3, <3>1
            <4>2. h[s] = Upsert(g[s \ {Max(s)}], frames[Max(s)])
                BY <3>1
            <4> HIDE DEF h
            <4> QED
                BY <2>2, <4>1, <4>2
        <3>2. CASE k + 1 \notin s
            <4>1. s \in SUBSET (1 .. k)
                BY <3>2
            <4>2. h[s] = g[s] /\ g[s] = Step(g, s)
                BY <2>1, <2>2, <4>1
            <4> HIDE DEF h
            <4>3. CASE s = {}
                BY <4>2, <4>3
            <4>4. CASE s # {}
                <5>1. s \ {Max(s)} \in SUBSET (1 .. k)
                    BY <1>2, <4>1, <4>4
                <5> QED
                    BY <2>2, <4>2, <4>4, <5>1
            <4> QED
                BY <4>3, <4>4
        <3> QED
            BY <3>1, <3>2
    <2>4. h = [s \in SUBSET (1 .. k + 1) |-> Step(h, s)]
        BY <2>3
    <2>5. k + 1 \in Nat
        OBVIOUS
    <2> HIDE DEF h
    <2> QED
        BY <2>4, <2>5
<1>6. n \in S
    <2>1. \A k \in Nat : k \in S => k + 1 \in S
        BY <1>5
    <2> HIDE DEF S
    <2> QED
        BY <1>4, <2>1, NatInduct
<1>7. f = [s \in SUBSET (1 .. n) |-> Step(f, s)]
    <2>1. \E g : Def(g)
        BY <1>6
    <2>2. Def(f)
        BY <2>1
    <2> QED
        BY <2>2
<1> HIDE DEF f
<1> DEFINE h == [i \in 0 .. n |-> f[1 .. i]]
<1>8. h[0] = base
    <2>1. 1 .. 0 = {} /\ {} \in SUBSET (1 .. n) /\ 0 \in 0 .. n
        OBVIOUS
    <2>2. f[{}] = base
        BY <1>7, <2>1
    <2> QED
        BY <2>1, <2>2
<1>9. ASSUME NEW i \in 1 .. n PROVE h[i] = Upsert(h[i - 1], frames[i])
    <2>1. i - 1 \in Nat /\ i - 1 \in 0 .. n /\ i \in 0 .. n /\ (i - 1) + 1 = i /\ i \in 1 .. i
        OBVIOUS
    <2>2. 1 .. i \in SUBSET (1 .. n) /\ 1 .. i # {}
        OBVIOUS
    <2>3. Max(1 .. i) = i
        BY <1>3, <2>1
    <2>4. (1 .. i) \ {i} = 1 .. i - 1
        OBVIOUS
    <2>5. f[1 .. i] = Upsert(f[1 .. i - 1], frames[i])
        BY <1>7, <2>2, <2>3, <2>4
    <2> QED
        BY <2>1, <2>5
<1>10. h[n] = Upserts(base, frames)
    BY <1>1
<1> QED
    BY <1>8, <1>9, <1>10

\* The largest of a finite set, and how to recognise it.
LEMMA LargestOf ==
    ASSUME NEW S, S \subseteq Nat, NEW x \in S, \A y \in S : y <= x
    PROVE  Max(S) = x
<1>1. Max(S) \in S /\ \A y \in S : y <= Max(S)
    BY MaxFacts
<1> DEFINE m == Max(S)
<1>2. m \in Nat /\ m <= x /\ x <= m
    BY <1>1
<1> HIDE DEF m
<1>3. m = x
    BY <1>2
<1> QED
    BY <1>3 DEF m

LEMMA FiniteMax ==
    ASSUME NEW W, W \subseteq Nat, W # {}, IsFiniteSet(W)
    PROVE  Max(W) \in W /\ \A w \in W : w <= Max(W)
<1> DEFINE n == Cardinality(W)
<1>1. /\ n \in Nat /\ \A i \in 1 .. n : WindowAt(W, i) \in W
      /\ \A w \in W : \E i \in 1 .. n : WindowAt(W, i) = w
      /\ \A i, j \in 1 .. n : i < j => WindowAt(W, i) < WindowAt(W, j)
    BY WindowFacts
<1> HIDE DEF n
<1>2. n \in 1 .. n
    <2>1. PICK w \in W : TRUE
        OBVIOUS
    <2>2. PICK i \in 1 .. n : WindowAt(W, i) = w
        BY <1>1
    <2> QED
        BY <1>1, <2>2
<1> DEFINE x == WindowAt(W, n)
<1>3. x \in W /\ x \in Nat
    BY <1>1, <1>2
<1>4. ASSUME NEW w \in W PROVE w <= x
    <2>1. PICK i \in 1 .. n : WindowAt(W, i) = w
        BY <1>1
    <2>2. i < n => w < x
        BY <1>1, <1>2, <2>1
    <2>3. i = n => w = x
        BY <2>1
    <2>4. w \in Nat /\ (i < n \/ i = n)
        BY <1>1
    <2> HIDE DEF x
    <2> QED
        BY <1>3, <2>2, <2>3, <2>4
<1> HIDE DEF x
<1> QED
    BY <1>3, <1>4, MaxFacts

LEMMA WindowsFinite ==
    ASSUME NEW P \in SUBSET (1 .. Entries)
    PROVE  /\ IsFiniteSet(P) /\ Cardinality(P) \in Nat /\ P \subseteq Nat /\ \A e \in P : e <= Entries
           /\ {Window[e] : e \in P} \subseteq Nat \ {0} /\ IsFiniteSet({Window[e] : e \in P})
<1>1. Entries \in Nat /\ Window \in [1 .. Entries -> Nat \ {0}]
    BY ViewAssumption
<1>2. IsFiniteSet(1 .. Entries)
    BY <1>1, FS_Interval
<1>3. IsFiniteSet(P) /\ Cardinality(P) \in Nat
    BY <1>2, FS_Subset, FS_CardinalityType
<1>4. IsFiniteSet({Window[e] : e \in P})
    <2> DEFINE f == [e \in P |-> Window[e]]
    <2>1. f \in Surjection(P, {Window[e] : e \in P})
        BY DEF Surjection
    <2> QED
        BY <1>3, <2>1, FS_Surjection
<1> QED
    BY <1>1, <1>3, <1>4

\* The aggregate drawn of some entries: the latest window's.
LEMMA DrawnFacts ==
    ASSUME NEW P \in SUBSET (1 .. Entries), P # {}
    PROVE  \E m \in Nat \ {0}, K \in SUBSET P :
             /\ K = {e \in P : Window[e] = m} /\ K # {} /\ \A e \in P : Window[e] <= m
             /\ Drawn(P) = [window |-> m, offset |-> Max(K), count |-> Cardinality(K)]
<1> DEFINE W == {Window[e] : e \in P}
<1> DEFINE m == Max(W)
<1> DEFINE K == {e \in P : Window[e] = m}
<1>1. W \subseteq Nat \ {0} /\ W # {} /\ IsFiniteSet(W)
    BY WindowsFinite
<1>2. m \in W /\ \A w \in W : w <= m
    <2> HIDE DEF W
    <2> QED
        BY <1>1, FiniteMax
<1>3. m \in Nat \ {0} /\ K # {} /\ \A e \in P : Window[e] <= m
    BY <1>1, <1>2
<1>4. Drawn(P) = [window |-> m, offset |-> Max(K), count |-> Cardinality(K)]
    BY DEF Drawn, WindowFrame
<1> HIDE DEF m
<1> QED
    BY <1>3, <1>4

LEMMA DrawnIs ==
    ASSUME NEW P \in SUBSET (1 .. Entries), NEW m \in Nat, NEW K,
           K = {e \in P : Window[e] = m}, K # {}, \A e \in P : Window[e] <= m
    PROVE  Drawn(P) = [window |-> m, offset |-> Max(K), count |-> Cardinality(K)]
<1> DEFINE W == {Window[e] : e \in P}
<1>1. W \subseteq Nat /\ m \in W /\ \A w \in W : w <= m
    BY WindowsFinite
<1>2. Max(W) = m
    <2> HIDE DEF W
    <2> QED
        BY <1>1, LargestOf
<1> QED
    BY <1>2 DEF Drawn, WindowFrame

\* What is drawn after some entries.
DrawnAfter(P) == IF P = {} THEN Nothing ELSE Drawn(P)

\* One frame, of a window of entries G, after the entries P: those of P whose
\* window is not earlier were all before G's.
LEMMA UpsertCounts ==
    ASSUME NEW P \in SUBSET (1 .. Entries), NEW G \in SUBSET (1 .. Entries), G # {},
           NEW w \in Nat \ {0}, \A e \in G : Window[e] = w,
           \A e \in P, x \in G : Window[e] = w => e < x
    PROVE  Upsert(DrawnAfter(P), [window |-> w, offset |-> Max(G), count |-> Cardinality(G)])
             = DrawnAfter(P \union G)
<1> DEFINE frame == [window |-> w, offset |-> Max(G), count |-> Cardinality(G)]
<1> DEFINE feature == DrawnAfter(P)
<1> DEFINE Q == P \union G
<1>1. /\ Q \in SUBSET (1 .. Entries) /\ Q # {} /\ DrawnAfter(Q) = Drawn(Q)
      /\ \A e \in Q : Window[e] \in Nat
    BY WindowsFinite DEF DrawnAfter
<1>2. Max(G) \in G /\ Max(G) \in Nat /\ \A e \in G : e <= Max(G)
    BY ViewAssumption, WindowsFinite, MaxFacts
<1>3. IsFiniteSet(G) /\ Cardinality(G) \in Nat
    BY WindowsFinite
<1>4. CASE P = {}
    <2>1. feature = Nothing /\ Q = G
        BY <1>4 DEF DrawnAfter
    <2>2. Upsert(Nothing, frame) = frame
        BY <1>3 DEF Upsert, Nothing
    <2>3. Drawn(G) = frame
        <3>1. \A e \in G : Window[e] <= w
            OBVIOUS
        <3>2. G = {e \in G : Window[e] = w}
            OBVIOUS
        <3> QED
            BY <3>1, <3>2, DrawnIs
    <2> QED
        BY <1>1, <2>1, <2>2, <2>3
<1>5. CASE P # {}
    <2>1. PICK m \in Nat \ {0}, K \in SUBSET P :
             /\ K = {e \in P : Window[e] = m} /\ K # {} /\ \A e \in P : Window[e] <= m
             /\ Drawn(P) = [window |-> m, offset |-> Max(K), count |-> Cardinality(K)]
        BY <1>5, DrawnFacts
    <2>2. feature = [window |-> m, offset |-> Max(K), count |-> Cardinality(K)]
        BY <1>5, <2>1 DEF DrawnAfter
    <2>3. /\ Max(K) \in K /\ Max(K) \in Nat /\ \A e \in K : e <= Max(K)
          /\ IsFiniteSet(K) /\ Cardinality(K) \in Nat
        <3>1. K \in SUBSET (1 .. Entries)
            OBVIOUS
        <3> QED
            BY <2>1, <3>1, ViewAssumption, WindowsFinite, MaxFacts
    <2> HIDE DEF feature
    <2>4. CASE w < m
        <3>1. Upsert(feature, frame) = feature
            BY <2>2, <2>4 DEF Upsert
        <3>2. K = {e \in Q : Window[e] = m} /\ \A e \in Q : Window[e] <= m
            <4>1. \A e \in G : Window[e] < m
                BY <2>4
            <4>2. \A e \in G : Window[e] # m /\ Window[e] <= m
                BY <4>1
            <4>3. K = {e \in Q : Window[e] = m}
                BY <2>1, <4>2
            <4> QED
                BY <2>1, <4>2, <4>3
        <3>3. Drawn(Q) = feature
            BY <1>1, <2>1, <2>2, <3>2, DrawnIs
        <3> QED
            BY <1>1, <3>1, <3>3 DEF feature
    <2>5. CASE w = m
        <3>1. \A e \in K, x \in G : e < x
            BY <2>1, <2>5
        <3>2. Max(K) < Max(G)
            BY <1>2, <2>3, <3>1
        <3>3. Upsert(feature, frame) = [window |-> w, offset |-> Max(G), count |-> Cardinality(G) + Cardinality(K)]
            <4>1. ~(frame.window < feature.window) /\ ~(frame.offset <= feature.offset) /\ frame.window = feature.window
                BY <1>2, <2>2, <2>3, <2>5, <3>2
            <4>2. Upsert(feature, frame) = [frame EXCEPT !.count = @ + feature.count]
                BY <4>1 DEF Upsert
            <4> QED
                BY <2>2, <4>2
        <3>4. K \union G = {e \in Q : Window[e] = m} /\ \A e \in Q : Window[e] <= m
            BY <2>1, <2>5
        <3>5. Drawn(Q) = [window |-> m, offset |-> Max(K \union G), count |-> Cardinality(K \union G)]
            BY <1>1, <2>1, <3>4, DrawnIs
        <3>6. Max(K \union G) = Max(G)
            <4>1. K \union G \subseteq Nat /\ Max(G) \in K \union G
                BY <1>2, WindowsFinite
            <4>2. \A y \in K \union G : y <= Max(G)
                BY <1>2, <3>1, WindowsFinite
            <4> QED
                BY <4>1, <4>2, LargestOf
        <3>7. Cardinality(K \union G) = Cardinality(G) + Cardinality(K)
            <4>1. K \cap G = {}
                <5>1. \A e \in K : e \in Nat
                    BY WindowsFinite
                <5> QED
                    BY <3>1, <5>1
            <4>2. Cardinality(K \cap G) = 0
                BY <4>1, FS_EmptySet
            <4>3. Cardinality(K \union G) = Cardinality(K) + Cardinality(G) - Cardinality(K \cap G)
                BY <1>3, <2>3, FS_Union
            <4> QED
                BY <1>3, <2>3, <4>2, <4>3
        <3> QED
            BY <1>1, <2>5, <3>3, <3>5, <3>6, <3>7 DEF feature
    <2>6. CASE m < w
        <3>1. Upsert(feature, frame) = frame
            <4>1. ~(frame.window < feature.window) /\ frame.window # feature.window
                BY <2>2, <2>6
            <4>2. Upsert(feature, frame) = [frame EXCEPT !.count = @ + 0]
                BY <4>1 DEF Upsert
            <4> QED
                BY <1>3, <4>2
        <3>2. G = {e \in Q : Window[e] = w} /\ \A e \in Q : Window[e] <= w
            <4>1. \A e \in P : Window[e] \in Nat /\ Window[e] <= m
                BY <1>1, <2>1
            <4>2. \A e \in P : Window[e] # w /\ Window[e] <= w
                BY <2>6, <4>1
            <4>3. G = {e \in Q : Window[e] = w}
                BY <4>2
            <4>4. \A e \in G : Window[e] <= w
                OBVIOUS
            <4> QED
                BY <4>2, <4>3, <4>4
        <3>3. Drawn(Q) = frame
            BY <1>1, <3>2, DrawnIs
        <3> QED
            BY <1>1, <3>1, <3>3 DEF feature
    <2> QED
        BY <2>4, <2>5, <2>6
<1> QED
    BY <1>4, <1>5

\* All the frames of one answer: what is drawn is of all entries so far.
LEMMA FoldCounts ==
    ASSUME NEW lo \in Nat, NEW hi \in 1 .. Entries, NEW E \in SUBSET (1 .. lo), lo < hi
    PROVE  Upserts(DrawnAfter(E), AggregateFrames(lo, hi)) = Drawn(E \union (lo + 1 .. hi))
<1> DEFINE N == lo + 1 .. hi
<1> DEFINE W == {Window[e] : e \in N}
<1> DEFINE n == Cardinality(W)
<1> DEFINE frames == AggregateFrames(lo, hi)
<1>1. N \in SUBSET (1 .. Entries) /\ N # {} /\ E \in SUBSET (1 .. Entries) /\ \A e \in E, x \in N : e < x
    <2>1. Entries \in Nat /\ hi <= Entries /\ hi \in N /\ \A x \in N : x \in Nat /\ lo < x /\ x <= hi
        BY ViewAssumption
    <2>2. \A e \in E : e \in Nat /\ 1 <= e /\ e <= lo
        OBVIOUS
    <2> HIDE DEF N
    <2>3. \A x \in N : x \in 1 .. Entries
        BY <2>1
    <2>4. \A e \in E : e \in 1 .. Entries
        BY <2>1, <2>2
    <2>5. \A e \in E, x \in N : e < x
        BY <2>1, <2>2
    <2> QED
        BY <2>1, <2>3, <2>4, <2>5
<1>2. W \subseteq Nat \ {0} /\ IsFiniteSet(W)
    BY <1>1, WindowsFinite
<1>3. /\ n \in Nat /\ \A i \in 1 .. n : WindowAt(W, i) \in W
      /\ \A w \in W : \E i \in 1 .. n : WindowAt(W, i) = w
      /\ \A i, j \in 1 .. n : i < j => WindowAt(W, i) < WindowAt(W, j)
    <2>1. W \subseteq Nat
        BY <1>2
    <2> HIDE DEF W
    <2> QED
        BY <1>2, <2>1, WindowFacts
<1>4. DOMAIN frames = 1 .. n /\ \A i \in 1 .. n : frames[i] = WindowFrame(WindowAt(W, i), N)
    BY DEF AggregateFrames
<1> HIDE DEF N, W, n, frames
<1>5. PICK h : /\ h[0] = DrawnAfter(E) /\ h[n] = Upserts(DrawnAfter(E), frames)
               /\ \A i \in DOMAIN frames : h[i] = Upsert(h[i - 1], frames[i])
    <2>1. n \in Nat /\ DOMAIN frames = 1 .. n
        BY <1>3, <1>4
    <2> DEFINE base == DrawnAfter(E)
    <2> HIDE DEF base
    <2>2. \E h : /\ h[0] = base /\ h[n] = Upserts(base, frames)
                 /\ \A i \in DOMAIN frames : h[i] = Upsert(h[i - 1], frames[i])
        BY <2>1, FoldUnrolls, SMTT(30)
    <2> QED
        BY <2>2 DEF base
<1> DEFINE Fed(i) == {e \in N : \E j \in 1 .. i : Window[e] = WindowAt(W, j)}
<1> DEFINE S == {i \in Nat : i <= n => h[i] = DrawnAfter(E \union Fed(i))}
<1>6. 0 \in S
    <2>1. Fed(0) = {}
        OBVIOUS
    <2> QED
        BY <1>5, <2>1
<1>7. ASSUME NEW i \in Nat, i \in S PROVE i + 1 \in S
    <2> SUFFICES ASSUME i + 1 <= n PROVE h[i + 1] = DrawnAfter(E \union Fed(i + 1))
        OBVIOUS
    <2> DEFINE w == WindowAt(W, i + 1)
    <2> DEFINE G == {e \in N : Window[e] = w}
    <2>1. i + 1 \in 1 .. n /\ (i + 1) - 1 = i /\ \A j \in 1 .. i : j \in 1 .. n /\ j < i + 1
        BY <1>3
    <2>2. w \in W /\ \A j \in 1 .. i : WindowAt(W, j) < w
        BY <1>3, <2>1
    <2>3. h[i] = DrawnAfter(E \union Fed(i))
        BY <1>3, <1>7
    <2>4. h[i + 1] = Upsert(h[i], [window |-> w, offset |-> Max(G), count |-> Cardinality(G)])
        BY <1>4, <1>5, <2>1 DEF WindowFrame
    <2>5. G # {} /\ w \in Nat \ {0}
        BY <1>2, <2>2 DEF W
    <2>6. \A e \in Fed(i) : Window[e] # w
        <3>1. \A v \in W : v \in Nat
            BY <1>2
        <3>2. \A j \in 1 .. i : WindowAt(W, j) # w
            BY <1>3, <2>1, <2>2, <3>1
        <3> QED
            BY <3>2
    <2>7. Fed(i + 1) = Fed(i) \union G
        <3>1. 1 .. i + 1 = (1 .. i) \union {i + 1}
            OBVIOUS
        <3> QED
            BY <3>1
    <2> DEFINE P == E \union Fed(i)
    <2>8. P \in SUBSET (1 .. Entries) /\ G \in SUBSET (1 .. Entries)
        BY <1>1
    <2>9. \A e \in P, x \in G : Window[e] = w => e < x
        BY <1>1, <2>6
    <2>10. \A e \in G : Window[e] = w
        OBVIOUS
    <2>11. E \union Fed(i + 1) = P \union G
        BY <2>7
    <2> HIDE DEF w, G, P, Fed
    <2>12. Upsert(DrawnAfter(P), [window |-> w, offset |-> Max(G), count |-> Cardinality(G)]) = DrawnAfter(P \union G)
        BY <2>5, <2>8, <2>9, <2>10, UpsertCounts
    <2> QED
        BY <2>3, <2>4, <2>11, <2>12 DEF P
<1>8. n \in S
    <2>1. \A i \in Nat : i \in S => i + 1 \in S
        BY <1>7
    <2> HIDE DEF S
    <2> QED
        BY <1>3, <1>6, <2>1, NatInduct
<1>9. Fed(n) = N
    <2>1. \A e \in N : Window[e] \in W
        BY DEF W
    <2> QED
        BY <1>3, <2>1
<1>10. h[n] = DrawnAfter(E \union N)
    BY <1>3, <1>8, <1>9
<1>11. DrawnAfter(E \union N) = Drawn(E \union N)
    BY <1>1 DEF DrawnAfter
<1> QED
    BY <1>5, <1>10, <1>11 DEF N, frames

-----------------------------------------------------------------------------
\* The cursor and what is drawn: what leaves each part of DrawnInv as it is, and
\* the steps that do not.

LEMMA CursorKept ==
    ASSUME CursorOfAsked, CursorKeepsOffset, UNCHANGED <<asked, seq, of, cursor, used>>
    PROVE  CursorOfAsked' /\ CursorKeepsOffset'
    BY DEF CursorOfAsked, CursorKeepsOffset

\* Whatever a refresh does, the cursor is then that of the view asked for.
LEMMA CursorRefreshed ==
    ASSUME IInv, IInv', CursorOfAsked, CursorKeepsOffset, NEW v \in View, Refresh(v)
    PROVE  CursorOfAsked' /\ CursorKeepsOffset'
<1>1. used' = used
    BY DEF Refresh, streamVars
<1>2. CursorKeepsOffset'
    BY <1>1 DEF CursorKeepsOffset
<1>3. cursor.id \in Nat
    BY DEF CursorOfAsked
<1>4. /\ cursor'.offset = ReplayOffset[v] /\ cursor'.id \in {cursor.id, cursor.id + 1}
      /\ cursor'.id = cursor.id => cursor' = cursor
    <2>1. CASE cursor.offset # ReplayOffset[v]
        BY <1>3, <2>1 DEF Refresh
    <2>2. CASE cursor.offset = ReplayOffset[v]
        BY <2>2 DEF Refresh
    <2> QED
        BY <2>1, <2>2
<1>5. ASSUME NEW u \in used' PROVE u[1] \in 0 .. cursor'.id /\ (u[1] = cursor'.id => u[2] = cursor'.offset)
    <2>1. u[1] \in 0 .. cursor.id /\ (u[1] = cursor.id => u[2] = cursor.offset)
        BY <1>1 DEF CursorOfAsked
    <2> QED
        BY <1>3, <1>4, <2>1
<1>6. seq' > 0 => asked' = of'[seq'] /\ asked' = v
    <2>1. CASE SameView(v)
        BY <2>1 DEF SameView, requestVars, CursorOfAsked
    <2>2. CASE NewRequest(v)
        <3>1. asked' = v /\ seq' = seq + 1 /\ of' = [of EXCEPT ![seq + 1] = v]
            BY <2>2 DEF NewRequest
        <3>2. seq \in Nat /\ seq' \in 0 .. MaxSeq /\ of \in [Seq_ -> View \cup {NoView}]
            BY ViewAssumption DEF IInv, RequestsTyped, MaxSeq
        <3>3. seq + 1 \in Seq_
            BY <3>1, <3>2, ViewAssumption DEF Seq_, MaxSeq
        <3> QED
            BY <3>1, <3>2, <3>3
    <2> QED
        BY <2>1, <2>2 DEF Refresh
<1>7. cursor'.id \in Nat
    BY <1>3, <1>4
<1> QED
    BY <1>2, <1>4, <1>5, <1>6, <1>7 DEF CursorOfAsked

LEMMA CursorSubscribed ==
    ASSUME CursorOfAsked, CursorKeepsOffset, seq > 0, Subscribe(seq), UNCHANGED <<asked, seq, of, cursor>>
    PROVE  CursorOfAsked' /\ CursorKeepsOffset'
<1> DEFINE new == <<cursor.id, ReplayOffset[of[seq]]>>
<1>1. used' = used \cup {new} /\ cursor' = cursor
    BY DEF Subscribe
<1>2. cursor.id \in Nat /\ new[1] = cursor.id /\ new[2] = cursor.offset
    BY DEF CursorOfAsked
<1> HIDE DEF new
<1>3. ASSUME NEW u \in used'
      PROVE  u[1] \in 0 .. cursor.id /\ (u[1] = cursor.id => u[2] = cursor.offset)
    <2>1. CASE u = new
        BY <1>2, <2>1
    <2>2. CASE u \in used
        BY <2>2 DEF CursorOfAsked
    <2> QED
        BY <1>1, <2>1, <2>2
<1>4. CursorKeepsOffset'
    <2> SUFFICES ASSUME NEW u \in used', NEW w \in used', u[1] = w[1] PROVE u[2] = w[2]
        BY DEF CursorKeepsOffset
    <2>1. CASE u \in used /\ w \in used
        BY <2>1 DEF CursorKeepsOffset
    <2>2. CASE u = new \/ w = new
        BY <1>2, <1>3, <2>2
    <2> QED
        BY <1>1, <2>1, <2>2
<1>5. CursorOfAsked'
    BY <1>1, <1>3 DEF CursorOfAsked
<1> QED
    BY <1>4, <1>5

LEMMA OnceKept ==
    ASSUME IInv, SubscribedOnce, UNCHANGED <<view, seq, of>>, timer' # "off" => seq > 0,
           creating' \in {0, creating}, minting' \subseteq minting,
           \A t \in Seq_ : stream[t] = "none" => stream'[t] = "none"
    PROVE  SubscribedOnce'
<1>1. 0 \notin minting
    BY DEF IInv, RequestsTyped
<1>2. creating' \notin minting'
    BY <1>1 DEF SubscribedOnce
<1>3. \A s \in Seq_ : IF s <= seq' THEN of'[s] \in View ELSE stream'[s] = "none"
    BY DEF SubscribedOnce
<1>4. \A s \in {creating'} \cup minting' : s \in Seq_ => stream'[s] = "none"
    <2>1. 0 \notin Seq_
        BY DEF Seq_
    <2> QED
        BY <2>1 DEF SubscribedOnce
<1> QED
    BY <1>2, <1>3, <1>4 DEF SubscribedOnce

\* A refresh at most closes a subscription that was there.
LEMMA RefreshEnds ==
    ASSUME IInv, NEW v, Refresh(v)
    PROVE  /\ \A t \in Seq_ : stream[t] = "none" => stream'[t] = "none"
           /\ \A t \in Seq_ : stream[t] \notin {"none", "opening"} => stream'[t] \notin {"none", "opening"}
<1>1. CASE SameView(v)
    BY <1>1 DEF SameView
<1>2. CASE NewRequest(v) /\ creating = 0
    <2>1. stream' = stream
        BY <1>2 DEF NewRequest
    <2> QED
        BY <2>1
<1>3. CASE NewRequest(v) /\ creating # 0
    <2>1. stream' = [t \in Seq_ |-> IF t = sub /\ stream[t] \in {"opening", "open"} THEN "closed" ELSE stream[t]]
        BY <1>3 DEF NewRequest, Reconnect
    <2> QED
        BY <2>1
<1> QED
    BY <1>1, <1>2, <1>3 DEF Refresh

LEMMA OnceRefreshed ==
    ASSUME IInv, IInv', SubscribedOnce, NEW v \in View, Refresh(v)
    PROVE  SubscribedOnce'
<1>1. view' = v /\ \A t \in Seq_ : stream[t] = "none" => stream'[t] = "none"
    BY RefreshEnds DEF Refresh
<1>2. CASE SameView(v)
    <2>1. UNCHANGED <<seq, of, creating, minting, stream>> /\ timer' = "off"
        BY <1>2 DEF SameView, requestVars
    <2> QED
        BY <1>1, <2>1 DEF SubscribedOnce
<1>3. CASE NewRequest(v)
    <2>1. /\ seq' = seq + 1 /\ of' = [of EXCEPT ![seq + 1] = v] /\ creating' = seq + 1
          /\ minting' = minting
        BY <1>3 DEF NewRequest
    <2>2. /\ seq \in Nat /\ seq' \in 0 .. MaxSeq /\ MaxSeq \in Nat /\ of \in [Seq_ -> View \cup {NoView}]
          /\ minting \subseteq 1 .. seq
        <3>1. MaxSeq \in Nat
            BY ViewAssumption DEF MaxSeq
        <3>2. seq \in 0 .. MaxSeq /\ of \in [Seq_ -> View \cup {NoView}] /\ minting \subseteq 1 .. seq
            BY DEF IInv, RequestsTyped
        <3>3. seq' \in 0 .. MaxSeq'
            BY DEF IInv, RequestsTyped
        <3>4. MaxSeq' = MaxSeq
            BY DEF MaxSeq
        <3> QED
            BY <3>1, <3>2, <3>3, <3>4
    <2>3. seq + 1 \in Seq_
        BY <2>1, <2>2 DEF Seq_
    <2>4. \A s \in Seq_ : s \in Nat /\ (s <= seq + 1 <=> s <= seq \/ s = seq + 1)
        BY <2>2 DEF Seq_
    <2>5. \A s \in Seq_ : IF s <= seq' THEN of'[s] \in View ELSE stream'[s] = "none"
        BY <1>1, <2>1, <2>2, <2>3, <2>4 DEF SubscribedOnce
    <2>6. creating' \notin minting'
        BY <2>1, <2>2
    <2>7. stream[seq + 1] = "none"
        BY <2>2, <2>3 DEF SubscribedOnce
    <2>8. \A s \in {creating'} \cup minting' : s \in Seq_ => stream'[s] = "none"
        BY <1>1, <2>1, <2>7 DEF SubscribedOnce
    <2>9. seq' > 0
        BY <2>1, <2>2
    <2> QED
        BY <1>1, <2>5, <2>6, <2>8, <2>9 DEF SubscribedOnce
<1> QED
    BY <1>2, <1>3 DEF Refresh

\* The latest request, which was on its way, subscribes.
LEMMA OnceSubscribed ==
    ASSUME IInv, SubscribedOnce, seq \in Seq_, Subscribe(seq), creating' = 0,
           minting' \subseteq minting, seq \notin minting', UNCHANGED <<view, seq, of, timer>>
    PROVE  SubscribedOnce'
<1>1. /\ \A t \in Seq_ : t # seq /\ stream[t] = "none" => stream'[t] = "none"
      /\ seq \in Nat
    BY DEF Subscribe, Live, Seq_
<1>2. 0 \notin minting /\ 0 \notin Seq_
    BY DEF IInv, RequestsTyped, Seq_
<1>3. \A s \in Seq_ : IF s <= seq' THEN of'[s] \in View ELSE stream'[s] = "none"
    <2>1. \A s \in Seq_ : ~(s <= seq) => s # seq
        BY <1>1 DEF Seq_
    <2> QED
        BY <1>1, <2>1 DEF SubscribedOnce
<1>4. \A s \in {creating'} \cup minting' : s \in Seq_ => stream'[s] = "none"
    BY <1>1, <1>2 DEF SubscribedOnce
<1> QED
    BY <1>2, <1>3, <1>4 DEF SubscribedOnce

LEMMA FedKept ==
    ASSUME FedInOrder, fed' \subseteq fed, pos' = pos,
           \A t \in Seq_ : stream[t] \notin {"none", "opening"} => stream'[t] \notin {"none", "opening"}
    PROVE  FedInOrder'
    BY DEF FedInOrder

\* A subscription only replaces one that was not there yet.
LEMMA FedSubscribed ==
    ASSUME FedInOrder, fed' \subseteq fed, pos' = pos, Subscribe(seq), stream[seq] = "none"
    PROVE  FedInOrder'
<1>1. \A t \in Seq_ : stream[t] \notin {"none", "opening"} => stream'[t] \notin {"none", "opening"}
    BY DEF Subscribe
<1> QED
    BY <1>1, FedKept

LEMMA DrawnKept ==
    ASSUME Counted, NewestDrawn, of' = of, UNCHANGED drawnVars
    PROVE  Counted' /\ NewestDrawn'
<1>1. FedTo(Aggregated)' = FedTo(Aggregated) /\ FedTo(View \ Aggregated)' = FedTo(View \ Aggregated)
    BY DEF FedTo, drawnVars
<1> QED
    BY <1>1 DEF Counted, NewestDrawn, drawnVars

\* A new request begins with empty collections.
LEMMA DrawnEmpty ==
    ASSUME fed' = {}, shown' = Nothing, marker' = 0, lastSeen' = 0
    PROVE  Counted' /\ NewestDrawn'
<1>1. FedTo(Aggregated)' = {} /\ FedTo(View \ Aggregated)' = {}
    BY DEF FedTo
<1>2. {0} \cup {Ts[x[2]] : x \in {}} = {0}
    OBVIOUS
<1>3. Max({0}) = 0
    BY LargestOf
<1>4. NewestDrawn'
    BY <1>1, <1>2, <1>3 DEF NewestDrawn
<1>5. Counted'
    BY <1>1 DEF Counted
<1> QED
    BY <1>4, <1>5

\* The frames of the next entries, drawn as the view the stream was made for.
LEMMA FramesDrawn ==
    ASSUME IInv, SubscribedOnce, FedInOrder, Counted, NewestDrawn, NEW s \in Seq_, Frames(s)
    PROVE  FedInOrder' /\ Counted' /\ NewestDrawn'
<1>1. stream[s] = "open" /\ UNCHANGED <<of, stream>>
    BY DEF Frames, requestVars, streamVars
<1>2. PICK hi \in pos[s] + 1 .. Entries :
          /\ pos' = [pos EXCEPT ![s] = hi]
          /\ fed' = fed \cup ({s} \X (pos[s] + 1 .. hi))
          /\ IF of[s] \in Aggregated
             THEN /\ shown' = Upserts(shown, AggregateFrames(pos[s], hi))
                  /\ UNCHANGED <<marker, lastSeen>>
             ELSE LET newest == Max({Ts[e] : e \in pos[s] + 1 .. hi})
                  IN  /\ lastSeen' = Max({lastSeen, newest})
                      /\ marker' = IF newest > lastSeen THEN newest ELSE marker
                      /\ UNCHANGED shown
    BY DEF Frames
<1> DEFINE N == pos[s] + 1 .. hi
<1> DEFINE new == {s} \X N
<1>3. /\ Entries \in Nat /\ pos[s] \in 0 .. Entries /\ pos \in [Seq_ -> 0 .. Entries]
      /\ hi \in 1 .. Entries /\ pos[s] < hi /\ hi \in N
      /\ \A e \in N : e \in 1 .. Entries /\ pos[s] < e /\ e <= hi
    BY ViewAssumption DEF FedInOrder
<1>4. of[s] \in View
    <2>1. seq \in Nat /\ s \in Nat
        BY ViewAssumption DEF IInv, RequestsTyped, MaxSeq, Seq_
    <2> QED
        BY <1>1, <2>1 DEF SubscribedOnce
<1>5. fed \subseteq Seq_ \X (1 .. Entries) /\ \A f \in fed : f[2] <= pos[f[1]]
    BY DEF FedInOrder
<1>6. fed' = fed \cup new
    BY <1>2
<1>7. FedInOrder'
    <2>1. pos' \in [Seq_ -> 0 .. Entries] /\ pos'[s] = hi
        BY <1>2, <1>3
    <2>2. fed' \subseteq Seq_ \X (1 .. Entries)
        BY <1>3, <1>5, <1>6
    <2>3. ASSUME NEW f \in fed PROVE stream'[f[1]] \notin {"none", "opening"} /\ f[2] <= pos'[f[1]]
        <3>1. f[2] <= pos[f[1]] /\ f[1] \in Seq_ /\ f[2] \in Nat /\ pos[f[1]] \in Nat
            BY <1>3, <1>5
        <3>2. f[2] <= pos'[f[1]]
            BY <1>2, <1>3, <3>1
        <3> QED
            BY <1>1, <3>2 DEF FedInOrder
    <2>4. ASSUME NEW f \in new PROVE stream'[f[1]] \notin {"none", "opening"} /\ f[2] <= pos'[f[1]]
        BY <1>1, <1>3, <2>1
    <2> QED
        BY <1>6, <2>1, <2>2, <2>3, <2>4 DEF FedInOrder
<1>8. CASE of[s] \in Aggregated
    <2> DEFINE old == FedTo(Aggregated)
    <2>1. shown' = Upserts(shown, AggregateFrames(pos[s], hi)) /\ UNCHANGED <<marker, lastSeen>>
        BY <1>2, <1>8
    <2>2. FedTo(View \ Aggregated)' = FedTo(View \ Aggregated)
        BY <1>1, <1>6, <1>8 DEF FedTo
    <2>3. NewestDrawn'
        BY <2>1, <2>2 DEF NewestDrawn
    <2>4. FedTo(Aggregated)' = old \cup new
        BY <1>1, <1>6, <1>8 DEF FedTo
    <2>5. <<s, hi>> \in new
        BY <1>3
    <2>6. ASSUME \A x, y \in old \cup new : x[1] = y[1]
          PROVE  shown' = Drawn({x[2] : x \in old \cup new})
        <3> DEFINE E == {x[2] : x \in old}
        <3>1. \A x \in old : x[1] = s
            BY <2>5, <2>6
        <3>2. old \subseteq fed
            BY DEF FedTo
        <3>3. E \in SUBSET (1 .. pos[s])
            <4>1. ASSUME NEW x \in old PROVE x[2] \in 1 .. pos[s]
                <5>1. x \in fed /\ x[1] = s /\ x[2] \in 1 .. Entries
                    BY <1>5, <3>1, <3>2
                <5>2. x[2] <= pos[s]
                    BY <1>5, <5>1
                <5> QED
                    BY <1>3, <5>1, <5>2
            <4> QED
                BY <4>1
        <3>4. shown = DrawnAfter(E)
            <4>1. CASE old = {}
                BY <4>1 DEF Counted, DrawnAfter
            <4>2. CASE old # {}
                <5>1. shown = Drawn(E) /\ E # {}
                    BY <2>6, <4>2 DEF Counted
                <5> QED
                    BY <5>1 DEF DrawnAfter
            <4> QED
                BY <4>1, <4>2
        <3>5. {x[2] : x \in old \cup new} = E \union N
            <4>1. {x[2] : x \in new} = N
                <5>1. \A e \in N : <<s, e>> \in new /\ <<s, e>>[2] = e
                    OBVIOUS
                <5> QED
                    BY <5>1
            <4> QED
                BY <4>1
        <3> HIDE DEF E
        <3>6. Upserts(DrawnAfter(E), AggregateFrames(pos[s], hi)) = Drawn(E \union N)
            BY <1>3, <3>3, FoldCounts
        <3> QED
            BY <2>1, <3>4, <3>5, <3>6
    <2>7. Counted'
        BY <2>4, <2>5, <2>6 DEF Counted
    <2> QED
        BY <1>7, <2>3, <2>7
<1>9. CASE of[s] \notin Aggregated
    <2> DEFINE old == FedTo(View \ Aggregated)
    <2> DEFINE T == {Ts[x[2]] : x \in old}
    <2> DEFINE U == {Ts[e] : e \in N}
    <2> DEFINE newest == Max(U)
    <2>1. /\ lastSeen' = Max({lastSeen, newest}) /\ UNCHANGED shown
          /\ marker' = IF newest > lastSeen THEN newest ELSE marker
        BY <1>2, <1>9
    <2>2. FedTo(Aggregated)' = FedTo(Aggregated)
        BY <1>1, <1>6, <1>9 DEF FedTo
    <2>3. Counted'
        BY <2>1, <2>2 DEF Counted
    <2>4. FedTo(View \ Aggregated)' = old \cup new
        BY <1>1, <1>4, <1>6, <1>9 DEF FedTo
    <2>5. {Ts[x[2]] : x \in old \cup new} = T \cup U
        <3>1. {Ts[x[2]] : x \in new} = U
            <4>1. \A e \in N : <<s, e>> \in new /\ <<s, e>>[2] = e
                OBVIOUS
            <4> QED
                BY <4>1
        <3> QED
            BY <3>1
    <2>6. T \subseteq Nat /\ IsFiniteSet(T) /\ U \subseteq Nat /\ IsFiniteSet(U) /\ U # {}
        <3> DEFINE All == {Ts[e] : e \in 1 .. Entries}
        <3>1. All \subseteq Nat
            BY ViewAssumption
        <3>2. IsFiniteSet(All)
            <4>1. IsFiniteSet(1 .. Entries)
                BY <1>3, FS_Interval
            <4> DEFINE f == [e \in 1 .. Entries |-> Ts[e]]
            <4>2. f \in Surjection(1 .. Entries, All)
                BY DEF Surjection
            <4> QED
                BY <4>1, <4>2, FS_Surjection
        <3>3. T \subseteq All
            <4>1. old \subseteq fed
                BY DEF FedTo
            <4> QED
                BY <1>5, <4>1
        <3>4. U \subseteq All /\ U # {}
            BY <1>3
        <3> HIDE DEF All, T, U
        <3> QED
            BY <3>1, <3>2, <3>3, <3>4, FS_Subset
    <2> HIDE DEF T, U
    <2>7. newest \in U /\ \A u \in U : u <= newest
        BY <2>6, FiniteMax
    <2>8. lastSeen \in {0} \cup T /\ \A t \in {0} \cup T : t <= lastSeen
        <3> DEFINE V == {0} \cup T
        <3>1. V \subseteq Nat /\ V # {} /\ IsFiniteSet(V)
            <4>1. IsFiniteSet(T \cup {0})
                BY <2>6, FS_AddElement
            <4>2. T \cup {0} = V
                OBVIOUS
            <4> QED
                BY <2>6, <4>1, <4>2
        <3>2. lastSeen = Max(V)
            BY DEF NewestDrawn, T
        <3> HIDE DEF V
        <3>3. lastSeen \in V /\ \A t \in V : t <= lastSeen
            BY <3>1, <3>2, FiniteMax
        <3> QED
            BY <3>3 DEF V
    <2> DEFINE top == IF newest > lastSeen THEN newest ELSE lastSeen
    <2>9. /\ newest \in Nat /\ lastSeen \in Nat /\ newest <= top /\ lastSeen <= top
          /\ top \in {lastSeen, newest} /\ top \in Nat
        <3>1. newest \in Nat
            BY <2>6, <2>7
        <3>2. lastSeen \in Nat
            BY <2>6, <2>8
        <3> HIDE DEF newest
        <3> QED
            BY <3>1, <3>2
    <2> HIDE DEF newest
    <2>10. lastSeen' = top
        <3>1. Max({lastSeen, newest}) = top
            <4> HIDE DEF top
            <4> QED
                BY <2>9, LargestOf
        <3> QED
            BY <2>1, <3>1
    <2>11. Max({0} \cup (T \cup U)) = top
        <3>1. \A y \in {0} \cup (T \cup U) : y \in Nat /\ y <= top
            BY <2>6, <2>7, <2>8, <2>9
        <3>2. top \in {0} \cup (T \cup U)
            BY <2>7, <2>8, <2>9
        <3> HIDE DEF top
        <3> QED
            BY <3>1, <3>2, LargestOf
    <2>12. marker' \in {0, lastSeen'}
        <3>1. marker \in {0, lastSeen}
            BY DEF NewestDrawn
        <3> QED
            BY <2>1, <2>10, <3>1
    <2> HIDE DEF top
    <2>13. lastSeen' = Max({0} \cup {Ts[x[2]] : x \in FedTo(View \ Aggregated)'})
        BY <2>4, <2>5, <2>10, <2>11
    <2>14. NewestDrawn'
        BY <2>12, <2>13 DEF NewestDrawn
    <2> QED
        BY <1>7, <2>3, <2>14
<1> QED
    BY <1>8, <1>9

\* Features removed from the collections: with the aggregate goes what was fed
\* to it, with the asset's feature nothing that is remembered of it.
LEMMA DrawnPruned ==
    ASSUME Counted, NewestDrawn, of' = of, lastSeen' = lastSeen,
           NEW goneShown \in BOOLEAN, NEW goneMarker \in BOOLEAN,
           shown' = (IF goneShown THEN Nothing ELSE shown),
           marker' = (IF goneMarker THEN 0 ELSE marker),
           fed' = (IF goneShown THEN {f \in fed : of[f[1]] \notin Aggregated} ELSE fed)
    PROVE  Counted' /\ NewestDrawn' /\ fed' \subseteq fed
<1>1. FedTo(View \ Aggregated)' = FedTo(View \ Aggregated)
    BY DEF FedTo
<1>2. NewestDrawn'
    BY <1>1 DEF NewestDrawn
<1>3. CASE goneShown
    <2>1. FedTo(Aggregated)' = {} /\ shown' = Nothing
        BY <1>3 DEF FedTo
    <2>2. Counted'
        BY <2>1 DEF Counted
    <2> QED
        BY <1>2, <1>3, <2>2
<1>4. CASE ~goneShown
    <2>1. FedTo(Aggregated)' = FedTo(Aggregated) /\ shown' = shown
        BY <1>4 DEF FedTo
    <2>2. Counted'
        BY <2>1 DEF Counted
    <2> QED
        BY <1>2, <1>4, <2>2
<1> QED
    BY <1>3, <1>4

\* A stream resumes where an earlier one under its cursor may have come to.
LEMMA FedOpened ==
    ASSUME FedInOrder, stream \in [Seq_ -> {"none", "opening", "open", "closed", "failed"}], NEW s \in Seq_, StreamOpens(s)
    PROVE  FedInOrder'
<1> DEFINE Reached == {pos[t] : t \in {t \in Seq_ : via[t] = via[s]}}
<1>1. PICK p \in 0 .. Max(Reached) : pos' = [pos EXCEPT ![s] = p]
    BY DEF StreamOpens
<1>2. stream[s] = "opening" /\ stream' = [stream EXCEPT ![s] = "open"] /\ fed' = fed
    BY DEF StreamOpens, drawnVars
<1>3. pos \in [Seq_ -> 0 .. Entries] /\ Entries \in Nat
    BY ViewAssumption DEF FedInOrder
<1>4. Max(Reached) \in 0 .. Entries
    <2>1. Reached \subseteq Nat /\ Reached # {} /\ \A x \in Reached : x <= Entries /\ x \in 0 .. Entries
        BY <1>3
    <2> HIDE DEF Reached
    <2> QED
        BY <1>3, <2>1, MaxFacts
<1>5. pos' \in [Seq_ -> 0 .. Entries]
    <2> HIDE DEF Reached
    <2>1. p \in 0 .. Entries
        BY <1>3, <1>4
    <2> QED
        BY <1>1, <1>3, <2>1
<1>6. ASSUME NEW f \in fed
      PROVE  stream'[f[1]] \notin {"none", "opening"} /\ f[2] <= pos'[f[1]]
    <2>1. f[1] \in Seq_ /\ f[1] # s /\ stream[f[1]] \notin {"none", "opening"} /\ f[2] <= pos[f[1]]
        BY <1>2 DEF FedInOrder
    <2> QED
        BY <1>1, <1>2, <1>3, <2>1
<1> QED
    BY <1>2, <1>5, <1>6 DEF FedInOrder

\* A failure only ends subscriptions that were there.
LEMMA ScheduleEnds ==
    ASSUME NEW st \in [Seq_ -> {"none", "opening", "open", "closed", "failed"}], NEW s \in Seq_ \cup {0},
           \A t \in Seq_ : st[t] = IF t = s THEN "failed" ELSE stream[t],
           s \in Seq_ => stream[s] # "none", ScheduleReconnect(st)
    PROVE  /\ \A t \in Seq_ : stream[t] = "none" => stream'[t] = "none"
           /\ \A t \in Seq_ : stream[t] \notin {"none", "opening"} => stream'[t] \notin {"none", "opening"}
<1>1. CASE timer # "off"
    BY <1>1 DEF ScheduleReconnect
<1>2. CASE timer = "off"
    <2>1. stream' = [t \in Seq_ |-> IF t = sub /\ st[t] \in {"opening", "open"} THEN "closed" ELSE st[t]]
        BY <1>2 DEF ScheduleReconnect, Reconnect
    <2> QED
        BY <2>1
<1> QED
    BY <1>1, <1>2

LEMMA DrawnInit == Init => DrawnInv
<1> SUFFICES ASSUME Init PROVE DrawnInv
    OBVIOUS
<1>1. CursorOfAsked /\ CursorKeepsOffset
    BY DEF Init, CursorOfAsked, CursorKeepsOffset
<1>2. SubscribedOnce
    BY DEF Init, SubscribedOnce, Seq_
<1>3. FedInOrder
    BY ViewAssumption DEF Init, FedInOrder
<1>4. FedTo(Aggregated) = {} /\ FedTo(View \ Aggregated) = {}
    BY DEF Init, FedTo
<1>5. Max({0} \cup {Ts[x[2]] : x \in {}}) = 0
    <2>1. {0} \cup {Ts[x[2]] : x \in {}} = {0}
        OBVIOUS
    <2>2. Max({0}) = 0
        BY LargestOf
    <2> QED
        BY <2>1, <2>2
<1>6. Counted /\ NewestDrawn
    BY <1>4, <1>5 DEF Init, Counted, NewestDrawn
<1> QED
    BY <1>1, <1>2, <1>3, <1>6 DEF DrawnInv

LEMMA RefreshDrawn ==
    ASSUME IInv, IInv', DrawnInv, NEW v \in View, Refresh(v)
    PROVE  DrawnInv'
<1>1. CursorOfAsked' /\ CursorKeepsOffset' /\ SubscribedOnce'
    BY CursorRefreshed, OnceRefreshed DEF DrawnInv
<1>2. pos' = pos /\ \A t \in Seq_ : stream[t] \notin {"none", "opening"} => stream'[t] \notin {"none", "opening"}
    BY RefreshEnds DEF Refresh, SameView, NewRequest
<1>3. CASE SameView(v)
    <2>1. of' = of /\ UNCHANGED drawnVars
        BY <1>3 DEF SameView, requestVars
    <2>2. Counted' /\ NewestDrawn'
        BY <2>1, DrawnKept DEF DrawnInv
    <2>3. FedInOrder'
        BY <1>2, <2>1, FedKept DEF DrawnInv, drawnVars
    <2> QED
        BY <1>1, <2>2, <2>3 DEF DrawnInv
<1>4. CASE NewRequest(v)
    <2>1. shown' = Nothing /\ marker' = 0 /\ lastSeen' = 0 /\ fed' = {}
        BY <1>4 DEF NewRequest
    <2>2. Counted' /\ NewestDrawn'
        BY <2>1, DrawnEmpty
    <2>3. FedInOrder'
        BY <1>2, <2>1, FedKept DEF DrawnInv
    <2> QED
        BY <1>1, <2>2, <2>3 DEF DrawnInv
<1> QED
    BY <1>3, <1>4 DEF Refresh

\* A step that subscribes nobody, opens nothing, and feeds nothing.
LEMMA QuietDrawn ==
    ASSUME IInv, DrawnInv, UNCHANGED <<view, asked, seq, of, cursor, used, pos, drawnVars>>,
           timer' # "off" => seq > 0, creating' \in {0, creating}, minting' \subseteq minting,
           \A t \in Seq_ : stream[t] = "none" => stream'[t] = "none",
           \A t \in Seq_ : stream[t] \notin {"none", "opening"} => stream'[t] \notin {"none", "opening"}
    PROVE  DrawnInv'
<1>1. CursorOfAsked' /\ CursorKeepsOffset'
    BY CursorKept DEF DrawnInv
<1>2. SubscribedOnce'
    BY OnceKept DEF DrawnInv
<1>3. FedInOrder'
    BY FedKept DEF DrawnInv, drawnVars
<1>4. Counted' /\ NewestDrawn'
    BY DrawnKept DEF DrawnInv
<1> QED
    BY <1>1, <1>2, <1>3, <1>4 DEF DrawnInv

LEMMA FailureDrawn ==
    ASSUME IInv, DrawnInv, UNCHANGED <<view, asked, seq, of, cursor, used, pos, drawnVars>>,
           seq > 0, creating' \in {0, creating}, minting' \subseteq minting,
           NEW st \in [Seq_ -> {"none", "opening", "open", "closed", "failed"}], NEW s \in Seq_ \cup {0},
           \A t \in Seq_ : st[t] = IF t = s THEN "failed" ELSE stream[t],
           s \in Seq_ => stream[s] # "none", ScheduleReconnect(st)
    PROVE  DrawnInv'
<1>1. /\ \A t \in Seq_ : stream[t] = "none" => stream'[t] = "none"
      /\ \A t \in Seq_ : stream[t] \notin {"none", "opening"} => stream'[t] \notin {"none", "opening"}
    BY ScheduleEnds
<1> QED
    BY <1>1, QuietDrawn

\* The latest request's subscription, asked for with its channel or its token.
LEMMA SubscribedDrawn ==
    ASSUME IInv, DrawnInv, seq \in Seq_, Subscribe(seq), seq \in {creating} \cup minting,
           creating' = 0, minting' \subseteq minting, seq \notin minting',
           UNCHANGED <<view, asked, seq, of, cursor, timer, pos>>, fed' \subseteq fed,
           Counted', NewestDrawn'
    PROVE  DrawnInv'
<1>1. seq > 0
    BY ViewAssumption DEF Seq_, MaxSeq
<1>2. CursorOfAsked' /\ CursorKeepsOffset'
    BY <1>1, CursorSubscribed DEF DrawnInv
<1>3. SubscribedOnce'
    BY OnceSubscribed DEF DrawnInv
<1>4. FedInOrder'
    <2>1. stream[seq] = "none"
        BY DEF DrawnInv, SubscribedOnce
    <2> QED
        BY <2>1, FedSubscribed DEF DrawnInv
<1> QED
    BY <1>2, <1>3, <1>4 DEF DrawnInv

LEMMA DrawnNext ==
    ASSUME IInv, IInv', DrawnInv, [Next]_vars
    PROVE  DrawnInv'
<1>1. /\ seq \in Nat /\ creating \in {0, seq} /\ minting \subseteq 1 .. seq /\ seq <= MaxSeq
      /\ MaxSeq \in Nat /\ \A s \in minting : s \in Seq_
      /\ stream \in [Seq_ -> {"none", "opening", "open", "closed", "failed"}] /\ \A t \in 1 .. seq : t \in Seq_
    <2>1. MaxSeq \in Nat
        BY ViewAssumption DEF MaxSeq
    <2>2. /\ seq \in 0 .. MaxSeq /\ creating \in {0, seq} /\ minting \subseteq 1 .. seq
          /\ stream \in [Seq_ -> {"none", "opening", "open", "closed", "failed"}]
        BY DEF IInv, RequestsTyped
    <2>3. \A t \in 1 .. seq : t \in Seq_
        BY <2>1, <2>2 DEF Seq_
    <2> QED
        BY <2>1, <2>2, <2>3
<1>2. ASSUME NEW v \in View, Move(v) PROVE DrawnInv'
    BY <1>2, RefreshDrawn DEF Move
<1>3. CASE TimerFires
    <2>1. timer = "due"
        BY <1>3 DEF TimerFires
    <2>2. view \in View
        BY <2>1 DEF DrawnInv, SubscribedOnce
    <2>3. CASE Refresh(view)
        BY <2>2, <2>3, RefreshDrawn
    <2>4. CASE timer' = "off" /\ UNCHANGED <<mounted, view, cursor, requestVars, status, statusRef, streamVars, pos, drawnVars>>
        <3>1. /\ timer' = "off" /\ creating' = creating /\ minting' = minting /\ stream' = stream
              /\ UNCHANGED <<view, asked, seq, of, cursor, used, pos, drawnVars>>
            BY <2>4 DEF requestVars, streamVars
        <3> QED
            BY <3>1, QuietDrawn
    <2> QED
        BY <1>3, <2>3, <2>4 DEF TimerFires
<1>4. CASE Commit
    <2>1. timer' # "off" => seq > 0
        BY <1>4 DEF Commit, DrawnInv, SubscribedOnce
    <2>2. /\ creating' = creating /\ minting' = minting /\ stream' = stream
          /\ UNCHANGED <<view, asked, seq, of, cursor, used, pos, drawnVars>>
        BY <1>4 DEF Commit, requestVars, streamVars
    <2> QED
        BY <2>1, <2>2, QuietDrawn
<1>5. CASE ChannelCreated
    <2>1. /\ creating # 0 /\ creating' = 0 /\ seq = creating /\ seq \in Seq_
          /\ UNCHANGED <<mounted, view, asked, seq, of, statusRef, timer, cursor, pos, lastSeen, moves, faults>>
        BY <1>1, <1>5 DEF ChannelCreated
    <2>2. Counted' /\ NewestDrawn' /\ fed' \subseteq fed
        <3>1. PICK goneShown \in BOOLEAN, goneMarker \in BOOLEAN :
                /\ shown' = IF goneShown THEN Nothing ELSE shown
                /\ marker' = IF goneMarker THEN 0 ELSE marker
                /\ fed' = IF goneShown THEN {f \in fed : of[f[1]] \notin Aggregated} ELSE fed
            BY <1>5 DEF ChannelCreated
        <3> QED
            BY <2>1, <3>1, DrawnPruned DEF DrawnInv
    <2>3. seq \notin minting
        BY <2>1 DEF DrawnInv, SubscribedOnce
    <2>4. CASE AuthRequired
        <3>1. minting' = minting \cup {seq} /\ UNCHANGED streamVars
            BY <1>5, <2>1, <2>4 DEF ChannelCreated
        <3>2. CursorOfAsked' /\ CursorKeepsOffset'
            BY <2>1, <3>1, CursorKept DEF DrawnInv, streamVars
        <3>3. FedInOrder'
            BY <2>1, <2>2, <3>1, FedKept DEF DrawnInv, streamVars
        <3>4. SubscribedOnce'
            <4>1. 0 \notin minting'
                BY <1>1, <2>1, <3>1
            <4>2. \A s \in {0} \cup minting' : s \in Seq_ => stream[s] = "none"
                <5>1. 0 \notin Seq_
                    BY DEF Seq_
                <5> QED
                    BY <2>1, <3>1, <5>1 DEF DrawnInv, SubscribedOnce
            <4> QED
                BY <2>1, <3>1, <4>1, <4>2 DEF DrawnInv, SubscribedOnce, streamVars
        <3> QED
            BY <2>2, <3>2, <3>3, <3>4 DEF DrawnInv
    <2>5. CASE ~AuthRequired
        <3>1. Subscribe(seq) /\ minting' = minting
            BY <1>5, <2>1, <2>5 DEF ChannelCreated
        <3> QED
            BY <2>1, <2>2, <2>3, <3>1, SubscribedDrawn
    <2> QED
        BY <2>4, <2>5
<1>6. CASE ChannelFails
    <2>1. /\ creating' = 0 /\ seq > 0 /\ ScheduleReconnect(stream)
          /\ UNCHANGED <<view, asked, seq, of, minting, used, cursor, pos, drawnVars>>
        BY <1>1, <1>6 DEF ChannelFails
    <2>2. \A t \in Seq_ : stream[t] = IF t = 0 THEN "failed" ELSE stream[t]
        BY DEF Seq_
    <2>3. 0 \notin Seq_
        BY DEF Seq_
    <2> QED
        BY <1>1, <2>1, <2>2, <2>3, FailureDrawn
<1>7. ASSUME NEW s \in Seq_, TokenMinted(s) PROVE DrawnInv'
    <2>1. /\ s \in minting /\ minting' = minting \ {s}
          /\ UNCHANGED <<view, asked, seq, of, creating, timer, cursor, pos, drawnVars>>
        BY <1>7 DEF TokenMinted
    <2>2. CASE s = seq
        <3>1. Subscribe(seq)
            BY <1>7, <2>2 DEF TokenMinted
        <3>2. creating' = 0
            BY <1>1, <2>1, <2>2 DEF DrawnInv, SubscribedOnce
        <3>3. Counted' /\ NewestDrawn' /\ fed' = fed
            BY <2>1, DrawnKept DEF DrawnInv, drawnVars
        <3> QED
            BY <2>1, <2>2, <3>1, <3>2, <3>3, SubscribedDrawn
    <2>3. CASE s # seq
        <3>1. UNCHANGED streamVars
            BY <1>7, <2>3 DEF TokenMinted
        <3>2. timer' # "off" => seq > 0
            BY <2>1 DEF DrawnInv, SubscribedOnce
        <3> QED
            BY <2>1, <3>1, <3>2, QuietDrawn DEF streamVars
    <2> QED
        BY <2>2, <2>3
<1>8. ASSUME NEW s \in Seq_, TokenFails(s) PROVE DrawnInv'
    <2>1. /\ s \in minting /\ minting' = minting \ {s} /\ ScheduleReconnect(stream)
          /\ UNCHANGED <<view, asked, seq, of, creating, used, cursor, pos, drawnVars>>
        BY <1>8 DEF TokenFails
    <2>2. seq > 0
        BY <1>1, <2>1
    <2>3. \A t \in Seq_ : stream[t] = IF t = 0 THEN "failed" ELSE stream[t]
        BY DEF Seq_
    <2>4. 0 \notin Seq_
        BY DEF Seq_
    <2> QED
        BY <1>1, <2>1, <2>2, <2>3, <2>4, FailureDrawn
<1>9. ASSUME NEW s \in Seq_, StreamOpens(s) PROVE DrawnInv'
    <2>1. /\ stream[s] = "opening" /\ stream' = [stream EXCEPT ![s] = "open"]
          /\ UNCHANGED <<view, requestVars, timer, used, cursor, drawnVars>>
        BY <1>9 DEF StreamOpens
    <2>2. CursorOfAsked' /\ CursorKeepsOffset'
        BY <2>1, CursorKept DEF DrawnInv, requestVars
    <2>3. FedInOrder'
        BY <1>1, <1>9, FedOpened DEF DrawnInv
    <2>4. Counted' /\ NewestDrawn'
        BY <2>1, DrawnKept DEF DrawnInv, requestVars
    <2>5. SubscribedOnce'
        <3>1. \A t \in Seq_ : stream[t] = "none" => stream'[t] = "none"
            BY <1>1, <2>1
        <3>2. timer' # "off" => seq > 0
            BY <2>1 DEF DrawnInv, SubscribedOnce
        <3> QED
            BY <2>1, <3>1, <3>2, OnceKept DEF DrawnInv, requestVars
    <2> QED
        BY <2>2, <2>3, <2>4, <2>5 DEF DrawnInv
<1>10. ASSUME NEW s \in Seq_, StreamFails(s) PROVE DrawnInv'
    <2> DEFINE st == [stream EXCEPT ![s] = "failed"]
    <2>1. /\ s \in Live /\ ScheduleReconnect(st)
          /\ UNCHANGED <<view, asked, seq, of, creating, minting, used, cursor, pos, drawnVars>>
        BY <1>10 DEF StreamFails, requestVars
    <2>2. seq > 0
        <3>1. stream[s] # "none"
            BY <2>1 DEF Live
        <3> QED
            BY <1>1, <3>1 DEF DrawnInv, SubscribedOnce, Seq_
    <2>3. st \in [Seq_ -> {"none", "opening", "open", "closed", "failed"}] /\ \A t \in Seq_ : st[t] = IF t = s THEN "failed" ELSE stream[t]
        <3>1. stream \in [Seq_ -> {"none", "opening", "open", "closed", "failed"}]
            BY <1>1
        <3> QED
            BY <3>1
    <2>4. stream[s] # "none"
        BY <2>1 DEF Live
    <2> HIDE DEF st
    <2> QED
        BY <2>1, <2>2, <2>3, <2>4, FailureDrawn
<1>11. ASSUME NEW s \in Seq_, Frames(s) PROVE DrawnInv'
    <2>1. UNCHANGED <<view, requestVars, timer, streamVars, cursor>>
        BY <1>11 DEF Frames
    <2>2. CursorOfAsked' /\ CursorKeepsOffset'
        BY <2>1, CursorKept DEF DrawnInv, requestVars, streamVars
    <2>3. FedInOrder' /\ Counted' /\ NewestDrawn'
        BY <1>11, FramesDrawn DEF DrawnInv
    <2>4. SubscribedOnce'
        BY <2>1 DEF DrawnInv, SubscribedOnce, requestVars, streamVars
    <2> QED
        BY <2>2, <2>3, <2>4 DEF DrawnInv
<1>12. CASE Unmount
    <2>1. /\ timer' # "off" => creating # 0
          /\ creating' = 0
          /\ stream' = [s \in Seq_ |-> IF s = sub /\ s \in Live THEN "closed" ELSE stream[s]]
          /\ UNCHANGED <<view, asked, seq, of, minting, used, cursor, pos, drawnVars>>
        BY <1>12 DEF Unmount
    <2>3. timer' # "off" => seq > 0
        BY <1>1, <2>1
    <2>2. /\ \A t \in Seq_ : stream[t] = "none" => stream'[t] = "none"
          /\ \A t \in Seq_ : stream[t] \notin {"none", "opening"} => stream'[t] \notin {"none", "opening"}
        BY <2>1 DEF Live
    <2> QED
        BY <2>1, <2>2, <2>3, QuietDrawn
<1>13. CASE UNCHANGED vars
    <2>1. UNCHANGED <<view, requestVars, timer, streamVars, cursor, pos, drawnVars>>
        BY <1>13 DEF vars
    <2>2. timer' # "off" => seq > 0
        BY <2>1 DEF DrawnInv, SubscribedOnce
    <2> QED
        BY <2>1, <2>2, QuietDrawn DEF requestVars, streamVars
<1> QED
    BY <1>2, <1>3, <1>4, <1>5, <1>6, <1>7, <1>8, <1>9, <1>10, <1>11, <1>12, <1>13 DEF Next

\* What is drawn, and under which cursors streams are asked for, is as DrawnInv
\* says in every state.
LEMMA DrawnInvariant == Spec => []DrawnInv
<1>1. IInv /\ IInv' /\ DrawnInv /\ [Next]_vars => DrawnInv'
    BY DrawnNext
<1> QED
    BY DrawnInit, Invariant, <1>1, PTL DEF Spec

(* A cursor id is sent to the backend with one initial offset only, whatever the
   order of moves, late tokens and reconnections: positions saved for another
   choice of replay are never resumed from.                                  *)
THEOREM CursorTheorem == Spec => []CursorKeepsOffset
<1>1. DrawnInv => CursorKeepsOffset
    BY DEF DrawnInv
<1> QED
    BY <1>1, DrawnInvariant, PTL

(* While one stream feeds the tile, the aggregate drawn counts the delivered
   entries of the latest window exactly once, for any windows, any cut of the
   entries into answers and any late events.                                 *)
THEOREM CountTheorem == Spec => []CountExact
<1>1. ASSUME DrawnInv PROVE CountExact
    <2> DEFINE f == FedTo(Aggregated)
    <2> DEFINE from == {x[1] : x \in f}
    <2> SUFFICES ASSUME Cardinality(from) = 1 PROVE shown = Drawn({x[2] : x \in f})
        BY DEF CountExact, Drawn, WindowFrame
    <2>1. from \subseteq Seq_
        BY <1>1 DEF DrawnInv, FedInOrder, FedTo
    <2>2. IsFiniteSet(from)
        <3>1. IsFiniteSet(Seq_)
            BY ViewAssumption, FS_Interval DEF Seq_, MaxSeq
        <3> HIDE DEF from
        <3> QED
            BY <2>1, <3>1, FS_Subset
    <2>3. PICK s : from = {s}
        <3> HIDE DEF from
        <3> QED
            BY <2>2, FS_Singleton
    <2>4. f # {} /\ \A x, y \in f : x[1] = y[1]
        <3>1. \A x \in f : x[1] = s
            BY <2>3
        <3>2. f # {}
            BY <2>3
        <3> QED
            BY <3>1, <3>2
    <2> QED
        BY <1>1, <2>4 DEF DrawnInv, Counted
<1> QED
    BY <1>1, DrawnInvariant, PTL

(* The asset is drawn at its newest event delivered since the clear, however two
   streams interleave, repeat entries, and deliver late events.              *)
THEOREM NewestTheorem == Spec => []NewestDrawn
<1>1. DrawnInv => NewestDrawn
    BY DEF DrawnInv
<1> QED
    BY <1>1, DrawnInvariant, PTL
=============================================================================

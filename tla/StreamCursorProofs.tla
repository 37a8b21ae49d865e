------------------------- MODULE StreamCursorProofs -------------------------
(***************************************************************************)
(* Proofs about StreamCursorWriter for any number of connections, tiles,    *)
(* offsets, faults and expiries.                                             *)
(***************************************************************************)
EXTENDS StreamCursor, TLAPS

\* Merging two offset maps gives one.
LEMMA MergeType ==
    ASSUME NEW over \in Offsets, NEW base \in Offsets
    PROVE  /\ Merge(over, base) \in Offsets
           /\ \A t \in Tile : Merge(over, base)[t] = IF over[t] # 0 THEN over[t] ELSE base[t]
    BY DEF Merge, Offsets

LEMMA NoneType == None \in Offsets /\ \A t \in Tile : None[t] = 0
    BY CursorAssumption DEF None, Offsets

\* A writer with at most one pipeline on its way: taking it out leaves none.
LEMMA Single ==
    ASSUME NEW q \in Seq(Offsets), Len(q) <= 1, NEW i \in DOMAIN q
    PROVE  RemoveAt(q, i) = <<>> /\ q[i] \in Offsets /\ DOMAIN q = {1} /\ i = 1
<1>0. Len(q) \in Nat /\ DOMAIN q = 1 .. Len(q)
    OBVIOUS
<1>1. i = 1 /\ Len(q) = 1 /\ DOMAIN q = {1}
    BY <1>0
<1>2. SubSeq(q, 1, 0) = <<>> /\ SubSeq(q, 2, 1) = <<>>
    BY <1>1
<1>3. RemoveAt(q, 1) = SubSeq(q, 1, 0) \o SubSeq(q, 2, 1)
    BY <1>1 DEF RemoveAt
<1> QED
    BY <1>1, <1>2, <1>3

\* The part of the invariant that is about one connection.
WriterOK(s) ==
    /\ Len(inflight[s]) <= 1
    /\ \A t \in Tile :
        /\ pending[s][t] \in {0, latest[s][t]}
        /\ acked[s][t] <= latest[s][t]
        /\ \A i \in DOMAIN inflight[s] :
             /\ inflight[s][i][t] <= latest[s][t]
             /\ inflight[s][i][t] # 0 /\ pending[s][t] = 0 => inflight[s][i][t] = latest[s][t]
        /\ pending[s][t] = 0 /\ (\A i \in DOMAIN inflight[s] : inflight[s][i][t] = 0) =>
             acked[s][t] = latest[s][t] \/ state[s] = "gone"
        /\ \A i \in DOMAIN inflight[s] :
             inflight[s][i][t] # 0 => inflight[s][i][t] >= acked[s][t]

LEMMA Split == IInv <=> TypeOK /\ \A s \in Session : WriterOK(s)
    BY DEF IInv, OneFlush, WriterMaps, WriterInOrder, WriterOK

LEMMA SplitNext == IInv' <=> TypeOK' /\ \A s \in Session : WriterOK(s)'
    BY DEF IInv, OneFlush, WriterMaps, WriterInOrder, WriterOK

\* What holds of a connection goes on to hold when a step leaves it alone.
LEMMA Untouched ==
    ASSUME NEW s \in Session, WriterOK(s),
           latest'[s] = latest[s], pending'[s] = pending[s], acked'[s] = acked[s],
           inflight'[s] = inflight[s], state[s] = "gone" => state'[s] = "gone"
    PROVE  WriterOK(s)'
    BY DEF WriterOK

LEMMA Types ==
    ASSUME TypeOK, NEW s \in Session
    PROVE  /\ latest[s] \in Offsets /\ pending[s] \in Offsets /\ acked[s] \in Offsets
           /\ inflight[s] \in Seq(Offsets) /\ queued[s] \in Nat
           /\ \A t \in Tile : /\ latest[s][t] \in 0 .. MaxOffset
                              /\ pending[s][t] \in 0 .. MaxOffset
                              /\ acked[s][t] \in 0 .. MaxOffset
    BY CursorAssumption DEF TypeOK, Offsets

-----------------------------------------------------------------------------

\* A step of s that changes at most its own writer's maps.
LEMMA Others ==
    ASSUME IInv, NEW s \in Session, NEW r \in Session, r # s,
           latest'[r] = latest[r], pending'[r] = pending[r], acked'[r] = acked[r],
           inflight'[r] = inflight[r], state'[r] = state[r]
    PROVE  WriterOK(r)'
    BY Untouched, Split

\* Connections open, end and chain flushes without touching the maps.
LEMMA QuietStep ==
    ASSUME IInv, NEW s \in Session,
           Load(s) \/ Heartbeat(s) \/ CloseEvent(s) \/ Finish(s) \/ Leave(s)
    PROVE  IInv'
<1>1. TypeOK /\ \A r \in Session : WriterOK(r)
    BY Split
<1>2. TypeOK'
    <2>1. CASE Load(s)
        BY <1>1, <2>1 DEF TypeOK, Load, writer, hash, States
    <2>2. CASE Heartbeat(s)
        BY <1>1, <2>2, CursorAssumption DEF TypeOK, Heartbeat, ChainFlush, hash
    <2>3. CASE CloseEvent(s)
        BY <1>1, <2>3, CursorAssumption DEF TypeOK, CloseEvent, ChainFlush, hash, States
    <2>4. CASE Finish(s)
        BY <1>1, <2>4, CursorAssumption DEF TypeOK, Finish, ChainFlush, hash, States
    <2>5. CASE Leave(s)
        BY <1>1, <2>5 DEF TypeOK, Leave, writer, hash, States
    <2> QED
        BY <2>1, <2>2, <2>3, <2>4, <2>5
<1>3. /\ UNCHANGED <<latest, pending, inflight, acked>>
      /\ \A r \in Session : state[r] = "gone" => state'[r] = "gone"
    BY <1>1 DEF Load, Heartbeat, CloseEvent, Finish, Leave, ChainFlush, writer, TypeOK
<1>4. \A r \in Session : WriterOK(r)'
    BY <1>1, <1>3, Untouched
<1> QED
    BY <1>2, <1>4, SplitNext

LEMMA MarkStep ==
    ASSUME IInv, NEW s \in Session, NEW tile \in Tile, NEW offset \in 1 .. MaxOffset,
           Mark(s, tile, offset)
    PROVE  IInv'
<1>1. TypeOK /\ WriterOK(s)
    BY Split
<1>2. /\ latest' = [latest EXCEPT ![s][tile] = offset]
      /\ pending' = [pending EXCEPT ![s][tile] = offset]
      /\ UNCHANGED <<stored, hasTtl, by, rewound, state, loaded, queued, inflight, acked,
                     faults, expiries>>
      /\ offset > latest[s][tile]
    BY DEF Mark, hash
<1>3. TypeOK'
    <2>1. offset \in 0 .. MaxOffset
        BY CursorAssumption
    <2> QED
        BY <1>1, <1>2, <2>1 DEF TypeOK, Offsets
<1>4. \A r \in Session : r # s => latest'[r] = latest[r] /\ pending'[r] = pending[r]
    BY <1>1, <1>2 DEF TypeOK
<1>5. \A t \in Tile : /\ t # tile => latest'[s][t] = latest[s][t] /\ pending'[s][t] = pending[s][t]
                      /\ t = tile => latest'[s][t] = offset /\ pending'[s][t] = offset
    BY <1>1, <1>2 DEF TypeOK, Offsets
<1>6. \A i \in DOMAIN inflight[s], t \in Tile : inflight[s][i][t] \in 0 .. MaxOffset
    <2>1. inflight[s] \in Seq(Offsets)
        BY <1>1 DEF TypeOK
    <2>2. \A i \in DOMAIN inflight[s] : inflight[s][i] \in Offsets
        BY <2>1
    <2> QED
        BY <2>2 DEF Offsets
<1>7. WriterOK(s)'
    <2> SUFFICES ASSUME NEW t \in Tile
                 PROVE  /\ pending'[s][t] \in {0, latest'[s][t]}
                        /\ acked[s][t] <= latest'[s][t]
                        /\ \A i \in DOMAIN inflight[s] :
                             /\ inflight[s][i][t] <= latest'[s][t]
                             /\ inflight[s][i][t] # 0 /\ pending'[s][t] = 0
                                  => inflight[s][i][t] = latest'[s][t]
                        /\ pending'[s][t] = 0 /\ (\A i \in DOMAIN inflight[s] : inflight[s][i][t] = 0)
                             => acked[s][t] = latest'[s][t] \/ state[s] = "gone"
        BY <1>1, <1>2 DEF WriterOK
    <2>1. CASE t # tile
        BY <1>1, <1>5, <2>1 DEF WriterOK
    <2>2. CASE t = tile
        <3>1. latest'[s][t] = offset /\ pending'[s][t] = offset /\ offset # 0
            BY <1>5, <2>2
        <3>2. acked[s][t] <= offset /\ \A i \in DOMAIN inflight[s] : inflight[s][i][t] <= offset
            BY <1>1, <1>2, <1>6, <2>2, Types, CursorAssumption DEF WriterOK
        <3> QED
            BY <3>1, <3>2
    <2> QED
        BY <2>1, <2>2
<1> QED
    BY <1>2, <1>3, <1>4, <1>7, Others, SplitNext

LEMMA FlushStep ==
    ASSUME IInv, NEW s \in Session, FlushPending(s)
    PROVE  IInv'
<1>1. TypeOK /\ WriterOK(s) /\ inflight[s] = <<>>
    BY Split DEF FlushPending
<1>2. UNCHANGED <<stored, hasTtl, by, rewound, state, loaded, latest, acked, faults, expiries>>
    BY DEF FlushPending, hash
<1>3. queued' \in [Session -> 0 .. MaxQueued]
    BY <1>1, CursorAssumption DEF TypeOK, FlushPending
<1>4. CASE pending[s] = None
    <2>1. UNCHANGED <<pending, inflight>>
        BY <1>4 DEF FlushPending
    <2>2. TypeOK'
        BY <1>1, <1>2, <1>3, <2>1 DEF TypeOK
    <2> QED
        BY <1>2, <2>1, <2>2, Split, SplitNext, Untouched
<1>5. CASE pending[s] # None
    <2>1. /\ inflight' = [inflight EXCEPT ![s] = Append(@, pending[s])]
          /\ pending' = [pending EXCEPT ![s] = None]
        BY <1>5 DEF FlushPending
    <2>2. inflight'[s] = <<pending[s]>> /\ pending'[s] = None
        BY <1>1, <2>1 DEF TypeOK
    <2>3. \A r \in Session : r # s => inflight'[r] = inflight[r] /\ pending'[r] = pending[r]
        BY <1>1, <2>1 DEF TypeOK
    <2>4. TypeOK'
        <3>1. pending[s] \in Offsets /\ Append(inflight[s], pending[s]) \in Seq(Offsets)
            BY <1>1, Types
        <3>2. pending' \in [Session -> Offsets] /\ inflight' \in [Session -> Seq(Offsets)]
            BY <1>1, <2>1, <3>1, NoneType DEF TypeOK
        <3> QED
            BY <1>1, <1>2, <1>3, <3>2 DEF TypeOK
    <2>5. /\ Len(inflight'[s]) = 1 /\ DOMAIN inflight'[s] = {1} /\ inflight'[s][1] = pending[s]
          /\ \A t \in Tile : pending'[s][t] = 0
        BY <2>2, NoneType
    <2>6. WriterOK(s)'
        <3> SUFFICES ASSUME NEW t \in Tile
                     PROVE  /\ acked[s][t] <= latest[s][t]
                            /\ pending[s][t] <= latest[s][t]
                            /\ pending[s][t] # 0 => pending[s][t] = latest[s][t]
                            /\ pending[s][t] = 0 => acked[s][t] = latest[s][t] \/ state[s] = "gone"
                            /\ pending[s][t] # 0 => pending[s][t] >= acked[s][t]
            BY <1>2, <2>5 DEF WriterOK
        <3>1. DOMAIN inflight[s] = {}
            BY <1>1
        <3> QED
            BY <1>1, <3>1, Types DEF WriterOK
    <2> QED
        BY <1>2, <2>3, <2>4, <2>6, Others, SplitNext
<1> QED
    BY <1>4, <1>5

\* What a pipeline that reached Redis, or was lost on the way, does to the hash:
\* each tile keeps its offset or gets the one of the pipeline.
LEMMA HashFacts ==
    ASSUME TypeOK, NEW s \in Session, NEW e \in Offsets,
           Unanswered(s, e) \/ (Hset(s, e) /\ hasTtl' = TRUE)
    PROVE  /\ stored' \in Offsets /\ hasTtl' \in BOOLEAN
           /\ by' \in [Tile -> SUBSET Session] /\ rewound' \subseteq Tile
           /\ rewound \subseteq rewound'
           /\ \A t \in Tile :
                /\ stored'[t] < stored[t] => t \in rewound'
                /\ \/ stored'[t] = stored[t] /\ by'[t] = by[t]
                   \/ e[t] # 0 /\ stored'[t] = e[t] /\ by'[t] = {s}
           /\ Hset(s, e) => \A t \in Tile :
                stored'[t] = IF e[t] # 0 THEN e[t] ELSE stored[t]
<1>1. /\ stored \in Offsets /\ hasTtl \in BOOLEAN /\ by \in [Tile -> SUBSET Session]
      /\ rewound \subseteq Tile
    BY DEF TypeOK
<1>2. \A t \in Tile : stored[t] \in Nat
    BY <1>1 DEF Offsets
<1>3. CASE UNCHANGED hash
    <2>1. UNCHANGED <<stored, hasTtl, by, rewound>>
        BY <1>3 DEF hash
    <2>2. Hset(s, e) => \A t \in Tile : stored'[t] = IF e[t] # 0 THEN e[t] ELSE stored[t]
        BY <1>1, MergeType DEF Hset
    <2> QED
        BY <1>1, <1>2, <2>1, <2>2
<1>4. CASE Hset(s, e) /\ hasTtl' \in {hasTtl, TRUE}
    <2>1. /\ stored' = Merge(e, stored)
          /\ by' = [t \in Tile |-> IF e[t] # 0 THEN {s} ELSE by[t]]
          /\ rewound' = rewound \union {t \in Tile : stored'[t] < stored[t]}
        BY <1>4 DEF Hset
    <2>2. stored' \in Offsets /\ \A t \in Tile : stored'[t] = IF e[t] # 0 THEN e[t] ELSE stored[t]
        BY <1>1, <2>1, MergeType
    <2>3. by' \in [Tile -> SUBSET Session]
        BY <1>1, <2>1
    <2>4. \A t \in Tile : by'[t] = IF e[t] # 0 THEN {s} ELSE by[t]
        BY <2>1
    <2> QED
        BY <1>1, <1>4, <2>1, <2>2, <2>3, <2>4
<1> QED
    BY <1>3, <1>4 DEF Unanswered

LEMMA WrittenStep ==
    ASSUME IInv, NEW s \in Session, NEW i \in DOMAIN inflight[s], Written(s, i)
    PROVE  IInv'
<1>1. TypeOK /\ WriterOK(s)
    BY Split
<1> DEFINE e == inflight[s][i]
<1>2. RemoveAt(inflight[s], i) = <<>> /\ e \in Offsets /\ DOMAIN inflight[s] = {1} /\ i = 1
    BY <1>1, Types, Single DEF WriterOK
<1>3. /\ Hset(s, e) /\ hasTtl' = TRUE
      /\ acked' = [acked EXCEPT ![s] = Merge(e, @)]
      /\ inflight' = [inflight EXCEPT ![s] = <<>>]
      /\ UNCHANGED <<state, loaded, latest, pending, queued, faults, expiries>>
    BY <1>1, <1>2 DEF Written, TypeOK
<1> HIDE DEF e
<1>4. TypeOK'
    <2>1. /\ stored' \in Offsets /\ hasTtl' \in BOOLEAN
          /\ by' \in [Tile -> SUBSET Session] /\ rewound' \subseteq Tile
        BY <1>1, <1>2, <1>3, HashFacts
    <2>2. acked' \in [Session -> Offsets] /\ inflight' \in [Session -> Seq(Offsets)]
        BY <1>1, <1>2, <1>3, MergeType DEF TypeOK
    <2> QED
        BY <1>1, <1>3, <2>1, <2>2 DEF TypeOK
<1>5. /\ inflight'[s] = <<>> /\ acked'[s] = Merge(e, acked[s])
      /\ \A r \in Session : r # s => inflight'[r] = inflight[r] /\ acked'[r] = acked[r]
    BY <1>1, <1>3 DEF TypeOK
<1>6. \A t \in Tile : acked'[s][t] = IF e[t] # 0 THEN e[t] ELSE acked[s][t]
    BY <1>1, <1>2, <1>5, MergeType DEF TypeOK
<1>7. WriterOK(s)'
    <2>1. \A t \in Tile :
            /\ pending[s][t] \in {0, latest[s][t]}
            /\ acked[s][t] <= latest[s][t] /\ e[t] <= latest[s][t]
            /\ e[t] # 0 /\ pending[s][t] = 0 => e[t] = latest[s][t]
            /\ pending[s][t] = 0 /\ e[t] = 0 => acked[s][t] = latest[s][t] \/ state[s] = "gone"
        BY <1>1, <1>2 DEF WriterOK, e
    <2>2. DOMAIN inflight'[s] = {} /\ Len(inflight'[s]) = 0
        BY <1>5
    <2> QED
        BY <1>3, <1>6, <2>1, <2>2 DEF WriterOK
<1> QED
    BY <1>3, <1>4, <1>5, <1>7, Others, SplitNext

LEMMA FailStep ==
    ASSUME IInv, NEW s \in Session, NEW i \in DOMAIN inflight[s], WriteFails(s, i)
    PROVE  IInv'
<1>1. TypeOK /\ WriterOK(s)
    BY Split
<1> DEFINE e == inflight[s][i]
<1>2. RemoveAt(inflight[s], i) = <<>> /\ e \in Offsets /\ DOMAIN inflight[s] = {1} /\ i = 1
    BY <1>1, Types, Single DEF WriterOK
<1>3. /\ Unanswered(s, e)
      /\ pending' = [pending EXCEPT ![s] = Merge(@, e)]
      /\ inflight' = [inflight EXCEPT ![s] = <<>>]
      /\ faults + expiries < MaxFaults /\ faults' = faults + 1
      /\ UNCHANGED <<state, loaded, latest, queued, acked, expiries>>
    BY <1>1, <1>2 DEF WriteFails, Repend, TypeOK
<1> HIDE DEF e
<1>4. TypeOK'
    <2>1. /\ stored' \in Offsets /\ hasTtl' \in BOOLEAN
          /\ by' \in [Tile -> SUBSET Session] /\ rewound' \subseteq Tile
        BY <1>1, <1>2, <1>3, HashFacts
    <2>2. faults' \in 0 .. MaxFaults
        BY <1>1, <1>3, CursorAssumption DEF TypeOK
    <2>3. Merge(pending[s], e) \in Offsets
        BY <1>1, <1>2, MergeType DEF TypeOK
    <2>4. pending' \in [Session -> Offsets] /\ inflight' \in [Session -> Seq(Offsets)]
        BY <1>1, <1>3, <2>3 DEF TypeOK
    <2> QED
        BY <1>1, <1>3, <2>1, <2>2, <2>4 DEF TypeOK
<1>5. /\ inflight'[s] = <<>> /\ pending'[s] = Merge(pending[s], e)
      /\ \A r \in Session : r # s => inflight'[r] = inflight[r] /\ pending'[r] = pending[r]
    BY <1>1, <1>3 DEF TypeOK
<1>6. \A t \in Tile : pending'[s][t] = IF pending[s][t] # 0 THEN pending[s][t] ELSE e[t]
    BY <1>1, <1>2, <1>5, MergeType DEF TypeOK
<1>7. WriterOK(s)'
    <2>1. \A t \in Tile :
            /\ pending[s][t] \in {0, latest[s][t]}
            /\ acked[s][t] <= latest[s][t]
            /\ e[t] # 0 /\ pending[s][t] = 0 => e[t] = latest[s][t]
            /\ pending[s][t] = 0 /\ e[t] = 0 => acked[s][t] = latest[s][t] \/ state[s] = "gone"
        BY <1>1, <1>2 DEF WriterOK, e
    <2>2. DOMAIN inflight'[s] = {} /\ Len(inflight'[s]) = 0
        BY <1>5
    <2> QED
        BY <1>3, <1>6, <2>1, <2>2 DEF WriterOK
<1> QED
    BY <1>3, <1>4, <1>5, <1>7, Others, SplitNext

\* A pipeline that is sent again changes the hash only.
LEMMA ResendStep ==
    ASSUME IInv, NEW s \in Session, NEW i \in DOMAIN inflight[s], Resend(s, i)
    PROVE  IInv'
<1>1. TypeOK /\ \A r \in Session : WriterOK(r)
    BY Split
<1>2. inflight[s][i] \in Offsets
    BY <1>1, Types, Single DEF WriterOK
<1>3. /\ Unanswered(s, inflight[s][i]) /\ UNCHANGED <<state, loaded, latest, pending, queued, inflight, acked>>
      /\ faults + expiries < MaxFaults /\ faults' = faults + 1 /\ expiries' = expiries
    BY DEF Resend, writer
<1>4. TypeOK'
    <2>1. /\ stored' \in Offsets /\ hasTtl' \in BOOLEAN
          /\ by' \in [Tile -> SUBSET Session] /\ rewound' \subseteq Tile
        BY <1>1, <1>2, <1>3, HashFacts
    <2>2. faults' \in 0 .. MaxFaults
        BY <1>1, <1>3, CursorAssumption DEF TypeOK
    <2> QED
        BY <1>1, <1>3, <2>1, <2>2 DEF TypeOK
<1> QED
    BY <1>1, <1>3, <1>4, Untouched, SplitNext

LEMMA StrayStep ==
    ASSUME IInv, NEW s \in Session, NEW i \in DOMAIN inflight[s], Stray(s, i)
    PROVE  IInv'
<1>1. TypeOK /\ WriterOK(s)
    BY Split
<1>2. /\ RemoveAt(inflight[s], i) = <<>> /\ inflight[s][i] \in Offsets
    BY <1>1, Types, Single DEF WriterOK
<1>3. /\ Unanswered(s, inflight[s][i]) /\ state[s] = "gone"
      /\ inflight' = [inflight EXCEPT ![s] = <<>>]
      /\ UNCHANGED <<state, loaded, latest, pending, queued, acked, faults, expiries>>
    BY <1>1, <1>2 DEF Stray, TypeOK
<1>4. TypeOK'
    <2>1. /\ stored' \in Offsets /\ hasTtl' \in BOOLEAN
          /\ by' \in [Tile -> SUBSET Session] /\ rewound' \subseteq Tile
        BY <1>1, <1>2, <1>3, HashFacts
    <2>2. inflight' \in [Session -> Seq(Offsets)]
        BY <1>1, <1>3 DEF TypeOK
    <2> QED
        BY <1>1, <1>3, <2>1, <2>2 DEF TypeOK
<1>5. inflight'[s] = <<>> /\ \A r \in Session : r # s => inflight'[r] = inflight[r]
    BY <1>1, <1>3 DEF TypeOK
<1>6. WriterOK(s)'
    <2>1. DOMAIN inflight'[s] = {} /\ Len(inflight'[s]) = 0
        BY <1>5
    <2> QED
        BY <1>1, <1>3, <2>1 DEF WriterOK
<1> QED
    BY <1>3, <1>4, <1>5, <1>6, Others, SplitNext

LEMMA CrashStep ==
    ASSUME IInv, NEW s \in Session, Crash(s)
    PROVE  IInv'
<1>1. TypeOK /\ \A r \in Session : WriterOK(r)
    BY Split
<1>2. /\ state' = [state EXCEPT ![s] = "gone"]
      /\ queued' = [queued EXCEPT ![s] = 0]
      /\ faults + expiries < MaxFaults /\ faults' = faults + 1
      /\ UNCHANGED <<stored, hasTtl, by, rewound, loaded, latest, pending, inflight, acked, expiries>>
    BY DEF Crash, hash
<1>3. TypeOK'
    <2>1. faults' \in 0 .. MaxFaults
        BY <1>1, <1>2, CursorAssumption DEF TypeOK
    <2>2. state' \in [Session -> States] /\ queued' \in [Session -> 0 .. MaxQueued]
        BY <1>1, <1>2, CursorAssumption DEF TypeOK, States
    <2> QED
        BY <1>1, <1>2, <2>1, <2>2 DEF TypeOK
<1>4. \A r \in Session : state[r] = "gone" => state'[r] = "gone"
    BY <1>1, <1>2 DEF TypeOK
<1> QED
    BY <1>1, <1>2, <1>3, <1>4, Untouched, SplitNext

LEMMA ExpireStep == IInv /\ Expire => IInv'
<1> SUFFICES ASSUME IInv, Expire PROVE IInv'
    OBVIOUS
<1>1. TypeOK /\ \A r \in Session : WriterOK(r)
    BY Split
<1>2. TypeOK'
    <2>1. stored' \in Offsets /\ hasTtl' \in BOOLEAN
        BY NoneType DEF Expire
    <2>2. expiries' \in 0 .. MaxFaults
        BY <1>1, CursorAssumption DEF TypeOK, Expire
    <2>3. by' \in [Tile -> SUBSET Session]
        BY DEF Expire
    <2> QED
        BY <1>1, <2>1, <2>2, <2>3 DEF TypeOK, Expire, writer
<1>3. UNCHANGED <<latest, pending, inflight, acked, state>>
    BY DEF Expire, writer
<1> QED
    BY <1>1, <1>2, <1>3, Untouched, SplitNext

\* The invariant that ties a writer's maps to what Redis acknowledged holds in
\* every reachable state.
THEOREM Invariant == Spec => []IInv
<1>1. Init => IInv
    <2> SUFFICES ASSUME Init PROVE IInv
        OBVIOUS
    <2>1. TypeOK
        <3>1. 0 \in 0 .. MaxQueued /\ 0 \in 0 .. MaxFaults
            BY CursorAssumption
        <3>2. stored \in Offsets /\ hasTtl \in BOOLEAN /\ state \in [Session -> States]
            BY NoneType DEF Init, States
        <3>3. /\ loaded \in [Session -> Offsets] /\ latest \in [Session -> Offsets]
              /\ pending \in [Session -> Offsets] /\ acked \in [Session -> Offsets]
            BY NoneType DEF Init
        <3>4. /\ queued \in [Session -> 0 .. MaxQueued] /\ inflight \in [Session -> Seq(Offsets)]
              /\ faults \in 0 .. MaxFaults /\ expiries \in 0 .. MaxFaults
            BY <3>1 DEF Init
        <3>5. by \in [Tile -> SUBSET Session] /\ rewound \subseteq Tile
            BY DEF Init
        <3> QED
            BY <3>2, <3>3, <3>4, <3>5 DEF TypeOK
    <2>2. ASSUME NEW s \in Session PROVE WriterOK(s)
        <3>1. inflight[s] = <<>> /\ latest[s] = None /\ pending[s] = None /\ acked[s] = None
            BY DEF Init
        <3>2. DOMAIN inflight[s] = {} /\ Len(inflight[s]) = 0
            BY <3>1
        <3> QED
            BY <3>1, <3>2, NoneType DEF WriterOK
    <2> QED
        BY <2>1, <2>2, Split
<1>2. IInv /\ [Next]_vars => IInv'
    <2> SUFFICES ASSUME IInv, [Next]_vars PROVE IInv'
        OBVIOUS
    <2>1. ASSUME NEW s \in Session,
                 Load(s) \/ Heartbeat(s) \/ CloseEvent(s) \/ Finish(s) \/ Leave(s)
          PROVE  IInv'
        BY <2>1, QuietStep
    <2>2. ASSUME NEW s \in Session, FlushPending(s) PROVE IInv'
        BY <2>2, FlushStep
    <2>3. ASSUME NEW s \in Session, Crash(s) PROVE IInv'
        BY <2>3, CrashStep
    <2>4. ASSUME NEW s \in Session, NEW tile \in Tile, NEW offset \in 1 .. Newest[tile],
                 Mark(s, tile, offset)
          PROVE  IInv'
        <3>1. offset \in 1 .. MaxOffset
            BY CursorAssumption
        <3> QED
            BY <2>4, <3>1, MarkStep
    <2>5. ASSUME NEW s \in Session, NEW i \in DOMAIN inflight[s], Written(s, i) PROVE IInv'
        BY <2>5, WrittenStep
    <2>6. ASSUME NEW s \in Session, NEW i \in DOMAIN inflight[s], WriteFails(s, i) PROVE IInv'
        BY <2>6, FailStep
    <2>9. ASSUME NEW s \in Session, NEW i \in DOMAIN inflight[s], Resend(s, i) PROVE IInv'
        BY <2>9, ResendStep
    <2>10. ASSUME NEW s \in Session, NEW i \in DOMAIN inflight[s], Stray(s, i) PROVE IInv'
        BY <2>10, StrayStep
    <2>7. CASE Expire
        BY <2>7, ExpireStep
    <2>8. CASE UNCHANGED vars
        <3>1. TypeOK /\ \A r \in Session : WriterOK(r)
            BY Split
        <3>2. TypeOK' /\ UNCHANGED <<latest, pending, inflight, acked, state>>
            BY <2>8, <3>1 DEF vars, TypeOK
        <3> QED
            BY <3>1, <3>2, Untouched, SplitNext
    <2> QED
        BY <2>1, <2>2, <2>3, <2>4, <2>5, <2>6, <2>7, <2>8, <2>9, <2>10 DEF Next
<1> QED
    BY <1>1, <1>2, PTL DEF Spec

\* A writer runs one flush at a time.
THEOREM OneFlushTheorem == Spec => []OneFlush
    BY Invariant, PTL DEF IInv

\* The newest offset of every tile is acknowledged, on its way or pending as
\* long as the connection lives, whatever fails.
THEOREM NothingLostTheorem == Spec => []NothingLost
<1>1. IInv => NothingLost
    <2> SUFFICES ASSUME IInv, NEW s \in Session, NEW t \in Tile, Alive(s)
                 PROVE  latest[s][t] \in {acked[s][t], pending[s][t]}
                          \union {inflight[s][i][t] : i \in DOMAIN inflight[s]}
        BY DEF NothingLost
    <2>1. WriterOK(s) /\ state[s] # "gone"
        BY Split DEF Alive
    <2>2. CASE pending[s][t] # 0
        BY <2>1, <2>2 DEF WriterOK
    <2>3. CASE pending[s][t] = 0 /\ \E i \in DOMAIN inflight[s] : inflight[s][i][t] # 0
        BY <2>1, <2>3 DEF WriterOK
    <2>4. CASE pending[s][t] = 0 /\ \A i \in DOMAIN inflight[s] : inflight[s][i][t] = 0
        BY <2>1, <2>4 DEF WriterOK
    <2> QED
        BY <2>2, <2>3, <2>4
<1> QED
    BY <1>1, Invariant, PTL

\* A writer never sends Redis an offset behind one it acknowledged.
THEOREM WriterInOrderTheorem == Spec => []WriterInOrder
    BY Invariant, PTL DEF IInv

-----------------------------------------------------------------------------
\* The stored hash, whoever writes it.

\* A pipeline that was answered, sent again, given up or left by a dead backend.
Lands(s, i) == Written(s, i) \/ Resend(s, i) \/ WriteFails(s, i) \/ Stray(s, i)

LEMMA LandingFacts ==
    ASSUME IInv, NEW s \in Session, NEW i \in DOMAIN inflight[s], Lands(s, i)
    PROVE  /\ UNCHANGED <<state, loaded, latest, queued, expiries>>
           /\ inflight[s][i] \in Offsets /\ DOMAIN inflight[s] = {i}
           /\ inflight'[s] \in {<<>>, inflight[s]}
           /\ \A r \in Session : r # s => inflight'[r] = inflight[r] /\ acked'[r] = acked[r]
           /\ rewound \subseteq rewound'
           /\ \A t \in Tile :
                /\ stored'[t] < stored[t] => t \in rewound'
                /\ \/ stored'[t] = stored[t] /\ by'[t] = by[t]
                   \/ /\ inflight[s][i][t] # 0 /\ stored'[t] = inflight[s][i][t]
                      /\ by'[t] = {s}
                /\ acked'[s][t] \in {acked[s][t], stored'[t]}
           /\ faults' = 0 => faults = 0 /\ pending' = pending
<1>1. TypeOK /\ WriterOK(s)
    BY Split
<1> DEFINE e == inflight[s][i]
<1>2. RemoveAt(inflight[s], i) = <<>> /\ e \in Offsets /\ DOMAIN inflight[s] = {1} /\ i = 1
    BY <1>1, Types, Single DEF WriterOK
<1>3. /\ Unanswered(s, e) \/ (Hset(s, e) /\ hasTtl' = TRUE)
      /\ inflight' \in {inflight, [inflight EXCEPT ![s] = <<>>]}
      /\ UNCHANGED <<state, loaded, latest, queued, expiries>>
    BY <1>1, <1>2 DEF Lands, Written, Resend, WriteFails, Stray, writer
<1>4. /\ inflight'[s] \in {<<>>, inflight[s]}
      /\ \A r \in Session : r # s => inflight'[r] = inflight[r]
    BY <1>1, <1>3 DEF TypeOK
<1>5. \/ acked' = acked
      \/ Hset(s, e) /\ acked' = [acked EXCEPT ![s] = Merge(e, @)]
    BY <1>1, <1>2 DEF Lands, Written, Resend, WriteFails, Stray, writer
<1>6. faults' = 0 => faults = 0 /\ pending' = pending
    <2>1. faults \in Nat
        BY <1>1 DEF TypeOK
    <2> QED
        BY <2>1 DEF Lands, Written, Resend, WriteFails, Stray, writer
<1> HIDE DEF e
<1>7. ASSUME NEW t \in Tile PROVE acked'[s][t] \in {acked[s][t], stored'[t]}
    <2>1. CASE acked' = acked
        BY <2>1
    <2>2. CASE Hset(s, e) /\ acked' = [acked EXCEPT ![s] = Merge(e, @)]
        <3>1. acked[s] \in Offsets /\ acked'[s] = Merge(e, acked[s])
            BY <1>1, <2>2 DEF TypeOK
        <3>2. acked'[s][t] = IF e[t] # 0 THEN e[t] ELSE acked[s][t]
            BY <1>2, <3>1, MergeType
        <3>3. stored'[t] = IF e[t] # 0 THEN e[t] ELSE stored[t]
            <4>1. stored \in Offsets /\ stored' = Merge(e, stored)
                BY <1>1, <2>2 DEF TypeOK, Hset
            <4> QED
                BY <1>2, <4>1, MergeType
        <3> QED
            BY <3>2, <3>3
    <2> QED
        BY <1>5, <2>1, <2>2
<1>8. \A r \in Session : r # s => acked'[r] = acked[r]
    BY <1>1, <1>5 DEF TypeOK
<1>9. /\ rewound \subseteq rewound'
      /\ \A t \in Tile :
           /\ stored'[t] < stored[t] => t \in rewound'
           /\ \/ stored'[t] = stored[t] /\ by'[t] = by[t]
              \/ e[t] # 0 /\ stored'[t] = e[t] /\ by'[t] = {s}
    BY <1>1, <1>2, <1>3, HashFacts
<1> QED
    BY <1>2, <1>3, <1>4, <1>6, <1>7, <1>8, <1>9 DEF e

\* What AheadOfStored says of one connection.
AheadOK(s) ==
    \A t \in Tile : by[t] = {s} =>
        /\ stored[t] <= latest[s][t]
        /\ \A i \in DOMAIN inflight[s] :
             inflight[s][i][t] # 0 => stored[t] <= inflight[s][i][t]

LEMMA AheadStep ==
    ASSUME IInv, AheadOfStored, [Next]_vars
    PROVE  AheadOfStored'
<1> SUFFICES ASSUME NEW r \in Session PROVE AheadOK(r)'
    BY DEF AheadOfStored, AheadOK
<1>1. TypeOK /\ WriterOK(r) /\ AheadOK(r)
    BY Split DEF AheadOfStored, AheadOK
<1>2. \A t \in Tile : stored[t] \in Nat /\ latest[r][t] \in Nat /\ pending[r][t] \in Nat
    <2>1. stored \in Offsets /\ latest[r] \in Offsets /\ pending[r] \in Offsets
        BY <1>1 DEF TypeOK
    <2> QED
        BY <2>1 DEF Offsets
<1>3. ASSUME UNCHANGED <<stored, by, latest, inflight>> PROVE AheadOK(r)'
    BY <1>1, <1>3 DEF AheadOK
<1>4. ASSUME NEW s \in Session,
             Load(s) \/ Heartbeat(s) \/ CloseEvent(s) \/ Finish(s) \/ Leave(s) \/ Crash(s)
      PROVE  AheadOK(r)'
    BY <1>3, <1>4 DEF Load, Heartbeat, CloseEvent, Finish, Leave, Crash, ChainFlush, writer, hash
<1>5. ASSUME NEW s \in Session, NEW tile \in Tile, NEW offset \in 1 .. Newest[tile],
             Mark(s, tile, offset)
      PROVE  AheadOK(r)'
    <2>1. /\ offset > latest[s][tile] /\ latest' = [latest EXCEPT ![s][tile] = offset]
          /\ UNCHANGED <<stored, by, inflight>>
        BY <1>5 DEF Mark, hash
    <2>2. offset \in Nat
        BY CursorAssumption
    <2>3. \A t \in Tile : \/ latest'[r][t] = latest[r][t]
                          \/ latest'[r][t] = offset /\ offset > latest[r][t]
        BY <1>1, <2>1 DEF TypeOK, Offsets
    <2>4. \A t \in Tile : stored[t] <= latest[r][t] => stored[t] <= latest'[r][t]
        BY <1>2, <2>2, <2>3
    <2> QED
        BY <1>1, <2>1, <2>4 DEF AheadOK
<1>6. ASSUME NEW s \in Session, FlushPending(s) PROVE AheadOK(r)'
    <2>1. /\ inflight[s] = <<>> /\ UNCHANGED <<stored, by, latest>>
          /\ \/ inflight' = inflight
             \/ inflight' = [inflight EXCEPT ![s] = Append(@, pending[s])]
        BY <1>6 DEF FlushPending, hash
    <2>2. CASE inflight'[r] = inflight[r]
        BY <1>1, <2>1, <2>2 DEF AheadOK
    <2>3. CASE inflight'[r] # inflight[r]
        <3>1. inflight'[r] = <<pending[r]>>
            BY <1>1, <2>1, <2>3 DEF TypeOK
        <3>2. DOMAIN inflight'[r] = {1} /\ inflight'[r][1] = pending[r]
            BY <3>1
        <3>3. \A t \in Tile : pending[r][t] \in {0, latest[r][t]}
            BY <1>1 DEF WriterOK
        <3> QED
            BY <1>1, <2>1, <3>2, <3>3 DEF AheadOK
    <2> QED
        BY <2>2, <2>3
<1>7. ASSUME NEW s \in Session, NEW i \in DOMAIN inflight[s], Lands(s, i) PROVE AheadOK(r)'
    <2>1. /\ latest' = latest /\ DOMAIN inflight[s] = {i}
          /\ inflight'[s] \in {<<>>, inflight[s]}
          /\ \A q \in Session : q # s => inflight'[q] = inflight[q]
          /\ \A t \in Tile : \/ stored'[t] = stored[t] /\ by'[t] = by[t]
                             \/ stored'[t] = inflight[s][i][t] /\ by'[t] = {s}
        BY <1>7, LandingFacts
    <2>2. inflight'[r] \in {<<>>, inflight[r]}
        BY <2>1
    <2>3. /\ DOMAIN inflight'[r] \subseteq DOMAIN inflight[r]
          /\ \A j \in DOMAIN inflight'[r] : inflight'[r][j] = inflight[r][j]
        BY <2>2
    <2> SUFFICES ASSUME NEW t \in Tile, by'[t] = {r}
                 PROVE  /\ stored'[t] <= latest[r][t]
                        /\ \A j \in DOMAIN inflight'[r] :
                             inflight[r][j][t] # 0 => stored'[t] <= inflight[r][j][t]
        BY <2>1, <2>3 DEF AheadOK
    <2>4. CASE stored'[t] = stored[t] /\ by'[t] = by[t]
        BY <1>1, <2>3, <2>4 DEF AheadOK
    <2>5. CASE stored'[t] = inflight[s][i][t] /\ by'[t] = {s}
        <3>1. r = s
            BY <2>5
        <3>2. inflight[r][i] \in Offsets
            BY <1>7, <3>1, LandingFacts
        <3>3. inflight[r][i][t] \in Nat /\ inflight[r][i][t] <= latest[r][t]
            BY <1>1, <3>1, <3>2 DEF WriterOK, Offsets
        <3>4. \A j \in DOMAIN inflight'[r] : j = i
            BY <2>1, <2>3, <3>1
        <3> QED
            BY <2>5, <3>1, <3>3, <3>4
    <2> QED
        BY <2>1, <2>4, <2>5
<1>8. ASSUME Expire PROVE AheadOK(r)'
    BY <1>8 DEF Expire, AheadOK
<1>9. CASE UNCHANGED vars
    BY <1>3, <1>9 DEF vars
<1> QED
    BY <1>4, <1>5, <1>6, <1>7, <1>8, <1>9 DEF Next, Lands

LEMMA DoneStep ==
    ASSUME IInv, DoneIsStored, [Next]_vars
    PROVE  DoneIsStored'
<1> DEFINE Done(r) ==
        /\ state'[r] = "new" => latest'[r] = None
        /\ faults' = 0 /\ state'[r] = "finishing" /\ queued'[r] = 0 => pending'[r] = None
        /\ \A t \in Tile \ rewound' :
             /\ acked'[r][t] <= stored'[t]
             /\ faults' = 0 /\ state'[r] = "gone" => latest'[r][t] <= stored'[t]
<1> SUFFICES ASSUME expiries' = 0, NEW r \in Session PROVE Done(r)
    BY DEF DoneIsStored
<1>1. TypeOK /\ WriterOK(r)
    BY Split
<1>2. /\ faults \in Nat /\ expiries \in Nat /\ queued[r] \in Nat
      /\ \A t \in Tile : stored[t] \in Nat /\ latest[r][t] \in Nat /\ acked[r][t] \in Nat
    <2>1. stored \in Offsets /\ latest[r] \in Offsets /\ acked[r] \in Offsets
        BY <1>1 DEF TypeOK
    <2>2. queued[r] \in Nat
        BY <1>1, Types
    <2> QED
        BY <1>1, <2>1, <2>2 DEF Offsets, TypeOK
<1>3. ASSUME expiries = 0
      PROVE  /\ state[r] = "new" => latest[r] = None
             /\ faults = 0 /\ state[r] = "finishing" /\ queued[r] = 0 => pending[r] = None
             /\ \A t \in Tile \ rewound :
                  /\ acked[r][t] <= stored[t]
                  /\ faults = 0 /\ state[r] = "gone" => latest[r][t] <= stored[t]
    BY <1>3 DEF DoneIsStored
<1>4. ASSUME expiries = 0, faults' = 0 => faults = 0,
             UNCHANGED <<stored, rewound>>, acked'[r] = acked[r], latest'[r] = latest[r],
             state'[r] = "new" => state[r] = "new",
             faults' = 0 /\ state'[r] = "gone" => state[r] = "gone",
             faults' = 0 /\ state'[r] = "finishing" /\ queued'[r] = 0 =>
               \/ pending'[r] = None
               \/ state[r] = "finishing" /\ queued[r] = 0 /\ pending' = pending
      PROVE  Done(r)
    BY <1>3, <1>4
<1>5. ASSUME NEW s \in Session, Load(s) PROVE Done(r)
    <2>1. /\ state' = [state EXCEPT ![s] = "open"]
          /\ UNCHANGED <<stored, rewound, latest, acked, queued, pending, faults, expiries>>
        BY <1>5 DEF Load, writer, hash
    <2>2. state'[r] # "open" => state'[r] = state[r]
        BY <1>1, <2>1 DEF TypeOK
    <2> QED
        BY <1>4, <2>1, <2>2
<1>6. ASSUME NEW s \in Session, Heartbeat(s) \/ CloseEvent(s) \/ Finish(s) PROVE Done(r)
    <2>1. /\ UNCHANGED <<stored, rewound, latest, acked, pending, faults, expiries>>
          /\ queued' = [queued EXCEPT ![s] = @ + 1]
          /\ \/ state' = state
             \/ \E st \in {"closing", "finishing"} : state' = [state EXCEPT ![s] = st]
        BY <1>6 DEF Heartbeat, CloseEvent, Finish, ChainFlush, hash
    <2>2. r # s => queued'[r] = queued[r] /\ state'[r] = state[r]
        BY <1>1, <2>1 DEF TypeOK
    <2>3. r = s => queued'[r] # 0 /\ (state'[r] \in {"new", "gone"} => state'[r] = state[r])
        <3>1. queued'[s] = queued[s] + 1 /\ queued[s] \in Nat
            BY <1>1, <2>1 DEF TypeOK
        <3>2. state'[s] \in {state[s], "closing", "finishing"}
            BY <1>1, <2>1 DEF TypeOK
        <3> QED
            BY <3>1, <3>2
    <2> QED
        BY <1>4, <2>1, <2>2, <2>3
<1>7. ASSUME NEW s \in Session, Leave(s) PROVE Done(r)
    <2>1. /\ state[s] = "finishing" /\ queued[s] = 0 /\ inflight[s] = <<>>
          /\ state' = [state EXCEPT ![s] = "gone"]
          /\ UNCHANGED <<stored, rewound, latest, acked, queued, pending, faults, expiries>>
        BY <1>7 DEF Leave, writer, hash
    <2>2. CASE r # s
        <3>1. state'[r] = state[r]
            BY <1>1, <2>1, <2>2 DEF TypeOK
        <3> QED
            BY <1>4, <2>1, <3>1
    <2>3. CASE r = s
        <3>1. state'[r] = "gone" /\ DOMAIN inflight[r] = {}
            BY <1>1, <2>1, <2>3 DEF TypeOK
        <3>2. ASSUME faults = 0 PROVE \A t \in Tile : acked[r][t] = latest[r][t]
            <4>1. pending[r] = None
                BY <1>3, <2>1, <2>3, <3>2
            <4> QED
                BY <1>1, <2>1, <2>3, <3>1, <4>1, NoneType DEF WriterOK
        <3> QED
            BY <1>3, <2>1, <3>1, <3>2
    <2> QED
        BY <2>2, <2>3
<1>8. ASSUME NEW s \in Session, Crash(s) PROVE Done(r)
    <2>1. /\ state' = [state EXCEPT ![s] = "gone"] /\ faults' # 0
          /\ UNCHANGED <<stored, rewound, latest, acked, pending, expiries>>
        BY <1>2, <1>8 DEF Crash, hash
    <2>2. state'[r] \in {state[r], "gone"}
        BY <1>1, <2>1 DEF TypeOK
    <2> QED
        BY <1>4, <2>1, <2>2
<1>9. ASSUME NEW s \in Session, NEW tile \in Tile, NEW offset \in 1 .. Newest[tile],
             Mark(s, tile, offset)
      PROVE  Done(r)
    <2>1. /\ state[s] = "open" /\ latest' = [latest EXCEPT ![s][tile] = offset]
          /\ pending' = [pending EXCEPT ![s][tile] = offset]
          /\ UNCHANGED <<stored, rewound, acked, state, queued, faults, expiries>>
        BY <1>9 DEF Mark, hash
    <2>2. state[r] # "open" => latest'[r] = latest[r] /\ pending'[r] = pending[r]
        BY <1>1, <2>1 DEF TypeOK
    <2> QED
        BY <1>3, <2>1, <2>2
<1>10. ASSUME NEW s \in Session, FlushPending(s) PROVE Done(r)
    <2>1. /\ UNCHANGED <<stored, rewound, latest, acked, state, faults, expiries>>
          /\ queued[s] > 0 /\ queued' = [queued EXCEPT ![s] = @ - 1]
          /\ \/ pending[s] = None /\ pending' = pending
             \/ pending' = [pending EXCEPT ![s] = None]
        BY <1>10 DEF FlushPending, hash
    <2>2. r # s => queued'[r] = queued[r] /\ pending'[r] = pending[r]
        BY <1>1, <2>1 DEF TypeOK
    <2>3. r = s => pending'[r] = None
        BY <1>1, <2>1 DEF TypeOK
    <2> QED
        BY <1>3, <2>1, <2>2, <2>3
<1>11. ASSUME NEW s \in Session, NEW i \in DOMAIN inflight[s], Lands(s, i) PROVE Done(r)
    <2>1. /\ UNCHANGED <<state, latest, queued, expiries>> /\ rewound \subseteq rewound'
          /\ \A q \in Session : q # s => acked'[q] = acked[q]
          /\ \A t \in Tile : /\ stored'[t] < stored[t] => t \in rewound'
                             /\ acked'[s][t] \in {acked[s][t], stored'[t]}
          /\ faults' = 0 => faults = 0 /\ pending' = pending
        BY <1>11, LandingFacts
    <2>2. ASSUME NEW t \in Tile PROVE stored'[t] \in Nat
        <3>1. IInv'
            BY <1>11, WrittenStep, ResendStep, FailStep, StrayStep DEF Lands
        <3> QED
            BY <3>1 DEF IInv, TypeOK, Offsets
    <2>3. ASSUME NEW t \in Tile \ rewound'
          PROVE  /\ acked'[r][t] <= stored'[t]
                 /\ faults' = 0 /\ state'[r] = "gone" => latest'[r][t] <= stored'[t]
        <3>1. t \in Tile \ rewound /\ stored[t] <= stored'[t] /\ stored'[t] \in Nat
            BY <1>2, <2>1, <2>2
        <3>2. /\ acked[r][t] <= stored[t]
              /\ faults' = 0 /\ state[r] = "gone" => latest[r][t] <= stored[t]
            BY <1>3, <2>1, <3>1
        <3>3. acked'[r][t] = acked[r][t] \/ acked'[r][t] = stored'[t]
            BY <2>1
        <3> QED
            BY <1>2, <2>1, <3>1, <3>2, <3>3
    <2> QED
        BY <1>3, <2>1, <2>3
<1>12. ASSUME Expire PROVE FALSE
    BY <1>2, <1>12 DEF Expire
<1>13. CASE UNCHANGED vars
    BY <1>4, <1>13 DEF vars
<1> QED
    BY <1>5, <1>6, <1>7, <1>8, <1>9, <1>10, <1>11, <1>12, <1>13 DEF Next, Lands

\* Whatever overlaps, what a writer has on its way is at or ahead of what it
\* stored, and what Redis acknowledged, or an ended writer marked, is stored in
\* every tile that no write moved back.
THEOREM StoredTheorem == Spec => [](AheadOfStored /\ DoneIsStored)
<1>1. Init => AheadOfStored /\ DoneIsStored
    <2> SUFFICES ASSUME Init PROVE AheadOfStored /\ DoneIsStored
        OBVIOUS
    <2>1. AheadOfStored
        BY DEF Init, AheadOfStored
    <2>2. DoneIsStored
        BY NoneType DEF Init, DoneIsStored
    <2> QED
        BY <2>1, <2>2
<1>2. IInv /\ AheadOfStored /\ DoneIsStored /\ [Next]_vars => (AheadOfStored /\ DoneIsStored)'
    BY AheadStep, DoneStep
<1> QED
    BY <1>1, <1>2, Invariant, PTL DEF Spec

\* No flush, late, repeated or failing, moves the stored cursor back behind an
\* offset its own connection wrote.
THEOREM MonotoneTheorem == Spec => StoredMonotone
<1>1. IInv /\ AheadOfStored /\ [Next]_vars =>
        [\A t \in Tile : stored'[t] < stored[t] =>
           by'[t] # by[t] \/ expiries' = expiries + 1]_vars
    <2> SUFFICES ASSUME IInv, AheadOfStored, Next, NEW t \in Tile, stored'[t] < stored[t],
                        by'[t] = by[t]
                 PROVE  expiries' = expiries + 1
        OBVIOUS
    <2>1. stored[t] \in Nat
        BY DEF IInv, TypeOK, Offsets
    <2>2. stored' # stored
        BY <2>1
    <2>3. ASSUME NEW s \in Session, NEW i \in DOMAIN inflight[s], Lands(s, i) PROVE FALSE
        <3>1. \/ stored'[t] = stored[t]
              \/ inflight[s][i][t] # 0 /\ stored'[t] = inflight[s][i][t] /\ by'[t] = {s}
            BY <2>3, LandingFacts
        <3>2. inflight[s][i] \in Offsets
            BY <2>3, LandingFacts
        <3>3. inflight[s][i][t] \in Nat
            BY <3>2 DEF Offsets
        <3>4. by[t] = {s} /\ inflight[s][i][t] # 0 => stored[t] <= inflight[s][i][t]
            BY DEF AheadOfStored
        <3> QED
            BY <2>1, <3>1, <3>3, <3>4
    <2> QED
        BY <2>2, <2>3 DEF Next, Lands, Load, Heartbeat, CloseEvent, Finish, Leave, ChainFlush,
                          FlushPending, Crash, Mark, Expire, hash
<1> QED
    BY <1>1, Invariant, StoredTheorem, PTL DEF Spec, StoredMonotone

\* A connection that opens resumes at or behind everything Redis acknowledged
\* and every ended connection wrote, in the tiles no overlapping one moved back.
THEOREM ResumeTheorem == Spec => ResumesAfterLastFlush
<1>1. IInv /\ DoneIsStored /\ [Next]_vars =>
        [expiries = 0 => \A s, r \in Session, t \in Tile \ rewound :
           state[s] = "new" /\ state'[s] = "open" =>
             /\ loaded'[s][t] >= acked[r][t]
             /\ faults = 0 /\ state[r] = "gone" => loaded'[s][t] >= latest[r][t]]_vars
    <2> SUFFICES ASSUME IInv, DoneIsStored, Next, expiries = 0,
                        NEW s \in Session, NEW r \in Session, NEW t \in Tile \ rewound,
                        state[s] = "new", state'[s] = "open"
                 PROVE  /\ loaded'[s][t] >= acked[r][t]
                        /\ faults = 0 /\ state[r] = "gone" => loaded'[s][t] >= latest[r][t]
        OBVIOUS
    <2>1. TypeOK
        BY DEF IInv
    <2>2. Load(s)
        <3>1. ASSUME NEW q \in Session, Load(q) PROVE q = s
            BY <2>1, <3>1 DEF Load, TypeOK
        <3>2. ASSUME NEW q \in Session, CloseEvent(q) \/ Finish(q) \/ Leave(q) \/ Crash(q)
              PROVE  FALSE
            BY <2>1, <3>2 DEF CloseEvent, Finish, Leave, Crash, TypeOK
        <3>3. state' # state
            OBVIOUS
        <3> QED
            BY <3>1, <3>2, <3>3
               DEF Next, Heartbeat, FlushPending, Mark, Written, Resend, WriteFails, Stray, Expire
    <2>3. loaded'[s] = stored
        BY <2>1, <2>2 DEF Load, TypeOK
    <2>4. /\ acked[r][t] <= stored[t]
          /\ faults = 0 /\ state[r] = "gone" => latest[r][t] <= stored[t]
        BY DEF DoneIsStored
    <2>5. stored[t] \in Nat /\ acked[r][t] \in Nat /\ latest[r][t] \in Nat
        BY <2>1 DEF TypeOK, Offsets
    <2> QED
        BY <2>3, <2>4, <2>5
<1> QED
    BY <1>1, Invariant, StoredTheorem, PTL DEF Spec, ResumesAfterLastFlush
=============================================================================

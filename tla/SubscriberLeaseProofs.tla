----------------------- MODULE SubscriberLeaseProofs -----------------------
(***************************************************************************)
(* Proofs about subscriber leases for any number of connections and          *)
(* channels, any limits, lease, period and clock difference.  The limits hold *)
(* whatever a script prunes; that leases do not lapse depends on the clocks.  *)
(***************************************************************************)
EXTENDS SubscriberLease, FiniteSetTheorems, TLAPS

\* The invariant of one connection.
Counted(c) ==
    /\ c \in DOMAIN tenant \union lapsedTenant
    /\ c \in DOMAIN channel \union lapsedChannel

ConnOK(c) ==
    /\ Open(c) => Counted(c)
    /\ \A i, j \in DOMAIN line[c] : i < j /\ line[c][i].op = "zrem" => line[c][j].op = "zrem"
    /\ \A i \in DOMAIN line[c] : line[c][i].op = "zadd" => Counted(c)
    /\ \A i \in DOMAIN line[c] : Open(c) => line[c][i].op = "zadd"
    /\ state[c] = "idle" => line[c] = <<>> /\ c \notin DOMAIN tenant \union DOMAIN channel

LEMMA Split ==
    IInv <=> TypeOK /\ WithinTenantLimit /\ WithinChannelLimit
             /\ \A c \in Connection : ConnOK(c)
    BY DEF IInv, OpenIsCounted, LinesOK, ConnOK, Counted

LEMMA SplitNext ==
    IInv' <=> TypeOK' /\ WithinTenantLimit' /\ WithinChannelLimit'
              /\ \A c \in Connection : ConnOK(c)'
    BY DEF IInv, OpenIsCounted, LinesOK, ConnOK, Counted

LEMMA ScoreFacts ==
    /\ \A n \in Scores : Older(n) \in Scores
    /\ \A now \in Skew : Lease + now \in Scores
    /\ -MaxSkew \in Scores
    BY LeaseAssumption DEF Scores, Skew, Older

\* Fewer connections are not more.
LEMMA Fewer ==
    ASSUME NEW A \in SUBSET Connection, NEW B \in SUBSET A
    PROVE  Cardinality(B) \in Nat /\ Cardinality(A) \in Nat /\ Cardinality(B) <= Cardinality(A)
<1>1. IsFiniteSet(A)
    BY LeaseAssumption, FS_Subset
<1>2. IsFiniteSet(B) /\ Cardinality(B) <= Cardinality(A)
    BY <1>1, FS_Subset
<1> QED
    BY <1>1, <1>2, FS_CardinalityType

\* One more is one more at most.
LEMMA OneMore ==
    ASSUME NEW A \in SUBSET Connection, NEW c, NEW B \in SUBSET (A \union {c}), c \in Connection
    PROVE  Cardinality(B) <= Cardinality(A) + 1
<1>1. IsFiniteSet(A) /\ Cardinality(A) \in Nat
    BY LeaseAssumption, FS_Subset, FS_CardinalityType
<1>2. Cardinality(A \union {c}) <= Cardinality(A) + 1
    <2>1. CASE c \in A
        <3>1. A \union {c} = A
            BY <2>1
        <3>2. Cardinality(A) <= Cardinality(A) + 1
            BY <1>1
        <3> QED
            BY <3>1, <3>2, Zenon
    <2>2. CASE c \notin A
        <3>1. Cardinality(A \union {c}) = Cardinality(A) + 1
            BY <1>1, <2>2, FS_AddElement
        <3> QED
            BY <1>1, <3>1
    <2> QED
        BY <2>1, <2>2
<1>3. A \union {c} \in SUBSET Connection
    OBVIOUS
<1>4. /\ Cardinality(B) \in Nat /\ Cardinality(A \union {c}) \in Nat
      /\ Cardinality(B) <= Cardinality(A \union {c})
    BY <1>3, Fewer
<1> QED
    BY <1>1, <1>2, <1>4

\* Limits survive a step that adds no member outside the lapsed ones.
LEMMA LimitsKept ==
    ASSUME TypeOK, TypeOK', WithinTenantLimit, WithinChannelLimit,
           DOMAIN tenant' \ lapsedTenant' \subseteq DOMAIN tenant \ lapsedTenant,
           DOMAIN channel' \ lapsedChannel' \subseteq DOMAIN channel \ lapsedChannel
    PROVE  WithinTenantLimit' /\ WithinChannelLimit'
<1>1. WithinTenantLimit'
    <2>1. /\ DOMAIN tenant \ lapsedTenant \in SUBSET Connection
          /\ DOMAIN tenant' \ lapsedTenant' \in SUBSET (DOMAIN tenant \ lapsedTenant)
        BY DEF TypeOK
    <2>2. /\ Cardinality(DOMAIN tenant' \ lapsedTenant') \in Nat
          /\ Cardinality(DOMAIN tenant \ lapsedTenant) \in Nat
          /\ Cardinality(DOMAIN tenant' \ lapsedTenant') <= Cardinality(DOMAIN tenant \ lapsedTenant)
        BY <2>1, Fewer
    <2> QED
        BY <2>2, LeaseAssumption DEF WithinTenantLimit
<1>2. WithinChannelLimit'
    <2> SUFFICES ASSUME MaxChannel > 0, NEW ch \in Channel
                 PROVE  Cardinality((DOMAIN channel' \intersect Of(ch)) \ lapsedChannel') <= MaxChannel
        BY DEF WithinChannelLimit, Of
    <2> DEFINE A == (DOMAIN channel \intersect Of(ch)) \ lapsedChannel
    <2> DEFINE C == (DOMAIN channel' \intersect Of(ch)) \ lapsedChannel'
    <2>1. A \in SUBSET Connection /\ C \in SUBSET A
        BY DEF TypeOK
    <2>2. Cardinality(A) <= MaxChannel
        BY DEF WithinChannelLimit
    <2> HIDE DEF A, C
    <2>3. Cardinality(C) \in Nat /\ Cardinality(A) \in Nat /\ Cardinality(C) <= Cardinality(A)
        BY <2>1, Fewer
    <2>4. Cardinality(C) <= MaxChannel
        BY <2>2, <2>3, LeaseAssumption
    <2> QED
        BY <2>4 DEF C
<1> QED
    BY <1>1, <1>2

\* A connection the step leaves alone stays as it is, as long as it is counted
\* as before.
LEMMA ConnKept ==
    ASSUME NEW c \in Connection, ConnOK(c), state'[c] = state[c], line'[c] = line[c],
           Counted(c) /\ MayRefresh(c) => Counted(c)',
           DOMAIN tenant' \union DOMAIN channel' \subseteq
             DOMAIN tenant \union DOMAIN channel \union {d \in Connection : d # c}
    PROVE  ConnOK(c)'
<1>1. \A i \in DOMAIN line[c] : line[c] # <<>>
    OBVIOUS
<1>2. /\ Open(c)' = Open(c)
      /\ Open(c) => Counted(c) /\ MayRefresh(c)
      /\ \A i \in DOMAIN line[c] : line[c][i].op = "zadd" => Counted(c) /\ MayRefresh(c)
    BY <1>1 DEF ConnOK, Open, MayRefresh
<1> QED
    BY <1>2 DEF ConnOK, Open

\* What a script prunes of a connection that may still refresh is recorded.
LEMMA PruneCounts ==
    ASSUME TypeOK, NEW c \in Connection, NEW now \in Skew, Lapse(c, now), NEW d \in Connection,
           Counted(d), MayRefresh(d),
           DOMAIN tenant \ Pruned(c, now).tenant \subseteq DOMAIN tenant',
           DOMAIN channel \ Pruned(c, now).channel \subseteq DOMAIN channel'
    PROVE  Counted(d)'
    BY DEF Lapse, Counted

LEMMA PruneTypes ==
    ASSUME TypeOK, NEW c \in Connection, NEW now \in Skew, Lapse(c, now)
    PROVE  /\ Pruned(c, now).tenant \subseteq DOMAIN tenant
           /\ Pruned(c, now).channel \subseteq DOMAIN channel
           /\ lapsedTenant' \subseteq Connection /\ lapsedChannel' \subseteq Connection
           /\ lapsedTenant \subseteq lapsedTenant' /\ lapsedChannel \subseteq lapsedChannel'
    BY DEF TypeOK, Lapse, Pruned, Due

LEMMA RefuseStep ==
    ASSUME IInv, NEW c \in Connection, NEW now \in Skew, Refuse(c, now)
    PROVE  IInv'
<1>1. TypeOK /\ WithinTenantLimit /\ WithinChannelLimit /\ \A d \in Connection : ConnOK(d)
    BY Split
<1>2. /\ DOMAIN tenant' = DOMAIN tenant \ Pruned(c, now).tenant
      /\ DOMAIN channel' = DOMAIN channel \ Pruned(c, now).channel
      /\ \A d \in DOMAIN tenant' : tenant'[d] = tenant[d]
      /\ \A d \in DOMAIN channel' : channel'[d] = channel[d]
    <2> DEFINE P == Pruned(c, now).tenant
    <2> DEFINE Q == Pruned(c, now).channel
    <2>1. tenant' = Without(tenant, P) /\ channel' = Without(channel, Q)
        BY DEF Refuse
    <2> HIDE DEF P, Q
    <2>2. /\ DOMAIN tenant' = DOMAIN tenant \ P
          /\ \A d \in DOMAIN tenant' : tenant'[d] = tenant[d]
        BY <2>1 DEF Without, Restrict
    <2>3. /\ DOMAIN channel' = DOMAIN channel \ Q
          /\ \A d \in DOMAIN channel' : channel'[d] = channel[d]
        BY <2>1 DEF Without, Restrict
    <2> QED
        BY <2>2, <2>3 DEF P, Q
<1>2a. Lapse(c, now) /\ UNCHANGED <<state, beat, line, faults>>
    BY DEF Refuse
<1>3. /\ lapsedTenant' \subseteq Connection /\ lapsedChannel' \subseteq Connection
      /\ lapsedTenant \subseteq lapsedTenant' /\ lapsedChannel \subseteq lapsedChannel'
    BY <1>1, <1>2a, PruneTypes
<1>4. TypeOK'
    <2>1. /\ DOMAIN tenant' \subseteq Connection
          /\ \A d \in DOMAIN tenant' : tenant'[d] \in Scores
        BY <1>1, <1>2 DEF TypeOK
    <2>2. /\ DOMAIN channel' \subseteq Connection
          /\ \A d \in DOMAIN channel' : channel'[d] \in Scores
        BY <1>1, <1>2 DEF TypeOK
    <2> QED
        BY <1>1, <1>2a, <1>3, <2>1, <2>2 DEF TypeOK
<1>5. WithinTenantLimit' /\ WithinChannelLimit'
    BY <1>1, <1>2, <1>3, <1>4, LimitsKept
<1>6. ASSUME NEW d \in Connection PROVE ConnOK(d)'
    <2>1. Counted(d) /\ MayRefresh(d) => Counted(d)'
        BY <1>1, <1>2, <1>2a, PruneCounts
    <2> QED
        BY <1>1, <1>2, <1>2a, <2>1, ConnKept
<1> QED
    BY <1>4, <1>5, <1>6, SplitNext

LEMMA AdmitStep ==
    ASSUME IInv, NEW c \in Connection, NEW now \in Skew, Admit(c, now)
    PROVE  IInv'
<1>1. TypeOK /\ WithinTenantLimit /\ WithinChannelLimit /\ \A d \in Connection : ConnOK(d)
    BY Split
<1>2. /\ DOMAIN tenant' = (DOMAIN tenant \ Pruned(c, now).tenant) \union {c}
      /\ DOMAIN channel' = (DOMAIN channel \ Pruned(c, now).channel) \union {c}
      /\ \A d \in DOMAIN tenant' : tenant'[d] = IF d = c THEN Lease + now ELSE tenant[d]
      /\ \A d \in DOMAIN channel' : channel'[d] = IF d = c THEN Lease + now ELSE channel[d]
    <2> DEFINE P == Pruned(c, now).tenant
    <2> DEFINE Q == Pruned(c, now).channel
    <2>1. /\ tenant' = With(Without(tenant, P), c, Lease + now)
          /\ channel' = With(Without(channel, Q), c, Lease + now)
        BY DEF Admit
    <2> HIDE DEF P, Q
    <2>2. /\ DOMAIN tenant' = (DOMAIN tenant \ P) \union {c}
          /\ \A d \in DOMAIN tenant' : tenant'[d] = IF d = c THEN Lease + now ELSE tenant[d]
        BY <2>1 DEF Without, With, Restrict
    <2>3. /\ DOMAIN channel' = (DOMAIN channel \ Q) \union {c}
          /\ \A d \in DOMAIN channel' : channel'[d] = IF d = c THEN Lease + now ELSE channel[d]
        BY <2>1 DEF Without, With, Restrict
    <2> QED
        BY <2>2, <2>3 DEF P, Q
<1>3. /\ Lapse(c, now) /\ UNCHANGED <<line, faults>>
      /\ state' = [state EXCEPT ![c] = "open"] /\ beat' = [beat EXCEPT ![c] = 0]
      /\ state[c] = "idle" /\ HasPlace(c, now)
    BY DEF Admit
<1>4. /\ lapsedTenant' \subseteq Connection /\ lapsedChannel' \subseteq Connection
      /\ lapsedTenant \subseteq lapsedTenant' /\ lapsedChannel \subseteq lapsedChannel'
      /\ Pruned(c, now).tenant \subseteq DOMAIN tenant
      /\ Pruned(c, now).channel \subseteq DOMAIN channel
    BY <1>1, <1>3, PruneTypes
<1>5. TypeOK'
    <2>1. /\ DOMAIN tenant' \subseteq Connection
          /\ \A d \in DOMAIN tenant' : tenant'[d] \in Scores
        BY <1>1, <1>2, ScoreFacts DEF TypeOK
    <2>2. /\ DOMAIN channel' \subseteq Connection
          /\ \A d \in DOMAIN channel' : channel'[d] \in Scores
        BY <1>1, <1>2, ScoreFacts DEF TypeOK
    <2>3. beat' \in [Connection -> 0 .. Period]
        BY <1>1, <1>3, LeaseAssumption DEF TypeOK
    <2> QED
        BY <1>1, <1>3, <1>4, <2>1, <2>2, <2>3 DEF TypeOK
<1>6. WithinTenantLimit'
    <2> DEFINE A == DOMAIN tenant \ Pruned(c, now).tenant
    <2> DEFINE C == DOMAIN tenant' \ lapsedTenant'
    <2>1. A \in SUBSET Connection /\ C \in SUBSET (A \union {c})
        BY <1>1, <1>2 DEF TypeOK
    <2>2. MaxTenant > 0 => Cardinality(A) < MaxTenant
        BY <1>3 DEF HasPlace
    <2> HIDE DEF A, C
    <2>3. Cardinality(C) <= Cardinality(A) + 1
        BY <2>1, OneMore
    <2>4. Cardinality(A) \in Nat /\ IsFiniteSet(C) /\ Cardinality(C) \in Nat
        <3>1. IsFiniteSet(A) /\ IsFiniteSet(C)
            BY <2>1, LeaseAssumption, FS_Subset, FS_AddElement
        <3> QED
            BY <3>1, FS_CardinalityType
    <2>5. MaxTenant > 0 => Cardinality(C) <= MaxTenant
        BY <2>2, <2>3, <2>4, LeaseAssumption
    <2> QED
        BY <2>5 DEF WithinTenantLimit, C
<1>7. WithinChannelLimit'
    <2> SUFFICES ASSUME MaxChannel > 0, NEW ch \in Channel
                 PROVE  Cardinality((DOMAIN channel' \intersect Of(ch)) \ lapsedChannel') <= MaxChannel
        BY DEF WithinChannelLimit, Of
    <2> DEFINE C == (DOMAIN channel' \intersect Of(ch)) \ lapsedChannel'
    <2>1. CASE ch = ChannelOf[c]
        <3> DEFINE A == (DOMAIN channel \intersect Of(ChannelOf[c])) \ Pruned(c, now).channel
        <3>1. A \in SUBSET Connection /\ C \in SUBSET (A \union {c})
            BY <1>1, <1>2, <2>1 DEF TypeOK
        <3>2. Cardinality(A) < MaxChannel
            BY <1>3 DEF HasPlace
        <3> HIDE DEF A, C
        <3>3. Cardinality(C) <= Cardinality(A) + 1
            BY <3>1, OneMore
        <3>4. Cardinality(A) \in Nat /\ Cardinality(C) \in Nat
            <4>1. IsFiniteSet(A) /\ IsFiniteSet(C)
                BY <3>1, LeaseAssumption, FS_Subset, FS_AddElement
            <4> QED
                BY <4>1, FS_CardinalityType
        <3>5. Cardinality(C) <= MaxChannel
            BY <3>2, <3>3, <3>4, LeaseAssumption
        <3> QED
            BY <3>5 DEF C
    <2>2. CASE ch # ChannelOf[c]
        <3> DEFINE A == (DOMAIN channel \intersect Of(ch)) \ lapsedChannel
        <3>0. c \notin Of(ch)
            BY <2>2 DEF Of
        <3>1. A \in SUBSET Connection /\ C \in SUBSET A
            BY <1>1, <1>2, <1>4, <3>0 DEF TypeOK
        <3>2. Cardinality(A) <= MaxChannel
            BY <1>1 DEF WithinChannelLimit
        <3> HIDE DEF A, C
        <3>3. Cardinality(C) \in Nat /\ Cardinality(A) \in Nat /\ Cardinality(C) <= Cardinality(A)
            BY <3>1, Fewer
        <3>4. Cardinality(C) <= MaxChannel
            BY <3>2, <3>3, LeaseAssumption
        <3> QED
            BY <3>4 DEF C
    <2> QED
        BY <2>1, <2>2
<1>8. ASSUME NEW d \in Connection PROVE ConnOK(d)'
    <2>1. CASE d # c
        <3>1. Counted(d) /\ MayRefresh(d) => Counted(d)'
            BY <1>1, <1>2, <1>3, PruneCounts
        <3>2. state'[d] = state[d] /\ line'[d] = line[d]
            BY <1>1, <1>3, <2>1 DEF TypeOK
        <3> QED
            BY <1>1, <1>2, <2>1, <3>1, <3>2, ConnKept
    <2>2. CASE d = c
        <3>1. line'[c] = <<>> /\ state'[c] = "open"
            BY <1>1, <1>3 DEF ConnOK, TypeOK
        <3>2. Counted(c)'
            BY <1>2 DEF Counted
        <3>3. DOMAIN line'[c] = {}
            BY <3>1
        <3> QED
            BY <2>2, <3>1, <3>2, <3>3 DEF ConnOK, Open
    <2> QED
        BY <2>1, <2>2
<1> QED
    BY <1>5, <1>6, <1>7, <1>8, SplitNext

\* Two commands behind a line.
LEMMA TwoMore ==
    ASSUME NEW q \in Seq(Commands), NEW a \in Commands, NEW b \in Commands
    PROVE  /\ q \o <<a, b>> \in Seq(Commands)
           /\ \A i \in DOMAIN (q \o <<a, b>>) :
                \/ i \in DOMAIN q /\ (q \o <<a, b>>)[i] = q[i]
                \/ i > Len(q) /\ (q \o <<a, b>>)[i] \in {a, b}
           /\ Len(q) \in Nat /\ DOMAIN q = 1 .. Len(q)
           /\ DOMAIN (q \o <<a, b>>) \subseteq Nat
    OBVIOUS

LEMMA HeartbeatStep ==
    ASSUME IInv, NEW c \in Connection, NEW now \in Skew, Heartbeat(c, now)
    PROVE  IInv'
<1> DEFINE a == ZAdd("tenant", Lease + now)
<1> DEFINE b == ZAdd("channel", Lease + now)
<1>1. TypeOK /\ WithinTenantLimit /\ WithinChannelLimit /\ \A d \in Connection : ConnOK(d)
    BY Split
<1>2. a \in Commands /\ b \in Commands /\ a.op = "zadd" /\ b.op = "zadd"
    BY ScoreFacts DEF Commands, ZAdd
<1>3. /\ Open(c) /\ line' = [line EXCEPT ![c] = line[c] \o <<a, b>>]
      /\ beat' = [beat EXCEPT ![c] = 0]
      /\ UNCHANGED <<tenant, channel, state, lapsedTenant, lapsedChannel, faults>>
    BY DEF Heartbeat
<1> HIDE DEF a, b
<1>4. line[c] \in Seq(Commands)
    BY <1>1 DEF TypeOK
<1>5. /\ line[c] \o <<a, b>> \in Seq(Commands)
      /\ \A i \in DOMAIN (line[c] \o <<a, b>>) :
           \/ i \in DOMAIN line[c] /\ (line[c] \o <<a, b>>)[i] = line[c][i]
           \/ i > Len(line[c]) /\ (line[c] \o <<a, b>>)[i] \in {a, b}
    BY <1>2, <1>4, TwoMore
<1>6. line'[c] = line[c] \o <<a, b>> /\ \A d \in Connection : d # c => line'[d] = line[d]
    BY <1>1, <1>3 DEF TypeOK
<1>7. TypeOK'
    <2>1. line' \in [Connection -> Seq(Commands)]
        BY <1>1, <1>3, <1>5 DEF TypeOK
    <2>2. beat' \in [Connection -> 0 .. Period]
        BY <1>1, <1>3, LeaseAssumption DEF TypeOK
    <2> QED
        BY <1>1, <1>3, <2>1, <2>2 DEF TypeOK
<1>8. WithinTenantLimit' /\ WithinChannelLimit'
    BY <1>1, <1>3, <1>7, LimitsKept
<1>9. ASSUME NEW d \in Connection PROVE ConnOK(d)'
    <2>1. CASE d # c
        BY <1>1, <1>3, <1>6, <2>1, ConnKept DEF Counted
    <2>2. CASE d = c
        <3>1. Counted(c)'
            BY <1>1, <1>3 DEF ConnOK, Counted
        <3>2. \A i \in DOMAIN line'[c] : line'[c][i].op = "zadd"
            BY <1>1, <1>2, <1>3, <1>5, <1>6 DEF ConnOK
        <3>3. state'[c] = "open"
            BY <1>3 DEF Open
        <3>4. "zadd" # "zrem" /\ "open" # "idle"
            OBVIOUS
        <3> QED
            BY <2>2, <3>1, <3>2, <3>3, <3>4 DEF ConnOK
    <2> QED
        BY <2>1, <2>2
<1> QED
    BY <1>7, <1>8, <1>9, SplitNext

LEMMA EndStep ==
    ASSUME IInv, NEW c \in Connection, End(c)
    PROVE  IInv'
<1> DEFINE a == ZRem("tenant")
<1> DEFINE b == ZRem("channel")
<1>1. TypeOK /\ WithinTenantLimit /\ WithinChannelLimit /\ \A d \in Connection : ConnOK(d)
    BY Split
<1>2. a \in Commands /\ b \in Commands /\ a.op = "zrem" /\ b.op = "zrem"
    BY ScoreFacts DEF Commands, ZRem
<1>3. /\ Open(c) /\ line' = [line EXCEPT ![c] = line[c] \o <<a, b>>]
      /\ state' = [state EXCEPT ![c] = "ended"]
      /\ UNCHANGED <<tenant, channel, beat, lapsedTenant, lapsedChannel, faults>>
    BY DEF End
<1> HIDE DEF a, b
<1>4. line[c] \in Seq(Commands)
    BY <1>1 DEF TypeOK
<1>5. /\ line[c] \o <<a, b>> \in Seq(Commands)
      /\ Len(line[c]) \in Nat /\ DOMAIN line[c] = 1 .. Len(line[c])
      /\ DOMAIN (line[c] \o <<a, b>>) \subseteq Nat
      /\ \A i \in DOMAIN (line[c] \o <<a, b>>) :
           \/ i \in DOMAIN line[c] /\ (line[c] \o <<a, b>>)[i] = line[c][i]
           \/ i > Len(line[c]) /\ (line[c] \o <<a, b>>)[i] \in {a, b}
    BY <1>2, <1>4, TwoMore
<1>6. line'[c] = line[c] \o <<a, b>> /\ \A d \in Connection : d # c => line'[d] = line[d]
    BY <1>1, <1>3 DEF TypeOK
<1>7. TypeOK'
    <2>1. line' \in [Connection -> Seq(Commands)]
        BY <1>1, <1>3, <1>5 DEF TypeOK
    <2>2. state' \in [Connection -> {"idle", "open", "ended", "crashed"}]
        BY <1>1, <1>3 DEF TypeOK
    <2> QED
        BY <1>1, <1>3, <2>1, <2>2 DEF TypeOK
<1>8. WithinTenantLimit' /\ WithinChannelLimit'
    BY <1>1, <1>3, <1>7, LimitsKept
<1>9. ASSUME NEW d \in Connection PROVE ConnOK(d)'
    <2>1. CASE d # c
        <3>1. state'[d] = state[d]
            BY <1>1, <1>3, <2>1 DEF TypeOK
        <3> QED
            BY <1>1, <1>3, <1>6, <2>1, <3>1, ConnKept DEF Counted
    <2>2. CASE d = c
        <3>1. Counted(c)'
            BY <1>1, <1>3 DEF ConnOK, Counted
        <3>2. \A i \in DOMAIN line'[c] :
                \/ i <= Len(line[c]) /\ line'[c][i].op = "zadd"
                \/ i > Len(line[c]) /\ line'[c][i].op = "zrem"
            BY <1>1, <1>2, <1>3, <1>5, <1>6 DEF ConnOK
        <3>3. state'[c] = "ended"
            BY <1>1, <1>3 DEF TypeOK
        <3>4. "zadd" # "zrem" /\ "ended" # "idle" /\ "ended" # "open"
            OBVIOUS
        <3>5. \A i, j \in DOMAIN line'[c] :
                 i < j /\ line'[c][i].op = "zrem" => line'[c][j].op = "zrem"
            BY <1>5, <1>6, <3>2, <3>4
        <3> QED
            BY <2>2, <3>1, <3>3, <3>4, <3>5 DEF ConnOK, Open
    <2> QED
        BY <2>1, <2>2
<1> QED
    BY <1>7, <1>8, <1>9, SplitNext

\* What is left of a line when its head is gone.
LEMMA Shorter ==
    ASSUME NEW q \in Seq(Commands), q # <<>>
    PROVE  /\ Tail(q) \in Seq(Commands) /\ Head(q) \in Commands /\ Head(q) = q[1]
           /\ 1 \in DOMAIN q
           /\ \A i \in DOMAIN Tail(q) : /\ i \in Nat /\ i + 1 \in DOMAIN q /\ 1 < i + 1
                                        /\ Tail(q)[i] = q[i + 1]
    OBVIOUS

\* A line that lost its head keeps its order and its kinds.
LEMMA LineKept ==
    ASSUME TypeOK, NEW c \in Connection, line[c] # <<>>, ConnOK(c), state' = state,
           line'[c] = Tail(line[c]),
           Head(line[c]).op = "zadd" /\ Counted(c) => Counted(c)',
           DOMAIN tenant' \union DOMAIN channel' \subseteq
             DOMAIN tenant \union DOMAIN channel \union {c}
    PROVE  ConnOK(c)'
<1>1. line[c] \in Seq(Commands)
    BY DEF TypeOK
<1>2. /\ Head(line[c]) = line[c][1] /\ 1 \in DOMAIN line[c]
      /\ Head(line[c]).op \in {"zadd", "zrem"}
      /\ \A i \in DOMAIN Tail(line[c]) : /\ i \in Nat /\ i + 1 \in DOMAIN line[c] /\ 1 < i + 1
                                         /\ Tail(line[c])[i] = line[c][i + 1]
    BY <1>1, Shorter DEF Commands
<1>3. state[c] # "idle"
    BY DEF ConnOK
<1>4. CASE Head(line[c]).op = "zadd"
    <2>1. Counted(c)'
        BY <1>2, <1>4 DEF ConnOK
    <2>2. \A i, j \in DOMAIN line'[c] :
             i < j /\ line'[c][i].op = "zrem" => line'[c][j].op = "zrem"
        BY <1>2 DEF ConnOK
    <2>3. \A i \in DOMAIN line'[c] : Open(c)' => line'[c][i].op = "zadd"
        BY <1>2 DEF ConnOK, Open
    <2> QED
        BY <1>3, <2>1, <2>2, <2>3 DEF ConnOK
<1>5. CASE Head(line[c]).op = "zrem"
    <2>1. \A i \in DOMAIN line'[c] : line'[c][i].op = "zrem"
        BY <1>2, <1>5 DEF ConnOK
    <2>2. ~Open(c) /\ ~Open(c)'
        BY <1>2, <1>5 DEF ConnOK, Open
    <2>3. "zadd" # "zrem"
        OBVIOUS
    <2> QED
        BY <1>3, <2>1, <2>2, <2>3 DEF ConnOK
<1> QED
    BY <1>2, <1>4, <1>5

LEMMA ExecuteStep ==
    ASSUME IInv, NEW c \in Connection, Execute(c)
    PROVE  IInv'
<1> DEFINE h == Head(line[c])
<1>1. TypeOK /\ WithinTenantLimit /\ WithinChannelLimit /\ \A d \in Connection : ConnOK(d)
    BY Split
<1>2. /\ line[c] # <<>> /\ line' = [line EXCEPT ![c] = Tail(line[c])]
      /\ tenant' = Apply(h, tenant, "tenant", c) /\ channel' = Apply(h, channel, "channel", c)
      /\ UNCHANGED <<state, beat, lapsedTenant, lapsedChannel, faults>>
    BY DEF Execute
<1>3. /\ Tail(line[c]) \in Seq(Commands) /\ h \in Commands
      /\ h = line[c][1] /\ 1 \in DOMAIN line[c]
    BY <1>1, <1>2, Shorter DEF TypeOK
<1>4. h.op \in {"zadd", "zrem"} /\ h.score \in Scores
    BY <1>3 DEF Commands
<1>5. h.op = "zadd" => Counted(c)
    BY <1>1, <1>3 DEF ConnOK
<1> HIDE DEF h
<1>6. /\ \A d \in DOMAIN tenant' : tenant'[d] = h.score \/ (d \in DOMAIN tenant /\ tenant'[d] = tenant[d])
      /\ DOMAIN tenant' \subseteq DOMAIN tenant \union {c}
      /\ DOMAIN tenant \ {c} \subseteq DOMAIN tenant'
      /\ h.op = "zadd" => DOMAIN tenant \subseteq DOMAIN tenant'
      /\ h.op # "zadd" => DOMAIN tenant' \subseteq DOMAIN tenant
    <2>1. CASE h.set # "tenant"
        <3>1. tenant' = tenant
            BY <1>2, <2>1 DEF Apply
        <3> QED
            BY <3>1
    <2>2. CASE h.set = "tenant" /\ h.op = "zadd"
        <3>1. tenant' = With(tenant, c, h.score)
            BY <1>2, <2>2 DEF Apply
        <3>2. DOMAIN tenant' = DOMAIN tenant \union {c}
            BY <3>1 DEF With
        <3>3. \A d \in DOMAIN tenant' : tenant'[d] = IF d = c THEN h.score ELSE tenant[d]
            BY <3>1 DEF With
        <3> QED
            BY <2>2, <3>2, <3>3
    <2>3. CASE h.set = "tenant" /\ h.op # "zadd"
        <3>1. tenant' = Without(tenant, {c})
            BY <1>2, <2>3 DEF Apply
        <3>2. DOMAIN tenant' = DOMAIN tenant \ {c} /\ \A d \in DOMAIN tenant' : tenant'[d] = tenant[d]
            BY <3>1 DEF Without, Restrict
        <3> QED
            BY <2>3, <3>2
    <2> QED
        BY <2>1, <2>2, <2>3
<1>7. /\ \A d \in DOMAIN channel' : channel'[d] = h.score \/ (d \in DOMAIN channel /\ channel'[d] = channel[d])
      /\ DOMAIN channel' \subseteq DOMAIN channel \union {c}
      /\ DOMAIN channel \ {c} \subseteq DOMAIN channel'
      /\ h.op = "zadd" => DOMAIN channel \subseteq DOMAIN channel'
      /\ h.op # "zadd" => DOMAIN channel' \subseteq DOMAIN channel
    <2>1. CASE h.set # "channel"
        <3>1. channel' = channel
            BY <1>2, <2>1 DEF Apply
        <3> QED
            BY <3>1
    <2>2. CASE h.set = "channel" /\ h.op = "zadd"
        <3>1. channel' = With(channel, c, h.score)
            BY <1>2, <2>2 DEF Apply
        <3>2. DOMAIN channel' = DOMAIN channel \union {c}
            BY <3>1 DEF With
        <3>3. \A d \in DOMAIN channel' : channel'[d] = IF d = c THEN h.score ELSE channel[d]
            BY <3>1 DEF With
        <3> QED
            BY <2>2, <3>2, <3>3
    <2>3. CASE h.set = "channel" /\ h.op # "zadd"
        <3>1. channel' = Without(channel, {c})
            BY <1>2, <2>3 DEF Apply
        <3>2. DOMAIN channel' = DOMAIN channel \ {c} /\ \A d \in DOMAIN channel' : channel'[d] = channel[d]
            BY <3>1 DEF Without, Restrict
        <3> QED
            BY <2>3, <3>2
    <2> QED
        BY <2>1, <2>2, <2>3
<1>8. TypeOK'
    <2>1. line' \in [Connection -> Seq(Commands)]
        BY <1>1, <1>2, <1>3 DEF TypeOK
    <2>2. DOMAIN tenant' \subseteq Connection /\ \A d \in DOMAIN tenant' : tenant'[d] \in Scores
        BY <1>1, <1>4, <1>6 DEF TypeOK
    <2>3. DOMAIN channel' \subseteq Connection /\ \A d \in DOMAIN channel' : channel'[d] \in Scores
        BY <1>1, <1>4, <1>7 DEF TypeOK
    <2> QED
        BY <1>1, <1>2, <2>1, <2>2, <2>3 DEF TypeOK
<1>9. WithinTenantLimit' /\ WithinChannelLimit'
    <2>1. /\ DOMAIN tenant' \ lapsedTenant' \subseteq DOMAIN tenant \ lapsedTenant
          /\ DOMAIN channel' \ lapsedChannel' \subseteq DOMAIN channel \ lapsedChannel
        BY <1>2, <1>5, <1>6, <1>7 DEF Counted
    <2> QED
        BY <1>1, <1>8, <2>1, LimitsKept
<1>10. ASSUME NEW d \in Connection PROVE ConnOK(d)'
    <2>1. CASE d # c
        <3>1. state'[d] = state[d] /\ line'[d] = line[d]
            BY <1>1, <1>2, <2>1 DEF TypeOK
        <3>2. Counted(d) => Counted(d)'
            BY <1>2, <1>6, <1>7, <2>1 DEF Counted
        <3>3. DOMAIN tenant' \union DOMAIN channel' \subseteq
                DOMAIN tenant \union DOMAIN channel \union {e \in Connection : e # d}
            BY <1>6, <1>7, <2>1
        <3> QED
            BY <1>1, <3>1, <3>2, <3>3, ConnKept
    <2>2. CASE d = c
        <3>1. line'[c] = Tail(line[c])
            BY <1>1, <1>2 DEF TypeOK
        <3>2. h.op = "zadd" /\ Counted(c) => Counted(c)'
            BY <1>2, <1>6, <1>7 DEF Counted
        <3>3. DOMAIN tenant' \union DOMAIN channel' \subseteq
                DOMAIN tenant \union DOMAIN channel \union {c}
            BY <1>6, <1>7
        <3> QED
            BY <1>1, <1>2, <2>2, <3>1, <3>2, <3>3, LineKept DEF h
    <2> QED
        BY <2>1, <2>2
<1> QED
    BY <1>8, <1>9, <1>10, SplitNext

LEMMA CommandFailsStep ==
    ASSUME IInv, NEW c \in Connection, CommandFails(c)
    PROVE  IInv'
<1>1. TypeOK /\ WithinTenantLimit /\ WithinChannelLimit /\ \A d \in Connection : ConnOK(d)
    BY Split
<1>2. /\ line[c] # <<>> /\ line' = [line EXCEPT ![c] = Tail(line[c])]
      /\ faults < MaxFaults /\ faults' = faults + 1
      /\ UNCHANGED <<tenant, channel, state, beat, lapsedTenant, lapsedChannel>>
    BY DEF CommandFails
<1>3. Tail(line[c]) \in Seq(Commands)
    BY <1>1, <1>2, Shorter DEF TypeOK
<1>4. TypeOK'
    <2>1. line' \in [Connection -> Seq(Commands)]
        BY <1>1, <1>2, <1>3 DEF TypeOK
    <2>2. faults' \in 0 .. MaxFaults
        BY <1>1, <1>2, LeaseAssumption DEF TypeOK
    <2> QED
        BY <1>1, <1>2, <2>1, <2>2 DEF TypeOK
<1>5. WithinTenantLimit' /\ WithinChannelLimit'
    BY <1>1, <1>2, <1>4, LimitsKept
<1>6. ASSUME NEW d \in Connection PROVE ConnOK(d)'
    <2>0. Counted(d) => Counted(d)'
        BY <1>2 DEF Counted
    <2>1. CASE d # c
        <3>1. state'[d] = state[d] /\ line'[d] = line[d]
            BY <1>1, <1>2, <2>1 DEF TypeOK
        <3> QED
            BY <1>1, <1>2, <2>0, <3>1, ConnKept
    <2>2. CASE d = c
        <3>1. line'[c] = Tail(line[c])
            BY <1>1, <1>2 DEF TypeOK
        <3> QED
            BY <1>1, <1>2, <2>0, <2>2, <3>1, LineKept
    <2> QED
        BY <2>1, <2>2
<1> QED
    BY <1>4, <1>5, <1>6, SplitNext

LEMMA CrashStep ==
    ASSUME IInv, NEW c \in Connection, Crash(c)
    PROVE  IInv'
<1>1. TypeOK /\ WithinTenantLimit /\ WithinChannelLimit /\ \A d \in Connection : ConnOK(d)
    BY Split
<1>2. /\ state' = [state EXCEPT ![c] = "crashed"] /\ line' = [line EXCEPT ![c] = <<>>]
      /\ faults < MaxFaults /\ faults' = faults + 1
      /\ UNCHANGED <<tenant, channel, beat, lapsedTenant, lapsedChannel>>
    BY DEF Crash
<1>3. TypeOK'
    <2>1. line' \in [Connection -> Seq(Commands)]
        BY <1>1, <1>2 DEF TypeOK
    <2>2. faults' \in 0 .. MaxFaults
        BY <1>1, <1>2, LeaseAssumption DEF TypeOK
    <2>3. state' \in [Connection -> {"idle", "open", "ended", "crashed"}]
        BY <1>1, <1>2 DEF TypeOK
    <2> QED
        BY <1>1, <1>2, <2>1, <2>2, <2>3 DEF TypeOK
<1>4. WithinTenantLimit' /\ WithinChannelLimit'
    BY <1>1, <1>2, <1>3, LimitsKept
<1>5. ASSUME NEW d \in Connection PROVE ConnOK(d)'
    <2>1. CASE d # c
        <3>1. state'[d] = state[d] /\ line'[d] = line[d]
            BY <1>1, <1>2, <2>1 DEF TypeOK
        <3> QED
            BY <1>1, <1>2, <2>1, <3>1, ConnKept DEF Counted
    <2>2. CASE d = c
        <3>1. line'[c] = <<>> /\ state'[c] = "crashed" /\ DOMAIN line'[c] = {}
            BY <1>1, <1>2 DEF TypeOK
        <3> QED
            BY <2>2, <3>1 DEF ConnOK, Open
    <2> QED
        BY <2>1, <2>2
<1> QED
    BY <1>3, <1>4, <1>5, SplitNext

LEMMA ReturnStep ==
    ASSUME IInv, NEW c \in Connection, Return(c)
    PROVE  IInv'
<1>1. TypeOK /\ WithinTenantLimit /\ WithinChannelLimit /\ \A d \in Connection : ConnOK(d)
    BY Split
<1>2. /\ state' = [state EXCEPT ![c] = "idle"] /\ line[c] = <<>>
      /\ c \notin DOMAIN tenant \union DOMAIN channel
      /\ lapsedTenant' = lapsedTenant \ {c} /\ lapsedChannel' = lapsedChannel \ {c}
      /\ UNCHANGED <<tenant, channel, beat, line, faults>>
    BY DEF Return
<1>3. TypeOK'
    <2>1. state' \in [Connection -> {"idle", "open", "ended", "crashed"}]
        BY <1>1, <1>2 DEF TypeOK
    <2> QED
        BY <1>1, <1>2, <2>1 DEF TypeOK
<1>4. WithinTenantLimit' /\ WithinChannelLimit'
    <2>1. /\ DOMAIN tenant' \ lapsedTenant' \subseteq DOMAIN tenant \ lapsedTenant
          /\ DOMAIN channel' \ lapsedChannel' \subseteq DOMAIN channel \ lapsedChannel
        BY <1>2
    <2> QED
        BY <1>1, <1>3, <2>1, LimitsKept
<1>5. ASSUME NEW d \in Connection PROVE ConnOK(d)'
    <2>1. CASE d # c
        <3>1. state'[d] = state[d] /\ line'[d] = line[d]
            BY <1>1, <1>2, <2>1 DEF TypeOK
        <3>2. Counted(d) => Counted(d)'
            BY <1>2, <2>1 DEF Counted
        <3> QED
            BY <1>1, <1>2, <2>1, <3>1, <3>2, ConnKept
    <2>2. CASE d = c
        <3>1. /\ line'[c] = <<>> /\ state'[c] = "idle" /\ DOMAIN line'[c] = {}
              /\ c \notin DOMAIN tenant' \union DOMAIN channel'
            BY <1>1, <1>2 DEF TypeOK
        <3> QED
            BY <2>2, <3>1 DEF ConnOK, Open
    <2> QED
        BY <2>1, <2>2
<1> QED
    BY <1>3, <1>4, <1>5, SplitNext

LEMMA TickStep ==
    ASSUME IInv, Tick
    PROVE  IInv'
<1>1. TypeOK /\ WithinTenantLimit /\ WithinChannelLimit /\ \A d \in Connection : ConnOK(d)
    BY Split
<1>2. /\ tenant' = [c \in DOMAIN tenant |-> Older(tenant[c])]
      /\ channel' = [c \in DOMAIN channel |-> Older(channel[c])]
      /\ line' = [c \in Connection |-> [i \in DOMAIN line[c] |-> Aged(line[c][i])]]
      /\ beat' = [c \in Connection |-> IF beat[c] < Period THEN beat[c] + 1 ELSE Period]
      /\ UNCHANGED <<state, lapsedTenant, lapsedChannel, faults>>
    BY DEF Tick
<1>3. DOMAIN tenant' = DOMAIN tenant /\ DOMAIN channel' = DOMAIN channel
    BY <1>2
<1>4. ASSUME NEW m \in Commands PROVE Aged(m) \in Commands /\ Aged(m).op = m.op
    <2>1. Older(m.score) \in Scores
        BY ScoreFacts DEF Commands
    <2> QED
        BY <2>1 DEF Commands, Aged
<1>5. ASSUME NEW c \in Connection
      PROVE  /\ line'[c] \in Seq(Commands) /\ DOMAIN line'[c] = DOMAIN line[c]
             /\ \A i \in DOMAIN line[c] : line'[c][i].op = line[c][i].op
             /\ line[c] = <<>> => line'[c] = <<>>
    <2>1. /\ line[c] \in Seq(Commands) /\ Len(line[c]) \in Nat
          /\ DOMAIN line[c] = 1 .. Len(line[c])
          /\ \A i \in DOMAIN line[c] : line[c][i] \in Commands
        BY <1>1 DEF TypeOK
    <2>2. line'[c] = [i \in 1 .. Len(line[c]) |-> Aged(line[c][i])]
        BY <1>2, <2>1
    <2>3. \A i \in 1 .. Len(line[c]) :
             Aged(line[c][i]) \in Commands /\ Aged(line[c][i]).op = line[c][i].op
        BY <1>4, <2>1
    <2>4. line'[c] \in Seq(Commands) /\ Len(line'[c]) = Len(line[c])
        BY <2>1, <2>2, <2>3
    <2>5. line[c] = <<>> => line'[c] = <<>>
        BY <2>4
    <2> QED
        BY <2>1, <2>2, <2>3, <2>4, <2>5
<1>6. TypeOK'
    <2>1. line' \in [Connection -> Seq(Commands)]
        BY <1>2, <1>5
    <2>2. beat' \in [Connection -> 0 .. Period]
        BY <1>1, <1>2, LeaseAssumption DEF TypeOK
    <2>3. DOMAIN tenant' \subseteq Connection /\ \A d \in DOMAIN tenant' : tenant'[d] \in Scores
        BY <1>1, <1>2, <1>3, ScoreFacts DEF TypeOK
    <2>4. DOMAIN channel' \subseteq Connection /\ \A d \in DOMAIN channel' : channel'[d] \in Scores
        BY <1>1, <1>2, <1>3, ScoreFacts DEF TypeOK
    <2> QED
        BY <1>1, <1>2, <2>1, <2>2, <2>3, <2>4 DEF TypeOK
<1>7. WithinTenantLimit' /\ WithinChannelLimit'
    BY <1>1, <1>2, <1>3, <1>6, LimitsKept
<1>8. ASSUME NEW d \in Connection PROVE ConnOK(d)'
    <2>1. Counted(d)' = Counted(d) /\ state'[d] = state[d]
        BY <1>2, <1>3 DEF Counted
    <2>2. /\ DOMAIN line'[d] = DOMAIN line[d]
          /\ \A i \in DOMAIN line[d] : line'[d][i].op = line[d][i].op
          /\ line[d] = <<>> => line'[d] = <<>>
        BY <1>5
    <2>3. ConnOK(d)
        BY <1>1
    <2> QED
        BY <1>3, <2>1, <2>2, <2>3 DEF ConnOK, Open
<1> QED
    BY <1>6, <1>7, <1>8, SplitNext

LEMMA InitOK == Init => IInv
<1> SUFFICES ASSUME Init PROVE IInv
    OBVIOUS
<1>1. TypeOK
    <2>1. 0 \in 0 .. Period /\ 0 \in 0 .. MaxFaults
        BY LeaseAssumption
    <2>2. DOMAIN tenant = {} /\ DOMAIN channel = {}
        BY DEF Init
    <2>3. <<>> \in Seq(Commands)
        OBVIOUS
    <2> QED
        BY <2>1, <2>2, <2>3 DEF Init, TypeOK
<1>2. WithinTenantLimit
    <2>1. DOMAIN tenant \ lapsedTenant = {}
        BY DEF Init
    <2>2. Cardinality(DOMAIN tenant \ lapsedTenant) = 0
        BY <2>1, FS_EmptySet
    <2> QED
        BY <2>2, LeaseAssumption DEF WithinTenantLimit
<1>3. WithinChannelLimit
    <2> SUFFICES ASSUME NEW ch \in Channel
                 PROVE  Cardinality((DOMAIN channel \intersect Of(ch)) \ lapsedChannel) <= MaxChannel
        BY DEF WithinChannelLimit
    <2>1. (DOMAIN channel \intersect Of(ch)) \ lapsedChannel = {}
        BY DEF Init
    <2>2. Cardinality((DOMAIN channel \intersect Of(ch)) \ lapsedChannel) = 0
        BY <2>1, FS_EmptySet
    <2> QED
        BY <2>2, LeaseAssumption
<1>4. \A c \in Connection : ConnOK(c)
    BY DEF Init, ConnOK, Open
<1> QED
    BY <1>1, <1>2, <1>3, <1>4, Split

\* The invariant of subscriberQuota.ts holds for every limit and every clock:
\* each connection is counted from its admission to its release, and only a
\* lease that lapsed can put a set over its limit.
THEOREM Invariant == Spec => []IInv
<1>1. Init => IInv
    BY InitOK
<1>2. IInv /\ [Next]_vars => IInv'
    <2> SUFFICES ASSUME IInv, [Next]_vars PROVE IInv'
        OBVIOUS
    <2>1. ASSUME NEW c \in Connection, NEW now \in Skew, Admit(c, now) PROVE IInv'
        BY <2>1, AdmitStep
    <2>2. ASSUME NEW c \in Connection, NEW now \in Skew, Refuse(c, now) PROVE IInv'
        BY <2>2, RefuseStep
    <2>3. ASSUME NEW c \in Connection, NEW now \in Skew, Heartbeat(c, now) PROVE IInv'
        BY <2>3, HeartbeatStep
    <2>4. ASSUME NEW c \in Connection, End(c) PROVE IInv'
        BY <2>4, EndStep
    <2>5. ASSUME NEW c \in Connection, Execute(c) PROVE IInv'
        BY <2>5, ExecuteStep
    <2>6. ASSUME NEW c \in Connection, CommandFails(c) PROVE IInv'
        BY <2>6, CommandFailsStep
    <2>7. ASSUME NEW c \in Connection, Crash(c) PROVE IInv'
        BY <2>7, CrashStep
    <2>8. ASSUME NEW c \in Connection, Return(c) PROVE IInv'
        BY <2>8, ReturnStep
    <2>9. CASE Tick
        BY <2>9, TickStep
    <2>10. CASE UNCHANGED vars
        BY <2>10 DEF vars, IInv, TypeOK, WithinTenantLimit, WithinChannelLimit, OpenIsCounted,
                    LinesOK, Open, Of
    <2> QED
        BY <2>1, <2>2, <2>3, <2>4, <2>5, <2>6, <2>7, <2>8, <2>9, <2>10 DEF Next, Ask
<1> QED
    BY <1>1, <1>2, PTL DEF Spec

\* A tenant never has more connections than MAX_STREAM_SUBSCRIBERS_PER_TENANT,
\* lapsed ones apart.
THEOREM TenantLimitTheorem == Spec => []WithinTenantLimit
<1>1. IInv => WithinTenantLimit
    BY DEF IInv
<1> QED
    BY <1>1, Invariant, PTL

\* A channel never has more connections than MAX_STREAM_SUBSCRIBERS_PER_CHANNEL,
\* lapsed ones apart.
THEOREM ChannelLimitTheorem == Spec => []WithinChannelLimit
<1>1. IInv => WithinChannelLimit
    BY DEF IInv
<1> QED
    BY <1>1, Invariant, PTL

\* No open connection escapes the count.
THEOREM CountedTheorem == Spec => []OpenIsCounted
<1>1. IInv => OpenIsCounted
    BY DEF IInv
<1> QED
    BY <1>1, Invariant, PTL

-----------------------------------------------------------------------------
\* What a script does to the sets of a connection other than the asking one,
\* and to its own.
LEMMA AskFacts ==
    ASSUME NEW c \in Connection, NEW now \in Skew, Admit(c, now) \/ Refuse(c, now)
    PROVE  /\ DOMAIN tenant' \subseteq (DOMAIN tenant \ Pruned(c, now).tenant) \union {c}
           /\ DOMAIN channel' \subseteq (DOMAIN channel \ Pruned(c, now).channel) \union {c}
           /\ DOMAIN tenant \ Pruned(c, now).tenant \subseteq DOMAIN tenant'
           /\ DOMAIN channel \ Pruned(c, now).channel \subseteq DOMAIN channel'
           /\ \A d \in DOMAIN tenant' : d # c => tenant'[d] = tenant[d]
           /\ \A d \in DOMAIN channel' : d # c => channel'[d] = channel[d]
           /\ Admit(c, now) => /\ c \in DOMAIN tenant' /\ tenant'[c] = Lease + now
                               /\ c \in DOMAIN channel' /\ channel'[c] = Lease + now
<1> DEFINE P == Pruned(c, now).tenant
<1> DEFINE Q == Pruned(c, now).channel
<1>1. /\ Admit(c, now) => /\ tenant' = With(Without(tenant, P), c, Lease + now)
                          /\ channel' = With(Without(channel, Q), c, Lease + now)
      /\ Refuse(c, now) => tenant' = Without(tenant, P) /\ channel' = Without(channel, Q)
    BY DEF Admit, Refuse
<1> HIDE DEF P, Q
<1>2. CASE Admit(c, now)
    <2>1. /\ DOMAIN tenant' = (DOMAIN tenant \ P) \union {c}
          /\ \A d \in DOMAIN tenant' : tenant'[d] = IF d = c THEN Lease + now ELSE tenant[d]
        BY <1>1, <1>2 DEF Without, With, Restrict
    <2>2. /\ DOMAIN channel' = (DOMAIN channel \ Q) \union {c}
          /\ \A d \in DOMAIN channel' : channel'[d] = IF d = c THEN Lease + now ELSE channel[d]
        BY <1>1, <1>2 DEF Without, With, Restrict
    <2> QED
        BY <2>1, <2>2 DEF P, Q
<1>3. CASE ~Admit(c, now)
    <2>1. /\ DOMAIN tenant' = DOMAIN tenant \ P
          /\ \A d \in DOMAIN tenant' : tenant'[d] = tenant[d]
        BY <1>1, <1>3 DEF Without, Restrict
    <2>2. /\ DOMAIN channel' = DOMAIN channel \ Q
          /\ \A d \in DOMAIN channel' : channel'[d] = channel[d]
        BY <1>1, <1>3 DEF Without, Restrict
    <2> QED
        BY <1>3, <2>1, <2>2 DEF P, Q
<1> QED
    BY <1>2, <1>3

\* Executing the head of a line of refreshes and then releases.
LEMMA ReleasingTail ==
    ASSUME NEW s \in Seq(Commands), s # <<>>, NEW c \in Connection, NEW set,
           NEW name \in {"tenant", "channel"},
           \A i, j \in DOMAIN s : i < j /\ s[i].op = "zrem" => s[j].op = "zrem",
           Releasing(s, c, set, name)
    PROVE  Releasing(Tail(s), c, Apply(Head(s), set, name, c), name)
<1> DEFINE m == Head(s)
<1> DEFINE new == Apply(m, set, name, c)
<1>0. m \in Commands
    BY Shorter
<1>1. /\ m \in Commands /\ m = s[1] /\ 1 \in DOMAIN s
      /\ \A i \in DOMAIN Tail(s) : i + 1 \in DOMAIN s /\ 1 < i + 1 /\ Tail(s)[i] = s[i + 1]
    BY Shorter
<1>2. \A i \in DOMAIN s : i # 1 => i - 1 \in DOMAIN Tail(s) /\ Tail(s)[i - 1] = s[i]
    OBVIOUS
<1>3. m.op \in {"zadd", "zrem"}
    BY <1>1 DEF Commands
<1> HIDE DEF m
<1>4. /\ m.set # name => new = set
      /\ m.set = name /\ m.op = "zrem" => DOMAIN new = DOMAIN set \ {c}
    BY DEF Apply, With, Without, Restrict
<1> HIDE DEF new
<1>5. CASE \E i \in DOMAIN s : s[i].op = "zrem" /\ s[i].set = name
    <2>1. PICK i \in DOMAIN s : s[i].op = "zrem" /\ s[i].set = name
        BY <1>5
    <2>2. CASE i = 1
        <3>1. \A j \in DOMAIN Tail(s) : Tail(s)[j].op = "zrem"
            BY <1>1, <2>1, <2>2
        <3> QED
            BY <1>1, <1>4, <2>1, <2>2, <3>1 DEF Releasing, new, m
    <2>3. CASE i # 1
        BY <1>2, <2>1, <2>3 DEF Releasing
    <2> QED
        BY <2>2, <2>3
<1>6. CASE c \notin DOMAIN set /\ \A i \in DOMAIN s : s[i].op = "zrem"
    <2>1. c \notin DOMAIN new
        BY <1>1, <1>4, <1>6
    <2> QED
        BY <1>1, <1>6, <2>1 DEF Releasing, new, m
<1> QED
    BY <1>5, <1>6 DEF Releasing

LEMMA YoungTail ==
    ASSUME NEW s \in Seq(Commands), s # <<>>, NEW c \in Connection, NEW set,
           NEW name \in {"tenant", "channel"}, Young(s, c, set)
    PROVE  Young(Tail(s), c, Apply(Head(s), set, name, c))
<1> DEFINE m == Head(s)
<1> DEFINE new == Apply(m, set, name, c)
<1>0. m \in Commands
    BY Shorter
<1>1. /\ m \in Commands /\ m = s[1] /\ 1 \in DOMAIN s
      /\ \A i \in DOMAIN Tail(s) : i + 1 \in DOMAIN s /\ Tail(s)[i] = s[i + 1]
    BY Shorter
<1>2. m.op \in {"zadd", "zrem"} /\ m.score \in Int
    BY <1>1, LeaseAssumption DEF Commands, Scores
<1> HIDE DEF m
<1>3. /\ m.set # name => new = set
      /\ m.set = name /\ m.op = "zrem" => DOMAIN new = DOMAIN set \ {c}
      /\ m.set = name /\ m.op = "zadd" => new[c] = m.score
    BY DEF Apply, With, Without, Restrict
<1>4. m.op = "zadd" => m.score >= Lease - MaxSkew - Period
    BY <1>1, <1>2, LeaseAssumption DEF Young
<1> HIDE DEF new
<1>5. c \in DOMAIN new => new[c] >= Lease - MaxSkew - Period
    BY <1>2, <1>3, <1>4 DEF Young
<1>6. \A i \in DOMAIN Tail(s) : Tail(s)[i].op = "zadd" => Tail(s)[i].score >= Lease - MaxSkew
    BY <1>1 DEF Young
<1> QED
    BY <1>5, <1>6 DEF Young, m, new

LEMMA RefreshedTail ==
    ASSUME NEW s \in Seq(Commands), s # <<>>, NEW c \in Connection, NEW set,
           NEW name \in {"tenant", "channel"}, NEW age \in Nat,
           \A i \in DOMAIN s : s[i].op = "zadd",
           Young(s, c, set), Refreshed(s, c, set, name, age)
    PROVE  Refreshed(Tail(s), c, Apply(Head(s), set, name, c), name, age)
<1> DEFINE m == Head(s)
<1> DEFINE new == Apply(m, set, name, c)
<1>0. m \in Commands
    BY Shorter
<1>1. m \in Commands /\ m = s[1] /\ 1 \in DOMAIN s
    BY Shorter
<1>2. \A i \in DOMAIN s : i # 1 => i - 1 \in DOMAIN Tail(s) /\ Tail(s)[i - 1] = s[i]
    OBVIOUS
<1>3. m.op = "zadd" /\ m.score \in Int
    BY <1>1, LeaseAssumption DEF Commands, Scores
<1> HIDE DEF m
<1>4. /\ m.set # name => new = set
      /\ m.set = name => c \in DOMAIN new /\ new[c] = m.score
    BY <1>3 DEF Apply, With
<1>5. m.score >= Lease - MaxSkew - age
    BY <1>1, <1>3, LeaseAssumption DEF Young
<1> HIDE DEF new
<1>6. CASE m.set = name
    BY <1>4, <1>5, <1>6 DEF Refreshed, new, m
<1>7. CASE m.set # name
    BY <1>1, <1>2, <1>4, <1>7 DEF Refreshed, new, m
<1> QED
    BY <1>6, <1>7

\* An ended connection stays one whose release is coming, whatever happens next.
LEMMA ReleaseStep ==
    ASSUME IInv, ReleaseComing, [Next]_vars
    PROVE  ReleaseComing'
<1> SUFFICES ASSUME NEW d \in Connection, state'[d] = "ended", faults' = 0
             PROVE  /\ Releasing(line'[d], d, tenant', "tenant")
                    /\ Releasing(line'[d], d, channel', "channel")
    BY DEF ReleaseComing
<1>1. TypeOK /\ ConnOK(d)
    BY Split
<1>2. line[d] \in Seq(Commands) /\ faults \in Nat
    BY <1>1 DEF TypeOK
<1>3. state[d] = "ended" /\ faults = 0 =>
        Releasing(line[d], d, tenant, "tenant") /\ Releasing(line[d], d, channel, "channel")
    BY DEF ReleaseComing
<1>4. ASSUME state[d] = "ended", faults = 0, line'[d] = line[d],
             d \in DOMAIN tenant' => d \in DOMAIN tenant,
             d \in DOMAIN channel' => d \in DOMAIN channel
      PROVE  /\ Releasing(line'[d], d, tenant', "tenant")
             /\ Releasing(line'[d], d, channel', "channel")
    BY <1>3, <1>4 DEF Releasing
<1>5. ASSUME NEW c \in Connection, NEW now \in Skew, Admit(c, now) \/ Refuse(c, now)
      PROVE  /\ Releasing(line'[d], d, tenant', "tenant")
             /\ Releasing(line'[d], d, channel', "channel")
    <2>1. /\ line' = line /\ faults' = faults
          /\ \/ state' = [state EXCEPT ![c] = "open"]
             \/ state' = state /\ state[c] = "idle"
        BY <1>5 DEF Admit, Refuse
    <2>2. d # c /\ state[d] = "ended"
        BY <1>1, <2>1 DEF TypeOK
    <2> QED
        BY <1>4, <1>5, <2>1, <2>2, AskFacts
<1>6. ASSUME NEW c \in Connection, NEW now \in Skew, Heartbeat(c, now)
      PROVE  /\ Releasing(line'[d], d, tenant', "tenant")
             /\ Releasing(line'[d], d, channel', "channel")
    <2>1. /\ state[c] = "open" /\ UNCHANGED <<tenant, channel, state, faults>>
          /\ \A e \in Connection : e # c => line'[e] = line[e]
        BY <1>1, <1>6 DEF Heartbeat, Open, TypeOK
    <2> QED
        BY <1>4, <2>1
<1>7. ASSUME NEW c \in Connection, End(c)
      PROVE  /\ Releasing(line'[d], d, tenant', "tenant")
             /\ Releasing(line'[d], d, channel', "channel")
    <2>1. /\ UNCHANGED <<tenant, channel, faults>>
          /\ line' = [line EXCEPT ![c] = @ \o <<ZRem("tenant"), ZRem("channel")>>]
          /\ state' = [state EXCEPT ![c] = "ended"]
        BY <1>7 DEF End
    <2>2. CASE d # c
        <3>1. line'[d] = line[d] /\ state[d] = "ended"
            BY <1>1, <2>1, <2>2 DEF TypeOK
        <3> QED
            BY <1>4, <2>1, <3>1
    <2>3. CASE d = c
        <3> DEFINE a == ZRem("tenant")
        <3> DEFINE b == ZRem("channel")
        <3>1. line'[d] = line[d] \o <<a, b>>
            BY <1>1, <2>1, <2>3 DEF TypeOK
        <3>2. a.op = "zrem" /\ b.op = "zrem" /\ a.set = "tenant" /\ b.set = "channel"
            BY DEF ZRem
        <3> HIDE DEF a, b
        <3>3. /\ Len(line[d]) + 1 \in DOMAIN line'[d] /\ line'[d][Len(line[d]) + 1] = a
              /\ Len(line[d]) + 2 \in DOMAIN line'[d] /\ line'[d][Len(line[d]) + 2] = b
            BY <1>2, <3>1
        <3> QED
            BY <3>2, <3>3 DEF Releasing
    <2> QED
        BY <2>2, <2>3
<1>8. ASSUME NEW c \in Connection, Execute(c)
      PROVE  /\ Releasing(line'[d], d, tenant', "tenant")
             /\ Releasing(line'[d], d, channel', "channel")
    <2>1. /\ line[c] # <<>> /\ line' = [line EXCEPT ![c] = Tail(@)]
          /\ tenant' = Apply(Head(line[c]), tenant, "tenant", c)
          /\ channel' = Apply(Head(line[c]), channel, "channel", c)
          /\ state' = state /\ faults' = faults
        BY <1>8 DEF Execute
    <2>2. CASE d # c
        <3>1. line'[d] = line[d]
            BY <1>1, <2>1, <2>2 DEF TypeOK
        <3>2. d \in DOMAIN tenant' => d \in DOMAIN tenant
            BY <2>1, <2>2 DEF Apply, With, Without, Restrict
        <3>3. d \in DOMAIN channel' => d \in DOMAIN channel
            BY <2>1, <2>2 DEF Apply, With, Without, Restrict
        <3> QED
            BY <1>4, <2>1, <3>1, <3>2, <3>3
    <2>3. CASE d = c
        <3>1. line'[d] = Tail(line[d])
            BY <1>1, <2>1, <2>3 DEF TypeOK
        <3>2. \A i, j \in DOMAIN line[d] :
                 i < j /\ line[d][i].op = "zrem" => line[d][j].op = "zrem"
            BY <1>1 DEF ConnOK
        <3>3. Releasing(Tail(line[d]), d, Apply(Head(line[d]), tenant, "tenant", d), "tenant")
            BY <1>2, <1>3, <2>1, <2>3, <3>2, ReleasingTail
        <3>4. Releasing(Tail(line[d]), d, Apply(Head(line[d]), channel, "channel", d), "channel")
            BY <1>2, <1>3, <2>1, <2>3, <3>2, ReleasingTail
        <3> QED
            BY <2>1, <2>3, <3>1, <3>3, <3>4
    <2> QED
        BY <2>2, <2>3
<1>9. ASSUME NEW c \in Connection, CommandFails(c) \/ Crash(c)
      PROVE  FALSE
    BY <1>2, <1>9 DEF CommandFails, Crash
<1>10. ASSUME NEW c \in Connection, Return(c)
       PROVE  /\ Releasing(line'[d], d, tenant', "tenant")
              /\ Releasing(line'[d], d, channel', "channel")
    <2>1. UNCHANGED <<tenant, channel, line, faults>> /\ state' = [state EXCEPT ![c] = "idle"]
        BY <1>10 DEF Return
    <2>2. state[d] = "ended"
        BY <1>1, <2>1 DEF TypeOK
    <2> QED
        BY <1>4, <2>1, <2>2
<1>11. ASSUME Tick
       PROVE  /\ Releasing(line'[d], d, tenant', "tenant")
              /\ Releasing(line'[d], d, channel', "channel")
    <2>1. /\ DOMAIN tenant' = DOMAIN tenant /\ DOMAIN channel' = DOMAIN channel
          /\ state' = state /\ faults' = faults
          /\ line'[d] = [i \in DOMAIN line[d] |-> Aged(line[d][i])]
        BY <1>11 DEF Tick
    <2>2. \A i \in DOMAIN line[d] :
             /\ Aged(line[d][i]).op = line[d][i].op /\ Aged(line[d][i]).set = line[d][i].set
        BY <1>2 DEF Aged, Commands
    <2> QED
        BY <1>3, <2>1, <2>2 DEF Releasing
<1>12. CASE UNCHANGED vars
    BY <1>4, <1>12 DEF vars
<1> QED
    BY <1>5, <1>6, <1>7, <1>8, <1>9, <1>10, <1>11, <1>12 DEF Next, Ask

\* An ended connection is in neither set once its commands are through and none
\* of them failed, wherever its last heartbeat was when the stream ended.
THEOREM ReleasedTheorem == Spec => []EndedIsReleased
<1>1. Init => ReleaseComing
    BY DEF Init, ReleaseComing
<1>2. IInv /\ ReleaseComing /\ [Next]_vars => ReleaseComing'
    BY ReleaseStep
<1>3. ReleaseComing => EndedIsReleased
    BY DEF ReleaseComing, Releasing, EndedIsReleased
<1> QED
    BY <1>1, <1>2, <1>3, Invariant, PTL DEF Spec

-----------------------------------------------------------------------------
\* On schedule a script prunes no lease that is in use: what is left of it is
\* more than any clock is ahead.
LEMMA PrunesNoneInUse ==
    ASSUME TypeOK, OnSchedule, RefreshesOnTime, NEW c \in Connection, NEW now \in Skew,
           NEW d \in Connection, MayRefresh(d)
    PROVE  d \notin Pruned(c, now).tenant /\ d \notin Pruned(c, now).channel
<1>1. Young(line[d], d, tenant) /\ Young(line[d], d, channel)
    BY DEF RefreshesOnTime
<1>2. now \in Int /\ now <= MaxSkew /\ Lease - MaxSkew - Period > MaxSkew
    BY LeaseAssumption DEF Skew, OnSchedule
<1>3. d \in DOMAIN tenant => tenant[d] > now
    <2> SUFFICES ASSUME d \in DOMAIN tenant PROVE tenant[d] > now
        OBVIOUS
    <2>1. tenant[d] \in Int /\ tenant[d] >= Lease - MaxSkew - Period
        BY <1>1, LeaseAssumption DEF TypeOK, Scores, Young
    <2> QED
        BY <1>2, <2>1, LeaseAssumption
<1>4. d \in DOMAIN channel => channel[d] > now
    <2> SUFFICES ASSUME d \in DOMAIN channel PROVE channel[d] > now
        OBVIOUS
    <2>1. channel[d] \in Int /\ channel[d] >= Lease - MaxSkew - Period
        BY <1>1, LeaseAssumption DEF TypeOK, Scores, Young
    <2> QED
        BY <1>2, <2>1, LeaseAssumption
<1>5. /\ d \in DOMAIN tenant => tenant[d] \in Int
      /\ d \in DOMAIN channel => channel[d] \in Int
    BY LeaseAssumption DEF TypeOK, Scores
<1> QED
    BY <1>2, <1>3, <1>4, <1>5 DEF Pruned, Due

\* A step on schedule leaves every lease in use with what its age says.
LEMMA OnTimeStep ==
    ASSUME IInv, IInv', RefreshesOnTime, NeverLapses, [Next]_vars
    PROVE  RefreshesOnTime' /\ NeverLapses'
<1> SUFFICES ASSUME OnSchedule' PROVE RefreshesOnTime' /\ NeverLapses'
    BY DEF RefreshesOnTime, NeverLapses
<1>1. TypeOK /\ \A d \in Connection : ConnOK(d)
    BY Split
<1>2. TypeOK' /\ faults' = 0 /\ Timely /\ Lease > Period + 2 * MaxSkew
    BY SplitNext DEF OnSchedule
<1>3. faults \in Nat /\ faults = 0 /\ ~(\E c \in Connection : CommandFails(c) \/ Crash(c))
    <2>1. faults \in Nat
        BY <1>1 DEF TypeOK
    <2>2. faults' = faults \/ faults' = faults + 1
        BY DEF Next, Ask, Admit, Refuse, Heartbeat, End, Execute, CommandFails, Crash, Return, Tick, vars
    <2>3. \A c \in Connection : CommandFails(c) \/ Crash(c) => faults' = faults + 1
        BY DEF CommandFails, Crash
    <2> QED
        BY <1>2, <2>1, <2>2, <2>3
<1>4. OnSchedule /\ lapsedTenant = {} /\ lapsedChannel = {}
    BY <1>2, <1>3 DEF OnSchedule, NeverLapses
<1>5. \A d \in Connection :
        /\ MayRefresh(d) => Young(line[d], d, tenant) /\ Young(line[d], d, channel)
        /\ Open(d) => /\ Refreshed(line[d], d, tenant, "tenant", beat[d])
                      /\ Refreshed(line[d], d, channel, "channel", beat[d])
    BY <1>4 DEF RefreshesOnTime
<1> DEFINE Good(d) ==
        /\ MayRefresh(d)' => Young(line'[d], d, tenant') /\ Young(line'[d], d, channel')
        /\ Open(d)' => /\ Refreshed(line'[d], d, tenant', "tenant", beat'[d])
                       /\ Refreshed(line'[d], d, channel', "channel", beat'[d])
<1> DEFINE Done == (\A d \in Connection : Good(d)) /\ lapsedTenant' = {} /\ lapsedChannel' = {}
<1>6. ASSUME NEW d \in Connection, state'[d] = state[d], line'[d] = line[d], beat'[d] = beat[d],
             MayRefresh(d) => (d \in DOMAIN tenant <=> d \in DOMAIN tenant'),
             MayRefresh(d) => (d \in DOMAIN channel <=> d \in DOMAIN channel'),
             d \in DOMAIN tenant' => tenant'[d] = tenant[d],
             d \in DOMAIN channel' => channel'[d] = channel[d]
      PROVE  Good(d)
    <2>1. Open(d)' = Open(d) /\ MayRefresh(d)' = MayRefresh(d) /\ (Open(d) => MayRefresh(d))
        BY <1>6 DEF Open, MayRefresh
    <2>2. MayRefresh(d) => Young(line'[d], d, tenant') /\ Young(line'[d], d, channel')
        BY <1>5, <1>6 DEF Young
    <2>3. Open(d) => /\ Refreshed(line'[d], d, tenant', "tenant", beat'[d])
                     /\ Refreshed(line'[d], d, channel', "channel", beat'[d])
        BY <1>5, <1>6, <2>1 DEF Refreshed
    <2> QED
        BY <2>1, <2>2, <2>3
<1>7. ASSUME NEW c \in Connection, NEW now \in Skew, Admit(c, now) \/ Refuse(c, now)
      PROVE  Done
    <2>1. /\ line' = line /\ state[c] = "idle" /\ Lapse(c, now)
          /\ Admit(c, now) => /\ state' = [state EXCEPT ![c] = "open"]
                              /\ beat' = [beat EXCEPT ![c] = 0]
          /\ Refuse(c, now) => state' = state /\ beat' = beat
        BY <1>7 DEF Admit, Refuse
    <2>2. line[c] = <<>> /\ ~MayRefresh(c)
        BY <1>1, <2>1 DEF ConnOK, MayRefresh, Open
    <2>3. lapsedTenant' = {} /\ lapsedChannel' = {}
        <3>1. /\ Pruned(c, now).tenant \subseteq Connection
              /\ Pruned(c, now).channel \subseteq Connection
            BY <1>1 DEF Pruned, Due, TypeOK
        <3> QED
            BY <1>1, <1>4, <2>1, <3>1, PrunesNoneInUse DEF Lapse
    <2>4. ASSUME NEW d \in Connection, d # c PROVE Good(d)
        <3>1. /\ state'[d] = state[d] /\ line'[d] = line[d] /\ beat'[d] = beat[d]
            BY <1>1, <1>7, <2>1, <2>4 DEF TypeOK
        <3>2. MayRefresh(d) => /\ d \notin Pruned(c, now).tenant
                               /\ d \notin Pruned(c, now).channel
            BY <1>1, <1>4, PrunesNoneInUse
        <3>3. /\ d \in DOMAIN tenant' => d \in DOMAIN tenant /\ tenant'[d] = tenant[d]
              /\ d \in DOMAIN channel' => d \in DOMAIN channel /\ channel'[d] = channel[d]
            BY <1>7, <2>4, AskFacts
        <3>4. MayRefresh(d) => /\ d \in DOMAIN tenant => d \in DOMAIN tenant'
                               /\ d \in DOMAIN channel => d \in DOMAIN channel'
            BY <1>7, <3>2, AskFacts
        <3> QED
            BY <1>6, <3>1, <3>3, <3>4
    <2>5. CASE Admit(c, now)
        <3>1. /\ c \in DOMAIN tenant' /\ tenant'[c] = Lease + now
              /\ c \in DOMAIN channel' /\ channel'[c] = Lease + now
            BY <2>5, AskFacts
        <3>2. line'[c] = <<>> /\ beat'[c] = 0
            BY <1>1, <2>1, <2>2, <2>5 DEF TypeOK
        <3>3. now \in Int /\ Lease + now >= Lease - MaxSkew
              /\ Lease + now >= Lease - MaxSkew - Period /\ Lease + now >= Lease - MaxSkew - 0
            BY LeaseAssumption DEF Skew
        <3>4. /\ Young(line'[c], c, tenant') /\ Young(line'[c], c, channel')
            BY <3>1, <3>2, <3>3 DEF Young
        <3>5. /\ Refreshed(line'[c], c, tenant', "tenant", beat'[c])
              /\ Refreshed(line'[c], c, channel', "channel", beat'[c])
            BY <3>1, <3>2, <3>3 DEF Refreshed
        <3> QED
            BY <2>3, <2>4, <3>4, <3>5
    <2>6. CASE Refuse(c, now)
        <3>1. ~MayRefresh(c)' /\ ~Open(c)'
            BY <2>1, <2>2, <2>6 DEF MayRefresh, Open
        <3> QED
            BY <2>3, <2>4, <3>1
    <2> QED
        BY <1>7, <2>5, <2>6
<1>8. ASSUME NEW c \in Connection, NEW now \in Skew, Heartbeat(c, now)
      PROVE  Done
    <2> DEFINE a == ZAdd("tenant", Lease + now)
    <2> DEFINE b == ZAdd("channel", Lease + now)
    <2>1. /\ Open(c) /\ line' = [line EXCEPT ![c] = line[c] \o <<a, b>>]
          /\ beat' = [beat EXCEPT ![c] = 0]
          /\ UNCHANGED <<tenant, channel, state, lapsedTenant, lapsedChannel>>
        BY <1>8 DEF Heartbeat
    <2>2. /\ a.op = "zadd" /\ b.op = "zadd" /\ a.set = "tenant" /\ b.set = "channel"
          /\ a.score = Lease + now /\ b.score = Lease + now
        BY DEF ZAdd
    <2> HIDE DEF a, b
    <2>3. now \in Int /\ Lease + now >= Lease - MaxSkew
        BY LeaseAssumption DEF Skew
    <2>4. ASSUME NEW d \in Connection, d # c PROVE Good(d)
        <3>1. line'[d] = line[d] /\ beat'[d] = beat[d]
            BY <1>1, <2>1, <2>4 DEF TypeOK
        <3> QED
            BY <1>6, <2>1, <3>1
    <2>5. Good(c)
        <3>0. line[c] \in Seq(Commands)
            BY <1>1 DEF TypeOK
        <3>1. line'[c] = line[c] \o <<a, b>>
            BY <1>1, <2>1 DEF TypeOK
        <3>2. /\ \A i \in DOMAIN line'[c] : \/ i \in DOMAIN line[c] /\ line'[c][i] = line[c][i]
                                            \/ line'[c][i] \in {a, b}
              /\ Len(line[c]) + 1 \in DOMAIN line'[c] /\ line'[c][Len(line[c]) + 1] = a
              /\ Len(line[c]) + 2 \in DOMAIN line'[c] /\ line'[c][Len(line[c]) + 2] = b
            BY <3>0, <3>1
        <3>3. Young(line[c], c, tenant) /\ Young(line[c], c, channel)
            BY <1>5, <2>1 DEF MayRefresh
        <3>4. \A i \in DOMAIN line'[c] :
                 line'[c][i].op = "zadd" => line'[c][i].score >= Lease - MaxSkew
            BY <2>2, <2>3, <3>2, <3>3 DEF Young
        <3>5. Young(line'[c], c, tenant') /\ Young(line'[c], c, channel')
            BY <2>1, <3>3, <3>4 DEF Young
        <3>6. /\ Refreshed(line'[c], c, tenant', "tenant", beat'[c])
              /\ Refreshed(line'[c], c, channel', "channel", beat'[c])
            BY <2>2, <3>2 DEF Refreshed
        <3> QED
            BY <3>5, <3>6
    <2> QED
        BY <1>4, <2>1, <2>4, <2>5
<1>9. ASSUME NEW c \in Connection, End(c)
      PROVE  Done
    <2> DEFINE a == ZRem("tenant")
    <2> DEFINE b == ZRem("channel")
    <2>1. /\ Open(c) /\ line' = [line EXCEPT ![c] = line[c] \o <<a, b>>]
          /\ state' = [state EXCEPT ![c] = "ended"]
          /\ UNCHANGED <<tenant, channel, beat, lapsedTenant, lapsedChannel>>
        BY <1>9 DEF End
    <2>2. a.op = "zrem" /\ b.op = "zrem"
        BY DEF ZRem
    <2> HIDE DEF a, b
    <2>4. ASSUME NEW d \in Connection, d # c PROVE Good(d)
        <3>1. line'[d] = line[d] /\ state'[d] = state[d]
            BY <1>1, <2>1, <2>4 DEF TypeOK
        <3> QED
            BY <1>6, <2>1, <3>1
    <2>5. Good(c)
        <3>0. line[c] \in Seq(Commands)
            BY <1>1 DEF TypeOK
        <3>1. line'[c] = line[c] \o <<a, b>> /\ ~Open(c)'
            BY <1>1, <2>1 DEF TypeOK, Open
        <3>2. \A i \in DOMAIN line'[c] : \/ i \in DOMAIN line[c] /\ line'[c][i] = line[c][i]
                                         \/ line'[c][i] \in {a, b}
            BY <3>0, <3>1
        <3>3. Young(line[c], c, tenant) /\ Young(line[c], c, channel)
            BY <1>5, <2>1 DEF MayRefresh
        <3>4. \A i \in DOMAIN line'[c] :
                 line'[c][i].op = "zadd" => line'[c][i].score >= Lease - MaxSkew
            BY <2>2, <3>2, <3>3 DEF Young
        <3>5. Young(line'[c], c, tenant') /\ Young(line'[c], c, channel')
            BY <2>1, <3>3, <3>4 DEF Young
        <3> QED
            BY <3>1, <3>5
    <2> QED
        BY <1>4, <2>1, <2>4, <2>5
<1>10. ASSUME NEW c \in Connection, Execute(c)
       PROVE  Done
    <2>1. /\ line[c] # <<>> /\ line' = [line EXCEPT ![c] = Tail(@)]
          /\ tenant' = Apply(Head(line[c]), tenant, "tenant", c)
          /\ channel' = Apply(Head(line[c]), channel, "channel", c)
          /\ UNCHANGED <<state, beat, lapsedTenant, lapsedChannel>>
        BY <1>10 DEF Execute
    <2>2. ASSUME NEW d \in Connection, d # c PROVE Good(d)
        <3>1. line'[d] = line[d]
            BY <1>1, <2>1, <2>2 DEF TypeOK
        <3>2. /\ d \in DOMAIN tenant' <=> d \in DOMAIN tenant
              /\ d \in DOMAIN tenant' => tenant'[d] = tenant[d]
            BY <2>1, <2>2 DEF Apply, With, Without, Restrict
        <3>3. /\ d \in DOMAIN channel' <=> d \in DOMAIN channel
              /\ d \in DOMAIN channel' => channel'[d] = channel[d]
            BY <2>1, <2>2 DEF Apply, With, Without, Restrict
        <3> QED
            BY <1>6, <2>1, <3>1, <3>2, <3>3
    <2>3. Good(c)
        <3>1. line'[c] = Tail(line[c]) /\ line[c] \in Seq(Commands) /\ beat[c] \in Nat
            BY <1>1, <2>1, LeaseAssumption DEF TypeOK
        <3>2. Young(line[c], c, tenant) /\ Young(line[c], c, channel)
            BY <1>5, <2>1 DEF MayRefresh
        <3>3. Young(line'[c], c, tenant') /\ Young(line'[c], c, channel')
            BY <2>1, <3>1, <3>2, YoungTail
        <3>4. ASSUME Open(c)'
              PROVE  /\ Refreshed(line'[c], c, tenant', "tenant", beat'[c])
                     /\ Refreshed(line'[c], c, channel', "channel", beat'[c])
            <4>1. Open(c) /\ \A i \in DOMAIN line[c] : line[c][i].op = "zadd"
                BY <1>1, <2>1, <3>4 DEF ConnOK, Open
            <4>2. /\ Refreshed(line[c], c, tenant, "tenant", beat[c])
                  /\ Refreshed(line[c], c, channel, "channel", beat[c])
                BY <1>5, <4>1
            <4>3. Refreshed(line'[c], c, tenant', "tenant", beat[c])
                BY <2>1, <3>1, <3>2, <4>1, <4>2, RefreshedTail
            <4>4. Refreshed(line'[c], c, channel', "channel", beat[c])
                BY <2>1, <3>1, <3>2, <4>1, <4>2, RefreshedTail
            <4> QED
                BY <2>1, <4>3, <4>4
        <3> QED
            BY <3>3, <3>4
    <2> QED
        BY <1>4, <2>1, <2>2, <2>3
<1>11. ASSUME NEW c \in Connection, Return(c)
       PROVE  Done
    <2>1. /\ UNCHANGED <<tenant, channel, beat, line>> /\ state' = [state EXCEPT ![c] = "idle"]
          /\ line[c] = <<>> /\ lapsedTenant' = lapsedTenant \ {c}
          /\ lapsedChannel' = lapsedChannel \ {c}
        BY <1>11 DEF Return
    <2>2. ASSUME NEW d \in Connection, d # c PROVE Good(d)
        <3>1. state'[d] = state[d]
            BY <1>1, <2>1, <2>2 DEF TypeOK
        <3> QED
            BY <1>6, <2>1, <3>1
    <2>3. ~MayRefresh(c)' /\ ~Open(c)'
        BY <1>1, <2>1 DEF MayRefresh, Open, TypeOK
    <2> QED
        BY <1>4, <2>1, <2>2, <2>3
<1>12. ASSUME Tick
       PROVE  Done
    <2>1. /\ \A c \in Connection : line[c] = <<>> /\ (Open(c) => beat[c] < Period)
          /\ tenant' = [c \in DOMAIN tenant |-> Older(tenant[c])]
          /\ channel' = [c \in DOMAIN channel |-> Older(channel[c])]
          /\ line' = [c \in Connection |-> [i \in DOMAIN line[c] |-> Aged(line[c][i])]]
          /\ beat' = [c \in Connection |-> IF beat[c] < Period THEN beat[c] + 1 ELSE Period]
          /\ UNCHANGED <<state, lapsedTenant, lapsedChannel>>
        BY <1>2, <1>12 DEF Tick
    <2>2. ASSUME NEW d \in Connection PROVE Good(d)
        <3>1. line'[d] = <<>> /\ line[d] = <<>>
            <4>1. line'[d] = [i \in DOMAIN line[d] |-> Aged(line[d][i])] /\ line[d] = <<>>
                BY <2>1
            <4> QED
                BY <4>1
        <3>2. CASE ~Open(d)
            BY <2>1, <3>1, <3>2 DEF MayRefresh, Open
        <3>3. CASE Open(d)
            <4>1. /\ beat[d] \in Nat /\ beat[d] + 1 <= Period /\ beat'[d] = beat[d] + 1
                BY <1>1, <2>1, <3>3, LeaseAssumption DEF TypeOK
            <4>2. /\ d \in DOMAIN tenant /\ tenant[d] \in Int /\ tenant[d] >= Lease - MaxSkew - beat[d]
                  /\ d \in DOMAIN channel /\ channel[d] \in Int /\ channel[d] >= Lease - MaxSkew - beat[d]
                BY <1>1, <1>5, <3>1, <3>3, LeaseAssumption DEF Refreshed, TypeOK, Scores
            <4>3. ASSUME NEW n \in Int, n >= Lease - MaxSkew - beat[d]
                  PROVE  /\ Older(n) >= Lease - MaxSkew - (beat[d] + 1)
                         /\ Older(n) >= Lease - MaxSkew - Period
                BY <4>1, <4>3, LeaseAssumption DEF Older
            <4>4. /\ d \in DOMAIN tenant' /\ tenant'[d] = Older(tenant[d])
                  /\ d \in DOMAIN channel' /\ channel'[d] = Older(channel[d])
                BY <2>1, <4>2
            <4>5. Young(line'[d], d, tenant') /\ Young(line'[d], d, channel')
                BY <3>1, <4>2, <4>3, <4>4 DEF Young
            <4>6. /\ Refreshed(line'[d], d, tenant', "tenant", beat'[d])
                  /\ Refreshed(line'[d], d, channel', "channel", beat'[d])
                BY <4>1, <4>2, <4>3, <4>4 DEF Refreshed
            <4> QED
                BY <4>5, <4>6
        <3> QED
            BY <3>2, <3>3
    <2> QED
        BY <1>4, <2>1, <2>2
<1>13. ASSUME UNCHANGED vars
       PROVE  Done
    BY <1>4, <1>6, <1>13 DEF vars
<1>14. Done
    BY <1>3, <1>7, <1>8, <1>9, <1>10, <1>11, <1>12, <1>13 DEF Next, Ask
<1> QED
    BY <1>14 DEF RefreshesOnTime, NeverLapses

\* No lease lapses while its connection lives if heartbeats are on time and a
\* lease is longer than their period and twice the clocks' difference.
THEOREM LapseTheorem == Spec => []NeverLapses
<1>1. Init => RefreshesOnTime /\ NeverLapses
    BY DEF Init, RefreshesOnTime, NeverLapses, MayRefresh, Open
<1>2. IInv /\ IInv' /\ RefreshesOnTime /\ NeverLapses /\ [Next]_vars =>
        RefreshesOnTime' /\ NeverLapses'
    BY OnTimeStep
<1> QED
    BY <1>1, <1>2, Invariant, PTL DEF Spec

\* So that on schedule a tenant's set is within its limit, nobody left out.
THEOREM StrictTheorem ==
    Spec => [](OnSchedule /\ MaxTenant > 0 => Cardinality(DOMAIN tenant) <= MaxTenant)
<1>1. WithinTenantLimit /\ NeverLapses =>
        (OnSchedule /\ MaxTenant > 0 => Cardinality(DOMAIN tenant) <= MaxTenant)
    <2> SUFFICES ASSUME WithinTenantLimit, NeverLapses, OnSchedule, MaxTenant > 0
                 PROVE  Cardinality(DOMAIN tenant) <= MaxTenant
        OBVIOUS
    <2>1. DOMAIN tenant \ lapsedTenant = DOMAIN tenant
        BY DEF NeverLapses
    <2> QED
        BY <2>1 DEF WithinTenantLimit
<1> QED
    BY <1>1, TenantLimitTheorem, LapseTheorem, PTL
=============================================================================

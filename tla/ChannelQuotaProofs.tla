-------------------------- MODULE ChannelQuotaProofs --------------------------
(***************************************************************************)
(* Proofs about the creation of channels: of the reservation, for any number  *)
(* of channels, any limits, times to live, requests and clock difference, and *)
(* of the handler around it, for any tree of cells, settings and areas.      *)
(***************************************************************************)
EXTENDS ChannelRequest, FiniteSetTheorems, SequenceTheorems, WellFoundedInduction, TLAPS

LEMMA Fewer ==
    ASSUME NEW A \in SUBSET Channel, NEW B \in SUBSET A
    PROVE  Cardinality(B) \in Nat /\ Cardinality(A) \in Nat /\ Cardinality(B) <= Cardinality(A)
<1>1. IsFiniteSet(A)
    BY QuotaAssumption, FS_Subset
<1>2. IsFiniteSet(B) /\ Cardinality(B) <= Cardinality(A)
    BY <1>1, FS_Subset
<1> QED
    BY <1>1, <1>2, FS_CardinalityType

LEMMA OneMore ==
    ASSUME NEW A \in SUBSET Channel, NEW c \in Channel, NEW max \in Nat, Cardinality(A) < max
    PROVE  Cardinality(A \union {c}) <= max
<1>1. IsFiniteSet(A) /\ Cardinality(A) \in Nat
    BY QuotaAssumption, FS_Subset, FS_CardinalityType
<1>2. CASE c \in A
    <2>1. A \union {c} = A
        BY <1>2
    <2>2. Cardinality(A) <= max
        BY <1>1
    <2> QED
        BY <2>1, <2>2, Zenon
<1>3. CASE c \notin A
    <2>1. Cardinality(A \union {c}) = Cardinality(A) + 1
        BY <1>1, <1>3, FS_AddElement
    <2> QED
        BY <1>1, <2>1
<1> QED
    BY <1>2, <1>3

LEMMA TtlBounds ==
    ASSUME NEW requested \in Requested
    PROVE  Ttl(requested) \in 1 .. MaxTtl
    BY QuotaAssumption DEF Ttl

\* What pruning leaves: the two sets as a refusal leaves them.
Left(now) == DOMAIN active \ PrunedActive(now)
LeftHourly(now) == DOMAIN hourly \ PrunedHourly(now)

LEMMA LeftFacts ==
    ASSUME TypeOK, NEW now \in Skew
    PROVE  /\ DOMAIN Without(active, PrunedActive(now)) = Left(now)
           /\ \A d \in Left(now) : Without(active, PrunedActive(now))[d] = active[d]
           /\ DOMAIN Without(hourly, PrunedHourly(now)) = LeftHourly(now)
           /\ \A d \in LeftHourly(now) : Without(hourly, PrunedHourly(now))[d] = hourly[d]
           /\ Left(now) \subseteq DOMAIN active /\ LeftHourly(now) \subseteq DOMAIN hourly
           /\ \A d \in Left(now) : active[d] > now
           /\ \A d \in DOMAIN active : active[d] > now => d \in Left(now)
           /\ \A d \in LeftHourly(now) : hourly[d] > now - Hour
           /\ \A d \in DOMAIN hourly : hourly[d] > now - Hour => d \in LeftHourly(now)
<1>1. now \in Int /\ Hour \in Int
    BY QuotaAssumption DEF Skew, TypeOK
<1> QED
    BY <1>1 DEF TypeOK, Without, Restrict, Left, LeftHourly, PrunedActive, PrunedHourly, UpTo

\* Nobody is pruned who has to be known.
LEMMA KnownStay ==
    ASSUME IInv, NEW now \in Skew
    PROVE  /\ \A d \in DOMAIN live : live[d] > 2 * skew =>
                d \in Left(now) /\ active[d] >= live[d] - skew
           /\ MaxHourly > 0 => \A d \in Channel : age[d] < Hour - 2 * skew =>
                d \in LeftHourly(now) /\ hourly[d] >= -age[d] - skew
<1>1. skew \in Nat /\ now \in Int /\ now <= skew /\ Hour \in Nat /\ MaxHourly \in Nat
    BY QuotaAssumption DEF IInv, TypeOK, Skew
<1>2. ASSUME NEW d \in DOMAIN live, live[d] > 2 * skew
      PROVE  d \in Left(now) /\ active[d] >= live[d] - skew
    <2>1. live[d] \in Int /\ d \in DOMAIN active /\ active[d] >= live[d] - skew /\ active[d] \in Int
        BY <1>2 DEF IInv, TypeOK, ActiveKnows
    <2>2. active[d] > now
        BY <1>1, <1>2, <2>1
    <2> QED
        BY <2>1, <2>2, LeftFacts DEF IInv
<1>3. ASSUME MaxHourly > 0, NEW d \in Channel, age[d] < Hour - 2 * skew
      PROVE  d \in LeftHourly(now) /\ hourly[d] >= -age[d] - skew
    <2>1. age[d] \in Int /\ d \in DOMAIN hourly /\ hourly[d] >= -age[d] - skew /\ hourly[d] \in Int
        BY <1>3 DEF IInv, TypeOK, HourlyKnows
    <2>2. hourly[d] > now - Hour
        BY <1>1, <1>3, <2>1
    <2> QED
        BY <2>1, <2>2, LeftFacts DEF IInv
<1> QED
    BY <1>2, <1>3

\* A refusal leaves the pruned sets, and what it says of them is true.
LEMMA RefuseStep ==
    ASSUME IInv, NEW now \in Skew, RefuseActive(now) \/ RefuseHourly(now)
    PROVE  IInv'
<1>1. /\ active' = Without(active, PrunedActive(now)) /\ hourly' = Without(hourly, PrunedHourly(now))
      /\ UNCHANGED <<skew, live, activeTtl, hourlyTtl, age>>
      /\ answer' \in {"active", "hourly"}
      /\ answer' = "active" => ActiveFull(now)
      /\ answer' = "hourly" => HourlyFull(now)
    BY DEF RefuseActive, RefuseHourly, Prune
<1>2. /\ DOMAIN active' = Left(now) /\ \A d \in Left(now) : active'[d] = active[d] /\ active[d] > now
      /\ DOMAIN hourly' = LeftHourly(now)
      /\ \A d \in LeftHourly(now) : hourly'[d] = hourly[d] /\ hourly[d] > now - Hour
      /\ Left(now) \subseteq DOMAIN active /\ LeftHourly(now) \subseteq DOMAIN hourly
    BY <1>1, LeftFacts DEF IInv
<1>3. TypeOK'
    BY <1>1, <1>2 DEF IInv, TypeOK
<1>4. ActiveKnows'
    BY <1>1, <1>2, KnownStay DEF IInv, ActiveKnows
<1>5. HourlyKnows'
    BY <1>1, <1>2, KnownStay DEF IInv, HourlyKnows, Old
<1>6. SetsWithinLimits'
    <2>1. DOMAIN active \in SUBSET Channel /\ DOMAIN hourly \in SUBSET Channel
        BY DEF IInv, TypeOK
    <2>2. /\ Cardinality(DOMAIN active) \in Nat /\ Cardinality(DOMAIN active') \in Nat
          /\ Cardinality(DOMAIN active') <= Cardinality(DOMAIN active)
        BY <1>2, <2>1, Fewer
    <2>3. /\ Cardinality(DOMAIN hourly) \in Nat /\ Cardinality(DOMAIN hourly') \in Nat
          /\ Cardinality(DOMAIN hourly') <= Cardinality(DOMAIN hourly)
        BY <1>2, <2>1, Fewer
    <2> QED
        BY <2>2, <2>3, QuotaAssumption DEF IInv, SetsWithinLimits
<1>7. SetsTrue'
    BY <1>1, <1>2 DEF IInv, SetsTrue
<1>8. RefusalsJustified'
    <2> SUFFICES ASSUME skew = 0
                 PROVE  /\ answer' = "active" => Cardinality(DOMAIN live) >= MaxActive
                        /\ answer' = "hourly" =>
                             Cardinality({c \in Channel : age[c] < Hour}) >= MaxHourly
        BY <1>1 DEF RefusalsJustified
    <2>1. now = 0
        BY DEF Skew
    <2>2. CASE answer' = "active"
        <3>1. Left(now) \subseteq DOMAIN live
            BY <1>2, <2>1 DEF IInv, SetsTrue
        <3>2. DOMAIN live \in SUBSET Channel
            BY DEF IInv, TypeOK
        <3>3. /\ Cardinality(Left(now)) \in Nat /\ Cardinality(DOMAIN live) \in Nat
              /\ Cardinality(Left(now)) <= Cardinality(DOMAIN live)
            BY <3>1, <3>2, Fewer
        <3>4. Cardinality(Left(now)) >= MaxActive
            BY <1>1, <2>2 DEF ActiveFull, ActiveCount, Left
        <3> QED
            BY <2>2, <3>3, <3>4, QuotaAssumption
    <2>3. CASE answer' = "hourly"
        <3> DEFINE Recent == {c \in Channel : age[c] < Hour}
        <3>1. LeftHourly(now) \subseteq Recent
            <4> SUFFICES ASSUME NEW d \in LeftHourly(now) PROVE d \in Channel /\ age[d] < Hour
                OBVIOUS
            <4>1. d \in DOMAIN hourly /\ hourly[d] > now - Hour
                BY <1>2
            <4>2. d \in Channel /\ hourly[d] \in Int /\ age[d] \in Int /\ age[d] <= -hourly[d]
                BY <4>1 DEF IInv, TypeOK, SetsTrue
            <4> QED
                BY <2>1, <4>1, <4>2, QuotaAssumption
        <3>2. Recent \in SUBSET Channel
            OBVIOUS
        <3> HIDE DEF Recent
        <3>3. /\ Cardinality(LeftHourly(now)) \in Nat /\ Cardinality(Recent) \in Nat
              /\ Cardinality(LeftHourly(now)) <= Cardinality(Recent)
            BY <3>1, <3>2, Fewer
        <3>4. Cardinality(LeftHourly(now)) >= MaxHourly
            BY <1>1, <2>3 DEF HourlyFull, HourlyCount, LeftHourly
        <3>5. Cardinality(Recent) >= MaxHourly
            BY <3>3, <3>4, QuotaAssumption
        <3> QED
            BY <2>3, <3>5 DEF Recent
    <2> QED
        BY <1>1, <2>2, <2>3
<1> QED
    BY <1>3, <1>4, <1>5, <1>6, <1>7, <1>8 DEF IInv

\* A created channel is stored and counted by both sets.
LEMMA CreateStep ==
    ASSUME IInv, NEW now \in Skew, NEW c \in Channel, NEW requested \in Requested,
           Create(c, now, requested)
    PROVE  IInv'
<1> DEFINE ttl == Ttl(requested)
<1>1. ttl \in 1 .. MaxTtl
    BY TtlBounds
<1>2. /\ skew' = skew /\ skew \in Nat /\ now \in Int /\ -skew <= now /\ now <= skew
      /\ Hour \in Nat \ {0} /\ MaxTtl \in Nat /\ MaxActive \in Nat /\ MaxHourly \in Nat
    BY QuotaAssumption DEF IInv, TypeOK, Skew, Create
<1> HIDE DEF ttl
<1>3. /\ DOMAIN live' = DOMAIN live \union {c} /\ live'[c] = ttl
      /\ \A d \in DOMAIN live : d # c => live'[d] = live[d]
    BY DEF Create, With, ttl
<1>4. /\ DOMAIN active' = Left(now) \union {c} /\ active'[c] = ttl + now
      /\ \A d \in Left(now) : d # c => active'[d] = active[d]
      /\ Left(now) \subseteq DOMAIN active
    <2>1. active' = With(Without(active, PrunedActive(now)), c, ttl + now)
        BY DEF Create, ttl
    <2> QED
        BY <2>1, LeftFacts DEF IInv, With
<1>5. /\ MaxHourly > 0 => /\ DOMAIN hourly' = LeftHourly(now) \union {c} /\ hourly'[c] = now
                          /\ hourlyTtl' = 2 * Hour
      /\ ~(MaxHourly > 0) => /\ DOMAIN hourly' = LeftHourly(now) /\ hourlyTtl' = hourlyTtl
                             /\ \A d \in LeftHourly(now) : hourly'[d] = hourly[d]
      /\ \A d \in LeftHourly(now) : d # c => hourly'[d] = hourly[d]
      /\ LeftHourly(now) \subseteq DOMAIN hourly
    <2>1. CASE MaxHourly > 0
        <3>1. /\ hourly' = With(Without(hourly, PrunedHourly(now)), c, now)
              /\ hourlyTtl' = 2 * Hour
            BY <2>1 DEF Create
        <3> QED
            BY <2>1, <3>1, LeftFacts DEF IInv, With
    <2>2. CASE ~(MaxHourly > 0)
        <3>1. hourly' = Without(hourly, PrunedHourly(now)) /\ hourlyTtl' = hourlyTtl
            BY <2>2 DEF Create
        <3> QED
            BY <2>2, <3>1, LeftFacts DEF IInv
    <2> QED
        BY <2>1, <2>2
<1>6. /\ activeTtl' = MaxTtl /\ age' = [age EXCEPT ![c] = 0] /\ answer' = "ok"
      /\ ~ActiveFull(now) /\ ~HourlyFull(now)
    BY DEF Create
<1>7. age' \in [Channel -> 0 .. Old] /\ age'[c] = 0 /\ \A d \in Channel : d # c => age'[d] = age[d]
    BY <1>2, <1>6 DEF IInv, TypeOK, Old
<1>8. TypeOK'
    <2>1. DOMAIN live' \subseteq Channel /\ \A d \in DOMAIN live' : live'[d] \in 1 .. MaxTtl
        BY <1>1, <1>3 DEF IInv, TypeOK
    <2>2. DOMAIN active' \subseteq Channel /\ \A d \in DOMAIN active' : active'[d] \in Int
        BY <1>1, <1>2, <1>4 DEF IInv, TypeOK
    <2>3. DOMAIN hourly' \subseteq Channel /\ \A d \in DOMAIN hourly' : hourly'[d] \in Int
        <3>1. DOMAIN hourly \subseteq Channel /\ \A d \in DOMAIN hourly : hourly[d] \in Int
            BY DEF IInv, TypeOK
        <3>2. CASE MaxHourly > 0
            BY <1>2, <1>5, <3>1, <3>2
        <3>3. CASE ~(MaxHourly > 0)
            BY <1>5, <1>6, <3>1, <3>3
        <3> QED
            BY <3>2, <3>3
    <2>4. activeTtl' \in 0 .. MaxTtl
        BY <1>2, <1>6
    <2>5. hourlyTtl' \in 0 .. 2 * Hour
        BY <1>2, <1>5 DEF IInv, TypeOK
    <2> QED
        BY <1>2, <1>6, <1>7, <2>1, <2>2, <2>3, <2>4, <2>5 DEF IInv, TypeOK
<1>9. ActiveKnows'
    <2> SUFFICES ASSUME NEW d \in DOMAIN live'
                 PROVE  /\ live'[d] <= activeTtl'
                        /\ live'[d] > 2 * skew => d \in DOMAIN active' /\ active'[d] >= live'[d] - skew
        BY <1>2 DEF ActiveKnows
    <2>1. CASE d = c
        BY <1>1, <1>2, <1>3, <1>4, <1>6, <2>1
    <2>2. CASE d # c
        <3>1. d \in DOMAIN live /\ live'[d] = live[d] /\ live[d] \in 1 .. MaxTtl
            BY <1>3, <2>2 DEF IInv, TypeOK
        <3>2. live[d] > 2 * skew => d \in Left(now) /\ active[d] >= live[d] - skew
            BY <3>1, KnownStay
        <3> QED
            BY <1>2, <1>4, <1>6, <2>2, <3>1, <3>2
    <2> QED
        BY <2>1, <2>2
<1>10. HourlyKnows'
    <2> SUFFICES ASSUME MaxHourly > 0, NEW d \in Channel
                 PROVE  /\ hourlyTtl' >= Old - age'[d]
                        /\ age'[d] < Hour - 2 * skew =>
                             d \in DOMAIN hourly' /\ hourly'[d] >= -age'[d] - skew
        BY <1>2 DEF HourlyKnows, Old
    <2>1. hourlyTtl' >= Old - age'[d]
        BY <1>2, <1>5, <1>7 DEF Old
    <2>2. CASE d = c
        BY <1>2, <1>5, <1>7, <2>1, <2>2
    <2>3. CASE d # c
        <3>1. age'[d] = age[d]
            BY <1>7, <2>3
        <3>2. age[d] < Hour - 2 * skew => d \in LeftHourly(now) /\ hourly[d] >= -age[d] - skew
            BY KnownStay
        <3> QED
            BY <1>5, <2>1, <2>3, <3>1, <3>2
    <2> QED
        BY <2>2, <2>3
<1>11. SetsWithinLimits'
    <2>1. ASSUME MaxActive > 0 PROVE Cardinality(DOMAIN active') <= MaxActive
        <3>1. Left(now) \in SUBSET Channel
            BY <1>4 DEF IInv, TypeOK
        <3>2. Cardinality(Left(now)) \in Nat
            BY <3>1, Fewer
        <3>3. Cardinality(Left(now)) < MaxActive
            BY <1>2, <1>6, <2>1, <3>2 DEF ActiveFull, ActiveCount, Left
        <3>4. Cardinality(Left(now) \union {c}) <= MaxActive
            BY <1>2, <3>1, <3>3, OneMore
        <3> QED
            BY <1>4, <3>4
    <2>2. ASSUME MaxHourly > 0 PROVE Cardinality(DOMAIN hourly') <= MaxHourly
        <3>1. LeftHourly(now) \in SUBSET Channel
            BY <1>5 DEF IInv, TypeOK
        <3>2. Cardinality(LeftHourly(now)) \in Nat
            BY <3>1, Fewer
        <3>3. Cardinality(LeftHourly(now)) < MaxHourly
            BY <1>2, <1>6, <2>2, <3>2 DEF HourlyFull, HourlyCount, LeftHourly
        <3>4. Cardinality(LeftHourly(now) \union {c}) <= MaxHourly
            BY <1>2, <3>1, <3>3, OneMore
        <3> QED
            BY <1>5, <2>2, <3>4
    <2> QED
        BY <2>1, <2>2 DEF SetsWithinLimits
<1>12. SetsTrue'
    <2> SUFFICES ASSUME skew = 0
                 PROVE  /\ \A d \in DOMAIN active' : active'[d] > 0 =>
                             d \in DOMAIN live' /\ live'[d] >= active'[d]
                        /\ \A d \in DOMAIN hourly' : age'[d] <= -hourly'[d]
        BY <1>2 DEF SetsTrue
    <2>1. now = 0
        BY <1>2
    <2>2. ASSUME NEW d \in DOMAIN active', active'[d] > 0
          PROVE  d \in DOMAIN live' /\ live'[d] >= active'[d]
        <3>1. CASE d = c
            BY <1>1, <1>3, <1>4, <2>1, <3>1
        <3>2. CASE d # c
            BY <1>3, <1>4, <1>6, <2>2, <3>2 DEF IInv, SetsTrue
        <3> QED
            BY <3>1, <3>2
    <2>3. ASSUME NEW d \in DOMAIN hourly' PROVE age'[d] <= -hourly'[d]
        <3>1. CASE d = c /\ MaxHourly > 0
            BY <1>5, <1>7, <2>1, <3>1
        <3>3. CASE d = c /\ ~(MaxHourly > 0)
            <4>1. c \in DOMAIN hourly /\ hourly'[c] = hourly[c] /\ hourly[c] \in Int
                BY <1>5, <2>3, <3>3 DEF IInv, TypeOK
            <4>2. age[c] \in Nat /\ age[c] <= -hourly[c]
                BY <4>1 DEF IInv, TypeOK, SetsTrue
            <4> QED
                BY <1>7, <3>3, <4>1, <4>2
        <3>2. CASE d # c
            <4>1. d \in LeftHourly(now) /\ d \in DOMAIN hourly /\ d \in Channel
                BY <1>5, <2>3, <3>2 DEF IInv, TypeOK
            <4>2. hourly'[d] = hourly[d] /\ age'[d] = age[d] /\ age[d] <= -hourly[d]
                BY <1>5, <1>7, <3>2, <4>1 DEF IInv, SetsTrue
            <4> QED
                BY <4>2
        <3> QED
            BY <3>1, <3>2, <3>3
    <2> QED
        BY <2>2, <2>3
<1>13. RefusalsJustified'
    BY <1>6 DEF RefusalsJustified
<1> QED
    BY <1>8, <1>9, <1>10, <1>11, <1>12, <1>13 DEF IInv

\* Time passes for keys, scores and ages alike.
LEMMA TickStep ==
    ASSUME IInv, Tick
    PROVE  IInv'
<1>1. /\ skew' = skew /\ skew \in Nat /\ Hour \in Nat \ {0} /\ MaxTtl \in Nat /\ MaxHourly \in Nat
      /\ Old = 2 * Hour
      /\ activeTtl \in 0 .. MaxTtl /\ hourlyTtl \in 0 .. 2 * Hour
    BY QuotaAssumption DEF IInv, TypeOK, Tick, Old
<1>2. /\ DOMAIN live' = {d \in DOMAIN live : live[d] > 1}
      /\ \A d \in DOMAIN live' : live'[d] = live[d] - 1
    BY DEF Tick, Later, Restrict
<1>3. /\ DOMAIN active' \subseteq DOMAIN active
      /\ \A d \in DOMAIN active' : active'[d] = active[d] - 1
      /\ activeTtl > 1 => DOMAIN active' = DOMAIN active
    <2>1. CASE activeTtl > 1
        BY <2>1 DEF Tick, Later
    <2>2. CASE ~(activeTtl > 1)
        <3>1. DOMAIN active' = {}
            BY <2>2 DEF Tick
        <3> QED
            BY <2>2, <3>1
    <2> QED
        BY <2>1, <2>2
<1>4. /\ DOMAIN hourly' \subseteq DOMAIN hourly
      /\ \A d \in DOMAIN hourly' : hourly'[d] = hourly[d] - 1
      /\ hourlyTtl > 1 => DOMAIN hourly' = DOMAIN hourly
    <2>1. CASE hourlyTtl > 1
        BY <2>1 DEF Tick, Later
    <2>2. CASE ~(hourlyTtl > 1)
        <3>1. DOMAIN hourly' = {}
            BY <2>2 DEF Tick
        <3> QED
            BY <2>2, <3>1
    <2> QED
        BY <2>1, <2>2
<1>5. /\ activeTtl' = Less1(activeTtl) /\ hourlyTtl' = Less1(hourlyTtl)
      /\ answer' = "none"
    BY DEF Tick
<1>6. /\ age' \in [Channel -> 0 .. Old]
      /\ \A d \in Channel : age[d] \in 0 .. Old /\ age'[d] = IF age[d] < Old THEN age[d] + 1 ELSE Old
    <2>1. Old \in Nat
        BY <1>1
    <2>2. \A d \in Channel : age[d] \in 0 .. Old
        BY DEF IInv, TypeOK
    <2>3. age' = [c \in Channel |-> IF age[c] < Old THEN age[c] + 1 ELSE Old]
        BY DEF Tick
    <2>4. \A d \in Channel : age'[d] = IF age[d] < Old THEN age[d] + 1 ELSE Old
        BY <2>3, Zenon
    <2>5. \A d \in Channel : age'[d] \in 0 .. Old
        BY <2>1, <2>2, <2>4
    <2>6. age' \in [Channel -> 0 .. Old]
        <3>1. age' = [c \in Channel |-> age'[c]]
            BY <2>3, Zenon
        <3> QED
            BY <2>5, <3>1
    <2> QED
        BY <2>2, <2>4, <2>6
<1>7. TypeOK'
    <2>1. DOMAIN live' \subseteq Channel /\ \A d \in DOMAIN live' : live'[d] \in 1 .. MaxTtl
        <3> SUFFICES ASSUME NEW d \in DOMAIN live' PROVE d \in Channel /\ live'[d] \in 1 .. MaxTtl
            OBVIOUS
        <3>1. d \in Channel /\ live[d] \in 1 .. MaxTtl /\ live[d] > 1 /\ live'[d] = live[d] - 1
            BY <1>2 DEF IInv, TypeOK
        <3> QED
            BY <1>1, <3>1
    <2>2. DOMAIN active' \subseteq Channel /\ \A d \in DOMAIN active' : active'[d] \in Int
        BY <1>3 DEF IInv, TypeOK
    <2>3. DOMAIN hourly' \subseteq Channel /\ \A d \in DOMAIN hourly' : hourly'[d] \in Int
        BY <1>4 DEF IInv, TypeOK
    <2>4. activeTtl' \in 0 .. MaxTtl /\ hourlyTtl' \in 0 .. 2 * Hour
        BY <1>1, <1>5 DEF Less1
    <2> QED
        BY <1>1, <1>5, <1>6, <2>1, <2>2, <2>3, <2>4 DEF IInv, TypeOK
<1>8. ActiveKnows'
    <2> SUFFICES ASSUME NEW d \in DOMAIN live'
                 PROVE  /\ live'[d] <= activeTtl'
                        /\ live'[d] > 2 * skew => d \in DOMAIN active' /\ active'[d] >= live'[d] - skew
        BY <1>1 DEF ActiveKnows
    <2>1. /\ d \in DOMAIN live /\ live[d] \in Int /\ live[d] > 1 /\ live'[d] = live[d] - 1
          /\ live[d] <= activeTtl
        BY <1>2 DEF IInv, TypeOK, ActiveKnows
    <2>2. activeTtl > 1 /\ activeTtl' = activeTtl - 1
        BY <1>1, <1>5, <2>1 DEF Less1
    <2>3. ASSUME live'[d] > 2 * skew PROVE d \in DOMAIN active' /\ active'[d] >= live'[d] - skew
        <3>1. d \in DOMAIN active /\ active[d] >= live[d] - skew /\ active[d] \in Int
            BY <1>1, <2>1, <2>3 DEF IInv, ActiveKnows, TypeOK
        <3> QED
            BY <1>1, <1>3, <2>1, <2>2, <3>1
    <2> QED
        BY <1>1, <2>1, <2>2, <2>3
<1>9. HourlyKnows'
    <2> SUFFICES ASSUME MaxHourly > 0, NEW d \in Channel
                 PROVE  /\ hourlyTtl' >= Old - age'[d]
                        /\ age'[d] < Hour - 2 * skew =>
                             d \in DOMAIN hourly' /\ hourly'[d] >= -age'[d] - skew
        BY <1>1 DEF HourlyKnows, Old
    <2>1. hourlyTtl >= Old - age[d]
        BY DEF IInv, HourlyKnows
    <2>2. hourlyTtl' >= Old - age'[d]
        BY <1>1, <1>5, <1>6, <2>1 DEF Less1
    <2>3. ASSUME age'[d] < Hour - 2 * skew
          PROVE  d \in DOMAIN hourly' /\ hourly'[d] >= -age'[d] - skew
        <3>1. age[d] < Hour - 2 * skew /\ age'[d] = age[d] + 1 /\ age[d] \in Int
            BY <1>1, <1>6, <2>3
        <3>2. d \in DOMAIN hourly /\ hourly[d] >= -age[d] - skew /\ hourly[d] \in Int
            BY <3>1 DEF IInv, HourlyKnows, TypeOK
        <3>3. hourlyTtl > 1
            BY <1>1, <2>1, <3>1
        <3> QED
            BY <1>1, <1>4, <3>1, <3>2, <3>3
    <2> QED
        BY <2>2, <2>3
<1>10. SetsWithinLimits'
    <2>1. DOMAIN active \in SUBSET Channel /\ DOMAIN hourly \in SUBSET Channel
        BY DEF IInv, TypeOK
    <2>2. /\ Cardinality(DOMAIN active) \in Nat /\ Cardinality(DOMAIN active') \in Nat
          /\ Cardinality(DOMAIN active') <= Cardinality(DOMAIN active)
        BY <1>3, <2>1, Fewer
    <2>3. /\ Cardinality(DOMAIN hourly) \in Nat /\ Cardinality(DOMAIN hourly') \in Nat
          /\ Cardinality(DOMAIN hourly') <= Cardinality(DOMAIN hourly)
        BY <1>4, <2>1, Fewer
    <2> QED
        BY <2>2, <2>3, QuotaAssumption DEF IInv, SetsWithinLimits
<1>11. SetsTrue'
    <2>1. ASSUME skew = 0, NEW d \in DOMAIN active', active'[d] > 0
          PROVE  d \in DOMAIN live' /\ live'[d] >= active'[d]
        <3>1. d \in DOMAIN active /\ active[d] \in Int /\ active[d] > 1 /\ active'[d] = active[d] - 1
            BY <1>3, <2>1 DEF IInv, TypeOK
        <3>2. d \in DOMAIN live /\ live[d] >= active[d] /\ live[d] \in Int
            BY <2>1, <3>1 DEF IInv, TypeOK, SetsTrue
        <3> QED
            BY <1>2, <3>1, <3>2
    <2>2. ASSUME skew = 0, NEW d \in DOMAIN hourly' PROVE age'[d] <= -hourly'[d]
        <3>1. d \in DOMAIN hourly /\ d \in Channel /\ hourly[d] \in Int /\ hourly'[d] = hourly[d] - 1
            BY <1>4, <2>2 DEF IInv, TypeOK
        <3>2. age[d] <= -hourly[d]
            BY <2>2, <3>1 DEF IInv, SetsTrue
        <3> QED
            BY <1>1, <1>6, <3>1, <3>2
    <2> QED
        BY <1>1, <2>1, <2>2 DEF SetsTrue
<1>12. RefusalsJustified'
    BY <1>5 DEF RefusalsJustified
<1> QED
    BY <1>7, <1>8, <1>9, <1>10, <1>11, <1>12 DEF IInv

LEMMA InitOK == Init => IInv
<1> SUFFICES ASSUME Init PROVE IInv
    OBVIOUS
<1>1. DOMAIN live = {} /\ DOMAIN active = {} /\ DOMAIN hourly = {}
    BY DEF Init
<1>2. /\ 0 \in 0 .. MaxTtl /\ 0 \in 0 .. 2 * Hour /\ Old \in 0 .. Old
      /\ \A c \in Channel : age[c] = 2 * Hour
      /\ Hour \in Nat \ {0} /\ skew \in Nat
    BY QuotaAssumption DEF Init, Old
<1>3. TypeOK
    BY <1>1, <1>2 DEF Init, TypeOK
<1>4. ActiveKnows /\ SetsTrue
    BY <1>1 DEF ActiveKnows, SetsTrue
<1>5. HourlyKnows
    BY <1>2 DEF Init, HourlyKnows, Old
<1>6. SetsWithinLimits
    BY <1>1, FS_EmptySet, QuotaAssumption DEF SetsWithinLimits
<1>7. RefusalsJustified
    BY DEF Init, RefusalsJustified
<1> QED
    BY <1>3, <1>4, <1>5, <1>6, <1>7 DEF IInv

\* The invariant of channelQuota.ts: what the two sets know of the channels, what
\* they hold, and what a refusal says, for every limit and clock difference.
THEOREM Invariant == Spec => []IInv
<1>1. Init => IInv
    BY InitOK
<1>2. IInv /\ [Next]_vars => IInv'
    <2> SUFFICES ASSUME IInv, [Next]_vars PROVE IInv'
        OBVIOUS
    <2>1. ASSUME NEW now \in Skew, RefuseActive(now) PROVE IInv'
        BY <2>1, RefuseStep
    <2>2. ASSUME NEW now \in Skew, RefuseHourly(now) PROVE IInv'
        BY <2>2, RefuseStep
    <2>3. ASSUME NEW now \in Skew, NEW c \in Channel, NEW requested \in Requested,
                 Create(c, now, requested)
          PROVE  IInv'
        BY <2>3, CreateStep
    <2>4. CASE Tick
        BY <2>4, TickStep
    <2>5. CASE UNCHANGED vars
        BY <2>5 DEF vars, IInv, TypeOK, ActiveKnows, HourlyKnows, SetsWithinLimits, SetsTrue,
                   RefusalsJustified
    <2> QED
        BY <2>1, <2>2, <2>3, <2>4, <2>5 DEF Next
<1> QED
    BY <1>1, <1>2, PTL DEF Spec

\* A tenant never has more live channels than MAX_CHANNELS_PER_TENANT_ACTIVE, but
\* for those that expire within twice the clocks' difference.
THEOREM ActiveLimitTheorem == Spec => []WithinActiveLimit
<1>1. ASSUME IInv PROVE WithinActiveLimit
    <2> DEFINE Lasting == {c \in DOMAIN live : live[c] > 2 * skew}
    <2>1. Lasting \in SUBSET DOMAIN active /\ DOMAIN active \in SUBSET Channel
        BY <1>1 DEF IInv, ActiveKnows, TypeOK
    <2> HIDE DEF Lasting
    <2>2. /\ Cardinality(Lasting) \in Nat /\ Cardinality(DOMAIN active) \in Nat
          /\ Cardinality(Lasting) <= Cardinality(DOMAIN active)
        BY <2>1, Fewer
    <2>3. MaxActive > 0 => Cardinality(Lasting) <= MaxActive
        BY <1>1, <2>2, QuotaAssumption DEF IInv, SetsWithinLimits
    <2> QED
        BY <2>3 DEF Lasting, WithinActiveLimit
<1> QED
    BY <1>1, Invariant, PTL

\* No tenant creates more than MAX_CHANNELS_PER_TENANT_HOUR channels within any
\* hour, less twice the clocks' difference.
THEOREM HourlyLimitTheorem == Spec => []WithinHourlyLimit
<1>1. ASSUME IInv PROVE WithinHourlyLimit
    <2> SUFFICES ASSUME MaxHourly > 0
                 PROVE  Cardinality({c \in Channel : age[c] < Hour - 2 * skew}) <= MaxHourly
        BY DEF WithinHourlyLimit
    <2> DEFINE Recent == {c \in Channel : age[c] < Hour - 2 * skew}
    <2>1. Recent \in SUBSET DOMAIN hourly /\ DOMAIN hourly \in SUBSET Channel
        BY <1>1 DEF IInv, HourlyKnows, TypeOK
    <2> HIDE DEF Recent
    <2>2. /\ Cardinality(Recent) \in Nat /\ Cardinality(DOMAIN hourly) \in Nat
          /\ Cardinality(Recent) <= Cardinality(DOMAIN hourly)
        BY <2>1, Fewer
    <2>3. Cardinality(Recent) <= MaxHourly
        BY <1>1, <2>2, QuotaAssumption DEF IInv, SetsWithinLimits
    <2> QED
        BY <2>3 DEF Recent
<1> QED
    BY <1>1, Invariant, PTL

\* On equal clocks no tenant is refused a channel it has room for.
THEOREM RefusalsTheorem == Spec => []RefusalsJustified
<1>1. IInv => RefusalsJustified
    BY DEF IInv
<1> QED
    BY <1>1, Invariant, PTL

-----------------------------------------------------------------------------
\* Induction over the naturals, for a set instead of a predicate: the provers
\* can instantiate a set.

NatOrder == OpToRel(<, Nat)

LEMMA NatOrderWellFounded == IsWellFoundedOn(NatOrder, Nat)
    BY NatLessThanWellFounded DEF NatOrder

LEMMA Smallest ==
    ASSUME NEW T, T \subseteq Nat, T # {}
    PROVE  \E x \in T : \A y \in T : ~(y < x)
<1>1. \A R, S : IsWellFoundedOn(R, S) =>
        \A U : U \subseteq S /\ U # {} => \E x \in U : \A y \in U : <<y, x>> \notin R
    BY WFMin, Zenon
<1>2. \E x \in T : \A y \in T : <<y, x>> \notin NatOrder
    BY <1>1, NatOrderWellFounded, Zenon
<1>3. \A m, n \in Nat : m < n => <<m, n>> \in NatOrder
    BY DEF NatOrder, OpToRel
<1> QED
    BY <1>2, <1>3

LEMMA NatInduct ==
    ASSUME NEW S, 0 \in S, \A n \in Nat : n \in S => n + 1 \in S
    PROVE  \A n \in Nat : n \in S
<1> DEFINE T == Nat \ S
<1> SUFFICES ASSUME T # {} PROVE FALSE
    OBVIOUS
<1>1. PICK x \in T : \A y \in T : ~(y < x)
    <2>1. T \subseteq Nat
        OBVIOUS
    <2> HIDE DEF T
    <2> QED
        BY <2>1, Smallest
<1>2. x # 0 /\ x - 1 \in Nat /\ x - 1 < x
    OBVIOUS
<1>3. x - 1 \in S
    BY <1>1, <1>2
<1> QED
    BY <1>2, <1>3

-----------------------------------------------------------------------------
\* The request (ChannelRequest): cells, the resolutions and what is built.

LEMMA CellFacts ==
    /\ \A c \in Cell : c \in Seq(Digit) /\ Len(c) \in 0 .. MaxRes /\ c \in [1 .. Len(c) -> Digit]
    /\ \A r \in 0 .. MaxRes : [1 .. r -> Digit] \subseteq CellsAt(r)
    /\ \A r \in 0 .. MaxRes : CellsAt(r) \subseteq [1 .. r -> Digit]
    /\ \A r : CellsAt(r) \subseteq Cell /\ \A c \in CellsAt(r) : Len(c) = r
<1>1. ASSUME NEW r \in Nat, NEW c \in [1 .. r -> Digit] PROVE c \in Seq(Digit) /\ Len(c) = r
    BY <1>1
<1>2. MaxRes \in Nat
    BY RequestAssumption
<1>3. ASSUME NEW c \in Cell
      PROVE  c \in Seq(Digit) /\ Len(c) \in 0 .. MaxRes /\ c \in [1 .. Len(c) -> Digit]
    <2>1. PICK r \in 0 .. MaxRes : c \in [1 .. r -> Digit]
        BY DEF Cell
    <2> QED
        BY <1>1, <1>2, <2>1
<1>4. ASSUME NEW r \in 0 .. MaxRes, NEW c \in [1 .. r -> Digit] PROVE c \in CellsAt(r)
    <2>1. c \in Cell
        BY DEF Cell
    <2>2. Len(c) = r
        BY <1>1, <1>2
    <2> QED
        BY <2>1, <2>2 DEF CellsAt
<1> QED
    BY <1>3, <1>4 DEF CellsAt

LEMMA ParentFacts ==
    ASSUME NEW c \in Cell, NEW r \in 0 .. Len(c)
    PROVE  /\ Parent(c, r) \in CellsAt(r) /\ Len(Parent(c, r)) = r
           /\ \A i \in 1 .. r : Parent(c, r)[i] = c[i]
<1>1. c \in Seq(Digit) /\ Len(c) \in 0 .. MaxRes /\ MaxRes \in Nat
    BY CellFacts, RequestAssumption
<1>2. /\ SubSeq(c, 1, r) \in [1 .. r -> Digit] /\ Len(SubSeq(c, 1, r)) = r
      /\ \A i \in 1 .. r : SubSeq(c, 1, r)[i] = c[i]
    <2> DEFINE s == SubSeq(c, 1, r)
    <2>1. r \in Nat /\ r <= Len(c)
        BY <1>1
    <2>2. s \in Seq(Digit) /\ Len(s) = r /\ \A i \in 1 .. r : s[i] = c[i]
        BY <1>1, <2>1
    <2> HIDE DEF s
    <2>3. s \in [1 .. r -> Digit]
        BY <2>2
    <2> QED
        BY <2>2, <2>3 DEF s
<1>3. r \in 0 .. MaxRes
    BY <1>1
<1> QED
    BY <1>2, <1>3, CellFacts DEF Parent

\* The cells of one resolution that agree digit by digit are one.
LEMMA SameCell ==
    ASSUME NEW r \in 0 .. MaxRes, NEW c \in CellsAt(r), NEW d \in CellsAt(r), \A i \in 1 .. r : c[i] = d[i]
    PROVE  c = d
<1>1. c \in [1 .. r -> Digit] /\ d \in [1 .. r -> Digit]
    BY CellFacts
<1> QED
    BY <1>1

LEMMA PrefixFacts ==
    ASSUME NEW c \in Cell, NEW d \in Cell
    PROVE  IsPrefix(c, d) <=> Len(c) <= Len(d) /\ \A i \in 1 .. Len(c) : c[i] = d[i]
<1>1. c \in Seq(Digit) /\ d \in Seq(Digit) /\ Len(c) \in Nat /\ Len(d) \in Nat
    BY CellFacts
<1>2. SubSeq(c, 1, Len(c)) = c
    BY <1>1
<1>3. ASSUME Len(c) <= Len(d)
      PROVE  (c = SubSeq(d, 1, Len(c))) <=> \A i \in 1 .. Len(c) : c[i] = d[i]
    <2> DEFINE s == SubSeq(d, 1, Len(c))
    <2>1. s \in Seq(Digit) /\ Len(s) = Len(c) /\ \A i \in 1 .. Len(c) : s[i] = d[i]
        BY <1>1, <1>3
    <2> HIDE DEF s
    <2>2. ASSUME \A i \in 1 .. Len(c) : c[i] = d[i] PROVE c = s
        BY <1>1, <2>1, <2>2, SeqEqual
    <2>3. c = s => \A i \in 1 .. Len(c) : c[i] = d[i]
        BY <2>1
    <2> QED
        BY <2>2, <2>3 DEF s
<1> QED
    BY <1>2, <1>3 DEF IsPrefix

\* The channel's resolution lies in the streams' range.
LEMMA ResFacts ==
    ASSUME setting \in Settings, body \in Bodies
    PROVE  /\ StreamMin \in 0 .. MaxRes /\ StreamMax \in 0 .. MaxRes /\ Res \in 0 .. MaxRes
           /\ StreamMin <= Res /\ Res <= StreamMax /\ setting.ingest \in 0 .. MaxRes
<1>1. /\ MaxRes \in Nat /\ setting.min \in 0 .. MaxRes /\ setting.max \in 0 .. MaxRes
      /\ setting.ingest \in 0 .. MaxRes /\ body.res \in Int
    BY RequestAssumption
<1>2. ASSUME NEW a \in Nat, NEW b \in Nat
      PROVE  /\ Min({a, b}) \in {a, b} /\ Max({a, b}) \in {a, b} /\ Min({a, b}) <= Max({a, b})
    <2>1. \E x \in {a, b} : \A y \in {a, b} : x <= y
        <3>1. CASE a <= b
            BY <3>1
        <3>2. CASE b <= a
            BY <3>2
        <3> QED
            BY <3>1, <3>2
    <2>2. \E x \in {a, b} : \A y \in {a, b} : x >= y
        <3>1. CASE a <= b
            BY <3>1
        <3>2. CASE b <= a
            BY <3>2
        <3> QED
            BY <3>1, <3>2
    <2>3. Min({a, b}) \in {a, b} /\ \A y \in {a, b} : Min({a, b}) <= y
        BY <2>1 DEF Min
    <2>4. Max({a, b}) \in {a, b}
        BY <2>2 DEF Max
    <2> QED
        BY <2>3, <2>4
<1>3. StreamMin \in 0 .. MaxRes /\ StreamMax \in 0 .. MaxRes /\ StreamMin <= StreamMax
    <2>1. setting.min \in Nat /\ setting.max \in Nat
        BY <1>1
    <2> QED
        BY <1>1, <1>2, <2>1 DEF StreamMin, StreamMax
<1> DEFINE wanted == Between(body.res, 0, MaxRes)
<1>4. wanted \in 0 .. MaxRes
    BY <1>1 DEF Between
<1>5. Res = Between(wanted, StreamMin, StreamMax)
    BY DEF Res
<1> HIDE DEF wanted
<1>6. StreamMin <= Res /\ Res <= StreamMax /\ Res \in Int
    BY <1>1, <1>3, <1>4, <1>5 DEF Between
<1> QED
    BY <1>1, <1>3, <1>6

LEMMA TilesFacts ==
    ASSUME setting \in Settings, body \in Bodies
    PROVE  Tiles \subseteq CellsAt(Res)
<1>1. Res \in 0 .. MaxRes
    BY ResFacts
<1>2. CASE body.kind = "polygon"
    BY <1>2 DEF Tiles
<1>3. CASE body.kind # "polygon"
    <2>1. body.area \subseteq Cell
        BY <1>3, RequestAssumption
    <2>2. ASSUME NEW t \in body.area
          PROVE  (IF Len(t) < Res THEN Children(t, Res) ELSE {Parent(t, Res)}) \subseteq CellsAt(Res)
        <3>1. t \in Cell /\ Len(t) \in Nat
            BY <2>1, CellFacts
        <3>2. CASE Len(t) < Res
            BY <3>2 DEF Children
        <3>3. CASE ~(Len(t) < Res)
            <4>1. Res \in 0 .. Len(t)
                BY <1>1, <3>1, <3>3
            <4> QED
                BY <3>1, <3>3, <4>1, ParentFacts
        <3> QED
            BY <3>2, <3>3
    <2> QED
        BY <1>3, <2>2 DEF Tiles
<1> QED
    BY <1>2, <1>3

\* An event inside the area lies in the tile of the channel's resolution.
LEMMA InsideFacts ==
    ASSUME setting \in Settings, body \in Bodies, NEW e \in CellsAt(MaxRes), Inside(e)
    PROVE  Parent(e, Res) \in Tiles
<1>1. Res \in 0 .. MaxRes /\ MaxRes \in Nat /\ MaxRes \in 0 .. MaxRes
    BY ResFacts, RequestAssumption
<1>2. e \in Cell /\ Len(e) = MaxRes
    BY CellFacts
<1>3. /\ Parent(e, Res) \in CellsAt(Res) /\ Len(Parent(e, Res)) = Res /\ Parent(e, Res) \in Cell
      /\ \A i \in 1 .. Res : Parent(e, Res)[i] = e[i]
    BY <1>1, <1>2, ParentFacts, CellFacts
<1>4. CASE body.kind = "polygon"
    BY <1>3, <1>4 DEF Inside, Tiles
<1>5. CASE body.kind # "polygon"
    <2>1. PICK t \in body.area : IsPrefix(t, e)
        BY <1>5 DEF Inside
    <2>2. t \in Cell /\ Len(t) \in Nat
        BY <1>5, RequestAssumption, CellFacts
    <2>3. Len(t) <= MaxRes /\ \A i \in 1 .. Len(t) : t[i] = e[i]
        BY <1>2, <2>1, <2>2, PrefixFacts
    <2>4. Parent(e, Res) \in IF Len(t) < Res THEN Children(t, Res) ELSE {Parent(t, Res)}
        <3>1. CASE Len(t) < Res
            <4>1. \A i \in 1 .. Len(t) : i \in 1 .. Res
                BY <1>1, <2>2, <3>1
            <4>2. \A i \in 1 .. Len(t) : t[i] = Parent(e, Res)[i]
                BY <1>3, <2>3, <4>1
            <4>3. IsPrefix(t, Parent(e, Res))
                BY <1>1, <1>3, <2>2, <3>1, <4>2, PrefixFacts
            <4> QED
                BY <1>3, <3>1, <4>3 DEF Children
        <3>2. CASE ~(Len(t) < Res)
            <4>1. Res \in 0 .. Len(t)
                BY <1>1, <2>2, <3>2
            <4>2. Parent(t, Res) \in CellsAt(Res) /\ \A i \in 1 .. Res : Parent(t, Res)[i] = t[i]
                BY <2>2, <4>1, ParentFacts
            <4>3. \A i \in 1 .. Res : i \in 1 .. Len(t)
                BY <1>1, <2>2, <3>2
            <4>4. \A i \in 1 .. Res : Parent(t, Res)[i] = Parent(e, Res)[i]
                BY <1>3, <2>3, <4>2, <4>3
            <4>5. Parent(t, Res) = Parent(e, Res)
                BY <1>1, <1>3, <4>2, <4>4, SameCell
            <4> QED
                BY <3>2, <4>5
        <3> QED
            BY <3>1, <3>2
    <2> QED
        BY <1>5, <2>4 DEF Tiles
<1> QED
    BY <1>4, <1>5

\* Of the tiles an event is written to at most one is of the channel, and that one
\* is among them unless the channel is finer than H3_RES_INGEST.
LEMMA WrittenFacts ==
    ASSUME setting \in Settings, body \in Bodies, NEW e \in CellsAt(MaxRes)
    PROVE  /\ Written(e) \cap Tiles \subseteq {Parent(e, Res)}
           /\ Res <= setting.ingest => Parent(e, Res) \in Written(e)
<1> DEFINE low == Between(StreamMin, 0, setting.ingest)
<1> DEFINE high == Between(StreamMax, 0, setting.ingest)
<1>1. /\ StreamMin \in 0 .. MaxRes /\ StreamMax \in 0 .. MaxRes /\ Res \in 0 .. MaxRes
      /\ StreamMin <= Res /\ Res <= StreamMax /\ setting.ingest \in 0 .. MaxRes /\ MaxRes \in Nat
    BY ResFacts, RequestAssumption
<1>2. low \in 0 .. MaxRes /\ high \in 0 .. MaxRes /\ (Res <= setting.ingest => Res \in low .. high)
    BY <1>1 DEF Between
<1>3. Written(e) = {Parent(e, r) : r \in low .. high}
    BY DEF Written
<1> HIDE DEF low, high
<1>4. ASSUME NEW r \in low .. high, Parent(e, r) \in Tiles PROVE r = Res
    <2>1. r \in 0 .. MaxRes /\ e \in Cell /\ Len(e) = MaxRes
        BY <1>1, <1>2, CellFacts
    <2>2. Len(Parent(e, r)) = r
        BY <2>1, ParentFacts
    <2>3. Len(Parent(e, r)) = Res
        BY <1>4, TilesFacts, CellFacts
    <2> QED
        BY <2>2, <2>3
<1> QED
    BY <1>2, <1>3, <1>4

-----------------------------------------------------------------------------
\* The estimate: a sum that bounds the number of cells.

\* There are finitely many cells.
LEMMA CellsFinite ==
    /\ \A r \in Nat : IsFiniteSet([1 .. r -> Digit])
    /\ IsFiniteSet(Cell)
<1>1. MaxRes \in Nat /\ IsFiniteSet(Digit)
    BY RequestAssumption
<1> DEFINE S == {r \in Nat : IsFiniteSet([1 .. r -> Digit])}
<1>2. 0 \in S
    <2> DEFINE none == [i \in {} |-> 0]
    <2>1. [1 .. 0 -> Digit] = {none}
        <3>1. 1 .. 0 = {}
            OBVIOUS
        <3>2. [{} -> Digit] = {none}
            OBVIOUS
        <3> QED
            BY <3>1, <3>2
    <2>2. IsFiniteSet({none})
        BY FS_Singleton
    <2> QED
        BY <2>1, <2>2
<1>3. ASSUME NEW r \in Nat, r \in S PROVE r + 1 \in S
    <2> DEFINE A == [1 .. r -> Digit]
    <2> DEFINE B == [1 .. r + 1 -> Digit]
    <2> DEFINE longer == [p \in A \X Digit |-> [i \in 1 .. r + 1 |-> IF i = r + 1 THEN p[2] ELSE p[1][i]]]
    <2>1. IsFiniteSet(A \X Digit)
        BY <1>1, <1>3, FS_Product
    <2>2. ASSUME NEW p \in A \X Digit PROVE longer[p] \in B
        <3>1. p[1] \in A /\ p[2] \in Digit
            OBVIOUS
        <3>2. \A i \in 1 .. r + 1 : i # r + 1 => i \in 1 .. r
            OBVIOUS
        <3> QED
            BY <3>1, <3>2
    <2>3. ASSUME NEW c \in B PROVE \E p \in A \X Digit : longer[p] = c
        <3> DEFINE a == [i \in 1 .. r |-> c[i]]
        <3>1. \A i \in 1 .. r : i \in 1 .. r + 1
            OBVIOUS
        <3>2. a \in A /\ c[r + 1] \in Digit
            BY <3>1
        <3>3. \A i \in 1 .. r + 1 : i = r + 1 \/ a[i] = c[i]
            OBVIOUS
        <3> DEFINE p == <<a, c[r + 1]>>
        <3>4. p \in A \X Digit /\ p[1] = a /\ p[2] = c[r + 1]
            BY <3>2
        <3> HIDE DEF a, p
        <3>5. longer[p] = [i \in 1 .. r + 1 |-> IF i = r + 1 THEN c[r + 1] ELSE a[i]]
            BY <3>4
        <3>6. longer[p] = c
            BY <3>3, <3>5
        <3> QED
            BY <3>4, <3>6
    <2>4. longer \in Surjection(A \X Digit, B)
        <3>1. longer \in [A \X Digit -> B]
            BY <2>2
        <3> HIDE DEF longer, A, B
        <3> QED
            BY <2>3, <3>1 DEF Surjection
    <2>5. IsFiniteSet(B)
        <3> HIDE DEF longer, A, B
        <3> QED
            BY <2>1, <2>4, FS_Surjection
    <2> QED
        BY <2>5
<1>4. \A r \in Nat : r \in S
    <2>1. \A r \in Nat : r \in S => r + 1 \in S
        BY <1>3
    <2> HIDE DEF S
    <2> QED
        BY <1>2, <2>1, NatInduct
<1>5. IsFiniteSet({[1 .. r -> Digit] : r \in 0 .. MaxRes})
    <2> DEFINE all == {[1 .. r -> Digit] : r \in 0 .. MaxRes}
    <2> DEFINE f == [r \in 0 .. MaxRes |-> [1 .. r -> Digit]]
    <2>1. f \in [0 .. MaxRes -> all] /\ \A s \in all : \E r \in 0 .. MaxRes : f[r] = s
        OBVIOUS
    <2>2. IsFiniteSet(0 .. MaxRes)
        BY <1>1, FS_Interval
    <2> HIDE DEF f, all
    <2>3. f \in Surjection(0 .. MaxRes, all)
        BY <2>1 DEF Surjection
    <2>4. IsFiniteSet(all)
        BY <2>2, <2>3, FS_Surjection
    <2> QED
        BY <2>4 DEF all
<1>6. \A s \in {[1 .. r -> Digit] : r \in 0 .. MaxRes} : IsFiniteSet(s)
    BY <1>1, <1>4
<1>7. IsFiniteSet(Cell)
    <2> HIDE DEF S
    <2> QED
        BY <1>5, <1>6, FS_UNION DEF Cell
<1> QED
    BY <1>4, <1>7

\* SumFunction by its recursion over the subsets of the function's domain.
Some(s) == CHOOSE x \in s : TRUE

LEMMA SumUnrolls ==
    ASSUME NEW f, IsFiniteSet(DOMAIN f)
    PROVE  \E g : /\ g[{}] = 0 /\ g[DOMAIN f] = SumFunction(f)
                  /\ \A s \in SUBSET DOMAIN f : s # {} => g[s] = f[Some(s)] + g[s \ {Some(s)}]
<1> DEFINE D == DOMAIN f
<1> DEFINE Step(g, s) == IF s = {} THEN 0 ELSE f[Some(s)] + g[s \ {Some(s)}]
<1> DEFINE Def(g) == g = [s \in SUBSET D |-> Step(g, s)]
<1> DEFINE h == CHOOSE g : Def(g)
<1>1. SumFunction(f) = h[D]
    BY DEF SumFunction, SumFunctionOnSet, FoldFunctionOnSet, MapThenFoldSet, Some
<1>2. ASSUME NEW s \in SUBSET D, s # {}
      PROVE  /\ Some(s) \in s /\ s \ {Some(s)} \in SUBSET D
             /\ Cardinality(s) \in Nat /\ Cardinality(s \ {Some(s)}) = Cardinality(s) - 1
    <2>1. Some(s) \in s
        BY <1>2 DEF Some
    <2>2. IsFiniteSet(s)
        BY FS_Subset
    <2> QED
        BY <2>1, <2>2, FS_RemoveElement, FS_CardinalityType
<1> DEFINE Small(k) == {s \in SUBSET D : Cardinality(s) <= k}
<1> DEFINE S == {k \in Nat : \E g : g = [s \in Small(k) |-> Step(g, s)]}
<1>3. 0 \in S
    <2>1. Small(0) = {{}}
        <3>1. Cardinality({}) = 0
            BY FS_EmptySet
        <3>2. ASSUME NEW s \in Small(0), s # {} PROVE FALSE
            <4>1. Cardinality(s) \in Nat /\ Cardinality(s \ {Some(s)}) = Cardinality(s) - 1
                BY <1>2, <3>2
            <4>2. Cardinality(s \ {Some(s)}) \in Nat
                <5>1. s \ {Some(s)} \in SUBSET D
                    OBVIOUS
                <5> QED
                    BY <5>1, FS_Subset, FS_CardinalityType
            <4> QED
                BY <4>1, <4>2
        <3> QED
            BY <3>1, <3>2
    <2> DEFINE g == [s \in {{}} |-> 0]
    <2>2. g = [s \in {{}} |-> Step(g, s)]
        OBVIOUS
    <2> HIDE DEF Small
    <2> QED
        BY <2>1, <2>2
<1>4. ASSUME NEW k \in Nat, k \in S PROVE k + 1 \in S
    <2>1. PICK g : g = [s \in Small(k) |-> Step(g, s)]
        BY <1>4
    <2> DEFINE w == [s \in Small(k + 1) |-> Step(g, s)]
    <2>2. \A s \in Small(k) : s \in Small(k + 1) /\ w[s] = g[s]
        <3>1. \A s \in SUBSET D : Cardinality(s) \in Nat
            BY FS_Subset, FS_CardinalityType
        <3>2. \A s \in Small(k) : s \in Small(k + 1)
            BY <3>1
        <3>3. \A s \in Small(k) : g[s] = Step(g, s)
            BY <2>1
        <3> HIDE DEF Small
        <3> QED
            BY <3>2, <3>3
    <2>3. ASSUME NEW s \in Small(k + 1), s # {} PROVE s \ {Some(s)} \in Small(k)
        BY <1>2, <2>3
    <2>4. ASSUME NEW s \in Small(k + 1) PROVE w[s] = Step(w, s)
        <3>1. w[s] = Step(g, s)
            OBVIOUS
        <3> HIDE DEF w, Small
        <3> QED
            BY <2>2, <2>3, <3>1
    <2>5. w = [s \in Small(k + 1) |-> Step(w, s)]
        BY <2>4
    <2>6. k + 1 \in Nat
        OBVIOUS
    <2> HIDE DEF w, Small
    <2> QED
        BY <2>5, <2>6
<1>5. Cardinality(D) \in S
    <2>1. \A k \in Nat : k \in S => k + 1 \in S
        BY <1>4
    <2>2. Cardinality(D) \in Nat
        BY FS_CardinalityType
    <2> HIDE DEF S
    <2> QED
        BY <1>3, <2>1, <2>2, NatInduct
<1>6. Small(Cardinality(D)) = SUBSET D
    BY FS_Subset
<1>7. Def(h)
    <2>1. \E g : Def(g)
        <3> HIDE DEF Small
        <3> QED
            BY <1>5, <1>6
    <2> QED
        BY <2>1
<1> HIDE DEF h
<1>8. h[{}] = 0
    BY <1>7
<1>9. ASSUME NEW s \in SUBSET D, s # {} PROVE h[s] = f[Some(s)] + h[s \ {Some(s)}]
    BY <1>7, <1>9
<1> QED
    BY <1>1, <1>8, <1>9

\* A union has no more members than its parts together.
LEMMA SumBounds ==
    ASSUME NEW f, IsFiniteSet(DOMAIN f), NEW Part, DOMAIN Part = DOMAIN f,
           \A t \in DOMAIN f : f[t] \in Nat /\ IsFiniteSet(Part[t]) /\ Cardinality(Part[t]) <= f[t]
    PROVE  /\ SumFunction(f) \in Nat
           /\ Cardinality(UNION {Part[t] : t \in DOMAIN f}) <= SumFunction(f)
<1> DEFINE D == DOMAIN f
<1> DEFINE Whole(s) == UNION {Part[t] : t \in s}
<1>1. PICK g : /\ g[{}] = 0 /\ g[D] = SumFunction(f)
               /\ \A s \in SUBSET D : s # {} => g[s] = f[Some(s)] + g[s \ {Some(s)}]
    BY SumUnrolls
<1> DEFINE Bounded(s) == g[s] \in Nat /\ IsFiniteSet(Whole(s)) /\ Cardinality(Whole(s)) <= g[s]
<1> DEFINE S == {k \in Nat : \A s \in SUBSET D : Cardinality(s) = k => Bounded(s)}
<1>2. \A s \in SUBSET D : IsFiniteSet(s) /\ Cardinality(s) \in Nat
    BY FS_Subset, FS_CardinalityType
<1>3. 0 \in S
    <2>1. \A s \in SUBSET D : Cardinality(s) = 0 => s = {}
        BY <1>2, FS_EmptySet
    <2>2. Whole({}) = {}
        OBVIOUS
    <2>3. Bounded({})
        BY <1>1, <2>2, FS_EmptySet
    <2> HIDE DEF Bounded
    <2> QED
        BY <2>1, <2>3
<1>4. ASSUME NEW k \in Nat, k \in S PROVE k + 1 \in S
    <2> SUFFICES ASSUME NEW s \in SUBSET D, Cardinality(s) = k + 1 PROVE Bounded(s)
        OBVIOUS
    <2>1. s # {}
        BY FS_EmptySet
    <2> DEFINE t == Some(s)
    <2> DEFINE rest == s \ {t}
    <2>2. t \in s /\ t \in D
        BY <2>1 DEF Some
    <2>3. rest \in SUBSET D /\ Cardinality(rest) = k
        <3>1. IsFiniteSet(s)
            BY <1>2
        <3>2. Cardinality(rest) = Cardinality(s) - 1
            BY <2>2, <3>1, FS_RemoveElement
        <3> QED
            BY <3>2
    <2>4. Bounded(rest)
        BY <1>4, <2>3
    <2>5. Whole(s) = Part[t] \union Whole(rest)
        BY <2>2
    <2>6. g[s] = f[t] + g[rest]
        BY <1>1, <2>1
    <2> HIDE DEF t, rest, Whole
    <2>7. f[t] \in Nat /\ IsFiniteSet(Part[t]) /\ Cardinality(Part[t]) <= f[t]
        BY <2>2
    <2>8. /\ IsFiniteSet(Whole(s))
          /\ Cardinality(Whole(s)) = Cardinality(Part[t]) + Cardinality(Whole(rest))
                                         - Cardinality(Part[t] \intersect Whole(rest))
        BY <2>4, <2>5, <2>7, FS_Union
    <2>9. /\ Cardinality(Part[t]) \in Nat /\ Cardinality(Whole(rest)) \in Nat
          /\ Cardinality(Part[t] \intersect Whole(rest)) \in Nat
        BY <2>4, <2>7, FS_Intersection, FS_CardinalityType
    <2>10. g[rest] \in Nat /\ Cardinality(Whole(rest)) <= g[rest]
        BY <2>4
    <2>11. g[s] \in Nat /\ Cardinality(Whole(s)) <= g[s]
        BY <2>6, <2>7, <2>8, <2>9, <2>10
    <2> QED
        BY <2>8, <2>11
<1>5. Cardinality(D) \in S
    <2>1. \A k \in Nat : k \in S => k + 1 \in S
        BY <1>4
    <2> HIDE DEF S
    <2> QED
        BY <1>2, <1>3, <2>1, NatInduct
<1>6. Bounded(D)
    BY <1>5
<1> QED
    BY <1>1, <1>6

LEMMA EstimateBounds ==
    ASSUME setting \in Settings, body \in Bodies, body.kind = "tiles"
    PROVE  Cardinality(Tiles) \in Nat /\ Estimate \in Nat /\ Cardinality(Tiles) <= Estimate
<1>1. IsFiniteSet(Tiles) /\ Cardinality(Tiles) \in Nat
    <2>1. Tiles \subseteq Cell
        BY TilesFacts, CellFacts
    <2> QED
        BY <2>1, CellsFinite, FS_Subset, FS_CardinalityType
<1>3. body.kind # "polygon"
    OBVIOUS
<1>4. QED
    <2> DEFINE size == [t \in body.area |-> IF Len(t) < Res THEN Cardinality(Children(t, Res)) ELSE 1]
    <2> DEFINE Part == [t \in body.area |-> IF Len(t) < Res THEN Children(t, Res) ELSE {Parent(t, Res)}]
    <2>1. IsFiniteSet(body.area)
        <3>1. body.area \subseteq Cell
            BY <1>3, RequestAssumption
        <3> QED
            BY <3>1, CellsFinite, FS_Subset
    <2>2. ASSUME NEW t \in body.area
          PROVE  size[t] \in Nat /\ IsFiniteSet(Part[t]) /\ Cardinality(Part[t]) <= size[t]
        <3>1. CASE Len(t) < Res
            <4>1. Children(t, Res) \subseteq Cell
                BY CellFacts DEF Children
            <4>2. IsFiniteSet(Children(t, Res)) /\ Cardinality(Children(t, Res)) \in Nat
                BY <4>1, CellsFinite, FS_Subset, FS_CardinalityType
            <4>3. size[t] = Cardinality(Children(t, Res)) /\ Part[t] = Children(t, Res)
                BY <3>1
            <4> HIDE DEF size, Part
            <4> QED
                BY <4>2, <4>3
        <3>2. CASE ~(Len(t) < Res)
            <4>1. size[t] = 1 /\ Part[t] = {Parent(t, Res)}
                BY <3>2
            <4> HIDE DEF size, Part
            <4>2. IsFiniteSet(Part[t]) /\ Cardinality(Part[t]) = 1
                BY <4>1, FS_Singleton
            <4> QED
                BY <4>1, <4>2
        <3> QED
            BY <3>1, <3>2
    <2>3. DOMAIN size = body.area /\ DOMAIN Part = body.area
        OBVIOUS
    <2>4. Tiles = UNION {Part[t] : t \in body.area}
        BY <1>3 DEF Tiles
    <2>5. Estimate = SumFunction(size)
        BY <1>3 DEF Estimate
    <2> HIDE DEF size, Part
    <2>6. SumFunction(size) \in Nat /\ Cardinality(UNION {Part[t] : t \in DOMAIN size}) <= SumFunction(size)
        BY <2>1, <2>2, <2>3, SumBounds
    <2> QED
        BY <1>1, <2>3, <2>4, <2>5, <2>6

-----------------------------------------------------------------------------
\* The steps of a request.

LEMMA SameRequest ==
    ASSUME UNCHANGED <<setting, body>>
    PROVE  /\ Tiles' = Tiles /\ (TooMuchToBuild <=> TooMuchToBuild')
           /\ MaterializationLimit' = MaterializationLimit
<1>1. Res' = Res
    BY DEF Res, StreamMin, StreamMax
<1>2. Tiles' = Tiles
    BY <1>1 DEF Tiles
<1>3. MaterializationLimit' = MaterializationLimit
    BY DEF MaterializationLimit
<1>4. Estimate' = Estimate
    BY <1>1, <1>2 DEF Estimate
<1> QED
    BY <1>2, <1>3, <1>4 DEF TooMuchToBuild

LEMMA RequestStep == ReplyTrue /\ [RequestNext]_requestVars => ReplyTrue'
<1> SUFFICES ASSUME ReplyTrue, [RequestNext]_requestVars PROVE ReplyTrue'
    OBVIOUS
<1>1. ASSUME NEW code, NEW built, NEW tiles, Answered(code, built, tiles), code = "200" => tiles = Tiles,
             built = {} \/ (built = Tiles /\ ~TooMuchToBuild)
      PROVE  ReplyTrue'
    <2>1. UNCHANGED <<setting, body>> /\ reply' = [code |-> code, built |-> built, tiles |-> tiles]
        BY <1>1 DEF Answered
    <2>2. reply'.code = code /\ reply'.built = built /\ reply'.tiles = tiles
        BY <2>1
    <2>3. Tiles' = Tiles /\ (TooMuchToBuild <=> TooMuchToBuild')
        BY <2>1, SameRequest
    <2>4. setting' \in Settings /\ body' \in Bodies
        BY <2>1 DEF ReplyTrue
    <2>5. reply'.code = "200" => reply'.tiles = Tiles'
        BY <1>1, <2>2, <2>3
    <2>6. reply'.built = {} \/ (reply'.built = Tiles' /\ ~TooMuchToBuild')
        BY <1>1, <2>2, <2>3
    <2> QED
        BY <2>4, <2>5, <2>6 DEF ReplyTrue
<1>2. CASE RefuseInvalid
    BY <1>1, <1>2 DEF RefuseInvalid
<1>3. CASE RefuseUnbuilt
    BY <1>1, <1>3 DEF RefuseUnbuilt
<1>4. CASE RefuseBuilt
    BY <1>1, <1>4 DEF RefuseBuilt
<1>5. CASE \E now \in Skew : Reserve(now)
    BY <1>1, <1>5 DEF Reserve
<1>6. CASE TimePasses
    <2>1. Answered("none", {}, {})
        BY <1>6 DEF TimePasses, NoReply, Answered
    <2> QED
        BY <1>1, <2>1
<1>7. CASE UNCHANGED requestVars
    <2>1. UNCHANGED <<setting, body, reply>>
        BY <1>7 DEF requestVars
    <2>2. Tiles' = Tiles /\ (TooMuchToBuild <=> TooMuchToBuild')
        BY <2>1, SameRequest
    <2> QED
        BY <2>1, <2>2 DEF ReplyTrue
<1> QED
    BY <1>2, <1>3, <1>4, <1>5, <1>6, <1>7 DEF RequestNext

\* What a reply reports, the tiles of the stored record among it, is what the
\* resolution, the area and the limits make of the request.
THEOREM ReplyTheorem == RequestSpec => []ReplyTrue
<1>1. RequestInit => ReplyTrue
    BY DEF RequestInit, NoReply, ReplyTrue
<1> QED
    BY <1>1, RequestStep, PTL DEF RequestSpec

\* An event inside the area of a channel is in exactly one of its streams, for
\* any depth of the tree of cells, any ranges of resolutions and any area.
THEOREM DeliveredTheorem == RequestSpec => []DeliveredOnce
<1>1. ReplyTrue => DeliveredOnce
    <2> SUFFICES ASSUME ReplyTrue, reply.code = "200", Res <= setting.ingest, NEW e \in CellsAt(MaxRes)
                 PROVE  LET streams == Written(e) \cap reply.tiles
                        IN  Cardinality(streams) <= 1 /\ (Inside(e) => streams # {})
        BY DEF DeliveredOnce
    <2> DEFINE streams == Written(e) \cap reply.tiles
    <2>1. setting \in Settings /\ body \in Bodies /\ reply.tiles = Tiles
        BY DEF ReplyTrue
    <2>2. streams \subseteq {Parent(e, Res)} /\ Parent(e, Res) \in Written(e)
        BY <2>1, WrittenFacts
    <2>3. Inside(e) => Parent(e, Res) \in streams
        BY <2>1, <2>2, InsideFacts
    <2> HIDE DEF streams
    <2>4. Cardinality(streams) <= 1
        <3>1. IsFiniteSet({Parent(e, Res)}) /\ Cardinality({Parent(e, Res)}) = 1
            BY FS_Singleton
        <3> QED
            BY <2>2, <3>1, FS_Subset
    <2>5. Cardinality(streams) <= 1 /\ (Inside(e) => streams # {})
        BY <2>3, <2>4
    <2> QED
        BY <2>5 DEF streams
<1> QED
    BY <1>1, ReplyTheorem, PTL

\* No request for tiles makes the backend build more cells than the limit: the sum
\* it compares with the limit is never below what it builds then.
THEOREM MaterializationTheorem == RequestSpec => []MaterializationBounded
<1>1. ReplyTrue => MaterializationBounded
    <2> SUFFICES ASSUME ReplyTrue, MaterializationLimit > 0, body.kind = "tiles"
                 PROVE  Cardinality(reply.built) <= MaterializationLimit
        BY DEF MaterializationBounded
    <2>1. setting \in Settings /\ body \in Bodies
        BY DEF ReplyTrue
    <2>2. MaterializationLimit \in Int
        BY <2>1, RequestAssumption DEF MaterializationLimit
    <2>3. CASE reply.built = {}
        BY <2>2, <2>3, FS_EmptySet
    <2>4. CASE reply.built = Tiles /\ ~TooMuchToBuild
        <3>1. Cardinality(Tiles) \in Nat /\ Estimate \in Nat /\ Cardinality(Tiles) <= Estimate
            BY <2>1, EstimateBounds
        <3>2. ~(Estimate > MaterializationLimit)
            BY <2>4 DEF TooMuchToBuild
        <3> QED
            BY <2>2, <2>4, <3>1, <3>2
    <2> QED
        BY <2>3, <2>4 DEF ReplyTrue
<1> QED
    BY <1>1, ReplyTheorem, PTL

\* The whole handler implements the reservation: a request that is refused before
\* the script changes nothing of the quota's state, and no other part of the handler
\* does.
THEOREM QuotaRefined == RequestSpec => Spec
<1>1. RequestInit => Init
    BY DEF RequestInit
<1>2. ASSUME [RequestNext]_requestVars PROVE [Next]_vars
    <2>1. CASE RefuseInvalid \/ RefuseUnbuilt \/ RefuseBuilt
        BY <2>1 DEF RefuseInvalid, RefuseUnbuilt, RefuseBuilt
    <2>2. CASE \E now \in Skew : Reserve(now)
        BY <2>2 DEF Reserve, Next
    <2>3. CASE TimePasses
        BY <2>3 DEF TimePasses, Next
    <2>4. CASE UNCHANGED requestVars
        BY <2>4 DEF requestVars
    <2> QED
        BY <1>2, <2>1, <2>2, <2>3, <2>4 DEF RequestNext
<1> QED
    BY <1>1, <1>2, PTL DEF RequestSpec, Spec

\* So both limits hold, and refusals are justified, of the handler as a whole.
THEOREM RequestLimits == RequestSpec => [](WithinActiveLimit /\ WithinHourlyLimit /\ RefusalsJustified)
    BY QuotaRefined, ActiveLimitTheorem, HourlyLimitTheorem, RefusalsTheorem, PTL
=============================================================================

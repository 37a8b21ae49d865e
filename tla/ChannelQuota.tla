----------------------------- MODULE ChannelQuota -----------------------------
(***************************************************************************)
(* Channel creation (backend/src/lib/channelQuota.ts, POST /channels): one    *)
(* script of Redis prunes the tenant's sorted sets of active and of recently  *)
(* created channels, checks both limits, stores the channel with its time to  *)
(* live and adds it to the sets.  The channels expire by Redis's clock, the   *)
(* sets by the scores a backend's clock gave.                                *)
(*                                                                           *)
(* Scores are kept relative to the present, in ticks; a script runs on a      *)
(* clock that is at most skew ticks off, a delay on its way included.        *)
(***************************************************************************)
EXTENDS Integers, FiniteSets, Functions

CONSTANTS
    Channel,        \* channel ids of one tenant
    MaxActive,      \* MAX_CHANNELS_PER_TENANT_ACTIVE, 0 is no limit
    MaxHourly,      \* MAX_CHANNELS_PER_TENANT_HOUR, 0 is no limit
    MinTtl, MaxTtl, \* CHANNEL_TTL_MIN_SEC, CHANNEL_TTL_MAX_SEC
    Requested,      \* the ttlSec clients ask for
    Hour,
    MaxSkew         \* bound: how far clocks may be off

ASSUME QuotaAssumption ==
    /\ IsFiniteSet(Channel) /\ MaxActive \in Nat /\ MaxHourly \in Nat
    /\ MinTtl \in Nat \ {0} /\ MaxTtl \in Nat /\ MinTtl <= MaxTtl
    /\ Requested \subseteq Int /\ Hour \in Nat \ {0} /\ MaxSkew \in Nat

VARIABLES
    skew,           \* how far the backends' clocks are off
    live,           \* the channels' keys: ticks to live
    active,         \* the sorted sets: a score for each member
    hourly,
    activeTtl,      \* ticks to live of the sets' keys
    hourlyTtl,
    age,            \* history: ticks since a channel was stored
    answer          \* history: the last request's result

vars == <<skew, live, active, hourly, activeTtl, hourlyTtl, age, answer>>

Skew == -skew .. skew
Old == 2 * Hour
Without(set, gone) == Restrict(set, DOMAIN set \ gone)
With(set, c, score) == [d \in DOMAIN set \union {c} |-> IF d = c THEN score ELSE set[d]]
UpTo(set, score) == {c \in DOMAIN set : set[c] <= score}

Init ==
    /\ skew \in 0 .. MaxSkew
    /\ live = <<>> /\ active = <<>> /\ hourly = <<>>
    /\ activeTtl = 0 /\ hourlyTtl = 0
    /\ age = [c \in Channel |-> Old] /\ answer = "none"

-----------------------------------------------------------------------------

\* coerceTtl.
Ttl(requested) ==
    IF requested < MinTtl THEN MinTtl ELSE IF requested > MaxTtl THEN MaxTtl ELSE requested

\* What the script, on a clock that is now ticks ahead, prunes.
PrunedActive(now) == UpTo(active, now)

\* Variant with a bug: both sets are pruned up to the present.
PrunedHourlyNow(now) == UpTo(hourly, now)

\* Variant with a bug: nothing is an hour old.
PrunedHourlyNone(now) == {}

PrunedHourly(now) == UpTo(hourly, now - Hour)

ActiveCount(now) == Cardinality(DOMAIN active \ PrunedActive(now))
HourlyCount(now) == Cardinality(DOMAIN hourly \ PrunedHourly(now))

ActiveFull(now) == MaxActive > 0 /\ ActiveCount(now) >= MaxActive
HourlyFull(now) == MaxHourly > 0 /\ HourlyCount(now) >= MaxHourly

Prune(now) ==
    /\ active' = Without(active, PrunedActive(now))
    /\ hourly' = Without(hourly, PrunedHourly(now))

\* An id no set or key holds stands for the fresh one the code draws.
Fresh(c) == c \notin DOMAIN live \union DOMAIN active \union DOMAIN hourly /\ age[c] = Old

\* The script's reply was lost and ioredis, which never gives a command up, sends
\* it again: with the same arguments, the clock's reading among them.
Resent(c, now, requested) ==
    now + age[c] <= skew /\ c \in DOMAIN live /\ live[c] = Ttl(requested) - age[c]

\* Variant with a bug: the sets live as long as the channel that was added.
CreateSetsExpireEarly(c, now, requested) ==
    /\ Fresh(c) \/ Resent(c, now, requested)
    /\ ~ActiveFull(now) /\ ~HourlyFull(now)
    /\ live' = With(live, c, Ttl(requested))
    /\ active' = With(Without(active, PrunedActive(now)), c, Ttl(requested) + now)
    /\ activeTtl' = Ttl(requested)
    /\ IF MaxHourly > 0
       THEN hourly' = With(Without(hourly, PrunedHourly(now)), c, now) /\ hourlyTtl' = 2 * Hour
       ELSE hourly' = Without(hourly, PrunedHourly(now)) /\ UNCHANGED hourlyTtl
    /\ age' = [age EXCEPT ![c] = 0] /\ answer' = "ok" /\ UNCHANGED skew

\* The channel is stored and counted.
Create(c, now, requested) ==
    /\ Fresh(c) \/ Resent(c, now, requested)
    /\ ~ActiveFull(now) /\ ~HourlyFull(now)
    /\ live' = With(live, c, Ttl(requested))
    /\ active' = With(Without(active, PrunedActive(now)), c, Ttl(requested) + now)
    /\ activeTtl' = MaxTtl
    /\ IF MaxHourly > 0
       THEN hourly' = With(Without(hourly, PrunedHourly(now)), c, now) /\ hourlyTtl' = 2 * Hour
       ELSE hourly' = Without(hourly, PrunedHourly(now)) /\ UNCHANGED hourlyTtl
    /\ age' = [age EXCEPT ![c] = 0] /\ answer' = "ok" /\ UNCHANGED skew

\* Refused with 429; what was pruned stays pruned.
RefuseActive(now) ==
    /\ ActiveFull(now) /\ answer' = "active"
    /\ Prune(now) /\ UNCHANGED <<skew, live, activeTtl, hourlyTtl, age>>

RefuseHourly(now) ==
    /\ ~ActiveFull(now) /\ HourlyFull(now) /\ answer' = "hourly"
    /\ Prune(now) /\ UNCHANGED <<skew, live, activeTtl, hourlyTtl, age>>

Less1(n) == IF n > 0 THEN n - 1 ELSE 0
Later(set) == [c \in DOMAIN set |-> set[c] - 1]

\* A tick passes; keys whose time is over are gone.
Tick ==
    /\ live' = Later(Restrict(live, {c \in DOMAIN live : live[c] > 1}))
    /\ activeTtl' = Less1(activeTtl) /\ hourlyTtl' = Less1(hourlyTtl)
    /\ active' = IF activeTtl > 1 THEN Later(active) ELSE <<>>
    /\ hourly' = IF hourlyTtl > 1 THEN Later(hourly) ELSE <<>>
    /\ age' = [c \in Channel |-> IF age[c] < Old THEN age[c] + 1 ELSE Old]
    /\ answer' = "none" /\ UNCHANGED skew

Next ==
    \/ \E now \in Skew :
         \/ RefuseActive(now) \/ RefuseHourly(now)
         \/ \E c \in Channel, requested \in Requested : Create(c, now, requested)
    \/ Tick

Spec == Init /\ [][Next]_vars

-----------------------------------------------------------------------------
\* Properties.

TypeOK ==
    /\ skew \in 0 .. MaxSkew
    /\ DOMAIN live \subseteq Channel /\ \A c \in DOMAIN live : live[c] \in 1 .. MaxTtl
    /\ DOMAIN active \subseteq Channel /\ \A c \in DOMAIN active : active[c] \in Int
    /\ DOMAIN hourly \subseteq Channel /\ \A c \in DOMAIN hourly : hourly[c] \in Int
    /\ activeTtl \in 0 .. MaxTtl /\ hourlyTtl \in 0 .. 2 * Hour
    /\ age \in [Channel -> 0 .. Old] /\ answer \in {"none", "ok", "active", "hourly"}

\* A tenant never has more live channels than its limit; when clocks differ
\* only those about to expire within twice the difference may exceed it.
WithinActiveLimit ==
    MaxActive > 0 => Cardinality({c \in DOMAIN live : live[c] > 2 * skew}) <= MaxActive

\* In no window of an hour, wherever it starts, does a tenant create more
\* channels than its limit; with clocks that differ the window is shorter by
\* twice the difference.
WithinHourlyLimit ==
    MaxHourly > 0 =>
        Cardinality({c \in Channel : age[c] < Hour - 2 * skew}) <= MaxHourly

\* On equal clocks a refusal is right: there are that many live channels, or
\* that many were created in the last hour.
RefusalsJustified ==
    skew = 0 =>
        /\ answer = "active" => Cardinality(DOMAIN live) >= MaxActive
        /\ answer = "hourly" => Cardinality({c \in Channel : age[c] < Hour}) >= MaxHourly

\* What the sets know of the channels.
ActiveKnows ==
    \A c \in DOMAIN live :
        /\ live[c] <= activeTtl
        /\ live[c] > 2 * skew => c \in DOMAIN active /\ active[c] >= live[c] - skew

HourlyKnows ==
    MaxHourly > 0 => \A c \in Channel :
        /\ hourlyTtl >= Old - age[c]
        /\ age[c] < Hour - 2 * skew => c \in DOMAIN hourly /\ hourly[c] >= -age[c] - skew

SetsWithinLimits ==
    /\ MaxActive > 0 => Cardinality(DOMAIN active) <= MaxActive
    /\ MaxHourly > 0 => Cardinality(DOMAIN hourly) <= MaxHourly

\* What the sets hold is true: on equal clocks a member whose score is to come is
\* alive, and no member of the hourly set is older than its score says.
SetsTrue ==
    /\ skew = 0 => \A c \in DOMAIN active : active[c] > 0 => c \in DOMAIN live /\ live[c] >= active[c]
    /\ skew = 0 => \A c \in DOMAIN hourly : age[c] <= -hourly[c]

\* Inductive: what the proofs carry from step to step.
IInv == TypeOK /\ ActiveKnows /\ HourlyKnows /\ SetsWithinLimits /\ SetsTrue /\ RefusalsJustified
=============================================================================

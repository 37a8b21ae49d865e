-------------------------- MODULE SubscriberLease --------------------------
(***************************************************************************)
(* Stream admission (backend/src/lib/subscriberQuota.ts and its calls in     *)
(* routes/stream.ts): every connection holds a lease, a member of two sorted *)
(* sets of Redis, one of its tenant and one of its channel, scored with the  *)
(* time at which it expires.  One script prunes both sets, checks the limits *)
(* and adds the lease; a heartbeat moves its score, the end of the           *)
(* connection removes it, and the lease of a dead backend expires.           *)
(*                                                                           *)
(* Scores are kept relative to the present: the ticks until they expire.     *)
(* Backends' clocks differ: a script or heartbeat may run on a clock that is *)
(* some ticks off.                                                           *)
(***************************************************************************)
EXTENDS Integers, Sequences, FiniteSets, Functions

CONSTANTS
    Connection,     \* lease ids; all of one tenant
    Channel,
    ChannelOf,      \* [Connection -> Channel]
    MaxTenant,      \* MAX_STREAM_SUBSCRIBERS_PER_TENANT, 0 is no limit
    MaxChannel,     \* MAX_STREAM_SUBSCRIBERS_PER_CHANNEL, 0 is no limit
    Lease,          \* STREAM_SUBSCRIBER_LEASE_SEC in ticks
    Period,         \* the heartbeat's 15 seconds in ticks
    MaxSkew,        \* how far a clock may be off
    Timely,         \* heartbeats and their commands take less than a tick
    MaxLine,        \* bound: commands waiting when a heartbeat fires
    MaxFaults       \* bound: commands that fail, backends that die

ASSUME LeaseAssumption ==
    /\ ChannelOf \in [Connection -> Channel] /\ IsFiniteSet(Connection)
    /\ MaxTenant \in Nat /\ MaxChannel \in Nat /\ Lease \in Nat /\ Period \in Nat \ {0}
    /\ MaxSkew \in Nat /\ Timely \in BOOLEAN /\ MaxLine \in Nat /\ MaxFaults \in Nat

VARIABLES
    tenant,         \* the tenant's sorted set: a score for each member
    channel,        \* the channels' sorted sets, a lease being in its channel's only
    state,          \* of each connection: idle, open, ended, crashed
    beat,           \* ticks since its heartbeat timer fired
    line,           \* commands its backend sent and Redis has not executed
    lapsedTenant,   \* history: connections whose lease was pruned too early
    lapsedChannel,
    faults

vars == <<tenant, channel, state, beat, line, lapsedTenant, lapsedChannel, faults>>

Skew == -MaxSkew .. MaxSkew
Of(ch) == {c \in Connection : ChannelOf[c] = ch}
Without(set, gone) == Restrict(set, DOMAIN set \ gone)
With(set, c, score) == [d \in DOMAIN set \union {c} |-> IF d = c THEN score ELSE set[d]]
Due(set, now) == {c \in DOMAIN set : set[c] <= now}
Older(n) == IF n > -MaxSkew THEN n - 1 ELSE n   \* no clock tells the ones below apart

ZAdd(set, score) == [op |-> "zadd", set |-> set, score |-> score]
ZRem(set) == [op |-> "zrem", set |-> set, score |-> -MaxSkew]

Init ==
    /\ tenant = <<>> /\ channel = <<>>
    /\ state = [c \in Connection |-> "idle"]
    /\ beat = [c \in Connection |-> 0]
    /\ line = [c \in Connection |-> <<>>]
    /\ lapsedTenant = {} /\ lapsedChannel = {} /\ faults = 0

-----------------------------------------------------------------------------
\* The script, on a clock that is now ticks ahead of the true time.

\* Variant with a bug: expired leases of the tenant are not pruned.
PruneNothing(c, now) == [tenant |-> {}, channel |-> Due(channel, now) \intersect Of(ChannelOf[c])]

Pruned(c, now) == [tenant |-> Due(tenant, now),
                   channel |-> Due(channel, now) \intersect Of(ChannelOf[c])]

\* Variant with a bug: the limit is compared with >.
HasPlaceOffByOne(c, now) ==
    /\ MaxTenant > 0 => Cardinality(DOMAIN tenant \ Pruned(c, now).tenant) <= MaxTenant
    /\ MaxChannel > 0 =>
         Cardinality((DOMAIN channel \intersect Of(ChannelOf[c])) \ Pruned(c, now).channel)
           <= MaxChannel

HasPlace(c, now) ==
    /\ MaxTenant > 0 => Cardinality(DOMAIN tenant \ Pruned(c, now).tenant) < MaxTenant
    /\ MaxChannel > 0 =>
         Cardinality((DOMAIN channel \intersect Of(ChannelOf[c])) \ Pruned(c, now).channel)
           < MaxChannel

Open(c) == state[c] = "open"
MayRefresh(c) == Open(c) \/ line[c] # <<>>

Lapse(c, now) ==
    /\ lapsedTenant' = lapsedTenant \union {d \in Pruned(c, now).tenant : MayRefresh(d)}
    /\ lapsedChannel' = lapsedChannel \union {d \in Pruned(c, now).channel : MayRefresh(d)}

\* Admitted: the lease joins both sets and the heartbeat timer starts.
Admit(c, now) ==
    /\ state[c] = "idle" /\ HasPlace(c, now)
    /\ tenant' = With(Without(tenant, Pruned(c, now).tenant), c, Lease + now)
    /\ channel' = With(Without(channel, Pruned(c, now).channel), c, Lease + now)
    /\ Lapse(c, now)
    /\ state' = [state EXCEPT ![c] = "open"]
    /\ beat' = [beat EXCEPT ![c] = 0]
    /\ UNCHANGED <<line, faults>>

\* Refused with 429; what was pruned stays pruned.
Refuse(c, now) ==
    /\ state[c] = "idle" /\ ~HasPlace(c, now)
    /\ tenant' = Without(tenant, Pruned(c, now).tenant)
    /\ channel' = Without(channel, Pruned(c, now).channel)
    /\ Lapse(c, now)
    /\ UNCHANGED <<state, beat, line, faults>>

\* Variant with a bug: the interval timer outlives the connection.
HeartbeatForever(c, now) ==
    /\ state[c] \in {"open", "ended"} /\ beat[c] = Period /\ Len(line[c]) <= MaxLine
    /\ line' = [line EXCEPT ![c] = @ \o <<ZAdd("tenant", Lease + now),
                                          ZAdd("channel", Lease + now)>>]
    /\ beat' = [beat EXCEPT ![c] = 0]
    /\ UNCHANGED <<tenant, channel, state, lapsedTenant, lapsedChannel, faults>>

\* Variant with a bug: the tenant's set is not refreshed.
HeartbeatOnlyChannel(c, now) ==
    /\ Open(c) /\ beat[c] = Period /\ Len(line[c]) <= MaxLine
    /\ line' = [line EXCEPT ![c] = @ \o <<ZAdd("channel", Lease + now)>>]
    /\ beat' = [beat EXCEPT ![c] = 0]
    /\ UNCHANGED <<tenant, channel, state, lapsedTenant, lapsedChannel, faults>>

\* refreshSubscriberLease: two ZADDs, without an admission.
Heartbeat(c, now) ==
    /\ Open(c) /\ beat[c] = Period /\ Len(line[c]) <= MaxLine
    /\ line' = [line EXCEPT ![c] = @ \o <<ZAdd("tenant", Lease + now),
                                          ZAdd("channel", Lease + now)>>]
    /\ beat' = [beat EXCEPT ![c] = 0]
    /\ UNCHANGED <<tenant, channel, state, lapsedTenant, lapsedChannel, faults>>

\* The handler's finally block: the timer is cleared, releaseSubscriberLease
\* sends two ZREMs behind whatever the heartbeat has sent.
End(c) ==
    /\ Open(c)
    /\ state' = [state EXCEPT ![c] = "ended"]
    /\ line' = [line EXCEPT ![c] = @ \o <<ZRem("tenant"), ZRem("channel")>>]
    /\ UNCHANGED <<tenant, channel, beat, lapsedTenant, lapsedChannel, faults>>

Apply(command, set, name, c) ==
    IF command.set # name THEN set
    ELSE IF command.op = "zadd" THEN With(set, c, command.score) ELSE Without(set, {c})

\* Redis executes the commands of one connection in order.
Execute(c) ==
    /\ line[c] # <<>> /\ line' = [line EXCEPT ![c] = Tail(@)]
    /\ tenant' = Apply(Head(line[c]), tenant, "tenant", c)
    /\ channel' = Apply(Head(line[c]), channel, "channel", c)
    /\ UNCHANGED <<state, beat, lapsedTenant, lapsedChannel, faults>>

\* A command fails; the caller only logs it.
CommandFails(c) ==
    /\ line[c] # <<>> /\ line' = [line EXCEPT ![c] = Tail(@)]
    /\ faults < MaxFaults /\ faults' = faults + 1
    /\ UNCHANGED <<tenant, channel, state, beat, lapsedTenant, lapsedChannel>>

\* The backend dies: nobody will renew or release the lease.
Crash(c) ==
    /\ Open(c) /\ faults < MaxFaults /\ faults' = faults + 1
    /\ state' = [state EXCEPT ![c] = "crashed"]
    /\ line' = [line EXCEPT ![c] = <<>>]
    /\ UNCHANGED <<tenant, channel, beat, lapsedTenant, lapsedChannel>>

\* The client comes back, once nothing is left of its lease (so that the id
\* stands for the fresh one the code draws).
Return(c) ==
    /\ state[c] \in {"ended", "crashed"}
    /\ line[c] = <<>> /\ c \notin DOMAIN tenant \union DOMAIN channel
    /\ state' = [state EXCEPT ![c] = "idle"]
    /\ lapsedTenant' = lapsedTenant \ {c} /\ lapsedChannel' = lapsedChannel \ {c}
    /\ UNCHANGED <<tenant, channel, beat, line, faults>>

Aged(command) == [command EXCEPT !.score = Older(@)]

Tick ==
    /\ Timely => \A c \in Connection : line[c] = <<>> /\ (Open(c) => beat[c] < Period)
    /\ tenant' = [c \in DOMAIN tenant |-> Older(tenant[c])]
    /\ channel' = [c \in DOMAIN channel |-> Older(channel[c])]
    /\ line' = [c \in Connection |-> [i \in DOMAIN line[c] |-> Aged(line[c][i])]]
    /\ beat' = [c \in Connection |-> IF beat[c] < Period THEN beat[c] + 1 ELSE Period]
    /\ UNCHANGED <<state, lapsedTenant, lapsedChannel, faults>>

Ask(c) == \E now \in Skew : Admit(c, now) \/ Refuse(c, now)

Next ==
    \/ \E c \in Connection :
         \/ Ask(c) \/ End(c) \/ Execute(c) \/ CommandFails(c) \/ Crash(c) \/ Return(c)
         \/ \E now \in Skew : Heartbeat(c, now)
    \/ Tick

Spec == Init /\ [][Next]_vars

\* Time passes, however often connections come and go within a tick; timers
\* fire, Redis executes, and a refused client tries again.
FairSpec ==
    /\ Spec /\ SF_vars(Tick)
    /\ \A c \in Connection :
         /\ WF_vars(Execute(c)) /\ WF_vars(\E now \in Skew : Heartbeat(c, now))
         /\ WF_vars(Ask(c))

-----------------------------------------------------------------------------
\* Properties.

Scores == -MaxSkew .. Lease + MaxSkew
Commands == [op : {"zadd", "zrem"}, set : {"tenant", "channel"}, score : Scores]

TypeOK ==
    /\ DOMAIN tenant \subseteq Connection /\ \A c \in DOMAIN tenant : tenant[c] \in Scores
    /\ DOMAIN channel \subseteq Connection /\ \A c \in DOMAIN channel : channel[c] \in Scores
    /\ state \in [Connection -> {"idle", "open", "ended", "crashed"}]
    /\ beat \in [Connection -> 0 .. Period]
    /\ line \in [Connection -> Seq(Commands)]
    /\ lapsedTenant \subseteq Connection /\ lapsedChannel \subseteq Connection
    /\ faults \in 0 .. MaxFaults

\* No tenant has more leases than its limit, except for connections whose lease
\* had been pruned while they lived and came back with a late heartbeat: the
\* refresh adds without asking.
WithinTenantLimit ==
    MaxTenant > 0 => Cardinality(DOMAIN tenant \ lapsedTenant) <= MaxTenant

\* The same for every channel.
WithinChannelLimit ==
    MaxChannel > 0 => \A ch \in Channel :
        Cardinality((DOMAIN channel \intersect Of(ch)) \ lapsedChannel) <= MaxChannel

\* An open connection is counted in both sets, unless it lapsed.
OpenIsCounted ==
    \A c \in Connection : Open(c) =>
        /\ c \in DOMAIN tenant \union lapsedTenant
        /\ c \in DOMAIN channel \union lapsedChannel

\* Heartbeats are on time and nothing failed, and a lease is longer than the
\* heartbeat's period and the clocks' differences.
OnSchedule == Timely /\ faults = 0 /\ Lease > Period + 2 * MaxSkew

\* On schedule no lease lapses while its connection lives, so that the limits
\* are strict.
NeverLapses == OnSchedule => lapsedTenant = {} /\ lapsedChannel = {}

\* A connection that ended has left both sets when its commands are through,
\* whatever heartbeat was on its way; only a failed command leaves it to expire.
EndedIsReleased ==
    \A c \in Connection : state[c] = "ended" /\ line[c] = <<>> /\ faults = 0 =>
        c \notin DOMAIN tenant \union DOMAIN channel

\* The place of a dead backend's connection is not lost: while others ask, its
\* lease is pruned.
PlaceReturns ==
    \A c, d \in Connection :
        state[c] = "crashed" /\ state[d] = "idle" ~>
          \/ c \notin DOMAIN tenant \/ state[c] # "crashed" \/ state[d] # "idle"

\* What a connection's commands may be: refreshes before releases, a refresh
\* only of a lease that is counted, and nothing once it is gone.
LinesOK ==
    \A c \in Connection :
        /\ \A i, j \in DOMAIN line[c] :
             i < j /\ line[c][i].op = "zrem" => line[c][j].op = "zrem"
        /\ \A i \in DOMAIN line[c] : line[c][i].op = "zadd" =>
             /\ c \in DOMAIN tenant \union lapsedTenant
             /\ c \in DOMAIN channel \union lapsedChannel
        /\ \A i \in DOMAIN line[c] : Open(c) => line[c][i].op = "zadd"
        /\ state[c] = "idle" => line[c] = <<>> /\ c \notin DOMAIN tenant \union DOMAIN channel

\* Before EndedIsReleased: the release of an ended connection's lease from a set
\* is on its way, or done with nothing behind it that could undo it.
Releasing(commands, c, set, name) ==
    \/ \E i \in DOMAIN commands : commands[i].op = "zrem" /\ commands[i].set = name
    \/ c \notin DOMAIN set /\ \A i \in DOMAIN commands : commands[i].op = "zrem"

ReleaseComing ==
    \A c \in Connection : state[c] = "ended" /\ faults = 0 =>
        Releasing(line[c], c, tenant, "tenant") /\ Releasing(line[c], c, channel, "channel")

\* Before NeverLapses: no lease in use is older than a period, and an open
\* connection's has what is left since its timer fired, unless the refresh is on
\* its way.
Young(commands, c, set) ==
    /\ \A i \in DOMAIN commands : commands[i].op = "zadd" => commands[i].score >= Lease - MaxSkew
    /\ c \in DOMAIN set => set[c] >= Lease - MaxSkew - Period

Refreshed(commands, c, set, name, age) ==
    \/ c \in DOMAIN set /\ set[c] >= Lease - MaxSkew - age
    \/ \E i \in DOMAIN commands : commands[i].op = "zadd" /\ commands[i].set = name

RefreshesOnTime ==
    OnSchedule => \A c \in Connection :
        /\ MayRefresh(c) => Young(line[c], c, tenant) /\ Young(line[c], c, channel)
        /\ Open(c) => /\ Refreshed(line[c], c, tenant, "tenant", beat[c])
                      /\ Refreshed(line[c], c, channel, "channel", beat[c])

\* Inductive: what the proofs carry from step to step.
IInv == TypeOK /\ WithinTenantLimit /\ WithinChannelLimit /\ OpenIsCounted /\ LinesOK
=============================================================================

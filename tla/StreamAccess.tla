---------------------------- MODULE StreamAccess ----------------------------
(* Who may open a stream: tenant API keys and stream tokens on several
   backends whose clocks differ and whose configuration is replaced one
   backend at a time, as the runbook docs/KEY_ROTATION.md prescribes.

   A token is minted in three steps with a wait between each: the request is
   authorised against the channel's record, the rate limit's script runs in
   Redis under the minute the backend read before it sent the script, and the
   token is signed with the expiry of the clock at that time.

   A configuration is the current stream secret, the previous ones and the
   accepted API keys; secrets are numbered in the order of their use.  A
   backend reads it when it starts (a deployment ends its requests).  Time is
   in seconds of the slowest clock; a backend's is ahead of it by its skew.
   Channels that expire are left out: they only refuse more.                 *)
EXTENDS Integers, FiniteSets

CONSTANTS
    Backend, Request,
    Tenant, Owner,            \* the tenant of each channel: [Channel -> Tenant]
    KeyTenant,                \* the tenant of each API key: TENANT_API_KEYS
    NotSupplied,              \* no tenantId in the body
    RequestedTtl,             \* ttlSec of the requests
    TtlMin, TtlMax,           \* STREAM_TOKEN_TTL_MIN_SEC, _MAX_SEC
    Minute,                   \* length of a rate window
    MintLimit,                \* TOKEN_MINT_RATE_LIMIT_PER_MIN, 0 is off
    TokenAuth,                \* possible values of TOKEN_AUTH_REQUIRED
    MaxSkew,                  \* bound: clocks' difference
    MaxDelay,                 \* bound: how long the script is on its way
    ReconnectWindow,          \* what the operator waits beyond TtlMax
    MaxTime, MaxRollouts      \* bounds

Channel == DOMAIN Owner
Key == DOMAIN KeyTenant
Secret == 0 .. MaxRollouts
NoKey == "no key"

(* The runbook waits longer than the longest token lives and the expected
   reconnect window; that must cover the difference of the clocks.           *)
ASSUME AccessAssumption ==
    /\ {TtlMin, TtlMax, Minute, MintLimit, MaxSkew, MaxDelay, ReconnectWindow, MaxTime, MaxRollouts} \subseteq Nat
    /\ Backend # {} /\ TtlMin <= TtlMax /\ Minute > 0 /\ RequestedTtl \subseteq Nat
    /\ \A c \in Channel : Owner[c] \in Tenant
    /\ \A k \in Key : KeyTenant[k] \in Tenant
    /\ NotSupplied \notin Tenant /\ NoKey \notin Key /\ TokenAuth \subseteq BOOLEAN
    /\ MaxSkew <= ReconnectWindow

VARIABLES
    now, skew, tokenAuth,
    target,     \* the configuration being deployed
    conf,       \* the configuration of each backend
    since,      \* when all backends had the current and the previous secret, or 0
    rollouts,
    revoked,    \* secrets withdrawn at once, in an emergency
    removed,    \* [k |-> when the last backend dropped it], the API keys withdrawn
    rate,       \* the counters in Redis: <<tenant, minute>> -> [count, until]
    request,    \* the minting requests
    tokens,     \* all tokens minted, with the key they were asked with
    minted      \* history: tokens allowed for each <<tenant, minute>>

clocks == <<now, skew, tokenAuth>>
deployment == <<target, conf, since, rollouts, revoked, removed>>
vars == <<clocks, deployment, rate, request, tokens, minted>>

Clock(b) == now + skew[b]
Idle == [state |-> "idle"]
Ended == [state |-> "ended"]
Window == Tenant \X (0 .. (MaxTime + MaxSkew) \div Minute)

Init ==
    /\ now = 0 /\ skew \in [Backend -> 0 .. MaxSkew] /\ (\E b \in Backend : skew[b] = 0)
    /\ tokenAuth \in TokenAuth
    /\ target = [current |-> 0, previous |-> {}, keys |-> Key]
    /\ conf = [b \in Backend |-> target] /\ since = 0 /\ rollouts = 0
    /\ revoked = {} /\ removed = <<>>
    /\ rate = [w \in Window |-> [count |-> 0, until |-> 0]]
    /\ request = [r \in Request |-> Idle] /\ tokens = {}
    /\ minted = [w \in Window |-> 0]

-----------------------------------------------------------------------------
(* Deployment.                                                              *)

Deployed == \A b \in Backend : conf[b] = target

Rollout(config) ==
    /\ Deployed /\ rollouts < MaxRollouts /\ rollouts' = rollouts + 1
    /\ target' = config
    /\ UNCHANGED <<clocks, conf, since, rate, request, tokens, minted>>

Rotate ==
    /\ target.previous = {}
    /\ Rollout([target EXCEPT !.current = @ + 1, !.previous = {target.current}])
    /\ UNCHANGED <<revoked, removed>>

RetirePrevious ==
    /\ target.previous # {} /\ now > since + TtlMax + ReconnectWindow
    /\ Rollout([target EXCEPT !.previous = {}])
    /\ UNCHANGED <<revoked, removed>>

EmergencyRevoke ==
    /\ Rollout([target EXCEPT !.current = @ + 1, !.previous = {}])
    /\ revoked' = revoked \cup {target.current} \cup target.previous
    /\ UNCHANGED removed

RemoveKey(k) ==
    /\ k \in target.keys
    /\ Rollout([target EXCEPT !.keys = @ \ {k}])
    /\ UNCHANGED <<revoked, removed>>

(* Backend b restarts with the new configuration; its requests are lost.     *)
Deploy(b) ==
    /\ conf[b] # target
    /\ conf' = [conf EXCEPT ![b] = target]
    /\ request' = [r \in Request |->
           IF request[r] \notin {Idle, Ended} /\ request[r].backend = b
           THEN Ended ELSE request[r]]
    /\ IF \A a \in Backend : conf'[a] = target
       THEN /\ since' = IF target.previous # {} THEN now ELSE 0
            /\ removed' = [k \in Key \ target.keys |-> IF k \in DOMAIN removed THEN removed[k] ELSE now]
       ELSE UNCHANGED <<since, removed>>
    /\ UNCHANGED <<clocks, target, rollouts, revoked, rate, tokens, minted>>

Tick ==
    /\ now < MaxTime /\ now' = now + 1
    /\ \A r \in Request : request[r].state = "charging" => now < request[r].asked + MaxDelay
    /\ UNCHANGED <<skew, tokenAuth, deployment, rate, request, tokens, minted>>

-----------------------------------------------------------------------------
(* POST /token.                                                             *)

(* The tenant a request may act for: the key's, which a tenantId in the body
   must repeat; without authentication the tenantId, or the channel's.       *)
TenantsOf(b, key, supplied, default) ==
    IF tokenAuth
    THEN {t \in Tenant : key \in conf[b].keys /\ KeyTenant[key] = t /\ supplied \in {NotSupplied, t}}
    ELSE {IF supplied = NotSupplied THEN default ELSE supplied}

(* Variant with a bug: the tenant is not compared with the channel's.        *)
AskForAnyTenant(r, b, key, channel, supplied) ==
    /\ request[r] = Idle /\ (tokenAuth \/ key = NoKey)
    /\ TenantsOf(b, key, supplied, Owner[channel]) # {}
    /\ request' = [request EXCEPT ![r] =
           [state |-> IF MintLimit = 0 THEN "signing" ELSE "charging",
            backend |-> b, key |-> key, channel |-> channel, asked |-> now,
            window |-> <<Owner[channel], Clock(b) \div Minute>>]]
    /\ UNCHANGED <<clocks, deployment, rate, tokens, minted>>

(* A request that is authorised for a channel that exists reads the clock for
   its rate window.  Every other one is refused and changes nothing.         *)
Ask(r, b, key, channel, supplied) ==
    /\ request[r] = Idle /\ (tokenAuth \/ key = NoKey)
    /\ Owner[channel] \in TenantsOf(b, key, supplied, Owner[channel])
    /\ request' = [request EXCEPT ![r] =
           [state |-> IF MintLimit = 0 THEN "signing" ELSE "charging",
            backend |-> b, key |-> key, channel |-> channel, asked |-> now,
            window |-> <<Owner[channel], Clock(b) \div Minute>>]]
    /\ UNCHANGED <<clocks, deployment, rate, tokens, minted>>

Charged(w) == IF rate[w].until > now THEN rate[w].count ELSE 0

(* Variant with a bug: the counter lives one minute.                         *)
ChargeOneMinute(r) ==
    /\ request[r].state = "charging"
    /\ LET w == request[r].window
       IN  IF Charged(w) >= MintLimit
           THEN /\ request' = [request EXCEPT ![r] = Ended]
                /\ UNCHANGED <<rate, minted>>
           ELSE /\ rate' = [rate EXCEPT ![w] = [count |-> Charged(w) + 1, until |-> now + Minute]]
                /\ minted' = [minted EXCEPT ![w] = @ + 1]
                /\ request' = [request EXCEPT ![r] = [@ EXCEPT !.state = "signing", !.asked = 0]]
    /\ UNCHANGED <<clocks, deployment, tokens>>

(* The script: one of the minute's tokens is taken, unless all are; the
   counter lives two minutes from the last one taken.  A script that fails, or
   that ioredis sends again, only refuses more, and is left out.             *)
Charge(r) ==
    /\ request[r].state = "charging"
    /\ LET w == request[r].window
       IN  IF Charged(w) >= MintLimit
           THEN /\ request' = [request EXCEPT ![r] = Ended]
                /\ UNCHANGED <<rate, minted>>
           ELSE /\ rate' = [rate EXCEPT ![w] = [count |-> Charged(w) + 1, until |-> now + 2 * Minute]]
                /\ minted' = [minted EXCEPT ![w] = @ + 1]
                /\ request' = [request EXCEPT ![r] = [@ EXCEPT !.state = "signing", !.asked = 0]]
    /\ UNCHANGED <<clocks, deployment, tokens>>

(* Variant with a bug: a client chooses its token's life.                    *)
TtlUnclamped(requested) == IF requested < TtlMin THEN TtlMin ELSE requested

Ttl(requested) ==
    CASE requested < TtlMin -> TtlMin
      [] requested > TtlMax -> TtlMax
      [] OTHER -> requested

Sign(r) ==
    /\ request[r].state = "signing"
    /\ \E requested \in RequestedTtl :
          tokens' = tokens \cup
              {[secret |-> conf[request[r].backend].current,
                tenant |-> Owner[request[r].channel], channel |-> request[r].channel,
                exp |-> Clock(request[r].backend) + Ttl(requested), key |-> request[r].key]}
    /\ request' = [request EXCEPT ![r] = Ended]
    /\ UNCHANGED <<clocks, deployment, rate, minted>>

Next ==
    \/ Tick \/ Rotate \/ RetirePrevious \/ EmergencyRevoke
    \/ \E k \in Key : RemoveKey(k)
    \/ \E b \in Backend : Deploy(b)
    \/ \E r \in Request :
          \/ \E b \in Backend, k \in Key \cup {NoKey}, c \in Channel, t \in Tenant \cup {NotSupplied} : Ask(r, b, k, c, t)
          \/ Charge(r) \/ Sign(r)

Spec == Init /\ [][Next]_vars

-----------------------------------------------------------------------------
(* GET /stream up to the lease.                                             *)

(* Variant with a bug: only the current secret verifies.                     *)
SecretsCurrentOnly(b) == {conf[b].current}

Secrets(b) == {conf[b].current} \cup conf[b].previous

(* verifyStreamToken on backend b. *)
Verified(b, token) == token.secret \in Secrets(b) /\ token.exp > Clock(b)

(* A stream of channel c is opened on b with the token.                      *)
Admits(b, token, c) ==
    Verified(b, token) /\ token.channel = c /\ token.tenant = Owner[c]

-----------------------------------------------------------------------------
(* Type invariant. *)
TypeOK ==
    /\ now \in 0 .. MaxTime /\ skew \in [Backend -> 0 .. MaxSkew]
    /\ tokenAuth \in BOOLEAN
    /\ target \in [current : Secret, previous : SUBSET Secret, keys : SUBSET Key]
    /\ conf \in [Backend -> [current : Secret, previous : SUBSET Secret, keys : SUBSET Key]]
    /\ since \in 0 .. now /\ rollouts \in 0 .. MaxRollouts /\ revoked \subseteq Secret
    /\ DOMAIN removed \subseteq Key /\ \A k \in DOMAIN removed : removed[k] \in 0 .. now
    /\ rate \in [Window -> [count : Nat, until : Nat]]
    /\ minted \in [Window -> Nat] /\ request = [r \in Request |-> request[r]]
    /\ \A t \in tokens :
          t \in [secret : Secret, tenant : Tenant, channel : Channel,
                 exp : Nat, key : Key \cup {NoKey}]

(* A request on its way was authorised with a key its backend accepts.       *)
RequestsAuthorised ==
    \A r \in Request : request[r] \notin {Idle, Ended} =>
        /\ request[r].backend \in Backend /\ request[r].channel \in Channel
        /\ IF tokenAuth THEN /\ request[r].key \in conf[request[r].backend].keys
                             /\ KeyTenant[request[r].key] = Owner[request[r].channel]
                        ELSE request[r].key = NoKey

(* What a backend runs that has not been deployed yet, one line for each kind
   of rollout.                                                               *)
OneStepBehind ==
    \A b \in Backend : LET c == conf[b] IN
        \/ c = target
        \/ target.current = c.current + 1 /\ target.previous = {c.current} /\ target.keys = c.keys
        \/ target.current = c.current /\ target.previous = {} /\ target.keys = c.keys
        \/ target.current = c.current + 1 /\ target.previous = {} /\ target.keys = c.keys
           /\ c.current \in revoked
        \/ target.current = c.current /\ target.previous = c.previous

OneRolloutAtATime ==
    \A a, b \in Backend : conf[a] # target /\ conf[b] # target => conf[a].current = conf[b].current

SecretsOrdered ==
    /\ target.current <= rollouts
    /\ \A s \in target.previous \cup revoked : s < target.current
    /\ target.previous \cap revoked = {}

KeysGone ==
    /\ DOMAIN removed \cap target.keys = {}
    /\ \A b \in Backend : DOMAIN removed \cap conf[b].keys = {}

Life == TtlMax + MaxSkew

(* How long a token may live, by what may still verify it.                   *)
TokensBounded ==
    \A t \in tokens :
        /\ t.tenant = Owner[t.channel] /\ t.exp <= now + Life
        /\ tokenAuth => t.key \in Key /\ KeyTenant[t.key] = Owner[t.channel]
        /\ t.secret \in {target.current} \cup target.previous \cup revoked \/ t.exp <= now
        /\ t.secret \in target.previous /\ (\A b \in Backend : conf[b].current = target.current)
           => t.exp <= since + Life
        /\ t.key \in DOMAIN removed => t.exp <= removed[t.key] + Life

(* A script runs near the minute it charges, and the counter of that minute,
   once used, outlives every script that may still come for it.              *)
ChargesInTime ==
    \A r \in Request : request[r].state = "charging" =>
        LET minute == request[r].window[2]  asked == request[r].asked IN
        /\ minute \in Nat /\ asked \in 0 .. now /\ now <= asked + MaxDelay
        /\ minute * Minute <= asked + MaxSkew /\ asked < minute * Minute + Minute

CountersKept ==
    \A w \in Window :
        /\ rate[w].count = minted[w]
        /\ minted[w] # 0 => w[2] * Minute + 2 * Minute <= rate[w].until + MaxSkew

IInv == /\ TypeOK /\ RequestsAuthorised /\ OneStepBehind /\ OneRolloutAtATime
        /\ SecretsOrdered /\ KeysGone /\ TokensBounded

(* With keys required, a token opens streams of no tenant but that of the API
   key it was asked with, whatever tenantId the request named.               *)
TenantIsolation ==
    tokenAuth => \A b \in Backend, t \in tokens, c \in Channel :
                     Admits(b, t, c) => KeyTenant[t.key] = Owner[c]

(* "Old unexpired tokens still connect" (docs/KEY_ROTATION.md:39): no backend
   refuses a token that has not expired by that backend's clock, whichever
   backend signed it, unless its secret was revoked in an emergency, or the
   backend itself does not run the new configuration yet.                    *)
ValidTokenKnown ==
    \A b \in Backend, t \in tokens :
        t.exp > Clock(b) => \/ t.secret \in Secrets(b)
                            \/ t.secret \in revoked
                            \/ conf[b] # target /\ t.secret = target.current

(* "Verify the old key now fails" (docs/KEY_ROTATION.md:26): a withdrawn key
   opens no stream later than the longest life of a token, and the difference
   of the clocks, after the last backend dropped it; a revoked secret none once
   every backend runs the configuration without it.                          *)
AccessEnds ==
    \A b \in Backend, t \in tokens : Verified(b, t) =>
        /\ t.key \in DOMAIN removed => now < removed[t.key] + TtlMax + MaxSkew
        /\ Deployed => t.secret \notin revoked

(* No more tokens are allowed for a tenant and minute than the limit, though
   scripts arrive late, but within a minute, clocks differ and counters expire. *)
WithinMintLimit == MintLimit > 0 => \A w \in Window : minted[w] <= MintLimit
=============================================================================

------------------------- MODULE StreamAccessProofs -------------------------
(* Proofs about StreamAccess: for any number of backends, tenants, keys and
   requests, any clocks within the bound and any lives of tokens; the minute's
   limit on tokens for any counters, if scripts arrive within a minute.      *)
EXTENDS StreamAccess, TLAPS

Config == [current : Secret, previous : SUBSET Secret, keys : SUBSET Key]
Token == [secret : Secret, tenant : Tenant, channel : Channel, exp : Nat, key : Key \cup {NoKey}]

(* The initial states satisfy the invariant. *)
LEMMA InitInv == Init => IInv
<1> SUFFICES ASSUME Init PROVE IInv
  OBVIOUS
<1> USE AccessAssumption DEF Init
<1>1. /\ 0 \in Secret /\ target \in Config /\ conf \in [Backend -> Config]
      /\ 0 \in 0 .. MaxTime /\ 0 \in 0 .. MaxRollouts /\ 0 \in 0 .. now
  BY DEF Secret, Config
<1>2. tokenAuth \in BOOLEAN /\ removed = <<>> /\ DOMAIN removed = {}
  OBVIOUS
<1>3. rate \in [Window -> [count : Nat, until : Nat]] /\ minted \in [Window -> Nat]
  OBVIOUS
<1>4. TypeOK
  BY <1>1, <1>2, <1>3 DEF TypeOK, Config
<1>5. RequestsAuthorised
  BY DEF RequestsAuthorised
<1>6. OneStepBehind /\ OneRolloutAtATime /\ TokensBounded
  BY DEF OneStepBehind, OneRolloutAtATime, TokensBounded
<1>7. SecretsOrdered
  BY DEF SecretsOrdered
<1>8. KeysGone
  BY <1>2 DEF KeysGone
<1> QED
  BY <1>4, <1>5, <1>6, <1>7, <1>8 DEF IInv

(* What starts any rollout: the rest of the invariant's parts follow from how
   the new configuration relates to the one all backends run.                *)
LEMMA RolloutKeeps ==
    ASSUME IInv, NEW config \in Config, Rollout(config), revoked' \subseteq Secret,
           removed' = removed, target.current <= config.current,
           config.current <= target.current + 1, config.keys \subseteq target.keys
    PROVE  TypeOK' /\ RequestsAuthorised' /\ OneRolloutAtATime' /\ KeysGone'
           /\ (config.current <= rollouts')
<1> USE AccessAssumption DEF IInv
<1>1. /\ target' = config /\ rollouts' = rollouts + 1 /\ rollouts < MaxRollouts /\ Deployed
      /\ UNCHANGED <<clocks, conf, since, rate, request, tokens, minted>>
  BY DEF Rollout
<1>2. TypeOK'
  BY <1>1 DEF TypeOK, Config, clocks
<1>3. RequestsAuthorised'
  BY <1>1 DEF RequestsAuthorised, clocks
<1>4. OneRolloutAtATime'
  BY <1>1 DEF OneRolloutAtATime, Deployed
<1>5. KeysGone'
  BY <1>1 DEF KeysGone, Deployed
<1>6. config.current <= rollouts'
  <2>1. target.current \in Nat /\ rollouts \in Nat /\ config.current \in Nat /\ target.current <= rollouts
    BY DEF TypeOK, SecretsOrdered, Config, Secret
  <2> QED
    BY <1>1, <2>1
<1> QED
  BY <1>2, <1>3, <1>4, <1>5, <1>6

LEMMA RotateInv == IInv /\ Rotate => IInv'
<1> SUFFICES ASSUME IInv, Rotate PROVE IInv'
  OBVIOUS
<1> USE AccessAssumption
<1> DEFINE config == [target EXCEPT !.current = @ + 1, !.previous = {target.current}]
<1>1. /\ target.previous = {} /\ Rollout(config) /\ UNCHANGED <<revoked, removed>>
      /\ target' = config /\ rollouts' = rollouts + 1 /\ rollouts < MaxRollouts /\ Deployed
      /\ UNCHANGED <<clocks, conf, since, rate, request, tokens, minted>>
  BY DEF Rotate, Rollout
<1>2. /\ target.current \in Nat /\ rollouts \in Nat /\ target.current <= rollouts
      /\ target \in Config /\ revoked \subseteq Secret
  BY DEF IInv, TypeOK, SecretsOrdered, Config, Secret
<1>3. /\ config \in Config /\ config.current = target.current + 1
      /\ config.previous = {target.current} /\ config.keys = target.keys
  <2>1. MaxRollouts \in Nat
    OBVIOUS
  <2>2. target.current + 1 \in Secret /\ {target.current} \subseteq Secret
    BY <1>1, <1>2, <2>1 DEF Secret
  <2> QED
    BY <1>1, <1>2, <2>2 DEF Config
<1> HIDE DEF config
<1>4. TypeOK' /\ RequestsAuthorised' /\ OneRolloutAtATime' /\ KeysGone' /\ (config.current <= rollouts')
  <2>1. /\ IInv /\ config \in Config /\ Rollout(config) /\ revoked' \subseteq Secret
        /\ removed' = removed /\ target.current <= config.current
        /\ config.current <= target.current + 1 /\ config.keys \subseteq target.keys
    BY <1>1, <1>2, <1>3
  <2> QED
    BY <2>1, RolloutKeeps
<1>5. OneStepBehind'
  BY <1>1, <1>3 DEF OneStepBehind, Deployed
<1>6. SecretsOrdered'
  <2>1. \A s \in revoked : s < target.current
    BY DEF IInv, SecretsOrdered
  <2>2. \A s \in revoked : s \in Nat
    BY <1>2 DEF Secret
  <2> QED
    BY <1>1, <1>2, <1>3, <1>4, <2>1, <2>2 DEF SecretsOrdered
<1>7. TokensBounded'
  <2>1. \A b \in Backend : conf'[b].current # target'.current
    BY <1>1, <1>2, <1>3 DEF Deployed
  <2> QED
    BY <1>1, <1>3, <2>1 DEF TokensBounded, IInv, clocks
<1> QED
  BY <1>4, <1>5, <1>6, <1>7 DEF IInv

LEMMA RetireInv == IInv /\ RetirePrevious => IInv'
<1> SUFFICES ASSUME IInv, RetirePrevious PROVE IInv'
  OBVIOUS
<1> USE AccessAssumption
<1> DEFINE config == [target EXCEPT !.previous = {}]
<1>1. /\ now > since + TtlMax + ReconnectWindow /\ Rollout(config) /\ UNCHANGED <<revoked, removed>>
      /\ target' = config /\ rollouts' = rollouts + 1 /\ rollouts < MaxRollouts /\ Deployed
      /\ UNCHANGED <<clocks, conf, since, rate, request, tokens, minted>>
  BY DEF RetirePrevious, Rollout
<1>2. /\ target.current \in Nat /\ rollouts \in Nat /\ target.current <= rollouts
      /\ target \in Config /\ revoked \subseteq Secret /\ now \in Nat /\ since \in Nat
  BY DEF IInv, TypeOK, SecretsOrdered, Config, Secret
<1>3. /\ config \in Config /\ config.current = target.current
      /\ config.previous = {} /\ config.keys = target.keys
  BY <1>1, <1>2 DEF Config, Secret
<1> HIDE DEF config
<1>4. TypeOK' /\ RequestsAuthorised' /\ OneRolloutAtATime' /\ KeysGone' /\ (config.current <= rollouts')
  <2>1. /\ IInv /\ config \in Config /\ Rollout(config) /\ revoked' \subseteq Secret
        /\ removed' = removed /\ target.current <= config.current
        /\ config.current <= target.current + 1 /\ config.keys \subseteq target.keys
    BY <1>1, <1>2, <1>3
  <2> QED
    BY <2>1, RolloutKeeps
<1>5. OneStepBehind'
  BY <1>1, <1>3 DEF OneStepBehind, Deployed
<1>6. SecretsOrdered'
  <2>1. \A s \in revoked : s < target.current
    BY DEF IInv, SecretsOrdered
  <2> QED
    BY <1>1, <1>3, <1>4, <2>1 DEF SecretsOrdered
<1>7. TokensBounded'
  <2> SUFFICES ASSUME NEW t \in tokens
               PROVE  /\ t.tenant = Owner[t.channel] /\ t.exp <= now + Life
                      /\ tokenAuth => t.key \in Key /\ KeyTenant[t.key] = Owner[t.channel]
                      /\ t.secret \in {target.current} \cup revoked \/ t.exp <= now
                      /\ t.key \in DOMAIN removed => t.exp <= removed[t.key] + Life
    BY <1>1, <1>3 DEF TokensBounded, clocks
  <2>1. t.exp \in Nat
    BY DEF IInv, TypeOK
  <2>2. ASSUME t.secret \in target.previous PROVE t.exp <= now
    <3>1. t.exp <= since + Life
      BY <1>1, <2>2 DEF IInv, TokensBounded, Deployed
    <3> QED
      BY <1>1, <1>2, <2>1, <3>1 DEF Life
  <2> QED
    BY <2>2 DEF IInv, TokensBounded
<1> QED
  BY <1>4, <1>5, <1>6, <1>7 DEF IInv

LEMMA RevokeInv == IInv /\ EmergencyRevoke => IInv'
<1> SUFFICES ASSUME IInv, EmergencyRevoke PROVE IInv'
  OBVIOUS
<1> USE AccessAssumption
<1> DEFINE config == [target EXCEPT !.current = @ + 1, !.previous = {}]
<1>1. /\ Rollout(config) /\ revoked' = revoked \cup {target.current} \cup target.previous
      /\ UNCHANGED removed
      /\ target' = config /\ rollouts' = rollouts + 1 /\ rollouts < MaxRollouts /\ Deployed
      /\ UNCHANGED <<clocks, conf, since, rate, request, tokens, minted>>
  BY DEF EmergencyRevoke, Rollout
<1>2. /\ target.current \in Nat /\ rollouts \in Nat /\ target.current <= rollouts
      /\ target.current \in Secret /\ target.previous \subseteq Secret
      /\ target \in Config /\ revoked \subseteq Secret
  BY DEF IInv, TypeOK, SecretsOrdered, Config, Secret
<1>3. /\ config \in Config /\ config.current = target.current + 1
      /\ config.previous = {} /\ config.keys = target.keys
  <2>1. MaxRollouts \in Nat
    OBVIOUS
  <2>2. target.current + 1 \in Secret
    BY <1>1, <1>2, <2>1 DEF Secret
  <2> QED
    BY <1>1, <1>2, <2>2 DEF Config
<1> HIDE DEF config
<1>4. TypeOK' /\ RequestsAuthorised' /\ OneRolloutAtATime' /\ KeysGone' /\ (config.current <= rollouts')
  <2>1. /\ IInv /\ config \in Config /\ Rollout(config) /\ revoked' \subseteq Secret
        /\ removed' = removed /\ target.current <= config.current
        /\ config.current <= target.current + 1 /\ config.keys \subseteq target.keys
    BY <1>1, <1>2, <1>3
  <2> QED
    BY <2>1, RolloutKeeps
<1>5. OneStepBehind'
  BY <1>1, <1>3 DEF OneStepBehind, Deployed
<1>6. SecretsOrdered'
  <2>1. \A s \in revoked \cup target.previous : s < target.current /\ s \in Nat
    BY <1>2 DEF IInv, SecretsOrdered, Secret
  <2>2. \A s \in revoked' : s < target'.current
    BY <1>1, <1>2, <1>3, <2>1
  <2> QED
    BY <1>1, <1>3, <1>4, <2>2 DEF SecretsOrdered
<1>7. TokensBounded'
  BY <1>1, <1>3 DEF TokensBounded, IInv, clocks
<1> QED
  BY <1>4, <1>5, <1>6, <1>7 DEF IInv

LEMMA RemoveKeyInv == ASSUME NEW k \in Key PROVE IInv /\ RemoveKey(k) => IInv'
<1> SUFFICES ASSUME IInv, RemoveKey(k) PROVE IInv'
  OBVIOUS
<1> USE AccessAssumption
<1> DEFINE config == [target EXCEPT !.keys = @ \ {k}]
<1>1. /\ Rollout(config) /\ UNCHANGED <<revoked, removed>>
      /\ target' = config /\ rollouts' = rollouts + 1 /\ rollouts < MaxRollouts /\ Deployed
      /\ UNCHANGED <<clocks, conf, since, rate, request, tokens, minted>>
  BY DEF RemoveKey, Rollout
<1>2. /\ target.current \in Nat /\ rollouts \in Nat /\ target.current <= rollouts
      /\ target \in Config /\ revoked \subseteq Secret
  BY DEF IInv, TypeOK, SecretsOrdered, Config, Secret
<1>3. /\ config \in Config /\ config.current = target.current
      /\ config.previous = target.previous /\ config.keys \subseteq target.keys
  BY <1>1, <1>2 DEF Config, Secret
<1> HIDE DEF config
<1>4. TypeOK' /\ RequestsAuthorised' /\ OneRolloutAtATime' /\ KeysGone' /\ (config.current <= rollouts')
  <2>1. /\ IInv /\ config \in Config /\ Rollout(config) /\ revoked' \subseteq Secret
        /\ removed' = removed /\ target.current <= config.current
        /\ config.current <= target.current + 1 /\ config.keys \subseteq target.keys
    BY <1>1, <1>2, <1>3
  <2> QED
    BY <2>1, RolloutKeeps
<1>5. OneStepBehind'
  BY <1>1, <1>3 DEF OneStepBehind, Deployed
<1>6. SecretsOrdered'
  BY <1>1, <1>3, <1>4 DEF SecretsOrdered, IInv
<1>7. TokensBounded'
  BY <1>1, <1>3 DEF TokensBounded, IInv, clocks
<1> QED
  BY <1>4, <1>5, <1>6, <1>7 DEF IInv

LEMMA DeployInv == ASSUME NEW b \in Backend PROVE IInv /\ Deploy(b) => IInv'
<1> SUFFICES ASSUME IInv, Deploy(b) PROVE IInv'
  OBVIOUS
<1> USE AccessAssumption
<1> DEFINE AllDeployed == \A a \in Backend : conf'[a] = target
<1>1. /\ conf[b] # target /\ conf' = [conf EXCEPT ![b] = target]
      /\ request' = [r \in Request |->
             IF request[r] \notin {Idle, Ended} /\ request[r].backend = b
             THEN Ended ELSE request[r]]
      /\ UNCHANGED <<clocks, target, rollouts, revoked, rate, tokens, minted>>
  BY DEF Deploy
<1>2. /\ now \in Nat /\ since \in 0 .. now /\ DOMAIN removed \subseteq Key
      /\ DOMAIN removed \cap target.keys = {} /\ target \in Config /\ conf \in [Backend -> Config]
      /\ \A k \in DOMAIN removed : removed[k] \in 0 .. now
  <2>1. MaxTime \in Nat
    OBVIOUS
  <2> QED
    BY <2>1 DEF IInv, TypeOK, KeysGone, Config
<1>3. /\ since' \in 0 .. now
      /\ target.previous # {} => since' >= since /\ (AllDeployed => since' = now)
  <2>1. CASE AllDeployed
    BY <1>2, <2>1 DEF Deploy
  <2>2. CASE ~AllDeployed
    BY <1>2, <2>2 DEF Deploy
  <2> QED
    BY <2>1, <2>2
<1>4. /\ DOMAIN removed \subseteq DOMAIN removed' /\ DOMAIN removed' \subseteq Key
      /\ \A k \in DOMAIN removed' : removed'[k] = IF k \in DOMAIN removed THEN removed[k] ELSE now
      /\ DOMAIN removed' \cap target.keys = {} /\ (AllDeployed \/ removed' = removed)
  <2>1. CASE AllDeployed
    BY <1>2, <2>1 DEF Deploy
  <2>2. CASE ~AllDeployed
    BY <1>2, <2>2 DEF Deploy
  <2> QED
    BY <2>1, <2>2
<1>5. \A a \in Backend : conf'[a] = IF a = b THEN target ELSE conf[a]
  BY <1>1, <1>2
<1>6. TypeOK'
  <2>1. conf' \in [Backend -> Config]
    BY <1>1, <1>2
  <2>2. \A k \in DOMAIN removed' : removed'[k] \in 0 .. now
    BY <1>2, <1>4
  <2>3. DOMAIN removed' \subseteq Key /\ since' \in 0 .. now
    BY <1>3, <1>4
  <2> QED
    BY <1>1, <2>1, <2>2, <2>3 DEF TypeOK, IInv, clocks, Config
<1>7. RequestsAuthorised'
  <2> SUFFICES ASSUME NEW r \in Request, request'[r] \notin {Idle, Ended}
               PROVE  /\ request[r] \notin {Idle, Ended} /\ request'[r] = request[r]
                      /\ conf'[request[r].backend] = conf[request[r].backend]
    BY <1>1 DEF RequestsAuthorised, IInv, clocks
  <2>1. request'[r] = request[r] /\ request[r] \notin {Idle, Ended} /\ request[r].backend # b
    BY <1>1
  <2>2. request[r].backend \in Backend
    BY <2>1 DEF RequestsAuthorised, IInv
  <2> QED
    BY <1>5, <2>1, <2>2
<1>8. OneStepBehind'
  <2> SUFFICES ASSUME NEW a \in Backend, a # b
               PROVE  /\ target' = target /\ revoked' = revoked /\ conf'[a] = conf[a]
    BY <1>1, <1>5 DEF OneStepBehind, IInv
  <2> QED
    BY <1>1, <1>5
<1>9. OneRolloutAtATime'
  BY <1>1, <1>5 DEF OneRolloutAtATime, IInv
<1>10. SecretsOrdered'
  BY <1>1 DEF SecretsOrdered, IInv
<1>11. KeysGone'
  <2>1. ASSUME NEW a \in Backend PROVE DOMAIN removed' \cap conf'[a].keys = {}
    <3>1. CASE AllDeployed
      BY <1>4, <3>1
    <3>2. CASE ~AllDeployed
      BY <1>4, <1>5, <3>2 DEF KeysGone, IInv
    <3> QED
      BY <3>1, <3>2
  <2> QED
    BY <1>1, <1>4, <2>1 DEF KeysGone
<1>12. TokensBounded'
  <2> SUFFICES ASSUME NEW t \in tokens
               PROVE  /\ t.secret \in target.previous
                         /\ (\A a \in Backend : conf'[a].current = target.current)
                         => t.exp <= since' + Life
                      /\ t.key \in DOMAIN removed' => t.exp <= removed'[t.key] + Life
    BY <1>1 DEF TokensBounded, IInv, clocks
  <2>1. t.exp \in Nat /\ Life \in Nat /\ t.exp <= now + Life
    BY DEF IInv, TypeOK, TokensBounded, Life
  <2>2. ASSUME t.secret \in target.previous, \A a \in Backend : conf'[a].current = target.current
        PROVE  t.exp <= since' + Life
    <3>1. CASE AllDeployed
      BY <1>2, <1>3, <2>1, <2>2, <3>1
    <3>2. CASE ~AllDeployed
      <4>1. PICK a \in Backend : conf'[a] # target
        BY <3>2
      <4>2. a # b /\ conf[a] = conf'[a] /\ conf[a].current = target.current /\ conf[a] # target
        BY <1>5, <2>2, <4>1
      <4>3. conf[b].current = target.current
        BY <1>1, <4>2 DEF OneRolloutAtATime, IInv
      <4>4. \A c \in Backend : conf[c].current = target.current
        BY <1>5, <2>2, <4>3
      <4>5. t.exp <= since + Life
        BY <2>2, <4>4 DEF TokensBounded, IInv
      <4> QED
        BY <1>2, <1>3, <2>1, <2>2, <4>5
    <3> QED
      BY <3>1, <3>2
  <2>3. ASSUME t.key \in DOMAIN removed' PROVE t.exp <= removed'[t.key] + Life
    <3>1. CASE t.key \in DOMAIN removed
      BY <1>4, <2>3, <3>1 DEF TokensBounded, IInv
    <3>2. CASE t.key \notin DOMAIN removed
      BY <1>4, <2>1, <2>3, <3>2
    <3> QED
      BY <3>1, <3>2
  <2> QED
    BY <2>2, <2>3
<1> QED
  BY <1>6, <1>7, <1>8, <1>9, <1>10, <1>11, <1>12 DEF IInv

LEMMA TickInv == IInv /\ Tick => IInv'
<1> SUFFICES ASSUME IInv, Tick PROVE IInv'
  OBVIOUS
<1> USE AccessAssumption
<1>1. /\ now \in 0 .. MaxTime /\ now' = now + 1 /\ now < MaxTime /\ MaxTime \in Nat
      /\ UNCHANGED <<skew, tokenAuth, deployment, rate, request, tokens, minted>>
  BY DEF Tick, IInv, TypeOK
<1>2. TypeOK'
  <2>1. now' \in 0 .. MaxTime /\ 0 .. now \subseteq 0 .. now'
    BY <1>1
  <2>2. since' \in 0 .. now' /\ \A k \in DOMAIN removed' : removed'[k] \in 0 .. now'
    BY <1>1, <2>1 DEF IInv, TypeOK, deployment
  <2> QED
    BY <1>1, <2>1, <2>2 DEF IInv, TypeOK, deployment
<1>3. RequestsAuthorised' /\ OneStepBehind' /\ OneRolloutAtATime' /\ SecretsOrdered' /\ KeysGone'
  BY <1>1 DEF IInv, RequestsAuthorised, OneStepBehind, OneRolloutAtATime, SecretsOrdered, KeysGone, deployment
<1>4. TokensBounded'
  <2>1. \A t \in tokens : t.exp \in Nat
    BY DEF IInv, TypeOK
  <2>2. Life \in Nat /\ now \in Nat
    BY <1>1 DEF Life
  <2> QED
    BY <1>1, <2>1, <2>2 DEF IInv, TokensBounded, deployment
<1> QED
  BY <1>2, <1>3, <1>4 DEF IInv

LEMMA AskInv ==
    ASSUME NEW r \in Request, NEW b \in Backend, NEW k \in Key \cup {NoKey},
           NEW c \in Channel, NEW t \in Tenant \cup {NotSupplied}
    PROVE  IInv /\ Ask(r, b, k, c, t) => IInv'
<1> SUFFICES ASSUME IInv, Ask(r, b, k, c, t) PROVE IInv'
  OBVIOUS
<1> USE AccessAssumption
<1>1. /\ UNCHANGED <<clocks, deployment, rate, tokens, minted>>
      /\ Owner[c] \in TenantsOf(b, k, t, Owner[c]) /\ (tokenAuth \/ k = NoKey)
      /\ \A q \in Request : q # r => request'[q] = request[q]
      /\ request'[r].backend = b /\ request'[r].key = k /\ request'[r].channel = c
      /\ request' = [q \in Request |-> request'[q]]
  <2>1. request = [q \in Request |-> request[q]]
    BY DEF IInv, TypeOK
  <2> QED
    BY <2>1 DEF Ask
<1>2. IF tokenAuth THEN k \in conf[b].keys /\ KeyTenant[k] = Owner[c] ELSE k = NoKey
  BY <1>1 DEF TenantsOf
<1>3. RequestsAuthorised'
  BY <1>1, <1>2 DEF RequestsAuthorised, IInv, clocks, deployment
<1> QED
  BY <1>1, <1>3 DEF IInv, TypeOK, OneStepBehind, OneRolloutAtATime, SecretsOrdered, KeysGone,
                    TokensBounded, clocks, deployment

LEMMA ChargeInv == ASSUME NEW r \in Request PROVE IInv /\ Charge(r) => IInv'
<1> SUFFICES ASSUME IInv, Charge(r) PROVE IInv'
  OBVIOUS
<1> USE AccessAssumption
<1> DEFINE w == request[r].window
<1>1. /\ UNCHANGED <<clocks, deployment, tokens>>
      /\ request[r].state = "charging"
      /\ \/ request' = [request EXCEPT ![r] = Ended] /\ UNCHANGED <<rate, minted>>
         \/ /\ rate' = [rate EXCEPT ![w] = [count |-> Charged(w) + 1, until |-> now + 2 * Minute]]
            /\ minted' = [minted EXCEPT ![w] = @ + 1]
            /\ request' = [request EXCEPT ![r] = [@ EXCEPT !.state = "signing", !.asked = 0]]
  BY DEF Charge
<1> HIDE DEF w
<1>2. /\ rate \in [Window -> [count : Nat, until : Nat]] /\ minted \in [Window -> Nat]
      /\ request = [q \in Request |-> request[q]] /\ now \in 0 .. MaxTime
  BY DEF IInv, TypeOK
<1>3. rate' \in [Window -> [count : Nat, until : Nat]]
  <2>1. CASE w \in Window
    <3>1. Charged(w) \in Nat
      BY <1>2, <2>1 DEF Charged
    <3>2. now \in Nat /\ Minute \in Nat
      BY <1>2
    <3>3. [count |-> Charged(w) + 1, until |-> now + 2 * Minute] \in [count : Nat, until : Nat]
      BY <3>1, <3>2
    <3> QED
      BY <1>1, <1>2, <3>3
  <2>2. CASE w \notin Window
    BY <1>1, <1>2, <2>2
  <2> QED
    BY <2>1, <2>2
<1>4. minted' \in [Window -> Nat]
  BY <1>1, <1>2
<1>5. request' = [q \in Request |-> request'[q]]
  BY <1>1, <1>2
<1>6. RequestsAuthorised'
  <2> SUFFICES ASSUME NEW q \in Request, request'[q] \notin {Idle, Ended}
               PROVE  /\ request[q] \notin {Idle, Ended} /\ request'[q].backend = request[q].backend
                      /\ request'[q].channel = request[q].channel /\ request'[q].key = request[q].key
    BY <1>1 DEF RequestsAuthorised, IInv, clocks, deployment
  <2>1. CASE q # r
    BY <1>1, <1>2, <2>1
  <2>2. CASE q = r
    <3>1. request[r] \notin {Idle, Ended}
      BY <1>1 DEF Idle, Ended
    <3>2. request'[r] = [request[r] EXCEPT !.state = "signing", !.asked = 0]
      BY <1>1, <1>2, <2>2
    <3> QED
      BY <2>2, <3>1, <3>2
  <2> QED
    BY <2>1, <2>2
<1>7. TypeOK'
  BY <1>1, <1>3, <1>4, <1>5 DEF IInv, TypeOK, clocks, deployment
<1> QED
  BY <1>1, <1>6, <1>7 DEF IInv, OneStepBehind, OneRolloutAtATime, SecretsOrdered, KeysGone,
                         TokensBounded, clocks, deployment

LEMMA SignInv == ASSUME NEW r \in Request PROVE IInv /\ Sign(r) => IInv'
<1> SUFFICES ASSUME IInv, Sign(r) PROVE IInv'
  OBVIOUS
<1> USE AccessAssumption
<1> DEFINE b == request[r].backend
           c == request[r].channel
           k == request[r].key
<1>1. PICK requested \in RequestedTtl :
          tokens' = tokens \cup {[secret |-> conf[b].current, tenant |-> Owner[c], channel |-> c,
                                  exp |-> Clock(b) + Ttl(requested), key |-> k]}
  BY DEF Sign
<1> DEFINE new == [secret |-> conf[b].current, tenant |-> Owner[c], channel |-> c,
                   exp |-> Clock(b) + Ttl(requested), key |-> k]
<1>2. /\ request[r].state = "signing" /\ request' = [request EXCEPT ![r] = Ended]
      /\ UNCHANGED <<clocks, deployment, rate, minted>>
  BY DEF Sign
<1>3. request[r] \notin {Idle, Ended}
  BY <1>2 DEF Idle, Ended
<1>4. /\ b \in Backend /\ c \in Channel
      /\ IF tokenAuth THEN k \in conf[b].keys /\ KeyTenant[k] = Owner[c] ELSE k = NoKey
  BY <1>3 DEF IInv, RequestsAuthorised
<1>5. /\ conf[b] \in Config /\ now \in Nat /\ skew[b] \in 0 .. MaxSkew
      /\ target \in Config
  <2>1. now \in 0 .. MaxTime /\ MaxTime \in Nat
    BY DEF IInv, TypeOK
  <2> QED
    BY <1>4, <2>1 DEF IInv, TypeOK, Config
<1>6. Clock(b) + Ttl(requested) \in Nat /\ Clock(b) + Ttl(requested) <= now + Life
  <2>1. requested \in Nat /\ TtlMin \in Nat /\ TtlMax \in Nat /\ MaxSkew \in Nat /\ TtlMin <= TtlMax
    OBVIOUS
  <2>2. Ttl(requested) \in 0 .. TtlMax
    BY <2>1 DEF Ttl
  <2> QED
    BY <1>5, <2>1, <2>2 DEF Clock, Life
<1>7. k \in Key \cup {NoKey} /\ Owner[c] \in Tenant
  BY <1>4, <1>5 DEF Config
<1>8. new \in Token
  BY <1>4, <1>5, <1>6, <1>7 DEF Token, Config
<1>9. /\ new.tenant = Owner[new.channel] /\ new.exp <= now + Life
      /\ tokenAuth => new.key \in Key /\ KeyTenant[new.key] = Owner[new.channel]
      /\ new.secret \in {target.current} \cup target.previous \cup revoked
      /\ new.secret \in target.previous => conf[b].current # target.current
      /\ new.key \notin DOMAIN removed
  <2>1. conf[b].current \in {target.current} \cup target.previous \cup revoked
    BY <1>4 DEF IInv, OneStepBehind
  <2>2. target.current \notin target.previous
    <3>1. target.current \in Nat
      BY <1>5 DEF Config, Secret
    <3> QED
      BY <3>1 DEF IInv, SecretsOrdered
  <2>3. k \notin DOMAIN removed
    <3>1. DOMAIN removed \subseteq Key
      BY DEF IInv, TypeOK
    <3> QED
      BY <1>4, <3>1 DEF IInv, KeysGone
  <2> QED
    BY <1>4, <1>5, <1>6, <2>1, <2>2, <2>3 DEF Config
<1>10. /\ tokens' = tokens \cup {new}
       /\ \A t \in tokens : t \in Token
  BY <1>1 DEF IInv, TypeOK, Token
<1> HIDE DEF new, b, c, k
<1>11. TokensBounded'
  <2> SUFFICES ASSUME NEW t \in tokens'
               PROVE  /\ t.tenant = Owner[t.channel] /\ t.exp <= now + Life
                      /\ tokenAuth => t.key \in Key /\ KeyTenant[t.key] = Owner[t.channel]
                      /\ t.secret \in {target.current} \cup target.previous \cup revoked \/ t.exp <= now
                      /\ t.secret \in target.previous /\ (\A a \in Backend : conf[a].current = target.current)
                         => t.exp <= since + Life
                      /\ t.key \in DOMAIN removed => t.exp <= removed[t.key] + Life
    BY <1>2 DEF TokensBounded, clocks, deployment
  <2>1. CASE t \in tokens
    BY <2>1 DEF IInv, TokensBounded
  <2>2. CASE t = new
    BY <1>4, <1>9, <2>2
  <2> QED
    BY <1>10, <2>1, <2>2
<1>12. TypeOK'
  <2>1. \A t \in tokens' : t \in Token
    BY <1>8, <1>10
  <2>2. request' = [q \in Request |-> request'[q]]
    BY <1>2 DEF IInv, TypeOK
  <2> QED
    BY <1>2, <2>1, <2>2 DEF IInv, TypeOK, Token, clocks, deployment
<1>13. RequestsAuthorised'
  BY <1>2 DEF IInv, TypeOK, RequestsAuthorised, clocks, deployment
<1> QED
  BY <1>2, <1>11, <1>12, <1>13 DEF IInv, OneStepBehind, OneRolloutAtATime, SecretsOrdered, KeysGone,
                                  clocks, deployment

-----------------------------------------------------------------------------
(* The invariant holds in every reachable state. *)
THEOREM Invariant == Spec => []IInv
<1>1. Init => IInv
  BY InitInv
<1>2. IInv /\ [Next]_vars => IInv'
  <2> SUFFICES ASSUME IInv, [Next]_vars PROVE IInv'
    OBVIOUS
  <2>1. CASE Tick
    BY <2>1, TickInv
  <2>2. CASE Rotate
    BY <2>2, RotateInv
  <2>3. CASE RetirePrevious
    BY <2>3, RetireInv
  <2>4. CASE EmergencyRevoke
    BY <2>4, RevokeInv
  <2>5. ASSUME NEW k \in Key, RemoveKey(k) PROVE IInv'
    BY <2>5, RemoveKeyInv
  <2>6. ASSUME NEW b \in Backend, Deploy(b) PROVE IInv'
    BY <2>6, DeployInv
  <2>7. ASSUME NEW r \in Request, NEW b \in Backend, NEW k \in Key \cup {NoKey},
               NEW c \in Channel, NEW t \in Tenant \cup {NotSupplied}, Ask(r, b, k, c, t)
        PROVE  IInv'
    BY <2>7, AskInv
  <2>8. ASSUME NEW r \in Request, Charge(r) PROVE IInv'
    BY <2>8, ChargeInv
  <2>9. ASSUME NEW r \in Request, Sign(r) PROVE IInv'
    BY <2>9, SignInv
  <2>10. CASE UNCHANGED vars
    BY <2>10 DEF IInv, TypeOK, RequestsAuthorised, OneStepBehind, OneRolloutAtATime, SecretsOrdered,
                 KeysGone, TokensBounded, vars, clocks, deployment
  <2> QED
    BY <2>1, <2>2, <2>3, <2>4, <2>5, <2>6, <2>7, <2>8, <2>9, <2>10 DEF Next
<1> QED
  BY <1>1, <1>2, PTL DEF Spec

(* Tokens open streams only of the tenant whose API key asked for them: what
   POST /token compares is enough for GET /stream to trust the claims.       *)
THEOREM IsolationTheorem == Spec => []TenantIsolation
<1>1. IInv => TenantIsolation
  BY DEF IInv, TokensBounded, TenantIsolation, Admits
<1> QED
  BY <1>1, Invariant, PTL

LEMMA ClockAhead ==
    ASSUME IInv, NEW b \in Backend, NEW t \in tokens, t.exp > Clock(b)
    PROVE  now \in Nat /\ t.exp \in Nat /\ now < t.exp
<1>1. now \in 0 .. MaxTime /\ MaxTime \in Nat /\ skew[b] \in 0 .. MaxSkew /\ MaxSkew \in Nat /\ t.exp \in Nat
  BY AccessAssumption DEF IInv, TypeOK
<1> QED
  BY <1>1 DEF Clock

(* The rotation of docs/KEY_ROTATION.md refuses no token that has not expired,
   however the clocks differ, because its wait covers life and difference.   *)
THEOREM RotationTheorem == Spec => []ValidTokenKnown
<1>1. ASSUME IInv, NEW b \in Backend, NEW t \in tokens, t.exp > Clock(b)
      PROVE  \/ t.secret \in Secrets(b) \/ t.secret \in revoked
             \/ conf[b] # target /\ t.secret = target.current
  <2>1. now < t.exp /\ now \in Nat /\ t.exp \in Nat
    BY <1>1, ClockAhead
  <2>2. t.secret \in {target.current} \cup target.previous \cup revoked
    BY <1>1, <2>1 DEF IInv, TokensBounded
  <2>3. CASE t.secret \in target.previous
    <3>1. conf[b] = target \/ target.previous = {conf[b].current} \/ target.previous = conf[b].previous
      BY <1>1, <2>3 DEF IInv, OneStepBehind
    <3> QED
      BY <2>3, <3>1 DEF Secrets
  <2> QED
    BY <2>2, <2>3 DEF Secrets
<1>2. IInv => ValidTokenKnown
  BY <1>1 DEF ValidTokenKnown
<1> QED
  BY <1>2, Invariant, PTL

(* Withdrawn keys and revoked secrets end when they shall. *)
THEOREM AccessEndsTheorem == Spec => []AccessEnds
<1>1. ASSUME IInv, NEW b \in Backend, NEW t \in tokens, Verified(b, t), t.key \in DOMAIN removed
      PROVE  now < removed[t.key] + TtlMax + MaxSkew
  <2>1. now < t.exp /\ now \in Nat /\ t.exp \in Nat
    BY <1>1, ClockAhead DEF Verified
  <2>2. t.exp <= removed[t.key] + Life /\ removed[t.key] \in 0 .. now
    BY <1>1 DEF IInv, TokensBounded, TypeOK
  <2>3. TtlMax \in Nat /\ MaxSkew \in Nat
    BY AccessAssumption
  <2> QED
    BY <2>1, <2>2, <2>3 DEF Life
<1>2. ASSUME IInv, NEW b \in Backend, NEW t \in tokens, Verified(b, t), Deployed
      PROVE  t.secret \notin revoked
  <2>1. t.secret \in {target.current} \cup target.previous
    BY <1>2 DEF Verified, Secrets, Deployed
  <2>2. target.current \in Nat
    BY <1>2 DEF IInv, TypeOK, Secret
  <2> QED
    BY <1>2, <2>1, <2>2 DEF IInv, SecretsOrdered
<1>3. IInv => AccessEnds
  BY <1>1, <1>2 DEF AccessEnds
<1> QED
  BY <1>3, Invariant, PTL

-----------------------------------------------------------------------------
(* The rate limit's counters.                                               *)

LEMMA MinuteOf ==
    ASSUME NEW x \in Nat
    PROVE  /\ x \div Minute \in Nat
           /\ (x \div Minute) * Minute <= x /\ x < (x \div Minute) * Minute + Minute
<1>1. Minute \in Nat /\ Minute > 0
  BY AccessAssumption
<1> DEFINE q == x \div Minute
<1> DEFINE m == x % Minute
<1>2. q \in Int /\ m \in 0 .. Minute - 1 /\ x = Minute * q + m
  BY <1>1
<1>3. q >= 0
  BY <1>1, <1>2
<1>4. q * Minute = Minute * q /\ Minute * q \in Int
  BY <1>1, <1>2
<1> HIDE DEF q, m
<1>5. q * Minute <= x /\ x < q * Minute + Minute
  BY <1>1, <1>2, <1>4
<1> QED
  BY <1>2, <1>3, <1>5 DEF q

MintInv == ChargesInTime /\ CountersKept /\ WithinMintLimit

LEMMA MintInit == Init => MintInv
<1> SUFFICES ASSUME Init PROVE MintInv
  OBVIOUS
<1>1. ChargesInTime
  BY DEF Init, ChargesInTime, Idle
<1>2. CountersKept /\ WithinMintLimit
  BY AccessAssumption DEF Init, CountersKept, WithinMintLimit
<1> QED
  BY <1>1, <1>2 DEF MintInv

(* Steps that leave the counters alone.                                     *)
LEMMA SameCounters ==
    ASSUME UNCHANGED <<rate, minted>>
    PROVE  /\ CountersKept => CountersKept'
           /\ WithinMintLimit => WithinMintLimit'
  BY DEF CountersKept, WithinMintLimit

LEMMA MintAsk ==
    ASSUME IInv, MintInv, NEW r \in Request, NEW b \in Backend, NEW k, NEW c \in Channel, NEW t,
           Ask(r, b, k, c, t)
    PROVE  MintInv'
<1> DEFINE new == [state |-> IF MintLimit = 0 THEN "signing" ELSE "charging",
                   backend |-> b, key |-> k, channel |-> c, asked |-> now,
                   window |-> <<Owner[c], Clock(b) \div Minute>>]
<1>1. request' = [request EXCEPT ![r] = new] /\ UNCHANGED <<now, rate, minted>>
  BY DEF Ask, clocks
<1>2. /\ now \in Nat /\ skew[b] \in Nat /\ skew[b] <= MaxSkew /\ MaxSkew \in Nat /\ MaxDelay \in Nat
      /\ Minute \in Nat
  BY AccessAssumption DEF IInv, TypeOK
<1>3. /\ Clock(b) \in Nat /\ Clock(b) <= now + MaxSkew /\ now <= Clock(b)
  BY <1>2 DEF Clock
<1> DEFINE q == Clock(b) \div Minute
<1>4. q \in Nat /\ q * Minute <= Clock(b) /\ Clock(b) < q * Minute + Minute
  BY <1>3, MinuteOf
<1>5. new.asked = now /\ new.window[2] = q
  OBVIOUS
<1>6. request = [s \in Request |-> request[s]]
  BY DEF IInv, TypeOK
<1> HIDE DEF q, new
<1>7. q * Minute \in Int
  BY <1>2, <1>4
<1>8. now <= now + MaxDelay /\ q * Minute <= now + MaxSkew /\ now < q * Minute + Minute
  BY <1>2, <1>3, <1>4, <1>7
<1>9. ChargesInTime'
  <2>1. ASSUME NEW s \in Request, request'[s].state = "charging"
        PROVE  LET minute == request'[s].window[2]  asked == request'[s].asked IN
               /\ minute \in Nat /\ asked \in 0 .. now' /\ now' <= asked + MaxDelay
               /\ minute * Minute <= asked + MaxSkew /\ asked < minute * Minute + Minute
    <3>1. CASE s = r
      <4>1. request'[s] = new
        BY <1>1, <1>6, <3>1
      <4> QED
        BY <1>1, <1>2, <1>4, <1>5, <1>8, <4>1
    <3>2. CASE s # r
      <4>1. request'[s] = request[s]
        BY <1>1, <1>6, <3>2
      <4> QED
        BY <1>1, <2>1, <4>1 DEF MintInv, ChargesInTime
    <3> QED
      BY <3>1, <3>2
  <2> QED
    BY <2>1 DEF ChargesInTime
<1> QED
  BY <1>1, <1>9, SameCounters DEF MintInv

LEMMA MintCharge ==
    ASSUME IInv, MintInv, MaxDelay + MaxSkew <= Minute, NEW r \in Request, Charge(r)
    PROVE  MintInv'
<1> DEFINE w == request[r].window
<1> DEFINE signing == [request[r] EXCEPT !.state = "signing", !.asked = 0]
<1>1. /\ request[r].state = "charging" /\ UNCHANGED now
      /\ \/ Charged(w) >= MintLimit /\ request' = [request EXCEPT ![r] = Ended] /\ UNCHANGED <<rate, minted>>
         \/ /\ ~(Charged(w) >= MintLimit)
            /\ rate' = [rate EXCEPT ![w] = [count |-> Charged(w) + 1, until |-> now + 2 * Minute]]
            /\ minted' = [minted EXCEPT ![w] = @ + 1]
            /\ request' = [request EXCEPT ![r] = signing]
  BY DEF Charge, clocks
<1>2. /\ now \in Nat /\ MaxSkew \in Nat /\ MaxDelay \in Nat /\ Minute \in Nat /\ MintLimit \in Nat
      /\ rate \in [Window -> [count : Nat, until : Nat]] /\ minted \in [Window -> Nat]
      /\ request = [s \in Request |-> request[s]]
  BY AccessAssumption DEF IInv, TypeOK
<1> DEFINE minute == request[r].window[2]
<1> DEFINE asked == request[r].asked
<1>3. /\ minute \in Nat /\ asked \in Nat /\ asked <= now /\ now <= asked + MaxDelay
      /\ minute * Minute <= asked + MaxSkew /\ asked < minute * Minute + Minute
  BY <1>1 DEF MintInv, ChargesInTime
<1>4. minute * Minute \in Nat
  BY <1>2, <1>3
<1>5. ChargesInTime'
  <2>1. PICK new : request' = [request EXCEPT ![r] = new] /\ new \in {Ended, signing}
    BY <1>1
  <2>2. new.state # "charging"
    <3>1. DOMAIN request[r] = DOMAIN request[r] /\ Ended.state = "ended"
      BY DEF Ended
    <3>2. signing.state = "signing"
      OBVIOUS
    <3> QED
      BY <2>1, <3>1, <3>2
  <2>3. \A s \in Request : request'[s].state = "charging" => request'[s] = request[s]
    BY <1>2, <2>1, <2>2
  <2> QED
    BY <1>1, <2>3 DEF MintInv, ChargesInTime
<1>6. CASE UNCHANGED <<rate, minted>>
  BY <1>5, <1>6, SameCounters DEF MintInv
<1>7. ASSUME NEW v \in Window,
             /\ ~(Charged(w) >= MintLimit)
             /\ rate' = [rate EXCEPT ![w] = [count |-> Charged(w) + 1, until |-> now + 2 * Minute]]
             /\ minted' = [minted EXCEPT ![w] = @ + 1]
      PROVE  /\ rate'[v].count = minted'[v]
             /\ minted'[v] # 0 => v[2] * Minute + 2 * Minute <= rate'[v].until + MaxSkew
             /\ MintLimit > 0 => minted'[v] <= MintLimit
  <2>1. CASE v # w
    <3>1. rate'[v] = rate[v] /\ minted'[v] = minted[v]
      BY <1>2, <1>7, <2>1
    <3> QED
      BY <3>1 DEF MintInv, CountersKept, WithinMintLimit
  <2>2. CASE v = w
    <3>1. /\ rate'[v] = [count |-> Charged(w) + 1, until |-> now + 2 * Minute]
          /\ minted'[v] = minted[w] + 1 /\ w \in Window /\ w[2] = minute
      BY <1>2, <1>7, <2>2
    <3>2. /\ rate[w].count = minted[w] /\ rate[w].count \in Nat /\ rate[w].until \in Nat
          /\ minted[w] # 0 => minute * Minute + 2 * Minute <= rate[w].until + MaxSkew
      BY <1>2, <3>1 DEF MintInv, CountersKept
    <3> HIDE DEF w, minute, asked
    <3>3. Charged(w) = minted[w]
      <4>1. CASE minted[w] = 0
        BY <3>2, <4>1 DEF Charged
      <4>2. CASE minted[w] # 0
        <5> DEFINE p == minute * Minute
        <5>1. p \in Nat /\ p + 2 * Minute <= rate[w].until + MaxSkew /\ asked < p + Minute
          BY <1>3, <1>4, <3>2, <4>2
        <5> HIDE DEF p
        <5>2. rate[w].until > now
          BY <1>2, <1>3, <3>2, <5>1
        <5> QED
          BY <3>2, <5>2 DEF Charged
      <4> QED
        BY <4>1, <4>2
    <3>4. minute * Minute + 2 * Minute <= now + 2 * Minute + MaxSkew
      <4> DEFINE p == minute * Minute
      <4>1. p \in Nat /\ p <= asked + MaxSkew /\ asked <= now
        BY <1>3, <1>4
      <4> HIDE DEF p
      <4>2. p + 2 * Minute <= now + 2 * Minute + MaxSkew
        BY <1>2, <1>3, <4>1
      <4> QED
        BY <4>2 DEF p
    <3> QED
      BY <1>2, <1>7, <2>2, <3>1, <3>2, <3>3, <3>4 DEF w, minute
  <2> QED
    BY <2>1, <2>2
<1>8. CASE /\ ~(Charged(w) >= MintLimit)
           /\ rate' = [rate EXCEPT ![w] = [count |-> Charged(w) + 1, until |-> now + 2 * Minute]]
           /\ minted' = [minted EXCEPT ![w] = @ + 1]
  <2>1. CountersKept' /\ WithinMintLimit'
    BY <1>7, <1>8 DEF CountersKept, WithinMintLimit
  <2> QED
    BY <1>5, <2>1 DEF MintInv
<1> QED
  BY <1>1, <1>6, <1>8

(* Time waits for a script that must have arrived.                          *)
LEMMA MintTick == ASSUME IInv, MintInv, Tick PROVE MintInv'
<1>1. /\ now' = now + 1 /\ now \in Nat /\ MaxDelay \in Nat
      /\ \A r \in Request : request[r].state = "charging" => now < request[r].asked + MaxDelay
      /\ UNCHANGED <<request, rate, minted>>
  BY AccessAssumption DEF Tick, IInv, TypeOK
<1>2. ASSUME NEW r \in Request, request[r].state = "charging"
      PROVE  request[r].asked \in 0 .. now' /\ now' <= request[r].asked + MaxDelay
  <2>1. request[r].asked \in 0 .. now /\ now < request[r].asked + MaxDelay
    BY <1>1, <1>2 DEF MintInv, ChargesInTime
  <2> QED
    BY <1>1, <2>1
<1>3. ChargesInTime'
  BY <1>1, <1>2 DEF MintInv, ChargesInTime
<1> QED
  BY <1>1, <1>3, SameCounters DEF MintInv

(* Steps after which no other request is on its way to the script.          *)
LEMMA MintOther ==
    ASSUME MintInv, UNCHANGED <<now, rate, minted>>,
           \A r \in Request : request'[r].state = "charging" => request'[r] = request[r]
    PROVE  MintInv'
<1>1. ChargesInTime'
  BY DEF MintInv, ChargesInTime
<1> QED
  BY <1>1, SameCounters DEF MintInv

(* With scripts that arrive, by any clock, within a minute of the one they
   charge, no more tokens than the limit are minted for a tenant and minute. *)
THEOREM MintLimitTheorem ==
    ASSUME MaxDelay + MaxSkew <= Minute PROVE Spec => []WithinMintLimit
<1>1. Init => MintInv
  BY MintInit
<1>2. IInv /\ MintInv /\ [Next]_vars => MintInv'
  <2> SUFFICES ASSUME IInv, MintInv, [Next]_vars PROVE MintInv'
    OBVIOUS
  <2>1. CASE Tick
    BY <2>1, MintTick
  <2>2. CASE \E r \in Request, b \in Backend, k \in Key \cup {NoKey}, c \in Channel,
                t \in Tenant \cup {NotSupplied} : Ask(r, b, k, c, t)
    BY <2>2, MintAsk
  <2>3. CASE \E r \in Request : Charge(r)
    BY <2>3, MintCharge
  <2>4. ASSUME NEW r \in Request, Sign(r) PROVE MintInv'
    <3>1. request' = [request EXCEPT ![r] = Ended] /\ UNCHANGED <<now, rate, minted>>
      BY <2>4 DEF Sign, clocks
    <3>2. request = [s \in Request |-> request[s]]
      BY DEF IInv, TypeOK
    <3>3. \A s \in Request : request'[s].state = "charging" => request'[s] = request[s]
      BY <3>1, <3>2 DEF Ended
    <3> QED
      BY <3>1, <3>3, MintOther
  <2>5. ASSUME NEW b \in Backend, Deploy(b) PROVE MintInv'
    <3>1. UNCHANGED <<now, rate, minted>>
      BY <2>5 DEF Deploy, clocks
    <3>2. \A s \in Request : request'[s].state = "charging" => request'[s] = request[s]
      BY <2>5 DEF Deploy, Ended
    <3> QED
      BY <3>1, <3>2, MintOther
  <2>6. CASE Rotate \/ RetirePrevious \/ EmergencyRevoke \/ \E k \in Key : RemoveKey(k)
    <3>1. UNCHANGED <<now, rate, minted, request>>
      BY <2>6 DEF Rotate, RetirePrevious, EmergencyRevoke, RemoveKey, Rollout, clocks
    <3> QED
      BY <3>1, MintOther
  <2>7. CASE UNCHANGED vars
    <3>1. UNCHANGED <<now, rate, minted, request>>
      BY <2>7 DEF vars, clocks
    <3> QED
      BY <3>1, MintOther
  <2> QED
    BY <2>1, <2>2, <2>3, <2>4, <2>5, <2>6, <2>7 DEF Next
<1>3. MintInv => WithinMintLimit
  BY DEF MintInv
<1> QED
  BY <1>1, <1>2, <1>3, Invariant, PTL DEF Spec
=============================================================================

------------------------- MODULE IngestIdempotency -------------------------
(***************************************************************************)
(* POST /ingest (backend/src/routes/ingest.ts): concurrent handlers, on     *)
(* any number of replicas, that share the Redis idempotency records         *)
(* "idem:ingest:<tenant>:<key>", the per-second rate bucket and the tile    *)
(* streams.  Every await of the handler is a point where other handlers     *)
(* run, so each Redis call is an action of its own.                         *)
(*                                                                         *)
(* Key stands for a <tenant, idempotency key> pair, Payload for a body and  *)
(* its hash.  Writing the batch is one pipeline whose events are not told   *)
(* apart: written[r] says whether none, some or all of them reached Redis,  *)
(* not how often (ioredis may send the pipeline again).                     *)
(*                                                                         *)
(* The client (redis.ts:5, maxRetriesPerRequest null) sends a command again *)
(* after a reconnect when its answer was lost, so that Redis executes it    *)
(* twice, with steps of other handlers between.                             *)
(***************************************************************************)
EXTENDS Integers, FiniteSets

CONSTANTS
    Request,              \* handler invocations, retries included
    Key,                  \* tenant-scoped idempotency keys
    NoKey,                \* the header is absent
    Payload,              \* request bodies, identified by their hash
    NoRecord,             \* GET of the idempotency key returns nil
    MaxSize,              \* INGEST_MAX_EVENTS_PER_REQUEST
    Size,                 \* valid events of each body
    RateLimit,            \* INGEST_RATE_LIMIT_EVENTS_PER_SEC, 0 is unlimited
    MaxFaults             \* bound: Redis errors, lost replies and crashes

ASSUME KeyAssumption == NoKey \notin Key
ASSUME SizeAssumption == MaxSize \in Nat /\ Size \in [Payload -> 1 .. MaxSize]
ASSUME BoundAssumption ==
    /\ RateLimit \in Nat /\ MaxFaults \in Nat
ASSUME RecordAssumption ==
    NoRecord \notin [state : {"pending", "completed"}, payload : Payload,
                     accepted : Nat, owner : Request]

VARIABLES
    pc,         \* where each handler is
    req,        \* its key and payload
    kept,       \* events left after pressure shedding: accepted.length
    written,    \* how much of its batch the tile streams hold
    out,        \* its response
    idem,       \* Redis: the idempotency records
    used,       \* Redis: the current second's rate bucket
    faults,     \* faults so far
    orphaned,   \* history: handlers that could not settle their reservation
    forgotten,  \* history: keys whose completed record expired
    deleted,    \* history: handlers whose DEL was executed and is sent again
    void        \* history: keys whose record was taken from another handler,
                \* by its TTL running out or by a DEL that was sent again

histories == <<orphaned, forgotten, deleted, void>>
vars == <<pc, req, kept, written, out, idem, used, faults, histories>>

Working == {"limit", "write", "complete", "respond"}
Holding == Working \union {"deny", "fail"}
Running == Holding \union {"reserve", "lookup"}

Record == [state : {"pending", "completed"}, payload : Payload,
           accepted : Nat, owner : Request]
Response == [kind : {"none", "accepted", "replay", "in_progress", "conflict",
                     "limited", "error"}, accepted : Nat]

NoReply == [kind |-> "none", accepted |-> 0]
Answer(kind) == [kind |-> kind, accepted |-> 0]

Init ==
    /\ pc = [r \in Request |-> "idle"]
    /\ req \in [Request -> [key : Key \union {NoKey}, payload : Payload]]
    /\ kept = [r \in Request |-> 0]
    /\ written = [r \in Request |-> "none"]
    /\ out = [r \in Request |-> NoReply]
    /\ idem = [k \in Key |-> NoRecord]
    /\ used = 0
    /\ faults = 0
    /\ orphaned = {} /\ forgotten = {} /\ deleted = {} /\ void = {}

-----------------------------------------------------------------------------
\* The handler's steps.

Goto(r, label) == pc' = [pc EXCEPT ![r] = label]
Reply(r, response) ==
    /\ out' = [out EXCEPT ![r] = response]
    /\ Goto(r, "done")
Fault == faults < MaxFaults /\ faults' = faults + 1

\* A body that validates is received; pressure shedding keeps a prefix of it,
\* never none of it.
Receive(r) ==
    /\ pc[r] = "idle"
    /\ \E n \in 1 .. Size[req[r].payload] : kept' = [kept EXCEPT ![r] = n]
    /\ Goto(r, IF req[r].key = NoKey THEN "limit" ELSE "reserve")
    /\ UNCHANGED <<req, written, out, idem, used, faults, histories>>

PendingRecord(r) == [state |-> "pending", payload |-> req[r].payload,
                     accepted |-> 0, owner |-> r]

\* SET key pending EX ttl NX.
Reserve(r) ==
    /\ pc[r] = "reserve"
    /\ LET k == req[r].key IN
         IF idem[k] = NoRecord
         THEN /\ idem' = [idem EXCEPT ![k] = PendingRecord(r)]
              /\ Goto(r, "limit")
         ELSE /\ Goto(r, "lookup")
              /\ UNCHANGED idem
    /\ UNCHANGED <<req, kept, written, out, used, faults, histories>>

\* Variant with a bug: the payload hash is not compared.
AnswerForAnyPayload(r, record) ==
    IF record # NoRecord /\ record.state = "completed"
    THEN [kind |-> "replay", accepted |-> record.accepted]
    ELSE Answer("in_progress")

\* What the handler answers on finding another record; it may have vanished
\* since the SET NX.
AnswerFor(r, record) ==
    IF record # NoRecord /\ record.payload # req[r].payload
    THEN Answer("conflict")
    ELSE IF record # NoRecord /\ record.state = "completed"
         THEN [kind |-> "replay", accepted |-> record.accepted]
         ELSE Answer("in_progress")

\* Variant with a bug: a retry that meets its own payload pending goes on.
LookupGoesOn(r) ==
    /\ pc[r] = "lookup"
    /\ IF idem[req[r].key] # NoRecord /\ idem[req[r].key].state = "pending"
          /\ idem[req[r].key].payload = req[r].payload
       THEN Goto(r, "limit") /\ UNCHANGED out
       ELSE Reply(r, AnswerFor(r, idem[req[r].key]))
    /\ UNCHANGED <<req, kept, written, idem, used, faults, histories>>

\* Variant with a bug: no answer when the record vanished since the SET NX.
LookupIgnoresVanished(r) ==
    /\ pc[r] = "lookup"
    /\ idem[req[r].key] # NoRecord
    /\ Reply(r, AnswerFor(r, idem[req[r].key]))
    /\ UNCHANGED <<req, kept, written, idem, used, faults, histories>>

\* GET key.
LookupExisting(r) ==
    /\ pc[r] = "lookup"
    /\ Reply(r, AnswerFor(r, idem[req[r].key]))
    /\ UNCHANGED <<req, kept, written, idem, used, faults, histories>>

\* The rate script charges the whole batch to the bucket of its second, which
\* is the one of the last call or a new, empty one.
Charge(r) ==
    \E bucket \in {used, 0} :
        /\ RateLimit > 0 /\ bucket + kept[r] <= RateLimit
        /\ used' = bucket + kept[r]

\* checkIngestRateLimit: without a limit nothing is asked; with one the batch
\* is charged whole or rejected whole.
CheckRateLimit(r) ==
    /\ pc[r] = "limit"
    /\ \/ RateLimit = 0 /\ Goto(r, "write") /\ UNCHANGED used
       \/ Charge(r) /\ Goto(r, "write")
       \/ /\ RateLimit > 0 /\ used + kept[r] > RateLimit
          /\ Goto(r, "deny")
          /\ UNCHANGED used
    /\ UNCHANGED <<req, kept, written, out, idem, faults, histories>>

\* The XADD pipeline succeeds; without a key the answer follows at once.
ExecPipeline(r) ==
    /\ pc[r] = "write"
    /\ written' = [written EXCEPT ![r] = "all"]
    /\ IF req[r].key = NoKey
       THEN Reply(r, [kind |-> "accepted", accepted |-> kept[r]])
       ELSE Goto(r, "complete") /\ UNCHANGED out
    /\ UNCHANGED <<req, kept, idem, used, faults, histories>>

\* Variant with a bug: the count before pressure shedding is stored.
CompletedBeforeShedding(r) == [state |-> "completed", payload |-> req[r].payload,
                               accepted |-> Size[req[r].payload], owner |-> r]

CompletedRecord(r) == [state |-> "completed", payload |-> req[r].payload,
                       accepted |-> kept[r], owner |-> r]

\* SET key completed EX ttl: unconditional, whatever the key holds by now.
SaveCompleted(r) ==
    /\ pc[r] = "complete"
    /\ idem' = [idem EXCEPT ![req[r].key] = CompletedRecord(r)]
    /\ Goto(r, "respond")
    /\ UNCHANGED <<req, kept, written, out, used, faults, histories>>

\* The answer, which other handlers may have replayed by now.
Respond(r) ==
    /\ pc[r] = "respond"
    /\ Reply(r, [kind |-> "accepted", accepted |-> kept[r]])
    /\ UNCHANGED <<req, kept, written, idem, used, faults, histories>>

\* DEL key, whoever owns it by now.  Only a DEL that is executed for the second
\* time voids the key when it takes the record of another handler.
Delete(r) ==
    LET k == req[r].key
    IN  /\ idem' = IF k = NoKey THEN idem ELSE [idem EXCEPT ![k] = NoRecord]
        /\ void' = IF /\ k # NoKey /\ r \in deleted
                      /\ idem[k] # NoRecord /\ idem[k].owner # r
                   THEN void \union {k} ELSE void

\* Variant with a bug: the 429 forgets to DEL.
ReleaseNotOn429(r) ==
    /\ pc[r] \in {"deny", "fail"}
    /\ IF pc[r] = "deny" THEN UNCHANGED <<idem, void>> ELSE Delete(r)
    /\ Reply(r, Answer(IF pc[r] = "deny" THEN "limited" ELSE "error"))
    /\ UNCHANGED <<req, kept, written, used, faults, orphaned, forgotten, deleted>>

\* The 429 and the catch path: DEL key, then the answer.
ReleaseReservation(r) ==
    /\ pc[r] \in {"deny", "fail"}
    /\ Delete(r)
    /\ Reply(r, Answer(IF pc[r] = "deny" THEN "limited" ELSE "error"))
    /\ UNCHANGED <<req, kept, written, used, faults, orphaned, forgotten, deleted>>

-----------------------------------------------------------------------------
\* What goes wrong.

\* SET NX or GET throws: nothing was reserved, the error goes to the client.
ReadFails(r) ==
    /\ Fault
    /\ pc[r] \in {"reserve", "lookup"}
    /\ Reply(r, Answer("error"))
    /\ UNCHANGED <<req, kept, written, idem, used, histories>>

\* The rate script or SET completed throws: on to the DEL.
CallFails(r) ==
    /\ Fault
    /\ pc[r] \in {"limit", "complete"}
    /\ Goto(r, "fail")
    /\ UNCHANGED <<req, kept, written, out, idem, used, histories>>

\* exec() rejects or reports failed commands: any part of the batch may have
\* been written, all of it too when only the reply was lost.
PipelineFails(r) ==
    /\ Fault
    /\ pc[r] = "write"
    /\ \E w \in {"none", "part", "all"} : written' = [written EXCEPT ![r] = w]
    /\ Goto(r, "fail")
    /\ UNCHANGED <<req, kept, out, idem, used, histories>>

\* The DEL itself throws: the reservation stays behind.
ReleaseFails(r) ==
    /\ Fault
    /\ pc[r] \in {"deny", "fail"} /\ req[r].key # NoKey
    /\ orphaned' = orphaned \union {r}
    /\ Reply(r, Answer("error"))
    /\ UNCHANGED <<req, kept, written, idem, used, forgotten, deleted, void>>

\* The reply to a successful SET NX is lost and the command sent again: the
\* handler meets its own reservation.
ReserveReplyLost(r) ==
    /\ Fault
    /\ pc[r] = "reserve" /\ idem[req[r].key] = NoRecord
    /\ idem' = [idem EXCEPT ![req[r].key] = PendingRecord(r)]
    /\ orphaned' = orphaned \union {r}
    /\ Goto(r, "lookup")
    /\ UNCHANGED <<req, kept, written, out, used, forgotten, deleted, void>>

\* The rate script charges, its reply is lost, and it will charge again.
ChargeReplyLost(r) ==
    /\ Fault
    /\ pc[r] = "limit"
    /\ Charge(r)
    /\ UNCHANGED <<pc, req, kept, written, out, idem, histories>>

\* SET completed is executed, its reply is lost, and it will be executed again.
SaveReplyLost(r) ==
    /\ Fault
    /\ pc[r] = "complete"
    /\ idem' = [idem EXCEPT ![req[r].key] = CompletedRecord(r)]
    /\ UNCHANGED <<pc, req, kept, written, out, used, histories>>

\* The DEL is executed, its reply is lost, and it will be executed again: by
\* then the key may hold the record of another handler.
ReleaseReplyLost(r) ==
    /\ Fault
    /\ pc[r] \in {"deny", "fail"} /\ req[r].key # NoKey
    /\ Delete(r) /\ deleted' = deleted \union {r}
    /\ UNCHANGED <<pc, req, kept, written, out, used, orphaned, forgotten>>

\* The process dies; a pipeline on its way may still be applied in part, and a
\* DEL on its way be executed.  (A SET that was executed is a crash after it.)
Crash(r) ==
    /\ Fault
    /\ pc[r] \in Running
    /\ \E w \in IF pc[r] = "write" THEN {"none", "part", "all"} ELSE {written[r]} :
          written' = [written EXCEPT ![r] = w]
    /\ \/ UNCHANGED <<idem, void>>
       \/ pc[r] \in {"deny", "fail"} /\ Delete(r)
    /\ orphaned' = orphaned \union {r}
    /\ Goto(r, "crashed")
    /\ UNCHANGED <<req, kept, out, used, forgotten, deleted>>

\* INGEST_IDEMPOTENCY_TTL_SEC runs out; nothing keeps it from doing so while
\* the record's handler still waits for Redis.
Expire(k) ==
    /\ idem[k] # NoRecord
    /\ idem' = [idem EXCEPT ![k] = NoRecord]
    /\ forgotten' = IF idem[k].state = "completed" THEN forgotten \union {k}
                                                   ELSE forgotten
    /\ void' = IF pc[idem[k].owner] \in Holding THEN void \union {k} ELSE void
    /\ UNCHANGED <<pc, req, kept, written, out, used, faults, orphaned, deleted>>

HandlerStep(r) ==
    \/ Receive(r) \/ Reserve(r) \/ LookupExisting(r) \/ CheckRateLimit(r)
    \/ ExecPipeline(r) \/ SaveCompleted(r) \/ Respond(r) \/ ReleaseReservation(r)

FaultStep(r) ==
    \/ ReadFails(r) \/ CallFails(r) \/ PipelineFails(r) \/ ReleaseFails(r)
    \/ ReserveReplyLost(r) \/ ChargeReplyLost(r) \/ SaveReplyLost(r)
    \/ ReleaseReplyLost(r) \/ Crash(r)

Next ==
    \/ \E r \in Request : HandlerStep(r) \/ FaultStep(r)
    \/ \E k \in Key : Expire(k)

Spec == Init /\ [][Next]_vars

\* Node runs every continuation whose promise settles, and Redis answers.
Fairness == \A r \in Request : WF_vars(HandlerStep(r))

-----------------------------------------------------------------------------
\* Properties.

TypeOK ==
    /\ pc \in [Request -> Running \union {"idle", "done", "crashed"}]
    /\ req \in [Request -> [key : Key \union {NoKey}, payload : Payload]]
    /\ kept \in [Request -> Nat]
    /\ written \in [Request -> {"none", "part", "all"}]
    /\ out \in [Request -> Response]
    /\ idem \in [Key -> Record \union {NoRecord}]
    /\ used \in Nat /\ faults \in Nat
    /\ orphaned \subseteq Request /\ deleted \subseteq Request
    /\ forgotten \subseteq Key /\ void \subseteq Key

\* A replayed response repeats what some request with the same key and the
\* same payload really did: all of its events are in the streams and the
\* accepted count is its own, shedding included.  Holds even for keys whose
\* record was taken from a running handler.
ReplayFaithful ==
    \A r \in Request : out[r].kind = "replay" =>
        \E q \in Request : /\ q # r
                           /\ req[q].key = req[r].key
                           /\ req[q].payload = req[r].payload
                           /\ written[q] = "all"
                           /\ kept[q] = out[r].accepted

\* While a handler works under a key, between its SET NX and its answer or DEL,
\* the record of that key is its own; so two handlers never write under one
\* key at the same time, unless the record was taken from one of them.
ExclusiveReservation ==
    \A r \in Request : pc[r] \in Working /\ req[r].key \in Key \ void =>
        /\ idem[req[r].key] # NoRecord
        /\ idem[req[r].key].owner = r
        /\ pc[r] \in {"limit", "write"} => idem[req[r].key].state = "pending"

\* Two requests with one key are both told "accepted" only after the record
\* of the first has expired, or after the record was taken from a running
\* handler: by its TTL, or by another handler's DEL executed a second time.
\* Redis errors, crashes and every other lost reply do not bring it about.
AcceptedOnce ==
    \A q, r \in Request :
        /\ q # r
        /\ req[q].key = req[r].key /\ req[r].key # NoKey
        /\ out[q].kind = "accepted" /\ out[r].kind = "accepted"
        => req[r].key \in forgotten \union void

\* A pending record has a handler that will settle it, unless that handler
\* crashed, lost its reply or failed to DEL: no return path of the handler
\* leaves its reservation behind.
NoLeakedReservation ==
    \A k \in Key : idem[k] # NoRecord /\ idem[k].state = "pending" =>
        \/ pc[idem[k].owner] \in Holding
        \/ idem[k].owner \in orphaned

\* A completed record whose handler is past its SET changes only by expiring:
\* no late SET reaches it, and no DEL but one executed a second time.
CompletedIsFinal ==
    [][\A k \in Key :
          /\ idem[k] # NoRecord /\ idem[k].state = "completed"
          /\ pc[idem[k].owner] \in {"respond", "done", "crashed"}
          => \/ idem'[k] = idem[k]
             \/ idem'[k] = NoRecord /\ k \in forgotten'
             \/ k \in void']_vars

\* Without faults, every request that was received is answered, also when
\* records expire between its calls.
Answered == \A r \in Request : pc[r] \in Running ~> pc[r] \in {"done", "crashed"}

-----------------------------------------------------------------------------
\* The contract of one key, and how the handlers implement it.

\* A record as the contract sees it: whose it is does not matter.
SlotOf(record) ==
    IF record = NoRecord THEN [state |-> "free"]
    ELSE IF record.state = "pending"
         THEN [state |-> "pending", payload |-> record.payload]
         ELSE [state |-> "completed", payload |-> record.payload,
               accepted |-> record.accepted]

\* The keyed requests that were told their events are in, first or again.
Told == {r \in Request : req[r].key # NoKey /\ out[r].kind \in {"accepted", "replay"}}
AnswerOf(r) == [key |-> req[r].key, payload |-> req[r].payload,
                accepted |-> out[r].accepted]

Slots == [k \in Key |-> IF k \in void THEN [state |-> "void"] ELSE SlotOf(idem[k])]
Answers == {AnswerOf(r) : r \in Told}

Contract == INSTANCE IdempotencyContract WITH slot <- Slots, answers <- Answers

\* The handlers implement the contract: as long as no record is taken from a
\* running handler, every acceptance a client is told, first or again, is the
\* settled one of its key, in whatever order crashes, failures and repeated
\* commands come.
ImplementsContract == Contract!Spec

\* docs/CUSTOMER_INTEGRATION_QUICKSTART.md:89: "Reusing the same key with a
\* different payload is rejected."  No key has events of two payloads in the
\* streams, records that expired aside.
ReusedKeyRejected ==
    \A q, r \in Request :
        /\ req[q].key = req[r].key /\ req[r].key # NoKey
        /\ req[q].payload # req[r].payload
        /\ written[q] # "none" /\ written[r] # "none"
        /\ pc[q] = "done" /\ pc[r] = "done"
        => req[r].key \in forgotten \union void

-----------------------------------------------------------------------------
\* The inductive invariant behind the safety properties.

\* What each place in the handler implies about its request.
HandlerInv ==
    \A r \in Request :
        /\ pc[r] \in {"reserve", "lookup", "complete", "respond"} => req[r].key \in Key
        /\ pc[r] # "idle" => kept[r] \in 1 .. MaxSize
        /\ pc[r] \in {"complete", "respond"} => written[r] = "all"
        /\ written[r] = "all" => pc[r] \in {"complete", "respond", "fail", "done", "crashed"}
        /\ out[r].kind # "none" => pc[r] = "done"
        /\ r \in deleted => pc[r] \in {"deny", "fail", "done", "crashed"}

\* What each record implies about the handler that wrote it.
RecordInv ==
    \A k \in Key : idem[k] # NoRecord =>
        /\ req[idem[k].owner].key = k
        /\ req[idem[k].owner].payload = idem[k].payload
        /\ idem[k].state = "pending" => pc[idem[k].owner] # "respond"
        /\ idem[k].state = "completed" =>
              /\ written[idem[k].owner] = "all"
              /\ kept[idem[k].owner] = idem[k].accepted

\* A handler on its way to its first DEL still owns the record it deletes, and
\* an accepted request its completed one until that expires.
OwnerInv ==
    \A r \in Request : req[r].key \in Key \ void =>
        /\ pc[r] \in {"deny", "fail"} /\ r \notin deleted =>
              idem[req[r].key] # NoRecord /\ idem[req[r].key].owner = r
        /\ pc[r] = "respond" \/ out[r].kind = "accepted" =>
              \/ req[r].key \in forgotten
              \/ /\ idem[req[r].key] # NoRecord
                 /\ idem[req[r].key].state = "completed"
                 /\ idem[req[r].key].owner = r

\* The safety properties hold because all of this does.
IInv ==
    /\ TypeOK /\ HandlerInv /\ RecordInv /\ ExclusiveReservation
    /\ NoLeakedReservation /\ OwnerInv /\ ReplayFaithful
=============================================================================

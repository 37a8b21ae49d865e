---------------------- MODULE IngestIdempotencyProofs ----------------------
(***************************************************************************)
(* Proofs about IngestIdempotency, for any number of requests, keys and     *)
(* payloads, any limits and any number of faults.                           *)
(***************************************************************************)
EXTENDS IngestIdempotency, TLAPS

\* A DEL touches the record of its own key alone; the second one voids the key
\* when it takes another handler's record.
LEMMA DeleteFacts ==
  ASSUME TypeOK, NEW r \in Request, Delete(r)
  PROVE  /\ idem' \in [Key -> Record \union {NoRecord}]
         /\ \A k \in Key : idem'[k] = IF k = req[r].key THEN NoRecord ELSE idem[k]
         /\ void \subseteq void' /\ void' \subseteq Key
         /\ void' # void => req[r].key \in Key /\ void' = void \union {req[r].key}
         /\ \A k \in Key : k = req[r].key /\ r \in deleted
                             /\ idem[k] # NoRecord /\ idem[k].owner # r => k \in void'
<1> USE KeyAssumption DEF TypeOK, Delete
<1>1. CASE req[r].key = NoKey
  BY <1>1
<1>2. CASE req[r].key # NoKey
  BY <1>2
<1> QED BY <1>1, <1>2

\* Every variable keeps its type; a handler that reads or writes a record has
\* a key, so no record is looked up under NoKey.
LEMMA TypeStep == TypeOK /\ HandlerInv /\ [Next]_vars => TypeOK'
<1> SUFFICES ASSUME TypeOK, HandlerInv, [Next]_vars PROVE TypeOK'
  OBVIOUS
<1> USE KeyAssumption, SizeAssumption, BoundAssumption DEF TypeOK, Running, Holding, Working, Response, histories
<1>1. ASSUME NEW r \in Request, HandlerStep(r) PROVE TypeOK'
  <2>1. CASE Receive(r)
    BY <2>1 DEF Receive, Goto
  <2>2. CASE Reserve(r)
    <3>1. req[r].key \in Key
      BY <2>2 DEF Reserve, HandlerInv
    <3>2. PendingRecord(r) \in Record
      BY DEF PendingRecord, Record
    <3>3. CASE idem[req[r].key] = NoRecord
      <4>1. idem' = [idem EXCEPT ![req[r].key] = PendingRecord(r)]
        BY <2>2, <3>3 DEF Reserve
      <4>2. idem' \in [Key -> Record \union {NoRecord}]
        BY <3>2, <4>1
      <4> QED BY <2>2, <3>3, <4>2 DEF Reserve, Goto
    <3>4. CASE idem[req[r].key] # NoRecord
      BY <2>2, <3>1, <3>4 DEF Reserve, Goto
    <3> QED BY <3>3, <3>4
  <2>3. CASE LookupExisting(r)
    <3>1. req[r].key \in Key
      BY <2>3 DEF LookupExisting, HandlerInv
    <3>2. AnswerFor(r, idem[req[r].key]) \in Response
      BY <3>1, RecordAssumption DEF AnswerFor, Answer, Record
    <3> QED BY <2>3, <3>1, <3>2 DEF LookupExisting, Reply, Goto
  <2>4. CASE CheckRateLimit(r)
    BY <2>4 DEF CheckRateLimit, Charge, Goto
  <2>5. CASE ExecPipeline(r)
    <3>1. /\ written' \in [Request -> {"none", "part", "all"}]
          /\ UNCHANGED <<req, kept, idem, used, faults, histories>>
      BY <2>5 DEF ExecPipeline
    <3>2. CASE req[r].key = NoKey
      <4>1. /\ out' = [out EXCEPT ![r] = [kind |-> "accepted", accepted |-> kept[r]]]
            /\ pc' = [pc EXCEPT ![r] = "done"]
        BY <2>5, <3>2 DEF ExecPipeline, Reply, Goto
      <4>2. out' \in [Request -> Response]
        BY <4>1
      <4> QED BY <3>1, <4>1, <4>2
    <3>3. CASE req[r].key # NoKey
      BY <2>5, <3>3 DEF ExecPipeline, Goto
    <3> QED BY <3>2, <3>3
  <2>6. CASE SaveCompleted(r)
    BY <2>6 DEF SaveCompleted, Goto, Record, CompletedRecord
  <2>7. CASE ReleaseReservation(r)
    BY <2>7, DeleteFacts DEF ReleaseReservation, Reply, Goto, Answer
  <2>8. CASE Respond(r)
    BY <2>8 DEF Respond, Reply, Goto
  <2> QED BY <1>1, <2>1, <2>2, <2>3, <2>4, <2>5, <2>6, <2>7, <2>8 DEF HandlerStep
<1>2. ASSUME NEW r \in Request, FaultStep(r) PROVE TypeOK'
  <2>1. CASE ReadFails(r)
    BY <2>1 DEF ReadFails, Reply, Goto, Response, Answer, Fault
  <2>2. CASE CallFails(r)
    BY <2>2 DEF CallFails, Goto, Fault
  <2>3. CASE PipelineFails(r)
    BY <2>3 DEF PipelineFails, Goto, Fault
  <2>4. CASE ReleaseFails(r)
    BY <2>4 DEF ReleaseFails, Reply, Goto, Response, Answer, Fault
  <2>5. CASE ReserveReplyLost(r)
    <3>1. req[r].key \in Key
      BY <2>5 DEF ReserveReplyLost, HandlerInv
    <3> QED BY <2>5, <3>1 DEF ReserveReplyLost, Goto, PendingRecord, Record, Fault
  <2>6. CASE Crash(r)
    BY <2>6, DeleteFacts DEF Crash, Goto, Fault
  <2>7. CASE ChargeReplyLost(r)
    BY <2>7 DEF ChargeReplyLost, Charge, Fault
  <2>8. CASE SaveReplyLost(r)
    <3>1. req[r].key \in Key /\ CompletedRecord(r) \in Record
      BY <2>8 DEF SaveReplyLost, HandlerInv, CompletedRecord, Record
    <3> QED BY <2>8, <3>1 DEF SaveReplyLost, Fault
  <2>9. CASE ReleaseReplyLost(r)
    BY <2>9, DeleteFacts DEF ReleaseReplyLost, Fault
  <2> QED BY <1>2, <2>1, <2>2, <2>3, <2>4, <2>5, <2>6, <2>7, <2>8, <2>9 DEF FaultStep
<1>3. ASSUME NEW k \in Key, Expire(k) PROVE TypeOK'
  BY <1>3 DEF Expire
<1>4. CASE UNCHANGED vars
  BY <1>4 DEF vars, histories
<1> QED BY <1>1, <1>2, <1>3, <1>4 DEF Next

\* A handler's place in the code determines what it has done so far.
LEMMA HandlerStepInv == TypeOK /\ HandlerInv /\ [Next]_vars => HandlerInv'
<1> SUFFICES ASSUME TypeOK, HandlerInv, [Next]_vars PROVE HandlerInv'
  OBVIOUS
<1> USE SizeAssumption DEF TypeOK, HandlerInv, Running, Holding, Working, Answer, histories
<1>1. ASSUME NEW r \in Request, HandlerStep(r) PROVE HandlerInv'
  <2>1. CASE Receive(r)
    BY <2>1 DEF Receive, Goto
  <2>2. CASE Reserve(r)
    BY <2>2 DEF Reserve, Goto
  <2>3. CASE LookupExisting(r)
    BY <2>3 DEF LookupExisting, Reply, Goto
  <2>4. CASE CheckRateLimit(r)
    BY <2>4 DEF CheckRateLimit, Goto
  <2>5. CASE ExecPipeline(r)
    BY <2>5 DEF ExecPipeline, Reply, Goto
  <2>6. CASE SaveCompleted(r)
    BY <2>6 DEF SaveCompleted, Goto
  <2>7. CASE ReleaseReservation(r)
    BY <2>7 DEF ReleaseReservation, Reply, Goto
  <2>8. CASE Respond(r)
    BY <2>8 DEF Respond, Reply, Goto
  <2> QED BY <1>1, <2>1, <2>2, <2>3, <2>4, <2>5, <2>6, <2>7, <2>8 DEF HandlerStep
<1>2. ASSUME NEW r \in Request, FaultStep(r) PROVE HandlerInv'
  <2>1. CASE ReadFails(r)
    BY <2>1 DEF ReadFails, Reply, Goto
  <2>2. CASE CallFails(r)
    BY <2>2 DEF CallFails, Goto
  <2>3. CASE PipelineFails(r)
    BY <2>3 DEF PipelineFails, Goto
  <2>4. CASE ReleaseFails(r)
    BY <2>4 DEF ReleaseFails, Reply, Goto
  <2>5. CASE ReserveReplyLost(r)
    BY <2>5 DEF ReserveReplyLost, Goto
  <2>6. CASE Crash(r)
    BY <2>6 DEF Crash, Goto
  <2>7. CASE ChargeReplyLost(r)
    BY <2>7 DEF ChargeReplyLost
  <2>8. CASE SaveReplyLost(r)
    BY <2>8 DEF SaveReplyLost
  <2>9. CASE ReleaseReplyLost(r)
    BY <2>9 DEF ReleaseReplyLost
  <2> QED BY <1>2, <2>1, <2>2, <2>3, <2>4, <2>5, <2>6, <2>7, <2>8, <2>9 DEF FaultStep
<1>3. ASSUME NEW k \in Key, Expire(k) PROVE HandlerInv'
  BY <1>3 DEF Expire
<1>4. CASE UNCHANGED vars
  BY <1>4 DEF vars, histories
<1> QED BY <1>1, <1>2, <1>3, <1>4 DEF Next

\* A record says what its owner asked for and, once completed, what its owner
\* did; later steps of other handlers do not make it untrue.
LEMMA RecordStep == TypeOK /\ HandlerInv /\ RecordInv /\ [Next]_vars => RecordInv'
<1> SUFFICES ASSUME TypeOK, HandlerInv, RecordInv, [Next]_vars PROVE RecordInv'
  OBVIOUS
<1> USE DEF TypeOK, HandlerInv, RecordInv, Running, Holding, Working, Record, histories
<1>1. ASSUME NEW r \in Request, HandlerStep(r) PROVE RecordInv'
  <2>1. CASE Receive(r)
    <3>1. /\ pc[r] = "idle" /\ UNCHANGED <<req, written, out, idem>>
          /\ \E n \in 1 .. Size[req[r].payload] : kept' = [kept EXCEPT ![r] = n]
      BY <2>1 DEF Receive
    <3>2. \A q \in Request : written[q] = "all" => kept'[q] = kept[q]
      BY <3>1
    <3>3. \A k \in Key : idem[k] # NoRecord => idem[k].owner \in Request
      BY DEF TypeOK
    <3>4. \A q \in Request : pc'[q] = "respond" => pc[q] = "respond"
      BY <2>1 DEF Receive, Goto
    <3> QED BY <3>1, <3>2, <3>3, <3>4
  <2>2. CASE Reserve(r)
    BY <2>2 DEF Reserve, Goto, PendingRecord
  <2>3. CASE LookupExisting(r)
    BY <2>3 DEF LookupExisting, Reply, Goto
  <2>4. CASE CheckRateLimit(r)
    BY <2>4 DEF CheckRateLimit, Goto
  <2>5. CASE ExecPipeline(r)
    BY <2>5 DEF ExecPipeline, Reply, Goto
  <2>6. CASE SaveCompleted(r)
    BY <2>6 DEF SaveCompleted, Goto, CompletedRecord
  <2>7. CASE ReleaseReservation(r)
    BY <2>7, DeleteFacts DEF ReleaseReservation, Reply, Goto
  <2>8. CASE Respond(r)
    BY <2>8 DEF Respond, Reply, Goto
  <2> QED BY <1>1, <2>1, <2>2, <2>3, <2>4, <2>5, <2>6, <2>7, <2>8 DEF HandlerStep
<1>2. ASSUME NEW r \in Request, FaultStep(r) PROVE RecordInv'
  <2>1. CASE ReadFails(r)
    BY <2>1 DEF ReadFails, Reply, Goto
  <2>2. CASE CallFails(r)
    BY <2>2 DEF CallFails, Goto
  <2>3. CASE PipelineFails(r)
    BY <2>3 DEF PipelineFails, Goto
  <2>4. CASE ReleaseFails(r)
    BY <2>4 DEF ReleaseFails, Reply, Goto
  <2>5. CASE ReserveReplyLost(r)
    BY <2>5 DEF ReserveReplyLost, Goto, PendingRecord
  <2>6. CASE Crash(r)
    BY <2>6, DeleteFacts DEF Crash, Goto
  <2>7. CASE ChargeReplyLost(r)
    BY <2>7 DEF ChargeReplyLost
  <2>8. CASE SaveReplyLost(r)
    BY <2>8 DEF SaveReplyLost, CompletedRecord
  <2>9. CASE ReleaseReplyLost(r)
    BY <2>9, DeleteFacts DEF ReleaseReplyLost
  <2> QED BY <1>2, <2>1, <2>2, <2>3, <2>4, <2>5, <2>6, <2>7, <2>8, <2>9 DEF FaultStep
<1>3. ASSUME NEW k \in Key, Expire(k) PROVE RecordInv'
  BY <1>3 DEF Expire
<1>4. CASE UNCHANGED vars
  BY <1>4 DEF vars, histories
<1> QED BY <1>1, <1>2, <1>3, <1>4 DEF Next

\* The record of a handler that holds a reservation is its own: only its own
\* SET or DEL could take it away without voiding the key.
LEMMA ExclusiveStep ==
  TypeOK /\ HandlerInv /\ RecordInv /\ OwnerInv /\ ExclusiveReservation
  /\ [Next]_vars
    => ExclusiveReservation'
<1> SUFFICES ASSUME TypeOK, HandlerInv, RecordInv, OwnerInv, ExclusiveReservation,
                    [Next]_vars
             PROVE  ExclusiveReservation'
  OBVIOUS
<1> USE RecordAssumption DEF TypeOK, HandlerInv, RecordInv, ExclusiveReservation,
                             Running, Holding, Working, Record, histories
<1>1. ASSUME NEW r \in Request, HandlerStep(r) PROVE ExclusiveReservation'
  <2>1. CASE Receive(r)
    <3>1. UNCHANGED <<req, idem, void>> /\ pc[r] = "idle"
          /\ pc' = [pc EXCEPT ![r] = IF req[r].key = NoKey THEN "limit" ELSE "reserve"]
      BY <2>1 DEF Receive, Goto
    <3>2. \A q \in Request : pc'[q] \in Working /\ req[q].key \in Key =>
                              pc[q] = pc'[q]
      BY <3>1, KeyAssumption
    <3> QED BY <3>1, <3>2
  <2>2. CASE Reserve(r)
    BY <2>2 DEF Reserve, Goto, PendingRecord
  <2>3. CASE LookupExisting(r)
    BY <2>3 DEF LookupExisting, Reply, Goto
  <2>4. CASE CheckRateLimit(r)
    BY <2>4 DEF CheckRateLimit, Goto
  <2>5. CASE ExecPipeline(r)
    BY <2>5 DEF ExecPipeline, Reply, Goto
  <2>6. CASE SaveCompleted(r)
    BY <2>6 DEF SaveCompleted, Goto, CompletedRecord
  <2>7. CASE ReleaseReservation(r)
    BY <2>7, DeleteFacts DEF ReleaseReservation, Reply, Goto, OwnerInv
  <2>8. CASE Respond(r)
    BY <2>8 DEF Respond, Reply, Goto
  <2> QED BY <1>1, <2>1, <2>2, <2>3, <2>4, <2>5, <2>6, <2>7, <2>8 DEF HandlerStep
<1>2. ASSUME NEW r \in Request, FaultStep(r) PROVE ExclusiveReservation'
  <2>1. CASE ReadFails(r)
    BY <2>1 DEF ReadFails, Reply, Goto
  <2>2. CASE CallFails(r)
    BY <2>2 DEF CallFails, Goto
  <2>3. CASE PipelineFails(r)
    BY <2>3 DEF PipelineFails, Goto
  <2>4. CASE ReleaseFails(r)
    BY <2>4 DEF ReleaseFails, Reply, Goto
  <2>5. CASE ReserveReplyLost(r)
    BY <2>5 DEF ReserveReplyLost, Goto, PendingRecord
  <2>6. CASE Crash(r)
    BY <2>6, DeleteFacts DEF Crash, Goto, OwnerInv
  <2>7. CASE ChargeReplyLost(r)
    BY <2>7 DEF ChargeReplyLost
  <2>8. CASE SaveReplyLost(r)
    BY <2>8 DEF SaveReplyLost, CompletedRecord
  <2>9. CASE ReleaseReplyLost(r)
    BY <2>9, DeleteFacts DEF ReleaseReplyLost, OwnerInv
  <2> QED BY <1>2, <2>1, <2>2, <2>3, <2>4, <2>5, <2>6, <2>7, <2>8, <2>9 DEF FaultStep
<1>3. ASSUME NEW k \in Key, Expire(k) PROVE ExclusiveReservation'
  BY <1>3 DEF Expire
<1>4. CASE UNCHANGED vars
  BY <1>4 DEF vars, histories
<1> QED BY <1>1, <1>2, <1>3, <1>4 DEF Next

\* What a record tells about its owner.
LEMMA OwnerFacts ==
  ASSUME TypeOK, RecordInv, NEW k \in Key, idem[k] # NoRecord
  PROVE  /\ idem[k].owner \in Request
         /\ req[idem[k].owner].key = k
         /\ req[idem[k].owner].payload = idem[k].payload
         /\ idem[k].state \in {"pending", "completed"}
         /\ idem[k].state = "completed" =>
              /\ written[idem[k].owner] = "all"
              /\ kept[idem[k].owner] = idem[k].accepted
<1>1. idem[k] \in Record
  BY DEF TypeOK
<1>2. idem[k].owner \in Request /\ idem[k].state \in {"pending", "completed"}
  BY <1>1 DEF Record
<1>3. /\ req[idem[k].owner].key = k /\ req[idem[k].owner].payload = idem[k].payload
      /\ idem[k].state = "completed" =>
              /\ written[idem[k].owner] = "all"
              /\ kept[idem[k].owner] = idem[k].accepted
  BY DEF RecordInv
<1> QED BY <1>2, <1>3

\* The records of one request are all under its own key.
LEMMA OwnKey ==
  ASSUME TypeOK, RecordInv, NEW r \in Request, NEW k \in Key,
         idem[k] # NoRecord, idem[k].owner = r
  PROVE  req[r].key = k
BY DEF RecordInv

\* A pending record keeps a handler that will settle it, or an excuse.
LEMMA LeakStep ==
  TypeOK /\ HandlerInv /\ RecordInv /\ NoLeakedReservation /\ [Next]_vars
    => NoLeakedReservation'
<1> SUFFICES ASSUME TypeOK, HandlerInv, RecordInv, NoLeakedReservation, [Next]_vars
             PROVE  NoLeakedReservation'
  OBVIOUS
<1> USE OwnKey DEF TypeOK, NoLeakedReservation, Running, Holding, Working, Record, histories
<1>1. ASSUME NEW r \in Request, HandlerStep(r) PROVE NoLeakedReservation'
  <2>1. CASE Receive(r)
    BY <2>1 DEF Receive, Goto
  <2>2. CASE Reserve(r)
    <3>1. pc[r] = "reserve" /\ orphaned' = orphaned
      BY <2>2 DEF Reserve
    <3>2. CASE idem[req[r].key] = NoRecord
      <4>1. pc' = [pc EXCEPT ![r] = "limit"]
            /\ idem' = [idem EXCEPT ![req[r].key] = PendingRecord(r)]
        BY <2>2, <3>2 DEF Reserve, Goto
      <4> QED BY <3>1, <4>1 DEF PendingRecord
    <3>3. CASE idem[req[r].key] # NoRecord
      BY <2>2, <3>1, <3>3 DEF Reserve, Goto
    <3> QED BY <3>2, <3>3
  <2>3. CASE LookupExisting(r)
    BY <2>3 DEF LookupExisting, Reply, Goto
  <2>4. CASE CheckRateLimit(r)
    BY <2>4 DEF CheckRateLimit, Goto
  <2>5. CASE ExecPipeline(r)
    <3>1. CASE req[r].key = NoKey
      BY <2>5, <3>1, KeyAssumption DEF ExecPipeline, Reply, Goto
    <3>2. CASE req[r].key # NoKey
      BY <2>5, <3>2 DEF ExecPipeline, Goto
    <3> QED BY <3>1, <3>2
  <2>6. CASE SaveCompleted(r)
    <3>1. req[r].key \in Key
      BY <2>6 DEF SaveCompleted, HandlerInv
    <3>2. /\ idem'[req[r].key].state = "completed"
          /\ \A k \in Key : k # req[r].key => idem'[k] = idem[k]
      BY <2>6, <3>1 DEF SaveCompleted, CompletedRecord
    <3>3. pc' = [pc EXCEPT ![r] = "respond"] /\ orphaned' = orphaned
      BY <2>6 DEF SaveCompleted, Goto
    <3> QED BY <3>2, <3>3
  <2>7. CASE ReleaseReservation(r)
    <3>1. \A k \in Key : IF k = req[r].key THEN idem'[k] = NoRecord ELSE idem'[k] = idem[k]
      BY <2>7, DeleteFacts DEF ReleaseReservation
    <3>2. pc' = [pc EXCEPT ![r] = "done"] /\ orphaned' = orphaned
      BY <2>7 DEF ReleaseReservation, Reply, Goto
    <3> QED BY <3>1, <3>2
  <2>8. CASE Respond(r)
    BY <2>8 DEF Respond, Reply, Goto, RecordInv
  <2> QED BY <1>1, <2>1, <2>2, <2>3, <2>4, <2>5, <2>6, <2>7, <2>8 DEF HandlerStep
<1>2. ASSUME NEW r \in Request, FaultStep(r) PROVE NoLeakedReservation'
  <2>1. CASE ReadFails(r)
    BY <2>1 DEF ReadFails, Reply, Goto
  <2>2. CASE CallFails(r)
    BY <2>2 DEF CallFails, Goto
  <2>3. CASE PipelineFails(r)
    BY <2>3 DEF PipelineFails, Goto
  <2>4. CASE ReleaseFails(r)
    BY <2>4 DEF ReleaseFails, Reply, Goto
  <2>5. CASE ReserveReplyLost(r)
    BY <2>5 DEF ReserveReplyLost, Goto, PendingRecord
  <2>6. CASE Crash(r)
    BY <2>6, DeleteFacts DEF Crash, Goto
  <2>7. CASE ChargeReplyLost(r)
    BY <2>7 DEF ChargeReplyLost
  <2>8. CASE SaveReplyLost(r)
    BY <2>8 DEF SaveReplyLost, CompletedRecord
  <2>9. CASE ReleaseReplyLost(r)
    BY <2>9, DeleteFacts DEF ReleaseReplyLost
  <2> QED BY <1>2, <2>1, <2>2, <2>3, <2>4, <2>5, <2>6, <2>7, <2>8, <2>9 DEF FaultStep
<1>3. ASSUME NEW k \in Key, Expire(k) PROVE NoLeakedReservation'
  BY <1>3 DEF Expire
<1>4. CASE UNCHANGED vars
  BY <1>4 DEF vars, histories
<1> QED BY <1>1, <1>2, <1>3, <1>4 DEF Next

\* A DEL leaves the record of another handler alone, or voids the key.
LEMMA DeleteSpares ==
  ASSUME TypeOK, OwnerInv, NEW r \in Request, pc[r] \in {"deny", "fail"}, Delete(r),
         NEW k \in Key \ void', idem[k] # NoRecord, idem[k].owner # r
  PROVE  idem'[k] = idem[k]
BY DeleteFacts DEF OwnerInv, TypeOK

\* A save leaves the record of another handler alone, or its key is void.
LEMMA SaveSpares ==
  ASSUME TypeOK, ExclusiveReservation, NEW r \in Request, pc[r] = "complete",
         idem' = [idem EXCEPT ![req[r].key] = CompletedRecord(r)],
         NEW k \in Key \ void, idem[k] # NoRecord, idem[k].owner # r
  PROVE  idem'[k] = idem[k]
BY DEF ExclusiveReservation, TypeOK, Working

\* What SET completed leaves under its key.
LEMMA SaveFacts ==
  ASSUME TypeOK, HandlerInv, NEW r \in Request, pc[r] = "complete",
         idem' = [idem EXCEPT ![req[r].key] = CompletedRecord(r)]
  PROVE  /\ req[r].key \in Key /\ idem'[req[r].key] = CompletedRecord(r)
         /\ CompletedRecord(r) \in Record /\ CompletedRecord(r) # NoRecord
BY RecordAssumption DEF TypeOK, HandlerInv, CompletedRecord, Record

\* Whoever comes to settle or to tell owns the record, until it expires or the
\* key is void.
LEMMA OwnerStep ==
  TypeOK /\ HandlerInv /\ ExclusiveReservation /\ OwnerInv /\ [Next]_vars => OwnerInv'
<1> SUFFICES ASSUME TypeOK, HandlerInv, ExclusiveReservation, OwnerInv, [Next]_vars
             PROVE  OwnerInv'
  OBVIOUS
<1> USE KeyAssumption DEF TypeOK, OwnerInv, Running, Holding, Working, Answer, Response, histories
<1>1. ASSUME NEW r \in Request, HandlerStep(r) PROVE OwnerInv'
  <2>1. CASE Receive(r)
    BY <2>1 DEF Receive, Goto
  <2>2. CASE Reserve(r)
    <3>1. req[r].key \in Key /\ pc[r] = "reserve"
      BY <2>2 DEF Reserve, HandlerInv
    <3>2. UNCHANGED <<req, out, forgotten, deleted, void>>
      BY <2>2 DEF Reserve
    <3>3. pc'[r] \in {"limit", "lookup"} /\ \A x \in Request : x # r => pc'[x] = pc[x]
      BY <2>2 DEF Reserve, Goto
    <3>4. \A k \in Key : idem[k] # NoRecord => idem'[k] = idem[k]
      BY <2>2, <3>1 DEF Reserve
    <3> QED BY <3>1, <3>2, <3>3, <3>4
  <2>3. CASE LookupExisting(r)
    <3>1. AnswerFor(r, idem[req[r].key]).kind # "accepted"
      BY DEF AnswerFor
    <3> QED BY <2>3, <3>1 DEF LookupExisting, Reply, Goto
  <2>4. CASE CheckRateLimit(r)
    BY <2>4 DEF CheckRateLimit, Goto, ExclusiveReservation
  <2>5. CASE ExecPipeline(r)
    <3>1. CASE req[r].key = NoKey
      BY <2>5, <3>1 DEF ExecPipeline, Reply, Goto
    <3>2. CASE req[r].key # NoKey
      BY <2>5, <3>2 DEF ExecPipeline, Goto
    <3> QED BY <3>1, <3>2
  <2>6. CASE SaveCompleted(r)
    <3>1. /\ pc[r] = "complete" /\ idem' = [idem EXCEPT ![req[r].key] = CompletedRecord(r)]
          /\ pc' = [pc EXCEPT ![r] = "respond"]
          /\ UNCHANGED <<req, out, forgotten, deleted, void>>
      BY <2>6 DEF SaveCompleted, Goto
    <3>2. /\ req[r].key \in Key /\ idem'[req[r].key] # NoRecord
          /\ idem'[req[r].key].owner = r /\ idem'[req[r].key].state = "completed"
      BY <3>1, SaveFacts DEF CompletedRecord
    <3>3. ASSUME NEW x \in Request, req[x].key \in Key \ void, x # r,
                 idem[req[x].key] # NoRecord, idem[req[x].key].owner = x
          PROVE  idem'[req[x].key] = idem[req[x].key]
      BY <3>1, <3>3, SaveSpares
    <3>4. \A x \in Request : x # r => pc'[x] = pc[x]
      BY <3>1
    <3> QED BY <3>1, <3>2, <3>3, <3>4
  <2>7. CASE ReleaseReservation(r)
    <3>1. /\ pc[r] \in {"deny", "fail"} /\ Delete(r)
          /\ pc' = [pc EXCEPT ![r] = "done"]
          /\ \E kind \in {"limited", "error"} : out' = [out EXCEPT ![r] = Answer(kind)]
          /\ UNCHANGED <<req, forgotten, deleted>>
      BY <2>7 DEF ReleaseReservation, Reply, Goto
    <3> QED BY <3>1, DeleteFacts, DeleteSpares
  <2>8. CASE Respond(r)
    BY <2>8 DEF Respond, Reply, Goto
  <2> QED BY <1>1, <2>1, <2>2, <2>3, <2>4, <2>5, <2>6, <2>7, <2>8 DEF HandlerStep
<1>2. ASSUME NEW r \in Request, FaultStep(r) PROVE OwnerInv'
  <2>1. CASE ReadFails(r)
    BY <2>1 DEF ReadFails, Reply, Goto
  <2>2. CASE CallFails(r)
    BY <2>2 DEF CallFails, Goto, ExclusiveReservation
  <2>3. CASE PipelineFails(r)
    BY <2>3 DEF PipelineFails, Goto, ExclusiveReservation
  <2>4. CASE ReleaseFails(r)
    BY <2>4 DEF ReleaseFails, Reply, Goto
  <2>5. CASE ReserveReplyLost(r)
    BY <2>5 DEF ReserveReplyLost, HandlerInv, Goto
  <2>6. CASE Crash(r)
    <3>1. /\ pc' = [pc EXCEPT ![r] = "crashed"] /\ pc[r] # "crashed"
          /\ UNCHANGED <<req, out, forgotten, deleted>>
      BY <2>6 DEF Crash, Goto
    <3>2. CASE UNCHANGED <<idem, void>>
      BY <3>1, <3>2
    <3>3. CASE pc[r] \in {"deny", "fail"} /\ Delete(r)
      BY <3>1, <3>3, DeleteFacts, DeleteSpares DEF HandlerInv
    <3> QED BY <2>6, <3>2, <3>3 DEF Crash
  <2>7. CASE ChargeReplyLost(r)
    BY <2>7 DEF ChargeReplyLost
  <2>8. CASE SaveReplyLost(r)
    <3>1. /\ pc[r] = "complete" /\ idem' = [idem EXCEPT ![req[r].key] = CompletedRecord(r)]
          /\ UNCHANGED <<pc, req, out, forgotten, deleted, void>>
      BY <2>8 DEF SaveReplyLost
    <3>2. /\ req[r].key \in Key /\ idem'[req[r].key] # NoRecord
          /\ idem'[req[r].key].owner = r /\ idem'[req[r].key].state = "completed"
      BY <3>1, SaveFacts DEF CompletedRecord
    <3>3. ASSUME NEW x \in Request, req[x].key \in Key \ void, x # r,
                 idem[req[x].key] # NoRecord, idem[req[x].key].owner = x
          PROVE  idem'[req[x].key] = idem[req[x].key]
      BY <3>1, <3>3, SaveSpares
    <3> QED BY <3>1, <3>2, <3>3
  <2>9. CASE ReleaseReplyLost(r)
    <3>1. /\ pc[r] \in {"deny", "fail"} /\ Delete(r) /\ deleted' = deleted \union {r}
          /\ UNCHANGED <<pc, req, out, forgotten>>
      BY <2>9 DEF ReleaseReplyLost
    <3> QED BY <3>1, DeleteFacts, DeleteSpares DEF HandlerInv
  <2> QED BY <1>2, <2>1, <2>2, <2>3, <2>4, <2>5, <2>6, <2>7, <2>8, <2>9 DEF FaultStep
<1>3. ASSUME NEW k \in Key, Expire(k) PROVE OwnerInv'
  BY <1>3 DEF Expire
<1>4. CASE UNCHANGED vars
  BY <1>4 DEF vars
<1> QED BY <1>1, <1>2, <1>3, <1>4 DEF Next

\* A step that gives no replay and takes nothing back keeps every replay true.
LEMMA ReplayStable ==
  ASSUME ReplayFaithful, req' = req,
         \A q \in Request : written[q] = "all" => written'[q] = "all" /\ kept'[q] = kept[q],
         \A q \in Request : out'[q].kind = "replay" => out'[q] = out[q]
  PROVE  ReplayFaithful'
BY DEF ReplayFaithful

\* A replay is given from a completed record, whose owner wrote all its events; nothing a handler does later changes what that owner did.
LEMMA ReplayStep ==
  TypeOK /\ HandlerInv /\ RecordInv /\ ReplayFaithful /\ [Next]_vars
    => ReplayFaithful'
<1> SUFFICES ASSUME TypeOK, HandlerInv, RecordInv, ReplayFaithful, [Next]_vars
             PROVE  ReplayFaithful'
  OBVIOUS
<1>1. ASSUME NEW r \in Request, HandlerStep(r) PROVE ReplayFaithful'
  <2>1. CASE Receive(r)
    BY <2>1, ReplayStable DEF Receive, Goto, HandlerInv, TypeOK
  <2>2. CASE Reserve(r)
    BY <2>2, ReplayStable DEF Reserve, Goto, HandlerInv, TypeOK
  <2>3. CASE LookupExisting(r)
    <3> DEFINE k == req[r].key
    <3>1. k \in Key /\ written[r] # "all"
      BY <2>3 DEF LookupExisting, HandlerInv, TypeOK
    <3>2. /\ out' = [out EXCEPT ![r] = AnswerFor(r, idem[k])]
          /\ req' = req /\ written' = written /\ kept' = kept
      BY <2>3 DEF LookupExisting, Reply
    <3>3. ASSUME AnswerFor(r, idem[k]).kind = "replay"
          PROVE  \E q \in Request : /\ q # r
                                    /\ req[q].key = k /\ req[q].payload = req[r].payload
                                    /\ written[q] = "all"
                                    /\ kept[q] = AnswerFor(r, idem[k]).accepted
      <4>1. /\ idem[k] # NoRecord /\ idem[k].payload = req[r].payload
            /\ idem[k].state = "completed"
            /\ AnswerFor(r, idem[k]).accepted = idem[k].accepted
        BY <3>3 DEF AnswerFor, Answer
      <4> HIDE DEF k
      <4> QED BY <3>1, <4>1, OwnerFacts
    <3> HIDE DEF k
    <3>4. ASSUME NEW x \in Request, out'[x].kind = "replay"
          PROVE  \E q \in Request : /\ q # x
                                    /\ req[q].key = req[x].key /\ req[q].payload = req[x].payload
                                    /\ written[q] = "all"
                                    /\ kept[q] = out'[x].accepted
      <4>1. CASE x = r
        BY <3>2, <3>3, <3>4, <4>1 DEF k, TypeOK
      <4>2. CASE x # r
        BY <3>2, <3>4, <4>2 DEF ReplayFaithful, TypeOK
      <4> QED BY <4>1, <4>2
    <3> QED BY <3>2, <3>4 DEF ReplayFaithful
  <2>4. CASE CheckRateLimit(r)
    BY <2>4, ReplayStable DEF CheckRateLimit, Goto, HandlerInv, TypeOK
  <2>5. CASE ExecPipeline(r)
    <3>1. CASE req[r].key = NoKey
      BY <2>5, <3>1, ReplayStable DEF ExecPipeline, Reply, Goto, HandlerInv, TypeOK, Answer
    <3>2. CASE req[r].key # NoKey
      BY <2>5, <3>2, ReplayStable DEF ExecPipeline, Reply, Goto, HandlerInv, TypeOK, Answer
    <3> QED BY <3>1, <3>2
  <2>6. CASE SaveCompleted(r)
    BY <2>6, ReplayStable DEF SaveCompleted
  <2>7. CASE ReleaseReservation(r)
    BY <2>7, ReplayStable DEF ReleaseReservation, Reply, Goto, HandlerInv, TypeOK, Answer
  <2>8. CASE Respond(r)
    BY <2>8, ReplayStable DEF Respond, Reply, Goto, HandlerInv, TypeOK
  <2> QED BY <1>1, <2>1, <2>2, <2>3, <2>4, <2>5, <2>6, <2>7, <2>8 DEF HandlerStep
<1>2. ASSUME NEW r \in Request, FaultStep(r) PROVE ReplayFaithful'
  <2>1. CASE ReadFails(r)
    BY <2>1, ReplayStable DEF ReadFails, Reply, Goto, HandlerInv, TypeOK, Answer
  <2>2. CASE CallFails(r)
    BY <2>2, ReplayStable DEF CallFails, Goto, HandlerInv, TypeOK
  <2>3. CASE PipelineFails(r)
    BY <2>3, ReplayStable DEF PipelineFails, Goto, HandlerInv, TypeOK
  <2>4. CASE ReleaseFails(r)
    BY <2>4, ReplayStable DEF ReleaseFails, Reply, Goto, HandlerInv, TypeOK, Answer
  <2>5. CASE ReserveReplyLost(r)
    BY <2>5, ReplayStable DEF ReserveReplyLost, Goto, HandlerInv, TypeOK, Answer
  <2>6. CASE Crash(r)
    BY <2>6, ReplayStable DEF Crash, Goto, HandlerInv, TypeOK, Running, Holding, Working
  <2>7. CASE ChargeReplyLost(r)
    BY <2>7, ReplayStable DEF ChargeReplyLost
  <2>8. CASE SaveReplyLost(r)
    BY <2>8, ReplayStable DEF SaveReplyLost
  <2>9. CASE ReleaseReplyLost(r)
    BY <2>9, ReplayStable DEF ReleaseReplyLost
  <2> QED BY <1>2, <2>1, <2>2, <2>3, <2>4, <2>5, <2>6, <2>7, <2>8, <2>9 DEF FaultStep
<1>3. ASSUME NEW k \in Key, Expire(k) PROVE ReplayFaithful'
  BY <1>3, ReplayStable DEF Expire
<1>4. CASE UNCHANGED vars
  BY <1>4, ReplayStable DEF vars, histories
<1> QED BY <1>1, <1>2, <1>3, <1>4 DEF Next

\* What may become of a completed record.
SettledFate(k) == \/ idem'[k] = idem[k]
                  \/ idem'[k] = NoRecord /\ k \in forgotten'
                  \/ k \in void'

\* A completed record is out of reach of every handler whose DEL runs once.
LEMMA FinalStep ==
  ASSUME TypeOK, HandlerInv, ExclusiveReservation, OwnerInv, [Next]_vars, NEW k \in Key,
         idem[k] # NoRecord, idem[k].state = "completed",
         pc[idem[k].owner] \in {"respond", "done", "crashed"}
  PROVE  SettledFate(k)
<1> USE DEF SettledFate
<1>1. ASSUME NEW r \in Request, HandlerStep(r) PROVE SettledFate(k)
  <2>1. CASE Receive(r)
    BY <2>1 DEF Receive
  <2>2. CASE Reserve(r)
    BY <2>2 DEF Reserve, HandlerInv, TypeOK
  <2>3. CASE LookupExisting(r)
    BY <2>3 DEF LookupExisting
  <2>4. CASE CheckRateLimit(r)
    BY <2>4 DEF CheckRateLimit
  <2>5. CASE ExecPipeline(r)
    BY <2>5 DEF ExecPipeline
  <2>6. CASE SaveCompleted(r)
    BY <2>6, SaveSpares DEF SaveCompleted, histories
  <2>7. CASE ReleaseReservation(r)
    BY <2>7, DeleteSpares DEF ReleaseReservation
  <2>8. CASE Respond(r)
    BY <2>8 DEF Respond
  <2> QED BY <1>1, <2>1, <2>2, <2>3, <2>4, <2>5, <2>6, <2>7, <2>8 DEF HandlerStep
<1>2. ASSUME NEW r \in Request, FaultStep(r) PROVE SettledFate(k)
  <2>1. CASE ReadFails(r)
    BY <2>1 DEF ReadFails
  <2>2. CASE CallFails(r)
    BY <2>2 DEF CallFails
  <2>3. CASE PipelineFails(r)
    BY <2>3 DEF PipelineFails
  <2>4. CASE ReleaseFails(r)
    BY <2>4 DEF ReleaseFails
  <2>5. CASE ReserveReplyLost(r)
    BY <2>5 DEF ReserveReplyLost, HandlerInv, TypeOK
  <2>6. CASE Crash(r)
    BY <2>6, DeleteSpares DEF Crash
  <2>7. CASE ChargeReplyLost(r)
    BY <2>7 DEF ChargeReplyLost
  <2>8. CASE SaveReplyLost(r)
    BY <2>8, SaveSpares DEF SaveReplyLost, histories
  <2>9. CASE ReleaseReplyLost(r)
    BY <2>9, DeleteSpares DEF ReleaseReplyLost
  <2> QED BY <1>2, <2>1, <2>2, <2>3, <2>4, <2>5, <2>6, <2>7, <2>8, <2>9 DEF FaultStep
<1>3. ASSUME NEW x \in Key, Expire(x) PROVE SettledFate(k)
  BY <1>3 DEF Expire, TypeOK
<1>4. CASE UNCHANGED vars
  BY <1>4 DEF vars
<1> QED BY <1>1, <1>2, <1>3, <1>4 DEF Next

-----------------------------------------------------------------------------
\* The contract of a key.

\* Reserving a free key is a Claim of the contract.
LEMMA ClaimSlot ==
  ASSUME TypeOK, NEW r \in Request, NEW k \in Key, k = req[r].key, idem[k] = NoRecord,
         idem' = [idem EXCEPT ![k] = PendingRecord(r)], void' = void, Answers' = Answers
  PROVE  Contract!Next \/ UNCHANGED <<Slots, Answers>>
<1>1. req[r].payload \in Payload
  BY DEF TypeOK
<1>2. PendingRecord(r) # NoRecord
  BY <1>1, RecordAssumption DEF PendingRecord
<1>3. CASE k \in void
  BY <1>3 DEF Slots, TypeOK
<1>4. CASE k \notin void
  <2>1. Slots[k] = Contract!Free
    BY <1>4 DEF Slots, SlotOf, Contract!Free
  <2>2. Slots' = [Slots EXCEPT ![k] = Contract!Claimed(req[r].payload)]
    BY <1>2, <1>4 DEF Slots, SlotOf, PendingRecord, Contract!Claimed, TypeOK
  <2>3. Contract!Claim(k)
    BY <1>1, <2>1, <2>2 DEF Contract!Claim
  <2> QED BY <2>3 DEF Contract!Next
<1> QED BY <1>3, <1>4

\* Taking a record away, by DEL or by expiry, releases the key or voids it.
LEMMA FreeSlot ==
  ASSUME TypeOK, NEW k \in Key, void' \in {void, void \union {k}},
         idem' = [idem EXCEPT ![k] = NoRecord], Answers' = Answers
  PROVE  Contract!Next \/ UNCHANGED <<Slots, Answers>>
<1>1. CASE k \in void'
  <2>1. Slots' = [Slots EXCEPT ![k] = Contract!Void]
    BY <1>1 DEF Slots, Contract!Void, TypeOK
  <2> QED BY <2>1 DEF Contract!Invalidate, Contract!Next
<1>2. CASE k \notin void' /\ idem[k] = NoRecord
  <2>1. idem' = idem /\ void' = void
    BY <1>2 DEF TypeOK
  <2> QED BY <2>1 DEF Slots
<1>3. CASE k \notin void' /\ idem[k] # NoRecord
  <2>1. void' = void /\ k \notin void
    BY <1>3
  <2>2. Slots' = [Slots EXCEPT ![k] = Contract!Free]
    BY <2>1 DEF Slots, SlotOf, Contract!Free, TypeOK
  <2>3. Slots[k].state \in {"pending", "completed"}
    BY <1>3, <2>1 DEF Slots, SlotOf
  <2>4. Slots[k] \notin {Contract!Free, Contract!Void}
    BY <2>3 DEF Contract!Free, Contract!Void
  <2>5. Contract!Release(k)
    BY <2>2, <2>4 DEF Contract!Release
  <2> QED BY <2>5 DEF Contract!Next
<1> QED BY <1>1, <1>2, <1>3

\* A DEL takes at most the record of its own key away.
LEMMA DeleteSlot ==
  ASSUME TypeOK, NEW r \in Request, Delete(r), Answers' = Answers
  PROVE  Contract!Next \/ UNCHANGED <<Slots, Answers>>
<1>1. CASE req[r].key = NoKey
  BY <1>1 DEF Delete, Slots
<1>2. CASE req[r].key # NoKey
  <2>1. req[r].key \in Key
    BY <1>2 DEF TypeOK
  <2>2. idem' = [idem EXCEPT ![req[r].key] = NoRecord]
        /\ void' \in {void, void \union {req[r].key}}
    BY <1>2 DEF Delete
  <2> QED BY <2>1, <2>2, FreeSlot
<1> QED BY <1>1, <1>2

\* SET completed settles the claim of its handler; executed again, it changes
\* nothing.
LEMMA SettleSlot ==
  ASSUME TypeOK, HandlerInv, RecordInv, ExclusiveReservation,
         NEW r \in Request, pc[r] = "complete", void' = void, Answers' = Answers,
         idem' = [idem EXCEPT ![req[r].key] = CompletedRecord(r)]
  PROVE  Contract!Next \/ UNCHANGED <<Slots, Answers>>
<1> DEFINE k == req[r].key
           p == req[r].payload
           n == kept[r]
<1>1. k \in Key /\ p \in Payload /\ n \in 1 .. MaxSize
  BY DEF HandlerInv, TypeOK
<1>2. CompletedRecord(r) # NoRecord
  BY SaveFacts
<1>3. idem' = [idem EXCEPT ![k] = CompletedRecord(r)]
  OBVIOUS
<1>4. CompletedRecord(r) = [state |-> "completed", payload |-> p, accepted |-> n, owner |-> r]
  BY DEF CompletedRecord
<1>5. CASE k \in void
  <2>1. Slots' = Slots
    BY <1>3, <1>5 DEF Slots, TypeOK
  <2> QED BY <2>1
<1>6. CASE k \notin void
  <2>1. idem[k] # NoRecord /\ idem[k].owner = r
    BY <1>1, <1>6 DEF ExclusiveReservation, Working
  <2>2. idem[k].payload = p /\ (idem[k].state = "completed" => idem[k].accepted = n)
    BY <1>1, <2>1 DEF RecordInv
  <2>3. idem[k].state \in {"pending", "completed"}
    BY <1>1, <2>1, OwnerFacts
  <2> HIDE DEF k, p, n
  <2>4. Slots' = [Slots EXCEPT ![k] = Contract!Settled(p, n)]
    <3>1. /\ idem'[k] = CompletedRecord(r)
          /\ \A x \in Key : x # k => idem'[x] = idem[x]
      BY <1>1, <1>3 DEF TypeOK
    <3>2. SlotOf(idem'[k]) = Contract!Settled(p, n)
      BY <1>2, <1>4, <3>1 DEF SlotOf, Contract!Settled
    <3>3. \A x \in Key : Slots'[x] = IF x = k THEN Contract!Settled(p, n) ELSE Slots[x]
      BY <1>6, <3>1, <3>2 DEF Slots
    <3>4. Slots = [x \in Key |-> Slots[x]] /\ Slots' = [x \in Key |-> Slots'[x]]
      BY DEF Slots
    <3> QED BY <3>3, <3>4
  <2>5. CASE idem[k].state = "pending"
    <3>1. Slots[k] = Contract!Claimed(p)
      BY <1>1, <1>6, <2>1, <2>2, <2>5 DEF Slots, SlotOf, Contract!Claimed
    <3>2. Contract!Settle(k)
      BY <1>1, <2>4, <3>1 DEF Contract!Settle
    <3> QED BY <1>1, <3>2 DEF Contract!Next
  <2>6. CASE idem[k].state = "completed"
    <3>1. Slots[k] = Contract!Settled(p, n)
      BY <1>1, <1>6, <2>1, <2>2, <2>6 DEF Slots, SlotOf, Contract!Settled
    <3>2. Slots' = Slots
      BY <1>1, <2>4, <3>1 DEF Slots
    <3> QED BY <3>2
  <2> QED BY <2>3, <2>5, <2>6
<1> QED BY <1>5, <1>6

\* A handler that answers neither accepted nor replay tells nothing.
LEMMA SameAnswers ==
  ASSUME TypeOK, NEW r \in Request, req' = req,
         out' = [out EXCEPT ![r] = out'[r]],
         out[r].kind \notin {"accepted", "replay"},
         out'[r].kind \notin {"accepted", "replay"}
  PROVE  Answers' = Answers
<1>1. \A q \in Request : q # r => out'[q] = out[q]
  BY DEF TypeOK
<1>2. Told' = Told
  BY <1>1 DEF Told
<1>3. \A q \in Told : AnswerOf(q)' = AnswerOf(q)
  BY <1>1 DEF Told, AnswerOf
<1> QED BY <1>2, <1>3 DEF Answers

\* A handler that answers accepted or replay tells a completed record's count,
\* which is what was settled, or tells something of a void key.
LEMMA TellAnswer ==
  ASSUME TypeOK, NEW r \in Request, NEW n \in 1 .. MaxSize, NEW k \in Key \ {NoKey},
         k = req[r].key, out[r].kind = "none", UNCHANGED <<req, idem, void>>,
         NEW kind \in {"accepted", "replay"},
         out' = [out EXCEPT ![r] = [kind |-> kind, accepted |-> n]],
         \/ k \in void
         \/ /\ idem[k] # NoRecord /\ idem[k].state = "completed"
            /\ idem[k].payload = req[r].payload /\ idem[k].accepted = n
  PROVE  Contract!Next
<1> DEFINE p == req[r].payload
<1>1. p \in Payload
  BY DEF TypeOK
<1> HIDE DEF p
<1>2. Slots' = Slots
  BY DEF Slots
<1>3. Slots[k] \in {Contract!Settled(p, n), Contract!Void}
  BY DEF Slots, SlotOf, Contract!Settled, Contract!Void, p
<1>4. Told' = Told \union {r}
  BY DEF Told, TypeOK
<1>5. /\ \A q \in Told : AnswerOf(q)' = AnswerOf(q)
      /\ AnswerOf(r)' = [key |-> k, payload |-> p, accepted |-> n]
  BY DEF Told, AnswerOf, TypeOK, p
<1>6. Answers' = Answers \union {[key |-> k, payload |-> p, accepted |-> n]}
  BY <1>4, <1>5 DEF Answers
<1>7. Contract!Tell(k)
  BY <1>1, <1>2, <1>3, <1>6 DEF Contract!Tell, Contract!Told
<1> QED BY <1>7 DEF Contract!Next

\* A step that leaves the records alone, and tells nothing to a request with a
\* key, is a stuttering step of the contract.
LEMMA ContractStutter ==
  ASSUME TypeOK, req' = req, idem' = idem, void' = void,
         \/ out' = out
         \/ \E r \in Request :
               /\ out' = [out EXCEPT ![r] = out'[r]]
               /\ \/ req[r].key = NoKey
                  \/ /\ out[r].kind \notin {"accepted", "replay"}
                     /\ out'[r].kind \notin {"accepted", "replay"}
  PROVE  UNCHANGED <<Slots, Answers>>
<1>1. Slots' = Slots
  BY DEF Slots
<1>2. CASE out' = out
  BY <1>1, <1>2 DEF Answers, Told, AnswerOf
<1>3. ASSUME NEW r \in Request, out' = [out EXCEPT ![r] = out'[r]], req[r].key = NoKey
      PROVE  Answers' = Answers
  <2>1. \A q \in Request : q # r => out'[q] = out[q]
    BY <1>3 DEF TypeOK
  <2>2. Told' = Told
    BY <1>3, <2>1 DEF Told
  <2>3. \A q \in Told : AnswerOf(q)' = AnswerOf(q)
    BY <1>3, <2>1 DEF Told, AnswerOf
  <2> QED BY <2>2, <2>3 DEF Answers
<1> QED BY <1>1, <1>2, <1>3, SameAnswers

\* What is told depends on the requests and their responses alone.
LEMMA AnswersFrame == UNCHANGED <<req, out>> => Answers' = Answers
BY DEF Answers, Told, AnswerOf

\* Every step of the handlers is a step of the contract or leaves it alone.
LEMMA ContractStep ==
  TypeOK /\ HandlerInv /\ RecordInv /\ ExclusiveReservation /\ OwnerInv /\ [Next]_vars
    => [Contract!Next]_<<Slots, Answers>>
<1> SUFFICES ASSUME TypeOK, HandlerInv, RecordInv, ExclusiveReservation, OwnerInv,
                    [Next]_vars
             PROVE  Contract!Next \/ UNCHANGED <<Slots, Answers>>
  OBVIOUS
<1>1. ASSUME NEW r \in Request, HandlerStep(r)
      PROVE  Contract!Next \/ UNCHANGED <<Slots, Answers>>
  <2>1. CASE Receive(r)
    BY <2>1, ContractStutter DEF Receive, histories
  <2>2. CASE Reserve(r)
    <3>1. req[r].key \in Key /\ void' = void /\ Answers' = Answers
      BY <2>2, AnswersFrame DEF Reserve, HandlerInv, TypeOK, histories
    <3>2. CASE idem[req[r].key] = NoRecord
      <4>1. idem' = [idem EXCEPT ![req[r].key] = PendingRecord(r)]
        BY <2>2, <3>2 DEF Reserve
      <4> QED BY <3>1, <3>2, <4>1, ClaimSlot
    <3>3. CASE idem[req[r].key] # NoRecord
      BY <2>2, <3>3, ContractStutter DEF Reserve, histories
    <3> QED BY <3>2, <3>3
  <2>3. CASE LookupExisting(r)
    <3> DEFINE k == req[r].key
               a == AnswerFor(r, idem[k])
    <3>1. k \in Key /\ k # NoKey /\ out[r].kind = "none"
      BY <2>3, KeyAssumption DEF LookupExisting, HandlerInv, TypeOK, Response
    <3>2. out' = [out EXCEPT ![r] = a] /\ UNCHANGED <<req, idem, void>>
      BY <2>3 DEF LookupExisting, Reply, histories
    <3>3. a.kind \in {"replay", "conflict", "in_progress"}
      BY DEF AnswerFor, Answer
    <3>4. CASE a.kind = "replay"
      <4>1. /\ idem[k] # NoRecord /\ idem[k].payload = req[r].payload
            /\ idem[k].state = "completed"
            /\ a = [kind |-> "replay", accepted |-> idem[k].accepted]
        BY <3>4 DEF AnswerFor, Answer
      <4> HIDE DEF k, a
      <4>2. /\ idem[k].owner \in Request /\ written[idem[k].owner] = "all"
            /\ kept[idem[k].owner] = idem[k].accepted
        BY <3>1, <4>1, OwnerFacts
      <4>3. idem[k].accepted \in 1 .. MaxSize
        BY <4>2 DEF HandlerInv
      <4> QED BY <3>1, <3>2, <4>1, <4>3, TellAnswer DEF k
    <3>5. CASE a.kind # "replay"
      <4> HIDE DEF k, a
      <4>1. out' = [out EXCEPT ![r] = out'[r]] /\ out'[r] = a
        BY <3>2 DEF TypeOK
      <4> QED BY <3>1, <3>2, <3>3, <3>5, <4>1, ContractStutter
    <3> QED BY <3>4, <3>5
  <2>4. CASE CheckRateLimit(r)
    BY <2>4, ContractStutter DEF CheckRateLimit, histories
  <2>5. CASE ExecPipeline(r)
    <3>1. CASE req[r].key = NoKey
      <4>1. UNCHANGED <<req, idem, void>> /\ out' = [out EXCEPT ![r] = out'[r]]
        BY <2>5, <3>1 DEF ExecPipeline, Reply, TypeOK, histories
      <4> QED BY <3>1, <4>1, ContractStutter
    <3>2. CASE req[r].key # NoKey
      BY <2>5, <3>2, ContractStutter DEF ExecPipeline, histories
    <3> QED BY <3>1, <3>2
  <2>6. CASE SaveCompleted(r)
    BY <2>6, AnswersFrame, SettleSlot DEF SaveCompleted, histories
  <2>7. CASE ReleaseReservation(r)
    <3>1. /\ out[r].kind = "none" /\ out' = [out EXCEPT ![r] = out'[r]] /\ req' = req
          /\ out'[r].kind \in {"limited", "error"}
      BY <2>7 DEF ReleaseReservation, Reply, Answer, HandlerInv, TypeOK, Response
    <3>2. Answers' = Answers
      BY <3>1, SameAnswers
    <3> QED BY <2>7, <3>2, DeleteSlot DEF ReleaseReservation
  <2>8. CASE Respond(r)
    <3> DEFINE k == req[r].key
    <3>1. /\ k \in Key \ {NoKey} /\ kept[r] \in 1 .. MaxSize /\ out[r].kind = "none"
          /\ pc[r] = "respond"
      BY <2>8, KeyAssumption DEF Respond, HandlerInv, TypeOK, Response
    <3>2. /\ out' = [out EXCEPT ![r] = [kind |-> "accepted", accepted |-> kept[r]]]
          /\ UNCHANGED <<req, idem, void>>
      BY <2>8 DEF Respond, Reply, histories
    <3>3. ASSUME k \notin void
          PROVE  /\ idem[k] # NoRecord /\ idem[k].state = "completed"
                 /\ idem[k].payload = req[r].payload /\ idem[k].accepted = kept[r]
      <4>1. idem[k] # NoRecord /\ idem[k].owner = r
        BY <3>1, <3>3 DEF ExclusiveReservation, Working
      <4>2. idem[k].state = "completed"
        BY <3>1, <4>1, OwnerFacts DEF RecordInv
      <4> QED BY <3>1, <4>1, <4>2 DEF RecordInv
    <3> HIDE DEF k
    <3> QED BY <3>1, <3>2, <3>3, TellAnswer DEF k
  <2> QED BY <1>1, <2>1, <2>2, <2>3, <2>4, <2>5, <2>6, <2>7, <2>8 DEF HandlerStep
<1>2. ASSUME NEW r \in Request, FaultStep(r)
      PROVE  Contract!Next \/ UNCHANGED <<Slots, Answers>>
  <2>1. CASE ReadFails(r)
    BY <2>1, ContractStutter DEF ReadFails, Reply, HandlerInv, TypeOK, Answer, histories
  <2>2. CASE CallFails(r)
    BY <2>2, ContractStutter DEF CallFails, histories
  <2>3. CASE PipelineFails(r)
    BY <2>3, ContractStutter DEF PipelineFails, histories
  <2>4. CASE ReleaseFails(r)
    BY <2>4, ContractStutter DEF ReleaseFails, Reply, HandlerInv, TypeOK, Answer
  <2>5. CASE ReserveReplyLost(r)
    <3>1. /\ req[r].key \in Key /\ idem[req[r].key] = NoRecord /\ void' = void
          /\ idem' = [idem EXCEPT ![req[r].key] = PendingRecord(r)]
      BY <2>5 DEF ReserveReplyLost, HandlerInv, TypeOK
    <3>2. Answers' = Answers
      BY <2>5, AnswersFrame DEF ReserveReplyLost
    <3> QED BY <3>1, <3>2, ClaimSlot
  <2>6. CASE Crash(r)
    <3>1. Answers' = Answers
      BY <2>6, AnswersFrame DEF Crash
    <3>2. CASE UNCHANGED <<idem, void>>
      BY <3>1, <3>2 DEF Slots
    <3>3. CASE Delete(r)
      BY <3>1, <3>3, DeleteSlot
    <3> QED BY <2>6, <3>2, <3>3 DEF Crash
  <2>7. CASE ChargeReplyLost(r)
    BY <2>7, ContractStutter DEF ChargeReplyLost, histories
  <2>8. CASE SaveReplyLost(r)
    BY <2>8, AnswersFrame, SettleSlot DEF SaveReplyLost, histories
  <2>9. CASE ReleaseReplyLost(r)
    BY <2>9, AnswersFrame, DeleteSlot DEF ReleaseReplyLost
  <2> QED BY <1>2, <2>1, <2>2, <2>3, <2>4, <2>5, <2>6, <2>7, <2>8, <2>9 DEF FaultStep
<1>3. ASSUME NEW k \in Key, Expire(k) PROVE Contract!Next \/ UNCHANGED <<Slots, Answers>>
  <2>1. Answers' = Answers
    BY <1>3, AnswersFrame DEF Expire
  <2> QED BY <1>3, <2>1, FreeSlot DEF Expire
<1>4. CASE UNCHANGED vars
  BY <1>4, ContractStutter DEF vars, histories
<1> QED BY <1>1, <1>2, <1>3, <1>4 DEF Next

-----------------------------------------------------------------------------
\* The inductive invariant, and what follows from it.

LEMMA InitIInv == Init => IInv
<1> SUFFICES ASSUME Init PROVE IInv
  OBVIOUS
<1> USE DEF Init, NoReply
<1>1. TypeOK
  BY DEF TypeOK, Response
<1>2. HandlerInv /\ RecordInv /\ ExclusiveReservation /\ NoLeakedReservation
  BY DEF HandlerInv, RecordInv, ExclusiveReservation, NoLeakedReservation, Working
<1>3. OwnerInv /\ ReplayFaithful
  BY DEF OwnerInv, ReplayFaithful
<1> QED BY <1>1, <1>2, <1>3 DEF IInv

LEMMA StepIInv == IInv /\ [Next]_vars => IInv'
BY TypeStep, HandlerStepInv, RecordStep, ExclusiveStep, LeakStep, OwnerStep, ReplayStep
   DEF IInv

\* The handlers keep the inductive invariant: record, owner and response agree
\* in every reachable state.
THEOREM Invariant == Spec => []IInv
<1>1. Init => IInv
  BY InitIInv
<1>2. IInv /\ [Next]_vars => IInv'
  BY StepIInv
<1> QED BY <1>1, <1>2, PTL DEF Spec

\* No replayed answer is made up, under records taken from running handlers
\* too (backend/src/routes/ingest.ts:244).
THEOREM ReplayTheorem == Spec => []ReplayFaithful
<1>1. IInv => ReplayFaithful
  BY DEF IInv
<1> QED BY <1>1, Invariant, PTL

\* At most one handler at a time works under a key whose record was never taken
\* from a running handler by the TTL or by a second DEL.
THEOREM ExclusiveTheorem == Spec => []ExclusiveReservation
<1>1. IInv => ExclusiveReservation
  BY DEF IInv
<1> QED BY <1>1, Invariant, PTL

\* Every return path of the handler settles its reservation.
THEOREM LeakTheorem == Spec => []NoLeakedReservation
<1>1. IInv => NoLeakedReservation
  BY DEF IInv
<1> QED BY <1>1, Invariant, PTL

\* Two acceptances under one key have the expiry of a completed record between
\* them, or a record taken from a running handler.
THEOREM AcceptedOnceTheorem == Spec => []AcceptedOnce
<1>1. IInv => AcceptedOnce
  <2> SUFFICES ASSUME IInv, NEW q \in Request, NEW r \in Request,
                      q # r, req[q].key = req[r].key, req[r].key # NoKey,
                      out[q].kind = "accepted", out[r].kind = "accepted",
                      req[r].key \notin forgotten \union void
               PROVE  FALSE
    BY DEF AcceptedOnce
  <2>1. req[r].key \in Key \ void
    BY DEF IInv, TypeOK
  <2>2. idem[req[r].key].owner = r /\ idem[req[r].key].owner = q
    BY <2>1 DEF IInv, OwnerInv
  <2> QED BY <2>2
<1> QED BY <1>1, Invariant, PTL

\* Once completed, a record expires, or a DEL that is executed a second time
\* takes it; nothing else changes it.
THEOREM FinalTheorem == Spec => CompletedIsFinal
<1>1. IInv /\ [Next]_vars =>
        [\A k \in Key :
            /\ idem[k] # NoRecord /\ idem[k].state = "completed"
            /\ pc[idem[k].owner] \in {"respond", "done", "crashed"}
            => \/ idem'[k] = idem[k]
               \/ idem'[k] = NoRecord /\ k \in forgotten'
               \/ k \in void']_vars
  BY FinalStep DEF IInv, SettledFate
<1> QED BY <1>1, Invariant, PTL DEF Spec, CompletedIsFinal

\* The handlers implement the contract of a key: claim, settle once, tell, and
\* promise nothing more once a record was taken from a running handler.
THEOREM ContractTheorem == Spec => ImplementsContract
<1>1. Init => Contract!Init
  <2> SUFFICES ASSUME Init PROVE Contract!Init
    OBVIOUS
  <2>1. Slots = [k \in Key |-> Contract!Free]
    BY DEF Init, Slots, SlotOf, Contract!Free
  <2>2. Told = {}
    BY DEF Init, Told, NoReply
  <2> QED BY <2>1, <2>2 DEF Contract!Init, Answers
<1>2. IInv /\ [Next]_vars => [Contract!Next]_<<Slots, Answers>>
  BY ContractStep DEF IInv
<1> QED BY <1>1, <1>2, Invariant, PTL DEF Spec, ImplementsContract, Contract!Spec
=============================================================================

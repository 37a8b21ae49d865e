------------------------ MODULE IdempotencyContract ------------------------
(***************************************************************************)
(* What POST /ingest promises for one idempotency key, without handlers or  *)
(* Redis: a key is free, claimed for one payload, or settled with the       *)
(* answer of the one batch that was written under it.  Whoever is told that *)
(* events were accepted is told the settled answer.  A key whose record is  *)
(* taken from a running handler is void: nothing is promised of it any more.*)
(***************************************************************************)
EXTENDS Naturals

CONSTANTS Key, Payload, MaxSize

VARIABLES
    slot,     \* what each key stands for
    answers   \* the acceptances clients have been told, as a set

Free == [state |-> "free"]
Void == [state |-> "void"]
Claimed(p) == [state |-> "pending", payload |-> p]
Settled(p, n) == [state |-> "completed", payload |-> p, accepted |-> n]
Told(k, p, n) == [key |-> k, payload |-> p, accepted |-> n]

Init ==
    /\ slot = [k \in Key |-> Free]
    /\ answers = {}

\* A request reserves a free key for its payload.
Claim(k) ==
    /\ slot[k] = Free
    /\ \E p \in Payload : slot' = [slot EXCEPT ![k] = Claimed(p)]
    /\ UNCHANGED answers

\* The batch is in.
Settle(k) ==
    /\ \E p \in Payload, n \in 1 .. MaxSize :
          /\ slot[k] = Claimed(p)
          /\ slot' = [slot EXCEPT ![k] = Settled(p, n)]
    /\ UNCHANGED answers

\* A client is told, for the first time or again, what was settled.
Tell(k) ==
    /\ \E p \in Payload, n \in 1 .. MaxSize :
          /\ slot[k] \in {Settled(p, n), Void}
          /\ answers' = answers \union {Told(k, p, n)}
    /\ UNCHANGED slot

\* A claim is given up, or a record reaches the end of its TTL.
Release(k) ==
    /\ slot[k] \notin {Free, Void}
    /\ slot' = [slot EXCEPT ![k] = Free]
    /\ UNCHANGED answers

\* The record is taken from a handler that still relies on it.
Invalidate(k) ==
    /\ slot' = [slot EXCEPT ![k] = Void]
    /\ UNCHANGED answers

Next == \E k \in Key : Claim(k) \/ Settle(k) \/ Tell(k) \/ Release(k) \/ Invalidate(k)

Spec == Init /\ [][Next]_<<slot, answers>>
=============================================================================

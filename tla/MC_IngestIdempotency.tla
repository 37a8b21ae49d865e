------------------------ MODULE MC_IngestIdempotency ------------------------
(* Values for the constants of IngestIdempotency: bodies of one and of two  *)
(* events, so that shedding and the rate bucket can tell them apart.        *)
EXTENDS IngestIdempotency, TLC

CONSTANTS r1, r2, r3, small, big

MCPayload == {small, big}
MCSize == (small :> 1) @@ (big :> 2)

\* Two payloads compete for a key; the third request carries any body, with
\* the key or without.
CompetingInit ==
    /\ Init
    /\ req[r1].key # NoKey /\ req[r1].payload = big
    /\ req[r2].key # NoKey /\ req[r2].payload = small
CompetingSpec == CompetingInit /\ [][Next]_vars /\ Fairness
=============================================================================

--------------------------- MODULE MC_StreamSession ---------------------------
(***************************************************************************)
(* Values for the runs of StreamSession.                                     *)
(***************************************************************************)
EXTENDS StreamSession

CONSTANTS a, b

MCMaxEntries == [t \in Tile |-> IF t = a THEN 3 ELSE 1]

\* Events in the order of their time stamps, and the newer entry the older event.
InOrderWindows == [t \in Tile |-> [e \in 1 .. MaxEntries[t] |-> e]]
ReversedWindows == [t \in Tile |-> [e \in 1 .. MaxEntries[t] |-> MaxEntries[t] - e]]
MCWindows == {InOrderWindows, ReversedWindows}

FromStart == {0}
OnlyLive == {Live}
AnyOffset == {0, 2, Live}
=============================================================================

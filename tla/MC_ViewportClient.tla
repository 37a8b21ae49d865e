------------------------- MODULE MC_ViewportClient -------------------------
(* Two views of one place: wide, from now on and in aggregate frames, and old, *)
(* from the start of the stream and in event frames.  The second entry belongs *)
(* to an older window, the third is older than both.                           *)
EXTENDS ViewportClient

CONSTANTS wide, old

MCReplayOffset == [v \in View |-> IF v = old THEN "0-0" ELSE "$"]
MCWindow == <<2, 1, 2>>
MCTs == <<2, 3, 1>>

\* The page starts with the replay from the start (MapPage.tsx:26).
PageInit == Init /\ cursor.offset = ReplayOffset[old]
PageSpec == PageInit /\ [][Next]_vars /\ Fairness
=============================================================================

-------------------------- MODULE MC_StreamCursor --------------------------
(***************************************************************************)
(* Two connections of one client, with one tile that gets two entries and   *)
(* one that gets one.                                                        *)
(***************************************************************************)
EXTENDS StreamCursor

CONSTANTS s1, s2, a, b

MCSession == {s1, s2}
MCTile == {a, b}
MCNewest == [t \in MCTile |-> IF t = a THEN 2 ELSE 1]

\* A frame written on an open connection reaches the stored cursor, although
\* flushes may fail, unless the connection ends first.  The two connections are
\* interchangeable, so the property is asked of one, on the tile with two entries.
CursorCatchesUp == CatchesUp(s1, a)
=============================================================================

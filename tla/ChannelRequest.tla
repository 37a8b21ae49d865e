--------------------------- MODULE ChannelRequest ---------------------------
(* POST /channels from the body to the reservation (ChannelQuota), and what it
   is for: an event that ingest writes inside the area asked for is in exactly
   one of the streams the channel reads.

   H3's cells are a tree: a cell is the sequence of digits that leads to it,
   its resolution the length, and digit 0 the child around its centre.  An area
   is a set of tiles, or a polygon, given by the finest cells whose centres it
   contains.                                                                 *)
EXTENDS ChannelQuota, SequencesExt

CONSTANTS
    Digit,          \* of a cell's children, 0 among them
    MaxRes,         \* H3_MAX_RES
    Settings,       \* [ingest, min, max, maxTiles, maxMaterialized]: H3_RES_INGEST,
                    \* H3_RES_STREAM_MIN, _MAX, MAX_TILES_PER_CHANNEL,
                    \* MAX_CHANNEL_TILE_MATERIALIZATION
    Bodies          \* [kind, area, res, estimate] of the requests; the estimate is
                    \* that of a polygon's ring

Cell == UNION {[1 .. r -> Digit] : r \in 0 .. MaxRes}
CellsAt(r) == {c \in Cell : Len(c) = r}

ASSUME RequestAssumption ==
    /\ 0 \in Digit /\ IsFiniteSet(Digit) /\ MaxRes \in Nat
    /\ \A s \in Settings : /\ {s.ingest, s.min, s.max} \subseteq 0 .. MaxRes
                           /\ {s.maxTiles, s.maxMaterialized} \subseteq Int
    /\ \A b \in Bodies : /\ b.kind \in {"tiles", "polygon", "invalid"} /\ b.res \in Int
                         /\ b.estimate \in Nat
                         /\ b.area \subseteq IF b.kind = "polygon" THEN CellsAt(MaxRes) ELSE Cell

VARIABLES
    setting,        \* one of Settings
    body,           \* what the tenant's requests ask for: the reservation does not
                    \* depend on it, so one area in a behaviour is enough
    reply           \* history: the last request's [code, built, tiles]

requestVars == <<vars, setting, body, reply>>

Between(n, low, high) == IF n < low THEN low ELSE IF n > high THEN high ELSE n

Parent(c, r) == SubSeq(c, 1, r)
Children(c, r) == {d \in CellsAt(r) : IsPrefix(c, d)}
Centre(c) == [i \in 1 .. MaxRes |-> IF i <= Len(c) THEN c[i] ELSE 0]

StreamMin == Min({setting.min, setting.max})
StreamMax == Max({setting.min, setting.max})

(* The resolution of the channel: coerceRes, clampResToStreamRange.           *)
Res == Between(Between(body.res, 0, MaxRes), StreamMin, StreamMax)

(* normalizeTilesToRes; h3.polygonToCells takes the cells whose centre lies in
   the polygon.                                                              *)
Tiles ==
    IF body.kind = "polygon" THEN {c \in CellsAt(Res) : Centre(c) \in body.area}
    ELSE UNION {IF Len(t) < Res THEN Children(t, Res) ELSE {Parent(t, Res)} : t \in body.area}

(* Variant with a bug: a coarse tile is counted as one.                      *)
EstimateFlat ==
    IF body.kind = "polygon" THEN body.estimate ELSE Cardinality(body.area)

(* What is compared with the limit before anything is built: of tiles a sum that
   is exact up to those that coincide (estimateNormalizedTileCountUpperBound); of
   a polygon the cells its bounding box has room for, four times, and an allowance
   for its border (estimatePolygonCellMaterialization).  The box is taken the
   shorter way round the globe, so that a wide ring's number may be far below the
   cells it gets: the model lets the number be anything.                      *)
Estimate ==
    IF body.kind = "polygon" THEN body.estimate
    ELSE SumFunction([t \in body.area |-> IF Len(t) < Res THEN Cardinality(Children(t, Res)) ELSE 1])

MaterializationLimit ==
    IF setting.maxMaterialized > 0 THEN setting.maxMaterialized ELSE setting.maxTiles

TooMuchToBuild == MaterializationLimit > 0 /\ Estimate > MaterializationLimit
TooManyTiles == setting.maxTiles > 0 /\ Cardinality(Tiles) > setting.maxTiles

NoReply == [code |-> "none", built |-> {}, tiles |-> {}]
Answered(code, built, tiles) ==
    reply' = [code |-> code, built |-> built, tiles |-> tiles] /\ UNCHANGED <<setting, body>>

RequestInit == Init /\ setting \in Settings /\ body \in Bodies /\ reply = NoReply

-----------------------------------------------------------------------------

(* Not a polygon or tiles, both of them, or one that does not parse.         *)
RefuseInvalid ==
    /\ body.kind = "invalid"
    /\ Answered("400", {}, {}) /\ UNCHANGED vars

RefuseUnbuilt ==
    /\ body.kind # "invalid" /\ TooMuchToBuild
    /\ Answered("413", {}, {}) /\ UNCHANGED vars

(* Built, but there are no tiles, or too many.                               *)
RefuseBuilt ==
    /\ body.kind # "invalid" /\ ~TooMuchToBuild
    /\ \/ Tiles = {} /\ Answered("400", Tiles, {})
       \/ TooManyTiles /\ Answered("413", Tiles, {})
    /\ UNCHANGED vars

(* The reservation, with the record's tiles.                                 *)
Reserve(now) ==
    /\ body.kind # "invalid" /\ ~TooMuchToBuild /\ Tiles # {} /\ ~TooManyTiles
    /\ \/ /\ \E c \in Channel, requested \in Requested : Create(c, now, requested)
          /\ Answered("200", Tiles, Tiles)
       \/ /\ RefuseActive(now) \/ RefuseHourly(now)
          /\ Answered("429", Tiles, {})

TimePasses == Tick /\ reply' = NoReply /\ UNCHANGED <<setting, body>>

RequestNext ==
    \/ RefuseInvalid \/ RefuseUnbuilt \/ RefuseBuilt
    \/ \E now \in Skew : Reserve(now)
    \/ TimePasses

RequestSpec == RequestInit /\ [][RequestNext]_requestVars

-----------------------------------------------------------------------------
(* Ingest: the tiles an event of the finest cell e is written to.            *)

(* Variant with a bug: a resolution short of the last.                       *)
WrittenShort(e) ==
    {Parent(e, r) : r \in Between(StreamMin, 0, setting.ingest) .. Between(StreamMax, 0, setting.ingest) - 1}

(* getStreamResBounds, and the loop over it: the cell at H3_RES_INGEST and its
   parents.                                                                  *)
Written(e) ==
    {Parent(e, r) : r \in Between(StreamMin, 0, setting.ingest) .. Between(StreamMax, 0, setting.ingest)}

Inside(e) ==
    IF body.kind = "polygon" THEN Centre(Parent(e, Res)) \in body.area
    ELSE \E t \in body.area : IsPrefix(t, e)

(* A channel's streams hold each event inside the area asked for exactly once
   (of a polygon: each event whose tile is centred inside), and no event twice,
   whichever resolutions tiles, channel and ingest have.  Where the streams'
   range goes beyond H3_RES_INGEST, channels of those finer resolutions read
   streams that nobody writes, and docs/API.md:149 ("Events are written to all
   configured stream resolutions") does not hold; that case is left out.     *)
DeliveredOnce ==
    reply.code = "200" /\ Res <= setting.ingest =>
        \A e \in CellsAt(MaxRes) :
            LET streams == Written(e) \cap reply.tiles
            IN  /\ Cardinality(streams) <= 1
                /\ Inside(e) => streams # {}

(* What a reply says is what the request's area and the limits make of it.     *)
ReplyTrue ==
    /\ setting \in Settings /\ body \in Bodies
    /\ reply.code = "200" => reply.tiles = Tiles
    /\ reply.built = {} \/ (reply.built = Tiles /\ ~TooMuchToBuild)

(* No request for tiles makes the backend build more cells than the limit on
   them, also one that is refused afterwards.  For polygons the code promises it
   too (h3.ts:210), but the estimate of a ring that spans more than 180 degrees
   does not keep it.                                                         *)
MaterializationBounded ==
    body.kind = "tiles" /\ MaterializationLimit > 0 =>
        Cardinality(reply.built) <= MaterializationLimit
=============================================================================

------------------------- MODULE MC_ChannelRequest -------------------------
(* Requests over a binary tree of three resolutions: tiles too coarse, too many
   and too fine for the resolution they ask for, polygons of no and of two
   leaves, whose estimate lies above or below what they get; channel ids are
   interchangeable.                                                          *)
EXTENDS ChannelRequest, TLC

Area(kind, area, res, estimate) == [kind |-> kind, area |-> area, res |-> res, estimate |-> estimate]
Body(kind, area, res) == Area(kind, area, res, 0)

MCBodies == {
    Body("tiles", {<<>>, <<0>>}, 2), Body("tiles", {<<>>, <<0>>}, 1),
    Body("tiles", {<<0>>, <<1, 0>>}, 2), Body("tiles", {<<0>>, <<1, 0>>}, 0),
    Area("polygon", {<<0, 1>>, <<1, 0>>}, 9, 3), Area("polygon", {<<0, 1>>, <<1, 0>>}, 9, 0),
    Area("polygon", {}, 1, 1), Body("invalid", {}, 0)}

Setting(ingest, min, max, maxTiles, maxMaterialized) ==
    [ingest |-> ingest, min |-> min, max |-> max, maxTiles |-> maxTiles, maxMaterialized |-> maxMaterialized]

MCSettings == {Setting(2, 0, 2, 2, 3), Setting(2, 2, 1, 3, 0), Setting(1, 1, 2, 0, 0)}

Permuted == Permutations(Channel)
=============================================================================

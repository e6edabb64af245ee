----------------------------- MODULE MCTheMatrix -----------------------------
(* A panel of four pixels: more old drops than needed, as many, and none.    *)
EXTENDS TheMatrix
MCZeroPixel == <<0, 1>>
MCLitSets == {{}, {<<0, 0>>, <<1, 1>>}, {<<0, 0>>, <<1, 0>>, <<0, 1>>}}
MCNeedSets == {{<<0, 1>>}, {<<1, 0>>}}
MCGarbage == {0, 2}
=============================================================================

--------------------------- MODULE MCSharedDriver ---------------------------
(***************************************************************************)
(* Two units, two keys: a value of one byte and, behind it, one of two.    *)
(***************************************************************************)
EXTENDS SharedDriver

CONSTANTS k1, k2, u1, u2

MCdata_keys == <<k1, k2>>
MClength == [k \in Key |-> IF k = k1 THEN 1 ELSE 2]

MCMaxVersion == [k \in Key |-> IF k = k1 THEN 1 ELSE 2]

MCattributes == <<[keybind |-> k2, offset |-> 0, len |-> 2]>>
=============================================================================

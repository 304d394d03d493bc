----------------------------- MODULE MCDanteDriver -----------------------------
(***************************************************************************)
(* Two keys of two bytes; in the order of their names an item of the       *)
(* second key stands between two of the first.                             *)
(***************************************************************************)
EXTENDS DanteDriver

CONSTANTS k1, k2

MCdata_keys == <<k1, k2>>

Bound(k, type, off, l, big) ==
    [typ |-> type, keybind |-> k, offset |-> off, len |-> l, lbe |-> big]

MCmixed == <<Bound(k1, "DYNAMIC", 0, 1, FALSE), Bound(k2, "DYNAMIC", 0, 2, TRUE),
             Bound(k1, "DYNAMIC", 1, 1, FALSE)>>
===============================================================================

-------------------------- MODULE MCRTGenericDanteCU --------------------------
(***************************************************************************)
(* Two keys of two bytes; in the order of their names the dynamic items of *)
(* a key stand together.                                                   *)
(***************************************************************************)
EXTENDS RTGenericDanteCU

CONSTANTS k1, k2

MCdata_keys == <<k1, k2>>

Bound(k, type, off, l, big) ==
    [typ |-> type, keybind |-> k, offset |-> off, len |-> l, lbe |-> big]

MCgrouped == <<Bound(k1, "DYNAMIC", 0, 1, FALSE), Bound(k1, "DYNAMIC", 1, 1, FALSE),
               Bound(k2, "DYNAMIC", 0, 2, TRUE), Bound(k1, "STATIC", 1, 1, FALSE)>>
===============================================================================

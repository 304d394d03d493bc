------------------------- MODULE MCMemcachedRestart -------------------------
(***************************************************************************)
(* Two keys, appended at most twice; an attribute of the first, and of the *)
(* second one beyond the end of the block and one so far beyond it that    *)
(* the sum of its offset and length wraps.  Only one value fits when both  *)
(* are at their longest.                                                   *)
(***************************************************************************)
EXTENDS MemcachedRestart

CONSTANTS k1, k2

MCjson_data_key == <<k1, k2>>
MCdata_keys == MCjson_data_key \o MCjson_data_key

Attribute(k, off, l, big) ==
    [keybind |-> k, offset |-> off, len |-> l, lbe |-> big,
     factor |-> big, type |-> "INT32"]

MCattributes == <<Attribute(k1, 0, 2, TRUE), Attribute(k2, 3, 1, FALSE),
                  Attribute(k2, 7, 1, FALSE)>>

\* Memory that malloc returned holds zeros.
MCMalloced ==
    [a \in DOMAIN MCattributes |->
        {[i \in 0 .. (MCattributes[a].len - 1) |-> Junk]}]
=============================================================================

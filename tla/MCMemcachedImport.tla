-------------------------- MODULE MCMemcachedImport --------------------------
(***************************************************************************)
(* Two keys; one attribute of the first, which is converted, and two of    *)
(* the second, whose place in the block depends on the first one's length. *)
(***************************************************************************)
EXTENDS MemcachedImport

CONSTANTS k1, k2

MCdata_keys == <<k1, k2>>

Attribute(k, off, l, big) ==
    [keybind |-> k, offset |-> off, len |-> l, lbe |-> big,
     factor |-> big, type |-> "INT32"]

MCattributes == <<Attribute(k1, 0, 2, TRUE), Attribute(k2, 0, 1, FALSE),
                  Attribute(k2, 1, 1, FALSE)>>

\* Memory that malloc returned may hold zeros, or by chance the value.
Leftovers(v) ==
    {[i \in 0 .. (v.len - 1) |-> Junk],
     [i \in 0 .. (v.len - 1) |-> Byte(v.keybind, [ver |-> 1], v.offset + i)]}

MCMalloced == [a \in DOMAIN MCattributes |-> Leftovers(MCattributes[a])]
===============================================================================

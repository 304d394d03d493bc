--------------------------- MODULE MCMemcachedDriver ---------------------------
(***************************************************************************)
(* Two keys fetched in order; k1's value changes length, so that k2 moves  *)
(* in the block.                                                           *)
(***************************************************************************)
EXTENDS MemcachedDriver

CONSTANTS k1, k2

MCdata_keys == <<k1, k2>>
===============================================================================

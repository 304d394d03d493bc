---------------------------- MODULE MCPosixImport ----------------------------
(***************************************************************************)
(* Three attributes, one column each.                                      *)
(***************************************************************************)
EXTENDS PosixImport

Attribute(scaled) ==
    [keybind |-> "", offset |-> 0, len |-> 1, lbe |-> FALSE,
     factor |-> scaled, type |-> "DOUBLE"]

MCattributes == <<Attribute(TRUE), Attribute(FALSE), Attribute(FALSE)>>

\* Zeroed memory, or by chance the first line's value.
MCMalloced ==
    [a \in DOMAIN MCattributes |-> {Parsed(0, 0), Parsed(a, 1)}]

\* In freed memory: no token, or one of no line.
MCLeftovers == {[col |-> 0, ver |-> 0], [col |-> 1, ver |-> 0]}

\* current_hash of a new driver, which no constructor sets: no line's hash.
\* That it might by chance be the first line's is left out.
MCHashLeft == {Hash(0, 0)}
===============================================================================

--------------------------- MODULE MCAttributeOffLen ---------------------------
(***************************************************************************)
(* Every type, alone and as an array; lengths left out, of one element and *)
(* of two; numbers with and without a factor.                              *)
(***************************************************************************)
EXTENDS AttributeOffLen

Described(types, vectors, lens, factors) ==
    [type : types, vector : vectors, len : lens, lbe : {"null", "true", "false"},
     factor : factors]

\* Always whole elements.
MCDescriptions ==
    Described(TypeName, BOOLEAN, {Absent}, BOOLEAN)
    \cup Described(TypeName, {TRUE}, {16}, {FALSE})
    \cup Described({"string", "binary"}, {FALSE}, {2, 16}, {FALSE})
================================================================================

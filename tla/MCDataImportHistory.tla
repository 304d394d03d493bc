------------------------- MODULE MCDataImportHistory -------------------------
(***************************************************************************)
(* Two keys of two bytes each: an INT32 of the first, in the other byte    *)
(* order, an INT64 and a byte of the second behind it, and an attribute    *)
(* that reaches beyond the block.                                          *)
(***************************************************************************)
EXTENDS DataImportHistory

CONSTANTS k1, k2

MCdata_keys == <<k1, k2>>

Attribute(k, at, off, l, big, type) ==
    [keybind |-> k, at |-> at, offset |-> off, len |-> l, lbe |-> big, type |-> type]

MCattributes == <<Attribute(k1, 0, 0, 2, TRUE, "INT32"),
                  Attribute(k2, 0, 2, 2, TRUE, "INT64"),
                  Attribute(k2, 1, 3, 1, FALSE, "OTHER"),
                  Attribute(k2, 1, 3, 2, FALSE, "OTHER")>>
==============================================================================

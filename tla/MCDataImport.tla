----------------------------- MODULE MCDataImport -----------------------------
(***************************************************************************)
(* Two attributes over a driver that may answer anything: an INT32 in the  *)
(* other byte order, with a factor, and an array, which no filter touches. *)
(* Bytes are 0 (of a fresh dataset), 1 and 2.                              *)
(***************************************************************************)
EXTENDS DataImport

MCattributes == <<[keybind |-> 0, offset |-> 0, len |-> 2, lbe |-> TRUE,
                   factor |-> TRUE, type |-> "INT32"],
                  [keybind |-> 0, offset |-> 2, len |-> 1, lbe |-> TRUE,
                   factor |-> FALSE, type |-> "OTHER"]>>
MCContent == <<{[i \in 0 .. 1 |-> IF i = 0 THEN x ELSE 1] : x \in 1 .. 2},
               {[i \in 0 .. 0 |-> x] : x \in 1 .. 2}>>
MCMalloced == <<{Fresh(1).bytes} \cup MCContent[1],
                {Fresh(2).bytes} \cup MCContent[2]>>
MCFetchError == {80, 81, 82}
===============================================================================

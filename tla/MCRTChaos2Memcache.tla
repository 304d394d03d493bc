-------------------------- MODULE MCRTChaos2Memcache --------------------------
(***************************************************************************)
(* The unit that stores a row, and the conversions of an attribute's       *)
(* bytes: two machines that have nothing to do with each other, of which a *)
(* behaviour runs one.                                                     *)
(*                                                                         *)
(* Two outputs with an input between them, declared with one byte each; a  *)
(* value may also be empty or take three, so that a run copies up to six   *)
(* bytes where four were allocated.                                        *)
(***************************************************************************)
EXTENDS RTChaos2Memcache, MCAttributeOffLen

VARIABLE machine

MCrattrs == <<[output |-> TRUE, declared |-> 1], [output |-> FALSE, declared |-> 1],
              [output |-> TRUE, declared |-> 1]>>

EitherInit ==
    /\ Init
    /\ ConversionInit
    /\ machine \in {"exporter", "conversions"}
    /\ machine = "exporter" => it = Json2Attribute(CHOOSE d \in Descriptions : TRUE)

EitherNext ==
    \/ machine = "exporter" /\ Next /\ UNCHANGED <<machine, conversionVars>>
    \/ machine = "conversions" /\ ConversionNext /\ UNCHANGED <<machine, vars>>

EitherSpec == EitherInit /\ [][EitherNext]_<<machine, vars, conversionVars>>
===============================================================================

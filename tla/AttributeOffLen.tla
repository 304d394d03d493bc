---------------------------- MODULE AttributeOffLen ----------------------------
(***************************************************************************)
(* The description of one attribute and the four places that convert its   *)
(* bytes between the order on the wire and the order of the host: the two  *)
(* copy functions, the filter in unitRun of DataImport and the one in      *)
(* unitRun of DataImportHistory.  The host is little-endian.               *)
(*                                                                         *)
(* A byte is its position in the datablock, a byte of a product a number   *)
(* above all those; a negative one is what the memory behind the           *)
(* attribute's buffer held before.                                         *)
(***************************************************************************)
EXTENDS Integers, Sequences, SequencesExt

CONSTANTS
    Descriptions, \* attributes as the configuration may describe them
    Top           \* last byte of the memory that is modelled

Absent == 0

Numeric == {"INT32", "INT64", "DOUBLE"}
TypeName == {"int32", "uint32", "int64", "uint64", "double", "string",
             "binary", "bool"}

ASSUME DescriptionAssumption ==
    /\ Top \in Nat
    /\ Descriptions \subseteq [type : TypeName, vector : BOOLEAN, len : Nat,
                               lbe : {"null", "true", "false"},
                               factor : BOOLEAN]

VARIABLES
    it,        \* the AttributeOffLen
    it_buffer, \* memory from its buffer on
    back,      \* memory that copy(ptr, it) wrote into
    did        \* the converter that ran last

conversionVars == <<it, it_buffer, back, did>>

Memory == 0 .. Top
wire == [n \in Memory |-> n]
Before == [n \in Memory |-> -1 - n]

-----------------------------------------------------------------------------
\* decodeType looks for substrings in this order, so that "uint32" is found
\* as "int32": no attribute is unsigned.
DecodedType ==
    [int32 |-> "INT32", uint32 |-> "INT32", int64 |-> "INT64",
     uint64 |-> "INT64", double |-> "DOUBLE", string |-> "STRING",
     binary |-> "BYTEARRAY", bool |-> "BOOLEAN"]

\* Characters of a string and of a byte array, 256 in the source.
MaxText == 3

SizeOf == [INT32 |-> 4, INT64 |-> 8, DOUBLE |-> 8, STRING |-> MaxText,
           BYTEARRAY |-> MaxText, BOOLEAN |-> 1]

\* json2Attribute.  An array is as long as one element unless len says more.
Json2Attribute(d) ==
    LET type == DecodedType[d.type]
    IN  [type |-> type, vector |-> d.vector, lbe |-> d.lbe = "true",
         factor |-> d.factor,
         len |-> IF d.len = Absent THEN SizeOf[type] ELSE d.len]

-----------------------------------------------------------------------------
(* The copy functions, between buffer and another place in memory.         *)

\* totsize, which the loop increases by whole elements.
TotSize(v) ==
    LET s == SizeOf[v.type]
    IN  IF v.type \in Numeric THEN s * ((v.len + s - 1) \div s) ELSE v.len

\* Seeded fault: only the first element's bytes swapped.
SwapFirstOnly(v, n) ==
    LET s == SizeOf[v.type]
    IN  IF v.lbe /\ v.type \in Numeric /\ n < s THEN s - 1 - n ELSE n

Swapped(v, n) ==
    LET s == SizeOf[v.type]
    IN  IF v.lbe /\ v.type \in Numeric THEN s * (n \div s) + s - 1 - (n % s) ELSE n

CopyIn(v, from, to) ==
    [n \in Memory |-> IF n < TotSize(v) THEN from[Swapped(v, n)] ELSE to[n]]

\* Seeded fault: the bytes sent as the host has them.
CopyOutUnswapped(v, from, to) ==
    [n \in Memory |-> IF n < TotSize(v) THEN from[n] ELSE to[n]]
CopyOut(v, from, to) ==
    [n \in Memory |-> IF n < TotSize(v) THEN from[Swapped(v, n)] ELSE to[n]]

Memcpy(v, from, to) == [n \in Memory |-> IF n < v.len THEN from[n] ELSE to[n]]

-----------------------------------------------------------------------------
(* The filters of the two control units, in place on buffer.               *)

SwapAt(width, b) ==
    [n \in Memory |-> IF n < width THEN b[width - 1 - n] ELSE b[n]]

\* Byte n of factor times the number that ends in byte lowest, which tells
\* the number in the order of the host from one that is not.
ProductByte(n, lowest) == (Top + 1) * (n + 1) + lowest

Scale(width, b) ==
    [n \in Memory |-> IF n < width THEN ProductByte(n, b[0]) ELSE b[n]]

InHostOrder(v, b) ==
    IF v.type \in Numeric /\ v.lbe THEN SwapAt(SizeOf[v.type], b) ELSE b

\* INT64 has no factor.
Multiplied(v, b) ==
    IF v.factor /\ v.type \in {"INT32", "DOUBLE"} THEN Scale(SizeOf[v.type], b)
    ELSE b

\* Seeded fault: the factor applied to the number as it came.
MultipliesFirst(v, b) ==
    IF v.vector THEN b ELSE InHostOrder(v, Multiplied(v, b))

\* Arrays match no case of the switch.
UnitRunFilter(v, b) ==
    IF v.vector THEN b ELSE Multiplied(v, InHostOrder(v, b))

\* Seeded fault: a break after the case of TYPE_INT64 alone.
HistoryBreaksOnce(v, b) ==
    CASE v.vector \/ ~v.lbe  -> b
      [] ~v.vector /\ v.lbe  ->
           CASE v.type = "INT32"            -> SwapAt(8, SwapAt(4, b))
             [] v.type \in {"INT64", "DOUBLE"} -> SwapAt(8, b)
             [] v.type \notin Numeric       -> b

\* The cases fall through: a swap of 4 bytes is followed by two of 8, and one
\* of 8 by another one.
HistoryFilter(v, b) ==
    CASE v.vector \/ ~v.lbe  -> b
      [] ~v.vector /\ v.lbe  ->
           CASE v.type = "INT32"      -> SwapAt(8, SwapAt(8, SwapAt(4, b)))
             [] v.type = "INT64"      -> SwapAt(8, SwapAt(8, b))
             [] v.type = "DOUBLE"     -> SwapAt(8, b)
             [] v.type \notin Numeric -> b

-----------------------------------------------------------------------------
\* attribute2CDW: the elements of an array, the one value of the type, or
\* the whole text.
Attribute2CDW(v, b) ==
    LET fixed == v.type \in Numeric \cup {"BOOLEAN"}
        s == IF fixed THEN SizeOf[v.type] ELSE v.len
        count == IF v.vector /\ fixed THEN v.len \div s ELSE 1
    IN  [e \in 1 .. count |-> [n \in 1 .. s |-> b[s * (e - 1) + n - 1]]]

-----------------------------------------------------------------------------
ConversionInit ==
    /\ it \in {Json2Attribute(d) : d \in Descriptions}
    /\ it_buffer = Before
    /\ back = Before
    /\ did = "nothing"

\* readDataOffset(v)
Receive ==
    /\ it_buffer' = CopyIn(it, wire, it_buffer)
    /\ did' = "copy"
    /\ UNCHANGED <<it, back>>

\* updateProperties: a memcpy and a copy of the buffer onto itself.
UpdateProperty ==
    /\ LET read == Memcpy(it, wire, it_buffer)
       IN  it_buffer' = CopyOut(it, read, read)
    /\ did' = "copy"
    /\ UNCHANGED <<it, back>>

\* copy(ptr, it) to a place of a client's own (the sources only call it on
\* the buffer itself).
Send ==
    /\ did = "copy"
    /\ back' = CopyOut(it, it_buffer, back)
    /\ did' = "send"
    /\ UNCHANGED <<it, it_buffer>>

UnitRun ==
    /\ it_buffer' = UnitRunFilter(it, Memcpy(it, wire, it_buffer))
    /\ did' = "unitRun"
    /\ UNCHANGED <<it, back>>

HistoryUnitRun ==
    /\ it_buffer' = HistoryFilter(it, Memcpy(it, wire, it_buffer))
    /\ did' = "history"
    /\ UNCHANGED <<it, back>>

ConversionNext ==
    \/ Receive
    \/ UpdateProperty
    \/ Send
    \/ UnitRun
    \/ HistoryUnitRun

ConversionSpec == ConversionInit /\ [][ConversionNext]_conversionVars

-----------------------------------------------------------------------------
(* The reference: the block cut into elements, each reversed as a sequence *)
(* when the attribute is big-endian.                                       *)

ElementSize(v) == IF v.type \in Numeric THEN SizeOf[v.type] ELSE v.len

Elements(v) ==
    LET s == ElementSize(v)
    IN  [e \in 1 .. (v.len \div s) |-> [n \in 1 .. s |-> s * (e - 1) + n - 1]]

HostElements(v) ==
    [e \in DOMAIN Elements(v) |->
        IF v.lbe /\ v.type \in Numeric THEN Reverse(Elements(v)[e])
        ELSE Elements(v)[e]]

\* b holds the elements of v one after the other.
Holds(v, b, elements) ==
    \A e \in DOMAIN elements : \A n \in DOMAIN elements[e] :
        b[ElementSize(v) * (e - 1) + n - 1] = elements[e][n]

\* What a dataset is to show of a scalar that has a factor, INT64 left out.
Shown(v) ==
    LET host == HostElements(v)
    IN  IF v.factor /\ v.type \in {"INT32", "DOUBLE"}
        THEN [e \in DOMAIN host |->
                 [n \in DOMAIN host[e] |-> ProductByte(n - 1, host[e][1])]]
        ELSE host

\* After the filter of DataImport's unitRun the dataset shows a scalar as the
\* block's number in the order of the host, and a number with a factor as
\* the product with that very number: the order is converted first.  A block
\* of lbe true is taken for big-endian, as AttributeOffLen.h:23 has it.
\* (Arrays are not converted at all, and copy() applies no factor.)
HostOrderDelivered ==
    did = "unitRun" /\ ~it.vector => Holds(it, it_buffer, Shown(it))

\* What copy() brought in and copy() sends out again is the block byte by
\* byte: a sender and a receiver of one description understand each other.
RoundTrip == did = "send" => \A n \in 0 .. (it.len - 1) : back[n] = wire[n]

\* No converter leaves a byte behind the attribute's len other than it was.
NeighboursKept == \A n \in Memory : n >= it.len => it_buffer[n] = Before[n]

\* The properties of a DANTE element show the numbers that the block holds,
\* every element with all of its bytes in the order of the host, when lbe
\* true means a big-endian block, as AttributeOffLen.h:23 has it.  (Of which
\* sign the number is the bytes do not say; every one is published signed.)
ValuesPublished ==
    did = "copy" /\ it.type \in Numeric =>
        Attribute2CDW(it, it_buffer) = HostElements(it)

\* DataImport.cpp:94 and RTGenericDanteCU.cpp:84 document lbe true as little
\* endian: on this host such a number needs no conversion, and is taken over
\* as it stands in the block.
LbeIsLittle ==
    did = "unitRun" /\ it.lbe /\ ~it.factor =>
        \A n \in 0 .. (it.len - 1) : it_buffer[n] = wire[n]
================================================================================

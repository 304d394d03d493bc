------------------------------ MODULE DataImport ------------------------------
(***************************************************************************)
(* The control unit: unitRun of DataImport over a driver it knows only by  *)
(* what fetchNewDatablock and readAttribute return.  One cycle fetches a   *)
(* block, reads every attribute out of it into the output dataset,         *)
(* converts it, and marks the dataset as changed when some attribute's     *)
(* bytes differ from the ones kept in old_buffer.  The unit may be started *)
(* and stopped any number of times.                                        *)
(***************************************************************************)
EXTENDS Integers, Sequences

CONSTANTS
    attribute_off_len_vec, \* the attributes, in reading order
    KeyBind,               \* what an attribute may be bound to
    ByteValue,             \* what one byte can hold
    Blank,                 \* the byte of a fresh output dataset
    Malloced,              \* Malloced[a]: contents old_buffer may start with
    FetchError,            \* what the driver's fetch may return beside 0
    Content                \* Content[a]: bytes the driver may deliver for a

NO_CHANGE == 80  \* DATA_IMPORT_NO_CHANGE, 0x50

Attr == DOMAIN attribute_off_len_vec

Numeric == {"INT32", "INT64", "DOUBLE"}
Type == Numeric \cup {"OTHER"}   \* arrays, strings, bytes, booleans

Bytes(n) == [0 .. (n - 1) -> ByteValue]

AttributeOffLen == [keybind : KeyBind, offset : Nat, len : Nat \ {0},
                    lbe : BOOLEAN, factor : BOOLEAN, type : Type]

ASSUME AttributeAssumption == attribute_off_len_vec \in Seq(AttributeOffLen)
ASSUME ByteAssumption ==
    /\ Blank \in ByteValue
    /\ \A a \in Attr : Malloced[a] \subseteq Bytes(attribute_off_len_vec[a].len)
    /\ \A a \in Attr : Content[a] \subseteq Bytes(attribute_off_len_vec[a].len)
ASSUME ErrorAssumption == FetchError \subseteq Int \ {0}

VARIABLES
    cu_pc,               \* "fetch" or "read": where unitRun stands; "idle"
                         \* between two runs, "down" after unitDeinit, "failed"
                         \* when unitInit threw
    ai,                  \* its iterator over the attributes
    buffer,              \* the output dataset, attribute by attribute
    old_buffer,          \* the raw bytes of the last successful read
    changed,             \* unitRun's local of that name
    fetching_key,        \* the two alarms: TRUE is severity High
    fetching_data_block,
    driver_interface,    \* the pointer: "live", or "deleted" and kept
    published            \* the last dataset handed on, with its alarm

cuVars == <<cu_pc, ai, buffer, old_buffer, changed, fetching_key,
            fetching_data_block, driver_interface, published>>
alarms == <<fetching_key, fetching_data_block>>

\* An output attribute: its bytes, and whether its factor was applied.
Buffer(a) == [bytes : Bytes(attribute_off_len_vec[a].len), scaled : BOOLEAN]

Raw(b) == [bytes |-> b, scaled |-> FALSE]

Fresh(a) ==
    Raw([i \in 0 .. (attribute_off_len_vec[a].len - 1) |-> Blank])

\* A unit initialised for the first time.  old_buffer comes from malloc and
\* is compared before it is ever written.
Init ==
    /\ cu_pc = "idle"
    /\ ai = 1
    /\ buffer = [a \in Attr |-> Fresh(a)]
    /\ old_buffer \in [Attr -> UNION {Malloced[a] : a \in Attr}]
    /\ \A a \in Attr : old_buffer[a] \in Malloced[a]
    /\ changed = FALSE
    /\ fetching_key = FALSE
    /\ fetching_data_block = FALSE
    /\ driver_interface = "live"
    /\ published = [pushed |-> FALSE, alarm |-> FALSE, dataset |-> buffer]

-----------------------------------------------------------------------------
(* The filter.  On the little-endian hosts this runs on byte_swap to       *)
(* big_endian reverses the bytes and byte_swap to little_endian keeps      *)
(* them.  Array types match no case of the switch, and INT64 has no factor.*)

Reversed(b, n) == [i \in 0 .. (n - 1) |-> b[n - 1 - i]]

Filter(a, b) ==
    LET v == attribute_off_len_vec[a]
    IN  [bytes |-> IF v.lbe /\ v.type \in Numeric THEN Reversed(b, v.len) ELSE b,
         scaled |-> v.factor /\ v.type \in {"INT32", "DOUBLE"}]

-----------------------------------------------------------------------------
(* unitRun                                                                 *)

\* Seeded fault: the attributes counted from 0.
StartAtZero ==
    /\ cu_pc = "idle"
    /\ cu_pc' = "fetch"
    /\ ai' = 0
    /\ changed' = FALSE
    /\ fetching_key' = FALSE
    /\ fetching_data_block' = FALSE
    /\ UNCHANGED <<buffer, old_buffer, driver_interface, published>>

StartCycle ==
    /\ cu_pc = "idle"
    /\ cu_pc' = "fetch"
    /\ ai' = 1
    /\ changed' = FALSE
    /\ fetching_key' = FALSE
    /\ fetching_data_block' = FALSE
    /\ UNCHANGED <<buffer, old_buffer, driver_interface, published>>

FetchReturned(err) ==
    /\ cu_pc = "fetch"
    /\ cu_pc' = IF err = 0 THEN "read" ELSE "idle"
    /\ fetching_data_block' = (err \notin {0, NO_CHANGE})
    /\ UNCHANGED <<ai, buffer, old_buffer, changed, fetching_key,
                   driver_interface, published>>

AtAttribute(a) ==
    /\ cu_pc = "read"
    /\ ai \in Attr
    /\ a = ai
    /\ ai' = ai + 1

\* Seeded fault: no alarm for a failed read.
ReadFailedSilently(a, left) ==
    /\ AtAttribute(a)
    /\ buffer' = [buffer EXCEPT ![a] = left]
    /\ UNCHANGED <<cu_pc, old_buffer, changed, alarms, driver_interface,
                   published>>

\* readAttribute returned an error and left in the attribute's buffer
\* whatever the driver had copied there before it reported it.
ReadFailed(a, left) ==
    /\ AtAttribute(a)
    /\ buffer' = [buffer EXCEPT ![a] = left]
    /\ fetching_key' = TRUE
    /\ UNCHANGED <<cu_pc, old_buffer, changed, fetching_data_block,
                   driver_interface, published>>

\* Seeded fault: the last attribute alone decides whether something changed.
LastReadDecides(a, b) ==
    /\ AtAttribute(a)
    /\ changed' = (b # old_buffer[a])
    /\ old_buffer' = [old_buffer EXCEPT ![a] = b]
    /\ buffer' = [buffer EXCEPT ![a] = Filter(a, b)]
    /\ UNCHANGED <<cu_pc, alarms, driver_interface, published>>

ReadOk(a, b) ==
    /\ AtAttribute(a)
    /\ changed' = (changed \/ b # old_buffer[a])
    /\ old_buffer' = [old_buffer EXCEPT ![a] = b]
    /\ buffer' = [buffer EXCEPT ![a] = Filter(a, b)]
    /\ UNCHANGED <<cu_pc, alarms, driver_interface, published>>

\* setOutputDomainAsChanged makes the framework hand on the output dataset
\* as it stands when unitRun returns.
EndCycle ==
    /\ cu_pc = "read"
    /\ ai \notin Attr
    /\ cu_pc' = "idle"
    /\ published' = IF changed
                    THEN [pushed |-> TRUE, alarm |-> fetching_key,
                          dataset |-> buffer]
                    ELSE published
    /\ UNCHANGED <<ai, buffer, old_buffer, changed, alarms, driver_interface>>

-----------------------------------------------------------------------------
(* The life of the unit.  The framework calls unitDeinit once after each   *)
(* unitInit, the one that threw included, and may start the unit again.    *)

\* Seeded fault: an interface made only when the pointer is NULL.
UnitInitOnce ==
    /\ cu_pc = "down"
    /\ cu_pc' = "idle"
    /\ buffer' \in {buffer, [a \in Attr |-> Fresh(a)]}
    /\ UNCHANGED <<ai, old_buffer, changed, alarms, driver_interface, published>>

\* The pointers into the output dataset are taken anew; the framework may
\* have made a new dataset.  old_buffer stays as the last life left it.
UnitInit ==
    /\ cu_pc = "down"
    /\ cu_pc' = "idle"
    /\ driver_interface' = "live"
    /\ buffer' \in {buffer, [a \in Attr |-> Fresh(a)]}
    /\ UNCHANGED <<ai, old_buffer, changed, alarms, published>>

\* A pointer into the dataset is NULL; the interface exists by then.
UnitInitThrows ==
    /\ cu_pc = "down"
    /\ cu_pc' = "failed"
    /\ driver_interface' = "live"
    /\ UNCHANGED <<ai, buffer, old_buffer, changed, alarms, published>>

UnitDeinit ==
    /\ cu_pc \in {"idle", "failed"}
    /\ cu_pc' = "down"
    /\ driver_interface' = "deleted"
    /\ UNCHANGED <<ai, buffer, old_buffer, changed, alarms, published>>

Life == UnitInit \/ UnitInitThrows \/ UnitDeinit

\* Any driver: a fetch returns some code, a read delivers some bytes or fails
\* with or without having copied some.
Next ==
    \/ StartCycle
    \/ \E err \in {0} \cup FetchError : FetchReturned(err)
    \/ \E a \in Attr : \E b \in Content[a] :
          ReadOk(a, b) \/ ReadFailed(a, Raw(b))
    \/ \E a \in Attr : ReadFailed(a, buffer[a])
    \/ EndCycle
    \/ Life

Spec == Init /\ [][Next]_cuVars

-----------------------------------------------------------------------------
IsDataset(d) == d = [a \in Attr |-> d[a]] /\ \A a \in Attr : d[a] \in Buffer(a)

IsOld(d) ==
    /\ d = [a \in Attr |-> d[a]]
    /\ \A a \in Attr : d[a] \in Bytes(attribute_off_len_vec[a].len)

TypeOK ==
    /\ cu_pc \in {"idle", "fetch", "read", "down", "failed"}
    /\ ai \in 1 .. (Len(attribute_off_len_vec) + 1)
    /\ IsDataset(buffer)
    /\ IsOld(old_buffer)
    /\ changed \in BOOLEAN
    /\ fetching_key \in BOOLEAN
    /\ fetching_data_block \in BOOLEAN
    /\ driver_interface \in {"live", "deleted"}
    /\ published.pushed \in BOOLEAN
    /\ published.alarm \in BOOLEAN
    /\ IsDataset(published.dataset)

AllRead == cu_pc = "read" /\ ai \notin Attr

\* unitRun only calls through, and unitDeinit only deletes, an interface
\* that the unitInit before made: the pointer that unitDeinit leaves behind
\* is never used, through any number of restarts and failed starts.
InterfaceInUse == cu_pc # "down" => driver_interface = "live"

\* A cycle that ends in "Nothing changed" (line 262) with no failed read
\* found exactly the dataset that was handed on last, if that one was handed
\* on with no failed read either: no change of an attribute goes unpublished,
\* however many failed fetches, failed reads and restarts lie in between.
NothingMissed ==
    AllRead /\ ~changed /\ ~fetching_key /\ published.pushed /\ ~published.alarm
        => published.dataset = buffer

\* A dataset handed on with no alarm holds, for every attribute, the filtered
\* bytes of the newest successful read: a raw or half-copied buffer left by
\* a failed read is never handed on as good data, neither in its own cycle
\* nor by a later one.
CleanPush ==
    published.pushed /\ ~published.alarm /\ cu_pc = "idle"
        => \A a \in Attr : published.dataset[a] = Filter(a, old_buffer[a])
=============================================================================

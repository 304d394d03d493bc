-------------------------- MODULE DataImportHistory --------------------------
(***************************************************************************)
(* The control unit that pushes a row to a database in every run.  It      *)
(* reads its attributes by their offset in the whole block, through the    *)
(* keyless overload of readAttribute, so that it never learns which keys   *)
(* were fetched; and it never looks at whether a read failed.              *)
(***************************************************************************)
EXTENDS MemcachedDriver

CONSTANTS
    attribute_off_len_vec,  \* the attributes; keybind and at only say which
                            \* bytes of which value the offset is meant for
    Factory                 \* what DBbaseFactory::getInstance may return

Attr == DOMAIN attribute_off_len_vec

Type == {"INT32", "INT64", "DOUBLE", "OTHER"}

ASSUME AttributeAssumption ==
    attribute_off_len_vec \in
        Seq([keybind : Key, at : Nat, offset : Nat, len : Nat \ {0},
             lbe : BOOLEAN, type : Type])
ASSUME FactoryAssumption == Factory \subseteq {"instance", "NULL"}

VARIABLES
    unit,              \* "down", "failed" when unitInit threw, "ready",
                       \* "fetch", "loop" inside fetchData, or "read"
    driver_interface,  \* "NULL" or "live"
    history,           \* "NULL" or "live"
    db,                \* "NULL", "instance", "connected" or "disconnected"
    hi,                \* unitRun's iterator over the attributes
    hbuffer,           \* the output dataset, which history points into
    row                \* the row the database received last, and history: of
                       \* which attributes the driver had all keys up to
                       \* theirs, and what the last such row of each held

objects == <<driver_interface, history, db>>
historyVars == <<unit, objects, hi, hbuffer, row>>
vars == <<driverVars, historyVars>>

Fresh(a) == [i \in 0 .. (attribute_off_len_vec[a].len - 1) |-> Junk]

\* The constructor.
HistoryInit ==
    /\ Init
    /\ unit = "down"
    /\ driver_interface = "NULL"
    /\ history = "NULL"
    /\ db = "NULL"
    /\ hi = 1
    /\ hbuffer = [a \in Attr |-> Fresh(a)]
    /\ row = [sure |-> {}, dataset |-> hbuffer, last |-> hbuffer]

-----------------------------------------------------------------------------
(* The life of the unit.  The framework calls unitDeinit once after each   *)
(* unitInit, the one that threw included, and may start the unit again.    *)

\* Seeded fault: the result of connect not looked at.
ConnectUnchecked ==
    /\ unit = "down"
    /\ unit' = "ready"
    /\ driver_interface' = "live"
    /\ history' = "live"
    /\ "instance" \in Factory
    /\ db' \in {"connected", "instance"}
    /\ hbuffer' \in {hbuffer, [a \in Attr |-> Fresh(a)]}
    /\ UNCHANGED <<driverVars, hi, row>>

UnitInit ==
    /\ unit = "down"
    /\ unit' = "ready"
    /\ driver_interface' = "live"
    /\ history' = "live"
    /\ "instance" \in Factory
    /\ db' = "connected"
    /\ hbuffer' \in {hbuffer, [a \in Attr |-> Fresh(a)]}
    /\ UNCHANGED <<driverVars, hi, row>>

\* unitInit throws: in DataImport::unitInit or for a db description that is
\* not complete, before db is assigned; when the factory returns NULL; or
\* after history was made, for a NULL pointer or a connect that fails.
UnitInitThrows ==
    /\ unit = "down"
    /\ unit' = "failed"
    /\ driver_interface' = "live"
    /\ \/ UNCHANGED <<history, db>>
       \/ "NULL" \in Factory /\ db' = "NULL" /\ UNCHANGED history
       \/ "instance" \in Factory /\ db' = "instance" /\ history' = "live"
    /\ UNCHANGED <<driverVars, hi, hbuffer, row>>

\* db itself is kept, and disconnected even if it never was connected.
UnitDeinit ==
    /\ unit \in {"ready", "failed"}
    /\ unit' = "down"
    /\ driver_interface' = "NULL"
    /\ history' = "NULL"
    /\ db' = IF db = "NULL" THEN "NULL" ELSE "disconnected"
    /\ UNCHANGED <<driverVars, hi, hbuffer, row>>

-----------------------------------------------------------------------------
(* unitRun                                                                 *)

StartRun ==
    /\ unit = "ready"
    /\ unit' = "fetch"
    /\ hi' = 1
    /\ UNCHANGED <<driverVars, objects, hbuffer, row>>

\* Seeded fault: the time stamp renewed by a fetch that fetches nothing.
ThrottleRestarts ==
    /\ unit = "fetch"
    /\ ~Due(NoKey)
    /\ unit' = "read"
    /\ age' = [age EXCEPT ![NoKey] = 0]
    /\ UNCHANGED <<envVars, blockVars, loopVars, objects, hi, hbuffer, row>>

\* Within the throttle window the block is read as it stands.
FetchThrottled ==
    /\ unit = "fetch"
    /\ ~Due(NoKey)
    /\ unit' = "read"
    /\ UNCHANGED <<driverVars, objects, hi, hbuffer, row>>

FetchStarts ==
    /\ unit = "fetch"
    /\ StartFetch(NoKey)
    /\ unit' = "loop"
    /\ UNCHANGED <<objects, hi, hbuffer, row>>

\* Neither the driver's fetch nor its loop ever reports an error.
FetchLoop ==
    /\ unit = "loop"
    /\ GetStep
    /\ unit' = IF pc' = "idle" THEN "read" ELSE "loop"
    /\ UNCHANGED <<objects, hi, hbuffer, row>>

\* AbstractDataImportDriver::readDataOffset: the block's own bytes, and an
\* error only for a range that leaves the block.
InBlock(v) == InRange(v.offset, v.len)

\* What the cases of the switch, which fall through, do to the attribute's
\* own bytes: the INT32 is swapped once, the INT64 twice, the DOUBLE once.
Filter(v, b) ==
    IF v.lbe /\ v.type \in {"INT32", "DOUBLE"}
    THEN [i \in DOMAIN b |-> b[v.len - 1 - i]]
    ELSE b

ReadAttribute ==
    /\ unit = "read"
    /\ hi \in Attr
    /\ LET v == attribute_off_len_vec[hi] IN
       hbuffer' = IF InBlock(v)
                  THEN [hbuffer EXCEPT ![hi] = Filter(v, ReadBytes(NoKey, v.offset, v.len))]
                  ELSE hbuffer
    /\ hi' = hi + 1
    /\ UNCHANGED <<driverVars, unit, objects, row>>

\* The keys up to k in data_keys, which decide where k lies in the block.
UpTo(k) ==
    {data_keys[i] : i \in {i \in DOMAIN data_keys :
                              \A j \in 1 .. (i - 1) : data_keys[j] # k}}

Sure(a) ==
    /\ InBlock(attribute_off_len_vec[a])
    /\ \A k \in UpTo(attribute_off_len_vec[a].keybind) : data_results[k]

\* pushData and setOutputDomainAsChanged, whatever the reads returned.
PushData ==
    /\ unit = "read"
    /\ hi \notin Attr
    /\ unit' = "ready"
    /\ row' = [sure |-> {a \in Attr : Sure(a)},
               dataset |-> hbuffer,
               last |-> [a \in Attr |-> IF Sure(a) THEN hbuffer[a]
                                        ELSE row.last[a]]]
    /\ UNCHANGED <<driverVars, objects, hi, hbuffer>>

RunStep ==
    \/ StartRun
    \/ FetchThrottled
    \/ FetchStarts
    \/ FetchLoop
    \/ ReadAttribute
    \/ PushData

HistoryNext ==
    \/ UnitInit
    \/ UnitInitThrows
    \/ UnitDeinit
    \/ RunStep
    \/ Environment /\ UNCHANGED historyVars

\* The framework runs an initialised unit over and over, and time passes.
HistorySpec ==
    /\ HistoryInit
    /\ [][HistoryNext]_vars
    /\ WF_vars(RunStep)
    /\ WF_vars(Tick /\ UNCHANGED historyVars)

-----------------------------------------------------------------------------
\* The bytes that attribute a is meant for, in version ver of its key's value.
Own(a, ver) ==
    LET w == attribute_off_len_vec[a]
    IN  Filter(w, [i \in 0 .. (w.len - 1) |->
                      [key |-> w.keybind, ver |-> ver, idx |-> w.at + i]])

KeyOf(a) == attribute_off_len_vec[a].keybind

\* In a row pushed after a pass that found an attribute's key and all the
\* keys before it, that attribute holds its own bytes, converted, and shares
\* one version with the others of its key, although the reads knew neither
\* key nor result: whatever was missed in earlier passes, whatever a throttled
\* run pushed before, and through restarts.  (A value of a key always has the
\* same length here; a row pushed after a miss further ahead holds whatever
\* slid to the offset.)
RowOwn ==
    \A k \in Key : \E ver \in 0 .. MaxVersion :
        \A a \in row.sure : KeyOf(a) = k => row.dataset[a] = Own(a, ver)

\* The database never receives an older version of such an attribute after
\* a newer one, whatever rows of shifted bytes it received in between.
RowsForward ==
    [][\A a \in Attr : row'.last[a][0].ver >= row.last[a][0].ver]_vars

\* A run pushes to a database that connected, a dataset and through an
\* interface that the last unitInit made, whichever starts failed before; and
\* a unit that is down has dropped both, so that no unitInit loses one.
ObjectsInUse ==
    /\ unit \in {"ready", "fetch", "loop", "read"} =>
          db = "connected" /\ history = "live" /\ driver_interface = "live"
    /\ unit = "down" => history = "NULL" /\ driver_interface = "NULL"

\* Once every server answers for good and the unit stays up, the newest row
\* holds the current values, again and again: a row of shifted or stale bytes
\* is always followed by a right one.
Recorded ==
    <>[](/\ \A k \in Key : Answers(k)
         /\ unit \notin {"down", "failed"}) =>
        []<>(\A a \in Attr : InBlock(attribute_off_len_vec[a]) =>
                row.dataset[a] = Own(a, server[KeyOf(a)].ver))
==============================================================================

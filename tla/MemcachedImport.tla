--------------------------- MODULE MemcachedImport ---------------------------
(***************************************************************************)
(* A DataImport control unit on its MemcachedDataImporterDriver.  The unit *)
(* calls the driver directly (DataImportDriverInterface), so a fetch and   *)
(* the reads after it run in one thread, one after the other, while the    *)
(* servers and the clock go on.                                            *)
(***************************************************************************)
EXTENDS MemcachedDriver

CONSTANTS attribute_off_len_vec, Malloced

VARIABLES cu_pc, ai, buffer, old_buffer, changed, fetching_key,
          fetching_data_block, driver_interface, published,
          clean        \* history: the last dataset handed on with no alarm

CU == INSTANCE DataImport WITH
        KeyBind <- MapKey,
        ByteValue <- Cell,
        Blank <- Junk,
        FetchError <- {},
        Content <- [a \in DOMAIN attribute_off_len_vec |->
                      [0 .. (attribute_off_len_vec[a].len - 1) -> Cell]]

cuVars == <<cu_pc, ai, buffer, old_buffer, changed, fetching_key,
            fetching_data_block, driver_interface, published>>
importVars == <<driverVars, cuVars, clean>>

Attr == DOMAIN attribute_off_len_vec

\* The assumptions that DataImport makes of its attributes, over this driver.
ASSUME AttributeAssumption ==
    /\ attribute_off_len_vec \in
           Seq([keybind : MapKey, offset : Nat, len : Nat \ {0},
                lbe : BOOLEAN, factor : BOOLEAN, type : CU!Type])
    /\ \A a \in Attr : \A b \in Malloced[a] :
           b \in [0 .. (attribute_off_len_vec[a].len - 1) -> Cell]

\* The unit is the driver's only client, and fetches with no key.
ASSUME ClientAssumption == FetchArg = {NoKey}

KeyOf(a) == attribute_off_len_vec[a].keybind

\* Before anything is handed on, clean is a dataset that nobody wrote.
ImportInit == Init /\ CU!Init /\ clean = published.dataset

RememberClean ==
    clean' = IF published'.pushed /\ ~published'.alarm
             THEN published'.dataset
             ELSE clean

-----------------------------------------------------------------------------
StartCycle == CU!StartCycle /\ UNCHANGED driverVars

\* Seeded fault: the time stamp renewed by a fetch that fetches nothing.
ThrottleRestarts ==
    /\ pc = "idle"
    /\ ~Due(NoKey)
    /\ CU!FetchReturned(0)
    /\ age' = [age EXCEPT ![NoKey] = 0]
    /\ UNCHANGED <<envVars, blockVars, loopVars>>

\* fetchNewDatablock: the clients of a DataImport unit fetch with no key.
FetchThrottled ==
    /\ pc = "idle"
    /\ ~Due(NoKey)
    /\ CU!FetchReturned(0)
    /\ UNCHANGED driverVars

FetchStarts ==
    /\ cu_pc = "fetch"
    /\ StartFetch(NoKey)
    /\ UNCHANGED cuVars

\* With no key nothing is passed over.
FetchGets(k) ==
    /\ GetMiss(k) \/ GetHit(k) \/ GetTooBig(k)
    /\ UNCHANGED cuVars

FetchEnds == EndFetch /\ CU!FetchReturned(0)

\* The bytes of attribute a where readDataOffset looks for them.
Delivered(a) ==
    ReadBytes(KeyOf(a), attribute_off_len_vec[a].offset,
              attribute_off_len_vec[a].len)

ReturnCode(a) ==
    ReadRet(KeyOf(a), attribute_off_len_vec[a].offset,
            attribute_off_len_vec[a].len)

\* A key whose last get failed is reported after its bytes were copied; a
\* range beyond the block is reported before anything is.
ReadAttribute(a) ==
    /\ \/ ReturnCode(a) = 0 /\ CU!ReadOk(a, Delivered(a))
       \/ ReturnCode(a) = 1 /\ CU!ReadFailed(a, CU!Raw(Delivered(a)))
       \/ ReturnCode(a) = -1 /\ CU!ReadFailed(a, buffer[a])
    /\ UNCHANGED driverVars

EndCycle == CU!EndCycle /\ UNCHANGED driverVars

UnitStep ==
    \/ StartCycle
    \/ FetchThrottled
    \/ FetchStarts
    \/ \E k \in Key : FetchGets(k)
    \/ FetchEnds
    \/ \E a \in Attr : ReadAttribute(a)
    \/ EndCycle

ImportNext ==
    /\ UnitStep \/ (Environment /\ UNCHANGED cuVars)
    /\ RememberClean

ImportSpec == ImportInit /\ [][ImportNext]_importVars

\* The framework schedules the unit over and over, and time passes.
FairImportSpec ==
    /\ ImportSpec
    /\ WF_importVars(UnitStep /\ RememberClean)
    /\ WF_importVars(Tick /\ UNCHANGED cuVars /\ RememberClean)

-----------------------------------------------------------------------------
\* The bytes of attribute a in a value of its key.
OwnBytes(a, v) ==
    [i \in 0 .. (attribute_off_len_vec[a].len - 1) |->
        Byte(KeyOf(a), v, attribute_off_len_vec[a].offset + i)]

\* Between two cycles the buffer of an attribute whose key is reported good
\* holds that key's bytes, at that attribute's offset, converted (every
\* value being long enough for the attributes cut out of it): never
\* those of the neighbour in the block, nor bytes that an earlier cycle
\* left there or that were never converted.
GoodBuffersAreOwn ==
    cu_pc = "idle" =>
        \A a \in Attr : data_results[KeyOf(a)] =>
            buffer[a] = CU!Filter(a, OwnBytes(a, answer[KeyOf(a)]))

\* Attributes of one key handed on together with no alarm were cut out of
\* one version of its value: a value replaced during the cycle, or moved in
\* the block by a longer one before it, is never mixed with the old one.
OneVersion ==
    published.pushed /\ ~published.alarm =>
        \A a, b \in Attr : KeyOf(a) = KeyOf(b) =>
            \A i \in DOMAIN published.dataset[a].bytes,
               j \in DOMAIN published.dataset[b].bytes :
                /\ published.dataset[a].bytes[i].key = KeyOf(a)
                /\ published.dataset[a].bytes[i].ver =
                       published.dataset[b].bytes[j].ver

\* A dataset handed on with no alarm never holds an older version of an
\* attribute than any dataset handed on with no alarm before it, whatever
\* was handed on with an alarm in between.
VersionsForward ==
    [][\A a \in Attr : \A i \in DOMAIN clean[a].bytes :
          clean'[a].bytes[i].ver >= clean[a].bytes[i].ver]_importVars

Serving == \A k \in Key : Answers(k)

\* Once every server answers for good, the output dataset holds the current
\* bytes of every attribute, again and again: no outage before, no throttled
\* fetch and no stale offset leaves an attribute behind for ever.
CatchesUp ==
    <>[]Serving =>
        []<>(\A a \in Attr :
                buffer[a] = CU!Filter(a, OwnBytes(a, server[KeyOf(a)])))
=============================================================================

----------------------------- MODULE PosixImport -----------------------------
(***************************************************************************)
(* A DataImport control unit on its FilePosixDataImporterDriver: attribute *)
(* a takes the a-th token, because the unit reads its attributes in order  *)
(* and the driver never looks at which one it is asked for.                *)
(***************************************************************************)
EXTENDS FilePosixDriver, Sequences

CONSTANTS
    attribute_off_len_vec,
    Malloced,
    Undecodable,  \* attributes neither 4 nor 8 bytes long, of whole numbers
    Words         \* columns that have a '.' in them and are no number

VARIABLES cu_pc, ai, buffer, old_buffer, changed, fetching_key,
          fetching_data_block, driver_interface, published,
          missed,    \* history: attributes the last read loop did not read
          throttled, \* history: a throttled fetch came after the last new line
          stale      \* history: the last read loop took tokens of a freed line

\* The value parsed from a token: of one without a '.' what strtol makes of
\* it, 0 of a word.
Value == [col : Nat, ver : Nat]
NoValue == [col |-> 0, ver |-> 0]
Parsed(col, ver) == [i \in {0} |-> [col |-> col, ver |-> ver]]

CU == INSTANCE DataImport WITH
        KeyBind <- {""},
        ByteValue <- Value,
        Blank <- NoValue,
        FetchError <- {NO_CHANGE, NO_DATA, CANNOT_ACCESS_DATA},
        Content <- [a \in DOMAIN attribute_off_len_vec |-> [{0} -> Value]]

cuVars == <<cu_pc, ai, buffer, old_buffer, changed, fetching_key,
            fetching_data_block, driver_interface, published>>
historyVars == <<missed, throttled, stale>>
importVars == <<driverVars, cuVars, historyVars>>

Attr == DOMAIN attribute_off_len_vec

\* An attribute takes one value, and is bound to no key of the driver.
ASSUME AttributeAssumption ==
    /\ attribute_off_len_vec \in
           Seq([keybind : {""}, offset : Nat, len : {1},
                lbe : BOOLEAN, factor : BOOLEAN, type : CU!Type])
    /\ \A a \in Attr : \A b \in Malloced[a] : b \in [{0} -> Value]

ImportInit ==
    /\ Init
    /\ CU!Init
    /\ missed = {}
    /\ throttled = FALSE
    /\ stale = FALSE

StartCycle == CU!StartCycle /\ UNCHANGED <<driverVars, historyVars>>

FetchNewDatablock ==
    /\ CU!FetchReturned(FetchCode)
    /\ Fetch
    /\ missed' = IF FetchCode = 0 THEN {} ELSE missed
    /\ throttled' = IF FetchCode = 0 THEN ~Due ELSE throttled
    /\ stale' = IF FetchCode = 0 THEN FALSE ELSE stale

\* What a sscanf that matches nothing leaves: the value that the unit has
\* converted, to be converted again.
Left(a) ==
    IF buffer[a].scaled THEN Parsed(0, buffer[a].bytes[0].ver)
    ELSE buffer[a].bytes

TakesWord(a, token) ==
    /\ token.col \in Words \ {0}
    /\ CU!ReadOk(a, Left(a))
    /\ missed' = missed \cup {a}

TakesNone(a, token) ==
    /\ token.col = 0 \/ (a \in Undecodable /\ token.col \notin Words)
    /\ CU!ReadFailed(a, buffer[a])
    /\ missed' = missed \cup {a}

TakesNumber(a, token) ==
    /\ token.col \notin Words \cup {0}
    /\ a \notin Undecodable
    /\ CU!ReadOk(a, Parsed(token.col, token.ver))
    /\ UNCHANGED missed

ReadToken(a) ==
    /\ \E token \in {LineToken} \cup Leftovers :
          /\ TakeToken(token)
          /\ TakesWord(a, token) \/ TakesNone(a, token) \/ TakesNumber(a, token)
    /\ stale' = (stale \/ ~HasBuf)
    /\ UNCHANGED throttled

EndCycle == CU!EndCycle /\ UNCHANGED <<driverVars, historyVars>>

\* The unit is stopped and started again, with its dataset or a new one.
UnitLife ==
    /\ CU!Life
    /\ missed' = IF buffer' = buffer THEN missed ELSE Attr
    /\ UNCHANGED <<driverVars, throttled, stale>>

\* driverDeinit and driverInit, for a unit that is down: the line is freed,
\* its hash stays, and pnt and strtok's memory stay as they were.
DriverRestart ==
    /\ cu_pc = "down"
    /\ HasBuf
    /\ buf' = [ver |-> 0, width |-> 0, cut |-> FALSE]
    /\ UNCHANGED <<fileVars, pnt, save, current_hash, cuVars, historyVars>>

UnitStep ==
    \/ StartCycle
    \/ FetchNewDatablock
    \/ \E a \in Attr : ReadToken(a)
    \/ EndCycle

ImportNext ==
    \/ UnitStep
    \/ UnitLife
    \/ DriverRestart
    \/ (Environment /\ UNCHANGED <<cuVars, historyVars>>)

ImportSpec == ImportInit /\ [][ImportNext]_importVars

\* The framework schedules the unit over and over, and time passes.
FairImportSpec ==
    /\ ImportSpec
    /\ WF_importVars(UnitStep)
    /\ WF_importVars(Tick /\ UNCHANGED <<cuVars, historyVars>>)

-----------------------------------------------------------------------------
\* What attribute a is after a successful read of its own column.
Own(a, ver) == CU!Filter(a, Parsed(a, ver))

\* Unless a throttled fetch made the tokens run on, an attribute that found
\* a number holds its own column of the line, and all of them the same line: a
\* failed fetch, a failed read of another attribute, a line that did not
\* change or a restart never shifts the columns.
ColumnsAligned ==
    cu_pc = "idle" /\ ~throttled /\ HasBuf =>
        \A a \in Attr \ missed : buffer[a] = Own(a, buf.ver)

\* The attributes read in the last loop all come from the line in buf, in
\* whatever order the columns reached them: a fetch that replaced the line
\* always led to reads, and one that was throttled never mixes two lines.
\* Only reads after a restart of the driver, throttled before it fetched a
\* line again, are of no line at all: they go on in the one that was freed.
OneLine ==
    cu_pc = "idle" /\ HasBuf /\ ~stale =>
        \A a \in Attr \ missed : buffer[a].bytes[0].ver = buf.ver

\* Every read finds a line to take tokens from: no fetch that was due and
\* returned 0 leaves the reads with the NULL buf of a driver that never saw
\* the file, or that was restarted since.
LineBehindReads == cu_pc = "read" /\ ~throttled => HasBuf

\* Once the file stays with its last line, the attributes that can be
\* decoded, and whose column is a number, hold that line for good, if the
\* unit is scheduled less often than the window: no missing or empty file
\* before, no comparison of hashes and no restart leaves the unit with an
\* older line.  (The unit must be up when that line comes: one that starts
\* later finds the line not changed, and a new dataset stays blank.)
CatchesUp ==
    /\ <>[](cu_pc \notin {"down", "failed"})
    /\ [](cu_pc \in {"down", "failed"} => file.ver < MaxVersion)
    /\ <>[](file.kind = "line" /\ file.ver = MaxVersion)
    /\ [](cu_pc = "fetch" => Due)
    => <>[](\A a \in Attr \ (Undecodable \cup Words) : buffer[a] = Own(a, MaxVersion))
===============================================================================

----------------------------- MODULE DanteDriver -----------------------------
(***************************************************************************)
(* The driver of a DANTE element: a MemcachedDriver that keeps its own     *)
(* items and serves whole calls.  getDataset and getData fetch the key of  *)
(* each item and read the item at once; getDrvProperties fetches           *)
(* everything once and then reads all the items.                           *)
(***************************************************************************)
EXTENDS MemcachedDriver

CONSTANTS
    items,  \* both maps of key2item, each in the order of the names
    Paced   \* TRUE: calls come further apart than the throttle window

DSTYPE == {"DYNAMIC", "STATIC"}

Item == [typ : DSTYPE, keybind : MapKey, offset : Nat, len : Nat \ {0},
         lbe : BOOLEAN]

ASSUME ItemAssumption ==
    /\ items \in Seq(Item)
    /\ items # << >>
    /\ Paced \in BOOLEAN

VARIABLES
    call,   \* the call being served, or served last
    stage,  \* "idle", "fetch", "loop" inside fetchData, or "read"
    todo,   \* the items it still has to serve, in the order of Before
    ibuf,   \* buffer of each item
    given   \* history: items of this call whose read returned 0

callVars == <<call, stage, todo, ibuf, given>>
danteVars == <<driverVars, callVars>>

Indices == DOMAIN items

OfType(typ) == {i \in Indices : items[i].typ = typ}

\* The order of the calls: by name within a map, and the static map before
\* the dynamic one (updateProperties reads each in the order of the JSON, but
\* fetches nothing between two reads, so that this order does not show).
Before(i, j) ==
    IF items[i].typ = items[j].typ THEN i <= j ELSE items[i].typ = "STATIC"

Foremost(i) == i \in todo /\ \A j \in todo : Before(i, j)

\* copy(): byte_swap to big_endian reverses the bytes on a little-endian host.
Converted(i, b) ==
    IF items[i].lbe THEN [n \in DOMAIN b |-> b[items[i].len - 1 - n]] ELSE b

\* The items' buffers come from calloc.
DanteInit ==
    /\ Init
    /\ call = "getDataset"
    /\ stage = "idle"
    /\ todo = {}
    /\ ibuf = [i \in Indices |-> [n \in 0 .. (items[i].len - 1) |-> Junk]]
    /\ given = {}

-----------------------------------------------------------------------------
Call(name, served) ==
    /\ stage = "idle"
    /\ Paced => \A key \in FetchArg : Due(key)
    /\ call' = name
    /\ stage' = "fetch"
    /\ todo' = served
    /\ given' = {}
    /\ UNCHANGED <<driverVars, ibuf>>

GetDataset(typ) == Call("getDataset", OfType(typ))

\* Both getData: of one key, and of the keys a CDataWrapper holds.
GetData(typ, asked) ==
    Call("getData", OfType(typ) \cap asked)

\* getData of one key into memory too small for it: the item is fetched and
\* read into its buffer, and then refused with -200.
GetDataShort(i) ==
    /\ items[i].len > 1
    /\ Call("getDataShort", {i})

\* updateProperties
GetDrvProperties == Call("getDrvProperties", Indices)

FetchKey(i) == IF call = "getDrvProperties" THEN NoKey ELSE items[i].keybind

FetchItem(i) ==
    /\ stage = "fetch"
    /\ Foremost(i)
    /\ StartFetch(FetchKey(i))
    /\ stage' = "loop"
    /\ UNCHANGED <<call, todo, ibuf, given>>

\* Within the throttle window the block is read as it stands.
FetchThrottled(i) ==
    /\ stage = "fetch"
    /\ Foremost(i)
    /\ ~Due(FetchKey(i))
    /\ stage' = "read"
    /\ UNCHANGED <<driverVars, call, todo, ibuf, given>>

FetchLoop ==
    /\ stage = "loop"
    /\ GetStep
    /\ stage' = IF pc' = "idle" THEN "read" ELSE "loop"
    /\ UNCHANGED <<call, todo, ibuf, given>>

\* readDataOffset(v) copies without a bound and then reports the key's
\* result; getDataset leaves a failed item out, getData gives up there.
ReadItem(i) ==
    /\ stage = "read"
    /\ call # "getDrvProperties"
    /\ Foremost(i)
    /\ LET v == items[i]
           ok == data_results[v.keybind] /\ call # "getDataShort"
       IN  /\ ibuf' = [ibuf EXCEPT ![i] =
                          Converted(i, ReadBytes(v.keybind, v.offset, v.len))]
           /\ given' = IF ok THEN given \cup {i} ELSE given
           /\ todo' = IF call = "getData" /\ ~ok THEN {} ELSE todo \ {i}
    /\ stage' = "fetch"
    /\ UNCHANGED <<driverVars, call>>

\* Seeded fault: the fetch moved into the loop over the items.
FetchesAgain(rest) == IF rest = {} THEN "idle" ELSE "fetch"
AfterProperty(rest) == IF rest = {} THEN "idle" ELSE "read"

\* A read that fails is logged and no more; the buffer is converted in place
\* even when nothing was copied into it.
ReadProperty(i) ==
    /\ stage = "read"
    /\ call = "getDrvProperties"
    /\ Foremost(i)
    /\ LET v == items[i]
           ret == ReadRet(v.keybind, v.offset, v.len)
           b == IF ret = -1 THEN ibuf[i] ELSE ReadBytes(v.keybind, v.offset, v.len)
       IN  /\ ibuf' = [ibuf EXCEPT ![i] = Converted(i, b)]
           /\ given' = IF ret = 0 THEN given \cup {i} ELSE given
    /\ todo' = todo \ {i}
    /\ stage' = AfterProperty(todo')
    /\ UNCHANGED <<driverVars, call>>

Return ==
    /\ stage = "fetch"
    /\ todo = {}
    /\ stage' = "idle"
    /\ UNCHANGED <<driverVars, call, todo, ibuf, given>>

DanteNext ==
    \/ \E typ \in DSTYPE : GetDataset(typ)
    \/ \E typ \in DSTYPE : \E asked \in SUBSET Indices : GetData(typ, asked)
    \/ \E i \in Indices : GetDataShort(i)
    \/ GetDrvProperties
    \/ FetchLoop
    \/ \E i \in Indices :
          FetchItem(i) \/ FetchThrottled(i) \/ ReadItem(i) \/ ReadProperty(i)
    \/ Return
    \/ Environment /\ UNCHANGED callVars

DanteSpec == DanteInit /\ [][DanteNext]_danteVars

-----------------------------------------------------------------------------
\* Item i as it is in version ver of the value under its own key.
ItemOf(i, ver) ==
    Converted(i, [n \in 0 .. (items[i].len - 1) |->
                     [key |-> items[i].keybind, ver |-> ver,
                      idx |-> items[i].offset + n]])

\* An item whose read returned 0 holds, converted once, the bytes of its own
\* key at its own offset, all of one version: neither the fetches of other
\* items between nor a missing value puts another key's bytes in its place.
OwnBytes == \A i \in given : \E ver \in 1 .. MaxVersion : ibuf[i] = ItemOf(i, ver)

\* getDrvProperties is one snapshot of each key: two items it read from the
\* same key come from the same version, however the value is replaced and
\* the throttle window passes while the loop over the items runs.
OneSnapshot ==
    call = "getDrvProperties" =>
        \A i, j \in given :
            items[i].keybind = items[j].keybind => ibuf[i][0].ver = ibuf[j][0].ver
===============================================================================

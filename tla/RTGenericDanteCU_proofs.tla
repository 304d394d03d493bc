------------------------ MODULE RTGenericDanteCU_proofs ------------------------
(***************************************************************************)
(* Proofs about the DANTE driver and the unit on it, for any keys, items   *)
(* and block: when the block holds every value, calls come further apart   *)
(* than the throttle window and the items of a key stand together, what a  *)
(* call gives are the items' own bytes, and the unit's dataset never takes *)
(* another item's bytes nor an older version.                              *)
(***************************************************************************)
EXTENDS RTGenericDanteCU, MemcachedDriver_proofs

USE DEF envVars, blockVars, loopVars, driverVars, callVars, danteVars, cuVars

-----------------------------------------------------------------------------
(* What the theorems assume of the configuration.                          *)

\* The clients' fetches are those of the items and of all keys.
ArgsCovered == NoKey \in FetchArg /\ \A i \in Indices : items[i].keybind \in FetchArg

\* No item of another key stands between two of the same key and map.
Adjacent ==
    \A i, j, n \in Indices :
        /\ i < j /\ j < n
        /\ items[i].typ = items[j].typ /\ items[j].typ = items[n].typ
        /\ items[i].keybind = items[n].keybind
        => items[j].keybind = items[i].keybind

\* Every value is long enough for the items cut out of it.
ItemsFit ==
    \A i \in Indices : \A l \in Lengths : items[i].offset + items[i].len <= l

-----------------------------------------------------------------------------
(* The invariant of the calls.                                             *)

KeyBind(i) == items[i].keybind

\* The driver's part.
DriverInv(L) ==
    /\ TypeOK
    /\ PackInsideBlock
    /\ TruthInv(L)
    /\ AnswerInv
    /\ fkey \in FetchArg

CallType ==
    /\ todo \subseteq Indices /\ given \subseteq Indices
    /\ todo \cap given = {}
    /\ DOMAIN ibuf = Indices
    /\ pc = "get" => stage = "loop"

\* Single items: the keys within the window are those this call fetched, and
\* of the items to come only those that follow at once are of the key in the
\* block.  So a fetch that is throttled is one of the key in the block.
InOrder ==
    call # "getDrvProperties" =>
        /\ \A i, j \in todo : items[i].typ = items[j].typ
        /\ stage # "idle" =>
              \A i \in todo : ~Due(KeyBind(i)) => KeyBind(i) = fkey
        /\ stage = "fetch" /\ ~Due(fkey) /\ (\E n \in todo : KeyBind(n) = fkey)
              => \A i \in todo : Foremost(i) => KeyBind(i) = fkey
        /\ stage \in {"loop", "read"} =>
              \A i \in todo : Foremost(i) => KeyBind(i) = fkey

\* All items at once: one fetch of all keys, before any is read.
AtOnce ==
    call = "getDrvProperties" =>
        /\ stage = "fetch" => Due(NoKey)
        /\ stage \in {"fetch", "loop"} => given = {}
        /\ stage \in {"loop", "read"} => fkey = NoKey

VerOf(i) == ibuf[i][0].ver

\* What the call gave belongs to answers of the item's own key, and to the
\* last ones when all were read at once.
GivenInv ==
    \A i \in given :
        /\ KeyBind(i) \in Key
        /\ VerOf(i) \in 1 .. MaxVersion
        /\ ibuf[i] = ItemOf(i, VerOf(i))
        /\ VerOf(i) <= answer[KeyBind(i)].ver
        /\ call = "getDrvProperties" => VerOf(i) = answer[KeyBind(i)].ver

CallInv == CallType /\ InOrder /\ AtOnce /\ GivenInv

\* The unit's dataset holds versions that are not newer than the answers,
\* nor than what the call in progress gave.
DatasetInv ==
    /\ defined \subseteq Indices
    /\ DOMAIN dataset = Indices
    /\ \A i \in Indices :
          /\ Version(i) \in Nat
          /\ Version(i) = 0 \/ dataset[i] = ItemOf(i, Version(i))
          /\ KeyBind(i) \in Key => Version(i) <= answer[KeyBind(i)].ver
    /\ \A i \in given : Version(i) <= VerOf(i)

-----------------------------------------------------------------------------
LEMMA ItemTypes ==
    \A i \in Indices :
        /\ i \in Nat
        /\ KeyBind(i) \in MapKey /\ items[i].typ \in DSTYPE
        /\ items[i].offset \in Nat /\ items[i].len \in Nat /\ items[i].len > 0
<1>1. items \in Seq(Item)
  BY ItemAssumption
<1>2. \A v \in Item : /\ v.keybind \in MapKey /\ v.typ \in DSTYPE
                      /\ v.offset \in Nat /\ v.len \in Nat /\ v.len > 0
  BY DEF Item
<1> HIDE DEF Item
<1>3. \A i \in Indices : i \in Nat /\ items[i] \in Item
  BY <1>1 DEF Indices
<1> QED
  BY <1>2, <1>3 DEF KeyBind

\* Of items of one map the first is before all others, and the only one.
LEMMA ForemostOne ==
    ASSUME todo \subseteq Indices, \A i, j \in todo : items[i].typ = items[j].typ,
           NEW i, Foremost(i)
    PROVE  /\ i \in todo
           /\ \A j \in todo : i <= j
           /\ \A j \in todo : Foremost(j) => j = i
<1>1. i \in todo /\ \A j \in todo : i <= j
  BY DEF Foremost, Before
<1>2. ASSUME NEW j \in todo, Foremost(j) PROVE j = i
  <2>1. i <= j /\ j <= i
    BY <1>1, <1>2 DEF Foremost, Before
  <2> QED
    BY <1>1, <2>1, ItemTypes
<1> QED
  BY <1>1, <1>2

\* What a fetch and its loop leave alone, and what the environment does.
LEMMA FetchEffect ==
    ASSUME TypeOK, NEW k \in MapKey, StartFetch(k)
    PROVE  /\ pc' = "get" /\ fkey' = k
           /\ UNCHANGED <<data_results, answer>>
           /\ \A o \in MapKey : ~Due(o)' => o = k \/ ~Due(o)
BY DEF StartFetch, Due, TypeOK

LEMMA LoopEffect ==
    ASSUME GetStep PROVE pc = "get" /\ UNCHANGED <<age, fkey>>
BY DEF GetStep, AtKey, PassOver, GetMiss, GetHit, GetTooBig, EndFetch

LEMMA EnvironmentEffect ==
    ASSUME TypeOK, Environment
    PROVE  /\ UNCHANGED <<pc, fkey, data_results, answer>>
           /\ \A o \in MapKey : Due(o) => Due(o)'
<1>1. CASE Tick
  <2>1. age' = [k \in MapKey |-> IF age[k] <= maxUpdateRefresh
                                 THEN age[k] + 1 ELSE age[k]]
    BY <1>1 DEF Tick
  <2>2. \A o \in MapKey : age[o] > maxUpdateRefresh => age'[o] > maxUpdateRefresh
    BY <2>1, ConfigAssumption DEF TypeOK
  <2> QED
    BY <1>1, <2>2 DEF Tick, Due
<1>2. CASE ~Tick
  BY <1>2 DEF Environment, Store, Outage, Recover, Due
<1> QED
  BY <1>1, <1>2

\* The bytes of an item, converted or not, are of the version they were
\* taken from.
LEMMA ItemTagged == ASSUME NEW i \in Indices, NEW ver PROVE ItemOf(i, ver)[0].ver = ver
<1> DEFINE len == items[i].len
           b == [n \in 0 .. (len - 1) |->
                    [key |-> items[i].keybind, ver |-> ver, idx |-> items[i].offset + n]]
<1>1. 0 \in 0 .. (len - 1) /\ (len - 1) - 0 \in 0 .. (len - 1)
  BY ItemTypes
<1>2. \A n \in 0 .. (len - 1) : b[n].ver = ver
  OBVIOUS
<1>3. ItemOf(i, ver) = b \/ ItemOf(i, ver) = [n \in DOMAIN b |-> b[len - 1 - n]]
  BY DEF ItemOf, Converted
<1>4. DOMAIN b = 0 .. (len - 1)
  OBVIOUS
<1> HIDE DEF b, len
<1> QED
  BY <1>1, <1>2, <1>3, <1>4

\* A read of a key that the last pass was for and that it found delivers the
\* item's own bytes, of the version of the last answer.
LEMMA ItemRead ==
    ASSUME NEW L \in Nat, DriverInv(L), ItemsFit, pc = "idle", NEW i \in Indices,
           fkey = NoKey \/ fkey = KeyBind(i), data_results[KeyBind(i)]
    PROVE  /\ KeyBind(i) \in Key
           /\ answer[KeyBind(i)].ver \in 1 .. MaxVersion
           /\ Converted(i, ReadBytes(items[i].keybind, items[i].offset, items[i].len))
                = ItemOf(i, answer[KeyBind(i)].ver)
<1> DEFINE k == KeyBind(i)
           offset == items[i].offset
           len == items[i].len
           n == answer[k].len
           at == key2off[k]
<1>1. k \in Key /\ k # NoKey /\ k = items[i].keybind
  BY ItemTypes, KeyAssumption DEF DriverInv, AnswerInv, MapKey, KeyBind
<1>2. Holds(k)
  BY <1>1 DEF DriverInv, TruthInv, WantedTruthful, Wanted
<1>3. answer[k] \in Value /\ answer[k].ver \in Nat /\ n \in Nat /\ at \in Nat
  BY <1>1, DataTypes DEF DriverInv, TypeOK
<1>4. answer[k].ver \in 1 .. MaxVersion
  <2>1. answer[k].ver > 0
    BY <1>2 DEF Holds
  <2>2. answer[k].ver <= server[k].ver /\ server[k].ver <= MaxVersion /\ server[k].ver \in Nat
    BY <1>1, DataTypes DEF DriverInv, AnswerInv, TypeOK
  <2> QED
    BY <1>3, <2>1, <2>2, ServerAssumption
<1>5. offset \in Nat /\ len \in Nat /\ offset + len <= n
  <2>1. n \in Lengths
    BY <1>1, <1>2 DEF Holds, DriverInv, AnswerInv
  <2> QED
    BY <2>1, ItemTypes DEF ItemsFit
<1>6. at + n <= data_pack_len
  BY <1>2 DEF Holds
<1>7. ASSUME NEW j \in 0 .. (len - 1)
      PROVE  ByteAt(at + offset + j) = [key |-> k, ver |-> answer[k].ver, idx |-> offset + j]
  <2> HIDE DEF offset, len, n, at, k
  <2>1. /\ offset + j \in 0 .. (n - 1)
        /\ at + offset + j \in Block
        /\ at + offset + j = at + (offset + j)
    BY <1>3, <1>5, <1>6, ConfigAssumption DEF Block
  <2>2. buffer_data_block[at + (offset + j)] = Byte(k, answer[k], offset + j)
    BY <1>2, <2>1 DEF Holds, n, at
  <2> QED
    BY <2>1, <2>2 DEF ByteAt, Byte
<1>8. ReadBytes(k, offset, len) = [j \in 0 .. (len - 1) |-> ByteAt(at + offset + j)]
  BY <1>1 DEF ReadBytes, BaseOf
<1>9. ReadBytes(k, offset, len) =
         [j \in 0 .. (len - 1) |-> [key |-> k, ver |-> answer[k].ver, idx |-> offset + j]]
  <2> HIDE DEF offset, len, n, at, k
  <2> QED
    BY <1>7, <1>8
<1>10. ItemOf(i, answer[k].ver) =
          Converted(i, [j \in 0 .. (len - 1) |->
                           [key |-> k, ver |-> answer[k].ver, idx |-> offset + j]])
  BY <1>1 DEF ItemOf
<1> QED
  BY <1>1, <1>4, <1>9, <1>10

-----------------------------------------------------------------------------
(* The steps of a call.                                                    *)

\* A call, as far as the invariant goes.
Begin(name, served) ==
    /\ Call(name, served)
    /\ served \subseteq Indices
    /\ name # "getDrvProperties" =>
          \A i, j \in served : items[i].typ = items[j].typ

LEMMA DanteCases ==
    ASSUME [DanteNext]_danteVars
    PROVE  \/ \E name, served : Begin(name, served)
           \/ \E i \in Indices : FetchItem(i) \/ FetchThrottled(i)
           \/ FetchLoop
           \/ \E i \in Indices : ReadItem(i) \/ ReadProperty(i)
           \/ Return
           \/ Environment /\ UNCHANGED callVars
           \/ UNCHANGED danteVars
<1>1. ASSUME NEW typ \in DSTYPE, GetDataset(typ)
      PROVE  \E name, served : Begin(name, served)
  BY <1>1 DEF GetDataset, OfType, Begin
<1>2. ASSUME NEW typ \in DSTYPE, NEW asked \in SUBSET Indices, GetData(typ, asked)
      PROVE  \E name, served : Begin(name, served)
  BY <1>2 DEF GetData, OfType, Begin
<1>3. ASSUME GetDrvProperties PROVE \E name, served : Begin(name, served)
  BY <1>3 DEF GetDrvProperties, Begin
<1>4. ASSUME NEW i \in Indices, GetDataShort(i)
      PROVE  \E name, served : Begin(name, served)
  BY <1>4 DEF GetDataShort, Begin
<1> QED
  BY <1>1, <1>2, <1>3, <1>4 DEF DanteNext

LEMMA FetchKeyType ==
    ASSUME ArgsCovered, NEW i \in Indices
    PROVE  FetchKey(i) \in FetchArg /\ FetchKey(i) \in MapKey
BY ItemTypes, DataTypes DEF ArgsCovered, FetchKey, KeyBind

\* Every step is one of the driver, for one of its arguments, or leaves it.
LEMMA DriverStays ==
    ASSUME ArgsCovered, [DanteNext]_danteVars
    PROVE  [Next]_driverVars /\ (fkey \in FetchArg => fkey' \in FetchArg)
<1>1. ASSUME NEW i \in Indices, FetchItem(i)
      PROVE  Next /\ fkey' \in FetchArg
  BY <1>1, FetchKeyType DEF FetchItem, StartFetch, Next
<1>2. CASE FetchLoop
  BY <1>2, LoopEffect DEF FetchLoop, Next
<1>3. CASE Environment
  BY <1>3 DEF Next, Environment, Store, Outage, Recover, Tick
<1>4. CASE UNCHANGED driverVars
  BY <1>4
<1> QED
  BY <1>1, <1>2, <1>3, <1>4, DanteCases
     DEF Begin, Call, FetchThrottled, ReadItem, ReadProperty, Return

LEMMA DriverInvStep ==
    ASSUME NEW L \in Nat, \A l \in Lengths : l <= L,
           Len(data_keys) * L <= data_pack_len, ArgsCovered,
           DriverInv(L), [DanteNext]_danteVars
    PROVE  DriverInv(L)' /\ AnswersForward
<1>1. [Next]_driverVars /\ fkey' \in FetchArg
  BY DriverStays DEF DriverInv
<1> QED
  BY <1>1, TypeStep, PackingStep, TruthStep, AnswerStep DEF DriverInv

\* A step that leaves the call's items and makes no answer older.
LEMMA GivenStays ==
    ASSUME TypeOK, TypeOK', AnswersForward, GivenInv,
           UNCHANGED <<ibuf, given, call>>,
           UNCHANGED answer \/ given = {} \/ call # "getDrvProperties"
    PROVE  GivenInv'
<1>1. ASSUME NEW i \in given PROVE VerOf(i) <= answer'[KeyBind(i)].ver
  <2> DEFINE k == KeyBind(i)
             v == VerOf(i)
  <2>1. k \in Key /\ v \in 1 .. MaxVersion /\ v <= answer[k].ver
    BY DEF GivenInv
  <2>2. answer[k] \in Value /\ answer'[k] \in Value /\ answer[k].ver <= answer'[k].ver
    BY <2>1 DEF TypeOK, AnswersForward
  <2> HIDE DEF k, v
  <2>3. answer[k].ver \in Nat /\ answer'[k].ver \in Nat /\ v \in Nat
    BY <2>1, <2>2, DataTypes, ServerAssumption
  <2>4. v <= answer'[k].ver
    BY <2>1, <2>2, <2>3
  <2> QED
    BY <2>4 DEF k, v
<1> QED
  BY <1>1 DEF GivenInv, VerOf

LEMMA BeginKeeps ==
    ASSUME Paced, ArgsCovered, NEW L \in Nat, DriverInv(L), CallInv,
           NEW name, NEW served, Begin(name, served)
    PROVE  CallInv'
<1>1. /\ stage = "idle" /\ stage' = "fetch" /\ call' = name /\ todo' = served
      /\ given' = {} /\ UNCHANGED <<driverVars, ibuf>>
      /\ served \subseteq Indices
      /\ name # "getDrvProperties" =>
            \A i, j \in served : items[i].typ = items[j].typ
      /\ \A key \in FetchArg : Due(key)
  BY DEF Begin, Call
<1>2. \A key \in FetchArg : Due(key)'
  BY <1>1 DEF Due
<1>3. CallType'
  BY <1>1 DEF CallInv, CallType
<1>4. InOrder'
  <2>1. fkey' \in FetchArg /\ \A i \in served : KeyBind(i) \in FetchArg
    BY <1>1 DEF DriverInv, ArgsCovered, KeyBind
  <2>2. Due(fkey)'
    BY <1>1, <2>1 DEF Due
  <2> QED
    BY <1>1, <1>2, <2>1, <2>2 DEF InOrder
<1>5. AtOnce'
  BY <1>1, <1>2 DEF AtOnce, ArgsCovered
<1>6. GivenInv'
  BY <1>1 DEF GivenInv
<1> QED
  BY <1>3, <1>4, <1>5, <1>6 DEF CallInv

LEMMA FetchKeeps ==
    ASSUME ArgsCovered, NEW L \in Nat, DriverInv(L), DriverInv(L)',
           AnswersForward, CallInv, NEW i \in Indices, FetchItem(i)
    PROVE  CallInv'
<1> DEFINE k == FetchKey(i)
<1>1. /\ stage = "fetch" /\ stage' = "loop" /\ Foremost(i)
      /\ UNCHANGED <<call, todo, ibuf, given>> /\ StartFetch(k)
  BY DEF FetchItem
<1>2. /\ pc' = "get" /\ fkey' = k /\ UNCHANGED answer
      /\ \A o \in MapKey : ~Due(o)' => o = k \/ ~Due(o)
  BY <1>1, FetchEffect, FetchKeyType DEF DriverInv
<1>3. CallType'
  BY <1>1 DEF CallInv, CallType
<1>4. InOrder'
  <2> SUFFICES ASSUME call # "getDrvProperties" PROVE InOrder'
    BY <1>1 DEF InOrder
  <2>1. k = KeyBind(i)
    BY DEF FetchKey, KeyBind
  <2>2. \A n, j \in todo : items[n].typ = items[j].typ
    BY DEF CallInv, InOrder
  <2>3. \A j \in todo : Foremost(j)' => KeyBind(j) = k
    <3>1. \A j \in todo : Foremost(j)' <=> Foremost(j)
      BY <1>1 DEF Foremost
    <3> QED
      BY <1>1, <2>1, <2>2, <3>1, ForemostOne DEF CallInv, CallType
  <2>4. ASSUME NEW n \in todo, ~Due(KeyBind(n))' PROVE KeyBind(n) = k
    <3>1. KeyBind(n) \in MapKey
      BY ItemTypes DEF CallInv, CallType
    <3>2. CASE ~Due(KeyBind(n))
      <4>1. KeyBind(n) = fkey
        BY <1>1, <3>2 DEF CallInv, InOrder
      <4>2. KeyBind(i) = fkey
        BY <1>1, <3>2, <4>1 DEF CallInv, InOrder, Foremost
      <4> QED
        BY <2>1, <4>1, <4>2
    <3> QED
      BY <1>2, <2>4, <3>1, <3>2
  <2> HIDE DEF k
  <2> QED
    BY <1>1, <1>2, <2>2, <2>3, <2>4 DEF InOrder
<1>5. AtOnce'
  BY <1>1, <1>2 DEF CallInv, AtOnce, FetchKey
<1>6. GivenInv'
  BY <1>1, <1>2, GivenStays DEF DriverInv, CallInv
<1> QED
  BY <1>3, <1>4, <1>5, <1>6 DEF CallInv

LEMMA ThrottledKeeps ==
    ASSUME NEW L \in Nat, DriverInv(L), DriverInv(L)', AnswersForward,
           CallInv, NEW i \in Indices, FetchThrottled(i)
    PROVE  CallInv'
<1>1. /\ stage = "fetch" /\ stage' = "read" /\ Foremost(i) /\ ~Due(FetchKey(i))
      /\ UNCHANGED <<driverVars, call, todo, ibuf, given>>
  BY DEF FetchThrottled
<1>2. call # "getDrvProperties"
  BY <1>1 DEF CallInv, AtOnce, FetchKey
<1>3. CallType'
  BY <1>1 DEF CallInv, CallType
<1>4. InOrder'
  <2>1. \A n, j \in todo : items[n].typ = items[j].typ
    BY <1>2 DEF CallInv, InOrder
  <2>2. i \in todo /\ KeyBind(i) = fkey
    BY <1>1, <1>2 DEF CallInv, InOrder, Foremost, FetchKey, KeyBind
  <2>3. \A j \in todo : Foremost(j) => KeyBind(j) = fkey
    BY <1>1, <2>1, <2>2, ForemostOne DEF CallInv, CallType
  <2> QED
    BY <1>1, <1>2, <2>1, <2>3 DEF CallInv, InOrder, Foremost, Due
<1>5. AtOnce'
  BY <1>1, <1>2 DEF AtOnce
<1>6. GivenInv'
  BY <1>1, GivenStays DEF DriverInv, CallInv
<1> QED
  BY <1>3, <1>4, <1>5, <1>6 DEF CallInv

LEMMA LoopKeeps ==
    ASSUME NEW L \in Nat, DriverInv(L), DriverInv(L)', AnswersForward,
           CallInv, FetchLoop
    PROVE  CallInv'
<1>1. /\ stage = "loop" /\ GetStep /\ UNCHANGED <<call, todo, ibuf, given, age, fkey>>
      /\ stage' = IF pc' = "idle" THEN "read" ELSE "loop"
  BY LoopEffect DEF FetchLoop
<1>2. CallType'
  BY <1>1 DEF CallInv, CallType, DriverInv, TypeOK
<1>3. InOrder'
  BY <1>1 DEF CallInv, InOrder, Foremost, Due
<1>4. AtOnce'
  BY <1>1 DEF CallInv, AtOnce
<1>5. GivenInv'
  BY <1>1, GivenStays DEF DriverInv, CallInv, AtOnce
<1> QED
  BY <1>2, <1>3, <1>4, <1>5 DEF CallInv

LEMMA EnvironmentKeeps ==
    ASSUME ArgsCovered, NEW L \in Nat, DriverInv(L), DriverInv(L)',
           AnswersForward, CallInv, Environment, UNCHANGED callVars
    PROVE  CallInv'
<1>1. /\ UNCHANGED <<call, stage, todo, ibuf, given, pc, fkey, answer>>
      /\ \A o \in MapKey : Due(o) => Due(o)'
  BY EnvironmentEffect DEF DriverInv
<1>2. CallType'
  BY <1>1 DEF CallInv, CallType
<1>3. InOrder'
  <2>1. Due(fkey) => Due(fkey)'
    BY <1>1 DEF DriverInv, TypeOK, Due
  <2>2. \A i \in todo : Due(KeyBind(i)) => Due(KeyBind(i))'
    BY <1>1, ItemTypes DEF CallInv, CallType
  <2> QED
    BY <1>1, <2>1, <2>2 DEF CallInv, InOrder, Foremost
<1>4. AtOnce'
  BY <1>1, DataTypes DEF CallInv, AtOnce
<1>5. GivenInv'
  BY <1>1, GivenStays DEF DriverInv, CallInv
<1> QED
  BY <1>2, <1>3, <1>4, <1>5 DEF CallInv

\* What one step adds to what was given is of the last answer.
GivenStep ==
    \A j \in given' : \/ j \in given /\ ibuf'[j] = ibuf[j]
                     \/ VerOf(j)' = answer'[KeyBind(j)].ver

\* A read puts the item's bytes in its buffer and leaves the other buffers.
LEMMA GivenGrows ==
    ASSUME NEW L \in Nat, DriverInv(L), ItemsFit, CallInv, pc = "idle",
           UNCHANGED <<call, answer>>, NEW i \in todo,
           NEW b, ibuf' = [ibuf EXCEPT ![i] = b],
           \/ given' = given
           \/ /\ given' = given \cup {i}
              /\ b = Converted(i, ReadBytes(items[i].keybind, items[i].offset, items[i].len))
              /\ data_results[KeyBind(i)]
              /\ fkey = NoKey \/ fkey = KeyBind(i)
    PROVE  GivenInv' /\ GivenStep
<1>1. i \in Indices /\ i \notin given /\ given \subseteq Indices
  BY DEF CallInv, CallType
<1>2. ibuf'[i] = b /\ \A j \in given : ibuf'[j] = ibuf[j]
  BY <1>1 DEF CallInv, CallType
<1>3. \A j \in given :
        /\ KeyBind(j) \in Key
        /\ VerOf(j)' \in 1 .. MaxVersion
        /\ ibuf'[j] = ItemOf(j, VerOf(j)')
        /\ VerOf(j)' <= answer'[KeyBind(j)].ver
        /\ call' = "getDrvProperties" => VerOf(j)' = answer'[KeyBind(j)].ver
  BY <1>2 DEF CallInv, GivenInv, VerOf
<1>4. ASSUME i \in given'
      PROVE  /\ KeyBind(i) \in Key
             /\ VerOf(i)' \in 1 .. MaxVersion
             /\ ibuf'[i] = ItemOf(i, VerOf(i)')
             /\ VerOf(i)' <= answer'[KeyBind(i)].ver
             /\ VerOf(i)' = answer'[KeyBind(i)].ver
  <2> DEFINE ver == answer[KeyBind(i)].ver
  <2>1. KeyBind(i) \in Key /\ ver \in 1 .. MaxVersion /\ ibuf'[i] = ItemOf(i, ver)
    BY <1>1, <1>2, <1>4, ItemRead
  <2>2. ver \in Int /\ answer'[KeyBind(i)].ver = ver
    BY <2>1, ServerAssumption
  <2> HIDE DEF ver
  <2>3. VerOf(i)' = ver
    BY <1>1, <2>1, ItemTagged DEF VerOf
  <2> QED
    BY <2>1, <2>2, <2>3
<1>5. given' \subseteq given \cup {i}
  OBVIOUS
<1> QED
  BY <1>2, <1>3, <1>4, <1>5 DEF GivenInv, GivenStep

LEMMA ReadItemKeeps ==
    ASSUME ItemsFit, Adjacent, NEW L \in Nat, DriverInv(L), CallInv,
           NEW i \in Indices, ReadItem(i)
    PROVE  CallInv' /\ GivenStep
<1> DEFINE k == items[i].keybind
           b == Converted(i, ReadBytes(k, items[i].offset, items[i].len))
<1>1. /\ stage = "read" /\ stage' = "fetch" /\ call # "getDrvProperties"
      /\ Foremost(i) /\ i \in todo
      /\ UNCHANGED <<call, pc, fkey, age, answer, data_results>>
      /\ ibuf' = [ibuf EXCEPT ![i] = b]
      /\ \/ given' = given
         \/ given' = given \cup {i} /\ data_results[k]
      /\ todo' = {} \/ todo' = todo \ {i}
  BY DEF ReadItem, Foremost
<1>2. k = KeyBind(i) /\ fkey = k /\ pc = "idle"
  BY <1>1 DEF CallInv, CallType, InOrder, DriverInv, TypeOK, KeyBind
<1>3. CallType'
  BY <1>1, <1>2 DEF CallInv, CallType
<1>4. InOrder'
  <2>1. \A n, j \in todo : items[n].typ = items[j].typ
    BY <1>1 DEF CallInv, InOrder
  <2>2. todo \subseteq Indices /\ todo' \subseteq todo
    BY <1>1 DEF CallInv, CallType
  <2>3. ASSUME NEW n \in todo', KeyBind(n) = fkey, NEW h \in todo', Foremost(h)'
        PROVE  KeyBind(h) = fkey
    <3>1. \A j \in todo : i <= j
      BY <1>1, <2>1, <2>2, ForemostOne
    <3>2. h <= n
      BY <2>1, <2>2, <2>3 DEF Foremost, Before
    <3>3. h # i
      BY <1>1
    <3>4. i \in Nat /\ h \in Nat /\ n \in Nat /\ i <= h
      BY <2>2, <3>1, ItemTypes
    <3>5. CASE h = n
      BY <2>3, <3>5
    <3>6. CASE h # n
      <4>1. i < h /\ h < n
        BY <3>2, <3>3, <3>4, <3>6
      <4>2. /\ items[i].typ = items[h].typ /\ items[h].typ = items[n].typ
            /\ i \in Indices /\ h \in Indices /\ n \in Indices
        BY <1>1, <2>1, <2>2
      <4> QED
        BY <1>2, <2>3, <4>1, <4>2 DEF Adjacent, KeyBind
    <3> QED
      BY <3>5, <3>6
  <2>4. \A n \in todo' : ~Due(KeyBind(n))' => KeyBind(n) = fkey
    BY <1>1, <2>2 DEF CallInv, InOrder, Due
  <2> QED
    BY <1>1, <2>1, <2>2, <2>3, <2>4 DEF InOrder
<1>5. AtOnce'
  BY <1>1 DEF AtOnce
<1>6. GivenInv' /\ GivenStep
  <2> HIDE DEF b
  <2>1. \/ given' = given
        \/ given' = given \cup {i} /\ data_results[KeyBind(i)]
    BY <1>1, <1>2
  <2> QED
    BY <1>1, <1>2, <2>1, GivenGrows DEF b
<1> QED
  BY <1>3, <1>4, <1>5, <1>6 DEF CallInv

LEMMA ReadPropertyKeeps ==
    ASSUME ItemsFit, NEW L \in Nat, DriverInv(L), CallInv,
           NEW i \in Indices, ReadProperty(i)
    PROVE  CallInv' /\ GivenStep
<1> DEFINE v == items[i]
           ret == ReadRet(v.keybind, v.offset, v.len)
           own == ReadBytes(v.keybind, v.offset, v.len)
           b == Converted(i, IF ret = -1 THEN ibuf[i] ELSE own)
<1>1. /\ stage = "read" /\ call = "getDrvProperties" /\ i \in todo
      /\ UNCHANGED <<call, pc, fkey, age, answer, data_results>>
      /\ ibuf' = [ibuf EXCEPT ![i] = b]
      /\ given' = IF ret = 0 THEN given \cup {i} ELSE given
      /\ todo' = todo \ {i}
      /\ stage' \in {"idle", "read"}
  BY DEF ReadProperty, Foremost, AfterProperty
<1>2. fkey = NoKey /\ pc = "idle"
  BY <1>1 DEF CallInv, CallType, AtOnce, DriverInv, TypeOK
<1>3. CallType'
  BY <1>1, <1>2 DEF CallInv, CallType
<1>4. InOrder'
  BY <1>1 DEF InOrder
<1>5. AtOnce'
  BY <1>1, <1>2 DEF AtOnce
<1>6. GivenInv' /\ GivenStep
  <2>1. ret = 0 => data_results[KeyBind(i)] /\ b = Converted(i, own)
    BY DEF ReadRet, KeyBind
  <2> HIDE DEF b, ret
  <2>2. \/ given' = given
        \/ /\ given' = given \cup {i} /\ data_results[KeyBind(i)]
           /\ b = Converted(i, own)
    BY <1>1, <2>1
  <2> QED
    BY <1>1, <1>2, <2>2, GivenGrows
<1> QED
  BY <1>3, <1>4, <1>5, <1>6 DEF CallInv

LEMMA CallStep ==
    ASSUME Paced, ArgsCovered, ItemsFit, Adjacent, NEW L \in Nat,
           DriverInv(L), DriverInv(L)', AnswersForward, CallInv,
           [DanteNext]_danteVars
    PROVE  CallInv' /\ GivenStep
<1>1. CASE Return
  BY <1>1 DEF Return, CallInv, CallType, InOrder, AtOnce, GivenInv, GivenStep, VerOf
<1>2. CASE UNCHANGED danteVars
  BY <1>2 DEF CallInv, CallType, InOrder, AtOnce, GivenInv, GivenStep, VerOf,
              Foremost, Due
<1>3. ASSUME NEW name, NEW served, Begin(name, served) PROVE CallInv' /\ GivenStep
  BY <1>3, BeginKeeps DEF Begin, Call, GivenStep
<1>4. ASSUME NEW i \in Indices, FetchItem(i) \/ FetchThrottled(i)
      PROVE  CallInv' /\ GivenStep
  BY <1>4, FetchKeeps, ThrottledKeeps DEF FetchItem, FetchThrottled, GivenStep
<1>5. CASE FetchLoop
  BY <1>5, LoopKeeps DEF FetchLoop, GivenStep
<1>6. CASE Environment /\ UNCHANGED callVars
  BY <1>6, EnvironmentKeeps DEF GivenStep
<1> QED
  BY <1>1, <1>2, <1>3, <1>4, <1>5, <1>6, DanteCases, ReadItemKeeps, ReadPropertyKeeps

\* The invariant of the driver and of the call it serves.
THEOREM CallInvariant ==
    ASSUME NEW L \in Nat, \A l \in Lengths : l <= L,
           Len(data_keys) * L <= data_pack_len,
           Paced, ArgsCovered, ItemsFit, Adjacent
    PROVE  DanteSpec => [](DriverInv(L) /\ CallInv)
<1>1. DanteInit => DriverInv(L) /\ CallInv
  <2> SUFFICES ASSUME DanteInit PROVE DriverInv(L) /\ CallInv
    OBVIOUS
  <2>1. Init
    BY DEF DanteInit
  <2>2. TypeOK /\ PackInsideBlock
    BY <2>1, DataTypes, ConfigAssumption DEF Init, TypeOK, PackInsideBlock
  <2>3. DriverInv(L)
    BY <2>1, <2>2, TruthStart, AnswerStart DEF Init, DriverInv, ArgsCovered
  <2>4. CallInv
    BY <2>1 DEF DanteInit, Init, CallInv, CallType, InOrder, AtOnce, GivenInv
  <2> QED
    BY <2>3, <2>4
<1>2. DriverInv(L) /\ CallInv /\ [DanteNext]_danteVars => (DriverInv(L) /\ CallInv)'
  BY DriverInvStep, CallStep
<1> QED
  BY <1>1, <1>2, PTL DEF DanteSpec

-----------------------------------------------------------------------------
(* The unit on its driver.                                                 *)

LEMMA UnitStays ==
    ASSUME [UnitNext]_unitVars
    PROVE  /\ [DanteNext]_danteVars
           /\ UNCHANGED <<defined, dataset>> \/ DatasetDefined \/ DatasetUpdated
<1>1. CASE Clients
  BY <1>1 DEF Clients, DanteNext
<1>2. CASE DriverStep
  BY <1>2 DEF DriverStep, DanteNext
<1>3. CASE UnitStep
  <2>1. CASE UnitDefineActionAndDataset
    BY <2>1 DEF UnitDefineActionAndDataset, UnitCalls, DanteNext, DSTYPE
  <2>2. CASE UnitRun
    BY <2>2 DEF UnitRun, UnitCalls, DanteNext, DSTYPE
  <2>3. CASE DatasetDefined \/ DatasetUpdated
    BY <2>3 DEF DatasetDefined, DatasetUpdated, DanteNext
  <2> QED
    BY <1>2, <1>3, <2>1, <2>2, <2>3 DEF UnitStep
<1>4. CASE Environment /\ UNCHANGED <<callVars, cuVars>>
  BY <1>4 DEF DanteNext
<1>5. CASE UNCHANGED unitVars
  BY <1>5 DEF unitVars
<1> QED
  BY <1>1, <1>2, <1>3, <1>4, <1>5 DEF UnitNext

\* The unit and the other clients use the DANTE driver as it allows.
THEOREM ImplementsDante == UnitSpec => DanteSpec
<1>1. UnitInit => DanteInit
  BY DEF UnitInit
<1>2. [UnitNext]_unitVars => [DanteNext]_danteVars
  BY UnitStays
<1> QED
  BY <1>1, <1>2, PTL DEF UnitSpec, DanteSpec

LEMMA DatasetStart == ASSUME UnitInit PROVE DatasetInv
<1>1. ASSUME NEW i \in Indices PROVE dataset[i][0].ver = 0
  <2>1. dataset[i] = [n \in 0 .. (items[i].len - 1) |-> Junk]
    BY DEF UnitInit, DanteInit
  <2>2. 0 \in 0 .. (items[i].len - 1)
    BY ItemTypes
  <2> QED
    BY <2>1, <2>2 DEF Junk
<1>2. \A k \in Key : answer[k].ver = 0
  BY DEF UnitInit, DanteInit, Init, NoValue
<1>3. DOMAIN dataset = Indices /\ defined = {} /\ given = {}
  BY DEF UnitInit, DanteInit
<1>4. ASSUME NEW i \in Indices
      PROVE  /\ Version(i) \in Nat
             /\ Version(i) = 0 \/ dataset[i] = ItemOf(i, Version(i))
             /\ KeyBind(i) \in Key => Version(i) <= answer[KeyBind(i)].ver
  <2>1. Version(i) = 0
    BY <1>1 DEF Version
  <2> QED
    BY <1>2, <2>1
<1> QED
  BY <1>3, <1>4 DEF DatasetInv

\* What a step does to one item of the dataset.
LEMMA DatasetItem ==
    ASSUME NEW L \in Nat, DriverInv(L), DriverInv(L)', AnswersForward,
           CallInv, CallInv', GivenStep, DatasetInv,
           UNCHANGED <<defined, dataset>> \/ DatasetDefined \/ DatasetUpdated,
           NEW i \in Indices
    PROVE  /\ Version(i)' \in Nat
           /\ Version(i)' = 0 \/ dataset'[i] = ItemOf(i, Version(i)')
           /\ KeyBind(i) \in Key => Version(i)' <= answer'[KeyBind(i)].ver
           /\ i \in given' => Version(i)' <= VerOf(i)'
           /\ Version(i)' >= Version(i)
<1>1. /\ Version(i) \in Nat
      /\ Version(i) = 0 \/ dataset[i] = ItemOf(i, Version(i))
      /\ KeyBind(i) \in Key => Version(i) <= answer[KeyBind(i)].ver
      /\ i \in given => Version(i) <= VerOf(i)
  BY DEF DatasetInv
<1>2. KeyBind(i) \in Key =>
         /\ answer[KeyBind(i)].ver \in Nat /\ answer'[KeyBind(i)].ver \in Nat
         /\ answer[KeyBind(i)].ver <= answer'[KeyBind(i)].ver
  BY DataTypes DEF DriverInv, TypeOK, AnswersForward
<1>3. CASE dataset'[i] = dataset[i]
  <2>1. Version(i)' = Version(i)
    BY <1>3 DEF Version
  <2>2. KeyBind(i) \in Key => Version(i) <= answer'[KeyBind(i)].ver
    BY <1>1, <1>2
  <2>3. ASSUME i \in given' PROVE Version(i) <= VerOf(i)'
    <3>1. KeyBind(i) \in Key
      BY <2>3 DEF CallInv, GivenInv
    <3>2. CASE i \in given /\ ibuf'[i] = ibuf[i]
      BY <1>1, <3>2 DEF VerOf
    <3>3. CASE VerOf(i)' = answer'[KeyBind(i)].ver
      BY <2>2, <3>1, <3>3
    <3> QED
      BY <2>3, <3>2, <3>3 DEF GivenStep
  <2>4. Version(i)' >= Version(i)
    BY <1>1, <2>1
  <2>5. Version(i)' = 0 \/ dataset'[i] = ItemOf(i, Version(i)')
    BY <1>1, <1>3, <2>1
  <2>6. i \in given' => Version(i)' <= VerOf(i)'
    BY <2>1, <2>3
  <2>7. Version(i)' \in Nat /\ (KeyBind(i) \in Key => Version(i)' <= answer'[KeyBind(i)].ver)
    BY <1>1, <2>1, <2>2
  <2> QED
    BY <2>4, <2>5, <2>6, <2>7
<1>4. CASE dataset'[i] # dataset[i]
  <2>1. /\ i \in given /\ dataset'[i] = ibuf[i]
        /\ UNCHANGED <<given, ibuf, answer>>
    BY <1>4 DEF DatasetDefined, DatasetUpdated, Updated, Return
  <2>2. /\ KeyBind(i) \in Key /\ VerOf(i) \in 1 .. MaxVersion
        /\ ibuf[i] = ItemOf(i, VerOf(i))
        /\ VerOf(i) <= answer[KeyBind(i)].ver
    BY <2>1 DEF CallInv, GivenInv
  <2>3. Version(i)' = VerOf(i) /\ VerOf(i)' = VerOf(i) /\ VerOf(i) \in Nat
    BY <2>1, <2>2, ServerAssumption DEF Version, VerOf
  <2>4. VerOf(i) >= Version(i)
    BY <1>1, <2>1, <2>3
  <2>5. VerOf(i) <= VerOf(i)
    BY <2>3
  <2> QED
    BY <2>1, <2>2, <2>3, <2>4, <2>5
<1> QED
  BY <1>3, <1>4

LEMMA DatasetStep ==
    ASSUME NEW L \in Nat, DriverInv(L), DriverInv(L)', AnswersForward,
           CallInv, CallInv', GivenStep, DatasetInv, [UnitNext]_unitVars
    PROVE  /\ DatasetInv'
           /\ \A i \in defined : Version(i)' >= Version(i)
<1>1. /\ UNCHANGED <<defined, dataset>> \/ DatasetDefined \/ DatasetUpdated
      /\ given' \subseteq Indices
  BY UnitStays DEF CallInv, CallType
<1>2. defined' \subseteq Indices /\ DOMAIN dataset' = Indices
  BY <1>1 DEF DatasetDefined, DatasetUpdated, DatasetInv, CallInv, CallType
<1>3. \A i \in Indices :
         /\ Version(i)' \in Nat
         /\ Version(i)' = 0 \/ dataset'[i] = ItemOf(i, Version(i)')
         /\ KeyBind(i) \in Key => Version(i)' <= answer'[KeyBind(i)].ver
         /\ i \in given' => Version(i)' <= VerOf(i)'
         /\ Version(i)' >= Version(i)
  BY <1>1, DatasetItem
<1>4. DatasetInv'
  BY <1>1, <1>2, <1>3 DEF DatasetInv
<1> QED
  BY <1>3, <1>4 DEF DatasetInv

\* The invariant of the unit, its driver and the other clients.
THEOREM UnitInvariant ==
    ASSUME NEW L \in Nat, \A l \in Lengths : l <= L,
           Len(data_keys) * L <= data_pack_len,
           Paced, ArgsCovered, ItemsFit, Adjacent
    PROVE  UnitSpec => [](DriverInv(L) /\ CallInv /\ DatasetInv)
<1>1. UnitSpec => [](DriverInv(L) /\ CallInv)
  <2>1. DanteSpec => [](DriverInv(L) /\ CallInv)
    BY CallInvariant
  <2> QED
    BY <2>1, ImplementsDante, PTL
<1>2. UnitInit => DatasetInv
  BY DatasetStart
<1>3. DriverInv(L) /\ DriverInv(L)' /\ CallInv /\ CallInv' /\ DatasetInv
         /\ [UnitNext]_unitVars => DatasetInv'
  BY UnitStays, DriverInvStep, CallStep, DatasetStep
<1> QED
  BY <1>1, <1>2, <1>3, PTL DEF UnitSpec

\* An item whose read returned 0 holds its own bytes of one version, whatever
\* was fetched between: the driver never gives another key's bytes.
THEOREM ItemsAreOwn ==
    ASSUME NEW L \in Nat, \A l \in Lengths : l <= L,
           Len(data_keys) * L <= data_pack_len,
           Paced, ArgsCovered, ItemsFit, Adjacent
    PROVE  UnitSpec => []OwnBytes
<1>1. CallInv => OwnBytes
  BY DEF CallInv, GivenInv, OwnBytes
<1> QED
  BY <1>1, UnitInvariant, PTL

\* Two items of one key that getDrvProperties read are of one version.
THEOREM PropertiesAreOneSnapshot ==
    ASSUME NEW L \in Nat, \A l \in Lengths : l <= L,
           Len(data_keys) * L <= data_pack_len,
           Paced, ArgsCovered, ItemsFit, Adjacent
    PROVE  UnitSpec => []OneSnapshot
<1>1. CallInv => OneSnapshot
  BY DEF CallInv, GivenInv, OneSnapshot, VerOf, KeyBind
<1> QED
  BY <1>1, UnitInvariant, PTL

\* Every attribute of the unit's dataset is as defined, or holds its own
\* item's bytes of one version, through runs that left items out.
THEOREM DatasetStaysOwn ==
    ASSUME NEW L \in Nat, \A l \in Lengths : l <= L,
           Len(data_keys) * L <= data_pack_len,
           Paced, ArgsCovered, ItemsFit, Adjacent
    PROVE  UnitSpec => []DatasetOwn
<1>1. DatasetInv => DatasetOwn
  BY DEF DatasetInv, DatasetOwn
<1> QED
  BY <1>1, UnitInvariant, PTL

\* What one step may do to the versions in the dataset.
NoOlderItem == \A i \in defined : Version(i)' >= Version(i)

\* No run puts an older version of an item back into the dataset.
THEOREM DatasetGoesForward ==
    ASSUME NEW L \in Nat, \A l \in Lengths : l <= L,
           Len(data_keys) * L <= data_pack_len,
           Paced, ArgsCovered, ItemsFit, Adjacent
    PROVE  UnitSpec => DatasetForward
<1>1. DriverInv(L) /\ DriverInv(L)' /\ CallInv /\ CallInv' /\ DatasetInv
         /\ [UnitNext]_unitVars => [NoOlderItem]_unitVars
  BY UnitStays, DriverInvStep, CallStep, DatasetStep DEF NoOlderItem
<1>2. UnitSpec => [][NoOlderItem]_unitVars
  BY <1>1, UnitInvariant, PTL DEF UnitSpec
<1> QED
  BY <1>2 DEF NoOlderItem, DatasetForward
===============================================================================

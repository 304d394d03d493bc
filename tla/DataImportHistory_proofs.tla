----------------------- MODULE DataImportHistory_proofs -----------------------
(***************************************************************************)
(* Proofs about DataImportHistory, for any keys, attributes and block: the *)
(* unit runs only with live objects and, when every value has the same     *)
(* length and each attribute's offset is that of its key's place in a full *)
(* pass, the rows hold the attributes' own bytes although the reads know   *)
(* neither key nor result.                                                 *)
(***************************************************************************)
EXTENDS DataImportHistory, MemcachedDriver_proofs

USE DEF envVars, blockVars, loopVars, driverVars, historyVars, objects

\* The cases of a step, without the nesting of Next.
LEMMA HistoryCases ==
    ASSUME [HistoryNext]_vars
    PROVE  \/ UnitInit \/ UnitInitThrows \/ UnitDeinit
           \/ StartRun \/ FetchThrottled \/ FetchStarts \/ FetchLoop
           \/ ReadAttribute \/ PushData
           \/ Environment /\ UNCHANGED historyVars
           \/ UNCHANGED vars
BY DEF HistoryNext, RunStep

\* A run pushes to what the last unitInit made, through any starts that
\* failed before.  The invariant is inductive as it stands.
THEOREM ObjectsStayInUse == HistorySpec => []ObjectsInUse
<1>1. HistoryInit => ObjectsInUse
  BY DEF HistoryInit, ObjectsInUse
<1>2. ObjectsInUse /\ [HistoryNext]_vars => ObjectsInUse'
  <2> SUFFICES ASSUME ObjectsInUse, [HistoryNext]_vars PROVE ObjectsInUse'
    OBVIOUS
  <2>1. CASE UnitInit
    BY <2>1 DEF UnitInit, ObjectsInUse
  <2>2. CASE UnitInitThrows
    BY <2>2 DEF UnitInitThrows, ObjectsInUse
  <2>3. CASE UnitDeinit
    BY <2>3 DEF UnitDeinit, ObjectsInUse
  <2>4. CASE StartRun \/ FetchThrottled \/ FetchStarts \/ ReadAttribute \/ PushData
    BY <2>4 DEF StartRun, FetchThrottled, FetchStarts, ReadAttribute, PushData,
                ObjectsInUse
  <2>5. CASE FetchLoop
    BY <2>5 DEF FetchLoop, ObjectsInUse
  <2>6. CASE UNCHANGED historyVars
    BY <2>6 DEF ObjectsInUse
  <2>7. CASE UNCHANGED vars
    BY <2>7 DEF vars, ObjectsInUse
  <2> QED
    BY <2>1, <2>2, <2>3, <2>4, <2>5, <2>6, <2>7, HistoryCases
<1> QED
  BY <1>1, <1>2, PTL DEF HistorySpec

-----------------------------------------------------------------------------
\* The unit uses the driver as its specification allows: the driver's
\* invariants hold here.
LEMMA DriverStep ==
    ASSUME NoKey \in FetchArg, [HistoryNext]_vars PROVE [Next]_driverVars
<1>1. CASE UnitInit \/ UnitInitThrows \/ UnitDeinit \/ StartRun
           \/ FetchThrottled \/ ReadAttribute \/ PushData
  BY <1>1 DEF UnitInit, UnitInitThrows, UnitDeinit, StartRun, FetchThrottled,
              ReadAttribute, PushData
<1>2. CASE FetchStarts
  BY <1>2 DEF FetchStarts, Next
<1>3. CASE FetchLoop
  BY <1>3 DEF FetchLoop, Next
<1>4. CASE Environment
  BY <1>4 DEF Next
<1>5. CASE UNCHANGED vars
  BY <1>5 DEF vars
<1> QED
  BY <1>1, <1>2, <1>3, <1>4, <1>5, HistoryCases

THEOREM ImplementsDriver ==
    ASSUME NoKey \in FetchArg PROVE HistorySpec => Spec
<1>1. HistoryInit => Init
  BY DEF HistoryInit
<1>2. [HistoryNext]_vars => [Next]_driverVars
  BY DriverStep
<1> QED
  BY <1>1, <1>2, PTL DEF HistorySpec, Spec

-----------------------------------------------------------------------------
(* Where a pass packs its keys.  When no key is configured twice, and all  *)
(* keys up to the n-th were found, the n-th lies behind n - 1 values: what *)
(* an offset in the whole block relies on.  A key found after a miss lies  *)
(* further ahead, and nothing is said of it.                               *)

Keys == 1 .. Len(data_keys)

DistinctKeys == \A i, j \in Keys : data_keys[i] = data_keys[j] => i = j

Placed(L) ==
    \A a \in Attr : InBlock(attribute_off_len_vec[a]) =>
        \E n \in Keys :
            /\ KeyOf(a) = data_keys[n]
            /\ attribute_off_len_vec[a].offset = (n - 1) * L + attribute_off_len_vec[a].at
            /\ attribute_off_len_vec[a].at + attribute_off_len_vec[a].len <= L

GoodUpTo(results, n) == \A j \in 1 .. n : results[data_keys[j]]

PackedInOrder(L) ==
    /\ pc = "get" => (GoodUpTo(data_results, it - 1) => tot_size = (it - 1) * L)
    /\ \A n \in Keys :
          (pc = "get" => n < it) /\ GoodUpTo(data_results, n) =>
              key2off[data_keys[n]] = (n - 1) * L

\* The driver's part of the invariant.
PassInv(L) ==
    /\ TypeOK
    /\ PackInsideBlock
    /\ TruthInv(L)
    /\ Keyless
    /\ AnswerInv
    /\ PackedInOrder(L)

\* The unit's part.  While the attributes are read the driver stands still:
\* what was read belongs to its last answers.  What was pushed belongs to
\* answers that are not newer than the ones since.
OwnSoFar ==
    unit = "read" =>
        \A a \in Attr : a < hi /\ Sure(a) => hbuffer[a] = Own(a, answer[KeyOf(a)].ver)

PushedFrom(ans) ==
    \A a \in row.sure :
        /\ a \in Attr
        /\ KeyOf(a) \in Key
        /\ ans[KeyOf(a)] <= answer[KeyOf(a)].ver
        /\ row.dataset[a] = Own(a, ans[KeyOf(a)])

LastOlder ==
    \A a \in Attr :
        /\ row.last[a][0].ver \in Nat
        /\ row.last[a][0].ver <= answer[KeyOf(a)].ver

HistoryInv ==
    /\ pc = "get" => unit = "loop"
    /\ unit \in {"fetch", "loop"} => hi = 1
    /\ hi \in 1 .. (Len(attribute_off_len_vec) + 1)
    /\ DOMAIN hbuffer = Attr
    /\ OwnSoFar
    /\ \E ans \in [Key -> 0 .. MaxVersion] : PushedFrom(ans)
    /\ LastOlder

LEMMA KeyTypes ==
    /\ Len(data_keys) \in Nat
    /\ \A n \in Keys : data_keys[n] \in Key
BY ConfigAssumption DEF Keys

\* A get of the key at it does not change the results of those before it.
LEMMA EarlierKeys ==
    ASSUME DistinctKeys, TypeOK, it \in Keys, NEW b \in BOOLEAN,
           data_results' = [data_results EXCEPT ![data_keys[it]] = b]
    PROVE  /\ \A n \in 1 .. (it - 1) : n \in Keys /\ data_keys[n] # data_keys[it]
           /\ \A n \in 1 .. (it - 1) :
             GoodUpTo(data_results', n) => GoodUpTo(data_results, n)
           /\ GoodUpTo(data_results', it) => b = TRUE
           /\ GoodUpTo(data_results', it) => GoodUpTo(data_results, it - 1)
<1>1. it \in Nat /\ it >= 1 /\ it <= Len(data_keys) /\ data_keys[it] \in MapKey
  BY KeyTypes, DataTypes DEF Keys
<1>2. ASSUME NEW n \in 1 .. (it - 1) PROVE n \in Keys /\ data_keys[n] # data_keys[it]
  <2>1. n \in Keys /\ n # it
    BY <1>1, KeyTypes DEF Keys
  <2> QED
    BY <2>1 DEF DistinctKeys
<1>3. \A n \in 1 .. (it - 1) : data_results'[data_keys[n]] = data_results[data_keys[n]]
  BY <1>2, KeyTypes, DataTypes DEF TypeOK
<1>4. ASSUME NEW n \in 1 .. (it - 1), GoodUpTo(data_results', n)
      PROVE  GoodUpTo(data_results, n)
  <2>1. \A j \in 1 .. n : j \in 1 .. (it - 1)
    BY <1>1
  <2> QED
    BY <1>3, <1>4, <2>1 DEF GoodUpTo
<1>5. ASSUME GoodUpTo(data_results', it) PROVE b = TRUE /\ GoodUpTo(data_results, it - 1)
  <2>1. it \in 1 .. it /\ \A j \in 1 .. (it - 1) : j \in 1 .. it
    BY <1>1
  <2>2. data_results'[data_keys[it]] = b
    BY <1>1 DEF TypeOK
  <2>3. data_results'[data_keys[it]]
    BY <1>5, <2>1 DEF GoodUpTo
  <2>4. GoodUpTo(data_results, it - 1)
    BY <1>3, <1>5, <2>1 DEF GoodUpTo
  <2> QED
    BY <2>2, <2>3, <2>4
<1> QED
  BY <1>2, <1>4, <1>5

\* A step of the pass that leaves places and results alone.
LEMMA OrderStays ==
    ASSUME NEW L \in Nat, PackedInOrder(L),
           UNCHANGED <<pc, it, tot_size, key2off, data_results>>
    PROVE  PackedInOrder(L)'
BY DEF PackedInOrder, GoodUpTo

LEMMA OrderAtMiss ==
    ASSUME NEW L \in Nat, DistinctKeys, PassInv(L), NEW k \in Key, GetMiss(k)
    PROVE  PackedInOrder(L)'
<1>1. /\ pc = "get" /\ pc' = "get" /\ it \in Keys /\ k = data_keys[it]
      /\ it' = it + 1 /\ it \in Nat
      /\ data_results' = [data_results EXCEPT ![k] = FALSE]
      /\ UNCHANGED <<key2off, tot_size>>
  BY KeyTypes DEF GetMiss, AtKey, PassInv, TypeOK, Keys
<1>2. /\ \A n \in 1 .. (it - 1) :
             GoodUpTo(data_results', n) => GoodUpTo(data_results, n)
      /\ ~GoodUpTo(data_results', it)
  BY <1>1, EarlierKeys DEF PassInv
<1>3. ~GoodUpTo(data_results', it' - 1)
  <2>1. it' - 1 = it
    BY <1>1
  <2> QED
    BY <1>2, <2>1 DEF GoodUpTo
<1>4. ASSUME NEW n \in Keys, n < it', GoodUpTo(data_results', n)
      PROVE  key2off'[data_keys[n]] = (n - 1) * L
  <2>1. n # it
    BY <1>2, <1>4
  <2>2. n \in 1 .. (it - 1) /\ n < it
    BY <1>1, <1>4, <2>1 DEF Keys
  <2>3. GoodUpTo(data_results, n)
    BY <1>2, <1>4, <2>2
  <2> QED
    BY <1>1, <2>2, <2>3 DEF PassInv, PackedInOrder
<1> QED
  BY <1>1, <1>3, <1>4 DEF PackedInOrder, Keys

LEMMA OrderAtHit ==
    ASSUME NEW L \in Nat, Lengths = {L}, DistinctKeys, PassInv(L),
           NEW k \in Key, GetHit(k)
    PROVE  PackedInOrder(L)'
<1>1. /\ pc = "get" /\ pc' = "get" /\ it \in Keys /\ k = data_keys[it]
      /\ it' = it + 1 /\ it \in Nat /\ it >= 1
      /\ data_results' = [data_results EXCEPT ![k] = TRUE]
      /\ key2off' = [key2off EXCEPT ![k] = tot_size]
  BY HitEffect, KeyTypes DEF PassInv, TypeOK, Keys
<1>2. tot_size' = tot_size + L /\ tot_size \in Nat
  <2>1. server[k].len \in Lengths
    BY HitEffect DEF PassInv, AnswerInv
  <2> QED
    BY <2>1, HitEffect DEF PassInv, TypeOK
<1>3. /\ \A n \in 1 .. (it - 1) : n \in Keys /\ data_keys[n] # k
      /\ \A n \in 1 .. (it - 1) :
             GoodUpTo(data_results', n) => GoodUpTo(data_results, n)
      /\ GoodUpTo(data_results', it) => GoodUpTo(data_results, it - 1)
  BY <1>1, EarlierKeys DEF PassInv
<1>4. ASSUME GoodUpTo(data_results', it) PROVE tot_size = (it - 1) * L
  BY <1>1, <1>3, <1>4 DEF PassInv, PackedInOrder
<1>5. ASSUME GoodUpTo(data_results', it' - 1) PROVE tot_size' = (it' - 1) * L
  <2>1. it' - 1 = it
    BY <1>1
  <2>2. GoodUpTo(data_results', it)
    BY <1>5, <2>1 DEF GoodUpTo
  <2>3. tot_size = (it - 1) * L
    BY <1>4, <2>2
  <2>4. it * L = (it - 1) * L + L
    BY <1>1, OneMoreTime
  <2> QED
    BY <1>2, <2>1, <2>3, <2>4
<1>6. ASSUME NEW n \in Keys, n < it', GoodUpTo(data_results', n)
      PROVE  key2off'[data_keys[n]] = (n - 1) * L
  <2>1. CASE n = it
    <3>1. key2off'[k] = tot_size
      BY <1>1, DataTypes DEF PassInv, TypeOK
    <3> QED
      BY <1>1, <1>4, <1>6, <2>1, <3>1
  <2>2. CASE n # it
    <3>1. n \in 1 .. (it - 1) /\ n < it
      BY <1>1, <1>6, <2>2 DEF Keys
    <3>2. GoodUpTo(data_results, n)
      BY <1>3, <1>6, <3>1
    <3>3. key2off[data_keys[n]] = (n - 1) * L
      BY <1>1, <3>1, <3>2 DEF PassInv, PackedInOrder
    <3>4. key2off'[data_keys[n]] = key2off[data_keys[n]]
      BY <1>1, <1>3, <3>1, KeyTypes, DataTypes DEF PassInv, TypeOK
    <3> QED
      BY <3>3, <3>4
  <2> QED
    BY <2>1, <2>2
<1> QED
  BY <1>1, <1>5, <1>6 DEF PackedInOrder, Keys

LEMMA OrderStep ==
    ASSUME NEW L \in Nat, Lengths = {L}, Len(data_keys) * L <= data_pack_len,
           FetchArg = {NoKey}, DistinctKeys, PassInv(L), [Next]_driverVars
    PROVE  PackedInOrder(L)'
<1> USE DEF PassInv
<1>1. CASE Environment
  BY <1>1, OrderStays DEF Environment, Store, Outage, Recover, Tick
<1>2. ASSUME NEW key \in FetchArg, StartFetch(key) PROVE PackedInOrder(L)'
  <2>1. pc' = "get" /\ it' = 1 /\ tot_size' = 0
    BY <1>2 DEF StartFetch
  <2>2. (1 - 1) * L = 0 /\ \A n \in Keys : ~(n < 1)
    BY DEF Keys
  <2> QED
    BY <2>1, <2>2 DEF PackedInOrder, Keys
<1>3. ASSUME NEW k \in Key, PassOver(k) PROVE PackedInOrder(L)'
  BY <1>3 DEF PassOver, Wanted, Keyless
<1>4. ASSUME NEW k \in Key, GetMiss(k) PROVE PackedInOrder(L)'
  BY <1>4, OrderAtMiss
<1>5. ASSUME NEW k \in Key, GetHit(k) PROVE PackedInOrder(L)'
  BY <1>5, OrderAtHit
<1>6. ASSUME NEW k \in Key, GetTooBig(k) PROVE PackedInOrder(L)'
  <2>1. /\ pc = "get" /\ it <= Len(data_keys) /\ server[k].ver > 0
        /\ ~(server[k].len <= room)
    BY <1>6 DEF GetTooBig, AtKey, Answers, Fits
  <2>2. \A l \in Lengths : l <= L
    OBVIOUS
  <2> QED
    BY <2>1, <2>2, RoomForNext DEF TruthInv
<1>7. CASE EndFetch
  <2>1. /\ pc = "get" /\ pc' = "idle" /\ it > Len(data_keys) /\ it \in Nat
        /\ UNCHANGED <<it, tot_size, key2off, data_results>>
    BY <1>7, KeyTypes DEF EndFetch, TypeOK
  <2>2. \A n \in Keys : n < it
    BY <2>1, KeyTypes DEF Keys
  <2> QED
    BY <2>1, <2>2 DEF PackedInOrder, GoodUpTo, Keys
<1>8. CASE UNCHANGED driverVars
  BY <1>8, OrderStays
<1> QED
  BY <1>1, <1>2, <1>3, <1>4, <1>5, <1>6, <1>7, <1>8 DEF Next, GetStep

\* The driver's invariants and the order of the keys in the block.
THEOREM OrderInvariant ==
    ASSUME NEW L \in Nat, Lengths = {L}, Len(data_keys) * L <= data_pack_len,
           FetchArg = {NoKey}, DistinctKeys
    PROVE  Spec => []PassInv(L)
<1>1. \A l \in Lengths : l <= L
  OBVIOUS
<1>2. Init => PassInv(L)
  <2> SUFFICES ASSUME Init PROVE PassInv(L)
    OBVIOUS
  <2>1. TypeOK /\ PackInsideBlock
    BY DataTypes, ConfigAssumption DEF Init, TypeOK, PackInsideBlock
  <2>2. TruthInv(L) /\ Keyless /\ AnswerInv
    BY TruthStart, AnswerStart DEF Init, Keyless
  <2>3. ASSUME NEW n \in Keys PROVE ~GoodUpTo(data_results, n)
    <3>1. 1 \in 1 .. n /\ 1 \in Keys
      BY KeyTypes DEF Keys
    <3>2. ~data_results[data_keys[1]]
      BY <3>1, KeyTypes, DataTypes DEF Init
    <3> QED
      BY <3>1, <3>2 DEF GoodUpTo
  <2>4. PackedInOrder(L)
    BY <2>3 DEF Init, PackedInOrder
  <2> QED
    BY <2>1, <2>2, <2>4 DEF PassInv
<1>3. PassInv(L) /\ [Next]_driverVars => PassInv(L)'
  <2> SUFFICES ASSUME PassInv(L), [Next]_driverVars PROVE PassInv(L)'
    OBVIOUS
  <2>1. PackedInOrder(L)'
    BY OrderStep
  <2> QED
    BY <1>1, <2>1, TypeStep, PackingStep, TruthStep, KeylessStep, AnswerStep
       DEF PassInv
<1> QED
  BY <1>2, <1>3, PTL DEF Spec

-----------------------------------------------------------------------------
(* The reads and the rows.                                                 *)

LEMMA AttributeTypes ==
    /\ Len(attribute_off_len_vec) \in Nat /\ Attr = 1 .. Len(attribute_off_len_vec)
    /\ \A a \in Attr :
          /\ KeyOf(a) \in Key
          /\ attribute_off_len_vec[a].at \in Nat
          /\ attribute_off_len_vec[a].offset \in Nat
          /\ attribute_off_len_vec[a].len \in Nat
          /\ attribute_off_len_vec[a].len > 0
<1> DEFINE Described == [keybind : Key, at : Nat, offset : Nat, len : Nat \ {0},
                         lbe : BOOLEAN, type : Type]
<1>1. attribute_off_len_vec \in Seq(Described)
  BY AttributeAssumption
<1>2. \A v \in Described : /\ v.keybind \in Key /\ v.at \in Nat /\ v.offset \in Nat
                           /\ v.len \in Nat /\ v.len > 0
  OBVIOUS
<1> HIDE DEF Described
<1>3. \A a \in Attr : attribute_off_len_vec[a] \in Described
  BY <1>1 DEF Attr
<1> QED
  BY <1>1, <1>2, <1>3 DEF Attr, KeyOf

\* A sure attribute's key was found at its full place.
LEMMA PlaceOf ==
    ASSUME NEW L \in Nat, DistinctKeys, Placed(L), NEW a \in Attr, Sure(a)
    PROVE  \E n \in Keys :
              /\ KeyOf(a) = data_keys[n]
              /\ attribute_off_len_vec[a].offset = (n - 1) * L + attribute_off_len_vec[a].at
              /\ attribute_off_len_vec[a].at + attribute_off_len_vec[a].len <= L
              /\ GoodUpTo(data_results, n)
<1>1. PICK n \in Keys :
         /\ KeyOf(a) = data_keys[n]
         /\ attribute_off_len_vec[a].offset = (n - 1) * L + attribute_off_len_vec[a].at
         /\ attribute_off_len_vec[a].at + attribute_off_len_vec[a].len <= L
  BY DEF Placed, Sure
<1>2. ASSUME NEW j \in 1 .. n PROVE data_results[data_keys[j]]
  <2>1. n \in Nat /\ DOMAIN data_keys = Keys
    BY ConfigAssumption DEF Keys
  <2>2. j \in Keys /\ \A i \in 1 .. (j - 1) : i \in Keys /\ i # n
    BY <2>1, KeyTypes DEF Keys
  <2>3. \A i \in 1 .. (j - 1) : data_keys[i] # KeyOf(a)
    BY <1>1, <2>2 DEF DistinctKeys
  <2>4. data_keys[j] \in UpTo(KeyOf(a))
    BY <2>1, <2>2, <2>3 DEF UpTo
  <2> QED
    BY <2>4 DEF Sure, KeyOf
<1> QED
  BY <1>1, <1>2 DEF GoodUpTo

\* What a read of a sure attribute delivers are its own bytes.
LEMMA SureRead ==
    ASSUME NEW L \in Nat, Lengths = {L}, DistinctKeys, Placed(L), PassInv(L),
           pc = "idle", NEW a \in Attr, Sure(a)
    PROVE  LET v == attribute_off_len_vec[a]
           IN  Filter(v, ReadBytes(NoKey, v.offset, v.len)) = Own(a, answer[KeyOf(a)].ver)
<1> DEFINE k == KeyOf(a)
           at == attribute_off_len_vec[a].at
           offset == attribute_off_len_vec[a].offset
           len == attribute_off_len_vec[a].len
           off == key2off[k]
<1>1. PICK n \in Keys : /\ k = data_keys[n]
                        /\ offset = (n - 1) * L + at
                        /\ at + len <= L
                        /\ GoodUpTo(data_results, n)
  BY PlaceOf
<1>2. k \in Key /\ k \in MapKey /\ at \in Nat /\ len \in Nat /\ offset \in Nat /\ off \in Nat
  BY AttributeTypes, DataTypes DEF PassInv, TypeOK
<1>3. off = (n - 1) * L
  BY <1>1 DEF PassInv, PackedInOrder
<1>4. Holds(k) /\ answer[k].len = L
  <2>1. n \in 1 .. n
    BY KeyTypes DEF Keys
  <2>2. data_results[k]
    BY <1>1, <2>1 DEF GoodUpTo
  <2>3. Holds(k)
    BY <1>2, <2>2, TruthOfAll DEF PassInv, ResultTruthful
  <2> QED
    BY <1>2, <2>3 DEF Holds, PassInv, AnswerInv
<1>5. ASSUME NEW i \in 0 .. (len - 1)
      PROVE  ByteAt(offset + i) = [key |-> k, ver |-> answer[k].ver, idx |-> at + i]
  <2>1. /\ at + i \in 0 .. (answer[k].len - 1)
        /\ \A j \in 0 .. (answer[k].len - 1) :
              buffer_data_block[off + j] = Byte(k, answer[k], j)
        /\ off + answer[k].len <= data_pack_len
    <3> HIDE DEF k, at, offset, len, off
    <3>1. at + i \in 0 .. (L - 1)
      BY <1>1, <1>2
    <3> QED
      BY <1>4, <3>1 DEF Holds, off
  <2>2. offset + i = off + (at + i) /\ offset + i \in Block
    <3>1. offset = off + at
      BY <1>1, <1>3
    <3>2. at + i \in 0 .. (L - 1) /\ off + L <= data_pack_len
      BY <1>4, <2>1
    <3> HIDE DEF k, at, offset, len, off
    <3> QED
      BY <1>2, <3>1, <3>2, ConfigAssumption DEF Block
  <2>3. buffer_data_block[offset + i] = Byte(k, answer[k], at + i)
    BY <2>1, <2>2
  <2> QED
    BY <2>2, <2>3 DEF ByteAt, Byte
<1>6. ReadBytes(NoKey, offset, len) =
         [i \in 0 .. (len - 1) |-> [key |-> k, ver |-> answer[k].ver, idx |-> at + i]]
  <2>1. ReadBytes(NoKey, offset, len) = [i \in 0 .. (len - 1) |-> ByteAt(0 + offset + i)]
    BY DEF ReadBytes, BaseOf
  <2>2. \A i \in 0 .. (len - 1) : 0 + offset + i = offset + i
    BY <1>2
  <2> QED
    BY <1>5, <2>1, <2>2
<1>7. Own(a, answer[k].ver) =
         Filter(attribute_off_len_vec[a],
                [i \in 0 .. (len - 1) |-> [key |-> k, ver |-> answer[k].ver, idx |-> at + i]])
  BY DEF Own, KeyOf
<1> QED
  BY <1>6, <1>7

\* The bytes of an attribute, converted or not, are of the version they were
\* taken from.
LEMMA OwnTagged ==
    ASSUME NEW a \in Attr, NEW ver PROVE Own(a, ver)[0].ver = ver
<1> DEFINE w == attribute_off_len_vec[a]
           b == [i \in 0 .. (w.len - 1) |->
                    [key |-> w.keybind, ver |-> ver, idx |-> w.at + i]]
<1>1. 0 \in 0 .. (w.len - 1) /\ (w.len - 1) - 0 \in 0 .. (w.len - 1)
  BY AttributeTypes
<1>2. \A i \in 0 .. (w.len - 1) : b[i].ver = ver
  OBVIOUS
<1>3. Own(a, ver) = b \/ Own(a, ver) = [i \in DOMAIN b |-> b[w.len - 1 - i]]
  BY DEF Own, Filter
<1>4. DOMAIN b = 0 .. (w.len - 1)
  OBVIOUS
<1> HIDE DEF b, w
<1> QED
  BY <1>1, <1>2, <1>3, <1>4

\* A step that leaves what was read and pushed, and makes no answer older.
LEMMA PushedStays ==
    ASSUME TypeOK, TypeOK', AnswersForward, UNCHANGED row,
           NEW ans \in [Key -> 0 .. MaxVersion], PushedFrom(ans)
    PROVE  PushedFrom(ans)'
<1>1. ASSUME NEW a \in row.sure
      PROVE  ans[KeyOf(a)] <= answer'[KeyOf(a)].ver
  <2> DEFINE k == KeyOf(a)
  <2>1. k \in Key /\ ans[k] <= answer[k].ver /\ answer[k].ver <= answer'[k].ver
    BY DEF PushedFrom, AnswersForward
  <2>2. ans[k] \in Int /\ answer[k].ver \in Int /\ answer'[k].ver \in Int
    <3>1. ans[k] \in 0 .. MaxVersion
      BY <2>1
    <3>2. answer[k] \in Value /\ answer'[k] \in Value
      BY <2>1 DEF TypeOK
    <3> HIDE DEF k
    <3>3. answer[k].ver \in Nat /\ answer'[k].ver \in Nat
      BY <3>2, DataTypes
    <3> QED
      BY <3>1, <3>3, ServerAssumption
  <2> QED
    BY <2>1, <2>2
<1> QED
  BY <1>1 DEF PushedFrom

\* A read adds its attribute to those read.
LEMMA ReadKeeps ==
    ASSUME NEW L \in Nat, Lengths = {L}, DistinctKeys, Placed(L), PassInv(L),
           HistoryInv, ReadAttribute
    PROVE  OwnSoFar' /\ DOMAIN hbuffer' = Attr
<1>1. /\ unit = "read" /\ unit' = "read" /\ hi \in Attr /\ hi' = hi + 1
      /\ UNCHANGED <<data_results, answer>> /\ pc = "idle"
  BY DEF ReadAttribute, HistoryInv, PassInv, TypeOK
<1>2. /\ DOMAIN hbuffer' = Attr
      /\ \A a \in Attr : a # hi => hbuffer'[a] = hbuffer[a]
  BY DEF ReadAttribute, HistoryInv
<1>3. ASSUME NEW a \in Attr, a < hi', Sure(a)
      PROVE  hbuffer'[a] = Own(a, answer[KeyOf(a)].ver)
  <2>1. CASE a = hi
    <3> DEFINE v == attribute_off_len_vec[a]
    <3>1. InBlock(v)
      BY <1>3 DEF Sure
    <3>2. hbuffer' = [hbuffer EXCEPT ![a] = Filter(v, ReadBytes(NoKey, v.offset, v.len))]
      BY <2>1, <3>1 DEF ReadAttribute
    <3>3. hbuffer'[a] = Filter(v, ReadBytes(NoKey, v.offset, v.len))
      BY <3>2 DEF HistoryInv
    <3> QED
      BY <1>1, <1>3, <3>3, SureRead
  <2>2. CASE a # hi
    <3>1. a < hi
      BY <1>1, <1>3, <2>2, AttributeTypes
    <3> QED
      BY <1>1, <1>2, <1>3, <2>2, <3>1 DEF HistoryInv, OwnSoFar
  <2> QED
    BY <2>1, <2>2
<1>4. \A a \in Attr : Sure(a)' <=> Sure(a)
  BY <1>1 DEF Sure
<1> QED
  BY <1>1, <1>2, <1>3, <1>4 DEF OwnSoFar

\* What the rows held last stays older when the answers only get newer.
LEMMA LastStays ==
    ASSUME TypeOK, TypeOK', AnswersForward, LastOlder,
           NEW a \in Attr, row'.last[a] = row.last[a]
    PROVE  /\ row'.last[a][0].ver \in Nat
           /\ row'.last[a][0].ver <= answer'[KeyOf(a)].ver
<1> DEFINE k == KeyOf(a)
<1>1. k \in Key
  BY AttributeTypes
<1>2. answer[k].ver \in Nat /\ answer'[k].ver \in Nat
  BY <1>1, DataTypes DEF TypeOK
<1>3. answer[k].ver <= answer'[k].ver
  BY <1>1 DEF AnswersForward
<1>4. row.last[a][0].ver \in Nat /\ row.last[a][0].ver <= answer[k].ver
  BY DEF LastOlder
<1> HIDE DEF k
<1>5. row.last[a][0].ver <= answer'[k].ver
  BY <1>2, <1>3, <1>4
<1> QED
  BY <1>4, <1>5 DEF k

\* A row that is pushed belongs to the driver's answers.
LEMMA PushOwn ==
    ASSUME NEW L \in Nat, PassInv(L), HistoryInv, PushData
    PROVE  /\ row'.sure \subseteq Attr
           /\ \A a \in row'.sure : row'.dataset[a] = Own(a, answer[KeyOf(a)].ver)
           /\ \A a \in Attr :
                 \/ row'.last[a] = row.last[a]
                 \/ row'.last[a] = Own(a, answer[KeyOf(a)].ver)
           /\ \E ans \in [Key -> 0 .. MaxVersion] : PushedFrom(ans)'
<1>1. /\ row'.sure = {a \in Attr : Sure(a)} /\ row'.dataset = hbuffer
      /\ row'.last = [a \in Attr |-> IF Sure(a) THEN hbuffer[a] ELSE row.last[a]]
      /\ unit = "read" /\ answer' = answer
  BY DEF PushData
<1>2. ASSUME NEW a \in Attr PROVE a < hi
  BY AttributeTypes DEF PushData, HistoryInv
<1>3. \A a \in row'.sure : row'.dataset[a] = Own(a, answer[KeyOf(a)].ver)
  BY <1>1, <1>2 DEF HistoryInv, OwnSoFar
<1>4. ASSUME NEW k \in Key
      PROVE answer[k].ver \in 0 .. MaxVersion /\ answer[k].ver <= answer[k].ver
  BY DataTypes, ServerAssumption DEF PassInv, TypeOK, AnswerInv
<1>5. \E ans \in [Key -> 0 .. MaxVersion] : PushedFrom(ans)'
  <2>1. PICK ans \in [Key -> 0 .. MaxVersion] : \A k \in Key : ans[k] = answer[k].ver
    <3>1. [k \in Key |-> answer[k].ver] \in [Key -> 0 .. MaxVersion]
      BY <1>4
    <3> QED
      BY <3>1
  <2>2. PushedFrom(ans)'
    BY <1>1, <1>3, <1>4, <2>1, AttributeTypes DEF PushedFrom
  <2> QED
    BY <2>2
<1>6. \A a \in Attr : \/ row'.last[a] = row.last[a]
                     \/ row'.last[a] = Own(a, answer[KeyOf(a)].ver)
  BY <1>1, <1>2 DEF HistoryInv, OwnSoFar
<1> QED
  BY <1>1, <1>3, <1>4, <1>5, <1>6

LEMMA HistoryStep ==
    ASSUME NEW L \in Nat, Lengths = {L}, FetchArg = {NoKey}, DistinctKeys,
           Placed(L), PassInv(L), PassInv(L)', HistoryInv, [HistoryNext]_vars
    PROVE  HistoryInv'
<1>1. PICK ans \in [Key -> 0 .. MaxVersion] : PushedFrom(ans)
  BY DEF HistoryInv
<1>2. AnswersForward
  BY DriverStep, AnswerStep DEF PassInv
<1>3. ASSUME UNCHANGED row
      PROVE  /\ \E x \in [Key -> 0 .. MaxVersion] : PushedFrom(x)'
             /\ LastOlder'
  <2>1. \E x \in [Key -> 0 .. MaxVersion] : PushedFrom(x)'
    BY <1>1, <1>2, <1>3, PushedStays DEF PassInv
  <2>2. LastOlder'
    BY <1>2, <1>3, LastStays DEF PassInv, HistoryInv, LastOlder
  <2> QED
    BY <2>1, <2>2
<1>4. 1 \in 1 .. (Len(attribute_off_len_vec) + 1) /\ \A a \in Attr : ~(a < 1)
  BY AttributeTypes
<1> USE DEF HistoryInv
<1>5. CASE UnitInit
  <2>1. DOMAIN hbuffer' = Attr
    BY <1>5 DEF UnitInit
  <2> QED
    BY <1>3, <1>5, <2>1 DEF UnitInit, OwnSoFar
<1>6. CASE UnitInitThrows
  BY <1>3, <1>6 DEF UnitInitThrows, OwnSoFar
<1>7. CASE UnitDeinit
  BY <1>3, <1>7 DEF UnitDeinit, OwnSoFar
<1>8. CASE StartRun
  BY <1>3, <1>4, <1>8 DEF StartRun, OwnSoFar
<1>9. CASE FetchThrottled
  BY <1>3, <1>4, <1>9 DEF FetchThrottled, OwnSoFar
<1>10. CASE FetchStarts
  BY <1>3, <1>10 DEF FetchStarts, OwnSoFar
<1>11. CASE FetchLoop
  <2>1. /\ unit = "loop" /\ UNCHANGED <<hi, hbuffer, row>>
        /\ unit' = IF pc' = "idle" THEN "read" ELSE "loop"
    BY <1>11 DEF FetchLoop
  <2>2. hi' = 1
    BY <2>1
  <2>3. pc' \in {"idle", "get"}
    BY DEF PassInv, TypeOK
  <2> QED
    BY <1>3, <1>4, <2>1, <2>2, <2>3 DEF OwnSoFar
<1>12. CASE ReadAttribute
  <2>1. /\ unit = "read" /\ unit' = "read" /\ hi \in Attr /\ hi' = hi + 1
        /\ UNCHANGED <<pc, row>>
    BY <1>12 DEF ReadAttribute
  <2>2. hi' \in 1 .. (Len(attribute_off_len_vec) + 1)
    BY <2>1, AttributeTypes
  <2> QED
    BY <1>3, <1>12, <2>1, <2>2, ReadKeeps
<1>13. CASE PushData
  <2>1. \E x \in [Key -> 0 .. MaxVersion] : PushedFrom(x)'
    BY <1>13, PushOwn
  <2>2. ASSUME NEW a \in Attr
        PROVE  /\ row'.last[a][0].ver \in Nat
               /\ row'.last[a][0].ver <= answer'[KeyOf(a)].ver
    <3>1. CASE row'.last[a] = row.last[a]
      BY <1>2, <3>1, LastStays DEF PassInv
    <3>2. CASE row'.last[a] = Own(a, answer[KeyOf(a)].ver)
      <4>1. row'.last[a][0].ver = answer[KeyOf(a)].ver
        BY <3>2, OwnTagged
      <4>2. answer[KeyOf(a)].ver \in Nat /\ answer' = answer
        BY <1>13, AttributeTypes, DataTypes DEF PassInv, TypeOK, PushData
      <4>3. \A m \in Nat : m <= m
        OBVIOUS
      <4> QED
        BY <4>1, <4>2, <4>3
    <3> QED
      BY <1>13, <3>1, <3>2, PushOwn
  <2> QED
    BY <1>13, <2>1, <2>2 DEF PushData, OwnSoFar, LastOlder
<1>14. CASE Environment /\ UNCHANGED historyVars
  <2>1. UNCHANGED <<pc, data_results, answer, historyVars>>
    BY <1>14 DEF Environment, Store, Outage, Recover, Tick
  <2> QED
    BY <1>3, <2>1 DEF OwnSoFar, Sure
<1>15. CASE UNCHANGED vars
  <2>1. UNCHANGED <<pc, data_results, answer, historyVars>>
    BY <1>15 DEF vars
  <2> QED
    BY <1>3, <2>1 DEF OwnSoFar, Sure
<1> QED
  BY <1>5, <1>6, <1>7, <1>8, <1>9, <1>10, <1>11, <1>12, <1>13, <1>14, <1>15,
     HistoryCases

\* The invariant of unit and driver together, when all values have the same
\* length, the block holds them all, no key is configured twice and every
\* attribute in the block has the offset of its key's full place.
THEOREM HistoryInvariant ==
    ASSUME NEW L \in Nat, Lengths = {L}, Len(data_keys) * L <= data_pack_len,
           FetchArg = {NoKey}, DistinctKeys, Placed(L)
    PROVE  HistorySpec => [](PassInv(L) /\ HistoryInv)
<1>1. HistorySpec => []PassInv(L)
  <2>1. HistorySpec => Spec
    BY ImplementsDriver
  <2>2. Spec => []PassInv(L)
    BY OrderInvariant
  <2> QED
    BY <2>1, <2>2, PTL
<1>2. HistoryInit => HistoryInv
  <2> SUFFICES ASSUME HistoryInit PROVE HistoryInv
    OBVIOUS
  <2>1. [k \in Key |-> 0] \in [Key -> 0 .. MaxVersion]
    BY ServerAssumption
  <2>2. PushedFrom([k \in Key |-> 0])
    BY DEF HistoryInit, PushedFrom
  <2>3. 1 \in 1 .. (Len(attribute_off_len_vec) + 1)
    BY AttributeTypes
  <2>4. LastOlder
    <3>1. \A a \in Attr : row.last[a][0] = Junk /\ answer[KeyOf(a)].ver = 0
      BY AttributeTypes DEF HistoryInit, Init, Fresh, NoValue
    <3> QED
      BY <3>1 DEF LastOlder, Junk
  <2> QED
    BY <2>1, <2>2, <2>3, <2>4 DEF HistoryInit, Init, HistoryInv, OwnSoFar
<1>3. PassInv(L) /\ PassInv(L)' /\ HistoryInv /\ [HistoryNext]_vars => HistoryInv'
  BY HistoryStep
<1> QED
  BY <1>1, <1>2, <1>3, PTL DEF HistorySpec

\* A row pushed after a pass that found an attribute's key and all before it
\* holds that attribute's own bytes, of one version for each key.
THEOREM RowsAreOwn ==
    ASSUME NEW L \in Nat, Lengths = {L}, Len(data_keys) * L <= data_pack_len,
           FetchArg = {NoKey}, DistinctKeys, Placed(L)
    PROVE  HistorySpec => []RowOwn
<1>1. HistoryInv => RowOwn
  <2> SUFFICES ASSUME HistoryInv, NEW k \in Key
               PROVE  \E ver \in 0 .. MaxVersion :
                         \A a \in row.sure : KeyOf(a) = k => row.dataset[a] = Own(a, ver)
    BY DEF RowOwn
  <2>1. PICK ans \in [Key -> 0 .. MaxVersion] : PushedFrom(ans)
    BY DEF HistoryInv
  <2>2. \A a \in row.sure : KeyOf(a) = k => row.dataset[a] = Own(a, ans[k])
    BY <2>1 DEF PushedFrom
  <2>3. ans[k] \in 0 .. MaxVersion
    BY <2>1
  <2> QED
    BY <2>2, <2>3
<1> QED
  BY <1>1, HistoryInvariant, PTL

\* What one step may do to the versions the database received.
NoOlderRow ==
    \A a \in Attr : row'.last[a][0].ver >= row.last[a][0].ver

\* The database never receives an older version of an attribute in a row that
\* was sure of it than in any row before that was.
THEOREM RowsGoForward ==
    ASSUME NEW L \in Nat, Lengths = {L}, Len(data_keys) * L <= data_pack_len,
           FetchArg = {NoKey}, DistinctKeys, Placed(L)
    PROVE  HistorySpec => RowsForward
<1>1. PassInv(L) /\ HistoryInv /\ [HistoryNext]_vars => [NoOlderRow]_vars
  <2> SUFFICES ASSUME PassInv(L), HistoryInv, [HistoryNext]_vars, NEW a \in Attr
               PROVE  row'.last[a][0].ver >= row.last[a][0].ver
    BY DEF NoOlderRow
  <2>1. /\ row.last[a][0].ver \in Nat
        /\ row.last[a][0].ver <= answer[KeyOf(a)].ver
    BY DEF HistoryInv, LastOlder
  <2>2. CASE row'.last[a] = row.last[a]
    <3>1. \A m \in Nat : m >= m
      OBVIOUS
    <3> QED
      BY <2>1, <2>2, <3>1
  <2>3. CASE row'.last[a] = Own(a, answer[KeyOf(a)].ver)
    <3>1. row'.last[a][0].ver = answer[KeyOf(a)].ver
      BY <2>3, OwnTagged
    <3>2. answer[KeyOf(a)].ver \in Nat
      BY AttributeTypes, DataTypes DEF PassInv, TypeOK
    <3> QED
      BY <2>1, <3>1, <3>2
  <2>4. PushData \/ UNCHANGED row
    BY HistoryCases DEF UnitInit, UnitInitThrows, UnitDeinit, StartRun,
       FetchThrottled, FetchStarts, FetchLoop, ReadAttribute, vars
  <2> QED
    BY <2>2, <2>3, <2>4, PushOwn
<1>2. HistorySpec => [][NoOlderRow]_vars
  BY <1>1, HistoryInvariant, PTL DEF HistorySpec
<1> QED
  BY <1>2 DEF NoOlderRow, RowsForward
===============================================================================

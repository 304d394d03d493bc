------------------------ MODULE MemcachedDriver_proofs ------------------------
(***************************************************************************)
(* Proofs about MemcachedDriver, for any keys, any configured vector of    *)
(* keys (repetitions included), any block and any lengths of the values:   *)
(* the types, that no memcpy leaves the block and, when the block is large *)
(* enough for the longest values and the clients fetch without a key, that *)
(* a key reported good is intact in the block.                             *)
(***************************************************************************)
EXTENDS MemcachedDriver, TLAPS

USE DEF envVars, blockVars, loopVars, driverVars

\* Keys, values and bytes are of the types the variables need.
LEMMA DataTypes ==
    /\ Key \subseteq MapKey /\ NoKey \in MapKey
    /\ NoValue \in Value
    /\ Junk \in Cell
    /\ \A n \in Nat, l \in Nat : [ver |-> n, len |-> l] \in Value
    /\ \A k \in MapKey, v \in Value, i \in Nat : Byte(k, v, i) \in Cell
    /\ \A v \in Value : v.ver \in Nat /\ v.len \in Nat
BY DEF MapKey, Value, NoValue, Cell, Byte, Junk

\* A range inside the block passes the check: its end does not wrap.
LEMMA RangeInside ==
    ASSUME NEW offset \in Nat, NEW lenght \in Nat,
           offset + lenght <= data_pack_len
    PROVE  InRange(offset, lenght)
<1>1. (offset + lenght) % Uint32 = offset + lenght
  <2>1. offset + lenght < Uint32 /\ offset + lenght \in Nat
    BY WidthAssumption, ConfigAssumption
  <2> QED
    BY <2>1, WidthAssumption
<1> QED
  BY <1>1 DEF InRange

\* A memcpy of a value leaves the block a block of tagged bytes.
LEMMA MemcpyType ==
    ASSUME NEW at \in Nat, NEW k \in Key, NEW v \in Value,
           buffer_data_block \in [Block -> Cell]
    PROVE  Memcpy(at, k, v) \in [Block -> Cell]
<1>1. ASSUME NEW i \in Block PROVE Memcpy(at, k, v)[i] \in Cell
  <2>1. CASE i >= at /\ i < at + v.len
    <3>1. i - at \in Nat
      BY <2>1, ConfigAssumption DEF Block
    <3> QED
      BY <2>1, <3>1, DataTypes DEF Memcpy
  <2>2. CASE ~(i >= at /\ i < at + v.len)
    BY <2>2 DEF Memcpy
  <2> QED
    BY <2>1, <2>2
<1> QED
  BY <1>1 DEF Memcpy

\* No step of the driver leaves the types.
LEMMA TypeStep == TypeOK /\ [Next]_driverVars => TypeOK'
<1> SUFFICES ASSUME TypeOK, [Next]_driverVars PROVE TypeOK'
  OBVIOUS
<1> USE DataTypes, ConfigAssumption DEF TypeOK
<1>1. ASSUME NEW k \in Key, NEW l \in Lengths, Store(k, l) PROVE TypeOK'
  <2>1. server[k].ver + 1 \in Nat /\ l \in Nat
    BY <1>1, ServerAssumption
  <2>2. [ver |-> server[k].ver + 1, len |-> l] \in Value
    BY <2>1
  <2> QED
    BY <1>1, <2>2 DEF Store
<1>2. ASSUME NEW k \in Flaky, Outage(k) \/ Recover(k) PROVE TypeOK'
  BY <1>2, ServerAssumption DEF Outage, Recover
<1>3. CASE Tick
  BY <1>3 DEF Tick
<1>4. ASSUME NEW key \in FetchArg, StartFetch(key) PROVE TypeOK'
  BY <1>4 DEF StartFetch
<1>5. ASSUME NEW k \in Key, PassOver(k) PROVE TypeOK'
  BY <1>5 DEF PassOver, AtKey
<1>6. ASSUME NEW k \in Key, GetMiss(k) PROVE TypeOK'
  BY <1>6 DEF GetMiss, AtKey
<1>7. ASSUME NEW k \in Key, GetHit(k) PROVE TypeOK'
  <2>1. server[k] \in Value /\ server[k].len \in Nat
    OBVIOUS
  <2>2. Memcpy(tot_size, k, server[k]) \in [Block -> Cell]
    BY <2>1, MemcpyType DEF TypeOK
  <2>3. buffer_data_block' \in [Block -> Cell]
    BY <1>7, <2>2 DEF GetHit, PackAt
  <2>4. /\ key2off' = [key2off EXCEPT ![k] = tot_size]
        /\ tot_size' = tot_size + server[k].len
        /\ room' = room - server[k].len
        /\ data_results' = [data_results EXCEPT ![k] = TRUE]
        /\ answer' = [answer EXCEPT ![k] = server[k]]
        /\ it' = it + 1
        /\ it <= Len(data_keys)
        /\ UNCHANGED <<server, up, age, pc, fkey>>
    BY <1>7 DEF GetHit, PackAt, AtKey
  <2>5. key2off' \in [MapKey -> Nat] /\ data_results' \in [MapKey -> BOOLEAN]
    BY <2>4
  <2>6. answer' \in [Key -> Value]
    BY <2>1, <2>4
  <2>7. tot_size' \in Nat /\ room' \in Int
    <3> DEFINE len == server[k].len
    <3>1. /\ len \in Nat /\ tot_size \in Nat /\ room \in Int
          /\ tot_size' = tot_size + len /\ room' = room - len
      BY <2>1, <2>4
    <3> HIDE DEF len
    <3> QED
      BY <3>1
  <2>8. it' \in 1 .. (Len(data_keys) + 1)
    <3>1. it \in 1 .. (Len(data_keys) + 1) /\ Len(data_keys) \in Nat
      OBVIOUS
    <3> QED
      BY <3>1, <2>4
  <2>9. pc' \in {"idle", "get"} /\ fkey' \in MapKey
        /\ server' \in [Key -> Value] /\ up' \subseteq Key
        /\ age' \in [MapKey -> 0 .. (maxUpdateRefresh + 1)]
    BY <2>4
  <2> QED
    BY <2>3, <2>5, <2>6, <2>7, <2>9, <2>8
<1>8. ASSUME NEW k \in Key, GetTooBig(k) PROVE TypeOK'
  BY <1>8 DEF GetTooBig, AtKey
<1>9. CASE EndFetch
  BY <1>9 DEF EndFetch
<1>10. CASE UNCHANGED driverVars
  BY <1>10
<1> QED
  BY <1>1, <1>2, <1>3, <1>4, <1>5, <1>6, <1>7, <1>8, <1>9, <1>10
     DEF Next, Environment, GetStep

\* Every state a run of the driver reaches is of the declared types: the
\* loop of fetchData never runs beyond data_keys and its counters stay
\* numbers whatever the servers answer.
THEOREM TypeCorrect == Spec => []TypeOK
<1>1. Init => TypeOK
  BY DataTypes, ConfigAssumption DEF Init, TypeOK
<1>2. TypeOK /\ [Next]_driverVars => TypeOK'
  BY TypeStep
<1> QED
  BY <1>1, <1>2, PTL DEF Spec

-----------------------------------------------------------------------------
\* No step of the driver packs beyond the block.
LEMMA PackingStep ==
    TypeOK /\ PackInsideBlock /\ [Next]_driverVars => PackInsideBlock'
<1> SUFFICES ASSUME TypeOK, PackInsideBlock, [Next]_driverVars
             PROVE  PackInsideBlock'
  OBVIOUS
<1>1. CASE Environment
  BY <1>1 DEF Environment, Store, Outage, Recover, Tick, PackInsideBlock
<1>2. ASSUME NEW key \in FetchArg, StartFetch(key) PROVE PackInsideBlock'
  BY <1>2, ConfigAssumption DEF StartFetch, PackInsideBlock
<1>3. ASSUME NEW k \in Key, PassOver(k) \/ GetMiss(k) \/ GetTooBig(k)
      PROVE  PackInsideBlock'
  BY <1>3 DEF PassOver, GetMiss, GetTooBig, PackInsideBlock
<1>4. ASSUME NEW k \in Key, GetHit(k) PROVE PackInsideBlock'
  <2> DEFINE len == server[k].len
  <2>1. /\ len \in Nat /\ room \in Int /\ tot_size \in Nat
        /\ key2off \in [MapKey -> Nat]
    BY DataTypes DEF TypeOK
  <2>2. /\ len <= room
        /\ key2off' = [key2off EXCEPT ![k] = tot_size]
        /\ tot_size' = tot_size + len
        /\ room' = room - len
    BY <1>4 DEF GetHit, Fits, PackAt
  <2>3. /\ tot_size + room = data_pack_len /\ room >= 0
        /\ \A j \in Key : key2off[j] <= data_pack_len
    BY DEF PackInsideBlock
  <2> HIDE DEF len
  <2>4. tot_size' + room' = data_pack_len /\ room' >= 0
    BY <2>1, <2>2, <2>3
  <2>5. ASSUME NEW j \in Key PROVE key2off'[j] <= data_pack_len
    <3>1. j \in MapKey /\ key2off'[j] = (IF j = k THEN tot_size ELSE key2off[j])
      BY <2>1, <2>2, DataTypes
    <3>2. tot_size <= data_pack_len
      BY <2>1, <2>3
    <3> QED
      BY <2>3, <3>1, <3>2
  <2> QED
    BY <2>4, <2>5 DEF PackInsideBlock
<1>5. CASE EndFetch
  BY <1>5 DEF EndFetch, PackInsideBlock
<1>6. CASE UNCHANGED driverVars
  BY <1>6 DEF PackInsideBlock
<1> QED
  BY <1>1, <1>2, <1>3, <1>4, <1>5, <1>6 DEF Next, GetStep

\* fetchData packs inside the block, for any lengths the servers store and
\* any argument of fetch: the decremented buffer_len and tot_size always add
\* up to the block, so the size check bounds every memcpy.
THEOREM PackingSafe == Spec => []PackInsideBlock
<1>1. Init => PackInsideBlock
  BY ConfigAssumption, DataTypes DEF Init, PackInsideBlock
<1>2. TypeOK /\ PackInsideBlock /\ [Next]_driverVars => PackInsideBlock'
  BY PackingStep
<1> QED
  BY <1>1, <1>2, TypeCorrect, PTL DEF Spec

-----------------------------------------------------------------------------
(* The loop invariant of fetchData behind ResultTruthful.  A key that was  *)
(* reported good is, in the middle of a pass, either packed below tot_size *)
(* by this pass or still awaited by it; what lies between is being         *)
(* overwritten.  The room left is enough for the keys still awaited.       *)

Packed(k) == Holds(k) /\ key2off[k] + answer[k].len <= tot_size

Awaited(k) == \E j \in it .. Len(data_keys) : data_keys[j] = k

ServedLengths == \A k \in Key : server[k].ver > 0 => server[k].len \in Lengths

OnlyConfigured ==
    \A k \in Key : data_results[k] => \E j \in 1 .. Len(data_keys) : data_keys[j] = k

\* Of the keys this pass is for, or the last pass was for.
PackedOrAwaited ==
    pc = "get" =>
        \A k \in Key : Wanted(k) /\ data_results[k] => Packed(k) \/ Awaited(k)

WantedTruthful ==
    pc = "idle" => \A k \in Key : Wanted(k) /\ data_results[k] => Holds(k)

RoomForAll(L) == pc = "get" => room >= (Len(data_keys) + 1 - it) * L

\* The get under way finds no value longer than the room that is left.
AllFit == \A k \in Key : AtKey(k) /\ Answers(k) => Fits(server[k])

Intact == OnlyConfigured /\ WantedTruthful /\ PackedOrAwaited

TruthInv(L) ==
    /\ ServedLengths
    /\ OnlyConfigured
    /\ WantedTruthful
    /\ PackedOrAwaited
    /\ RoomForAll(L)

\* A get that is not GetHit or a pass that is not running leaves the bytes,
\* and what was packed stays packed.
LEMMA PackedStays ==
    ASSUME NEW k \in Key,
           UNCHANGED <<buffer_data_block, key2off, answer, tot_size>>
    PROVE  (Holds(k) <=> Holds(k)') /\ (Packed(k) <=> Packed(k)')
BY DEF Holds, Packed

\* What GetHit assigns.
LEMMA HitEffect ==
    ASSUME NEW k \in Key, GetHit(k)
    PROVE  /\ pc = "get" /\ pc' = "get" /\ fkey' = fkey
           /\ it <= Len(data_keys) /\ k = data_keys[it] /\ it' = it + 1
           /\ server[k].ver > 0 /\ server[k].len <= room
           /\ key2off' = [key2off EXCEPT ![k] = tot_size]
           /\ buffer_data_block' = Memcpy(tot_size, k, server[k])
           /\ tot_size' = tot_size + server[k].len
           /\ room' = room - server[k].len
           /\ data_results' = [data_results EXCEPT ![k] = TRUE]
           /\ answer' = [answer EXCEPT ![k] = server[k]]
           /\ server' = server
BY DEF GetHit, AtKey, Answers, Fits, PackAt

\* The value just copied is packed.
LEMMA HitPacks ==
    ASSUME TypeOK, PackInsideBlock, NEW k \in Key, GetHit(k)
    PROVE  Packed(k)'
<1> DEFINE v == server[k]
<1>1. /\ v \in Value /\ v.len \in Nat /\ v.ver \in Nat
      /\ tot_size \in Nat /\ room \in Int /\ k \in MapKey
      /\ tot_size + room = data_pack_len
  BY DataTypes DEF TypeOK, PackInsideBlock
<1>2. /\ key2off'[k] = tot_size /\ answer'[k] = v
      /\ v.ver > 0 /\ v.len <= room
      /\ tot_size' = tot_size + v.len
  BY <1>1, HitEffect DEF TypeOK
<1>3. ASSUME NEW i \in 0 .. (v.len - 1)
      PROVE  buffer_data_block'[tot_size + i] = Byte(k, v, i)
  <2> DEFINE len == v.len
  <2>1. len \in Nat /\ len <= room /\ i \in 0 .. (len - 1)
    BY <1>1, <1>2
  <2> HIDE DEF len
  <2>2. /\ tot_size + i \in Block
        /\ tot_size + i >= tot_size /\ tot_size + i < tot_size + len
        /\ (tot_size + i) - tot_size = i
    BY <1>1, <2>1, ConfigAssumption DEF Block
  <2> QED
    BY <2>2, HitEffect DEF Memcpy, len
<1> HIDE DEF v
<1>4. tot_size + v.len <= data_pack_len
  <2> DEFINE len == v.len
  <2>1. len \in Nat /\ len <= room
    BY <1>1, <1>2
  <2> HIDE DEF len
  <2>2. tot_size + len <= data_pack_len
    BY <1>1, <2>1
  <2> QED
    BY <2>2 DEF len
<1>5. Holds(k)'
  BY <1>1, <1>2, <1>3, <1>4 DEF Holds
<1>6. tot_size' \in Nat
  <2> DEFINE len == v.len
  <2>1. len \in Nat /\ tot_size' = tot_size + len
    BY <1>1, <1>2
  <2> HIDE DEF len
  <2> QED
    BY <1>1, <2>1
<1> QED
  BY <1>2, <1>5, <1>6 DEF Packed

\* What an earlier get of the pass packed lies below tot_size and survives
\* the memcpy.
LEMMA HitKeepsOthers ==
    ASSUME TypeOK, PackInsideBlock, NEW k \in Key, GetHit(k),
           NEW o \in Key, o # k, Packed(o)
    PROVE  Packed(o)'
<1> DEFINE at == key2off[o]
<1> DEFINE n == answer[o].len
<1>1. /\ at \in Nat /\ n \in Nat /\ tot_size \in Nat
      /\ server[k].len \in Nat /\ o \in MapKey
  BY DataTypes DEF TypeOK
<1>2. /\ key2off'[o] = at /\ answer'[o] = answer[o]
      /\ tot_size' = tot_size + server[k].len
  BY <1>1, HitEffect DEF TypeOK
<1>3. at + n <= tot_size
  BY DEF Packed
<1>4. ASSUME NEW i \in 0 .. (n - 1)
      PROVE  buffer_data_block'[at + i] = Byte(o, answer[o], i)
  <2>1. buffer_data_block[at + i] = Byte(o, answer[o], i) /\ at + n <= data_pack_len
    BY DEF Packed, Holds
  <2> HIDE DEF at, n
  <2>2. at + i \in Block /\ ~(at + i >= tot_size)
    BY <1>1, <1>3, <2>1, ConfigAssumption DEF Block
  <2> QED
    BY <2>1, <2>2, HitEffect DEF Memcpy
<1>5. Holds(o)'
  BY <1>2, <1>4 DEF Packed, Holds
<1>6. at + n <= tot_size'
  <2> DEFINE len == server[k].len
  <2>1. len \in Nat /\ tot_size' = tot_size + len
    BY <1>1, <1>2
  <2> HIDE DEF at, n, len
  <2> QED
    BY <1>1, <1>3, <2>1
<1> QED
  BY <1>2, <1>5, <1>6 DEF Packed

LEMMA OneMoreTime ==
    ASSUME NEW n \in Nat, n >= 1, NEW L \in Nat
    PROVE  n * L = (n - 1) * L + L /\ (n - 1) * L >= 0
OBVIOUS

\* A value the server holds fits: the room is enough for the awaited keys.
LEMMA RoomForNext ==
    ASSUME TypeOK, NEW L \in Nat, \A l \in Lengths : l <= L,
           ServedLengths, RoomForAll(L), pc = "get", it <= Len(data_keys),
           NEW k \in Key, server[k].ver > 0
    PROVE  /\ server[k].len <= room
           /\ room - server[k].len >= (Len(data_keys) + 1 - (it + 1)) * L
<1> DEFINE len == server[k].len
<1> DEFINE n == Len(data_keys) + 1 - it
<1>1. len \in Nat /\ len <= L
  BY ServerAssumption DEF ServedLengths
<1>2. n \in Nat /\ n >= 1 /\ Len(data_keys) + 1 - (it + 1) = n - 1
  BY ConfigAssumption DEF TypeOK
<1>3. room \in Int /\ room >= n * L
  BY DEF RoomForAll, TypeOK
<1>4. n * L = (n - 1) * L + L /\ (n - 1) * L >= 0
  BY <1>2, OneMoreTime
<1>5. len <= room /\ room - len >= (n - 1) * L
  <2> DEFINE rest == (n - 1) * L
  <2>1. rest \in Int /\ n * L = rest + L /\ rest >= 0
    BY <1>2, <1>4
  <2> HIDE DEF len, n, rest
  <2>2. len <= room /\ room - len >= rest
    BY <1>1, <1>3, <2>1
  <2> QED
    BY <2>2 DEF rest
<1> QED
  BY <1>2, <1>5

\* A key that takes no room leaves enough for the others.
LEMMA RoomAfterSkip ==
    ASSUME TypeOK, NEW L \in Nat, RoomForAll(L), pc = "get", it <= Len(data_keys),
           it' = it + 1, room' = room
    PROVE  RoomForAll(L)'
<1> DEFINE n == Len(data_keys) + 1 - it
<1>1. n \in Nat /\ n >= 1 /\ Len(data_keys) + 1 - it' = n - 1
  BY ConfigAssumption DEF TypeOK
<1>2. room \in Int /\ room >= n * L
  BY DEF RoomForAll, TypeOK
<1>3. n * L = (n - 1) * L + L /\ (n - 1) * L >= 0
  BY <1>1, OneMoreTime
<1> HIDE DEF n
<1>4. room' >= (n - 1) * L
  <2> DEFINE rest == (n - 1) * L
  <2>1. rest \in Int /\ n * L = rest + L
    BY <1>1, <1>3
  <2> HIDE DEF rest
  <2>2. room >= rest
    BY <1>2, <2>1
  <2> QED
    BY <2>2 DEF rest
<1> QED
  BY <1>1, <1>4 DEF RoomForAll

\* A new driver has nothing that is reported good.
LEMMA TruthStart == ASSUME NEW L, Init PROVE TruthInv(L)
<1>1. ServedLengths
  BY DEF Init, ServedLengths, NoValue
<1>2. \A k \in Key : ~data_results[k]
  BY DataTypes DEF Init
<1>3. pc = "idle"
  BY DEF Init
<1> QED
  BY <1>1, <1>2, <1>3
     DEF TruthInv, OnlyConfigured, WantedTruthful, PackedOrAwaited, RoomForAll

\* No step of the driver breaks the loop invariant, as long as no get returns
\* a value too long for the room that is left.
LEMMA IntactStep ==
    ASSUME TypeOK, PackInsideBlock, AllFit, Intact, [Next]_driverVars
    PROVE  Intact'
<1>1. ASSUME NEW k \in Key, NEW l \in Lengths, Store(k, l) PROVE Intact'
  <2>1. UNCHANGED <<buffer_data_block, key2off, data_results, answer, pc, fkey,
                    it, tot_size, room>>
    BY <1>1 DEF Store
  <2> QED
    BY <2>1, PackedStays DEF Intact, OnlyConfigured, WantedTruthful,
       PackedOrAwaited, Wanted, Awaited
<1>2. ASSUME (\E k \in Flaky : Outage(k) \/ Recover(k)) \/ Tick
             \/ UNCHANGED driverVars
      PROVE  Intact'
  <2>1. UNCHANGED <<buffer_data_block, key2off, data_results, answer, pc,
                    fkey, it, tot_size, room>>
    BY <1>2 DEF Outage, Recover, Tick
  <2> QED
    BY <2>1, PackedStays DEF Intact, OnlyConfigured,
       WantedTruthful, PackedOrAwaited, Wanted, Awaited
<1>3. ASSUME NEW key \in FetchArg, StartFetch(key) PROVE Intact'
  <2>1. /\ pc = "idle" /\ pc' = "get" /\ it' = 1
        /\ UNCHANGED data_results
    BY <1>3 DEF StartFetch
  <2>2. \A k \in Key : data_results[k] => Awaited(k)'
    BY <2>1 DEF Intact, OnlyConfigured, Awaited
  <2> QED
    BY <2>1, <2>2 DEF Intact, OnlyConfigured, WantedTruthful, PackedOrAwaited
<1>4. ASSUME NEW k \in Key, PassOver(k) PROVE Intact'
  <2>1. /\ pc = "get" /\ pc' = "get" /\ k = data_keys[it] /\ it' = it + 1
        /\ it <= Len(data_keys) /\ ~Wanted(k)
        /\ UNCHANGED <<buffer_data_block, key2off, data_results, answer,
                       fkey, tot_size, room>>
    BY <1>4 DEF PassOver, AtKey
  <2>2. \A o \in Key : Wanted(o) /\ Awaited(o) => Awaited(o)'
    BY <2>1, ConfigAssumption DEF Awaited, TypeOK
  <2>3. \A o \in Key : Wanted(o)' <=> Wanted(o)
    BY <2>1 DEF Wanted
  <2>4. PackedOrAwaited'
    BY <2>1, <2>2, <2>3, PackedStays DEF Intact, PackedOrAwaited
  <2> QED
    BY <2>1, <2>4 DEF Intact, OnlyConfigured, WantedTruthful
<1>5. ASSUME NEW k \in Key, GetMiss(k) PROVE Intact'
  <2>1. /\ pc = "get" /\ pc' = "get" /\ k = data_keys[it] /\ it' = it + 1
        /\ it <= Len(data_keys)
        /\ data_results' = [data_results EXCEPT ![k] = FALSE]
        /\ UNCHANGED <<buffer_data_block, key2off, answer, fkey, tot_size, room>>
    BY <1>5 DEF GetMiss, AtKey
  <2>2. \A o \in Key : data_results'[o] => o # k /\ data_results[o]
    BY <2>1, DataTypes DEF TypeOK
  <2>3. \A o \in Key : o # k /\ Awaited(o) => Awaited(o)'
    BY <2>1, ConfigAssumption DEF Awaited, TypeOK
  <2> QED
    BY <2>1, <2>2, <2>3, PackedStays DEF Intact,
       OnlyConfigured, WantedTruthful, PackedOrAwaited, Wanted
<1>6. ASSUME NEW k \in Key, GetHit(k) PROVE Intact'
  <2>1. \A o \in Key : o # k /\ data_results'[o] => data_results[o]
    BY <1>6, HitEffect, DataTypes DEF TypeOK
  <2>2. ASSUME NEW o \in Key, Wanted(o), data_results'[o], o # k
        PROVE  Packed(o)' \/ Awaited(o)'
    <3>1. Packed(o) \/ Awaited(o)
      BY <1>6, <2>1, <2>2, HitEffect DEF Intact, PackedOrAwaited
    <3>2. CASE Packed(o)
      BY <1>6, <2>2, <3>2, HitKeepsOthers
    <3>3. CASE Awaited(o)
      BY <1>6, <2>2, <3>3, HitEffect, ConfigAssumption DEF Awaited, TypeOK
    <3> QED
      BY <3>1, <3>2, <3>3
  <2>3. PackedOrAwaited'
    <3>1. \A o \in Key : Wanted(o)' <=> Wanted(o)
      BY <1>6, HitEffect DEF Wanted
    <3> QED
      BY <1>6, <2>2, <3>1, HitPacks DEF PackedOrAwaited
  <2>4. OnlyConfigured'
    <3>1. it \in 1 .. Len(data_keys) /\ data_keys[it] = k
      BY <1>6, HitEffect, ConfigAssumption DEF TypeOK
    <3>2. \A o \in Key : o # k /\ data_results'[o] =>
             \E j \in 1 .. Len(data_keys) : data_keys[j] = o
      BY <2>1 DEF Intact, OnlyConfigured
    <3> QED
      BY <3>1, <3>2 DEF OnlyConfigured
  <2> QED
    BY <1>6, <2>3, <2>4, HitEffect DEF Intact, WantedTruthful
<1>7. ASSUME NEW k \in Key, GetTooBig(k) PROVE Intact'
  BY <1>7 DEF GetTooBig, AllFit
<1>8. CASE EndFetch
  <2>1. /\ pc = "get" /\ pc' = "idle" /\ it > Len(data_keys)
        /\ UNCHANGED <<buffer_data_block, key2off, data_results, answer,
                       fkey, tot_size>>
    BY <1>8 DEF EndFetch
  <2>2. \A k \in Key : ~Awaited(k)
    BY <2>1, ConfigAssumption DEF Awaited, TypeOK
  <2>3. WantedTruthful'
    BY <2>1, <2>2, PackedStays
       DEF Intact, PackedOrAwaited, WantedTruthful, Wanted, Packed
  <2> QED
    BY <2>1, <2>3 DEF Intact, OnlyConfigured, PackedOrAwaited
<1> QED
  BY <1>1, <1>2, <1>3, <1>4, <1>5, <1>6, <1>7, <1>8 DEF Next, Environment, GetStep

\* A step leaves room for the keys still awaited.
LEMMA RoomStep ==
    ASSUME NEW L \in Nat, \A l \in Lengths : l <= L,
           Len(data_keys) * L <= data_pack_len,
           TypeOK, ServedLengths, RoomForAll(L), [Next]_driverVars
    PROVE  ServedLengths' /\ RoomForAll(L)'
<1>1. ASSUME NEW k \in Key, NEW l \in Lengths, Store(k, l)
      PROVE  ServedLengths' /\ RoomForAll(L)'
  <2>1. ServedLengths'
    BY <1>1, DataTypes DEF Store, TypeOK, ServedLengths
  <2> QED
    BY <1>1, <2>1 DEF Store, RoomForAll
<1>2. ASSUME (\E k \in Flaky : Outage(k) \/ Recover(k)) \/ Tick
             \/ UNCHANGED driverVars
      PROVE  ServedLengths' /\ RoomForAll(L)'
  <2>1. UNCHANGED <<server, pc, it, room>>
    BY <1>2 DEF Outage, Recover, Tick
  <2> QED
    BY <2>1 DEF ServedLengths, RoomForAll
<1>3. ASSUME NEW key \in FetchArg, StartFetch(key)
      PROVE  ServedLengths' /\ RoomForAll(L)'
  <2>1. /\ it' = 1 /\ room' = data_pack_len /\ UNCHANGED server
        /\ Len(data_keys) \in Nat
    BY <1>3, ConfigAssumption DEF StartFetch
  <2> QED
    BY <2>1 DEF ServedLengths, RoomForAll
<1>4. ASSUME NEW k \in Key, PassOver(k) \/ GetMiss(k)
      PROVE  ServedLengths' /\ RoomForAll(L)'
  <2>1. /\ pc = "get" /\ it' = it + 1 /\ it <= Len(data_keys)
        /\ UNCHANGED <<server, room>>
    BY <1>4 DEF PassOver, GetMiss, AtKey
  <2> QED
    BY <2>1, RoomAfterSkip DEF ServedLengths
<1>5. ASSUME NEW k \in Key, GetHit(k) PROVE ServedLengths' /\ RoomForAll(L)'
  <2>1. room - server[k].len >= (Len(data_keys) + 1 - (it + 1)) * L
    BY <1>5, HitEffect, RoomForNext
  <2> QED
    BY <1>5, <2>1, HitEffect DEF ServedLengths, RoomForAll
<1>6. ASSUME NEW k \in Key, GetTooBig(k) PROVE ServedLengths' /\ RoomForAll(L)'
  <2>1. /\ pc = "get" /\ it' = it + 1 /\ it <= Len(data_keys)
        /\ UNCHANGED <<server, room>>
    BY <1>6 DEF GetTooBig, AtKey
  <2> QED
    BY <2>1, RoomAfterSkip DEF ServedLengths
<1>7. CASE EndFetch
  BY <1>7 DEF EndFetch, ServedLengths, RoomForAll
<1> QED
  BY <1>1, <1>2, <1>3, <1>4, <1>5, <1>6, <1>7 DEF Next, Environment, GetStep

\* With that room no get finds a value too long.
LEMMA RoomFits ==
    ASSUME NEW L \in Nat, \A l \in Lengths : l <= L,
           TypeOK, ServedLengths, RoomForAll(L)
    PROVE  AllFit
BY RoomForNext DEF AllFit, AtKey, Answers, Fits

\* No step of the driver breaks the invariant, when the longest values fit.
LEMMA TruthStep ==
    ASSUME NEW L \in Nat, \A l \in Lengths : l <= L,
           Len(data_keys) * L <= data_pack_len
    PROVE  TypeOK /\ PackInsideBlock /\ TruthInv(L) /\ [Next]_driverVars
               => TruthInv(L)'
<1> SUFFICES ASSUME TypeOK, PackInsideBlock, TruthInv(L), [Next]_driverVars
             PROVE  TruthInv(L)'
  OBVIOUS
<1>1. Intact /\ ServedLengths /\ RoomForAll(L)
  BY DEF TruthInv, Intact
<1>2. Intact'
  BY <1>1, RoomFits, IntactStep
<1>3. ServedLengths' /\ RoomForAll(L)'
  BY <1>1, RoomStep
<1> QED
  BY <1>2, <1>3 DEF TruthInv, Intact

\* When the clients fetch with no key, every pass is for all keys.
Keyless == fkey = NoKey

LEMMA KeylessStep ==
    ASSUME FetchArg = {NoKey} PROVE Keyless /\ [Next]_driverVars => Keyless'
BY DEF Keyless, Next, Environment, Store, Outage, Recover, Tick, StartFetch,
       GetStep, PassOver, GetMiss, GetHit, GetTooBig, EndFetch

LEMMA TruthOfAll ==
    ASSUME NEW L, Keyless, TruthInv(L) PROVE ResultTruthful
BY DEF Keyless, Wanted, TruthInv, WantedTruthful, ResultTruthful

\* Clients that fetch with no key find a key whose result is true intact in
\* the block between two fetches, whatever the keys, outages and repetitions,
\* as long as every value that is got fits into what is left of the block.
THEOREM TruthfulWhileFitting ==
    ASSUME FetchArg = {NoKey}
    PROVE  Spec /\ []AllFit => []ResultTruthful
<1>1. Init => Intact
  BY TruthStart DEF TruthInv, Intact
<1>2. TypeOK /\ PackInsideBlock /\ AllFit /\ Intact /\ [Next]_driverVars => Intact'
  BY IntactStep
<1>3. Init => Keyless
  BY DEF Init, Keyless
<1>4. Keyless /\ [Next]_driverVars => Keyless'
  BY KeylessStep
<1>5. Intact /\ Keyless => ResultTruthful
  BY DEF Keyless, Wanted, Intact, WantedTruthful, ResultTruthful
<1> QED
  BY <1>1, <1>2, <1>3, <1>4, <1>5, TypeCorrect, PackingSafe, PTL DEF Spec

\* When every key's longest value has its room in the block and the clients
\* fetch with no key, every value fits, and a key whose result is true is
\* intact in the block between two fetches.
THEOREM TruthfulResults ==
    ASSUME NEW L \in Nat, \A l \in Lengths : l <= L,
           Len(data_keys) * L <= data_pack_len,
           FetchArg = {NoKey}
    PROVE  Spec => []ResultTruthful
<1>1. Init => TruthInv(L)
  BY TruthStart
<1>2. TypeOK /\ PackInsideBlock /\ TruthInv(L) /\ [Next]_driverVars => TruthInv(L)'
  BY TruthStep
<1>3. Init => Keyless
  BY DEF Init, Keyless
<1>4. Keyless /\ [Next]_driverVars => Keyless'
  BY KeylessStep
<1>5. TruthInv(L) /\ Keyless => ResultTruthful
  BY TruthOfAll
<1> QED
  BY <1>1, <1>2, <1>3, <1>4, <1>5, TypeCorrect, PackingSafe, PTL DEF Spec

-----------------------------------------------------------------------------
(* What the reads see of the values: a get never returns an older version  *)
(* than the one before, nor a length the servers do not store, and the     *)
(* keyless read is never reported good.                                    *)

AnswerInv ==
    /\ \A k \in Key :
          /\ server[k].ver <= MaxVersion
          /\ answer[k].ver <= server[k].ver
          /\ server[k].ver > 0 => server[k].len \in Lengths
          /\ answer[k].ver > 0 => answer[k].len \in Lengths
    /\ ~data_results[NoKey]

AnswersForward == \A k \in Key : answer[k].ver <= answer'[k].ver

LEMMA AnswerStart == ASSUME Init PROVE AnswerInv
BY DataTypes, ServerAssumption DEF Init, AnswerInv, NoValue

\* A get that returns a value takes the one the server holds.
LEMMA AnswerTaken ==
    ASSUME TypeOK, AnswerInv, NEW k \in Key, Answers(k),
           UNCHANGED server,
           answer' = [answer EXCEPT ![k] = server[k]],
           data_results' = [data_results EXCEPT ![k] = TRUE]
    PROVE  AnswerInv' /\ AnswersForward
<1>1. ASSUME NEW j \in Key
      PROVE  /\ answer[j].ver <= answer'[j].ver
             /\ answer'[j].ver <= server[j].ver
             /\ answer'[j].ver > 0 => answer'[j].len \in Lengths
  <2>1. CASE j = k
    BY <2>1, DataTypes DEF TypeOK, AnswerInv, Answers
  <2>2. CASE j # k
    BY <2>2, DataTypes DEF TypeOK, AnswerInv
  <2> QED
    BY <2>1, <2>2
<1>2. ~data_results'[NoKey]
  BY KeyAssumption DEF TypeOK, AnswerInv
<1> QED
  BY <1>1, <1>2 DEF AnswerInv, AnswersForward

LEMMA AnswerStep ==
    ASSUME TypeOK, AnswerInv, [Next]_driverVars
    PROVE  AnswerInv' /\ AnswersForward
<1> USE DataTypes
<1>1. ASSUME NEW k \in Key, NEW l \in Lengths, Store(k, l)
      PROVE  AnswerInv' /\ AnswersForward
  <2>1. /\ server[k].ver < MaxVersion
        /\ server' = [server EXCEPT ![k] = [ver |-> server[k].ver + 1, len |-> l]]
        /\ UNCHANGED <<answer, data_results>>
    BY <1>1 DEF Store
  <2>2. ASSUME NEW j \in Key
        PROVE  /\ server'[j].ver <= MaxVersion
               /\ answer[j].ver <= server'[j].ver
               /\ server'[j].ver > 0 => server'[j].len \in Lengths
    <3>1. CASE j = k
      BY <2>1, <3>1, ServerAssumption DEF TypeOK, AnswerInv
    <3>2. CASE j # k
      BY <2>1, <3>2 DEF TypeOK, AnswerInv
    <3> QED
      BY <3>1, <3>2
  <2> QED
    BY <2>1, <2>2 DEF AnswerInv, AnswersForward, TypeOK
<1>2. ASSUME UNCHANGED <<server, answer, data_results>>
      PROVE  AnswerInv' /\ AnswersForward
  BY <1>2 DEF AnswerInv, AnswersForward, TypeOK
<1>3. ASSUME NEW k \in Key, GetMiss(k) PROVE AnswerInv' /\ AnswersForward
  <2>1. /\ data_results' = [data_results EXCEPT ![k] = FALSE]
        /\ UNCHANGED <<server, answer>>
    BY <1>3 DEF GetMiss
  <2> QED
    BY <2>1, KeyAssumption DEF AnswerInv, AnswersForward, TypeOK
<1>4. ASSUME NEW k \in Key, GetHit(k) \/ GetTooBig(k)
      PROVE  AnswerInv' /\ AnswersForward
  BY <1>4, AnswerTaken DEF GetHit, GetTooBig
<1>5. ASSUME NEW k \in Key, PassOver(k) PROVE AnswerInv' /\ AnswersForward
  BY <1>5, <1>2 DEF PassOver
<1>6. ASSUME (\E k \in Flaky : Outage(k) \/ Recover(k)) \/ Tick
             \/ (\E key \in FetchArg : StartFetch(key)) \/ EndFetch
             \/ UNCHANGED driverVars
      PROVE  AnswerInv' /\ AnswersForward
  BY <1>6, <1>2 DEF Outage, Recover, Tick, StartFetch, EndFetch
<1> QED
  BY <1>1, <1>3, <1>4, <1>5, <1>6 DEF Next, Environment, GetStep

\* The invariant above, for any servers and any clients.
THEOREM AnswerInvariant == Spec => []AnswerInv
<1>1. Init => AnswerInv
  BY AnswerStart
<1>2. TypeOK /\ AnswerInv /\ [Next]_driverVars => AnswerInv'
  BY AnswerStep
<1> QED
  BY <1>1, <1>2, TypeCorrect, PTL DEF Spec

-----------------------------------------------------------------------------
\* A step inside a pass leaves what the pass has packed as it is.
AppendsStep ==
    pc = "get" /\ pc' = "get" =>
        /\ tot_size' >= tot_size
        /\ \A i \in Block :
              i < tot_size => buffer_data_block'[i] = buffer_data_block[i]

LEMMA AppendsInPass == ASSUME TypeOK, [Next]_driverVars PROVE AppendsStep
<1>1. ASSUME UNCHANGED <<buffer_data_block, tot_size>> PROVE AppendsStep
  BY <1>1 DEF AppendsStep, TypeOK
<1>2. ASSUME NEW k \in Key, GetHit(k) PROVE AppendsStep
  <2>1. tot_size \in Nat /\ server[k].len \in Nat
    BY DataTypes DEF TypeOK
  <2>2. /\ tot_size' = tot_size + server[k].len
        /\ buffer_data_block' = Memcpy(tot_size, k, server[k])
    BY <1>2, HitEffect
  <2>3. \A i \in Block : i < tot_size => ~(i >= tot_size)
    BY <2>1, ConfigAssumption DEF Block
  <2>4. tot_size' >= tot_size
    <3> DEFINE len == server[k].len
    <3>1. len \in Nat /\ tot_size' = tot_size + len
      BY <2>1, <2>2
    <3> HIDE DEF len
    <3> QED
      BY <2>1, <3>1
  <2> QED
    BY <2>2, <2>3, <2>4 DEF Memcpy, AppendsStep
<1>3. ASSUME NEW k \in Key, PassOver(k) \/ GetMiss(k) \/ GetTooBig(k)
      PROVE  AppendsStep
  BY <1>3, <1>1 DEF PassOver, GetMiss, GetTooBig
<1>4. CASE Environment \/ UNCHANGED driverVars
  BY <1>4, <1>1 DEF Environment, Store, Outage, Recover, Tick
<1>5. CASE (\E key \in FetchArg : StartFetch(key)) \/ EndFetch
  BY <1>5 DEF StartFetch, EndFetch, AppendsStep
<1> QED
  BY <1>2, <1>3, <1>4, <1>5 DEF Next, GetStep

\* A pass only appends, for any keys, lengths and answers of the servers.
THEOREM PassAppends == Spec => AppendsOnly
<1>1. TypeOK /\ [Next]_driverVars => [AppendsStep]_driverVars
  BY AppendsInPass
<1>2. Spec => [][AppendsStep]_driverVars
  BY <1>1, TypeCorrect, PTL DEF Spec
<1> QED
  BY <1>2 DEF AppendsStep, AppendsOnly
=============================================================================

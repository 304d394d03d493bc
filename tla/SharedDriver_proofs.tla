-------------------------- MODULE SharedDriver_proofs --------------------------
(***************************************************************************)
(* Proofs about SharedDriver.  First NoForeignBytes, for any number of     *)
(* units on one driver, any keys configured once each, any fixed lengths   *)
(* and any attributes.  The places of the keys in the block come from a    *)
(* recursive function, so it starts with a proof that the function is what *)
(* its definition says, and that the places do not overlap: both by the    *)
(* least counterexample.                                                   *)
(*                                                                         *)
(* Then the unit that is alone on its driver: it implements                *)
(* MemcachedDriver, and what is proved there makes each of its reads       *)
(* whole.                                                                  *)
(***************************************************************************)
EXTENDS SharedDriver, WellFoundedInduction, NaturalsInduction, TLAPS

USE DEF envVars, blockVars, threadVars, vars

\* A set of numbers has a least one.
LEMMA LeastNat ==
    ASSUME NEW T \in SUBSET Nat, T # {} PROVE \E n \in T : \A m \in T : n <= m
<1> DEFINE R == {p \in Nat \X Nat : p[1] < p[2]}
<1>1. IsWellFoundedOn(R, Nat)
  BY NatLessThanWellFounded DEF OpToRel
<1>2. \A m, n \in Nat : <<m, n>> \notin R => n <= m
  <2> SUFFICES ASSUME NEW m \in Nat, NEW n \in Nat, ~(n <= m) PROVE <<m, n>> \in R
    OBVIOUS
  <2>1. m < n
    OBVIOUS
  <2> QED
    BY <2>1
<1> HIDE DEF R
<1>3. \E n \in T : \A m \in T : <<m, n>> \notin R
  BY <1>1, WFMin
<1> QED
  BY <1>2, <1>3

-----------------------------------------------------------------------------
KeyCount == Len(data_keys)

LengthAt(i) == length[data_keys[i]]

LEMMA KeyTypes ==
    /\ KeyCount \in Nat
    /\ \A i \in 1 .. KeyCount :
          /\ data_keys[i] \in Key
          /\ LengthAt(i) \in Nat /\ LengthAt(i) > 0
BY ConfigAssumption DEF KeyCount, LengthAt

\* f gives the places of the first n keys.
Places(f, n) ==
    f = [i \in 1 .. n |-> IF i = 1 THEN 0 ELSE f[i - 1] + LengthAt(i - 1)]

\* The recursion that defines Place has a solution.
LEMMA PlacesExist == \E f : Places(f, KeyCount + 1)
<1> SUFFICES ASSUME ~\E f : Places(f, KeyCount + 1) PROVE FALSE
  OBVIOUS
<1> DEFINE T == {n \in Nat : ~\E f : Places(f, n)}
<1>1. PICK n \in T : \A m \in T : n <= m
  <2>1. KeyCount + 1 \in T /\ T \in SUBSET Nat
    BY KeyTypes
  <2> HIDE DEF T
  <2> QED
    BY <2>1, LeastNat
<1>2. n # 0
  <2>1. Places([i \in 1 .. 0 |-> 0], 0)
    BY DEF Places
  <2> QED
    BY <2>1
<1>3. PICK f : Places(f, n - 1)
  <2>1. n - 1 \in Nat /\ ~(n <= n - 1)
    BY <1>2
  <2> QED
    BY <1>1, <2>1
<1> DEFINE g == [i \in 1 .. n |-> IF i = 1 THEN 0 ELSE f[i - 1] + LengthAt(i - 1)]
<1>4. ASSUME NEW i \in 1 .. (n - 1) PROVE g[i] = f[i]
  BY <1>3 DEF Places
<1>5. ASSUME NEW i \in 1 .. n
      PROVE  g[i] = IF i = 1 THEN 0 ELSE g[i - 1] + LengthAt(i - 1)
  <2>1. CASE i = 1
    BY <2>1
  <2>2. CASE i # 1
    <3>1. i - 1 \in 1 .. (n - 1)
      BY <2>2
    <3> QED
      BY <1>4, <2>2, <3>1
  <2> QED
    BY <2>1, <2>2
<1>6. Places(g, n)
  BY <1>5 DEF Places
<1> QED
  BY <1>6

\* Place is what its definition says: the first key lies at 0, and every
\* other behind the one before it.
LEMMA PlaceSteps ==
    /\ Place[1] = 0
    /\ \A i \in 1 .. KeyCount : Place[i + 1] = Place[i] + LengthAt(i)
<1>1. PICK f : f = [i \in 1 .. (Len(data_keys) + 1) |->
                      IF i = 1 THEN 0 ELSE f[i - 1] + length[data_keys[i - 1]]]
  BY PlacesExist DEF Places, KeyCount, LengthAt
<1>2. Place = [i \in 1 .. (Len(data_keys) + 1) |->
                 IF i = 1 THEN 0 ELSE Place[i - 1] + length[data_keys[i - 1]]]
  BY <1>1 DEF Place
<1>3. Place[1] = 0
  BY <1>2, KeyTypes DEF KeyCount
<1>4. ASSUME NEW i \in 1 .. KeyCount PROVE Place[i + 1] = Place[i] + LengthAt(i)
  <2>1. /\ i + 1 \in 1 .. (Len(data_keys) + 1) /\ i + 1 # 1
        /\ (i + 1) - 1 = i
    BY KeyTypes DEF KeyCount
  <2> QED
    BY <1>2, <2>1 DEF LengthAt
<1> QED
  BY <1>3, <1>4

LEMMA PlaceType == \A i \in 1 .. (KeyCount + 1) : Place[i] \in Nat
<1> SUFFICES ASSUME NEW b \in 1 .. (KeyCount + 1), Place[b] \notin Nat PROVE FALSE
  OBVIOUS
<1> DEFINE T == {i \in 1 .. (KeyCount + 1) : Place[i] \notin Nat}
<1>1. PICK n \in T : \A m \in T : n <= m
  <2>1. b \in T /\ T \in SUBSET Nat
    BY KeyTypes
  <2> HIDE DEF T
  <2> QED
    BY <2>1, LeastNat
<1>2. n # 1
  BY PlaceSteps
<1>3. n - 1 \in 1 .. KeyCount /\ n - 1 \in 1 .. (KeyCount + 1) /\ ~(n <= n - 1)
  BY <1>2, KeyTypes
<1>4. Place[n - 1] \in Nat
  BY <1>1, <1>3
<1>5. Place[(n - 1) + 1] \in Nat
  <2>1. LengthAt(n - 1) \in Nat /\ Place[(n - 1) + 1] = Place[n - 1] + LengthAt(n - 1)
    BY <1>3, KeyTypes, PlaceSteps
  <2> QED
    BY <1>4, <2>1
<1>6. (n - 1) + 1 = n
  BY <1>3, KeyTypes
<1> QED
  BY <1>5, <1>6

\* A key lies behind the end of every key before it.
LEMMA PlacesApart ==
    ASSUME NEW i \in 1 .. KeyCount, NEW j \in 1 .. (KeyCount + 1), i < j
    PROVE  Place[i] + LengthAt(i) <= Place[j]
<1> SUFFICES ASSUME ~(Place[i] + LengthAt(i) <= Place[j]) PROVE FALSE
  OBVIOUS
<1> DEFINE T == {m \in 1 .. (KeyCount + 1) :
                    i < m /\ ~(Place[i] + LengthAt(i) <= Place[m])}
<1>1. PICK n \in T : \A m \in T : n <= m
  <2>1. j \in T /\ T \in SUBSET Nat
    BY KeyTypes
  <2> HIDE DEF T
  <2> QED
    BY <2>1, LeastNat
<1>2. n # i + 1
  <2>1. Place[i] + LengthAt(i) <= Place[i + 1]
    BY PlaceSteps, PlaceType, KeyTypes
  <2> QED
    BY <2>1
<1>3. /\ n - 1 \in 1 .. KeyCount /\ n - 1 \in 1 .. (KeyCount + 1) /\ i < n - 1
      /\ ~(n <= n - 1) /\ (n - 1) + 1 = n
  BY <1>2, KeyTypes
<1>4. Place[i] + LengthAt(i) <= Place[n - 1]
  BY <1>1, <1>3
<1>5. /\ Place[n] = Place[n - 1] + LengthAt(n - 1)
      /\ LengthAt(n - 1) \in Nat /\ LengthAt(i) \in Nat
      /\ Place[n - 1] \in Nat /\ Place[i] \in Nat
  BY <1>3, PlaceSteps, PlaceType, KeyTypes
<1>6. Place[i] + LengthAt(i) <= Place[n]
  BY <1>4, <1>5
<1> QED
  BY <1>6

\* A byte of the block belongs to one key, at one position of its value.
LEMMA OneOwner ==
    ASSUME NEW i \in 1 .. KeyCount, NEW x \in 0 .. (LengthAt(i) - 1),
           NEW j \in 1 .. KeyCount, NEW y \in 0 .. (LengthAt(j) - 1),
           Place[i] + x = Place[j] + y
    PROVE  i = j /\ x = y
<1>1. /\ Place[i] \in Nat /\ Place[j] \in Nat
      /\ LengthAt(i) \in Nat /\ LengthAt(j) \in Nat
  BY PlaceType, KeyTypes
<1>2. ~(i < j)
  <2> SUFFICES ASSUME i < j PROVE FALSE
    OBVIOUS
  <2>1. Place[i] + LengthAt(i) <= Place[j]
    BY PlacesApart, KeyTypes
  <2> QED
    BY <1>1, <2>1
<1>3. ~(j < i)
  <2> SUFFICES ASSUME j < i PROVE FALSE
    OBVIOUS
  <2>1. Place[j] + LengthAt(j) <= Place[i]
    BY PlacesApart, KeyTypes
  <2> QED
    BY <1>1, <2>1
<1>4. i = j
  BY <1>2, <1>3, KeyTypes
<1> QED
  BY <1>1, <1>4

LEMMA PlaceInBlock ==
    ASSUME NEW i \in 1 .. KeyCount, NEW x \in 0 .. (LengthAt(i) - 1)
    PROVE  Place[i] + x \in Block
<1>1. KeyCount + 1 \in 1 .. (KeyCount + 1) /\ i < KeyCount + 1
  BY KeyTypes
<1>2. Place[i] + LengthAt(i) <= Place[KeyCount + 1]
  BY <1>1, PlacesApart
<1>3. /\ Place[i] \in Nat /\ Place[KeyCount + 1] \in Nat /\ LengthAt(i) \in Nat
  BY <1>1, PlaceType, KeyTypes
<1> QED
  BY <1>2, <1>3 DEF Block, data_pack_len, KeyCount

-----------------------------------------------------------------------------
(* The invariant.  As long as no pass slid, every pass packs each key at   *)
(* its place, so two passes that overlap write the same bytes of the same  *)
(* keys, and a byte that belongs to its key stays that key's.              *)

DistinctKeys ==
    \A i, j \in 1 .. KeyCount : data_keys[i] = data_keys[j] => i = j

InPass(u) == pc[u] \in {"get", "missed", "offset", "copy"}

\* The contents a byte of a value of key k may have.
ByteOf(k, x) == {<<k, ver, x>> : ver \in 1 .. MaxVersion[k]}

\* The value of the i-th key is whole in its place, apart from versions.
Filled(i) ==
    \A x \in 0 .. (LengthAt(i) - 1) :
        buffer_data_block[Place[i] + x] \in ByteOf(data_keys[i], x)

Types ==
    /\ server \in [Key -> Nat]
    /\ \A k \in Key : server[k] <= MaxVersion[k]
    /\ DOMAIN buffer_data_block = Block
    /\ DOMAIN key2off = Key
    /\ data_results \in [Key -> BOOLEAN]
    /\ pc \in [Unit -> {"idle", "stamp", "get", "missed", "offset", "copy",
                        "read", "reading"}]
    /\ DOMAIN it = Unit /\ DOMAIN tot_size = Unit /\ DOMAIN value = Unit
    /\ DOMAIN base = Unit /\ DOMAIN todo = Unit /\ DOMAIN data_ptr = Unit
    /\ DOMAIN sure = Unit
    /\ slid \in BOOLEAN

\* A pass has packed the keys before the one it is at.
PassInv(u) ==
    IF InPass(u)
    THEN /\ it[u] \in 1 .. (KeyCount + 1)
         /\ tot_size[u] = Place[it[u]]
         /\ pc[u] = "missed" => it[u] >= KeyCount
    ELSE tot_size[u] = 0

\* The bytes of the key under way that are no longer to do are copied.
CopyInv(u) ==
    pc[u] \in {"offset", "copy"} =>
        /\ it[u] \in 1 .. KeyCount
        /\ value[u] \in 1 .. MaxVersion[data_keys[it[u]]]
        /\ pc[u] = "copy" =>
             /\ key2off[data_keys[it[u]]] = Place[it[u]]
             /\ todo[u] \subseteq 0 .. (LengthAt(it[u]) - 1)
             /\ \A x \in (0 .. (LengthAt(it[u]) - 1)) \ todo[u] :
                   buffer_data_block[Place[it[u]] + x]
                       \in ByteOf(data_keys[it[u]], x)

\* A read whose key was reported good when it began copies from that key's
\* place, and what it has copied is that key's.
SourceOf(u, i) ==
    /\ data_keys[i] = Here(u).keybind
    /\ base[u] = Place[i] + Here(u).offset
    /\ Filled(i)

ReadInv(u) ==
    pc[u] = "reading" =>
        /\ it[u] \in Attr
        /\ todo[u] \subseteq 0 .. (Here(u).len - 1)
        /\ DOMAIN data_ptr[u] = 0 .. (Here(u).len - 1)
        /\ sure[u] =>
             /\ \E i \in 1 .. KeyCount : SourceOf(u, i)
             /\ \A x \in (0 .. (Here(u).len - 1)) \ todo[u] :
                   data_ptr[u][x] \in ByteOf(Here(u).keybind, Here(u).offset + x)

ThreadInv(u) == PassInv(u) /\ CopyInv(u) /\ ReadInv(u)

\* A key reported good is whole in its place, and its offset says so.
GoodInv ==
    \A k \in Key : data_results[k] =>
        \E i \in 1 .. KeyCount :
            data_keys[i] = k /\ key2off[k] = Place[i] /\ Filled(i)

SharedInv ==
    /\ Types
    /\ ~slid => GoodInv /\ \A u \in Unit : ThreadInv(u)

-----------------------------------------------------------------------------
(* What a step leaves: the bytes that belong to their key, and the offsets *)
(* that say where.                                                         *)

BytesStay ==
    \A i \in 1 .. KeyCount : \A x \in 0 .. (LengthAt(i) - 1) :
        buffer_data_block[Place[i] + x] \in ByteOf(data_keys[i], x)
            => buffer_data_block'[Place[i] + x] \in ByteOf(data_keys[i], x)

OffsetsStay ==
    \A i \in 1 .. KeyCount :
        key2off[data_keys[i]] = Place[i] => key2off'[data_keys[i]] = Place[i]

\* The thread of u and its locals.
ThreadStays(u) ==
    /\ pc'[u] = pc[u] /\ it'[u] = it[u] /\ tot_size'[u] = tot_size[u]
    /\ value'[u] = value[u] /\ base'[u] = base[u] /\ todo'[u] = todo[u]
    /\ data_ptr'[u] = data_ptr[u] /\ sure'[u] = sure[u]

LEMMA FilledStays ==
    ASSUME BytesStay, NEW i \in 1 .. KeyCount, Filled(i) PROVE Filled(i)'
BY DEF BytesStay, Filled

\* The steps of the others do not disturb what holds of a thread.
LEMMA OthersKeep ==
    ASSUME NEW u \in Unit, ThreadInv(u), ThreadStays(u), BytesStay, OffsetsStay
    PROVE  ThreadInv(u)'
<1>1. PassInv(u)'
  BY DEF ThreadInv, PassInv, InPass, ThreadStays
<1>2. CopyInv(u)'
  BY DEF ThreadInv, CopyInv, ThreadStays, BytesStay, OffsetsStay
<1>3. \A i \in 1 .. KeyCount : SourceOf(u, i) => SourceOf(u, i)'
  BY FilledStays DEF SourceOf, Here, ThreadStays
<1>4. ReadInv(u)'
  BY <1>3 DEF ThreadInv, ReadInv, Here, ThreadStays
<1> QED
  BY <1>1, <1>2, <1>4 DEF ThreadInv

LEMMA GoodStays ==
    ASSUME GoodInv, BytesStay, OffsetsStay, UNCHANGED data_results
    PROVE  GoodInv'
BY FilledStays DEF GoodInv, OffsetsStay

\* It is enough to look at the thread that takes a step, and at the results.
LEMMA OneThread ==
    ASSUME NEW u \in Unit, ~slid, ~slid', SharedInv, BytesStay, OffsetsStay,
           Types', GoodInv', ThreadInv(u)',
           \A v \in Unit : v # u => ThreadStays(v)
    PROVE  SharedInv'
BY OthersKeep DEF SharedInv

LEMMA SharedStart == Init => SharedInv
<1> SUFFICES ASSUME Init PROVE SharedInv
  OBVIOUS
<1>1. Types
  <2>1. slid \in BOOLEAN
    BY DEF Init
  <2>2. server \in [Key -> Nat] /\ \A k \in Key : server[k] <= MaxVersion[k]
    BY ConfigAssumption DEF Init
  <2> QED
    BY <2>1, <2>2 DEF Init, Types
<1>2. GoodInv
  BY DEF Init, GoodInv
<1>3. ASSUME NEW u \in Unit PROVE ThreadInv(u)
  BY DEF Init, ThreadInv, PassInv, InPass, CopyInv, ReadInv
<1> QED
  BY <1>1, <1>2, <1>3 DEF SharedInv

-----------------------------------------------------------------------------
(* The steps of a thread.                                                  *)

\* A step that leaves the block, the offsets and the results.
LEMMA BlockStays ==
    ASSUME UNCHANGED blockVars PROVE BytesStay /\ OffsetsStay /\ (GoodInv => GoodInv')
BY GoodStays DEF BytesStay, OffsetsStay

\* What the environment leaves, and that the versions keep their bound.
LEMMA StoredVersions ==
    ASSUME Types, Environment \/ Tick
    PROVE  /\ UNCHANGED <<blockVars, threadVars, slid>>
           /\ server' \in [Key -> Nat]
           /\ \A k \in Key : server'[k] <= MaxVersion[k]
<1>1. CASE Tick
  BY <1>1 DEF Tick, Types
<1>2. ASSUME NEW k \in Key, Store(k), UNCHANGED <<age, blockVars, threadVars, slid>>
      PROVE  /\ server' \in [Key -> Nat]
             /\ \A j \in Key : server'[j] <= MaxVersion[j]
  <2>1. server[k] \in Nat /\ MaxVersion[k] \in Nat /\ server[k] + 1 <= MaxVersion[k]
    <3>1. server[k] \in Nat /\ MaxVersion[k] \in Nat
      BY ConfigAssumption DEF Types
    <3>2. server[k] < MaxVersion[k]
      BY <1>2 DEF Store
    <3> QED
      BY <3>1, <3>2
  <2> QED
    BY <1>2, <2>1 DEF Store, Types
<1>3. ASSUME NEW k \in Key, OutageOrRecovery(k)
      PROVE  UNCHANGED server
  BY <1>3 DEF OutageOrRecovery
<1> QED
  BY <1>1, <1>2, <1>3 DEF Environment, Types

LEMMA EnvironmentKeeps ==
    ASSUME SharedInv, Environment \/ Tick PROVE SharedInv'
<1>1. /\ UNCHANGED <<blockVars, threadVars, slid>>
      /\ server' \in [Key -> Nat]
      /\ \A k \in Key : server'[k] <= MaxVersion[k]
  BY StoredVersions DEF SharedInv
<1>2. Types'
  BY <1>1 DEF SharedInv, Types
<1>3. ASSUME NEW u \in Unit PROVE ThreadStays(u)
  BY <1>1 DEF ThreadStays
<1> QED
  BY <1>1, <1>2, <1>3, BlockStays, OthersKeep DEF SharedInv

\* What AtKey and the assumptions say of the key a pass is at.
LEMMA AtKeyFacts ==
    ASSUME NEW u \in Unit, NEW k \in Key, AtKey(u, k), InPass(u), ThreadInv(u)
    PROVE  /\ it[u] \in 1 .. KeyCount /\ data_keys[it[u]] = k
           /\ LengthAt(it[u]) = length[k]
           /\ tot_size[u] = Place[it[u]]
           /\ pc[u] = "missed" => it[u] = KeyCount
<1>1. it[u] \in 1 .. (KeyCount + 1) /\ it[u] <= KeyCount
  BY DEF AtKey, ThreadInv, PassInv, KeyCount
<1> QED
  BY <1>1, KeyTypes DEF AtKey, ThreadInv, PassInv, LengthAt

\* FetchDue, Stamp, FetchThrottled
LEMMA FetchKeeps ==
    ASSUME SharedInv, NEW u \in Unit, FetchDue(u) \/ Stamp(u) \/ FetchThrottled(u)
    PROVE  SharedInv'
<1>1. UNCHANGED <<server, blockVars, slid>>
  BY DEF FetchDue, Stamp, FetchThrottled
<1>2. Types' /\ \A v \in Unit : v # u => ThreadStays(v)
  BY <1>1 DEF SharedInv, Types, FetchDue, Stamp, FetchThrottled, Goto, ThreadStays
<1>3. ASSUME ThreadInv(u) PROVE ThreadInv(u)'
  <2>1. 1 \in 1 .. (KeyCount + 1) /\ Place[1] = 0
    BY KeyTypes, PlaceSteps
  <2> QED
    BY <1>3, <2>1
       DEF FetchDue, Stamp, FetchThrottled, Goto, SharedInv, Types, ThreadInv,
           PassInv, InPass, CopyInv, ReadInv
<1>4. CASE slid
  BY <1>1, <1>2, <1>4 DEF SharedInv
<1>5. CASE ~slid
  BY <1>1, <1>2, <1>3, <1>5, BlockStays, OneThread DEF SharedInv
<1> QED
  BY <1>4, <1>5

\* GetMiss, GetHit
LEMMA GetKeeps ==
    ASSUME SharedInv, NEW u \in Unit, NEW k \in Key, GetMiss(u, k) \/ GetHit(u, k)
    PROVE  SharedInv'
<1>0. slid' \in BOOLEAN /\ (slid => slid')
  <2>1. CASE GetMiss(u, k)
    <3>1. slid' = (slid \/ it[u] < Len(data_keys))
      BY <2>1 DEF GetMiss
    <3> QED
      BY <3>1
  <2>2. CASE GetHit(u, k)
    BY <2>2 DEF GetHit, SharedInv, Types
  <2> QED
    BY <2>1, <2>2
<1>1. /\ UNCHANGED <<server, blockVars>>
      /\ pc[u] = "get" /\ AtKey(u, k) /\ UNCHANGED <<it, tot_size>>
  BY DEF GetMiss, GetHit
<1>2. Types' /\ \A v \in Unit : v # u => ThreadStays(v)
  BY <1>0, <1>1 DEF SharedInv, Types, GetMiss, GetHit, Goto, ThreadStays
<1>3. ASSUME ThreadInv(u), ~slid' PROVE ThreadInv(u)'
  <2>1. it[u] \in 1 .. KeyCount /\ data_keys[it[u]] = k
    BY <1>1, <1>3, AtKeyFacts DEF InPass
  <2>2. CASE GetMiss(u, k)
    <3>1. pc'[u] = "missed" /\ ~(it[u] < KeyCount)
      BY <1>3, <2>2 DEF GetMiss, Goto, SharedInv, Types, KeyCount
    <3>2. it[u] >= KeyCount
      BY <2>1, <3>1, KeyTypes
    <3> QED
      BY <1>1, <1>3, <3>1, <3>2 DEF ThreadInv, PassInv, InPass, CopyInv, ReadInv
  <2>3. CASE GetHit(u, k)
    <3>1. pc'[u] = "offset" /\ value'[u] = server[k]
      BY <2>3 DEF GetHit, Goto, SharedInv, Types
    <3>2. server[k] \in 1 .. MaxVersion[k]
      BY <2>3, ConfigAssumption DEF GetHit, Answers, SharedInv, Types
    <3> QED
      BY <1>1, <1>3, <2>1, <3>1, <3>2 DEF ThreadInv, PassInv, InPass, CopyInv, ReadInv
  <2> QED
    BY <2>2, <2>3
<1>4. CASE slid'
  BY <1>2, <1>4 DEF SharedInv
<1>5. CASE ~slid'
  <2>1. ~slid
    BY <1>0, <1>5
  <2>2. ThreadInv(u)'
    BY <1>3, <1>5, <2>1 DEF SharedInv
  <2>3. GoodInv' /\ BytesStay /\ OffsetsStay
    BY <1>1, <2>1, BlockStays DEF SharedInv
  <2> QED
    BY <1>2, <1>5, <2>1, <2>2, <2>3, OneThread
<1> QED
  BY <1>4, <1>5

\* The end of a key's turn: the pass goes on behind it or ends.
LEMMA NextKeyKeeps ==
    ASSUME Types, NEW u \in Unit, NEW k \in Key, AtKey(u, k), InPass(u), ThreadInv(u),
           NEW packed, DOMAIN packed = Unit, NextKey(u, packed),
           it[u] < KeyCount => packed[u] = tot_size[u] + length[k]
    PROVE  PassInv(u)' /\ CopyInv(u)' /\ ReadInv(u)'
<1>1. /\ it[u] \in 1 .. KeyCount /\ tot_size[u] = Place[it[u]]
      /\ LengthAt(it[u]) = length[k]
  BY AtKeyFacts
<1>2. CASE it[u] < KeyCount
  <2>1. pc'[u] = "get" /\ it'[u] = it[u] + 1 /\ tot_size'[u] = Place[it[u] + 1]
    BY <1>1, <1>2, PlaceSteps DEF NextKey, Goto, Types, KeyCount
  <2>2. it[u] + 1 \in 1 .. (KeyCount + 1)
    BY <1>1, KeyTypes
  <2> QED
    BY <2>1, <2>2 DEF PassInv, InPass, CopyInv, ReadInv
<1>3. CASE ~(it[u] < KeyCount)
  <2>1. pc'[u] = "read" /\ tot_size'[u] = 0
    BY <1>3 DEF NextKey, Goto, Types, KeyCount
  <2> QED
    BY <2>1 DEF PassInv, InPass, CopyInv, ReadInv
<1> QED
  BY <1>2, <1>3

LEMMA MissedKeeps ==
    ASSUME SharedInv, NEW u \in Unit, NEW k \in Key, SetMissed(u, k)
    PROVE  SharedInv'
<1>1. /\ pc[u] = "missed" /\ AtKey(u, k) /\ NextKey(u, tot_size)
      /\ data_results' = [data_results EXCEPT ![k] = FALSE]
      /\ UNCHANGED <<server, buffer_data_block, key2off, base, todo, data_ptr,
                     sure, slid>>
  BY DEF SetMissed
<1>2. Types' /\ \A v \in Unit : v # u => ThreadStays(v)
  BY <1>1 DEF SharedInv, Types, NextKey, Goto, ThreadStays
<1>3. BytesStay /\ OffsetsStay
  BY <1>1 DEF BytesStay, OffsetsStay
<1>4. ASSUME GoodInv PROVE GoodInv'
  <2>1. \A j \in Key : data_results'[j] => data_results[j]
    BY <1>1 DEF SharedInv, Types
  <2> QED
    BY <1>1, <1>3, <1>4, <2>1, FilledStays DEF GoodInv
<1>5. ASSUME ThreadInv(u) PROVE ThreadInv(u)'
  <2>1. ~(it[u] < KeyCount)
    BY <1>1, <1>5, AtKeyFacts, KeyTypes DEF InPass
  <2>2. PassInv(u)' /\ CopyInv(u)' /\ ReadInv(u)'
    BY <1>1, <1>5, <2>1, NextKeyKeeps DEF InPass, SharedInv, Types
  <2> QED
    BY <2>2 DEF ThreadInv
<1>6. CASE slid
  BY <1>1, <1>2, <1>6 DEF SharedInv
<1>7. CASE ~slid
  BY <1>1, <1>2, <1>3, <1>4, <1>5, <1>7, OneThread DEF SharedInv
<1> QED
  BY <1>6, <1>7

LEMMA OffsetKeeps ==
    ASSUME DistinctKeys, SharedInv, NEW u \in Unit, NEW k \in Key, SetOffset(u, k)
    PROVE  SharedInv'
<1>1. /\ pc[u] = "offset" /\ AtKey(u, k)
      /\ pc' = [pc EXCEPT ![u] = "copy"]
      /\ key2off' = [key2off EXCEPT ![k] = tot_size[u]]
      /\ todo' = [todo EXCEPT ![u] = 0 .. (length[k] - 1)]
      /\ UNCHANGED <<server, buffer_data_block, data_results, it, tot_size, value,
                     base, data_ptr, sure, slid>>
  BY DEF SetOffset, Goto
<1>2. Types' /\ \A v \in Unit : v # u => ThreadStays(v)
  BY <1>1 DEF SharedInv, Types, ThreadStays
<1>3. CASE slid
  BY <1>1, <1>2, <1>3 DEF SharedInv
<1>4. CASE ~slid
  <2>1. /\ it[u] \in 1 .. KeyCount /\ data_keys[it[u]] = k
        /\ LengthAt(it[u]) = length[k] /\ tot_size[u] = Place[it[u]]
        /\ ThreadInv(u)
    BY <1>1, <1>4, AtKeyFacts DEF SharedInv, InPass
  <2>4. BytesStay
    BY <1>1 DEF BytesStay
  <2>5. OffsetsStay
    <3> SUFFICES ASSUME NEW i \in 1 .. KeyCount, key2off[data_keys[i]] = Place[i]
                 PROVE  key2off'[data_keys[i]] = Place[i]
      BY DEF OffsetsStay
    <3>1. CASE data_keys[i] = k
      <4>1. i = it[u]
        BY <2>1, <3>1 DEF DistinctKeys
      <4> QED
        BY <1>1, <2>1, <3>1, <4>1 DEF SharedInv, Types
    <3>2. CASE data_keys[i] # k
      BY <1>1, <3>2, KeyTypes DEF SharedInv, Types
    <3> QED
      BY <3>1, <3>2
  <2>6. GoodInv'
    BY <1>1, <1>4, <2>4, <2>5, GoodStays DEF SharedInv
  <2>7. ThreadInv(u)'
    <3>1. /\ pc'[u] = "copy" /\ todo'[u] = 0 .. (LengthAt(it[u]) - 1)
          /\ key2off'[k] = Place[it[u]]
      BY <1>1, <2>1 DEF SharedInv, Types
    <3>2. value[u] \in 1 .. MaxVersion[k]
      BY <1>1, <2>1 DEF ThreadInv, CopyInv
    <3> QED
      BY <1>1, <2>1, <3>1, <3>2 DEF ThreadInv, PassInv, InPass, CopyInv, ReadInv
  <2> QED
    BY <1>1, <1>2, <1>4, <2>4, <2>5, <2>6, <2>7, OneThread
<1> QED
  BY <1>3, <1>4

\* A byte is copied to where it belongs.
LEMMA CopyKeeps ==
    ASSUME SharedInv, NEW u \in Unit, NEW k \in Key, CopyByte(u, k)
    PROVE  SharedInv'
<1>1. PICK c \in todo[u] :
         /\ buffer_data_block' =
               [buffer_data_block EXCEPT ![tot_size[u] + c] = <<k, value[u], c>>]
         /\ todo' = [todo EXCEPT ![u] = @ \ {c}]
  BY DEF CopyByte
<1>2. /\ pc[u] = "copy" /\ AtKey(u, k)
      /\ UNCHANGED <<server, key2off, data_results, pc, it, tot_size, value,
                     base, data_ptr, sure, slid>>
  BY DEF CopyByte
<1>3. \A v \in Unit : v # u => ThreadStays(v)
  BY <1>1, <1>2 DEF SharedInv, Types, ThreadStays
<1>4. Types'
  BY <1>1, <1>2 DEF SharedInv, Types
<1>5. CASE slid
  BY <1>2, <1>4, <1>5 DEF SharedInv
<1>6. CASE ~slid
  <2> DEFINE at == it[u]
  <2>1. /\ at \in 1 .. KeyCount /\ data_keys[at] = k
        /\ LengthAt(at) = length[k] /\ tot_size[u] = Place[at]
        /\ ThreadInv(u)
    BY <1>2, <1>6, AtKeyFacts DEF SharedInv, InPass
  <2>2. /\ value[u] \in 1 .. MaxVersion[k] /\ key2off[k] = Place[at]
        /\ todo[u] \subseteq 0 .. (LengthAt(at) - 1)
        /\ \A x \in (0 .. (LengthAt(at) - 1)) \ todo[u] :
              buffer_data_block[Place[at] + x] \in ByteOf(k, x)
    BY <1>2, <2>1 DEF ThreadInv, CopyInv
  <2>3. c \in 0 .. (LengthAt(at) - 1) /\ Place[at] + c \in Block
    BY <2>1, <2>2, PlaceInBlock
  <2>4. buffer_data_block'[Place[at] + c] \in ByteOf(k, c)
    BY <1>1, <2>1, <2>2, <2>3 DEF SharedInv, Types, ByteOf
  <2>5. ASSUME NEW i \in 1 .. KeyCount, NEW x \in 0 .. (LengthAt(i) - 1),
               ~(i = at /\ x = c)
        PROVE  buffer_data_block'[Place[i] + x] = buffer_data_block[Place[i] + x]
    <3>1. Place[i] + x # Place[at] + c
      BY <2>1, <2>3, <2>5, OneOwner
    <3>2. Place[i] + x \in Block
      BY PlaceInBlock
    <3> QED
      BY <1>1, <2>1, <3>1, <3>2 DEF SharedInv, Types
  <2>6. BytesStay
    <3> SUFFICES ASSUME NEW i \in 1 .. KeyCount, NEW x \in 0 .. (LengthAt(i) - 1),
                        buffer_data_block[Place[i] + x] \in ByteOf(data_keys[i], x)
                 PROVE  buffer_data_block'[Place[i] + x] \in ByteOf(data_keys[i], x)
      BY DEF BytesStay
    <3>1. CASE i = at /\ x = c
      BY <2>1, <2>4, <3>1
    <3>2. CASE ~(i = at /\ x = c)
      BY <2>5, <3>2
    <3> QED
      BY <3>1, <3>2
  <2>7. OffsetsStay /\ GoodInv'
    BY <1>2, <1>6, <2>6, GoodStays DEF OffsetsStay, SharedInv
  <2>8. ThreadInv(u)'
    <3>1. todo'[u] = todo[u] \ {c}
      BY <1>1 DEF SharedInv, Types
    <3>2. ASSUME NEW x \in (0 .. (LengthAt(at) - 1)) \ todo'[u]
          PROVE  buffer_data_block'[Place[at] + x] \in ByteOf(k, x)
      <4>1. CASE x = c
        BY <2>4, <4>1
      <4>2. CASE x # c
        <5>1. buffer_data_block[Place[at] + x] \in ByteOf(k, x)
          BY <2>2, <3>1, <4>2
        <5> QED
          BY <2>1, <2>5, <4>2, <5>1
      <4> QED
        BY <4>1, <4>2
    <3>3. PassInv(u)' /\ ReadInv(u)'
      BY <1>2, <2>1 DEF ThreadInv, PassInv, InPass, ReadInv
    <3>4. CopyInv(u)'
      BY <1>2, <2>1, <2>2, <3>1, <3>2 DEF CopyInv
    <3> QED
      BY <3>3, <3>4 DEF ThreadInv
  <2> QED
    BY <1>2, <1>3, <1>4, <1>6, <2>6, <2>7, <2>8, OneThread
<1> QED
  BY <1>5, <1>6

LEMMA ResultKeeps ==
    ASSUME SharedInv, NEW u \in Unit, NEW k \in Key, SetResult(u, k)
    PROVE  SharedInv'
<1> DEFINE packed == [tot_size EXCEPT ![u] = @ + length[k]]
<1>1. /\ pc[u] = "copy" /\ AtKey(u, k) /\ todo[u] = {} /\ NextKey(u, packed)
      /\ data_results' = [data_results EXCEPT ![k] = TRUE]
      /\ UNCHANGED <<server, buffer_data_block, key2off, base, todo, data_ptr,
                     sure, slid>>
  BY DEF SetResult
<1>2. Types' /\ \A v \in Unit : v # u => ThreadStays(v)
  BY <1>1 DEF SharedInv, Types, NextKey, Goto, ThreadStays
<1>3. BytesStay /\ OffsetsStay
  BY <1>1 DEF BytesStay, OffsetsStay
<1>4. CASE slid
  BY <1>1, <1>2, <1>4 DEF SharedInv
<1>5. CASE ~slid
  <2>1. /\ it[u] \in 1 .. KeyCount /\ data_keys[it[u]] = k /\ ThreadInv(u)
    BY <1>1, <1>5, AtKeyFacts DEF SharedInv, InPass
  <2>2. key2off[k] = Place[it[u]] /\ Filled(it[u])
    BY <1>1, <2>1 DEF ThreadInv, CopyInv, Filled
  <2>3. GoodInv'
    <3>1. ASSUME NEW j \in Key, data_results'[j]
          PROVE  \E i \in 1 .. KeyCount :
                    data_keys[i] = j /\ key2off[j] = Place[i] /\ Filled(i)
      <4>1. CASE j = k
        BY <2>1, <2>2, <4>1
      <4>2. CASE j # k
        BY <1>1, <1>5, <3>1, <4>2 DEF SharedInv, Types, GoodInv
      <4> QED
        BY <4>1, <4>2
    <3> QED
      BY <1>1, <1>3, <3>1, FilledStays DEF GoodInv
  <2>4. ThreadInv(u)'
    <3>1. DOMAIN packed = Unit /\ packed[u] = tot_size[u] + length[k]
      BY DEF SharedInv, Types
    <3> HIDE DEF packed
    <3>2. PassInv(u)' /\ CopyInv(u)' /\ ReadInv(u)'
      BY <1>1, <2>1, <3>1, NextKeyKeeps DEF InPass, SharedInv
    <3> QED
      BY <3>2 DEF ThreadInv
  <2> QED
    BY <1>1, <1>2, <1>3, <1>5, <2>3, <2>4, OneThread
<1> QED
  BY <1>4, <1>5

-----------------------------------------------------------------------------
\* The attributes a read goes over.
LEMMA HereFacts ==
    ASSUME NEW u \in Unit, it[u] \in Attr
    PROVE  /\ Here(u).keybind \in Key /\ Here(u).offset \in Nat
           /\ Here(u).len \in Nat \ {0}
           /\ Here(u).offset + Here(u).len <= length[Here(u).keybind]
<1> DEFINE Cut == [keybind : Key, offset : Nat, len : Nat \ {0}]
<1>1. attribute_off_len_vec \in Seq(Cut)
  BY ConfigAssumption
<1>2. \A v \in Cut : v.keybind \in Key /\ v.offset \in Nat /\ v.len \in Nat \ {0}
  OBVIOUS
<1> HIDE DEF Cut
<1>3. Here(u) \in Cut
  BY <1>1 DEF Attr, Here
<1> QED
  BY <1>2, <1>3, ConfigAssumption DEF Here

LEMMA StartKeeps ==
    ASSUME SharedInv, NEW u \in Unit, StartRead(u) PROVE SharedInv'
<1>1. /\ pc[u] = "read" /\ it[u] \in Attr
      /\ pc' = [pc EXCEPT ![u] = "reading"]
      /\ base' = [base EXCEPT ![u] = key2off[Here(u).keybind] + Here(u).offset]
      /\ todo' = [todo EXCEPT ![u] = 0 .. (Here(u).len - 1)]
      /\ data_ptr' = [data_ptr EXCEPT ![u] = [i \in 0 .. (Here(u).len - 1) |-> Junk]]
      /\ sure' = [sure EXCEPT ![u] = data_results[Here(u).keybind]]
      /\ UNCHANGED <<server, blockVars, it, tot_size, value, slid>>
  BY DEF StartRead, Goto
<1>2. Types' /\ \A v \in Unit : v # u => ThreadStays(v)
  BY <1>1 DEF SharedInv, Types, ThreadStays
<1>3. CASE slid
  BY <1>1, <1>2, <1>3 DEF SharedInv
<1>4. CASE ~slid
  <2>1. /\ pc'[u] = "reading" /\ it'[u] = it[u] /\ tot_size'[u] = 0
        /\ base'[u] = key2off[Here(u).keybind] + Here(u).offset
        /\ todo'[u] = 0 .. (Here(u).len - 1)
        /\ data_ptr'[u] = [i \in 0 .. (Here(u).len - 1) |-> Junk]
        /\ sure'[u] = data_results[Here(u).keybind]
        /\ Here(u)' = Here(u)
    BY <1>1, <1>4 DEF SharedInv, Types, ThreadInv, PassInv, InPass, Here
  <2>2. ASSUME data_results[Here(u).keybind]
        PROVE  \E i \in 1 .. KeyCount : SourceOf(u, i)'
    <3>1. PICK i \in 1 .. KeyCount :
             /\ data_keys[i] = Here(u).keybind
             /\ key2off[Here(u).keybind] = Place[i] /\ Filled(i)
      BY <1>1, <1>4, <2>2, HereFacts DEF SharedInv, GoodInv
    <3> QED
      BY <1>1, <2>1, <3>1 DEF SourceOf, Filled
  <2>3. ReadInv(u)'
    BY <1>1, <2>1, <2>2 DEF ReadInv
  <2>4. PassInv(u)' /\ CopyInv(u)'
    BY <2>1 DEF PassInv, InPass, CopyInv
  <2> QED
    BY <1>1, <1>2, <1>4, <2>3, <2>4, BlockStays, OneThread DEF SharedInv, ThreadInv
<1> QED
  BY <1>3, <1>4

LEMMA ReadKeeps ==
    ASSUME SharedInv, NEW u \in Unit, ReadByte(u) PROVE SharedInv'
<1>1. PICK c \in todo[u] :
         /\ data_ptr' = [data_ptr EXCEPT ![u][c] = ByteAt(base[u] + c)]
         /\ todo' = [todo EXCEPT ![u] = @ \ {c}]
  BY DEF ReadByte
<1>2. /\ pc[u] = "reading"
      /\ UNCHANGED <<server, blockVars, pc, it, tot_size, value, base, sure, slid>>
  BY DEF ReadByte
<1>3. Types' /\ \A v \in Unit : v # u => ThreadStays(v)
  BY <1>1, <1>2 DEF SharedInv, Types, ThreadStays
<1>4. CASE slid
  BY <1>2, <1>3, <1>4 DEF SharedInv
<1>5. CASE ~slid
  <2>1. ThreadInv(u) /\ Here(u)' = Here(u)
    BY <1>2, <1>5 DEF SharedInv, Here
  <2>2. /\ it[u] \in Attr /\ todo[u] \subseteq 0 .. (Here(u).len - 1)
        /\ DOMAIN data_ptr[u] = 0 .. (Here(u).len - 1)
    BY <1>2, <2>1 DEF ThreadInv, ReadInv
  <2>3. /\ data_ptr'[u] = [data_ptr[u] EXCEPT ![c] = ByteAt(base[u] + c)]
        /\ todo'[u] = todo[u] \ {c}
    BY <1>1 DEF SharedInv, Types
  <2>4. ASSUME sure[u]
        PROVE  /\ \E i \in 1 .. KeyCount : SourceOf(u, i)'
               /\ \A x \in (0 .. (Here(u).len - 1)) \ todo'[u] :
                     data_ptr'[u][x] \in ByteOf(Here(u).keybind, Here(u).offset + x)
    <3>1. PICK i \in 1 .. KeyCount : SourceOf(u, i)
      BY <1>2, <2>1, <2>4 DEF ThreadInv, ReadInv
    <3>2. SourceOf(u, i)'
      BY <1>2, <2>1, <3>1 DEF SourceOf, Filled
    <3>3. ByteAt(base[u] + c) \in ByteOf(Here(u).keybind, Here(u).offset + c)
      <4> DEFINE offset == Here(u).offset
      <4> DEFINE len == Here(u).len
      <4>1. offset \in Nat /\ len \in Nat /\ offset + len <= LengthAt(i)
        BY <2>2, <3>1, HereFacts DEF SourceOf, LengthAt
      <4>2. c \in 0 .. (len - 1)
        BY <2>2
      <4>3. base[u] = Place[i] + offset
        BY <3>1 DEF SourceOf
      <4> HIDE DEF offset, len
      <4>4. /\ offset + c \in 0 .. (LengthAt(i) - 1)
            /\ base[u] + c = Place[i] + (offset + c)
        BY <4>1, <4>2, <4>3, KeyTypes, PlaceType
      <4>5. Place[i] + (offset + c) \in Block
        BY <4>4, PlaceInBlock
      <4>6. buffer_data_block[Place[i] + (offset + c)] \in ByteOf(data_keys[i], offset + c)
        BY <3>1, <4>4 DEF SourceOf, Filled
      <4> QED
        BY <3>1, <4>4, <4>5, <4>6 DEF ByteAt, SourceOf, offset
    <3>4. ASSUME NEW x \in (0 .. (Here(u).len - 1)) \ todo'[u]
          PROVE  data_ptr'[u][x] \in ByteOf(Here(u).keybind, Here(u).offset + x)
      <4>1. CASE x = c
        BY <2>2, <2>3, <3>3, <4>1
      <4>2. CASE x # c
        <5>1. data_ptr[u][x] \in ByteOf(Here(u).keybind, Here(u).offset + x)
          BY <1>2, <2>1, <2>3, <2>4, <4>2 DEF ThreadInv, ReadInv
        <5> QED
          BY <2>2, <2>3, <4>2, <5>1
      <4> QED
        BY <4>1, <4>2
    <3> QED
      BY <3>2, <3>4
  <2>5. ReadInv(u)'
    BY <1>2, <2>1, <2>2, <2>3, <2>4 DEF ReadInv
  <2>6. PassInv(u)' /\ CopyInv(u)'
    BY <1>2, <2>1 DEF ThreadInv, PassInv, InPass, CopyInv
  <2> QED
    BY <1>2, <1>3, <1>5, <2>5, <2>6, BlockStays, OneThread DEF SharedInv, ThreadInv
<1> QED
  BY <1>4, <1>5

LEMMA ReturnKeeps ==
    ASSUME SharedInv, NEW u \in Unit, ReturnRead(u) PROVE SharedInv'
<1>1. /\ pc[u] = "reading"
      /\ pc' = [pc EXCEPT ![u] = IF it[u] + 1 \in Attr THEN "read" ELSE "idle"]
      /\ it' = [it EXCEPT ![u] = IF it[u] + 1 \in Attr THEN @ + 1 ELSE 1]
      /\ base' = [base EXCEPT ![u] = 0]
      /\ data_ptr' = [data_ptr EXCEPT ![u] = <<>>]
      /\ sure' = [sure EXCEPT ![u] = FALSE]
      /\ UNCHANGED <<server, blockVars, tot_size, value, todo, slid>>
  BY DEF ReturnRead, Goto
<1>2. Types' /\ \A v \in Unit : v # u => ThreadStays(v)
  BY <1>1 DEF SharedInv, Types, ThreadStays
<1>3. CASE slid
  BY <1>1, <1>2, <1>3 DEF SharedInv
<1>4. CASE ~slid
  <2>1. /\ pc'[u] \in {"read", "idle"} /\ tot_size'[u] = 0
    BY <1>1, <1>4 DEF SharedInv, Types, ThreadInv, PassInv, InPass
  <2>2. ThreadInv(u)'
    BY <2>1 DEF ThreadInv, PassInv, InPass, CopyInv, ReadInv
  <2> QED
    BY <1>1, <1>2, <1>4, <2>2, BlockStays, OneThread DEF SharedInv
<1> QED
  BY <1>3, <1>4

-----------------------------------------------------------------------------
\* The invariant, for keys that are configured once each.
THEOREM SharedInvariant == ASSUME DistinctKeys PROVE Spec => []SharedInv
<1>1. SharedInv /\ [Next]_vars => SharedInv'
  <2> SUFFICES ASSUME SharedInv, [Next]_vars PROVE SharedInv'
    OBVIOUS
  <2>1. CASE Environment \/ Tick
    BY <2>1, EnvironmentKeeps
  <2>2. ASSUME NEW u \in Unit, UnitStep(u) PROVE SharedInv'
    <3>1. ASSUME NEW k \in Key,
                 \/ GetMiss(u, k) \/ SetMissed(u, k) \/ GetHit(u, k)
                 \/ SetOffset(u, k) \/ CopyByte(u, k) \/ SetResult(u, k)
          PROVE  SharedInv'
      BY <3>1, GetKeeps, MissedKeeps, OffsetKeeps, CopyKeeps, ResultKeeps
    <3> QED
      BY <2>2, <3>1, FetchKeeps, StartKeeps, ReadKeeps, ReturnKeeps DEF UnitStep
  <2>3. CASE UNCHANGED vars
    <3>1. \A u \in Unit : ThreadStays(u)
      BY <2>3 DEF ThreadStays
    <3>2. Types'
      BY <2>3 DEF SharedInv, Types
    <3> QED
      BY <2>3, <3>1, <3>2, BlockStays, OthersKeep DEF SharedInv
  <2> QED
    BY <2>1, <2>2, <2>3 DEF Next
<1> QED
  BY <1>1, SharedStart, PTL DEF Spec

\* As long as no pass missed a key that others follow, a read reported good
\* whose key was good when it began returns its own attribute's bytes, with
\* any number of units on the driver and any passes that overlap it.
THEOREM NoForeignBytesEver ==
    ASSUME DistinctKeys PROVE Spec => []NoForeignBytes
<1>1. SharedInv => NoForeignBytes
  <2> SUFFICES ASSUME SharedInv, ~slid, NEW u \in Unit, ReturnsGood(u), sure[u],
                      NEW i \in DOMAIN data_ptr[u]
               PROVE  \E ver \in 1 .. MaxVersion[Here(u).keybind] : OwnByte(u, i, ver)
    BY DEF NoForeignBytes
  <2>1. /\ pc[u] = "reading" /\ todo[u] = {} /\ ReadInv(u)
    BY DEF ReturnsGood, SharedInv, ThreadInv
  <2>2. data_ptr[u][i] \in ByteOf(Here(u).keybind, Here(u).offset + i)
    BY <2>1 DEF ReadInv
  <2> QED
    BY <2>2 DEF ByteOf, OwnByte
<1> QED
  BY <1>1, SharedInvariant, PTL

-----------------------------------------------------------------------------
(* One unit alone on the driver. Its thread, byte by byte, then implements *)
(* MemcachedDriver, which takes a get and a read as one step each: a get   *)
(* counts as done when the server answers, and what the thread still has   *)
(* to write is shown as written. MemcachedDriver keeps what a thread       *)
(* forgets when a call returns; two history variables keep it here.        *)

CONSTANTS
    unit,      \* the unit that is alone
    NoKey,     \* the empty string
    Versions   \* a bound on the versions of all keys

VARIABLES
    answer,    \* history: the value the last successful get of a key returned
    last       \* history: where the iterator and the count stood at the end
               \* of the last pass

Alone ==
    /\ Unit = {unit}
    /\ NoKey \notin Key
    /\ Flaky \subseteq Key
    /\ Versions \in Nat
    /\ \A k \in Key : MaxVersion[k] <= Versions

KeyNow == data_keys[it[unit]]

\* The server's answer is there, but the pass is not at the next key yet.
Missed == pc[unit] = "missed"
Packing == pc[unit] \in {"offset", "copy"}

\* The bytes of the value that are still to be copied.
Owed ==
    {x \in 0 .. (length[KeyNow] - 1) :
        pc[unit] = "offset" \/ (pc[unit] = "copy" /\ x \in todo[unit])}

Stored(k, ver) == [ver |-> ver, len |-> IF ver = 0 THEN 0 ELSE length[k]]

Tagged(b) == [key |-> IF b = Junk THEN NoKey ELSE b[1], ver |-> b[2], idx |-> b[3]]

serial_server == [k \in Key |-> Stored(k, server[k])]
serial_age ==
    [k \in Key \cup {NoKey} |-> IF k = NoKey THEN age ELSE maxUpdateRefresh + 1]
serial_block ==
    [i \in Block |->
        IF i - tot_size[unit] \in Owed
        THEN [key |-> KeyNow, ver |-> value[unit], idx |-> i - tot_size[unit]]
        ELSE Tagged(buffer_data_block[i])]
serial_key2off ==
    [k \in Key \cup {NoKey} |->
        IF k = NoKey THEN 0
        ELSE IF pc[unit] = "offset" /\ k = KeyNow THEN tot_size[unit] ELSE key2off[k]]
serial_results ==
    [k \in Key \cup {NoKey} |->
        IF k = NoKey \/ (Missed /\ k = KeyNow) THEN FALSE
        ELSE IF Packing /\ k = KeyNow THEN TRUE ELSE data_results[k]]
serial_pc == IF InPass(unit) THEN "get" ELSE "idle"
serial_it ==
    IF InPass(unit) THEN IF pc[unit] = "get" THEN it[unit] ELSE it[unit] + 1
    ELSE last.it
serial_tot ==
    IF InPass(unit) THEN tot_size[unit] + (IF Packing THEN length[KeyNow] ELSE 0)
    ELSE last.tot_size

Serial == INSTANCE MemcachedDriver_proofs WITH
        Uint32 <- data_pack_len + 1,
        Lengths <- {length[k] : k \in Key},
        FetchArg <- {NoKey},
        MaxVersion <- Versions,
        server <- serial_server,
        age <- serial_age,
        buffer_data_block <- serial_block,
        key2off <- serial_key2off,
        data_results <- serial_results,
        pc <- serial_pc,
        fkey <- NoKey,
        it <- serial_it,
        tot_size <- serial_tot,
        room <- data_pack_len - serial_tot

serialVars ==
    <<serial_server, up, serial_age, serial_block, serial_key2off, serial_results,
      answer, serial_pc, serial_it, serial_tot>>

\* The specification with the history.
HistoryInit ==
    /\ answer = [k \in Key |-> Stored(k, 0)]
    /\ last = [it |-> 1, tot_size |-> 0]

HistoryStep ==
    /\ answer' = [k \in Key |->
                    IF GetHit(unit, k) THEN Stored(k, server[k]) ELSE answer[k]]
    /\ last' = IF InPass(unit) /\ ~InPass(unit)'
               THEN [it |-> serial_it, tot_size |-> serial_tot] ELSE last

HistorySpec ==
    Init /\ HistoryInit /\ [][Next /\ HistoryStep]_<<vars, answer, last>>

-----------------------------------------------------------------------------
(* The invariant of the thread that is alone.                              *)

CellType ==
    \A i \in Block :
        \/ buffer_data_block[i] = Junk
        \/ \E k \in Key : \E ver \in 1 .. MaxVersion[k], x \in Nat :
              buffer_data_block[i] = <<k, ver, x>>

AloneTypes ==
    /\ Types
    /\ age \in 0 .. (maxUpdateRefresh + 1)
    /\ key2off \in [Key -> Nat]
    /\ CellType
    /\ answer \in [Key -> [ver : Nat, len : Nat]]
    /\ \A k \in Key : answer[k].ver > 0 => answer[k].len = length[k]

\* Misses only make a pass shorter, so every value finds its room.
AlonePass ==
    /\ pc[unit] = "stamp" => age > maxUpdateRefresh
    /\ InPass(unit) =>
         /\ it[unit] \in 1 .. KeyCount
         /\ tot_size[unit] \in 0 .. Place[it[unit]]
    /\ ~InPass(unit) => tot_size[unit] = 0
    /\ Packing => value[unit] \in 1 .. MaxVersion[KeyNow]
    /\ pc[unit] = "copy" =>
         /\ todo[unit] \subseteq 0 .. (length[KeyNow] - 1)
         /\ key2off[KeyNow] = tot_size[unit]

\* Nobody writes the block while the unit reads it.
AloneRead ==
    pc[unit] = "reading" =>
        /\ it[unit] \in Attr
        /\ todo[unit] \subseteq 0 .. (Here(unit).len - 1)
        /\ DOMAIN data_ptr[unit] = 0 .. (Here(unit).len - 1)
        /\ base[unit] = key2off[Here(unit).keybind] + Here(unit).offset
        /\ \A x \in (0 .. (Here(unit).len - 1)) \ todo[unit] :
              data_ptr[unit][x] = ByteAt(base[unit] + x)

AloneInv == AloneTypes /\ AlonePass /\ AloneRead

\* The types do not depend on what the passes have missed.
LEMMA TypesStep == ASSUME Types, [Next]_vars PROVE Types'
<1>1. ASSUME NEW u \in Unit, NEW k \in Key,
             GetMiss(u, k) \/ SetMissed(u, k) \/ GetHit(u, k)
      PROVE  Types'
  <2>1. CASE GetMiss(u, k)
    <3>1. slid' \in BOOLEAN
      <4>1. slid' = (slid \/ it[u] < Len(data_keys))
        BY <2>1 DEF GetMiss
      <4> QED
        BY <4>1
    <3> QED
      BY <2>1, <3>1 DEF GetMiss, Goto, Types
  <2>2. CASE SetMissed(u, k)
    BY <2>2 DEF SetMissed, NextKey, Goto, Types
  <2>3. CASE GetHit(u, k)
    BY <2>3 DEF GetHit, Goto, Types
  <2> QED
    BY <1>1, <2>1, <2>2, <2>3
<1>2. ASSUME NEW u \in Unit, NEW k \in Key,
             SetOffset(u, k) \/ CopyByte(u, k) \/ SetResult(u, k)
      PROVE  Types'
  <2>1. CASE SetOffset(u, k)
    BY <2>1 DEF SetOffset, Goto, Types
  <2>2. CASE CopyByte(u, k)
    BY <2>2 DEF CopyByte, Types
  <2>3. CASE SetResult(u, k)
    BY <2>3 DEF SetResult, NextKey, Goto, Types
  <2> QED
    BY <1>2, <2>1, <2>2, <2>3
<1>3. ASSUME NEW u \in Unit, FetchDue(u) \/ Stamp(u) \/ FetchThrottled(u)
      PROVE  Types'
  BY <1>3 DEF FetchDue, Stamp, FetchThrottled, Goto, Types
<1>4. ASSUME NEW u \in Unit, StartRead(u) \/ ReadByte(u) \/ ReturnRead(u)
      PROVE  Types'
  <2>1. CASE StartRead(u)
    BY <2>1 DEF StartRead, Goto, Types
  <2>2. CASE ReadByte(u)
    BY <2>2 DEF ReadByte, Types
  <2>3. CASE ReturnRead(u)
    BY <2>3 DEF ReturnRead, Goto, Types
  <2> QED
    BY <1>4, <2>1, <2>2, <2>3
<1>5. CASE Environment \/ Tick
  <2>1. /\ UNCHANGED <<blockVars, threadVars, slid>>
        /\ server' \in [Key -> Nat]
        /\ \A k \in Key : server'[k] <= MaxVersion[k]
    BY <1>5, StoredVersions
  <2> QED
    BY <2>1 DEF Types
<1>6. CASE UNCHANGED vars
  BY <1>6 DEF Types
<1> QED
  BY <1>1, <1>2, <1>3, <1>4, <1>5, <1>6 DEF Next, UnitStep

LEMMA AloneStart == ASSUME Alone, Init, HistoryInit PROVE AloneInv
<1>1. Types
  <2>1. slid \in BOOLEAN
    BY DEF Init
  <2>2. server \in [Key -> Nat] /\ \A k \in Key : server[k] <= MaxVersion[k]
    BY ConfigAssumption DEF Init
  <2> QED
    BY <2>1, <2>2 DEF Init, Types
<1>2. AloneTypes
  BY <1>1, ConfigAssumption DEF AloneTypes, CellType, Init, HistoryInit, Stored
<1>3. pc[unit] = "idle" /\ tot_size[unit] = 0
  BY DEF Alone, Init
<1> QED
  BY <1>2, <1>3 DEF AloneInv, AlonePass, AloneRead, InPass, Packing

-----------------------------------------------------------------------------
(* What the history does, and what MemcachedDriver sees.                   *)

LEMMA NoHit ==
    ASSUME Alone, AloneTypes, HistoryStep, ~(pc[unit] = "get" /\ pc'[unit] = "offset")
    PROVE  answer' = answer
<1>1. \A k \in Key : ~GetHit(unit, k)
  BY DEF Alone, AloneTypes, Types, GetHit, Goto
<1> QED
  BY <1>1 DEF HistoryStep, AloneTypes

LEMMA NoEnd ==
    ASSUME HistoryStep, InPass(unit) => InPass(unit)' PROVE last' = last
BY DEF HistoryStep

LEMMA ViewStays ==
    ASSUME UNCHANGED <<blockVars, threadVars, last>>
    PROVE  UNCHANGED <<serial_block, serial_key2off, serial_results, serial_pc,
                       serial_it, serial_tot>>
<1>1. UNCHANGED <<KeyNow, Missed, Packing, InPass(unit)>>
  BY DEF KeyNow, Missed, Packing, InPass
<1>2. UNCHANGED Owed
  BY <1>1 DEF Owed
<1> QED
  BY <1>1, <1>2 DEF serial_block, serial_key2off, serial_results, serial_pc,
     serial_it, serial_tot

\* Of a thread that is not in the middle of a get, the block and its offsets
\* are seen as they are.
LEMMA PlainView ==
    ASSUME ~Packing, ~Missed
    PROVE  /\ serial_block = [i \in Block |-> Tagged(buffer_data_block[i])]
           /\ serial_key2off = [k \in Key \cup {NoKey} |->
                                  IF k = NoKey THEN 0 ELSE key2off[k]]
           /\ serial_results = [k \in Key \cup {NoKey} |->
                                  IF k = NoKey THEN FALSE ELSE data_results[k]]
<1>1. Owed = {} /\ pc[unit] # "offset"
  BY DEF Packing, Owed
<1> QED
  BY <1>1 DEF serial_block, serial_key2off, serial_results

LEMMA PlainViewNext ==
    ASSUME ~Packing', ~Missed'
    PROVE  /\ serial_block' = [i \in Block |-> Tagged(buffer_data_block'[i])]
           /\ serial_key2off' = [k \in Key \cup {NoKey} |->
                                  IF k = NoKey THEN 0 ELSE key2off'[k]]
           /\ serial_results' = [k \in Key \cup {NoKey} |->
                                  IF k = NoKey THEN FALSE ELSE data_results'[k]]
<1>1. Owed' = {} /\ pc'[unit] # "offset"
  BY DEF Packing, Owed
<1> QED
  BY <1>1 DEF serial_block, serial_key2off, serial_results, Tagged

\* The block takes every value.
LEMMA PackLength == data_pack_len \in Nat
<1>1. KeyCount + 1 \in 1 .. (KeyCount + 1)
  BY KeyTypes
<1> QED
  BY <1>1, PlaceType DEF data_pack_len, KeyCount

\* A step between two calls that leaves the block: a stutter of MemcachedDriver.
LEMMA QuietStep ==
    ASSUME Alone, AloneTypes, HistoryStep, ~InPass(unit), ~InPass(unit)',
           UNCHANGED <<envVars, age, blockVars>>
    PROVE  UNCHANGED serialVars
<1>1. answer' = answer /\ last' = last
  BY NoHit, NoEnd DEF InPass
<1>2. ~Packing /\ ~Missed /\ ~Packing' /\ ~Missed'
  BY DEF InPass, Packing, Missed
<1>3. UNCHANGED <<serial_block, serial_key2off, serial_results>>
  BY <1>2, PlainView, PlainViewNext
<1>4. UNCHANGED <<serial_server, serial_age, serial_pc, serial_it, serial_tot>>
  BY <1>1 DEF serial_server, serial_age, serial_pc, serial_it, serial_tot
<1> QED
  BY <1>1, <1>3, <1>4 DEF serialVars

LEMMA EnvironmentMaps ==
    ASSUME Alone, AloneInv, Environment \/ Tick, HistoryStep
    PROVE  AloneInv' /\ Serial!Environment
<1>1. UNCHANGED <<blockVars, threadVars>> /\ Types'
  BY StoredVersions, TypesStep DEF AloneInv, AloneTypes, Next
<1>2. answer' = answer /\ last' = last
  BY <1>1, NoHit, NoEnd DEF AloneInv, InPass
<1>3. age' \in 0 .. (maxUpdateRefresh + 1) /\ (age > maxUpdateRefresh => age' = age)
  <2>1. CASE Tick
    <3>1. /\ age \in 0 .. (maxUpdateRefresh + 1) /\ maxUpdateRefresh \in Nat
          /\ age <= maxUpdateRefresh /\ age' = age + 1
      BY <2>1, ConfigAssumption DEF AloneInv, AloneTypes, Tick
    <3> QED
      BY <3>1
  <2>2. CASE Environment
    BY <2>2 DEF AloneInv, AloneTypes, Environment
  <2> QED
    BY <2>1, <2>2
<1>4. AloneInv'
  <2>1. AloneTypes'
    BY <1>1, <1>2, <1>3 DEF AloneInv, AloneTypes, CellType
  <2>2. AlonePass'
    BY <1>1, <1>3 DEF AloneInv, AlonePass, InPass, Packing, KeyNow
  <2>3. AloneRead'
    BY <1>1 DEF AloneInv, AloneRead, Here, ByteAt
  <2> QED
    BY <2>1, <2>2, <2>3 DEF AloneInv
<1>5. UNCHANGED <<serial_block, serial_key2off, serial_results, serial_pc,
                  serial_it, serial_tot>>
  BY <1>1, <1>2, ViewStays
<1>6. CASE Tick
  <2>1. serial_age' = [k \in Serial!MapKey |-> IF serial_age[k] <= maxUpdateRefresh
                                        THEN serial_age[k] + 1 ELSE serial_age[k]]
    BY <1>6, ConfigAssumption DEF Tick, serial_age, Serial!MapKey
  <2>2. serial_age[NoKey] <= maxUpdateRefresh
    BY <1>6 DEF Tick, serial_age
  <2>3. UNCHANGED serial_server /\ up' = up
    BY <1>6 DEF Tick, serial_server
  <2>4. Serial!Tick
    BY <1>2, <1>5, <2>1, <2>2, <2>3
       DEF Serial!Tick, Serial!envVars, Serial!blockVars, Serial!loopVars
  <2> QED
    BY <1>4, <2>4 DEF Serial!Environment
<1>7. ASSUME NEW k \in Key, Store(k), UNCHANGED age PROVE Serial!Environment
  <2>1. /\ server[k] \in Nat /\ MaxVersion[k] \in Nat
        /\ server[k] < MaxVersion[k] /\ up' = up
        /\ server' = [server EXCEPT ![k] = @ + 1]
    BY <1>7, ConfigAssumption DEF Store, AloneInv, AloneTypes, Types
  <2>2. serial_server[k].ver = server[k]
    BY DEF serial_server, Stored
  <2>3. serial_server' = [serial_server EXCEPT ![k] =
                            [ver |-> serial_server[k].ver + 1, len |-> length[k]]]
    <3>1. \A j \in Key : server'[j] = IF j = k THEN server[k] + 1 ELSE server[j]
      BY <2>1 DEF AloneInv, AloneTypes, Types
    <3>2. server[k] + 1 # 0
      BY <2>1
    <3> QED
      BY <2>2, <3>1, <3>2 DEF serial_server, Stored
  <2>4. serial_server[k].ver < Versions
    BY <2>1, <2>2 DEF Alone
  <2>5. UNCHANGED serial_age
    BY <1>7 DEF serial_age
  <2>6. Serial!Store(k, length[k])
    BY <1>2, <1>5, <2>1, <2>3, <2>4, <2>5
       DEF Serial!Store, Serial!blockVars, Serial!loopVars
  <2> QED
    BY <2>6 DEF Serial!Environment
<1>8. ASSUME NEW k \in Key, k \in Flaky, OutageOrRecovery(k), UNCHANGED age
      PROVE  Serial!Environment
  <2>1. UNCHANGED <<serial_server, serial_age>>
    BY <1>8 DEF OutageOrRecovery, serial_server, serial_age
  <2>2. Serial!Outage(k) \/ Serial!Recover(k)
    BY <1>2, <1>5, <1>8, <2>1
       DEF OutageOrRecovery, Serial!Outage, Serial!Recover, Serial!blockVars,
           Serial!loopVars
  <2> QED
    BY <1>8, <2>2 DEF Serial!Environment
<1> QED
  BY <1>4, <1>6, <1>7, <1>8 DEF Environment

-----------------------------------------------------------------------------
(* The steps of the thread.                                                *)

\* Seeing a fetch due, throttled, or stamped: the last one starts a pass.
LEMMA FetchMaps ==
    ASSUME Alone, AloneInv, HistoryStep,
           FetchDue(unit) \/ Stamp(unit) \/ FetchThrottled(unit)
    PROVE  AloneInv' /\ (Serial!StartFetch(NoKey) \/ UNCHANGED serialVars)
<1>1. /\ UNCHANGED <<envVars, blockVars, tot_size, value, todo, base, data_ptr>>
      /\ Types' /\ ~InPass(unit)
  <2>1. unit \in Unit
    BY DEF Alone
  <2>2. Types'
    BY <2>1, TypesStep DEF Next, UnitStep, AloneInv, AloneTypes
  <2> QED
    BY <2>2 DEF FetchDue, Stamp, FetchThrottled, InPass
<1>2. answer' = answer
  BY <1>1, NoHit DEF InPass, AloneInv
<1>3. CASE ~Stamp(unit)
  <2>1. /\ UNCHANGED age
        /\ pc'[unit] \in {"stamp", "read"}
        /\ pc'[unit] = "stamp" => age > maxUpdateRefresh
    BY <1>3 DEF FetchDue, FetchThrottled, Goto, Alone, AloneInv, AloneTypes, Types
  <2>2. AloneInv'
    BY <1>1, <1>2, <2>1 DEF AloneInv, AloneTypes, CellType, AlonePass, AloneRead,
       InPass, Packing
  <2>3. UNCHANGED serialVars
    BY <1>1, <2>1, QuietStep DEF InPass, AloneInv
  <2> QED
    BY <2>2, <2>3
<1>4. CASE Stamp(unit)
  <2>1. /\ pc[unit] = "stamp" /\ pc'[unit] = "get" /\ age' = 0 /\ it'[unit] = 1
        /\ age > maxUpdateRefresh
    BY <1>4 DEF Stamp, Goto, Alone, AloneInv, AloneTypes, Types, AlonePass
  <2>2. tot_size[unit] = 0
    BY <2>1 DEF AloneInv, AlonePass, InPass
  <2>3. 1 \in 1 .. KeyCount /\ Place[1] = 0
    BY KeyTypes, PlaceSteps, ConfigAssumption DEF KeyCount
  <2>4. AloneInv'
    <3>1. AloneTypes'
      <4>1. age' \in 0 .. (maxUpdateRefresh + 1)
        BY <2>1, ConfigAssumption
      <4> QED
        BY <1>1, <1>2, <4>1 DEF AloneInv, AloneTypes, CellType
    <3> QED
      BY <1>1, <2>1, <2>2, <2>3, <3>1 DEF AloneInv, AlonePass, AloneRead, InPass,
         Packing
  <2>5. ~Packing /\ ~Missed /\ ~Packing' /\ ~Missed'
    BY <2>1 DEF Packing, Missed
  <2>6. UNCHANGED <<serial_block, serial_key2off, serial_results>>
    BY <1>1, <2>5, PlainView, PlainViewNext
  <2>7. /\ serial_pc = "idle" /\ serial_pc' = "get" /\ serial_it' = 1
        /\ serial_tot' = 0 /\ UNCHANGED serial_server
    BY <1>1, <2>1, <2>2, <2>5 DEF serial_pc, serial_it, serial_tot, InPass,
       serial_server
  <2>8. serial_age' = [serial_age EXCEPT ![NoKey] = 0]
    BY <2>1 DEF serial_age
  <2>9. Serial!Due(NoKey)
    BY <2>1 DEF Serial!Due, serial_age
  <2>10. data_pack_len - serial_tot' = data_pack_len
    BY <2>7, PackLength
  <2>11. Serial!StartFetch(NoKey)
    BY <1>1, <1>2, <2>6, <2>7, <2>8, <2>9, <2>10
       DEF Serial!StartFetch, Serial!envVars, Serial!blockVars
  <2> QED
    BY <2>4, <2>11
<1> QED
  BY <1>3, <1>4

\* What AtKey says of the pass of the unit that is alone.
LEMMA AloneAtKey ==
    ASSUME AlonePass, NEW k \in Key, AtKey(unit, k), InPass(unit)
    PROVE  /\ it[unit] \in 1 .. KeyCount /\ KeyNow = k /\ length[k] = LengthAt(it[unit])
           /\ tot_size[unit] \in Nat /\ length[k] \in Nat
           /\ tot_size[unit] + length[k] <= Place[it[unit] + 1]
           /\ tot_size[unit] + length[k] <= data_pack_len
<1> DEFINE n == it[unit]
<1>1. n \in 1 .. KeyCount /\ KeyNow = k /\ length[k] = LengthAt(n)
      /\ tot_size[unit] \in 0 .. Place[n]
  BY DEF AlonePass, AtKey, KeyNow, LengthAt
<1> HIDE DEF n
<1>2. n \in 1 .. (KeyCount + 1) /\ n + 1 \in 1 .. (KeyCount + 1)
  BY <1>1, KeyTypes
<1>3. Place[n] \in Nat /\ Place[n + 1] \in Nat /\ LengthAt(n) \in Nat
      /\ Place[n + 1] = Place[n] + LengthAt(n)
  BY <1>1, <1>2, PlaceType, PlaceSteps, KeyTypes
<1>4. Place[n] + LengthAt(n) <= data_pack_len
  <2>1. KeyCount + 1 \in 1 .. (KeyCount + 1) /\ n < KeyCount + 1
    BY <1>1, KeyTypes
  <2> QED
    BY <1>1, <2>1, PlacesApart DEF data_pack_len, KeyCount
<1>5. tot_size[unit] \in Nat /\ tot_size[unit] + length[k] <= Place[n + 1]
  BY <1>1, <1>3
<1>6. tot_size[unit] + length[k] <= data_pack_len
  BY <1>1, <1>3, <1>4, PackLength
<1> QED
  BY <1>1, <1>3, <1>5, <1>6 DEF n

\* The get of a key, missed.
LEMMA MissMaps ==
    ASSUME Alone, AloneInv, HistoryStep, NEW k \in Key, GetMiss(unit, k)
    PROVE  AloneInv' /\ Serial!GetMiss(k)
<1>1. /\ pc[unit] = "get" /\ pc'[unit] = "missed" /\ AtKey(unit, k) /\ ~Answers(k)
      /\ UNCHANGED <<envVars, age, blockVars, it, tot_size, value, todo, base, data_ptr>>
  BY DEF GetMiss, Goto, Alone, AloneInv, AloneTypes, Types
<1>2. Types'
  BY TypesStep DEF Next, UnitStep, Alone, AloneInv, AloneTypes
<1>3. answer' = answer /\ last' = last
  BY <1>1, NoHit, NoEnd DEF InPass, AloneInv
<1>4. AloneInv'
  BY <1>1, <1>2, <1>3 DEF AloneInv, AloneTypes, CellType, AlonePass, AloneRead,
     InPass, Packing
<1>5. /\ it[unit] \in 1 .. KeyCount /\ KeyNow = k /\ KeyNow' = k
  BY <1>1, AloneAtKey DEF AloneInv, InPass, KeyNow
<1>6. UNCHANGED <<serial_block, serial_key2off, serial_server, serial_age>>
  <2>1. Owed = {} /\ Owed' = {}
    BY <1>1 DEF Owed
  <2> QED
    BY <1>1, <2>1 DEF serial_block, serial_key2off, serial_server, serial_age, Tagged
<1>7. serial_results' = [serial_results EXCEPT ![k] = FALSE]
  BY <1>1, <1>5 DEF serial_results, Missed, Packing, Alone
<1>8. /\ serial_pc = "get" /\ serial_pc' = "get"
      /\ serial_it = it[unit] /\ serial_it' = it[unit] + 1
      /\ UNCHANGED serial_tot
  BY <1>1 DEF serial_pc, serial_it, serial_tot, InPass, Packing
<1>9. Serial!AtKey(k) /\ Serial!Wanted(k) /\ ~Serial!Answers(k)
  BY <1>1, <1>8 DEF AtKey, Answers, Serial!AtKey, Serial!Wanted, Serial!Answers,
     serial_server, Stored
<1> QED
  BY <1>1, <1>3, <1>4, <1>6, <1>7, <1>8, <1>9 DEF Serial!GetMiss, Serial!envVars

\* The get of a key, answered: the value is seen as packed at once.
LEMMA HitMaps ==
    ASSUME Alone, AloneInv, HistoryStep, NEW k \in Key, GetHit(unit, k)
    PROVE  AloneInv' /\ Serial!GetHit(k) /\ Serial!Fits(serial_server[k])
<1>1. /\ pc[unit] = "get" /\ pc'[unit] = "offset" /\ AtKey(unit, k) /\ Answers(k)
      /\ value'[unit] = server[k]
      /\ UNCHANGED <<envVars, age, blockVars, it, tot_size, todo, base, data_ptr>>
  BY DEF GetHit, Goto, Alone, AloneInv, AloneTypes, Types
<1>2. Types'
  BY TypesStep DEF Next, UnitStep, Alone, AloneInv, AloneTypes
<1>3. /\ it[unit] \in 1 .. KeyCount /\ KeyNow = k /\ KeyNow' = k
      /\ tot_size[unit] \in Nat /\ length[k] \in Nat
      /\ tot_size[unit] + length[k] <= data_pack_len
  BY <1>1, AloneAtKey DEF AloneInv, InPass, KeyNow
<1>4. server[k] \in 1 .. MaxVersion[k]
  BY <1>1, ConfigAssumption DEF Answers, AloneInv, AloneTypes, Types
<1> DEFINE v == serial_server[k]
<1>5. v = [ver |-> server[k], len |-> length[k]]
  BY <1>4 DEF serial_server, Stored
<1>6. answer' = [answer EXCEPT ![k] = v]
  <2>1. \A j \in Key : j # k => ~GetHit(unit, j)
    BY <1>1 DEF GetHit, AtKey
  <2>2. Stored(k, server[k]) = v
    BY DEF serial_server
  <2> QED
    BY <2>1, <2>2 DEF HistoryStep, AloneInv, AloneTypes
<1>7. last' = last
  BY <1>1, NoEnd DEF InPass
<1>8. AloneInv'
  <2>1. /\ answer' \in [Key -> [ver : Nat, len : Nat]]
        /\ \A j \in Key : answer'[j].ver > 0 => answer'[j].len = length[j]
    <3>1. v \in [ver : Nat, len : Nat] /\ v.len = length[k]
      BY <1>3, <1>4, <1>5
    <3> HIDE DEF v
    <3> QED
      BY <1>6, <3>1 DEF AloneInv, AloneTypes
  <2>2. AloneTypes'
    BY <1>1, <1>2, <2>1 DEF AloneInv, AloneTypes, CellType
  <2>3. AlonePass'
    BY <1>1, <1>3, <1>4 DEF AloneInv, AlonePass, InPass, Packing
  <2>4. AloneRead'
    BY <1>1 DEF AloneRead
  <2> QED
    BY <2>2, <2>3, <2>4 DEF AloneInv
<1>9. /\ ~Packing /\ ~Missed /\ Packing' /\ ~Missed'
      /\ Owed' = 0 .. (length[k] - 1) /\ serial_tot = tot_size[unit]
  BY <1>1, <1>3 DEF Packing, Missed, Owed, serial_tot, InPass
<1>10. serial_block' = Serial!Memcpy(serial_tot, k, v)
  <2>1. serial_block' =
           [i \in Block |->
              IF i - tot_size[unit] \in 0 .. (length[k] - 1)
              THEN [key |-> k, ver |-> server[k], idx |-> i - tot_size[unit]]
              ELSE Tagged(buffer_data_block[i])]
    BY <1>1, <1>3, <1>9 DEF serial_block, Tagged
  <2>2. Serial!Memcpy(tot_size[unit], k, v) =
           [i \in Block |->
              IF i >= tot_size[unit] /\ i < tot_size[unit] + length[k]
              THEN [key |-> k, ver |-> server[k], idx |-> i - tot_size[unit]]
              ELSE serial_block[i]]
    BY <1>5 DEF Serial!Memcpy, Serial!Block, Serial!Byte, Block
  <2>3. \A i \in Block : serial_block[i] = Tagged(buffer_data_block[i])
    BY <1>9, PlainView
  <2>4. \A i \in Block :
           i - tot_size[unit] \in 0 .. (length[k] - 1)
              <=> i >= tot_size[unit] /\ i < tot_size[unit] + length[k]
    BY <1>3, PackLength DEF Block
  <2> QED
    BY <1>9, <2>1, <2>2, <2>3, <2>4
<1>11. serial_key2off' = [serial_key2off EXCEPT ![k] = serial_tot]
  BY <1>1, <1>3, <1>9 DEF serial_key2off, Packing, Alone
<1>12. serial_results' = [serial_results EXCEPT ![k] = TRUE]
  BY <1>1, <1>3, <1>9 DEF serial_results, Alone
<1>13. /\ serial_pc = "get" /\ serial_pc' = "get"
       /\ serial_it = it[unit] /\ serial_it' = it[unit] + 1
       /\ serial_tot = tot_size[unit] /\ serial_tot' = tot_size[unit] + length[k]
       /\ UNCHANGED <<serial_server, serial_age>>
  BY <1>1, <1>3, <1>9 DEF serial_pc, serial_it, serial_tot, InPass, serial_server,
     serial_age
<1>14. /\ data_pack_len - serial_tot' = (data_pack_len - serial_tot) - v.len
       /\ v.len <= data_pack_len - serial_tot
  BY <1>3, <1>5, <1>13, PackLength
<1>15. Serial!AtKey(k) /\ Serial!Wanted(k) /\ Serial!Answers(k)
  BY <1>1, <1>4, <1>5, <1>13 DEF AtKey, Answers, Serial!AtKey, Serial!Wanted,
     Serial!Answers
<1>16. Serial!Fits(v)
  BY <1>14 DEF Serial!Fits
<1>17. serial_tot' = serial_tot + v.len
  BY <1>5, <1>13
<1> HIDE DEF v
<1>18. Serial!GetHit(k)
  BY <1>1, <1>6, <1>10, <1>11, <1>12, <1>13, <1>14, <1>15, <1>16, <1>17
     DEF Serial!GetHit, Serial!PackAt, Serial!envVars, v
<1> QED
  BY <1>8, <1>16, <1>18 DEF v

\* What a step in the middle of a get changes is seen already.
LEMMA OffsetMaps ==
    ASSUME Alone, AloneInv, HistoryStep, NEW k \in Key, SetOffset(unit, k)
    PROVE  AloneInv' /\ UNCHANGED serialVars
<1>1. /\ pc[unit] = "offset" /\ pc'[unit] = "copy" /\ AtKey(unit, k)
      /\ key2off' = [key2off EXCEPT ![k] = tot_size[unit]]
      /\ todo'[unit] = 0 .. (length[k] - 1)
      /\ UNCHANGED <<envVars, age, buffer_data_block, data_results, it, tot_size,
                     value, base, data_ptr>>
  BY DEF SetOffset, Goto, Alone, AloneInv, AloneTypes, Types
<1>2. Types'
  BY TypesStep DEF Next, UnitStep, Alone, AloneInv, AloneTypes
<1>3. answer' = answer /\ last' = last
  BY <1>1, NoHit, NoEnd DEF InPass, AloneInv
<1>4. /\ it[unit] \in 1 .. KeyCount /\ KeyNow = k /\ KeyNow' = k
      /\ tot_size[unit] \in Nat
  BY <1>1, AloneAtKey DEF AloneInv, InPass, KeyNow
<1>5. AloneInv'
  <2>1. AloneTypes'
    BY <1>1, <1>2, <1>3, <1>4 DEF AloneInv, AloneTypes, CellType
  <2>2. key2off'[k] = tot_size[unit]
    BY <1>1 DEF AloneInv, AloneTypes
  <2>3. AlonePass'
    BY <1>1, <1>4, <2>2 DEF AloneInv, AlonePass, InPass, Packing
  <2>4. AloneRead'
    BY <1>1 DEF AloneRead
  <2> QED
    BY <2>1, <2>3, <2>4 DEF AloneInv
<1>6. Packing /\ ~Missed /\ Packing' /\ ~Missed' /\ Owed' = Owed
  BY <1>1, <1>4 DEF Packing, Missed, Owed
<1>7. serial_key2off' = serial_key2off
  BY <1>1, <1>4 DEF serial_key2off, AloneInv, AloneTypes, Alone
<1>8. UNCHANGED <<serial_block, serial_results>>
  BY <1>1, <1>4, <1>6 DEF serial_block, serial_results, Tagged
<1>9. UNCHANGED <<serial_server, serial_age, serial_pc, serial_it, serial_tot>>
  BY <1>1, <1>4, <1>6 DEF serial_server, serial_age, serial_pc, serial_it,
     serial_tot, InPass
<1> QED
  BY <1>1, <1>3, <1>5, <1>7, <1>8, <1>9 DEF serialVars

LEMMA CopyMaps ==
    ASSUME Alone, AloneInv, HistoryStep, NEW k \in Key, CopyByte(unit, k)
    PROVE  AloneInv' /\ UNCHANGED serialVars
<1>1. PICK c \in todo[unit] :
         /\ buffer_data_block' =
               [buffer_data_block EXCEPT ![tot_size[unit] + c] =
                   <<k, value[unit], c>>]
         /\ todo' = [todo EXCEPT ![unit] = @ \ {c}]
  BY DEF CopyByte
<1>2. /\ pc[unit] = "copy" /\ AtKey(unit, k) /\ todo'[unit] = todo[unit] \ {c}
      /\ UNCHANGED <<envVars, age, key2off, data_results, pc, it, tot_size,
                     value, base, data_ptr>>
  BY <1>1 DEF CopyByte, Alone, AloneInv, AloneTypes, Types
<1>3. Types'
  BY TypesStep DEF Next, UnitStep, Alone, AloneInv, AloneTypes
<1>4. answer' = answer /\ last' = last
  BY <1>2, NoHit, NoEnd DEF InPass, AloneInv
<1>5. /\ it[unit] \in 1 .. KeyCount /\ KeyNow = k /\ KeyNow' = k
      /\ tot_size[unit] \in Nat /\ length[k] \in Nat
  BY <1>2, AloneAtKey DEF AloneInv, InPass, KeyNow
<1>6. /\ value[unit] \in 1 .. MaxVersion[k] /\ MaxVersion[k] \in Nat
      /\ todo[unit] \subseteq 0 .. (length[k] - 1) /\ c \in 0 .. (length[k] - 1)
  BY <1>1, <1>2, <1>5, ConfigAssumption DEF AloneInv, AlonePass, Packing
<1>7. \A i \in Block :
         buffer_data_block'[i] =
            IF i = tot_size[unit] + c THEN <<k, value[unit], c>>
            ELSE buffer_data_block[i]
  BY <1>1 DEF AloneInv, AloneTypes, Types
<1>8. AloneInv'
  <2>1. CellType'
    BY <1>6, <1>7 DEF AloneInv, AloneTypes, CellType
  <2>2. AloneTypes'
    BY <1>2, <1>3, <1>4, <2>1 DEF AloneInv, AloneTypes
  <2>3. AlonePass'
    BY <1>2, <1>5 DEF AloneInv, AlonePass, InPass, Packing
  <2>4. AloneRead'
    BY <1>2 DEF AloneRead
  <2> QED
    BY <2>2, <2>3, <2>4 DEF AloneInv
<1>9. Packing /\ ~Missed /\ Packing' /\ ~Missed'
  BY <1>2 DEF Packing, Missed
<1>10. serial_block' = serial_block
  <2>1. Owed = todo[unit] /\ Owed' = todo[unit] \ {c}
    BY <1>2, <1>5, <1>6 DEF Owed
  <2>2. Tagged(<<k, value[unit], c>>) = [key |-> k, ver |-> value[unit], idx |-> c]
    BY <1>6 DEF Tagged, Junk
  <2>3. ASSUME NEW i \in Block
        PROVE  (IF i - tot_size[unit] \in Owed'
                THEN [key |-> k, ver |-> value[unit], idx |-> i - tot_size[unit]]
                ELSE Tagged(buffer_data_block'[i]))
               = (IF i - tot_size[unit] \in Owed
                  THEN [key |-> k, ver |-> value[unit], idx |-> i - tot_size[unit]]
                  ELSE Tagged(buffer_data_block[i]))
    <3>1. i \in Int /\ (i = tot_size[unit] + c <=> i - tot_size[unit] = c)
      BY <1>5, <1>6, PackLength DEF Block
    <3>2. CASE i = tot_size[unit] + c
      BY <1>1, <1>7, <2>1, <2>2, <3>1, <3>2
    <3>3. CASE i # tot_size[unit] + c
      BY <1>7, <2>1, <3>1, <3>3
    <3> QED
      BY <3>2, <3>3
  <2> QED
    BY <1>2, <1>5, <2>3 DEF serial_block, Tagged
<1>11. UNCHANGED <<serial_key2off, serial_results>>
  BY <1>2, <1>5, <1>9 DEF serial_key2off, serial_results
<1>12. UNCHANGED <<serial_server, serial_age, serial_pc, serial_it, serial_tot>>
  BY <1>2, <1>5, <1>9 DEF serial_server, serial_age, serial_pc, serial_it,
     serial_tot, InPass
<1> QED
  BY <1>2, <1>4, <1>8, <1>10, <1>11, <1>12 DEF serialVars

\* A key's turn ends: the pass goes on, or returns.
LEMMA TurnMaps ==
    ASSUME Alone, AloneInv, Types', HistoryStep, NEW k \in Key, AtKey(unit, k),
           Missed \/ (pc[unit] = "copy" /\ todo[unit] = {}),
           NEW packed, DOMAIN packed = Unit, NextKey(unit, packed),
           packed[unit] = serial_tot,
           data_results' = [data_results EXCEPT ![k] = serial_results[k]],
           UNCHANGED <<envVars, age, buffer_data_block, key2off, base, todo, data_ptr>>
    PROVE  AloneInv' /\ (UNCHANGED serialVars \/ Serial!EndFetch)
<1> DEFINE n == it[unit]
           more == n < KeyCount
<1>1. InPass(unit) /\ pc[unit] # "get" /\ pc[unit] # "offset"
  BY DEF InPass, Missed
<1>2. /\ n \in 1 .. KeyCount /\ KeyNow = k
      /\ tot_size[unit] \in Nat /\ length[k] \in Nat
      /\ tot_size[unit] + length[k] <= Place[n + 1]
  BY <1>1, AloneAtKey DEF AloneInv
<1>3. answer' = answer
  BY <1>1, NoHit DEF AloneInv
<1>4. /\ pc'[unit] = IF more THEN "get" ELSE "read"
      /\ it'[unit] = IF more THEN n + 1 ELSE 1
      /\ tot_size'[unit] = IF more THEN serial_tot ELSE 0
  BY DEF NextKey, Goto, Alone, AloneInv, AloneTypes, Types, KeyCount
<1>5. serial_tot \in Nat /\ serial_tot <= tot_size[unit] + length[k]
  BY <1>1, <1>2 DEF serial_tot, InPass, Packing
<1>6. n \in Nat /\ KeyCount \in Nat /\ (more => n + 1 \in 1 .. KeyCount)
  BY <1>2, KeyTypes
<1>7. more => serial_tot \in 0 .. Place[n + 1]
  <2>1. n + 1 \in 1 .. (KeyCount + 1)
    BY <1>2, <1>6
  <2>2. Place[n + 1] \in Nat
    BY <2>1, PlaceType
  <2> QED
    BY <1>2, <1>5, <2>2
<1>8. AloneInv'
  <2>1. AloneTypes'
    BY <1>3 DEF AloneInv, AloneTypes, CellType
  <2>2. AlonePass'
    BY <1>4, <1>6, <1>7 DEF AlonePass, InPass, Packing
  <2>3. AloneRead'
    BY <1>4 DEF AloneRead
  <2> QED
    BY <2>1, <2>2, <2>3 DEF AloneInv
<1>9. ~Packing' /\ ~Missed' /\ Owed = {}
  BY <1>1, <1>4 DEF Packing, Missed, Owed
<1>10. UNCHANGED serial_block
  <2>1. serial_block = [i \in Block |-> Tagged(buffer_data_block[i])]
    BY <1>9 DEF serial_block
  <2> QED
    BY <1>9, <2>1, PlainViewNext
<1>11. UNCHANGED <<serial_key2off, serial_results>>
  <2>1. \A j \in Key : serial_results[j] =
                          IF j = k THEN serial_results[k] ELSE data_results[j]
    BY <1>2 DEF serial_results, Alone
  <2>2. \A j \in Key : data_results'[j] = serial_results[j]
    BY <2>1 DEF AloneInv, AloneTypes, Types
  <2>3. serial_results = [j \in Key \cup {NoKey} |->
                            IF j = NoKey THEN FALSE ELSE serial_results[j]]
    BY DEF serial_results
  <2>4. serial_results' = serial_results
    BY <1>9, <2>2, <2>3, PlainViewNext DEF Alone
  <2>5. serial_key2off' = serial_key2off
    BY <1>1, <1>9, PlainViewNext DEF serial_key2off
  <2> QED
    BY <2>4, <2>5
<1>12. UNCHANGED <<serial_server, serial_age>>
  BY DEF serial_server, serial_age
<1>13. CASE more
  <2>1. last' = last
    BY <1>4, <1>13, NoEnd DEF InPass
  <2>2. UNCHANGED <<serial_pc, serial_it, serial_tot>>
    BY <1>1, <1>4, <1>5, <1>9, <1>13 DEF serial_pc, serial_it, serial_tot, InPass
  <2> QED
    BY <1>3, <1>8, <1>10, <1>11, <1>12, <2>1, <2>2 DEF serialVars
<1>14. CASE ~more
  <2>1. ~InPass(unit)'
    BY <1>4, <1>14 DEF InPass
  <2>2. last' = [it |-> serial_it, tot_size |-> serial_tot]
    BY <1>1, <2>1 DEF HistoryStep
  <2>3. UNCHANGED <<serial_it, serial_tot>>
    BY <2>1, <2>2 DEF serial_it, serial_tot
  <2>4. serial_pc = "get" /\ serial_pc' = "idle"
    BY <1>1, <2>1 DEF serial_pc
  <2>5. serial_it > Len(data_keys)
    BY <1>1, <1>2, <1>6, <1>14 DEF serial_it, KeyCount
  <2>6. Serial!EndFetch
    BY <1>3, <1>10, <1>11, <1>12, <2>3, <2>4, <2>5
       DEF Serial!EndFetch, Serial!envVars, Serial!blockVars
  <2> QED
    BY <1>8, <2>6
<1> QED
  BY <1>13, <1>14

LEMMA MissedMaps ==
    ASSUME Alone, AloneInv, HistoryStep, NEW k \in Key, SetMissed(unit, k)
    PROVE  AloneInv' /\ (UNCHANGED serialVars \/ Serial!EndFetch)
<1>1. /\ Missed /\ AtKey(unit, k) /\ NextKey(unit, tot_size)
      /\ data_results' = [data_results EXCEPT ![k] = FALSE]
      /\ UNCHANGED <<envVars, age, buffer_data_block, key2off, base, todo, data_ptr>>
  BY DEF SetMissed, Missed
<1>2. Types'
  BY TypesStep DEF Next, UnitStep, Alone, AloneInv, AloneTypes
<1>3. KeyNow = k /\ tot_size[unit] \in Nat
  BY <1>1, AloneAtKey DEF AloneInv, InPass, Missed
<1>4. serial_tot = tot_size[unit] /\ serial_results[k] = FALSE
  BY <1>1, <1>3 DEF serial_tot, serial_results, InPass, Missed, Packing
<1>5. DOMAIN tot_size = Unit
  BY DEF AloneInv, AloneTypes, Types
<1> QED
  BY <1>1, <1>2, <1>4, <1>5, TurnMaps

LEMMA ResultMaps ==
    ASSUME Alone, AloneInv, HistoryStep, NEW k \in Key, SetResult(unit, k)
    PROVE  AloneInv' /\ (UNCHANGED serialVars \/ Serial!EndFetch)
<1> DEFINE packed == [tot_size EXCEPT ![unit] = @ + length[k]]
<1>1. /\ pc[unit] = "copy" /\ todo[unit] = {} /\ AtKey(unit, k)
      /\ NextKey(unit, packed)
      /\ data_results' = [data_results EXCEPT ![k] = TRUE]
      /\ UNCHANGED <<envVars, age, buffer_data_block, key2off, base, todo, data_ptr>>
  BY DEF SetResult
<1>2. Types'
  BY TypesStep DEF Next, UnitStep, Alone, AloneInv, AloneTypes
<1>3. KeyNow = k
  BY <1>1, AloneAtKey DEF AloneInv, InPass
<1>4. serial_tot = tot_size[unit] + length[k] /\ serial_results[k] = TRUE
  BY <1>1, <1>3 DEF serial_tot, serial_results, InPass, Missed, Packing, Alone
<1>5. DOMAIN packed = Unit /\ packed[unit] = tot_size[unit] + length[k]
  BY DEF AloneInv, AloneTypes, Types, Alone
<1> HIDE DEF packed
<1> QED
  BY <1>1, <1>2, <1>4, <1>5, TurnMaps

\* Reading changes nothing that MemcachedDriver sees.
LEMMA ReadMaps ==
    ASSUME Alone, AloneInv, HistoryStep,
           StartRead(unit) \/ ReadByte(unit) \/ ReturnRead(unit)
    PROVE  AloneInv' /\ UNCHANGED serialVars
<1>1. /\ UNCHANGED <<envVars, age, blockVars, tot_size, value>>
      /\ pc[unit] \in {"read", "reading"}
      /\ pc'[unit] \in {"read", "reading", "idle"}
  BY DEF StartRead, ReadByte, ReturnRead, Goto, Alone, AloneInv, AloneTypes, Types
<1>2. Types'
  BY TypesStep DEF Next, UnitStep, Alone, AloneInv, AloneTypes
<1>3. ~InPass(unit) /\ ~InPass(unit)'
  BY <1>1 DEF InPass
<1>4. answer' = answer
  BY <1>1, NoHit DEF AloneInv
<1>5. AloneTypes' /\ AlonePass'
  BY <1>1, <1>2, <1>3, <1>4 DEF AloneInv, AloneTypes, CellType, AlonePass, InPass,
     Packing
<1>6. AloneRead'
  <2>1. CASE StartRead(unit)
    <3>1. /\ it[unit] \in Attr /\ it'[unit] = it[unit]
          /\ base'[unit] = key2off[Here(unit).keybind] + Here(unit).offset
          /\ todo'[unit] = 0 .. (Here(unit).len - 1)
          /\ data_ptr'[unit] = [i \in 0 .. (Here(unit).len - 1) |-> Junk]
          /\ key2off' = key2off
      BY <2>1 DEF StartRead, Alone, AloneInv, AloneTypes, Types
    <3> QED
      BY <3>1 DEF AloneRead, Here
  <2>2. CASE ReadByte(unit)
    <3>1. PICK c \in todo[unit] :
             /\ data_ptr'[unit] = [data_ptr[unit] EXCEPT ![c] = ByteAt(base[unit] + c)]
             /\ todo'[unit] = todo[unit] \ {c}
      BY <2>2 DEF ReadByte, Alone, AloneInv, AloneTypes, Types
    <3>2. pc[unit] = "reading" /\ UNCHANGED <<it, base, key2off, buffer_data_block>>
      BY <2>2 DEF ReadByte
    <3> QED
      BY <3>1, <3>2 DEF AloneInv, AloneRead, Here, ByteAt
  <2>3. CASE ReturnRead(unit)
    BY <2>3 DEF ReturnRead, Goto, Alone, AloneInv, AloneTypes, Types, AloneRead
  <2> QED
    BY <2>1, <2>2, <2>3
<1> QED
  BY <1>1, <1>3, <1>5, <1>6, QuietStep DEF AloneInv

-----------------------------------------------------------------------------
LEMMA AloneStep ==
    ASSUME Alone, AloneInv, [Next /\ HistoryStep]_<<vars, answer, last>>
    PROVE  AloneInv' /\ [Serial!Next]_(Serial!driverVars)
<1>1. CASE UNCHANGED <<vars, answer, last>>
  <2>1. AloneInv'
    BY <1>1 DEF AloneInv, AloneTypes, Types, CellType, AlonePass, AloneRead, InPass,
       Packing, KeyNow, Here, ByteAt
  <2>2. UNCHANGED <<serial_server, serial_age>>
    BY <1>1 DEF serial_server, serial_age
  <2> QED
    BY <1>1, <2>1, <2>2, ViewStays DEF Serial!driverVars
<1>2. CASE (Environment \/ Tick) /\ HistoryStep
  BY <1>2, EnvironmentMaps DEF Serial!Next
<1>3. CASE (\E u \in Unit : UnitStep(u)) /\ HistoryStep
  <2>1. UnitStep(unit)
    BY <1>3 DEF Alone
  <2>2. ASSUME NEW k \in Key, GetMiss(unit, k)
        PROVE  AloneInv' /\ Serial!Next
    BY <1>3, <2>2, MissMaps DEF Serial!Next, Serial!GetStep
  <2>3. ASSUME NEW k \in Key, GetHit(unit, k)
        PROVE  AloneInv' /\ Serial!Next
    BY <1>3, <2>3, HitMaps DEF Serial!Next, Serial!GetStep
  <2>4. ASSUME NEW k \in Key,
               \/ SetMissed(unit, k) \/ SetResult(unit, k)
               \/ SetOffset(unit, k) \/ CopyByte(unit, k)
        PROVE  AloneInv' /\ (Serial!Next \/ UNCHANGED serialVars)
    BY <1>3, <2>4, MissedMaps, ResultMaps, OffsetMaps, CopyMaps
       DEF Serial!Next, Serial!GetStep
  <2>5. ASSUME FetchDue(unit) \/ Stamp(unit) \/ FetchThrottled(unit)
        PROVE  AloneInv' /\ (Serial!Next \/ UNCHANGED serialVars)
    BY <1>3, <2>5, FetchMaps DEF Serial!Next
  <2>6. ASSUME StartRead(unit) \/ ReadByte(unit) \/ ReturnRead(unit)
        PROVE  AloneInv' /\ UNCHANGED serialVars
    BY <1>3, <2>6, ReadMaps
  <2>7. UNCHANGED serialVars => UNCHANGED Serial!driverVars
    BY DEF serialVars, Serial!driverVars
  <2> QED
    BY <2>1, <2>2, <2>3, <2>4, <2>5, <2>6, <2>7 DEF UnitStep
<1> QED
  BY <1>1, <1>2, <1>3 DEF Next

LEMMA AloneMapsStart == ASSUME Alone, Init, HistoryInit PROVE Serial!Init
<1>1. pc[unit] = "idle" /\ ~InPass(unit) /\ ~Packing /\ ~Missed
  BY DEF Alone, Init, InPass, Packing, Missed
<1>2. serial_server = [k \in Key |-> Serial!NoValue]
  BY DEF Init, serial_server, Stored, Serial!NoValue
<1>3. serial_block = [i \in Block |-> Serial!Junk]
  BY <1>1, PlainView DEF Init, Tagged, Junk, Serial!Junk
<1>4. /\ serial_key2off = [k \in Key \cup {NoKey} |-> 0]
      /\ serial_results = [k \in Key \cup {NoKey} |-> FALSE]
  BY <1>1, PlainView DEF Init
<1>5. serial_age = [k \in Key \cup {NoKey} |-> maxUpdateRefresh + 1]
  BY DEF Init, serial_age
<1>6. answer = [k \in Key |-> Serial!NoValue]
  BY DEF HistoryInit, Stored, Serial!NoValue
<1>7. serial_pc = "idle" /\ serial_it = 1 /\ serial_tot = 0
  BY <1>1 DEF HistoryInit, serial_pc, serial_it, serial_tot
<1>8. data_pack_len - serial_tot = data_pack_len
  BY <1>7, PackLength
<1> QED
  BY <1>2, <1>3, <1>4, <1>5, <1>6, <1>7, <1>8
     DEF Init, Serial!Init, Serial!MapKey, Serial!Block, Block

\* A unit alone on the driver: whatever its thread does, access by access,
\* is what the driver does that takes a get and a read as one step each.
THEOREM AloneImplementsDriver == ASSUME Alone PROVE HistorySpec => Serial!Spec
<1>1. Init /\ HistoryInit => AloneInv /\ Serial!Init
  BY AloneStart, AloneMapsStart
<1>2. AloneInv /\ [Next /\ HistoryStep]_<<vars, answer, last>>
         => AloneInv' /\ [Serial!Next]_(Serial!driverVars)
  BY AloneStep
<1> QED
  BY <1>1, <1>2, PTL DEF HistorySpec, Serial!Spec

LEMMA AloneInvariant == ASSUME Alone PROVE HistorySpec => []AloneInv
<1>1. Init /\ HistoryInit => AloneInv
  BY AloneStart
<1>2. AloneInv /\ [Next /\ HistoryStep]_<<vars, answer, last>> => AloneInv'
  BY AloneStep
<1> QED
  BY <1>1, <1>2, PTL DEF HistorySpec

\* The lengths are fixed and the block holds them all, so every value fits.
LEMMA AloneFits == ASSUME Alone, AloneInv PROVE Serial!AllFit
<1> SUFFICES ASSUME NEW k \in Key, Serial!AtKey(k), Serial!Answers(k)
             PROVE  Serial!Fits(serial_server[k])
  BY DEF Serial!AllFit
<1>1. InPass(unit) /\ serial_it <= KeyCount /\ k = data_keys[serial_it]
  BY DEF Serial!AtKey, serial_pc, KeyCount
<1> DEFINE n == it[unit]
           m == serial_it
<1>2. n \in 1 .. KeyCount /\ tot_size[unit] \in 0 .. Place[n]
  BY <1>1 DEF AloneInv, AlonePass
<1>3. /\ n \in 1 .. (KeyCount + 1) /\ n + 1 \in 1 .. (KeyCount + 1)
      /\ KeyNow = data_keys[n] /\ KeyNow \in Key /\ length[KeyNow] = LengthAt(n)
  BY <1>2, KeyTypes DEF KeyNow, LengthAt
<1>4. /\ Place[n] \in Nat /\ LengthAt(n) \in Nat /\ Place[n + 1] = Place[n] + LengthAt(n)
  BY <1>2, <1>3, PlaceSteps, PlaceType, KeyTypes
<1>5. m \in 1 .. KeyCount /\ serial_tot \in 0 .. Place[m]
  <2>1. CASE pc[unit] = "get"
    <3>1. m = n /\ serial_tot = tot_size[unit]
      BY <1>1, <1>2, <1>4, <2>1 DEF serial_it, serial_tot, Packing
    <3> QED
      BY <1>2, <3>1
  <2>2. CASE pc[unit] # "get"
    <3>1. m = n + 1
      BY <1>1, <2>2 DEF serial_it
    <3>2. \/ serial_tot = tot_size[unit] + 0
          \/ serial_tot = tot_size[unit] + LengthAt(n)
      BY <1>1, <1>3 DEF serial_tot
    <3>3. serial_tot \in 0 .. Place[n + 1]
      BY <1>2, <1>4, <3>2
    <3> QED
      BY <1>1, <1>2, <3>1, <3>3, KeyTypes
  <2> QED
    BY <2>1, <2>2
<1> HIDE DEF n, m
<1>6. Place[m] + LengthAt(m) <= data_pack_len /\ LengthAt(m) \in Nat /\ Place[m] \in Nat
  <2>1. /\ KeyCount + 1 \in 1 .. (KeyCount + 1) /\ m < KeyCount + 1
        /\ m \in 1 .. (KeyCount + 1)
    BY <1>5, KeyTypes
  <2> QED
    BY <1>5, <2>1, PlacesApart, PlaceType, KeyTypes DEF data_pack_len, KeyCount
<1>7. LengthAt(m) <= data_pack_len - serial_tot
  BY <1>5, <1>6, PackLength
<1>8. serial_server[k].len = LengthAt(m)
  <2>1. server[k] # 0
    BY DEF Serial!Answers, serial_server, Stored
  <2>2. k = data_keys[m]
    BY <1>1 DEF m
  <2> QED
    BY <2>1, <2>2 DEF serial_server, Stored, LengthAt
<1> QED
  BY <1>7, <1>8 DEF Serial!Fits

\* What MemcachedDriver assumes of its constants holds of this one.
LEMMA SerialAssumptions ==
    ASSUME Alone
    PROVE  Serial!KeyAssumption /\ Serial!ConfigAssumption /\ Serial!ServerAssumption
BY ConfigAssumption, PackLength
   DEF Alone, Serial!KeyAssumption, Serial!ConfigAssumption, Serial!ServerAssumption

\* All bytes of the read under way are of one version.
WholeRead ==
    ReturnsGood(unit) =>
        \E ver \in 1 .. MaxVersion[Here(unit).keybind] :
            \A i \in DOMAIN data_ptr[unit] : OwnByte(unit, i, ver)

LEMMA TruthfulRead ==
    ASSUME Alone, AloneInv, Serial!ResultTruthful PROVE WholeRead
<1> SUFFICES ASSUME ReturnsGood(unit)
             PROVE  \E ver \in 1 .. MaxVersion[Here(unit).keybind] :
                       \A i \in DOMAIN data_ptr[unit] : OwnByte(unit, i, ver)
  BY DEF WholeRead
<1> DEFINE k == Here(unit).keybind
           offset == Here(unit).offset
           len == Here(unit).len
           v == answer[k]
<1>1. /\ pc[unit] = "reading" /\ todo[unit] = {} /\ data_results[k]
      /\ it[unit] \in Attr
  BY DEF ReturnsGood, AloneInv, AloneRead
<1>2. k \in Key /\ offset \in Nat /\ len \in Nat \ {0} /\ offset + len <= length[k]
  BY <1>1, HereFacts DEF Alone
<1>3. /\ serial_block = [i \in Block |-> Tagged(buffer_data_block[i])]
      /\ serial_key2off = [j \in Key \cup {NoKey} |->
                             IF j = NoKey THEN 0 ELSE key2off[j]]
      /\ serial_results = [j \in Key \cup {NoKey} |->
                             IF j = NoKey THEN FALSE ELSE data_results[j]]
      /\ serial_pc = "idle"
  BY <1>1, PlainView DEF Packing, Missed, serial_pc, InPass
<1>4. Serial!Holds(k)
  BY <1>1, <1>2, <1>3 DEF Serial!ResultTruthful, Alone
<1>5. /\ v.ver > 0 /\ v.ver \in Nat /\ v.len \in Nat
      /\ key2off[k] \in Nat /\ key2off[k] + v.len <= data_pack_len
      /\ \A i \in 0 .. (v.len - 1) :
            serial_block[key2off[k] + i] = [key |-> k, ver |-> v.ver, idx |-> i]
  BY <1>2, <1>3, <1>4 DEF Serial!Holds, Serial!Byte, AloneInv, AloneTypes, Alone
<1>6. /\ v.len = length[k] /\ DOMAIN data_ptr[unit] = 0 .. (len - 1)
      /\ base[unit] = key2off[k] + offset
      /\ \A i \in 0 .. (len - 1) : data_ptr[unit][i] = ByteAt(base[unit] + i)
  BY <1>1, <1>2, <1>5 DEF AloneInv, AloneTypes, AloneRead
<1> HIDE DEF k, offset, len, v
<1>7. ASSUME NEW i \in 0 .. (len - 1)
      PROVE  data_ptr[unit][i] = <<k, v.ver, offset + i>> /\ v.ver \in 1 .. MaxVersion[k]
  <2> DEFINE at == key2off[k] + (offset + i)
  <2>1. offset + i \in 0 .. (v.len - 1) /\ at = base[unit] + i /\ at \in Block
    BY <1>2, <1>5, <1>6, PackLength DEF Block
  <2>2. serial_block[at] = [key |-> k, ver |-> v.ver, idx |-> offset + i]
    BY <1>5, <2>1
  <2> HIDE DEF at
  <2>3. Tagged(buffer_data_block[at]) = [key |-> k, ver |-> v.ver, idx |-> offset + i]
    BY <1>3, <2>1, <2>2
  <2>4. buffer_data_block[at] # Junk
    <3>1. buffer_data_block[at][2] = v.ver
      BY <2>3 DEF Tagged
    <3> QED
      BY <1>5, <3>1 DEF Junk
  <2>5. PICK j \in Key : \E ver \in 1 .. MaxVersion[j], x \in Nat :
           buffer_data_block[at] = <<j, ver, x>>
    BY <2>1, <2>4 DEF AloneInv, AloneTypes, CellType
  <2>6. PICK ver \in 1 .. MaxVersion[j], x \in Nat :
           buffer_data_block[at] = <<j, ver, x>>
    BY <2>5
  <2>7. j = k /\ ver = v.ver /\ x = offset + i
    BY <2>3, <2>4, <2>6 DEF Tagged
  <2> QED
    BY <1>6, <2>1, <2>6, <2>7 DEF ByteAt
<1>8. 0 \in 0 .. (len - 1)
  BY <1>2
<1>9. v.ver \in 1 .. MaxVersion[k]
  BY <1>7, <1>8
<1> QED
  BY <1>6, <1>7, <1>9 DEF OwnByte, k, offset

\* So a unit that is alone on its driver never reads a torn value: a read
\* reported good returns the bytes of one version of its attribute, though
\* the block is written byte by byte and passes slide.
THEOREM AloneReadsWhole == ASSUME Alone PROVE HistorySpec => []WholeRead
<1>1. HistorySpec => []Serial!AllFit
  <2>1. AloneInv => Serial!AllFit
    BY AloneFits
  <2> QED
    BY <2>1, AloneInvariant, PTL
<1>2. Serial!Spec /\ []Serial!AllFit => []Serial!ResultTruthful
  BY SerialAssumptions, Serial!TruthfulWhileFitting
<1>3. AloneInv /\ Serial!ResultTruthful => WholeRead
  BY TruthfulRead
<1> QED
  BY <1>1, <1>2, <1>3, AloneImplementsDriver, AloneInvariant, PTL
================================================================================

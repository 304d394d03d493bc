------------------------ MODULE MemcachedImport_proofs ------------------------
(***************************************************************************)
(* Proofs about a control unit on its memcached driver.  The composition   *)
(* implements both its parts: the driver under any clients, and the unit   *)
(* over any driver.  What is proved of the parts holds here, and with it   *)
(* what relates the dataset that is handed on to the values of the server. *)
(* The last part is about MemcachedRestart, where the driver is stopped,   *)
(* started and fails to start beside its unit.                             *)
(***************************************************************************)
EXTENDS MemcachedRestart, MemcachedDriver_proofs

USE DEF cuVars, importVars, driverVars, envVars, blockVars, loopVars

\* The attributes are numbered from 1, and bound to a key or to none.
LEMMA AttributeTypes ==
    /\ Attr = 1 .. Len(attribute_off_len_vec)
    /\ Len(attribute_off_len_vec) \in Nat
    /\ \A a \in Attr :
          /\ KeyOf(a) \in MapKey
          /\ attribute_off_len_vec[a].offset \in Nat
          /\ attribute_off_len_vec[a].len \in Nat
          /\ attribute_off_len_vec[a].len > 0
<1> DEFINE AttributeOffLen ==
       [keybind : MapKey, offset : Nat, len : Nat \ {0},
        lbe : BOOLEAN, factor : BOOLEAN, type : CU!Type]
<1>1. attribute_off_len_vec \in Seq(AttributeOffLen)
  BY AttributeAssumption
<1>2. \A v \in AttributeOffLen :
         v.keybind \in MapKey /\ v.offset \in Nat /\ v.len \in Nat /\ v.len > 0
  OBVIOUS
<1> HIDE DEF AttributeOffLen
<1>3. /\ Attr = 1 .. Len(attribute_off_len_vec)
      /\ Len(attribute_off_len_vec) \in Nat
      /\ \A a \in Attr : attribute_off_len_vec[a] \in AttributeOffLen
  BY <1>1 DEF Attr
<1> QED
  BY <1>2, <1>3 DEF KeyOf

-----------------------------------------------------------------------------
\* Every step of the composition is a step of the driver or leaves it alone.
LEMMA DriverStep == [ImportNext]_importVars => [Next]_driverVars
<1> SUFFICES ASSUME [ImportNext]_importVars PROVE [Next]_driverVars
  OBVIOUS
<1>1. CASE StartCycle \/ FetchThrottled \/ EndCycle
           \/ \E a \in Attr : ReadAttribute(a)
  BY <1>1 DEF StartCycle, FetchThrottled, EndCycle, ReadAttribute
<1>2. CASE FetchStarts
  BY <1>2, ClientAssumption DEF FetchStarts, Next
<1>3. ASSUME NEW k \in Key, FetchGets(k) PROVE Next
  BY <1>3 DEF FetchGets, Next, GetStep
<1>4. CASE FetchEnds
  BY <1>4 DEF FetchEnds, Next, GetStep
<1>5. CASE Environment /\ UNCHANGED cuVars
  BY <1>5 DEF Next
<1>6. CASE UNCHANGED importVars
  BY <1>6
<1> QED
  BY <1>1, <1>2, <1>3, <1>4, <1>5, <1>6 DEF ImportNext, UnitStep

\* The composition implements the driver: its invariants hold here.
THEOREM ImplementsDriver == ImportSpec => Spec
<1>1. ImportInit => Init
  BY DEF ImportInit
<1> QED
  BY <1>1, DriverStep, PTL DEF ImportSpec, Spec

\* What a read delivers are as many bytes as the attribute has.
LEMMA DeliveredType ==
    ASSUME TypeOK, NEW a \in Attr
    PROVE  Delivered(a) \in [0 .. (attribute_off_len_vec[a].len - 1) -> Cell]
<1>1. \A i : ByteAt(i) \in Cell
  BY DataTypes DEF ByteAt, TypeOK
<1> QED
  BY <1>1 DEF Delivered, ReadBytes

\* Every step of the composition is a step of the unit over some driver, or
\* leaves it alone.
LEMMA UnitIsStep == TypeOK /\ [ImportNext]_importVars => [CU!Next]_cuVars
<1> SUFFICES ASSUME TypeOK, [ImportNext]_importVars PROVE [CU!Next]_cuVars
  OBVIOUS
<1>1. CASE StartCycle
  BY <1>1 DEF StartCycle, CU!Next
<1>2. CASE FetchThrottled \/ FetchEnds
  BY <1>2 DEF FetchThrottled, FetchEnds, CU!Next
<1>3. CASE FetchStarts \/ \E k \in Key : FetchGets(k)
  BY <1>3 DEF FetchStarts, FetchGets
<1>4. ASSUME NEW a \in Attr, ReadAttribute(a) PROVE CU!Next
  <2>1. a \in CU!Attr
    BY DEF Attr, CU!Attr
  <2>2. CASE CU!ReadOk(a, Delivered(a))
    BY <2>1, <2>2, DeliveredType DEF CU!Next, Attr
  <2>3. CASE CU!ReadFailed(a, CU!Raw(Delivered(a)))
    BY <2>1, <2>3, DeliveredType DEF CU!Next, Attr
  <2>4. CASE CU!ReadFailed(a, buffer[a])
    BY <2>1, <2>4 DEF CU!Next
  <2> QED
    BY <1>4, <2>2, <2>3, <2>4 DEF ReadAttribute
<1>5. CASE EndCycle
  BY <1>5 DEF EndCycle, CU!Next
<1>6. CASE (Environment /\ UNCHANGED cuVars) \/ UNCHANGED importVars
  BY <1>6
<1> QED
  BY <1>1, <1>2, <1>3, <1>4, <1>5, <1>6 DEF ImportNext, UnitStep

\* The composition implements the unit over any driver.
THEOREM ImplementsUnit == ImportSpec => CU!Spec
<1>1. ImportInit => CU!Init
  BY DEF ImportInit
<1>2. ImportSpec => []TypeOK
  BY ImplementsDriver, TypeCorrect, PTL
<1>3. TypeOK /\ [ImportNext]_importVars => [CU!Next]_(CU!cuVars)
  BY UnitIsStep DEF CU!cuVars
<1> QED
  BY <1>1, <1>2, <1>3, PTL DEF ImportSpec, CU!Spec

\* When the block has room for every key at its longest, a key reported good
\* is whole in the block whenever no fetch is under way.
THEOREM ImportTruthful ==
    ASSUME NEW L \in Nat, \A l \in Lengths : l <= L,
           Len(data_keys) * L <= data_pack_len
    PROVE  ImportSpec => []ResultTruthful
<1>1. Spec => []ResultTruthful
  BY TruthfulResults, ClientAssumption
<1> QED
  BY <1>1, ImplementsDriver, PTL

-----------------------------------------------------------------------------
(* The invariant that relates the unit to its driver.  The reads happen    *)
(* between two passes, so data_results, answer and the block stand still   *)
(* while they run: what has been read belongs to the answers, and no alarm *)
(* so far means that every key so far is reported good.  What was handed   *)
(* on belongs to answers that are not newer than the ones since.           *)

UnitType ==
    /\ ai \in 1 .. (Len(attribute_off_len_vec) + 1)
    /\ DOMAIN buffer = Attr

PassInFetch ==
    /\ pc = "get" => cu_pc = "fetch"
    /\ cu_pc = "fetch" => ai = 1

IsOwn(b, a, ans) == b = CU!Filter(a, OwnBytes(a, ans[KeyOf(a)]))

OwnSoFar ==
    cu_pc \in {"idle", "read"} =>
        \A a \in Attr : (cu_pc = "read" => a < ai) /\ data_results[KeyOf(a)] =>
            IsOwn(buffer[a], a, answer)

GoodSoFar ==
    cu_pc = "read" /\ ~fetching_key =>
        \A a \in Attr : a < ai => data_results[KeyOf(a)]

From(dataset, ans) ==
    \A a \in Attr :
        /\ KeyOf(a) \in Key
        /\ ans[KeyOf(a)].ver <= answer[KeyOf(a)].ver
        /\ IsOwn(dataset[a], a, ans)

PushedOwn ==
    published.pushed /\ ~published.alarm =>
        /\ \E ans \in [Key -> Value] : From(published.dataset, ans)
        /\ clean = published.dataset

\* Nothing has been handed on with no alarm yet, or the last dataset that
\* was belongs to answers that are not newer than the ones since.
CleanOwn ==
    \/ clean = [a \in Attr |-> CU!Fresh(a)]
    \/ \E ans \in [Key -> Value] : From(clean, ans)

ImportInv ==
    /\ UnitType
    /\ PassInFetch
    /\ OwnSoFar
    /\ GoodSoFar
    /\ PushedOwn
    /\ CleanOwn

\* Every value is long enough for the attributes cut out of it.
LongEnough ==
    \A a \in Attr : \A l \in Lengths :
        attribute_off_len_vec[a].offset + attribute_off_len_vec[a].len <= l

\* What a read of a key reported good delivers: its own bytes, with return 0.
LEMMA GoodRead ==
    ASSUME TypeOK, AnswerInv, ResultTruthful, LongEnough, pc = "idle",
           NEW a \in Attr, data_results[KeyOf(a)]
    PROVE  /\ KeyOf(a) \in Key
           /\ ReturnCode(a) = 0
           /\ Delivered(a) = OwnBytes(a, answer[KeyOf(a)])
<1> DEFINE k == KeyOf(a)
<1> DEFINE offset == attribute_off_len_vec[a].offset
<1> DEFINE len == attribute_off_len_vec[a].len
<1> DEFINE n == answer[k].len
<1> DEFINE at == key2off[k]
<1>1. k \in Key /\ k # NoKey
  BY AttributeTypes, KeyAssumption DEF AnswerInv, MapKey
<1>2. Holds(k)
  BY <1>1 DEF ResultTruthful
<1>3. offset \in Nat /\ len \in Nat /\ n \in Nat /\ at \in Nat /\ offset + len <= n
  BY <1>1, <1>2, AttributeTypes, DataTypes
     DEF Holds, AnswerInv, LongEnough, TypeOK
<1>4. at + n <= data_pack_len
  BY <1>2 DEF Holds
<1>5. ReturnCode(a) = 0
  <2>1. offset + len <= data_pack_len
    <3> HIDE DEF offset, len, n, at
    <3> QED
      BY <1>3, <1>4, ConfigAssumption
  <2> QED
    BY <1>3, <2>1, RangeInside DEF ReturnCode, ReadRet
<1>6. ASSUME NEW i \in 0 .. (len - 1)
      PROVE  ByteAt(at + offset + i) = Byte(k, answer[k], offset + i)
  <2> HIDE DEF offset, len, n, at
  <2>1. /\ offset + i \in 0 .. (n - 1)
        /\ at + offset + i \in Block
        /\ at + offset + i = at + (offset + i)
    BY <1>3, <1>4, ConfigAssumption DEF Block
  <2>2. buffer_data_block[at + (offset + i)] = Byte(k, answer[k], offset + i)
    BY <1>2, <2>1 DEF Holds, n, at
  <2> QED
    BY <2>1, <2>2 DEF ByteAt
<1>7. Delivered(a) = [i \in 0 .. (len - 1) |-> ByteAt(at + offset + i)]
  BY <1>1 DEF Delivered, ReadBytes, BaseOf
<1>8. OwnBytes(a, answer[k]) = [i \in 0 .. (len - 1) |-> Byte(k, answer[k], offset + i)]
  BY DEF OwnBytes
<1> HIDE DEF offset, len, n, at
<1> QED
  BY <1>1, <1>5, <1>6, <1>7, <1>8 DEF k

LEMMA AnswerVersions ==
    ASSUME TypeOK PROVE \A k \in Key : answer[k] \in Value /\ answer[k].ver \in Nat
<1>1. ASSUME NEW k \in Key PROVE answer[k] \in Value
  BY DEF TypeOK
<1> QED
  BY <1>1, DataTypes

\* What the actions of the unit assign, as far as the invariant is concerned.
LEMMA UnitEffects ==
    /\ CU!StartCycle =>
         /\ cu_pc = "idle" /\ cu_pc' = "fetch" /\ ai' = 1
         /\ UNCHANGED <<buffer, published>>
    /\ CU!FetchReturned(0) =>
         /\ cu_pc = "fetch" /\ cu_pc' = "read"
         /\ UNCHANGED <<ai, buffer, fetching_key, published>>
    /\ \A a, b : CU!ReadOk(a, b) =>
         /\ cu_pc = "read" /\ cu_pc' = "read" /\ a = ai /\ ai' = ai + 1
         /\ buffer' = [buffer EXCEPT ![a] = CU!Filter(a, b)]
         /\ UNCHANGED <<fetching_key, published>>
    /\ \A a, left : CU!ReadFailed(a, left) =>
         /\ cu_pc = "read" /\ cu_pc' = "read" /\ a = ai /\ ai' = ai + 1
         /\ buffer' = [buffer EXCEPT ![a] = left]
         /\ fetching_key'
         /\ UNCHANGED published
    /\ CU!EndCycle =>
         /\ cu_pc = "read" /\ ai \notin Attr /\ cu_pc' = "idle"
         /\ UNCHANGED <<ai, buffer, fetching_key>>
         /\ \/ UNCHANGED published
            \/ published' = [pushed |-> TRUE, alarm |-> fetching_key,
                             dataset |-> buffer]
BY DEF CU!StartCycle, CU!FetchReturned, CU!ReadOk, CU!ReadFailed, CU!AtAttribute,
       CU!EndCycle, CU!alarms, CU!Attr, Attr

\* The answers only get newer.
LEMMA OlderStays ==
    ASSUME TypeOK, TypeOK', AnswersForward
    PROVE  \A ans \in [Key -> Value] : \A k \in Key :
              ans[k].ver <= answer[k].ver => ans[k].ver <= answer'[k].ver
<1> SUFFICES ASSUME NEW ans \in [Key -> Value], NEW k \in Key,
                    ans[k].ver <= answer[k].ver
             PROVE  ans[k].ver <= answer'[k].ver
  OBVIOUS
<1>1. /\ ans[k].ver \in Nat /\ answer[k].ver \in Nat /\ answer'[k].ver \in Nat
      /\ answer[k].ver <= answer'[k].ver
  BY DataTypes DEF TypeOK, AnswersForward
<1> QED
  BY <1>1

\* What was handed on stays when the answers only get newer.
LEMMA PushedStays ==
    ASSUME TypeOK, TypeOK', AnswersForward, PushedOwn, UNCHANGED published,
           RememberClean \/ UNCHANGED clean
    PROVE  PushedOwn'
<1> SUFFICES ASSUME published.pushed, ~published.alarm
             PROVE  /\ \E ans \in [Key -> Value] : From(published.dataset, ans)'
                    /\ clean' = published.dataset
  BY DEF PushedOwn
<1>1. PICK ans \in [Key -> Value] : From(published.dataset, ans)
  BY DEF PushedOwn
<1>2. From(published.dataset, ans)'
  BY <1>1, OlderStays DEF From, IsOwn
<1>3. clean' = published.dataset
  BY DEF PushedOwn, RememberClean
<1> QED
  BY <1>2, <1>3

\* The dataset kept is what was handed on just now, or the one before.
LEMMA CleanStays ==
    ASSUME TypeOK, TypeOK', AnswersForward, CleanOwn, PushedOwn',
           RememberClean \/ UNCHANGED clean
    PROVE  CleanOwn'
<1>1. CASE UNCHANGED clean
  <2>1. CASE clean = [a \in Attr |-> CU!Fresh(a)]
    BY <1>1, <2>1 DEF CleanOwn, CU!Fresh, CU!Raw
  <2>2. ASSUME NEW ans \in [Key -> Value], From(clean, ans) PROVE CleanOwn'
    <3>1. From(clean, ans)'
      BY <1>1, <2>2, OlderStays DEF From, IsOwn
    <3> QED
      BY <3>1 DEF CleanOwn
  <2> QED
    BY <2>1, <2>2 DEF CleanOwn
<1>2. CASE published'.pushed /\ ~published'.alarm
  BY <1>2 DEF PushedOwn, CleanOwn
<1> QED
  BY <1>1, <1>2 DEF RememberClean

\* A read keeps what the loop has read so far, and adds its own attribute.
LEMMA ReadKeeps ==
    ASSUME TypeOK, AnswerInv, ResultTruthful, LongEnough, ImportInv,
           NEW a \in Attr, ReadAttribute(a)
    PROVE  UnitType' /\ OwnSoFar' /\ GoodSoFar' /\ UNCHANGED published
<1>1. /\ cu_pc = "read" /\ cu_pc' = "read" /\ a = ai /\ ai' = ai + 1
      /\ UNCHANGED <<published, data_results, answer, pc>>
  BY UnitEffects DEF ReadAttribute
<1>2. PICK b : buffer' = [buffer EXCEPT ![a] = b]
  BY UnitEffects DEF ReadAttribute
<1>3. pc = "idle"
  BY <1>1 DEF ImportInv, PassInFetch, TypeOK
<1>4. data_results[KeyOf(a)] =>
         IsOwn(buffer'[a], a, answer) /\ UNCHANGED fetching_key
  <2> SUFFICES ASSUME data_results[KeyOf(a)]
               PROVE  IsOwn(buffer'[a], a, answer) /\ UNCHANGED fetching_key
    OBVIOUS
  <2>1. ReturnCode(a) = 0 /\ Delivered(a) = OwnBytes(a, answer[KeyOf(a)])
    BY <1>3, GoodRead
  <2>2. CU!ReadOk(a, OwnBytes(a, answer[KeyOf(a)]))
    BY <2>1 DEF ReadAttribute
  <2> QED
    BY <2>2, UnitEffects DEF IsOwn, ImportInv, UnitType
<1>5. ~data_results[KeyOf(a)] => fetching_key'
  <2>1. ~data_results[KeyOf(a)] => ReturnCode(a) # 0
    BY DEF ReturnCode, ReadRet
  <2> QED
    BY <2>1, UnitEffects DEF ReadAttribute
<1>6. ~fetching_key' => ~fetching_key
  BY UnitEffects DEF ReadAttribute
<1>7. UnitType'
  BY <1>1, <1>2, AttributeTypes DEF ImportInv, UnitType
<1>8. \A o \in Attr : o < ai + 1 <=> o < a \/ o = a
  BY <1>1, AttributeTypes
<1>9. \A o \in Attr : o # a => buffer'[o] = buffer[o]
  BY <1>2 DEF ImportInv, UnitType
<1>10. OwnSoFar'
  BY <1>1, <1>4, <1>8, <1>9 DEF ImportInv, OwnSoFar, IsOwn
<1>11. GoodSoFar'
  BY <1>1, <1>5, <1>6, <1>8 DEF ImportInv, GoodSoFar
<1> QED
  BY <1>1, <1>7, <1>10, <1>11

\* What the end of a cycle hands on with no alarm is cut out of the answers.
LEMMA EndHandsOn ==
    ASSUME TypeOK, AnswerInv, ImportInv, CU!EndCycle, published' # published,
           ~fetching_key
    PROVE  /\ published'.pushed /\ published'.dataset = buffer
           /\ \A a \in Attr : KeyOf(a) \in Key /\ IsOwn(buffer[a], a, answer)
<1>1. /\ cu_pc = "read" /\ ai \notin Attr
      /\ published' = [pushed |-> TRUE, alarm |-> fetching_key, dataset |-> buffer]
  BY UnitEffects
<1>2. ASSUME NEW a \in Attr PROVE a < ai
  BY <1>1, AttributeTypes DEF ImportInv, UnitType
<1>3. ASSUME NEW a \in Attr
      PROVE  KeyOf(a) \in Key /\ IsOwn(buffer[a], a, answer)
  <2>1. data_results[KeyOf(a)]
    BY <1>1, <1>2 DEF ImportInv, GoodSoFar
  <2>2. KeyOf(a) \in Key
    BY <2>1, AttributeTypes DEF AnswerInv, MapKey
  <2>3. IsOwn(buffer[a], a, answer)
    BY <1>1, <1>2, <2>1 DEF ImportInv, OwnSoFar
  <2> QED
    BY <2>2, <2>3
<1> QED
  BY <1>1, <1>3

LEMMA ImportStart == ImportInit => ImportInv
<1> SUFFICES ASSUME ImportInit PROVE ImportInv
  OBVIOUS
<1>1. /\ cu_pc = "idle" /\ ai = 1 /\ buffer = [a \in Attr |-> CU!Fresh(a)]
      /\ published.pushed = FALSE
      /\ clean = [a \in Attr |-> CU!Fresh(a)]
  BY DEF ImportInit, CU!Init, CU!Attr, Attr
<1>2. pc = "idle" /\ data_results = [k \in MapKey |-> FALSE]
  BY DEF ImportInit, Init
<1>3. UnitType
  BY <1>1, AttributeTypes DEF UnitType
<1>4. OwnSoFar
  BY <1>2, AttributeTypes DEF OwnSoFar
<1> QED
  BY <1>1, <1>2, <1>3, <1>4
     DEF ImportInv, PassInFetch, GoodSoFar, PushedOwn, CleanOwn

LEMMA ImportStep ==
    ASSUME LongEnough
    PROVE  TypeOK /\ TypeOK' /\ AnswerInv /\ ResultTruthful /\ ImportInv
             /\ [ImportNext]_importVars => ImportInv'
<1> SUFFICES ASSUME TypeOK, TypeOK', AnswerInv, ResultTruthful, ImportInv,
                    [ImportNext]_importVars
             PROVE  ImportInv'
  OBVIOUS
<1>0. AnswersForward
  BY DriverStep, AnswerStep
<1>r. RememberClean \/ UNCHANGED clean
  BY DEF ImportNext
<1>c. PushedOwn' => CleanOwn'
  BY <1>0, <1>r, CleanStays DEF ImportInv
<1>1. CASE StartCycle
  <2>1. /\ cu_pc = "idle" /\ cu_pc' = "fetch" /\ ai' = 1
        /\ UNCHANGED <<buffer, published, driverVars>>
    BY <1>1, UnitEffects DEF StartCycle
  <2>2. PushedOwn' /\ UnitType'
    BY <1>0, <1>r, <2>1, PushedStays, AttributeTypes DEF ImportInv, UnitType
  <2> QED
    BY <1>c, <2>1, <2>2 DEF ImportInv, PassInFetch, OwnSoFar, GoodSoFar
<1>2. CASE FetchThrottled \/ FetchEnds
  <2>1. /\ cu_pc = "fetch" /\ cu_pc' = "read" /\ pc' = "idle"
        /\ UNCHANGED <<ai, buffer, fetching_key, published>>
    BY <1>2, UnitEffects DEF FetchThrottled, FetchEnds, EndFetch
  <2>2. \A a \in Attr : ~(a < ai)
    BY <2>1, AttributeTypes DEF ImportInv, PassInFetch
  <2>3. PushedOwn' /\ UnitType'
    BY <1>0, <1>r, <2>1, PushedStays DEF ImportInv, UnitType
  <2> QED
    BY <1>c, <2>1, <2>2, <2>3 DEF ImportInv, PassInFetch, OwnSoFar, GoodSoFar
<1>3. CASE FetchStarts \/ \E k \in Key : FetchGets(k)
  <2>1. /\ cu_pc = "fetch"
        /\ UNCHANGED <<cu_pc, ai, buffer, fetching_key, published>>
    BY <1>3 DEF FetchStarts, FetchGets, GetMiss, GetHit, GetTooBig, AtKey,
                ImportInv, PassInFetch
  <2>2. PushedOwn' /\ UnitType'
    BY <1>0, <1>r, <2>1, PushedStays DEF ImportInv, UnitType
  <2> QED
    BY <1>c, <2>1, <2>2 DEF ImportInv, PassInFetch, OwnSoFar, GoodSoFar
<1>4. ASSUME NEW a \in Attr, ReadAttribute(a) PROVE ImportInv'
  <2>1. UnitType' /\ OwnSoFar' /\ GoodSoFar' /\ UNCHANGED published
    BY <1>4, ReadKeeps
  <2>2. PushedOwn'
    BY <1>0, <1>r, <2>1, PushedStays DEF ImportInv
  <2>3. PassInFetch'
    BY <1>4, UnitEffects DEF ReadAttribute, ImportInv, PassInFetch
  <2> QED
    BY <1>c, <2>1, <2>2, <2>3 DEF ImportInv
<1>5. CASE EndCycle
  <2>1. /\ cu_pc = "read" /\ cu_pc' = "idle" /\ ai \notin Attr
        /\ UNCHANGED <<ai, buffer, fetching_key, driverVars>>
    BY <1>5, UnitEffects DEF EndCycle
  <2>2. \A a \in Attr : a < ai
    BY <2>1, AttributeTypes DEF ImportInv, UnitType
  <2>3. PushedOwn'
    <3>1. CASE UNCHANGED published
      BY <1>0, <1>r, <3>1, PushedStays DEF ImportInv
    <3>2. CASE published' # published /\ fetching_key
      BY <1>5, <3>2, UnitEffects DEF EndCycle, PushedOwn
    <3>3. CASE published' # published /\ ~fetching_key
      <4>1. /\ published'.dataset = buffer
            /\ \A a \in Attr : KeyOf(a) \in Key /\ IsOwn(buffer[a], a, answer)
        BY <1>5, <3>3, EndHandsOn DEF EndCycle
      <4>2. \A k \in Key : answer[k].ver <= answer[k].ver
        <5>1. \A m \in Nat : m <= m
          OBVIOUS
        <5> QED
          BY <5>1, AnswerVersions
      <4>3. answer \in [Key -> Value] /\ answer' = answer
        BY <2>1 DEF TypeOK
      <4>4. \A a \in Attr :
               /\ KeyOf(a) \in Key
               /\ answer[KeyOf(a)].ver <= answer'[KeyOf(a)].ver
               /\ IsOwn(published'.dataset[a], a, answer)
        BY <4>1, <4>2, <4>3
      <4>5. published'.pushed /\ ~published'.alarm
        BY <1>5, <3>3, UnitEffects DEF EndCycle
      <4>6. clean' = published'.dataset
        BY <3>3, <4>5 DEF ImportNext, RememberClean
      <4> QED
        BY <4>3, <4>4, <4>6 DEF PushedOwn, From, IsOwn
    <3> QED
      BY <3>1, <3>2, <3>3
  <2>4. OwnSoFar'
    BY <2>1, <2>2 DEF ImportInv, OwnSoFar, IsOwn
  <2> QED
    BY <1>c, <2>1, <2>3, <2>4
       DEF ImportInv, UnitType, PassInFetch, GoodSoFar
<1>6. CASE (Environment /\ UNCHANGED cuVars) \/ UNCHANGED importVars
  <2>1. UNCHANGED <<cu_pc, ai, buffer, fetching_key, published, pc, data_results,
                    answer>>
    BY <1>6 DEF Environment, Store, Outage, Recover, Tick
  <2>2. PushedOwn'
    BY <1>0, <1>r, <2>1, PushedStays DEF ImportInv
  <2> QED
    BY <1>c, <2>1, <2>2
       DEF ImportInv, UnitType, PassInFetch, OwnSoFar, GoodSoFar, IsOwn
<1> QED
  BY <1>1, <1>2, <1>3, <1>4, <1>5, <1>6 DEF ImportNext, UnitStep

\* The invariant, when the block has room for every key at its longest and
\* every value is long enough for the attributes cut out of it.
THEOREM ImportInvariant ==
    ASSUME NEW L \in Nat, \A l \in Lengths : l <= L,
           Len(data_keys) * L <= data_pack_len, LongEnough
    PROVE  ImportSpec => [](TypeOK /\ AnswerInv /\ ImportInv)
<1>1. ImportSpec => [](TypeOK /\ AnswerInv)
  BY ImplementsDriver, TypeCorrect, AnswerInvariant, PTL
<1>2. ImportSpec => []ResultTruthful
  BY ImportTruthful
<1>3. ImportInit => ImportInv
  BY ImportStart
<1>4. TypeOK /\ TypeOK' /\ AnswerInv /\ ResultTruthful /\ ImportInv
         /\ [ImportNext]_importVars => ImportInv'
  BY ImportStep
<1> QED
  BY <1>1, <1>2, <1>3, <1>4, PTL DEF ImportSpec

\* Between two cycles the buffers of attributes reported good hold their own
\* bytes, converted: never a neighbour's, nor what an earlier cycle left.
THEOREM BuffersAreOwn ==
    ASSUME NEW L \in Nat, \A l \in Lengths : l <= L,
           Len(data_keys) * L <= data_pack_len, LongEnough
    PROVE  ImportSpec => []GoodBuffersAreOwn
<1>1. ImportInv => GoodBuffersAreOwn
  BY DEF ImportInv, OwnSoFar, IsOwn, GoodBuffersAreOwn
<1> QED
  BY <1>1, ImportInvariant, PTL

\* The bytes of an attribute, converted or not, are of one key and version.
LEMMA OwnBytesTagged ==
    ASSUME NEW a \in Attr, NEW ans, NEW b, IsOwn(b, a, ans)
    PROVE  /\ DOMAIN b.bytes = 0 .. (attribute_off_len_vec[a].len - 1)
           /\ \A i \in DOMAIN b.bytes :
                 b.bytes[i].key = KeyOf(a) /\ b.bytes[i].ver = ans[KeyOf(a)].ver
<1> DEFINE n == attribute_off_len_vec[a].len
<1> DEFINE own == OwnBytes(a, ans[KeyOf(a)])
<1>1. n \in Nat
  BY AttributeTypes
<1>2. /\ own = [i \in 0 .. (n - 1) |-> own[i]]
      /\ \A i \in 0 .. (n - 1) :
            own[i].key = KeyOf(a) /\ own[i].ver = ans[KeyOf(a)].ver
  BY DEF OwnBytes, Byte
<1>3. b.bytes = own \/ b.bytes = CU!Reversed(own, n)
  BY DEF IsOwn, CU!Filter
<1> HIDE DEF own
<1>4. CASE b.bytes = own
  BY <1>2, <1>4
<1>5. CASE b.bytes = CU!Reversed(own, n)
  <2> HIDE DEF n
  <2>1. \A i \in 0 .. (n - 1) : n - 1 - i \in 0 .. (n - 1)
    BY <1>1
  <2>2. b.bytes = [i \in 0 .. (n - 1) |-> own[n - 1 - i]]
    BY <1>5 DEF CU!Reversed
  <2>3. DOMAIN b.bytes = 0 .. (n - 1)
    BY <2>2
  <2>4. ASSUME NEW i \in 0 .. (n - 1)
        PROVE  b.bytes[i].key = KeyOf(a) /\ b.bytes[i].ver = ans[KeyOf(a)].ver
    <3>1. b.bytes[i] = own[n - 1 - i]
      BY <2>2
    <3>2. n - 1 - i \in 0 .. (n - 1)
      BY <2>1
    <3> QED
      BY <1>2, <3>1, <3>2
  <2> QED
    BY <2>3, <2>4 DEF n
<1> QED
  BY <1>3, <1>4, <1>5

\* Attributes of one key handed on together with no alarm are of one version.
THEOREM OneVersionAlways ==
    ASSUME NEW L \in Nat, \A l \in Lengths : l <= L,
           Len(data_keys) * L <= data_pack_len, LongEnough
    PROVE  ImportSpec => []OneVersion
<1>1. ImportInv => OneVersion
  <2> SUFFICES ASSUME ImportInv, published.pushed, ~published.alarm,
                      NEW a \in Attr, NEW b \in Attr, KeyOf(a) = KeyOf(b),
                      NEW i \in DOMAIN published.dataset[a].bytes,
                      NEW j \in DOMAIN published.dataset[b].bytes
               PROVE  /\ published.dataset[a].bytes[i].key = KeyOf(a)
                      /\ published.dataset[a].bytes[i].ver =
                             published.dataset[b].bytes[j].ver
    BY DEF OneVersion
  <2>1. PICK ans \in [Key -> Value] : From(published.dataset, ans)
    BY DEF ImportInv, PushedOwn
  <2>2. /\ IsOwn(published.dataset[a], a, ans)
        /\ IsOwn(published.dataset[b], b, ans)
    BY <2>1 DEF From
  <2>3. /\ published.dataset[a].bytes[i].key = KeyOf(a)
        /\ published.dataset[a].bytes[i].ver = ans[KeyOf(a)].ver
    BY <2>2, OwnBytesTagged
  <2>4. published.dataset[b].bytes[j].ver = ans[KeyOf(b)].ver
    BY <2>2, OwnBytesTagged
  <2> QED
    BY <2>3, <2>4
<1> QED
  BY <1>1, ImportInvariant, PTL

\* The bytes of the dataset kept are not newer than the answers since.
LEMMA CleanVersions ==
    ASSUME TypeOK, CleanOwn, NEW a \in Attr, NEW i \in DOMAIN clean[a].bytes
    PROVE  /\ i \in 0 .. (attribute_off_len_vec[a].len - 1)
           /\ clean[a].bytes[i].ver \in Nat
           /\ KeyOf(a) \in Key => clean[a].bytes[i].ver <= answer[KeyOf(a)].ver
<1>1. CASE clean = [o \in Attr |-> CU!Fresh(o)]
  <2>1. clean[a].bytes = [j \in 0 .. (attribute_off_len_vec[a].len - 1) |-> Junk]
    BY <1>1 DEF CU!Fresh, CU!Raw
  <2>2. clean[a].bytes[i].ver = 0
    BY <2>1 DEF Junk
  <2>3. \A k \in Key : 0 <= answer[k].ver
    <3>1. \A m \in Nat : 0 <= m
      OBVIOUS
    <3> QED
      BY <3>1, AnswerVersions
  <2> QED
    BY <2>1, <2>2, <2>3
<1>2. ASSUME NEW ans \in [Key -> Value], From(clean, ans)
      PROVE  /\ i \in 0 .. (attribute_off_len_vec[a].len - 1)
             /\ clean[a].bytes[i].ver \in Nat
             /\ clean[a].bytes[i].ver <= answer[KeyOf(a)].ver
  <2> DEFINE b == clean[a]
  <2>1. /\ KeyOf(a) \in Key
        /\ ans[KeyOf(a)].ver <= answer[KeyOf(a)].ver
        /\ IsOwn(b, a, ans)
    BY <1>2 DEF From
  <2>2. i \in DOMAIN b.bytes
    OBVIOUS
  <2> HIDE DEF b
  <2>3. /\ DOMAIN b.bytes = 0 .. (attribute_off_len_vec[a].len - 1)
        /\ b.bytes[i].ver = ans[KeyOf(a)].ver
    BY <2>1, <2>2, OwnBytesTagged
  <2>4. ans[KeyOf(a)].ver \in Nat
    <3>1. ans[KeyOf(a)] \in Value
      BY <2>1
    <3> QED
      BY <3>1, DataTypes
  <2> QED
    BY <2>1, <2>2, <2>3, <2>4 DEF b
<1> QED
  BY <1>1, <1>2 DEF CleanOwn

\* What one step may do to the versions handed on with no alarm.
NoOlder ==
    \A a \in Attr : \A i \in DOMAIN clean[a].bytes :
        clean'[a].bytes[i].ver >= clean[a].bytes[i].ver

\* No dataset handed on with no alarm holds an older version of an attribute
\* than any that was handed on with no alarm before it.
THEOREM VersionsGoForward ==
    ASSUME NEW L \in Nat, \A l \in Lengths : l <= L,
           Len(data_keys) * L <= data_pack_len, LongEnough
    PROVE  ImportSpec => VersionsForward
<1>1. TypeOK /\ AnswerInv /\ ImportInv /\ [ImportNext]_importVars
         => [NoOlder]_importVars
  <2> SUFFICES ASSUME TypeOK, AnswerInv, ImportInv, ImportNext
               PROVE  NoOlder
    OBVIOUS
  <2>1. CASE UNCHANGED clean
    <3>1. \A a \in Attr : \A i \in DOMAIN clean[a].bytes :
             clean[a].bytes[i].ver \in Nat
      BY CleanVersions DEF ImportInv
    <3>2. \A m \in Nat : m >= m
      OBVIOUS
    <3> QED
      BY <2>1, <3>1, <3>2 DEF NoOlder
  <2>2. CASE clean' # clean
    <3>1. /\ published'.pushed /\ ~published'.alarm
          /\ clean' = published'.dataset
      BY <2>2 DEF ImportNext, RememberClean
    <3>2. published' # published
      BY <2>2, <3>1 DEF ImportInv, PushedOwn
    <3>3. CU!EndCycle /\ ~fetching_key
      BY <3>1, <3>2, UnitEffects
         DEF ImportNext, UnitStep, StartCycle, FetchThrottled, FetchStarts,
             FetchGets, FetchEnds, ReadAttribute, EndCycle
    <3>4. /\ clean' = buffer
          /\ \A a \in Attr : KeyOf(a) \in Key /\ IsOwn(buffer[a], a, answer)
      BY <3>1, <3>2, <3>3, EndHandsOn
    <3>5. \A a \in Attr : \A i \in 0 .. (attribute_off_len_vec[a].len - 1) :
             buffer[a].bytes[i].ver = answer[KeyOf(a)].ver
      <4> SUFFICES ASSUME NEW a \in Attr,
                          NEW i \in 0 .. (attribute_off_len_vec[a].len - 1)
                   PROVE  buffer[a].bytes[i].ver = answer[KeyOf(a)].ver
        OBVIOUS
      <4> DEFINE b == buffer[a]
      <4>1. IsOwn(b, a, answer)
        BY <3>4
      <4> HIDE DEF b
      <4>2. i \in DOMAIN b.bytes
        BY <4>1, OwnBytesTagged
      <4>3. b.bytes[i].ver = answer[KeyOf(a)].ver
        BY <4>1, <4>2, OwnBytesTagged
      <4> QED
        BY <4>3 DEF b
    <3>6. \A k \in Key : answer[k].ver \in Nat
      BY AnswerVersions
    <3>7. ASSUME NEW a \in Attr, NEW i \in DOMAIN clean[a].bytes
          PROVE  clean'[a].bytes[i].ver >= clean[a].bytes[i].ver
      <4>1. /\ i \in 0 .. (attribute_off_len_vec[a].len - 1)
            /\ clean[a].bytes[i].ver \in Nat
            /\ clean[a].bytes[i].ver <= answer[KeyOf(a)].ver
        BY <3>4, CleanVersions DEF ImportInv
      <4>2. clean'[a].bytes[i].ver = answer[KeyOf(a)].ver
        BY <3>4, <3>5, <4>1
      <4> QED
        BY <3>4, <3>6, <4>1, <4>2
    <3> QED
      BY <3>7 DEF NoOlder
  <2> QED
    BY <2>1, <2>2
<1>2. ImportSpec => [][NoOlder]_importVars
  BY <1>1, ImportInvariant, PTL DEF ImportSpec
<1> QED
  BY <1>2 DEF NoOlder, VersionsForward

-----------------------------------------------------------------------------
(* Through any stops and starts of the unit and of its driver: the unit    *)
(* stays the one over any driver, the driver never packs beyond its block, *)
(* a pass only appends, no key is reported good before it was got anew,    *)
(* and a value that does not fit harms no other key.                       *)

USE DEF cuVars, importVars, driverVars, envVars, blockVars, loopVars,
        lifeVars, restartVars

\* A start or stop of the driver, as far as the rest of the state goes.
DriverLife == DriverDeinit \/ DriverInit \/ DriverInitThrows

\* Every step is one of the composition without restarts, one of the lives
\* of the two, or the end of a pass over the keys appended so far.
LEMMA RestartCases ==
    ASSUME RestartNext
    PROVE  \/ ImportNext /\ (UNCHANGED lifeVars \/ \E k \in Key : FetchesKey(k))
           \/ DriverLife
           \/ UnitLife
           \/ PassEnds
<1>1. CASE UnitCycle
  BY <1>1 DEF RestartNext, UnitCycle, ImportNext, UnitStep
<1>2. ASSUME NEW k \in Key, FetchesKey(k) PROVE ImportNext
  BY <1>2 DEF RestartNext, FetchesKey, ImportNext, UnitStep
<1>3. CASE Environment /\ UNCHANGED <<cuVars, lifeVars>>
  BY <1>3 DEF RestartNext, ImportNext
<1> QED
  BY <1>1, <1>2, <1>3 DEF RestartNext, RestartStep, DriverLife

-----------------------------------------------------------------------------
\* The new block of a start or stop keeps the types.
LEMMA DriverLifeTypes == TypeOK /\ DriverLife => TypeOK'
<1> SUFFICES ASSUME TypeOK, DriverLife PROVE TypeOK'
  OBVIOUS
<1>1. buffer_data_block' \in [Block -> Cell]
  BY DataTypes DEF DriverLife, DriverDeinit, DriverInit, DriverInitThrows, NewBlock
<1>2. data_results' \in [MapKey -> BOOLEAN]
  BY DEF DriverLife, DriverDeinit, DriverInit, DriverInitThrows, TypeOK
<1>3. UNCHANGED <<server, up, age, answer, pc, fkey, it, tot_size, room>>
  BY DEF DriverLife, DriverDeinit, DriverInit, DriverInitThrows
<1>4. key2off' \in [MapKey -> Nat]
  BY DEF DriverLife, DriverDeinit, DriverInit, DriverInitThrows, AppendKeys, TypeOK
<1> QED
  BY <1>1, <1>2, <1>3, <1>4 DEF TypeOK

\* The types, through any restarts.
THEOREM RestartTypes == RestartSpec => []TypeOK
<1>1. RestartInit => TypeOK
  <2>1. Init => TypeOK
    BY DataTypes, ConfigAssumption DEF Init, TypeOK
  <2> QED
    BY <2>1 DEF RestartInit, ImportInit
<1>2. TypeOK /\ [RestartNext]_restartVars => TypeOK'
  <2> SUFFICES ASSUME TypeOK, [RestartNext]_restartVars PROVE TypeOK'
    OBVIOUS
  <2>1. CASE ImportNext
    BY <2>1, DriverStep, TypeStep
  <2>2. CASE DriverLife
    BY <2>2, DriverLifeTypes
  <2>3. CASE UnitLife \/ PassEnds
    BY <2>3 DEF UnitLife, PassEnds, TypeOK
  <2>4. CASE UNCHANGED restartVars
    BY <2>4 DEF TypeOK
  <2> QED
    BY <2>1, <2>2, <2>3, <2>4, RestartCases
<1> QED
  BY <1>1, <1>2, PTL DEF RestartSpec

\* fetchData packs inside the block in every life of the driver.
THEOREM RestartPacksSafely == RestartSpec => []PackInsideBlock
<1>1. RestartInit => PackInsideBlock
  BY ConfigAssumption, DataTypes DEF RestartInit, ImportInit, Init, PackInsideBlock
<1>2. TypeOK /\ PackInsideBlock /\ [RestartNext]_restartVars => PackInsideBlock'
  <2> SUFFICES ASSUME TypeOK, PackInsideBlock, [RestartNext]_restartVars
               PROVE  PackInsideBlock'
    OBVIOUS
  <2>1. CASE ImportNext
    BY <2>1, DriverStep, PackingStep
  <2>2. CASE UnitLife \/ PassEnds \/ UNCHANGED restartVars
    <3>1. UNCHANGED <<tot_size, room, key2off>>
      BY <2>2 DEF UnitLife, PassEnds
    <3> QED
      BY <3>1 DEF PackInsideBlock
  <2>3. CASE DriverLife
    <3>1. UNCHANGED <<tot_size, room>>
      BY <2>3 DEF DriverLife, DriverDeinit, DriverInit, DriverInitThrows
    <3>2. \A k \in Key : key2off'[k] = key2off[k] \/ key2off'[k] = 0
      BY <2>3, DataTypes
         DEF DriverLife, DriverDeinit, DriverInit, DriverInitThrows, AppendKeys,
             TypeOK
    <3>3. 0 <= data_pack_len
      BY ConfigAssumption
    <3> QED
      BY <3>1, <3>2, <3>3 DEF PackInsideBlock
  <2> QED
    BY <2>1, <2>2, <2>3, RestartCases
<1> QED
  BY <1>1, <1>2, RestartTypes, PTL DEF RestartSpec

-----------------------------------------------------------------------------
\* In every life the unit is the unit over any driver.
LEMMA RestartUnitStep == TypeOK /\ [RestartNext]_restartVars => [CU!Next]_cuVars
<1> SUFFICES ASSUME TypeOK, [RestartNext]_restartVars PROVE [CU!Next]_cuVars
  OBVIOUS
<1>1. CASE ImportNext
  BY <1>1, UnitIsStep
<1>2. CASE DriverLife
  BY <1>2 DEF DriverLife, DriverDeinit, DriverInit, DriverInitThrows
<1>3. CASE UnitLife
  BY <1>3 DEF UnitLife, CU!Next
<1>4. CASE PassEnds
  BY <1>4 DEF PassEnds, CU!Next
<1>5. CASE UNCHANGED restartVars
  BY <1>5
<1> QED
  BY <1>1, <1>2, <1>3, <1>4, <1>5, RestartCases

THEOREM RestartImplementsUnit == RestartSpec => CU!Spec
<1>1. RestartInit => CU!Init
  BY DEF RestartInit, ImportInit
<1>2. TypeOK /\ [RestartNext]_restartVars => [CU!Next]_(CU!cuVars)
  BY RestartUnitStep DEF CU!cuVars
<1> QED
  BY <1>1, <1>2, RestartTypes, PTL DEF RestartSpec, CU!Spec

-----------------------------------------------------------------------------
(* What is reported good belongs to a configured key, which the next       *)
(* driverInit resets; the driver is stopped and started only under a unit  *)
(* that is down, between two passes.                                       *)

OnlyConfiguredGood == \A k \in Key : data_results[k] => k \in Configured

StoppedUnderDown == driver # "up" => cu_pc = "down"

GetsInFetch == pc = "get" => cu_pc = "fetch"

LifeInv ==
    /\ OnlyConfiguredGood
    /\ StoppedUnderDown
    /\ GetsInFetch
    /\ GoodSinceInit

\* A key the loop of fetchData meets is a configured one.
LEMMA ConfiguredKeys ==
    ASSUME TypeOK, NEW k \in Key, AtKey(k) PROVE k \in Configured
<1> DEFINE n == Len(json_data_key)
<1>1. /\ n \in Nat /\ n > 0 /\ DOMAIN json_data_key = 1 .. n
      /\ DOMAIN data_keys = 1 .. Len(data_keys) /\ Len(data_keys) \in Nat
  BY AppendAssumption, ConfigAssumption
<1>2. it \in 1 .. Len(data_keys) /\ k = data_keys[it]
  BY <1>1 DEF AtKey, TypeOK
<1>3. k = json_data_key[((it - 1) % n) + 1]
  BY <1>1, <1>2, AppendAssumption
<1>4. ((it - 1) % n) + 1 \in 1 .. n
  <2> DEFINE r == (it - 1) % n
  <2>1. it - 1 \in Nat
    BY <1>2
  <2> HIDE DEF n
  <2>2. r \in 0 .. (n - 1)
    BY <1>1, <2>1
  <2> HIDE DEF r
  <2>3. r + 1 \in 1 .. n
    BY <1>1, <2>2
  <2> QED
    BY <2>3 DEF r, n
<1> QED
  BY <1>1, <1>3, <1>4 DEF Configured

LEMMA LifeStart == RestartInit => LifeInv
<1>1. RestartInit => \A k \in Key : ~data_results[k]
  BY DataTypes DEF RestartInit, ImportInit, Init
<1> QED
  BY <1>1 DEF RestartInit, ImportInit, Init, LifeInv, OnlyConfiguredGood,
              StoppedUnderDown, GetsInFetch, GoodSinceInit

\* What a get does to the results and to the keys got.
LEMMA GetEffect ==
    ASSUME TypeOK, NEW k \in Key, FetchesKey(k)
    PROVE  /\ k \in Configured /\ pc = "get"
           /\ UNCHANGED <<driver, cu_pc, pc>>
           /\ \A o \in Key : o # k => data_results'[o] = data_results[o]
           /\ data_results'[k] => k \in got'
           /\ got \subseteq got'
<1>1. /\ FetchGets(k) /\ UNCHANGED driver
      /\ got' = IF Answers(k) THEN got \cup {k} ELSE got
  BY DEF FetchesKey
<1>2. /\ AtKey(k) /\ pc = "get" /\ UNCHANGED <<cu_pc, pc>>
      /\ \/ Answers(k) /\ data_results' = [data_results EXCEPT ![k] = TRUE]
         \/ ~Answers(k) /\ data_results' = [data_results EXCEPT ![k] = FALSE]
  BY <1>1 DEF FetchGets, GetMiss, GetHit, GetTooBig, AtKey
<1> QED
  BY <1>1, <1>2, ConfiguredKeys, DataTypes DEF TypeOK

LEMMA LifeStep == TypeOK /\ LifeInv /\ [RestartNext]_restartVars => LifeInv'
<1> SUFFICES ASSUME TypeOK, LifeInv, [RestartNext]_restartVars PROVE LifeInv'
  OBVIOUS
<1> USE DEF LifeInv, OnlyConfiguredGood, StoppedUnderDown, GetsInFetch,
            GoodSinceInit
<1>1. CASE DriverDeinit \/ DriverInitThrows
  BY <1>1 DEF DriverDeinit, DriverInitThrows, AppendKeys
<1>2. CASE DriverInit
  <2>1. \A k \in Key : ~data_results'[k]
    BY <1>2, DataTypes DEF DriverInit
  <2>2. UNCHANGED <<cu_pc, pc>> /\ driver' = "up"
    BY <1>2 DEF DriverInit
  <2> QED
    BY <2>1, <2>2
<1>3. CASE UnitLife
  BY <1>3 DEF UnitLife, CU!Life, CU!UnitInit, CU!UnitInitThrows, CU!UnitDeinit
<1>4. CASE PassEnds
  BY <1>4 DEF PassEnds, CU!FetchReturned
<1>5. CASE UnitCycle
  <2>1. UNCHANGED <<data_results, driver, got>>
    BY <1>5 DEF UnitCycle, StartCycle, FetchThrottled, FetchStarts, StartFetch,
                ReadAttribute, EndCycle
  <2>2. cu_pc # "down"
    BY <1>5, UnitEffects
       DEF UnitCycle, StartCycle, FetchThrottled, FetchStarts, ReadAttribute,
           EndCycle
  <2>3. pc' = "get" => cu_pc' = "fetch"
    BY <1>5, UnitEffects
       DEF UnitCycle, StartCycle, FetchThrottled, FetchStarts, ReadAttribute,
           EndCycle
  <2> QED
    BY <2>1, <2>2, <2>3
<1>6. ASSUME NEW k \in Key, FetchesKey(k) PROVE LifeInv'
  BY <1>6, GetEffect
<1>7. CASE (Environment /\ UNCHANGED <<cuVars, lifeVars>>) \/ UNCHANGED restartVars
  <2>1. UNCHANGED <<data_results, driver, got, cu_pc, pc>>
    BY <1>7 DEF Environment, Store, Outage, Recover, Tick
  <2> QED
    BY <2>1
<1> QED
  BY <1>1, <1>2, <1>3, <1>4, <1>5, <1>6, <1>7 DEF RestartNext, RestartStep

\* The invariant above.
THEOREM LifeInvariant == RestartSpec => []LifeInv
BY LifeStart, LifeStep, RestartTypes, PTL DEF RestartSpec

\* No key is reported good before it was got in this life of the driver.
THEOREM GoodInThisLife == RestartSpec => []GoodSinceInit
<1>1. LifeInv => GoodSinceInit
  BY DEF LifeInv
<1> QED
  BY <1>1, LifeInvariant, PTL

\* A pass only appends: no stop or start of the driver falls into one.
THEOREM RestartAppends == RestartSpec => AppendsOnly
<1>1. TypeOK /\ LifeInv /\ [RestartNext]_restartVars => [AppendsStep]_driverVars
  <2> SUFFICES ASSUME TypeOK, LifeInv, [RestartNext]_restartVars
               PROVE  [AppendsStep]_driverVars
    OBVIOUS
  <2>1. CASE ImportNext
    BY <2>1, DriverStep, AppendsInPass
  <2>2. CASE DriverLife
    <3>1. cu_pc = "down"
      BY <2>2 DEF DriverLife, DriverDeinit, DriverInit, DriverInitThrows,
                  AppendKeys, LifeInv, StoppedUnderDown
    <3>2. pc # "get"
      BY <3>1 DEF LifeInv, GetsInFetch
    <3> QED
      BY <3>2 DEF AppendsStep
  <2>3. CASE PassEnds
    BY <2>3 DEF PassEnds, AppendsStep
  <2>4. CASE UnitLife \/ UNCHANGED restartVars
    BY <2>4 DEF UnitLife
  <2> QED
    BY <2>1, <2>2, <2>3, <2>4, RestartCases
<1>2. RestartSpec => [][AppendsStep]_driverVars
  BY <1>1, RestartTypes, LifeInvariant, PTL DEF RestartSpec
<1> QED
  BY <1>2 DEF AppendsStep, AppendsOnly

-----------------------------------------------------------------------------
(* The loop of fetchData over the keys appended so far, with values that   *)
(* may not fit.  A key reported good whose newest value did fit is, in the *)
(* middle of a pass, either packed below tot_size by this pass or still    *)
(* awaited by it; what lies between is being overwritten.                  *)

AwaitedYet(k) == \E j \in it .. held : data_keys[j] = k

HeldKeys == held \in Len(json_data_key) .. Len(data_keys)

FittingPacked ==
    pc = "get" =>
        \A k \in Key \ unfit : data_results[k] => Packed(k) \/ AwaitedYet(k)

HarmInv == HeldKeys /\ FittingPacked /\ HarmsNoOther

\* Every configured key is among the keys appended so far.
LEMMA ConfiguredHeld ==
    ASSUME HeldKeys, NEW k \in Configured
    PROVE  \E j \in 1 .. held : data_keys[j] = k
<1> DEFINE n == Len(json_data_key)
<1>1. /\ n \in Nat /\ n > 0 /\ DOMAIN json_data_key = 1 .. n
      /\ DOMAIN data_keys = 1 .. Len(data_keys) /\ Len(data_keys) \in Nat
      /\ n <= Len(data_keys)
  BY AppendAssumption, ConfigAssumption
<1>2. PICK i \in 1 .. n : json_data_key[i] = k
  BY <1>1 DEF Configured
<1>3. data_keys[i] = json_data_key[((i - 1) % n) + 1]
  BY <1>1, <1>2, AppendAssumption
<1>4. ((i - 1) % n) + 1 = i
  <2> HIDE DEF n
  <2>1. (i - 1) % n = i - 1
    BY <1>1, <1>2
  <2> QED
    BY <1>2, <2>1
<1>5. held \in n .. Len(data_keys)
  BY DEF HeldKeys
<1>6. i \in 1 .. held
  <2> HIDE DEF n
  <2> QED
    BY <1>1, <1>2, <1>5
<1> QED
  BY <1>2, <1>3, <1>4, <1>6

LEMMA HarmStart == RestartInit => HarmInv
<1> SUFFICES ASSUME RestartInit PROVE HarmInv
  OBVIOUS
<1>1. pc = "idle" /\ \A k \in Key : ~data_results[k]
  BY DataTypes DEF RestartInit, ImportInit, Init
<1>2. HeldKeys
  <2>1. Len(json_data_key) \in Nat /\ Len(data_keys) \in Nat
    BY AppendAssumption, ConfigAssumption
  <2> QED
    BY <2>1, AppendAssumption DEF RestartInit, HeldKeys
<1> QED
  BY <1>1, <1>2 DEF HarmInv, FittingPacked, HarmsNoOther

\* A get passes over no key: what it was not for stays packed or awaited, and
\* what it was for is packed, not good, or too long.
LEMMA HarmGet ==
    ASSUME TypeOK, PackInsideBlock, HarmInv, NEW k \in Key, FetchesKey(k)
    PROVE  HarmInv'
<1>1. /\ AtKey(k) /\ pc = "get" /\ it <= held /\ k = data_keys[it]
      /\ it' = it + 1 /\ UNCHANGED <<pc, held>>
      /\ GetMiss(k) \/ GetHit(k) \/ GetTooBig(k)
      /\ unfit' = IF ~Answers(k) THEN unfit
                  ELSE IF Fits(server[k]) THEN unfit \ {k} ELSE unfit \cup {k}
  BY DEF FetchesKey, FetchGets, GetMiss, GetHit, GetTooBig, AtKey
<1>2. /\ it \in Nat /\ held \in Nat
  <2>1. Len(json_data_key) \in Nat /\ Len(data_keys) \in Nat
    BY AppendAssumption, ConfigAssumption
  <2>2. /\ held \in Len(json_data_key) .. Len(data_keys)
        /\ it \in 1 .. (Len(data_keys) + 1)
    BY DEF HarmInv, HeldKeys, TypeOK
  <2> QED
    BY <2>1, <2>2
<1>3. \A o \in Key : o # k /\ AwaitedYet(o) => AwaitedYet(o)'
  <2> SUFFICES ASSUME NEW o \in Key, o # k, NEW j \in it .. held, data_keys[j] = o
               PROVE  j \in (it + 1) .. held
    BY <1>1 DEF AwaitedYet
  <2> QED
    BY <1>1, <1>2
<1>4. ASSUME NEW o \in Key, o # k, Packed(o) PROVE Packed(o)'
  <2>1. CASE GetHit(k)
    BY <1>4, <2>1, HitKeepsOthers
  <2>2. CASE GetMiss(k)
    BY <1>4, <2>2, PackedStays DEF GetMiss
  <2>3. CASE GetTooBig(k)
    <3>1. /\ UNCHANGED <<buffer_data_block, key2off, tot_size>>
          /\ answer'[o] = answer[o]
      BY <1>4, <2>3 DEF GetTooBig, TypeOK
    <3> QED
      BY <1>4, <3>1 DEF Packed, Holds
  <2> QED
    BY <1>1, <2>1, <2>2, <2>3
<1>5. ASSUME NEW o \in Key \ unfit', data_results'[o]
      PROVE  Packed(o)' \/ AwaitedYet(o)'
  <2>1. CASE o # k
    <3>1. data_results[o] /\ o \notin unfit
      BY <1>1, <1>5, <2>1, DataTypes DEF GetMiss, GetHit, GetTooBig, TypeOK
    <3>2. Packed(o) \/ AwaitedYet(o)
      BY <1>1, <3>1 DEF HarmInv, FittingPacked
    <3> QED
      BY <1>3, <1>4, <2>1, <3>2
  <2>2. CASE o = k
    <3>1. ~GetMiss(k)
      BY <1>5, <2>2, DataTypes DEF GetMiss, TypeOK
    <3>2. ~GetTooBig(k)
      BY <1>1, <1>5, <2>2 DEF GetTooBig
    <3> QED
      BY <1>1, <2>2, <3>1, <3>2, HitPacks
  <2> QED
    BY <2>1, <2>2
<1> QED
  BY <1>1, <1>5 DEF HarmInv, HeldKeys, FittingPacked, HarmsNoOther

LEMMA HarmStep ==
    TypeOK /\ PackInsideBlock /\ LifeInv /\ HarmInv /\ [RestartNext]_restartVars
        => HarmInv'
<1> SUFFICES ASSUME TypeOK, PackInsideBlock, LifeInv, HarmInv,
                    [RestartNext]_restartVars
             PROVE  HarmInv'
  OBVIOUS
<1> USE DEF HarmInv
<1>1. CASE DriverLife
  <2>1. pc # "get" /\ UNCHANGED pc
    BY <1>1 DEF DriverLife, DriverDeinit, DriverInit, DriverInitThrows, AppendKeys,
                LifeInv, StoppedUnderDown, GetsInFetch
  <2>2. driver' = "up" => \A k \in Key : ~data_results'[k]
    BY <1>1, DataTypes
       DEF DriverLife, DriverDeinit, DriverInit, DriverInitThrows, LifeInv,
           OnlyConfiguredGood
  <2>3. HeldKeys'
    <3>1. /\ Len(json_data_key) \in Nat /\ Len(data_keys) \in Nat
          /\ held \in Len(json_data_key) .. Len(data_keys)
      BY AppendAssumption, ConfigAssumption DEF HeldKeys
    <3>2. \/ UNCHANGED held
          \/ /\ held' = held + Len(json_data_key)
             /\ held + Len(json_data_key) <= Len(data_keys)
      BY <1>1 DEF DriverLife, DriverDeinit, DriverInit, DriverInitThrows, AppendKeys
    <3> QED
      BY <3>1, <3>2 DEF HeldKeys
  <2> QED
    BY <2>1, <2>2, <2>3 DEF FittingPacked, HarmsNoOther
<1>2. CASE PassEnds
  <2>1. /\ pc = "get" /\ pc' = "idle" /\ it > held
        /\ UNCHANGED <<buffer_data_block, key2off, data_results, answer, tot_size,
                       held, unfit>>
    BY <1>2 DEF PassEnds
  <2>2. \A k \in Key : ~AwaitedYet(k)
    <3>1. held \in Nat /\ it \in Nat
      BY AppendAssumption, ConfigAssumption DEF HeldKeys, TypeOK
    <3> QED
      BY <2>1, <3>1 DEF AwaitedYet
  <2>3. \A k \in Key \ unfit : data_results[k] => Holds(k)
    BY <2>1, <2>2 DEF FittingPacked, Packed
  <2> QED
    BY <2>1, <2>3, PackedStays DEF HeldKeys, FittingPacked, HarmsNoOther
<1>3. CASE UnitCycle /\ FetchStarts
  <2>1. /\ pc' = "get" /\ it' = 1
        /\ UNCHANGED <<data_results, held, unfit>>
    BY <1>3 DEF UnitCycle, FetchStarts, StartFetch
  <2>2. \A k \in Key : data_results[k] => AwaitedYet(k)'
    BY <2>1, ConfiguredHeld DEF AwaitedYet, LifeInv, OnlyConfiguredGood
  <2> QED
    BY <2>1, <2>2 DEF HeldKeys, FittingPacked, HarmsNoOther
<1>4. ASSUME NEW k \in Key, FetchesKey(k) PROVE HarmInv'
  BY <1>4, HarmGet
<1>5. CASE \/ UnitLife
           \/ UnitCycle /\ ~FetchStarts
           \/ Environment /\ UNCHANGED <<cuVars, lifeVars>>
           \/ UNCHANGED restartVars
  <2>1. UNCHANGED <<pc, it, tot_size, buffer_data_block, key2off, data_results,
                    answer, driver, held, unfit>>
    BY <1>5 DEF UnitLife, UnitCycle, StartCycle, FetchThrottled, ReadAttribute,
                EndCycle, Environment, Store, Outage, Recover, Tick
  <2> QED
    BY <2>1, PackedStays DEF HeldKeys, FittingPacked, HarmsNoOther, AwaitedYet
<1> QED
  BY <1>1, <1>2, <1>3, <1>4, <1>5 DEF RestartNext, RestartStep, DriverLife

\* Between two passes every key reported good is whole in the block unless
\* its own newest value was too long: through any starts and stops, for any
\* lengths, with a block of any size.
THEOREM TooBigHarmsNoOther == RestartSpec => []HarmsNoOther
<1>1. HarmInv => HarmsNoOther
  BY DEF HarmInv
<1> QED
  BY <1>1, HarmStart, HarmStep, RestartTypes, RestartPacksSafely, LifeInvariant,
     PTL DEF RestartSpec
================================================================================

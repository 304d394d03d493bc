-------------------------- MODULE DataImport_proofs --------------------------
(***************************************************************************)
(* Proofs about the control unit over an arbitrary driver: whatever codes  *)
(* and bytes the driver returns, for any list of attributes and whatever   *)
(* malloc left in old_buffer.                                              *)
(***************************************************************************)
EXTENDS DataImport, TLAPS

USE DEF cuVars, alarms

\* The attributes are numbered from 1.
LEMMA Attributes ==
    /\ Len(attribute_off_len_vec) \in Nat
    /\ Attr = 1 .. Len(attribute_off_len_vec)
    /\ \A a \in Attr : attribute_off_len_vec[a] \in AttributeOffLen
    /\ \A a \in Attr : attribute_off_len_vec[a].len \in Nat
<1>1. Attr = 1 .. Len(attribute_off_len_vec) /\ Len(attribute_off_len_vec) \in Nat
  BY AttributeAssumption DEF Attr
<1>2. ASSUME NEW a \in Attr PROVE attribute_off_len_vec[a] \in AttributeOffLen
  BY <1>1, AttributeAssumption
<1>3. \A v \in AttributeOffLen : v.len \in Nat
  BY DEF AttributeOffLen
<1> QED
  BY <1>1, <1>2, <1>3

\* The filter keeps an output attribute of its type.
LEMMA FilterType ==
    ASSUME NEW a \in Attr, NEW b \in Bytes(attribute_off_len_vec[a].len)
    PROVE  Filter(a, b) \in Buffer(a)
<1> DEFINE n == attribute_off_len_vec[a].len
<1>1. n \in Nat
  BY Attributes
<1>2. Reversed(b, n) \in Bytes(n)
  <2> HIDE DEF n
  <2>1. \A i \in 0 .. (n - 1) : n - 1 - i \in 0 .. (n - 1)
    BY <1>1
  <2>2. b \in Bytes(n)
    BY DEF n
  <2> QED
    BY <2>1, <2>2 DEF Reversed, Bytes
<1>3. /\ attribute_off_len_vec[a].factor \in BOOLEAN
      /\ attribute_off_len_vec[a].lbe \in BOOLEAN
  BY Attributes DEF AttributeOffLen
<1>4. Filter(a, b).bytes \in Bytes(n) /\ Filter(a, b).scaled \in BOOLEAN
  BY <1>2, <1>3 DEF Filter
<1>5. Filter(a, b) = [bytes |-> Filter(a, b).bytes, scaled |-> Filter(a, b).scaled]
  BY DEF Filter
<1> QED
  BY <1>4, <1>5 DEF Buffer

\* The content of the output dataset, before a failed read and after one.
LEMMA RawType ==
    ASSUME NEW a \in Attr, NEW b \in Bytes(attribute_off_len_vec[a].len)
    PROVE  Raw(b) \in Buffer(a)
BY DEF Raw, Buffer

LEMMA FreshType ==
    ASSUME NEW a \in Attr PROVE Fresh(a) \in Buffer(a)
BY ByteAssumption, RawType, Attributes DEF Fresh, Bytes

\* The types, for any driver.
THEOREM TypeCorrect == Spec => []TypeOK
<1>1. Init => TypeOK
  <2> SUFFICES ASSUME Init PROVE TypeOK
    OBVIOUS
  <2>1. IsDataset(buffer)
    BY FreshType DEF Init, IsDataset
  <2>2. IsOld(old_buffer)
    <3>1. old_buffer = [a \in Attr |-> old_buffer[a]]
      BY DEF Init
    <3>2. \A a \in Attr : old_buffer[a] \in Bytes(attribute_off_len_vec[a].len)
      BY ByteAssumption DEF Init
    <3> QED
      BY <3>1, <3>2 DEF IsOld
  <2>3. published.pushed = FALSE /\ published.alarm = FALSE
        /\ published.dataset = buffer
    BY DEF Init
  <2>4. 1 \in 1 .. (Len(attribute_off_len_vec) + 1)
    BY Attributes
  <2>5. /\ cu_pc = "idle" /\ ai = 1 /\ changed = FALSE /\ fetching_key = FALSE
        /\ fetching_data_block = FALSE /\ driver_interface = "live"
    BY DEF Init
  <2> QED
    BY <2>1, <2>2, <2>3, <2>4, <2>5 DEF TypeOK
<1>2. TypeOK /\ [Next]_cuVars => TypeOK'
  <2> SUFFICES ASSUME TypeOK, [Next]_cuVars PROVE TypeOK'
    OBVIOUS
  <2>1. CASE StartCycle
    <3>1. 1 \in 1 .. (Len(attribute_off_len_vec) + 1)
      BY Attributes
    <3> QED
      BY <2>1, <3>1 DEF StartCycle, TypeOK
  <2>2. ASSUME NEW err, FetchReturned(err) PROVE TypeOK'
    BY <2>2 DEF FetchReturned, TypeOK
  <2>3. ASSUME NEW a \in Attr, NEW left \in Buffer(a), ReadFailed(a, left)
        PROVE  TypeOK'
    <3>1. IsDataset(buffer')
      BY <2>3 DEF ReadFailed, TypeOK, IsDataset
    <3>2. ai' \in 1 .. (Len(attribute_off_len_vec) + 1)
      BY <2>3, Attributes DEF ReadFailed, AtAttribute, TypeOK
    <3> QED
      BY <2>3, <3>1, <3>2 DEF ReadFailed, TypeOK
  <2>4. ASSUME NEW a \in Attr, NEW b \in Bytes(attribute_off_len_vec[a].len),
               ReadOk(a, b)
        PROVE  TypeOK'
    <3>1. IsDataset(buffer')
      BY <2>4, FilterType DEF ReadOk, TypeOK, IsDataset
    <3>2. IsOld(old_buffer')
      BY <2>4 DEF ReadOk, TypeOK, IsOld
    <3>3. ai' \in 1 .. (Len(attribute_off_len_vec) + 1)
      BY <2>4, Attributes DEF ReadOk, AtAttribute, TypeOK
    <3> QED
      BY <2>4, <3>1, <3>2, <3>3 DEF ReadOk, TypeOK
  <2>5. CASE EndCycle
    BY <2>5 DEF EndCycle, TypeOK
  <2>6. CASE UNCHANGED cuVars
    BY <2>6 DEF TypeOK
  <2>9. CASE UnitInit
    <3>1. IsDataset(buffer')
      BY <2>9, FreshType DEF UnitInit, TypeOK, IsDataset
    <3> QED
      BY <2>9, <3>1 DEF UnitInit, TypeOK
  <2>10. CASE UnitInitThrows \/ UnitDeinit
    BY <2>10 DEF UnitInitThrows, UnitDeinit, TypeOK
  <2>7. \A a \in Attr : Content[a] \subseteq Bytes(attribute_off_len_vec[a].len)
    BY ByteAssumption
  <2>8. \A a \in Attr : buffer[a] \in Buffer(a)
    BY DEF TypeOK, IsDataset
  <2> QED
    BY <2>1, <2>2, <2>3, <2>4, <2>5, <2>6, <2>7, <2>8, <2>9, <2>10, RawType
       DEF Next, Life
<1> QED
  BY <1>1, <1>2, PTL DEF Spec

-----------------------------------------------------------------------------
(* The dataset handed on with no alarm is the filter of old_buffer until a *)
(* cycle has found a difference, and then until that cycle ends; what the  *)
(* running cycle has read without an alarm is the filter of old_buffer.    *)

PushKept ==
    published.pushed /\ ~published.alarm /\ ~(cu_pc = "read" /\ changed)
        => \A a \in Attr : published.dataset[a] = Filter(a, old_buffer[a])

ReadSoFar ==
    cu_pc = "read" /\ ~fetching_key
        => \A a \in Attr : a < ai => buffer[a] = Filter(a, old_buffer[a])

CycleInv ==
    /\ PushKept
    /\ ReadSoFar
    /\ cu_pc = "fetch" => ~changed /\ ai = 1

\* The invariant behind the two properties below.
THEOREM CycleInvariant == Spec => []CycleInv
<1>1. Init => CycleInv
  BY DEF Init, CycleInv, PushKept, ReadSoFar
<1>2. TypeOK /\ CycleInv /\ [Next]_cuVars => CycleInv'
  <2> SUFFICES ASSUME TypeOK, CycleInv, [Next]_cuVars PROVE CycleInv'
    OBVIOUS
  <2>1. CASE StartCycle
    BY <2>1 DEF StartCycle, CycleInv, PushKept, ReadSoFar
  <2>2. ASSUME NEW err, FetchReturned(err) PROVE CycleInv'
    BY <2>2, Attributes DEF FetchReturned, CycleInv, PushKept, ReadSoFar
  <2>3. ASSUME NEW a \in Attr, NEW left, ReadFailed(a, left) PROVE CycleInv'
    BY <2>3 DEF ReadFailed, AtAttribute, CycleInv, PushKept, ReadSoFar
  <2>4. ASSUME NEW a \in Attr, NEW b, ReadOk(a, b) PROVE CycleInv'
    <3>1. /\ cu_pc = "read" /\ cu_pc' = "read" /\ a = ai /\ ai' = ai + 1
          /\ changed' = (changed \/ b # old_buffer[a])
          /\ old_buffer' = [old_buffer EXCEPT ![a] = b]
          /\ buffer' = [buffer EXCEPT ![a] = Filter(a, b)]
          /\ UNCHANGED <<fetching_key, published>>
      BY <2>4 DEF ReadOk, AtAttribute
    <3>2. /\ buffer = [o \in Attr |-> buffer[o]]
          /\ old_buffer = [o \in Attr |-> old_buffer[o]]
          /\ changed \in BOOLEAN
      BY DEF TypeOK, IsDataset, IsOld
    <3>3. PushKept'
      <4>1. CASE changed'
        BY <3>1, <4>1 DEF PushKept
      <4>2. CASE ~changed'
        <5>1. ~changed /\ old_buffer'[a] = old_buffer[a]
          BY <3>1, <3>2, <4>2
        <5>2. \A o \in Attr : old_buffer'[o] = old_buffer[o]
          BY <3>1, <3>2, <5>1
        <5> QED
          BY <3>1, <5>1, <5>2 DEF CycleInv, PushKept
      <4> QED
        BY <4>1, <4>2
    <3>4. ReadSoFar'
      <4> SUFFICES ASSUME ~fetching_key, NEW o \in Attr, o < ai'
                   PROVE  buffer'[o] = Filter(o, old_buffer'[o])
        BY <3>1 DEF ReadSoFar
      <4>1. CASE o = a
        BY <3>1, <3>2, <4>1
      <4>2. CASE o # a
        <5>1. o < ai
          BY <3>1, <4>2, Attributes
        <5>2. buffer'[o] = buffer[o] /\ old_buffer'[o] = old_buffer[o]
          BY <3>1, <3>2, <4>2
        <5> QED
          BY <3>1, <5>1, <5>2 DEF CycleInv, ReadSoFar
      <4> QED
        BY <4>1, <4>2
    <3> QED
      BY <3>1, <3>3, <3>4 DEF CycleInv
  <2>5. CASE EndCycle
    <3>1. ASSUME changed, ~fetching_key, NEW a \in Attr
          PROVE  buffer[a] = Filter(a, old_buffer[a])
      BY <2>5, <3>1, Attributes DEF EndCycle, CycleInv, ReadSoFar, TypeOK
    <3>2. PushKept'
      BY <2>5, <3>1 DEF EndCycle, CycleInv, PushKept
    <3> QED
      BY <2>5, <3>2 DEF EndCycle, CycleInv, ReadSoFar
  <2>6. CASE UNCHANGED cuVars
    BY <2>6 DEF CycleInv, PushKept, ReadSoFar
  <2>7. CASE Life
    BY <2>7 DEF Life, UnitInit, UnitInitThrows, UnitDeinit, CycleInv, PushKept,
                ReadSoFar
  <2> QED
    BY <2>1, <2>2, <2>3, <2>4, <2>5, <2>6, <2>7 DEF Next
<1> QED
  BY <1>1, <1>2, TypeCorrect, PTL DEF Spec

\* A dataset handed on with no alarm holds the filtered bytes of the newest
\* successful reads, whatever the driver does.
THEOREM CleanPushes == Spec => []CleanPush
<1>1. CycleInv => CleanPush
  BY DEF CycleInv, PushKept, CleanPush
<1> QED
  BY <1>1, CycleInvariant, PTL

\* A cycle that reports "Nothing changed" with no failed read has found the
\* dataset that was handed on last with no alarm, whatever the driver does.
THEOREM NothingMissedEver == Spec => []NothingMissed
<1>1. TypeOK /\ CycleInv => NothingMissed
  <2> SUFFICES ASSUME TypeOK, CycleInv, AllRead, ~changed, ~fetching_key,
                      published.pushed, ~published.alarm
               PROVE  published.dataset = buffer
    BY DEF NothingMissed
  <2>1. ASSUME NEW a \in Attr PROVE published.dataset[a] = buffer[a]
    <3>1. a < ai
      BY Attributes DEF AllRead, TypeOK
    <3> QED
      BY <3>1 DEF AllRead, CycleInv, PushKept, ReadSoFar
  <2>2. /\ published.dataset = [a \in Attr |-> published.dataset[a]]
        /\ buffer = [a \in Attr |-> buffer[a]]
    BY DEF TypeOK, IsDataset
  <2> QED
    BY <2>1, <2>2
<1> QED
  BY <1>1, TypeCorrect, CycleInvariant, PTL
-----------------------------------------------------------------------------
\* No run and no deinit uses the interface after a unitDeinit deleted it,
\* through any starts, stops and failed starts of the unit.
THEOREM InterfaceAlive == Spec => []InterfaceInUse
<1>1. Init => InterfaceInUse
  BY DEF Init, InterfaceInUse
<1>2. InterfaceInUse /\ [Next]_cuVars => InterfaceInUse'
  <2> SUFFICES ASSUME InterfaceInUse, [Next]_cuVars PROVE InterfaceInUse'
    OBVIOUS
  <2>1. CASE StartCycle \/ EndCycle
    BY <2>1 DEF StartCycle, EndCycle, InterfaceInUse
  <2>2. ASSUME NEW err, FetchReturned(err) PROVE InterfaceInUse'
    BY <2>2 DEF FetchReturned, InterfaceInUse
  <2>3. ASSUME NEW a, NEW left, ReadFailed(a, left) PROVE InterfaceInUse'
    BY <2>3 DEF ReadFailed, AtAttribute, InterfaceInUse
  <2>4. ASSUME NEW a, NEW b, ReadOk(a, b) PROVE InterfaceInUse'
    BY <2>4 DEF ReadOk, AtAttribute, InterfaceInUse
  <2>5. CASE Life
    <3>1. CASE UnitInit \/ UnitInitThrows
      BY <2>5, <3>1 DEF UnitInit, UnitInitThrows, InterfaceInUse
    <3>2. CASE UnitDeinit
      BY <3>2 DEF UnitDeinit, InterfaceInUse
    <3> QED
      BY <2>5, <3>1, <3>2 DEF Life
  <2>6. CASE UNCHANGED cuVars
    BY <2>6 DEF InterfaceInUse
  <2> QED
    BY <2>1, <2>2, <2>3, <2>4, <2>5, <2>6 DEF Next
<1> QED
  BY <1>1, <1>2, PTL DEF Spec
===============================================================================

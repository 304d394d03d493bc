----------------------- MODULE RTChaos2Memcache_proofs -----------------------
(***************************************************************************)
(* Proofs about RTChaos2Memcache, for any remote dataset and any sizes its *)
(* values take: the types, that unitRun never copies past its buffer, and  *)
(* that the server holds a run's row whole.  Then the conversions of       *)
(* AttributeOffLen, for any descriptions.                                  *)
(***************************************************************************)
EXTENDS RTChaos2Memcache, AttributeOffLen, WellFoundedInduction,
        NaturalsInduction, TLAPS

USE DEF vars, memory

LEMMA Attributes ==
    /\ Len(rattrs) \in Nat
    /\ \A a \in Attr : rattrs[a].declared \in Nat
<1> DEFINE Attribute == [output : BOOLEAN, declared : Nat]
<1>1. rattrs \in Seq(Attribute)
  BY RattrsAssumption
<1>2. \A v \in Attribute : v.declared \in Nat
  OBVIOUS
<1> HIDE DEF Attribute
<1>3. \A a \in Attr : rattrs[a] \in Attribute
  BY <1>1 DEF Attr
<1> QED
  BY <1>1, <1>2, <1>3

\* A set of numbers has a least one.
LEMMA LeastNat ==
    ASSUME NEW T \in SUBSET Nat, T # {} PROVE \E n \in T : \A m \in T : n <= m
<1> DEFINE R == {p \in Nat \X Nat : p[1] < p[2]}
<1>1. IsWellFoundedOn(R, Nat)
  BY NatLessThanWellFounded DEF OpToRel
<1>2. \A m, n \in Nat : <<m, n>> \notin R => n <= m
  <2> SUFFICES ASSUME NEW m \in Nat, NEW n \in Nat, ~(n <= m) PROVE <<m, n>> \in R
    OBVIOUS
  <2>1. m < n
    OBVIOUS
  <2> QED
    BY <2>1
<1> HIDE DEF R
<1>3. \E n \in T : \A m \in T : <<m, n>> \notin R
  BY <1>1, WFMin
<1> QED
  BY <1>2, <1>3

\* What unitInit's loop adds for one attribute.
Bytes(i) == IF rattrs[i].output THEN rattrs[i].declared ELSE 0

LEMMA BytesType == \A i \in 1 .. Len(rattrs) : Bytes(i) \in Nat
<1> SUFFICES ASSUME NEW i \in 1 .. Len(rattrs) PROVE Bytes(i) \in Nat
  OBVIOUS
<1>1. rattrs[i].declared \in Nat
  BY Attributes DEF Attr
<1> QED
  BY <1>1 DEF Bytes

\* f counts the bytes of the first n attributes.
Counts(f, n) == f = [i \in 0 .. n |-> IF i = 0 THEN 0 ELSE f[i - 1] + Bytes(i)]

\* The recursion that defines DeclaredUpTo has a solution.
LEMMA CountExists == \E f : Counts(f, Len(rattrs))
<1> SUFFICES ASSUME ~\E f : Counts(f, Len(rattrs)) PROVE FALSE
  OBVIOUS
<1> DEFINE T == {n \in Nat : ~\E f : Counts(f, n)}
<1>1. PICK n \in T : \A m \in T : n <= m
  <2>1. Len(rattrs) \in T /\ T \in SUBSET Nat
    BY Attributes
  <2> HIDE DEF T
  <2> QED
    BY <2>1, LeastNat
<1>2. n # 0
  <2>1. Counts([i \in 0 .. 0 |-> 0], 0)
    BY DEF Counts
  <2> QED
    BY <2>1
<1>3. PICK f : Counts(f, n - 1)
  <2>1. n - 1 \in Nat /\ ~(n <= n - 1)
    BY <1>2
  <2> QED
    BY <1>1, <2>1
<1> DEFINE g == [i \in 0 .. n |-> IF i = 0 THEN 0 ELSE f[i - 1] + Bytes(i)]
<1>4. ASSUME NEW i \in 0 .. (n - 1) PROVE g[i] = f[i]
  BY <1>3 DEF Counts
<1>5. ASSUME NEW i \in 0 .. n
      PROVE  g[i] = IF i = 0 THEN 0 ELSE g[i - 1] + Bytes(i)
  <2>1. CASE i = 0
    BY <2>1
  <2>2. CASE i # 0
    <3>1. i - 1 \in 0 .. (n - 1)
      BY <2>2
    <3> QED
      BY <1>4, <2>2, <3>1
  <2> QED
    BY <2>1, <2>2
<1>6. Counts(g, n)
  BY <1>5 DEF Counts
<1> QED
  BY <1>6

\* What unitInit counts is a number, whatever the dataset.
LEMMA DeclaredType == Declared \in Nat
<1>1. PICK f : f = [i \in 0 .. Len(rattrs) |->
                      IF i = 0 THEN 0
                      ELSE f[i - 1] +
                           (IF rattrs[i].output THEN rattrs[i].declared ELSE 0)]
  BY CountExists DEF Counts, Bytes
<1>2. DeclaredUpTo = [i \in 0 .. Len(rattrs) |->
                        IF i = 0 THEN 0
                        ELSE DeclaredUpTo[i - 1] +
                             (IF rattrs[i].output THEN rattrs[i].declared ELSE 0)]
  BY <1>1 DEF DeclaredUpTo
<1>3. \A i \in 0 .. Len(rattrs) :
         DeclaredUpTo[i] = IF i = 0 THEN 0 ELSE DeclaredUpTo[i - 1] + Bytes(i)
  BY <1>2 DEF Bytes
<1> SUFFICES ASSUME Declared \notin Nat PROVE FALSE
  OBVIOUS
<1> DEFINE T == {i \in 0 .. Len(rattrs) : DeclaredUpTo[i] \notin Nat}
<1>4. PICK n \in T : \A m \in T : n <= m
  <2>1. Len(rattrs) \in T /\ T \in SUBSET Nat
    BY Attributes DEF Declared
  <2> HIDE DEF T
  <2> QED
    BY <2>1, LeastNat
<1>5. n # 0
  BY <1>3, <1>4
<1>6. n \in 1 .. Len(rattrs) /\ n - 1 \in 0 .. Len(rattrs) /\ ~(n <= n - 1)
  BY <1>5, Attributes
<1>7. DeclaredUpTo[n - 1] \in Nat
  BY <1>4, <1>6
<1>8. Bytes(n) \in Nat
  BY <1>6, BytesType
<1> QED
  BY <1>3, <1>4, <1>5, <1>7, <1>8

\* What growing asks for.
LEMMA GrownType ==
    ASSUME TypeOK, NEW n \in Nat
    PROVE  Grown(n) \in Nat /\ off + n <= Grown(n) /\ off + n \in Nat
BY DEF TypeOK, Grown

\* The type invariant: the counters stay natural numbers.
THEOREM TypeCorrect == Spec => []TypeOK
<1>1. Init => TypeOK
  BY Attributes DEF Init, TypeOK
<1>2. TypeOK /\ [Next]_vars => TypeOK'
  <2> SUFFICES ASSUME TypeOK, [Next]_vars PROVE TypeOK'
    OBVIOUS
  <2>1. ASSUME NEW a \in Attr, NEW n \in Sizes, Resize(a, n) PROVE TypeOK'
    BY <2>1, SizesAssumption DEF Resize, TypeOK
  <2>2. CASE UnitInit
    <3>1. size' \in Nat
      BY <2>2, DeclaredType DEF UnitInit, TypeOK
    <3>2. allocated' \in Nat
      BY <2>2, <3>1 DEF UnitInit, TypeOK
    <3> QED
      BY <2>2, <3>1, <3>2 DEF UnitInit, TypeOK
  <2>3. CASE UnitInitThrows
    BY <2>3 DEF UnitInitThrows, TypeOK
  <2>4. CASE StartRun
    BY <2>4, Attributes DEF StartRun, TypeOK
  <2>5. CASE SkipInput
    BY <2>5, Attributes DEF SkipInput, Attr, TypeOK
  <2>6. CASE CopyOutput
    <3>1. ri \in Attr /\ current[ri] \in Nat
      BY <2>6 DEF CopyOutput, TypeOK
    <3>2. /\ off' = off + current[ri] /\ ri' = ri + 1
          /\ UNCHANGED <<current, phase, mc_client>>
      BY <2>6 DEF CopyOutput
    <3>3. \/ size' = Grown(current[ri]) /\ allocated' = size'
          \/ UNCHANGED <<allocated, size>>
      BY <2>6 DEF CopyOutput
    <3>4. size' \in Nat /\ allocated' \in Nat /\ off' \in Nat
      BY <3>1, <3>2, <3>3, GrownType DEF TypeOK
    <3>5. ri' \in 1 .. (Len(rattrs) + 1)
      BY <3>1, <3>2, Attributes DEF Attr
    <3> QED
      BY <3>2, <3>4, <3>5 DEF TypeOK
  <2>7. CASE Push
    BY <2>7 DEF Push, TypeOK
  <2>8. CASE UnitDeinit
    BY <2>8 DEF UnitDeinit, TypeOK
  <2>9. CASE FreeUninitialized
    BY <2>9 DEF FreeUninitialized, TypeOK
  <2>10. CASE UNCHANGED vars
    BY <2>10 DEF TypeOK
  <2> QED
    BY <2>1, <2>2, <2>3, <2>4, <2>5, <2>6, <2>7, <2>8, <2>9, <2>10 DEF Next
<1> QED
  BY <1>1, <1>2, PTL DEF Spec

\* No memcpy of unitRun leaves the buffer, for any attributes, any changes
\* of their sizes at any moment, and any sequence of restarts.
THEOREM BufferSafe == Spec => []CopyInsideBuffer
<1>1. Init => CopyInsideBuffer
  BY DEF Init, CopyInsideBuffer
<1>2. TypeOK /\ CopyInsideBuffer /\ [Next]_vars => CopyInsideBuffer'
  <2> SUFFICES ASSUME TypeOK, CopyInsideBuffer, [Next]_vars
               PROVE  CopyInsideBuffer'
    OBVIOUS
  <2>1. ASSUME NEW a \in Attr, NEW n \in Sizes, Resize(a, n)
        PROVE  CopyInsideBuffer'
    BY <2>1 DEF Resize, CopyInsideBuffer
  <2>2. CASE UnitInit
    <3>1. size' = 2 * (size + Declared) /\ phase' = "ready"
          /\ allocated' = IF size' = 0 THEN allocated ELSE size'
      BY <2>2 DEF UnitInit
    <3>2. size \in Nat /\ size = allocated
      BY DEF TypeOK, CopyInsideBuffer
    <3>3. size' = allocated'
      BY <3>1, <3>2, DeclaredType
    <3> QED
      BY <3>1, <3>3 DEF CopyInsideBuffer
  <2>3. CASE UnitInitThrows
    BY <2>3 DEF UnitInitThrows, CopyInsideBuffer
  <2>4. CASE StartRun
    BY <2>4 DEF StartRun, CopyInsideBuffer, TypeOK
  <2>5. CASE SkipInput
    BY <2>5 DEF SkipInput, CopyInsideBuffer
  <2>6. CASE CopyOutput
    <3>1. ri \in Attr /\ current[ri] \in Nat /\ off' = off + current[ri]
          /\ phase' = "run"
      BY <2>6 DEF CopyOutput, TypeOK
    <3>2. CASE MustGrow(current[ri])
      <4>1. size' = Grown(current[ri]) /\ allocated' = size'
        BY <2>6, <3>2 DEF CopyOutput
      <4> QED
        BY <3>1, <4>1, GrownType DEF CopyInsideBuffer
    <3>3. CASE ~MustGrow(current[ri])
      <4>1. size' = size /\ allocated' = allocated
        BY <2>6, <3>3 DEF CopyOutput
      <4>2. off + current[ri] <= size
        BY <3>1, <3>3 DEF MustGrow, TypeOK
      <4> QED
        BY <3>1, <4>1, <4>2 DEF CopyInsideBuffer
    <3> QED
      BY <3>2, <3>3
  <2>7. CASE Push
    BY <2>7 DEF Push, CopyInsideBuffer
  <2>8. CASE UnitDeinit
    BY <2>8 DEF UnitDeinit, CopyInsideBuffer
  <2>9. CASE FreeUninitialized
    BY <2>9 DEF FreeUninitialized, CopyInsideBuffer
  <2>10. CASE UNCHANGED vars
    BY <2>10 DEF CopyInsideBuffer
  <2> QED
    BY <2>1, <2>2, <2>3, <2>4, <2>5, <2>6, <2>7, <2>8, <2>9, <2>10 DEF Next
<1> QED
  BY <1>1, <1>2, TypeCorrect, PTL DEF Spec

-----------------------------------------------------------------------------
(* The row that is copied, and the one the server holds.                   *)

Entry == [attr : Attr, at : Nat, siz : Nat]

\* A row of entries, one behind the other, that ends at byte end.
Laid(entries, end) ==
    /\ entries \in Seq(Entry)
    /\ \A r \in 1 .. Len(entries) :
          /\ entries[r].at = IF r = 1 THEN 0
                             ELSE entries[r - 1].at + entries[r - 1].siz
          /\ entries[r].at + entries[r].siz <= end
    /\ end = IF Len(entries) = 0 THEN 0
             ELSE entries[Len(entries)].at + entries[Len(entries)].siz

\* Every entry's bytes stand at its place in b.
HoldsRow(b, entries) ==
    \A r \in 1 .. Len(entries) : \A i \in 0 .. (entries[r].siz - 1) :
        b[entries[r].at + i] = Byte(entries[r].attr, i)

\* The entries are the outputs before attribute i, each once and in order.
AllBefore(entries, i) ==
    /\ \A r \in 1 .. Len(entries) :
          /\ entries[r].attr < i
          /\ rattrs[entries[r].attr].output
          /\ r > 1 => entries[r - 1].attr < entries[r].attr
    /\ \A a \in Attr : a < i /\ rattrs[a].output =>
          \E r \in 1 .. Len(entries) : entries[r].attr = a

\* StoredRowWhole is not inductive: it speaks of a row only once it is
\* stored.  The run that builds it keeps the same of the buffer, up to off,
\* and of the outputs, up to ri.
RowInvariant ==
    /\ DOMAIN buffer = 0 .. (allocated - 1)
    /\ phase = "run" =>
          Laid(row, off) /\ HoldsRow(buffer, row) /\ AllBefore(row, ri)
    /\ StoredRowWhole

\* One more entry behind the row.
LEMMA OneMore ==
    ASSUME NEW entries, NEW end \in Nat, NEW a \in Attr, NEW n \in Nat,
           Laid(entries, end)
    PROVE  LET more == Append(entries, [attr |-> a, at |-> end, siz |-> n])
           IN  /\ Laid(more, end + n)
               /\ Len(more) = Len(entries) + 1
               /\ more[Len(entries) + 1] = [attr |-> a, at |-> end, siz |-> n]
               /\ \A r \in 1 .. Len(entries) : more[r] = entries[r]
<1> DEFINE new == [attr |-> a, at |-> end, siz |-> n]
           more == Append(entries, new)
<1>1. new \in Entry /\ new.at = end /\ new.siz = n
  BY DEF Entry
<1>2. entries \in Seq(Entry) /\ Len(entries) \in Nat
  BY DEF Laid
<1>3. /\ \A r \in 1 .. Len(entries) : entries[r] \in Entry
      /\ \A e \in Entry : e.at \in Nat /\ e.siz \in Nat
  <2>1. \A e \in Entry : e.at \in Nat /\ e.siz \in Nat
    BY DEF Entry
  <2> QED
    BY <1>2, <2>1
<1> HIDE DEF new
<1>4. /\ more \in Seq(Entry) /\ Len(more) = Len(entries) + 1
      /\ more[Len(entries) + 1] = new
      /\ \A r \in 1 .. Len(entries) : more[r] = entries[r]
  BY <1>1, <1>2
<1> HIDE DEF more
<1>5. ASSUME NEW r \in 1 .. Len(more)
      PROVE  /\ more[r].at = IF r = 1 THEN 0
                             ELSE more[r - 1].at + more[r - 1].siz
             /\ more[r].at + more[r].siz <= end + n
  <2>1. CASE r = Len(entries) + 1
    <3>1. more[r].at = end /\ more[r].siz = n
      BY <2>1, <1>1, <1>4
    <3>2. r # 1 => r - 1 \in 1 .. Len(entries) /\ r - 1 = Len(entries)
      BY <2>1, <1>2
    <3>3. CASE r = 1
      BY <3>1, <3>3, <2>1, <1>2 DEF Laid
    <3>4. CASE r # 1
      <4>1. end = entries[r - 1].at + entries[r - 1].siz
        BY <3>2, <3>4 DEF Laid
      <4>2. more[r - 1] = entries[r - 1]
        BY <3>2, <3>4, <1>4
      <4> QED
        BY <3>1, <3>4, <4>1, <4>2
    <3> QED
      BY <3>3, <3>4
  <2>2. CASE r # Len(entries) + 1
    <3>1. r \in 1 .. Len(entries) /\ (r # 1 => r - 1 \in 1 .. Len(entries))
      BY <2>2, <1>2, <1>4
    <3>2. entries[r].at \in Nat /\ entries[r].siz \in Nat
      BY <3>1, <1>3
    <3>3. more[r] = entries[r] /\ (r # 1 => more[r - 1] = entries[r - 1])
      BY <3>1, <1>4
    <3>4. entries[r].at + entries[r].siz <= end
      BY <3>1 DEF Laid
    <3>5. entries[r].at = IF r = 1 THEN 0
                          ELSE entries[r - 1].at + entries[r - 1].siz
      BY <3>1 DEF Laid
    <3>6. entries[r].at + entries[r].siz <= end + n
      BY <3>2, <3>4
    <3> QED
      BY <3>3, <3>5, <3>6
  <2> QED
    BY <2>1, <2>2
<1>6. end + n = more[Len(more)].at + more[Len(more)].siz /\ Len(more) # 0
  BY <1>1, <1>2, <1>4
<1>7. Laid(more, end + n)
  BY <1>4, <1>5, <1>6 DEF Laid
<1> QED
  BY <1>4, <1>7 DEF more, new

\* With the entry of attribute i behind them, the entries are the outputs
\* before attribute i + 1.
LEMMA OutputAdded ==
    ASSUME NEW entries \in Seq(Entry), NEW more \in Seq(Entry),
           NEW i \in Attr, rattrs[i].output,
           AllBefore(entries, i), Len(more) = Len(entries) + 1,
           more[Len(entries) + 1].attr = i,
           \A r \in 1 .. Len(entries) : more[r] = entries[r]
    PROVE  AllBefore(more, i + 1)
<1>1. i \in Int /\ Len(entries) \in Nat
  BY Attributes DEF Attr
<1>2. \A r \in 1 .. Len(entries) : entries[r].attr \in Int
  <2>1. \A e \in Entry : e.attr \in Int
    BY Attributes DEF Entry, Attr
  <2> QED
    BY <2>1
<1>3. ASSUME NEW r \in 1 .. Len(more)
      PROVE  /\ more[r].attr < i + 1
             /\ rattrs[more[r].attr].output
             /\ r > 1 => more[r - 1].attr < more[r].attr
  <2>1. CASE r = Len(entries) + 1
    <3>1. r > 1 => r - 1 \in 1 .. Len(entries) /\ more[r - 1] = entries[r - 1]
      BY <1>1, <2>1
    <3> QED
      BY <1>1, <2>1, <3>1 DEF AllBefore
  <2>2. CASE r # Len(entries) + 1
    <3>1. /\ r \in 1 .. Len(entries) /\ more[r] = entries[r]
          /\ r > 1 => r - 1 \in 1 .. Len(entries) /\ more[r - 1] = entries[r - 1]
      BY <1>1, <2>2
    <3>2. entries[r].attr < i /\ entries[r].attr \in Int
      BY <1>2, <3>1 DEF AllBefore
    <3> QED
      BY <1>1, <3>1, <3>2 DEF AllBefore
  <2> QED
    BY <2>1, <2>2
<1>4. ASSUME NEW a \in Attr, a < i + 1, rattrs[a].output
      PROVE  \E r \in 1 .. Len(more) : more[r].attr = a
  <2>1. CASE a = i
    BY <1>1, <2>1
  <2>2. CASE a # i
    <3>1. a < i
      BY <1>1, <1>4, <2>2, Attributes DEF Attr
    <3>2. PICK r \in 1 .. Len(entries) : entries[r].attr = a
      BY <1>4, <3>1 DEF AllBefore
    <3>3. r \in 1 .. Len(more) /\ more[r] = entries[r]
      BY <1>1
    <3> QED
      BY <3>2, <3>3
  <2> QED
    BY <2>1, <2>2
<1> QED
  BY <1>3, <1>4 DEF AllBefore

\* A memcpy behind the row leaves the row's bytes and adds the new entry's.
LEMMA CopiedBehind ==
    ASSUME TypeOK, CopyInsideBuffer, RowInvariant, CopyOutput
    PROVE  /\ DOMAIN buffer' = 0 .. (allocated' - 1)
           /\ \A j \in 0 .. (off - 1) : buffer'[j] = buffer[j]
           /\ \A i \in 0 .. (current[ri] - 1) : buffer'[off + i] = Byte(ri, i)
<1> DEFINE n == current[ri]
<1>1. phase = "run" /\ ri \in Attr /\ n \in Nat /\ off \in Nat
      /\ allocated \in Nat /\ size = allocated /\ off <= allocated
  BY DEF CopyOutput, TypeOK, CopyInsideBuffer
<1>2. PICK b : /\ buffer' = CopyInto(b, ri, n)
               /\ DOMAIN b = 0 .. (allocated' - 1)
               /\ \A j \in 0 .. (allocated - 1) : b[j] = buffer[j]
               /\ off + n <= allocated' /\ allocated' \in Nat
  <2>1. CASE MustGrow(n)
    <3>1. /\ size' = Grown(n) /\ allocated' = size'
          /\ buffer' = CopyInto(Realloc(size'), ri, n)
      BY <2>1 DEF CopyOutput
    <3>2. allocated' = off + n + allocated
      BY <3>1, <1>1 DEF Grown
    <3>3. /\ DOMAIN Realloc(size') = 0 .. (allocated' - 1)
          /\ \A j \in 0 .. (allocated - 1) : Realloc(size')[j] = buffer[j]
      BY <3>1, <3>2, <1>1 DEF Realloc
    <3>4. off + n <= allocated' /\ allocated' \in Nat
      BY <3>2, <1>1
    <3> QED
      BY <3>1, <3>3, <3>4
  <2>2. CASE ~MustGrow(n)
    <3>1. buffer' = CopyInto(buffer, ri, n) /\ allocated' = allocated
      BY <2>2 DEF CopyOutput
    <3>2. off + n <= allocated
      BY <2>2, <1>1 DEF MustGrow
    <3> QED
      BY <3>1, <3>2, <1>1 DEF RowInvariant
  <2> QED
    BY <2>1, <2>2
<1>3. /\ DOMAIN buffer' = DOMAIN b
      /\ \A j \in DOMAIN b :
            buffer'[j] = IF j >= off /\ j < off + n THEN Byte(ri, j - off) ELSE b[j]
  BY <1>2 DEF CopyInto
<1> HIDE DEF n
<1>4. ASSUME NEW k \in 0 .. (off - 1) PROVE buffer'[k] = buffer[k]
  <2>1. k \in 0 .. (allocated' - 1)
    <3>1. off <= allocated' /\ allocated' \in Int /\ off \in Int
      BY <1>1, <1>2
    <3>2. \A x, y \in Int : x <= y => 0 .. (x - 1) \subseteq 0 .. (y - 1)
      OBVIOUS
    <3> QED
      BY <3>1, <3>2
  <2>2. k \in 0 .. (allocated - 1) /\ ~(k >= off)
    BY <1>1
  <2>3. k \in DOMAIN b
    BY <2>1, <1>2
  <2> QED
    BY <2>2, <2>3, <1>2, <1>3
<1>5. ASSUME NEW i \in 0 .. (n - 1) PROVE buffer'[off + i] = Byte(ri, i)
  <2>1. off + i \in 0 .. (allocated' - 1) /\ off + i >= off
    BY <1>1, <1>2
  <2>2. off + i < off + n /\ (off + i) - off = i
    BY <1>1
  <2>3. off + i \in DOMAIN b
    BY <2>1, <1>2
  <2> QED
    BY <2>1, <2>2, <2>3, <1>3
<1> QED
  BY <1>2, <1>3, <1>4, <1>5 DEF n

\* What a push stores of a row that stands in the buffer.
LEMMA Stored ==
    ASSUME TypeOK, CopyInsideBuffer, RowInvariant, Push
    PROVE  StoredRowWhole'
<1>1. CASE stored' = stored
  BY <1>1 DEF RowInvariant, StoredRowWhole
<1>2. CASE stored' # stored
  <2> DEFINE value == [i \in 0 .. (off - 1) |-> IF i < allocated THEN buffer[i] ELSE Junk]
             end(r) == IF r = 0 THEN 0 ELSE row[r].at + row[r].siz
  <2>1. /\ stored' = [value |-> value, row |-> row, pushed |-> TRUE]
        /\ phase = "run" /\ ri \notin Attr
    BY <1>2 DEF Push
  <2>2. off \in Nat /\ allocated \in Nat /\ off <= allocated
    BY <2>1 DEF TypeOK, CopyInsideBuffer
  <2>3. /\ DOMAIN value = 0 .. (off - 1)
        /\ \A j \in 0 .. (off - 1) : value[j] = buffer[j]
    BY <2>2
  <2>4. /\ row \in Seq(Entry) /\ DOMAIN row = 1 .. Len(row) /\ Len(row) \in Nat
        /\ \A r \in 1 .. Len(row) : row[r] \in Entry
    BY <2>1 DEF RowInvariant, Laid
  <2>5. AllBefore(row, ri) /\ Laid(row, off) /\ HoldsRow(buffer, row)
    BY <2>1 DEF RowInvariant
  <2> HIDE DEF value
  <2>6. stored'.row = row /\ stored'.value = value
    BY <2>1
  <2>7. ASSUME NEW a \in Attr, rattrs[a].output
        PROVE  \E r \in DOMAIN row : row[r].attr = a
    <3>1. a < ri
      BY <2>1, Attributes DEF TypeOK, Attr
    <3> QED
      BY <2>4, <2>5, <2>7, <3>1 DEF AllBefore
  <2>8. ASSUME NEW r \in 1 .. Len(row)
        PROVE  /\ rattrs[row[r].attr].output
               /\ r > 1 => row[r - 1].attr < row[r].attr
               /\ row[r].at = end(r - 1)
               /\ \A i \in 0 .. (row[r].siz - 1) :
                     value[row[r].at + i] = Byte(row[r].attr, i)
    <3>1. row[r].at \in Nat /\ row[r].siz \in Nat
      BY <2>4 DEF Entry
    <3>2. row[r].at + row[r].siz <= off
      BY <2>5 DEF Laid
    <3>3. row[r].at = end(r - 1)
      <4>1. row[r].at = IF r = 1 THEN 0 ELSE row[r - 1].at + row[r - 1].siz
        BY <2>5 DEF Laid
      <4>2. r - 1 = 0 <=> r = 1
        BY <2>4
      <4> QED
        BY <4>1, <4>2
    <3>4. ASSUME NEW i \in 0 .. (row[r].siz - 1)
          PROVE  value[row[r].at + i] = Byte(row[r].attr, i)
      <4>1. row[r].at + i \in 0 .. (off - 1)
        BY <3>1, <3>2, <2>2
      <4>2. buffer[row[r].at + i] = Byte(row[r].attr, i)
        BY <2>5 DEF HoldsRow
      <4> QED
        BY <4>1, <4>2, <2>3
    <3> HIDE DEF end
    <3> QED
      BY <2>5, <3>3, <3>4 DEF AllBefore
  <2>9. off = end(Len(row))
    BY <2>4, <2>5 DEF Laid
  <2> QED
    BY <2>3, <2>4, <2>6, <2>7, <2>8, <2>9 DEF StoredRowWhole
<1> QED
  BY <1>1, <1>2

LEMMA RowStep ==
    ASSUME TypeOK, CopyInsideBuffer, RowInvariant, [Next]_vars
    PROVE  RowInvariant'
<1>1. ASSUME NEW a \in Attr, NEW n \in Sizes, Resize(a, n) PROVE RowInvariant'
  BY <1>1 DEF Resize, RowInvariant, StoredRowWhole
<1>2. CASE UnitInit
  BY <1>2 DEF UnitInit, RowInvariant, StoredRowWhole
<1>3. CASE UnitInitThrows
  BY <1>3 DEF UnitInitThrows, RowInvariant, StoredRowWhole
<1>4. CASE StartRun
  <2>1. Laid(<<>>, 0) /\ HoldsRow(buffer, <<>>) /\ AllBefore(<<>>, 1)
    BY Attributes DEF Laid, HoldsRow, AllBefore, Attr
  <2>2. /\ row' = <<>> /\ off' = 0 /\ ri' = 1
        /\ UNCHANGED <<buffer, allocated, stored>>
    BY <1>4 DEF StartRun
  <2> QED
    BY <2>1, <2>2 DEF RowInvariant, StoredRowWhole
<1>5. CASE SkipInput
  <2>1. /\ phase = "run" /\ ri \in Attr /\ ~rattrs[ri].output /\ ri' = ri + 1
        /\ UNCHANGED <<phase, buffer, allocated, off, row, stored>>
    BY <1>5 DEF SkipInput
  <2>2. Laid(row, off) /\ HoldsRow(buffer, row) /\ AllBefore(row, ri)
    BY <2>1 DEF RowInvariant
  <2>3. \A r \in 1 .. Len(row) : row[r].attr \in Int
    <3>1. \A e \in Entry : e.attr \in Int
      BY Attributes DEF Entry, Attr
    <3> QED
      BY <2>2, <3>1 DEF Laid
  <2>4. \A a \in Attr : a < ri + 1 /\ rattrs[a].output => a < ri
    BY <2>1, Attributes DEF Attr
  <2>5. \A r \in 1 .. Len(row) : row[r].attr < ri => row[r].attr < ri + 1
    BY <2>1, <2>3, Attributes DEF Attr
  <2>6. AllBefore(row, ri + 1)
    BY <2>2, <2>4, <2>5 DEF AllBefore
  <2> QED
    BY <2>1, <2>2, <2>6 DEF RowInvariant, StoredRowWhole
<1>6. CASE CopyOutput
  <2> DEFINE n == current[ri]
             more == Append(row, [attr |-> ri, at |-> off, siz |-> n])
  <2>1. /\ phase = "run" /\ ri \in Attr /\ n \in Nat /\ off \in Nat
        /\ off' = off + n /\ row' = more /\ stored' = stored
        /\ rattrs[ri].output /\ ri' = ri + 1
    BY <1>6 DEF CopyOutput, TypeOK
  <2>2. Laid(row, off) /\ HoldsRow(buffer, row) /\ row \in Seq(Entry)
        /\ Len(row) \in Nat /\ AllBefore(row, ri)
    BY <2>1 DEF RowInvariant, Laid
  <2>3. /\ Laid(more, off + n) /\ Len(more) = Len(row) + 1
        /\ more[Len(row) + 1] = [attr |-> ri, at |-> off, siz |-> n]
        /\ \A r \in 1 .. Len(row) : more[r] = row[r]
    BY <2>1, <2>2, OneMore
  <2>4. /\ DOMAIN buffer' = 0 .. (allocated' - 1)
        /\ \A j \in 0 .. (off - 1) : buffer'[j] = buffer[j]
        /\ \A i \in 0 .. (n - 1) : buffer'[off + i] = Byte(ri, i)
    BY <1>6, CopiedBehind
  <2> HIDE DEF n, more
  <2>5. ASSUME NEW r \in 1 .. Len(more), NEW i \in 0 .. (more[r].siz - 1)
        PROVE  buffer'[more[r].at + i] = Byte(more[r].attr, i)
    <3>1. CASE r = Len(row) + 1
      BY <3>1, <2>3, <2>4
    <3>2. CASE r # Len(row) + 1
      <4>1. r \in 1 .. Len(row)
        BY <3>2, <2>2, <2>3
      <4>2. more[r] = row[r] /\ row[r] \in Entry
        BY <4>1, <2>2, <2>3
      <4>3. row[r].at + row[r].siz <= off
        BY <4>1, <2>2 DEF Laid
      <4>4. row[r].at + i \in 0 .. (off - 1)
        BY <4>2, <4>3, <2>1 DEF Entry
      <4>5. buffer[row[r].at + i] = Byte(row[r].attr, i)
        BY <4>1, <4>2, <2>2 DEF HoldsRow
      <4> QED
        BY <4>2, <4>4, <4>5, <2>4
    <3> QED
      BY <3>1, <3>2
  <2>6. HoldsRow(buffer', more)
    BY <2>5 DEF HoldsRow
  <2>7. Laid(row', off') /\ HoldsRow(buffer', row') /\ AllBefore(row', ri')
    <3>1. more \in Seq(Entry) /\ more[Len(row) + 1].attr = ri
      BY <2>3 DEF Laid
    <3>2. AllBefore(more, ri + 1)
      BY <2>1, <2>2, <2>3, <3>1, OutputAdded
    <3> QED
      BY <2>1, <2>3, <2>6, <3>2
  <2>8. StoredRowWhole'
    BY <2>1 DEF RowInvariant, StoredRowWhole
  <2> QED
    BY <2>4, <2>7, <2>8 DEF RowInvariant, Laid, HoldsRow, AllBefore
<1>7. CASE Push
  <2>1. phase' = "ready" /\ UNCHANGED <<buffer, allocated>>
    BY <1>7 DEF Push
  <2> QED
    BY <1>7, <2>1, Stored DEF RowInvariant
<1>8. CASE UnitDeinit
  <2>1. phase' = "down" /\ stored' = stored
    BY <1>8 DEF UnitDeinit
  <2>2. DOMAIN buffer' = 0 .. (allocated' - 1)
    BY <1>8 DEF UnitDeinit, RowInvariant, Nothing
  <2> QED
    BY <2>1, <2>2 DEF RowInvariant, StoredRowWhole
<1>9. CASE FreeUninitialized
  BY <1>9 DEF FreeUninitialized, RowInvariant, StoredRowWhole
<1>10. CASE UNCHANGED vars
  BY <1>10 DEF RowInvariant, StoredRowWhole, Laid, HoldsRow, AllBefore
<1> QED
  BY <1>1, <1>2, <1>3, <1>4, <1>5, <1>6, <1>7, <1>8, <1>9, <1>10 DEF Next

\* What the server holds is always one run's row, whole, for any attributes,
\* any changes of their sizes and any moment the buffer moves: unitRun leaves
\* out no output, its realloc loses nothing, its offset leaves no gap, and no
\* byte follows the last output's.
THEOREM RowsAreWhole == Spec => []StoredRowWhole
<1>1. Init => RowInvariant
  BY DEF Init, RowInvariant, StoredRowWhole, Nothing
<1>2. RowInvariant => StoredRowWhole
  BY DEF RowInvariant
<1> QED
  BY <1>1, <1>2, TypeCorrect, BufferSafe, RowStep, PTL DEF Spec
-----------------------------------------------------------------------------
(* The conversions of AttributeOffLen, for any descriptions: a machine of  *)
(* its own beside the exporter.                                            *)

\* Numbers come whole, and a scalar is one of them.
WholeElements ==
    \A d \in Descriptions :
        LET v == Json2Attribute(d)
        IN  v.type \in Numeric =>
                IF v.vector THEN v.len % SizeOf[v.type] = 0
                ELSE v.len = SizeOf[v.type]

\* The modelled memory holds every attribute, and the longest swap.
MemoryHolds ==
    /\ Top \in Nat /\ Top >= 7
    /\ \A d \in Descriptions : Json2Attribute(d).len <= Top + 1

Described == {v \in [type : {"INT32", "INT64", "DOUBLE", "STRING", "BYTEARRAY", "BOOLEAN"},
                     vector : BOOLEAN, lbe : BOOLEAN, factor : BOOLEAN,
                     len : Nat \ {0}] :
                /\ v.len <= Top + 1
                /\ v.type \in Numeric =>
                     IF v.vector THEN v.len % SizeOf[v.type] = 0
                     ELSE v.len = SizeOf[v.type]}

LEMMA DescriptionTypes ==
    ASSUME WholeElements, MemoryHolds, NEW d \in Descriptions
    PROVE  Json2Attribute(d) \in Described
<1> DEFINE v == Json2Attribute(d)
<1>1. /\ d.type \in TypeName /\ d.vector \in BOOLEAN /\ d.len \in Nat
      /\ d.factor \in BOOLEAN
  BY DescriptionAssumption DEF DescriptionAssumption
<1>2. v.type \in {"INT32", "INT64", "DOUBLE", "STRING", "BYTEARRAY", "BOOLEAN"}
  BY <1>1 DEF Json2Attribute, DecodedType, TypeName
<1>3. SizeOf[v.type] \in Nat \ {0}
  BY <1>2 DEF SizeOf, MaxText
<1>4. /\ v.vector \in BOOLEAN /\ v.lbe \in BOOLEAN /\ v.len \in Nat \ {0}
      /\ v.factor \in BOOLEAN
  BY <1>1, <1>3 DEF Json2Attribute, Absent
<1>5. v = [type |-> v.type, vector |-> v.vector, lbe |-> v.lbe,
           factor |-> v.factor, len |-> v.len]
  BY DEF Json2Attribute
<1> HIDE DEF v
<1> QED
  BY <1>2, <1>4, <1>5 DEF Described, WholeElements, MemoryHolds, v

\* Every type takes four or eight bytes an element when it is a number.
LEMMA ElementSizes ==
    ASSUME NEW v \in Described
    PROVE  /\ v.len \in Nat \ {0} /\ v.len <= Top + 1
           /\ v.vector \in BOOLEAN /\ v.lbe \in BOOLEAN
           /\ v.type \in Numeric =>
                /\ SizeOf[v.type] \in {4, 8}
                /\ v.len % SizeOf[v.type] = 0
                /\ ~v.vector => v.len = SizeOf[v.type]
<1>1. /\ v.type \in {"INT32", "INT64", "DOUBLE", "STRING", "BYTEARRAY", "BOOLEAN"}
      /\ v.len \in Nat \ {0} /\ v.len <= Top + 1
      /\ v.vector \in BOOLEAN /\ v.lbe \in BOOLEAN
      /\ v.type \in Numeric =>
           IF v.vector THEN v.len % SizeOf[v.type] = 0
           ELSE v.len = SizeOf[v.type]
  BY DEF Described
<1>2. ASSUME v.type \in Numeric PROVE SizeOf[v.type] \in {4, 8}
  BY <1>2 DEF Numeric, SizeOf
<1>3. 4 % 4 = 0 /\ 8 % 8 = 0
  OBVIOUS
<1> QED
  BY <1>1, <1>2, <1>3

\* A byte's element and its place in the element.
LEMMA ElementOf ==
    ASSUME NEW s \in {4, 8}, NEW n \in Nat
    PROVE  /\ n \div s \in Nat /\ n % s \in 0 .. (s - 1)
           /\ n = s * (n \div s) + (n % s)
<1>1. CASE s = 4
  BY <1>1
<1>2. CASE s = 8
  BY <1>2
<1> QED
  BY <1>1, <1>2

LEMMA InElement ==
    ASSUME NEW s \in {4, 8}, NEW n \in Nat,
           NEW e \in Nat, NEW r \in 0 .. (s - 1), n = s * e + r
    PROVE  n \div s = e /\ n % s = r
<1>1. CASE s = 4
  BY <1>1
<1>2. CASE s = 8
  BY <1>2
<1> QED
  BY <1>1, <1>2

\* The loops of copy() stop at len, and a swap stays inside its element and
\* undoes itself.
LEMMA SwapUndoes ==
    ASSUME NEW v \in Described
    PROVE  /\ TotSize(v) = v.len
           /\ \A n \in 0 .. (v.len - 1) :
                /\ Swapped(v, n) \in 0 .. (v.len - 1)
                /\ Swapped(v, Swapped(v, n)) = n
<1> DEFINE s == SizeOf[v.type]
<1>0. v.len \in Nat \ {0} /\ v.lbe \in BOOLEAN
  BY ElementSizes
<1>1. CASE v.type \in Numeric
  <2>1. s \in {4, 8} /\ v.len % s = 0
    BY <1>1, ElementSizes
  <2> HIDE DEF s
  <2>2. v.len = s * (v.len \div s) /\ v.len \div s \in Nat
    BY <1>0, <2>1, ElementOf
  <2>3. TotSize(v) = v.len
    <3>1. TotSize(v) = s * ((v.len + s - 1) \div s)
      BY <1>1 DEF TotSize, s
    <3>2. v.len + s - 1 = s * (v.len \div s) + (s - 1)
      BY <1>0, <2>1, <2>2
    <3>3. (v.len + s - 1) \div s = v.len \div s
      <4> DEFINE l == v.len + s - 1
                 q == v.len \div s
      <4>1. l \in Nat /\ s - 1 \in 0 .. (s - 1) /\ q \in Nat /\ l = s * q + (s - 1)
        BY <1>0, <2>1, <2>2, <3>2
      <4> HIDE DEF l, q
      <4>2. l \div s = q
        BY <2>1, <4>1, InElement
      <4> QED
        BY <4>2 DEF l, q
    <3> QED
      BY <2>2, <3>1, <3>3
  <2>4. ASSUME NEW n \in 0 .. (v.len - 1)
        PROVE  /\ Swapped(v, n) \in 0 .. (v.len - 1)
               /\ Swapped(v, Swapped(v, n)) = n
    <3>1. CASE ~v.lbe
      BY <3>1 DEF Swapped
    <3>2. CASE v.lbe
      <4> DEFINE e == n \div s
                 r == n % s
                 m == s * e + (s - 1 - r)
      <4>1. \A i : Swapped(v, i) = s * (i \div s) + s - 1 - (i % s)
        BY <1>1, <3>2 DEF Swapped, s
      <4>2. n \in Nat /\ e \in Nat /\ r \in 0 .. (s - 1) /\ n = s * e + r
        BY <1>0, <2>1, ElementOf
      <4>3. e < v.len \div s
        <5> HIDE DEF e, r
        <5>1. CASE s = 4
          BY <1>0, <2>2, <4>2, <5>1
        <5>2. CASE s = 8
          BY <1>0, <2>2, <4>2, <5>2
        <5> QED
          BY <2>1, <5>1, <5>2
      <4>4. m \in 0 .. (v.len - 1) /\ s - 1 - r \in 0 .. (s - 1) /\ m \in Nat
        <5> HIDE DEF e, r
        <5>1. CASE s = 4
          BY <1>0, <2>2, <4>2, <4>3, <5>1
        <5>2. CASE s = 8
          BY <1>0, <2>2, <4>2, <4>3, <5>2
        <5> QED
          BY <2>1, <5>1, <5>2
      <4>5. m \div s = e /\ m % s = s - 1 - r
        <5> HIDE DEF e, r
        <5> QED
          BY <2>1, <4>2, <4>4, InElement
      <4>6. Swapped(v, n) = m
        <5>1. Swapped(v, n) = s * e + s - 1 - r
          BY <4>1
        <5> HIDE DEF e, r
        <5>2. CASE s = 4
          BY <4>2, <5>1, <5>2
        <5>3. CASE s = 8
          BY <4>2, <5>1, <5>3
        <5> QED
          BY <2>1, <5>2, <5>3
      <4>7. Swapped(v, m) = n
        <5>1. Swapped(v, m) = s * (m \div s) + s - 1 - (m % s)
          BY <4>1
        <5>2. Swapped(v, m) = s * e + s - 1 - (s - 1 - r)
          BY <4>5, <5>1
        <5> HIDE DEF e, r, m
        <5>3. CASE s = 4
          BY <4>2, <5>2, <5>3
        <5>4. CASE s = 8
          BY <4>2, <5>2, <5>4
        <5> QED
          BY <2>1, <5>3, <5>4
      <4> HIDE DEF m
      <4> QED
        BY <4>4, <4>6, <4>7
    <3> QED
      BY <1>0, <3>1, <3>2
  <2> QED
    BY <2>3, <2>4
<1>2. CASE v.type \notin Numeric
  BY <1>2 DEF TotSize, Swapped
<1> QED
  BY <1>1, <1>2

\* What a converter that finished leaves in the memory: the attribute's bytes
\* where the host expects them, and the bytes behind it alone.
Converts(b, v) ==
    \A n \in Memory :
        b[n] = IF n < v.len THEN Swapped(v, n) ELSE Before[n]

Keeps(b, v) == \A n \in Memory : n >= v.len => b[n] = Before[n]

\* What the filter of unitRun leaves of a scalar: the converted bytes, or
\* those of their product.
Shows(b, v) ==
    IF v.factor /\ v.type \in {"INT32", "DOUBLE"}
    THEN \A n \in Memory :
            b[n] = IF n < v.len THEN ProductByte(n, Swapped(v, 0)) ELSE Before[n]
    ELSE Converts(b, v)

ConversionInv ==
    /\ it \in Described
    /\ did \in {"nothing", "copy", "send", "unitRun", "history"}
    /\ Keeps(it_buffer, it)
    /\ did \in {"copy", "send"} => Converts(it_buffer, it)
    /\ did = "unitRun" /\ ~it.vector => Shows(it_buffer, it)
    /\ did = "send" =>
         \A n \in 0 .. (it.len - 1) : back[n] = wire[n]

LEMMA ConversionStart ==
    ASSUME WholeElements, MemoryHolds, ConversionInit
    PROVE  ConversionInv
<1>1. it \in Described
  BY DescriptionTypes DEF ConversionInit
<1> QED
  BY <1>1 DEF ConversionInit, ConversionInv, Keeps

\* What memcpy brings, and what copy() makes of it.
LEMMA Received ==
    ASSUME MemoryHolds, NEW v \in Described, NEW b, Keeps(b, v)
    PROVE  /\ Converts(CopyIn(v, wire, b), v)
           /\ LET read == Memcpy(v, wire, b)
              IN  /\ Keeps(read, v)
                  /\ \A n \in 0 .. (v.len - 1) : read[n] = n
                  /\ Converts(CopyOut(v, read, read), v)
<1> DEFINE read == Memcpy(v, wire, b)
<1>1. v.len \in Nat /\ v.len <= Top + 1 /\ Top \in Nat
  BY ElementSizes DEF MemoryHolds
<1>2. \A n \in 0 .. (v.len - 1) : n \in Memory /\ n < v.len
  BY <1>1 DEF Memory
<1>3. \A n \in Memory : n < v.len => n \in 0 .. (v.len - 1)
  BY <1>1 DEF Memory
<1>4. \A n \in 0 .. (v.len - 1) : read[n] = n
  BY <1>2 DEF Memcpy, wire
<1>5. \A n \in Memory : ~(n < v.len) => n >= v.len
  BY <1>1 DEF Memory
<1>6. \A n \in Memory : n >= v.len => read[n] = b[n]
  BY <1>1 DEF Memcpy, Memory
<1>7. Keeps(read, v)
  BY <1>6 DEF Keeps
<1>8. TotSize(v) = v.len
  BY SwapUndoes
<1>9. \A n \in 0 .. (v.len - 1) : Swapped(v, n) \in 0 .. (v.len - 1)
  BY SwapUndoes
<1>10. Converts(CopyIn(v, wire, b), v)
  <2>1. ASSUME NEW n \in Memory, n < v.len
        PROVE  CopyIn(v, wire, b)[n] = Swapped(v, n)
    <3>1. CopyIn(v, wire, b)[n] = wire[Swapped(v, n)]
      BY <1>8, <2>1 DEF CopyIn
    <3>2. Swapped(v, n) \in Memory
      BY <1>2, <1>3, <1>9, <2>1
    <3> QED
      BY <3>1, <3>2 DEF wire
  <2>2. ASSUME NEW n \in Memory, ~(n < v.len)
        PROVE  CopyIn(v, wire, b)[n] = Before[n]
    <3>1. CopyIn(v, wire, b)[n] = b[n]
      BY <1>8, <2>2 DEF CopyIn
    <3> QED
      BY <1>5, <2>2, <3>1 DEF Keeps
  <2> QED
    BY <2>1, <2>2 DEF Converts
<1>11. Converts(CopyOut(v, read, read), v)
  <2> HIDE DEF read
  <2>1. ASSUME NEW n \in Memory, n < v.len
        PROVE  CopyOut(v, read, read)[n] = Swapped(v, n)
    <3>1. CopyOut(v, read, read)[n] = read[Swapped(v, n)]
      BY <1>8, <2>1 DEF CopyOut
    <3> QED
      BY <1>3, <1>4, <1>9, <2>1, <3>1
  <2>2. ASSUME NEW n \in Memory, ~(n < v.len)
        PROVE  CopyOut(v, read, read)[n] = Before[n]
    <3>1. CopyOut(v, read, read)[n] = read[n]
      BY <1>8, <2>2 DEF CopyOut
    <3> QED
      BY <1>5, <1>7, <2>2, <3>1 DEF Keeps
  <2> QED
    BY <2>1, <2>2 DEF Converts
<1> QED
  BY <1>4, <1>7, <1>10, <1>11

LEMMA ConvertsKeeps ==
    ASSUME NEW v \in Described, NEW b, Converts(b, v), MemoryHolds
    PROVE  Keeps(b, v)
<1>1. v.len \in Nat
  BY ElementSizes
<1>2. \A n \in Memory : n >= v.len => ~(n < v.len)
  BY <1>1 DEF Memory
<1> QED
  BY <1>2 DEF Converts, Keeps

\* Two swaps of the same bytes are none.
LEMMA SwapTwice ==
    ASSUME MemoryHolds, NEW width \in {4, 8}, NEW b, NEW n \in Memory
    PROVE  SwapAt(width, SwapAt(width, b))[n] = b[n]
<1>1. Top \in Nat /\ Top >= 7
  BY DEF MemoryHolds
<1>2. CASE n < width
  <2>1. /\ width - 1 - n \in Memory /\ width - 1 - n < width
        /\ width - 1 - (width - 1 - n) = n
    BY <1>1, <1>2 DEF Memory
  <2> QED
    BY <1>2, <2>1 DEF SwapAt
<1>3. CASE ~(n < width)
  BY <1>3 DEF SwapAt
<1> QED
  BY <1>2, <1>3

\* The filter of unitRun swaps a scalar as copy() does.
LEMMA ScalarConverts ==
    ASSUME MemoryHolds, NEW v \in Described, ~v.vector, NEW b, Keeps(b, v),
           \A n \in 0 .. (v.len - 1) : b[n] = n
    PROVE  Converts(InHostOrder(v, b), v)
<1> DEFINE s == SizeOf[v.type]
<1>1. v.len \in Nat /\ Top \in Nat /\ v.lbe \in BOOLEAN
  BY ElementSizes DEF MemoryHolds
<1>2. CASE v.type \in Numeric /\ v.lbe
  <2>1. s \in {4, 8} /\ v.len = s
    BY <1>2, ElementSizes
  <2>2. InHostOrder(v, b) = SwapAt(s, b)
    BY <1>2 DEF InHostOrder
  <2>3. \A n \in Memory : Swapped(v, n) = s * (n \div s) + s - 1 - (n % s)
    BY <1>2 DEF Swapped
  <2> HIDE DEF s
  <2>4. ASSUME NEW n \in Memory
        PROVE  SwapAt(s, b)[n] =
                   IF n < v.len THEN Swapped(v, n) ELSE Before[n]
    <3>1. CASE n < s
      <4>1. n \in Nat /\ n \in 0 .. (s - 1) /\ s - 1 - n \in 0 .. (v.len - 1)
        BY <1>1, <2>1, <3>1 DEF Memory
      <4>2. n = s * 0 + n
        BY <2>1, <4>1
      <4>3. n \div s = 0 /\ n % s = n
        BY <2>1, <4>1, <4>2, InElement
      <4>4. Swapped(v, n) = s * 0 + s - 1 - n
        BY <2>3, <4>3
      <4>5. Swapped(v, n) = s - 1 - n
        BY <2>1, <4>1, <4>4
      <4>6. SwapAt(s, b)[n] = b[s - 1 - n]
        BY <3>1 DEF SwapAt
      <4> QED
        BY <2>1, <3>1, <4>1, <4>5, <4>6
    <3>2. CASE ~(n < s)
      <4>1. n >= v.len
        BY <1>1, <2>1, <3>2 DEF Memory
      <4> QED
        BY <2>1, <3>2, <4>1 DEF SwapAt, Keeps
    <3> QED
      BY <3>1, <3>2
  <2>5. Converts(SwapAt(s, b), v)
    BY <2>4 DEF Converts
  <2> QED
    BY <2>2, <2>5
<1>3. CASE ~(v.type \in Numeric /\ v.lbe)
  <2>1. InHostOrder(v, b) = b
    BY <1>3 DEF InHostOrder
  <2>2. \A n : Swapped(v, n) = n
    BY <1>3 DEF Swapped
  <2>3. \A n \in Memory : IF n < v.len THEN n \in 0 .. (v.len - 1)
                              ELSE n >= v.len
    BY <1>1 DEF Memory
  <2> QED
    BY <2>1, <2>2, <2>3 DEF Converts, Keeps
<1> QED
  BY <1>2, <1>3

\* It leaves an array alone, and multiplies a scalar after it swapped it.
LEMMA UnitRunConverts ==
    ASSUME MemoryHolds, NEW v \in Described, NEW b, Keeps(b, v),
           \A n \in 0 .. (v.len - 1) : b[n] = n
    PROVE  /\ Keeps(UnitRunFilter(v, b), v)
           /\ ~v.vector => Shows(UnitRunFilter(v, b), v)
<1>1. v.len \in Nat /\ Top \in Nat /\ v.vector \in BOOLEAN
  BY ElementSizes DEF MemoryHolds
<1>2. CASE v.vector
  BY <1>2 DEF UnitRunFilter
<1>3. CASE ~v.vector
  <2> DEFINE c == InHostOrder(v, b)
             s == SizeOf[v.type]
  <2>1. Converts(c, v) /\ UnitRunFilter(v, b) = Multiplied(v, c)
    BY <1>3, ScalarConverts DEF UnitRunFilter
  <2> HIDE DEF c
  <2>2. CASE ~(v.factor /\ v.type \in {"INT32", "DOUBLE"})
    <3>1. Multiplied(v, c) = c
      BY <2>2 DEF Multiplied
    <3> QED
      BY <2>1, <2>2, <3>1, ConvertsKeeps DEF Shows
  <2>3. CASE v.factor /\ v.type \in {"INT32", "DOUBLE"}
    <3>1. v.len = s /\ s \in {4, 8}
      BY <1>3, <2>3, ElementSizes DEF Numeric
    <3>2. Multiplied(v, c) = Scale(s, c)
      BY <2>3 DEF Multiplied
    <3> HIDE DEF s
    <3>3. c[0] = Swapped(v, 0)
      <4>1. 0 \in Memory /\ 0 < v.len
        BY <1>1, <3>1 DEF Memory
      <4> QED
        BY <2>1, <4>1 DEF Converts
    <3>4. ASSUME NEW n \in Memory
          PROVE  Scale(s, c)[n] =
                     IF n < v.len THEN ProductByte(n, Swapped(v, 0)) ELSE Before[n]
      BY <2>1, <3>1, <3>3 DEF Scale, Converts
    <3>5. \A n \in Memory : n >= v.len => ~(n < v.len)
      BY <1>1 DEF Memory
    <3>6. Shows(Scale(s, c), v)
      BY <2>3, <3>4 DEF Shows
    <3>7. Keeps(Scale(s, c), v)
      BY <3>4, <3>5 DEF Keeps
    <3> QED
      BY <2>1, <3>2, <3>6, <3>7
  <2> QED
    BY <2>2, <2>3
<1> QED
  BY <1>1, <1>2, <1>3

\* The cases that fall through leave what is behind the attribute alone,
\* although two of their swaps reach beyond an INT32.
LEMMA HistoryKeeps ==
    ASSUME MemoryHolds, NEW v \in Described, NEW b, Keeps(b, v)
    PROVE  Keeps(HistoryFilter(v, b), v)
<1>1. v.len \in Nat /\ Top \in Nat /\ v.lbe \in BOOLEAN /\ v.vector \in BOOLEAN
  BY ElementSizes DEF MemoryHolds
<1>2. ASSUME NEW width \in {4, 8}, v.len = width PROVE Keeps(SwapAt(width, b), v)
  <2>1. \A n \in Memory : n >= v.len => ~(n < width)
    BY <1>1, <1>2 DEF Memory
  <2> QED
    BY <2>1 DEF Keeps, SwapAt
<1>3. ASSUME NEW width \in {4, 8}, NEW c, Keeps(c, v)
      PROVE  Keeps(SwapAt(width, SwapAt(width, c)), v)
  BY <1>3, SwapTwice DEF Keeps
<1>4. CASE v.vector \/ ~v.lbe
  BY <1>1, <1>4 DEF HistoryFilter
<1>5. CASE ~v.vector /\ v.lbe
  <2>1. CASE v.type = "INT32"
    <3>1. v.len = 4
      BY <1>5, <2>1, ElementSizes DEF Numeric, SizeOf
    <3>2. HistoryFilter(v, b) = SwapAt(8, SwapAt(8, SwapAt(4, b)))
      BY <1>5, <2>1 DEF HistoryFilter, Numeric
    <3> QED
      BY <1>2, <1>3, <3>1, <3>2
  <2>2. CASE v.type = "INT64"
    <3>1. HistoryFilter(v, b) = SwapAt(8, SwapAt(8, b))
      BY <1>5, <2>2 DEF HistoryFilter, Numeric
    <3> QED
      BY <1>3, <3>1
  <2>3. CASE v.type = "DOUBLE"
    <3>1. v.len = 8
      BY <1>5, <2>3, ElementSizes DEF Numeric, SizeOf
    <3>2. HistoryFilter(v, b) = SwapAt(8, b)
      BY <1>5, <2>3 DEF HistoryFilter, Numeric
    <3> QED
      BY <1>2, <3>1, <3>2
  <2>4. CASE v.type \notin Numeric
    BY <1>5, <2>4 DEF HistoryFilter, Numeric
  <2> QED
    BY <2>1, <2>2, <2>3, <2>4 DEF Numeric
<1> QED
  BY <1>1, <1>4, <1>5

LEMMA ConversionStep ==
    ASSUME MemoryHolds, ConversionInv, [ConversionNext]_conversionVars
    PROVE  ConversionInv'
<1> DEFINE v == it
           read == Memcpy(v, wire, it_buffer)
<1>1. v \in Described /\ Keeps(it_buffer, v) /\ v.vector \in BOOLEAN
  BY ElementSizes DEF ConversionInv
<1>2. Keeps(read, v) /\ \A n \in 0 .. (v.len - 1) : read[n] = n
  BY <1>1, Received
<1>3. ASSUME v' = v, Converts(it_buffer', v), did' = "copy"
      PROVE  ConversionInv'
  <2>1. Keeps(it_buffer', v)
    BY <1>1, <1>3, ConvertsKeeps
  <2> QED
    BY <1>1, <1>3, <2>1 DEF ConversionInv, Converts, Keeps
<1>4. CASE Receive
  <2>1. Converts(CopyIn(v, wire, it_buffer), v)
    BY <1>1, Received
  <2> QED
    BY <1>3, <1>4, <2>1 DEF Receive
<1>5. CASE UpdateProperty
  <2>1. Converts(CopyOut(v, read, read), v)
    BY <1>1, Received
  <2> QED
    BY <1>3, <1>5, <2>1 DEF UpdateProperty
<1>6. CASE Send
  <2>1. /\ did' = "send" /\ it_buffer' = it_buffer /\ v' = v
        /\ back' = CopyOut(v, it_buffer, back) /\ did = "copy"
    BY <1>6 DEF Send
  <2>2. Converts(it_buffer, v)
    BY <2>1 DEF ConversionInv
  <2>3. ASSUME NEW n \in 0 .. (v.len - 1) PROVE back'[n] = wire[n]
    <3>1. v.len \in Nat /\ v.len <= Top + 1 /\ Top \in Nat
      BY <1>1, ElementSizes DEF MemoryHolds
    <3>2. /\ TotSize(v) = v.len
          /\ Swapped(v, n) \in 0 .. (v.len - 1)
          /\ Swapped(v, Swapped(v, n)) = n
      BY <1>1, SwapUndoes
    <3>3. \A m \in 0 .. (v.len - 1) : m \in Memory /\ m < v.len
      BY <3>1 DEF Memory
    <3>4. back'[n] = it_buffer[Swapped(v, n)]
      BY <2>1, <3>2, <3>3 DEF CopyOut
    <3>5. it_buffer[Swapped(v, n)] = n
      BY <2>2, <3>2, <3>3 DEF Converts
    <3> QED
      BY <3>3, <3>4, <3>5 DEF wire
  <2> QED
    BY <1>1, <2>1, <2>2, <2>3 DEF ConversionInv, Converts, Keeps
<1>7. CASE UnitRun
  <2>1. /\ it_buffer' = UnitRunFilter(v, read) /\ did' = "unitRun"
        /\ v' = v
    BY <1>7 DEF UnitRun
  <2>2. /\ Keeps(it_buffer', v)
        /\ ~v.vector => Shows(it_buffer', v)
    <3> HIDE DEF read
    <3> QED
      BY <1>1, <1>2, <2>1, UnitRunConverts
  <2> QED
    BY <1>1, <2>1, <2>2 DEF ConversionInv, Shows, Converts, Keeps
<1>8. CASE HistoryUnitRun
  <2>1. /\ it_buffer' = HistoryFilter(v, read) /\ did' = "history"
        /\ v' = v
    BY <1>8 DEF HistoryUnitRun
  <2>2. Keeps(it_buffer', v)
    <3> HIDE DEF read
    <3> QED
      BY <1>1, <1>2, <2>1, HistoryKeeps
  <2> QED
    BY <1>1, <2>1, <2>2 DEF ConversionInv, Converts, Keeps
<1>9. CASE UNCHANGED conversionVars
  BY <1>9 DEF conversionVars, ConversionInv, Shows, Converts, Keeps
<1> QED
  BY <1>4, <1>5, <1>6, <1>7, <1>8, <1>9 DEF ConversionNext

\* What the converters keep to, whatever ran before: the bytes behind the
\* attribute, after copy() the attribute itself, and after unitRun a scalar
\* or its product.
THEOREM ConversionInvariant ==
    ASSUME WholeElements, MemoryHolds
    PROVE  ConversionSpec => []ConversionInv
<1>1. ConversionInit => ConversionInv
  BY ConversionStart
<1>2. ConversionInv /\ [ConversionNext]_conversionVars => ConversionInv'
  BY ConversionStep
<1> QED
  BY <1>1, <1>2, PTL DEF ConversionSpec

\* What copy() brought in and copy() sends out again is the block, byte by
\* byte, for every type, byte order and number of elements.
THEOREM RoundTrips ==
    ASSUME WholeElements, MemoryHolds
    PROVE  ConversionSpec => []RoundTrip
<1>1. ConversionInv => RoundTrip
  BY DEF ConversionInv, RoundTrip
<1> QED
  BY <1>1, ConversionInvariant, PTL

\* No converter changes a byte behind the attribute, the swaps that fall
\* through in the history included.
THEOREM NeighboursStay ==
    ASSUME WholeElements, MemoryHolds
    PROVE  ConversionSpec => []NeighboursKept
<1>1. ConversionInv => NeighboursKept
  BY DEF ConversionInv, Keeps, NeighboursKept
<1> QED
  BY <1>1, ConversionInvariant, PTL

\* The elements of the reference are those of the byte-wise swap.
LEMMA ElementsConverted ==
    ASSUME MemoryHolds, NEW v \in Described, NEW b, Converts(b, v)
    PROVE  /\ v.type \in Numeric =>
                DOMAIN HostElements(v) = 1 .. (v.len \div SizeOf[v.type])
           /\ \A e \in DOMAIN HostElements(v) :
                /\ HostElements(v)[e] =
                      [n \in 1 .. ElementSize(v) |->
                          b[ElementSize(v) * (e - 1) + n - 1]]
<1> DEFINE s == ElementSize(v)
           Index(e, n) == s * (e - 1) + n - 1
<1>1. /\ v.len \in Nat \ {0} /\ v.len <= Top + 1 /\ Top \in Nat
      /\ v.lbe \in BOOLEAN
  BY ElementSizes DEF MemoryHolds
<1>2. DOMAIN HostElements(v) = 1 .. (v.len \div s)
  BY DEF HostElements, Elements
<1>3. CASE v.type \in Numeric
  <2>1. s \in {4, 8} /\ v.len % s = 0 /\ s = SizeOf[v.type]
    BY <1>3, ElementSizes DEF ElementSize
  <2>2. \A n : Swapped(v, n) =
                  IF v.lbe THEN s * (n \div s) + s - 1 - (n % s) ELSE n
    BY <1>3 DEF Swapped, ElementSize
  <2>3. \A e \in 1 .. (v.len \div s) :
           Elements(v)[e] = [n \in 1 .. s |-> Index(e, n)]
    BY DEF Elements
  <2>4. \A e \in 1 .. (v.len \div s) :
           HostElements(v)[e] =
               IF v.lbe THEN Reverse(Elements(v)[e]) ELSE Elements(v)[e]
    BY <1>2, <1>3 DEF HostElements, Elements
  <2>5. v.len = s * (v.len \div s) /\ v.len \div s \in Nat
    BY <1>1, <2>1, ElementOf
  <2> HIDE DEF s
  <2>6. ASSUME NEW e \in 1 .. (v.len \div s), NEW n \in 1 .. s
        PROVE  b[Index(e, n)] = IF v.lbe THEN Index(e, s + 1 - n) ELSE Index(e, n)
    <3> DEFINE q == v.len \div s
    <3>1. /\ Index(e, n) \in 0 .. (v.len - 1)
          /\ Index(e, n) = s * (e - 1) + (n - 1)
          /\ e - 1 \in Nat /\ n - 1 \in 0 .. (s - 1)
      <4> HIDE DEF q
      <4>0. v.len = s * q /\ q \in Nat /\ e \in 1 .. q
        BY <2>5 DEF q
      <4>1. CASE s = 4
        BY <1>1, <4>0, <4>1
      <4>2. CASE s = 8
        BY <1>1, <4>0, <4>2
      <4> QED
        BY <2>1, <4>1, <4>2
    <3>2. Index(e, n) \in Memory /\ Index(e, n) < v.len
      BY <1>1, <3>1 DEF Memory
    <3>3. b[Index(e, n)] = Swapped(v, Index(e, n))
      BY <3>2 DEF Converts
    <3> HIDE DEF Index
    <3>4. Index(e, n) \div s = e - 1 /\ Index(e, n) % s = n - 1
      <4> DEFINE m == Index(e, n)
                 e1 == e - 1
                 n1 == n - 1
      <4>1. m \in Nat /\ e1 \in Nat /\ n1 \in 0 .. (s - 1) /\ m = s * e1 + n1
        BY <1>1, <3>1
      <4> HIDE DEF m, e1, n1
      <4>2. /\ m \div s = e1
            /\ m % s = n1
        <5>1. CASE s = 4
          BY <4>1, <5>1
        <5>2. CASE s = 8
          BY <4>1, <5>2
        <5> QED
          BY <2>1, <5>1, <5>2
      <4> QED
        BY <4>2 DEF m, e1, n1
    <3>5. CASE v.lbe
      <4>1. Swapped(v, Index(e, n)) = s * (e - 1) + s - 1 - (n - 1)
        BY <2>2, <3>4, <3>5
      <4>2. s * (e - 1) + s - 1 - (n - 1) = Index(e, s + 1 - n)
        <5>1. CASE s = 4
          BY <5>1 DEF Index
        <5>2. CASE s = 8
          BY <5>2 DEF Index
        <5> QED
          BY <2>1, <5>1, <5>2
      <4> QED
        BY <3>3, <3>5, <4>1, <4>2
    <3>6. CASE ~v.lbe
      BY <2>2, <3>3, <3>6
    <3> QED
      BY <3>5, <3>6
  <2>7. ASSUME NEW e \in 1 .. (v.len \div s)
        PROVE  HostElements(v)[e] = [n \in 1 .. s |-> b[Index(e, n)]]
    <3>1. CASE v.lbe
      <4> DEFINE seq == [n \in 1 .. s |-> Index(e, n)]
      <4>1. HostElements(v)[e] = Reverse(seq)
        BY <2>3, <2>4, <3>1
      <4>2. Len(seq) = s
        BY <2>1
      <4>3. Reverse(seq) = [n \in 1 .. s |-> seq[(s - n) + 1]]
        <5> HIDE DEF seq, Index
        <5>1. Reverse(seq) = [n \in 1 .. Len(seq) |-> seq[(Len(seq) - n) + 1]]
          BY DEF Reverse
        <5> QED
          BY <4>2, <5>1
      <4>4. \A n \in 1 .. s : (s - n) + 1 \in 1 .. s /\ (s - n) + 1 = s + 1 - n
        BY <2>1
      <4>5. \A n \in 1 .. s : seq[(s - n) + 1] = Index(e, s + 1 - n)
        BY <4>4
      <4> HIDE DEF seq, Index
      <4>6. \A n \in 1 .. s : seq[(s - n) + 1] = b[Index(e, n)]
        BY <2>6, <3>1, <4>5
      <4> QED
        BY <4>1, <4>3, <4>6
    <3>2. CASE ~v.lbe
      <4> HIDE DEF Index
      <4> QED
        BY <2>3, <2>4, <2>6, <3>2
    <3> QED
      BY <3>1, <3>2
  <2> QED
    BY <1>2, <2>1, <2>7 DEF s
<1>4. CASE v.type \notin Numeric
  <2>1. s = v.len
    BY <1>4 DEF ElementSize
  <2>2. v.len \div s = 1
    BY <1>1, <2>1
  <2>3. ASSUME NEW e \in 1 .. (v.len \div s)
        PROVE  HostElements(v)[e] = [n \in 1 .. s |-> Index(e, n)]
    BY <1>4 DEF HostElements, Elements
  <2>4. ASSUME NEW e \in 1 .. (v.len \div s), NEW n \in 1 .. s
        PROVE  b[Index(e, n)] = Index(e, n)
    <3>1. e = 1
      BY <2>2, <2>4
    <3>2. Index(e, n) \in Memory /\ Index(e, n) < v.len
      BY <1>1, <2>1, <3>1 DEF Memory
    <3> QED
      BY <1>4, <3>2 DEF Converts, Swapped
  <2> QED
    BY <1>2, <1>4, <2>3, <2>4
<1> QED
  BY <1>3, <1>4

\* The filter of unitRun leaves a scalar in the order of the host, and one
\* with a factor multiplied after it was converted.
THEOREM HostOrderHolds ==
    ASSUME WholeElements, MemoryHolds
    PROVE  ConversionSpec => []HostOrderDelivered
<1>1. ConversionInv => HostOrderDelivered
  <2> DEFINE v == it
             s == ElementSize(v)
             c == [n \in Memory |-> IF n < v.len THEN Swapped(v, n) ELSE Before[n]]
  <2> SUFFICES ASSUME ConversionInv, did = "unitRun", ~v.vector
               PROVE  Holds(v, it_buffer, Shown(v))
    BY DEF HostOrderDelivered
  <2>1. v \in Described /\ Shows(it_buffer, v)
    BY DEF ConversionInv
  <2>2. CASE ~(v.factor /\ v.type \in {"INT32", "DOUBLE"})
    <3>1. Converts(it_buffer, v) /\ Shown(v) = HostElements(v)
      BY <2>1, <2>2 DEF Shows, Shown
    <3>2. \A e \in DOMAIN HostElements(v) :
             HostElements(v)[e] =
                 [n \in 1 .. s |-> it_buffer[s * (e - 1) + n - 1]]
      BY <2>1, <3>1, ElementsConverted
    <3> HIDE DEF c
    <3>3. Holds(v, it_buffer, HostElements(v))
      BY <3>2 DEF Holds
    <3> QED
      BY <3>1, <3>3
  <2>3. CASE v.factor /\ v.type \in {"INT32", "DOUBLE"}
    <3>1. /\ s = SizeOf[v.type] /\ s \in {4, 8} /\ v.len = s
          /\ Top \in Nat /\ v.len <= Top + 1 /\ v.type \in Numeric
      BY <2>1, <2>3, ElementSizes DEF ElementSize, Numeric, MemoryHolds
    <3>2. Converts(c, v)
      BY DEF Converts
    <3>3. /\ DOMAIN HostElements(v) = 1 .. (v.len \div s)
          /\ \A e \in DOMAIN HostElements(v) :
                HostElements(v)[e] = [n \in 1 .. s |-> c[s * (e - 1) + n - 1]]
      <4> HIDE DEF c
      <4> QED
        BY <2>1, <3>1, <3>2, ElementsConverted
    <3>4. DOMAIN HostElements(v) = {1}
      <4>1. 4 \div 4 = 1 /\ 8 \div 8 = 1 /\ 1 .. 1 = {1}
        OBVIOUS
      <4> QED
        BY <3>1, <3>3, <4>1
    <3>5. c[0] = Swapped(v, 0)
      <4>1. 0 \in Memory /\ 0 < v.len
        BY <3>1 DEF Memory
      <4> QED
        BY <4>1
    <3> HIDE DEF c, s
    <3>6. /\ DOMAIN HostElements(v)[1] = 1 .. s
          /\ HostElements(v)[1][1] = Swapped(v, 0)
      <4>1. HostElements(v)[1] = [n \in 1 .. s |-> c[s * (1 - 1) + n - 1]]
        BY <3>3, <3>4
      <4>2. 1 \in 1 .. s /\ s * (1 - 1) + 1 - 1 = 0
        BY <3>1
      <4> QED
        BY <3>5, <4>1, <4>2
    <3>7. /\ DOMAIN Shown(v) = {1} /\ DOMAIN Shown(v)[1] = 1 .. s
          /\ \A n \in 1 .. s : Shown(v)[1][n] = ProductByte(n - 1, Swapped(v, 0))
      BY <2>3, <3>4, <3>6 DEF Shown
    <3>8. ASSUME NEW n \in 1 .. s
          PROVE  it_buffer[s * (1 - 1) + n - 1] = ProductByte(n - 1, Swapped(v, 0))
      <4>1. s * (1 - 1) + n - 1 = n - 1 /\ n - 1 \in Memory /\ n - 1 < v.len
        BY <3>1 DEF Memory
      <4> QED
        BY <2>1, <2>3, <4>1 DEF Shows
    <3> QED
      BY <3>7, <3>8 DEF Holds, s
  <2> QED
    BY <2>2, <2>3
<1> QED
  BY <1>1, ConversionInvariant, PTL

\* attribute2CDW publishes those elements.
THEOREM ValuesArePublished ==
    ASSUME WholeElements, MemoryHolds
    PROVE  ConversionSpec => []ValuesPublished
<1>1. ConversionInv => ValuesPublished
  <2> DEFINE v == it
             s == SizeOf[v.type]
  <2> SUFFICES ASSUME ConversionInv, did = "copy", v.type \in Numeric
               PROVE  Attribute2CDW(v, it_buffer) = HostElements(v)
    BY DEF ValuesPublished
  <2>1. v \in Described /\ Converts(it_buffer, v)
    BY DEF ConversionInv
  <2>2. /\ DOMAIN HostElements(v) = 1 .. (v.len \div s)
        /\ \A e \in DOMAIN HostElements(v) :
              HostElements(v)[e] =
                 [n \in 1 .. ElementSize(v) |->
                     it_buffer[ElementSize(v) * (e - 1) + n - 1]]
    BY <2>1, ElementsConverted
  <2>3. ElementSize(v) = s /\ s \in {4, 8} /\ (~v.vector => v.len = s)
    BY <2>1, ElementSizes DEF ElementSize
  <2>4. v.len \div s = IF v.vector THEN v.len \div s ELSE 1
    <3>1. 4 \div 4 = 1 /\ 8 \div 8 = 1
      OBVIOUS
    <3> QED
      BY <2>3, <3>1
  <2>5. Attribute2CDW(v, it_buffer) =
            [e \in 1 .. (v.len \div s) |->
                [n \in 1 .. s |-> it_buffer[s * (e - 1) + n - 1]]]
    BY <2>4 DEF Attribute2CDW
  <2>6. HostElements(v) =
            [e \in DOMAIN HostElements(v) |-> HostElements(v)[e]]
    BY DEF HostElements
  <2> QED
    BY <2>2, <2>3, <2>5, <2>6
<1> QED
  BY <1>1, ConversionInvariant, PTL
===============================================================================

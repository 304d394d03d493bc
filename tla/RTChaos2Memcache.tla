--------------------------- MODULE RTChaos2Memcache ---------------------------
(***************************************************************************)
(* The unit that copies the output attributes of a remote dataset, one     *)
(* after the other, into a buffer and stores the buffer under one          *)
(* memcached key.  The remote attributes change their size at any time;    *)
(* the buffer grows when one no longer fits.                               *)
(***************************************************************************)
EXTENDS Integers, Sequences

CONSTANTS
    rattrs,       \* the attributes of the data group: [output, declared]
    Sizes         \* sizes an attribute's value may have

ASSUME RattrsAssumption ==
    rattrs \in Seq([output : BOOLEAN, declared : Nat])

ASSUME SizesAssumption == Sizes \subseteq Nat

\* The bytes the first i attributes' outputs were declared with.
DeclaredUpTo[i \in 0 .. Len(rattrs)] ==
    IF i = 0 THEN 0
    ELSE DeclaredUpTo[i - 1] + (IF rattrs[i].output THEN rattrs[i].declared ELSE 0)

Declared == DeclaredUpTo[Len(rattrs)]

VARIABLES
    current,      \* the size of each remote attribute's value
    phase,        \* "down", "ready", "run", "failed" (unitInit threw) or
                  \* "ended": the process is gone
    mc_client,    \* "uninitialized", "live" or "NULL"
    buffer,       \* the allocated bytes, a function on 0 .. allocated - 1
    allocated,    \* what malloc or realloc was asked for last
    size,         \* the member that unitRun compares with
    ri,           \* unitRun's iterator over rattrs
    off,          \* unitRun's count of bytes copied
    row,          \* history: what this run copied, and where
    stored        \* what the server holds under the key, and whose row it is

vars == <<current, phase, mc_client, buffer, allocated, size, ri, off, row,
          stored>>
memory == <<buffer, allocated, size>>

Attr == 1 .. Len(rattrs)

Byte(a, i) == [attr |-> a, idx |-> i]
Junk == Byte(0, 0)

Nothing == [i \in {} |-> Junk]

Init ==
    /\ current = [a \in Attr |-> rattrs[a].declared]
    /\ phase = "down"
    /\ mc_client = "uninitialized"
    /\ buffer = Nothing
    /\ allocated = 0
    /\ size = 0
    /\ ri = 1
    /\ off = 0
    /\ row = <<>>
    /\ stored = [value |-> Nothing, row |-> <<>>, pushed |-> FALSE]

-----------------------------------------------------------------------------
\* A remote attribute is written with a value of another size; only the
\* outputs are ever looked at.
Resize(a, n) ==
    /\ rattrs[a].output
    /\ n # current[a]
    /\ current' = [current EXCEPT ![a] = n]
    /\ UNCHANGED <<phase, mc_client, memory, ri, off, row, stored>>

\* unitInit: size counts on from what it was; a buffer is allocated only for
\* a dataset with output bytes.
UnitInit ==
    /\ phase = "down"
    /\ phase' = "ready"
    /\ mc_client' = "live"
    /\ size' = 2 * (size + Declared)
    /\ allocated' = IF size' = 0 THEN allocated ELSE size'
    /\ buffer' = IF size' = 0 THEN buffer ELSE [i \in 0 .. (size' - 1) |-> Junk]
    /\ UNCHANGED <<current, ri, off, row, stored>>

\* unitInit throws before the client is asked for (no url or no key), when
\* there is none, or after (a server that cannot be added); the framework then
\* calls unitDeinit.
UnitInitThrows ==
    /\ phase = "down"
    /\ phase' = "failed"
    /\ mc_client' \in {mc_client, "NULL", "live"}
    /\ UNCHANGED <<current, memory, ri, off, row, stored>>

\* Seeded fault: the iterator starts before the first attribute.
StartBeforeFirst ==
    /\ phase = "ready"
    /\ phase' = "run"
    /\ ri' = 0
    /\ off' = 0
    /\ row' = <<>>
    /\ UNCHANGED <<current, mc_client, memory, stored>>

StartRun ==
    /\ phase = "ready"
    /\ phase' = "run"
    /\ ri' = 1
    /\ off' = 0
    /\ row' = <<>>
    /\ UNCHANGED <<current, mc_client, memory, stored>>

SkipInput ==
    /\ phase = "run"
    /\ ri \in Attr
    /\ ~rattrs[ri].output
    /\ ri' = ri + 1
    /\ UNCHANGED <<current, phase, mc_client, memory, off, row, stored>>

\* off + siz >= size.  Seeded fault: only this attribute's size looked at.
ForgetsOffset(n) == n >= size
MustGrow(n) == off + n >= size

Grown(n) == off + n + size

\* realloc keeps what was there.  Seeded fault: a new buffer instead.
MallocAnew(n) == [i \in 0 .. (n - 1) |-> Junk]
Realloc(n) ==
    [i \in 0 .. (n - 1) |-> IF i < allocated THEN buffer[i] ELSE Junk]

CopyInto(b, a, n) ==
    [i \in DOMAIN b |-> IF i >= off /\ i < off + n THEN Byte(a, i - off) ELSE b[i]]

CopyOutput ==
    /\ phase = "run"
    /\ ri \in Attr
    /\ rattrs[ri].output
    /\ LET n == current[ri] IN
       /\ IF MustGrow(n)
          THEN /\ size' = Grown(n)
               /\ allocated' = size'
               /\ buffer' = CopyInto(Realloc(size'), ri, n)
          ELSE /\ buffer' = CopyInto(buffer, ri, n)
               /\ UNCHANGED <<allocated, size>>
       /\ off' = off + n
       /\ row' = Append(row, [attr |-> ri, at |-> off, siz |-> n])
    /\ ri' = ri + 1
    /\ UNCHANGED <<current, phase, mc_client, stored>>

\* memcached_set with NO_BLOCK and NOREPLY: the request may get lost, and
\* its result is not looked at.
Push ==
    /\ phase = "run"
    /\ ri \notin Attr
    /\ phase' = "ready"
    /\ stored' \in {stored,
                    [value |-> [i \in 0 .. (off - 1) |->
                                   IF i < allocated THEN buffer[i] ELSE Junk],
                     row |-> row, pushed |-> TRUE]}
    /\ UNCHANGED <<current, mc_client, memory, ri, off, row>>

UnitDeinit ==
    /\ phase \in {"ready", "failed"}
    /\ phase' = "down"
    /\ mc_client' = "NULL"
    /\ IF allocated = 0
       THEN UNCHANGED memory
       ELSE size' = 0 /\ allocated' = 0 /\ buffer' = Nothing
    /\ UNCHANGED <<current, ri, off, row, stored>>

\* The constructor leaves mc_client as the memory was: after a unitInit that
\* threw before it made one, unitDeinit frees whatever stands there.
FreeUninitialized ==
    /\ phase = "failed"
    /\ mc_client = "uninitialized"
    /\ phase' = "ended"
    /\ UNCHANGED <<current, mc_client, memory, ri, off, row, stored>>

Next ==
    \/ \E a \in Attr, n \in Sizes : Resize(a, n)
    \/ UnitInit
    \/ UnitInitThrows
    \/ StartRun
    \/ SkipInput
    \/ CopyOutput
    \/ Push
    \/ UnitDeinit
    \/ FreeUninitialized

Spec == Init /\ [][Next]_vars

-----------------------------------------------------------------------------
TypeOK ==
    /\ current \in [Attr -> Nat]
    /\ phase \in {"down", "ready", "run", "failed", "ended"}
    /\ mc_client \in {"uninitialized", "live", "NULL"}
    /\ allocated \in Nat
    /\ size \in Nat
    /\ ri \in 1 .. (Len(rattrs) + 1)
    /\ off \in Nat

\* However the attributes change their sizes, even in the middle of a run
\* and across a restart of the unit, no memcpy of unitRun leaves the buffer:
\* size is what is really allocated, and what was copied lies inside.
CopyInsideBuffer ==
    /\ size = allocated
    /\ phase = "run" => off <= allocated

\* What the server holds is the row of one run, whole: every output of the
\* data group is in it, in the group's order, each right behind the one
\* before, and the value ends with the last.  Nothing of an earlier run stands
\* between them, and nothing was lost when the buffer moved.
StoredRowWhole ==
    LET sent == stored.row
        end(r) == IF r = 0 THEN 0 ELSE sent[r].at + sent[r].siz
    IN  stored.pushed =>
          /\ \A a \in Attr : rattrs[a].output =>
                \E r \in DOMAIN sent : sent[r].attr = a
          /\ \A r \in DOMAIN sent :
                /\ rattrs[sent[r].attr].output
                /\ r > 1 => sent[r - 1].attr < sent[r].attr
                /\ sent[r].at = end(r - 1)
                /\ \A i \in 0 .. (sent[r].siz - 1) :
                      stored.value[sent[r].at + i] = Byte(sent[r].attr, i)
          /\ DOMAIN stored.value = 0 .. (end(Len(sent)) - 1)
==============================================================================

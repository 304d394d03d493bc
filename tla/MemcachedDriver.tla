--------------------------- MODULE MemcachedDriver ---------------------------
(***************************************************************************)
(* The driver that copies values from a memcached server into one block of *)
(* memory: AbstractDataImportDriver (the block, the per-key refresh        *)
(* throttle, the reads) with MemcachedDataImporterDriver (the loop over    *)
(* data_keys that packs the values one after the other).                   *)
(*                                                                         *)
(* The server, the network and the clock are the environment.  A byte is   *)
(* not a number here but a tag: which key, which version of its value and  *)
(* which position of that value it was copied from.                        *)
(***************************************************************************)
EXTENDS Integers, Sequences

CONSTANTS
    Key,               \* the memcached keys
    NoKey,             \* the empty string: "fetch everything", "no keybind"
    data_keys,         \* the configured vector of keys, in fetch order
    data_pack_len,     \* bytes of the block (growMem in driverInit)
    Uint32,            \* how many values a uint32_t has (few in the runs)
    maxUpdateRefresh,  \* the throttle window, in clock ticks
    Lengths,           \* lengths a value on the server may have
    FetchArg,          \* arguments with which the clients call fetch
    Flaky,             \* keys whose server may stop answering
    MaxVersion         \* bound: how often each value is replaced

ASSUME KeyAssumption == NoKey \notin Key
ASSUME ConfigAssumption ==
    /\ data_keys \in Seq(Key)
    /\ data_pack_len \in Nat
    /\ maxUpdateRefresh \in Nat
    /\ FetchArg \subseteq Key \cup {NoKey}
ASSUME WidthAssumption == Uint32 \in Nat /\ data_pack_len < Uint32
ASSUME ServerAssumption ==
    /\ Lengths \subseteq Nat \ {0}
    /\ Flaky \subseteq Key
    /\ MaxVersion \in Nat

VARIABLES
    server,            \* what the server stores under each key
    up,                \* the keys whose server answers a get
    age,               \* ticks since last_fetch[key] (saturating)
    buffer_data_block,
    key2off,           \* offset of each key in the block
    data_results,      \* "result of key": what the last get reported
    answer,            \* history: the value the last successful get returned
    pc,                \* "idle", or "get" inside the loop of fetchData
    fkey,              \* fetchData's parameter key
    it,                \* fetchData's iterator over data_keys
    tot_size,          \* fetchData's count of bytes packed so far
    room               \* fetchData's parameter buffer_len, which shadows the
                       \* member and is decremented as the block fills

envVars == <<server, up>>
blockVars == <<buffer_data_block, key2off, data_results, answer>>
loopVars == <<pc, fkey, it, tot_size, room>>
driverVars == <<server, up, age, buffer_data_block, key2off, data_results,
                answer, pc, fkey, it, tot_size, room>>

MapKey == Key \cup {NoKey}

\* A stored value; version 0 means that nothing is stored under the key.
Value == [ver : Nat, len : Nat]
NoValue == [ver |-> 0, len |-> 0]

Cell == [key : MapKey, ver : Nat, idx : Nat]
Byte(k, v, i) == [key |-> k, ver |-> v.ver, idx |-> i]

\* Memory nobody wrote: what realloc returned, or lies beyond the block.
Junk == [key |-> NoKey, ver |-> 0, idx |-> 0]

Block == 0 .. (data_pack_len - 1)

\* std::map::operator[] inserts offset 0 and result false for a key it does
\* not hold, so both maps are total functions with these defaults.
Init ==
    /\ server = [k \in Key |-> NoValue]
    /\ up = Key
    /\ age = [k \in MapKey |-> maxUpdateRefresh + 1]
    /\ buffer_data_block = [i \in Block |-> Junk]
    /\ key2off = [k \in MapKey |-> 0]
    /\ data_results = [k \in MapKey |-> FALSE]
    /\ answer = [k \in Key |-> NoValue]
    /\ pc = "idle"
    /\ fkey = NoKey
    /\ it = 1
    /\ tot_size = 0
    /\ room = data_pack_len

-----------------------------------------------------------------------------
(* The environment: the process that stores the values, the servers that   *)
(* stop answering and come back, the clock.                                *)

Store(k, l) ==
    /\ server[k].ver < MaxVersion
    /\ server' = [server EXCEPT ![k] = [ver |-> server[k].ver + 1, len |-> l]]
    /\ UNCHANGED <<up, age, blockVars, loopVars>>

Outage(k) ==
    /\ k \in up
    /\ up' = up \ {k}
    /\ UNCHANGED <<server, age, blockVars, loopVars>>

Recover(k) ==
    /\ k \notin up
    /\ up' = up \cup {k}
    /\ UNCHANGED <<server, age, blockVars, loopVars>>

\* Only whether an age exceeds maxUpdateRefresh matters, so it stops there.
Tick ==
    /\ \E k \in FetchArg : age[k] <= maxUpdateRefresh
    /\ age' = [k \in MapKey |-> IF age[k] <= maxUpdateRefresh
                                THEN age[k] + 1 ELSE age[k]]
    /\ UNCHANGED <<envVars, blockVars, loopVars>>

Environment ==
    \/ \E k \in Key, l \in Lengths : Store(k, l)
    \/ \E k \in Flaky : Outage(k) \/ Recover(k)
    \/ Tick

-----------------------------------------------------------------------------
(* fetch(key).  The time stamp is taken before the data is asked for, and  *)
(* stays when nothing arrives.  Within the window fetch returns 0 too, and *)
(* the caller reads the block as the previous pass left it.                *)

Due(key) == age[key] > maxUpdateRefresh

StartFetch(key) ==
    /\ pc = "idle"
    /\ Due(key)
    /\ age' = [age EXCEPT ![key] = 0]
    /\ pc' = "get"
    /\ fkey' = key
    /\ it' = 1
    /\ tot_size' = 0
    /\ room' = data_pack_len
    /\ UNCHANGED <<envVars, blockVars>>

\* One iteration of the loop in fetchData: it never stops early, and it
\* returns 0 whatever the gets returned.
AtKey(k) ==
    /\ pc = "get"
    /\ it <= Len(data_keys)
    /\ k = data_keys[it]

Wanted(k) == fkey = NoKey \/ fkey = k

Answers(k) == k \in up /\ server[k].ver > 0

PassOver(k) ==
    /\ AtKey(k)
    /\ ~Wanted(k)
    /\ it' = it + 1
    /\ UNCHANGED <<envVars, age, blockVars, pc, fkey, tot_size, room>>

\* Seeded fault: a miss leaves the result of the key's last get standing.
MissKeepsResult(k) ==
    /\ AtKey(k)
    /\ Wanted(k)
    /\ ~Answers(k)
    /\ it' = it + 1
    /\ UNCHANGED <<envVars, age, blockVars, pc, fkey, tot_size, room>>

\* Seeded fault: a miss marks the key's place in the block with -1.
MissMarksOffset(k) ==
    /\ AtKey(k)
    /\ Wanted(k)
    /\ ~Answers(k)
    /\ data_results' = [data_results EXCEPT ![k] = FALSE]
    /\ key2off' = [key2off EXCEPT ![k] = -1]
    /\ it' = it + 1
    /\ UNCHANGED <<envVars, age, buffer_data_block, answer,
                   pc, fkey, tot_size, room>>

GetMiss(k) ==
    /\ AtKey(k)
    /\ Wanted(k)
    /\ ~Answers(k)
    /\ data_results' = [data_results EXCEPT ![k] = FALSE]
    /\ it' = it + 1
    /\ UNCHANGED <<envVars, age, buffer_data_block, key2off, answer,
                   pc, fkey, tot_size, room>>

\* The block after memcpy(buffer + at, v, v.len).
Memcpy(at, k, v) ==
    [i \in Block |-> IF i >= at /\ i < at + v.len
                     THEN Byte(k, v, i - at)
                     ELSE buffer_data_block[i]]

\* value_length > buffer_len, where buffer_len is the room that is left.
\* Seeded fault: the check against the whole block, which is what the member
\* of the same name holds.
FitsWholeBlock(v) == v.len <= data_pack_len
Fits(v) == v.len <= room

\* Where memcpy puts the value.  Seeded fault: at the key's old place.
PackOverOld(k) == key2off[k]
PackAt(k) == tot_size

GetHit(k) ==
    /\ AtKey(k)
    /\ Wanted(k)
    /\ Answers(k)
    /\ Fits(server[k])
    /\ key2off' = [key2off EXCEPT ![k] = PackAt(k)]
    /\ buffer_data_block' = Memcpy(PackAt(k), k, server[k])
    /\ tot_size' = tot_size + server[k].len
    /\ room' = room - server[k].len
    /\ data_results' = [data_results EXCEPT ![k] = TRUE]
    /\ answer' = [answer EXCEPT ![k] = server[k]]
    /\ it' = it + 1
    /\ UNCHANGED <<envVars, age, pc, fkey>>

\* A value longer than the room that is left is not copied; err is set to
\* -1 and back to 0 before data_results is assigned.
GetTooBig(k) ==
    /\ AtKey(k)
    /\ Wanted(k)
    /\ Answers(k)
    /\ ~Fits(server[k])
    /\ data_results' = [data_results EXCEPT ![k] = TRUE]
    /\ answer' = [answer EXCEPT ![k] = server[k]]
    /\ it' = it + 1
    /\ UNCHANGED <<envVars, age, buffer_data_block, key2off,
                   pc, fkey, tot_size, room>>

EndFetch ==
    /\ pc = "get"
    /\ it > Len(data_keys)
    /\ pc' = "idle"
    /\ UNCHANGED <<envVars, age, blockVars, fkey, it, tot_size, room>>

GetStep ==
    \/ \E k \in Key : PassOver(k) \/ GetMiss(k) \/ GetHit(k) \/ GetTooBig(k)
    \/ EndFetch

Next ==
    \/ Environment
    \/ \E key \in FetchArg : StartFetch(key)
    \/ GetStep

Spec == Init /\ [][Next]_driverVars

-----------------------------------------------------------------------------
(* readDataOffset(data_ptr, key, offset, lenght): the bound is checked     *)
(* against the offset the caller passed, the bytes are taken relative to   *)
(* the key's place in the block, and the result of the key is reported     *)
(* after they were copied.                                                 *)

\* Seeded fault: the key's place in the block forgotten.
BaseIgnoresKey(key) == 0
BaseOf(key) == IF key = NoKey THEN 0 ELSE key2off[key]

ByteAt(i) == IF i \in Block THEN buffer_data_block[i] ELSE Junk

ReadBytes(key, offset, lenght) ==
    [i \in 0 .. (lenght - 1) |-> ByteAt(BaseOf(key) + offset + i)]

\* The sum is a uint32_t and may wrap.
InRange(offset, lenght) == (offset + lenght) % Uint32 <= data_pack_len

ReadRet(key, offset, lenght) ==
    IF ~InRange(offset, lenght) THEN -1
    ELSE IF data_results[key] THEN 0 ELSE 1

-----------------------------------------------------------------------------
TypeOK ==
    /\ server \in [Key -> Value]
    /\ up \subseteq Key
    /\ age \in [MapKey -> 0 .. (maxUpdateRefresh + 1)]
    /\ buffer_data_block \in [Block -> Cell]
    /\ key2off \in [MapKey -> Nat]
    /\ data_results \in [MapKey -> BOOLEAN]
    /\ answer \in [Key -> Value]
    /\ pc \in {"idle", "get"}
    /\ fkey \in MapKey
    /\ it \in 1 .. (Len(data_keys) + 1)
    /\ tot_size \in Nat
    /\ room \in Int

\* The bytes at the key's offset are, in order, those of the value that the
\* last successful get of the key returned.
Holds(k) ==
    /\ answer[k].ver > 0
    /\ key2off[k] + answer[k].len <= data_pack_len
    /\ \A i \in 0 .. (answer[k].len - 1) :
          buffer_data_block[key2off[k] + i] = Byte(k, answer[k], i)

\* No memcpy of fetchData leaves the block: the bytes packed and the room
\* the size check compares with always add up to the block, and a key's
\* recorded offset lies inside it (or at its end, for nothing).
PackInsideBlock ==
    /\ tot_size + room = data_pack_len
    /\ room >= 0
    /\ \A k \in Key : key2off[k] <= data_pack_len

\* A pass only appends: what it has packed so far stays as it is until the
\* pass is over, whatever the servers answer for the keys still to come.
AppendsOnly ==
    [][pc = "get" /\ pc' = "get" =>
         /\ tot_size' >= tot_size
         /\ \A i \in Block :
               i < tot_size => buffer_data_block'[i] = buffer_data_block[i]]_driverVars

\* Between two fetches a key whose result is true is really in the block,
\* complete and unmixed, at the offset the reads will use: no later key of
\* the pass, and no later pass, has overwritten part of it.
ResultTruthful ==
    pc = "idle" => \A k \in Key : data_results[k] => Holds(k)
=============================================================================

---------------------------- MODULE SharedDriver ----------------------------
(***************************************************************************)
(* One memcached driver with several units on it.  The interface of a unit *)
(* holds the driver's object and calls fetch and readDataOffset of it      *)
(* directly, in the unit's thread, instead of sending a message to its     *)
(* queue; so two passes may overlap, and a unit whose fetch is throttled   *)
(* reads the block while the pass of another is under way.  MemcachedDriver*)
(* takes the calls one after the other and a get as one step; here every   *)
(* access to the shared object is a step of its own, byte by byte.         *)
(*                                                                         *)
(* The library's calls and single operations on a std::map count as one    *)
(* step each; the lengths of the values are fixed and the block holds them *)
(* all.                                                                    *)
(***************************************************************************)
EXTENDS Integers, Sequences

CONSTANTS
    Unit,              \* the control units
    Key,               \* the memcached keys
    data_keys,         \* the configured keys, in fetch order
    length,            \* the length of each key's value
    maxUpdateRefresh,  \* the throttle window, in clock ticks
    attribute_off_len_vec, \* what every unit reads, in this order
    Flaky,             \* keys whose server may stop answering
    MaxVersion         \* bound: how often each key's value is replaced

\* The bytes of the keys before the i-th: where its value lies in a pass in
\* which nothing is missed.
Place[i \in 1 .. (Len(data_keys) + 1)] ==
    IF i = 1 THEN 0 ELSE Place[i - 1] + length[data_keys[i - 1]]

data_pack_len == Place[Len(data_keys) + 1]

Attr == DOMAIN attribute_off_len_vec
Block == 0 .. (data_pack_len - 1)

\* There is a first key to fetch and a first attribute to read; without them
\* a pass packs nothing, or a unit reads nothing.
ASSUME ConfigAssumption ==
    /\ data_keys \in Seq(Key) \ {<<>>}
    /\ attribute_off_len_vec # <<>>
    /\ maxUpdateRefresh \in Nat
    /\ length \in [Key -> Nat \ {0}]
    /\ attribute_off_len_vec \in Seq([keybind : Key, offset : Nat, len : Nat \ {0}])
    /\ \A a \in Attr : attribute_off_len_vec[a].offset + attribute_off_len_vec[a].len
                           <= length[attribute_off_len_vec[a].keybind]
    /\ MaxVersion \in [Key -> Nat]

VARIABLES
    server,            \* the version stored under each key, 0 for none
    up,                \* the keys whose server answers a get
    age,               \* ticks since last_fetch[""] (saturating)
    buffer_data_block,
    key2off,
    data_results,
    pc,                \* where each unit's thread stands
    it,                \* fetchData's iterator, or the number of the attribute
    tot_size,          \* fetchData's count of bytes packed
    value,             \* what memcached_get returned
    base,              \* the place the read under way copies from
    todo,              \* the bytes that the memcpy under way still has to copy
    data_ptr,          \* the bytes that the read under way has copied
    sure,              \* history: its key was reported good when it began
    slid               \* history: a pass missed a key that others follow

envVars == <<server, up>>
blockVars == <<buffer_data_block, key2off, data_results>>
threadVars == <<pc, it, tot_size, value, base, todo, data_ptr, sure>>
vars == <<envVars, age, blockVars, threadVars, slid>>

Junk == <<"none", 0, 0>>

Init ==
    /\ server = [k \in Key |-> 0]
    /\ up = Key
    /\ age = maxUpdateRefresh + 1
    /\ buffer_data_block = [i \in Block |-> Junk]
    /\ key2off = [k \in Key |-> 0]
    /\ data_results = [k \in Key |-> FALSE]
    /\ pc = [u \in Unit |-> "idle"]
    /\ it = [u \in Unit |-> 1]
    /\ tot_size = [u \in Unit |-> 0]
    /\ value = [u \in Unit |-> 0]
    /\ base = [u \in Unit |-> 0]
    /\ todo = [u \in Unit |-> {}]
    /\ data_ptr = [u \in Unit |-> <<>>]
    /\ sure = [u \in Unit |-> FALSE]
    /\ slid = FALSE

Goto(u, there) == pc' = [pc EXCEPT ![u] = there]

-----------------------------------------------------------------------------
(* The environment.                                                        *)

Store(k) ==
    /\ server[k] < MaxVersion[k]
    /\ server' = [server EXCEPT ![k] = @ + 1]
    /\ UNCHANGED up

OutageOrRecovery(k) ==
    /\ up' = IF k \in up THEN up \ {k} ELSE up \cup {k}
    /\ UNCHANGED server

Tick ==
    /\ age <= maxUpdateRefresh
    /\ age' = age + 1
    /\ UNCHANGED <<envVars, blockVars, threadVars, slid>>

Environment ==
    /\ \E k \in Key : Store(k) \/ (k \in Flaky /\ OutageOrRecovery(k))
    /\ UNCHANGED <<age, blockVars, threadVars, slid>>

-----------------------------------------------------------------------------
(* fetch: the time stamp is looked at in one step and set in another, so   *)
(* that two units may both find the fetch due.                             *)

FetchDue(u) ==
    /\ pc[u] = "idle"
    /\ age > maxUpdateRefresh
    /\ Goto(u, "stamp")
    /\ UNCHANGED <<envVars, age, blockVars, it, tot_size, value, base, todo,
                   data_ptr, sure, slid>>

Stamp(u) ==
    /\ pc[u] = "stamp"
    /\ Goto(u, "get")
    /\ age' = 0
    /\ it' = [it EXCEPT ![u] = 1]
    /\ UNCHANGED <<envVars, blockVars, tot_size, value, base, todo,
                   data_ptr, sure, slid>>

FetchThrottled(u) ==
    /\ pc[u] = "idle"
    /\ age <= maxUpdateRefresh
    /\ Goto(u, "read")
    /\ it' = [it EXCEPT ![u] = 1]
    /\ UNCHANGED <<envVars, age, blockVars, tot_size, value, base, todo,
                   data_ptr, sure, slid>>

-----------------------------------------------------------------------------
(* fetchData: get, offset, bytes, result, key after key.                   *)

AtKey(u, k) == it[u] <= Len(data_keys) /\ k = data_keys[it[u]]

\* On to the next key, or to the first read behind the last one (the locals
\* of a call that has returned are put back).
NextKey(u, packed) ==
    /\ value' = [value EXCEPT ![u] = 0]
    /\ IF it[u] < Len(data_keys)
       THEN /\ Goto(u, "get")
            /\ it' = [it EXCEPT ![u] = @ + 1]
            /\ tot_size' = packed
       ELSE /\ Goto(u, "read")
            /\ it' = [it EXCEPT ![u] = 1]
            /\ tot_size' = [packed EXCEPT ![u] = 0]

Answers(k) == k \in up /\ server[k] > 0

GetMiss(u, k) ==
    /\ pc[u] = "get"
    /\ AtKey(u, k)
    /\ ~Answers(k)
    /\ Goto(u, "missed")
    /\ slid' = (slid \/ it[u] < Len(data_keys))
    /\ UNCHANGED <<envVars, age, blockVars, it, tot_size, value, base, todo,
                   data_ptr, sure>>

SetMissed(u, k) ==
    /\ pc[u] = "missed"
    /\ AtKey(u, k)
    /\ NextKey(u, tot_size)
    /\ data_results' = [data_results EXCEPT ![k] = FALSE]
    /\ UNCHANGED <<envVars, age, buffer_data_block, key2off, base, todo,
                   data_ptr, sure, slid>>

GetHit(u, k) ==
    /\ pc[u] = "get"
    /\ AtKey(u, k)
    /\ Answers(k)
    /\ Goto(u, "offset")
    /\ value' = [value EXCEPT ![u] = server[k]]
    /\ UNCHANGED <<envVars, age, blockVars, it, tot_size, base, todo, data_ptr,
                   sure, slid>>

\* Seeded fault: a key whose last get succeeded taken to be where it was.
KeepsOffset(u, k) ==
    /\ pc[u] = "offset"
    /\ AtKey(u, k)
    /\ Goto(u, "copy")
    /\ key2off' = IF data_results[k] THEN key2off
                  ELSE [key2off EXCEPT ![k] = tot_size[u]]
    /\ todo' = [todo EXCEPT ![u] = 0 .. (length[k] - 1)]
    /\ UNCHANGED <<envVars, age, buffer_data_block, data_results, it, tot_size,
                   value, base, data_ptr, sure, slid>>

SetOffset(u, k) ==
    /\ pc[u] = "offset"
    /\ AtKey(u, k)
    /\ Goto(u, "copy")
    /\ key2off' = [key2off EXCEPT ![k] = tot_size[u]]
    /\ todo' = [todo EXCEPT ![u] = 0 .. (length[k] - 1)]
    /\ UNCHANGED <<envVars, age, buffer_data_block, data_results, it, tot_size,
                   value, base, data_ptr, sure, slid>>

\* The bytes are copied from the first to the last (and read in any order, so
\* that a read may find either end of the value renewed first).
CopyByte(u, k) ==
    /\ pc[u] = "copy"
    /\ AtKey(u, k)
    /\ \E i \in todo[u] :
          /\ \A j \in todo[u] : i <= j
          /\ buffer_data_block' =
                [buffer_data_block EXCEPT ![tot_size[u] + i] = <<k, value[u], i>>]
          /\ todo' = [todo EXCEPT ![u] = @ \ {i}]
    /\ UNCHANGED <<envVars, age, key2off, data_results, pc, it, tot_size, value,
                   base, data_ptr, sure, slid>>

\* Seeded fault: the bytes packed counted in the object, not in a local.
SetResultCountsForAll(u, k) ==
    /\ pc[u] = "copy"
    /\ AtKey(u, k)
    /\ todo[u] = {}
    /\ NextKey(u, [v \in Unit |-> tot_size[v] + length[k]])
    /\ data_results' = [data_results EXCEPT ![k] = TRUE]
    /\ UNCHANGED <<envVars, age, buffer_data_block, key2off, base, todo,
                   data_ptr, sure, slid>>

SetResult(u, k) ==
    /\ pc[u] = "copy"
    /\ AtKey(u, k)
    /\ todo[u] = {}
    /\ NextKey(u, [tot_size EXCEPT ![u] = @ + length[k]])
    /\ data_results' = [data_results EXCEPT ![k] = TRUE]
    /\ UNCHANGED <<envVars, age, buffer_data_block, key2off, base, todo,
                   data_ptr, sure, slid>>

-----------------------------------------------------------------------------
(* readDataOffset for each attribute in turn: place, bytes, result.        *)

Here(u) == attribute_off_len_vec[it[u]]

StartRead(u) ==
    /\ pc[u] = "read"
    /\ it[u] \in Attr
    /\ Goto(u, "reading")
    /\ base' = [base EXCEPT ![u] = key2off[Here(u).keybind] + Here(u).offset]
    /\ todo' = [todo EXCEPT ![u] = 0 .. (Here(u).len - 1)]
    /\ data_ptr' = [data_ptr EXCEPT ![u] = [i \in 0 .. (Here(u).len - 1) |-> Junk]]
    /\ sure' = [sure EXCEPT ![u] = data_results[Here(u).keybind]]
    /\ UNCHANGED <<envVars, age, blockVars, it, tot_size, value, slid>>

ByteAt(i) == IF i \in Block THEN buffer_data_block[i] ELSE Junk

ReadByte(u) ==
    /\ pc[u] = "reading"
    /\ \E i \in todo[u] :
          /\ data_ptr' = [data_ptr EXCEPT ![u][i] = ByteAt(base[u] + i)]
          /\ todo' = [todo EXCEPT ![u] = @ \ {i}]
    /\ UNCHANGED <<envVars, age, blockVars, pc, it, tot_size, value, base,
                   sure, slid>>

\* The result is looked at after the bytes were copied.
ReturnsGood(u) ==
    /\ pc[u] = "reading"
    /\ todo[u] = {}
    /\ data_results[Here(u).keybind]

ReturnRead(u) ==
    /\ pc[u] = "reading"
    /\ todo[u] = {}
    /\ Goto(u, IF it[u] + 1 \in Attr THEN "read" ELSE "idle")
    /\ it' = [it EXCEPT ![u] = IF it[u] + 1 \in Attr THEN @ + 1 ELSE 1]
    /\ base' = [base EXCEPT ![u] = 0]
    /\ data_ptr' = [data_ptr EXCEPT ![u] = <<>>]
    /\ sure' = [sure EXCEPT ![u] = FALSE]
    /\ UNCHANGED <<envVars, age, blockVars, tot_size, value, todo, slid>>

UnitStep(u) ==
    \/ FetchDue(u)
    \/ Stamp(u)
    \/ FetchThrottled(u)
    \/ \E k \in Key :
          \/ GetMiss(u, k)
          \/ SetMissed(u, k)
          \/ GetHit(u, k)
          \/ SetOffset(u, k)
          \/ CopyByte(u, k)
          \/ SetResult(u, k)
    \/ StartRead(u)
    \/ ReadByte(u)
    \/ ReturnRead(u)

Next == Environment \/ Tick \/ \E u \in Unit : UnitStep(u)

\* Every unit's thread is scheduled over and over, and time passes.
Spec ==
    /\ Init
    /\ [][Next]_vars
    /\ \A u \in Unit : WF_vars(UnitStep(u))
    /\ WF_vars(Tick)

-----------------------------------------------------------------------------
\* Byte i of the read under way is that byte of version ver of its attribute.
OwnByte(u, i, ver) ==
    data_ptr[u][i] = <<Here(u).keybind, ver, Here(u).offset + i>>

\* As long as no pass missed a key that others follow, a read reported good,
\* whose key was reported good already when it began, returns bytes of its
\* own attribute, each in its place, wherever the passes of the other units
\* stood and however many overlapped: they may only be of several versions.
\* (The first pass over a key is left out: the bytes are copied before the
\* result is looked at, so that a read that began before the key had a place
\* is reported good by the pass that ends in between.  And every key is
\* configured once: a second occurrence, which the next driverInit appends,
\* moves the offset to bytes not copied yet under a result already true.)
NoForeignBytes ==
    ~slid =>
        \A u \in Unit : ReturnsGood(u) /\ sure[u] =>
            \A i \in DOMAIN data_ptr[u] :
                \E ver \in 1 .. MaxVersion[Here(u).keybind] : OwnByte(u, i, ver)

Serving == \A k \in Key : Answers(k)

\* Once every server answers for good, every unit goes on reading, and from
\* some point on all its reads are good, whole and current, although only
\* one of the units fetches in a window, and whatever passes slid, tore a
\* value or wrote an older one over a newer one before.
Settles ==
    <>[]Serving =>
        /\ \A u \in Unit : []<>ReturnsGood(u)
        /\ <>[](\A u \in Unit :
                  pc[u] = "reading" /\ todo[u] = {} =>
                      /\ ReturnsGood(u)
                      /\ \A i \in DOMAIN data_ptr[u] :
                            OwnByte(u, i, server[Here(u).keybind]))
=============================================================================

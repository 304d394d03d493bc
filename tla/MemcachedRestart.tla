-------------------------- MODULE MemcachedRestart --------------------------
(***************************************************************************)
(* A DataImport control unit on its MemcachedDataImporterDriver through    *)
(* stops and starts of both.  driverDeinit frees the block and keeps the   *)
(* rest of the object; each driverInit, the one that throws included,      *)
(* appends the configured keys to data_keys once more.  The framework      *)
(* (external) stops the driver of a unit that is down, and starts the unit *)
(* only when its driver is up.                                             *)
(***************************************************************************)
EXTENDS MemcachedImport

CONSTANTS
    json_data_key,     \* the keys of the configuration; data_keys holds them
                       \* as often as they can be appended (the bound)
    StringForm         \* whether data_keys is one string, and no array

ASSUME AppendAssumption ==
    /\ json_data_key \in Seq(Key)
    /\ Len(json_data_key) > 0
    /\ Len(json_data_key) <= Len(data_keys)
    /\ StringForm \in BOOLEAN
    /\ StringForm => Len(json_data_key) = 1
    /\ \A i \in DOMAIN data_keys :
          data_keys[i] = json_data_key[((i - 1) % Len(json_data_key)) + 1]

VARIABLES
    driver,            \* "up", "down", or "failed" when driverInit threw
    held,              \* how many keys have been appended to data_keys
    got,               \* history: keys got since the last driverInit
    unfit              \* history: keys whose newest value got was too long
                       \* for the room that was left

lifeVars == <<driver, held, got, unfit>>
restartVars == <<importVars, lifeVars>>

RestartInit ==
    /\ ImportInit
    /\ driver = "up"
    /\ held = Len(json_data_key)
    /\ got = {}
    /\ unfit = {}

-----------------------------------------------------------------------------
(* The life of the driver.                                                 *)

Configured == {json_data_key[i] : i \in DOMAIN json_data_key}

NewBlock == buffer_data_block' = [i \in Block |-> Junk]

\* memcached_free and free: key2off, data_results and last_fetch stay.
DriverDeinit ==
    /\ cu_pc = "down"
    /\ driver # "down"
    /\ driver' = "down"
    /\ NewBlock
    /\ UNCHANGED <<envVars, age, key2off, data_results, answer, loopVars,
                   cuVars, held, got, unfit>>

\* Only the string form sets the offset of its key back.
AppendKeys ==
    /\ driver = "down"
    /\ held + Len(json_data_key) <= Len(data_keys)
    /\ held' = held + Len(json_data_key)
    /\ key2off' = IF StringForm THEN [key2off EXCEPT ![json_data_key[1]] = 0]
                                ELSE key2off

\* Seeded fault: the results of the keys left as the last life had them.
DriverInitKeepsResults ==
    /\ AppendKeys
    /\ driver' = "up"
    /\ NewBlock
    /\ got' = {}
    /\ UNCHANGED <<envVars, age, data_results, answer, loopVars, cuVars, unfit>>

DriverInit ==
    /\ AppendKeys
    /\ driver' = "up"
    /\ NewBlock
    /\ data_results' = [k \in MapKey |-> k \notin Configured /\ data_results[k]]
    /\ got' = {}
    /\ UNCHANGED <<envVars, age, answer, loopVars, cuVars, unfit>>

\* The keys are appended before data_pack_len and the servers are looked at.
DriverInitThrows ==
    /\ AppendKeys
    /\ driver' = "failed"
    /\ NewBlock
    /\ UNCHANGED <<envVars, age, data_results, answer, loopVars, cuVars,
                   got, unfit>>

-----------------------------------------------------------------------------
(* The unit, whose passes go over the keys appended so far.                *)

UnitLife ==
    /\ driver = "up"
    /\ CU!Life
    /\ UNCHANGED <<driverVars, lifeVars>>

FetchesKey(k) ==
    /\ it <= held
    /\ FetchGets(k)
    /\ got' = IF Answers(k) THEN got \cup {k} ELSE got
    /\ unfit' = IF ~Answers(k) THEN unfit
                ELSE IF Fits(server[k]) THEN unfit \ {k} ELSE unfit \cup {k}
    /\ UNCHANGED <<driver, held>>

PassEnds ==
    /\ pc = "get"
    /\ it > held
    /\ pc' = "idle"
    /\ CU!FetchReturned(0)
    /\ UNCHANGED <<envVars, age, blockVars, fkey, it, tot_size, room, lifeVars>>

UnitCycle ==
    /\ StartCycle \/ FetchThrottled \/ FetchStarts
          \/ (\E a \in Attr : ReadAttribute(a)) \/ EndCycle
    /\ UNCHANGED lifeVars

RestartStep ==
    \/ DriverDeinit
    \/ DriverInit
    \/ DriverInitThrows
    \/ UnitLife
    \/ UnitCycle
    \/ \E k \in Key : FetchesKey(k)
    \/ PassEnds
    \/ Environment /\ UNCHANGED <<cuVars, lifeVars>>

RestartNext == RestartStep /\ RememberClean

RestartSpec == RestartInit /\ [][RestartNext]_restartVars

-----------------------------------------------------------------------------
\* No key is reported good before its value was got in this life of the
\* driver, although the throttle's time stamps and the offsets outlive the
\* block, so that the first cycles of a restarted unit may read a new block
\* nobody filled.
GoodSinceInit == \A k \in Key : driver = "up" /\ data_results[k] => k \in got

\* A value that does not fit is reported good without being copied, but it
\* harms no key other than its own: between two passes every key reported
\* good is whole in the block, where the reads will look for it, unless its
\* own newest value was too long.  This holds in every life of the driver,
\* however often it was started and appended its keys, so that one pass
\* packs a key several times.
HarmsNoOther ==
    pc = "idle" /\ driver = "up" =>
        \A k \in Key \ unfit : data_results[k] => Holds(k)
=============================================================================

# DataImport: verification project

TLA+ models of the !CHAOS DataImport driver family (`src/`): control units that
import blocks of data from memcached or from a file and hand them on as datasets,
and one that exports a dataset to memcached. TLC checks the models on small
instances; TLAPS proves the central theorems for every value of the constants.

## 1. The system

| Component | State | Operations | Hard behaviour |
|---|---|---|---|
| `core/AbstractDataImportDriver` | the block `buffer_data_block`, `data_results` per key, `last_fetch` per key | `fetch(key)` (throttled by `maxUpdateRefresh`), `readDataOffset`, `growMem`, `driverDeinit`, `execOpcode` | a throttled fetch returns 0 like a good one |
| `models/memcache/MemcachedDataImporterDriver` | `data_keys`, `key2off`, the memcached client | `fetchData`: one `memcached_get` per key, packed one after the other; `readDataOffset` by key; `driverInit`, `driverDeinit` | gets fail one by one, values change length and move, block too small, keys left at old offsets; a restart keeps half of the object |
| `core/DataImport` | the attributes, their `buffer` in the output dataset and `old_buffer`, two alarms | `unitInit`, `unitDeinit`; `unitRun`: fetch, read each attribute, compare, convert, mark the dataset as changed | a failed read in the middle of a cycle, change detection against stale memory, alarms, restarts |
| `core/DataImportDriverInterface` | none | forwards both calls directly to the driver (the message queue is compiled out) | units that share a driver run in it at the same time |
| `core/AttributeOffLen` | the attribute description | `json2Attribute`, `decodeType`, the two `copy`, `attribute2CDW` | byte order, arrays, lengths that are not whole elements |
| `models/posixFile/FilePosixDataImporterDriver` | `buf`, `pnt`, strtok's position, `current_hash` | `fetchData`: last line of a file, hashed; reads take the next token | what a read returns depends on all the reads before it, also on those of a line that was freed |
| `models/dante/DanteDriver` | items with buffers, on top of the memcached driver | `getDataset`, `getData`, `getDrvProperties`, `postData` | fetches of single keys share one block |
| `models/memcache/RTChaos2Memcache` | a growing `buffer`, `size` | `unitInit`, `unitRun` (copy all outputs, one `memcached_set`), `unitDeinit` | attributes that grow while a run copies; restart |
| `core/DataImportHistory` | `driver_interface`, `history`, `db` | `unitInit` (makes the three, may throw between any two), `unitRun`: fetch, keyless reads, a push per run, `unitDeinit` | rows pushed whatever failed, reads that know neither key nor result, failed starts |
| `core/RTDB` | a dataset, a database handle | `unitStore` on demand | failed start, then stop |
| `models/dante/RTGenericDanteCU` | its own `DanteDriver`, the dataset defined once | `unitDefineActionAndDataset`, `unitRun` | items that a call leaves out |
| launchers, `test/DataImportClient` | none | register classes, print | - |

How they interact: the unit calls its driver in its own thread (`unitRun` is run
again and again by the framework); the driver calls the servers or the file system;
what a producer stores, when a server stops answering and how time passes is not
under anybody's control and is the environment of every model. The exporter's rows
are the importer's values.

What makes each part correct: a result reported good is a value really in the block
(driver); a dataset without alarm is the newest good data, and no change is lost
(unit); own bytes, one version, versions only forward, and catching up (both
together); the same for two units in one driver, as far as it can hold; rows that are
own bytes, and current at last (history); columns stay aligned (file); own bytes per
item, one snapshot, a dataset that only moves forward (DANTE);
conversions are inverse and stay inside the attribute (AttributeOffLen); no copy past
the buffer and whole rows (exporter).

## 2. Modules

| Module | Models | State and actions |
|---|---|---|
| `MemcachedDriver` | `AbstractDataImportDriver` + `MemcachedDataImporterDriver` | variables have the source's names; `StartFetch` is `fetch`, then one action per iteration of `fetchData` (`PassOver`, `GetMiss`, `GetHit`, `GetTooBig`) and `EndFetch`; `room` is the parameter `buffer_len`. `ReadBytes`/`ReadRet` are `readDataOffset` |
| `DataImport` | the unit over *any* driver, its abstract specification | `StartCycle`, `FetchReturned`, `ReadOk`/`ReadFailed` per attribute, `EndCycle` are `unitRun`; `UnitInit`, `UnitInitThrows`, `UnitDeinit` its life |
| `MemcachedImport` | the two composed (`CU == INSTANCE DataImport`) | each step of the unit joined with what the driver does in it; `clean` (the last dataset handed on without alarm) is history |
| `MemcachedRestart` | `MemcachedImport` with the life of unit and driver | `DriverInit`, `DriverInitThrows`, `DriverDeinit`; `held` is how many keys `data_keys` has by now; `got` and `unfit` (the keys whose newest value was too long for the room left) are history |
| `SharedDriver` | several units on one memcached driver, in their own threads | each access to the object is a step: `FetchDue`/`Stamp`, `GetHit`/`SetOffset`/`CopyByte`/`SetResult`, `StartRead`/`ReadByte`/`ReturnRead`; `sure` and `slid` are history |
| `DataImportHistory` | the unit that records rows, extending `MemcachedDriver` | its life with every place where `unitInit` throws; `ReadAttribute` by offset in the whole block; `PushData` once all attributes are passed (also when there are none); `row` is what the database received, with the history of which attributes were sure and what the last such row of each held |
| `FilePosixDriver`, `PosixImport` | the file driver, and the unit on it, with restarts of both | `FetchThrottled`, `FetchNothing`, `FetchLine`; a read is `TakeToken` (`TakeLineToken`, or `TakeFreedToken` after a restart) and what is parsed from it (`TakesWord`, `TakesNone`, `TakesNumber`); `UnitLife`, `DriverRestart`; composed with the same `DataImport`; `missed`, `throttled` and `stale` are history variables |
| `DanteDriver` | the DANTE driver, extending `MemcachedDriver` | calls, one fetch and one read per item; `todo` are the items still to serve, taken in the order of the maps (`Foremost`); `ReadProperty` for `updateProperties`; `GetDataShort` is a `getData` into memory that is too small, which fetches and reads before it refuses |
| `RTGenericDanteCU` | the unit on its private DANTE driver, extending `DanteDriver` | `UnitDefineActionAndDataset`, `UnitRun` are the calls, `DatasetDefined`, `DatasetUpdated` what the unit does with the answer; `owner` chooses between the unit and other clients |
| `AttributeOffLen` | descriptions and the four converters, the factor of `unitRun` included | one action per converter |
| `RTChaos2Memcache` | the exporter | `UnitInit`, `StartRun`, `CopyOutput` per attribute, `Push`, `UnitDeinit`, `FreeUninitialized`; `row` and `stored.row` are history |
| `*_proofs` | theorems about the module they extend (`MemcachedImport_proofs` also about `MemcachedRestart`, `RTGenericDanteCU_proofs` about `DanteDriver`, `RTChaos2Memcache_proofs` about `AttributeOffLen`; `SharedDriver_proofs` relates `SharedDriver` to `MemcachedDriver`) | section 4 |
| `MC*` | constants of the runs; `MCRTChaos2Memcache` runs the exporter or the converters, side by side | |

Definitions introduced by "Seeded fault" are plausible mistakes in the definition
after them. No specification uses them; they serve to confirm that each property
would notice the mistake.

Abstractions. A byte of a value is a tag (key, version, position) in
`MemcachedDriver` and what builds on it; a token is a column and a line's version;
a factor is the flag "scaled" there, and in `AttributeOffLen` the product is bytes of
its own that tell which number was multiplied; an `INT32` may be two cells long, which
is enough to see it reversed. The host is little-endian. A hash tells lines apart. A
file's line is its last line of at least two characters; `strtok`'s token memory is one
position and a flag that the line was cut. Uninitialised memory starts with any of the
contents the constants list: `old_buffer` from `malloc` by chance with the right ones
too, `current_hash` never with a line's hash in these runs (the coincidence would hide
that line for good). In `AttributeOffLen` the 256 characters of a text are `MaxText` = 3.

Two reads leave what C++ defines. With `buf` NULL (never loaded, or freed by a restart)
`strtok` is given a NULL whatever `pnt` is, and goes on in the line it last worked on:
after a restart that is freed memory, in which it may find any token of `Leftovers`, and
the read reports it as good. Only when `strtok` was never called does the process end:
no step. That freed memory may also be unmapped, and that strtok's zero bytes may damage
the heap, is left out: both end the process or have no state to speak of. And memory
behind the block or behind an attribute of partial elements has no name: reads of it
give `Junk`, and the descriptions have whole elements.

In `SharedDriver` a call of libmemcached and one operation on a `std::map` are one
step each (concurrent ones are undefined in the library and in C++; the model shows
what remains wrong or right when they behave), the values have fixed lengths and the
block holds them all, `memcpy` writes its bytes in order and reads them in any order,
which gives every torn value. The locals of a call that returned are put back to
their first values. The other modules take a get and its copy as one step, and a read as
one: only one thread uses their driver, and `AloneImplementsDriver` (section 4) proves
that this thread cannot tell (for values of fixed lengths).

The framework is external: it runs an initialised unit again and again, calls
`unitDeinit` once after every `unitInit`, the one that threw included, starts a unit
only when its driver is up, and may give a restarted unit its old output dataset or
a new one.

## 3. Runs

Passing runs:

| Run | Shows | Bounds |
|---|---|---|
| `unit` (`DataImport.cfg`) | `TypeOK`, `InterfaceInUse`, `NothingMissed`, `CleanPush` | a converted number and an array, 2 contents each, all fetch errors, any number of starts |
| `import` (`MemcachedImport.cfg`) | `ResultTruthful`, `GoodBuffersAreOwn`, `OneVersion`, `VersionsForward`, `CatchesUp` | 3 attributes of 2 keys, values of two lengths in a block that holds all of them, 2 versions; 216,206 states |
| `import_tight` (`MemcachedRestart.cfg`) | `TypeOK`, `PackInsideBlock`, `GoodSinceInit`, `HarmsNoOther`, `AppendsOnly` | values of 1 or 2 bytes in a block of 3, so that the second may not fit; the two keys, an array (`StringForm` FALSE), appended at most twice, by starts of the driver that succeed or throw; an attribute beyond the block and one whose offset and length wrap a `uint32_t` of 8 values (`Uint32`); 1,180,732 states |
| `posix` (`PosixImport.cfg`) | `ColumnsAligned`, `OneLine`, `LineBehindReads`, `CatchesUp` | 3 columns, lines of 3 or 4 tokens, one column undecodable, a fourth column that is a word (`Words`), a factor, the file may vanish, be emptied and come back, unit and driver restart, a freed line holds no token or one of no line (`Leftovers`); 606,762 states |
| `dante` (`Dante.cfg`) | `OwnBytes`, `OneSnapshot`, `DatasetOwn`, `DatasetForward`, `CatchesUp` | 4 items (one static) of 2 keys, dynamic items of a key adjacent, calls paced; 1,433,268 states |
| `history` (`DataImportHistory.cfg`) | `RowOwn`, `ObjectsInUse`, `RowsForward`, `Recorded` | 4 attributes of 2 keys of fixed length (swapped once, swapped twice, a single byte, one beyond the block), both servers flaky, a factory that may fail; 92,988 states |
| `shared` (`SharedDriver.cfg`) | `NoForeignBytes`, `Settles` | 2 units that read a value of 2 bytes, behind one of 1 byte; 2 versions; the second server flaky; a window that ends with the next tick |
| `exporter` (`RTChaos2Memcache.cfg`) | `TypeOK`, `CopyInsideBuffer`, `StoredRowWhole` of the exporter; `RoundTrip`, `ValuesPublished`, `HostOrderDelivered`, `NeighboursKept` of the converters | two machines, of which a behaviour runs one: 2 outputs and an input, sizes 0, 1, 3 where 1 was declared; every type, scalar and array, all byte orders, with and without a factor, default length and two elements; 60,187 states |

Two keys suffice for one value to push another one along or to overwrite it; two
versions for old and new to mix; the first key's two lengths move the second one. A
throttle window of one tick gives fetches inside it and outside it. Ages saturate
just above the window (nothing else is compared with them), and versions stop at
`MaxVersion`. `MaxVersion` is what lets a state space end, so the liveness
properties speak of values that stop changing; servers may fail and return at any
time before. Two units are enough for a pass to move values under a read, and for two
passes to overlap; the value of two bytes can be torn; the first key, whose value may
come late, moves the second one's place. Keys appended once more are enough for a
pass to meet every key again.

Deadlock is checked in every run: the environment or the unit can always move.

Violation runs state what a comment, a document or a name promises and show that the
code does otherwise (the findings in `PROJECT.json` quote the lines):

| Run | What happens |
|---|---|
| `driver_oversize` | a value that does not fit is reported good |
| `posix_short_line` | after the end of a short line attributes receive its first columns again |
| `dante_mixed` | an item receives another key's bytes with return 0 |
| `lbe_comment` | a number with `lbe` true, which two comments call little-endian, is reversed on a little-endian host; `AttributeOffLen.h` and `data-import-parameter-example` call it big-endian, as the code does |

The passing runs keep to the configurations in which those do not interfere (block
large enough, full lines, items of a key adjacent), each given by a constant. Some
properties have a condition of their own for the same reason, and TLC finds each of
them violated without it:

- `ColumnsAligned` and `LineBehindReads` say nothing after a throttled fetch
  (`throttled`); the `CatchesUp` of the file assumes a unit scheduled less often than
  the window, and one that is up when the last line comes: a unit restarted later
  finds the line "not changed" and leaves its new dataset blank.
- `OneLine` says nothing of reads that went on in a freed line (`stale`): the driver is
  restarted, the unit's first fetch falls into the throttle window and returns 0, and
  the reads behind it report bytes of no line as good. They stay in the dataset while
  the file keeps its line, whose hash the driver remembers.
- `HarmsNoOther` leaves out the keys whose own newest value did not fit (`unfit`): they
  are those of `driver_oversize`.
- `RowOwn` and `RowsForward` speak of the attributes whose key, and all keys ahead of
  it, had been found by the newest pass (`sure`): other rows are pushed too, and hold
  the bytes that slid to the attribute's offset.
- `NoForeignBytes` leaves out passes that missed a key ahead (`slid`), and a read that
  began before its key was packed for the first time (`sure`): `readDataOffset` looks
  at the result after it copied, so that a pass of another unit that ends in between
  makes it report good what it copied before.

Other behaviour of the code that the models contain, and that a reader may not expect:

- An attribute without a keybind always fails in `DataImport`: its read returns
  `data_results[""]`, which nothing sets (`ReadRet` with `NoKey`). The history, which
  uses the other overload, does read it.
- The missing `break`s in the filter of the history swap an `INT64` twice, so that it
  is recorded in the block's order (`HistoryFilter` in `AttributeOffLen`, `Filter` in
  `DataImportHistory`).
- Each `driverInit` appends the keys again: a block sized for one copy of the values
  then lets the later copies not fit, which is reported good (`driver_oversize`).
- Two units on one driver: two versions can be mixed in one read, and a thread that
  was held up between its get and its copy replaces a newer value by an older one
  until the next pass.
- An item that `getDataset` leaves out while `RTGenericDanteCU` defines its dataset
  never becomes an attribute.
- A throttled fetch of the file driver returns 0 without starting the tokens over, so
  that the attributes receive other columns. If no line was ever read, the read that
  follows passes two NULLs to `strtok`; after a restart of the driver it goes on in the
  freed line (`TakeFreedToken`).
- A token with a '.' that is no number leaves the attribute's buffer, already converted
  by the last cycle, and the read returns 0: the unit converts it once more
  (`TakesWord`; counted as not read).
- Each cycle of the unit clears the alarms before it fetches; one that ends with
  `DATA_IMPORT_NO_CHANGE` leaves them cleared although the attribute is still unread.
- "Nothing changed" can be logged while the output differs from what was handed on:
  a failed read overwrote a buffer, another attribute changed in that cycle, and the
  next good read compares equal with `old_buffer`.
- `unitRun` converts no array types, and multiplies by a factor only an `INT32` and a
  `DOUBLE`; `copy()` converts arrays and applies no factor. Both treat `lbe` true as
  big-endian (`lbe_comment`). Unsigned types are published as signed ones.
- `copy()` moves whole elements, beyond a `len` that is not a multiple of them.
- The sum of an attribute's offset and length is a `uint32_t`: one that wraps passes the
  check of `readDataOffset` (`InRange`).
- The exporter's constructor leaves `mc_client` unset, and a `unitInit` that throws
  before it makes the client is followed by a `unitDeinit` that frees it
  (`FreeUninitialized`, which ends the process, when that memory was not NULL).

Fairness. `FairImportSpec`, `UnitSpec`, `HistorySpec` and the `Spec` of `SharedDriver`
(there for each unit's thread) assume weak fairness of the unit's next step, because the
framework calls `unitRun` with a fixed delay and `unitRun` itself does not block, and
of the clock. Starts and stops of units and drivers, servers, files and producers get
none. Liveness is what the catching-up properties need and no more: they start from
"once every server answers" or "once the file stays".

## 4. Proofs

All with TLAPS, for every value of the constants that satisfies the modules' named
assumptions (configuration and types: keys in `Key`, lengths positive, attributes
well-formed, the block smaller than a `uint32_t` can count) and what a theorem assumes itself. Each theorem lists that in its
`ASSUME`, and the constants of the passing runs satisfy it (`Alone` asks for one unit
where the run has two):

| Hypothesis | Meaning | Without it |
|---|---|---|
| `L` bounds `Lengths`, `Len(data_keys) * L <= data_pack_len` | the block holds every key at its longest, as often as it is configured | `driver_oversize`: a value that does not fit is reported good |
| `LongEnough`, `ItemsFit` | a value reaches as far as the attributes cut out of it | a read takes the bytes of the next value |
| `Lengths = {L}`, `DistinctKeys`, `Placed(L)` (history) | fixed lengths, no key twice, the configured offset is that of the key in a full pass | the keyless read takes whatever lies at its offset |
| `DistinctKeys` (shared driver) | no key twice in `data_keys` | a pass packs the key at a second place while a read copies from the first |
| `Alone` (shared driver) | one unit on the driver; the other conjuncts name constants of the two modules for each other | two units tear a value: see section 3 |
| `WholeElements` | numbers come in whole elements, and a scalar is one | `copy()` moves whole elements, past `len` |
| `MemoryHolds` | the memory that is modelled holds every attribute and the longest swap | the bytes past it have no name in the model |
| `NoHashLeft` | the uninitialised `current_hash` is no line's hash | that line is never read |
| `WideEnough` | only the last attribute may be without a column | `posix_short_line` |
| `Paced`, `Adjacent`, `ArgsCovered` | calls further apart than the window, items of a key side by side, other clients fetch what the items do | `dante_mixed`: another key's bytes with return 0 |

`MemcachedDriver_proofs`, for any clients:

- `TypeCorrect`; `PackingSafe`, where the sum `tot_size + room = data_pack_len` is what
  makes the size check sufficient, inductive together with the types.
- `TruthfulResults`. The property is not inductive because it says nothing inside a
  pass; `TruthInv` says of each key the pass wants that its bytes are behind the
  packing point untouched, or packed, or still to come. It is proved step by step for
  fetches of single keys too (DANTE needs that), the theorem for fetches of all keys.
- `TruthfulWhileFitting`: the same without a bound on the lengths, for every behaviour
  in which each value that is got fits into the room left (`AllFit`). What does the
  work is `Intact`, the part of `TruthInv` that does not speak of the bound.
- `PassAppends` (`AppendsOnly`), from `PackingSafe` and the get's step alone.
- `AnswerInvariant`: answers never go back and never overtake the server. The
  compositions below rest on it wherever a version is compared.

`DataImport_proofs`, over any driver: `TypeCorrect`; `InterfaceAlive`, through any
starts and stops; `CycleInvariant`: the clean dataset handed on is the filter of
`old_buffer` until the running cycle finds a difference, and the attributes read so
far without an alarm are too. `CleanPushes` and `NothingMissedEver` follow.

`MemcachedImport_proofs`, the unit on its memcached driver:

- `ImplementsDriver` and `ImplementsUnit`: each joined step is a step or a stutter of
  `MemcachedDriver` and of `DataImport` (the abstract specification, under
  `CU == INSTANCE`). So what is proved of the parts (`CleanPushes`, `NothingMissedEver`, `TruthfulResults`)
  holds here; `ImportTruthful` is the one that says something of this driver.
- `BuffersAreOwn`, `OneVersionAlways`, `VersionsGoForward` relate the outputs to the
  servers' values; the last one compares with the last *clean* dataset, however many with
  an alarm came in between. Their invariant `ImportInv` (`ImportInvariant`) says that an
  attribute read so far holds the filter of its own bytes *in the last answer*
  (`OwnSoFar`), that only good keys have been passed while no error is on record, and
  that what was handed on belongs to answers not newer than the present ones
  (`PushedFrom`, existential in the answers: the servers have moved on since).
- `MemcachedRestart`: `RestartTypes`, `RestartPacksSafely`, `RestartAppends`,
  `RestartImplementsUnit`, and `GoodInThisLife`, whose
  invariant `LifeInv` adds that good results belong to configured keys and that a
  driver is stopped only under a unit that is down. `TooBigHarmsNoOther` says what
  remains of a truthful result in a block of any size: only a key whose own newest value
  was too long is reported good without being there; its invariant `HarmInv` says of
  each other good key that inside a pass it is packed, or still to be asked for. No hypotheses: they hold in a block too small for the
  repeated keys.

`PosixImport_proofs`, the unit on the file driver: `ImplementsUnit`;
`ColumnsStayAligned`, `OneLineAlways`, `LineBehindEveryRead` from `ColumnInv`: between
two read loops the attributes read are those of the line *hashed last* (the line in
`buf` may be freed by a restart, the hash survives it), inside one those of the line in
`buf`, and the next token is the column of the next attribute unless a throttled fetch
let the tokens run on. Reads in a freed line (`stale`) are always behind a throttled
fetch, which `ReadsStand` carries; `ValueInvariant` says that whatever they find, each
attribute holds one value, and the refinement of the unit rests on it. `OneLineAlways`
needs no width: a short line gives wrong columns, not two lines.

`SharedDriver_proofs`: `NoForeignBytesEver` for any number of units, keys and byte-wise
interleavings. `SharedInv` gives each key its `Place` and says that a thread in a pass
that missed nothing stands where its place is, that bytes copied so far are own bytes
of some version (the values may be torn, never foreign), and that a read that began
after its key was good copies from a filled place. That the places do not overlap is a
fact about a recursive function; it is proved through a least counterexample
(`LeastNat`, from well-foundedness), because the library's induction theorems cannot be
instantiated.

Its second half is about one unit alone on the driver. `AloneImplementsDriver`: the
fine-grained thread implements `MemcachedDriver`, where a get is one step and so is a
read. The mapping lets a get count as done when the server answers, and shows as
written the bytes that `memcpy` still owes; two history variables that restrict nothing
(`answer`, what the last good get of a key returned, and `last`, where the last pass
ended) give `MemcachedDriver` the variables that a thread's locals no longer hold.
The invariant `AloneInv` says where the packing stands (never past the place of the
key, since misses only make a pass shorter) and that what a read has copied is still
in the block. `AloneReadsWhole`: a read reported good is of one version, also after
passes that slid and with keys configured twice, by `AllFit` (which holds because the
block is sized for all keys) and `TruthfulWhileFitting`. So a torn value needs a
second thread, and (for values of fixed lengths, as in `SharedDriver`) the modules that
take a get as one step leave nothing out.

`DataImportHistory_proofs`: `ObjectsStayInUse` (inductive as it stands, through failed
starts), `ImplementsDriver`, `RowsAreOwn`, `RowsGoForward` (against the last row in which the
attribute was sure, whatever came in between). The reads know neither key
nor result, so the invariant `PackedInOrder` has to say where things are: as long as
all keys up to the n-th were found, the n-th lies behind n - 1 values. With it,
`HistoryInv` is `ImportInv`'s argument for rows.

`RTGenericDanteCU_proofs`: `ImplementsDante`; `ItemsAreOwn`,
`PropertiesAreOneSnapshot`, `DatasetStaysOwn`, `DatasetGoesForward`. The invariant of a
call, `CallInv`, carries the reason why a throttled fetch does no harm: within a paced
call the only keys inside the window are those this call fetched, and the items to
come of a key inside it follow at once, so that a fetch is throttled only while its
key is the one in the block (`InOrder`). `DatasetInv` adds that no version in the
dataset is newer than what the call in progress gave.

`RTChaos2Memcache_proofs`: `TypeCorrect`; `BufferSafe`: `size` is what is allocated and
`off` never passes it, through growth and restart; `RowsAreWhole`: what is copied so far
is every passed output in turn at the size it was copied with (`AllBefore`: none is
left out), and a row stored is that of all outputs.
The sum of the declared sizes is a recursive function, and `DeclaredType` proves it
total by the least counterexample, so that nothing is assumed of it.

The same module also extends `AttributeOffLen` (a machine of its own, `ConversionSpec`)
and proves, for any lengths, types and byte orders: `RoundTrips`, `HostOrderHolds`,
`ValuesArePublished` (what `copy()` leaves are the block's elements, each as a
reversed sequence where it was big-endian; the filter of `unitRun` leaves a scalar so,
or its product with the factor) and `NeighboursStay`. `ConversionInv` gives
each byte's place by `Swapped`; the lemmas under it say that `Swapped` stays inside its
element and undoes itself, and that it reverses each element.

The invariants `CallInv`, `DatasetInv`, `HistoryInv`, `PassInv` and the others were
checked with TLC on the runs' constants before they were proved; `AloneInv`, the
refinement and `WholeRead` with one unit and one key configured twice.

Only model-checked:

- `CatchesUp`, `Recorded`, `Settles`: liveness under fairness is outside the proof
  system. Every invariant and action property of a passing run is proved.

## 5. Not modelled

- `execOpcode` and the message interface: no caller.
- `RTDB`: a base class that fetches and computes nothing; `unitStore` pushes the
  dataset it was given. Its hard cases are calls through NULL pointers (a factory
  that returns NULL, an attribute historized before `unitInit` made `history`), which
  end the process, so that no state is left to speak of.
- `postData` (a REST call), launchers and the client: I/O only.
- The binary mode and `all_line` of the file driver: a plain copy whose only check
  leaves the offset out, and a different text for the same tokens.
- Two file drivers in one process: `strtok` keeps one position for both, and nothing
  is left to promise when their reads interleave.

## 6. Plan

Done: all modules of section 2, and the theorems of section 4. Next:

1. That the `Filter` of the history and `Converted` of DANTE are the conversions of
   `AttributeOffLen`: so far each is translated from its own place in the source.
2. `ColumnsAligned` for a paced unit without the history variable `throttled`.
3. `Pipeline`: the exporter's rows as the values the importer reads.

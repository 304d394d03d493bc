SPECIFICATION UnitSpec
CONSTANTS
    k1 = k1
    k2 = k2
    NoKey = NoKey
    Key = {k1, k2}
    data_keys <- MCdata_keys
    data_pack_len = 4
    Uint32 = 8
    maxUpdateRefresh = 1
    Lengths = {2}
    FetchArg = {NoKey, k1, k2}
    Flaky = {k1}
    MaxVersion = 2
    items <- MCgrouped
    Paced = TRUE
INVARIANTS OwnBytes OneSnapshot DatasetOwn
PROPERTIES DatasetForward CatchesUp

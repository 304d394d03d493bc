SPECIFICATION FairImportSpec
CONSTANTS
    k1 = k1
    k2 = k2
    NoKey = NoKey
    Key = {k1, k2}
    data_keys <- MCdata_keys
    data_pack_len = 6
    Uint32 = 8
    maxUpdateRefresh = 1
    Lengths = {2, 3}
    FetchArg = {NoKey}
    Flaky = {k1}
    MaxVersion = 2
    attribute_off_len_vec <- MCattributes
    Malloced <- MCMalloced
INVARIANTS ResultTruthful GoodBuffersAreOwn OneVersion
PROPERTIES VersionsForward CatchesUp

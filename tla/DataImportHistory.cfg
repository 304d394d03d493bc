SPECIFICATION HistorySpec
CONSTANTS
    k1 = k1
    k2 = k2
    NoKey = NoKey
    Key = {k1, k2}
    data_keys <- MCdata_keys
    data_pack_len = 4
    Uint32 = 8
    maxUpdateRefresh = 1
    Lengths = {2}
    FetchArg = {NoKey}
    Flaky = {k1, k2}
    MaxVersion = 2
    attribute_off_len_vec <- MCattributes
    Factory = {"instance", "NULL"}
INVARIANTS RowOwn ObjectsInUse
PROPERTIES RowsForward Recorded

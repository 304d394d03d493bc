SPECIFICATION RestartSpec
CONSTANTS
    k1 = k1
    k2 = k2
    NoKey = NoKey
    Key = {k1, k2}
    data_keys <- MCdata_keys
    json_data_key <- MCjson_data_key
    StringForm = FALSE
    data_pack_len = 3
    Uint32 = 8
    maxUpdateRefresh = 1
    Lengths = {1, 2}
    FetchArg = {NoKey}
    Flaky = {k1}
    MaxVersion = 2
    attribute_off_len_vec <- MCattributes
    Malloced <- MCMalloced
INVARIANTS TypeOK PackInsideBlock GoodSinceInit HarmsNoOther
PROPERTIES AppendsOnly

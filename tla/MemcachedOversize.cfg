SPECIFICATION Spec
CONSTANTS
    k1 = k1
    k2 = k2
    NoKey = NoKey
    Key = {k1, k2}
    data_keys <- MCdata_keys
    data_pack_len = 4
    Uint32 = 8
    maxUpdateRefresh = 1
    Lengths = {2, 3}
    FetchArg = {NoKey}
    Flaky = {}
    MaxVersion = 2
INVARIANTS ResultTruthful

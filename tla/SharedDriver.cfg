SPECIFICATION Spec
CONSTANTS
    k1 = k1
    k2 = k2
    u1 = u1
    u2 = u2
    Unit = {u1, u2}
    Key = {k1, k2}
    data_keys <- MCdata_keys
    length <- MClength
    maxUpdateRefresh = 0
    attribute_off_len_vec <- MCattributes
    Flaky = {k2}
    MaxVersion <- MCMaxVersion
INVARIANTS NoForeignBytes
PROPERTIES Settles

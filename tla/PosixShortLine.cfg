SPECIFICATION ImportSpec
CONSTANTS
    maxUpdateRefresh = 1
    Widths = {1, 3}
    HashLeft <- MCHashLeft
    Leftovers <- MCLeftovers
    MaxVersion = 2
    attribute_off_len_vec <- MCattributes
    Malloced <- MCMalloced
    Words = {}
    Undecodable = {}
INVARIANTS ColumnsAligned

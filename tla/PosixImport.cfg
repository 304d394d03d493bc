SPECIFICATION FairImportSpec
CONSTANTS
    maxUpdateRefresh = 1
    Widths = {3, 4}
    HashLeft <- MCHashLeft
    Leftovers <- MCLeftovers
    MaxVersion = 2
    attribute_off_len_vec <- MCattributes
    Malloced <- MCMalloced
    Words = {4}
    Undecodable = {2}
INVARIANTS ColumnsAligned OneLine LineBehindReads
PROPERTIES CatchesUp

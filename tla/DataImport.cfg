SPECIFICATION Spec
CONSTANTS
    attribute_off_len_vec <- MCattributes
    KeyBind = {0}
    ByteValue = {0, 1, 2}
    Blank = 0
    Malloced <- MCMalloced
    FetchError <- MCFetchError
    Content <- MCContent
INVARIANTS TypeOK InterfaceInUse NothingMissed CleanPush

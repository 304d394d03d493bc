SPECIFICATION EitherSpec
CONSTANTS
    rattrs <- MCrattrs
    Sizes = {0, 1, 3}
    Descriptions <- MCDescriptions
    Top = 31
INVARIANTS TypeOK CopyInsideBuffer StoredRowWhole
INVARIANTS RoundTrip ValuesPublished HostOrderDelivered NeighboursKept

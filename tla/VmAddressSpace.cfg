SPECIFICATION Spec
CONSTANTS
    Top = 7
    PageSizes = {1, 4}
    Spaces = {s1, s2}
    FlatMapped = {s2}
    Memory <- MCMemory
    TableRanges <- MCTableRanges
    Requests <- MCRequests
    MappedVAs <- MCMappedVAs
    UpdateRanges <- MCUpdateRanges
    Reservations <- MCReservations
    Regions <- MCRegions
    SpanUpdates = FALSE
    MaxPages = 3
    MaxUpdates = 2
    MaxOperations = 3
INVARIANTS
    PagePoolExact
    CommittedPagesListed
    VirtualUsableExact
    MappingNeverFails
PROPERTIES
    ClosedPagesNotAliased
CHECK_DEADLOCK FALSE

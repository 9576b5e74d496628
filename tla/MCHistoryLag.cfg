SPECIFICATION HistorySpec
CONSTANTS
    me = me
    other = other
    Me = me
    Other = other
    Times = {1, 2}
    RowIds = {2, 3, 4, 5, 6}
    Earlier <- MCEarlier
    Limit = 1
    MaxRows = 5
    MaxErrors = 1
    NoCursor = NoCursor
INVARIANTS
    LagIsInvisible
CHECK_DEADLOCK FALSE

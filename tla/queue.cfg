SPECIFICATION MCSpec
CONSTANTS
    Capacity = 4
    Messages = {a, b}
    Unset = Unset
    MaxPush = 7
CHECK_DEADLOCK FALSE
INVARIANTS NoDataRace WindowOK SizeIsBracketed
PROPERTY ImplementsFIFO

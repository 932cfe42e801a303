SPECIFICATION Spec
CONSTANTS
    Capacity = 2
    Messages <- MCMessages
    Unset = Unset
    SizeOf <- MCSizeOf
    TradeType = 3
    Files <- MCFiles
    MaxPieces = 3
CHECK_DEADLOCK FALSE
INVARIANTS BufferSafe NothingLeftBehind EndToEnd
PROPERTY Terminates

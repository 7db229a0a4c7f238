SPECIFICATION InventorySpec
CONSTANTS
    Inventories <- MCInventories
    GameOrdinals <- MCGameOrdinals
    Requests <- MCRequests
INVARIANTS
    DecoderAgreesWithEncoder
    ClosureExact
PROPERTY
    EveryInputAnswered
CHECK_DEADLOCK FALSE

SPECIFICATION Spec
CONSTANTS
    U64_LEN = 8
    ADDRESS_LEN = 20
    MAX_TX_LEN = 510
    MAX_TRANSACTION_LEN = 510
    MaxGrown = 4
    MAX_MEMO_LEN = 465
    SIZE_T_LEN = 4
    Starts <- AtBoundaries
    Bytes = {0, 127, 128}
INVARIANTS
    AcceptsOnlyDocumented
    RoundTrip
    ClientReadsTheSame
    DeviceReadsClient
    MemoIsFormattedWhole
CHECK_DEADLOCK FALSE

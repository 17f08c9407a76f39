SPECIFICATION Spec
CONSTANTS
    U64_LEN = 1
    ADDRESS_LEN = 1
    MAX_TX_LEN = 7
    MAX_TRANSACTION_LEN = 7
    MaxGrown = 8
    MAX_MEMO_LEN = 1
    SIZE_T_LEN = 4
    Starts <- FromEmpty
    Bytes = {0, 1, 65, 128, 253}
INVARIANTS
    TypeOK
    AcceptsOnlyDocumented
    RoundTrip
    OneAcceptedLength
    ClientReadsTheSame
CHECK_DEADLOCK FALSE

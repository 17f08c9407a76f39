SPECIFICATION HSpec
CONSTANTS
    U64_LEN = 1
    ADDRESS_LEN = 1
    MAX_TX_LEN = 5
    MAX_TRANSACTION_LEN = 5
    MAX_MEMO_LEN = 1
    SIZE_T_LEN = 4
    MAX_BIP32_PATH = 2
    ELEMENT_LEN = 1
    Commands <- SessionCommands
    MaxSent = 7
INVARIANTS
    HostTypeOK
    BufferIsWhatHostSent
PROPERTIES
    SignatureIsWhatHostSent
    BadStateIsDeserved

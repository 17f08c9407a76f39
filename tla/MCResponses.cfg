SPECIFICATION Spec
CONSTANTS
    PUBKEY_LEN = 2
    CHAINCODE_LEN = 1
    MAX_DER_SIG_LEN = 3
    Bytes = {0, 2}
INVARIANTS
    ClientUnpacks

\* Both rings under every interleaving of the two handlers with the main
\* program, when no handler outlasts a character.
SPECIFICATION FairSpec
CONSTANTS
    Byte = {b1, b2}
    NoByte = NoByte
    RX_BUFFER_SIZE = 2
    TX_BUFFER_SIZE = 2
    LongInterrupt = FALSE
INVARIANTS TypeOK RingsSound
PROPERTIES RxIsFifo TxIsFifo WriteReturns

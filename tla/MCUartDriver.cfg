\* With interrupts and without; more bytes are sent than all FIFOs hold.
CONSTANTS
    Size = 3
    HwSize = 1
    MaxTx = 3
    MaxRx = 3
SPECIFICATION FairSpec
INVARIANTS
    TransmitInOrder
    ReceiveInOrder
    FlushIsComplete
PROPERTIES
    EveryByteIsSent
CHECK_DEADLOCK FALSE

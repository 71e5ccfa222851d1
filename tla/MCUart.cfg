CONSTANTS
    FifoSize = 2
    RxLevel = 2
    TxSizes = {1, 4}
    EchoSizes = {1, 3}
    DuplexSizes = {1}
    TimedUsers = {"polling"}
SPECIFICATION FairSpec
INVARIANTS
    SentInOrder
    BufferKept
    UartInv
PROPERTIES
    ReadyMeansDone
    TransmitEnds
    ReceiveEnds

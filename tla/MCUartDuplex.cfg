CONSTANTS
    FifoSize = 3
    RxLevel = 2
    TxSizes = {1}
    EchoSizes = {3}
    DuplexSizes = {3}
    TimedUsers = {"polling"}
SPECIFICATION FairSpec
PROPERTIES
    ReceiveEnds

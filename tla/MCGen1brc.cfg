SPECIFICATION FairSpec
CONSTANTS
    w1 = w1
    w2 = w2
    Writers <- MCWriters
    Rows <- MCRows
    BlockRows <- MCBlockRows
INVARIANTS
    TypeOK
    EachBlockInOnePlace
    NoSendOnClosed
PROPERTIES
    Termination
    ImplementsOrderedWriter

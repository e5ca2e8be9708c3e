SPECIFICATION IxSpec
CONSTANTS
    IxKey = {k1, k2}
    IxPublisher = {p1}
    IxMaxQueue = 2
    IxMaxPending = 2
PROPERTY
    IxFlushKeepsRows

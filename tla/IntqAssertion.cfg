CONSTANTS
    INTQ_BUFSIZE = 3
    NoThread = NoThread
    NoByte = NoByte
    Writers = {w1}
    Readers = {r1, r2}
    MaxOut = 1
    MaxIn = 2
SPECIFICATION Spec
CHECK_DEADLOCK FALSE
INVARIANT WaitAssertion

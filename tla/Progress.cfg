CONSTANTS
    w1 = w1
    w2 = w2
    NoThread = NoThread
    NoByte = NoByte
    Off = Off
SPECIFICATION FairSpec
INVARIANTS
    CommandLineObeyed
PROPERTIES
    
    DelaysCalibrated
    SerialProgress
    EveryRequestServed
    PanicPrints
CHECK_DEADLOCK FALSE

\* Two reflectors, a network outage that cuts both connections.
SPECIFICATION LinkSpec
CONSTANTS
    Peer = {a, b}
    TxReset = 2
    RxReset = 4
    Fault = {"cut"}
    MaxFaults = 2
    Talker = {}
    MaxData = 0
PROPERTY LinkHeals

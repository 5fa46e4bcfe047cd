\* Two reflectors of which one talks, small counters, any two faults.
SPECIFICATION LinkSpec
CONSTANTS
    Peer = {a, b}
    TxReset = 2
    RxReset = 4
    Fault = {"cut", "reset", "crash"}
    MaxFaults = 2
    Talker = {a}
    MaxData = 1
INVARIANT ReadyIsAccepted
PROPERTIES OnlyDeadTimeOut StaleIsDropped LinkHealsUncut

\* A node with a leaf that changes and may be gone, a connection that comes and goes.
SPECIFICATION Spec
CONSTANTS
    Node = {n}
    Leaf = {Connected, l}
    Connected = Connected
    Value = {v}
    On = On
    Off = Off
    Absent = Absent
    Empty = Empty
    Thread = {t1, t2}
INVARIANT NoStatusIsMissed
PROPERTY BrokerCatchesUp

\* A UDP peer and a TCP trunk, two nodes that move, one list lost or overtaken.
SPECIFICATION Spec
CONSTANTS
    Callsign = {sm0abc, sm0xyz}
    Own = own
    Udp = {u}
    Tcp = {t}
    Trunk = {own, u, t}
    NoTrunk = NoTrunk
    OwnTtl = 2
    PeerTtl = 3
    MaxWire <- MCMaxWire
    MaxFaults = 1
INVARIANT IndexAgrees
PROPERTIES LeaverIsForgotten StayerIsShown

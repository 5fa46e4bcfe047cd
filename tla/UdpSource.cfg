\* Two nodes of either protocol, two ports, numbers that wrap after four.
SPECIFICATION Spec
CONSTANTS
    Client = {a, b}
    NoClient = NoClient
    Host = {h}
    Port = {p, q}
    None = None
    RemoteHost <- MCRemoteHost
    Width = 4
    MaxDelay = 1
    MayBeV2 = {b}
    UdpReset = 2
    MaxNumber = 1
    MaxWire <- MCMaxWire
INVARIANTS OneSource TakenInOrder

PROPERTY UnheardLeaves
CHECK_DEADLOCK FALSE

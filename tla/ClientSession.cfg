\* Two nodes, one of which may come with the callsign of the other.
SPECIFICATION Spec
CONSTANTS
    Con = {c1, c2}
    Callsign = {sm0abc, sm0xyz}
    NoCall = NoCall
    NoCon = NoCon
    TcpReset = 2
    UdpReset = 3
INVARIANTS LookupFinds NodeListsAgree
PROPERTIES LeaverGoes StrangerGoes VanishedGoes
CHECK_DEADLOCK FALSE

\* Four connections from three addresses, two links, a pool of two, one per address.
SPECIFICATION Spec
CONSTANTS
    c1 = c1
    c2 = c2
    c3 = c3
    c4 = c4
    ip1 = ip1
    ip2 = ip2
    ip3 = ip3
    Con = {c1, c2, c3, c4}
    Ip = {ip1, ip2, ip3}
    IpOf <- MCIpOf
    Link = {l1, l2}
    NoLink = NoLink
    NoCon = NoCon
    MaxPending = 2
    MaxPendingPerIp = 1
INVARIANTS NoDanglingInbound PoolWithinLimits
PROPERTIES NeverReplaced SilentPeerIsDropped
CHECK_DEADLOCK FALSE

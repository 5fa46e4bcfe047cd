\* Four reflectors in a tree, typed, meshed and translating; two turns, a fault.
SPECIFICATION Spec
CONSTANTS
    a = a
    b = b
    c = c
    d = d
    g1 = g1
    g2 = g2
    Node = {a, b, c, d}
    Speaker = {a, c}
    TG = {g1, g2}
    Type = {"A", "B"}
    Network <- MCNetwork
    MaxTurns = 2
    MaxSent = 1
    MaxFaults = 1
INVARIANTS ToldOnce NumbersCorrespond DisplayAgrees AllAreReached
CHECK_DEADLOCK FALSE

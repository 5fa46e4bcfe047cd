\* Any two losses; the messages of a turn may overtake each other.
SPECIFICATION Spec
CONSTANTS
    Peer = {a, b}
    NoOne = NoOne
    Priority = {1, 2}
    Lossy = {"connection", "satellite", "silence"}
    MaxLosses = 2
    MaxFrames = 0
    MaxWire = 2
INVARIANTS ShownTalkerIsKnown NeverBothYield
PROPERTY NextTurnHeals

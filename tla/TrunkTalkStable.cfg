\* Nothing is lost, and there is audio.
SPECIFICATION Spec
CONSTANTS
    Peer = {a, b}
    NoOne = NoOne
    Priority = {1, 2}
    Lossy = {}
    MaxLosses = 0
    MaxFrames = 1
    MaxWire = 2
PROPERTIES YieldEnds StopReleases

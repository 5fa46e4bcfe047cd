\* Two groups, one of them restricted and with auto QSY; an audio and a squelch
\* timeout, blocks and a version 1 client.
SPECIFICATION Spec
CONSTANTS
    a = a
    b = b
    g1 = g1
    g2 = g2
    Client = {a, b}
    TG = {g1, g2}
    NoTG = NoTG
    NoTalker = NoTalker
    Allowed <- MCAllowed
    V1Client = {b}
    TgForV1Clients = g1
    TalkerAudioTimeout = 1
    SqlTimeout = 4
    SqlTimeoutBlocktime = 2
    AutoQsyAfter <- MCAutoQsyAfter
    PtyBlocktime = {1}
INVARIANTS MembershipAgrees NoNullTalkerBlocked QuietTalkerIsReleased
PROPERTIES SilentStopIsQsy ImplementsTalkGroups BlockedNeverTakesTurn BlockIsServed AutoQsyIsSpaced EveryTurnEnds BlockedForEverOnlyIfSending

SPECIFICATION CallKitSpec
CONSTANTS
    Calls = {c1, c2}
    Contacts = {p1}
    None = None
    CallKit = TRUE
    MaxTransactions = 1
    Switches = {"mute", "video", "background"}
SYMMETRY Symmetry
INVARIANTS
    CallKitInv
    ConnectedCallCanBeEnded
PROPERTY
    EndedStaysEnded
CONSTRAINT
    SwitchesOfOneCall

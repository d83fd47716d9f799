SPECIFICATION Spec
CONSTANTS
    Calls = {c1, c2}
    Contacts = {p1, p2}
    None = None
    CallKit = FALSE
    MaxRecords = 2
    Switches = {}
SYMMETRY Symmetry
PROPERTIES
    OldHangupIgnored
CHECK_DEADLOCK FALSE

SPECIFICATION FairSpec
CONSTANTS
    Calls = {c1, c2}
    Contacts = {p1}
    None = None
    CallKit = FALSE
    MaxRecords = 1
    Switches = {}
PROPERTIES
    NoCallRingsForever
CHECK_DEADLOCK FALSE

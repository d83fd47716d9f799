SPECIFICATION CallKitSpec
CONSTANTS
    Calls = {c1}
    Contacts = {p1}
    None = None
    CallKit = TRUE
    MaxTransactions = 1
    Switches = {"mute"}
INVARIANT
    NoMediaBeforeAccepted

SPECIFICATION Spec
CONSTANTS
    Calls = {c1, c2}
    Contacts = {p1, p2}
    None = None
    CallKit = FALSE
    MaxRecords = 2
    Switches = {"mute", "video", "background"}
SYMMETRY Symmetry
INVARIANTS
    ServiceInv
    ReadyForNewCall
    ClientBelongsToCall
    RecordTellsOutcome
    AnswerComesFirst
    MediaFollowsCall
PROPERTIES
    EndedStaysEnded
    ObsoleteIncomingIsSilent
CONSTRAINT
    BackgroundOfOneCall

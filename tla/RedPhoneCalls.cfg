SPECIFICATION RedPhoneSpec
CONSTANTS
    Calls = {c1, c2}
    Sessions = {s1}
    None = None
    MAX_TRY_COUNT = 2
    MaxRequests = 1
INVARIANTS
    OnlyCurrentCallLives
    AnswerIsKept
PROPERTIES
    ProgressNeverGoesBack
    EveryCallIsListed

SPECIFICATION Spec
CONSTANTS
    t1 = t1
    Tabs = {t1}
    Calls = {c1}
    BrowserOf <- OneBrowser
    Ops = {"query", "socket"}
    MaxSessions = 3
    MaxTrouble = 1
INVARIANTS
    TypeOK
    OneLivePerLogin
    OldSessionsEnd
    OldSocketsClose
    NobodyWaitsForNothing
    NoPageSignsItselfOut
CHECK_DEADLOCK FALSE

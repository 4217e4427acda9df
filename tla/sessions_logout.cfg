SPECIFICATION Spec
CONSTANTS
    t1 = t1
    Tabs = {t1}
    Calls = {c1}
    BrowserOf <- OneBrowser
    Ops = {"query", "socket"}
    MaxSessions = 3
    MaxTrouble = 1
PROPERTIES
    LogoutAllClosesSockets
CHECK_DEADLOCK FALSE

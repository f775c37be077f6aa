SPECIFICATION FairSpec
CONSTANTS
    NoFile = NoFile
    Files <- MCFiles
    Number <- MCNumber
    OneChar <- MCOneChar
    HostNames <- MCHostNames
    LongNames <- MCLongNames
    Denied <- MCDenied
    KBWrap <- MCKBWrap
INVARIANTS
    TypeOK
    ContentIsMeaning
    SettingsInForce
PROPERTY
    EventuallyReturns
\* the program has read its settings, or has ended
CHECK_DEADLOCK FALSE

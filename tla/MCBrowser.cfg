SPECIFICATION FairSpec
CONSTANTS
    Tabs = {t1}
    Accounts = {u1, u2}
    Nobody = Nobody
    Visitor = u1
    MaxTokens = 3
    MaxActs = 2
    MaxFaults = 1
INVARIANTS
    WipesExplained
    SignedInAs
    StaysSignedOut
    BrowserInv
PROPERTY
    Settles
CHECK_DEADLOCK FALSE

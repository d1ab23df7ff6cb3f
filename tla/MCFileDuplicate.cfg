SPECIFICATION Spec
CONSTANTS
    Clients = {c1}
    c1 = c1
    c2 = c2
    red = red
    blue = blue
    NFiles = 2
    NBins = 2
    BinOf <- MCBinOf
    Prints = {red, blue}
    Content <- MCDupContent
    Layout <- MCLayout
    Missing = Missing
    Flaky = {}
    MaxOpen = 9
    Strict = TRUE
    Slack = 0
    FullLoops = 2
    Dedup = TRUE
    MayCall <- MCDupCalls
    MaxCalls = 5
    Quiet = TRUE
    None = None
INVARIANTS
    DuplicatesAreCurrent

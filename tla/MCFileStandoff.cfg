SPECIFICATION Spec
CONSTANTS
    Clients = {c1, c2}
    c1 = c1
    c2 = c2
    red = red
    blue = blue
    NFiles = 3
    NBins = 2
    BinOf <- MCBinOf
    Prints = {red, blue}
    Content <- MCContent
    Layout <- MCLayout
    Missing = Missing
    Flaky = {3}
    MaxOpen = 1
    Strict = TRUE
    Slack = 0
    FullLoops = 2
    Dedup = TRUE
    MayCall <- MCStandoffCalls
    MaxCalls = 3
    Quiet = FALSE
    None = None
INVARIANTS
    NoStandoff

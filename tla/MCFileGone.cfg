SPECIFICATION Spec
CONSTANTS
    Clients = {c1}
    c1 = c1
    c2 = c2
    red = red
    blue = blue
    NFiles = 3
    NBins = 2
    BinOf <- MCBinOf
    Prints = {red, blue}
    Content <- MCGoneContent
    Layout <- MCLayout
    Missing = Missing
    Flaky = {}
    MaxOpen = 9
    Strict = TRUE
    Slack = 0
    FullLoops = 2
    Dedup = TRUE
    MayCall <- MCGoneCalls
    MaxCalls = 5
    Quiet = TRUE
    None = None
INVARIANTS
    HeadersThere

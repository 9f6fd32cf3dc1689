CONSTANTS
    hello = hello
    world = world
    call = call
    tokens = tokens
    Texts <- MCTexts
    Tools = {call}
    Usages = {tokens}
    NoUsage = NoUsage
    Sizes <- MCSizes
    MaxEventBytes = 2
    MaxResponseBytes = 14
    MaxLines = 6
SPECIFICATION Spec
INVARIANT AbandonedIsCounted

CONSTANTS
    g1 = g1
    g2 = g2
    g3 = g3
    Last = 2
    Generations = {g1, g2, g3}
    Missing = Missing
    MaxErrors = 2
SPECIFICATION OutputsSpec
INVARIANTS AllOrNothing CommitFits

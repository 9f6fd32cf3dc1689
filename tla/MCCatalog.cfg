CONSTANTS
    a = a
    b = b
    Vendors = {a, b}
    Shorts = {"x", "y"}
    NoVendor = NoVendor
    Defs <- MCDefs
    Filters <- MCFilters
    Rosters <- MCRosters
    Budgets <- MCBudgets
    DefaultMaxTokens = 2
    None = None
SPECIFICATION Spec
INVARIANTS FiltersHold OfferedIsServed NamesAreNotGuessed EffortIsAccepted BudgetIsRespected

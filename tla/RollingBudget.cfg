CONSTANTS
    Threads = {t1, t2}
    Budgets = {b1, b2}
    NoBudget = NoBudget
    Window = 2
    Limits = {1, 2}
    Counts = {1, 2}
    MaxTime = 3
    MaxCharges = 3
SPECIFICATION Spec
INVARIANTS
    BudgetSound
PROPERTIES KeptWhenLimitChanges
CHECK_DEADLOCK FALSE

\* Three sessions of two codes; the next one may be executed after an interruption.
CONSTANTS
    x = x
    y = y
    Codes = {x, y}
    TopN = 2
    LastSession = 3
    Markets <- Days
    InitialCash = 2030
    BuyRate = 2
    SellRate = 5
    Replayed = FALSE
    None = None
SPECIFICATION Spec
INVARIANT HoldingsArePaidFor
CHECK_DEADLOCK FALSE

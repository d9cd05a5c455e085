\* Three sessions of two codes; an interrupted one is replayed before the next.
CONSTANTS
    x = x
    y = y
    Codes = {x, y}
    TopN = 2
    LastSession = 3
    Markets <- Days
    InitialCash = 2030
    BuyRate = 2
    SellRate = 5
    Replayed = TRUE
    None = None
SPECIFICATION Spec
INVARIANTS
    TypeOK
    LedgersAgree
    CashIsCovered
    ReplayIsSafe
    TradingCreatesNoValue
CHECK_DEADLOCK FALSE

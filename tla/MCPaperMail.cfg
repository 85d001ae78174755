CONSTANTS
    EUR = EUR
    USD = USD
    eurusd = eurusd
    gold = gold
    d1 = d1
    d2 = d2
    Desks = {d1, d2}
    TradeIds = {t1, t2}
    Symbols = {eurusd, gold}
    Currencies = {EUR, USD}
    Pair <- Pairs
    Unknown = Unknown
    Holdings <- LongOrGold
    Requested = 3
    VolumeMin = 1
    VolumeMax = 4
    VolumeStep = 4
    Limit = 3
    Orders <- CalmOrKilled
    Calls <- DeskCalls
    MaxRisk = 1
    MaxOpenRisk = 2
    DailyHalt = 1
    WeeklyHalt = 1
    Mailing = {d1}
    NoTrade = NoTrade
SPECIFICATION Spec
INVARIANTS NotificationNeverFailsCycle

CONSTANTS
    me = me
    peer = peer
    book1 = book1
    book2 = book2
    Undefined = Undefined
    Account = {me, peer}
    Item = {book1, book2}
    FieldOrder <- MCFieldOrder
    InitialMarkets <- MCMarkets
    PageSize = 50
    Ask = {2}
    MaxIds = 3
    Money = 4
    Fee = 1
    MaxPresses = 3
SPECIFICATION Spec
INVARIANTS
    FreshCoinPaysPrice
    CoinReady

CONSTANTS
    a = a
    b = b
    market = market
    coin1 = coin1
    coin2 = coin2
    book = book
    f1 = f1
    f2 = f2
    SUI = SUI
    d1 = d1
    d2 = d2
    Address = {a, b}
    Id <- MCId
    CoinType = {SUI}
    Description = {d1}
    MaxU64 = 2
    MaxCommands = 2
    GenesisObj <- MCGenesisObj
    GenesisHolder <- MCGenesisHolder
SPECIFICATION Spec
SYMMETRY CoinSymmetry
PROPERTIES
    ImplementsLedger

CONSTANTS
    seller = seller
    buyer = buyer
    market = market
    coin1 = coin1
    coin2 = coin2
    book1 = book1
    book2 = book2
    f1 = f1
    f2 = f2
    SUI = SUI
    d1 = d1
    Address = {seller, buyer}
    Id <- MCId
    CoinType = {SUI}
    Description = {d1}
    MaxU64 = 2
    MaxCommands = 2
    GenesisObj <- MCGenesisObj
    GenesisHolder <- MCGenesisHolder
SPECIFICATION Spec
SYMMETRY Symmetry
INVARIANTS
    ValueConserved
    PaymentFits
    OthersSettled

CONSTANTS
    me = me
    None = None
    counter = counter
    Account = {me, you}
    Book = {1, 2}
    coin = 0
    Ask = {5}
    MaxU64 = 1
    MaxPresses = 1
    MaxEvents = 1
    InitialHolders <- Holders
    you = you
SPECIFICATION Spec
PROPERTY ConnectedPageShowsBooks

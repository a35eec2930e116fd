CONSTANTS
    me = me
    None = None
    counter = counter
    Account = {me, you}
    Book = {1, 2}
    coin = 0
    Ask = {5}
    MaxU64 = 1
    MaxPresses = 2
    MaxEvents = 2
    InitialHolders <- Holders
    you = you
SPECIFICATION Spec
INVARIANTS
    ActsOnNamedBook
    ResetOnlyForOwner
 

CONSTANTS
    me = me
    peer = peer
    book1 = book1
    book2 = book2
    Undefined = Undefined
    Account = {me, peer}
    Item = {book1, book2}
    FieldOrder <- MCFieldOrder
    PageSize = 3
    Ask = {1}
    MaxIds = 3
SPECIFICATION Spec
PROPERTIES
    PageCatchesUp

SPECIFICATION Spec
CONSTANTS
    u1 = u1
    u2 = u2
    c1 = c1
    c2 = c2
    Uuid = {u1, u2}
    Content = {c1, c2}
    address1 = address1
    address2 = address2
    number = number
    NoPhone = NoPhone
    Text = {NoPhone, address1, address2, number}
    MailingAddress <- MCMailingAddress
    Address = {a1, a2}
    NoNode = NoNode
    Garbage = Garbage
    NoAccount = NoAccount
    Lost = Lost
    Validation = "Loose"
    Configured = "products.json"
    InitialFiles <- MCInitialFiles
    MaxRegistry = 3
INVARIANTS TypeOK 
 

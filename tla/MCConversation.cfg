\* A DM of two users that both create (the group of two and all its operations, with one
\* crash, has its own parameters, in the module); a group of three and its receipts, with one crash.
CONSTANTS
    Users <- Pair
    Founders = {}
    Gateways <- Two
    Tasks <- Slots
    Home <- Homes
    Requests <- Creations
    MaxOps = 4
    MaxCrashes = 0
    MaxLosses = 0
    Readers <- Everyone
    Members <- Group
    Author = "alice"
    Devices <- Phones
    UserOf <- Holder
    Processes <- Two
    GatewayOf <- Socket
    Messages <- Numbers
    Own <- Sent
    MaxReceipts = 3
    MaxDeaths = 1
SPECIFICATION ConversationSpec
INVARIANTS
    ConversationTypeOK
    TicksAreEarned
    ReceiptsKept
    CleanUsersAgree
    EventsTellMembers
    CreatedIsComplete
CHECK_DEADLOCK FALSE

\* Two gateways, windows of two numbers, at most two calls of each waiting.
CONSTANTS
    Gateways = {g1, g2}
    Window = 2
    MaxCounter = 6
    MaxWaiting = 2
SPECIFICATION Spec
INVARIANTS
    TypeOK
    NeverIssuedTwice
CHECK_DEADLOCK FALSE

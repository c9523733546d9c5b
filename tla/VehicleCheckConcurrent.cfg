\* Two requests whose database calls interleave in every order, and crashes.
CONSTANTS
    Clients = {c1, c2}
    ItemIds = {i1}
    NewLines <- PartLine
    PartOrders <- OrderedBody
SPECIFICATION Spec
SYMMETRY ClientSymmetry
INVARIANTS
    DatesMatchStatus
    OneRecoveryNotice
CHECK_DEADLOCK FALSE

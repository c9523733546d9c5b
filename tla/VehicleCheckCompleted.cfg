\* What the repository says of a completed dossier, one request at a time.
CONSTANTS
    Clients = {c1}
    ItemIds = {i1}
    NewLines <- PartLine
    PartOrders <- OrderedBody
SPECIFICATION Spec
PROPERTY CompletedIsFrozen
CHECK_DEADLOCK FALSE

\* What the dashboard says of a dossier closed without damage, with two requests.
CONSTANTS
    Clients = {c1, c2}
    ItemIds = {i1}
    NewLines <- PartLine
    PartOrders <- OrderedBody
SPECIFICATION Spec
INVARIANT ClosedVehicleInStation
CHECK_DEADLOCK FALSE

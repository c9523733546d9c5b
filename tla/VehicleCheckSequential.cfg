\* One request at a time (and crashes): long sequences of legal calls.
CONSTANTS
    Clients = {c1}
    ItemIds = {i1, i2, i3}
    NewLines <- LineKinds
    PartOrders <- Bodies
SPECIFICATION Spec
SYMMETRY LineSymmetry
INVARIANTS
    TypeOK
    TotalsAgree
    ClosedDossierIsSettled
    SharedLinkHasRepair
    WorkBelongsToSummary
PROPERTIES
    CompletesOnlyWhenDone
\* A deleted dossier stays deleted.
CHECK_DEADLOCK FALSE

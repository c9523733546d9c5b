\* Two creations at a time, four in all, while the rules are edited twice.
CONSTANTS
    Editors = {e1, e2}
    RuleIds = {r1, r2}
    Types <- TheTypes
    Parts <- TheParts
    AnyPart = AnyPart
    NoRule = NoRule
    Bodies <- TheBodies
    Seeds <- TheSeeds
    MaxEdits = 2
    dent = dent
    hood = hood
    door = door
    Clients = {c1, c2}
    Plates = {p1, p2, p3}
    ItemLists <- TheItemLists
    CHECK_NUMBER_CREATE_ATTEMPTS = 2
    MaxCreations = 4
SPECIFICATION Spec
SYMMETRY Interchangeable
INVARIANTS TypeOK OvertakenWhenRefused
PROPERTIES NumberedAfter LinesFollowRules
CHECK_DEADLOCK FALSE

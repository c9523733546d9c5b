\* One request at a time, on the departures of two vehicles.
CONSTANTS
    Clients = {c1}
    Departures = {d1, d2, d3}
    Vehicles = {v1, v2}
    Providers = {p1, p2}
    Planning = {"PLANNED"}
SPECIFICATION Spec
SYMMETRY Interchangeable
INVARIANT DatesKnown
PROPERTIES ReturnedIsFinal ClosedStaysInPlace

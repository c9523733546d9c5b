\* Overlapping requests: a late status change reaches a returned departure.
CONSTANTS
    Clients = {c1, c2}
    Departures = {d1}
    Vehicles = {v1}
    Providers = {p1, p2}
    Planning = {"PLANNED"}
SPECIFICATION Spec
SYMMETRY Interchangeable
PROPERTY ReturnedIsFinal

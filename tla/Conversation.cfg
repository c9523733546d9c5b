\* Three overlapping requests on the conversation; the requests that change who may take
\* part, and the decision requests, come alone.
CONSTANTS
    Clients = {c1, c2, c3}
    Managers = {m1, m2}
    Collaborator = Collaborator
    Admin = Admin
    Overlapping = {"create", "participants", "status", "reply"}
SPECIFICATION Spec
SYMMETRY Interchangeable
INVARIANTS TypeOK AccessFollowsAssignment DecisionMakersHaveLink RequesterTakesPart DatesTellStatus

-------------------------- MODULE MCCheckCreation --------------------------
(* Instances of CheckCreation for TLC. *)
EXTENDS CheckCreation, TLC

CONSTANTS dent, hood, door

TheTypes == {dent}
TheParts == {hood, door}

Only(part, status, floor) ==
    [type |-> dent, part |-> part, status |-> status, allowed |-> {}, mandatory |-> {}, floor |-> floor]

\* A general rule with a threshold.
General == Only({}, {"CONDITIONAL"}, {2})
TheSeeds == {[r \in RuleIds |-> IF r = q THEN FromBody(General) ELSE NoRule] : q \in RuleIds}

\* That rule again, a rule of a part, a rule made general, a ban.
TheBodies ==
    {General, Only({hood}, {"MANDATORY"}, {}), Only({AnyPart}, {}, {}),
     [Only({}, {}, {}) EXCEPT !.allowed = {FALSE}]}

\* A small repair of the hood with a large one of the door.
TheItemLists == {(<<dent, hood>> :> 1) @@ (<<dent, door>> :> 3)}

Interchangeable == Permutations(Clients) \cup Permutations(RuleIds) \cup Permutations(Plates) \cup Permutations(Editors)
=============================================================================

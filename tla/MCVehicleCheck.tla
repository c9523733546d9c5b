--------------------------- MODULE MCVehicleCheck ---------------------------
(* Small instances of VehicleCheck for TLC. *)
EXTENDS VehicleCheck, TLC

\* Lines: one that needs a part, one the manufacturer forbids (an ordinary line is the
\* first one once its part is ordered).
LineKinds == {[forbidden |-> FALSE, required |-> TRUE],
              [forbidden |-> TRUE, required |-> FALSE]}
PartLine == {[forbidden |-> FALSE, required |-> TRUE]}

\* Bodies of PATCH part-order: a status alone, as the dashboard sends it, or the flag alone.
Bodies == {[required |-> "ABSENT", status |-> "ORDERED"],
           [required |-> "ABSENT", status |-> "TO_ORDER"],
           [required |-> "TRUE", status |-> "ABSENT"]}
OrderedBody == {[required |-> "ABSENT", status |-> "ORDERED"],
                [required |-> "ABSENT", status |-> "TO_ORDER"]}

LineSymmetry == Permutations(ItemIds)
ClientSymmetry == Permutations(Clients)

=============================================================================

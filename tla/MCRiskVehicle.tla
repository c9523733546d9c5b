---------------------------- MODULE MCRiskVehicle ----------------------------
(* Instances of RiskVehicle for TLC. *)
EXTENDS RiskVehicle, TLC

\* Requests and images are interchangeable.
Interchangeable ==
    Permutations(Clients) \cup Permutations(TreatmentAssets) \cup Permutations(CommercialAssets)
=============================================================================

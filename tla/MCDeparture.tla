----------------------------- MODULE MCDeparture -----------------------------
(* Instances of Departure for TLC. *)
EXTENDS Departure, TLC

Interchangeable ==
    Permutations(Clients) \cup Permutations(Departures) \cup Permutations(Vehicles)
        \cup Permutations(Providers)
=============================================================================

---------------------------- MODULE MCAccessCode ----------------------------
(* Instances of AccessCode for TLC. *)
EXTENDS AccessCode, TLC

Interchangeable == Permutations(Clients) \cup Permutations(Managers) \cup Permutations(Codes)
=============================================================================

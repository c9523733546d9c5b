--------------------------- MODULE MCConversation ---------------------------
(* Instances of Conversation for TLC. *)
EXTENDS Conversation, TLC

Interchangeable == Permutations(Clients) \cup Permutations(Managers)
=============================================================================

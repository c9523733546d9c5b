--------------------------- MODULE EmailDelivery ---------------------------
(***************************************************************************)
(* What the e-mail outbox promises of every queued e-mail, whatever number *)
(* of backend processes drain it and whenever they stop: it stays queued   *)
(* until it is sent or given up (or withdrawn with its notification), it   *)
(* is recorded as sent only after the mail server took it, and neither     *)
(* outcome is ever revised.  The mail server may get it several times.     *)
(***************************************************************************)
EXTENDS Naturals

CONSTANT Emails

VARIABLES
    phase,       \* of each e-mail
    delivered    \* how often the mail server took each e-mail

Phases == {"absent", "queued", "sent", "abandoned", "withdrawn"}
vars == <<phase, delivered>>

Init ==
    /\ phase = [e \in Emails |-> "absent"]
    /\ delivered = [e \in Emails |-> 0]

Move(e, from, to) ==
    /\ phase[e] = from
    /\ phase' = [phase EXCEPT ![e] = to]
    /\ UNCHANGED delivered

Accept(e)   == Move(e, "absent", "queued")
Finish(e)   == delivered[e] > 0 /\ Move(e, "queued", "sent")
Withdraw(e) == \E from \in {"queued", "sent", "abandoned"} : Move(e, from, "withdrawn")

\* A slow process may still transmit an e-mail that another one has settled.
Transmit(e) ==
    /\ phase[e] # "absent"
    /\ delivered' = [delivered EXCEPT ![e] = @ + 1]
    /\ UNCHANGED phase

\* Several e-mails interrupted at their last attempt are given up at once.
GiveUpAll(S) ==
    /\ \A e \in S : phase[e] = "queued"
    /\ phase' = [e \in Emails |-> IF e \in S THEN "abandoned" ELSE phase[e]]
    /\ UNCHANGED delivered

Next ==
    \/ \E e \in Emails : Accept(e) \/ Finish(e) \/ Withdraw(e) \/ Transmit(e)
    \/ \E S \in SUBSET Emails : GiveUpAll(S)

Spec == Init /\ [][Next]_vars

=============================================================================

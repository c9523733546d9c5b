---------------------------- MODULE EmailWorker ----------------------------
(***************************************************************************)
(* The e-mail outbox (table NotificationEmail) and the processes that      *)
(* drain it (notification-email-worker.service.ts).  Each backend process  *)
(* has one worker; they share only the database.                           *)
(*                                                                         *)
(* Time is abstract: elapsed[e] says that the delay of e's status is over, *)
(* STALE_PROCESSING_MS for a PROCESSING e-mail, nextAttemptAt for a FAILED *)
(* one.  Texts, access codes and error messages are left out.              *)
(***************************************************************************)
EXTENDS Integers, FiniteSets, FiniteSetsExt

CONSTANTS
    Workers,        \* the backend processes
    NEmails,        \* number of e-mails queued in a run, in order of creation
    MAX_ATTEMPTS,   \* attempts after which a failed e-mail is not retried
    MaxCrashes      \* bound on process crashes

ASSUME WorkersAssumption == IsFiniteSet(Workers)
ASSUME BoundsAssumption == NEmails \in Nat /\ MAX_ATTEMPTS \in Nat \ {0} /\ MaxCrashes \in Nat

Emails == 1..NEmails
NoEmail == 0

VARIABLES
    status,      \* NotificationEmail.status, "ABSENT" before it is queued, "DELETED" after
    attempts,    \* NotificationEmail.attempts
    elapsed,     \* the delay of the e-mail's status is over
    delivered,   \* how often the mail server took the e-mail
    worker,      \* where each process is in kick/drain/claimNext/deliver
    crashes

rows == <<status, attempts, elapsed>>
vars == <<rows, delivered, worker, crashes>>

Statuses == {"PENDING", "PROCESSING", "FAILED", "SENT"}
Worker ==
    [at : {"idle", "scheduled", "draining"}]
    \cup [at : {"claiming"}, email : Emails \cup {NoEmail}, seen : {"PENDING", "FAILED"},
          reset : SUBSET Emails]
    \cup [at : {"sending", "confirming", "rejecting"}, email : Emails]

TypeOK ==
    /\ status \in [Emails -> Statuses \cup {"ABSENT", "DELETED"}]
    /\ attempts \in [Emails -> Nat]
    /\ elapsed \in [Emails -> BOOLEAN]
    /\ delivered \in [Emails -> Nat]
    /\ worker \in [Workers -> Worker]
    /\ crashes \in 0..MaxCrashes

-----------------------------------------------------------------------------

At(w, place) == worker[w].at = place
Go(w, next) == worker' = [worker EXCEPT ![w] = next]
Rest == [at |-> "idle"]
With(place, e) == [at |-> place, email |-> e]

\* claimNext's transaction holds the locks of the stale rows it has reset.
Unlocked(w, e) ==
    \A v \in Workers \ {w} : At(v, "claiming") => e \notin worker[v].reset

Init ==
    /\ status = [e \in Emails |-> "ABSENT"]
    /\ attempts = [e \in Emails |-> 0]
    /\ elapsed = [e \in Emails |-> FALSE]
    /\ delivered = [e \in Emails |-> 0]
    /\ worker = [w \in Workers |-> Rest]
    /\ crashes = 0

\* A notification is created with its e-mail (conversations, risk vehicles).
Enqueue(e) ==
    /\ status[e] = "ABSENT" /\ \A f \in 1..(e - 1) : status[f] # "ABSENT"
    /\ status' = [status EXCEPT ![e] = "PENDING"]
    /\ UNCHANGED <<attempts, elapsed, delivered, worker, crashes>>

\* The notification is deleted, its e-mail with it (onDelete: Cascade).
Cascade(e) ==
    /\ status[e] \in Statuses
    /\ \A w \in Workers : At(w, "claiming") => e \notin worker[w].reset
    /\ status' = [status EXCEPT ![e] = "DELETED"]
    /\ UNCHANGED <<attempts, elapsed, delivered, worker, crashes>>

\* Time passes until the e-mail is stale, or due again.
Elapse(e) ==
    /\ status[e] \in {"PROCESSING", "FAILED"} /\ ~elapsed[e]
    /\ elapsed' = [elapsed EXCEPT ![e] = TRUE]
    /\ UNCHANGED <<status, attempts, delivered, worker, crashes>>

(* kick: by the poll timer or by whoever queued an e-mail; a kick of a process that is *)
(* already scheduled or draining does nothing.                                         *)

Kick(w) ==
    /\ At(w, "idle")
    /\ Go(w, [at |-> "scheduled"])
    /\ UNCHANGED <<rows, delivered, crashes>>

Drain(w) ==
    /\ At(w, "scheduled")
    /\ Go(w, [at |-> "draining"])
    /\ UNCHANGED <<rows, delivered, crashes>>

(* claimNext, one transaction: reset the stale e-mails, look for the oldest one to send, *)
(* then claim it if its status has not changed since.                                    *)

\* Mutant: an interrupted e-mail is left alone.
NeverStale == {}

Stale == {e \in Emails : status[e] = "PROCESSING" /\ elapsed[e]}

\* Mutant: the attempts are not looked at.
ClaimableAgain ==
    {e \in Emails : status[e] = "PENDING" \/ (status[e] = "FAILED" /\ elapsed[e]) \/ e \in Stale}

Claimable ==
    {e \in Emails : /\ attempts[e] < MAX_ATTEMPTS
                    /\ \/ status[e] = "PENDING"
                       \/ status[e] = "FAILED" /\ elapsed[e]
                       \/ e \in Stale}

\* Mutant: the status is read before the stale e-mails are reset.
SeenBeforeReset(e) == IF e = NoEmail THEN "FAILED" ELSE status[e]

\* The status the candidate has in the transaction.
Seen(e) == IF e # NoEmail /\ status[e] = "PENDING" THEN "PENDING" ELSE "FAILED"

ClaimFind(w) ==
    LET oldest == IF Claimable = {} THEN NoEmail ELSE Min(Claimable) IN
    /\ At(w, "draining") /\ \A e \in Stale : Unlocked(w, e)
    /\ Go(w, [at |-> "claiming", email |-> oldest, reset |-> Stale, seen |-> Seen(oldest)])
    /\ UNCHANGED <<rows, delivered, crashes>>

\* Mutant: the candidate is claimed whatever its status has become.
WinsAnyway(r) == r.email # NoEmail

\* updateMany ... where id and status are the candidate's.
Wins(r) ==
    /\ r.email # NoEmail
    /\ r.email \in r.reset \/ status[r.email] = r.seen

\* The transaction commits, with the claim or without (then the drain is over).
ClaimCommit(w) ==
    LET r == worker[w] IN
    /\ At(w, "claiming") /\ (r.email # NoEmail => Unlocked(w, r.email))
    /\ status' = [e \in Emails |-> IF Wins(r) /\ e = r.email THEN "PROCESSING"
                                   ELSE IF e \in r.reset THEN "FAILED" ELSE status[e]]
    /\ elapsed' = [e \in Emails |-> IF Wins(r) /\ e = r.email THEN FALSE
                                    ELSE e \in r.reset \/ elapsed[e]]
    /\ attempts' = [e \in Emails |-> IF Wins(r) /\ e = r.email THEN attempts[e] + 1
                                     ELSE attempts[e]]
    /\ Go(w, IF Wins(r) THEN With("sending", r.email) ELSE Rest)
    /\ UNCHANGED <<delivered, crashes>>

(* deliver: the mail server takes the e-mail or not, and may take it although the *)
(* process then fails to record it.                                               *)

SendOk(w) ==
    /\ At(w, "sending")
    /\ delivered' = [delivered EXCEPT ![worker[w].email] = @ + 1]
    /\ Go(w, With("confirming", worker[w].email))
    /\ UNCHANGED <<rows, crashes>>

SendError(w) ==
    /\ At(w, "sending")
    /\ Go(w, With("rejecting", worker[w].email))
    /\ UNCHANGED <<rows, delivered, crashes>>

\* Mutant: the result is recorded whatever the e-mail has become.
RecordAnyway(w, result) ==
    /\ Unlocked(w, worker[w].email)
    /\ status' = [status EXCEPT ![worker[w].email] = result]
    /\ Go(w, [at |-> "draining"])
    /\ UNCHANGED <<attempts, elapsed, delivered, crashes>>

\* The result is recorded only on a PROCESSING e-mail, whoever is processing it now.
\* The drain then goes on, or ends after MAX_EMAILS_PER_DRAIN e-mails.
Record(w, result) ==
    LET e == worker[w].email IN
    /\ Unlocked(w, e)
    /\ status' = IF status[e] = "PROCESSING" THEN [status EXCEPT ![e] = result] ELSE status
    /\ elapsed' = IF status[e] = "PROCESSING" THEN [elapsed EXCEPT ![e] = FALSE] ELSE elapsed
    /\ \E next \in {"draining", "idle"} : Go(w, [at |-> next])
    /\ UNCHANGED <<attempts, delivered, crashes>>

Confirm(w) == At(w, "confirming") /\ Record(w, "SENT")

\* Mutant: a failed delivery is tried again at once.
RejectAndResend(w) ==
    /\ At(w, "rejecting")
    /\ Go(w, With("sending", worker[w].email))
    /\ UNCHANGED <<rows, delivered, crashes>>

Reject(w) == At(w, "rejecting") /\ Record(w, "FAILED")

\* The update to SENT fails: the catch block treats it as a failed delivery.
ConfirmError(w) ==
    /\ At(w, "confirming")
    /\ Go(w, With("rejecting", worker[w].email))
    /\ UNCHANGED <<rows, delivered, crashes>>

\* The process stops and restarts, or the database fails it in claimNext or in the
\* catch block: an open transaction is rolled back, a claimed e-mail stays PROCESSING.
Crash(w) ==
    /\ ~At(w, "idle") /\ crashes < MaxCrashes
    /\ crashes' = crashes + 1
    /\ Go(w, Rest)
    /\ UNCHANGED <<rows, delivered>>

-----------------------------------------------------------------------------

Work(w) ==
    \/ Kick(w) \/ Drain(w) \/ ClaimFind(w) \/ ClaimCommit(w)
    \/ SendOk(w) \/ SendError(w) \/ Confirm(w) \/ ConfirmError(w) \/ Reject(w)

Next ==
    \/ \E e \in Emails : Enqueue(e) \/ Cascade(e) \/ Elapse(e)
    \/ \E w \in Workers : Work(w) \/ Crash(w)

Spec == Init /\ [][Next]_vars

\* The poll timer fires, a running process goes on, sendMail returns (nodemailer has
\* timeouts) and time passes; nobody has to queue or delete an e-mail, or to crash.
Fairness ==
    /\ \A w \in Workers : WF_vars(Work(w))
    /\ \A e \in Emails : WF_vars(Elapse(e))

FairSpec == Spec /\ Fairness

-----------------------------------------------------------------------------
(* Properties *)

Holding(e, place) == {w \in Workers : At(w, place) /\ worker[w].email = e}

\* An e-mail is retried at most MAX_ATTEMPTS times, and once more for each other
\* process that had chosen it before: claimNext compares the status only, so a FAILED
\* e-mail can have failed again since it was chosen.
AttemptsBounded ==
    \A e \in Emails : attempts[e] <= MAX_ATTEMPTS + Cardinality(Workers) - 1

\* The mail server gets an e-mail at most once per attempt, though stale workers,
\* failed confirmations and restarts send it again.
OneDeliveryPerAttempt ==
    \A e \in Emails : delivered[e] + Cardinality(Holding(e, "sending")) <= attempts[e]

\* An e-mail recorded as sent was taken by the mail server, and is not sent again or
\* marked failed by a process that was slow to deliver it: only its deletion follows.
SentIsFinal ==
    [][\A e \in Emails :
          /\ status[e] = "SENT" => status'[e] \in {"SENT", "DELETED"}
          /\ status[e] # "SENT" /\ status'[e] = "SENT" => delivered[e] > 0]_vars

\* Every queued e-mail is sent or has used up its attempts, although kicks are lost
\* while a drain ends and processes stop with e-mails they have claimed.
EveryEmailSettles ==
    \A e \in Emails :
        status[e] = "PENDING" ~>
            \/ status[e] \in {"SENT", "DELETED"}
            \/ status[e] = "FAILED" /\ attempts[e] >= MAX_ATTEMPTS

-----------------------------------------------------------------------------
(* The outbox implements EmailDelivery *)

\* Given up: failed, out of attempts, and no process has chosen it before.
Abandoned(e) ==
    /\ status[e] = "FAILED" /\ attempts[e] >= MAX_ATTEMPTS
    /\ \A w \in Workers : ~(At(w, "claiming") /\ worker[w].email = e)

phaseOf ==
    [e \in Emails |->
        CASE status[e] = "ABSENT" -> "absent"
          [] status[e] = "SENT" -> "sent"
          [] status[e] = "DELETED" -> "withdrawn"
          [] Abandoned(e) -> "abandoned"
          [] OTHER -> "queued"]

Delivery == INSTANCE EmailDelivery WITH phase <- phaseOf

\* Whatever the interleaving, an e-mail only goes through the phases of EmailDelivery.
ImplementsDelivery == Delivery!Spec

=============================================================================

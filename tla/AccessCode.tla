----------------------------- MODULE AccessCode -----------------------------
(***************************************************************************)
(* The personal code by which a manager opens the decision links he is     *)
(* sent (public-access-code.service.ts): its creation, its e-mails and the *)
(* attempts to enter it.                                                   *)
(*                                                                         *)
(* Requests interleave between their database calls.  A transaction that   *)
(* starts with SELECT ... FOR UPDATE holds the row of the manager to its   *)
(* commit, and every write of that row waits for it.  The share, the       *)
(* cookies and the sessions a right code opens are left out: nothing here  *)
(* depends on them.                                                        *)
(***************************************************************************)
EXTENDS Integers, FiniteSets, Sequences

CONSTANTS
    Clients,                 \* the requests that may be in progress at one time
    Managers,
    Codes,                   \* the codes of CODE_LENGTH letters
    NoCode, Nobody,
    CODE_ATTEMPTS,           \* tries of getOrCreatePersonalCode
    MAX_CODE_ATTEMPTS,
    LOCK_DURATION,
    EMAIL_COOLDOWN,
    EMAIL_WINDOW,
    MAX_EMAILS_PER_WINDOW,
    MaxTime,                 \* bound on the clock
    MaxRequests,             \* bound on the requests
    MaxCrashes               \* bound on the interrupted requests

ASSUME NamesAssumption ==
    /\ IsFiniteSet(Clients) /\ Nobody \notin Clients /\ NoCode \notin Codes

ASSUME LimitsAssumption ==
    /\ {CODE_ATTEMPTS, MAX_CODE_ATTEMPTS, LOCK_DURATION, EMAIL_COOLDOWN, EMAIL_WINDOW,
        MAX_EMAILS_PER_WINDOW} \subseteq Nat \ {0}
    /\ {MaxTime, MaxRequests, MaxCrashes} \subseteq Nat

VARIABLES
    now,       \* the clock all processes read
    user,      \* the columns publicAccessCode... of the manager's row
    lock,      \* the request whose transaction holds the manager's row
    request,   \* what each request has still to do
    reserved,  \* when sendCode was allowed each of its e-mails to a manager: they leave later
    mailed,    \* the codes the mail server took for each manager
    lost,      \* attempts at the limit, since the last reset, whose request stopped before it locked
    requests,  \* requests begun so far
    crashes    \* requests interrupted so far

vars == <<now, user, lock, request, reserved, mailed, lost, requests, crashes>>

Never == -1
Time == Nat \cup {Never}

\* lockedUntil, emailedAt (LastEmailedAt) and windowAt are dates, or Never; count is EmailCount.
User == [code : Codes \cup {NoCode}, failed : Nat, lockedUntil : Time,
         emailedAt : Time, windowAt : Time, count : Nat]

Idle == [step |-> "idle"]
Purposes == {"sendCode", "decision"}
Request ==
    {Idle}
    \cup [step : {"code"}, user : Managers, for : Purposes, try : Nat]
    \cup [step : {"store"}, user : Managers, for : Purposes, try : Nat, code : Codes]
    \cup [step : {"reserve"}, user : Managers, code : Codes]
    \cup [step : {"reserving"}, user : Managers, code : Codes, row : User, at : Nat]
    \cup [step : {"mail"}, user : Managers, code : Codes]
    \cup [step : {"verify"}, user : Managers, lockedUntil : Time]
    \cup [step : {"compare", "locking"}, user : Managers, at : Nat]

TypeOK ==
    /\ now \in Nat
    /\ user \in [Managers -> User]
    /\ lock \in [Managers -> Clients \cup {Nobody}]
    /\ request \in [Clients -> Request]
    /\ reserved \in [Managers -> Seq(Nat)]
    /\ mailed \in [Managers -> SUBSET Codes]
    /\ lost \in [Managers -> Nat]
    /\ requests \in Nat /\ crashes \in Nat

-----------------------------------------------------------------------------

Does(c, step) == request[c].step = step
Then(c, next) == request' = [request EXCEPT ![c] = next]

Ledger == <<now, reserved, mailed, lost, requests, crashes>>
Records == <<now, reserved, mailed, lost, crashes>>

Begin(c, first) ==
    /\ Does(c, "idle") /\ requests < MaxRequests
    /\ requests' = requests + 1
    /\ Then(c, first)

\* A write of the manager's row waits for the transaction that holds it.
RowFree(m) == lock[m] = Nobody
Release(m) == lock' = [lock EXCEPT ![m] = Nobody]

Init ==
    /\ now = 0
    /\ user = [m \in Managers |->
                  [code |-> NoCode, failed |-> 0, lockedUntil |-> Never,
                   emailedAt |-> Never, windowAt |-> Never, count |-> 0]]
    /\ lock = [m \in Managers |-> Nobody]
    /\ request = [c \in Clients |-> Idle]
    /\ reserved = [m \in Managers |-> <<>>]
    /\ mailed = [m \in Managers |-> {}]
    /\ lost = [m \in Managers |-> 0]
    /\ requests = 0 /\ crashes = 0

(* getOrCreatePersonalCode, for sendCode or for the e-mail of a decision request *)

Ask(c) ==
    /\ \E m \in Managers : \E p \in Purposes :
          Begin(c, [step |-> "code", user |-> m, for |-> p, try |-> 1])
    /\ UNCHANGED <<user, lock, Records>>

\* sendCode reserves its e-mail, a decision request sends it at once.
WithCode(r, code) ==
    [step |-> IF r.for = "sendCode" THEN "reserve" ELSE "mail", user |-> r.user, code |-> code]

\* Mutant: the row is not locked while a code is made.
CodeLockNothing(c) ==
    LET r == request[c] IN
    /\ Does(c, "code")
    /\ IF user[r.user].code # NoCode
       THEN Then(c, WithCode(r, user[r.user].code))
       ELSE \E code \in Codes \ {user[m].code : m \in Managers} :
               Then(c, [step |-> "store", user |-> r.user, for |-> r.for, try |-> r.try, code |-> code])
    /\ UNCHANGED <<user, lock, Ledger>>

\* The row is locked and read: it has a code, or one that no manager has is drawn.
CodeLock(c) ==
    LET r == request[c] IN
    /\ Does(c, "code") /\ RowFree(r.user)
    /\ \/ /\ user[r.user].code # NoCode
          /\ Then(c, WithCode(r, user[r.user].code))
          /\ UNCHANGED lock
       \/ /\ user[r.user].code = NoCode
          /\ \E code \in Codes \ {user[m].code : m \in Managers} :
                Then(c, [step |-> "store", user |-> r.user, for |-> r.for, try |-> r.try, code |-> code])
          /\ lock' = [lock EXCEPT ![r.user] = c]
    /\ UNCHANGED <<user, Ledger>>

\* Another manager has got the code since (unique publicAccessCodeFingerprint).
Taken(code) == \E m \in Managers : user[m].code = code

\* The code is stored, or the transaction fails and is tried again.
CodeStore(c) ==
    LET r == request[c] IN
    /\ Does(c, "store")
    /\ \/ /\ ~Taken(r.code)
          /\ user' = [user EXCEPT ![r.user].code = r.code, ![r.user].failed = 0,
                                  ![r.user].lockedUntil = Never]
          /\ lost' = [lost EXCEPT ![r.user] = 0]
          /\ Then(c, WithCode(r, r.code))
       \/ /\ Taken(r.code)
          /\ Then(c, IF r.try < CODE_ATTEMPTS
                     THEN [step |-> "code", user |-> r.user, for |-> r.for, try |-> r.try + 1]
                     ELSE Idle)
          /\ UNCHANGED <<user, lost>>
    /\ Release(r.user)
    /\ UNCHANGED <<now, reserved, mailed, requests, crashes>>

(* reserveEmailDelivery *)

Cooling(row, t) == row.emailedAt # Never /\ t - row.emailedAt < EMAIL_COOLDOWN
InWindow(row, t) == row.windowAt # Never /\ t - row.windowAt < EMAIL_WINDOW

\* Mutant: the limit is compared off by one.
WindowOverfull(row, t) == InWindow(row, t) /\ row.count > MAX_EMAILS_PER_WINDOW

WindowFull(row, t) == InWindow(row, t) /\ row.count >= MAX_EMAILS_PER_WINDOW

\* Mutant: the row is not locked while an e-mail is reserved.
ReserveLockNothing(c) ==
    LET r == request[c]
        row == user[r.user]
        refused == Cooling(row, now) \/ WindowFull(row, now)
    IN /\ Does(c, "reserve")
       /\ Then(c, IF refused THEN Idle
                  ELSE [step |-> "reserving", user |-> r.user, code |-> r.code, row |-> row, at |-> now])
       /\ UNCHANGED <<user, lock, Ledger>>

\* The row is locked and read, then the clock; a refused request ends here.
ReserveLock(c) ==
    LET r == request[c]
        row == user[r.user]
        refused == Cooling(row, now) \/ WindowFull(row, now)
    IN /\ Does(c, "reserve") /\ RowFree(r.user)
       /\ lock' = IF refused THEN lock ELSE [lock EXCEPT ![r.user] = c]
       /\ Then(c, IF refused THEN Idle
                  ELSE [step |-> "reserving", user |-> r.user, code |-> r.code, row |-> row, at |-> now])
       /\ UNCHANGED <<user, Ledger>>

Counted(row, t) ==
    [row EXCEPT !.count = IF InWindow(row, t) THEN @ + 1 ELSE 1,
                !.windowAt = IF InWindow(row, t) THEN @ ELSE t,
                !.emailedAt = t]

ReserveCommit(c) ==
    LET r == request[c]
        written == Counted(r.row, r.at)
    IN /\ Does(c, "reserving")
       /\ user' = [user EXCEPT ![r.user].count = written.count,
                               ![r.user].windowAt = written.windowAt,
                               ![r.user].emailedAt = written.emailedAt]
       /\ reserved' = [reserved EXCEPT ![r.user] = Append(@, r.at)]
       /\ Release(r.user)
       /\ Then(c, [step |-> "mail", user |-> r.user, code |-> r.code])
       /\ UNCHANGED <<now, mailed, lost, requests, crashes>>

\* sendMail
Mail(c) ==
    /\ Does(c, "mail")
    /\ mailed' = [mailed EXCEPT ![request[c].user] = @ \cup {request[c].code}]
    /\ Then(c, Idle)
    /\ UNCHANGED <<now, user, lock, reserved, lost, requests, crashes>>

(* verify *)

\* findShare reads the manager with the share.
VerifyRead(c) ==
    /\ \E m \in Managers :
          /\ user[m].code # NoCode
          /\ Begin(c, [step |-> "verify", user |-> m, lockedUntil |-> user[m].lockedUntil])
    /\ UNCHANGED <<user, lock, Records>>

\* A locked manager is refused; the comparison that follows is slow.
VerifyCheck(c) ==
    LET r == request[c] IN
    /\ Does(c, "verify")
    /\ Then(c, IF r.lockedUntil > now THEN Idle
               ELSE [step |-> "compare", user |-> r.user, at |-> now])
    /\ UNCHANGED <<user, lock, Ledger>>

\* Mutant: only the attempt that reaches the limit locks.
LocksOnce(failed) == failed = MAX_CODE_ATTEMPTS

ShouldLock(failed) == failed >= MAX_CODE_ATTEMPTS

VerifyWrong(c) ==
    LET r == request[c]
        failed == user[r.user].failed + 1
    IN /\ Does(c, "compare") /\ RowFree(r.user)
       /\ user' = [user EXCEPT ![r.user].failed = failed]
       /\ Then(c, IF ShouldLock(failed) THEN [r EXCEPT !.step = "locking"] ELSE Idle)
       /\ UNCHANGED <<lock, Ledger>>

\* Mutant: the lock is set in the past.
VerifyLockBackwards(c) ==
    LET r == request[c] IN
    /\ Does(c, "locking") /\ RowFree(r.user)
    /\ user' = [user EXCEPT ![r.user].failed = 0, ![r.user].lockedUntil = r.at - LOCK_DURATION]
    /\ lost' = [lost EXCEPT ![r.user] = 0]
    /\ Then(c, Idle)
    /\ UNCHANGED <<now, lock, reserved, mailed, requests, crashes>>

VerifyLock(c) ==
    LET r == request[c] IN
    /\ Does(c, "locking") /\ RowFree(r.user)
    /\ user' = [user EXCEPT ![r.user].failed = 0, ![r.user].lockedUntil = r.at + LOCK_DURATION]
    /\ lost' = [lost EXCEPT ![r.user] = 0]
    /\ Then(c, Idle)
    /\ UNCHANGED <<now, lock, reserved, mailed, requests, crashes>>

VerifyRight(c) ==
    LET r == request[c] IN
    /\ Does(c, "compare") /\ RowFree(r.user)
    /\ user' = [user EXCEPT ![r.user].failed = 0, ![r.user].lockedUntil = Never]
    /\ lost' = [lost EXCEPT ![r.user] = 0]
    /\ Then(c, Idle)
    /\ UNCHANGED <<now, lock, reserved, mailed, requests, crashes>>

(* The process stops, the database or the mail server fails: the open transaction is *)
(* rolled back.                                                                      *)

Crash(c) ==
    /\ ~Does(c, "idle") /\ crashes < MaxCrashes
    /\ lock' = [m \in Managers |-> IF lock[m] = c THEN Nobody ELSE lock[m]]
    /\ lost' = [m \in Managers |->
                   IF Does(c, "locking") /\ request[c].user = m THEN lost[m] + 1 ELSE lost[m]]
    /\ crashes' = crashes + 1
    /\ Then(c, Idle)
    /\ UNCHANGED <<now, user, reserved, mailed, requests>>

Tick ==
    /\ now < MaxTime /\ now' = now + 1
    /\ UNCHANGED <<user, lock, request, reserved, mailed, lost, requests, crashes>>

-----------------------------------------------------------------------------

Handler(c) ==
    \/ Ask(c) \/ CodeLock(c) \/ CodeStore(c)
    \/ ReserveLock(c) \/ ReserveCommit(c) \/ Mail(c)
    \/ VerifyRead(c) \/ VerifyCheck(c) \/ VerifyWrong(c) \/ VerifyLock(c) \/ VerifyRight(c)

Next == Tick \/ \E c \in Clients : Handler(c) \/ Crash(c)

Spec == Init /\ [][Next]_vars

-----------------------------------------------------------------------------

\* Whatever requests overlap, every code a manager was ever sent is still his, and no
\* one else's ("Ce code reste identique pour toutes vos demandes", :201): of two
\* requests that find no code, one makes it and the other waits and reads it.
PermanentCode ==
    \A m \in Managers :
        /\ mailed[m] \subseteq {user[m].code}
        /\ \A n \in Managers \ {m} : user[m].code # NoCode => user[n].code # user[m].code

\* sendCode is never allowed two e-mails to one manager in less than the cooldown, even if its
\* requests overlap and one of them fails.  An allowed e-mail leaves after the reservation, at
\* any time: how close two of them reach the mail server is not limited.
EmailsSpaced ==
    \A m \in Managers : \A i, j \in 1..Len(reserved[m]) :
        i < j => reserved[m][j] - reserved[m][i] >= EMAIL_COOLDOWN

\* A window opens with an e-mail and does not slide, so what MAX_EMAILS_PER_WINDOW
\* guarantees of any period as long as a window, one that straddles two of them included,
\* is at most one e-mail allowed less than twice that.
EmailsPerWindow ==
    \A m \in Managers : \A i, j \in 1..Len(reserved[m]) :
        j - i >= 2 * MAX_EMAILS_PER_WINDOW - 1 => reserved[m][j] - reserved[m][i] >= EMAIL_WINDOW

\* The attempts about to lock the manager's code.
Locking(m) == {c \in Clients : Does(c, "locking") /\ request[c].user = m}

\* The attempts that fail between two locks are at most the limit, but for those whose
\* request was already past the check of the lock: each of these locks the code again,
\* unless it is interrupted first.
AttemptsBounded ==
    \A m \in Managers :
        user[m].failed <= MAX_CODE_ATTEMPTS - 1 + Cardinality(Locking(m)) + lost[m]

=============================================================================

-------------------------- MODULE AccessCodeProofs --------------------------
(***************************************************************************)
(* The code of a manager is permanent and his own, its e-mails are spaced  *)
(* and counted, and the attempts to enter it are bounded, for any number   *)
(* of overlapping and interrupted requests.                                *)
(***************************************************************************)
EXTENDS AccessCode, FiniteSetTheorems, SequenceTheorems, TLAPS

\* What a request has read is still true when it uses it.
Mine(c) ==
    LET r == request[c] IN
    /\ r.step \in {"store", "reserving"} => lock[r.user] = c
    /\ r.step = "store" => user[r.user].code = NoCode
    /\ r.step \in {"reserve", "reserving", "mail"} => user[r.user].code = r.code
    /\ r.step = "reserving" =>
          /\ r.row.emailedAt = user[r.user].emailedAt
          /\ r.row.windowAt = user[r.user].windowAt
          /\ r.row.count = user[r.user].count
          /\ ~Cooling(r.row, r.at) /\ ~WindowFull(r.row, r.at)

\* The f-th e-mail of s opened a window, and the window before opened at most
\* MAX_EMAILS_PER_WINDOW e-mails earlier.
Opened(s, f) ==
    f = 1 \/ \E p \in 1..(f - 1) : f - p <= MAX_EMAILS_PER_WINDOW /\ s[f] - s[p] >= EMAIL_WINDOW

\* The columns u tell the last of the n e-mails s, and the one that opened the window.
CountsOf(s, n, u) ==
    IF n = 0
    THEN u.emailedAt = Never /\ u.windowAt = Never
    ELSE /\ u.emailedAt = s[n]
         /\ \E f \in 1..n : /\ u.count = n + 1 - f /\ u.count <= MAX_EMAILS_PER_WINDOW
                            /\ u.windowAt = s[f] /\ Opened(s, f)

Counts(m) == CountsOf(reserved[m], Len(reserved[m]), user[m])

EmailsInv == EmailsSpaced /\ EmailsPerWindow /\ \A m \in Managers : Counts(m)

Inv == TypeOK /\ PermanentCode /\ EmailsInv /\ AttemptsBounded /\ \A c \in Clients : Mine(c)

-----------------------------------------------------------------------------

\* A request's step tells its fields.
LEMMA RequestFields ==
    ASSUME NEW r \in Request
    PROVE  /\ r.step # "idle" => r.user \in Managers
           /\ r.step \in {"code", "store"} => r.for \in Purposes /\ r.try \in Nat
           /\ r.step \in {"store", "reserve", "reserving", "mail"} => r.code \in Codes
           /\ r.step = "reserving" => r.row \in User /\ r.at \in Nat
           /\ r.step = "verify" => r.lockedUntil \in Time
           /\ r.step \in {"compare", "locking"} => r.at \in Nat
           /\ r.step = "locking" => r \in [step : {"compare", "locking"}, user : Managers, at : Nat]
           /\ r.step = "compare" => r \in [step : {"compare", "locking"}, user : Managers, at : Nat]
  BY DEF Request, Idle

LEMMA Limits ==
    /\ MAX_CODE_ATTEMPTS \in Nat \ {0} /\ LOCK_DURATION \in Nat \ {0}
    /\ EMAIL_COOLDOWN \in Nat \ {0} /\ EMAIL_WINDOW \in Nat \ {0}
    /\ MAX_EMAILS_PER_WINDOW \in Nat \ {0}
    /\ MaxTime \in Nat
  BY LimitsAssumption

LEMMA LockingFinite ==
    ASSUME NEW m \in Managers
    PROVE  IsFiniteSet(Locking(m)) /\ Cardinality(Locking(m)) \in Nat
  BY NamesAssumption, FS_Subset, FS_CardinalityType DEF Locking

LEMMA InitInv == Init => Inv
  <1> SUFFICES ASSUME Init PROVE Inv
    OBVIOUS
  <1>1. TypeOK
    BY DEF Init, TypeOK, User, Time, Never, Request
  <1>2. PermanentCode
    BY DEF Init, PermanentCode
  <1>3. EmailsInv
    BY DEF Init, EmailsInv, EmailsSpaced, EmailsPerWindow, Counts, CountsOf
  <1>4. AttemptsBounded
    <2> SUFFICES ASSUME NEW m \in Managers
                 PROVE  0 <= MAX_CODE_ATTEMPTS - 1 + Cardinality(Locking(m)) + 0
      BY DEF Init, AttemptsBounded
    <2> QED
      BY Limits, LockingFinite
  <1>5. \A c \in Clients : Mine(c)
    BY DEF Init, Mine, Idle
  <1> QED
    BY <1>1, <1>2, <1>3, <1>4, <1>5 DEF Inv

\* Another request's step leaves what this one has read as it is.
LEMMA OthersInv ==
    ASSUME Inv, NEW b \in Clients, request'[b] = request[b],
           \A m \in Managers :
              /\ lock[m] = b => lock'[m] = b
              /\ user[m].code # NoCode => user'[m].code = user[m].code
              /\ lock[m] = b =>
                    /\ user'[m].code = user[m].code
                    /\ user'[m].emailedAt = user[m].emailedAt
                    /\ user'[m].windowAt = user[m].windowAt
                    /\ user'[m].count = user[m].count
    PROVE  Mine(b)'
  <1> DEFINE r == request[b]
  <1>1. Mine(b) /\ r \in Request
    BY DEF Inv, TypeOK
  <1>2. CASE r.step = "store"
    BY <1>1, <1>2, RequestFields DEF Mine
  <1>3. CASE r.step = "reserving"
    BY <1>1, <1>3, RequestFields DEF Mine
  <1>4. CASE r.step \in {"reserve", "mail"}
    BY <1>1, <1>4, RequestFields, NamesAssumption DEF Mine
  <1>5. CASE r.step \notin {"store", "reserving", "reserve", "mail"}
    BY <1>5 DEF Mine
  <1> QED
    BY <1>2, <1>3, <1>4, <1>5

\* A step that reserves no e-mail keeps their count.
LEMMA EmailsKept ==
    ASSUME Inv, UNCHANGED reserved,
           \A m \in Managers : /\ user'[m].emailedAt = user[m].emailedAt
                               /\ user'[m].windowAt = user[m].windowAt
                               /\ user'[m].count = user[m].count
    PROVE  EmailsInv'
  BY DEF Inv, EmailsInv, EmailsSpaced, EmailsPerWindow, Counts, CountsOf

\* A step that makes and mails no code keeps the codes.
LEMMA CodesKept ==
    ASSUME Inv, UNCHANGED mailed, \A m \in Managers : user'[m].code = user[m].code
    PROVE  PermanentCode'
  BY DEF Inv, PermanentCode

\* A step of a request that neither fails an attempt nor ends one that must lock.
LEMMA AttemptsKept ==
    ASSUME Inv, NEW c \in Clients, NEW next, Then(c, next), ~Does(c, "locking"), next.step # "locking",
           \A m \in Managers :
              \/ user'[m].failed = user[m].failed /\ lost'[m] = lost[m]
              \/ user'[m].failed = 0 /\ lost'[m] = 0
    PROVE  AttemptsBounded'
  <1>1. \A m \in Managers : Locking(m)' = Locking(m)
    BY DEF Locking, Does, Then, Inv, TypeOK
  <1> SUFFICES ASSUME NEW m \in Managers
               PROVE  user'[m].failed <= MAX_CODE_ATTEMPTS - 1 + Cardinality(Locking(m)) + lost'[m]
    BY <1>1 DEF AttemptsBounded
  <1>2. /\ user[m].failed <= MAX_CODE_ATTEMPTS - 1 + Cardinality(Locking(m)) + lost[m]
        /\ lost[m] \in Nat /\ Cardinality(Locking(m)) \in Nat /\ MAX_CODE_ATTEMPTS \in Nat \ {0}
    BY Limits, LockingFinite DEF Inv, AttemptsBounded, TypeOK
  <1> QED
    BY <1>2

LEMMA LockingDone ==
    ASSUME Inv, NEW m \in Managers, user'[m].failed = 0, lost'[m] = 0,
           IsFiniteSet(Locking(m)')
    PROVE  user'[m].failed <= MAX_CODE_ATTEMPTS - 1 + Cardinality(Locking(m)') + lost'[m]
  BY Limits, FS_CardinalityType

-----------------------------------------------------------------------------

\* A step that changes only what its request has still to do, and locks.
LEMMA ReadInv ==
    ASSUME Inv, NEW c \in Clients, NEW next \in Request, Then(c, next),
           ~Does(c, "locking"), next.step # "locking", UNCHANGED <<user, reserved, mailed, lost, now, crashes>>,
           requests' \in Nat,
           lock' \in [Managers -> Clients \cup {Nobody}],
           \A m \in Managers : \A b \in Clients \ {c} : lock[m] = b => lock'[m] = b,
           Mine(c)'
    PROVE  Inv'
  <1>1. TypeOK'
    BY DEF Inv, TypeOK, Then
  <1>2. PermanentCode' /\ EmailsInv'
    BY CodesKept, EmailsKept
  <1>3. AttemptsBounded'
    BY AttemptsKept
  <1>4. ASSUME NEW b \in Clients PROVE Mine(b)'
    <2>1. CASE b = c
      BY <2>1
    <2>2. CASE b # c
      <3>1. request'[b] = request[b]
        BY <2>2 DEF Then, Inv, TypeOK
      <3> QED
        BY <2>2, <3>1, OthersInv
    <2> QED
      BY <2>1, <2>2
  <1> QED
    BY <1>1, <1>2, <1>3, <1>4 DEF Inv

LEMMA AskInv ==
    ASSUME Inv, NEW c \in Clients, Ask(c)
    PROVE  Inv'
  <1>1. PICK m \in Managers, p \in Purposes :
           Begin(c, [step |-> "code", user |-> m, for |-> p, try |-> 1])
    BY DEF Ask
  <1> DEFINE next == [step |-> "code", user |-> m, for |-> p, try |-> 1]
  <1>2. next \in Request
    BY DEF Request
  <1>3. request'[c] = next
    BY <1>1 DEF Begin, Then, Inv, TypeOK
  <1>4. Mine(c)'
    BY <1>3 DEF Mine
  <1>5. /\ Then(c, next) /\ next.step = "code" /\ ~Does(c, "locking")
        /\ UNCHANGED <<user, reserved, mailed, lost, now, crashes, lock>> /\ requests' \in Nat
    BY <1>1 DEF Ask, Records, Begin, Does, Inv, TypeOK
  <1>6. /\ lock' \in [Managers -> Clients \cup {Nobody}]
        /\ \A n \in Managers : \A b \in Clients \ {c} : lock[n] = b => lock'[n] = b
    BY <1>5 DEF Inv, TypeOK
  <1> HIDE DEF next
  <1> QED
    BY <1>2, <1>4, <1>5, <1>6, ReadInv

LEMMA WithCodeType ==
    ASSUME NEW r \in Request, r.step \in {"code", "store"}, NEW code \in Codes
    PROVE  /\ WithCode(r, code) \in Request
           /\ WithCode(r, code).step \in {"reserve", "mail"}
           /\ WithCode(r, code).user = r.user
           /\ WithCode(r, code).code = code
  BY RequestFields DEF WithCode, Request

LEMMA CodeLockInv ==
    ASSUME Inv, NEW c \in Clients, CodeLock(c)
    PROVE  Inv'
  <1> DEFINE r == request[c]
  <1>1. /\ r \in Request /\ r.step = "code" /\ r.user \in Managers
        /\ r.for \in Purposes /\ r.try \in Nat
        /\ user[r.user] \in User
    BY RequestFields DEF CodeLock, Does, Inv, TypeOK
  <1>2. CASE user[r.user].code # NoCode
    <2> DEFINE next == WithCode(r, user[r.user].code)
    <2>1. user[r.user].code \in Codes
      BY <1>1, <1>2 DEF User
    <2>2. next \in Request /\ next.step \in {"reserve", "mail"} /\ next.user = r.user
          /\ next.code = user[r.user].code
      BY <1>1, <2>1, WithCodeType
    <2>3. Then(c, next) /\ UNCHANGED <<lock, user, Ledger>>
      BY <1>2 DEF CodeLock
    <2> HIDE DEF next
    <2>4. request'[c] = next
      BY <2>3 DEF Then, Inv, TypeOK
    <2>5. Mine(c)'
      BY <2>2, <2>3, <2>4 DEF Mine
    <2> QED
      BY <1>1, <2>2, <2>3, <2>5, ReadInv DEF Ledger, Does, Inv, TypeOK
  <1>3. CASE user[r.user].code = NoCode
    <2>1. PICK code \in Codes \ {user[m].code : m \in Managers} :
             Then(c, [step |-> "store", user |-> r.user, for |-> r.for, try |-> r.try, code |-> code])
      BY <1>3 DEF CodeLock
    <2> DEFINE next == [step |-> "store", user |-> r.user, for |-> r.for, try |-> r.try, code |-> code]
    <2>2. next \in Request
      BY <1>1 DEF Request
    <2>3. /\ lock' = [lock EXCEPT ![r.user] = c] /\ UNCHANGED <<user, Ledger>>
          /\ lock[r.user] = Nobody
      BY <1>3 DEF CodeLock, RowFree
    <2>4. request'[c] = next
      BY <2>1 DEF Then, Inv, TypeOK
    <2>5. /\ lock' \in [Managers -> Clients \cup {Nobody}] /\ lock'[r.user] = c
          /\ \A m \in Managers : \A b \in Clients \ {c} : lock[m] = b => lock'[m] = b
      BY <1>1, <2>3, NamesAssumption DEF Inv, TypeOK
    <2>6. Mine(c)'
      BY <1>3, <2>3, <2>4, <2>5 DEF Mine
    <2> QED
      BY <1>1, <2>1, <2>2, <2>3, <2>5, <2>6, ReadInv DEF Ledger, Does, Inv, TypeOK
  <1> QED
    BY <1>2, <1>3

LEMMA CodeStoreInv ==
    ASSUME Inv, NEW c \in Clients, CodeStore(c)
    PROVE  Inv'
  <1> DEFINE r == request[c]
  <1>1. /\ r \in Request /\ r.step = "store" /\ r.user \in Managers /\ r.code \in Codes
        /\ r.for \in Purposes /\ r.try \in Nat /\ Mine(c)
    BY RequestFields DEF CodeStore, Does, Inv, TypeOK
  <1>2. lock[r.user] = c /\ user[r.user].code = NoCode
    BY <1>1 DEF Mine
  <1>3. /\ lock' = [lock EXCEPT ![r.user] = Nobody] /\ UNCHANGED <<now, reserved, mailed, requests, crashes>>
    BY DEF CodeStore, Release
  <1>4. /\ lock' \in [Managers -> Clients \cup {Nobody}]
        /\ \A m \in Managers : \A b \in Clients \ {c} : lock[m] = b => lock'[m] = b
    BY <1>1, <1>2, <1>3 DEF Inv, TypeOK
  <1>5. CASE Taken(r.code)
    <2> DEFINE again == [step |-> "code", user |-> r.user, for |-> r.for, try |-> r.try + 1]
               next == IF r.try < CODE_ATTEMPTS THEN again ELSE Idle
    <2>1. again \in Request /\ Idle \in Request
      BY <1>1 DEF Request
    <2>2. next \in Request /\ next.step \in {"code", "idle"}
      BY <2>1 DEF Idle
    <2>3. Then(c, next) /\ UNCHANGED <<user, lost>>
      BY <1>5 DEF CodeStore
    <2> HIDE DEF next
    <2>4. request'[c] = next
      BY <2>3 DEF Then, Inv, TypeOK
    <2>5. Mine(c)'
      BY <2>2, <2>4 DEF Mine
    <2> QED
      BY <1>1, <1>3, <1>4, <2>2, <2>3, <2>5, ReadInv DEF Does, Inv, TypeOK
  <1>6. CASE ~Taken(r.code)
    <2> DEFINE next == WithCode(r, r.code)
    <2>1. next \in Request /\ next.step \in {"reserve", "mail"} /\ next.user = r.user /\ next.code = r.code
      BY <1>1, WithCodeType
    <2>2. /\ Then(c, next) /\ lost' = [lost EXCEPT ![r.user] = 0]
          /\ user' = [user EXCEPT ![r.user].code = r.code, ![r.user].failed = 0,
                                  ![r.user].lockedUntil = Never]
      BY <1>6 DEF CodeStore
    <2> HIDE DEF next
    <2> DEFINE row == user[r.user]
               new == [row EXCEPT !.code = r.code, !.failed = 0, !.lockedUntil = Never]
    <2>11. user' = [user EXCEPT ![r.user] = new]
      BY <2>2
    <2>12. row \in User
      BY <1>1 DEF Inv, TypeOK
    <2>13. /\ new \in User /\ new.code = r.code /\ new.failed = 0
          /\ new.emailedAt = row.emailedAt /\ new.windowAt = row.windowAt /\ new.count = row.count
      BY <1>1, <2>12 DEF User, Time, Never
    <2> HIDE DEF new
    <2>3. /\ user' \in [Managers -> User] /\ user'[r.user].code = r.code
          /\ user'[r.user].failed = 0 /\ lost'[r.user] = 0 /\ lost' \in [Managers -> Nat]
          /\ \A m \in Managers \ {r.user} : user'[m] = user[m] /\ lost'[m] = lost[m]
          /\ \A m \in Managers : /\ user'[m].emailedAt = user[m].emailedAt
                                 /\ user'[m].windowAt = user[m].windowAt
                                 /\ user'[m].count = user[m].count
      BY <1>1, <2>2, <2>11, <2>13 DEF Inv, TypeOK
    <2>4. request'[c] = next /\ request' \in [Clients -> Request]
          /\ \A b \in Clients \ {c} : request'[b] = request[b]
      BY <2>1, <2>2 DEF Then, Inv, TypeOK
    <2>5. TypeOK'
      BY <1>3, <1>4, <2>3, <2>4 DEF Inv, TypeOK
    <2>6. PermanentCode'
      <3>1. mailed[r.user] = {}
        BY <1>1, <1>2, NamesAssumption DEF Inv, TypeOK, PermanentCode
      <3>2. \A m \in Managers : user[m].code # r.code
        BY <1>6 DEF Taken
      <3> QED
        BY <1>1, <1>3, <2>3, <3>1, <3>2 DEF PermanentCode, Inv
    <2>7. EmailsInv'
      BY <1>3, <2>3, EmailsKept
    <2>8. AttemptsBounded'
      <3>1. \A m \in Managers : \/ user'[m].failed = user[m].failed /\ lost'[m] = lost[m]
                                \/ user'[m].failed = 0 /\ lost'[m] = 0
        BY <2>3
      <3> QED
        BY <1>1, <2>1, <2>2, <3>1, AttemptsKept DEF Does
    <2>9. Mine(c)'
      BY <2>1, <2>3, <2>4 DEF Mine
    <2>10. ASSUME NEW b \in Clients \ {c} PROVE Mine(b)'
      <3>1. \A m \in Managers :
              /\ user[m].code # NoCode => user'[m].code = user[m].code
              /\ lock[m] = b => user'[m].code = user[m].code
        BY <1>2, <2>3
      <3> QED
        BY <1>4, <2>3, <2>4, <3>1, OthersInv
    <2> QED
      BY <2>5, <2>6, <2>7, <2>8, <2>9, <2>10 DEF Inv
  <1> QED
    BY <1>5, <1>6

LEMMA ReserveLockInv ==
    ASSUME Inv, NEW c \in Clients, ReserveLock(c)
    PROVE  Inv'
  <1> DEFINE r == request[c]
             row == user[r.user]
             refused == Cooling(row, now) \/ WindowFull(row, now)
             held == [step |-> "reserving", user |-> r.user, code |-> r.code, row |-> row, at |-> now]
  <1>1. /\ r \in Request /\ r.step = "reserve" /\ r.user \in Managers /\ r.code \in Codes
        /\ row \in User /\ now \in Nat /\ Mine(c)
    BY RequestFields DEF ReserveLock, Does, Inv, TypeOK
  <1>2. held \in Request /\ Idle \in Request
    BY <1>1 DEF Request
  <1>3. UNCHANGED <<user, Ledger>> /\ lock[r.user] = Nobody
    BY DEF ReserveLock, RowFree
  <1>4. CASE refused
    <2>1. Then(c, Idle) /\ UNCHANGED lock
      BY <1>4 DEF ReserveLock
    <2>2. Mine(c)'
      BY <2>1 DEF Mine, Then, Idle, Inv, TypeOK
    <2> QED
      BY <1>1, <1>2, <1>3, <2>1, <2>2, ReadInv DEF Ledger, Does, Idle, Inv, TypeOK
  <1>5. CASE ~refused
    <2>1. Then(c, held) /\ lock' = [lock EXCEPT ![r.user] = c]
      BY <1>5 DEF ReserveLock
    <2>2. /\ lock' \in [Managers -> Clients \cup {Nobody}] /\ lock'[r.user] = c
          /\ \A m \in Managers : \A b \in Clients \ {c} : lock[m] = b => lock'[m] = b
      BY <1>1, <1>3, <2>1, NamesAssumption DEF Inv, TypeOK
    <2>3. request'[c] = held
      BY <2>1 DEF Then, Inv, TypeOK
    <2>4. user[r.user].code = r.code
      BY <1>1 DEF Mine
    <2>5. Mine(c)'
      BY <1>3, <1>5, <2>2, <2>3, <2>4 DEF Mine, Cooling, WindowFull, InWindow
    <2> QED
      BY <1>1, <1>2, <1>3, <2>1, <2>2, <2>5, ReadInv DEF Ledger, Does, Inv, TypeOK
  <1> QED
    BY <1>4, <1>5

-----------------------------------------------------------------------------

\* The first n e-mails of s are spaced.
SpacedTo(s, n) == \A i, j \in 1..n : i < j => s[j] - s[i] >= EMAIL_COOLDOWN

\* If the window of the last e-mail opened at most MAX_EMAILS_PER_WINDOW e-mails ago, the
\* e-mails that are twice as many earlier are out of reach.
LEMMA WindowStep ==
    ASSUME NEW n \in Nat, NEW S \in [1..(n + 1) -> Nat], SpacedTo(S, n + 1),
           NEW opened \in 1..(n + 1), n + 2 - opened <= MAX_EMAILS_PER_WINDOW, Opened(S, opened),
           NEW i \in 1..(n + 1), n + 1 - i >= 2 * MAX_EMAILS_PER_WINDOW - 1
    PROVE  S[n + 1] - S[i] >= EMAIL_WINDOW
  <1>1. opened # 1
    BY Limits
  <1>2. PICK p \in 1..(opened - 1) : /\ opened - p <= MAX_EMAILS_PER_WINDOW
                                     /\ S[opened] - S[p] >= EMAIL_WINDOW
    BY <1>1 DEF Opened
  <1>3. i <= p /\ p \in 1..(n + 1) /\ p <= n + 1 /\ opened <= n + 1
    BY <1>2, Limits
  <1>4. \A a, b \in 1..(n + 1) : a <= b => S[a] <= S[b]
    <2> SUFFICES ASSUME NEW a \in 1..(n + 1), NEW b \in 1..(n + 1), a < b PROVE S[a] <= S[b]
      OBVIOUS
    <2>1. S[a] \in Nat /\ S[b] \in Nat /\ S[b] - S[a] >= EMAIL_COOLDOWN
      BY DEF SpacedTo
    <2> QED
      BY <2>1, Limits
  <1>5. /\ S[i] \in Nat /\ S[p] \in Nat /\ S[opened] \in Nat /\ S[n + 1] \in Nat
        /\ S[i] <= S[p] /\ S[opened] <= S[n + 1]
    BY <1>3, <1>4
  <1> QED
    BY <1>2, <1>5, Limits

\* One more e-mail, reserved at a time the columns allow, opens a window or counts in one.
LEMMA CountStep ==
    ASSUME NEW n \in Nat, NEW S \in [1..(n + 1) -> Nat], NEW u \in User,
           NEW t \in Nat, S[n + 1] = t,
           CountsOf(S, n, u), ~WindowFull(u, t)
    PROVE  \E f \in 1..(n + 1) :
             /\ (IF InWindow(u, t) THEN u.count + 1 ELSE 1) = n + 2 - f
             /\ n + 2 - f <= MAX_EMAILS_PER_WINDOW
             /\ (IF InWindow(u, t) THEN u.windowAt ELSE t) = S[f]
             /\ Opened(S, f)
  <1>1. u.windowAt \in Int /\ u.count \in Nat /\ MAX_EMAILS_PER_WINDOW \in Nat \ {0}
    BY Limits DEF User, Time, Never
  <1>2. CASE n = 0
    <2>1. ~InWindow(u, t) /\ S[1] = t
      BY <1>2 DEF CountsOf, InWindow
    <2>2. Opened(S, 1)
      BY DEF Opened
    <2> QED
      BY <1>1, <1>2, <2>1, <2>2
  <1>3. CASE n # 0
    <2>1. PICK f \in 1..n : /\ u.count = n + 1 - f /\ u.count <= MAX_EMAILS_PER_WINDOW
                            /\ u.windowAt = S[f] /\ Opened(S, f)
      BY <1>3 DEF CountsOf
    <2>2. CASE InWindow(u, t)
      <3>1. u.count < MAX_EMAILS_PER_WINDOW
        BY <1>1, <2>2 DEF WindowFull
      <3>2. u.count + 1 = n + 2 - f /\ n + 2 - f <= MAX_EMAILS_PER_WINDOW /\ f \in 1..(n + 1)
        BY <1>1, <2>1, <3>1
      <3> QED
        BY <2>1, <2>2, <3>2
    <2>3. CASE ~InWindow(u, t)
      <3>1. u.windowAt \in Nat /\ t - u.windowAt >= EMAIL_WINDOW
        BY <2>1, <2>3, Limits DEF InWindow, Never
      <3>2. f \in 1..(n + 1 - 1) /\ n + 1 - f <= MAX_EMAILS_PER_WINDOW
        BY <1>1, <2>1
      <3>3. Opened(S, n + 1)
        BY <2>1, <3>1, <3>2 DEF Opened
      <3>4. n + 2 - (n + 1) = 1 /\ 1 <= MAX_EMAILS_PER_WINDOW /\ n + 1 \in 1..(n + 1)
        BY <1>1
      <3> QED
        BY <2>3, <3>3, <3>4
    <2> QED
      BY <2>2, <2>3
  <1> QED
    BY <1>2, <1>3

\* One more e-mail, reserved at a time the columns allow, is spaced and counted.
LEMMA Emailed ==
    ASSUME Inv, NEW m \in Managers, NEW t \in Nat,
           ~Cooling(user[m], t), ~WindowFull(user[m], t),
           reserved' = [reserved EXCEPT ![m] = Append(@, t)], user'[m] \in User,
           user'[m].emailedAt = t,
           user'[m].windowAt = IF InWindow(user[m], t) THEN user[m].windowAt ELSE t,
           user'[m].count = IF InWindow(user[m], t) THEN user[m].count + 1 ELSE 1,
           \A k \in Managers \ {m} : user'[k] = user[k]
    PROVE  EmailsInv'
  <1>1. PICK n \in Nat, u \in User : n = Len(reserved[m]) /\ u = user[m] /\ u.emailedAt \in Int
    BY DEF Inv, TypeOK, User, Time, Never
  <1>2. PICK S \in [1..(n + 1) -> Nat] :
           /\ S = reserved'[m] /\ Len(reserved'[m]) = n + 1
           /\ S[n + 1] = t /\ \A i \in 1..n : S[i] = reserved[m][i]
    <2>1. reserved[m] \in Seq(Nat) /\ reserved'[m] = Append(reserved[m], t)
      BY DEF Inv, TypeOK
    <2>2. /\ Append(reserved[m], t) \in Seq(Nat) /\ Len(Append(reserved[m], t)) = n + 1
          /\ Append(reserved[m], t)[n + 1] = t
          /\ \A i \in 1..n : Append(reserved[m], t)[i] = reserved[m][i]
      BY <1>1, <2>1
    <2>3. Append(reserved[m], t) \in [1..(n + 1) -> Nat]
      BY <2>2, LenProperties
    <2> QED
      BY <2>1, <2>2, <2>3
  <1>3. \A k \in Managers \ {m} : reserved'[k] = reserved[k]
    BY DEF Inv, TypeOK
  <1>4. CountsOf(S, n, u)
    <2>1. CountsOf(reserved[m], n, u)
      BY <1>1 DEF Inv, EmailsInv, Counts
    <2>2. \A f \in 1..n : Opened(reserved[m], f) => Opened(S, f)
      <3> SUFFICES ASSUME NEW f \in 1..n, Opened(reserved[m], f), f # 1 PROVE Opened(S, f)
        BY DEF Opened
      <3>1. PICK p \in 1..(f - 1) : /\ f - p <= MAX_EMAILS_PER_WINDOW
                                    /\ reserved[m][f] - reserved[m][p] >= EMAIL_WINDOW
        BY DEF Opened
      <3>2. S[f] = reserved[m][f] /\ S[p] = reserved[m][p]
        BY <1>2
      <3> QED
        BY <3>1, <3>2 DEF Opened
    <2>3. n # 0 => S[n] = reserved[m][n]
      BY <1>2
    <2> QED
      BY <1>2, <2>1, <2>2, <2>3 DEF CountsOf
  <1>5. \A i, j \in 1..n : /\ i < j => S[j] - S[i] >= EMAIL_COOLDOWN
                           /\ j - i >= 2 * MAX_EMAILS_PER_WINDOW - 1 => S[j] - S[i] >= EMAIL_WINDOW
    BY <1>1, <1>2 DEF Inv, EmailsInv, EmailsSpaced, EmailsPerWindow
  <1>6. \A i \in 1..n : t - S[i] >= EMAIL_COOLDOWN
    <2> SUFFICES ASSUME NEW i \in 1..n PROVE t - S[i] >= EMAIL_COOLDOWN
      OBVIOUS
    <2>1. n # 0 /\ n \in 1..n /\ u.emailedAt = S[n] /\ S[n] \in Nat /\ S[i] \in Nat
      BY <1>4 DEF CountsOf
    <2>2. t - S[n] >= EMAIL_COOLDOWN
      BY <1>1, <2>1, Limits DEF Cooling, Never
    <2>3. S[i] <= S[n]
      BY <1>5, <2>1, Limits
    <2> QED
      BY <2>1, <2>2, <2>3, Limits
  <1>7. \A i, j \in 1..(n + 1) : i < j => S[j] - S[i] >= EMAIL_COOLDOWN
    <2> SUFFICES ASSUME NEW i \in 1..(n + 1), NEW j \in 1..(n + 1), i < j
                 PROVE  S[j] - S[i] >= EMAIL_COOLDOWN
      OBVIOUS
    <2>1. i \in 1..n
      OBVIOUS
    <2>2. CASE j = n + 1
      BY <1>2, <1>6, <2>1, <2>2
    <2>3. CASE j # n + 1
      BY <1>5, <2>1, <2>3
    <2> QED
      BY <2>2, <2>3
  <1>8. PICK f \in 1..(n + 1) :
           /\ user'[m].count = n + 2 - f /\ n + 2 - f <= MAX_EMAILS_PER_WINDOW
           /\ user'[m].windowAt = S[f] /\ Opened(S, f)
    <2>1. PICK f \in 1..(n + 1) :
             /\ (IF InWindow(u, t) THEN u.count + 1 ELSE 1) = n + 2 - f
             /\ n + 2 - f <= MAX_EMAILS_PER_WINDOW
             /\ (IF InWindow(u, t) THEN u.windowAt ELSE t) = S[f]
             /\ Opened(S, f)
      <3>1. S[n + 1] = t /\ ~WindowFull(u, t)
        BY <1>1, <1>2
      <3> QED
        BY <1>4, <3>1, CountStep, Zenon
    <2> QED
      BY <1>1, <2>1, Zenon
  <1>9. EmailsSpaced'
    <2> SUFFICES ASSUME NEW k \in Managers, NEW i \in 1..Len(reserved'[k]), NEW j \in 1..Len(reserved'[k]), i < j
                 PROVE  reserved'[k][j] - reserved'[k][i] >= EMAIL_COOLDOWN
      BY DEF EmailsSpaced
    <2>1. CASE k = m
      BY <1>2, <1>7, <2>1
    <2>2. CASE k # m
      <3>1. EmailsSpaced
        BY DEF Inv, EmailsInv
      <3>2. reserved'[k] = reserved[k]
        BY <1>3, <2>2
      <3> QED
        BY <3>1, <3>2 DEF EmailsSpaced
    <2> QED
      BY <2>1, <2>2
  <1>10. \A i, j \in 1..(n + 1) :
            j - i >= 2 * MAX_EMAILS_PER_WINDOW - 1 => S[j] - S[i] >= EMAIL_WINDOW
    <2> SUFFICES ASSUME NEW i \in 1..(n + 1), NEW j \in 1..(n + 1),
                        j - i >= 2 * MAX_EMAILS_PER_WINDOW - 1
                 PROVE  S[j] - S[i] >= EMAIL_WINDOW
      OBVIOUS
    <2>1. CASE j = n + 1
      <3>1. n + 1 - i >= 2 * MAX_EMAILS_PER_WINDOW - 1
        BY <2>1
      <3>2. SpacedTo(S, n + 1)
        BY <1>7 DEF SpacedTo
      <3>3. S[n + 1] - S[i] >= EMAIL_WINDOW
        BY <1>8, <3>1, <3>2, WindowStep, Zenon
      <3> QED
        BY <2>1, <3>3
    <2>2. CASE j # n + 1
      <3>1. i \in 1..n /\ j \in 1..n
        BY <2>2, Limits
      <3> QED
        BY <1>5, <3>1
    <2> QED
      BY <2>1, <2>2
  <1>11. EmailsPerWindow'
    <2> SUFFICES ASSUME NEW k \in Managers, NEW i \in 1..Len(reserved'[k]), NEW j \in 1..Len(reserved'[k]),
                        j - i >= 2 * MAX_EMAILS_PER_WINDOW - 1
                 PROVE  reserved'[k][j] - reserved'[k][i] >= EMAIL_WINDOW
      BY DEF EmailsPerWindow
    <2>1. CASE k = m
      BY <1>2, <1>10, <2>1
    <2>2. CASE k # m
      <3>1. EmailsPerWindow
        BY DEF Inv, EmailsInv
      <3>2. reserved'[k] = reserved[k]
        BY <1>3, <2>2
      <3> QED
        BY <3>1, <3>2 DEF EmailsPerWindow
    <2> QED
      BY <2>1, <2>2
  <1>12. CountsOf(S, n + 1, user'[m])
    <2>1. n + 1 # 0 /\ (n + 1) + 1 - f = n + 2 - f
      OBVIOUS
    <2> QED
      BY <1>2, <1>8, <2>1 DEF CountsOf
  <1>13. \A k \in Managers : Counts(k)'
    BY <1>2, <1>3, <1>12 DEF Counts, Inv, EmailsInv
  <1> QED
    BY <1>9, <1>11, <1>13 DEF EmailsInv

LEMMA ReserveCommitInv ==
    ASSUME Inv, NEW c \in Clients, ReserveCommit(c)
    PROVE  Inv'
  <1> DEFINE r == request[c]
             row == user[r.user]
             next == [step |-> "mail", user |-> r.user, code |-> r.code]
  <1>1. /\ r \in Request /\ r.step = "reserving" /\ r.user \in Managers /\ r.code \in Codes
        /\ r.row \in User /\ r.at \in Nat /\ row \in User /\ Mine(c)
    BY RequestFields DEF ReserveCommit, Does, Inv, TypeOK
  <1>2. /\ lock[r.user] = c /\ row.code = r.code
        /\ r.row.emailedAt = row.emailedAt /\ r.row.windowAt = row.windowAt /\ r.row.count = row.count
        /\ ~Cooling(row, r.at) /\ ~WindowFull(row, r.at)
        /\ InWindow(r.row, r.at) <=> InWindow(row, r.at)
    BY <1>1 DEF Mine, Cooling, WindowFull, InWindow
  <1> DEFINE count == IF InWindow(row, r.at) THEN row.count + 1 ELSE 1
             windowAt == IF InWindow(row, r.at) THEN row.windowAt ELSE r.at
             new == [row EXCEPT !.count = count, !.windowAt = windowAt, !.emailedAt = r.at]
  <1>3. Counted(r.row, r.at).count = count /\ Counted(r.row, r.at).windowAt = windowAt
        /\ Counted(r.row, r.at).emailedAt = r.at
    BY <1>1, <1>2 DEF Counted, User
  <1>4. new \in User /\ new.code = row.code /\ new.failed = row.failed
        /\ new.count = count /\ new.windowAt = windowAt /\ new.emailedAt = r.at
    <2>1. count \in Nat /\ windowAt \in Time /\ r.at \in Time
      BY <1>1 DEF User, Time
    <2> HIDE DEF count, windowAt
    <2> QED
      BY <1>1, <2>1 DEF User
  <1>5. /\ user' = [user EXCEPT ![r.user] = new]
        /\ reserved' = [reserved EXCEPT ![r.user] = Append(@, r.at)]
        /\ lock' = [lock EXCEPT ![r.user] = Nobody] /\ Then(c, next)
        /\ UNCHANGED <<now, mailed, lost, requests, crashes>>
    BY <1>3 DEF ReserveCommit, Release
  <1> HIDE DEF new, count, windowAt
  <1>6. /\ user' \in [Managers -> User] /\ user'[r.user] = new
        /\ \A m \in Managers \ {r.user} : user'[m] = user[m]
        /\ \A m \in Managers : user'[m].code = user[m].code /\ user'[m].failed = user[m].failed
    BY <1>1, <1>4, <1>5 DEF Inv, TypeOK
  <1>7. /\ lock' \in [Managers -> Clients \cup {Nobody}]
        /\ \A m \in Managers : \A b \in Clients \ {c} : lock[m] = b => lock'[m] = b /\ m # r.user
    BY <1>1, <1>2, <1>5 DEF Inv, TypeOK
  <1>8. next \in Request /\ request' \in [Clients -> Request] /\ request'[c] = next
        /\ \A b \in Clients \ {c} : request'[b] = request[b]
    BY <1>1, <1>5 DEF Then, Inv, TypeOK, Request
  <1>9. TypeOK'
    <2>1. reserved' \in [Managers -> Seq(Nat)]
      BY <1>1, <1>5 DEF Inv, TypeOK
    <2> QED
      BY <1>5, <1>6, <1>7, <1>8, <2>1 DEF Inv, TypeOK
  <1>10. PermanentCode'
    BY <1>5, <1>6, CodesKept
  <1>11. EmailsInv'
    BY <1>1, <1>2, <1>4, <1>5, <1>6, Emailed DEF count, windowAt
  <1>12. AttemptsBounded'
    BY <1>1, <1>5, <1>6, AttemptsKept DEF Does
  <1>13. Mine(c)'
    BY <1>2, <1>4, <1>6, <1>8 DEF Mine
  <1>14. ASSUME NEW b \in Clients \ {c} PROVE Mine(b)'
    BY <1>6, <1>7, <1>8, OthersInv
  <1> QED
    BY <1>9, <1>10, <1>11, <1>12, <1>13, <1>14 DEF Inv

LEMMA MailInv ==
    ASSUME Inv, NEW c \in Clients, Mail(c)
    PROVE  Inv'
  <1> DEFINE r == request[c]
  <1>1. /\ r \in Request /\ r.step = "mail" /\ r.user \in Managers /\ r.code \in Codes
        /\ user[r.user].code = r.code
    BY RequestFields DEF Mail, Does, Inv, TypeOK, Mine
  <1>2. /\ mailed' = [mailed EXCEPT ![r.user] = @ \cup {r.code}] /\ Then(c, Idle)
        /\ UNCHANGED <<now, user, lock, reserved, lost, requests, crashes>>
    BY DEF Mail
  <1>3. request' \in [Clients -> Request] /\ request'[c] = Idle
        /\ \A b \in Clients \ {c} : request'[b] = request[b]
    BY <1>2 DEF Then, Inv, TypeOK, Request
  <1>4. TypeOK'
    <2>1. mailed' \in [Managers -> SUBSET Codes]
      BY <1>1, <1>2 DEF Inv, TypeOK
    <2> QED
      BY <1>2, <1>3, <2>1 DEF Inv, TypeOK
  <1>5. PermanentCode'
    BY <1>1, <1>2 DEF Inv, TypeOK, PermanentCode
  <1>6. EmailsInv'
    BY <1>2, EmailsKept
  <1>7. AttemptsBounded'
    BY <1>1, <1>2, AttemptsKept DEF Does, Idle
  <1>8. Mine(c)'
    BY <1>3 DEF Mine, Idle
  <1>9. ASSUME NEW b \in Clients \ {c} PROVE Mine(b)'
    BY <1>2, <1>3, OthersInv
  <1> QED
    BY <1>4, <1>5, <1>6, <1>7, <1>8, <1>9 DEF Inv

LEMMA VerifyReadInv ==
    ASSUME Inv, NEW c \in Clients, VerifyRead(c)
    PROVE  Inv'
  <1>1. PICK m \in Managers :
           Begin(c, [step |-> "verify", user |-> m, lockedUntil |-> user[m].lockedUntil])
    BY DEF VerifyRead
  <1> DEFINE next == [step |-> "verify", user |-> m, lockedUntil |-> user[m].lockedUntil]
  <1>2. next \in Request
    BY DEF Request, Inv, TypeOK, User
  <1>3. /\ Then(c, next) /\ next.step = "verify" /\ ~Does(c, "locking")
        /\ UNCHANGED <<user, reserved, mailed, lost, now, crashes, lock>> /\ requests' \in Nat
    BY <1>1 DEF VerifyRead, Records, Begin, Does, Inv, TypeOK
  <1>4. /\ lock' \in [Managers -> Clients \cup {Nobody}]
        /\ \A n \in Managers : \A b \in Clients \ {c} : lock[n] = b => lock'[n] = b
    BY <1>3 DEF Inv, TypeOK
  <1> HIDE DEF next
  <1>5. Mine(c)'
    BY <1>3 DEF Mine, Then, Inv, TypeOK
  <1> QED
    BY <1>2, <1>3, <1>4, <1>5, ReadInv

LEMMA VerifyCheckInv ==
    ASSUME Inv, NEW c \in Clients, VerifyCheck(c)
    PROVE  Inv'
  <1> DEFINE r == request[c]
             compare == [step |-> "compare", user |-> r.user, at |-> now]
             next == IF r.lockedUntil > now THEN Idle ELSE compare
  <1>1. r \in Request /\ r.step = "verify" /\ r.user \in Managers /\ now \in Nat
    BY RequestFields DEF VerifyCheck, Does, Inv, TypeOK
  <1>2. compare \in Request /\ Idle \in Request
    BY <1>1 DEF Request
  <1>3. next \in Request /\ next.step \in {"idle", "compare"}
    BY <1>2 DEF Idle
  <1>4. /\ Then(c, next) /\ ~Does(c, "locking")
        /\ UNCHANGED <<user, reserved, mailed, lost, now, crashes, lock, requests>>
    BY DEF VerifyCheck, Ledger, Does
  <1>5. /\ lock' \in [Managers -> Clients \cup {Nobody}] /\ requests' \in Nat
        /\ \A n \in Managers : \A b \in Clients \ {c} : lock[n] = b => lock'[n] = b
    BY <1>4 DEF Inv, TypeOK
  <1> HIDE DEF next
  <1>6. Mine(c)'
    BY <1>3, <1>4 DEF Mine, Then, Inv, TypeOK
  <1> QED
    BY <1>3, <1>4, <1>5, <1>6, ReadInv

\* A write of the failed attempts and of the lock, by a request that goes on with next.
LEMMA AttemptInv ==
    ASSUME Inv, NEW c \in Clients, NEW m \in Managers, NEW new \in User, NEW next \in Request,
           user' = [user EXCEPT ![m] = new],
           new.code = user[m].code, new.emailedAt = user[m].emailedAt,
           new.windowAt = user[m].windowAt, new.count = user[m].count,
           Then(c, next), next.step \in {"idle", "locking"},
           lost' \in [Managers -> Nat],
           UNCHANGED <<now, lock, reserved, mailed, requests, crashes>>,
           AttemptsBounded'
    PROVE  Inv'
  <1>1. /\ user' \in [Managers -> User]
        /\ \A k \in Managers : /\ user'[k].code = user[k].code
                               /\ user'[k].emailedAt = user[k].emailedAt
                               /\ user'[k].windowAt = user[k].windowAt
                               /\ user'[k].count = user[k].count
    BY DEF Inv, TypeOK
  <1>2. request' \in [Clients -> Request] /\ request'[c] = next
        /\ \A b \in Clients \ {c} : request'[b] = request[b]
    BY DEF Then, Inv, TypeOK
  <1>3. TypeOK'
    BY <1>1, <1>2 DEF Inv, TypeOK
  <1>4. PermanentCode' /\ EmailsInv'
    BY <1>1, CodesKept, EmailsKept
  <1>5. Mine(c)'
    BY <1>2 DEF Mine
  <1>6. ASSUME NEW b \in Clients \ {c} PROVE Mine(b)'
    BY <1>1, <1>2, OthersInv
  <1> QED
    BY <1>3, <1>4, <1>5, <1>6 DEF Inv

\* A failed attempt counts one more, and goes on to lock if that is too many.
LEMMA WrongBounded ==
    ASSUME Inv, NEW c \in Clients, Does(c, "compare"), NEW m \in Managers,
           NEW new \in User, new.failed = user[m].failed + 1, user' = [user EXCEPT ![m] = new],
           NEW next, Then(c, next), UNCHANGED lost,
           IF new.failed >= MAX_CODE_ATTEMPTS THEN next.step = "locking" /\ next.user = m
                                              ELSE next.step = "idle"
    PROVE  AttemptsBounded'
  <1>1. request'[c] = next /\ \A b \in Clients \ {c} : request'[b] = request[b]
    BY DEF Then, Inv, TypeOK
  <1> SUFFICES ASSUME NEW k \in Managers
               PROVE  user'[k].failed <= MAX_CODE_ATTEMPTS - 1 + Cardinality(Locking(k)') + lost'[k]
    BY DEF AttemptsBounded
  <1>2. /\ user[k].failed <= MAX_CODE_ATTEMPTS - 1 + Cardinality(Locking(k)) + lost[k]
        /\ lost[k] \in Nat /\ lost'[k] = lost[k] /\ user[k].failed \in Nat
    BY DEF Inv, AttemptsBounded, TypeOK, User
  <1>3. c \notin Locking(k) /\ IsFiniteSet(Locking(k)) /\ Cardinality(Locking(k)) \in Nat
    BY LockingFinite DEF Locking, Does
  <1>4. /\ Locking(k)' \ {c} = Locking(k)
        /\ c \in Locking(k)' <=> next.step = "locking" /\ next.user = k
    <2>1. \A b \in Clients \ {c} : b \in Locking(k)' <=> b \in Locking(k)
      BY <1>1 DEF Locking, Does
    <2>2. Locking(k)' \subseteq Clients /\ Locking(k) \subseteq Clients
      BY DEF Locking
    <2> QED
      BY <1>1, <1>3, <2>1, <2>2 DEF Locking, Does
  <1>5. CASE k = m /\ new.failed >= MAX_CODE_ATTEMPTS
    <2>1. Locking(k)' = Locking(k) \cup {c}
      BY <1>4, <1>5
    <2>2. Cardinality(Locking(k)') = Cardinality(Locking(k)) + 1
      BY <1>3, <2>1, FS_AddElement
    <2>3. user'[k].failed = user[k].failed + 1
      BY <1>5 DEF Inv, TypeOK
    <2> QED
      BY <1>2, <1>3, <2>2, <2>3, Limits
  <1>6. CASE ~(k = m /\ new.failed >= MAX_CODE_ATTEMPTS)
    <2>1. Locking(k)' = Locking(k)
      BY <1>4, <1>6
    <2>2. CASE k # m
      <3>1. user'[k] = user[k]
        BY <2>2 DEF Inv, TypeOK
      <3> QED
        BY <1>2, <2>1, <3>1
    <2>3. CASE k = m
      <3>1. user'[k].failed = new.failed /\ ~(new.failed >= MAX_CODE_ATTEMPTS) /\ new.failed \in Nat
        BY <1>6, <2>3 DEF Inv, TypeOK, User
      <3> QED
        BY <1>2, <1>3, <2>1, <3>1, Limits
    <2> QED
      BY <2>2, <2>3
  <1> QED
    BY <1>5, <1>6

LEMMA VerifyWrongInv ==
    ASSUME Inv, NEW c \in Clients, VerifyWrong(c)
    PROVE  Inv'
  <1>1. PICK m \in Managers :
           /\ m = request[c].user /\ user[m] \in User
           /\ request[c] \in [step : {"compare", "locking"}, user : Managers, at : Nat]
    BY RequestFields DEF VerifyWrong, Does, Inv, TypeOK
  <1>2. PICK new \in User :
           /\ new = [user[m] EXCEPT !.failed = user[m].failed + 1]
           /\ new.failed = user[m].failed + 1
           /\ new.code = user[m].code /\ new.emailedAt = user[m].emailedAt
           /\ new.windowAt = user[m].windowAt /\ new.count = user[m].count
    <2> DEFINE w == [user[m] EXCEPT !.failed = user[m].failed + 1]
    <2>1. /\ w \in User /\ w.failed = user[m].failed + 1
          /\ w.code = user[m].code /\ w.emailedAt = user[m].emailedAt
          /\ w.windowAt = user[m].windowAt /\ w.count = user[m].count
      BY <1>1 DEF User
    <2> QED
      BY <2>1, Zenon
  <1>3. PICK locks \in Request :
           locks = [request[c] EXCEPT !.step = "locking"] /\ locks.step = "locking" /\ locks.user = m
    <2> DEFINE w == [request[c] EXCEPT !.step = "locking"]
    <2>1. w \in Request /\ w.step = "locking" /\ w.user = m
      BY <1>1 DEF Request
    <2> QED
      BY <2>1, Zenon
  <1>4. PICK next \in Request :
           /\ next = IF ShouldLock(new.failed) THEN locks ELSE Idle
           /\ IF new.failed >= MAX_CODE_ATTEMPTS THEN next.step = "locking" /\ next.user = m
                                                 ELSE next.step = "idle"
    BY <1>3 DEF Request, Idle, ShouldLock
  <1>5. /\ user' = [user EXCEPT ![m] = new] /\ Then(c, next) /\ Does(c, "compare")
        /\ UNCHANGED <<lock, now, reserved, mailed, lost, requests, crashes>>
    BY <1>1, <1>2, <1>3, <1>4 DEF VerifyWrong, Ledger
  <1>6. lost' \in [Managers -> Nat] /\ next.step \in {"idle", "locking"}
    BY <1>4, <1>5 DEF Inv, TypeOK
  <1>7. AttemptsBounded'
    BY <1>2, <1>4, <1>5, WrongBounded
  <1> QED
    BY <1>2, <1>5, <1>6, <1>7, AttemptInv

LEMMA ResetRow ==
    ASSUME Inv, NEW m \in Managers, NEW t \in Time,
           user' = [user EXCEPT ![m].failed = 0, ![m].lockedUntil = t]
    PROVE  \E new \in User :
              /\ user' = [user EXCEPT ![m] = new]
              /\ new.failed = 0
              /\ new.code = user[m].code /\ new.emailedAt = user[m].emailedAt
              /\ new.windowAt = user[m].windowAt /\ new.count = user[m].count
  <1> DEFINE w == [user[m] EXCEPT !.failed = 0, !.lockedUntil = t]
  <1>1. user[m] \in User
    BY DEF Inv, TypeOK
  <1>2. /\ w \in User /\ w.failed = 0
        /\ w.code = user[m].code /\ w.emailedAt = user[m].emailedAt
        /\ w.windowAt = user[m].windowAt /\ w.count = user[m].count
    BY <1>1 DEF User
  <1>3. user' = [user EXCEPT ![m] = w]
    OBVIOUS
  <1> QED
    BY <1>2, <1>3, Zenon

\* A right attempt, or the one that locks, starts the count again.
LEMMA ResetInv ==
    ASSUME Inv, NEW c \in Clients, NEW m \in Managers, request[c].user = m,
           Does(c, "compare") \/ Does(c, "locking"),
           NEW new \in User, new.failed = 0,
           new.code = user[m].code, new.emailedAt = user[m].emailedAt,
           new.windowAt = user[m].windowAt, new.count = user[m].count,
           user' = [user EXCEPT ![m] = new],
           lost' = [lost EXCEPT ![m] = 0], Then(c, Idle),
           UNCHANGED <<now, lock, reserved, mailed, requests, crashes>>
    PROVE  Inv'
  <1>3. lost' \in [Managers -> Nat] /\ Idle \in Request /\ Idle.step \in {"idle", "locking"}
    BY DEF Inv, TypeOK, Request, Idle
  <1>4. AttemptsBounded'
    <2> SUFFICES ASSUME NEW k \in Managers
                 PROVE  user'[k].failed <= MAX_CODE_ATTEMPTS - 1 + Cardinality(Locking(k)') + lost'[k]
      BY DEF AttemptsBounded
    <2>1. /\ user[k].failed <= MAX_CODE_ATTEMPTS - 1 + Cardinality(Locking(k)) + lost[k]
          /\ lost[k] \in Nat /\ user[k].failed \in Nat
      BY DEF Inv, AttemptsBounded, TypeOK, User
    <2>2. Cardinality(Locking(k)) \in Nat
      BY LockingFinite
    <2>3. CASE k = m
      <3>1. IsFiniteSet(Locking(k)')
        BY NamesAssumption, FS_Subset DEF Locking
      <3>2. Cardinality(Locking(k)') \in Nat
        BY <3>1, FS_CardinalityType
      <3>3. user'[k].failed = 0 /\ lost'[k] = 0
        BY <2>3 DEF Inv, TypeOK
      <3> QED
        BY <3>2, <3>3, Limits
    <2>4. CASE k # m
      <3>1. \A b \in Clients : b \in Locking(k)' <=> b \in Locking(k)
        BY <2>4 DEF Locking, Does, Then, Idle, Inv, TypeOK
      <3>2. Locking(k)' = Locking(k)
        BY <3>1 DEF Locking
      <3>3. user'[k] = user[k] /\ lost'[k] = lost[k]
        BY <2>4 DEF Inv, TypeOK
      <3> QED
        BY <2>1, <3>2, <3>3
    <2> QED
      BY <2>3, <2>4
  <1> QED
    BY <1>3, <1>4, AttemptInv

LEMMA VerifyLockInv ==
    ASSUME Inv, NEW c \in Clients, VerifyLock(c)
    PROVE  Inv'
  <1>1. PICK m \in Managers, t \in Time : m = request[c].user /\ t = request[c].at + LOCK_DURATION
    BY RequestFields, Limits DEF VerifyLock, Does, Inv, TypeOK, Time
  <1>2. PICK new \in User :
           /\ user' = [user EXCEPT ![m] = new] /\ new.failed = 0
           /\ new.code = user[m].code /\ new.emailedAt = user[m].emailedAt
           /\ new.windowAt = user[m].windowAt /\ new.count = user[m].count
    <2>1. user' = [user EXCEPT ![m].failed = 0, ![m].lockedUntil = t]
      BY <1>1 DEF VerifyLock
    <2> QED
      BY <2>1, ResetRow, Zenon
  <1>3. lost' = [lost EXCEPT ![m] = 0] /\ Then(c, Idle) /\ Does(c, "locking")
        /\ UNCHANGED <<now, lock, reserved, mailed, requests, crashes>>
    BY <1>1 DEF VerifyLock
  <1> QED
    BY <1>1, <1>2, <1>3, ResetInv

LEMMA VerifyRightInv ==
    ASSUME Inv, NEW c \in Clients, VerifyRight(c)
    PROVE  Inv'
  <1>1. PICK m \in Managers : m = request[c].user
    BY RequestFields DEF VerifyRight, Does, Inv, TypeOK
  <1>2. PICK new \in User :
           /\ user' = [user EXCEPT ![m] = new] /\ new.failed = 0
           /\ new.code = user[m].code /\ new.emailedAt = user[m].emailedAt
           /\ new.windowAt = user[m].windowAt /\ new.count = user[m].count
    <2>1. Never \in Time
      BY DEF Time
    <2>2. user' = [user EXCEPT ![m].failed = 0, ![m].lockedUntil = Never]
      BY <1>1 DEF VerifyRight
    <2> QED
      BY <2>1, <2>2, ResetRow, Zenon
  <1>3. lost' = [lost EXCEPT ![m] = 0] /\ Then(c, Idle) /\ Does(c, "compare")
        /\ UNCHANGED <<now, lock, reserved, mailed, requests, crashes>>
    BY <1>1 DEF VerifyRight
  <1> QED
    BY <1>1, <1>2, <1>3, ResetInv

LEMMA CrashInv ==
    ASSUME Inv, NEW c \in Clients, Crash(c)
    PROVE  Inv'
  <1>1. request' \in [Clients -> Request] /\ request'[c] = Idle
        /\ \A b \in Clients \ {c} : request'[b] = request[b]
    BY DEF Crash, Then, Inv, TypeOK, Request
  <1>2. /\ lock' \in [Managers -> Clients \cup {Nobody}]
        /\ \A m \in Managers : \A b \in Clients \ {c} : lock[m] = b => lock'[m] = b
    BY NamesAssumption DEF Crash, Inv, TypeOK
  <1>3. TypeOK'
    BY <1>1, <1>2 DEF Crash, Inv, TypeOK
  <1>4. PermanentCode' /\ EmailsInv'
    BY CodesKept, EmailsKept DEF Crash
  <1>5. AttemptsBounded'
    <2> SUFFICES ASSUME NEW k \in Managers
                 PROVE  user[k].failed <= MAX_CODE_ATTEMPTS - 1 + Cardinality(Locking(k)') + lost'[k]
      BY DEF AttemptsBounded, Crash
    <2>1. /\ user[k].failed <= MAX_CODE_ATTEMPTS - 1 + Cardinality(Locking(k)) + lost[k]
          /\ lost[k] \in Nat /\ user[k].failed \in Nat
      BY DEF Inv, AttemptsBounded, TypeOK, User
    <2>2. IsFiniteSet(Locking(k)) /\ Cardinality(Locking(k)) \in Nat
      BY LockingFinite
    <2>3. \A b \in Clients \ {c} : b \in Locking(k)' <=> b \in Locking(k)
      BY <1>1 DEF Locking, Does
    <2>4. c \notin Locking(k)'
      BY <1>1 DEF Locking, Does, Idle
    <2>5. Locking(k)' = Locking(k) \ {c}
      BY <2>3, <2>4 DEF Locking
    <2>6. CASE c \in Locking(k)
      <3>1. Cardinality(Locking(k)') = Cardinality(Locking(k)) - 1
        BY <2>2, <2>5, <2>6, FS_RemoveElement
      <3>2. lost'[k] = lost[k] + 1
        BY <2>6 DEF Locking, Crash
      <3> QED
        BY <2>1, <2>2, <3>1, <3>2, Limits
    <2>7. CASE c \notin Locking(k)
      <3>1. Locking(k)' = Locking(k) /\ lost'[k] = lost[k]
        BY <2>5, <2>7 DEF Locking, Crash
      <3> QED
        BY <2>1, <3>1
    <2> QED
      BY <2>6, <2>7
  <1>6. Mine(c)'
    BY <1>1 DEF Mine, Idle
  <1>7. ASSUME NEW b \in Clients \ {c} PROVE Mine(b)'
    BY <1>1, <1>2, OthersInv DEF Crash
  <1> QED
    BY <1>3, <1>4, <1>5, <1>6, <1>7 DEF Inv

LEMMA UnchangedInv ==
    ASSUME Inv, UNCHANGED <<user, lock, request, reserved, mailed, lost, requests, crashes>>, now' \in Nat
    PROVE  Inv'
  <1>1. TypeOK' /\ PermanentCode' /\ AttemptsBounded' /\ \A c \in Clients : Mine(c)'
    BY DEF Inv, TypeOK, PermanentCode, AttemptsBounded, Locking, Does, Mine
  <1>2. EmailsInv'
    BY EmailsKept
  <1> QED
    BY <1>1, <1>2 DEF Inv

LEMMA NextInv == Inv /\ [Next]_vars => Inv'
  <1> SUFFICES ASSUME Inv, [Next]_vars PROVE Inv'
    OBVIOUS
  <1>1. CASE Tick
    BY <1>1, UnchangedInv DEF Tick, Inv, TypeOK
  <1>2. ASSUME NEW c \in Clients, Handler(c) \/ Crash(c)
        PROVE  Inv'
    BY <1>2, AskInv, CodeLockInv, CodeStoreInv, ReserveLockInv, ReserveCommitInv, MailInv,
       VerifyReadInv, VerifyCheckInv, VerifyWrongInv, VerifyLockInv, VerifyRightInv, CrashInv
       DEF Handler
  <1>3. CASE UNCHANGED vars
    BY <1>3, UnchangedInv DEF vars, Inv, TypeOK
  <1> QED
    BY <1>1, <1>2, <1>3 DEF Next

THEOREM InvHolds == Spec => []Inv
  BY InitInv, NextInv, PTL DEF Spec

\* The state always has the types its declarations give (the columns of model User).
THEOREM TypeCorrect == Spec => []TypeOK
  <1>1. Inv => TypeOK
    BY DEF Inv
  <1> QED
    BY <1>1, InvHolds, PTL

\* However getOrCreatePersonalCode overlaps and fails, the codes a manager was sent are the
\* one he has, and no one else has it.
THEOREM CodesPermanent == Spec => []PermanentCode
  <1>1. Inv => PermanentCode
    BY DEF Inv
  <1> QED
    BY <1>1, InvHolds, PTL

\* However reserveEmailDelivery overlaps and fails, a manager is never allowed two e-mails
\* closer than the resend cooldown.
THEOREM EmailsAlwaysSpaced == Spec => []EmailsSpaced
  <1>1. Inv => EmailsSpaced
    BY DEF Inv, EmailsInv
  <1> QED
    BY <1>1, InvHolds, PTL

\* However reserveEmailDelivery overlaps and fails, the e-mails it allows are fewer than
\* twice the limit in any period as long as a window.
THEOREM EmailsLimited == Spec => []EmailsPerWindow
  <1>1. Inv => EmailsPerWindow
    BY DEF Inv, EmailsInv
  <1> QED
    BY <1>1, InvHolds, PTL

\* The failed attempts of verify are bounded by the limit and the locks still to come.
THEOREM AttemptsLimited == Spec => []AttemptsBounded
  <1>1. Inv => AttemptsBounded
    BY DEF Inv
  <1> QED
    BY <1>1, InvHolds, PTL

=============================================================================

-------------------------- MODULE EmailWorkerProofs --------------------------
(***************************************************************************)
(* The outbox is safe for any number of processes, e-mails and attempts,   *)
(* whenever processes stop: attempts and deliveries are bounded, what is   *)
(* recorded as sent stays so, and it implements EmailDelivery.             *)
(***************************************************************************)
EXTENDS EmailWorker, FiniteSetTheorems, WellFoundedInduction, TLAPS

\* A process about to claim an e-mail may add an attempt, whatever the others have added.
AttemptsInv ==
    \A e \in Emails :
        attempts[e] + Cardinality(Holding(e, "claiming")) <= MAX_ATTEMPTS + Cardinality(Workers) - 1

\* The rows that claimNext has reset stay as it found them, under its locks.
ResetsHeld ==
    \A w \in Workers :
        At(w, "claiming") =>
            \A e \in worker[w].reset : status[e] = "PROCESSING" /\ elapsed[e] /\ Unlocked(w, e)

\* The e-mail in the hands of a process has been queued; one to be confirmed was taken.
InHand(w) ==
    /\ At(w, "claiming") /\ worker[w].email # NoEmail => status[worker[w].email] # "ABSENT"
    /\ worker[w].at \in {"sending", "confirming", "rejecting"} => status[worker[w].email] # "ABSENT"
    /\ At(w, "confirming") => delivered[worker[w].email] > 0

HandsInv == ResetsHeld /\ \A w \in Workers : InHand(w)

Inv == TypeOK /\ AttemptsInv /\ OneDeliveryPerAttempt /\ HandsInv

-----------------------------------------------------------------------------
(* The types *)

\* A process may be in these places.
LEMMA Places ==
    /\ [at |-> "idle"] \in Worker /\ [at |-> "scheduled"] \in Worker /\ [at |-> "draining"] \in Worker
    /\ \A e \in Emails, place \in {"sending", "confirming", "rejecting"} : With(place, e) \in Worker
    /\ \A e \in Emails \cup {NoEmail}, seen \in {"PENDING", "FAILED"}, reset \in SUBSET Emails :
          [at |-> "claiming", email |-> e, reset |-> reset, seen |-> seen] \in Worker
BY DEF Worker, With

LEMMA Held ==
    ASSUME TypeOK, NEW w \in Workers
    PROVE  /\ worker[w].at \in {"sending", "confirming", "rejecting"} => worker[w].email \in Emails
           /\ At(w, "claiming") =>
                 /\ worker[w].email \in Emails \cup {NoEmail}
                 /\ worker[w].seen \in {"PENDING", "FAILED"}
                 /\ worker[w].reset \in SUBSET Emails
<1>1. worker[w] \in Worker
    BY DEF TypeOK
<1> QED BY <1>1 DEF Worker, At

LEMMA EmailsAreNumbers == Emails \subseteq Nat /\ NoEmail \notin Emails
BY BoundsAssumption DEF Emails, NoEmail

\* The oldest e-mail to send.
LEMMA MinIn ==
    ASSUME NEW S \in SUBSET Emails, S # {}
    PROVE  Min(S) \in S
<1>1. S \subseteq Nat
    BY EmailsAreNumbers
<1>2. PICK x \in S : \A y \in S : ~(<<y, x>> \in OpToRel(<, Nat))
    BY <1>1, NatLessThanWellFounded, WFMin
<1>3. \A y \in S : ~(y < x)
    BY <1>1, <1>2 DEF OpToRel
<1>4. \A y \in S : x =< y
    BY <1>1, <1>3
<1> QED BY <1>4 DEF Min

\* What claimNext finds.
LEMMA Found ==
    ASSUME TypeOK, NEW w \in Workers, ClaimFind(w)
    PROVE  \E oldest \in Emails \cup {NoEmail} : \E next \in Worker :
               /\ next = [at |-> "claiming", email |-> oldest, reset |-> Stale, seen |-> Seen(oldest)]
               /\ Go(w, next)
               /\ Stale \subseteq Emails /\ Seen(oldest) \in {"PENDING", "FAILED"}
               /\ oldest # NoEmail => oldest \in Claimable
<1> DEFINE oldest == IF Claimable = {} THEN NoEmail ELSE Min(Claimable)
<1>1. Claimable \subseteq Emails /\ Stale \subseteq Emails
    BY DEF Claimable, Stale
<1>2. oldest \in Emails \cup {NoEmail} /\ (oldest # NoEmail => oldest \in Claimable)
    BY <1>1, MinIn
<1>3. Seen(oldest) \in {"PENDING", "FAILED"}
    BY DEF Seen
<1>4. Go(w, [at |-> "claiming", email |-> oldest, reset |-> Stale, seen |-> Seen(oldest)])
    BY DEF ClaimFind
<1> HIDE DEF oldest
<1>5. [at |-> "claiming", email |-> oldest, reset |-> Stale, seen |-> Seen(oldest)] \in Worker
    BY <1>1, <1>2, <1>3, Places
<1> QED BY <1>1, <1>2, <1>3, <1>4, <1>5

LEMMA TypeStep == TypeOK /\ [Next]_vars => TypeOK'
<1> SUFFICES ASSUME TypeOK, [Next]_vars PROVE TypeOK'
    OBVIOUS
<1>0. ASSUME NEW w \in Workers, NEW next \in Worker, Go(w, next)
      PROVE  worker' \in [Workers -> Worker]
    BY <1>0 DEF Go, TypeOK
<1>1. ASSUME NEW e \in Emails, Enqueue(e) PROVE TypeOK'
    BY <1>1 DEF Enqueue, TypeOK, Statuses
<1>2. ASSUME NEW e \in Emails, Cascade(e) PROVE TypeOK'
    BY <1>2 DEF Cascade, TypeOK
<1>3. ASSUME NEW e \in Emails, Elapse(e) PROVE TypeOK'
    BY <1>3 DEF Elapse, TypeOK
<1>4. ASSUME NEW w \in Workers, Kick(w) \/ Drain(w) PROVE TypeOK'
    BY <1>0, <1>4, Places DEF Kick, Drain, TypeOK, rows
<1>5. ASSUME NEW w \in Workers, ClaimFind(w) PROVE TypeOK'
    <2>1. PICK next \in Worker : Go(w, next)
        BY <1>5, Found
    <2>2. worker' \in [Workers -> Worker]
        BY <1>0, <2>1
    <2>3. UNCHANGED <<status, attempts, elapsed, delivered, crashes>>
        BY <1>5 DEF ClaimFind, rows
    <2> QED BY <2>2, <2>3 DEF TypeOK
<1>6. ASSUME NEW w \in Workers, ClaimCommit(w) PROVE TypeOK'
    <2>1. worker' \in [Workers -> Worker]
        <3>1. Wins(worker[w]) => worker[w].email \in Emails
            BY <1>6, Held DEF ClaimCommit, Wins
        <3> QED BY <1>0, <1>6, <3>1, Places DEF ClaimCommit, Rest
    <2>2. elapsed' \in [Emails -> BOOLEAN]
        BY <1>6 DEF ClaimCommit, TypeOK
    <2>3. status' \in [Emails -> Statuses \cup {"ABSENT", "DELETED"}]
        BY <1>6 DEF ClaimCommit, TypeOK, Statuses
    <2>4. attempts' \in [Emails -> Nat] /\ UNCHANGED <<delivered, crashes>>
        BY <1>6 DEF ClaimCommit, TypeOK
    <2> QED BY <2>1, <2>2, <2>3, <2>4 DEF TypeOK
<1>7. ASSUME NEW w \in Workers, SendOk(w) PROVE TypeOK'
    <2>1. worker[w].email \in Emails
        BY <1>7, Held DEF SendOk, At
    <2> QED BY <1>0, <1>7, <2>1, Places DEF SendOk, TypeOK, rows
<1>8. ASSUME NEW w \in Workers, SendError(w) \/ ConfirmError(w) PROVE TypeOK'
    <2>1. worker[w].email \in Emails
        BY <1>8, Held DEF SendError, ConfirmError, At
    <2> QED BY <1>0, <1>8, <2>1, Places DEF SendError, ConfirmError, TypeOK, rows
<1>9. ASSUME NEW w \in Workers, Confirm(w) \/ Reject(w) PROVE TypeOK'
    <2>1. worker' \in [Workers -> Worker]
        BY <1>0, <1>9, Places DEF Confirm, Reject, Record
    <2>2. status' \in [Emails -> Statuses \cup {"ABSENT", "DELETED"}] /\ elapsed' \in [Emails -> BOOLEAN]
        BY <1>9 DEF Confirm, Reject, Record, TypeOK, Statuses
    <2> QED BY <1>9, <2>1, <2>2 DEF Confirm, Reject, Record, TypeOK
<1>10. ASSUME NEW w \in Workers, Crash(w) PROVE TypeOK'
    BY <1>0, <1>10, Places, BoundsAssumption DEF Crash, Rest, TypeOK, rows
<1>11. CASE UNCHANGED vars
    BY <1>11 DEF vars, rows, TypeOK
<1> QED BY <1>1, <1>2, <1>3, <1>4, <1>5, <1>6, <1>7, <1>8, <1>9, <1>10, <1>11 DEF Next, Work

-----------------------------------------------------------------------------
(* Counting the processes that hold an e-mail *)

LEMMA Counting ==
    ASSUME NEW S \in SUBSET Workers, NEW w \in Workers
    PROVE  /\ Cardinality(S) \in Nat /\ Cardinality(Workers) \in Nat
           /\ Cardinality(S) <= Cardinality(Workers)
           /\ Cardinality(S \ {w}) \in Nat /\ Cardinality(S \ {w}) <= Cardinality(S)
           /\ w \in S => Cardinality(S \ {w}) = Cardinality(S) - 1
           /\ Cardinality(S \cup {w}) \in Nat /\ Cardinality(S \cup {w}) <= Cardinality(S) + 1
           /\ Cardinality(S \cup {w}) <= Cardinality(Workers)
<1>1. IsFiniteSet(Workers)
    BY WorkersAssumption
<1>2. S \cup {w} \in SUBSET Workers /\ S \ {w} \in SUBSET Workers
    OBVIOUS
<1>3. /\ Cardinality(Workers) \in Nat
      /\ IsFiniteSet(S) /\ Cardinality(S) <= Cardinality(Workers)
      /\ IsFiniteSet(S \cup {w}) /\ Cardinality(S \cup {w}) <= Cardinality(Workers)
      /\ IsFiniteSet(S \ {w})
    BY <1>1, <1>2, FS_CardinalityType, FS_Subset
<1>4. Cardinality(S) \in Nat /\ Cardinality(S \cup {w}) \in Nat /\ Cardinality(S \ {w}) \in Nat
    BY <1>3, FS_CardinalityType
<1>5. Cardinality(S \cup {w}) = IF w \in S THEN Cardinality(S) ELSE Cardinality(S) + 1
    BY <1>3, FS_AddElement
<1>6. Cardinality(S \ {w}) = IF w \in S THEN Cardinality(S) - 1 ELSE Cardinality(S)
    BY <1>3, FS_RemoveElement
<1> QED BY <1>3, <1>4, <1>5, <1>6

LEMMA HoldingMoves ==
    ASSUME TypeOK, NEW w \in Workers, NEW next, Go(w, next), NEW e, NEW place
    PROVE  Holding(e, place)' = IF next.at = place /\ next.email = e
                                THEN Holding(e, place) \cup {w} ELSE Holding(e, place) \ {w}
<1>1. \A v \in Workers : worker'[v] = IF v = w THEN next ELSE worker[v]
    BY DEF Go, TypeOK
<1>2. Holding(e, place)' = {v \in Workers : worker'[v].at = place /\ worker'[v].email = e}
    BY DEF Holding, At
<1>3. Holding(e, place) = {v \in Workers : worker[v].at = place /\ worker[v].email = e}
    BY DEF Holding, At
<1> QED BY <1>1, <1>2, <1>3

\* A process that goes elsewhere than to claim or to send only lets go of what it held.
LEMMA LettingGo ==
    ASSUME TypeOK, NEW w \in Workers, NEW next, Go(w, next), NEW e, NEW place, next.at # place
    PROVE  /\ Cardinality(Holding(e, place)) \in Nat
           /\ Cardinality(Holding(e, place)') \in Nat
           /\ Cardinality(Holding(e, place)') <= Cardinality(Holding(e, place))
           /\ At(w, place) /\ worker[w].email = e =>
                 Cardinality(Holding(e, place)') = Cardinality(Holding(e, place)) - 1
<1>1. Holding(e, place)' = Holding(e, place) \ {w}
    BY HoldingMoves
<1>2. Holding(e, place) \in SUBSET Workers
    BY DEF Holding
<1>3. At(w, place) /\ worker[w].email = e => w \in Holding(e, place)
    BY DEF Holding
<1> QED BY <1>1, <1>2, <1>3, Counting

\* A process that comes to hold an e-mail adds one at most.
LEMMA TakingOn ==
    ASSUME TypeOK, NEW w \in Workers, NEW next, Go(w, next), NEW e, NEW place
    PROVE  /\ Cardinality(Holding(e, place)) \in Nat /\ Cardinality(Workers) \in Nat
           /\ Cardinality(Holding(e, place)') \in Nat
           /\ Cardinality(Holding(e, place)') <= Cardinality(Holding(e, place)) + 1
           /\ Cardinality(Holding(e, place)') <= Cardinality(Workers)
           /\ next.email # e => Cardinality(Holding(e, place)') <= Cardinality(Holding(e, place))
<1>1. Holding(e, place)' = IF next.at = place /\ next.email = e
                           THEN Holding(e, place) \cup {w} ELSE Holding(e, place) \ {w}
    BY HoldingMoves
<1>2. Holding(e, place) \in SUBSET Workers
    BY DEF Holding
<1>3. CASE next.at = place /\ next.email = e
    BY <1>1, <1>2, <1>3, Counting
<1>4. CASE ~(next.at = place /\ next.email = e)
    <2>1. Holding(e, place)' = Holding(e, place) \ {w}
        BY <1>1, <1>4
    <2>2. /\ Cardinality(Holding(e, place)) \in Nat /\ Cardinality(Workers) \in Nat
          /\ Cardinality(Holding(e, place)) <= Cardinality(Workers)
          /\ Cardinality(Holding(e, place) \ {w}) \in Nat
          /\ Cardinality(Holding(e, place) \ {w}) <= Cardinality(Holding(e, place))
        BY <1>2, Counting
    <2> QED BY <2>1, <2>2
<1> QED BY <1>3, <1>4

\* Processes and counters stay.
LEMMA HoldingStays ==
    ASSUME worker' = worker, NEW e, NEW place
    PROVE  Holding(e, place)' = Holding(e, place)
BY DEF Holding, At

LEMMA AttemptsStep ==
    ASSUME TypeOK, AttemptsInv, OneDeliveryPerAttempt, [Next]_vars
    PROVE  AttemptsInv' /\ OneDeliveryPerAttempt'
<1> DEFINE C(e) == Cardinality(Holding(e, "claiming"))
           S(e) == Cardinality(Holding(e, "sending"))
<1>0. /\ \A e \in Emails : attempts[e] \in Nat /\ delivered[e] \in Nat
      /\ MAX_ATTEMPTS \in Nat
      /\ \A e \in Emails : attempts[e] + C(e) <= MAX_ATTEMPTS + Cardinality(Workers) - 1
      /\ \A e \in Emails : delivered[e] + S(e) <= attempts[e]
    BY BoundsAssumption DEF TypeOK, AttemptsInv, OneDeliveryPerAttempt
<1>a. SUFFICES ASSUME NEW e \in Emails
               PROVE  /\ attempts'[e] + C(e)' <= MAX_ATTEMPTS + Cardinality(Workers) - 1
                      /\ delivered'[e] + S(e)' <= attempts'[e]
    BY DEF AttemptsInv, OneDeliveryPerAttempt
<1>1. ASSUME worker' = worker, UNCHANGED <<attempts, delivered>>
      PROVE  /\ attempts'[e] + C(e)' <= MAX_ATTEMPTS + Cardinality(Workers) - 1
             /\ delivered'[e] + S(e)' <= attempts'[e]
    BY <1>0, <1>1, HoldingStays
<1>2. ASSUME NEW w \in Workers, NEW next, Go(w, next), next.at \notin {"claiming", "sending"},
             UNCHANGED <<attempts, delivered>>
      PROVE  /\ attempts'[e] + C(e)' <= MAX_ATTEMPTS + Cardinality(Workers) - 1
             /\ delivered'[e] + S(e)' <= attempts'[e]
    <2>1. C(e) \in Nat /\ C(e)' \in Nat /\ C(e)' <= C(e)
        BY <1>2, LettingGo
    <2>2. S(e) \in Nat /\ S(e)' \in Nat /\ S(e)' <= S(e)
        BY <1>2, LettingGo
    <2>3. Cardinality(Workers) \in Nat
        BY <1>2, TakingOn
    <2> HIDE DEF C, S
    <2> QED BY <1>0, <1>2, <2>1, <2>2, <2>3
<1>3. ASSUME NEW w \in Workers, ClaimFind(w)
      PROVE  /\ attempts'[e] + C(e)' <= MAX_ATTEMPTS + Cardinality(Workers) - 1
             /\ delivered'[e] + S(e)' <= attempts'[e]
    <2>1. PICK oldest \in Emails \cup {NoEmail}, next \in Worker :
              /\ next.email = oldest /\ next.at = "claiming" /\ Go(w, next)
              /\ oldest # NoEmail => oldest \in Claimable
        BY <1>3, Found
    <2>2. S(e) \in Nat /\ S(e)' \in Nat /\ S(e)' <= S(e)
        BY <2>1, LettingGo
    <2>3. /\ C(e) \in Nat /\ C(e)' \in Nat /\ Cardinality(Workers) \in Nat
          /\ C(e)' <= Cardinality(Workers) /\ (oldest # e => C(e)' <= C(e))
        BY <2>1, TakingOn
    <2>4. oldest = e => attempts[e] < MAX_ATTEMPTS
        BY <2>1, EmailsAreNumbers DEF Claimable
    <2>5. UNCHANGED <<attempts, delivered>>
        BY <1>3 DEF ClaimFind, rows
    <2> HIDE DEF C, S
    <2> QED BY <1>0, <2>2, <2>3, <2>4, <2>5
<1>4. ASSUME NEW w \in Workers, ClaimCommit(w)
      PROVE  /\ attempts'[e] + C(e)' <= MAX_ATTEMPTS + Cardinality(Workers) - 1
             /\ delivered'[e] + S(e)' <= attempts'[e]
    <2> DEFINE r == worker[w]
    <2>1. /\ At(w, "claiming") /\ delivered' = delivered
          /\ attempts'[e] = IF Wins(r) /\ e = r.email THEN attempts[e] + 1 ELSE attempts[e]
          /\ Go(w, IF Wins(r) THEN With("sending", r.email) ELSE Rest)
        BY <1>4 DEF ClaimCommit
    <2>2. PICK next : next = IF Wins(r) THEN With("sending", r.email) ELSE Rest
        OBVIOUS
    <2>3. /\ Go(w, next) /\ next.at \in {"sending", "idle"}
          /\ next.at = "sending" => Wins(r) /\ next.email = r.email
        BY <2>1, <2>2 DEF With, Rest
    <2>4. /\ C(e) \in Nat /\ C(e)' \in Nat /\ C(e)' <= C(e)
          /\ r.email = e => C(e)' = C(e) - 1
        BY <2>1, <2>3, LettingGo
    <2>5. /\ S(e) \in Nat /\ S(e)' \in Nat /\ Cardinality(Workers) \in Nat
          /\ S(e)' <= S(e) + 1
          /\ ~(Wins(r) /\ e = r.email) => S(e)' <= S(e)
        <3>1. CASE next.at = "sending"
            BY <2>3, <3>1, TakingOn
        <3>2. CASE next.at = "idle"
            BY <2>3, <3>2, TakingOn, LettingGo
        <3> QED BY <2>3, <3>1, <3>2
    <2> HIDE DEF C, S
    <2> QED BY <1>0, <2>1, <2>4, <2>5
<1>5. ASSUME NEW w \in Workers, SendOk(w)
      PROVE  /\ attempts'[e] + C(e)' <= MAX_ATTEMPTS + Cardinality(Workers) - 1
             /\ delivered'[e] + S(e)' <= attempts'[e]
    <2>1. PICK next : next = With("confirming", worker[w].email)
        OBVIOUS
    <2>2. Go(w, next) /\ next.at = "confirming" /\ At(w, "sending") /\ attempts' = attempts
        BY <1>5, <2>1 DEF SendOk, With, rows
    <2>3. delivered'[e] = IF e = worker[w].email THEN delivered[e] + 1 ELSE delivered[e]
        BY <1>5 DEF SendOk, TypeOK
    <2>4. C(e) \in Nat /\ C(e)' \in Nat /\ C(e)' <= C(e)
        BY <2>2, LettingGo
    <2>5. /\ S(e) \in Nat /\ S(e)' \in Nat /\ S(e)' <= S(e)
          /\ worker[w].email = e => S(e)' = S(e) - 1
        BY <2>2, LettingGo
    <2>6. Cardinality(Workers) \in Nat
        BY <2>2, TakingOn
    <2> HIDE DEF C, S
    <2> QED BY <1>0, <2>2, <2>3, <2>4, <2>5, <2>6
<1>6. ASSUME NEW w \in Workers, Kick(w) \/ Drain(w) \/ SendError(w) \/ ConfirmError(w) \/ Crash(w)
                               \/ Confirm(w) \/ Reject(w)
      PROVE  /\ attempts'[e] + C(e)' <= MAX_ATTEMPTS + Cardinality(Workers) - 1
             /\ delivered'[e] + S(e)' <= attempts'[e]
    <2>1. \E next : Go(w, next) /\ next.at \notin {"claiming", "sending"}
        BY <1>6 DEF Kick, Drain, SendError, ConfirmError, Crash, Rest, With, Confirm, Reject, Record
    <2>2. UNCHANGED <<attempts, delivered>>
        BY <1>6 DEF Kick, Drain, SendError, ConfirmError, Crash, Confirm, Reject, Record, rows
    <2> QED BY <1>2, <2>1, <2>2
<1>7. ASSUME NEW f \in Emails, Enqueue(f) \/ Cascade(f) \/ Elapse(f)
      PROVE  worker' = worker /\ UNCHANGED <<attempts, delivered>>
    BY <1>7 DEF Enqueue, Cascade, Elapse
<1>8. CASE UNCHANGED vars
    BY <1>1, <1>8 DEF vars, rows
<1> HIDE DEF C, S
<1> QED BY <1>1, <1>3, <1>4, <1>5, <1>6, <1>7, <1>8 DEF Next, Work

-----------------------------------------------------------------------------
(* What the processes have in hand *)

LEMMA HandsKeep ==
    ASSUME TypeOK, HandsInv,
           \A v \in Workers :
               worker'[v] = worker[v] \/ (worker'[v].at # "claiming" /\ InHand(v)'),
           \A v \in Workers : At(v, "claiming") /\ worker'[v] = worker[v] =>
               \A e \in worker[v].reset : status'[e] = "PROCESSING" /\ elapsed'[e],
           \A e \in Emails : /\ status[e] # "ABSENT" => status'[e] # "ABSENT"
                             /\ delivered[e] > 0 => delivered'[e] > 0
    PROVE  HandsInv'
<1>1. ResetsHeld'
    <2>1. SUFFICES ASSUME NEW w \in Workers, At(w, "claiming")', NEW e \in worker'[w].reset
                   PROVE  status'[e] = "PROCESSING" /\ elapsed'[e] /\ Unlocked(w, e)'
        BY DEF ResetsHeld
    <2>2. worker'[w] = worker[w] /\ At(w, "claiming")
        BY <2>1 DEF At
    <2>3. Unlocked(w, e)
        BY <2>1, <2>2 DEF HandsInv, ResetsHeld
    <2>4. Unlocked(w, e)'
        BY <2>3 DEF Unlocked, At
    <2> QED BY <2>1, <2>2, <2>4
<1>2. ASSUME NEW w \in Workers, worker'[w] = worker[w] PROVE InHand(w)'
    <2>1. /\ worker[w].at \in {"sending", "confirming", "rejecting"} => worker[w].email \in Emails
          /\ At(w, "claiming") /\ worker[w].email # NoEmail => worker[w].email \in Emails
        BY Held
    <2>2. InHand(w)
        BY DEF HandsInv
    <2> QED BY <1>2, <2>1, <2>2 DEF InHand, At
<1> QED BY <1>1, <1>2 DEF HandsInv

LEMMA HandsStep ==
    ASSUME TypeOK, HandsInv, [Next]_vars
    PROVE  HandsInv'
<1>0. ASSUME NEW w \in Workers, NEW next, Go(w, next)
      PROVE  \A v \in Workers : worker'[v] = IF v = w THEN next ELSE worker[v]
    BY <1>0 DEF Go, TypeOK
<1>r. ASSUME NEW v \in Workers, At(v, "claiming"), NEW e \in worker[v].reset
      PROVE  e \in Emails /\ status[e] = "PROCESSING" /\ elapsed[e] /\ Unlocked(v, e)
    BY <1>r, Held DEF HandsInv, ResetsHeld
<1>1. ASSUME NEW f \in Emails, Enqueue(f) \/ Elapse(f) PROVE HandsInv'
    <2>1. worker' = worker /\ delivered' = delivered
        BY <1>1 DEF Enqueue, Elapse
    <2>2. \A e \in Emails : /\ status[e] # "ABSENT" => status'[e] = status[e]
                            /\ elapsed[e] => elapsed'[e]
        BY <1>1 DEF Enqueue, Elapse, TypeOK
    <2> QED BY <1>r, <2>1, <2>2, HandsKeep
<1>2. ASSUME NEW f \in Emails, Cascade(f) PROVE HandsInv'
    <2>1. /\ worker' = worker /\ delivered' = delivered /\ elapsed' = elapsed
          /\ \A w \in Workers : At(w, "claiming") => f \notin worker[w].reset
          /\ \A e \in Emails : status'[e] = IF e = f THEN "DELETED" ELSE status[e]
        BY <1>2 DEF Cascade, TypeOK
    <2>2. ASSUME NEW v \in Workers, At(v, "claiming"), NEW e \in worker[v].reset
          PROVE  status'[e] = "PROCESSING" /\ elapsed'[e]
        <3>1. e # f
            BY <2>1, <2>2
        <3> QED BY <1>r, <2>1, <2>2, <3>1
    <2> QED BY <2>1, <2>2, HandsKeep
<1>3. ASSUME NEW w \in Workers, Kick(w) \/ Drain(w) \/ Crash(w) PROVE HandsInv'
    <2>1. PICK next : Go(w, next) /\ next.at \in {"idle", "scheduled", "draining"}
        BY <1>3 DEF Kick, Drain, Crash, Rest
    <2>2. UNCHANGED <<status, elapsed, delivered>>
        BY <1>3 DEF Kick, Drain, Crash, rows
    <2>3. \A v \in Workers : worker'[v] = worker[v] \/ (worker'[v].at # "claiming" /\ InHand(v)')
        BY <1>0, <2>1 DEF InHand, At
    <2> QED BY <1>r, <2>2, <2>3, HandsKeep
<1>4. ASSUME NEW w \in Workers, ClaimFind(w) PROVE HandsInv'
    <2>1. PICK oldest \in Emails \cup {NoEmail}, next \in Worker :
              /\ next.email = oldest /\ next.at = "claiming" /\ next.reset = Stale /\ Go(w, next)
              /\ oldest # NoEmail => oldest \in Claimable
        BY <1>4, Found
    <2>2. UNCHANGED <<status, elapsed, delivered>> /\ \A e \in Stale : Unlocked(w, e)
        BY <1>4 DEF ClaimFind, rows
    <2>3. \A v \in Workers : worker'[v] = IF v = w THEN next ELSE worker[v]
        BY <1>0, <2>1
    <2>4. ResetsHeld'
        <3>1. SUFFICES ASSUME NEW v \in Workers, At(v, "claiming")', NEW e \in worker'[v].reset
                       PROVE  status'[e] = "PROCESSING" /\ elapsed'[e] /\ Unlocked(v, e)'
            BY DEF ResetsHeld
        <3>2. CASE v = w
            <4>1. e \in Stale
                BY <2>1, <2>3, <3>1, <3>2
            <4>2. Unlocked(w, e)'
                BY <2>2, <2>3, <4>1 DEF Unlocked, At
            <4> QED BY <2>2, <3>2, <4>1, <4>2 DEF Stale
        <3>3. CASE v # w
            <4>1. At(v, "claiming") /\ e \in worker[v].reset
                BY <2>3, <3>1, <3>3 DEF At
            <4>2. status[e] = "PROCESSING" /\ elapsed[e] /\ Unlocked(v, e)
                BY <1>r, <4>1
            <4>3. e \notin Stale
                BY <2>2, <3>3, <4>1 DEF Unlocked
            <4>4. Unlocked(v, e)'
                BY <2>1, <2>3, <4>2, <4>3 DEF Unlocked, At
            <4> QED BY <2>2, <4>2, <4>4
        <3> QED BY <3>2, <3>3
    <2>5. ASSUME NEW v \in Workers PROVE InHand(v)'
        <3>1. InHand(v)
            BY DEF HandsInv
        <3>2. oldest # NoEmail => status[oldest] # "ABSENT"
            BY <2>1 DEF Claimable, Stale
        <3> QED BY <2>1, <2>2, <2>3, <3>1, <3>2 DEF InHand, At
    <2> QED BY <2>4, <2>5 DEF HandsInv
<1>5. ASSUME NEW w \in Workers, ClaimCommit(w) PROVE HandsInv'
    <2> DEFINE r == worker[w]
    <2>1. /\ At(w, "claiming") /\ delivered' = delivered
          /\ r.email # NoEmail => Unlocked(w, r.email)
          /\ Go(w, IF Wins(r) THEN With("sending", r.email) ELSE Rest)
          /\ \A e \in Emails : status'[e] = IF Wins(r) /\ e = r.email THEN "PROCESSING"
                                             ELSE IF e \in r.reset THEN "FAILED" ELSE status[e]
        BY <1>5 DEF ClaimCommit
    <2>e. \A e \in Emails : elapsed'[e] = IF Wins(r) /\ e = r.email THEN FALSE
                                          ELSE e \in r.reset \/ elapsed[e]
        BY <1>5 DEF ClaimCommit
    <2>2. PICK next : next = IF Wins(r) THEN With("sending", r.email) ELSE Rest
        OBVIOUS
    <2>3. /\ Go(w, next) /\ next.at \in {"sending", "idle"}
          /\ next.at = "sending" => Wins(r) /\ next.email = r.email
        BY <2>1, <2>2 DEF With, Rest
    <2>4. \A v \in Workers : worker'[v] = IF v = w THEN next ELSE worker[v]
        BY <1>0, <2>3
    <2>5. Wins(r) => r.email # NoEmail /\ r.email \in Emails
        BY <2>1, Held DEF Wins
    <2>6. ASSUME NEW v \in Workers, At(v, "claiming"), worker'[v] = worker[v], NEW e \in worker[v].reset
          PROVE  status'[e] = "PROCESSING" /\ elapsed'[e]
        <3>1. v # w
            BY <2>3, <2>4, <2>6 DEF At
        <3>2. e \in Emails /\ status[e] = "PROCESSING" /\ elapsed[e] /\ Unlocked(v, e)
            BY <1>r, <2>6
        <3>3. e \notin r.reset
            BY <2>1, <3>1, <3>2 DEF Unlocked
        <3>4. r.email # NoEmail => e # r.email
            BY <2>1, <2>6, <3>1 DEF Unlocked
        <3>5. ~(Wins(r) /\ e = r.email)
            BY <2>5, <3>4
        <3> QED BY <2>1, <2>e, <3>2, <3>3, <3>5
    <2>7. \A e \in Emails : status[e] # "ABSENT" => status'[e] # "ABSENT"
        BY <2>1
    <2>8. InHand(w)'
        BY <2>1, <2>3, <2>4, <2>5 DEF InHand, At
    <2>9. \A v \in Workers : worker'[v] = worker[v] \/ (worker'[v].at # "claiming" /\ InHand(v)')
        BY <2>3, <2>4, <2>8
    <2> QED BY <2>1, <2>6, <2>7, <2>9, HandsKeep
<1>6. ASSUME NEW w \in Workers, SendOk(w) \/ SendError(w) \/ ConfirmError(w) PROVE HandsInv'
    <2>1. PICK next : /\ Go(w, next) /\ next.email = worker[w].email
                      /\ next.at \in {"confirming", "rejecting"}
                      /\ next.at = "confirming" => SendOk(w)
        BY <1>6 DEF SendOk, SendError, ConfirmError, With
    <2>2. worker[w].email \in Emails /\ status[worker[w].email] # "ABSENT"
        BY <1>6, Held DEF SendOk, SendError, ConfirmError, HandsInv, InHand, At
    <2>3. UNCHANGED <<status, elapsed>>
        BY <1>6 DEF SendOk, SendError, ConfirmError, rows
    <2>4. \A e \in Emails : delivered[e] > 0 => delivered'[e] > 0
        BY <1>6 DEF SendOk, SendError, ConfirmError, TypeOK
    <2>5. SendOk(w) => delivered'[worker[w].email] > 0
        BY <2>2 DEF SendOk, TypeOK
    <2>6. InHand(w)'
        BY <1>0, <2>1, <2>2, <2>3, <2>5 DEF InHand, At
    <2>7. \A v \in Workers : worker'[v] = worker[v] \/ (worker'[v].at # "claiming" /\ InHand(v)')
        BY <1>0, <2>1, <2>6
    <2> QED BY <1>r, <2>3, <2>4, <2>7, HandsKeep
<1>7. ASSUME NEW w \in Workers, Confirm(w) \/ Reject(w) PROVE HandsInv'
    <2> DEFINE f == worker[w].email
    <2>1. PICK result \in {"SENT", "FAILED"} : Record(w, result)
        BY <1>7 DEF Confirm, Reject
    <2>2. PICK next : Go(w, next) /\ next.at \in {"draining", "idle"}
        BY <2>1 DEF Record
    <2>3. f \in Emails /\ Unlocked(w, f) /\ delivered' = delivered /\ ~At(w, "claiming")
        BY <1>7, <2>1, Held DEF Confirm, Reject, Record, At
    <2>4. \A e \in Emails : e # f => status'[e] = status[e]
        BY <2>1, <2>3 DEF Record, TypeOK
    <2>5. status[f] # "ABSENT" => status'[f] # "ABSENT"
        BY <2>1, <2>3 DEF Record, TypeOK
    <2>6. \A e \in Emails : e # f /\ elapsed[e] => elapsed'[e]
        BY <2>1, <2>3 DEF Record, TypeOK
    <2>7. ASSUME NEW v \in Workers, At(v, "claiming"), NEW e \in worker[v].reset
          PROVE  status'[e] = "PROCESSING" /\ elapsed'[e]
        <3>1. v # w /\ e # f
            BY <2>3, <2>7 DEF Unlocked
        <3> QED BY <1>r, <2>4, <2>6, <2>7, <3>1
    <2>8. \A v \in Workers : worker'[v] = worker[v] \/ (worker'[v].at # "claiming" /\ InHand(v)')
        BY <1>0, <2>2 DEF InHand, At
    <2> QED BY <2>3, <2>4, <2>5, <2>7, <2>8, HandsKeep
<1>8. CASE UNCHANGED vars
    BY <1>8 DEF vars, rows, HandsInv, ResetsHeld, InHand, Unlocked, At
<1> QED BY <1>1, <1>2, <1>3, <1>4, <1>5, <1>6, <1>7, <1>8 DEF Next, Work

-----------------------------------------------------------------------------
(* Every reachable state *)

LEMMA InvStarts == Init => Inv
<1> SUFFICES ASSUME Init PROVE Inv
    OBVIOUS
<1>1. TypeOK
    BY BoundsAssumption, Places DEF Init, TypeOK, Rest
<1>2. ASSUME NEW e \in Emails, NEW place \in {"claiming", "sending"}
      PROVE  Cardinality(Holding(e, place)) = 0
    <2>1. Holding(e, place) = {}
        BY <1>2 DEF Init, Holding, At, Rest
    <2> QED BY <2>1, FS_EmptySet
<1>3. ASSUME NEW w \in Workers PROVE worker[w].at = "idle"
    BY DEF Init, Rest
<1>4. Cardinality(Workers) \in Nat
    BY WorkersAssumption, FS_CardinalityType
<1>5. AttemptsInv /\ OneDeliveryPerAttempt
    BY <1>2, <1>4, BoundsAssumption DEF Init, AttemptsInv, OneDeliveryPerAttempt
<1>6. HandsInv
    BY <1>3 DEF HandsInv, ResetsHeld, InHand, At
<1> QED BY <1>1, <1>5, <1>6 DEF Inv

LEMMA InvKept == Inv /\ [Next]_vars => Inv'
BY TypeStep, AttemptsStep, HandsStep DEF Inv

LEMMA InvHolds == Spec => []Inv
BY InvStarts, InvKept, PTL DEF Spec

\* Whatever the interleaving, the outbox and its processes have their types.
THEOREM TypeCorrect == Spec => []TypeOK
<1>1. Inv => TypeOK
    BY DEF Inv
<1> QED BY <1>1, InvHolds, PTL

\* However many processes drain the outbox and whenever they stop, an e-mail is claimed
\* MAX_ATTEMPTS times, and once more for each other process that had chosen it before.
THEOREM AttemptsLimited == Spec => []AttemptsBounded
<1>1. Inv => AttemptsBounded
    <2> SUFFICES ASSUME Inv, NEW e \in Emails
                 PROVE  attempts[e] <= MAX_ATTEMPTS + Cardinality(Workers) - 1
        BY DEF AttemptsBounded
    <2>1. Cardinality(Holding(e, "claiming")) \in Nat /\ Cardinality(Workers) \in Nat
        BY WorkersAssumption, FS_Subset, FS_CardinalityType DEF Holding
    <2>2. attempts[e] + Cardinality(Holding(e, "claiming")) <= MAX_ATTEMPTS + Cardinality(Workers) - 1
        BY DEF Inv, AttemptsInv
    <2>3. attempts[e] \in Nat /\ MAX_ATTEMPTS \in Nat
        BY BoundsAssumption DEF Inv, TypeOK
    <2> QED BY <2>1, <2>2, <2>3
<1> QED BY <1>1, InvHolds, PTL

\* The mail server gets an e-mail once per attempt at most, over stops and failed
\* confirmations.
THEOREM DeliveriesCounted == Spec => []OneDeliveryPerAttempt
<1>1. Inv => OneDeliveryPerAttempt
    BY DEF Inv
<1> QED BY <1>1, InvHolds, PTL

-----------------------------------------------------------------------------
(* What becomes of an e-mail in a step *)

\* No step sends an e-mail back: the statuses that follow each status.
LEMMA Moves ==
    ASSUME Inv, [Next]_vars, NEW e \in Emails
    PROVE  /\ status[e] = "SENT" => status'[e] \in {"SENT", "DELETED"}
           /\ status[e] # "SENT" /\ status'[e] = "SENT" => delivered[e] > 0
<1>0. TypeOK /\ HandsInv
    BY DEF Inv
<1>1. CASE \E f \in Emails : Enqueue(f) \/ Cascade(f) \/ Elapse(f)
    BY <1>0, <1>1 DEF Enqueue, Cascade, Elapse, TypeOK
<1>2. ASSUME NEW w \in Workers, ClaimCommit(w)
      PROVE  /\ status[e] = "SENT" => status'[e] \in {"SENT", "DELETED"}
             /\ status[e] # "SENT" /\ status'[e] = "SENT" => delivered[e] > 0
    <2> DEFINE r == worker[w]
    <2>1. /\ At(w, "claiming")
          /\ status'[e] = IF Wins(r) /\ e = r.email THEN "PROCESSING"
                          ELSE IF e \in r.reset THEN "FAILED" ELSE status[e]
        BY <1>2 DEF ClaimCommit
    <2>2. e \in r.reset => status[e] = "PROCESSING"
        BY <1>0, <2>1 DEF HandsInv, ResetsHeld
    <2>3. r.seen \in {"PENDING", "FAILED"}
        BY <1>0, <2>1, Held
    <2>4. Wins(r) /\ e = r.email => status[e] # "SENT"
        BY <2>2, <2>3 DEF Wins
    <2> QED BY <2>1, <2>2, <2>4
<1>3. ASSUME NEW w \in Workers, Confirm(w) \/ Reject(w)
      PROVE  /\ status[e] = "SENT" => status'[e] \in {"SENT", "DELETED"}
             /\ status[e] # "SENT" /\ status'[e] = "SENT" => delivered[e] > 0
    <2>1. PICK result \in {"SENT", "FAILED"} : Record(w, result) /\ (result = "SENT" => At(w, "confirming"))
        BY <1>3 DEF Confirm, Reject
    <2>2. At(w, "confirming") => delivered[worker[w].email] > 0
        BY <1>0 DEF HandsInv, InHand
    <2>3. status'[e] = status[e] \/ (e = worker[w].email /\ status[e] = "PROCESSING" /\ status'[e] = result)
        BY <1>0, <2>1 DEF Record, TypeOK
    <2> QED BY <2>1, <2>2, <2>3
<1>4. CASE status' = status
    BY <1>4
<1> QED BY <1>1, <1>2, <1>3, <1>4
        DEF Next, Work, Kick, Drain, ClaimFind, SendOk, SendError, ConfirmError, Crash, rows, vars

\* An e-mail recorded as sent was taken by the mail server and stays so until it is
\* deleted, although slow processes record their result on it too.
THEOREM SentStays == Spec => SentIsFinal
<1>1. Inv /\ [Next]_vars =>
          [\A e \in Emails :
              /\ status[e] = "SENT" => status'[e] \in {"SENT", "DELETED"}
              /\ status[e] # "SENT" /\ status'[e] = "SENT" => delivered[e] > 0]_vars
    BY Moves
<1> QED BY <1>1, InvHolds, PTL DEF Spec, SentIsFinal

-----------------------------------------------------------------------------
(* The outbox implements EmailDelivery *)

LEMMA PhaseNow ==
    ASSUME NEW e \in Emails
    PROVE  phaseOf[e] = IF status[e] = "ABSENT" THEN "absent"
                        ELSE IF status[e] = "SENT" THEN "sent"
                        ELSE IF status[e] = "DELETED" THEN "withdrawn"
                        ELSE IF Abandoned(e) THEN "abandoned" ELSE "queued"
<1>1. Abandoned(e) => status[e] = "FAILED"
    BY DEF Abandoned
<1> QED BY <1>1 DEF phaseOf

LEMMA PhaseThen ==
    ASSUME NEW e \in Emails
    PROVE  phaseOf'[e] = IF status'[e] = "ABSENT" THEN "absent"
                         ELSE IF status'[e] = "SENT" THEN "sent"
                         ELSE IF status'[e] = "DELETED" THEN "withdrawn"
                         ELSE IF Abandoned(e)' THEN "abandoned" ELSE "queued"
<1>1. Abandoned(e)' => status'[e] = "FAILED"
    BY DEF Abandoned
<1> QED BY <1>1 DEF phaseOf

\* phaseOf is a function, whatever its cases are.
LEMMA PhaseFunction ==
    /\ phaseOf = [e \in Emails |-> phaseOf[e]]
    /\ phaseOf' = [e \in Emails |-> phaseOf'[e]]
BY DEF phaseOf

\* A step that at most gives e-mails up.
LEMMA GivingUp ==
    ASSUME delivered' = delivered,
           \A e \in Emails : phaseOf'[e] = phaseOf[e] \/ (phaseOf[e] = "queued" /\ phaseOf'[e] = "abandoned")
    PROVE  Delivery!Next
<1> DEFINE S == {e \in Emails : phaseOf[e] = "queued" /\ phaseOf'[e] = "abandoned"}
<1>1. \A e \in Emails : phaseOf'[e] = IF e \in S THEN "abandoned" ELSE phaseOf[e]
    OBVIOUS
<1>2. phaseOf' = [e \in Emails |-> IF e \in S THEN "abandoned" ELSE phaseOf[e]]
    BY <1>1, PhaseFunction
<1>3. Delivery!GiveUpAll(S)
    BY <1>2 DEF Delivery!GiveUpAll
<1>4. S \in SUBSET Emails
    OBVIOUS
<1> QED BY <1>3, <1>4 DEF Delivery!Next

\* A step that takes one e-mail to another phase.
LEMMA OneMoves ==
    ASSUME NEW f \in Emails, delivered' = delivered,
           \A e \in Emails : e # f => phaseOf'[e] = phaseOf[e],
           \/ phaseOf[f] = "absent" /\ phaseOf'[f] = "queued"
           \/ phaseOf[f] = "queued" /\ phaseOf'[f] = "sent" /\ delivered[f] > 0
           \/ phaseOf[f] \in {"queued", "sent", "abandoned"} /\ phaseOf'[f] = "withdrawn"
    PROVE  Delivery!Next
<1>1. phaseOf' = [phaseOf EXCEPT ![f] = phaseOf'[f]]
    BY PhaseFunction
<1>2. \A from, to : phaseOf[f] = from /\ phaseOf'[f] = to => Delivery!Move(f, from, to)
    BY <1>1 DEF Delivery!Move
<1> QED BY <1>2 DEF Delivery!Next, Delivery!Accept, Delivery!Finish, Delivery!Withdraw

\* An e-mail stays abandoned, or not, when its row stays and no process takes or leaves it.
LEMMA AbandonedStays ==
    ASSUME NEW e \in Emails, status'[e] = status[e], attempts'[e] = attempts[e],
           \A w \in Workers : (At(w, "claiming") /\ worker[w].email = e)'
                               <=> At(w, "claiming") /\ worker[w].email = e
    PROVE  phaseOf'[e] = phaseOf[e]
<1>1. Abandoned(e)' <=> Abandoned(e)
    BY DEF Abandoned
<1> QED BY <1>1, PhaseNow, PhaseThen

LEMMA StartsAsDelivery == Init => Delivery!Init
<1> SUFFICES ASSUME Init PROVE Delivery!Init
    OBVIOUS
<1>1. \A e \in Emails : phaseOf[e] = "absent"
    BY PhaseNow DEF Init
<1>2. phaseOf = [e \in Emails |-> "absent"]
    BY <1>1, PhaseFunction
<1> QED BY <1>2 DEF Init, Delivery!Init

LEMMA StepsAsDelivery ==
    ASSUME Inv, [Next]_vars
    PROVE  [Delivery!Next]_(Delivery!vars)
<1>0. TypeOK /\ HandsInv
    BY DEF Inv
<1>i. ASSUME NEW w \in Workers, NEW next, Go(w, next)
      PROVE  \A v \in Workers : worker'[v] = IF v = w THEN next ELSE worker[v]
    BY <1>0, <1>i DEF Go, TypeOK
<1>1. ASSUME NEW f \in Emails, Enqueue(f) \/ Cascade(f) PROVE Delivery!Next
    <2>1. /\ worker' = worker /\ delivered' = delivered /\ attempts' = attempts
          /\ \A e \in Emails : e # f => status'[e] = status[e]
        BY <1>0, <1>1 DEF Enqueue, Cascade, TypeOK
    <2>2. \A e \in Emails : e # f => phaseOf'[e] = phaseOf[e]
        BY <2>1, AbandonedStays DEF At
    <2>3. Enqueue(f) => phaseOf[f] = "absent" /\ phaseOf'[f] = "queued"
        <3>1. Enqueue(f) => status[f] = "ABSENT" /\ status'[f] = "PENDING"
            BY <1>0 DEF Enqueue, TypeOK
        <3>2. Enqueue(f) => ~Abandoned(f)'
            BY <3>1 DEF Abandoned
        <3> QED BY <3>1, <3>2, PhaseNow, PhaseThen
    <2>4. Cascade(f) => phaseOf[f] \in {"queued", "sent", "abandoned"} /\ phaseOf'[f] = "withdrawn"
        <3>1. Cascade(f) => status[f] \in Statuses /\ status'[f] = "DELETED"
            BY <1>0 DEF Cascade, TypeOK
        <3> QED BY <3>1, PhaseNow, PhaseThen DEF Statuses
    <2> QED BY <1>1, <2>1, <2>2, <2>3, <2>4, OneMoves
<1>2. ASSUME NEW f \in Emails, Elapse(f) PROVE Delivery!Next
    <2>1. worker' = worker /\ delivered' = delivered /\ attempts' = attempts /\ status' = status
        BY <1>2 DEF Elapse
    <2> QED BY <2>1, AbandonedStays, GivingUp DEF At
<1>3. ASSUME NEW w \in Workers,
             Kick(w) \/ Drain(w) \/ SendError(w) \/ ConfirmError(w)
      PROVE  Delivery!Next
    <2>1. PICK next : Go(w, next) /\ next.at # "claiming" /\ ~At(w, "claiming")
        BY <1>3 DEF Kick, Drain, SendError, ConfirmError, With, At
    <2>2. delivered' = delivered /\ attempts' = attempts /\ status' = status
        BY <1>3 DEF Kick, Drain, SendError, ConfirmError, rows
    <2>3. ASSUME NEW e \in Emails PROVE phaseOf'[e] = phaseOf[e]
        <3>1. \A v \in Workers : (At(v, "claiming") /\ worker[v].email = e)'
                                  <=> At(v, "claiming") /\ worker[v].email = e
            BY <1>i, <2>1 DEF At
        <3> QED BY <2>2, <3>1, AbandonedStays
    <2> QED BY <2>2, <2>3, GivingUp
<1>4. ASSUME NEW w \in Workers, ClaimFind(w) PROVE Delivery!Next
    <2>1. PICK oldest \in Emails \cup {NoEmail}, next \in Worker :
              /\ next.email = oldest /\ next.at = "claiming" /\ Go(w, next)
              /\ oldest # NoEmail => oldest \in Claimable
        BY <1>0, <1>4, Found
    <2>2. delivered' = delivered /\ attempts' = attempts /\ status' = status /\ ~At(w, "claiming")
        BY <1>4 DEF ClaimFind, rows, At
    <2>3. ASSUME NEW e \in Emails PROVE phaseOf'[e] = phaseOf[e]
        <3>1. CASE e # oldest
            <4>1. \A v \in Workers : (At(v, "claiming") /\ worker[v].email = e)'
                                      <=> At(v, "claiming") /\ worker[v].email = e
                BY <1>i, <2>1, <2>2, <3>1 DEF At
            <4> QED BY <2>2, <4>1, AbandonedStays
        <3>2. CASE e = oldest
            <4>1. attempts[e] < MAX_ATTEMPTS /\ attempts[e] \in Nat /\ MAX_ATTEMPTS \in Nat
                BY <1>0, <2>1, <3>2, EmailsAreNumbers, BoundsAssumption DEF Claimable, TypeOK
            <4>2. ~Abandoned(e) /\ ~Abandoned(e)'
                BY <2>2, <4>1 DEF Abandoned
            <4> QED BY <2>2, <4>2, PhaseNow, PhaseThen
        <3> QED BY <3>1, <3>2
    <2> QED BY <2>2, <2>3, GivingUp
<1>5. ASSUME NEW w \in Workers, ClaimCommit(w) PROVE Delivery!Next
    <2> DEFINE r == worker[w]
    <2>1. /\ At(w, "claiming") /\ delivered' = delivered
          /\ \A e \in Emails : status'[e] = IF Wins(r) /\ e = r.email THEN "PROCESSING"
                                             ELSE IF e \in r.reset THEN "FAILED" ELSE status[e]
          /\ \A e \in Emails : ~(Wins(r) /\ e = r.email) => attempts'[e] = attempts[e]
        BY <1>5 DEF ClaimCommit
    <2>2. PICK next : Go(w, next) /\ next.at # "claiming"
        BY <1>5 DEF ClaimCommit, With, Rest
    <2>3. ASSUME NEW e \in Emails, Abandoned(e)
          PROVE  status'[e] = status[e] /\ attempts'[e] = attempts[e] /\ Abandoned(e)'
        <3>1. status[e] = "FAILED" /\ ~(At(w, "claiming") /\ r.email = e)
            BY <2>3 DEF Abandoned
        <3>2. e \notin r.reset
            BY <1>0, <2>1, <3>1 DEF HandsInv, ResetsHeld
        <3>3. status'[e] = status[e] /\ attempts'[e] = attempts[e]
            BY <2>1, <3>1, <3>2
        <3>4. \A v \in Workers : (At(v, "claiming") /\ worker[v].email = e)'
                                  => At(v, "claiming") /\ worker[v].email = e
            BY <1>i, <2>2 DEF At
        <3> QED BY <2>3, <3>3, <3>4 DEF Abandoned
    <2>4. ASSUME NEW e \in Emails, status'[e] # status[e]
          PROVE  /\ status[e] \in {"PENDING", "PROCESSING", "FAILED"}
                 /\ status'[e] \in {"PROCESSING", "FAILED"}
        <3>1. e \in r.reset => status[e] = "PROCESSING"
            BY <1>0, <2>1 DEF HandsInv, ResetsHeld
        <3>2. Wins(r) /\ e = r.email => status[e] \in {"PENDING", "PROCESSING", "FAILED"}
            <4>1. r.seen \in {"PENDING", "FAILED"}
                BY <1>0, <2>1, Held
            <4> QED BY <3>1, <4>1 DEF Wins
        <3> QED BY <2>1, <2>4, <3>1, <3>2
    <2>5. ASSUME NEW e \in Emails
          PROVE  phaseOf'[e] = phaseOf[e] \/ (phaseOf[e] = "queued" /\ phaseOf'[e] = "abandoned")
        <3>1. CASE Abandoned(e)
            BY <2>3, <3>1, PhaseNow, PhaseThen
        <3>2. CASE ~Abandoned(e) /\ status'[e] = status[e]
            BY <3>2, PhaseNow, PhaseThen
        <3>3. CASE ~Abandoned(e) /\ status'[e] # status[e]
            BY <2>4, <3>3, PhaseNow, PhaseThen
        <3> QED BY <3>1, <3>2, <3>3
    <2> QED BY <2>1, <2>5, GivingUp
<1>6. ASSUME NEW w \in Workers, Crash(w) PROVE Delivery!Next
    <2>1. delivered' = delivered /\ attempts' = attempts /\ status' = status
        BY <1>6 DEF Crash, rows
    <2>2. \A v \in Workers : At(v, "claiming")' => worker'[v] = worker[v]
        BY <1>6, <1>i DEF Crash, Rest, At
    <2>3. \A e \in Emails : Abandoned(e) => Abandoned(e)'
        BY <2>1, <2>2 DEF Abandoned, At
    <2>4. \A e \in Emails : phaseOf'[e] = phaseOf[e] \/ (phaseOf[e] = "queued" /\ phaseOf'[e] = "abandoned")
        BY <2>1, <2>3, PhaseNow, PhaseThen
    <2> QED BY <2>1, <2>4, GivingUp
<1>7. ASSUME NEW w \in Workers, SendOk(w) PROVE Delivery!Next
    <2> DEFINE f == worker[w].email
    <2>1. Go(w, With("confirming", f)) /\ At(w, "sending") /\ status' = status /\ attempts' = attempts
        BY <1>7 DEF SendOk, rows
    <2>2. f \in Emails /\ status[f] # "ABSENT"
        BY <1>0, <2>1, Held DEF HandsInv, InHand, At
    <2>3. ASSUME NEW e \in Emails PROVE phaseOf'[e] = phaseOf[e]
        <3>1. \A v \in Workers : (At(v, "claiming") /\ worker[v].email = e)'
                                  <=> At(v, "claiming") /\ worker[v].email = e
            BY <1>i, <2>1 DEF At, With
        <3> QED BY <2>1, <3>1, AbandonedStays
    <2>4. phaseOf' = phaseOf
        BY <2>3, PhaseFunction
    <2>5. phaseOf[f] # "absent"
        BY <2>2, PhaseNow
    <2>6. Delivery!Transmit(f)
        BY <1>7, <2>4, <2>5 DEF SendOk, Delivery!Transmit
    <2> QED BY <2>2, <2>6 DEF Delivery!Next
<1>8. ASSUME NEW w \in Workers, NEW result \in {"SENT", "FAILED"}, Record(w, result),
             ~At(w, "claiming"), result = "SENT" => At(w, "confirming")
      PROVE  Delivery!Next
    <2> DEFINE f == worker[w].email
    <2>1. attempts' = attempts /\ delivered' = delivered
        BY <1>8 DEF Record
    <2>2. PICK next : Go(w, next) /\ next.at # "claiming"
        BY <1>8 DEF Record
    <2>3. \A v \in Workers : (At(v, "claiming")' <=> At(v, "claiming"))
                              /\ (At(v, "claiming") => worker'[v] = worker[v])
        BY <1>i, <1>8, <2>2 DEF At
    <2>4. ASSUME NEW e \in Emails, status'[e] = status[e] PROVE phaseOf'[e] = phaseOf[e]
        <3>1. \A v \in Workers : (At(v, "claiming") /\ worker[v].email = e)'
                                  <=> At(v, "claiming") /\ worker[v].email = e
            BY <2>3 DEF At
        <3> QED BY <2>1, <2>4, <3>1, AbandonedStays
    <2>5. CASE status' = status
        BY <2>1, <2>4, <2>5, GivingUp
    <2>6. CASE status' # status
        <3>1. status[f] = "PROCESSING" /\ status' = [status EXCEPT ![f] = result]
            BY <1>8, <2>6 DEF Record
        <3>2. f \in Emails
            BY <1>0, <2>6, <3>1 DEF TypeOK
        <3>3. \A e \in Emails : e # f => status'[e] = status[e]
            BY <1>0, <3>1 DEF TypeOK
        <3>4. status'[f] = result
            BY <1>0, <3>1, <3>2 DEF TypeOK
        <3>5. phaseOf[f] = "queued"
            BY <3>1, <3>2, PhaseNow DEF Abandoned
        <3>6. CASE result = "SENT"
            <4>1. phaseOf'[f] = "sent"
                BY <3>2, <3>4, <3>6, PhaseThen
            <4>2. delivered[f] > 0
                BY <1>0, <1>8, <3>6 DEF HandsInv, InHand
            <4> QED BY <2>1, <2>4, <3>2, <3>3, <3>5, <4>1, <4>2, OneMoves
        <3>7. CASE result = "FAILED"
            <4>1. phaseOf'[f] \in {"queued", "abandoned"}
                BY <3>2, <3>4, <3>7, PhaseThen
            <4> QED BY <2>1, <2>4, <3>3, <3>5, <4>1, GivingUp
        <3> QED BY <3>6, <3>7
    <2> QED BY <2>5, <2>6
<1>9. ASSUME NEW w \in Workers, Confirm(w) \/ Reject(w) PROVE Delivery!Next
    BY <1>8, <1>9 DEF Confirm, Reject, At
<1>10. CASE UNCHANGED vars
    BY <1>10 DEF vars, rows, Delivery!vars, phaseOf, Abandoned, At
<1> QED BY <1>1, <1>2, <1>3, <1>4, <1>5, <1>6, <1>7, <1>9, <1>10 DEF Next, Work

\* Any number of processes, stopping at any moment, deliver each e-mail as one would: it
\* is queued until it is sent, given up or withdrawn, and no outcome is revised.
THEOREM Refines == Spec => ImplementsDelivery
<1>1. Inv /\ [Next]_vars => [Delivery!Next]_(Delivery!vars)
    BY StepsAsDelivery
<1> QED BY <1>1, StartsAsDelivery, InvHolds, PTL DEF Spec, ImplementsDelivery, Delivery!Spec

=============================================================================

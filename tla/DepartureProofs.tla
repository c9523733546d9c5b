--------------------------- MODULE DepartureProofs ---------------------------
(***************************************************************************)
(* The dates of a departure go with its status, for any number of          *)
(* overlapping requests, departures and vehicles; a closed departure stays *)
(* as it is when no two requests overlap in the way that breaks it.        *)
(***************************************************************************)
EXTENDS Departure, TLAPS

Inv == TypeOK /\ DatesInv

\* A request's kind tells its fields.
LEMMA RequestFields ==
    ASSUME NEW r \in Request
    PROVE  /\ r.step = "create" => r.vehicle \in Vehicles /\ r.provider \in Providers
           /\ r.step = "set" => /\ r.id \in Departures /\ r.to \in Statuses
                                /\ r.date \in {"none", "departed", "ready", "returned"}
           /\ r.step = "move" => r.id \in Departures /\ r.provider \in Providers
  BY DEF Request, Idle

LEMMA NewType ==
    ASSUME NEW v \in Vehicles, NEW p \in Providers
    PROVE  New(v, p) \in Departure
  BY DEF New, Departure, Statuses, Out

LEMMA InitInv == Init => Inv
  <1> SUFFICES ASSUME Init PROVE Inv
    OBVIOUS
  <1>1. PICK S \in SUBSET Departures : \E s \in Planning : \E of \in [S -> Vehicles] :
           \E p \in Providers :
              /\ \A d, e \in S : of[d] = of[e] => d = e
              /\ departures = [d \in S |-> [New(of[d], p) EXCEPT !.status = s, !.departed = FALSE]]
    BY Zenon DEF Init
  <1>2. PICK s \in Planning, of \in [S -> Vehicles], p \in Providers :
           departures = [d \in S |-> [New(of[d], p) EXCEPT !.status = s, !.departed = FALSE]]
    BY <1>1, Zenon
  <1>3. \A d \in S : /\ departures[d] \in Departure
                     /\ departures[d].status = s
    BY <1>2 DEF New, Departure, Statuses
  <1>4. s \notin Out \cup {"READY_FOR_PICKUP"} \cup Closed
    BY PlanningAssumption
  <1>5. /\ \A c \in Clients : request[c] = Idle
        /\ request \in [Clients -> Request]
    BY DEF Init, Request
  <1>6. TypeOK
    BY <1>2, <1>3, <1>5 DEF TypeOK
  <1>7. DatesKnown
    BY <1>2, <1>3, <1>4 DEF DatesKnown, Closed
  <1> QED
    BY <1>5, <1>6, <1>7 DEF Inv, DatesInv, SetsKnown, Does, Idle

\* A request that only reads keeps the invariant, if what it leaves to do is well founded.
LEMMA ReadInv ==
    ASSUME Inv, NEW c \in Clients, NEW next \in Request, Then(c, next), UNCHANGED departures,
           next.step = "set" =>
               /\ next.id \in DOMAIN departures
               /\ next.to \in Out \cup {"READY_FOR_PICKUP", "RETURNED"} =>
                      departures[next.id].departed \/ next.date = "departed"
               /\ next.to = "READY_FOR_PICKUP" => next.date = "ready"
               /\ next.to = "RETURNED" => next.date = "returned",
           next.step = "move" => next.id \in DOMAIN departures
    PROVE  Inv'
  <1>1. /\ request' \in [Clients -> Request]
        /\ request'[c] = next
        /\ \A b \in Clients : b # c => request'[b] = request[b]
    BY DEF Inv, TypeOK, Then
  <1>2. TypeOK'
    BY <1>1 DEF Inv, TypeOK
  <1>3. ASSUME NEW b \in Clients
        PROVE  /\ SetsKnown(b)'
               /\ (Does(b, "move") => request[b].id \in DOMAIN departures)'
    <2>1. CASE b = c
      BY <1>1, <2>1 DEF SetsKnown, Does
    <2>2. CASE b # c
      BY <1>1, <2>2 DEF SetsKnown, Does, Inv, DatesInv
    <2> QED
      BY <2>1, <2>2
  <1> QED
    BY <1>2, <1>3 DEF Inv, DatesInv, DatesKnown

\* A write that ends its request keeps the invariant, if no row is lost, no departure date
\* is erased, and the rows it writes are well dated.
LEMMA WriteInv ==
    ASSUME Inv, NEW c \in Clients, Then(c, Idle),
           DOMAIN departures \subseteq DOMAIN departures',
           DOMAIN departures' \subseteq Departures,
           departures' \in [DOMAIN departures' -> Departure],
           \A d \in DOMAIN departures : departures[d].departed => departures'[d].departed,
           DatesKnown'
    PROVE  Inv'
  <1>1. /\ request' \in [Clients -> Request]
        /\ request'[c] = Idle
        /\ \A b \in Clients : b # c => request'[b] = request[b]
    BY DEF Inv, TypeOK, Then, Request
  <1>2. TypeOK'
    BY <1>1 DEF TypeOK
  <1>3. ASSUME NEW b \in Clients
        PROVE  /\ SetsKnown(b)'
               /\ (Does(b, "move") => request[b].id \in DOMAIN departures)'
    <2>1. CASE b = c
      BY <1>1, <2>1 DEF SetsKnown, Does, Idle
    <2>2. CASE b # c
      BY <1>1, <2>2 DEF SetsKnown, Does, Inv, DatesInv
    <2> QED
      BY <2>1, <2>2
  <1> QED
    BY <1>2, <1>3 DEF Inv, DatesInv

LEMMA FailInv ==
    ASSUME Inv, NEW c \in Clients, Fail(c)
    PROVE  Inv'
  BY ReadInv DEF Fail, Idle, Request

LEMMA CreateInv ==
    ASSUME Inv, NEW c \in Clients, CreateCommit(c)
    PROVE  Inv'
  <1> DEFINE r == request[c]
  <1>1. r.vehicle \in Vehicles /\ r.provider \in Providers
    BY RequestFields DEF CreateCommit, Does, Inv, TypeOK
  <1>2. CASE UNCHANGED departures
    BY <1>2, FailInv DEF CreateCommit, Fail
  <1>3. CASE ~UNCHANGED departures
    <2>1. PICK d \in Departures \ DOMAIN departures :
             departures' = [e \in DOMAIN departures \cup {d} |->
                               IF e = d THEN New(r.vehicle, r.provider) ELSE departures[e]]
      BY <1>3 DEF CreateCommit
    <2>2. /\ DOMAIN departures' = DOMAIN departures \cup {d}
          /\ departures'[d] = New(r.vehicle, r.provider)
          /\ \A e \in DOMAIN departures : departures'[e] = departures[e]
      BY <2>1
    <2>3. /\ DOMAIN departures' \subseteq Departures
          /\ departures' \in [DOMAIN departures' -> Departure]
      BY <1>1, <2>1, <2>2, NewType DEF Inv, TypeOK
    <2>4. DatesKnown'
      BY <2>2 DEF DatesKnown, Inv, DatesInv, New, Out
    <2> QED
      BY <2>2, <2>3, <2>4, WriteInv DEF CreateCommit
  <1> QED
    BY <1>2, <1>3

LEMMA SetInv ==
    ASSUME Inv, NEW c \in Clients, SetWrite(c)
    PROVE  Inv'
  <1> DEFINE r == request[c]
             row == departures[r.id]
             new == [row EXCEPT !.status = r.to,
                                !.departed = @ \/ r.date = "departed",
                                !.ready = @ \/ r.date = "ready",
                                !.returned = @ \/ r.date = "returned"]
  <1>1. /\ r.id \in DOMAIN departures /\ r.to \in Statuses
        /\ r.to \in Out \cup {"READY_FOR_PICKUP", "RETURNED"} => row.departed \/ r.date = "departed"
        /\ r.to = "READY_FOR_PICKUP" => r.date = "ready"
        /\ r.to = "RETURNED" => r.date = "returned"
    BY RequestFields DEF SetWrite, Does, Inv, TypeOK, DatesInv, SetsKnown
  <1>2. CASE UNCHANGED departures
    BY <1>2, FailInv DEF SetWrite, Fail
  <1>3. CASE ~UNCHANGED departures
    <2>1. departures' = [departures EXCEPT ![r.id] = new]
      BY <1>3 DEF SetWrite
    <2>2. row \in Departure
      BY <1>1 DEF Inv, TypeOK
    <2>3. /\ new \in Departure
          /\ new.status = r.to
          /\ new.departed <=> row.departed \/ r.date = "departed"
          /\ new.ready <=> row.ready \/ r.date = "ready"
          /\ new.returned <=> row.returned \/ r.date = "returned"
      BY <1>1, <2>2 DEF Departure
    <2>4. /\ DOMAIN departures' = DOMAIN departures
          /\ departures'[r.id] = new
          /\ \A d \in DOMAIN departures : d # r.id => departures'[d] = departures[d]
          /\ departures' \in [DOMAIN departures' -> Departure]
      BY <1>1, <2>1, <2>3 DEF Inv, TypeOK
    <2>5. DatesKnown'
      <3> SUFFICES ASSUME NEW d \in DOMAIN departures
                   PROVE  /\ departures'[d].status \in Out \cup {"READY_FOR_PICKUP", "RETURNED"}
                                => departures'[d].departed
                          /\ departures'[d].status = "READY_FOR_PICKUP" => departures'[d].ready
                          /\ departures'[d].status = "RETURNED" => departures'[d].returned
        BY <2>4 DEF DatesKnown
      <3>1. CASE d = r.id
        BY <1>1, <2>3, <2>4, <3>1
      <3>2. CASE d # r.id
        BY <2>4, <3>2 DEF Inv, DatesInv, DatesKnown
      <3> QED
        BY <3>1, <3>2
    <2>6. \A d \in DOMAIN departures : departures[d].departed => departures'[d].departed
      BY <2>3, <2>4
    <2> QED
      BY <2>4, <2>5, <2>6, WriteInv DEF SetWrite, Inv, TypeOK
  <1> QED
    BY <1>2, <1>3

LEMMA MoveInv ==
    ASSUME Inv, NEW c \in Clients, MoveWrite(c)
    PROVE  Inv'
  <1> DEFINE r == request[c]
  <1>1. r.id \in DOMAIN departures /\ r.provider \in Providers
    BY RequestFields DEF MoveWrite, Does, Inv, TypeOK, DatesInv
  <1>2. departures[r.id] \in Departure
    BY <1>1 DEF Inv, TypeOK
  <1>3. /\ DOMAIN departures' = DOMAIN departures
        /\ departures'[r.id] = [departures[r.id] EXCEPT !.provider = r.provider]
        /\ \A d \in DOMAIN departures : d # r.id => departures'[d] = departures[d]
        /\ departures' \in [DOMAIN departures' -> Departure]
    BY <1>1, <1>2 DEF MoveWrite, Inv, TypeOK, Departure
  <1>4. \A d \in DOMAIN departures :
           /\ departures'[d].status = departures[d].status
           /\ departures'[d].departed = departures[d].departed
           /\ departures'[d].ready = departures[d].ready
           /\ departures'[d].returned = departures[d].returned
    BY <1>2, <1>3 DEF Departure
  <1>5. DatesKnown'
    BY <1>3, <1>4 DEF DatesKnown, Inv, DatesInv
  <1> QED
    BY <1>3, <1>4, <1>5, WriteInv DEF MoveWrite, Inv, TypeOK

LEMMA NextInv == Inv /\ [Next]_vars => Inv'
  <1> SUFFICES ASSUME Inv, [Next]_vars PROVE Inv'
    OBVIOUS
  <1>1. ASSUME NEW c \in Clients, CreateRead(c) PROVE Inv'
    <2>1. PICK v \in Vehicles, p \in Providers :
             Then(c, [step |-> "create", vehicle |-> v, provider |-> p])
      BY <1>1 DEF CreateRead
    <2> QED
      BY <1>1, <2>1, ReadInv DEF CreateRead, Request
  <1>2. ASSUME NEW c \in Clients, NEW d \in DOMAIN departures, NEW to \in Statuses,
               NEW date \in {"none", "departed", "ready", "returned"}, Set(c, d, to, date),
               to \in Out \cup {"READY_FOR_PICKUP", "RETURNED"} =>
                   departures[d].departed \/ date = "departed",
               to = "READY_FOR_PICKUP" => date = "ready",
               to = "RETURNED" => date = "returned"
        PROVE  Inv'
    <2> DEFINE next == [step |-> "set", id |-> d, to |-> to, date |-> date]
    <2>1. next \in Request
      BY DEF Request, Inv, TypeOK
    <2> QED
      BY <1>2, <2>1, ReadInv DEF Set
  <1>3. ASSUME NEW c \in Clients, ChangeRead(c) PROVE Inv'
    BY <1>2, <1>3 DEF ChangeRead
  <1>4. ASSUME NEW c \in Clients, DepartRead(c) PROVE Inv'
    BY <1>2, <1>4 DEF DepartRead, Statuses, Out
  <1>5. ASSUME NEW c \in Clients, ReadyRead(c) PROVE Inv'
    BY <1>2, <1>5 DEF ReadyRead, AtProvider, Statuses
  <1>6. ASSUME NEW c \in Clients, ReturnRead(c) PROVE Inv'
    BY <1>2, <1>6 DEF ReturnRead, AtProvider, Statuses, Closed
  <1>7. ASSUME NEW c \in Clients, MoveRead(c) PROVE Inv'
    <2>1. PICK d \in DOMAIN departures, p \in Providers :
             Then(c, [step |-> "move", id |-> d, provider |-> p])
      BY <1>7 DEF MoveRead
    <2>2. [step |-> "move", id |-> d, provider |-> p] \in Request
      BY DEF Request, Inv, TypeOK
    <2> QED
      BY <1>7, <2>1, <2>2, ReadInv DEF MoveRead
  <1>8. CASE UNCHANGED vars
    BY <1>8 DEF vars, Inv, TypeOK, DatesInv, DatesKnown, SetsKnown, Does
  <1> QED
    BY <1>1, <1>3, <1>4, <1>5, <1>6, <1>7, <1>8, CreateInv, SetInv, MoveInv, FailInv
       DEF Next, Handler, Crash

\* The dates of a departure go with its status: a vehicle that is out, ready or returned has
\* the dates that say so, whichever requests overlap.
THEOREM DatesAlwaysKnown == Spec => []DatesKnown
  <1>1. Inv => DatesKnown
    BY DEF Inv, DatesInv
  <1> QED
    BY <1>1, InitInv, NextInv, PTL DEF Spec

-----------------------------------------------------------------------------
(* Returned and cancelled departures, when no two requests close one at the same time *)

Pending(c) == Does(c, "set") \/ Does(c, "move")
SameRow(b, c) == b # c /\ Pending(b) /\ Pending(c) /\ request[b].id = request[c].id
Sets(c, status) == Does(c, "set") /\ request[c].to = status

\* The return of a departure overlaps no other change of it, except the same return.
ReturnsApart ==
    \A b, c \in Clients : SameRow(b, c) /\ Sets(b, "RETURNED") => Sets(c, "RETURNED")

\* The cancellation of a departure overlaps no change of its provider.
CancelsApart ==
    \A b, c \in Clients : SameRow(b, c) /\ Sets(b, "CANCELLED") => ~Does(c, "move")

\* A vehicle has its return date exactly when it is RETURNED, and only another return of
\* it is still pending then.
FinalInv ==
    /\ \A d \in DOMAIN departures : departures[d].returned <=> departures[d].status = "RETURNED"
    /\ \A c \in Clients : Does(c, "set") => (request[c].date = "returned" <=> Sets(c, "RETURNED"))
    /\ \A c \in Clients : Pending(c) /\ departures[request[c].id].status = "RETURNED"
                             => Sets(c, "RETURNED")

\* A departure that is about to be moved is open.
InPlaceInv ==
    \A c \in Clients : Does(c, "move") => departures[request[c].id].status \notin Closed

\* One step of ReturnedIsFinal, and of the first part of ClosedStaysInPlace.
FinalStep ==
    \A d \in DOMAIN departures : departures[d].status = "RETURNED" => departures'[d] = departures[d]
InPlaceStep ==
    \A d \in DOMAIN departures :
        departures[d].status \in Closed => departures'[d].provider = departures[d].provider

LEMMA NextRequest ==
    ASSUME Inv, NEW c \in Clients, NEW next, Then(c, next)
    PROVE  /\ request'[c] = next
           /\ \A b \in Clients : b # c => request'[b] = request[b]
  BY DEF Inv, TypeOK, Then

\* What a write of a status does to the rows.
LEMMA SetStep ==
    ASSUME Inv, NEW c \in Clients, SetWrite(c)
    PROVE  LET r == request[c] IN
           /\ Does(c, "set") /\ r.id \in DOMAIN departures
           /\ \/ departures' = departures
              \/ LET row == departures[r.id]  new == departures'[r.id] IN
                 /\ DOMAIN departures' = DOMAIN departures
                 /\ \A d \in DOMAIN departures : d # r.id => departures'[d] = departures[d]
                 /\ new.status = r.to /\ new.provider = row.provider
                 /\ new.returned <=> row.returned \/ r.date = "returned"
                 /\ r.date = "returned" /\ row.status = r.to /\ row.returned => new = row
  <1> DEFINE r == request[c]
             row == departures[r.id]
             new == [row EXCEPT !.status = r.to,
                                !.departed = @ \/ r.date = "departed",
                                !.ready = @ \/ r.date = "ready",
                                !.returned = @ \/ r.date = "returned"]
  <1>1. Does(c, "set") /\ r.id \in DOMAIN departures
    BY DEF SetWrite, Inv, DatesInv, SetsKnown
  <1>2. row \in Departure
    BY <1>1 DEF Inv, TypeOK
  <1>3. departures' = departures \/ departures' = [departures EXCEPT ![r.id] = new]
    BY DEF SetWrite
  <1>4. /\ new.status = r.to /\ new.provider = row.provider
        /\ new.returned <=> row.returned \/ r.date = "returned"
    BY <1>2 DEF Departure
  <1>5. r.date = "returned" /\ row.status = r.to /\ row.returned => new = row
    BY <1>2 DEF Departure
  <1> HIDE DEF new
  <1> QED
    BY <1>1, <1>3, <1>4, <1>5

LEMMA CreateStep ==
    ASSUME Inv, NEW c \in Clients, CreateCommit(c)
    PROVE  \/ departures' = departures
           \/ \E d \in Departures \ DOMAIN departures :
                 /\ DOMAIN departures' = DOMAIN departures \cup {d}
                 /\ departures'[d].status = "AT_PROVIDER" /\ ~departures'[d].returned
                 /\ \A e \in DOMAIN departures : departures'[e] = departures[e]
  <1> DEFINE r == request[c]
  <1> SUFFICES ASSUME departures' # departures
               PROVE  \E d \in Departures \ DOMAIN departures :
                         /\ DOMAIN departures' = DOMAIN departures \cup {d}
                         /\ departures'[d].status = "AT_PROVIDER" /\ ~departures'[d].returned
                         /\ \A e \in DOMAIN departures : departures'[e] = departures[e]
    OBVIOUS
  <1>1. PICK d \in Departures \ DOMAIN departures :
           departures' = [e \in DOMAIN departures \cup {d} |->
                             IF e = d THEN New(r.vehicle, r.provider) ELSE departures[e]]
    BY DEF CreateCommit
  <1>2. departures'[d] = New(r.vehicle, r.provider)
    BY <1>1
  <1> QED
    BY <1>1, <1>2 DEF New

LEMMA MoveStep ==
    ASSUME Inv, NEW c \in Clients, MoveWrite(c)
    PROVE  LET r == request[c] IN
           /\ Does(c, "move") /\ r.id \in DOMAIN departures
           /\ DOMAIN departures' = DOMAIN departures
           /\ \A d \in DOMAIN departures :
                 /\ d # r.id => departures'[d] = departures[d]
                 /\ departures'[d].status = departures[d].status
                 /\ departures'[d].returned = departures[d].returned
  <1> DEFINE r == request[c]
             p == request[c].provider
  <1>1. Does(c, "move") /\ r.id \in DOMAIN departures
    BY DEF MoveWrite, Inv, DatesInv
  <1>2. departures[r.id] \in Departure
    BY <1>1 DEF Inv, TypeOK
  <1>3. departures' = [departures EXCEPT ![r.id] = [departures[r.id] EXCEPT !.provider = p]]
    BY DEF MoveWrite
  <1> HIDE DEF p
  <1> QED
    BY <1>1, <1>2, <1>3 DEF Departure

\* Each read tests that the departure is not returned, and a move that it is open.
LEMMA ReadStep ==
    ASSUME Inv, NEW c \in Clients,
           \/ CreateRead(c) \/ ChangeRead(c) \/ DepartRead(c) \/ ReadyRead(c) \/ ReturnRead(c)
           \/ MoveRead(c)
    PROVE  /\ departures' = departures
           /\ Does(c, "set")' =>
                 /\ departures[request'[c].id].status # "RETURNED"
                 /\ request'[c].date = "returned" <=> request'[c].to = "RETURNED"
           /\ Does(c, "move")' => departures[request'[c].id].status \notin Closed
  <1>1. ASSUME NEW d, NEW to, NEW date, Set(c, d, to, date), departures[d].status # "RETURNED",
               date = "returned" <=> to = "RETURNED"
        PROVE  /\ request'[c].step = "set" /\ departures[request'[c].id].status # "RETURNED"
               /\ request'[c].date = "returned" <=> request'[c].to = "RETURNED"
    BY <1>1, NextRequest DEF Set
  <1>2. CASE CreateRead(c)
    <2>1. PICK v \in Vehicles, p \in Providers :
             Then(c, [step |-> "create", vehicle |-> v, provider |-> p])
      BY <1>2 DEF CreateRead
    <2> QED
      BY <1>2, <2>1, NextRequest DEF CreateRead, Does
  <1>3. CASE MoveRead(c)
    <2>1. PICK d \in DOMAIN departures, p \in Providers :
             /\ departures[d].status \notin Closed
             /\ Then(c, [step |-> "move", id |-> d, provider |-> p])
      BY <1>3 DEF MoveRead, Movable
    <2> QED
      BY <1>3, <2>1, NextRequest DEF MoveRead, Does
  <1>4. CASE ChangeRead(c) \/ DepartRead(c) \/ ReadyRead(c) \/ ReturnRead(c)
    <2>1. PICK d, to, date :
             /\ Set(c, d, to, date) /\ departures[d].status # "RETURNED"
             /\ date = "returned" <=> to = "RETURNED"
      BY <1>4 DEF ChangeRead, Changeable, DepartRead, ReadyRead, ReturnRead, AtProvider, Closed
    <2> QED
      BY <1>1, <2>1 DEF Does, Set
  <1> QED
    BY <1>2, <1>3, <1>4

\* Requests are what they were, but for one that is over.
LEMMA EndStep ==
    ASSUME Inv, NEW c \in Clients, Then(c, Idle)
    PROVE  /\ ~Pending(c)' /\ ~Does(c, "set")' /\ ~Does(c, "move")'
           /\ \A b \in Clients : b # c =>
                 /\ request'[b] = request[b] /\ Pending(b)' = Pending(b)
                 /\ Does(b, "set")' = Does(b, "set") /\ Does(b, "move")' = Does(b, "move")
                 /\ Sets(b, "RETURNED")' = Sets(b, "RETURNED")
  BY NextRequest DEF Idle, Pending, Does, Sets

LEMMA FinalRead ==
    ASSUME Inv, FinalInv, NEW c \in Clients,
           \/ CreateRead(c) \/ ChangeRead(c) \/ DepartRead(c) \/ ReadyRead(c) \/ ReturnRead(c)
           \/ MoveRead(c)
    PROVE  FinalInv' /\ FinalStep
  <1>1. PICK next : Then(c, next)
    BY DEF CreateRead, ChangeRead, DepartRead, ReadyRead, ReturnRead, MoveRead, Set
  <1>2. \A b \in Clients : b # c => request'[b] = request[b]
    BY <1>1, NextRequest
  <1>3. /\ departures' = departures
        /\ Does(c, "set")' =>
              /\ departures[request'[c].id].status # "RETURNED"
              /\ request'[c].date = "returned" <=> request'[c].to = "RETURNED"
        /\ Does(c, "move")' => departures[request'[c].id].status # "RETURNED"
    BY ReadStep DEF Closed
  <1>4. ASSUME NEW b \in Clients
        PROVE  /\ Does(b, "set")' => (request'[b].date = "returned" <=> Sets(b, "RETURNED")')
               /\ Pending(b)' /\ departures'[request'[b].id].status = "RETURNED"
                     => Sets(b, "RETURNED")'
    <2>1. CASE b = c
      BY <1>3, <2>1 DEF Sets, Pending, Does
    <2>2. CASE b # c
      BY <1>2, <1>3, <2>2 DEF FinalInv, Sets, Pending, Does
    <2> QED
      BY <2>1, <2>2
  <1> QED
    BY <1>3, <1>4 DEF FinalInv, FinalStep

\* A write of a status: if it is a return, every other request on the row is one too; if
\* the row is returned, so is the request that writes it.
LEMMA FinalSet ==
    ASSUME Inv, FinalInv, ReturnsApart, NEW c \in Clients, SetWrite(c)
    PROVE  FinalInv' /\ FinalStep
  <1> DEFINE r == request[c]
             row == departures[r.id]
             new == departures'[r.id]
  <1>1. /\ Does(c, "set") /\ r.id \in DOMAIN departures
        /\ \/ departures' = departures
           \/ /\ DOMAIN departures' = DOMAIN departures
              /\ \A d \in DOMAIN departures : d # r.id => departures'[d] = departures[d]
              /\ new.status = r.to
              /\ new.returned <=> row.returned \/ r.date = "returned"
              /\ r.date = "returned" /\ row.status = r.to /\ row.returned => new = row
    BY SetStep
  <1>2. /\ ~Pending(c)' /\ ~Does(c, "set")'
        /\ \A b \in Clients : b # c =>
              /\ request'[b] = request[b] /\ Pending(b)' = Pending(b)
              /\ Does(b, "set")' = Does(b, "set")
              /\ Sets(b, "RETURNED")' = Sets(b, "RETURNED")
    BY EndStep DEF SetWrite
  <1>3. /\ r.date = "returned" <=> r.to = "RETURNED"
        /\ row.returned <=> row.status = "RETURNED"
        /\ row.status = "RETURNED" => r.to = "RETURNED"
    BY <1>1 DEF FinalInv, Pending, Sets
  <1>4. FinalStep
    BY <1>1, <1>3 DEF FinalStep
  <1>5. \A d \in DOMAIN departures' : departures'[d].returned <=> departures'[d].status = "RETURNED"
    BY <1>1, <1>3 DEF FinalInv
  <1>6. ASSUME NEW b \in Clients, Does(b, "set")'
        PROVE  request'[b].date = "returned" <=> Sets(b, "RETURNED")'
    BY <1>2, <1>6 DEF FinalInv
  <1>7. ASSUME NEW b \in Clients, Pending(b)', departures'[request'[b].id].status = "RETURNED"
        PROVE  Sets(b, "RETURNED")'
    <2>1. b # c /\ Pending(b) /\ request'[b] = request[b]
      BY <1>2, <1>7
    <2>2. request[b].id \in DOMAIN departures
      BY <2>1 DEF Inv, DatesInv, SetsKnown, Pending
    <2>3. CASE departures[request[b].id].status = "RETURNED"
      BY <1>2, <2>1, <2>3 DEF FinalInv
    <2>4. CASE departures[request[b].id].status # "RETURNED"
      <3>1. request[b].id = r.id /\ r.to = "RETURNED"
        BY <1>1, <1>7, <2>1, <2>2, <2>4
      <3>2. SameRow(c, b) /\ Sets(c, "RETURNED")
        BY <1>1, <2>1, <3>1 DEF SameRow, Sets, Pending
      <3> QED
        BY <1>2, <2>1, <3>2 DEF ReturnsApart
    <2> QED
      BY <2>3, <2>4
  <1> QED
    BY <1>4, <1>5, <1>6, <1>7 DEF FinalInv

\* The other writes: a new departure is not returned, and a returned one is not moved.
LEMMA FinalOther ==
    ASSUME Inv, FinalInv, NEW c \in Clients, CreateCommit(c) \/ MoveWrite(c) \/ Fail(c)
    PROVE  FinalInv' /\ FinalStep
  <1>1. /\ ~Pending(c)' /\ ~Does(c, "set")'
        /\ \A b \in Clients : b # c =>
              /\ request'[b] = request[b] /\ Pending(b)' = Pending(b)
              /\ Does(b, "set")' = Does(b, "set")
              /\ Sets(b, "RETURNED")' = Sets(b, "RETURNED")
    BY EndStep DEF CreateCommit, MoveWrite, Fail
  <1>2. /\ DOMAIN departures \subseteq DOMAIN departures'
        /\ \A d \in DOMAIN departures : /\ departures'[d].status = departures[d].status
                                        /\ departures'[d].returned = departures[d].returned
        /\ \A d \in DOMAIN departures' \ DOMAIN departures :
              departures'[d].status # "RETURNED" /\ ~departures'[d].returned
    BY CreateStep, MoveStep DEF Fail
  <1>3. FinalStep
    <2>1. CASE CreateCommit(c) \/ Fail(c)
      BY <2>1, CreateStep DEF Fail, FinalStep
    <2>2. CASE MoveWrite(c)
      <3>1. departures[request[c].id].status # "RETURNED"
        BY <2>2, MoveStep DEF FinalInv, Pending, Sets, Does
      <3> QED
        BY <2>2, <3>1, MoveStep DEF FinalStep
    <2> QED
      BY <2>1, <2>2
  <1>4. \A d \in DOMAIN departures' : departures'[d].returned <=> departures'[d].status = "RETURNED"
    BY <1>2 DEF FinalInv
  <1>5. ASSUME NEW b \in Clients, Pending(b)', departures'[request'[b].id].status = "RETURNED"
        PROVE  Sets(b, "RETURNED")'
    <2>1. b # c /\ Pending(b) /\ request'[b] = request[b]
      BY <1>1, <1>5
    <2>2. request[b].id \in DOMAIN departures
      BY <2>1 DEF Inv, DatesInv, SetsKnown, Pending
    <2> QED
      BY <1>1, <1>2, <1>5, <2>1, <2>2 DEF FinalInv
  <1>6. ASSUME NEW b \in Clients, Does(b, "set")'
        PROVE  request'[b].date = "returned" <=> Sets(b, "RETURNED")'
    BY <1>1, <1>6 DEF FinalInv
  <1> QED
    BY <1>3, <1>4, <1>5, <1>6 DEF FinalInv

LEMMA FinalNext ==
    ASSUME Inv, FinalInv, ReturnsApart, [Next]_vars
    PROVE  FinalInv' /\ [FinalStep]_vars
  <1>1. CASE UNCHANGED vars
    BY <1>1 DEF vars, FinalInv, Pending, Sets, Does
  <1>2. ASSUME NEW c \in Clients, Handler(c) \/ Crash(c) PROVE FinalInv' /\ FinalStep
    BY <1>2, FinalRead, FinalSet, FinalOther DEF Handler, Crash
  <1> QED
    BY <1>1, <1>2 DEF Next

LEMMA FinalInit == Init => FinalInv
  <1> SUFFICES ASSUME Init PROVE FinalInv
    OBVIOUS
  <1>1. PICK S \in SUBSET Departures : \E s \in Planning : \E of \in [S -> Vehicles] :
           \E p \in Providers :
              /\ \A d, e \in S : of[d] = of[e] => d = e
              /\ departures = [d \in S |-> [New(of[d], p) EXCEPT !.status = s, !.departed = FALSE]]
    BY Zenon DEF Init
  <1>2. PICK s \in Planning, of \in [S -> Vehicles], p \in Providers :
           departures = [d \in S |-> [New(of[d], p) EXCEPT !.status = s, !.departed = FALSE]]
    BY <1>1, Zenon
  <1>3. \A d \in S : departures[d].status = s /\ ~departures[d].returned
    BY <1>2 DEF New
  <1>4. s # "RETURNED"
    BY PlanningAssumption DEF Closed
  <1>5. \A c \in Clients : request[c].step = "idle"
    BY DEF Init, Idle
  <1> QED
    BY <1>2, <1>3, <1>4, <1>5 DEF FinalInv, Pending, Does

\* A returned departure stays as it is, as long as its return overlapped no other change of
\* it than the same return.
THEOREM ReturnedStays == Spec /\ []ReturnsApart => ReturnedIsFinal
  <1>1. Inv /\ FinalInv /\ ReturnsApart /\ [Next]_vars => FinalInv' /\ [FinalStep]_vars
    BY FinalNext
  <1>2. Spec /\ []ReturnsApart => [][FinalStep]_vars
    BY <1>1, InitInv, NextInv, FinalInit, PTL DEF Spec
  <1>3. [FinalStep]_vars =>
           [\A d \in DOMAIN departures :
               departures[d].status = "RETURNED" => departures'[d] = departures[d]]_vars
    BY DEF FinalStep
  <1> QED
    BY <1>2, <1>3, PTL DEF ReturnedIsFinal

LEMMA InPlaceNext ==
    ASSUME Inv, InPlaceInv, ReturnsApart, CancelsApart, [Next]_vars
    PROVE  InPlaceInv' /\ [InPlaceStep]_vars
  <1>1. CASE UNCHANGED vars
    BY <1>1 DEF vars, InPlaceInv, Does
  <1>2. ASSUME NEW c \in Clients,
               \/ CreateRead(c) \/ ChangeRead(c) \/ DepartRead(c) \/ ReadyRead(c)
               \/ ReturnRead(c) \/ MoveRead(c)
        PROVE  InPlaceInv' /\ InPlaceStep
    <2>1. PICK next : Then(c, next)
      BY <1>2 DEF CreateRead, ChangeRead, DepartRead, ReadyRead, ReturnRead, MoveRead, Set
    <2>2. \A b \in Clients : b # c => request'[b] = request[b]
      BY <2>1, NextRequest
    <2>3. /\ departures' = departures
          /\ Does(c, "move")' => departures[request'[c].id].status \notin Closed
      BY <1>2, ReadStep
    <2> QED
      BY <2>2, <2>3 DEF InPlaceInv, InPlaceStep, Does
  <1>3. ASSUME NEW c \in Clients, CreateCommit(c) \/ MoveWrite(c) \/ Fail(c)
        PROVE  InPlaceInv' /\ InPlaceStep
    <2>1. /\ ~Does(c, "move")'
          /\ \A b \in Clients : b # c =>
                request'[b] = request[b] /\ Does(b, "move")' = Does(b, "move")
      BY <1>3, EndStep DEF CreateCommit, MoveWrite, Fail
    <2>2. \A d \in DOMAIN departures : departures'[d].status = departures[d].status
      BY <1>3, CreateStep, MoveStep DEF Fail
    <2>3. InPlaceInv'
      BY <2>1, <2>2 DEF InPlaceInv, Inv, DatesInv
    <2>4. InPlaceStep
      <3>1. CASE CreateCommit(c) \/ Fail(c)
        BY <3>1, CreateStep DEF Fail, InPlaceStep
      <3>2. CASE MoveWrite(c)
        BY <3>2, MoveStep DEF InPlaceInv, InPlaceStep
      <3> QED
        BY <1>3, <3>1, <3>2
    <2> QED
      BY <2>3, <2>4
  <1>4. ASSUME NEW c \in Clients, SetWrite(c)
        PROVE  InPlaceInv' /\ InPlaceStep
    <2> DEFINE r == request[c]
    <2>1. /\ Does(c, "set") /\ r.id \in DOMAIN departures
          /\ \/ departures' = departures
             \/ /\ DOMAIN departures' = DOMAIN departures
                /\ \A d \in DOMAIN departures : d # r.id => departures'[d] = departures[d]
                /\ departures'[r.id].status = r.to
                /\ departures'[r.id].provider = departures[r.id].provider
      BY <1>4, SetStep
    <2>2. /\ ~Does(c, "move")'
          /\ \A b \in Clients : b # c =>
                request'[b] = request[b] /\ Does(b, "move")' = Does(b, "move")
      BY <1>4, EndStep DEF SetWrite
    <2>3. ASSUME NEW b \in Clients, Does(b, "move")'
          PROVE  departures'[request'[b].id].status \notin Closed
      <3>1. b # c /\ Does(b, "move") /\ request'[b] = request[b]
        BY <2>2, <2>3
      <3>2. /\ request[b].id \in DOMAIN departures
            /\ departures[request[b].id].status \notin Closed
        BY <3>1 DEF Inv, DatesInv, InPlaceInv
      <3>3. request[b].id = r.id => r.to \notin Closed
        BY <2>1, <3>1 DEF ReturnsApart, CancelsApart, SameRow, Sets, Pending, Does, Closed
      <3> QED
        BY <2>1, <3>1, <3>2, <3>3
    <2>4. InPlaceStep
      BY <2>1 DEF InPlaceStep
    <2> QED
      BY <2>3, <2>4 DEF InPlaceInv
  <1> QED
    BY <1>1, <1>2, <1>3, <1>4 DEF Next, Handler, Crash

\* A closed departure keeps its provider, and has a return date exactly if the vehicle came
\* back, as long as its return overlapped no other change of it than the same return, and
\* its cancellation no change of its provider.
THEOREM ClosedKeepsPlace == Spec /\ [](ReturnsApart /\ CancelsApart) => ClosedStaysInPlace
  <1>1. Init => InPlaceInv
    <2> SUFFICES ASSUME Init PROVE InPlaceInv
      OBVIOUS
    <2>1. \A c \in Clients : request[c].step = "idle"
      BY DEF Init, Idle
    <2> QED
      BY <2>1 DEF InPlaceInv, Does
  <1>2. /\ Inv /\ FinalInv /\ ReturnsApart /\ [Next]_vars => FinalInv'
        /\ Inv /\ InPlaceInv /\ ReturnsApart /\ CancelsApart /\ [Next]_vars
              => InPlaceInv' /\ [InPlaceStep]_vars
    BY FinalNext, InPlaceNext
  <1>3. Spec /\ [](ReturnsApart /\ CancelsApart) => [][InPlaceStep]_vars /\ []FinalInv
    BY <1>1, <1>2, InitInv, NextInv, FinalInit, PTL DEF Spec
  <1>4. [InPlaceStep]_vars =>
           [\A d \in DOMAIN departures :
               departures[d].status \in Closed
                  => departures'[d].provider = departures[d].provider]_vars
    BY DEF InPlaceStep
  <1>5. FinalInv => \A d \in DOMAIN departures :
                       departures[d].returned <=> departures[d].status = "RETURNED"
    BY DEF FinalInv
  <1> QED
    BY <1>3, <1>4, <1>5, PTL DEF ClosedStaysInPlace

\* Requests that come one at a time keep both, for any departures, vehicles and providers,
\* wherever a request stops.
THEOREM OneAtATime ==
    ASSUME \A b, c \in Clients : b = c
    PROVE  Spec => ReturnedIsFinal /\ ClosedStaysInPlace
  <1>1. ReturnsApart /\ CancelsApart
    BY DEF ReturnsApart, CancelsApart, SameRow
  <1> QED
    BY <1>1, ReturnedStays, ClosedKeepsPlace, PTL

=============================================================================

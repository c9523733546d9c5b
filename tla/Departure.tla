------------------------------ MODULE Departure ------------------------------
(***************************************************************************)
(* Departures of vehicles to providers (departures.service.ts): a          *)
(* departure is open until it is RETURNED or CANCELLED, and a vehicle has  *)
(* one open departure at most.                                             *)
(*                                                                         *)
(* A handler reads the departure, tests it, and writes in a later          *)
(* transaction without looking again; requests interleave between the two. *)
(* changeStatus hands DEPARTED, AT_PROVIDER, READY_FOR_PICKUP and RETURNED *)
(* to depart, ready and returnVehicle, which read again: those calls are   *)
(* the calls of these handlers.  Agencies, comments, planned dates and the *)
(* history are left out; a rejected request changes nothing.               *)
(***************************************************************************)
CONSTANTS
    Clients,      \* the requests that may be in progress at one time
    Departures,   \* supply of departure ids
    Vehicles,     \* registrations
    Providers,    \* active providers of the agency
    Planning      \* the open statuses no rule names: PLANNED, TO_PREPARE, ...

Closed == {"RETURNED", "CANCELLED"}
Out == {"DEPARTED", "AT_PROVIDER"}
Statuses == Planning \cup Out \cup {"READY_FOR_PICKUP"} \cup Closed

ASSUME PlanningAssumption ==
    Planning # {} /\ Planning \cap (Out \cup {"READY_FOR_PICKUP"} \cup Closed) = {}

VARIABLES
    departures,   \* VehicleDeparture rows, by id
    request       \* what each request has still to do

vars == <<departures, request>>

\* departed, ready, returned: the dates departedAt, readyAt and returnedAt are set.
Departure == [vehicle : Vehicles, provider : Providers, status : Statuses,
              departed : BOOLEAN, ready : BOOLEAN, returned : BOOLEAN]

Idle == [step |-> "idle"]
Request ==
    {Idle}
    \cup [step : {"create"}, vehicle : Vehicles, provider : Providers]
    \cup [step : {"set"}, id : Departures, to : Statuses,
          date : {"none", "departed", "ready", "returned"}]
    \cup [step : {"move"}, id : Departures, provider : Providers]

TypeOK ==
    /\ DOMAIN departures \subseteq Departures
    /\ departures \in [DOMAIN departures -> Departure]
    /\ request \in [Clients -> Request]

-----------------------------------------------------------------------------

Does(c, step) == request[c].step = step
Then(c, next) == request' = [request EXCEPT ![c] = next]
Fail(c) == Then(c, Idle) /\ UNCHANGED departures

\* The open departures of a vehicle.
Active(rows, v) ==
    {d \in DOMAIN rows : rows[d].vehicle = v /\ rows[d].status \notin Closed}

\* The unique index VehicleDeparture_one_active_per_vehicle, checked at each write.
Indexed(rows) == \A v \in Vehicles : \A d, e \in Active(rows, v) : d = e

New(v, p) == [vehicle |-> v, provider |-> p, status |-> "AT_PROVIDER",
              departed |-> TRUE, ready |-> FALSE, returned |-> FALSE]

\* The first table defaulted to PLANNED: old rows may be planned and not gone yet.  The
\* later migrations change the default and leave these rows as they are.
Init ==
    /\ \E S \in SUBSET Departures : \E s \in Planning : \E of \in [S -> Vehicles] :
       \E p \in Providers :
          /\ \A d, e \in S : of[d] = of[e] => d = e
          /\ departures = [d \in S |-> [New(of[d], p) EXCEPT !.status = s, !.departed = FALSE]]
    /\ request = [c \in Clients |-> Idle]

(* create: the upsert of the vehicle locks its row until the transaction commits *)

CreateRead(c) ==
    /\ Does(c, "idle")
    /\ \E v \in Vehicles : \E p \in Providers :
          /\ Active(departures, v) = {}
          /\ \A b \in Clients : Does(b, "create") => request[b].vehicle # v
          /\ Then(c, [step |-> "create", vehicle |-> v, provider |-> p])
    /\ UNCHANGED departures

CreateCommit(c) ==
    LET r == request[c] IN
    /\ Does(c, "create")
    /\ \E d \in Departures \ DOMAIN departures :
          LET rows == [e \in DOMAIN departures \cup {d} |->
                          IF e = d THEN New(r.vehicle, r.provider) ELSE departures[e]]
          IN IF Indexed(rows) THEN departures' = rows ELSE UNCHANGED departures
    /\ Then(c, Idle)

(* changeStatus, depart, ready, returnVehicle, and setStatus which writes for them *)

Set(c, d, to, date) ==
    /\ Then(c, [step |-> "set", id |-> d, to |-> to, date |-> date])
    /\ UNCHANGED departures

\* Mutant: changeStatus does not ask whether the departure is over.
AnyChangeable(row) == TRUE

Changeable(row) == row.status # "RETURNED"

\* A status without a handler of its own; a cancelled departure may be opened again.
ChangeRead(c) ==
    /\ Does(c, "idle")
    /\ \E d \in DOMAIN departures : \E to \in Statuses \ {"READY_FOR_PICKUP", "RETURNED"} :
          /\ Changeable(departures[d])
          /\ to \in Out => departures[d].departed
          /\ Set(c, d, to, "none")

DepartRead(c) ==
    /\ Does(c, "idle")
    /\ \E d \in DOMAIN departures :
          /\ departures[d].status \notin Closed /\ ~departures[d].departed
          /\ Set(c, d, "AT_PROVIDER", "departed")

\* Mutant: ready and returnVehicle do not ask whether the vehicle has left.
OpenOnly(row) == row.status \notin Closed

AtProvider(row) == row.departed /\ row.status \notin Closed

ReadyRead(c) ==
    /\ Does(c, "idle")
    /\ \E d \in DOMAIN departures :
          AtProvider(departures[d]) /\ Set(c, d, "READY_FOR_PICKUP", "ready")

ReturnRead(c) ==
    /\ Does(c, "idle")
    /\ \E d \in DOMAIN departures :
          AtProvider(departures[d]) /\ Set(c, d, "RETURNED", "returned")

\* setStatus
SetWrite(c) ==
    LET r == request[c]
        row == departures[r.id]
        rows == [departures EXCEPT ![r.id] =
                    [row EXCEPT !.status = r.to,
                                !.departed = @ \/ r.date = "departed",
                                !.ready = @ \/ r.date = "ready",
                                !.returned = @ \/ r.date = "returned"]]
    IN /\ Does(c, "set")
       /\ departures' = IF Indexed(rows) THEN rows ELSE departures
       /\ Then(c, Idle)

(* changeProvider *)

\* Mutant: a cancelled departure may be moved.
MovableUnlessReturned(row) == row.status # "RETURNED"

Movable(row) == row.status \notin Closed

MoveRead(c) ==
    /\ Does(c, "idle")
    /\ \E d \in DOMAIN departures : \E p \in Providers :
          /\ Movable(departures[d]) /\ departures[d].provider # p
          /\ Then(c, [step |-> "move", id |-> d, provider |-> p])
    /\ UNCHANGED departures

MoveWrite(c) ==
    /\ Does(c, "move")
    /\ departures' = [departures EXCEPT ![request[c].id].provider = request[c].provider]
    /\ Then(c, Idle)

\* The process stops or the database fails: the transaction is rolled back.
Crash(c) == ~Does(c, "idle") /\ Fail(c)

-----------------------------------------------------------------------------

Handler(c) ==
    \/ CreateRead(c) \/ CreateCommit(c)
    \/ ChangeRead(c) \/ DepartRead(c) \/ ReadyRead(c) \/ ReturnRead(c) \/ SetWrite(c)
    \/ MoveRead(c) \/ MoveWrite(c)

Next == \E c \in Clients : Handler(c) \/ Crash(c)

Spec == Init /\ [][Next]_vars

-----------------------------------------------------------------------------
(* Properties of any number of interleaved requests *)

\* A vehicle that is out, ready or returned has left, at a date; ready and returned ones
\* have theirs.  The statuses are written on an older read, but no date is ever erased.
DatesKnown ==
    \A d \in DOMAIN departures :
        LET row == departures[d] IN
        /\ row.status \in Out \cup {"READY_FOR_PICKUP", "RETURNED"} => row.departed
        /\ row.status = "READY_FOR_PICKUP" => row.ready
        /\ row.status = "RETURNED" => row.returned

\* Why it holds (DepartureProofs): a request that will write a status has read, or will
\* write with it, the date that goes with the status.
SetsKnown(c) ==
    LET r == request[c]
        row == departures[r.id]
    IN Does(c, "set") =>
          /\ r.id \in DOMAIN departures
          /\ r.to \in Out \cup {"READY_FOR_PICKUP", "RETURNED"} => row.departed \/ r.date = "departed"
          /\ r.to = "READY_FOR_PICKUP" => r.date = "ready"
          /\ r.to = "RETURNED" => r.date = "returned"

DatesInv ==
    /\ DatesKnown
    /\ \A c \in Clients : SetsKnown(c)
    /\ \A c \in Clients : Does(c, "move") => request[c].id \in DOMAIN departures

-----------------------------------------------------------------------------
(* Properties of requests that do not overlap *)

\* "Ce dossier est deja cloture" (departures.service.ts:218): a returned vehicle is back for
\* good, through every route that writes a status (its departure is not reopened, cancelled
\* or sent to another provider).
ReturnedIsFinal ==
    [][\A d \in DOMAIN departures :
          departures[d].status = "RETURNED" => departures'[d] = departures[d]]_vars

\* "Un dossier cloture ne peut plus etre deplace" (departures.service.ts:239): a closed departure
\* keeps its provider, and has a return date exactly if the vehicle came back.
ClosedStaysInPlace ==
    /\ [][\A d \in DOMAIN departures :
             departures[d].status \in Closed => departures'[d].provider = departures[d].provider]_vars
    /\ [](\A d \in DOMAIN departures :
             departures[d].returned <=> departures[d].status = "RETURNED")

=============================================================================

--------------------------- MODULE CheckCreation ---------------------------
(***************************************************************************)
(* The creation of vehicle checks (VehicleChecksService.create): the lines *)
(* are decided by the repair rules, then a number is drawn and the dossier *)
(* inserted, again and again while the number is taken.  Creations         *)
(* overlap, dossiers are removed and administrators edit the rules         *)
(* meanwhile.  (RiskVehiclesService.create draws its numbers in the same   *)
(* loop.)                                                                  *)
(*                                                                         *)
(* The numbers are the sequences of one day: CHECK_NUMBER_CREATE_ATTEMPTS  *)
(* overlapping creations must fall on one.  The references (agency, model, *)
(* parts) are taken to exist.                                              *)
(***************************************************************************)
EXTENDS RepairRules, FiniteSetsExt

CONSTANTS
    Clients,         \* the creations that may be in progress at one time
    Plates,          \* plates, with their country
    ItemLists,       \* the lines that may be entered: their saving, by type and part
    CHECK_NUMBER_CREATE_ATTEMPTS,
    MaxCreations     \* bound on the creations

ASSUME CreationAssumption ==
    /\ \A items \in ItemLists : IsFiniteSet(DOMAIN items)
    /\ \A items \in ItemLists : DOMAIN items \subseteq Types \X Parts
    /\ \A items \in ItemLists : \A k \in DOMAIN items : items[k] \in Nat
    /\ CHECK_NUMBER_CREATE_ATTEMPTS \in Nat \ {0} /\ MaxCreations \in Nat

VARIABLES
    dossiers,    \* the vehicle checks of the day
    client,      \* what each creation has still to do
    since,       \* what happened since each creation began
    creations    \* creations so far

vars == <<rulesVars, dossiers, client, since, creations>>

Decisions == {"FORBIDDEN", "MANDATORY", "TO_CHECK", "WARNING", "ACCEPTED"}

\* The decision on each line.
Lines == UNION {[DOMAIN items -> Decisions] : items \in ItemLists}
Dossier == [number : Nat \ {0}, plate : Plates, lines : Lines]

Idle == [step |-> "idle"]
Attempt == 1..CHECK_NUMBER_CREATE_ATTEMPTS
Client ==
    {Idle}
    \cup [step : {"preview"}, plate : Plates, items : ItemLists]
    \cup [step : {"number"}, plate : Plates, items : ItemLists, lines : Lines, try : Attempt]
    \cup [step : {"insert"}, plate : Plates, items : ItemLists, lines : Lines, try : Attempt,
          number : Nat \ {0}]
    \cup [step : {"refused"}]

\* The numbers of the dossiers that were there when the creation began and have not been
\* removed (there), the rule tables from then to its decision (tables), how many dossiers
\* others have inserted since (rivals).
Since == [there : SUBSET Nat, tables : SUBSET Table, rivals : Nat]

TypeOK ==
    /\ RulesTypeOK
    /\ dossiers \subseteq Dossier
    /\ client \in [Clients -> Client]
    /\ since \in [Clients -> Since]
    /\ creations \in 0..MaxCreations

-----------------------------------------------------------------------------

Does(c, step) == client[c].step = step
Then(c, next) == client' = [client EXCEPT ![c] = next]

Numbers == {d.number : d \in dossiers}

Nothing == [there |-> {}, tables |-> {}, rivals |-> 0]

Init ==
    /\ RulesInit
    /\ dossiers = {}
    /\ client = [c \in Clients |-> Idle]
    /\ since = [c \in Clients |-> Nothing]
    /\ creations = 0

\* ensureNoDuplicateVehicleCheck finds no dossier of the plate.
Start(c) ==
    /\ Does(c, "idle") /\ creations < MaxCreations
    /\ \E plate \in Plates, items \in ItemLists :
          /\ \A d \in dossiers : d.plate # plate
          /\ Then(c, [step |-> "preview", plate |-> plate, items |-> items])
    /\ since' = [since EXCEPT ![c] = [there |-> Numbers, tables |-> {rules}, rivals |-> 0]]
    /\ creations' = creations + 1
    /\ UNCHANGED <<rulesVars, dossiers>>

\* Mutant: the rule of any part goes before the rule of the part.
DecideGeneric(k, saving, book, table) ==
    IF <<k[1], AnyPart>> \in DOMAIN book THEN Verdict(table[book[<<k[1], AnyPart>>]], saving)
    ELSE IF k \in DOMAIN book THEN Verdict(table[book[k]], saving)
    ELSE "ACCEPTED"

\* A line is decided by the rule of its part, or else the one of any part.
Decide(k, saving, book, table) ==
    IF k \in DOMAIN book THEN Verdict(table[book[k]], saving)
    ELSE IF <<k[1], AnyPart>> \in DOMAIN book THEN Verdict(table[book[<<k[1], AnyPart>>]], saving)
    ELSE "ACCEPTED"

\* preview reads the manufacturer with all his rules in one query.
Preview(c) ==
    LET r == client[c] IN
    /\ Does(c, "preview")
    /\ \E book \in Books(rules) :
          Then(c, [step |-> "number", plate |-> r.plate, items |-> r.items, try |-> 1,
                   lines |-> [k \in DOMAIN r.items |-> Decide(k, r.items[k], book, rules)]])
    /\ UNCHANGED <<rulesVars, dossiers, since, creations>>

\* Mutant: the dossiers are counted.
CountNumber == Cardinality(Numbers) + 1

\* generateCheckNumber: one more than the highest.
NextNumber == Max(Numbers \cup {0}) + 1

TakeNumber(c) ==
    LET r == client[c] IN
    /\ Does(c, "number")
    /\ Then(c, [step |-> "insert", plate |-> r.plate, items |-> r.items, lines |-> r.lines,
                try |-> r.try, number |-> NextNumber])
    /\ UNCHANGED <<rulesVars, dossiers, since, creations>>

\* Others see their rival's dossier.
Overtaken(c) ==
    [d \in Clients |-> IF d # c THEN [since[d] EXCEPT !.rivals = @ + 1] ELSE Nothing]

Insert(c) ==
    LET r == client[c] IN
    /\ Does(c, "insert")
    /\ r.number \notin Numbers /\ \A d \in dossiers : d.plate # r.plate
    /\ dossiers' = dossiers \cup {[number |-> r.number, plate |-> r.plate, lines |-> r.lines]}
    /\ since' = Overtaken(c)
    /\ Then(c, Idle)
    /\ UNCHANGED <<rulesVars, creations>>

\* Mutant: the same number is tried again.
SameNumber(c) ==
    LET r == client[c] IN
    /\ Does(c, "insert") /\ r.number \in Numbers
    /\ IF r.try < CHECK_NUMBER_CREATE_ATTEMPTS
       THEN Then(c, [r EXCEPT !.try = @ + 1]) ELSE Then(c, [step |-> "refused"])
    /\ UNCHANGED <<rulesVars, dossiers, since, creations>>

\* Mutant: the attempts are not counted.
RetryAlways(c) ==
    LET r == client[c] IN
    /\ Does(c, "insert") /\ r.number \in Numbers
    /\ Then(c, [step |-> "number", plate |-> r.plate, items |-> r.items, lines |-> r.lines,
                try |-> r.try + 1])
    /\ UNCHANGED <<rulesVars, dossiers, since, creations>>

\* The number is taken: another one is drawn, a bounded number of times.
Retry(c) ==
    LET r == client[c] IN
    /\ Does(c, "insert") /\ r.number \in Numbers
    /\ IF r.try < CHECK_NUMBER_CREATE_ATTEMPTS
       THEN Then(c, [step |-> "number", plate |-> r.plate, items |-> r.items,
                     lines |-> r.lines, try |-> r.try + 1])
       ELSE Then(c, [step |-> "refused"])
    /\ UNCHANGED <<rulesVars, dossiers, since, creations>>

\* The plate is taken: throwDuplicateVehicleCheckConflict.
Duplicate(c) ==
    /\ Does(c, "insert") /\ \E d \in dossiers : d.plate = client[c].plate
    /\ Then(c, Idle)
    /\ since' = [since EXCEPT ![c] = Nothing]
    /\ UNCHANGED <<rulesVars, dossiers, creations>>

\* The user is told that no number could be drawn.
Refuse(c) ==
    /\ Does(c, "refused")
    /\ Then(c, Idle)
    /\ since' = [since EXCEPT ![c] = Nothing]
    /\ UNCHANGED <<rulesVars, dossiers, creations>>

\* VehicleChecksService.remove: its number may be drawn again.
RemoveDossier ==
    /\ \E d \in dossiers :
          /\ dossiers' = dossiers \ {d}
          /\ since' = [c \in Clients |-> [since[c] EXCEPT !.there = @ \ {d.number}]]
    /\ UNCHANGED <<rulesVars, client, creations>>

\* An administrator's request on the rules, which the creations not yet decided will see.
EditRules ==
    /\ RulesNext
    /\ since' = [c \in Clients |->
                    IF Does(c, "preview") THEN [since[c] EXCEPT !.tables = @ \cup {rules'}]
                    ELSE since[c]]
    /\ UNCHANGED <<dossiers, client, creations>>

Next ==
    \/ \E c \in Clients :
          \/ Start(c) \/ Preview(c) \/ TakeNumber(c)
          \/ Insert(c) \/ Retry(c) \/ Duplicate(c) \/ Refuse(c)
    \/ RemoveDossier
    \/ EditRules

Spec == Init /\ [][Next]_vars

-----------------------------------------------------------------------------
(* Properties *)

Failures(c) ==
    CASE Does(c, "refused") -> CHECK_NUMBER_CREATE_ATTEMPTS
      [] client[c].step \in {"number", "insert"} -> client[c].try - 1
      [] OTHER -> 0

\* A creation fails to get a number only as often as others were created meanwhile: it
\* is refused when it lost CHECK_NUMBER_CREATE_ATTEMPTS races, never against the
\* dossiers that were there, whatever is removed.
OvertakenWhenRefused == \A c \in Clients : Failures(c) <= since[c].rivals

\* A new dossier is numbered after every dossier that was there when its creation began
\* and still is, although numbers are drawn without a lock and drawn again.
NumberedAfter ==
    [][\A d \in dossiers' \ dossiers : \E c \in Clients :
          /\ client[c] # Idle /\ client'[c] = Idle
          /\ \A e \in dossiers : e.number \in since[c].there => e.number < d.number]_vars

\* What the rules of a table say of a line: the rule of its part decides; a rule of any
\* part decides when there is none.
Says(table, k, decision, items) ==
    LET specific == {r \in Present(table) : table[r].type = k[1] /\ table[r].part = k[2]}
        generic  == {r \in Present(table) : table[r].type = k[1] /\ table[r].part = AnyPart}
        deciding == IF specific # {} THEN specific ELSE generic
    IN \/ deciding = {} /\ decision = "ACCEPTED"
       \/ \E r \in deciding : decision = Verdict(table[r], items[k])

\* All the lines of a new dossier are decided by the rules of one moment of its creation,
\* though rules are edited before, between and after its attempts.
LinesFollowRules ==
    [][\A d \in dossiers' \ dossiers : \E c \in Clients :
          /\ Does(c, "insert") /\ client'[c] = Idle
          /\ DOMAIN d.lines = DOMAIN client[c].items
          /\ \E table \in since[c].tables : \A k \in DOMAIN d.lines :
                Says(table, k, d.lines[k], client[c].items)]_vars

=============================================================================

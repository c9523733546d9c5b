---------------------------- MODULE VehicleCheck ----------------------------
(***************************************************************************)
(* One vehicle check (a "dossier"): its status, its repair lines and its   *)
(* public share, driven by concurrent HTTP requests.                       *)
(*                                                                         *)
(* A handler of vehicle-checks.service.ts or vehicle-check-items.service.ts*)
(* reads the dossier (findOne), validates what it read, and writes in a    *)
(* later database call.  Nothing is locked between the two and no version  *)
(* is compared, so each handler is split where it awaits: the action that  *)
(* reads leaves the rest of the handler in request[c], and later actions   *)
(* carry it out on whatever the database then holds.  A rejected request   *)
(* (a guard of the code is false) changes nothing and is not represented;  *)
(* a write that finds its row gone ends the request (Prisma's P2025).      *)
(*                                                                         *)
(* Dates are represented by whether they are set, amounts by the set of    *)
(* lines they add up.                                                      *)
(***************************************************************************)
EXTENDS Naturals, FiniteSets

CONSTANTS
    Clients,     \* the requests that may be in progress at one time
    ItemIds,     \* supply of line ids: bounds how often lines are rewritten
    NewLines,    \* contents of a submitted line: [forbidden, required]
    PartOrders   \* bodies of PATCH part-order: [required, status]

Statuses == {"DRAFT", "TO_ANALYZE", "SUMMARY_READY", "CLOSED_NO_DAMAGE", "COMPLETED"}
ExecutionModes == {"ON_SITE", "EXTERNAL_PROVIDER"}
PartOrderStatuses == {"NOT_REQUIRED", "TO_ORDER", "ORDERED"}
EventTypes == {"TAKEN_IN_CHARGE", "VEHICLE_RECOVERED"}

ASSUME ClientsAssumption == Clients # {}

\* A submitted line: the rules engine found it FORBIDDEN or not, and the form
\* asks for a part order or not.
ASSUME NewLinesAssumption == NewLines \subseteq [forbidden : BOOLEAN, required : BOOLEAN]

\* Both fields of UpdatePartOrderDto are optional.
ASSUME PartOrdersAssumption ==
    PartOrders \subseteq [required : {"TRUE", "FALSE", "ABSENT"},
                          status : PartOrderStatuses \cup {"ABSENT"}]

VARIABLES
    status,              \* VehicleCheck.status, or "REMOVED" once deleted
    fieldCompletedAt, summaryFinalizedAt, completedAt,    \* set or not
    totals,              \* the lines the stored totals add up
    items,               \* the lines, by id
    issued,              \* the line ids the database has given out
    share,               \* the VehicleCheckPublicShare row
    notices,             \* notification rows per recipient, by event type
    request              \* what each request has still to do

dates == <<fieldCompletedAt, summaryFinalizedAt, completedAt>>
dossier == <<status, dates, totals>>
lines == <<items, issued>>
vars == <<dossier, lines, share, notices, request>>

-----------------------------------------------------------------------------
(* Types *)

Item == [active : BOOLEAN,        \* operationalStatus = ACTIVE
         forbidden : BOOLEAN,     \* decisionStatus = FORBIDDEN
         selected : BOOLEAN,      \* selectedForSummary
         mode : ExecutionModes \cup {"NONE"},
         done : BOOLEAN,          \* executionCompletedAt is set
         required : BOOLEAN,      \* partOrderRequired
         part : PartOrderStatuses]

Share == [exists : BOOLEAN, enabled : BOOLEAN, taken : BOOLEAN, recovered : BOOLEAN]
NoShare == [exists |-> FALSE, enabled |-> FALSE, taken |-> FALSE, recovered |-> FALSE]

\* A request is what its handler has still to do, with what it keeps of its reads.
Idle == [step |-> "idle"]
Request ==
    {Idle}
    \cup [step : {"complete", "takeCharge", "markTaken", "settle", "settleWrite"}]
    \cup [step : {"finalize"}, mode : UNION {[S -> ExecutionModes] : S \in SUBSET ItemIds},
          done : SUBSET ItemIds, counted : SUBSET ItemIds, closes : BOOLEAN]
    \cup [step : {"update"}, draft : BOOLEAN]
    \cup [step : {"updateCommit"}, draft : BOOLEAN, seen : SUBSET ItemIds]
    \cup [step : {"findShare"}, mailing : BOOLEAN]
    \cup [step : {"writeShare"}, mailing : BOOLEAN, found : {"none", "disabled", "enabled"}]
    \cup [step : {"mail"}, taken : BOOLEAN]
    \cup [step : {"recover"}, mark : BOOLEAN, completes : BOOLEAN]
    \cup [step : {"notify", "notifyWrite"}, type : EventTypes]
    \cup [step : {"execute"}, id : ItemIds, completed : BOOLEAN]
    \cup [step : {"order"}, id : ItemIds, body : PartOrders]
    \cup [step : {"operate"}, id : ItemIds, active : BOOLEAN, counted : SUBSET ItemIds]

TypeOK ==
    /\ status \in Statuses \cup {"REMOVED"}
    /\ fieldCompletedAt \in BOOLEAN
    /\ summaryFinalizedAt \in BOOLEAN
    /\ completedAt \in BOOLEAN
    /\ totals \subseteq ItemIds
    /\ issued \subseteq ItemIds
    /\ DOMAIN items \subseteq issued
    /\ items \in [DOMAIN items -> Item]
    /\ share \in Share
    /\ notices \in [EventTypes -> Nat]
    /\ request \in [Clients -> Request]

-----------------------------------------------------------------------------
(* What the handlers compute from the lines they read *)

NewItem(line) ==
    [active |-> TRUE, forbidden |-> line.forbidden, selected |-> TRUE, mode |-> "NONE",
     done |-> FALSE, required |-> line.required,
     part |-> IF line.required THEN "TO_ORDER" ELSE "NOT_REQUIRED"]

\* The lines of the summary: active and selected.
Kept == {i \in DOMAIN items : items[i].active /\ items[i].selected}

PendingOnSite == {i \in Kept : items[i].mode = "ON_SITE" /\ ~items[i].done}
PendingParts  == {i \in Kept : items[i].required /\ items[i].part = "TO_ORDER"}
External      == {i \in Kept : items[i].mode = "EXTERNAL_PROVIDER"}

\* Mutant: the vehicle may still be at the provider.
AllDoneOnSite == PendingParts = {} /\ PendingOnSite = {}

\* What completeVehicleCheckWhenAllInterventionsAreDone waits for.
AllInterventionsDone ==
    /\ PendingParts = {}
    /\ PendingOnSite = {}
    /\ External # {} => share.recovered

Does(c, step) == request[c].step = step
Then(c, next) == request' = [request EXCEPT ![c] = next]

\* A transaction of updateOperationalStatus holds the row lock of its line until
\* it commits: whoever writes that line waits.
Unlocked(ids) == \A c \in Clients : Does(c, "operate") => request[c].id \notin ids

\* The request fails (row gone, unique constraint, rollback): nothing is written.
Fail(c) ==
    /\ Then(c, Idle)
    /\ UNCHANGED <<dossier, lines, share, notices>>

-----------------------------------------------------------------------------
(* create: a DRAFT with the lines of its form, all of them in the totals *)

Init ==
    /\ status = "DRAFT"
    /\ fieldCompletedAt = FALSE /\ summaryFinalizedAt = FALSE /\ completedAt = FALSE
    /\ issued \in SUBSET ItemIds
    /\ \E content \in [issued -> NewLines] : items = [i \in issued |-> NewItem(content[i])]
    /\ totals = issued
    /\ share = NoShare
    /\ notices = [t \in EventTypes |-> 0]
    /\ request = [c \in Clients |-> Idle]

(* complete: the field check is over *)

CompleteRead(c) ==
    /\ Does(c, "idle") /\ status = "DRAFT"
    /\ Then(c, [step |-> "complete"])
    /\ UNCHANGED <<dossier, lines, share, notices>>

CompleteWrite(c) ==
    /\ Does(c, "complete")
    /\ \/ status = "REMOVED" /\ Fail(c)
       \/ /\ status # "REMOVED"
          /\ status' = "TO_ANALYZE"
          /\ fieldCompletedAt' = TRUE
          /\ summaryFinalizedAt' = FALSE
          /\ completedAt' = FALSE
          /\ Then(c, Idle)
          /\ UNCHANGED <<totals, lines, share, notices>>

(* update with lines: delete every line, insert those of the form.  The DELETE *)
(* sees the lines committed when it starts, the new ones have fresh ids.       *)

UpdateRead(c) ==
    /\ Does(c, "idle") /\ status \notin {"COMPLETED", "REMOVED"}
    /\ Then(c, [step |-> "update", draft |-> status = "DRAFT"])
    /\ UNCHANGED <<dossier, lines, share, notices>>

UpdateDelete(c) ==
    /\ Does(c, "update")
    /\ Then(c, [step |-> "updateCommit", draft |-> request[c].draft, seen |-> DOMAIN items])
    /\ UNCHANGED <<dossier, lines, share, notices>>

UpdateInsert(c, new, content) ==
    LET kept == DOMAIN items \ request[c].seen IN
    /\ items' = [i \in kept \cup new |->
                    IF i \in new THEN NewItem(content[i]) ELSE items[i]]
    /\ issued' = issued \cup new
    /\ totals' = new

\* Mutant: the status that was read is written back.
RestoredStatus(draft) == IF draft THEN "DRAFT" ELSE "TO_ANALYZE"

UpdatedStatus(draft) == IF draft THEN status ELSE "TO_ANALYZE"

UpdateCommit(c) ==
    /\ Does(c, "updateCommit") /\ Unlocked(request[c].seen)
    /\ \/ status = "REMOVED" /\ Fail(c)
       \/ /\ status # "REMOVED"
          /\ \E new \in SUBSET (ItemIds \ issued) : \E content \in [new -> NewLines] :
                UpdateInsert(c, new, content)
          /\ status' = UpdatedStatus(request[c].draft)
          /\ summaryFinalizedAt' = (request[c].draft /\ summaryFinalizedAt)
          /\ Then(c, Idle)
          /\ UNCHANGED <<fieldCompletedAt, completedAt, share, notices>>

(* finalizeSummary: the manager keeps some lines and says where each is repaired *)

\* Mutant: the provider that holds the vehicle is forgotten.
ClosesWhenEmpty(counted) == counted = {}

ClosesWithoutDamage(counted) == counted = {} /\ ~share.taken

FinalizePlan(mode) ==
    LET counted == {i \in DOMAIN mode : items[i].active} IN
    [step |-> "finalize", mode |-> mode, counted |-> counted,
     done |-> {i \in DOMAIN mode : /\ mode[i] = "ON_SITE"
                                   /\ items[i].mode = "ON_SITE" /\ items[i].done},
     closes |-> ClosesWithoutDamage(counted)]

FinalizeRead(c) ==
    /\ Does(c, "idle") /\ status \in {"TO_ANALYZE", "SUMMARY_READY"}
    /\ \E kept \in SUBSET DOMAIN items : \E mode \in [kept -> ExecutionModes] :
          /\ \A i \in kept : ~(items[i].active /\ items[i].forbidden)
          /\ Then(c, FinalizePlan(mode))
    /\ UNCHANGED <<dossier, lines, share, notices>>

FinalizeItems(r) ==
    [i \in DOMAIN items |->
        [items[i] EXCEPT !.selected = i \in DOMAIN r.mode,
                         !.mode = IF i \in DOMAIN r.mode THEN r.mode[i] ELSE "NONE",
                         !.done = i \in r.done]]

\* Mutant: only a closing summary turns the link off.
ShareUnlessClosed(r) == [share EXCEPT !.enabled = @ /\ ~r.closes]

FinalizedShare(r) ==
    LET external == \E i \in r.counted : r.mode[i] = "EXTERNAL_PROVIDER" IN
    [share EXCEPT !.enabled = @ /\ ~r.closes /\ external]

FinalizeWrite(c) ==
    LET r == request[c] IN
    /\ Does(c, "finalize") /\ Unlocked(DOMAIN items)
    /\ \/ (status = "REMOVED" \/ ~(DOMAIN r.mode \subseteq DOMAIN items)) /\ Fail(c)
       \/ /\ status # "REMOVED" /\ DOMAIN r.mode \subseteq DOMAIN items
          /\ items' = FinalizeItems(r)
          /\ share' = FinalizedShare(r)
          /\ status' = IF r.closes THEN "CLOSED_NO_DAMAGE" ELSE "SUMMARY_READY"
          /\ completedAt' = r.closes
          /\ summaryFinalizedAt' = TRUE
          /\ totals' = r.counted
          /\ Then(c, Idle)
          /\ UNCHANGED <<fieldCompletedAt, issued, notices>>

(* createPublicShare, alone or on behalf of sendRepairRequestEmail *)

ShareRead(c, mailing) ==
    /\ Does(c, "idle") /\ status = "SUMMARY_READY" /\ External # {}
    /\ Then(c, [step |-> "findShare", mailing |-> mailing])
    /\ UNCHANGED <<dossier, lines, share, notices>>

ShareFind(c) ==
    /\ Does(c, "findShare")
    /\ Then(c, [step |-> "writeShare", mailing |-> request[c].mailing,
                found |-> IF ~share.exists THEN "none"
                          ELSE IF share.enabled THEN "enabled" ELSE "disabled"])
    /\ UNCHANGED <<dossier, lines, share, notices>>

\* A second INSERT breaks the unique vehicleCheckId; a share without its dossier is gone.
ShareWrite(c) ==
    LET r == request[c] IN
    /\ Does(c, "writeShare")
    /\ \/ /\ status = "REMOVED" \/ (r.found = "none" /\ share.exists)
          /\ Fail(c)
       \/ /\ status # "REMOVED" /\ (r.found = "none" => ~share.exists)
          /\ share' = IF r.found = "enabled" THEN share
                      ELSE [share EXCEPT !.exists = TRUE, !.enabled = TRUE]
          /\ Then(c, IF r.mailing THEN [step |-> "mail", taken |-> share.taken] ELSE Idle)
          /\ UNCHANGED <<dossier, lines, notices>>

\* The e-mail leaves; a share already taken in charge is left as it is.
SendMail(c) ==
    /\ Does(c, "mail")
    /\ Then(c, IF request[c].taken THEN Idle ELSE [step |-> "markTaken"])
    /\ UNCHANGED <<dossier, lines, share, notices>>

MarkTaken(c) ==
    /\ Does(c, "markTaken")
    /\ \/ ~share.exists /\ Fail(c)
       \/ /\ share.exists
          /\ share' = [share EXCEPT !.taken = TRUE]
          /\ Then(c, Idle)
          /\ UNCHANGED <<dossier, lines, notices>>

(* takeChargePublicShare: the provider confirms through the public link *)

TakeChargeRead(c) ==
    /\ Does(c, "idle") /\ status = "SUMMARY_READY"
    /\ share.enabled /\ ~share.taken
    /\ Then(c, [step |-> "takeCharge"])
    /\ UNCHANGED <<dossier, lines, share, notices>>

TakeChargeWrite(c) ==
    /\ Does(c, "takeCharge")
    /\ \/ ~share.exists /\ Fail(c)
       \/ /\ share.exists
          /\ share' = [share EXCEPT !.taken = TRUE]
          /\ Then(c, [step |-> "notify", type |-> "TAKEN_IN_CHARGE"])
          /\ UNCHANGED <<dossier, lines, notices>>

(* markVehicleRecovered *)

RecoverRead(c) ==
    /\ Does(c, "idle") /\ status \in {"SUMMARY_READY", "COMPLETED"}
    /\ share.exists /\ share.taken /\ External # {}
    /\ ~share.recovered => PendingParts = {}
    /\ Then(c, [step |-> "recover", mark |-> ~share.recovered,
                completes |-> status # "COMPLETED" /\ PendingOnSite = {}])
    /\ UNCHANGED <<dossier, lines, share, notices>>

\* Mutant: the updateMany does not ask that the vehicle is still to be recovered.
MarksAgain(r) == r.mark /\ share.exists

\* updateMany ... where vehicleRecoveredAt is null: only one request marks the vehicle.
Marks(r) == r.mark /\ share.exists /\ ~share.recovered

RecoverWrite(c) ==
    LET r == request[c]
        marks == Marks(r) IN
    /\ Does(c, "recover")
    /\ \/ status = "REMOVED" /\ Fail(c)
       \/ /\ status # "REMOVED"
          /\ share' = IF marks THEN [share EXCEPT !.taken = TRUE, !.recovered = TRUE] ELSE share
          /\ status' = IF r.completes THEN "COMPLETED" ELSE status
          /\ completedAt' = (completedAt \/ r.completes)
          /\ Then(c, IF marks THEN [step |-> "notify", type |-> "VEHICLE_RECOVERED"] ELSE Idle)
          /\ UNCHANGED <<fieldCompletedAt, summaryFinalizedAt, totals, lines, notices>>

(* notifyVehicleEvent: look for an earlier notification, then insert *)

NotifyRead(c) ==
    /\ Does(c, "notify")
    /\ Then(c, IF status = "REMOVED" \/ notices[request[c].type] > 0 THEN Idle
               ELSE [step |-> "notifyWrite", type |-> request[c].type])
    /\ UNCHANGED <<dossier, lines, share, notices>>

NotifyWrite(c) ==
    /\ Does(c, "notifyWrite")
    /\ \/ status = "REMOVED" /\ Fail(c)
       \/ /\ status # "REMOVED"
          /\ notices' = [notices EXCEPT ![request[c].type] = @ + 1]
          /\ Then(c, Idle)
          /\ UNCHANGED <<dossier, lines, share>>

(* updateExecutionStatus: an on-site repair is done, or is not after all *)

ExecuteRead(c) ==
    /\ Does(c, "idle") /\ status = "SUMMARY_READY"
    /\ \E i \in Kept : \E completed \in BOOLEAN :
          /\ items[i].mode = "ON_SITE"
          /\ Then(c, [step |-> "execute", id |-> i, completed |-> completed])
    /\ UNCHANGED <<dossier, lines, share, notices>>

ExecuteWrite(c) ==
    LET r == request[c] IN
    /\ Does(c, "execute") /\ Unlocked({r.id})
    /\ \/ r.id \notin DOMAIN items /\ Fail(c)
       \/ /\ r.id \in DOMAIN items
          /\ items' = [items EXCEPT ![r.id].done = r.completed]
          /\ Then(c, IF r.completed THEN [step |-> "settle"] ELSE Idle)
          /\ UNCHANGED <<dossier, issued, share, notices>>

(* updatePartOrder: absent fields are left as they are *)

OrderRead(c) ==
    /\ Does(c, "idle") /\ status \notin {"COMPLETED", "REMOVED"}
    /\ \E i \in DOMAIN items : \E body \in PartOrders :
          /\ items[i].active
          /\ Then(c, [step |-> "order", id |-> i, body |-> body])
    /\ UNCHANGED <<dossier, lines, share, notices>>

\* Mutant: an absent status is written too.
OrderedAsSent(item, body) ==
    [item EXCEPT !.required = body.required = "TRUE", !.part = body.status]

Ordered(item, body) ==
    [item EXCEPT !.required = IF body.required # "ABSENT" THEN body.required = "TRUE"
                              ELSE IF body.status # "ABSENT" THEN body.status # "NOT_REQUIRED"
                              ELSE @,
                 !.part = IF body.status # "ABSENT" THEN body.status ELSE @]

OrderWrite(c) ==
    LET r == request[c] IN
    /\ Does(c, "order") /\ Unlocked({r.id})
    /\ \/ r.id \notin DOMAIN items /\ Fail(c)
       \/ /\ r.id \in DOMAIN items
          /\ items' = [items EXCEPT ![r.id] = Ordered(@, r.body)]
          /\ Then(c, IF r.body.status = "ORDERED" THEN [step |-> "settle"] ELSE Idle)
          /\ UNCHANGED <<dossier, issued, share, notices>>

(* completeVehicleCheckWhenAllInterventionsAreDone: read, then write blindly *)

SettleRead(c) ==
    /\ Does(c, "settle")
    /\ Then(c, IF status = "SUMMARY_READY" /\ AllInterventionsDone
               THEN [step |-> "settleWrite"] ELSE Idle)
    /\ UNCHANGED <<dossier, lines, share, notices>>

SettleWrite(c) ==
    /\ Does(c, "settleWrite")
    /\ \/ status = "REMOVED" /\ Fail(c)
       \/ /\ status # "REMOVED"
          /\ status' = "COMPLETED"
          /\ completedAt' = TRUE
          /\ Then(c, Idle)
          /\ UNCHANGED <<fieldCompletedAt, summaryFinalizedAt, totals, lines, share, notices>>

(* updateOperationalStatus: a line is cancelled, found impossible or active again. *)
(* The transaction adds the totals up, then commits them with the line; the status *)
(* of the dossier is not looked at.                                                *)

\* Mutant: the totals are added up before the line is updated.
RecountBefore(i, active) == Kept

Recount(i, active) == (Kept \ {i}) \cup {j \in {i} : active /\ items[j].selected}

OperateRead(c) ==
    /\ Does(c, "idle")
    /\ \E i \in DOMAIN items : \E active \in BOOLEAN :
          /\ Unlocked({i})
          /\ Then(c, [step |-> "operate", id |-> i, active |-> active,
                      counted |-> Recount(i, active)])
    /\ UNCHANGED <<dossier, lines, share, notices>>

\* Mutant: a cancelled line keeps its work and its part.
OperatedOnly(item, active) == [item EXCEPT !.active = active]

Operated(item, active) ==
    IF active THEN [item EXCEPT !.active = TRUE]
    ELSE [item EXCEPT !.active = FALSE, !.done = FALSE,
                      !.required = FALSE, !.part = "NOT_REQUIRED"]

OperateCommit(c) ==
    LET r == request[c] IN
    /\ Does(c, "operate")
    /\ \/ r.id \notin DOMAIN items /\ Fail(c)
       \/ /\ r.id \in DOMAIN items
          /\ items' = [items EXCEPT ![r.id] = Operated(@, r.active)]
          /\ totals' = r.counted
          /\ Then(c, Idle)
          /\ UNCHANGED <<status, dates, issued, share, notices>>

(* remove: the lines, the share and the notifications go with the dossier *)

Remove ==
    /\ status # "REMOVED" /\ Unlocked(DOMAIN items)
    /\ status' = "REMOVED"
    /\ fieldCompletedAt' = FALSE /\ summaryFinalizedAt' = FALSE /\ completedAt' = FALSE
    /\ items' = [i \in {} |-> items[i]]
    /\ totals' = {}
    /\ share' = NoShare
    /\ notices' = [t \in EventTypes |-> 0]
    /\ UNCHANGED <<issued, request>>

\* The process stops, the connection or the mail server fails: what the request
\* has committed stays, the rest is never done.
Crash(c) == ~Does(c, "idle") /\ Fail(c)

-----------------------------------------------------------------------------

Handler(c) ==
    \/ CompleteRead(c) \/ CompleteWrite(c)
    \/ UpdateRead(c) \/ UpdateDelete(c) \/ UpdateCommit(c)
    \/ FinalizeRead(c) \/ FinalizeWrite(c)
    \/ ShareRead(c, TRUE) \/ ShareRead(c, FALSE) \/ ShareFind(c) \/ ShareWrite(c)
    \/ SendMail(c) \/ MarkTaken(c)
    \/ TakeChargeRead(c) \/ TakeChargeWrite(c)
    \/ RecoverRead(c) \/ RecoverWrite(c)
    \/ NotifyRead(c) \/ NotifyWrite(c)
    \/ ExecuteRead(c) \/ ExecuteWrite(c)
    \/ OrderRead(c) \/ OrderWrite(c)
    \/ SettleRead(c) \/ SettleWrite(c)
    \/ OperateRead(c) \/ OperateCommit(c)

Next == Remove \/ \E c \in Clients : Handler(c) \/ Crash(c)

Spec == Init /\ [][Next]_vars

-----------------------------------------------------------------------------
(* Properties of any number of interleaved requests *)

\* The dates of a dossier match its status, whatever the requests that overwrite
\* each other: the field check is dated exactly once the dossier has left DRAFT (no
\* stale edit brings it back), a ready summary is dated and open, a closed or
\* completed dossier has its completion date.  The stale writes of complete, update,
\* finalizeSummary, markVehicleRecovered and of the completion check all threaten it.
DatesMatchStatus ==
    /\ fieldCompletedAt <=> status \notin {"DRAFT", "REMOVED"}
    /\ status = "DRAFT" => ~summaryFinalizedAt /\ ~completedAt
    /\ status = "SUMMARY_READY" => summaryFinalizedAt /\ ~completedAt
    /\ status \in {"CLOSED_NO_DAMAGE", "COMPLETED"} => completedAt

\* A recovery is announced at most once, however many requests mark the vehicle at
\* the same time: the conditional updateMany of markVehicleRecovered lets one through.
\* (notifyVehicleEvent alone would not do: it reads before it inserts.)
Announces(c) ==
    (Does(c, "notify") \/ Does(c, "notifyWrite")) /\ request[c].type = "VEHICLE_RECOVERED"

OneRecoveryNotice ==
    /\ notices["VEHICLE_RECOVERED"] <= 1
    /\ notices["VEHICLE_RECOVERED"] = 1 => \A c \in Clients : ~Announces(c)

\* Why they hold (VehicleCheckProofs): a request that will write a status later than
\* DRAFT has seen the dossier leave DRAFT, which it never re-enters ...
WritesLateStatus(c) ==
    \/ Does(c, "finalize") \/ Does(c, "recover") \/ Does(c, "settleWrite")
    \/ (Does(c, "update") \/ Does(c, "updateCommit")) /\ ~request[c].draft

DatesInv ==
    /\ DatesMatchStatus
    /\ \A c \in Clients : WritesLateStatus(c) => status # "DRAFT"

\* ... and the request that announces the recovery is the one that marked it.
RecoveryInv ==
    /\ OneRecoveryNotice
    /\ notices["VEHICLE_RECOVERED"] = 1 => share.recovered
    /\ \A c \in Clients : Announces(c) => share.recovered \/ status = "REMOVED"
    /\ \A c, d \in Clients : Announces(c) /\ Announces(d) => c = d

-----------------------------------------------------------------------------
(* Properties of requests that do not overlap (one client), crashes included *)

\* The stored totals add up the active lines of the summary, after any sequence of
\* form edits, summaries and operational changes: update, finalizeSummary and
\* refreshVehicleCheckTotals each compute them their own way.
TotalsAgree == totals = Kept

\* A dossier closed without damage is of a vehicle in station, that no provider
\* holds: "Le vehicule reste en station et le dossier est termine"
\* (vehicle-check-summary-selection.tsx:514).
ClosedVehicleInStation ==
    status = "CLOSED_NO_DAMAGE" => (share.taken => share.recovered)

\* ... and no public link to it works any more: finalizeSummary decides on the share it
\* read and turns the link off.
ClosedDossierIsSettled ==
    ClosedVehicleInStation /\ (status = "CLOSED_NO_DAMAGE" => ~share.enabled)

\* A provider who can open the public link has a line that was assigned to it:
\* finalizeSummary turns the link off when it leaves none.
SharedLinkHasRepair ==
    share.enabled /\ status \in {"SUMMARY_READY", "COMPLETED"} =>
        \E i \in DOMAIN items : items[i].selected /\ items[i].mode = "EXTERNAL_PROVIDER"

\* Only a line that is active, selected and repaired on site is ever done, and
\* an inactive line waits for no part: re-finalizing, cancelling and reactivating a
\* line drop what no longer applies.
WorkBelongsToSummary ==
    \A i \in DOMAIN items :
        /\ items[i].done => i \in Kept /\ items[i].mode = "ON_SITE"
        /\ ~items[i].active => items[i].part = "NOT_REQUIRED"

\* A dossier becomes COMPLETED only with every on-site repair done and, if a provider
\* was involved, the vehicle recovered; and a vehicle is recovered with no part left to
\* order.  Two handlers complete a dossier, each with its own conditions.
CompletesOnlyWhenDone ==
    [][/\ status # "COMPLETED" /\ status' = "COMPLETED" =>
             PendingOnSite = {} /\ (External # {} => share'.recovered)
       /\ ~share.recovered /\ share'.recovered => PendingParts = {}]_vars

-----------------------------------------------------------------------------
(* What the repository says of a dossier and the code does not ensure *)

\* "Le dossier ne peut plus etre modifie" (vehicle-check-summary-selection.tsx:516),
\* "A completed vehicle check cannot be modified" (vehicle-checks.service.ts:1159):
\* the lines of a COMPLETED dossier do not change unless the dossier is deleted.
CompletedIsFrozen ==
    [][status = "COMPLETED" => items' = items \/ status' = "REMOVED"]_vars

=============================================================================

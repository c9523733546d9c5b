# TLA+ models of Avis / ReadyLine

The system manages damaged rental cars: a collaborator inspects a car (a *vehicle check*, or
dossier), a manager decides which repairs are made and where, a provider takes the car through a
public link and gives it back. A NestJS backend (`src/backend`, Prisma on PostgreSQL) serves a
Next.js dashboard (`src/dashboard`). All state is in the database; several requests, and several
backend processes, work on it at the same time.

Almost every handler has the same shape: read the record, test what was read, write in a *later*
database call, with neither a lock nor a version. The models are built around that gap.

## 1. Inventory

| component | state | operations | hard part | properties that make it correct |
|---|---|---|---|---|
| Vehicle check (`vehicle-checks.service.ts`) | status, three dates, totals; the public share | create, complete, update, finalizeSummary, createPublicShare, sendRepairRequestEmail, takeCharge, markVehicleRecovered, remove | every handler writes a status decided on an older read | dates match status; one recovery notice; a closed dossier is settled; a shared link has a repair |
| Items (`vehicle-check-items.service.ts`) | lines: active, selected, mode, done, part order | updateExecutionStatus, updatePartOrder, updateOperationalStatus, the completion check | three ways to compute the totals, two ways to complete a dossier | totals agree with the lines; work belongs to the summary; completes only when done |
| Event notifications (`notifications.service.ts`) | notification rows | notifyVehicleEvent, list, mark read | looks for an earlier row, then inserts | no event announced twice |
| E-mail outbox (`notification-email-worker.service.ts`) | `NotificationEmail` rows; scheduled/draining flags of a process | kick, drain, claimNext, deliver | several workers, crashes, stale rows, late answers | bounded attempts, one delivery per attempt, SENT is final, every e-mail settles |
| Risk dossiers (`risk-vehicles.service.ts`) | status, history, photos, gallery, images at Cloudinary | create, addPhoto, removePhoto, submit, startCommercial, gallery edits, close, messages, assignments | two stores with no common transaction; gallery edits race the closure | life cycle followed; closes on a complete gallery; photos have their image |
| Departures, providers (`departures.service.ts`) | status, dates, provider, history | create, changeStatus, changeProvider, depart, ready, return | blind status writes; a partial unique index on active departures | a returned departure stays returned |
| Conversations (`vehicle-check-conversations.service.ts`) | conversation, participants, decision shares, messages | create, createMessage, updateParticipants, updateStatus, sendDecisionRequestEmail | participants written in several statements, shares in others | only the collaborator's active managers decide or have a link; who decides has a link; dates tell the status |
| Users (`users.service.ts`) | users, manager assignments | create, update, remove | validation before the transaction; access given and taken back in other tables | a manager unassigned, demoted or deactivated keeps no access |
| Access codes (`public-access-code.service.ts`) | code, attempts, lock, sessions, e-mail window | verify, sendCode, getOrCreate | the lock is read with the share, the attempts counted later | a code is permanent and one manager's; e-mails are allowed a cooldown apart and counted; failed attempts lock |
| Authentication (`auth.service.ts`) | refresh token hash | login, refresh, logout | rotation reads, then writes | one valid refresh token |
| Repair rules and decision (`manufacturer-repair-rules.service.ts`, `repair-decision.service.ts`) | the rules of a manufacturer | create, update, remove, preview | looks for the key, then writes; a unique index that NULL escapes | the rule of a part goes before the general one, whatever is edited meanwhile |
| Creation of a check (`vehicle-checks.service.ts` create) | number, plate, lines | create, remove | a number drawn, then inserted; a bounded retry | numbers increase; refused only after real rivals; lines decided by the rules of one moment |
| Agencies, reference data, contacts, plates | single records | CRUD | - | - |
| GT Motive, mail transport, image store client, plate recognition | external | calls | external | - |
| Statistics, exports, salvage workbook, dashboard | none | read-only or presentation | - | - |

Interaction: items and checks share the dossier's rows; a check calls notifyVehicleEvent after
the vehicle is taken or recovered; conversations and Risk dossiers queue e-mails in the outbox
in their transactions and kick the worker; user updates revoke participants and decision shares
of conversations. `PROJECT.json` lists the hazards of this code, each at its line.

## 2. Modules

| module | models | checked by |
|---|---|---|
| `VehicleCheck` | one dossier: checks, items, public share, event notifications | `VehicleCheckSequential`, `VehicleCheckConcurrent`, `VehicleCheckCompleted`, `VehicleCheckClosed` |
| `MCVehicleCheck` | its instances for TLC | |
| `VehicleCheckProofs` | its theorems for any overlap of requests | tlapm |
| `VehicleCheckOverlapProofs` | its theorems that exclude certain overlaps; extends `VehicleCheckProofs` | tlapm |
| `RepairRules` | the repair rules of a manufacturer, and the decision they give | through `CheckCreation` |
| `CheckCreation`, `MCCheckCreation` | the creation of checks: decision, number, retry; composes `RepairRules` | `CheckCreation` |
| `CheckCreationProofs` | its theorems | tlapm |
| `Conversation`, `MCConversation` | a conversation, its decision links, the managers' accounts and assignments | `Conversation` |
| `ConversationProofs` | its theorems | tlapm |
| `AccessCode`, `MCAccessCode` | the personal codes of managers: creation, e-mails, attempts | `AccessCode` |
| `AccessCodeProofs` | its theorems | tlapm |
| `EmailDelivery` | what the outbox promises of an e-mail (abstract) | through `EmailWorker` |
| `EmailWorker` | the outbox and its workers | `EmailWorker` |
| `EmailWorkerProofs` | its theorems, the refinement of `EmailDelivery` included | tlapm |
| `RiskVehicle`, `MCRiskVehicle` | one Risk dossier, its photos and their images | `RiskVehicle`, `RiskVehicleSubmitted` |
| `RiskVehicleProofs` | its theorems | tlapm |
| `Departure`, `MCDeparture` | the departures of vehicles to providers | `DepartureSequential`, `DepartureReturned` |
| `DepartureProofs` | its theorems | tlapm |

### VehicleCheck

`request[c]` is what the handler running for client `c` has still to do, with the results of its
reads. A handler `h` is split into `hRead` (findOne and the guards) and the actions of its later
database calls; between two of them anything may happen, and `Crash` may end it.

* A transaction is one action, at its commit, with two exceptions. The DELETE of `update` sees
  the lines present when it starts (`UpdateDelete`), its INSERTs come at the commit.
  `updateOperationalStatus` holds the row lock of its line from its UPDATE on
  (`OperateRead` to `OperateCommit`, `Unlocked`).
* Dates are "set or not", amounts the set of lines they add up (`totals`): two sums agree when
  they add up the same lines. The verdict of the rules engine on a line is an input (`NewLines`).
* `create` is the initial state. A rejected request changes nothing and is not represented; a
  write whose row is gone, or which breaks a unique key, is `Fail`.
* The first read of `sendRepairRequestEmail` is merged with that of the `createPublicShare` it
  calls; its own contacts and texts are left out.
* Left out: users and their rights, photos, prices. The numbering of checks is in
  `CheckCreation`, the decision shares are in `Conversation`.

### RepairRules and CheckCreation

`RepairRules` is the table of rules of one manufacturer and the requests that edit it. Creating
and updating a rule look for another rule of the same key and write later; the unique index
covers the rules of a part only, as PostgreSQL takes two NULLs for different, so an update with an
explicit null can leave two general rules of one type. `Books` are the maps `preview` can build
then: it keeps the last row of an unordered query. `Verdict` is the decision of one rule on a
line, the saving counted in units, the amount of the rule itself among them; comments, percentages, missing and recommended repairs and
the allowance are left out.

`CheckCreation` composes the rules with `create`: `Start` (no dossier of the plate), `Preview`
(one query of the rules, the decision of every line), `TakeNumber` (one more than the highest),
then `Insert`, `Retry` on a taken number (at most CHECK_NUMBER_CREATE_ATTEMPTS in all, then
`Refuse`) or `Duplicate` on a taken plate. `RemoveDossier` gives numbers back and `EditRules` is
any step of `RepairRules`. Numbers are the sequences of one day, which are those overlapping
creations draw from. `since` is no state of the code: it records, for the properties, what
happened since a creation began.

### Conversation

`request[c]` has the kind of the request, its step, and the rows its open transaction has
written (`roles`, `shares`): they are seen by no one, and locked, until `Commit`. Statements see
what is committed (READ COMMITTED). `create` inserts the conversation with its participants, then
each manager's share; `updateParticipants` disables shares, removes participants, then writes a share
and a participant for each chosen manager; `sendDecisionRequestEmail` writes the share on its own
(`AskShare`) and opens the conversation in a later transaction (`AskOpen`). `updateStatus` and a reply
(which makes its author take part) read, then write. `update` of a user is `WriteAccount` for a manager
and `WriteManagers` for the collaborator; both `Revoke` what the removed managers had.
`Overlapping` says which kinds of request may overlap in an instance. Left out: messages,
notifications, read marks, attachments.

### AccessCode

Transactions that begin with SELECT ... FOR UPDATE hold the manager's row (`lock`): `CodeLock` to
`CodeStore` makes a code, `ReserveLock` to `ReserveCommit` reserves an e-mail. `verify` has no
transaction: it reads the lock with the share (`VerifyRead`), compares, then increments the failed
attempts (`VerifyWrong`), and locks in a last statement (`VerifyLock`). `Crash` ends a request
anywhere. `now` is the clock; `reserved`, `mailed` and `lost` record the past for the
properties. An e-mail is reserved before it leaves, and a failure between the two loses it: the limits are on
reservations.
Left out: the share itself, the cookies and the sessions of a right code.

### EmailWorker and EmailDelivery

`worker[w]` is the place of process `w` in kick / drain / claimNext / deliver. `ClaimFind` is the
first part of claimNext's transaction (reset of the stale rows, choice of the oldest e-mail),
`ClaimCommit` the conditional update and the commit; in between, the reset rows are locked. Time
is abstract: `elapsed[e]` becomes true when the delay of the e-mail's status is over
(STALE_PROCESSING_MS, or the retry delay). The limit of e-mails per drain is a choice: a drain
may end after any e-mail. `Crash` is a restart of the process, and also an error of the database
outside the try block of deliver. The access code appended to a text is left out.

`EmailDelivery` is the promise: an e-mail is queued until it is sent or abandoned, it is recorded
as sent only after the mail server took it, no outcome is revised. `phaseOf` is the refinement
mapping. A FAILED e-mail out of attempts counts as abandoned only when no process has already
chosen it: one that has may still claim it.

### RiskVehicle

Requests as in VehicleCheck. `lock` is the request whose transaction holds the dossier's row
(lockCommercialVehicle); every update of that row waits for it (`RowFree`). `store` holds the
images of the external image store; each upload is a fresh image. A row keeps its identity when
its image is replaced (upsert): `row` is the first image, `asset` the present one. A request that
is cut short, by a crash or an error of either store, sets `interrupted`. The mileage comes with
the equipment in one request and is not kept apart. Gallery edits stay possible once the dossier
is closed, as the code intends. Left out: messages, assignments, edits of the vehicle's data.

### Departure

Many departures, `request[c]` as in VehicleCheck: `hRead` reads and tests a departure,
`SetWrite` (setStatus) or `MoveWrite` writes without looking again. changeStatus hands
DEPARTED, AT_PROVIDER, READY_FOR_PICKUP and RETURNED to depart, ready and returnVehicle, which
read the departure once more; as the first read changes nothing, such a call is a call of that
handler. `create` locks the vehicle's row until its commit, and the partial unique index on the
open departures of a vehicle (`Indexed`) is checked at each write. `Planning` holds the
open statuses no rule names. The first table defaulted to PLANNED, so `Init` may have old rows
that have not left: only those can `depart`. Left out: agencies, update of the descriptive
fields, comments, history, and whether a provider is active.

## 3. Runs

| run | question | instance | result |
|---|---|---|---|
| vehicle_check_sequential | do long sequences of legal calls keep lines, totals, share and status in agreement? | 1 request at a time, 3 line ids, crashes | about 4.3 million states, passes |
| vehicle_check_concurrent | what survives overlapping requests? | 2 requests, 1 line | about 270 thousand states, passes |
| vehicle_check_completed | is a completed dossier frozen? | 1 request, 1 line | violated |
| vehicle_check_closed | is a vehicle closed as "in station" there? | 2 requests, 1 line | violated |
| email_worker | safety, refinement and liveness of the outbox | 2 processes, 2 e-mails, 2 attempts, 1 crash | about 450 thousand states, passes |
| risk_vehicle | life cycle, closure, images | 2 requests, 3 treatment and 2 commercial images, 1 required photo, 1 damage, 1 required and 1 optional slot | about 1.5 million states, passes |
| risk_vehicle_submitted | does a submitted dossier have its photos? | as above, smaller | violated |
| departure_sequential | do statuses and dates agree, does a closed departure stay as it is? | 1 request, 3 departures, 2 vehicles, 2 providers | about 50 thousand states, passes |
| check_creation | do numbers, plates and decisions of new dossiers hold while creations overlap and rules change? | 2 creations at a time, 4 in all, 2 attempts, 3 plates, 2 rule ids, 2 edits | about 1.1 million states, passes |
| conversation | do decisions, links and assignments agree? | 3 requests, 2 managers | about 850 thousand states, passes |
| access_code | do codes, e-mails and attempts stay bounded under overlap and failure? | 2 requests at a time, 6 in all, 2 managers, 2 codes, clock to 5, 1 crash | about 5.6 million states, passes |
| departure_returned | does a returned departure stay returned? | 2 requests, 1 departure, 2 providers | violated |

Bounds. Line ids are never reused, so `ItemIds` bounds how often a dossier is rewritten: three
ids give a dossier of two lines and its replacement, or three lines, enough for a kept, a dropped and
a cancelled line together. Two requests show every overlap of two handlers; the theorems below hold for any
number. `NewLines` has a line that needs a part and one that is forbidden; a line with its part
ordered stands for an ordinary one. Two processes, two e-mails and one crash reach the stale
takeover, the late answer and the claim beyond MAX_ATTEMPTS. Two commercial images allow a
replacement, two overlapping additions, and a removal during the closure. Three departures of two vehicles give one
that is closed, one opened again and one created meanwhile. Four creations with two attempts let one
creation be overtaken twice and refused while a third begins and a dossier is removed; two rule ids and
two edits give a rule of a part beside the general one, and two general rules of one type. Three
requests on a conversation are two that rewrite the participants and one that joins or changes the status.
Six requests and a clock of five ticks give a lock that ends, two e-mail windows that are both full (e-mails at
0, 3, 4 and 5 with a window of 4: three in less than a window), a fifth e-mail if the limit were off by one, and an
interrupted attempt. Line ids, requests, managers, codes and images are interchangeable, hence the
symmetries; the run with liveness has none.

Deadlock is not checked where the system may stop: a removed dossier stays removed, a Risk
draft may have used every image of the instance, and the creations, the edits and the requests on access codes
are bounded.

Properties of `vehicle_check_sequential` are stated of requests that do not overlap. With two
requests each of them fails, as the code compares no versions (two cancellations, for instance, each
count the line of the other in the totals). Section 4 says which overlaps break which property; all the
other overlaps are proved harmless. Only `ClosedVehicleInStation`, a part of `ClosedDossierIsSettled`,
contradicts a text of the repository, and has a run of its own.

`conversation` lets `create`, `updateParticipants`, `updateStatus` and replies overlap, in any number;
the requests that change accounts, assignments or ask for a decision come alone. With the kinds
"managers" or "account" added to `Overlapping`, `AccessFollowsAssignment` fails (participants validated
before a removal are added after it), and with "ask", `DecisionMakersHaveLink` (its two writes are not one transaction).
These overlaps are reachable in the code and contradict no text of the repository; a link that is left
enabled does not open, as findShare looks at the assignment again.

What the violated runs show:

* `CompletedIsFrozen`: updateOperationalStatus never looks at the status of the dossier, so the
  lines of a COMPLETED one change, though update says "A completed vehicle check cannot be
  modified" and the dashboard "Le dossier ne peut plus être modifié".
* `ClosedVehicleInStation`: finalizeSummary decides on the share before its transaction; if the
  provider takes the vehicle in between, the dossier closes with "Le véhicule reste en station".
  `ClosedStaysSettled` (section 4) proves that only a summary that overlaps the steps giving a provider
  the link or the vehicle leads there.
* `SubmittedComplete`: removePhoto deletes its row after a call to the image store without
  looking at the status again; a Risk dossier submitted meanwhile lacks a required photo.
  `SubmittedStaysComplete` proves the property of submissions that overlap no edit of a photo.
* `ReturnedIsFinal`: setStatus writes a status decided earlier; a change that overlaps the return of
  the vehicle reopens the departure, which changeStatus refuses with "Ce dossier est déjà clôturé."
  It holds of requests that do not overlap (`departure_sequential`), and more generally of returns
  that overlap no other change of the same departure (`ReturnedStays`).

Fairness is assumed in `email_worker` only: weak fairness of the work of each process (a poll
timer kicks it every few seconds, sendMail has timeouts) and of the passing of time. No fairness
for queueing, deletion or crashes. A process that is idle is kicked again by its timer, so a lost
kick delays an e-mail and no more. Crashes are bounded, as no e-mail settles under endless ones.

Each property is also run against a mutant: a variant of one operator (commented "Mutant" in the
module) with a plausible mistake, under which the property must fail.

## 4. Theorems

`VehicleCheckProofs` proves, for every set of requests, lines and contents
(`NewLinesAssumption`, `PartOrdersAssumption`):

* `TypeCorrect`: `Spec => []TypeOK`, by one lemma for the actions that only read, one for those
  that write, one for `Remove`.
* `DatesAlwaysMatch`: `Spec => []DatesMatchStatus`. `DatesMatchStatus` is not inductive: a stale
  request could write a later status into a draft. `DatesInv` adds that a request that will write
  such a status has seen the dossier leave DRAFT, which nothing re-enters: `update` of a draft
  writes no status.
* `RecoveryAnnouncedOnce`: `Spec => []OneRecoveryNotice`. `RecoveryInv` adds that the request on
  its way to announce the recovery is the only one, and that the share is then marked: the
  conditional updateMany lets no second one through.

`VehicleCheckOverlapProofs` proves the other properties of a dossier. Each is broken by some
overlap, so each theorem has the form `Spec /\ []H => ...`, where `H` says of the steps that requests
are at, in every state, that certain pairs do not meet. Everything else may interleave, in any
number, and any request may stop anywhere.

| theorem | property | overlaps excluded by `H` | inductive invariant |
|---|---|---|---|
| `TotalsAlwaysAgree` | `TotalsAgree` | two commits of an edit of the form; an operational change with another or with a summary (`EditsApart`) | `TotalsInv`: the lines an edit has seen are all there are, and what a summary or an operational change has counted is what the lines will add up to |
| `WorkAlwaysBelongs` | `WorkBelongsToSummary` | an execution with a summary or an operational change; an operational change with a part order or a summary (`WorkApart`) | `WorkInv`: the line a request will write is still active, selected and on site as it was read |
| `ClosedStaysSettled` | `ClosedDossierIsSettled` | a summary with the creation of the link, its e-mail or the taking in charge (`ClosingApart`) | `ClosedInv`: a summary about to close has no provider, and once closed no request is on its way to one |
| `LinkAlwaysHasRepair` | `SharedLinkHasRepair` | a commit of the form with a completion; an edit of a draft with the end of the field check; a summary with the creation of the link (`LinkApart`) | `LinkInv`, with `DatesInv`: a request about to create the link or to complete the dossier has a line for the provider |
| `CompletedOnlyWhenDone` | `CompletesOnlyWhenDone` | a completion or a recovery with an execution, a summary or an operational change; a recovery with a part order or a commit of the form (`DoneApart`) | `DoneInv`: what a completion or a recovery has found is still so |

The hypotheses are as weak as this form allows: TLC, with two requests and two lines, finds each
property true under its `H`, and violated as soon as one of the kinds of overlap `H` names is let in.
They are conditions on the traffic, which the code does not enforce. Where the traffic of a dossier
is one request at a time they hold by themselves: `OneAtATime` concludes that such requests keep all five
properties, for any number of lines and any forms. That the sums over the lines need no induction
is due to `totals` being the set of lines added up.

`DepartureProofs` proves, for every set of requests, departures, vehicles, providers and planning
statuses (`PlanningAssumption`), `DatesAlwaysKnown`: `Spec => []DatesKnown`. A status is written on
an older read, so `DatesInv` adds `SetsKnown`: what a request will write goes with a date it has
read or writes itself, and no date is ever erased. Two more theorems exclude overlaps, as above:
`ReturnedStays` (`ReturnedIsFinal`, if the return of a departure meets no other pending change of it but
the same return: `ReturnsApart`; by `FinalInv`, that a vehicle has its return date exactly when it is RETURNED,
and only such a return is still pending then), and `ClosedKeepsPlace` (`ClosedStaysInPlace`, if moreover no
cancellation meets a change of provider: `CancelsApart`; by `InPlaceInv`, that what is about to be moved
is open). TLC violates them once a change of status or of provider may meet the return, or a change of
provider the cancellation. `OneAtATime` is their conclusion for requests that do not overlap.

`RiskVehicleProofs`, for every set of requests, slots and images:

* `TypeCorrect`, `LifeCycleOnce` and `ClosedComplete`, from `Inv`: a request is in a committing
  step exactly when it holds the row lock (`LockInv`), the history is a path of the life cycle and
  there is a conversation once the dossier left DRAFT (`HistoryInv`), and what `close` has checked
  stays true under the lock (`ClosingInv`).
* `ImagesKept` and `GalleryStaysTidy`, from `Imaging`: a fresh image a request brings is in the
  store and no one else has it (`ImagesInv`); what a request saw under the lock is still in the gallery
  (`KindsInv`, `GalleryInv`); a treatment photo a request has read keeps its row while it
  keeps its image and never turns up elsewhere (`SawInv`, `PhotosInv`).
* `SubmittedStaysComplete`: `Spec /\ []SubmissionApart => []SubmittedComplete`. The hypothesis keeps edits of
  treatment photos, additions as well as removals, away from a submission in progress; the code does not,
  and either kind is enough to violate the property. `SubmitInv` adds that what a submission has found is
  still so, and that no edit is left once the dossier is submitted.

`EmailWorkerProofs`, for any number of processes and e-mails: `TypeCorrect`; `AttemptsLimited`
(`AttemptsInv`: the attempts plus the processes about to claim stay below MAX_ATTEMPTS plus the number
of processes); `DeliveriesCounted`; `SentStays`; `Refines`: `Spec => ImplementsDelivery`. The refinement
needs `ResetsHeld`, that rows a claim has reset stay so under its locks, and `InHand`, that a
process which sends has claimed. Enqueue maps to Accept, Cascade to Withdraw, SendOk to Transmit, Confirm
to Finish or a stutter, and ClaimCommit, Reject and Crash to GiveUpAll or a stutter.

`AccessCodeProofs`, for any limits and any number of overlapping and interrupted requests:
`TypeCorrect`, `CodesPermanent`, `EmailsAlwaysSpaced`, `EmailsLimited` and `AttemptsLimited`. The
invariants: what a request read is still true while it holds the row; the columns tell the last e-mail and
the opening of the window, whose e-mails are those counted; the failed attempts beyond the limit are each
matched by a request about to lock, or lost.

`CheckCreationProofs`, for any rules, lines and number of attempts: `TypeCorrect`,
`RefusedOnlyByRivals` (each failed attempt had a rival that was inserted since the draw), `NumbersIncrease` (the number
a request has drawn is above all that were there when it began, removed ones aside) and `LinesDecided`
(the decision of a request was taken on one of the tables since it began).

`ConversationProofs`: `TypeCorrect`, `RequesterAlways` and `DatesAlwaysTell` for any overlap, from `ConvInv`;
`AccessAlwaysFollows` and `LinksForMakers` under the hypothesis `Apart`, that requests on accounts,
assignments and decision requests do not overlap others. `AccessInv` says that a transaction only writes
managers that are available, and that the link of a manager is written, and locked, before his place as
participant is.

Every invariant and action property of the passing runs is a theorem, most for any overlap, the others
under the hypotheses above, which the instances of the runs satisfy. Only `EveryEmailSettles` is
model-checked alone: it is liveness, and the prover does not handle fairness and ENABLED. So are the
violated runs, which are counterexamples. Induction over data and RECURSIVE operators are beyond the
prover too; the modules here have none.

## 5. Not modelled

* **Authentication.** A refresh reads the user's token hash, compares, then writes the next one: one
  column, and two overlapping refreshes end with the hash written last. Cookies and JWTs are libraries.
* **Messages, notifications, read marks, attachments** of conversations and Risk dossiers, and the
  assignments and vehicle data of a Risk dossier: single inserts or updates whose order nothing depends on.
* **Sessions of access codes**: one row each, inserted by a right code, read until it expires.
* **Damage photos and image store client**: the protocol with the image store is in `RiskVehicle`, where
  rows and images must agree; the client itself signs and forwards requests.
* **Agencies and vehicle status share, reference data, contacts, plates**: single records, read and written by
  one statement each; only the repair rules have a protocol, and they are in `RepairRules`.
* **GT Motive, salvage evaluations, mail transport, plate recognition**: calls to external services and
  workbooks, with no state of their own. What the mail server does to an e-mail is in `EmailWorker`.
* **Statistics, exports, dashboard**: queries and presentation. The dashboard keeps no state but forms.
* **`prisma/generated`**: the generated database client, a large part of the repository's lines. The
  tables, keys and indexes it serves are modelled from `schema.prisma` and the migrations.

Left to do: the rights of users; a version of the conversation in which requests on users overlap with the others, once
the code looks again inside its transactions. `PROJECT.json` lists the hazards that have no property yet,
each with the reason.

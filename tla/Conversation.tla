---------------------------- MODULE Conversation ----------------------------
(***************************************************************************)
(* The conversation about one vehicle check, the managers who take part in *)
(* it and the links by which they decide                                   *)
(* (vehicle-check-conversations.service.ts, sendDecisionRequestEmail), with *)
(* the accounts of the managers and their assignments to the collaborator  *)
(* (users.service.ts), which give them access and take it back.            *)
(*                                                                         *)
(* Requests interleave between their reads and writes, and inside the two  *)
(* transactions that change several participants: a statement sees what is *)
(* committed and what its own transaction wrote, and waits for the rows    *)
(* that others have written (READ COMMITTED).  Any request may fail, its   *)
(* transaction is then rolled back.  Messages, notifications, read marks   *)
(* and attachments are left out; a reply can add its author.               *)
(***************************************************************************)
EXTENDS FiniteSets

CONSTANTS
    Clients,        \* the requests that may be in progress at one time
    Managers,
    Collaborator,   \* whose vehicle check it is
    Admin,
    Overlapping     \* the kinds of requests that may overlap; the others come alone

Kinds == {"create", "participants", "status", "reply", "ask", "account", "managers"}
Users == Managers \cup {Collaborator, Admin}

ASSUME UsersAssumption ==
    /\ Collaborator \notin Managers /\ Admin \notin Managers /\ Collaborator # Admin
    /\ IsFiniteSet(Managers)

ASSUME OverlappingAssumption == Overlapping \subseteq Kinds

VARIABLES
    account,    \* role and isActive of the managers' users
    assigned,   \* the managers with an active assignment to the collaborator
    conv,       \* the conversation, its resolvedAt and closedAt set or not
    role,       \* each user's role in the conversation
    share,      \* VehicleCheckDecisionShare of each manager: isEnabled, or none
    request     \* what each request has still to do

vars == <<account, assigned, conv, role, share, request>>

Changes == {"promote", "demote", "activate", "deactivate"}
Conv == [status : {"NONE", "OPEN", "RESOLVED", "CLOSED"}, resolvedAt : BOOLEAN, closedAt : BOOLEAN]
Roles == {"NONE", "REQUESTER", "DECISION_MAKER", "OBSERVER"}
Shares == {"NONE", "ON", "OFF"}

\* The rows its transaction has written are in roles and shares, the others are "SAME".
Request ==
    [kind : Kinds \cup {"idle"}, step : {"begun", "remove", "adding", "open"}, by : Users,
     want : SUBSET Managers, todo : SUBSET Managers,
     change : Changes \cup {"OPEN", "RESOLVED", "CLOSED", ""}, wasManager : BOOLEAN,
     roles : [Users -> Roles \cup {"SAME"}], shares : [Managers -> Shares \cup {"SAME"}]]

TypeOK ==
    /\ account \in [Managers -> [manager : BOOLEAN, active : BOOLEAN]]
    /\ assigned \subseteq Managers
    /\ conv \in Conv
    /\ role \in [Users -> Roles]
    /\ share \in [Managers -> Shares]
    /\ request \in [Clients -> Request]

-----------------------------------------------------------------------------

NoRoles == [u \in Users |-> "SAME"]
NoShares == [m \in Managers |-> "SAME"]
Begun(kind, by, want) ==
    [kind |-> kind, step |-> "begun", by |-> by, want |-> want, todo |-> {}, change |-> "",
     wasManager |-> FALSE, roles |-> NoRoles, shares |-> NoShares]
Idle == Begun("idle", Collaborator, {})

Does(c, kind, step) == request[c].kind = kind /\ request[c].step = step
Then(c, next) == request' = [request EXCEPT ![c] = next]

\* A request of a kind that does not overlap is the only one in progress.
Begin(c, r) ==
    /\ request[c] = Idle
    /\ \A d \in Clients \ {c} : request[d] = Idle \/ {r.kind, request[d].kind} \subseteq Overlapping
    /\ Then(c, r)

\* The rows that no other transaction has written.
ShareFree(c, m) == \A d \in Clients \ {c} : request[d].shares[m] = "SAME"
RoleFree(c, u) == \A d \in Clients \ {c} : request[d].roles[u] = "SAME"

\* No other transaction has inserted the conversation.
ConvFree(c) == \A d \in Clients \ {c} : ~(request[d].kind = "create" /\ request[d].step # "begun")

Over(new, old) == IF new = "SAME" THEN old ELSE new

Init ==
    /\ account = [m \in Managers |-> [manager |-> TRUE, active |-> TRUE]]
    /\ assigned = {}
    /\ conv = [status |-> "NONE", resolvedAt |-> FALSE, closedAt |-> FALSE]
    /\ role = [u \in Users |-> "NONE"]
    /\ share = [m \in Managers |-> "NONE"]
    /\ request = [c \in Clients |-> Idle]

Tables == <<account, assigned, conv, role, share>>

\* The managers that may be chosen: assigned to the collaborator and active.
Available == {m \in assigned : account[m].active}

(* create: the conversation with its participants, then their shares *)

Create(c) ==
    /\ conv.status = "NONE"
    /\ \E by \in {Collaborator, Admin}, want \in SUBSET Available \ {{}} :
          Begin(c, Begun("create", by, want))
    /\ UNCHANGED Tables

\* The row is inserted, unless it is there by now (unique vehicleCheckId).
CreateRow(c) ==
    LET r == request[c] IN
    /\ Does(c, "create", "begun") /\ ConvFree(c)
    /\ IF conv.status # "NONE" THEN Then(c, Idle)
       ELSE Then(c, [r EXCEPT !.step = "adding", !.todo = r.want,
                              !.roles = [u \in Users |->
                                  CASE u = Collaborator -> "REQUESTER"
                                    [] u \in r.want -> "DECISION_MAKER"
                                    [] u = Admin /\ r.by = Admin -> "OBSERVER"
                                    [] OTHER -> "SAME"]])
    /\ UNCHANGED Tables

(* updateParticipants: the shares of the others are disabled, the others removed, then *)
(* each chosen manager gets a share and takes part.                                    *)

Participants(c) ==
    /\ conv.status # "NONE"
    /\ \E by \in {Collaborator, Admin}, want \in SUBSET Available \ {{}} :
          Begin(c, Begun("participants", by, want))
    /\ UNCHANGED Tables

\* Mutant: the shares are disabled before the transaction.
DisableAtOnce(c) ==
    LET r == request[c]
        others == {m \in Managers \ r.want : share[m] # "NONE"} IN
    /\ Does(c, "participants", "begun") /\ \A m \in others : ShareFree(c, m)
    /\ share' = [m \in Managers |-> IF m \in others THEN "OFF" ELSE share[m]]
    /\ Then(c, [r EXCEPT !.step = "remove"])
    /\ UNCHANGED <<account, assigned, conv, role>>

DisableShares(c) ==
    LET r == request[c]
        others == {m \in Managers \ r.want : share[m] # "NONE"} IN
    /\ Does(c, "participants", "begun") /\ \A m \in others : ShareFree(c, m)
    /\ Then(c, [r EXCEPT !.step = "remove",
                         !.shares = [m \in Managers |-> IF m \in others THEN "OFF" ELSE "SAME"]])
    /\ UNCHANGED Tables

RemoveMakers(c) ==
    LET r == request[c]
        others == {m \in Managers \ r.want : role[m] = "DECISION_MAKER"} IN
    /\ Does(c, "participants", "remove") /\ \A m \in others : RoleFree(c, m)
    /\ Then(c, [r EXCEPT !.step = "adding", !.todo = r.want,
                         !.roles = [u \in Users |-> IF u \in others THEN "NONE" ELSE "SAME"]])
    /\ UNCHANGED Tables

\* The share and the participation of one chosen manager, in the order of the request.
AddManager(c) ==
    LET r == request[c] IN
    /\ r.step = "adding"
    /\ \E m \in r.todo :
          /\ ShareFree(c, m) /\ RoleFree(c, m)
          /\ Then(c, [r EXCEPT !.todo = @ \ {m}, !.shares[m] = "ON", !.roles[m] = "DECISION_MAKER"])
    /\ UNCHANGED Tables

\* Mutant: the rows that are not written are lost.
WrittenOnly(new, old) == new

Merged(new, old) == [x \in DOMAIN old |-> Over(new[x], old[x])]

Commit(c) ==
    LET r == request[c] IN
    /\ r.step = "adding" /\ r.todo = {}
    /\ role' = Merged(r.roles, role)
    /\ share' = Merged(r.shares, share)
    /\ conv' = IF r.kind = "create" THEN [conv EXCEPT !.status = "OPEN"] ELSE conv
    /\ Then(c, Idle)
    /\ UNCHANGED <<account, assigned>>

(* updateStatus, by a participant; only an administrator closes *)

ChangeStatus(c) ==
    /\ conv.status # "NONE"
    /\ \E by \in Users, to \in {"OPEN", "RESOLVED", "CLOSED"} :
          /\ role[by] # "NONE" /\ to # conv.status /\ (to = "CLOSED" => by = Admin)
          /\ Begin(c, [Begun("status", by, {}) EXCEPT !.change = to])
    /\ UNCHANGED Tables

WriteStatus(c) ==
    LET to == request[c].change IN
    /\ Does(c, "status", "begun")
    /\ conv' = [status |-> to, resolvedAt |-> to = "RESOLVED", closedAt |-> to = "CLOSED"]
    /\ Then(c, Idle)
    /\ UNCHANGED <<account, assigned, role, share>>

(* createMessage and attachmentSignature: who is no participant yet joins first, whatever *)
(* the status is.                                                                         *)

Reply(c) ==
    /\ conv.status # "NONE"
    /\ \E by \in {Collaborator, Admin} : role[by] = "NONE" /\ Begin(c, Begun("reply", by, {}))
    /\ UNCHANGED Tables

Join(c) ==
    LET by == request[c].by IN
    /\ Does(c, "reply", "begun") /\ RoleFree(c, by)
    /\ role' = [role EXCEPT ![by] = IF by = Collaborator THEN "REQUESTER" ELSE "OBSERVER"]
    /\ Then(c, Idle)
    /\ UNCHANGED <<account, assigned, conv, share>>

(* sendDecisionRequestEmail: the manager's share is written, then a transaction opens the *)
(* conversation, or opens it again, and makes him take part.                              *)

Ask(c) ==
    /\ \E by \in Users, m \in assigned :
          /\ account[m].active /\ account[m].manager
          /\ Begin(c, Begun("ask", by, {m}))
    /\ UNCHANGED Tables

AskShare(c) ==
    LET r == request[c] IN
    /\ Does(c, "ask", "begun") /\ \A m \in r.want : ShareFree(c, m)
    /\ share' = [m \in Managers |-> IF m \in r.want THEN "ON" ELSE share[m]]
    /\ Then(c, [r EXCEPT !.step = "open"])
    /\ UNCHANGED <<account, assigned, conv, role>>

\* Mutant: the conversation is opened again with its dates.
AskKeepDates(c) ==
    LET r == request[c] IN
    /\ Does(c, "ask", "open") /\ ConvFree(c)
    /\ conv' = [conv EXCEPT !.status = "OPEN"]
    /\ role' = [role EXCEPT ![Collaborator] = "REQUESTER"]
    /\ Then(c, Idle)
    /\ UNCHANGED <<account, assigned, share>>

\* Mutant: only the manager is made a participant.
AskManagerOnly(c) ==
    LET r == request[c] IN
    /\ Does(c, "ask", "open") /\ ConvFree(c)
    /\ conv' = [status |-> "OPEN", resolvedAt |-> FALSE, closedAt |-> FALSE]
    /\ role' = [u \in Users |-> IF u \in r.want THEN "DECISION_MAKER" ELSE role[u]]
    /\ Then(c, Idle)
    /\ UNCHANGED <<account, assigned, share>>

AskOpen(c) ==
    LET r == request[c] IN
    /\ Does(c, "ask", "open") /\ ConvFree(c)
    /\ \A u \in r.want \cup {Collaborator, r.by} : RoleFree(c, u)
    /\ conv' = [status |-> "OPEN", resolvedAt |-> FALSE, closedAt |-> FALSE]
    /\ role' = [u \in Users |->
                   CASE u \in r.want -> "DECISION_MAKER"
                     [] u = Collaborator -> "REQUESTER"
                     [] u = r.by /\ u \notin r.want \cup {Collaborator} /\ role[u] = "NONE" -> "OBSERVER"
                     [] OTHER -> role[u]]
    /\ Then(c, Idle)
    /\ UNCHANGED <<account, assigned, share>>

-----------------------------------------------------------------------------
(* UsersService.update, of a manager and of the collaborator *)

\* revokeManagerConversationAccess for the managers of S.
Revoke(S) ==
    /\ role' = [u \in Users |-> IF u \in S /\ role[u] = "DECISION_MAKER" THEN "NONE" ELSE role[u]]
    /\ share' = [m \in Managers |-> IF m \in S /\ share[m] # "NONE" THEN "OFF" ELSE share[m]]

Free(c, S) == \A m \in S : RoleFree(c, m) /\ ShareFree(c, m)

ChangeAccount(c) ==
    /\ \E m \in Managers, change \in Changes :
          Begin(c, [Begun("account", Admin, {m}) EXCEPT !.change = change,
                                                        !.wasManager = account[m].manager])
    /\ UNCHANGED Tables

\* Mutant: only a change of role takes the access back.
RevokesDemoted(r) == r.wasManager /\ r.change = "demote"

\* A manager who is one no more, or deactivated, loses his assignments and access.
Revokes(r) == r.wasManager /\ r.change \in {"demote", "deactivate"}

Updated(a, change) ==
    CASE change = "promote" -> [a EXCEPT !.manager = TRUE]
      [] change = "demote" -> [a EXCEPT !.manager = FALSE]
      [] change = "activate" -> [a EXCEPT !.active = TRUE]
      [] change = "deactivate" -> [a EXCEPT !.active = FALSE]

WriteAccount(c) ==
    LET r == request[c] IN
    /\ Does(c, "account", "begun") /\ Free(c, r.want)
    /\ account' = [m \in Managers |->
                      IF m \in r.want THEN Updated(account[m], r.change) ELSE account[m]]
    /\ IF Revokes(r)
       THEN assigned' = assigned \ r.want /\ Revoke(r.want \cap assigned)
       ELSE UNCHANGED <<assigned, role, share>>
    /\ Then(c, Idle)
    /\ UNCHANGED conv

\* validateManagerAssignments: active managers only.
ChangeManagers(c) ==
    /\ \E want \in SUBSET {m \in Managers : account[m].active /\ account[m].manager} :
          Begin(c, Begun("managers", Admin, want))
    /\ UNCHANGED Tables

\* syncManagerAssignments
WriteManagers(c) ==
    LET r == request[c] IN
    /\ Does(c, "managers", "begun") /\ Free(c, assigned \ r.want)
    /\ assigned' = r.want
    /\ Revoke(assigned \ r.want)
    /\ Then(c, Idle)
    /\ UNCHANGED <<account, conv>>

-----------------------------------------------------------------------------

\* The process stops, or the database fails the request (a deadlock included): an open
\* transaction is rolled back.
Fail(c) ==
    /\ request[c] # Idle
    /\ Then(c, Idle)
    /\ UNCHANGED Tables

Next ==
    \E c \in Clients :
        \/ Create(c) \/ CreateRow(c) \/ Participants(c) \/ DisableShares(c) \/ RemoveMakers(c)
        \/ AddManager(c) \/ Commit(c)
        \/ ChangeStatus(c) \/ WriteStatus(c) \/ Reply(c) \/ Join(c)
        \/ Ask(c) \/ AskShare(c) \/ AskOpen(c)
        \/ ChangeAccount(c) \/ WriteAccount(c) \/ ChangeManagers(c) \/ WriteManagers(c)
        \/ Fail(c)

Spec == Init /\ [][Next]_vars

-----------------------------------------------------------------------------
(* Properties *)

\* Only active managers assigned to the collaborator decide on his vehicle check: a
\* manager who is unassigned, demoted or deactivated, in whatever order, loses both his
\* place in the conversation and his link.
AccessFollowsAssignment ==
    \A m \in Managers :
        role[m] = "DECISION_MAKER" \/ share[m] = "ON" =>
            m \in assigned /\ account[m].active /\ account[m].manager

\* Who decides in the conversation has a link to decide by, although overlapping
\* requests disable links and remove participants in separate statements.
DecisionMakersHaveLink ==
    \A m \in Managers : role[m] = "DECISION_MAKER" => share[m] = "ON"

\* A conversation, however it came to be, has the collaborator as its requester.
RequesterTakesPart == conv.status # "NONE" => role[Collaborator] = "REQUESTER"

\* The dates of the conversation tell its status, whoever changed or reopened it.
DatesTellStatus ==
    (conv.resolvedAt <=> conv.status = "RESOLVED") /\ (conv.closedAt <=> conv.status = "CLOSED")

=============================================================================

------------------------ MODULE ConversationProofs ------------------------
(***************************************************************************)
(* The properties of Conversation, for any number of requests and of       *)
(* managers.  Who decides is proved for requests on users, and decision    *)
(* requests, that come alone (Apart): no lock or check of the code orders  *)
(* them with the others.                                                   *)
(***************************************************************************)
EXTENDS Conversation, TLAPS

\* The requests that must come alone.
Solitary == {"ask", "account", "managers"}

Apart == Solitary \cap Overlapping = {}

\* What a request has read is still true when it acts on it.
Chosen(r) ==
    /\ r.kind \in {"create", "participants", "ask"} => r.want \subseteq assigned
    /\ r.kind = "managers" => \A m \in r.want : account[m].active /\ account[m].manager
    /\ r.kind = "account" => \A m \in r.want : r.wasManager = account[m].manager
    /\ r.kind = "ask" /\ r.step = "open" => \A m \in r.want : share[m] = "ON"

\* A transaction enables the links of those it makes decide, and disables no other.
Paired(r) ==
    /\ r.step = "begun" => r.roles = NoRoles /\ r.shares = NoShares
    /\ r.todo \subseteq r.want
    /\ \A m \in Managers :
          /\ r.shares[m] = "ON" => m \in r.want
          /\ r.shares[m] = "OFF" => m \notin r.want
          /\ r.shares[m] # "NONE"
          /\ r.roles[m] = "DECISION_MAKER" => m \in r.want /\ (r.shares[m] = "ON" \/ m \in r.todo)
    /\ r.step = "adding" => r.kind \in {"create", "participants"}
    /\ r.step = "remove" => r.kind = "participants"

\* Who loses his link does not decide, or is about to be removed.
Removes(r) ==
    r.step = "adding" =>
        \A m \in Managers :
            r.shares[m] = "OFF" => r.roles[m] = "NONE" \/ role[m] # "DECISION_MAKER"

\* The conversation is not there while its creation is in progress, and is there when its
\* status is changed; what a request changes is known.
Opens(r) ==
    /\ r.kind = "create" /\ r.step # "begun" =>
          conv.status = "NONE" /\ r.step = "adding" /\ r.roles[Collaborator] = "REQUESTER"
    /\ r.kind = "participants" => r.roles[Collaborator] = "SAME"
    /\ r.kind = "status" => conv.status # "NONE" /\ r.change \in {"OPEN", "RESOLVED", "CLOSED"}
    /\ r.kind = "account" => r.change \in Changes

Compatible(c, r) ==
    \A d \in Clients \ {c} :
        r = Idle \/ request[d] = Idle \/ (r.kind \notin Solitary /\ request[d].kind \notin Solitary)

Locks == \A c \in Clients, d \in Clients : \A m \in Managers :
    c # d => request[c].shares[m] = "SAME" \/ request[d].shares[m] = "SAME"

OneCreation == \A c \in Clients : request[c].kind = "create" /\ request[c].step # "begun" => ConvFree(c)

AssignedManage == \A m \in assigned : account[m].active /\ account[m].manager

\* What holds of any overlap.
ConvInv ==
    /\ TypeOK
    /\ \A c \in Clients : Paired(request[c]) /\ Opens(request[c])
    /\ Locks
    /\ OneCreation
    /\ RequesterTakesPart
    /\ DatesTellStatus

\* What needs the requests of Solitary to come alone.
AccessInv ==
    /\ \A c \in Clients :
          Chosen(request[c]) /\ Removes(request[c]) /\ Compatible(c, request[c])
    /\ AssignedManage
    /\ AccessFollowsAssignment
    /\ DecisionMakersHaveLink

-----------------------------------------------------------------------------
(* Requests *)

SharesFree(c, r) == \A m \in Managers : r.shares[m] # "SAME" => ShareFree(c, m)
CreatesAlone(c, r) == r.kind = "create" /\ r.step # "begun" => ConvFree(c)

\* A request begins, with nothing written.
Fresh(r) == r \in Request /\ r.step = "begun" /\ r.todo = {} /\ r.roles = NoRoles /\ r.shares = NoShares

LEMMA FreshBegun ==
    ASSUME NEW kind \in Kinds \cup {"idle"}, NEW by \in Users, NEW want \in SUBSET Managers
    PROVE  Fresh(Begun(kind, by, want))
BY DEF Fresh, Begun, Request, NoRoles, NoShares

LEMMA FreshFacts ==
    ASSUME NEW r, Fresh(r), NEW c
    PROVE  Paired(r) /\ Removes(r) /\ SharesFree(c, r) /\ CreatesAlone(c, r)
BY DEF Fresh, Paired, Removes, SharesFree, CreatesAlone, NoRoles, NoShares, Users

LEMMA IdleFacts ==
    ASSUME NEW c
    PROVE  /\ Fresh(Idle) /\ Idle.kind = "idle" /\ Idle \in Request /\ Opens(Idle) /\ Chosen(Idle)
           /\ Compatible(c, Idle) /\ Paired(Idle) /\ Removes(Idle)
           /\ SharesFree(c, Idle) /\ CreatesAlone(c, Idle)
<1>1. Fresh(Idle)
    BY FreshBegun DEF Idle, Users
<1>2. Idle.kind = "idle" /\ Idle \in Request
    BY <1>1 DEF Idle, Begun, Fresh
<1>3. Opens(Idle) /\ Chosen(Idle) /\ Compatible(c, Idle)
    BY <1>2 DEF Opens, Chosen, Compatible
<1> QED BY <1>1, <1>2, <1>3, FreshFacts

\* One request changes.
LEMMA Requests ==
    ASSUME request \in [Clients -> Request], \A d \in Clients : Paired(request[d]),
           Locks, OneCreation, NEW c \in Clients, NEW next \in Request,
           Then(c, next), Paired(next), SharesFree(c, next), CreatesAlone(c, next)
    PROVE  /\ request' \in [Clients -> Request]
           /\ \A d \in Clients : request'[d] = IF d = c THEN next ELSE request[d]
           /\ \A d \in Clients : Paired(request'[d])
           /\ Locks'
           /\ OneCreation'
<1>1. \A d \in Clients : request'[d] = IF d = c THEN next ELSE request[d]
    BY DEF Then
<1>2. request' \in [Clients -> Request]
    BY DEF Then
<1>3. \A d \in Clients : Paired(request'[d])
    BY <1>1
<1>4. Locks'
    BY <1>1 DEF Locks, SharesFree, ShareFree
<1>5. OneCreation'
    BY <1>1 DEF OneCreation, CreatesAlone, ConvFree
<1> QED BY <1>1, <1>2, <1>3, <1>4, <1>5

LEMMA Others ==
    ASSUME request \in [Clients -> Request], \A d \in Clients : Compatible(d, request[d]),
           NEW c \in Clients, NEW next \in Request, Then(c, next), Compatible(c, next)
    PROVE  \A d \in Clients : Compatible(d, request[d])'
BY DEF Then, Compatible

\* The tables stay as they are.
LEMMA Moves ==
    ASSUME ConvInv, NEW c \in Clients, NEW next \in Request, Then(c, next), UNCHANGED Tables,
           Paired(next), Opens(next), SharesFree(c, next), CreatesAlone(c, next)
    PROVE  ConvInv'
<1>1. /\ request' \in [Clients -> Request]
      /\ \A d \in Clients : request'[d] = IF d = c THEN next ELSE request[d]
      /\ \A d \in Clients : Paired(request'[d])
      /\ Locks'
      /\ OneCreation'
    BY Requests DEF ConvInv, TypeOK
<1>2. TypeOK'
    BY <1>1 DEF ConvInv, TypeOK, Tables
<1>3. \A d \in Clients : Opens(request[d])'
    BY <1>1 DEF ConvInv, Opens, Tables
<1>4. (RequesterTakesPart /\ DatesTellStatus)'
    BY DEF ConvInv, RequesterTakesPart, DatesTellStatus, Tables
<1>5. \A d \in Clients : Paired(request[d])'
    BY <1>1 DEF Paired
<1> QED BY <1>1, <1>2, <1>3, <1>4, <1>5 DEF ConvInv

LEMMA AccessMoves ==
    ASSUME TypeOK, AccessInv, NEW c \in Clients, NEW next \in Request, Then(c, next),
           UNCHANGED Tables, Chosen(next), Removes(next), Compatible(c, next)
    PROVE  AccessInv'
<1>1. \A d \in Clients : Compatible(d, request[d])'
    BY Others DEF AccessInv, TypeOK
<1>2. \A d \in Clients : request'[d] = IF d = c THEN next ELSE request[d]
    BY DEF Then, TypeOK
<1>3. \A d \in Clients : Chosen(request[d])'
    BY <1>2 DEF AccessInv, Chosen, Tables
<1>4. \A d \in Clients : Removes(request[d])'
    BY <1>2 DEF AccessInv, Removes, Tables
<1>5. (AssignedManage /\ AccessFollowsAssignment /\ DecisionMakersHaveLink)'
    BY DEF AccessInv, AssignedManage, AccessFollowsAssignment, DecisionMakersHaveLink, Tables
<1> QED BY <1>1, <1>3, <1>4, <1>5 DEF AccessInv

\* A request begins.
LEMMA Begins ==
    ASSUME ConvInv, NEW c \in Clients, NEW r, Fresh(r), Begin(c, r), UNCHANGED Tables, Opens(r)
    PROVE  ConvInv'
BY FreshFacts, Moves DEF Begin, Fresh

LEMMA AccessBegins ==
    ASSUME Apart, TypeOK, AccessInv, NEW c \in Clients, NEW r, Fresh(r), Begin(c, r),
           UNCHANGED Tables, Chosen(r)
    PROVE  AccessInv'
<1>1. Compatible(c, r)
    BY DEF Apart, Begin, Compatible, Solitary
<1>2. r \in Request /\ Then(c, r) /\ Removes(r)
    BY FreshFacts DEF Fresh, Begin
<1> QED BY <1>1, <1>2, AccessMoves

Read(c) ==
    \/ Create(c) \/ Participants(c) \/ ChangeStatus(c) \/ Reply(c)
    \/ Ask(c) \/ ChangeAccount(c) \/ ChangeManagers(c)

\* What the requests have read.
LEMMA Fetched ==
    ASSUME TypeOK, NEW c \in Clients, Read(c)
    PROVE  /\ UNCHANGED Tables
           /\ \E r : Fresh(r) /\ Begin(c, r) /\ Opens(r) /\ (AssignedManage => Chosen(r))
<1>1. CASE Create(c)
    <2>1. PICK by \in {Collaborator, Admin}, want \in SUBSET Available :
              Begin(c, Begun("create", by, want))
        BY <1>1 DEF Create
    <2>2. want \in SUBSET Managers /\ by \in Users /\ want \subseteq assigned
        BY DEF TypeOK, Available, Users
    <2>3. Fresh(Begun("create", by, want))
        BY <2>2, FreshBegun DEF Kinds
    <2>4. Opens(Begun("create", by, want)) /\ Chosen(Begun("create", by, want))
        BY <2>2 DEF Opens, Chosen, Begun
    <2> QED BY <1>1, <2>1, <2>3, <2>4 DEF Create
<1>2. CASE Participants(c)
    <2>1. PICK by \in {Collaborator, Admin}, want \in SUBSET Available :
              Begin(c, Begun("participants", by, want))
        BY <1>2 DEF Participants
    <2>2. want \in SUBSET Managers /\ by \in Users /\ want \subseteq assigned
        BY DEF TypeOK, Available, Users
    <2>3. Fresh(Begun("participants", by, want))
        BY <2>2, FreshBegun DEF Kinds
    <2>4. Opens(Begun("participants", by, want)) /\ Chosen(Begun("participants", by, want))
        BY <2>2 DEF Opens, Chosen, Begun, NoRoles, Users
    <2> QED BY <1>2, <2>1, <2>3, <2>4 DEF Participants
<1>3. CASE ChangeStatus(c)
    <2>1. PICK by \in Users, to \in {"OPEN", "RESOLVED", "CLOSED"} :
              Begin(c, [Begun("status", by, {}) EXCEPT !.change = to])
        BY <1>3 DEF ChangeStatus
    <2> DEFINE r == [Begun("status", by, {}) EXCEPT !.change = to]
    <2>2. Fresh(Begun("status", by, {}))
        BY FreshBegun DEF Kinds
    <2>3. Fresh(r)
        BY <2>2 DEF Fresh, Request
    <2>4. Opens(r) /\ Chosen(r)
        BY <1>3 DEF Opens, Chosen, Begun, ChangeStatus
    <2> QED BY <1>3, <2>1, <2>3, <2>4 DEF ChangeStatus
<1>4. CASE Reply(c)
    <2>1. PICK by \in {Collaborator, Admin} : Begin(c, Begun("reply", by, {}))
        BY <1>4 DEF Reply
    <2>2. Fresh(Begun("reply", by, {}))
        BY FreshBegun DEF Kinds, Users
    <2>3. Opens(Begun("reply", by, {})) /\ Chosen(Begun("reply", by, {}))
        BY DEF Opens, Chosen, Begun
    <2> QED BY <1>4, <2>1, <2>2, <2>3 DEF Reply
<1>5. CASE Ask(c)
    <2>1. PICK by \in Users, m \in assigned : Begin(c, Begun("ask", by, {m}))
        BY <1>5 DEF Ask
    <2>2. {m} \in SUBSET Managers
        BY DEF TypeOK
    <2>3. Fresh(Begun("ask", by, {m}))
        BY <2>2, FreshBegun DEF Kinds
    <2>4. Opens(Begun("ask", by, {m})) /\ Chosen(Begun("ask", by, {m}))
        BY DEF Opens, Chosen, Begun
    <2> QED BY <1>5, <2>1, <2>3, <2>4 DEF Ask
<1>6. CASE ChangeAccount(c)
    <2>1. PICK m \in Managers, change \in Changes :
              Begin(c, [Begun("account", Admin, {m}) EXCEPT !.change = change,
                                                            !.wasManager = account[m].manager])
        BY <1>6 DEF ChangeAccount
    <2> DEFINE r == [Begun("account", Admin, {m}) EXCEPT !.change = change,
                                                         !.wasManager = account[m].manager]
    <2>2. Fresh(Begun("account", Admin, {m}))
        BY FreshBegun DEF Kinds, Users
    <2>3. Fresh(r)
        BY <2>2 DEF Fresh, Request, TypeOK
    <2>4. r.kind = "account" /\ r.want = {m} /\ r.change = change /\ r.wasManager = account[m].manager
        BY DEF Begun
    <2>5. Opens(r) /\ Chosen(r)
        BY <2>4 DEF Opens, Chosen
    <2> QED BY <1>6, <2>1, <2>3, <2>5 DEF ChangeAccount
<1>7. CASE ChangeManagers(c)
    <2>1. PICK want \in SUBSET {m \in Managers : account[m].active /\ account[m].manager} :
              Begin(c, Begun("managers", Admin, want))
        BY <1>7 DEF ChangeManagers
    <2>2. Fresh(Begun("managers", Admin, want))
        BY FreshBegun DEF Kinds, Users
    <2>3. Opens(Begun("managers", Admin, want)) /\ Chosen(Begun("managers", Admin, want))
        BY DEF Opens, Chosen, Begun
    <2> QED BY <1>7, <2>1, <2>2, <2>3 DEF ChangeManagers
<1> QED BY <1>1, <1>2, <1>3, <1>4, <1>5, <1>6, <1>7 DEF Read

LEMMA ReadsKeep ==
    ASSUME ConvInv, NEW c \in Clients, Read(c)
    PROVE  ConvInv' /\ (Apart /\ AccessInv => AccessInv')
<1>1. TypeOK
    BY DEF ConvInv
<1>2. PICK r : Fresh(r) /\ Begin(c, r) /\ Opens(r) /\ (AssignedManage => Chosen(r))
    BY <1>1, Fetched
<1>3. UNCHANGED Tables
    BY <1>1, Fetched
<1>4. ConvInv'
    BY <1>2, <1>3, Begins
<1>5. ASSUME Apart, AccessInv PROVE AccessInv'
    <2>1. Chosen(r)
        BY <1>2, <1>5 DEF AccessInv
    <2> QED BY <1>1, <1>2, <1>3, <1>5, <2>1, AccessBegins
<1> QED BY <1>4, <1>5

-----------------------------------------------------------------------------
(* The statements of a transaction *)

LEMMA SameKind ==
    ASSUME NEW c \in Clients, NEW r, NEW next, r # Idle, next.kind = r.kind, Compatible(c, r)
    PROVE  Compatible(c, next)
BY DEF Compatible

LEMMA NotIdle ==
    ASSUME NEW c \in Clients, NEW kind, NEW step, Does(c, kind, step), kind # "idle"
    PROVE  request[c] # Idle
BY IdleFacts DEF Does

Pending(c) == CreateRow(c) \/ DisableShares(c) \/ RemoveMakers(c) \/ AddManager(c) \/ Fail(c)

\* What a statement leaves to do.
LEMMA Statements ==
    ASSUME ConvInv, NEW c \in Clients, Pending(c)
    PROVE  /\ UNCHANGED Tables
           /\ \E next \in Request :
                 /\ Then(c, next) /\ Paired(next) /\ Opens(next)
                 /\ SharesFree(c, next) /\ CreatesAlone(c, next)
                 /\ AccessInv => Chosen(next) /\ Removes(next) /\ Compatible(c, next)
<1> DEFINE r == request[c]
<1>r. r \in Request /\ Paired(r) /\ Opens(r)
    BY DEF ConvInv, TypeOK
<1>i. AccessInv => Chosen(r) /\ Removes(r) /\ Compatible(c, r)
    BY DEF AccessInv
<1>0. SharesFree(c, r) /\ CreatesAlone(c, r)
    BY DEF SharesFree, CreatesAlone, ConvInv, Locks, OneCreation, ShareFree
<1>u. /\ Collaborator \in Users /\ Managers \subseteq Users
      /\ Collaborator \notin Managers /\ Admin \notin Managers /\ Collaborator # Admin
    BY UsersAssumption DEF Users
<1>1. CASE CreateRow(c)
    <2>1. CASE conv.status # "NONE"
        BY <1>1, <2>1, IdleFacts DEF CreateRow
    <2>2. CASE conv.status = "NONE"
        <3> DEFINE roles == [u \in Users |->
                                 CASE u = Collaborator -> "REQUESTER"
                                   [] u \in r.want -> "DECISION_MAKER"
                                   [] u = Admin /\ r.by = Admin -> "OBSERVER"
                                   [] OTHER -> "SAME"]
                   next == [r EXCEPT !.step = "adding", !.todo = r.want, !.roles = roles]
        <3>1. Then(c, next) /\ r.kind = "create" /\ r.step = "begun" /\ ConvFree(c)
            BY <1>1, <2>2 DEF CreateRow, Does
        <3>2. r.want \subseteq Managers /\ r.shares \in [Managers -> Shares \cup {"SAME"}]
            BY <1>r DEF Request
        <3>3. roles \in [Users -> Roles \cup {"SAME"}]
            BY DEF Roles
        <3>4. /\ roles[Collaborator] = "REQUESTER"
              /\ \A m \in Managers : roles[m] = "DECISION_MAKER" => m \in r.want
              /\ \A m \in Managers : r.shares[m] # "OFF"
            <4>1. roles[Collaborator] = "REQUESTER"
                BY <1>u, <3>2
            <4>2. \A m \in Managers : roles[m] = "DECISION_MAKER" => m \in r.want
                BY <1>u
            <4>3. \A m \in Managers : r.shares[m] # "OFF"
                BY <1>r, <3>1 DEF Paired, NoShares
            <4> QED BY <4>1, <4>2, <4>3
        <3> HIDE DEF roles
        <3>5. next \in Request
            BY <1>r, <3>2, <3>3 DEF Request
        <3>6. /\ next.kind = "create" /\ next.step = "adding" /\ next.want = r.want /\ next.todo = r.want
              /\ next.roles = roles /\ next.shares = r.shares
            BY <1>r, <3>1 DEF Request
        <3> HIDE DEF next
        <3>7. Paired(next) /\ Removes(next)
            BY <1>r, <3>4, <3>6 DEF Paired, Removes
        <3>8. Opens(next)
            BY <2>2, <3>4, <3>6 DEF Opens
        <3>9. SharesFree(c, next) /\ CreatesAlone(c, next)
            BY <1>0, <3>1, <3>6 DEF SharesFree, CreatesAlone
        <3>10. AccessInv => Chosen(next) /\ Compatible(c, next)
            BY <1>i, <3>1, <3>6, SameKind, IdleFacts DEF Chosen
        <3> QED BY <1>1, <3>1, <3>5, <3>7, <3>8, <3>9, <3>10 DEF CreateRow
    <2> QED BY <2>1, <2>2
<1>2. CASE DisableShares(c)
    <2> DEFINE others == {m \in Managers \ r.want : share[m] # "NONE"}
               shares == [m \in Managers |-> IF m \in others THEN "OFF" ELSE "SAME"]
               next == [r EXCEPT !.step = "remove", !.shares = shares]
    <2>1. /\ Then(c, next) /\ r.kind = "participants" /\ r.step = "begun"
          /\ \A m \in others : ShareFree(c, m)
        BY <1>2 DEF DisableShares, Does
    <2>2. next \in Request
        BY <1>r DEF Request, Shares
    <2>3. /\ next.kind = "participants" /\ next.step = "remove" /\ next.want = r.want
          /\ next.todo = r.todo /\ next.roles = r.roles /\ next.shares = shares
        BY <1>r, <2>1 DEF Request
    <2> HIDE DEF next
    <2>4. Paired(next)
        <3>1. \A m \in Managers : r.roles[m] # "DECISION_MAKER"
            BY <1>r, <1>u, <2>1 DEF Paired, NoRoles
        <3> QED BY <1>r, <2>3, <3>1 DEF Paired
    <2>5. Opens(next) /\ Removes(next)
        BY <1>r, <2>1, <2>3 DEF Opens, Removes
    <2>6. SharesFree(c, next) /\ CreatesAlone(c, next)
        BY <2>1, <2>3 DEF SharesFree, CreatesAlone
    <2>7. AccessInv => Chosen(next) /\ Compatible(c, next)
        BY <1>i, <2>1, <2>3, SameKind, IdleFacts DEF Chosen
    <2> QED BY <1>2, <2>1, <2>2, <2>4, <2>5, <2>6, <2>7 DEF DisableShares
<1>3. CASE RemoveMakers(c)
    <2> DEFINE others == {m \in Managers \ r.want : role[m] = "DECISION_MAKER"}
               roles == [u \in Users |-> IF u \in others THEN "NONE" ELSE "SAME"]
               next == [r EXCEPT !.step = "adding", !.todo = r.want, !.roles = roles]
    <2>1. Then(c, next) /\ r.kind = "participants" /\ r.step = "remove"
        BY <1>3 DEF RemoveMakers, Does
    <2>2. next \in Request
        BY <1>r DEF Request, Roles
    <2>3. /\ next.kind = "participants" /\ next.step = "adding" /\ next.want = r.want
          /\ next.todo = r.want /\ next.roles = roles /\ next.shares = r.shares
        BY <1>r, <2>1 DEF Request
    <2> HIDE DEF next
    <2>4. Paired(next)
        BY <1>r, <1>u, <2>3 DEF Paired
    <2>5. Opens(next) /\ Removes(next)
        BY <1>r, <1>u, <2>3 DEF Opens, Removes, Paired
    <2>6. SharesFree(c, next) /\ CreatesAlone(c, next)
        BY <1>0, <2>3 DEF SharesFree, CreatesAlone
    <2>7. AccessInv => Chosen(next) /\ Compatible(c, next)
        BY <1>i, <2>1, <2>3, SameKind, IdleFacts DEF Chosen
    <2> QED BY <1>3, <2>1, <2>2, <2>4, <2>5, <2>6, <2>7 DEF RemoveMakers
<1>4. CASE AddManager(c)
    <2>1. PICK m \in r.todo :
              /\ ShareFree(c, m)
              /\ Then(c, [r EXCEPT !.todo = @ \ {m}, !.shares[m] = "ON", !.roles[m] = "DECISION_MAKER"])
        BY <1>4 DEF AddManager
    <2> DEFINE next == [r EXCEPT !.todo = @ \ {m}, !.shares[m] = "ON", !.roles[m] = "DECISION_MAKER"]
    <2>2. r.step = "adding" /\ m \in r.want /\ m \in Managers /\ Then(c, next)
        BY <1>4, <1>r, <2>1 DEF AddManager, Paired, Request
    <2>3. next \in Request
        BY <1>r, <1>u, <2>2 DEF Request, Shares, Roles
    <2>4. /\ next.kind = r.kind /\ next.step = r.step /\ next.want = r.want /\ next.change = r.change
          /\ next.todo = r.todo \ {m}
          /\ next.roles = [r.roles EXCEPT ![m] = "DECISION_MAKER"]
          /\ next.shares = [r.shares EXCEPT ![m] = "ON"]
        BY <1>r DEF Request
    <2>5. r.roles \in [Users -> Roles \cup {"SAME"}] /\ r.shares \in [Managers -> Shares \cup {"SAME"}]
        BY <1>r DEF Request
    <2> HIDE DEF next
    <2>6. Paired(next)
        BY <1>r, <1>u, <2>2, <2>4, <2>5 DEF Paired
    <2>7. Opens(next) /\ (Removes(r) => Removes(next))
        BY <1>r, <1>u, <2>2, <2>4, <2>5 DEF Opens, Removes
    <2>8. SharesFree(c, next) /\ CreatesAlone(c, next)
        BY <1>0, <2>1, <2>2, <2>4, <2>5 DEF SharesFree, CreatesAlone
    <2>9. AccessInv => Chosen(next) /\ Compatible(c, next)
        BY <1>i, <1>r, <2>2, <2>4, SameKind, IdleFacts DEF Chosen, Paired
    <2>10. UNCHANGED Tables
        BY <1>4 DEF AddManager
    <2>11. AccessInv => Removes(next)
        BY <1>i, <2>7
    <2> QED BY <2>2, <2>3, <2>6, <2>7, <2>8, <2>9, <2>10, <2>11
<1>5. CASE Fail(c)
    BY <1>5, IdleFacts DEF Fail
<1> QED BY <1>1, <1>2, <1>3, <1>4, <1>5 DEF Pending

LEMMA StatementsKeep ==
    ASSUME ConvInv, NEW c \in Clients, Pending(c)
    PROVE  ConvInv' /\ (AccessInv => AccessInv')
<1>1. TypeOK
    BY DEF ConvInv
<1>2. UNCHANGED Tables
    BY Statements
<1>3. PICK next \in Request :
          /\ Then(c, next) /\ Paired(next) /\ Opens(next)
          /\ SharesFree(c, next) /\ CreatesAlone(c, next)
          /\ AccessInv => Chosen(next) /\ Removes(next) /\ Compatible(c, next)
    BY Statements
<1>4. ConvInv'
    BY <1>2, <1>3, Moves
<1>5. AccessInv => AccessInv'
    BY <1>1, <1>2, <1>3, AccessMoves
<1> QED BY <1>4, <1>5

-----------------------------------------------------------------------------
(* The writes *)

\* A request has written the tables, and goes on with nothing pending.
LEMMA Writes ==
    ASSUME ConvInv, NEW c \in Clients, NEW next \in Request, Then(c, next),
           Paired(next), next.shares = NoShares, next.kind \in {"idle", "ask"},
           account' \in [Managers -> [manager : BOOLEAN, active : BOOLEAN]],
           assigned' \subseteq Managers, conv' \in Conv, role' \in [Users -> Roles],
           share' \in [Managers -> Shares],
           conv.status # "NONE" => conv'.status # "NONE",
           conv'.status = "NONE" \/ ConvFree(c),
           RequesterTakesPart', DatesTellStatus'
    PROVE  ConvInv'
<1>1. SharesFree(c, next) /\ CreatesAlone(c, next)
    BY DEF SharesFree, CreatesAlone, NoShares
<1>2. /\ request' \in [Clients -> Request]
      /\ \A d \in Clients : request'[d] = IF d = c THEN next ELSE request[d]
      /\ \A d \in Clients : Paired(request'[d])
      /\ Locks'
      /\ OneCreation'
    BY <1>1, Requests DEF ConvInv, TypeOK
<1>3. TypeOK'
    BY <1>2 DEF TypeOK
<1>4. \A d \in Clients : Opens(request[d])'
    BY <1>2 DEF ConvInv, Opens, ConvFree
<1>5. \A d \in Clients : Paired(request[d])'
    BY <1>2 DEF Paired
<1> QED BY <1>2, <1>3, <1>4, <1>5 DEF ConvInv

LEMMA ThereFree ==
    ASSUME ConvInv, NEW c \in Clients, conv.status # "NONE"
    PROVE  ConvFree(c)
BY DEF ConvInv, Opens, ConvFree

LEMMA CommitConv ==
    ASSUME ConvInv, NEW c \in Clients, Commit(c)
    PROVE  ConvInv'
<1> DEFINE r == request[c]
<1>1. r \in Request /\ Paired(r) /\ Opens(r)
    BY DEF ConvInv, TypeOK
<1>2. r.step = "adding" /\ Then(c, Idle) /\ UNCHANGED <<account, assigned>>
    BY DEF Commit
<1>3. r.kind \in {"create", "participants"}
    BY <1>1, <1>2 DEF Paired
<1>4. /\ role' = [u \in Users |-> Over(r.roles[u], role[u])]
      /\ share' = [m \in Managers |-> Over(r.shares[m], share[m])]
    BY DEF Commit, Merged, ConvInv, TypeOK
<1>5. role' \in [Users -> Roles] /\ share' \in [Managers -> Shares]
    BY <1>1, <1>4 DEF Over, Request, ConvInv, TypeOK
<1>6. /\ account' \in [Managers -> [manager : BOOLEAN, active : BOOLEAN]]
      /\ assigned' \subseteq Managers
    BY <1>2 DEF ConvInv, TypeOK
<1>7. Paired(Idle) /\ Idle.shares = NoShares /\ Idle.kind = "idle" /\ Idle \in Request
    BY IdleFacts DEF Idle, Begun
<1>8. CASE r.kind = "create"
    <2>1. conv.status = "NONE" /\ r.roles[Collaborator] = "REQUESTER" /\ ConvFree(c)
        BY <1>1, <1>2, <1>8 DEF Opens, ConvInv, OneCreation
    <2>2. conv' = [conv EXCEPT !.status = "OPEN"]
        BY <1>8 DEF Commit
    <2>3. conv' \in Conv /\ DatesTellStatus'
        BY <2>1, <2>2 DEF ConvInv, TypeOK, Conv, DatesTellStatus
    <2>4. RequesterTakesPart'
        BY <1>4, <2>1 DEF RequesterTakesPart, Over, Users
    <2> QED BY <1>2, <1>5, <1>6, <1>7, <2>1, <2>3, <2>4, Writes
<1>9. CASE r.kind = "participants"
    <2>1. conv' = conv /\ r.roles[Collaborator] = "SAME"
        BY <1>1, <1>9 DEF Commit, Opens
    <2>2. conv' \in Conv /\ DatesTellStatus'
        BY <2>1 DEF ConvInv, TypeOK, DatesTellStatus
    <2>3. RequesterTakesPart'
        BY <1>4, <2>1 DEF RequesterTakesPart, Over, Users, ConvInv
    <2>4. conv'.status = "NONE" \/ ConvFree(c)
        BY <2>1, ThereFree
    <2> QED BY <1>2, <1>5, <1>6, <1>7, <2>1, <2>2, <2>3, <2>4, Writes
<1> QED BY <1>3, <1>8, <1>9

LEMMA WriteStatusConv ==
    ASSUME ConvInv, NEW c \in Clients, WriteStatus(c)
    PROVE  ConvInv'
<1> DEFINE to == request[c].change
<1>1. conv.status # "NONE" /\ to \in {"OPEN", "RESOLVED", "CLOSED"}
    BY DEF ConvInv, Opens, WriteStatus, Does
<1>2. conv' = [status |-> to, resolvedAt |-> to = "RESOLVED", closedAt |-> to = "CLOSED"]
    BY DEF WriteStatus
<1>3. conv' \in Conv /\ DatesTellStatus' /\ conv'.status # "NONE"
    BY <1>1, <1>2 DEF Conv, DatesTellStatus
<1>4. Then(c, Idle) /\ UNCHANGED <<account, assigned, role, share>>
    BY DEF WriteStatus
<1>5. RequesterTakesPart'
    BY <1>1, <1>4 DEF ConvInv, RequesterTakesPart
<1>6. Paired(Idle) /\ Idle.shares = NoShares /\ Idle.kind = "idle" /\ Idle \in Request
    BY IdleFacts DEF Idle, Begun
<1> QED BY <1>1, <1>3, <1>4, <1>5, <1>6, ThereFree, Writes DEF ConvInv, TypeOK

LEMMA JoinConv ==
    ASSUME ConvInv, NEW c \in Clients, Join(c)
    PROVE  ConvInv'
<1>1. role' \in [Users -> Roles] /\ RequesterTakesPart'
    BY DEF Join, ConvInv, TypeOK, Roles, RequesterTakesPart, Users
<1>2. Then(c, Idle) /\ UNCHANGED <<account, assigned, conv, share>>
    BY DEF Join
<1>3. DatesTellStatus'
    BY <1>2 DEF ConvInv, DatesTellStatus
<1>4. Paired(Idle) /\ Idle.shares = NoShares /\ Idle.kind = "idle" /\ Idle \in Request
    BY IdleFacts DEF Idle, Begun
<1> QED BY <1>1, <1>2, <1>3, <1>4, ThereFree, Writes DEF ConvInv, TypeOK

LEMMA AskShareConv ==
    ASSUME ConvInv, NEW c \in Clients, AskShare(c)
    PROVE  ConvInv'
<1> DEFINE r == request[c]
           next == [r EXCEPT !.step = "open"]
<1>1. r \in Request /\ Paired(r) /\ r.kind = "ask" /\ r.step = "begun"
    BY DEF ConvInv, TypeOK, AskShare, Does
<1>2. Then(c, next) /\ UNCHANGED <<account, assigned, conv, role>>
    BY DEF AskShare
<1>3. /\ next \in Request /\ next.kind = "ask" /\ next.step = "open" /\ next.shares = NoShares
      /\ next.roles = NoRoles /\ next.todo = r.todo /\ next.want = r.want
    BY <1>1 DEF Request, Paired
<1> HIDE DEF next
<1>4. Paired(next)
    BY <1>1, <1>3 DEF Paired, NoShares, NoRoles, Users
<1>5. share' \in [Managers -> Shares]
    BY DEF AskShare, ConvInv, TypeOK, Shares
<1>6. RequesterTakesPart' /\ DatesTellStatus'
    BY <1>2 DEF ConvInv, RequesterTakesPart, DatesTellStatus
<1> QED BY <1>2, <1>3, <1>4, <1>5, <1>6, ThereFree, Writes DEF ConvInv, TypeOK

LEMMA AskOpenConv ==
    ASSUME ConvInv, NEW c \in Clients, AskOpen(c)
    PROVE  ConvInv'
<1> DEFINE r == request[c]
<1>1. r \in Request /\ r.want \subseteq Managers
    BY DEF ConvInv, TypeOK, Request
<1>2. conv' = [status |-> "OPEN", resolvedAt |-> FALSE, closedAt |-> FALSE] /\ ConvFree(c)
    BY DEF AskOpen
<1>3. conv' \in Conv /\ DatesTellStatus' /\ conv'.status # "NONE"
    BY <1>2 DEF Conv, DatesTellStatus
<1>4. role' \in [Users -> Roles] /\ role'[Collaborator] = "REQUESTER"
    BY <1>1, UsersAssumption DEF AskOpen, ConvInv, TypeOK, Roles, Users
<1>5. RequesterTakesPart'
    BY <1>4 DEF RequesterTakesPart
<1>6. Then(c, Idle) /\ UNCHANGED <<account, assigned, share>>
    BY DEF AskOpen
<1>7. Paired(Idle) /\ Idle.shares = NoShares /\ Idle.kind = "idle" /\ Idle \in Request
    BY IdleFacts DEF Idle, Begun
<1> QED BY <1>2, <1>3, <1>4, <1>5, <1>6, <1>7, Writes DEF ConvInv, TypeOK

LEMMA RevokeTypes ==
    ASSUME TypeOK, NEW S, Revoke(S)
    PROVE  /\ role' \in [Users -> Roles] /\ share' \in [Managers -> Shares]
           /\ role[Collaborator] = "REQUESTER" => role'[Collaborator] = "REQUESTER"
BY DEF Revoke, TypeOK, Roles, Shares, Users

LEMMA WriteAccountConv ==
    ASSUME ConvInv, NEW c \in Clients, WriteAccount(c)
    PROVE  ConvInv'
<1> DEFINE r == request[c]
<1>1. Then(c, Idle) /\ conv' = conv
    BY DEF WriteAccount
<1>2. account' \in [Managers -> [manager : BOOLEAN, active : BOOLEAN]]
    <2>1. r \in Request /\ r.change \in Changes
        BY DEF ConvInv, TypeOK, Opens, WriteAccount, Does
    <2>2. \A m \in Managers : Updated(account[m], r.change) \in [manager : BOOLEAN, active : BOOLEAN]
        BY <2>1 DEF Updated, Changes, ConvInv, TypeOK
    <2> QED BY <2>2 DEF WriteAccount, ConvInv, TypeOK
<1>3. /\ assigned' \subseteq Managers /\ role' \in [Users -> Roles] /\ share' \in [Managers -> Shares]
      /\ role[Collaborator] = "REQUESTER" => role'[Collaborator] = "REQUESTER"
    BY RevokeTypes DEF WriteAccount, ConvInv, TypeOK
<1>4. RequesterTakesPart' /\ DatesTellStatus'
    BY <1>1, <1>3 DEF ConvInv, RequesterTakesPart, DatesTellStatus
<1>5. Paired(Idle) /\ Idle.shares = NoShares /\ Idle.kind = "idle" /\ Idle \in Request
    BY IdleFacts DEF Idle, Begun
<1> QED BY <1>1, <1>2, <1>3, <1>4, <1>5, ThereFree, Writes DEF ConvInv, TypeOK

LEMMA WriteManagersConv ==
    ASSUME ConvInv, NEW c \in Clients, WriteManagers(c)
    PROVE  ConvInv'
<1>1. Then(c, Idle) /\ UNCHANGED <<account, conv>>
    BY DEF WriteManagers
<1>2. /\ assigned' \subseteq Managers /\ role' \in [Users -> Roles] /\ share' \in [Managers -> Shares]
      /\ role[Collaborator] = "REQUESTER" => role'[Collaborator] = "REQUESTER"
    BY RevokeTypes DEF WriteManagers, ConvInv, TypeOK, Request
<1>3. RequesterTakesPart' /\ DatesTellStatus'
    BY <1>1, <1>2 DEF ConvInv, RequesterTakesPart, DatesTellStatus
<1>4. Paired(Idle) /\ Idle.shares = NoShares /\ Idle.kind = "idle" /\ Idle \in Request
    BY IdleFacts DEF Idle, Begun
<1> QED BY <1>1, <1>2, <1>3, <1>4, ThereFree, Writes DEF ConvInv, TypeOK

-----------------------------------------------------------------------------
(* The writes and who decides *)

LEMMA Alone ==
    ASSUME AccessInv, NEW c \in Clients, request[c].kind \in Solitary
    PROVE  \A d \in Clients \ {c} : request[d] = Idle
BY IdleFacts DEF AccessInv, Compatible, Solitary

\* A request that is alone has written.
LEMMA AloneWrites ==
    ASSUME TypeOK, AccessInv, NEW c \in Clients, NEW next \in Request, Then(c, next),
           request[c].kind \in Solitary, next.kind \in {"idle", request[c].kind},
           (Chosen(request[c]) /\ Removes(request[c]))',
           (AssignedManage /\ AccessFollowsAssignment /\ DecisionMakersHaveLink)'
    PROVE  AccessInv'
<1>1. \A d \in Clients \ {c} : request[d] = Idle
    BY Alone
<1>2. \A d \in Clients : Compatible(d, request[d])'
    <2>1. Compatible(c, next)
        BY <1>1 DEF Compatible
    <2> QED BY <2>1, Others DEF AccessInv, TypeOK
<1>3. \A d \in Clients \ {c} : request'[d] = Idle
    BY <1>1 DEF Then, TypeOK
<1>4. \A d \in Clients : (Chosen(request[d]) /\ Removes(request[d]))'
    <2>1. Idle.kind = "idle" /\ Idle.step = "begun"
        BY IdleFacts DEF Fresh
    <2> QED BY <1>3, <2>1 DEF Chosen, Removes
<1> QED BY <1>2, <1>4 DEF AccessInv

\* A request of another kind has ended, and written roles and links.
LEMMA SharedWrites ==
    ASSUME TypeOK, AccessInv, NEW c \in Clients, Then(c, Idle), UNCHANGED <<account, assigned>>,
           request[c] # Idle, request[c].kind \notin Solitary,
           \A d \in Clients \ {c} : Removes(request[d])',
           (AccessFollowsAssignment /\ DecisionMakersHaveLink)'
    PROVE  AccessInv'
<1>0. Idle \in Request /\ Idle.kind = "idle" /\ Idle.step = "begun"
    BY IdleFacts DEF Fresh
<1>1. \A d \in Clients : request'[d] = IF d = c THEN Idle ELSE request[d]
    BY DEF Then, TypeOK
<1>2. \A d \in Clients : Compatible(d, request[d])'
    <2>1. Compatible(c, Idle)
        BY DEF Compatible
    <2> QED BY <1>0, <2>1, Others DEF AccessInv, TypeOK
<1>3. \A d \in Clients \ {c} : request[d].kind \notin Solitary
    BY <1>0 DEF AccessInv, Compatible, Solitary
<1>4. \A d \in Clients : Chosen(request[d])'
    BY <1>0, <1>1, <1>3 DEF AccessInv, Chosen, Solitary
<1>5. \A d \in Clients : Removes(request[d])'
    BY <1>0, <1>1 DEF Removes
<1>6. AssignedManage'
    BY DEF AccessInv, AssignedManage
<1> QED BY <1>2, <1>4, <1>5, <1>6 DEF AccessInv

LEMMA CommitAccess ==
    ASSUME ConvInv, AccessInv, NEW c \in Clients, Commit(c)
    PROVE  AccessInv'
<1> DEFINE r == request[c]
<1>1. r \in Request /\ Paired(r) /\ Chosen(r) /\ Removes(r)
    BY DEF ConvInv, AccessInv, TypeOK
<1>2. r.step = "adding" /\ r.todo = {} /\ Then(c, Idle) /\ UNCHANGED <<account, assigned>>
    BY DEF Commit
<1>3. r.kind \in {"create", "participants"} /\ r # Idle
    BY <1>1, <1>2, IdleFacts DEF Paired
<1>4. /\ \A m \in Managers : role'[m] = Over(r.roles[m], role[m])
      /\ \A m \in Managers : share'[m] = Over(r.shares[m], share[m])
    BY DEF Commit, Merged, ConvInv, TypeOK, Users
<1>5. \A m \in Managers : r.roles[m] = "DECISION_MAKER" => m \in r.want /\ r.shares[m] = "ON"
    BY <1>1, <1>2 DEF Paired
<1>6. \A m \in Managers : r.shares[m] = "ON" => m \in r.want
    BY <1>1 DEF Paired
<1>7. \A m \in r.want : m \in assigned
    BY <1>1, <1>3 DEF Chosen
<1>8. AccessFollowsAssignment'
    <2>1. \A m \in assigned : account[m].active /\ account[m].manager
        BY DEF AccessInv, AssignedManage
    <2> QED BY <1>2, <1>4, <1>5, <1>6, <1>7, <2>1 DEF AccessFollowsAssignment, AccessInv, Over
<1>9. DecisionMakersHaveLink'
    <2>1. r.shares \in [Managers -> Shares \cup {"SAME"}]
        BY <1>1 DEF Request
    <2>2. SUFFICES ASSUME NEW m \in Managers, role'[m] = "DECISION_MAKER" PROVE share'[m] = "ON"
        BY DEF DecisionMakersHaveLink
    <2>3. CASE r.roles[m] = "DECISION_MAKER"
        BY <1>4, <1>5, <2>3 DEF Over
    <2>4. CASE r.roles[m] = "SAME"
        <3>1. role[m] = "DECISION_MAKER" /\ share[m] = "ON"
            BY <1>4, <2>2, <2>4 DEF Over, AccessInv, DecisionMakersHaveLink
        <3>2. r.shares[m] # "OFF"
            BY <1>1, <1>2, <2>4, <3>1 DEF Removes
        <3>3. r.shares[m] # "NONE"
            BY <1>1 DEF Paired
        <3> QED BY <1>4, <2>1, <3>1, <3>2, <3>3 DEF Over, Shares
    <2> QED BY <1>4, <2>2, <2>3, <2>4 DEF Over
<1>10. ASSUME NEW d \in Clients \ {c} PROVE Removes(request[d])'
    <2>1. request'[d] = request[d] /\ Removes(request[d])
        BY <1>2 DEF Then, ConvInv, AccessInv, TypeOK
    <2>2. \A m \in Managers : request[d].shares[m] = "OFF" => r.roles[m] # "DECISION_MAKER"
        BY <1>5 DEF ConvInv, Locks
    <2> QED BY <1>4, <2>1, <2>2 DEF Removes, Over
<1> QED BY <1>2, <1>3, <1>8, <1>9, <1>10, SharedWrites DEF ConvInv, Solitary

LEMMA StatusAccess ==
    ASSUME TypeOK, AccessInv, NEW c \in Clients, WriteStatus(c)
    PROVE  AccessInv'
<1>1. /\ Then(c, Idle) /\ UNCHANGED <<account, assigned, role, share>> /\ request[c].kind = "status"
    BY DEF WriteStatus, Does
<1>2. \A d \in Clients \ {c} : Removes(request[d])'
    BY <1>1 DEF Then, TypeOK, AccessInv, Removes
<1>3. (AccessFollowsAssignment /\ DecisionMakersHaveLink)'
    BY <1>1 DEF AccessInv, AccessFollowsAssignment, DecisionMakersHaveLink
<1> QED BY <1>1, <1>2, <1>3, IdleFacts, SharedWrites DEF Solitary

LEMMA JoinAccess ==
    ASSUME TypeOK, AccessInv, NEW c \in Clients, Join(c)
    PROVE  AccessInv'
<1>1. Then(c, Idle) /\ UNCHANGED <<account, assigned, share>> /\ request[c].kind = "reply"
    BY DEF Join, Does
<1>2. \A m \in Managers : role'[m] = "DECISION_MAKER" => role[m] = "DECISION_MAKER"
    BY DEF Join, TypeOK, Users
<1>3. \A d \in Clients \ {c} : Removes(request[d])'
    BY <1>1, <1>2 DEF Then, TypeOK, AccessInv, Removes
<1>4. (AccessFollowsAssignment /\ DecisionMakersHaveLink)'
    BY <1>1, <1>2 DEF AccessInv, AccessFollowsAssignment, DecisionMakersHaveLink
<1> QED BY <1>1, <1>3, <1>4, IdleFacts, SharedWrites DEF Solitary

LEMMA AskShareAccess ==
    ASSUME ConvInv, AccessInv, NEW c \in Clients, AskShare(c)
    PROVE  AccessInv'
<1>1. /\ request[c] \in Request /\ Chosen(request[c])
      /\ request[c].kind = "ask" /\ request[c].want \subseteq assigned
    BY DEF ConvInv, TypeOK, AccessInv, Chosen, AskShare, Does
<1>2. PICK next : next = [request[c] EXCEPT !.step = "open"]
    OBVIOUS
<1>3. Then(c, next) /\ UNCHANGED <<account, assigned, conv, role>>
    BY <1>2 DEF AskShare
<1>4. /\ next \in Request /\ next.kind = "ask" /\ next.step = "open" /\ next.want = request[c].want
    BY <1>1, <1>2 DEF Request
<1>5. request'[c] = next
    BY <1>3 DEF Then, ConvInv, TypeOK
<1>6. \A m \in Managers : share'[m] = IF m \in request[c].want THEN "ON" ELSE share[m]
    BY DEF AskShare
<1>7. \A m \in next.want : m \in Managers /\ share'[m] = "ON" /\ m \in assigned'
    BY <1>1, <1>3, <1>4, <1>6 DEF ConvInv, TypeOK
<1>8. (Chosen(request[c]) /\ Removes(request[c]))'
    BY <1>4, <1>5, <1>7 DEF Chosen, Removes
<1>9. (AssignedManage /\ AccessFollowsAssignment /\ DecisionMakersHaveLink)'
    BY <1>1, <1>3, <1>6
       DEF AccessInv, AssignedManage, AccessFollowsAssignment, DecisionMakersHaveLink
<1> QED BY <1>1, <1>3, <1>4, <1>8, <1>9, AloneWrites DEF ConvInv, Solitary

\* What a request that ends leaves to do.
LEMMA EndedFacts ==
    ASSUME TypeOK, NEW c \in Clients, Then(c, Idle)
    PROVE  (Chosen(request[c]) /\ Removes(request[c]))'
<1>1. request'[c] = Idle /\ Idle.kind = "idle" /\ Idle.step = "begun"
    BY IdleFacts DEF Then, TypeOK, Fresh
<1> QED BY <1>1 DEF Chosen, Removes

LEMMA AskOpenAccess ==
    ASSUME ConvInv, AccessInv, NEW c \in Clients, AskOpen(c)
    PROVE  AccessInv'
<1> DEFINE r == request[c]
<1>1. /\ r \in Request /\ r.kind = "ask" /\ r.want \subseteq assigned /\ r.want \subseteq Managers
      /\ \A m \in r.want : share[m] = "ON"
    BY DEF ConvInv, TypeOK, Request, AccessInv, Chosen, AskOpen, Does
<1>2. Then(c, Idle) /\ UNCHANGED <<account, assigned, share>>
    BY DEF AskOpen
<1>3. \A m \in Managers : role'[m] = "DECISION_MAKER" => m \in r.want \/ role[m] = "DECISION_MAKER"
    BY UsersAssumption DEF AskOpen, Users
<1>4. (AssignedManage /\ AccessFollowsAssignment /\ DecisionMakersHaveLink)'
    BY <1>1, <1>2, <1>3
       DEF AccessInv, AssignedManage, AccessFollowsAssignment, DecisionMakersHaveLink
<1> QED BY <1>1, <1>2, <1>4, EndedFacts, IdleFacts, AloneWrites DEF ConvInv, Solitary

\* Who lost his access has neither place nor link, the others keep both.
LEMMA Revoked ==
    ASSUME TypeOK, NEW S, Revoke(S), NEW m \in Managers
    PROVE  /\ m \in S => role'[m] # "DECISION_MAKER" /\ share'[m] # "ON"
           /\ m \notin S => role'[m] = role[m] /\ share'[m] = share[m]
<1>1. role'[m] = IF m \in S /\ role[m] = "DECISION_MAKER" THEN "NONE" ELSE role[m]
    BY DEF Revoke, Users
<1>2. share'[m] = IF m \in S /\ share[m] # "NONE" THEN "OFF" ELSE share[m]
    BY DEF Revoke
<1> QED BY <1>1, <1>2

LEMMA WriteAccountAccess ==
    ASSUME ConvInv, AccessInv, NEW c \in Clients, WriteAccount(c)
    PROVE  AccessInv'
<1> DEFINE r == request[c]
<1>1. /\ r.kind = "account" /\ r.change \in Changes
      /\ \A m \in r.want : r.wasManager = account[m].manager
      /\ Then(c, Idle)
    BY DEF ConvInv, Opens, AccessInv, Chosen, WriteAccount, Does
<1>2. \A m \in Managers :
          account'[m] = IF m \in r.want THEN Updated(account[m], r.change) ELSE account[m]
    BY DEF WriteAccount
<1>3. \A m \in assigned : account[m].active /\ account[m].manager /\ m \in Managers
    BY DEF AccessInv, AssignedManage, ConvInv, TypeOK
<1>4. CASE Revokes(r)
    <2>1. assigned' = assigned \ r.want /\ Revoke(r.want \cap assigned)
        BY <1>4 DEF WriteAccount
    <2>2. AssignedManage'
        BY <1>2, <1>3, <2>1 DEF AssignedManage
    <2>3. ASSUME NEW m \in Managers
          PROVE  /\ m \in r.want \cap assigned => role'[m] # "DECISION_MAKER" /\ share'[m] # "ON"
                 /\ m \notin r.want \cap assigned => role'[m] = role[m] /\ share'[m] = share[m]
        BY <2>1, Revoked DEF ConvInv
    <2>4. AccessFollowsAssignment'
        BY <1>2, <1>3, <2>1, <2>3 DEF AccessInv, AccessFollowsAssignment
    <2>5. DecisionMakersHaveLink'
        BY <2>3 DEF AccessInv, DecisionMakersHaveLink
    <2> QED BY <1>1, <2>2, <2>4, <2>5, EndedFacts, IdleFacts, AloneWrites DEF ConvInv, Solitary
<1>5. CASE ~Revokes(r)
    <2>1. UNCHANGED <<assigned, role, share>>
        BY <1>5 DEF WriteAccount
    <2>2. \A m \in assigned : account'[m].active /\ account'[m].manager
        <3>1. SUFFICES ASSUME NEW m \in assigned, m \in r.want
                       PROVE  account'[m].active /\ account'[m].manager
            BY <1>2, <1>3
        <3>2. r.change \in {"promote", "activate"}
            BY <1>1, <1>3, <1>5, <3>1 DEF Revokes, Changes
        <3>3. account[m] \in [manager : BOOLEAN, active : BOOLEAN] /\ m \in Managers
            BY DEF ConvInv, TypeOK
        <3> QED BY <1>2, <1>3, <3>1, <3>2, <3>3 DEF Updated
    <2>3. AssignedManage' /\ AccessFollowsAssignment'
        BY <2>1, <2>2 DEF AssignedManage, AccessInv, AccessFollowsAssignment
    <2>4. DecisionMakersHaveLink'
        BY <2>1 DEF AccessInv, DecisionMakersHaveLink
    <2> QED BY <1>1, <2>3, <2>4, EndedFacts, IdleFacts, AloneWrites DEF ConvInv, Solitary
<1> QED BY <1>4, <1>5

LEMMA WriteManagersAccess ==
    ASSUME ConvInv, AccessInv, NEW c \in Clients, WriteManagers(c)
    PROVE  AccessInv'
<1> DEFINE r == request[c]
<1>1. /\ r.kind = "managers" /\ \A m \in r.want : account[m].active /\ account[m].manager
      /\ Then(c, Idle) /\ account' = account
    BY DEF AccessInv, Chosen, WriteManagers, Does
<1>2. assigned' = r.want /\ Revoke(assigned \ r.want)
    BY DEF WriteManagers
<1>3. ASSUME NEW m \in Managers
      PROVE  /\ m \in assigned \ r.want => role'[m] # "DECISION_MAKER" /\ share'[m] # "ON"
             /\ m \notin assigned \ r.want => role'[m] = role[m] /\ share'[m] = share[m]
    BY <1>2, Revoked DEF ConvInv
<1>4. AssignedManage'
    BY <1>1, <1>2 DEF AssignedManage
<1>5. AccessFollowsAssignment'
    BY <1>1, <1>2, <1>3 DEF AccessInv, AccessFollowsAssignment
<1>6. DecisionMakersHaveLink'
    BY <1>3 DEF AccessInv, DecisionMakersHaveLink
<1> QED BY <1>1, <1>4, <1>5, <1>6, EndedFacts, IdleFacts, AloneWrites DEF ConvInv, Solitary

-----------------------------------------------------------------------------
(* The theorems *)

Wrote(c) ==
    \/ Commit(c) \/ WriteStatus(c) \/ Join(c) \/ AskShare(c) \/ AskOpen(c)
    \/ WriteAccount(c) \/ WriteManagers(c)

LEMMA Steps ==
    ASSUME Next
    PROVE  \E c \in Clients : Read(c) \/ Pending(c) \/ Wrote(c)
BY DEF Next, Read, Pending, Wrote

LEMMA ConvStarts == Init => ConvInv
<1> SUFFICES ASSUME Init PROVE ConvInv
    OBVIOUS
<1>1. \A c \in Clients : request[c] = Idle
    BY DEF Init
<1>2. Idle \in Request /\ Paired(Idle) /\ Opens(Idle) /\ Idle.kind = "idle" /\ Idle.shares = NoShares
    BY IdleFacts DEF Fresh
<1>3. TypeOK
    BY <1>2 DEF Init, TypeOK, Conv, Roles, Shares
<1>4. Locks /\ OneCreation
    BY <1>1, <1>2 DEF Locks, OneCreation, NoShares
<1>5. RequesterTakesPart /\ DatesTellStatus
    BY DEF Init, RequesterTakesPart, DatesTellStatus
<1>6. \A c \in Clients : Paired(request[c]) /\ Opens(request[c])
    BY <1>1, <1>2
<1> QED BY <1>3, <1>4, <1>5, <1>6 DEF ConvInv

LEMMA AccessStarts == Init => AccessInv
<1> SUFFICES ASSUME Init PROVE AccessInv
    OBVIOUS
<1>1. \A c \in Clients : request[c] = Idle
    BY DEF Init
<1>2. \A c \in Clients : Chosen(request[c]) /\ Removes(request[c]) /\ Compatible(c, request[c])
    BY <1>1, IdleFacts
<1>3. AssignedManage /\ AccessFollowsAssignment /\ DecisionMakersHaveLink
    BY DEF Init, AssignedManage, AccessFollowsAssignment, DecisionMakersHaveLink, Users
<1> QED BY <1>2, <1>3 DEF AccessInv

LEMMA ConvStep == ConvInv /\ [Next]_vars => ConvInv'
<1> SUFFICES ASSUME ConvInv, [Next]_vars PROVE ConvInv'
    OBVIOUS
<1>1. CASE Next
    <2>1. PICK c \in Clients : Read(c) \/ Pending(c) \/ Wrote(c)
        BY <1>1, Steps
    <2>2. CASE Wrote(c)
        BY <2>2, CommitConv, WriteStatusConv, JoinConv, AskShareConv, AskOpenConv,
           WriteAccountConv, WriteManagersConv DEF Wrote
    <2> QED BY <2>1, <2>2, ReadsKeep, StatementsKeep
<1>2. CASE UNCHANGED vars
    BY <1>2 DEF vars, ConvInv, TypeOK, Paired, Opens, Locks, OneCreation, ConvFree,
       RequesterTakesPart, DatesTellStatus
<1> QED BY <1>1, <1>2

LEMMA AccessStep == Apart /\ ConvInv /\ AccessInv /\ [Next]_vars => AccessInv'
<1> SUFFICES ASSUME Apart, ConvInv, AccessInv, [Next]_vars PROVE AccessInv'
    OBVIOUS
<1>0. TypeOK
    BY DEF ConvInv
<1>1. CASE Next
    <2>1. PICK c \in Clients : Read(c) \/ Pending(c) \/ Wrote(c)
        BY <1>1, Steps
    <2>2. CASE Wrote(c)
        BY <1>0, <2>2, CommitAccess, StatusAccess, JoinAccess, AskShareAccess, AskOpenAccess,
           WriteAccountAccess, WriteManagersAccess DEF Wrote
    <2> QED BY <2>1, <2>2, ReadsKeep, StatementsKeep
<1>2. CASE UNCHANGED vars
    BY <1>2 DEF vars, AccessInv, Chosen, Removes, Compatible, AssignedManage,
       AccessFollowsAssignment, DecisionMakersHaveLink
<1> QED BY <1>1, <1>2

\* However requests overlap and fail, ConvInv holds.
LEMMA ConvHolds == Spec => []ConvInv
BY ConvStarts, ConvStep, PTL DEF Spec

LEMMA AccessHolds == Apart => (Spec => []AccessInv)
<1> SUFFICES ASSUME Apart PROVE Spec => []AccessInv
    OBVIOUS
<1>1. ConvInv /\ AccessInv /\ [Next]_vars => (ConvInv /\ AccessInv)'
    BY ConvStep, AccessStep
<1> QED BY <1>1, ConvStarts, AccessStarts, PTL DEF Spec

\* Every variable of Conversation keeps its type, whichever requests overlap.
THEOREM TypeCorrect == Spec => []TypeOK
<1>1. ConvInv => TypeOK
    BY DEF ConvInv
<1> QED BY <1>1, ConvHolds, PTL

\* The collaborator is the requester of any conversation, although three handlers of two
\* services may create it.
THEOREM RequesterAlways == Spec => []RequesterTakesPart
<1>1. ConvInv => RequesterTakesPart
    BY DEF ConvInv
<1> QED BY <1>1, ConvHolds, PTL

\* updateStatus and sendDecisionRequestEmail keep the dates in step with the status.
THEOREM DatesAlwaysTell == Spec => []DatesTellStatus
<1>1. ConvInv => DatesTellStatus
    BY DEF ConvInv
<1> QED BY <1>1, ConvHolds, PTL

\* The writes of create and updateParticipants give no access to who is not, or no longer,
\* an active manager of the collaborator, and users.service.ts takes all of it back.
THEOREM AccessAlwaysFollows == Apart => (Spec => []AccessFollowsAssignment)
<1> SUFFICES ASSUME Apart PROVE Spec => []AccessFollowsAssignment
    OBVIOUS
<1>1. AccessInv => AccessFollowsAssignment
    BY DEF AccessInv
<1> QED BY <1>1, AccessHolds, PTL

\* Overlapping updates of the participants, which disable links before they remove
\* participants, leave nobody who decides without a link.
THEOREM LinksForMakers == Apart => (Spec => []DecisionMakersHaveLink)
<1> SUFFICES ASSUME Apart PROVE Spec => []DecisionMakersHaveLink
    OBVIOUS
<1>1. AccessInv => DecisionMakersHaveLink
    BY DEF AccessInv
<1> QED BY <1>1, AccessHolds, PTL

=============================================================================

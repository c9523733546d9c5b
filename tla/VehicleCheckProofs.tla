------------------------- MODULE VehicleCheckProofs -------------------------
(***************************************************************************)
(* For any number of interleaved requests, any supply of line ids and any  *)
(* forms: the state is well typed, the dates match the status and a        *)
(* recovery is announced once.                                             *)
(***************************************************************************)
EXTENDS VehicleCheck, TLAPS

-----------------------------------------------------------------------------
(* Type correctness *)

\* A request carries the fields of its step.
LEMMA RequestFields ==
    ASSUME NEW r \in Request
    PROVE  /\ r.step = "finalize" =>
                /\ r.mode \in UNION {[S -> ExecutionModes] : S \in SUBSET ItemIds}
                /\ r.done \subseteq ItemIds /\ r.counted \subseteq ItemIds
                /\ r.closes \in BOOLEAN
           /\ r.step \in {"update", "updateCommit"} => r.draft \in BOOLEAN
           /\ r.step = "updateCommit" => r.seen \subseteq ItemIds
           /\ r.step \in {"findShare", "writeShare"} => r.mailing \in BOOLEAN
           /\ r.step = "mail" => r.taken \in BOOLEAN
           /\ r.step = "recover" => r.mark \in BOOLEAN /\ r.completes \in BOOLEAN
           /\ r.step \in {"notify", "notifyWrite"} => r.type \in EventTypes
           /\ r.step \in {"execute", "order", "operate"} => r.id \in ItemIds
           /\ r.step = "execute" => r.completed \in BOOLEAN
           /\ r.step = "order" => r.body \in PartOrders
           /\ r.step = "operate" => r.active \in BOOLEAN /\ r.counted \subseteq ItemIds
  <1>1. CASE r = Idle
    BY <1>1 DEF Idle
  <1>2. CASE r \in [step : {"complete", "takeCharge", "markTaken", "settle", "settleWrite"}]
    BY <1>2
  <1>3. CASE r \in [step : {"finalize"},
                    mode : UNION {[S -> ExecutionModes] : S \in SUBSET ItemIds},
                    done : SUBSET ItemIds, counted : SUBSET ItemIds, closes : BOOLEAN]
    BY <1>3
  <1>4. CASE r \in [step : {"update"}, draft : BOOLEAN]
    BY <1>4
  <1>5. CASE r \in [step : {"updateCommit"}, draft : BOOLEAN, seen : SUBSET ItemIds]
    BY <1>5
  <1>6. CASE r \in [step : {"findShare"}, mailing : BOOLEAN]
    BY <1>6
  <1>7. CASE r \in [step : {"writeShare"}, mailing : BOOLEAN,
                    found : {"none", "disabled", "enabled"}]
    BY <1>7
  <1>8. CASE r \in [step : {"mail"}, taken : BOOLEAN]
    BY <1>8
  <1>9. CASE r \in [step : {"recover"}, mark : BOOLEAN, completes : BOOLEAN]
    BY <1>9
  <1>10. CASE r \in [step : {"notify", "notifyWrite"}, type : EventTypes]
    BY <1>10
  <1>11. CASE r \in [step : {"execute"}, id : ItemIds, completed : BOOLEAN]
    BY <1>11
  <1>12. CASE r \in [step : {"order"}, id : ItemIds, body : PartOrders]
    BY <1>12
  <1>13. CASE r \in [step : {"operate"}, id : ItemIds, active : BOOLEAN,
                     counted : SUBSET ItemIds]
    BY <1>13
  <1> QED
    BY <1>1, <1>2, <1>3, <1>4, <1>5, <1>6, <1>7, <1>8, <1>9, <1>10, <1>11, <1>12, <1>13
    DEF Request

\* Moving a request to a well-formed step keeps request well typed.
LEMMA ThenType ==
    ASSUME request \in [Clients -> Request], NEW c \in Clients,
           NEW next \in Request, Then(c, next)
    PROVE  request' \in [Clients -> Request]
  BY DEF Then

\* A submitted line is inserted as a well-formed item.
LEMMA NewItemType ==
    ASSUME NEW line \in NewLines
    PROVE  NewItem(line) \in Item
  BY NewLinesAssumption DEF NewItem, Item, PartOrderStatuses

LEMMA InitType == Init => TypeOK
  <1> SUFFICES ASSUME Init PROVE TypeOK
    OBVIOUS
  <1>1. PICK content \in [issued -> NewLines] : items = [i \in issued |-> NewItem(content[i])]
    BY DEF Init
  <1>2. DOMAIN items \subseteq issued /\ items \in [DOMAIN items -> Item]
    BY <1>1, NewItemType
  <1>3. request \in [Clients -> Request]
    BY DEF Init, Request
  <1>4. share \in Share
    BY DEF Init, Share, NoShare
  <1>5. notices \in [EventTypes -> Nat]
    BY DEF Init
  <1> QED
    BY <1>2, <1>3, <1>4, <1>5 DEF Init, TypeOK, Statuses

\* An action that only moves its request keeps the types.
LEMMA ReadType ==
    ASSUME TypeOK, NEW c \in Clients, NEW next \in Request, Then(c, next),
           UNCHANGED <<dossier, lines, share, notices>>
    PROVE  TypeOK'
  <1>1. request' \in [Clients -> Request]
    BY ThenType DEF TypeOK
  <1> QED
    BY <1>1 DEF TypeOK, dossier, dates, lines

LEMMA IdleType == Idle \in Request
  BY DEF Request

LEMMA FailType ==
    ASSUME TypeOK, NEW c \in Clients, Fail(c)
    PROVE  TypeOK'
  BY IdleType, ReadType DEF Fail

LEMMA ReadsType ==
    ASSUME TypeOK, NEW c \in Clients,
           \/ CompleteRead(c) \/ UpdateRead(c) \/ UpdateDelete(c) \/ FinalizeRead(c)
           \/ ShareRead(c, TRUE) \/ ShareRead(c, FALSE) \/ ShareFind(c) \/ SendMail(c)
           \/ TakeChargeRead(c) \/ RecoverRead(c) \/ NotifyRead(c)
           \/ ExecuteRead(c) \/ OrderRead(c) \/ SettleRead(c) \/ OperateRead(c)
    PROVE  TypeOK'
  <1> DEFINE r == request[c]
  <1>0. r \in Request /\ DOMAIN items \subseteq ItemIds /\ Kept \subseteq ItemIds
    BY DEF TypeOK, Kept
  <1>1. CASE CompleteRead(c)
    <2>1. [step |-> "complete"] \in Request
      BY DEF Request
    <2> QED
      BY <1>1, <2>1, ReadType DEF CompleteRead
  <1>2. CASE UpdateRead(c)
    <2>1. [step |-> "update", draft |-> status = "DRAFT"] \in Request
      BY DEF Request
    <2> QED
      BY <1>2, <2>1, ReadType DEF UpdateRead
  <1>3. CASE UpdateDelete(c)
    <2>1. [step |-> "updateCommit", draft |-> r.draft, seen |-> DOMAIN items] \in Request
      BY <1>0, <1>3, RequestFields DEF Request, UpdateDelete, Does
    <2> QED
      BY <1>3, <2>1, ReadType DEF UpdateDelete
  <1>4. CASE FinalizeRead(c)
    <2>1. PICK kept \in SUBSET DOMAIN items : \E mode \in [kept -> ExecutionModes] :
                   Then(c, FinalizePlan(mode))
      BY <1>4 DEF FinalizeRead
    <2>2. PICK mode \in [kept -> ExecutionModes] : Then(c, FinalizePlan(mode))
      BY <2>1
    <2>3. /\ kept \in SUBSET ItemIds
          /\ mode \in UNION {[S -> ExecutionModes] : S \in SUBSET ItemIds}
      BY <1>0, <2>2
    <2>4. FinalizePlan(mode) \in Request
      BY <2>2, <2>3 DEF FinalizePlan, ClosesWithoutDamage, Request
    <2> QED
      BY <1>4, <2>2, <2>4, ReadType DEF FinalizeRead
  <1>5. ASSUME NEW mailing \in BOOLEAN, ShareRead(c, mailing) PROVE TypeOK'
    <2>1. [step |-> "findShare", mailing |-> mailing] \in Request
      BY DEF Request
    <2> QED
      BY <1>5, <2>1, ReadType DEF ShareRead
  <1>6. CASE ShareFind(c)
    <2> DEFINE found == IF ~share.exists THEN "none"
                        ELSE IF share.enabled THEN "enabled" ELSE "disabled"
    <2>1. [step |-> "writeShare", mailing |-> r.mailing, found |-> found] \in Request
      BY <1>0, <1>6, RequestFields DEF Request, ShareFind, Does
    <2> QED
      BY <1>6, <2>1, ReadType DEF ShareFind
  <1>7. CASE SendMail(c)
    <2>1. [step |-> "markTaken"] \in Request
      BY DEF Request
    <2> QED
      BY <1>7, <2>1, IdleType, ReadType DEF SendMail
  <1>8. CASE TakeChargeRead(c)
    <2>1. [step |-> "takeCharge"] \in Request
      BY DEF Request
    <2> QED
      BY <1>8, <2>1, ReadType DEF TakeChargeRead
  <1>9. CASE RecoverRead(c)
    <2> DEFINE next == [step |-> "recover", mark |-> ~share.recovered,
                        completes |-> status # "COMPLETED" /\ PendingOnSite = {}]
    <2>1. next \in Request
      BY DEF Request
    <2> QED
      BY <1>9, <2>1, ReadType DEF RecoverRead
  <1>10. CASE NotifyRead(c)
    <2>1. [step |-> "notifyWrite", type |-> r.type] \in Request
      BY <1>0, <1>10, RequestFields DEF Request, NotifyRead, Does
    <2> QED
      BY <1>10, <2>1, IdleType, ReadType DEF NotifyRead
  <1>11. CASE ExecuteRead(c)
    <2>1. PICK i \in Kept, completed \in BOOLEAN :
                Then(c, [step |-> "execute", id |-> i, completed |-> completed])
      BY <1>11 DEF ExecuteRead
    <2>2. [step |-> "execute", id |-> i, completed |-> completed] \in Request
      BY <1>0 DEF Request
    <2> QED
      BY <1>11, <2>1, <2>2, ReadType DEF ExecuteRead
  <1>12. CASE OrderRead(c)
    <2>1. PICK i \in DOMAIN items, body \in PartOrders :
                Then(c, [step |-> "order", id |-> i, body |-> body])
      BY <1>12 DEF OrderRead
    <2>2. [step |-> "order", id |-> i, body |-> body] \in Request
      BY <1>0 DEF Request
    <2> QED
      BY <1>12, <2>1, <2>2, ReadType DEF OrderRead
  <1>13. CASE SettleRead(c)
    <2>1. [step |-> "settleWrite"] \in Request
      BY DEF Request
    <2> QED
      BY <1>13, <2>1, IdleType, ReadType DEF SettleRead
  <1>14. CASE OperateRead(c)
    <2> DEFINE next(i, active) ==
                 [step |-> "operate", id |-> i, active |-> active,
                  counted |-> Recount(i, active)]
    <2>1. PICK i \in DOMAIN items, active \in BOOLEAN : Then(c, next(i, active))
      BY <1>14 DEF OperateRead
    <2>2. next(i, active) \in Request
      BY <1>0 DEF Request, Recount, Kept, TypeOK
    <2> QED
      BY <1>14, <2>1, <2>2, ReadType DEF OperateRead
  <1> QED
    BY <1>1, <1>2, <1>3, <1>4, <1>5, <1>6, <1>7, <1>8, <1>9, <1>10, <1>11, <1>12,
       <1>13, <1>14
LEMMA WritesType ==
    ASSUME TypeOK, NEW c \in Clients,
           \/ CompleteWrite(c) \/ UpdateCommit(c) \/ FinalizeWrite(c) \/ ShareWrite(c)
           \/ MarkTaken(c) \/ TakeChargeWrite(c) \/ RecoverWrite(c) \/ NotifyWrite(c)
           \/ ExecuteWrite(c) \/ OrderWrite(c) \/ SettleWrite(c) \/ OperateCommit(c)
    PROVE  TypeOK'
  <1> DEFINE r == request[c]
  <1> SUFFICES ASSUME ~Fail(c) PROVE TypeOK'
    BY FailType
  <1>0. r \in Request
    BY DEF TypeOK
  <1>1. CASE CompleteWrite(c)
    <2>1. request' \in [Clients -> Request]
      BY <1>1, IdleType, ThenType DEF CompleteWrite, TypeOK
    <2> QED
      BY <1>1, <2>1 DEF CompleteWrite, TypeOK, Statuses, lines
  <1>2. CASE UpdateCommit(c)
    <2>1. request' \in [Clients -> Request]
      BY <1>2, IdleType, ThenType DEF UpdateCommit, UpdatedStatus, TypeOK
    <2>a. PICK new \in SUBSET (ItemIds \ issued) :
                 \E content \in [new -> NewLines] : UpdateInsert(c, new, content)
      BY <1>2 DEF UpdateCommit, UpdatedStatus
    <2>2. PICK content \in [new -> NewLines] : UpdateInsert(c, new, content)
      BY <2>a
    <2>3. /\ DOMAIN items' \subseteq issued' /\ issued' \subseteq ItemIds
          /\ items' \in [DOMAIN items' -> Item]
      BY <2>2, NewItemType DEF UpdateInsert, TypeOK
    <2>4. totals' \subseteq ItemIds
      BY <2>2 DEF UpdateInsert
    <2>5. status' \in Statuses \cup {"REMOVED"} /\ summaryFinalizedAt' \in BOOLEAN
      BY <1>0, <1>2, RequestFields DEF UpdateCommit, UpdatedStatus, Does, TypeOK, Statuses
    <2> QED
      BY <1>2, <2>1, <2>3, <2>4, <2>5 DEF UpdateCommit, UpdatedStatus, TypeOK
  <1>3. CASE FinalizeWrite(c)
    <2>1. request' \in [Clients -> Request]
      BY <1>3, IdleType, ThenType DEF FinalizeWrite, FinalizedShare, TypeOK
    <2>2. /\ r.mode \in UNION {[S -> ExecutionModes] : S \in SUBSET ItemIds}
          /\ r.counted \subseteq ItemIds /\ r.closes \in BOOLEAN
      BY <1>0, <1>3, RequestFields DEF FinalizeWrite, FinalizedShare, Does
    <2>3. PICK S \in SUBSET ItemIds : r.mode \in [S -> ExecutionModes]
      BY <2>2
    <2> DEFINE chosen(i) == i \in DOMAIN r.mode
               mode(i) == IF chosen(i) THEN r.mode[i] ELSE "NONE"
               done(i) == i \in r.done
               item(i) == [items[i] EXCEPT !.selected = chosen(i), !.mode = mode(i),
                                           !.done = done(i)]
    <2>4. ASSUME NEW i \in DOMAIN items PROVE item(i) \in Item
      <3>1. items[i] \in Item
        BY DEF TypeOK
      <3>2. chosen(i) \in BOOLEAN /\ done(i) \in BOOLEAN
        OBVIOUS
      <3>3. mode(i) \in ExecutionModes \cup {"NONE"}
        BY <2>3
      <3> HIDE DEF chosen, mode, done
      <3> QED
        BY <3>1, <3>2, <3>3 DEF Item
    <2>5. DOMAIN items' = DOMAIN items /\ items' \in [DOMAIN items -> Item]
      <3>1. items' = [i \in DOMAIN items |-> item(i)]
        BY <1>3 DEF FinalizeWrite, FinalizedShare, FinalizeItems
      <3> HIDE DEF item
      <3> QED
        BY <2>4, <3>1
    <2>6. share' \in Share
      BY <1>3 DEF FinalizeWrite, FinalizedShare, TypeOK, Share
    <2>7. status' \in Statuses /\ completedAt' \in BOOLEAN /\ totals' \subseteq ItemIds
      BY <1>3, <2>2 DEF FinalizeWrite, FinalizedShare, Statuses
    <2> QED
      BY <1>3, <2>1, <2>5, <2>6, <2>7 DEF FinalizeWrite, FinalizedShare, TypeOK
  <1>4. CASE ShareWrite(c)
    <2>1. [step |-> "mail", taken |-> share.taken] \in Request
      BY DEF Request, TypeOK, Share
    <2>2. request' \in [Clients -> Request]
      BY <1>4, <2>1, IdleType, ThenType DEF ShareWrite, TypeOK
    <2>3. share' \in Share
      BY <1>4 DEF ShareWrite, TypeOK, Share
    <2> QED
      BY <1>4, <2>2, <2>3 DEF ShareWrite, TypeOK, dossier, dates, lines
  <1>5. CASE MarkTaken(c)
    <2>1. request' \in [Clients -> Request]
      BY <1>5, IdleType, ThenType DEF MarkTaken, TypeOK
    <2>2. share' \in Share
      BY <1>5 DEF MarkTaken, TypeOK, Share
    <2> QED
      BY <1>5, <2>1, <2>2 DEF MarkTaken, TypeOK, dossier, dates, lines
  <1>6. CASE TakeChargeWrite(c)
    <2>1. [step |-> "notify", type |-> "TAKEN_IN_CHARGE"] \in Request
      BY DEF Request, EventTypes
    <2>2. request' \in [Clients -> Request]
      BY <1>6, <2>1, ThenType DEF TakeChargeWrite, TypeOK
    <2>3. share' \in Share
      BY <1>6 DEF TakeChargeWrite, TypeOK, Share
    <2> QED
      BY <1>6, <2>2, <2>3 DEF TakeChargeWrite, TypeOK, dossier, dates, lines
  <1>7. CASE RecoverWrite(c)
    <2>1. [step |-> "notify", type |-> "VEHICLE_RECOVERED"] \in Request
      BY DEF Request, EventTypes
    <2>2. request' \in [Clients -> Request]
      BY <1>7, <2>1, IdleType, ThenType DEF RecoverWrite, Marks, TypeOK
    <2>3. share' \in Share
      BY <1>7 DEF RecoverWrite, Marks, TypeOK, Share
    <2>4. status' \in Statuses \cup {"REMOVED"} /\ completedAt' \in BOOLEAN
      BY <1>7 DEF RecoverWrite, Marks, TypeOK, Statuses
    <2> QED
      BY <1>7, <2>2, <2>3, <2>4 DEF RecoverWrite, Marks, TypeOK, lines
  <1>8. CASE NotifyWrite(c)
    <2>1. request' \in [Clients -> Request]
      BY <1>8, IdleType, ThenType DEF NotifyWrite, TypeOK
    <2>2. notices' \in [EventTypes -> Nat]
      BY <1>8 DEF NotifyWrite, TypeOK
    <2> QED
      BY <1>8, <2>1, <2>2 DEF NotifyWrite, TypeOK, dossier, dates, lines
  <1>9. CASE ExecuteWrite(c)
    <2>1. [step |-> "settle"] \in Request
      BY DEF Request
    <2>2. request' \in [Clients -> Request]
      BY <1>9, <2>1, IdleType, ThenType DEF ExecuteWrite, TypeOK
    <2>3. r.completed \in BOOLEAN /\ r.id \in DOMAIN items /\ items[r.id] \in Item
      BY <1>0, <1>9, RequestFields DEF ExecuteWrite, Does, TypeOK
    <2>4. [items[r.id] EXCEPT !.done = r.completed] \in Item
      BY <2>3 DEF Item
    <2>5. DOMAIN items' \subseteq issued' /\ items' \in [DOMAIN items' -> Item]
      BY <1>9, <2>3, <2>4 DEF ExecuteWrite, TypeOK
    <2> QED
      BY <1>9, <2>2, <2>5 DEF ExecuteWrite, TypeOK, dossier, dates
  <1>10. CASE OrderWrite(c)
    <2>1. [step |-> "settle"] \in Request
      BY DEF Request
    <2>2. request' \in [Clients -> Request]
      BY <1>10, <2>1, IdleType, ThenType DEF OrderWrite, TypeOK
    <2>3. r.body \in PartOrders /\ r.id \in DOMAIN items /\ items[r.id] \in Item
      BY <1>0, <1>10, RequestFields DEF OrderWrite, Does, TypeOK
    <2>4. Ordered(items[r.id], r.body) \in Item
      BY <2>3, PartOrdersAssumption DEF Ordered, Item, PartOrderStatuses
    <2>5. DOMAIN items' \subseteq issued' /\ items' \in [DOMAIN items' -> Item]
      BY <1>10, <2>3, <2>4 DEF OrderWrite, TypeOK
    <2> QED
      BY <1>10, <2>2, <2>5 DEF OrderWrite, TypeOK, dossier, dates
  <1>11. CASE SettleWrite(c)
    <2>1. request' \in [Clients -> Request]
      BY <1>11, IdleType, ThenType DEF SettleWrite, TypeOK
    <2> QED
      BY <1>11, <2>1 DEF SettleWrite, TypeOK, Statuses, lines
  <1>12. CASE OperateCommit(c)
    <2>1. request' \in [Clients -> Request]
      BY <1>12, IdleType, ThenType DEF OperateCommit, TypeOK
    <2>2. /\ r.active \in BOOLEAN /\ r.counted \subseteq ItemIds
          /\ r.id \in DOMAIN items /\ items[r.id] \in Item
      BY <1>0, <1>12, RequestFields DEF OperateCommit, Does, TypeOK
    <2>3. Operated(items[r.id], r.active) \in Item
      BY <2>2 DEF Operated, Item, PartOrderStatuses
    <2>4. DOMAIN items' \subseteq issued' /\ items' \in [DOMAIN items' -> Item]
      BY <1>12, <2>2, <2>3 DEF OperateCommit, TypeOK
    <2> QED
      BY <1>12, <2>1, <2>2, <2>4 DEF OperateCommit, TypeOK, dates
  <1> QED
    BY <1>1, <1>2, <1>3, <1>4, <1>5, <1>6, <1>7, <1>8, <1>9, <1>10, <1>11, <1>12

\* Deleting the dossier leaves the empty state.
LEMMA RemoveType ==
    ASSUME TypeOK, Remove
    PROVE  TypeOK'
  <1>1. share' \in Share /\ notices' \in [EventTypes -> Nat]
    BY DEF Remove, Share, NoShare
  <1>2. DOMAIN items' = {} /\ items' \in [DOMAIN items' -> Item]
    BY DEF Remove
  <1> QED
    BY <1>1, <1>2 DEF Remove, TypeOK

LEMMA NextType == TypeOK /\ [Next]_vars => TypeOK'
  <1> SUFFICES ASSUME TypeOK, [Next]_vars PROVE TypeOK'
    OBVIOUS
  <1>1. ASSUME NEW c \in Clients, Handler(c) PROVE TypeOK'
    BY <1>1, ReadsType, WritesType DEF Handler
  <1>2. ASSUME NEW c \in Clients, Crash(c) PROVE TypeOK'
    BY <1>2, FailType DEF Crash
  <1>3. CASE UNCHANGED vars
    BY <1>3 DEF vars, dossier, dates, lines, TypeOK
  <1> QED
    BY <1>1, <1>2, <1>3, RemoveType DEF Next

\* The state is well typed: every write of the code stores a legal value, whatever
\* the snapshot it was computed from.
THEOREM TypeCorrect == Spec => []TypeOK
  BY InitType, NextType, PTL DEF Spec

-----------------------------------------------------------------------------
(* The dates match the status *)

\* What a handler leaves to do is seen only in its own request.
LEMMA NextRequest ==
    ASSUME request \in [Clients -> Request], NEW c \in Clients, NEW next, Then(c, next)
    PROVE  /\ request'[c] = next
           /\ \A d \in Clients : d # c => request'[d] = request[d]
  BY DEF Then

\* A request that only reads keeps DatesInv, if what it read of the status is enough
\* for what it will write.
LEMMA DatesRead ==
    ASSUME TypeOK, DatesInv, NEW c \in Clients, NEW next, Then(c, next),
           UNCHANGED <<status, dates>>,
           status = "DRAFT" => /\ next.step \notin {"finalize", "recover", "settleWrite"}
                               /\ next.step \in {"update", "updateCommit"} => next.draft
    PROVE  DatesInv'
  <1>1. /\ request'[c] = next
        /\ \A d \in Clients : d # c => request'[d] = request[d]
    BY NextRequest DEF TypeOK
  <1>2. DatesMatchStatus'
    BY DEF DatesInv, DatesMatchStatus, dates
  <1>3. ASSUME NEW d \in Clients, WritesLateStatus(d)' PROVE status' # "DRAFT"
    <2>1. CASE d = c
      BY <1>1, <1>3, <2>1 DEF WritesLateStatus, Does
    <2>2. CASE d # c
      BY <1>1, <1>3, <2>2 DEF WritesLateStatus, Does, DatesInv
    <2> QED
      BY <2>1, <2>2
  <1> QED
    BY <1>2, <1>3 DEF DatesInv

\* A write that leaves the dossier past DRAFT, or removed, with dates that match.
LEMMA DatesWrite ==
    ASSUME DatesMatchStatus', status' # "DRAFT"
    PROVE  DatesInv'
  BY DEF DatesInv

LEMMA DatesFail ==
    ASSUME TypeOK, DatesInv, NEW c \in Clients, Fail(c)
    PROVE  DatesInv'
  BY DatesRead DEF Fail, Idle, dossier

LEMMA DatesHandler ==
    ASSUME TypeOK, DatesInv, NEW c \in Clients, Handler(c)
    PROVE  DatesInv'
  <1> DEFINE r == request[c]
  <1> SUFFICES ASSUME ~Fail(c) PROVE DatesInv'
    BY DatesFail
  <1>0. r \in Request
    BY DEF TypeOK
  <1>1. CASE CompleteRead(c)
    BY <1>1, DatesRead DEF CompleteRead, dossier
  <1>2. CASE UpdateRead(c)
    BY <1>2, DatesRead DEF UpdateRead, dossier
  <1>3. CASE UpdateDelete(c)
    <2>1. status = "DRAFT" => r.draft
      BY <1>0, <1>3, RequestFields DEF UpdateDelete, Does, DatesInv, WritesLateStatus
    <2> QED
      BY <1>3, <2>1, DatesRead DEF UpdateDelete, dossier
  <1>4. CASE FinalizeRead(c)
    <2>1. PICK kept \in SUBSET DOMAIN items : \E mode \in [kept -> ExecutionModes] :
                   Then(c, FinalizePlan(mode))
      BY <1>4 DEF FinalizeRead
    <2>2. PICK mode \in [kept -> ExecutionModes] : Then(c, FinalizePlan(mode))
      BY <2>1
    <2> QED
      BY <1>4, <2>2, DatesRead DEF FinalizeRead, dossier
  <1>5. ASSUME NEW mailing \in BOOLEAN, ShareRead(c, mailing) PROVE DatesInv'
    BY <1>5, DatesRead DEF ShareRead, dossier
  <1>6. CASE ShareFind(c)
    BY <1>6, DatesRead DEF ShareFind, dossier
  <1>7. CASE ShareWrite(c)
    BY <1>7, DatesRead DEF ShareWrite, Idle, dossier
  <1>8. CASE SendMail(c)
    BY <1>8, DatesRead DEF SendMail, Idle, dossier
  <1>9. CASE MarkTaken(c)
    BY <1>9, DatesRead DEF MarkTaken, Idle, dossier
  <1>10. CASE TakeChargeRead(c)
    BY <1>10, DatesRead DEF TakeChargeRead, dossier
  <1>11. CASE TakeChargeWrite(c)
    BY <1>11, DatesRead DEF TakeChargeWrite, dossier
  <1>12. CASE RecoverRead(c)
    BY <1>12, DatesRead DEF RecoverRead, dossier
  <1>13. CASE NotifyRead(c)
    BY <1>13, DatesRead DEF NotifyRead, Idle, dossier
  <1>14. CASE NotifyWrite(c)
    BY <1>14, DatesRead DEF NotifyWrite, Idle, dossier
  <1>15. CASE ExecuteRead(c)
    <2>1. PICK i \in Kept, completed \in BOOLEAN :
                Then(c, [step |-> "execute", id |-> i, completed |-> completed])
      BY <1>15 DEF ExecuteRead
    <2> QED
      BY <1>15, <2>1, DatesRead DEF ExecuteRead, dossier
  <1>16. CASE ExecuteWrite(c)
    BY <1>16, DatesRead DEF ExecuteWrite, Idle, dossier
  <1>17. CASE OrderRead(c)
    <2>1. PICK i \in DOMAIN items, body \in PartOrders :
                Then(c, [step |-> "order", id |-> i, body |-> body])
      BY <1>17 DEF OrderRead
    <2> QED
      BY <1>17, <2>1, DatesRead DEF OrderRead, dossier
  <1>18. CASE OrderWrite(c)
    BY <1>18, DatesRead DEF OrderWrite, Idle, dossier
  <1>19. CASE SettleRead(c)
    BY <1>19, DatesRead DEF SettleRead, Idle, dossier
  <1>20. CASE OperateRead(c)
    <2>1. PICK i \in DOMAIN items, active \in BOOLEAN :
                Then(c, [step |-> "operate", id |-> i, active |-> active,
                         counted |-> Recount(i, active)])
      BY <1>20 DEF OperateRead
    <2> QED
      BY <1>20, <2>1, DatesRead DEF OperateRead, dossier
  <1>21. CASE OperateCommit(c)
    BY <1>21, DatesRead DEF OperateCommit, Idle
  <1>22. CASE CompleteWrite(c)
    BY <1>22, DatesWrite DEF CompleteWrite, DatesMatchStatus
  <1>23. CASE UpdateCommit(c)
    <2>1. CASE r.draft
      <3>1. UNCHANGED <<status, dates>>
        BY <1>23, <2>1 DEF UpdateCommit, UpdatedStatus, dates, TypeOK
      <3> QED
        BY <1>23, <3>1, DatesRead DEF UpdateCommit, UpdatedStatus, Idle
    <2>2. CASE ~r.draft
      <3>1. status # "DRAFT"
        BY <1>23, <2>2 DEF UpdateCommit, UpdatedStatus, DatesInv, WritesLateStatus, Does
      <3>2. DatesMatchStatus' /\ status' = "TO_ANALYZE"
        BY <1>23, <2>2, <3>1 DEF UpdateCommit, UpdatedStatus, DatesInv, DatesMatchStatus, TypeOK, Statuses
      <3> QED
        BY <3>2, DatesWrite
    <2> QED
      BY <2>1, <2>2
  <1>24. CASE FinalizeWrite(c)
    <2>1. status # "DRAFT" /\ r.closes \in BOOLEAN
      BY <1>0, <1>24, RequestFields DEF FinalizeWrite, FinalizedShare, DatesInv, WritesLateStatus, Does
    <2>2. DatesMatchStatus' /\ status' # "DRAFT"
      BY <1>24, <2>1 DEF FinalizeWrite, FinalizedShare, DatesInv, DatesMatchStatus, TypeOK, Statuses
    <2> QED
      BY <2>2, DatesWrite
  <1>25. CASE RecoverWrite(c)
    <2>1. status # "DRAFT" /\ r.completes \in BOOLEAN
      BY <1>0, <1>25, RequestFields DEF RecoverWrite, Marks, DatesInv, WritesLateStatus, Does
    <2>2. DatesMatchStatus' /\ status' # "DRAFT"
      BY <1>25, <2>1 DEF RecoverWrite, Marks, DatesInv, DatesMatchStatus, TypeOK, Statuses
    <2> QED
      BY <2>2, DatesWrite
  <1>26. CASE SettleWrite(c)
    <2>1. status # "DRAFT"
      BY <1>26 DEF SettleWrite, DatesInv, WritesLateStatus, Does
    <2>2. DatesMatchStatus' /\ status' # "DRAFT"
      BY <1>26, <2>1 DEF SettleWrite, DatesInv, DatesMatchStatus, TypeOK, Statuses
    <2> QED
      BY <2>2, DatesWrite
  <1> QED
    BY <1>1, <1>2, <1>3, <1>4, <1>5, <1>6, <1>7, <1>8, <1>9, <1>10, <1>11, <1>12, <1>13,
       <1>14, <1>15, <1>16, <1>17, <1>18, <1>19, <1>20, <1>21, <1>22, <1>23, <1>24, <1>25,
       <1>26 DEF Handler

LEMMA DatesNext == TypeOK /\ DatesInv /\ [Next]_vars => DatesInv'
  <1> SUFFICES ASSUME TypeOK, DatesInv, [Next]_vars PROVE DatesInv'
    OBVIOUS
  <1>1. CASE Remove
    BY <1>1, DatesWrite DEF Remove, DatesMatchStatus
  <1>2. ASSUME NEW c \in Clients, Handler(c) PROVE DatesInv'
    BY <1>2, DatesHandler
  <1>3. ASSUME NEW c \in Clients, Crash(c) PROVE DatesInv'
    BY <1>3, DatesFail DEF Crash
  <1>4. CASE UNCHANGED vars
    BY <1>4 DEF vars, dossier, dates, DatesInv, DatesMatchStatus, WritesLateStatus, Does
  <1> QED
    BY <1>1, <1>2, <1>3, <1>4 DEF Next

LEMMA DatesInit == Init => DatesInv
  BY DEF Init, DatesInv, DatesMatchStatus, WritesLateStatus, Does, Idle

\* The dates of a dossier match its status in every interleaving of requests: no stale
\* write of complete, update, finalizeSummary, markVehicleRecovered or of the completion
\* check leaves a status with the dates of another one.
THEOREM DatesAlwaysMatch == Spec => []DatesMatchStatus
  <1>1. DatesInv => DatesMatchStatus
    BY DEF DatesInv
  <1> QED
    BY <1>1, TypeCorrect, DatesInit, DatesNext, PTL DEF Spec

-----------------------------------------------------------------------------
(* A recovery is announced once *)

\* A request that does not start announcing, and leaves the recovery and its notices
\* alone, keeps RecoveryInv.
LEMMA RecoveryKept ==
    ASSUME TypeOK, RecoveryInv, NEW c \in Clients, NEW next, Then(c, next),
           next.step \in {"notify", "notifyWrite"} /\ next.type = "VEHICLE_RECOVERED"
                => Announces(c),
           share.recovered => share'.recovered,
           notices'["VEHICLE_RECOVERED"] = notices["VEHICLE_RECOVERED"],
           status = "REMOVED" => status' = "REMOVED"
    PROVE  RecoveryInv'
  <1>1. /\ request'[c] = next
        /\ \A d \in Clients : d # c => request'[d] = request[d]
    BY NextRequest DEF TypeOK
  <1>2. \A d \in Clients : Announces(d)' => Announces(d)
    BY <1>1 DEF Announces, Does
  <1> QED
    BY <1>2 DEF RecoveryInv, OneRecoveryNotice

LEMMA RecoveryFail ==
    ASSUME TypeOK, RecoveryInv, NEW c \in Clients, Fail(c)
    PROVE  RecoveryInv'
  BY RecoveryKept DEF Fail, Idle, dossier

LEMMA RecoveryReads ==
    ASSUME TypeOK, RecoveryInv, NEW c \in Clients,
           \/ CompleteRead(c) \/ UpdateRead(c) \/ UpdateDelete(c) \/ FinalizeRead(c)
           \/ ShareRead(c, TRUE) \/ ShareRead(c, FALSE) \/ ShareFind(c) \/ SendMail(c)
           \/ TakeChargeRead(c) \/ RecoverRead(c) \/ NotifyRead(c)
           \/ ExecuteRead(c) \/ OrderRead(c) \/ SettleRead(c) \/ OperateRead(c)
    PROVE  RecoveryInv'
  <1>0. UNCHANGED <<status, share, notices>>
    BY DEF CompleteRead, UpdateRead, UpdateDelete, FinalizeRead, ShareRead, ShareFind,
           SendMail, TakeChargeRead, RecoverRead, NotifyRead, ExecuteRead, OrderRead,
           SettleRead, OperateRead, dossier
  <1> SUFFICES \E next : /\ Then(c, next)
                         /\ next.step \notin {"notify", "notifyWrite"} \/ NotifyRead(c)
    <2>1. PICK next : Then(c, next) /\ (next.step \notin {"notify", "notifyWrite"}
                                        \/ NotifyRead(c))
      OBVIOUS
    <2>2. CASE NotifyRead(c)
      <3>1. CASE Then(c, Idle)
        BY <1>0, <3>1, RecoveryKept DEF Idle
      <3>2. CASE Then(c, [step |-> "notifyWrite", type |-> request[c].type])
        BY <1>0, <2>2, <3>2, RecoveryKept DEF NotifyRead, Announces, Does
      <3> QED
        BY <2>2, <3>1, <3>2 DEF NotifyRead
    <2> QED
      BY <1>0, <2>1, <2>2, RecoveryKept
  <1>1. CASE FinalizeRead(c)
    <2>1. PICK kept \in SUBSET DOMAIN items : \E mode \in [kept -> ExecutionModes] :
                   Then(c, FinalizePlan(mode))
      BY <1>1 DEF FinalizeRead
    <2>2. PICK mode \in [kept -> ExecutionModes] : Then(c, FinalizePlan(mode))
      BY <2>1
    <2>3. FinalizePlan(mode).step = "finalize"
      BY DEF FinalizePlan, ClosesWithoutDamage
    <2> QED
      BY <2>2, <2>3
  <1>2. CASE ExecuteRead(c)
    <2>1. PICK i \in Kept, completed \in BOOLEAN :
                Then(c, [step |-> "execute", id |-> i, completed |-> completed])
      BY <1>2 DEF ExecuteRead
    <2> QED
      BY <2>1
  <1>3. CASE OrderRead(c)
    <2>1. PICK i \in DOMAIN items, body \in PartOrders :
                Then(c, [step |-> "order", id |-> i, body |-> body])
      BY <1>3 DEF OrderRead
    <2> QED
      BY <2>1
  <1>4. CASE OperateRead(c)
    <2>1. PICK i \in DOMAIN items, active \in BOOLEAN :
                Then(c, [step |-> "operate", id |-> i, active |-> active,
                         counted |-> Recount(i, active)])
      BY <1>4 DEF OperateRead
    <2> QED
      BY <2>1
  <1>5. CASE NotifyRead(c)
    BY <1>5 DEF NotifyRead
  <1>6. CASE CompleteRead(c) \/ UpdateRead(c) \/ UpdateDelete(c)
    BY <1>6 DEF CompleteRead, UpdateRead, UpdateDelete
  <1>7. CASE ShareRead(c, TRUE) \/ ShareRead(c, FALSE) \/ ShareFind(c)
    BY <1>7 DEF ShareRead, ShareFind
  <1>8. CASE SendMail(c)
    BY <1>8 DEF SendMail, Idle
  <1>9. CASE TakeChargeRead(c) \/ RecoverRead(c)
    BY <1>9 DEF TakeChargeRead, RecoverRead
  <1>10. CASE SettleRead(c)
    BY <1>10 DEF SettleRead, Idle
  <1> QED
    BY <1>1, <1>2, <1>3, <1>4, <1>5, <1>6, <1>7, <1>8, <1>9, <1>10

LEMMA RecoveryWrites ==
    ASSUME TypeOK, RecoveryInv, NEW c \in Clients,
           \/ CompleteWrite(c) \/ UpdateCommit(c) \/ FinalizeWrite(c) \/ ShareWrite(c)
           \/ MarkTaken(c) \/ TakeChargeWrite(c) \/ RecoverWrite(c) \/ NotifyWrite(c)
           \/ ExecuteWrite(c) \/ OrderWrite(c) \/ SettleWrite(c) \/ OperateCommit(c)
    PROVE  RecoveryInv'
  <1> DEFINE r == request[c]
  <1> SUFFICES ASSUME ~Fail(c) PROVE RecoveryInv'
    BY RecoveryFail
  <1>0. share \in Share
    BY DEF TypeOK
  <1>1. CASE CompleteWrite(c)
    BY <1>1, RecoveryKept DEF CompleteWrite, Idle
  <1>2. CASE UpdateCommit(c)
    BY <1>2, RecoveryKept DEF UpdateCommit, UpdatedStatus, Idle
  <1>3. CASE FinalizeWrite(c)
    <2>1. share'.recovered = share.recovered
      BY <1>0, <1>3 DEF FinalizeWrite, FinalizedShare, Share
    <2> QED
      BY <1>3, <2>1, RecoveryKept DEF FinalizeWrite, FinalizedShare, Idle
  <1>4. CASE ShareWrite(c)
    <2>1. share'.recovered = share.recovered
      BY <1>0, <1>4 DEF ShareWrite, Share
    <2> QED
      BY <1>4, <2>1, RecoveryKept DEF ShareWrite, Idle, dossier
  <1>5. CASE MarkTaken(c)
    <2>1. share'.recovered = share.recovered
      BY <1>0, <1>5 DEF MarkTaken, Share
    <2> QED
      BY <1>5, <2>1, RecoveryKept DEF MarkTaken, Idle, dossier
  <1>6. CASE TakeChargeWrite(c)
    <2>1. share'.recovered = share.recovered
      BY <1>0, <1>6 DEF TakeChargeWrite, Share
    <2> QED
      BY <1>6, <2>1, RecoveryKept DEF TakeChargeWrite, dossier
  <1>7. CASE RecoverWrite(c)
    <2>1. CASE r.mark /\ share.exists /\ ~share.recovered
      \* This request marks the vehicle: nobody has announced it, nobody is about to.
      <3>1. \A d \in Clients : ~Announces(d)
        BY <1>7, <2>1 DEF RecoverWrite, Marks, RecoveryInv
      <3>2. notices'["VEHICLE_RECOVERED"] = 0
        BY <1>7, <2>1 DEF RecoverWrite, Marks, RecoveryInv, OneRecoveryNotice, TypeOK, EventTypes
      <3>3. share'.recovered
        BY <1>0, <1>7, <2>1 DEF RecoverWrite, Marks, Share
      <3>4. \A d \in Clients : Announces(d)' => d = c
        BY <1>7, <3>1, NextRequest DEF RecoverWrite, Marks, Announces, Does, TypeOK
      <3> QED
        BY <3>2, <3>3, <3>4 DEF RecoveryInv, OneRecoveryNotice
    <2>2. CASE ~(r.mark /\ share.exists /\ ~share.recovered)
      BY <1>7, <2>2, RecoveryKept DEF RecoverWrite, Marks, Idle
    <2> QED
      BY <2>1, <2>2
  <1>8. CASE NotifyWrite(c)
    <2>1. CASE r.type = "VEHICLE_RECOVERED"
      \* The only announcing request inserts the notice, and is then idle.
      <3>1. Announces(c) /\ share.recovered
        BY <1>8, <2>1 DEF NotifyWrite, Announces, Does, RecoveryInv
      <3>2. notices'["VEHICLE_RECOVERED"] = 1
        BY <1>8, <2>1, <3>1
        DEF NotifyWrite, RecoveryInv, OneRecoveryNotice, TypeOK, EventTypes
      <3>3. \A d \in Clients : ~Announces(d)'
        BY <1>8, <3>1, NextRequest
        DEF NotifyWrite, RecoveryInv, Announces, Does, Idle, TypeOK
      <3>4. share' = share
        BY <1>8 DEF NotifyWrite
      <3> QED
        BY <3>1, <3>2, <3>3, <3>4 DEF RecoveryInv, OneRecoveryNotice
    <2>2. CASE r.type # "VEHICLE_RECOVERED"
      <3>1. notices'["VEHICLE_RECOVERED"] = notices["VEHICLE_RECOVERED"]
        BY <1>8, <2>2 DEF NotifyWrite, TypeOK, EventTypes
      <3> QED
        BY <1>8, <3>1, RecoveryKept DEF NotifyWrite, Idle, dossier
    <2> QED
      BY <2>1, <2>2
  <1>9. CASE ExecuteWrite(c)
    BY <1>9, RecoveryKept DEF ExecuteWrite, Idle, dossier
  <1>10. CASE OrderWrite(c)
    BY <1>10, RecoveryKept DEF OrderWrite, Idle, dossier
  <1>11. CASE SettleWrite(c)
    BY <1>11, RecoveryKept DEF SettleWrite, Idle
  <1>12. CASE OperateCommit(c)
    BY <1>12, RecoveryKept DEF OperateCommit, Idle
  <1> QED
    BY <1>1, <1>2, <1>3, <1>4, <1>5, <1>6, <1>7, <1>8, <1>9, <1>10, <1>11, <1>12

LEMMA RecoveryNext == TypeOK /\ RecoveryInv /\ [Next]_vars => RecoveryInv'
  <1> SUFFICES ASSUME TypeOK, RecoveryInv, [Next]_vars PROVE RecoveryInv'
    OBVIOUS
  <1>1. CASE Remove
    <2>1. notices'["VEHICLE_RECOVERED"] = 0 /\ status' = "REMOVED" /\ request' = request
      BY <1>1 DEF Remove, EventTypes
    <2> QED
      BY <2>1 DEF RecoveryInv, OneRecoveryNotice, Announces, Does
  <1>2. ASSUME NEW c \in Clients, Handler(c) PROVE RecoveryInv'
    BY <1>2, RecoveryReads, RecoveryWrites DEF Handler
  <1>3. ASSUME NEW c \in Clients, Crash(c) PROVE RecoveryInv'
    BY <1>3, RecoveryFail DEF Crash
  <1>4. CASE UNCHANGED vars
    BY <1>4 DEF vars, dossier, RecoveryInv, OneRecoveryNotice, Announces, Does
  <1> QED
    BY <1>1, <1>2, <1>3, <1>4 DEF Next

LEMMA RecoveryInit == Init => RecoveryInv
  BY DEF Init, RecoveryInv, OneRecoveryNotice, Announces, Does, Idle, EventTypes

\* Whatever number of requests mark the vehicle as recovered at once, and wherever they
\* stop, its collaborators get the news at most once: the conditional update of
\* markVehicleRecovered elects the one request that announces it.
THEOREM RecoveryAnnouncedOnce == Spec => []OneRecoveryNotice
  <1>1. RecoveryInv => OneRecoveryNotice
    BY DEF RecoveryInv
  <1> QED
    BY <1>1, TypeCorrect, RecoveryInit, RecoveryNext, PTL DEF Spec
=============================================================================

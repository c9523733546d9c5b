---------------------- MODULE VehicleCheckOverlapProofs ----------------------
(***************************************************************************)
(* What overlapping requests may not do to a vehicle check, for any number *)
(* of requests, any supply of line ids and any forms.  Every property of   *)
(* VehicleCheck that some overlap breaks is proved here from the absence   *)
(* of exactly the overlaps that break it: all other requests may           *)
(* interleave, and any request may stop.  Requests that come one at a time *)
(* have no overlap at all, hence the last theorem.                         *)
(***************************************************************************)
EXTENDS VehicleCheckProofs

\* No request is at a step of S while another one is at a step of T.
Apart(S, T) ==
    \A c, d \in Clients : c # d => ~(request[c].step \in S /\ request[d].step \in T)

-----------------------------------------------------------------------------
(* What the writes do to the lines *)

LEMMA OperatedItem ==
    ASSUME NEW item \in Item, NEW active \in BOOLEAN
    PROVE  LET new == Operated(item, active) IN
           /\ new.active = active /\ new.selected = item.selected /\ new.mode = item.mode
           /\ active => new.done = item.done /\ new.required = item.required /\ new.part = item.part
           /\ ~active => ~new.done /\ ~new.required /\ new.part = "NOT_REQUIRED"
  BY DEF Operated, Item

LEMMA OrderedItem ==
    ASSUME NEW item \in Item, NEW body \in PartOrders
    PROVE  LET new == Ordered(item, body) IN
           /\ new.active = item.active /\ new.selected = item.selected
           /\ new.mode = item.mode /\ new.done = item.done
  BY DEF Ordered, Item

LEMMA ExecutedItem ==
    ASSUME NEW item \in Item, NEW completed \in BOOLEAN
    PROVE  LET new == [item EXCEPT !.done = completed] IN
           /\ new.done = completed /\ new.active = item.active /\ new.selected = item.selected
           /\ new.mode = item.mode /\ new.required = item.required /\ new.part = item.part
  BY DEF Item

\* Nobody else moves, and the lines are what they were.
Alone(c) == \A d \in Clients : d # c => request'[d] = request[d]

LEMMA OperateStep ==
    ASSUME TypeOK, NEW c \in Clients, OperateCommit(c), ~Fail(c)
    PROVE  LET r == request[c] IN
           /\ r.id \in DOMAIN items /\ r.active \in BOOLEAN
           /\ DOMAIN items' = DOMAIN items /\ issued' = issued /\ totals' = r.counted
           /\ LET old == items[r.id]  new == items'[r.id] IN
              /\ new.active = r.active /\ new.selected = old.selected /\ new.mode = old.mode
              /\ r.active => new.done = old.done /\ new.required = old.required /\ new.part = old.part
              /\ ~r.active => ~new.done /\ ~new.required /\ new.part = "NOT_REQUIRED"
           /\ \A i \in DOMAIN items : i # r.id => items'[i] = items[i]
           /\ request'[c] = Idle /\ Alone(c)
           /\ UNCHANGED <<status, dates, share, notices>>
  <1> DEFINE id == request[c].id
             active == request[c].active
  <1>1. active \in BOOLEAN
    BY RequestFields DEF OperateCommit, Does, TypeOK
  <1>2. /\ id \in DOMAIN items /\ DOMAIN items' = DOMAIN items
        /\ items'[id] = Operated(items[id], active)
        /\ \A i \in DOMAIN items : i # id => items'[i] = items[i]
    BY DEF OperateCommit
  <1>3. request'[c] = Idle /\ Alone(c)
    BY NextRequest DEF OperateCommit, TypeOK, Alone
  <1>4. items[id] \in Item
    BY <1>2 DEF TypeOK
  <1>5. /\ issued' = issued /\ totals' = request[c].counted
        /\ UNCHANGED <<status, dates, share, notices>>
    BY DEF OperateCommit
  <1> HIDE DEF id, active
  <1>6. LET old == items[id]  new == items'[id] IN
        /\ new.active = active /\ new.selected = old.selected /\ new.mode = old.mode
        /\ active => new.done = old.done /\ new.required = old.required /\ new.part = old.part
        /\ ~active => ~new.done /\ ~new.required /\ new.part = "NOT_REQUIRED"
    BY <1>1, <1>2, <1>4, OperatedItem
  <1> QED
    BY <1>1, <1>2, <1>3, <1>5, <1>6 DEF id, active

LEMMA OrderStep ==
    ASSUME TypeOK, NEW c \in Clients, OrderWrite(c), ~Fail(c)
    PROVE  LET r == request[c] IN
           /\ r.id \in DOMAIN items
           /\ DOMAIN items' = DOMAIN items /\ issued' = issued
           /\ \A i \in DOMAIN items :
                 /\ items'[i].active = items[i].active /\ items'[i].selected = items[i].selected
                 /\ items'[i].mode = items[i].mode /\ items'[i].done = items[i].done
                 /\ i # r.id => items'[i] = items[i]
           /\ request'[c].step \in {"idle", "settle"} /\ Alone(c)
           /\ UNCHANGED <<dossier, share, notices>>
  <1> DEFINE id == request[c].id
             body == request[c].body
  <1>1. body \in PartOrders
    BY RequestFields DEF OrderWrite, Does, TypeOK
  <1>2. /\ id \in DOMAIN items /\ DOMAIN items' = DOMAIN items
        /\ items'[id] = Ordered(items[id], body)
        /\ \A i \in DOMAIN items : i # id => items'[i] = items[i]
    BY DEF OrderWrite
  <1>3. request'[c].step \in {"idle", "settle"} /\ Alone(c)
    BY NextRequest DEF OrderWrite, TypeOK, Alone, Idle
  <1>4. items[id] \in Item
    BY <1>2 DEF TypeOK
  <1>5. issued' = issued /\ UNCHANGED <<dossier, share, notices>>
    BY DEF OrderWrite
  <1> HIDE DEF id, body
  <1>6. /\ items'[id].active = items[id].active /\ items'[id].selected = items[id].selected
        /\ items'[id].mode = items[id].mode /\ items'[id].done = items[id].done
    BY <1>1, <1>2, <1>4, OrderedItem
  <1> QED
    BY <1>2, <1>3, <1>5, <1>6 DEF id, body

LEMMA ExecuteStep ==
    ASSUME TypeOK, NEW c \in Clients, ExecuteWrite(c), ~Fail(c)
    PROVE  LET r == request[c] IN
           /\ r.id \in DOMAIN items /\ r.completed \in BOOLEAN
           /\ DOMAIN items' = DOMAIN items /\ issued' = issued
           /\ items'[r.id].done = r.completed
           /\ \A i \in DOMAIN items :
                 /\ items'[i].active = items[i].active /\ items'[i].selected = items[i].selected
                 /\ items'[i].mode = items[i].mode /\ items'[i].part = items[i].part
                 /\ items'[i].required = items[i].required
                 /\ i # r.id => items'[i] = items[i]
           /\ request'[c].step \in {"idle", "settle"} /\ Alone(c)
           /\ UNCHANGED <<dossier, share, notices>>
  <1> DEFINE id == request[c].id
             completed == request[c].completed
  <1>1. completed \in BOOLEAN
    BY RequestFields DEF ExecuteWrite, Does, TypeOK
  <1>2. /\ id \in DOMAIN items /\ DOMAIN items' = DOMAIN items
        /\ items'[id] = [items[id] EXCEPT !.done = completed]
        /\ \A i \in DOMAIN items : i # id => items'[i] = items[i]
    BY DEF ExecuteWrite
  <1>3. request'[c].step \in {"idle", "settle"} /\ Alone(c)
    BY NextRequest DEF ExecuteWrite, TypeOK, Alone, Idle
  <1>4. items[id] \in Item
    BY <1>2 DEF TypeOK
  <1>5. issued' = issued /\ UNCHANGED <<dossier, share, notices>>
    BY DEF ExecuteWrite
  <1> HIDE DEF id, completed
  <1>6. /\ items'[id].done = completed /\ items'[id].active = items[id].active
        /\ items'[id].selected = items[id].selected /\ items'[id].mode = items[id].mode
        /\ items'[id].required = items[id].required /\ items'[id].part = items[id].part
    BY <1>1, <1>2, <1>4, ExecutedItem
  <1> QED
    BY <1>1, <1>2, <1>3, <1>5, <1>6 DEF id, completed

LEMMA FinalizeStep ==
    ASSUME TypeOK, NEW c \in Clients, FinalizeWrite(c), ~Fail(c)
    PROVE  LET r == request[c] IN
           /\ DOMAIN r.mode \subseteq DOMAIN items
           /\ DOMAIN items' = DOMAIN items /\ issued' = issued /\ totals' = r.counted
           /\ \A i \in DOMAIN items :
                 /\ items'[i].active = items[i].active
                 /\ items'[i].required = items[i].required /\ items'[i].part = items[i].part
                 /\ items'[i].selected = (i \in DOMAIN r.mode)
                 /\ items'[i].mode = IF i \in DOMAIN r.mode THEN r.mode[i] ELSE "NONE"
                 /\ items'[i].done = (i \in r.done)
           /\ request'[c] = Idle /\ Alone(c)
           /\ share' = FinalizedShare(r)
           /\ status' = (IF r.closes THEN "CLOSED_NO_DAMAGE" ELSE "SUMMARY_READY")
  <1> DEFINE r == request[c]
             chosen(i) == i \in DOMAIN r.mode
             mode(i) == IF i \in DOMAIN r.mode THEN r.mode[i] ELSE "NONE"
             done(i) == i \in r.done
  <1>1. items' = [i \in DOMAIN items |->
                    [items[i] EXCEPT !.selected = chosen(i), !.mode = mode(i), !.done = done(i)]]
    BY DEF FinalizeWrite, FinalizeItems
  <1>2. \A i \in DOMAIN items : items[i] \in Item
    BY DEF TypeOK
  <1>3. DOMAIN items' = DOMAIN items
    BY <1>1
  <1>4. ASSUME NEW i \in DOMAIN items
        PROVE  /\ items'[i].active = items[i].active
               /\ items'[i].required = items[i].required /\ items'[i].part = items[i].part
               /\ items'[i].selected = chosen(i) /\ items'[i].mode = mode(i)
               /\ items'[i].done = done(i)
    <2>1. items'[i] = [items[i] EXCEPT !.selected = chosen(i), !.mode = mode(i), !.done = done(i)]
      BY <1>1
    <2> HIDE DEF chosen, mode, done
    <2> QED
      BY <1>2, <2>1 DEF Item
  <1>5. request'[c] = Idle /\ Alone(c)
    BY NextRequest DEF FinalizeWrite, Alone, TypeOK
  <1> QED
    BY <1>3, <1>4, <1>5 DEF FinalizeWrite, lines

\* The lines that a stale DELETE did not see stay, the new ones have ids never given before.
LEMMA UpdateStep ==
    ASSUME TypeOK, NEW c \in Clients, UpdateCommit(c), ~Fail(c)
    PROVE  \E new \in SUBSET (ItemIds \ issued) :
              /\ DOMAIN items' = (DOMAIN items \ request[c].seen) \cup new
              /\ issued' = issued \cup new /\ totals' = new
              /\ \A i \in new : /\ items'[i].active /\ items'[i].selected
                                /\ items'[i].mode = "NONE" /\ ~items'[i].done
              /\ \A i \in DOMAIN items' \ new : i \in DOMAIN items /\ items'[i] = items[i]
              /\ request'[c] = Idle /\ Alone(c)
  <1>1. PICK new \in SUBSET (ItemIds \ issued) :
                 \E content \in [new -> NewLines] : UpdateInsert(c, new, content)
    BY DEF UpdateCommit
  <1>2. PICK content \in [new -> NewLines] : UpdateInsert(c, new, content)
    BY <1>1
  <1>3. request'[c] = Idle /\ Alone(c)
    BY NextRequest DEF UpdateCommit, Alone, TypeOK
  <1>4. \A i \in new : /\ NewItem(content[i]).active /\ NewItem(content[i]).selected
                       /\ NewItem(content[i]).mode = "NONE" /\ ~NewItem(content[i]).done
    BY DEF NewItem
  <1> QED
    BY <1>2, <1>3, <1>4 DEF UpdateInsert

\* What a request leaves to do after a read of the lines.
LEMMA ExecuteReadStep ==
    ASSUME TypeOK, NEW c \in Clients, ExecuteRead(c)
    PROVE  \E i \in Kept, completed \in BOOLEAN :
              /\ items[i].mode = "ON_SITE"
              /\ request'[c] = [step |-> "execute", id |-> i, completed |-> completed]
              /\ Alone(c) /\ UNCHANGED <<dossier, lines, share, notices>>
  <1>1. PICK i \in Kept, completed \in BOOLEAN :
           /\ items[i].mode = "ON_SITE"
           /\ Then(c, [step |-> "execute", id |-> i, completed |-> completed])
    BY DEF ExecuteRead
  <1> QED
    BY <1>1, NextRequest DEF ExecuteRead, TypeOK, Alone

LEMMA OrderReadStep ==
    ASSUME TypeOK, NEW c \in Clients, OrderRead(c)
    PROVE  \E i \in DOMAIN items, body \in PartOrders :
              /\ items[i].active
              /\ request'[c] = [step |-> "order", id |-> i, body |-> body]
              /\ Alone(c) /\ UNCHANGED <<dossier, lines, share, notices>>
  <1>1. PICK i \in DOMAIN items, body \in PartOrders :
           /\ items[i].active
           /\ Then(c, [step |-> "order", id |-> i, body |-> body])
    BY DEF OrderRead
  <1> QED
    BY <1>1, NextRequest DEF OrderRead, TypeOK, Alone

LEMMA OperateReadStep ==
    ASSUME TypeOK, NEW c \in Clients, OperateRead(c)
    PROVE  \E i \in DOMAIN items, active \in BOOLEAN :
              /\ request'[c] = [step |-> "operate", id |-> i, active |-> active,
                                counted |-> Recount(i, active)]
              /\ Alone(c) /\ UNCHANGED <<dossier, lines, share, notices>>
  <1>1. PICK i \in DOMAIN items, active \in BOOLEAN :
           Then(c, [step |-> "operate", id |-> i, active |-> active, counted |-> Recount(i, active)])
    BY DEF OperateRead
  <1> QED
    BY <1>1, NextRequest DEF OperateRead, TypeOK, Alone

LEMMA FinalizeReadStep ==
    ASSUME TypeOK, NEW c \in Clients, FinalizeRead(c)
    PROVE  \E kept \in SUBSET DOMAIN items : \E mode \in [kept -> ExecutionModes] :
              /\ request'[c] = FinalizePlan(mode)
              /\ Alone(c) /\ UNCHANGED <<dossier, lines, share, notices>>
  <1>1. PICK kept \in SUBSET DOMAIN items : \E mode \in [kept -> ExecutionModes] :
                 Then(c, FinalizePlan(mode))
    BY DEF FinalizeRead
  <1>2. PICK mode \in [kept -> ExecutionModes] : Then(c, FinalizePlan(mode))
    BY <1>1
  <1> QED
    BY <1>2, NextRequest DEF FinalizeRead, TypeOK, Alone

LEMMA LineReadStep ==
    ASSUME TypeOK, NEW c \in Clients,
           ExecuteRead(c) \/ OrderRead(c) \/ OperateRead(c)
    PROVE  /\ request'[c].step \in {"execute", "order", "operate"}
           /\ Alone(c) /\ UNCHANGED <<dossier, lines, share, notices>>
  <1>1. CASE ExecuteRead(c)
    <2>1. PICK i \in Kept, completed \in BOOLEAN :
             /\ request'[c] = [step |-> "execute", id |-> i, completed |-> completed]
             /\ Alone(c) /\ UNCHANGED <<dossier, lines, share, notices>>
      BY <1>1, ExecuteReadStep
    <2> QED
      BY <2>1
  <1>2. CASE OrderRead(c)
    <2>1. PICK i \in DOMAIN items, body \in PartOrders :
             /\ request'[c] = [step |-> "order", id |-> i, body |-> body]
             /\ Alone(c) /\ UNCHANGED <<dossier, lines, share, notices>>
      BY <1>2, OrderReadStep
    <2> QED
      BY <2>1
  <1>3. CASE OperateRead(c)
    <2>1. PICK i \in DOMAIN items, active \in BOOLEAN :
             /\ request'[c] = [step |-> "operate", id |-> i, active |-> active,
                               counted |-> Recount(i, active)]
             /\ Alone(c) /\ UNCHANGED <<dossier, lines, share, notices>>
      BY <1>3, OperateReadStep
    <2> QED
      BY <2>1
  <1> QED
    BY <1>1, <1>2, <1>3

LEMMA FailStep ==
    ASSUME TypeOK, NEW c \in Clients, Fail(c)
    PROVE  request'[c] = Idle /\ Alone(c) /\ UNCHANGED <<dossier, lines, share, notices>>
  BY NextRequest DEF Fail, TypeOK, Alone

\* The other handlers leave the lines and the totals alone.
Elsewhere(c) ==
    \/ CompleteRead(c) \/ CompleteWrite(c) \/ UpdateRead(c)
    \/ ShareRead(c, TRUE) \/ ShareRead(c, FALSE) \/ ShareFind(c) \/ ShareWrite(c)
    \/ SendMail(c) \/ MarkTaken(c) \/ TakeChargeRead(c) \/ TakeChargeWrite(c)
    \/ RecoverRead(c) \/ RecoverWrite(c) \/ NotifyRead(c) \/ NotifyWrite(c)
    \/ SettleRead(c) \/ SettleWrite(c)

LEMMA ElsewhereStep ==
    ASSUME TypeOK, NEW c \in Clients, Elsewhere(c)
    PROVE  /\ UNCHANGED <<items, issued, totals>> /\ Alone(c)
           /\ request'[c].step \notin {"updateCommit", "finalize", "operate", "execute", "order"}
  <1>1. PICK next : Then(c, next) /\ next.step \notin {"updateCommit", "finalize", "operate", "execute", "order"}
    <2>1. CASE CompleteRead(c) \/ CompleteWrite(c) \/ UpdateRead(c)
      BY <2>1 DEF CompleteRead, CompleteWrite, UpdateRead, Fail, Idle
    <2>2. CASE ShareRead(c, TRUE) \/ ShareRead(c, FALSE) \/ ShareFind(c)
      BY <2>2 DEF ShareRead, ShareFind
    <2>3. CASE ShareWrite(c)
      BY <2>3 DEF ShareWrite, Fail, Idle
    <2>4. CASE SendMail(c) \/ MarkTaken(c)
      BY <2>4 DEF SendMail, MarkTaken, Fail, Idle
    <2>5. CASE TakeChargeRead(c) \/ TakeChargeWrite(c)
      BY <2>5 DEF TakeChargeRead, TakeChargeWrite, Fail, Idle
    <2>6. CASE RecoverRead(c)
      BY <2>6 DEF RecoverRead
    <2>7. CASE RecoverWrite(c)
      BY <2>7 DEF RecoverWrite, Fail, Idle
    <2>8. CASE NotifyRead(c) \/ NotifyWrite(c)
      BY <2>8 DEF NotifyRead, NotifyWrite, Fail, Idle
    <2>9. CASE SettleRead(c) \/ SettleWrite(c)
      BY <2>9 DEF SettleRead, SettleWrite, Fail, Idle
    <2> QED
      BY <2>1, <2>2, <2>3, <2>4, <2>5, <2>6, <2>7, <2>8, <2>9 DEF Elsewhere
  <1>2. UNCHANGED <<items, issued, totals>>
    BY DEF Elsewhere, CompleteRead, CompleteWrite, UpdateRead, ShareRead, ShareFind, ShareWrite,
           SendMail, MarkTaken, TakeChargeRead, TakeChargeWrite, RecoverRead, RecoverWrite,
           NotifyRead, NotifyWrite, SettleRead, SettleWrite, Fail, dossier, lines
  <1> QED
    BY <1>1, <1>2, NextRequest DEF TypeOK, Alone

LEMMA HandlerSteps ==
    ASSUME NEW c \in Clients, Handler(c) \/ Crash(c)
    PROVE  \/ Fail(c) \/ Elsewhere(c)
           \/ UpdateDelete(c) \/ UpdateCommit(c) \/ FinalizeRead(c) \/ FinalizeWrite(c)
           \/ ExecuteRead(c) \/ ExecuteWrite(c) \/ OrderRead(c) \/ OrderWrite(c)
           \/ OperateRead(c) \/ OperateCommit(c)
  BY DEF Handler, Crash, Elsewhere

-----------------------------------------------------------------------------
(* The totals agree with the lines *)

\* Two edits of the form, or an operational change with another one or with a summary.
EditsApart ==
    /\ Apart({"updateCommit"}, {"updateCommit"})
    /\ Apart({"operate"}, {"operate", "finalize"})

\* What a request is about to write into the totals is what the lines will then add up.
Counted(c) ==
    LET r == request[c] IN
    /\ Does(c, "updateCommit") => DOMAIN items \subseteq r.seen
    /\ Does(c, "finalize") =>
          /\ DOMAIN r.mode \subseteq issued /\ r.counted \subseteq DOMAIN r.mode
          /\ \A i \in DOMAIN r.mode \cap DOMAIN items : i \in r.counted <=> items[i].active
    /\ Does(c, "operate") =>
          /\ r.id \in issued
          /\ r.id \in DOMAIN items => r.counted = Recount(r.id, r.active)

TotalsInv == TotalsAgree /\ \A c \in Clients : Counted(c)

LEMMA TotalsSame ==
    ASSUME TypeOK, TotalsInv, NEW c \in Clients, Alone(c), UNCHANGED <<items, issued, totals>>,
           Counted(c)'
    PROVE  TotalsInv'
  <1>1. ASSUME NEW d \in Clients, d # c PROVE Counted(d)'
    <2>1. Counted(d)
      BY DEF TotalsInv
    <2>2. request'[d] = request[d]
      BY <1>1 DEF Alone
    <2> QED
      BY <2>1, <2>2 DEF Counted, Does, Recount, Kept
  <1>2. TotalsAgree'
    BY DEF TotalsInv, TotalsAgree, Kept
  <1> QED
    BY <1>1, <1>2 DEF TotalsInv

\* A step that keeps which lines are active and selected keeps the sums.
LEMMA TotalsNoMatter ==
    ASSUME TypeOK, TotalsInv, NEW c \in Clients, Alone(c),
           DOMAIN items' = DOMAIN items, UNCHANGED <<issued, totals>>,
           \A i \in DOMAIN items : /\ items'[i].active = items[i].active
                                   /\ items'[i].selected = items[i].selected,
           request'[c].step \notin {"updateCommit", "finalize", "operate"}
    PROVE  TotalsInv'
  <1>1. Kept' = Kept
    BY DEF Kept
  <1>2. ASSUME NEW d \in Clients, d # c PROVE Counted(d)'
    <2>1. Counted(d)
      BY DEF TotalsInv
    <2>2. request'[d] = request[d]
      BY <1>2 DEF Alone
    <2>3. \A i \in DOMAIN items : \A a : Recount(i, a)' = Recount(i, a)
      BY <1>1 DEF Recount
    <2> QED
      BY <2>1, <2>2, <2>3 DEF Counted, Does
  <1>3. Counted(c)'
    BY DEF Counted, Does
  <1> QED
    BY <1>1, <1>2, <1>3 DEF TotalsInv, TotalsAgree

LEMMA TotalsUpdate ==
    ASSUME TypeOK, TotalsInv, EditsApart, NEW c \in Clients, UpdateCommit(c), ~Fail(c)
    PROVE  TotalsInv'
  <1>1. PICK new \in SUBSET (ItemIds \ issued) :
           /\ DOMAIN items' = (DOMAIN items \ request[c].seen) \cup new
           /\ issued' = issued \cup new /\ totals' = new
           /\ \A i \in new : items'[i].active /\ items'[i].selected
           /\ \A i \in DOMAIN items' \ new : i \in DOMAIN items /\ items'[i] = items[i]
           /\ request'[c] = Idle /\ Alone(c)
    BY UpdateStep
  <1>2. DOMAIN items' = new
    BY <1>1 DEF UpdateCommit, TotalsInv, Counted
  <1>3. TotalsAgree'
    BY <1>1, <1>2 DEF TotalsAgree, Kept
  <1>4. ASSUME NEW d \in Clients, d # c PROVE Counted(d)'
    <2>1. Counted(d) /\ request'[d] = request[d] /\ ~Does(d, "updateCommit")
      BY <1>1, <1>4 DEF TotalsInv, Alone, EditsApart, Apart, UpdateCommit, Does
    <2>2. \A i \in issued : i \notin DOMAIN items'
      BY <1>2
    <2> QED
      BY <1>1, <2>1, <2>2 DEF Counted, Does
  <1>5. Counted(c)'
    BY <1>1 DEF Counted, Does, Idle
  <1> QED
    BY <1>3, <1>4, <1>5 DEF TotalsInv

LEMMA TotalsFinalize ==
    ASSUME TypeOK, TotalsInv, EditsApart, NEW c \in Clients, FinalizeWrite(c), ~Fail(c)
    PROVE  TotalsInv'
  <1> DEFINE r == request[c]
  <1>1. /\ DOMAIN r.mode \subseteq DOMAIN items
        /\ DOMAIN items' = DOMAIN items /\ issued' = issued /\ totals' = r.counted
        /\ \A i \in DOMAIN items : /\ items'[i].active = items[i].active
                                   /\ items'[i].selected = (i \in DOMAIN r.mode)
        /\ request'[c] = Idle /\ Alone(c)
    BY FinalizeStep
  <1>2. TotalsAgree'
    BY <1>1 DEF TotalsAgree, Kept, TotalsInv, Counted, FinalizeWrite
  <1>3. ASSUME NEW d \in Clients, d # c PROVE Counted(d)'
    <2>1. Counted(d) /\ request'[d] = request[d] /\ ~Does(d, "operate")
      BY <1>1, <1>3 DEF TotalsInv, Alone, EditsApart, Apart, FinalizeWrite, Does
    <2> QED
      BY <1>1, <2>1 DEF Counted, Does
  <1>4. Counted(c)'
    BY <1>1 DEF Counted, Does, Idle
  <1> QED
    BY <1>2, <1>3, <1>4 DEF TotalsInv

LEMMA TotalsOperate ==
    ASSUME TypeOK, TotalsInv, EditsApart, NEW c \in Clients, OperateCommit(c), ~Fail(c)
    PROVE  TotalsInv'
  <1> DEFINE r == request[c]
  <1>1. /\ r.id \in DOMAIN items /\ r.active \in BOOLEAN
        /\ DOMAIN items' = DOMAIN items /\ issued' = issued /\ totals' = r.counted
        /\ items'[r.id].active = r.active /\ items'[r.id].selected = items[r.id].selected
        /\ \A i \in DOMAIN items : i # r.id => items'[i] = items[i]
        /\ request'[c] = Idle /\ Alone(c)
    BY OperateStep
  <1>2. totals' = Recount(r.id, r.active)
    BY <1>1 DEF OperateCommit, TotalsInv, Counted
  <1>3. TotalsAgree'
    BY <1>1, <1>2 DEF TotalsAgree, Kept, Recount
  <1>4. ASSUME NEW d \in Clients, d # c PROVE Counted(d)'
    <2>1. /\ Counted(d) /\ request'[d] = request[d]
          /\ ~Does(d, "operate") /\ ~Does(d, "finalize")
      BY <1>1, <1>4 DEF TotalsInv, Alone, EditsApart, Apart, OperateCommit, Does
    <2> QED
      BY <1>1, <2>1 DEF Counted, Does
  <1>5. Counted(c)'
    BY <1>1 DEF Counted, Does, Idle
  <1> QED
    BY <1>3, <1>4, <1>5 DEF TotalsInv

LEMMA TotalsHandler ==
    ASSUME TypeOK, TotalsInv, EditsApart, NEW c \in Clients, Handler(c) \/ Crash(c)
    PROVE  TotalsInv'
  <1>1. CASE Fail(c)
    BY <1>1, FailStep, TotalsSame DEF Counted, Does, Idle, dossier, lines
  <1>2. CASE Elsewhere(c)
    BY <1>2, ElsewhereStep, TotalsSame DEF Counted, Does
  <1>3. CASE UpdateDelete(c)
    <2>1. request'[c].step = "updateCommit" /\ request'[c].seen = DOMAIN items /\ Alone(c)
      BY <1>3, NextRequest DEF UpdateDelete, TypeOK, Alone
    <2> QED
      BY <1>3, <2>1, TotalsSame DEF Counted, Does, UpdateDelete, dossier, lines
  <1>4. CASE FinalizeRead(c)
    <2>1. PICK kept \in SUBSET DOMAIN items : \E mode \in [kept -> ExecutionModes] :
             /\ request'[c] = FinalizePlan(mode)
             /\ Alone(c) /\ UNCHANGED <<dossier, lines, share, notices>>
      BY <1>4, FinalizeReadStep
    <2>2. PICK mode \in [kept -> ExecutionModes] :
             /\ request'[c] = FinalizePlan(mode)
             /\ Alone(c) /\ UNCHANGED <<dossier, lines, share, notices>>
      BY <2>1
    <2>3. /\ request'[c].step = "finalize" /\ request'[c].mode = mode
          /\ request'[c].counted = {i \in DOMAIN mode : items[i].active}
      BY <2>2 DEF FinalizePlan
    <2>4. Counted(c)'
      BY <2>2, <2>3 DEF Counted, Does, TypeOK, lines
    <2> QED
      BY <2>2, <2>4, TotalsSame DEF dossier, lines
  <1>5. CASE ExecuteRead(c)
    <2>1. PICK i \in Kept, completed \in BOOLEAN :
             /\ request'[c] = [step |-> "execute", id |-> i, completed |-> completed]
             /\ Alone(c) /\ UNCHANGED <<dossier, lines, share, notices>>
      BY <1>5, ExecuteReadStep
    <2> QED
      BY <2>1, TotalsSame DEF Counted, Does, dossier, lines
  <1>6. CASE OrderRead(c)
    <2>1. PICK i \in DOMAIN items, body \in PartOrders :
             /\ request'[c] = [step |-> "order", id |-> i, body |-> body]
             /\ Alone(c) /\ UNCHANGED <<dossier, lines, share, notices>>
      BY <1>6, OrderReadStep
    <2> QED
      BY <2>1, TotalsSame DEF Counted, Does, dossier, lines
  <1>7. CASE OperateRead(c)
    <2>1. PICK i \in DOMAIN items, active \in BOOLEAN :
             /\ request'[c] = [step |-> "operate", id |-> i, active |-> active,
                               counted |-> Recount(i, active)]
             /\ Alone(c) /\ UNCHANGED <<dossier, lines, share, notices>>
      BY <1>7, OperateReadStep
    <2>2. UNCHANGED <<items, issued, totals>> /\ i \in issued
      BY <2>1 DEF dossier, lines, TypeOK
    <2>3. Counted(c)'
      BY <2>1, <2>2 DEF Counted, Does, Recount, Kept
    <2> QED
      BY <2>1, <2>2, <2>3, TotalsSame
  <1>8. CASE (ExecuteWrite(c) \/ OrderWrite(c)) /\ ~Fail(c)
    <2>1. /\ \A i \in DOMAIN items : /\ items'[i].active = items[i].active
                                     /\ items'[i].selected = items[i].selected
          /\ DOMAIN items' = DOMAIN items /\ Alone(c)
          /\ request'[c].step \in {"idle", "settle"} /\ UNCHANGED <<issued, dossier>>
      BY <1>8, ExecuteStep, OrderStep
    <2> QED
      BY <2>1, TotalsNoMatter DEF dossier
  <1> QED
    BY <1>1, <1>2, <1>3, <1>4, <1>5, <1>6, <1>7, <1>8, HandlerSteps,
       TotalsUpdate, TotalsFinalize, TotalsOperate

LEMMA TotalsNext == TypeOK /\ EditsApart /\ TotalsInv /\ [Next]_vars => TotalsInv'
  <1> SUFFICES ASSUME TypeOK, EditsApart, TotalsInv, [Next]_vars PROVE TotalsInv'
    OBVIOUS
  <1>1. CASE Remove
    <2>1. DOMAIN items' = {} /\ UNCHANGED <<issued, request>> /\ totals' = {}
      BY <1>1 DEF Remove
    <2> QED
      BY <2>1 DEF TotalsInv, TotalsAgree, Kept, Counted, Does
  <1>2. CASE UNCHANGED vars
    BY <1>2 DEF vars, dossier, lines, TotalsInv, TotalsAgree, Kept, Counted, Does, Recount
  <1> QED
    BY <1>1, <1>2, TotalsHandler DEF Next

LEMMA TotalsInit == Init => TotalsInv
  <1> SUFFICES ASSUME Init PROVE TotalsInv
    OBVIOUS
  <1>1. PICK content \in [issued -> NewLines] : items = [i \in issued |-> NewItem(content[i])]
    BY DEF Init
  <1>2. totals = issued /\ \A c \in Clients : request[c].step = "idle"
    BY DEF Init, Idle
  <1>3. \A i \in issued : items[i].active /\ items[i].selected
    BY <1>1 DEF NewItem
  <1> QED
    BY <1>1, <1>2, <1>3 DEF TotalsInv, TotalsAgree, Kept, Counted, Does

\* The stored totals add up the lines of the summary as long as no two edits of the form
\* overlap, nor an operational change with another one or with a summary.
THEOREM TotalsAlwaysAgree == Spec /\ []EditsApart => []TotalsAgree
  <1>1. TotalsInv => TotalsAgree
    BY DEF TotalsInv
  <1> QED
    BY <1>1, TypeCorrect, TotalsInit, TotalsNext, PTL DEF Spec

-----------------------------------------------------------------------------
(* Work belongs to the summary *)

\* An execution with a summary or an operational change, or an operational change with
\* a part order or a summary.
WorkApart ==
    /\ Apart({"execute"}, {"finalize", "operate"})
    /\ Apart({"operate"}, {"order", "finalize"})

\* What a request is about to write into a line is still allowed on that line.
Working(c) ==
    LET r == request[c] IN
    /\ Does(c, "finalize") =>
          /\ DOMAIN r.mode \subseteq issued /\ r.done \subseteq DOMAIN r.mode
          /\ \A i \in r.done : /\ r.mode[i] = "ON_SITE"
                               /\ i \in DOMAIN items => items[i].active
    /\ Does(c, "operate") => r.id \in issued
    /\ Does(c, "execute") =>
          /\ r.id \in issued
          /\ r.id \in DOMAIN items => /\ items[r.id].active /\ items[r.id].selected
                                      /\ items[r.id].mode = "ON_SITE"
    /\ Does(c, "order") =>
          /\ r.id \in issued
          /\ r.id \in DOMAIN items => items[r.id].active

WorkInv == WorkBelongsToSummary /\ \A c \in Clients : Working(c)

\* A step that deletes or adds lines, or leaves a line active and assigned as it was,
\* takes nothing from what another request may do.
LEMMA WorkOther ==
    ASSUME TypeOK, NEW d \in Clients, Working(d), request'[d] = request[d],
           issued \subseteq issued',
           \A i \in DOMAIN items' \cap issued :
              /\ i \in DOMAIN items /\ items'[i].active = items[i].active
              /\ Does(d, "execute") => /\ items'[i].selected = items[i].selected
                                       /\ items'[i].mode = items[i].mode
    PROVE  Working(d)'
  BY DEF Working, Does

LEMMA WorkSame ==
    ASSUME TypeOK, WorkInv, NEW c \in Clients, Alone(c), UNCHANGED <<items, issued>>,
           Working(c)'
    PROVE  WorkInv'
  <1>1. ASSUME NEW d \in Clients, d # c PROVE Working(d)'
    BY <1>1, WorkOther DEF WorkInv, Alone, TypeOK
  <1>2. WorkBelongsToSummary'
    BY DEF WorkInv, WorkBelongsToSummary, Kept
  <1> QED
    BY <1>1, <1>2 DEF WorkInv

LEMMA WorkUpdate ==
    ASSUME TypeOK, WorkInv, NEW c \in Clients, UpdateCommit(c), ~Fail(c)
    PROVE  WorkInv'
  <1>1. PICK new \in SUBSET (ItemIds \ issued) :
           /\ DOMAIN items' = (DOMAIN items \ request[c].seen) \cup new
           /\ issued' = issued \cup new
           /\ \A i \in new : items'[i].active /\ ~items'[i].done
           /\ \A i \in DOMAIN items' \ new : i \in DOMAIN items /\ items'[i] = items[i]
           /\ request'[c] = Idle /\ Alone(c)
    BY UpdateStep
  <1>2. WorkBelongsToSummary'
    BY <1>1 DEF WorkInv, WorkBelongsToSummary, Kept
  <1>3. ASSUME NEW d \in Clients, d # c PROVE Working(d)'
    BY <1>1, <1>3, WorkOther DEF WorkInv, Alone
  <1>4. Working(c)'
    BY <1>1 DEF Working, Does, Idle
  <1> QED
    BY <1>2, <1>3, <1>4 DEF WorkInv

LEMMA WorkFinalize ==
    ASSUME TypeOK, WorkInv, WorkApart, NEW c \in Clients, FinalizeWrite(c), ~Fail(c)
    PROVE  WorkInv'
  <1> DEFINE r == request[c]
  <1>1. /\ DOMAIN r.mode \subseteq DOMAIN items
        /\ DOMAIN items' = DOMAIN items /\ issued' = issued
        /\ \A i \in DOMAIN items :
              /\ items'[i].active = items[i].active /\ items'[i].part = items[i].part
              /\ items'[i].selected = (i \in DOMAIN r.mode)
              /\ items'[i].mode = IF i \in DOMAIN r.mode THEN r.mode[i] ELSE "NONE"
              /\ items'[i].done = (i \in r.done)
        /\ request'[c] = Idle /\ Alone(c)
    BY FinalizeStep
  <1>2. /\ r.done \subseteq DOMAIN r.mode
        /\ \A i \in r.done : r.mode[i] = "ON_SITE" /\ (i \in DOMAIN items => items[i].active)
    BY DEF WorkInv, Working, FinalizeWrite
  <1>3. WorkBelongsToSummary'
    BY <1>1, <1>2 DEF WorkInv, WorkBelongsToSummary, Kept
  <1>4. ASSUME NEW d \in Clients, d # c PROVE Working(d)'
    <2>1. Working(d) /\ request'[d] = request[d] /\ ~Does(d, "execute")
      BY <1>1, <1>4 DEF WorkInv, Alone, WorkApart, Apart, FinalizeWrite, Does
    <2> QED
      BY <1>1, <2>1, WorkOther
  <1>5. Working(c)'
    BY <1>1 DEF Working, Does, Idle
  <1> QED
    BY <1>3, <1>4, <1>5 DEF WorkInv

LEMMA WorkOperate ==
    ASSUME TypeOK, WorkInv, WorkApart, NEW c \in Clients, OperateCommit(c), ~Fail(c)
    PROVE  WorkInv'
  <1> DEFINE r == request[c]
  <1>1. /\ r.id \in DOMAIN items /\ r.active \in BOOLEAN
        /\ DOMAIN items' = DOMAIN items /\ issued' = issued
        /\ LET old == items[r.id]  new == items'[r.id] IN
           /\ new.active = r.active /\ new.selected = old.selected /\ new.mode = old.mode
           /\ r.active => new.done = old.done /\ new.part = old.part
           /\ ~r.active => ~new.done /\ new.part = "NOT_REQUIRED"
        /\ \A i \in DOMAIN items : i # r.id => items'[i] = items[i]
        /\ request'[c] = Idle /\ Alone(c)
    BY OperateStep
  <1>2. WorkBelongsToSummary'
    BY <1>1 DEF WorkInv, WorkBelongsToSummary, Kept
  <1>3. ASSUME NEW d \in Clients, d # c PROVE Working(d)'
    <2>1. /\ Working(d) /\ request'[d] = request[d]
          /\ ~Does(d, "execute") /\ ~Does(d, "order") /\ ~Does(d, "finalize")
      BY <1>1, <1>3 DEF WorkInv, Alone, WorkApart, Apart, OperateCommit, Does
    <2> QED
      BY <1>1, <2>1 DEF Working, Does
  <1>4. Working(c)'
    BY <1>1 DEF Working, Does, Idle
  <1> QED
    BY <1>2, <1>3, <1>4 DEF WorkInv

LEMMA WorkExecute ==
    ASSUME TypeOK, WorkInv, NEW c \in Clients, ExecuteWrite(c), ~Fail(c)
    PROVE  WorkInv'
  <1> DEFINE r == request[c]
  <1>1. /\ r.id \in DOMAIN items /\ DOMAIN items' = DOMAIN items /\ issued' = issued
        /\ \A i \in DOMAIN items :
              /\ items'[i].active = items[i].active /\ items'[i].selected = items[i].selected
              /\ items'[i].mode = items[i].mode /\ items'[i].part = items[i].part
              /\ i # r.id => items'[i] = items[i]
        /\ request'[c].step \in {"idle", "settle"} /\ Alone(c)
    BY ExecuteStep
  <1>2. items[r.id].active /\ items[r.id].selected /\ items[r.id].mode = "ON_SITE"
    BY <1>1 DEF WorkInv, Working, ExecuteWrite
  <1>3. WorkBelongsToSummary'
    BY <1>1, <1>2 DEF WorkInv, WorkBelongsToSummary, Kept
  <1>4. ASSUME NEW d \in Clients, d # c PROVE Working(d)'
    BY <1>1, <1>4, WorkOther DEF WorkInv, Alone
  <1>5. Working(c)'
    BY <1>1 DEF Working, Does
  <1> QED
    BY <1>3, <1>4, <1>5 DEF WorkInv

LEMMA WorkOrder ==
    ASSUME TypeOK, WorkInv, NEW c \in Clients, OrderWrite(c), ~Fail(c)
    PROVE  WorkInv'
  <1> DEFINE r == request[c]
  <1>1. /\ r.id \in DOMAIN items /\ DOMAIN items' = DOMAIN items /\ issued' = issued
        /\ \A i \in DOMAIN items :
              /\ items'[i].active = items[i].active /\ items'[i].selected = items[i].selected
              /\ items'[i].mode = items[i].mode /\ items'[i].done = items[i].done
              /\ i # r.id => items'[i] = items[i]
        /\ request'[c].step \in {"idle", "settle"} /\ Alone(c)
    BY OrderStep
  <1>2. items[r.id].active
    BY <1>1 DEF WorkInv, Working, OrderWrite
  <1>3. WorkBelongsToSummary'
    BY <1>1, <1>2 DEF WorkInv, WorkBelongsToSummary, Kept
  <1>4. ASSUME NEW d \in Clients, d # c PROVE Working(d)'
    BY <1>1, <1>4, WorkOther DEF WorkInv, Alone
  <1>5. Working(c)'
    BY <1>1 DEF Working, Does
  <1> QED
    BY <1>3, <1>4, <1>5 DEF WorkInv

LEMMA WorkHandler ==
    ASSUME TypeOK, WorkInv, WorkApart, NEW c \in Clients, Handler(c) \/ Crash(c)
    PROVE  WorkInv'
  <1>1. CASE Fail(c)
    <2>1. Working(c)'
      BY <1>1, FailStep DEF Working, Does, Idle
    <2> QED
      BY <1>1, <2>1, FailStep, WorkSame DEF lines
  <1>2. CASE Elsewhere(c)
    <2>1. Working(c)'
      BY <1>2, ElsewhereStep DEF Working, Does
    <2> QED
      BY <1>2, <2>1, ElsewhereStep, WorkSame
  <1>3. CASE UpdateDelete(c)
    <2>1. request'[c].step = "updateCommit" /\ Alone(c)
      BY <1>3, NextRequest DEF UpdateDelete, TypeOK, Alone
    <2> QED
      BY <1>3, <2>1, WorkSame DEF Working, Does, UpdateDelete, lines
  <1>4. CASE FinalizeRead(c)
    <2>1. PICK kept \in SUBSET DOMAIN items : \E mode \in [kept -> ExecutionModes] :
             /\ request'[c] = FinalizePlan(mode)
             /\ Alone(c) /\ UNCHANGED <<dossier, lines, share, notices>>
      BY <1>4, FinalizeReadStep
    <2>2. PICK mode \in [kept -> ExecutionModes] :
             /\ request'[c] = FinalizePlan(mode)
             /\ Alone(c) /\ UNCHANGED <<dossier, lines, share, notices>>
      BY <2>1
    <2>3. /\ request'[c].step = "finalize" /\ request'[c].mode = mode
          /\ request'[c].done = {i \in DOMAIN mode : /\ mode[i] = "ON_SITE"
                                                     /\ items[i].mode = "ON_SITE" /\ items[i].done}
      BY <2>2 DEF FinalizePlan
    <2>4. items' = items /\ issued' = issued /\ DOMAIN mode \subseteq DOMAIN items
      BY <2>1, <2>2 DEF lines
    <2>5. \A i \in request'[c].done : mode[i] = "ON_SITE" /\ items[i].active
      BY <2>3, <2>4 DEF WorkInv, WorkBelongsToSummary, Kept
    <2>6. Working(c)'
      BY <2>3, <2>4, <2>5 DEF Working, Does, TypeOK
    <2> QED
      BY <2>2, <2>4, <2>6, WorkSame
  <1>5. CASE ExecuteRead(c)
    <2>1. PICK i \in Kept, completed \in BOOLEAN :
             /\ items[i].mode = "ON_SITE"
             /\ request'[c] = [step |-> "execute", id |-> i, completed |-> completed]
             /\ Alone(c) /\ UNCHANGED <<dossier, lines, share, notices>>
      BY <1>5, ExecuteReadStep
    <2>2. Working(c)'
      BY <2>1 DEF Working, Does, Kept, TypeOK, lines
    <2> QED
      BY <2>1, <2>2, WorkSame DEF lines
  <1>6. CASE OrderRead(c)
    <2>1. PICK i \in DOMAIN items, body \in PartOrders :
             /\ items[i].active
             /\ request'[c] = [step |-> "order", id |-> i, body |-> body]
             /\ Alone(c) /\ UNCHANGED <<dossier, lines, share, notices>>
      BY <1>6, OrderReadStep
    <2>2. Working(c)'
      BY <2>1 DEF Working, Does, TypeOK, lines
    <2> QED
      BY <2>1, <2>2, WorkSame DEF lines
  <1>7. CASE OperateRead(c)
    <2>1. PICK i \in DOMAIN items, active \in BOOLEAN :
             /\ request'[c] = [step |-> "operate", id |-> i, active |-> active,
                               counted |-> Recount(i, active)]
             /\ Alone(c) /\ UNCHANGED <<dossier, lines, share, notices>>
      BY <1>7, OperateReadStep
    <2>2. Working(c)'
      BY <2>1 DEF Working, Does, TypeOK, lines
    <2> QED
      BY <2>1, <2>2, WorkSame DEF lines
  <1> QED
    BY <1>1, <1>2, <1>3, <1>4, <1>5, <1>6, <1>7, HandlerSteps,
       WorkUpdate, WorkFinalize, WorkExecute, WorkOrder, WorkOperate

LEMMA WorkNext == TypeOK /\ WorkApart /\ WorkInv /\ [Next]_vars => WorkInv'
  <1> SUFFICES ASSUME TypeOK, WorkApart, WorkInv, [Next]_vars PROVE WorkInv'
    OBVIOUS
  <1>1. CASE Remove
    <2>1. DOMAIN items' = {} /\ UNCHANGED <<issued, request>>
      BY <1>1 DEF Remove
    <2> QED
      BY <2>1 DEF WorkInv, WorkBelongsToSummary, Working, Does
  <1>2. CASE UNCHANGED vars
    BY <1>2 DEF vars, lines, WorkInv, WorkBelongsToSummary, Kept, Working, Does
  <1> QED
    BY <1>1, <1>2, WorkHandler DEF Next

LEMMA WorkInit == Init => WorkInv
  <1> SUFFICES ASSUME Init PROVE WorkInv
    OBVIOUS
  <1>1. PICK content \in [issued -> NewLines] : items = [i \in issued |-> NewItem(content[i])]
    BY DEF Init
  <1>2. \A c \in Clients : request[c].step = "idle"
    BY DEF Init, Idle
  <1>3. \A i \in issued : items[i].active /\ ~items[i].done
    BY <1>1 DEF NewItem
  <1> QED
    BY <1>1, <1>2, <1>3 DEF WorkInv, WorkBelongsToSummary, Working, Does

\* Only a line that is active, selected and repaired on site is ever done, and an
\* inactive line waits for no part, as long as an execution overlaps no summary and no
\* operational change, and an operational change no part order and no summary.
THEOREM WorkAlwaysBelongs == Spec /\ []WorkApart => []WorkBelongsToSummary
  <1>1. WorkInv => WorkBelongsToSummary
    BY DEF WorkInv
  <1> QED
    BY <1>1, TypeCorrect, WorkInit, WorkNext, PTL DEF Spec

-----------------------------------------------------------------------------
(* A closed dossier is settled *)

\* What leads from the page of a ready summary to a vehicle at the provider's.
ProviderSteps == {"findShare", "writeShare", "mail", "markTaken", "takeCharge"}

\* A summary with a request that creates the link, mails it or takes the repair in charge.
ClosingApart == Apart({"finalize"}, ProviderSteps)

\* A summary is about to close the dossier only if no provider holds the vehicle.
Closing(c) ==
    Does(c, "finalize") /\ request[c].closes => (share.taken => share.recovered)

ClosedInv ==
    /\ ClosedDossierIsSettled
    /\ status = "CLOSED_NO_DAMAGE" => \A c \in Clients : request[c].step \notin ProviderSteps
    /\ \A c \in Clients : Closing(c)

\* A handler outside finalizeSummary that does not close the dossier, and leaves the link
\* as it is unless it marks the vehicle recovered.
LEMMA ClosedQuiet ==
    ASSUME TypeOK, ClosedInv, NEW c \in Clients, Alone(c),
           status' = "CLOSED_NO_DAMAGE" =>
               status = "CLOSED_NO_DAMAGE" /\ request'[c].step \notin ProviderSteps,
           \/ share' = share
           \/ share'.recovered /\ share'.enabled = share.enabled,
           request'[c].step # "finalize"
    PROVE  ClosedInv'
  <1>1. ASSUME NEW d \in Clients PROVE Closing(d)'
    BY DEF ClosedInv, Closing, Does, Alone
  <1>2. ClosedDossierIsSettled'
    BY DEF ClosedInv, ClosedDossierIsSettled, ClosedVehicleInStation
  <1>3. status' = "CLOSED_NO_DAMAGE" => \A d \in Clients : request'[d].step \notin ProviderSteps
    BY DEF ClosedInv, Alone
  <1> QED
    BY <1>1, <1>2, <1>3 DEF ClosedInv

\* Whatever the provider's side does to the link, no summary is under way and the
\* dossier is not closed.
LEMMA ClosedProvider ==
    ASSUME TypeOK, ClosedInv, ClosingApart, NEW c \in Clients, Alone(c),
           request[c].step \in ProviderSteps, status' = status, request'[c].step # "finalize"
    PROVE  ClosedInv'
  <1>1. status' # "CLOSED_NO_DAMAGE"
    BY DEF ClosedInv
  <1>2. ASSUME NEW d \in Clients PROVE Closing(d)'
    BY DEF ClosingApart, Apart, Closing, Does, Alone
  <1>3. ClosedDossierIsSettled'
    BY <1>1 DEF ClosedDossierIsSettled, ClosedVehicleInStation
  <1> QED
    BY <1>1, <1>2, <1>3 DEF ClosedInv

LEMMA ClosedFinalize ==
    ASSUME TypeOK, ClosedInv, ClosingApart, NEW c \in Clients, FinalizeWrite(c), ~Fail(c)
    PROVE  ClosedInv'
  <1> DEFINE r == request[c]
  <1>1. /\ request'[c] = Idle /\ Alone(c)
        /\ share' = FinalizedShare(r)
        /\ status' = (IF r.closes THEN "CLOSED_NO_DAMAGE" ELSE "SUMMARY_READY")
    BY FinalizeStep
  <1>2. /\ share'.taken = share.taken /\ share'.recovered = share.recovered
        /\ r.closes => ~share'.enabled
    BY <1>1 DEF FinalizedShare, TypeOK, Share
  <1>3. r.closes => (share.taken => share.recovered)
    BY DEF ClosedInv, Closing, FinalizeWrite
  <1>4. ClosedDossierIsSettled'
    BY <1>1, <1>2, <1>3 DEF ClosedDossierIsSettled, ClosedVehicleInStation
  <1>5. ASSUME NEW d \in Clients PROVE request'[d].step \notin ProviderSteps
    BY <1>1 DEF ClosingApart, Apart, FinalizeWrite, Does, Alone, Idle, ProviderSteps
  <1>6. ASSUME NEW d \in Clients PROVE Closing(d)'
    BY <1>1, <1>2 DEF ClosedInv, Closing, Does, Alone, Idle
  <1> QED
    BY <1>4, <1>5, <1>6 DEF ClosedInv

LEMMA ClosedFinalizeRead ==
    ASSUME TypeOK, ClosedInv, NEW c \in Clients, FinalizeRead(c)
    PROVE  ClosedInv'
  <1>1. PICK kept \in SUBSET DOMAIN items : \E mode \in [kept -> ExecutionModes] :
           /\ request'[c] = FinalizePlan(mode)
           /\ Alone(c) /\ UNCHANGED <<dossier, lines, share, notices>>
    BY FinalizeReadStep
  <1>2. PICK mode \in [kept -> ExecutionModes] :
           /\ request'[c] = FinalizePlan(mode)
           /\ Alone(c) /\ UNCHANGED <<dossier, lines, share, notices>>
    BY <1>1
  <1>3. request'[c].step = "finalize" /\ (request'[c].closes => ~share.taken)
    <2> DEFINE counted == {i \in DOMAIN mode : items[i].active}
    <2>1. request'[c].step = "finalize" /\ request'[c].closes = ClosesWithoutDamage(counted)
      BY <1>2 DEF FinalizePlan
    <2> QED
      BY <2>1 DEF ClosesWithoutDamage
  <1>4. status' = status /\ share' = share
    BY <1>2 DEF dossier
  <1> QED
    BY <1>2, <1>3, <1>4 DEF ClosedInv, ClosedDossierIsSettled, ClosedVehicleInStation, Closing,
                            Does, Alone, ProviderSteps

LEMMA ClosedHandler ==
    ASSUME TypeOK, ClosedInv, ClosingApart, NEW c \in Clients, Handler(c) \/ Crash(c)
    PROVE  ClosedInv'
  <1>1. CASE Fail(c)
    BY <1>1, FailStep, ClosedQuiet DEF Idle, ProviderSteps, dossier
  <1>2. CASE ShareFind(c) \/ ShareWrite(c) \/ SendMail(c) \/ MarkTaken(c) \/ TakeChargeWrite(c)
    <2>1. Elsewhere(c) /\ status' = status
      BY <1>2 DEF Elsewhere, ShareFind, ShareWrite, SendMail, MarkTaken, TakeChargeWrite, Fail, dossier
    <2>2. request[c].step \in ProviderSteps
      BY <1>2 DEF ShareFind, ShareWrite, SendMail, MarkTaken, TakeChargeWrite, Does, ProviderSteps
    <2> QED
      BY <2>1, <2>2, ElsewhereStep, ClosedProvider
  <1>3. CASE ShareRead(c, TRUE) \/ ShareRead(c, FALSE) \/ TakeChargeRead(c)
    <2>1. Elsewhere(c) /\ status' = status /\ share' = share /\ status = "SUMMARY_READY"
      BY <1>3 DEF Elsewhere, ShareRead, TakeChargeRead, dossier
    <2> QED
      BY <2>1, ElsewhereStep, ClosedQuiet
  <1>4. CASE CompleteRead(c) \/ UpdateRead(c) \/ RecoverRead(c) \/ NotifyRead(c) \/ SettleRead(c)
    <2>1. status' = status /\ share' = share
      BY <1>4 DEF CompleteRead, UpdateRead, RecoverRead, NotifyRead, SettleRead, dossier
    <2>2. PICK next : Then(c, next) /\ next.step \notin ProviderSteps
      BY <1>4 DEF CompleteRead, UpdateRead, RecoverRead, NotifyRead, SettleRead, Idle, ProviderSteps
    <2>3. request'[c].step \notin ProviderSteps
      BY <2>2, NextRequest DEF TypeOK
    <2> QED
      BY <1>4, <2>1, <2>3, ElsewhereStep, ClosedQuiet DEF Elsewhere
  <1>5. CASE CompleteWrite(c) \/ NotifyWrite(c) \/ SettleWrite(c) \/ RecoverWrite(c)
    <2>1. /\ status' = "CLOSED_NO_DAMAGE" => status = "CLOSED_NO_DAMAGE"
          /\ \/ share' = share
             \/ share'.recovered /\ share'.enabled = share.enabled
      BY <1>5 DEF CompleteWrite, NotifyWrite, SettleWrite, RecoverWrite, Fail, dossier, TypeOK, Share
    <2>2. PICK next : Then(c, next) /\ next.step \notin ProviderSteps
      BY <1>5 DEF CompleteWrite, NotifyWrite, SettleWrite, RecoverWrite, Fail, Idle, ProviderSteps
    <2>3. request'[c].step \notin ProviderSteps
      BY <2>2, NextRequest DEF TypeOK
    <2> QED
      BY <1>5, <2>1, <2>3, ElsewhereStep, ClosedQuiet DEF Elsewhere
  <1>6. CASE UpdateDelete(c) \/ ExecuteRead(c) \/ OrderRead(c) \/ OperateRead(c)
    <2>1. status' = status /\ share' = share
      BY <1>6 DEF UpdateDelete, ExecuteRead, OrderRead, OperateRead, dossier
    <2>2. UpdateDelete(c) => request'[c].step = "updateCommit" /\ Alone(c)
      BY NextRequest DEF UpdateDelete, TypeOK, Alone
    <2> QED
      BY <1>6, <2>1, <2>2, LineReadStep, ClosedQuiet DEF ProviderSteps
  <1>7. CASE (ExecuteWrite(c) \/ OrderWrite(c) \/ OperateCommit(c)) /\ ~Fail(c)
    <2>1. /\ request'[c].step \in {"idle", "settle"} /\ Alone(c)
          /\ status' = status /\ share' = share
      BY <1>7, ExecuteStep, OrderStep, OperateStep DEF Idle, dossier
    <2> QED
      BY <2>1, ClosedQuiet DEF ProviderSteps
  <1>8. CASE UpdateCommit(c) /\ ~Fail(c)
    <2>1. /\ request'[c] = Idle /\ Alone(c) /\ share' = share
          /\ status' = "CLOSED_NO_DAMAGE" => status = "CLOSED_NO_DAMAGE"
      BY <1>8, NextRequest DEF UpdateCommit, UpdatedStatus, TypeOK, Alone
    <2> QED
      BY <2>1, ClosedQuiet DEF Idle, ProviderSteps
  <1> QED
    BY <1>1, <1>2, <1>3, <1>4, <1>5, <1>6, <1>7, <1>8, HandlerSteps, ClosedFinalize,
       ClosedFinalizeRead DEF Elsewhere

LEMMA ClosedNext == TypeOK /\ ClosingApart /\ ClosedInv /\ [Next]_vars => ClosedInv'
  <1> SUFFICES ASSUME TypeOK, ClosingApart, ClosedInv, [Next]_vars PROVE ClosedInv'
    OBVIOUS
  <1>1. CASE Remove
    BY <1>1 DEF Remove, NoShare, ClosedInv, ClosedDossierIsSettled, ClosedVehicleInStation,
                Closing, Does
  <1>2. CASE UNCHANGED vars
    BY <1>2 DEF vars, dossier, ClosedInv, ClosedDossierIsSettled, ClosedVehicleInStation,
                Closing, Does
  <1> QED
    BY <1>1, <1>2, ClosedHandler DEF Next

\* A dossier closed without damage is of a vehicle that no provider holds, and no link to
\* it works, as long as no summary overlaps the creation or mailing of the link or the
\* provider's confirmation.
THEOREM ClosedStaysSettled == Spec /\ []ClosingApart => []ClosedDossierIsSettled
  <1>1. Init => ClosedInv
    BY DEF Init, Idle, ClosedInv, ClosedDossierIsSettled, ClosedVehicleInStation, Closing, Does
  <1>2. ClosedInv => ClosedDossierIsSettled
    BY DEF ClosedInv
  <1> QED
    BY <1>1, <1>2, TypeCorrect, ClosedNext, PTL DEF Spec

-----------------------------------------------------------------------------
(* A shared link has a repair *)

\* An edit of the form with a completion of the dossier or of the field check, or a
\* summary with the creation of the link.
LinkApart ==
    /\ Apart({"updateCommit"}, {"settleWrite", "recover"})
    /\ Apart({"update", "updateCommit"}, {"complete"})
    /\ Apart({"finalize"}, {"findShare", "writeShare"})

\* The lines that were assigned to the provider.
Repairs == {i \in DOMAIN items : items[i].selected /\ items[i].mode = "EXTERNAL_PROVIDER"}

Sharing(c) == request[c].step \in {"findShare", "writeShare"}
Completing(c) == Does(c, "settleWrite") \/ (Does(c, "recover") /\ request[c].completes)
EditsDraft(c) == request[c].step \in {"update", "updateCommit"} /\ request[c].draft
OnPublicPage == status \in {"SUMMARY_READY", "COMPLETED"}

\* A link is created for a dossier that has a repair, or that will not be on the public
\* page before another summary; a dossier is completed with a link that has a repair;
\* the edit of a draft finds a draft.
LinkInv ==
    /\ SharedLinkHasRepair
    /\ \A c \in Clients : Sharing(c) =>
          \/ status = "REMOVED" \/ Repairs # {}
          \/ ~OnPublicPage /\ \A d \in Clients : ~Completing(d)
    /\ \A c \in Clients : Completing(c) /\ share.enabled => Repairs # {}
    /\ \A c \in Clients : EditsDraft(c) => status \in {"DRAFT", "REMOVED"}
    /\ \A c \in Clients : Does(c, "finalize") => request[c].counted \subseteq DOMAIN request[c].mode

LEMMA SharedMeans == SharedLinkHasRepair <=> (share.enabled /\ OnPublicPage => Repairs # {})
  BY DEF SharedLinkHasRepair, OnPublicPage, Repairs

\* A handler that leaves the status, the repairs and the link as they are.
LEMMA LinkQuiet ==
    ASSUME TypeOK, LinkInv, NEW c \in Clients, Alone(c), status' = status,
           share'.enabled = share.enabled, Repairs' = Repairs,
           Sharing(c)' => Sharing(c) \/ Repairs # {},
           Completing(c)' => status = "SUMMARY_READY",
           EditsDraft(c)' => status \in {"DRAFT", "REMOVED"},
           Does(c, "finalize")' => request'[c].counted \subseteq DOMAIN request'[c].mode
    PROVE  LinkInv'
  <1>1. \A d \in Clients \ {c} : /\ Sharing(d)' = Sharing(d) /\ Completing(d)' = Completing(d)
                                 /\ EditsDraft(d)' = EditsDraft(d)
                                 /\ Does(d, "finalize")' = Does(d, "finalize")
                                 /\ request'[d] = request[d]
    BY DEF Alone, Sharing, Completing, EditsDraft, Does
  <1>2. OnPublicPage' = OnPublicPage
    BY DEF OnPublicPage
  <1>3. SharedLinkHasRepair'
    <2>1. share'.enabled /\ OnPublicPage' => Repairs' # {}
      BY <1>2, SharedMeans DEF LinkInv
    <2> QED
      BY <2>1 DEF SharedLinkHasRepair, OnPublicPage, Repairs
  <1>4. ASSUME NEW d \in Clients, Sharing(d)'
        PROVE  \/ status' = "REMOVED" \/ Repairs' # {}
               \/ ~OnPublicPage' /\ \A e \in Clients : ~Completing(e)'
    <2>1. CASE Repairs # {}
      BY <2>1
    <2>2. CASE Repairs = {}
      <3>1. \E e \in Clients : Sharing(e)
        BY <1>1, <1>4, <2>2
      <3>2. status = "REMOVED" \/ (~OnPublicPage /\ \A e \in Clients : ~Completing(e))
        BY <2>2, <3>1 DEF LinkInv
      <3>3. ~OnPublicPage => ~Completing(c)'
        BY DEF OnPublicPage
      <3> QED
        BY <1>1, <1>2, <3>2, <3>3
    <2> QED
      BY <2>1, <2>2
  <1>5. ASSUME NEW d \in Clients, Completing(d)', share'.enabled
        PROVE  Repairs' # {}
    <2>1. CASE d = c
      BY <1>5, <2>1, SharedMeans DEF LinkInv, OnPublicPage
    <2>2. CASE d # c
      BY <1>1, <1>5, <2>2 DEF LinkInv
    <2> QED
      BY <2>1, <2>2
  <1>6. ASSUME NEW d \in Clients, EditsDraft(d)' PROVE status' \in {"DRAFT", "REMOVED"}
    BY <1>1, <1>6 DEF LinkInv
  <1>7. ASSUME NEW d \in Clients, Does(d, "finalize")'
        PROVE  request'[d].counted \subseteq DOMAIN request'[d].mode
    BY <1>1, <1>7 DEF LinkInv
  <1> QED
    BY <1>3, <1>4, <1>5, <1>6, <1>7 DEF LinkInv

LEMMA RepairsSame ==
    ASSUME DOMAIN items' = DOMAIN items,
           \A i \in DOMAIN items : /\ items'[i].selected = items[i].selected
                                   /\ items'[i].mode = items[i].mode
    PROVE  Repairs' = Repairs
  BY DEF Repairs

\* A handler that goes on with something else than what LinkInv speaks of.
LEMMA LinkAside ==
    ASSUME TypeOK, LinkInv, NEW c \in Clients, Alone(c), status' = status,
           share'.enabled = share.enabled, Repairs' = Repairs,
           request'[c].step \notin {"findShare", "writeShare", "settleWrite", "recover",
                                    "update", "updateCommit", "finalize"}
    PROVE  LinkInv'
  BY LinkQuiet DEF Sharing, Completing, EditsDraft, Does

\* Every repair of a dossier may go when its lines are replaced; it leaves the public
\* page, and nobody is about to complete it.
LEMMA LinkUpdate ==
    ASSUME TypeOK, LinkInv, DatesInv, LinkApart, NEW c \in Clients, UpdateCommit(c), ~Fail(c)
    PROVE  LinkInv'
  <1>1. /\ request'[c] = Idle /\ Alone(c) /\ share' = share
        /\ status' = UpdatedStatus(request[c].draft) /\ status # "REMOVED"
    BY NextRequest DEF UpdateCommit, TypeOK, Alone
  <1>2. request[c].draft => status = "DRAFT"
    BY <1>1 DEF LinkInv, EditsDraft, UpdateCommit, Does
  <1>3. ~request[c].draft => status # "DRAFT"
    BY DEF DatesInv, WritesLateStatus, UpdateCommit
  <1>4. status' \in {"DRAFT", "TO_ANALYZE"} /\ (status' # "DRAFT" => status # "DRAFT")
    BY <1>1, <1>2, <1>3 DEF UpdatedStatus
  <1>5. SharedLinkHasRepair'
    BY <1>4 DEF SharedLinkHasRepair
  <1>6. \A d \in Clients : ~Completing(d)'
    BY <1>1 DEF LinkApart, Apart, Completing, UpdateCommit, Does, Alone, Idle
  <1>7. ~OnPublicPage'
    BY <1>4 DEF OnPublicPage
  <1>8. ASSUME NEW d \in Clients, EditsDraft(d)' PROVE status' \in {"DRAFT", "REMOVED"}
    BY <1>1, <1>4, <1>8 DEF LinkInv, EditsDraft, Alone, Idle
  <1>9. ASSUME NEW d \in Clients, Does(d, "finalize")'
        PROVE  request'[d].counted \subseteq DOMAIN request'[d].mode
    BY <1>1, <1>9 DEF LinkInv, Does, Alone, Idle
  <1> QED
    BY <1>5, <1>6, <1>7, <1>8, <1>9 DEF LinkInv

LEMMA LinkComplete ==
    ASSUME TypeOK, LinkInv, LinkApart, NEW c \in Clients, CompleteWrite(c), ~Fail(c)
    PROVE  LinkInv'
  <1>1. /\ request'[c] = Idle /\ Alone(c) /\ UNCHANGED <<share, lines>>
        /\ status' = "TO_ANALYZE" /\ status # "REMOVED"
    BY NextRequest DEF CompleteWrite, TypeOK, Alone
  <1>2. SharedLinkHasRepair' /\ ~OnPublicPage' /\ Repairs' = Repairs
    BY <1>1 DEF SharedLinkHasRepair, OnPublicPage, Repairs, lines
  <1>3. \A d \in Clients : /\ Sharing(d)' => Sharing(d)
                           /\ Completing(d)' => Completing(d)
    BY <1>1 DEF Sharing, Completing, Does, Alone, Idle
  <1>4. \A d \in Clients : ~EditsDraft(d)'
    BY <1>1 DEF LinkApart, Apart, EditsDraft, CompleteWrite, Does, Alone, Idle
  <1>5. ASSUME NEW d \in Clients, Does(d, "finalize")'
        PROVE  request'[d].counted \subseteq DOMAIN request'[d].mode
    BY <1>1, <1>5 DEF LinkInv, Does, Alone, Idle
  <1>6. ASSUME NEW d \in Clients, Sharing(d)'
        PROVE  Repairs' # {} \/ (~OnPublicPage' /\ \A e \in Clients : ~Completing(e)')
    BY <1>1, <1>2, <1>3, <1>6 DEF LinkInv
  <1>7. ASSUME NEW d \in Clients, Completing(d)', share'.enabled PROVE Repairs' # {}
    BY <1>1, <1>2, <1>3, <1>7 DEF LinkInv
  <1> QED
    BY <1>2, <1>4, <1>5, <1>6, <1>7 DEF LinkInv

\* A summary turns the link off when it leaves no repair.
LEMMA LinkFinalize ==
    ASSUME TypeOK, LinkInv, DatesInv, LinkApart, NEW c \in Clients, FinalizeWrite(c), ~Fail(c)
    PROVE  LinkInv'
  <1> DEFINE r == request[c]
  <1>1. /\ DOMAIN r.mode \subseteq DOMAIN items /\ DOMAIN items' = DOMAIN items
        /\ \A i \in DOMAIN items :
              /\ items'[i].selected = (i \in DOMAIN r.mode)
              /\ items'[i].mode = IF i \in DOMAIN r.mode THEN r.mode[i] ELSE "NONE"
        /\ request'[c] = Idle /\ Alone(c)
        /\ share' = FinalizedShare(r)
        /\ status' = (IF r.closes THEN "CLOSED_NO_DAMAGE" ELSE "SUMMARY_READY")
    BY FinalizeStep
  <1>2. share'.enabled => \E i \in r.counted : r.mode[i] = "EXTERNAL_PROVIDER"
    BY <1>1 DEF FinalizedShare, TypeOK, Share
  <1>3. share'.enabled => Repairs' # {}
    <2>1. r.counted \subseteq DOMAIN r.mode
      BY DEF LinkInv, FinalizeWrite
    <2> QED
      BY <1>1, <1>2, <2>1 DEF Repairs
  <1>4. \A d \in Clients : ~Sharing(d)'
    BY <1>1 DEF LinkApart, Apart, Sharing, FinalizeWrite, Does, Alone, Idle
  <1>5. \A d \in Clients : ~EditsDraft(d)'
    <2>1. status \notin {"DRAFT", "REMOVED"}
      BY DEF DatesInv, WritesLateStatus, FinalizeWrite
    <2> QED
      BY <1>1, <2>1 DEF LinkInv, EditsDraft, Alone, Idle
  <1>6. ASSUME NEW d \in Clients, Does(d, "finalize")'
        PROVE  request'[d].counted \subseteq DOMAIN request'[d].mode
    BY <1>1, <1>6 DEF LinkInv, Does, Alone, Idle
  <1>7. SharedLinkHasRepair'
    BY <1>3 DEF SharedLinkHasRepair, Repairs
  <1> QED
    BY <1>3, <1>4, <1>5, <1>6, <1>7 DEF LinkInv

LEMMA LinkShareWrite ==
    ASSUME TypeOK, LinkInv, NEW c \in Clients, ShareWrite(c), ~Fail(c)
    PROVE  LinkInv'
  <1>1. /\ status # "REMOVED" /\ status' = status /\ items' = items /\ Alone(c)
        /\ request'[c].step \in {"mail", "idle"}
    BY NextRequest DEF ShareWrite, TypeOK, Alone, Idle, dossier, lines
  <1>2. Repairs' = Repairs /\ OnPublicPage' = OnPublicPage
    BY <1>1 DEF Repairs, OnPublicPage
  <1>3. Repairs # {} \/ (~OnPublicPage /\ \A d \in Clients : ~Completing(d))
    BY <1>1 DEF LinkInv, Sharing, ShareWrite, Does
  <1>4. \A d \in Clients : /\ Completing(d)' => Completing(d)
                           /\ EditsDraft(d)' => EditsDraft(d)
    BY <1>1 DEF Completing, EditsDraft, Does, Alone
  <1>5. SharedLinkHasRepair'
    <2>1. OnPublicPage' => Repairs' # {}
      BY <1>2, <1>3
    <2> QED
      BY <2>1 DEF SharedLinkHasRepair, OnPublicPage, Repairs
  <1>6. ASSUME NEW d \in Clients, Does(d, "finalize")'
        PROVE  request'[d].counted \subseteq DOMAIN request'[d].mode
    BY <1>1, <1>6 DEF LinkInv, Does, Alone
  <1>7. ASSUME NEW d \in Clients, EditsDraft(d)' PROVE status' \in {"DRAFT", "REMOVED"}
    BY <1>1, <1>4, <1>7 DEF LinkInv
  <1> QED
    BY <1>2, <1>3, <1>4, <1>5, <1>6, <1>7 DEF LinkInv

\* A completion that was decided: the link it finds has a repair.
LEMMA LinkCompletion ==
    ASSUME TypeOK, LinkInv, DatesInv, NEW c \in Clients, Alone(c), Completing(c),
           status # "REMOVED", status' = "COMPLETED", share'.enabled = share.enabled,
           items' = items, request'[c].step \in {"idle", "notify"}
    PROVE  LinkInv'
  <1>1. status # "DRAFT"
    BY DEF DatesInv, WritesLateStatus, Completing
  <1>2. \A d \in Clients : ~EditsDraft(d)'
    BY <1>1 DEF LinkInv, EditsDraft, Alone
  <1>3. Repairs' = Repairs
    BY DEF Repairs
  <1>4. share'.enabled => Repairs' # {}
    BY <1>3 DEF LinkInv
  <1>5. \A d \in Clients : Sharing(d)' => Repairs' # {}
    BY <1>3 DEF LinkInv, Sharing, Alone
  <1>6. SharedLinkHasRepair'
    BY <1>4 DEF SharedLinkHasRepair, Repairs
  <1>7. ASSUME NEW d \in Clients, Does(d, "finalize")'
        PROVE  request'[d].counted \subseteq DOMAIN request'[d].mode
    BY <1>7 DEF LinkInv, Does, Alone
  <1> QED
    BY <1>2, <1>4, <1>5, <1>6, <1>7 DEF LinkInv

LEMMA LinkReads ==
    ASSUME TypeOK, LinkInv, NEW c \in Clients,
           \/ CompleteRead(c) \/ UpdateRead(c) \/ ShareRead(c, TRUE) \/ ShareRead(c, FALSE)
           \/ ShareFind(c) \/ SendMail(c) \/ TakeChargeRead(c) \/ RecoverRead(c)
           \/ NotifyRead(c) \/ SettleRead(c)
    PROVE  LinkInv'
  <1>1. /\ Elsewhere(c) /\ status' = status /\ share' = share /\ items' = items
        /\ request' = [request EXCEPT ![c] = request'[c]]
    BY NextRequest
    DEF Elsewhere, CompleteRead, UpdateRead, ShareRead, ShareFind, SendMail, TakeChargeRead,
        RecoverRead, NotifyRead, SettleRead, dossier, lines, Then, TypeOK
  <1>2. Repairs' = Repairs /\ Alone(c) /\ request'[c].step # "finalize"
    BY <1>1, ElsewhereStep DEF Repairs
  <1>3. CASE CompleteRead(c) \/ SendMail(c) \/ TakeChargeRead(c) \/ NotifyRead(c)
    <2>1. PICK next : Then(c, next) /\ next.step \in {"complete", "idle", "markTaken",
                                                      "takeCharge", "notifyWrite"}
      BY <1>3 DEF CompleteRead, SendMail, TakeChargeRead, NotifyRead, Idle
    <2>2. request'[c].step \in {"complete", "idle", "markTaken", "takeCharge", "notifyWrite"}
      BY <2>1, NextRequest DEF TypeOK
    <2> QED
      BY <1>1, <1>2, <2>2, LinkAside
  <1>4. CASE UpdateRead(c)
    <2>1. request'[c].step = "update" /\ request'[c].draft = (status = "DRAFT")
      BY <1>4, NextRequest DEF UpdateRead, TypeOK
    <2> QED
      BY <1>1, <1>2, <2>1, LinkQuiet DEF Sharing, Completing, EditsDraft, Does
  <1>5. CASE ShareRead(c, TRUE) \/ ShareRead(c, FALSE)
    <2>1. request'[c].step = "findShare" /\ External # {}
      BY <1>5, NextRequest DEF ShareRead, TypeOK
    <2>2. Repairs # {}
      BY <2>1 DEF External, Kept, Repairs
    <2> QED
      BY <1>1, <1>2, <2>1, <2>2, LinkQuiet DEF Sharing, Completing, EditsDraft, Does
  <1>6. CASE ShareFind(c)
    <2>1. request'[c].step = "writeShare" /\ request[c].step = "findShare"
      BY <1>6, NextRequest DEF ShareFind, TypeOK, Does
    <2> QED
      BY <1>1, <1>2, <2>1, LinkQuiet DEF Sharing, Completing, EditsDraft, Does
  <1>7. CASE RecoverRead(c)
    <2>1. /\ request'[c].step = "recover" /\ status \in {"SUMMARY_READY", "COMPLETED"}
          /\ request'[c].completes = (status # "COMPLETED" /\ PendingOnSite = {})
      BY <1>7, NextRequest DEF RecoverRead, TypeOK
    <2> QED
      BY <1>1, <1>2, <2>1, LinkQuiet DEF Sharing, Completing, EditsDraft, Does
  <1>8. CASE SettleRead(c)
    <2>1. request'[c].step \in {"settleWrite", "idle"}
      BY <1>8, NextRequest DEF SettleRead, TypeOK, Idle
    <2>2. request'[c].step = "settleWrite" => status = "SUMMARY_READY"
      BY <1>8, NextRequest DEF SettleRead, TypeOK, Idle
    <2> QED
      BY <1>1, <1>2, <2>1, <2>2, LinkQuiet DEF Sharing, Completing, EditsDraft, Does
  <1> QED
    BY <1>3, <1>4, <1>5, <1>6, <1>7, <1>8

LEMMA LinkLineReads ==
    ASSUME TypeOK, LinkInv, NEW c \in Clients,
           \/ UpdateDelete(c) \/ ExecuteRead(c) \/ OrderRead(c) \/ OperateRead(c)
           \/ FinalizeRead(c)
    PROVE  LinkInv'
  <1>1. CASE UpdateDelete(c)
    <2>1. /\ request'[c].step = "updateCommit" /\ request'[c].draft = request[c].draft
          /\ request[c].step = "update" /\ Alone(c)
          /\ UNCHANGED <<dossier, lines, share, notices>>
      BY <1>1, NextRequest DEF UpdateDelete, TypeOK, Does, Alone
    <2>2. EditsDraft(c)' => status \in {"DRAFT", "REMOVED"}
      BY <2>1 DEF LinkInv, EditsDraft
    <2>3. Repairs' = Repairs /\ status' = status /\ share' = share
      BY <2>1 DEF Repairs, lines, dossier
    <2> QED
      BY <2>1, <2>2, <2>3, LinkQuiet DEF Sharing, Completing, Does
  <1>2. CASE ExecuteRead(c) \/ OrderRead(c) \/ OperateRead(c)
    <2>1. Repairs' = Repairs /\ status' = status /\ share' = share
      BY <1>2, LineReadStep DEF Repairs, lines, dossier
    <2> QED
      BY <1>2, <2>1, LineReadStep, LinkAside
  <1>3. CASE FinalizeRead(c)
    <2>1. PICK kept \in SUBSET DOMAIN items : \E mode \in [kept -> ExecutionModes] :
             /\ request'[c] = FinalizePlan(mode)
             /\ Alone(c) /\ UNCHANGED <<dossier, lines, share, notices>>
      BY <1>3, FinalizeReadStep
    <2>2. PICK mode \in [kept -> ExecutionModes] :
             /\ request'[c] = FinalizePlan(mode)
             /\ Alone(c) /\ UNCHANGED <<dossier, lines, share, notices>>
      BY <2>1
    <2>3. /\ request'[c].step = "finalize" /\ request'[c].mode = mode
          /\ request'[c].counted = {i \in DOMAIN mode : items[i].active}
      BY <2>2 DEF FinalizePlan
    <2>4. Repairs' = Repairs /\ status' = status /\ share' = share
      BY <2>2 DEF Repairs, lines, dossier
    <2> QED
      BY <2>2, <2>3, <2>4, LinkQuiet DEF Sharing, Completing, EditsDraft, Does
  <1> QED
    BY <1>1, <1>2, <1>3

LEMMA LinkWrites ==
    ASSUME TypeOK, LinkInv, NEW c \in Clients, ~Fail(c),
           \/ ExecuteWrite(c) \/ OrderWrite(c) \/ OperateCommit(c)
           \/ MarkTaken(c) \/ TakeChargeWrite(c) \/ NotifyWrite(c)
    PROVE  LinkInv'
  <1>1. CASE ExecuteWrite(c) \/ OrderWrite(c)
    <2>1. /\ DOMAIN items' = DOMAIN items
          /\ \A i \in DOMAIN items : /\ items'[i].selected = items[i].selected
                                     /\ items'[i].mode = items[i].mode
          /\ request'[c].step \in {"idle", "settle"} /\ Alone(c)
          /\ status' = status /\ share' = share
      BY <1>1, ExecuteStep, OrderStep DEF dossier
    <2> QED
      BY <2>1, RepairsSame, LinkAside
  <1>2. CASE OperateCommit(c)
    <2>1. /\ DOMAIN items' = DOMAIN items
          /\ \A i \in DOMAIN items : /\ items'[i].selected = items[i].selected
                                     /\ items'[i].mode = items[i].mode
          /\ request'[c] = Idle /\ Alone(c)
          /\ status' = status /\ share' = share
      BY <1>2, OperateStep
    <2> QED
      BY <2>1, RepairsSame, LinkAside DEF Idle
  <1>3. CASE MarkTaken(c) \/ TakeChargeWrite(c) \/ NotifyWrite(c)
    <2>1. /\ items' = items /\ status' = status /\ share'.enabled = share.enabled
      BY <1>3 DEF MarkTaken, TakeChargeWrite, NotifyWrite, lines, dossier, TypeOK, Share
    <2>2. PICK next : Then(c, next) /\ next.step \in {"idle", "notify"}
      BY <1>3 DEF MarkTaken, TakeChargeWrite, NotifyWrite, Idle
    <2>3. request'[c].step \in {"idle", "notify"} /\ Alone(c)
      BY <2>2, NextRequest DEF TypeOK, Alone
    <2> QED
      BY <2>1, <2>3, LinkAside DEF Repairs
  <1> QED
    BY <1>1, <1>2, <1>3

LEMMA LinkCompletes ==
    ASSUME TypeOK, LinkInv, DatesInv, NEW c \in Clients, ~Fail(c),
           SettleWrite(c) \/ RecoverWrite(c)
    PROVE  LinkInv'
  <1>1. CASE SettleWrite(c)
    <2>1. /\ status # "REMOVED" /\ status' = "COMPLETED" /\ share' = share /\ items' = items
          /\ request'[c] = Idle /\ Alone(c) /\ Completing(c)
      BY <1>1, NextRequest DEF SettleWrite, TypeOK, Alone, lines, Completing
    <2> QED
      BY <2>1, LinkCompletion DEF Idle
  <1>2. CASE RecoverWrite(c)
    <2>1. PICK next : Then(c, next) /\ next.step \in {"idle", "notify"}
      BY <1>2 DEF RecoverWrite, Idle
    <2>2. request'[c].step \in {"idle", "notify"} /\ Alone(c)
      BY <2>1, NextRequest DEF TypeOK, Alone
    <2>3. /\ status # "REMOVED" /\ share'.enabled = share.enabled /\ items' = items
          /\ Does(c, "recover")
          /\ status' = (IF request[c].completes THEN "COMPLETED" ELSE status)
      BY <1>2 DEF RecoverWrite, TypeOK, Share, lines
    <2>4. CASE request[c].completes
      BY <2>2, <2>3, <2>4, LinkCompletion DEF Completing
    <2>5. CASE ~request[c].completes
      BY <2>2, <2>3, <2>5, LinkAside DEF Repairs
    <2> QED
      BY <2>4, <2>5
  <1> QED
    BY <1>1, <1>2

LEMMA LinkHandler ==
    ASSUME TypeOK, LinkInv, DatesInv, LinkApart, NEW c \in Clients, Handler(c) \/ Crash(c)
    PROVE  LinkInv'
  <1>1. CASE Fail(c)
    <2>1. /\ request'[c].step = "idle" /\ Alone(c) /\ Repairs' = Repairs
          /\ status' = status /\ share' = share
      BY <1>1, FailStep DEF Idle, Repairs, lines, dossier
    <2> QED
      BY <2>1, LinkAside
  <1>2. CASE ~Fail(c)
    BY <1>2, HandlerSteps, LinkReads, LinkLineReads, LinkWrites, LinkCompletes, LinkUpdate,
       LinkComplete, LinkFinalize, LinkShareWrite DEF Elsewhere
  <1> QED
    BY <1>1, <1>2

LEMMA LinkNext == TypeOK /\ DatesInv /\ LinkApart /\ LinkInv /\ [Next]_vars => LinkInv'
  <1> SUFFICES ASSUME TypeOK, DatesInv, LinkApart, LinkInv, [Next]_vars PROVE LinkInv'
    OBVIOUS
  <1>1. CASE Remove
    <2>1. status' = "REMOVED" /\ ~share'.enabled /\ request' = request
      BY <1>1 DEF Remove, NoShare
    <2> QED
      BY <2>1 DEF LinkInv, SharedLinkHasRepair, EditsDraft, Does
  <1>2. CASE UNCHANGED vars
    BY <1>2 DEF vars, dossier, lines, LinkInv, SharedLinkHasRepair, Sharing, Completing,
                EditsDraft, OnPublicPage, Repairs, Does
  <1> QED
    BY <1>1, <1>2, LinkHandler DEF Next

LEMMA LinkInit == Init => LinkInv
  BY DEF Init, Idle, NoShare, LinkInv, SharedLinkHasRepair, Sharing, Completing, EditsDraft, Does

\* A provider who can open the public link has a line that was assigned to it, as long as
\* no edit of the form overlaps a completion of the dossier or of the field check, and no
\* summary overlaps the creation of the link.
THEOREM LinkAlwaysHasRepair == Spec /\ []LinkApart => []SharedLinkHasRepair
  <1>1. LinkInv => SharedLinkHasRepair
    BY DEF LinkInv
  <1> QED
    BY <1>1, TypeCorrect, DatesInit, DatesNext, LinkInit, LinkNext, PTL DEF Spec

-----------------------------------------------------------------------------
(* A dossier is completed only when its repairs are done *)

\* A completion with an execution, a summary or an operational change, or the recovery
\* of the vehicle with a part order or an edit of the form.
DoneApart ==
    /\ Apart({"settleWrite", "recover"}, {"execute", "finalize", "operate"})
    /\ Apart({"recover"}, {"order", "updateCommit"})

\* What a completion or a recovery has found is still so when it is written.
Finishing(c) ==
    LET r == request[c] IN
    /\ Does(c, "settleWrite") =>
          /\ PendingOnSite = {}
          /\ External # {} => share.recovered \/ status = "REMOVED"
    /\ Does(c, "recover") =>
          /\ share.exists \/ status = "REMOVED"
          /\ ~r.mark => share.recovered \/ status = "REMOVED"
          /\ r.mark => PendingParts = {} \/ share.recovered
          /\ r.completes => PendingOnSite = {}

DoneInv == \A c \in Clients : Finishing(c)

\* One step of CompletesOnlyWhenDone.
CompletionStep ==
    /\ status # "COMPLETED" /\ status' = "COMPLETED" =>
          PendingOnSite = {} /\ (External # {} => share'.recovered)
    /\ ~share.recovered /\ share'.recovered => PendingParts = {}

\* The share is created and the vehicle recovered once and for all.
Progress ==
    /\ share.exists => share'.exists
    /\ share.recovered => share'.recovered
    /\ status = "REMOVED" => status' = "REMOVED"

\* A step that adds no pending repair takes nothing from what a request has found.
LEMMA DoneOther ==
    ASSUME NEW d \in Clients, Finishing(d), request'[d] = request[d], Progress,
           PendingOnSite' \subseteq PendingOnSite, External' \subseteq External,
           Does(d, "recover") => PendingParts' \subseteq PendingParts
    PROVE  Finishing(d)'
  BY DEF Finishing, Does, Progress

LEMMA DoneSame ==
    ASSUME DoneInv, NEW c \in Clients, Alone(c), Progress, items' = items, Finishing(c)'
    PROVE  DoneInv'
  <1>1. Kept' = Kept
    BY DEF Kept
  <1>2. PendingOnSite' = PendingOnSite /\ External' = External /\ PendingParts' = PendingParts
    BY <1>1 DEF PendingOnSite, External, PendingParts
  <1> QED
    BY <1>2, DoneOther DEF DoneInv, Alone

\* A handler that goes on with something else.
LEMMA DoneAside ==
    ASSUME DoneInv, NEW c \in Clients, Alone(c), Progress, items' = items,
           request'[c].step \notin {"settleWrite", "recover"}
    PROVE  DoneInv'
  BY DoneSame DEF Finishing, Does

\* No other request is about to complete the dossier or to mark the vehicle recovered.
LEMMA DoneNobody ==
    ASSUME NEW c \in Clients, Alone(c),
           request'[c].step \notin {"settleWrite", "recover"},
           \A d \in Clients : d # c => request[d].step \notin {"settleWrite", "recover"}
    PROVE  DoneInv'
  BY DEF DoneInv, Finishing, Does, Alone

LEMMA DoneFail ==
    ASSUME TypeOK, DoneInv, NEW c \in Clients, Fail(c)
    PROVE  DoneInv' /\ CompletionStep
  <1>1. /\ request'[c].step = "idle" /\ Alone(c) /\ items' = items
        /\ status' = status /\ share' = share
    BY FailStep DEF Idle, lines, dossier
  <1> QED
    BY <1>1, DoneAside DEF Progress, CompletionStep

LEMMA DoneReads ==
    ASSUME TypeOK, DoneInv, NEW c \in Clients,
           \/ CompleteRead(c) \/ UpdateRead(c) \/ ShareRead(c, TRUE) \/ ShareRead(c, FALSE)
           \/ ShareFind(c) \/ SendMail(c) \/ TakeChargeRead(c) \/ RecoverRead(c)
           \/ NotifyRead(c) \/ SettleRead(c)
    PROVE  DoneInv' /\ CompletionStep
  <1>1. Elsewhere(c) /\ status' = status /\ share' = share /\ items' = items
    BY DEF Elsewhere, CompleteRead, UpdateRead, ShareRead, ShareFind, SendMail, TakeChargeRead,
           RecoverRead, NotifyRead, SettleRead, dossier, lines
  <1>2. Alone(c) /\ Progress /\ CompletionStep
    BY <1>1, ElsewhereStep DEF Progress, CompletionStep
  <1>3. Kept' = Kept
    BY <1>1 DEF Kept
  <1>4. PendingOnSite' = PendingOnSite /\ External' = External /\ PendingParts' = PendingParts
    BY <1>1, <1>3 DEF PendingOnSite, External, PendingParts
  <1>5. CASE RecoverRead(c)
    <2>1. /\ request'[c].step = "recover" /\ request'[c].mark = ~share.recovered
          /\ request'[c].completes = (status # "COMPLETED" /\ PendingOnSite = {})
          /\ share.exists /\ (~share.recovered => PendingParts = {})
      BY <1>5, NextRequest DEF RecoverRead, TypeOK
    <2>2. Finishing(c)'
      BY <1>1, <1>4, <2>1 DEF Finishing, Does
    <2> QED
      BY <1>1, <1>2, <2>2, DoneSame
  <1>6. CASE SettleRead(c)
    <2>1. /\ request'[c].step \in {"settleWrite", "idle"}
          /\ request'[c].step = "settleWrite" => AllInterventionsDone
      BY <1>6, NextRequest DEF SettleRead, TypeOK, Idle
    <2>2. Finishing(c)'
      BY <1>1, <1>4, <2>1 DEF Finishing, Does, AllInterventionsDone
    <2> QED
      BY <1>1, <1>2, <2>2, DoneSame
  <1>7. CASE ~RecoverRead(c) /\ ~SettleRead(c)
    <2>1. PICK next : Then(c, next) /\ next.step \notin {"settleWrite", "recover"}
      BY <1>7 DEF CompleteRead, UpdateRead, ShareRead, ShareFind, SendMail, TakeChargeRead,
                  NotifyRead, Idle
    <2>2. request'[c].step \notin {"settleWrite", "recover"}
      BY <2>1, NextRequest DEF TypeOK
    <2> QED
      BY <1>1, <1>2, <2>2, DoneAside
  <1> QED
    BY <1>5, <1>6, <1>7

LEMMA DoneLineReads ==
    ASSUME TypeOK, DoneInv, NEW c \in Clients,
           \/ UpdateDelete(c) \/ ExecuteRead(c) \/ OrderRead(c) \/ OperateRead(c)
           \/ FinalizeRead(c)
    PROVE  DoneInv' /\ CompletionStep
  <1>1. items' = items /\ status' = status /\ share' = share
    BY DEF UpdateDelete, ExecuteRead, OrderRead, OperateRead, FinalizeRead, lines, dossier
  <1>2. Alone(c) /\ request'[c].step \notin {"settleWrite", "recover"}
    <2>1. CASE UpdateDelete(c)
      BY <2>1, NextRequest DEF UpdateDelete, TypeOK, Alone
    <2>2. CASE FinalizeRead(c)
      <3>1. PICK kept \in SUBSET DOMAIN items : \E mode \in [kept -> ExecutionModes] :
               request'[c] = FinalizePlan(mode) /\ Alone(c)
        BY <2>2, FinalizeReadStep
      <3> QED
        BY <3>1 DEF FinalizePlan
    <2> QED
      BY <2>1, <2>2, LineReadStep
  <1> QED
    BY <1>1, <1>2, DoneAside DEF Progress, CompletionStep

LEMMA DoneWrites ==
    ASSUME TypeOK, DoneInv, NEW c \in Clients, ~Fail(c),
           \/ CompleteWrite(c) \/ ShareWrite(c) \/ MarkTaken(c) \/ TakeChargeWrite(c)
           \/ NotifyWrite(c)
    PROVE  DoneInv' /\ CompletionStep
  <1>1. /\ items' = items /\ (status' = status \/ status' # "COMPLETED")
        /\ share'.recovered = share.recovered /\ Progress
    BY DEF CompleteWrite, ShareWrite, MarkTaken, TakeChargeWrite, NotifyWrite, lines, dossier,
           Progress, TypeOK, Share
  <1>2. Alone(c) /\ request'[c].step \notin {"settleWrite", "recover"}
    <2>1. PICK next : Then(c, next) /\ next.step \notin {"settleWrite", "recover"}
      BY DEF CompleteWrite, ShareWrite, MarkTaken, TakeChargeWrite, NotifyWrite, Idle
    <2> QED
      BY <2>1, NextRequest DEF TypeOK, Alone
  <1> QED
    BY <1>1, <1>2, DoneAside DEF CompletionStep

\* The two completions: what they have found still holds.
LEMMA DoneCompletes ==
    ASSUME TypeOK, DoneInv, NEW c \in Clients, ~Fail(c), SettleWrite(c) \/ RecoverWrite(c)
    PROVE  DoneInv' /\ CompletionStep
  <1>1. CASE SettleWrite(c)
    <2>1. /\ status # "REMOVED" /\ share' = share /\ items' = items
          /\ request'[c] = Idle /\ Alone(c) /\ Does(c, "settleWrite")
      BY <1>1, NextRequest DEF SettleWrite, TypeOK, Alone, lines
    <2>2. CompletionStep
      BY <2>1 DEF DoneInv, Finishing, CompletionStep
    <2> QED
      BY <2>1, <2>2, DoneAside DEF Progress, Idle
  <1>2. CASE RecoverWrite(c)
    <2> DEFINE r == request[c]
    <2>1. PICK next : Then(c, next) /\ next.step \in {"idle", "notify"}
      BY <1>2 DEF RecoverWrite, Idle
    <2>2. request'[c].step \in {"idle", "notify"} /\ Alone(c)
      BY <2>1, NextRequest DEF TypeOK, Alone
    <2>3. /\ status # "REMOVED" /\ items' = items /\ Does(c, "recover")
          /\ status' = (IF r.completes THEN "COMPLETED" ELSE status)
          /\ share' = IF Marks(r) THEN [share EXCEPT !.taken = TRUE, !.recovered = TRUE] ELSE share
      BY <1>2 DEF RecoverWrite, lines
    <2>4. /\ share.exists /\ (~r.mark => share.recovered)
          /\ r.mark => PendingParts = {} \/ share.recovered
          /\ r.completes => PendingOnSite = {}
      BY <2>3 DEF DoneInv, Finishing
    <2>5. share'.recovered /\ share'.exists = share.exists
      <3>1. CASE Marks(r)
        BY <2>3, <3>1 DEF TypeOK, Share
      <3>2. CASE ~Marks(r)
        BY <2>3, <2>4, <3>2 DEF Marks
      <3> QED
        BY <3>1, <3>2
    <2>6. ~share.recovered => PendingParts = {}
      BY <2>4
    <2>7. CompletionStep
      BY <2>3, <2>4, <2>5, <2>6 DEF CompletionStep
    <2> QED
      BY <2>2, <2>3, <2>5, <2>7, DoneAside DEF Progress
  <1> QED
    BY <1>1, <1>2

\* Writes of the lines that reopen work: nobody is about to complete.
LEMMA DoneReopens ==
    ASSUME TypeOK, DoneInv, DoneApart, NEW c \in Clients, ~Fail(c),
           ExecuteWrite(c) \/ OperateCommit(c) \/ FinalizeWrite(c)
    PROVE  DoneInv' /\ CompletionStep
  <1>1. /\ request'[c].step \in {"idle", "settle"} /\ Alone(c)
        /\ status' = status \/ status' # "COMPLETED"
    BY ExecuteStep, OperateStep, FinalizeStep DEF Idle, dossier
  <1>2. share'.recovered = share.recovered
    BY DEF ExecuteWrite, OperateCommit, FinalizeWrite, FinalizedShare, TypeOK, Share
  <1>3. \A d \in Clients : d # c => request[d].step \notin {"settleWrite", "recover"}
    BY DEF DoneApart, Apart, ExecuteWrite, OperateCommit, FinalizeWrite, Does
  <1> QED
    BY <1>1, <1>2, <1>3, DoneNobody DEF CompletionStep

LEMMA DoneOrder ==
    ASSUME TypeOK, DoneInv, DoneApart, NEW c \in Clients, OrderWrite(c), ~Fail(c)
    PROVE  DoneInv' /\ CompletionStep
  <1>1. /\ DOMAIN items' = DOMAIN items
        /\ \A i \in DOMAIN items :
              /\ items'[i].active = items[i].active /\ items'[i].selected = items[i].selected
              /\ items'[i].mode = items[i].mode /\ items'[i].done = items[i].done
        /\ request'[c].step \in {"idle", "settle"} /\ Alone(c)
        /\ status' = status /\ share' = share
    BY OrderStep DEF dossier
  <1>2. Kept' = Kept
    BY <1>1 DEF Kept
  <1>3. PendingOnSite' = PendingOnSite /\ External' = External
    BY <1>1, <1>2 DEF PendingOnSite, External, Kept
  <1>4. ASSUME NEW d \in Clients, d # c PROVE Finishing(d)'
    <2>1. Finishing(d) /\ request'[d] = request[d] /\ ~Does(d, "recover")
      BY <1>1, <1>4 DEF DoneInv, Alone, DoneApart, Apart, OrderWrite, Does
    <2> QED
      BY <1>1, <1>3, <2>1, DoneOther DEF Progress
  <1>5. Finishing(c)'
    BY <1>1 DEF Finishing, Does
  <1> QED
    BY <1>1, <1>4, <1>5 DEF DoneInv, CompletionStep

LEMMA DoneUpdate ==
    ASSUME TypeOK, DoneInv, DoneApart, NEW c \in Clients, UpdateCommit(c), ~Fail(c)
    PROVE  DoneInv' /\ CompletionStep
  <1>1. PICK new \in SUBSET (ItemIds \ issued) :
           /\ DOMAIN items' = (DOMAIN items \ request[c].seen) \cup new
           /\ \A i \in new : items'[i].mode = "NONE"
           /\ \A i \in DOMAIN items' \ new : i \in DOMAIN items /\ items'[i] = items[i]
           /\ request'[c] = Idle /\ Alone(c)
    BY UpdateStep
  <1>2. /\ share' = share /\ (status' = status \/ status' # "COMPLETED") /\ status # "REMOVED"
    BY DEF UpdateCommit, UpdatedStatus
  <1>3. PendingOnSite' \subseteq PendingOnSite /\ External' \subseteq External
    BY <1>1 DEF PendingOnSite, External, Kept
  <1>4. ASSUME NEW d \in Clients, d # c PROVE Finishing(d)'
    <2>1. Finishing(d) /\ request'[d] = request[d] /\ ~Does(d, "recover")
      BY <1>1, <1>4 DEF DoneInv, Alone, DoneApart, Apart, UpdateCommit, Does
    <2> QED
      BY <1>2, <1>3, <2>1, DoneOther DEF Progress
  <1>5. Finishing(c)'
    BY <1>1 DEF Finishing, Does, Idle
  <1> QED
    BY <1>2, <1>4, <1>5 DEF DoneInv, CompletionStep

LEMMA DoneNext ==
    ASSUME TypeOK, DoneInv, DoneApart, [Next]_vars
    PROVE  DoneInv' /\ [CompletionStep]_vars
  <1>1. CASE Remove
    <2>1. DOMAIN items' = {} /\ status' = "REMOVED" /\ request' = request /\ ~share'.recovered
      BY <1>1 DEF Remove, NoShare
    <2>2. PendingOnSite' = {} /\ PendingParts' = {}
      BY <2>1 DEF PendingOnSite, PendingParts, Kept
    <2> QED
      BY <2>1, <2>2 DEF DoneInv, Finishing, Does, CompletionStep
  <1>2. CASE UNCHANGED vars
    BY <1>2 DEF vars, dossier, lines, DoneInv, Finishing, Does, PendingOnSite, PendingParts,
                External, Kept
  <1>3. ASSUME NEW c \in Clients, Handler(c) \/ Crash(c) PROVE DoneInv' /\ CompletionStep
    BY <1>3, HandlerSteps, DoneFail, DoneReads, DoneLineReads, DoneWrites, DoneCompletes,
       DoneReopens, DoneOrder, DoneUpdate DEF Elsewhere
  <1> QED
    BY <1>1, <1>2, <1>3 DEF Next

\* A dossier becomes COMPLETED only with every on-site repair done and, if a provider was
\* involved, the vehicle recovered, and a vehicle is recovered with no part left to order,
\* as long as no completion overlaps an execution, a summary or an operational change, and
\* no recovery a part order or an edit of the form.
THEOREM CompletedOnlyWhenDone == Spec /\ []DoneApart => CompletesOnlyWhenDone
  <1>1. Init => DoneInv
    BY DEF Init, Idle, DoneInv, Finishing, Does
  <1>2. TypeOK /\ DoneInv /\ DoneApart /\ [Next]_vars => DoneInv' /\ [CompletionStep]_vars
    BY DoneNext
  <1>3. Spec /\ []DoneApart => [][CompletionStep]_vars
    BY <1>1, <1>2, TypeCorrect, PTL DEF Spec
  <1>4. [CompletionStep]_vars =>
           [/\ status # "COMPLETED" /\ status' = "COMPLETED" =>
                  PendingOnSite = {} /\ (External # {} => share'.recovered)
            /\ ~share.recovered /\ share'.recovered => PendingParts = {}]_vars
    BY DEF CompletionStep
  <1> QED
    BY <1>3, <1>4, PTL DEF CompletesOnlyWhenDone

-----------------------------------------------------------------------------
(* Requests one at a time *)

\* Requests that come one at a time keep every property of the dossier, for any number of
\* lines and any forms, wherever a request stops.
THEOREM OneAtATime ==
    ASSUME \A c, d \in Clients : c = d
    PROVE  Spec => /\ []TotalsAgree /\ []WorkBelongsToSummary /\ []ClosedDossierIsSettled
                   /\ []SharedLinkHasRepair /\ CompletesOnlyWhenDone
  <1>1. EditsApart /\ WorkApart /\ ClosingApart /\ LinkApart /\ DoneApart
    BY DEF EditsApart, WorkApart, ClosingApart, LinkApart, DoneApart, Apart
  <1> QED
    BY <1>1, TotalsAlwaysAgree, WorkAlwaysBelongs, ClosedStaysSettled, LinkAlwaysHasRepair,
       CompletedOnlyWhenDone, PTL

=============================================================================

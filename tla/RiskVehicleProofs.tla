-------------------------- MODULE RiskVehicleProofs --------------------------
(***************************************************************************)
(* A Risk dossier is safe for any number of overlapping requests, images,  *)
(* damages and slots, requests cut short included: it goes through its     *)
(* life cycle once and in order, is closed on a complete gallery only, and *)
(* its photos and the image store stay in step.  It keeps the photos its   *)
(* submission required as long as no edit of them overlaps the submission. *)
(***************************************************************************)
EXTENDS RiskVehicle, TLAPS

Committing == {"addCommit", "removeCommit", "closeCommit"}

\* A request between lockCommercialVehicle and its commit holds the dossier's row, alone.
LockInv == \A c \in Clients : request[c].step \in Committing <=> lock = c

\* The history up to now, and the conversation as the mark of a submission.
HistoryInv == LifeCycleFollowed /\ (conversation <=> status # "DRAFT")

\* What close has checked stays true under the lock.
ClosingInv ==
    \A c \in Clients : Does(c, "closeCommit") => status = "COMMERCIAL_PHOTOS" /\ GalleryComplete

Inv == TypeOK /\ LockInv /\ HistoryInv /\ ClosingInv

-----------------------------------------------------------------------------
(* The types *)

LEMMA Requests ==
    /\ Idle \in Request
    /\ \A step \in {"submit", "start", "close", "closeCommit"} : [step |-> step] \in Request
    /\ \A s \in PhotoSlots, a \in Assets : [step |-> "findPhoto", slot |-> s, asset |-> a] \in Request
    /\ \A s \in PhotoSlots, a \in Assets, p \in Photo :
          [step |-> "savePhoto", slot |-> s, asset |-> a, old |-> p] \in Request
    /\ \A s \in PhotoSlots, p \in Photo, step \in {"destroyPhoto", "deletePhoto"} :
          [step |-> step, slot |-> s, photo |-> p] \in Request
    /\ \A e \in [OptionalSlots -> Equipment] : [step |-> "details", equipment |-> e] \in Request
    /\ \A s \in CommercialSlots, a \in Assets : [step |-> "add", slot |-> s, asset |-> a] \in Request
    /\ \A s \in CommercialSlots, a \in Assets, p \in Photo :
          [step |-> "addCommit", slot |-> s, asset |-> a, old |-> p] \in Request
    /\ \A s \in CommercialSlots, p \in Photo, step \in {"remove", "removeCommit"} :
          [step |-> step, slot |-> s, photo |-> p] \in Request
    /\ \A a \in Assets : [step |-> "destroy", asset |-> a] \in Request
BY DEF Request, Idle

\* What a request at each step holds.
LEMMA Holds ==
    ASSUME TypeOK, NEW c \in Clients
    PROVE  LET r == request[c] IN
           /\ r.step \in {"findPhoto", "savePhoto"} => r.slot \in PhotoSlots /\ r.asset \in Assets
           /\ r.step = "savePhoto" => r.old \in Photo
           /\ r.step \in {"destroyPhoto", "deletePhoto"} => r.slot \in PhotoSlots /\ r.photo \in Photo
           /\ r.step = "details" => r.equipment \in [OptionalSlots -> Equipment]
           /\ r.step \in {"add", "addCommit"} => r.slot \in CommercialSlots /\ r.asset \in Assets
           /\ r.step = "addCommit" => r.old \in Photo
           /\ r.step \in {"remove", "removeCommit"} => r.slot \in CommercialSlots /\ r.photo \in Photo
           /\ r.step = "destroy" => r.asset \in Assets
<1>1. request[c] \in Request
    BY DEF TypeOK
<1> QED BY <1>1 DEF Request, Idle

\* Of the request that moves, and of the others.
LEMMA Moves ==
    ASSUME TypeOK, NEW c \in Clients, NEW next, Then(c, next)
    PROVE  /\ \A d \in Clients : request'[d] = IF d = c THEN next ELSE request[d]
           /\ next \in Request => request' \in [Clients -> Request]
BY DEF TypeOK, Then

LEMMA Disposal ==
    ASSUME NEW p \in Photo
    PROVE  Dispose(p) \in Request /\ Dispose(p).step \in {"idle", "destroy"}
<1>1. p # NoPhoto => p.asset \in Assets
    BY DEF Photo
<1> QED BY <1>1, Requests DEF Dispose, Idle

LEMMA Upserted ==
    ASSUME NEW Slots, NEW rows \in [Slots -> Photo], NEW s \in Slots, NEW a \in Assets
    PROVE  /\ Upsert(rows, s, a) \in [Slots -> Photo]
           /\ \A t \in Slots : t # s => Upsert(rows, s, a)[t] = rows[t]
           /\ Upsert(rows, s, a)[s].asset = a /\ Upsert(rows, s, a)[s] # NoPhoto
           /\ Upsert(rows, s, a)[s].row = IF rows[s] = NoPhoto THEN a ELSE rows[s].row
<1>1. rows[s] \in Photo
    OBVIOUS
<1>2. rows[s] # NoPhoto => rows[s].row \in Assets
    BY <1>1 DEF Photo
<1>3. PICK new : new = [row |-> IF rows[s] = NoPhoto THEN a ELSE rows[s].row, asset |-> a]
    OBVIOUS
<1>4. new \in [row : Assets, asset : Assets]
    BY <1>2, <1>3
<1>5. new \in Photo /\ new.asset = a /\ new.row = IF rows[s] = NoPhoto THEN a ELSE rows[s].row
    BY <1>3, <1>4 DEF Photo
<1>6. new # NoPhoto
    BY <1>4, RiskNamesAssumption DEF NoPhoto
<1>7. Upsert(rows, s, a) = [rows EXCEPT ![s] = new]
    BY <1>3 DEF Upsert
<1> QED BY <1>5, <1>6, <1>7

LEMMA LifeCycleIs ==
    /\ Statuses = {"DRAFT", "SUBMITTED", "COMMERCIAL_PHOTOS", "CLOSED"}
    /\ Len(LifeCycle) = 4
    /\ LifeCycle[1] = "DRAFT" /\ LifeCycle[2] = "SUBMITTED"
    /\ LifeCycle[3] = "COMMERCIAL_PHOTOS" /\ LifeCycle[4] = "CLOSED"
<1>1. 1..4 = {1, 2, 3, 4}
    OBVIOUS
<1> QED BY <1>1 DEF Statuses, LifeCycle

LEMMA TypeStep ==
    ASSUME TypeOK, [Next]_vars
    PROVE  TypeOK'
<1> USE DEF dossier, images
<1>s. \A c \in Clients, step \in {"submit", "start", "close", "closeCommit"} :
          Then(c, [step |-> step]) => request' \in [Clients -> Request]
    BY Moves, Requests
<1>i. \A c \in Clients : Then(c, Idle) => request' \in [Clients -> Request]
    BY Moves, Requests
<1>n. NothingWritten /\ request' \in [Clients -> Request] => TypeOK'
    BY DEF NothingWritten, TypeOK
<1>f. \A c \in Clients : Fail(c) => TypeOK'
    BY <1>i, <1>n DEF Fail
<1>h. \A to \in Statuses : Enter(to) => status' \in Statuses /\ history' \in Seq(Statuses)
    BY DEF Enter, TypeOK
<1>u. \A a \in Assets : Upload(a) => store' \subseteq uploaded' /\ uploaded' \subseteq Assets
    BY DEF Upload, TypeOK
<1>1. ASSUME NEW c \in Clients, AddPhotoRead(c) PROVE TypeOK'
    <2>1. PICK s \in PhotoSlots, a \in TreatmentAssets :
              Upload(a) /\ Then(c, [step |-> "findPhoto", slot |-> s, asset |-> a])
        BY <1>1 DEF AddPhotoRead
    <2>2. a \in Assets
        BY DEF Assets
    <2>3. request' \in [Clients -> Request]
        BY <2>1, <2>2, Moves, Requests
    <2> QED BY <1>1, <1>u, <2>1, <2>2, <2>3 DEF AddPhotoRead, TypeOK
<1>2. ASSUME NEW c \in Clients, AddPhotoFind(c) PROVE TypeOK'
    <2>1. request[c].slot \in PhotoSlots /\ request[c].asset \in Assets /\ photos[request[c].slot] \in Photo
        BY <1>2, Holds DEF AddPhotoFind, Does, TypeOK
    <2>2. request' \in [Clients -> Request]
        BY <1>2, <2>1, Moves, Requests DEF AddPhotoFind
    <2> QED BY <1>2, <1>n, <2>2 DEF AddPhotoFind
<1>3. ASSUME NEW c \in Clients, AddPhotoSave(c) PROVE TypeOK'
    <2>1. /\ request[c].slot \in PhotoSlots /\ request[c].asset \in Assets /\ request[c].old \in Photo
        BY <1>3, Holds DEF AddPhotoSave, Does
    <2>2. request' \in [Clients -> Request]
        BY <1>3, <2>1, Moves, Disposal DEF AddPhotoSave
    <2>3. photos' \in [PhotoSlots -> Photo]
        BY <1>3, <2>1, Upserted DEF AddPhotoSave, TypeOK
    <2> QED BY <1>3, <2>2, <2>3 DEF AddPhotoSave, TypeOK
<1>4. ASSUME NEW c \in Clients, RemovePhotoRead(c) PROVE TypeOK'
    <2>1. PICK s \in PhotoSlots : Then(c, [step |-> "destroyPhoto", slot |-> s, photo |-> photos[s]])
        BY <1>4 DEF RemovePhotoRead
    <2>2. photos[s] \in Photo
        BY DEF TypeOK
    <2>3. [step |-> "destroyPhoto", slot |-> s, photo |-> photos[s]] \in Request
        BY <2>2, Requests
    <2>4. request' \in [Clients -> Request]
        BY <2>1, <2>3, Moves
    <2> QED BY <1>4, <1>n, <2>4 DEF RemovePhotoRead
<1>5. ASSUME NEW c \in Clients, RemovePhotoDestroy(c) PROVE TypeOK'
    <2>1. request[c].slot \in PhotoSlots /\ request[c].photo \in Photo
        BY <1>5, Holds DEF RemovePhotoDestroy, Does
    <2>2. [step |-> "deletePhoto", slot |-> request[c].slot, photo |-> request[c].photo] \in Request
        BY <2>1, Requests
    <2>3. request' \in [Clients -> Request]
        BY <1>5, <2>2, Moves DEF RemovePhotoDestroy
    <2> QED BY <1>5, <2>3 DEF RemovePhotoDestroy, TypeOK
<1>6. ASSUME NEW c \in Clients, RemovePhotoDelete(c) PROVE TypeOK'
    <2>1. NoPhoto \in Photo
        BY DEF Photo
    <2> QED BY <1>6, <1>f, <1>i, <2>1 DEF RemovePhotoDelete, TypeOK
<1>7. ASSUME NEW c \in Clients, SubmitRead(c) \/ StartRead(c) \/ CloseRead(c) PROVE TypeOK'
    BY <1>7, <1>n, <1>s DEF SubmitRead, StartRead, CloseRead
<1>8. ASSUME NEW c \in Clients, SubmitWrite(c) \/ StartWrite(c) \/ CloseCommit(c) PROVE TypeOK'
    BY <1>8, <1>f, <1>i, <1>h, LifeCycleIs DEF SubmitWrite, StartWrite, CloseCommit, TypeOK
<1>9. ASSUME NEW c \in Clients, DetailsRead(c) PROVE TypeOK'
    <2>1. request' \in [Clients -> Request]
        BY <1>9, Moves, Requests DEF DetailsRead
    <2> QED BY <1>9, <1>n, <2>1 DEF DetailsRead
<1>10. ASSUME NEW c \in Clients, DetailsWrite(c) PROVE TypeOK'
    <2>1. request[c].equipment \in [OptionalSlots -> Equipment]
        BY <1>10, Holds DEF DetailsWrite, Does
    <2>2. equipment' \in [OptionalSlots -> Equipment \cup {"UNKNOWN"}]
        BY <1>10, <2>1 DEF DetailsWrite
    <2> QED BY <1>10, <1>i, <2>2 DEF DetailsWrite, TypeOK
<1>11. ASSUME NEW c \in Clients, AddRead(c) PROVE TypeOK'
    <2>1. PICK s \in CommercialSlots, a \in CommercialAssets :
              Upload(a) /\ Then(c, [step |-> "add", slot |-> s, asset |-> a])
        BY <1>11 DEF AddRead
    <2>2. a \in Assets
        BY DEF Assets
    <2>3. request' \in [Clients -> Request]
        BY <2>1, <2>2, Moves, Requests
    <2> QED BY <1>11, <1>u, <2>1, <2>2, <2>3 DEF AddRead, TypeOK
<1>12. ASSUME NEW c \in Clients, RemoveRead(c) PROVE TypeOK'
    <2>1. PICK s \in CommercialSlots : Then(c, [step |-> "remove", slot |-> s, photo |-> gallery[s]])
        BY <1>12 DEF RemoveRead
    <2>2. gallery[s] \in Photo
        BY DEF TypeOK
    <2>3. [step |-> "remove", slot |-> s, photo |-> gallery[s]] \in Request
        BY <2>2, Requests
    <2>4. request' \in [Clients -> Request]
        BY <2>1, <2>3, Moves
    <2> QED BY <1>12, <1>n, <2>4 DEF RemoveRead
<1>l. \A c \in Clients : LockRow(c) => lock' \in Clients \cup {NoClient}
    BY DEF LockRow
<1>13. ASSUME NEW c \in Clients, AddLock(c) PROVE TypeOK'
    <2>1. request[c].slot \in CommercialSlots /\ request[c].asset \in Assets /\ gallery[request[c].slot] \in Photo
        BY <1>13, Holds DEF AddLock, Does, TypeOK
    <2>2. request' \in [Clients -> Request]
        BY <1>13, <2>1, Moves, Requests DEF AddLock
    <2> QED BY <1>13, <1>l, <2>2 DEF AddLock, TypeOK
<1>14. ASSUME NEW c \in Clients, AddCommit(c) PROVE TypeOK'
    <2>1. /\ request[c].slot \in CommercialSlots /\ request[c].asset \in Assets /\ request[c].old \in Photo
        BY <1>14, Holds DEF AddCommit, Does
    <2>2. request' \in [Clients -> Request]
        BY <1>14, <2>1, Moves, Disposal DEF AddCommit
    <2>3. gallery' \in [CommercialSlots -> Photo]
        BY <1>14, <2>1, Upserted DEF AddCommit, TypeOK
    <2> QED BY <1>14, <2>2, <2>3 DEF AddCommit, TypeOK
<1>15. ASSUME NEW c \in Clients, RemoveLock(c) PROVE TypeOK'
    <2>1. CASE Fail(c)
        BY <1>f, <2>1
    <2>2. CASE ~Fail(c)
        <3>1. request[c].slot \in CommercialSlots /\ gallery[request[c].slot] \in Photo
            BY <1>15, Holds DEF RemoveLock, Does, TypeOK
        <3>2. [step |-> "removeCommit", slot |-> request[c].slot, photo |-> gallery[request[c].slot]] \in Request
            BY <3>1, Requests
        <3>3. request' \in [Clients -> Request]
            BY <1>15, <2>2, <3>2, Moves DEF RemoveLock
        <3> QED BY <1>15, <1>l, <2>2, <3>3 DEF RemoveLock, TypeOK
    <2> QED BY <2>1, <2>2
<1>16. ASSUME NEW c \in Clients, RemoveCommit(c) PROVE TypeOK'
    <2>1. NoPhoto \in Photo
        BY DEF Photo
    <2>3. request[c].photo \in Photo
        BY <1>16, Holds DEF RemoveCommit, Does
    <2>2. request' \in [Clients -> Request]
        BY <1>16, <2>3, Moves, Disposal DEF RemoveCommit
    <2> QED BY <1>16, <2>1, <2>2 DEF RemoveCommit, TypeOK
<1>17. ASSUME NEW c \in Clients, Destroy(c) PROVE TypeOK'
    BY <1>17, <1>i DEF Destroy, TypeOK
<1>18. ASSUME NEW c \in Clients, CloseLock(c) PROVE TypeOK'
    BY <1>18, <1>f, <1>s, <1>l DEF CloseLock, TypeOK
<1>19. ASSUME NEW c \in Clients, Interrupt(c) PROVE TypeOK'
    BY <1>19, <1>i DEF Interrupt, TypeOK
<1>20. CASE UNCHANGED vars
    BY <1>20 DEF vars, TypeOK
<1> QED BY <1>1, <1>2, <1>3, <1>4, <1>5, <1>6, <1>7, <1>8, <1>9, <1>10, <1>11, <1>12, <1>13,
           <1>14, <1>15, <1>16, <1>17, <1>18, <1>19, <1>20 DEF Next, Handler

-----------------------------------------------------------------------------
(* The lock *)

\* A request that is not committing moves on without the lock: nobody else is affected.
LEMMA LockSteps ==
    ASSUME TypeOK, LockInv, NEW c \in Clients, NEW next, Then(c, next),
           \/ lock' = lock /\ request[c].step \notin Committing /\ next.step \notin Committing
           \/ lock = NoClient /\ lock' = c /\ next.step \in Committing
           \/ lock = c /\ lock' = NoClient /\ next.step \notin Committing
    PROVE  LockInv'
<1>1. \A d \in Clients : request'[d] = IF d = c THEN next ELSE request[d]
    BY Moves
<1>2. NoClient \notin Clients
    BY RiskNamesAssumption
<1> QED BY <1>1, <1>2 DEF LockInv

LEMMA LockStep ==
    ASSUME TypeOK, LockInv, [Next]_vars
    PROVE  LockInv'
<1> USE DEF Committing
<1>1. ASSUME NEW c \in Clients,
             AddPhotoRead(c) \/ AddPhotoFind(c) \/ RemovePhotoRead(c) \/ RemovePhotoDestroy(c)
             \/ RemovePhotoDelete(c)
      PROVE  LockInv'
    <2>1. PICK next : Then(c, next) /\ next.step \notin Committing /\ request[c].step \notin Committing
        BY <1>1 DEF AddPhotoRead, AddPhotoFind, RemovePhotoRead, RemovePhotoDestroy, RemovePhotoDelete,
                    Fail, Idle, Does
    <2>2. lock' = lock
        BY <1>1 DEF AddPhotoRead, AddPhotoFind, RemovePhotoRead, RemovePhotoDestroy, RemovePhotoDelete,
                    Fail, NothingWritten
    <2> QED BY <2>1, <2>2, LockSteps
<1>2. ASSUME NEW c \in Clients, AddPhotoSave(c) PROVE LockInv'
    <2>1. Dispose(request[c].old).step \notin Committing
        BY <1>2, Holds, Disposal DEF AddPhotoSave, Does
    <2>2. lock' = lock /\ Then(c, Dispose(request[c].old)) /\ request[c].step \notin Committing
        BY <1>2 DEF AddPhotoSave, Does
    <2> QED BY <2>1, <2>2, LockSteps
<1>3. ASSUME NEW c \in Clients,
             SubmitRead(c) \/ SubmitWrite(c) \/ StartRead(c) \/ StartWrite(c) \/ DetailsRead(c)
             \/ DetailsWrite(c) \/ AddRead(c) \/ RemoveRead(c) \/ Destroy(c) \/ CloseRead(c)
      PROVE  LockInv'
    <2>1. PICK next : Then(c, next) /\ next.step \notin Committing /\ request[c].step \notin Committing
        BY <1>3 DEF SubmitRead, SubmitWrite, StartRead, StartWrite, DetailsRead, DetailsWrite, AddRead,
                    RemoveRead, Destroy, CloseRead, Fail, Idle, Does
    <2>2. lock' = lock
        BY <1>3 DEF SubmitRead, SubmitWrite, StartRead, StartWrite, DetailsRead, DetailsWrite, AddRead,
                    RemoveRead, Destroy, CloseRead, Fail, NothingWritten
    <2> QED BY <2>1, <2>2, LockSteps
<1>4. ASSUME NEW c \in Clients, AddLock(c) \/ RemoveLock(c) \/ CloseLock(c) PROVE LockInv'
    <2>1. CASE Fail(c)
        <3>1. Then(c, Idle) /\ lock' = lock /\ Idle.step \notin Committing /\ request[c].step \notin Committing
            BY <1>4, <2>1 DEF AddLock, RemoveLock, CloseLock, Fail, NothingWritten, Idle, Does
        <3> QED BY <3>1, LockSteps
    <2>2. CASE ~Fail(c)
        <3>1. PICK next : Then(c, next) /\ next.step \in Committing
            BY <1>4, <2>2 DEF AddLock, RemoveLock, CloseLock
        <3>2. lock = NoClient /\ lock' = c
            BY <1>4, <2>2 DEF AddLock, RemoveLock, CloseLock, LockRow, RowFree
        <3> QED BY <3>1, <3>2, LockSteps
    <2> QED BY <2>1, <2>2
<1>5. ASSUME NEW c \in Clients, AddCommit(c) \/ RemoveCommit(c) \/ CloseCommit(c) PROVE LockInv'
    <2>1. lock = c /\ lock' = NoClient
        BY <1>5 DEF AddCommit, RemoveCommit, CloseCommit, LockInv, Does
    <2>2. AddCommit(c) => Then(c, Dispose(request[c].old)) /\ Dispose(request[c].old).step \notin Committing
        BY Holds, Disposal DEF AddCommit, Does
    <2>3. RemoveCommit(c) => Then(c, Dispose(request[c].photo)) /\ Dispose(request[c].photo).step \notin Committing
        BY Holds, Disposal DEF RemoveCommit, Does
    <2>4. CloseCommit(c) => Then(c, Idle) /\ Idle.step \notin Committing
        BY DEF CloseCommit, Idle
    <2> QED BY <1>5, <2>1, <2>2, <2>3, <2>4, LockSteps
<1>6. ASSUME NEW c \in Clients, Interrupt(c) PROVE LockInv'
    <2>1. Then(c, Idle) /\ Idle.step \notin Committing
        BY <1>6 DEF Interrupt, Idle
    <2>2. IF lock = c THEN lock' = NoClient ELSE lock' = lock /\ request[c].step \notin Committing
        BY <1>6 DEF Interrupt, LockInv
    <2> QED BY <2>1, <2>2, LockSteps
<1>7. CASE UNCHANGED vars
    BY <1>7 DEF vars, LockInv
<1> QED BY <1>1, <1>2, <1>3, <1>4, <1>5, <1>6, <1>7 DEF Next, Handler

-----------------------------------------------------------------------------
(* The life cycle *)

\* Entering the status that follows.
LEMMA Advance ==
    ASSUME TypeOK, LifeCycleFollowed, NEW k \in 1..3, status = LifeCycle[k], Enter(LifeCycle[k + 1])
    PROVE  LifeCycleFollowed'
<1>1. history \in Seq(Statuses) /\ Len(history) \in Nat
    BY DEF TypeOK
<1>2. Len(history) + 1 \in 1..4 /\ status = LifeCycle[Len(history) + 1]
    BY <1>1, LifeCycleIs DEF LifeCycleFollowed
<1>3. \A i, j \in 1..4 : LifeCycle[i] = LifeCycle[j] => i = j
    <2>1. 1..4 = {1, 2, 3, 4}
        OBVIOUS
    <2> QED BY <2>1, LifeCycleIs
<1>4. Len(history) + 1 = k
    <2>1. k \in 1..4 /\ LifeCycle[Len(history) + 1] = LifeCycle[k]
        BY <1>2
    <2> QED BY <1>2, <1>3, <2>1
<1>5. LifeCycle[k + 1] \in Statuses
    BY DEF Statuses
<1>6. /\ Len(history') = k
      /\ history'[k] = LifeCycle[k + 1]
      /\ \A i \in 1..(k - 1) : history'[i] = history[i]
      /\ status' = LifeCycle[k + 1]
    BY <1>1, <1>4, <1>5 DEF Enter
<1> QED BY <1>1, <1>4, <1>6, LifeCycleIs DEF LifeCycleFollowed

LEMMA HistoryStep ==
    ASSUME Inv, [Next]_vars
    PROVE  HistoryInv'
<1> USE DEF dossier
<1>0. TypeOK /\ LifeCycleFollowed /\ (conversation <=> status # "DRAFT")
    BY DEF Inv, HistoryInv
<1>1. CASE UNCHANGED dossier
    BY <1>0, <1>1 DEF HistoryInv, LifeCycleFollowed
<1>2. ASSUME NEW c \in Clients, SubmitWrite(c), ~UNCHANGED dossier PROVE HistoryInv'
    <2>1. ~conversation /\ Enter("SUBMITTED") /\ conversation' = TRUE
        BY <1>2 DEF SubmitWrite, Fail, NothingWritten
    <2>2. status = LifeCycle[1] /\ Enter(LifeCycle[1 + 1])
        BY <1>0, <2>1, LifeCycleIs
    <2>3. LifeCycleFollowed'
        BY <1>0, <2>2, Advance
    <2> QED BY <2>1, <2>3 DEF HistoryInv, Enter
<1>3. ASSUME NEW c \in Clients, StartWrite(c), ~UNCHANGED dossier PROVE HistoryInv'
    <2>1. status = "SUBMITTED" /\ Enter("COMMERCIAL_PHOTOS") /\ conversation' = conversation
        BY <1>3 DEF StartWrite, Fail, NothingWritten
    <2>2. status = LifeCycle[2] /\ Enter(LifeCycle[2 + 1])
        BY <2>1, LifeCycleIs
    <2>3. LifeCycleFollowed'
        BY <1>0, <2>2, Advance
    <2> QED BY <1>0, <2>1, <2>3 DEF HistoryInv, Enter
<1>4. ASSUME NEW c \in Clients, CloseCommit(c) PROVE HistoryInv'
    <2>1. status = "COMMERCIAL_PHOTOS" /\ Enter("CLOSED") /\ conversation' = conversation
        BY <1>4 DEF CloseCommit, Inv, ClosingInv
    <2>2. status = LifeCycle[3] /\ Enter(LifeCycle[3 + 1])
        BY <2>1, LifeCycleIs
    <2>3. LifeCycleFollowed'
        BY <1>0, <2>2, Advance
    <2> QED BY <1>0, <2>1, <2>3 DEF HistoryInv, Enter
<1>5. ASSUME NEW c \in Clients, Handler(c) \/ Interrupt(c)
      PROVE  UNCHANGED dossier \/ SubmitWrite(c) \/ StartWrite(c) \/ CloseCommit(c)
    BY <1>5 DEF Handler, AddPhotoRead, AddPhotoFind, AddPhotoSave, RemovePhotoRead, RemovePhotoDestroy,
        RemovePhotoDelete, SubmitRead, StartRead, DetailsRead, DetailsWrite, AddRead, AddLock, AddCommit,
        RemoveRead, RemoveLock, RemoveCommit, Destroy, CloseRead, CloseLock, Interrupt, Fail, NothingWritten
<1> QED BY <1>1, <1>2, <1>3, <1>4, <1>5 DEF Next, vars

\* A step that writes the row or the gallery does so without the lock being another's, and
\* any request that comes to commit a closure has just checked it.
LEMMA ClosingSteps ==
    ASSUME TypeOK, LockInv, ClosingInv, NEW c \in Clients, NEW next, Then(c, next),
           UNCHANGED <<status, gallery, equipment>> \/ lock = NoClient \/ lock = c,
           next.step = "closeCommit" => (status = "COMMERCIAL_PHOTOS" /\ GalleryComplete)'
    PROVE  ClosingInv'
<1>1. \A d \in Clients : request'[d] = IF d = c THEN next ELSE request[d]
    BY Moves
<1>2. SUFFICES ASSUME NEW d \in Clients, Does(d, "closeCommit")'
               PROVE  (status = "COMMERCIAL_PHOTOS" /\ GalleryComplete)'
    BY DEF ClosingInv
<1>3. CASE d = c
    BY <1>1, <1>2, <1>3 DEF Does
<1>4. CASE d # c
    <2>1. Does(d, "closeCommit")
        BY <1>1, <1>2, <1>4 DEF Does
    <2>2. lock = d
        BY <2>1 DEF Does, LockInv, Committing
    <2>3. UNCHANGED <<status, gallery, equipment>>
        BY <1>4, <2>2, RiskNamesAssumption
    <2> QED BY <2>1, <2>3 DEF ClosingInv, GalleryComplete, Taken
<1> QED BY <1>3, <1>4

LEMMA ClosingStep ==
    ASSUME TypeOK, LockInv, ClosingInv, [Next]_vars
    PROVE  ClosingInv'
<1> USE DEF dossier
<1>1. ASSUME NEW c \in Clients, UNCHANGED <<status, gallery, equipment>>,
             \E next : Then(c, next) /\ next.step # "closeCommit"
      PROVE  ClosingInv'
    BY <1>1, ClosingSteps
<1>2. ASSUME NEW c \in Clients,
             AddPhotoRead(c) \/ AddPhotoFind(c) \/ RemovePhotoRead(c) \/ RemovePhotoDestroy(c)
             \/ RemovePhotoDelete(c) \/ SubmitRead(c) \/ StartRead(c) \/ DetailsRead(c) \/ AddRead(c)
             \/ RemoveRead(c) \/ AddLock(c) \/ RemoveLock(c) \/ Destroy(c) \/ CloseRead(c) \/ Interrupt(c)
      PROVE  ClosingInv'
    <2>1. PICK next : Then(c, next) /\ next.step # "closeCommit"
        <3>1. CASE AddPhotoRead(c)
            BY <3>1 DEF AddPhotoRead
        <3>2. CASE AddPhotoFind(c)
            BY <3>2 DEF AddPhotoFind
        <3>3. CASE RemovePhotoRead(c)
            BY <3>3 DEF RemovePhotoRead
        <3>11. CASE RemovePhotoDestroy(c)
            BY <3>11 DEF RemovePhotoDestroy
        <3>4. CASE AddRead(c)
            BY <3>4 DEF AddRead
        <3>5. CASE AddLock(c)
            BY <3>5 DEF AddLock
        <3>6. CASE RemoveRead(c)
            BY <3>6 DEF RemoveRead
        <3>7. CASE RemoveLock(c)
            BY <3>7 DEF RemoveLock, Fail, Idle
        <3>8. CASE DetailsRead(c)
            BY <3>8 DEF DetailsRead
        <3>9. CASE SubmitRead(c) \/ StartRead(c) \/ CloseRead(c)
            BY <3>9 DEF SubmitRead, StartRead, CloseRead
        <3>10. CASE RemovePhotoDelete(c) \/ Destroy(c) \/ Interrupt(c)
            BY <3>10 DEF RemovePhotoDelete, Destroy, Interrupt, Fail, Idle
        <3> QED BY <1>2, <3>1, <3>2, <3>3, <3>4, <3>5, <3>6, <3>7, <3>8, <3>9, <3>10, <3>11
    <2>2. UNCHANGED <<status, gallery, equipment>>
        BY <1>2 DEF AddPhotoRead, AddPhotoFind, RemovePhotoRead, RemovePhotoDestroy, RemovePhotoDelete,
            SubmitRead, StartRead, DetailsRead, AddRead, RemoveRead, AddLock, RemoveLock, Destroy,
            CloseRead, Interrupt, Fail, NothingWritten
    <2> QED BY <1>1, <2>1, <2>2
<1>3. ASSUME NEW c \in Clients, AddPhotoSave(c) PROVE ClosingInv'
    <2>1. Then(c, Dispose(request[c].old)) /\ Dispose(request[c].old).step # "closeCommit"
        BY <1>3, Holds, Disposal DEF AddPhotoSave, Does
    <2>2. UNCHANGED <<status, gallery, equipment>>
        BY <1>3 DEF AddPhotoSave
    <2> QED BY <1>1, <2>1, <2>2
<1>4. ASSUME NEW c \in Clients, SubmitWrite(c) \/ StartWrite(c) \/ DetailsWrite(c) PROVE ClosingInv'
    <2>1. Then(c, Idle) /\ Idle.step # "closeCommit" /\ lock = NoClient
        BY <1>4 DEF SubmitWrite, StartWrite, DetailsWrite, Fail, Idle, RowFree
    <2> QED BY <2>1, ClosingSteps
<1>5. ASSUME NEW c \in Clients, AddCommit(c) \/ RemoveCommit(c) \/ CloseCommit(c) PROVE ClosingInv'
    <2>1. lock = c
        BY <1>5 DEF AddCommit, RemoveCommit, CloseCommit, LockInv, Committing, Does
    <2>2. PICK next : Then(c, next) /\ next.step # "closeCommit"
        <3>1. CASE AddCommit(c)
            BY <3>1, Holds, Disposal DEF AddCommit, Does
        <3>2. CASE RemoveCommit(c)
            BY <3>2, Holds, Disposal DEF RemoveCommit, Does
        <3>3. CASE CloseCommit(c)
            BY <3>3 DEF CloseCommit, Idle
        <3> QED BY <1>5, <3>1, <3>2, <3>3
    <2> QED BY <2>1, <2>2, ClosingSteps
<1>6. ASSUME NEW c \in Clients, CloseLock(c) PROVE ClosingInv'
    <2>1. CASE Fail(c)
        BY <1>1, <2>1 DEF Fail, Idle, NothingWritten
    <2>2. CASE ~Fail(c)
        <3>1. /\ status = "COMMERCIAL_PHOTOS" /\ GalleryComplete /\ Then(c, [step |-> "closeCommit"])
              /\ UNCHANGED <<status, gallery, equipment>>
            BY <1>6, <2>2 DEF CloseLock
        <3>2. (status = "COMMERCIAL_PHOTOS" /\ GalleryComplete)'
            BY <3>1 DEF GalleryComplete, Taken
        <3> QED BY <3>1, <3>2, ClosingSteps
    <2> QED BY <2>1, <2>2
<1>7. CASE UNCHANGED vars
    BY <1>7 DEF vars, ClosingInv, Does, GalleryComplete, Taken
<1> QED BY <1>2, <1>3, <1>4, <1>5, <1>6, <1>7 DEF Next, Handler

-----------------------------------------------------------------------------
(* Every reachable state *)

LEMMA InvStarts == Init => Inv
<1> SUFFICES ASSUME Init PROVE Inv
    OBVIOUS
<1>1. TypeOK
    <2>1. NoPhoto \in Photo /\ <<>> \in Seq(Statuses) /\ "DRAFT" \in Statuses
        BY LifeCycleIs DEF Photo
    <2>2. request \in [Clients -> Request] /\ photos \in [PhotoSlots -> Photo]
          /\ gallery \in [CommercialSlots -> Photo] /\ equipment \in [OptionalSlots -> Equipment \cup {"UNKNOWN"}]
        BY <2>1, Requests DEF Init
    <2> QED BY <2>1, <2>2 DEF Init, TypeOK
<1>2. LockInv
    BY RiskNamesAssumption DEF Init, LockInv, Committing, Idle
<1>3. HistoryInv
    BY LifeCycleIs DEF Init, HistoryInv, LifeCycleFollowed
<1>4. ClosingInv
    BY DEF Init, ClosingInv, Does, Idle
<1> QED BY <1>1, <1>2, <1>3, <1>4 DEF Inv

LEMMA InvKept == Inv /\ [Next]_vars => Inv'
BY TypeStep, LockStep, HistoryStep, ClosingStep DEF Inv

LEMMA InvHolds == Spec => []Inv
BY InvStarts, InvKept, PTL DEF Spec

\* Whatever requests overlap or are cut short, every variable keeps its type.
THEOREM TypeCorrect == Spec => []TypeOK
<1>1. Inv => TypeOK
    BY DEF Inv
<1> QED BY <1>1, InvHolds, PTL

\* Any number of overlapping submissions, starts and closures take the dossier through its
\* life cycle once and in order: the conversation's unique key, StartWrite's test of the
\* status and the lock of closures are enough.
THEOREM LifeCycleOnce == Spec => []LifeCycleFollowed
<1>1. Inv => LifeCycleFollowed
    BY DEF Inv, HistoryInv
<1> QED BY <1>1, InvHolds, PTL

\* Any number of requests may edit the gallery while the dossier is being closed: it is
\* closed on a complete one, thanks to the lock alone.
THEOREM ClosedComplete == Spec => ClosesComplete
<1>1. ASSUME Inv, [Next]_vars
      PROVE  [status # "CLOSED" /\ status' = "CLOSED" => GalleryComplete']_vars
    <2>1. SUFFICES ASSUME Next, status # "CLOSED", status' = "CLOSED" PROVE GalleryComplete'
        BY <1>1 DEF vars, dossier
    <2>2. PICK c \in Clients : CloseCommit(c)
        BY <2>1 DEF dossier, Enter, Next, Handler, AddPhotoRead, AddPhotoFind, AddPhotoSave, RemovePhotoRead,
            RemovePhotoDestroy, RemovePhotoDelete, SubmitRead, SubmitWrite, StartRead, StartWrite,
            DetailsRead, DetailsWrite, AddRead, AddLock, AddCommit, RemoveRead, RemoveLock, RemoveCommit,
            Destroy, CloseRead, CloseLock, Interrupt, Fail, NothingWritten
    <2>3. GalleryComplete /\ UNCHANGED <<gallery, equipment>>
        BY <1>1, <2>2 DEF CloseCommit, Inv, ClosingInv
    <2> QED BY <2>3 DEF GalleryComplete, Taken
<1> QED BY <1>1, InvHolds, PTL DEF Spec, ClosesComplete

-----------------------------------------------------------------------------
(* The images *)

Rows(owned) == {NoPhoto} \cup [row : owned, asset : owned]

\* What a request has in hand, and what it has seen under the lock, at each step.
Kind(r) ==
    /\ r.step \in {"findPhoto", "savePhoto"} => r.asset \in TreatmentAssets
    /\ r.step = "savePhoto" => r.old \in Rows(TreatmentAssets)
    /\ r.step \in {"destroyPhoto", "deletePhoto"} => r.photo \in Rows(TreatmentAssets) \ {NoPhoto}
    /\ r.step \in {"add", "addCommit"} => r.asset \in CommercialAssets
    /\ r.step = "addCommit" => r.old = gallery[r.slot]
    /\ r.step = "removeCommit" => r.photo = gallery[r.slot]

\* Treatment images stay with the treatment photos, commercial ones with the gallery.
KindsInv ==
    /\ photos \in [PhotoSlots -> Rows(TreatmentAssets)]
    /\ gallery \in [CommercialSlots -> Rows(CommercialAssets)]
    /\ \A c \in Clients : Kind(request[c])

\* A request brings an image, or is about to destroy it.
Bringing == {"findPhoto", "savePhoto", "add", "addCommit"}
Has(r, a) == r.step \in Bringing \cup {"destroy"} /\ r.asset = a

\* A request works on a treatment photo it has read.
Saw(r, p) ==
    \/ r.step \in {"destroyPhoto", "deletePhoto"} /\ r.photo = p
    \/ r.step = "savePhoto" /\ r.old = p /\ p # NoPhoto

\* An image that is brought is in the store, and no other request has it in hand.
ImagesInv ==
    \A c \in Clients :
        /\ request[c].step \in Bringing =>
              /\ request[c].asset \in store
              /\ \A d \in Clients \ {c} : ~Has(request[d], request[c].asset)
        /\ \A a : Has(request[c], a) => a \in uploaded

\* The images of the gallery are in the store, each in one slot, and in nobody's hands.
GalleryInv ==
    \A s \in CommercialSlots : Taken(gallery, s) =>
        /\ gallery[s].asset \in store
        /\ \A t \in CommercialSlots \ {s} : Taken(gallery, t) => gallery[t].asset # gallery[s].asset
        /\ \A c \in Clients : ~Has(request[c], gallery[s].asset)

\* Likewise of the treatment photos and of their rows, but the image may be gone.
PhotosInv ==
    \A s \in PhotoSlots : Taken(photos, s) =>
        /\ photos[s].row \in uploaded /\ photos[s].asset \in uploaded
        /\ photos[s].asset \in store \/ Removing(s) \/ interrupted
        /\ \A t \in PhotoSlots \ {s} :
              Taken(photos, t) => photos[t].asset # photos[s].asset /\ photos[t].row # photos[s].row
        /\ \A c \in Clients :
              /\ ~Has(request[c], photos[s].asset)
              /\ request[c].step \in Bringing => request[c].asset # photos[s].row

\* A treatment photo that a request has read keeps its row while it keeps its image, and
\* neither comes to another slot or back.
SawInv ==
    \A c \in Clients : \A p : Saw(request[c], p) =>
        /\ p.row \in uploaded /\ p.asset \in uploaded
        /\ \A d \in Clients :
              request[d].step \in Bringing => request[d].asset # p.row /\ request[d].asset # p.asset
        /\ \A s \in PhotoSlots : Taken(photos, s) =>
              /\ s # request[c].slot => photos[s].row # p.row /\ photos[s].asset # p.asset
              /\ photos[s].asset = p.asset => photos[s].row = p.row

Imaging == KindsInv /\ ImagesInv /\ GalleryInv /\ PhotosInv /\ SawInv /\ GalleryTidy

LEMMA KindSteps ==
    ASSUME TypeOK, LockInv, KindsInv, NEW c \in Clients, NEW next, Then(c, next), Kind(next)',
           photos' = photos \/ photos' \in [PhotoSlots -> Rows(TreatmentAssets)],
           gallery' = gallery \/ (lock = c /\ gallery' \in [CommercialSlots -> Rows(CommercialAssets)])
    PROVE  KindsInv'
<1>1. \A d \in Clients : request'[d] = IF d = c THEN next ELSE request[d]
    BY Moves
<1>2. \A d \in Clients : d # c => (Kind(request[d]))'
    <2>1. SUFFICES ASSUME NEW d \in Clients, d # c PROVE (Kind(request[d]))'
        OBVIOUS
    <2>2. request'[d] = request[d] /\ Kind(request[d])
        BY <1>1, <2>1 DEF KindsInv
    <2>3. request[d].step \in {"addCommit", "removeCommit"} => gallery' = gallery
        BY <2>1, RiskNamesAssumption DEF LockInv, Committing
    <2> QED BY <2>2, <2>3 DEF Kind
<1>3. (Kind(request[c]))'
    BY <1>1 DEF Kind
<1>4. photos' \in [PhotoSlots -> Rows(TreatmentAssets)] /\ gallery' \in [CommercialSlots -> Rows(CommercialAssets)]
    BY DEF KindsInv
<1> QED BY <1>2, <1>3, <1>4 DEF KindsInv

\* The steps at which a request has nothing in hand.
LEMMA Empty ==
    ASSUME NEW r, r.step \notin Bringing \cup {"destroyPhoto", "deletePhoto", "removeCommit"}
    PROVE  Kind(r) /\ Kind(r)'
BY DEF Kind, Bringing

LEMMA DisposalOf ==
    ASSUME NEW owned \in SUBSET Assets, NEW p \in Rows(owned)
    PROVE  IF p = NoPhoto THEN Dispose(p) = Idle
           ELSE /\ Dispose(p).step = "destroy" /\ Dispose(p).asset = p.asset
                /\ p.asset \in owned /\ p.row \in owned
BY DEF Rows, Dispose

LEMMA UpsertedOf ==
    ASSUME NEW owned \in SUBSET Assets, NEW Slots, NEW rows \in [Slots -> Rows(owned)],
           NEW s \in Slots, NEW a \in owned
    PROVE  /\ Upsert(rows, s, a) \in [Slots -> Rows(owned)]
           /\ \A t \in Slots : t # s => Upsert(rows, s, a)[t] = rows[t]
           /\ Upsert(rows, s, a)[s].asset = a /\ Upsert(rows, s, a)[s] # NoPhoto
           /\ Upsert(rows, s, a)[s].row = IF rows[s] = NoPhoto THEN a ELSE rows[s].row
<1>1. Rows(owned) \subseteq Photo
    BY DEF Rows, Photo
<1>2. rows \in [Slots -> Photo] /\ a \in Assets
    BY <1>1
<1>3. rows[s] # NoPhoto => rows[s].row \in owned
    BY DEF Rows
<1>4. PICK new : new = [row |-> IF rows[s] = NoPhoto THEN a ELSE rows[s].row, asset |-> a]
    OBVIOUS
<1>5. new \in [row : owned, asset : owned]
    BY <1>3, <1>4
<1>6. new \in Rows(owned)
    BY <1>5 DEF Rows
<1>7. Upsert(rows, s, a) = [rows EXCEPT ![s] = new]
    BY <1>4 DEF Upsert
<1> QED BY <1>2, <1>6, <1>7, Upserted

\* A request goes on with the image it has in hand, or with none; no row or image changes.
LEMMA QuietGallery ==
    ASSUME TypeOK, ImagesInv, GalleryInv, GalleryTidy,
           NEW c \in Clients, NEW next, Then(c, next), UNCHANGED <<gallery, store, uploaded>>,
           \A a : Has(next, a) => next.step \in Bringing /\ request[c].step \in Bringing /\ Has(request[c], a),
           interrupted' \/ (/\ interrupted' = interrupted
                            /\ request[c].step \in {"add", "addCommit", "destroy"} =>
                                  next.step \in {"add", "addCommit"} /\ next.asset = request[c].asset)
    PROVE  ImagesInv' /\ GalleryInv' /\ GalleryTidy'
<1>1. \A d \in Clients : request'[d] = IF d = c THEN next ELSE request[d]
    BY Moves
<1>2. \A d \in Clients : \A a : Has(request'[d], a) => Has(request[d], a)
    BY <1>1
<1>3. \A d \in Clients : request'[d].step \in Bringing =>
          request[d].step \in Bringing /\ request'[d].asset = request[d].asset
    BY <1>1 DEF Has
<1>4. ImagesInv'
    BY <1>2, <1>3 DEF ImagesInv
<1>5. GalleryInv'
    BY <1>2 DEF GalleryInv, Taken
<1>6. GalleryTidy'
    <2>1. SUFFICES ASSUME ~interrupted', NEW a \in CommercialAssets \cap store' PROVE Held(a)'
        BY DEF GalleryTidy
    <2>2. Held(a)
        BY <2>1 DEF GalleryTidy
    <2>3. CASE \E s \in CommercialSlots : Taken(gallery, s) /\ gallery[s].asset = a
        BY <2>3 DEF Held, Taken
    <2>4. ASSUME NEW d \in Clients, request[d].step \in {"add", "addCommit", "destroy"}, request[d].asset = a
          PROVE  Held(a)'
        BY <1>1, <2>1, <2>4 DEF Held
    <2> QED BY <2>2, <2>3, <2>4 DEF Held
<1> QED BY <1>4, <1>5, <1>6

LEMMA QuietPhotos ==
    ASSUME TypeOK, PhotosInv, SawInv,
           NEW c \in Clients, NEW next, Then(c, next), UNCHANGED <<photos, store, uploaded>>,
           \A a : Has(next, a) => next.step \in Bringing /\ request[c].step \in Bringing /\ Has(request[c], a),
           \A p : Saw(next, p) =>
               \/ Saw(request[c], p) /\ next.slot = request[c].slot
               \/ next.slot \in PhotoSlots /\ Taken(photos, next.slot) /\ p = photos[next.slot],
           interrupted' \/ (/\ interrupted' = interrupted
                            /\ request[c].step = "deletePhoto" =>
                                  \A s \in PhotoSlots : Taken(photos, s) => photos[s].row # request[c].photo.row)
    PROVE  PhotosInv' /\ SawInv'
<1>1. \A d \in Clients : request'[d] = IF d = c THEN next ELSE request[d]
    BY Moves
<1>2. \A d \in Clients : \A a : Has(request'[d], a) => Has(request[d], a)
    BY <1>1
<1>3. \A d \in Clients : request'[d].step \in Bringing =>
          request[d].step \in Bringing /\ request'[d].asset = request[d].asset
    BY <1>1 DEF Has
<1>4. ASSUME NEW s \in PhotoSlots, Taken(photos, s), Removing(s), ~interrupted' PROVE Removing(s)'
    <2>1. PICK d \in Clients : Does(d, "deletePhoto") /\ request[d].photo.row = photos[s].row
        BY <1>4 DEF Removing
    <2>2. d # c
        BY <1>4, <2>1 DEF Does
    <2> QED BY <1>1, <2>1, <2>2 DEF Removing, Does
<1>5. PhotosInv'
    <2>1. SUFFICES ASSUME NEW s \in PhotoSlots, Taken(photos, s)
                   PROVE  /\ photos[s].row \in uploaded /\ photos[s].asset \in uploaded
                          /\ photos[s].asset \in store \/ Removing(s)' \/ interrupted'
                          /\ \A t \in PhotoSlots \ {s} :
                                Taken(photos, t) => photos[t].asset # photos[s].asset /\ photos[t].row # photos[s].row
                          /\ \A d \in Clients :
                                /\ ~Has(request'[d], photos[s].asset)
                                /\ request'[d].step \in Bringing => request'[d].asset # photos[s].row
        BY DEF PhotosInv, Taken
    <2>2. photos[s].asset \in store \/ Removing(s)' \/ interrupted'
        BY <1>4, <2>1 DEF PhotosInv
    <2> QED BY <1>2, <1>3, <2>1, <2>2 DEF PhotosInv
<1>6. SawInv'
    <2>1. SUFFICES ASSUME NEW d \in Clients, NEW p, Saw(request'[d], p)
                   PROVE  /\ p.row \in uploaded /\ p.asset \in uploaded
                          /\ \A e \in Clients : request'[e].step \in Bringing =>
                                request'[e].asset # p.row /\ request'[e].asset # p.asset
                          /\ \A s \in PhotoSlots : Taken(photos, s) =>
                                /\ s # request'[d].slot => photos[s].row # p.row /\ photos[s].asset # p.asset
                                /\ photos[s].asset = p.asset => photos[s].row = p.row
        BY DEF SawInv, Taken, Saw
    <2>2. CASE Saw(request[d], p) /\ request'[d].slot = request[d].slot
        BY <1>3, <2>2 DEF SawInv
    <2>3. CASE d = c /\ next.slot \in PhotoSlots /\ Taken(photos, next.slot) /\ p = photos[next.slot]
        <3>1. /\ p.row \in uploaded /\ p.asset \in uploaded
              /\ \A t \in PhotoSlots \ {next.slot} :
                    Taken(photos, t) => photos[t].asset # p.asset /\ photos[t].row # p.row
              /\ \A e \in Clients : /\ ~Has(request[e], p.asset)
                                    /\ request[e].step \in Bringing => request[e].asset # p.row
            BY <2>3 DEF PhotosInv
        <3>2. \A e \in Clients : request'[e].step \in Bringing =>
                  request'[e].asset # p.row /\ request'[e].asset # p.asset
            BY <1>3, <3>1 DEF Has
        <3>3. request'[d].slot = next.slot
            BY <1>1, <2>3
        <3> QED BY <2>3, <3>1, <3>2, <3>3
    <2> QED BY <1>1, <2>1, <2>2, <2>3
<1> QED BY <1>5, <1>6

LEMMA Fresh ==
    ASSUME TypeOK, Imaging, NEW a \in Assets, Upload(a)
    PROVE  /\ store' = store \cup {a} /\ uploaded' = uploaded \cup {a}
           /\ \A d \in Clients : ~Has(request[d], a)
           /\ \A s \in CommercialSlots : Taken(gallery, s) => gallery[s].asset # a
           /\ \A s \in PhotoSlots : Taken(photos, s) => photos[s].asset # a /\ photos[s].row # a
           /\ \A d \in Clients : \A p : Saw(request[d], p) => p.row # a /\ p.asset # a
<1>1. a \notin uploaded /\ store \subseteq uploaded
    BY DEF Upload, TypeOK
<1>2. \A s \in CommercialSlots : Taken(gallery, s) => gallery[s].asset # a
    BY <1>1 DEF Imaging, GalleryInv
<1>3. \A s \in PhotoSlots : Taken(photos, s) => photos[s].asset # a /\ photos[s].row # a
    BY <1>1 DEF Imaging, PhotosInv
<1>4. \A d \in Clients : ~Has(request[d], a)
    BY <1>1 DEF Imaging, ImagesInv
<1>5. \A d \in Clients : \A p : Saw(request[d], p) => p.row # a /\ p.asset # a
    BY <1>1 DEF Imaging, SawInv
<1> QED BY <1>2, <1>3, <1>4, <1>5 DEF Upload

\* A fresh image is brought.
LEMMA UploadStep ==
    ASSUME TypeOK, LockInv, Imaging, NEW c \in Clients, NEW a \in Assets, NEW next, Does(c, "idle"),
           Upload(a), Then(c, next), next.asset = a,
           \/ next.step = "add" /\ a \in CommercialAssets
           \/ next.step = "findPhoto" /\ a \in TreatmentAssets,
           UNCHANGED <<photos, gallery, interrupted>>
    PROVE  Imaging'
<1>1. \A d \in Clients : request'[d] = IF d = c THEN next ELSE request[d]
    BY Moves
<1>2. /\ store' = store \cup {a} /\ uploaded' = uploaded \cup {a}
      /\ \A d \in Clients : ~Has(request[d], a)
      /\ \A s \in CommercialSlots : Taken(gallery, s) => gallery[s].asset # a
      /\ \A s \in PhotoSlots : Taken(photos, s) => photos[s].asset # a /\ photos[s].row # a
      /\ \A d \in Clients : \A p : Saw(request[d], p) => p.row # a /\ p.asset # a
    BY Fresh
<1>3. next.step \in Bringing /\ (\A b : Has(next, b) <=> b = a) /\ (\A p : ~Saw(next, p))
    BY DEF Bringing, Has, Saw
<1>4. KindsInv'
    BY KindSteps DEF Kind, Imaging
<1>5. ImagesInv'
    <2>1. ImagesInv
        BY DEF Imaging
    <2>2. \A d \in Clients \ {c} : request[d].step \in Bringing => Has(request[d], request[d].asset)
        BY DEF Has
    <2> QED BY <1>1, <1>2, <1>3, <2>1, <2>2 DEF ImagesInv
<1>6. GalleryInv'
    BY <1>1, <1>2, <1>3 DEF Imaging, GalleryInv, Taken
<1>7. \A s \in PhotoSlots : Removing(s) => Removing(s)'
    BY <1>1 DEF Removing, Does
<1>8. PhotosInv'
    <2>1. PhotosInv
        BY DEF Imaging
    <2> QED BY <1>1, <1>2, <1>3, <1>7, <2>1 DEF PhotosInv, Taken
<1>9. SawInv'
    <2>1. SawInv
        BY DEF Imaging
    <2> QED BY <1>1, <1>2, <1>3, <2>1 DEF SawInv, Taken
<1>10. GalleryTidy'
    <2>1. SUFFICES ASSUME ~interrupted', NEW b \in CommercialAssets \cap store' PROVE Held(b)'
        BY DEF GalleryTidy
    <2>2. CASE b = a
        <3>1. next.step = "add"
            BY <2>2, RiskSlotsAssumption
        <3> QED BY <1>1, <2>2, <3>1 DEF Held
    <2>3. CASE b # a
        <3>1. Held(b)
            BY <1>2, <2>1, <2>3 DEF Imaging, GalleryTidy
        <3>2. CASE \E s \in CommercialSlots : Taken(gallery, s) /\ gallery[s].asset = b
            BY <3>2 DEF Held, Taken
        <3>3. ASSUME NEW d \in Clients, request[d].step \in {"add", "addCommit", "destroy"}, request[d].asset = b
              PROVE  Held(b)'
            <4>1. request'[d] = request[d]
                BY <1>1, <3>3 DEF Does
            <4> QED BY <3>3, <4>1 DEF Held
        <3> QED BY <3>1, <3>2, <3>3 DEF Held
    <2> QED BY <2>2, <2>3
<1> QED BY <1>4, <1>5, <1>6, <1>8, <1>9, <1>10 DEF Imaging

\* A replaced treatment image is destroyed, a request frees its hands, an image leaves the store.
LEMMA PhotoSaved ==
    ASSUME TypeOK, LockInv, Imaging, NEW c \in Clients, AddPhotoSave(c)
    PROVE  Imaging'
<1> DEFINE s == request[c].slot
           a == request[c].asset
           old == request[c].old
<1>0. PICK next : next = Dispose(request[c].old)
    OBVIOUS
<1>1. /\ Does(c, "savePhoto") /\ Then(c, next) /\ photos' = Upsert(photos, s, a)
      /\ UNCHANGED <<gallery, store, uploaded, lock, interrupted>>
    BY <1>0 DEF AddPhotoSave, images
<1>2. s \in PhotoSlots /\ a \in TreatmentAssets /\ old \in Rows(TreatmentAssets)
    BY <1>1, Holds DEF Imaging, KindsInv, Kind, Does
<1>3. TreatmentAssets \in SUBSET Assets
    BY DEF Assets
<1>4. /\ photos' \in [PhotoSlots -> Rows(TreatmentAssets)]
      /\ \A t \in PhotoSlots : t # s => photos'[t] = photos[t]
      /\ photos'[s].asset = a /\ photos'[s] # NoPhoto
      /\ photos'[s].row = IF photos[s] = NoPhoto THEN a ELSE photos[s].row
    <2>1. photos \in [PhotoSlots -> Rows(TreatmentAssets)]
        BY DEF Imaging, KindsInv
    <2> QED BY <1>1, <1>2, <1>3, <2>1, UpsertedOf
<1>5. IF old = NoPhoto THEN next = Idle
      ELSE next.step = "destroy" /\ next.asset = old.asset /\ old.asset \in TreatmentAssets
    BY <1>0, <1>2, <1>3, DisposalOf
<1>6. \A d \in Clients : request'[d] = IF d = c THEN next ELSE request[d]
    BY <1>1, Moves
<1>7. old # NoPhoto => Saw(request[c], old)
    BY <1>1 DEF Saw, Does
<1>8. next.step \in {"idle", "destroy"} /\ \A p : ~Saw(next, p)
    BY <1>5 DEF Idle, Saw
<1>9. \A b : Has(next, b) => old # NoPhoto /\ b = old.asset
    BY <1>5 DEF Has, Idle, Bringing
<1>a. Has(request[c], a) /\ request[c].step \in Bringing
    BY <1>1 DEF Has, Bringing, Does
<1>b. /\ a \in store /\ a \in uploaded
      /\ \A d \in Clients \ {c} : ~Has(request[d], a)
    BY <1>a DEF Imaging, ImagesInv
<1>c. old # NoPhoto =>
          /\ old.asset \in uploaded /\ old.asset # a
          /\ \A d \in Clients : request[d].step \in Bringing => request[d].asset # old.asset
          /\ \A t \in PhotoSlots : Taken(photos, t) /\ t # s => photos[t].asset # old.asset
    BY <1>7, <1>a DEF Imaging, SawInv
<1>d. \A d \in Clients : request[d].step \in Bringing => Has(request[d], request[d].asset)
    BY DEF Has
<1>10. KindsInv'
    <2>1. Kind(next)'
        BY <1>8 DEF Kind
    <2> QED BY <1>1, <1>4, <2>1, KindSteps DEF Imaging
<1>11. ImagesInv'
    <2>1. ImagesInv
        BY DEF Imaging
    <2>2. \A d \in Clients : request[d].step \in Bringing => ~Has(next, request[d].asset)
        BY <1>9, <1>c
    <2>3. next.step \notin Bringing /\ \A b : Has(next, b) => b \in uploaded
        BY <1>8, <1>9, <1>c DEF Bringing
    <2> QED BY <1>1, <1>6, <2>1, <2>2, <2>3 DEF ImagesInv
<1>12. GalleryInv'
    <2>1. \A t \in CommercialSlots : Taken(gallery, t) => gallery[t].asset \in CommercialAssets
        BY DEF Imaging, KindsInv, Rows, Taken
    <2>2. \A t \in CommercialSlots : Taken(gallery, t) => ~Has(next, gallery[t].asset)
        BY <1>5, <1>9, <2>1, RiskSlotsAssumption
    <2> QED BY <1>1, <1>6, <2>2 DEF Imaging, GalleryInv, Taken
<1>13. \A t \in PhotoSlots : t # s => (Taken(photos, t)' <=> Taken(photos, t))
    BY <1>4 DEF Taken
<1>14. PhotosInv'
    <2>1. SUFFICES ASSUME NEW t \in PhotoSlots, Taken(photos, t)'
                   PROVE  /\ photos'[t].row \in uploaded /\ photos'[t].asset \in uploaded
                          /\ photos'[t].asset \in store \/ Removing(t)' \/ interrupted
                          /\ \A u \in PhotoSlots \ {t} : Taken(photos, u)' =>
                                photos'[u].asset # photos'[t].asset /\ photos'[u].row # photos'[t].row
                          /\ \A d \in Clients :
                                /\ ~Has(request'[d], photos'[t].asset)
                                /\ request'[d].step \in Bringing => request'[d].asset # photos'[t].row
        BY <1>1 DEF PhotosInv
    <2>2. \A u \in PhotoSlots : Taken(photos, u) =>
              photos[u].asset # a /\ photos[u].row # a
        BY <1>a DEF Imaging, PhotosInv
    <2>3. \A u \in PhotoSlots : Taken(photos, u) =>
              /\ photos[u].row \in uploaded /\ photos[u].asset \in uploaded
              /\ \A d \in Clients : /\ ~Has(request[d], photos[u].asset)
                                    /\ request[d].step \in Bringing => request[d].asset # photos[u].row
              /\ \A v \in PhotoSlots \ {u} : Taken(photos, v) =>
                    photos[v].asset # photos[u].asset /\ photos[v].row # photos[u].row
        BY DEF Imaging, PhotosInv
    <2>4. CASE t = s
        <3>1. photos'[t].row \in uploaded /\ photos'[t].asset \in store /\ photos'[t].asset \in uploaded
            BY <1>4, <1>b, <2>3, <2>4 DEF Taken
        <3>2. \A u \in PhotoSlots \ {t} : Taken(photos, u)' =>
                  photos'[u].asset # photos'[t].asset /\ photos'[u].row # photos'[t].row
            BY <1>4, <1>13, <2>2, <2>3, <2>4 DEF Taken
        <3>3. \A d \in Clients : ~Has(request'[d], photos'[t].asset)
            BY <1>4, <1>6, <1>9, <1>b, <1>c, <2>4
        <3>4. \A d \in Clients : request'[d].step \in Bringing => d # c /\ request'[d] = request[d]
            BY <1>6, <1>8 DEF Bringing
        <3>5. \A d \in Clients : d # c /\ request[d].step \in Bringing => request[d].asset # a
            BY <1>b DEF Has
        <3>6. \A d \in Clients : request'[d].step \in Bringing => request'[d].asset # photos'[t].row
            BY <1>4, <2>3, <2>4, <3>4, <3>5 DEF Taken
        <3> QED BY <3>1, <3>2, <3>3, <3>6
    <2>5. CASE t # s
        <3>1. photos'[t] = photos[t] /\ Taken(photos, t)
            BY <1>4, <1>13, <2>1, <2>5
        <3>2. photos[t].asset \in store \/ Removing(t) \/ interrupted
            BY <3>1 DEF Imaging, PhotosInv
        <3>3. Removing(t) => Removing(t)'
            BY <1>1, <1>6, <3>1 DEF Removing, Does
        <3>4. \A u \in PhotoSlots \ {t} : Taken(photos, u)' =>
                  photos'[u].asset # photos'[t].asset /\ photos'[u].row # photos'[t].row
            BY <1>4, <1>13, <2>2, <2>3, <2>5, <3>1 DEF Taken
        <3>5. \A d \in Clients : ~Has(request'[d], photos[t].asset)
            BY <1>6, <1>9, <1>c, <2>3, <2>5, <3>1
        <3>6. \A d \in Clients : request'[d].step \in Bringing => request'[d].asset # photos[t].row
            BY <1>6, <1>8, <2>3, <3>1 DEF Bringing
        <3> QED BY <2>3, <3>1, <3>2, <3>3, <3>4, <3>5, <3>6
    <2> QED BY <2>4, <2>5
<1>15. SawInv'
    <2>1. SUFFICES ASSUME NEW d \in Clients, NEW p, Saw(request'[d], p)
                   PROVE  /\ p.row \in uploaded /\ p.asset \in uploaded
                          /\ \A e \in Clients : request'[e].step \in Bringing =>
                                request'[e].asset # p.row /\ request'[e].asset # p.asset
                          /\ \A t \in PhotoSlots : Taken(photos, t)' =>
                                /\ t # request'[d].slot => photos'[t].row # p.row /\ photos'[t].asset # p.asset
                                /\ photos'[t].asset = p.asset => photos'[t].row = p.row
        BY <1>1 DEF SawInv, Saw
    <2>2. d # c /\ request'[d] = request[d]
        BY <1>6, <1>8, <2>1
    <2>3. /\ p.row \in uploaded /\ p.asset \in uploaded /\ a # p.row /\ a # p.asset
          /\ \A e \in Clients : request[e].step \in Bringing => request[e].asset # p.row /\ request[e].asset # p.asset
          /\ \A t \in PhotoSlots : Taken(photos, t) =>
                /\ t # request[d].slot => photos[t].row # p.row /\ photos[t].asset # p.asset
                /\ photos[t].asset = p.asset => photos[t].row = p.row
        BY <1>a, <2>1, <2>2 DEF Imaging, SawInv
    <2>4. \A e \in Clients : request'[e].step \in Bringing =>
              request'[e].asset # p.row /\ request'[e].asset # p.asset
        BY <1>6, <1>8, <2>3 DEF Bringing
    <2> QED BY <1>4, <1>13, <2>2, <2>3, <2>4 DEF Taken
<1>16. GalleryTidy'
    <2>1. ASSUME ~interrupted', NEW b \in CommercialAssets \cap store' PROVE Held(b)'
        <3>1. Held(b)
            BY <1>1, <2>1 DEF Imaging, GalleryTidy
        <3> QED BY <1>1, <1>6, <3>1 DEF Held, Taken, Does
    <2> QED BY <2>1 DEF GalleryTidy
<1> QED BY <1>10, <1>11, <1>12, <1>14, <1>15, <1>16 DEF Imaging

\* A treatment row is deleted, and with it what a removal had promised to delete.
LEMMA PhotoDeleted ==
    ASSUME TypeOK, LockInv, Imaging, NEW c \in Clients, RemovePhotoDelete(c), ~Fail(c)
    PROVE  Imaging'
<1> DEFINE s == request[c].slot
<1>1. /\ Does(c, "deletePhoto") /\ Then(c, Idle) /\ photos[s].row = request[c].photo.row
      /\ photos' = [photos EXCEPT ![s] = NoPhoto]
      /\ UNCHANGED <<gallery, store, uploaded, lock, interrupted>>
    BY DEF RemovePhotoDelete, images
<1>2. s \in PhotoSlots
    BY <1>1, Holds DEF Does
<1>3. photos \in [PhotoSlots -> Rows(TreatmentAssets)] /\ NoPhoto \in Rows(TreatmentAssets)
    BY DEF Imaging, KindsInv, Rows
<1>4. /\ photos' \in [PhotoSlots -> Rows(TreatmentAssets)]
      /\ \A t \in PhotoSlots : Taken(photos, t)' => t # s /\ photos'[t] = photos[t] /\ Taken(photos, t)
    BY <1>1, <1>2, <1>3 DEF Taken
<1>5. Idle.step = "idle" /\ (\A b : ~Has(Idle, b)) /\ (\A q : ~Saw(Idle, q))
    BY DEF Idle, Has, Saw, Bringing
<1>6. \A d \in Clients : request'[d] = IF d = c THEN Idle ELSE request[d]
    BY <1>1, Moves
<1>7. KindsInv'
    <2>1. Kind(Idle)'
        BY <1>5 DEF Kind, Idle
    <2> QED BY <1>1, <1>4, <2>1, KindSteps DEF Imaging
<1>8. ImagesInv' /\ GalleryInv' /\ GalleryTidy'
    BY <1>1, <1>5, QuietGallery DEF Imaging, Does
<1>9. \A d \in Clients : request'[d].step \in Bringing => request'[d] = request[d]
    BY <1>5, <1>6 DEF Bringing
<1>10. PhotosInv'
    <2>1. SUFFICES ASSUME NEW t \in PhotoSlots, Taken(photos, t)'
                   PROVE  /\ photos[t].row \in uploaded /\ photos[t].asset \in uploaded
                          /\ photos[t].asset \in store \/ Removing(t)' \/ interrupted
                          /\ \A u \in PhotoSlots \ {t} : Taken(photos, u)' =>
                                photos[u].asset # photos[t].asset /\ photos[u].row # photos[t].row
                          /\ \A d \in Clients :
                                /\ ~Has(request'[d], photos[t].asset)
                                /\ request'[d].step \in Bringing => request'[d].asset # photos[t].row
        BY <1>1, <1>4 DEF PhotosInv
    <2>2. Taken(photos, t) /\ t # s /\ photos'[t] = photos[t]
        BY <1>4, <2>1
    <2>3. PhotosInv
        BY DEF Imaging
    <2>4. Saw(request[c], request[c].photo)
        BY <1>1 DEF Saw, Does
    <2>5. photos[t].row # request[c].photo.row
        BY <2>2, <2>4 DEF Imaging, SawInv
    <2>6. Removing(t) => Removing(t)'
        BY <1>6, <2>2, <2>5 DEF Removing, Does
    <2>7. photos[t].asset \in store \/ Removing(t)' \/ interrupted
        BY <2>2, <2>3, <2>6 DEF PhotosInv
    <2>8. \A d \in Clients : ~Has(request'[d], photos[t].asset)
        BY <1>5, <1>6, <2>2, <2>3 DEF PhotosInv
    <2> QED BY <1>4, <1>9, <2>2, <2>3, <2>7, <2>8 DEF PhotosInv
<1>11. SawInv'
    <2>1. SUFFICES ASSUME NEW d \in Clients, NEW q, Saw(request'[d], q)
                   PROVE  /\ q.row \in uploaded /\ q.asset \in uploaded
                          /\ \A e \in Clients : request'[e].step \in Bringing =>
                                request'[e].asset # q.row /\ request'[e].asset # q.asset
                          /\ \A t \in PhotoSlots : Taken(photos, t)' =>
                                /\ t # request'[d].slot => photos'[t].row # q.row /\ photos'[t].asset # q.asset
                                /\ photos'[t].asset = q.asset => photos'[t].row = q.row
        BY <1>1 DEF SawInv, Saw
    <2>2. request'[d] = request[d]
        BY <1>5, <1>6, <2>1
    <2> QED BY <1>4, <1>9, <2>1, <2>2 DEF Imaging, SawInv
<1> QED BY <1>7, <1>8, <1>10, <1>11 DEF Imaging

\* An image leaves the store: a treatment image whose row a removal is about to delete, or one
\* that no row points to any more.
LEMMA ImageGone ==
    ASSUME TypeOK, LockInv, Imaging, NEW c \in Clients, NEW next, Then(c, next), NEW a, store' = store \ {a},
           UNCHANGED <<photos, gallery, uploaded, lock, interrupted>>,
           Kind(next)', \A b : ~Has(next, b),
           \A q : Saw(next, q) => Saw(request[c], q) /\ next.slot = request[c].slot,
           request[c].step \notin Bringing \cup {"deletePhoto"}, request[c].step = "destroy" => request[c].asset = a,
           \A d \in Clients : request[d].step \in Bringing => request[d].asset # a,
           \A s \in CommercialSlots : Taken(gallery, s) => gallery[s].asset # a,
           \A s \in PhotoSlots : Taken(photos, s) /\ photos[s].asset = a =>
               next.step = "deletePhoto" /\ next.photo.row = photos[s].row
    PROVE  Imaging'
<1>1. \A d \in Clients : request'[d] = IF d = c THEN next ELSE request[d]
    BY Moves
<1>2. next.step \notin Bringing
    BY DEF Has
<1>3. KindsInv'
    BY KindSteps DEF Imaging
<1>4. \A d \in Clients : request'[d].step \in Bringing => d # c /\ request'[d] = request[d]
    BY <1>1, <1>2
<1>5. \A d \in Clients : \A b : Has(request'[d], b) => Has(request[d], b)
    BY <1>1
<1>6. ImagesInv'
    <2>1. ImagesInv
        BY DEF Imaging
    <2> QED BY <1>4, <1>5, <2>1 DEF ImagesInv
<1>7. GalleryInv'
    BY <1>5 DEF Imaging, GalleryInv, Taken
<1>8. ASSUME NEW s \in PhotoSlots, Taken(photos, s)
      PROVE  photos[s].asset \in store' \/ Removing(s)' \/ interrupted'
    <2>1. CASE photos[s].asset = a
        <3>1. request'[c].step = "deletePhoto" /\ request'[c].photo.row = photos'[s].row
            BY <1>1, <1>8, <2>1
        <3> QED BY <3>1 DEF Removing, Does
    <2>2. CASE photos[s].asset # a
        <3>1. Removing(s) => Removing(s)'
            BY <1>1 DEF Removing, Does
        <3> QED BY <1>8, <2>2, <3>1 DEF Imaging, PhotosInv
    <2> QED BY <2>1, <2>2
<1>9. PhotosInv'
    <2>1. PhotosInv
        BY DEF Imaging
    <2> QED BY <1>4, <1>5, <1>8, <2>1 DEF PhotosInv, Taken
<1>10. SawInv'
    <2>1. SawInv
        BY DEF Imaging
    <2>2. \A d \in Clients : \A q : Saw(request'[d], q) => Saw(request[d], q) /\ request'[d].slot = request[d].slot
        BY <1>1
    <2> QED BY <1>4, <2>1, <2>2 DEF SawInv, Taken
<1>11. GalleryTidy'
    <2>1. ASSUME ~interrupted', NEW b \in CommercialAssets \cap store' PROVE Held(b)'
        <3>1. Held(b) /\ b # a
            BY <2>1 DEF Imaging, GalleryTidy
        <3>2. CASE \E s \in CommercialSlots : Taken(gallery, s) /\ gallery[s].asset = b
            BY <3>2 DEF Held, Taken
        <3>3. ASSUME NEW d \in Clients, request[d].step \in {"add", "addCommit", "destroy"}, request[d].asset = b
              PROVE  Held(b)'
            <4>1. request'[d] = request[d]
                BY <1>1, <3>1, <3>3 DEF Bringing
            <4> QED BY <3>3, <4>1 DEF Held
        <3> QED BY <3>1, <3>2, <3>3 DEF Held
    <2> QED BY <2>1 DEF GalleryTidy
<1> QED BY <1>3, <1>6, <1>7, <1>9, <1>10, <1>11 DEF Imaging

\* Under the lock, a slot of the gallery takes the image that is brought or becomes free, and
\* the image it had is the request's to destroy.
LEMMA GalleryWritten ==
    ASSUME TypeOK, LockInv, Imaging, NEW c \in Clients, NEW next, Then(c, next), lock = c,
           NEW s \in CommercialSlots, UNCHANGED <<photos, store, uploaded, interrupted>>,
           gallery' \in [CommercialSlots -> Rows(CommercialAssets)],
           \A t \in CommercialSlots : t # s => gallery'[t] = gallery[t],
           IF Taken(gallery, s) THEN next.step = "destroy" /\ next.asset = gallery[s].asset ELSE next = Idle,
           \/ request[c].step = "removeCommit" /\ gallery'[s] = NoPhoto
           \/ request[c].step = "addCommit" /\ gallery'[s] # NoPhoto /\ gallery'[s].asset = request[c].asset
    PROVE  Imaging'
<1>1. \A d \in Clients : request'[d] = IF d = c THEN next ELSE request[d]
    BY Moves
<1>2. next.step \in {"idle", "destroy"} /\ (\A q : ~Saw(next, q))
    BY DEF Idle, Saw
<1>3. \A b : Has(next, b) => Taken(gallery, s) /\ b = gallery[s].asset
    BY DEF Idle, Has, Bringing
<1>4. \A d \in Clients : request'[d].step \in Bringing => d # c /\ request'[d] = request[d]
    BY <1>1, <1>2 DEF Bringing
<1>5. KindsInv'
    <2>1. Kind(next)'
        BY <1>2 DEF Kind
    <2> QED BY <2>1, KindSteps DEF Imaging
<1>6. Taken(gallery, s) =>
          /\ gallery[s].asset \in store /\ gallery[s].asset \in CommercialAssets /\ gallery[s].asset \in uploaded
          /\ \A d \in Clients : ~Has(request[d], gallery[s].asset)
          /\ \A t \in CommercialSlots : Taken(gallery, t) /\ t # s => gallery[t].asset # gallery[s].asset
    BY DEF Imaging, GalleryInv, KindsInv, Rows, Taken, TypeOK
<1>7. \A d \in Clients : request[d].step \in Bringing => Has(request[d], request[d].asset)
    BY DEF Has
<1>8. ImagesInv'
    <2>1. ImagesInv
        BY DEF Imaging
    <2>2. \A d \in Clients : request[d].step \in Bringing => ~Has(next, request[d].asset)
        BY <1>3, <1>6, <1>7
    <2>3. \A b : Has(next, b) => b \in uploaded
        BY <1>3, <1>6
    <2> QED BY <1>1, <1>4, <2>1, <2>2, <2>3 DEF ImagesInv
<1>9. GalleryInv'
    <2>1. SUFFICES ASSUME NEW t \in CommercialSlots, Taken(gallery, t)'
                   PROVE  /\ gallery'[t].asset \in store
                          /\ \A u \in CommercialSlots \ {t} :
                                Taken(gallery, u)' => gallery'[u].asset # gallery'[t].asset
                          /\ \A d \in Clients : ~Has(request'[d], gallery'[t].asset)
        BY DEF GalleryInv
    <2>2. GalleryInv
        BY DEF Imaging
    <2>3. \A u \in CommercialSlots : u # s => (Taken(gallery, u)' <=> Taken(gallery, u))
        BY DEF Taken
    <2>4. Taken(gallery, s)' =>
              /\ request[c].step = "addCommit" /\ Has(request[c], request[c].asset)
              /\ gallery'[s].asset = request[c].asset /\ request[c].asset \in store
              /\ \A d \in Clients \ {c} : ~Has(request[d], request[c].asset)
              /\ \A u \in CommercialSlots : Taken(gallery, u) => gallery[u].asset # request[c].asset
        <3>1. request[c].step = "addCommit" => Has(request[c], request[c].asset) /\ request[c].step \in Bringing
            BY <1>7 DEF Bringing
        <3> QED BY <2>2, <3>1 DEF Taken, Imaging, ImagesInv, GalleryInv
    <2>5. CASE t = s
        <3>1. gallery'[t].asset \in store
            BY <2>1, <2>4, <2>5
        <3>2. \A u \in CommercialSlots \ {t} : Taken(gallery, u)' => gallery'[u].asset # gallery'[t].asset
            BY <2>1, <2>3, <2>4, <2>5
        <3>3. \A d \in Clients : ~Has(request'[d], gallery'[t].asset)
            BY <1>1, <1>3, <2>1, <2>4, <2>5
        <3> QED BY <3>1, <3>2, <3>3
    <2>6. CASE t # s
        <3>1. gallery'[t] = gallery[t] /\ Taken(gallery, t)
            BY <2>1, <2>3, <2>6
        <3>2. \A u \in CommercialSlots \ {t} : Taken(gallery, u)' => gallery'[u].asset # gallery'[t].asset
            BY <2>2, <2>3, <2>4, <2>6, <3>1 DEF GalleryInv
        <3>3. \A d \in Clients : ~Has(request'[d], gallery'[t].asset)
            BY <1>1, <1>3, <1>6, <2>2, <2>6, <3>1 DEF GalleryInv
        <3> QED BY <2>2, <3>1, <3>2, <3>3 DEF GalleryInv
    <2> QED BY <2>5, <2>6
<1>10. \A t \in PhotoSlots : Taken(photos, t) => ~Has(next, photos[t].asset)
    <2>1. \A t \in PhotoSlots : Taken(photos, t) => photos[t].asset \in TreatmentAssets
        BY DEF Imaging, KindsInv, Rows, Taken
    <2> QED BY <1>3, <1>6, <2>1, RiskSlotsAssumption
<1>11. PhotosInv'
    <2>1. PhotosInv
        BY DEF Imaging
    <2>2. \A t \in PhotoSlots : Removing(t) => Removing(t)'
        BY <1>1 DEF Removing, Does
    <2> QED BY <1>1, <1>4, <1>10, <2>1, <2>2 DEF PhotosInv, Taken
<1>12. SawInv'
    <2>1. SawInv
        BY DEF Imaging
    <2>2. \A d \in Clients : \A q : Saw(request'[d], q) => Saw(request[d], q) /\ request'[d].slot = request[d].slot
        BY <1>1, <1>2
    <2> QED BY <1>4, <2>1, <2>2 DEF SawInv, Taken
<1>13. GalleryTidy'
    <2>1. ASSUME ~interrupted', NEW b \in CommercialAssets \cap store' PROVE Held(b)'
        <3>1. Held(b)
            BY <2>1 DEF Imaging, GalleryTidy
        <3>2. ASSUME NEW t \in CommercialSlots, Taken(gallery, t), gallery[t].asset = b PROVE Held(b)'
            <4>1. CASE t = s
                <5>1. request'[c].step = "destroy" /\ request'[c].asset = b
                    BY <1>1, <3>2, <4>1
                <5> QED BY <5>1 DEF Held
            <4>2. CASE t # s
                BY <3>2, <4>2 DEF Held, Taken
            <4> QED BY <4>1, <4>2
        <3>3. ASSUME NEW d \in Clients, request[d].step \in {"add", "addCommit", "destroy"}, request[d].asset = b
              PROVE  Held(b)'
            <4>1. CASE d = c
                BY <3>3, <4>1 DEF Held, Taken
            <4>2. CASE d # c
                BY <1>1, <3>3, <4>2 DEF Held
            <4> QED BY <4>1, <4>2
        <3> QED BY <3>1, <3>2, <3>3 DEF Held
    <2> QED BY <2>1 DEF GalleryTidy
<1> QED BY <1>5, <1>8, <1>9, <1>11, <1>12, <1>13 DEF Imaging

\* A request that writes neither row nor image.
LEMMA Quiet ==
    ASSUME TypeOK, LockInv, Imaging, NEW c \in Clients, NEW next, Then(c, next),
           UNCHANGED <<photos, gallery, store, uploaded>>, Kind(next)',
           \A a : Has(next, a) => next.step \in Bringing /\ request[c].step \in Bringing /\ Has(request[c], a),
           \A p : Saw(next, p) =>
               \/ Saw(request[c], p) /\ next.slot = request[c].slot
               \/ next.slot \in PhotoSlots /\ Taken(photos, next.slot) /\ p = photos[next.slot],
           interrupted' \/ (/\ interrupted' = interrupted
                            /\ request[c].step \in {"add", "addCommit", "destroy"} =>
                                  next.step \in {"add", "addCommit"} /\ next.asset = request[c].asset
                            /\ request[c].step = "deletePhoto" =>
                                  \A s \in PhotoSlots : Taken(photos, s) => photos[s].row # request[c].photo.row)
    PROVE  Imaging'
<1>1. KindsInv'
    BY KindSteps DEF Imaging
<1>2. ImagesInv' /\ GalleryInv' /\ GalleryTidy'
    BY QuietGallery DEF Imaging
<1>3. PhotosInv' /\ SawInv'
    BY QuietPhotos DEF Imaging
<1> QED BY <1>1, <1>2, <1>3 DEF Imaging

\* A request that has, before and after, nothing in hand and nothing to promise.
LEMMA QuietEmpty ==
    ASSUME TypeOK, LockInv, Imaging, NEW c \in Clients, NEW next, Then(c, next),
           UNCHANGED <<photos, gallery, store, uploaded>>,
           next.step \in {"idle", "submit", "start", "close", "closeCommit", "details", "remove"},
           interrupted' \/ (/\ interrupted' = interrupted
                            /\ request[c].step \notin {"add", "addCommit", "destroy", "deletePhoto"})
    PROVE  Imaging'
<1>1. Kind(next)'
    BY DEF Kind
<1>2. (\A a : ~Has(next, a)) /\ (\A p : ~Saw(next, p))
    BY DEF Has, Saw, Bringing
<1> QED BY <1>1, <1>2, Quiet

LEMMA ImagingStep ==
    ASSUME TypeOK, LockInv, Imaging, [Next]_vars
    PROVE  Imaging'
<1> USE DEF dossier, images
<1>1. ASSUME NEW c \in Clients, AddPhotoRead(c) PROVE Imaging'
    <2>1. PICK s \in PhotoSlots, a \in TreatmentAssets :
              Upload(a) /\ Then(c, [step |-> "findPhoto", slot |-> s, asset |-> a])
        BY <1>1 DEF AddPhotoRead
    <2>2. a \in Assets
        BY DEF Assets
    <2>3. Does(c, "idle") /\ UNCHANGED <<photos, gallery, interrupted>>
        BY <1>1 DEF AddPhotoRead
    <2> QED BY <2>1, <2>2, <2>3, UploadStep
<1>2. ASSUME NEW c \in Clients, AddPhotoFind(c) PROVE Imaging'
    <2>1. PICK next : next = [step |-> "savePhoto", slot |-> request[c].slot, asset |-> request[c].asset,
                              old |-> photos[request[c].slot]]
        OBVIOUS
    <2>2. /\ Does(c, "findPhoto") /\ Then(c, next)
          /\ UNCHANGED <<photos, gallery, store, uploaded, interrupted>>
        BY <1>2, <2>1 DEF AddPhotoFind, NothingWritten
    <2>3. request[c].slot \in PhotoSlots /\ request[c].asset \in TreatmentAssets
        BY <2>2, Holds DEF Does, Imaging, KindsInv, Kind
    <2>4. photos[request[c].slot] \in Rows(TreatmentAssets)
        BY <2>3 DEF Imaging, KindsInv
    <2>5. Kind(next)'
        BY <2>1, <2>3, <2>4 DEF Kind
    <2>6. \A a : Has(next, a) => next.step \in Bringing /\ request[c].step \in Bringing /\ Has(request[c], a)
        BY <2>1, <2>2 DEF Has, Bringing, Does
    <2>7. \A p : Saw(next, p) => next.slot \in PhotoSlots /\ Taken(photos, next.slot) /\ p = photos[next.slot]
        BY <2>1, <2>3 DEF Saw, Taken
    <2> QED BY <2>2, <2>5, <2>6, <2>7, Quiet DEF Does
<1>3. ASSUME NEW c \in Clients, AddPhotoSave(c) PROVE Imaging'
    BY <1>3, PhotoSaved
<1>4. ASSUME NEW c \in Clients, RemovePhotoRead(c) PROVE Imaging'
    <2>1. PICK s \in PhotoSlots : /\ Taken(photos, s)
                                  /\ Then(c, [step |-> "destroyPhoto", slot |-> s, photo |-> photos[s]])
        BY <1>4 DEF RemovePhotoRead
    <2>2. PICK next : next = [step |-> "destroyPhoto", slot |-> s, photo |-> photos[s]]
        OBVIOUS
    <2>3. /\ Does(c, "idle") /\ Then(c, next)
          /\ UNCHANGED <<photos, gallery, store, uploaded, interrupted>>
        BY <1>4, <2>1, <2>2 DEF RemovePhotoRead, NothingWritten
    <2>4. Kind(next)'
        <3>1. photos[s] \in Rows(TreatmentAssets) \ {NoPhoto}
            BY <2>1 DEF Imaging, KindsInv, Taken
        <3> QED BY <2>2, <3>1 DEF Kind
    <2>5. \A a : ~Has(next, a)
        BY <2>2 DEF Has, Bringing
    <2>6. \A p : Saw(next, p) => next.slot \in PhotoSlots /\ Taken(photos, next.slot) /\ p = photos[next.slot]
        BY <2>1, <2>2 DEF Saw
    <2> QED BY <2>3, <2>4, <2>5, <2>6, Quiet DEF Does
<1>5. ASSUME NEW c \in Clients, RemovePhotoDestroy(c) PROVE Imaging'
    <2> DEFINE a == request[c].photo.asset
    <2>1. PICK next : next = [step |-> "deletePhoto", slot |-> request[c].slot, photo |-> request[c].photo]
        OBVIOUS
    <2>2. /\ Does(c, "destroyPhoto") /\ Then(c, next) /\ store' = store \ {a}
          /\ UNCHANGED <<photos, gallery, uploaded, lock, interrupted>>
        BY <1>5, <2>1 DEF RemovePhotoDestroy
    <2>3. request[c].photo \in Rows(TreatmentAssets) \ {NoPhoto}
        BY <2>2 DEF Does, Imaging, KindsInv, Kind
    <2>4. Kind(next)' /\ \A b : ~Has(next, b)
        BY <2>1, <2>3 DEF Kind, Has, Bringing
    <2>5. Saw(request[c], request[c].photo)
        BY <2>2 DEF Saw, Does
    <2>6. \A q : Saw(next, q) => Saw(request[c], q) /\ next.slot = request[c].slot
        BY <2>1, <2>2 DEF Saw, Does
    <2>7. /\ \A d \in Clients : request[d].step \in Bringing => request[d].asset # a
          /\ \A s \in PhotoSlots : Taken(photos, s) /\ photos[s].asset = a =>
                photos[s].row = request[c].photo.row
        BY <2>5 DEF Imaging, SawInv
    <2>8. \A s \in CommercialSlots : Taken(gallery, s) => gallery[s].asset # a
        <3>1. a \in TreatmentAssets
            BY <2>3 DEF Rows
        <3>2. \A s \in CommercialSlots : Taken(gallery, s) => gallery[s].asset \in CommercialAssets
            BY DEF Imaging, KindsInv, Rows, Taken
        <3> QED BY <3>1, <3>2, RiskSlotsAssumption
    <2>9. next.step = "deletePhoto" /\ next.photo.row = request[c].photo.row
        BY <2>1
    <2>10. request[c].step \notin Bringing \cup {"deletePhoto", "destroy"}
        BY <2>2 DEF Does, Bringing
    <2> HIDE DEF a
    <2> QED BY <2>2, <2>4, <2>6, <2>7, <2>8, <2>9, <2>10, ImageGone
<1>6. ASSUME NEW c \in Clients, RemovePhotoDelete(c) PROVE Imaging'
    <2>1. CASE ~Fail(c)
        BY <1>6, <2>1, PhotoDeleted
    <2>2. CASE Fail(c)
        <3>1. /\ Does(c, "deletePhoto") /\ Then(c, Idle)
              /\ UNCHANGED <<photos, gallery, store, uploaded, interrupted>>
            BY <1>6, <2>2 DEF RemovePhotoDelete, Fail, NothingWritten
        <3>2. request[c].slot \in PhotoSlots /\ request[c].photo \in Rows(TreatmentAssets) \ {NoPhoto}
            BY <3>1, Holds DEF Does, Imaging, KindsInv, Kind
        <3>3. photos[request[c].slot].row # request[c].photo.row
            <4>1. CASE photos' = [photos EXCEPT ![request[c].slot] = NoPhoto] /\ photos[request[c].slot].row = request[c].photo.row
                <5>1. photos[request[c].slot] = NoPhoto
                    BY <3>1, <3>2, <4>1 DEF TypeOK
                <5> QED BY <3>2, <4>1, <5>1, RiskNamesAssumption DEF NoPhoto, Rows, Assets
            <4> QED BY <1>6, <4>1 DEF RemovePhotoDelete
        <3>4. Saw(request[c], request[c].photo)
            BY <3>1 DEF Saw, Does
        <3>5. \A s \in PhotoSlots : Taken(photos, s) => photos[s].row # request[c].photo.row
            BY <3>3, <3>4 DEF Imaging, SawInv
        <3>6. Kind(Idle)' /\ (\A a : ~Has(Idle, a)) /\ (\A p : ~Saw(Idle, p))
            BY DEF Kind, Idle, Has, Saw, Bringing
        <3> QED BY <3>1, <3>5, <3>6, Quiet DEF Does
    <2> QED BY <2>1, <2>2
<1>7. ASSUME NEW c \in Clients, SubmitRead(c) \/ StartRead(c) \/ CloseRead(c) PROVE Imaging'
    <2>1. PICK next : Then(c, next) /\ next.step \in {"submit", "start", "close"}
        BY <1>7 DEF SubmitRead, StartRead, CloseRead
    <2>2. UNCHANGED <<photos, gallery, store, uploaded, interrupted>> /\ Does(c, "idle")
        BY <1>7 DEF SubmitRead, StartRead, CloseRead, NothingWritten
    <2> QED BY <2>1, <2>2, QuietEmpty DEF Does
<1>8. ASSUME NEW c \in Clients, SubmitWrite(c) \/ StartWrite(c) \/ DetailsWrite(c) \/ CloseCommit(c)
      PROVE  Imaging'
    <2>1. Then(c, Idle) /\ Idle.step = "idle"
        BY <1>8 DEF SubmitWrite, StartWrite, DetailsWrite, CloseCommit, Fail, Idle
    <2>2. /\ UNCHANGED <<photos, gallery, store, uploaded, interrupted>>
          /\ request[c].step \in {"submit", "start", "details", "closeCommit"}
        BY <1>8 DEF SubmitWrite, StartWrite, DetailsWrite, CloseCommit, Fail, NothingWritten, Does
    <2> QED BY <2>1, <2>2, QuietEmpty
<1>9. ASSUME NEW c \in Clients, DetailsRead(c) \/ RemoveRead(c) PROVE Imaging'
    <2>1. PICK next : Then(c, next) /\ next.step \in {"details", "remove"}
        <3>1. CASE DetailsRead(c)
            BY <3>1 DEF DetailsRead
        <3>2. CASE RemoveRead(c)
            BY <3>2 DEF RemoveRead
        <3> QED BY <1>9, <3>1, <3>2
    <2>2. UNCHANGED <<photos, gallery, store, uploaded, interrupted>> /\ Does(c, "idle")
        BY <1>9 DEF DetailsRead, RemoveRead, NothingWritten
    <2> QED BY <2>1, <2>2, QuietEmpty DEF Does
<1>10. ASSUME NEW c \in Clients, AddRead(c) PROVE Imaging'
    <2>1. PICK s \in CommercialSlots, a \in CommercialAssets :
              Upload(a) /\ Then(c, [step |-> "add", slot |-> s, asset |-> a])
        BY <1>10 DEF AddRead
    <2>2. a \in Assets
        BY DEF Assets
    <2>3. Does(c, "idle") /\ UNCHANGED <<photos, gallery, interrupted>>
        BY <1>10 DEF AddRead
    <2> QED BY <2>1, <2>2, <2>3, UploadStep
<1>11. ASSUME NEW c \in Clients, AddLock(c) PROVE Imaging'
    <2>1. PICK next : next = [step |-> "addCommit", slot |-> request[c].slot, asset |-> request[c].asset,
                              old |-> gallery[request[c].slot]]
        OBVIOUS
    <2>2. /\ Does(c, "add") /\ Then(c, next)
          /\ UNCHANGED <<photos, gallery, store, uploaded, interrupted>>
        BY <1>11, <2>1 DEF AddLock
    <2>3. request[c].asset \in CommercialAssets
        BY <2>2 DEF Does, Imaging, KindsInv, Kind
    <2>4. Kind(next)'
        BY <2>1, <2>2, <2>3 DEF Kind
    <2>5. \A a : Has(next, a) => next.step \in Bringing /\ request[c].step \in Bringing /\ Has(request[c], a)
        BY <2>1, <2>2 DEF Has, Bringing, Does
    <2>6. \A p : ~Saw(next, p)
        BY <2>1 DEF Saw
    <2>7. next.step = "addCommit" /\ next.asset = request[c].asset /\ request[c].step = "add"
        BY <2>1, <2>2 DEF Does
    <2> QED BY <2>2, <2>4, <2>5, <2>6, <2>7, Quiet
<1>12. ASSUME NEW c \in Clients, AddCommit(c) PROVE Imaging'
    <2> DEFINE s == request[c].slot
               a == request[c].asset
    <2>1. PICK next : next = Dispose(request[c].old)
        OBVIOUS
    <2>2. /\ Does(c, "addCommit") /\ Then(c, next) /\ gallery' = Upsert(gallery, s, a)
          /\ UNCHANGED <<photos, store, uploaded, interrupted>>
        BY <1>12, <2>1 DEF AddCommit
    <2>3. lock = c
        BY <2>2 DEF LockInv, Committing, Does
    <2>4. s \in CommercialSlots /\ a \in CommercialAssets /\ request[c].old = gallery[s]
        BY <2>2, Holds DEF Does, Imaging, KindsInv, Kind
    <2>5. CommercialAssets \in SUBSET Assets /\ gallery \in [CommercialSlots -> Rows(CommercialAssets)]
        BY DEF Assets, Imaging, KindsInv
    <2>6. /\ gallery' \in [CommercialSlots -> Rows(CommercialAssets)]
          /\ \A t \in CommercialSlots : t # s => gallery'[t] = gallery[t]
          /\ gallery'[s].asset = a /\ gallery'[s] # NoPhoto
        BY <2>2, <2>4, <2>5, UpsertedOf
    <2>7. IF Taken(gallery, s) THEN next.step = "destroy" /\ next.asset = gallery[s].asset ELSE next = Idle
        BY <2>1, <2>4 DEF Dispose, Taken
    <2>8. request[c].step = "addCommit"
        BY <2>2 DEF Does
    <2> QED BY <2>2, <2>3, <2>4, <2>6, <2>7, <2>8, GalleryWritten
<1>13. ASSUME NEW c \in Clients, RemoveLock(c) PROVE Imaging'
    <2>0. Does(c, "remove") /\ UNCHANGED <<photos, gallery, store, uploaded, interrupted>>
        BY <1>13 DEF RemoveLock, Fail, NothingWritten
    <2>1. CASE Then(c, Idle)
        BY <2>0, <2>1, QuietEmpty DEF Does, Idle
    <2>2. CASE Then(c, [step |-> "removeCommit", slot |-> request[c].slot, photo |-> gallery[request[c].slot]])
        <3>1. PICK next : next = [step |-> "removeCommit", slot |-> request[c].slot,
                                  photo |-> gallery[request[c].slot]]
            OBVIOUS
        <3>2. Kind(next)' /\ (\A a : ~Has(next, a)) /\ (\A p : ~Saw(next, p))
            BY <2>0, <3>1 DEF Kind, Has, Saw, Bringing
        <3>3. Then(c, next)
            BY <2>2, <3>1
        <3> QED BY <2>0, <3>2, <3>3, Quiet DEF Does
    <2> QED BY <1>13, <2>1, <2>2 DEF RemoveLock, Fail
<1>14. ASSUME NEW c \in Clients, RemoveCommit(c) PROVE Imaging'
    <2> DEFINE s == request[c].slot
    <2>1. PICK next : next = Dispose(request[c].photo)
        OBVIOUS
    <2>2. /\ Does(c, "removeCommit") /\ Then(c, next) /\ gallery' = [gallery EXCEPT ![s] = NoPhoto]
          /\ UNCHANGED <<photos, store, uploaded, interrupted>>
        BY <1>14, <2>1 DEF RemoveCommit
    <2>3. lock = c
        BY <2>2 DEF LockInv, Committing, Does
    <2>4. s \in CommercialSlots /\ request[c].photo = gallery[s]
        BY <2>2, Holds DEF Does, Imaging, KindsInv, Kind
    <2>5. gallery \in [CommercialSlots -> Rows(CommercialAssets)] /\ NoPhoto \in Rows(CommercialAssets)
        BY DEF Imaging, KindsInv, Rows
    <2>6. /\ gallery' \in [CommercialSlots -> Rows(CommercialAssets)]
          /\ \A t \in CommercialSlots : t # s => gallery'[t] = gallery[t]
          /\ gallery'[s] = NoPhoto
        BY <2>2, <2>4, <2>5
    <2>7. IF Taken(gallery, s) THEN next.step = "destroy" /\ next.asset = gallery[s].asset ELSE next = Idle
        BY <2>1, <2>4 DEF Dispose, Taken
    <2>8. request[c].step = "removeCommit"
        BY <2>2 DEF Does
    <2> QED BY <2>2, <2>3, <2>4, <2>6, <2>7, <2>8, GalleryWritten
<1>15. ASSUME NEW c \in Clients, Destroy(c) PROVE Imaging'
    <2> DEFINE a == request[c].asset
    <2>1. /\ Does(c, "destroy") /\ Then(c, Idle) /\ store' = store \ {a}
          /\ UNCHANGED <<photos, gallery, uploaded, lock, interrupted>>
        BY <1>15 DEF Destroy
    <2>2. Has(request[c], a) /\ request[c].step \notin Bringing \cup {"deletePhoto"}
        BY <2>1 DEF Has, Bringing, Does
    <2>3. Kind(Idle)' /\ (\A b : ~Has(Idle, b)) /\ (\A q : ~Saw(Idle, q))
        BY DEF Kind, Idle, Has, Saw, Bringing
    <2>4. \A d \in Clients : request[d].step \in Bringing => request[d].asset # a
        BY <2>2 DEF Imaging, ImagesInv
    <2>5. \A s \in CommercialSlots : Taken(gallery, s) => gallery[s].asset # a
        BY <2>2 DEF Imaging, GalleryInv
    <2>6. \A s \in PhotoSlots : Taken(photos, s) => photos[s].asset # a
        BY <2>2 DEF Imaging, PhotosInv
    <2>7. request[c].asset = a
        OBVIOUS
    <2> HIDE DEF a
    <2> QED BY <2>1, <2>2, <2>3, <2>4, <2>5, <2>6, <2>7, ImageGone
<1>16. ASSUME NEW c \in Clients, CloseLock(c) PROVE Imaging'
    <2>1. PICK next : Then(c, next) /\ next.step \in {"idle", "closeCommit"}
        BY <1>16 DEF CloseLock, Fail, Idle
    <2>2. UNCHANGED <<photos, gallery, store, uploaded, interrupted>> /\ Does(c, "close")
        BY <1>16 DEF CloseLock, Fail, NothingWritten
    <2> QED BY <2>1, <2>2, QuietEmpty DEF Does
<1>17. ASSUME NEW c \in Clients, Interrupt(c) PROVE Imaging'
    <2>1. Then(c, Idle) /\ Idle.step = "idle" /\ interrupted' /\ UNCHANGED <<photos, gallery, store, uploaded>>
        BY <1>17 DEF Interrupt, Idle
    <2> QED BY <2>1, QuietEmpty
<1>18. CASE UNCHANGED vars
    BY <1>18 DEF vars, Imaging, KindsInv, Kind, ImagesInv, GalleryInv, PhotosInv, SawInv, GalleryTidy, Held,
        Removing, Does, Taken
<1> QED BY <1>1, <1>2, <1>3, <1>4, <1>5, <1>6, <1>7, <1>8, <1>9, <1>10, <1>11, <1>12, <1>13,
           <1>14, <1>15, <1>16, <1>17, <1>18 DEF Next, Handler

LEMMA ImagingHolds == Spec => [](Inv /\ Imaging)
<1>1. Init => Imaging
    <2> SUFFICES ASSUME Init PROVE Imaging
        OBVIOUS
    <2>1. KindsInv
        BY DEF Init, KindsInv, Kind, Rows, Idle
    <2>2. /\ \A c \in Clients : request[c].step = "idle"
          /\ \A s \in PhotoSlots : ~Taken(photos, s)
          /\ \A s \in CommercialSlots : ~Taken(gallery, s)
          /\ store = {}
        BY DEF Init, Idle, Taken
    <2>3. ImagesInv /\ SawInv
        BY <2>2 DEF ImagesInv, SawInv, Has, Saw, Bringing
    <2> QED BY <2>1, <2>2, <2>3 DEF Imaging, GalleryInv, PhotosInv, GalleryTidy
<1>2. Inv /\ Imaging /\ [Next]_vars => (Inv /\ Imaging)'
    BY InvKept, ImagingStep DEF Inv
<1> QED BY <1>1, <1>2, InvStarts, PTL DEF Spec

\* Whatever additions, replacements and removals overlap or are cut short, a gallery photo has
\* its image, and a treatment photo too unless its removal is under way or was cut short.
THEOREM ImagesKept == Spec => []PhotosHaveTheirImage
<1>1. Imaging => PhotosHaveTheirImage
    BY DEF Imaging, GalleryInv, PhotosInv, PhotosHaveTheirImage
<1> QED BY <1>1, ImagingHolds, PTL

\* Unless a request is cut short, the store keeps no commercial image that nobody refers to,
\* however many requests replace and remove the photos of the same slots.
THEOREM GalleryStaysTidy == Spec => []GalleryTidy
<1>1. Imaging => GalleryTidy
    BY DEF Imaging
<1> QED BY <1>1, ImagingHolds, PTL


-----------------------------------------------------------------------------
(* A submitted dossier keeps the photos a submission requires *)

PhotoSteps == {"findPhoto", "savePhoto", "destroyPhoto", "deletePhoto"}

\* No treatment photo is added, replaced or removed while a submission is in progress.
SubmissionApart == \A c, d \in Clients : ~(Does(c, "submit") /\ request[d].step \in PhotoSteps)

\* What a submission has found stays true until it is written, and then no edit is left.
SubmitInv ==
    /\ (status # "DRAFT" \/ \E c \in Clients : Does(c, "submit")) => PhotosComplete
    /\ status # "DRAFT" => \A c \in Clients : request[c].step \notin PhotoSteps

\* Only a request that edits photos writes them; only a submission ends the draft.
LEMMA SubmitSteps ==
    ASSUME TypeOK, SubmissionApart, SubmissionApart', SubmitInv, NEW c \in Clients, NEW next, Then(c, next),
           photos' = photos \/ request[c].step \in PhotoSteps,
           next.step = "submit" => photos' = photos /\ PhotosComplete,
           status' # "DRAFT" => status # "DRAFT" \/ Does(c, "submit"),
           next.step \in PhotoSteps => request[c].step \in PhotoSteps \/ status' = "DRAFT"
    PROVE  SubmitInv'
<1>1. \A d \in Clients : request'[d] = IF d = c THEN next ELSE request[d]
    BY Moves
<1>2. "submit" \notin PhotoSteps
    BY DEF PhotoSteps
<1>3. photos' = photos /\ PhotosComplete => PhotosComplete'
    BY DEF PhotosComplete, Taken
<1>4. ASSUME status' # "DRAFT" \/ \E d \in Clients : Does(d, "submit")'
      PROVE  PhotosComplete'
    <2>1. CASE next.step = "submit"
        BY <1>3, <2>1
    <2>2. CASE next.step # "submit"
        <3>1. status # "DRAFT" \/ \E d \in Clients : Does(d, "submit")
            BY <1>1, <1>4, <2>2 DEF Does
        <3>2. request[c].step \notin PhotoSteps
            <4>1. CASE status # "DRAFT"
                BY <4>1 DEF SubmitInv
            <4>2. CASE status = "DRAFT"
                BY <3>1, <4>2 DEF SubmissionApart
            <4> QED BY <4>1, <4>2
        <3> QED BY <1>3, <3>1, <3>2 DEF SubmitInv
    <2> QED BY <2>1, <2>2
<1>5. ASSUME status' # "DRAFT", NEW d \in Clients PROVE request'[d].step \notin PhotoSteps
    <2>1. CASE status # "DRAFT"
        BY <1>1, <1>5, <2>1 DEF SubmitInv
    <2>2. CASE Does(c, "submit")
        BY <1>1, <1>2, <1>5, <2>2 DEF SubmissionApart, Does
    <2> QED BY <1>5, <2>1, <2>2
<1> QED BY <1>4, <1>5 DEF SubmitInv

LEMMA SubmitStep ==
    ASSUME Inv, SubmissionApart, SubmissionApart', SubmitInv, [Next]_vars
    PROVE  SubmitInv'
<1> USE DEF Inv, dossier, images, PhotoSteps
<1>1. ASSUME NEW c \in Clients,
             \/ AddPhotoFind(c) \/ RemovePhotoDestroy(c) \/ RemovePhotoDelete(c)
             \/ StartRead(c) \/ StartWrite(c) \/ DetailsWrite(c)
             \/ AddLock(c) \/ RemoveLock(c) \/ Destroy(c) \/ CloseRead(c) \/ CloseLock(c)
      PROVE  SubmitInv'
    <2>1. PICK next : /\ Then(c, next) /\ next.step # "submit"
                      /\ next.step \in PhotoSteps => request[c].step \in PhotoSteps
        BY <1>1 DEF AddPhotoFind, RemovePhotoDestroy, RemovePhotoDelete, StartRead, StartWrite, DetailsWrite,
            AddLock, RemoveLock, Destroy, CloseRead, CloseLock, Fail, Idle, Does
    <2>2. photos' = photos \/ request[c].step \in PhotoSteps
        BY <1>1 DEF AddPhotoFind, RemovePhotoDestroy, RemovePhotoDelete, StartRead, StartWrite, DetailsWrite,
            AddLock, RemoveLock, Destroy, CloseRead, CloseLock, Fail, NothingWritten, Does
    <2>3. status' # "DRAFT" => status # "DRAFT"
        BY <1>1 DEF AddPhotoFind, RemovePhotoDestroy, RemovePhotoDelete, StartRead, StartWrite, DetailsWrite,
            AddLock, RemoveLock, Destroy, CloseRead, CloseLock, Fail, NothingWritten, Enter
    <2> QED BY <2>1, <2>2, <2>3, SubmitSteps
<1>2. ASSUME NEW c \in Clients, AddPhotoRead(c) \/ RemovePhotoRead(c) PROVE SubmitInv'
    <2>1. PICK next : Then(c, next) /\ next.step \in {"findPhoto", "destroyPhoto"}
        <3>1. CASE AddPhotoRead(c)
            BY <3>1 DEF AddPhotoRead
        <3>2. CASE RemovePhotoRead(c)
            BY <3>2 DEF RemovePhotoRead
        <3> QED BY <1>2, <3>1, <3>2
    <2>2. photos' = photos /\ status' = "DRAFT"
        BY <1>2 DEF AddPhotoRead, RemovePhotoRead, NothingWritten
    <2> QED BY <2>1, <2>2, SubmitSteps
<1>3. ASSUME NEW c \in Clients, AddPhotoSave(c) \/ AddCommit(c) \/ RemoveCommit(c) PROVE SubmitInv'
    <2>1. PICK next : Then(c, next) /\ next.step \in {"idle", "destroy"}
        BY <1>3, Holds, Disposal DEF AddPhotoSave, AddCommit, RemoveCommit, Does
    <2>2. status' = status /\ (photos' = photos \/ request[c].step \in PhotoSteps)
        BY <1>3 DEF AddPhotoSave, AddCommit, RemoveCommit, Does
    <2> QED BY <2>1, <2>2, SubmitSteps
<1>4. ASSUME NEW c \in Clients, SubmitRead(c) PROVE SubmitInv'
    <2>1. PICK next : Then(c, next) /\ next.step = "submit"
        BY <1>4 DEF SubmitRead
    <2>2. photos' = photos /\ status' = status /\ PhotosComplete
        BY <1>4 DEF SubmitRead, NothingWritten
    <2> QED BY <2>1, <2>2, SubmitSteps
<1>5. ASSUME NEW c \in Clients, SubmitWrite(c) PROVE SubmitInv'
    <2>1. Then(c, Idle) /\ Idle.step = "idle" /\ photos' = photos /\ Does(c, "submit")
        BY <1>5 DEF SubmitWrite, Fail, NothingWritten, Idle
    <2> QED BY <2>1, SubmitSteps
<1>6. ASSUME NEW c \in Clients, DetailsRead(c) \/ AddRead(c) \/ RemoveRead(c) PROVE SubmitInv'
    <2>1. PICK next : Then(c, next) /\ next.step \in {"details", "add", "remove"}
        <3>1. CASE DetailsRead(c)
            BY <3>1 DEF DetailsRead
        <3>2. CASE AddRead(c)
            BY <3>2 DEF AddRead
        <3>3. CASE RemoveRead(c)
            BY <3>3 DEF RemoveRead
        <3> QED BY <1>6, <3>1, <3>2, <3>3
    <2>2. photos' = photos /\ status' = status
        BY <1>6 DEF DetailsRead, AddRead, RemoveRead, NothingWritten
    <2> QED BY <2>1, <2>2, SubmitSteps
<1>7. ASSUME NEW c \in Clients, CloseCommit(c) PROVE SubmitInv'
    <2>1. Then(c, Idle) /\ Idle.step = "idle" /\ photos' = photos
        BY <1>7 DEF CloseCommit, Idle
    <2>2. status # "DRAFT"
        BY <1>7 DEF CloseCommit, ClosingInv
    <2> QED BY <2>1, <2>2, SubmitSteps
<1>8. ASSUME NEW c \in Clients, Interrupt(c) PROVE SubmitInv'
    <2>1. Then(c, Idle) /\ Idle.step = "idle" /\ photos' = photos /\ status' = status
        BY <1>8 DEF Interrupt, Idle
    <2> QED BY <2>1, SubmitSteps
<1>9. CASE UNCHANGED vars
    BY <1>9 DEF vars, SubmitInv, PhotosComplete, Taken, Does
<1> QED BY <1>1, <1>2, <1>3, <1>4, <1>5, <1>6, <1>7, <1>8, <1>9 DEF Next, Handler

\* If no photo of the treatment is edited while a submission is between its checks and its
\* update, a submitted dossier has the photos that submit requires, and keeps them: requests
\* may otherwise overlap and be cut short.  submit does not ensure the hypothesis, and without
\* it the property fails.
THEOREM SubmittedStaysComplete == Spec /\ []SubmissionApart => []SubmittedComplete
<1>1. Init => SubmitInv
    BY DEF Init, SubmitInv, Does, Idle
<1>2. Inv /\ SubmissionApart /\ SubmissionApart' /\ SubmitInv /\ [Next]_vars => SubmitInv'
    BY SubmitStep
<1>3. SubmitInv => SubmittedComplete
    BY DEF SubmitInv, SubmittedComplete
<1> QED BY <1>1, <1>2, <1>3, InvHolds, PTL DEF Spec

=============================================================================

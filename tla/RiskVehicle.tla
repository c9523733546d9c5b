----------------------------- MODULE RiskVehicle -----------------------------
(***************************************************************************)
(* One Risk dossier (risk-vehicles.service.ts): its life cycle DRAFT ->    *)
(* SUBMITTED -> COMMERCIAL_PHOTOS -> CLOSED, the treatment photos taken    *)
(* while it is a draft, the commercial gallery, and the image store        *)
(* (Cloudinary) that holds what the photo rows point to.                   *)
(*                                                                         *)
(* Requests interleave at their database calls, as in VehicleCheck.  The   *)
(* gallery's transactions and the closure first update the dossier's row,  *)
(* which locks it until they commit; lock names the request that holds it. *)
(*                                                                         *)
(* A rejected request changes nothing and is not represented.  Who may     *)
(* call what, comments, assignments and texts are left out.                *)
(***************************************************************************)
EXTENDS Naturals, Sequences

CONSTANTS
    Clients,           \* the requests that may be in progress at one time
    TreatmentAssets,   \* images a browser may upload, each for one treatment photo
    CommercialAssets,  \* and each for one photo of the commercial gallery
    RequiredPhotos,    \* REQUIRED_PHOTO_CATEGORIES
    Damages,           \* damage groups, each with a wide view and a close-up
    RequiredSlots,     \* COMMERCIAL_REQUIRED_SLOTS
    OptionalSlots      \* COMMERCIAL_OPTIONAL_SLOTS

ASSUME RiskSlotsAssumption ==
    /\ RequiredSlots \cap OptionalSlots = {} /\ OptionalSlots # {}
    /\ TreatmentAssets \cap CommercialAssets = {}

Assets == TreatmentAssets \cup CommercialAssets

Views == {"DAMAGE_WIDE", "DAMAGE_CLOSE_UP"}
PhotoSlots == RequiredPhotos \cup (Damages \X Views)
CommercialSlots == RequiredSlots \cup OptionalSlots
Equipment == {"PRESENT", "ABSENT", "TO_CHECK"}
LifeCycle == <<"DRAFT", "SUBMITTED", "COMMERCIAL_PHOTOS", "CLOSED">>
Statuses == {LifeCycle[k] : k \in 1..4}

NoPhoto == [row |-> "none"]
NoClient == "nobody"

ASSUME RiskNamesAssumption == NoClient \notin Clients /\ "none" \notin Assets

VARIABLES
    status,        \* RiskVehicle.status
    history,       \* RiskStatusHistory: the statuses entered, in order
    conversation,  \* the dossier has its RiskConversation (one at most, by its unique key)
    photos,        \* RiskPhoto rows, by slot
    gallery,       \* RiskCommercialPhoto rows, by slot
    equipment,     \* commercialEquipment; UNKNOWN until the details, mileage included, are entered
    store,         \* the images Cloudinary holds
    uploaded,      \* the images ever uploaded
    lock,          \* the request whose transaction holds the dossier's row
    request,       \* what each request has still to do
    interrupted    \* a request was cut short (crash, error of Cloudinary)

dossier == <<status, history, conversation>>
images == <<store, uploaded>>
vars == <<dossier, photos, gallery, equipment, images, lock, request, interrupted>>

\* A row keeps its identity (here: the image it was created with) when its image is replaced.
Photo == {NoPhoto} \cup [row : Assets, asset : Assets]

Idle == [step |-> "idle"]
Request ==
    {Idle}
    \cup [step : {"submit", "start", "close", "closeCommit"}]
    \cup [step : {"findPhoto"}, slot : PhotoSlots, asset : Assets]
    \cup [step : {"savePhoto"}, slot : PhotoSlots, asset : Assets, old : Photo]
    \cup [step : {"destroyPhoto", "deletePhoto"}, slot : PhotoSlots, photo : Photo]
    \cup [step : {"details"}, equipment : [OptionalSlots -> Equipment]]
    \cup [step : {"add"}, slot : CommercialSlots, asset : Assets]
    \cup [step : {"addCommit"}, slot : CommercialSlots, asset : Assets, old : Photo]
    \cup [step : {"remove", "removeCommit"}, slot : CommercialSlots, photo : Photo]
    \cup [step : {"destroy"}, asset : Assets]

TypeOK ==
    /\ status \in Statuses
    /\ history \in Seq(Statuses)
    /\ conversation \in BOOLEAN
    /\ photos \in [PhotoSlots -> Photo]
    /\ gallery \in [CommercialSlots -> Photo]
    /\ equipment \in [OptionalSlots -> Equipment \cup {"UNKNOWN"}]
    /\ store \subseteq uploaded
    /\ uploaded \subseteq Assets
    /\ lock \in Clients \cup {NoClient}
    /\ request \in [Clients -> Request]
    /\ interrupted \in BOOLEAN

-----------------------------------------------------------------------------

Does(c, step) == request[c].step = step
Then(c, next) == request' = [request EXCEPT ![c] = next]
Taken(rows, slot) == rows[slot] # NoPhoto

\* Mutant: an image is destroyed even if there was no photo before.
DisposeAlways(photo) ==
    [step |-> "destroy", asset |-> IF photo = NoPhoto THEN photo.row ELSE photo.asset]

\* What follows the replacement of a photo: its image is destroyed.
Dispose(photo) == IF photo = NoPhoto THEN Idle ELSE [step |-> "destroy", asset |-> photo.asset]

\* upsert on (dossier, slot)
Upsert(rows, slot, asset) ==
    [rows EXCEPT ![slot] = [row |-> IF @ = NoPhoto THEN asset ELSE @.row, asset |-> asset]]

\* Every update of the dossier's row waits for the transaction that holds it.
RowFree == lock = NoClient

\* The request reads the dossier or is refused: the database does not change.
NothingWritten ==
    UNCHANGED <<dossier, photos, gallery, equipment, images, lock, interrupted>>

Fail(c) == Then(c, Idle) /\ NothingWritten

\* The browser uploads a fresh image before it posts the photo.
Upload(a) ==
    /\ a \notin uploaded
    /\ uploaded' = uploaded \cup {a}
    /\ store' = store \cup {a}

Enter(to) ==
    /\ status' = to
    /\ history' = Append(history, to)

Init ==
    /\ status = "DRAFT"
    /\ history = <<>>
    /\ conversation = FALSE
    /\ photos = [s \in PhotoSlots |-> NoPhoto]
    /\ gallery = [s \in CommercialSlots |-> NoPhoto]
    /\ equipment = [s \in OptionalSlots |-> "UNKNOWN"]
    /\ store = {} /\ uploaded = {}
    /\ lock = NoClient
    /\ request = [c \in Clients |-> Idle]
    /\ interrupted = FALSE

(* addPhoto: treatment photos, of a draft *)

AddPhotoRead(c) ==
    /\ Does(c, "idle") /\ status = "DRAFT"
    /\ \E s \in PhotoSlots : \E a \in TreatmentAssets :
          /\ Upload(a)
          /\ Then(c, [step |-> "findPhoto", slot |-> s, asset |-> a])
    /\ UNCHANGED <<dossier, photos, gallery, equipment, lock, interrupted>>

AddPhotoFind(c) ==
    LET r == request[c] IN
    /\ Does(c, "findPhoto")
    /\ Then(c, [step |-> "savePhoto", slot |-> r.slot, asset |-> r.asset, old |-> photos[r.slot]])
    /\ NothingWritten

AddPhotoSave(c) ==
    LET r == request[c] IN
    /\ Does(c, "savePhoto")
    /\ photos' = Upsert(photos, r.slot, r.asset)
    /\ Then(c, Dispose(r.old))
    /\ UNCHANGED <<dossier, gallery, equipment, images, lock, interrupted>>

(* removePhoto: the image first, then the row *)

RemovePhotoRead(c) ==
    /\ Does(c, "idle") /\ status = "DRAFT"
    /\ \E s \in PhotoSlots :
          /\ Taken(photos, s)
          /\ Then(c, [step |-> "destroyPhoto", slot |-> s, photo |-> photos[s]])
    /\ NothingWritten

RemovePhotoDestroy(c) ==
    LET r == request[c] IN
    /\ Does(c, "destroyPhoto")
    /\ store' = store \ {r.photo.asset}
    /\ Then(c, [step |-> "deletePhoto", slot |-> r.slot, photo |-> r.photo])
    /\ UNCHANGED <<dossier, photos, gallery, equipment, uploaded, lock, interrupted>>

RemovePhotoDelete(c) ==
    LET r == request[c] IN
    /\ Does(c, "deletePhoto")
    /\ \/ photos[r.slot].row # r.photo.row /\ Fail(c)
       \/ /\ photos[r.slot].row = r.photo.row
          /\ photos' = [photos EXCEPT ![r.slot] = NoPhoto]
          /\ Then(c, Idle)
          /\ UNCHANGED <<dossier, gallery, equipment, images, lock, interrupted>>

(* submit *)

\* validatePhotoCompleteness
PhotosComplete ==
    /\ \A s \in RequiredPhotos : Taken(photos, s)
    /\ \A d \in Damages : \A v, w \in Views : Taken(photos, <<d, v>>) => Taken(photos, <<d, w>>)

SubmitRead(c) ==
    /\ Does(c, "idle") /\ status = "DRAFT" /\ PhotosComplete
    /\ Then(c, [step |-> "submit"])
    /\ NothingWritten

\* Mutant: without the unique key of the conversation.
SubmitAgain(c) ==
    /\ Does(c, "submit") /\ RowFree
    /\ Enter("SUBMITTED")
    /\ conversation' = TRUE
    /\ Then(c, Idle)
    /\ UNCHANGED <<photos, gallery, equipment, images, lock, interrupted>>

\* The update does not look at the status, but it creates the conversation.
SubmitWrite(c) ==
    /\ Does(c, "submit") /\ RowFree
    /\ \/ conversation /\ Fail(c)
       \/ /\ ~conversation
          /\ Enter("SUBMITTED")
          /\ conversation' = TRUE
          /\ Then(c, Idle)
          /\ UNCHANGED <<photos, gallery, equipment, images, lock, interrupted>>

(* startCommercial *)

StartRead(c) ==
    /\ Does(c, "idle") /\ status = "SUBMITTED"
    /\ Then(c, [step |-> "start"])
    /\ NothingWritten

StartWrite(c) ==
    /\ Does(c, "start") /\ RowFree
    /\ \/ status # "SUBMITTED" /\ Fail(c)
       \/ /\ status = "SUBMITTED"
          /\ Enter("COMMERCIAL_PHOTOS")
          /\ Then(c, Idle)
          /\ UNCHANGED <<conversation, photos, gallery, equipment, images, lock, interrupted>>

(* updateCommercialDetails, addCommercialPhoto, removeCommercialPhoto: also once closed *)

CommercialEditable == status \in {"COMMERCIAL_PHOTOS", "CLOSED"}

DetailsRead(c) ==
    /\ Does(c, "idle") /\ CommercialEditable
    /\ \E e \in [OptionalSlots -> Equipment] : Then(c, [step |-> "details", equipment |-> e])
    /\ NothingWritten

DetailsWrite(c) ==
    /\ Does(c, "details") /\ RowFree /\ CommercialEditable
    /\ equipment' = request[c].equipment
    /\ Then(c, Idle)
    /\ UNCHANGED <<dossier, photos, gallery, images, lock, interrupted>>

AddRead(c) ==
    /\ Does(c, "idle") /\ CommercialEditable
    /\ \E s \in CommercialSlots : \E a \in CommercialAssets :
          /\ Upload(a)
          /\ Then(c, [step |-> "add", slot |-> s, asset |-> a])
    /\ UNCHANGED <<dossier, photos, gallery, equipment, lock, interrupted>>

RemoveRead(c) ==
    /\ Does(c, "idle") /\ CommercialEditable
    /\ \E s \in CommercialSlots :
          /\ Taken(gallery, s)
          /\ Then(c, [step |-> "remove", slot |-> s, photo |-> gallery[s]])
    /\ NothingWritten

\* Mutant: the dossier's row is not locked.
LockNothing(c) == UNCHANGED lock

\* lockCommercialVehicle
LockRow(c) == RowFree /\ lock' = c

\* Mutant: the replaced image is destroyed inside the transaction.
AddLockAndDestroy(c) ==
    LET r == request[c]
        old == gallery[r.slot]
    IN
    /\ Does(c, "add") /\ CommercialEditable /\ LockRow(c)
    /\ Then(c, [step |-> "addCommit", slot |-> r.slot, asset |-> r.asset, old |-> old])
    /\ store' = IF old = NoPhoto THEN store ELSE store \ {old.asset}
    /\ UNCHANGED <<dossier, photos, gallery, equipment, uploaded, interrupted>>

AddLock(c) ==
    LET r == request[c] IN
    /\ Does(c, "add") /\ CommercialEditable /\ LockRow(c)
    /\ Then(c, [step |-> "addCommit", slot |-> r.slot, asset |-> r.asset,
                old |-> gallery[r.slot]])
    /\ UNCHANGED <<dossier, photos, gallery, equipment, images, interrupted>>

AddCommit(c) ==
    LET r == request[c] IN
    /\ Does(c, "addCommit")
    /\ gallery' = Upsert(gallery, r.slot, r.asset)
    /\ lock' = NoClient
    /\ Then(c, Dispose(r.old))
    /\ UNCHANGED <<dossier, photos, equipment, images, interrupted>>

\* The photo is looked for by its id once the row is locked.
RemoveLock(c) ==
    LET r == request[c] IN
    /\ Does(c, "remove") /\ CommercialEditable /\ RowFree
    /\ \/ gallery[r.slot].row # r.photo.row /\ Fail(c)
       \/ /\ gallery[r.slot].row = r.photo.row
          /\ LockRow(c)
          /\ Then(c, [step |-> "removeCommit", slot |-> r.slot, photo |-> gallery[r.slot]])
          /\ UNCHANGED <<dossier, photos, gallery, equipment, images, interrupted>>

RemoveCommit(c) ==
    LET r == request[c] IN
    /\ Does(c, "removeCommit")
    /\ gallery' = [gallery EXCEPT ![r.slot] = NoPhoto]
    /\ lock' = NoClient
    /\ Then(c, Dispose(r.photo))
    /\ UNCHANGED <<dossier, photos, equipment, images, interrupted>>

\* A replaced or removed image leaves the store.
Destroy(c) ==
    /\ Does(c, "destroy")
    /\ store' = store \ {request[c].asset}
    /\ Then(c, Idle)
    /\ UNCHANGED <<dossier, photos, gallery, equipment, uploaded, lock, interrupted>>

(* close *)

\* validateCommercialCompleteness; the mileage comes with the equipment
GalleryComplete ==
    /\ \A s \in RequiredSlots : Taken(gallery, s)
    /\ \A s \in OptionalSlots :
          equipment[s] = IF Taken(gallery, s) THEN "PRESENT" ELSE "ABSENT"

CloseRead(c) ==
    /\ Does(c, "idle") /\ status = "COMMERCIAL_PHOTOS"
    /\ Then(c, [step |-> "close"])
    /\ NothingWritten

CloseLock(c) ==
    /\ Does(c, "close") /\ RowFree
    /\ \/ ~(status = "COMMERCIAL_PHOTOS" /\ GalleryComplete) /\ Fail(c)
       \/ /\ status = "COMMERCIAL_PHOTOS" /\ GalleryComplete
          /\ LockRow(c)
          /\ Then(c, [step |-> "closeCommit"])
          /\ UNCHANGED <<dossier, photos, gallery, equipment, images, interrupted>>

CloseCommit(c) ==
    /\ Does(c, "closeCommit")
    /\ Enter("CLOSED")
    /\ lock' = NoClient
    /\ Then(c, Idle)
    /\ UNCHANGED <<conversation, photos, gallery, equipment, images, interrupted>>

\* The process stops, or the database or Cloudinary fails: a transaction is rolled back,
\* what was done before stays.
Interrupt(c) ==
    /\ ~Does(c, "idle")
    /\ interrupted' = TRUE
    /\ lock' = IF lock = c THEN NoClient ELSE lock
    /\ Then(c, Idle)
    /\ UNCHANGED <<dossier, photos, gallery, equipment, images>>

-----------------------------------------------------------------------------

Handler(c) ==
    \/ AddPhotoRead(c) \/ AddPhotoFind(c) \/ AddPhotoSave(c)
    \/ RemovePhotoRead(c) \/ RemovePhotoDestroy(c) \/ RemovePhotoDelete(c)
    \/ SubmitRead(c) \/ SubmitWrite(c) \/ StartRead(c) \/ StartWrite(c)
    \/ DetailsRead(c) \/ DetailsWrite(c)
    \/ AddRead(c) \/ AddLock(c) \/ AddCommit(c)
    \/ RemoveRead(c) \/ RemoveLock(c) \/ RemoveCommit(c) \/ Destroy(c)
    \/ CloseRead(c) \/ CloseLock(c) \/ CloseCommit(c)

Next == \E c \in Clients : Handler(c) \/ Interrupt(c)

Spec == Init /\ [][Next]_vars

-----------------------------------------------------------------------------

\* Whatever requests overlap (two submissions, a submission and a stale one, a closure), the
\* history lists each status once, in the order of the life cycle, and ends with the status of
\* the dossier: submit's update does not test the status, the conversation's unique key stops it.
LifeCycleFollowed ==
    /\ Len(history) < Len(LifeCycle)
    /\ status = LifeCycle[Len(history) + 1]
    /\ \A k \in 1..Len(history) : history[k] = LifeCycle[k + 1]

\* A dossier is closed on a gallery that is complete at that moment, though the photos and the
\* equipment may be edited by other requests while close checks them (lockCommercialVehicle:
\* "Serialize gallery edits and closure on the parent dossier").
ClosesComplete == [][status # "CLOSED" /\ status' = "CLOSED" => GalleryComplete']_vars

Removing(s) ==
    \E c \in Clients : Does(c, "deletePhoto") /\ request[c].photo.row = photos[s].row

\* No photo points to an image that is gone: of the gallery never, even when a transaction is
\* rolled back half way; of the treatment only while a removal is between the image and its row,
\* or after one was cut there.
PhotosHaveTheirImage ==
    /\ \A s \in CommercialSlots : Taken(gallery, s) => gallery[s].asset \in store
    /\ \A s \in PhotoSlots :
          Taken(photos, s) => photos[s].asset \in store \/ Removing(s) \/ interrupted

Held(a) ==
    \/ \E s \in CommercialSlots : Taken(gallery, s) /\ gallery[s].asset = a
    \/ \E c \in Clients : request[c].step \in {"add", "addCommit", "destroy"} /\ request[c].asset = a

\* Unless a request is cut short, no commercial image is left behind in the store: each is the
\* image of a row, or a request has it in hand.  Two replacements of one slot may not both take
\* the same photo for the previous one.
GalleryTidy == ~interrupted => \A a \in CommercialAssets \cap store : Held(a)

\* What submit requires ("rejects a dossier when a required photo is missing") and the edits of
\* photos ("Only a draft Risk dossier can be edited") together promise of a submitted dossier.
SubmittedComplete == status # "DRAFT" => PhotosComplete

=============================================================================

\* Two requests on one dossier with one required treatment photo, one damage, and a gallery of one required and one optional slot.
CONSTANTS
    Clients = {c1, c2}
    TreatmentAssets = {t1, t2, t3}
    CommercialAssets = {g1, g2}
    RequiredPhotos = {dashboard}
    Damages = {scratch}
    RequiredSlots = {trunk}
    OptionalSlots = {manual}
SPECIFICATION Spec
SYMMETRY Interchangeable
INVARIANTS TypeOK LifeCycleFollowed PhotosHaveTheirImage GalleryTidy
PROPERTIES ClosesComplete
\* A draft may run out of images to upload.
CHECK_DEADLOCK FALSE

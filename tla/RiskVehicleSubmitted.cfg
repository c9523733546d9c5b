\* Two requests overlap: a removal begun on the draft ends after its submission.
CONSTANTS
    Clients = {c1, c2}
    TreatmentAssets = {t1, t2}
    CommercialAssets = {g1, g2, g3}
    RequiredPhotos = {dashboard}
    Damages = {}
    RequiredSlots = {trunk}
    OptionalSlots = {manual}
SPECIFICATION Spec
SYMMETRY Interchangeable
INVARIANT SubmittedComplete
\* A draft may run out of images to upload.
CHECK_DEADLOCK FALSE

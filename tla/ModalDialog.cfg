\* Two forms and the review form; the changes of the first are followed to the page.
CONSTANTS
    Forms = {f1, f2, f3}
    ReviewForms = {f3}
    Followed = {f1}
    MaxLoads = 1
    None = None
SPECIFICATION Spec
INVARIANTS
    TypeOK
    TrackerAgrees
    OneSubmission
    ReviewFormAgrees
PROPERTIES
    SavedDialogsClose
    DialogsAppear
    SavedIsShown

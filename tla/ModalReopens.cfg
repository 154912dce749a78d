\* Two forms, the second one fetched while the first is fading.
CONSTANTS
    Forms = {f1, f2}
    ReviewForms = {}
    Followed = {}
    MaxLoads = 1
    None = None
SPECIFICATION Spec
PROPERTIES
    SavedFormsClose

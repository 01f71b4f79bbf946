CONSTANTS
    MaxAmount = 20
    MaxCategories = 3
    CallIds = {k1, k2}
    Units <- MCUnits
    Texts <- MCTexts
    FirstText <- MCFirstText
    Screens = {"details", "settlements", "rule", "occurrence", "budget", "categories"}
    MaxWork <- MCMaxWork
SPECIFICATION PageSpec
INVARIANTS
    PageTypeOK
    QuietPageIsCurrent
PROPERTIES
    AmountsAsMeant
SYMMETRY Symmetry
CHECK_DEADLOCK FALSE

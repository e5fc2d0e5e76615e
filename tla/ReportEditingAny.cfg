SPECIFICATION Spec
CONSTANTS
    None = none
    NoDoc = noDoc
    none = none
    noDoc = noDoc
    e1 = e1
    s1 = s1
    p1 = p1
    p2 = p2
    p3 = p3
    PageIds <- MCPageIds
    Titles <- MCTitles
    Taken <- MCTaken
    FirstDoc <- MCFirstDoc
    VersionCap = 2
    Editors = {e1}
    Studios = {s1}
    Acts = {"leave", "kill", "edit", "undo", "retitle", "page", "delete page", "save", "elsewhere"}
    HistoryCap = 3
    MaxActs = 4
INVARIANTS
    SavesAreKept
    CleanIsStored
PROPERTIES
    LeavingSaves
    PagesKeepTheirBodies
CHECK_DEADLOCK FALSE

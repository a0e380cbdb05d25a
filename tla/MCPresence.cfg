CONSTANTS
    People = {1, 2, 3}
    Speakers = {1, 3}
    MaxAttending = 1
    SummaryFrame = 1
    RevisionCap = 1
    EntryBytes <- MCEntryBytes
    CursorBytes <- MCCursorBytes
    PageFrame = 1
    MaxTypeBytes = 64
    MaxMessageBytes = 39
    MaxPage = 3
    PageSizes = {1, 3}
    Window = 2
    Stretch = 3
SPECIFICATION FairSpec
INVARIANTS NothingIsDropped LagIsBounded SummariesAreBoundedByTime WalkMissesNobody
PROPERTIES WalkEnds StopsOnlyAtWhatDoesNotFit

CONSTANTS
    a1 = a1  a2 = a2  s1 = s1  s2 = s2
    none = none  here = here  elsewhere = elsewhere  long = long
    listener = listener  speaker = speaker  ours = ours  theirs = theirs
    EligibilityCeiling = 1
    Texts <- MCTexts
    NoText = none
    TextBytes <- MCTextBytes
    SigningKeys = {ours, theirs}
    KeyBytes <- MCKeyBytes
    TicksPerSecond = 2
    MaxLifetime = 3
    Calls <- MCCalls
    Units = {1, 2}
    RoomId = here
    Rooms <- MCRooms
    Requests <- MCRequests
    Issued <- MCIssued
    OperatorKey = ours
    MayPublish = {speaker}
    Sweeps <- MCSweeps
    Window = 1
    Horizon = 3
SPECIFICATION FairSpec
INVARIANTS EndsOnce RefusalLeavesNothing UnitsHoldWhatWasAllowed CredentialsOpenTheirDoor
PROPERTIES AdmissionsEnd AskedOnACredential

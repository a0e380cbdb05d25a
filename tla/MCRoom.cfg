CONSTANTS
    s1 = s1  u1 = u1  u2 = u2
    ParticipantValues <- MCParticipants
    SourceValues <- MCSources
    Here = "here"
    Units <- MCUnits
    Conferences = {"here"}
    Participants = {"speaker", "listener"}
    Profiles <- MCProfiles
    NoProfile = none
    Sources <- MCSources
    Streams <- MCStreams
    StreamBuffer = 1
SPECIFICATION Spec
SYMMETRY MCSymmetry
INVARIANTS TypeOK BeliefIsRightOrToBeTold NothingOutlivesItsConference SentIsSubscribed SubscribedIsServable MissedMeansBroken

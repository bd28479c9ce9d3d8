SPECIFICATION FairSpec
CONSTANTS
    Caller <- MCCaller
    Target = 1
    MaxTracks = 2
    MaxCands = 1
INVARIANTS CandidatesOnce OwnAnswers CustomAcked NoAnswerLost NoOrphan
PROPERTIES StoppedEnds
CHECK_DEADLOCK FALSE

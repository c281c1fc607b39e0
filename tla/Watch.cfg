SPECIFICATION FairSpec
CONSTANTS
    N = 2
    MaxScore = 1
    Threshold = 1
    MaxEvents = 2
    MaxErrors = 1
INVARIANTS SelectsLeast  ManualSticks
PROPERTIES  FollowsActive Rotates IdentityFollows

\* Messages come, the user scrolls, the terminal changes its size.
SPECIFICATION FairSpec
CONSTANTS
    Heights = {2, 3}
    MaxMessages = 3
    MaxKeys = 2
    MaxResizes = 1
INVARIANTS TypeOK ScreenIsCurrent FollowsLatest
PROPERTIES EveryMessageIsDrawn

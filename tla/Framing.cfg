\* Messages that fit and such that are too long (5 gives a negative size, 8 none at all,
\* 9 that of a short message), cut by the network wherever it likes.
SPECIFICATION FairSpec
CONSTANTS
    SizeMax = 3
    Length = {1, 2, 3, 5, 8, 9}
    MaxSends = 3
INVARIANTS TypeOK
PROPERTIES ImplementsChannel EverySentArrives
CHECK_DEADLOCK FALSE

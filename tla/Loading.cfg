CONSTANTS
    IntBits = 16
    PortWord = 8192
    SizeWord = 1073741824
    Files <- MCFiles
SPECIFICATION Spec
INVARIANTS
    LoadingTypeOK
    ReadsWhatIsWritten
    CommentsMeetAValue
    EveryServiceLoaded
    WorkIsBounded

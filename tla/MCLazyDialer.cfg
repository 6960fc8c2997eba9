SPECIFICATION Spec
CONSTANTS
    User = {u1, u2, u3}
    IdleAfter = 2
    CallbackCap = 3
INVARIANTS
    TypeOK
    ActiveCountsUsers
    IdleBoxIsWatched
PROPERTIES
    ImplementsRefCount
    IdleBoxCloses

SPECIFICATION RoomSpec
CONSTANTS
    alice = alice
    bob = bob
    r1 = r1
    r2 = r2
    User = {alice, bob}
    Local = {alice}
    Room = {r1, r2}
    JoinRules = {"knock"}
    Contents <- MCContents
    Stamps = {1}
    MaxAdded = 2
SYMMETRY Symmetry
INVARIANTS
    RoomTypeOK
    PowerComesFromHere
    SpeakersJoined
CHECK_DEADLOCK FALSE

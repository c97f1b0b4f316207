SPECIFICATION RoomSpec
CONSTANTS
    alice = alice
    bob = bob
    r1 = r1
    r2 = r2
    User = {alice, bob}
    Local = {alice}
    Room = {r1, r2}
    JoinRules = {"knock"}
    Contents <- MCContents
    Stamps = {9}
    MaxAdded = 3
PROPERTY
    ValidIsAllowedNow
CHECK_DEADLOCK FALSE

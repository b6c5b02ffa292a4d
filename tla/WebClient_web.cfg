SPECIFICATION FairSpec
CONSTANTS
    Room = Room
    Solo = Solo
    NoMatch = NoMatch
    NoToken = NoToken
    User = User
    Slot = {s1}
    Calls = {"room", "join", "solo", "resume"}
    MaxRev <- Revisions
INVARIANTS EventsFaithful OneWatcher RoomNotKept
PROPERTY PollingRecovers

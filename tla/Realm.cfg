SPECIFICATION Spec
CONSTANTS
    None = None
    Accounts = {a, b}
    Players = {a}
    Characters = {c, d}
    Names = {n}
    Realm = 1
    OtherRealm = 2
    MaxCharacters = 1
    IdAttempts = 2
    Imported = a
    ImportedCharacter = c
    ImportedName = n
    Sessions = {s1, s2}
    MaxPending = 2
    DataWorkers = 2
    DataCapacity = 2
    MaxEvents = 1
    MaxLevelExp = 2
    MaxFaults = 1
    Services = {realm, gateway}
    RealmService = realm
    MaxMessages = 5
INVARIANT TrueReplies
INVARIANT RosterSound
INVARIANT SessionsSound
PROPERTY ExperienceSound
SYMMETRY Symmetry
CHECK_DEADLOCK FALSE

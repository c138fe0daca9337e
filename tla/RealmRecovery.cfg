SPECIFICATION FairSpec
CONSTANTS
    h1 = h1
    Handlers = {h1}
    Main = Main
    Health = Health
    None = None
    Active <- NotTheLast
    MaxChanges = 2
    MaxModes = 1
    MaxCrashes = 1
    MaxKills = 1
    MaxFails = 1
    MaxOverlaps = 1
    MaxProcs = 6
INVARIANTS
    RunningIsWatched
    OneRealmWhileCalm
    CurrentWhileCalm
PROPERTIES
    DeathIsNoticed
    RealmComesBack
    ApplyReturns
CHECK_DEADLOCK FALSE

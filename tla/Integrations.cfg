CONSTANTS
    s1 = s1 s2 = s2 j1 = j1 j2 = j2
    Sites = {s1, s2} LegacySites = {s1}
    Syncs = {j1, j2}
    Manifests <- MCManifests
    Cadence = 1 MaxFaults = 1 MaxCancels = 1
    t1 = t1 t2 = t2
    Objects = {1, 2, 3}
    Folder <- MCFolder
    Folders = 2 MaxSize = 2 MaxSamples = 3
    Tests = {t1, t2}
    MaxWrites = 1 MaxChildFaults = 1 MaxJobCancels = 2
    a = a b = b
    Ids = {a, b}
    MaxPending = 2 MaxRev = 4 MaxPushes = 3 MaxSessions = 2
    u1 = u1 u2 = u2 u3 = u3
    Names <- MCNames
    Loadable <- MCLoadable
    Odd <- MCOdd
    Containers = {"caddy", "a.b"}
    Units = {u1, u2, u3}
    Spoiling = {u3}
    StemOf <- MCStemOf
    GroupOf <- MCGroupOf
    MaxSetups = 3
SPECIFICATION MCSpec
INVARIANTS JobsSound ReleasedWasSeen SetupSound
PROPERTIES SyncedIsServed
SYMMETRY Symmetric
CHECK_DEADLOCK FALSE
